\* Sources, documents, packs, searches, answers and suites, one at a time.
SPECIFICATION ContentSpec
CONSTANTS
    MaxFront = 6
    MaxBody = 5
    MaxEdits = 2
    Roots = 2
    FilesPerRoot = 2
    Declares <- MCDeclares
    MaxText = 3
    Directories = {"dx", "dy"}
    DirectoryOf <- MCDirectoryOf
    Editions <- MCEditions
    RulesOf <- MCRulesOf
    Profiles <- MCProfiles
    Selections <- MCSelections
    Lower <- MCLower
    Matched <- MCMatched
    Requests <- MCRequests
    Indexes <- MCIndexes
INVARIANTS ContentTypeOK CapturesAreWhole ReadsAsWritten ReviewedPoliciesDecide AnswersAreGrounded VerdictsAreEarned
CHECK_DEADLOCK FALSE
