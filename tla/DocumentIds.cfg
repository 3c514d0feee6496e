\* A document whose headings repeat a title and spell the number of the repetition.
SPECIFICATION DocumentSpec
CONSTANTS
    MaxFront = 0
    MaxBody = 3
    MaxEdits = 0
    Roots = 2
    FilesPerRoot = 2
    Declares <- MCDeclares
    MaxText = 3
    Directories = {"dx", "dy"}
    DirectoryOf <- MCDirectoryOf
    Editions <- MCEditions
    RulesOf <- MCRulesOf
    Profiles <- MCProfiles
    Selections <- MCSelections
    Lower <- MCLower
    Matched <- MCMatched
    Requests <- MCRequests
    Indexes <- MCIndexes
INVARIANT ChunkIdsAreUnique
CHECK_DEADLOCK FALSE
