\* The components of an operator's machine, one at a time.
SPECIFICATION LocalSpec
CONSTANTS
    Executions = {e1, e2}
    BlockRules = {rb}
    ConfirmRules = {rc}
    Kinds = {"shell_command", "file_write", "http_request"}
    Nobody = Nobody
    SourceModes = {"pack", "directory"}
    WithProfile = {"pack"}
    Tasks = {"t"}
    MaxVersion = 2
    MaxFiles = 2
    Versions = {1, 2, 3}
    Invalid = {3}
    MaxTexts = 2
    MaxEdits = 2
    Builds = {b1, b2, b3}
    MaxTouched = 3
    Sealed = {g1}
    Searches = {q1}
    Backends = {"qdrant", "pgvector"}
    KeyCount = 2
    BatchSize = 1
    TopK = 1
    MaxTampers = 1
    Artifacts = {a1, a2}
    Manifest = manifest
    MaxChanges = 2
    Importers = {p1}
    Seed = g1
    Imports = {g1, g2}
    MaxRoots = 3
SYMMETRY MCSymmetry
INVARIANTS LocalTypeOK EvidenceIsTrue ReadyMeansWhole LeftoversAreReclaimed
PROPERTIES EditsAreKept
CHECK_DEADLOCK FALSE
