\* Commands that publish, switch and prune against each other, and a reader.
SPECIFICATION Spec
CONSTANTS
    Ids = {g1, g2, g3}
    NoId = NoId
    Commands = {c1, c2, c3}
    NoCommand = NoCommand
    Readers = {r1}
    AutoKeep = 0
    PruneKeep = 0
    MaxHolders = 2
SYMMETRY MCSymmetry
INVARIANTS TypeOK SelectionIsDurable WhatIsUsedStays
PROPERTIES SwitchedAsExpected ImplementsRetention
CHECK_DEADLOCK FALSE
