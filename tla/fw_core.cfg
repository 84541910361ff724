SPECIFICATION Spec
CONSTANTS
    Images = {m1, m2}
    Bad = Bad
    Erased = Erased
    Blocks = 2
    Rollback = TRUE
    MaxSeq = 5
INVARIANTS
    AlwaysBoots
    SelectedIsWhole
    InterruptedUpdateKeepsImage
    FinishedUpdateStarts
