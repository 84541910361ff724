SPECIFICATION FairSpec
CONSTANTS
    Controllers = {c1, c2, c3}
    Words = {w1, w2}
    NoOne = NoOne
    NoWord = NoWord
INVARIANTS
    NoUseAfterFree
    LookupIsUndisturbed
    ShowsWhatWasAsked
PROPERTIES
    LookupEnds
    ExitReturns
