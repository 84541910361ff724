SPECIFICATION Spec
CONSTANTS
    Formats = {"epub", "paged"}
    Chapters = 1
    ChapterPages = 2
    Interval = 2
    MaxFootnoteDepth = 1
    MaxFaults = 1
INVARIANTS
    TypeOK
    ReopensAtLastSave
    LossIsBounded
    RestartKeepsPlace
CONSTRAINT
    OverlapsOutsideFootnotes
