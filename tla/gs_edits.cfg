SPECIFICATION Spec
CONSTANTS
    None = None
    Corrupt = Corrupt
    Newer = Newer
    Readers = {"epub"}
    MaxPages = 2
    MaxBooks = 2
    MaxFaults = 0
INVARIANTS
    BooksAreCounted
