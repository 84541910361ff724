--------------------------- MODULE GlobalReadingStats ---------------------------
(***************************************************************************)
(* The all-time reading statistics: the file on the card, the backup it is *)
(* rotated into and the temporary file a save goes through                 *)
(* (src/activities/reader/GlobalReadingStats.cpp), together with the       *)
(* copies that a reader and the statistics screen above it keep in RAM and *)
(* write back at their own time.                                           *)
(*                                                                         *)
(* Of the statistics two counters are kept: the pages, which a reader      *)
(* counts in RAM until it closes, and the finished books, which either     *)
(* screen can change.  A storage operation may fail and power may be lost  *)
(* between any two of them; each such event is a fault.  A rename or       *)
(* remove of the card is atomic.                                           *)
(***************************************************************************)
EXTENDS Integers

CONSTANTS
    None,      \* no file
    Corrupt,   \* a file that is partly written or otherwise invalid
    Newer,     \* a file in the format of a newer firmware
    Readers,   \* the readers in use: "epub", "xtc"
    MaxPages,  \* bound: pages turned
    MaxBooks,  \* bound: books finished
    MaxFaults  \* bound: failing operations, power losses and corrupt files

ASSUME ReadersAssumption == Readers \subseteq {"epub", "xtc"}
ASSUME BoundsAssumption == MaxPages \in Nat /\ MaxBooks \in Nat /\ MaxFaults \in Nat

Stats == [pages : Nat, books : Nat]
Zero == [pages |-> 0, books |-> 0]
NoStats == {None, Corrupt, Newer}
ASSUME FilesAssumption == NoStats \cap Stats = {} /\ Newer \notin {None, Corrupt}

VARIABLES
    file,    \* global_stats.bin
    backup,  \* global_stats.bin.bak
    temp,    \* global_stats.bin.tmp
    blocked, \* s_blockDestructiveSave
    pc,      \* the next storage operation of saveToFile(), "idle" outside it
    op,      \* "save" with the backup, or "reset" without it
    saving,  \* the statistics being saved
    screen,  \* "Home" (any screen without a reader), "Reader", "Stats" above
             \*   it, "Return" or "Leaving" once that screen is gone
    reader,  \* the kind of the open reader
    mem,     \* the reader's globalStats
    copy,    \* the statistics screen's globalStats
    edited,  \* its didChangeStats
    base,    \* observation: what load() would have found when the save began,
    whole,   \*   and whether it was in the file itself
    counted, \* observation: what the user has read and finished
    faults   \* observation: faults so far

diskVars == <<file, backup, temp>>
saveVars == <<pc, op, saving, base, whole>>
uiVars   == <<screen, reader, mem, copy, edited>>
vars     == <<diskVars, blocked, saveVars, uiVars, counted, faults>>

SavePcs == {"openTemp", "writeTemp", "removeBackup", "rotate", "removeFile",
            "publish", "rollback"}

\* The type invariant.
TypeOK ==
    /\ file \in Stats \cup NoStats /\ backup \in Stats \cup NoStats
    /\ temp \in Stats \cup {None, Corrupt}
    /\ blocked \in BOOLEAN /\ edited \in BOOLEAN
    /\ pc \in SavePcs \cup {"idle"} /\ op \in {"save", "reset"}
    /\ screen \in {"Home", "Reader", "Stats", "Return", "Leaving"}
    /\ reader \in {"epub", "xtc"}
    /\ saving \in Stats /\ mem \in Stats /\ copy \in Stats /\ counted \in Stats
    /\ base \in Stats /\ whole \in BOOLEAN
    /\ faults \in Nat

-----------------------------------------------------------------------------
(* load(): the file, else the backup, else nothing.                        *)
Loaded ==
    IF file \in Stats THEN file
    ELSE IF file # Newer /\ backup \in Stats THEN backup
    ELSE Zero

\* It meets a file it must not overwrite; mutant: it does not notice.
NewerOverlooked == FALSE
NewerFound == file = Newer \/ (file \notin Stats /\ backup = Newer)

\* s_blockDestructiveSave after a load().
Blocked == blocked \/ NewerFound

Init ==
    /\ \/ file = None /\ backup = None
       \/ file = Zero /\ backup \in {None, Zero}
       \/ file = Newer /\ backup \in {None, Newer, [Zero EXCEPT !.pages = 1]}
       \/ file = Corrupt /\ backup = [Zero EXCEPT !.pages = 1] /\ MaxFaults > 0
    /\ temp = None /\ blocked = FALSE
    /\ pc = "idle" /\ op = "save" /\ saving = Zero
    /\ base = Zero /\ whole = FALSE
    /\ screen = "Home" /\ reader \in Readers
    /\ mem = Zero /\ copy = Zero /\ edited = FALSE
    /\ counted = Loaded
    /\ faults = IF file = Corrupt THEN 1 ELSE 0

-----------------------------------------------------------------------------
(* saveToFile().  Everything else waits for it: there is one task.         *)
Begin(kind, s) ==
    /\ pc' = "openTemp" /\ op' = kind /\ saving' = s
    /\ base' = Loaded /\ whole' = (file \in Stats)

\* save(), which does nothing once b says so.
Save(s, b) == IF b THEN UNCHANGED saveVars ELSE Begin("save", s)

Idle ==
    /\ pc' = "idle" /\ saving' = Zero /\ base' = Zero /\ whole' = FALSE
    /\ UNCHANGED op
Go(next) == pc' = next /\ UNCHANGED <<op, saving, base, whole>>
Fault == faults < MaxFaults /\ faults' = faults + 1

\* An operation fails: the temporary file is removed, if that does not fail.
Fails ==
    /\ Fault /\ Idle
    /\ temp' \in {None, temp}
    /\ UNCHANGED <<file, backup>>

\* A stale temporary file is removed and a new one is opened.
OpenTemp ==
    /\ pc = "openTemp"
    /\ \/ temp' = Corrupt /\ Go("writeTemp") /\ UNCHANGED <<file, backup, faults>>
       \/ Fails

\* It is written, synced, closed, and its size verified.
WriteTemp ==
    /\ pc = "writeTemp"
    /\ \/ /\ temp' = saving
          /\ Go(IF op = "save" THEN "removeBackup" ELSE "removeFile")
          /\ UNCHANGED <<file, backup, faults>>
       \/ Fails

RemoveBackup ==
    /\ pc = "removeBackup"
    /\ \/ backup' = None /\ Go("rotate") /\ UNCHANGED <<file, temp, faults>>
       \/ Fails

\* The file becomes the backup; mutant: it is removed, as in a reset.
BackupAfterRemove == backup
BackupAfterRotate == IF file = None THEN backup ELSE file

Rotate ==
    /\ pc = "rotate"
    /\ \/ /\ backup' = BackupAfterRotate /\ file' = None
          /\ Go("publish") /\ UNCHANGED <<temp, faults>>
       \/ Fails

RemoveFile ==
    /\ pc = "removeFile"
    /\ \/ file' = None /\ Go("publish") /\ UNCHANGED <<backup, temp, faults>>
       \/ Fails

\* The temporary file becomes the file.
Publish ==
    /\ pc = "publish"
    /\ \/ file' = temp /\ temp' = None /\ Idle /\ UNCHANGED <<backup, faults>>
       \/ /\ op = "save" /\ backup # None
          /\ Fault /\ Go("rollback") /\ UNCHANGED diskVars
       \/ ~(op = "save" /\ backup # None) /\ Fails

\* The rename back, whose result is not looked at.
Rollback ==
    /\ pc = "rollback"
    /\ \/ /\ file' = backup /\ backup' = None
          /\ temp' \in {None, temp} /\ Idle /\ UNCHANGED faults
       \/ Fails

SaveToFile ==
    /\ \/ OpenTemp \/ WriteTemp \/ RemoveBackup \/ Rotate \/ RemoveFile
       \/ Publish \/ Rollback
    /\ UNCHANGED <<blocked, uiVars, counted>>

-----------------------------------------------------------------------------
(* The screens.                                                            *)
At(s) == pc = "idle" /\ screen = s

\* A book, no matter which, is marked finished or no longer finished; mutant:
\* also below zero.
MarkedUnchecked(s, up) == [s EXCEPT !.books = IF up THEN @ + 1 ELSE @ - 1]
Marked(s, up) ==
    [s EXCEPT !.books = IF up THEN @ + 1 ELSE IF @ > 0 THEN @ - 1 ELSE 0]
Mark(s, up) == /\ up => s.books < MaxBooks /\ counted.books < MaxBooks
               /\ counted' = Marked(counted, up)

\* onEnter() of a reader.
OpenBook ==
    /\ At("Home") /\ screen' = "Reader" /\ reader' \in Readers
    /\ mem' = Loaded /\ blocked' = Blocked
    /\ UNCHANGED <<diskVars, saveVars, copy, edited, counted, faults>>

TurnPage ==
    /\ At("Reader") /\ mem.pages < MaxPages /\ counted.pages < MaxPages
    /\ mem' = [mem EXCEPT !.pages = @ + 1]
    /\ counted' = [counted EXCEPT !.pages = @ + 1]
    /\ UNCHANGED <<diskVars, blocked, saveVars, screen, reader, copy, edited, faults>>

\* setBookCompleted() of a reader.
MarkInReader(up) ==
    /\ At("Reader") /\ Mark(mem, up)
    /\ mem' = Marked(mem, up)
    /\ Save(mem', blocked)
    /\ UNCHANGED <<diskVars, blocked, screen, reader, copy, edited, faults>>

\* The statistics screen is pushed above the reader with a copy.
OpenStats ==
    /\ At("Reader") /\ screen' = "Stats" /\ copy' = mem
    /\ UNCHANGED <<diskVars, blocked, saveVars, reader, mem, edited, counted, faults>>

\* A date of the book is edited in it, which may also mark the book.
EditDate ==
    /\ At("Stats") /\ edited' = TRUE
    /\ UNCHANGED <<diskVars, blocked, saveVars, screen, reader, mem, copy, counted, faults>>

EditStats(up) ==
    /\ At("Stats") /\ Mark(copy, up)
    /\ copy' = Marked(copy, up) /\ edited' = TRUE
    /\ UNCHANGED <<diskVars, blocked, saveVars, screen, reader, mem, faults>>

\* saveStats(): on leaving its editor (next = "Stats"), on its exit when it is
\* popped ("Return"), and on its exit when Home or the sleep screen replaces the
\* whole stack ("Leaving").
SaveStats(next) ==
    /\ At("Stats") /\ screen' = next
    /\ IF edited THEN Save(copy, blocked) ELSE UNCHANGED saveVars
    /\ edited' = FALSE
    /\ UNCHANGED <<diskVars, blocked, reader, mem, copy, counted, faults>>

\* The reader's result handler.  The EPUB reader imports what the screen can
\* edit; mutant: it takes everything from the card, as the XTC reader does.
ReloadAll == Loaded
ImportEdits == [mem EXCEPT !.books = Loaded.books]

ReturnToReader ==
    /\ At("Return") /\ screen' = "Reader"
    /\ mem' = IF reader = "epub" THEN ImportEdits ELSE Loaded
    /\ blocked' = Blocked /\ copy' = Zero
    /\ UNCHANGED <<diskVars, saveVars, reader, edited, counted, faults>>

\* onExit() of a reader, from wherever it is on the stack.
CloseBook ==
    /\ pc = "idle" /\ screen \in {"Reader", "Leaving"} /\ screen' = "Home"
    /\ Save(mem, blocked)
    /\ mem' = Zero /\ copy' = Zero
    /\ UNCHANGED <<diskVars, blocked, reader, edited, counted, faults>>

\* A book is marked in the file browser or in the statistics opened from Home.
MarkAtHome(up) ==
    /\ At("Home") /\ Mark(Loaded, up)
    /\ blocked' = Blocked /\ Save(Marked(Loaded, up), Blocked)
    /\ UNCHANGED <<diskVars, uiVars, faults>>

\* The statistics sync writes back what it has loaded.
SyncStats ==
    /\ At("Home")
    /\ blocked' = Blocked /\ Save(Loaded, Blocked)
    /\ UNCHANGED <<diskVars, uiVars, counted, faults>>

\* resetLocal(), which asks nobody.
ResetLocal ==
    /\ At("Home") /\ Begin("reset", Zero)
    /\ counted' = Zero
    /\ UNCHANGED <<diskVars, blocked, uiVars, faults>>

\* Deep sleep and waking: RAM is lost.
Reboot ==
    /\ At("Home") /\ blocked' = FALSE
    /\ counted' = Loaded
    /\ UNCHANGED <<diskVars, saveVars, uiVars, faults>>

PowerLoss ==
    /\ Fault /\ Idle
    /\ blocked' = FALSE /\ screen' = "Home"
    /\ mem' = Zero /\ copy' = Zero /\ edited' = FALSE
    /\ counted' = Loaded
    /\ UNCHANGED <<diskVars, reader>>

User ==
    \/ OpenBook \/ TurnPage \/ OpenStats \/ EditDate \/ ReturnToReader \/ CloseBook
    \/ \E next \in {"Stats", "Return", "Leaving"} : SaveStats(next)
    \/ \E up \in BOOLEAN : MarkInReader(up) \/ EditStats(up) \/ MarkAtHome(up)
    \/ SyncStats \/ ResetLocal

Next == User \/ SaveToFile \/ Reboot \/ PowerLoss

Spec == Init /\ [][Next]_vars

-----------------------------------------------------------------------------
(* Properties.                                                             *)

\* Crash safety: whatever fails while good statistics are being replaced, what
\* a load() would find at any point of the save is the old or the new ones.
SaveIsAtomic ==
    [][pc # "idle" /\ op = "save" /\ whole => Loaded' \in {base, saving}]_vars

\* A file of a newer firmware is overwritten by nothing but a reset.
NewerIsKept == [][file = Newer /\ file' # Newer => op = "reset"]_vars

\* Nothing read is lost: with no fault, and no newer file in the way, every
\* page turned is on record once the reader is closed.
Settled == At("Home") /\ faults = 0 /\ ~blocked
PagesAreCounted == Settled => Loaded.pages = counted.pages

\* Likewise every book marked finished.
BooksAreCounted == Settled => Loaded.books = counted.books
=============================================================================
