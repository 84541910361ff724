--------------------------- MODULE ReaderProgress ---------------------------
(***************************************************************************)
(* How a reader remembers its page: the save debouncer, the progress file  *)
(* of a book with its temporary file and backup, the two tasks that save,  *)
(* leaving the reader, restarting for memory and losing power.             *)
(*                                                                         *)
(* A position (spine index and page) is one number, chapter by chapter; a  *)
(* page count travels with it and is left out, but for MetadataChanged.    *)
(* Format "epub" is EpubReaderActivity, "paged" the TXT and XTC readers,   *)
(* which overwrite their file in place.                                    *)
(***************************************************************************)
EXTENDS Integers, Sequences

CONSTANTS
    Formats,          \* the formats of the book in hand
    Chapters,         \* spine items
    ChapterPages,     \* pages of each
    Interval,         \* PAGE_CHANGE_INTERVAL
    MaxFootnoteDepth, \* MAX_FOOTNOTE_DEPTH
    MaxFaults         \* bound: failing card operations and power losses

Pages == 0 .. Chapters * ChapterPages - 1
EndOfBook == Chapters * ChapterPages
Actors == {"main", "render"}
\* No file, or no position; a file that one of the tasks is writing; one left half-written.
None == -1
TornBy(a) == IF a = "main" THEN -2 ELSE -3
Torn == -4

ASSUME ReaderAssumption ==
    /\ Formats \subseteq {"epub", "paged"}
    /\ {Chapters, ChapterPages, Interval} \subseteq Nat \ {0}
    /\ {MaxFootnoteDepth, MaxFaults} \subseteq Nat

VARIABLES
    format,     \* of the book
    open,       \* the reader is the current activity
    pos,        \* currentSpineIndex and section->currentPage (or nextPageNumber)
    section,    \* a section is loaded
    note,       \* pendingFootnotePreviewAnchor and activeFootnotePreview
    origins,    \* savedPositions[0 .. footnoteDepth - 1]
    relayout,   \* pendingRelayoutReposition
    forceSave,  \* progressSaveRequiredAfterRelayout
    lastSaved,  \* lastSavedSpineIndex and lastSavedPage
    deb,        \* the ReaderProgressSaveDebouncer
    tried,      \* lowMemoryPartialRestartAttempted
    token,      \* the page-build target in RTC memory
    drawing,    \* the page painted while the render task holds the lock, before it observes
    job,        \* what each task is saving, and how far it is
    files,      \* progress.bin, progress.bin.tmp, progress.bin.bak
    settled,    \* observer: the last page that was still there when it had been painted
    behind,     \* observer: changes of settled since the file held it or a save succeeded
    stored,     \* observer: the positions the last save may have left, in any session
    raced,      \* observer: the positions of the saves that overlap, since they began to
    expected,   \* observer: where a reader who has just left may expect to reopen
    faults      \* bounded count of failing card operations and power losses

bookVars == <<pos, section, note, origins, relayout>>
saveVars == <<forceSave, lastSaved, deb>>
bootVars == <<tried, token>>
ghostVars == <<settled, behind, stored, raced, expected>>
vars == <<format, open, bookVars, saveVars, bootVars, drawing, job, files, ghostVars, faults>>

Chapter(p) == p \div ChapterPages
Idle == [pc |-> "idle", at |-> 0, then |-> "stay", goal |-> 0]
Leaving == [Idle EXCEPT !.then = "leave"]     \* another activity has been asked for
NewDebouncer == [initialized |-> FALSE, last |-> 0, changes |-> 0, pending |-> FALSE]
NoFiles == [main |-> None, tmp |-> None, bak |-> None]
\* What the tasks in A were writing, they will not write any more of.
Abandoned(A) == [n \in DOMAIN files |-> IF \E a \in A : files[n] = TornBy(a) THEN Torn ELSE files[n]]

\* loadProgress(): the file, else (EPUB only) its backup, else the first page.
Held(f) ==
    IF f.main \in Pages THEN f.main
    ELSE IF format = "epub" /\ f.bak \in Pages THEN f.bak ELSE None
RecoveredFrom(f) == IF Held(f) = None THEN 0 ELSE Held(f)
Recovered == RecoveredFrom(files)

\* The rendering mutex: held by the render task from painting to the end of its save, and
\* by the main task while the activity manager runs onExit().
LockFree == drawing = None /\ job["render"].pc = "idle" /\ job["main"].then # "close"
MainFree == open /\ job["main"] = Idle
-----------------------------------------------------------------------------
(* The debouncer *)

\* observe(): what it remembers; only a position that changed counts.
Observe(p, metadataChanged) ==
    IF ~deb.initialized
    THEN [initialized |-> TRUE, last |-> p, changes |-> 1, pending |-> TRUE]
    ELSE [deb EXCEPT !.last = p,
                     !.pending = @ \/ p # deb.last \/ metadataChanged,
                     !.changes = IF p # deb.last /\ @ < Interval THEN @ + 1 ELSE @]

\* ... and what it answers; intervalOver is the clock. The first call answers no.
SaveIsDue(d, intervalOver) ==
    deb.initialized /\ d.pending /\ (d.changes >= Interval \/ intervalOver)

\* markPersisted(): a save of any other position than the last observed leaves it pending.
Persisted(p) ==
    IF deb.initialized /\ p # deb.last THEN deb
    ELSE [initialized |-> TRUE, last |-> p, changes |-> 0, pending |-> FALSE]
-----------------------------------------------------------------------------
(* Opening *)

Init ==
    /\ format \in Formats
    /\ open = FALSE /\ pos = 0 /\ section = FALSE /\ note = "no" /\ origins = << >>
    /\ relayout = FALSE /\ forceSave = FALSE /\ lastSaved = None /\ deb = NewDebouncer
    /\ tried = FALSE /\ token = None /\ drawing = None
    /\ job = [a \in Actors |-> Idle] /\ files = NoFiles
    /\ settled = None /\ behind = 0 /\ stored = {} /\ raced = {}
    /\ expected = {} /\ faults = 0

\* onEnter(): a fresh activity at the recovered page, or at the one a restart was for.
Open ==
    /\ ~open
    /\ open' = TRUE
    /\ pos' = IF token # None THEN token ELSE Recovered
    /\ tried' = (token # None)
    /\ token' = None
    /\ section' = (format = "paged")
    /\ expected' = {} /\ files' = Abandoned(Actors)
    /\ UNCHANGED <<format, note, origins, relayout, saveVars, drawing, job, settled,
                   behind, stored, raced, faults>>

\* The activity and its memory are gone.
Closed ==
    /\ open' = FALSE /\ pos' = 0 /\ section' = FALSE /\ note' = "no" /\ origins' = << >>
    /\ relayout' = FALSE /\ forceSave' = FALSE /\ lastSaved' = None /\ deb' = NewDebouncer
    /\ tried' = FALSE /\ drawing' = None /\ job' = [a \in Actors |-> Idle]
    /\ settled' = None /\ behind' = 0 /\ raced' = {}

\* In the middle of two saves that overlap it may leave anything.
PowerLoss ==
    /\ open /\ faults < MaxFaults
    /\ faults' = faults + 1
    /\ Closed /\ expected' = {}
    /\ UNCHANGED <<format, token, files, stored>>
-----------------------------------------------------------------------------
(* The main task: page turns, jumps, footnotes *)

\* Within a section the page changes without the lock, so also while it is being painted;
\* across sections the section is dropped under the lock.
MoveTo(p) ==
    /\ pos' = p
    /\ IF format = "paged" \/ Chapter(p) = Chapter(pos) THEN UNCHANGED section
       ELSE LockFree /\ section' = FALSE

PageTurn ==
    /\ MainFree /\ section /\ note # "active"
    /\ \/ pos < EndOfBook /\ MoveTo(pos + 1)
       \/ pos > 0 /\ MoveTo(pos - 1)
    /\ UNCHANGED <<format, open, note, origins, relayout, saveVars, bootVars, drawing, job,
                   files, ghostVars, faults>>

\* Back from the end screen, the chapter list, a percentage, a clipping. The stack of
\* footnote origins stays as it is.
Jump(p) ==
    /\ MainFree /\ LockFree
    /\ pos' = p /\ section' = (format = "paged") /\ note' = "no"
    /\ UNCHANGED <<format, open, origins, relayout, saveVars, bootVars, drawing, job, files,
                   ghostVars, faults>>

\* Mutant: no limit.
PushedAnyway(p) == Append(origins, p)
Pushed(p) == IF Len(origins) < MaxFootnoteDepth THEN Append(origins, p) ELSE origins
\* navigateToHref() from a page: remembers the origin while there is room.
FollowFootnote(p, preview) ==
    /\ format = "epub" /\ MainFree /\ LockFree /\ section /\ note # "active"
    /\ pos \in Pages
    /\ origins' = Pushed(pos)
    /\ pos' = p /\ section' = FALSE
    /\ note' = IF preview THEN "pending" ELSE "no"
    /\ UNCHANGED <<format, open, relayout, saveVars, bootVars, drawing, job, files, ghostVars,
                   faults>>

RestoreSavedPosition ==
    /\ MainFree /\ LockFree /\ origins # << >>
    /\ pos' = origins[Len(origins)]
    /\ origins' = SubSeq(origins, 1, Len(origins) - 1)
    /\ section' = FALSE /\ note' = "no"
    /\ UNCHANGED <<format, open, relayout, saveVars, bootVars, drawing, job, files, ghostVars,
                   faults>>

\* A changed setting: the section is laid out again and its page must then be saved.
Relayout ==
    /\ format = "epub" /\ MainFree /\ LockFree /\ section /\ note = "no" /\ pos \in Pages
    /\ section' = FALSE /\ relayout' = TRUE
    /\ UNCHANGED <<format, open, pos, note, origins, saveVars, bootVars, drawing, job, files,
                   ghostVars, faults>>
-----------------------------------------------------------------------------
(* Saving, one card operation at a time *)

\* Nothing keeps the two tasks' saves apart but the lock, which a hand-off does not take.
Other(a) == IF a = "main" THEN "render" ELSE "main"
Begin(a, p, then, goal) ==
    /\ job' = [job EXCEPT ![a] = [pc |-> "removeTmp", at |-> p, then |-> then, goal |-> goal]]
    /\ IF job[Other(a)].pc = "idle" THEN UNCHANGED <<stored, raced>>
       ELSE stored' = {} /\ raced' = raced \cup {job[Other(a)].at, p}
Step(a, pc) == job' = [job EXCEPT ![a].pc = pc]
Fault == faults < MaxFaults /\ faults' = faults + 1

\* Mutant: the result of the save is not looked at.
RestartsAnyway(ok) == TRUE
\* restartForLowMemoryLayout() goes on to restart only from a saved page.
Restarts(ok) == ok

\* The end of saveProgress(): bookkeeping on success, then what the caller does with it.
\* A hand-off goes on to leave the reader, leaving closes it, a restart arms its token.
Stays(a, ok) ==
    LET j == job[a] IN
    /\ IF ok THEN lastSaved' = (IF format = "epub" THEN j.at ELSE None) /\ deb' = Persisted(j.at)
       ELSE UNCHANGED <<lastSaved, deb>>
    /\ settled' = (IF faults' > 0 THEN None ELSE settled) /\ behind' = 0
    /\ forceSave' = (forceSave /\ ~(ok /\ a = "render"))
    /\ \E leaves \in BOOLEAN :
        /\ leaves => j.then = "leave"
        /\ j.then = "leave" /\ (ok \/ format = "paged") => leaves
        /\ job' = [job EXCEPT ![a] = IF leaves THEN Leaving ELSE Idle]
    /\ raced' = IF job[Other(a)].pc = "idle" THEN {} ELSE raced
    /\ pos' \in IF j.then = "restart" /\ section THEN {j.at} \cup ({pos} \cap 0 .. j.at) ELSE {pos}
    /\ UNCHANGED <<open, section, note, origins, relayout, bootVars, drawing, expected>>

\* Two saves that overlapped leave the position of one of them, if the card does not fail
\* and neither is cut short by a restart for the other.
Left(a, ok) ==
    IF raced = {} THEN IF ok THEN {job[a].at} ELSE stored
    ELSE IF job[Other(a)].pc = "idle" /\ faults' = 0 THEN raced
    ELSE {}
Finish(a, ok) ==
    LET j == job[a] IN
    /\ stored' = Left(a, ok)
    /\ \/ j.then = "restart" /\ Restarts(ok) /\ Closed /\ token' = j.goal /\ UNCHANGED expected
       \/ /\ j.then = "close" /\ Closed /\ UNCHANGED token
          /\ expected' = IF ok THEN expected ELSE {}
       \/ j.then \notin {"restart", "close"} /\ Stays(a, ok)
       \/ j.then = "restart" /\ ~Restarts(ok) /\ Stays(a, ok)

Continues ==
    UNCHANGED <<open, bookVars, saveVars, bootVars, drawing, ghostVars>>
\* A file the other task has taken away cannot be renamed, and nothing is renamed over a file.
CanRename(from, to) == files[from] # None /\ files[to] = None
Without(name) == [files EXCEPT ![name] = None]
Renamed(from, to) == [files EXCEPT ![to] = files[from], ![from] = None]

RemoveTmp(a) ==
    /\ job[a].pc = "removeTmp" /\ format = "epub"
    /\ \/ files' = Without("tmp") /\ Step(a, "write") /\ Continues /\ UNCHANGED faults
       \/ files["tmp"] # None /\ Fault /\ Finish(a, FALSE) /\ UNCHANGED files
    /\ UNCHANGED format

Write(a) ==
    /\ job[a].pc = "write"
    /\ \/ files' = [files EXCEPT !["tmp"] = TornBy(a)] /\ Step(a, "sync") /\ Continues /\ UNCHANGED faults
       \/ Fault /\ Finish(a, FALSE) /\ UNCHANGED files
    /\ UNCHANGED format

\* The bytes reach the file this task opened, wherever it has been renamed to since.
Sync(a) ==
    /\ job[a].pc = "sync"
    /\ \/ /\ files' = [n \in DOMAIN files |-> IF files[n] = TornBy(a) THEN job[a].at ELSE files[n]]
          /\ Step(a, "removeBak") /\ Continues /\ UNCHANGED faults
       \/ Fault /\ files' = [Abandoned({a}) EXCEPT !["tmp"] = None] /\ Finish(a, FALSE)
    /\ UNCHANGED format

RemoveBak(a) ==
    /\ job[a].pc = "removeBak"
    /\ \/ files' = Without("bak") /\ Step(a, "rotate") /\ Continues /\ UNCHANGED faults
       \/ files["bak"] # None /\ Fault /\ files' = Without("tmp") /\ Finish(a, FALSE)
    /\ UNCHANGED format

\* Mutant: the old file is removed, not kept as the backup.
RotatedAway == Without("main")
Rotated == Renamed("main", "bak")
Rotate(a) ==
    /\ job[a].pc = "rotate"
    /\ \/ files["main"] = None /\ Step(a, "promote") /\ Continues /\ UNCHANGED <<files, faults>>
       \/ /\ CanRename("main", "bak") /\ files' = Rotated
          /\ Step(a, "promote") /\ Continues /\ UNCHANGED faults
       \/ /\ files["main"] # None
          /\ IF CanRename("main", "bak") THEN Fault ELSE UNCHANGED faults
          /\ files' = Without("tmp") /\ Finish(a, FALSE)
    /\ UNCHANGED format

\* The last rename; when it fails the backup is put back if nothing has taken its place.
Restored == IF files["main"] = None /\ files["bak"] # None
            THEN [main |-> files["bak"], tmp |-> None, bak |-> None] ELSE Without("tmp")
Promote(a) ==
    /\ job[a].pc = "promote"
    /\ \/ CanRename("tmp", "main") /\ files' = Renamed("tmp", "main") /\ UNCHANGED faults /\ Finish(a, TRUE)
       \/ /\ IF CanRename("tmp", "main") THEN Fault ELSE UNCHANGED faults
          /\ files' = Restored /\ Finish(a, FALSE)
    /\ UNCHANGED format

\* TXT and XTC: the file itself is truncated, then written.
Overwrite(a) ==
    /\ job[a].pc = "removeTmp" /\ format = "paged"
    /\ \/ files' = [files EXCEPT !["main"] = TornBy(a)] /\ Step(a, "fill") /\ Continues /\ UNCHANGED faults
       \/ Fault /\ Finish(a, FALSE) /\ UNCHANGED files
    /\ UNCHANGED format

Fill(a) ==
    /\ job[a].pc = "fill"
    /\ \/ files' = [files EXCEPT !["main"] = job[a].at] /\ UNCHANGED faults /\ Finish(a, TRUE)
       \/ Fault /\ files' = Abandoned({a}) /\ Finish(a, FALSE)
    /\ UNCHANGED format

SaveStep(a) ==
    \/ RemoveTmp(a) \/ Write(a) \/ Sync(a) \/ RemoveBak(a) \/ Rotate(a) \/ Promote(a)
    \/ Overwrite(a) \/ Fill(a)
-----------------------------------------------------------------------------
(* The render task *)

\* render() up to the panel: the section is there or is built, and the page is painted.
\* A footnote preview and the end screen are no positions of the book.
RenderPage ==
    /\ open /\ LockFree
    /\ section' = (pos \in Pages \/ format = "paged")
    /\ note' = IF note = "pending" THEN "active" ELSE note
    /\ IF pos \in Pages /\ note = "no"
       THEN drawing' = pos
       ELSE UNCHANGED drawing
    /\ forceSave' = (forceSave \/ (relayout /\ pos \in Pages))
    /\ relayout' = (relayout /\ pos \notin Pages)
    /\ UNCHANGED <<format, open, pos, origins, lastSaved, deb, bootVars, job, files, settled,
                   behind, stored, raced, expected, faults>>

\* The section cannot be built; an error is shown over the old page. A preview that fails
\* takes the reader back to where the footnote was.
BuildFails ==
    /\ format = "epub" /\ open /\ LockFree /\ ~section /\ pos \in Pages
    /\ note' = IF note = "pending" THEN "no" ELSE note
    /\ IF note = "pending" /\ origins # << >>
       THEN pos' = origins[Len(origins)] /\ origins' = SubSeq(origins, 1, Len(origins) - 1)
       ELSE UNCHANGED <<pos, origins>>
    /\ UNCHANGED <<format, open, section, relayout, saveVars, bootVars, drawing, job, files,
                   ghostVars, faults>>

\* A loaded section cannot be extended, or its page not read: it is dropped, and comes back
\* at the page it was entered at (nextPageNumber), some page p of the chapter.
SectionFails(p) ==
    /\ format = "epub" /\ open /\ LockFree /\ section /\ pos \in Pages
    /\ Chapter(p) = Chapter(pos) /\ pos' = p /\ section' = FALSE /\ Fault
    /\ settled' = None /\ behind' = 0
    /\ UNCHANGED <<format, open, note, origins, relayout, saveVars, bootVars, drawing, job,
                   files, stored, raced, expected>>

\* The page wanted does not fit in memory: save a readable page, and restart to try again.
\* Next to a loaded section that is the page before; while the section is first laid out,
\* the page wanted itself, or the last one laid out before it.
RestartForLowMemory(p) ==
    /\ format = "epub" /\ open /\ LockFree /\ note = "no" /\ ~tried
    /\ pos \in Pages /\ Chapter(p) = Chapter(pos)
    /\ IF section THEN p = pos - 1 ELSE p <= pos
    /\ Begin("render", p, "restart", pos)
    /\ UNCHANGED <<format, open, bookVars, saveVars, bootVars, drawing, files, settled, behind,
                   expected, faults>>

\* Mutant: the page is not compared.
TellsOnCountOnly(metadataChanged) == format = "paged" \/ metadataChanged
\* Whether render() tells the debouncer at all: the EPUB reader does not when the page is
\* the one it saved last, with the same page count.
TellsDebouncer(metadataChanged) ==
    \/ format = "paged"
    \/ forceSave \/ pos # lastSaved \/ metadataChanged

\* The rest of render(): the page read again (past the last one if an XTC reader turned it
\* meanwhile), the debouncer told, a save begun if due.
Settles ==
    IF pos # drawing \/ faults > 0 THEN UNCHANGED <<settled, behind>>
    ELSE /\ settled' = pos
         /\ behind' = IF pos = Held(files) THEN 0
                      ELSE IF pos = settled \/ behind > Interval THEN behind ELSE behind + 1
ObserveShown(metadataChanged, intervalOver) ==
    LET d == Observe(pos, metadataChanged) IN
    /\ drawing # None /\ drawing' = None /\ Settles
    /\ IF TellsDebouncer(metadataChanged)
       THEN /\ deb' = d
            /\ IF SaveIsDue(d, intervalOver) \/ forceSave
               THEN Begin("render", pos, "stay", 0) /\ UNCHANGED forceSave
               ELSE UNCHANGED <<job, stored, raced, forceSave>>
       ELSE UNCHANGED <<deb, job, stored, raced, forceSave>>
    /\ UNCHANGED <<format, open, bookVars, lastSaved, bootVars, files, expected, faults>>
-----------------------------------------------------------------------------
(* Leaving *)

\* Synchronising, sending the book, file transfer: the page is saved, without the lock,
\* before another activity is asked for; some give up when the save fails.
SaveForHandOff ==
    /\ MainFree /\ pos \in Pages /\ note = "no"
    /\ Begin("main", pos, "leave", 0)
    /\ UNCHANGED <<format, open, bookVars, saveVars, bootVars, drawing, files, settled, behind,
                   expected, faults>>

\* onExit(): what is saved on the way out, if anything; in a footnote, its first origin.
SavesOnExit == IF origins # << >> THEN note # "active" ELSE deb.pending /\ section
Exit ==
    /\ open /\ job["main"].pc = "idle" /\ LockFree
    /\ expected' = IF origins # << >> THEN {origins[1]}
                   ELSE IF settled = None THEN {} ELSE {settled, pos}
    /\ \/ /\ SavesOnExit
          /\ Begin("main", IF origins # << >> THEN origins[1] ELSE deb.last, "close", 0)
          /\ UNCHANGED <<open, bookVars, saveVars, tried, drawing, settled, behind>>
       \/ ~SavesOnExit /\ Closed /\ UNCHANGED stored
    /\ UNCHANGED <<format, token, files, faults>>
-----------------------------------------------------------------------------
Next ==
    \/ Open \/ PowerLoss
    \/ PageTurn
    \/ \E p \in Pages : Jump(p)
    \/ \E p \in Pages, preview \in BOOLEAN : FollowFootnote(p, preview)
    \/ RestoreSavedPosition
    \/ Relayout
    \/ \E a \in Actors : SaveStep(a)
    \/ RenderPage \/ BuildFails
    \/ \E p \in Pages : SectionFails(p) \/ RestartForLowMemory(p)
    \/ \E metadataChanged, intervalOver \in BOOLEAN : ObserveShown(metadataChanged, intervalOver)
    \/ SaveForHandOff
    \/ Exit

Spec == Init /\ [][Next]_vars
-----------------------------------------------------------------------------
Positions == Pages \cup {EndOfBook}
Contents == Positions \cup {None} \cup {Torn} \cup {TornBy(a) : a \in Actors}
Programs == {"idle", "removeTmp", "write", "sync", "removeBak", "rotate", "promote", "fill"}

\* Every variable has its type, and a task that saves is saving a position of the book.
TypeOK ==
    /\ format \in Formats /\ open \in BOOLEAN /\ section \in BOOLEAN
    /\ pos \in Positions /\ note \in {"no", "pending", "active"}
    /\ origins \in Seq(Pages) /\ Len(origins) <= MaxFootnoteDepth
    /\ relayout \in BOOLEAN /\ forceSave \in BOOLEAN /\ lastSaved \in Positions \cup {None}
    /\ deb \in [initialized : BOOLEAN, last : Positions, changes : 0 .. Interval, pending : BOOLEAN]
    /\ tried \in BOOLEAN /\ token \in Pages \cup {None} /\ drawing \in Pages \cup {None}
    /\ job \in [Actors -> [pc : Programs, at : Positions, then : {"stay", "leave", "close", "restart"}, goal : Positions]]
    /\ files \in [{"main", "tmp", "bak"} -> Contents]
    /\ settled \in Pages \cup {None} /\ behind \in 0 .. Interval + 1
    /\ stored \subseteq Positions /\ raced \subseteq Positions
    /\ expected \subseteq Positions /\ faults \in 0 .. MaxFaults

\* However a save is interrupted or fails, the EPUB reader reopens at the last position that
\* was saved: no fault, no loss at any step; after one, the next save may pass through states
\* without a readable file, but ends with one. When the saves of the two tasks have overlapped
\* and both are over, it reopens at the position of one of them (saveProgress(), loadProgress()).
ReopensAtLastSave ==
    /\ format = "epub" /\ stored # {}
    /\ faults = 0 \/ (faults = 1 /\ \A a \in Actors : job[a].pc = "idle")
    => Recovered \in stored

\* While saves succeed, the reader has seen no more new pages than the interval since the file
\* held the page, whatever is turned, jumped to or saved for a hand-off meanwhile. Overlapping
\* saves of different positions may leave the other one: no claim until the next save.
SavesAgree == raced = {} /\ \A p, q \in stored : p = q
LossIsBounded == faults = 0 /\ SavesAgree => behind <= Interval

\* A restart for want of memory never moves the reader on: what it saved, by any of its callers,
\* is a page of the same chapter at or before the page it restarts for, so that a reader for
\* whom the restart fails too is not beyond the page that did not fit.
RestartKeepsPlace ==
    token # None /\ stored # {} /\ faults <= 1
    => Recovered <= token /\ Chapter(Recovered) = Chapter(token)

\* A reader who leaves reopens at the page left, or at the origin of the footnote left.
ExitKeepsPosition == ~open /\ expected # {} => Recovered \in expected
=============================================================================
