----------------------- MODULE GlobalReadingStatsProofs -----------------------
(***************************************************************************)
(* Safety of the statistics file for any number of pages, books, readers   *)
(* and faults.                                                             *)
(***************************************************************************)
EXTENDS GlobalReadingStats, TLAPS

(* While a save replaces a good file, the old statistics stay in the file  *)
(* until they are in the backup, and the temporary file holds the new ones *)
(* before anything is moved.                                               *)
Saving ==
    /\ pc \in {"removeBackup", "rotate", "removeFile", "publish"} => temp = saving
    /\ pc \in {"removeBackup", "rotate", "rollback"} => op = "save"
    /\ pc = "removeFile" => op = "reset"
    /\ op = "save" /\ whole =>
         /\ pc \in {"openTemp", "writeTemp", "removeBackup", "rotate"} => file = base
         /\ pc \in {"publish", "rollback"} => file = None /\ backup = base
    /\ whole => base \in Stats

(* A save is under way only when neither the file nor what a rollback      *)
(* restores is of a newer firmware; a reader that is open above such a     *)
(* file has set s_blockDestructiveSave.                                    *)
Keeping ==
    /\ pc # "idle" /\ op = "save" => file # Newer
    /\ pc = "rotate" => backup = None
    /\ pc \in {"publish", "rollback"} /\ op = "save" => backup # Newer
    /\ screen # "Home" /\ file = Newer => blocked

IInv == TypeOK /\ Saving /\ Keeping

-----------------------------------------------------------------------------
(* What load() and the counters yield.                                     *)

LEMMA ZeroIsStats == Zero \in Stats
  BY DEF Zero, Stats

\* load() returns statistics whatever is on the card.
LEMMA LoadedIsStats == ASSUME TypeOK PROVE Loaded \in Stats
  BY ZeroIsStats DEF Loaded, TypeOK

\* Marking a book keeps the counters natural numbers: no unsigned underflow.
LEMMA MarkedIsStats ==
    ASSUME NEW s \in Stats, NEW up \in BOOLEAN PROVE Marked(s, up) \in Stats
<1> DEFINE b == IF up THEN s.books + 1 ELSE IF s.books > 0 THEN s.books - 1 ELSE 0
<1>1. b \in Nat
  BY DEF Stats
<1>2. Marked(s, up) = [s EXCEPT !.books = b]
  BY Zenon DEF Marked
<1> HIDE DEF b
<1> QED
  BY <1>1, <1>2 DEF Stats

\* The four kinds of file are told apart.
LEMMA FilesDiffer ==
    /\ None \notin Stats /\ Corrupt \notin Stats /\ Newer \notin Stats
    /\ Newer # None /\ Newer # Corrupt
  BY FilesAssumption DEF NoStats

-----------------------------------------------------------------------------
(* The invariant.                                                          *)

LEMMA InitIInv == Init => IInv
<1> SUFFICES ASSUME Init PROVE IInv
  OBVIOUS
<1> USE ZeroIsStats, FilesDiffer, BoundsAssumption, ReadersAssumption
<1>1. [Zero EXCEPT !.pages = 1] \in Stats
  BY DEF Zero, Stats
<1>2. file \in Stats \cup NoStats /\ backup \in Stats \cup NoStats
  BY <1>1 DEF Init, NoStats
<1>3. Loaded \in Stats
  BY <1>2 DEF Loaded
<1>4. TypeOK
  BY <1>2, <1>3 DEF Init, TypeOK
<1>5. Saving /\ Keeping
  BY DEF Init, Saving, Keeping
<1> QED
  BY <1>4, <1>5 DEF IInv

\* The steps of saveToFile() keep the types, one group of variables at a time.
LEMMA SaveToFileTypeOK == ASSUME TypeOK, SaveToFile PROVE TypeOK'
<1> USE ZeroIsStats
<1> USE DEF OpenTemp, WriteTemp, RemoveBackup, Rotate, BackupAfterRotate,
            RemoveFile, Publish, Rollback, Go, Idle, Fails, Fault, diskVars
<1>1. /\ blocked' \in BOOLEAN /\ edited' \in BOOLEAN
      /\ screen' \in {"Home", "Reader", "Stats", "Return", "Leaving"}
      /\ reader' \in {"epub", "xtc"}
      /\ mem' \in Stats /\ copy' \in Stats /\ counted' \in Stats
  BY DEF TypeOK, SaveToFile, uiVars
<1>2. file' \in Stats \cup NoStats /\ backup' \in Stats \cup NoStats
  BY DEF TypeOK, SaveToFile, NoStats
<1>3. temp' \in Stats \cup {None, Corrupt}
  BY DEF TypeOK, SaveToFile
<1>4. pc' \in SavePcs \cup {"idle"} /\ op' \in {"save", "reset"}
  BY DEF TypeOK, SaveToFile, SavePcs
<1>5. saving' \in Stats /\ base' \in Stats
  BY DEF TypeOK, SaveToFile
<1>6. whole' \in BOOLEAN
  BY DEF TypeOK, SaveToFile
<1>7. faults' \in Nat
  BY DEF TypeOK, SaveToFile
<1> QED
  BY <1>1, <1>2, <1>3, <1>4, <1>5, <1>6, <1>7 DEF TypeOK

\* They keep the invariant.
LEMMA SaveToFileIInv == ASSUME IInv, SaveToFile PROVE IInv'
<1> USE FilesDiffer
<1>0. TypeOK'
  BY SaveToFileTypeOK DEF IInv
<1> USE DEF IInv, Saving, Keeping, SaveToFile, uiVars, diskVars, Go, Idle, Fails, Fault
<1>1. CASE OpenTemp
  BY <1>0, <1>1 DEF OpenTemp
<1>2. CASE WriteTemp
  BY <1>0, <1>2 DEF WriteTemp, TypeOK
<1>3. CASE RemoveBackup
  BY <1>0, <1>3 DEF RemoveBackup
<1>4. CASE Rotate
  BY <1>0, <1>4 DEF Rotate, BackupAfterRotate
<1>5. CASE RemoveFile
  BY <1>0, <1>5 DEF RemoveFile
<1>6. CASE Publish
  BY <1>0, <1>6 DEF Publish, TypeOK
<1>7. CASE Rollback
  BY <1>0, <1>7 DEF Rollback
<1> QED
  BY <1>1, <1>2, <1>3, <1>4, <1>5, <1>6, <1>7

\* A save that a screen starts: only where there is nothing to be kept.
LEMMA SaveStarts ==
    ASSUME IInv, pc = "idle", NEW s \in Stats, NEW b \in BOOLEAN, Save(s, b),
           ~b => file # Newer, UNCHANGED diskVars
    PROVE  /\ Saving'
           /\ pc' \in SavePcs \cup {"idle"} /\ op' \in {"save", "reset"}
           /\ saving' \in Stats /\ base' \in Stats /\ whole' \in BOOLEAN
           /\ pc' # "idle" => file' # Newer
           /\ pc' \in {"idle", "openTemp"}
<1>1. Loaded \in Stats
  BY LoadedIsStats DEF IInv
<1>2. CASE b
  BY <1>2 DEF Save, saveVars, diskVars, IInv, Saving, TypeOK
<1>3. CASE ~b
  BY <1>1, <1>3 DEF Save, Begin, saveVars, diskVars, IInv, Saving, TypeOK, SavePcs, Loaded
<1> QED
  BY <1>2, <1>3
\* What is common to the actions of a screen: the card is left alone, and where
\* no save is started nothing of one is left.
LEMMA NoSave ==
    ASSUME IInv, pc = "idle", UNCHANGED diskVars, UNCHANGED saveVars
    PROVE  Saving'
  BY DEF IInv, Saving, diskVars, saveVars

\* Every action of a screen keeps the invariant.
LEMMA UserIInv == ASSUME IInv, User PROVE IInv'
<1> USE FilesDiffer, ZeroIsStats
<1>1. TypeOK /\ Saving /\ Keeping /\ Loaded \in Stats
  BY LoadedIsStats DEF IInv
<1>2. Blocked \in BOOLEAN /\ (~Blocked => file # Newer)
  BY <1>1 DEF Blocked, NewerFound, TypeOK
<1>3. CASE OpenBook
  <2>1. TypeOK'
    BY <1>1, <1>2, <1>3, ReadersAssumption DEF OpenBook, At, TypeOK, diskVars, saveVars
  <2>2. Saving'
    BY <1>3, NoSave DEF OpenBook, At
  <2>3. Keeping'
    BY <1>1, <1>3 DEF OpenBook, At, Blocked, NewerFound, Keeping, diskVars, saveVars
  <2> QED
    BY <2>1, <2>2, <2>3 DEF IInv
<1>4. CASE TurnPage
  <2>1. [mem EXCEPT !.pages = @ + 1] \in Stats /\ [counted EXCEPT !.pages = @ + 1] \in Stats
    BY <1>1 DEF TypeOK, Stats
  <2>2. TypeOK'
    BY <1>1, <1>4, <2>1 DEF TurnPage, TypeOK, diskVars, saveVars
  <2>3. Saving'
    BY <1>4, NoSave DEF TurnPage, At
  <2>4. Keeping'
    BY <1>1, <1>4 DEF TurnPage, At, Keeping, diskVars, saveVars
  <2> QED
    BY <2>2, <2>3, <2>4 DEF IInv
<1>5. ASSUME NEW up \in BOOLEAN, MarkInReader(up) PROVE IInv'
  <2>1. Marked(mem, up) \in Stats /\ Marked(counted, up) \in Stats
    BY <1>1, MarkedIsStats DEF TypeOK
  <2>2. ~blocked => file # Newer
    BY <1>1, <1>5 DEF MarkInReader, At, Keeping
  <2>3. Save(Marked(mem, up), blocked)
    BY <1>5 DEF MarkInReader
  <2>4. blocked \in BOOLEAN /\ pc = "idle" /\ UNCHANGED diskVars
    BY <1>1, <1>5 DEF MarkInReader, At, TypeOK
  <2>5. /\ Saving' /\ pc' \in SavePcs \cup {"idle"} /\ op' \in {"save", "reset"}
        /\ saving' \in Stats /\ base' \in Stats /\ whole' \in BOOLEAN
        /\ (pc' # "idle" => file' # Newer) /\ pc' \in {"idle", "openTemp"}
    BY <2>1, <2>2, <2>3, <2>4, SaveStarts
  <2>6. TypeOK'
    BY <1>1, <1>5, <2>1, <2>5 DEF MarkInReader, Mark, TypeOK, diskVars
  <2>7. Keeping'
    BY <1>1, <1>5, <2>5 DEF MarkInReader, At, Keeping, diskVars
  <2> QED
    BY <2>5, <2>6, <2>7 DEF IInv
<1>6. CASE OpenStats
  <2>1. TypeOK'
    BY <1>1, <1>6 DEF OpenStats, TypeOK, diskVars, saveVars
  <2>2. Saving'
    BY <1>6, NoSave DEF OpenStats, At
  <2>3. Keeping'
    BY <1>1, <1>6 DEF OpenStats, At, Keeping, diskVars, saveVars
  <2> QED
    BY <2>1, <2>2, <2>3 DEF IInv
<1>7. ASSUME NEW up \in BOOLEAN, EditStats(up) PROVE IInv'
  <2>1. Marked(copy, up) \in Stats /\ Marked(counted, up) \in Stats
    BY <1>1, MarkedIsStats DEF TypeOK
  <2>2. TypeOK'
    BY <1>1, <1>7, <2>1 DEF EditStats, Mark, TypeOK, diskVars, saveVars
  <2>3. Saving'
    BY <1>7, NoSave DEF EditStats, At
  <2>4. Keeping'
    BY <1>1, <1>7 DEF EditStats, At, Keeping, diskVars, saveVars
  <2> QED
    BY <2>2, <2>3, <2>4 DEF IInv
<1>8. ASSUME NEW next \in {"Stats", "Return", "Leaving"}, SaveStats(next) PROVE IInv'
  <2>1. blocked \in BOOLEAN /\ pc = "idle" /\ UNCHANGED diskVars /\ copy \in Stats
    BY <1>1, <1>8 DEF SaveStats, At, TypeOK
  <2>2. ~blocked => file # Newer
    BY <1>1, <1>8 DEF SaveStats, At, Keeping
  <2>3. CASE edited
    <3>1. Save(copy, blocked)
      BY <1>8, <2>3 DEF SaveStats
    <3>2. /\ Saving' /\ pc' \in SavePcs \cup {"idle"} /\ op' \in {"save", "reset"}
          /\ saving' \in Stats /\ base' \in Stats /\ whole' \in BOOLEAN
          /\ (pc' # "idle" => file' # Newer) /\ pc' \in {"idle", "openTemp"}
      BY <2>1, <2>2, <3>1, SaveStarts
    <3>3. TypeOK'
      BY <1>1, <1>8, <3>2 DEF SaveStats, TypeOK, diskVars
    <3>4. Keeping'
      BY <1>1, <1>8, <3>2 DEF SaveStats, At, Keeping, diskVars
    <3> QED
      BY <3>2, <3>3, <3>4 DEF IInv
  <2>4. CASE ~edited
    <3>1. UNCHANGED saveVars
      BY <1>8, <2>4 DEF SaveStats
    <3>2. Saving'
      BY <2>1, <3>1, NoSave
    <3>3. TypeOK'
      BY <1>1, <1>8, <3>1 DEF SaveStats, TypeOK, diskVars, saveVars
    <3>4. Keeping'
      BY <1>1, <1>8, <3>1 DEF SaveStats, At, Keeping, diskVars, saveVars
    <3> QED
      BY <3>2, <3>3, <3>4 DEF IInv
  <2> QED
    BY <2>3, <2>4
<1>9. CASE ReturnToReader
  <2>1. ImportEdits \in Stats
    <3>1. Loaded.books \in Nat
      BY <1>1 DEF Stats
    <3> QED
      BY <1>1, <3>1 DEF ImportEdits, TypeOK, Stats
  <2>2. mem' \in Stats
    BY <1>1, <1>9, <2>1 DEF ReturnToReader
  <2>3. TypeOK'
    BY <1>1, <1>2, <1>9, <2>2 DEF ReturnToReader, TypeOK, diskVars, saveVars
  <2>4. Saving'
    BY <1>9, NoSave DEF ReturnToReader, At
  <2>5. Keeping'
    BY <1>1, <1>9 DEF ReturnToReader, At, Blocked, NewerFound, Keeping, diskVars, saveVars
  <2> QED
    BY <2>3, <2>4, <2>5 DEF IInv
<1>10. CASE CloseBook
  <2>1. blocked \in BOOLEAN /\ pc = "idle" /\ UNCHANGED diskVars /\ mem \in Stats
    BY <1>1, <1>10 DEF CloseBook, TypeOK
  <2>2. ~blocked => file # Newer
    BY <1>1, <1>10 DEF CloseBook, Keeping
  <2>3. Save(mem, blocked)
    BY <1>10 DEF CloseBook
  <2>4. /\ Saving' /\ pc' \in SavePcs \cup {"idle"} /\ op' \in {"save", "reset"}
        /\ saving' \in Stats /\ base' \in Stats /\ whole' \in BOOLEAN
        /\ (pc' # "idle" => file' # Newer) /\ pc' \in {"idle", "openTemp"}
    BY <2>1, <2>2, <2>3, SaveStarts
  <2>5. TypeOK'
    BY <1>1, <1>10, <2>4 DEF CloseBook, TypeOK, diskVars
  <2>6. Keeping'
    BY <1>1, <1>10, <2>4 DEF CloseBook, Keeping, diskVars
  <2> QED
    BY <2>4, <2>5, <2>6 DEF IInv
<1>11. ASSUME NEW up \in BOOLEAN, MarkAtHome(up) PROVE IInv'
  <2>1. Marked(Loaded, up) \in Stats /\ Marked(counted, up) \in Stats
    BY <1>1, MarkedIsStats DEF TypeOK
  <2>2. pc = "idle" /\ UNCHANGED diskVars /\ Save(Marked(Loaded, up), Blocked)
    BY <1>11 DEF MarkAtHome, At
  <2>3. /\ Saving' /\ pc' \in SavePcs \cup {"idle"} /\ op' \in {"save", "reset"}
        /\ saving' \in Stats /\ base' \in Stats /\ whole' \in BOOLEAN
        /\ (pc' # "idle" => file' # Newer) /\ pc' \in {"idle", "openTemp"}
    BY <1>2, <2>1, <2>2, SaveStarts
  <2>4. TypeOK'
    BY <1>1, <1>2, <1>11, <2>1, <2>3 DEF MarkAtHome, Mark, TypeOK, diskVars, uiVars
  <2>5. Keeping'
    BY <1>1, <1>11, <2>3 DEF MarkAtHome, At, Keeping, diskVars, uiVars
  <2> QED
    BY <2>3, <2>4, <2>5 DEF IInv
<1>12. CASE SyncStats
  <2>1. pc = "idle" /\ UNCHANGED diskVars /\ Save(Loaded, Blocked)
    BY <1>12 DEF SyncStats, At
  <2>2. /\ Saving' /\ pc' \in SavePcs \cup {"idle"} /\ op' \in {"save", "reset"}
        /\ saving' \in Stats /\ base' \in Stats /\ whole' \in BOOLEAN
        /\ (pc' # "idle" => file' # Newer) /\ pc' \in {"idle", "openTemp"}
    BY <1>1, <1>2, <2>1, SaveStarts
  <2>3. TypeOK'
    BY <1>1, <1>2, <1>12, <2>2 DEF SyncStats, TypeOK, diskVars, uiVars
  <2>4. Keeping'
    BY <1>1, <1>12, <2>2 DEF SyncStats, At, Keeping, diskVars, uiVars
  <2> QED
    BY <2>2, <2>3, <2>4 DEF IInv
<1>13. CASE ResetLocal
  <2>0. whole' \in BOOLEAN
    BY <1>13 DEF ResetLocal, Begin
  <2>1. TypeOK'
    BY <1>1, <1>13, <2>0 DEF ResetLocal, Begin, TypeOK, SavePcs, diskVars, uiVars
  <2>2. Saving'
    BY <1>1, <1>13 DEF ResetLocal, Begin, At, Saving, diskVars, Loaded
  <2>3. Keeping'
    BY <1>1, <1>13 DEF ResetLocal, Begin, At, Keeping, diskVars, uiVars
  <2> QED
    BY <2>1, <2>2, <2>3 DEF IInv
<1>14. CASE EditDate
  <2>1. TypeOK'
    BY <1>1, <1>14 DEF EditDate, TypeOK, diskVars, saveVars
  <2>2. Saving'
    BY <1>14, NoSave DEF EditDate, At
  <2>3. Keeping'
    BY <1>1, <1>14 DEF EditDate, At, Keeping, diskVars, saveVars
  <2> QED
    BY <2>1, <2>2, <2>3 DEF IInv
<1> QED
  BY <1>3, <1>4, <1>5, <1>6, <1>7, <1>8, <1>9, <1>10, <1>11, <1>12, <1>13, <1>14 DEF User

LEMMA NextIInv == ASSUME IInv, [Next]_vars PROVE IInv'
<1> USE FilesDiffer, ZeroIsStats
<1>1. CASE User
  BY <1>1, UserIInv
<1>2. CASE SaveToFile
  BY <1>2, SaveToFileIInv
<1>3. CASE Reboot
  <2>1. TypeOK'
    BY <1>3, LoadedIsStats DEF IInv, Reboot, TypeOK, diskVars, saveVars, uiVars
  <2>2. Saving'
    BY <1>3, NoSave DEF Reboot, At
  <2>3. Keeping'
    BY <1>3 DEF IInv, Reboot, At, Keeping, diskVars, saveVars, uiVars
  <2> QED
    BY <2>1, <2>2, <2>3 DEF IInv
<1>4. CASE PowerLoss
  <2>1. TypeOK'
    <3>1. TypeOK /\ Loaded \in Stats
      BY LoadedIsStats DEF IInv
    <3>2. faults' \in Nat
      BY <1>4, <3>1 DEF PowerLoss, Fault, TypeOK
    <3>3. /\ pc' = "idle" /\ op' = op /\ saving' = Zero /\ base' = Zero
          /\ whole' \in BOOLEAN /\ blocked' \in BOOLEAN /\ edited' \in BOOLEAN
      BY <1>4 DEF PowerLoss, Idle
    <3> QED
      BY <1>4, <3>1, <3>2, <3>3 DEF PowerLoss, TypeOK, diskVars
  <2>2. Saving' /\ Keeping'
    BY <1>4 DEF PowerLoss, Idle, Saving, Keeping, diskVars
  <2> QED
    BY <2>1, <2>2 DEF IInv
<1>5. CASE UNCHANGED vars
  BY <1>5 DEF vars, diskVars, saveVars, uiVars, IInv, TypeOK, Saving, Keeping, Loaded
<1> QED
  BY <1>1, <1>2, <1>3, <1>4, <1>5 DEF Next

\* The inductive invariant, on which the theorems below rest.
THEOREM Invariance == Spec => []IInv
<1>1. Init => IInv
  BY InitIInv
<1>2. IInv /\ [Next]_vars => IInv'
  BY NextIInv
<1> QED
  BY <1>1, <1>2, PTL DEF Spec

-----------------------------------------------------------------------------
(* The theorems.                                                           *)

\* Type correctness: among others, no counter falls below zero.
THEOREM TypeCorrectness == Spec => []TypeOK
<1>1. IInv => TypeOK
  BY DEF IInv
<1> QED
  BY <1>1, Invariance, PTL

\* saveToFile() is atomic towards load(): at each of its steps, and when it is
\* cut short by an error or by power loss, the old or the new statistics are
\* found, provided that the old ones were in the file when it began.
THEOREM AtomicSave == Spec => SaveIsAtomic
<1>1. ASSUME IInv, [Next]_vars
      PROVE  [pc # "idle" /\ op = "save" /\ whole => Loaded' \in {base, saving}]_vars
  <2> SUFFICES ASSUME pc # "idle", op = "save", whole
               PROVE  Loaded' \in {base, saving} \/ UNCHANGED vars
    OBVIOUS
  <2> USE FilesDiffer DEF Loaded
  <2>1. base \in Stats /\ saving \in Stats /\ Saving
    BY <1>1 DEF IInv, Saving, TypeOK
  <2>2. CASE SaveToFile
    BY <2>1, <2>2 DEF SaveToFile, Saving, OpenTemp, WriteTemp, RemoveBackup, Rotate,
       BackupAfterRotate, RemoveFile, Publish, Rollback, Go, Fails, diskVars
  <2>3. CASE PowerLoss
    <3>1. UNCHANGED <<file, backup>>
      BY <2>3 DEF PowerLoss, diskVars
    <3>2. file = base \/ (file = None /\ backup = base)
      BY <1>1, <2>1 DEF IInv, TypeOK, SavePcs, Saving
    <3> QED
      BY <2>1, <3>1, <3>2
  <2>4. ~User /\ ~Reboot
    BY DEF User, Reboot, OpenBook, TurnPage, MarkInReader, OpenStats, EditDate, EditStats, SaveStats,
       ReturnToReader, CloseBook, MarkAtHome, SyncStats, ResetLocal, At
  <2> QED
    BY <1>1, <2>2, <2>3, <2>4 DEF Next
<1> QED
  BY <1>1, Invariance, PTL DEF Spec, SaveIsAtomic

\* Nothing but a reset replaces the statistics of a newer firmware, whatever
\* screen has statistics in RAM that it saves when it closes.
THEOREM NewerSurvives == Spec => NewerIsKept
<1>1. ASSUME IInv, [Next]_vars
      PROVE  [file = Newer /\ file' # Newer => op = "reset"]_vars
  <2> SUFFICES ASSUME file = Newer, file' # Newer PROVE op = "reset"
    OBVIOUS
  <2>1. CASE SaveToFile
    <3>1. pc # "idle"
      BY <2>1 DEF SaveToFile, OpenTemp, WriteTemp, RemoveBackup, Rotate, RemoveFile,
         Publish, Rollback
    <3> QED
      BY <1>1, <3>1 DEF IInv, Keeping, TypeOK
  <2>2. ~User /\ ~Reboot /\ ~PowerLoss /\ ~UNCHANGED vars
    BY DEF User, Reboot, PowerLoss, OpenBook, TurnPage, MarkInReader, OpenStats, EditDate, EditStats,
       SaveStats, ReturnToReader, CloseBook, MarkAtHome, SyncStats, ResetLocal, diskVars, vars
  <2> QED
    BY <1>1, <2>1, <2>2 DEF Next
<1> QED
  BY <1>1, Invariance, PTL DEF Spec, NewerIsKept
-----------------------------------------------------------------------------
(* Counting the pages.                                                     *)

(* The pages that have been counted are in the reader's statistics while   *)
(* it is open, then in those that are being saved, then in the file. The   *)
(* screen above the reader has as many in its copy, so that it may save    *)
(* this. Only the EPUB reader keeps its own when the screen is gone.       *)
EpubReturns == ReturnToReader => reader = "epub"

Counting ==
    /\ pc = "rollback" => faults > 0
    /\ faults = 0 /\ ~blocked =>
         /\ screen # "Home" => mem.pages = counted.pages
         /\ screen = "Stats" => copy.pages = counted.pages
         /\ screen = "Home" /\ pc # "idle" => saving.pages = counted.pages
         /\ screen = "Home" /\ pc = "idle" => Loaded.pages = counted.pages

\* A book that is marked leaves the pages.
LEMMA MarkedKeepsPages ==
    ASSUME NEW s \in Stats, NEW up \in BOOLEAN PROVE Marked(s, up).pages = s.pages
<1> DEFINE b == IF up THEN s.books + 1 ELSE IF s.books > 0 THEN s.books - 1 ELSE 0
<1>1. Marked(s, up) = [s EXCEPT !.books = b]
  BY Zenon DEF Marked
<1> HIDE DEF b
<1> QED
  BY <1>1 DEF Stats

LEMMA InitCounting == ASSUME Init PROVE Counting
<1>1. counted = Loaded /\ screen = "Home" /\ pc = "idle"
  BY DEF Init
<1> QED
  BY <1>1 DEF Counting

\* The steps of saveToFile(): without a fault the last one puts what is saved in the file.
LEMMA SaveToFileCounting == ASSUME IInv, Counting, SaveToFile PROVE Counting'
<1> USE FilesDiffer
<1>1. /\ faults \in Nat /\ faults' >= faults /\ saving \in Stats
      /\ UNCHANGED <<blocked, screen, reader, mem, copy, edited, counted>>
  BY DEF IInv, TypeOK, SaveToFile, uiVars, OpenTemp, WriteTemp, RemoveBackup, Rotate, RemoveFile,
         Publish, Rollback, Fails, Fault
<1>2. pc # "idle"
  BY DEF SaveToFile, OpenTemp, WriteTemp, RemoveBackup, Rotate, RemoveFile, Publish, Rollback
<1>3. pc' = "rollback" => faults' > 0
  BY <1>1 DEF SaveToFile, OpenTemp, WriteTemp, RemoveBackup, Rotate, RemoveFile, Publish,
         Rollback, Fails, Fault, Idle, Go
<1>4. ASSUME faults' = 0
      PROVE  \/ pc' # "idle" /\ saving' = saving
             \/ pc' = "idle" /\ Loaded' = saving
  <2>1. ~Fault /\ pc # "rollback"
    BY <1>1, <1>4 DEF Fault, Counting
  <2>2. CASE Publish
    <3>1. file' = temp /\ pc' = "idle" /\ temp = saving
      BY <2>1, <2>2 DEF Publish, Fails, Idle, IInv, Saving
    <3> QED
      BY <1>1, <3>1 DEF Loaded
  <2>3. CASE OpenTemp \/ WriteTemp \/ RemoveBackup \/ Rotate \/ RemoveFile
    BY <2>1, <2>3 DEF OpenTemp, WriteTemp, RemoveBackup, Rotate, RemoveFile, Fails, Go
  <2>4. ~Rollback
    BY <2>1 DEF Rollback
  <2> QED
    BY <2>2, <2>3, <2>4 DEF SaveToFile
<1> QED
  BY <1>1, <1>2, <1>3, <1>4 DEF Counting

\* The screens, when the readers import only what the statistics screen can edit.
LEMMA UserCounting == ASSUME IInv, Counting, User, EpubReturns PROVE Counting'
<1>1. Loaded \in Stats /\ mem \in Stats /\ copy \in Stats /\ counted \in Stats /\ blocked \in BOOLEAN
  BY LoadedIsStats DEF IInv, TypeOK
<1>2. pc = "idle" /\ UNCHANGED <<diskVars, faults>>
  BY DEF User, At, OpenBook, TurnPage, MarkInReader, OpenStats, EditDate, EditStats, SaveStats,
         ReturnToReader, CloseBook, MarkAtHome, SyncStats, ResetLocal
<1>3. Loaded' = Loaded
  BY <1>2 DEF diskVars, Loaded
<1>4. ASSUME NEW s \in Stats, NEW b \in BOOLEAN, Save(s, b)
      PROVE  /\ pc' \in {"idle", "openTemp"} /\ (pc' # "idle" => saving' = s)
             /\ ~b => pc' # "idle"
  BY <1>2, <1>4 DEF Save, Begin, saveVars
<1>5. CASE OpenBook \/ OpenStats \/ EditDate
  BY <1>1, <1>2, <1>3, <1>5
     DEF OpenBook, OpenStats, EditDate, At, Blocked, Counting, saveVars
<1>6. CASE TurnPage
  <2>1. mem'.pages = mem.pages + 1 /\ counted'.pages = counted.pages + 1
    BY <1>1, <1>6 DEF TurnPage, Stats
  <2> QED
    BY <1>2, <1>6, <2>1 DEF TurnPage, At, Counting, saveVars
<1>7. ASSUME NEW up \in BOOLEAN, MarkInReader(up) PROVE Counting'
  <2>1. /\ Marked(mem, up).pages = mem.pages /\ Marked(counted, up).pages = counted.pages
        /\ Marked(mem, up) \in Stats
    BY <1>1, MarkedKeepsPages, MarkedIsStats
  <2>2. pc' \in {"idle", "openTemp"}
    BY <1>1, <1>4, <1>7, <2>1 DEF MarkInReader
  <2> QED
    BY <1>2, <1>7, <2>1, <2>2 DEF MarkInReader, Mark, At, Counting
<1>8. ASSUME NEW up \in BOOLEAN, EditStats(up) PROVE Counting'
  <2>1. Marked(copy, up).pages = copy.pages /\ Marked(counted, up).pages = counted.pages
    BY <1>1, MarkedKeepsPages
  <2> QED
    BY <1>2, <1>8, <2>1 DEF EditStats, Mark, At, Counting, saveVars
<1>9. ASSUME NEW next \in {"Stats", "Return", "Leaving"}, SaveStats(next) PROVE Counting'
  <2>1. pc' \in {"idle", "openTemp"}
    BY <1>1, <1>2, <1>4, <1>9 DEF SaveStats, saveVars
  <2> QED
    BY <1>2, <1>9, <2>1 DEF SaveStats, At, Counting
<1>10. CASE ReturnToReader
  <2>1. reader = "epub"
    BY <1>10 DEF EpubReturns
  <2>2. mem'.pages = mem.pages
    BY <1>1, <1>10, <2>1 DEF ReturnToReader, ImportEdits, Stats
  <2>3. ~blocked' => ~blocked
    BY <1>1, <1>10 DEF ReturnToReader, Blocked
  <2> QED
    BY <1>2, <1>10, <2>2, <2>3 DEF ReturnToReader, At, Counting, saveVars
<1>11. CASE CloseBook
  <2>1. pc' \in {"idle", "openTemp"} /\ (pc' # "idle" => saving' = mem) /\ (~blocked => pc' # "idle")
    BY <1>1, <1>4, <1>11 DEF CloseBook
  <2> QED
    BY <1>2, <1>11, <2>1 DEF CloseBook, Counting
<1>12. Blocked \in BOOLEAN /\ (~Blocked => ~blocked)
  BY <1>1 DEF Blocked
<1>13. ASSUME NEW up \in BOOLEAN, MarkAtHome(up) PROVE Counting'
  <2>1. /\ Marked(Loaded, up).pages = Loaded.pages /\ Marked(counted, up).pages = counted.pages
        /\ Marked(Loaded, up) \in Stats
    BY <1>1, MarkedKeepsPages, MarkedIsStats
  <2>2. /\ pc' \in {"idle", "openTemp"} /\ (pc' # "idle" => saving' = Marked(Loaded, up))
        /\ ~Blocked => pc' # "idle"
    BY <1>4, <1>12, <1>13, <2>1 DEF MarkAtHome
  <2> QED
    BY <1>2, <1>12, <1>13, <2>1, <2>2 DEF MarkAtHome, Mark, At, Counting, uiVars
<1>14. CASE SyncStats
  <2>1. /\ pc' \in {"idle", "openTemp"} /\ (pc' # "idle" => saving' = Loaded)
        /\ ~Blocked => pc' # "idle"
    BY <1>1, <1>4, <1>12, <1>14 DEF SyncStats
  <2> QED
    BY <1>2, <1>12, <1>14, <2>1 DEF SyncStats, At, Counting, uiVars
<1>15. CASE ResetLocal
  BY <1>2, <1>15 DEF ResetLocal, Begin, At, Counting, uiVars
<1> QED
  BY <1>5, <1>6, <1>7, <1>8, <1>9, <1>10, <1>11, <1>13, <1>14, <1>15 DEF User

LEMMA NextCounting ==
    ASSUME IInv, Counting, [Next]_vars, [EpubReturns]_vars PROVE Counting'
<1>1. CASE User /\ EpubReturns
  BY <1>1, UserCounting
<1>2. CASE SaveToFile
  BY <1>2, SaveToFileCounting
<1>3. CASE Reboot
  BY <1>3 DEF Reboot, At, Counting, Loaded, diskVars, saveVars, uiVars
<1>4. CASE PowerLoss
  <2>1. faults' > 0 /\ UNCHANGED reader /\ pc' = "idle"
    BY <1>4 DEF PowerLoss, Fault, Idle, IInv, TypeOK
  <2> QED
    BY <2>1 DEF Counting
<1>5. CASE UNCHANGED vars
  BY <1>5 DEF vars, diskVars, saveVars, uiVars, Counting, Loaded
<1> QED
  BY <1>1, <1>2, <1>3, <1>4, <1>5 DEF Next

\* No page that was turned is lost as long as only the EPUB reader returns from its statistics
\* screen (the XTC reader then drops the pages of the session): whatever is edited in the
\* statistics above the reader, marked, synchronised or reset, the pages are on record once
\* the reader is closed and its save is through (EpubReaderActivity::onExit()).
THEOREM PagesReachTheFile == Spec /\ [][EpubReturns]_vars => []PagesAreCounted
<1>1. Init => Counting
  BY InitCounting
<1>2. IInv /\ Counting /\ [Next]_vars /\ [EpubReturns]_vars => Counting'
  BY NextCounting
<1>3. Counting => PagesAreCounted
  BY DEF Counting, PagesAreCounted, Settled, At
<1> QED
  BY <1>1, <1>2, <1>3, Invariance, PTL DEF Spec

\* A reader that is open is one of those in use.
ReaderInUse == screen # "Home" => reader \in Readers

\* With the EPUB reader only, every page turned is on record once it is closed.
COROLLARY EpubPagesReachTheFile ==
    ASSUME Readers \subseteq {"epub"}
    PROVE  Spec => []PagesAreCounted
<1>1. Init => ReaderInUse
  BY DEF Init, ReaderInUse
<1>2. ReaderInUse /\ [Next]_vars => ReaderInUse'
  BY DEF ReaderInUse, Next, User, vars, uiVars, At, OpenBook, TurnPage, OpenStats, EditDate,
         ReturnToReader, CloseBook, SaveStats, MarkInReader, EditStats, MarkAtHome, SyncStats,
         ResetLocal, SaveToFile, Reboot, PowerLoss
<1>3. ReaderInUse => [EpubReturns]_vars
  BY DEF ReaderInUse, EpubReturns, ReturnToReader, At
<1> QED
  BY <1>1, <1>2, <1>3, PagesReachTheFile, PTL DEF Spec

-----------------------------------------------------------------------------
(* Counting the books.  Both screens change them, and a mark is saved when  *)
(* the screen that made it is left; but a reader that is closed below the   *)
(* statistics screen writes back the number it has itself.                  *)

\* No mark made in the statistics is unknown to the reader that is closed below them.
NoMarkForgotten == SaveStats("Leaving") => mem.books = copy.books

\* The books on record, once the save under way is through.
OnRecord == IF pc = "idle" THEN Loaded.books = counted.books ELSE saving.books = counted.books

BookCounting ==
    /\ pc = "rollback" => faults > 0
    /\ faults = 0 /\ ~blocked =>
         /\ screen \in {"Reader", "Leaving"} => mem.books = counted.books
         /\ screen = "Stats" => copy.books = counted.books
         /\ screen \in {"Home", "Reader", "Return"} \/ (screen = "Stats" /\ ~edited) => OnRecord

\* What a save under way leaves on record.
LEMMA SaveRecords ==
    ASSUME IInv, pc = "idle", NEW s \in Stats, NEW b \in BOOLEAN, Save(s, b)
    PROVE  /\ pc' \in {"idle", "openTemp"}
           /\ ~b /\ s.books = counted'.books => OnRecord'
<1>1. pc' \in {"idle", "openTemp"} /\ (pc' # "idle" => saving' = s) /\ (~b => pc' # "idle")
  BY DEF Save, Begin, saveVars
<1> QED
  BY <1>1 DEF OnRecord

\* A mark moves both counts alike.
LEMMA MarkedAlike ==
    ASSUME NEW s \in Stats, NEW t \in Stats, NEW up \in BOOLEAN, s.books = t.books
    PROVE  Marked(s, up).books = Marked(t, up).books
<1>1. \A r \in Stats : Marked(r, up).books =
          IF up THEN r.books + 1 ELSE IF r.books > 0 THEN r.books - 1 ELSE 0
  BY DEF Marked, Stats
<1> QED
  BY <1>1

LEMMA SaveToFileBookCounting == ASSUME IInv, BookCounting, SaveToFile PROVE BookCounting'
<1> USE FilesDiffer
<1>1. /\ faults \in Nat /\ faults' >= faults /\ saving \in Stats
      /\ UNCHANGED <<blocked, screen, reader, mem, copy, edited, counted>>
  BY DEF IInv, TypeOK, SaveToFile, uiVars, OpenTemp, WriteTemp, RemoveBackup, Rotate, RemoveFile,
         Publish, Rollback, Fails, Fault
<1>2. pc # "idle"
  BY DEF SaveToFile, OpenTemp, WriteTemp, RemoveBackup, Rotate, RemoveFile, Publish, Rollback
<1>3. pc' = "rollback" => faults' > 0
  BY <1>1 DEF SaveToFile, OpenTemp, WriteTemp, RemoveBackup, Rotate, RemoveFile, Publish,
         Rollback, Fails, Fault, Idle, Go
<1>4. ASSUME faults' = 0, OnRecord
      PROVE  OnRecord'
  <2>1. ~Fault /\ pc # "rollback"
    BY <1>1, <1>4 DEF Fault, BookCounting
  <2>2. CASE Publish
    <3>1. file' = temp /\ pc' = "idle" /\ temp = saving
      BY <2>1, <2>2 DEF Publish, Fails, Idle, IInv, Saving
    <3>2. Loaded' = saving
      BY <1>1, <3>1 DEF Loaded
    <3> QED
      BY <1>1, <1>2, <1>4, <3>1, <3>2 DEF OnRecord
  <2>3. CASE OpenTemp \/ WriteTemp \/ RemoveBackup \/ Rotate \/ RemoveFile
    <3>1. pc' # "idle" /\ saving' = saving
      BY <2>1, <2>3 DEF OpenTemp, WriteTemp, RemoveBackup, Rotate, RemoveFile, Fails, Go
    <3> QED
      BY <1>1, <1>2, <1>4, <3>1 DEF OnRecord
  <2>4. ~Rollback
    BY <2>1 DEF Rollback
  <2> QED
    BY <2>2, <2>3, <2>4 DEF SaveToFile
<1> QED
  BY <1>1, <1>3, <1>4 DEF BookCounting

LEMMA UserBookCounting ==
    ASSUME IInv, BookCounting, User, NoMarkForgotten
    PROVE  BookCounting'
<1>1. Loaded \in Stats /\ mem \in Stats /\ copy \in Stats /\ counted \in Stats /\ blocked \in BOOLEAN
  BY LoadedIsStats DEF IInv, TypeOK
<1>2. pc = "idle" /\ UNCHANGED <<diskVars, faults>>
  BY DEF User, At, OpenBook, TurnPage, MarkInReader, OpenStats, EditDate, EditStats, SaveStats,
         ReturnToReader, CloseBook, MarkAtHome, SyncStats, ResetLocal
<1>3. Loaded' = Loaded
  BY <1>2 DEF diskVars, Loaded
<1>4. ASSUME pc' = "idle", counted'.books = counted.books, OnRecord
      PROVE  OnRecord'
  BY <1>2, <1>3, <1>4 DEF OnRecord
<1>5. Blocked \in BOOLEAN /\ (~Blocked => ~blocked)
  BY <1>1 DEF Blocked
<1>6. CASE OpenBook \/ OpenStats \/ EditDate
  BY <1>1, <1>2, <1>3, <1>5, <1>6
     DEF OpenBook, OpenStats, EditDate, At, BookCounting, OnRecord, saveVars
<1>7. CASE TurnPage
  <2>1. mem'.books = mem.books /\ counted'.books = counted.books
    BY <1>1, <1>7 DEF TurnPage, Stats
  <2> QED
    BY <1>2, <1>4, <1>7, <2>1 DEF TurnPage, At, BookCounting, saveVars
<1>8. ASSUME NEW up \in BOOLEAN, MarkInReader(up) PROVE BookCounting'
  <2>1. Marked(mem, up) \in Stats /\ mem' = Marked(mem, up) /\ counted' = Marked(counted, up)
    BY <1>1, <1>8, MarkedIsStats DEF MarkInReader, Mark
  <2>2. mem.books = counted.books => mem'.books = counted'.books
    BY <1>1, <2>1, MarkedAlike
  <2>3. /\ pc' \in {"idle", "openTemp"}
        /\ ~blocked /\ mem'.books = counted'.books => OnRecord'
    BY <1>1, <1>2, <1>8, <2>1, SaveRecords DEF MarkInReader
  <2> QED
    BY <1>2, <1>8, <2>2, <2>3 DEF MarkInReader, At, BookCounting
<1>9. ASSUME NEW up \in BOOLEAN, EditStats(up) PROVE BookCounting'
  <2>1. copy.books = counted.books => copy'.books = counted'.books
    BY <1>1, <1>9, MarkedAlike DEF EditStats, Mark
  <2> QED
    BY <1>2, <1>9, <2>1 DEF EditStats, At, BookCounting, saveVars
<1>10. ASSUME NEW next \in {"Stats", "Return", "Leaving"}, SaveStats(next) PROVE BookCounting'
  <2>1. /\ screen = "Stats" /\ screen' = next /\ edited' = FALSE
        /\ UNCHANGED <<blocked, mem, copy, counted, faults>>
    BY <1>2, <1>10 DEF SaveStats, At
  <2>2. pc' \in {"idle", "openTemp"}
    BY <1>1, <1>2, <1>10, SaveRecords DEF SaveStats, saveVars
  <2>3. ~blocked /\ faults = 0 => OnRecord'
    <3>1. CASE edited
      BY <1>1, <1>2, <1>10, <2>1, <3>1, SaveRecords DEF SaveStats, BookCounting
    <3>2. CASE ~edited
      BY <1>2, <1>4, <1>10, <2>1, <3>2 DEF SaveStats, saveVars, BookCounting
    <3> QED
      BY <3>1, <3>2
  <2>4. next = "Leaving" => mem.books = copy.books
    BY <1>10 DEF NoMarkForgotten
  <2> QED
    BY <2>1, <2>2, <2>3, <2>4 DEF BookCounting
<1>11. CASE ReturnToReader
  <2>1. mem'.books = Loaded.books
    BY <1>1, <1>11 DEF ReturnToReader, ImportEdits, Stats
  <2>2. /\ pc' = "idle" /\ counted' = counted /\ screen' = "Reader"
        /\ screen = "Return" /\ (~blocked' => ~blocked)
    BY <1>2, <1>5, <1>11 DEF ReturnToReader, At, saveVars
  <2> QED
    BY <1>2, <1>4, <2>1, <2>2 DEF BookCounting, OnRecord
<1>12. CASE CloseBook
  <2>1. pc' \in {"idle", "openTemp"} /\ (~blocked /\ mem.books = counted'.books => OnRecord')
    BY <1>1, <1>2, <1>12, SaveRecords DEF CloseBook
  <2> QED
    BY <1>2, <1>12, <2>1 DEF CloseBook, BookCounting
<1>13. ASSUME NEW up \in BOOLEAN, MarkAtHome(up) PROVE BookCounting'
  <2>1. Marked(Loaded, up) \in Stats /\ counted' = Marked(counted, up)
    BY <1>1, <1>13, MarkedIsStats DEF MarkAtHome, Mark
  <2>2. Loaded.books = counted.books => Marked(Loaded, up).books = counted'.books
    BY <1>1, <2>1, MarkedAlike
  <2>3. /\ pc' \in {"idle", "openTemp"}
        /\ ~Blocked /\ Marked(Loaded, up).books = counted'.books => OnRecord'
    BY <1>2, <1>5, <1>13, <2>1, SaveRecords DEF MarkAtHome
  <2> QED
    BY <1>2, <1>5, <1>13, <2>2, <2>3 DEF MarkAtHome, At, BookCounting, OnRecord, uiVars
<1>14. CASE SyncStats
  <2>1. /\ pc' \in {"idle", "openTemp"}
        /\ ~Blocked /\ Loaded.books = counted'.books => OnRecord'
    BY <1>1, <1>2, <1>5, <1>14, SaveRecords DEF SyncStats
  <2> QED
    BY <1>2, <1>5, <1>14, <2>1 DEF SyncStats, At, BookCounting, OnRecord, uiVars
<1>15. CASE ResetLocal
  BY <1>2, <1>15 DEF ResetLocal, Begin, At, BookCounting, OnRecord, uiVars
<1> QED
  BY <1>6, <1>7, <1>8, <1>9, <1>10, <1>11, <1>12, <1>13, <1>14, <1>15 DEF User

LEMMA NextBookCounting ==
    ASSUME IInv, BookCounting, [Next]_vars, [NoMarkForgotten]_vars
    PROVE  BookCounting'
<1>1. CASE User /\ NoMarkForgotten
  BY <1>1, UserBookCounting
<1>2. CASE SaveToFile
  BY <1>2, SaveToFileBookCounting
<1>3. CASE Reboot
  BY <1>3 DEF Reboot, At, BookCounting, OnRecord, Loaded, diskVars, saveVars, uiVars
<1>4. CASE PowerLoss
  <2>1. faults' > 0 /\ pc' = "idle"
    BY <1>4 DEF PowerLoss, Fault, Idle, IInv, TypeOK
  <2> QED
    BY <2>1 DEF BookCounting
<1>5. CASE UNCHANGED vars
  BY <1>5 DEF vars, diskVars, saveVars, uiVars, BookCounting, OnRecord, Loaded
<1> QED
  BY <1>1, <1>2, <1>3, <1>4, <1>5 DEF Next

\* Every book marked finished is on record, in whatever screen it is marked and by whichever
\* reader, unless the device sleeps or goes Home from a statistics screen whose marks the reader
\* below has not taken over: what gs_edits finds (saveStats(), then the reader's onExit()) is
\* the only way to lose one.
THEOREM BooksReachTheFile == Spec /\ [][NoMarkForgotten]_vars => []BooksAreCounted
<1>1. Init => BookCounting
  BY DEF Init, BookCounting, OnRecord
<1>2. IInv /\ BookCounting /\ [Next]_vars /\ [NoMarkForgotten]_vars => BookCounting'
  BY NextBookCounting
<1>3. BookCounting => BooksAreCounted
  BY DEF BookCounting, OnRecord, BooksAreCounted, Settled, At
<1> QED
  BY <1>1, <1>2, <1>3, Invariance, PTL DEF Spec
=============================================================================
