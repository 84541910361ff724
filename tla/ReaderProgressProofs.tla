------------------------ MODULE ReaderProgressProofs ------------------------
(***************************************************************************)
(* Proofs about what a reader remembers of its page, for every book, every *)
(* interval of the debouncer and every number of faults.                   *)
(***************************************************************************)
EXTENDS ReaderProgress, SequenceTheorems, TLAPS

\* The tuples of variables, and the names of things, carry no meaning of their own.
USE DEF vars, bookVars, saveVars, bootVars, ghostVars, Idle, Leaving, Actors

-----------------------------------------------------------------------------
(* Positions.                                                              *)

LEMMA BookFacts ==
    /\ EndOfBook \in Nat \ {0} /\ Pages = 0 .. EndOfBook - 1
    /\ Positions = 0 .. EndOfBook
    /\ Interval \in Nat \ {0} /\ MaxFootnoteDepth \in Nat /\ MaxFaults \in Nat
  <1>1. /\ Chapters \in Nat \ {0} /\ ChapterPages \in Nat \ {0} /\ Interval \in Nat \ {0}
        /\ MaxFootnoteDepth \in Nat /\ MaxFaults \in Nat
    BY ReaderAssumption
  <1>2. EndOfBook \in Nat \ {0}
    BY <1>1 DEF EndOfBook
  <1>3. Pages = 0 .. EndOfBook - 1
    BY DEF Pages, EndOfBook
  <1> QED
    BY <1>1, <1>2, <1>3 DEF Positions

LEMMA PositionFacts ==
    /\ 0 \in Pages /\ EndOfBook \in Positions /\ EndOfBook \notin Pages
    /\ Pages \subseteq Positions /\ Positions \subseteq Nat
    /\ \A p \in Positions : /\ p # EndOfBook => p \in Pages
                            /\ p < EndOfBook => p + 1 \in Positions
                            /\ p > 0 => p - 1 \in Pages
    /\ None \notin Positions /\ Torn \notin Positions /\ Torn # None
    /\ \A a \in Actors : TornBy(a) \notin Positions /\ TornBy(a) # None
  BY BookFacts DEF None, TornBy, Torn

\* The end of the book is not in the chapter of any page.
LEMMA EndHasNoChapter ==
    ASSUME NEW p \in Pages
    PROVE  Chapter(p) # Chapter(EndOfBook)
  <1>1. Chapters \in Nat \ {0} /\ ChapterPages \in Nat \ {0}
    BY ReaderAssumption
  <1>2. Chapter(EndOfBook) = Chapters
    BY <1>1 DEF Chapter, EndOfBook
  <1>3. Chapter(p) < Chapters
    BY <1>1 DEF Chapter, Pages
  <1> QED
    BY <1>1, <1>2, <1>3

-----------------------------------------------------------------------------
(* The type invariant.                                                     *)

Thens == {"stay", "leave", "close", "restart"}
Jobs == [pc : Programs, at : Positions, then : Thens, goal : Positions]
Debouncers == [initialized : BOOLEAN, last : Positions, changes : 0 .. Interval, pending : BOOLEAN]

FlagTypes ==
    /\ format \in Formats /\ open \in BOOLEAN /\ section \in BOOLEAN
    /\ relayout \in BOOLEAN /\ forceSave \in BOOLEAN /\ tried \in BOOLEAN
PlaceTypes ==
    /\ pos \in Positions /\ note \in {"no", "pending", "active"}
    /\ origins \in Seq(Pages) /\ Len(origins) <= MaxFootnoteDepth
    /\ token \in Pages \cup {None} /\ drawing \in Pages \cup {None}
\* A restart saves a page of the chapter at or before the page it is for.
KeepsPlace(p, goal) == /\ p \in Pages /\ goal \in Pages
                       /\ p <= goal /\ Chapter(p) = Chapter(goal)
JobTypes ==
    /\ job \in [Actors -> Jobs]
    /\ \A a \in Actors : job[a].then = "restart" => KeepsPlace(job[a].at, job[a].goal)
SaveTypes ==
    /\ lastSaved \in Positions \cup {None} /\ deb \in Debouncers
    /\ files \in [{"main", "tmp", "bak"} -> Contents]
GhostTypes ==
    /\ settled \in Pages \cup {None} /\ behind \in 0 .. Interval + 1
    /\ stored \subseteq Positions /\ raced \subseteq Positions
    /\ expected \subseteq Positions /\ faults \in 0 .. MaxFaults

Types == FlagTypes /\ PlaceTypes /\ JobTypes /\ SaveTypes /\ GhostTypes

Restarting == \E p \in Pages : RestartForLowMemory(p)
Failing == \E p \in Pages : SectionFails(p)

\* A step of a save goes on to the next operation or ends the save.
Goes(a) == /\ Continues /\ faults' = faults
           /\ \E pc \in Programs \ {"idle"} : Step(a, pc)
Ends(a) == /\ \E ok \in BOOLEAN : Finish(a, ok)
           /\ faults' \in {faults, faults + 1} /\ faults' <= MaxFaults

\* The operations of a save, one after the other ...
Going(a) ==
    \/ /\ job[a].pc = "removeTmp" /\ format = "epub" /\ Step(a, "write")
       /\ files' = Without("tmp")
    \/ /\ job[a].pc = "write" /\ Step(a, "sync")
       /\ files' = [files EXCEPT !["tmp"] = TornBy(a)]
    \/ /\ job[a].pc = "sync" /\ Step(a, "removeBak")
       /\ files' = [n \in DOMAIN files |-> IF files[n] = TornBy(a) THEN job[a].at ELSE files[n]]
    \/ /\ job[a].pc = "removeBak" /\ Step(a, "rotate")
       /\ files' = Without("bak")
    \/ /\ job[a].pc = "rotate" /\ Step(a, "promote")
       /\ files["main"] = None /\ files' = files
    \/ /\ job[a].pc = "rotate" /\ Step(a, "promote")
       /\ CanRename("main", "bak") /\ files' = Renamed("main", "bak")
    \/ /\ job[a].pc = "removeTmp" /\ format = "paged" /\ Step(a, "fill")
       /\ files' = [files EXCEPT !["main"] = TornBy(a)]

\* ... and how it ends.
Ended(a, ok) ==
    /\ Finish(a, ok)
    /\ \/ /\ ok /\ job[a].pc = "promote" /\ CanRename("tmp", "main") /\ faults' = faults
          /\ files' = Renamed("tmp", "main")
       \/ /\ ok /\ job[a].pc = "fill" /\ faults' = faults
          /\ files' = [files EXCEPT !["main"] = job[a].at]
       \/ /\ ~ok /\ faults' = faults + 1
          /\ \/ files' = files /\ job[a].pc \in {"removeTmp", "write"}
             \/ files' = Abandoned({a}) /\ job[a].pc = "fill"
             \/ files' = [Abandoned({a}) EXCEPT !["tmp"] = None] /\ job[a].pc = "sync"
             \/ files' = Without("tmp") /\ job[a].pc \in {"removeBak", "rotate"}
             \/ files' = Restored /\ job[a].pc = "promote"
       \/ /\ ~ok /\ faults' = faults
          /\ \/ job[a].pc = "rotate" /\ files["main"] # None /\ ~CanRename("main", "bak")
                /\ files' = Without("tmp")
             \/ job[a].pc = "promote" /\ ~CanRename("tmp", "main") /\ files' = Restored

LEMMA GoingShape ==
    ASSUME NEW a \in Actors, SaveStep(a), GhostTypes
    PROVE  (Goes(a) /\ Going(a)) \/ (Ends(a) /\ (Ended(a, TRUE) \/ Ended(a, FALSE)))
  <1>1. ASSUME NEW pc \in Programs \ {"idle"}, Step(a, pc), Continues, faults' = faults
        PROVE  Goes(a)
    BY <1>1, Zenon DEF Goes
  <1>2. ASSUME NEW ok \in BOOLEAN, Ended(a, ok), Fault \/ faults' = faults
        PROVE  Ends(a) /\ (Ended(a, TRUE) \/ Ended(a, FALSE))
    <2>1. faults' \in {faults, faults + 1} /\ faults' <= MaxFaults
      BY <1>2, BookFacts DEF Fault, GhostTypes
    <2>2. Finish(a, ok)
      BY <1>2, Zenon DEF Ended
    <2>3. Ended(a, TRUE) \/ Ended(a, FALSE)
      BY <1>2, Zenon
    <2> QED
      BY <2>1, <2>2, <2>3, Zenon DEF Ends
  <1> HIDE DEF Goes, Ends
  <1>3. /\ {"write", "sync", "removeBak", "rotate", "promote", "fill"} \subseteq Programs \ {"idle"}
        /\ {TRUE, FALSE} \subseteq BOOLEAN
    BY DEF Programs
  <1>4. CASE RemoveTmp(a)
    BY <1>1, <1>2, <1>3, <1>4, Zenon DEF RemoveTmp, Going, Ended, Fault
  <1>5. CASE Write(a)
    BY <1>1, <1>2, <1>3, <1>5, Zenon DEF Write, Going, Ended, Fault
  <1>6. CASE Sync(a)
    BY <1>1, <1>2, <1>3, <1>6, Zenon DEF Sync, Going, Ended, Fault
  <1>7. CASE RemoveBak(a)
    BY <1>1, <1>2, <1>3, <1>7, Zenon DEF RemoveBak, Going, Ended, Fault
  <1>8. CASE Rotate(a)
    BY <1>1, <1>2, <1>3, <1>8, Zenon DEF Rotate, Rotated, Going, Ended, Fault
  <1>9. CASE Promote(a)
    BY <1>1, <1>2, <1>3, <1>9, Zenon DEF Promote, Going, Ended, Fault
  <1>10. CASE Overwrite(a)
    BY <1>1, <1>2, <1>3, <1>10, Zenon DEF Overwrite, Going, Ended, Fault
  <1>11. CASE Fill(a)
    BY <1>1, <1>2, <1>3, <1>11, Zenon DEF Fill, Going, Ended, Fault
  <1> QED
    BY <1>4, <1>5, <1>6, <1>7, <1>8, <1>9, <1>10, <1>11 DEF SaveStep

LEMMA SaveShape ==
    ASSUME NEW a \in Actors, SaveStep(a), GhostTypes
    PROVE  (Goes(a) \/ Ends(a)) /\ format' = format
  <1>1. format' = format
    BY DEF SaveStep, RemoveTmp, Write, Sync, RemoveBak, Rotate, Promote, Overwrite, Fill
  <1> QED
    BY <1>1, GoingShape

\* The end of a save closes the reader, with or without a restart, or lets it go on.
LEMMA EndShape ==
    ASSUME NEW a \in Actors, NEW ok \in BOOLEAN, Finish(a, ok)
    PROVE  /\ raced = {} => stored' = IF ok THEN {job[a].at} ELSE stored
           /\ stored' \in {{}, stored, raced, {job[a].at}}
           /\ \/ /\ job[a].then = "restart" /\ ok /\ Closed
                 /\ token' = job[a].goal /\ expected' = expected
              \/ /\ job[a].then = "close" /\ Closed /\ token' = token
                 /\ expected' = IF ok THEN expected ELSE {}
              \/ Stays(a, ok) /\ job[a].then # "close" /\ (job[a].then = "restart" => ~ok)
  BY DEF Finish, Left, Restarts

LEMMA FlagTypesStep ==
    ASSUME Types, [Next]_vars
    PROVE  FlagTypes'
  <1> USE DEF FlagTypes
  <1>1. FlagTypes /\ GhostTypes
    BY DEF Types
  <1>2. CASE Open \/ PowerLoss \/ Exit
    BY <1>1, <1>2, Zenon DEF Open, PowerLoss, Exit, Closed
  <1>3. CASE PageTurn \/ (\E p \in Pages : Jump(p)) \/ RestoreSavedPosition \/ Relayout
    BY <1>1, <1>3, Zenon DEF PageTurn, MoveTo, Jump, RestoreSavedPosition, Relayout
  <1>4. CASE \E p \in Pages, preview \in BOOLEAN : FollowFootnote(p, preview)
    BY <1>1, <1>4, Zenon DEF FollowFootnote
  <1>5. CASE RenderPage \/ BuildFails \/ Failing \/ Restarting
    BY <1>1, <1>5, Zenon
       DEF RenderPage, BuildFails, Failing, SectionFails, Restarting, RestartForLowMemory
  <1>6. CASE \E metadataChanged, intervalOver \in BOOLEAN : ObserveShown(metadataChanged, intervalOver)
    BY <1>1, <1>6, Zenon DEF ObserveShown
  <1>7. CASE SaveForHandOff
    BY <1>1, <1>7, Zenon DEF SaveForHandOff
  <1>8. CASE \E a \in Actors : SaveStep(a)
    <2>1. PICK a \in Actors : SaveStep(a)
      BY <1>8
    <2>2. (Goes(a) \/ Ends(a)) /\ format' = format
      BY <1>1, <2>1, SaveShape
    <2>3. CASE Goes(a)
      BY <1>1, <2>2, <2>3, Zenon DEF Goes, Continues
    <2>4. CASE Ends(a)
      <3>1. PICK ok \in BOOLEAN : Finish(a, ok)
        BY <2>4 DEF Ends
      <3>2. Closed \/ Stays(a, ok)
        BY <3>1, EndShape
      <3> QED
        BY <1>1, <2>2, <3>2, Zenon DEF Closed, Stays
    <2> QED
      BY <2>2, <2>3, <2>4
  <1>9. CASE UNCHANGED vars
    BY <1>1, <1>9
  <1> QED
    BY <1>2, <1>3, <1>4, <1>5, <1>6, <1>7, <1>8, <1>9, Zenon DEF Next, Failing, Restarting

\* A footnote's origin comes from the top of the stack.
LEMMA TopOrigin ==
    ASSUME PlaceTypes, origins # << >>
    PROVE  /\ origins[Len(origins)] \in Pages
           /\ origins[1] \in Pages
           /\ SubSeq(origins, 1, Len(origins) - 1) \in Seq(Pages)
           /\ Len(SubSeq(origins, 1, Len(origins) - 1)) <= MaxFootnoteDepth
  <1>1. origins \in Seq(Pages) /\ Len(origins) \in Nat \ {0} /\ Len(origins) <= MaxFootnoteDepth
    BY EmptySeq DEF PlaceTypes
  <1>2. \A n \in 1 .. Len(origins) : origins[n] \in Pages
    BY <1>1, ElementOfSeq
  <1>3. /\ SubSeq(origins, 1, Len(origins) - 1) \in Seq(Pages)
        /\ Len(SubSeq(origins, 1, Len(origins) - 1))
                = IF 1 <= Len(origins) - 1 THEN Len(origins) - 1 - 1 + 1 ELSE 0
    <2>1. Len(origins) - 1 \in Int /\ \A n \in 1 .. Len(origins) - 1 : origins[n] \in Pages
      BY <1>1, <1>2
    <2> QED
      BY <2>1, SubSeqProperties
  <1> QED
    BY <1>1, <1>2, <1>3, BookFacts

LEMMA PlaceTypesStep ==
    ASSUME Types, [Next]_vars
    PROVE  PlaceTypes'
  <1>1. PlaceTypes /\ GhostTypes /\ SaveTypes /\ JobTypes
    BY DEF Types
  <1> USE PositionFacts, BookFacts DEF PlaceTypes
  <1>2. CASE Open
    <2>1. pos' \in Positions
      BY <1>1, <1>2 DEF Open, Recovered, RecoveredFrom, Held
    <2> QED
      BY <1>1, <1>2, <2>1 DEF Open
  <1>3. ASSUME Closed, token' \in Pages \cup {None}
        PROVE  PlaceTypes'
    BY <1>3, EmptySeq DEF Closed
  <1>4. CASE PowerLoss
    BY <1>1, <1>3, <1>4 DEF PowerLoss
  <1>5. CASE Exit
    <2>1. CASE SavesOnExit
      BY <1>1, <1>5, <2>1 DEF Exit
    <2>2. CASE ~SavesOnExit
      BY <1>1, <1>3, <1>5, <2>2 DEF Exit
    <2> QED
      BY <2>1, <2>2
  <1>6. CASE PageTurn
    <2>1. pos' \in Positions
      BY <1>1, <1>6 DEF PageTurn, MoveTo
    <2> QED
      BY <1>1, <1>6, <2>1 DEF PageTurn, MoveTo
  <1>7. CASE (\E p \in Pages : Jump(p)) \/ Relayout
    BY <1>1, <1>7 DEF Jump, Relayout
  <1>8. CASE RestoreSavedPosition
    BY <1>1, <1>8, TopOrigin DEF RestoreSavedPosition
  <1>9. CASE \E p \in Pages, preview \in BOOLEAN : FollowFootnote(p, preview)
    <2>1. pos \in Pages /\ origins' = Pushed(pos) /\ pos' \in Pages
          /\ note' \in {"no", "pending"} /\ UNCHANGED <<token, drawing>>
      BY <1>9 DEF FollowFootnote
    <2>2. /\ Append(origins, pos) \in Seq(Pages) /\ Len(origins) \in Nat
          /\ Len(Append(origins, pos)) = Len(origins) + 1
      BY <1>1, <2>1, AppendProperties, LenProperties
    <2>3. origins' \in Seq(Pages) /\ Len(origins') <= MaxFootnoteDepth
      <3>1. CASE Len(origins) < MaxFootnoteDepth
        <4>1. origins' = Append(origins, pos)
          BY <2>1, <3>1 DEF Pushed
        <4> QED
          BY <2>2, <3>1, <4>1
      <3>2. CASE ~(Len(origins) < MaxFootnoteDepth)
        <4>1. origins' = origins
          BY <2>1, <3>2 DEF Pushed
        <4> QED
          BY <1>1, <4>1
      <3> QED
        BY <3>1, <3>2
    <2> QED
      BY <1>1, <2>1, <2>3
  <1>10. CASE RenderPage \/ Failing \/ Restarting
    BY <1>1, <1>10 DEF RenderPage, Failing, SectionFails, Restarting, RestartForLowMemory
  <1>11. CASE BuildFails
    BY <1>1, <1>11, TopOrigin DEF BuildFails
  <1>12. CASE \E metadataChanged, intervalOver \in BOOLEAN : ObserveShown(metadataChanged, intervalOver)
    BY <1>1, <1>12 DEF ObserveShown
  <1>13. CASE SaveForHandOff
    BY <1>1, <1>13 DEF SaveForHandOff
  <1>14. CASE \E a \in Actors : SaveStep(a)
    <2>1. PICK a \in Actors : SaveStep(a)
      BY <1>14
    <2>2. Goes(a) \/ Ends(a)
      BY <1>1, <2>1, SaveShape
    <2>3. CASE Goes(a)
      BY <1>1, <2>3 DEF Goes, Continues
    <2>4. CASE Ends(a)
      <3>1. PICK ok \in BOOLEAN : Finish(a, ok)
        BY <2>4 DEF Ends
      <3>2. job[a].at \in Positions
            /\ (job[a].then = "restart" => job[a].at \in Pages /\ job[a].goal \in Pages)
        BY <1>1 DEF JobTypes, Jobs, KeepsPlace
      <3>3. CASE Closed /\ token' \in {token, job[a].goal} /\ (token' # token => job[a].then = "restart")
        BY <1>1, <1>3, <3>2, <3>3
      <3>4. CASE Stays(a, ok)
        BY <1>1, <3>2, <3>4 DEF Stays
      <3> QED
        BY <3>1, <3>3, <3>4, EndShape
    <2> QED
      BY <2>2, <2>3, <2>4
  <1>15. CASE UNCHANGED vars
    BY <1>1, <1>15
  <1> QED
    BY <1>2, <1>4, <1>5, <1>6, <1>7, <1>8, <1>9, <1>10, <1>11, <1>12, <1>13, <1>14, <1>15, Zenon
       DEF Next, Failing, Restarting

LEMMA JobTypesStep ==
    ASSUME Types, [Next]_vars
    PROVE  JobTypes'
  <1>1. PlaceTypes /\ GhostTypes /\ SaveTypes /\ JobTypes
    BY DEF Types
  <1> USE PositionFacts, BookFacts DEF JobTypes, Jobs, Thens, Programs
  <1>2. ASSUME NEW a \in Actors, NEW p \in Positions, NEW then \in Thens, NEW goal \in Positions,
               then = "restart" => KeepsPlace(p, goal), Begin(a, p, then, goal)
        PROVE  JobTypes'
    <2>1. job' = [job EXCEPT ![a] = [pc |-> "removeTmp", at |-> p, then |-> then, goal |-> goal]]
      BY <1>2 DEF Begin
    <2>2. \A q, g : KeepsPlace(q, g)' = KeepsPlace(q, g)
      BY Zenon DEF KeepsPlace, Pages, Chapter
    <2> QED
      BY <1>1, <1>2, <2>1, <2>2
  <1>3. CASE UNCHANGED job
    BY <1>1, <1>3
  <1>4. ASSUME Closed
        PROVE  JobTypes'
    <2>1. job' = [a \in Actors |-> Idle]
      BY <1>4 DEF Closed
    <2> QED
      BY <2>1
  <1>5. CASE Open \/ PowerLoss
    BY <1>3, <1>4, <1>5 DEF Open, PowerLoss
  <1>6. CASE PageTurn \/ (\E p \in Pages : Jump(p)) \/ RestoreSavedPosition \/ Relayout
             \/ RenderPage \/ BuildFails \/ Failing
    BY <1>3, <1>6 DEF PageTurn, Jump, RestoreSavedPosition, Relayout, RenderPage, BuildFails,
                      Failing, SectionFails
  <1>7. CASE \E p \in Pages, preview \in BOOLEAN : FollowFootnote(p, preview)
    BY <1>3, <1>7 DEF FollowFootnote
  <1>8. CASE Restarting
    <2>1. PICK p \in Pages : RestartForLowMemory(p)
      BY <1>8 DEF Restarting
    <2>2. Begin("render", p, "restart", pos) /\ KeepsPlace(p, pos)
      BY <2>1 DEF RestartForLowMemory, KeepsPlace
    <2> QED
      BY <1>1, <1>2, <2>2 DEF PlaceTypes
  <1>9. CASE \E metadataChanged, intervalOver \in BOOLEAN : ObserveShown(metadataChanged, intervalOver)
    <2>1. job' = job \/ Begin("render", pos, "stay", 0)
      BY <1>9 DEF ObserveShown
    <2> QED
      BY <1>1, <1>2, <1>3, <2>1 DEF PlaceTypes
  <1>10. CASE SaveForHandOff
    BY <1>1, <1>2, <1>10 DEF SaveForHandOff
  <1>11. CASE Exit
    <2>1. CASE SavesOnExit
      <3>1. /\ Begin("main", IF origins # << >> THEN origins[1] ELSE deb.last, "close", 0)
            /\ origins # << >> => origins[1] \in Pages
            /\ deb.last \in Positions
        BY <1>1, <1>11, <2>1, TopOrigin DEF Exit, SaveTypes, Debouncers
      <3> QED
        BY <1>2, <3>1
    <2>2. CASE ~SavesOnExit
      BY <1>4, <1>11, <2>2 DEF Exit
    <2> QED
      BY <2>1, <2>2
  <1>12. CASE \E a \in Actors : SaveStep(a)
    <2>1. PICK a \in Actors : SaveStep(a)
      BY <1>12
    <2>2. Goes(a) \/ Ends(a)
      BY <1>1, <2>1, SaveShape
    <2>3. CASE Goes(a)
      BY <1>1, <2>3 DEF Goes, Step
    <2>4. CASE Ends(a)
      <3>1. PICK ok \in BOOLEAN : Finish(a, ok)
        BY <2>4 DEF Ends
      <3>2. CASE Stays(a, ok)
        <4>1. job' = [job EXCEPT ![a] = Leaving] \/ job' = [job EXCEPT ![a] = Idle]
          BY <3>2, Zenon DEF Stays
        <4> QED
          BY <1>1, <4>1
      <3> QED
        BY <1>4, <3>1, <3>2, EndShape
    <2> QED
      BY <2>2, <2>3, <2>4
  <1>13. CASE UNCHANGED vars
    BY <1>3, <1>13
  <1> QED
    BY <1>5, <1>6, <1>7, <1>8, <1>9, <1>10, <1>11, <1>12, <1>13, Zenon
       DEF Next, Failing, Restarting

LEMMA ObserveTypes ==
    ASSUME Types, NEW p \in Positions, NEW metadataChanged \in BOOLEAN
    PROVE  Observe(p, metadataChanged) \in Debouncers
  <1> USE BookFacts DEF Debouncers
  <1>1. deb \in Debouncers
    BY DEF Types, SaveTypes
  <1>2. CASE ~deb.initialized
    BY <1>2 DEF Observe
  <1>3. CASE deb.initialized
    <2> DEFINE c == IF p # deb.last /\ deb.changes < Interval THEN deb.changes + 1 ELSE deb.changes
               b == deb.pending \/ p # deb.last \/ metadataChanged
    <2>1. Observe(p, metadataChanged) = [deb EXCEPT !.last = p, !.pending = b, !.changes = c]
      BY <1>3 DEF Observe
    <2>2. c \in 0 .. Interval /\ b \in BOOLEAN
      BY <1>1
    <2> HIDE DEF b, c
    <2> QED
      BY <1>1, <2>1, <2>2
  <1> QED
    BY <1>2, <1>3

LEMMA PersistedTypes ==
    ASSUME Types, NEW p \in Positions
    PROVE  Persisted(p) \in Debouncers
  BY BookFacts DEF Types, SaveTypes, Persisted, Debouncers

LEMMA NewDebouncerTypes == NewDebouncer \in Debouncers
  BY BookFacts, PositionFacts DEF NewDebouncer, Debouncers

LEMMA DebouncerStep ==
    ASSUME Types, [Next]_vars
    PROVE  lastSaved' \in Positions \cup {None} /\ deb' \in Debouncers
  <1>1. /\ lastSaved \in Positions \cup {None} /\ deb \in Debouncers
        /\ PlaceTypes /\ JobTypes /\ GhostTypes
    BY DEF Types, SaveTypes
  <1>2. CASE UNCHANGED <<lastSaved, deb>>
    BY <1>1, <1>2
  <1>3. CASE Closed
    BY <1>3, NewDebouncerTypes DEF Closed
  <1>4. CASE \E metadataChanged, intervalOver \in BOOLEAN : ObserveShown(metadataChanged, intervalOver)
    BY <1>1, <1>4, ObserveTypes DEF ObserveShown, PlaceTypes
  <1>5. CASE \E a \in Actors : SaveStep(a)
    <2>1. PICK a \in Actors : SaveStep(a)
      BY <1>5
    <2>2. Goes(a) \/ Ends(a)
      BY <1>1, <2>1, SaveShape
    <2>3. CASE Goes(a)
      BY <1>2, <2>3 DEF Goes, Continues
    <2>4. CASE Ends(a)
      <3>1. PICK ok \in BOOLEAN : Finish(a, ok)
        BY <2>4 DEF Ends
      <3>2. job[a].at \in Positions
        BY <1>1 DEF JobTypes, Jobs
      <3>3. CASE Stays(a, ok)
        BY <1>1, <3>2, <3>3, PersistedTypes DEF Stays
      <3> QED
        BY <1>3, <3>1, <3>3, EndShape
    <2> QED
      BY <2>2, <2>3, <2>4
  <1>6. CASE Open \/ PowerLoss \/ Exit \/ PageTurn \/ RestoreSavedPosition \/ Relayout
             \/ RenderPage \/ BuildFails \/ Failing \/ Restarting
    BY <1>2, <1>3, <1>6 DEF Open, PowerLoss, Exit, PageTurn, RestoreSavedPosition, Relayout,
                            RenderPage, BuildFails, Failing, SectionFails, Restarting,
                            RestartForLowMemory
  <1>7. CASE \/ \E p \in Pages : Jump(p)
             \/ \E p \in Pages, preview \in BOOLEAN : FollowFootnote(p, preview)
             \/ SaveForHandOff
    BY <1>2, <1>7 DEF Jump, FollowFootnote, SaveForHandOff
  <1>8. CASE UNCHANGED vars
    BY <1>2, <1>8
  <1> QED
    BY <1>4, <1>5, <1>6, <1>7, <1>8, Zenon DEF Next, Failing, Restarting

\* A file half-written is left as it is, but that nobody goes on writing it.
LEMMA AbandonedFacts ==
    ASSUME Types, NEW A \in SUBSET Actors
    PROVE  /\ Abandoned(A) \in [{"main", "tmp", "bak"} -> Contents]
           /\ \A n \in {"main", "tmp", "bak"} :
                files[n] \in Positions \cup {None} => Abandoned(A)[n] = files[n]
           /\ \A n \in {"main", "tmp", "bak"}, p \in Positions \cup {None} :
                Abandoned(A)[n] = p => files[n] = p
  <1>1. files \in [{"main", "tmp", "bak"} -> Contents] /\ Torn \in Contents
    BY DEF Types, SaveTypes, Contents
  <1>2. \A a \in A : TornBy(a) \notin Positions \cup {None}
    BY PositionFacts
  <1>3. Torn \notin Positions \cup {None}
    BY PositionFacts
  <1> QED
    BY <1>1, <1>2, <1>3 DEF Abandoned

LEMMA FilesStep ==
    ASSUME Types, [Next]_vars
    PROVE  files' \in [{"main", "tmp", "bak"} -> Contents]
  <1>1. files \in [{"main", "tmp", "bak"} -> Contents] /\ JobTypes /\ GhostTypes
    BY DEF Types, SaveTypes
  <1>2. CASE UNCHANGED files
    BY <1>1, <1>2
  <1>3. CASE \E a \in Actors : SaveStep(a)
    <2>1. PICK a \in Actors : SaveStep(a)
      BY <1>3
    <2>2. /\ job[a].at \in Contents /\ None \in Contents /\ TornBy(a) \in Contents
      BY <1>1 DEF JobTypes, Jobs, Contents
    <2>3. ASSUME NEW name \in {"main", "tmp", "bak"}
          PROVE  Without(name) \in [{"main", "tmp", "bak"} -> Contents]
      BY <1>1, <2>2 DEF Without
    <2>4. ASSUME NEW from \in {"main", "tmp", "bak"}, NEW to \in {"main", "tmp", "bak"}
          PROVE  Renamed(from, to) \in [{"main", "tmp", "bak"} -> Contents]
      BY <1>1, <2>2 DEF Renamed
    <2>5. Restored \in [{"main", "tmp", "bak"} -> Contents]
      <3>1. CASE files["main"] = None /\ files["bak"] # None
        <4>1. files["bak"] \in Contents
          BY <1>1
        <4> QED
          BY <2>2, <3>1, <4>1 DEF Restored
      <3>2. CASE ~(files["main"] = None /\ files["bak"] # None)
        BY <2>3, <3>2 DEF Restored
      <3> QED
        BY <3>1, <3>2
    <2>6. CASE RemoveTmp(a) \/ RemoveBak(a)
      BY <1>2, <2>3, <2>6 DEF RemoveTmp, RemoveBak
    <2>7. CASE Write(a)
      BY <1>1, <1>2, <2>2, <2>7 DEF Write
    <2>8. CASE Sync(a)
      <3>1. Abandoned({a}) \in [{"main", "tmp", "bak"} -> Contents]
        BY AbandonedFacts
      <3>2. \/ files' = [Abandoned({a}) EXCEPT !["tmp"] = None]
            \/ files' = [n \in DOMAIN files |-> IF files[n] = TornBy(a) THEN job[a].at ELSE files[n]]
        BY <2>8 DEF Sync
      <3> QED
        BY <1>1, <2>2, <3>1, <3>2
    <2>9. CASE Rotate(a)
      BY <1>2, <2>3, <2>4, <2>9 DEF Rotate, Rotated
    <2>10. CASE Promote(a)
      BY <2>4, <2>5, <2>10 DEF Promote
    <2>11. CASE Overwrite(a) \/ Fill(a)
      BY <1>1, <1>2, <2>2, <2>11, AbandonedFacts DEF Overwrite, Fill
    <2> QED
      BY <2>1, <2>6, <2>7, <2>8, <2>9, <2>10, <2>11 DEF SaveStep
  <1>4. CASE PowerLoss \/ Exit \/ PageTurn \/ RestoreSavedPosition \/ Relayout
             \/ RenderPage \/ BuildFails \/ Failing \/ Restarting
    BY <1>2, <1>4 DEF PowerLoss, Exit, PageTurn, RestoreSavedPosition, Relayout,
                      RenderPage, BuildFails, Failing, SectionFails, Restarting,
                      RestartForLowMemory
  <1>5. CASE \/ \E p \in Pages : Jump(p)
             \/ \E p \in Pages, preview \in BOOLEAN : FollowFootnote(p, preview)
             \/ SaveForHandOff
             \/ \E metadataChanged, intervalOver \in BOOLEAN : ObserveShown(metadataChanged, intervalOver)
    BY <1>2, <1>5 DEF Jump, FollowFootnote, SaveForHandOff, ObserveShown
  <1>6. CASE UNCHANGED vars
    BY <1>2, <1>6
  <1>7. CASE Open
    BY <1>7, AbandonedFacts DEF Open
  <1> QED
    BY <1>3, <1>4, <1>5, <1>6, <1>7, Zenon DEF Next, Failing, Restarting

\* What the observers are told when a save begins.
LEMMA BeginGhosts ==
    ASSUME Types, NEW a \in Actors, NEW p \in Positions, NEW then, NEW goal,
           Begin(a, p, then, goal)
    PROVE  stored' \subseteq Positions /\ raced' \subseteq Positions
  <1>1. job[Other(a)].at \in Positions /\ stored \subseteq Positions /\ raced \subseteq Positions
    BY DEF Types, JobTypes, Jobs, GhostTypes, Other
  <1> QED
    BY <1>1 DEF Begin

LEMMA GhostTypesStep ==
    ASSUME Types, [Next]_vars
    PROVE  GhostTypes'
  <1>1. PlaceTypes /\ GhostTypes /\ JobTypes
    BY DEF Types
  <1> USE BookFacts, PositionFacts DEF GhostTypes
  <1>2. CASE UNCHANGED <<ghostVars, faults>>
    BY <1>1, <1>2
  <1>3. CASE Open \/ PowerLoss
    <2>1. /\ stored' = stored /\ raced' \in {raced, {}} /\ expected' = {}
          /\ UNCHANGED <<settled, behind>> \/ (settled' = None /\ behind' = 0)
          /\ faults' = faults \/ (faults < MaxFaults /\ faults' = faults + 1)
      BY <1>3, Zenon DEF Open, PowerLoss, Closed
    <2> QED
      BY <1>1, <2>1
  <1>4. CASE Exit
    <2>1. expected' \subseteq Positions /\ faults' = faults
      BY <1>1, <1>4, TopOrigin DEF Exit, PlaceTypes
    <2>3. stored' \subseteq Positions /\ raced' \subseteq Positions
      <3>1. /\ (IF origins # << >> THEN origins[1] ELSE deb.last) \in Positions
        BY <1>1, TopOrigin DEF Types, SaveTypes, Debouncers
      <3>2. \/ Begin("main", IF origins # << >> THEN origins[1] ELSE deb.last, "close", 0)
            \/ Closed /\ stored' = stored
        BY <1>4 DEF Exit
      <3> QED
        BY <1>1, <3>1, <3>2, BeginGhosts DEF Closed
    <2>2. UNCHANGED <<settled, behind>> \/ (settled' = None /\ behind' = 0)
      <3>1. UNCHANGED <<settled, behind>> \/ Closed
        BY <1>4 DEF Exit
      <3> QED
        BY <3>1 DEF Closed
    <2> QED
      BY <1>1, <2>1, <2>2, <2>3
  <1>5. CASE \E metadataChanged, intervalOver \in BOOLEAN : ObserveShown(metadataChanged, intervalOver)
    <2>1. /\ drawing \in Pages /\ Settles /\ UNCHANGED <<expected, faults>>
          /\ UNCHANGED <<stored, raced>> \/ Begin("render", pos, "stay", 0)
      BY <1>1, <1>5 DEF ObserveShown, PlaceTypes
    <2>2. stored' \subseteq Positions /\ raced' \subseteq Positions
      BY <1>1, <2>1, BeginGhosts DEF PlaceTypes
    <2> QED
      BY <1>1, <2>1, <2>2 DEF Settles
  <1>6. CASE \E a \in Actors : SaveStep(a)
    <2>1. PICK a \in Actors : SaveStep(a)
      BY <1>6
    <2>2. Goes(a) \/ Ends(a)
      BY <1>1, <2>1, SaveShape
    <2>3. CASE Goes(a)
      BY <1>2, <2>3 DEF Goes, Continues
    <2>4. CASE Ends(a)
      <3>1. PICK ok \in BOOLEAN : Finish(a, ok)
        BY <2>4 DEF Ends
      <3>2. job[a].at \in Positions /\ faults' \in 0 .. MaxFaults
        BY <1>1, <2>4 DEF JobTypes, Jobs, Ends
      <3>3. stored' \in SUBSET Positions /\ (Closed \/ Stays(a, ok))
            /\ expected' \in {expected, {}}
        BY <1>1, <3>1, <3>2, EndShape DEF Stays
      <3>4. behind' = 0 /\ settled' \in {settled, None} /\ raced' \in {raced, {}}
        BY <3>3 DEF Closed, Stays
      <3> QED
        BY <1>1, <3>2, <3>3, <3>4
    <2> QED
      BY <2>2, <2>3, <2>4
  <1>7. CASE PageTurn \/ RestoreSavedPosition \/ Relayout \/ RenderPage \/ BuildFails
    BY <1>2, <1>7 DEF PageTurn, RestoreSavedPosition, Relayout, RenderPage, BuildFails
  <1>8. CASE \/ \E p \in Pages : Jump(p)
             \/ \E p \in Pages, preview \in BOOLEAN : FollowFootnote(p, preview)
    BY <1>2, <1>8 DEF Jump, FollowFootnote
  <1>10. CASE SaveForHandOff \/ Restarting
    <2>1. UNCHANGED <<settled, behind, expected, faults>>
      BY <1>10 DEF SaveForHandOff, Restarting, RestartForLowMemory
    <2>2. stored' \subseteq Positions /\ raced' \subseteq Positions
      <3>1. CASE SaveForHandOff
        <4>1. pos \in Positions /\ Begin("main", pos, "leave", 0)
          BY <3>1 DEF SaveForHandOff
        <4> QED
          BY <4>1, BeginGhosts
      <3>2. CASE Restarting
        <4>1. PICK p \in Pages : Begin("render", p, "restart", pos)
          BY <3>2 DEF Restarting, RestartForLowMemory
        <4> QED
          BY <4>1, BeginGhosts
      <3> QED
        BY <1>10, <3>1, <3>2
    <2> QED
      BY <1>1, <2>1, <2>2
  <1>11. CASE Failing
    BY <1>1, <1>11 DEF Failing, SectionFails, Fault
  <1>9. CASE UNCHANGED vars
    BY <1>2, <1>9
  <1> QED
    BY <1>3, <1>4, <1>5, <1>6, <1>7, <1>8, <1>9, <1>10, <1>11, Zenon DEF Next, Failing, Restarting

LEMMA TypesInit ==
    ASSUME Init
    PROVE  Types
  <1> USE BookFacts, PositionFacts, ReaderAssumption DEF Init
  <1>1. FlagTypes
    BY Zenon DEF FlagTypes
  <1>2. PlaceTypes
    BY EmptySeq DEF PlaceTypes
  <1>3. JobTypes /\ GhostTypes
    BY DEF JobTypes, Jobs, Thens, Programs, GhostTypes
  <1>4. SaveTypes
    BY NewDebouncerTypes DEF SaveTypes, NoFiles, Contents
  <1> QED
    BY <1>1, <1>2, <1>3, <1>4 DEF Types

\* Whatever the tasks do, also while their saves overlap, the types hold.
THEOREM Invariance == Spec => []Types
  <1>1. Init => Types
    BY TypesInit
  <1>2. Types /\ [Next]_vars => Types'
    BY FlagTypesStep, PlaceTypesStep, JobTypesStep, DebouncerStep, FilesStep, GhostTypesStep
       DEF Types, SaveTypes
  <1> QED
    BY <1>1, <1>2, PTL DEF Spec

\* Every variable has its type, and a task that saves is saving a position of the book, also
\* while the save of a hand-off overlaps one of the render task.
THEOREM TypeCorrect == Spec => []TypeOK
  <1>1. Types => TypeOK
    BY DEF Types, FlagTypes, PlaceTypes, JobTypes, Jobs, Thens, SaveTypes, Debouncers,
           GhostTypes, TypeOK
  <1> QED
    BY <1>1, Invariance, PTL

-----------------------------------------------------------------------------
(* Behaviours in which the saves of the two tasks do not overlap.          *)

\* The main task saves only while the render task neither saves nor has a painted page left
\* to observe.
Apart == job["main"].pc # "idle" => job["render"].pc = "idle" /\ drawing = None

\* At most one task saves, and none while a painted page is not observed yet.
OneSaver ==
    /\ job["main"].pc = "idle" \/ job["render"].pc = "idle"
    /\ drawing # None => job["main"].pc = "idle" /\ job["render"].pc = "idle"
    /\ job["main"].then \in {"stay", "leave", "close"}
    /\ job["render"].then \in {"stay", "restart"}
    /\ job["main"].pc = "idle" => job["main"] \in {Idle, Leaving}
    /\ job["render"].pc = "idle" => job["render"] = Idle
    /\ job["main"].pc # "idle" => job["main"].then # "stay"
    /\ raced = {}

\* A reader that is closed has left nothing in memory but, for a restart, the token.
Memory ==
    /\ ~open => /\ drawing = None /\ job = [a \in Actors |-> Idle]
                /\ deb = NewDebouncer /\ lastSaved = None /\ behind = 0
    /\ open => token = None

\* Each format saves in its own way, and only the EPUB reader restarts for memory.
ByFormat ==
    /\ \A a \in Actors :
        /\ job[a].pc = "fill" => format = "paged"
        /\ job[a].pc \notin {"idle", "removeTmp", "fill"} => format = "epub"
        /\ job[a].then = "restart" => format = "epub"
    /\ token # None => format = "epub"

\* The EPUB reader never saves the end of the book.
InBook ==
    format = "epub" =>
        /\ drawing # None => pos \in Pages
        /\ deb.last \in Pages /\ lastSaved # EndOfBook /\ stored \subseteq Pages
        /\ \A a \in Actors : job[a].at \in Pages

\* Steps that neither save nor paint.
Elsewhere ==
    \/ PageTurn \/ (\E p \in Pages : Jump(p))
    \/ (\E p \in Pages, preview \in BOOLEAN : FollowFootnote(p, preview))
    \/ RestoreSavedPosition \/ Relayout \/ BuildFails

LEMMA ElsewhereKeeps ==
    ASSUME Elsewhere
    PROVE  /\ UNCHANGED <<format, open, saveVars, bootVars, drawing, job, files, ghostVars, faults>>
           /\ open
  <1>1. CASE PageTurn
    BY <1>1 DEF PageTurn, MainFree
  <1>2. CASE \E p \in Pages : Jump(p)
    BY <1>2 DEF Jump, MainFree
  <1>3. CASE \E p \in Pages, preview \in BOOLEAN : FollowFootnote(p, preview)
    BY <1>3 DEF FollowFootnote, MainFree
  <1>4. CASE RestoreSavedPosition \/ Relayout \/ BuildFails
    BY <1>4 DEF RestoreSavedPosition, Relayout, BuildFails, MainFree
  <1> QED
    BY <1>1, <1>2, <1>3, <1>4 DEF Elsewhere

LEMMA LockFreeMeans ==
    ASSUME LockFree
    PROVE  /\ drawing = None /\ job["render"].pc = "idle"
           /\ job["main"].then # "close"
  BY DEF LockFree

\* A loaded section is dropped, at the cost of a fault.
LEMMA FailingKeeps ==
    ASSUME Types, Failing
    PROVE  /\ UNCHANGED <<format, open, note, saveVars, bootVars, drawing, job, files, stored, raced>>
           /\ drawing = None /\ job["render"].pc = "idle" /\ job["main"].then # "close"
           /\ pos' \in Pages /\ faults' = faults + 1 /\ behind' = 0 /\ open /\ faults \in Nat
  <1>1. PICK p \in Pages : SectionFails(p)
    BY DEF Failing
  <1>2. faults \in Nat
    BY BookFacts DEF Types, GhostTypes
  <1> QED
    BY <1>1, <1>2, LockFreeMeans DEF SectionFails, Fault

\* The steps that begin a save: who saves, where, and what for.
Begins(a, p, then, goal) ==
    /\ Begin(a, p, then, goal)
    /\ drawing' = None /\ job["main"].pc = "idle" /\ job["render"].pc = "idle"
    /\ UNCHANGED <<format, open, lastSaved, token, files, stored, raced, faults>>
    /\ open

\* Beside a task that does not save, a save begins unnoticed by the observers.
LEMMA BeginsAlone ==
    ASSUME NEW a \in Actors, NEW p, NEW then, NEW goal, Begin(a, p, then, goal),
           job["main"].pc = "idle", job["render"].pc = "idle"
    PROVE  UNCHANGED <<stored, raced>>
  BY DEF Begin, Other

LEMMA BeginShape ==
    ASSUME Apart', Types, OneSaver, Memory,
           \/ Restarting
           \/ \E metadataChanged, intervalOver \in BOOLEAN :
                    ObserveShown(metadataChanged, intervalOver) /\ job' # job
           \/ SaveForHandOff
           \/ Exit /\ SavesOnExit
    PROVE  \/ \E p \in Pages : RestartForLowMemory(p) /\ Begins("render", p, "restart", pos) /\ drawing = None
           \/ Begins("render", pos, "stay", 0) /\ drawing # None
           \/ SaveForHandOff /\ Begins("main", pos, "leave", 0) /\ drawing = None
           \/ /\ Exit /\ SavesOnExit /\ drawing = None
              /\ Begins("main", IF origins # << >> THEN origins[1] ELSE deb.last, "close", 0)
  <1> USE DEF Begins
  <1>0. job \in [Actors -> Jobs]
    BY DEF Types, JobTypes
  <1>1. CASE Restarting
    <2>0. PICK p \in Pages : RestartForLowMemory(p)
      BY <1>1 DEF Restarting
    <2>1. /\ open /\ drawing = None /\ job["render"].pc = "idle"
          /\ Begin("render", p, "restart", pos)
          /\ UNCHANGED <<format, open, lastSaved, token, drawing, files, faults>>
      BY <2>0, LockFreeMeans DEF RestartForLowMemory
    <2>2. job'["render"].pc = "removeTmp" /\ job'["main"] = job["main"]
      BY <1>0, <2>1 DEF Begin
    <2>3. job["main"].pc = "idle"
      BY <2>2 DEF Apart
    <2>4. UNCHANGED <<stored, raced>>
      BY <2>1, <2>3, BeginsAlone
    <2> QED
      BY <2>0, <2>1, <2>3, <2>4
  <1>2. CASE \E metadataChanged, intervalOver \in BOOLEAN :
                    ObserveShown(metadataChanged, intervalOver) /\ job' # job
    <2>1. PICK metadataChanged \in BOOLEAN, intervalOver \in BOOLEAN :
                    ObserveShown(metadataChanged, intervalOver) /\ job' # job
      BY <1>2
    <2>2. /\ drawing # None /\ drawing' = None /\ Begin("render", pos, "stay", 0)
          /\ UNCHANGED <<format, open, lastSaved, token, files, faults>>
      BY <2>1, Zenon DEF ObserveShown
    <2>3. open /\ job["main"].pc = "idle" /\ job["render"].pc = "idle"
      BY <2>2 DEF OneSaver, Memory
    <2>4. UNCHANGED <<stored, raced>>
      BY <2>2, <2>3, BeginsAlone
    <2> QED
      BY <2>2, <2>3, <2>4
  <1>3. CASE SaveForHandOff
    <2>2. job["main"] = Idle /\ Begin("main", pos, "leave", 0) /\ open
          /\ UNCHANGED <<format, open, lastSaved, token, drawing, files, faults>>
      BY <1>3 DEF SaveForHandOff, MainFree
    <2>3. job'["main"].pc = "removeTmp" /\ job'["render"] = job["render"]
      BY <1>0, <2>2 DEF Begin
    <2>4. job["render"].pc = "idle" /\ drawing = None
      BY <2>2, <2>3 DEF Apart
    <2>5. UNCHANGED <<stored, raced>>
      BY <2>2, <2>4, BeginsAlone
    <2> QED
      BY <1>3, <2>2, <2>4, <2>5
  <1>4. CASE Exit /\ SavesOnExit
    <2>1. /\ LockFree /\ open /\ job["main"].pc = "idle"
          /\ Begin("main", IF origins # << >> THEN origins[1] ELSE deb.last, "close", 0)
          /\ UNCHANGED <<format, open, lastSaved, token, drawing, files, faults>>
      BY <1>4, Zenon DEF Exit
    <2>2. UNCHANGED <<stored, raced>>
      BY <2>1, LockFreeMeans, BeginsAlone
    <2> QED
      BY <1>4, <2>1, <2>2, LockFreeMeans
  <1> QED
    BY <1>1, <1>2, <1>3, <1>4

\* Every step is one of these.
LEMMA StepCases ==
    ASSUME [Next]_vars
    PROVE  \/ Elsewhere \/ Failing \/ Open \/ RenderPage \/ UNCHANGED vars
           \/ PowerLoss \/ (Exit /\ ~SavesOnExit)
           \/ \E metadataChanged, intervalOver \in BOOLEAN :
                    ObserveShown(metadataChanged, intervalOver) /\ job' = job
           \/ \/ Restarting
              \/ \E metadataChanged, intervalOver \in BOOLEAN :
                    ObserveShown(metadataChanged, intervalOver) /\ job' # job
              \/ SaveForHandOff
              \/ Exit /\ SavesOnExit
           \/ \E a \in Actors : SaveStep(a)
  BY Zenon DEF Next, Elsewhere, Failing, Restarting

\* A task that saves is not idle, and its reader is open.
LEMMA SavesOpen ==
    ASSUME Memory, NEW a \in Actors, SaveStep(a)
    PROVE  job[a].pc # "idle" /\ open
  <1>1. job[a].pc # "idle"
    BY DEF SaveStep, RemoveTmp, Write, Sync, RemoveBak, Rotate, Promote, Overwrite, Fill
  <1> QED
    BY <1>1 DEF Memory

\* What becomes of the jobs when one task begins, goes on with, or ends a save.
LEMMA JobAfter ==
    ASSUME JobTypes, NEW a \in Actors
    PROVE  /\ \A p \in Positions, then \in Thens, goal \in Positions :
                    Begin(a, p, then, goal) =>
                        /\ job'[a] = [pc |-> "removeTmp", at |-> p, then |-> then, goal |-> goal]
                        /\ \A b \in Actors \ {a} : job'[b] = job[b]
           /\ \A pc \in Programs :
                    Step(a, pc) =>
                        /\ job'[a].pc = pc /\ job'[a].at = job[a].at
                        /\ job'[a].then = job[a].then /\ job'[a].goal = job[a].goal
                        /\ \A b \in Actors \ {a} : job'[b] = job[b]
           /\ \A ok \in BOOLEAN :
                    Stays(a, ok) =>
                        /\ \/ job'[a] = Idle
                           \/ job'[a] = Leaving /\ job[a].then = "leave"
                        /\ \A b \in Actors \ {a} : job'[b] = job[b]
  <1>1. job \in [Actors -> Jobs]
    BY DEF JobTypes
  <1>2. ASSUME NEW p \in Positions, NEW then \in Thens, NEW goal \in Positions, Begin(a, p, then, goal)
        PROVE  /\ job'[a] = [pc |-> "removeTmp", at |-> p, then |-> then, goal |-> goal]
               /\ \A b \in Actors \ {a} : job'[b] = job[b]
    BY <1>1, <1>2 DEF Begin
  <1>3. ASSUME NEW pc \in Programs, Step(a, pc)
        PROVE  /\ job'[a].pc = pc /\ job'[a].at = job[a].at
               /\ job'[a].then = job[a].then /\ job'[a].goal = job[a].goal
               /\ \A b \in Actors \ {a} : job'[b] = job[b]
    BY <1>1, <1>3 DEF Step, Jobs
  <1>4. ASSUME NEW ok \in BOOLEAN, Stays(a, ok)
        PROVE  /\ \/ job'[a] = Idle
                  \/ job'[a] = Leaving /\ job[a].then = "leave"
               /\ \A b \in Actors \ {a} : job'[b] = job[b]
    <2>1. \/ job' = [job EXCEPT ![a] = Idle]
          \/ job' = [job EXCEPT ![a] = Leaving] /\ job[a].then = "leave"
      BY <1>4 DEF Stays
    <2> QED
      BY <1>1, <2>1
  <1> QED
    BY <1>2, <1>3, <1>4

\* A save that begins, begins at a position of the book.
LEMMA BeginsAt ==
    ASSUME Apart', Types, OneSaver, Memory,
           \/ Restarting
           \/ \E metadataChanged, intervalOver \in BOOLEAN :
                    ObserveShown(metadataChanged, intervalOver) /\ job' # job
           \/ SaveForHandOff
           \/ Exit /\ SavesOnExit
    PROVE  \E a \in Actors, p \in Positions, then \in Thens, goal \in Positions :
                /\ Begins(a, p, then, goal)
                /\ a = "main" => then \in {"leave", "close"}
                /\ a = "render" => then \in {"stay", "restart"}
                /\ then = "restart" => format = "epub"
                /\ format = "epub" => (p = pos /\ drawing # None) \/ p = deb.last \/ p \in Pages
  <1> USE PositionFacts
  <1>1. pos \in Positions /\ deb.last \in Positions /\ (origins # << >> => origins[1] \in Pages)
    BY TopOrigin DEF Types, PlaceTypes, SaveTypes, Debouncers
  <1>2. CASE \E p \in Pages : RestartForLowMemory(p) /\ Begins("render", p, "restart", pos)
    <2>1. PICK p \in Pages : RestartForLowMemory(p) /\ Begins("render", p, "restart", pos)
      BY <1>2
    <2>2. format = "epub" /\ p \in Positions
      BY <2>1 DEF RestartForLowMemory
    <2> QED
      BY <1>1, <2>1, <2>2 DEF Thens
  <1>3. CASE Begins("render", pos, "stay", 0) /\ drawing # None
    BY <1>1, <1>3 DEF Thens
  <1>4. CASE SaveForHandOff /\ Begins("main", pos, "leave", 0)
    <2>1. pos \in Pages
      BY <1>4 DEF SaveForHandOff
    <2> QED
      BY <1>1, <1>4, <2>1 DEF Thens
  <1>5. CASE Begins("main", IF origins # << >> THEN origins[1] ELSE deb.last, "close", 0)
    BY <1>1, <1>5 DEF Thens
  <1> QED
    BY <1>2, <1>3, <1>4, <1>5, BeginShape

LEMMA OneSaverStep ==
    ASSUME Apart', Types, Types', OneSaver, Memory, [Next]_vars
    PROVE  OneSaver'
  <1>1. JobTypes /\ GhostTypes
    BY DEF Types
  <1>2. CASE Elsewhere \/ Failing \/ Open \/ UNCHANGED vars
    <2>1. UNCHANGED <<drawing, job, raced>>
      BY <1>2, ElsewhereKeeps, FailingKeeps DEF Open
    <2> QED
      BY <2>1 DEF OneSaver
  <1>3. CASE RenderPage
    <2>1. job["render"].pc = "idle" /\ job' = job /\ raced' = raced
      BY <1>3, LockFreeMeans DEF RenderPage
    <2> QED
      BY <2>1 DEF OneSaver, Apart
  <1>4. ASSUME Closed
        PROVE  OneSaver'
    <2>1. job' = [a \in Actors |-> Idle] /\ drawing' = None /\ raced' = {}
      BY <1>4 DEF Closed
    <2> QED
      BY <2>1 DEF OneSaver
  <1>5. CASE PowerLoss \/ (Exit /\ ~SavesOnExit)
    BY <1>4, <1>5 DEF PowerLoss, Exit
  <1>6. CASE \E metadataChanged, intervalOver \in BOOLEAN :
                    ObserveShown(metadataChanged, intervalOver) /\ job' = job
    <2>1. drawing' = None /\ job' = job /\ drawing # None
      BY <1>6 DEF ObserveShown
    <2>2. raced' = raced
      <3>1. \/ raced' = raced
            \/ \E p \in {pos} : Begin("render", p, "stay", 0)
        BY <1>6 DEF ObserveShown
      <3> QED
        BY <2>1, <3>1, BeginsAlone DEF OneSaver
    <2> QED
      BY <2>1, <2>2 DEF OneSaver
  <1>7. CASE \/ Restarting
             \/ \E metadataChanged, intervalOver \in BOOLEAN :
                    ObserveShown(metadataChanged, intervalOver) /\ job' # job
             \/ SaveForHandOff
             \/ Exit /\ SavesOnExit
    <2>1. PICK a \in Actors, p \in Positions, then \in Thens, goal \in Positions :
                /\ Begins(a, p, then, goal)
                /\ a = "main" => then \in {"leave", "close"}
                /\ a = "render" => then \in {"stay", "restart"}
      BY <1>7, BeginsAt
    <2>2. /\ job'[a] = [pc |-> "removeTmp", at |-> p, then |-> then, goal |-> goal]
          /\ \A b \in Actors \ {a} : job'[b] = job[b]
      BY <1>1, <2>1, JobAfter DEF Begins
    <2> QED
      BY <2>1, <2>2 DEF OneSaver, Begins
  <1>8. CASE \E a \in Actors : SaveStep(a)
    <2>1. PICK a \in Actors : SaveStep(a)
      BY <1>8
    <2>2. job[a].pc # "idle" /\ drawing = None /\ \A b \in Actors \ {a} : job[b].pc = "idle"
      BY <2>1, SavesOpen DEF OneSaver
    <2>3. Goes(a) \/ Ends(a)
      BY <1>1, <2>1, SaveShape
    <2>4. CASE Goes(a)
      <3>1. PICK pc \in Programs \ {"idle"} : Step(a, pc)
        BY <2>4 DEF Goes
      <3>2. /\ job'[a].pc = pc /\ job'[a].then = job[a].then
            /\ \A b \in Actors \ {a} : job'[b] = job[b]
        BY <1>1, <3>1, JobAfter
      <3>3. drawing' = None /\ raced' = raced
        BY <2>2, <2>4 DEF Goes, Continues
      <3> QED
        BY <2>2, <3>1, <3>2, <3>3 DEF OneSaver
    <2>5. CASE Ends(a)
      <3>1. PICK ok \in BOOLEAN : Finish(a, ok)
        BY <2>5 DEF Ends
      <3>2. CASE Stays(a, ok)
        <4>1. drawing' = None /\ raced' \in {raced, {}}
          BY <2>2, <3>2 DEF Stays
        <4>2. /\ \/ job'[a] = Idle
                 \/ job'[a] = Leaving /\ job[a].then = "leave"
              /\ \A b \in Actors \ {a} : job'[b] = job[b]
          BY <1>1, <3>2, JobAfter
        <4> QED
          BY <2>2, <4>1, <4>2 DEF OneSaver
      <3> QED
        BY <1>4, <3>1, <3>2, EndShape
    <2> QED
      BY <2>3, <2>4, <2>5
  <1> QED
    BY <1>2, <1>3, <1>5, <1>6, <1>7, <1>8, StepCases

LEMMA MemoryStep ==
    ASSUME Apart', Types, OneSaver, Memory, [Next]_vars
    PROVE  Memory'
  <1> USE DEF Memory
  <1>1. GhostTypes
    BY DEF Types
  <1>2. CASE Elsewhere \/ UNCHANGED vars
    BY <1>2, ElsewhereKeeps
  <1>3. CASE Open \/ RenderPage \/ Failing
    BY <1>3, FailingKeeps DEF Open, RenderPage
  <1>4. ASSUME Closed
        PROVE  Memory'
    BY <1>4 DEF Closed
  <1>5. CASE PowerLoss \/ (Exit /\ ~SavesOnExit)
    BY <1>4, <1>5 DEF PowerLoss, Exit
  <1>6. CASE \E metadataChanged, intervalOver \in BOOLEAN : ObserveShown(metadataChanged, intervalOver)
    <2>1. drawing # None /\ UNCHANGED <<open, token>>
      BY <1>6 DEF ObserveShown
    <2> QED
      BY <2>1
  <1>7. CASE \/ Restarting
             \/ SaveForHandOff
             \/ Exit /\ SavesOnExit
    <2>1. open /\ UNCHANGED <<open, token>>
      BY <1>7 DEF Restarting, RestartForLowMemory, SaveForHandOff, MainFree, Exit
    <2> QED
      BY <2>1
  <1>8. CASE \E a \in Actors : SaveStep(a)
    <2>1. PICK a \in Actors : SaveStep(a)
      BY <1>8
    <2>2. open /\ token = None
      BY <2>1, SavesOpen
    <2>3. Goes(a) \/ Ends(a)
      BY <1>1, <2>1, SaveShape
    <2>4. CASE Goes(a)
      BY <2>2, <2>4 DEF Goes, Continues
    <2>5. CASE Ends(a)
      <3>1. PICK ok \in BOOLEAN : Finish(a, ok)
        BY <2>5 DEF Ends
      <3>2. CASE Stays(a, ok)
        BY <2>2, <3>2 DEF Stays
      <3> QED
        BY <1>4, <3>1, <3>2, EndShape
    <2> QED
      BY <2>3, <2>4, <2>5
  <1> QED
    BY <1>2, <1>3, <1>5, <1>6, <1>7, <1>8, StepCases

LEMMA ByFormatStep ==
    ASSUME Apart', Types, OneSaver, Memory, ByFormat, [Next]_vars
    PROVE  ByFormat'
  <1>1. JobTypes /\ GhostTypes
    BY DEF Types
  <1>2. CASE Elsewhere \/ Failing \/ RenderPage \/ UNCHANGED vars
    <2>1. UNCHANGED <<format, job, token>>
      BY <1>2, ElsewhereKeeps, FailingKeeps DEF RenderPage
    <2> QED
      BY <2>1 DEF ByFormat
  <1>3. CASE Open
    BY <1>3 DEF Open, ByFormat
  <1>4. ASSUME Closed, format' = format, token' # None => format = "epub"
        PROVE  ByFormat'
    <2>1. job' = [a \in Actors |-> Idle]
      BY <1>4 DEF Closed
    <2> QED
      BY <1>4, <2>1 DEF ByFormat
  <1>5. CASE PowerLoss \/ (Exit /\ ~SavesOnExit)
    BY <1>4, <1>5 DEF PowerLoss, Exit, ByFormat
  <1>6. CASE \E metadataChanged, intervalOver \in BOOLEAN :
                    ObserveShown(metadataChanged, intervalOver) /\ job' = job
    BY <1>6 DEF ObserveShown, ByFormat
  <1>7. CASE \/ Restarting
             \/ \E metadataChanged, intervalOver \in BOOLEAN :
                    ObserveShown(metadataChanged, intervalOver) /\ job' # job
             \/ SaveForHandOff
             \/ Exit /\ SavesOnExit
    <2>1. PICK a \in Actors, p \in Positions, then \in Thens, goal \in Positions :
                Begins(a, p, then, goal) /\ (then = "restart" => format = "epub")
      BY <1>7, BeginsAt
    <2>2. /\ job'[a] = [pc |-> "removeTmp", at |-> p, then |-> then, goal |-> goal]
          /\ \A b \in Actors \ {a} : job'[b] = job[b]
          /\ UNCHANGED <<format, token>>
      BY <1>1, <2>1, JobAfter DEF Begins
    <2> QED
      BY <2>1, <2>2 DEF ByFormat
  <1>8. CASE \E a \in Actors : SaveStep(a)
    <2>1. PICK a \in Actors : SaveStep(a)
      BY <1>8
    <2>2. ((Goes(a) /\ Going(a)) \/ Ends(a)) /\ format' = format
      BY <1>1, <2>1, SaveShape, GoingShape
    <2>3. CASE Goes(a) /\ Going(a)
      <3>1. token' = token
        BY <2>3 DEF Goes, Continues
      <3>2. PICK pc \in Programs :
                /\ Step(a, pc)
                /\ pc = "fill" => format = "paged"
                /\ pc \notin {"idle", "removeTmp", "fill"} => format = "epub"
        BY <2>3 DEF Going, Programs, ByFormat
      <3>3. /\ job'[a].pc = pc /\ job'[a].then = job[a].then
            /\ \A b \in Actors \ {a} : job'[b] = job[b]
        BY <1>1, <3>2, JobAfter
      <3> QED
        BY <2>2, <3>1, <3>2, <3>3 DEF ByFormat
    <2>4. CASE Ends(a)
      <3>1. PICK ok \in BOOLEAN : Finish(a, ok)
        BY <2>4 DEF Ends
      <3>2. CASE Stays(a, ok)
        <4>1. job'[a] \in {Idle, Leaving} /\ \A b \in Actors \ {a} : job'[b] = job[b]
          BY <1>1, <3>2, JobAfter
        <4>2. token' = token
          BY <3>2 DEF Stays
        <4> QED
          BY <2>2, <4>1, <4>2 DEF ByFormat
      <3> QED
        BY <1>4, <2>2, <3>1, <3>2, EndShape DEF ByFormat
    <2> QED
      BY <2>2, <2>3, <2>4
  <1> QED
    BY <1>2, <1>3, <1>5, <1>6, <1>7, <1>8, StepCases

LEMMA InBookStep ==
    ASSUME Apart', Types, OneSaver, Memory, InBook, [Next]_vars
    PROVE  InBook'
  <1> USE PositionFacts
  <1>1. /\ JobTypes /\ GhostTypes /\ PlaceTypes /\ pos \in Positions
        /\ format' = format
    <2>1. JobTypes /\ GhostTypes /\ PlaceTypes /\ pos \in Positions
      BY DEF Types, PlaceTypes
    <2>2. format' = format
      <3>1. CASE \E a \in Actors : SaveStep(a)
        BY <2>1, <3>1, SaveShape
      <3>2. CASE ~\E a \in Actors : SaveStep(a)
        BY <3>2, ElsewhereKeeps, FailingKeeps, StepCases
           DEF Open, RenderPage, PowerLoss, Exit, ObserveShown, Restarting,
               RestartForLowMemory, SaveForHandOff
      <3> QED
        BY <3>1, <3>2
    <2> QED
      BY <2>1, <2>2
  <1>2. SUFFICES ASSUME format = "epub"
                 PROVE  InBook'
    BY <1>1 DEF InBook
  <1>3. /\ drawing # None => pos \in Pages
        /\ deb.last \in Pages /\ lastSaved # EndOfBook /\ stored \subseteq Pages
        /\ \A a \in Actors : job[a].at \in Pages
    BY <1>2 DEF InBook
  <1>4. ASSUME UNCHANGED <<saveVars, job, stored>>, drawing' # None => pos' \in Pages
        PROVE  InBook'
    BY <1>3, <1>4 DEF InBook
  <1>5. CASE Elsewhere
    <2>1. UNCHANGED <<saveVars, job, stored, drawing>>
      BY <1>5, ElsewhereKeeps
    <2>2. ASSUME drawing # None
          PROVE  pos' \in Pages
      <3>1. ~LockFree /\ pos \in Pages
        BY <1>3, <2>2 DEF LockFree
      <3>2. PageTurn
        BY <1>5, <3>1
           DEF Elsewhere, Jump, FollowFootnote, RestoreSavedPosition, Relayout, BuildFails
      <3>3. \/ pos' = pos + 1 /\ pos < EndOfBook /\ Chapter(pos') = Chapter(pos)
            \/ pos' = pos - 1 /\ pos > 0
        BY <1>2, <3>1, <3>2 DEF PageTurn, MoveTo
      <3>4. CASE pos' = pos + 1 /\ pos < EndOfBook /\ Chapter(pos') = Chapter(pos)
        <4>1. pos' # EndOfBook
          BY <3>1, <3>4, EndHasNoChapter
        <4> QED
          BY <1>1, <3>4, <4>1
      <3> QED
        BY <1>1, <3>3, <3>4
    <2> QED
      BY <1>4, <2>1, <2>2
  <1>6. CASE Open \/ Failing
    BY <1>4, <1>6, FailingKeeps DEF Open, Memory
  <1>7. CASE RenderPage
    <2>1. drawing = None /\ drawing' \in {pos, drawing} /\ (drawing' = pos => pos \in Pages \/ drawing = pos)
          /\ UNCHANGED <<pos, lastSaved, deb, job, stored>>
      BY <1>7, LockFreeMeans DEF RenderPage
    <2>2. drawing' # None => pos' \in Pages
      BY <1>1, <2>1
    <2> QED
      BY <1>3, <2>1, <2>2 DEF InBook
  <1>8. ASSUME Closed, stored' \subseteq Pages
        PROVE  InBook'
    <2>1. job' = [a \in Actors |-> Idle] /\ deb' = NewDebouncer /\ lastSaved' = None /\ drawing' = None
      BY <1>8 DEF Closed
    <2>2. deb'.last = 0 /\ \A a \in Actors : job'[a].at = 0
      BY <2>1 DEF NewDebouncer
    <2> QED
      BY <1>8, <2>1, <2>2 DEF InBook
  <1>9. CASE PowerLoss \/ (Exit /\ ~SavesOnExit)
    BY <1>3, <1>8, <1>9 DEF PowerLoss, Exit
  <1>10. ASSUME NEW metadataChanged \in BOOLEAN, NEW intervalOver \in BOOLEAN,
                ObserveShown(metadataChanged, intervalOver)
         PROVE  /\ drawing' = None /\ UNCHANGED <<lastSaved, stored>> /\ pos \in Pages
                /\ deb'.last \in Pages
    <2>1. /\ drawing' = None /\ UNCHANGED <<lastSaved, stored>> /\ pos \in Pages
          /\ deb' \in {deb, Observe(pos, metadataChanged)}
      <3>1. /\ drawing # None /\ drawing' = None /\ lastSaved' = lastSaved
            /\ deb' \in {deb, Observe(pos, metadataChanged)}
            /\ stored' = stored \/ Begin("render", pos, "stay", 0)
        BY <1>10 DEF ObserveShown
      <3> QED
        BY <1>3, <3>1, BeginsAlone DEF OneSaver
    <2>2. Observe(pos, metadataChanged).last = pos
      <3>1. deb \in Debouncers
        BY DEF Types, SaveTypes
      <3> QED
        BY <3>1 DEF Observe, Debouncers
    <2> QED
      BY <1>3, <2>1, <2>2
  <1>11. CASE \E metadataChanged, intervalOver \in BOOLEAN :
                    ObserveShown(metadataChanged, intervalOver) /\ job' = job
    BY <1>3, <1>10, <1>11 DEF InBook
  <1>12. CASE \/ Restarting
              \/ \E metadataChanged, intervalOver \in BOOLEAN :
                    ObserveShown(metadataChanged, intervalOver) /\ job' # job
              \/ SaveForHandOff
              \/ Exit /\ SavesOnExit
    <2>1. PICK a \in Actors, p \in Positions, then \in Thens, goal \in Positions :
                Begins(a, p, then, goal) /\ ((p = pos /\ drawing # None) \/ p = deb.last \/ p \in Pages)
      BY <1>2, <1>12, BeginsAt
    <2>2. p \in Pages
      BY <1>3, <2>1
    <2>3. \A b \in Actors : job'[b].at \in Pages
      <3>1. /\ job'[a] = [pc |-> "removeTmp", at |-> p, then |-> then, goal |-> goal]
            /\ \A b \in Actors \ {a} : job'[b] = job[b]
        BY <1>1, <2>1, JobAfter DEF Begins
      <3> QED
        BY <1>3, <2>2, <3>1
    <2>4. deb'.last \in Pages
      <3>1. CASE \E metadataChanged, intervalOver \in BOOLEAN :
                    ObserveShown(metadataChanged, intervalOver) /\ job' # job
        BY <1>10, <3>1
      <3>2. CASE \/ Restarting
                 \/ SaveForHandOff
                 \/ Exit /\ SavesOnExit
        <4>1. deb' = deb
          BY <3>2 DEF Restarting, RestartForLowMemory, SaveForHandOff, Exit
        <4> QED
          BY <1>3, <4>1
      <3> QED
        BY <1>12, <3>1, <3>2
    <2> QED
      BY <1>3, <2>1, <2>3, <2>4 DEF InBook, Begins
  <1>13. CASE \E a \in Actors : SaveStep(a)
    <2>1. PICK a \in Actors : SaveStep(a)
      BY <1>13
    <2>2. drawing = None /\ job[a].at \in Pages
      BY <1>3, <2>1, SavesOpen DEF OneSaver
    <2>3. Goes(a) \/ Ends(a)
      BY <1>1, <2>1, SaveShape
    <2>4. CASE Goes(a)
      <3>1. PICK pc \in Programs \ {"idle"} : Step(a, pc)
        BY <2>4 DEF Goes
      <3>2. /\ job'[a].at = job[a].at
            /\ \A b \in Actors \ {a} : job'[b] = job[b]
        BY <1>1, <3>1, JobAfter
      <3> QED
        BY <1>3, <2>2, <2>4, <3>2 DEF InBook, Goes, Continues
    <2>5. CASE Ends(a)
      <3>1. PICK ok \in BOOLEAN : Finish(a, ok)
        BY <2>5 DEF Ends
      <3>2. stored' \subseteq Pages
        BY <1>3, <2>2, <3>1, EndShape DEF OneSaver
      <3>3. CASE Stays(a, ok)
        <4>1. job'[a] \in {Idle, Leaving} /\ \A b \in Actors \ {a} : job'[b] = job[b]
          BY <1>1, <3>3, JobAfter
        <4>2. \A b \in Actors : job'[b].at \in Pages
          BY <1>3, <4>1
        <4>3. /\ drawing' = None /\ lastSaved' \in {job[a].at, None, lastSaved}
              /\ deb' \in {deb, Persisted(job[a].at)}
          BY <2>2, <3>3 DEF Stays
        <4>4. Persisted(job[a].at).last \in {deb.last, job[a].at}
          BY DEF Persisted
        <4> QED
          BY <1>3, <2>2, <3>2, <4>2, <4>3, <4>4 DEF InBook
      <3> QED
        BY <1>8, <3>1, <3>2, <3>3, EndShape
    <2> QED
      BY <2>3, <2>4, <2>5
  <1>14. CASE UNCHANGED vars
    BY <1>3, <1>14 DEF InBook
  <1> QED
    BY <1>5, <1>6, <1>7, <1>9, <1>11, <1>12, <1>13, <1>14, StepCases

-----------------------------------------------------------------------------
(* The progress file of the EPUB reader.                                   *)

Resting == job["main"].pc = "idle" /\ job["render"].pc = "idle"

\* What a save has done so far: the old file is only moved away once the new one is whole.
SavedSoFar ==
    format = "epub" => \A a \in Actors :
        /\ job[a].pc = "sync" => files["tmp"] = TornBy(a)
        /\ job[a].pc \in {"removeBak", "rotate", "promote"} => files["tmp"] = job[a].at
        /\ job[a].pc = "rotate" => files["bak"] = None
        /\ job[a].pc = "promote" => files["main"] = None

\* What the last save left, if anything.
LastIs(x) == stored = IF x = None THEN {} ELSE {x}

\* Until a first fault the last save is in the file or, between the renames, in the backup;
\* after one it can at least be read back whenever nobody saves.
KeptWhole ==
    format = "epub" /\ faults = 0 =>
        IF \E a \in Actors : job[a].pc = "promote"
        THEN LastIs(files["bak"])
        ELSE LastIs(files["main"]) /\ (stored = {} => files["bak"] = None)
KeptAfterFault ==
    format = "epub" /\ faults = 1 /\ Resting /\ stored # {} => Recovered \in stored

\* A restart for memory has put a page of the chapter, not after the one it is for, into the file.
TokenPlaced == token # None => KeepsPlace(files["main"], token)

FileInv == SavedSoFar /\ KeptWhole /\ KeptAfterFault /\ TokenPlaced

ApartInv == Types /\ OneSaver /\ Memory /\ ByFormat /\ InBook /\ FileInv

LEMMA RecoveredFacts ==
    ASSUME format = "epub", NEW p \in Pages
    PROVE  /\ files["main"] = p => Held(files) = p
           /\ files["main"] = None /\ files["bak"] = p => Held(files) = p
           /\ Held(files) = p => Recovered = p
  BY PositionFacts DEF Recovered, RecoveredFrom, Held

\* Before any fault the last save can be read back at every step of the next one.
LEMMA KeptIsReadable ==
    ASSUME Types, InBook, SavedSoFar, KeptWhole, format = "epub", faults = 0, stored # {}
    PROVE  Held(files) \in Pages /\ stored = {Held(files)} /\ Recovered = Held(files)
  <1>1. stored \subseteq Pages /\ None \notin Pages
    BY PositionFacts DEF InBook
  <1>2. CASE \E a \in Actors : job[a].pc = "promote"
    <2>1. files["main"] = None /\ LastIs(files["bak"])
      BY <1>2 DEF KeptWhole, SavedSoFar
    <2>2. files["bak"] \in Pages /\ stored = {files["bak"]}
      BY <1>1, <2>1 DEF LastIs
    <2> QED
      BY <2>1, <2>2, RecoveredFacts
  <1>3. CASE ~\E a \in Actors : job[a].pc = "promote"
    <2>1. LastIs(files["main"])
      BY <1>3 DEF KeptWhole
    <2>2. files["main"] \in Pages /\ stored = {files["main"]}
      BY <1>1, <2>1 DEF LastIs
    <2> QED
      BY <2>2, RecoveredFacts
  <1> QED
    BY <1>2, <1>3

\* Steps that touch neither the file nor what is being saved.
LEMMA FileUntouched ==
    ASSUME FileInv, UNCHANGED <<format, files, stored, faults>>,
           token' = token \/ token' = None,
           \A a \in Actors : job'[a].pc = job[a].pc /\ job'[a].at = job[a].at
    PROVE  FileInv'
  <1>1. UNCHANGED <<Recovered, Resting>> /\ \A a \in Actors : TornBy(a)' = TornBy(a)
    BY DEF Recovered, RecoveredFrom, Held, Resting, TornBy
  <1>2. SavedSoFar'
    BY <1>1 DEF FileInv, SavedSoFar
  <1>3. KeptWhole' /\ KeptAfterFault'
    BY <1>1 DEF FileInv, KeptWhole, KeptAfterFault, LastIs
  <1>4. TokenPlaced'
    BY DEF FileInv, TokenPlaced, KeepsPlace, Pages, Chapter
  <1> QED
    BY <1>2, <1>3, <1>4 DEF FileInv

LEMMA FileAfterBegin ==
    ASSUME Types, FileInv, Memory, NEW a \in Actors, NEW p \in Positions, NEW then \in Thens,
           NEW goal \in Positions, Begins(a, p, then, goal)
    PROVE  FileInv'
  <1>1. /\ job'[a] = [pc |-> "removeTmp", at |-> p, then |-> then, goal |-> goal]
        /\ \A b \in Actors \ {a} : job'[b] = job[b]
        /\ job["main"].pc = "idle" /\ job["render"].pc = "idle"
        /\ UNCHANGED <<format, token, files, stored, faults>>
    BY JobAfter DEF Begins, Types
  <1>2. \A b \in Actors : job'[b].pc \in {"idle", "removeTmp"} /\ job[b].pc = "idle"
    BY <1>1
  <1>3. ~Resting'
    BY <1>1 DEF Resting
  <1>4. SavedSoFar'
    BY <1>2 DEF SavedSoFar
  <1>5. KeptWhole' /\ KeptAfterFault'
    BY <1>1, <1>2, <1>3 DEF FileInv, KeptWhole, KeptAfterFault, LastIs
  <1>6. TokenPlaced'
    BY <1>1 DEF FileInv, TokenPlaced, KeepsPlace, Pages, Chapter
  <1> QED
    BY <1>4, <1>5, <1>6 DEF FileInv

LEMMA FileAfterPowerLoss ==
    ASSUME ApartInv, PowerLoss
    PROVE  FileInv'
  <1>1. /\ job' = [a \in Actors |-> Idle] /\ UNCHANGED <<format, files, stored, token>>
        /\ faults' = faults + 1 /\ open /\ faults \in Nat
    BY BookFacts DEF PowerLoss, Closed, ApartInv, Types, GhostTypes
  <1>2. \A a \in Actors : job'[a].pc = "idle"
    BY <1>1
  <1>3. Recovered' = Recovered
    BY <1>1 DEF Recovered, RecoveredFrom, Held
  <1>4. SavedSoFar' /\ KeptWhole'
    BY <1>1, <1>2 DEF SavedSoFar, KeptWhole
  <1>5. KeptAfterFault'
    <2> SUFFICES ASSUME format = "epub", faults = 0, stored # {}
                 PROVE  Recovered \in stored
      BY <1>1, <1>3 DEF KeptAfterFault
    <2> QED
      BY KeptIsReadable DEF ApartInv, FileInv
  <1>6. TokenPlaced'
    BY <1>1 DEF ApartInv, FileInv, TokenPlaced, KeepsPlace, Pages, Chapter
  <1> QED
    BY <1>4, <1>5, <1>6 DEF FileInv

\* One operation of a save.
LEMMA FileAfterGoing ==
    ASSUME ApartInv, NEW a \in Actors, job[a].pc # "idle", open, Goes(a), Going(a), format' = format
    PROVE  FileInv'
  <1>1. /\ JobTypes /\ files \in [{"main", "tmp", "bak"} -> Contents] /\ OneSaver /\ ByFormat
        /\ SavedSoFar /\ KeptWhole /\ TokenPlaced /\ token = None
    BY DEF ApartInv, Types, SaveTypes, FileInv, Memory
  <1>2. UNCHANGED <<stored, token, faults>>
    BY DEF Goes, Continues
  <1>3. PICK b \in Actors : a # b /\ Actors = {a, b} /\ job[b].pc = "idle"
    BY <1>1 DEF OneSaver
  <1>4. PICK pc \in Programs \ {"idle"} : Step(a, pc)
    BY DEF Goes
  <1>5. /\ job'[a].pc = pc /\ job'[a].at = job[a].at /\ job'[b] = job[b]
    BY <1>1, <1>3, <1>4, JobAfter
  <1>6. ~Resting'
    BY <1>5 DEF Resting
  <1>7. TokenPlaced' /\ KeptAfterFault'
    BY <1>1, <1>2, <1>6 DEF TokenPlaced, KeptAfterFault
  <1>8. ASSUME format = "epub"
        PROVE  /\ pc = "sync" => files'["tmp"] = TornBy(a)
               /\ pc \in {"removeBak", "rotate", "promote"} => files'["tmp"] = job[a].at
               /\ pc = "rotate" => files'["bak"] = None
               /\ pc = "promote" => files'["main"] = None
               /\ faults = 0 => IF pc = "promote"
                                THEN LastIs(files'["bak"])
                                ELSE LastIs(files'["main"]) /\ (stored = {} => files'["bak"] = None)
    <2>1. /\ job[a].pc = "sync" => files["tmp"] = TornBy(a)
          /\ job[a].pc \in {"removeBak", "rotate", "promote"} => files["tmp"] = job[a].at
          /\ job[a].pc = "rotate" => files["bak"] = None
          /\ job[a].pc # "promote" /\ faults = 0 =>
                /\ files["main"] \in Pages \cup {None} /\ LastIs(files["main"])
                /\ stored = {} => files["bak"] = None /\ files["main"] = None
      <3>1. stored \subseteq Pages /\ None \notin Pages
        BY <1>8, PositionFacts DEF ApartInv, InBook
      <3>2. LastIs(files["main"]) => /\ files["main"] \in Pages \cup {None}
                                     /\ stored = {} => files["main"] = None
        BY <3>1 DEF LastIs
      <3> QED
        BY <1>1, <1>3, <1>8, <3>2 DEF SavedSoFar, KeptWhole
    <2>2. TornBy(a) \notin Pages \cup {None}
      BY PositionFacts
    <2>3. ASSUME NEW q \in Programs, Step(a, q)
          PROVE  pc = q
      BY <1>1, <1>5, <2>3, JobAfter
    <2>4. {"write", "sync", "removeBak", "rotate", "promote", "fill"} \subseteq Programs
      BY DEF Programs
    <2>5. CASE job[a].pc = "removeTmp"
      BY <1>1, <1>8, <2>1, <2>3, <2>4, <2>5 DEF Going, Without
    <2>6. CASE job[a].pc = "write"
      BY <1>1, <2>1, <2>3, <2>4, <2>6 DEF Going
    <2>7. CASE job[a].pc = "sync"
      <3>1. pc = "removeBak" /\ files' = [n \in DOMAIN files |-> IF files[n] = TornBy(a) THEN job[a].at ELSE files[n]]
        BY <2>3, <2>4, <2>7 DEF Going
      <3>2. DOMAIN files = {"main", "tmp", "bak"}
        BY <1>1
      <3> QED
        BY <2>1, <2>2, <2>7, <3>1, <3>2
    <2>8. CASE job[a].pc = "removeBak"
      BY <1>1, <2>1, <2>3, <2>4, <2>8 DEF Going, Without
    <2>9. CASE job[a].pc = "rotate"
      BY <1>1, <2>1, <2>3, <2>4, <2>9 DEF Going, Renamed, CanRename
    <2> QED
      BY <2>5, <2>6, <2>7, <2>8, <2>9 DEF Going
  <1>9. \A c \in Actors : TornBy(c)' = TornBy(c)
    BY DEF TornBy
  <1>10. SavedSoFar'
    BY <1>3, <1>5, <1>8, <1>9 DEF SavedSoFar
  <1>11. KeptWhole'
    <2>1. CASE pc = "promote"
      BY <1>2, <1>3, <1>5, <1>8, <2>1 DEF KeptWhole, LastIs
    <2>2. CASE pc # "promote"
      <3>1. ~\E c \in Actors : job'[c].pc = "promote"
        BY <1>3, <1>5, <2>2
      <3> QED
        BY <1>2, <1>8, <2>2, <3>1 DEF KeptWhole, LastIs
    <2> QED
      BY <2>1, <2>2
  <1> QED
    BY <1>7, <1>10, <1>11 DEF FileInv

\* A save that ends, successfully or not.
LEMMA FileAfterEnded ==
    ASSUME ApartInv, NEW a \in Actors, job[a].pc # "idle", open, NEW ok \in BOOLEAN, Ended(a, ok),
           format' = format
    PROVE  FileInv'
  <1>1. /\ JobTypes /\ files \in [{"main", "tmp", "bak"} -> Contents] /\ OneSaver /\ ByFormat
        /\ SavedSoFar /\ KeptWhole /\ token = None /\ faults \in Nat
    BY BookFacts DEF ApartInv, Types, SaveTypes, GhostTypes, FileInv, Memory
  <1>2. PICK b \in Actors : a # b /\ Actors = {a, b} /\ job[b].pc = "idle"
    BY <1>1 DEF OneSaver
  <1>3. Finish(a, ok)
    BY DEF Ended
  <1>4. \A c \in Actors : job'[c].pc = "idle"
    <2>1. CASE Closed
      BY <2>1 DEF Closed
    <2>2. CASE Stays(a, ok)
      <3>1. job'[a] \in {Idle, Leaving} /\ job'[b] = job[b]
        BY <1>1, <1>2, <2>2, JobAfter
      <3> QED
        BY <1>2, <3>1
    <2> QED
      BY <1>3, <2>1, <2>2, EndShape
  <1>5. SavedSoFar'
    BY <1>4 DEF SavedSoFar
  <1>6. stored' = (IF ok THEN {job[a].at} ELSE stored)
        /\ \/ token' = None
           \/ token' = job[a].goal /\ job[a].then = "restart" /\ ok
    <2>1. CASE Stays(a, ok)
      BY <1>1, <1>3, <2>1, EndShape DEF Stays, OneSaver
    <2> QED
      BY <1>1, <1>3, <2>1, EndShape DEF OneSaver
  <1>7. ASSUME format = "epub", ok
        PROVE  files'["main"] = job[a].at /\ job[a].at \in Pages /\ faults' = faults
    <2>1. job[a].pc = "promote" /\ files' = Renamed("tmp", "main") /\ faults' = faults
      BY <1>1, <1>7 DEF Ended, ByFormat
    <2>2. files["tmp"] = job[a].at /\ job[a].at \in Pages
      BY <1>1, <1>7, <2>1 DEF SavedSoFar, ApartInv, InBook
    <2> QED
      BY <1>1, <2>1, <2>2 DEF Renamed
  <1>8. ASSUME format = "epub", ~ok
        PROVE  /\ faults' = faults + 1
               /\ faults = 0 /\ stored # {} => files'["main"] \in stored
    <2>1. /\ job[a].pc = "rotate" => files["bak"] = None /\ files["tmp"] = job[a].at
          /\ job[a].pc = "promote" => files["main"] = None /\ files["tmp"] = job[a].at
          /\ job[a].pc # "fill" /\ job[a].at \in Pages /\ None \notin Pages /\ stored \subseteq Pages
      BY <1>1, <1>8, PositionFacts DEF SavedSoFar, ApartInv, InBook, ByFormat
    <2>2. /\ faults' = faults + 1
          /\ \/ files' = files /\ job[a].pc \in {"removeTmp", "write"}
             \/ files' = [Abandoned({a}) EXCEPT !["tmp"] = None] /\ job[a].pc = "sync"
             \/ files' = Without("tmp") /\ job[a].pc \in {"removeBak", "rotate"}
             \/ files' = Restored /\ job[a].pc = "promote"
      BY <1>1, <1>8, <2>1 DEF Ended, CanRename
    <2>3. ASSUME faults = 0, stored # {}
          PROVE  files'["main"] \in stored
      <3>1. CASE job[a].pc = "promote"
        <4>1. LastIs(files["bak"]) /\ files["main"] = None
          BY <1>1, <1>8, <2>1, <2>3, <3>1 DEF KeptWhole
        <4>2. files["bak"] \in stored /\ files["bak"] # None
          BY <2>1, <2>3, <4>1 DEF LastIs
        <4>3. files' = Restored
          BY <2>2, <3>1
        <4> QED
          BY <4>1, <4>2, <4>3 DEF Restored
      <3>2. CASE job[a].pc # "promote"
        <4>1. LastIs(files["main"])
          BY <1>1, <1>2, <1>8, <2>3, <3>2 DEF KeptWhole
        <4>2. files["main"] \in stored /\ files["main"] \in Pages
          BY <2>1, <2>3, <4>1 DEF LastIs
        <4>3. Abandoned({a})["main"] = files["main"] /\ Abandoned({a}) \in [{"main", "tmp", "bak"} -> Contents]
          BY <4>2, AbandonedFacts, PositionFacts DEF ApartInv
        <4> QED
          BY <1>1, <2>2, <3>2, <4>2, <4>3 DEF Without
      <3> QED
        BY <3>1, <3>2
    <2> QED
      BY <2>2, <2>3
  <1>9. KeptWhole'
    <2> SUFFICES ASSUME format = "epub", faults' = 0
                 PROVE  files'["main"] \in Pages /\ stored' = {files'["main"]}
      BY <1>4, PositionFacts DEF KeptWhole, LastIs
    <2>1. ok
      BY <1>1, <1>8
    <2> QED
      BY <1>6, <1>7, <2>1
  <1>10. KeptAfterFault'
    <2> SUFFICES ASSUME format = "epub", faults' = 1, stored' # {}
                 PROVE  Recovered' \in stored'
      BY DEF KeptAfterFault
    <2>1. files'["main"] \in stored' /\ stored' \subseteq Pages
      <3>1. CASE ok
        BY <1>6, <1>7, <3>1
      <3>2. CASE ~ok
        <4>1. stored \subseteq Pages
          BY DEF ApartInv, InBook
        <4> QED
          BY <1>1, <1>6, <1>8, <3>2, <4>1
      <3> QED
        BY <3>1, <3>2
    <2> QED
      BY <2>1, PositionFacts DEF Recovered, RecoveredFrom, Held
  <1>11. TokenPlaced'
    <2> SUFFICES ASSUME token' # None
                 PROVE  KeepsPlace(files'["main"], token')
      BY DEF TokenPlaced, KeepsPlace, Pages, Chapter
    <2>1. token' = job[a].goal /\ format = "epub" /\ ok /\ KeepsPlace(job[a].at, job[a].goal)
      BY <1>1, <1>6 DEF ByFormat, JobTypes
    <2> QED
      BY <1>7, <2>1
  <1> QED
    BY <1>5, <1>9, <1>10, <1>11 DEF FileInv

\* A reader that opens finds nobody saving; what is left half-written stays unreadable.
LEMMA FileAfterOpen ==
    ASSUME ApartInv, Open
    PROVE  FileInv'
  <1>1. /\ UNCHANGED <<format, stored, faults, job>> /\ files' = Abandoned(Actors) /\ token' = None
        /\ \A a \in Actors : job[a].pc = "idle"
    BY DEF Open, ApartInv, Memory
  <1>2. /\ \A n \in {"main", "bak"}, p \in Positions \cup {None} : files[n] = p => files'[n] = p
        /\ \A n \in {"main", "bak"}, p \in Positions \cup {None} : files'[n] = p => files[n] = p
    <2>1. Types /\ Actors \in SUBSET Actors
      BY DEF ApartInv
    <2> QED
      BY <1>1, <2>1, AbandonedFacts
  <1>3. Recovered' = Recovered
    BY <1>1, <1>2, PositionFacts DEF Recovered, RecoveredFrom, Held
  <1>4. SavedSoFar' /\ TokenPlaced'
    BY <1>1 DEF SavedSoFar, TokenPlaced
  <1>5. KeptWhole'
    <2> SUFFICES ASSUME format = "epub", faults = 0
                 PROVE  LastIs(files'["main"]) /\ (stored = {} => files'["bak"] = None)
      BY <1>1 DEF KeptWhole, LastIs
    <2>1. LastIs(files["main"]) /\ (stored = {} => files["bak"] = None) /\ stored \subseteq Pages
      BY <1>1 DEF ApartInv, FileInv, KeptWhole, InBook
    <2>2. files["main"] \in Pages \cup {None}
      BY <2>1 DEF LastIs
    <2> QED
      BY <1>2, <2>1, <2>2, PositionFacts
  <1>6. KeptAfterFault'
    BY <1>1, <1>3 DEF ApartInv, FileInv, KeptAfterFault, Resting
  <1> QED
    BY <1>4, <1>5, <1>6 DEF FileInv

\* A section that fails while the file is whole leaves it readable.
LEMMA FileAfterFailing ==
    ASSUME ApartInv, Failing
    PROVE  FileInv'
  <1>1. UNCHANGED <<format, files, stored, token, job>> /\ faults' = faults + 1 /\ faults \in Nat
    BY FailingKeeps DEF ApartInv
  <1>2. SavedSoFar' /\ TokenPlaced'
    BY <1>1 DEF ApartInv, FileInv, SavedSoFar, TokenPlaced, KeepsPlace, Pages, Chapter, TornBy
  <1>3. KeptWhole'
    BY <1>1 DEF KeptWhole
  <1>4. Recovered' = Recovered
    BY <1>1 DEF Recovered, RecoveredFrom, Held
  <1>5. KeptAfterFault'
    <2> SUFFICES ASSUME format = "epub", faults = 0, stored # {}
                 PROVE  Recovered \in stored
      BY <1>1, <1>4 DEF KeptAfterFault
    <2> QED
      BY KeptIsReadable DEF ApartInv, FileInv
  <1> QED
    BY <1>2, <1>3, <1>5 DEF FileInv

LEMMA FileStep ==
    ASSUME Apart', ApartInv, [Next]_vars
    PROVE  FileInv'
  <1>1. /\ Types /\ OneSaver /\ Memory /\ FileInv /\ GhostTypes
    BY DEF ApartInv, Types
  <1>2. CASE Elsewhere \/ UNCHANGED vars
    <2>1. UNCHANGED <<format, files, stored, faults, token, job>>
      BY <1>2, ElsewhereKeeps
    <2> QED
      BY <1>1, <2>1, FileUntouched
  <1>3. CASE RenderPage
    <2>1. UNCHANGED <<format, files, stored, faults, job, token>>
      BY <1>3 DEF RenderPage
    <2> QED
      BY <1>1, <2>1, FileUntouched
  <1>4. CASE PowerLoss \/ Open \/ Failing
    BY <1>4, FileAfterPowerLoss, FileAfterOpen, FileAfterFailing
  <1>5. CASE Exit /\ ~SavesOnExit
    <2>1. /\ job' = [a \in Actors |-> Idle] /\ UNCHANGED <<format, files, stored, faults, token>>
          /\ job["main"].pc = "idle" /\ job["render"].pc = "idle"
      BY <1>5, LockFreeMeans DEF Exit, Closed
    <2>2. \A a \in Actors : job'[a].pc = job[a].pc
      BY <2>1
    <2>3. SavedSoFar'
      BY <2>1, <2>2 DEF SavedSoFar
    <2>4. UNCHANGED <<Recovered, Resting>>
      BY <2>1, <2>2 DEF Recovered, RecoveredFrom, Held, Resting
    <2>5. KeptWhole' /\ KeptAfterFault' /\ TokenPlaced'
      BY <1>1, <2>1, <2>2, <2>4 DEF FileInv, KeptWhole, KeptAfterFault, TokenPlaced, LastIs,
                                    KeepsPlace, Pages, Chapter
    <2> QED
      BY <2>3, <2>5 DEF FileInv
  <1>6. CASE \E metadataChanged, intervalOver \in BOOLEAN :
                    ObserveShown(metadataChanged, intervalOver) /\ job' = job
    <2>1. /\ UNCHANGED <<format, files, faults, token, job>> /\ drawing # None
          /\ stored' = stored \/ Begin("render", pos, "stay", 0)
      BY <1>6 DEF ObserveShown
    <2>2. stored' = stored
      BY <1>1, <2>1, BeginsAlone DEF OneSaver
    <2> QED
      BY <1>1, <2>1, <2>2, FileUntouched
  <1>7. CASE \/ Restarting
             \/ \E metadataChanged, intervalOver \in BOOLEAN :
                    ObserveShown(metadataChanged, intervalOver) /\ job' # job
             \/ SaveForHandOff
             \/ Exit /\ SavesOnExit
    <2>1. PICK a \in Actors, p \in Positions, then \in Thens, goal \in Positions : Begins(a, p, then, goal)
      BY <1>1, <1>7, BeginsAt
    <2> QED
      BY <1>1, <2>1, FileAfterBegin
  <1>8. CASE \E a \in Actors : SaveStep(a)
    <2>1. PICK a \in Actors : SaveStep(a)
      BY <1>8
    <2>2. job[a].pc # "idle" /\ open
      BY <1>1, <2>1, SavesOpen
    <2>3. format' = format
      BY <1>1, <2>1, SaveShape
    <2>4. (Goes(a) /\ Going(a)) \/ Ended(a, TRUE) \/ Ended(a, FALSE)
      BY <1>1, <2>1, GoingShape
    <2>5. \A ok \in BOOLEAN : Ended(a, ok) => FileInv'
      BY <2>2, <2>3, FileAfterEnded
    <2>6. TRUE \in BOOLEAN /\ FALSE \in BOOLEAN
      OBVIOUS
    <2> QED
      BY <2>2, <2>3, <2>4, <2>5, <2>6, FileAfterGoing, Zenon
  <1> QED
    BY <1>2, <1>3, <1>4, <1>5, <1>6, <1>7, <1>8, StepCases

LEMMA ApartInit ==
    ASSUME Init
    PROVE  ApartInv
  <1> USE PositionFacts DEF Init
  <1>1. Types
    BY TypesInit
  <1>2. OneSaver /\ Memory /\ ByFormat
    BY DEF OneSaver, Memory, ByFormat
  <1>3. InBook
    BY DEF InBook, NewDebouncer
  <1>4. FileInv
    BY DEF FileInv, SavedSoFar, KeptWhole, KeptAfterFault, TokenPlaced, LastIs, NoFiles
  <1> QED
    BY <1>1, <1>2, <1>3, <1>4 DEF ApartInv

\* In a behaviour in which the saves of the two tasks do not overlap, the tasks and the card keep
\* all of this.
THEOREM ApartInvariance == Spec /\ []Apart => []ApartInv
  <1>1. Init => ApartInv
    BY ApartInit
  <1>2. ApartInv /\ Types' /\ Apart' /\ [Next]_vars => ApartInv'
    BY OneSaverStep, MemoryStep, ByFormatStep, InBookStep, FileStep DEF ApartInv
  <1> QED
    BY <1>1, <1>2, Invariance, PTL DEF Spec

\* As long as the saves of the two tasks do not overlap, and however one is interrupted or fails,
\* loadProgress() finds the position that saveProgress() wrote last: at every step before a first
\* fault, and after one whenever nobody saves.
THEOREM LastSaveIsReopened == Spec /\ []Apart => []ReopensAtLastSave
  <1>1. ApartInv => ReopensAtLastSave
    BY KeptIsReadable DEF ApartInv, FileInv, KeptAfterFault, Resting, ReopensAtLastSave
  <1> QED
    BY <1>1, ApartInvariance, PTL

\* restartForLowMemoryLayout(), from whichever of its callers, leaves a page of the same chapter in
\* the file that is not after the one it restarts for, as long as saves do not overlap and for any
\* number of faults.
THEOREM RestartKeepsThePlace == Spec /\ []Apart => []RestartKeepsPlace
  <1>1. ApartInv => RestartKeepsPlace
    <2> SUFFICES ASSUME ApartInv, token # None
                 PROVE  Recovered <= token /\ Chapter(Recovered) = Chapter(token)
      BY DEF RestartKeepsPlace
    <2>1. format = "epub" /\ KeepsPlace(files["main"], token)
      BY DEF ApartInv, FileInv, TokenPlaced, ByFormat
    <2>2. Recovered = files["main"]
      BY <2>1, RecoveredFacts DEF KeepsPlace
    <2> QED
      BY <2>1, <2>2 DEF KeepsPlace
  <1> QED
    BY <1>1, ApartInvariance, PTL

-----------------------------------------------------------------------------
(* How far the file may be behind.                                         *)

PagedKept ==
    format = "paged" /\ faults = 0 /\ (\A a \in Actors : job[a].pc # "fill")
        => LastIs(files["main"])

\* What the tasks are saving.  A main task that has asked for another activity has saved the
\* page it stays on.
Saving ==
    /\ job["main"].pc # "idle" /\ job["main"].then # "close" =>
            pos \in Pages /\ note = "no" /\ (faults = 0 => job["main"].at = pos)
    /\ job["render"].pc # "idle" /\ job["render"].then = "stay" =>
            job["render"].at = deb.last /\ deb.initialized
    /\ job["main"] = Leaving =>
            /\ pos \in Pages /\ note = "no" /\ drawing \in {None, pos}
            /\ job["render"].pc # "idle" /\ job["render"].then = "stay" => job["render"].at = pos
            /\ faults = 0 /\ job["render"].pc = "idle" => stored = {pos} /\ behind = 0

\* What the debouncer and the reader remember of the last save.
Remembered ==
    /\ ~deb.initialized => deb = NewDebouncer /\ behind = 0 /\ lastSaved = None
    /\ deb.changes > 0 => deb.pending
    /\ lastSaved # None => stored = {lastSaved}

\* The pages seen since the last save are among the changes the debouncer has counted, and a
\* page it would not count is the one in the file.
Counting(d) ==
    /\ behind <= d.changes /\ d.changes < Interval
    /\ d.last \in Pages /\ settled # d.last => behind < d.changes \/ stored = {d.last}
    /\ lastSaved # None /\ d.last # lastSaved => d.changes > 0
Counted ==
    faults = 0 =>
        /\ behind <= Interval
        /\ Resting /\ job["main"] = Idle /\ deb.initialized => Counting(deb)

CountInv == PagedKept /\ Saving /\ Remembered /\ Counted

\* At rest and before any fault, the file holds the last save.
LEMMA RestingReads ==
    ASSUME ApartInv, PagedKept, Resting, faults = 0, NEW p \in Pages, stored = {p}
    PROVE  Held(files) = p
  <1>1. format \in {"epub", "paged"}
    BY ReaderAssumption DEF ApartInv, Types, FlagTypes
  <1>2. CASE format = "epub"
    BY <1>2, KeptIsReadable DEF ApartInv, FileInv
  <1>3. CASE format = "paged"
    <2>1. files["main"] = p
      BY <1>3 DEF PagedKept, Resting, LastIs
    <2> QED
      BY <2>1 DEF Held
  <1> QED
    BY <1>1, <1>2, <1>3

\* A save only fails when an operation on the card does.
LEMMA FailsByFault ==
    ASSUME ApartInv, NEW a \in Actors, Ended(a, FALSE)
    PROVE  faults' = faults + 1
  <1>1. CASE format = "epub"
    <2>1. /\ job[a].pc = "rotate" => files["bak"] = None
          /\ job[a].pc = "promote" => files["main"] = None /\ files["tmp"] = job[a].at
          /\ job[a].at \in Pages /\ None \notin Pages
      BY <1>1, PositionFacts DEF ApartInv, FileInv, SavedSoFar, InBook
    <2> QED
      BY <2>1 DEF Ended, CanRename
  <1>2. CASE format # "epub"
    <2>1. job[a].pc \notin {"rotate", "promote"}
      BY <1>2 DEF ApartInv, ByFormat
    <2> QED
      BY <2>1 DEF Ended
  <1> QED
    BY <1>1, <1>2

LEMMA PagedKeptStep ==
    ASSUME Apart', ApartInv, PagedKept, [Next]_vars
    PROVE  PagedKept'
  <1>1. Types /\ OneSaver /\ Memory /\ ByFormat /\ GhostTypes /\ faults \in Nat /\ JobTypes
        /\ files \in [{"main", "tmp", "bak"} -> Contents]
    BY BookFacts DEF ApartInv, Types, GhostTypes, SaveTypes
  <1>2. ASSUME UNCHANGED <<format, files, stored, faults>>,
               \A a \in Actors : job[a].pc # "fill"
        PROVE  PagedKept'
    BY <1>2 DEF PagedKept, LastIs
  <1>3. ASSUME UNCHANGED <<format, files, stored, faults, job>>
        PROVE  PagedKept'
    BY <1>3 DEF PagedKept, LastIs
  <1>4. CASE Elsewhere \/ UNCHANGED vars \/ RenderPage
    BY <1>3, <1>4, ElsewhereKeeps DEF RenderPage
  <1>5. CASE PowerLoss \/ Failing
    <2>1. faults' # 0
      BY <1>1, <1>5, FailingKeeps DEF PowerLoss
    <2> QED
      BY <2>1 DEF PagedKept
  <1>10. CASE Open
    <2>1. /\ UNCHANGED <<format, stored, faults, job>> /\ files' = Abandoned(Actors)
      BY <1>10 DEF Open
    <2> SUFFICES ASSUME format = "paged", faults = 0, \A a \in Actors : job[a].pc # "fill"
                 PROVE  LastIs(files'["main"])
      BY <2>1 DEF PagedKept, LastIs
    <2>2. LastIs(files["main"]) /\ stored \subseteq Positions
      BY <1>1 DEF PagedKept, GhostTypes
    <2>3. files["main"] \in Positions \cup {None}
      BY <2>2 DEF LastIs
    <2>4. files'["main"] = files["main"]
      BY <1>1, <2>1, <2>3, AbandonedFacts
    <2> QED
      BY <2>2, <2>4
  <1>6. CASE Exit /\ ~SavesOnExit
    <2>1. \A a \in Actors : job[a].pc # "fill"
      BY <1>6, LockFreeMeans DEF Exit
    <2> QED
      BY <1>2, <1>6, <2>1 DEF Exit
  <1>7. CASE \E metadataChanged, intervalOver \in BOOLEAN :
                    ObserveShown(metadataChanged, intervalOver) /\ job' = job
    <2>1. /\ UNCHANGED <<format, files, faults, job>> /\ drawing # None
          /\ stored' = stored \/ Begin("render", pos, "stay", 0)
      BY <1>7 DEF ObserveShown
    <2>2. stored' = stored
      BY <1>1, <2>1, BeginsAlone DEF OneSaver
    <2> QED
      BY <1>3, <2>1, <2>2
  <1>8. CASE \/ Restarting
             \/ \E metadataChanged, intervalOver \in BOOLEAN :
                    ObserveShown(metadataChanged, intervalOver) /\ job' # job
             \/ SaveForHandOff
             \/ Exit /\ SavesOnExit
    <2>1. PICK a \in Actors, p \in Positions, then \in Thens, goal \in Positions : Begins(a, p, then, goal)
      BY <1>1, <1>8, BeginsAt
    <2>2. \A b \in Actors : job[b].pc # "fill"
      BY <2>1 DEF Begins
    <2> QED
      BY <1>2, <2>1, <2>2 DEF Begins
  <1>9. CASE \E a \in Actors : SaveStep(a)
    <2>1. PICK a \in Actors : SaveStep(a)
      BY <1>9
    <2>2. format' = format
      BY <1>1, <2>1, SaveShape
    <2> SUFFICES ASSUME format = "paged", faults' = 0, \A b \in Actors : job'[b].pc # "fill"
                 PROVE  LastIs(files["main"])'
      BY <2>2 DEF PagedKept
    <2>3. job[a].pc \in {"removeTmp", "fill", "idle"}
      BY <1>1 DEF ByFormat
    <2>4. CASE Going(a)
      <3>1. Step(a, "fill")
        BY <2>3, <2>4 DEF Going
      <3>2. job'[a].pc = "fill"
        BY <1>1, <3>1, JobAfter DEF Programs
      <3> QED
        BY <3>2
    <2>5. CASE Ended(a, TRUE)
      <3>1. files'["main"] = job[a].at
        BY <1>1, <2>3, <2>5 DEF Ended
      <3>2. stored' = {job[a].at} /\ job[a].at # None
        BY <1>1, <2>5, EndShape, PositionFacts DEF Ended, OneSaver, JobTypes, Jobs
      <3> QED
        BY <3>1, <3>2 DEF LastIs
    <2>6. CASE Ended(a, FALSE)
      <3>1. faults' = faults + 1
        BY <2>6, FailsByFault
      <3> QED
        BY <1>1, <3>1
    <2> QED
      BY <1>1, <2>1, <2>4, <2>5, <2>6, GoingShape
  <1> QED
    BY <1>4, <1>5, <1>6, <1>7, <1>8, <1>9, <1>10, StepCases

\* A page that is observed while the main task waits for another activity is the page it saved.
LEMMA ObserveLeaving ==
    ASSUME ApartInv, CountInv, job["main"] = Leaving, faults = 0, drawing # None, Settles
    PROVE  behind' = 0
  <1>1. /\ job["main"].pc = "idle" /\ job["render"].pc = "idle" /\ drawing = pos /\ pos \in Pages
        /\ stored = {pos}
    BY DEF ApartInv, OneSaver, CountInv, Saving
  <1>2. Held(files) = pos
    BY <1>1, RestingReads DEF Resting, CountInv
  <1> QED
    BY <1>1, <1>2 DEF Settles

LEMMA SavingStep ==
    ASSUME Apart', ApartInv, CountInv, [Next]_vars
    PROVE  Saving'
  <1>1. /\ Types /\ OneSaver /\ Memory /\ ByFormat /\ GhostTypes /\ JobTypes /\ Saving
        /\ faults \in Nat /\ pos \in Positions
    BY BookFacts DEF ApartInv, Types, GhostTypes, PlaceTypes, CountInv
  <1>2. ASSUME job'["main"] = Idle, job'["render"] = Idle
        PROVE  Saving'
    BY <1>2 DEF Saving
  <1>3. CASE Elsewhere
    <2>1. UNCHANGED <<deb, drawing, job, stored, behind, faults>>
      BY <1>3, ElsewhereKeeps
    <2>2. MainFree \/ BuildFails
      BY <1>3 DEF Elsewhere, PageTurn, Jump, FollowFootnote, RestoreSavedPosition, Relayout
    <2>3. CASE MainFree
      <3>1. job["main"] = Idle
        BY <2>3 DEF MainFree
      <3> QED
        BY <1>1, <2>1, <3>1 DEF Saving
    <2>4. CASE BuildFails
      <3>1. /\ job["main"].then # "close" /\ job["render"].pc = "idle" /\ drawing = None
            /\ note = "no" => note' = "no" /\ pos' = pos
        BY <2>4, LockFreeMeans DEF BuildFails
      <3> QED
        BY <1>1, <2>1, <3>1 DEF Saving
    <2> QED
      BY <2>2, <2>3, <2>4
  <1>4. CASE Open
    <2>1. job' = [a \in Actors |-> Idle]
      BY <1>1, <1>4 DEF Open, Memory
    <2> QED
      BY <1>2, <2>1
  <1>13. CASE Failing
    BY <1>1, <1>13, FailingKeeps DEF Saving
  <1>5. CASE RenderPage
    <2>1. /\ job["main"].then # "close" /\ job["render"].pc = "idle"
          /\ UNCHANGED <<pos, job, stored, behind, faults>>
      BY <1>5, LockFreeMeans DEF RenderPage
    <2>2. /\ job["main"] = Leaving => drawing' = pos
          /\ note = "no" => note' = "no"
      BY <1>1, <1>5 DEF RenderPage, Saving
    <2> QED
      BY <1>1, <2>1, <2>2 DEF Saving
  <1>6. CASE UNCHANGED vars
    BY <1>1, <1>6 DEF Saving
  <1>7. CASE PowerLoss \/ (Exit /\ ~SavesOnExit)
    <2>1. job' = [a \in Actors |-> Idle]
      BY <1>7 DEF PowerLoss, Exit, Closed
    <2> QED
      BY <1>2, <2>1
  <1>8. ASSUME NEW metadataChanged \in BOOLEAN, NEW intervalOver \in BOOLEAN,
               ObserveShown(metadataChanged, intervalOver)
        PROVE  Saving'
    <2>0. /\ drawing # None /\ drawing' = None /\ Settles
          /\ UNCHANGED <<pos, note, faults>>
          /\ job["main"].pc = "idle" /\ job["render"].pc = "idle"
      BY <1>1, <1>8 DEF ObserveShown, OneSaver
    <2>2. \/ job' = job /\ stored' = stored
          \/ Begin("render", pos, "stay", 0) /\ deb' = Observe(pos, metadataChanged)
      BY <1>8 DEF ObserveShown
    <2>1. /\ drawing # None /\ drawing' = None /\ Settles
          /\ UNCHANGED <<pos, note, stored, faults>>
          /\ job["main"].pc = "idle" /\ job["render"].pc = "idle"
      BY <2>0, <2>2, BeginsAlone
    <2>3. job["main"] = Leaving => pos \in Pages /\ note = "no" /\ (faults = 0 => stored = {pos} /\ behind' = 0)
      BY <1>1, <2>1, ObserveLeaving DEF Saving
    <2>4. CASE job' = job
      BY <1>1, <2>1, <2>3, <2>4 DEF Saving
    <2>5. CASE Begin("render", pos, "stay", 0) /\ deb' = Observe(pos, metadataChanged)
      <3>1. /\ job'["render"] = [pc |-> "removeTmp", at |-> pos, then |-> "stay", goal |-> 0]
            /\ job'["main"] = job["main"]
        BY <1>1, <2>5, JobAfter, PositionFacts DEF Thens
      <3>2. deb'.last = pos /\ deb'.initialized
        BY <1>1, <2>5 DEF Observe, Types, SaveTypes, Debouncers
      <3> QED
        BY <1>1, <2>1, <2>3, <3>1, <3>2 DEF Saving
    <2> QED
      BY <2>2, <2>4, <2>5
  <1>9. CASE Restarting
    <2>0. PICK p \in Pages : RestartForLowMemory(p)
      BY <1>9 DEF Restarting
    <2>1. /\ UNCHANGED <<pos, note, deb, drawing, behind, faults>>
          /\ Begin("render", p, "restart", pos) /\ job["render"].pc = "idle"
      BY <2>0, LockFreeMeans DEF RestartForLowMemory
    <2>2. /\ job'["render"] = [pc |-> "removeTmp", at |-> p, then |-> "restart", goal |-> pos]
          /\ job'["main"] = job["main"]
      BY <1>1, <2>1, JobAfter, PositionFacts DEF Thens
    <2>3. job["main"].pc = "idle"
      BY <2>2 DEF Apart
    <2> QED
      BY <1>1, <2>1, <2>2, <2>3 DEF Saving
  <1>10. CASE SaveForHandOff
    <2>2. /\ pos' = pos /\ note' = note /\ pos \in Pages /\ note = "no"
          /\ Begin("main", pos, "leave", 0)
      BY <1>10 DEF SaveForHandOff
    <2>3. /\ job'["main"] = [pc |-> "removeTmp", at |-> pos, then |-> "leave", goal |-> 0]
          /\ job'["render"] = job["render"]
      BY <1>1, <2>2, JobAfter, PositionFacts DEF Thens
    <2>4. job["render"].pc = "idle"
      BY <2>3 DEF Apart
    <2> QED
      BY <2>2, <2>3, <2>4 DEF Saving
  <1>11. CASE Exit /\ SavesOnExit
    <2>1. PICK p \in Positions : Begin("main", p, "close", 0)
      <3>1. deb.last \in Positions /\ (origins # << >> => origins[1] \in Positions)
        BY <1>1, TopOrigin, PositionFacts DEF Types, SaveTypes, Debouncers
      <3> QED
        BY <1>11, <3>1, Zenon DEF Exit
    <2>2. job["render"].pc = "idle"
      BY <1>11, LockFreeMeans DEF Exit
    <2>3. /\ job'["main"] = [pc |-> "removeTmp", at |-> p, then |-> "close", goal |-> 0]
          /\ job'["render"] = job["render"]
      BY <1>1, <2>1, JobAfter, PositionFacts DEF Thens
    <2> QED
      BY <2>2, <2>3 DEF Saving
  <1>12. CASE \E a \in Actors : SaveStep(a)
    <2>1. PICK a \in Actors : SaveStep(a)
      BY <1>12
    <2>2. job[a].pc # "idle" /\ drawing = None
      BY <1>1, <2>1, SavesOpen DEF OneSaver
    <2>3. PICK b \in Actors : a # b /\ Actors = {a, b} /\ job[b].pc = "idle"
      BY <1>1, <2>2 DEF OneSaver
    <2>4. CASE Goes(a)
      <3>1. PICK pc \in Programs \ {"idle"} : Step(a, pc)
        BY <2>4 DEF Goes
      <3>2. /\ job'[a].pc = pc /\ job'[a].at = job[a].at /\ job'[a].then = job[a].then
            /\ job'[b] = job[b]
        BY <1>1, <2>3, <3>1, JobAfter
      <3>3. UNCHANGED <<pos, note, deb, drawing, stored, behind, faults>>
        BY <2>4 DEF Goes, Continues
      <3>4. job'[a].pc # "idle" /\ job'[b].pc = "idle"
        BY <2>3, <3>2
      <3> QED
        BY <1>1, <2>2, <2>3, <3>2, <3>3, <3>4 DEF Saving
    <2>5. ASSUME NEW ok \in BOOLEAN, Ended(a, ok)
          PROVE  Saving'
      <3>1. Finish(a, ok)
        BY <2>5 DEF Ended
      <3>2. CASE Closed
        BY <1>2, <3>2 DEF Closed
      <3>3. CASE Stays(a, ok) /\ (job[a].then = "restart" => ~ok)
        <4>1. /\ \/ job'[a] = Idle
                 \/ job'[a] = Leaving /\ job[a].then = "leave"
              /\ job'[b] = job[b]
          BY <1>1, <2>3, <3>3, JobAfter
        <4>2. /\ pos' \in {pos, job[a].at} /\ (job[a].then # "restart" => pos' = pos)
              /\ behind' = 0 /\ UNCHANGED <<note, drawing>>
              /\ stored' = IF ok THEN {job[a].at} ELSE stored
          BY <1>1, <3>1, <3>3, EndShape DEF Stays, OneSaver
        <4>3. ~ok => faults' # 0
          <5>1. ~ok => ok = FALSE
            OBVIOUS
          <5>2. ~ok => faults' = faults + 1
            BY <2>5, <5>1, FailsByFault
          <5> QED
            BY <1>1, <5>2
        <4>4. job[a].then = "restart" => job[a].at \in Pages
          BY <1>1 DEF JobTypes, KeepsPlace
        <4>5. job'["main"].pc = "idle" /\ job'["render"].pc = "idle"
          BY <2>3, <4>1
        <4>8. faults' = 0 => ok /\ faults = 0
          BY <1>1, <2>5, <4>3 DEF Ended
        <4>6. CASE a = "main"
          <5>1. b = "render" /\ job'["render"] = job["render"]
            BY <2>3, <4>1, <4>6
          <5>2. job'["main"] = Leaving => pos' = pos /\ pos \in Pages /\ note = "no"
            <6>1. job'["main"] = Leaving => job["main"].then = "leave"
              BY <4>1, <4>6 DEF Leaving, Idle
            <6> QED
              BY <1>1, <2>2, <4>2, <4>6, <6>1 DEF Saving
          <5>3. job'["main"] = Leaving /\ faults' = 0 => stored' = {pos} /\ behind' = 0
            BY <1>1, <2>2, <4>1, <4>2, <4>6, <4>8 DEF Saving, Leaving, Idle
          <5> QED
            BY <2>2, <4>2, <4>5, <5>1, <5>2, <5>3 DEF Saving
        <4>7. CASE a = "render"
          <5>1. b = "main" /\ job'["main"] = job["main"]
            BY <2>3, <4>1, <4>7
          <5>2. job["render"].then = "stay" \/ job["render"].then = "restart"
            BY <1>1 DEF OneSaver
          <5>3. pos' \in Positions /\ (pos \in Pages => pos' \in Pages)
            BY <1>1, <4>2, <4>4, <4>7, PositionFacts
          <5>4. job["main"] = Leaving /\ faults' = 0 => stored' = {pos'} /\ behind' = 0
            BY <1>1, <2>2, <3>3, <4>2, <4>7, <4>8, <5>2 DEF Saving
          <5> QED
            BY <1>1, <2>2, <4>2, <4>5, <5>1, <5>3, <5>4 DEF Saving
        <4> QED
          BY <4>6, <4>7
      <3> QED
        BY <3>1, <3>2, <3>3, EndShape
    <2> QED
      BY <1>1, <2>1, <2>4, <2>5, GoingShape
  <1> QED
    BY <1>3, <1>4, <1>5, <1>6, <1>7, <1>8, <1>9, <1>10, <1>11, <1>12, <1>13, StepCases

LEMMA RememberedStep ==
    ASSUME Apart', ApartInv, CountInv, [Next]_vars
    PROVE  Remembered'
  <1>1. /\ Types /\ OneSaver /\ Memory /\ GhostTypes /\ JobTypes /\ Remembered
        /\ deb \in Debouncers /\ pos \in Positions
    BY DEF ApartInv, Types, SaveTypes, PlaceTypes, CountInv
  <1>2. ASSUME UNCHANGED <<deb, behind, lastSaved, stored>>
        PROVE  Remembered'
    BY <1>1, <1>2 DEF Remembered
  <1>3. ASSUME Closed
        PROVE  Remembered'
    BY <1>3 DEF Closed, Remembered, NewDebouncer
  <1>4. CASE Elsewhere \/ UNCHANGED vars \/ Open \/ RenderPage
    BY <1>2, <1>4, ElsewhereKeeps DEF Open, RenderPage
  <1>5. CASE PowerLoss \/ (Exit /\ ~SavesOnExit)
    BY <1>3, <1>5 DEF PowerLoss, Exit
  <1>6. CASE Restarting \/ (Exit /\ SavesOnExit) \/ SaveForHandOff
    <2>1. UNCHANGED <<deb, behind>>
      BY <1>6 DEF Restarting, RestartForLowMemory, Exit, SaveForHandOff
    <2>2. UNCHANGED <<lastSaved, stored>>
      BY <1>1, <1>6, BeginShape DEF Begins
    <2> QED
      BY <1>2, <2>1, <2>2
  <1>7. CASE Failing
    BY <1>1, <1>7, FailingKeeps DEF Remembered
  <1>8. ASSUME NEW metadataChanged \in BOOLEAN, NEW intervalOver \in BOOLEAN,
               ObserveShown(metadataChanged, intervalOver)
        PROVE  Remembered'
    <2>0. /\ lastSaved' = lastSaved /\ drawing # None
          /\ stored' = stored \/ Begin("render", pos, "stay", 0)
      BY <1>8 DEF ObserveShown
    <2>1. UNCHANGED <<lastSaved, stored>>
      BY <1>1, <2>0, BeginsAlone DEF OneSaver
    <2>2. CASE TellsDebouncer(metadataChanged)
      <3>1. deb' = Observe(pos, metadataChanged)
        BY <1>8, <2>2 DEF ObserveShown
      <3>2. deb'.initialized /\ (deb'.changes > 0 => deb'.pending)
        BY <1>1, <3>1, BookFacts DEF Observe, Debouncers, Remembered
      <3> QED
        BY <1>1, <2>1, <3>2 DEF Remembered
    <2>3. CASE ~TellsDebouncer(metadataChanged)
      <3>1. deb' = deb /\ pos = lastSaved
        BY <1>8, <2>3 DEF ObserveShown, TellsDebouncer
      <3>2. deb.initialized
        BY <1>1, <3>1, PositionFacts DEF Remembered
      <3> QED
        BY <1>1, <2>1, <3>1, <3>2 DEF Remembered
    <2> QED
      BY <2>2, <2>3
  <1>9. CASE \E a \in Actors : SaveStep(a)
    <2>1. PICK a \in Actors : SaveStep(a)
      BY <1>9
    <2>2. CASE Goes(a)
      BY <1>2, <2>2 DEF Goes, Continues
    <2>3. ASSUME NEW ok \in BOOLEAN, Finish(a, ok)
          PROVE  Remembered'
      <3>1. CASE Stays(a, ok) /\ ok
        <4>1. /\ stored' = {job[a].at} /\ lastSaved' \in {job[a].at, None} /\ behind' = 0
              /\ deb' = Persisted(job[a].at)
          BY <1>1, <2>3, <3>1, EndShape DEF Stays, OneSaver
        <4>2. deb'.initialized /\ (deb'.changes > 0 => deb'.pending)
          BY <1>1, <4>1 DEF Persisted, Remembered, Debouncers
        <4> QED
          BY <4>1, <4>2 DEF Remembered
      <3>2. CASE Stays(a, ok) /\ ~ok
        <4>1. behind' = 0 /\ UNCHANGED <<deb, lastSaved, stored>>
          BY <1>1, <2>3, <3>2, EndShape DEF Stays, OneSaver
        <4> QED
          BY <1>1, <4>1 DEF Remembered
      <3> QED
        BY <1>3, <2>3, <3>1, <3>2, EndShape
    <2> QED
      BY <1>1, <2>1, <2>2, <2>3, GoingShape DEF Ends
  <1> QED
    BY <1>4, <1>5, <1>6, <1>7, <1>8, <1>9, StepCases

\* An observation of a page by a task that goes on: what is behind is still counted.
LEMMA ObserveCounts ==
    ASSUME Interval > 1, ApartInv, CountInv, faults = 0, job["main"] = Idle,
           NEW metadataChanged \in BOOLEAN, NEW intervalOver \in BOOLEAN,
           ObserveShown(metadataChanged, intervalOver)
    PROVE  /\ behind' <= Interval
           /\ Resting' /\ deb'.initialized => Counting(deb)'
  <1>1. /\ Types /\ OneSaver /\ Memory /\ GhostTypes /\ JobTypes /\ Remembered
        /\ deb \in Debouncers /\ pos \in Positions /\ InBook
        /\ PagedKept /\ Counted /\ drawing \in Pages \cup {None}
    BY DEF ApartInv, Types, SaveTypes, PlaceTypes, CountInv
  <1>2. /\ behind \in Nat /\ Interval \in Nat /\ deb.changes \in Nat /\ settled \in Pages \cup {None}
        /\ deb.last \in Positions
    BY <1>1, BookFacts DEF GhostTypes, Debouncers
  <1>3. /\ drawing # None /\ drawing \in Pages /\ Resting /\ UNCHANGED <<pos, lastSaved, stored>>
        /\ Settles
    <2>1. /\ drawing # None /\ drawing \in Pages /\ UNCHANGED <<pos, lastSaved>> /\ Settles
          /\ stored' = stored \/ Begin("render", pos, "stay", 0)
      BY <1>1 DEF ObserveShown
    <2> QED
      BY <1>1, <2>1, BeginsAlone DEF OneSaver, Resting
  <1>4. deb.initialized => Counting(deb)
    BY <1>1, <1>3 DEF Counted
  <1>5. ~deb.initialized => behind = 0 /\ lastSaved = None /\ deb = NewDebouncer
    BY <1>1 DEF Remembered
  <1>6. pos = drawing /\ stored = {pos} => Held(files) = pos
    BY <1>1, <1>3, RestingReads DEF CountInv
  \* What becomes of the count of pages.
  <1>7. \/ pos # drawing /\ settled' = settled /\ behind' = behind
        \/ pos = drawing /\ settled' = pos /\ behind' = 0
        \/ pos = drawing /\ settled' = pos /\ behind' = behind /\ pos = settled
        \/ /\ pos = drawing /\ settled' = pos /\ behind' = behind + 1
           /\ pos # settled /\ stored # {pos}
    <2>1. deb.initialized => behind < Interval
      BY <1>2, <1>4 DEF Counting
    <2>2. behind <= Interval
      BY <1>2, <1>5, <2>1
    <2> QED
      BY <1>2, <1>3, <1>6, <2>2 DEF Settles
  <1>8. CASE TellsDebouncer(metadataChanged)
    <2> DEFINE d == Observe(pos, metadataChanged)
    <2>1. deb' = d
      BY <1>8 DEF ObserveShown
    <2>2. \/ SaveIsDue(d, intervalOver) \/ forceSave
          \/ ~SaveIsDue(d, intervalOver)
      OBVIOUS
    <2>3. CASE Begin("render", pos, "stay", 0)
      <3>1. job'["render"] = [pc |-> "removeTmp", at |-> pos, then |-> "stay", goal |-> 0]
        BY <1>1, <2>3, JobAfter, PositionFacts DEF Thens
      <3>2. ~Resting'
        BY <3>1 DEF Resting
      <3>3. deb.initialized => behind <= deb.changes /\ deb.changes < Interval
        BY <1>4 DEF Counting
      <3>4. behind' <= Interval
        BY <1>2, <1>5, <1>7, <3>3
      <3> QED
        BY <3>2, <3>4
    <2>4. CASE ~SaveIsDue(d, intervalOver)
      <3>1. CASE ~deb.initialized
        <4>1. d = [initialized |-> TRUE, last |-> pos, changes |-> 1, pending |-> TRUE]
          BY <3>1 DEF Observe
        <4>2. /\ behind' \in {0, 1} /\ (settled' # pos => behind' = 0) /\ lastSaved' = None
          BY <1>2, <1>3, <1>5, <1>7, <3>1
        <4> QED
          BY <1>2, <2>1, <4>1, <4>2 DEF Counting
      <3>2. CASE deb.initialized
        <4>1. Counting(deb)
          BY <1>4, <3>2
        <4>2. /\ d.last = pos
              /\ d.changes = IF pos # deb.last THEN deb.changes + 1 ELSE deb.changes
              /\ d.pending = (deb.pending \/ pos # deb.last \/ metadataChanged)
          BY <1>1, <1>2, <3>2, <4>1 DEF Observe, Debouncers, Counting
        <4>3. d.changes > 0 => d.pending
          BY <1>1, <1>2, <4>2 DEF Remembered
        <4>4. d.changes < Interval
          BY <1>2, <2>4, <3>2, <4>1, <4>2, <4>3 DEF SaveIsDue, Counting
        <4>5. behind' <= d.changes
          BY <1>2, <1>3, <1>7, <4>1, <4>2 DEF Counting
        <4>6. pos \in Pages /\ settled' # pos => behind' < d.changes \/ stored = {pos}
          BY <1>2, <1>7, <4>1, <4>2 DEF Counting
        <4>7. lastSaved # None /\ pos # lastSaved => d.changes > 0
          BY <1>2, <4>1, <4>2 DEF Counting
        <4>8. behind' <= Interval
          BY <1>2, <1>7, <4>2, <4>4, <4>5
        <4>9. Counting(deb)'
          BY <1>3, <2>1, <4>2, <4>4, <4>5, <4>6, <4>7 DEF Counting
        <4> QED
          BY <4>8, <4>9
      <3> QED
        BY <3>1, <3>2
    <2> QED
      BY <1>8, <2>3, <2>4 DEF ObserveShown
  <1>9. CASE ~TellsDebouncer(metadataChanged)
    <2>1. deb' = deb /\ pos = lastSaved /\ format = "epub"
      <3>1. format \in {"epub", "paged"}
        BY <1>1, ReaderAssumption DEF Types, FlagTypes
      <3> QED
        BY <1>9, <3>1 DEF ObserveShown, TellsDebouncer
    <2>2. lastSaved # None /\ stored = {pos} /\ deb.initialized
      BY <1>1, <1>5, <2>1, PositionFacts DEF Remembered
    <2>3. pos # settled' => behind' = behind /\ settled' = settled
      BY <1>7
    <2>4. pos = drawing => behind' = 0
      BY <1>3, <1>6, <2>2 DEF Settles
    <2>5. Counting(deb)
      BY <1>4, <2>2
    <2>6. behind' <= behind
      BY <1>2, <1>7, <2>4
    <2>7. behind' <= deb.changes /\ behind' <= Interval
      BY <1>2, <1>7, <2>5, <2>6 DEF Counting
    <2>8. deb.last \in Pages /\ settled' # deb.last => behind' < deb.changes \/ stored = {deb.last}
      BY <1>2, <1>7, <2>1, <2>2, <2>4, <2>5 DEF Counting
    <2> QED
      BY <1>3, <2>1, <2>5, <2>7, <2>8 DEF Counting
  <1> QED
    BY <1>8, <1>9

LEMMA CountedStep ==
    ASSUME Apart', Interval > 1, ApartInv, CountInv, [Next]_vars
    PROVE  Counted'
  <1>1. /\ Types /\ OneSaver /\ Memory /\ GhostTypes /\ JobTypes /\ Counted /\ Saving
        /\ faults \in Nat /\ behind \in Nat /\ Interval \in Nat
    BY BookFacts DEF ApartInv, Types, GhostTypes, CountInv
  <1>2. ASSUME UNCHANGED <<deb, settled, behind, lastSaved, stored, faults, job>>
        PROVE  Counted'
    BY <1>1, <1>2 DEF Counted, Counting, Resting
  <1>3. ASSUME NEW a \in Actors, job'[a].pc # "idle", behind' = behind, faults' = faults
        PROVE  Counted'
    BY <1>1, <1>3 DEF Counted, Resting
  <1>4. ASSUME Closed
        PROVE  Counted'
    BY <1>1, <1>4 DEF Closed, NewDebouncer, Counted
  <1>5. CASE Elsewhere \/ UNCHANGED vars \/ Open \/ RenderPage
    BY <1>2, <1>5, ElsewhereKeeps DEF Open, RenderPage
  <1>6. CASE PowerLoss \/ (Exit /\ ~SavesOnExit)
    BY <1>4, <1>6 DEF PowerLoss, Exit
  <1>11. CASE Failing
    <2>1. faults' # 0
      BY <1>1, <1>11, FailingKeeps
    <2> QED
      BY <2>1 DEF Counted
  <1>7. ASSUME NEW metadataChanged \in BOOLEAN, NEW intervalOver \in BOOLEAN,
               ObserveShown(metadataChanged, intervalOver)
        PROVE  Counted'
    <2>1. faults' = faults /\ drawing # None /\ Settles
      BY <1>7 DEF ObserveShown
    <2>2. job["main"] \in {Idle, Leaving}
      BY <1>1, <2>1 DEF OneSaver
    <2>3. CASE job["main"] = Idle
      BY <1>7, <2>1, <2>3, ObserveCounts DEF Counted
    <2>4. CASE job["main"] = Leaving
      <3>1. job' = job \/ Begin("render", pos, "stay", 0)
        BY <1>7 DEF ObserveShown
      <3>2. pos \in Positions
        BY <1>1 DEF Types, PlaceTypes
      <3>3. job'["main"] = Leaving
        BY <1>1, <2>4, <3>1, <3>2, JobAfter, PositionFacts DEF Thens
      <3>4. faults = 0 => behind' = 0
        BY <2>1, <2>4, ObserveLeaving
      <3>5. Leaving # Idle
        OBVIOUS
      <3> QED
        BY <1>1, <2>1, <3>3, <3>4, <3>5 DEF Counted
    <2> QED
      BY <2>2, <2>3, <2>4
  <1>8. CASE Restarting \/ SaveForHandOff
             \/ (Exit /\ SavesOnExit)
    <2>1. PICK a \in Actors, p \in Positions, then \in Thens, goal \in Positions : Begins(a, p, then, goal)
      BY <1>1, <1>8, BeginsAt
    <2>2. behind' = behind /\ faults' = faults
      BY <1>8 DEF Restarting, RestartForLowMemory, SaveForHandOff, Exit
    <2>3. job'[a] = [pc |-> "removeTmp", at |-> p, then |-> then, goal |-> goal]
      BY <1>1, <2>1, JobAfter DEF Begins
    <2> QED
      BY <1>3, <2>2, <2>3
  <1>9. CASE \E a \in Actors : SaveStep(a)
    <2>1. PICK a \in Actors : SaveStep(a)
      BY <1>9
    <2>2. job[a].pc # "idle"
      BY <1>1, <2>1, SavesOpen
    <2>3. CASE Goes(a)
      <3>1. PICK pc \in Programs \ {"idle"} : Step(a, pc)
        BY <2>3 DEF Goes
      <3>2. job'[a].pc = pc
        BY <1>1, <3>1, JobAfter
      <3> QED
        BY <1>3, <2>3, <3>1, <3>2 DEF Goes, Continues
    <2>4. CASE Ended(a, FALSE)
      <3>1. faults' = faults + 1
        BY <2>4, FailsByFault
      <3> QED
        BY <1>1, <3>1 DEF Counted
    <2>5. CASE Ended(a, TRUE)
      <3>1. Closed \/ (Stays(a, TRUE) /\ job[a].then \notin {"close", "restart"}
                          /\ stored' = {job[a].at})
        BY <1>1, <2>5, EndShape DEF Ended, OneSaver
      <3>2. CASE Stays(a, TRUE) /\ job[a].then \notin {"close", "restart"}
                          /\ stored' = {job[a].at}
        <4>1. behind' = 0 /\ deb' = Persisted(job[a].at) /\ lastSaved' \in {job[a].at, None}
          BY <3>2 DEF Stays
        \* The main task only saves here to leave the reader.
        <4>2. CASE a = "main"
          <5>1. job'["main"] = Leaving
            <6>1. job["main"].then = "leave" /\ "main" \in DOMAIN job
              BY <1>1, <2>2, <3>2, <4>2 DEF OneSaver, JobTypes
            <6>2. PICK leaves \in BOOLEAN :
                      /\ job["main"].then = "leave" => leaves
                      /\ job' = [job EXCEPT !["main"] = IF leaves THEN Leaving ELSE Idle]
              BY <3>2, <4>2 DEF Stays
            <6> QED
              BY <6>1, <6>2
          <5> QED
            BY <1>1, <4>1, <5>1 DEF Counted
        \* The render task saves what the debouncer saw last.
        <4>3. CASE a = "render"
          <5>1. job[a].at = deb.last
            BY <1>1, <2>2, <3>2, <4>3 DEF OneSaver, Saving
          <5>2. deb' = [initialized |-> TRUE, last |-> job[a].at, changes |-> 0, pending |-> FALSE]
            BY <4>1, <5>1 DEF Persisted
          <5>3. Counting(deb)'
            BY <1>1, <3>2, <4>1, <5>2 DEF Counting
          <5> QED
            BY <1>1, <4>1, <5>3 DEF Counted
        <4> QED
          BY <4>2, <4>3
      <3> QED
        BY <1>4, <3>1, <3>2
    <2> QED
      BY <1>1, <2>1, <2>3, <2>4, <2>5, GoingShape
  <1>10. Next => \/ Elsewhere \/ Failing \/ Open \/ RenderPage
                 \/ PowerLoss \/ (Exit /\ ~SavesOnExit)
                 \/ \E metadataChanged, intervalOver \in BOOLEAN :
                        ObserveShown(metadataChanged, intervalOver)
                 \/ Restarting
                 \/ SaveForHandOff
                 \/ (Exit /\ SavesOnExit)
                 \/ \E a \in Actors : SaveStep(a)
    BY Zenon DEF Next, Elsewhere, Failing, Restarting
  <1> QED
    BY <1>5, <1>6, <1>7, <1>8, <1>9, <1>10, <1>11

\* While no save fails and the saves of the two tasks do not overlap, no more new pages are shown
\* than PAGE_CHANGE_INTERVAL since the file held the page.  The interval must be more than one (it is ten): the debouncer never saves
\* at its first observation.
THEOREM LossBounded ==
    ASSUME Interval > 1
    PROVE  Spec /\ []Apart => []LossIsBounded
  <1>1. Init => CountInv
    <2> SUFFICES ASSUME Init PROVE CountInv
      OBVIOUS
    <2> USE DEF Init
    <2>1. PagedKept /\ Saving
      BY DEF PagedKept, Saving, NoFiles, LastIs
    <2>2. Remembered /\ Counted
      BY BookFacts DEF Remembered, Counted, NewDebouncer
    <2> QED
      BY <2>1, <2>2 DEF CountInv
  <1>2. ApartInv /\ CountInv /\ Apart' /\ [Next]_vars => CountInv'
    BY PagedKeptStep, SavingStep, RememberedStep, CountedStep DEF CountInv
  <1>3. ApartInv /\ CountInv => LossIsBounded
    BY DEF CountInv, Counted, LossIsBounded
  <1> QED
    BY <1>1, <1>2, <1>3, ApartInvariance, PTL DEF Spec
=============================================================================
