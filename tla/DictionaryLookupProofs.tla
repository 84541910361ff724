----------------------- MODULE DictionaryLookupProofs -----------------------
(***************************************************************************)
(* What DictionaryLookup's run checks for three controllers and two words, *)
(* for every set of either.                                                *)
(*                                                                         *)
(* The invariant follows the handshake: from the moment a controller is    *)
(* given to the worker until its result is published, it is the top        *)
(* screen's, and the main task either polls for the result or waits for    *)
(* the worker to let go.                                                   *)
(***************************************************************************)
EXTENDS DictionaryLookup, SequenceTheorems, TLAPS

StackOK ==
    /\ stack \in Seq(Controllers) /\ Len(stack) <= 2
    /\ \A i, j \in DOMAIN stack : stack[i] = stack[j] => i = j
CtlOK == ctl \in [Controllers -> Controller]
RestOK ==
    /\ main \in {"loop", "draining", "delay"} /\ choosing \in BOOLEAN
    /\ owner \in Controllers \cup {NoOne} /\ local \in Controllers \cup {NoOne}
    /\ notified \in BOOLEAN /\ worker \in Running \cup {"wait", "clear"}
ShownOK ==
    /\ shown \in [asked : Words \cup {NoWord}, found : Words \cup {NoWord},
                  picked : BOOLEAN, status : Status]
    /\ ShowsWhatWasAsked /\ SuggestionIsMarked

\* The notification, owner_ and what run() has read agree.
Handshake ==
    /\ worker = "wait" => (notified <=> owner # NoOne)
    /\ worker # "wait" => ~notified /\ owner # NoOne /\ local = owner
OwnerIsOpen == owner # NoOne => owner \in Open

\* A lookup has been handed over and its result is not published yet.
InFlight == owner # NoOne /\ worker # "clear"
Polled == ctl[Top].state = "LookingUp" /\ main # "delay" /\ ~ctl[Top].done
FlightIsTops == InFlight => stack # <<>> /\ owner = Top /\ (Polled \/ main = "draining")

Occupied ==
    /\ main # "loop" => stack # <<>>
    /\ choosing => stack # <<>> /\ main = "loop" /\ ctl[Top].state = "Idle"

ResultsFit ==
    \A c \in Controllers :
        /\ ctl[c].found \in {NoWord, ctl[c].word}
        /\ ctl[c].state \in {"LookingUp", "AltFormPrompt"} /\ ctl[c].picked
               => ctl[c].nextIsSuggestion

Inv ==
    /\ StackOK /\ CtlOK /\ RestOK /\ ShownOK
    /\ Handshake /\ OwnerIsOpen /\ FlightIsTops /\ Occupied /\ ResultsFit
-----------------------------------------------------------------------------
(* The stack of screens *)

\* The top of a stack is on it.
LEMMA TopIsOpen ==
    ASSUME StackOK, stack # <<>>
    PROVE  /\ Top \in Controllers /\ Top \in Open
           /\ Len(stack) \in Nat /\ Len(stack) >= 1
  <1>1. Len(stack) \in Nat /\ Len(stack) >= 1
    BY DEF StackOK
  <1>2. Len(stack) \in DOMAIN stack
    BY <1>1 DEF StackOK
  <1> QED BY <1>1, <1>2 DEF StackOK, Top, Open

\* While no lookup of the top screen is unfinished, none is in flight.
LEMMA NoneInFlight ==
    ASSUME Inv, main = "loop", ctl[Top].state # "LookingUp" \/ ctl[Top].done
    PROVE  ~InFlight
  BY DEF Inv, FlightIsTops, Polled
-----------------------------------------------------------------------------
(* Kinds of steps *)

\* Leaving the result of a lookup, or a prompt, for another state of the controller.
LEMMA LeaveKeepsInv ==
    ASSUME Inv, main = "loop", stack # <<>>, ~InFlight,
           NEW state \in LookupStates \ {"LookingUp"}, NEW mark \in BOOLEAN,
           state = "AltFormPrompt" => In("LookingUp") /\ mark = ctl[Top].nextIsSuggestion,
           Leave(state, mark),
           main' \in {"loop", "delay"}, choosing' \in BOOLEAN,
           choosing' => state = "Idle" /\ main' = "loop"
    PROVE  Inv'
  <1>1. Top \in Controllers
    BY TopIsOpen DEF Inv
  <1>2. Top' = Top /\ Open' = Open
    BY DEF Leave, Top, Open
  <1>3. ctl[Top] \in Controller
    BY <1>1 DEF Inv, CtlOK
  <1>4. /\ \A c \in Controllers \ {Top} : ctl'[c] = ctl[c]
        /\ ctl'[Top] = [ctl[Top] EXCEPT !.state = state, !.nextIsSuggestion = mark]
    BY <1>1 DEF Inv, CtlOK, Leave
  <1>5. StackOK' /\ OwnerIsOpen' /\ Handshake'
    BY <1>2 DEF Inv, StackOK, OwnerIsOpen, Handshake, Leave, workerVars
  <1>6. ctl'[Top] \in Controller
    BY <1>3, <1>4 DEF Controller
  <1>7. CtlOK'
    BY <1>1, <1>4, <1>6 DEF Inv, CtlOK, Leave
  <1>8. RestOK' /\ ShownOK'
    BY DEF Inv, RestOK, ShownOK, ShowsWhatWasAsked, SuggestionIsMarked, Leave, workerVars
  <1>9. FlightIsTops'
    BY DEF InFlight, FlightIsTops, Leave, workerVars
  <1>10. Occupied'
    BY <1>1, <1>2, <1>3, <1>4 DEF Controller, Occupied, Leave
  <1>11. ResultsFit'
    <2>1. /\ ctl'[Top].found = ctl[Top].found /\ ctl'[Top].word = ctl[Top].word
          /\ ctl'[Top].picked = ctl[Top].picked
          /\ ctl'[Top].state = state /\ ctl'[Top].nextIsSuggestion = mark
      BY <1>3, <1>4 DEF Controller
    <2> QED BY <1>1, <1>4, <2>1 DEF Inv, ResultsFit, In
  <1> QED BY <1>5, <1>7, <1>8, <1>9, <1>10, <1>11 DEF Inv

LEMMA LeaveInPlace ==
    ASSUME Inv, main = "loop", stack # <<>>, ~choosing, ~InFlight,
           NEW state \in LookupStates \ {"LookingUp"}, NEW mark \in BOOLEAN,
           state = "AltFormPrompt" => In("LookingUp") /\ mark = ctl[Top].nextIsSuggestion,
           Leave(state, mark), UNCHANGED <<main, choosing>>
    PROVE  Inv'
  <1>1. main' \in {"loop", "delay"} /\ choosing' \in BOOLEAN /\ ~choosing'
    BY DEF Inv, RestOK
  <1> QED BY <1>1, LeaveKeepsInv

\* Starting a lookup, of a word the reader chose or of one from the suggestions.
LEMMA BeginKeepsInv ==
    ASSUME Inv, main = "loop", stack # <<>>, ~InFlight,
           NEW w \in Words, NEW picked \in BOOLEAN,
           Begin(w, picked), choosing' = FALSE
    PROVE  Inv'
  <1>1. Top \in Controllers /\ Top \in Open
    BY TopIsOpen DEF Inv
  <1>2. Top' = Top /\ Open' = Open /\ stack' = stack
    BY DEF Begin, Top, Open
  <1>3. ctl[Top] \in Controller
    BY <1>1 DEF Inv, CtlOK
  <1>4. /\ \A c \in Controllers \ {Top} : ctl'[c] = ctl[c]
        /\ ctl'[Top] = Started(ctl[Top], w, picked)
    BY <1>1 DEF Inv, CtlOK, Begin
  <1>5. /\ ctl'[Top] \in Controller
        /\ ctl'[Top].state = "LookingUp" /\ ~ctl'[Top].done
        /\ ctl'[Top].found = NoWord
        /\ ctl'[Top].picked = picked
        /\ picked => ctl'[Top].nextIsSuggestion
    <2> DEFINE k == [ctl[Top] EXCEPT !.nextIsSuggestion =
                       ctl[Top].nextIsSuggestion \/ picked]
    <2>1. (ctl[Top].nextIsSuggestion \/ picked) \in BOOLEAN
      OBVIOUS
    <2>2. k \in Controller /\ (picked => k.nextIsSuggestion)
      BY <1>3, <2>1 DEF Controller
    <2>3. ctl'[Top] = Reset(k, w, picked)
      BY <1>4 DEF Started
    <2> HIDE DEF k
    <2>4. Reset(k, w, picked) \in Controller
      BY <2>2 DEF Controller, Reset, LookupStates
    <2>5. /\ Reset(k, w, picked).state = "LookingUp" /\ ~Reset(k, w, picked).done
          /\ Reset(k, w, picked).found = NoWord
      BY <2>2 DEF Controller, Reset
    <2>6. /\ Reset(k, w, picked).picked = picked
          /\ Reset(k, w, picked).nextIsSuggestion = k.nextIsSuggestion
      BY <2>2 DEF Controller, Reset
    <2> QED BY <2>2, <2>3, <2>4, <2>5, <2>6
  <1>6. StackOK'
    BY <1>2 DEF Inv, StackOK
  <1>7. CtlOK'
    BY <1>1, <1>4, <1>5 DEF Inv, CtlOK, Begin
  <1>8. RestOK'
    BY <1>1 DEF Inv, RestOK, Begin, WorkerFree
  <1>9. ShownOK'
    BY DEF ShownOK, ShowsWhatWasAsked, SuggestionIsMarked, Begin, Nothing, Status
  <1>10. Handshake' /\ OwnerIsOpen'
    BY <1>1, <1>2, LookupAssumption
       DEF Inv, Handshake, OwnerIsOpen, Begin, WorkerFree, InFlight, RestOK
  <1>11. FlightIsTops'
    BY <1>2, <1>5 DEF Inv, InFlight, FlightIsTops, Polled, Begin, WorkerFree
  <1>12. Occupied'
    BY <1>2 DEF Occupied
  <1>13. ResultsFit'
    BY <1>1, <1>4, <1>5 DEF Inv, ResultsFit
  <1> QED BY <1>6, <1>7, <1>8, <1>9, <1>10, <1>11, <1>12, <1>13 DEF Inv

\* Delivering a definition, in place or on a screen of its own.
LEMMA DeliverKeepsInv ==
    ASSUME Inv, main = "loop", ~choosing, stack # <<>>, ~InFlight,
           ctl[Top].state \in {"LookingUp", "AltFormPrompt"},
           NEW status \in Status,
           Deliver(ctl[Top].word, status)
    PROVE  Inv'
  <1>1. Top \in Controllers /\ Top \in Open /\ Len(stack) \in Nat
    BY TopIsOpen DEF Inv
  <1>2. ctl[Top] \in Controller
    BY <1>1 DEF Inv, CtlOK
  <1>3. /\ \A c \in Controllers \ {Top} : ctl'[c] = ctl[c]
        /\ ctl'[Top] = [ctl[Top] EXCEPT !.state = "Idle", !.found = ctl[Top].word,
                                        !.nextIsSuggestion = FALSE]
    BY <1>1 DEF Inv, CtlOK, Deliver
  <1>4. ctl'[Top] \in Controller /\ ctl'[Top].state = "Idle"
        /\ ctl'[Top].found = ctl'[Top].word
    BY <1>2, <1>3 DEF Controller, LookupStates
  <1>5. CtlOK'
    BY <1>1, <1>3, <1>4 DEF Inv, CtlOK, Deliver
  <1>6. ResultsFit'
    BY <1>1, <1>3, <1>4 DEF Inv, ResultsFit
  <1>7. StackOK' /\ (Open \subseteq Open')
    <2>1. CASE stack' = stack
      BY <2>1 DEF Inv, StackOK, Open
    <2>2. CASE \E c \in Controllers \ Open : PushesDefinition /\ stack' = Append(stack, c)
      <3>1. PICK c \in Controllers \ Open : Len(stack) = 1 /\ stack' = Append(stack, c)
        BY <2>2 DEF PushesDefinition
      <3>2. /\ stack' \in Seq(Controllers) /\ Len(stack') = 2
            /\ stack'[1] = stack[1] /\ stack'[2] = c
        <4>1. stack \in Seq(Controllers) /\ c \in Controllers
          BY DEF Inv, StackOK
        <4>2. /\ Append(stack, c) \in Seq(Controllers)
              /\ Len(Append(stack, c)) = Len(stack) + 1
          BY <4>1, AppendProperties
        <4>3. Append(stack, c)[1] = stack[1] /\ Append(stack, c)[2] = c
          <5>1. /\ \A i \in 1 .. Len(stack) : Append(stack, c)[i] = stack[i]
                /\ Append(stack, c)[Len(stack) + 1] = c
            BY <4>1, AppendProperties
          <5>2. Len(stack) = 1
            BY <3>1
          <5> QED BY <5>1, <5>2
        <4> QED BY <3>1, <4>2, <4>3
      <3>3. stack[1] \in Open /\ Open = {stack[1]} /\ c # stack[1]
        BY <3>1 DEF Inv, StackOK, Open
      <3>4. DOMAIN stack' = {1, 2}
        BY <3>2
      <3> QED BY <3>2, <3>3, <3>4 DEF StackOK, Open
    <2> QED BY <2>1, <2>2 DEF Deliver
  <1>8. OwnerIsOpen' /\ Handshake' /\ RestOK' /\ FlightIsTops' /\ Occupied'
    BY <1>7 DEF Inv, OwnerIsOpen, Handshake, RestOK, FlightIsTops, Occupied, InFlight,
                Deliver, workerVars
  <1>9. ShownOK'
    <2>1. shown' = [asked |-> ctl[Top].word, found |-> ctl[Top].word,
                    picked |-> ctl[Top].picked,
                    status |-> IF ctl[Top].nextIsSuggestion THEN "Suggestion" ELSE status]
      BY DEF Deliver
    <2>2. ctl[Top].picked => ctl[Top].nextIsSuggestion
      BY <1>1 DEF Inv, ResultsFit
    <2>3. /\ ctl[Top].word \in Words \cup {NoWord} /\ ctl[Top].picked \in BOOLEAN
      BY <1>2 DEF Controller
    <2> QED BY <2>1, <2>2, <2>3 DEF ShownOK, ShowsWhatWasAsked, SuggestionIsMarked, Status
  <1> QED BY <1>5, <1>6, <1>7, <1>8, <1>9 DEF Inv

\* handleLookupFailed()
LEMMA LookupFailedKeepsInv ==
    ASSUME Inv, main = "loop", ~choosing, stack # <<>>, ~InFlight, LookupFailed
    PROVE  Inv'
  <1>1. ctl[Top].nextIsSuggestion \in BOOLEAN
    BY TopIsOpen DEF Inv, CtlOK, Controller
  <1>2. CASE Leave("NotFound", FALSE) /\ UNCHANGED <<main, choosing>>
    BY <1>2, LeaveKeepsInv DEF LookupStates, Inv, RestOK
  <1>3. CASE /\ Leave("Idle", ctl[Top].nextIsSuggestion)
             /\ choosing' = TRUE /\ UNCHANGED main
    BY <1>1, <1>3, LeaveKeepsInv DEF LookupStates
  <1>4. CASE Leave("Idle", FALSE) /\ main' = "delay" /\ UNCHANGED choosing
    BY <1>4, LeaveKeepsInv DEF LookupStates, Inv, RestOK
  <1> QED BY <1>2, <1>3, <1>4 DEF LookupFailed
-----------------------------------------------------------------------------
(* The steps *)

LEMMA InitInv == Init => Inv
  <1> SUFFICES ASSUME Init PROVE Inv
    OBVIOUS
  <1>1. stack \in Seq(Controllers) /\ Len(stack) = 0
    BY DEF Init
  <1>2. StackOK
    BY <1>1 DEF StackOK
  <1>3. CtlOK
    BY DEF Init, CtlOK, New, Controller, LookupStates
  <1>4. ShownOK
    BY DEF Init, Nothing, ShownOK, Status, ShowsWhatWasAsked, SuggestionIsMarked
  <1>5. RestOK /\ Handshake /\ OwnerIsOpen /\ FlightIsTops /\ Occupied
    BY DEF Init, RestOK, Handshake, OwnerIsOpen, FlightIsTops, InFlight, Occupied
  <1>6. ResultsFit
    BY DEF Init, ResultsFit, New
  <1> QED BY <1>2, <1>3, <1>4, <1>5, <1>6 DEF Inv

\* A step of the worker that sets no more than the flags and the result of its controller.
LEMMA WorkerKeepsInv ==
    ASSUME Inv, worker \in Running,
           ctl' \in [Controllers -> Controller],
           \A c \in Controllers \ {local} : ctl'[c] = ctl[c],
           ctl'[local].state = ctl[local].state, ctl'[local].word = ctl[local].word,
           ctl'[local].picked = ctl[local].picked,
           ctl'[local].nextIsSuggestion = ctl[local].nextIsSuggestion,
           ctl'[local].found \in {NoWord, ctl[local].word},
           ctl'[local].done => ctl[local].done \/ worker' = "clear",
           worker' \in Running \cup {"clear"},
           UNCHANGED <<stack, main, choosing, owner, notified, local, shown>>
    PROVE  Inv'
  <1>1. worker # "wait" /\ worker # "clear"
    BY DEF Running
  <1>2. owner # NoOne /\ local = owner /\ InFlight /\ stack # <<>> /\ local = Top
    BY <1>1 DEF Inv, Handshake, FlightIsTops, InFlight
  <1>3. Top' = Top /\ Open' = Open /\ Top \in Controllers
    BY <1>2, TopIsOpen DEF Inv, Top, Open
  <1>4. StackOK' /\ CtlOK' /\ RestOK' /\ ShownOK'
    BY DEF Inv, StackOK, CtlOK, RestOK, ShownOK, ShowsWhatWasAsked, SuggestionIsMarked
  <1>5. Handshake' /\ OwnerIsOpen'
    BY <1>1, <1>2, <1>3 DEF Inv, Handshake, OwnerIsOpen, Running
  <1>6. FlightIsTops'
    BY <1>2, <1>3 DEF Inv, FlightIsTops, InFlight, Polled
  <1>7. Occupied'
    BY <1>2, <1>3 DEF Inv, Occupied
  <1>8. ResultsFit'
    BY <1>2, <1>3 DEF Inv, ResultsFit
  <1> QED BY <1>4, <1>5, <1>6, <1>7, <1>8 DEF Inv

LEMMA WorkerStepKeepsInv ==
    ASSUME Inv, WorkerStep
    PROVE  Inv'
  <1>1. CASE Wake
    <2>1. Top' = Top /\ Open' = Open
      BY <1>1 DEF Wake, Top, Open
    <2>2. owner # NoOne /\ worker' = "prepare" /\ worker = "wait"
      BY <1>1 DEF Inv, Handshake, Wake
    <2>3. StackOK' /\ CtlOK' /\ RestOK' /\ ShownOK'
      BY <1>1, <2>2 DEF Wake, Inv, StackOK, CtlOK, RestOK, ShownOK, ShowsWhatWasAsked,
                        SuggestionIsMarked, Running
    <2>4. Handshake' /\ OwnerIsOpen'
      BY <1>1, <2>1, <2>2 DEF Wake, Inv, Handshake, OwnerIsOpen
    <2>5. FlightIsTops' /\ Occupied' /\ ResultsFit'
      BY <1>1, <2>1, <2>2 DEF Wake, Inv, FlightIsTops, InFlight, Polled, Occupied, ResultsFit
    <2> QED BY <2>3, <2>4, <2>5 DEF Inv
  <1>2. CASE Clear
    <2>1. Top' = Top /\ Open' = Open
      BY <1>2 DEF Clear, Top, Open
    <2>2. StackOK' /\ CtlOK' /\ RestOK' /\ ShownOK'
      BY <1>2 DEF Clear, Inv, StackOK, CtlOK, RestOK, ShownOK, ShowsWhatWasAsked,
                  SuggestionIsMarked
    <2>3. Handshake' /\ OwnerIsOpen' /\ FlightIsTops'
      BY <1>2 DEF Clear, Inv, Handshake, OwnerIsOpen, FlightIsTops, InFlight
    <2>4. Occupied' /\ ResultsFit'
      BY <1>2, <2>1 DEF Clear, Inv, Occupied, ResultsFit
    <2> QED BY <2>2, <2>3, <2>4 DEF Inv
  <1>3. CASE worker \in Running /\ (Prepare \/ Locate \/ Settle \/ Publish)
    <2>1. local \in Controllers /\ ctl[local] \in Controller
      BY <1>3, LookupAssumption, TopIsOpen
         DEF Inv, Handshake, RestOK, CtlOK, Running
    <2>2. ctl[local].found \in {NoWord, ctl[local].word}
      BY <2>1 DEF Inv, ResultsFit
    <2>3. /\ ctl[local].cancelRequested \in BOOLEAN
          /\ ctl[local].word \in Words \cup {NoWord}
      BY <2>1 DEF Controller
    <2>4. CASE Prepare
      <3>1. CASE ctl' = [ctl EXCEPT ![local].cancelled = TRUE] /\ worker' = "publish"
        BY <1>3, <2>1, <2>2, <2>4, <3>1, WorkerKeepsInv
           DEF Prepare, Inv, CtlOK, Controller, Running
      <3>2. CASE worker' = "locate" /\ UNCHANGED ctl
        <4>1. worker' \in Running \cup {"clear"} /\ ctl' = ctl
              /\ ctl' \in [Controllers -> Controller]
          BY <3>2 DEF Running, Inv, CtlOK
        <4>2. UNCHANGED <<stack, main, choosing, owner, notified, local, shown>>
          BY <2>4 DEF Prepare
        <4> QED BY <1>3, <2>2, <4>1, <4>2, WorkerKeepsInv
      <3> QED BY <2>4, <3>1, <3>2 DEF Prepare
    <2>5. CASE Locate
      <3>1. PICK found \in {ctl[local].word, NoWord}, error \in BOOLEAN :
              ctl' = [ctl EXCEPT ![local].found = found, ![local].readError = error]
        BY <2>5 DEF Locate
      <3>2. /\ ctl'[local] = [ctl[local] EXCEPT !.found = found, !.readError = error]
            /\ \A c \in Controllers \ {local} : ctl'[c] = ctl[c]
        BY <2>1, <3>1 DEF Inv, CtlOK
      <3>3. ctl'[local] \in Controller
        BY <2>1, <2>3, <3>2 DEF Controller
      <3>4. ctl' \in [Controllers -> Controller]
        BY <2>1, <3>1, <3>2, <3>3 DEF Inv, CtlOK
      <3>5. /\ ctl'[local].state = ctl[local].state /\ ctl'[local].word = ctl[local].word
            /\ ctl'[local].picked = ctl[local].picked
            /\ ctl'[local].nextIsSuggestion = ctl[local].nextIsSuggestion
            /\ ctl'[local].found = found /\ ctl'[local].done = ctl[local].done
        BY <2>1, <3>2 DEF Controller
      <3>6. worker' \in Running \cup {"clear"}
            /\ UNCHANGED <<stack, main, choosing, owner, notified, local, shown>>
        BY <2>5 DEF Locate, Running
      <3> QED BY <1>3, <3>2, <3>4, <3>5, <3>6, WorkerKeepsInv
    <2>6. CASE Settle
      BY <1>3, <2>1, <2>2, <2>3, <2>6, WorkerKeepsInv DEF Settle, Inv, CtlOK, Controller, Running
    <2>7. CASE Publish
      BY <1>3, <2>1, <2>2, <2>7, WorkerKeepsInv DEF Publish, Inv, CtlOK, Controller, Running
    <2> QED BY <1>3, <2>4, <2>5, <2>6, <2>7
  <1> QED BY <1>1, <1>2, <1>3 DEF WorkerStep, Prepare, Locate, Settle, Publish, Running
\* Acting on a finished lookup.
LEMMA AnswerKeepsInv ==
    ASSUME Inv, Answer
    PROVE  Inv'
  <1>1. /\ main = "loop" /\ stack # <<>> /\ ~choosing
        /\ In("LookingUp") /\ ctl[Top].state = "LookingUp" /\ ctl[Top].done
    BY DEF Answer, AnswerCancelled, AnswerFound, AnswerUnread, AnswerMissing, Answered, In, Looping
  <1>2. ~InFlight
    BY <1>1, NoneInFlight
  <1>3. ctl[Top].found \in {NoWord, ctl[Top].word} /\ ctl[Top].nextIsSuggestion \in BOOLEAN
    BY <1>1, TopIsOpen DEF Inv, ResultsFit, CtlOK, Controller
  <1>a. {"Idle", "NotFound", "ReadError", "AltFormPrompt"} \subseteq LookupStates \ {"LookingUp"}
    BY DEF LookupStates
  <1>4. CASE Leave("Idle", FALSE) /\ UNCHANGED <<main, choosing>>
    BY <1>1, <1>2, <1>a, <1>4, LeaveInPlace
  <1>5. CASE ctl[Top].found # NoWord /\ Deliver(ctl[Top].found, "Direct")
    BY <1>1, <1>2, <1>3, <1>5, DeliverKeepsInv DEF Status
  <1>6. CASE Leave("ReadError", FALSE) /\ UNCHANGED <<main, choosing>>
    BY <1>1, <1>2, <1>a, <1>6, LeaveInPlace
  <1>7. CASE /\ Leave("AltFormPrompt", ctl[Top].nextIsSuggestion)
             /\ UNCHANGED <<main, choosing>>
    BY <1>1, <1>2, <1>3, <1>a, <1>7, LeaveInPlace
  <1>8. CASE LookupFailed
    BY <1>1, <1>2, <1>8, LookupFailedKeepsInv
  <1> QED BY <1>4, <1>5, <1>6, <1>7, <1>8
          DEF Answer, AnswerCancelled, AnswerFound, AnswerUnread, AnswerMissing

\* The user's answers to a prompt, a popup or the list of suggestions.
LEMMA InputKeepsInv ==
    ASSUME Inv,
           AcceptAltForm \/ DeclineAltForm \/ Dismiss \/ LeaveSuggestions
             \/ \E w \in Words : StartLookup(w) \/ PickSuggestion(w)
    PROVE  Inv'
  <1>1. /\ main = "loop" /\ stack # <<>>
        /\ choosing => ctl[Top].state = "Idle"
        /\ ctl[Top].state # "LookingUp"
    BY DEF AcceptAltForm, DeclineAltForm, Dismiss, LeaveSuggestions, StartLookup,
           PickSuggestion, In, Looping, Inv, Occupied
  <1>2. ~InFlight
    BY <1>1, NoneInFlight
  <1>3. ctl[Top].nextIsSuggestion \in BOOLEAN
    BY <1>1, TopIsOpen DEF Inv, CtlOK, Controller
  <1>a. {"Idle", "NotFound"} \subseteq LookupStates \ {"LookingUp"}
    BY DEF LookupStates
  <1>4. CASE AcceptAltForm
    <2>1. ctl[Top].state = "AltFormPrompt" /\ ~choosing
      BY <1>4 DEF AcceptAltForm, In, Looping
    <2> QED BY <1>1, <1>2, <1>4, <2>1, LookupFailedKeepsInv, DeliverKeepsInv
            DEF AcceptAltForm, Status
  <1>5. CASE DeclineAltForm
    <2>1. ~choosing /\ Leave("Idle", FALSE) /\ UNCHANGED <<main, choosing>>
      BY <1>5 DEF DeclineAltForm, In, Looping
    <2> QED BY <1>1, <1>2, <1>a, <2>1, LeaveInPlace
  <1>6. CASE Dismiss
    <2>1. /\ ~choosing /\ Leave("Idle", ctl[Top].nextIsSuggestion)
          /\ UNCHANGED <<main, choosing>>
      BY <1>6 DEF Dismiss, In, Looping
    <2> QED BY <1>1, <1>2, <1>3, <1>a, <2>1, LeaveInPlace
  <1>7. CASE LeaveSuggestions
    <2>1. /\ Leave("NotFound", ctl[Top].nextIsSuggestion)
          /\ main' = "loop" /\ choosing' = FALSE
      BY <1>1, <1>7 DEF LeaveSuggestions
    <2> QED BY <1>1, <1>2, <1>3, <1>a, <2>1, LeaveKeepsInv
  <1>8. ASSUME NEW w \in Words, StartLookup(w) \/ PickSuggestion(w)
        PROVE  Inv'
    <2>1. CASE StartLookup(w)
      <3>1. Begin(w, FALSE) /\ choosing' = FALSE
        BY <2>1 DEF StartLookup, In, Looping, Inv, RestOK
      <3> QED BY <1>1, <1>2, <3>1, BeginKeepsInv
    <2>2. CASE PickSuggestion(w)
      <3>1. Begin(w, TRUE) /\ choosing' = FALSE
        BY <2>2 DEF PickSuggestion
      <3> QED BY <1>1, <1>2, <3>1, BeginKeepsInv
    <2> QED BY <1>8, <2>1, <2>2
  <1> QED BY <1>4, <1>5, <1>6, <1>7, <1>8

\* A step that sets flags of the top controller alone, or makes it idle.
LEMMA MarkKeepsInv ==
    ASSUME Inv, stack # <<>>, UNCHANGED <<stack, owner, notified, worker, local, shown>>,
           NEW k \in Controller, ctl' = [ctl EXCEPT ![Top] = k],
           k.found = ctl[Top].found, k.word = ctl[Top].word, k.picked = ctl[Top].picked,
           k.nextIsSuggestion = ctl[Top].nextIsSuggestion, k.done = ctl[Top].done,
           \/ k.state = ctl[Top].state
           \/ k.state = "Idle" /\ main = "delay",
           \/ main = main' /\ choosing' = choosing
           \/ main' \in {"loop", "draining"} /\ choosing' = FALSE,
           main = "draining" => main' = "draining"
    PROVE  Inv'
  <1>1. Top \in Controllers /\ Top' = Top /\ Open' = Open
    BY TopIsOpen DEF Inv, Top, Open
  <1>2. ctl'[Top] = k /\ \A c \in Controllers \ {Top} : ctl'[c] = ctl[c]
    BY <1>1 DEF Inv, CtlOK
  <1>3. CtlOK' /\ StackOK' /\ ShownOK' /\ RestOK'
    BY <1>1 DEF Inv, CtlOK, StackOK, ShownOK, RestOK, ShowsWhatWasAsked, SuggestionIsMarked
  <1>4. Handshake' /\ OwnerIsOpen'
    BY <1>1 DEF Inv, Handshake, OwnerIsOpen
  <1>5. FlightIsTops'
    BY <1>1, <1>2 DEF Inv, FlightIsTops, InFlight, Polled
  <1>6. Occupied'
    BY <1>1, <1>2 DEF Inv, Occupied
  <1>7. ResultsFit'
    BY <1>1, <1>2 DEF Inv, ResultsFit
  <1> QED BY <1>3, <1>4, <1>5, <1>6, <1>7 DEF Inv

\* Opening the first screen.
LEMMA OpenKeepsInv ==
    ASSUME Inv, NEW c \in Controllers, OpenScreen(c)
    PROVE  Inv'
  <1>1. stack = <<>> /\ stack' = <<c>> /\ main = "loop" /\ ~choosing
    BY DEF OpenScreen, Inv, Occupied
  <1>2. owner = NoOne
    BY <1>1 DEF Inv, OwnerIsOpen, Open
  <1>3. StackOK'
    BY <1>1 DEF StackOK
  <1>4. CtlOK' /\ RestOK' /\ ShownOK' /\ ResultsFit'
    BY DEF OpenScreen, workerVars, Inv, CtlOK, RestOK, ShownOK, ShowsWhatWasAsked,
           SuggestionIsMarked, ResultsFit
  <1>5. Handshake' /\ OwnerIsOpen' /\ FlightIsTops' /\ Occupied'
    BY <1>1, <1>2 DEF OpenScreen, workerVars, Inv, Handshake, OwnerIsOpen, FlightIsTops,
                      InFlight, Occupied
  <1> QED BY <1>3, <1>4, <1>5 DEF Inv

\* Destroying a screen once the worker has let go of its controller.
LEMMA DestroyKeepsInv ==
    ASSUME Inv, Destroy
    PROVE  Inv'
  <1>1. /\ stack # <<>> /\ main = "draining" /\ owner # Top /\ ~choosing
        /\ main' = "loop" /\ ctl' = [ctl EXCEPT ![Top] = New]
        /\ stack' = SubSeq(stack, 1, Len(stack) - 1)
        /\ UNCHANGED <<choosing, owner, notified, worker, local, shown>>
    BY DEF Destroy, Drained, Inv, Occupied, workerVars
  <1>2. Top \in Controllers /\ Len(stack) \in Nat /\ Len(stack) >= 1
    BY <1>1, TopIsOpen DEF Inv
  <1>3. ~InFlight
    BY <1>1 DEF Inv, FlightIsTops
  <1>4. /\ stack' \in Seq(Controllers) /\ Len(stack') = Len(stack) - 1
        /\ \A i \in 1 .. Len(stack) - 1 : stack'[i] = stack[i]
    <2> DEFINE n == Len(stack) - 1
    <2>1. n \in Int /\ \A i \in 1 .. n : stack[i] \in Controllers
      BY <1>2 DEF Inv, StackOK
    <2>2. /\ SubSeq(stack, 1, n) \in Seq(Controllers)
          /\ Len(SubSeq(stack, 1, n)) = IF 1 <= n THEN n - 1 + 1 ELSE 0
          /\ \A i \in 1 .. n - 1 + 1 : SubSeq(stack, 1, n)[i] = stack[1 + i - 1]
      <3> HIDE DEF n
      <3> QED BY <2>1, SubSeqProperties
    <2>3. \A i \in 1 .. n : 1 + i - 1 = i
      BY <2>1
    <2>4. n - 1 + 1 = n /\ n >= 0
      BY <1>2
    <2>5. stack' = SubSeq(stack, 1, n)
      BY <1>1
    <2>6. Len(stack') = n
      BY <2>2, <2>4, <2>5
    <2>7. \A i \in 1 .. n : stack'[i] = stack[i]
      <3> HIDE DEF n
      <3> QED BY <2>1, <2>2, <2>3, <2>4, <2>5
    <2> QED BY <2>2, <2>5, <2>6, <2>7
  <1>5. StackOK'
    BY <1>2, <1>4 DEF Inv, StackOK
  <1>6. Open \ {Top} \subseteq Open'
    <2>1. DOMAIN stack = 1 .. Len(stack) /\ DOMAIN stack' = 1 .. Len(stack')
      BY <1>4 DEF Inv, StackOK
    <2> QED BY <1>2, <1>4, <2>1 DEF Open, Top
  <1>7. CtlOK' /\ RestOK' /\ ShownOK' /\ ResultsFit'
    <2>1. New \in Controller
      BY DEF New, Controller, LookupStates
    <2>2. ctl'[Top] = New /\ \A c \in Controllers \ {Top} : ctl'[c] = ctl[c]
      BY <1>1, <1>2 DEF Inv, CtlOK
    <2>3. CtlOK'
      BY <1>1, <1>2, <2>1 DEF Inv, CtlOK
    <2>4. ResultsFit'
      BY <1>2, <2>2 DEF Inv, ResultsFit, New
    <2> QED BY <1>1, <2>3, <2>4 DEF Inv, RestOK, ShownOK, ShowsWhatWasAsked, SuggestionIsMarked
  <1>8. Handshake' /\ OwnerIsOpen' /\ FlightIsTops' /\ Occupied'
    BY <1>1, <1>3, <1>6 DEF Inv, Handshake, OwnerIsOpen, FlightIsTops, InFlight, Occupied
  <1> QED BY <1>5, <1>7, <1>8 DEF Inv

LEMMA StepKeepsInv ==
    ASSUME Inv, [Next]_vars
    PROVE  Inv'
  <1>1. CASE WorkerStep
    BY <1>1, WorkerStepKeepsInv
  <1>2. CASE Answer
    BY <1>2, AnswerKeepsInv
  <1>3. CASE AcceptAltForm \/ DeclineAltForm \/ Dismiss \/ LeaveSuggestions
    BY <1>3, InputKeepsInv
  <1>4. ASSUME NEW w \in Words, StartLookup(w) \/ PickSuggestion(w)
        PROVE  Inv'
    BY <1>4, InputKeepsInv
  <1>5. ASSUME NEW c \in Controllers, OpenScreen(c)
        PROVE  Inv'
    BY <1>5, OpenKeepsInv
  <1>6. CASE Destroy
    BY <1>6, DestroyKeepsInv
  <1>7. CASE EndDelay \/ RequestCancel \/ ExitScreen
    <2>1. stack # <<>>
      BY <1>7 DEF EndDelay, RequestCancel, ExitScreen, In, Looping, Inv, Occupied
    <2>2. ctl[Top] \in Controller
      BY <2>1, TopIsOpen DEF Inv, CtlOK
    <2>3. CASE EndDelay
      <3> DEFINE k == [ctl[Top] EXCEPT !.state = "Idle"]
      <3>1. /\ k \in Controller /\ k.found = ctl[Top].found /\ k.word = ctl[Top].word
            /\ k.picked = ctl[Top].picked /\ k.nextIsSuggestion = ctl[Top].nextIsSuggestion
            /\ k.done = ctl[Top].done /\ k.state = "Idle"
        BY <2>2 DEF Controller, LookupStates
      <3>2. ctl' = [ctl EXCEPT ![Top] = k] /\ main = "delay" /\ main' = "loop"
            /\ UNCHANGED <<stack, choosing, owner, notified, worker, local, shown>>
        BY <2>3 DEF EndDelay, workerVars
      <3>3. choosing' = FALSE
        BY <3>2 DEF Inv, Occupied, RestOK
      <3> HIDE DEF k
      <3> QED BY <2>1, <3>1, <3>2, <3>3, MarkKeepsInv
    <2>4. CASE RequestCancel \/ ExitScreen
      <3> DEFINE k == [ctl[Top] EXCEPT !.cancelRequested = TRUE]
      <3>1. /\ k \in Controller /\ k.found = ctl[Top].found /\ k.word = ctl[Top].word
            /\ k.picked = ctl[Top].picked /\ k.nextIsSuggestion = ctl[Top].nextIsSuggestion
            /\ k.done = ctl[Top].done /\ k.state = ctl[Top].state
        BY <2>2 DEF Controller
      <3>2. /\ ctl' = [ctl EXCEPT ![Top] = k] /\ main = "loop"
            /\ UNCHANGED <<stack, owner, notified, worker, local, shown>>
            /\ \/ main' = main /\ choosing' = choosing
               \/ main' = "draining" /\ choosing' = FALSE
        BY <2>4 DEF RequestCancel, ExitScreen, In, Looping, workerVars
      <3> HIDE DEF k
      <3> QED BY <2>1, <3>1, <3>2, MarkKeepsInv
    <2> QED BY <1>7, <2>3, <2>4
  <1>8. CASE UNCHANGED vars
    <2>1. Top' = Top /\ Open' = Open
      BY <1>8 DEF vars, Top, Open
    <2> QED BY <1>8, <2>1
            DEF vars, Inv, StackOK, CtlOK, RestOK, ShownOK, ShowsWhatWasAsked,
                SuggestionIsMarked, Handshake, OwnerIsOpen, FlightIsTops, InFlight, Polled,
                Occupied, ResultsFit
  <1> QED BY <1>1, <1>2, <1>3, <1>4, <1>5, <1>6, <1>7, <1>8 DEF Next, MainStep
-----------------------------------------------------------------------------
(* The theorems *)

\* The invariant holds in every reachable state.
THEOREM Invariance == Spec => []Inv
  <1> QED BY InitInv, StepKeepsInv, PTL DEF Spec

\* The type invariant.
THEOREM TypeCorrect == Spec => []TypeOK
  <1>1. Inv => TypeOK
    BY DEF Inv, TypeOK, StackOK, CtlOK, RestOK, ShownOK
  <1> QED BY <1>1, Invariance, PTL

\* The shared worker never touches a controller that is gone, nor one created since at its
\* address.
THEOREM WorkerIsSafe == Spec => []NoUseAfterFree
  <1>1. Inv => NoUseAfterFree
    BY DEF Inv, NoUseAfterFree, Handshake, FlightIsTops, InFlight, OwnerIsOpen, Running
  <1> QED BY <1>1, Invariance, PTL

\* Between the hand-over and the result nobody else writes what the worker reads.
THEOREM LookupsAreUndisturbed == Spec => []LookupIsUndisturbed
  <1>1. Inv => LookupIsUndisturbed
    BY DEF Inv, LookupIsUndisturbed, Handshake, FlightIsTops, InFlight, Polled, Running
  <1> QED BY <1>1, Invariance, PTL

\* The definition shown is that of the word asked for.
THEOREM AnswersFit == Spec => []ShowsWhatWasAsked
  <1>1. Inv => ShowsWhatWasAsked
    BY DEF Inv, ShownOK
  <1> QED BY <1>1, Invariance, PTL

\* A picked suggestion is recorded as one.
THEOREM SuggestionsAreMarked == Spec => []SuggestionIsMarked
  <1>1. Inv => SuggestionIsMarked
    BY DEF Inv, ShownOK
  <1> QED BY <1>1, Invariance, PTL
=============================================================================
