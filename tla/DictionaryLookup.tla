--------------------------- MODULE DictionaryLookup ---------------------------
(***************************************************************************)
(* Looking a word up: the screens that offer it, each with a controller of *)
(* its own that lives as long as the screen, and the one worker task they  *)
(* share (util/DictionaryLookupController, util/DictionaryLookupWorker).   *)
(*                                                                         *)
(* A controller is named by its address, which a later one may be given    *)
(* again: the worker holds an address and nothing else. What the           *)
(* dictionary files answer is left open.                                   *)
(***************************************************************************)
EXTENDS Sequences, Integers

CONSTANTS
    Controllers,   \* addresses of controllers
    Words,         \* words
    NoOne,         \* no controller
    NoWord         \* no word

ASSUME LookupAssumption == NoOne \notin Controllers /\ NoWord \notin Words

LookupStates == {"Idle", "LookingUp", "AltFormPrompt", "NotFound", "ReadError"}
Status == {"Direct", "AltForm", "Suggestion"}
Running == {"prepare", "locate", "settle", "publish"}

VARIABLES
    stack,      \* the open screens' controllers, the last one on top
    ctl,        \* what is in each of them
    main,       \* the main task: "loop", "draining" in onExit(), "delay" in an error popup
    choosing,   \* whether the list of suggestions is on top of the last screen
    owner,      \* the worker's owner_
    notified,   \* whether it has been notified
    worker,     \* where it is
    local,      \* the owner it has read
    shown       \* observer: the definition delivered last

vars == <<stack, ctl, main, choosing, owner, notified, worker, local, shown>>
workerVars == <<owner, notified, worker, local>>

Top == stack[Len(stack)]
Open == {stack[i] : i \in DOMAIN stack}

New == [state |-> "Idle", word |-> NoWord, found |-> NoWord, nextIsSuggestion |-> FALSE,
        cancelRequested |-> FALSE, cancelled |-> FALSE, done |-> FALSE, readError |-> FALSE,
        picked |-> FALSE]   \* observer: the word was picked from the suggestions

Controller ==
    [state : LookupStates, word : Words \cup {NoWord}, found : Words \cup {NoWord},
     nextIsSuggestion : BOOLEAN, cancelRequested : BOOLEAN, cancelled : BOOLEAN,
     done : BOOLEAN, readError : BOOLEAN, picked : BOOLEAN]

Nothing == [asked |-> NoWord, found |-> NoWord, picked |-> FALSE, status |-> "Direct"]

Init ==
    /\ stack = <<>> /\ ctl = [c \in Controllers |-> New]
    /\ main = "loop" /\ choosing = FALSE
    /\ owner = NoOne /\ notified = FALSE /\ worker = "wait" /\ local = NoOne
    /\ shown = Nothing
-----------------------------------------------------------------------------
(* The worker task *)

\* ulTaskNotifyTake() and the read of owner_.
Wake ==
    /\ worker = "wait" /\ notified
    /\ notified' = FALSE /\ local' = owner
    /\ worker' = IF owner = NoOne THEN "wait" ELSE "prepare"
    /\ UNCHANGED <<stack, ctl, main, choosing, owner, shown>>

\* prepareQuickIndex(), and the cancellation it was asked for meanwhile.
Prepare ==
    /\ worker = "prepare"
    /\ IF ctl[local].cancelRequested
       THEN ctl' = [ctl EXCEPT ![local].cancelled = TRUE] /\ worker' = "publish"
       ELSE worker' = "locate" /\ UNCHANGED ctl
    /\ UNCHANGED <<stack, main, choosing, owner, notified, local, shown>>

\* locateWithStemVariants(): the word is found, or it is not, or the files cannot be read.
Locate ==
    /\ worker = "locate" /\ worker' = "settle"
    /\ \E found \in {ctl[local].word, NoWord}, error \in BOOLEAN :
         /\ error => found = NoWord
         /\ ctl' = [ctl EXCEPT ![local].found = found, ![local].readError = error]
    /\ UNCHANGED <<stack, main, choosing, owner, notified, local, shown>>

Settle ==
    /\ worker = "settle" /\ worker' = "publish"
    /\ ctl' = [ctl EXCEPT ![local].cancelled = ctl[local].cancelRequested]
    /\ UNCHANGED <<stack, main, choosing, owner, notified, local, shown>>

\* lookupDone: from here on the main task may act on the result.
Publish ==
    /\ worker = "publish" /\ worker' = "clear"
    /\ ctl' = [ctl EXCEPT ![local].done = TRUE]
    /\ UNCHANGED <<stack, main, choosing, owner, notified, local, shown>>

\* run() lets go of the controller.
Clear ==
    /\ worker = "clear" /\ worker' = "wait" /\ owner' = NoOne
    /\ local' = NoOne
    /\ UNCHANGED <<stack, ctl, main, choosing, notified, shown>>

WorkerStep == Wake \/ Prepare \/ Locate \/ Settle \/ Publish \/ Clear
-----------------------------------------------------------------------------
(* Lookups *)

\* Mutant: the result of the lookup before is left.
NotReset(k, w, picked) == [k EXCEPT !.state = "LookingUp", !.word = w, !.picked = picked]
\* What startLookup() sets.
Reset(k, w, picked) ==
    [k EXCEPT !.state = "LookingUp", !.word = w, !.picked = picked, !.found = NoWord,
              !.cancelRequested = FALSE, !.cancelled = FALSE, !.done = FALSE,
              !.readError = FALSE]

\* startLookup(), and startLookupAsSuggestion() for a word that was picked.
Started(k, w, picked) ==
    Reset([k EXCEPT !.nextIsSuggestion = k.nextIsSuggestion \/ picked], w, picked)

\* Mutant: the worker is not asked whether it is busy.
AlwaysFree == TRUE
WorkerFree == owner = NoOne

\* The worker is given the controller, or is busy with one: an error popup for a second.
Begin(w, picked) ==
    /\ ctl' = [ctl EXCEPT ![Top] = Started(ctl[Top], w, picked)]
    /\ IF WorkerFree
       THEN owner' = Top /\ notified' = TRUE /\ main' = main
       ELSE main' = "delay" /\ UNCHANGED <<owner, notified>>
    /\ shown' = Nothing
    /\ UNCHANGED <<stack, worker, local>>

Looping == main = "loop" /\ stack # <<>> /\ ~choosing
In(state) == Looping /\ ctl[Top].state = state

StartLookup(w) == In("Idle") /\ Begin(w, FALSE) /\ UNCHANGED choosing

\* showMemoryErrorAndReset()
EndDelay ==
    /\ main = "delay" /\ main' = "loop"
    /\ ctl' = [ctl EXCEPT ![Top].state = "Idle"]
    /\ UNCHANGED <<stack, choosing, workerVars, shown>>

\* Back while the worker is at it.
RequestCancel ==
    /\ In("LookingUp") /\ ~ctl[Top].done /\ ~ctl[Top].cancelRequested
    /\ ctl' = [ctl EXCEPT ![Top].cancelRequested = TRUE]
    /\ UNCHANGED <<stack, main, choosing, workerVars, shown>>

PushesDefinition == Len(stack) = 1

\* The other screens put a definition screen on top of themselves, memory permitting; a
\* definition screen shows the new word in place.
Deliver(found, status) ==
    LET k == ctl[Top]
        left == [ctl EXCEPT ![Top].state = "Idle", ![Top].found = found,
                            ![Top].nextIsSuggestion = FALSE]
    IN  /\ shown' = [asked |-> k.word, found |-> found, picked |-> k.picked,
                     status |-> IF k.nextIsSuggestion THEN "Suggestion" ELSE status]
        /\ \/ stack' = stack /\ ctl' = left
           \/ \E c \in Controllers \ Open :
                PushesDefinition /\ stack' = Append(stack, c) /\ ctl' = left
        /\ UNCHANGED <<main, choosing, workerVars>>

\* The controller is left in a state, with the mark for suggestions or without it.
Leave(state, mark) ==
    /\ ctl' = [ctl EXCEPT ![Top].state = state, ![Top].nextIsSuggestion = mark]
    /\ UNCHANGED <<stack, workerVars, shown>>

\* handleLookupFailed(): the list of similar words, if there are any and there is memory.
LookupFailed ==
    \/ Leave("NotFound", FALSE) /\ UNCHANGED <<main, choosing>>
    \/ Leave("Idle", ctl[Top].nextIsSuggestion) /\ choosing' = TRUE /\ UNCHANGED main
    \/ Leave("Idle", FALSE) /\ main' = "delay" /\ UNCHANGED choosing

\* Mutant: the flags are read before the worker has published.
AnsweredAtOnce == In("LookingUp")
Answered == In("LookingUp") /\ ctl[Top].done

\* handleInput() on a finished lookup.
AnswerCancelled ==
    /\ Answered /\ ctl[Top].cancelled
    /\ Leave("Idle", FALSE) /\ UNCHANGED <<main, choosing>>
AnswerFound ==
    /\ Answered /\ ~ctl[Top].cancelled /\ ctl[Top].found # NoWord
    /\ Deliver(ctl[Top].found, "Direct")
AnswerUnread ==
    /\ Answered /\ ~ctl[Top].cancelled /\ ctl[Top].found = NoWord /\ ctl[Top].readError
    /\ Leave("ReadError", FALSE) /\ UNCHANGED <<main, choosing>>
AnswerMissing ==
    /\ Answered /\ ~ctl[Top].cancelled /\ ctl[Top].found = NoWord /\ ~ctl[Top].readError
    /\ \/ Leave("AltFormPrompt", ctl[Top].nextIsSuggestion) /\ UNCHANGED <<main, choosing>>
       \/ LookupFailed
Answer == AnswerCancelled \/ AnswerFound \/ AnswerUnread \/ AnswerMissing

\* The alternative form is looked up by the main task itself.
AcceptAltForm == In("AltFormPrompt") /\ (LookupFailed \/ Deliver(ctl[Top].word, "AltForm"))
DeclineAltForm ==
    /\ In("AltFormPrompt")
    /\ Leave("Idle", FALSE) /\ UNCHANGED <<main, choosing>>

\* Done, back, or another dictionary.
Dismiss ==
    /\ In("NotFound") \/ In("ReadError")
    /\ Leave("Idle", ctl[Top].nextIsSuggestion) /\ UNCHANGED <<main, choosing>>

\* The suggestions' result handler.
PickSuggestion(w) ==
    /\ main = "loop" /\ choosing
    /\ choosing' = FALSE /\ Begin(w, TRUE)
LeaveSuggestions ==
    /\ main = "loop" /\ choosing
    /\ choosing' = FALSE /\ Leave("NotFound", ctl[Top].nextIsSuggestion) /\ UNCHANGED main
-----------------------------------------------------------------------------
(* Screens *)

OpenScreen(c) ==
    /\ main = "loop" /\ stack = <<>>
    /\ stack' = <<c>>
    /\ UNCHANGED <<ctl, main, choosing, workerVars, shown>>

\* onExit(): back, home or sleep, in whatever state the lookup is.
ExitScreen ==
    /\ main = "loop" /\ stack # <<>>
    /\ main' = "draining" /\ choosing' = FALSE
    /\ ctl' = [ctl EXCEPT ![Top].cancelRequested = TRUE]
    /\ UNCHANGED <<stack, workerVars, shown>>

\* Mutant: the wait is for lookupDone.
DrainedOnceDone == ctl[Top].done
\* waitForOwner()
Drained == owner # Top

\* The screen is destroyed, and its controller with it.
Destroy ==
    /\ main = "draining" /\ Drained
    /\ main' = "loop" /\ stack' = SubSeq(stack, 1, Len(stack) - 1)
    /\ ctl' = [ctl EXCEPT ![Top] = New]
    /\ UNCHANGED <<choosing, workerVars, shown>>

MainStep ==
    \/ \E c \in Controllers : OpenScreen(c)
    \/ \E w \in Words : StartLookup(w) \/ PickSuggestion(w)
    \/ EndDelay \/ RequestCancel \/ Answer
    \/ AcceptAltForm \/ DeclineAltForm \/ Dismiss \/ LeaveSuggestions
    \/ ExitScreen \/ Destroy

Next == WorkerStep \/ MainStep
Spec == Init /\ [][Next]_vars

\* The scheduler runs both tasks. The main task's loop never stops polling a lookup, waiting
\* for the worker or ending a popup; that the user does anything is not assumed.
FairSpec == Spec /\ WF_vars(WorkerStep) /\ WF_vars(Answer) /\ WF_vars(Destroy) /\ WF_vars(EndDelay)
-----------------------------------------------------------------------------
(* Properties *)

\* The type invariant: of the variables, and that no controller is on the stack twice.
TypeOK ==
    /\ stack \in Seq(Controllers) /\ Len(stack) <= 2
    /\ \A i, j \in DOMAIN stack : stack[i] = stack[j] => i = j
    /\ ctl \in [Controllers -> Controller]
    /\ main \in {"loop", "draining", "delay"} /\ choosing \in BOOLEAN
    /\ owner \in Controllers \cup {NoOne} /\ local \in Controllers \cup {NoOne}
    /\ notified \in BOOLEAN /\ worker \in Running \cup {"wait", "clear"}
    /\ shown \in [asked : Words \cup {NoWord}, found : Words \cup {NoWord},
                  picked : BOOLEAN, status : Status]

\* The worker never touches a controller that has been destroyed, nor one that has been
\* created at the same address since: while it runs, its controller is the top screen's, and
\* until it lets go of the address no other controller can have it.
NoUseAfterFree ==
    /\ worker \in Running => stack # <<>> /\ local = Top
    /\ owner # NoOne => owner \in Open

\* The word, the result and the flags belong to the worker until the result is published:
\* the main task has not moved on from this lookup, except to wait for its end.
LookupIsUndisturbed ==
    worker \in Running =>
        (ctl[local].state = "LookingUp" /\ main # "delay" /\ ~ctl[local].done) \/ main = "draining"

\* The definition on the screen is that of the word asked for last, never the result of an
\* earlier lookup.
ShowsWhatWasAsked == shown.found = shown.asked

\* A word picked from the suggestions is recorded as a suggestion however many prompts and
\* lists its lookup went through.
SuggestionIsMarked == shown.picked => shown.status = "Suggestion"

\* A lookup that was asked for ends: with an answer, or because the screen is left.
LookupEnds == \A c \in Controllers :
    (c \in Open /\ ctl[c].state = "LookingUp") ~> (c \notin Open \/ ctl[c].state # "LookingUp")

\* Leaving a screen is never stuck on the worker.
ExitReturns == main = "draining" ~> main = "loop"
=============================================================================
