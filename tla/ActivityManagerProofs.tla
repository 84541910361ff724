------------------------ MODULE ActivityManagerProofs ------------------------
(***************************************************************************)
(* Proofs about the activity manager, for every number of activity objects *)
(* and every length of a chain of navigations.  All of them rest on one    *)
(* inductive invariant, IInv, whose parts say who holds the mutex, who     *)
(* paints, what is queued, who owns which activity, and who wakes whom;    *)
(* what the last sections add to it stands there.                          *)
(***************************************************************************)
EXTENDS ActivityManager, SequenceTheorems, FiniteSetTheorems, TLAPS

\* The mutex is held exactly by whoever is in its critical section.
Locking ==
    /\ renderingMutex = "render" <=> renderPc \in {"draw", "wake", "release"}
    /\ renderingMutex = "main" => mainPc = "callback"

\* Only a render task that draws has a target, and it is the current activity.
Painting ==
    rendering # None => renderPc = "draw" /\ rendering = currentActivity

\* Only while booting or going home may the screen be without an activity.
Serving ==
    /\ RequestIsServable
    /\ mainPc \notin {"boot", "goHome"} => currentActivity # None

\* No activity is in two places, and exactly the allocated ones are in one.
Stacks(i) == \E n \in 1 .. Len(stackActivities) : stackActivities[n] = i
Ownership ==
    /\ currentActivity # None => currentActivity # pendingActivity
    /\ \A n \in 1 .. Len(stackActivities) :
            stackActivities[n] \notin {currentActivity, pendingActivity}
    /\ \A m, n \in 1 .. Len(stackActivities) :
            stackActivities[m] = stackActivities[n] => m = n
    /\ \A i \in Instances :
            kind[i] # "free" <=> i \in {currentActivity, pendingActivity} \/ Stacks(i)

\* A main task that waits, or is about to, has its wake-up under way.
Waking ==
    /\ woken => renderPc = "wake"
    /\ mainPc = "notify" => mainNotified \/ woken \/ waitingTask
    /\ WakeUpIsComing

IInv == TypeOK /\ Locking /\ Painting /\ Serving /\ Ownership /\ Waking

\* The tuples of variables carry no meaning of their own.
USE DEF vars, navVars, frameVars, flagVars, waitVars, renderVars, lockVars,
        shownVars, Maybe, Kinds

-----------------------------------------------------------------------------
(* What a pop does to the stack (a push is the library's AppendProperties). *)

LEMMA FrontFacts ==
    ASSUME NEW S, NEW s \in Seq(S), s # <<>>
    PROVE  /\ Len(s) \in Nat \ {0}
           /\ Last(s) = s[Len(s)] /\ Last(s) \in S
           /\ Front(s) \in Seq(S)
           /\ Len(Front(s)) = Len(s) - 1
           /\ \A n \in 1 .. Len(s) - 1 : Front(s)[n] = s[n]
  <1>1. Len(s) \in Nat \ {0}
    BY EmptySeq
  <1>2. \A n \in 1 .. Len(s) : s[n] \in S
    BY ElementOfSeq
  <1>3. /\ Front(s) \in Seq(S)
        /\ Len(Front(s)) = Len(s) - 1
        /\ \A n \in 1 .. Len(s) - 1 : Front(s)[n] = s[n]
    <2>1. Len(s) - 1 \in Int /\ \A n \in 1 .. Len(s) - 1 : s[n] \in S
      BY <1>1, <1>2
    <2>2. /\ SubSeq(s, 1, Len(s) - 1) \in Seq(S)
          /\ Len(SubSeq(s, 1, Len(s) - 1))
                = IF 1 <= Len(s) - 1 THEN Len(s) - 1 - 1 + 1 ELSE 0
          /\ \A n \in 1 .. Len(s) - 1 - 1 + 1 :
                SubSeq(s, 1, Len(s) - 1)[n] = s[1 + n - 1]
      BY <2>1, SubSeqProperties
    <2>3. Len(SubSeq(s, 1, Len(s) - 1)) = Len(s) - 1
      <3>1. CASE Len(s) = 1  BY <3>1, <2>2
      <3>2. CASE Len(s) > 1  BY <1>1, <3>2, <2>2
      <3> QED  BY <1>1, <3>1, <3>2
    <2> QED
      BY <1>1, <2>2, <2>3 DEF Front
  <1>4. s[Len(s)] \in S
    BY <1>1, <1>2
  <1>5. Last(s) = s[Len(s)]
    BY DEF Last
  <1> QED
    BY <1>1, <1>3, <1>4, <1>5

-----------------------------------------------------------------------------
(* The type invariant.  A push needs an activity on screen to put on the   *)
(* stack, hence the help of Serving.                                       *)

LEMMA ValuesOKStep ==
    ASSUME ValuesOK, Serving, [Next]_vars
    PROVE  ValuesOK'
  <1> USE DEF ValuesOK
  <1>1. CASE BootSplash
    BY <1>1 DEF BootSplash, LaunchImmediately, Rebuilt, Free
  <1>2. CASE BootRoute
    BY <1>2 DEF BootRoute, LaunchImmediately, ReplaceActivity, Rebuilt, Free, Enter
  <1>3. CASE BootWait
    BY <1>3 DEF BootWait
  <1>4. CASE BootDone
    BY <1>4 DEF BootDone
  <1>5. CASE PanelGesture
    BY <1>5 DEF PanelGesture, PushActivity, Rebuilt, Free
  <1>6. CASE HomeGesture
    BY <1>6, MaxHopsAssumption DEF HomeGesture, ReplaceActivity, Rebuilt, Free
  <1>7. CASE GoToSleep
    BY <1>7 DEF GoToSleep, ReplaceActivity, Rebuilt, Free
  <1>8. CASE Navigate
    BY <1>8 DEF Navigate, StartActivityForResult, PopActivity, GoTo, PushActivity,
             ReplaceActivity, Rebuilt, Destroyed, Free
  <1>9. CASE TakeRenderLock
    BY <1>9 DEF TakeRenderLock, InCallback
  <1>10. CASE GiveRenderLock
    BY <1>10 DEF GiveRenderLock, InCallback
  <1>11. CASE WriteState
    BY <1>11 DEF WriteState, InCallback
  <1>12. CASE \E immediate \in BOOLEAN : RequestUpdate(immediate)
    BY <1>12 DEF RequestUpdate
  <1>13. CASE RequestUpdateAndWait
    BY <1>13 DEF RequestUpdateAndWait
  <1>14. CASE RunActivity
    BY <1>14, MaxHopsAssumption DEF RunActivity, Enter
  <1>15. CASE NotifyRender
    BY <1>15 DEF NotifyRender, NotifyNow
  <1>16. CASE Rendered
    BY <1>16 DEF Rendered
  <1>17. CASE GoHome
    BY <1>17 DEF GoHome, LaunchImmediately, Rebuilt, Free, Enter
  <1>18. CASE EndOfPass
    BY <1>18 DEF EndOfPass, PushActivity, Rebuilt, Free, Flushed
  <1>19. CASE Return
    BY <1>19 DEF Return
  <1>20. CASE WakeUp
    BY <1>20, MaxHopsAssumption DEF WakeUp
  <1>21. CASE Drain
    <2>1. hops' \in 0 .. MaxHops
      BY <1>21, MaxHopsAssumption DEF Drain, NextHop
    <2>2. CASE DrainPop
      <3>1. Last(stackActivities) \in Instances /\ Front(stackActivities) \in Seq(Instances)
        BY <2>2, FrontFacts DEF DrainPop
      <3>2. /\ currentActivity' \in Maybe /\ stackActivities' \in Seq(Instances)
            /\ kind' \in [Instances -> Kinds \cup {"free"}]
            /\ awaiting' \in [Instances -> Maybe]
        BY <2>2, <3>1 DEF DrainPop, Destroyed, HandlersAfterPop, Unhandled
      <3>3. mainPc' \in {mainPc, "callback"} /\ callback' \in {callback, "handler"}
        BY <2>2, Zenon DEF DrainPop, Enter
      <3>4. /\ pendingAction' = "None" /\ screen' = "stale"
            /\ pendingActivity' = pendingActivity
        BY <2>2, Zenon DEF DrainPop
      <3> QED
        BY <1>21, <2>1, <3>2, <3>3, <3>4 DEF Drain
    <2>3. CASE DrainPopLast
      BY <1>21, <2>1, <2>3 DEF Drain, DrainPopLast, Destroyed, Unhandled
    <2>4. CASE DrainPush
      <3>1. currentActivity \in Instances
        BY <1>21 DEF Drain, MayDrain, Serving
      <3>2. stackActivities' \in Seq(Instances)
        BY <2>4, <3>1, AppendProperties DEF DrainPush, Launch, Stacked
      <3> QED
        BY <1>21, <2>1, <2>4, <3>2 DEF Drain, DrainPush, Launch, Enter
    <2>5. CASE DrainReplace
      BY <1>21, <2>1, <2>5
         DEF Drain, DrainReplace, Launch, Enter, Destroyed, Unhandled
    <2> QED
      BY <1>21, <2>2, <2>3, <2>4, <2>5 DEF Drain
  <1>22. CASE RenderTake
    BY <1>22 DEF RenderTake
  <1>23. CASE RenderBegin
    BY <1>23 DEF RenderBegin
  <1>24. CASE RenderRequests
    BY <1>24 DEF RenderRequests
  <1>25. CASE RenderEnd
    BY <1>25 DEF RenderEnd
  <1>26. CASE RenderWake
    BY <1>26 DEF RenderWake
  <1>27. CASE RenderRelease
    BY <1>27 DEF RenderRelease
  <1>28. CASE UNCHANGED vars
    BY <1>28 DEF vars
  <1> QED
    BY <1>1, <1>2, <1>3, <1>4, <1>5, <1>6, <1>7, <1>8, <1>9, <1>10, <1>11, <1>12, <1>13, <1>14, <1>15, <1>16, <1>17, <1>18, <1>19, <1>20, <1>21, <1>22, <1>23, <1>24, <1>25, <1>26, <1>27, <1>28
       DEF Next, Boot, User, ActivityCode, Loop, Render

LEMMA FlagsOKStep ==
    ASSUME FlagsOK, [Next]_vars
    PROVE  FlagsOK'
  <1> USE DEF FlagsOK, Next, Boot, User, ActivityCode, Loop, Render
  <1>1. CASE Boot
    <2>1. CASE BootSplash
      BY <2>1, Zenon DEF BootSplash
    <2>2. CASE BootRoute
      BY <2>2, Zenon DEF BootRoute, Enter
    <2>3. CASE BootWait \/ BootDone
      BY <2>3, Zenon DEF BootWait, BootDone
    <2> QED
      BY <1>1, <2>1, <2>2, <2>3
  <1>2. CASE User
    BY <1>2, Zenon DEF PanelGesture, HomeGesture, GoToSleep
  <1>3. CASE ActivityCode
    BY <1>3, Zenon DEF Navigate, TakeRenderLock, GiveRenderLock, WriteState,
                RequestUpdate, RequestUpdateAndWait
  <1>4. CASE Loop
    BY <1>4, Zenon DEF RunActivity, NotifyRender, NotifyNow, Rendered, GoHome,
                EndOfPass, Flushed, Enter
  <1>5. CASE Drain
    BY <1>5, Zenon DEF Drain, DrainPop, DrainPopLast, DrainPush, DrainReplace, Launch,
                Enter
  <1>6. CASE Return \/ WakeUp
    BY <1>6, Zenon DEF Return, WakeUp
  <1>7. CASE Render \/ RenderBegin \/ RenderRequests
    BY <1>7, Zenon DEF RenderTake, RenderBegin, RenderRequests, RenderEnd, RenderWake,
                RenderRelease
  <1>8. CASE UNCHANGED vars
    BY <1>8, Zenon
  <1> QED
    BY <1>1, <1>2, <1>3, <1>4, <1>5, <1>6, <1>7, <1>8

-----------------------------------------------------------------------------
(* The mutex and the painted activity.                                     *)

LEMMA LockingStep ==
    ASSUME Locking, [Next]_vars
    PROVE  Locking'
  <1> USE DEF Locking, Next, Boot, User, ActivityCode, Loop, Render
  <1>1. CASE Boot
    BY <1>1 DEF BootSplash, BootRoute, BootWait, BootDone, Enter
  <1>2. CASE User
    BY <1>2 DEF PanelGesture, HomeGesture, GoToSleep
  <1>3. CASE ActivityCode
    BY <1>3 DEF Navigate, TakeRenderLock, GiveRenderLock, WriteState, RequestUpdate,
                RequestUpdateAndWait, MayWait, InCallback
  <1>4. CASE Loop
    BY <1>4 DEF RunActivity, NotifyRender, Rendered, GoHome, EndOfPass, Enter
  <1>5. CASE Drain
    BY <1>5 DEF Drain, MayDrain
  <1>6. CASE Return \/ WakeUp
    BY <1>6 DEF Return, WakeUp
  <1>7. CASE Render \/ RenderBegin \/ RenderRequests
    BY <1>7 DEF RenderTake, RenderBegin, RenderRequests, RenderEnd, RenderWake,
                RenderRelease
  <1>8. CASE UNCHANGED vars
    BY <1>8
  <1> QED
    BY <1>1, <1>2, <1>3, <1>4, <1>5, <1>6, <1>7, <1>8

\* The current activity changes only when there is none, or under the mutex.
LEMMA PaintingStep ==
    ASSUME Locking, Painting, [Next]_vars
    PROVE  Painting'
  <1> USE DEF Painting, Next, Boot, User, ActivityCode, Loop, Render
  <1>1. CASE Boot
    BY <1>1 DEF BootSplash, BootRoute, BootWait, BootDone, LaunchImmediately,
                ReplaceActivity
  <1>2. CASE User
    BY <1>2 DEF PanelGesture, HomeGesture, GoToSleep, PushActivity, ReplaceActivity
  <1>3. CASE ActivityCode
    BY <1>3 DEF Navigate, StartActivityForResult, PopActivity, GoTo, PushActivity,
                ReplaceActivity, TakeRenderLock, GiveRenderLock, WriteState,
                RequestUpdate, RequestUpdateAndWait
  <1>4. CASE Loop
    BY <1>4 DEF RunActivity, NotifyRender, Rendered, GoHome, LaunchImmediately,
                EndOfPass, PushActivity
  <1>5. CASE Drain
    BY <1>5 DEF Drain, MayDrain, Locking
  <1>6. CASE Return \/ WakeUp
    BY <1>6 DEF Return, WakeUp
  <1>7. CASE Render \/ RenderBegin \/ RenderRequests
    BY <1>7 DEF RenderTake, RenderBegin, RenderRequests, RenderEnd, RenderWake,
                RenderRelease
  <1>8. CASE UNCHANGED vars
    BY <1>8
  <1> QED
    BY <1>1, <1>2, <1>3, <1>4, <1>5, <1>6, <1>7, <1>8

-----------------------------------------------------------------------------
(* What is queued.                                                         *)

LEMMA ServingStep ==
    ASSUME ValuesOK, Serving, [Next]_vars
    PROVE  Serving'
  <1> USE InstancesAssumption
      DEF ValuesOK, Serving, RequestIsServable, Free, Next, Boot, User, ActivityCode, Loop, Render
  <1>1. CASE Boot
    BY <1>1 DEF BootSplash, BootRoute, BootWait, BootDone, LaunchImmediately,
                ReplaceActivity, Enter
  <1>2. CASE User
    BY <1>2 DEF PanelGesture, HomeGesture, GoToSleep, PushActivity, ReplaceActivity
  <1>3. CASE ActivityCode
    BY <1>3 DEF Navigate, StartActivityForResult, PopActivity, GoTo, PushActivity,
                ReplaceActivity, TakeRenderLock, GiveRenderLock, WriteState,
                RequestUpdate, RequestUpdateAndWait, InCallback
  <1>4. CASE Loop
    BY <1>4 DEF RunActivity, NotifyRender, Rendered, GoHome, LaunchImmediately,
                EndOfPass, PushActivity, Enter
  <1>5. CASE Drain
    <2>1. CASE DrainPop
      <3>1. currentActivity' \in Instances
        BY <2>1, FrontFacts DEF DrainPop
      <3>2. /\ pendingAction' = "None" /\ pendingActivity' = pendingActivity
            /\ pendingAction = "Pop"
        BY <2>1, Zenon DEF DrainPop
      <3> QED
        BY <3>1, <3>2
    <2>2. CASE DrainPopLast
      BY <2>2 DEF DrainPopLast
    <2>3. CASE DrainPush \/ DrainReplace
      BY <2>3 DEF DrainPush, DrainReplace, Launch
    <2> QED
      BY <1>5, <2>1, <2>2, <2>3 DEF Drain
  <1>6. CASE Return \/ WakeUp
    BY <1>6 DEF Return, WakeUp
  <1>7. CASE Render \/ RenderBegin \/ RenderRequests
    BY <1>7 DEF RenderTake, RenderBegin, RenderRequests, RenderEnd, RenderWake,
                RenderRelease
  <1>8. CASE UNCHANGED vars
    BY <1>8
  <1> QED
    BY <1>1, <1>2, <1>3, <1>4, <1>5, <1>6, <1>7, <1>8

-----------------------------------------------------------------------------
(* Who wakes whom.  The notification count, the woken waiter and the       *)
(* waiting handle pass the wake-up from hand to hand; no step drops it.    *)

LEMMA WakingStep ==
    ASSUME Locking, Waking, [Next]_vars
    PROVE  Waking'
  <1> USE DEF Locking, Waking, WakeUpIsComing, Next, Boot, User, ActivityCode, Loop, Render
  <1>1. CASE Boot
    BY <1>1 DEF BootSplash, BootRoute, BootWait, BootDone, Enter
  <1>2. CASE User
    BY <1>2 DEF PanelGesture, HomeGesture, GoToSleep
  <1>3. CASE ActivityCode
    BY <1>3 DEF Navigate, TakeRenderLock, GiveRenderLock, WriteState, RequestUpdate,
                RequestUpdateAndWait, InCallback
  <1>4. CASE Loop
    BY <1>4 DEF RunActivity, NotifyRender, NotifyNow, Rendered, GoHome, EndOfPass, Enter
  <1>5. CASE Drain
    BY <1>5 DEF Drain, MayDrain, DrainPop, DrainPopLast, DrainPush, DrainReplace,
                Launch, Enter
  <1>6. CASE Return \/ WakeUp
    <2>1. CASE Return
      BY <2>1 DEF Return
    <2>2. CASE WakeUp
      <3>1. mainPc' = "boot" /\ ~woken'
        BY <2>2, Zenon DEF WakeUp
      <3> QED
        BY <3>1
    <2> QED
      BY <1>6, <2>1, <2>2
  <1>7. CASE Render \/ RenderBegin \/ RenderRequests
    <2>1. CASE RenderTake
      BY <2>1, Zenon DEF RenderTake
    <2>2. CASE RenderBegin \/ RenderRequests
      BY <2>2 DEF RenderBegin, RenderRequests
    <2>3. CASE RenderEnd
      BY <2>3, Zenon DEF RenderEnd
    <2>4. CASE RenderWake
      BY <2>4, Zenon DEF RenderWake
    <2>5. CASE RenderRelease
      BY <2>5 DEF RenderRelease
    <2> QED
      BY <1>7, <2>1, <2>2, <2>3, <2>4, <2>5
  <1>8. CASE UNCHANGED vars
    BY <1>8
  <1> QED
    BY <1>1, <1>2, <1>3, <1>4, <1>5, <1>6, <1>7, <1>8

-----------------------------------------------------------------------------
(* Who owns which activity: one lemma for each way the owners change.      *)

\* A request puts a fresh activity in the place of the pending one.
LEMMA QueuedOwnership ==
    ASSUME ValuesOK, Ownership, NEW i \in Free, NEW k \in Kinds,
           kind' = Rebuilt(Overwritten, i, k), pendingActivity' = i,
           UNCHANGED <<currentActivity, stackActivities>>
    PROVE  Ownership'
  <1>1. /\ i \in Instances /\ kind[i] = "free"
        /\ i # currentActivity /\ i # pendingActivity /\ ~Stacks(i)
    BY DEF Free, Ownership
  <1>2. kind' = [j \in Instances |-> IF j = i THEN k
                                     ELSE IF j = pendingActivity THEN "free" ELSE kind[j]]
    BY DEF Rebuilt, Overwritten
  <1>3. \A j \in Instances : Stacks(j)' <=> Stacks(j)
    BY DEF Stacks
  <1>4. \A j \in Instances :
            kind'[j] # "free" <=> j \in {currentActivity, i} \/ Stacks(j)
    BY <1>1, <1>2, InstancesAssumption DEF Ownership, Stacks, ValuesOK
  <1> QED
    BY <1>1, <1>3, <1>4, InstancesAssumption DEF Ownership, Stacks, ValuesOK

\* With none on screen, a fresh activity goes there at once.
LEMMA LaunchedOwnership ==
    ASSUME ValuesOK, Ownership, NEW i, NEW k \in Kinds, LaunchImmediately(i, k)
    PROVE  Ownership'
  <1>1. /\ i \in Instances /\ kind[i] = "free" /\ currentActivity = None
        /\ i # pendingActivity /\ ~Stacks(i)
    BY DEF Free, Ownership, LaunchImmediately
  <1>2. kind' = [j \in Instances |-> IF j = i THEN k ELSE kind[j]]
    BY DEF LaunchImmediately, Rebuilt
  <1>3. /\ currentActivity' = i /\ pendingActivity' = pendingActivity
        /\ stackActivities' = stackActivities
    BY DEF LaunchImmediately
  <1>4. \A j \in Instances :
            kind'[j] # "free" <=> j \in {i, pendingActivity} \/ Stacks(j)
    BY <1>1, <1>2, InstancesAssumption DEF Ownership, ValuesOK
  <1> QED
    BY <1>1, <1>3, <1>4, InstancesAssumption DEF Ownership, Stacks, ValuesOK

\* A pop destroys the current activity and takes its successor off the stack.
LEMMA PoppedOwnership ==
    ASSUME ValuesOK, Serving, Ownership, DrainPop
    PROVE  Ownership'
  <1> DEFINE s == stackActivities
  <1>1. /\ pendingActivity = None /\ pendingActivity' = None
        /\ currentActivity \in Instances
    BY DEF DrainPop, Serving, RequestIsServable, ValuesOK
  <1>2. /\ kind' = [j \in Instances |-> IF j = currentActivity THEN "free" ELSE kind[j]]
        /\ currentActivity' = Last(s) /\ stackActivities' = Front(s)
    BY DEF DrainPop, Destroyed
  <1>3. /\ Len(s) \in Nat \ {0} /\ Last(s) = s[Len(s)] /\ Last(s) \in Instances
        /\ Len(Front(s)) = Len(s) - 1
        /\ \A n \in 1 .. Len(s) - 1 : Front(s)[n] = s[n]
    BY FrontFacts DEF DrainPop, ValuesOK
  <1>4. \A n \in 1 .. Len(s) - 1 : s[n] # s[Len(s)] /\ s[n] # None
    BY <1>1, <1>3 DEF Ownership
  <1>5. \A j \in Instances : Stacks(j) <=> j = Last(s) \/ Stacks(j)'
    BY <1>2, <1>3 DEF Stacks
  <1>6. \A j \in Instances :
            kind'[j] # "free" <=> j \in {Last(s), None} \/ Stacks(j)'
    BY <1>1, <1>2, <1>3, <1>4, <1>5, InstancesAssumption DEF Ownership, ValuesOK, Stacks
  <1> QED
    BY <1>1, <1>2, <1>3, <1>4, <1>6, InstancesAssumption DEF Ownership

\* A push puts the current activity on the stack, the pending one on screen.
LEMMA PushedOwnership ==
    ASSUME ValuesOK, Serving, Ownership, DrainPush
    PROVE  Ownership'
  <1> DEFINE s == stackActivities
  <1>1. /\ pendingActivity \in Instances /\ currentActivity \in Instances
        /\ kind' = kind /\ currentActivity' = pendingActivity
        /\ pendingActivity' = None /\ stackActivities' = Append(s, currentActivity)
    BY DEF DrainPush, Launch, Stacked, Serving, RequestIsServable, ValuesOK
  <1>2. /\ Len(s) \in Nat /\ Len(Append(s, currentActivity)) = Len(s) + 1
        /\ \A n \in 1 .. Len(s) : Append(s, currentActivity)[n] = s[n]
        /\ Append(s, currentActivity)[Len(s) + 1] = currentActivity
    BY <1>1, AppendProperties, LenProperties DEF ValuesOK
  <1>3. \A n \in 1 .. Len(s) : s[n] \in Instances
    BY ElementOfSeq DEF ValuesOK
  <1>4. \A j \in Instances : Stacks(j)' <=> j = currentActivity \/ Stacks(j)
    BY <1>1, <1>2 DEF Stacks
  <1>5. \A j \in Instances :
            kind'[j] # "free" <=> j \in {pendingActivity, None} \/ Stacks(j)'
    BY <1>1, <1>4, InstancesAssumption DEF Ownership
  <1> QED
    BY <1>1, <1>2, <1>3, <1>5, InstancesAssumption DEF Ownership

\* A replacement destroys all but the pending activity.
LEMMA ReplacedOwnership ==
    ASSUME ValuesOK, Serving, Ownership, DrainReplace
    PROVE  Ownership'
  <1> DEFINE s == stackActivities
  <1>1. /\ pendingActivity \in Instances
        /\ currentActivity' = pendingActivity
        /\ pendingActivity' = None /\ stackActivities' = <<>> /\ Len(<<>>) = 0
    BY EmptySeq DEF DrainReplace, Launch, ValuesOK
  <1>2. \A j : j \in ToSet(s) <=> Stacks(j)
    BY LenProperties DEF ToSet, Stacks, ValuesOK
  <1>3. kind' = [j \in Instances |->
                    IF j = currentActivity \/ Stacks(j) THEN "free" ELSE kind[j]]
    BY <1>2 DEF DrainReplace, Destroyed
  <1>4. ~ Stacks(pendingActivity) /\ currentActivity # pendingActivity
    BY <1>1 DEF Ownership, Stacks, Serving, DrainReplace, RequestIsServable
  <1>5. \A j \in Instances : kind'[j] # "free" <=> j = pendingActivity
    BY <1>1, <1>3, <1>4 DEF Ownership, ValuesOK
  <1> QED
    BY <1>1, <1>5, InstancesAssumption DEF Ownership, Stacks

\* The last activity finishes: nobody is left but a pending one.
LEMMA EmptiedOwnership ==
    ASSUME ValuesOK, Serving, Ownership, DrainPopLast
    PROVE  Ownership'
  <1>1. /\ pendingActivity = None /\ pendingActivity' = None
        /\ currentActivity \in Instances /\ currentActivity' = None
        /\ stackActivities = <<>> /\ stackActivities' = <<>> /\ Len(<<>>) = 0
    BY EmptySeq DEF DrainPopLast, Serving, RequestIsServable, ValuesOK
  <1>2. kind' = [j \in Instances |-> IF j = currentActivity THEN "free" ELSE kind[j]]
    BY DEF DrainPopLast, Destroyed
  <1>3. \A j \in Instances : kind'[j] = "free"
    BY <1>1, <1>2, InstancesAssumption DEF Ownership, Stacks, ValuesOK
  <1> QED
    BY <1>1, <1>3, InstancesAssumption DEF Ownership, Stacks

\* A finishing activity destroys a pending one that was never launched.
LEMMA CancelledOwnership ==
    ASSUME ValuesOK, Ownership, PopActivity
    PROVE  Ownership'
  <1>1. /\ pendingActivity' = None /\ currentActivity' = currentActivity
        /\ stackActivities' = stackActivities
        /\ kind' = [j \in Instances |-> IF j = pendingActivity THEN "free" ELSE kind[j]]
    BY DEF PopActivity, Destroyed, Overwritten
  <1>2. \A n \in 1 .. Len(stackActivities) : stackActivities[n] \in Instances
    BY ElementOfSeq DEF ValuesOK
  <1>3. \A j \in Instances : kind'[j] # "free" <=> j = currentActivity \/ Stacks(j)
    BY <1>1, InstancesAssumption DEF Ownership, Stacks, ValuesOK
  <1> QED
    BY <1>1, <1>2, <1>3, InstancesAssumption DEF Ownership, Stacks

LEMMA OwnershipStep ==
    ASSUME ValuesOK, Serving, Ownership, [Next]_vars
    PROVE  Ownership'
  <1>1. CASE UNCHANGED <<kind, currentActivity, pendingActivity, stackActivities>>
    BY <1>1 DEF Ownership, Stacks
  <1>2. CASE \E i \in Instances, k \in Kinds : LaunchImmediately(i, k)
    BY <1>2, LaunchedOwnership
  <1>3. CASE \E i \in Instances, k \in Kinds : PushActivity(i, k) \/ ReplaceActivity(i, k)
    BY <1>3, QueuedOwnership DEF PushActivity, ReplaceActivity
  <1>4. CASE Boot
    BY <1>1, <1>2, <1>3, <1>4 DEF Boot, BootSplash, BootRoute, BootWait, BootDone
  <1>5. CASE User
    BY <1>3, <1>5 DEF User, PanelGesture, HomeGesture, GoToSleep
  <1>6. CASE ActivityCode
    BY <1>1, <1>3, <1>6, CancelledOwnership
       DEF ActivityCode, Navigate, StartActivityForResult, GoTo, TakeRenderLock,
           GiveRenderLock, WriteState, RequestUpdate, RequestUpdateAndWait
  <1>7. CASE Loop
    BY <1>1, <1>2, <1>3, <1>7
       DEF Loop, RunActivity, NotifyRender, Rendered, GoHome, EndOfPass
  <1>8. CASE Drain
    BY <1>8, PoppedOwnership, EmptiedOwnership, PushedOwnership, ReplacedOwnership
       DEF Drain
  <1>9. CASE WakeUp
    <2>1. /\ currentActivity' = None /\ pendingActivity' = None
          /\ stackActivities' = <<>> /\ Len(<<>>) = 0
          /\ \A i \in Instances : kind'[i] = "free"
      BY <1>9, EmptySeq DEF WakeUp
    <2> QED
      BY <2>1, InstancesAssumption DEF Ownership, Stacks
  <1>10. CASE Return \/ Render \/ RenderBegin \/ RenderRequests \/ UNCHANGED vars
    BY <1>1, <1>10 DEF Return, Render, RenderTake, RenderBegin, RenderRequests,
                       RenderEnd, RenderWake, RenderRelease
  <1> QED
    BY <1>4, <1>5, <1>6, <1>7, <1>8, <1>9, <1>10 DEF Next

\* Counted one by one, the owners are none or exactly one.
LEMMA OwnershipCounts ==
    ASSUME ValuesOK, Ownership
    PROVE  OneOwner
  <1> SUFFICES ASSUME NEW i \in Instances
               PROVE  Owners(i) = IF kind[i] = "free" THEN 0 ELSE 1
    BY DEF OneOwner
  <1> DEFINE at == {n \in DOMAIN stackActivities : stackActivities[n] = i}
  <1>1. DOMAIN stackActivities = 1 .. Len(stackActivities)
    BY LenProperties DEF ValuesOK
  <1>2. Cardinality(at) = IF Stacks(i) THEN 1 ELSE 0
    <2>1. CASE Stacks(i)
      <3>1. PICK n \in 1 .. Len(stackActivities) : stackActivities[n] = i
        BY <2>1 DEF Stacks
      <3>2. at = {n}
        BY <1>1, <3>1 DEF Ownership
      <3> QED
        BY <2>1, <3>2, FS_Singleton
    <2>2. CASE ~Stacks(i)
      <3>1. at = {}
        BY <1>1, <2>2 DEF Stacks
      <3> QED
        BY <2>2, <3>1, FS_EmptySet
    <2> QED
      BY <2>1, <2>2
  <1>3. /\ Stacks(i) => i # currentActivity /\ i # pendingActivity
        /\ i = currentActivity => i # pendingActivity
        /\ kind[i] # "free" <=> i = currentActivity \/ i = pendingActivity \/ Stacks(i)
    BY InstancesAssumption DEF Ownership, Stacks
  <1> HIDE DEF at
  <1>4. Owners(i) = (IF i = currentActivity THEN 1 ELSE 0)
                    + (IF i = pendingActivity THEN 1 ELSE 0) + Cardinality(at)
    BY DEF Owners, at
  <1> QED
    BY <1>2, <1>3, <1>4

-----------------------------------------------------------------------------
(* The theorems.                                                           *)

\* Every reachable state of the two tasks satisfies the inductive invariant.
THEOREM Invariance == Spec => []IInv
  <1>1. Init => IInv
    <2> SUFFICES ASSUME Init PROVE IInv
      OBVIOUS
    <2> USE InstancesAssumption, MaxHopsAssumption DEF Init
    <2>1. ValuesOK
      BY EmptySeq DEF ValuesOK
    <2>2. FlagsOK
      BY Zenon DEF FlagsOK
    <2>3. Locking /\ Painting /\ Serving
      BY DEF Locking, Painting, Serving, RequestIsServable
    <2>4. Ownership
      BY EmptySeq DEF Ownership, Stacks
    <2>5. Waking
      BY DEF Waking, WakeUpIsComing
    <2> QED
      BY <2>1, <2>2, <2>3, <2>4, <2>5 DEF IInv, TypeOK
  <1>2. IInv /\ [Next]_vars => IInv'
    BY ValuesOKStep, FlagsOKStep, LockingStep, PaintingStep, ServingStep, WakingStep,
       OwnershipStep DEF IInv, TypeOK
  <1> QED
    BY <1>1, <1>2, PTL DEF Spec

\* Every variable of the manager keeps its type, whatever the two tasks do.
THEOREM TypeCorrectness == Spec => []TypeOK
  <1>1. IInv => TypeOK
    BY DEF IInv
  <1> QED
    BY <1>1, Invariance, PTL

\* No use after free: renderTaskLoop() never has render() running on an
\* activity that loop() has destroyed, stacked or replaced.
THEOREM NoUseAfterFree == Spec => []RenderTargetIsCurrent
  <1>1. IInv => RenderTargetIsCurrent
    <2> SUFFICES ASSUME IInv, rendering # None PROVE RenderTargetIsCurrent
      BY DEF RenderTargetIsCurrent
    <2>1. rendering = currentActivity /\ currentActivity \in Instances
      BY DEF IInv, Painting, TypeOK, ValuesOK
    <2> QED
      BY <2>1 DEF IInv, Ownership, RenderTargetIsCurrent
  <1> QED
    BY <1>1, Invariance, PTL

\* loop() can always serve what is queued: it never spins on a Push or Replace
\* without an activity and never meets a Pop with none on screen.
THEOREM RequestsServable == Spec => []RequestIsServable
  <1>1. IInv => RequestIsServable
    BY DEF IInv, Serving
  <1> QED
    BY <1>1, Invariance, PTL

\* Every activity object has exactly one owner among currentActivity,
\* pendingActivity and stackActivities until it is destroyed.
THEOREM SingleOwner == Spec => []OneOwner
  <1>1. IInv => OneOwner
    BY OwnershipCounts DEF IInv, TypeOK
  <1> QED
    BY <1>1, Invariance, PTL

\* requestUpdateAndWait() neither loses its wake-up nor blocks with the mutex.
THEOREM NoLostWakeUp == Spec => []WakeUpIsComing
  <1>1. IInv => WakeUpIsComing
    BY DEF IInv, Waking
  <1> QED
    BY <1>1, Invariance, PTL

\* The main task has somewhere to paint on while it waits, so a frame taken up is drawn.
LEMMA FrameStep ==
    ASSUME ValuesOK, Serving, FrameIsComing, [Next]_vars
    PROVE  FrameIsComing'
  <1> USE DEF FrameIsComing, Next, Boot, User, ActivityCode, Loop, Render
  <1>1. CASE Boot
    BY <1>1 DEF BootSplash, BootRoute, BootWait, BootDone, Enter
  <1>2. CASE User
    BY <1>2 DEF PanelGesture, HomeGesture, GoToSleep
  <1>3. CASE ActivityCode
    BY <1>3 DEF Navigate, TakeRenderLock, GiveRenderLock, WriteState, RequestUpdate,
                RequestUpdateAndWait, InCallback
  <1>4. CASE Loop
    BY <1>4 DEF RunActivity, NotifyRender, NotifyNow, Rendered, GoHome, EndOfPass, Enter
  <1>5. CASE Drain
    BY <1>5 DEF Drain, MayDrain, DrainPop, DrainPopLast, DrainPush, DrainReplace,
                Launch, Enter
  <1>6. CASE Return \/ WakeUp
    BY <1>6 DEF Return, WakeUp
  <1>7. CASE RenderBegin
    BY <1>7 DEF RenderBegin, Serving, ValuesOK
  <1>8. CASE Render \/ RenderRequests
    BY <1>8 DEF RenderTake, RenderRequests, RenderEnd, RenderWake, RenderRelease
  <1>9. CASE UNCHANGED vars
    BY <1>9
  <1> QED
    BY <1>1, <1>2, <1>3, <1>4, <1>5, <1>6, <1>7, <1>8, <1>9

\* What an activity wrote before requestUpdateAndWait() is painted or will be, whether or not it
\* wrote under RenderLock.
THEOREM WrittenIsPainted == Spec => []FrameIsComing
  <1>1. Init => FrameIsComing
    BY DEF Init, FrameIsComing
  <1>2. IInv /\ FrameIsComing /\ [Next]_vars => FrameIsComing'
    BY FrameStep DEF IInv, TypeOK
  <1> QED
    BY <1>1, <1>2, Invariance, PTL DEF Spec

-----------------------------------------------------------------------------
(* The stack of screens.                                                   *)

\* Without an activity on screen there is none below it either.
Bare == currentActivity = None => stackActivities = <<>>

LEMMA BareStep ==
    ASSUME ValuesOK, Bare, Serving, [Next]_vars
    PROVE  Bare'
  <1> USE InstancesAssumption
      DEF ValuesOK, Bare, Free, Next, Boot, User, ActivityCode, Loop, Render
  <1>1. CASE Boot
    BY <1>1 DEF BootSplash, BootRoute, BootWait, BootDone, LaunchImmediately, ReplaceActivity
  <1>2. CASE User
    BY <1>2 DEF PanelGesture, HomeGesture, GoToSleep, PushActivity, ReplaceActivity
  <1>3. CASE ActivityCode
    BY <1>3 DEF Navigate, StartActivityForResult, PopActivity, GoTo, PushActivity,
                ReplaceActivity, TakeRenderLock, GiveRenderLock, WriteState,
                RequestUpdate, RequestUpdateAndWait
  <1>4. CASE Loop
    BY <1>4 DEF RunActivity, NotifyRender, Rendered, GoHome, LaunchImmediately,
                EndOfPass, PushActivity
  <1>5. CASE Drain
    <2>1. CASE DrainPop
      <3>1. currentActivity' \in Instances
        BY <2>1, FrontFacts DEF DrainPop
      <3> QED
        BY <3>1
    <2>2. CASE DrainPopLast
      BY <2>2 DEF DrainPopLast
    <2>3. CASE DrainPush \/ DrainReplace
      BY <2>3 DEF DrainPush, DrainReplace, Launch
    <2> QED
      BY <1>5, <2>1, <2>2, <2>3 DEF Drain
  <1>6. CASE Return \/ WakeUp
    BY <1>6 DEF Return, WakeUp
  <1>7. CASE Render \/ RenderBegin \/ RenderRequests
    BY <1>7 DEF RenderTake, RenderBegin, RenderRequests, RenderEnd, RenderWake,
                RenderRelease
  <1>8. CASE UNCHANGED vars
    BY <1>8
  <1> QED
    BY <1>1, <1>2, <1>3, <1>4, <1>5, <1>6, <1>7, <1>8

\* While nobody holds the mutex, nothing is being painted.
LEMMA NotPainting ==
    ASSUME Locking, Painting, renderingMutex = "free"
    PROVE  rendering = None
  BY DEF Locking, Painting

\* The operations on the stack, seen from above.
LEMMA ScreensFacts ==
    ASSUME ValuesOK, currentActivity \in Instances
    PROVE  /\ Screens = Append(stackActivities, currentActivity)
           /\ Screens # <<>> /\ Screens \in Seq(Instances)
           /\ Last(Screens) = currentActivity /\ Front(Screens) = stackActivities
           /\ ToSet(Screens) = ToSet(stackActivities) \cup {currentActivity}
  <1> DEFINE s == stackActivities
             t == Append(s, currentActivity)
  <1>1. Screens = t
    BY InstancesAssumption DEF Screens
  <1>2. /\ s \in Seq(Instances) /\ t \in Seq(Instances) /\ Len(s) \in Nat /\ Len(t) = Len(s) + 1
        /\ \A n \in 1 .. Len(s) : t[n] = s[n]
        /\ t[Len(s) + 1] = currentActivity
        /\ DOMAIN s = 1 .. Len(s) /\ DOMAIN t = 1 .. Len(s) + 1
    BY AppendProperties, LenProperties DEF ValuesOK
  <1>3. t # <<>>
    BY <1>2, EmptySeq
  <1>4. /\ Last(t) = currentActivity /\ Front(t) \in Seq(Instances) /\ Len(Front(t)) = Len(s)
        /\ \A n \in 1 .. Len(s) : Front(t)[n] = t[n]
    <2> HIDE DEF t
    <2>1. /\ Last(t) = t[Len(t)] /\ Front(t) \in Seq(Instances) /\ Len(Front(t)) = Len(t) - 1
          /\ \A n \in 1 .. Len(t) - 1 : Front(t)[n] = t[n]
      BY <1>2, <1>3, FrontFacts
    <2>2. Len(t) - 1 = Len(s)
      BY <1>2
    <2> QED
      BY <1>2, <2>1, <2>2
  <1>5. Front(t) = s
    <2>1. Front(t) \in Seq(Instances) /\ s \in Seq(Instances) /\ Len(Front(t)) = Len(s)
          /\ \A n \in 1 .. Len(s) : Front(t)[n] = s[n]
      BY <1>2, <1>4
    <2> HIDE DEF t
    <2> QED
      BY <2>1, SeqEqual
  <1>6. ToSet(t) = ToSet(s) \cup {currentActivity}
    BY <1>2 DEF ToSet
  <1> QED
    BY <1>1, <1>2, <1>3, <1>4, <1>5, <1>6

\* The abstract module's own copies of the operators on sequences are those of this one.
LEMMA SameOperators ==
    /\ Navigation!Front(Screens) = Front(Screens)
    /\ Navigation!Last(Screens) = Last(Screens)
    /\ Navigation!ToSet(Screens) = ToSet(Screens)
    /\ Navigation!Fresh = Instances \ ToSet(Screens)
  BY DEF Navigation!Front, Front, Navigation!Last, Last, Navigation!ToSet, ToSet, Navigation!Fresh

LEMMA ScreensStep ==
    ASSUME IInv, IInv', Bare, Bare', [Next]_vars
    PROVE  [Navigation!Next]_(Navigation!vars)
  <1> USE InstancesAssumption
  <1>1. ValuesOK /\ ValuesOK' /\ Serving /\ Serving' /\ Ownership
    BY DEF IInv, TypeOK
  <1>2. CASE UNCHANGED <<currentActivity, stackActivities, rendering>>
    BY <1>2 DEF Navigation!vars, Screens
  <1>3. CASE \E i \in Instances, k \in Kinds : LaunchImmediately(i, k) /\ UNCHANGED rendering
    <2>1. PICK i \in Instances, k \in Kinds : LaunchImmediately(i, k) /\ UNCHANGED rendering
      BY <1>3
    <2>2. Screens = <<>> /\ Screens' = <<i>>
      <3>1. /\ currentActivity = None /\ currentActivity' = i /\ stackActivities' = stackActivities
            /\ stackActivities = <<>>
        BY <2>1 DEF LaunchImmediately, Bare
      <3> QED
        BY <3>1 DEF Screens
    <2>3. i \in Navigation!Fresh
      <3>1. ToSet(Screens) = {}
        BY <2>2 DEF ToSet
      <3> QED
        BY <3>1, SameOperators
    <2>4. Navigation!First(i)
      BY <2>1, <2>2 DEF Navigation!First
    <2> QED
      BY <2>3, <2>4 DEF Navigation!Next
  <1>4. CASE Drain
    <2>1. rendering = None /\ UNCHANGED rendering
      BY <1>1, <1>4, NotPainting DEF Drain, MayDrain, IInv
    <2>2. currentActivity \in Instances
      BY <1>1, <1>4 DEF Drain, MayDrain, Serving, ValuesOK
    <2>3. /\ Screens = Append(stackActivities, currentActivity)
          /\ Screens # <<>> /\ Front(Screens) = stackActivities
          /\ ToSet(Screens) = ToSet(stackActivities) \cup {currentActivity}
      BY <1>1, <2>2, ScreensFacts
    <2>4. CASE DrainPop
      <3>1. currentActivity' = Last(stackActivities) /\ stackActivities' = Front(stackActivities)
            /\ stackActivities # <<>> /\ stackActivities \in Seq(Instances)
        BY <1>1, <2>4 DEF DrainPop, ValuesOK
      <3>2. currentActivity' \in Instances
        BY <3>1, FrontFacts
      <3>3. Screens' = Append(Front(stackActivities), Last(stackActivities))
        BY <3>1, <3>2 DEF Screens
      <3>4. Append(Front(stackActivities), Last(stackActivities)) = stackActivities
        <4> DEFINE s == stackActivities
                   t == Append(Front(s), Last(s))
        <4>1. /\ Len(s) \in Nat \ {0} /\ Last(s) = s[Len(s)] /\ Last(s) \in Instances
              /\ Front(s) \in Seq(Instances) /\ Len(Front(s)) = Len(s) - 1
              /\ \A n \in 1 .. Len(s) - 1 : Front(s)[n] = s[n]
          BY <3>1, FrontFacts
        <4>2. /\ t \in Seq(Instances) /\ Len(t) = Len(Front(s)) + 1
              /\ \A n \in 1 .. Len(Front(s)) : t[n] = Front(s)[n]
              /\ t[Len(Front(s)) + 1] = Last(s)
          BY <4>1, AppendProperties
        <4> HIDE DEF t
        <4>3. Len(t) = Len(s) /\ \A n \in 1 .. Len(s) : t[n] = s[n]
          BY <4>1, <4>2
        <4>4. t = s
          BY <3>1, <4>2, <4>3, SeqEqual
        <4> QED
          BY <4>4 DEF t
      <3> QED
        BY <2>1, <2>3, <3>3, <3>4, SameOperators DEF Navigation!Close, Navigation!Next
    <2>5. CASE DrainPopLast
      <3>1. currentActivity' = None /\ stackActivities = <<>>
        BY <2>5 DEF DrainPopLast
      <3>2. Screens' = <<>>
        BY <3>1 DEF Screens
      <3> QED
        BY <2>1, <2>3, <3>1, <3>2, SameOperators DEF Navigation!Close, Navigation!Next
    <2>6. CASE DrainPush
      <3>1. /\ currentActivity' = pendingActivity /\ pendingActivity \in Instances
            /\ stackActivities' = Append(stackActivities, currentActivity)
        BY <1>1, <2>6 DEF DrainPush, Launch, Stacked, ValuesOK
      <3>2. Screens' = Append(Screens, pendingActivity)
        BY <2>3, <3>1 DEF Screens
      <3>3. pendingActivity \in Navigation!Fresh
        <4>1. pendingActivity # currentActivity /\ pendingActivity \notin ToSet(stackActivities)
          BY <1>1, <2>2, <3>1, LenProperties DEF Ownership, ValuesOK, ToSet
        <4> QED
          BY <2>3, <3>1, <4>1, SameOperators
      <3> QED
        BY <2>1, <2>3, <3>2, <3>3 DEF Navigation!Open, Navigation!Next
    <2>7. CASE DrainReplace
      <3>1. /\ currentActivity' = pendingActivity /\ pendingActivity \in Instances
            /\ stackActivities' = <<>>
        BY <1>1, <2>7 DEF DrainReplace, Launch, ValuesOK
      <3>2. Screens' = <<pendingActivity>>
        BY <3>1 DEF Screens
      <3>3. pendingActivity \in Navigation!Fresh
        <4>1. pendingActivity # currentActivity /\ pendingActivity \notin ToSet(stackActivities)
          BY <1>1, <2>2, <3>1, LenProperties DEF Ownership, ValuesOK, ToSet
        <4> QED
          BY <2>3, <3>1, <4>1, SameOperators
      <3> QED
        BY <2>1, <2>3, <3>2, <3>3 DEF Navigation!Replace, Navigation!Next
    <2> QED
      BY <1>4, <2>4, <2>5, <2>6, <2>7 DEF Drain
  <1>5. CASE RenderBegin
    <2>1. /\ rendering' = currentActivity /\ rendering = None
          /\ UNCHANGED <<currentActivity, stackActivities>>
      BY <1>5, NotPainting DEF RenderBegin, IInv
    <2>2. CASE currentActivity = None
      BY <1>2, <2>1, <2>2
    <2>3. CASE currentActivity # None
      <3>1. Screens # <<>> /\ Last(Screens) = currentActivity /\ Screens' = Screens
        BY <1>1, <2>1, <2>3, ScreensFacts DEF ValuesOK, Screens
      <3> QED
        BY <2>1, <3>1, SameOperators DEF Navigation!Paint, Navigation!Next
    <2> QED
      BY <2>2, <2>3
  <1>6. CASE RenderEnd
    <2>1. /\ rendering' = None /\ UNCHANGED <<currentActivity, stackActivities>>
      BY <1>6 DEF RenderEnd
    <2>2. Screens' = Screens
      BY <2>1 DEF Screens
    <2> QED
      BY <2>1, <2>2 DEF Navigation!Painted, Navigation!Next, Navigation!vars
  <1>7. CASE WakeUp
    <2>1. Screens' = <<>> /\ rendering' = None
      BY <1>7 DEF WakeUp, Screens
    <2> QED
      BY <2>1 DEF Navigation!Reset, Navigation!Next
  <1>8. CASE Boot
    BY <1>2, <1>3, <1>8 DEF Boot, BootSplash, BootRoute, BootWait, BootDone, ReplaceActivity
  <1>9. CASE User
    BY <1>2, <1>9 DEF User, PanelGesture, HomeGesture, GoToSleep, PushActivity, ReplaceActivity
  <1>10. CASE ActivityCode
    BY <1>2, <1>10
       DEF ActivityCode, Navigate, StartActivityForResult, PopActivity, GoTo, PushActivity,
           ReplaceActivity, TakeRenderLock, GiveRenderLock, WriteState, RequestUpdate,
           RequestUpdateAndWait
  <1>11. CASE Loop
    BY <1>2, <1>3, <1>11
       DEF Loop, RunActivity, NotifyRender, Rendered, GoHome, EndOfPass, PushActivity
  <1>12. CASE Return \/ RenderTake \/ RenderWake \/ RenderRelease \/ RenderRequests \/ UNCHANGED vars
    BY <1>2, <1>12 DEF Return, RenderTake, RenderWake, RenderRelease, RenderRequests
  <1> QED
    BY <1>4, <1>5, <1>6, <1>7, <1>8, <1>9, <1>10, <1>11, <1>12 DEF Next, Render

\* The two tasks with their queues, flags and locks implement the stack of screens, of which
\* only the top one is painted and which never changes while it is.
THEOREM ManagerImplementsStack == Spec => ImplementsNavigation
  <1>1. Init => Bare /\ Navigation!Init
    BY DEF Init, Bare, Navigation!Init, Screens
  <1>2. IInv /\ Bare /\ [Next]_vars => Bare'
    BY BareStep DEF IInv, TypeOK
  <1>3. IInv /\ IInv' /\ Bare /\ Bare' /\ [Next]_vars => [Navigation!Next]_(Navigation!vars)
    BY ScreensStep
  <1> QED
    BY <1>1, <1>2, <1>3, Invariance, PTL DEF Spec, ImplementsNavigation, Navigation!Spec

-----------------------------------------------------------------------------
(* Result handlers.  As long as the gesture for the quick panel overwrites  *)
(* no child that was asked for, whoever waits for a child waits for the one *)
(* right above, launched or still pending.                                  *)

GestureDropsNoChild == PanelGesture => awaiting[currentActivity] = None

Above(n) == IF n < Len(stackActivities) THEN stackActivities[n + 1] ELSE currentActivity

Handlers ==
    /\ \A i \in Instances : kind[i] = "free" \/ i = pendingActivity => awaiting[i] = None
    /\ currentActivity # None /\ awaiting[currentActivity] # None =>
            \/ pendingAction \in {"Replace", "Pop"}
            \/ pendingAction = "Push" /\ pendingActivity = awaiting[currentActivity]
    /\ \A n \in 1 .. Len(stackActivities) : awaiting[stackActivities[n]] \in {None, Above(n)}

\* A request that registers no handler: an alert, the quick panel, or a replacement.
LEMMA QueuedHandlers ==
    ASSUME ValuesOK, Ownership, Handlers, NEW i \in Free, NEW k \in Kinds,
           kind' = Rebuilt(Overwritten, i, k), pendingActivity' = i,
           UNCHANGED <<currentActivity, stackActivities, awaiting>>,
           \/ pendingAction' = "Replace" \/ pendingAction = "None"
           \/ awaiting[currentActivity] = None
    PROVE  Handlers'
  <1>1. i \in Instances /\ awaiting[i] = None
    BY DEF Free, Handlers
  <1>2. \A j \in Instances : kind'[j] = "free" => kind[j] = "free" \/ j = pendingActivity
    BY DEF Rebuilt, Overwritten, ValuesOK
  <1>3. \A j \in Instances : kind'[j] = "free" \/ j = i => awaiting'[j] = None
    BY <1>1, <1>2 DEF Handlers
  <1>4. \A n \in 1 .. Len(stackActivities) : Above(n)' = Above(n)
    BY DEF Above
  <1>5. currentActivity' # None /\ awaiting'[currentActivity'] # None => pendingAction' = "Replace"
    BY DEF Handlers
  <1>6. \A n \in 1 .. Len(stackActivities') :
            awaiting'[stackActivities'[n]] \in {None, Above(n)'}
    BY <1>4 DEF Handlers
  <1> QED
    BY <1>3, <1>5, <1>6 DEF Handlers

\* A request for a child, whose result the current activity will handle.
LEMMA AskedHandlers ==
    ASSUME ValuesOK, Ownership, Handlers, currentActivity # None, StartActivityForResult
    PROVE  Handlers'
  <1>1. PICK i \in Instances : /\ PushActivity(i, "App")
                               /\ awaiting' = [awaiting EXCEPT ![currentActivity] = i]
    BY DEF StartActivityForResult
  <1>2. /\ i \in Free /\ awaiting[i] = None /\ currentActivity \in Instances
        /\ kind[currentActivity] # "free" /\ currentActivity # i
        /\ currentActivity # pendingActivity
        /\ pendingActivity' = i /\ pendingAction' = "Push"
        /\ UNCHANGED <<currentActivity, stackActivities>>
    BY <1>1 DEF PushActivity, Free, Handlers, Ownership, ValuesOK
  <1>3. \A j \in Instances :
            kind'[j] = "free" => kind[j] = "free" \/ j = pendingActivity
    BY <1>1 DEF PushActivity, Rebuilt, Overwritten, ValuesOK
  <1>4. \A j \in Instances : j # currentActivity => awaiting'[j] = awaiting[j]
    BY <1>1, <1>2 DEF ValuesOK
  <1>5. awaiting'[currentActivity] = i
    BY <1>1, <1>2 DEF ValuesOK
  <1>6. \A j \in Instances : kind'[j] = "free" => j # currentActivity
    BY <1>1, <1>2 DEF PushActivity, Rebuilt, Overwritten
  <1>7. \A j \in Instances : kind'[j] = "free" \/ j = i => awaiting'[j] = None
    BY <1>2, <1>3, <1>4, <1>6 DEF Handlers
  <1>8. \A n \in 1 .. Len(stackActivities) :
            /\ Above(n)' = Above(n) /\ awaiting'[stackActivities[n]] = awaiting[stackActivities[n]]
    <2> SUFFICES ASSUME NEW n \in 1 .. Len(stackActivities)
                 PROVE  /\ Above(n)' = Above(n)
                        /\ awaiting'[stackActivities[n]] = awaiting[stackActivities[n]]
      OBVIOUS
    <2>1. stackActivities[n] \in Instances /\ stackActivities[n] # currentActivity
      BY ElementOfSeq DEF ValuesOK, Ownership
    <2>2. Above(n)' = Above(n)
      BY <1>2 DEF Above
    <2> QED
      BY <1>4, <2>1, <2>2
  <1>9. \A n \in 1 .. Len(stackActivities') :
            awaiting'[stackActivities'[n]] \in {None, Above(n)'}
    BY <1>2, <1>8 DEF Handlers
  <1> QED
    BY <1>2, <1>5, <1>7, <1>9 DEF Handlers

LEMMA CancelledHandlers ==
    ASSUME ValuesOK, Handlers, PopActivity
    PROVE  Handlers'
  <1>1. /\ pendingActivity' = None /\ pendingAction' = "Pop"
        /\ UNCHANGED <<currentActivity, stackActivities, awaiting>>
        /\ kind' = [j \in Instances |-> IF j = pendingActivity THEN "free" ELSE kind[j]]
    BY DEF PopActivity, Destroyed, Overwritten
  <1>2. \A j \in Instances : kind'[j] = "free" \/ j = pendingActivity' => awaiting'[j] = None
    BY <1>1, InstancesAssumption DEF Handlers
  <1>3. \A n \in 1 .. Len(stackActivities) : Above(n)' = Above(n)
    BY <1>1 DEF Above
  <1>4. \A n \in 1 .. Len(stackActivities') :
            awaiting'[stackActivities'[n]] \in {None, Above(n)'}
    BY <1>1, <1>3 DEF Handlers
  <1> QED
    BY <1>1, <1>2, <1>4 DEF Handlers

LEMMA LaunchedHandlers ==
    ASSUME ValuesOK, Serving, Bare, Handlers, NEW i, NEW k \in Kinds, LaunchImmediately(i, k)
    PROVE  Handlers'
  <1>1. /\ i \in Instances /\ awaiting[i] = None /\ currentActivity' = i
        /\ stackActivities' = <<>> /\ Len(<<>>) = 0
        /\ UNCHANGED <<pendingActivity, pendingAction, awaiting>>
    BY EmptySeq DEF LaunchImmediately, Free, Handlers, Bare
  <1>2. \A j \in Instances : kind'[j] = "free" => kind[j] = "free"
    BY DEF LaunchImmediately, Rebuilt, ValuesOK
  <1> QED
    BY <1>1, <1>2 DEF Handlers

LEMMA PoppedHandlers ==
    ASSUME ValuesOK, Serving, Ownership, Handlers, DrainPop
    PROVE  Handlers'
  <1> DEFINE s == stackActivities
  <1>1. /\ pendingActivity' = None /\ currentActivity \in Instances
        /\ kind' = [j \in Instances |-> IF j = currentActivity THEN "free" ELSE kind[j]]
        /\ currentActivity' = Last(s) /\ stackActivities' = Front(s)
        /\ awaiting' = HandlersAfterPop(Last(s))
    BY DEF DrainPop, Destroyed, Serving, RequestIsServable, ValuesOK
  <1>2. /\ Len(s) \in Nat \ {0} /\ Last(s) = s[Len(s)] /\ Last(s) \in Instances
        /\ Len(Front(s)) = Len(s) - 1
        /\ \A n \in 1 .. Len(s) - 1 : Front(s)[n] = s[n]
    BY FrontFacts DEF DrainPop, ValuesOK
  <1>3. /\ \A j \in Instances : awaiting'[j] \in {None, awaiting[j]}
        /\ awaiting'[currentActivity] = None /\ awaiting'[Last(s)] = None
    BY <1>1, <1>2 DEF HandlersAfterPop, Unhandled, ValuesOK
  <1>4. \A j \in Instances : kind'[j] = "free" \/ j = pendingActivity' => awaiting'[j] = None
    BY <1>1, <1>3, InstancesAssumption DEF Handlers
  <1>5. \A n \in 1 .. Len(stackActivities') :
            awaiting'[stackActivities'[n]] \in {None, Above(n)'}
    <2> SUFFICES ASSUME NEW n \in 1 .. Len(s) - 1
                 PROVE  awaiting'[Front(s)[n]] \in {None, Above(n)'}
      BY <1>1, <1>2
    <2>1. n \in 1 .. Len(s) /\ s[n] \in Instances
      BY <1>2, ElementOfSeq DEF ValuesOK
    <2>2. awaiting[s[n]] \in {None, s[n + 1]}
      BY <1>2, <2>1 DEF Handlers, Above
    <2>3. Above(n)' = s[n + 1]
      <3>1. CASE n = Len(s) - 1
        BY <1>1, <1>2, <3>1 DEF Above
      <3>2. CASE n < Len(s) - 1
        <4>1. n + 1 \in 1 .. Len(s) - 1
          BY <1>2, <3>2
        <4> QED
          BY <1>1, <1>2, <3>2, <4>1 DEF Above
      <3> QED
        BY <1>2, <3>1, <3>2
    <2> QED
      BY <1>2, <1>3, <2>1, <2>2, <2>3
  <1> QED
    BY <1>1, <1>3, <1>4, <1>5 DEF Handlers

LEMMA EmptiedHandlers ==
    ASSUME ValuesOK, Serving, Handlers, DrainPopLast
    PROVE  Handlers'
  <1>1. /\ pendingActivity' = None /\ currentActivity' = None
        /\ stackActivities' = <<>> /\ Len(<<>>) = 0
        /\ kind' = [j \in Instances |-> IF j = currentActivity THEN "free" ELSE kind[j]]
        /\ awaiting' = [j \in Instances |-> IF j = currentActivity THEN None ELSE awaiting[j]]
    BY EmptySeq DEF DrainPopLast, Destroyed, Unhandled, Serving, RequestIsServable, ValuesOK
  <1> QED
    BY <1>1, InstancesAssumption DEF Handlers

LEMMA PushedHandlers ==
    ASSUME ValuesOK, Serving, Ownership, Handlers, currentActivity # None, DrainPush
    PROVE  Handlers'
  <1> DEFINE s == stackActivities
             t == Append(s, currentActivity)
  <1>1. /\ pendingActivity \in Instances /\ currentActivity \in Instances
        /\ pendingAction = "Push" /\ awaiting[pendingActivity] = None
        /\ UNCHANGED <<kind, awaiting>> /\ currentActivity' = pendingActivity
        /\ pendingActivity' = None /\ stackActivities' = t
    BY DEF DrainPush, Launch, Stacked, ValuesOK, Handlers
  <1>2. /\ Len(s) \in Nat /\ Len(t) = Len(s) + 1
        /\ \A n \in 1 .. Len(s) : t[n] = s[n]
        /\ t[Len(s) + 1] = currentActivity
    BY <1>1, AppendProperties, LenProperties DEF ValuesOK
  <1> HIDE DEF t
  <1>3. \A j \in Instances : kind'[j] = "free" \/ j = pendingActivity' => awaiting'[j] = None
    BY <1>1, InstancesAssumption DEF Handlers
  <1>4. ASSUME NEW n \in 1 .. Len(t)
        PROVE  awaiting[t[n]] \in {None, Above(n)'}
    <2>1. CASE n = Len(t)
      BY <1>1, <1>2, <2>1 DEF Handlers, Above
    <2>2. CASE n \in 1 .. Len(s)
      <3>1. awaiting[s[n]] \in {None, Above(n)}
        BY <2>2 DEF Handlers
      <3>2. Above(n)' = t[n + 1]
        BY <1>1, <1>2, <2>2 DEF Above
      <3>3. CASE n = Len(s)
        BY <1>2, <2>2, <3>1, <3>2, <3>3 DEF Above
      <3>4. CASE n < Len(s)
        <4>1. n + 1 \in 1 .. Len(s)
          BY <1>2, <2>2, <3>4
        <4> QED
          BY <1>2, <2>2, <3>1, <3>2, <3>4, <4>1 DEF Above
      <3> QED
        BY <1>2, <2>2, <3>3, <3>4
    <2> QED
      BY <1>2, <2>1, <2>2
  <1> QED
    BY <1>1, <1>3, <1>4 DEF Handlers

LEMMA ReplacedHandlers ==
    ASSUME ValuesOK, Serving, Handlers, DrainReplace
    PROVE  Handlers'
  <1> DEFINE dead == {currentActivity} \cup ToSet(stackActivities)
  <1>1. /\ pendingActivity \in Instances /\ awaiting[pendingActivity] = None
        /\ currentActivity' = pendingActivity
        /\ pendingActivity' = None /\ stackActivities' = <<>> /\ Len(<<>>) = 0
    BY EmptySeq DEF DrainReplace, Launch, ValuesOK, Handlers
  <1>2. /\ kind' = [j \in Instances |-> IF j \in dead THEN "free" ELSE kind[j]]
        /\ awaiting' = [j \in Instances |-> IF j \in dead THEN None ELSE awaiting[j]]
    BY DEF DrainReplace, Destroyed, Unhandled
  <1> HIDE DEF dead
  <1> QED
    BY <1>1, <1>2, InstancesAssumption DEF Handlers

LEMMA HandlersStep ==
    ASSUME [GestureDropsNoChild]_vars, ValuesOK, Serving, Ownership, Bare, Handlers, [Next]_vars
    PROVE  Handlers'
  <1>1. CASE UNCHANGED navVars
    BY <1>1 DEF Handlers, Above
  <1>2. CASE \E i \in Instances, k \in Kinds : LaunchImmediately(i, k)
    BY <1>2, LaunchedHandlers
  <1>3. CASE \E i \in Instances, k \in Kinds : ReplaceActivity(i, k)
    BY <1>3, QueuedHandlers DEF ReplaceActivity
  <1>4. CASE Boot
    BY <1>1, <1>2, <1>3, <1>4 DEF Boot, BootSplash, BootRoute, BootWait, BootDone
  <1>5. CASE User
    <2>1. CASE PanelGesture
      <3>1. CASE UNCHANGED vars
        BY <1>1, <3>1
      <3>2. CASE awaiting[currentActivity] = None
        <4>1. "Panel" \in Kinds
          BY DEF Kinds
        <4> QED
          BY <2>1, <3>2, <4>1, QueuedHandlers DEF PanelGesture, PushActivity
      <3> QED
        BY <2>1, <3>1, <3>2 DEF GestureDropsNoChild
    <2> QED
      BY <1>3, <1>5, <2>1 DEF User, HomeGesture, GoToSleep
  <1>6. CASE ActivityCode
    <2>1. CASE Navigate
      <3>1. currentActivity # None
        BY <2>1 DEF Navigate, InCallback, Serving
      <3> QED
        BY <1>3, <2>1, <3>1, AskedHandlers, CancelledHandlers DEF Navigate, GoTo
    <2> QED
      BY <1>1, <1>6, <2>1
         DEF ActivityCode, TakeRenderLock, GiveRenderLock, WriteState, RequestUpdate,
             RequestUpdateAndWait
  <1>7. CASE Loop
    <2>1. CASE EndOfPass
      <3>1. CASE \E i \in Instances : PushActivity(i, "Alert")
        BY <2>1, <3>1, QueuedHandlers DEF EndOfPass, PushActivity
      <3> QED
        BY <1>1, <2>1, <3>1 DEF EndOfPass
    <2> QED
      BY <1>1, <1>2, <1>7, <2>1 DEF Loop, RunActivity, NotifyRender, Rendered, GoHome
  <1>8. CASE Drain
    <2>1. currentActivity # None
      BY <1>8 DEF Drain, MayDrain, Serving
    <2> QED
      BY <1>8, <2>1, PoppedHandlers, EmptiedHandlers, PushedHandlers, ReplacedHandlers
         DEF Drain
  <1>9. CASE WakeUp
    <2>1. /\ currentActivity' = None /\ awaiting' = [i \in Instances |-> None]
          /\ stackActivities' = <<>> /\ Len(<<>>) = 0
      BY <1>9, EmptySeq DEF WakeUp
    <2> QED
      BY <2>1 DEF Handlers
  <1>10. CASE Return \/ Render \/ RenderBegin \/ RenderRequests \/ UNCHANGED vars
    BY <1>1, <1>10 DEF Return, Render, RenderTake, RenderBegin, RenderRequests,
                       RenderEnd, RenderWake, RenderRelease
  <1> QED
    BY <1>4, <1>5, <1>6, <1>7, <1>8, <1>9, <1>10 DEF Next

\* A pop hands the result to the activity below only if that one waited for nobody else.
LEMMA PopMatches ==
    ASSUME IInv, Bare, Handlers, [Next]_vars, NEW p \in Instances,
           pendingAction = "Pop", currentActivity' = p, currentActivity # p
    PROVE  awaiting[p] \in {None, currentActivity}
  <1>1. ValuesOK /\ Serving /\ currentActivity # None
    BY DEF IInv, TypeOK, Serving, RequestIsServable
  <1>2. CASE DrainPop
    <2>1. /\ stackActivities # <<>> /\ stackActivities \in Seq(Instances)
          /\ p = Last(stackActivities)
      BY <1>1, <1>2 DEF DrainPop, ValuesOK
    <2>2. Len(stackActivities) \in Nat \ {0} /\ p = stackActivities[Len(stackActivities)]
      BY <2>1, FrontFacts
    <2> QED
      BY <2>2 DEF Handlers, Above
  <1>3. CASE ~DrainPop
    <2>1. currentActivity' \in {currentActivity, None}
      <3> USE <1>1, <1>3
          DEF LaunchImmediately, PushActivity, ReplaceActivity, PopActivity
      <3>1. CASE Boot \/ User
        BY <3>1 DEF Boot, User, BootSplash, BootRoute, BootWait, BootDone, PanelGesture,
                    HomeGesture, GoToSleep
      <3>2. CASE ActivityCode
        BY <3>2 DEF ActivityCode, Navigate, StartActivityForResult, GoTo, TakeRenderLock,
                    GiveRenderLock, WriteState, RequestUpdate, RequestUpdateAndWait
      <3>3. CASE Loop
        BY <3>3 DEF Loop, RunActivity, NotifyRender, Rendered, GoHome, EndOfPass
      <3>4. CASE Drain
        BY <3>4 DEF Drain, DrainPopLast, DrainPush, DrainReplace
      <3>5. CASE Return \/ WakeUp \/ Render \/ RenderBegin \/ RenderRequests \/ UNCHANGED vars
        BY <3>5 DEF Return, WakeUp, Render, RenderTake, RenderBegin, RenderRequests,
                    RenderEnd, RenderWake, RenderRelease
      <3> QED
        BY <3>1, <3>2, <3>3, <3>4, <3>5 DEF Next
    <2> QED
      BY <2>1, InstancesAssumption
  <1> QED
    BY <1>2, <1>3

\* A result handler is only ever called with the result of the child it was registered for, on
\* every board, unless the gesture for the quick panel comes while that child is still pending.
THEOREM ResultsReachTheirHandler == Spec /\ [][GestureDropsNoChild]_vars => HandlerMatchesChild
  <1> DEFINE Matches == \A p \in Instances :
                            pendingAction = "Pop" /\ currentActivity' = p /\ currentActivity # p
                                => awaiting[p] \in {None, currentActivity}
  <1>1. Init => Bare /\ Handlers
    BY EmptySeq DEF Init, Bare, Handlers
  <1>2. IInv /\ Bare /\ Handlers /\ [Next]_vars /\ [GestureDropsNoChild]_vars => Bare' /\ Handlers'
    BY BareStep, HandlersStep DEF IInv, TypeOK
  <1>3. IInv /\ Bare /\ Handlers /\ [Next]_vars => [Matches]_vars
    BY PopMatches
  <1> HIDE DEF Matches
  <1>4. Spec /\ [][GestureDropsNoChild]_vars => [][Matches]_vars
    BY <1>1, <1>2, <1>3, Invariance, PTL DEF Spec
  <1> QED
    BY <1>4 DEF Matches, HandlerMatchesChild

-----------------------------------------------------------------------------
(* What is on the panel.  A render task that found no activity to paint was *)
(* overtaken by goHome(), and Home does not wait for it.                    *)

NothingDue == mainPc = "boot" => renderPc = "take" /\ ~renderNotified

Waits == mainPc \in {"notify", "blocked"}
BlankDraw ==
    renderPc = "draw" /\ rendering = None =>
        /\ ~Waits /\ mainPc # "booted"
        /\ mainPc = "callback" => callback # "boot"
        /\ IF currentActivity = None THEN mainPc = "goHome" ELSE kind[currentActivity] = "Home"
FreshDraw == renderPc = "draw" /\ rendering # None => screen # "stale"

OneWakeUp ==
    /\ ~Waits => ~waitingTask /\ ~woken /\ ~mainNotified
    /\ waitingTask => ~woken /\ ~mainNotified
    /\ woken => ~mainNotified
WokenWhenShown == woken \/ mainNotified => screen = "shown"

Shows == NothingDue /\ BlankDraw /\ FreshDraw /\ OneWakeUp /\ WokenWhenShown

LEMMA NothingDueStep ==
    ASSUME NothingDue, [Next]_vars
    PROVE  NothingDue'
  <1> USE DEF NothingDue, Next, Boot, User, ActivityCode, Loop, Render
  <1>1. CASE Boot
    BY <1>1 DEF BootSplash, BootRoute, BootWait, BootDone, Enter
  <1>2. CASE User
    BY <1>2 DEF PanelGesture, HomeGesture, GoToSleep
  <1>3. CASE ActivityCode
    BY <1>3 DEF Navigate, TakeRenderLock, GiveRenderLock, WriteState, RequestUpdate,
                RequestUpdateAndWait, InCallback
  <1>4. CASE Loop
    BY <1>4 DEF RunActivity, NotifyRender, Rendered, GoHome, EndOfPass, Enter
  <1>5. CASE Drain
    BY <1>5 DEF Drain, MayDrain, DrainPop, DrainPopLast, DrainPush, DrainReplace, Launch, Enter
  <1>6. CASE Return \/ WakeUp
    BY <1>6 DEF Return, WakeUp
  <1>7. CASE Render \/ RenderBegin \/ RenderRequests
    BY <1>7 DEF RenderTake, RenderBegin, RenderRequests, RenderEnd, RenderWake, RenderRelease
  <1>8. CASE UNCHANGED vars
    BY <1>8
  <1> QED
    BY <1>1, <1>2, <1>3, <1>4, <1>5, <1>6, <1>7, <1>8

LEMMA OneWakeUpStep ==
    ASSUME Waking, OneWakeUp, [Next]_vars
    PROVE  OneWakeUp'
  <1> USE DEF OneWakeUp, Waits, Next, Boot, User, ActivityCode, Loop, Render
  <1>1. CASE Boot
    BY <1>1 DEF BootSplash, BootRoute, BootWait, BootDone, Enter
  <1>2. CASE User
    BY <1>2 DEF PanelGesture, HomeGesture, GoToSleep
  <1>3. CASE ActivityCode
    BY <1>3 DEF Navigate, TakeRenderLock, GiveRenderLock, WriteState, RequestUpdate,
                RequestUpdateAndWait, InCallback
  <1>4. CASE Loop
    BY <1>4 DEF RunActivity, NotifyRender, Rendered, GoHome, EndOfPass, Enter
  <1>5. CASE Drain
    BY <1>5 DEF Drain, MayDrain, DrainPop, DrainPopLast, DrainPush, DrainReplace, Launch, Enter
  <1>6. CASE Return \/ WakeUp
    <2>1. CASE Return
      BY <2>1 DEF Return
    <2>2. CASE WakeUp
      <3>1. mainPc' = "boot" /\ ~waitingTask' /\ ~woken' /\ ~mainNotified'
        BY <2>2, Zenon DEF WakeUp
      <3> QED
        BY <3>1
    <2> QED
      BY <1>6, <2>1, <2>2
  <1>7. CASE RenderEnd
    BY <1>7, Zenon DEF RenderEnd, Waking
  <1>8. CASE RenderWake
    BY <1>8, Zenon DEF RenderWake
  <1>9. CASE RenderTake \/ RenderRelease \/ RenderBegin \/ RenderRequests \/ UNCHANGED vars
    BY <1>9 DEF RenderTake, RenderBegin, RenderRequests, RenderRelease
  <1> QED
    BY <1>1, <1>2, <1>3, <1>4, <1>5, <1>6, <1>7, <1>8, <1>9

LEMMA BlankDrawStep ==
    ASSUME ValuesOK, Locking, Painting, Serving, Ownership, NothingDue, BlankDraw, [Next]_vars
    PROVE  BlankDraw'
  <1> USE InstancesAssumption DEF BlankDraw, Waits
  <1>1. ASSUME NEW i, NEW k \in Kinds, PushActivity(i, k) \/ ReplaceActivity(i, k),
               currentActivity # None
        PROVE  currentActivity' = currentActivity /\ kind'[currentActivity] = kind[currentActivity]
    <2>1. /\ i \in Instances /\ kind[i] = "free" /\ kind' = Rebuilt(Overwritten, i, k)
          /\ currentActivity' = currentActivity
      BY <1>1 DEF PushActivity, ReplaceActivity, Free
    <2>2. /\ currentActivity \in Instances /\ currentActivity # i
          /\ currentActivity # pendingActivity
      BY <1>1, <2>1 DEF ValuesOK, Ownership
    <2> QED
      BY <2>1, <2>2 DEF Rebuilt, Overwritten
  <1>2. ASSUME PopActivity, currentActivity # None
        PROVE  currentActivity' = currentActivity /\ kind'[currentActivity] = kind[currentActivity]
    BY <1>2 DEF PopActivity, Destroyed, Overwritten, ValuesOK, Ownership
  <1>3. CASE Boot
    <2>1. CASE mainPc = "boot"
      <3>1. renderPc' = "take"
        BY <1>3, <2>1 DEF NothingDue, Boot, BootSplash, BootRoute, BootWait, BootDone
      <3> QED
        BY <3>1
    <2>2. CASE mainPc = "booted"
      BY <1>3, <2>2 DEF Boot, BootSplash, BootRoute, BootWait, BootDone
    <2> QED
      BY <1>3, <2>1, <2>2 DEF Boot, BootSplash, BootRoute, BootWait, BootDone
  <1>4. CASE User
    <2>1. currentActivity # None
      BY <1>4 DEF User, PanelGesture, HomeGesture, GoToSleep, Serving
    <2>2. currentActivity' = currentActivity /\ kind'[currentActivity] = kind[currentActivity]
      BY <1>1, <1>4, <2>1 DEF User, PanelGesture, HomeGesture, GoToSleep
    <2>3. renderPc' = renderPc /\ rendering' = rendering /\ mainPc' \in {"top", "asleep", "drain"}
      BY <1>4 DEF User, PanelGesture, HomeGesture, GoToSleep
    <2> QED
      BY <2>1, <2>2, <2>3
  <1>5. CASE Navigate
    <2>1. currentActivity # None
      BY <1>5 DEF Navigate, InCallback, Serving
    <2>2. currentActivity' = currentActivity /\ kind'[currentActivity] = kind[currentActivity]
      BY <1>1, <1>2, <1>5, <2>1 DEF Navigate, StartActivityForResult, GoTo
    <2> QED
      BY <1>5, <2>1, <2>2 DEF Navigate
  <1>6. CASE ActivityCode /\ ~Navigate
    BY <1>6 DEF ActivityCode, TakeRenderLock, GiveRenderLock, WriteState, RequestUpdate,
                RequestUpdateAndWait, InCallback, Serving
  <1>7. CASE EndOfPass
    <2>1. currentActivity # None
      BY <1>7 DEF EndOfPass, Serving
    <2>2. currentActivity' = currentActivity /\ kind'[currentActivity] = kind[currentActivity]
      BY <1>1, <1>7, <2>1 DEF EndOfPass
    <2>3. renderPc' = renderPc /\ rendering' = rendering /\ mainPc' \in {"top", "asleep"}
      BY <1>7 DEF EndOfPass
    <2> QED
      BY <2>1, <2>2, <2>3
  <1>8. CASE GoHome
    <2>1. PICK i \in Instances : LaunchImmediately(i, "Home")
      BY <1>8 DEF GoHome
    <2>2. currentActivity' = i /\ kind'[i] = "Home" /\ i # None
      BY <2>1 DEF LaunchImmediately, Rebuilt
    <2> QED
      BY <1>8, <2>2 DEF GoHome, Enter
  <1>9. CASE RunActivity \/ NotifyRender \/ Rendered
    BY <1>9 DEF RunActivity, NotifyRender, Rendered, Enter, Serving
  <1>10. CASE Return
    BY <1>10 DEF Return, Serving
  <1>11. CASE Drain
    <2>1. renderPc' = renderPc /\ renderPc # "draw"
      BY <1>11 DEF Drain, MayDrain, Locking
    <2> QED
      BY <2>1
  <1>12. CASE WakeUp
    BY <1>12 DEF WakeUp
  <1>13. CASE RenderBegin
    <2>1. mainPc # "boot"
      BY <1>13 DEF RenderBegin, NothingDue
    <2> QED
      BY <1>13, <2>1 DEF RenderBegin, Serving
  <1>14. CASE Render \/ RenderRequests \/ UNCHANGED vars
    BY <1>14 DEF Render, RenderTake, RenderRequests, RenderEnd, RenderWake, RenderRelease
  <1> QED
    BY <1>3, <1>4, <1>5, <1>6, <1>7, <1>8, <1>9, <1>10, <1>11, <1>12, <1>13, <1>14
       DEF Next, Loop

\* An activity changes what its render() shows only while it holds RenderLock.
WritesUnderLock == WriteState /\ screen' # screen => renderingMutex = "main"

LEMMA FreshDrawStep ==
    ASSUME [WritesUnderLock]_vars, Locking, Painting, FreshDraw, [Next]_vars
    PROVE  FreshDraw'
  <1> USE DEF FreshDraw, Locking, Painting, Next, Boot, User, ActivityCode, Loop, Render
  <1>1. CASE Boot
    BY <1>1 DEF BootSplash, BootRoute, BootWait, BootDone, LaunchImmediately
  <1>2. CASE User
    BY <1>2 DEF PanelGesture, HomeGesture, GoToSleep
  <1>3. CASE ActivityCode
    <2>1. CASE WriteState
      <3>1. screen' = screen \/ renderingMutex = "main"
        BY <2>1 DEF WritesUnderLock
      <3> QED
        BY <2>1, <3>1 DEF WriteState
    <2>2. CASE ~WriteState
      BY <1>3, <2>2 DEF Navigate, TakeRenderLock, GiveRenderLock, RequestUpdate,
                        RequestUpdateAndWait
    <2> QED
      BY <2>1, <2>2
  <1>4. CASE Loop
    BY <1>4 DEF RunActivity, NotifyRender, Rendered, GoHome, LaunchImmediately, EndOfPass
  <1>5. CASE Drain
    BY <1>5 DEF Drain, MayDrain
  <1>6. CASE Return \/ WakeUp
    BY <1>6 DEF Return, WakeUp
  <1>7. CASE Render \/ RenderBegin \/ RenderRequests
    BY <1>7 DEF RenderTake, RenderBegin, RenderRequests, RenderEnd, RenderWake, RenderRelease
  <1>8. CASE UNCHANGED vars
    BY <1>8
  <1> QED
    BY <1>1, <1>2, <1>3, <1>4, <1>5, <1>6, <1>7, <1>8

\* The main task writes nothing while it waits, and the paint that wakes it shows what is there.
LEMMA WokenWhenShownStep ==
    ASSUME ValuesOK, BlankDraw, FreshDraw, OneWakeUp, WokenWhenShown, [Next]_vars
    PROVE  WokenWhenShown'
  <1>1. CASE ~Waits
    <2>1. ~waitingTask /\ ~woken /\ ~mainNotified
      BY <1>1 DEF OneWakeUp
    <2>2. ~woken' /\ ~mainNotified'
      <3> USE <2>1 DEF Next, Boot, User, ActivityCode, Loop, Render
      <3>1. CASE Boot \/ User \/ Return \/ Drain
        <4>1. UNCHANGED <<woken, mainNotified>>
          BY <3>1, Zenon DEF BootSplash, BootRoute, BootWait, BootDone, PanelGesture,
                             HomeGesture, GoToSleep, Return, Drain
        <4> QED
          BY <4>1, Zenon
      <3>2. CASE ActivityCode \/ Loop
        BY <3>2 DEF Navigate, TakeRenderLock, GiveRenderLock, WriteState, RequestUpdate,
                    RequestUpdateAndWait, RunActivity, NotifyRender, Rendered, GoHome, EndOfPass
      <3>3. CASE RenderTake \/ RenderRelease \/ RenderBegin \/ RenderRequests \/ UNCHANGED vars
        BY <3>3 DEF RenderTake, RenderRelease, RenderBegin, RenderRequests
      <3>4. CASE RenderEnd
        BY <3>4, Zenon DEF RenderEnd
      <3>5. CASE RenderWake
        BY <3>5, Zenon DEF RenderWake
      <3>6. CASE WakeUp
        BY <3>6, Zenon DEF WakeUp
      <3> QED
        BY <3>1, <3>2, <3>3, <3>4, <3>5, <3>6
    <2> QED
      BY <2>2 DEF WokenWhenShown
  <1>2. CASE Waits
    <2> USE DEF WokenWhenShown
    <2>1. CASE NotifyRender \/ Rendered
      BY <2>1 DEF NotifyRender, Rendered
    <2>2. CASE RenderEnd
      <3>1. CASE waitingTask
        <4>1. screen \in {"drawing", "shown"}
          BY <1>2, <2>2 DEF BlankDraw, FreshDraw, RenderEnd, ValuesOK
        <4> QED
          BY <2>2, <4>1 DEF RenderEnd
      <3>2. CASE ~waitingTask
        <4>1. ~woken' /\ mainNotified' = mainNotified
              /\ (screen = "shown" => screen' = "shown")
          BY <2>2, <3>2 DEF RenderEnd
        <4> QED
          BY <4>1
      <3> QED
        BY <3>1, <3>2
    <2>3. CASE RenderWake
      BY <2>3, Zenon DEF RenderWake
    <2>4. CASE RenderTake \/ RenderRelease \/ RenderBegin \/ RenderRequests \/ UNCHANGED vars
      BY <2>4 DEF RenderTake, RenderRelease, RenderBegin, RenderRequests
    <2>5. CASE Boot \/ User \/ ActivityCode \/ Return \/ Drain \/ WakeUp
      BY <1>2, <2>5 DEF Waits, Boot, User, ActivityCode, BootSplash, BootRoute, BootWait, BootDone,
                        PanelGesture, HomeGesture, GoToSleep, Navigate, InCallback,
                        TakeRenderLock, GiveRenderLock, WriteState, RequestUpdate,
                        RequestUpdateAndWait, Return, Drain, MayDrain, WakeUp
    <2>6. CASE RunActivity \/ GoHome \/ EndOfPass
      BY <1>2, <2>6 DEF Waits, RunActivity, GoHome, EndOfPass
    <2> QED
      BY <2>1, <2>2, <2>3, <2>4, <2>5, <2>6 DEF Next, Loop, Render
  <1> QED
    BY <1>1, <1>2

\* requestUpdateAndWait() returns Rendered only when the panel shows what the main task had
\* written before the call, as docs/activity-manager.md:220 has it.
RenderedMeansShown ==
    [][mainPc = "blocked" /\ mainPc' # "blocked" => screen = "shown"]_vars

\* In a behaviour in which activities write under RenderLock only, requestUpdateAndWait() returns
\* to a panel that shows all the main task had written before the call. Some activities do not.
THEOREM WaitReturnsToThePanel == Spec /\ [][WritesUnderLock]_vars => RenderedMeansShown
  <1> DEFINE Shown == mainPc = "blocked" /\ mainPc' # "blocked" => screen = "shown"
  <1>1. Init => Shows
    BY DEF Init, Shows, NothingDue, BlankDraw, FreshDraw, OneWakeUp, WokenWhenShown
  <1>2. IInv /\ Shows /\ [Next]_vars /\ [WritesUnderLock]_vars => Shows'
    BY NothingDueStep, BlankDrawStep, FreshDrawStep, OneWakeUpStep, WokenWhenShownStep
       DEF IInv, TypeOK, Shows
  <1>3. Shows /\ [Next]_vars => [Shown]_vars
    <2> SUFFICES ASSUME Shows, [Next]_vars, mainPc = "blocked", mainPc' # "blocked"
                 PROVE  screen = "shown"
      OBVIOUS
    <2>1. CASE Rendered
      BY <2>1 DEF Rendered, Shows, WokenWhenShown
    <2>2. CASE Loop /\ ~Rendered
      BY <2>2 DEF Loop, RunActivity, NotifyRender, GoHome, EndOfPass
    <2>3. CASE Boot \/ User \/ ActivityCode \/ Return \/ Drain \/ WakeUp
      BY <2>3 DEF Boot, User, ActivityCode, BootSplash, BootRoute, BootWait, BootDone,
                  PanelGesture, HomeGesture, GoToSleep, Navigate, InCallback, TakeRenderLock,
                  GiveRenderLock, WriteState, RequestUpdate, RequestUpdateAndWait, Return,
                  Drain, MayDrain, WakeUp
    <2>4. CASE Render \/ RenderBegin \/ RenderRequests \/ UNCHANGED vars
      BY <2>4 DEF Render, RenderTake, RenderBegin, RenderRequests, RenderEnd, RenderWake,
                  RenderRelease
    <2> QED
      BY <2>1, <2>2, <2>3, <2>4 DEF Next
  <1> HIDE DEF Shown
  <1>4. Spec /\ [][WritesUnderLock]_vars => [][Shown]_vars
    BY <1>1, <1>2, <1>3, Invariance, PTL DEF Spec
  <1> QED
    BY <1>4 DEF Shown, RenderedMeansShown

\* No step of a board without the quick panel is its gesture.
LEMMA NoPanelNoGesture ==
    ASSUME ~FrontlightPresent
    PROVE  [][GestureDropsNoChild]_vars
  <1>1. [GestureDropsNoChild]_vars
    BY DEF GestureDropsNoChild, PanelGesture
  <1> QED
    BY <1>1, PTL

\* On a board without the quick panel a result always goes to the handler registered for it.
COROLLARY ResultsWithoutPanel ==
    ASSUME ~FrontlightPresent
    PROVE  Spec => HandlerMatchesChild
  BY NoPanelNoGesture, ResultsReachTheirHandler
=============================================================================
