--------------------------- MODULE ActivityManager ---------------------------
(***************************************************************************)
(* The activity manager of the firmware: the screens ("activities") on a   *)
(* stack, the navigation requests they queue, the main task that serves    *)
(* them in loop(), and the render task that paints the current activity    *)
(* under the rendering mutex (src/activities/ActivityManager.cpp).         *)
(*                                                                         *)
(* The two tasks are interleaved at every point where they touch shared    *)
(* state: the mutex, the task notifications, the waiting-task handle and   *)
(* the deferred-update flag.  What an activity does in a callback (loop(), *)
(* onEnter(), a result handler) is any sequence of calls of the manager's  *)
(* interface, with at most one navigation request per callback.            *)
(***************************************************************************)
EXTENDS Naturals, FiniteSets, Sequences, SequencesExt

CONSTANTS
    Instances,         \* identities of the activity objects alive at one time (bound)
    None,              \* the null pointer
    MaxHops,           \* bound: navigations chained inside one pass of the drain loop
    FrontlightPresent  \* Frontlight.present(): the board has the quick panel

ASSUME InstancesAssumption == None \notin Instances
ASSUME MaxHopsAssumption == MaxHops \in Nat
ASSUME BoardAssumption == FrontlightPresent \in BOOLEAN

VARIABLES
    kind,            \* what each object is; "free" when not allocated
    currentActivity, \* the activity on screen, or None
    stackActivities, \* the activities below it, oldest first
    pendingActivity, \* the activity a request wants launched, or None
    pendingAction,   \* the request: "None", "Push", "Pop", "Replace"
    awaiting,        \* resultHandler: the child its activity waits for, or None
    hasPendingAlert, \* APP_STATE.hasPendingAlert
    mainPc,          \* where the main task is
    callback,        \* the callback (or setup()) the main task is inside of
    asked,           \* has this callback already requested a navigation?
    hops,            \* launches and pops served in this pass of loop()
    sleeping,        \* is this pass the nested loop() of goToSleep()?
    requestedUpdate, \* the deferred update flag
    renderNotified,  \* the render task's notification count is not zero
    renderingMutex,  \* its holder: "free", "main" or "render"
    waitingTask,     \* waitingTaskHandle is the main task
    mainNotified,    \* the main task's notification count is not zero
    renderPc,        \* where the render task is
    rendering,       \* the activity whose render() is running, or None
    woken,           \* the render task's local "waiter" is the main task
    screen           \* observation: is the main task's last write on the panel?

navVars    == <<kind, currentActivity, stackActivities, pendingActivity,
                pendingAction, awaiting>>
frameVars  == <<callback, asked, hops, sleeping>>
flagVars   == <<requestedUpdate, renderNotified>>
waitVars   == <<waitingTask, mainNotified>>
renderVars == <<renderPc, rendering, woken>>
lockVars   == <<renderingMutex, waitVars, renderVars>>
shownVars  == <<hasPendingAlert, screen>>
vars == <<navVars, mainPc, frameVars, flagVars, lockVars, shownVars>>

Kinds == {"Splash", "App", "Home", "Alert", "Panel", "Sleep"}
Maybe == Instances \cup {None}
Free  == {i \in Instances : kind[i] = "free"}

FlagsOK ==
    /\ hasPendingAlert \in BOOLEAN
    /\ asked \in BOOLEAN /\ sleeping \in BOOLEAN
    /\ requestedUpdate \in BOOLEAN /\ renderNotified \in BOOLEAN
    /\ waitingTask \in BOOLEAN /\ mainNotified \in BOOLEAN /\ woken \in BOOLEAN

ValuesOK ==
    /\ kind \in [Instances -> Kinds \cup {"free"}]
    /\ currentActivity \in Maybe
    /\ stackActivities \in Seq(Instances)
    /\ pendingActivity \in Maybe
    /\ pendingAction \in {"None", "Push", "Pop", "Replace"}
    /\ awaiting \in [Instances -> Maybe]
    /\ mainPc \in {"boot", "booted", "top", "callback", "notify", "blocked",
                   "drain", "goHome", "asleep"}
    /\ callback \in {"setup", "boot", "loop", "enter", "handler"}
    /\ hops \in 0 .. MaxHops
    /\ renderingMutex \in {"free", "main", "render"}
    /\ renderPc \in {"take", "lock", "draw", "wake", "release"}
    /\ rendering \in Maybe
    /\ screen \in {"stale", "drawing", "shown"}

\* The type invariant: the values every variable of the manager may take.
TypeOK == ValuesOK /\ FlagsOK

Init ==
    /\ kind = [i \in Instances |-> "free"]
    /\ currentActivity = None
    /\ stackActivities = <<>>
    /\ pendingActivity = None /\ pendingAction = "None"
    /\ awaiting = [i \in Instances |-> None]
    /\ mainPc = "boot" /\ callback = "setup"
    /\ asked = FALSE /\ hops = 0 /\ sleeping = FALSE
    /\ requestedUpdate = FALSE /\ renderNotified = FALSE
    /\ renderingMutex = "free"
    /\ waitingTask = FALSE /\ mainNotified = FALSE
    /\ renderPc = "take" /\ rendering = None /\ woken = FALSE
    /\ hasPendingAlert = FALSE /\ screen = "shown"

-----------------------------------------------------------------------------
(* Requests.  unique_ptr assignment destroys the object it overwrites, and *)
(* an activity's resultHandler dies with it.                               *)
Rebuilt(dead, i, k) ==
    [j \in Instances |-> IF j = i THEN k
                         ELSE IF j \in dead THEN "free" ELSE kind[j]]
Destroyed(dead) == [j \in Instances |-> IF j \in dead THEN "free" ELSE kind[j]]
Unhandled(dead) == [j \in Instances |-> IF j \in dead THEN None ELSE awaiting[j]]

\* The pending activity a new request destroys; mutant: it is leaked.
OverwrittenLeaks == {}
Overwritten == {pendingActivity}

\* pushActivity
PushActivity(i, k) ==
    /\ i \in Free
    /\ kind' = Rebuilt(Overwritten, i, k)
    /\ pendingActivity' = i /\ pendingAction' = "Push"
    /\ UNCHANGED <<currentActivity, stackActivities>>

\* popActivity; mutant: it leaves a pending activity where it is.
PopActivityKeeping ==
    /\ pendingAction' = "Pop"
    /\ UNCHANGED <<kind, pendingActivity, currentActivity, stackActivities,
                   awaiting>>
PopActivity ==
    /\ kind' = Destroyed(Overwritten)
    /\ pendingActivity' = None /\ pendingAction' = "Pop"
    /\ UNCHANGED <<currentActivity, stackActivities, awaiting>>

\* replaceActivity while an activity runs: deferred ("delete this").
ReplaceActivity(i, k) ==
    /\ i \in Free /\ currentActivity # None
    /\ kind' = Rebuilt(Overwritten, i, k)
    /\ pendingActivity' = i /\ pendingAction' = "Replace"
    /\ UNCHANGED <<currentActivity, stackActivities, awaiting>>

\* replaceActivity with none running: at once, and without the mutex.
LaunchImmediately(i, k) ==
    /\ i \in Free /\ currentActivity = None
    /\ kind' = Rebuilt({}, i, k)
    /\ currentActivity' = i
    /\ screen' = "stale"
    /\ UNCHANGED <<stackActivities, pendingActivity, pendingAction, awaiting>>

\* Entering a callback of the current activity.
Enter(cb) == mainPc' = "callback" /\ callback' = cb /\ asked' = FALSE

-----------------------------------------------------------------------------
(* setup(): an optional splash, the routed activity, and on a silent or    *)
(* network restart one synchronous paint before the first loop().          *)

\* goToBoot(): BootActivity paints its splash itself and asks for nothing.
BootSplash ==
    /\ mainPc = "boot"
    /\ \E i \in Instances : LaunchImmediately(i, "Splash")
    /\ UNCHANGED <<mainPc, frameVars, flagVars, lockVars, hasPendingAlert>>

\* The target activity: launched at once, or queued behind the splash.
BootRoute ==
    /\ mainPc = "boot"
    /\ \E i \in Instances, k \in {"App", "Home"} :
        \/ LaunchImmediately(i, k) /\ Enter("boot")
        \/ /\ ReplaceActivity(i, k)
           /\ mainPc' = "booted"
           /\ UNCHANGED <<callback, asked, screen>>
    /\ UNCHANGED <<hops, sleeping, flagVars, lockVars, hasPendingAlert>>

\* Only without a splash does setup() wait for the first paint.
BootWait ==
    /\ mainPc = "booted" /\ kind[currentActivity] # "Splash"
    /\ waitingTask' = TRUE
    /\ mainPc' = "notify" /\ callback' = "setup"
    /\ UNCHANGED <<navVars, asked, hops, sleeping, flagVars, renderingMutex,
                   mainNotified, renderVars, shownVars>>

BootDone ==
    /\ mainPc = "booted" /\ mainPc' = "top"
    /\ UNCHANGED <<navVars, frameVars, flagVars, lockVars, shownVars>>

-----------------------------------------------------------------------------
(* The start of a pass of loop().                                          *)

\* The frontlight gesture pushes the panel and returns at once: this pass
\* serves neither the pending action nor the update flag.
PanelGesture ==
    /\ mainPc = "top" /\ FrontlightPresent
    /\ kind[currentActivity] # "Panel"
    /\ \E i \in Instances : PushActivity(i, "Panel")
    /\ mainPc' = IF sleeping THEN "asleep" ELSE "top"
    /\ UNCHANGED <<awaiting, frameVars, flagVars, lockVars, shownVars>>

\* The home gesture stands in for the activity's own loop().
HomeGesture ==
    /\ mainPc = "top" /\ pendingAction = "None"
    /\ kind[currentActivity] # "Home"
    /\ \E i \in Instances : ReplaceActivity(i, "Home")
    /\ mainPc' = "drain" /\ hops' = 0
    /\ UNCHANGED <<callback, asked, sleeping, flagVars, lockVars, shownVars>>

RunActivity ==
    /\ mainPc = "top"
    /\ Enter("loop") /\ hops' = 0
    /\ UNCHANGED <<navVars, sleeping, flagVars, lockVars, shownVars>>

\* goToSleep(): queue the sleep screen, then run loop() from within.  Called
\* by main.cpp between passes, or by a reader inside its own loop().
GoToSleep ==
    /\ ~sleeping
    /\ \/ mainPc = "top"
       \/ mainPc = "callback" /\ callback = "loop" /\ renderingMutex # "main"
    /\ \E i \in Instances : ReplaceActivity(i, "Sleep")
    /\ sleeping' = TRUE /\ mainPc' = "top"
    /\ UNCHANGED <<callback, asked, hops, flagVars, lockVars, shownVars>>

-----------------------------------------------------------------------------
(* Inside a callback.  BootActivity does nothing in any of them.           *)
InCallback == mainPc = "callback" /\ kind[currentActivity] # "Splash"

StartActivityForResult ==
    \E i \in Instances : /\ PushActivity(i, "App")
                         /\ awaiting' = [awaiting EXCEPT ![currentActivity] = i]

GoTo == \E i \in Instances, k \in {"App", "Home"} : ReplaceActivity(i, k)

\* One navigation per callback, and a bounded chain of them from the
\* callbacks that the drain loop itself makes.
Navigate ==
    /\ InCallback /\ ~asked
    /\ callback \in {"enter", "handler"} => hops < MaxHops
    /\ StartActivityForResult \/ PopActivity \/ GoTo
    /\ asked' = TRUE
    /\ UNCHANGED <<mainPc, callback, hops, sleeping, flagVars, lockVars,
                   shownVars>>

\* RenderLock, held over several statements of the callback.
TakeRenderLock ==
    /\ InCallback
    /\ renderingMutex = "free" /\ renderingMutex' = "main"
    /\ UNCHANGED <<navVars, mainPc, frameVars, flagVars, waitVars, renderVars,
                   shownVars>>

GiveRenderLock ==
    /\ InCallback
    /\ renderingMutex = "main" /\ renderingMutex' = "free"
    /\ UNCHANGED <<navVars, mainPc, frameVars, flagVars, waitVars, renderVars,
                   shownVars>>

\* The activity changes something its render() shows, with or without a
\* RenderLock, or queues an alert.
WriteState ==
    /\ InCallback
    /\ \/ screen' = "stale" /\ UNCHANGED hasPendingAlert
       \/ hasPendingAlert' = TRUE /\ UNCHANGED screen
    /\ UNCHANGED <<navVars, mainPc, frameVars, flagVars, lockVars>>

RequestUpdate(immediate) ==
    /\ InCallback
    /\ requestedUpdate' = (requestedUpdate \/ ~immediate)
    /\ renderNotified' = (renderNotified \/ immediate)
    /\ UNCHANGED <<navVars, mainPc, frameVars, lockVars, shownVars>>

\* The checks of requestUpdateAndWait() for a call from the main task (a call
\* they reject changes nothing); mutant: a caller with the mutex may wait.
MayWaitLocked == ~waitingTask
MayWait == ~waitingTask /\ renderingMutex # "main"

\* Its critical section.  HomeActivity is the one kind that never calls it.
RequestUpdateAndWait ==
    /\ InCallback /\ kind[currentActivity] # "Home"
    /\ MayWait
    /\ waitingTask' = TRUE /\ mainPc' = "notify"
    /\ UNCHANGED <<navVars, frameVars, flagVars, renderingMutex, mainNotified,
                   renderVars, shownVars>>

\* Its xTaskNotify(renderTaskHandle); mutant: the update is only flagged.
NotifyLater == requestedUpdate' = TRUE /\ UNCHANGED renderNotified
NotifyNow   == renderNotified' = TRUE /\ UNCHANGED requestedUpdate
NotifyRender ==
    /\ mainPc = "notify" /\ mainPc' = "blocked"
    /\ NotifyNow
    /\ UNCHANGED <<navVars, frameVars, lockVars, shownVars>>

\* Its ulTaskNotifyTake() returns, and it returns Rendered.
Rendered ==
    /\ mainPc = "blocked"
    /\ mainNotified /\ mainNotified' = FALSE
    /\ mainPc' = IF callback = "setup" THEN "top" ELSE "callback"
    /\ UNCHANGED <<navVars, frameVars, flagVars, renderingMutex, waitingTask,
                   renderVars, shownVars>>

\* The callback ends.  After a result handler that requested nothing, the
\* manager queues a repaint of the activity that came back.
Return ==
    /\ mainPc = "callback" /\ renderingMutex # "main"
    /\ mainPc' = IF callback = "boot" THEN "booted" ELSE "drain"
    /\ requestedUpdate' = \/ requestedUpdate
                          \/ callback = "handler" /\ pendingAction = "None"
    /\ UNCHANGED <<navVars, frameVars, renderNotified, lockVars, shownVars>>

-----------------------------------------------------------------------------
(* The drain loop: while (pendingAction != None).  Each branch runs under  *)
(* the mutex, taken and given within the step; mutant: without it.         *)
MayDrainUnlocked == mainPc = "drain"
MayDrain == mainPc = "drain" /\ renderingMutex = "free"

NextHop == IF hops < MaxHops THEN hops + 1 ELSE hops

\* The handlers left once the current activity is gone and the one of its
\* parent has been moved out; mutant: the parent's is called where it is.
HandlersAfterPopKept(parent) == Unhandled({currentActivity})
HandlersAfterPop(parent) == [Unhandled({currentActivity}) EXCEPT ![parent] = None]

\* Pop with activities below: the parent comes back, and its handler, if it
\* has one, is called after the unlock.
DrainPop ==
    /\ pendingAction = "Pop" /\ stackActivities # <<>>
    /\ LET parent == Last(stackActivities) IN
        /\ kind' = Destroyed({currentActivity})
        /\ currentActivity' = parent
        /\ stackActivities' = Front(stackActivities)
        /\ awaiting' = HandlersAfterPop(parent)
        /\ IF awaiting[parent] # None
           THEN Enter("handler") /\ UNCHANGED requestedUpdate
           ELSE requestedUpdate' = TRUE /\ UNCHANGED <<mainPc, callback, asked>>
    /\ pendingAction' = "None"
    /\ screen' = "stale"
    /\ UNCHANGED pendingActivity

\* Pop of the last activity: destroyed under the mutex, which is then given
\* before goHome() launches Home.
DrainPopLast ==
    /\ pendingAction = "Pop" /\ stackActivities = <<>>
    /\ kind' = Destroyed({currentActivity})
    /\ awaiting' = Unhandled({currentActivity})
    /\ currentActivity' = None
    /\ pendingAction' = "None"
    /\ mainPc' = "goHome"
    /\ UNCHANGED <<stackActivities, pendingActivity, callback, asked,
                   requestedUpdate, screen>>

GoHome ==
    /\ mainPc = "goHome"
    /\ \E i \in Instances : LaunchImmediately(i, "Home")
    /\ Enter("enter")
    /\ UNCHANGED <<hops, sleeping, flagVars, lockVars, hasPendingAlert>>

Launch(stack) ==
    /\ pendingActivity # None
    /\ stackActivities' = stack
    /\ currentActivity' = pendingActivity
    /\ pendingActivity' = None /\ pendingAction' = "None"
    /\ Enter("enter")
    /\ screen' = "stale"
    /\ UNCHANGED requestedUpdate

\* Push keeps the current activity below the new one; mutant: it is moved
\* out of currentActivity too early.
StackedTooLate == Append(stackActivities, None)
Stacked == Append(stackActivities, currentActivity)

DrainPush ==
    /\ pendingAction = "Push"
    /\ Launch(Stacked)
    /\ UNCHANGED <<kind, awaiting>>

\* Replace destroys the current activity and the whole stack; mutant: the
\* stack stays.
DrainReplaceKeepingStack ==
    /\ pendingAction = "Replace"
    /\ Launch(stackActivities)
    /\ kind' = Destroyed({currentActivity})
    /\ awaiting' = Unhandled({currentActivity})
DrainReplace ==
    /\ pendingAction = "Replace"
    /\ Launch(<<>>)
    /\ LET dead == {currentActivity} \cup ToSet(stackActivities) IN
        kind' = Destroyed(dead) /\ awaiting' = Unhandled(dead)

Drain ==
    /\ MayDrain
    /\ DrainPop \/ DrainPopLast \/ DrainPush \/ DrainReplace
    /\ hops' = NextHop
    /\ UNCHANGED <<sleeping, renderNotified, lockVars, hasPendingAlert>>

\* Deferred updates become one notification; mutant: they are just cleared.
FlushedSilently == renderNotified
Flushed == renderNotified \/ requestedUpdate

\* Nothing left to serve: a queued alert is pushed (if the bound on objects
\* leaves room) for a later pass to launch, and the update flag is flushed.
\* The nested loop() of goToSleep() ends in deep sleep.
EndOfPass ==
    /\ mainPc = "drain" /\ pendingAction = "None"
    /\ IF hasPendingAlert /\ Free # {}
       THEN (\E i \in Instances : PushActivity(i, "Alert")) /\ hasPendingAlert' = FALSE
       ELSE UNCHANGED <<kind, currentActivity, stackActivities,
                        pendingActivity, pendingAction, hasPendingAlert>>
    /\ requestedUpdate' = FALSE /\ renderNotified' = Flushed
    /\ mainPc' = IF sleeping THEN "asleep" ELSE "top"
    /\ UNCHANGED <<awaiting, frameVars, lockVars, screen>>

\* Waking from deep sleep is a reset: RAM is lost.
WakeUp ==
    /\ mainPc = "asleep" /\ mainPc' = "boot" /\ callback' = "setup"
    /\ kind' = [i \in Instances |-> "free"]
    /\ currentActivity' = None /\ stackActivities' = <<>>
    /\ pendingActivity' = None /\ pendingAction' = "None"
    /\ awaiting' = [i \in Instances |-> None]
    /\ asked' = FALSE /\ hops' = 0 /\ sleeping' = FALSE
    /\ requestedUpdate' = FALSE /\ renderNotified' = FALSE
    /\ renderingMutex' = "free" /\ waitingTask' = FALSE /\ mainNotified' = FALSE
    /\ renderPc' = "take" /\ rendering' = None /\ woken' = FALSE
    /\ hasPendingAlert' = FALSE /\ screen' = "shown"

-----------------------------------------------------------------------------
(* The render task.                                                        *)

\* ulTaskNotifyTake(pdTRUE): any number of notifications become one paint.
RenderTake ==
    /\ renderPc = "take" /\ renderPc' = "lock"
    /\ renderNotified /\ renderNotified' = FALSE
    /\ UNCHANGED <<navVars, mainPc, frameVars, requestedUpdate,
                   renderingMutex, waitVars, rendering, woken, shownVars>>

\* The mutex comes before the read of currentActivity.
RenderBegin ==
    /\ renderPc = "lock"
    /\ renderingMutex = "free" /\ renderingMutex' = "render"
    /\ rendering' = currentActivity
    /\ screen' = IF currentActivity # None /\ screen = "stale"
                 THEN "drawing" ELSE screen
    /\ renderPc' = "draw"
    /\ UNCHANGED <<navVars, mainPc, frameVars, flagVars, waitVars, woken,
                   hasPendingAlert>>

\* Some render() functions call requestUpdate() or queue an alert themselves.
RenderRequests ==
    /\ renderPc = "draw" /\ rendering # None
    /\ \/ requestedUpdate' = TRUE /\ UNCHANGED hasPendingAlert
       \/ hasPendingAlert' = TRUE /\ UNCHANGED requestedUpdate
    /\ UNCHANGED <<navVars, mainPc, frameVars, renderNotified, lockVars, screen>>

\* render() returns; the waiter is taken in the critical section.
RenderEnd ==
    /\ renderPc = "draw" /\ renderPc' = "wake"
    /\ screen' = IF screen = "drawing" THEN "shown" ELSE screen
    /\ rendering' = None
    /\ woken' = waitingTask /\ waitingTask' = FALSE
    /\ UNCHANGED <<navVars, mainPc, frameVars, flagVars, renderingMutex,
                   mainNotified, hasPendingAlert>>

RenderWake ==
    /\ renderPc = "wake" /\ renderPc' = "release"
    /\ mainNotified' = (mainNotified \/ woken) /\ woken' = FALSE
    /\ UNCHANGED <<navVars, mainPc, frameVars, flagVars, renderingMutex,
                   waitingTask, rendering, shownVars>>

\* The RenderLock goes out of scope at the end of the iteration; mutant: so do
\* the requests made during it.
RenderReleaseForgetting ==
    /\ renderPc = "release" /\ renderPc' = "take"
    /\ renderingMutex' = "free" /\ renderNotified' = FALSE
    /\ UNCHANGED <<navVars, mainPc, frameVars, requestedUpdate, waitVars,
                   rendering, woken, shownVars>>
RenderRelease ==
    /\ renderPc = "release" /\ renderPc' = "take"
    /\ renderingMutex' = "free"
    /\ UNCHANGED <<navVars, mainPc, frameVars, flagVars, waitVars, rendering,
                   woken, shownVars>>

-----------------------------------------------------------------------------
Boot == BootSplash \/ BootRoute \/ BootWait \/ BootDone

User == PanelGesture \/ HomeGesture \/ GoToSleep

ActivityCode ==
    \/ Navigate \/ TakeRenderLock \/ GiveRenderLock \/ WriteState
    \/ \E immediate \in BOOLEAN : RequestUpdate(immediate)
    \/ RequestUpdateAndWait

Loop == RunActivity \/ NotifyRender \/ Rendered \/ GoHome \/ EndOfPass

Render == RenderTake \/ RenderEnd \/ RenderWake \/ RenderRelease

Next ==
    \/ Boot \/ User \/ ActivityCode \/ Loop \/ Return \/ Drain \/ WakeUp
    \/ Render \/ RenderBegin \/ RenderRequests

Spec == Init /\ [][Next]_vars

(* Fairness.  Both tasks are scheduled for ever; a callback returns (it may *)
(* keep asking in between, hence strong fairness) and gives back a mutex it *)
(* holds; a task queued on the mutex is not overtaken for ever.  Nothing is *)
(* assumed of the user, nor of a device that sleeps.                        *)
Fairness ==
    /\ WF_vars(Boot) /\ WF_vars(Loop) /\ WF_vars(GiveRenderLock) /\ WF_vars(Render)
    /\ SF_vars(Return) /\ SF_vars(Drain) /\ SF_vars(RenderBegin)

FairSpec == Spec /\ Fairness

-----------------------------------------------------------------------------
(* Properties.                                                             *)

\* Use after free: while the render task is inside an activity's render(),
\* that activity is the current one - it has not been destroyed, put on the
\* stack or replaced under it (the TOCTOU comment in renderTaskLoop).
RenderTargetIsCurrent ==
    rendering # None => /\ rendering = currentActivity
                        /\ kind[rendering] # "free"

\* The request and the pending activity agree, so that the drain loop never
\* meets a Push or Replace without an activity (it would spin for ever) or a
\* Pop without one on screen ("should never happen").
RequestIsServable ==
    /\ pendingAction \in {"Push", "Replace"} <=> pendingActivity # None
    /\ pendingAction # "None" => currentActivity # None

\* Every allocated activity has exactly one owner among the current, the
\* pending and the stacked ones: nothing leaks, nothing is owned twice.
Owners(i) == (IF i = currentActivity THEN 1 ELSE 0)
             + (IF i = pendingActivity THEN 1 ELSE 0)
             + Cardinality({n \in DOMAIN stackActivities : stackActivities[n] = i})
OneOwner == \A i \in Instances : Owners(i) = IF kind[i] = "free" THEN 0 ELSE 1

\* No lost wake-up and no self-deadlock in requestUpdateAndWait(): a blocked
\* main task does not hold the mutex, and its wake-up is already under way.
WakeUpIsComing ==
    mainPc = "blocked" =>
        /\ renderingMutex # "main"
        /\ \/ mainNotified
           \/ woken
           \/ waitingTask /\ (renderNotified \/ renderPc \in {"lock", "draw"})

\* A result handler gets the result of the child it was registered for: when
\* a pop brings p back, p's handler waits for the very activity that ended.
HandlerMatchesChild ==
    [][\A p \in Instances :
        pendingAction = "Pop" /\ currentActivity' = p /\ currentActivity # p
            => awaiting[p] \in {None, currentActivity}]_vars

\* While the main task waits in requestUpdateAndWait(), the panel shows all it
\* has written, or a frame that will is being drawn or asked for.  The wait may
\* end for a frame begun before a write without RenderLock; the next one is
\* then already on its way, and nothing written stays unpainted.
FrameIsComing ==
    mainPc = "blocked" =>
        \/ screen = "shown"
        \/ renderNotified
        \/ renderPc = "lock"
        \/ renderPc = "draw" /\ screen = "drawing"

\* requestUpdateAndWait() returns: the render task always gets to the waiter.
WaitReturns == mainPc = "notify" ~> mainPc \in {"callback", "top"}

\* A deferred update is not forgotten: after the flag is set the render task
\* starts another iteration, unless the device goes to sleep first.
UpdateIsPainted == requestedUpdate ~> renderPc = "lock" \/ mainPc = "asleep"

\* A requested navigation is served: the drain loop does not hang on it.
NavigationIsServed ==
    pendingAction # "None" ~> pendingAction = "None" \/ mainPc = "asleep"

\* The manager implements the stack of screens: every step of the two tasks
\* is one operation on it or invisible to it.
Screens == IF currentActivity = None THEN <<>>
           ELSE Append(stackActivities, currentActivity)
Navigation == INSTANCE NavigationStack
                WITH screens <- Screens, painted <- rendering
ImplementsNavigation == Navigation!Spec
=============================================================================
