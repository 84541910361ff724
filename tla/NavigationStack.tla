--------------------------- MODULE NavigationStack ---------------------------
(***************************************************************************)
(* What the activity manager promises its users, without tasks, queues or  *)
(* locks: a stack of screens of which only the top one is ever painted,    *)
(* and which never changes while that screen is being painted.             *)
(***************************************************************************)
EXTENDS Sequences, SequencesExt

CONSTANTS Instances, None

VARIABLES
    screens, \* the activities, the visible one last
    painted  \* the activity being painted, or None

vars == <<screens, painted>>

Init == screens = <<>> /\ painted = None

Fresh == Instances \ ToSet(screens)

\* The first screen after a reset, or Home after the last one finished.
First(x) ==
    /\ screens = <<>>
    /\ screens' = <<x>>
    /\ UNCHANGED painted

\* A child is opened above the visible screen.
Open(x) ==
    /\ screens # <<>> /\ painted = None
    /\ screens' = Append(screens, x)
    /\ UNCHANGED painted

\* The visible screen finishes and the one below it comes back.
Close ==
    /\ screens # <<>> /\ painted = None
    /\ screens' = Front(screens)
    /\ UNCHANGED painted

\* Top-level navigation drops every screen.
Replace(x) ==
    /\ screens # <<>> /\ painted = None
    /\ screens' = <<x>>
    /\ UNCHANGED painted

Paint ==
    /\ screens # <<>> /\ painted = None
    /\ painted' = Last(screens)
    /\ UNCHANGED screens

Painted ==
    /\ painted # None
    /\ painted' = None
    /\ UNCHANGED screens

\* Waking from deep sleep starts again from nothing.
Reset == screens' = <<>> /\ painted' = None

Next ==
    \/ \E x \in Fresh : First(x) \/ Open(x) \/ Replace(x)
    \/ Close \/ Paint \/ Painted \/ Reset

Spec == Init /\ [][Next]_vars
=============================================================================
