-------------------------- MODULE MCActivityManager --------------------------
(* The activity manager on a small device: a handful of activity objects.  *)
EXTENDS ActivityManager, TLC

\* Activity objects are interchangeable until they are given a kind.
Symmetry == Permutations(Instances)
=============================================================================
