-------------------------- MODULE MCNearbyStatsSync --------------------------
(* Two readers, which are alike until one of them presses Sync.            *)
EXTENDS NearbyStatsSync, TLC

Symmetry == Permutations(Devices)

\* Bound: two of a lost packet, a packet sent again and a fault, or one of them when a
\* screen has been opened a third time.
FewMishaps == losses + used.resends + faults + used.opens <= 4
=============================================================================
