------------------------ MODULE MCNearbyBookTransfer ------------------------
(* Nearby transfer of a short book.                                        *)
EXTENDS NearbyBookTransfer
=============================================================================
