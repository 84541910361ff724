------------------------ MODULE MCGlobalReadingStats ------------------------
(* The statistics of a few pages and books.                                *)
EXTENDS GlobalReadingStats
=============================================================================
