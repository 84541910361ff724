-------------------------- MODULE MCReaderProgress --------------------------
(* One book of few pages.                                                  *)
EXTENDS ReaderProgress

\* Bound: the saves of the two tasks overlap only while no footnote's origin is remembered. A
\* save reads no origin, and a footnote is followed only when neither task is saving.
OverlapsOutsideFootnotes == origins # << >> => raced = {}
=============================================================================
