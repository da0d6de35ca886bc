---------------------------- MODULE MCThreadViewer ----------------------------
(* Instances of ThreadViewer for TLC. *)
EXTENDS ThreadViewer, TLC

\* Threads are interchangeable: no action or safety property names one.
Symmetry == Permutations(Threads)
=============================================================================
