----------------------------- MODULE MCTaskManager -----------------------------
(* Instances of TaskManager for TLC. *)
EXTENDS TaskManager, TLC

\* Downloaders, composing tasks and identifiers are interchangeable.
Symmetry == Permutations(Downloads) \cup Permutations(Composings)
            \cup Permutations(Identifiers)
=============================================================================
