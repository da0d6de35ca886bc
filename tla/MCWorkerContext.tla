--------------------------- MODULE MCWorkerContext ---------------------------
(* Small instances of WorkerContext: the main thread, at most one more caller *)
(* and a few works.                                                           *)
EXTENDS WorkerContext
=============================================================================
