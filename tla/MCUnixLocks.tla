---------------------------- MODULE MCUnixLocks -----------------------------
(***************************************************************************)
(* Instance of UnixLocks: two connections of one process, as the threads of *)
(* BathyScaphe have them, and one of another process.                       *)
(***************************************************************************)
EXTENDS UnixLocks, TLC

CONSTANTS a1, a2, b1, pa, pb

MCConns == {a1, a2, b1}
MCProcs == {pa, pb}
MCProc == a1 :> pa @@ a2 :> pa @@ b1 :> pb
=============================================================================
