------------------------------ MODULE MCPager -------------------------------
(***************************************************************************)
(* Instance of Pager: two connections of one process, as the threads of     *)
(* BathyScaphe have them, or of two processes; a second transaction, or a   *)
(* second crash, which may interrupt the recovery from the first.           *)
(***************************************************************************)
EXTENDS Pager

CONSTANTS a1, a2, b1, pa, pb

MCConns == {a1, a2, b1}
MCProcs == {pa, pb}
MCProc == a1 :> pa @@ a2 :> pa @@ b1 :> pb
MCUses == {[conns |-> cs, txns |-> n, crashes |-> 3 - n] :
              cs \in {{a1, a2}, {a1, b1}}, n \in 1 .. 2}
=============================================================================
