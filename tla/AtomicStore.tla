---------------------------- MODULE AtomicStore -----------------------------
(***************************************************************************)
(* What the pager promises (src/misc/sqlite/pager.c:14: "atomic commit and *)
(* rollback through the use of a journal file"): the database changes from *)
(* one image to the next only when a transaction commits, and then to the  *)
(* whole of what it has written.  A power failure may take the last commit *)
(* back, because the removal of its journal need not have reached the disk *)
(* yet, but then takes back all of it.                                     *)
(***************************************************************************)
EXTENDS TLC

CONSTANTS Clients, Pages, Contents, Initial, Nothing

VARIABLES value,   \* the committed image
          undo,    \* the images a power failure may bring back
          work     \* the pages the open transaction of a client has written

storeVars == <<value, undo, work>>

StoreInit ==
    /\ value = Initial
    /\ undo = {}
    /\ work = [c \in Clients |-> Nothing]

\* One client at a time has a transaction open.
Begin(c) ==
    /\ \A d \in Clients : work[d] = Nothing
    /\ work' = [work EXCEPT ![c] = <<>>]
    /\ UNCHANGED <<value, undo>>

Write(c, p) ==
    /\ work[c] # Nothing
    /\ \E v \in Contents : work' = [work EXCEPT ![c] = (p :> v) @@ @]
    /\ UNCHANGED <<value, undo>>

Commit(c) ==
    /\ work[c] # Nothing
    /\ value' = work[c] @@ value
    /\ undo' \in {{}, {value}}
    /\ work' = [work EXCEPT ![c] = Nothing]

\* A rollback, or the end of the client's process.
Abort(cs) ==
    /\ \E c \in cs : work[c] # Nothing
    /\ work' = [c \in Clients |-> IF c \in cs THEN Nothing ELSE work[c]]
    /\ undo' \in {undo, {}, {value}}
    /\ UNCHANGED value

Settle ==
    /\ UNCHANGED <<value, work>>
    /\ undo' = undo \/ undo' = {} \/ undo' = {value}

PowerFailure ==
    /\ value' \in {value} \cup undo
    /\ undo' = {}
    /\ work' = [c \in Clients |-> Nothing]

StoreNext ==
    \/ Settle
    \/ PowerFailure
    \/ \E c \in Clients : \/ Begin(c)
                          \/ \E p \in Pages : Write(c, p)
                          \/ Commit(c)
    \/ \E cs \in SUBSET Clients : Abort(cs)

StoreSpec == StoreInit /\ [][StoreNext]_storeVars
=============================================================================
