----------------------------- MODULE MCSQLiteDB -----------------------------
(***************************************************************************)
(* Instance of SQLiteDB: the main thread, where favourites and boards are   *)
(* changed, and a worker thread with the tasks of a HEAD check.             *)
(***************************************************************************)
EXTENDS SQLiteDB

CONSTANTS main, worker, app

MCConns == {main, worker}
MCProcs == {app}
MCProc == [t \in MCConns |-> app]
MCDuties == [t \in MCConns |-> IF t = main THEN {"query", "register", "append"}
                               ELSE {"updateDB", "resetNewStatus"}]
=============================================================================
