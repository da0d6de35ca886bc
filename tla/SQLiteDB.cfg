\* Two threads run three procedures in all; each statement is retried once.
SPECIFICATION FairSpec
CONSTANTS
    main = main
    worker = worker
    app = app
    Conns <- MCConns
    Procs <- MCProcs
    Proc <- MCProc
    Duties <- MCDuties
    MaxBusy = 1
    MaxRuns = 3
INVARIANTS RestsClean AllOrNothing ResultIsTrue
PROPERTY ProceduresEnd
CHECK_DEADLOCK FALSE
