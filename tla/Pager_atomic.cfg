SPECIFICATION Spec
CONSTANTS
    a1 = a1
    a2 = a2
    b1 = b1
    pa = pa
    pb = pb
    Conns <- MCConns
    Procs <- MCProcs
    Proc <- MCProc
    Uses <- MCUses
    LastPage = 3
    FirstSize = 2
    MaxTxns = 2
    Reads = {{2, 3}}
    Cases = {}
    Absent = Absent
    Garbage = Garbage
INVARIANTS TypeOK SeesCommitted
PROPERTY AtomicCommit
