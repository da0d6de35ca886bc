SPECIFICATION Spec
CONSTANTS
    a1 = a1
    a2 = a2
    b1 = b1
    pa = pa
    pb = pb
    NoConn = NoConn
    Conns <- MCConns
    Procs <- MCProcs
    Proc <- MCProc
    MaxDeferred = 2
INVARIANTS Exclusive LocksInPlace
PROPERTY FileLockImplemented
