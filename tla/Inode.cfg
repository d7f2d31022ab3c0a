SPECIFICATION Spec
CONSTANTS
    p1 = p1
    p2 = p2
    Procs = {p1, p2}
    Names = {"a", "b"}
    NINODES = 3
    Calls <- MCCalls
    DiskFull = {TRUE}
    None = None
CONSTRAINT NotBusy
INVARIANTS    NoLockCycle
