\* One machine, two goroutines and two connections: dial races, stale keepalives,
\* Drops from every side, and shutdown.
CONSTANTS
    Machines = {m1}
    Conns = {c1, c2}
    Procs = {p1, p2}
    Kinds = {"shell", "stream", "drop", "close"}
    Main = main
    None = none
SPECIFICATION Spec
SYMMETRY Symmetry
INVARIANTS
    PooledIsLive
    NothingLeaks
    TornDownOnce
    TimedOutIsEvicted
    CloseDropsTheOld
