\* Progress: no symmetry, which liveness checking does not admit.
CONSTANTS
    Machines = {m1}
    Conns = {c1, c2}
    Procs = {p1, p2}
    Kinds = {"exec"}
    Main = main
    None = none
SPECIFICATION FairSpec
PROPERTIES
    CallsSettle
    BrokenIsClosed
    ImplementsFairPool
