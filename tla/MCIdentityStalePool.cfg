\* What updateMachine says of the pool.
CONSTANTS
    Boxes = {b1, b2}
    Logins = {l1}
    Procs = {p1, p2}
    Kinds = {"exec", "update"}
    MaxGen = 0
    MaxRekeyed = 0
    None = none
SPECIFICATION Spec
INVARIANTS
    NothingOldIsPooled
