\* Two requests in any overlap, and a crash: what syncs, edits and checks keep and forget.
CONSTANTS
    Machines = {m1}
    Accounts = {a1, a2}
    Instances = {i1}
    Addresses = {x1, x2}
    Procs = {p1, p2}
    Kinds = {"sync", "check", "update", "delete", "account", "create", "crash"}
    Complete = TRUE
    MaxChanges = 1
    None = none
SPECIFICATION Spec
SYMMETRY Symmetry
INVARIANTS
    TypeOK
    NothingOfTheOldHost
PROPERTIES
    TypedHostIsKept
    SyncWritesItsOwnRows
