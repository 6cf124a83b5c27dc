\* Two syncs overlap with power actions and a crash; the ticker syncs for ever, cloud
\* and process are quiet in the end. No symmetry, which liveness does not admit.
CONSTANTS
    Machines = {m1, m2}
    Accounts = {a1}
    Instances = {i1, i2}
    Addresses = {x1}
    Procs = {p1, p2}
    Kinds = {"sync", "power", "crash"}
    Complete = TRUE
    MaxChanges = 2
    None = none
SPECIFICATION FairSpec
INVARIANTS
    SyncsDoNotCollide
    SyncShowsTheList
PROPERTIES
    FleetConverges
    MissingWasAbsent
