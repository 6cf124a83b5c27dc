\* What UpsertFromCloud says of a machine that follows its public IP.
CONSTANTS
    Machines = {m1}
    Accounts = {a1}
    Instances = {i1}
    Addresses = {x1, x2}
    Procs = {p1}
    Kinds = {"sync"}
    Complete = TRUE
    MaxChanges = 2
    None = none
SPECIFICATION Spec
INVARIANTS
    FollowsPublicIP
