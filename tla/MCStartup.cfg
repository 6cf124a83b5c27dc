\* Three processes on one data directory, from any install, with two faults.
CONSTANTS
    Procs = {p1, p2, p3}
    Keys = {k1, k2, k3}
    EnvKey = ke
    NoKey = nokey
    MaxFaults = 2
SPECIFICATION FairSpec
INVARIANTS
    SchemaIsWhole
    ServingOpensAll
PROPERTIES
    StartsInTheEnd
