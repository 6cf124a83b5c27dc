\* A machine to which everything happens and one beside it, one check at a time.
CONSTANTS
    Machines = {m1, m2}
    Flaky = {m1}
    Fanout = 1
    MaxFails = 4
    MaxStops = 1
SPECIFICATION FairSpec
INVARIANTS
    SchedHasOneOwner
    BackoffIsCappedDoubling
PROPERTIES
    SchedulesArePruned
    ReachTracksBox
