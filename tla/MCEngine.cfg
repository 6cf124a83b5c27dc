\* One request of any kind, with its bulk workers, two edits, a shutdown or a crash.
CONSTANTS
    m1 = m1
    m2 = m2
    n1 = n1
    n2 = n2
    overview = overview
    follow = follow
    reboot = reboot
    Machines = {m1, m2}
    Names = {n1, n2}
    BuiltIns = {overview, follow, reboot}
    Streams = {follow}
    Overview = overview
    Tier <- MCTier
    Custom = {c1}
    Fleet <- MCFleet
    Forms <- MCForms
    Lists <- MCLists
    Kinds = {"run", "stream", "terminal", "power", "bulk"}
    MaxReqs = 1
    MaxTargets = 2
    MaxEdits = 2
    Concurrency = 1
    None = none
SPECIFICATION FairSpec
CHECK_DEADLOCK FALSE
INVARIANTS
    RanIsRecorded
    WorkersRunAsConfirmed
PROPERTIES
    RecordsStay
    ImplementsAuditLog
    DrainLosesNoHandler
    RequestsAreAnswered
