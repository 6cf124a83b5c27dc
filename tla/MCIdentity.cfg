\* Two requests in any overlap: what edits forget of the old box, and what a pin holds
\* against. The poller's checks are left to MCCloudSyncOverlap, for the size of the run.
CONSTANTS
    Boxes = {b1, b2}
    Logins = {l1}
    Procs = {p1, p2}
    Kinds = {"exec", "probe", "stream", "update", "trust", "delete", "credential"}
    MaxGen = 1
    MaxRekeyed = 1
    None = none
SPECIFICATION Spec
SYMMETRY Symmetry
INVARIANTS
    OldConnectionsAreDropped
    OldBoxIsForgotten
    OnlyPresentedKeys
    BlocksChangedKey
PROPERTIES
    ReplacedByEchoOnly
