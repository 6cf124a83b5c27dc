\* A terminal and a stream on one connection.
CONSTANTS
    Sids = {t1, s1}
    Terminals = {t1}
SPECIFICATION FairSpec
CHECK_DEADLOCK FALSE
INVARIANTS
    OverIsClosed
PROPERTIES
    EndsWithEitherSide
    OnlyBlockedCopiersStay
