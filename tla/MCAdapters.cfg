\* Every adapter, two regions or projects, one instance a page.
CONSTANTS
    za = za
    zb = zb
    name = name
    Insts = {1, 2, 3}
    Scopes = {"providers", "resourceGroups"}
    Scope <- ScopeOf
    Zone <- ZoneOf
    Name <- NameOf
    Uid <- UidOf
    PageSize = 1
    Fanout = 1
SPECIFICATION FairSpec
INVARIANTS
    ListIsFaithful
    IdLeadsBack
PROPERTIES
    ListingEnds
