----------------------------- MODULE MCAdapters -----------------------------
EXTENDS Adapters

CONSTANTS za, zb, name

\* All have one name: 1 and 2 differ in their zone alone, 1 and 3 in their
\* region, project or resource group. The groups are the one that parseVMID
\* misreads, and the one that it takes it for.
ScopeOf == [i \in Insts |-> IF i = 3 THEN "resourceGroups" ELSE "providers"]
ZoneOf == [i \in Insts |-> IF i = 2 THEN zb ELSE za]
NameOf == [i \in Insts |-> name]
UidOf == [i \in Insts |-> <<"i-1", "i-2", "i-3">>[i]]
=============================================================================
