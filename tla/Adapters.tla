------------------------------ MODULE Adapters ------------------------------
(***************************************************************************)
(* internal/provider/*: how the six adapters list an account's instances,   *)
(* page by page, while the cloud changes between the pages and calls fail,  *)
(* and how the instance IDs they hand out lead back to the instances.       *)
(*                                                                          *)
(* CloudSync takes for granted what provider.go:64 asks of ListInstances:   *)
(* the whole list, or an error. Here it is seen who keeps to it, and when.  *)
(***************************************************************************)
EXTENDS Integers, Sequences, FiniteSets, FiniteSetsExt

CONSTANTS Insts,      \* the instances there ever are, in the order of the API's lists
          Scopes,     \* regions of EC2, projects of Google Cloud, Azure's
                      \* resource groups
          Scope, Zone, Name,   \* where an instance lives, and its name there
          Uid,        \* the cloud's own identifier of an instance
          PageSize,
          Fanout      \* the four regions asked at a time

ASSUME AdaptersAssumption ==
    /\ Insts \subseteq Nat
    /\ Scope \in [Insts -> Scopes]
    /\ \A i, j \in Insts : Uid[i] = Uid[j] => i = j
    \* google.go:183: "Names may not contain '/', and project/zone never do".
    /\ \A i \in Insts : {Scope[i], Zone[i], Name[i], Uid[i]} \cap {"/", ":"} = {}
    /\ PageSize \in Nat \ {0}
    /\ Fanout \in Nat \ {0}

Kinds == {"hetzner", "digitalocean", "vultr", "azure", "aws", "gcp"}
Numbered == {"hetzner", "digitalocean"}   \* pages have numbers; elsewhere cursors
Scoped == {"aws", "gcp"}                  \* one list for each region or project

VARIABLES
    kind,        \* the account's adapter
    scan,        \* its configured regions or projects; {} is to discover them
    life,        \* life[i]: "new", "here", "terminated" (EC2: only still listed), "gone"
    pc,          \* ListInstances: "idle", "discover", "list", "done", "failed"
    state,       \* state[s]: the list of scope s: "none", "waiting", "paging", "over"
    page,        \* page[s]: the number of the next page, or the last instance seen
    got,         \* got[s]: the entries of s so far
    failed,      \* a scope has failed (firstErr)
    out,         \* the list returned last
    stayed,      \* history: the machines there for the whole of the call
    came,        \* history: the machines there at some time of it
    slipped      \* history: a page number has lost its meaning, or a link could not be read

history == <<stayed, came, slipped>>
vars == <<kind, scan, life, pc, state, page, got, failed, out, history>>

Cloud == {i \in Insts : life[i] = "here"}

-----------------------------------------------------------------------------
(* Instance IDs: toInstance, and split, parseVMID, parseID in Power and     *)
(* GetPowerState. A string is the sequence of the names and separators in   *)
(* it; two names that differ in case only are one, as they are to ARM.      *)

\* Bug: EC2's ID begins with what is shown as the region, the zone.
IdOfZone(k, i) ==
    CASE k = "aws" -> <<Zone[i], ":", Uid[i]>>
      [] k = "gcp" -> <<Scope[i], "/", Zone[i], "/", Name[i]>>
      [] k = "azure" -> <<"/", "subscriptions", "/", "s", "/", "resourceGroups", "/", Scope[i],
                          "/", "providers", "/", "Microsoft.Compute",
                          "/", "virtualMachines", "/", Name[i]>>
      [] OTHER -> <<Uid[i]>>

\* Azure's is ARM's own, with the resource group; the others are joined here.
IdOf(k, i) ==
    CASE k = "aws" -> <<Scope[i], ":", Uid[i]>>
      [] k = "gcp" -> <<Scope[i], "/", Zone[i], "/", Name[i]>>
      [] k = "azure" -> <<"/", "subscriptions", "/", "s", "/", "resourceGroups", "/", Scope[i],
                          "/", "providers", "/", "Microsoft.Compute",
                          "/", "virtualMachines", "/", Name[i]>>
      [] OTHER -> <<Uid[i]>>

\* strings.Cut and SplitN: at the first separator.
Places(s, sep) == {n \in DOMAIN s : s[n] = sep}
UpToSep(s, sep) == SubSeq(s, 1, Min(Places(s, sep)) - 1)
AfterSep(s, sep) == SubSeq(s, Min(Places(s, sep)) + 1, Len(s))

\* parseVMID's loop: the part after the last part but one that is the word,
\* none if there is no such part.
PartsAfter(s, word) ==
    LET at == {n \in 1..Len(s) - 2 : s[n] = word}
    IN  {s[Max(at) + 2] : n \in at}

\* Whether a call with this ID acts on i; one that does not parse acts on none.
LeadsTo(k, id, i) ==
    CASE k = "aws" -> /\ Places(id, ":") # {}
                      /\ UpToSep(id, ":") = <<Scope[i]>>
                      /\ AfterSep(id, ":") = <<Uid[i]>>
      [] k = "gcp" -> LET rest == AfterSep(id, "/")
                      IN  /\ Cardinality(Places(id, "/")) > 1
                          /\ UpToSep(id, "/") = <<Scope[i]>>
                          /\ UpToSep(rest, "/") = <<Zone[i]>>
                          /\ AfterSep(rest, "/") = <<Name[i]>>
      [] k = "azure" -> /\ PartsAfter(id, "resourceGroups") = {Scope[i]}
                        /\ PartsAfter(id, "virtualMachines") = {Name[i]}
      [] OTHER -> id = <<Uid[i]>>

Target(id) == {i \in Cloud : LeadsTo(kind, id, i)}

Entry(i) == [id |-> IdOf(kind, i), of |-> i]

\* Two instances that would have one name in one place never exist at once.
SamePlace(i, j) == Scope[i] = Scope[j] /\ Name[i] = Name[j] /\
                   (kind = "azure" \/ Zone[i] = Zone[j])

-----------------------------------------------------------------------------
All == "all"   \* the one list of an adapter without scopes
Lists == Scopes \cup {All}

TypeOK ==
    /\ kind \in Kinds
    /\ scan \in SUBSET Scopes
    /\ life \in [Insts -> {"new", "here", "terminated", "gone"}]
    /\ pc \in {"idle", "discover", "list", "done", "failed"}
    /\ state \in [Lists -> {"none", "waiting", "paging", "over"}]
    /\ page \in [Lists -> Int]
    /\ got \in [Lists -> SUBSET {Entry(i) : i \in Insts}]
    /\ failed \in BOOLEAN
    /\ out \in SUBSET {Entry(i) : i \in Insts}
    /\ stayed \in SUBSET Insts /\ came \in SUBSET Insts
    /\ slipped \in BOOLEAN

Init ==
    /\ kind \in Kinds
    /\ scan \in IF kind = "aws" THEN SUBSET Scopes
                ELSE IF kind = "gcp" THEN SUBSET Scopes \ {{}} ELSE {{}}
    /\ life \in [Insts -> {"new", "here"}]
    /\ \A i, j \in Cloud : i # j => ~SamePlace(i, j)
    /\ pc = "idle"
    /\ state = [l \in Lists |-> "none"]
    /\ page = [l \in Lists |-> 0]
    /\ got = [l \in Lists |-> {}]
    /\ failed = FALSE
    /\ out = {}
    /\ stayed = {} /\ came = {} /\ slipped = FALSE

-----------------------------------------------------------------------------
(* ListInstances.                                                           *)

\* What the API lists, terminated instances included.
In(l) == {i \in Insts : /\ life[i] \in {"here", "terminated"}
                        /\ l = All \/ Scope[i] = l}

\* The lists a call goes through.
Wanted == IF kind \notin Scoped THEN {All} ELSE IF scan = {} THEN Scopes ELSE scan
Visible == {i \in Cloud : \E l \in Wanted : i \in In(l)}

FirstPage == IF kind \in Numbered THEN 1 ELSE -1

Begins ==
    /\ state' = [l \in Lists |-> IF l \in Wanted THEN "waiting" ELSE "none"]
    /\ page' = [l \in Lists |-> FirstPage]
    /\ got' = [l \in Lists |-> {}]

Calls ==
    /\ pc = "idle"
    /\ IF kind = "aws" /\ scan = {}
       THEN pc' = "discover" /\ UNCHANGED <<state, page, got>>
       ELSE pc' = "list" /\ Begins
    /\ failed' = FALSE
    /\ stayed' = Visible /\ came' = Visible /\ slipped' = FALSE
    /\ UNCHANGED <<kind, scan, life, out>>

\* DescribeRegions.
Discovers ==
    /\ pc = "discover"
    /\ \/ pc' = "list" /\ Begins
       \/ pc' = "failed" /\ UNCHANGED <<state, page, got>>
    /\ UNCHANGED <<kind, scan, life, failed, out, history>>

Paging == {l \in Lists : state[l] = "paging"}

\* EC2's regions are asked Fanout at a time, Google's projects one after the
\* other, none after one that failed.
ListStarts(l) ==
    /\ pc = "list"
    /\ state[l] = "waiting"
    /\ IF kind = "aws" THEN Cardinality(Paging) < Fanout ELSE Paging = {} /\ ~failed
    /\ state' = [state EXCEPT ![l] = "paging"]
    /\ UNCHANGED <<kind, scan, life, pc, page, got, failed, out, history>>

\* The place of i in the list, and what of it earlier pages had: a number
\* counts places, a cursor is the last instance seen.
Rank(l, i) == Cardinality({j \in In(l) : j <= i})
Before(l, i) == IF kind \in Numbered THEN Rank(l, i) <= (page[l] - 1) * PageSize
                ELSE i <= page[l]
Rest(l) == {i \in In(l) : ~Before(l, i)}

\* The instances of the page asked for, and whether there is another one.
PageOf(l) ==
    {i \in Rest(l) : IF kind \in Numbered THEN Rank(l, i) <= page[l] * PageSize
                     ELSE Cardinality({j \in Rest(l) : j <= i}) <= PageSize}

HasNext(l) == Rest(l) # PageOf(l)

\* What is asked for next: page + 1, links.next, NextToken.
NextPage(l) == IF kind \in Numbered THEN {page[l] + 1}
               ELSE {i \in PageOf(l) : \A j \in PageOf(l) : j <= i}

Kept(l) == {Entry(i) : i \in PageOf(l) \cap Cloud}

\* Bug: the cursor of the first page is sent again.
PageWorksAgain(l) ==
    /\ state[l] = "paging"
    /\ got' = [got EXCEPT ![l] = @ \cup Kept(l)]
    /\ IF HasNext(l)
       THEN UNCHANGED <<page, state>>
       ELSE state' = [state EXCEPT ![l] = "over"] /\ UNCHANGED page
    /\ UNCHANGED <<kind, scan, life, pc, failed, out, history>>

PageWorks(l) ==
    /\ state[l] = "paging"
    /\ got' = [got EXCEPT ![l] = @ \cup Kept(l)]
    /\ IF HasNext(l)
       THEN /\ \E next \in NextPage(l) : page' = [page EXCEPT ![l] = next]
            /\ UNCHANGED state
       ELSE state' = [state EXCEPT ![l] = "over"] /\ UNCHANGED page
    /\ UNCHANGED <<kind, scan, life, pc, failed, out, history>>

\* DigitalOcean: the page's links cannot be read, and the loop stops there.
LinkUnreadable(l) ==
    /\ kind = "digitalocean"
    /\ state[l] = "paging"
    /\ HasNext(l)
    /\ got' = [got EXCEPT ![l] = @ \cup Kept(l)]
    /\ state' = [state EXCEPT ![l] = "over"]
    /\ slipped' = TRUE
    /\ UNCHANGED <<kind, scan, life, pc, page, failed, out, stayed, came>>

\* Bug: a region that fails is left out.
PageFailsQuietly(l) ==
    /\ state[l] = "paging"
    /\ state' = [state EXCEPT ![l] = "over"]
    /\ UNCHANGED <<kind, scan, life, pc, page, got, failed, out, history>>

PageFails(l) ==
    /\ state[l] = "paging"
    /\ state' = [state EXCEPT ![l] = "over"]
    /\ got' = [got EXCEPT ![l] = {}]
    /\ failed' = TRUE
    /\ UNCHANGED <<kind, scan, life, pc, page, out, history>>

\* wg.Wait, or the end of the loop.
Returns ==
    /\ pc = "list"
    /\ Paging = {}
    /\ \A l \in Wanted : state[l] = "over" \/ (failed /\ kind # "aws")
    /\ IF failed
       THEN pc' = "failed" /\ UNCHANGED out
       ELSE pc' = "done" /\ out' = UNION {got[l] : l \in Wanted}
    /\ UNCHANGED <<kind, scan, life, state, page, got, failed, history>>

\* The next sync.
Again ==
    /\ pc \in {"done", "failed"}
    /\ pc' = "idle"
    /\ state' = [l \in Lists |-> "none"]
    /\ page' = [l \in Lists |-> 0]
    /\ got' = [l \in Lists |-> {}]
    /\ failed' = FALSE
    /\ stayed' = {} /\ came' = {} /\ slipped' = FALSE
    /\ UNCHANGED <<kind, scan, life, out>>

-----------------------------------------------------------------------------
(* The cloud.                                                               *)

Becomes(i, what) == life' = [life EXCEPT ![i] = what]

Created(i) ==
    /\ life[i] = "new"
    /\ \A j \in Cloud : ~SamePlace(i, j)
    /\ Becomes(i, "here")
    /\ came' = IF pc \in {"discover", "list"} /\ Wanted \cap {All, Scope[i]} # {}
               THEN came \cup {i} ELSE came
    /\ UNCHANGED <<kind, scan, pc, state, page, got, failed, out, stayed, slipped>>

\* If it was on a page that has been read, what follows moves up a place.
Destroyed(i) ==
    /\ life[i] = "here"
    /\ Becomes(i, IF kind = "aws" THEN "terminated" ELSE "gone")
    /\ stayed' = stayed \ {i}
    /\ slipped' = (slipped \/ /\ kind \in Numbered
                              /\ state[All] = "paging"
                              /\ Before(All, i))
    /\ UNCHANGED <<kind, scan, pc, state, page, got, failed, out, came>>

Purged(i) ==
    /\ life[i] = "terminated"
    /\ Becomes(i, "gone")
    /\ UNCHANGED <<kind, scan, pc, state, page, got, failed, out, history>>

-----------------------------------------------------------------------------
Answers ==
    \/ Discovers \/ Returns
    \/ \E l \in Lists : ListStarts(l) \/ PageWorks(l)

Next ==
    \/ Calls \/ Answers \/ Again
    \/ \E l \in Lists : LinkUnreadable(l) \/ PageFails(l)
    \/ \E i \in Insts : Created(i) \/ Destroyed(i) \/ Purged(i)

Spec == Init /\ [][Next]_vars

\* Every request has a deadline: it is answered, unless it fails.
Fairness == WF_vars(Answers)

FairSpec == Spec /\ Fairness
-----------------------------------------------------------------------------
(* What must hold.                                                          *)

Listed == {e.of : e \in out}

\* A list that is returned leaves out no machine that was there all along,
\* though the cloud changes between two pages, regions answer in any order and
\* any call may fail: the caller marks what is absent missing. An account
\* with page numbers keeps to it only as long as nothing disappears from a
\* page already read, DigitalOcean's only if links can be read. Nor does a
\* list make up a machine: what EC2 lists for an hour after its end is not one.
ListIsFaithful ==
    pc = "done" => /\ ~slipped => stayed \subseteq Listed
                   /\ Listed \subseteq came

\* Azure's last match wins: a resource group called as its own heading in the
\* ID is taken for the heading, and "providers" for the group.
Misread(i) == kind = "azure" /\ Scope[i] = "resourceGroups"

\* The ID a machine was listed under leads Power and GetPowerState to it, and
\* to nothing else, for as long as it exists, though it is a string that is
\* taken apart again, at separators and words that are only looked for; but
\* for the groups parseVMID misreads.
IdLeadsBack == \A e \in out : e.of \in Cloud /\ ~Misread(e.of) => Target(e.id) = {e.of}

\* The paging loops end, whatever is created meanwhile.
ListingEnds == pc \in {"discover", "list"} ~> pc \in {"done", "failed"}
=============================================================================
