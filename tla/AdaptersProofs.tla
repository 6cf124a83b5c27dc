---------------------------- MODULE AdaptersProofs ----------------------------
(***************************************************************************)
(* For any instances, regions, zones, names and pages: the ID a machine was*)
(* listed under, taken apart again, leads back to it and to nothing else.  *)
(* It rests on what the vendors promise (no two instances of one name in   *)
(* one place, NoTwins), on every entry having been made from its instance  *)
(* by IdOf, and on where the separators and words are in such an ID.       *)
(*                                                                         *)
(* And a list that is returned is faithful: what was there from the start  *)
(* of the call and comes before the next page has been read (Covers), which*)
(* a page number can lose when a machine on a page already read goes away. *)
(***************************************************************************)
EXTENDS Adapters, FiniteSetTheorems, SequenceTheorems, TLAPS

NoTwins == \A i, j \in Cloud : i # j => ~SamePlace(i, j)

Entries == {Entry(i) : i \in Insts}

EntriesOK ==
    /\ kind \in Kinds
    /\ scan \subseteq Scopes
    /\ life \in [Insts -> {"new", "here", "terminated", "gone"}]
    /\ got \in [Lists -> SUBSET Entries]
    /\ out \subseteq Entries

IInv == EntriesOK /\ NoTwins

\* Entries depend on the account's kind, which no step changes.
LEMMA EntriesKept == ASSUME kind' = kind PROVE Entries' = Entries /\ \A i \in Insts : Entry(i)' = Entry(i)
  BY DEF Entries, Entry

LEMMA KeptAreEntries == ASSUME EntriesOK, NEW l PROVE Kept(l) \subseteq Entries
  BY DEF Kept, Cloud, Entries

LEMMA InitInv == Init => IInv
<1> SUFFICES ASSUME Init PROVE IInv
  OBVIOUS
<1>1. got \in [Lists -> SUBSET Entries] /\ out \subseteq Entries /\ scan \subseteq Scopes
  BY DEF Init
<1>2. QED
  BY <1>1 DEF Init, IInv, EntriesOK, NoTwins

\* A step of ListInstances, or the next sync.
LEMMA ListingInv ==
    ASSUME IInv,
           \/ Calls \/ Answers \/ Again
           \/ \E l \in Lists : LinkUnreadable(l) \/ PageFails(l)
    PROVE  IInv'
<1>1. kind' = kind /\ life' = life /\ scan' = scan
  BY DEF Calls, Answers, Again, Discovers, Returns, ListStarts, PageWorks, LinkUnreadable, PageFails
<1>2. NoTwins'
  BY <1>1 DEF IInv, NoTwins, Cloud, SamePlace
<1>3. got' \in [Lists -> SUBSET Entries]
  <2>1. CASE Calls \/ Discovers \/ Again
    BY <2>1 DEF Calls, Discovers, Again, Begins, IInv, EntriesOK
  <2>2. CASE Returns \/ \E l \in Lists : ListStarts(l)
    BY <2>2 DEF Returns, ListStarts, IInv, EntriesOK
  <2>3. ASSUME NEW l \in Lists, PageWorks(l) \/ LinkUnreadable(l) \/ PageFails(l)
        PROVE  got' \in [Lists -> SUBSET Entries]
    <3>1. got' = [got EXCEPT ![l] = got[l] \cup Kept(l)] \/ got' = [got EXCEPT ![l] = {}]
      BY <2>3 DEF PageWorks, LinkUnreadable, PageFails
    <3>2. QED
      BY <3>1, KeptAreEntries DEF IInv, EntriesOK
  <2>4. QED
    BY <2>1, <2>2, <2>3 DEF Answers
<1>4. out' \subseteq Entries
  <2>1. CASE Returns
    <3>1. out' = out \/ out' = UNION {got[l] : l \in Wanted}
      BY <2>1 DEF Returns
    <3>2. Wanted \subseteq Lists
      BY DEF IInv, EntriesOK, Wanted, Lists
    <3>3. \A l \in Wanted : got[l] \subseteq Entries
      BY <3>2 DEF IInv, EntriesOK
    <3>4. QED
      BY <3>1, <3>3 DEF IInv, EntriesOK
  <2>2. CASE ~Returns
    BY <2>2 DEF Calls, Answers, Again, Discovers, ListStarts, PageWorks, LinkUnreadable, PageFails,
       IInv, EntriesOK
  <2>3. QED
    BY <2>1, <2>2
<1>5. QED
  BY <1>1, <1>2, <1>3, <1>4, EntriesKept DEF IInv, EntriesOK

LEMMA CloudStepInv ==
    ASSUME IInv, NEW i \in Insts, Created(i) \/ Destroyed(i) \/ Purged(i)
    PROVE  IInv'
<1>1. kind' = kind /\ got' = got /\ out' = out /\ scan' = scan
  BY DEF Created, Destroyed, Purged
<1>2. life' \in [Insts -> {"new", "here", "terminated", "gone"}]
  BY DEF Created, Destroyed, Purged, Becomes, IInv, EntriesOK
<1>3. NoTwins'
  <2>1. CASE Created(i)
    <3>1. Cloud' = Cloud \cup {i}
      BY <2>1 DEF Created, Becomes, Cloud, IInv, EntriesOK
    <3>2. \A j \in Cloud : ~SamePlace(i, j) /\ ~SamePlace(j, i)
      BY <2>1 DEF Created, SamePlace
    <3>3. QED
      BY <1>1, <3>1, <3>2 DEF NoTwins, SamePlace, IInv
  <2>2. CASE Destroyed(i) \/ Purged(i)
    <3>1. Cloud' \subseteq Cloud
      BY <2>2 DEF Destroyed, Purged, Becomes, Cloud, IInv, EntriesOK
    <3>2. QED
      BY <1>1, <3>1 DEF NoTwins, SamePlace, IInv
  <2>3. QED
    BY <2>1, <2>2
<1>4. QED
  BY <1>1, <1>2, <1>3, EntriesKept DEF IInv, EntriesOK

LEMMA InductiveStep == IInv /\ [Next]_vars => IInv'
<1> SUFFICES ASSUME IInv, [Next]_vars PROVE IInv'
  OBVIOUS
<1>1. CASE Calls \/ Answers \/ Again \/ \E l \in Lists : LinkUnreadable(l) \/ PageFails(l)
  BY <1>1, ListingInv
<1>2. CASE \E i \in Insts : Created(i) \/ Destroyed(i) \/ Purged(i)
  BY <1>2, CloudStepInv
<1>3. CASE UNCHANGED vars
  <2>1. kind' = kind /\ life' = life /\ got' = got /\ out' = out /\ scan' = scan
    BY <1>3 DEF vars
  <2>2. NoTwins'
    BY <2>1 DEF IInv, NoTwins, Cloud, SamePlace
  <2>3. QED
    BY <2>1, <2>2, EntriesKept DEF IInv, EntriesOK
<1>4. QED
  BY <1>1, <1>2, <1>3 DEF Next

-----------------------------------------------------------------------------
(* Taking an ID apart.                                                     *)

LEMMA FirstPlace ==
    ASSUME NEW S \in SUBSET Int, NEW n \in S, \A x \in S : n <= x
    PROVE  Min(S) = n
<1>1. \A y \in S : n =< y
  OBVIOUS
<1>2. \A x \in S : (\A y \in S : x =< y) => x = n
  OBVIOUS
<1>3. QED
  BY <1>1, <1>2 DEF Min

LEMMA LastPlace ==
    ASSUME NEW S \in SUBSET Int, NEW n \in S, \A x \in S : n >= x
    PROVE  Max(S) = n
<1>1. \A y \in S : n >= y
  OBVIOUS
<1>2. \A x \in S : (\A y \in S : x >= y) => x = n
  OBVIOUS
<1>3. QED
  BY <1>1, <1>2 DEF Max

LEMMA OnePart ==
    ASSUME NEW S, NEW s \in Seq(S), NEW n \in 1..Len(s)
    PROVE  SubSeq(s, n, n) = <<s[n]>>
<1>1. n \in Int /\ s[n] \in S /\ \A i \in n..n : s[i] \in S
  OBVIOUS
<1>2. /\ SubSeq(s, n, n) \in Seq(S)
      /\ Len(SubSeq(s, n, n)) = 1
      /\ \A i \in 1..1 : SubSeq(s, n, n)[i] = s[n + i - 1]
  <2>1. n - n + 1 = 1 /\ n <= n
    BY <1>1
  <2>2. QED
    BY <1>1, <2>1, SubSeqProperties
<1>3. SubSeq(s, n, n)[1] = s[n]
  BY <1>1, <1>2
<1>4. <<s[n]>> \in Seq(S) /\ Len(<<s[n]>>) = 1 /\ <<s[n]>>[1] = s[n]
  BY <1>1
<1>5. \A i \in 1..1 : SubSeq(s, n, n)[i] = <<s[n]>>[i]
  BY <1>3, <1>4
<1>6. QED
  BY <1>2, <1>4, <1>5, SeqEqual

LEMMA ThreeParts ==
    ASSUME NEW S, NEW s \in Seq(S), Len(s) = 5
    PROVE  SubSeq(s, 3, 5) = <<s[3], s[4], s[5]>>
<1>1. \A i \in 3..5 : s[i] \in S
  <2>1. ASSUME NEW i \in 1..Len(s) PROVE s[i] \in S
    BY <2>1, ElementOfSeq
  <2>2. QED
    BY <2>1
<1>2. /\ SubSeq(s, 3, 5) \in Seq(S)
      /\ Len(SubSeq(s, 3, 5)) = 3
      /\ \A i \in 1..3 : SubSeq(s, 3, 5)[i] = s[3 + i - 1]
  <2>1. 5 - 3 + 1 = 3
    OBVIOUS
  <2>2. QED
    BY <1>1, <2>1, SubSeqProperties
<1> DEFINE t == <<s[3], s[4], s[5]>>
<1>3. t \in Seq(S) /\ Len(t) = 3 /\ \A i \in 1..3 : t[i] = s[3 + i - 1]
  BY <1>1
<1>4. QED
  BY <1>2, <1>3, SeqEqual

\* amazon.go's split undoes region + ":" + id.
LEMMA AwsApart ==
    ASSUME NEW a, NEW b, a # ":", b # ":"
    PROVE  LET s == <<a, ":", b>>
           IN  Places(s, ":") # {} /\ UpToSep(s, ":") = <<a>> /\ AfterSep(s, ":") = <<b>>
<1> DEFINE s == <<a, ":", b>>
<1>1. Places(s, ":") = {2}
  BY DEF Places
<1>2. Min(Places(s, ":")) = 2
  BY <1>1, FirstPlace
<1>3. UpToSep(s, ":") = <<a>> /\ AfterSep(s, ":") = <<b>>
  <2>1. s \in Seq({a, b, ":"}) /\ Len(s) = 3 /\ s[1] = a /\ s[3] = b
    OBVIOUS
  <2>2. SubSeq(s, 1, 1) = <<a>> /\ SubSeq(s, 3, 3) = <<b>>
    <3> HIDE DEF s
    <3> QED BY <2>1, OnePart
  <2>3. UpToSep(s, ":") = SubSeq(s, 1, 1) /\ AfterSep(s, ":") = SubSeq(s, 3, 3)
    BY <1>2 DEF UpToSep, AfterSep
  <2>4. QED
    BY <2>2, <2>3
<1>4. QED
  BY <1>1, <1>3

\* google.go's split undoes project + "/" + zone + "/" + name.
LEMMA GcpApart ==
    ASSUME NEW a, NEW b, NEW c, a # "/", b # "/", c # "/"
    PROVE  LET s == <<a, "/", b, "/", c>>
               rest == AfterSep(s, "/")
           IN  /\ Cardinality(Places(s, "/")) > 1
               /\ UpToSep(s, "/") = <<a>>
               /\ UpToSep(rest, "/") = <<b>> /\ AfterSep(rest, "/") = <<c>>
<1> DEFINE s == <<a, "/", b, "/", c>>
           rest == <<b, "/", c>>
<1>1. Places(s, "/") = {2, 4} /\ Places(rest, "/") = {2}
  BY DEF Places
<1>2. Min(Places(s, "/")) = 2 /\ Min(Places(rest, "/")) = 2
  BY <1>1, FirstPlace
<1> DEFINE T == {a, b, c, "/"}
<1>3. UpToSep(s, "/") = <<a>> /\ AfterSep(s, "/") = rest
  <2>1. s \in Seq(T) /\ Len(s) = 5 /\ s[1] = a /\ s[3] = b /\ s[4] = "/" /\ s[5] = c
    OBVIOUS
  <2>2. SubSeq(s, 1, 1) = <<a>>
    <3> HIDE DEF s
    <3> QED BY <2>1, OnePart
  <2>3. SubSeq(s, 3, 5) = rest
    <3> HIDE DEF s
    <3> QED BY <2>1, ThreeParts
  <2>4. UpToSep(s, "/") = SubSeq(s, 1, 1) /\ AfterSep(s, "/") = SubSeq(s, 3, 5)
    BY <1>2 DEF UpToSep, AfterSep
  <2>5. QED
    BY <2>2, <2>3, <2>4
<1>4. UpToSep(rest, "/") = <<b>> /\ AfterSep(rest, "/") = <<c>>
  <2>1. rest \in Seq(T) /\ Len(rest) = 3 /\ rest[1] = b /\ rest[3] = c
    OBVIOUS
  <2>2. SubSeq(rest, 1, 1) = <<b>> /\ SubSeq(rest, 3, 3) = <<c>>
    <3> HIDE DEF rest
    <3> QED BY <2>1, OnePart
  <2>3. UpToSep(rest, "/") = SubSeq(rest, 1, 1) /\ AfterSep(rest, "/") = SubSeq(rest, 3, 3)
    BY <1>2 DEF UpToSep, AfterSep
  <2>4. QED
    BY <2>2, <2>3
<1>5. Cardinality(Places(s, "/")) = 2
  <2>1. IsFiniteSet({2}) /\ Cardinality({2}) = 1
    BY FS_Singleton
  <2>2. 4 \notin {2} /\ {2, 4} = {2} \cup {4}
    OBVIOUS
  <2>3. Cardinality({2} \cup {4}) = 2
    BY <2>1, <2>2, FS_AddElement
  <2>4. QED
    BY <1>1, <2>2, <2>3
<1>6. QED
  BY <1>3, <1>4, <1>5

\* parseVMID finds what ARM wrote after the two words: the resource group,
\* unless it is called as the word before it, and the name, whatever it is.
LEMMA AzureApart ==
    ASSUME NEW g, NEW n, g # "/", n # "/", g # "resourceGroups"
    PROVE  LET s == <<"/", "subscriptions", "/", "s", "/", "resourceGroups", "/", g,
                      "/", "providers", "/", "Microsoft.Compute", "/", "virtualMachines", "/", n>>
           IN  PartsAfter(s, "resourceGroups") = {g} /\ PartsAfter(s, "virtualMachines") = {n}
<1> DEFINE s == <<"/", "subscriptions", "/", "s", "/", "resourceGroups", "/", g,
                  "/", "providers", "/", "Microsoft.Compute", "/", "virtualMachines", "/", n>>
           At(word) == {x \in 1..Len(s) - 2 : s[x] = word}
<1>1. Len(s) = 16
  OBVIOUS
<1>2. /\ s[1] = "/" /\ s[2] = "subscriptions" /\ s[3] = "/" /\ s[4] = "s" /\ s[5] = "/"
      /\ s[6] = "resourceGroups" /\ s[7] = "/" /\ s[8] = g /\ s[9] = "/" /\ s[10] = "providers"
      /\ s[11] = "/" /\ s[12] = "Microsoft.Compute" /\ s[13] = "/" /\ s[14] = "virtualMachines"
      /\ s[16] = n
  OBVIOUS
<1> HIDE DEF s
<1>3. At("resourceGroups") = {6}
  BY <1>1, <1>2
<1>4. 14 \in At("virtualMachines") /\ \A x \in At("virtualMachines") : 14 >= x
  BY <1>1, <1>2
<1>5. Max(At("resourceGroups")) = 6
  BY <1>3, LastPlace
<1>6. Max(At("virtualMachines")) = 14
  <2>1. At("virtualMachines") \in SUBSET Int
    OBVIOUS
  <2>2. QED
    BY <1>4, <2>1, LastPlace
<1>7. PartsAfter(s, "resourceGroups") = {s[8]}
  <2>1. PartsAfter(s, "resourceGroups") =
           {s[Max(At("resourceGroups")) + 2] : x \in At("resourceGroups")}
    BY DEF PartsAfter
  <2>2. Max(At("resourceGroups")) + 2 = 8 /\ At("resourceGroups") # {}
    BY <1>3, <1>5
  <2>3. QED
    BY <2>1, <2>2
<1>8. PartsAfter(s, "virtualMachines") = {s[16]}
  <2>1. PartsAfter(s, "virtualMachines") =
           {s[Max(At("virtualMachines")) + 2] : x \in At("virtualMachines")}
    BY DEF PartsAfter
  <2>2. Max(At("virtualMachines")) + 2 = 16 /\ At("virtualMachines") # {}
    BY <1>4, <1>6
  <2>3. QED
    BY <2>1, <2>2
<1>9. QED
  BY <1>2, <1>7, <1>8 DEF s

\* toInstance, and split, parseVMID and parseID in Power and GetPowerState:
\* whatever was created, destroyed and listed since, the ID of a machine that
\* still exists, taken apart again, is that of this machine alone.
THEOREM IdsLeadBack == Spec => []IdLeadsBack
<1>1. ASSUME IInv PROVE IdLeadsBack
  <2> SUFFICES ASSUME NEW e \in out, e.of \in Cloud, ~Misread(e.of) PROVE Target(e.id) = {e.of}
    BY DEF IdLeadsBack
  <2>1. PICK i \in Insts : e = Entry(i)
    BY <1>1 DEF IInv, EntriesOK, Entries
  <2>2. e.of = i /\ e.id = IdOf(kind, i) /\ i \in Cloud
    BY <2>1 DEF Entry
  <2>3. kind \in Kinds /\ \A n \in {Scope[i], Zone[i], Name[i], Uid[i]} : n # "/" /\ n # ":"
    BY <1>1, AdaptersAssumption DEF IInv, EntriesOK
  <2>4. ASSUME NEW j \in Cloud, j # i PROVE ~SamePlace(i, j) /\ Uid[i] # Uid[j]
    BY <1>1, <2>2, <2>4, AdaptersAssumption DEF IInv, NoTwins, Cloud
  <2>5. CASE kind = "aws"
    <3>1. e.id = <<Scope[i], ":", Uid[i]>>
      BY <2>2, <2>5 DEF IdOf
    <3>2. \A j \in Cloud : LeadsTo(kind, e.id, j) <=> Scope[j] = Scope[i] /\ Uid[j] = Uid[i]
      BY <2>3, <2>5, <3>1, AwsApart DEF LeadsTo
    <3>3. QED
      BY <2>2, <2>4, <3>2 DEF Target
  <2>6. CASE kind = "gcp"
    <3>1. e.id = <<Scope[i], "/", Zone[i], "/", Name[i]>>
      BY <2>2, <2>6 DEF IdOf
    <3>2. \A j \in Cloud : LeadsTo(kind, e.id, j) <=>
             Scope[j] = Scope[i] /\ Zone[j] = Zone[i] /\ Name[j] = Name[i]
      BY <2>3, <2>6, <3>1, GcpApart DEF LeadsTo
    <3>3. QED
      BY <2>2, <2>4, <3>2 DEF Target, SamePlace
  <2>7. CASE kind = "azure"
    <3>1. e.id = <<"/", "subscriptions", "/", "s", "/", "resourceGroups", "/", Scope[i],
                   "/", "providers", "/", "Microsoft.Compute",
                   "/", "virtualMachines", "/", Name[i]>>
      BY <2>2, <2>7 DEF IdOf
    <3>2. Scope[i] # "resourceGroups"
      BY <2>2, <2>7 DEF Misread
    <3>3. /\ PartsAfter(e.id, "resourceGroups") = {Scope[i]}
          /\ PartsAfter(e.id, "virtualMachines") = {Name[i]}
      BY <2>3, <3>1, <3>2, AzureApart
    <3>4. \A j \in Cloud : LeadsTo(kind, e.id, j) <=> Scope[j] = Scope[i] /\ Name[j] = Name[i]
      BY <2>7, <3>3 DEF LeadsTo
    <3>5. QED
      BY <2>2, <2>4, <2>7, <3>4 DEF Target, SamePlace
  <2>8. CASE kind \notin {"aws", "gcp", "azure"}
    BY <2>2, <2>4, <2>8 DEF Target, LeadsTo, IdOf
  <2>9. QED
    BY <2>5, <2>6, <2>7, <2>8
<1>2. QED
  BY <1>1, InitInv, InductiveStep, PTL DEF Spec

-----------------------------------------------------------------------------
(* ListIsFaithful.                                                         *)

Of(entries) == {e.of : e \in entries}

\* A list is asked for once its account's lists are known, and before the
\* call returns; only EC2 lists terminated instances.
CallOK ==
    /\ pc \in {"idle", "discover", "list", "done", "failed"}
    /\ state \in [Lists -> {"none", "waiting", "paging", "over"}]
    /\ page \in [Lists -> Int]
    /\ kind # "aws" => \A i \in Insts : life[i] # "terminated"
    /\ pc \in {"discover", "list"} => stayed \subseteq Visible /\ Visible \subseteq came
    /\ pc = "list" => \A l \in Lists : state[l] # "none" <=> l \in Wanted
    /\ pc # "list" => \A l \in Lists : state[l] # "paging"

\* What list l has so far: of the machines that stayed, those that come
\* before the next page, or all when it is over.
Covers(l) ==
    /\ state[l] \in {"none", "waiting"} => page[l] = FirstPage
    /\ Of(got[l]) \subseteq came
    /\ ~slipped =>
          /\ state[l] = "paging" => \A i \in In(l) \cap stayed : Before(l, i) => i \in Of(got[l])
          /\ state[l] = "over" /\ ~failed => In(l) \cap stayed \subseteq Of(got[l])

FaithInv ==
    /\ IInv
    /\ CallOK
    /\ pc = "list" => \A l \in Lists : Covers(l)
    /\ ListIsFaithful
\* What of a list comes before i, i included.
UpTo(S, i) == {j \in S : j <= i}

LEMMA UpToFinite ==
    ASSUME NEW S \in SUBSET Nat, NEW i \in Nat
    PROVE  IsFiniteSet(UpTo(S, i)) /\ Cardinality(UpTo(S, i)) \in Nat
<1>1. \A j \in UpTo(S, i) : j \in Nat /\ j <= i
  BY DEF UpTo
<1>2. IsFiniteSet(UpTo(S, i))
  <2>1. UpTo(S, i) \in SUBSET Nat
    BY <1>1
  <2>2. QED
    BY <1>1, <2>1, FS_BoundedSetOfNaturals
<1>3. QED
  BY <1>2, FS_CardinalityType

\* A longer list puts nothing earlier.
LEMMA UpToGrows ==
    ASSUME NEW T \in SUBSET Nat, NEW S \in SUBSET T, NEW i \in Nat
    PROVE  Cardinality(UpTo(S, i)) <= Cardinality(UpTo(T, i))
<1>1. UpTo(S, i) \in SUBSET UpTo(T, i)
  BY DEF UpTo
<1>2. QED
  BY <1>1, UpToFinite, FS_Subset

\* Of two instances the earlier one has the smaller place.
LEMMA UpToOrders ==
    ASSUME NEW S \in SUBSET Nat, NEW i \in S, NEW j \in S, i < j
    PROVE  Cardinality(UpTo(S, i)) + 1 <= Cardinality(UpTo(S, j))
<1>1. UpTo(S, i) \cup {j} \in SUBSET UpTo(S, j)
  <2>1. \A x \in UpTo(S, i) : x \in S /\ x <= j
    BY DEF UpTo
  <2>2. j \in UpTo(S, j)
    BY DEF UpTo
  <2>3. QED
    BY <2>1, <2>2 DEF UpTo
<1>2. j \notin UpTo(S, i)
  BY DEF UpTo
<1>3. Cardinality(UpTo(S, i) \cup {j}) = Cardinality(UpTo(S, i)) + 1
  BY <1>2, UpToFinite, FS_AddElement
<1>4. QED
  BY <1>1, <1>3, UpToFinite, FS_Subset

LEMMA UpToCounts ==
    ASSUME NEW S \in SUBSET Nat, NEW i \in S
    PROVE  Cardinality(UpTo(S, i)) >= 1
<1>1. i \in UpTo(S, i)
  BY DEF UpTo
<1>2. QED
  BY <1>1, UpToFinite, FS_EmptySet

\* Without x, a place that is not after x's stays, one after it moves up.
LEMMA UpToWithout ==
    ASSUME NEW S \in SUBSET Nat, NEW x \in S, NEW i \in Nat
    PROVE  Cardinality(UpTo(S \ {x}, i)) =
              IF x <= i THEN Cardinality(UpTo(S, i)) - 1 ELSE Cardinality(UpTo(S, i))
<1>1. UpTo(S \ {x}, i) = UpTo(S, i) \ {x}
  BY DEF UpTo
<1>2. x \in UpTo(S, i) <=> x <= i
  BY DEF UpTo
<1>3. IsFiniteSet(UpTo(S, i)) /\ Cardinality(UpTo(S, i)) \in Nat
  BY UpToFinite
<1>4. Cardinality(UpTo(S, i) \ {x}) =
         IF x \in UpTo(S, i) THEN Cardinality(UpTo(S, i)) - 1 ELSE Cardinality(UpTo(S, i))
  BY <1>3, FS_RemoveElement
<1>5. QED
  BY <1>1, <1>2, <1>4

LEMMA InIsNat == \A l : In(l) \in SUBSET Nat /\ In(l) \in SUBSET Insts
  BY AdaptersAssumption DEF In

\* Nothing comes before the first page.
LEMMA FirstPageIsFirst ==
    ASSUME NEW l, page[l] = FirstPage, NEW i \in In(l)
    PROVE  ~Before(l, i)
<1>1. i \in Nat /\ Cardinality(UpTo(In(l), i)) >= 1 /\ Cardinality(UpTo(In(l), i)) \in Nat
  BY InIsNat, UpToCounts, UpToFinite
<1>2. CASE kind \in Numbered
  BY <1>1, <1>2, AdaptersAssumption DEF Before, FirstPage, Rank, UpTo
<1>3. CASE kind \notin Numbered
  BY <1>1, <1>3 DEF Before, FirstPage
<1>4. QED
  BY <1>2, <1>3

LEMMA OfUnion == \A A, B : Of(A \cup B) = Of(A) \cup Of(B)
  BY DEF Of

LEMMA OfKept == \A l : Of(Kept(l)) = PageOf(l) \cap Cloud
<1> TAKE l
<1>1. \A i : Entry(i).of = i
  BY DEF Entry
<1>2. QED
  BY <1>1 DEF Of, Kept

\* What comes before the next page came before this one or is on it.
LEMMA PageAdvances ==
    ASSUME NEW l, page[l] \in Int, NEW next \in NextPage(l), NEW i \in In(l),
           page'[l] = next, life' = life, kind' = kind, Before(l, i)'
    PROVE  Before(l, i) \/ i \in PageOf(l)
<1>1. i \in Nat /\ Rank(l, i) \in Nat /\ Rank(l, i)' = Rank(l, i)
  BY InIsNat, UpToFinite DEF Rank, UpTo, In
<1>2. CASE kind \in Numbered
  <2>1. Rank(l, i) <= ((page[l] + 1) - 1) * PageSize
    BY <1>1, <1>2 DEF Before, NextPage
  <2>2. (page[l] + 1) - 1 = page[l]
    OBVIOUS
  <2>3. Rank(l, i) <= page[l] * PageSize
    BY <2>1, <2>2
  <2>4. QED
    BY <1>2, <2>3 DEF PageOf, Rest
<1>3. CASE kind \notin Numbered
  <2>1. next \in PageOf(l) /\ i <= next
    BY <1>3 DEF Before, NextPage
  <2>2. Rest(l) \in SUBSET Nat /\ next \in Nat
    BY <2>1, InIsNat DEF Rest, PageOf
  <2>3. Cardinality(UpTo(Rest(l), next)) <= PageSize
    BY <1>3, <2>1 DEF PageOf, UpTo
  <2>4. UpTo(Rest(l), i) \in SUBSET UpTo(Rest(l), next)
    BY <1>1, <2>1, <2>2 DEF UpTo
  <2>5. /\ Cardinality(UpTo(Rest(l), i)) <= Cardinality(UpTo(Rest(l), next))
        /\ Cardinality(UpTo(Rest(l), i)) \in Nat
        /\ Cardinality(UpTo(Rest(l), next)) \in Nat
    BY <1>1, <2>2, <2>4, UpToFinite, FS_Subset
  <2>6. Cardinality(UpTo(Rest(l), i)) <= PageSize
    BY <2>3, <2>5, AdaptersAssumption
  <2>7. QED
    BY <1>3, <2>6 DEF PageOf, Rest, UpTo
<1>4. QED
  BY <1>2, <1>3
-----------------------------------------------------------------------------
\* What ListInstances does leaves the cloud and the account as they are.
LEMMA CloudKept ==
    ASSUME UNCHANGED <<kind, scan, life>>
    PROVE  /\ Wanted' = Wanted /\ Cloud' = Cloud /\ Visible' = Visible /\ FirstPage' = FirstPage
           /\ \A l : In(l)' = In(l)
           /\ \A l, i : page'[l] = page[l] => Before(l, i)' = Before(l, i)
<1>1. \A l : In(l)' = In(l)
  BY DEF In
<1>2. Wanted' = Wanted /\ Cloud' = Cloud /\ FirstPage' = FirstPage
  BY DEF Wanted, Cloud, FirstPage
<1>3. \A l, i : Rank(l, i)' = Rank(l, i)
  BY <1>1 DEF Rank
<1>4. QED
  BY <1>1, <1>2, <1>3 DEF Visible, Before

\* A list that a step does not touch stays covered, though others fail or slip.
LEMMA CoversKept ==
    ASSUME NEW l, Covers(l), UNCHANGED <<kind, scan, life, stayed, came>>,
           state'[l] = state[l], page'[l] = page[l], got'[l] = got[l],
           failed => failed', slipped => slipped'
    PROVE  Covers(l)'
  BY CloudKept DEF Covers, Of

\* A list goes on over a change of the cloud if no machine that stays comes
\* to stand before its next page.
LEMMA CoversGoesOn ==
    ASSUME NEW l, Covers(l), UNCHANGED <<kind, state, page, got, failed>>,
           came \subseteq came', slipped => slipped',
           ~slipped' => \A j \in In(l)' \cap stayed' :
                           /\ j \in In(l) \cap stayed
                           /\ state[l] = "paging" /\ Before(l, j)' => Before(l, j)
    PROVE  Covers(l)'
  BY DEF Covers, FirstPage, Of

LEMMA FaithInit == Init => FaithInv
<1> SUFFICES ASSUME Init PROVE FaithInv
  OBVIOUS
<1>1. CallOK
  <2>1. \A i \in Insts : life[i] # "terminated"
    BY DEF Init
  <2>2. pc = "idle" /\ state \in [Lists -> {"none", "waiting", "paging", "over"}] /\ page \in [Lists -> Int]
    BY DEF Init
  <2>3. \A l \in Lists : state[l] # "paging"
    BY DEF Init
  <2>4. QED
    BY <2>1, <2>2, <2>3 DEF CallOK
<1>2. QED
  BY <1>1, InitInv DEF FaithInv, ListIsFaithful, Init

\* Every list is before its first page.
LEMMA BeginsCovers ==
    ASSUME Begins, UNCHANGED <<kind, scan, life>>
    PROVE  /\ \A l \in Lists : Covers(l)'
           /\ state' \in [Lists -> {"none", "waiting", "paging", "over"}]
           /\ page' \in [Lists -> Int]
           /\ \A l \in Lists : state'[l] # "none" <=> l \in Wanted'
<1>1. FirstPage \in Int /\ FirstPage' = FirstPage /\ Wanted' = Wanted
  BY CloudKept DEF FirstPage
<1>2. Of({}) = {}
  BY DEF Of
<1>3. ASSUME NEW l \in Lists PROVE Covers(l)'
  <2>1. state'[l] \in {"none", "waiting"} /\ page'[l] = FirstPage /\ got'[l] = {}
    BY DEF Begins
  <2>2. Of(got[l])' = {}
    BY <1>2, <2>1 DEF Of
  <2>3. QED
    BY <1>1, <2>1, <2>2 DEF Covers
<1>4. QED
  BY <1>1, <1>3 DEF Begins

LEMMA CallsFaith == FaithInv /\ Calls => FaithInv'
<1> SUFFICES ASSUME FaithInv, Calls PROVE FaithInv'
  OBVIOUS
<1>1. UNCHANGED <<kind, scan, life>> /\ stayed' = Visible /\ came' = Visible
  BY DEF Calls
<1>2. IInv'
  BY ListingInv DEF FaithInv
<1>3. CASE pc' = "discover" /\ UNCHANGED <<state, page, got>>
  BY <1>1, <1>2, <1>3, CloudKept DEF FaithInv, CallOK, ListIsFaithful, Calls
<1>4. CASE pc' = "list" /\ Begins
  BY <1>1, <1>2, <1>4, CloudKept, BeginsCovers DEF FaithInv, CallOK, ListIsFaithful
<1>5. QED
  BY <1>3, <1>4 DEF Calls

LEMMA DiscoversFaith == FaithInv /\ Discovers => FaithInv'
<1> SUFFICES ASSUME FaithInv, Discovers PROVE FaithInv'
  OBVIOUS
<1>1. UNCHANGED <<kind, scan, life, stayed, came>>
  BY DEF Discovers, history
<1>2. IInv'
  BY ListingInv DEF FaithInv, Answers
<1>3. CASE pc' = "list" /\ Begins
  BY <1>1, <1>2, <1>3, CloudKept, BeginsCovers DEF FaithInv, CallOK, ListIsFaithful, Discovers
<1>4. CASE pc' = "failed" /\ UNCHANGED <<state, page, got>>
  BY <1>1, <1>2, <1>4, CloudKept DEF FaithInv, CallOK, ListIsFaithful, Discovers
<1>5. QED
  BY <1>3, <1>4 DEF Discovers

LEMMA AgainFaith == FaithInv /\ Again => FaithInv'
<1> SUFFICES ASSUME FaithInv, Again PROVE FaithInv'
  OBVIOUS
<1>1. IInv'
  BY ListingInv DEF FaithInv
<1>2. state' \in [Lists -> {"none", "waiting", "paging", "over"}] /\ page' \in [Lists -> Int]
  BY DEF Again
<1>3. QED
  BY <1>1, <1>2 DEF Again, FaithInv, CallOK, ListIsFaithful

\* A step of one list.
LEMMA ListStepFaith ==
    ASSUME FaithInv, NEW l \in Lists, pc = "list", pc' = "list",
           UNCHANGED <<kind, scan, life, stayed, came, out>>,
           \A m \in Lists \ {l} : /\ state'[m] = state[m] /\ page'[m] = page[m]
                                  /\ got'[m] = got[m],
           failed => failed', slipped => slipped',
           state[l] # "none", state'[l] # "none",
           state' \in [Lists -> {"none", "waiting", "paging", "over"}],
           page' \in [Lists -> Int],
           IInv', Covers(l)'
    PROVE  FaithInv'
<1>1. \A m \in Lists : Covers(m)'
  BY CoversKept DEF FaithInv
<1>2. \A m \in Lists : state'[m] # "none" <=> m \in Wanted'
  BY CloudKept DEF FaithInv, CallOK
<1>3. CallOK'
  BY <1>2, CloudKept DEF FaithInv, CallOK
<1>4. QED
  BY <1>1, <1>3 DEF FaithInv, ListIsFaithful

LEMMA ListStartsFaith ==
    ASSUME FaithInv, NEW l \in Lists, ListStarts(l)
    PROVE  FaithInv'
<1>1. pc = "list" /\ state[l] = "waiting" /\ state' = [state EXCEPT ![l] = "paging"]
  BY DEF ListStarts
<1>2. UNCHANGED <<kind, scan, life, pc, page, got, failed, out, stayed, came, slipped>>
  BY DEF ListStarts, history
<1>3. Covers(l) /\ state \in [Lists -> {"none", "waiting", "paging", "over"}] /\ page \in [Lists -> Int]
  BY <1>1 DEF FaithInv, CallOK
<1>4. \A i \in In(l) : ~Before(l, i)'
  BY <1>1, <1>2, <1>3, FirstPageIsFirst, CloudKept DEF Covers
<1>5. Covers(l)'
  BY <1>1, <1>2, <1>3, <1>4, CloudKept DEF Covers, Of
<1>6. IInv'
  BY ListingInv DEF FaithInv, Answers
<1>7. QED
  BY <1>1, <1>2, <1>3, <1>5, <1>6, ListStepFaith

\* What is kept of a page was there at some time of the call.
LEMMA KeptCame ==
    ASSUME FaithInv, NEW l \in Lists, pc = "list", state[l] = "paging"
    PROVE  PageOf(l) \cap Cloud \subseteq came
<1>1. l \in Wanted /\ Visible \subseteq came
  BY DEF FaithInv, CallOK
<1>2. PageOf(l) \subseteq In(l)
  BY DEF PageOf, Rest
<1>3. In(l) \cap Cloud \subseteq Visible
  BY <1>1 DEF Visible
<1>4. QED
  BY <1>1, <1>2, <1>3

LEMMA PageWorksFaith ==
    ASSUME FaithInv, NEW l \in Lists, pc = "list", PageWorks(l)
    PROVE  FaithInv'
<1>1. /\ state[l] = "paging"
      /\ got' = [got EXCEPT ![l] = got[l] \cup Kept(l)]
      /\ UNCHANGED <<kind, scan, life, pc, failed, out, stayed, came, slipped>>
  BY DEF PageWorks, history
<1>2. /\ state \in [Lists -> {"none", "waiting", "paging", "over"}] /\ page \in [Lists -> Int]
      /\ got \in [Lists -> SUBSET Entries]
      /\ stayed \subseteq Cloud
      /\ Covers(l)
  <2>1. stayed \subseteq Visible
    BY DEF FaithInv, CallOK
  <2>2. Visible \subseteq Cloud
    BY DEF Visible
  <2>3. QED
    BY <2>1, <2>2 DEF FaithInv, CallOK, IInv, EntriesOK
<1>3. Of(got'[l]) = Of(got[l]) \cup (PageOf(l) \cap Cloud)
  BY <1>1, <1>2, OfUnion, OfKept
<1>4. Of(got[l])' = Of(got'[l])
  BY DEF Of
<1>5. Of(got'[l]) \subseteq came
  BY <1>1, <1>2, <1>3, KeptCame DEF Covers
<1>6. IInv'
  BY ListingInv DEF FaithInv, Answers
<1>7. CASE HasNext(l)
  <2>1. PICK next \in NextPage(l) : page' = [page EXCEPT ![l] = next]
    BY <1>7 DEF PageWorks
  <2>2. state' = state
    BY <1>7 DEF PageWorks
  <2>3. next \in Int
    <3>1. CASE kind \in Numbered
      BY <1>2, <2>1, <3>1 DEF NextPage
    <3>2. CASE kind \notin Numbered
      <4>1. next \in In(l)
        BY <2>1, <3>2 DEF NextPage, PageOf, Rest
      <4>2. QED
        BY <4>1, InIsNat
    <3>3. QED
      BY <3>1, <3>2
  <2>4. page'[l] = next /\ page[l] \in Int /\ page' \in [Lists -> Int]
    BY <1>2, <2>1, <2>3
  <2>5. ASSUME NEW i \in In(l) \cap stayed, Before(l, i)', ~slipped
        PROVE  i \in Of(got'[l])
    <3>1. Before(l, i) \/ i \in PageOf(l)
      BY <1>1, <2>1, <2>4, <2>5, PageAdvances
    <3>2. Before(l, i) => i \in Of(got[l])
      BY <1>1, <1>2, <2>5 DEF Covers
    <3>3. QED
      BY <1>2, <1>3, <3>1, <3>2
  <2>6. Covers(l)'
    BY <1>1, <1>4, <1>5, <2>2, <2>5, CloudKept DEF Covers
  <2>7. QED
    BY <1>1, <1>2, <1>6, <2>1, <2>2, <2>4, <2>6, ListStepFaith
<1>8. CASE ~HasNext(l)
  <2>1. state' = [state EXCEPT ![l] = "over"] /\ page' = page
    BY <1>8 DEF PageWorks
  <2>2. ASSUME NEW i \in In(l) \cap stayed, ~slipped
        PROVE  i \in Of(got'[l])
    <3>1. Before(l, i) => i \in Of(got[l])
      BY <1>1, <1>2, <2>2 DEF Covers
    <3>2. ~Before(l, i) => i \in PageOf(l)
      BY <1>8 DEF HasNext, Rest
    <3>3. QED
      BY <1>2, <1>3, <3>1, <3>2
  <2>3. Covers(l)'
    BY <1>1, <1>2, <1>4, <1>5, <2>1, <2>2, CloudKept DEF Covers
  <2>4. QED
    BY <1>1, <1>2, <1>6, <2>1, <2>3, ListStepFaith
<1>9. QED
  BY <1>7, <1>8

LEMMA LinkUnreadableFaith ==
    ASSUME FaithInv, NEW l \in Lists, pc = "list", LinkUnreadable(l)
    PROVE  FaithInv'
<1>1. /\ state[l] = "paging" /\ state' = [state EXCEPT ![l] = "over"]
      /\ got' = [got EXCEPT ![l] = got[l] \cup Kept(l)]
      /\ slipped' = TRUE
      /\ UNCHANGED <<kind, scan, life, pc, page, failed, out, stayed, came>>
  BY DEF LinkUnreadable
<1>2. /\ state \in [Lists -> {"none", "waiting", "paging", "over"}] /\ page \in [Lists -> Int]
      /\ got \in [Lists -> SUBSET Entries]
      /\ Covers(l)
  BY DEF FaithInv, CallOK, IInv, EntriesOK
<1>3. Of(got'[l]) = Of(got[l]) \cup (PageOf(l) \cap Cloud)
  BY <1>1, <1>2, OfUnion, OfKept
<1>4. Of(got[l])' = Of(got'[l])
  BY DEF Of
<1>5. Covers(l)'
  BY <1>1, <1>2, <1>3, <1>4, KeptCame DEF Covers
<1>6. IInv'
  BY ListingInv DEF FaithInv
<1>7. QED
  BY <1>1, <1>2, <1>5, <1>6, ListStepFaith

LEMMA PageFailsFaith ==
    ASSUME FaithInv, NEW l \in Lists, pc = "list", PageFails(l)
    PROVE  FaithInv'
<1>1. /\ state[l] = "paging" /\ state' = [state EXCEPT ![l] = "over"]
      /\ got' = [got EXCEPT ![l] = {}]
      /\ failed' = TRUE
      /\ UNCHANGED <<kind, scan, life, pc, page, out, stayed, came, slipped>>
  BY DEF PageFails, history
<1>2. /\ state \in [Lists -> {"none", "waiting", "paging", "over"}] /\ page \in [Lists -> Int]
      /\ got \in [Lists -> SUBSET Entries]
  BY DEF FaithInv, CallOK, IInv, EntriesOK
<1>3. Of(got[l])' = {}
  BY <1>1, <1>2 DEF Of
<1>4. Covers(l)'
  BY <1>1, <1>2, <1>3 DEF Covers
<1>5. IInv'
  BY ListingInv DEF FaithInv
<1>6. QED
  BY <1>1, <1>2, <1>4, <1>5, ListStepFaith

\* What the call returns is what its lists have: all that stayed, unless one
\* of them failed.
LEMMA ReturnsFaith == FaithInv /\ Returns => FaithInv'
<1> SUFFICES ASSUME FaithInv, Returns PROVE FaithInv'
  OBVIOUS
<1>1. /\ pc = "list" /\ pc' \in {"failed", "done"}
      /\ UNCHANGED <<kind, scan, life, state, page, got, failed, stayed, came, slipped>>
  BY DEF Returns, history
<1>2. IInv'
  BY ListingInv DEF FaithInv, Answers
<1>3. CallOK'
  BY <1>1, CloudKept DEF FaithInv, CallOK, Returns, Paging
<1>4. ListIsFaithful'
  <2> SUFFICES ASSUME pc' = "done"
               PROVE  /\ ~slipped => stayed \subseteq Listed'
                      /\ Listed' \subseteq came
    BY <1>1 DEF ListIsFaithful
  <2>1. ~failed /\ out' = UNION {got[l] : l \in Wanted}
    BY DEF Returns
  <2>2. Wanted \subseteq Lists
    BY DEF FaithInv, IInv, EntriesOK, Wanted, Lists
  <2>3. \A l \in Wanted : state[l] = "over" /\ Covers(l)
    BY <1>1, <2>1, <2>2 DEF Returns, FaithInv
  <2>4. Listed' = UNION {Of(got[l]) : l \in Wanted}
    BY <2>1 DEF Listed, Of
  <2>5. ASSUME ~slipped, NEW i \in stayed PROVE i \in Listed'
    <3>1. PICK l \in Wanted : i \in In(l)
      BY <1>1, <2>5 DEF FaithInv, CallOK, Visible
    <3>2. i \in Of(got[l])
      BY <2>1, <2>3, <2>5, <3>1 DEF Covers
    <3>3. QED
      BY <2>4, <3>2
  <2>6. Listed' \subseteq came
    BY <2>3, <2>4 DEF Covers
  <2>7. QED
    BY <2>5, <2>6
<1>5. QED
  BY <1>1, <1>2, <1>3, <1>4 DEF FaithInv
-----------------------------------------------------------------------------
\* A machine that is created puts no other before the next page.
LEMMA CreatedFaith ==
    ASSUME FaithInv, NEW i \in Insts, Created(i)
    PROVE  FaithInv'
<1>1. /\ UNCHANGED <<kind, scan, pc, state, page, got, failed, out, stayed, slipped>>
      /\ life[i] = "new" /\ life' = [life EXCEPT ![i] = "here"]
      /\ came \subseteq came'
  BY DEF Created, Becomes
<1>2. life \in [Insts -> {"new", "here", "terminated", "gone"}]
  BY DEF FaithInv, IInv, EntriesOK
<1>3. IInv' /\ Wanted' = Wanted
  BY <1>1, CloudStepInv DEF FaithInv, Wanted
<1>4. \A l : In(l)' = In(l) \cup (IF l = All \/ Scope[i] = l THEN {i} ELSE {})
  BY <1>1, <1>2 DEF In
<1>5. Cloud' = Cloud \cup {i} /\ i \notin Cloud
  BY <1>1, <1>2 DEF Cloud
<1>6. ASSUME pc \in {"discover", "list"}
      PROVE  stayed' \subseteq Visible' /\ Visible' \subseteq came' /\ i \notin stayed
  <2>1. stayed \subseteq Visible /\ Visible \subseteq came
    BY <1>6 DEF FaithInv, CallOK
  <2>2. Visible \subseteq Visible'
    BY <1>3, <1>4, <1>5 DEF Visible
  <2>3. Visible' \subseteq Visible \cup {i}
    BY <1>3, <1>4, <1>5 DEF Visible
  <2>4. i \in Visible' => i \in came'
    <3>1. SUFFICES ASSUME i \in Visible' PROVE Wanted \cap {All, Scope[i]} # {}
      BY <1>6 DEF Created
    <3>2. PICK l \in Wanted : i \in In(l)'
      BY <1>3, <3>1 DEF Visible
    <3>3. i \notin In(l)
      BY <1>1 DEF In
    <3>4. l = All \/ Scope[i] = l
      BY <1>4, <3>2, <3>3
    <3>5. QED
      BY <3>4
  <2>5. i \notin Visible
    BY <1>5 DEF Visible
  <2>6. QED
    BY <1>1, <2>1, <2>2, <2>3, <2>4, <2>5
<1>7. CallOK'
  BY <1>1, <1>2, <1>3, <1>6 DEF FaithInv, CallOK
<1>8. ASSUME pc = "list", NEW l \in Lists PROVE Covers(l)'
  <2>1. ASSUME NEW j \in In(l)' \cap stayed'
        PROVE  j \in In(l) \cap stayed /\ (Before(l, j)' => Before(l, j))
    <3>1. j \in stayed /\ j # i
      BY <1>1, <1>6, <1>8, <2>1
    <3>2. j \in In(l)
      BY <1>4, <2>1, <3>1
    <3>3. In(l)' \in SUBSET Nat /\ In(l) \in SUBSET In(l)' /\ j \in Nat
      BY <1>4, <3>2, InIsNat, AdaptersAssumption
    <3>4. /\ Rank(l, j) <= Rank(l, j)'
          /\ Rank(l, j) \in Nat /\ Rank(l, j)' \in Nat
      BY <3>3, UpToGrows, UpToFinite DEF Rank, UpTo
    <3>5. page[l] \in Int /\ page'[l] = page[l] /\ kind' = kind
      BY <1>1 DEF FaithInv, CallOK
    <3>6. CASE kind \in Numbered
      <4>1. (page[l] - 1) * PageSize \in Int
        BY <3>5, AdaptersAssumption
      <4>2. QED
        BY <3>1, <3>2, <3>4, <3>5, <3>6, <4>1 DEF Before
    <3>7. CASE kind \notin Numbered
      BY <3>1, <3>2, <3>5, <3>7 DEF Before
    <3>8. QED
      BY <3>6, <3>7
  <2>2. Covers(l)
    BY <1>8 DEF FaithInv
  <2>3. QED
    BY <1>1, <2>1, <2>2, CoversGoesOn
<1>9. ListIsFaithful'
  <2>1. came' = came \/ pc # "done"
    BY DEF Created
  <2>2. Listed' = Listed
    BY <1>1 DEF Listed
  <2>3. QED
    BY <1>1, <2>1, <2>2 DEF FaithInv, ListIsFaithful
<1>10. QED
  BY <1>1, <1>3, <1>7, <1>8, <1>9 DEF FaithInv

\* What leaves the cloud moves none that stays before the next page, or the
\* page numbers have slipped.
LEMMA LeavesFaith ==
    ASSUME FaithInv, NEW i \in Insts, Destroyed(i) \/ Purged(i)
    PROVE  FaithInv'
<1>1. /\ UNCHANGED <<kind, scan, pc, state, page, got, failed, out, came>>
      /\ life[i] \in {"here", "terminated"}
      /\ life' \in {[life EXCEPT ![i] = "terminated"], [life EXCEPT ![i] = "gone"]}
      /\ kind # "aws" => life' = [life EXCEPT ![i] = "gone"]
      /\ stayed' \subseteq stayed
      /\ slipped => slipped'
  <2>1. CASE Destroyed(i)
    <3>1. slipped => slipped'
      BY <2>1, Zenon DEF Destroyed
    <3>2. kind = "aws" \/ kind # "aws"
      OBVIOUS
    <3>3. QED
      BY <2>1, <3>1, <3>2 DEF Destroyed, Becomes
  <2>2. CASE Purged(i)
    BY <2>2 DEF Purged, Becomes, history
  <2>3. QED
    BY <2>1, <2>2
<1>2. life \in [Insts -> {"new", "here", "terminated", "gone"}]
  BY DEF FaithInv, IInv, EntriesOK
<1>3. IInv' /\ Wanted' = Wanted
  BY <1>1, CloudStepInv DEF FaithInv, Wanted
<1>4. \A l : In(l)' = In(l) \/ (In(l)' = In(l) \ {i} /\ i \in In(l))
  <2>1. ASSUME NEW l PROVE In(l) \ {i} \subseteq In(l)' /\ In(l)' \subseteq In(l)
    BY <1>1, <1>2 DEF In
  <2>2. QED
    BY <2>1
<1>5. Cloud' = Cloud \ {i}
  BY <1>1, <1>2 DEF Cloud
<1>6. ASSUME pc \in {"discover", "list"}
      PROVE  stayed' \subseteq Visible' /\ Visible' \subseteq came'
  <2>1. stayed \subseteq Visible /\ Visible \subseteq came
    BY <1>6 DEF FaithInv, CallOK
  <2>2. Visible' \subseteq Visible
    BY <1>3, <1>4, <1>5 DEF Visible
  <2>3. Visible \ {i} \subseteq Visible'
    BY <1>3, <1>4, <1>5 DEF Visible
  <2>4. i \notin stayed'
    <3>1. CASE Destroyed(i)
      BY <3>1 DEF Destroyed
    <3>2. CASE Purged(i)
      <4>1. i \notin Visible
        BY <3>2 DEF Purged, Visible, Cloud
      <4>2. QED
        BY <1>1, <2>1, <4>1
    <3>3. QED
      BY <3>1, <3>2
  <2>5. QED
    BY <1>1, <2>1, <2>2, <2>3, <2>4
<1>7. CallOK'
  BY <1>1, <1>2, <1>3, <1>6 DEF FaithInv, CallOK
<1>8. ASSUME pc = "list", NEW l \in Lists PROVE Covers(l)'
  <2>1. ASSUME NEW j \in In(l)' \cap stayed', ~slipped', state[l] = "paging", Before(l, j)'
        PROVE  Before(l, j)
    <3>1. /\ page[l] \in Int /\ page'[l] = page[l] /\ kind' = kind
          /\ j \in In(l) /\ j \in Nat /\ i \in Nat
      BY <1>1, <1>4, <2>1, InIsNat, AdaptersAssumption DEF FaithInv, CallOK
    <3>2. CASE kind \notin Numbered
      BY <2>1, <3>1, <3>2 DEF Before
    <3>3. CASE kind \in Numbered
      <4> DEFINE r == Cardinality(UpTo(In(l), j))
                 last == (page[l] - 1) * PageSize
      <4>1. r \in Nat /\ last \in Int /\ Rank(l, j) = r
        <5>1. r \in Nat
          BY <3>1, InIsNat, UpToFinite
        <5>2. last \in Int
          BY <3>1, AdaptersAssumption
        <5>3. Rank(l, j) = r
          BY DEF Rank, UpTo
        <5>4. QED
          BY <5>1, <5>2, <5>3
      <4>2. CASE In(l)' = In(l)
        BY <2>1, <3>1, <3>3, <4>2 DEF Before, Rank
      <4>3. CASE In(l)' = In(l) \ {i} /\ i \in In(l)
        <5>1. Cardinality(UpTo(In(l) \ {i}, j)) = IF i <= j THEN r - 1 ELSE r
          BY <3>1, <4>3, InIsNat, UpToWithout
        <5>2. Rank(l, j)' = Cardinality(UpTo(In(l) \ {i}, j))
          BY <4>3 DEF Rank, UpTo
        <5>3. (IF i <= j THEN r - 1 ELSE r) <= last
          BY <2>1, <3>1, <3>3, <5>1, <5>2 DEF Before
        <5>4. CASE r <= last
          BY <3>3, <4>1, <5>4 DEF Before
        <5>5. CASE ~(r <= last)
          <6>1. i <= j /\ r <= last + 1
            BY <3>1, <4>1, <5>3, <5>5
          <6>2. i # j
            BY <2>1, <4>3
          <6>3. Cardinality(UpTo(In(l), i)) + 1 <= r
            BY <3>1, <4>3, <6>1, <6>2, InIsNat, UpToOrders
          <6>4. Rank(l, i) <= last
            <7>1. Cardinality(UpTo(In(l), i)) \in Nat /\ Rank(l, i) = Cardinality(UpTo(In(l), i))
              BY <3>1, InIsNat, UpToFinite DEF Rank, UpTo
            <7>2. QED
              BY <4>1, <6>1, <6>3, <7>1
          <6>5. Before(l, i)
            BY <3>3, <6>4 DEF Before
          <6>6. Destroyed(i)
            BY <3>3 DEF Purged, FaithInv, CallOK, Numbered
          <6>7. l = All
            BY <2>1, <3>3, <1>8 DEF FaithInv, CallOK, Wanted, Numbered, Scoped
          <6>8. slipped'
            BY <2>1, <3>3, <6>5, <6>6, <6>7 DEF Destroyed
          <6>9. QED
            BY <2>1, <6>8
        <5>6. QED
          BY <5>4, <5>5
      <4>4. QED
        BY <1>4, <4>2, <4>3
    <3>4. QED
      BY <3>2, <3>3
  <2>2. ASSUME NEW j \in In(l)' \cap stayed' PROVE j \in In(l) \cap stayed
    BY <1>1, <1>4, <2>2
  <2>3. Covers(l)
    BY <1>8 DEF FaithInv
  <2>4. QED
    BY <1>1, <2>1, <2>2, <2>3, CoversGoesOn
<1>9. ListIsFaithful'
  <2>1. Listed' = Listed
    BY <1>1 DEF Listed
  <2>2. QED
    BY <1>1, <2>1 DEF FaithInv, ListIsFaithful
<1>10. QED
  BY <1>1, <1>3, <1>7, <1>8, <1>9 DEF FaithInv

LEMMA FaithStep == FaithInv /\ [Next]_vars => FaithInv'
<1> SUFFICES ASSUME FaithInv, [Next]_vars PROVE FaithInv'
  OBVIOUS
<1>1. CASE Calls \/ Discovers \/ Returns \/ Again
  BY <1>1, CallsFaith, DiscoversFaith, ReturnsFaith, AgainFaith
<1>2. ASSUME NEW l \in Lists, ListStarts(l) PROVE FaithInv'
  BY <1>2, ListStartsFaith
<1>3. ASSUME NEW l \in Lists, PageWorks(l) \/ LinkUnreadable(l) \/ PageFails(l)
      PROVE  FaithInv'
  <2>1. pc = "list"
    BY <1>3 DEF PageWorks, LinkUnreadable, PageFails, FaithInv, CallOK
  <2>2. QED
    BY <1>3, <2>1, PageWorksFaith, LinkUnreadableFaith, PageFailsFaith
<1>4. ASSUME NEW i \in Insts, Created(i) \/ Destroyed(i) \/ Purged(i)
      PROVE  FaithInv'
  BY <1>4, CreatedFaith, LeavesFaith
<1>5. CASE UNCHANGED vars
  <2>1. /\ UNCHANGED <<kind, scan, life, stayed, came, pc, state, page, got, failed, out, slipped>>
    BY <1>5 DEF vars, history
  <2>2. IInv'
    BY <1>5, InductiveStep DEF FaithInv
  <2>3. CallOK'
    BY <2>1, CloudKept DEF FaithInv, CallOK
  <2>4. pc = "list" => \A l \in Lists : Covers(l)'
    BY <2>1, CoversKept DEF FaithInv
  <2>5. ListIsFaithful'
    BY <2>1 DEF FaithInv, ListIsFaithful, Listed
  <2>6. QED
    BY <2>1, <2>2, <2>3, <2>4, <2>5 DEF FaithInv
<1>6. QED
  BY <1>1, <1>2, <1>3, <1>4, <1>5 DEF Next, Answers

\* provider.go:64, of every adapter, page size, number of regions and order of
\* answers: a list that is returned leaves out no machine that was there all
\* along, unless a page number lost its meaning or a link could not be read,
\* and makes none up.
THEOREM ListsAreFaithful == Spec => []ListIsFaithful
<1>1. FaithInv => ListIsFaithful
  BY DEF FaithInv
<1>2. QED
  BY FaithInit, FaithStep, <1>1, PTL DEF Spec
=============================================================================
