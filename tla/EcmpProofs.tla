----------------------------- MODULE EcmpProofs -----------------------------
(***************************************************************************)
(* What TLAPS proves of next hop groups, for tables and groups of any      *)
(* size: of any client, the shapes and that groups in use are there; of a  *)
(* careful one, that groups hold what the client put in them.              *)
(***************************************************************************)
EXTENDS EcmpForwarding, L3ForwardingProofs

\* A record of the adapter, and a group as the switch holds it.
Record == [used : BOOLEAN, count : 0 .. CountMod - 1]
SwitchGroup == [exists : BOOLEAN, ref : [Bucket -> Reference \cup {NoBucket}]]

\* What the switch may have refused.
Refusals == SUBSET (NhgId \X {"group", "bucket"})

\* The invariant: the shapes, and that a group in use is in the switch.
EcmpInv == NhgTypeOK /\ UsedGroupsExist

-----------------------------------------------------------------------------
(* Helpers.                                                                *)

\* The values of a slot without a group are of the type of the slot.
LEMMA EmptyGroups == NoGroup \in Record /\ NotThere \in SwitchGroup
  BY NhgSizes DEF NoGroup, NotThere, Record, SwitchGroup

\* A counter keeps to its width when counted up or down.
LEMMA CountWidth ==
  ASSUME NEW c \in 0 .. CountMod - 1
  PROVE  /\ (c + 1) % CountMod \in 0 .. CountMod - 1
         /\ (c - 1) % CountMod \in 0 .. CountMod - 1
  BY NhgSizes

\* A bucket is made with a reference.
LEMMA RefsOfType == ASSUME NEW h PROVE RefsOf(h) \subseteq Reference
  BY DEF RefsOf, Reference

\* The buckets made for a list are buckets.
LEMMA FilledType ==
  ASSUME NEW list \in Lists, NEW refs \in ListRefs(list), Len(refs) <= NumBuckets
  PROVE  Filled(refs) \in [Bucket -> Reference \cup {NoBucket}]
<1>1. PICK n \in 0 .. MaxMembers + 1 : list \in [1 .. n -> NhId]
  BY DEF Lists
<1>2. n \in Nat /\ list \in Seq(NhId) /\ Len(list) = n
  BY <1>1, NhgSizes
<1>3. refs \in Seq(Reference) /\ Len(refs) = n
  BY <1>2 DEF ListRefs
<1>4. \A b \in Bucket : b < Len(refs) => refs[b + 1] \in Reference
  BY <1>2, <1>3 DEF Bucket
<1> QED
  BY <1>4 DEF Filled

\* So are those made before it was found that no more can be made.
LEMMA PartlyType ==
  ASSUME NEW list \in Lists, NEW refs \in ListRefs(list), NEW n \in StopsAfter(refs)
  PROVE  Partly(refs, n) \in SwitchGroup
<1>1. PICK m \in 0 .. MaxMembers + 1 : list \in [1 .. m -> NhId]
  BY DEF Lists
<1>2. m \in Nat /\ list \in Seq(NhId) /\ Len(list) = m
  BY <1>1, NhgSizes
<1>3. refs \in Seq(Reference) /\ Len(refs) = m
  BY <1>2 DEF ListRefs
<1>4. n \in 0 .. m - 1
  BY <1>3 DEF StopsAfter
<1> DEFINE made == SubSeq(refs, 1, n)
<1>5. made \in Seq(Reference) /\ Len(made) = n
  BY <1>2, <1>3, <1>4
<1> HIDE DEF made
<1>6. \A b \in Bucket : b < Len(made) => made[b + 1] \in Reference
  BY <1>4, <1>5 DEF Bucket
<1>7. Filled(made) \in [Bucket -> Reference \cup {NoBucket}]
  BY <1>6 DEF Filled
<1> QED BY <1>7 DEF Partly, SwitchGroup, made

\* Nothing but a group of the switch is refused.
LEMMA DeletionType ==
  ASSUME EcmpInv, NEW g \in NhgId, NEW left, SwitchDeletes(g, left)
  PROVE  /\ refused' \in Refusals
         /\ \/ ecmp' = [ecmp EXCEPT ![g] = NotThere]
            \/ ecmp' = [ecmp EXCEPT ![g] = left] /\ <<g, "group">> \in refused'
  BY DEF SwitchDeletes, EcmpInv, NhgTypeOK, Refusals

\* Forgetting a group keeps the invariant, whatever the switch has left.
LEMMA ForgottenKeeps ==
  ASSUME NEW g \in NhgId, EcmpInv, nhgTable' = Forgotten(g), refused' \in Refusals,
         NEW left \in SwitchGroup,
         \/ UNCHANGED ecmp
         \/ ecmp' = [ecmp EXCEPT ![g] = NotThere]
         \/ ecmp' = [ecmp EXCEPT ![g] = left]
  PROVE  EcmpInv'
<1>1. NhgTypeOK'
  <2>1. nhgTable \in [NhgId -> Record] /\ ecmp \in [NhgId -> SwitchGroup]
    BY DEF EcmpInv, NhgTypeOK, Record, SwitchGroup
  <2>2. nhgTable' \in [NhgId -> Record] /\ ecmp' \in [NhgId -> SwitchGroup]
    BY <2>1, EmptyGroups DEF Forgotten
  <2> QED
    BY <2>2 DEF NhgTypeOK, Record, SwitchGroup, Refusals
<1>2. UsedGroupsExist'
  BY DEF EcmpInv, NhgTypeOK, UsedGroupsExist, GroupsUsed, InSwitch, Forgotten,
         NoGroup, NotThere
<1> QED
  BY <1>1, <1>2 DEF EcmpInv

\* So does an update that fails before it touches the switch,
LEMMA NothingKeeps ==
  ASSUME NEW g \in NhgId, EcmpInv, UpdateNothing(g) PROVE EcmpInv'
<1>1. refused' \in Refusals
  BY DEF UpdateNothing, EcmpInv, NhgTypeOK, Refusals
<1> QED BY <1>1, EmptyGroups, ForgottenKeeps DEF UpdateNothing

\* and one that fails and has the group deleted.
LEMMA DeletionKeeps ==
  ASSUME NEW g \in NhgId, EcmpInv, nhgTable' = Forgotten(g),
         NEW left \in SwitchGroup, SwitchDeletes(g, left)
  PROVE  EcmpInv'
  BY DeletionType, ForgottenKeeps

\* A group as it is is one.
LEMMA GroupType == ASSUME EcmpInv, NEW g \in NhgId PROVE ecmp[g] \in SwitchGroup
  BY DEF EcmpInv, NhgTypeOK, SwitchGroup

\* Changing the buckets and the counter of one group of the switch keeps
\* the invariant, whether it is in use or not.
LEMMA RecountKeeps ==
  ASSUME NEW g \in NhgId, EcmpInv,
         NEW c \in 0 .. CountMod - 1, refused' \in Refusals,
         nhgTable' = [nhgTable EXCEPT ![g].count = c],
         NEW ref \in [Bucket -> Reference \cup {NoBucket}],
         ecmp' = [ecmp EXCEPT ![g].ref = ref]
  PROVE  EcmpInv'
<1>1. NhgTypeOK'
  BY DEF EcmpInv, NhgTypeOK, Refusals
<1>2. UsedGroupsExist'
  BY DEF EcmpInv, NhgTypeOK, UsedGroupsExist, GroupsUsed, InSwitch
<1> QED
  BY <1>1, <1>2 DEF EcmpInv

-----------------------------------------------------------------------------
(* The operations.                                                         *)

\* Each operation keeps the shapes and the groups in use: creating one,
LEMMA CreateKeeps ==
  ASSUME EcmpInv, NEW g \in NhgId, NEW list \in Lists,
         CreateNextHopGroup(g, list)
  PROVE  EcmpInv'
<1>1. ASSUME NEW refs \in ListRefs(list),
             Len(refs) <= NumBuckets,
             ecmp' = [ecmp EXCEPT ![g] = [exists |-> TRUE, ref |-> Filled(refs)]],
             nhgTable' = [nhgTable EXCEPT ![g] = [used |-> TRUE,
                                                  count |-> Len(list)]],
             UNCHANGED refused
      PROVE  EcmpInv'
  <2>1. Filled(refs) \in [Bucket -> Reference \cup {NoBucket}]
    BY <1>1, FilledType
  <2>2. Len(list) \in 0 .. CountMod - 1
    BY NhgSizes DEF CreateNextHopGroup
  <2>3. NhgTypeOK'
    BY <1>1, <2>1, <2>2 DEF EcmpInv, NhgTypeOK
  <2>4. UsedGroupsExist'
    BY <1>1 DEF EcmpInv, NhgTypeOK, UsedGroupsExist, GroupsUsed, InSwitch
  <2> QED
    BY <2>3, <2>4 DEF EcmpInv
<1>2. ASSUME NEW refs \in ListRefs(list), NEW n \in StopsAfter(refs),
             SwitchDeletes(g, Partly(refs, n)), UNCHANGED nhgTable
      PROVE  EcmpInv'
  <2> DEFINE left == Partly(refs, n)
  <2>1. left \in SwitchGroup
    BY <1>2, PartlyType
  <2> HIDE DEF left
  <2>2. /\ refused' \in Refusals
        /\ \/ ecmp' = [ecmp EXCEPT ![g] = NotThere]
           \/ ecmp' = [ecmp EXCEPT ![g] = left]
    BY <1>2, DeletionType DEF left
  <2>3. NhgTypeOK'
    BY <1>2, <2>1, <2>2, EmptyGroups DEF EcmpInv, NhgTypeOK, SwitchGroup, Refusals
  <2>4. g \notin GroupsUsed
    BY DEF CreateNextHopGroup, EcmpInv, UsedGroupsExist
  <2>5. UsedGroupsExist'
    BY <1>2, <2>2, <2>4 DEF EcmpInv, NhgTypeOK, UsedGroupsExist, GroupsUsed, InSwitch
  <2> QED
    BY <2>3, <2>5 DEF EcmpInv
<1> QED
  BY <1>1, <1>2 DEF CreateNextHopGroup

\* setting its list,
LEMMA SetKeeps ==
  ASSUME EcmpInv, NEW g \in NhgId, NEW list \in Lists, SetNextHopList(g, list)
  PROVE  EcmpInv'
<1>1. CASE UpdateNothing(g)
  BY <1>1, NothingKeeps
<1>2. ASSUME NEW refs \in ListRefs(list),
             Len(refs) <= NumBuckets,
             ecmp' = [ecmp EXCEPT ![g].ref = Filled(refs)],
             nhgTable' = [nhgTable EXCEPT ![g].count = Len(list)],
             refused' = refused \ {<<g, "bucket">>}
      PROVE  EcmpInv'
  <2>1. Len(list) \in 0 .. CountMod - 1
    BY NhgSizes DEF Lists
  <2>2. refused' \in Refusals
    BY <1>2 DEF EcmpInv, NhgTypeOK, Refusals
  <2> QED
    BY <1>2, <2>1, <2>2, FilledType, RecountKeeps
<1>3. ASSUME NEW refs \in ListRefs(list), NEW n \in StopsAfter(refs),
             SwitchDeletes(g, Partly(refs, n)), nhgTable' = Forgotten(g)
      PROVE  EcmpInv'
  BY <1>3, PartlyType, DeletionKeeps
<1>4. CASE SwitchDeletes(g, ecmp[g]) /\ nhgTable' = Forgotten(g)
  BY <1>4, GroupType, DeletionKeeps
<1> QED
  BY <1>1, <1>2, <1>3, <1>4 DEF SetNextHopList

\* adding a next hop,
LEMMA AddKeeps ==
  ASSUME EcmpInv, NEW g \in NhgId, NEW h \in NhId, AddNextHop(g, h)
  PROVE  EcmpInv'
<1>1. nhgTable[g].count \in 0 .. CountMod - 1
  BY DEF EcmpInv, NhgTypeOK
<1>2. /\ CountedUp(g, TRUE) \in 0 .. CountMod - 1
      /\ CountedUp(g, FALSE) \in 0 .. CountMod - 1
  BY <1>1, CountWidth DEF CountedUp
<1>3. CASE UpdateNothing(g)
  BY <1>3, NothingKeeps
<1>4. CASE nhgTable' = Forgotten(g) /\ SwitchDeletes(g, ecmp[g])
  BY <1>4, GroupType, DeletionKeeps
<1>5. CASE /\ nhgTable' = [nhgTable EXCEPT ![g].count = CountedUp(g, TRUE)]
           /\ UNCHANGED <<ecmp, refused>>
  <2>1. /\ refused' \in Refusals /\ ecmp' = [ecmp EXCEPT ![g].ref = ecmp[g].ref]
        /\ ecmp[g].ref \in [Bucket -> Reference \cup {NoBucket}]
    BY <1>5 DEF EcmpInv, NhgTypeOK, Refusals
  <2> QED
    BY <1>2, <1>5, <2>1, RecountKeeps
<1>6. ASSUME NEW again \in RefsOf(h), NEW b \in Gap(g),
             ecmp' = [ecmp EXCEPT ![g].ref[b] = again],
             nhgTable' = [nhgTable EXCEPT ![g].count = CountedUp(g, FALSE)],
             UNCHANGED refused
      PROVE  EcmpInv'
  <2>1. again \in Reference /\ b \in Bucket
    BY <1>6, RefsOfType DEF Gap
  <2> DEFINE ref == [ecmp[g].ref EXCEPT ![b] = again]
  <2>2. ref \in [Bucket -> Reference \cup {NoBucket}]
    BY <2>1 DEF EcmpInv, NhgTypeOK
  <2>3. refused' \in Refusals /\ ecmp' = [ecmp EXCEPT ![g].ref = ref]
    BY <1>6 DEF EcmpInv, NhgTypeOK, Refusals
  <2> HIDE DEF ref
  <2> QED
    BY <1>2, <1>6, <2>2, <2>3, RecountKeeps
<1> QED
  BY <1>3, <1>4, <1>5, <1>6 DEF AddNextHop

\* and taking one off.
LEMMA RemoveKeeps ==
  ASSUME EcmpInv, NEW g \in NhgId, NEW h \in NhId, RemoveNextHopFromGroup(g, h)
  PROVE  EcmpInv'
<1>1. CASE UpdateNothing(g)
  BY <1>1, NothingKeeps
<1>2. refused' \in Refusals
  BY DEF RemoveNextHopFromGroup, UpdateNothing, EcmpInv, NhgTypeOK, Refusals
<1>3. ASSUME NEW ref \in RefsOf(h), ecmp' = BucketDeleted(g, ref) \/ UNCHANGED ecmp,
             nhgTable' = [nhgTable EXCEPT ![g].count = (@ - 1) % CountMod]
      PROVE  EcmpInv'
  <2>1. (nhgTable[g].count - 1) % CountMod \in 0 .. CountMod - 1
    BY CountWidth DEF EcmpInv, NhgTypeOK
  <2> DEFINE gone == [ecmp[g].ref EXCEPT ![FirstOf(g, ref)] = NoBucket]
  <2>2. /\ gone \in [Bucket -> Reference \cup {NoBucket}]
        /\ ecmp[g].ref \in [Bucket -> Reference \cup {NoBucket}]
    BY DEF EcmpInv, NhgTypeOK
  <2>3. \/ ecmp' = [ecmp EXCEPT ![g].ref = gone]
        \/ ecmp' = [ecmp EXCEPT ![g].ref = ecmp[g].ref]
    BY <1>3 DEF BucketDeleted, EcmpInv, NhgTypeOK
  <2>4. nhgTable' = [nhgTable EXCEPT
                       ![g].count = (nhgTable[g].count - 1) % CountMod]
    BY <1>3 DEF EcmpInv, NhgTypeOK
  <2> HIDE DEF gone
  <2> QED
    BY <1>2, <2>1, <2>2, <2>3, <2>4, RecountKeeps
<1> QED
  BY <1>1, <1>3 DEF RemoveNextHopFromGroup

\* Every step of the adapter keeps the invariant.
LEMMA EcmpStep == EcmpInv /\ [EcmpNext]_ecmpVars => EcmpInv'
<1> SUFFICES ASSUME EcmpInv, [EcmpNext]_ecmpVars PROVE EcmpInv'
  OBVIOUS
<1>1. CASE UNCHANGED nhgVars
  BY <1>1 DEF EcmpInv, NhgTypeOK, UsedGroupsExist, GroupsUsed, InSwitch, nhgVars
<1>2. ASSUME NEW g \in NhgId, RemoveNextHopGroup(g) PROVE EcmpInv'
  <2>1. CASE SwitchDeletes(g, ecmp[g])
    BY <1>2, <2>1, GroupType, DeletionKeeps DEF RemoveNextHopGroup
  <2>2. CASE UNCHANGED <<ecmp, refused>>
    BY <1>2, <2>2, NothingKeeps DEF RemoveNextHopGroup, UpdateNothing
  <2> QED
    BY <1>2, <2>1, <2>2 DEF RemoveNextHopGroup
<1>3. CASE NextHopGroupApi
  BY <1>2, <1>3, CreateKeeps, SetKeeps, AddKeeps, RemoveKeeps DEF NextHopGroupApi
<1> QED
  BY <1>1, <1>3 DEF EcmpNext, L3Api, ecmpVars

\* The invariant holds at the start.
LEMMA EcmpStart == EcmpInit => EcmpInv
  BY EmptyGroups
     DEF EcmpInit, NhgInit, EcmpInv, NhgTypeOK, UsedGroupsExist, GroupsUsed,
         InSwitch, NoGroup, NotThere, Record, SwitchGroup

-----------------------------------------------------------------------------
(* Theorems.                                                               *)

\* For any sizes, client and failures, counters keep to 32 bits and every
\* bucket holds a reference or none.
THEOREM NhgTypeCorrect == EcmpSpec => []NhgTypeOK
<1>1. EcmpInv => NhgTypeOK
  BY DEF EcmpInv
<1> QED
  BY EcmpStart, EcmpStep, <1>1, PTL DEF EcmpSpec

\* For any sizes, client and failures, a group the adapter reports to be in
\* use is in the switch: an update that fails leaves no record behind.
THEOREM UsedGroupsAreInSwitch == EcmpSpec => []UsedGroupsExist
<1>1. EcmpInv => UsedGroupsExist
  BY DEF EcmpInv
<1> QED
  BY EcmpStart, EcmpStep, <1>1, PTL DEF EcmpSpec

-----------------------------------------------------------------------------
(* Layer 3 goes on under the groups.                                       *)

\* The adapter with its groups implements the adapter without them: no call
\* of the next hop group API touches a table of layer 3, so that what was
\* proved of L3Forwarding holds here.
THEOREM GroupsLeaveLayer3Alone == EcmpSpec => Spec
<1>1. EcmpInit => Init
  BY DEF EcmpInit
<1>2. [EcmpNext]_ecmpVars => [Next]_vars
  BY DEF EcmpNext, L3Api, NextHopGroupApi, ecmpVars
<1> QED
  BY <1>1, <1>2, PTL DEF EcmpSpec, Spec

\* A next hop that has a neighbor, as the members of a group must.
Alive(h) == h \in UsedNhs /\ nhTable[h].nbr \in NbrId

\* What layer 3 says of the neighbor of such a next hop.
HopsSound ==
  \A h \in NhId : Alive(h) =>
    /\ nhTable[h].nbr \in UsedNbrs \cap l3Group
    /\ nbrTable[nhTable[h].nbr].nh = h

\* It is a neighbor in use, with its group, that knows this next hop.
LEMMA HopsAreSound == EcmpSpec => [](GroupsReliable => HopsSound)
<1>1. TypeOK /\ NhLists /\ NbrInv /\ NextHopResolved => HopsSound
  <2> SUFFICES ASSUME TypeOK, NhLists, NbrInv, NextHopResolved,
                      NEW h \in NhId, Alive(h)
               PROVE  /\ nhTable[h].nbr \in UsedNbrs \cap l3Group
                      /\ nbrTable[nhTable[h].nbr].nh = h
    BY DEF HopsSound
  <2> DEFINE r == nhTable[h].rif
             a == nhTable[h].ip
  <2>1. h \in UsedNhs /\ r \in UsedRifs /\ nhTable[h].nbr \in NbrId
    BY DEF Alive, NhLists
  <2>2. nhTable[h].nbr = ResolveAt(r, a) /\ nbrTable[nhTable[h].nbr].nh = h
    BY <2>1 DEF NextHopResolved
  <2> HIDE DEF r, a
  <2>3. ResolveAt(r, a) # MissId(r)
    BY <2>1, <2>2, MissIsNoNeighbor
  <2>4. ResolveAt(r, a) \in UsedNbrs
    BY <2>1, <2>3, Resolution
  <2> QED
    BY <2>2, <2>4 DEF NbrInv, GroupPerNeighbor
<1> QED
  BY <1>1, GroupsLeaveLayer3Alone, TypeCorrect, NextHopListsCorrect, NbrInvHolds,
     NextHopsResolveCorrectly, PTL

-----------------------------------------------------------------------------
(* Buckets and what the client put in a group.                             *)

\* The buckets that lead to a neighbor, those in use, and where they lead.
LeadTo(refs, n) == {b \in Bucket : refs[b] = n}
Taken(refs) == {b \in Bucket : refs[b] # NoBucket}
Targets(refs) == {refs[b] : b \in Taken(refs)}
Refs == [Bucket -> Reference \cup {NoBucket}]
Times == [NhId -> Nat]

\* The buckets with these references are those of the next hops the client
\* put in the group: as many for each as it asked for, and no others.
Sound(refs, times) ==
  /\ \A h \in NhId : times[h] > 0 =>
       /\ Alive(h)
       /\ Cardinality(LeadTo(refs, nhTable[h].nbr)) = times[h]
  /\ \A b \in Taken(refs) :
       \E h \in NhId : times[h] > 0 /\ refs[b] = nhTable[h].nbr

\* A list has at most MaxMembers members; only what is new is added to it.
Spare(refs) ==
  Cardinality(Taken(refs)) <= MaxMembers - 1 + Cardinality(Targets(refs))

\* The invariant of the groups in use.
GroupSound(g) ==
  /\ Sound(ecmp[g].ref, told[g])
  /\ Spare(ecmp[g].ref)
  /\ nhgTable[g].count = Cardinality(Taken(ecmp[g].ref))

\* The switch has refused to delete a bucket of the group.
Marked(g) == <<g, "bucket">> \in refused
InTold(g) == nhgTable[g].used /\ ~Marked(g)

\* What the client told is a count, and groups in use are as told, but for
\* those of which the switch has refused to delete a bucket.
MembersInv ==
  /\ told \in [NhgId -> Times]
  /\ \A g \in NhgId : InTold(g) => GroupSound(g)

\* Buckets are finitely many, and so are neighbors.
LEMMA BucketsFinite ==
  ASSUME NEW S, S \subseteq Bucket
  PROVE  IsFiniteSet(S) /\ Cardinality(S) \in Nat /\ Cardinality(S) <= NumBuckets
<1>1. 0 \in Int /\ NumBuckets - 1 \in Int /\ ~(0 > NumBuckets - 1)
      /\ (NumBuckets - 1) - 0 + 1 = NumBuckets
  BY NhgSizes
<1>2. IsFiniteSet(Bucket)
      /\ Cardinality(Bucket) = IF 0 > NumBuckets - 1 THEN 0 ELSE (NumBuckets - 1) - 0 + 1
  BY <1>1, FS_Interval DEF Bucket
<1>3. IsFiniteSet(S) /\ Cardinality(S) <= NumBuckets
  BY <1>1, <1>2, FS_Subset
<1> QED
  BY <1>3, FS_CardinalityType

\* No set of neighbors has more than the table.
LEMMA NeighborsFinite ==
  ASSUME NEW S, S \subseteq NbrId
  PROVE  IsFiniteSet(S) /\ Cardinality(S) \in Nat /\ Cardinality(S) <= NumNbr
<1>1. 0 \in Int /\ NumNbr - 1 \in Int /\ ~(0 > NumNbr - 1)
      /\ (NumNbr - 1) - 0 + 1 = NumNbr
  BY TableSizes
<1>2. IsFiniteSet(NbrId)
      /\ Cardinality(NbrId) = IF 0 > NumNbr - 1 THEN 0 ELSE (NumNbr - 1) - 0 + 1
  BY <1>1, FS_Interval DEF NbrId
<1>3. IsFiniteSet(S) /\ Cardinality(S) <= NumNbr
  BY <1>1, <1>2, FS_Subset
<1> QED
  BY <1>3, FS_CardinalityType

\* A bucket of its own for a next hop that is not in the group yet.
LEMMA MemberAdded ==
  ASSUME HopsSound, NEW refs \in Refs, NEW times \in Times,
         Sound(refs, times), Spare(refs), Targets(refs) \subseteq NbrId,
         NEW h \in NhId, Alive(h), LeadTo(refs, nhTable[h].nbr) = {},
         NEW b \in Bucket, refs[b] = NoBucket,
         NEW refs2, refs2 = [refs EXCEPT ![b] = nhTable[h].nbr],
         NEW times2, times2 = [times EXCEPT ![h] = 1]
  PROVE  /\ times[h] = 0 /\ Sound(refs2, times2) /\ Spare(refs2)
         /\ Cardinality(Taken(refs2)) = Cardinality(Taken(refs)) + 1
<1> DEFINE n == nhTable[h].nbr
<1>1. n \in NbrId /\ n # NoBucket
  BY DEF Alive, NbrId, NoBucket
<1> HIDE DEF n
<1>2. refs2[b] = n /\ \A c \in Bucket \ {b} : refs2[c] = refs[c]
  BY DEF Refs, n
<1>3. times[h] = 0
  <2>1. times[h] > 0 => Cardinality(LeadTo(refs, n)) = times[h]
    BY DEF Sound, n
  <2>2. Cardinality(LeadTo(refs, n)) = 0
    BY FS_EmptySet DEF n
  <2> QED BY <2>1, <2>2 DEF Times
<1>4. times2[h] = 1 /\ \A g \in NhId \ {h} : times2[g] = times[g]
  BY DEF Times
<1>5. Taken(refs2) = Taken(refs) \cup {b} /\ b \notin Taken(refs)
  BY <1>1, <1>2 DEF Taken
<1>6. IsFiniteSet(Taken(refs)) /\ Cardinality(Taken(refs)) \in Nat
  BY BucketsFinite DEF Taken
<1>7. Cardinality(Taken(refs2)) = Cardinality(Taken(refs)) + 1
  BY <1>5, <1>6, FS_AddElement
<1>8. Sound(refs2, times2)
  <2>1. ASSUME NEW g \in NhId, times2[g] > 0
        PROVE  Alive(g) /\ Cardinality(LeadTo(refs2, nhTable[g].nbr)) = times2[g]
    <3>1. CASE g = h
      <4>1. \A c \in Bucket : refs[c] # n
        BY DEF LeadTo, n
      <4>2. LeadTo(refs2, n) = {b}
        BY <1>2, <4>1 DEF LeadTo
      <4> QED BY <1>4, <3>1, <4>2, FS_Singleton DEF n
    <3>2. CASE g # h
      <4>1. times[g] > 0 /\ times2[g] = times[g]
        BY <1>4, <2>1, <3>2
      <4>2. Alive(g) /\ Cardinality(LeadTo(refs, nhTable[g].nbr)) = times[g]
        BY <4>1 DEF Sound
      <4>3. nhTable[g].nbr # n /\ nhTable[g].nbr # NoBucket
        BY <3>2, <4>2 DEF HopsSound, Alive, NbrId, NoBucket, n
      <4>4. LeadTo(refs2, nhTable[g].nbr) = LeadTo(refs, nhTable[g].nbr)
        BY <1>2, <4>3 DEF LeadTo
      <4> QED BY <4>1, <4>2, <4>4
    <3> QED BY <3>1, <3>2
  <2>2. ASSUME NEW c \in Taken(refs2)
        PROVE  \E g \in NhId : times2[g] > 0 /\ refs2[c] = nhTable[g].nbr
    <3>1. CASE c = b
      BY <1>2, <1>4, <3>1 DEF n
    <3>2. CASE c # b
      <4>1. c \in Taken(refs) /\ refs2[c] = refs[c]
        BY <1>2, <1>5, <2>2, <3>2 DEF Taken
      <4>2. PICK g \in NhId : times[g] > 0 /\ refs[c] = nhTable[g].nbr
        BY <4>1 DEF Sound
      <4>3. g # h
        BY <1>3, <4>2
      <4>4. times2[g] > 0 /\ refs2[c] = nhTable[g].nbr
        BY <1>4, <4>1, <4>2, <4>3
      <4> QED BY <4>4
    <3> QED BY <3>1, <3>2
  <2> QED BY <2>1, <2>2 DEF Sound
<1>9. Spare(refs2)
  <2>2. IsFiniteSet(Targets(refs)) /\ Cardinality(Targets(refs)) \in Nat
    BY NeighborsFinite
  <2>3. Targets(refs2) = Targets(refs) \cup {n} /\ n \notin Targets(refs)
    <3>1. \A c \in Taken(refs) : c # b /\ refs2[c] = refs[c] /\ refs[c] # n
      BY <1>2, <1>5 DEF Taken, LeadTo, n
    <3>2. n \notin Targets(refs)
      BY <3>1 DEF Targets
    <3>3. \A x : x \in Targets(refs2) <=> x \in Targets(refs) \cup {n}
      <4>1. \A x : x \in Targets(refs2) <=>
                     \E c \in Taken(refs) \cup {b} : x = refs2[c]
        BY <1>5 DEF Targets
      <4>2. \A x : x \in Targets(refs) <=> \E c \in Taken(refs) : x = refs[c]
        BY DEF Targets
      <4>3. ASSUME NEW x \in Targets(refs2) PROVE x \in Targets(refs) \cup {n}
        <5>1. PICK c \in Taken(refs) \cup {b} : x = refs2[c]
          BY <4>1, <4>3
        <5> QED BY <1>2, <3>1, <4>2, <5>1
      <4>4. ASSUME NEW x \in Targets(refs) PROVE x \in Targets(refs2)
        <5>1. PICK c \in Taken(refs) : x = refs[c]
          BY <4>2, <4>4
        <5> QED BY <3>1, <4>1, <5>1
      <4>5. n \in Targets(refs2)
        BY <1>2, <4>1
      <4> QED BY <4>3, <4>4, <4>5
    <3> QED BY <3>2, <3>3
  <2>4. Cardinality(Targets(refs2)) = Cardinality(Targets(refs)) + 1
    BY <2>2, <2>3, FS_AddElement
  <2>5. Cardinality(Taken(refs)) <= MaxMembers - 1 + Cardinality(Targets(refs))
    BY DEF Spare
  <2> HIDE DEF Targets
  <2> QED BY <1>6, <1>7, <2>2, <2>4, <2>5, NhgSizes DEF Spare
<1> QED BY <1>3, <1>7, <1>8, <1>9

\* A next hop with a bucket in the group was put there by the client.
LEMMA MemberFound ==
  ASSUME HopsSound, NEW refs, NEW times, Sound(refs, times),
         NEW h \in NhId, Alive(h), NEW b \in LeadTo(refs, nhTable[h].nbr)
  PROVE  times[h] > 0
<1>1. b \in Taken(refs) /\ refs[b] = nhTable[h].nbr
  BY DEF LeadTo, Taken, Alive, NbrId, NoBucket
<1>2. PICK g \in NhId : times[g] > 0 /\ refs[b] = nhTable[g].nbr
  BY <1>1 DEF Sound
<1>3. Alive(g)
  BY <1>2 DEF Sound
<1>4. g = h
  BY <1>1, <1>2, <1>3 DEF HopsSound
<1> QED BY <1>2, <1>4

\* One bucket of a member goes.
LEMMA MemberRemoved ==
  ASSUME HopsSound, NEW refs \in Refs, NEW times \in Times,
         Sound(refs, times), Spare(refs), Targets(refs) \subseteq NbrId,
         NEW h \in NhId, Alive(h), NEW b \in LeadTo(refs, nhTable[h].nbr),
         NEW refs2, refs2 = [refs EXCEPT ![b] = NoBucket],
         NEW times2, times2 = [times EXCEPT ![h] = times[h] - 1]
  PROVE  /\ times[h] > 0 /\ Sound(refs2, times2) /\ Spare(refs2)
         /\ Cardinality(Taken(refs)) > 0
         /\ Cardinality(Taken(refs2)) = Cardinality(Taken(refs)) - 1
<1> DEFINE n == nhTable[h].nbr
<1>1. n \in NbrId /\ n # NoBucket
  BY DEF Alive, NbrId, NoBucket
<1>2. b \in Bucket /\ refs[b] = n /\ times[h] > 0
  BY MemberFound DEF LeadTo
<1> HIDE DEF n
<1>3. refs2[b] = NoBucket /\ \A c \in Bucket \ {b} : refs2[c] = refs[c]
  BY <1>2 DEF Refs
<1>4. times2[h] = times[h] - 1 /\ \A g \in NhId \ {h} : times2[g] = times[g]
  BY DEF Times
<1>5. Taken(refs2) = Taken(refs) \ {b} /\ b \in Taken(refs)
  BY <1>1, <1>2, <1>3 DEF Taken
<1>6. IsFiniteSet(Taken(refs)) /\ Cardinality(Taken(refs)) \in Nat
      /\ Cardinality(Taken(refs2)) \in Nat
  BY BucketsFinite DEF Taken
<1>7. Cardinality(Taken(refs2)) = Cardinality(Taken(refs)) - 1
  BY <1>5, <1>6, FS_RemoveElement
<1>8. LeadTo(refs2, n) = LeadTo(refs, n) \ {b} /\ b \in LeadTo(refs, n)
  BY <1>1, <1>2, <1>3 DEF LeadTo
<1>9. IsFiniteSet(LeadTo(refs, n)) /\ Cardinality(LeadTo(refs, n)) = times[h]
  BY <1>2, BucketsFinite DEF Sound, LeadTo, n
<1>10. /\ IsFiniteSet(LeadTo(refs2, n))
       /\ Cardinality(LeadTo(refs2, n)) = times[h] - 1
  BY <1>8, <1>9, FS_RemoveElement
<1>11. Sound(refs2, times2)
  <2>1. ASSUME NEW g \in NhId, times2[g] > 0
        PROVE  Alive(g) /\ Cardinality(LeadTo(refs2, nhTable[g].nbr)) = times2[g]
    <3>1. CASE g = h
      BY <1>4, <1>10, <3>1 DEF n
    <3>2. CASE g # h
      <4>1. times[g] > 0 /\ times2[g] = times[g]
        BY <1>4, <2>1, <3>2
      <4>2. Alive(g) /\ Cardinality(LeadTo(refs, nhTable[g].nbr)) = times[g]
        BY <4>1 DEF Sound
      <4>3. nhTable[g].nbr # n /\ nhTable[g].nbr # NoBucket
        BY <3>2, <4>2 DEF HopsSound, Alive, NbrId, NoBucket, n
      <4>4. LeadTo(refs2, nhTable[g].nbr) = LeadTo(refs, nhTable[g].nbr)
        BY <1>2, <1>3, <4>3 DEF LeadTo
      <4> QED BY <4>1, <4>2, <4>4
    <3> QED BY <3>1, <3>2
  <2>2. ASSUME NEW c \in Taken(refs2)
        PROVE  \E g \in NhId : times2[g] > 0 /\ refs2[c] = nhTable[g].nbr
    <3>1. c \in Taken(refs) /\ c # b /\ refs2[c] = refs[c]
      BY <1>3, <1>5, <2>2 DEF Taken
    <3>2. PICK g \in NhId : times[g] > 0 /\ refs[c] = nhTable[g].nbr
      BY <3>1 DEF Sound
    <3>3. CASE g # h
      <4>1. times2[g] > 0 /\ refs2[c] = nhTable[g].nbr
        BY <1>4, <3>1, <3>2, <3>3
      <4> QED BY <4>1
    <3>4. CASE g = h
      <4>1. c \in LeadTo(refs2, n)
        BY <3>1, <3>2, <3>4 DEF LeadTo, Taken, n
      <4>2. times[h] - 1 # 0
        BY <1>10, <4>1, FS_EmptySet
      <4>3. times2[h] > 0 /\ refs2[c] = nhTable[h].nbr
        BY <1>2, <1>4, <3>1, <3>2, <3>4, <4>2 DEF Times
      <4> QED BY <4>3
    <3> QED BY <3>3, <3>4
  <2> QED BY <2>1, <2>2 DEF Sound
<1>12. Spare(refs2)
  <2>2. IsFiniteSet(Targets(refs)) /\ Cardinality(Targets(refs)) \in Nat
    BY NeighborsFinite
  <2>3. Targets(refs) \ {n} \subseteq Targets(refs2)
        /\ Targets(refs2) \subseteq Targets(refs)
    <3>1. \A x : x \in Targets(refs2) <=> \E c \in Taken(refs) \ {b} : x = refs2[c]
      BY <1>5 DEF Targets
    <3>2. \A x : x \in Targets(refs) <=> \E c \in Taken(refs) : x = refs[c]
      BY DEF Targets
    <3>3. \A c \in Taken(refs) \ {b} : refs2[c] = refs[c]
      BY <1>3 DEF Taken
    <3>4. ASSUME NEW x \in Targets(refs2) PROVE x \in Targets(refs)
      <4>1. PICK c \in Taken(refs) \ {b} : x = refs2[c]
        BY <3>1, <3>4
      <4> QED BY <3>2, <3>3, <4>1
    <3>5. ASSUME NEW x \in Targets(refs) \ {n} PROVE x \in Targets(refs2)
      <4>1. PICK c \in Taken(refs) : x = refs[c]
        BY <3>2, <3>5
      <4> QED BY <1>2, <3>1, <3>3, <3>5, <4>1
    <3> QED BY <3>4, <3>5
  <2>4. IsFiniteSet(Targets(refs2)) /\ Cardinality(Targets(refs2)) \in Nat
    BY <2>2, <2>3, FS_Subset, FS_CardinalityType
  <2>5. Cardinality(Targets(refs) \ {n}) >= Cardinality(Targets(refs)) - 1
        /\ Cardinality(Targets(refs) \ {n}) \in Nat
    <3>1. /\ IsFiniteSet(Targets(refs) \ {n})
          /\ Cardinality(Targets(refs) \ {n}) =
               IF n \in Targets(refs) THEN Cardinality(Targets(refs)) - 1
               ELSE Cardinality(Targets(refs))
      BY <2>2, FS_RemoveElement
    <3>2. Cardinality(Targets(refs) \ {n}) \in Nat
      BY <3>1, FS_CardinalityType
    <3> QED BY <2>2, <3>1, <3>2
  <2>6. Cardinality(Targets(refs) \ {n}) <= Cardinality(Targets(refs2))
    BY <2>3, <2>4, FS_Subset
  <2>7. Cardinality(Taken(refs)) <= MaxMembers - 1 + Cardinality(Targets(refs))
    BY DEF Spare
  <2> QED BY <1>6, <1>7, <2>2, <2>4, <2>5, <2>6, <2>7, NhgSizes DEF Spare
<1>13. Cardinality(Taken(refs)) > 0
  BY <1>5, <1>6, FS_EmptySet
<1> QED BY <1>2, <1>7, <1>11, <1>12, <1>13

\* What buckets lead to, in a group that is sound, are neighbors.
LEMMA TargetsAreNeighbors ==
  ASSUME NEW refs, NEW times, Sound(refs, times)
  PROVE  Targets(refs) \subseteq NbrId
  BY DEF Targets, Sound, Alive

\* A set of numbers has a first.
LEMMA FirstExists ==
  ASSUME NEW S, S \subseteq Nat, S # {}
  PROVE  \E i \in S : \A j \in S : i <= j
<1>1. \E i \in S : \A j \in S : ~(<<j, i>> \in OpToRel(<, Nat))
  BY WFMin, NatLessThanWellFounded
<1>2. \A i, j \in S : ~(<<j, i>> \in OpToRel(<, Nat)) => i <= j
  BY DEF OpToRel
<1> QED BY <1>1, <1>2

\* The bucket that is deleted is one of those that lead where it should.
LEMMA FirstOfLeadsThere ==
  ASSUME NEW g, NEW n, HasRef(g, n)
  PROVE  FirstOf(g, n) \in LeadTo(ecmp[g].ref, n)
<1> DEFINE S == LeadTo(ecmp[g].ref, n)
<1>1. S \subseteq Nat /\ S # {}
  BY DEF HasRef, LeadTo, Bucket
<1>2. PICK b \in S : \A c \in S : b <= c
  BY <1>1, FirstExists
<1>3. b \in Bucket /\ ecmp[g].ref[b] = n /\ b \in Nat /\ b < NumBuckets
  BY <1>2, NhgSizes DEF LeadTo, Bucket
<1>4. \A c \in 0 .. b - 1 : ecmp[g].ref[c] # n
  <2> SUFFICES ASSUME NEW c \in 0 .. b - 1, ecmp[g].ref[c] = n PROVE FALSE
    OBVIOUS
  <2>1. c \in Bucket /\ ~(b <= c)
    BY <1>3, NhgSizes DEF Bucket
  <2> QED BY <1>2, <2>1 DEF LeadTo
<1>5. \E d \in Bucket : /\ ecmp[g].ref[d] = n
                        /\ \A c \in 0 .. d - 1 : ecmp[g].ref[c] # n
  BY <1>3, <1>4
<1>6. FirstOf(g, n) \in Bucket /\ ecmp[g].ref[FirstOf(g, n)] = n
  BY <1>5 DEF FirstOf
<1> QED BY <1>6 DEF LeadTo

\* A group that is not full has a bucket for a new member.
LEMMA GapWhenNotFull ==
  ASSUME NEW g, Gap(g) = {} PROVE Members(g) = Bucket
<1> SUFFICES ASSUME Members(g) # Bucket PROVE FALSE
  OBVIOUS
<1> DEFINE S == Bucket \ Members(g)
<1>1. S \subseteq Nat /\ S # {}
  BY DEF Members, Bucket
<1>2. PICK b \in S : \A c \in S : b <= c
  BY <1>1, FirstExists
<1>3. \A c \in 0 .. b - 1 : c \in Members(g)
  <2> SUFFICES ASSUME NEW c \in 0 .. b - 1, c \notin Members(g) PROVE FALSE
    OBVIOUS
  <2>1. c \in Bucket /\ ~(b <= c)
    BY <1>1, NhgSizes DEF Bucket
  <2> QED BY <1>2, <2>1
<1> QED BY <1>2, <1>3 DEF Gap

\* A list is a sequence of next hops, and counting them is a number for each.
LEMMA ListType ==
  ASSUME NEW list \in Lists
  PROVE  /\ Len(list) \in Nat /\ list \in [1 .. Len(list) -> NhId]
         /\ BagOf(list) \in Times
         /\ \A h \in NhId : IsFiniteSet({i \in 1 .. Len(list) : list[i] = h})
<1>1. PICK n \in 0 .. MaxMembers + 1 : list \in [1 .. n -> NhId]
  BY DEF Lists
<1>2. n \in Nat /\ list \in Seq(NhId) /\ Len(list) = n
  BY <1>1, NhgSizes
<1>3. IsFiniteSet(1 .. n)
  BY <1>2, FS_Interval
<1>4. ASSUME NEW h \in NhId
      PROVE  /\ IsFiniteSet({i \in 1 .. n : list[i] = h})
             /\ Cardinality({i \in 1 .. n : list[i] = h}) \in Nat
  BY <1>3, FS_Subset, FS_CardinalityType
<1> QED BY <1>1, <1>2, <1>4 DEF BagOf, Times

\* The buckets of a list of next hops that have neighbors lead to these.
LEMMA ListFilled ==
  ASSUME HopsSound, NEW list \in Lists, Len(list) \in 1 .. MaxMembers,
         \A i \in 1 .. Len(list) : Alive(list[i]),
         NEW refs \in ListRefs(list), Len(refs) <= NumBuckets
  PROVE  /\ Sound(Filled(refs), BagOf(list)) /\ Spare(Filled(refs))
         /\ Cardinality(Taken(Filled(refs))) = Len(list)
<1> DEFINE n == Len(list)
           made == Filled(refs)
           To(h) == nhTable[h].nbr
           At(h) == {i \in 1 .. n : list[i] = h}
<1>1. n \in Nat \ {0} /\ list \in [1 .. n -> NhId] /\ n <= MaxMembers
  BY ListType
<1>2. refs \in [1 .. n -> Reference] /\ Len(refs) = n
  BY <1>1 DEF ListRefs
<1>3. \A i \in 1 .. n : refs[i] = To(list[i]) /\ Alive(list[i])
  BY <1>1 DEF ListRefs, RefsOf, Alive, UsedNhs
<1>4. \A h \in NhId : Alive(h) => To(h) # NoBucket
  BY DEF Alive, NbrId, NoBucket
<1>5. \A b \in Bucket : /\ b < n => b + 1 \in 1 .. n /\ made[b] = refs[b + 1]
                        /\ ~(b < n) => made[b] = NoBucket
  BY <1>1, <1>2 DEF Filled, Bucket
<1>6. \A i \in 1 .. n : i - 1 \in Bucket /\ i - 1 < n /\ (i - 1) + 1 = i
  BY <1>1, <1>2, NhgSizes DEF Bucket
<1> HIDE DEF n, made
<1>7. \A b \in Bucket : b < n => made[b] = To(list[b + 1]) /\ made[b] # NoBucket
                                 /\ list[b + 1] \in NhId
  BY <1>1, <1>3, <1>4, <1>5
<1>8. Taken(made) = 0 .. n - 1
  <2>1. \A b \in Taken(made) : b \in Bucket /\ b < n
    BY <1>5 DEF Taken
  <2>2. \A b \in 0 .. n - 1 : b \in Bucket /\ b < n
    BY <1>1, <1>2, NhgSizes DEF Bucket, n
  <2>3. \A b \in Bucket : b < n => b \in Taken(made)
    BY <1>7 DEF Taken
  <2>4. \A b \in Bucket : b < n => b \in 0 .. n - 1
    BY <1>1, NhgSizes DEF Bucket
  <2> QED BY <2>1, <2>2, <2>3, <2>4
<1>9. Cardinality(Taken(made)) = n
  <2>1. 0 \in Int /\ n - 1 \in Int /\ ~(0 > n - 1) /\ (n - 1) - 0 + 1 = n
    BY <1>1
  <2> QED BY <1>8, <2>1, FS_Interval
<1>10. ASSUME NEW h \in NhId, Alive(h)
       PROVE  Cardinality(LeadTo(made, To(h))) = BagOf(list)[h]
  <2> DEFINE L == LeadTo(made, To(h))
             f == [i \in At(h) |-> i - 1]
  <2>1. \A i \in At(h) : i \in Int /\ i - 1 \in L
    BY <1>1, <1>3, <1>5, <1>6 DEF LeadTo
  <2>2. \A b \in L : b \in Int /\ b + 1 \in At(h) /\ (b + 1) - 1 = b
    <3> SUFFICES ASSUME NEW b \in L
                 PROVE  b \in Int /\ b + 1 \in At(h) /\ (b + 1) - 1 = b
      OBVIOUS
    <3>1. b \in Bucket /\ made[b] = To(h) /\ b \in Int
      BY DEF LeadTo, Bucket
    <3>2. b < n
      BY <1>4, <1>5, <1>10, <3>1
    <3>3. b + 1 \in 1 .. n /\ To(list[b + 1]) = To(h)
      BY <1>5, <1>7, <3>1, <3>2
    <3>4. list[b + 1] = h
      BY <1>3, <1>7, <1>10, <3>1, <3>2, <3>3 DEF HopsSound
    <3> QED BY <3>1, <3>3, <3>4
  <2> HIDE DEF L
  <2>3. f \in Bijection(At(h), L)
    <3>1. f \in [At(h) -> L]
      BY <2>1
    <3>2. \A i, j \in At(h) : f[i] = f[j] => i = j
      BY <2>1
    <3>3. \A b \in L : \E i \in At(h) : f[i] = b
      BY <2>2
    <3> QED BY <3>1, <3>2, <3>3 DEF Bijection, Injection, IsInjective, Surjection
  <2>4. IsFiniteSet(At(h))
    BY ListType DEF n
  <2>5. Cardinality(L) = Cardinality(At(h))
    BY <2>3, <2>4, FS_Bijection DEF ExistsBijection
  <2> QED BY <2>5 DEF BagOf, L, n
<1> DEFINE bag == BagOf(list)
<1>11. \A h \in NhId : bag[h] = Cardinality(At(h))
  BY DEF BagOf, n
<1> HIDE DEF bag
<1>12. \A i \in 1 .. n : BagOf(list)[list[i]] > 0
  <2> SUFFICES ASSUME NEW i \in 1 .. n PROVE BagOf(list)[list[i]] > 0
    OBVIOUS
  <2>1. list[i] \in NhId /\ i \in At(list[i])
    BY <1>1
  <2>2. IsFiniteSet(At(list[i])) /\ Cardinality(At(list[i])) \in Nat
    BY <2>1, ListType, FS_CardinalityType DEF n
  <2>3. Cardinality(At(list[i])) # 0
    BY <2>1, <2>2, FS_EmptySet
  <2>4. bag[list[i]] = Cardinality(At(list[i]))
    BY <1>11, <2>1
  <2> HIDE DEF At
  <2>5. bag[list[i]] > 0
    BY <2>2, <2>3, <2>4
  <2> QED BY <2>5 DEF bag
<1>13. \A h \in NhId : BagOf(list)[h] > 0 => Alive(h)
  <2> SUFFICES ASSUME NEW h \in NhId, BagOf(list)[h] > 0 PROVE Alive(h)
    OBVIOUS
  <2>1. At(h) # {}
    <3>1. bag[h] > 0 /\ bag[h] = Cardinality(At(h))
      BY <1>11 DEF bag
    <3> HIDE DEF At
    <3>2. Cardinality(At(h)) # 0
      BY <3>1
    <3> QED BY <3>2, FS_EmptySet
  <2> QED BY <1>3, <2>1
<1>14. \A b \in Taken(made) :
         \E h \in NhId : BagOf(list)[h] > 0 /\ made[b] = nhTable[h].nbr
  <2> SUFFICES ASSUME NEW b \in Taken(made)
               PROVE  \E h \in NhId : BagOf(list)[h] > 0 /\ made[b] = nhTable[h].nbr
    OBVIOUS
  <2>1. b \in Bucket /\ b < n /\ b + 1 \in 1 .. n
    BY <1>5 DEF Taken
  <2> QED BY <1>7, <1>12, <2>1
<1>15. Sound(made, BagOf(list))
  BY <1>10, <1>13, <1>14 DEF Sound
<1>16. Spare(made)
  <2>1. 0 \in Taken(made)
    BY <1>1, <1>8
  <2>2. Targets(made) # {} /\ Targets(made) \subseteq NbrId
    BY <1>15, <2>1, TargetsAreNeighbors DEF Targets
  <2>3. Cardinality(Targets(made)) \in Nat /\ Cardinality(Targets(made)) # 0
    BY <2>2, NeighborsFinite, FS_EmptySet
  <2> QED BY <1>1, <1>9, <2>3, NhgSizes DEF Spare
<1> QED BY <1>9, <1>15, <1>16 DEF made, n

-----------------------------------------------------------------------------
(* The operations keep buckets and the client's view together.             *)

\* Next hops of a careful client, in groups whose neighbors have groups.
CarefulClient == ClientKeepsMembers /\ GroupsReliable

\* The counter is wider than the groups of the switch have room.
CountersWide == NumBuckets < CountMod

\* All that is known of groups together.
MembersBase == EcmpInv /\ HopsSound /\ MembersInv

\* Counting one up and down stays below the width, in a group with room.
LEMMA CountedExactly ==
  ASSUME CountersWide, NEW c \in Nat
  PROVE  /\ c + 1 <= NumBuckets => (c + 1) % CountMod = c + 1
         /\ c > 0 /\ c <= NumBuckets => (c - 1) % CountMod = c - 1
  BY NhgSizes DEF CountersWide

\* What the references of a careful client's next hop can be.
LEMMA OneRef ==
  ASSUME HopsSound, NEW h \in NhId, Alive(h), NEW n \in RefsOf(h)
  PROVE  n = nhTable[h].nbr /\ n \in NbrId /\ ~MayRefuse(n) /\ n # NoBucket
<1>1. n = nhTable[h].nbr
  BY DEF RefsOf, Alive, UsedNhs
<1> QED
  BY <1>1 DEF HopsSound, Alive, MayRefuse, NbrId, NoBucket

\* A call on one group leaves the others as they were.
OthersKept(g) ==
  \A o \in NhgId \ {g} : /\ nhgTable'[o] = nhgTable[o] /\ ecmp'[o] = ecmp[o]
                         /\ Marked(o)' <=> Marked(o)

LEMMA DeletionOfOne ==
  ASSUME EcmpInv, NEW g \in NhgId, NEW left, SwitchDeletes(g, left)
  PROVE  \A o \in NhgId \ {g} : ecmp'[o] = ecmp[o] /\ (Marked(o)' <=> Marked(o))
  BY DEF SwitchDeletes, EcmpInv, NhgTypeOK, Marked

LEMMA ForgetsOne ==
  ASSUME EcmpInv, NEW g \in NhgId, nhgTable' = Forgotten(g)
  PROVE  ~nhgTable'[g].used /\ \A o \in NhgId \ {g} : nhgTable'[o] = nhgTable[o]
  BY DEF EcmpInv, NhgTypeOK, Forgotten, NoGroup

\* Each operation is on one group: creation and setting,
LEMMA ListOfOne ==
  ASSUME EcmpInv, NEW g \in NhgId, NEW list \in Lists,
         CreateNextHopGroup(g, list) \/ SetNextHopList(g, list)
  PROVE  OthersKept(g)
<1>1. ASSUME NEW left, SwitchDeletes(g, left), nhgTable' = Forgotten(g)
      PROVE  OthersKept(g)
  BY <1>1, DeletionOfOne, ForgetsOne DEF OthersKept
<1>2. CASE UpdateNothing(g)
  BY <1>2, ForgetsOne DEF OthersKept, UpdateNothing, Marked
<1>3. ASSUME NEW left, SwitchDeletes(g, left), UNCHANGED nhgTable
      PROVE  OthersKept(g)
  BY <1>3, DeletionOfOne DEF OthersKept
<1>4. ASSUME NEW group, NEW record,
             ecmp' = [ecmp EXCEPT ![g] = group],
             nhgTable' = [nhgTable EXCEPT ![g] = record], UNCHANGED refused
      PROVE  OthersKept(g)
  BY <1>4 DEF OthersKept, EcmpInv, NhgTypeOK, Marked
<1>5. ASSUME NEW refs, NEW c,
             ecmp' = [ecmp EXCEPT ![g].ref = refs],
             nhgTable' = [nhgTable EXCEPT ![g].count = c],
             refused' = refused \ {<<g, "bucket">>}
      PROVE  OthersKept(g)
  BY <1>5 DEF OthersKept, EcmpInv, NhgTypeOK, Marked
<1>6. CASE CreateNextHopGroup(g, list)
  BY <1>3, <1>4, <1>6 DEF CreateNextHopGroup
<1>7. CASE SetNextHopList(g, list)
  BY <1>1, <1>2, <1>5, <1>7 DEF SetNextHopList
<1> QED BY <1>6, <1>7

\* removal,
LEMMA RemovalOfOne ==
  ASSUME EcmpInv, NEW g \in NhgId, RemoveNextHopGroup(g)
  PROVE  OthersKept(g) /\ ~nhgTable'[g].used
<1>1. CASE SwitchDeletes(g, ecmp[g])
  BY <1>1, DeletionOfOne, ForgetsOne DEF RemoveNextHopGroup, OthersKept
<1>2. CASE UNCHANGED <<ecmp, refused>>
  BY <1>2, ForgetsOne DEF RemoveNextHopGroup, OthersKept, Marked
<1> QED BY <1>1, <1>2 DEF RemoveNextHopGroup

\* and changes of one member.
LEMMA MemberOfOne ==
  ASSUME EcmpInv, NEW g \in NhgId, NEW h \in NhId,
         AddNextHop(g, h) \/ RemoveNextHopFromGroup(g, h)
  PROVE  OthersKept(g)
<1>1. CASE SwitchDeletes(g, ecmp[g]) /\ nhgTable' = Forgotten(g)
  BY <1>1, DeletionOfOne, ForgetsOne DEF OthersKept
<1>2. CASE UpdateNothing(g)
  BY <1>2, ForgetsOne DEF OthersKept, UpdateNothing, Marked
<1>3. ASSUME NEW c, NEW b, NEW n,
             UNCHANGED ecmp \/ ecmp' = [ecmp EXCEPT ![g].ref[b] = n],
             nhgTable' = [nhgTable EXCEPT ![g].count = c],
             UNCHANGED refused \/ refused' = refused \cup {<<g, "bucket">>}
      PROVE  OthersKept(g)
  BY <1>3 DEF OthersKept, EcmpInv, NhgTypeOK, Marked
<1>4. CASE AddNextHop(g, h)
  BY <1>1, <1>2, <1>3, <1>4 DEF AddNextHop
<1>5. ASSUME NEW ref \in RefsOf(h),
             \/ ecmp' = (IF HasRef(g, ref) THEN BucketDeleted(g, ref) ELSE ecmp)
                /\ UNCHANGED refused
             \/ UNCHANGED ecmp /\ refused' = refused \cup {<<g, "bucket">>},
             nhgTable' = [nhgTable EXCEPT ![g].count = (@ - 1) % CountMod]
      PROVE  OthersKept(g)
  <2> DEFINE c == (nhgTable[g].count - 1) % CountMod
             b == FirstOf(g, ref)
  <2>1. /\ nhgTable' = [nhgTable EXCEPT ![g].count = c]
        /\ UNCHANGED ecmp \/ ecmp' = [ecmp EXCEPT ![g].ref[b] = NoBucket]
    BY <1>5 DEF BucketDeleted
  <2> HIDE DEF c, b
  <2> QED BY <1>3, <1>5, <2>1
<1>6. CASE RemoveNextHopFromGroup(g, h)
  BY <1>2, <1>5, <1>6 DEF RemoveNextHopFromGroup
<1> QED BY <1>4, <1>6

\* What must hold of the group that is called on.
LEMMA OtherGroupsSound ==
  ASSUME MembersBase, UNCHANGED vars, NEW g \in NhgId,
         told' \in [NhgId -> Times],
         \A o \in NhgId \ {g} : told'[o] = told[o],
         OthersKept(g),
         InTold(g)' =>
           /\ Sound(ecmp'[g].ref, told'[g]) /\ Spare(ecmp'[g].ref)
           /\ nhgTable'[g].count = Cardinality(Taken(ecmp'[g].ref))
  PROVE  MembersInv'
<1>1. ASSUME NEW o \in NhgId, InTold(o)'
      PROVE  /\ Sound(ecmp'[o].ref, told'[o]) /\ Spare(ecmp'[o].ref)
             /\ nhgTable'[o].count = Cardinality(Taken(ecmp'[o].ref))
  BY <1>1 DEF MembersBase, MembersInv, InTold, OthersKept, GroupSound
<1>2. nhTable' = nhTable
  BY DEF vars
<1>3. ASSUME NEW o \in NhgId, InTold(o)' PROVE GroupSound(o)'
  <2>2. Sound(ecmp[o].ref, told[o])'
    <3>1. Sound(ecmp'[o].ref, told'[o])
      BY <1>1, <1>3
    <3>2. \A h \in NhId : Alive(h)' <=> Alive(h)
      BY <1>2 DEF Alive, UsedNhs
    <3>3. \A h \in NhId : LeadTo(ecmp[o].ref, nhTable[h].nbr)'
                          = LeadTo(ecmp'[o].ref, nhTable[h].nbr)
      BY <1>2 DEF LeadTo
    <3>4. Taken(ecmp[o].ref)' = Taken(ecmp'[o].ref)
      BY DEF Taken
    <3>5. \A h \in NhId : told[o][h]' > 0 =>
            /\ Alive(h)'
            /\ Cardinality(LeadTo(ecmp[o].ref, nhTable[h].nbr)') = told[o][h]'
      BY <3>1, <3>2, <3>3 DEF Sound
    <3>6. \A b \in Taken(ecmp[o].ref)' :
            \E h \in NhId : told[o][h]' > 0 /\ ecmp[o].ref[b]' = nhTable[h].nbr'
      BY <1>2, <3>1, <3>4 DEF Sound
    <3> QED BY <3>5, <3>6 DEF Sound
  <2>3. Spare(ecmp[o].ref)' /\ (nhgTable[o].count = Cardinality(Taken(ecmp[o].ref)))'
    BY <1>1, <1>3 DEF Spare, Taken, Targets
  <2> QED BY <2>2, <2>3 DEF GroupSound
<1> QED BY <1>3 DEF MembersInv

\* What the invariants say of one group.
LEMMA OneGroup ==
  ASSUME MembersBase, NEW g \in NhgId
  PROVE  /\ told[g] \in Times /\ ecmp[g].ref \in Refs
         /\ InTold(g) => /\ Sound(ecmp[g].ref, told[g])
                         /\ Spare(ecmp[g].ref)
                         /\ Targets(ecmp[g].ref) \subseteq NbrId
                         /\ nhgTable[g].count = Cardinality(Taken(ecmp[g].ref))
  BY TargetsAreNeighbors
     DEF MembersBase, MembersInv, GroupSound, EcmpInv, NhgTypeOK, Refs

\* The groups the client knows.
LEMMA ToldGroups == GroupsTold = {g \in NhgId : InTold(g)}
  BY DEF GroupsTold, GroupsUsed, InTold, Marked

\* A call that fails on a group loses it, for the adapter and the client.
LEMMA LostSound ==
  ASSUME MembersBase, UNCHANGED vars, NEW g \in NhgId, NEW times,
         OthersKept(g), ~nhgTable'[g].used, Tell(g, times)
  PROVE  MembersInv'
<1>1. NoHops \in Times
  BY FS_EmptySet DEF NoHops, BagOf, Times
<1>2. told' = [told EXCEPT ![g] = NoHops]
  BY DEF Tell
<1>3. /\ told' \in [NhgId -> Times]
      /\ \A o \in NhgId \ {g} : told'[o] = told[o]
  BY <1>1, <1>2 DEF MembersBase, MembersInv
<1>4. ~InTold(g)'
  BY DEF InTold
<1> QED BY <1>3, <1>4, OtherGroupsSound

\* Otherwise the client is told what it asked for.
LEMMA ToldSo ==
  ASSUME MembersBase, NEW g \in NhgId, NEW times, nhgTable'[g].used, Tell(g, times)
  PROVE  told' = [told EXCEPT ![g] = times]
  BY DEF Tell

\* Writing the buckets, the counter and the client's view of one group.
LEMMA WrittenSound ==
  ASSUME MembersBase, UNCHANGED vars, NEW g \in NhgId, OthersKept(g),
         NEW times, NEW refs, NEW record, NEW group,
         times \in Times, group.ref = refs,
         told' = [told EXCEPT ![g] = times],
         ecmp' = [ecmp EXCEPT ![g] = group],
         nhgTable' = [nhgTable EXCEPT ![g] = record],
         record.used /\ ~Marked(g)' =>
           /\ Sound(refs, times) /\ Spare(refs)
           /\ record.count = Cardinality(Taken(refs))
  PROVE  MembersInv'
<1>1. /\ told' \in [NhgId -> Times] /\ nhgTable'[g] = record
      /\ ecmp'[g] = group /\ told'[g] = times
      /\ \A o \in NhgId \ {g} : told'[o] = told[o]
  BY DEF MembersBase, MembersInv, EcmpInv, NhgTypeOK
<1>2. InTold(g)' <=> record.used /\ ~Marked(g)'
  BY <1>1 DEF InTold
<1> QED BY <1>1, <1>2, OtherGroupsSound

\* The next hops of a careful list have neighbors.
LEMMA CarefulList ==
  ASSUME CarefulClient, NEW list \in Lists, Careful(list)
  PROVE  Len(list) \in 1 .. MaxMembers /\ \A i \in 1 .. Len(list) : Alive(list[i])
<1>1. /\ Len(list) \in 1 .. MaxMembers
      /\ \A i \in 1 .. Len(list) : /\ nhTable[list[i]].used
                                   /\ nhTable[list[i]].nbr \in NbrId
  BY DEF Careful, CarefulClient
<1> QED BY <1>1, ListType DEF Alive, UsedNhs

\* A next hop put in a group alone by a careful client has its neighbor.
LEMMA CarefulHop ==
  ASSUME CarefulClient, NEW h \in NhId, Careful(<<h>>) PROVE Alive(h)
<1>1. 1 \in 1 .. Len(<<h>>) /\ <<h>>[1] = h
  OBVIOUS
<1>2. \A i \in 1 .. Len(<<h>>) : /\ nhTable[<<h>>[i]].used
                                 /\ nhTable[<<h>>[i]].nbr \in NbrId
  BY DEF Careful, CarefulClient
<1>3. nhTable[h].used /\ nhTable[h].nbr \in NbrId
  BY <1>1, <1>2
<1> QED BY <1>3 DEF Alive, UsedNhs

\* Each operation of a careful client leaves groups as told: creating one,
LEMMA CreateSound ==
  ASSUME CarefulClient, MembersBase, UNCHANGED vars, NEW g \in NhgId,
         NEW list \in Lists, CreateNextHopGroup(g, list), nhgTable'[g].used,
         told' = [told EXCEPT ![g] = BagOf(list)]
  PROVE  MembersInv'
<1>1. PICK refs \in ListRefs(list) :
        /\ Len(refs) <= NumBuckets
        /\ ecmp' = [ecmp EXCEPT ![g] = [exists |-> TRUE, ref |-> Filled(refs)]]
        /\ nhgTable' = [nhgTable EXCEPT ![g] = [used |-> TRUE,
                                                count |-> Len(list)]]
  <2>1. g \notin GroupsUsed
    BY DEF CreateNextHopGroup, MembersBase, EcmpInv, UsedGroupsExist
  <2>2. nhgTable' # nhgTable
    BY <2>1 DEF GroupsUsed
  <2> QED BY <2>2 DEF CreateNextHopGroup
<1>2. /\ Len(list) \in 1 .. MaxMembers
      /\ \A i \in 1 .. Len(list) : Alive(list[i])
  BY CarefulList DEF CreateNextHopGroup
<1>3. /\ Sound(Filled(refs), BagOf(list)) /\ Spare(Filled(refs))
      /\ Cardinality(Taken(Filled(refs))) = Len(list)
  BY <1>1, <1>2, ListFilled DEF MembersBase
<1>4. BagOf(list) \in Times /\ OthersKept(g)
  BY ListType, ListOfOne DEF MembersBase
<1> DEFINE record == [used |-> TRUE, count |-> Len(list)]
           group == [exists |-> TRUE, ref |-> Filled(refs)]
<1>5. record.count = Len(list) /\ group.ref = Filled(refs)
  OBVIOUS
<1>6. /\ ecmp' = [ecmp EXCEPT ![g] = group]
      /\ nhgTable' = [nhgTable EXCEPT ![g] = record]
  BY <1>1
<1> HIDE DEF record, group
<1> QED BY <1>3, <1>4, <1>5, <1>6, WrittenSound

\* setting its list,
LEMMA SetSound ==
  ASSUME CarefulClient, MembersBase, UNCHANGED vars, NEW g \in NhgId,
         NEW list \in Lists, SetNextHopList(g, list), nhgTable'[g].used,
         told' = [told EXCEPT ![g] = BagOf(list)]
  PROVE  MembersInv'
<1>1. BagOf(list) \in Times /\ OthersKept(g)
  BY ListType, ListOfOne DEF MembersBase
<1>2. nhgTable' # Forgotten(g)
  BY ForgetsOne DEF MembersBase
<1>3. ASSUME NEW refs \in ListRefs(list),
             Len(refs) <= NumBuckets,
             ecmp' = [ecmp EXCEPT ![g].ref = Filled(refs)],
             nhgTable' = [nhgTable EXCEPT ![g].count = Len(list)]
      PROVE  MembersInv'
  <2>1. /\ Len(list) \in 1 .. MaxMembers
        /\ \A i \in 1 .. Len(list) : Alive(list[i])
    BY CarefulList DEF SetNextHopList
  <2>2. /\ Sound(Filled(refs), BagOf(list)) /\ Spare(Filled(refs))
        /\ Cardinality(Taken(Filled(refs))) = Len(list)
    BY <1>3, <2>1, ListFilled DEF MembersBase
  <2> DEFINE record == [nhgTable[g] EXCEPT !.count = Len(list)]
             group == [ecmp[g] EXCEPT !.ref = Filled(refs)]
  <2>3. record.count = Len(list) /\ group.ref = Filled(refs)
    BY DEF MembersBase, EcmpInv, NhgTypeOK
  <2>4. /\ ecmp' = [ecmp EXCEPT ![g] = group]
        /\ nhgTable' = [nhgTable EXCEPT ![g] = record]
    BY <1>3
  <2> HIDE DEF record, group
  <2> QED BY <1>1, <2>2, <2>3, <2>4, WrittenSound
<1> QED BY <1>2, <1>3 DEF SetNextHopList, UpdateNothing

\* adding a next hop,
LEMMA AddSound ==
  ASSUME CarefulClient, CountersWide, MembersBase, UNCHANGED vars,
         NEW g \in NhgId, NEW h \in NhId, AddNextHop(g, h), nhgTable'[g].used,
         told' = [told EXCEPT ![g][h] = IF @ = 0 THEN 1 ELSE @]
  PROVE  MembersInv'
<1> DEFINE n == nhTable[h].nbr
           refs == ecmp[g].ref
           times == [told[g] EXCEPT ![h] = IF told[g][h] = 0 THEN 1 ELSE told[g][h]]
<1>1. told' = [told EXCEPT ![g] = times] /\ times \in Times
  BY DEF MembersBase, MembersInv, Times
<1>2. Alive(h) /\ \A m \in RefsOf(h) : m = n /\ ~MayRefuse(m)
  <2>1. Alive(h)
    BY CarefulHop DEF AddNextHop
  <2> QED BY <2>1, OneRef DEF MembersBase
<1>3. /\ told[g] \in Times /\ refs \in Refs
      /\ InTold(g) => /\ Sound(refs, told[g]) /\ Spare(refs)
                             /\ Targets(refs) \subseteq NbrId
                             /\ nhgTable[g].count = Cardinality(Taken(refs))
  BY OneGroup
<1>4. nhgTable' # Forgotten(g) /\ OthersKept(g)
  BY ForgetsOne, MemberOfOne DEF MembersBase
<1>5. CASE /\ HasRef(g, n) /\ UNCHANGED <<ecmp, refused>>
           /\ nhgTable' = [nhgTable EXCEPT ![g].count = CountedUp(g, TRUE)]
  <2>1. InTold(g) => told[g][h] > 0
    <3>1. PICK b \in Bucket : b \in LeadTo(refs, n)
      BY <1>5 DEF HasRef, LeadTo
    <3> QED BY <1>2, <1>3, <3>1, MemberFound DEF MembersBase
  <2>2. InTold(g) => times = told[g]
    BY <1>3, <2>1 DEF Times
  <2> DEFINE record == [nhgTable[g] EXCEPT !.count = nhgTable[g].count]
  <2>3. /\ record.count = nhgTable[g].count
        /\ record.used /\ ~Marked(g)' <=> InTold(g)
        /\ nhgTable' = [nhgTable EXCEPT ![g] = record]
        /\ ecmp' = [ecmp EXCEPT ![g] = ecmp[g]]
    BY <1>5 DEF CountedUp, MembersBase, EcmpInv, NhgTypeOK, InTold, Marked
  <2> HIDE DEF record, times
  <2>4. record.used /\ ~Marked(g)' => /\ Sound(refs, times) /\ Spare(refs)
                       /\ record.count = Cardinality(Taken(refs))
    BY <1>3, <2>2, <2>3
  <2> QED BY <1>1, <1>4, <2>3, <2>4, WrittenSound
<1>6. ASSUME ~HasRef(g, n), NEW b \in Gap(g),
             ecmp' = [ecmp EXCEPT ![g].ref[b] = n],
             nhgTable' = [nhgTable EXCEPT ![g].count = CountedUp(g, FALSE)],
             UNCHANGED refused
      PROVE  MembersInv'
  <2> DEFINE refs2 == [refs EXCEPT ![b] = n]
             times2 == [told[g] EXCEPT ![h] = 1]
             record == [nhgTable[g] EXCEPT !.count = CountedUp(g, FALSE)]
             group == [ecmp[g] EXCEPT !.ref = refs2]
  <2>1. b \in Bucket /\ refs[b] = NoBucket /\ LeadTo(refs, n) = {}
    BY <1>6 DEF Gap, Members, HasRef, LeadTo
  <2>2. InTold(g) =>
          /\ told[g][h] = 0 /\ Sound(refs2, times2) /\ Spare(refs2)
          /\ Cardinality(Taken(refs2)) = Cardinality(Taken(refs)) + 1
    BY <1>2, <1>3, <2>1, MemberAdded DEF MembersBase
  <2>3. InTold(g) => times = times2
    BY <2>2
  <2>4. /\ record.count = (nhgTable[g].count + 1) % CountMod
        /\ record.used /\ ~Marked(g)' <=> InTold(g)
        /\ group.ref = refs2
        /\ nhgTable' = [nhgTable EXCEPT ![g] = record]
        /\ ecmp' = [ecmp EXCEPT ![g] = group]
    BY <1>6 DEF CountedUp, MembersBase, EcmpInv, NhgTypeOK, InTold, Marked
  <2> HIDE DEF record, group, refs2, times, times2
  <2>5. /\ Cardinality(Taken(refs)) \in Nat
        /\ Cardinality(Taken(refs2)) <= NumBuckets
    BY BucketsFinite DEF Taken
  <2>6. InTold(g) => record.count = Cardinality(Taken(refs2))
    BY <1>3, <2>2, <2>4, <2>5, CountedExactly
  <2>7. record.used /\ ~Marked(g)' => /\ Sound(refs2, times) /\ Spare(refs2)
                       /\ record.count = Cardinality(Taken(refs2))
    BY <2>2, <2>3, <2>4, <2>6
  <2> QED BY <1>1, <1>4, <2>4, <2>7, WrittenSound
<1> QED BY <1>2, <1>4, <1>5, <1>6 DEF AddNextHop, UpdateNothing

\* and taking one off.
LEMMA RemoveSound ==
  ASSUME CarefulClient, CountersWide, MembersBase, UNCHANGED vars,
         NEW g \in NhgId, NEW h \in NhId, RemoveNextHopFromGroup(g, h),
         nhgTable'[g].used,
         told' = [told EXCEPT ![g][h] = IF @ = 0 THEN 0 ELSE @ - 1]
  PROVE  MembersInv'
<1> DEFINE n == nhTable[h].nbr
           refs == ecmp[g].ref
           left == IF told[g][h] = 0 THEN 0 ELSE told[g][h] - 1
           times == [told[g] EXCEPT ![h] = left]
<1>1. told' = [told EXCEPT ![g] = times] /\ times \in Times
  <2>1. told \in [NhgId -> Times] /\ told[g] \in [NhId -> Nat]
    BY DEF MembersBase, MembersInv, Times
  <2>2. left \in Nat
    BY <2>1
  <2>3. times \in Times
    BY <2>1, <2>2 DEF Times
  <2>4. told' = [told EXCEPT ![g] = times]
    BY <2>1
  <2> QED BY <2>3, <2>4
<1>2. Alive(h) /\ HasRef(g, n) /\ \A m \in RefsOf(h) : m = n /\ ~MayRefuse(m)
  <2>1. Alive(h)
    BY CarefulHop DEF RemoveNextHopFromGroup
  <2>2. n \in RefsOf(h)
    BY <2>1 DEF RefsOf, Alive, UsedNhs
  <2>3. HasRef(g, n)
    BY <2>2 DEF RemoveNextHopFromGroup, CarefulClient
  <2> QED BY <2>1, <2>3, OneRef DEF MembersBase
<1>3. /\ told[g] \in Times /\ refs \in Refs
      /\ InTold(g) => /\ Sound(refs, told[g]) /\ Spare(refs)
                             /\ Targets(refs) \subseteq NbrId
                             /\ nhgTable[g].count = Cardinality(Taken(refs))
  BY OneGroup
<1>4. nhgTable' # Forgotten(g) /\ OthersKept(g)
  BY ForgetsOne, MemberOfOne DEF MembersBase
<1>5. ASSUME ecmp' = BucketDeleted(g, n), UNCHANGED refused,
             nhgTable' = [nhgTable EXCEPT ![g].count = (@ - 1) % CountMod]
      PROVE  MembersInv'
  <2> DEFINE b == FirstOf(g, n)
             refs2 == [refs EXCEPT ![b] = NoBucket]
             times2 == [told[g] EXCEPT ![h] = told[g][h] - 1]
             record == [nhgTable[g] EXCEPT !.count = (nhgTable[g].count - 1) % CountMod]
             group == [ecmp[g] EXCEPT !.ref = refs2]
  <2>1. b \in LeadTo(refs, n)
    BY <1>2, FirstOfLeadsThere
  <2> HIDE DEF b
  <2>2. InTold(g) =>
          /\ told[g][h] > 0 /\ Sound(refs2, times2) /\ Spare(refs2)
          /\ Cardinality(Taken(refs)) > 0
          /\ Cardinality(Taken(refs2)) = Cardinality(Taken(refs)) - 1
    BY <1>2, <1>3, <2>1, MemberRemoved DEF MembersBase
  <2>3. InTold(g) => times = times2
    BY <1>3, <2>2 DEF Times
  <2>4. /\ record.count = (nhgTable[g].count - 1) % CountMod
        /\ record.used /\ ~Marked(g)' <=> InTold(g)
        /\ group.ref = refs2
        /\ nhgTable' = [nhgTable EXCEPT ![g] = record]
    BY <1>5 DEF MembersBase, EcmpInv, NhgTypeOK, InTold, Marked
  <2>5. ecmp' = [ecmp EXCEPT ![g] = group]
    BY <1>5 DEF BucketDeleted, b
  <2> HIDE DEF record, group, refs2, times, times2
  <2>6. Cardinality(Taken(refs)) \in Nat /\ Cardinality(Taken(refs)) <= NumBuckets
    BY BucketsFinite DEF Taken
  <2>7. InTold(g) => record.count = Cardinality(Taken(refs2))
    BY <1>3, <2>2, <2>4, <2>6, CountedExactly
  <2>8. record.used /\ ~Marked(g)' => /\ Sound(refs2, times) /\ Spare(refs2)
                       /\ record.count = Cardinality(Taken(refs2))
    BY <2>2, <2>3, <2>4, <2>7
  <2> QED BY <1>1, <1>4, <2>4, <2>5, <2>8, WrittenSound
<1>6. ASSUME UNCHANGED ecmp, refused' = refused \cup {<<g, "bucket">>},
             nhgTable' = [nhgTable EXCEPT ![g].count = (@ - 1) % CountMod]
      PROVE  MembersInv'
  <2> DEFINE record == [nhgTable[g] EXCEPT !.count = (nhgTable[g].count - 1) % CountMod]
  <2>1. /\ nhgTable' = [nhgTable EXCEPT ![g] = record]
        /\ ecmp' = [ecmp EXCEPT ![g] = ecmp[g]]
    BY <1>6 DEF MembersBase, EcmpInv, NhgTypeOK
  <2>2. Marked(g)'
    BY <1>6 DEF Marked
  <2> HIDE DEF record, times
  <2> QED BY <1>1, <1>4, <2>1, <2>2, WrittenSound
<1> QED BY <1>2, <1>4, <1>5, <1>6 DEF RemoveNextHopFromGroup, UpdateNothing

\* A call of layer 3 leaves groups alone, and a careful client leaves their
\* members their neighbors.
LEMMA Layer3Sound ==
  ASSUME CarefulClient, MembersBase, L3Api PROVE MembersInv'
<1>1. /\ UNCHANGED <<nhgTable, ecmp, told, refused>>
      /\ \A g \in GroupsUsed, h \in NhId :
           told[g][h] > 0 => nhTable'[h].used /\ nhTable'[h].nbr = nhTable[h].nbr
  BY DEF L3Api, MembersKept, CarefulClient, nhgVars
<1>2. ASSUME NEW g \in NhgId, InTold(g) PROVE GroupSound(g)'
  <2> DEFINE refs == ecmp[g].ref
             times == told[g]
  <2>1. Sound(refs, times) /\ Spare(refs) /\ nhgTable[g].count = Cardinality(Taken(refs))
    BY <1>2 DEF MembersBase, MembersInv, GroupSound
  <2>2. refs' = refs /\ times' = times
    BY <1>1
  <2>3. \A h \in NhId : times[h] > 0 =>
          nhTable'[h].used /\ nhTable'[h].nbr = nhTable[h].nbr
    BY <1>1, <1>2 DEF GroupsUsed, InTold
  <2>4. Spare(refs)' /\ (nhgTable[g].count = Cardinality(Taken(refs)))'
    BY <1>1, <2>1, <2>2 DEF Spare, Taken, Targets
  <2>5. Sound(refs, times)'
    <3>1. ASSUME NEW h \in NhId, times'[h] > 0
          PROVE  /\ Alive(h)'
                 /\ Cardinality(LeadTo(refs', nhTable'[h].nbr)) = times'[h]
      BY <2>1, <2>2, <2>3, <3>1 DEF Sound, Alive, UsedNhs
    <3>2. ASSUME NEW b \in Taken(refs')
          PROVE  \E h \in NhId : times'[h] > 0 /\ refs'[b] = nhTable'[h].nbr
      <4>1. PICK h \in NhId : times[h] > 0 /\ refs[b] = nhTable[h].nbr
        BY <2>1, <2>2, <3>2 DEF Sound
      <4>2. times'[h] > 0 /\ refs'[b] = nhTable'[h].nbr
        BY <2>2, <2>3, <4>1
      <4> QED BY <4>2
    <3>3. /\ Taken(refs)' = Taken(refs')
          /\ \A h \in NhId : LeadTo(refs, nhTable[h].nbr)' = LeadTo(refs', nhTable'[h].nbr)
      BY DEF Taken, LeadTo
    <3> HIDE DEF refs, times
    <3> QED BY <3>1, <3>2, <3>3 DEF Sound
  <2> QED BY <2>4, <2>5 DEF GroupSound
<1>3. \A g \in NhgId : InTold(g)' <=> InTold(g)
  BY <1>1 DEF InTold, Marked
<1> QED BY <1>1, <1>2, <1>3 DEF MembersInv, MembersBase

\* Every step keeps the groups in use sound.
LEMMA MembersStep ==
  ASSUME CarefulClient, CountersWide, MembersBase, [EcmpNext]_ecmpVars
  PROVE  MembersInv'
<1>1. CASE L3Api
  BY <1>1, Layer3Sound
<1>2. CASE NextHopGroupApi
  <2>1. UNCHANGED vars
    BY <1>2 DEF NextHopGroupApi
  <2>2. PICK g \in NhgId :
          \/ \E list \in Lists :
               /\ CreateNextHopGroup(g, list) \/ SetNextHopList(g, list)
               /\ Tell(g, BagOf(list))
          \/ RemoveNextHopGroup(g) /\ Tell(g, NoHops)
          \/ \E h \in NhId :
               /\ AddNextHop(g, h)
               /\ Tell(g, [told[g] EXCEPT ![h] = IF @ = 0 THEN 1 ELSE @])
          \/ \E h \in NhId :
               /\ RemoveNextHopFromGroup(g, h)
               /\ Tell(g, [told[g] EXCEPT ![h] = IF @ = 0 THEN 0 ELSE @ - 1])
    BY <1>2 DEF NextHopGroupApi
  <2>3. CASE RemoveNextHopGroup(g) /\ Tell(g, NoHops)
    BY <2>1, <2>3, RemovalOfOne, LostSound DEF MembersBase
  <2>4. ASSUME NEW list \in Lists,
               CreateNextHopGroup(g, list) \/ SetNextHopList(g, list),
               Tell(g, BagOf(list))
        PROVE  MembersInv'
    <3>1. CASE ~nhgTable'[g].used
      BY <2>1, <2>4, <3>1, ListOfOne, LostSound DEF MembersBase
    <3>2. CASE nhgTable'[g].used
      <4>1. told' = [told EXCEPT ![g] = BagOf(list)]
        BY <2>4, <3>2, ToldSo
      <4> QED BY <2>1, <2>4, <3>2, <4>1, CreateSound, SetSound
    <3> QED BY <3>1, <3>2
  <2>5. ASSUME NEW h \in NhId, AddNextHop(g, h),
               Tell(g, [told[g] EXCEPT ![h] = IF @ = 0 THEN 1 ELSE @])
        PROVE  MembersInv'
    <3> DEFINE times == [told[g] EXCEPT ![h] = IF @ = 0 THEN 1 ELSE @]
    <3>1. Tell(g, times)
      BY <2>5
    <3> HIDE DEF times
    <3>2. CASE ~nhgTable'[g].used
      BY <2>1, <2>5, <3>1, <3>2, MemberOfOne, LostSound DEF MembersBase
    <3>3. CASE nhgTable'[g].used
      <4>1. told' = [told EXCEPT ![g] = times]
        BY <3>1, <3>3, ToldSo
      <4>2. told' = [told EXCEPT ![g][h] = IF @ = 0 THEN 1 ELSE @]
        BY <4>1 DEF times, MembersBase, MembersInv, Times
      <4> QED BY <2>1, <2>5, <3>3, <4>2, AddSound
    <3> QED BY <3>2, <3>3
  <2>6. ASSUME NEW h \in NhId, RemoveNextHopFromGroup(g, h),
               Tell(g, [told[g] EXCEPT ![h] = IF @ = 0 THEN 0 ELSE @ - 1])
        PROVE  MembersInv'
    <3> DEFINE times == [told[g] EXCEPT ![h] = IF @ = 0 THEN 0 ELSE @ - 1]
    <3>1. Tell(g, times)
      BY <2>6
    <3> HIDE DEF times
    <3>2. CASE ~nhgTable'[g].used
      BY <2>1, <2>6, <3>1, <3>2, MemberOfOne, LostSound DEF MembersBase
    <3>3. CASE nhgTable'[g].used
      <4>1. told' = [told EXCEPT ![g] = times]
        BY <3>1, <3>3, ToldSo
      <4>2. told' = [told EXCEPT ![g][h] = IF @ = 0 THEN 0 ELSE @ - 1]
        BY <4>1 DEF times, MembersBase, MembersInv, Times
      <4> QED BY <2>1, <2>6, <3>3, <4>2, RemoveSound
    <3> QED BY <3>2, <3>3
  <2> QED BY <2>2, <2>3, <2>4, <2>5, <2>6
<1>3. CASE UNCHANGED ecmpVars
  <2>1. UNCHANGED <<nhTable, nhgTable, ecmp, told, refused>>
    BY <1>3 DEF ecmpVars, nhgVars, vars
  <2>2. 0 \in NhgId
    BY NhgSizes DEF NhgId
  <2>3. /\ told' \in [NhgId -> Times]
        /\ \A o \in NhgId \ {0} : told'[o] = told[o]
        /\ OthersKept(0) /\ (InTold(0)' <=> InTold(0))
    BY <2>1 DEF MembersBase, MembersInv, OthersKept, InTold, Marked
  <2>4. InTold(0)' => /\ Sound(ecmp'[0].ref, told'[0]) /\ Spare(ecmp'[0].ref)
                      /\ nhgTable'[0].count = Cardinality(Taken(ecmp'[0].ref))
    BY <2>1, <2>2, <2>3, OneGroup
  <2> QED BY <1>3, <2>2, <2>3, <2>4, OtherGroupsSound DEF ecmpVars
<1> QED BY <1>1, <1>2, <1>3 DEF EcmpNext

\* The conditions on the client, the failures and the sizes are constant.
SoundClient == CarefulClient /\ CountersWide

\* Groups are as told at all times.
LEMMA MembersHold == EcmpSpec => [](SoundClient => MembersBase)
<1>1. EcmpInit => MembersInv
  BY FS_EmptySet DEF EcmpInit, NhgInit, MembersInv, InTold, NoGroup, NoHops,
                     BagOf, Times
<1>2. /\ EcmpInv /\ (GroupsReliable => HopsSound) /\ [EcmpNext]_ecmpVars
      /\ (SoundClient => MembersInv)
      => (SoundClient => MembersInv)'
  <2>1. SoundClient' = SoundClient
    BY DEF SoundClient, CarefulClient, CountersWide, GroupsReliable
  <2> QED BY <2>1, MembersStep DEF SoundClient, CarefulClient, MembersBase
<1>3. EcmpInv /\ (GroupsReliable => HopsSound) /\ (SoundClient => MembersInv)
      => (SoundClient => MembersBase)
  BY DEF SoundClient, CarefulClient, MembersBase
<1> QED
  BY <1>1, <1>2, <1>3, EcmpStart, EcmpStep, HopsAreSound, PTL DEF EcmpSpec

\* For any sizes and any failure of the group calls, with a client that keeps
\* members their neighbors: reading the list of a group in use gives back what
\* the client put in it, however often.
THEOREM ListsReadBack == EcmpSpec => [](SoundClient => ListAsTold)
<1>1. MembersBase => ListAsTold
  <2> SUFFICES ASSUME MembersBase, NEW g \in GroupsTold, NEW h \in NhId
               PROVE  HopCount(g, h) = told[g][h]
    BY DEF ListAsTold
  <2> DEFINE refs == ecmp[g].ref
             S == {b \in Members(g) : HopOf(refs[b]) = h}
  <2>1. told[g] \in Times /\ Sound(refs, told[g]) /\ Members(g) = Taken(refs)
    BY OneGroup, ToldGroups DEF Members, Taken
  <2>2. \A k \in NhId : Alive(k) =>
          HopOf(nhTable[k].nbr) = k /\ nhTable[k].nbr # NoBucket
    BY DEF MembersBase, HopsSound, Alive, UsedNbrs, HopOf, NbrId, NoBucket
  <2>3. ASSUME NEW b \in S
        PROVE  told[g][h] > 0 /\ b \in LeadTo(refs, nhTable[h].nbr)
    <3>1. PICK k \in NhId : told[g][k] > 0 /\ refs[b] = nhTable[k].nbr
      BY <2>1 DEF Sound
    <3>2. Alive(k)
      BY <2>1, <3>1 DEF Sound
    <3>3. k = h
      BY <2>2, <3>1, <3>2
    <3> QED BY <3>1, <3>3 DEF LeadTo, Members
  <2>4. CASE told[g][h] > 0
    <3>1. Alive(h) /\ Cardinality(LeadTo(refs, nhTable[h].nbr)) = told[g][h]
      BY <2>1, <2>4 DEF Sound
    <3>2. \A b \in LeadTo(refs, nhTable[h].nbr) : b \in S
      BY <2>1, <2>2, <3>1 DEF LeadTo, Taken
    <3>3. S = LeadTo(refs, nhTable[h].nbr)
      BY <2>3, <3>2
    <3> QED BY <3>1, <3>3 DEF HopCount
  <2>5. CASE ~(told[g][h] > 0)
    <3>1. S = {} /\ told[g][h] = 0
      BY <2>1, <2>3, <2>5 DEF Times
    <3> QED BY <3>1, FS_EmptySet DEF HopCount
  <2> QED BY <2>4, <2>5
<1> QED
  BY <1>1, MembersHold, PTL

\* For any sizes and any failure of the group calls, with such a client: the
\* counter of a group in use is the number of its buckets.
THEOREM CountersAreMembers == EcmpSpec => [](SoundClient => CountIsMembers)
<1>1. MembersBase => CountIsMembers
  <2> SUFFICES ASSUME MembersBase, NEW g \in GroupsTold
               PROVE  nhgTable[g].count = Cardinality(Members(g))
    BY DEF CountIsMembers
  <2> QED BY OneGroup, ToldGroups DEF Members, Taken
<1> QED
  BY <1>1, MembersHold, PTL

-----------------------------------------------------------------------------
(* Groups of the switch without a record.                                  *)

\* Who is orphaned in a step: a member of a full group is missing a bucket.
LEMMA OrphanStep ==
  ASSUME CarefulClient, MembersBase, [EcmpNext]_ecmpVars
  PROVE  OnlyFullOrphaned
<1>1. CASE UNCHANGED nhgVars
  BY <1>1 DEF OnlyFullOrphaned, Orphans, InSwitch, GroupsUsed, nhgVars
<1> SUFFICES ASSUME NextHopGroupApi PROVE OnlyFullOrphaned
  BY <1>1 DEF EcmpNext, L3Api, ecmpVars
<1>2. /\ nhgTable \in [NhgId -> [used : BOOLEAN, count : 0 .. CountMod - 1]]
      /\ ecmp \in [NhgId -> [exists : BOOLEAN, ref : Refs]]
  BY DEF MembersBase, EcmpInv, NhgTypeOK, Refs
<1>3. ASSUME NEW g \in NhgId,
             \A o \in NhgId \ {g} : nhgTable'[o] = nhgTable[o] /\ ecmp'[o] = ecmp[o],
             \/ ~ecmp'[g].exists \/ nhgTable'[g].used
             \/ ecmp'[g].exists = ecmp[g].exists /\ nhgTable'[g].used = nhgTable[g].used
      PROVE  OnlyFullOrphaned
  BY <1>3 DEF OnlyFullOrphaned, Orphans, InSwitch, GroupsUsed
<1>4. ASSUME NEW g \in NhgId, NEW left,
             nhgTable' = Forgotten(g) \/ UNCHANGED nhgTable,
             SwitchDeletes(g, left)
      PROVE  OnlyFullOrphaned
  <2>1. CASE <<g, "group">> \in refused'
    BY <1>2, <1>4, <2>1
       DEF OnlyFullOrphaned, Orphans, InSwitch, GroupsUsed, SwitchDeletes, Forgotten
  <2>2. CASE ecmp' = [ecmp EXCEPT ![g] = NotThere]
    BY <1>2, <1>3, <1>4, <2>2 DEF Forgotten, NotThere
  <2> QED BY <1>4, <2>1, <2>2 DEF SwitchDeletes
<1>11. ASSUME NEW g \in NhgId, nhgTable' = Forgotten(g), g \notin InSwitch, UNCHANGED ecmp
       PROVE  OnlyFullOrphaned
  BY <1>2, <1>3, <1>11 DEF Forgotten, InSwitch
<1>5. ASSUME NEW g \in NhgId, NEW list \in Lists, CreateNextHopGroup(g, list)
      PROVE  OnlyFullOrphaned
  <2>1. ASSUME NEW group, NEW record, record.used,
               ecmp' = [ecmp EXCEPT ![g] = group],
               nhgTable' = [nhgTable EXCEPT ![g] = record]
        PROVE  OnlyFullOrphaned
    BY <1>2, <1>3, <2>1
  <2>2. ASSUME NEW refs,
               ecmp' = [ecmp EXCEPT ![g] = [exists |-> TRUE, ref |-> Filled(refs)]],
               nhgTable' = [nhgTable EXCEPT ![g] = [used |-> TRUE, count |-> Len(list)]]
        PROVE  OnlyFullOrphaned
    <3> DEFINE record == [used |-> TRUE, count |-> Len(list)]
               group == [exists |-> TRUE, ref |-> Filled(refs)]
    <3>1. record.used /\ ecmp' = [ecmp EXCEPT ![g] = group]
          /\ nhgTable' = [nhgTable EXCEPT ![g] = record]
      BY <2>2
    <3> HIDE DEF record, group
    <3> QED BY <2>1, <3>1
  <2> QED BY <1>4, <1>5, <2>2 DEF CreateNextHopGroup
<1>6. ASSUME NEW g \in NhgId, NEW c, NEW refs,
             ecmp' = [ecmp EXCEPT ![g].ref = refs] \/ UNCHANGED ecmp,
             nhgTable' = [nhgTable EXCEPT ![g].count = c]
      PROVE  OnlyFullOrphaned
  BY <1>2, <1>3, <1>6
<1>7. ASSUME NEW g \in NhgId, RemoveNextHopGroup(g) PROVE OnlyFullOrphaned
  BY <1>4, <1>7, <1>11 DEF RemoveNextHopGroup
<1>8. ASSUME NEW g \in NhgId, NEW list \in Lists, SetNextHopList(g, list)
      PROVE  OnlyFullOrphaned
  <2>1. list # <<>>
    BY <1>8, CarefulList DEF SetNextHopList
  <2>2. CASE g \notin InSwitch
    BY <1>8, <1>11, <2>1, <2>2 DEF SetNextHopList, UpdateNothing
  <2>3. CASE g \in InSwitch
    BY <1>4, <1>6, <1>8, <2>1, <2>3 DEF SetNextHopList
  <2> QED BY <2>2, <2>3
<1>9. ASSUME NEW g \in NhgId, NEW h \in NhId, AddNextHop(g, h)
      PROVE  OnlyFullOrphaned
  <2> DEFINE n == nhTable[h].nbr
  <2>1. Alive(h) /\ n \in UsedNbrs
    BY <1>9, CarefulHop DEF AddNextHop, MembersBase, HopsSound
  <2>2. \A m \in RefsOf(h) : m = n /\ ~MayRefuse(m)
    BY <2>1, OneRef DEF MembersBase
  <2>3. CASE g \notin InSwitch /\ UpdateNothing(g)
    BY <1>11, <2>3 DEF UpdateNothing
  <2>4. CASE UNCHANGED ecmp /\ nhgTable' = [nhgTable EXCEPT ![g].count = CountedUp(g, TRUE)]
    BY <1>6, <2>4
  <2>5. ASSUME NEW b \in Gap(g), ecmp' = [ecmp EXCEPT ![g].ref[b] = n],
               nhgTable' = [nhgTable EXCEPT ![g].count = CountedUp(g, FALSE)]
        PROVE  OnlyFullOrphaned
    <3> DEFINE refs == [ecmp[g].ref EXCEPT ![b] = n]
    <3>1. ecmp' = [ecmp EXCEPT ![g].ref = refs]
      BY <1>2, <2>5
    <3> HIDE DEF refs
    <3> QED BY <1>6, <2>5, <3>1
  <2>6. CASE g \in InSwitch /\ ~HasRef(g, n) /\ Gap(g) = {} /\ UpdateNothing(g)
    <3>1. \A o \in Orphans' \ Orphans : o = g /\ g \in GroupsUsed
      BY <1>2, <2>6 DEF Orphans, InSwitch, GroupsUsed, UpdateNothing, Forgotten, NoGroup
    <3>2. Members(g) = Bucket
      BY <2>6, GapWhenNotFull
    <3> QED BY <2>1, <2>6, <3>1, <3>2 DEF OnlyFullOrphaned
  <2>7. CASE SwitchDeletes(g, ecmp[g]) /\ nhgTable' = Forgotten(g)
    BY <1>4, <2>7
  <2> QED BY <1>9, <2>2, <2>3, <2>4, <2>5, <2>6, <2>7 DEF AddNextHop
<1>10. ASSUME NEW g \in NhgId, NEW h \in NhId, RemoveNextHopFromGroup(g, h)
       PROVE  OnlyFullOrphaned
  <2>1. Alive(h)
    BY <1>10, CarefulHop DEF RemoveNextHopFromGroup
  <2>2. \A m \in RefsOf(h) : ~MayRefuse(m)
    BY <2>1, OneRef DEF MembersBase
  <2>3. CASE g \notin InSwitch /\ UpdateNothing(g)
    BY <1>11, <2>3 DEF UpdateNothing
  <2>4. ASSUME NEW n \in RefsOf(h),
               ecmp' = BucketDeleted(g, n) \/ UNCHANGED ecmp,
               nhgTable' = [nhgTable EXCEPT ![g].count = (@ - 1) % CountMod]
        PROVE  OnlyFullOrphaned
    <3> DEFINE refs == [ecmp[g].ref EXCEPT ![FirstOf(g, n)] = NoBucket]
               c == (nhgTable[g].count - 1) % CountMod
    <3>1. ecmp' = [ecmp EXCEPT ![g].ref = refs] \/ UNCHANGED ecmp
      BY <1>2, <2>4 DEF BucketDeleted
    <3>2. nhgTable' = [nhgTable EXCEPT ![g].count = c]
      BY <2>4
    <3> HIDE DEF refs, c
    <3> QED BY <1>6, <3>1, <3>2
  <2> QED BY <1>10, <2>2, <2>3, <2>4 DEF RemoveNextHopFromGroup
<1> QED BY <1>5, <1>7, <1>8, <1>9, <1>10 DEF NextHopGroupApi

\* For any sizes and any failure: of a careful client's calls, the only ones
\* that leave a group in the switch without its record are those of which the
\* switch refused to delete it, and the addition of a next hop with a new
\* neighbor to a group that is full.
THEOREM OnlyFullGroupsAreOrphaned ==
  EcmpSpec => (SoundClient => OnlyFullGroupsAreLeft)
<1>1. SoundClient /\ MembersBase /\ [EcmpNext]_ecmpVars => [OnlyFullOrphaned]_ecmpVars
  BY OrphanStep DEF SoundClient
<1>2. SoundClient => SoundClient'
  BY DEF SoundClient, CarefulClient, CountersWide, GroupsReliable
<1> QED
  BY <1>1, <1>2, MembersHold, PTL DEF EcmpSpec, OnlyFullGroupsAreLeft

\* There is room in a group for a list as long as the adapter takes it, and a
\* bucket for each neighbor that is not on it.
RoomForNeighbors == MaxMembers + NumNbr - 1 <= NumBuckets

\* Deletions in groups do not fail, but for that of all their buckets.
DeletionsWork == "group" \notin EcmpFaults /\ "bucket" \notin EcmpFaults

\* No group of the switch is without its record.
NoOrphanGroups == InSwitch \subseteq GroupsUsed

\* Nothing is refused then, and no other group is marked.
LEMMA NothingRefused == EcmpSpec => [](DeletionsWork => refused = {})
<1>1. EcmpInit => refused = {}
  BY DEF EcmpInit, NhgInit
<1>2. (DeletionsWork => refused = {}) /\ [EcmpNext]_ecmpVars
      => (DeletionsWork => refused = {})'
  <2> SUFFICES ASSUME DeletionsWork, refused = {}, [EcmpNext]_ecmpVars
               PROVE  refused' = {}
    BY DEF DeletionsWork
  <2>1. CASE UNCHANGED nhgVars
    BY <2>1 DEF nhgVars
  <2>2. ASSUME NEW g, NEW left, SwitchDeletes(g, left) PROVE refused' = {}
    BY <2>2 DEF SwitchDeletes, DeletionsWork
  <2>3. ASSUME NEW g, NEW list,
               CreateNextHopGroup(g, list) \/ SetNextHopList(g, list)
        PROVE  refused' = {}
    BY <2>2, <2>3 DEF CreateNextHopGroup, SetNextHopList, UpdateNothing
  <2>4. ASSUME NEW g, RemoveNextHopGroup(g) PROVE refused' = {}
    BY <2>2, <2>4 DEF RemoveNextHopGroup
  <2>5. ASSUME NEW g, NEW h, AddNextHop(g, h) \/ RemoveNextHopFromGroup(g, h)
        PROVE  refused' = {}
    BY <2>2, <2>5
       DEF AddNextHop, RemoveNextHopFromGroup, UpdateNothing, DeletionsWork
  <2> QED
    BY <2>1, <2>3, <2>4, <2>5 DEF EcmpNext, L3Api, NextHopGroupApi, ecmpVars
<1> QED
  BY <1>1, <1>2, PTL DEF EcmpSpec

\* A group that is full has a bucket for every neighbor then.
LEMMA FullHasAll ==
  ASSUME RoomForNeighbors, MembersBase, NEW g \in NhgId, InTold(g),
         Members(g) = Bucket, NEW n \in UsedNbrs, ~HasRef(g, n)
  PROVE  FALSE
<1> DEFINE refs == ecmp[g].ref
<1>1. /\ Spare(refs) /\ Targets(refs) \subseteq NbrId /\ Taken(refs) = Bucket
  BY OneGroup DEF Members, Taken
<1>2. n \in NbrId /\ n \notin Targets(refs)
  BY DEF UsedNbrs, Targets, Taken, HasRef
<1> HIDE DEF refs
<1>3. IsFiniteSet(Targets(refs)) /\ Cardinality(Targets(refs)) \in Nat
  BY <1>1, NeighborsFinite
<1>4. Cardinality(Targets(refs) \cup {n}) <= NumNbr
  BY <1>1, <1>2, NeighborsFinite
<1>5. Cardinality(Targets(refs) \cup {n}) = Cardinality(Targets(refs)) + 1
  BY <1>2, <1>3, FS_AddElement
<1>6. Cardinality(Bucket) = NumBuckets
  <2>1. 0 \in Int /\ NumBuckets - 1 \in Int /\ ~(0 > NumBuckets - 1)
        /\ (NumBuckets - 1) - 0 + 1 = NumBuckets
    BY NhgSizes
  <2> QED BY <2>1, FS_Interval DEF Bucket
<1>7. NumBuckets <= MaxMembers - 1 + Cardinality(Targets(refs))
  BY <1>1, <1>6 DEF Spare
<1> QED BY <1>3, <1>4, <1>5, <1>7, NhgSizes, TableSizes DEF RoomForNeighbors

\* The conditions under which no group is left behind.
NothingLeft == SoundClient /\ DeletionsWork /\ RoomForNeighbors

\* For any sizes that leave room for the neighbors, a careful client and
\* deletions that work: no group of the switch is without its record, although
\* an update may fail when it deletes the buckets of a group.
THEOREM NoGroupIsOrphaned == EcmpSpec => [](NothingLeft => NoOrphanGroups)
<1>1. EcmpInit => NoOrphanGroups
  BY DEF EcmpInit, NhgInit, NoOrphanGroups, InSwitch, NotThere
<1>2. /\ (SoundClient => MembersBase) /\ (DeletionsWork => refused = {})
      /\ (DeletionsWork => refused = {})'
      /\ [EcmpNext]_ecmpVars /\ (NothingLeft => NoOrphanGroups)
      => (NothingLeft => NoOrphanGroups)'
  <2> SUFFICES ASSUME SoundClient => MembersBase, DeletionsWork => refused = {},
                      (DeletionsWork => refused = {})', [EcmpNext]_ecmpVars,
                      NothingLeft => NoOrphanGroups, NothingLeft',
                      NEW g \in Orphans'
               PROVE  FALSE
    BY DEF NoOrphanGroups, Orphans
  <2>1. NothingLeft
    BY DEF NothingLeft, SoundClient, CarefulClient, CountersWide, GroupsReliable,
           DeletionsWork, RoomForNeighbors
  <2>2. g \notin Orphans /\ refused = {} /\ refused' = {}
    BY <2>1 DEF NoOrphanGroups, Orphans, NothingLeft, DeletionsWork
  <2>3. OnlyFullOrphaned /\ MembersBase
    BY <2>1, OrphanStep DEF NothingLeft, SoundClient
  <2>4. /\ g \in GroupsUsed /\ Members(g) = Bucket
        /\ \E n \in UsedNbrs : ~HasRef(g, n)
    BY <2>2, <2>3 DEF OnlyFullOrphaned
  <2>5. g \in NhgId /\ InTold(g)
    BY <2>2, <2>4 DEF GroupsUsed, InTold, Marked
  <2> QED BY <2>1, <2>3, <2>4, <2>5, FullHasAll DEF NothingLeft
<1> QED
  BY <1>1, <1>2, MembersHold, NothingRefused, PTL DEF EcmpSpec

\* For any sizes and any failure: as long as the client keeps the neighbors of
\* members, no bucket of a group in use hands packets to a neighbor that has
\* gone.
THEOREM BucketsLeadToNeighbors == EcmpSpec => [](SoundClient => BucketsLeadSomewhere)
<1>1. MembersBase => BucketsLeadSomewhere
  <2> SUFFICES ASSUME MembersBase, NEW g \in GroupsTold, NEW b \in Members(g)
               PROVE  ecmp[g].ref[b] \in UsedNbrs \cap l3Group
    BY DEF BucketsLeadSomewhere
  <2>1. Sound(ecmp[g].ref, told[g]) /\ b \in Taken(ecmp[g].ref)
    BY OneGroup, ToldGroups DEF Members, Taken
  <2>2. PICK h \in NhId : told[g][h] > 0 /\ ecmp[g].ref[b] = nhTable[h].nbr
    BY <2>1 DEF Sound
  <2>3. Alive(h)
    BY <2>1, <2>2 DEF Sound
  <2> QED BY <2>2, <2>3 DEF MembersBase, HopsSound
<1> QED
  BY <1>1, MembersHold, PTL

=============================================================================
