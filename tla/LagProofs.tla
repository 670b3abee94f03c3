------------------------------ MODULE LagProofs ------------------------------
(***************************************************************************)
(* What TLAPS proves of Lag, for any number of LAGs and ports, any client  *)
(* and any of the failures the model knows.                                *)
(***************************************************************************)
EXTENDS Lag, FiniteSetTheorems, TLAPS

\* A set of ports is finite, and no larger than the sets that contain it.
LEMMA PortSets ==
  ASSUME NEW S \in SUBSET Port, NEW R \in SUBSET S
  PROVE  /\ IsFiniteSet(S) /\ Cardinality(S) \in Nat
         /\ Cardinality(R) \in Nat /\ Cardinality(R) <= Cardinality(S)
  BY LagSizes, FS_Subset, FS_CardinalityType

\* Logical operators leave nothing of a LAG's id but that it is not 0: the
\* members of every LAG are named as members of LAG 1.
LEMMA AllNamedFirst ==
  ASSUME NEW l \in LagId PROVE LagNamed(l) = 1 /\ 1 \in LagId
<1>1. l \in Nat /\ l # 0 /\ NumLag \in Nat \ {0}
  BY LagSizes DEF LagId
<1>2. LowByte(l) = 1
  BY <1>1 DEF LowByte, Truth
<1>3. HighByte(l) = 0 \/ HighByte(l) = 1
  BY DEF HighByte, Truth
<1>4. 1 \in LagId
  BY <1>1 DEF LagId
<1> QED
  BY <1>2, <1>3, <1>4 DEF LagNamed, LagOfBytes, Truth

\* The type of the table, for the updates that members make to it.
LagTableType == [LagId -> [used : BOOLEAN, counter : 0 .. CounterMod - 1]]

\* Counting up or down and disowning keep the table typed, and neither puts
\* a LAG in use nor touches another LAG.
LEMMA TableUpdates ==
  ASSUME TypeOK, NEW l \in LagId, NEW n \in Int
  PROVE  /\ Counted(l, n) \in LagTableType /\ Disowned(l) \in LagTableType
         /\ \A k \in LagId : /\ Counted(l, n)[k].used = lagTable[k].used
                             /\ Disowned(l)[k].used => lagTable[k].used
         /\ ~Disowned(l)[l].used
         /\ \A k \in LagId \ {l} : /\ Counted(l, n)[k] = lagTable[k]
                                   /\ Disowned(l)[k] = lagTable[k]
         /\ Counted(l, n)[l].counter = (lagTable[l].counter + n) % CounterMod
<1>1. lagTable \in LagTableType
  BY DEF TypeOK, LagTableType
<1>2. (lagTable[l].counter + n) % CounterMod \in 0 .. CounterMod - 1
  BY <1>1, LagSizes DEF LagTableType
<1>3. NoLag \in [used : BOOLEAN, counter : 0 .. CounterMod - 1]
  BY LagSizes DEF NoLag
<1>4. Counted(l, n) \in LagTableType
  BY <1>1, <1>2 DEF Counted, LagTableType
<1>5. Disowned(l) \in LagTableType
  BY <1>1, <1>3 DEF Disowned, LagTableType
<1> QED
  BY <1>1, <1>4, <1>5 DEF Counted, Disowned, LagTableType, NoLag

\* The table and the groups of a state are as TypeOK says.
GroupsOK(g, b) ==
  /\ g \subseteq LagId
  /\ b \in [LagId -> SUBSET Port]
  /\ \A l \in LagId : Cardinality(b[l]) <= MaxMembers /\ (l \notin g => b[l] = {})

LEMMA TypeParts ==
  TypeOK <=> /\ lagTable \in LagTableType /\ GroupsOK(groups, buckets)
             /\ told \subseteq LagId \X Port
  BY DEF TypeOK, LagTableType, GroupsOK

\* Taking ports out of a group, and deleting a group with what is in it,
\* leave good groups.
LEMMA GroupUpdates ==
  ASSUME NEW g, NEW b, GroupsOK(g, b), NEW l \in LagId, NEW P
  PROVE  /\ GroupsOK(g, [b EXCEPT ![l] = @ \ P])
         /\ GroupsOK(g \ {l}, [b EXCEPT ![l] = {}])
<1>1. /\ b[l] \ P \in SUBSET b[l]
      /\ b[l] \in SUBSET Port /\ MaxMembers \in Nat
  BY LagSizes DEF GroupsOK
<1>2. Cardinality(b[l] \ P) <= MaxMembers
  <2>1. /\ Cardinality(b[l] \ P) <= Cardinality(b[l])
        /\ Cardinality(b[l]) \in Nat
        /\ Cardinality(b[l] \ P) \in Nat
    BY <1>1, PortSets
  <2>2. Cardinality(b[l]) <= MaxMembers
    BY DEF GroupsOK
  <2> QED
    BY <1>1, <2>1, <2>2
<1>3. Cardinality({}) <= MaxMembers
  BY <1>1, FS_EmptySet
<1>4. GroupsOK(g, [b EXCEPT ![l] = @ \ P])
  BY <1>1, <1>2 DEF GroupsOK
<1>5. GroupsOK(g \ {l}, [b EXCEPT ![l] = {}])
  BY <1>3 DEF GroupsOK
<1> QED
  BY <1>4, <1>5

-----------------------------------------------------------------------------
(* What each call does.                                                    *)

\* A port that is not in a group with room makes it larger by one.
LEMMA OneMore ==
  ASSUME TypeOK, NEW l \in LagId, NEW p \in Port, p \notin buckets[l],
         Cardinality(buckets[l]) < MaxMembers
  PROVE  /\ Cardinality(buckets[l] \cup {p}) = Cardinality(buckets[l]) + 1
         /\ Cardinality(buckets[l]) + 1 <= MaxMembers
         /\ Cardinality(buckets[l]) \in Nat
<1>1. buckets[l] \in SUBSET Port
  BY DEF TypeOK
<1>2. IsFiniteSet(buckets[l]) /\ Cardinality(buckets[l]) \in Nat
  BY <1>1, PortSets
<1>3. Cardinality(buckets[l] \cup {p}) = Cardinality(buckets[l]) + 1
  BY <1>2, FS_AddElement
<1> QED
  BY <1>2, <1>3, LagSizes

\* Adding a member keeps table and groups typed; it puts no LAG in use and
\* deletes no group of a LAG that stays in use.
LEMMA AddedEffect ==
  ASSUME TypeOK, NEW l \in LagId, NEW p \in Port, Added(l, p)
  PROVE  /\ lagTable' \in LagTableType /\ GroupsOK(groups', buckets')
         /\ \A k \in LagId : lagTable'[k].used =>
              lagTable[k].used /\ (k \in groups => k \in groups')
<1>1. lagTable \in LagTableType /\ GroupsOK(groups, buckets)
  BY TypeParts
<1>2. CASE UNCHANGED <<lagTable, groups, buckets>>
  BY <1>1, <1>2
<1>3. CASE /\ l \in groups /\ p \notin buckets[l]
           /\ Cardinality(buckets[l]) < MaxMembers
           /\ buckets' = [buckets EXCEPT ![l] = @ \cup {p}]
           /\ lagTable' = Counted(l, 1)
           /\ UNCHANGED groups
  <2>1. Cardinality(buckets[l] \cup {p}) <= MaxMembers
    BY <1>3, OneMore
  <2>2. GroupsOK(groups', buckets')
    BY <1>1, <1>3, <2>1 DEF GroupsOK
  <2> QED
    BY <1>3, <2>2, TableUpdates
<1>4. CASE lagTable' = Disowned(l) /\ UNCHANGED <<groups, buckets>>
  <2>1. /\ Disowned(l) \in LagTableType
        /\ \A k \in LagId : Disowned(l)[k].used => lagTable[k].used
    BY TableUpdates
  <2> QED
    BY <1>1, <1>4, <2>1
<1>5. CASE /\ groups' = groups \ {l}
           /\ buckets' = [buckets EXCEPT ![l] = {}]
           /\ lagTable' = Disowned(l)
  <2>1. /\ Disowned(l) \in LagTableType /\ ~Disowned(l)[l].used
        /\ \A k \in LagId : Disowned(l)[k].used => lagTable[k].used
    BY TableUpdates
  <2> QED
    BY <1>1, <1>5, <2>1, GroupUpdates
<1> QED
  BY <1>2, <1>3, <1>4, <1>5 DEF Added

\* Removing a member changes LAG 1 alone, whichever LAG the member is of.
LEMMA RemoveLagMemberEffect ==
  ASSUME TypeOK, NEW l \in LagId, NEW p \in Port, RemoveLagMember(l, p)
  PROVE  /\ \E n \in Int : lagTable' = Counted(1, n) \/ lagTable' = Disowned(1)
         /\ \E P : buckets' = [buckets EXCEPT ![1] = @ \ P]
         /\ UNCHANGED groups /\ told' \subseteq told
<1>1. LagNamed(l) = 1 /\ 1 \in LagId
  BY AllNamedFirst
<1>2. buckets = [buckets EXCEPT ![1] = @ \ {}]
  BY <1>1 DEF TypeOK
<1>3. -1 \in Int
  OBVIOUS
<1> QED
  BY <1>1, <1>2, <1>3 DEF RemoveLagMember, Without

\* Removing a LAG takes members from LAG 1, whichever LAG it is; if it gets
\* to the end, it clears the slot and deletes the group.
LEMMA RemoveLagEffect ==
  ASSUME TypeOK, NEW l \in LagId, RemoveLag(l)
  PROVE  \E n \in Int, P \in SUBSET Port : LET left == [buckets EXCEPT ![1] = @ \ P] IN
           \/ /\ lagTable' \in {lagTable, Counted(1, n), Disowned(1)}
              /\ buckets' = left /\ UNCHANGED <<groups, told>>
           \/ \E table \in {lagTable, Counted(1, n)} : GroupDropped(l, table, left)
<1>1. LagNamed(l) = 1 /\ 1 \in LagId
  BY AllNamedFirst
<1>2. PICK Listed \in SUBSET buckets[l], Stale \in SUBSET Port :
        LET tried == Cardinality(Listed) + Cardinality(Stale)
            n == lagTable[l].counter
        IN
        \/ /\ \E Done \in SUBSET (Listed \cup Stale) :
                buckets' = Without(LagNamed(l), Done)
           /\ lagTable' = Disowned(LagNamed(l))
           /\ UNCHANGED <<groups, told>>
        \/ \E Kept \in SUBSET (Listed \cup Stale) :
             LET left  == Without(LagNamed(l), (Listed \cup Stale) \ Kept)
                 table == IF tried > 0 THEN Counted(LagNamed(l), -tried) ELSE lagTable
             IN \/ GroupDropped(l, table, left)
                \/ lagTable' = table /\ buckets' = left /\ UNCHANGED <<groups, told>>
  BY Zenon DEF RemoveLag
<1> DEFINE tried == Cardinality(Listed) + Cardinality(Stale)
<1>3. Listed \in SUBSET Port
  BY DEF TypeOK
<1>4. -tried \in Int
  BY <1>3, PortSets
<1> HIDE DEF tried
<1>5. CASE /\ \E Done \in SUBSET (Listed \cup Stale) :
                buckets' = Without(LagNamed(l), Done)
           /\ lagTable' = Disowned(LagNamed(l))
           /\ UNCHANGED <<groups, told>>
  <2>1. PICK Done \in SUBSET (Listed \cup Stale) : buckets' = Without(1, Done)
    BY <1>1, <1>5
  <2>2. Done \in SUBSET Port /\ 0 \in Int
    BY <1>3
  <2> QED
    BY <1>1, <1>5, <2>1, <2>2 DEF Without
<1>6. ASSUME NEW Kept \in SUBSET (Listed \cup Stale),
             LET left  == Without(LagNamed(l), (Listed \cup Stale) \ Kept)
                 table == IF tried > 0 THEN Counted(LagNamed(l), -tried) ELSE lagTable
             IN \/ GroupDropped(l, table, left)
                \/ lagTable' = table /\ buckets' = left /\ UNCHANGED <<groups, told>>
      PROVE  \E P \in SUBSET Port : LET left == [buckets EXCEPT ![1] = @ \ P] IN
               \/ /\ lagTable' \in {lagTable, Counted(1, -tried), Disowned(1)}
                  /\ buckets' = left /\ UNCHANGED <<groups, told>>
               \/ \E table \in {lagTable, Counted(1, -tried)} :
                    GroupDropped(l, table, left)
  <2>1. (Listed \cup Stale) \ Kept \in SUBSET Port
    BY <1>3
  <2> WITNESS (Listed \cup Stale) \ Kept \in SUBSET Port
  <2> QED
    BY <1>1, <1>6 DEF Without
<1> QED
  BY <1>2, <1>4, <1>5, <1>6 DEF tried

-----------------------------------------------------------------------------
(* Theorems.                                                               *)

\* One step of any call keeps TypeOK.
LEMMA TypeStep == TypeOK /\ [Next]_lagVars => TypeOK'
<1> SUFFICES ASSUME TypeOK, [Next]_lagVars PROVE TypeOK'
  OBVIOUS
<1>1. /\ lagTable \in LagTableType /\ GroupsOK(groups, buckets)
      /\ told \subseteq LagId \X Port
  BY TypeParts
<1>2. ASSUME /\ lagTable' \in LagTableType /\ GroupsOK(groups', buckets')
             /\ told' \subseteq LagId \X Port
      PROVE  TypeOK'
  BY <1>2 DEF TypeOK, LagTableType, GroupsOK
<1>3. CASE UNCHANGED lagVars
  BY <1>1, <1>2, <1>3 DEF lagVars
<1>4. ASSUME NEW l \in LagId, CreateLag(l) PROVE TypeOK'
  <2>1. [used |-> TRUE, counter |-> 0]
          \in [used : BOOLEAN, counter : 0 .. CounterMod - 1]
    BY LagSizes
  <2>2. lagTable' \in LagTableType
    BY <1>1, <1>4, <2>1 DEF CreateLag, LagTableType
  <2>3. Cardinality({}) <= MaxMembers
    BY FS_EmptySet, LagSizes
  <2>4. GroupsOK(groups', buckets')
    BY <1>1, <1>4, <2>3 DEF CreateLag, GroupsOK
  <2> QED
    BY <1>1, <1>2, <1>4, <2>2, <2>4 DEF CreateLag
<1>5. ASSUME NEW l \in LagId, NEW p \in Port, CreateLagMember(l, p) PROVE TypeOK'
  <2>1. lagTable' \in LagTableType /\ GroupsOK(groups', buckets')
    BY <1>5, AddedEffect DEF CreateLagMember
  <2> QED
    BY <1>1, <1>2, <1>5, <2>1 DEF CreateLagMember
<1>6. ASSUME NEW l \in LagId, NEW p \in Port, RemoveLagMember(l, p) PROVE TypeOK'
  <2>1. 1 \in LagId
    BY AllNamedFirst
  <2>2. PICK n \in Int : lagTable' = Counted(1, n) \/ lagTable' = Disowned(1)
    BY <1>6, RemoveLagMemberEffect
  <2>3. PICK P : buckets' = [buckets EXCEPT ![1] = @ \ P]
    BY <1>6, RemoveLagMemberEffect
  <2>4. lagTable' \in LagTableType
    <3>1. Counted(1, n) \in LagTableType /\ Disowned(1) \in LagTableType
      BY <2>1, TableUpdates
    <3> QED
      BY <2>2, <3>1
  <2>5. UNCHANGED groups /\ told' \subseteq told
    BY <1>6, RemoveLagMemberEffect
  <2>6. GroupsOK(groups', buckets')
    BY <1>1, <2>1, <2>3, <2>5, GroupUpdates
  <2> QED
    BY <1>1, <1>2, <2>4, <2>5, <2>6
<1>7. ASSUME NEW l \in LagId, RemoveLag(l) PROVE TypeOK'
  <2>1. 1 \in LagId
    BY AllNamedFirst
  <2>2. PICK n \in Int, P \in SUBSET Port :
          LET left == [buckets EXCEPT ![1] = @ \ P] IN
          \/ /\ lagTable' \in {lagTable, Counted(1, n), Disowned(1)}
             /\ buckets' = left /\ UNCHANGED <<groups, told>>
          \/ \E table \in {lagTable, Counted(1, n)} : GroupDropped(l, table, left)
    BY <1>7, RemoveLagEffect
  <2> DEFINE left == [buckets EXCEPT ![1] = @ \ P]
  <2>3. {lagTable, Counted(1, n), Disowned(1)} \subseteq LagTableType
    BY <1>1, <2>1, TableUpdates
  <2>4. GroupsOK(groups, left)
    BY <1>1, <2>1, GroupUpdates
  <2>5. GroupsOK(groups \ {l}, [left EXCEPT ![l] = {}])
    BY <2>4, GroupUpdates
  <2> HIDE DEF left
  <2>6. CASE /\ lagTable' \in {lagTable, Counted(1, n), Disowned(1)}
             /\ buckets' = left /\ UNCHANGED <<groups, told>>
    BY <1>1, <1>2, <2>3, <2>4, <2>6
  <2>7. ASSUME NEW table \in {lagTable, Counted(1, n)}, GroupDropped(l, table, left)
        PROVE  TypeOK'
    <3>1. NoLag \in [used : BOOLEAN, counter : 0 .. CounterMod - 1]
      BY LagSizes DEF NoLag
    <3>2. lagTable' \in LagTableType
      BY <2>3, <2>7, <3>1 DEF GroupDropped, LagTableType
    <3> QED
      BY <1>1, <1>2, <2>5, <2>7, <3>2 DEF GroupDropped
  <2> QED
    BY <2>2, <2>6, <2>7 DEF left
<1> QED
  BY <1>3, <1>4, <1>5, <1>6, <1>7 DEF Next, LagApi, LagMemberApi

\* The LAG table, its counters, the groups and the client's members keep
\* their shape: counters stay in their width although they wrap, and no
\* group is filled beyond what the switch has room for.
THEOREM LagTypeCorrect == Spec => []TypeOK
<1>1. Init => TypeOK
  <2>1. Cardinality({}) <= MaxMembers
    BY FS_EmptySet, LagSizes
  <2> QED
    BY <2>1, LagSizes DEF Init, TypeOK, NoLag
<1> QED
  BY <1>1, TypeStep, PTL DEF Spec

\* A step of any call keeps the group of every LAG that stays in use.
LEMMA UsedHasGroupStep ==
  ASSUME TypeOK, UsedHasGroup, [Next]_lagVars PROVE UsedHasGroup'
<1>1. CASE UNCHANGED lagVars
  BY <1>1 DEF lagVars, UsedHasGroup, UsedLags
<1>2. ASSUME NEW l \in LagId, CreateLag(l) PROVE UsedHasGroup'
  BY <1>2 DEF CreateLag, UsedHasGroup, UsedLags, TypeOK
<1>3. ASSUME NEW l \in LagId, NEW p \in Port, CreateLagMember(l, p)
      PROVE  UsedHasGroup'
  <2>1. \A k \in LagId : lagTable'[k].used =>
          lagTable[k].used /\ (k \in groups => k \in groups')
    BY <1>3, AddedEffect DEF CreateLagMember
  <2> QED
    BY <2>1 DEF UsedHasGroup, UsedLags
<1>4. 1 \in LagId
  BY LagSizes DEF LagId
<1>5. ASSUME NEW n \in Int, NEW k \in LagId,
             NEW table \in {lagTable, Counted(1, n), Disowned(1)}, table[k].used
      PROVE  lagTable[k].used
  <2>1. /\ Counted(1, n)[k].used = lagTable[k].used
        /\ Disowned(1)[k].used => lagTable[k].used
    BY <1>4, TableUpdates
  <2> QED
    BY <1>5, <2>1
<1>6. ASSUME NEW l \in LagId, NEW p \in Port, RemoveLagMember(l, p)
      PROVE  UsedHasGroup'
  <2>1. PICK n \in Int : lagTable' = Counted(1, n) \/ lagTable' = Disowned(1)
    BY <1>6, RemoveLagMemberEffect
  <2>2. UNCHANGED groups
    BY <1>6, RemoveLagMemberEffect
  <2> QED
    BY <1>5, <2>1, <2>2 DEF UsedHasGroup, UsedLags
<1>7. ASSUME NEW l \in LagId, RemoveLag(l) PROVE UsedHasGroup'
  <2>1. PICK n \in Int, P \in SUBSET Port :
          LET left == [buckets EXCEPT ![1] = @ \ P] IN
          \/ /\ lagTable' \in {lagTable, Counted(1, n), Disowned(1)}
             /\ buckets' = left /\ UNCHANGED <<groups, told>>
          \/ \E table \in {lagTable, Counted(1, n)} : GroupDropped(l, table, left)
    BY <1>7, RemoveLagEffect
  <2>2. CASE /\ lagTable' \in {lagTable, Counted(1, n), Disowned(1)}
             /\ UNCHANGED <<groups, told>>
    BY <1>5, <2>2 DEF UsedHasGroup, UsedLags
  <2>3. ASSUME NEW table \in {lagTable, Counted(1, n)},
               lagTable' = [table EXCEPT ![l] = NoLag], groups' = groups \ {l}
        PROVE  UsedHasGroup'
    <3>1. table \in LagTableType
      BY <1>4, <2>3, TableUpdates, TypeParts
    <3>2. \A k \in LagId : lagTable'[k].used => k # l /\ table[k].used
      BY <2>3, <3>1 DEF LagTableType, NoLag
    <3> QED
      BY <1>5, <2>3, <3>2 DEF UsedHasGroup, UsedLags
  <2> QED
    BY <2>1, <2>2, <2>3 DEF GroupDropped
<1> QED
  BY <1>1, <1>2, <1>3, <1>6, <1>7 DEF Next, LagApi, LagMemberApi

\* Whichever fpaLib calls fail, a LAG in use has its group in the switch.
THEOREM UsedLagsHaveGroups == Spec => []UsedHasGroup
<1>1. Init => UsedHasGroup
  BY DEF Init, UsedHasGroup, UsedLags, NoLag
<1> QED
  BY <1>1, LagTypeCorrect, UsedHasGroupStep, PTL DEF Spec

\* A step of any call keeps the counters of all LAGs but the first exact.
LEMMA OtherLagsCountedStep ==
  ASSUME TypeOK, OtherLagsCounted, [Next]_lagVars PROVE OtherLagsCounted'
<1> SUFFICES ASSUME NEW k \in LagId \ {1}, lagTable'[k].used
             PROVE  lagTable'[k].counter = Cardinality(buckets'[k])
  BY DEF OtherLagsCounted, Counts
<1>1. 1 \in LagId
  BY AllNamedFirst
<1>2. lagTable[k].used => lagTable[k].counter = Cardinality(buckets[k])
  BY DEF OtherLagsCounted, Counts
<1>3. ASSUME lagTable'[k] = lagTable[k], buckets'[k] = buckets[k]
      PROVE  lagTable'[k].counter = Cardinality(buckets'[k])
  BY <1>2, <1>3
<1>4. lagTable \in LagTableType /\ buckets \in [LagId -> SUBSET Port]
  BY TypeParts DEF GroupsOK
<1>5. CASE UNCHANGED lagVars
  BY <1>3, <1>5 DEF lagVars
<1>6. ASSUME NEW l \in LagId, CreateLag(l)
      PROVE  lagTable'[k].counter = Cardinality(buckets'[k])
  <2>1. CASE k = l
    BY <1>4, <1>6, <2>1, FS_EmptySet DEF CreateLag, LagTableType
  <2>2. CASE k # l
    BY <1>3, <1>4, <1>6, <2>2 DEF CreateLag, LagTableType
  <2> QED
    BY <2>1, <2>2
<1>7. ASSUME NEW l \in LagId, NEW p \in Port, CreateLagMember(l, p)
      PROVE  lagTable'[k].counter = Cardinality(buckets'[k])
  <2>1. CASE k # l
    <3>1. lagTable'[k] = lagTable[k]
      BY <1>7, <2>1, TableUpdates DEF CreateLagMember, Added
    <3>2. buckets'[k] = buckets[k]
      BY <1>4, <1>7, <2>1 DEF CreateLagMember, Added
    <3> QED
      BY <1>3, <3>1, <3>2
  <2>2. CASE k = l /\ UNCHANGED <<lagTable, buckets>>
    BY <1>3, <2>2
  <2>3. CASE k = l /\ lagTable' = Disowned(l)
    BY <2>3, TableUpdates
  <2>4. CASE /\ k = l /\ p \notin buckets[l]
             /\ Cardinality(buckets[l]) < MaxMembers
             /\ buckets' = [buckets EXCEPT ![l] = @ \cup {p}]
             /\ lagTable' = Counted(l, 1)
    <3>1. lagTable[l].used
      BY <2>4, TableUpdates
    <3>2. /\ Cardinality(buckets[l] \cup {p}) = Cardinality(buckets[l]) + 1
          /\ Cardinality(buckets[l]) + 1 <= MaxMembers
          /\ Cardinality(buckets[l]) \in Nat
      BY <2>4, OneMore
    <3>3. lagTable'[l].counter = (Cardinality(buckets[l]) + 1) % CounterMod
      BY <1>2, <2>4, <3>1, TableUpdates
    <3>4. (Cardinality(buckets[l]) + 1) % CounterMod = Cardinality(buckets[l]) + 1
      BY <3>2, LagSizes
    <3> QED
      BY <1>4, <2>4, <3>2, <3>3, <3>4
  <2> QED
    BY <1>7, <2>1, <2>2, <2>3, <2>4 DEF CreateLagMember, Added
<1>8. ASSUME NEW l \in LagId, NEW p \in Port, RemoveLagMember(l, p)
      PROVE  lagTable'[k].counter = Cardinality(buckets'[k])
  <2>1. PICK n \in Int : lagTable' = Counted(1, n) \/ lagTable' = Disowned(1)
    BY <1>8, RemoveLagMemberEffect
  <2>2. lagTable'[k] = lagTable[k]
    BY <1>1, <2>1, TableUpdates
  <2>3. buckets'[k] = buckets[k]
    BY <1>4, <1>8, RemoveLagMemberEffect
  <2> QED
    BY <1>3, <2>2, <2>3
<1>9. ASSUME NEW l \in LagId, RemoveLag(l)
      PROVE  lagTable'[k].counter = Cardinality(buckets'[k])
  <2>1. PICK n \in Int, P \in SUBSET Port :
          LET left == [buckets EXCEPT ![1] = @ \ P] IN
          \/ /\ lagTable' \in {lagTable, Counted(1, n), Disowned(1)}
             /\ buckets' = left /\ UNCHANGED <<groups, told>>
          \/ \E table \in {lagTable, Counted(1, n)} : GroupDropped(l, table, left)
    BY <1>9, RemoveLagEffect
  <2>2. \A table \in {lagTable, Counted(1, n), Disowned(1)} :
          table \in LagTableType /\ table[k] = lagTable[k]
    <3>1. /\ Counted(1, n) \in LagTableType /\ Disowned(1) \in LagTableType
          /\ Counted(1, n)[k] = lagTable[k] /\ Disowned(1)[k] = lagTable[k]
      BY <1>1, TableUpdates
    <3> QED
      BY <1>4, <3>1
  <2>3. CASE /\ lagTable' \in {lagTable, Counted(1, n), Disowned(1)}
             /\ buckets' = [buckets EXCEPT ![1] = @ \ P]
    BY <1>3, <1>4, <2>2, <2>3
  <2>4. ASSUME NEW table \in {lagTable, Counted(1, n)},
               GroupDropped(l, table, [buckets EXCEPT ![1] = @ \ P])
        PROVE  lagTable'[k].counter = Cardinality(buckets'[k])
    <3>1. k # l
      BY <2>2, <2>4 DEF GroupDropped, LagTableType, NoLag
    <3>2. lagTable'[k] = lagTable[k] /\ buckets'[k] = buckets[k]
      BY <1>4, <2>2, <2>4, <3>1 DEF GroupDropped, LagTableType
    <3> QED
      BY <1>3, <3>2
  <2> QED
    BY <2>1, <2>3, <2>4
<1> QED
  BY <1>5, <1>6, <1>7, <1>8, <1>9 DEF Next, LagApi, LagMemberApi

\* The damage of naming all members as members of LAG 1 is confined: every
\* other LAG in use counts the ports in its group, whatever calls fail.
THEOREM OtherLagsCountedExactly == Spec => []OtherLagsCounted
<1>1. Init => OtherLagsCounted
  BY DEF Init, OtherLagsCounted, Counts, NoLag
<1> QED
  BY <1>1, LagTypeCorrect, OtherLagsCountedStep, PTL DEF Spec

=============================================================================
