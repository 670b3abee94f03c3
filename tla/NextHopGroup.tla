---------------------------- MODULE NextHopGroup ----------------------------
(***************************************************************************)
(* Next hop groups (mrvl_sai_nexthopgroup.c) and the ECMP groups of the    *)
(* switch they are kept in (mrvl_sai_utils.c).  A bucket of an ECMP group  *)
(* refers to the L3 unicast group of a neighbor: the one the next hop had  *)
(* when the bucket was made.                                               *)
(***************************************************************************)
EXTENDS L3Tables, Sequences

CONSTANTS
  NumNhg,       \* SAI_ECMP_MAX_GROUPS_CNS
  MaxMembers,   \* SAI_ECMP_MAX_MEMBERS_IN_GROUP_CNS
  NumBuckets,   \* the buckets a group of the switch has room for
  CountMod,     \* 2^32: the counter is unsigned
  EcmpFaults,   \* which fpaLib deletions may fail: that of a group, that of
                \* all buckets of a group (list), that of one (bucket)
  ClientKeepsMembers  \* see Careful and EcmpForwarding!MembersKept

ASSUME NhgSizes ==
  /\ NumNhg \in Nat \ {0} /\ MaxMembers \in Nat \ {0}
  /\ NumBuckets \in Nat \ {0} /\ CountMod \in Nat /\ MaxMembers + 1 < CountMod
  /\ EcmpFaults \subseteq {"group", "list", "bucket"}
  /\ ClientKeepsMembers \in BOOLEAN

VARIABLES
  nhgTable,  \* mrvl_sai_next_hop_group_table
  ecmp,      \* the L3_ECMP groups of the switch
  refused    \* history: the deletions in each group the switch has refused

nhgVars == <<nhgTable, ecmp, refused>>

\* The last of these is past the end of the table: see IsFreeGroup.
NhgId == 0 .. NumNhg
Bucket == 0 .. NumBuckets - 1

NoBucket == -1
Unknown  == -2      \* a reference built from no neighbor
Reference == NbrId \cup {Unknown}

NoGroup    == [used |-> FALSE, count |-> 0]
NotThere   == [exists |-> FALSE, ref |-> [b \in Bucket |-> NoBucket]]
InSwitch   == {g \in NhgId : ecmp[g].exists}
GroupsUsed == {g \in NhgId : nhgTable[g].used}

NhgInit ==
  /\ nhgTable = [g \in NhgId |-> NoGroup]
  /\ ecmp = [g \in NhgId |-> NotThere]
  /\ refused = {}

-----------------------------------------------------------------------------
(* Buckets.                                                                *)

\* Mutant: the index of the next hop is taken for that of its neighbor.
RefsOfOwnIndex(h) == {h}

\* What a bucket for h refers to.  Nothing stops at a next hop that is not
\* there (nbr_idx is then uninitialised) or that has no neighbor (the
\* reserved id makes no identifier, and the reference is uninitialised).
RefsOf(h) ==
  IF nhTable[h].used /\ nhTable[h].nbr \in NbrId THEN {nhTable[h].nbr}
  ELSE Reference

\* The switch may refuse a bucket whose group does not exist.
MayRefuse(ref) == ref \notin l3Group

HasRef(g, ref) == \E b \in Bucket : ecmp[g].ref[b] = ref
FirstOf(g, ref) == CHOOSE b \in Bucket : /\ ecmp[g].ref[b] = ref
                                         /\ \A c \in 0 .. b - 1 :
                                              ecmp[g].ref[c] # ref
Members(g) == {b \in Bucket : ecmp[g].ref[b] # NoBucket}

\* One bucket per member of the list, in order, from the first on.
Filled(refs) ==
  [b \in Bucket |-> IF b < Len(refs) THEN refs[b + 1] ELSE NoBucket]

\* The references that buckets for the next hops of list may be made with.
ListRefs(list) ==
  {refs \in [1 .. Len(list) -> Reference] :
     \A i \in 1 .. Len(list) : refs[i] \in RefsOf(list[i])}

\* How many buckets may be made of a list that is not made in full.
StopsAfter(refs) ==
  {n \in 0 .. Len(refs) - 1 :
     n = NumBuckets \/ (n < NumBuckets /\ MayRefuse(refs[n + 1]))}

\* A group with the first n of these buckets.
Partly(refs, n) == [exists |-> TRUE, ref |-> Filled(SubSeq(refs, 1, n))]

\* A careful client puts next hops in groups that have a neighbor, and no
\* more than a group may have: only creation looks at their number.
Careful(list) ==
  ClientKeepsMembers =>
    /\ Len(list) \in 1 .. MaxMembers
    /\ \A i \in 1 .. Len(list) : /\ nhTable[list[i]].used
                                 /\ nhTable[list[i]].nbr \in NbrId

\* Mutant: the record is kept when the switch has failed.
KeepRecord(g) == nhgTable

\* After a failure the group is not in use, whatever the switch still has.
Forgotten(g) == [nhgTable EXCEPT ![g] = NoGroup]

\* Mutant: the deletion is commented out, as it is where an addition fails.
SwitchKeeps(g, left) == ecmp' = [ecmp EXCEPT ![g] = left] /\ UNCHANGED refused

\* The switch deletes a group, or refuses and keeps what is left of it.
SwitchDeletes(g, left) ==
  \/ /\ ecmp' = [ecmp EXCEPT ![g] = NotThere]
     /\ refused' = refused \ {<<g, "group">>, <<g, "bucket">>}
  \/ /\ "group" \in EcmpFaults
     /\ ecmp' = [ecmp EXCEPT ![g] = left]
     /\ refused' = refused \cup {<<g, "group">>}

-----------------------------------------------------------------------------
(* The operations.                                                         *)

\* The scan ends at NumNhg when every slot is in use; the test that follows
\* it is > where it should be >=, so the slot after the last is taken.
IsFreeGroup(g) == IsFirstFree(g, GroupsUsed \ {NumNhg})

\* A creation that fails half way deletes what it made in the switch, so
\* that nothing changes, unless the switch refuses.  It also fails, and
\* changes nothing, when the switch has a group with this index.
CreateNextHopGroup(g, list) ==
  /\ Len(list) \in 1 .. MaxMembers
  /\ Careful(list)
  /\ IsFreeGroup(g) /\ g \notin InSwitch
  /\ \E refs \in ListRefs(list) :
       \/ /\ Len(refs) <= NumBuckets
          /\ ecmp' = [ecmp EXCEPT ![g] = [exists |-> TRUE, ref |-> Filled(refs)]]
          /\ nhgTable' = [nhgTable EXCEPT ![g] = [used |-> TRUE,
                                                  count |-> Len(list)]]
          /\ UNCHANGED refused
       \/ /\ \E n \in StopsAfter(refs) : SwitchDeletes(g, Partly(refs, n))
          /\ UNCHANGED nhgTable

\* The record goes first; the group of the switch may not go at all.
RemoveNextHopGroup(g) ==
  /\ nhgTable' = Forgotten(g)
  /\ \/ g \in InSwitch /\ SwitchDeletes(g, ecmp[g])
     \/ g \notin InSwitch /\ UNCHANGED <<ecmp, refused>>

\* mrvl_sai_utl_update_l3_ecmp_group_bucket_list reports a failure without
\* having touched the switch: an empty list, or no such group.
UpdateNothing(g) == nhgTable' = Forgotten(g) /\ UNCHANGED <<ecmp, refused>>

\* Setting the list deletes all buckets and adds those of the list.  The
\* group is to be deleted when either fails.
SetNextHopList(g, list) ==
  /\ Careful(list)
  /\ \/ /\ list = <<>> \/ g \notin InSwitch
        /\ UpdateNothing(g)
     \/ /\ list # <<>> /\ g \in InSwitch
        /\ \E refs \in ListRefs(list) :
             \/ /\ Len(refs) <= NumBuckets
                /\ ecmp' = [ecmp EXCEPT ![g].ref = Filled(refs)]
                /\ nhgTable' = [nhgTable EXCEPT ![g].count = Len(list)]
                /\ refused' = refused \ {<<g, "bucket">>}
             \/ /\ \E n \in StopsAfter(refs) : SwitchDeletes(g, Partly(refs, n))
                /\ nhgTable' = Forgotten(g)
             \/ /\ "list" \in EcmpFaults
                /\ SwitchDeletes(g, ecmp[g])
                /\ nhgTable' = Forgotten(g)

\* The bucket a new member gets: the first that is free.
Gap(g) == {b \in Bucket \ Members(g) : 0 .. b - 1 \subseteq Members(g)}

\* Mutant: a member that is already in the group is counted again.
CountedUpAlways(g, found) == (nhgTable[g].count + 1) % CountMod

\* The counter after an addition.
CountedUp(g, found) ==
  IF found THEN nhgTable[g].count ELSE (nhgTable[g].count + 1) % CountMod

\* The reference is computed twice, to look for the bucket and to add it.
AddNextHop(g, h) ==
  /\ Careful(<<h>>)
  /\ \/ g \notin InSwitch /\ UpdateNothing(g)
     \/ /\ g \in InSwitch
        /\ \E ref, again \in RefsOf(h) :
             \/ /\ HasRef(g, ref)
                /\ nhgTable' = [nhgTable EXCEPT ![g].count = CountedUp(g, TRUE)]
                /\ UNCHANGED <<ecmp, refused>>
             \/ /\ MayRefuse(ref)
                /\ SwitchDeletes(g, ecmp[g])
                /\ nhgTable' = Forgotten(g)
             \/ /\ ~HasRef(g, ref)
                /\ \/ \E b \in Gap(g) :
                        /\ ecmp' = [ecmp EXCEPT ![g].ref[b] = again]
                        /\ nhgTable' = [nhgTable EXCEPT
                             ![g].count = CountedUp(g, FALSE)]
                        /\ UNCHANGED refused
                   \/ /\ Gap(g) = {} \/ MayRefuse(again)
                      /\ UpdateNothing(g)

\* Mutant: every bucket of the next hop is deleted.
BucketDeletedAll(g, ref) ==
  [ecmp EXCEPT ![g].ref =
     [b \in Bucket |-> IF @[b] = ref THEN NoBucket ELSE @[b]]]

\* The groups after the deletion of the first bucket with this reference.
BucketDeleted(g, ref) == [ecmp EXCEPT ![g].ref[FirstOf(g, ref)] = NoBucket]

\* A next hop that is not in the group is counted as removed, and so is one
\* whose bucket the switch refuses to delete.
RemoveNextHopFromGroup(g, h) ==
  /\ Careful(<<h>>)
  /\ ClientKeepsMembers => \A ref \in RefsOf(h) : HasRef(g, ref)
  /\ \/ g \notin InSwitch /\ UpdateNothing(g)
     \/ /\ g \in InSwitch
        /\ \E ref \in RefsOf(h) :
             \/ /\ \/ /\ ecmp' = IF HasRef(g, ref) THEN BucketDeleted(g, ref)
                              ELSE ecmp
                      /\ UNCHANGED refused
                   \/ /\ HasRef(g, ref) /\ "bucket" \in EcmpFaults
                      /\ refused' = refused \cup {<<g, "bucket">>}
                      /\ UNCHANGED ecmp
                /\ nhgTable' = [nhgTable EXCEPT
                     ![g].count = (@ - 1) % CountMod]
             \/ MayRefuse(ref) /\ UpdateNothing(g)

-----------------------------------------------------------------------------
(* What the get functions return.                                          *)

\* mrvl_sai_utl_get_l3_ecmp_group_bucket_list: the next hop of the neighbor
\* a bucket leads to, found through the neighbor table.
HopOf(ref) == IF ref \in NbrId /\ nbrTable[ref].used THEN nbrTable[ref].nh
              ELSE InvalidId

\* The list read back, as the number of times each next hop is in it.
HopCount(g, h) == Cardinality({b \in Members(g) : HopOf(ecmp[g].ref[b]) = h})

=============================================================================
