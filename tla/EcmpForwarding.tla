--------------------------- MODULE EcmpForwarding ---------------------------
(***************************************************************************)
(* The layer-3 adapter with its next hop groups: the calls of L3Forwarding *)
(* go on while groups refer to the neighbors of their next hops.           *)
(***************************************************************************)
EXTENDS L3Forwarding, NextHopGroup

VARIABLE
  told   \* how often the client put each next hop in each group

ecmpVars == <<vars, nhgVars, told>>

Lists == UNION {[1 .. n -> NhId] : n \in 0 .. MaxMembers + 1}
BagOf(list) == [h \in NhId |-> Cardinality({i \in 1 .. Len(list) : list[i] = h})]
NoHops == BagOf(<<>>)

EcmpInit ==
  /\ Init
  /\ NhgInit
  /\ told = [g \in NhgId |-> NoHops]

\* The adapter counts no references from groups to next hops.  A careful
\* client does not take the neighbor of a member away, or the member.
MembersKept ==
  ClientKeepsMembers =>
    \A g \in GroupsUsed, h \in NhId :
      told[g][h] > 0 => /\ nhTable'[h].used
                        /\ nhTable'[h].nbr = nhTable[h].nbr

L3Api ==
  /\ Next
  /\ MembersKept
  /\ UNCHANGED <<nhgVars, told>>

\* The client knows what it has put in a group from the answers to its calls:
\* once a call on it has failed the group is lost.
Tell(g, times) ==
  told' = [told EXCEPT ![g] = IF nhgTable'[g].used THEN times ELSE NoHops]

NextHopGroupApi ==
  /\ UNCHANGED vars
  /\ \E g \in NhgId :
       \/ \E list \in Lists :
            /\ \/ CreateNextHopGroup(g, list)
               \/ SetNextHopList(g, list)
            /\ Tell(g, BagOf(list))
       \/ /\ RemoveNextHopGroup(g)
          /\ Tell(g, NoHops)
       \/ \E h \in NhId :
            /\ AddNextHop(g, h)
            /\ Tell(g, [told[g] EXCEPT ![h] = IF @ = 0 THEN 1 ELSE @])
       \/ \E h \in NhId :
            /\ RemoveNextHopFromGroup(g, h)
            /\ Tell(g, [told[g] EXCEPT ![h] = IF @ = 0 THEN 0 ELSE @ - 1])

EcmpNext == L3Api \/ NextHopGroupApi

EcmpSpec == EcmpInit /\ [][EcmpNext]_ecmpVars

-----------------------------------------------------------------------------
(* Properties.                                                             *)

\* The table of groups and the groups of the switch have their shape for
\* whatever calls were made, counters keeping to 32 bits.
NhgTypeOK ==
  /\ nhgTable \in [NhgId -> [used : BOOLEAN, count : 0 .. CountMod - 1]]
  /\ ecmp \in [NhgId -> [exists : BOOLEAN,
                         ref : [Bucket -> Reference \cup {NoBucket}]]]
  /\ refused \subseteq NhgId \X {"group", "bucket"}

\* A group the adapter believes in is in the switch, whichever deletion the
\* switch refused and at whichever bucket an update stopped.
UsedGroupsExist == GroupsUsed \subseteq InSwitch

\* Groups the switch still has and no record knows: creation picks the slot
\* of one for ever and is refused.
Orphans == InSwitch \ GroupsUsed

\* What may make an orphan of a group: the switch refused to delete it, or it
\* was full and the client added a next hop whose neighbor has no bucket.
OnlyFullOrphaned ==
  \A g \in Orphans' \ Orphans :
    \/ <<g, "group">> \in refused'
    \/ /\ g \in GroupsUsed /\ Members(g) = Bucket
       /\ \E n \in UsedNbrs : ~HasRef(g, n)

\* No other call of a careful client leaves a group in the switch behind
\* without its record: neither an update that stops half way nor a creation.
OnlyFullGroupsAreLeft == [][OnlyFullOrphaned]_ecmpVars

\* The groups in use none of whose buckets the switch has refused to delete:
\* the refusal is not looked at, and the client is told the next hop is gone.
GroupsTold == {g \in GroupsUsed : <<g, "bucket">> \notin refused}

\* The get function gives back the list a careful client put together,
\* however neighbors and next hops were created, removed and numbered
\* meanwhile and whichever update failed before.
ListAsTold ==
  \A g \in GroupsTold, h \in NhId : HopCount(g, h) = told[g][h]

\* "Number of next hops in the group": the counter is the number of buckets,
\* as long as the client removes only members.
CountIsMembers ==
  \A g \in GroupsTold : nhgTable[g].count = Cardinality(Members(g))

\* No bucket of a group in use sends packets to the group of a neighbor that
\* has gone, as long as the client keeps the neighbors of members.  (A group
\* left behind may: its members are nobody's any more.)
BucketsLeadSomewhere ==
  \A g \in GroupsTold : \A b \in Members(g) :
    ecmp[g].ref[b] \in UsedNbrs \cap l3Group

=============================================================================
