------------------------------ MODULE Neighbor ------------------------------
(* Neighbors (mrvl_sai_neighbor.c).  A neighbor owns the L3 unicast group  *)
(* with its index; when it comes or goes, the next hop with its address    *)
(* and the routes behind it are pointed elsewhere.                         *)
EXTENDS L3Tables

\* Mutant: the next hop is updated, its routes are not.
UpdateNbrIdOfNextHopOnly(r, a, nbr) ==
  Retarget([h \in NhMatches(r, a) |-> nbr], [k \in {} |-> nbr], {})

\* mrvl_sai_next_hop_update_nbr_id and mrvl_sai_rif_update_nbr_id: tell the
\* next hop and the routes with address a on r that they now use nbr.
UpdateNbrId(r, a, nbr) ==
  LET K == DependentRoutes(r, a) IN
  \E Lost \in MayLose(K) : Retarget([h \in NhMatches(r, a) |-> nbr],
                                    [k \in K |-> nbr], Lost)

\* Mutant: the matching next hop is not passed back.
MatchedNhUnset(r, a) == StackNh

\* The index written to next_hop_idx: nothing sets it when no next hop
\* matches.
MatchedNh(r, a) == IF NhMatches(r, a) = {} THEN StackNh ELSE NhMatches(r, a)

\* On a VLAN interface the group is silently not made when the FDB entry
\* of the MAC has no group of its own ("groupSkip").
GroupAdded(n) ==
  \/ n \notin l3Group /\ l3Group' = l3Group \cup {n}
  \/ "groupSkip" \in Faults /\ UNCHANGED l3Group

\* The host flow is added unless the flow table refuses it, or the value
\* mrvl_sai_rif_update_nbr_id returns without having set it stops the call.
DirectAdded(n, r, a) ==
  \/ UNCHANGED directFlow
  \/ /\ a \notin Ip6
     /\ directFlow[<<r, a>>] = NoFlow
     /\ ~RouteInWay(r, a, l3Flow')
     /\ directFlow' = [directFlow EXCEPT ![<<r, a>>] = n]

CreateNeighbor(n, r, a) ==
  /\ rifTable[r].valid
  /\ IsFirstFree(n, UsedNbrs)
  /\ NbrMatches(r, a) = {}
  /\ GroupAdded(n)
  /\ \E h \in MatchedNh(r, a) :
       nbrTable' = [nbrTable EXCEPT ![n] = [used |-> TRUE, ip |-> a, nh |-> h]]
  /\ rifTable' = [rifTable EXCEPT ![r].nbrs = @ \cup {n}]
  /\ UpdateNbrId(r, a, n)
  /\ DirectAdded(n, r, a)
  /\ UNCHANGED vrTable

\* Mutant: the list of the interface still holds the slot.
GroupDeletedStillListed(n, r) ==
  /\ n \in l3Group
  /\ l3Group' = l3Group \ {n}
  /\ nbrTable' = [nbrTable EXCEPT ![n] = NoNbr]
  /\ UNCHANGED rifTable

\* Mutant: the slot is cleared and the group stays in the switch.
GroupDeletedSlotOnly(n, r) ==
  /\ nbrTable' = [nbrTable EXCEPT ![n] = NoNbr]
  /\ rifTable' = [rifTable EXCEPT ![r].nbrs = @ \ {n}]
  /\ UNCHANGED l3Group

\* Deleting the group comes last.  When it fails the neighbor keeps its
\* slot and its place on the list, and the call still reports success.
GroupDeleted(n, r) ==
  \/ /\ n \in l3Group
     /\ l3Group' = l3Group \ {n}
     /\ nbrTable' = [nbrTable EXCEPT ![n] = NoNbr]
     /\ rifTable' = [rifTable EXCEPT ![r].nbrs = @ \ {n}]
  \/ /\ n \notin l3Group \/ "groupDelete" \in Faults
     /\ UNCHANGED <<l3Group, nbrTable, rifTable>>

RemoveNeighbor(r, a) ==
  /\ rifTable[r].valid
  /\ directFlow' = [directFlow EXCEPT
       ![<<r, a>>] = IF a \in Ip6 THEN @ ELSE NoFlow]
  /\ UpdateNbrId(r, a, MissId(r))
  /\ \E n \in NbrMatches(r, a) : GroupDeleted(n, r)
  /\ UNCHANGED vrTable

\* The loop has reached the neighbors in Gone, emptying the lists of the
\* interfaces in Visited; the groups in Kept could not be deleted.
RemoveReached(Visited, Gone, Kept) ==
  LET At   == {x \in Visited \X Gone : x[2] \in rifTable[x[1]].nbrs}
      Ends(x) == NhMatches(x[1], nbrTable[x[2]].ip)
      Deps(x) == DependentRoutes(x[1], nbrTable[x[2]].ip)
      H    == UNION {Ends(x) : x \in At}
      K    == UNION {Deps(x) : x \in At}
      nhTo == [h \in H |-> MissId(nhTable[h].rif)]
      routeTo == [k \in K |-> MissId((CHOOSE x \in At : k \in Deps(x))[1])]
  IN
  /\ \E Lost \in MayLose(K) : Retarget(nhTo, routeTo, Lost)
  /\ directFlow' = [x \in RifId \X Ip |->
       IF x[2] \notin Ip6 /\ \E n \in Gone : <<x[1], n>> \in At
                                             /\ nbrTable[n].ip = x[2]
       THEN NoFlow ELSE directFlow[x]]
  /\ nbrTable' = [n \in NbrId |-> IF n \in Gone THEN NoNbr ELSE nbrTable[n]]
  /\ rifTable' = [r \in RifId |-> IF r \in Visited
                                  THEN [rifTable[r] EXCEPT !.nbrs = {}]
                                  ELSE rifTable[r]]
  /\ l3Group' = l3Group \ (Gone \ Kept)
  /\ UNCHANGED vrTable

Listed(R) == UNION {rifTable[r].nbrs : r \in R}

\* mrvl_sai_remove_all_neighbor_entries gives up at the first group it
\* cannot delete: the neighbors behind it keep their slots, on no list.
RemoveAllNeighbors ==
  \/ /\ Listed(UsedRifs) \subseteq l3Group
     /\ RemoveReached(UsedRifs, Listed(UsedRifs), {})
  \/ \E last \in UsedRifs :
       LET Before == {r \in UsedRifs : r < last} IN
       /\ Listed(Before) \subseteq l3Group
       /\ \E n \in rifTable[last].nbrs : \E More \in SUBSET rifTable[last].nbrs :
            /\ n \notin l3Group \/ "groupDelete" \in Faults
            /\ More \ {n} \subseteq l3Group
            /\ RemoveReached(Before \cup {last},
                             Listed(Before) \cup More \cup {n}, {n})

=============================================================================
