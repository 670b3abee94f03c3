------------------------------ MODULE NextHop -------------------------------
(* Next hops (mrvl_sai_nexthop.c): an address on a router interface, the   *)
(* neighbor it resolves to, and the routes that point at it.               *)
EXTENDS L3Tables

CreateNextHop(h, r, a) ==
  LET nbr == ResolveAt(r, a) IN
  /\ rifTable[r].valid
  /\ NhMatches(r, a) = {}
  /\ IsFirstFree(h, UsedNhs)
  /\ nhTable' = [nhTable EXCEPT
       ![h] = [used |-> TRUE, rif |-> r, ip |-> a, nbr |-> nbr, routes |-> {}]]
  /\ rifTable' = [rifTable EXCEPT ![r].nhs = @ \cup {h}]
  /\ nbrTable' = IF nbr \in UsedNbrs THEN [nbrTable EXCEPT ![nbr].nh = h]
                 ELSE nbrTable
  /\ UNCHANGED <<vrTable, routeTable, l3Flow, directFlow, l3Group>>

RemoveNextHop(h) ==
  LET r   == nhTable[h].rif
      nbr == nhTable[h].nbr
  IN
  /\ nhTable[h].used
  /\ nhTable[h].routes = {}
  /\ rifTable[r].valid /\ h \in rifTable[r].nhs
  /\ nbrTable' = IF nbr \in UsedNbrs
                 THEN [nbrTable EXCEPT ![nbr].nh = InvalidId] ELSE nbrTable
  /\ rifTable' = [rifTable EXCEPT ![r].nhs = @ \ {h}]
  /\ nhTable' = [nhTable EXCEPT ![h] = NoNh]
  /\ UNCHANGED <<vrTable, routeTable, l3Flow, directFlow, l3Group>>

=============================================================================
