-------------------------- MODULE RouterInterface ---------------------------
(* Router interfaces (mrvl_sai_router_intf.c) as the routing tables see    *)
(* them: the virtual router, the neighbor miss action and the heads of the *)
(* three lists.  The termination, virtual-router-id, control packet and    *)
(* FDB flows of an interface, and the MTU profiles, are not modelled here. *)
EXTENDS VirtualRouter

CreateRouterInterface(r, v, miss) ==
  /\ vrTable[v].valid
  /\ IsFirstFree(r, UsedRifs)
  /\ rifTable' = [rifTable EXCEPT
       ![r] = [NoRif EXCEPT !.valid = TRUE, !.vrf = v, !.miss = miss]]
  /\ vrTable' = Referenced(v)
  /\ UNCHANGED <<nbrTable, nhTable, routeTable, l3Flow, directFlow, l3Group>>

RemoveRouterInterface(r) ==
  /\ rifTable[r].valid
  /\ rifTable[r].nbrs = {} /\ rifTable[r].nhs = {} /\ rifTable[r].routes = {}
  /\ vrTable' = Released(rifTable[r].vrf)
  /\ rifTable' = [rifTable EXCEPT ![r] = NoRif]
  /\ UNCHANGED <<nbrTable, nhTable, routeTable, l3Flow, directFlow, l3Group>>

=============================================================================
