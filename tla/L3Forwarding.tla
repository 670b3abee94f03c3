---------------------------- MODULE L3Forwarding ----------------------------
(***************************************************************************)
(* The layer-3 adapter as one system: any sequence of calls of the         *)
(* virtual router, router interface, next hop, neighbor and route APIs,    *)
(* and what they leave in the tables and in the switch.                    *)
(***************************************************************************)
EXTENDS RouterInterface, NextHop, Neighbor, Route

Init ==
  /\ vrTable    = [v \in VrId |-> NoVr]
  /\ rifTable   = [r \in RifId |-> NoRif]
  /\ nbrTable   = [n \in NbrId |-> NoNbr]
  /\ nhTable    = [h \in NhId |-> NoNh]
  /\ routeTable = [k \in RouteKey |-> NoRoute]
  /\ l3Flow     = [k \in RouteKey |-> NoFlow]
  /\ directFlow = [x \in RifId \X Ip |-> NoFlow]
  /\ l3Group    = {}

VirtualRouterApi ==
  \E v \in VrId : CreateVirtualRouter(v) \/ RemoveVirtualRouter(v)

RouterInterfaceApi ==
  \E r \in RifId :
    \/ \E v \in VrId, miss \in MissActions : CreateRouterInterface(r, v, miss)
    \/ RemoveRouterInterface(r)

NextHopApi ==
  \E h \in NhId :
    \/ \E r \in RifId, a \in Ip : CreateNextHop(h, r, a)
    \/ RemoveNextHop(h)

NeighborApi ==
  \/ \E r \in RifId, a \in Ip : \/ \E n \in NbrId : CreateNeighbor(n, r, a)
                                \/ RemoveNeighbor(r, a)
  \/ RemoveAllNeighbors

RouteApi ==
  \E k \in RouteKey :
    \/ \E act \in Actions, hop \in Hops, toCpu \in BOOLEAN :
         CreateRoute(k, act, hop, toCpu)
    \/ RemoveRoute(k)
    \/ \E act \in Actions : SetRouteAction(k, act)
    \/ \E h \in NhId : SetRouteNextHop(k, "NH", h)
    \/ \E r \in RifId, type \in {"RIF", "STACK"} : SetRouteNextHop(k, type, r)

Next ==
  \/ VirtualRouterApi
  \/ RouterInterfaceApi
  \/ NextHopApi
  \/ NeighborApi
  \/ RouteApi

Spec == Init /\ [][Next]_vars

-----------------------------------------------------------------------------
(* Types.                                                                  *)

NbrRef == NbrId \cup Reserved
VrType  == [valid : BOOLEAN, refs : Nat]
RifType == [valid : BOOLEAN, vrf : VrId, miss : Actions,
            nbrs : SUBSET NbrId, nhs : SUBSET NhId, routes : SUBSET RouteKey]
NbrType == [used : BOOLEAN, ip : Ip \cup {NoIp}, nh : Int]
NhType  == [used : BOOLEAN, rif : RifId, ip : Ip \cup {NoIp},
            nbr : NbrRef, routes : SUBSET RouteKey]
RouteType ==
  {route \in [valid : BOOLEAN, action : Actions, nbr : NbrRef \cup {InvalidId},
              nhType : HopTypes, nhIdx : NhId \cup RifId] :
     /\ route.nhType = "NH" => route.nhIdx \in NhId
     /\ route.nhType = "RIF" => route.nhIdx \in RifId}
FlowType  == NbrRef \cup {InvalidId, NoFlow}

\* Every table has its declared shape whatever calls were made: the indices
\* in lists, routes, flows and groups are slots of the tables they refer to.
TypeOK ==
  /\ vrTable \in [VrId -> VrType]
  /\ rifTable \in [RifId -> RifType]
  /\ nbrTable \in [NbrId -> NbrType]
  /\ nhTable \in [NhId -> NhType]
  /\ routeTable \in [RouteKey -> RouteType]
  /\ l3Flow \in [RouteKey -> FlowType]
  /\ directFlow \in [RifId \X Ip -> NbrId \cup {NoFlow}]
  /\ l3Group \subseteq NbrId

-----------------------------------------------------------------------------
(* Safety of the tables.                                                   *)

\* The count of a virtual router is the number of its interfaces, and no
\* interface outlives its virtual router: what mrvl_sai_remove_virtual_router
\* relies on when it trusts rif_ref_cntr.
RefCounts ==
  /\ \A v \in UsedVrs :
       vrTable[v].refs = Cardinality({r \in UsedRifs : rifTable[r].vrf = v})
  /\ \A r \in UsedRifs : rifTable[r].vrf \in UsedVrs

\* A neighbor slot is in use exactly when it is on the list of one live
\* interface, and an interface has one neighbor per address; otherwise
\* mrvl_sai_get_match_neighbor_id misses a neighbor or finds a dead slot.
NbrLists ==
  /\ UsedNbrs = UNION {rifTable[r].nbrs : r \in UsedRifs}
  /\ \A r, s \in UsedRifs : r # s => rifTable[r].nbrs \cap rifTable[s].nbrs = {}
  /\ \A r \in UsedRifs : \A n, m \in rifTable[r].nbrs :
       nbrTable[n].ip = nbrTable[m].ip => n = m

\* The same of next hops, which also name the interface that lists them:
\* mrvl_sai_remove_next_hop looks for them on that list.
NhLists ==
  /\ \A r \in UsedRifs : rifTable[r].nhs = {h \in UsedNhs : nhTable[h].rif = r}
  /\ \A h, g \in UsedNhs : /\ nhTable[h].rif \in UsedRifs
                           /\ /\ nhTable[h].rif = nhTable[g].rif
                              /\ nhTable[h].ip = nhTable[g].ip
                              => h = g

\* A list holds exactly the routes in the hash and in the switch that name
\* its object: a route missing from it is deaf to neighbors, and one too
\* many is memory mrvl_sai_utl_DeleteHash has given back.
RouteLists ==
  LET Naming(type, i) ==
        {k \in Routes : /\ Installed(k) /\ routeTable[k].nhType = type
                        /\ routeTable[k].nhIdx = i}
  IN
  /\ \A h \in NhId : nhTable[h].routes = Naming("NH", h)
  /\ \A r \in RifId : rifTable[r].routes = Naming("RIF", r)

\* What the lists promise even when calls fail or name dead objects: what
\* is on a list is a live route that names this object, so that walking a
\* list never reads a deleted hash entry.
ListsHoldLiveRoutes ==
  LET Names(k, type, i) == /\ routeTable[k].valid
                           /\ routeTable[k].nhType = type
                           /\ routeTable[k].nhIdx = i
  IN
  /\ \A h \in NhId : \A k \in nhTable[h].routes : Names(k, "NH", h)
  /\ \A r \in RifId : \A k \in rifTable[r].routes : Names(k, "RIF", r)

\* A next hop uses the neighbor with its address, else the miss action of
\* its interface, in whatever order the two were created; and the neighbor
\* knows its next hop, which mrvl_sai_neighbor_get_next_hop reads.
NextHopResolved ==
  \A h \in UsedNhs :
    /\ nhTable[h].nbr = ResolveAt(nhTable[h].rif, nhTable[h].ip)
    /\ nhTable[h].nbr \in NbrId => nbrTable[nhTable[h].nbr].nh = h

-----------------------------------------------------------------------------
(* Safety of the switch.                                                   *)

\* The group of a neighbor exists as long as the neighbor, no longer.
GroupPerNeighbor == l3Group = UsedNbrs

\* No flow hands packets to a neighbor that has gone: each leads to the
\* existing group of a neighbor in use, and the host flow of a neighbor to
\* the neighbor with that address on that interface.
NoFlowToMissingNeighbor ==
  /\ \A k \in RouteKey : l3Flow[k] >= 0 => l3Flow[k] \in UsedNbrs \cap l3Group
  /\ \A x \in RifId \X Ip :
       directFlow[x] # NoFlow =>
         directFlow[x] \in NbrMatches(x[1], x[2]) \cap l3Group

\* Where a forwarding route should send packets now.
Wanted(k) ==
  LET route == routeTable[k]
      nh    == nhTable[route.nhIdx]
  IN IF route.nhType = "NH" THEN ResolveAt(nh.rif, nh.ip)
     ELSE ResolveAt(route.nhIdx, AddrOf[k[2]])

\* The switch does what the configuration says: the flow of a forwarding
\* route leads where the neighbors, as they are now, put its next hop; that
\* of any other route keeps its packets; and no flow outlives its route.
HardwareFollowsNeighbors ==
  \A k \in RouteKey : Installed(k) =>
    /\ routeTable[k].valid
    /\ IF routeTable[k].action = "FORWARD" THEN l3Flow[k] = Wanted(k)
       ELSE l3Flow[k] \in Reserved

\* Packets of a virtual router leave through its own interfaces: a flow that
\* forwards belongs to a router that exists, although routes survive the
\* removal of their router, and leads to a neighbor on one of its
\* interfaces, although only route creation compares the two.
RoutersIsolated ==
  \A k \in RouteKey : l3Flow[k] >= 0 =>
    /\ k[1] \in UsedVrs
    /\ \E r \in UsedRifs : rifTable[r].vrf = k[1] /\ l3Flow[k] \in rifTable[r].nbrs

\* Neighbors come and go without a route being lost: an update of the
\* neighbor of a route that fails deletes the route.
NeighborChangeKeepsRoutes ==
  [][nbrTable' # nbrTable => Routes' = Routes]_vars

=============================================================================
