------------------------- MODULE L3ForwardingProofs -------------------------
(***************************************************************************)
(* What TLAPS proves of L3Forwarding, for tables of any size, any address  *)
(* plan, any client and any of the failures the model knows.               *)
(***************************************************************************)
EXTENDS L3Forwarding, FiniteSetTheorems, TLAPS

-----------------------------------------------------------------------------
(* Identifiers and helpers.                                                *)

\* Slot 0 of each table exists, slots are integers, and the ids that stand
\* for no slot are distinct from all slots and from each other.
LEMMA SlotTypes ==
  /\ 0 \in VrId /\ 0 \in RifId /\ 0 \in NbrId /\ 0 \in NhId
  /\ NhId \subseteq Int /\ NbrId \subseteq Nat
  /\ InvalidId \in Int
  BY TableSizes DEF VrId, RifId, NbrId, NhId, InvalidId

\* The values memset leaves in a slot are of the type of the slot.
LEMMA EmptyTypes ==
  /\ NoVr \in VrType /\ NoRif \in RifType /\ NoNbr \in NbrType
  /\ NoNh \in NhType /\ NoRoute \in RouteType
  BY SlotTypes
     DEF NoVr, NoRif, NoNbr, NoNh, NoRoute, VrType, RifType, NbrType, NhType,
         RouteType, Actions, HopTypes, NbrRef, Reserved

\* The miss action of an interface is one of the reserved neighbor ids.
LEMMA MissIdType ==
  ASSUME NEW r PROVE MissId(r) \in Reserved
  BY DEF MissId, Reserved

\* A flow is an id whatever the route it is made of.
LEMMA FlowOfType ==
  ASSUME NEW act, NEW nbr \in NbrRef \cup {InvalidId}
  PROVE  FlowOf(act, nbr) \in FlowType
  BY DEF FlowOf, FlowType, NbrRef, Reserved

\* The neighbor an address resolves to is a slot of the neighbor table or
\* the reserved id of the interface's miss action.
LEMMA ResolveAtType ==
  ASSUME TypeOK, NEW r \in RifId, NEW a
  PROVE  ResolveAt(r, a) \in NbrRef
<1>1. MissId(r) \in NbrRef
  BY MissIdType DEF NbrRef
<1>2. NbrMatches(r, a) \subseteq NbrRef
  BY DEF NbrMatches, TypeOK, RifType, NbrRef
<1> QED
  BY <1>1, <1>2 DEF ResolveAt

\* Deleting and adding back the flow of a route keeps both tables typed.
LEMMA ModifyTypes ==
  ASSUME TypeOK, NEW k \in RouteKey, NEW route \in RouteType,
         NEW found \in BOOLEAN, NEW lost \in BOOLEAN
  PROVE  /\ Modified(route, found, lost) \in RouteType
         /\ FlowModified(k, route, lost) \in FlowType
<1>1. Modified(route, found, lost) \in RouteType
  BY EmptyTypes DEF Modified
<1>2. /\ l3Flow[k] \in FlowType /\ NoFlow \in FlowType
      /\ route.nbr \in NbrRef \cup {InvalidId}
  BY DEF TypeOK, RouteType, FlowType
<1>3. FlowOf(route.action, route.nbr) \in FlowType
  BY <1>2, FlowOfType
<1>4. FlowModified(k, route, lost) \in FlowType
  BY <1>2, <1>3 DEF FlowModified
<1> QED
  BY <1>1, <1>4

-----------------------------------------------------------------------------
(* Type correctness, one lemma per family of calls.                        *)

\* Retargeting next hops and routes at neighbor ids keeps the tables typed.
LEMMA RetargetTypes ==
  ASSUME TypeOK, NEW nhTo, NEW routeTo, NEW Lost,
         \A h \in DOMAIN nhTo : nhTo[h] \in NbrRef,
         \A k \in DOMAIN routeTo : routeTo[k] \in NbrRef,
         Retarget(nhTo, routeTo, Lost)
  PROVE  /\ nhTable' \in [NhId -> NhType]
         /\ routeTable' \in [RouteKey -> RouteType]
         /\ l3Flow' \in [RouteKey -> FlowType]
<1> DEFINE New(k) == [routeTable[k] EXCEPT !.nbr = routeTo[k]]
<1>1. nhTable' \in [NhId -> NhType]
  BY DEF Retarget, TypeOK, NhType
<1>2. ASSUME NEW k \in RouteKey, k \in DOMAIN routeTo
      PROVE  /\ Modified(New(k), CookieFound(k), k \in Lost) \in RouteType
             /\ FlowModified(k, New(k), k \in Lost) \in FlowType
  <2>1. New(k) \in RouteType
    BY <1>2 DEF TypeOK, RouteType
  <2>2. CookieFound(k) \in BOOLEAN /\ (k \in Lost) \in BOOLEAN
    BY DEF CookieFound
  <2> QED
    BY <2>1, <2>2, ModifyTypes
<1>3. routeTable' \in [RouteKey -> RouteType]
  <2>1. routeTable' = [k \in RouteKey |->
                         IF k \in DOMAIN routeTo
                         THEN Modified(New(k), CookieFound(k), k \in Lost)
                         ELSE routeTable[k]]
    BY DEF Retarget
  <2> HIDE DEF New
  <2> QED
    BY <1>2, <2>1 DEF TypeOK
<1>4. l3Flow' \in [RouteKey -> FlowType]
  <2>1. l3Flow' = [k \in RouteKey |->
                     IF k \in DOMAIN routeTo
                     THEN FlowModified(k, New(k), k \in Lost)
                     ELSE l3Flow[k]]
    BY DEF Retarget
  <2> HIDE DEF New
  <2> QED
    BY <1>2, <2>1 DEF TypeOK
<1> QED
  BY <1>1, <1>3, <1>4

\* Replacing one list of an interface leaves an interface.
LEMMA RifUpdate ==
  ASSUME NEW rif \in RifType
  PROVE  /\ \A S \in SUBSET NbrId : [rif EXCEPT !.nbrs = S] \in RifType
         /\ \A S \in SUBSET NhId : [rif EXCEPT !.nhs = S] \in RifType
         /\ \A S \in SUBSET RouteKey : [rif EXCEPT !.routes = S] \in RifType
  BY DEF RifType

\* Moving a route between lists keeps the tables of the lists typed.
LEMMA RelistTypes ==
  ASSUME TypeOK, NEW k \in RouteKey, NEW out, NEW in, Relist(k, out, in)
  PROVE  nhTable' \in [NhId -> NhType] /\ rifTable' \in [RifId -> RifType]
<1>1. nhTable' \in [NhId -> NhType]
  BY DEF Relist, TypeOK, NhType
<1>2. ASSUME NEW S \in SUBSET RouteKey, NEW r \in RifId
      PROVE  [rifTable[r] EXCEPT !.routes = S] \in RifType
  BY <1>2, RifUpdate DEF TypeOK
<1>3. \A r \in RifId : rifTable[r] \in RifType
                       /\ rifTable[r].routes \in SUBSET RouteKey
  BY DEF TypeOK, RifType
<1>4. rifTable' \in [RifId -> RifType]
  BY <1>2, <1>3 DEF Relist
<1> QED
  BY <1>1, <1>4

\* Writing a route keeps the hash and the flow tables typed.
LEMMA WriteTypes ==
  ASSUME TypeOK, NEW k \in RouteKey, NEW route \in RouteType, Write(k, route)
  PROVE  /\ routeTable' \in [RouteKey -> RouteType]
         /\ l3Flow' \in [RouteKey -> FlowType]
<1>1. PICK Lost \in MayLose({k}) :
        LET fails == k \in Lost
                       \/ (route.action = "FORWARD" /\ route.nhType = "NONE")
        IN
        /\ routeTable' =
             [routeTable EXCEPT ![k] = Modified(route, CookieFound(k), fails)]
        /\ l3Flow' = [l3Flow EXCEPT ![k] = FlowModified(k, route, fails)]
  BY DEF Write
<1> DEFINE fails == k \in Lost
                      \/ (route.action = "FORWARD" /\ route.nhType = "NONE")
<1>2. fails \in BOOLEAN /\ CookieFound(k) \in BOOLEAN
  BY DEF CookieFound
<1> HIDE DEF fails
<1>3. /\ Modified(route, CookieFound(k), fails) \in RouteType
      /\ FlowModified(k, route, fails) \in FlowType
  BY <1>2, ModifyTypes
<1>4. /\ routeTable' =
           [routeTable EXCEPT ![k] = Modified(route, CookieFound(k), fails)]
      /\ l3Flow' = [l3Flow EXCEPT ![k] = FlowModified(k, route, fails)]
  BY <1>1 DEF fails
<1> QED
  BY <1>3, <1>4 DEF TypeOK

\* Creating and removing virtual routers keeps every table typed.
LEMMA VirtualRouterTypes ==
  ASSUME TypeOK, VirtualRouterApi PROVE TypeOK'
<1>1. PICK v \in VrId : CreateVirtualRouter(v) \/ RemoveVirtualRouter(v)
  BY DEF VirtualRouterApi
<1>2. CASE CreateVirtualRouter(v)
  BY <1>2 DEF CreateVirtualRouter, TypeOK, VrType
<1>3. CASE RemoveVirtualRouter(v)
  BY <1>3, EmptyTypes DEF RemoveVirtualRouter, TypeOK
<1> QED
  BY <1>1, <1>2, <1>3

\* Dropping a reference never takes the count below zero.
LEMMA ReleasedType ==
  ASSUME TypeOK, NEW v \in VrId
  PROVE  Released(v) \in [VrId -> VrType]
<1>1. CASE vrTable[v].valid /\ vrTable[v].refs # 0
  <2>1. vrTable[v].refs \in Nat /\ vrTable[v].refs - 1 \in Nat
    BY <1>1 DEF TypeOK, VrType
  <2>2. [vrTable[v] EXCEPT !.refs = @ - 1] \in VrType
    BY <2>1 DEF TypeOK, VrType
  <2> QED
    BY <1>1, <2>2 DEF Released, TypeOK
<1> QED
  BY <1>1 DEF Released, TypeOK

\* Creating and removing router interfaces keeps every table typed.
LEMMA RouterInterfaceTypes ==
  ASSUME TypeOK, RouterInterfaceApi PROVE TypeOK'
<1>1. PICK r \in RifId :
        \/ \E v \in VrId, miss \in MissActions : CreateRouterInterface(r, v, miss)
        \/ RemoveRouterInterface(r)
  BY DEF RouterInterfaceApi
<1>2. ASSUME NEW v \in VrId, NEW miss \in MissActions,
             CreateRouterInterface(r, v, miss)
      PROVE  TypeOK'
  <2>1. miss \in Actions
    BY Environment DEF Actions
  <2>2. [NoRif EXCEPT !.valid = TRUE, !.vrf = v, !.miss = miss] \in RifType
    BY <2>1 DEF NoRif, RifType
  <2>3. rifTable' \in [RifId -> RifType]
    BY <1>2, <2>2 DEF CreateRouterInterface, TypeOK
  <2>4. vrTable' \in [VrId -> VrType]
    BY <1>2 DEF CreateRouterInterface, Referenced, TypeOK, VrType
  <2> QED
    BY <1>2, <2>3, <2>4 DEF CreateRouterInterface, TypeOK
<1>3. CASE RemoveRouterInterface(r)
  <2>1. vrTable' \in [VrId -> VrType]
    <3>1. vrTable' = Released(rifTable[r].vrf)
      BY <1>3 DEF RemoveRouterInterface
    <3>2. rifTable[r].vrf \in VrId
      BY DEF TypeOK, RifType
    <3> QED
      BY <3>1, <3>2, ReleasedType
  <2> QED
    BY <1>3, <2>1, EmptyTypes DEF RemoveRouterInterface, TypeOK
<1> QED
  BY <1>1, <1>2, <1>3

\* Creating and removing next hops keeps every table typed.
LEMMA NextHopTypes ==
  ASSUME TypeOK, NextHopApi PROVE TypeOK'
<1>1. PICK h \in NhId :
        \/ \E r \in RifId, a \in Ip : CreateNextHop(h, r, a)
        \/ RemoveNextHop(h)
  BY DEF NextHopApi
<1>2. ASSUME NEW r \in RifId, NEW a \in Ip, CreateNextHop(h, r, a)
      PROVE  TypeOK'
  <2>1. ResolveAt(r, a) \in NbrRef /\ h \in Int
    BY ResolveAtType, SlotTypes
  <2>2. nhTable' \in [NhId -> NhType]
    BY <1>2, <2>1 DEF CreateNextHop, TypeOK, NhType
  <2>3. rifTable' \in [RifId -> RifType]
    <3>1. rifTable[r] \in RifType /\ rifTable[r].nhs \in SUBSET NhId
      BY DEF TypeOK, RifType
    <3>2. [rifTable[r] EXCEPT !.nhs = @ \cup {h}] \in RifType
      BY <3>1, RifUpdate
    <3> QED
      BY <1>2, <3>2 DEF CreateNextHop, TypeOK
  <2>4. nbrTable' \in [NbrId -> NbrType]
    BY <1>2, <2>1 DEF CreateNextHop, TypeOK, NbrType, UsedNbrs
  <2> QED
    BY <1>2, <2>2, <2>3, <2>4 DEF CreateNextHop, TypeOK
<1>3. CASE RemoveNextHop(h)
  <2>1. nbrTable' \in [NbrId -> NbrType]
    BY <1>3, SlotTypes DEF RemoveNextHop, TypeOK, NbrType, UsedNbrs
  <2>2. rifTable' \in [RifId -> RifType]
    <3>1. nhTable[h].rif \in RifId
      BY DEF TypeOK, NhType
    <3>2. rifTable[nhTable[h].rif] \in RifType
          /\ rifTable[nhTable[h].rif].nhs \in SUBSET NhId
      BY <3>1 DEF TypeOK, RifType
    <3> QED
      BY <1>3, <3>1, <3>2, RifUpdate DEF RemoveNextHop, TypeOK
  <2> QED
    BY <1>3, <2>1, <2>2, EmptyTypes DEF RemoveNextHop, TypeOK
<1> QED
  BY <1>1, <1>2, <1>3

\* Telling the users of an address about their neighbor keeps tables typed.
LEMMA UpdateNbrIdTypes ==
  ASSUME TypeOK, NEW r \in RifId, NEW a \in Ip, NEW nbr \in NbrRef,
         UpdateNbrId(r, a, nbr)
  PROVE  /\ nhTable' \in [NhId -> NhType]
         /\ routeTable' \in [RouteKey -> RouteType]
         /\ l3Flow' \in [RouteKey -> FlowType]
<1> DEFINE K == DependentRoutes(r, a)
           nhTo == [h \in NhMatches(r, a) |-> nbr]
           routeTo == [k \in K |-> nbr]
<1>1. PICK Lost : Retarget(nhTo, routeTo, Lost)
  BY DEF UpdateNbrId
<1>2. /\ \A h \in DOMAIN nhTo : nhTo[h] \in NbrRef
      /\ \A k \in DOMAIN routeTo : routeTo[k] \in NbrRef
  OBVIOUS
<1> HIDE DEF nhTo, routeTo
<1> QED
  BY <1>1, <1>2, RetargetTypes

\* Creating a neighbor keeps every table typed, whatever nh_idx holds.
LEMMA CreateNeighborTypes ==
  ASSUME TypeOK, NEW n \in NbrId, NEW r \in RifId, NEW a \in Ip,
         CreateNeighbor(n, r, a)
  PROVE  TypeOK'
<1>1. /\ nhTable' \in [NhId -> NhType]
      /\ routeTable' \in [RouteKey -> RouteType]
      /\ l3Flow' \in [RouteKey -> FlowType]
  BY UpdateNbrIdTypes DEF CreateNeighbor, NbrRef
<1>2. l3Group' \subseteq NbrId
  BY DEF CreateNeighbor, GroupAdded, TypeOK
<1>3. nbrTable' \in [NbrId -> NbrType]
  <2>1. PICK h \in MatchedNh(r, a) :
          nbrTable' = [nbrTable EXCEPT ![n] = [used |-> TRUE, ip |-> a, nh |-> h]]
    BY DEF CreateNeighbor
  <2>2. MatchedNh(r, a) \subseteq Int
    BY Environment, SlotTypes DEF MatchedNh, NhMatches, TypeOK, RifType
  <2>3. [used |-> TRUE, ip |-> a, nh |-> h] \in NbrType
    BY <2>1, <2>2 DEF NbrType
  <2> QED
    BY <2>1, <2>3 DEF TypeOK
<1>4. rifTable' \in [RifId -> RifType]
  <2>1. rifTable[r] \in RifType /\ rifTable[r].nbrs \in SUBSET NbrId
    BY DEF TypeOK, RifType
  <2> QED
    BY <2>1, RifUpdate DEF CreateNeighbor, TypeOK
<1>5. directFlow' \in [RifId \X Ip -> NbrId \cup {NoFlow}]
  BY DEF CreateNeighbor, DirectAdded, TypeOK
<1> QED
  BY <1>1, <1>2, <1>3, <1>4, <1>5 DEF CreateNeighbor, TypeOK

\* Removing a neighbor keeps every table typed.
LEMMA RemoveNeighborTypes ==
  ASSUME TypeOK, NEW r \in RifId, NEW a \in Ip, RemoveNeighbor(r, a)
  PROVE  TypeOK'
<1>1. /\ nhTable' \in [NhId -> NhType]
      /\ routeTable' \in [RouteKey -> RouteType]
      /\ l3Flow' \in [RouteKey -> FlowType]
  BY UpdateNbrIdTypes, MissIdType DEF RemoveNeighbor, NbrRef
<1>2. PICK n \in NbrMatches(r, a) : GroupDeleted(n, r)
  BY DEF RemoveNeighbor
<1>3. rifTable[r] \in RifType /\ rifTable[r].nbrs \in SUBSET NbrId
  BY DEF TypeOK, RifType
<1>4. n \in NbrId
  BY <1>2, <1>3 DEF NbrMatches
<1>5. /\ l3Group' \subseteq NbrId
      /\ nbrTable' \in [NbrId -> NbrType]
      /\ rifTable' \in [RifId -> RifType]
  <2>1. [rifTable[r] EXCEPT !.nbrs = rifTable[r].nbrs \ {n}] \in RifType
    <3>1. rifTable[r].nbrs \ {n} \in SUBSET NbrId
      BY <1>3
    <3> QED
      BY <1>3, <3>1, RifUpdate
  <2>2. CASE /\ l3Group' = l3Group \ {n}
             /\ nbrTable' = [nbrTable EXCEPT ![n] = NoNbr]
             /\ rifTable' = [rifTable EXCEPT ![r].nbrs = @ \ {n}]
    <3>1. rifTable' \in [RifId -> RifType]
      BY <2>1, <2>2 DEF TypeOK
    <3>2. nbrTable' \in [NbrId -> NbrType]
      BY <2>2, <1>4, EmptyTypes DEF TypeOK
    <3> QED
      BY <2>2, <3>1, <3>2 DEF TypeOK
  <2>3. CASE UNCHANGED <<l3Group, nbrTable, rifTable>>
    BY <2>3 DEF TypeOK
  <2> QED
    BY <1>2, <2>2, <2>3 DEF GroupDeleted
<1>6. directFlow' \in [RifId \X Ip -> NbrId \cup {NoFlow}]
  BY DEF RemoveNeighbor, TypeOK
<1> QED
  BY <1>1, <1>5, <1>6 DEF RemoveNeighbor, TypeOK

\* However far the loop over all neighbors comes, tables stay typed.
LEMMA RemoveReachedTypes ==
  ASSUME TypeOK, NEW Visited \in SUBSET RifId, NEW Gone, NEW Kept,
         RemoveReached(Visited, Gone, Kept)
  PROVE  TypeOK'
<1> DEFINE At == {x \in Visited \X Gone : x[2] \in rifTable[x[1]].nbrs}
           Ends(x) == NhMatches(x[1], nbrTable[x[2]].ip)
           Deps(x) == DependentRoutes(x[1], nbrTable[x[2]].ip)
           H == UNION {Ends(x) : x \in At}
           K == UNION {Deps(x) : x \in At}
           nhTo == [h \in H |-> MissId(nhTable[h].rif)]
           routeTo == [k \in K |-> MissId((CHOOSE x \in At : k \in Deps(x))[1])]
<1>1. PICK Lost : Retarget(nhTo, routeTo, Lost)
  BY DEF RemoveReached
<1>2. \A h \in DOMAIN nhTo : nhTo[h] \in NbrRef
  BY MissIdType DEF NbrRef
<1>3. \A k \in DOMAIN routeTo : routeTo[k] \in NbrRef
  BY MissIdType DEF NbrRef
<1> HIDE DEF nhTo, routeTo
<1>4. /\ nhTable' \in [NhId -> NhType]
      /\ routeTable' \in [RouteKey -> RouteType]
      /\ l3Flow' \in [RouteKey -> FlowType]
  BY <1>1, <1>2, <1>3, RetargetTypes
<1>5. directFlow' \in [RifId \X Ip -> NbrId \cup {NoFlow}]
  <2> DEFINE dead(x) == x[2] \notin Ip6 /\ \E n \in Gone : <<x[1], n>> \in At
                                             /\ nbrTable[n].ip = x[2]
  <2>1. directFlow' = [x \in RifId \X Ip |->
                         IF dead(x) THEN NoFlow ELSE directFlow[x]]
    BY DEF RemoveReached
  <2> HIDE DEF dead
  <2> QED
    BY <2>1 DEF TypeOK
<1>6. nbrTable' \in [NbrId -> NbrType]
  BY EmptyTypes DEF RemoveReached, TypeOK
<1>7. rifTable' \in [RifId -> RifType]
  <2>1. ASSUME NEW r \in RifId PROVE [rifTable[r] EXCEPT !.nbrs = {}] \in RifType
    BY <2>1, RifUpdate DEF TypeOK
  <2> QED
    BY <2>1 DEF RemoveReached, TypeOK
<1>8. l3Group' \subseteq NbrId /\ vrTable' = vrTable
  BY DEF RemoveReached, TypeOK
<1> QED
  BY <1>4, <1>5, <1>6, <1>7, <1>8 DEF TypeOK

\* Every call of the neighbor API keeps every table typed.
LEMMA NeighborTypes ==
  ASSUME TypeOK, NeighborApi PROVE TypeOK'
<1>1. CASE RemoveAllNeighbors
  <2>1. PICK Visited, Gone, Kept :
          Visited \in SUBSET RifId /\ RemoveReached(Visited, Gone, Kept)
    <3>1. CASE RemoveReached(UsedRifs, Listed(UsedRifs), {})
      BY <3>1 DEF UsedRifs
    <3>2. CASE \E last \in UsedRifs : \E n, More :
                 RemoveReached({r \in UsedRifs : r < last} \cup {last},
                               Listed({r \in UsedRifs : r < last})
                                 \cup More \cup {n}, {n})
      BY <3>2 DEF UsedRifs
    <3> QED
      BY <1>1, <3>1, <3>2 DEF RemoveAllNeighbors
  <2> QED
    BY <2>1, RemoveReachedTypes
<1> QED
  BY <1>1, CreateNeighborTypes, RemoveNeighborTypes DEF NeighborApi

-----------------------------------------------------------------------------
(* Routes.                                                                 *)

\* Renaming the neighbor of a route, or its action, leaves a route.
LEMMA RouteUpdate ==
  ASSUME NEW route \in RouteType
  PROVE  /\ \A nbr \in NbrRef \cup {InvalidId} :
              [route EXCEPT !.nbr = nbr] \in RouteType
         /\ \A act \in Actions, nbr \in NbrRef \cup {InvalidId} :
              [route EXCEPT !.action = act, !.nbr = nbr] \in RouteType
         /\ \A act \in Actions : [route EXCEPT !.action = act] \in RouteType
  BY DEF RouteType

\* A new route names a slot of the next hop table, or nothing.
LEMMA NewRouteType ==
  ASSUME TypeOK, NEW act \in Actions, NEW hop \in Hops, NEW toCpu \in BOOLEAN,
         act = "FORWARD" => hop.nhType = "NH" \/ toCpu
  PROVE  NewRoute(act, hop, toCpu) \in RouteType
<1> DEFINE action == IF act = "FORWARD" /\ toCpu THEN "TRAP" ELSE act
           nbr == CASE action = "TRAP" -> TrapId
                    [] action = "DROP" -> DropId
                    [] OTHER -> nhTable[hop.nhIdx].nbr
<1>1. action \in Actions
  BY DEF Actions
<1>2. /\ hop.nhType \in HopTypes /\ hop.nhIdx \in NhId
      /\ hop.nhType # "RIF"
  BY SlotTypes DEF Hops, HopTypes
<1>3. nbr \in NbrRef
  <2>1. nhTable[hop.nhIdx].nbr \in NbrRef
    BY <1>2 DEF TypeOK, NhType
  <2>2. TrapId \in NbrRef /\ DropId \in NbrRef
    BY DEF NbrRef, Reserved
  <2> QED
    BY <2>1, <2>2
<1> HIDE DEF action, nbr
<1>4. [valid |-> TRUE, action |-> action, nbr |-> nbr,
       nhType |-> hop.nhType, nhIdx |-> hop.nhIdx] \in RouteType
  BY <1>1, <1>2, <1>3 DEF RouteType
<1> QED
  BY <1>4 DEF NewRoute, action, nbr

\* Creating a route keeps every table typed, installed or not.
LEMMA CreateRouteTypes ==
  ASSUME TypeOK, NEW k \in RouteKey, NEW act \in Actions, NEW hop \in Hops,
         NEW toCpu \in BOOLEAN, CreateRoute(k, act, hop, toCpu)
  PROVE  TypeOK'
<1> DEFINE route == NewRoute(act, hop, toCpu)
<1>1. route \in RouteType
  BY NewRouteType DEF CreateRoute
<1>2. routeTable' = [routeTable EXCEPT ![k] = route]
  BY DEF CreateRoute
<1>3. \/ UNCHANGED <<l3Flow, nhTable, rifTable>>
      \/ /\ l3Flow' = [l3Flow EXCEPT ![k] = FlowOf(route.action, route.nbr)]
         /\ Relist(k, NoRoute, route)
  BY DEF CreateRoute
<1>4. UNCHANGED <<vrTable, nbrTable, directFlow, l3Group>>
  BY DEF CreateRoute
<1> HIDE DEF route
<1>5. routeTable' \in [RouteKey -> RouteType]
  BY <1>1, <1>2 DEF TypeOK
<1>6. FlowOf(route.action, route.nbr) \in FlowType
  BY <1>1, FlowOfType DEF RouteType
<1>7. /\ l3Flow' \in [RouteKey -> FlowType]
      /\ nhTable' \in [NhId -> NhType] /\ rifTable' \in [RifId -> RifType]
  BY <1>3, <1>6, RelistTypes DEF TypeOK
<1> QED
  BY <1>4, <1>5, <1>7 DEF TypeOK

\* Removing a route keeps every table typed.
LEMMA RemoveRouteTypes ==
  ASSUME TypeOK, NEW k \in RouteKey, RemoveRoute(k)
  PROVE  TypeOK'
<1>1. nhTable' \in [NhId -> NhType] /\ rifTable' \in [RifId -> RifType]
  BY RelistTypes DEF RemoveRoute
<1>2. routeTable' \in [RouteKey -> RouteType]
  BY EmptyTypes DEF RemoveRoute, TypeOK
<1>3. l3Flow' \in [RouteKey -> FlowType]
  BY DEF RemoveRoute, TypeOK, FlowType
<1> QED
  BY <1>1, <1>2, <1>3 DEF RemoveRoute, TypeOK

\* The neighbor read again for a route is a neighbor id.
LEMMA ResolvedType ==
  ASSUME TypeOK, NEW k \in RouteKey, NEW route \in RouteType
  PROVE  Resolved(k, route) \in NbrRef \cup {InvalidId}
<1>1. CASE route.nhType = "NH"
  BY <1>1 DEF Resolved, RouteType, TypeOK, NhType
<1>2. CASE route.nhType = "RIF"
  <2>1. ResolveAt(route.nhIdx, AddrOf[k[2]]) \in NbrRef
    BY <1>2, ResolveAtType DEF RouteType
  <2> QED
    BY <1>2, <2>1 DEF Resolved
<1>3. CASE route.nhType # "NH" /\ route.nhType # "RIF"
  BY <1>3 DEF Resolved, RouteType
<1> QED
  BY <1>1, <1>2, <1>3

\* Changing the action of a route keeps every table typed.
LEMMA SetRouteActionTypes ==
  ASSUME TypeOK, NEW k \in RouteKey, NEW act \in Actions,
         SetRouteAction(k, act)
  PROVE  TypeOK'
<1> DEFINE old == routeTable[k]
           new == [old EXCEPT !.action = act, !.nbr = Resolved(k, old)]
<1>1. old \in RouteType
  BY DEF TypeOK
<1>2. new \in RouteType
  BY <1>1, ResolvedType, RouteUpdate
<1>3. CASE HopLive(old)
  <2>1. Write(k, new)
    BY <1>3 DEF SetRouteAction
  <2>2. \/ Relist(k, old, routeTable'[k])
        \/ UNCHANGED <<nhTable, rifTable>>
    BY <1>3 DEF SetRouteAction
  <2> HIDE DEF old, new
  <2>3. /\ routeTable' \in [RouteKey -> RouteType]
        /\ l3Flow' \in [RouteKey -> FlowType]
    BY <1>2, <2>1, WriteTypes
  <2>4. nhTable' \in [NhId -> NhType] /\ rifTable' \in [RifId -> RifType]
    BY <2>2, RelistTypes DEF TypeOK
  <2> QED
    BY <2>3, <2>4 DEF SetRouteAction, TypeOK
<1>4. CASE ~HopLive(old)
  <2>1. /\ routeTable' = [routeTable EXCEPT ![k].action = act]
        /\ UNCHANGED <<l3Flow, nhTable, rifTable>>
    BY <1>4 DEF SetRouteAction
  <2>2. [routeTable[k] EXCEPT !.action = act] \in RouteType
    BY <1>1, RouteUpdate
  <2>3. routeTable' \in [RouteKey -> RouteType]
    BY <2>1, <2>2 DEF TypeOK
  <2> QED
    BY <2>1, <2>3 DEF SetRouteAction, TypeOK
<1> QED
  BY <1>3, <1>4

\* The neighbor a route takes from the object it is pointed at.
NbrOfNew(k, type, i) ==
  IF routeTable[k].nhType = "NONE" \/ (type = "NH" /\ ~nhTable[i].used)
  THEN routeTable[k].nbr
  ELSE IF type = "NH" THEN nhTable[i].nbr
  ELSE ResolveAt(i, AddrOf[k[2]])

\* It is a neighbor id, or the id the route had.
LEMMA NbrOfNewType ==
  ASSUME TypeOK, NEW k \in RouteKey, NEW type, NEW i,
         \/ type = "NH" /\ i \in NhId
         \/ type \in {"RIF", "STACK"} /\ i \in RifId
  PROVE  NbrOfNew(k, type, i) \in NbrRef \cup {InvalidId}
<1>1. routeTable[k].nbr \in NbrRef \cup {InvalidId}
  BY DEF TypeOK, RouteType
<1>2. CASE type = "NH"
  <2>1. nhTable[i].nbr \in NbrRef
    BY <1>2 DEF TypeOK, NhType
  <2> QED
    BY <1>1, <1>2, <2>1 DEF NbrOfNew
<1>3. CASE type \in {"RIF", "STACK"}
  <2>1. ResolveAt(i, AddrOf[k[2]]) \in NbrRef
    BY <1>3, ResolveAtType
  <2> QED
    BY <1>1, <1>3, <2>1 DEF NbrOfNew
<1> QED
  BY <1>2, <1>3

\* Pointing a route at another object keeps every table typed, whether or
\* not the object exists.
LEMMA SetRouteNextHopTypes ==
  ASSUME TypeOK, NEW k \in RouteKey, NEW type, NEW i,
         \/ type = "NH" /\ i \in NhId
         \/ type \in {"RIF", "STACK"} /\ i \in RifId,
         SetRouteNextHop(k, type, i)
  PROVE  TypeOK'
<1> DEFINE old   == routeTable[k]
           named == [old EXCEPT !.nhType = type, !.nhIdx = i]
           had   == old.nhType # "NONE"
           nbr   == IF ~had \/ (type = "NH" /\ ~nhTable[i].used) THEN old.nbr
                    ELSE IF type = "NH" THEN nhTable[i].nbr
                    ELSE ResolveAt(i, AddrOf[k[2]])
<1>1. old \in RouteType /\ old.nbr \in NbrRef \cup {InvalidId}
  BY DEF TypeOK, RouteType
<1>2. named \in RouteType
  BY <1>1 DEF RouteType, HopTypes
<1>3. nbr \in NbrRef \cup {InvalidId}
  BY NbrOfNewType DEF NbrOfNew
<1>4. CASE had /\ type # "NH" /\ ~rifTable[i].valid
  <2>1. /\ routeTable' = [routeTable EXCEPT ![k].nbr = InvalidId]
        /\ Relist(k, old, NoRoute)
        /\ UNCHANGED l3Flow
    BY <1>4 DEF SetRouteNextHop
  <2>2. [routeTable[k] EXCEPT !.nbr = InvalidId] \in RouteType
    BY <1>1, RouteUpdate
  <2>3. routeTable' \in [RouteKey -> RouteType]
    BY <2>1, <2>2 DEF TypeOK
  <2>4. nhTable' \in [NhId -> NhType] /\ rifTable' \in [RifId -> RifType]
    BY <2>1, RelistTypes
  <2> QED
    BY <2>1, <2>3, <2>4 DEF SetRouteNextHop, TypeOK
<1>5. CASE ~(had /\ type # "NH" /\ ~rifTable[i].valid)
  <2>1. /\ Write(k, [named EXCEPT !.nbr = nbr])
        /\ Relist(k, old, routeTable'[k])
    BY <1>5 DEF SetRouteNextHop
  <2>2. [named EXCEPT !.nbr = nbr] \in RouteType
    BY <1>2, <1>3, RouteUpdate
  <2> HIDE DEF old, named, nbr, had
  <2>3. /\ routeTable' \in [RouteKey -> RouteType]
        /\ l3Flow' \in [RouteKey -> FlowType]
    BY <2>1, <2>2, WriteTypes
  <2>4. nhTable' \in [NhId -> NhType] /\ rifTable' \in [RifId -> RifType]
    BY <2>1, RelistTypes
  <2> QED
    BY <2>3, <2>4 DEF SetRouteNextHop, TypeOK
<1> QED
  BY <1>4, <1>5

\* Every call of the route API keeps every table typed.
LEMMA RouteTypes ==
  ASSUME TypeOK, RouteApi PROVE TypeOK'
<1>1. PICK k \in RouteKey :
        \/ \E act \in Actions, hop \in Hops, toCpu \in BOOLEAN :
             CreateRoute(k, act, hop, toCpu)
        \/ RemoveRoute(k)
        \/ \E act \in Actions : SetRouteAction(k, act)
        \/ \E h \in NhId : SetRouteNextHop(k, "NH", h)
        \/ \E r \in RifId, type \in {"RIF", "STACK"} : SetRouteNextHop(k, type, r)
  BY DEF RouteApi
<1> QED
  BY <1>1, CreateRouteTypes, RemoveRouteTypes, SetRouteActionTypes,
     SetRouteNextHopTypes

\* The tables keep their shape under any sequence of calls, for tables of
\* any size: no call stores a neighbor, next hop, interface or group index
\* that is not a slot of its table or one of the reserved ids.
THEOREM TypeCorrect == Spec => []TypeOK
<1>1. Init => TypeOK
  BY EmptyTypes DEF Init, TypeOK, FlowType
<1>2. TypeOK /\ [Next]_vars => TypeOK'
  <2> SUFFICES ASSUME TypeOK, [Next]_vars PROVE TypeOK'
    OBVIOUS
  <2>1. CASE UNCHANGED vars
    BY <2>1 DEF vars, TypeOK
  <2> QED
    BY <2>1, VirtualRouterTypes, RouterInterfaceTypes, NextHopTypes,
       NeighborTypes, RouteTypes DEF Next
<1> QED
  BY <1>1, <1>2, PTL DEF Spec

-----------------------------------------------------------------------------
(* What calls on neighbors and routes leave alone.                         *)

\* The part of an interface that only its own calls and next hops change.
RifsKept ==
  \A r \in RifId : /\ rifTable'[r].valid = rifTable[r].valid
                   /\ rifTable'[r].vrf = rifTable[r].vrf
                   /\ rifTable'[r].nhs = rifTable[r].nhs

\* The part of a next hop that only its own calls change.
NhsKept ==
  \A h \in NhId : /\ nhTable'[h].used = nhTable[h].used
                  /\ nhTable'[h].rif = nhTable[h].rif
                  /\ nhTable'[h].ip = nhTable[h].ip

\* Telling next hops and routes of a neighbor changes no next hop's address.
LEMMA RetargetKeeps ==
  ASSUME TypeOK, NEW nhTo, NEW routeTo, NEW Lost, Retarget(nhTo, routeTo, Lost)
  PROVE  NhsKept
  BY DEF Retarget, NhsKept, TypeOK, NhType

\* Moving a route between lists changes nothing else of the lists' owners.
LEMMA RelistKeeps ==
  ASSUME TypeOK, NEW k, NEW out, NEW in, Relist(k, out, in)
  PROVE  RifsKept /\ NhsKept
  BY DEF Relist, RifsKept, NhsKept, TypeOK, NhType, RifType

\* No call of the neighbor API changes which interfaces and next hops exist.
LEMMA NeighborKeeps ==
  ASSUME TypeOK, NeighborApi
  PROVE  vrTable' = vrTable /\ RifsKept /\ NhsKept
<1>1. ASSUME NEW n \in NbrId, NEW r \in RifId, NEW a \in Ip,
             CreateNeighbor(n, r, a)
      PROVE  vrTable' = vrTable /\ RifsKept /\ NhsKept
  <2>1. NhsKept
    BY <1>1, RetargetKeeps DEF CreateNeighbor, UpdateNbrId
  <2>2. RifsKept
    BY <1>1 DEF CreateNeighbor, RifsKept, TypeOK, RifType
  <2> QED
    BY <1>1, <2>1, <2>2 DEF CreateNeighbor
<1>2. ASSUME NEW r \in RifId, NEW a \in Ip, RemoveNeighbor(r, a)
      PROVE  vrTable' = vrTable /\ RifsKept /\ NhsKept
  <2>1. NhsKept
    BY <1>2, RetargetKeeps DEF RemoveNeighbor, UpdateNbrId
  <2>2. PICK n : GroupDeleted(n, r)
    BY <1>2 DEF RemoveNeighbor
  <2>3. RifsKept
    BY <2>2 DEF GroupDeleted, RifsKept, TypeOK, RifType
  <2> QED
    BY <1>2, <2>1, <2>3 DEF RemoveNeighbor
<1>3. ASSUME NEW Visited, NEW Gone, NEW Kept, RemoveReached(Visited, Gone, Kept)
      PROVE  vrTable' = vrTable /\ RifsKept /\ NhsKept
  <2>1. NhsKept
    BY <1>3, RetargetKeeps DEF RemoveReached
  <2>2. rifTable' = [r \in RifId |-> IF r \in Visited
                                     THEN [rifTable[r] EXCEPT !.nbrs = {}]
                                     ELSE rifTable[r]]
        /\ vrTable' = vrTable
    BY <1>3 DEF RemoveReached
  <2>3. RifsKept
    BY <2>2 DEF RifsKept, TypeOK, RifType
  <2> QED
    BY <2>1, <2>2, <2>3
<1>4. CASE RemoveAllNeighbors
  <2>1. \E Visited, Gone, Kept : RemoveReached(Visited, Gone, Kept)
    BY <1>4 DEF RemoveAllNeighbors
  <2> QED
    BY <1>3, <2>1
<1> QED
  BY <1>1, <1>2, <1>4 DEF NeighborApi

\* Nor does a call of the route API.
LEMMA RouteKeeps ==
  ASSUME TypeOK, RouteApi
  PROVE  vrTable' = vrTable /\ RifsKept /\ NhsKept
<1> DEFINE Moved == UNCHANGED <<nhTable, rifTable>>
                      \/ \E k, out, in : Relist(k, out, in)
<1>1. vrTable' = vrTable /\ Moved
  <2>1. PICK k \in RouteKey :
          \/ \E act, hop, toCpu : CreateRoute(k, act, hop, toCpu)
          \/ RemoveRoute(k)
          \/ \E act : SetRouteAction(k, act)
          \/ \E type, i : SetRouteNextHop(k, type, i)
    BY DEF RouteApi
  <2>2. ASSUME NEW act, NEW hop, NEW toCpu, CreateRoute(k, act, hop, toCpu)
        PROVE  vrTable' = vrTable /\ Moved
    BY <2>2 DEF CreateRoute
  <2>3. CASE RemoveRoute(k)
    BY <2>3 DEF RemoveRoute
  <2>4. ASSUME NEW act, SetRouteAction(k, act)
        PROVE  vrTable' = vrTable /\ Moved
    BY <2>4 DEF SetRouteAction
  <2>5. ASSUME NEW type, NEW i, SetRouteNextHop(k, type, i)
        PROVE  vrTable' = vrTable /\ Moved
    BY <2>5 DEF SetRouteNextHop
  <2> QED
    BY <2>1, <2>2, <2>3, <2>4, <2>5
<1>2. CASE UNCHANGED <<nhTable, rifTable>>
  BY <1>1, <1>2 DEF RifsKept, NhsKept
<1>3. ASSUME NEW k, NEW out, NEW in, Relist(k, out, in)
      PROVE  vrTable' = vrTable /\ RifsKept /\ NhsKept
  BY <1>1, <1>3, RelistKeeps
<1> QED
  BY <1>1, <1>2, <1>3

-----------------------------------------------------------------------------
(* Next hops and the lists of interfaces.                                  *)

\* NhLists is inductive: an interface is removed only when its list is
\* empty, and a next hop is created only on a live interface that lists no
\* next hop with its address.
LEMMA NhListsStep ==
  ASSUME TypeOK, NhLists, [Next]_vars PROVE NhLists'
<1>1. ASSUME RifsKept, NhsKept PROVE NhLists'
  <2>1. UsedRifs' = UsedRifs /\ UsedNhs' = UsedNhs
    BY <1>1 DEF UsedRifs, UsedNhs, RifsKept, NhsKept
  <2>2. /\ \A r \in UsedRifs : rifTable'[r].nhs = rifTable[r].nhs
        /\ \A h \in UsedNhs : /\ nhTable'[h].rif = nhTable[h].rif
                              /\ nhTable'[h].ip = nhTable[h].ip
    BY <1>1 DEF UsedRifs, UsedNhs, RifsKept, NhsKept
  <2> QED
    BY <2>1, <2>2 DEF NhLists
<1>2. CASE NeighborApi \/ RouteApi
  BY <1>1, <1>2, NeighborKeeps, RouteKeeps
<1>3. CASE UNCHANGED <<rifTable, nhTable>>
  BY <1>1, <1>3 DEF RifsKept, NhsKept
<1>4. ASSUME NEW r \in RifId, NEW v \in VrId, NEW miss \in MissActions,
             CreateRouterInterface(r, v, miss)
      PROVE  NhLists'
  <2>1. /\ r \notin UsedRifs /\ UsedRifs' = UsedRifs \cup {r}
        /\ rifTable'[r].nhs = {}
        /\ \A s \in UsedRifs : rifTable'[s].nhs = rifTable[s].nhs
    BY <1>4 DEF CreateRouterInterface, IsFirstFree, UsedRifs, TypeOK, NoRif
  <2>2. nhTable' = nhTable /\ UsedNhs' = UsedNhs
    BY <1>4 DEF CreateRouterInterface, UsedNhs
  <2>3. \A h \in UsedNhs : nhTable[h].rif \in UsedRifs
    BY DEF NhLists
  <2> QED
    BY <2>1, <2>2, <2>3 DEF NhLists
<1>5. ASSUME NEW r \in RifId, RemoveRouterInterface(r) PROVE NhLists'
  <2>1. /\ r \in UsedRifs /\ UsedRifs' = UsedRifs \ {r}
        /\ rifTable[r].nhs = {}
        /\ \A s \in UsedRifs \ {r} : rifTable'[s].nhs = rifTable[s].nhs
    BY <1>5 DEF RemoveRouterInterface, UsedRifs, TypeOK, NoRif
  <2>2. nhTable' = nhTable /\ UsedNhs' = UsedNhs
    BY <1>5 DEF RemoveRouterInterface, UsedNhs
  <2>3. \A h \in UsedNhs : nhTable[h].rif \in UsedRifs \ {r}
    BY <2>1 DEF NhLists
  <2> QED
    BY <2>1, <2>2, <2>3 DEF NhLists
<1>6. ASSUME NEW h \in NhId, NEW r \in RifId, NEW a \in Ip, CreateNextHop(h, r, a)
      PROVE  NhLists'
  <2>1. /\ r \in UsedRifs /\ UsedRifs' = UsedRifs
        /\ rifTable'[r].nhs = rifTable[r].nhs \cup {h}
        /\ \A s \in UsedRifs \ {r} : rifTable'[s].nhs = rifTable[s].nhs
    BY <1>6 DEF CreateNextHop, UsedRifs, TypeOK, RifType
  <2>2. /\ h \notin UsedNhs /\ UsedNhs' = UsedNhs \cup {h}
        /\ nhTable'[h].rif = r /\ nhTable'[h].ip = a
        /\ \A g \in UsedNhs : nhTable'[g] = nhTable[g]
    BY <1>6 DEF CreateNextHop, IsFirstFree, UsedNhs, TypeOK
  <2>3. \A g \in UsedNhs : nhTable[g].rif = r => nhTable[g].ip # a
    <3>1. NhMatches(r, a) = {}
      BY <1>6 DEF CreateNextHop
    <3> QED
      BY <2>1, <3>1 DEF NhMatches, NhLists, UsedNhs
  <2> QED
    BY <2>1, <2>2, <2>3 DEF NhLists
<1>7. ASSUME NEW h \in NhId, RemoveNextHop(h) PROVE NhLists'
  <2>1. /\ h \in UsedNhs /\ UsedNhs' = UsedNhs \ {h}
        /\ \A g \in UsedNhs \ {h} : nhTable'[g] = nhTable[g]
    BY <1>7 DEF RemoveNextHop, UsedNhs, TypeOK, NoNh
  <2>2. /\ UsedRifs' = UsedRifs
        /\ \A s \in UsedRifs : rifTable'[s].nhs = rifTable[s].nhs \ {h}
    <3>1. nhTable[h].rif \in UsedRifs
      BY <2>1 DEF NhLists
    <3>2. \A s \in UsedRifs : s # nhTable[h].rif => h \notin rifTable[s].nhs
      BY <2>1 DEF NhLists
    <3>3. rifTable' = [rifTable EXCEPT ![nhTable[h].rif].nhs = @ \ {h}]
      BY <1>7 DEF RemoveNextHop
    <3> QED
      BY <3>1, <3>2, <3>3 DEF UsedRifs, TypeOK, RifType
  <2> QED
    BY <2>1, <2>2 DEF NhLists
<1> QED
  BY <1>2, <1>3, <1>4, <1>5, <1>6, <1>7
     DEF Next, VirtualRouterApi, CreateVirtualRouter, RemoveVirtualRouter,
         RouterInterfaceApi, NextHopApi, vars

\* Whatever calls are made and whichever fail, an interface lists exactly
\* the next hops created on it, one for each address, and none outlives it.
THEOREM NextHopListsCorrect == Spec => []NhLists
<1>1. Init => NhLists
  BY DEF Init, NhLists, UsedRifs, UsedNhs, NoRif, NoNh
<1>2. TypeOK /\ NhLists /\ [Next]_vars => NhLists'
  BY NhListsStep
<1> QED
  BY <1>1, <1>2, TypeCorrect, PTL DEF Spec

-----------------------------------------------------------------------------
(* Virtual routers and their interfaces.                                   *)

\* The interfaces a virtual router is counted to have.
OnRouter(v) == {r \in UsedRifs : rifTable[r].vrf = v}

\* There are finitely many interfaces, so that counting them makes sense.
LEMMA OnRouterFinite ==
  ASSUME NEW v
  PROVE  IsFiniteSet(OnRouter(v)) /\ Cardinality(OnRouter(v)) \in Nat
<1>1. IsFiniteSet(RifId)
  BY TableSizes, FS_Interval DEF RifId
<1>2. OnRouter(v) \subseteq RifId
  BY DEF OnRouter, UsedRifs
<1> QED
  BY <1>1, <1>2, FS_Subset, FS_CardinalityType

\* RefCounts is inductive: a virtual router is freed only at count zero,
\* when no interface can be on it, and a new one is on none.
LEMMA RefCountsStep ==
  ASSUME TypeOK, RefCounts, [Next]_vars PROVE RefCounts'
<1>1. ASSUME RifsKept, vrTable' = vrTable PROVE RefCounts'
  <2>1. UsedRifs' = UsedRifs /\ UsedVrs' = UsedVrs
    BY <1>1 DEF UsedRifs, UsedVrs, RifsKept
  <2>2. \A r \in UsedRifs : rifTable'[r].vrf = rifTable[r].vrf
    BY <1>1 DEF UsedRifs, RifsKept
  <2>3. \A v : {r \in UsedRifs' : rifTable'[r].vrf = v}
               = {r \in UsedRifs : rifTable[r].vrf = v}
    BY <2>1, <2>2
  <2> QED
    BY <1>1, <2>1, <2>2, <2>3 DEF RefCounts
<1>2. CASE NeighborApi \/ RouteApi
  BY <1>1, <1>2, NeighborKeeps, RouteKeeps
<1>3. CASE UNCHANGED vars
  BY <1>1, <1>3 DEF RifsKept, vars
<1>4. CASE NextHopApi
  <2>1. /\ vrTable' = vrTable
        /\ \A r \in RifId : /\ rifTable'[r].valid = rifTable[r].valid
                            /\ rifTable'[r].vrf = rifTable[r].vrf
    BY <1>4 DEF NextHopApi, CreateNextHop, RemoveNextHop, TypeOK, RifType
  <2>2. UsedRifs' = UsedRifs /\ UsedVrs' = UsedVrs
    BY <2>1 DEF UsedRifs, UsedVrs
  <2>3. \A v : {r \in UsedRifs' : rifTable'[r].vrf = v}
               = {r \in UsedRifs : rifTable[r].vrf = v}
    BY <2>1, <2>2 DEF UsedRifs
  <2>4. \A r \in UsedRifs : rifTable'[r].vrf = rifTable[r].vrf
    BY <2>1 DEF UsedRifs
  <2> QED
    BY <2>1, <2>2, <2>3, <2>4 DEF RefCounts
<1>5. ASSUME NEW v \in VrId, CreateVirtualRouter(v) PROVE RefCounts'
  <2>1. /\ v \notin UsedVrs /\ UsedVrs' = UsedVrs \cup {v}
        /\ vrTable'[v].refs = 0
        /\ \A w \in UsedVrs : vrTable'[w] = vrTable[w]
        /\ rifTable' = rifTable /\ UsedRifs' = UsedRifs
    BY <1>5 DEF CreateVirtualRouter, IsFirstFree, UsedVrs, UsedRifs, TypeOK
  <2>2. OnRouter(v) = {}
    BY <2>1 DEF OnRouter, RefCounts
  <2>3. Cardinality(OnRouter(v)) = 0
    BY <2>2, FS_EmptySet
  <2> QED
    BY <2>1, <2>3 DEF RefCounts, OnRouter
<1>6. ASSUME NEW v \in VrId, RemoveVirtualRouter(v) PROVE RefCounts'
  <2>1. /\ v \in UsedVrs /\ UsedVrs' = UsedVrs \ {v}
        /\ \A w \in UsedVrs \ {v} : vrTable'[w] = vrTable[w]
        /\ rifTable' = rifTable /\ UsedRifs' = UsedRifs
    BY <1>6 DEF RemoveVirtualRouter, UsedVrs, UsedRifs, TypeOK, NoVr
  <2>2. vrTable[v].refs = 0
    BY <1>6 DEF RemoveVirtualRouter, TypeOK, VrType
  <2>3. Cardinality(OnRouter(v)) = 0
    BY <2>1, <2>2 DEF RefCounts, OnRouter
  <2>4. OnRouter(v) = {}
    BY <2>3, OnRouterFinite, FS_EmptySet
  <2>5. \A r \in UsedRifs : rifTable[r].vrf # v
    BY <2>4 DEF OnRouter
  <2>6. \A w \in UsedVrs' : OnRouter(w)' = OnRouter(w)
    BY <2>1 DEF OnRouter
  <2>7. \A r \in UsedRifs : rifTable[r].vrf \in UsedVrs'
    BY <2>1, <2>5 DEF RefCounts
  <2> QED
    BY <2>1, <2>6, <2>7 DEF RefCounts
<1>7. ASSUME NEW r \in RifId, NEW v \in VrId, NEW miss \in MissActions,
             CreateRouterInterface(r, v, miss)
      PROVE  RefCounts'
  <2>1. /\ r \notin UsedRifs /\ UsedRifs' = UsedRifs \cup {r}
        /\ rifTable'[r].vrf = v
        /\ \A s \in UsedRifs : rifTable'[s] = rifTable[s]
    BY <1>7 DEF CreateRouterInterface, IsFirstFree, UsedRifs, TypeOK, NoRif
  <2>2. /\ v \in UsedVrs /\ UsedVrs' = UsedVrs
        /\ vrTable'[v].refs = vrTable[v].refs + 1
        /\ \A w \in UsedVrs \ {v} : vrTable'[w] = vrTable[w]
    BY <1>7 DEF CreateRouterInterface, Referenced, UsedVrs, TypeOK, VrType
  <2>3. \A w \in UsedVrs : OnRouter(w)' = IF w = v THEN OnRouter(v) \cup {r}
                                          ELSE OnRouter(w)
    BY <2>1 DEF OnRouter
  <2>4. r \notin OnRouter(v)
    BY <2>1 DEF OnRouter
  <2>5. Cardinality(OnRouter(v) \cup {r}) = Cardinality(OnRouter(v)) + 1
    BY <2>4, OnRouterFinite, FS_AddElement
  <2>6. \A w \in UsedVrs : vrTable[w].refs = Cardinality(OnRouter(w))
    BY DEF RefCounts, OnRouter
  <2>7. \A w \in UsedVrs' : vrTable'[w].refs = Cardinality(OnRouter(w)')
    BY <2>2, <2>3, <2>5, <2>6
  <2>8. \A s \in UsedRifs' : rifTable'[s].vrf \in UsedVrs'
    BY <2>1, <2>2 DEF RefCounts
  <2> QED
    BY <2>7, <2>8 DEF RefCounts, OnRouter
<1>8. ASSUME NEW r \in RifId, RemoveRouterInterface(r) PROVE RefCounts'
  <2> DEFINE v == rifTable[r].vrf
  <2>1. /\ r \in UsedRifs /\ UsedRifs' = UsedRifs \ {r}
        /\ \A s \in UsedRifs \ {r} : rifTable'[s] = rifTable[s]
    BY <1>8 DEF RemoveRouterInterface, UsedRifs, TypeOK, NoRif
  <2>2. v \in UsedVrs /\ r \in OnRouter(v)
    BY <2>1 DEF RefCounts, OnRouter
  <2>3. /\ Cardinality(OnRouter(v)) \in Nat
        /\ Cardinality(OnRouter(v) \ {r}) = Cardinality(OnRouter(v)) - 1
        /\ Cardinality(OnRouter(v)) # 0
    BY <2>2, OnRouterFinite, FS_RemoveElement, FS_EmptySet
  <2>4. \A w \in UsedVrs : vrTable[w].refs = Cardinality(OnRouter(w))
    BY DEF RefCounts, OnRouter
  <2>5. /\ UsedVrs' = UsedVrs
        /\ vrTable'[v].refs = vrTable[v].refs - 1
        /\ \A w \in UsedVrs \ {v} : vrTable'[w] = vrTable[w]
    <3>1. vrTable[v].valid /\ vrTable[v].refs # 0 /\ v \in VrId
      BY <2>2, <2>3, <2>4 DEF UsedVrs
    <3>2. vrTable' = [vrTable EXCEPT ![v].refs = @ - 1]
      BY <1>8, <3>1 DEF RemoveRouterInterface, Released
    <3> HIDE DEF v
    <3> QED
      BY <3>1, <3>2 DEF UsedVrs, TypeOK, VrType
  <2>6. \A w \in UsedVrs : OnRouter(w)' = IF w = v THEN OnRouter(v) \ {r}
                                          ELSE OnRouter(w)
    BY <2>1 DEF OnRouter
  <2> HIDE DEF v
  <2>7. \A w \in UsedVrs' : vrTable'[w].refs = Cardinality(OnRouter(w)')
    BY <2>2, <2>3, <2>4, <2>5, <2>6
  <2>8. \A s \in UsedRifs' : rifTable'[s].vrf \in UsedVrs'
    BY <2>1, <2>5 DEF RefCounts
  <2> QED
    BY <2>7, <2>8 DEF RefCounts, OnRouter
<1> QED
  BY <1>2, <1>3, <1>4, <1>5, <1>6, <1>7, <1>8
     DEF Next, VirtualRouterApi, RouterInterfaceApi

\* The count a virtual router is removed on is exact whatever else the
\* client does and whichever calls fail: it never reaches zero while an
\* interface is left, and no interface outlives its virtual router.
THEOREM RefCountsExact == Spec => []RefCounts
<1>1. Init => RefCounts
  BY DEF Init, RefCounts, UsedVrs, UsedRifs, NoVr, NoRif
<1>2. TypeOK /\ RefCounts /\ [Next]_vars => RefCounts'
  BY RefCountsStep
<1> QED
  BY <1>1, <1>2, TypeCorrect, PTL DEF Spec

-----------------------------------------------------------------------------
(* Neighbors, the lists of interfaces and the groups of the switch.        *)

\* No group is silently not made, and none refuses to be deleted.
GroupsReliable == Faults \cap {"groupSkip", "groupDelete"} = {}

\* What neighbors and the lists of interfaces agree on.
NbrInv == NbrLists /\ GroupPerNeighbor

\* Nothing NbrInv speaks of changes.
NbrsKept ==
  /\ \A r \in RifId : /\ rifTable'[r].valid = rifTable[r].valid
                      /\ rifTable'[r].nbrs = rifTable[r].nbrs
  /\ \A n \in NbrId : /\ nbrTable'[n].used = nbrTable[n].used
                      /\ nbrTable'[n].ip = nbrTable[n].ip
  /\ l3Group' = l3Group

\* Such a step keeps NbrInv.
LEMMA NbrInvKept ==
  ASSUME TypeOK, NbrInv, NbrsKept PROVE NbrInv'
<1>1. UsedRifs' = UsedRifs /\ UsedNbrs' = UsedNbrs
  BY DEF NbrsKept, UsedRifs, UsedNbrs
<1>2. \A r \in UsedRifs : /\ rifTable'[r].nbrs = rifTable[r].nbrs
                          /\ rifTable[r].nbrs \subseteq NbrId
  BY DEF NbrsKept, UsedRifs, TypeOK, RifType
<1>3. \A r \in UsedRifs : \A n \in rifTable[r].nbrs : nbrTable'[n].ip = nbrTable[n].ip
  BY <1>2 DEF NbrsKept
<1>4. UNION {rifTable'[r].nbrs : r \in UsedRifs} = UNION {rifTable[r].nbrs : r \in UsedRifs}
  BY <1>2
<1>5. NbrLists'
  BY <1>1, <1>2, <1>3, <1>4 DEF NbrInv, NbrLists
<1> QED
  BY <1>1, <1>5 DEF NbrInv, GroupPerNeighbor, NbrsKept

\* The calls that only count, resolve or route touch no neighbor's slot.
LEMMA OthersKeepNbrs ==
  ASSUME TypeOK, VirtualRouterApi \/ NextHopApi \/ RouteApi \/ UNCHANGED vars
  PROVE  NbrsKept
<1>1. CASE VirtualRouterApi \/ UNCHANGED vars
  BY <1>1 DEF VirtualRouterApi, CreateVirtualRouter, RemoveVirtualRouter, vars, NbrsKept
<1>2. CASE NextHopApi
  <2>1. /\ \E r \in RifId : \E nhs :
             rifTable' = [rifTable EXCEPT ![r] = [rifTable[r] EXCEPT !.nhs = nhs]]
        /\ \/ nbrTable' = nbrTable
           \/ \E n \in NbrId : \E h :
                nbrTable' = [nbrTable EXCEPT ![n] = [nbrTable[n] EXCEPT !.nh = h]]
        /\ l3Group' = l3Group
    BY <1>2 DEF NextHopApi, CreateNextHop, RemoveNextHop, TypeOK, NhType, UsedNbrs
  <2>2. \A r \in RifId : /\ rifTable'[r].valid = rifTable[r].valid
                         /\ rifTable'[r].nbrs = rifTable[r].nbrs
    BY <2>1 DEF TypeOK, RifType
  <2>3. \A n \in NbrId : /\ nbrTable'[n].used = nbrTable[n].used
                         /\ nbrTable'[n].ip = nbrTable[n].ip
    BY <2>1 DEF TypeOK, NbrType
  <2> QED
    BY <2>1, <2>2, <2>3 DEF NbrsKept
<1>3. CASE RouteApi
  <2>1. PICK k \in RouteKey :
          \/ \E act, hop, toCpu : CreateRoute(k, act, hop, toCpu)
          \/ RemoveRoute(k)
          \/ \E act : SetRouteAction(k, act)
          \/ \E type, i : SetRouteNextHop(k, type, i)
    BY <1>3 DEF RouteApi
  <2> DEFINE Moved == rifTable' = rifTable \/ \E out, in : Relist(k, out, in)
  <2>2. ASSUME NEW act, NEW hop, NEW toCpu, CreateRoute(k, act, hop, toCpu)
        PROVE  Moved /\ UNCHANGED <<nbrTable, l3Group>>
    BY <2>2 DEF CreateRoute
  <2>3. ASSUME RemoveRoute(k)
        PROVE  Moved /\ UNCHANGED <<nbrTable, l3Group>>
    <3>1. Relist(k, routeTable[k], NoRoute) /\ UNCHANGED <<nbrTable, l3Group>>
      BY <2>3 DEF RemoveRoute
    <3> QED
      BY <3>1
  <2>4. ASSUME NEW act, SetRouteAction(k, act)
        PROVE  Moved /\ UNCHANGED <<nbrTable, l3Group>>
    BY <2>4 DEF SetRouteAction
  <2>5. ASSUME NEW type, NEW i, SetRouteNextHop(k, type, i)
        PROVE  Moved /\ UNCHANGED <<nbrTable, l3Group>>
    BY <2>5 DEF SetRouteNextHop
  <2>6. Moved /\ UNCHANGED <<nbrTable, l3Group>>
    <3> HIDE DEF Moved
    <3> QED
      BY <2>1, <2>2, <2>3, <2>4, <2>5
  <2> QED
    BY <2>6 DEF NbrsKept, Relist, TypeOK, RifType
<1> QED
  BY <1>1, <1>2, <1>3

\* A new interface lists no neighbor and an old one goes only when it lists
\* none, so that neither changes what is listed.
LEMMA InterfacesKeepNbrInv ==
  ASSUME TypeOK, NbrInv, RouterInterfaceApi PROVE NbrInv'
<1>1. UNCHANGED <<nbrTable, l3Group>> /\ UsedNbrs' = UsedNbrs
  BY DEF RouterInterfaceApi, CreateRouterInterface, RemoveRouterInterface, UsedNbrs
<1>2. ASSUME NEW r \in RifId, NEW v \in VrId, NEW miss \in MissActions,
             CreateRouterInterface(r, v, miss)
      PROVE  NbrInv'
  <2>1. /\ UsedRifs' = UsedRifs \cup {r} /\ rifTable'[r].nbrs = {}
        /\ \A s \in UsedRifs : rifTable'[s].nbrs = rifTable[s].nbrs
    BY <1>2 DEF CreateRouterInterface, IsFirstFree, UsedRifs, TypeOK, NoRif
  <2>2. UNION {rifTable'[s].nbrs : s \in UsedRifs'}
          = UNION {rifTable[s].nbrs : s \in UsedRifs}
    BY <2>1
  <2> QED
    BY <1>1, <2>1, <2>2 DEF NbrInv, NbrLists, GroupPerNeighbor
<1>3. ASSUME NEW r \in RifId, RemoveRouterInterface(r) PROVE NbrInv'
  <2>1. /\ UsedRifs' = UsedRifs \ {r} /\ rifTable[r].nbrs = {}
        /\ \A s \in UsedRifs \ {r} : rifTable'[s].nbrs = rifTable[s].nbrs
    BY <1>3 DEF RemoveRouterInterface, UsedRifs, TypeOK, NoRif
  <2>2. UNION {rifTable'[s].nbrs : s \in UsedRifs'}
          = UNION {rifTable[s].nbrs : s \in UsedRifs}
    BY <2>1
  <2> QED
    BY <1>1, <2>1, <2>2 DEF NbrInv, NbrLists, GroupPerNeighbor
<1> QED
  BY <1>2, <1>3 DEF RouterInterfaceApi

\* What a creation does to the tables of neighbors: the first free slot is
\* filled, listed once, and given its group.
LEMMA NeighborCreated ==
  ASSUME TypeOK, NbrInv, GroupsReliable,
         NEW n \in NbrId, NEW r \in RifId, NEW a \in Ip, CreateNeighbor(n, r, a)
  PROVE  /\ r \in UsedRifs /\ UsedRifs' = UsedRifs
         /\ n \notin UsedNbrs /\ UsedNbrs' = UsedNbrs \cup {n}
         /\ l3Group' = l3Group \cup {n}
         /\ rifTable' = [rifTable EXCEPT ![r].nbrs = @ \cup {n}]
         /\ nbrTable'[n].ip = a
         /\ \E h \in MatchedNh(r, a) : nbrTable'[n].nh = h
         /\ \A m \in NbrId \ {n} : nbrTable'[m] = nbrTable[m]
<1>1. /\ r \in UsedRifs /\ n \notin UsedNbrs
      /\ rifTable' = [rifTable EXCEPT ![r].nbrs = @ \cup {n}]
      /\ l3Group' = l3Group \cup {n}
      /\ \E h \in MatchedNh(r, a) :
            nbrTable' = [nbrTable EXCEPT ![n] = [used |-> TRUE, ip |-> a, nh |-> h]]
  BY DEF CreateNeighbor, IsFirstFree, UsedRifs, GroupAdded, GroupsReliable
<1>2. UsedRifs' = UsedRifs
  BY <1>1 DEF UsedRifs, TypeOK, RifType
<1>3. UsedNbrs' = UsedNbrs \cup {n}
  BY <1>1 DEF UsedNbrs, TypeOK
<1> QED
  BY <1>1, <1>2, <1>3 DEF TypeOK

\* And a removal: the one neighbor with the address goes from everywhere.
LEMMA NeighborRemoved ==
  ASSUME TypeOK, NbrInv, GroupsReliable,
         NEW r \in RifId, NEW a \in Ip, RemoveNeighbor(r, a)
  PROVE  /\ r \in UsedRifs /\ UsedRifs' = UsedRifs
         /\ \E n \in NbrId :
              /\ NbrMatches(r, a) = {n}
              /\ UsedNbrs' = UsedNbrs \ {n}
              /\ l3Group' = l3Group \ {n}
              /\ rifTable' = [rifTable EXCEPT ![r].nbrs = @ \ {n}]
              /\ nbrTable' = [nbrTable EXCEPT ![n] = NoNbr]
<1>1. r \in UsedRifs
  BY DEF RemoveNeighbor, UsedRifs
<1>2. PICK n \in NbrMatches(r, a) : GroupDeleted(n, r)
  BY DEF RemoveNeighbor
<1>3. n \in NbrId /\ n \in UsedNbrs /\ NbrMatches(r, a) = {n}
  <2>1. rifTable[r].nbrs \subseteq NbrId
    BY DEF TypeOK, RifType
  <2> QED
    BY <1>1, <1>2, <2>1 DEF NbrMatches, NbrInv, NbrLists, UsedNbrs
<1>4. /\ l3Group' = l3Group \ {n}
      /\ nbrTable' = [nbrTable EXCEPT ![n] = NoNbr]
      /\ rifTable' = [rifTable EXCEPT ![r].nbrs = @ \ {n}]
  BY <1>2, <1>3 DEF GroupDeleted, GroupsReliable, NbrInv, GroupPerNeighbor
<1>5. UsedNbrs' = UsedNbrs \ {n}
  BY <1>4 DEF UsedNbrs, TypeOK, NoNbr
<1>6. UsedRifs' = UsedRifs
  BY <1>4 DEF UsedRifs, TypeOK, RifType
<1> QED
  BY <1>1, <1>3, <1>4, <1>5, <1>6

\* The loop over all neighbors finds a group for each, and so never stops.
LEMMA AllNeighborsRemoved ==
  ASSUME TypeOK, NbrInv, GroupsReliable, RemoveAllNeighbors
  PROVE  /\ RemoveReached(UsedRifs, UsedNbrs, {})
         /\ UsedRifs' = UsedRifs /\ UsedNbrs' = {} /\ l3Group' = {}
         /\ \A r \in UsedRifs : rifTable'[r].nbrs = {}
<1>1. Listed(UsedRifs) = UsedNbrs
  BY DEF Listed, NbrInv, NbrLists
<1>2. RemoveReached(UsedRifs, UsedNbrs, {})
  <2>1. ASSUME NEW last \in UsedRifs, NEW n \in rifTable[last].nbrs PROVE n \in l3Group
    BY <1>1, <2>1 DEF Listed, NbrInv, GroupPerNeighbor
  <2> QED
    BY <1>1, <2>1 DEF RemoveAllNeighbors, GroupsReliable
<1>3. /\ nbrTable' = [n \in NbrId |-> IF n \in UsedNbrs THEN NoNbr ELSE nbrTable[n]]
      /\ rifTable' = [r \in RifId |-> IF r \in UsedRifs
                                      THEN [rifTable[r] EXCEPT !.nbrs = {}]
                                      ELSE rifTable[r]]
      /\ l3Group' = l3Group \ UsedNbrs
  BY <1>2 DEF RemoveReached
<1>4. UsedNbrs' = {}
  BY <1>3 DEF UsedNbrs, NoNbr
<1>5. UsedRifs' = UsedRifs /\ \A r \in UsedRifs : rifTable'[r].nbrs = {}
  BY <1>3 DEF UsedRifs, TypeOK, RifType
<1>6. l3Group' = {}
  BY <1>3 DEF NbrInv, GroupPerNeighbor
<1> QED
  BY <1>2, <1>4, <1>5, <1>6

\* Every call of the neighbor API keeps what is listed, used and grouped.
LEMMA NeighborsKeepNbrInv ==
  ASSUME TypeOK, NbrInv, GroupsReliable, NeighborApi PROVE NbrInv'
<1>1. ASSUME NEW n \in NbrId, NEW r \in RifId, NEW a \in Ip, CreateNeighbor(n, r, a)
      PROVE  NbrInv'
  <2>1. /\ r \in UsedRifs /\ UsedRifs' = UsedRifs
        /\ n \notin UsedNbrs /\ UsedNbrs' = UsedNbrs \cup {n}
        /\ l3Group' = l3Group \cup {n}
        /\ rifTable' = [rifTable EXCEPT ![r].nbrs = @ \cup {n}]
        /\ nbrTable'[n].ip = a
        /\ \A m \in NbrId \ {n} : nbrTable'[m] = nbrTable[m]
    BY <1>1, NeighborCreated
  <2>2. /\ rifTable'[r].nbrs = rifTable[r].nbrs \cup {n}
        /\ \A s \in UsedRifs \ {r} : rifTable'[s].nbrs = rifTable[s].nbrs
    BY <2>1 DEF TypeOK, RifType, UsedRifs
  <2>3. \A s \in UsedRifs : n \notin rifTable[s].nbrs /\ rifTable[s].nbrs \subseteq NbrId
    BY <2>1 DEF NbrInv, NbrLists, TypeOK, RifType, UsedRifs
  <2>4. \A m \in rifTable[r].nbrs : nbrTable[m].ip # a
    <3>1. NbrMatches(r, a) = {}
      BY <1>1 DEF CreateNeighbor
    <3> QED
      BY <2>1, <3>1 DEF NbrMatches, NbrInv, NbrLists, UsedNbrs
  <2>5. UsedNbrs' = UNION {rifTable'[s].nbrs : s \in UsedRifs'}
    BY <2>1, <2>2 DEF NbrInv, NbrLists
  <2>6. \A s, q \in UsedRifs' : s # q => rifTable'[s].nbrs \cap rifTable'[q].nbrs = {}
    BY <2>1, <2>2, <2>3 DEF NbrInv, NbrLists
  <2>7. \A s \in UsedRifs' : \A m, o \in rifTable'[s].nbrs :
          nbrTable'[m].ip = nbrTable'[o].ip => m = o
    <3>1. ASSUME NEW s \in UsedRifs, NEW m \in rifTable[s].nbrs
          PROVE  nbrTable'[m] = nbrTable[m] /\ m # n
      BY <2>1, <2>3, <3>1
    <3> QED
      BY <2>1, <2>2, <2>3, <2>4, <3>1 DEF NbrInv, NbrLists
  <2>8. NbrLists'
    BY <2>5, <2>6, <2>7 DEF NbrLists
  <2> QED
    BY <2>1, <2>8 DEF NbrInv, GroupPerNeighbor
<1>2. ASSUME NEW r \in RifId, NEW a \in Ip, RemoveNeighbor(r, a) PROVE NbrInv'
  <2>1. r \in UsedRifs /\ UsedRifs' = UsedRifs
    BY <1>2, NeighborRemoved
  <2>2. PICK n \in NbrId :
              /\ NbrMatches(r, a) = {n}
              /\ UsedNbrs' = UsedNbrs \ {n}
              /\ l3Group' = l3Group \ {n}
              /\ rifTable' = [rifTable EXCEPT ![r].nbrs = @ \ {n}]
              /\ nbrTable' = [nbrTable EXCEPT ![n] = NoNbr]
    BY <1>2, NeighborRemoved
  <2>3. n \in rifTable[r].nbrs
    BY <2>2 DEF NbrMatches
  <2>4. \A s \in UsedRifs : /\ rifTable'[s].nbrs = rifTable[s].nbrs \ {n}
                            /\ rifTable[s].nbrs \subseteq NbrId
    BY <2>1, <2>2, <2>3 DEF NbrInv, NbrLists, UsedRifs, TypeOK, RifType
  <2>5. UsedNbrs' = UNION {rifTable'[s].nbrs : s \in UsedRifs'}
    BY <2>1, <2>2, <2>4 DEF NbrInv, NbrLists
  <2>6. \A s \in UsedRifs : \A m \in rifTable'[s].nbrs :
          nbrTable'[m] = nbrTable[m] /\ m \in rifTable[s].nbrs
    BY <2>2, <2>4 DEF TypeOK
  <2>7. NbrLists'
    BY <2>1, <2>4, <2>5, <2>6 DEF NbrInv, NbrLists
  <2> QED
    BY <2>2, <2>7 DEF NbrInv, GroupPerNeighbor
<1>3. CASE RemoveAllNeighbors
  BY <1>3, AllNeighborsRemoved DEF NbrInv, NbrLists, GroupPerNeighbor
<1> QED
  BY <1>1, <1>2, <1>3 DEF NeighborApi

\* NbrInv is inductive.
LEMMA NbrInvHolds == Spec => [](GroupsReliable => NbrInv)
<1>1. Init => (GroupsReliable => NbrInv)
  BY DEF Init, NbrInv, NbrLists, GroupPerNeighbor, UsedRifs, UsedNbrs, NoRif, NoNbr
<1>2. TypeOK /\ (GroupsReliable => NbrInv) /\ [Next]_vars => (GroupsReliable => NbrInv)'
  <2>1. GroupsReliable' = GroupsReliable
    BY DEF GroupsReliable
  <2> QED
    BY <2>1, NbrInvKept, OthersKeepNbrs, InterfacesKeepNbrInv, NeighborsKeepNbrInv
       DEF Next
<1> QED
  BY <1>1, <1>2, TypeCorrect, PTL DEF Spec

\* Where every group asked for is made and deleted, a neighbor slot is in
\* use exactly when one live interface lists it, once per address, in
\* whatever order a careless client calls and whatever routes are lost.
THEOREM NeighborListsCorrect == Spec => [](GroupsReliable => NbrLists)
<1>1. (GroupsReliable => NbrInv) => (GroupsReliable => NbrLists)
  BY DEF NbrInv
<1> QED
  BY <1>1, NbrInvHolds, PTL

\* And the switch has the group of a neighbor as long as the neighbor.
THEOREM GroupsFollowNeighbors == Spec => [](GroupsReliable => GroupPerNeighbor)
<1>1. (GroupsReliable => NbrInv) => (GroupsReliable => GroupPerNeighbor)
  BY DEF NbrInv
<1> QED
  BY <1>1, NbrInvHolds, PTL

-----------------------------------------------------------------------------
(* What next hops resolve to.                                              *)

\* One neighbor at most has an address on an interface, so that the choice
\* ResolveAt makes is no choice.
LEMMA Resolution ==
  TypeOK /\ NbrInv =>
    \A r \in UsedRifs : \A a :
      \/ NbrMatches(r, a) = {} /\ ResolveAt(r, a) = MissId(r)
      \/ \E n \in UsedNbrs : NbrMatches(r, a) = {n} /\ ResolveAt(r, a) = n
<1> SUFFICES ASSUME TypeOK, NbrInv, NEW r \in UsedRifs, NEW a,
                    NEW n \in NbrMatches(r, a)
             PROVE  n \in UsedNbrs /\ NbrMatches(r, a) = {n} /\ ResolveAt(r, a) = n
  BY DEF ResolveAt
<1>1. n \in UsedNbrs
  BY DEF NbrMatches, UsedNbrs, UsedRifs, TypeOK, RifType
<1>2. NbrMatches(r, a) = {n}
  BY DEF NbrMatches, NbrInv, NbrLists
<1> QED
  BY <1>1, <1>2 DEF ResolveAt

\* The reserved ids are no slots.
LEMMA MissIsNoNeighbor ==
  ASSUME NEW r PROVE MissId(r) \notin NbrId
  BY SlotTypes DEF MissId, TrapId, DropId

\* A neighbor is found by one interface and address only.
LEMMA FoundOnce ==
  ASSUME NbrInv, NEW r \in UsedRifs, NEW s \in UsedRifs, NEW a, NEW b,
         NEW n \in NbrMatches(r, a), n \in NbrMatches(s, b)
  PROVE  r = s /\ a = b
  BY DEF NbrMatches, NbrInv, NbrLists

\* A next hop is found by its own interface and address only.
LEMMA NhFound ==
  ASSUME NhLists, NEW g \in UsedNhs, NEW r \in UsedRifs, NEW a
  PROVE  g \in NhMatches(r, a) <=> nhTable[g].rif = r /\ nhTable[g].ip = a
  BY DEF NhMatches, NhLists, UsedNhs

\* Resolution sees an interface's neighbors and miss action, nothing else.
LEMMA SameResolution ==
  ASSUME NEW r, NEW a, NbrMatches(r, a)' = NbrMatches(r, a),
         rifTable'[r].miss = rifTable[r].miss
  PROVE  ResolveAt(r, a)' = ResolveAt(r, a)
<1>1. MissId(r)' = MissId(r)
  BY DEF MissId
<1> QED
  BY <1>1 DEF ResolveAt

\* What NextHopResolved says of one next hop.
NhResolved(h) ==
  /\ nhTable[h].nbr = ResolveAt(nhTable[h].rif, nhTable[h].ip)
  /\ nhTable[h].nbr \in NbrId => nbrTable[nhTable[h].nbr].nh = h

\* The same of the next state, in terms of what the next hop then holds.
LEMMA ResolvedNext ==
  ASSUME NEW h, NEW r, NEW a, NEW nbr,
         nhTable'[h].rif = r, nhTable'[h].ip = a, nhTable'[h].nbr = nbr,
         ResolveAt(r, a)' = nbr, nbr \in NbrId => nbrTable'[nbr].nh = h
  PROVE  NhResolved(h)'
  BY DEF NhResolved

\* Steps that change neither neighbors nor what next hops hold.
LEMMA ResolvedKept ==
  ASSUME TypeOK, NhLists, NextHopResolved, NbrsKept, NhsKept,
         \A h \in NhId : nhTable'[h].nbr = nhTable[h].nbr,
         \A n \in NbrId : nbrTable'[n].nh = nbrTable[n].nh,
         \A r \in RifId : rifTable'[r].miss = rifTable[r].miss
  PROVE  NextHopResolved'
<1> SUFFICES ASSUME NEW h \in UsedNhs' PROVE NhResolved(h)'
  BY DEF NextHopResolved, NhResolved
<1> PICK r, a, nbr : /\ r = nhTable[h].rif /\ a = nhTable[h].ip
                     /\ nbr = nhTable[h].nbr
  OBVIOUS
<1>1. /\ h \in UsedNhs /\ nhTable'[h].rif = r /\ nhTable'[h].ip = a
      /\ nhTable'[h].nbr = nbr /\ r \in RifId
  BY DEF NhsKept, UsedNhs, TypeOK, NhType
<1>2. NbrMatches(r, a)' = NbrMatches(r, a)
  BY <1>1 DEF NbrMatches, NbrsKept, TypeOK, RifType
<1>3. ResolveAt(r, a)' = ResolveAt(r, a)
  BY <1>1, <1>2, SameResolution
<1>4. ResolveAt(r, a) = nbr /\ (nbr \in NbrId => nbrTable'[nbr].nh = h)
  BY <1>1 DEF NextHopResolved
<1> QED
  BY <1>1, <1>3, <1>4, ResolvedNext

\* Calls of the route API change no neighbor, and of other tables the lists.
LEMMA RoutesKeepNbrTable ==
  ASSUME RouteApi
  PROVE  /\ nbrTable' = nbrTable
         /\ UNCHANGED <<nhTable, rifTable>> \/ \E k, out, in : Relist(k, out, in)
<1>1. PICK k \in RouteKey :
        \/ \E act, hop, toCpu : CreateRoute(k, act, hop, toCpu)
        \/ RemoveRoute(k)
        \/ \E act : SetRouteAction(k, act)
        \/ \E type, i : SetRouteNextHop(k, type, i)
  BY DEF RouteApi
<1> DEFINE Moved == UNCHANGED <<nhTable, rifTable>>
                      \/ \E j, out, in : Relist(j, out, in)
<1>2. ASSUME NEW act, NEW hop, NEW toCpu, CreateRoute(k, act, hop, toCpu)
      PROVE  nbrTable' = nbrTable /\ Moved
  BY <1>2 DEF CreateRoute
<1>3. ASSUME RemoveRoute(k)
      PROVE  nbrTable' = nbrTable /\ Moved
  BY <1>3 DEF RemoveRoute
<1>4. ASSUME NEW act, SetRouteAction(k, act)
      PROVE  nbrTable' = nbrTable /\ Moved
  BY <1>4 DEF SetRouteAction
<1>5. ASSUME NEW type, NEW i, SetRouteNextHop(k, type, i)
      PROVE  nbrTable' = nbrTable /\ Moved
  BY <1>5 DEF SetRouteNextHop
<1> QED
  BY <1>1, <1>2, <1>3, <1>4, <1>5

\* Thus they are such steps.
LEMMA RoutesKeepResolved ==
  ASSUME TypeOK, NhLists, NextHopResolved, RouteApi PROVE NextHopResolved'
<1>1. /\ nbrTable' = nbrTable
      /\ UNCHANGED <<nhTable, rifTable>> \/ \E k, out, in : Relist(k, out, in)
  BY RoutesKeepNbrTable
<1>2. ASSUME NEW k, NEW out, NEW in, Relist(k, out, in)
      PROVE  /\ \A h \in NhId : nhTable'[h].nbr = nhTable[h].nbr
             /\ \A r \in RifId : rifTable'[r].miss = rifTable[r].miss
  BY <1>2 DEF Relist, TypeOK, NhType, RifType
<1> QED
  BY <1>1, <1>2, OthersKeepNbrs, RouteKeeps, ResolvedKept

\* Interfaces come without next hops and do not go while they have any.
LEMMA InterfacesKeepResolved ==
  ASSUME TypeOK, NhLists, NextHopResolved, RouterInterfaceApi
  PROVE  NextHopResolved'
<1>1. UNCHANGED <<nbrTable, nhTable>> /\ UsedNhs' = UsedNhs
  BY DEF RouterInterfaceApi, CreateRouterInterface, RemoveRouterInterface, UsedNhs
<1>2. \A h \in UsedNhs : rifTable'[nhTable[h].rif] = rifTable[nhTable[h].rif]
  <2>1. ASSUME NEW r \in RifId, NEW v \in VrId, NEW miss \in MissActions,
               CreateRouterInterface(r, v, miss)
        PROVE  r \notin UsedRifs /\ \A s \in UsedRifs : rifTable'[s] = rifTable[s]
    BY <2>1 DEF CreateRouterInterface, IsFirstFree, UsedRifs, TypeOK
  <2>2. ASSUME NEW r \in RifId, RemoveRouterInterface(r)
        PROVE  /\ r \in UsedRifs /\ rifTable[r].nhs = {}
               /\ \A s \in UsedRifs \ {r} : rifTable'[s] = rifTable[s]
    BY <2>2 DEF RemoveRouterInterface, UsedRifs, TypeOK
  <2>3. \A h \in UsedNhs : /\ nhTable[h].rif \in UsedRifs
                           /\ h \in rifTable[nhTable[h].rif].nhs
    BY DEF NhLists
  <2> QED
    BY <2>1, <2>2, <2>3 DEF RouterInterfaceApi
<1>3. ASSUME NEW h \in UsedNhs PROVE NhResolved(h)'
  <2> PICK r, a, nbr : /\ r = nhTable[h].rif /\ a = nhTable[h].ip
                       /\ nbr = nhTable[h].nbr
    OBVIOUS
  <2>1. rifTable'[r] = rifTable[r] /\ nhTable' = nhTable
    BY <1>1, <1>2, <1>3
  <2>2. NbrMatches(r, a)' = NbrMatches(r, a)
    BY <1>1, <2>1 DEF NbrMatches
  <2>3. ResolveAt(r, a)' = ResolveAt(r, a)
    BY <2>1, <2>2, SameResolution
  <2>4. ResolveAt(r, a) = nbr /\ (nbr \in NbrId => nbrTable'[nbr].nh = h)
    BY <1>1, <1>3 DEF NextHopResolved
  <2> QED
    BY <2>1, <2>3, <2>4, ResolvedNext
<1> QED
  BY <1>1, <1>3 DEF NextHopResolved, NhResolved

\* A new next hop takes a neighbor no other next hop has, and tells it.
LEMMA CreateNextHopResolves ==
  ASSUME TypeOK, NbrInv, NhLists, NextHopResolved,
         NEW h \in NhId, NEW r \in RifId, NEW a \in Ip, CreateNextHop(h, r, a)
  PROVE  NextHopResolved'
<1> PICK nbr : nbr = ResolveAt(r, a)
  OBVIOUS
<1>1. /\ r \in UsedRifs /\ NhMatches(r, a) = {}
      /\ h \notin UsedNhs /\ UsedNhs' = UsedNhs \cup {h}
      /\ nhTable'[h] = [used |-> TRUE, rif |-> r, ip |-> a, nbr |-> nbr, routes |-> {}]
      /\ \A g \in UsedNhs : nhTable'[g] = nhTable[g]
      /\ nbrTable' = IF nbr \in UsedNbrs THEN [nbrTable EXCEPT ![nbr].nh = h]
                     ELSE nbrTable
  BY DEF CreateNextHop, UsedRifs, UsedNhs, IsFirstFree, TypeOK
<1>2. \A s, b : ResolveAt(s, b)' = ResolveAt(s, b) \/ s \notin RifId
  <2> SUFFICES ASSUME NEW s \in RifId, NEW b PROVE ResolveAt(s, b)' = ResolveAt(s, b)
    OBVIOUS
  <2>1. rifTable'[s].nbrs = rifTable[s].nbrs /\ rifTable'[s].miss = rifTable[s].miss
    BY DEF CreateNextHop, TypeOK, RifType
  <2>2. NbrsKept
    BY OthersKeepNbrs DEF NextHopApi
  <2>3. NbrMatches(s, b)' = NbrMatches(s, b)
    BY <2>1, <2>2 DEF NbrMatches, NbrsKept, TypeOK, RifType
  <2> QED
    BY <2>1, <2>3, SameResolution
<1>3. nbr \in NbrId => nbr \in UsedNbrs
  BY <1>1, Resolution, MissIsNoNeighbor
<1>4. ASSUME NEW g \in UsedNhs, nhTable[g].nbr \in NbrId
      PROVE  nhTable[g].nbr # nbr
  <2> DEFINE s == nhTable[g].rif
             b == nhTable[g].ip
  <2>1. s \in UsedRifs /\ nhTable[g].nbr = ResolveAt(s, b)
    BY <1>4 DEF NhLists, NextHopResolved
  <2>2. nhTable[g].nbr \in NbrMatches(s, b)
    BY <1>4, <2>1, Resolution, MissIsNoNeighbor
  <2>3. nbr \in NbrId => nbr \in NbrMatches(r, a)
    BY <1>1, Resolution, MissIsNoNeighbor
  <2>4. ~(s = r /\ b = a)
    BY <1>1, <1>4, NhFound
  <2> QED
    BY <1>1, <1>4, <2>1, <2>2, <2>3, <2>4, FoundOnce
<1>5. \A g \in UsedNhs : nhTable[g].nbr \in NbrId =>
        nbrTable'[nhTable[g].nbr].nh = nbrTable[nhTable[g].nbr].nh
  BY <1>1, <1>4 DEF TypeOK
<1>6. nbr \in NbrId => nbrTable'[nbr].nh = h
  BY <1>1, <1>3 DEF TypeOK, NbrType
<1>7. \A g \in UsedNhs : nhTable[g].rif \in RifId
  BY DEF UsedNhs, TypeOK, NhType
<1>8. NhResolved(h)'
  BY <1>1, <1>2, <1>6, ResolvedNext
<1>9. ASSUME NEW g \in UsedNhs PROVE NhResolved(g)'
  <2> PICK s, b, n : s = nhTable[g].rif /\ b = nhTable[g].ip /\ n = nhTable[g].nbr
    OBVIOUS
  <2>1. /\ ResolveAt(s, b)' = n /\ nhTable'[g] = nhTable[g]
        /\ n \in NbrId => nbrTable'[n].nh = g
    BY <1>1, <1>2, <1>5, <1>7 DEF NextHopResolved
  <2> QED
    BY <2>1, ResolvedNext
<1> QED
  BY <1>1, <1>8, <1>9 DEF NextHopResolved, NhResolved

\* An old one is forgotten by its own neighbor only.
LEMMA RemoveNextHopResolves ==
  ASSUME TypeOK, NbrInv, NhLists, NextHopResolved, NEW h \in NhId, RemoveNextHop(h)
  PROVE  NextHopResolved'
<1> PICK nbr : nbr = nhTable[h].nbr
  OBVIOUS
<1>1. /\ h \in UsedNhs /\ UsedNhs' = UsedNhs \ {h}
      /\ \A g \in UsedNhs \ {h} : nhTable'[g] = nhTable[g]
      /\ nbrTable' = IF nbr \in UsedNbrs
                     THEN [nbrTable EXCEPT ![nbr].nh = InvalidId] ELSE nbrTable
  BY DEF RemoveNextHop, UsedNhs, TypeOK, NoNh
<1>2. ASSUME NEW s \in RifId, NEW b PROVE ResolveAt(s, b)' = ResolveAt(s, b)
  <2>1. rifTable'[s].nbrs = rifTable[s].nbrs /\ rifTable'[s].miss = rifTable[s].miss
    BY DEF RemoveNextHop, TypeOK, RifType
  <2>2. NbrsKept
    BY OthersKeepNbrs DEF NextHopApi
  <2>3. NbrMatches(s, b)' = NbrMatches(s, b)
    BY <2>1, <2>2 DEF NbrMatches, NbrsKept, TypeOK, RifType
  <2> QED
    BY <2>1, <2>3, SameResolution
<1>3. \A g \in UsedNhs \ {h} : nhTable[g].nbr \in NbrId => nhTable[g].nbr # nbr
  BY <1>1 DEF NextHopResolved
<1>4. \A g \in UsedNhs \ {h} : nhTable[g].nbr \in NbrId =>
        nbrTable'[nhTable[g].nbr].nh = nbrTable[nhTable[g].nbr].nh
  BY <1>1, <1>3 DEF TypeOK
<1>5. \A g \in UsedNhs : nhTable[g].rif \in RifId
  BY DEF UsedNhs, TypeOK, NhType
<1>6. ASSUME NEW g \in UsedNhs \ {h} PROVE NhResolved(g)'
  <2> PICK s, b, n : s = nhTable[g].rif /\ b = nhTable[g].ip /\ n = nhTable[g].nbr
    OBVIOUS
  <2>1. /\ ResolveAt(s, b)' = n /\ nhTable'[g] = nhTable[g]
        /\ n \in NbrId => nbrTable'[n].nh = g
    BY <1>1, <1>2, <1>4, <1>5 DEF NextHopResolved
  <2> QED
    BY <2>1, ResolvedNext
<1> QED
  BY <1>1, <1>6 DEF NextHopResolved, NhResolved

\* What telling next hops of a neighbor does to them.
LEMMA RetargetSets ==
  ASSUME TypeOK, NEW nhTo, NEW routeTo, NEW Lost, Retarget(nhTo, routeTo, Lost)
  PROVE  /\ UsedNhs' = UsedNhs
         /\ \A g \in NhId :
              /\ nhTable'[g].rif = nhTable[g].rif /\ nhTable'[g].ip = nhTable[g].ip
              /\ nhTable'[g].nbr = IF g \in DOMAIN nhTo THEN nhTo[g]
                                   ELSE nhTable[g].nbr
  BY DEF Retarget, TypeOK, NhType, UsedNhs

\* The next hops with an address are told of its neighbor, and no other.
LEMMA ToldNextHops ==
  ASSUME TypeOK, NEW r, NEW a, NEW nbr, UpdateNbrId(r, a, nbr)
  PROVE  /\ UsedNhs' = UsedNhs
         /\ \A g \in NhId :
              /\ nhTable'[g].rif = nhTable[g].rif /\ nhTable'[g].ip = nhTable[g].ip
              /\ nhTable'[g].nbr = IF g \in NhMatches(r, a) THEN nbr
                                   ELSE nhTable[g].nbr
<1> DEFINE nhTo == [h \in NhMatches(r, a) |-> nbr]
<1>1. \E routeTo, Lost : Retarget(nhTo, routeTo, Lost)
  BY DEF UpdateNbrId
<1>2. DOMAIN nhTo = NhMatches(r, a) /\ \A g \in NhMatches(r, a) : nhTo[g] = nbr
  OBVIOUS
<1> HIDE DEF nhTo
<1> QED
  BY <1>1, <1>2, RetargetSets

\* After a creation the address resolves to the new neighbor; any other
\* resolves as before.
LEMMA CreatedResolution ==
  ASSUME TypeOK, NbrInv, GroupsReliable,
         NEW n \in NbrId, NEW r \in RifId, NEW a \in Ip, CreateNeighbor(n, r, a)
  PROVE  /\ ResolveAt(r, a)' = n
         /\ \A s \in UsedRifs : \A b : ~(s = r /\ b = a) =>
              ResolveAt(s, b)' = ResolveAt(s, b)
<1>1. /\ r \in UsedRifs /\ n \notin UsedNbrs
      /\ rifTable' = [rifTable EXCEPT ![r].nbrs = @ \cup {n}]
      /\ nbrTable'[n].ip = a /\ nbrTable'[n].used
      /\ \A m \in NbrId \ {n} : nbrTable'[m] = nbrTable[m]
  BY NeighborCreated DEF UsedNbrs
<1>2. \A s \in RifId : /\ rifTable'[s].miss = rifTable[s].miss
                       /\ rifTable'[s].nbrs = IF s = r THEN rifTable[r].nbrs \cup {n}
                                              ELSE rifTable[s].nbrs
                       /\ rifTable[s].nbrs \subseteq NbrId
  BY <1>1 DEF TypeOK, RifType
<1>3. \A s \in UsedRifs : n \notin rifTable[s].nbrs /\ s \in RifId
  BY <1>1 DEF NbrInv, NbrLists, UsedRifs
<1>4. ResolveAt(r, a)' = n
  <2>1. NbrMatches(r, a) = {}
    BY DEF CreateNeighbor
  <2>2. NbrMatches(r, a)' = {n}
    <3>1. \A m \in rifTable[r].nbrs : nbrTable'[m] = nbrTable[m]
      BY <1>1, <1>2, <1>3
    <3> QED
      BY <1>1, <1>2, <2>1, <3>1 DEF NbrMatches
  <2> QED
    BY <2>2 DEF ResolveAt
<1>5. ASSUME NEW s \in UsedRifs, NEW b, ~(s = r /\ b = a)
      PROVE  ResolveAt(s, b)' = ResolveAt(s, b)
  <2>1. NbrMatches(s, b)' = NbrMatches(s, b)
    <3>1. \A m \in rifTable[s].nbrs : nbrTable'[m] = nbrTable[m]
      BY <1>1, <1>2, <1>3, <1>5
    <3>2. s \in RifId
      BY <1>3, <1>5
    <3> QED
      BY <1>1, <1>2, <1>5, <3>1, <3>2 DEF NbrMatches
  <2> QED
    BY <1>2, <1>3, <2>1, SameResolution
<1> QED
  BY <1>4, <1>5

\* After a removal it resolves to the miss action of the interface.
LEMMA RemovedResolution ==
  ASSUME TypeOK, NbrInv, GroupsReliable,
         NEW r \in RifId, NEW a \in Ip, RemoveNeighbor(r, a)
  PROVE  /\ ResolveAt(r, a)' = MissId(r)
         /\ \A s \in UsedRifs : \A b : ~(s = r /\ b = a) =>
              ResolveAt(s, b)' = ResolveAt(s, b)
<1>1. r \in UsedRifs
  BY NeighborRemoved
<1>2. PICK n \in NbrId :
        /\ NbrMatches(r, a) = {n}
        /\ rifTable' = [rifTable EXCEPT ![r].nbrs = @ \ {n}]
        /\ nbrTable' = [nbrTable EXCEPT ![n] = NoNbr]
  BY NeighborRemoved
<1>3. \A s \in RifId : /\ rifTable'[s].miss = rifTable[s].miss
                       /\ rifTable'[s].nbrs = IF s = r THEN rifTable[r].nbrs \ {n}
                                              ELSE rifTable[s].nbrs
                       /\ rifTable[s].nbrs \subseteq NbrId
  BY <1>2 DEF TypeOK, RifType
<1>4. \A m \in NbrId \ {n} : nbrTable'[m] = nbrTable[m]
  BY <1>2 DEF TypeOK
<1>5. ResolveAt(r, a)' = MissId(r)
  <2>1. NbrMatches(r, a)' = {}
    <3>1. \A m \in rifTable'[r].nbrs :
            m \in rifTable[r].nbrs /\ m # n /\ nbrTable'[m] = nbrTable[m]
      BY <1>3, <1>4
    <3> QED
      BY <1>2, <3>1 DEF NbrMatches
  <2>2. MissId(r)' = MissId(r)
    BY <1>3 DEF MissId
  <2> QED
    BY <2>1, <2>2 DEF ResolveAt
<1>6. ASSUME NEW s \in UsedRifs, NEW b, ~(s = r /\ b = a)
      PROVE  ResolveAt(s, b)' = ResolveAt(s, b)
  <2>1. n \notin NbrMatches(s, b) /\ s \in RifId
    BY <1>1, <1>2, <1>6, FoundOnce DEF UsedRifs
  <2>2. n \in rifTable[s].nbrs => s = r
    <3>1. n \in rifTable[r].nbrs
      BY <1>2 DEF NbrMatches
    <3> QED
      BY <1>1, <1>6, <3>1 DEF NbrInv, NbrLists
  <2>3. rifTable'[s].nbrs = rifTable[s].nbrs \ {n}
    BY <1>3, <2>1, <2>2
  <2>4. \A m \in rifTable[s].nbrs \ {n} : nbrTable'[m] = nbrTable[m]
    BY <1>3, <1>4, <2>1
  <2>5. NbrMatches(s, b)' = NbrMatches(s, b)
    BY <2>1, <2>3, <2>4 DEF NbrMatches
  <2> QED
    BY <1>3, <2>1, <2>5, SameResolution
<1> QED
  BY <1>5, <1>6

\* When all neighbors have gone, every address does.
LEMMA AllRemovedResolution ==
  ASSUME TypeOK, NbrInv, GroupsReliable, RemoveAllNeighbors
  PROVE  \A s \in UsedRifs : \A b : ResolveAt(s, b)' = MissId(s)
<1>1. /\ RemoveReached(UsedRifs, UsedNbrs, {})
      /\ \A r \in UsedRifs : rifTable'[r].nbrs = {}
  BY AllNeighborsRemoved
<1>2. \A r \in RifId : rifTable'[r].miss = rifTable[r].miss
  BY <1>1 DEF RemoveReached, TypeOK, RifType
<1> SUFFICES ASSUME NEW s \in UsedRifs, NEW b PROVE ResolveAt(s, b)' = MissId(s)
  OBVIOUS
<1>3. NbrMatches(s, b)' = {}
  BY <1>1 DEF NbrMatches
<1>4. MissId(s)' = MissId(s)
  BY <1>2 DEF MissId, UsedRifs
<1> QED
  BY <1>3, <1>4 DEF ResolveAt

\* A new neighbor is taken by the one next hop with its address, and told.
LEMMA CreateNeighborResolves ==
  ASSUME TypeOK, NbrInv, NhLists, NextHopResolved, GroupsReliable,
         NEW n \in NbrId, NEW r \in RifId, NEW a \in Ip, CreateNeighbor(n, r, a)
  PROVE  NextHopResolved'
<1>1. /\ r \in UsedRifs /\ n \notin UsedNbrs
      /\ \E h \in MatchedNh(r, a) : nbrTable'[n].nh = h
      /\ \A m \in NbrId \ {n} : nbrTable'[m] = nbrTable[m]
  BY NeighborCreated
<1>2. /\ UsedNhs' = UsedNhs
      /\ \A g \in NhId :
           /\ nhTable'[g].rif = nhTable[g].rif /\ nhTable'[g].ip = nhTable[g].ip
           /\ nhTable'[g].nbr = IF g \in NhMatches(r, a) THEN n ELSE nhTable[g].nbr
  BY ToldNextHops DEF CreateNeighbor
<1> SUFFICES ASSUME NEW g \in UsedNhs PROVE NhResolved(g)'
  BY <1>2 DEF NextHopResolved, NhResolved
<1> PICK s, b : s = nhTable[g].rif /\ b = nhTable[g].ip
  OBVIOUS
<1>3. /\ g \in NhId /\ s \in UsedRifs
      /\ nhTable'[g].rif = s /\ nhTable'[g].ip = b
      /\ nhTable[g].nbr = ResolveAt(s, b)
      /\ nhTable[g].nbr \in NbrId => nbrTable[nhTable[g].nbr].nh = g
  BY <1>2 DEF UsedNhs, NhLists, NextHopResolved
<1>4. g \in NhMatches(r, a) <=> s = r /\ b = a
  BY <1>1, NhFound
<1>5. CASE g \in NhMatches(r, a)
  <2>1. ResolveAt(r, a)' = n
    BY CreatedResolution
  <2>2. NhMatches(r, a) = {g}
    <3>1. \A h \in NhMatches(r, a) : h \in UsedNhs /\ nhTable[h].rif = r /\ nhTable[h].ip = a
      BY <1>1 DEF NhMatches, NhLists
    <3> QED
      BY <1>5, <3>1 DEF NhLists
  <2>3. nbrTable'[n].nh = g
    BY <1>1, <2>2 DEF MatchedNh
  <2> QED
    BY <1>2, <1>3, <1>4, <1>5, <2>1, <2>3, ResolvedNext
<1>6. CASE g \notin NhMatches(r, a)
  <2>1. ResolveAt(s, b)' = ResolveAt(s, b)
    BY <1>3, <1>4, <1>6, CreatedResolution
  <2>2. nhTable[g].nbr \in NbrId => nhTable[g].nbr # n
    BY <1>1, <1>3, Resolution, MissIsNoNeighbor
  <2>3. nhTable[g].nbr \in NbrId =>
          nbrTable'[nhTable[g].nbr].nh = nbrTable[nhTable[g].nbr].nh
    BY <1>1, <2>2
  <2> QED
    BY <1>2, <1>3, <1>6, <2>1, <2>3, ResolvedNext
<1> QED
  BY <1>5, <1>6

\* A neighbor that goes leaves its next hop to the miss action.
LEMMA RemoveNeighborResolves ==
  ASSUME TypeOK, NbrInv, NhLists, NextHopResolved, GroupsReliable,
         NEW r \in RifId, NEW a \in Ip, RemoveNeighbor(r, a)
  PROVE  NextHopResolved'
<1>1. r \in UsedRifs
  BY NeighborRemoved
<1>2. PICK n \in NbrId : /\ NbrMatches(r, a) = {n}
                         /\ nbrTable' = [nbrTable EXCEPT ![n] = NoNbr]
  BY NeighborRemoved
<1>3. /\ UsedNhs' = UsedNhs
      /\ \A g \in NhId :
           /\ nhTable'[g].rif = nhTable[g].rif /\ nhTable'[g].ip = nhTable[g].ip
           /\ nhTable'[g].nbr = IF g \in NhMatches(r, a) THEN MissId(r)
                                ELSE nhTable[g].nbr
  BY ToldNextHops DEF RemoveNeighbor
<1> SUFFICES ASSUME NEW g \in UsedNhs PROVE NhResolved(g)'
  BY <1>3 DEF NextHopResolved, NhResolved
<1> PICK s, b : s = nhTable[g].rif /\ b = nhTable[g].ip
  OBVIOUS
<1>4. /\ g \in NhId /\ s \in UsedRifs
      /\ nhTable'[g].rif = s /\ nhTable'[g].ip = b
      /\ nhTable[g].nbr = ResolveAt(s, b)
      /\ nhTable[g].nbr \in NbrId => nbrTable[nhTable[g].nbr].nh = g
  BY <1>3 DEF UsedNhs, NhLists, NextHopResolved
<1>5. g \in NhMatches(r, a) <=> s = r /\ b = a
  BY <1>1, NhFound
<1>6. CASE g \in NhMatches(r, a)
  <2>1. ResolveAt(r, a)' = MissId(r) /\ MissId(r) \notin NbrId
    BY RemovedResolution, MissIsNoNeighbor
  <2> QED
    BY <1>3, <1>4, <1>5, <1>6, <2>1, ResolvedNext
<1>7. CASE g \notin NhMatches(r, a)
  <2>1. ResolveAt(s, b)' = ResolveAt(s, b)
    BY <1>4, <1>5, <1>7, RemovedResolution
  <2>2. n \notin NbrMatches(s, b)
    BY <1>1, <1>2, <1>4, <1>5, <1>7, FoundOnce
  <2>3. nhTable[g].nbr \in NbrId => nhTable[g].nbr # n
    BY <1>4, <2>2, Resolution, MissIsNoNeighbor
  <2>4. nhTable[g].nbr \in NbrId =>
          nbrTable'[nhTable[g].nbr].nh = nbrTable[nhTable[g].nbr].nh
    BY <1>2, <2>3 DEF TypeOK
  <2> QED
    BY <1>3, <1>4, <1>7, <2>1, <2>4, ResolvedNext
<1> QED
  BY <1>6, <1>7

\* When all neighbors go, every next hop has the miss action: those that
\* had a neighbor are told, and the others had it already.
LEMMA RemoveAllResolves ==
  ASSUME TypeOK, NbrInv, NhLists, NextHopResolved, GroupsReliable,
         RemoveAllNeighbors
  PROVE  NextHopResolved'
<1> DEFINE At == {x \in UsedRifs \X UsedNbrs : x[2] \in rifTable[x[1]].nbrs}
           H == UNION {NhMatches(x[1], nbrTable[x[2]].ip) : x \in At}
           nhTo == [h \in H |-> MissId(nhTable[h].rif)]
<1>1. RemoveReached(UsedRifs, UsedNbrs, {})
  BY AllNeighborsRemoved
<1>2. \E routeTo, Lost : Retarget(nhTo, routeTo, Lost)
  BY <1>1 DEF RemoveReached
<1>3. DOMAIN nhTo = H /\ \A h \in H : nhTo[h] = MissId(nhTable[h].rif)
  OBVIOUS
<1> HIDE DEF nhTo, H
<1>4. /\ UsedNhs' = UsedNhs
      /\ \A g \in NhId :
           /\ nhTable'[g].rif = nhTable[g].rif /\ nhTable'[g].ip = nhTable[g].ip
           /\ nhTable'[g].nbr = IF g \in H THEN MissId(nhTable[g].rif)
                                ELSE nhTable[g].nbr
  BY <1>2, <1>3, RetargetSets
<1> SUFFICES ASSUME NEW g \in UsedNhs PROVE NhResolved(g)'
  BY <1>4 DEF NextHopResolved, NhResolved
<1> PICK s, b : s = nhTable[g].rif /\ b = nhTable[g].ip
  OBVIOUS
<1>6. /\ g \in NhId /\ s \in UsedRifs /\ s \in RifId
      /\ nhTable'[g].rif = s /\ nhTable'[g].ip = b
      /\ nhTable[g].nbr = ResolveAt(s, b)
  BY <1>4 DEF UsedNhs, UsedRifs, NhLists, NextHopResolved
<1>7. nhTable'[g].nbr = MissId(s)
  <2>1. CASE g \in H
    BY <1>4, <1>6, <2>1
  <2>2. CASE NbrMatches(s, b) = {}
    BY <1>4, <1>6, <2>2 DEF ResolveAt
  <2>3. ASSUME NEW m \in NbrMatches(s, b) PROVE g \in H
    <3>1. /\ m \in rifTable[s].nbrs /\ nbrTable[m].ip = b
          /\ m \in UsedNbrs
      BY <1>6, <2>3 DEF NbrMatches, UsedNbrs, TypeOK, RifType
    <3>2. <<s, m>> \in At
      BY <1>6, <3>1
    <3>3. g \in NhMatches(s, b)
      BY <1>6, NhFound
    <3> HIDE DEF At
    <3>4. g \in NhMatches(<<s, m>>[1], nbrTable[<<s, m>>[2]].ip)
      BY <3>1, <3>3
    <3> QED
      BY <3>2, <3>4 DEF H
  <2> QED
    BY <2>1, <2>2, <2>3
<1>8. ResolveAt(s, b)' = MissId(s)
  BY <1>6, AllRemovedResolution
<1> QED
  BY <1>6, <1>7, <1>8, MissIsNoNeighbor, ResolvedNext

\* NextHopResolved is inductive relative to NbrInv and NhLists.
LEMMA NextHopResolvedStep ==
  ASSUME TypeOK, NbrInv, NhLists, NextHopResolved, GroupsReliable, [Next]_vars
  PROVE  NextHopResolved'
<1>1. CASE VirtualRouterApi \/ UNCHANGED vars
  <2>1. UNCHANGED <<rifTable, nbrTable, nhTable>>
    BY <1>1 DEF VirtualRouterApi, CreateVirtualRouter, RemoveVirtualRouter, vars
  <2>2. NhsKept
    BY <2>1 DEF NhsKept
  <2> QED
    BY <1>1, <2>1, <2>2, OthersKeepNbrs, ResolvedKept
<1>2. CASE NextHopApi
  BY <1>2, CreateNextHopResolves, RemoveNextHopResolves DEF NextHopApi
<1>3. CASE NeighborApi
  BY <1>3, CreateNeighborResolves, RemoveNeighborResolves, RemoveAllResolves
     DEF NeighborApi
<1> QED
  BY <1>1, <1>2, <1>3, RoutesKeepResolved, InterfacesKeepResolved DEF Next

\* In whatever order next hops and neighbors come and go, and whatever a
\* careless client does to routes, a next hop uses the neighbor that has its
\* address now, or else the miss action of its interface; and that neighbor
\* knows it.
THEOREM NextHopsResolveCorrectly == Spec => [](GroupsReliable => NextHopResolved)
<1>1. Init => (GroupsReliable => NextHopResolved)
  BY DEF Init, NextHopResolved, UsedNhs, NoNh
<1>2. /\ TypeOK /\ NhLists /\ (GroupsReliable => NbrInv)
      /\ (GroupsReliable => NextHopResolved) /\ [Next]_vars
      => (GroupsReliable => NextHopResolved)'
  <2>1. GroupsReliable' = GroupsReliable
    BY DEF GroupsReliable
  <2> QED
    BY <2>1, NextHopResolvedStep
<1> QED
  BY <1>1, <1>2, TypeCorrect, NextHopListsCorrect, NbrInvHolds, PTL DEF Spec

-----------------------------------------------------------------------------
(* Routes and the lists that hold them.                                    *)

\* What routes need: flows can be added back, updates look in the table the
\* flow is in, and the client names only objects that exist.
RoutesReliable == "reAdd" \notin Faults /\ Prefix6 = {} /\ ClientChecksOids

\* k belongs on the list of the object i of this type.
Names(k, type, i) == /\ Installed(k) /\ routeTable[k].valid
                     /\ routeTable[k].nhType = type /\ routeTable[k].nhIdx = i

\* RouteLists, and what makes it inductive: a flow has its route, and a
\* route with a flow names an object in use, so that the list it belongs on
\* is one that Relist writes to.
ListsExact ==
  /\ \A h \in NhId : nhTable[h].routes = {k \in RouteKey : Names(k, "NH", h)}
  /\ \A r \in RifId : rifTable[r].routes = {k \in RouteKey : Names(k, "RIF", r)}

FlowsHaveRoutes ==
  \A k \in RouteKey : Installed(k) => /\ routeTable[k].valid
                                      /\ HopLive(routeTable[k])
                                      /\ routeTable[k].nhType # "STACK"

RouteInv == ListsExact /\ FlowsHaveRoutes

LEMMA RouteListsAre ==
  ListsExact => RouteLists
  BY DEF ListsExact, RouteLists, Names, Routes

\* An object that is not in use has an empty list.
LEMMA UnusedListsNothing ==
  ASSUME TypeOK, RouteInv
  PROVE  /\ \A h \in NhId : ~nhTable[h].used => nhTable[h].routes = {}
         /\ \A r \in RifId : ~rifTable[r].valid => rifTable[r].routes = {}
  BY DEF RouteInv, ListsExact, FlowsHaveRoutes, Names, HopLive

\* Steps that change no route and no list, and free no object that has one.
LEMMA RouteInvKept ==
  ASSUME TypeOK, RouteInv, UNCHANGED <<routeTable, l3Flow>>,
         \A h \in NhId : /\ nhTable'[h].routes = nhTable[h].routes
                         /\ nhTable[h].used /\ nhTable[h].routes # {}
                              => nhTable'[h].used,
         \A r \in RifId : /\ rifTable'[r].routes = rifTable[r].routes
                          /\ rifTable[r].valid /\ rifTable[r].routes # {}
                               => rifTable'[r].valid
  PROVE  RouteInv'
<1>1. \A k, type, i : Names(k, type, i)' = Names(k, type, i)
  BY DEF Names, Installed
<1>2. ListsExact'
  BY <1>1 DEF RouteInv, ListsExact
<1>3. FlowsHaveRoutes'
  <2> SUFFICES ASSUME NEW k \in RouteKey, Installed(k)
               PROVE  /\ routeTable[k].valid /\ HopLive(routeTable[k])'
                      /\ routeTable[k].nhType # "STACK"
    BY DEF FlowsHaveRoutes, Installed
  <2> PICK type, i : type = routeTable[k].nhType /\ i = routeTable[k].nhIdx
    OBVIOUS
  <2>1. /\ routeTable[k].valid /\ HopLive(routeTable[k]) /\ type # "STACK"
        /\ type = "NH" => i \in NhId
        /\ type = "RIF" => i \in RifId
    BY DEF RouteInv, FlowsHaveRoutes, TypeOK, RouteType
  <2>2. type = "NH" => nhTable'[i].used
    BY <2>1 DEF HopLive, RouteInv, ListsExact, Names
  <2>3. type = "RIF" => rifTable'[i].valid
    BY <2>1 DEF HopLive, RouteInv, ListsExact, Names
  <2> QED
    BY <2>1, <2>2, <2>3 DEF HopLive
<1> QED
  BY <1>2, <1>3 DEF RouteInv

\* Virtual routers, interfaces and next hops: an object is freed only when
\* its list is empty, and is made with an empty one.
LEMMA ObjectsKeepRouteInv ==
  ASSUME TypeOK, RouteInv,
         VirtualRouterApi \/ RouterInterfaceApi \/ NextHopApi \/ UNCHANGED vars
  PROVE  RouteInv'
<1>1. CASE VirtualRouterApi \/ UNCHANGED vars
  <2>1. UNCHANGED <<routeTable, l3Flow, nhTable, rifTable>>
    BY <1>1 DEF VirtualRouterApi, CreateVirtualRouter, RemoveVirtualRouter, vars
  <2> QED
    BY <2>1, RouteInvKept
<1>2. CASE RouterInterfaceApi
  <2>1. UNCHANGED <<routeTable, l3Flow, nhTable>>
    BY <1>2 DEF RouterInterfaceApi, CreateRouterInterface, RemoveRouterInterface
  <2>2. ASSUME NEW r \in RifId, NEW v \in VrId, NEW miss \in MissActions,
               CreateRouterInterface(r, v, miss)
        PROVE  RouteInv'
    <3>1. rifTable[r].routes = {} /\ ~rifTable[r].valid
      BY <2>2, UnusedListsNothing DEF CreateRouterInterface, IsFirstFree, UsedRifs
    <3>2. \A s \in RifId : /\ rifTable'[s].routes = rifTable[s].routes
                           /\ rifTable[s].valid => rifTable'[s].valid
      BY <2>2, <3>1 DEF CreateRouterInterface, TypeOK, NoRif
    <3> QED
      BY <2>1, <3>2, RouteInvKept
  <2>3. ASSUME NEW r \in RifId, RemoveRouterInterface(r) PROVE RouteInv'
    <3>1. \A s \in RifId : /\ rifTable'[s].routes = rifTable[s].routes
                           /\ rifTable[s].routes # {} => rifTable'[s] = rifTable[s]
      BY <2>3 DEF RemoveRouterInterface, TypeOK, NoRif
    <3> QED
      BY <2>1, <3>1, RouteInvKept
  <2> QED
    BY <1>2, <2>2, <2>3 DEF RouterInterfaceApi
<1>3. CASE NextHopApi
  <2>1. UNCHANGED <<routeTable, l3Flow>>
    BY <1>3 DEF NextHopApi, CreateNextHop, RemoveNextHop
  <2>2. \A s \in RifId : /\ rifTable'[s].routes = rifTable[s].routes
                         /\ rifTable'[s].valid = rifTable[s].valid
    <3>1. \E r, New : rifTable' = [rifTable EXCEPT ![r].nhs = New]
      BY <1>3 DEF NextHopApi, CreateNextHop, RemoveNextHop
    <3>2. rifTable \in [RifId -> RifType]
      BY DEF TypeOK
    <3> QED
      BY <3>1, <3>2 DEF RifType
  <2>3. ASSUME NEW h \in NhId, NEW r \in RifId, NEW a \in Ip, CreateNextHop(h, r, a)
        PROVE  RouteInv'
    <3>1. nhTable[h].routes = {} /\ ~nhTable[h].used
      BY <2>3, UnusedListsNothing DEF CreateNextHop, IsFirstFree, UsedNhs
    <3>2. \A g \in NhId : /\ nhTable'[g].routes = nhTable[g].routes
                          /\ nhTable[g].used => nhTable'[g].used
      BY <2>3, <3>1 DEF CreateNextHop, TypeOK
    <3> QED
      BY <2>1, <2>2, <3>2, RouteInvKept
  <2>4. ASSUME NEW h \in NhId, RemoveNextHop(h) PROVE RouteInv'
    <3>1. \A g \in NhId : /\ nhTable'[g].routes = nhTable[g].routes
                          /\ nhTable[g].routes # {} => nhTable'[g] = nhTable[g]
      BY <2>4 DEF RemoveNextHop, TypeOK, NoNh
    <3> QED
      BY <2>1, <2>2, <3>1, RouteInvKept
  <2> QED
    BY <1>3, <2>3, <2>4 DEF NextHopApi
<1> QED
  BY <1>1, <1>2, <1>3

\* The routes told of a neighbor have flows.
LEMMA DependentInstalled ==
  ASSUME TypeOK, RouteInv, NEW r \in RifId, NEW a
  PROVE  DependentRoutes(r, a) \subseteq {k \in RouteKey : Installed(k)}
<1> DEFINE In == {k \in RouteKey : Installed(k)}
           Own == {k \in rifTable[r].routes : k[2] \in HostPrefix /\ AddrOf[k[2]] = a}
           Behind == UNION {nhTable[h].routes : h \in NhMatches(r, a)}
<1>1. NhMatches(r, a) \subseteq NhId
  BY DEF NhMatches, TypeOK, RifType
<1>2. \A h \in NhId : nhTable[h].routes \subseteq In
  BY DEF RouteInv, ListsExact, Names
<1>3. Own \subseteq In
  <2>1. rifTable[r].routes \subseteq In
    BY DEF RouteInv, ListsExact, Names
  <2> HIDE DEF In
  <2> QED
    BY <2>1
<1>4. DependentRoutes(r, a) = Behind \cup Own
  BY DEF DependentRoutes
<1> HIDE DEF In, Own
<1>5. Behind \subseteq In
  BY <1>1, <1>2
<1> HIDE DEF Behind
<1>6. DependentRoutes(r, a) \subseteq In
  BY <1>3, <1>4, <1>5
<1> QED
  BY <1>6 DEF In

\* A flow made from a neighbor id is a flow.
LEMMA FlowIsSome ==
  ASSUME NEW act, NEW nbr \in NbrRef \cup {InvalidId}
  PROVE  FlowOf(act, nbr) # NoFlow
  BY SlotTypes DEF FlowOf, NbrRef, Reserved, TrapId, DropId, InvalidId, NoFlow

\* What retargeting does to a route that has a flow, and to any other.
LEMMA RetargetedRoutes ==
  ASSUME TypeOK, RoutesReliable, NEW nhTo, NEW routeTo, Retarget(nhTo, routeTo, {}),
         \A k \in DOMAIN routeTo : k \in RouteKey /\ Installed(k)
  PROVE  /\ \A k \in DOMAIN routeTo :
              /\ routeTable'[k] = [routeTable[k] EXCEPT !.nbr = routeTo[k]]
              /\ l3Flow'[k] = FlowOf(routeTable[k].action, routeTo[k])
         /\ \A k \in RouteKey \ DOMAIN routeTo :
              routeTable'[k] = routeTable[k] /\ l3Flow'[k] = l3Flow[k]
<1> DEFINE New(k) == [routeTable[k] EXCEPT !.nbr = routeTo[k]]
<1>1. ASSUME NEW k \in DOMAIN routeTo
      PROVE  /\ routeTable'[k] = New(k)
             /\ l3Flow'[k] = FlowOf(New(k).action, New(k).nbr)
  <2>1. CookieFound(k) /\ k \in RouteKey
    BY <1>1 DEF CookieFound, RoutesReliable
  <2>2. /\ routeTable'[k] = Modified(New(k), CookieFound(k), k \in {})
        /\ l3Flow'[k] = FlowModified(k, New(k), k \in {})
    BY <1>1, <2>1 DEF Retarget
  <2> HIDE DEF New
  <2> QED
    BY <2>1, <2>2 DEF Modified, FlowModified
<1>2. ASSUME NEW k \in DOMAIN routeTo
      PROVE  New(k).action = routeTable[k].action /\ New(k).nbr = routeTo[k]
  <2>1. routeTable[k] \in RouteType
    BY <1>2 DEF TypeOK
  <2> QED
    BY <2>1 DEF RouteType
<1>3. \A k \in RouteKey \ DOMAIN routeTo :
        routeTable'[k] = routeTable[k] /\ l3Flow'[k] = l3Flow[k]
  BY DEF Retarget
<1> HIDE DEF New
<1>4. \A k \in DOMAIN routeTo : routeTable'[k] = [routeTable[k] EXCEPT !.nbr = routeTo[k]]
  BY <1>1 DEF New
<1> QED
  BY <1>1, <1>2, <1>3, <1>4

\* Retargeting loses no route, and changes neither what one names nor lists.
LEMMA RetargetKeepsRouteInv ==
  ASSUME TypeOK, RouteInv, RoutesReliable,
         NEW nhTo, NEW routeTo, Retarget(nhTo, routeTo, {}),
         \A k \in DOMAIN routeTo : /\ k \in RouteKey /\ Installed(k)
                                   /\ routeTo[k] \in NbrRef,
         \A r \in RifId : /\ rifTable'[r].routes = rifTable[r].routes
                          /\ rifTable'[r].valid = rifTable[r].valid
  PROVE  RouteInv' /\ Routes' = Routes
<1>0. /\ \A k \in DOMAIN routeTo :
           /\ routeTable'[k] = [routeTable[k] EXCEPT !.nbr = routeTo[k]]
           /\ l3Flow'[k] = FlowOf(routeTable[k].action, routeTo[k])
      /\ \A k \in RouteKey \ DOMAIN routeTo :
           routeTable'[k] = routeTable[k] /\ l3Flow'[k] = l3Flow[k]
  BY RetargetedRoutes
<1>1. \A k \in RouteKey : /\ routeTable'[k].valid = routeTable[k].valid
                          /\ routeTable'[k].nhType = routeTable[k].nhType
                          /\ routeTable'[k].nhIdx = routeTable[k].nhIdx
  <2> SUFFICES ASSUME NEW k \in RouteKey, k \in DOMAIN routeTo
               PROVE  /\ routeTable'[k].valid = routeTable[k].valid
                      /\ routeTable'[k].nhType = routeTable[k].nhType
                      /\ routeTable'[k].nhIdx = routeTable[k].nhIdx
    BY <1>0
  <2>1. routeTable'[k] = [routeTable[k] EXCEPT !.nbr = routeTo[k]]
    BY <1>0
  <2>2. routeTable[k] \in RouteType
    BY DEF TypeOK
  <2> QED
    BY <2>1, <2>2 DEF RouteType
<1>2. \A k \in RouteKey : Installed(k)' = Installed(k)
  <2>1. ASSUME NEW k \in DOMAIN routeTo PROVE l3Flow'[k] # NoFlow
    <3>1. l3Flow'[k] = FlowOf(routeTable[k].action, routeTo[k])
      BY <1>0, <2>1
    <3>2. routeTo[k] \in NbrRef \cup {InvalidId}
      BY <2>1
    <3> QED
      BY <3>1, <3>2, FlowIsSome
  <2> QED
    BY <1>0, <2>1 DEF Installed
<1>3. \A h \in NhId : /\ nhTable'[h].routes = nhTable[h].routes
                      /\ nhTable'[h].used = nhTable[h].used
  BY DEF Retarget, TypeOK, NhType
<1>4. \A k \in RouteKey : \A type, i : Names(k, type, i)' = Names(k, type, i)
  BY <1>1, <1>2 DEF Names
<1>5. ListsExact'
  BY <1>3, <1>4 DEF RouteInv, ListsExact
<1>6. FlowsHaveRoutes'
  <2> SUFFICES ASSUME NEW k \in RouteKey, Installed(k)
               PROVE  /\ routeTable'[k].valid /\ HopLive(routeTable[k])'
                      /\ routeTable'[k].nhType # "STACK"
    BY <1>2 DEF FlowsHaveRoutes
  <2>1. /\ routeTable[k].valid /\ HopLive(routeTable[k])
        /\ routeTable[k].nhType # "STACK" /\ routeTable[k] \in RouteType
    BY DEF RouteInv, FlowsHaveRoutes, TypeOK
  <2> QED
    BY <1>1, <1>3, <2>1 DEF HopLive, RouteType
<1>7. Routes' = Routes
  BY <1>1 DEF Routes
<1> QED
  BY <1>5, <1>6, <1>7 DEF RouteInv

\* So no call of the neighbor API loses a route.
LEMMA NeighborsKeepRouteInv ==
  ASSUME TypeOK, RouteInv, RoutesReliable, NeighborApi
  PROVE  RouteInv' /\ Routes' = Routes
<1>1. ASSUME NEW r \in RifId, NEW a, NEW nbr \in NbrRef, UpdateNbrId(r, a, nbr),
             \A s \in RifId : /\ rifTable'[s].routes = rifTable[s].routes
                              /\ rifTable'[s].valid = rifTable[s].valid
      PROVE  RouteInv' /\ Routes' = Routes
  <2> DEFINE routeTo == [k \in DependentRoutes(r, a) |-> nbr]
  <2>1. Retarget([h \in NhMatches(r, a) |-> nbr], routeTo, {})
    BY <1>1 DEF UpdateNbrId, MayLose, RoutesReliable
  <2>2. \A k \in DOMAIN routeTo : /\ k \in RouteKey /\ Installed(k)
                                  /\ routeTo[k] \in NbrRef
    BY DependentInstalled
  <2> HIDE DEF routeTo
  <2> QED
    BY <1>1, <2>1, <2>2, RetargetKeepsRouteInv
<1>2. ASSUME NEW n \in NbrId, NEW r \in RifId, NEW a \in Ip, CreateNeighbor(n, r, a)
      PROVE  RouteInv' /\ Routes' = Routes
  <2>1. \A s \in RifId : /\ rifTable'[s].routes = rifTable[s].routes
                         /\ rifTable'[s].valid = rifTable[s].valid
    BY <1>2 DEF CreateNeighbor, TypeOK, RifType
  <2>2. UpdateNbrId(r, a, n) /\ n \in NbrRef
    BY <1>2 DEF CreateNeighbor, NbrRef
  <2> QED
    BY <1>1, <2>1, <2>2
<1>3. ASSUME NEW r \in RifId, NEW a \in Ip, RemoveNeighbor(r, a)
      PROVE  RouteInv' /\ Routes' = Routes
  <2>1. PICK n : GroupDeleted(n, r)
    BY <1>3 DEF RemoveNeighbor
  <2>2. \A s \in RifId : /\ rifTable'[s].routes = rifTable[s].routes
                         /\ rifTable'[s].valid = rifTable[s].valid
    BY <2>1 DEF GroupDeleted, TypeOK, RifType
  <2>3. UpdateNbrId(r, a, MissId(r)) /\ MissId(r) \in NbrRef
    BY <1>3, MissIdType DEF RemoveNeighbor, NbrRef
  <2> QED
    BY <1>1, <2>2, <2>3
<1>4. ASSUME NEW Visited \in SUBSET RifId, NEW Gone, NEW Kept,
             RemoveReached(Visited, Gone, Kept)
      PROVE  RouteInv' /\ Routes' = Routes
  <2> DEFINE At == {x \in Visited \X Gone : x[2] \in rifTable[x[1]].nbrs}
             Ends(x) == NhMatches(x[1], nbrTable[x[2]].ip)
             Deps(x) == DependentRoutes(x[1], nbrTable[x[2]].ip)
             K == UNION {Deps(x) : x \in At}
             nhTo == [h \in UNION {Ends(x) : x \in At} |-> MissId(nhTable[h].rif)]
             routeTo == [k \in K |-> MissId((CHOOSE x \in At : k \in Deps(x))[1])]
  <2>1. Retarget(nhTo, routeTo, {})
    BY <1>4 DEF RemoveReached, MayLose, RoutesReliable
  <2>2. \A k \in K : k \in RouteKey /\ Installed(k)
    <3>1. \A x \in At : Deps(x) \subseteq {k \in RouteKey : Installed(k)}
      BY <1>4, DependentInstalled
    <3> QED
      BY <3>1
  <2>3. \A k \in DOMAIN routeTo : routeTo[k] \in NbrRef
    BY MissIdType DEF NbrRef
  <2>4. DOMAIN routeTo = K
    OBVIOUS
  <2> HIDE DEF routeTo, nhTo, K
  <2>5. \A s \in RifId : /\ rifTable'[s].routes = rifTable[s].routes
                         /\ rifTable'[s].valid = rifTable[s].valid
    BY <1>4 DEF RemoveReached, TypeOK, RifType
  <2> QED
    BY <2>1, <2>2, <2>3, <2>4, <2>5, RetargetKeepsRouteInv
<1>5. CASE RemoveAllNeighbors
  <2>1. CASE RemoveReached(UsedRifs, Listed(UsedRifs), {})
    BY <1>4, <2>1 DEF UsedRifs
  <2>2. CASE \E last \in UsedRifs : \E n, More :
               RemoveReached({r \in UsedRifs : r < last} \cup {last},
                             Listed({r \in UsedRifs : r < last})
                               \cup More \cup {n}, {n})
    BY <1>4, <2>2 DEF UsedRifs
  <2> QED
    BY <1>5, <2>1, <2>2 DEF RemoveAllNeighbors
<1> QED
  BY <1>2, <1>3, <1>5 DEF NeighborApi

\* How a call that changes one route must leave the lists for RouteInv to
\* hold: k is on the list it then belongs on and no other.
ListedAs(k, route) ==
  LET Here(type, i) == IF /\ l3Flow'[k] # NoFlow /\ route.valid
                          /\ route.nhType = type /\ route.nhIdx = i
                       THEN {k} ELSE {}
  IN
  /\ \A h \in NhId : /\ nhTable'[h].routes = (nhTable[h].routes \ {k}) \cup Here("NH", h)
                     /\ nhTable'[h].used = nhTable[h].used
  /\ \A r \in RifId : /\ rifTable'[r].routes = (rifTable[r].routes \ {k}) \cup Here("RIF", r)
                      /\ rifTable'[r].valid = rifTable[r].valid

\* Such a call keeps RouteInv.
LEMMA OneRouteKeepsRouteInv ==
  ASSUME TypeOK, RouteInv, NEW k \in RouteKey, NEW route,
         routeTable' = [routeTable EXCEPT ![k] = route],
         \A j \in RouteKey \ {k} : l3Flow'[j] = l3Flow[j],
         l3Flow'[k] # NoFlow => route.valid /\ HopLive(route) /\ route.nhType # "STACK",
         route \in RouteType,
         ListedAs(k, route)
  PROVE  RouteInv'
<1>1. routeTable'[k] = route /\ \A j \in RouteKey \ {k} : routeTable'[j] = routeTable[j]
  BY DEF TypeOK
<1>2. \A j \in RouteKey \ {k} : \A type, i : Names(j, type, i)' = Names(j, type, i)
  BY <1>1 DEF Names, Installed
<1>3. \A type, i : Names(k, type, i)' <=> /\ l3Flow'[k] # NoFlow /\ route.valid
                                          /\ route.nhType = type /\ route.nhIdx = i
  BY <1>1 DEF Names, Installed
<1>4. ASSUME NEW h \in NhId
      PROVE  nhTable'[h].routes = {j \in RouteKey : Names(j, "NH", h)'}
  <2>1. nhTable[h].routes = {j \in RouteKey : Names(j, "NH", h)}
    BY DEF RouteInv, ListsExact
  <2>2. nhTable'[h].routes = (nhTable[h].routes \ {k})
                               \cup (IF Names(k, "NH", h)' THEN {k} ELSE {})
    BY <1>3 DEF ListedAs
  <2> QED
    BY <1>2, <2>1, <2>2
<1>5. ASSUME NEW r \in RifId
      PROVE  rifTable'[r].routes = {j \in RouteKey : Names(j, "RIF", r)'}
  <2>1. rifTable[r].routes = {j \in RouteKey : Names(j, "RIF", r)}
    BY DEF RouteInv, ListsExact
  <2>2. rifTable'[r].routes = (rifTable[r].routes \ {k})
                                \cup (IF Names(k, "RIF", r)' THEN {k} ELSE {})
    BY <1>3 DEF ListedAs
  <2> QED
    BY <1>2, <2>1, <2>2
<1>6. ListsExact'
  BY <1>4, <1>5 DEF ListsExact
<1>7. FlowsHaveRoutes'
  <2>1. \A q \in RouteType : HopLive(q)' = HopLive(q)
    BY DEF ListedAs, HopLive, RouteType
  <2> SUFFICES ASSUME NEW j \in RouteKey, Installed(j)'
               PROVE  /\ routeTable'[j].valid /\ HopLive(routeTable[j])'
                      /\ routeTable'[j].nhType # "STACK"
    BY DEF FlowsHaveRoutes
  <2>2. CASE j = k
    <3>1. HopLive(route)'
      BY <2>1, <2>2 DEF Installed
    <3>2. HopLive(routeTable[k])'
      BY <1>1, <3>1 DEF HopLive
    <3> QED
      BY <1>1, <2>2, <3>2 DEF Installed
  <2>3. CASE j # k
    <3>1. /\ routeTable'[j] = routeTable[j] /\ Installed(j)
          /\ routeTable[j] \in RouteType
      BY <1>1, <2>3 DEF Installed, TypeOK
    <3>2. /\ routeTable[j].valid /\ HopLive(routeTable[j])
          /\ routeTable[j].nhType # "STACK"
      BY <3>1 DEF RouteInv, FlowsHaveRoutes
    <3>3. HopLive(routeTable[j])'
      BY <3>1, <3>2 DEF HopLive, ListedAs, RouteType
    <3> QED
      BY <3>1, <3>2, <3>3
  <2> QED
    BY <2>2, <2>3
<1> QED
  BY <1>6, <1>7 DEF RouteInv

\* Relist leaves the lists so, when what it is told to leave covers the list
\* k is on, and what it is told to join is in use and joined only with a flow.
LEMMA RelistLists ==
  ASSUME TypeOK, RouteInv, NEW k \in RouteKey, NEW out, NEW in,
         Relist(k, out, in),
         \A type, i : Names(k, type, i) => out.nhType = type /\ out.nhIdx = i,
         HopLive(in),
         in.nhType \in {"NH", "RIF"} => l3Flow'[k] # NoFlow /\ in.valid
  PROVE  ListedAs(k, in)
<1>1. ASSUME NEW h \in NhId
      PROVE  /\ nhTable'[h].routes =
                  (nhTable[h].routes \ {k})
                    \cup (IF in.nhType = "NH" /\ in.nhIdx = h THEN {k} ELSE {})
             /\ nhTable'[h].used = nhTable[h].used
  <2>1. k \in nhTable[h].routes => out.nhType = "NH" /\ out.nhIdx = h
    BY DEF RouteInv, ListsExact
  <2>2. ~nhTable[h].used => nhTable[h].routes = {} /\ ~(in.nhType = "NH" /\ in.nhIdx = h)
    BY UnusedListsNothing DEF HopLive
  <2>3. nhTable[h] \in NhType
    BY DEF TypeOK
  <2> QED
    BY <2>1, <2>2, <2>3 DEF Relist, NhType
<1>2. ASSUME NEW r \in RifId
      PROVE  /\ rifTable'[r].routes =
                  (rifTable[r].routes \ {k})
                    \cup (IF in.nhType = "RIF" /\ in.nhIdx = r THEN {k} ELSE {})
             /\ rifTable'[r].valid = rifTable[r].valid
  <2>1. k \in rifTable[r].routes => out.nhType = "RIF" /\ out.nhIdx = r
    BY DEF RouteInv, ListsExact
  <2>2. ~rifTable[r].valid => rifTable[r].routes = {} /\ ~(in.nhType = "RIF" /\ in.nhIdx = r)
    BY UnusedListsNothing DEF HopLive
  <2>3. rifTable[r] \in RifType
    BY DEF TypeOK
  <2> QED
    BY <2>1, <2>2, <2>3 DEF Relist, RifType
<1> QED
  BY <1>1, <1>2 DEF ListedAs

\* A call that leaves the lists alone leaves them so, when k belongs where
\* it did.
LEMMA SameLists ==
  ASSUME TypeOK, RouteInv, NEW k \in RouteKey, NEW route,
         UNCHANGED <<nhTable, rifTable>>,
         \A type \in {"NH", "RIF"} : \A i :
           Names(k, type, i) <=> /\ l3Flow'[k] # NoFlow /\ route.valid
                                 /\ route.nhType = type /\ route.nhIdx = i
  PROVE  ListedAs(k, route)
<1>1. \A h \in NhId : k \in nhTable[h].routes <=> Names(k, "NH", h)
  BY DEF RouteInv, ListsExact
<1>2. \A r \in RifId : k \in rifTable[r].routes <=> Names(k, "RIF", r)
  BY DEF RouteInv, ListsExact
<1> QED
  BY <1>1, <1>2 DEF ListedAs

\* A write succeeds for a route with a flow, unless it is to forward without
\* a next hop; otherwise the route is lost, with its flow.
LEMMA WriteExact ==
  ASSUME TypeOK, RoutesReliable, NEW k \in RouteKey, NEW route, Write(k, route)
  PROVE  \/ /\ Installed(k)
            /\ ~(route.action = "FORWARD" /\ route.nhType = "NONE")
            /\ routeTable' = [routeTable EXCEPT ![k] = route]
            /\ l3Flow' = [l3Flow EXCEPT ![k] = FlowOf(route.action, route.nbr)]
         \/ /\ ~Installed(k) \/ (route.action = "FORWARD" /\ route.nhType = "NONE")
            /\ routeTable' = [routeTable EXCEPT ![k] = NoRoute]
            /\ l3Flow' = [l3Flow EXCEPT ![k] = NoFlow]
<1> DEFINE fails == route.action = "FORWARD" /\ route.nhType = "NONE"
<1>1. /\ routeTable' = [routeTable EXCEPT ![k] = Modified(route, CookieFound(k), fails)]
      /\ l3Flow' = [l3Flow EXCEPT ![k] = FlowModified(k, route, fails)]
  BY DEF Write, MayLose, RoutesReliable
<1>2. CookieFound(k) <=> Installed(k)
  BY DEF CookieFound, RoutesReliable
<1> HIDE DEF fails
<1>3. CASE Installed(k) /\ ~fails
  BY <1>1, <1>2, <1>3 DEF Modified, FlowModified, fails
<1>4. CASE ~(Installed(k) /\ ~fails)
  BY <1>1, <1>2, <1>4 DEF Modified, FlowModified, Installed, fails
<1> QED
  BY <1>3, <1>4

\* A new route joins a list only with a flow, and then its next hop is used.
LEMMA CreateRouteExact ==
  ASSUME TypeOK, RouteInv, NEW k \in RouteKey, NEW act \in Actions,
         NEW hop \in Hops, NEW toCpu \in BOOLEAN, CreateRoute(k, act, hop, toCpu)
  PROVE  RouteInv'
<1> PICK route : route = NewRoute(act, hop, toCpu)
  OBVIOUS
<1>1. /\ route \in RouteType /\ route.valid
      /\ route.nhType = hop.nhType /\ route.nhIdx = hop.nhIdx
      /\ route.nhType \in {"NH", "NONE"}
  <2>1. route \in RouteType
    BY NewRouteType DEF CreateRoute
  <2> QED
    BY <2>1 DEF NewRoute, Hops
<1>2. HopLive(route)
  BY <1>1 DEF HopLive, CreateRoute, HopAccepted
<1>3. ~routeTable[k].valid /\ ~Installed(k) /\ \A type, i : ~Names(k, type, i)
  BY DEF CreateRoute, RouteInv, FlowsHaveRoutes, Names
<1>4. routeTable' = [routeTable EXCEPT ![k] = route]
  BY DEF CreateRoute
<1>5. CASE UNCHANGED <<l3Flow, nhTable, rifTable>>
  <2>1. l3Flow'[k] = NoFlow
    BY <1>3, <1>5 DEF Installed
  <2>2. ListedAs(k, route)
    BY <1>3, <1>5, <2>1, SameLists
  <2> QED
    BY <1>1, <1>4, <1>5, <2>1, <2>2, OneRouteKeepsRouteInv
<1>6. CASE /\ l3Flow' = [l3Flow EXCEPT ![k] = FlowOf(route.action, route.nbr)]
           /\ Relist(k, NoRoute, route)
  <2>1. l3Flow'[k] # NoFlow /\ \A j \in RouteKey \ {k} : l3Flow'[j] = l3Flow[j]
    <3>1. FlowOf(route.action, route.nbr) # NoFlow
      BY <1>1, FlowIsSome DEF RouteType
    <3> QED
      BY <1>6, <3>1 DEF TypeOK
  <2>2. ListedAs(k, route)
    BY <1>1, <1>2, <1>3, <1>6, <2>1, RelistLists
  <2> QED
    BY <1>1, <1>2, <1>4, <2>1, <2>2, OneRouteKeepsRouteInv
<1> QED
  BY <1>5, <1>6 DEF CreateRoute

\* What is lost leaves its list.
LEMMA LostRouteExact ==
  ASSUME TypeOK, RouteInv, NEW k \in RouteKey,
         routeTable' = [routeTable EXCEPT ![k] = NoRoute],
         l3Flow' = [l3Flow EXCEPT ![k] = NoFlow],
         ListedAs(k, NoRoute)
  PROVE  RouteInv'
<1>1. l3Flow'[k] = NoFlow /\ \A j \in RouteKey \ {k} : l3Flow'[j] = l3Flow[j]
  BY DEF TypeOK
<1> QED
  BY <1>1, EmptyTypes, OneRouteKeepsRouteInv

\* NoRoute names nothing.
LEMMA NoRouteNames ==
  NoRoute.nhType = "NONE" /\ ~NoRoute.valid /\ HopLive(NoRoute)
  BY DEF NoRoute, HopLive

LEMMA RemoveRouteExact ==
  ASSUME TypeOK, RouteInv, NEW k \in RouteKey, RemoveRoute(k)
  PROVE  RouteInv'
<1>1. /\ routeTable' = [routeTable EXCEPT ![k] = NoRoute]
      /\ l3Flow' = [l3Flow EXCEPT ![k] = NoFlow]
      /\ Relist(k, routeTable[k], NoRoute)
  BY DEF RemoveRoute
<1>2. ListedAs(k, NoRoute)
  BY <1>1, NoRouteNames, RelistLists DEF Names
<1> QED
  BY <1>1, <1>2, LostRouteExact

\* A written route stays on its list or is moved to that of the object it
\* names now, which is in use; one that is lost is on none.
LEMMA WrittenRouteExact ==
  ASSUME TypeOK, RouteInv, RoutesReliable, NEW k \in RouteKey,
         NEW route \in RouteType, route.valid, HopLive(route),
         Installed(k) => route.nhType # "STACK",
         Write(k, route),
         \/ Relist(k, routeTable[k], routeTable'[k])
         \/ /\ UNCHANGED <<nhTable, rifTable>>
            /\ route.nhType = routeTable[k].nhType
            /\ route.nhIdx = routeTable[k].nhIdx
  PROVE  RouteInv'
<1>1. routeTable[k] \in RouteType /\ routeTable \in [RouteKey -> RouteType]
      /\ l3Flow \in [RouteKey -> FlowType]
  BY DEF TypeOK
<1>2. CASE /\ Installed(k)
           /\ routeTable' = [routeTable EXCEPT ![k] = route]
           /\ l3Flow' = [l3Flow EXCEPT ![k] = FlowOf(route.action, route.nbr)]
  <2>1. l3Flow'[k] # NoFlow /\ \A j \in RouteKey \ {k} : l3Flow'[j] = l3Flow[j]
    <3>1. FlowOf(route.action, route.nbr) # NoFlow
      BY FlowIsSome DEF RouteType
    <3> QED
      BY <1>1, <1>2, <3>1
  <2>2. routeTable'[k] = route /\ routeTable[k].valid
    BY <1>1, <1>2 DEF RouteInv, FlowsHaveRoutes
  <2>3. ListedAs(k, route)
    <3>1. CASE Relist(k, routeTable[k], route)
      BY <2>1, <3>1, RelistLists DEF Names
    <3>2. CASE /\ UNCHANGED <<nhTable, rifTable>>
               /\ route.nhType = routeTable[k].nhType
               /\ route.nhIdx = routeTable[k].nhIdx
      BY <1>2, <2>1, <2>2, <3>2, SameLists DEF Names
    <3> QED
      BY <2>2, <3>1, <3>2
  <2> QED
    BY <1>2, <2>1, <2>3, OneRouteKeepsRouteInv
<1>3. CASE /\ ~Installed(k) \/ (route.action = "FORWARD" /\ route.nhType = "NONE")
           /\ routeTable' = [routeTable EXCEPT ![k] = NoRoute]
           /\ l3Flow' = [l3Flow EXCEPT ![k] = NoFlow]
  <2>1. routeTable'[k] = NoRoute /\ l3Flow'[k] = NoFlow
    BY <1>1, <1>3
  <2>2. ListedAs(k, NoRoute)
    <3>1. CASE Relist(k, routeTable[k], NoRoute)
      BY <3>1, NoRouteNames, RelistLists DEF Names
    <3>2. CASE /\ UNCHANGED <<nhTable, rifTable>>
               /\ route.nhType = routeTable[k].nhType
      <4>1. \A type \in {"NH", "RIF"} : \A i : ~Names(k, type, i)
        BY <1>3, <3>2 DEF Names
      <4> QED
        BY <2>1, <3>2, <4>1, SameLists
    <3> QED
      BY <2>1, <3>1, <3>2
  <2> QED
    BY <1>3, <2>2, LostRouteExact
<1> QED
  BY <1>2, <1>3, WriteExact

LEMMA SetRouteActionExact ==
  ASSUME TypeOK, RouteInv, RoutesReliable, NEW k \in RouteKey, NEW act \in Actions,
         SetRouteAction(k, act)
  PROVE  RouteInv'
<1> DEFINE old == routeTable[k]
           new == [old EXCEPT !.action = act, !.nbr = Resolved(k, old)]
<1>1. old \in RouteType /\ old.valid
  BY DEF TypeOK, SetRouteAction
<1>2. new \in RouteType
  BY <1>1, ResolvedType, RouteUpdate
<1>3. new.valid /\ new.nhType = old.nhType /\ new.nhIdx = old.nhIdx
  BY <1>1 DEF RouteType
<1>4. CASE HopLive(old)
  <2>1. Write(k, new)
    BY <1>4 DEF SetRouteAction
  <2>2. \/ Relist(k, routeTable[k], routeTable'[k])
        \/ UNCHANGED <<nhTable, rifTable>>
    BY <1>4 DEF SetRouteAction
  <2>3. HopLive(new)
    BY <1>3, <1>4 DEF HopLive
  <2>4. Installed(k) => new.nhType # "STACK"
    BY <1>3 DEF RouteInv, FlowsHaveRoutes
  <2> HIDE DEF new
  <2> QED
    BY <1>2, <1>3, <2>1, <2>2, <2>3, <2>4, WrittenRouteExact
<1>5. CASE ~HopLive(old)
  <2>1. /\ routeTable' = [routeTable EXCEPT ![k] = [old EXCEPT !.action = act]]
        /\ UNCHANGED <<l3Flow, nhTable, rifTable>>
    BY <1>5 DEF SetRouteAction
  <2>2. ~Installed(k)
    BY <1>5 DEF RouteInv, FlowsHaveRoutes
  <2>3. l3Flow'[k] = NoFlow /\ [old EXCEPT !.action = act] \in RouteType
    BY <1>1, <2>1, <2>2, RouteUpdate DEF Installed
  <2>4. ListedAs(k, [old EXCEPT !.action = act])
    BY <2>1, <2>2, <2>3, SameLists DEF Names
  <2> QED
    BY <2>1, <2>3, <2>4, OneRouteKeepsRouteInv
<1> QED
  BY <1>4, <1>5

LEMMA SetRouteNextHopExact ==
  ASSUME TypeOK, RouteInv, RoutesReliable, NEW k \in RouteKey, NEW type, NEW i,
         \/ type = "NH" /\ i \in NhId
         \/ type \in {"RIF", "STACK"} /\ i \in RifId,
         SetRouteNextHop(k, type, i)
  PROVE  RouteInv'
<1> DEFINE old   == routeTable[k]
           named == [old EXCEPT !.nhType = type, !.nhIdx = i]
           nbr   == NbrOfNew(k, type, i)
           new   == [named EXCEPT !.nbr = nbr]
<1>1. old \in RouteType /\ old.valid
  BY DEF TypeOK, SetRouteNextHop
<1>2. \/ type = "NH" /\ nhTable[i].used
      \/ type = "RIF" /\ rifTable[i].valid
  BY DEF SetRouteNextHop, HopTrusted, RoutesReliable
<1>3. named \in RouteType /\ nbr \in NbrRef \cup {InvalidId}
  BY <1>1, NbrOfNewType DEF RouteType, HopTypes
<1>4. Write(k, new) /\ Relist(k, routeTable[k], routeTable'[k])
  BY <1>2 DEF SetRouteNextHop, NbrOfNew
<1> HIDE DEF nbr
<1>5. new \in RouteType
  BY <1>3, RouteUpdate
<1>6. new.valid /\ new.nhType = type /\ new.nhIdx = i
  BY <1>1, <1>3 DEF RouteType
<1>7. HopLive(new) /\ new.nhType # "STACK"
  BY <1>2, <1>6 DEF HopLive
<1> HIDE DEF new
<1> QED
  BY <1>4, <1>5, <1>6, <1>7, WrittenRouteExact

\* RouteInv is inductive.
LEMMA RouteInvStep ==
  ASSUME TypeOK, RouteInv, RoutesReliable, [Next]_vars PROVE RouteInv'
<1>1. CASE RouteApi
  <2>1. PICK k \in RouteKey :
          \/ \E act \in Actions, hop \in Hops, toCpu \in BOOLEAN :
               CreateRoute(k, act, hop, toCpu)
          \/ RemoveRoute(k)
          \/ \E act \in Actions : SetRouteAction(k, act)
          \/ \E h \in NhId : SetRouteNextHop(k, "NH", h)
          \/ \E r \in RifId, type \in {"RIF", "STACK"} : SetRouteNextHop(k, type, r)
    BY <1>1 DEF RouteApi
  <2> QED
    BY <2>1, CreateRouteExact, RemoveRouteExact, SetRouteActionExact,
       SetRouteNextHopExact
<1> QED
  BY <1>1, ObjectsKeepRouteInv, NeighborsKeepRouteInv DEF Next

LEMMA RouteInvHolds == Spec => [](RoutesReliable => RouteInv)
<1>1. Init => (RoutesReliable => RouteInv)
  BY DEF Init, RouteInv, ListsExact, FlowsHaveRoutes, Names, Installed, NoNh, NoRif
<1>2. TypeOK /\ (RoutesReliable => RouteInv) /\ [Next]_vars
      => (RoutesReliable => RouteInv)'
  <2>1. RoutesReliable' = RoutesReliable
    BY DEF RoutesReliable
  <2> QED
    BY <2>1, RouteInvStep
<1> QED
  BY <1>1, <1>2, TypeCorrect, PTL DEF Spec

\* With IPv4 routes, a client that names live objects, and flows that can be
\* added back, a list holds exactly the installed routes that name its
\* object, whichever groups fail to be made or deleted.
THEOREM RouteListsCorrect == Spec => [](RoutesReliable => RouteLists)
<1>1. (RoutesReliable => RouteInv) => (RoutesReliable => RouteLists)
  BY RouteListsAre DEF RouteInv
<1> QED
  BY <1>1, RouteInvHolds, PTL

\* And no call that changes a neighbor makes or loses a route.
THEOREM RoutesSurviveNeighbors ==
  ASSUME RoutesReliable PROVE Spec => NeighborChangeKeepsRoutes
<1>1. TypeOK /\ (RoutesReliable => RouteInv) /\ [Next]_vars
      => [nbrTable' # nbrTable => Routes' = Routes]_vars
  <2> SUFFICES ASSUME TypeOK, RouteInv, Next
               PROVE  nbrTable' # nbrTable => Routes' = Routes
    OBVIOUS
  <2>1. CASE NeighborApi
    BY <2>1, NeighborsKeepRouteInv
  <2>2. CASE RouteApi
    BY <2>2, RoutesKeepNbrTable
  <2>3. CASE VirtualRouterApi \/ RouterInterfaceApi \/ NextHopApi
    <3>1. routeTable' = routeTable
      BY <2>3 DEF VirtualRouterApi, CreateVirtualRouter, RemoveVirtualRouter,
                  RouterInterfaceApi, CreateRouterInterface, RemoveRouterInterface,
                  NextHopApi, CreateNextHop, RemoveNextHop
    <3> QED
      BY <3>1 DEF Routes
  <2> QED
    BY <2>1, <2>2, <2>3 DEF Next
<1> QED
  BY <1>1, TypeCorrect, RouteInvHolds, PTL DEF Spec, NeighborChangeKeepsRoutes

-----------------------------------------------------------------------------
(* The flows of routes.                                                    *)

\* No neighbor has the address of a subnet: such a route, if it names an
\* interface, resolves by address but is not told of neighbors.
PlainSubnets == \A p \in Prefix \ HostPrefix : AddrOf[p] \notin Ip \cup {NoIp}

\* Where a route should send packets, by the neighbor its next hop holds.
Target(k, route) ==
  IF route.nhType = "NH" THEN nhTable[route.nhIdx].nbr
  ELSE ResolveAt(route.nhIdx, AddrOf[k[2]])

\* A flow leads where its route should send packets.
FlowFits(k) ==
  IF routeTable[k].action = "FORWARD"
  THEN /\ routeTable[k].nhType \in {"NH", "RIF"}
       /\ l3Flow[k] = Target(k, routeTable[k])
  ELSE l3Flow[k] \in Reserved

FlowsExact == \A k \in RouteKey : Installed(k) => FlowFits(k)

\* What FlowsExact is inductive relative to.
Base == /\ TypeOK /\ NhLists /\ NbrInv /\ NextHopResolved /\ RouteInv
        /\ GroupsReliable /\ RoutesReliable /\ PlainSubnets

\* With it, FlowsExact says that the switch follows the neighbors.
LEMMA FlowsFollow ==
  Base /\ FlowsExact => HardwareFollowsNeighbors
<1> SUFFICES ASSUME Base, FlowsExact, NEW k \in RouteKey, Installed(k)
             PROVE  /\ routeTable[k].valid
                    /\ IF routeTable[k].action = "FORWARD" THEN l3Flow[k] = Wanted(k)
                       ELSE l3Flow[k] \in Reserved
  BY DEF HardwareFollowsNeighbors
<1>1. FlowFits(k) /\ routeTable[k].valid /\ HopLive(routeTable[k])
  BY DEF FlowsExact, Base, RouteInv, FlowsHaveRoutes
<1>2. routeTable[k].nhType = "NH" => routeTable[k].nhIdx \in UsedNhs
  BY <1>1 DEF HopLive, Base, TypeOK, RouteType, UsedNhs
<1>3. Target(k, routeTable[k]) = Wanted(k)
  BY <1>2 DEF Target, Wanted, Base, NextHopResolved
<1> QED
  BY <1>1, <1>3 DEF FlowFits

\* The flow of a forwarding route is the neighbor id itself.
LEMMA FlowOfNeighbor ==
  ASSUME NEW nbr \in NbrRef
  PROVE  /\ FlowOf("FORWARD", nbr) = nbr
         /\ \A act \in Actions \ {"FORWARD"} : FlowOf(act, nbr) \in Reserved
  BY DEF FlowOf, Actions, Reserved

\* Steps that change no route, and not where a route on a list leads.
LEMMA TargetsKept ==
  ASSUME Base, FlowsExact, UNCHANGED <<routeTable, l3Flow>>,
         \A h \in NhId : nhTable[h].routes # {} => nhTable'[h].nbr = nhTable[h].nbr,
         \A r \in RifId : rifTable[r].routes # {} =>
           \A b : ResolveAt(r, b)' = ResolveAt(r, b)
  PROVE  FlowsExact'
<1> SUFFICES ASSUME NEW k \in RouteKey, Installed(k), FlowFits(k) PROVE FlowFits(k)'
  BY DEF FlowsExact, Installed
<1> PICK type, i, b : /\ type = routeTable[k].nhType /\ i = routeTable[k].nhIdx
                      /\ b = AddrOf[k[2]]
  OBVIOUS
<1>1. Names(k, type, i) /\ (type = "NH" => i \in NhId) /\ (type = "RIF" => i \in RifId)
  BY DEF Names, Base, RouteInv, FlowsHaveRoutes, TypeOK, RouteType
<1>2. type = "NH" => nhTable'[i].nbr = nhTable[i].nbr
  BY <1>1 DEF Base, RouteInv, ListsExact
<1>3. type = "RIF" => ResolveAt(i, b)' = ResolveAt(i, b)
  BY <1>1 DEF Base, RouteInv, ListsExact
<1>4. type \in {"NH", "RIF"} => Target(k, routeTable[k])' = Target(k, routeTable[k])
  BY <1>2, <1>3 DEF Target
<1> QED
  BY <1>4 DEF FlowFits

\* Virtual routers, interfaces and next hops come and go without a flow
\* being wrong: what a route leads to is not among what changes.
LEMMA ObjectsKeepFlows ==
  ASSUME Base, FlowsExact,
         VirtualRouterApi \/ RouterInterfaceApi \/ NextHopApi \/ UNCHANGED vars
  PROVE  FlowsExact'
<1>0. UNCHANGED <<routeTable, l3Flow>>
  BY DEF VirtualRouterApi, CreateVirtualRouter, RemoveVirtualRouter,
         RouterInterfaceApi, CreateRouterInterface, RemoveRouterInterface,
         NextHopApi, CreateNextHop, RemoveNextHop, vars
<1>1. TypeOK /\ RouteInv
  BY DEF Base
<1>2. \A h \in NhId : nhTable[h].routes # {} => nhTable'[h].nbr = nhTable[h].nbr
  <2>1. CASE VirtualRouterApi \/ RouterInterfaceApi \/ UNCHANGED vars
    BY <2>1 DEF VirtualRouterApi, CreateVirtualRouter, RemoveVirtualRouter,
         RouterInterfaceApi, CreateRouterInterface, RemoveRouterInterface, vars
  <2>2. ASSUME NEW h \in NhId, NEW r \in RifId, NEW a \in Ip, CreateNextHop(h, r, a)
        PROVE  \A g \in NhId : nhTable[g].routes # {} => nhTable'[g].nbr = nhTable[g].nbr
    <3>1. nhTable[h].routes = {}
      BY <1>1, <2>2, UnusedListsNothing DEF CreateNextHop, IsFirstFree, UsedNhs
    <3> QED
      BY <1>1, <2>2, <3>1 DEF CreateNextHop, TypeOK
  <2>3. ASSUME NEW h \in NhId, RemoveNextHop(h)
        PROVE  \A g \in NhId : nhTable[g].routes # {} => nhTable'[g].nbr = nhTable[g].nbr
    BY <1>1, <2>3 DEF RemoveNextHop, TypeOK
  <2> QED
    BY <2>1, <2>2, <2>3 DEF NextHopApi
<1>3. ASSUME NEW r \in RifId, rifTable[r].routes # {}, NEW b
      PROVE  ResolveAt(r, b)' = ResolveAt(r, b)
  <2>1. rifTable[r].valid
    BY <1>1, <1>3, UnusedListsNothing
  <2>2. rifTable'[r].nbrs = rifTable[r].nbrs /\ rifTable'[r].miss = rifTable[r].miss
    <3>1. CASE RouterInterfaceApi
      <4>1. ASSUME NEW s \in RifId, NEW v \in VrId, NEW miss \in MissActions,
                   CreateRouterInterface(s, v, miss)
            PROVE  rifTable'[r] = rifTable[r]
        BY <1>1, <2>1, <4>1 DEF CreateRouterInterface, IsFirstFree, UsedRifs, TypeOK
      <4>2. ASSUME NEW s \in RifId, RemoveRouterInterface(s)
            PROVE  rifTable'[r] = rifTable[r]
        BY <1>1, <1>3, <4>2 DEF RemoveRouterInterface, TypeOK
      <4> QED
        BY <3>1, <4>1, <4>2 DEF RouterInterfaceApi
    <3>2. CASE NextHopApi
      <4>1. \E s, New : rifTable' = [rifTable EXCEPT ![s].nhs = New]
        BY <3>2 DEF NextHopApi, CreateNextHop, RemoveNextHop
      <4>2. rifTable \in [RifId -> RifType]
        BY <1>1 DEF TypeOK
      <4> QED
        BY <4>1, <4>2 DEF RifType
    <3>3. CASE VirtualRouterApi \/ UNCHANGED vars
      BY <3>3 DEF VirtualRouterApi, CreateVirtualRouter, RemoveVirtualRouter, vars
    <3> QED
      BY <3>1, <3>2, <3>3
  <2>3. \A n \in NbrId : /\ nbrTable'[n].used = nbrTable[n].used
                         /\ nbrTable'[n].ip = nbrTable[n].ip
    <3>1. CASE RouterInterfaceApi
      BY <3>1 DEF RouterInterfaceApi, CreateRouterInterface, RemoveRouterInterface
    <3>2. CASE ~RouterInterfaceApi
      BY <1>1, <3>2, OthersKeepNbrs DEF NbrsKept
    <3> QED
      BY <3>1, <3>2
  <2>4. NbrMatches(r, b)' = NbrMatches(r, b)
    <3>1. rifTable[r].nbrs \subseteq NbrId
      BY <1>1 DEF TypeOK, RifType
    <3> QED
      BY <2>2, <2>3, <3>1 DEF NbrMatches
  <2> QED
    BY <2>2, <2>4, SameResolution
<1> QED
  BY <1>0, <1>2, <1>3, TargetsKept

\* A route told of a neighbor and not found on the list of the other kind.
LEMMA WhoIsTold ==
  ASSUME Base, NEW k \in RouteKey, Installed(k), NEW r \in RifId, NEW a
  PROVE  LET type == routeTable[k].nhType
             i    == routeTable[k].nhIdx
         IN
         /\ type = "NH" => (k \in DependentRoutes(r, a) <=> i \in NhMatches(r, a))
         /\ type = "RIF" => (k \in DependentRoutes(r, a) <=>
                               /\ i = r /\ k[2] \in HostPrefix /\ AddrOf[k[2]] = a)
<1> PICK type, i : type = routeTable[k].nhType /\ i = routeTable[k].nhIdx
  OBVIOUS
<1>1. \A t, j : Names(k, t, j) <=> type = t /\ i = j
  BY DEF Names, Base, RouteInv, FlowsHaveRoutes
<1>2. \A h \in NhId : k \in nhTable[h].routes <=> type = "NH" /\ i = h
  BY <1>1 DEF Base, RouteInv, ListsExact
<1>3. k \in rifTable[r].routes <=> type = "RIF" /\ i = r
  BY <1>1 DEF Base, RouteInv, ListsExact
<1>4. NhMatches(r, a) \subseteq NhId
  BY DEF NhMatches, Base, TypeOK, RifType
<1>5. k \in UNION {nhTable[h].routes : h \in NhMatches(r, a)}
        <=> type = "NH" /\ i \in NhMatches(r, a)
  BY <1>2, <1>4
<1> QED
  BY <1>3, <1>5 DEF DependentRoutes

\* The routes told get a flow to the neighbor; the others keep theirs.
LEMMA ToldRoutes ==
  ASSUME Base, NEW r \in RifId, NEW a, NEW nbr \in NbrRef, UpdateNbrId(r, a, nbr)
  PROVE  \A k \in RouteKey :
           /\ routeTable'[k].action = routeTable[k].action
           /\ routeTable'[k].nhType = routeTable[k].nhType
           /\ routeTable'[k].nhIdx = routeTable[k].nhIdx
           /\ IF k \in DependentRoutes(r, a)
              THEN Installed(k) /\ l3Flow'[k] = FlowOf(routeTable[k].action, nbr)
              ELSE l3Flow'[k] = l3Flow[k]
<1> DEFINE K == DependentRoutes(r, a)
           routeTo == [k \in K |-> nbr]
<1>1. K \subseteq {k \in RouteKey : Installed(k)}
  BY DependentInstalled DEF Base
<1>2. Retarget([h \in NhMatches(r, a) |-> nbr], routeTo, {})
  BY DEF UpdateNbrId, MayLose, RoutesReliable, Base
<1>3. DOMAIN routeTo = K /\ \A k \in K : routeTo[k] = nbr
  OBVIOUS
<1> HIDE DEF K, routeTo
<1>4. \A k \in DOMAIN routeTo : k \in RouteKey /\ Installed(k)
  BY <1>1, <1>3
<1>5. /\ \A k \in DOMAIN routeTo :
           /\ routeTable'[k] = [routeTable[k] EXCEPT !.nbr = routeTo[k]]
           /\ l3Flow'[k] = FlowOf(routeTable[k].action, routeTo[k])
      /\ \A k \in RouteKey \ DOMAIN routeTo :
           routeTable'[k] = routeTable[k] /\ l3Flow'[k] = l3Flow[k]
  BY <1>2, <1>4, RetargetedRoutes DEF Base
<1> SUFFICES ASSUME NEW k \in RouteKey
             PROVE  /\ routeTable'[k].action = routeTable[k].action
                    /\ routeTable'[k].nhType = routeTable[k].nhType
                    /\ routeTable'[k].nhIdx = routeTable[k].nhIdx
                    /\ IF k \in K
                       THEN Installed(k) /\ l3Flow'[k] = FlowOf(routeTable[k].action, nbr)
                       ELSE l3Flow'[k] = l3Flow[k]
  BY DEF K
<1>6. CASE k \in K
  <2>1. routeTable[k] \in RouteType
    BY DEF Base, TypeOK
  <2>2. routeTable'[k] = [routeTable[k] EXCEPT !.nbr = nbr]
    BY <1>3, <1>5, <1>6
  <2>3. Installed(k) /\ l3Flow'[k] = FlowOf(routeTable[k].action, nbr)
    BY <1>3, <1>4, <1>5, <1>6
  <2> QED
    BY <1>6, <2>1, <2>2, <2>3 DEF RouteType
<1>7. CASE k \notin K
  BY <1>3, <1>5, <1>7
<1> QED
  BY <1>6, <1>7

\* A neighbor that comes or goes takes all flows of its address with it.
LEMMA ToldFlows ==
  ASSUME Base, FlowsExact, NEW r \in UsedRifs, NEW a \in Ip, NEW nbr \in NbrRef,
         UpdateNbrId(r, a, nbr), ResolveAt(r, a)' = nbr,
         \A s \in UsedRifs : \A b : ~(s = r /\ b = a) =>
           ResolveAt(s, b)' = ResolveAt(s, b)
  PROVE  FlowsExact'
<1>1. r \in RifId
  BY DEF UsedRifs
<1> SUFFICES ASSUME NEW k \in RouteKey, Installed(k)' PROVE FlowFits(k)'
  BY DEF FlowsExact
<1> PICK act, type, i, b : /\ act = routeTable[k].action /\ type = routeTable[k].nhType
                           /\ i = routeTable[k].nhIdx /\ b = AddrOf[k[2]]
  OBVIOUS
<1>2. /\ routeTable'[k].action = act /\ routeTable'[k].nhType = type
      /\ routeTable'[k].nhIdx = i
      /\ IF k \in DependentRoutes(r, a)
         THEN Installed(k) /\ l3Flow'[k] = FlowOf(act, nbr)
         ELSE l3Flow'[k] = l3Flow[k]
  BY <1>1, ToldRoutes
<1>3. /\ Installed(k) /\ HopLive(routeTable[k]) /\ FlowFits(k)
      /\ act \in Actions
      /\ type = "NH" => i \in NhId
      /\ type = "RIF" => i \in UsedRifs
  BY <1>2 DEF Installed, FlowsExact, Base, RouteInv, FlowsHaveRoutes, HopLive,
              TypeOK, RouteType, UsedRifs
<1>4. /\ type = "NH" => (k \in DependentRoutes(r, a) <=> i \in NhMatches(r, a))
      /\ type = "RIF" => (k \in DependentRoutes(r, a) <=>
                            /\ i = r /\ k[2] \in HostPrefix /\ b = a)
  BY <1>1, <1>3, WhoIsTold
<1>5. type = "NH" => nhTable'[i].nbr = IF i \in NhMatches(r, a) THEN nbr
                                       ELSE nhTable[i].nbr
  BY <1>3, ToldNextHops DEF Base
<1>6. k[2] \notin HostPrefix => b # a
  BY DEF Base, PlainSubnets, RouteKey
<1>7. CASE act # "FORWARD"
  <2>1. l3Flow'[k] \in Reserved
    BY <1>2, <1>3, <1>7, FlowOfNeighbor DEF FlowFits
  <2> QED
    BY <1>2, <1>7, <2>1 DEF FlowFits
<1>8. CASE act = "FORWARD"
  <2>1. type \in {"NH", "RIF"}
    BY <1>3, <1>8 DEF FlowFits
  <2>2. CASE type = "NH"
    <3>1. l3Flow'[k] = nhTable'[i].nbr
      BY <1>2, <1>3, <1>4, <1>5, <1>8, <2>2, FlowOfNeighbor DEF FlowFits, Target
    <3> QED
      BY <1>2, <1>8, <2>2, <3>1 DEF FlowFits, Target
  <2>3. CASE type = "RIF"
    <3>1. k \in DependentRoutes(r, a) <=> i = r /\ b = a
      BY <1>4, <1>6, <2>3
    <3>2. l3Flow'[k] = ResolveAt(i, b)'
      BY <1>2, <1>3, <1>8, <2>3, <3>1, FlowOfNeighbor DEF FlowFits, Target
    <3>3. Target(k, routeTable[k])' = ResolveAt(i, b)'
      BY <1>2, <2>3 DEF Target
    <3> QED
      BY <1>2, <1>8, <2>3, <3>2, <3>3 DEF FlowFits
  <2> QED
    BY <2>1, <2>2, <2>3
<1> QED
  BY <1>7, <1>8

\* A flow whose neighbor goes with all the others is told, and leads where
\* the miss action says; one that is not told leads there already.
LEMMA AllRemovedFlows ==
  ASSUME Base, FlowsExact, NextHopResolved', RemoveAllNeighbors PROVE FlowsExact'
<1> DEFINE At == {x \in UsedRifs \X UsedNbrs : x[2] \in rifTable[x[1]].nbrs}
           Deps(x) == DependentRoutes(x[1], nbrTable[x[2]].ip)
           K == UNION {Deps(x) : x \in At}
           H == UNION {NhMatches(x[1], nbrTable[x[2]].ip) : x \in At}
           nhTo == [h \in H |-> MissId(nhTable[h].rif)]
           Teller(k) == CHOOSE x \in At : k \in Deps(x)
           routeTo == [k \in K |-> MissId(Teller(k)[1])]
<1>1. Retarget(nhTo, routeTo, {})
  BY AllNeighborsRemoved DEF RemoveReached, MayLose, RoutesReliable, Base
<1>2. \A k \in K : k \in RouteKey /\ Installed(k)
  <2>1. \A x \in At : Deps(x) \subseteq {k \in RouteKey : Installed(k)}
    BY DependentInstalled DEF Base, UsedRifs
  <2> QED
    BY <2>1
<1>3. DOMAIN routeTo = K /\ \A k \in K : routeTo[k] = MissId(Teller(k)[1])
  OBVIOUS
<1>4. \A k \in K : Teller(k) \in At /\ k \in Deps(Teller(k))
  OBVIOUS
<1> HIDE DEF routeTo, nhTo, Teller
<1>5. /\ \A k \in K :
           /\ routeTable'[k] = [routeTable[k] EXCEPT !.nbr = routeTo[k]]
           /\ l3Flow'[k] = FlowOf(routeTable[k].action, routeTo[k])
      /\ \A k \in RouteKey \ K :
           routeTable'[k] = routeTable[k] /\ l3Flow'[k] = l3Flow[k]
  <2> HIDE DEF K
  <2> QED
    BY <1>1, <1>2, <1>3, RetargetedRoutes DEF Base
<1>6. /\ UsedNhs' = UsedNhs
      /\ \A g \in NhId : nhTable'[g].rif = nhTable[g].rif /\ nhTable'[g].ip = nhTable[g].ip
  BY <1>1, RetargetSets DEF Base
<1> SUFFICES ASSUME NEW k \in RouteKey, Installed(k)' PROVE FlowFits(k)'
  BY DEF FlowsExact
<1> PICK act, type, i, b : /\ act = routeTable[k].action /\ type = routeTable[k].nhType
                           /\ i = routeTable[k].nhIdx /\ b = AddrOf[k[2]]
  OBVIOUS
<1>7. /\ routeTable'[k].action = act /\ routeTable'[k].nhType = type
      /\ routeTable'[k].nhIdx = i
      /\ k \in K => l3Flow'[k] = FlowOf(act, MissId(Teller(k)[1]))
      /\ k \notin K => l3Flow'[k] = l3Flow[k]
  <2>1. routeTable[k] \in RouteType
    BY DEF Base, TypeOK
  <2> HIDE DEF K
  <2>2. CASE k \in K
    BY <1>3, <1>5, <2>1, <2>2 DEF RouteType
  <2>3. CASE k \notin K
    BY <1>5, <2>3
  <2> QED
    BY <2>2, <2>3
<1>8. Installed(k)
  <2> HIDE DEF K
  <2> QED
    BY <1>2, <1>7 DEF Installed
<1>9. /\ FlowFits(k) /\ act \in Actions
      /\ type = "NH" => i \in UsedNhs
      /\ type = "RIF" => i \in UsedRifs
  BY <1>8 DEF FlowsExact, Base, RouteInv, FlowsHaveRoutes, HopLive,
              TypeOK, RouteType, UsedRifs, UsedNhs
<1>10. CASE act # "FORWARD"
  <2>1. l3Flow'[k] \in Reserved
    <3>1. \A m : MissId(m) \in NbrRef
      BY MissIdType DEF NbrRef
    <3> HIDE DEF K
    <3> QED
      BY <1>7, <1>9, <1>10, <3>1, FlowOfNeighbor DEF FlowFits
  <2> QED
    BY <1>7, <1>10, <2>1 DEF FlowFits
<1>11. CASE act = "FORWARD"
  <2>1. type \in {"NH", "RIF"} /\ l3Flow[k] = Target(k, routeTable[k])
    BY <1>9, <1>11 DEF FlowFits
  <2> PICK s, a : /\ s = (IF type = "NH" THEN nhTable[i].rif ELSE i)
                  /\ a = (IF type = "NH" THEN nhTable[i].ip ELSE b)
    OBVIOUS
  <2>2. s \in UsedRifs /\ Target(k, routeTable[k]) = ResolveAt(s, a)
    BY <1>9, <2>1 DEF Base, NhLists, NextHopResolved, Target
  <2>3. ASSUME NEW x \in At, k \in Deps(x) PROVE x[1] = s
    <3>1. x[1] \in RifId /\ x[1] \in UsedRifs
      BY DEF UsedRifs
    <3>2. /\ type = "NH" => i \in NhMatches(x[1], nbrTable[x[2]].ip)
          /\ type = "RIF" => i = x[1]
      BY <1>8, <2>3, <3>1, WhoIsTold
    <3> QED
      BY <1>9, <2>1, <3>1, <3>2, NhFound DEF Base
  <2>4. ASSUME NEW m \in NbrMatches(s, a) PROVE k \in K
    <3>1. m \in UsedNbrs /\ m \in rifTable[s].nbrs /\ nbrTable[m].ip = a
      BY <2>2, <2>4 DEF NbrMatches, UsedNbrs, UsedRifs, Base, TypeOK, RifType
    <3>2. <<s, m>> \in At
      BY <2>2, <3>1
    <3>3. type = "NH" => i \in NhMatches(s, a)
      BY <1>9, <2>2, NhFound DEF Base
    <3>4. type = "RIF" => k[2] \in HostPrefix
      BY <3>1 DEF Base, PlainSubnets, RouteKey, UsedNbrs, TypeOK, NbrType
    <3>5. k \in DependentRoutes(s, a)
      BY <1>8, <2>1, <2>2, <3>3, <3>4, WhoIsTold DEF UsedRifs
    <3>6. k \in Deps(<<s, m>>)
      BY <3>1, <3>5
    <3> HIDE DEF At, Deps
    <3> QED
      BY <3>2, <3>6
  <2>5. l3Flow'[k] = MissId(s)
    <3>1. MissId(s) \in NbrRef
      BY MissIdType DEF NbrRef
    <3>2. CASE k \in K
      <4>1. Teller(k)[1] = s
        BY <1>4, <2>3, <3>2
      <4> HIDE DEF K
      <4> QED
        BY <1>7, <1>11, <3>1, <3>2, <4>1, FlowOfNeighbor
    <3>3. CASE k \notin K
      <4>1. NbrMatches(s, a) = {}
        BY <2>4, <3>3
      <4> HIDE DEF K
      <4> QED
        BY <1>7, <2>1, <2>2, <3>3, <4>1 DEF ResolveAt
    <3> QED
      BY <3>2, <3>3
  <2>6. \A r \in UsedRifs : \A c : ResolveAt(r, c)' = MissId(r)
    BY AllRemovedResolution DEF Base
  <2>7. type = "NH" => nhTable'[i].nbr = MissId(s)
    <3> SUFFICES ASSUME type = "NH" PROVE nhTable'[i].nbr = MissId(s)
      OBVIOUS
    <3>1. i \in UsedNhs' /\ nhTable'[i].rif = s /\ nhTable'[i].ip = a
      BY <1>6, <1>9 DEF UsedNhs
    <3>2. nhTable'[i].nbr = ResolveAt(s, a)'
      BY <3>1 DEF NextHopResolved
    <3> QED
      BY <2>2, <2>6, <3>2
  <2>8. type = "RIF" => ResolveAt(i, b)' = MissId(s)
    BY <2>2, <2>6
  <2>9. Target(k, routeTable[k])' = MissId(s)
    BY <1>7, <2>1, <2>7, <2>8 DEF Target
  <2> QED
    BY <1>7, <1>11, <2>1, <2>5, <2>9 DEF FlowFits
<1> QED
  BY <1>10, <1>11

\* Neighbors come and go, and every flow with them.
LEMMA NeighborsKeepFlows ==
  ASSUME Base, FlowsExact, NextHopResolved', NeighborApi PROVE FlowsExact'
<1>1. ASSUME NEW n \in NbrId, NEW r \in RifId, NEW a \in Ip, CreateNeighbor(n, r, a)
      PROVE  FlowsExact'
  <2>1. r \in UsedRifs /\ n \in NbrRef /\ UpdateNbrId(r, a, n)
    BY <1>1 DEF CreateNeighbor, UsedRifs, NbrRef
  <2>2. /\ ResolveAt(r, a)' = n
        /\ \A s \in UsedRifs : \A b : ~(s = r /\ b = a) =>
             ResolveAt(s, b)' = ResolveAt(s, b)
    BY <1>1, CreatedResolution DEF Base
  <2> QED
    BY <2>1, <2>2, ToldFlows
<1>2. ASSUME NEW r \in RifId, NEW a \in Ip, RemoveNeighbor(r, a) PROVE FlowsExact'
  <2>1. r \in UsedRifs /\ MissId(r) \in NbrRef /\ UpdateNbrId(r, a, MissId(r))
    BY <1>2, MissIdType DEF RemoveNeighbor, UsedRifs, NbrRef
  <2>2. /\ ResolveAt(r, a)' = MissId(r)
        /\ \A s \in UsedRifs : \A b : ~(s = r /\ b = a) =>
             ResolveAt(s, b)' = ResolveAt(s, b)
    BY <1>2, RemovedResolution DEF Base
  <2> PICK nbr : nbr = MissId(r)
    OBVIOUS
  <2> QED
    BY <2>1, <2>2, ToldFlows
<1> QED
  BY <1>1, <1>2, AllRemovedFlows DEF NeighborApi

\* No call about routes changes where next hops or addresses lead.
LEMMA RoutesKeepTargets ==
  ASSUME TypeOK, RouteApi
  PROVE  /\ \A h \in NhId : nhTable'[h].nbr = nhTable[h].nbr
         /\ \A r \in RifId : \A b : ResolveAt(r, b)' = ResolveAt(r, b)
<1>1. /\ nbrTable' = nbrTable
      /\ UNCHANGED <<nhTable, rifTable>> \/ \E k, out, in : Relist(k, out, in)
  BY RoutesKeepNbrTable
<1>2. ASSUME NEW k, NEW out, NEW in, Relist(k, out, in)
      PROVE  /\ \A h \in NhId : nhTable'[h].nbr = nhTable[h].nbr
             /\ \A r \in RifId : rifTable'[r].miss = rifTable[r].miss
  BY <1>2 DEF Relist, TypeOK, NhType, RifType
<1>3. \A r \in RifId : rifTable'[r].nbrs = rifTable[r].nbrs
  BY OthersKeepNbrs DEF NbrsKept
<1>4. \A r \in RifId : \A b : NbrMatches(r, b)' = NbrMatches(r, b)
  BY <1>1, <1>3 DEF NbrMatches
<1> QED
  BY <1>1, <1>2, <1>4, SameResolution

\* A call that changes one route keeps all flows right, when that route's is.
LEMMA OneRouteKeepsFlows ==
  ASSUME Base, FlowsExact, RouteApi, NEW k \in RouteKey, NEW route \in RouteType,
         routeTable' = [routeTable EXCEPT ![k] = route],
         \A j \in RouteKey \ {k} : l3Flow'[j] = l3Flow[j],
         \/ l3Flow'[k] = NoFlow
         \/ route.action # "FORWARD" /\ l3Flow'[k] \in Reserved
         \/ route.nhType \in {"NH", "RIF"} /\ l3Flow'[k] = Target(k, route)
              /\ route.action = "FORWARD"
  PROVE  FlowsExact'
<1>1. routeTable'[k] = route /\ \A j \in RouteKey \ {k} : routeTable'[j] = routeTable[j]
  BY DEF Base, TypeOK
<1>2. ASSUME NEW j \in RouteKey, NEW q \in RouteType, routeTable'[j] = q,
             q.nhType \in {"NH", "RIF"}
      PROVE  Target(j, routeTable[j])' = Target(j, q)
  <2> PICK type, i, b : type = q.nhType /\ i = q.nhIdx /\ b = AddrOf[j[2]]
    OBVIOUS
  <2>1. (type = "NH" => i \in NhId) /\ (type = "RIF" => i \in RifId)
    BY DEF RouteType
  <2>2. /\ type = "NH" => nhTable'[i].nbr = nhTable[i].nbr
        /\ type = "RIF" => ResolveAt(i, b)' = ResolveAt(i, b)
    BY <2>1, RoutesKeepTargets DEF Base
  <2>3. routeTable'[j].nhType = type /\ routeTable'[j].nhIdx = i
    BY <1>2
  <2> QED
    BY <1>2, <2>2, <2>3 DEF Target
<1> SUFFICES ASSUME NEW j \in RouteKey, Installed(j)' PROVE FlowFits(j)'
  BY DEF FlowsExact
<1>3. CASE j = k
  BY <1>1, <1>2, <1>3 DEF FlowFits, Installed
<1>4. CASE j # k
  <2>1. routeTable'[j] = routeTable[j] /\ l3Flow'[j] = l3Flow[j]
    BY <1>1, <1>4
  <2>2. FlowFits(j) /\ routeTable[j] \in RouteType
    BY <2>1 DEF FlowsExact, Installed, Base, TypeOK
  <2> QED
    BY <1>2, <2>1, <2>2 DEF FlowFits
<1> QED
  BY <1>3, <1>4

\* What a route of either kind leads to is a neighbor or a miss action.
LEMMA TargetType ==
  ASSUME Base, NEW k \in RouteKey, NEW route \in RouteType,
         route.nhType \in {"NH", "RIF"}
  PROVE  Target(k, route) \in NbrRef
<1>1. route.nhType = "NH" => nhTable[route.nhIdx].nbr \in NbrRef
  BY DEF Base, TypeOK, RouteType, NhType
<1>2. route.nhType = "RIF" => ResolveAt(route.nhIdx, AddrOf[k[2]]) \in NbrRef
  BY ResolveAtType DEF Base, RouteType
<1> QED
  BY <1>1, <1>2 DEF Target

\* A write of a route that read its neighbor from its object.
LEMMA WriteKeepsFlows ==
  ASSUME Base, FlowsExact, RouteApi, NEW k \in RouteKey, NEW route \in RouteType,
         Write(k, route),
         Installed(k) /\ route.action = "FORWARD" /\ route.nhType # "NONE" =>
           route.nhType \in {"NH", "RIF"} /\ route.nbr = Target(k, route)
  PROVE  FlowsExact'
<1>1. l3Flow \in [RouteKey -> FlowType]
  BY DEF Base, TypeOK
<1>2. CASE /\ Installed(k)
           /\ ~(route.action = "FORWARD" /\ route.nhType = "NONE")
           /\ routeTable' = [routeTable EXCEPT ![k] = route]
           /\ l3Flow' = [l3Flow EXCEPT ![k] = FlowOf(route.action, route.nbr)]
  <2>1. /\ l3Flow'[k] = FlowOf(route.action, route.nbr)
        /\ \A j \in RouteKey \ {k} : l3Flow'[j] = l3Flow[j]
    BY <1>1, <1>2
  <2>2. CASE route.action = "FORWARD"
    <3>1. route.nhType \in {"NH", "RIF"} /\ route.nbr = Target(k, route)
      BY <1>2, <2>2
    <3>2. l3Flow'[k] = Target(k, route)
      BY <2>1, <2>2, <3>1, TargetType, FlowOfNeighbor
    <3> QED
      BY <1>2, <2>1, <2>2, <3>1, <3>2, OneRouteKeepsFlows
  <2>3. CASE route.action # "FORWARD"
    <3>1. l3Flow'[k] \in Reserved
      BY <2>1, <2>3 DEF FlowOf, RouteType, Actions, Reserved
    <3> QED
      BY <1>2, <2>1, <2>3, <3>1, OneRouteKeepsFlows
  <2> QED
    BY <2>2, <2>3
<1>3. CASE /\ routeTable' = [routeTable EXCEPT ![k] = NoRoute]
           /\ l3Flow' = [l3Flow EXCEPT ![k] = NoFlow]
  BY <1>1, <1>3, EmptyTypes, OneRouteKeepsFlows
<1> QED
  BY <1>2, <1>3, WriteExact DEF Base

\* A new route reads the neighbor of its next hop.
LEMMA CreateRouteFlows ==
  ASSUME Base, FlowsExact, RouteApi, NEW k \in RouteKey, NEW act \in Actions,
         NEW hop \in Hops, NEW toCpu \in BOOLEAN, CreateRoute(k, act, hop, toCpu)
  PROVE  FlowsExact'
<1> PICK route : route = NewRoute(act, hop, toCpu)
  OBVIOUS
<1>1. /\ route \in RouteType
      /\ route.nhType = hop.nhType /\ route.nhIdx = hop.nhIdx
      /\ route.action = "FORWARD" =>
           hop.nhType = "NH" /\ route.nbr = nhTable[hop.nhIdx].nbr
  <2>1. route \in RouteType
    BY NewRouteType DEF CreateRoute, Base
  <2> QED
    BY <2>1 DEF NewRoute, CreateRoute
<1>2. routeTable' = [routeTable EXCEPT ![k] = route]
  BY DEF CreateRoute
<1>3. CASE l3Flow' = l3Flow
  <2>1. l3Flow[k] = NoFlow
    BY DEF CreateRoute, Base, RouteInv, FlowsHaveRoutes, Installed
  <2> QED
    BY <1>1, <1>2, <1>3, <2>1, OneRouteKeepsFlows
<1>4. CASE l3Flow' = [l3Flow EXCEPT ![k] = FlowOf(route.action, route.nbr)]
  <2>1. /\ l3Flow'[k] = FlowOf(route.action, route.nbr)
        /\ \A j \in RouteKey \ {k} : l3Flow'[j] = l3Flow[j]
    BY <1>4 DEF Base, TypeOK
  <2>2. CASE route.action = "FORWARD"
    <3>1. route.nhType = "NH" /\ route.nbr = Target(k, route)
      BY <1>1, <2>2 DEF Target
    <3>2. l3Flow'[k] = Target(k, route)
      BY <1>1, <2>1, <2>2, <3>1, TargetType, FlowOfNeighbor
    <3> QED
      BY <1>1, <1>2, <2>1, <2>2, <3>1, <3>2, OneRouteKeepsFlows
  <2>3. CASE route.action # "FORWARD"
    <3>1. l3Flow'[k] \in Reserved
      BY <1>1, <2>1, <2>3 DEF FlowOf, RouteType, Actions, Reserved
    <3> QED
      BY <1>1, <1>2, <2>1, <2>3, <3>1, OneRouteKeepsFlows
  <2> QED
    BY <2>2, <2>3
<1> QED
  BY <1>3, <1>4 DEF CreateRoute

\* Another action makes a route read its neighbor again.
LEMMA SetRouteActionFlows ==
  ASSUME Base, FlowsExact, RouteApi, NEW k \in RouteKey, NEW act \in Actions,
         SetRouteAction(k, act)
  PROVE  FlowsExact'
<1> DEFINE old == routeTable[k]
           new == [old EXCEPT !.action = act, !.nbr = Resolved(k, old)]
<1>1. old \in RouteType
  BY DEF Base, TypeOK
<1>2. new \in RouteType
  BY <1>1, ResolvedType, RouteUpdate DEF Base
<1>3. /\ new.nhType = old.nhType /\ new.nhIdx = old.nhIdx
      /\ new.nbr = Resolved(k, old)
  BY <1>1 DEF RouteType
<1>4. CASE HopLive(old)
  <2>1. Write(k, new)
    BY <1>4 DEF SetRouteAction
  <2>2. Installed(k) /\ new.nhType # "NONE" =>
          new.nhType \in {"NH", "RIF"} /\ new.nbr = Target(k, new)
    <3>1. Installed(k) => old.nhType # "STACK"
      BY DEF Base, RouteInv, FlowsHaveRoutes
    <3> HIDE DEF new
    <3> QED
      BY <1>1, <1>3, <3>1 DEF Resolved, Target, RouteType, HopTypes
  <2> HIDE DEF new
  <2> QED
    BY <1>2, <2>1, <2>2, WriteKeepsFlows
<1>5. CASE ~HopLive(old)
  <2>1. /\ routeTable' = [routeTable EXCEPT ![k] = [old EXCEPT !.action = act]]
        /\ UNCHANGED l3Flow
    BY <1>5 DEF SetRouteAction
  <2>2. l3Flow'[k] = NoFlow
    BY <1>5, <2>1 DEF Base, RouteInv, FlowsHaveRoutes, Installed
  <2>3. [old EXCEPT !.action = act] \in RouteType
    BY <1>1, RouteUpdate
  <2> QED
    BY <2>1, <2>2, <2>3, OneRouteKeepsFlows
<1> QED
  BY <1>4, <1>5

\* Another next hop is read, unless the route does not forward.
LEMMA SetRouteNextHopFlows ==
  ASSUME Base, FlowsExact, RouteApi, NEW k \in RouteKey, NEW type, NEW i,
         \/ type = "NH" /\ i \in NhId
         \/ type \in {"RIF", "STACK"} /\ i \in RifId,
         SetRouteNextHop(k, type, i)
  PROVE  FlowsExact'
<1> DEFINE old   == routeTable[k]
           named == [old EXCEPT !.nhType = type, !.nhIdx = i]
           nbr   == NbrOfNew(k, type, i)
           new   == [named EXCEPT !.nbr = nbr]
<1>1. old \in RouteType
  BY DEF Base, TypeOK
<1>2. \/ type = "NH" /\ nhTable[i].used
      \/ type = "RIF" /\ rifTable[i].valid
  BY DEF SetRouteNextHop, HopTrusted, RoutesReliable, Base
<1>3. named \in RouteType /\ nbr \in NbrRef \cup {InvalidId}
  BY <1>1, NbrOfNewType DEF RouteType, HopTypes, Base
<1>4. Write(k, new)
  BY <1>2 DEF SetRouteNextHop, NbrOfNew
<1>5. Installed(k) /\ old.action = "FORWARD" =>
        nbr = IF type = "NH" THEN nhTable[i].nbr ELSE ResolveAt(i, AddrOf[k[2]])
  BY <1>2 DEF NbrOfNew, FlowsExact, FlowFits
<1> HIDE DEF nbr
<1>6. new \in RouteType
  BY <1>3, RouteUpdate
<1>7. /\ new.nhType = type /\ new.nhIdx = i /\ new.nbr = nbr
      /\ new.action = old.action
  BY <1>1, <1>3 DEF RouteType
<1> HIDE DEF new
<1>8. Installed(k) /\ new.action = "FORWARD" =>
        new.nhType \in {"NH", "RIF"} /\ new.nbr = Target(k, new)
  BY <1>2, <1>5, <1>7 DEF Target
<1> QED
  BY <1>4, <1>6, <1>8, WriteKeepsFlows

\* A route that is removed takes its flow with it.
LEMMA RemoveRouteFlows ==
  ASSUME Base, FlowsExact, RouteApi, NEW k \in RouteKey, RemoveRoute(k)
  PROVE  FlowsExact'
<1>1. /\ routeTable' = [routeTable EXCEPT ![k] = NoRoute]
      /\ l3Flow' = [l3Flow EXCEPT ![k] = NoFlow]
  BY DEF RemoveRoute
<1>2. l3Flow'[k] = NoFlow /\ \A j \in RouteKey \ {k} : l3Flow'[j] = l3Flow[j]
  BY <1>1 DEF Base, TypeOK
<1> QED
  BY <1>1, <1>2, EmptyTypes, OneRouteKeepsFlows

\* FlowsExact is inductive relative to Base.
LEMMA FlowsExactStep ==
  ASSUME Base, FlowsExact, [Next]_vars PROVE FlowsExact'
<1>1. CASE RouteApi
  <2>1. PICK k \in RouteKey :
          \/ \E act \in Actions, hop \in Hops, toCpu \in BOOLEAN :
               CreateRoute(k, act, hop, toCpu)
          \/ RemoveRoute(k)
          \/ \E act \in Actions : SetRouteAction(k, act)
          \/ \E h \in NhId : SetRouteNextHop(k, "NH", h)
          \/ \E r \in RifId, type \in {"RIF", "STACK"} : SetRouteNextHop(k, type, r)
    BY <1>1 DEF RouteApi
  <2> QED
    BY <1>1, <2>1, CreateRouteFlows, RemoveRouteFlows, SetRouteActionFlows,
       SetRouteNextHopFlows
<1>2. CASE NeighborApi
  BY <1>2, NextHopResolvedStep, NeighborsKeepFlows DEF Base
<1> QED
  BY <1>1, <1>2, ObjectsKeepFlows DEF Next

\* What the calls and the switch are trusted with: groups and flows that
\* are made when asked for, a careful client, and subnets that are not the
\* address of a neighbor.
Trusted == GroupsReliable /\ RoutesReliable /\ PlainSubnets

\* FlowsExact holds with the facts it rests on.
LEMMA FlowsExactHolds == Spec => [](Trusted => Base /\ FlowsExact)
<1>1. Init => FlowsExact
  BY DEF Init, FlowsExact, Installed
<1>2. /\ TypeOK /\ NhLists /\ (GroupsReliable => NbrInv)
      /\ (GroupsReliable => NextHopResolved) /\ (RoutesReliable => RouteInv)
      => (Trusted => Base)
  BY DEF Trusted, Base
<1>3. (Trusted => Base) /\ (Trusted => FlowsExact) /\ [Next]_vars
      => (Trusted => FlowsExact)'
  <2>1. Trusted' = Trusted
    BY DEF Trusted, GroupsReliable, RoutesReliable, PlainSubnets
  <2> QED
    BY <2>1, FlowsExactStep
<1>4. (Trusted => Base) /\ (Trusted => FlowsExact) => (Trusted => Base /\ FlowsExact)
  OBVIOUS
<1>5. FlowsExact => (Trusted => FlowsExact)
  OBVIOUS
<1> QED
  BY <1>1, <1>2, <1>3, <1>4, <1>5, TypeCorrect, NextHopListsCorrect, NbrInvHolds,
     NextHopsResolveCorrectly, RouteInvHolds, PTL DEF Spec

\* Whatever is called in whatever order, the flow of a route that forwards
\* leads where the neighbors put its next hop now, through the next hop or
\* by the address itself, and that of any other keeps its packets.
THEOREM FlowsFollowNeighbors == Spec => [](Trusted => HardwareFollowsNeighbors)
<1>1. (Trusted => Base /\ FlowsExact) => (Trusted => HardwareFollowsNeighbors)
  BY FlowsFollow
<1> QED
  BY <1>1, FlowsExactHolds, PTL

-----------------------------------------------------------------------------
(* Where packets may end up.                                               *)

\* A flow that forwards leads to the neighbor an address has on the
\* interface its route names, or names the next hop of.
LEMMA FlowsLeadToNeighbors ==
  ASSUME Base, FlowsExact, NEW k \in RouteKey, l3Flow[k] >= 0
  PROVE  LET route == routeTable[k] IN
         \E s \in UsedRifs : \E a :
           /\ l3Flow[k] \in NbrMatches(s, a)
           /\ \/ route.nhType = "NH" /\ s = nhTable[route.nhIdx].rif
              \/ route.nhType = "RIF" /\ s = route.nhIdx
<1>1. Installed(k) /\ l3Flow[k] \notin Reserved
  BY DEF Installed, NoFlow, Reserved, TrapId, DropId
<1> PICK type, i, b : /\ type = routeTable[k].nhType /\ i = routeTable[k].nhIdx
                      /\ b = AddrOf[k[2]]
  OBVIOUS
<1>2. /\ type \in {"NH", "RIF"} /\ l3Flow[k] = Target(k, routeTable[k])
      /\ type = "NH" => i \in UsedNhs
      /\ type = "RIF" => i \in UsedRifs
  BY <1>1 DEF FlowsExact, FlowFits, Base, RouteInv, FlowsHaveRoutes, HopLive,
              TypeOK, RouteType, UsedRifs, UsedNhs
<1> PICK s, a : /\ s = (IF type = "NH" THEN nhTable[i].rif ELSE i)
                /\ a = (IF type = "NH" THEN nhTable[i].ip ELSE b)
  OBVIOUS
<1>3. s \in UsedRifs /\ l3Flow[k] = ResolveAt(s, a)
  BY <1>2 DEF Base, NhLists, NextHopResolved, Target
<1>4. ResolveAt(s, a) # MissId(s)
  BY <1>1, <1>3, MissIdType
<1>5. l3Flow[k] \in NbrMatches(s, a)
  BY <1>3, <1>4, Resolution DEF Base
<1> QED
  BY <1>2, <1>3, <1>5

\* The host flow of a neighbor is that of the address it has.
DirectInv ==
  \A x \in RifId \X Ip : directFlow[x] # NoFlow =>
    /\ x[1] \in UsedRifs /\ x[2] \notin Ip6
    /\ directFlow[x] = ResolveAt(x[1], x[2])

\* It is thus in use, on the list of the interface.
LEMMA DirectFound ==
  ASSUME TypeOK, NbrInv, DirectInv, NEW x \in RifId \X Ip, directFlow[x] # NoFlow
  PROVE  directFlow[x] \in NbrMatches(x[1], x[2]) \cap UsedNbrs
<1>1. directFlow[x] \in NbrId /\ x[1] \in UsedRifs
  BY DEF TypeOK, DirectInv
<1>2. directFlow[x] = ResolveAt(x[1], x[2])
  BY DEF DirectInv
<1> QED
  BY <1>1, <1>2, Resolution, MissIsNoNeighbor

\* Interfaces with neighbors resolve as they did, unless neighbors change.
LEMMA OthersKeepResolution ==
  ASSUME TypeOK, NEW r \in UsedRifs, rifTable[r].nbrs # {}, NEW b,
         VirtualRouterApi \/ RouterInterfaceApi \/ NextHopApi \/ RouteApi
           \/ UNCHANGED vars
  PROVE  r \in UsedRifs' /\ ResolveAt(r, b)' = ResolveAt(r, b)
<1>1. r \in RifId /\ rifTable[r].valid
  BY DEF UsedRifs
<1>2. CASE RouterInterfaceApi
  <2>1. nbrTable' = nbrTable
    BY <1>2 DEF RouterInterfaceApi, CreateRouterInterface, RemoveRouterInterface
  <2>2. rifTable'[r] = rifTable[r]
    <3>1. ASSUME NEW s \in RifId, NEW v \in VrId, NEW miss \in MissActions,
                 CreateRouterInterface(s, v, miss)
          PROVE  rifTable'[r] = rifTable[r]
      BY <1>1, <3>1 DEF CreateRouterInterface, IsFirstFree, UsedRifs, TypeOK
    <3>2. ASSUME NEW s \in RifId, RemoveRouterInterface(s)
          PROVE  rifTable'[r] = rifTable[r]
      BY <1>1, <3>2 DEF RemoveRouterInterface, TypeOK
    <3> QED
      BY <1>2, <3>1, <3>2 DEF RouterInterfaceApi
  <2>3. NbrMatches(r, b)' = NbrMatches(r, b)
    BY <2>1, <2>2 DEF NbrMatches
  <2> QED
    BY <1>1, <2>2, <2>3, SameResolution DEF UsedRifs
<1>3. CASE RouteApi
  <2>1. rifTable'[r].valid
    BY <1>1, <1>3, OthersKeepNbrs DEF NbrsKept
  <2> QED
    BY <1>1, <1>3, <2>1, RoutesKeepTargets DEF UsedRifs
<1>4. CASE VirtualRouterApi \/ NextHopApi \/ UNCHANGED vars
  <2>1. /\ rifTable'[r].valid /\ rifTable'[r].nbrs = rifTable[r].nbrs
        /\ \A n \in NbrId : /\ nbrTable'[n].used = nbrTable[n].used
                            /\ nbrTable'[n].ip = nbrTable[n].ip
    BY <1>1, <1>4, OthersKeepNbrs DEF NbrsKept
  <2>2. rifTable'[r].miss = rifTable[r].miss
    <3>1. CASE NextHopApi
      <4>1. \E q \in RifId : \E nhs :
              rifTable' = [rifTable EXCEPT ![q] = [rifTable[q] EXCEPT !.nhs = nhs]]
        BY <3>1 DEF NextHopApi, CreateNextHop, RemoveNextHop, TypeOK, NhType
      <4> QED
        BY <1>1, <4>1 DEF TypeOK, RifType
    <3> QED
      BY <1>4, <3>1 DEF VirtualRouterApi, CreateVirtualRouter, RemoveVirtualRouter, vars
  <2>3. NbrMatches(r, b)' = NbrMatches(r, b)
    <3>1. rifTable[r].nbrs \subseteq NbrId
      BY <1>1 DEF TypeOK, RifType
    <3> QED
      BY <2>1, <3>1 DEF NbrMatches
  <2> QED
    BY <1>1, <2>1, <2>2, <2>3, SameResolution DEF UsedRifs
<1> QED
  BY <1>2, <1>3, <1>4

\* DirectInv is inductive relative to NbrInv.
LEMMA DirectInvStep ==
  ASSUME TypeOK, NbrInv, DirectInv, GroupsReliable, [Next]_vars PROVE DirectInv'
<1> SUFFICES ASSUME NEW s \in RifId, NEW b \in Ip, directFlow'[<<s, b>>] # NoFlow
             PROVE  /\ s \in UsedRifs' /\ b \notin Ip6
                    /\ directFlow'[<<s, b>>] = ResolveAt(s, b)'
  BY DEF DirectInv
<1> DEFINE x == <<s, b>>
<1>1. ASSUME directFlow[x] # NoFlow
      PROVE  /\ s \in UsedRifs /\ b \notin Ip6
             /\ directFlow[x] = ResolveAt(s, b)
             /\ directFlow[x] \in NbrMatches(s, b) \cap UsedNbrs
  BY <1>1, DirectFound DEF DirectInv
<1>2. CASE VirtualRouterApi \/ RouterInterfaceApi \/ NextHopApi \/ RouteApi
             \/ UNCHANGED vars
  <2>1. directFlow' = directFlow
    <3>1. CASE RouteApi
      <4>1. PICK k \in RouteKey :
              \/ \E act, hop, toCpu : CreateRoute(k, act, hop, toCpu)
              \/ RemoveRoute(k)
              \/ \E act : SetRouteAction(k, act)
              \/ \E type, i : SetRouteNextHop(k, type, i)
        BY <3>1 DEF RouteApi
      <4> QED
        BY <4>1 DEF CreateRoute, RemoveRoute, SetRouteAction, SetRouteNextHop
    <3> QED
      BY <1>2, <3>1
         DEF VirtualRouterApi, CreateVirtualRouter, RemoveVirtualRouter,
             RouterInterfaceApi, CreateRouterInterface, RemoveRouterInterface,
             NextHopApi, CreateNextHop, RemoveNextHop, vars
  <2>2. rifTable[s].nbrs # {}
    BY <1>1, <2>1 DEF NbrMatches
  <2> QED
    BY <1>1, <1>2, <2>1, <2>2, OthersKeepResolution
<1>3. ASSUME NEW n \in NbrId, NEW r \in RifId, NEW a \in Ip, CreateNeighbor(n, r, a)
      PROVE  /\ s \in UsedRifs' /\ b \notin Ip6
             /\ directFlow'[x] = ResolveAt(s, b)'
  <2>1. /\ r \in UsedRifs /\ UsedRifs' = UsedRifs /\ NbrMatches(r, a) = {}
        /\ DirectAdded(n, r, a)
    BY <1>3, NeighborCreated DEF CreateNeighbor
  <2>2. /\ ResolveAt(r, a)' = n
        /\ \A q \in UsedRifs : \A c : ~(q = r /\ c = a) =>
             ResolveAt(q, c)' = ResolveAt(q, c)
    BY <1>3, CreatedResolution
  <2>3. CASE s = r /\ b = a
    <3>1. directFlow[x] = NoFlow
      BY <1>1, <2>1, <2>3
    <3>2. a \notin Ip6 /\ directFlow' = [directFlow EXCEPT ![<<r, a>>] = n]
      BY <2>1, <2>3, <3>1 DEF DirectAdded
    <3> QED
      BY <2>1, <2>2, <2>3, <3>2 DEF TypeOK
  <2>4. CASE ~(s = r /\ b = a)
    <3>1. directFlow'[x] = directFlow[x]
      BY <2>1, <2>4 DEF DirectAdded, TypeOK
    <3> QED
      BY <1>1, <2>1, <2>2, <2>4, <3>1
  <2> QED
    BY <2>3, <2>4
<1>4. ASSUME NEW r \in RifId, NEW a \in Ip, RemoveNeighbor(r, a)
      PROVE  /\ s \in UsedRifs' /\ b \notin Ip6
             /\ directFlow'[x] = ResolveAt(s, b)'
  <2>1. UsedRifs' = UsedRifs
    BY <1>4, NeighborRemoved
  <2>2. \A q \in UsedRifs : \A c : ~(q = r /\ c = a) =>
          ResolveAt(q, c)' = ResolveAt(q, c)
    BY <1>4, RemovedResolution
  <2>3. directFlow' = [directFlow EXCEPT
          ![<<r, a>>] = IF a \in Ip6 THEN @ ELSE NoFlow]
    BY <1>4 DEF RemoveNeighbor
  <2>4. ~(s = r /\ b = a)
    BY <1>1, <2>3 DEF TypeOK
  <2>5. directFlow'[x] = directFlow[x]
    BY <2>3, <2>4 DEF TypeOK
  <2> QED
    BY <1>1, <2>1, <2>2, <2>4, <2>5
<1>5. ASSUME RemoveAllNeighbors PROVE FALSE
  <2>1. directFlow' = [y \in RifId \X Ip |->
          IF y[2] \notin Ip6 /\ \E n \in UsedNbrs :
               /\ <<y[1], n>> \in {z \in UsedRifs \X UsedNbrs : z[2] \in rifTable[z[1]].nbrs}
               /\ nbrTable[n].ip = y[2]
          THEN NoFlow ELSE directFlow[y]]
    BY <1>5, AllNeighborsRemoved DEF RemoveReached
  <2>2. x \in RifId \X Ip /\ x[1] = s /\ x[2] = b
    OBVIOUS
  <2>3. directFlow[x] # NoFlow
    BY <2>1, <2>2
  <2> PICK n : n = directFlow[x]
    OBVIOUS
  <2>4. /\ s \in UsedRifs /\ b \notin Ip6 /\ n \in UsedNbrs
        /\ n \in rifTable[s].nbrs /\ nbrTable[n].ip = b
    BY <1>1, <2>3 DEF NbrMatches
  <2> QED
    BY <2>1, <2>2, <2>4
<1> QED
  BY <1>2, <1>3, <1>4, <1>5 DEF Next, NeighborApi

\* DirectInv holds whatever routes and clients do.
LEMMA DirectInvHolds == Spec => [](GroupsReliable => DirectInv)
<1>1. Init => (GroupsReliable => DirectInv)
  BY DEF Init, DirectInv
<1>2. TypeOK /\ (GroupsReliable => NbrInv) /\ (GroupsReliable => DirectInv)
      /\ [Next]_vars => (GroupsReliable => DirectInv)'
  <2>1. GroupsReliable' = GroupsReliable
    BY DEF GroupsReliable
  <2> QED
    BY <2>1, DirectInvStep
<1> QED
  BY <1>1, <1>2, TypeCorrect, NbrInvHolds, PTL DEF Spec

\* No packet is handed to a neighbor that has gone: the flow of a route
\* leads to a neighbor in use, whose group the switch has, and a host flow to
\* the neighbor that has this address on this interface.
THEOREM FlowsLeadToLiveNeighbors == Spec => [](Trusted => NoFlowToMissingNeighbor)
<1>1. (Trusted => Base /\ FlowsExact) /\ (GroupsReliable => DirectInv)
      => (Trusted => NoFlowToMissingNeighbor)
  <2> SUFFICES ASSUME Base, FlowsExact, DirectInv PROVE NoFlowToMissingNeighbor
    BY DEF Trusted
  <2>1. l3Group = UsedNbrs
    BY DEF Base, NbrInv, GroupPerNeighbor
  <2>2. ASSUME NEW k \in RouteKey, l3Flow[k] >= 0 PROVE l3Flow[k] \in UsedNbrs
    <3>1. \E s \in UsedRifs : \E a : l3Flow[k] \in NbrMatches(s, a)
      BY <2>2, FlowsLeadToNeighbors
    <3> QED
      BY <3>1, Resolution DEF Base
  <2>3. ASSUME NEW x \in RifId \X Ip, directFlow[x] # NoFlow
        PROVE  directFlow[x] \in NbrMatches(x[1], x[2]) \cap UsedNbrs
    BY <2>3, DirectFound DEF Base
  <2> QED
    BY <2>1, <2>2, <2>3 DEF NoFlowToMissingNeighbor
<1> QED
  BY <1>1, FlowsExactHolds, DirectInvHolds, PTL

\* The object a route names is on an interface of the route's own router.
Home(k, route) ==
  /\ route.nhType = "NH" => rifTable[nhTable[route.nhIdx].rif].vrf = k[1]
  /\ route.nhType = "RIF" => rifTable[route.nhIdx].vrf = k[1]

RoutesAtHome == \A k \in RouteKey : Installed(k) => Home(k, routeTable[k])

\* Retargeting makes no flow, and leaves what a route names alone unless the
\* route is lost.
LEMMA RetargetKeepsNames ==
  ASSUME TypeOK, NEW nhTo, NEW routeTo, NEW Lost, Retarget(nhTo, routeTo, Lost)
  PROVE  \A k \in RouteKey : Installed(k)' =>
           /\ Installed(k)
           /\ \/ routeTable'[k].nhType = "NONE"
              \/ /\ routeTable'[k].nhType = routeTable[k].nhType
                 /\ routeTable'[k].nhIdx = routeTable[k].nhIdx
<1> SUFFICES ASSUME NEW k \in RouteKey, Installed(k)'
             PROVE  /\ Installed(k)
                    /\ \/ routeTable'[k].nhType = "NONE"
                       \/ /\ routeTable'[k].nhType = routeTable[k].nhType
                          /\ routeTable'[k].nhIdx = routeTable[k].nhIdx
  OBVIOUS
<1> DEFINE New == [routeTable[k] EXCEPT !.nbr = routeTo[k]]
<1>1. \/ routeTable'[k] = routeTable[k] /\ l3Flow'[k] = l3Flow[k]
      \/ /\ routeTable'[k] = Modified(New, CookieFound(k), k \in Lost)
         /\ l3Flow'[k] = FlowModified(k, New, k \in Lost)
  BY DEF Retarget
<1>2. New.nhType = routeTable[k].nhType /\ New.nhIdx = routeTable[k].nhIdx
  <2>1. routeTable[k] \in RouteType
    BY DEF TypeOK
  <2> QED
    BY <2>1 DEF RouteType
<1> HIDE DEF New
<1> QED
  BY <1>1, <1>2 DEF Installed, Modified, FlowModified, CookieFound, NoRoute

\* Where no interface or next hop comes or goes, what is at home stays so.
LEMMA HomeKept ==
  ASSUME TypeOK, RifsKept, NhsKept, NEW k \in RouteKey, NEW route \in RouteType,
         Home(k, route), NEW next,
         \/ next.nhType = "NONE"
         \/ next.nhType = route.nhType /\ next.nhIdx = route.nhIdx
  PROVE  Home(k, next)'
<1> PICK i : i = route.nhIdx
  OBVIOUS
<1>1. route.nhType = "NH" =>
        /\ nhTable'[i].rif = nhTable[i].rif
        /\ rifTable'[nhTable[i].rif].vrf = rifTable[nhTable[i].rif].vrf
  BY DEF RifsKept, NhsKept, RouteType, TypeOK, NhType
<1>2. route.nhType = "RIF" => rifTable'[i].vrf = rifTable[i].vrf
  BY DEF RifsKept, RouteType
<1> QED
  BY <1>1, <1>2 DEF Home

\* Virtual routers, interfaces and next hops: what a route on a list names
\* is not among what changes, nor is the interface of its next hop.
LEMMA ObjectsKeepHomes ==
  ASSUME Base, RoutesAtHome,
         VirtualRouterApi \/ RouterInterfaceApi \/ NextHopApi \/ UNCHANGED vars
  PROVE  RoutesAtHome'
<1>0. UNCHANGED <<routeTable, l3Flow>>
  BY DEF VirtualRouterApi, CreateVirtualRouter, RemoveVirtualRouter,
         RouterInterfaceApi, CreateRouterInterface, RemoveRouterInterface,
         NextHopApi, CreateNextHop, RemoveNextHop, vars
<1>1. TypeOK /\ RouteInv /\ NhLists
  BY DEF Base
<1>2. \A h \in NhId : nhTable[h].used /\ nhTable[h].routes # {} =>
        nhTable'[h].rif = nhTable[h].rif
  <2>1. CASE VirtualRouterApi \/ RouterInterfaceApi \/ UNCHANGED vars
    BY <2>1 DEF VirtualRouterApi, CreateVirtualRouter, RemoveVirtualRouter,
         RouterInterfaceApi, CreateRouterInterface, RemoveRouterInterface, vars
  <2>2. ASSUME NEW h \in NhId, NEW r \in RifId, NEW a \in Ip, CreateNextHop(h, r, a)
        PROVE  \A g \in NhId : nhTable[g].used => nhTable'[g].rif = nhTable[g].rif
    BY <1>1, <2>2 DEF CreateNextHop, IsFirstFree, UsedNhs, TypeOK
  <2>3. ASSUME NEW h \in NhId, RemoveNextHop(h)
        PROVE  \A g \in NhId : nhTable[g].routes # {} => nhTable'[g].rif = nhTable[g].rif
    BY <1>1, <2>3 DEF RemoveNextHop, TypeOK
  <2> QED
    BY <2>1, <2>2, <2>3 DEF NextHopApi
<1>3. \A r \in RifId : rifTable[r].valid /\ (rifTable[r].routes # {} \/ rifTable[r].nhs # {}) =>
        rifTable'[r].vrf = rifTable[r].vrf
  <2>1. CASE VirtualRouterApi \/ UNCHANGED vars
    BY <2>1 DEF VirtualRouterApi, CreateVirtualRouter, RemoveVirtualRouter, vars
  <2>2. CASE NextHopApi
    <3>1. \E q \in RifId : \E nhs :
            rifTable' = [rifTable EXCEPT ![q] = [rifTable[q] EXCEPT !.nhs = nhs]]
      BY <1>1, <2>2 DEF NextHopApi, CreateNextHop, RemoveNextHop, TypeOK, NhType
    <3> QED
      BY <1>1, <3>1 DEF TypeOK, RifType
  <2>3. ASSUME NEW s \in RifId, NEW v \in VrId, NEW miss \in MissActions,
               CreateRouterInterface(s, v, miss)
        PROVE  \A r \in RifId : rifTable[r].valid => rifTable'[r].vrf = rifTable[r].vrf
    BY <1>1, <2>3 DEF CreateRouterInterface, IsFirstFree, UsedRifs, TypeOK
  <2>4. ASSUME NEW s \in RifId, RemoveRouterInterface(s)
        PROVE  \A r \in RifId : rifTable[r].routes # {} \/ rifTable[r].nhs # {} =>
                 rifTable'[r].vrf = rifTable[r].vrf
    BY <1>1, <2>4 DEF RemoveRouterInterface, TypeOK
  <2> QED
    BY <2>1, <2>2, <2>3, <2>4 DEF RouterInterfaceApi
<1> SUFFICES ASSUME NEW k \in RouteKey, Installed(k), Home(k, routeTable[k])
             PROVE  Home(k, routeTable[k])'
  BY <1>0 DEF RoutesAtHome, Installed
<1> PICK type, i : type = routeTable[k].nhType /\ i = routeTable[k].nhIdx
  OBVIOUS
<1>4. /\ Names(k, type, i)
      /\ type = "NH" => i \in NhId /\ nhTable[i].used
      /\ type = "RIF" => i \in RifId /\ rifTable[i].valid
  BY <1>1 DEF Names, RouteInv, FlowsHaveRoutes, HopLive, TypeOK, RouteType
<1>5. type = "NH" => nhTable'[i].rif = nhTable[i].rif
                     /\ rifTable'[nhTable[i].rif].vrf = rifTable[nhTable[i].rif].vrf
  <2> SUFFICES ASSUME type = "NH"
               PROVE  /\ nhTable'[i].rif = nhTable[i].rif
                      /\ rifTable'[nhTable[i].rif].vrf = rifTable[nhTable[i].rif].vrf
    OBVIOUS
  <2>1. nhTable[i].routes # {}
    BY <1>1, <1>4 DEF RouteInv, ListsExact
  <2>2. /\ nhTable[i].rif \in RifId /\ rifTable[nhTable[i].rif].valid
        /\ i \in rifTable[nhTable[i].rif].nhs
    BY <1>1, <1>4 DEF NhLists, UsedNhs, UsedRifs
  <2> QED
    BY <1>2, <1>3, <1>4, <2>1, <2>2
<1>6. type = "RIF" => rifTable'[i].vrf = rifTable[i].vrf
  BY <1>1, <1>3, <1>4 DEF RouteInv, ListsExact
<1> QED
  BY <1>0, <1>5, <1>6 DEF Home

\* Nothing the neighbor API does moves a route to another object.
LEMMA NeighborsKeepHomes ==
  ASSUME Base, RoutesAtHome, NeighborApi PROVE RoutesAtHome'
<1>1. \E nhTo, routeTo, Lost : Retarget(nhTo, routeTo, Lost)
  <2>1. CASE RemoveAllNeighbors
    <3>1. \E Reached, Dropped, Missed : RemoveReached(Reached, Dropped, Missed)
      BY <2>1, Zenon DEF RemoveAllNeighbors
    <3>2. PICK Reached, Dropped, Missed : RemoveReached(Reached, Dropped, Missed)
      BY <3>1, Zenon
    <3> QED
      BY <3>2, Zenon DEF RemoveReached
  <2>2. ASSUME NEW n \in NbrId, NEW r \in RifId, NEW a \in Ip, CreateNeighbor(n, r, a)
        PROVE  \E nhTo, routeTo, Lost : Retarget(nhTo, routeTo, Lost)
    BY <2>2 DEF CreateNeighbor, UpdateNbrId
  <2>3. ASSUME NEW r \in RifId, NEW a \in Ip, RemoveNeighbor(r, a)
        PROVE  \E nhTo, routeTo, Lost : Retarget(nhTo, routeTo, Lost)
    BY <2>3 DEF RemoveNeighbor, UpdateNbrId
  <2> QED
    BY <2>1, <2>2, <2>3 DEF NeighborApi
<1> SUFFICES ASSUME NEW k \in RouteKey, Installed(k)' PROVE Home(k, routeTable[k])'
  BY DEF RoutesAtHome
<1> PICK next : next = routeTable'[k]
  OBVIOUS
<1>2. /\ Installed(k) /\ routeTable[k] \in RouteType
      /\ \/ next.nhType = "NONE"
         \/ next.nhType = routeTable[k].nhType /\ next.nhIdx = routeTable[k].nhIdx
  BY <1>1, RetargetKeepsNames DEF Base, TypeOK
<1>3. Home(k, next)'
  <2> PICK route : route = routeTable[k]
    OBVIOUS
  <2> QED
    BY <1>2, NeighborKeeps, HomeKept DEF RoutesAtHome, Base
<1> QED
  BY <1>3 DEF Home

\* A call that changes one route, when that route is at home after it.
LEMMA OneRouteKeepsHomes ==
  ASSUME Base, RoutesAtHome, RouteApi, NEW k \in RouteKey, NEW route \in RouteType,
         routeTable' = [routeTable EXCEPT ![k] = route],
         \A j \in RouteKey \ {k} : l3Flow'[j] = l3Flow[j],
         l3Flow'[k] # NoFlow => Home(k, route)
  PROVE  RoutesAtHome'
<1> SUFFICES ASSUME NEW j \in RouteKey, Installed(j)' PROVE Home(j, routeTable[j])'
  BY DEF RoutesAtHome
<1> PICK next : next = routeTable'[j]
  OBVIOUS
<1>1. next \in RouteType /\ Home(j, next)
  <2>1. CASE j = k
    BY <2>1 DEF Installed, Base, TypeOK
  <2>2. CASE j # k
    BY <2>2 DEF RoutesAtHome, Installed, Base, TypeOK
  <2> QED
    BY <2>1, <2>2
<1>2. Home(j, next)'
  BY <1>1, RouteKeeps, HomeKept DEF Base
<1> QED
  BY <1>2 DEF Home

\* So does a write of a route at home.
LEMMA WriteKeepsHomes ==
  ASSUME Base, RoutesAtHome, RouteApi, NEW k \in RouteKey, NEW route \in RouteType,
         Write(k, route), Installed(k) => Home(k, route)
  PROVE  RoutesAtHome'
<1>1. l3Flow \in [RouteKey -> FlowType] /\ TypeOK /\ RoutesReliable
  BY DEF Base, TypeOK
<1>2. CASE /\ Installed(k)
           /\ routeTable' = [routeTable EXCEPT ![k] = route]
           /\ l3Flow' = [l3Flow EXCEPT ![k] = FlowOf(route.action, route.nbr)]
  BY <1>1, <1>2, OneRouteKeepsHomes
<1>3. CASE /\ routeTable' = [routeTable EXCEPT ![k] = NoRoute]
           /\ l3Flow' = [l3Flow EXCEPT ![k] = NoFlow]
  BY <1>1, <1>3, EmptyTypes, OneRouteKeepsHomes
<1> QED
  BY <1>1, <1>2, <1>3, WriteExact

\* Creation compares the routers; only the client does when a next hop is set.
LEMMA RoutesKeepHomes ==
  ASSUME Base, RoutesAtHome, RouteApi PROVE RoutesAtHome'
<1>1. ASSUME NEW k \in RouteKey, NEW act \in Actions, NEW hop \in Hops,
             NEW toCpu \in BOOLEAN, CreateRoute(k, act, hop, toCpu)
      PROVE  RoutesAtHome'
  <2> PICK route : route = NewRoute(act, hop, toCpu)
    OBVIOUS
  <2>1. /\ route \in RouteType /\ route.nhType = hop.nhType
        /\ route.nhIdx = hop.nhIdx /\ route.nhType # "RIF"
    <3>1. route \in RouteType
      BY <1>1, NewRouteType DEF CreateRoute, Base
    <3> QED
      BY <3>1 DEF NewRoute, Hops
  <2>2. Home(k, route)
    BY <1>1, <2>1 DEF CreateRoute, HopAccepted, Home
  <2>3. /\ routeTable' = [routeTable EXCEPT ![k] = route]
        /\ \A j \in RouteKey \ {k} : l3Flow'[j] = l3Flow[j]
    BY <1>1 DEF CreateRoute, Base, TypeOK
  <2> QED
    BY <2>1, <2>2, <2>3, OneRouteKeepsHomes
<1>2. ASSUME NEW k \in RouteKey, RemoveRoute(k) PROVE RoutesAtHome'
  <2>1. /\ routeTable' = [routeTable EXCEPT ![k] = NoRoute]
        /\ \A j \in RouteKey : l3Flow'[j] = IF j = k THEN NoFlow ELSE l3Flow[j]
    BY <1>2 DEF RemoveRoute, Base, TypeOK
  <2> QED
    BY <2>1, EmptyTypes, OneRouteKeepsHomes
<1>3. ASSUME NEW k \in RouteKey, NEW act \in Actions, SetRouteAction(k, act)
      PROVE  RoutesAtHome'
  <2> DEFINE old == routeTable[k]
             new == [old EXCEPT !.action = act, !.nbr = Resolved(k, old)]
  <2>1. old \in RouteType /\ new \in RouteType
    BY ResolvedType, RouteUpdate DEF Base, TypeOK
  <2>2. new.nhType = old.nhType /\ new.nhIdx = old.nhIdx
    BY <2>1 DEF RouteType
  <2>3. CASE HopLive(old)
    <3>1. Write(k, new)
      BY <1>3, <2>3 DEF SetRouteAction
    <3>2. Installed(k) => Home(k, new)
      BY <2>2 DEF RoutesAtHome, Home
    <3> HIDE DEF new
    <3> QED
      BY <2>1, <3>1, <3>2, WriteKeepsHomes
  <2>4. CASE ~HopLive(old)
    <3>1. /\ routeTable' = [routeTable EXCEPT ![k] = [old EXCEPT !.action = act]]
          /\ UNCHANGED l3Flow
      BY <1>3, <2>4 DEF SetRouteAction
    <3>2. l3Flow'[k] = NoFlow
      BY <2>4, <3>1 DEF Base, RouteInv, FlowsHaveRoutes, Installed
    <3>3. [old EXCEPT !.action = act] \in RouteType
      BY <2>1, RouteUpdate
    <3> QED
      BY <3>1, <3>2, <3>3, OneRouteKeepsHomes
  <2> QED
    BY <2>3, <2>4
<1>4. ASSUME NEW k \in RouteKey, NEW type, NEW i,
             \/ type = "NH" /\ i \in NhId
             \/ type \in {"RIF", "STACK"} /\ i \in RifId,
             SetRouteNextHop(k, type, i)
      PROVE  RoutesAtHome'
  <2> DEFINE old   == routeTable[k]
             named == [old EXCEPT !.nhType = type, !.nhIdx = i]
             nbr   == NbrOfNew(k, type, i)
             new   == [named EXCEPT !.nbr = nbr]
  <2>1. old \in RouteType
    BY DEF Base, TypeOK
  <2>2. \/ type = "NH" /\ rifTable[nhTable[i].rif].vrf = k[1]
        \/ type = "RIF" /\ rifTable[i].vrf = k[1] /\ rifTable[i].valid
    BY <1>4 DEF SetRouteNextHop, HopTrusted, RoutesReliable, Base
  <2>3. named \in RouteType /\ nbr \in NbrRef \cup {InvalidId}
    BY <1>4, <2>1, NbrOfNewType DEF RouteType, HopTypes, Base
  <2>4. Write(k, new)
    BY <1>4, <2>2 DEF SetRouteNextHop, NbrOfNew
  <2> HIDE DEF nbr
  <2>5. new \in RouteType
    BY <2>3, RouteUpdate
  <2>6. new.nhType = type /\ new.nhIdx = i
    BY <2>1, <2>3 DEF RouteType
  <2> HIDE DEF new
  <2>7. Home(k, new)
    BY <2>2, <2>6 DEF Home
  <2> QED
    BY <2>4, <2>5, <2>7, WriteKeepsHomes
<1> QED
  BY <1>1, <1>2, <1>3, <1>4 DEF RouteApi

\* RoutesAtHome is inductive relative to Base.
LEMMA RoutesAtHomeHolds == Spec => [](Trusted => RoutesAtHome)
<1>1. Init => (Trusted => RoutesAtHome)
  BY DEF Init, RoutesAtHome, Installed
<1>2. (Trusted => Base /\ FlowsExact) /\ (Trusted => RoutesAtHome) /\ [Next]_vars
      => (Trusted => RoutesAtHome)'
  <2>1. Trusted' = Trusted
    BY DEF Trusted, GroupsReliable, RoutesReliable, PlainSubnets
  <2> QED
    BY <2>1, ObjectsKeepHomes, NeighborsKeepHomes, RoutesKeepHomes DEF Next
<1> QED
  BY <1>1, <1>2, FlowsExactHolds, PTL DEF Spec

\* Packets of a virtual router leave through its own interfaces: a flow that
\* forwards is that of a router in use, although its routes outlive a router,
\* and leads to a neighbor on one of that router's interfaces.
THEOREM RoutersStayIsolated == Spec => [](Trusted => RoutersIsolated)
<1>1. (Trusted => Base /\ FlowsExact) /\ (Trusted => RoutesAtHome) /\ RefCounts
      => (Trusted => RoutersIsolated)
  <2> SUFFICES ASSUME Base, FlowsExact, RoutesAtHome, RefCounts,
                      NEW k \in RouteKey, l3Flow[k] >= 0
               PROVE  /\ k[1] \in UsedVrs
                      /\ \E r \in UsedRifs : /\ rifTable[r].vrf = k[1]
                                             /\ l3Flow[k] \in rifTable[r].nbrs
    BY DEF RoutersIsolated
  <2>1. PICK s \in UsedRifs :
          /\ \E a : l3Flow[k] \in NbrMatches(s, a)
          /\ \/ routeTable[k].nhType = "NH" /\ s = nhTable[routeTable[k].nhIdx].rif
             \/ routeTable[k].nhType = "RIF" /\ s = routeTable[k].nhIdx
    BY FlowsLeadToNeighbors
  <2>2. l3Flow[k] \in rifTable[s].nbrs
    BY <2>1 DEF NbrMatches
  <2>3. Home(k, routeTable[k])
    BY DEF RoutesAtHome, Installed, NoFlow
  <2>4. rifTable[s].vrf = k[1]
    BY <2>1, <2>3 DEF Home
  <2> QED
    BY <2>2, <2>4 DEF RefCounts
<1> QED
  BY <1>1, FlowsExactHolds, RoutesAtHomeHolds, RefCountsExact, PTL

=============================================================================
