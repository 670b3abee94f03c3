------------------------------ MODULE L3Tables ------------------------------
(***************************************************************************)
(* The tables the layer-3 half of the SAI adapter shares: the virtual      *)
(* router, router interface, neighbor and next hop arrays and the route    *)
(* hash, the lists that link them, and the part of the switch (reached     *)
(* through the fpaLib calls) that they are meant to mirror: the L3_UNICAST *)
(* flow tables and the L3 unicast groups.                                  *)
(*                                                                         *)
(* Every SAI function runs to completion in the caller's thread, so one    *)
(* call is one step.  A call that fails before it changes anything is a    *)
(* stuttering step and has no action here; a call that fails half way is   *)
(* one, whatever it left behind.                                           *)
(*                                                                         *)
(* The intrusive lists (first_nbr_idx/next_nbr_id, first_nh_idx/           *)
(* next_nh_id, route_list_elem) are sets: their order is never observable, *)
(* as an address occurs at most once per router interface.                 *)
(***************************************************************************)
EXTENDS Integers, FiniteSets

CONSTANTS
  NumVr,        \* SAI_SWITCH_MAX_VR_CNS
  NumRif,       \* SAI_ROUTER_INTERFACE_TABLE_SIZE_CNS
  NumNbr,       \* SAI_NEIGHBOR_TABLE_SIZE_CNS
  NumNh,        \* SAI_NEXTHOP_TABLE_SIZE_CNS
  MaxRoutes,    \* capacity of the route hash
  Ip, Ip6,      \* addresses of neighbors and next hops; those of family IPv6
  NoIp,         \* the inet_address of a slot cleared by memset
  Prefix,       \* destinations of routes
  Prefix6,      \* those of family IPv6
  HostPrefix,   \* those whose mask has all its bits set
  AddrOf,       \* [Prefix -> addresses]: the address part of a destination
  MissActions,  \* neighbor miss actions interfaces are created with
  Faults,       \* which fpaLib calls may fail half way through a SAI call
  StackNh,      \* what an uninitialised nh_idx on the stack may hold
  ClientChecksOids  \* the client names only live objects, and of one router

ASSUME TableSizes ==
  /\ NumVr \in Nat \ {0} /\ NumRif \in Nat \ {0}
  /\ NumNbr \in Nat \ {0} /\ NumNh \in Nat \ {0}
  /\ MaxRoutes \in Nat

ASSUME AddressSpace ==
  /\ Ip6 \subseteq Ip /\ NoIp \notin Ip
  /\ Prefix6 \subseteq Prefix /\ HostPrefix \subseteq Prefix

ASSUME Environment ==
  /\ MissActions \subseteq {"FORWARD", "TRAP", "DROP"}
  /\ Faults \subseteq {"groupSkip", "groupDelete", "reAdd"}
  /\ StackNh \subseteq Int /\ StackNh # {}
  /\ ClientChecksOids \in BOOLEAN

VARIABLES
  vrTable, rifTable, nbrTable, nhTable, routeTable,
  l3Flow,       \* L3_UNICAST flows added for routes, by the key they match
  directFlow,   \* /32 flows added for a neighbor, by router interface and ip
  l3Group       \* indices of the L3 unicast groups that exist

vars == <<vrTable, rifTable, nbrTable, nhTable, routeTable,
          l3Flow, directFlow, l3Group>>

VrId  == 0 .. NumVr - 1
RifId == 0 .. NumRif - 1
NbrId == 0 .. NumNbr - 1
NhId  == 0 .. NumNh - 1
RouteKey == VrId \X Prefix

-----------------------------------------------------------------------------
(* Identifiers.  The reserved neighbor ids stand for "no neighbor: apply   *)
(* the interface's miss action".                                           *)

InvalidId == -1
TrapId    == -2
DropId    == -3
Reserved  == {TrapId, DropId}
NoFlow    == -4      \* the switch has no such flow

Actions == {"FORWARD", "TRAP", "DROP"}

\* nh_valid, nh_type and nh_idx of a route.  STACK is a type left
\* uninitialised by a SetAttribute with an object of another kind.
HopTypes == {"NONE", "NH", "RIF", "STACK"}

NoVr  == [valid |-> FALSE, refs |-> 0]
NoRif == [valid |-> FALSE, vrf |-> 0, miss |-> "FORWARD",
          nbrs |-> {}, nhs |-> {}, routes |-> {}]
NoNbr == [used |-> FALSE, ip |-> NoIp, nh |-> 0]
NoNh  == [used |-> FALSE, rif |-> 0, ip |-> NoIp, nbr |-> 0, routes |-> {}]
NoRoute == [valid |-> FALSE, action |-> "DROP", nbr |-> DropId,
            nhType |-> "NONE", nhIdx |-> 0]

\* Mutant: the scan stops one slot early, on a slot in use.
IsFirstFreeOffByOne(i, Used) == \A j \in 0 .. i - 1 : j \in Used

\* Every table is scanned from slot 0 for the first that is not in use.
IsFirstFree(i, Used) == i \notin Used /\ \A j \in 0 .. i - 1 : j \in Used

UsedVrs  == {v \in VrId : vrTable[v].valid}
UsedRifs == {r \in RifId : rifTable[r].valid}
UsedNbrs == {n \in NbrId : nbrTable[n].used}
UsedNhs  == {h \in NhId : nhTable[h].used}
Routes   == {k \in RouteKey : routeTable[k].valid}

-----------------------------------------------------------------------------
(* Resolution: which neighbor a next hop or a route uses.                  *)

MissId(r) == IF rifTable[r].miss = "TRAP" THEN TrapId ELSE DropId

NbrMatches(r, a) ==
  {n \in rifTable[r].nbrs : nbrTable[n].used /\ nbrTable[n].ip = a}

NhMatches(r, a) ==
  {h \in rifTable[r].nhs : nhTable[h].used /\ nhTable[h].ip = a}

\* The address alone is compared: the mask of a destination is ignored.
ResolveAt(r, a) ==
  IF NbrMatches(r, a) = {} THEN MissId(r)
  ELSE CHOOSE n \in NbrMatches(r, a) : TRUE

-----------------------------------------------------------------------------
(* Flows of routes.  A flow sends packets to the controller, drops them,   *)
(* or hands them to the group of a neighbor (none, when the id is the      *)
(* invalid one).                                                           *)

FlowOf(action, nbr) ==
  IF nbr = TrapId \/ action = "TRAP" THEN TrapId
  ELSE IF nbr = DropId \/ action = "DROP" THEN DropId
  ELSE nbr

Installed(k) == l3Flow[k] # NoFlow

\* The switch refuses a second flow with the same match: a host route meets
\* the /32 flow of a neighbor on an interface of its virtual router.
DirectInWay(k) ==
  /\ k[2] \in HostPrefix
  /\ \E r \in UsedRifs, a \in Ip : /\ rifTable[r].vrf = k[1]
                                   /\ a = AddrOf[k[2]]
                                   /\ directFlow[<<r, a>>] # NoFlow

RouteInWay(r, a, flows) ==
  \E p \in HostPrefix : /\ AddrOf[p] = a
                        /\ flows[<<rifTable[r].vrf, p>>] # NoFlow

\* Flows of routes are always deleted from the IPv4 table, by cookie.
CookieFound(k) == k[2] \notin Prefix6 /\ Installed(k)

\* Mutant: the test of the status is the wrong way round.
ModifiedInverted(route, found, lost) ==
  IF found /\ ~lost THEN NoRoute ELSE route

\* mrvl_sai_modify_route_prv deletes the flow and adds it again; when
\* either fails its callers drop the route from the hash, and only there.
\* lost says that the second half failed.
Modified(route, found, lost) ==
  IF found /\ ~lost THEN route ELSE NoRoute

FlowModified(k, route, lost) ==
  IF ~CookieFound(k) THEN l3Flow[k]
  ELSE IF lost THEN NoFlow
  ELSE FlowOf(route.action, route.nbr)

\* Mutant: the routes on the interface's own list are forgotten.
DependentRoutesOfNextHops(r, a) ==
  UNION {nhTable[h].routes : h \in NhMatches(r, a)}

\* Routes told when the neighbor with address a comes or goes on r: those
\* of the matching next hop, and host routes that name r itself.
DependentRoutes(r, a) ==
  {k \in rifTable[r].routes : k[2] \in HostPrefix /\ AddrOf[k[2]] = a}
    \cup UNION {nhTable[h].routes : h \in NhMatches(r, a)}

\* No list holds the memory of a route deleted from the hash.  A call that
\* would follow or change the lists after that reads freed memory, and is
\* where a behaviour ends.
NoFreedRoutes ==
  /\ \A h \in NhId : nhTable[h].routes \subseteq Routes
  /\ \A r \in RifId : rifTable[r].routes \subseteq Routes

\* Point the next hops in DOMAIN nhTo and the routes in DOMAIN routeTo at
\* another neighbor; the flows of the routes in Lost cannot be added back.
Retarget(nhTo, routeTo, Lost) ==
  /\ NoFreedRoutes
  /\ nhTable' = [h \in NhId |-> IF h \in DOMAIN nhTo
                                THEN [nhTable[h] EXCEPT !.nbr = nhTo[h]]
                                ELSE nhTable[h]]
  /\ LET New(k) == [routeTable[k] EXCEPT !.nbr = routeTo[k]] IN
     /\ routeTable' = [k \in RouteKey |->
                         IF k \in DOMAIN routeTo
                         THEN Modified(New(k), CookieFound(k), k \in Lost)
                         ELSE routeTable[k]]
     /\ l3Flow' = [k \in RouteKey |->
                     IF k \in DOMAIN routeTo
                     THEN FlowModified(k, New(k), k \in Lost)
                     ELSE l3Flow[k]]

\* The sets of routes whose flow may fail to be added back.
MayLose(K) == IF "reAdd" \in Faults THEN SUBSET K ELSE {{}}

=============================================================================
