------------------------------- MODULE Route --------------------------------
(* Routes (mrvl_sai_route.c): entries of the route hash and their flows.   *)
(* A route names a next hop, or an interface through SetAttribute; the     *)
(* list of that object holds the route so that it hears of neighbors.      *)
EXTENDS L3Tables

\* Mutant: the route is not taken off its old list.
RelistForgetsOld(k, out, in) ==
  LET Names(type, idx) == in.nhType = type /\ in.nhIdx = idx
      After(set, type, idx) == set \cup (IF Names(type, idx) THEN {k} ELSE {})
  IN
  /\ NoFreedRoutes
  /\ nhTable' = [h \in NhId |->
       [nhTable[h] EXCEPT !.routes = After(@, "NH", h)]]
  /\ rifTable' = [r \in RifId |->
       [rifTable[r] EXCEPT !.routes = After(@, "RIF", r)]]

\* k leaves the list of the object out names and joins that of the object
\* in names.  An object not in use keeps its (empty) list.
Relist(k, out, in) ==
  LET Names(route, type, idx) == route.nhType = type /\ route.nhIdx = idx
      After(set, type, idx) ==
        (IF Names(out, type, idx) THEN set \ {k} ELSE set)
          \cup (IF Names(in, type, idx) THEN {k} ELSE {})
  IN
  /\ NoFreedRoutes
  /\ nhTable' = [h \in NhId |->
       IF nhTable[h].used
       THEN [nhTable[h] EXCEPT !.routes = After(@, "NH", h)] ELSE nhTable[h]]
  /\ rifTable' = [r \in RifId |->
       IF rifTable[r].valid
       THEN [rifTable[r] EXCEPT !.routes = After(@, "RIF", r)] ELSE rifTable[r]]

-----------------------------------------------------------------------------
(* A new route names a next hop or nothing; naming the CPU port or an      *)
(* interface instead (toCpu) turns forwarding into trapping.               *)

Hops == [nhType : {"NH"}, nhIdx : NhId]
          \cup [nhType : {"NONE"}, nhIdx : {0}]

\* Mutant: the virtual router of the next hop's interface is not compared.
HopAcceptedAnyRouter(k, hop) ==
  hop.nhType = "NH" => nhTable[hop.nhIdx].used

\* A next hop must exist, on an interface of the route's virtual router.
HopAccepted(k, hop) ==
  hop.nhType = "NH" =>
    LET nh == nhTable[hop.nhIdx] IN
    nh.used /\ rifTable[nh.rif].valid /\ rifTable[nh.rif].vrf = k[1]

NewRoute(act, hop, toCpu) ==
  LET action == IF act = "FORWARD" /\ toCpu THEN "TRAP" ELSE act IN
  [valid |-> TRUE, action |-> action,
   nbr |-> CASE action = "TRAP" -> TrapId
             [] action = "DROP" -> DropId
             [] OTHER -> nhTable[hop.nhIdx].nbr,
   nhType |-> hop.nhType, nhIdx |-> hop.nhIdx]

\* When the switch already has the flow, the entry stays in the hash
\* without a flow and on no list.
CreateRoute(k, act, hop, toCpu) ==
  LET route == NewRoute(act, hop, toCpu) IN
  /\ vrTable[k[1]].valid
  /\ ~routeTable[k].valid
  /\ Cardinality(Routes) < MaxRoutes
  /\ HopAccepted(k, hop)
  /\ toCpu => hop.nhType = "NONE"
  /\ act = "FORWARD" => hop.nhType = "NH" \/ toCpu
  /\ routeTable' = [routeTable EXCEPT ![k] = route]
  /\ IF Installed(k) \/ DirectInWay(k)
     THEN UNCHANGED <<l3Flow, nhTable, rifTable>>
     ELSE /\ l3Flow' = [l3Flow EXCEPT ![k] = FlowOf(route.action, route.nbr)]
          /\ Relist(k, NoRoute, route)
  /\ UNCHANGED <<vrTable, nbrTable, directFlow, l3Group>>

\* A route whose flow the IPv4 table does not have cannot be removed.
RemoveRoute(k) ==
  /\ routeTable[k].valid /\ vrTable[k[1]].valid
  /\ CookieFound(k)
  /\ l3Flow' = [l3Flow EXCEPT ![k] = NoFlow]
  /\ Relist(k, routeTable[k], NoRoute)
  /\ routeTable' = [routeTable EXCEPT ![k] = NoRoute]
  /\ UNCHANGED <<vrTable, nbrTable, directFlow, l3Group>>

-----------------------------------------------------------------------------
\* Write route to the hash and to the switch.  Forwarding without a next
\* hop is refused after the old flow has been deleted.
Write(k, route) ==
  \E Lost \in MayLose({k}) :
    LET fails == k \in Lost
                   \/ (route.action = "FORWARD" /\ route.nhType = "NONE")
    IN
    /\ routeTable' =
         [routeTable EXCEPT ![k] = Modified(route, CookieFound(k), fails)]
    /\ l3Flow' = [l3Flow EXCEPT ![k] = FlowModified(k, route, fails)]

\* The object a route names is in use.
HopLive(route) ==
  /\ route.nhType = "NH" => nhTable[route.nhIdx].used
  /\ route.nhType = "RIF" => rifTable[route.nhIdx].valid

\* The neighbor a route uses, read again from the object it names.
Resolved(k, route) ==
  CASE route.nhType = "NH"  -> nhTable[route.nhIdx].nbr
    [] route.nhType = "RIF" -> ResolveAt(route.nhIdx, AddrOf[k[2]])
    [] OTHER                -> route.nbr

\* The route is taken off its list and put back only if its neighbor
\* changed; when its object is not in use the call fails half way.
SetRouteAction(k, act) ==
  LET old == routeTable[k]
      new == [old EXCEPT !.action = act, !.nbr = Resolved(k, old)]
  IN
  /\ old.valid /\ vrTable[k[1]].valid
  /\ act # old.action
  /\ IF HopLive(old)
     THEN /\ Write(k, new)
          /\ IF new.nbr # old.nbr THEN Relist(k, old, routeTable'[k])
             ELSE UNCHANGED <<nhTable, rifTable>>
     ELSE /\ routeTable' = [routeTable EXCEPT ![k].action = act]
          /\ UNCHANGED <<l3Flow, nhTable, rifTable>>
  /\ UNCHANGED <<vrTable, nbrTable, directFlow, l3Group>>

\* What a careful client names: an object in use, of the same router.
HopTrusted(k, type, i) ==
  \/ type = "NH" /\ nhTable[i].used /\ rifTable[nhTable[i].rif].vrf = k[1]
  \/ type = "RIF" /\ rifTable[i].valid /\ rifTable[i].vrf = k[1]

\* The neighbor is read from the new object only if the route had a next
\* hop before.  Then an unused next hop leaves it alone, and an unused
\* interface ends the call, the route being off its old list already.
SetRouteNextHop(k, type, i) ==
  LET old   == routeTable[k]
      named == [old EXCEPT !.nhType = type, !.nhIdx = i]
      had   == old.nhType # "NONE"
      nbr   == IF ~had \/ (type = "NH" /\ ~nhTable[i].used) THEN old.nbr
               ELSE IF type = "NH" THEN nhTable[i].nbr
               ELSE ResolveAt(i, AddrOf[k[2]])
  IN
  /\ old.valid /\ vrTable[k[1]].valid
  /\ ClientChecksOids => HopTrusted(k, type, i)
  /\ old # named
  /\ IF had /\ type # "NH" /\ ~rifTable[i].valid
     THEN /\ routeTable' = [routeTable EXCEPT ![k].nbr = InvalidId]
          /\ Relist(k, old, NoRoute)
          /\ UNCHANGED l3Flow
     ELSE /\ Write(k, [named EXCEPT !.nbr = nbr])
          /\ Relist(k, old, routeTable'[k])
  /\ UNCHANGED <<vrTable, nbrTable, directFlow, l3Group>>

=============================================================================
