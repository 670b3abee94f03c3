------------------------------ MODULE RifFlows ------------------------------
(***************************************************************************)
(* What a router interface puts in the switch (mrvl_sai_router_intf.c):    *)
(* termination flows for IPv4 and IPv6, the flow that assigns the virtual  *)
(* router, the one that traps ARP requests, an FDB entry that traps what   *)
(* is sent to the interface's own address, and the L2 interface group of   *)
(* its port; and the MTU profiles that interfaces share.                   *)
(***************************************************************************)
EXTENDS L2Tables

CONSTANTS
  NumRif,        \* SAI_ROUTER_INTERFACE_TABLE_SIZE_CNS
  NumMtu,        \* SAI_RIF_MTU_PROFILES_CNS
  RifPort,       \* ports with interfaces
  VrId, Mtu      \* virtual routers; MTU sizes asked for, 0 among them

ASSUME RifSizes ==
  /\ NumRif \in Nat \ {0} /\ NumMtu \in Nat \ {0}
  /\ RifPort \subseteq Port /\ Mtu \subseteq Nat /\ VrId \subseteq Nat

VARIABLES
  rif,          \* mrvl_sai_rif_table, as far as the flows depend on it
  mtu,          \* mrvl_sai_rif_mtu_table
  termination,  \* TERMINATION flows: cookie, and whether they match where
                \* the interface is
  vrFlow,       \* VR_ID flows
  arpFlow,      \* CONTROL_PKT flows for ARP requests
  askedMtu,     \* history: the MTU each interface was created with
  beside        \* history: the interfaces made without what they would share,
                \* as the port numbered as their VLAN had an interface

rifVars == <<rif, mtu, termination, vrFlow, arpFlow, askedMtu, beside>>

RifId == 0 .. NumRif - 1
MtuId == 0 .. NumMtu - 1
NoMac == "00:00"

\* PORT is the type of a slot cleared by memset.
NoRif == [valid |-> FALSE, type |-> "PORT", at |-> 0, mac |-> NoMac,
          vr |-> 0, mtu |-> 0]
Places == ({"PORT"} \X RifPort) \cup ({"VLAN"} \X Vlan) \cup {<<"LOOP", 0>>}

RifInit ==
  /\ rif = [r \in RifId |-> NoRif]
  /\ mtu = [i \in MtuId |-> [size |-> 0, refs |-> 0]]
  /\ termination = {} /\ vrFlow = {} /\ arpFlow = {}
  /\ askedMtu = [r \in RifId |-> 0]
  /\ beside = {}

UsedRifs == {r \in RifId : rif[r].valid}
PlaceOf(r) == <<rif[r].type, rif[r].at>>

\* The slot is the first free one.
FreeSlot(r) == /\ ~rif[r].valid
               /\ \A s \in 0 .. r - 1 : rif[s].valid

\* The profile of size m, else the first with no size, which is how a free
\* one is told from one in use.
MtuProfile(i, m) ==
  \/ /\ mtu[i].size = m
     /\ \A j \in 0 .. i - 1 : mtu[j].size # m
  \/ /\ mtu[i].size = 0
     /\ \A j \in MtuId : mtu[j].size # m
     /\ \A j \in 0 .. i - 1 : mtu[j].size # 0

-----------------------------------------------------------------------------
(* The flows of an interface, in the order in which they are added and     *)
(* deleted.                                                                *)

Steps == 1 .. 5     \* IPv4, IPv6, virtual router, ARP requests, FDB trap
V4  == 1
V6  == 2
VR  == 3
ARP == 4
FDB == 5

TrapKey(place, mac) ==
  <<IF place[1] = "VLAN" THEN place[2] ELSE Reserved(place[2]), mac>>

HasTermination(place, mac, step) ==
  \E own \in BOOLEAN : <<place, mac, step, own>> \in termination

\* The flow of a step is in the switch: its cookie is found.
There(place, mac, step) ==
  \/ step \in {V4, V6} /\ HasTermination(place, mac, step)
  \/ step = VR  /\ \E v \in VrId : <<place, v>> \in vrFlow
  \/ step = ARP /\ place \in arpFlow
  \/ step = FDB /\ fdb[TrapKey(place, mac)].there

Sharing(r, place) ==
  {s \in UsedRifs \ {r} : PlaceOf(s) = place}

\* The first and the last interface of a place make and delete what its
\* interfaces share; the virtual router's flow is taken to be shared only
\* with interfaces of that router.
SharedSteps(others, v) ==
  (IF others = {} THEN {ARP, FDB} ELSE {})
  \cup (IF \A s \in others : rif[s].vr # v THEN {VR} ELSE {})

\* The termination flows are an interface's own.  A loopback has no flows.
StepsOf(place, others, v) ==
  IF place[1] = "LOOP" THEN {} ELSE {V4, V6} \cup SharedSteps(others, v)

TrapEntry == [NoEntry EXCEPT !.there = TRUE, !.control = TRUE]

PutTrap(place, mac) ==
  IF fdb[TrapKey(place, mac)].there THEN fdb
  ELSE [fdb EXCEPT ![TrapKey(place, mac)] = TrapEntry]

\* The flows of these steps are added; one that is there stays as it is.
Added(done, place, mac, v) ==
  /\ termination' = termination \cup {<<place, mac, s, TRUE>> : s \in done \cap {V4, V6}}
  /\ vrFlow' = IF VR \in done /\ ~There(place, mac, VR)
               THEN vrFlow \cup {<<place, v>>} ELSE vrFlow
  /\ arpFlow' = IF ARP \in done THEN arpFlow \cup {place} ELSE arpFlow
  /\ fdb' = IF FDB \in done THEN PutTrap(place, mac) ELSE fdb

\* Mutant: the FDB entry is forgotten.
DeletedKeepTrap(done, place, mac) ==
  /\ termination' = {t \in termination :
                       ~(t[1] = place /\ t[2] = mac /\ t[3] \in done)}
  /\ vrFlow' = IF VR \in done THEN {f \in vrFlow : f[1] # place} ELSE vrFlow
  /\ arpFlow' = IF ARP \in done THEN arpFlow \ {place} ELSE arpFlow
  /\ fdb' = fdb

Deleted(done, place, mac) ==
  /\ termination' = {t \in termination :
                       ~(t[1] = place /\ t[2] = mac /\ t[3] \in done)}
  /\ vrFlow' = IF VR \in done THEN {f \in vrFlow : f[1] # place} ELSE vrFlow
  /\ arpFlow' = IF ARP \in done THEN arpFlow \ {place} ELSE arpFlow
  /\ fdb' = IF FDB \in done THEN [fdb EXCEPT ![TrapKey(place, mac)] = NoEntry]
            ELSE fdb

-----------------------------------------------------------------------------
(* Creation.                                                               *)

\* The other interfaces of the same place.  What is compared with their
\* type is that of the free slot, which memset has left as PORT.
ComparedPlace(r, place) == <<rif[r].type, place[2]>>

\* A termination flow that is there makes the creation fail; the others may
\* be there already.  The switch may have no room for a flow.
Refused(place, mac, s) == s \in {V4, V6} /\ HasTermination(place, mac, s)

\* The steps needed up to the first that fails: all of them when none does.
Done(needed, fails) ==
  {s \in needed : \A t \in needed \cap fails : s < t}

\* A failed creation leaves what it added: the roll-back removes nothing,
\* as it looks for a valid interface and the slot is not valid yet.  Not
\* modelled is the address the device of a port then gets: without a source
\* address it is read through a pointer nothing has set, and when the process
\* ends there (router_intf.c:676), so does the behaviour.
CreateRouterInterface(r, place, mac, v, m, i, admin, full) ==
  LET others == Sharing(r, ComparedPlace(r, place))
      needed == StepsOf(place, others, v) \ ({V4, V6} \ admin)
      fails  == full \cup {s \in needed : Refused(place, mac, s)}
      done   == Done(needed, fails)
      whole  == done = needed
  IN
  /\ FreeSlot(r) /\ MtuProfile(i, m)
  /\ IF \/ place[1] = "LOOP"
        \/ admin = {V4, V6} /\ Sharing(r, place) = {} /\ whole
     THEN UNCHANGED odd ELSE Unusual
  /\ Added(done, place, mac, v)
  /\ l2Group' = IF whole /\ place[1] = "PORT"
                THEN GroupMade(<<place[2], NoVlan>>, "UNTAGGED", TRUE)
                ELSE l2Group
  /\ rif' = IF ~whole THEN rif
            ELSE [rif EXCEPT ![r] =
                    [valid |-> TRUE, type |-> place[1], at |-> place[2],
                     mac |-> IF place[1] = "LOOP" THEN NoMac ELSE mac,
                     vr |-> v, mtu |-> i]]
  /\ mtu' = IF ~whole THEN mtu
            ELSE [mtu EXCEPT ![i] = [size |-> m, refs |-> @.refs + 1]]
  /\ askedMtu' = IF whole THEN [askedMtu EXCEPT ![r] = m] ELSE askedMtu
  /\ beside' = IF whole /\ place[1] = "VLAN" /\ others # {}
               THEN beside \cup {r} ELSE beside
  /\ UNCHANGED <<l2Ref, vlanFlow, asked>>

-----------------------------------------------------------------------------
(* Removal.                                                                *)

\* Mutant: any interface that leaves clears the size.
MtuCleared(i) ==
  [mtu EXCEPT ![i] = [size |-> 0, refs |-> @.refs - 1]]

\* The last interface of a profile clears its size.
MtuReleased(i) ==
  [mtu EXCEPT ![i] = [size |-> IF @.refs = 1 THEN 0 ELSE @.size,
                      refs |-> @.refs - 1]]

\* A flow that is not found ends the removal there: what was deleted before
\* is gone, and the interface stays.
RemoveRouterInterface(r) ==
  LET place  == PlaceOf(r)
      mac    == rif[r].mac
      others == Sharing(r, place)
      needed == StepsOf(place, others, rif[r].vr)
      fails  == {s \in needed : ~There(place, mac, s)}
      done   == Done(needed, fails)
      whole  == done = needed
  IN
  /\ rif[r].valid
  /\ \A u \in l2Ref : u[1] # r       \* it has no neighbors
  /\ Deleted(done, place, mac)
  /\ l2Group' = IF whole /\ place[1] = "PORT" /\ others = {}
                THEN GroupGone(<<place[2], NoVlan>>) ELSE l2Group
  /\ rif' = IF whole THEN [rif EXCEPT ![r] = NoRif] ELSE rif
  /\ mtu' = IF whole THEN MtuReleased(rif[r].mtu) ELSE mtu
  /\ askedMtu' = IF whole THEN [askedMtu EXCEPT ![r] = 0] ELSE askedMtu
  /\ beside' = IF whole THEN beside \ {r} ELSE beside
  /\ UNCHANGED <<l2Ref, vlanFlow, asked, odd>>

-----------------------------------------------------------------------------
(* A new source address.                                                   *)

\* Both termination flows are replaced, with a match that is not set: own
\* says whether what was on the stack names the interface's place.  The FDB
\* entry stays with the old address.
SetSrcMac(r, mac, own) ==
  LET place == PlaceOf(r)
      old   == rif[r].mac
      gone  == Done({V4, V6}, {s \in {V4, V6} : ~There(place, old, s)})
      left  == {t \in termination :
                  ~(t[1] = place /\ t[2] = old /\ t[3] \in gone)}
      taken == {s \in {V4, V6} : \E o \in BOOLEAN : <<place, mac, s, o>> \in left}
      put   == IF gone = {V4, V6} THEN Done({V4, V6}, taken) ELSE {}
  IN
  /\ rif[r].valid /\ rif[r].type # "LOOP"
  /\ Unusual
  /\ termination' = left \cup {<<place, mac, s, own>> : s \in put}
  /\ rif' = IF gone = {V4, V6} THEN [rif EXCEPT ![r].mac = mac] ELSE rif
  /\ UNCHANGED <<l2Group, l2Ref, vlanFlow, fdb, asked,
                 mtu, vrFlow, arpFlow, askedMtu, beside>>

-----------------------------------------------------------------------------
(* L3 unicast groups of neighbors, which refer to an L2 interface group:   *)
(* that of the port, or that of the FDB entry of the neighbor's address.   *)

UseGroup(r, k) ==
  LET g == IF rif[r].type = "PORT" THEN <<rif[r].at, NoVlan>>
           ELSE fdb[k].group IN
  /\ rif[r].valid /\ rif[r].type # "LOOP"
  /\ rif[r].type = "VLAN" => fdb[k].there /\ k[1] = rif[r].at
  /\ g # NoGroup /\ l2Group[g] # "none"
  /\ l2Ref' = l2Ref \cup {<<r, g>>}
  /\ UNCHANGED <<l2Group, vlanFlow, fdb, asked, odd, rifVars>>

ReleaseGroup(r, g) ==
  /\ l2Ref' = l2Ref \ {<<r, g>>}
  /\ UNCHANGED <<l2Group, vlanFlow, fdb, asked, odd, rifVars>>

RifNext ==
  \/ \E r \in RifId, place \in Places, mac \in RouterMac, v \in VrId,
        m \in Mtu, i \in MtuId :
       \E admin \in SUBSET {V4, V6},
          full \in {{}} \cup (IF "rifFlow" \in L2Faults THEN {{s} : s \in Steps}
                              ELSE {}) :
         CreateRouterInterface(r, place, mac, v, m, i, admin, full)
  \/ \E r \in RifId :
       \/ RemoveRouterInterface(r)
       \/ \E mac \in RouterMac, own \in BOOLEAN : SetSrcMac(r, mac, own)
       \/ \E k \in Vlan \X HostMac : UseGroup(r, k)
  \/ \E u \in l2Ref : ReleaseGroup(u[1], u[2])

=============================================================================
