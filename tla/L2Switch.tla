------------------------------ MODULE L2Switch ------------------------------
(***************************************************************************)
(* VLAN members, FDB entries, port attributes and router interfaces on the *)
(* tables they share.  Every call runs to completion in its caller.        *)
(***************************************************************************)
EXTENDS Vlan, Fdb, Port, RifFlows

vars == <<l2Vars, portVars, rifVars>>

Init == L2Init /\ PortInit /\ RifInit

Next ==
  \/ (VlanNext \/ FdbNext) /\ UNCHANGED <<portVars, rifVars>>
  \/ PortNext /\ UNCHANGED rifVars
  \/ RifNext /\ UNCHANGED portVars

Spec == Init /\ [][Next]_vars

-----------------------------------------------------------------------------
(* Properties.                                                             *)

TypeOK ==
  /\ l2Group \in [GroupKey -> {"none"} \cup Tagging]
  /\ l2Ref \subseteq RifId \X GroupKey
  /\ vlanFlow \in [VlanKey -> [there : BOOLEAN, vid : Vlan \cup {Ignore},
                               pcp : Pcp \cup {Ignore}]]
  /\ fdb \in [FdbKey -> [there : BOOLEAN, dynamic : BOOLEAN,
                         group : GroupKey \cup {NoGroup},
                         control : BOOLEAN, clear : BOOLEAN]]
  /\ asked \in [VlanKey -> {"none"} \cup Tagging]
  /\ odd \in 0 .. MaxOdd
  /\ features \in [AttrPort -> [speed : Speed, half : BOOLEAN,
                                pause : SUBSET {"PAUSE", "ASYM"}]]
  /\ learning \in [AttrPort -> HwLearning]
  /\ down \in [AttrPort -> BOOLEAN]
  /\ wanted \in [AttrPort -> [speed : Speed, fc : FlowControl,
                              learn : LearnModes, up : BOOLEAN,
                              vlan : Vlan \cup {NoVlan},
                              pcp : Pcp \cup {Ignore}]]
  /\ rif \in [RifId -> [valid : BOOLEAN, type : {"PORT", "VLAN", "LOOP"},
                        at : Port \cup Vlan \cup {0},
                        mac : RouterMac \cup {NoMac},
                        vr : VrId \cup {0}, mtu : MtuId]]
  /\ mtu \in [MtuId -> [size : Mtu \cup {0}, refs : 0 .. NumRif]]
  /\ termination \subseteq Places \X RouterMac \X {V4, V6} \X BOOLEAN
  /\ vrFlow \subseteq Places \X VrId
  /\ arpFlow \subseteq Places
  /\ askedMtu \in [RifId -> Mtu \cup {0}]
  /\ beside \subseteq RifId

\* Packets of a VLAN leave a member's port tagged or not as the client last
\* asked, were it by a creation that failed after it had changed the group
\* (vlan.c:569), whatever FDB entries, neighbors and earlier members have made
\* of the group before (create_l2_int_group: "group eas created from fdb and
\* now it is updated with the real tagging mode").
TaggedAsAsked ==
  \A v \in Vlan, p \in Port :
    asked[<<v, p>>] # "none" => TaggingModeOf(v, p) = asked[<<v, p>>]

\* An FDB entry that reads back as forwarding does so through a group that
\* exists, of the port that reads back and of its own VLAN, although members
\* come and go and no removal of an entry touches its group
\* (mrvl_sai_fdb_action_set_prv).
ForwardsInItsVlan ==
  \A k \in FdbKey :
    LET e == fdb[k] IN
    e.there /\ ActionOf(e) \in {"FORWARD", "LOG"} =>
      /\ l2Group[e.group] # "none"
      /\ e.group = <<PortOf(e), k[1]>>

\* What reads back is what the client last asked for, although speed and
\* flow control share a bitmap and VLAN and priority a flow; but a priority
\* reads back only until the VLAN changes, and no port goes down.
AttributesAsAsked ==
  \A p \in AttrPort :
    LET w == wanted[p] IN
    /\ SpeedOf(p) = w.speed /\ FlowControlOf(p) = w.fc
    /\ features[p].half => w.speed \in SlowSpeed
    /\ LearnModeOf(p) = w.learn
    /\ DefaultVlanOf(p) = w.vlan
    /\ DefaultPriorityOf(p) \in {w.pcp, Ignore}
    /\ w.up => AdminUp(p)

L3Rifs == {r \in UsedRifs : rif[r].type # "LOOP"}

\* The termination and virtual router flows of these interfaces.
TerminationsOf(rs) ==
  UNION {{<<PlaceOf(r), rif[r].mac, s, TRUE>> : s \in {V4, V6}} : r \in rs}
VrFlowsOf(rs) == {<<PlaceOf(r), rif[r].vr>> : r \in rs}

\* Each interface has all of its flows, and no flow is in the switch but of
\* an interface there is: none stays when its interface goes, and none goes
\* with another's.  This for a client that keeps to one interface per port or
\* VLAN, leaves admin states and source addresses as they were and flushes no
\* static entries of others, until a creation fails half way, whose roll-back
\* removes nothing.  One interface misses flows though the client keeps to
\* that: of a VLAN, made while the port of the same number has one, which is
\* taken for another of the VLAN (router_intf.c:649).  It never gets the flows
\* they would share, and its removal, for want of these, deletes the others
\* and fails, so that it stays; it has flows of its own only, and those of the
\* port stay whole.
FlowsFollowInterfaces ==
  odd = 0 =>
    LET whole == L3Rifs \ beside IN
    /\ TerminationsOf(whole) \subseteq termination
    /\ termination \subseteq TerminationsOf(L3Rifs)
    /\ VrFlowsOf(whole) \subseteq vrFlow /\ vrFlow \subseteq VrFlowsOf(L3Rifs)
    /\ arpFlow = {PlaceOf(r) : r \in whole}
    /\ {k \in FdbKey \ HostKey : fdb[k].there} =
         {TrapKey(PlaceOf(r), rif[r].mac) : r \in whole}
    /\ \A r \in beside : rif[r].type = "VLAN"

\* The profiles count their interfaces, and an interface created with an MTU
\* other than 0 keeps it, whatever shares its profile.
MtuKept ==
  /\ \A i \in MtuId :
       mtu[i].refs = Cardinality({r \in UsedRifs : rif[r].mtu = i})
  /\ \A r \in UsedRifs : askedMtu[r] # 0 => mtu[rif[r].mtu].size = askedMtu[r]

\* The tables keep their shape and profiles their counts and sizes, whatever
\* the client does and whichever flow the switch refuses.
RifTablesSound == TypeOK /\ MtuKept

=============================================================================
