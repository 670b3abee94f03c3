------------------------------ MODULE L2Tables ------------------------------
(***************************************************************************)
(* The layer-2 tables of the switch that VLAN members, FDB entries, port   *)
(* attributes and router interfaces share: the L2 interface groups         *)
(* (mrvl_sai_utils.c), which say how a packet of a VLAN leaves a port, and *)
(* the VLAN and L2_BRIDGING flow tables.  None of them has a copy in the   *)
(* adapter: what the switch holds is the only state there is.              *)
(***************************************************************************)
EXTENDS Integers, FiniteSets

CONSTANTS
  Port,        \* front panel ports
  Vlan,        \* VLAN ids in 1 .. 4094
  HostMac,     \* addresses the client writes FDB entries for
  RouterMac,   \* source addresses of router interfaces
  MaxOdd,      \* bound: unusual calls of the client (see odd)
  L2Faults     \* which fpaLib calls may fail half way through a SAI call

ASSUME L2Names ==
  /\ Port \subseteq Nat \ {0} /\ Vlan \subseteq 1 .. 4094
  /\ HostMac \cap RouterMac = {}
  /\ MaxOdd \in Nat
  /\ L2Faults \subseteq {"vlanFlow", "rifFlow"}

VARIABLES
  l2Group,     \* the bucket of each L2 interface group
  l2Ref,       \* the L2 groups that L3 unicast groups of an interface use
  vlanFlow,    \* VLAN table, by cookie
  fdb,         \* L2_BRIDGING table, by cookie
  asked,       \* history: the tagging mode last accepted for each member
  odd          \* history: how many unusual calls the client has made

l2Vars == <<l2Group, l2Ref, vlanFlow, fdb, asked, odd>>

NoVlan   == 0                     \* the VLAN of a port's own group and flow
Reserved(p) == 4096 + p           \* MRVL_SAI_VLAN_GET_RESERVED_VLAN_ID_MAC
GroupKey == Port \X (Vlan \cup {NoVlan})
NoGroup  == <<0, 0>>              \* groupId of 0xFFFFFFFF
VlanKey  == (Vlan \cup {NoVlan}) \X Port
FdbKey   == (Vlan \cup {Reserved(p) : p \in Port}) \X (HostMac \cup RouterMac)

Tagging == {"TAGGED", "UNTAGGED"}
Ignore  == -1                     \* FPA_FLOW_VLAN_IGNORE_VAL

NoVlanFlow == [there |-> FALSE, vid |-> Ignore, pcp |-> Ignore]
NoEntry == [there |-> FALSE, dynamic |-> FALSE, group |-> NoGroup,
            control |-> FALSE, clear |-> FALSE]

L2Init ==
  /\ l2Group = [g \in GroupKey |-> "none"]
  /\ l2Ref = {}
  /\ vlanFlow = [k \in VlanKey |-> NoVlanFlow]
  /\ fdb = [k \in FdbKey |-> NoEntry]
  /\ asked = [k \in VlanKey |-> "none"]
  /\ odd = 0

\* A call that is outside what the adapter can follow.
Unusual == odd < MaxOdd /\ odd' = odd + 1

-----------------------------------------------------------------------------
(* L2 interface groups.                                                    *)

\* Mutant: the tagging mode of a group that exists is never changed.
GroupMadeOnce(g, tag, overwrite) ==
  IF l2Group[g] = "none" THEN [l2Group EXCEPT ![g] = tag] ELSE l2Group

\* The group of g after it was asked for: an FDB entry takes it as it is, a
\* VLAN member or an interface also sets how its packets leave.
GroupMade(g, tag, overwrite) ==
  IF l2Group[g] = "none" \/ overwrite
  THEN [l2Group EXCEPT ![g] = tag] ELSE l2Group

\* What the switch holds against the removal of a group.  An entry that
\* clears the actions does not forward through its group.
InUse(g) ==
  \/ \E k \in FdbKey : fdb[k].there /\ ~fdb[k].clear /\ fdb[k].group = g
  \/ \E r \in l2Ref : r[2] = g

\* Removal of a group.  The adapter asks for it without looking who uses the
\* group (utils.c:986-1007): that the library refuses for one that others
\* refer to is taken from the answer vlan.c:653 expects, FPA_NOT_READY, "used
\* by other tables".
GroupGone(g) ==
  IF InUse(g) THEN l2Group ELSE [l2Group EXCEPT ![g] = "none"]

=============================================================================
