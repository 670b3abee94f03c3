-------------------------------- MODULE Vlan --------------------------------
(***************************************************************************)
(* VLAN members (mrvl_sai_vlan.c).  A VLAN itself has no state: creating   *)
(* or removing one only checks its number.  A member is a flow of the VLAN *)
(* table; its tagging mode is that of its port's L2 interface group.       *)
(***************************************************************************)
EXTENDS L2Tables

\* The group is changed before the flow is made.  When the flow cannot be
\* initialized the call fails and the group keeps its new mode; when it cannot
\* be added the call succeeds, as the status looked at is that of the group.
\* Adding a flow the switch has is no failure.
CreateVlanMember(v, p, tag) ==
  /\ l2Group' = GroupMade(<<p, v>>, tag, TRUE)
  /\ \/ /\ vlanFlow' = [vlanFlow EXCEPT ![<<v, p>>].there = TRUE]
        /\ asked' = [asked EXCEPT ![<<v, p>>] = tag]
     \/ /\ "vlanFlow" \in L2Faults
        /\ asked' \in {[asked EXCEPT ![<<v, p>>] = tag],
                       [asked EXCEPT ![<<v, p>>] = IF @ = "none" THEN @ ELSE tag]}
        /\ UNCHANGED vlanFlow
  /\ UNCHANGED <<l2Ref, fdb, odd>>

\* The group stays when other tables use it; the call succeeds all the same.
RemoveVlanMember(v, p) ==
  /\ vlanFlow[<<v, p>>].there
  /\ vlanFlow' = [vlanFlow EXCEPT ![<<v, p>>] = NoVlanFlow]
  /\ l2Group' = GroupGone(<<p, v>>)
  /\ asked' = [asked EXCEPT ![<<v, p>>] = "none"]
  /\ UNCHANGED <<l2Ref, fdb, odd>>

TaggingModeOf(v, p) == l2Group[<<p, v>>]

\* Nothing asks whether the member exists: the group is enough.
SetTaggingMode(v, p, tag) ==
  /\ TaggingModeOf(v, p) # "none"
  /\ l2Group' = [l2Group EXCEPT ![<<p, v>>] = tag]
  /\ asked' = [asked EXCEPT
       ![<<v, p>>] = IF @ = "none" THEN @ ELSE tag]
  /\ UNCHANGED <<l2Ref, vlanFlow, fdb, odd>>

VlanNext ==
  \E v \in Vlan, p \in Port :
    \/ \E tag \in Tagging : CreateVlanMember(v, p, tag)
    \/ RemoveVlanMember(v, p)
    \/ \E tag \in Tagging : SetTaggingMode(v, p, tag)

=============================================================================
