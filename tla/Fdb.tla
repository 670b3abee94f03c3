-------------------------------- MODULE Fdb ---------------------------------
(***************************************************************************)
(* FDB entries (mrvl_sai_fdb.c): flows of the L2_BRIDGING table, each with *)
(* the L2 interface group it forwards through.  The group of an entry that *)
(* drops or traps is unknown (0xFFFFFFFF): the library refuses to make an  *)
(* identifier of what it parses from that.                                 *)
(***************************************************************************)
EXTENDS L2Tables

HostKey == Vlan \X HostMac

\* What an action makes of the entry e that has, or is to have, group g.
Acts(e, a, g) ==
  CASE a = "TRAP" -> [e EXCEPT !.control = TRUE, !.group = NoGroup,
                               !.clear = FALSE]
    [] a = "FORWARD" -> [e EXCEPT !.group = g, !.clear = FALSE]
    [] a = "LOG" -> [e EXCEPT !.group = g, !.clear = FALSE, !.control = TRUE]
    [] a = "DROP" -> [e EXCEPT !.clear = TRUE]

Forwards(a) == a \in {"FORWARD", "LOG"}

\* What the getters read: the port of an entry that drops or traps is 0.
TypeOf(e) == IF e.dynamic THEN "DYNAMIC" ELSE "STATIC"

PortOf(e) == IF e.clear \/ e.group = NoGroup THEN 0 ELSE e.group[1]

ActionOf(e) ==
  IF e.clear THEN "DROP"
  ELSE IF e.group = NoGroup THEN "TRAP"
  ELSE IF e.control THEN "LOG" ELSE "FORWARD"

\* Mutant: the group is taken for granted.
ForFdbTaken(g) == l2Group

\* The group an entry forwards through, made tagged when it is not there.
ForFdb(g) == GroupMade(g, "TAGGED", FALSE)

\* The group is made before the entry is added, and stays when the entry is
\* already there.
CreateFdbEntry(k, p, dynamic, a) ==
  LET g == <<p, k[1]>> IN
  /\ Forwards(a) \/ ~fdb[k].there
  /\ l2Group' = IF Forwards(a) THEN ForFdb(g) ELSE l2Group
  /\ fdb' = IF fdb[k].there THEN fdb
            ELSE [fdb EXCEPT ![k] =
                    Acts([NoEntry EXCEPT !.there = TRUE, !.dynamic = dynamic],
                         a, g)]
  /\ UNCHANGED <<l2Ref, vlanFlow, asked, odd>>

RemoveFdbEntry(k) ==
  /\ fdb[k].there
  /\ fdb' = [fdb EXCEPT ![k] = NoEntry]
  /\ UNCHANGED <<l2Group, l2Ref, vlanFlow, asked, odd>>

\* The VLAN of the new group is that of the old one.
SetFdbPort(k, p) ==
  LET g == <<p, fdb[k].group[2]>> IN
  /\ fdb[k].there /\ fdb[k].group # NoGroup
  /\ l2Group' = ForFdb(g)
  /\ fdb' = [fdb EXCEPT ![k].group = g]
  /\ UNCHANGED <<l2Ref, vlanFlow, asked, odd>>

\* Dropping keeps the group for a later FORWARD; trapping forgets it, and a
\* copy to the controller asked for once is never taken back.
SetFdbAction(k, a) ==
  /\ fdb[k].there
  /\ Forwards(a) => fdb[k].group # NoGroup
  /\ l2Group' = IF Forwards(a) THEN ForFdb(fdb[k].group) ELSE l2Group
  /\ fdb' = [fdb EXCEPT ![k] = Acts(@, a, @.group)]
  /\ UNCHANGED <<l2Ref, vlanFlow, asked, odd>>

\* The flow library compares type, VLAN and port of the entries with those
\* of the call; a type that is not given stands for the dynamic entries.
Flushed(dynamic, v, p) ==
  {k \in FdbKey : /\ fdb[k].there
                  /\ fdb[k].dynamic = dynamic
                  /\ v # NoVlan => k[1] = v
                  /\ p # 0 => fdb[k].group[1] = p}

FlushFdbEntries(dynamic, v, p) ==
  /\ Flushed(dynamic, v, p) # {}
  /\ fdb' = [k \in FdbKey |->
               IF k \in Flushed(dynamic, v, p) THEN NoEntry ELSE fdb[k]]
  /\ IF \E k \in Flushed(dynamic, v, p) : k \notin HostKey
     THEN Unusual ELSE UNCHANGED odd
  /\ UNCHANGED <<l2Group, l2Ref, vlanFlow, asked>>

\* The switch forgets a dynamic entry that no packet has used.
Age(k) ==
  /\ fdb[k].there /\ fdb[k].dynamic
  /\ fdb' = [fdb EXCEPT ![k] = NoEntry]
  /\ UNCHANGED <<l2Group, l2Ref, vlanFlow, asked, odd>>

FdbActions == {"DROP", "TRAP", "LOG", "FORWARD"}

FdbNext ==
  \/ \E k \in HostKey, p \in Port, dynamic \in BOOLEAN, a \in FdbActions :
       CreateFdbEntry(k, p, dynamic, a)
  \/ \E k \in HostKey :
       \/ RemoveFdbEntry(k)
       \/ \E p \in Port : SetFdbPort(k, p)
       \/ \E a \in FdbActions : SetFdbAction(k, a)
       \/ Age(k)
  \/ \E dynamic \in BOOLEAN, v \in Vlan \cup {NoVlan}, p \in Port \cup {0} :
       FlushFdbEntries(dynamic, v, p)

=============================================================================
