------------------------------ MODULE L2Proofs ------------------------------
(***************************************************************************)
(* For every set of ports, VLANs, addresses and interfaces, and whichever  *)
(* flow the switch refuses: packets leave members as asked, entries        *)
(* forward in their VLAN, attributes read back as they were set, and the   *)
(* flows of interfaces and the MTU profiles are those of the interfaces.   *)
(***************************************************************************)
EXTENDS L2Switch, FiniteSetTheorems, TLAPS

Mode == {"none"} \cup Tagging
Entry == [there : BOOLEAN, dynamic : BOOLEAN, group : GroupKey \cup {NoGroup},
          control : BOOLEAN, clear : BOOLEAN]
Interface == [valid : BOOLEAN, type : {"PORT", "VLAN", "LOOP"},
              at : Port \cup Vlan \cup {0}, mac : RouterMac \cup {NoMac},
              vr : VrId \cup {0}, mtu : MtuId]

L2Type ==
  /\ l2Group \in [GroupKey -> Mode]
  /\ asked \in [VlanKey -> Mode]
  /\ fdb \in [FdbKey -> Entry]

\* An interface is at one of the places there are.
RifsPlaced ==
  /\ rif \in [RifId -> Interface]
  /\ \A r \in RifId : rif[r].valid => PlaceOf(r) \in Places

\* An entry has a group of a port and of its own VLAN, or none; the group is
\* there unless the entry drops.
EntriesSound ==
  \A k \in FdbKey :
    fdb[k].there /\ fdb[k].group # NoGroup =>
      /\ fdb[k].group \in Port \X {k[1]}
      /\ ~fdb[k].clear => l2Group[fdb[k].group] # "none"

L2Inv == /\ L2Type /\ TaggedAsAsked /\ EntriesSound
         /\ l2Ref \subseteq RifId \X GroupKey

-----------------------------------------------------------------------------
(* Groups.                                                                 *)

LEMMA NoGroupIsNone == NoGroup \notin GroupKey
BY L2Names DEF NoGroup, GroupKey

LEMMA NoVlanIsNone == NoVlan \notin Vlan
BY L2Names DEF NoVlan

\* An FDB entry asks for a group: it is made when it is not there, and no
\* group that is there changes.
LEMMA ForFdbKeeps ==
  ASSUME l2Group \in [GroupKey -> Mode], NEW g
  PROVE  /\ ForFdb(g) \in [GroupKey -> Mode]
         /\ g \in GroupKey => ForFdb(g)[g] # "none"
         /\ \A h \in GroupKey : l2Group[h] # "none" => ForFdb(g)[h] = l2Group[h]
BY DEF ForFdb, GroupMade, Mode, Tagging

\* Removal takes away one group at most, and none in use.
LEMMA GoneKeeps ==
  ASSUME l2Group \in [GroupKey -> Mode], NEW g
  PROVE  /\ GroupGone(g) \in [GroupKey -> Mode]
         /\ \A h \in GroupKey : h # g \/ InUse(h) => GroupGone(g)[h] = l2Group[h]
<1>1. "none" \in Mode
  BY DEF Mode
<1> QED BY <1>1 DEF GroupGone

\* The groups entries forward through and neighbors refer to are in use.
LEMMA UsedGroups ==
  ASSUME L2Inv
  PROVE  /\ \A k \in FdbKey :
              fdb[k].there /\ fdb[k].group # NoGroup =>
                /\ fdb[k].group \in GroupKey
                /\ ~fdb[k].clear => InUse(fdb[k].group)
         /\ \A u \in l2Ref : u[2] \in GroupKey /\ InUse(u[2])
<1>1. fdb \in [FdbKey -> Entry] /\ l2Ref \subseteq RifId \X GroupKey
  BY DEF L2Inv, L2Type
<1>2. \A k \in FdbKey : fdb[k].group \in GroupKey \cup {NoGroup}
  BY <1>1 DEF Entry
<1> QED BY <1>1, <1>2 DEF InUse

\* A step that keeps entries, members and references, and the groups in use
\* and of members, keeps the invariant.
LEMMA GroupsOnly ==
  ASSUME L2Inv, l2Group' \in [GroupKey -> Mode],
         UNCHANGED <<fdb, asked, l2Ref>>,
         \A h \in GroupKey : InUse(h) /\ l2Group[h] # "none" => l2Group'[h] # "none",
         \A v \in Vlan, p \in Port :
           asked[<<v, p>>] # "none" => l2Group'[<<p, v>>] = l2Group[<<p, v>>]
  PROVE  L2Inv'
<1>1. L2Type'
  BY DEF L2Inv, L2Type
<1>2. TaggedAsAsked'
  BY DEF L2Inv, TaggedAsAsked, TaggingModeOf
<1>3. EntriesSound'
  BY UsedGroups DEF L2Inv, EntriesSound
<1>4. (l2Ref \subseteq RifId \X GroupKey)'
  BY UsedGroups DEF L2Inv
<1> QED BY <1>1, <1>2, <1>3, <1>4 DEF L2Inv

-----------------------------------------------------------------------------
(* VLAN members.                                                           *)

\* The tagging mode of a group is set, for a member that is asked to have it
\* or that nobody asked for.
LEMMA Retagged ==
  ASSUME L2Inv, NEW v \in Vlan, NEW p \in Port, NEW tag \in Tagging,
         l2Group' = [l2Group EXCEPT ![<<p, v>>] = tag],
         NEW a \in {"none", tag},
         asked' = [asked EXCEPT ![<<v, p>>] = a],
         UNCHANGED <<fdb, l2Ref>>
  PROVE  L2Inv'
<1> DEFINE g == <<p, v>>
<1>1. /\ l2Group \in [GroupKey -> Mode] /\ asked \in [VlanKey -> Mode]
      /\ fdb \in [FdbKey -> Entry]
  BY DEF L2Inv, L2Type
<1>2. g \in GroupKey /\ tag \in Mode /\ tag # "none" /\ a \in Mode
  BY DEF GroupKey, Mode, Tagging
<1>3. /\ l2Group' \in [GroupKey -> Mode]
      /\ \A h \in GroupKey : l2Group[h] # "none" => l2Group'[h] # "none"
  BY <1>1, <1>2
<1>4. L2Type'
  BY <1>1, <1>2, <1>3 DEF L2Type
<1>5. TaggedAsAsked'
  <2> SUFFICES ASSUME NEW w \in Vlan, NEW q \in Port, asked'[<<w, q>>] # "none"
               PROVE  l2Group'[<<q, w>>] = asked'[<<w, q>>]
    BY DEF TaggedAsAsked, TaggingModeOf
  <2>1. <<w, q>> \in VlanKey /\ <<q, w>> \in GroupKey
    BY DEF VlanKey, GroupKey
  <2>2. CASE w = v /\ q = p
    BY <1>1, <2>1, <2>2
  <2>3. CASE ~(w = v /\ q = p)
    <3>1. asked'[<<w, q>>] = asked[<<w, q>>] /\ l2Group'[<<q, w>>] = l2Group[<<q, w>>]
      BY <1>1, <2>1, <2>3
    <3> QED BY <3>1 DEF L2Inv, TaggedAsAsked, TaggingModeOf
  <2> QED BY <2>2, <2>3
<1>6. EntriesSound'
  BY <1>3, UsedGroups DEF L2Inv, EntriesSound
<1>7. (l2Ref \subseteq RifId \X GroupKey)'
  BY <1>3, UsedGroups DEF L2Inv
<1> QED BY <1>4, <1>5, <1>6, <1>7 DEF L2Inv

LEMMA VlanStep ==
  ASSUME L2Inv, VlanNext
  PROVE  L2Inv'
<1> SUFFICES ASSUME NEW v \in Vlan, NEW p \in Port,
                    \/ \E tag \in Tagging : CreateVlanMember(v, p, tag)
                    \/ RemoveVlanMember(v, p)
                    \/ \E tag \in Tagging : SetTaggingMode(v, p, tag)
             PROVE  L2Inv'
  BY DEF VlanNext
<1>1. /\ l2Group \in [GroupKey -> Mode] /\ asked \in [VlanKey -> Mode]
      /\ fdb \in [FdbKey -> Entry]
  BY DEF L2Inv, L2Type
<1>2. ASSUME NEW tag \in Tagging, CreateVlanMember(v, p, tag)
      PROVE  L2Inv'
  <2>1. l2Group' = [l2Group EXCEPT ![<<p, v>>] = tag] /\ UNCHANGED <<fdb, l2Ref>>
    BY <1>2 DEF CreateVlanMember, GroupMade
  <2> DEFINE a == IF asked[<<v, p>>] = "none" THEN "none" ELSE tag
  <2>2. a \in {"none", tag}
    OBVIOUS
  <2>3. \/ asked' = [asked EXCEPT ![<<v, p>>] = tag]
        \/ asked' = [asked EXCEPT ![<<v, p>>] = a]
    BY <1>1, <1>2 DEF CreateVlanMember
  <2> HIDE DEF a
  <2> QED BY <2>1, <2>2, <2>3, Retagged
<1>3. ASSUME RemoveVlanMember(v, p)
      PROVE  L2Inv'
  <2> DEFINE g == <<p, v>>
  <2>1. /\ l2Group' = GroupGone(g)
        /\ asked' = [asked EXCEPT ![<<v, p>>] = "none"]
        /\ UNCHANGED <<fdb, l2Ref>>
    BY <1>3 DEF RemoveVlanMember
  <2>2. /\ l2Group' \in [GroupKey -> Mode]
        /\ \A h \in GroupKey : h # g \/ InUse(h) => l2Group'[h] = l2Group[h]
    BY <1>1, <2>1, GoneKeeps
  <2>3. L2Type'
    BY <1>1, <2>1, <2>2 DEF L2Type, Mode
  <2>4. TaggedAsAsked'
    <3> SUFFICES ASSUME NEW w \in Vlan, NEW q \in Port, asked'[<<w, q>>] # "none"
                 PROVE  l2Group'[<<q, w>>] = asked'[<<w, q>>]
      BY DEF TaggedAsAsked, TaggingModeOf
    <3>1. <<w, q>> \in VlanKey /\ <<q, w>> \in GroupKey
      BY DEF VlanKey, GroupKey
    <3>2. asked'[<<w, q>>] = asked[<<w, q>>] /\ <<q, w>> # g
      BY <1>1, <2>1, <3>1
    <3>3. l2Group'[<<q, w>>] = l2Group[<<q, w>>]
      BY <2>2, <3>1, <3>2
    <3> QED BY <3>2, <3>3 DEF L2Inv, TaggedAsAsked, TaggingModeOf
  <2>5. EntriesSound'
    BY <2>1, <2>2, UsedGroups DEF L2Inv, EntriesSound
  <2>6. (l2Ref \subseteq RifId \X GroupKey)'
    BY <2>1, <2>2, UsedGroups DEF L2Inv
  <2> QED BY <2>3, <2>4, <2>5, <2>6 DEF L2Inv
<1>4. ASSUME NEW tag \in Tagging, SetTaggingMode(v, p, tag)
      PROVE  L2Inv'
  <2>1. l2Group' = [l2Group EXCEPT ![<<p, v>>] = tag] /\ UNCHANGED <<fdb, l2Ref>>
    BY <1>4 DEF SetTaggingMode
  <2> DEFINE a == IF asked[<<v, p>>] = "none" THEN "none" ELSE tag
  <2>2. asked' = [asked EXCEPT ![<<v, p>>] = a] /\ a \in {"none", tag}
    BY <1>1, <1>4 DEF SetTaggingMode
  <2> HIDE DEF a
  <2> QED BY <2>1, <2>2, Retagged
<1> QED BY <1>2, <1>3, <1>4

-----------------------------------------------------------------------------
(* FDB entries.                                                            *)

\* Entries change, each keeping or getting a group that is there, and the
\* groups that are there stay as they are.
LEMMA EntriesOnly ==
  ASSUME L2Inv, l2Group' \in [GroupKey -> Mode], fdb' \in [FdbKey -> Entry],
         UNCHANGED <<asked, l2Ref>>,
         \A h \in GroupKey : l2Group[h] # "none" => l2Group'[h] = l2Group[h],
         \A k \in FdbKey :
           \/ fdb'[k] = fdb[k]
           \/ ~fdb'[k].there
           \/ fdb'[k].group = NoGroup
           \/ /\ fdb'[k].group \in Port \X {k[1]}
              /\ ~fdb'[k].clear => l2Group'[fdb'[k].group] # "none"
  PROVE  L2Inv'
<1>1. L2Type'
  BY DEF L2Inv, L2Type
<1>2. TaggedAsAsked'
  <2> SUFFICES ASSUME NEW w \in Vlan, NEW q \in Port, asked[<<w, q>>] # "none"
               PROVE  l2Group'[<<q, w>>] = asked[<<w, q>>]
    BY DEF TaggedAsAsked, TaggingModeOf
  <2>1. <<q, w>> \in GroupKey /\ <<w, q>> \in VlanKey
    BY DEF GroupKey, VlanKey
  <2>2. l2Group[<<q, w>>] = asked[<<w, q>>]
    BY DEF L2Inv, TaggedAsAsked, TaggingModeOf
  <2> QED BY <2>1, <2>2
<1>3. EntriesSound'
  BY UsedGroups DEF L2Inv, EntriesSound
<1>4. (l2Ref \subseteq RifId \X GroupKey)'
  BY UsedGroups DEF L2Inv
<1> QED BY <1>1, <1>2, <1>3, <1>4 DEF L2Inv

LEMMA FdbStep ==
  ASSUME L2Inv, FdbNext
  PROVE  L2Inv'
<1>1. l2Group \in [GroupKey -> Mode] /\ fdb \in [FdbKey -> Entry]
  BY DEF L2Inv, L2Type
<1>2. NoEntry \in Entry /\ HostKey \subseteq FdbKey
  BY DEF NoEntry, Entry, HostKey, FdbKey
<1>3. \A k \in HostKey, p \in Port : <<p, k[1]>> \in GroupKey
  BY DEF HostKey, GroupKey
<1>4. ASSUME NEW k \in HostKey, NEW p \in Port, NEW dynamic \in BOOLEAN,
             NEW a \in FdbActions, CreateFdbEntry(k, p, dynamic, a)
      PROVE  L2Inv'
  <2> DEFINE g == <<p, k[1]>>
             e == Acts([NoEntry EXCEPT !.there = TRUE, !.dynamic = dynamic], a, g)
  <2>1. /\ l2Group' = IF Forwards(a) THEN ForFdb(g) ELSE l2Group
        /\ fdb' = IF fdb[k].there THEN fdb ELSE [fdb EXCEPT ![k] = e]
        /\ UNCHANGED <<asked, l2Ref>>
    BY <1>4 DEF CreateFdbEntry
  <2>2. e \in Entry /\ e.group \in {g, NoGroup} /\ (e.group = g => Forwards(a))
    BY <1>3, NoGroupIsNone DEF NoEntry, Entry, Acts, FdbActions, Forwards
  <2> HIDE DEF e
  <2>3. /\ l2Group' \in [GroupKey -> Mode]
        /\ Forwards(a) => l2Group'[g] # "none"
        /\ \A h \in GroupKey : l2Group[h] # "none" => l2Group'[h] = l2Group[h]
    BY <1>1, <1>3, <2>1, ForFdbKeeps
  <2>4. fdb' \in [FdbKey -> Entry] /\ \A j \in FdbKey : fdb'[j] \in {fdb[j], e}
                                       /\ (j # k => fdb'[j] = fdb[j])
    BY <1>1, <1>2, <2>1, <2>2
  <2>5. e.group = g => e.group \in Port \X {k[1]} /\ l2Group'[e.group] # "none"
    BY <2>2, <2>3
  <2> HIDE DEF g
  <2> QED BY <2>1, <2>2, <2>3, <2>4, <2>5, EntriesOnly
<1>5. ASSUME NEW k \in HostKey, NEW p \in Port, SetFdbPort(k, p)
      PROVE  L2Inv'
  <2> DEFINE g == <<p, k[1]>>
  <2>1. fdb[k].group \in Port \X {k[1]}
    BY <1>2, <1>5 DEF SetFdbPort, L2Inv, EntriesSound
  <2>2. /\ l2Group' = ForFdb(g)
        /\ fdb' = [fdb EXCEPT ![k].group = g]
        /\ UNCHANGED <<asked, l2Ref>>
    BY <1>5, <2>1 DEF SetFdbPort
  <2>3. /\ l2Group' \in [GroupKey -> Mode] /\ l2Group'[g] # "none"
        /\ \A h \in GroupKey : l2Group[h] # "none" => l2Group'[h] = l2Group[h]
    BY <1>1, <1>3, <2>2, ForFdbKeeps
  <2>4. fdb' \in [FdbKey -> Entry]
    BY <1>1, <1>2, <1>3, <2>2 DEF Entry
  <2>5. \A j \in FdbKey : j # k => fdb'[j] = fdb[j]
    BY <1>1, <2>2
  <2>6. fdb'[k].group = g /\ g \in Port \X {k[1]}
    BY <1>1, <1>2, <2>2 DEF Entry
  <2> HIDE DEF g
  <2> QED BY <2>2, <2>3, <2>4, <2>5, <2>6, EntriesOnly
<1>6. ASSUME NEW k \in HostKey, NEW a \in FdbActions, SetFdbAction(k, a)
      PROVE  L2Inv'
  <2> DEFINE g == fdb[k].group
             e == Acts(fdb[k], a, g)
  <2>1. /\ fdb[k].there /\ (Forwards(a) => g # NoGroup)
        /\ l2Group' = IF Forwards(a) THEN ForFdb(g) ELSE l2Group
        /\ fdb' = [fdb EXCEPT ![k] = e]
        /\ UNCHANGED <<asked, l2Ref>>
    BY <1>1, <1>2, <1>6 DEF SetFdbAction
  <2>2. fdb[k] \in Entry /\ g \in GroupKey \cup {NoGroup}
    BY <1>1, <1>2 DEF Entry
  <2>3. /\ e \in Entry /\ e.group \in {g, NoGroup}
        /\ ~Forwards(a) => e.clear \/ e.group = NoGroup
    BY <2>2 DEF Entry, Acts, FdbActions, Forwards
  <2>4. g # NoGroup => g \in Port \X {k[1]} /\ g \in GroupKey
    BY <1>2, <2>1, <2>2 DEF L2Inv, EntriesSound
  <2> HIDE DEF e, g
  <2>5. /\ l2Group' \in [GroupKey -> Mode]
        /\ Forwards(a) => l2Group'[g] # "none"
        /\ \A h \in GroupKey : l2Group[h] # "none" => l2Group'[h] = l2Group[h]
    BY <1>1, <2>1, <2>4, ForFdbKeeps
  <2>6. /\ fdb' \in [FdbKey -> Entry] /\ fdb'[k] = e
        /\ \A j \in FdbKey : j # k => fdb'[j] = fdb[j]
    BY <1>1, <1>2, <2>1, <2>3
  <2>7. \/ e.group = NoGroup
        \/ /\ e.group \in Port \X {k[1]}
           /\ ~e.clear => l2Group'[e.group] # "none"
    BY <2>3, <2>4, <2>5
  <2> QED BY <2>1, <2>5, <2>6, <2>7, EntriesOnly
<1>7. ASSUME NEW K, fdb' = [k \in FdbKey |-> IF k \in K THEN NoEntry ELSE fdb[k]],
             UNCHANGED <<l2Group, asked, l2Ref>>
      PROVE  L2Inv'
  <2>1. fdb' \in [FdbKey -> Entry]
    BY <1>1, <1>2, <1>7
  <2>2. \A k \in FdbKey : fdb'[k] = fdb[k] \/ ~fdb'[k].there
    BY <1>7 DEF NoEntry
  <2> QED BY <1>1, <1>7, <2>1, <2>2, EntriesOnly
<1>8. ASSUME NEW k \in HostKey, RemoveFdbEntry(k) \/ Age(k)
      PROVE  L2Inv'
  <2>1. /\ fdb' = [fdb EXCEPT ![k] = NoEntry]
        /\ UNCHANGED <<l2Group, asked, l2Ref>>
    BY <1>8 DEF RemoveFdbEntry, Age
  <2>2. fdb' = [j \in FdbKey |-> IF j \in {k} THEN NoEntry ELSE fdb[j]]
    BY <1>1, <2>1
  <2> QED BY <1>7, <2>1, <2>2
<1>9. ASSUME NEW dynamic, NEW v, NEW p, FlushFdbEntries(dynamic, v, p)
      PROVE  L2Inv'
  BY <1>7, <1>9 DEF FlushFdbEntries
<1> QED BY <1>4, <1>5, <1>6, <1>8, <1>9 DEF FdbNext

-----------------------------------------------------------------------------
(* Router interfaces.  Their FDB entries have no group.                    *)

\* What the flows of an interface make of the entries.
LEMMA TrapEntries ==
  ASSUME L2Inv, NEW done, NEW place, NEW mac,
         \/ \E v : Added(done, place, mac, v)
         \/ Deleted(done, place, mac)
  PROVE  /\ fdb' \in [FdbKey -> Entry]
         /\ \A k \in FdbKey : fdb'[k] \in {fdb[k], TrapEntry, NoEntry}
<1>1. fdb \in [FdbKey -> Entry]
  BY DEF L2Inv, L2Type
<1>2. TrapEntry \in Entry /\ NoEntry \in Entry
  BY DEF TrapEntry, NoEntry, Entry
<1>3. fdb' \in {fdb, [fdb EXCEPT ![TrapKey(place, mac)] = TrapEntry],
                [fdb EXCEPT ![TrapKey(place, mac)] = NoEntry]}
  BY DEF Added, Deleted, PutTrap
<1> QED BY <1>1, <1>2, <1>3

\* The group of a port itself is no member's.
LEMMA PortGroupSet ==
  ASSUME L2Inv, NEW p, l2Group' = GroupMade(<<p, NoVlan>>, "UNTAGGED", TRUE)
  PROVE  /\ l2Group' \in [GroupKey -> Mode]
         /\ \A h \in GroupKey : l2Group[h] # "none" => l2Group'[h] # "none"
         /\ \A v \in Vlan, q \in Port : l2Group'[<<q, v>>] = l2Group[<<q, v>>]
<1>1. l2Group \in [GroupKey -> Mode]
  BY DEF L2Inv, L2Type
<1>2. l2Group' = [l2Group EXCEPT ![<<p, NoVlan>>] = "UNTAGGED"]
  BY DEF GroupMade
<1>3. "UNTAGGED" \in Mode
  BY DEF Mode, Tagging
<1>4. \A v \in Vlan, q \in Port : <<q, v>> \in GroupKey /\ <<q, v>> # <<p, NoVlan>>
  BY NoVlanIsNone DEF GroupKey
<1> QED BY <1>1, <1>2, <1>3, <1>4

\* So is its removal.
LEMMA PortGroupGone ==
  ASSUME L2Inv, NEW p, l2Group' = GroupGone(<<p, NoVlan>>)
  PROVE  /\ l2Group' \in [GroupKey -> Mode]
         /\ \A h \in GroupKey : InUse(h) => l2Group'[h] = l2Group[h]
         /\ \A v \in Vlan, q \in Port : l2Group'[<<q, v>>] = l2Group[<<q, v>>]
<1>1. l2Group \in [GroupKey -> Mode]
  BY DEF L2Inv, L2Type
<1>2. \A v \in Vlan, q \in Port : <<q, v>> \in GroupKey /\ <<q, v>> # <<p, NoVlan>>
  BY NoVlanIsNone DEF GroupKey
<1> QED BY <1>1, <1>2, GoneKeeps

\* Entries of interfaces come and go, groups in use and of members stay.
LEMMA RifFlowsOnly ==
  ASSUME L2Inv, l2Group' \in [GroupKey -> Mode],
         fdb' \in [FdbKey -> Entry],
         \A k \in FdbKey : fdb'[k] \in {fdb[k], TrapEntry, NoEntry},
         UNCHANGED <<asked, l2Ref>>,
         \A h \in GroupKey : InUse(h) /\ l2Group[h] # "none" => l2Group'[h] # "none",
         \A v \in Vlan, q \in Port : l2Group'[<<q, v>>] = l2Group[<<q, v>>]
  PROVE  L2Inv'
<1>1. L2Type'
  BY DEF L2Inv, L2Type
<1>2. TaggedAsAsked'
  BY DEF L2Inv, TaggedAsAsked, TaggingModeOf
<1>3. EntriesSound'
  <2>1. TrapEntry.group = NoGroup /\ ~NoEntry.there
    BY DEF TrapEntry, NoEntry
  <2> QED BY <2>1, UsedGroups DEF L2Inv, EntriesSound
<1>4. (l2Ref \subseteq RifId \X GroupKey)'
  BY UsedGroups DEF L2Inv
<1> QED BY <1>1, <1>2, <1>3, <1>4 DEF L2Inv

LEMMA RifsPlacedStep ==
  ASSUME RifsPlaced, RifNext
  PROVE  RifsPlaced'
<1>1. NoRif \in Interface /\ ~NoRif.valid
  BY RifSizes DEF NoRif, Interface, MtuId
<1>2. ASSUME NEW r \in RifId, NEW place \in Places, NEW mac \in RouterMac,
             NEW v \in VrId, NEW m, NEW i \in MtuId, NEW admin, NEW full,
             CreateRouterInterface(r, place, mac, v, m, i, admin, full)
      PROVE  RifsPlaced'
  <2> DEFINE n == [valid |-> TRUE, type |-> place[1], at |-> place[2],
                   mac |-> IF place[1] = "LOOP" THEN NoMac ELSE mac,
                   vr |-> v, mtu |-> i]
  <2>1. rif' \in {rif, [rif EXCEPT ![r] = n]}
    BY <1>2 DEF CreateRouterInterface
  <2>2. n \in Interface /\ <<n.type, n.at>> = place
    BY RifSizes DEF Interface, Places
  <2> HIDE DEF n
  <2> QED BY <2>1, <2>2 DEF RifsPlaced, PlaceOf
<1>3. ASSUME NEW r \in RifId, RemoveRouterInterface(r)
      PROVE  RifsPlaced'
  <2>1. rif' \in {rif, [rif EXCEPT ![r] = NoRif]}
    BY <1>3 DEF RemoveRouterInterface
  <2> QED BY <1>1, <2>1 DEF RifsPlaced, PlaceOf
<1>4. ASSUME NEW r \in RifId, NEW mac \in RouterMac, NEW own, SetSrcMac(r, mac, own)
      PROVE  RifsPlaced'
  <2>1. rif' \in {rif, [rif EXCEPT ![r].mac = mac]}
    BY <1>4 DEF SetSrcMac
  <2>2. CASE rif' = rif
    BY <2>2 DEF RifsPlaced, PlaceOf
  <2>3. CASE rif' = [rif EXCEPT ![r].mac = mac]
    <3>1. rif' \in [RifId -> Interface]
      BY <2>3 DEF RifsPlaced, Interface
    <3>2. \A s \in RifId : /\ rif'[s].valid = rif[s].valid
                           /\ PlaceOf(s)' = PlaceOf(s)
      BY <2>3 DEF RifsPlaced, Interface, PlaceOf
    <3> QED BY <3>1, <3>2 DEF RifsPlaced
  <2> QED BY <2>1, <2>2, <2>3
<1>5. ASSUME UNCHANGED rif
      PROVE  RifsPlaced'
  BY <1>5 DEF RifsPlaced, PlaceOf
<1>6. ASSUME NEW r, NEW k, UseGroup(r, k)
      PROVE  RifsPlaced'
  BY <1>5, <1>6 DEF UseGroup, rifVars
<1>7. ASSUME NEW u, ReleaseGroup(u[1], u[2])
      PROVE  RifsPlaced'
  BY <1>5, <1>7 DEF ReleaseGroup, rifVars
<1> QED BY <1>2, <1>3, <1>4, <1>6, <1>7 DEF RifNext

LEMMA RifStep ==
  ASSUME L2Inv, RifsPlaced, RifNext
  PROVE  L2Inv'
<1>1. l2Group \in [GroupKey -> Mode] /\ fdb \in [FdbKey -> Entry]
  BY DEF L2Inv, L2Type
<1>2. ASSUME NEW r, NEW place, NEW mac, NEW v, NEW m, NEW i, NEW admin, NEW full,
             CreateRouterInterface(r, place, mac, v, m, i, admin, full)
      PROVE  L2Inv'
  <2>1. /\ \E done : Added(done, place, mac, v)
        /\ l2Group' \in {l2Group, GroupMade(<<place[2], NoVlan>>, "UNTAGGED", TRUE)}
        /\ UNCHANGED <<asked, l2Ref>>
    BY <1>2 DEF CreateRouterInterface
  <2>2. /\ fdb' \in [FdbKey -> Entry]
        /\ \A k \in FdbKey : fdb'[k] \in {fdb[k], TrapEntry, NoEntry}
    BY <2>1, TrapEntries
  <2>3. /\ l2Group' \in [GroupKey -> Mode]
        /\ \A h \in GroupKey : l2Group[h] # "none" => l2Group'[h] # "none"
        /\ \A w \in Vlan, q \in Port : l2Group'[<<q, w>>] = l2Group[<<q, w>>]
    BY <1>1, <2>1, PortGroupSet
  <2> QED BY <2>1, <2>2, <2>3, RifFlowsOnly
<1>3. ASSUME NEW r, RemoveRouterInterface(r)
      PROVE  L2Inv'
  <2>1. /\ \E done : Deleted(done, PlaceOf(r), rif[r].mac)
        /\ l2Group' \in {l2Group, GroupGone(<<PlaceOf(r)[2], NoVlan>>)}
        /\ UNCHANGED <<asked, l2Ref>>
    BY <1>3 DEF RemoveRouterInterface
  <2>2. /\ fdb' \in [FdbKey -> Entry]
        /\ \A k \in FdbKey : fdb'[k] \in {fdb[k], TrapEntry, NoEntry}
    BY <2>1, TrapEntries
  <2>3. /\ l2Group' \in [GroupKey -> Mode]
        /\ \A h \in GroupKey : InUse(h) => l2Group'[h] = l2Group[h]
        /\ \A w \in Vlan, q \in Port : l2Group'[<<q, w>>] = l2Group[<<q, w>>]
    BY <1>1, <2>1, PortGroupGone
  <2> QED BY <2>1, <2>2, <2>3, RifFlowsOnly
<1>4. ASSUME NEW r, NEW mac, NEW own, SetSrcMac(r, mac, own)
      PROVE  L2Inv'
  <2>1. UNCHANGED <<l2Group, fdb, asked, l2Ref>>
    BY <1>4 DEF SetSrcMac
  <2> QED BY <1>1, <2>1, RifFlowsOnly
<1>5. ASSUME NEW r \in RifId, NEW k \in Vlan \X HostMac, UseGroup(r, k)
      PROVE  L2Inv'
  <2> DEFINE g == IF rif[r].type = "PORT" THEN <<rif[r].at, NoVlan>>
                  ELSE fdb[k].group
  <2>1. /\ l2Group[g] # "none" /\ g # NoGroup
        /\ l2Ref' = l2Ref \cup {<<r, g>>}
        /\ UNCHANGED <<l2Group, fdb, asked>>
    BY <1>5 DEF UseGroup
  <2>2. g \in GroupKey
    <3>1. CASE rif[r].type = "PORT"
      <4>1. PlaceOf(r) \in Places /\ PlaceOf(r)[1] = "PORT" /\ PlaceOf(r)[2] = rif[r].at
        BY <1>5, <3>1 DEF UseGroup, RifsPlaced, PlaceOf
      <4>2. rif[r].at \in Port
        BY <4>1, RifSizes DEF Places
      <4> QED BY <3>1, <4>2 DEF GroupKey
    <3>2. CASE rif[r].type # "PORT"
      <4>1. rif[r].type = "VLAN"
        BY <1>5, <3>2 DEF UseGroup, RifsPlaced, Interface
      <4>2. fdb[k].there /\ k \in FdbKey
        BY <1>5, <4>1 DEF UseGroup, FdbKey
      <4> QED BY <2>1, <3>2, <4>2, UsedGroups
    <3> QED BY <3>1, <3>2
  <2> HIDE DEF g
  <2> QED BY <2>1, <2>2 DEF L2Inv, L2Type, TaggedAsAsked, TaggingModeOf,
                            EntriesSound
<1>6. ASSUME NEW u \in l2Ref, ReleaseGroup(u[1], u[2])
      PROVE  L2Inv'
  BY <1>6 DEF ReleaseGroup, L2Inv, L2Type, TaggedAsAsked, TaggingModeOf,
              EntriesSound
<1> QED BY <1>2, <1>3, <1>4, <1>5, <1>6 DEF RifNext

-----------------------------------------------------------------------------
(* Port attributes.                                                        *)

\* Values of the feature bitmap, of what was asked for, and of VLAN flows.
Bits == [speed : Speed, half : BOOLEAN, pause : SUBSET {"PAUSE", "ASYM"}]
Wishes == [speed : Speed, fc : FlowControl, learn : LearnModes, up : BOOLEAN,
           vlan : Vlan \cup {NoVlan}, pcp : Pcp \cup {Ignore}]
FlowEntry == [there : BOOLEAN, vid : Vlan \cup {Ignore}, pcp : Pcp \cup {Ignore}]

PortType ==
  /\ features \in [AttrPort -> Bits]
  /\ learning \in [AttrPort -> HwLearning]
  /\ down \in [AttrPort -> BOOLEAN]
  /\ wanted \in [AttrPort -> Wishes]
  /\ vlanFlow \in [VlanKey -> FlowEntry]

\* What the switch holds for each attribute is what was last accepted.
PortsHold ==
  \A p \in AttrPort :
    LET w == wanted[p] IN
    /\ features[p].speed = w.speed
    /\ features[p].pause = PauseBits(w.fc)
    /\ features[p].half => w.speed \in SlowSpeed
    /\ learning[p] = LearnBits(w.learn)
    /\ DefaultFlow(p).vid = IF w.vlan = NoVlan THEN Ignore ELSE w.vlan
    /\ DefaultFlow(p).pcp \in {w.pcp, Ignore}
    /\ w.up => ~down[p]

PortInv == PortType /\ PortsHold

\* Different modes have different bits, so that reading a mode back from its
\* bits gives the mode.
LEMMA ModesReadBack ==
  /\ \A m, n \in FlowControl : PauseBits(m) = PauseBits(n) => m = n
  /\ \A m, n \in LearnModes : LearnBits(m) = LearnBits(n) => m = n
<1>1. \A m, n \in FlowControl : PauseBits(m) = PauseBits(n) => m = n
  <2>1. /\ PauseBits("DISABLE") = {} /\ PauseBits("TX_ONLY") = {"ASYM"}
        /\ PauseBits("RX_ONLY") = {"PAUSE", "ASYM"}
        /\ PauseBits("BOTH_ENABLE") = {"PAUSE"}
    BY DEF PauseBits
  <2>2. \A m \in FlowControl :
          /\ "PAUSE" \in PauseBits(m) <=> m \in {"RX_ONLY", "BOTH_ENABLE"}
          /\ "ASYM" \in PauseBits(m) <=> m \in {"RX_ONLY", "TX_ONLY"}
    BY <2>1 DEF FlowControl
  <2> QED BY <2>2 DEF FlowControl
<1>2. \A m, n \in LearnModes : LearnBits(m) = LearnBits(n) => m = n
  BY DEF LearnModes, LearnBits
<1> QED BY <1>1, <1>2

LEMMA HoldMeansAsked ==
  ASSUME PortInv
  PROVE  AttributesAsAsked
<1> SUFFICES ASSUME NEW p \in AttrPort
             PROVE  LET w == wanted[p] IN
                    /\ SpeedOf(p) = w.speed /\ FlowControlOf(p) = w.fc
                    /\ features[p].half => w.speed \in SlowSpeed
                    /\ LearnModeOf(p) = w.learn
                    /\ DefaultVlanOf(p) = w.vlan
                    /\ DefaultPriorityOf(p) \in {w.pcp, Ignore}
                    /\ w.up => AdminUp(p)
  BY DEF AttributesAsAsked
<1> DEFINE w == wanted[p]
<1>1. /\ w.fc \in FlowControl /\ w.learn \in LearnModes
      /\ w.vlan \in Vlan \cup {NoVlan}
  BY DEF PortInv, PortType, Bits, Wishes, FlowEntry
<1>2. FlowControlOf(p) = w.fc
  BY <1>1, ModesReadBack DEF PortInv, PortsHold, FlowControlOf
<1>3. LearnModeOf(p) = w.learn
  BY <1>1, ModesReadBack DEF PortInv, PortsHold, LearnModeOf
<1>4. DefaultVlanOf(p) = w.vlan
  BY <1>1, L2Names DEF PortInv, PortsHold, DefaultVlanOf, NoVlan, Ignore
<1> QED BY <1>2, <1>3, <1>4 DEF PortInv, PortsHold, SpeedOf,
                                 DefaultPriorityOf, AdminUp

\* The flow that holds the default VLAN of a port is no member's.
LEMMA DefaultFlowKept ==
  ASSUME PortInv, NEW f, NEW v \in Vlan, NEW q,
         f \in [there : BOOLEAN, vid : Vlan \cup {Ignore}, pcp : Pcp \cup {Ignore}],
         vlanFlow' = [vlanFlow EXCEPT ![<<v, q>>] = f],
         UNCHANGED portVars
  PROVE  PortInv'
<1>1. PortType'
  BY DEF PortInv, PortType, Bits, Wishes, FlowEntry, portVars
<1>2. \A p \in AttrPort : DefaultFlow(p)' = DefaultFlow(p)
  <2> SUFFICES ASSUME NEW p \in AttrPort
               PROVE  vlanFlow'[<<NoVlan, p>>] = vlanFlow[<<NoVlan, p>>]
    BY DEF DefaultFlow
  <2>1. <<NoVlan, p>> \in VlanKey /\ <<NoVlan, p>> # <<v, q>>
    BY NoVlanIsNone, PortValues DEF VlanKey
  <2> QED BY <2>1 DEF PortInv, PortType, Bits, Wishes, FlowEntry
<1>3. PortsHold'
  BY <1>2 DEF PortInv, PortsHold, portVars
<1> QED BY <1>1, <1>3 DEF PortInv

LEMMA PortVlanStep ==
  ASSUME PortInv, VlanNext, UNCHANGED portVars
  PROVE  PortInv'
<1>1. UNCHANGED vlanFlow => PortInv'
  BY DEF PortInv, PortType, Bits, Wishes, FlowEntry, PortsHold, DefaultFlow, portVars
<1>2. ASSUME NEW v \in Vlan, NEW p \in Port, NEW tag \in Tagging,
             CreateVlanMember(v, p, tag)
      PROVE  PortInv'
  <2> DEFINE f == [vlanFlow[<<v, p>>] EXCEPT !.there = TRUE]
  <2>1. vlanFlow' \in {vlanFlow, [vlanFlow EXCEPT ![<<v, p>>].there = TRUE]}
    BY <1>2 DEF CreateVlanMember
  <2>2. <<v, p>> \in VlanKey
    BY DEF VlanKey
  <2>3. [vlanFlow EXCEPT ![<<v, p>>].there = TRUE] = [vlanFlow EXCEPT ![<<v, p>>] = f]
    OBVIOUS
  <2>4. f \in [there : BOOLEAN, vid : Vlan \cup {Ignore}, pcp : Pcp \cup {Ignore}]
    BY <2>2 DEF PortInv, PortType, Bits, Wishes, FlowEntry
  <2> HIDE DEF f
  <2> QED BY <1>1, <2>1, <2>3, <2>4, DefaultFlowKept
<1>3. ASSUME NEW v \in Vlan, NEW p \in Port, RemoveVlanMember(v, p)
      PROVE  PortInv'
  <2>1. NoVlanFlow \in [there : BOOLEAN, vid : Vlan \cup {Ignore},
                        pcp : Pcp \cup {Ignore}]
    BY DEF NoVlanFlow
  <2>2. vlanFlow' = [vlanFlow EXCEPT ![<<v, p>>] = NoVlanFlow]
    BY <1>3 DEF RemoveVlanMember
  <2> QED BY <2>1, <2>2, DefaultFlowKept
<1>4. ASSUME NEW v \in Vlan, NEW p \in Port, NEW tag \in Tagging,
             SetTaggingMode(v, p, tag)
      PROVE  PortInv'
  BY <1>1, <1>4 DEF SetTaggingMode
<1> QED BY <1>2, <1>3, <1>4 DEF VlanNext

\* A wish the client may state replaces the one before.
LEMMA WishUpdate ==
  ASSUME NEW w \in [AttrPort -> Wishes], NEW p \in AttrPort
  PROVE  /\ \A s \in Speed : [w EXCEPT ![p].speed = s] \in [AttrPort -> Wishes]
         /\ \A fc \in FlowControl : [w EXCEPT ![p].fc = fc] \in [AttrPort -> Wishes]
         /\ \A m \in LearnModes : [w EXCEPT ![p].learn = m] \in [AttrPort -> Wishes]
         /\ \A up \in BOOLEAN : [w EXCEPT ![p].up = up] \in [AttrPort -> Wishes]
         /\ \A v \in Vlan : [w EXCEPT ![p].vlan = v] \in [AttrPort -> Wishes]
         /\ \A c \in Pcp : [w EXCEPT ![p].pcp = c] \in [AttrPort -> Wishes]
<1> USE DEF Wishes
<1>1. ASSUME NEW s \in Speed PROVE [w[p] EXCEPT !.speed = s] \in Wishes
  OBVIOUS
<1>2. ASSUME NEW fc \in FlowControl PROVE [w[p] EXCEPT !.fc = fc] \in Wishes
  OBVIOUS
<1>3. ASSUME NEW m \in LearnModes PROVE [w[p] EXCEPT !.learn = m] \in Wishes
  OBVIOUS
<1>4. ASSUME NEW up \in BOOLEAN PROVE [w[p] EXCEPT !.up = up] \in Wishes
  OBVIOUS
<1>5. ASSUME NEW v \in Vlan PROVE [w[p] EXCEPT !.vlan = v] \in Wishes
  OBVIOUS
<1>6. ASSUME NEW c \in Pcp PROVE [w[p] EXCEPT !.pcp = c] \in Wishes
  OBVIOUS
<1> HIDE DEF Wishes
<1>7. ASSUME NEW x \in Wishes PROVE [w EXCEPT ![p] = x] \in [AttrPort -> Wishes]
  OBVIOUS
<1> QED BY <1>1, <1>2, <1>3, <1>4, <1>5, <1>6, <1>7

LEMMA PortStep ==
  ASSUME PortInv, PortNext
  PROVE  PortInv'
<1> SUFFICES ASSUME NEW p \in AttrPort,
                    \/ \E s \in Speed : SetSpeed(p, s)
                    \/ \E fc \in FlowControl : SetFlowControl(p, fc)
                    \/ \E m \in LearnModes : SetLearning(p, m)
                    \/ \E up \in BOOLEAN : SetAdminState(p, up)
                    \/ \E v \in Vlan : SetDefaultVlan(p, v)
                    \/ \E c \in Pcp : SetDefaultPriority(p, c)
             PROVE  PortInv'
  BY DEF PortNext
<1>1. PortType /\ PortsHold
  BY DEF PortInv
<1>2. ASSUME NEW s \in Speed, SetSpeed(p, s)
      PROVE  PortInv'
  <2> DEFINE f == WithSpeed(features[p], s)
  <2>1. /\ f \in Bits
        /\ f.speed = s /\ f.pause = features[p].pause
        /\ f.half => s \in SlowSpeed
    <3>1. features[p] \in Bits
      BY <1>1 DEF PortType
    <3> QED BY <3>1 DEF WithSpeed, Bits
  <2>2. /\ features' = [features EXCEPT ![p] = f]
        /\ wanted' = [wanted EXCEPT ![p].speed = s]
        /\ UNCHANGED <<vlanFlow, learning, down>>
    BY <1>2 DEF SetSpeed, l2Vars
  <2> HIDE DEF f
  <2>3. PortType'
    <3>1. features' \in [AttrPort -> Bits] /\ wanted' \in [AttrPort -> Wishes]
      BY <1>1, <2>1, <2>2, WishUpdate DEF PortType
    <3> QED BY <1>1, <2>2, <3>1 DEF PortType
  <2>4. PortsHold'
    BY <1>1, <2>1, <2>2 DEF PortType, Bits, Wishes, FlowEntry, PortsHold, DefaultFlow
  <2> QED BY <2>3, <2>4 DEF PortInv
<1>3. ASSUME NEW fc \in FlowControl, SetFlowControl(p, fc)
      PROVE  PortInv'
  <2>1. PauseBits(fc) \in SUBSET {"PAUSE", "ASYM"}
    <3>1. PauseBits(fc) \in {{}, {"ASYM"}, {"PAUSE", "ASYM"}, {"PAUSE"}}
      BY DEF PauseBits, FlowControl
    <3> QED BY <3>1
  <2> DEFINE b == PauseBits(fc)
  <2>2. PortType'
    <3>1. /\ features' = [features EXCEPT ![p].pause = b]
          /\ wanted' = [wanted EXCEPT ![p].fc = fc]
          /\ UNCHANGED <<vlanFlow, learning, down>>
      BY <1>3 DEF SetFlowControl, l2Vars
    <3>2. b \in SUBSET {"PAUSE", "ASYM"}
      BY <2>1
    <3> HIDE DEF b
    <3>3. features' \in [AttrPort -> Bits]
      <4>1. features \in [AttrPort -> Bits]
        BY <1>1 DEF PortType
      <4>2. [features[p] EXCEPT !.pause = b] \in Bits
        BY <3>2, <4>1 DEF Bits
      <4> QED BY <3>1, <4>1, <4>2
    <3>4. wanted' \in [AttrPort -> Wishes]
      BY <1>1, <3>1, WishUpdate DEF PortType
    <3> QED BY <1>1, <3>1, <3>3, <3>4 DEF PortType
  <2>3. PortsHold'
    BY <1>1, <1>3 DEF SetFlowControl, PortType, Bits, Wishes, FlowEntry, PortsHold, DefaultFlow, l2Vars
  <2> QED BY <2>2, <2>3 DEF PortInv
<1>4. ASSUME NEW m \in LearnModes, SetLearning(p, m)
      PROVE  PortInv'
  <2>1. LearnBits(m) \in HwLearning
    BY DEF LearnBits, LearnModes, HwLearning
  <2>2. PortType'
    BY <1>1, <1>4, <2>1, WishUpdate DEF PortType, SetLearning, l2Vars
  <2>3. PortsHold'
    BY <1>1, <1>4 DEF SetLearning, PortType, Bits, Wishes, FlowEntry, PortsHold, DefaultFlow, l2Vars
  <2> QED BY <2>2, <2>3 DEF PortInv
<1>5. ASSUME NEW up \in BOOLEAN, SetAdminState(p, up)
      PROVE  PortInv'
  <2>1. PortType'
    BY <1>1, <1>5, WishUpdate DEF PortType, SetAdminState, l2Vars
  <2>2. PortsHold'
    BY <1>1, <1>5 DEF SetAdminState, PortType, Bits, Wishes, FlowEntry, PortsHold, DefaultFlow, l2Vars
  <2> QED BY <2>1, <2>2 DEF PortInv
<1>6. \A q \in AttrPort : <<NoVlan, q>> \in VlanKey
  BY PortValues DEF VlanKey
<1>7. ASSUME NEW v \in Vlan, SetDefaultVlan(p, v)
      PROVE  PortInv'
  <2>1. v # NoVlan
    BY NoVlanIsNone
  <2>2. PortType'
    <3>1. [there |-> TRUE, vid |-> v, pcp |-> Ignore] \in FlowEntry
      BY DEF FlowEntry
    <3>2. wanted' \in [AttrPort -> Wishes]
      BY <1>1, <1>7, WishUpdate DEF PortType, SetDefaultVlan
    <3>3. vlanFlow' \in [VlanKey -> FlowEntry]
      BY <1>1, <1>6, <1>7, <3>1 DEF PortType, SetDefaultVlan
    <3> QED BY <1>1, <1>7, <3>2, <3>3 DEF PortType, SetDefaultVlan
  <2>3. PortsHold'
    BY <1>1, <1>6, <1>7, <2>1 DEF SetDefaultVlan, PortType, Bits, Wishes, FlowEntry, PortsHold, DefaultFlow
  <2> QED BY <2>2, <2>3 DEF PortInv
<1>8. ASSUME NEW c \in Pcp, SetDefaultPriority(p, c)
      PROVE  PortInv'
  <2>1. PortType'
    <3> DEFINE k == <<NoVlan, p>>
    <3>1. /\ vlanFlow' = [vlanFlow EXCEPT ![k].pcp = c]
          /\ wanted' = [wanted EXCEPT ![p].pcp = c]
          /\ UNCHANGED <<features, learning, down>>
      BY <1>8 DEF SetDefaultPriority
    <3>2. k \in VlanKey
      BY <1>6
    <3> HIDE DEF k
    <3>3. vlanFlow \in [VlanKey -> FlowEntry]
      BY <1>1 DEF PortType
    <3>4. [vlanFlow[k] EXCEPT !.pcp = c] \in FlowEntry
      BY <3>2, <3>3 DEF FlowEntry
    <3>5. vlanFlow' \in [VlanKey -> FlowEntry]
      BY <3>1, <3>3, <3>4
    <3>6. wanted' \in [AttrPort -> Wishes]
      BY <1>1, <3>1, WishUpdate DEF PortType
    <3> QED BY <1>1, <3>1, <3>5, <3>6 DEF PortType
  <2>2. PortsHold'
    BY <1>1, <1>6, <1>8 DEF SetDefaultPriority, PortType, Bits, Wishes, FlowEntry, PortsHold, DefaultFlow
  <2> QED BY <2>1, <2>2 DEF PortInv
<1> QED BY <1>2, <1>3, <1>4, <1>5, <1>7, <1>8

-----------------------------------------------------------------------------
(* The composition.                                                        *)

IInv == L2Inv /\ RifsPlaced /\ PortInv

LEMMA InitIInv == Init => IInv
<1> SUFFICES ASSUME Init PROVE IInv
  OBVIOUS
<1>1. L2Inv
  <2>1. L2Type
    BY DEF Init, L2Init, L2Type, Mode, Entry, NoEntry
  <2>2. TaggedAsAsked
    BY DEF Init, L2Init, TaggedAsAsked, VlanKey
  <2>3. EntriesSound /\ l2Ref \subseteq RifId \X GroupKey
    BY DEF Init, L2Init, EntriesSound, NoEntry
  <2> QED BY <2>1, <2>2, <2>3 DEF L2Inv
<1>2. RifsPlaced
  BY RifSizes DEF Init, RifInit, RifsPlaced, NoRif, Interface, MtuId
<1>3. PortInv
  <2>1. PICK s \in Speed, half, off \in BOOLEAN :
          /\ half => s \in SlowSpeed
          /\ features = [p \in AttrPort |-> [speed |-> s, half |-> half, pause |-> {}]]
          /\ learning = [p \in AttrPort |-> "FRWD_NONE"]
          /\ down = [p \in AttrPort |-> off]
          /\ wanted = [p \in AttrPort |->
                         [speed |-> s, fc |-> "DISABLE", learn |-> "DISABLE",
                          up |-> ~off, vlan |-> NoVlan, pcp |-> Ignore]]
    BY DEF Init, PortInit
  <2>2. vlanFlow = [k \in VlanKey |-> NoVlanFlow]
    BY DEF Init, L2Init
  <2>3. PortType
    BY <2>1, <2>2 DEF PortType, Bits, Wishes, FlowEntry, NoVlanFlow, FlowControl, LearnModes, HwLearning
  <2>4. \A p \in AttrPort : DefaultFlow(p) = NoVlanFlow
    BY <2>2, PortValues DEF DefaultFlow, VlanKey
  <2>5. PauseBits("DISABLE") = {} /\ LearnBits("DISABLE") = "FRWD_NONE"
    BY DEF PauseBits, LearnBits
  <2>6. PortsHold
    <3> SUFFICES ASSUME NEW p \in AttrPort
                 PROVE  LET w == wanted[p] IN
                        /\ features[p].speed = w.speed
                        /\ features[p].pause = PauseBits(w.fc)
                        /\ features[p].half => w.speed \in SlowSpeed
                        /\ learning[p] = LearnBits(w.learn)
                        /\ DefaultFlow(p).vid =
                             IF w.vlan = NoVlan THEN Ignore ELSE w.vlan
                        /\ DefaultFlow(p).pcp \in {w.pcp, Ignore}
                        /\ w.up => ~down[p]
      BY DEF PortsHold
    <3>1. /\ features[p] = [speed |-> s, half |-> half, pause |-> {}]
          /\ learning[p] = "FRWD_NONE" /\ down[p] = off
          /\ wanted[p] = [speed |-> s, fc |-> "DISABLE", learn |-> "DISABLE",
                          up |-> ~off, vlan |-> NoVlan, pcp |-> Ignore]
      BY <2>1
    <3>2. DefaultFlow(p).vid = Ignore /\ DefaultFlow(p).pcp = Ignore
      BY <2>4 DEF NoVlanFlow
    <3> QED BY <2>1, <2>5, <3>1, <3>2
  <2> QED BY <2>3, <2>6 DEF PortInv
<1> QED BY <1>1, <1>2, <1>3 DEF IInv

LEMMA NextIInv == IInv /\ [Next]_vars => IInv'
<1> SUFFICES ASSUME IInv, [Next]_vars PROVE IInv'
  OBVIOUS
<1>1. UNCHANGED vlanFlow /\ UNCHANGED portVars => PortInv'
  BY DEF IInv, PortInv, PortType, Bits, Wishes, FlowEntry, PortsHold, DefaultFlow, portVars
<1>2. UNCHANGED rif => RifsPlaced'
  BY DEF IInv, RifsPlaced, PlaceOf
<1>3. UNCHANGED <<l2Group, fdb, asked, l2Ref>> => L2Inv'
  BY DEF IInv, L2Inv, L2Type, TaggedAsAsked, TaggingModeOf, EntriesSound
<1>4. CASE VlanNext /\ UNCHANGED <<portVars, rifVars>>
  BY <1>2, <1>4, VlanStep, PortVlanStep DEF IInv, rifVars
<1>5. CASE FdbNext /\ UNCHANGED <<portVars, rifVars>>
  <2>1. UNCHANGED vlanFlow
    BY <1>5 DEF FdbNext, CreateFdbEntry, RemoveFdbEntry, SetFdbPort,
                SetFdbAction, FlushFdbEntries, Age
  <2> QED BY <1>1, <1>2, <1>5, <2>1, FdbStep DEF IInv, rifVars
<1>6. CASE PortNext /\ UNCHANGED rifVars
  <2>1. UNCHANGED <<l2Group, fdb, asked, l2Ref>>
    BY <1>6 DEF PortNext, SetSpeed, SetFlowControl, SetLearning, SetAdminState,
                SetDefaultVlan, SetDefaultPriority, l2Vars
  <2> QED BY <1>2, <1>3, <1>6, <2>1, PortStep DEF IInv, rifVars
<1>7. CASE RifNext /\ UNCHANGED portVars
  <2>1. UNCHANGED vlanFlow
    <3>1. \A r, place, mac, v, m, i, admin, full :
            CreateRouterInterface(r, place, mac, v, m, i, admin, full) =>
              UNCHANGED vlanFlow
      BY DEF CreateRouterInterface
    <3>2. \A r : RemoveRouterInterface(r) => UNCHANGED vlanFlow
      BY DEF RemoveRouterInterface
    <3>3. \A r, mac, own : SetSrcMac(r, mac, own) => UNCHANGED vlanFlow
      BY DEF SetSrcMac
    <3>4. \A r, k : UseGroup(r, k) \/ ReleaseGroup(r, k) => UNCHANGED vlanFlow
      BY DEF UseGroup, ReleaseGroup
    <3> QED BY <1>7, <3>1, <3>2, <3>3, <3>4 DEF RifNext
  <2> QED BY <1>1, <1>7, <2>1, RifStep, RifsPlacedStep DEF IInv
<1>8. CASE UNCHANGED vars
  BY <1>1, <1>2, <1>3, <1>8 DEF vars, l2Vars, portVars, rifVars, IInv
<1> QED BY <1>4, <1>5, <1>6, <1>7, <1>8 DEF Next

LEMMA InvAlways == Spec => []IInv
BY InitIInv, NextIInv, PTL DEF Spec

\* Packets of a VLAN leave a member's port tagged or not as last asked, for
\* any number of ports, VLANs, entries and interfaces.
THEOREM TaggingKept == Spec => []TaggedAsAsked
<1>1. IInv => TaggedAsAsked
  BY DEF IInv, L2Inv
<1> QED BY <1>1, InvAlways, PTL

\* An entry that forwards does so through a group that is there, of the port
\* that reads back and of its own VLAN.
THEOREM ForwardingInVlan == Spec => []ForwardsInItsVlan
<1>1. ASSUME IInv PROVE ForwardsInItsVlan
  <2> SUFFICES ASSUME NEW k \in FdbKey, fdb[k].there,
                      ActionOf(fdb[k]) \in {"FORWARD", "LOG"}
               PROVE  /\ l2Group[fdb[k].group] # "none"
                      /\ fdb[k].group = <<PortOf(fdb[k]), k[1]>>
    BY DEF ForwardsInItsVlan
  <2>1. ~fdb[k].clear /\ fdb[k].group # NoGroup
    BY DEF ActionOf
  <2>2. fdb[k].group \in Port \X {k[1]} /\ l2Group[fdb[k].group] # "none"
    BY <1>1, <2>1 DEF IInv, L2Inv, EntriesSound
  <2> QED BY <2>1, <2>2 DEF PortOf
<1> QED BY <1>1, InvAlways, PTL

\* Attributes of a port read back as they were last accepted.
THEOREM AttributesKept == Spec => []AttributesAsAsked
<1>1. IInv => AttributesAsAsked
  BY HoldMeansAsked DEF IInv
<1> QED BY <1>1, InvAlways, PTL

-----------------------------------------------------------------------------
(* MTU profiles.                                                           *)

MtuUsers(i) == {r \in UsedRifs : rif[r].mtu = i}

\* The counter of a profile is the number of its interfaces, and those that
\* asked for a size have it.
MtuInv ==
  /\ mtu \in [MtuId -> [size : Mtu \cup {0}, refs : Nat]]
  /\ askedMtu \in [RifId -> Mtu \cup {0}]
  /\ \A i \in MtuId : mtu[i].refs = Cardinality(MtuUsers(i))
  /\ \A r \in UsedRifs : askedMtu[r] # 0 => mtu[rif[r].mtu].size = askedMtu[r]

\* There are at most as many interfaces of a profile as there are slots.
LEMMA UsersCounted ==
  ASSUME NEW S \in SUBSET RifId
  PROVE  IsFiniteSet(S) /\ Cardinality(S) \in 0 .. NumRif
<1>1. IsFiniteSet(RifId) /\ Cardinality(RifId) = NumRif
  BY RifSizes, FS_Interval DEF RifId
<1>2. IsFiniteSet(S) /\ Cardinality(S) <= Cardinality(RifId)
  BY <1>1, FS_Subset
<1> QED BY <1>1, <1>2, FS_CardinalityType

\* A new interface adds one to its profile, and a profile that others have
\* keeps their size.
LEMMA MtuCreated ==
  ASSUME RifsPlaced, MtuInv, NEW r \in RifId, ~rif[r].valid, NEW n,
         n \in Interface, n.valid, NEW m \in Mtu, MtuProfile(n.mtu, m),
         rif' = [rif EXCEPT ![r] = n],
         mtu' = [mtu EXCEPT ![n.mtu] = [size |-> m, refs |-> @.refs + 1]],
         askedMtu' = [askedMtu EXCEPT ![r] = m]
  PROVE  MtuInv'
<1> DEFINE i == n.mtu
<1>1. /\ i \in MtuId /\ rif \in [RifId -> Interface]
      /\ mtu \in [MtuId -> [size : Mtu \cup {0}, refs : Nat]]
      /\ askedMtu \in [RifId -> Mtu \cup {0}]
  BY DEF Interface, RifsPlaced, MtuInv
<1>2. /\ mtu' \in [MtuId -> [size : Mtu \cup {0}, refs : Nat]]
      /\ askedMtu' \in [RifId -> Mtu \cup {0}]
      /\ mtu'[i].size = m /\ mtu'[i].refs = mtu[i].refs + 1
      /\ \A j \in MtuId \ {i} : mtu'[j] = mtu[j]
  BY <1>1
<1>3. /\ MtuUsers(i)' = MtuUsers(i) \cup {r} /\ r \notin MtuUsers(i)
      /\ \A j \in MtuId \ {i} : MtuUsers(j)' = MtuUsers(j)
  BY <1>1 DEF MtuUsers, UsedRifs
<1>4. Cardinality(MtuUsers(i)') = Cardinality(MtuUsers(i)) + 1
  <2>1. IsFiniteSet(MtuUsers(i))
    BY UsersCounted DEF MtuUsers, UsedRifs
  <2> QED BY <1>3, <2>1, FS_AddElement
<1>5. \A j \in MtuId : mtu'[j].refs = Cardinality(MtuUsers(j)')
  <2>1. mtu'[i].refs = Cardinality(MtuUsers(i)')
    BY <1>1, <1>2, <1>4 DEF MtuInv
  <2>2. \A j \in MtuId \ {i} : mtu'[j].refs = Cardinality(MtuUsers(j)')
    BY <1>2, <1>3 DEF MtuInv
  <2> QED BY <2>1, <2>2
<1>6. \A s \in UsedRifs' : askedMtu'[s] # 0 => mtu'[rif'[s].mtu].size = askedMtu'[s]
  <2> SUFFICES ASSUME NEW s \in UsedRifs', askedMtu'[s] # 0
               PROVE  mtu'[rif'[s].mtu].size = askedMtu'[s]
    OBVIOUS
  <2>1. s \in RifId /\ (s # r => s \in UsedRifs /\ rif'[s] = rif[s]
                                 /\ askedMtu'[s] = askedMtu[s])
    BY <1>1 DEF UsedRifs
  <2>2. CASE s = r
    BY <1>1, <1>2, <2>2
  <2>3. CASE s # r
    <3>1. mtu[rif[s].mtu].size = askedMtu[s] /\ rif[s].mtu \in MtuId
      BY <1>1, <2>1, <2>3 DEF MtuInv, Interface
    <3>2. mtu[i].size \in {0, m}
      BY DEF MtuProfile
    <3> QED BY <1>2, <2>1, <2>3, <3>1, <3>2
  <2> QED BY <2>2, <2>3
<1> QED BY <1>2, <1>5, <1>6 DEF MtuInv

\* An interface that goes takes one from its profile, and the size only when
\* nobody else has it.
LEMMA MtuRemoved ==
  ASSUME RifsPlaced, MtuInv, NEW r \in RifId, rif[r].valid,
         rif' = [rif EXCEPT ![r] = NoRif],
         mtu' = MtuReleased(rif[r].mtu),
         askedMtu' = [askedMtu EXCEPT ![r] = 0]
  PROVE  MtuInv'
<1> PICK i : i = rif[r].mtu
  OBVIOUS
<1>1. /\ i \in MtuId /\ rif \in [RifId -> Interface] /\ ~NoRif.valid
      /\ mtu \in [MtuId -> [size : Mtu \cup {0}, refs : Nat]]
      /\ askedMtu \in [RifId -> Mtu \cup {0}]
  BY DEF Interface, RifsPlaced, MtuInv, NoRif
<1>2. /\ MtuUsers(i)' = MtuUsers(i) \ {r} /\ r \in MtuUsers(i)
      /\ \A j \in MtuId \ {i} : MtuUsers(j)' = MtuUsers(j)
  BY <1>1 DEF MtuUsers, UsedRifs
<1>3. /\ IsFiniteSet(MtuUsers(i)) /\ IsFiniteSet(MtuUsers(i)')
      /\ Cardinality(MtuUsers(i)') = Cardinality(MtuUsers(i)) - 1
      /\ Cardinality(MtuUsers(i)') \in Nat
  <2>1. IsFiniteSet(MtuUsers(i))
    BY UsersCounted DEF MtuUsers, UsedRifs
  <2>2. IsFiniteSet(MtuUsers(i)') /\ Cardinality(MtuUsers(i)') = Cardinality(MtuUsers(i)) - 1
    BY <1>2, <2>1, FS_RemoveElement
  <2> QED BY <2>1, <2>2, FS_CardinalityType
<1>4. mtu[i].refs = Cardinality(MtuUsers(i))
  BY <1>1 DEF MtuInv
<1>5. /\ mtu'[i].refs = mtu[i].refs - 1
      /\ mtu'[i].size = IF mtu[i].refs = 1 THEN 0 ELSE mtu[i].size
      /\ \A j \in MtuId \ {i} : mtu'[j] = mtu[j]
  BY <1>1 DEF MtuReleased
<1>6. /\ mtu' \in [MtuId -> [size : Mtu \cup {0}, refs : Nat]]
      /\ askedMtu' \in [RifId -> Mtu \cup {0}]
  <2> DEFINE p == [size |-> IF mtu[i].refs = 1 THEN 0 ELSE mtu[i].size,
                   refs |-> mtu[i].refs - 1]
  <2>1. p \in [size : Mtu \cup {0}, refs : Nat]
    BY <1>1, <1>3, <1>4
  <2>2. mtu' = [mtu EXCEPT ![i] = p]
    BY <1>1 DEF MtuReleased
  <2> HIDE DEF p
  <2> QED BY <1>1, <2>1, <2>2
<1>7. \A j \in MtuId : mtu'[j].refs = Cardinality(MtuUsers(j)')
  <2>1. mtu'[i].refs = Cardinality(MtuUsers(i)')
    BY <1>3, <1>4, <1>5
  <2>2. \A j \in MtuId \ {i} : mtu'[j].refs = Cardinality(MtuUsers(j)')
    BY <1>2, <1>5 DEF MtuInv
  <2> QED BY <2>1, <2>2
<1>8. \A s \in UsedRifs' : askedMtu'[s] # 0 => mtu'[rif'[s].mtu].size = askedMtu'[s]
  <2> SUFFICES ASSUME NEW s \in UsedRifs', askedMtu'[s] # 0
               PROVE  mtu'[rif'[s].mtu].size = askedMtu'[s]
    OBVIOUS
  <2>1. /\ s \in RifId /\ s # r /\ s \in UsedRifs /\ rif'[s] = rif[s]
        /\ askedMtu'[s] = askedMtu[s]
    BY <1>1 DEF UsedRifs
  <2>2. mtu[rif[s].mtu].size = askedMtu[s] /\ rif[s].mtu \in MtuId
    BY <1>1, <2>1 DEF MtuInv, Interface
  <2>3. CASE rif[s].mtu # i
    BY <1>5, <2>1, <2>2, <2>3
  <2>4. CASE rif[s].mtu = i
    <3>1. s \in MtuUsers(i)'
      BY <2>1, <2>4, <1>2 DEF MtuUsers
    <3>2. MtuUsers(i)' # {}
      BY <3>1
    <3>3. Cardinality(MtuUsers(i)') # 0
      BY <1>3, <3>2, FS_EmptySet
    <3> QED BY <1>3, <1>4, <1>5, <2>1, <2>2, <2>4, <3>3
  <2> QED BY <2>3, <2>4
<1> QED BY <1>6, <1>7, <1>8 DEF MtuInv

\* No other call on interfaces touches profiles.
LEMMA MtuStep ==
  ASSUME RifsPlaced, MtuInv, RifNext
  PROVE  MtuInv'
<1>1. ASSUME UNCHANGED <<mtu, askedMtu>>, UsedRifs' = UsedRifs,
             \A r \in RifId : rif'[r].mtu = rif[r].mtu
      PROVE  MtuInv'
  <2>1. \A i : MtuUsers(i)' = MtuUsers(i)
    BY <1>1 DEF MtuUsers, UsedRifs
  <2> QED BY <1>1, <2>1 DEF MtuInv, UsedRifs
<1>2. UNCHANGED <<rif, mtu, askedMtu>> => MtuInv'
  BY <1>1 DEF UsedRifs
<1>3. ASSUME NEW r \in RifId, NEW place \in Places, NEW mac \in RouterMac,
             NEW v \in VrId, NEW m \in Mtu, NEW i \in MtuId, NEW admin, NEW full,
             CreateRouterInterface(r, place, mac, v, m, i, admin, full)
      PROVE  MtuInv'
  <2> DEFINE n == [valid |-> TRUE, type |-> place[1], at |-> place[2],
                   mac |-> IF place[1] = "LOOP" THEN NoMac ELSE mac,
                   vr |-> v, mtu |-> i]
  <2>1. /\ ~rif[r].valid /\ MtuProfile(i, m)
        /\ \/ UNCHANGED <<rif, mtu, askedMtu>>
           \/ /\ rif' = [rif EXCEPT ![r] = n]
              /\ mtu' = [mtu EXCEPT ![i] = [size |-> m, refs |-> @.refs + 1]]
              /\ askedMtu' = [askedMtu EXCEPT ![r] = m]
    BY <1>3 DEF CreateRouterInterface, FreeSlot
  <2>2. n \in Interface /\ n.valid /\ n.mtu = i
    BY RifSizes DEF Interface, Places
  <2> HIDE DEF n
  <2> QED BY <1>2, <2>1, <2>2, MtuCreated
<1>4. ASSUME NEW r \in RifId, RemoveRouterInterface(r)
      PROVE  MtuInv'
  <2>1. /\ rif[r].valid
        /\ \/ UNCHANGED <<rif, mtu, askedMtu>>
           \/ /\ rif' = [rif EXCEPT ![r] = NoRif]
              /\ mtu' = MtuReleased(rif[r].mtu)
              /\ askedMtu' = [askedMtu EXCEPT ![r] = 0]
    BY <1>4 DEF RemoveRouterInterface
  <2> QED BY <1>2, <2>1, MtuRemoved
<1>5. ASSUME NEW r \in RifId, NEW mac \in RouterMac, NEW own, SetSrcMac(r, mac, own)
      PROVE  MtuInv'
  <2>1. /\ rif' \in {rif, [rif EXCEPT ![r].mac = mac]}
        /\ UNCHANGED <<mtu, askedMtu>>
    BY <1>5 DEF SetSrcMac
  <2>2. /\ UsedRifs' = UsedRifs
        /\ \A s \in RifId : rif'[s].mtu = rif[s].mtu
    BY <2>1 DEF RifsPlaced, Interface, UsedRifs
  <2> QED BY <1>1, <2>1, <2>2
<1>6. ASSUME NEW r, NEW k, UseGroup(r, k)
      PROVE  MtuInv'
  BY <1>2, <1>6 DEF UseGroup, rifVars
<1>7. ASSUME NEW u, ReleaseGroup(u[1], u[2])
      PROVE  MtuInv'
  BY <1>2, <1>7 DEF ReleaseGroup, rifVars
<1> QED BY <1>3, <1>4, <1>5, <1>6, <1>7 DEF RifNext

-----------------------------------------------------------------------------
(* The flows of interfaces.                                                *)

\* A slot that is not in use is clear, and one that is names a virtual
\* router and, but for a loopback, an address of the router.
SlotsSound ==
  \A r \in RifId :
    /\ ~rif[r].valid => rif[r] = NoRif
    /\ rif[r].valid => rif[r].vr \in VrId
    /\ r \in L3Rifs => rif[r].mac \in RouterMac

FlowType ==
  /\ odd \in 0 .. MaxOdd
  /\ termination \subseteq Places \X RouterMac \X {V4, V6} \X BOOLEAN
  /\ vrFlow \subseteq Places \X VrId
  /\ arpFlow \subseteq Places
  /\ beside \subseteq RifId

\* The interfaces that have all their flows.
Whole == L3Rifs \ beside

OnePerPlace == \A r, s \in L3Rifs : PlaceOf(r) = PlaceOf(s) => r = s

TerminationsOwn ==
  \A t \in termination : \E s \in L3Rifs, i \in {V4, V6} :
    t = <<PlaceOf(s), rif[s].mac, i, TRUE>>
TerminationsThere ==
  \A s \in Whole, i \in {V4, V6} : <<PlaceOf(s), rif[s].mac, i, TRUE>> \in termination

VrFlowsOwn   == \A f \in vrFlow : \E s \in L3Rifs : f = <<PlaceOf(s), rif[s].vr>>
VrFlowsThere == \A s \in Whole : <<PlaceOf(s), rif[s].vr>> \in vrFlow

ArpFlowsSame == arpFlow = {PlaceOf(s) : s \in Whole}
TrapsSame ==
  {k \in FdbKey \ HostKey : fdb[k].there} =
    {TrapKey(PlaceOf(s), rif[s].mac) : s \in Whole}

\* FlowsFollowInterfaces, for a client that keeps to one interface per place.
FlowsOf ==
  /\ OnePerPlace
  /\ TerminationsOwn /\ TerminationsThere
  /\ VrFlowsOwn /\ VrFlowsThere
  /\ ArpFlowsSame /\ TrapsSame
  /\ \A s \in beside : s \in L3Rifs /\ rif[s].type = "VLAN"

FlowInv == SlotsSound /\ FlowType /\ (odd = 0 => FlowsOf)

\* The entry that traps what is sent to an interface is of one place and
\* one address, and none a client can write.
LEMMA TrapKeys ==
  ASSUME NEW p \in Places, NEW a \in RouterMac, p[1] # "LOOP"
  PROVE  /\ TrapKey(p, a) \in FdbKey \ HostKey
         /\ \A q \in Places : \A b \in RouterMac :
              q[1] # "LOOP" /\ TrapKey(p, a) = TrapKey(q, b) => p = q /\ a = b
<1>1. \A q \in Places : q[1] # "LOOP" =>
        \/ q[1] = "VLAN" /\ q[2] \in Vlan
        \/ q[1] = "PORT" /\ q[2] \in Port
  BY RifSizes DEF Places
<1>2. \A q \in Places : q = <<q[1], q[2]>>
  BY DEF Places
<1>3. \A v \in Vlan : v \in 1 .. 4094
  BY L2Names
<1>4. \A n \in Port : n \in Nat /\ Reserved(n) \notin Vlan
  BY L2Names, <1>3 DEF Reserved
<1>5. TrapKey(p, a) \in FdbKey \ HostKey
  <2>1. CASE p[1] = "VLAN"
    BY <1>1, <2>1, L2Names DEF TrapKey, FdbKey, HostKey
  <2>2. CASE p[1] # "VLAN"
    <3>1. p[2] \in Port /\ TrapKey(p, a) = <<Reserved(p[2]), a>>
      BY <1>1, <2>2 DEF TrapKey
    <3>2. Reserved(p[2]) \in {Reserved(n) : n \in Port} /\ Reserved(p[2]) \notin Vlan
      BY <1>4, <3>1
    <3> QED BY <3>1, <3>2 DEF FdbKey, HostKey
  <2> QED BY <2>1, <2>2
<1>6. ASSUME NEW q \in Places, NEW b \in RouterMac, q[1] # "LOOP",
             TrapKey(p, a) = TrapKey(q, b)
      PROVE  p = q /\ a = b
  <2>1. a = b
    BY <1>6 DEF TrapKey
  <2>2. p[1] = q[1] /\ p[2] = q[2]
    BY <1>1, <1>4, <1>6 DEF TrapKey, Reserved
  <2> QED BY <1>2, <2>1, <2>2
<1> QED BY <1>5, <1>6

\* What it takes for the flows of an interface to be there.
LEMMA FlowsThere ==
  ASSUME NEW p, NEW a
  PROVE  /\ There(p, a, V4) <=> HasTermination(p, a, V4)
         /\ There(p, a, V6) <=> HasTermination(p, a, V6)
         /\ There(p, a, VR) <=> \E v \in VrId : <<p, v>> \in vrFlow
         /\ There(p, a, ARP) <=> p \in arpFlow
         /\ fdb[TrapKey(p, a)].there => There(p, a, FDB)
<1>1. /\ VR \notin {V4, V6} /\ ARP \notin {V4, V6, VR} /\ FDB \notin {V4, V6, VR, ARP}
      /\ V4 \notin {VR, ARP, FDB} /\ V6 \notin {VR, ARP, FDB}
      /\ VR \notin {ARP, FDB} /\ ARP # FDB
  BY DEF V4, V6, VR, ARP, FDB
<1> QED BY <1>1, Zenon DEF There

\* What a new interface r of a place makes of the flows there are.
OwnAdded(r, n, place, done) ==
  /\ L3Rifs' = L3Rifs \cup {r} /\ r \notin L3Rifs
  /\ rif'[r] = n /\ PlaceOf(r)' = place
  /\ \A s \in L3Rifs : rif'[s] = rif[s] /\ PlaceOf(s)' = PlaceOf(s)
  /\ \A s \in L3Rifs : PlaceOf(s) # place
  /\ OnePerPlace' /\ TerminationsOwn' /\ VrFlowsOwn'
  /\ \A s \in Whole, i \in {V4, V6} :
       <<PlaceOf(s)', rif'[s].mac, i, TRUE>> \in termination'
  /\ \A i \in {V4, V6} : <<PlaceOf(r)', rif'[r].mac, i, TRUE>> \in termination'
  /\ \A s \in Whole : <<PlaceOf(s)', rif'[s].vr>> \in vrFlow'
  /\ VR \in done => <<PlaceOf(r)', rif'[r].vr>> \in vrFlow'

\* An interface of a place where there is none gets flows of its own, and
\* those of the others stay.
LEMMA OwnFlowsAdded ==
  ASSUME RifsPlaced, FlowsOf,
         NEW r \in RifId, ~rif[r].valid, NEW n \in Interface, n.valid,
         NEW place \in Places, place = <<n.type, n.at>>, n.type # "LOOP",
         Sharing(r, place) = {}, rif' = [rif EXCEPT ![r] = n],
         NEW done, {V4, V6} \subseteq done, Added(done, place, n.mac, n.vr)
  PROVE  OwnAdded(r, n, place, done)
<1>1. rif \in [RifId -> Interface]
  BY DEF RifsPlaced
<1>2. /\ L3Rifs' = L3Rifs \cup {r} /\ r \notin L3Rifs
      /\ rif'[r] = n /\ PlaceOf(r)' = place
      /\ \A s \in L3Rifs : rif'[s] = rif[s] /\ PlaceOf(s)' = PlaceOf(s)
  BY <1>1 DEF L3Rifs, UsedRifs, PlaceOf
<1>3. \A s \in L3Rifs : PlaceOf(s) # place
  BY DEF Sharing, L3Rifs, UsedRifs
<1>4. OnePerPlace'
  <2> SUFFICES ASSUME NEW s \in L3Rifs', NEW t \in L3Rifs', (PlaceOf(s) = PlaceOf(t))'
               PROVE  s = t
    BY DEF OnePerPlace
  <2> QED BY <1>2, <1>3 DEF FlowsOf, OnePerPlace
<1>5. /\ termination \subseteq termination'
      /\ \A i \in {V4, V6} : <<place, n.mac, i, TRUE>> \in termination'
      /\ \A t \in termination' \ termination : \E i \in {V4, V6} : t = <<place, n.mac, i, TRUE>>
  <2>1. termination' = termination \cup {<<place, n.mac, i, TRUE>> : i \in {V4, V6}}
    <3>1. done \cap {V4, V6} = {V4, V6}
      OBVIOUS
    <3> QED BY <3>1 DEF Added
  <2> QED BY <2>1, Zenon
<1>6. TerminationsOwn'
  <2> SUFFICES ASSUME NEW t \in termination'
               PROVE  \E s \in L3Rifs', i \in {V4, V6} :
                        t = <<PlaceOf(s)', rif'[s].mac, i, TRUE>>
    BY DEF TerminationsOwn
  <2>1. CASE t \in termination
    <3>1. PICK s \in L3Rifs, i \in {V4, V6} : t = <<PlaceOf(s), rif[s].mac, i, TRUE>>
      BY <2>1 DEF FlowsOf, TerminationsOwn
    <3>2. s \in L3Rifs' /\ PlaceOf(s)' = PlaceOf(s) /\ rif'[s].mac = rif[s].mac
      BY <1>2
    <3> QED BY <3>1, <3>2
  <2>2. CASE t \notin termination
    <3>1. PICK i \in {V4, V6} : t = <<place, n.mac, i, TRUE>>
      BY <1>5, <2>2
    <3>2. r \in L3Rifs' /\ PlaceOf(r)' = place /\ rif'[r].mac = n.mac
      BY <1>2
    <3> QED BY <3>1, <3>2
  <2> QED BY <2>1, <2>2
<1>7. ASSUME NEW s \in Whole, NEW i \in {V4, V6}
      PROVE  <<PlaceOf(s)', rif'[s].mac, i, TRUE>> \in termination'
  <2>1. PlaceOf(s)' = PlaceOf(s) /\ rif'[s] = rif[s]
    BY <1>2 DEF Whole
  <2>2. <<PlaceOf(s), rif[s].mac, i, TRUE>> \in termination
    BY DEF FlowsOf, TerminationsThere
  <2> QED BY <1>5, <2>1, <2>2
<1>8. \A i \in {V4, V6} : <<PlaceOf(r)', rif'[r].mac, i, TRUE>> \in termination'
  BY <1>2, <1>5
<1>9. /\ vrFlow' = IF VR \in done /\ ~There(place, n.mac, VR)
                   THEN vrFlow \cup {<<place, n.vr>>} ELSE vrFlow
      /\ ~There(place, n.mac, VR)
  <2>1. \A w \in VrId : <<place, w>> \notin vrFlow
    <3> SUFFICES ASSUME NEW w \in VrId, <<place, w>> \in vrFlow PROVE FALSE
      OBVIOUS
    <3>1. PICK s \in L3Rifs : <<place, w>> = <<PlaceOf(s), rif[s].vr>>
      BY DEF FlowsOf, VrFlowsOwn
    <3> QED BY <1>3, <3>1
  <2>2. ~There(place, n.mac, VR)
    BY <2>1, FlowsThere
  <2> QED BY <2>2 DEF Added
<1>10. VrFlowsOwn'
  <2> SUFFICES ASSUME NEW f \in vrFlow'
               PROVE  \E s \in L3Rifs' : f = <<PlaceOf(s)', rif'[s].vr>>
    BY DEF VrFlowsOwn
  <2>1. CASE f \in vrFlow
    <3>1. PICK s \in L3Rifs : f = <<PlaceOf(s), rif[s].vr>>
      BY <2>1 DEF FlowsOf, VrFlowsOwn
    <3> QED BY <1>2, <3>1
  <2>2. CASE f \notin vrFlow
    <3>1. f = <<place, n.vr>>
      BY <1>9, <2>2
    <3> QED BY <1>2, <3>1
  <2> QED BY <2>1, <2>2
<1>11. ASSUME NEW s \in Whole
       PROVE  <<PlaceOf(s)', rif'[s].vr>> \in vrFlow'
  <2>1. PlaceOf(s)' = PlaceOf(s) /\ rif'[s] = rif[s]
    BY <1>2 DEF Whole
  <2>2. <<PlaceOf(s), rif[s].vr>> \in vrFlow
    BY DEF FlowsOf, VrFlowsThere
  <2> QED BY <1>9, <2>1, <2>2
<1>12. VR \in done => <<PlaceOf(r)', rif'[r].vr>> \in vrFlow'
  BY <1>2, <1>9
<1> QED BY <1>2, <1>3, <1>4, <1>6, <1>7, <1>8, <1>10, <1>11, <1>12 DEF OwnAdded

\* It gets all five when no interface is taken for another of its place.
LEMMA InterfaceAdded ==
  ASSUME RifsPlaced, FlowInv, FlowsOf, fdb \in [FdbKey -> Entry],
         NEW r \in RifId, ~rif[r].valid, NEW n \in Interface, n.valid,
         NEW place \in Places, place = <<n.type, n.at>>, n.type # "LOOP",
         n.mac \in RouterMac, Sharing(r, place) = {},
         rif' = [rif EXCEPT ![r] = n], UNCHANGED beside,
         Added(Steps, place, n.mac, n.vr)
  PROVE  FlowsOf'
<1>1. {V4, V6, VR, ARP, FDB} = Steps
  BY DEF V4, V6, VR, ARP, FDB, Steps
<1>2. /\ L3Rifs' = L3Rifs \cup {r} /\ r \notin L3Rifs
      /\ rif'[r] = n /\ PlaceOf(r)' = place
      /\ \A s \in L3Rifs : rif'[s] = rif[s] /\ PlaceOf(s)' = PlaceOf(s)
      /\ \A s \in L3Rifs : PlaceOf(s) # place
      /\ OnePerPlace' /\ TerminationsOwn' /\ VrFlowsOwn'
      /\ \A s \in Whole, i \in {V4, V6} :
           <<PlaceOf(s)', rif'[s].mac, i, TRUE>> \in termination'
      /\ \A i \in {V4, V6} : <<PlaceOf(r)', rif'[r].mac, i, TRUE>> \in termination'
      /\ \A s \in Whole : <<PlaceOf(s)', rif'[s].vr>> \in vrFlow'
      /\ VR \in Steps => <<PlaceOf(r)', rif'[r].vr>> \in vrFlow'
  <2>1. {V4, V6} \subseteq Steps
    BY <1>1
  <2>2. OwnAdded(r, n, place, Steps)
    BY <2>1, OwnFlowsAdded
  <2> QED BY <2>2 DEF OwnAdded
<1>3. Whole' = Whole \cup {r} /\ r \notin Whole /\ Whole \subseteq L3Rifs
  BY <1>2 DEF Whole, FlowsOf
<1>4. TerminationsThere' /\ VrFlowsThere'
  <2>1. VR \in Steps
    BY <1>1
  <2>2. TerminationsThere'
    BY <1>2, <1>3 DEF TerminationsThere
  <2> QED BY <1>2, <1>3, <2>1, <2>2 DEF VrFlowsThere
<1>5. ArpFlowsSame'
  <2>1. arpFlow' = arpFlow \cup {place}
    BY <1>1 DEF Added
  <2>2. arpFlow' = {PlaceOf(s)' : s \in Whole'}
    BY <1>2, <1>3, <2>1 DEF FlowsOf, ArpFlowsSame
  <2> QED BY <2>2 DEF ArpFlowsSame
<1>6. TrapsSame'
  <2> PICK key : key = TrapKey(place, n.mac)
    OBVIOUS
  <2>1. key \in FdbKey \ HostKey
    BY TrapKeys
  <2>2. fdb' = IF fdb[key].there THEN fdb ELSE [fdb EXCEPT ![key] = TrapEntry]
    BY <1>1 DEF Added, PutTrap
  <2>3. {k \in FdbKey \ HostKey : fdb'[k].there} =
          {k \in FdbKey \ HostKey : fdb[k].there} \cup {key}
    BY <2>1, <2>2 DEF TrapEntry, NoEntry
  <2>4. \A s \in Whole : TrapKey(PlaceOf(s)', rif'[s].mac) = TrapKey(PlaceOf(s), rif[s].mac)
    BY <1>2, <1>3
  <2>5. TrapKey(PlaceOf(r)', rif'[r].mac) = key
    BY <1>2
  <2>6. {k \in FdbKey \ HostKey : fdb'[k].there} =
          {TrapKey(PlaceOf(s)', rif'[s].mac) : s \in Whole'}
    BY <1>3, <2>3, <2>4, <2>5 DEF FlowsOf, TrapsSame
  <2> QED BY <2>6 DEF TrapsSame, TrapKey, Reserved
<1>7. \A s \in beside' : s \in L3Rifs' /\ rif'[s].type = "VLAN"
  BY <1>2 DEF FlowsOf
<1> QED BY <1>2, <1>4, <1>5, <1>6, <1>7 DEF FlowsOf

\* One that is made beside another's goes without what they would share.
LEMMA BesideAdded ==
  ASSUME RifsPlaced, FlowInv, FlowsOf,
         NEW r \in RifId, ~rif[r].valid, NEW n \in Interface, n.valid,
         NEW place \in Places, place = <<n.type, n.at>>, n.type = "VLAN",
         Sharing(r, place) = {},
         rif' = [rif EXCEPT ![r] = n], beside' = beside \cup {r},
         NEW done, {V4, V6} \subseteq done, done \subseteq {V4, V6, VR},
         Added(done, place, n.mac, n.vr)
  PROVE  FlowsOf'
<1>1. /\ L3Rifs' = L3Rifs \cup {r} /\ r \notin L3Rifs
      /\ rif'[r] = n /\ PlaceOf(r)' = place
      /\ \A s \in L3Rifs : rif'[s] = rif[s] /\ PlaceOf(s)' = PlaceOf(s)
      /\ OnePerPlace' /\ TerminationsOwn' /\ VrFlowsOwn'
      /\ \A s \in Whole, i \in {V4, V6} :
           <<PlaceOf(s)', rif'[s].mac, i, TRUE>> \in termination'
      /\ \A s \in Whole : <<PlaceOf(s)', rif'[s].vr>> \in vrFlow'
  <2>1. OwnAdded(r, n, place, done)
    BY OwnFlowsAdded
  <2> QED BY <2>1 DEF OwnAdded
<1>2. Whole' = Whole /\ Whole \subseteq L3Rifs
  BY <1>1 DEF Whole
<1>3. TerminationsThere' /\ VrFlowsThere'
  BY <1>1, <1>2 DEF TerminationsThere, VrFlowsThere
<1>4. UNCHANGED <<arpFlow, fdb>>
  <2>1. ARP \notin done /\ FDB \notin done
    BY DEF V4, V6, VR, ARP, FDB
  <2> QED BY <2>1 DEF Added
<1>5. ArpFlowsSame'
  <2>1. arpFlow' = {PlaceOf(s)' : s \in Whole'}
    BY <1>1, <1>2, <1>4 DEF FlowsOf, ArpFlowsSame
  <2> QED BY <2>1 DEF ArpFlowsSame
<1>6. TrapsSame'
  <2>1. {TrapKey(PlaceOf(s)', rif'[s].mac) : s \in Whole'}
          = {TrapKey(PlaceOf(s), rif[s].mac) : s \in Whole}
    BY <1>1, <1>2
  <2> QED BY <1>4, <2>1 DEF FlowsOf, TrapsSame, TrapKey, Reserved
<1>7. \A s \in beside' : s \in L3Rifs' /\ rif'[s].type = "VLAN"
  BY <1>1 DEF FlowsOf
<1> QED BY <1>1, <1>3, <1>5, <1>6, <1>7 DEF FlowsOf

\* In the words of the property.
LEMMA FlowsOfMeans ==
  ASSUME FlowsOf
  PROVE  FlowsFollowInterfaces
<1>1. TerminationsOf(Whole) \subseteq termination
  <2> SUFFICES ASSUME NEW t \in TerminationsOf(Whole) PROVE t \in termination
    OBVIOUS
  <2>1. PICK s \in Whole : t \in {<<PlaceOf(s), rif[s].mac, i, TRUE>> : i \in {V4, V6}}
    BY Zenon DEF TerminationsOf
  <2> QED BY <2>1 DEF FlowsOf, TerminationsThere
<1>2. termination \subseteq TerminationsOf(L3Rifs)
  <2> SUFFICES ASSUME NEW t \in termination PROVE t \in TerminationsOf(L3Rifs)
    OBVIOUS
  <2>1. PICK s \in L3Rifs, i \in {V4, V6} : t = <<PlaceOf(s), rif[s].mac, i, TRUE>>
    BY DEF FlowsOf, TerminationsOwn
  <2>2. t \in {<<PlaceOf(s), rif[s].mac, j, TRUE>> : j \in {V4, V6}}
    BY <2>1
  <2> QED BY <2>2 DEF TerminationsOf
<1>3. VrFlowsOf(Whole) \subseteq vrFlow /\ vrFlow \subseteq VrFlowsOf(L3Rifs)
  BY DEF FlowsOf, VrFlowsThere, VrFlowsOwn, VrFlowsOf
<1> QED BY <1>1, <1>2, <1>3 DEF FlowsOf, FlowsFollowInterfaces, Whole,
           ArpFlowsSame, TrapsSame

\* What is deleted for an interface is its own: the others keep all of theirs.
LEMMA OwnFlowsDeleted ==
  ASSUME FlowsOf, NEW r \in L3Rifs, NEW done, NEW a, Deleted(done, PlaceOf(r), a)
  PROVE  /\ \A s \in L3Rifs : s # r => PlaceOf(s) # PlaceOf(r)
         /\ termination' \subseteq termination /\ vrFlow' \subseteq vrFlow
         /\ \A s \in Whole \ {r}, i \in {V4, V6} :
              <<PlaceOf(s), rif[s].mac, i, TRUE>> \in termination'
         /\ \A s \in Whole \ {r} : <<PlaceOf(s), rif[s].vr>> \in vrFlow'
<1> DEFINE p == PlaceOf(r)
<1>1. \A s \in L3Rifs : s # r => PlaceOf(s) # p
  BY DEF FlowsOf, OnePerPlace
<1>2. /\ termination' = {t \in termination : ~(t[1] = p /\ t[2] = a /\ t[3] \in done)}
      /\ vrFlow' = IF VR \in done THEN {f \in vrFlow : f[1] # p} ELSE vrFlow
  BY DEF Deleted
<1>3. ASSUME NEW s \in Whole \ {r}, NEW i \in {V4, V6}
      PROVE  <<PlaceOf(s), rif[s].mac, i, TRUE>> \in termination'
  <2>1. <<PlaceOf(s), rif[s].mac, i, TRUE>> \in termination
    BY DEF FlowsOf, TerminationsThere
  <2>2. PlaceOf(s) # p
    BY <1>1 DEF Whole
  <2> QED BY <1>2, <2>1, <2>2
<1>4. ASSUME NEW s \in Whole \ {r}
      PROVE  <<PlaceOf(s), rif[s].vr>> \in vrFlow'
  <2>1. <<PlaceOf(s), rif[s].vr>> \in vrFlow
    BY DEF FlowsOf, VrFlowsThere
  <2>2. PlaceOf(s) # p
    BY <1>1 DEF Whole
  <2> QED BY <1>2, <2>1, <2>2
<1>5. termination' \subseteq termination /\ vrFlow' \subseteq vrFlow
  BY <1>2
<1> QED BY <1>1, <1>3, <1>4, <1>5

\* An interface that has all its flows takes them with it.
LEMMA InterfaceRemoved ==
  ASSUME RifsPlaced, SlotsSound, FlowsOf, fdb \in [FdbKey -> Entry],
         NEW r \in Whole, rif' = [rif EXCEPT ![r] = NoRif],
         beside' = beside \ {r},
         NEW p, p = PlaceOf(r), NEW a, a = rif[r].mac,
         Deleted(Steps, p, a)
  PROVE  FlowsOf'
<1>1. rif \in [RifId -> Interface] /\ r \in RifId /\ r \in L3Rifs /\ r \notin beside
  BY DEF RifsPlaced, L3Rifs, UsedRifs, Whole
<1>2. /\ L3Rifs' = L3Rifs \ {r}
      /\ \A s \in L3Rifs' : rif'[s] = rif[s] /\ PlaceOf(s)' = PlaceOf(s)
  BY <1>1 DEF L3Rifs, UsedRifs, PlaceOf, NoRif
<1>3. /\ \A s \in L3Rifs : s # r => PlaceOf(s) # p
      /\ termination' \subseteq termination /\ vrFlow' \subseteq vrFlow
      /\ \A s \in Whole \ {r}, i \in {V4, V6} :
           <<PlaceOf(s), rif[s].mac, i, TRUE>> \in termination'
      /\ \A s \in Whole \ {r} : <<PlaceOf(s), rif[s].vr>> \in vrFlow'
  BY <1>1, OwnFlowsDeleted
<1>4. {V4, V6, VR, ARP, FDB} = Steps
  BY DEF V4, V6, VR, ARP, FDB, Steps
<1>5. /\ Whole' = Whole \ {r} /\ Whole' \subseteq L3Rifs'
      /\ \A s \in Whole' : rif'[s] = rif[s] /\ PlaceOf(s)' = PlaceOf(s)
  BY <1>1, <1>2 DEF Whole
<1>6. OnePerPlace'
  <2> SUFFICES ASSUME NEW s \in L3Rifs', NEW t \in L3Rifs', (PlaceOf(s) = PlaceOf(t))'
               PROVE  s = t
    BY DEF OnePerPlace
  <2> QED BY <1>2 DEF FlowsOf, OnePerPlace
<1>7. TerminationsOwn'
  <2> SUFFICES ASSUME NEW t \in termination'
               PROVE  \E s \in L3Rifs', i \in {V4, V6} :
                        t = <<PlaceOf(s)', rif'[s].mac, i, TRUE>>
    BY DEF TerminationsOwn
  <2>1. PICK s \in L3Rifs, i \in {V4, V6} : t = <<PlaceOf(s), rif[s].mac, i, TRUE>>
    BY <1>3 DEF FlowsOf, TerminationsOwn
  <2>2. s # r
    <3>1. SUFFICES ASSUME s = r PROVE FALSE
      OBVIOUS
    <3>2. t[1] = p /\ t[2] = a /\ t[3] = i
      BY <2>1, <3>1
    <3>3. i \in Steps
      BY <1>4
    <3> QED BY <3>2, <3>3 DEF Deleted
  <2>3. s \in L3Rifs' /\ PlaceOf(s)' = PlaceOf(s) /\ rif'[s].mac = rif[s].mac
    BY <1>2, <2>2
  <2> QED BY <2>1, <2>3
<1>8. VrFlowsOwn'
  <2> SUFFICES ASSUME NEW f \in vrFlow'
               PROVE  \E s \in L3Rifs' : f = <<PlaceOf(s)', rif'[s].vr>>
    BY DEF VrFlowsOwn
  <2>1. PICK s \in L3Rifs : f = <<PlaceOf(s), rif[s].vr>>
    BY <1>3 DEF FlowsOf, VrFlowsOwn
  <2>2. f[1] # p
    BY <1>4 DEF Deleted
  <2> QED BY <1>2, <2>1, <2>2
<1>9. TerminationsThere' /\ VrFlowsThere'
  <2>1. \A s \in Whole' : s \in Whole \ {r} /\ PlaceOf(s)' = PlaceOf(s) /\ rif'[s] = rif[s]
    BY <1>5
  <2> QED BY <1>3, <2>1 DEF TerminationsThere, VrFlowsThere
<1>10. ArpFlowsSame'
  <2>1. arpFlow' = arpFlow \ {p}
    BY <1>4 DEF Deleted
  <2>2. \A s \in Whole' : PlaceOf(s) # p
    BY <1>3, <1>5 DEF Whole
  <2>3. arpFlow' = {PlaceOf(s)' : s \in Whole'}
    BY <1>5, <2>1, <2>2 DEF FlowsOf, ArpFlowsSame
  <2> QED BY <2>3 DEF ArpFlowsSame
<1>11. TrapsSame'
  <2> PICK key : key = TrapKey(p, a)
    OBVIOUS
  <2> DEFINE A == {TrapKey(PlaceOf(s)', rif'[s].mac) : s \in Whole'}
             C == {TrapKey(PlaceOf(s), rif[s].mac) : s \in Whole}
             K == {k \in FdbKey \ HostKey : fdb[k].there}
             M == {k \in FdbKey \ HostKey : fdb'[k].there}
  <2>1. \A s \in L3Rifs : /\ PlaceOf(s) \in Places /\ rif[s].mac \in RouterMac
                          /\ PlaceOf(s)[1] # "LOOP"
    BY DEF RifsPlaced, SlotsSound, L3Rifs, UsedRifs, PlaceOf
  <2>2. \A s \in Whole' : TrapKey(PlaceOf(s), rif[s].mac) # key
    <3> SUFFICES ASSUME NEW s \in Whole', TrapKey(PlaceOf(s), rif[s].mac) = TrapKey(p, a)
                 PROVE  FALSE
      OBVIOUS
    <3>1. s \in L3Rifs /\ PlaceOf(s) # p
      BY <1>3, <1>5 DEF Whole
    <3>2. /\ PlaceOf(s) \in Places /\ rif[s].mac \in RouterMac /\ PlaceOf(s)[1] # "LOOP"
          /\ p \in Places /\ a \in RouterMac /\ p[1] # "LOOP"
      BY <1>1, <2>1, <3>1
    <3> QED BY <3>1, <3>2, TrapKeys
  <2>3. M = K \ {key}
    <3>1. fdb' = [fdb EXCEPT ![key] = NoEntry]
      BY <1>4 DEF Deleted
    <3> QED BY <3>1 DEF NoEntry
  <2>4. K = C
    BY DEF FlowsOf, TrapsSame
  <2>5. A = {TrapKey(PlaceOf(s), rif[s].mac) : s \in Whole'}
    BY <1>5
  <2>6. A = C \ {key}
    BY <1>5, <2>2, <2>5
  <2> HIDE DEF A, C, K, M
  <2>7. M = A
    BY <2>3, <2>4, <2>6
  <2> QED BY <2>7 DEF M, A, TrapsSame, TrapKey, Reserved
<1>12. \A s \in beside' : s \in L3Rifs' /\ rif'[s].type = "VLAN"
  BY <1>1, <1>2 DEF FlowsOf
<1> QED BY <1>6, <1>7, <1>8, <1>9, <1>10, <1>11, <1>12 DEF FlowsOf

\* One that lacks what it should share loses flows of its own, and stays.
LEMMA BesideStays ==
  ASSUME FlowsOf, NEW r \in L3Rifs, r \notin Whole, UNCHANGED <<rif, beside>>,
         NEW done \in SUBSET {V4, V6, VR}, NEW a, Deleted(done, PlaceOf(r), a)
  PROVE  FlowsOf'
<1>1. /\ termination' \subseteq termination /\ vrFlow' \subseteq vrFlow
      /\ \A s \in Whole \ {r}, i \in {V4, V6} :
           <<PlaceOf(s), rif[s].mac, i, TRUE>> \in termination'
      /\ \A s \in Whole \ {r} : <<PlaceOf(s), rif[s].vr>> \in vrFlow'
  BY OwnFlowsDeleted
<1>2. UNCHANGED <<arpFlow, fdb>>
  <2>1. ARP \notin done /\ FDB \notin done
    BY DEF V4, V6, VR, ARP, FDB
  <2> QED BY <2>1 DEF Deleted
<1>3. L3Rifs' = L3Rifs /\ Whole' = Whole /\ \A s : PlaceOf(s)' = PlaceOf(s)
  BY DEF L3Rifs, UsedRifs, Whole, PlaceOf
<1>4. TerminationsOwn' /\ TerminationsThere'
  BY <1>1, <1>3 DEF FlowsOf, TerminationsOwn, TerminationsThere
<1>5. VrFlowsOwn' /\ VrFlowsThere'
  BY <1>1, <1>3 DEF FlowsOf, VrFlowsOwn, VrFlowsThere
<1>6. OnePerPlace' /\ ArpFlowsSame' /\ TrapsSame'
  BY <1>2, <1>3 DEF FlowsOf, OnePerPlace, ArpFlowsSame, TrapsSame, TrapKey, Reserved
<1> QED BY <1>3, <1>4, <1>5, <1>6 DEF FlowsOf

\* The flows of a whole interface are all there to be removed; another has no
\* flow that traps ARP requests.
LEMMA AllFlowsThere ==
  ASSUME SlotsSound, FlowsOf, NEW r \in L3Rifs
  PROVE  /\ r \in Whole => \A s \in Steps : There(PlaceOf(r), rif[r].mac, s)
         /\ r \notin Whole => ~There(PlaceOf(r), rif[r].mac, ARP)
<1> DEFINE p == PlaceOf(r)
           a == rif[r].mac
<1>1. ASSUME r \in Whole PROVE \A s \in Steps : There(p, a, s)
  <2>1. HasTermination(p, a, V4) /\ HasTermination(p, a, V6)
    <3>1. <<p, a, V4, TRUE>> \in termination /\ <<p, a, V6, TRUE>> \in termination
      BY <1>1 DEF FlowsOf, TerminationsThere
    <3> QED BY <3>1 DEF HasTermination
  <2>2. rif[r].vr \in VrId /\ <<p, rif[r].vr>> \in vrFlow
    BY <1>1 DEF FlowsOf, VrFlowsThere, SlotsSound, L3Rifs, UsedRifs
  <2>3. p \in arpFlow
    BY <1>1 DEF FlowsOf, ArpFlowsSame
  <2>4. fdb[TrapKey(p, a)].there
    <3>1. TrapKey(p, a) \in {k \in FdbKey \ HostKey : fdb[k].there}
      BY <1>1 DEF FlowsOf, TrapsSame
    <3> QED BY <3>1
  <2>5. /\ There(p, a, V4) /\ There(p, a, V6) /\ There(p, a, VR)
        /\ There(p, a, ARP) /\ There(p, a, FDB)
    BY <2>1, <2>2, <2>3, <2>4, FlowsThere
  <2>6. Steps = {V4, V6, VR, ARP, FDB}
    BY DEF V4, V6, VR, ARP, FDB, Steps
  <2> QED BY <2>5, <2>6
<1>2. ASSUME r \notin Whole PROVE ~There(p, a, ARP)
  <2>1. \A s \in Whole : PlaceOf(s) # p
    BY <1>2 DEF FlowsOf, OnePerPlace, Whole
  <2>2. p \notin arpFlow
    BY <2>1 DEF FlowsOf, ArpFlowsSame
  <2> QED BY <2>2, FlowsThere
<1> QED BY <1>1, <1>2

\* Where there is no other interface, all steps are needed.
LEMMA AloneNeedsAll ==
  ASSUME NEW p, p[1] # "LOOP", NEW v
  PROVE  /\ StepsOf(p, {}, v) = Steps
         /\ StepsOf(p, {}, v) \ ({V4, V6} \ {V4, V6}) = Steps
BY DEF StepsOf, SharedSteps, Steps, V4, V6, VR, ARP, FDB

\* Where there is, not those that are shared.
LEMMA BesideNeeds ==
  ASSUME NEW p, p[1] # "LOOP", NEW v, NEW others, others # {}
  PROVE  /\ {V4, V6} \subseteq StepsOf(p, others, v) \ ({V4, V6} \ {V4, V6})
         /\ StepsOf(p, others, v) \ ({V4, V6} \ {V4, V6}) \subseteq {V4, V6, VR}
BY DEF StepsOf, SharedSteps, V4, V6, VR, ARP, FDB

\* A loopback has no flows.
LEMMA LoopNeedsNone ==
  ASSUME NEW p, p[1] = "LOOP", NEW others, NEW v
  PROVE  StepsOf(p, others, v) = {}
BY DEF StepsOf

\* Without a flow to add or delete nothing changes.
LEMMA NothingDone ==
  ASSUME FlowType, NEW p, NEW a, NEW v, Added({}, p, a, v) \/ Deleted({}, p, a)
  PROVE  UNCHANGED <<termination, vrFlow, arpFlow, fdb>>
BY DEF Added, Deleted

\* What the flows of interfaces depend on.
LEMMA FlowsKept ==
  ASSUME FlowsOf, UNCHANGED <<termination, vrFlow, arpFlow, beside>>,
         L3Rifs' = L3Rifs, \A s \in L3Rifs : rif'[s] = rif[s],
         \A k \in FdbKey \ HostKey : fdb'[k].there <=> fdb[k].there
  PROVE  FlowsOf'
<1>1. /\ Whole' = Whole /\ Whole \subseteq L3Rifs
      /\ \A s \in L3Rifs : rif'[s] = rif[s] /\ PlaceOf(s)' = PlaceOf(s)
  BY DEF PlaceOf, Whole
<1>2. OnePerPlace'
  <2> SUFFICES ASSUME NEW s \in L3Rifs, NEW t \in L3Rifs, (PlaceOf(s) = PlaceOf(t))'
               PROVE  s = t
    BY DEF OnePerPlace
  <2> QED BY <1>1 DEF FlowsOf, OnePerPlace
<1>3. TerminationsOwn'
  <2> SUFFICES ASSUME NEW t \in termination
               PROVE  \E s \in L3Rifs, i \in {V4, V6} :
                        t = <<PlaceOf(s)', rif'[s].mac, i, TRUE>>
    BY DEF TerminationsOwn
  <2>1. PICK s \in L3Rifs, i \in {V4, V6} : t = <<PlaceOf(s), rif[s].mac, i, TRUE>>
    BY DEF FlowsOf, TerminationsOwn
  <2> QED BY <1>1, <2>1
<1>4. VrFlowsOwn'
  <2> SUFFICES ASSUME NEW f \in vrFlow
               PROVE  \E s \in L3Rifs : f = <<PlaceOf(s)', rif'[s].vr>>
    BY DEF VrFlowsOwn
  <2>1. PICK s \in L3Rifs : f = <<PlaceOf(s), rif[s].vr>>
    BY DEF FlowsOf, VrFlowsOwn
  <2> QED BY <1>1, <2>1
<1>5. TerminationsThere' /\ VrFlowsThere'
  <2>1. \A s \in Whole : PlaceOf(s)' = PlaceOf(s) /\ rif'[s] = rif[s]
    BY <1>1
  <2> QED BY <1>1, <2>1 DEF FlowsOf, TerminationsThere, VrFlowsThere
<1>6. ArpFlowsSame'
  <2>1. {PlaceOf(s)' : s \in Whole'} = {PlaceOf(s) : s \in Whole}
    BY <1>1
  <2> QED BY <2>1 DEF FlowsOf, ArpFlowsSame
<1>7. TrapsSame'
  <2>1. {TrapKey(PlaceOf(s)', rif'[s].mac) : s \in Whole'}
          = {TrapKey(PlaceOf(s), rif[s].mac) : s \in Whole}
    BY <1>1
  <2>2. {k \in FdbKey \ HostKey : fdb'[k].there} = {k \in FdbKey \ HostKey : fdb[k].there}
    OBVIOUS
  <2> QED BY <2>1, <2>2 DEF FlowsOf, TrapsSame, TrapKey, Reserved
<1>8. \A s \in beside' : s \in L3Rifs' /\ rif'[s].type = "VLAN"
  BY <1>1 DEF FlowsOf
<1> QED BY <1>2, <1>3, <1>4, <1>5, <1>6, <1>7, <1>8 DEF FlowsOf

\* Flows of interfaces come and go at the places there are, and the bound
\* on unusual calls is kept.
LEMMA FlowTypeKept ==
  ASSUME FlowType, NEW p \in Places, NEW a \in RouterMac \cup {NoMac},
         NEW v \in VrId, NEW done,
         \/ a \in RouterMac /\ Added(done, p, a, v)
         \/ Deleted(done, p, a),
         odd' = odd \/ Unusual, beside' \subseteq RifId
  PROVE  FlowType'
<1>1. odd' \in 0 .. MaxOdd
  <2>1. odd \in 0 .. MaxOdd
    BY DEF FlowType
  <2>2. CASE Unusual
    BY <2>1, <2>2, L2Names DEF Unusual
  <2> QED BY <2>1, <2>2
<1>2. CASE a \in RouterMac /\ Added(done, p, a, v)
  <2> DEFINE T == {<<p, a, s, TRUE>> : s \in done \cap {V4, V6}}
             X == Places \X RouterMac \X {V4, V6} \X BOOLEAN
  <2>1. \A s \in {V4, V6} : <<p, a, s, TRUE>> \in X
    BY <1>2
  <2>2. T \subseteq X
    BY <2>1
  <2>3. termination' = termination \cup T /\ termination \subseteq X
    BY <1>2 DEF FlowType, Added
  <2> HIDE DEF T, X
  <2>4. termination' \subseteq X
    BY <2>2, <2>3
  <2>5. vrFlow' \subseteq Places \X VrId /\ arpFlow' \subseteq Places
    BY <1>2 DEF FlowType, Added
  <2> QED BY <1>1, <2>4, <2>5 DEF FlowType, X
<1>3. CASE Deleted(done, p, a)
  BY <1>1, <1>3 DEF FlowType, Deleted
<1> QED BY <1>2, <1>3

\* A creation that is not unusual is of a loopback, or has all its flows.
LEMMA CreateKeepsFlows ==
  ASSUME RifsPlaced, FlowInv, fdb \in [FdbKey -> Entry],
         NEW r \in RifId, NEW place \in Places, NEW mac \in RouterMac,
         NEW v \in VrId, NEW m, NEW i \in MtuId, NEW admin, NEW full,
         CreateRouterInterface(r, place, mac, v, m, i, admin, full)
  PROVE  FlowInv'
<1> DEFINE others == Sharing(r, ComparedPlace(r, place))
           needed == StepsOf(place, others, v) \ ({V4, V6} \ admin)
           fails  == full \cup {s \in needed : Refused(place, mac, s)}
           done   == Done(needed, fails)
           n == [valid |-> TRUE, type |-> place[1], at |-> place[2],
                 mac |-> IF place[1] = "LOOP" THEN NoMac ELSE mac,
                 vr |-> v, mtu |-> i]
<1>1. /\ ~rif[r].valid
      /\ IF \/ place[1] = "LOOP"
            \/ admin = {V4, V6} /\ Sharing(r, place) = {} /\ done = needed
         THEN UNCHANGED odd ELSE Unusual
      /\ Added(done, place, mac, v)
      /\ rif' = IF ~(done = needed) THEN rif ELSE [rif EXCEPT ![r] = n]
      /\ beside' = IF done = needed /\ place[1] = "VLAN" /\ others # {}
                   THEN beside \cup {r} ELSE beside
  BY DEF CreateRouterInterface, FreeSlot
<1>2. /\ n \in Interface /\ n.valid /\ place = <<n.type, n.at>> /\ n.vr = v
      /\ n.type # "LOOP" => n.mac = mac
      /\ n.type = place[1]
  BY RifSizes DEF Interface, Places
<1>3. rif \in [RifId -> Interface]
  BY DEF RifsPlaced
<1>4. SlotsSound'
  <2> HIDE DEF n, done, needed
  <2> QED BY <1>1, <1>2, <1>3 DEF FlowInv, SlotsSound, L3Rifs, UsedRifs
<1>5. FlowType'
  <2>1. beside' \subseteq RifId
    <3> HIDE DEF n, done, needed, others
    <3> QED BY <1>1 DEF FlowInv, FlowType
  <2> QED BY <1>1, <2>1, FlowTypeKept DEF FlowInv
<1>6. ASSUME odd' = 0 PROVE FlowsOf'
  <2>1. ~Unusual
    BY <1>6 DEF FlowInv, FlowType, Unusual
  <2>2. /\ odd = 0 /\ FlowsOf
        /\ \/ place[1] = "LOOP"
           \/ admin = {V4, V6} /\ Sharing(r, place) = {} /\ done = needed
    <3> HIDE DEF n, done, needed, others
    <3> QED BY <1>1, <1>6, <2>1 DEF FlowInv
  <2>3. CASE place[1] = "LOOP"
    <3> HIDE DEF n, fails
    <3>1. needed = {}
      BY <2>3, LoopNeedsNone
    <3> HIDE DEF needed
    <3>2. done = {}
      BY <3>1 DEF Done
    <3> HIDE DEF done
    <3>3. Added({}, place, mac, v)
      BY <1>1, <3>2
    <3>4. UNCHANGED <<termination, vrFlow, arpFlow, fdb, beside>>
      BY <1>1, <2>3, <3>3, NothingDone DEF FlowInv
    <3>5. L3Rifs' = L3Rifs /\ \A s \in L3Rifs : rif'[s] = rif[s]
      BY <1>1, <1>2, <1>3, <2>3 DEF L3Rifs, UsedRifs
    <3> QED BY <2>2, <3>4, <3>5, FlowsKept
  <2>4. CASE place[1] # "LOOP" /\ others = {}
    <3>1. Sharing(r, place) = {} /\ admin = {V4, V6} /\ done = needed
      BY <2>2, <2>4
    <3>2. needed = Steps
      <4> HIDE DEF others
      <4> QED BY <2>4, <3>1, AloneNeedsAll
    <3>3. /\ rif' = [rif EXCEPT ![r] = n]
          /\ Added(Steps, place, n.mac, n.vr)
          /\ UNCHANGED beside
      BY <1>1, <1>2, <2>4, <3>1, <3>2
    <3>4. n.mac \in RouterMac /\ n.type # "LOOP"
      BY <1>2, <2>4
    <3> HIDE DEF n, done, needed, others
    <3> QED BY <1>1, <1>2, <2>2, <3>1, <3>3, <3>4, InterfaceAdded
  <2>5. CASE place[1] # "LOOP" /\ others # {}
    <3>1. Sharing(r, place) = {} /\ admin = {V4, V6} /\ done = needed
      BY <2>2, <2>5
    <3>2. place[1] = "VLAN"
      <4>1. rif[r] = NoRif
        BY <1>1 DEF FlowInv, SlotsSound
      <4>2. ComparedPlace(r, place) = <<"PORT", place[2]>>
        BY <4>1 DEF ComparedPlace, NoRif
      <4>3. place = <<place[1], place[2]>> /\ place[1] \in {"PORT", "VLAN", "LOOP"}
        BY DEF Places
      <4>4. place # <<"PORT", place[2]>>
        BY <2>5, <3>1, <4>2
      <4> QED BY <2>5, <4>3, <4>4
    <3>3. {V4, V6} \subseteq needed /\ needed \subseteq {V4, V6, VR}
      <4> HIDE DEF others
      <4> QED BY <2>5, <3>1, BesideNeeds
    <3>4. /\ rif' = [rif EXCEPT ![r] = n]
          /\ Added(needed, place, n.mac, n.vr)
          /\ beside' = beside \cup {r}
      BY <1>1, <1>2, <2>5, <3>1, <3>2
    <3>5. n.type = "VLAN"
      BY <1>2, <3>2
    <3> HIDE DEF n, done, needed, others
    <3>6. /\ FlowsOf /\ ~rif[r].valid /\ n \in Interface /\ n.valid
          /\ place = <<n.type, n.at>> /\ Sharing(r, place) = {}
      BY <1>1, <1>2, <2>2, <3>1
    <3> QED BY ONLY RifsPlaced, FlowInv, r \in RifId, place \in Places,
                    <3>3, <3>4, <3>5, <3>6, BesideAdded
  <2> QED BY <2>3, <2>4, <2>5
<1> QED BY <1>4, <1>5, <1>6 DEF FlowInv

\* A removal finds all the flows of its interface, or stops at one that is
\* shared.
LEMMA RemoveKeepsFlows ==
  ASSUME RifsPlaced, FlowInv, fdb \in [FdbKey -> Entry],
         NEW r \in RifId, RemoveRouterInterface(r)
  PROVE  FlowInv'
<1> PICK place, mac, v, others, needed, fails, done :
      /\ place = PlaceOf(r) /\ mac = rif[r].mac /\ v = rif[r].vr
      /\ others = Sharing(r, place)
      /\ needed = StepsOf(place, others, v)
      /\ fails = {s \in needed : ~There(place, mac, s)}
      /\ done = Done(needed, fails)
  OBVIOUS
<1>1. /\ rif[r].valid
      /\ Deleted(done, place, mac)
      /\ rif' = IF done = needed THEN [rif EXCEPT ![r] = NoRif] ELSE rif
      /\ beside' = IF done = needed THEN beside \ {r} ELSE beside
      /\ UNCHANGED odd
  BY DEF RemoveRouterInterface
<1>2. rif \in [RifId -> Interface] /\ rif[r] \in Interface /\ NoRif \in Interface /\ ~NoRif.valid
  BY RifSizes DEF RifsPlaced, NoRif, Interface, MtuId
<1>3. place \in Places /\ mac \in RouterMac \cup {NoMac} /\ v \in VrId
  BY <1>1, <1>2 DEF RifsPlaced, FlowInv, SlotsSound, Interface
<1>4. SlotsSound'
  BY <1>1, <1>2 DEF FlowInv, SlotsSound, L3Rifs, UsedRifs
<1>5. FlowType'
  <2>1. beside' \subseteq RifId
    BY <1>1 DEF FlowInv, FlowType
  <2> QED BY <1>1, <1>3, <2>1, FlowTypeKept DEF FlowInv
<1>6. ASSUME odd' = 0 PROVE FlowsOf'
  <2>1. odd = 0 /\ FlowsOf
    BY <1>1, <1>6 DEF FlowInv
  <2>2. place[1] = rif[r].type
    BY DEF PlaceOf
  <2>3. CASE place[1] = "LOOP"
    <3>1. needed = {} /\ done = {}
      BY <2>3, LoopNeedsNone DEF Done
    <3>2. UNCHANGED <<termination, vrFlow, arpFlow, fdb>>
      BY <1>1, <3>1, NothingDone DEF FlowInv
    <3>3. L3Rifs' = L3Rifs /\ \A s \in L3Rifs : rif'[s] = rif[s]
      BY <1>1, <1>2, <2>2, <2>3 DEF L3Rifs, UsedRifs
    <3>4. UNCHANGED beside
      BY <1>1, <2>1, <2>2, <2>3 DEF FlowsOf, L3Rifs
    <3> QED BY <2>1, <3>2, <3>3, <3>4, FlowsKept
  <2>4. CASE place[1] # "LOOP"
    <3>1. r \in L3Rifs
      BY <1>1, <2>2, <2>4 DEF L3Rifs, UsedRifs
    <3>2. others = {}
      <4> SUFFICES ASSUME NEW s \in UsedRifs, s # r, PlaceOf(s) = place PROVE FALSE
        BY DEF Sharing
      <4>1. s \in L3Rifs
        BY <2>2, <2>4 DEF L3Rifs, PlaceOf
      <4> QED BY <2>1, <3>1, <4>1 DEF FlowsOf, OnePerPlace
    <3>3. needed = Steps
      BY <2>4, <3>2, AloneNeedsAll
    <3>4. CASE r \in Whole
      <4>1. fails = {}
        BY <2>1, <3>1, <3>3, <3>4, AllFlowsThere DEF FlowInv
      <4>2. done = needed
        BY <4>1 DEF Done
      <4>3. rif' = [rif EXCEPT ![r] = NoRif] /\ Deleted(Steps, place, mac)
            /\ beside' = beside \ {r}
        BY <1>1, <3>3, <4>2
      <4> QED BY <2>1, <3>4, <4>3, InterfaceRemoved DEF FlowInv
    <3>5. CASE r \notin Whole
      <4>1. ARP \in needed /\ ARP \in fails
        <5>1. ARP \in needed
          BY <3>3 DEF ARP, Steps
        <5>2. ~There(place, mac, ARP)
          BY <2>1, <3>1, <3>5, AllFlowsThere DEF FlowInv
        <5> QED BY <5>1, <5>2
      <4>2. done \subseteq {V4, V6, VR} /\ done # needed
        BY <3>3, <4>1 DEF Done, Steps, V4, V6, VR, ARP
      <4>3. UNCHANGED <<rif, beside>>
        BY <1>1, <4>2
      <4> QED BY <1>1, <2>1, <3>1, <3>5, <4>2, <4>3, BesideStays
    <3> QED BY <3>4, <3>5
  <2> QED BY <2>3, <2>4
<1> QED BY <1>4, <1>5, <1>6 DEF FlowInv

\* A new source address counts as unusual: only the types are left to say.
LEMMA SrcMacKeepsFlows ==
  ASSUME RifsPlaced, FlowInv, NEW r \in RifId, NEW mac \in RouterMac,
         NEW own \in BOOLEAN, SetSrcMac(r, mac, own)
  PROVE  FlowInv'
<1>1. /\ rif[r].valid /\ Unusual /\ UNCHANGED <<vrFlow, arpFlow, beside>>
      /\ rif' \in {rif, [rif EXCEPT ![r].mac = mac]}
  BY DEF SetSrcMac
<1>2. PICK left, put :
        /\ termination' = left \cup {<<PlaceOf(r), mac, s, own>> : s \in put}
        /\ left \subseteq termination /\ put \subseteq {V4, V6}
  <2> DEFINE place == PlaceOf(r)
             old   == rif[r].mac
             gone  == Done({V4, V6}, {s \in {V4, V6} : ~There(place, old, s)})
             left  == {t \in termination :
                         ~(t[1] = place /\ t[2] = old /\ t[3] \in gone)}
             taken == {s \in {V4, V6} : \E o \in BOOLEAN : <<place, mac, s, o>> \in left}
             put   == IF gone = {V4, V6} THEN Done({V4, V6}, taken) ELSE {}
  <2>1. termination' = left \cup {<<PlaceOf(r), mac, s, own>> : s \in put}
    BY DEF SetSrcMac
  <2>2. left \subseteq termination
    OBVIOUS
  <2>3. put \subseteq {V4, V6}
    BY DEF Done
  <2> HIDE DEF left, put
  <2> QED BY <2>1, <2>2, <2>3
<1>3. odd' \in 0 .. MaxOdd /\ odd' # 0
  BY <1>1, L2Names DEF FlowInv, FlowType, Unusual
<1>4. PlaceOf(r) \in Places
  BY <1>1 DEF RifsPlaced
<1>5. FlowType'
  <2> DEFINE X == Places \X RouterMac \X {V4, V6} \X BOOLEAN
  <2>1. \A s \in put : <<PlaceOf(r), mac, s, own>> \in X
    BY <1>2, <1>4
  <2>2. left \subseteq X
    BY <1>2 DEF FlowInv, FlowType
  <2>3. termination' \subseteq X
    BY <1>2, <2>1, <2>2
  <2> QED BY <1>1, <1>3, <2>3 DEF FlowInv, FlowType
<1>6. SlotsSound'
  <2>1. \A s \in RifId :
          /\ rif'[s].valid = rif[s].valid /\ rif'[s].vr = rif[s].vr
          /\ rif'[s].type = rif[s].type
          /\ rif'[s].mac \in {rif[s].mac, mac}
          /\ ~rif[s].valid => rif'[s] = rif[s]
    BY <1>1 DEF RifsPlaced, Interface
  <2> QED BY <2>1 DEF FlowInv, SlotsSound, L3Rifs, UsedRifs
<1> QED BY <1>3, <1>5, <1>6 DEF FlowInv

\* Where interfaces and their flows stay as they are.
LEMMA OthersKeepFlows ==
  ASSUME FlowInv, UNCHANGED <<rif, termination, vrFlow, arpFlow, beside>>,
         \/ /\ UNCHANGED odd
            /\ \A k \in FdbKey \ HostKey : fdb'[k].there <=> fdb[k].there
         \/ Unusual
  PROVE  FlowInv'
<1>1. SlotsSound' /\ L3Rifs' = L3Rifs
  BY DEF FlowInv, SlotsSound, L3Rifs, UsedRifs
<1>2. odd' \in 0 .. MaxOdd /\ (Unusual => odd' # 0)
  <2>1. odd \in 0 .. MaxOdd
    BY DEF FlowInv, FlowType
  <2>2. CASE Unusual
    BY <2>1, <2>2, L2Names DEF Unusual
  <2>3. CASE odd' = odd /\ ~Unusual
    BY <2>1, <2>3
  <2> QED BY <2>2, <2>3
<1>3. FlowType'
  BY <1>2 DEF FlowInv, FlowType
<1>4. odd' = 0 => FlowsOf'
  BY <1>1, <1>2, FlowsKept DEF FlowInv
<1> QED BY <1>1, <1>3, <1>4 DEF FlowInv

\* Entries a client writes are not those of interfaces; a flush that takes
\* one of these counts as unusual.
LEMMA FdbKeepsFlows ==
  ASSUME L2Inv, FlowInv, FdbNext, UNCHANGED rifVars
  PROVE  FlowInv'
<1>1. fdb \in [FdbKey -> Entry] /\ UNCHANGED <<rif, termination, vrFlow, arpFlow, beside>>
  BY DEF L2Inv, L2Type, rifVars
<1>2. ASSUME NEW k \in HostKey, NEW e, fdb' \in {fdb, [fdb EXCEPT ![k] = e]},
             UNCHANGED odd
      PROVE  FlowInv'
  <2>1. \A j \in FdbKey \ HostKey : fdb'[j] = fdb[j]
    BY <1>1, <1>2
  <2> QED BY <1>1, <1>2, <2>1, OthersKeepFlows
<1>3. ASSUME NEW k \in HostKey, NEW p \in Port, NEW dynamic, NEW a,
             CreateFdbEntry(k, p, dynamic, a)
      PROVE  FlowInv'
  BY <1>2, <1>3 DEF CreateFdbEntry
<1>4. ASSUME NEW k \in HostKey, NEW p, SetFdbPort(k, p)
      PROVE  FlowInv'
  <2>1. fdb' = [fdb EXCEPT ![k].group = <<p, fdb[k].group[2]>>] /\ UNCHANGED odd
    BY <1>4 DEF SetFdbPort
  <2>2. \A j \in FdbKey \ HostKey : fdb'[j] = fdb[j]
    BY <1>1, <2>1
  <2> QED BY <1>1, <2>1, <2>2, OthersKeepFlows
<1>5. ASSUME NEW k \in HostKey, NEW a, SetFdbAction(k, a)
      PROVE  FlowInv'
  <2>1. fdb' = [fdb EXCEPT ![k] = Acts(@, a, @.group)] /\ UNCHANGED odd
    BY <1>5 DEF SetFdbAction
  <2>2. \A j \in FdbKey \ HostKey : fdb'[j] = fdb[j]
    BY <1>1, <2>1
  <2> QED BY <1>1, <2>1, <2>2, OthersKeepFlows
<1>6. ASSUME NEW k \in HostKey, RemoveFdbEntry(k) \/ Age(k)
      PROVE  FlowInv'
  BY <1>2, <1>6 DEF RemoveFdbEntry, Age
<1>7. ASSUME NEW dynamic, NEW v, NEW p, FlushFdbEntries(dynamic, v, p)
      PROVE  FlowInv'
  <2> PICK F : F = Flushed(dynamic, v, p)
    OBVIOUS
  <2>1. /\ fdb' = [k \in FdbKey |-> IF k \in F THEN NoEntry ELSE fdb[k]]
        /\ IF \E k \in F : k \notin HostKey THEN Unusual ELSE UNCHANGED odd
    BY <1>7 DEF FlushFdbEntries
  <2>2. CASE \E k \in F : k \notin HostKey
    BY <1>1, <2>1, <2>2, OthersKeepFlows
  <2>3. CASE ~\E k \in F : k \notin HostKey
    <3>1. \A j \in FdbKey \ HostKey : fdb'[j] = fdb[j]
      BY <2>1, <2>3
    <3> QED BY <1>1, <2>1, <2>3, <3>1, OthersKeepFlows
  <2> QED BY <2>2, <2>3
<1> QED BY <1>3, <1>4, <1>5, <1>6, <1>7 DEF FdbNext

\* So do all calls on interfaces.
LEMMA RifKeepsFlows ==
  ASSUME L2Inv, RifsPlaced, FlowInv, RifNext
  PROVE  FlowInv'
<1>1. fdb \in [FdbKey -> Entry]
  BY DEF L2Inv, L2Type
<1>2. ASSUME NEW r, NEW k, UseGroup(r, k)
      PROVE  FlowInv'
  BY <1>2, OthersKeepFlows DEF UseGroup, rifVars
<1>3. ASSUME NEW u, ReleaseGroup(u[1], u[2])
      PROVE  FlowInv'
  BY <1>3, OthersKeepFlows DEF ReleaseGroup, rifVars
<1> QED BY <1>1, <1>2, <1>3, CreateKeepsFlows, RemoveKeepsFlows, SrcMacKeepsFlows
       DEF RifNext

\* The interfaces, their profiles and their flows.
RifInv == MtuInv /\ FlowInv

LEMMA InitRifInv == Init => RifInv
<1> SUFFICES ASSUME Init PROVE RifInv
  OBVIOUS
<1>1. UsedRifs = {} /\ L3Rifs = {}
  BY DEF Init, RifInit, UsedRifs, L3Rifs, NoRif
<1>2. MtuInv
  <2>1. \A i : MtuUsers(i) = {}
    BY <1>1 DEF MtuUsers
  <2>2. \A i \in MtuId : mtu[i].refs = Cardinality(MtuUsers(i))
    BY <2>1, FS_EmptySet DEF Init, RifInit
  <2> QED BY <1>1, <2>2 DEF Init, RifInit, MtuInv
<1>3. SlotsSound /\ FlowType
  BY <1>1, L2Names DEF Init, RifInit, L2Init, SlotsSound, FlowType, NoRif
<1>4. FlowsOf
  <2>1. {k \in FdbKey \ HostKey : fdb[k].there} = {}
    BY DEF Init, L2Init, NoEntry
  <2>2. Whole = {}
    BY <1>1 DEF Whole
  <2> QED BY <1>1, <2>1, <2>2 DEF Init, RifInit, FlowsOf, OnePerPlace,
             TerminationsOwn, TerminationsThere, VrFlowsOwn, VrFlowsThere,
             ArpFlowsSame, TrapsSame
<1> QED BY <1>2, <1>3, <1>4 DEF RifInv, FlowInv

LEMMA NextRifInv == IInv /\ RifInv /\ [Next]_vars => RifInv'
<1> SUFFICES ASSUME IInv, RifInv, [Next]_vars PROVE RifInv'
  OBVIOUS
<1>1. UNCHANGED rifVars => MtuInv'
  BY DEF RifInv, MtuInv, MtuUsers, UsedRifs, rifVars
<1>2. UNCHANGED <<rifVars, fdb, odd>> => FlowInv'
  BY OthersKeepFlows DEF RifInv, rifVars
<1>3. CASE VlanNext /\ UNCHANGED <<portVars, rifVars>>
  <2>1. UNCHANGED <<fdb, odd>>
    BY <1>3 DEF VlanNext, CreateVlanMember, RemoveVlanMember, SetTaggingMode
  <2> QED BY <1>1, <1>2, <1>3, <2>1 DEF RifInv
<1>4. CASE FdbNext /\ UNCHANGED <<portVars, rifVars>>
  BY <1>1, <1>4, FdbKeepsFlows DEF IInv, RifInv
<1>5. CASE PortNext /\ UNCHANGED rifVars
  <2>1. UNCHANGED <<fdb, odd>>
    BY <1>5 DEF PortNext, SetSpeed, SetFlowControl, SetLearning, SetAdminState,
                SetDefaultVlan, SetDefaultPriority, l2Vars
  <2> QED BY <1>1, <1>2, <1>5, <2>1 DEF RifInv
<1>6. CASE RifNext /\ UNCHANGED portVars
  BY <1>6, MtuStep, RifKeepsFlows DEF IInv, RifInv
<1>7. CASE UNCHANGED vars
  BY <1>1, <1>2, <1>7 DEF vars, l2Vars, RifInv
<1> QED BY <1>3, <1>4, <1>5, <1>6, <1>7 DEF Next

LEMMA RifInvAlways == Spec => []RifInv
BY InitRifInv, NextRifInv, InvAlways, PTL DEF Spec

\* The flows in the switch are those of the interfaces there are, whatever
\* entries, members and neighbors come and go, for a client that keeps to
\* what the adapter can follow.
THEOREM FlowsAreOfInterfaces == Spec => []FlowsFollowInterfaces
<1>1. IInv /\ RifInv => FlowsFollowInterfaces
  <2> SUFFICES ASSUME RifsPlaced, FlowInv PROVE FlowsFollowInterfaces
    BY DEF IInv, RifInv
  <2>1. CASE odd = 0
    BY <2>1, FlowsOfMeans DEF FlowInv
  <2>2. CASE odd # 0
    BY <2>2 DEF FlowsFollowInterfaces
  <2> QED BY <2>1, <2>2
<1> QED BY <1>1, InvAlways, RifInvAlways, PTL

\* The tables keep their shape, profiles count their interfaces and keep
\* their sizes, and neighbors their groups, whatever is called and whichever
\* flow the switch refuses.
THEOREM RifTablesKept == Spec => []RifTablesSound
<1>1. IInv /\ RifInv => RifTablesSound
  <2> SUFFICES ASSUME IInv, RifInv PROVE RifTablesSound
    OBVIOUS
  <2>1. \A i \in MtuId : mtu[i].refs \in 0 .. NumRif
    BY UsersCounted DEF RifInv, MtuInv, MtuUsers, UsedRifs
  <2>2. mtu \in [MtuId -> [size : Mtu \cup {0}, refs : 0 .. NumRif]]
    BY <2>1 DEF RifInv, MtuInv
  <2>3. TypeOK
    BY <2>2 DEF TypeOK, IInv, L2Inv, L2Type, Mode, Entry, RifsPlaced, Interface,
                PortInv, PortType, Bits, Wishes, FlowEntry, RifInv, MtuInv, FlowInv, FlowType
  <2>4. MtuKept
    BY DEF RifInv, MtuInv, MtuKept, MtuUsers
  <2> QED BY <2>3, <2>4 DEF RifTablesSound
<1> QED BY <1>1, InvAlways, RifInvAlways, PTL

==============================================================================
