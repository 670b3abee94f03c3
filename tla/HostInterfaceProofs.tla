------------------------ MODULE HostInterfaceProofs -------------------------
(***************************************************************************)
(* Packets.  For any number of ports, devices and creations, and wherever  *)
(* in a creation the two threads look at a slot: packets keep to the port  *)
(* their device was named for, and no two slots share a device.  The       *)
(* argument is that the slot becomes valid last: a valid slot has a        *)
(* descriptor, which is that of a device named for its port or of a failed *)
(* open; and that a device is opened once, so that its descriptor is in    *)
(* one slot.                                                               *)
(*                                                                         *)
(* Traps.  For any traps, objects, lists of them in any order, and any     *)
(* number of calls, one of which may meet a fault at any hardware call or  *)
(* allocation: no loop takes a header for an element, but that of a list   *)
(* whose first setting the fault cut short; until one does, the lists stay *)
(* sorted rings; and, until the fault, they are counted and as asked for   *)
(* and their flows match them.  The argument is TrapInv: there are         *)
(* sequences, one for each header, that the pointers in memory link        *)
(* (Core), and every list but those of the protocols of the system is no   *)
(* shorter than its count, unless cut short, and served as asked (Others). *)
(* Each loop of a call has an invariant of its own, which says how far     *)
(* along its list it is.                                                   *)
(***************************************************************************)
EXTENDS HostInterface, HostTraps, SequenceTheorems, FiniteSetTheorems,
        WellFoundedInduction, TLAPS

\* A descriptor that port p may hold or is to hold: its own, or none.
Own(p, fd) == fd = BadFd \/ fd \in named[p] \cap opened

\* What the slots hold at any point of a creation.
SlotsInv ==
  /\ \A p \in Port :
       /\ hostFd[p].fd = Stdin \/ Own(p, hostFd[p].fd)
       /\ hostFd[p].valid \/ hostFd[p].name # NoName => hostFd[p].fd # Stdin
  /\ \A p, q \in Port :
       hostFd[p].fd = hostFd[q].fd /\ hostFd[p].fd \in Device => p = q

\* A creation under way has a descriptor that is in no other slot, and in
\* its own from the second part on.
CreateInv ==
  create.at # 0 =>
    /\ Own(create.port, create.fd)
    /\ create.at >= 2 => hostFd[create.port].fd = create.fd
    /\ \A q \in Port \ {create.port} :
         hostFd[q].fd = create.fd => create.fd = BadFd

\* What the threads have read from a slot is still the port's own.
ThreadsInv ==
  /\ tap.pc = "read" => tap.port \in Port /\ Own(tap.port, tap.fd)
  /\ asic.pc = "write" => Own(asic.port, asic.fd)

IInv == /\ TypeOK /\ IsFiniteSet(opened)
        /\ SlotsInv /\ CreateInv /\ ThreadsInv /\ PacketsKeepPort

Slot == [valid : BOOLEAN, fd : Descriptor, name : Device \cup {NoName}]

-----------------------------------------------------------------------------

LEMMA StoreOrderIs ==
  /\ Len(StoreOrder) = 4
  /\ StoreOrder[1] = "fd" /\ StoreOrder[2] = "name"
  /\ StoreOrder[3] = "set" /\ StoreOrder[4] = "valid"
BY DEF StoreOrder

LEMMA PortsAre == 0 \in Port /\ Port = {p \in Nat : p < NumPorts}
BY HostConstants DEF Port

LEMMA InitIInv == Init => IInv
<1> SUFFICES ASSUME Init PROVE IInv
  OBVIOUS
<1>1. TypeOK
  BY PortsAre, StoreOrderIs, HostConstants
     DEF Init, TypeOK, Cleared, NoName, Descriptor, TapPc
<1>2. IsFiniteSet(opened)
  BY FS_EmptySet DEF Init
<1>3. SlotsInv
  BY HostConstants DEF Init, SlotsInv, Cleared, NoName
<1>4. CreateInv /\ ThreadsInv /\ PacketsKeepPort
  BY DEF Init, CreateInv, ThreadsInv, PacketsKeepPort
<1> QED BY <1>1, <1>2, <1>3, <1>4 DEF IInv

\* The clearing of the slots by the first creation is like any other slots.
LEMMA SlotsFound ==
  ASSUME IInv
  PROVE  /\ Slots \in [Port -> Slot]
         /\ \A p \in Port :
              /\ Slots[p].fd = Stdin \/ Own(p, Slots[p].fd)
              /\ Slots[p].valid \/ Slots[p].name # NoName => Slots[p].fd # Stdin
         /\ \A p, q \in Port :
              Slots[p].fd = Slots[q].fd /\ Slots[p].fd \in Device => p = q
<1>1. CASE readFdNum = 0
  <2>1. Slots = [p \in Port |-> Cleared]
    BY <1>1 DEF Slots
  <2>2. Cleared \in Slot
    BY DEF Cleared, Slot, Descriptor
  <2> QED BY <2>1, <2>2, HostConstants DEF Cleared
<1>2. CASE readFdNum # 0
  BY <1>2 DEF Slots, IInv, TypeOK, SlotsInv, Slot
<1> QED BY <1>1, <1>2

LEMMA BeginStep ==
  ASSUME IInv, NEW p \in Port, NEW d \in Device, BeginCreate(p, d)
  PROVE  IInv'
<1>1. PICK fd \in DescriptorFor(p, d) :
        /\ create' = [at |-> 1, port |-> p, name |-> d, fd |-> fd]
        /\ opened' = opened \cup ({fd} \ {BadFd})
  BY DEF BeginCreate
<1>2. /\ hostFd' = Slots
      /\ readFdSet' \in {{}, readFdSet}
      /\ named' = [named EXCEPT ![p] = @ \cup {d}]
      /\ UNCHANGED <<readFdNum, tap, asic, pending, moved>>
  BY DEF BeginCreate
<1>3. /\ opened \subseteq Device /\ named \in [Port -> SUBSET Device]
      /\ pending \subseteq opened
  BY DEF IInv, TypeOK
<1>4. /\ named' \in [Port -> SUBSET Device] /\ d \in named'[p]
      /\ \A q \in Port : named[q] \subseteq named'[q]
  BY <1>2, <1>3
<1>5. d # NoName
  BY HostConstants DEF NoName
<1>6. \/ fd = BadFd
      \/ fd = d /\ d \notin opened
      \/ fd = Slots[p].fd /\ fd \in named[p] \cap opened
  <2>1. CASE Slots[p].name = d
    BY <2>1, <1>5, SlotsFound DEF DescriptorFor, Own
  <2>2. CASE Slots[p].name # d
    BY <2>2 DEF DescriptorFor, Allocated
  <2> QED BY <2>1, <2>2
<1>7. /\ fd \in Device \cup {BadFd}
      /\ fd = BadFd \/ fd \in named'[p] \cap opened'
  BY <1>1, <1>3, <1>4, <1>6
<1>8. opened' \subseteq Device /\ opened \subseteq opened' /\ IsFiniteSet(opened')
  <2>1. IsFiniteSet(opened)
    BY DEF IInv
  <2>2. opened' = opened \/ opened' = opened \cup {fd}
    BY <1>1
  <2>3. IsFiniteSet(opened \cup {fd})
    BY <2>1, FS_AddElement
  <2> QED BY <1>1, <1>3, <1>7, <2>1, <2>2, <2>3
<1>9. TypeOK'
  BY <1>1, <1>2, <1>3, <1>4, <1>7, <1>8, SlotsFound, StoreOrderIs
     DEF IInv, TypeOK, Slot, Descriptor
<1>10. \A q \in Port : \A x : Own(q, x) => Own(q, x)'
  BY <1>4, <1>8 DEF Own
<1>11. SlotsInv'
  BY <1>2, <1>10, SlotsFound DEF SlotsInv
<1>12. CreateInv'
  <2>1. Own(p, fd)'
    BY <1>7 DEF Own
  <2>2. ASSUME NEW q \in Port \ {p}, Slots[q].fd = fd
        PROVE  fd = BadFd
    <3>1. CASE fd = d /\ d \notin opened
      BY <2>2, <3>1, SlotsFound, HostConstants DEF Own
    <3>2. CASE fd = Slots[p].fd /\ fd \in named[p] \cap opened
      BY <2>2, <3>2, <1>3, SlotsFound
    <3> QED BY <1>6, <3>1, <3>2
  <2> QED BY <1>1, <1>2, <2>1, <2>2 DEF CreateInv
<1>13. ThreadsInv'
  <2>1. asic.port \in Port
    BY DEF IInv, TypeOK
  <2> QED BY <1>2, <1>10, <2>1 DEF IInv, ThreadsInv
<1>14. PacketsKeepPort'
  <2>1. \A m \in moved : m[2] \in Port
    BY DEF IInv, TypeOK
  <2> QED BY <1>2, <1>4, <2>1 DEF IInv, PacketsKeepPort
<1> QED BY <1>8, <1>9, <1>11, <1>12, <1>13, <1>14 DEF IInv

LEMMA StoreStep ==
  ASSUME IInv, StorePart
  PROVE  IInv'
<1> DEFINE p == create.port
<1>1. /\ create.at \in 1 .. 4 /\ create.at # 0
      /\ create' = [create EXCEPT !.at = @ + 1]
      /\ UNCHANGED <<readFdNum, opened, named, tap, asic, pending, moved>>
  BY StoreOrderIs DEF StorePart
<1>2. /\ TypeOK /\ SlotsInv /\ CreateInv /\ ThreadsInv
      /\ p \in Port /\ create.fd \in Descriptor
      /\ create \in [at : 0 .. Len(StoreOrder) + 1, port : Port,
                     name : Device \cup {NoName}, fd : Descriptor]
      /\ hostFd \in [Port -> Slot] /\ readFdSet \subseteq Descriptor
  BY DEF IInv, TypeOK, Slot
<1>3. /\ create'.port = p /\ create'.fd = create.fd
      /\ create'.at = create.at + 1
  BY <1>1, <1>2
<1>4. /\ Own(p, create.fd) /\ create.fd # Stdin
      /\ \A q \in Port \ {p} : hostFd[q].fd = create.fd => create.fd = BadFd
  BY <1>1, <1>2, HostConstants DEF CreateInv, Own, TypeOK
<1>5. create' \in [at : 0 .. Len(StoreOrder) + 1, port : Port,
                   name : Device \cup {NoName}, fd : Descriptor]
  BY <1>1, <1>2, StoreOrderIs
<1>6. \A q, x : Own(q, x)' <=> Own(q, x)
  BY <1>1 DEF Own
<1>7. ThreadsInv' /\ PacketsKeepPort' /\ IsFiniteSet(opened)'
  BY <1>1, <1>6 DEF IInv, ThreadsInv, PacketsKeepPort
<1>8. ASSUME hostFd' \in [Port -> Slot], readFdSet' \subseteq Descriptor,
             SlotsInv', CreateInv'
      PROVE  IInv'
  <2>1. TypeOK'
    BY <1>1, <1>2, <1>5, <1>8 DEF TypeOK, Slot
  <2> QED BY <1>7, <1>8, <2>1 DEF IInv
<1>9. CASE create.at = 1
  <2>1. hostFd' = [hostFd EXCEPT ![p].fd = create.fd] /\ UNCHANGED readFdSet
    BY <1>9, StoreOrderIs DEF StorePart
  <2>2. /\ hostFd' \in [Port -> Slot]
        /\ hostFd'[p].fd = create.fd
        /\ \A q \in Port : /\ q # p => hostFd'[q] = hostFd[q]
                           /\ hostFd'[q].valid = hostFd[q].valid
                           /\ hostFd'[q].name = hostFd[q].name
    BY <1>2, <2>1 DEF Slot
  <2>3. \A q \in Port : /\ hostFd'[q].fd = Stdin \/ Own(q, hostFd'[q].fd)
                        /\ hostFd'[q].valid \/ hostFd'[q].name # NoName
                             => hostFd'[q].fd # Stdin
    BY <1>2, <1>4, <2>2 DEF SlotsInv
  <2>4. ASSUME NEW q \in Port, NEW r \in Port,
               hostFd'[q].fd = hostFd'[r].fd, hostFd'[q].fd \in Device
        PROVE  q = r
    BY <1>2, <1>4, <2>2, <2>4, HostConstants DEF SlotsInv
  <2>5. SlotsInv'
    BY <1>6, <2>3, <2>4 DEF SlotsInv
  <2>6. CreateInv'
    BY <1>3, <1>4, <1>6, <2>2 DEF CreateInv
  <2> QED BY <1>2, <1>8, <2>1, <2>2, <2>5, <2>6
<1>10. CASE create.at = 2
  <2>1. hostFd' = [hostFd EXCEPT ![p].name = create.name] /\ UNCHANGED readFdSet
    BY <1>10, StoreOrderIs DEF StorePart
  <2>2. hostFd[p].fd = create.fd
    BY <1>2, <1>10 DEF CreateInv
  <2>3. /\ hostFd' \in [Port -> Slot]
        /\ \A q \in Port : /\ q # p => hostFd'[q] = hostFd[q]
                           /\ hostFd'[q].valid = hostFd[q].valid
                           /\ hostFd'[q].fd = hostFd[q].fd
    BY <1>2, <2>1 DEF Slot
  <2>4. SlotsInv'
    BY <1>2, <1>4, <1>6, <2>2, <2>3 DEF SlotsInv
  <2>5. CreateInv'
    BY <1>3, <1>4, <1>6, <2>2, <2>3, <1>2 DEF CreateInv
  <2> QED BY <1>2, <1>8, <2>1, <2>3, <2>4, <2>5
<1>11. CASE create.at = 3
  <2>1. readFdSet' \in FdSet(create.fd) /\ UNCHANGED hostFd
    BY <1>11, StoreOrderIs DEF StorePart
  <2>2. readFdSet' \subseteq Descriptor
    BY <1>2, <2>1 DEF FdSet
  <2>3. hostFd[p].fd = create.fd
    BY <1>2, <1>11 DEF CreateInv
  <2>4. SlotsInv' /\ CreateInv'
    BY <1>2, <1>3, <1>4, <1>6, <2>1, <2>3 DEF SlotsInv, CreateInv
  <2> QED BY <1>2, <1>8, <2>1, <2>2, <2>4
<1>12. CASE create.at = 4
  <2>1. hostFd' = [hostFd EXCEPT ![p].valid = TRUE] /\ UNCHANGED readFdSet
    BY <1>12, StoreOrderIs DEF StorePart
  <2>2. hostFd[p].fd = create.fd
    BY <1>2, <1>12 DEF CreateInv
  <2>3. /\ hostFd' \in [Port -> Slot]
        /\ \A q \in Port : /\ q # p => hostFd'[q] = hostFd[q]
                           /\ hostFd'[q].name = hostFd[q].name
                           /\ hostFd'[q].fd = hostFd[q].fd
    BY <1>2, <2>1 DEF Slot
  <2>4. SlotsInv'
    BY <1>2, <1>4, <1>6, <2>2, <2>3 DEF SlotsInv
  <2>5. CreateInv'
    BY <1>3, <1>4, <1>6, <2>2, <2>3, <1>2 DEF CreateInv
  <2> QED BY <1>2, <1>8, <2>1, <2>3, <2>4, <2>5
<1> QED BY <1>1, <1>9, <1>10, <1>11, <1>12

LEMMA EndStep ==
  ASSUME IInv, EndCreate
  PROVE  IInv'
<1>1. /\ create' = [create EXCEPT !.at = 0]
      /\ readFdNum' = readFdNum + 1
      /\ tap' \in {tap, [tap EXCEPT !.pc = "copy"]}
      /\ asic' \in {asic, [asic EXCEPT !.pc = "receive"]}
      /\ UNCHANGED <<hostFd, readFdSet, opened, named, pending, moved>>
  BY DEF EndCreate
<1>2. TypeOK
  BY DEF IInv
<1>3. TypeOK'
  BY <1>1, <1>2 DEF TypeOK, TapPc
<1>4. create'.at = 0
  BY <1>1, <1>2 DEF TypeOK
<1>5. SlotsInv' /\ CreateInv' /\ IsFiniteSet(opened)' /\ PacketsKeepPort'
  BY <1>1, <1>4 DEF IInv, SlotsInv, CreateInv, PacketsKeepPort, Own
<1>6. ThreadsInv'
  <2>1. tap' = tap \/ tap'.pc = "copy"
    BY <1>1, <1>2 DEF TypeOK
  <2>2. asic' = asic \/ asic'.pc = "receive"
    BY <1>1, <1>2 DEF TypeOK
  <2> QED BY <1>1, <2>1, <2>2 DEF IInv, ThreadsInv, Own
<1> QED BY <1>3, <1>5, <1>6 DEF IInv

\* The threads and the network stack leave the slots as they are.
LEMMA ThreadsOnly ==
  ASSUME IInv, UNCHANGED clientVars, TypeOK', ThreadsInv', PacketsKeepPort'
  PROVE  IInv'
<1>1. SlotsInv' /\ CreateInv' /\ IsFiniteSet(opened)'
  BY DEF IInv, SlotsInv, CreateInv, Own, clientVars
<1> QED BY <1>1 DEF IInv

\* What a thread reads from a valid slot is the port's own.
LEMMA ValidIsOwn ==
  ASSUME IInv, NEW p \in Port, hostFd[p].valid
  PROVE  Own(p, hostFd[p].fd)
BY DEF IInv, SlotsInv

LEMMA TapStep ==
  ASSUME IInv, TapListen \/ TapInterrupted
  PROVE  IInv'
<1>1. /\ TypeOK /\ ThreadsInv /\ PacketsKeepPort
      /\ tap \in [pc : TapPc, rd : SUBSET Descriptor, left : Nat,
                  port : 0 .. NumPorts, fd : Descriptor]
  BY DEF IInv, TypeOK
<1>2. UNCHANGED clientVars /\ UNCHANGED asic
  BY DEF TapListen, TapCopy, TapSelect, TapScan, TapRead, TapInterrupted
<1>3. ASSUME tap' \in [pc : TapPc, rd : SUBSET Descriptor, left : Nat,
                       port : 0 .. NumPorts, fd : Descriptor],
             tap'.pc = "read" => tap'.port \in Port /\ Own(tap'.port, tap'.fd),
             UNCHANGED <<pending, moved>>
      PROVE  IInv'
  <2>1. TypeOK'
    BY <1>1, <1>2, <1>3 DEF TypeOK, clientVars
  <2>2. ThreadsInv' /\ PacketsKeepPort'
    BY <1>1, <1>2, <1>3 DEF ThreadsInv, PacketsKeepPort, Own, clientVars
  <2> QED BY <1>2, <2>1, <2>2, ThreadsOnly
<1>4. CASE TapCopy
  <2>1. /\ tap' = [tap EXCEPT !.pc = "select", !.rd = readFdSet]
        /\ UNCHANGED <<pending, moved>>
    BY <1>4 DEF TapCopy
  <2>2. readFdSet \in SUBSET Descriptor
    BY <1>1 DEF TypeOK
  <2> QED BY <1>1, <1>3, <2>1, <2>2 DEF TapPc
<1>5. CASE TapSelect
  <2> DEFINE Ready == tap.rd \cap pending
  <2>1. Ready \in SUBSET Descriptor /\ Cardinality(Ready) \in Nat
    <3>1. IsFiniteSet(opened) /\ Ready \subseteq opened
      BY DEF IInv, TypeOK
    <3>2. IsFiniteSet(Ready)
      BY <3>1, FS_Subset
    <3> QED BY <1>1, <3>2, FS_CardinalityType
  <2>2. /\ \/ tap' = [tap EXCEPT !.pc = "scan", !.rd = Ready, !.port = 0,
                                 !.left = Cardinality(Ready)]
           \/ tap' = [tap EXCEPT !.pc = "copy"]
        /\ UNCHANGED <<pending, moved>>
    BY <1>5 DEF TapSelect
  <2> HIDE DEF Ready
  <2>3. 0 \in 0 .. NumPorts
    BY HostConstants
  <2> QED BY <1>1, <1>3, <2>1, <2>2, <2>3 DEF TapPc
<1>6. CASE TapScan
  <2>1. UNCHANGED <<pending, moved>>
    BY <1>6 DEF TapScan
  <2>2. \/ tap' = [tap EXCEPT !.pc = "copy"]
        \/ /\ tap.port # NumPorts /\ tap.left # 0 /\ hostFd[tap.port].valid
           /\ tap' = [tap EXCEPT !.pc = "read", !.left = @ - 1,
                                 !.fd = hostFd[tap.port].fd]
        \/ /\ tap.port # NumPorts
           /\ tap.pc = "scan" /\ tap' = [tap EXCEPT !.port = @ + 1]
    BY <1>6 DEF TapScan, ScanOver
  <2>3. tap.port # NumPorts => tap.port \in Port /\ tap.port + 1 \in 0 .. NumPorts
    BY <1>1, HostConstants DEF Port
  <2>4. CASE tap' = [tap EXCEPT !.pc = "copy"]
    BY <1>1, <1>3, <2>1, <2>4 DEF TapPc
  <2>5. CASE /\ tap.port # NumPorts /\ tap.left # 0 /\ hostFd[tap.port].valid
             /\ tap' = [tap EXCEPT !.pc = "read", !.left = @ - 1,
                                   !.fd = hostFd[tap.port].fd]
    <3>1. Own(tap.port, hostFd[tap.port].fd) /\ hostFd[tap.port].fd \in Descriptor
      BY <1>1, <2>3, <2>5, ValidIsOwn DEF TypeOK
    <3>2. tap.left - 1 \in Nat
      BY <1>1, <2>5
    <3>3. /\ tap' \in [pc : TapPc, rd : SUBSET Descriptor, left : Nat,
                       port : 0 .. NumPorts, fd : Descriptor]
          /\ tap'.port = tap.port /\ tap'.fd = hostFd[tap.port].fd
      BY <1>1, <2>5, <3>1, <3>2 DEF TapPc
    <3> QED BY <1>3, <2>1, <2>3, <2>5, <3>1, <3>3
  <2>6. CASE /\ tap.port # NumPorts
             /\ tap.pc = "scan" /\ tap' = [tap EXCEPT !.port = @ + 1]
    <3>1. /\ tap' \in [pc : TapPc, rd : SUBSET Descriptor, left : Nat,
                       port : 0 .. NumPorts, fd : Descriptor]
          /\ tap'.pc = "scan"
      BY <1>1, <2>3, <2>6
    <3> QED BY <1>3, <2>1, <3>1
  <2> QED BY <2>2, <2>4, <2>5, <2>6
<1>7. CASE TapRead
  <2>1. /\ tap.pc = "read"
        /\ pending' \subseteq pending
        /\ moved' \in {moved, moved \cup {<<tap.fd, tap.port>>}}
        /\ tap.fd = BadFd => moved' = moved
        /\ tap' = [tap EXCEPT !.pc = "scan", !.port = @ + 1]
    BY <1>7 DEF TapRead
  <2>2. tap.port \in Port /\ Own(tap.port, tap.fd)
    BY <1>1, <2>1 DEF ThreadsInv
  <2>3. tap.port + 1 \in 0 .. NumPorts
    BY <2>2, HostConstants DEF Port
  <2>4. /\ tap' \in [pc : TapPc, rd : SUBSET Descriptor, left : Nat,
                     port : 0 .. NumPorts, fd : Descriptor]
        /\ tap'.pc = "scan"
    BY <1>1, <2>1, <2>3 DEF TapPc
  <2>5. moved' \subseteq Descriptor \X Port
    BY <1>1, <2>1, <2>2 DEF TypeOK
  <2>6. TypeOK'
    BY <1>1, <1>2, <2>1, <2>4, <2>5 DEF TypeOK, clientVars
  <2>7. ThreadsInv'
    BY <1>1, <1>2, <2>4 DEF ThreadsInv, Own, clientVars
  <2>8. PacketsKeepPort'
    BY <1>1, <1>2, <2>1, <2>2 DEF PacketsKeepPort, Own, clientVars
  <2> QED BY <1>2, <2>6, <2>7, <2>8, ThreadsOnly
<1>8. CASE TapInterrupted
  <2>1. tap' = [tap EXCEPT !.pc = "stopped"] /\ UNCHANGED <<pending, moved>>
    BY <1>8 DEF TapInterrupted
  <2> QED BY <1>1, <1>3, <2>1 DEF TapPc
<1> QED BY <1>4, <1>5, <1>6, <1>7, <1>8 DEF TapListen

LEMMA AsicStep ==
  ASSUME IInv, AsicListen
  PROVE  IInv'
<1>1. /\ TypeOK /\ ThreadsInv /\ PacketsKeepPort
      /\ asic \in [pc : {"off", "receive", "write"}, port : Port, fd : Descriptor]
  BY DEF IInv, TypeOK
<1>2. ASSUME NEW p \in Port, AsicReceive(p)
      PROVE  IInv'
  <2>1. /\ hostFd[p].valid
        /\ asic' = [pc |-> "write", port |-> p, fd |-> hostFd[p].fd]
        /\ UNCHANGED <<clientVars, tap, pending, moved>>
    BY <1>2 DEF AsicReceive
  <2>2. Own(p, hostFd[p].fd) /\ hostFd[p].fd \in Descriptor
    BY <1>1, <2>1, ValidIsOwn DEF TypeOK
  <2>3. TypeOK'
    BY <1>1, <2>1, <2>2 DEF TypeOK, clientVars
  <2>4. ThreadsInv' /\ PacketsKeepPort'
    BY <1>1, <2>1, <2>2 DEF ThreadsInv, PacketsKeepPort, Own, clientVars
  <2> QED BY <2>1, <2>3, <2>4, ThreadsOnly
<1>3. ASSUME AsicWrite
      PROVE  IInv'
  <2>1. /\ asic.pc = "write"
        /\ moved' \in {moved, moved \cup {<<asic.fd, asic.port>>}}
        /\ asic.fd = BadFd => moved' = moved
        /\ asic' = [pc |-> "receive", port |-> 0, fd |-> Stdin]
        /\ UNCHANGED <<clientVars, tap, pending>>
    BY <1>3 DEF AsicWrite
  <2>2. Own(asic.port, asic.fd)
    BY <1>1, <2>1 DEF ThreadsInv
  <2>3. TypeOK'
    BY <1>1, <2>1, PortsAre DEF TypeOK, clientVars, Descriptor
  <2>4. ThreadsInv' /\ PacketsKeepPort'
    BY <1>1, <2>1, <2>2 DEF ThreadsInv, PacketsKeepPort, Own, clientVars
  <2> QED BY <2>1, <2>3, <2>4, ThreadsOnly
<1> QED BY <1>2, <1>3 DEF AsicListen

LEMMA NextIInv == IInv /\ [Next]_vars => IInv'
<1> SUFFICES ASSUME IInv, [Next]_vars PROVE IInv'
  OBVIOUS
<1>1. CASE CreateHostInterface
  BY <1>1, BeginStep, StoreStep, EndStep DEF CreateHostInterface, CreateGoesOn
<1>2. CASE TapListen \/ TapInterrupted
  BY <1>2, TapStep
<1>3. CASE AsicListen
  BY <1>3, AsicStep
<1>4. ASSUME NEW d \in Device, StackSends(d)
      PROVE  IInv'
  <2>1. TypeOK'
    BY <1>4 DEF StackSends, IInv, TypeOK, clientVars
  <2>2. ThreadsInv' /\ PacketsKeepPort'
    BY <1>4 DEF StackSends, IInv, ThreadsInv, PacketsKeepPort, Own, clientVars
  <2> QED BY <1>4, <2>1, <2>2, ThreadsOnly DEF StackSends
<1>5. CASE UNCHANGED vars
  BY <1>5 DEF vars, clientVars, IInv, TypeOK, SlotsInv, CreateInv, ThreadsInv,
              PacketsKeepPort, Own
<1> QED BY <1>1, <1>2, <1>3, <1>4, <1>5 DEF Next

LEMMA InvAlways == Spec => []IInv
BY InitIInv, NextIInv, PTL DEF Spec

\* Packets pass between a port and the devices named for it only, however
\* the two threads interleave with any number of creations.
THEOREM PacketsKept == Spec => []PacketsKeepPort
<1>1. IInv => PacketsKeepPort
  BY DEF IInv
<1> QED BY <1>1, InvAlways, PTL

\* The state keeps its shape, and no two valid slots share a device.
THEOREM SlotsKept == Spec => []SlotsSound
<1>1. ASSUME IInv PROVE SlotsSound
  <2> SUFFICES ASSUME NEW p \in Port, NEW q \in Port, hostFd[p].valid,
                      hostFd[p].fd = hostFd[q].fd, hostFd[p].fd # BadFd
               PROVE  p = q
    BY <1>1 DEF IInv, SlotsSound
  <2>1. Own(p, hostFd[p].fd) /\ opened \subseteq Device
    BY <1>1, ValidIsOwn DEF IInv, TypeOK
  <2> QED BY <1>1, <2>1 DEF Own, IInv, SlotsInv
<1> QED BY <1>1, InvAlways, PTL

-----------------------------------------------------------------------------
(* Traps: sorted sequences of elements.                                    *)

Distinct(s) == \A i, j \in DOMAIN s : s[i] = s[j] => i = j
Elems(s) == {s[i] : i \in DOMAIN s}
Lowest(S) == CHOOSE i \in S : \A j \in S : i <= j

\* A set of positions has a least one.
LEMMA LeastExists ==
  ASSUME NEW S, S \subseteq Nat, S # {}
  PROVE  Lowest(S) \in S /\ \A j \in S : Lowest(S) <= j
<1>1. \E i \in S : \A j \in S : ~(<<j, i>> \in OpToRel(<, Nat))
  BY WFMin, NatLessThanWellFounded
<1>2. \A i, j \in S : ~(<<j, i>> \in OpToRel(<, Nat)) => i <= j
  BY DEF OpToRel
<1>3. \E i \in S : \A j \in S : i <= j
  BY <1>1, <1>2
<1> QED BY <1>3 DEF Lowest

\* An element put behind m others.
Put(s, m, x) ==
  [i \in 1..(Len(s) + 1) |->
     IF i <= m THEN s[i] ELSE IF i = m + 1 THEN x ELSE s[i - 1]]

\* It is among them, in that place, and the others keep their order.
LEMMA PutIs ==
  ASSUME NEW s \in Seq(Node), Distinct(s), NEW m \in 0..Len(s),
         NEW x \in Node, x \notin Elems(s)
  PROVE  /\ Put(s, m, x) \in Seq(Node)
         /\ Len(Put(s, m, x)) = Len(s) + 1
         /\ \A i \in 1..m : Put(s, m, x)[i] = s[i]
         /\ Put(s, m, x)[m + 1] = x
         /\ \A i \in (m + 1)..Len(s) : Put(s, m, x)[i + 1] = s[i]
         /\ Distinct(Put(s, m, x))
         /\ Elems(Put(s, m, x)) = Elems(s) \cup {x}
<1> DEFINE r == Put(s, m, x)
<1>1. Len(s) \in Nat /\ DOMAIN s = 1..Len(s) /\ m \in Nat
  OBVIOUS
<1>2. \A i \in 1..Len(s) : s[i] \in Node /\ s[i] # x
  BY <1>1 DEF Elems
<1>3. r \in Seq(Node) /\ Len(r) = Len(s) + 1 /\ DOMAIN r = 1..(Len(s) + 1)
  BY <1>1, <1>2 DEF Put
<1>4. \A i \in 1..(Len(s) + 1) :
        r[i] = IF i <= m THEN s[i] ELSE IF i = m + 1 THEN x ELSE s[i - 1]
  BY <1>1 DEF Put
<1> HIDE DEF r
<1>5. /\ \A i \in 1..m : r[i] = s[i]
      /\ r[m + 1] = x
      /\ \A i \in (m + 1)..Len(s) : r[i + 1] = s[i]
  <2>1. \A i \in 1..m : r[i] = s[i]
    BY <1>1, <1>4
  <2>2. r[m + 1] = x
    BY <1>1, <1>4
  <2>3. ASSUME NEW i \in (m + 1)..Len(s) PROVE r[i + 1] = s[i]
    <3>1. i + 1 \in 1..(Len(s) + 1) /\ ~(i + 1 <= m) /\ i + 1 # m + 1 /\ (i + 1) - 1 = i
      BY <1>1
    <3> QED BY <1>4, <3>1
  <2> QED BY <2>1, <2>2, <2>3
<1>6. \A i \in 1..(Len(s) + 1) :
        \/ i <= m /\ i \in 1..Len(s) /\ r[i] = s[i]
        \/ i = m + 1 /\ r[i] = x
        \/ i > m + 1 /\ i - 1 \in 1..Len(s) /\ r[i] = s[i - 1]
  BY <1>1, <1>4
<1>7. Distinct(r)
  <2> SUFFICES ASSUME NEW i \in 1..(Len(s) + 1), NEW j \in 1..(Len(s) + 1), r[i] = r[j]
               PROVE  i = j
    BY <1>3 DEF Distinct
  <2>1. \A k, l \in 1..Len(s) : s[k] = s[l] => k = l
    BY <1>1 DEF Distinct
  <2> QED BY <1>1, <1>2, <1>6, <2>1
<1>8. Elems(r) = Elems(s) \cup {x}
  <2>1. ASSUME NEW y \in Elems(r) PROVE y \in Elems(s) \cup {x}
    BY <1>1, <1>3, <1>6 DEF Elems
  <2>2. ASSUME NEW y \in Elems(s) PROVE y \in Elems(r)
    <3>1. PICK i \in 1..Len(s) : y = s[i]
      BY <1>1 DEF Elems
    <3>2. CASE i <= m
      <4>1. i \in 1..m /\ i \in 1..(Len(s) + 1)
        BY <1>1, <3>2
      <4> QED BY <1>3, <1>5, <3>1, <4>1 DEF Elems
    <3>3. CASE ~(i <= m)
      <4>1. i \in (m + 1)..Len(s) /\ i + 1 \in 1..(Len(s) + 1)
        BY <1>1, <3>3
      <4> QED BY <1>3, <1>5, <3>1, <4>1 DEF Elems
    <3> QED BY <3>2, <3>3
  <2>3. x \in Elems(r)
    <3>1. m + 1 \in 1..(Len(s) + 1)
      BY <1>1
    <3> QED BY <1>3, <1>5, <3>1 DEF Elems
  <2> QED BY <2>1, <2>2, <2>3
<1> QED BY <1>3, <1>5, <1>7, <1>8 DEF r

\* An element taken off.
Drop(s, m) == [i \in 1..(Len(s) - 1) |-> IF i < m THEN s[i] ELSE s[i + 1]]

\* The others stay, in their order.
LEMMA DropIs ==
  ASSUME NEW s \in Seq(Node), Distinct(s), NEW m \in 1..Len(s)
  PROVE  /\ Drop(s, m) \in Seq(Node)
         /\ Len(Drop(s, m)) = Len(s) - 1
         /\ \A i \in 1..(m - 1) : Drop(s, m)[i] = s[i]
         /\ \A i \in m..(Len(s) - 1) : Drop(s, m)[i] = s[i + 1]
         /\ Distinct(Drop(s, m))
         /\ Elems(Drop(s, m)) = Elems(s) \ {s[m]}
<1> DEFINE r == Drop(s, m)
<1>1. /\ Len(s) \in Nat /\ DOMAIN s = 1..Len(s)
      /\ m \in Nat /\ m >= 1 /\ m <= Len(s)
  OBVIOUS
<1>2. \A i \in 1..Len(s) : s[i] \in Node
  OBVIOUS
<1>3. r \in Seq(Node) /\ Len(r) = Len(s) - 1 /\ DOMAIN r = 1..(Len(s) - 1)
  <2>1. Len(s) - 1 \in Nat
    BY <1>1
  <2>2. \A i \in 1..(Len(s) - 1) : (IF i < m THEN s[i] ELSE s[i + 1]) \in Node
    BY <1>1, <1>2
  <2> QED BY <2>1, <2>2 DEF Drop
<1>4. \A i \in 1..(Len(s) - 1) : r[i] = IF i < m THEN s[i] ELSE s[i + 1]
  BY DEF Drop
<1> HIDE DEF r
<1>5. /\ \A i \in 1..(m - 1) : r[i] = s[i]
      /\ \A i \in m..(Len(s) - 1) : r[i] = s[i + 1]
  BY <1>1, <1>4
<1>6. \A k, l \in 1..Len(s) : s[k] = s[l] => k = l
  BY <1>1 DEF Distinct
<1>7. Distinct(r)
  <2> SUFFICES ASSUME NEW i \in 1..(Len(s) - 1), NEW j \in 1..(Len(s) - 1), r[i] = r[j]
               PROVE  i = j
    BY <1>3 DEF Distinct
  <2>1. /\ i \in 1..Len(s) /\ i + 1 \in 1..Len(s)
        /\ j \in 1..Len(s) /\ j + 1 \in 1..Len(s)
    BY <1>1
  <2> QED BY <1>1, <1>4, <1>6, <2>1
<1>8. Elems(r) = Elems(s) \ {s[m]}
  <2>1. ASSUME NEW y \in Elems(r) PROVE y \in Elems(s) \ {s[m]}
    <3>1. PICK i \in 1..(Len(s) - 1) : y = r[i]
      BY <1>3 DEF Elems
    <3>2. i \in 1..Len(s) /\ i + 1 \in 1..Len(s) /\ i + 1 # i /\ m \in 1..Len(s)
      BY <1>1
    <3>3. PICK l \in 1..Len(s) : y = s[l] /\ l # m
      <4>1. CASE i < m
        BY <1>4, <3>1, <3>2, <4>1
      <4>2. CASE ~(i < m)
        <5>1. i + 1 # m
          BY <1>1, <4>2
        <5> QED BY <1>4, <3>1, <3>2, <4>2, <5>1
      <4> QED BY <4>1, <4>2
    <3> QED BY <1>1, <1>6, <3>2, <3>3 DEF Elems
  <2>2. ASSUME NEW y \in Elems(s) \ {s[m]} PROVE y \in Elems(r)
    <3>1. PICK i \in 1..Len(s) : y = s[i] /\ i # m
      BY <1>1 DEF Elems
    <3>2. CASE i < m
      <4>1. i \in 1..(m - 1) /\ i \in 1..(Len(s) - 1)
        BY <1>1, <3>2
      <4> QED BY <1>3, <1>5, <3>1, <4>1 DEF Elems
    <3>3. CASE ~(i < m)
      <4>1. i - 1 \in m..(Len(s) - 1) /\ i - 1 \in 1..(Len(s) - 1) /\ (i - 1) + 1 = i
        BY <1>1, <3>1, <3>3
      <4>2. r[i - 1] = s[i]
        BY <1>5, <4>1
      <4> QED BY <1>3, <3>1, <4>1, <4>2 DEF Elems
    <3> QED BY <3>2, <3>3
  <2> QED BY <2>1, <2>2
<1> QED BY <1>3, <1>5, <1>7, <1>8 DEF r

\* A sequence of different elements has as many as it is long.
LEMMA DistinctLength ==
  ASSUME NEW S, NEW s \in Seq(S), Distinct(s)
  PROVE  IsFiniteSet(Elems(s)) /\ Cardinality(Elems(s)) = Len(s)
<1>1. Len(s) \in Nat /\ DOMAIN s = 1..Len(s)
  BY LenProperties
<1>2. s \in [1..Len(s) -> Elems(s)]
  BY <1>1 DEF Elems
<1>3. s \in Bijection(1..Len(s), Elems(s))
  BY <1>1, <1>2 DEF Distinct, Elems, Bijection, Injection, Surjection, IsInjective
<1>4. ExistsBijection(1..Len(s), Elems(s))
  BY <1>3 DEF ExistsBijection
<1>5. 1 \in Int /\ Len(s) \in Int /\ IsFiniteSet(1..Len(s))
  BY <1>1, FS_Interval
<1> QED BY <1>1, <1>4, <1>5, FS_CountingElements, FS_Bijection

\* The header, the elements of the list, and the header again.
At(h, q, i) == IF i \in 1 .. Len(q) THEN q[i] ELSE h

\* The list of a header: a ring through it.
Ring(m, h, q) ==
  /\ q \in Seq(Node) /\ Distinct(q)
  /\ \A i \in 0 .. Len(q) :
       /\ m[At(h, q, i)].next = At(h, q, i + 1)
       /\ m[At(h, q, i + 1)].prev = At(h, q, i)

\* Its elements, in sequence.
LEMMA Places ==
  ASSUME NEW h \in Header, NEW q \in Seq(Node), Distinct(q)
  PROVE  /\ Len(q) \in Nat /\ DOMAIN q = 1 .. Len(q)
         /\ At(h, q, 0) = h /\ At(h, q, Len(q) + 1) = h
         /\ \A i \in 1 .. Len(q) : At(h, q, i) = q[i] /\ q[i] \in Node /\ q[i] # h
         /\ \A i, j \in 0 .. Len(q) : At(h, q, i) = At(h, q, j) => i = j
         /\ \A i, j \in 1 .. (Len(q) + 1) : At(h, q, i) = At(h, q, j) => i = j
         /\ \A i \in 0 .. (Len(q) + 1) : At(h, q, i) \in {h} \cup Elems(q)
         /\ Elems(q) \subseteq Node /\ h \notin Node
<1>1. Len(q) \in Nat /\ DOMAIN q = 1 .. Len(q) /\ h \notin Node
  BY DListConstants
<1>2. \A i \in 1 .. Len(q) : At(h, q, i) = q[i] /\ q[i] \in Node /\ q[i] # h
  BY <1>1 DEF At
<1>3. ~(0 \in 1 .. Len(q)) /\ ~(Len(q) + 1 \in 1 .. Len(q))
  BY <1>1
<1>4. At(h, q, 0) = h /\ At(h, q, Len(q) + 1) = h
  BY <1>3 DEF At
<1>5. \A i, j \in 1 .. Len(q) : q[i] = q[j] => i = j
  BY <1>1 DEF Distinct
<1>6. \A i \in 0 .. Len(q) : i = 0 \/ i \in 1 .. Len(q)
  BY <1>1
<1>7. \A i \in 1 .. (Len(q) + 1) : i = Len(q) + 1 \/ i \in 1 .. Len(q)
  BY <1>1
<1>8. \A i, j \in 0 .. Len(q) : At(h, q, i) = At(h, q, j) => i = j
  BY <1>2, <1>4, <1>5, <1>6
<1>9. \A i, j \in 1 .. (Len(q) + 1) : At(h, q, i) = At(h, q, j) => i = j
  BY <1>2, <1>4, <1>5, <1>7
<1>10. \A i \in 0 .. (Len(q) + 1) : At(h, q, i) \in {h} \cup Elems(q)
  BY <1>1 DEF At, Elems
<1>11. Elems(q) \subseteq Node
  BY <1>1, <1>2 DEF Elems
<1> QED BY <1>1, <1>2, <1>4, <1>8, <1>9, <1>10, <1>11

\* A list is the same where its pointers are.
LEMMA RingFrame ==
  ASSUME NEW h \in Header, NEW m, NEW q, Ring(m, h, q), NEW m2,
         \A e \in {h} \cup Elems(q) : m2[e] = m[e]
  PROVE  Ring(m2, h, q)
<1>1. q \in Seq(Node) /\ Distinct(q)
  BY DEF Ring
<1>2. \A i \in 0 .. (Len(q) + 1) : At(h, q, i) \in {h} \cup Elems(q)
  BY <1>1, Places
<1>3. \A i \in 0 .. Len(q) : i \in 0 .. (Len(q) + 1) /\ i + 1 \in 0 .. (Len(q) + 1)
  BY <1>1
<1> QED BY <1>1, <1>2, <1>3 DEF Ring

\* The empty list.
LEMMA RingInit ==
  ASSUME NEW h \in Header, NEW m \in Memory
  PROVE  ListInit(m, h) \in Memory /\ Ring(ListInit(m, h), h, <<>>)
<1>1. ListInit(m, h) \in Memory
  BY DEF ListInit, Memory, Pointer, Elem
<1>2. ListInit(m, h)[h] = [next |-> h, prev |-> h]
  BY DEF ListInit, Memory, Elem
<1>3. \A i \in Int : At(h, <<>>, i) = h
  BY DEF At
<1>4. Distinct(<<>>) /\ <<>> \in Seq(Node) /\ Len(<<>>) = 0
  BY DEF Distinct
<1> QED BY <1>1, <1>2, <1>3, <1>4 DEF Ring

\* An element put behind the p-th of a list.
LEMMA RingPut ==
  ASSUME NEW h \in Header, NEW m, NEW q, Ring(m, h, q), NEW p \in 0 .. Len(q),
         NEW x \in Node, x \notin Elems(q), NEW m2,
         m2[x].next = At(h, q, p + 1), m2[x].prev = At(h, q, p),
         \A e \in {h} \cup Elems(q) :
           /\ m2[e].next = IF e = At(h, q, p) THEN x ELSE m[e].next
           /\ m2[e].prev = IF e = At(h, q, p + 1) THEN x ELSE m[e].prev
  PROVE  Ring(m2, h, Put(q, p, x))
<1> DEFINE r == Put(q, p, x)
           n == Len(q)
<1>1. q \in Seq(Node) /\ Distinct(q) /\ n \in Nat /\ p \in Nat /\ p <= n
  BY DEF Ring
<1>2. /\ r \in Seq(Node) /\ Len(r) = n + 1 /\ Distinct(r)
      /\ \A i \in 1 .. p : r[i] = q[i]
      /\ r[p + 1] = x
      /\ \A i \in (p + 1) .. n : r[i + 1] = q[i]
  BY <1>1, PutIs
<1> HIDE DEF r
<1>3. \A i \in 0 .. p : At(h, r, i) = At(h, q, i)
  <2> TAKE i \in 0 .. p
  <2>1. CASE i = 0
    BY <1>1, <1>2, <2>1, Places
  <2>2. CASE i # 0
    <3>1. i \in 1 .. p /\ i \in 1 .. n /\ i \in 1 .. (n + 1)
      BY <1>1, <2>2
    <3> QED BY <1>2, <3>1 DEF At
  <2> QED BY <2>1, <2>2
<1>4. At(h, r, p + 1) = x
  <2>1. p + 1 \in 1 .. (n + 1)
    BY <1>1
  <2> QED BY <1>2, <2>1 DEF At
<1>5. \A i \in (p + 1) .. (n + 1) : At(h, r, i + 1) = At(h, q, i)
  <2> TAKE i \in (p + 1) .. (n + 1)
  <2>1. CASE i = n + 1
    <3>1. At(h, r, Len(r) + 1) = h /\ At(h, q, n + 1) = h
      BY <1>1, <1>2, Places
    <3> QED BY <1>2, <2>1, <3>1
  <2>2. CASE i # n + 1
    <3>1. i \in (p + 1) .. n /\ i \in 1 .. n /\ i + 1 \in 1 .. (n + 1)
      BY <1>1, <2>2
    <3> QED BY <1>2, <3>1 DEF At
  <2> QED BY <2>1, <2>2
<1>6. \A i, j \in 0 .. n : At(h, q, i) = At(h, q, j) => i = j
  BY <1>1, Places
<1>7. \A i, j \in 1 .. (n + 1) : At(h, q, i) = At(h, q, j) => i = j
  BY <1>1, Places
<1>8. \A i \in 0 .. (n + 1) : At(h, q, i) \in {h} \cup Elems(q)
  BY <1>1, Places
<1>9. \A i \in 0 .. n :
        /\ m[At(h, q, i)].next = At(h, q, i + 1)
        /\ m[At(h, q, i + 1)].prev = At(h, q, i)
  BY DEF Ring
<1>10. ASSUME NEW i \in 0 .. n, i # p
       PROVE  /\ m2[At(h, q, i)].next = At(h, q, i + 1)
              /\ m2[At(h, q, i + 1)].prev = At(h, q, i)
  <2>1. /\ i \in 0 .. (n + 1) /\ i + 1 \in 0 .. (n + 1) /\ i + 1 \in 1 .. (n + 1)
        /\ p + 1 \in 1 .. (n + 1) /\ i + 1 # p + 1 /\ p \in 0 .. n
    BY <1>1, <1>10
  <2>2. At(h, q, i) # At(h, q, p) /\ At(h, q, i + 1) # At(h, q, p + 1)
    BY <1>6, <1>7, <1>10, <2>1
  <2> QED BY <1>8, <1>9, <2>1, <2>2
<1>11. ASSUME NEW i \in 0 .. Len(r)
       PROVE  /\ m2[At(h, r, i)].next = At(h, r, i + 1)
              /\ m2[At(h, r, i + 1)].prev = At(h, r, i)
  <2>1. CASE i < p
    <3>1. i \in 0 .. p /\ i + 1 \in 0 .. p /\ i \in 0 .. n /\ i # p
      BY <1>1, <2>1
    <3> QED BY <1>3, <1>10, <3>1
  <2>2. CASE i = p
    <3>1. p \in 0 .. p /\ p \in 0 .. (n + 1)
      BY <1>1
    <3> QED BY <1>3, <1>4, <1>8, <2>2, <3>1
  <2>3. CASE i = p + 1
    <3>1. p + 1 \in (p + 1) .. (n + 1) /\ p + 1 \in 0 .. (n + 1)
      BY <1>1
    <3>2. At(h, r, i + 1) = At(h, q, p + 1)
      BY <1>5, <2>3, <3>1
    <3> QED BY <1>4, <1>8, <2>3, <3>1, <3>2
  <2>4. CASE i > p + 1
    <3>1. /\ i - 1 \in (p + 1) .. (n + 1) /\ i \in (p + 1) .. (n + 1) /\ (i - 1) + 1 = i
          /\ i - 1 \in 0 .. n /\ i - 1 # p
      BY <1>1, <1>2, <2>4
    <3>2. At(h, r, i) = At(h, q, i - 1) /\ At(h, r, i + 1) = At(h, q, i)
      BY <1>5, <3>1
    <3>3. /\ m2[At(h, q, i - 1)].next = At(h, q, i)
          /\ m2[At(h, q, i)].prev = At(h, q, i - 1)
      BY <1>10, <3>1
    <3> QED BY <3>2, <3>3
  <2> QED BY <1>1, <1>2, <2>1, <2>2, <2>3, <2>4
<1>12. Ring(m2, h, r)
  BY <1>2, <1>11 DEF Ring
<1> QED BY <1>12 DEF r

\* The p-th element of a list taken off.
LEMMA RingDrop ==
  ASSUME NEW h \in Header, NEW m, NEW q, Ring(m, h, q), NEW p \in 1 .. Len(q),
         NEW m2,
         \A e \in ({h} \cup Elems(q)) \ {q[p]} :
           /\ m2[e].next = IF e = At(h, q, p - 1) THEN At(h, q, p + 1) ELSE m[e].next
           /\ m2[e].prev = IF e = At(h, q, p + 1) THEN At(h, q, p - 1) ELSE m[e].prev
  PROVE  Ring(m2, h, Drop(q, p))
<1> DEFINE r == Drop(q, p)
           n == Len(q)
<1>1. q \in Seq(Node) /\ Distinct(q) /\ n \in Nat /\ p \in Nat /\ p >= 1 /\ p <= n
  BY DEF Ring
<1>2. /\ r \in Seq(Node) /\ Len(r) = n - 1 /\ Distinct(r)
      /\ \A i \in 1 .. (p - 1) : r[i] = q[i]
      /\ \A i \in p .. (n - 1) : r[i] = q[i + 1]
  BY <1>1, DropIs
<1> HIDE DEF r
<1>3. \A i \in 0 .. (p - 1) : At(h, r, i) = At(h, q, i)
  <2> TAKE i \in 0 .. (p - 1)
  <2>1. CASE i = 0
    BY <1>1, <1>2, <2>1, Places
  <2>2. CASE i # 0
    <3>1. i \in 1 .. (p - 1) /\ i \in 1 .. n /\ i \in 1 .. (n - 1)
      BY <1>1, <2>2
    <3> QED BY <1>2, <3>1 DEF At
  <2> QED BY <2>1, <2>2
<1>5. \A i \in p .. n : At(h, r, i) = At(h, q, i + 1)
  <2> TAKE i \in p .. n
  <2>1. CASE i = n
    <3>1. At(h, r, Len(r) + 1) = h /\ At(h, q, n + 1) = h
      BY <1>1, <1>2, Places
    <3>2. Len(r) + 1 = n
      BY <1>1, <1>2
    <3> QED BY <2>1, <3>1, <3>2
  <2>2. CASE i # n
    <3>1. i \in p .. (n - 1) /\ i \in 1 .. (n - 1) /\ i + 1 \in 1 .. n
      BY <1>1, <2>2
    <3> QED BY <1>2, <3>1 DEF At
  <2> QED BY <2>1, <2>2
<1>6. \A i, j \in 0 .. n : At(h, q, i) = At(h, q, j) => i = j
  BY <1>1, Places
<1>7. \A i, j \in 1 .. (n + 1) : At(h, q, i) = At(h, q, j) => i = j
  BY <1>1, Places
<1>8. \A i \in 0 .. (n + 1) : At(h, q, i) \in {h} \cup Elems(q)
  BY <1>1, Places
<1>9. \A i \in 0 .. n :
        /\ m[At(h, q, i)].next = At(h, q, i + 1)
        /\ m[At(h, q, i + 1)].prev = At(h, q, i)
  BY DEF Ring
<1>4. At(h, q, p) = q[p]
  BY <1>1, Places
<1>10. ASSUME NEW i \in 0 .. n, i # p, i # p - 1
       PROVE  /\ m2[At(h, q, i)].next = At(h, q, i + 1)
              /\ m2[At(h, q, i + 1)].prev = At(h, q, i)
  <2>1. /\ i \in 0 .. (n + 1) /\ i + 1 \in 0 .. (n + 1) /\ i + 1 \in 1 .. (n + 1)
        /\ p + 1 \in 1 .. (n + 1) /\ i + 1 # p + 1 /\ p \in 0 .. n /\ p - 1 \in 0 .. n
        /\ p \in 1 .. (n + 1) /\ i + 1 # p
    BY <1>1, <1>10
  <2>2. At(h, q, i) # At(h, q, p - 1) /\ At(h, q, i + 1) # At(h, q, p + 1)
    BY <1>6, <1>7, <1>10, <2>1
  <2>3. At(h, q, i) # At(h, q, p) /\ At(h, q, i + 1) # At(h, q, p)
    BY <1>6, <1>7, <1>10, <2>1
  <2> QED BY <1>4, <1>8, <1>9, <2>1, <2>2, <2>3
<1>11. /\ m2[At(h, q, p - 1)].next = At(h, q, p + 1)
       /\ m2[At(h, q, p + 1)].prev = At(h, q, p - 1)
  <2>1. /\ p - 1 \in 0 .. n /\ p + 1 \in 1 .. (n + 1) /\ p \in 0 .. n /\ p \in 1 .. (n + 1)
        /\ p - 1 # p /\ p + 1 # p /\ p - 1 \in 0 .. (n + 1) /\ p + 1 \in 0 .. (n + 1)
    BY <1>1
  <2>2. At(h, q, p - 1) # At(h, q, p) /\ At(h, q, p + 1) # At(h, q, p)
    BY <1>6, <1>7, <2>1
  <2> QED BY <1>4, <1>8, <2>1, <2>2
<1>12. ASSUME NEW i \in 0 .. Len(r)
       PROVE  /\ m2[At(h, r, i)].next = At(h, r, i + 1)
              /\ m2[At(h, r, i + 1)].prev = At(h, r, i)
  <2>1. CASE i < p - 1
    <3>1. /\ i \in 0 .. (p - 1) /\ i + 1 \in 0 .. (p - 1) /\ i \in 0 .. n /\ i # p
          /\ i # p - 1
      BY <1>1, <2>1
    <3> QED BY <1>3, <1>10, <3>1
  <2>2. CASE i = p - 1
    <3>1. p - 1 \in 0 .. (p - 1) /\ p \in p .. n /\ (p - 1) + 1 = p
      BY <1>1
    <3>2. At(h, r, i) = At(h, q, p - 1) /\ At(h, r, i + 1) = At(h, q, p + 1)
      BY <1>3, <1>5, <2>2, <3>1
    <3> QED BY <1>11, <3>2
  <2>4. CASE i > p - 1
    <3>1. /\ i \in p .. n /\ i + 1 \in p .. n /\ i + 1 \in 0 .. n /\ i + 1 # p
          /\ i + 1 # p - 1
      BY <1>1, <1>2, <2>4
    <3>2. At(h, r, i) = At(h, q, i + 1) /\ At(h, r, i + 1) = At(h, q, (i + 1) + 1)
      BY <1>5, <3>1
    <3> QED BY <1>10, <3>1, <3>2
  <2> QED BY <1>1, <1>2, <2>1, <2>2, <2>4
<1>13. Ring(m2, h, r)
  BY <1>2, <1>12 DEF Ring
<1> QED BY <1>13 DEF r

\* Its elements lead to each other.
LEMMA RingLinked ==
  ASSUME NEW h \in Header, NEW m, NEW q, Ring(m, h, q)
  PROVE  Linked(m, {h} \cup Elems(q))
<1>1. q \in Seq(Node) /\ Distinct(q)
  BY DEF Ring
<1> SUFFICES ASSUME NEW e \in {h} \cup Elems(q)
             PROVE  /\ m[e].next \in {h} \cup Elems(q) /\ m[m[e].next].prev = e
                    /\ m[e].prev \in {h} \cup Elems(q) /\ m[m[e].prev].next = e
  BY DEF Linked
<1>2. /\ Len(q) \in Nat /\ DOMAIN q = 1 .. Len(q)
      /\ At(h, q, 0) = h /\ At(h, q, Len(q) + 1) = h
      /\ \A i \in 1 .. Len(q) : At(h, q, i) = q[i]
      /\ \A i \in 0 .. (Len(q) + 1) : At(h, q, i) \in {h} \cup Elems(q)
  BY <1>1, Places
<1>3. PICK i \in 0 .. Len(q) : At(h, q, i) = e
  <2>1. CASE e = h
    BY <1>2, <2>1
  <2>2. CASE e # h
    <3>1. PICK j \in 1 .. Len(q) : e = q[j]
      BY <1>2, <2>2 DEF Elems
    <3>2. j \in 0 .. Len(q)
      BY <1>2
    <3> QED BY <1>2, <3>1, <3>2
  <2> QED BY <2>1, <2>2
<1>4. PICK j \in 0 .. Len(q) : At(h, q, j + 1) = e
  <2>1. CASE i = 0
    <3>1. Len(q) \in 0 .. Len(q)
      BY <1>2
    <3> QED BY <1>2, <1>3, <2>1, <3>1
  <2>2. CASE i # 0
    <3>1. i - 1 \in 0 .. Len(q) /\ (i - 1) + 1 = i
      BY <1>2, <2>2
    <3> QED BY <1>3, <3>1
  <2> QED BY <2>1, <2>2
<1>5. i + 1 \in 0 .. (Len(q) + 1) /\ j \in 0 .. (Len(q) + 1)
  BY <1>2
<1> QED BY <1>2, <1>3, <1>4, <1>5 DEF Ring

-----------------------------------------------------------------------------
(* A walk along the pointers of a list.                                    *)

\* A walk of at most N elements, where f does the rest of it.
Walks(N) == (0 .. N) \X Pointer
Walk(m, N, f) ==
  [at \in Walks(N) |->
     IF at[1] = 0 \/ at[2] \notin Node THEN <<>>
     ELSE <<at[2]>> \o f[<<at[1] - 1, m[at[2]].next>>]]

\* The recursion that From is defined by has a solution.
LEMMA WalkExists ==
  ASSUME NEW m \in Memory, NEW N \in Nat
  PROVE  \E f : f = Walk(m, N, f)
<1> DEFINE Bad == {n \in Nat : ~ \E f : f = Walk(m, n, f)}
<1> SUFFICES ASSUME Bad # {} PROVE FALSE
  OBVIOUS
<1>1. PICK n \in Bad : \A k \in Bad : n <= k
  BY LeastExists
<1>2. n \in Nat /\ ~ \E f : f = Walk(m, n, f)
  OBVIOUS
<1>3. CASE n = 0
  <2> DEFINE f == [at \in Walks(0) |-> <<>>]
  <2>1. \A at \in Walks(0) : at[1] = 0
    BY DEF Walks
  <2>2. f = Walk(m, 0, f)
    BY <2>1 DEF Walk
  <2> QED BY <2>2, <1>2, <1>3
<1>4. CASE n # 0
  <2>1. n - 1 \in Nat /\ n - 1 \notin Bad
    BY <1>1, <1>2, <1>4
  <2>2. PICK f : f = Walk(m, n - 1, f)
    BY <2>1
  <2> DEFINE g == Walk(m, n, f)
  <2>3. \A at \in Walks(n - 1) :
          f[at] = IF at[1] = 0 \/ at[2] \notin Node THEN <<>>
                  ELSE <<at[2]>> \o f[<<at[1] - 1, m[at[2]].next>>]
    BY <2>2 DEF Walk
  <2>4. \A at \in Walks(n) :
          g[at] = IF at[1] = 0 \/ at[2] \notin Node THEN <<>>
                  ELSE <<at[2]>> \o f[<<at[1] - 1, m[at[2]].next>>]
    BY DEF Walk
  <2> HIDE DEF g
  <2>5. Walks(n - 1) \subseteq Walks(n)
    BY <1>2, <2>1 DEF Walks
  <2>6. \A at \in Walks(n - 1) : g[at] = f[at]
    BY <2>3, <2>4, <2>5
  <2>7. ASSUME NEW at \in Walks(n), at[1] # 0, at[2] \in Node
        PROVE  f[<<at[1] - 1, m[at[2]].next>>] = g[<<at[1] - 1, m[at[2]].next>>]
    <3>1. m[at[2]].next \in Pointer
      BY <2>7 DEF Memory, Elem
    <3>2. <<at[1] - 1, m[at[2]].next>> \in Walks(n - 1)
      BY <1>2, <2>1, <2>7, <3>1 DEF Walks
    <3> QED BY <3>2, <2>6
  <2>8. Walk(m, n, f) = Walk(m, n, g)
    BY <2>7 DEF Walk
  <2>9. g = Walk(m, n, g)
    BY <2>8 DEF g
  <2> QED BY <2>9, <1>2
<1> QED BY <1>3, <1>4

\* Reading a list is such a walk.
LEMMA ListIsWalk ==
  ASSUME NEW m \in Memory, NEW h
  PROVE  \E f : /\ f = Walk(m, Cardinality(Node), f)
                /\ ListOf(m, h) = f[<<Cardinality(Node), m[h].next>>]
<1> DEFINE g == CHOOSE f : f = Walk(m, Cardinality(Node), f)
<1>1. Cardinality(Node) \in Nat
  BY TrapConstants, FS_CardinalityType
<1>2. \E f : f = Walk(m, Cardinality(Node), f)
  BY <1>1, WalkExists
<1>3. g = Walk(m, Cardinality(Node), g)
  BY <1>2
<1>4. ListOf(m, h) = g[<<Cardinality(Node), m[h].next>>]
  BY Zenon DEF ListOf, From, Walk, Walks
<1> QED BY <1>3, <1>4

\* A header that was never initialised has no elements.
LEMMA ListNone ==
  ASSUME NEW m \in Memory, NEW h, m[h].next = Null
  PROVE  ListOf(m, h) = <<>>
<1>1. PICK f : /\ f = Walk(m, Cardinality(Node), f)
               /\ ListOf(m, h) = f[<<Cardinality(Node), m[h].next>>]
  BY ListIsWalk
<1>2. Cardinality(Node) \in Nat
  BY TrapConstants, FS_CardinalityType
<1>3. <<Cardinality(Node), Null>> \in Walks(Cardinality(Node)) /\ Null \notin Node
  BY <1>2, DListConstants DEF Walks, Pointer
<1> QED BY <1>1, <1>3 DEF Walk

\* A walk through a ring reads its elements.
LEMMA ListIs ==
  ASSUME NEW m \in Memory, NEW h \in Header, NEW q, Ring(m, h, q)
  PROVE  ListOf(m, h) = q
<1> DEFINE N == Cardinality(Node)
           at(d) == IF d = 0 THEN h ELSE q[Len(q) + 1 - d]
           rest(d) == SubSeq(q, Len(q) + 1 - d, Len(q))
<1>1. PICK f : f = Walk(m, N, f) /\ ListOf(m, h) = f[<<N, m[h].next>>]
  BY ListIsWalk
<1>0. q \in Seq(Node) /\ Distinct(q)
  BY DEF Ring
<1>2. /\ q \in Seq(Node) /\ Len(q) \in Nat /\ N \in Nat /\ Len(q) <= N
      /\ \A i \in 1 .. Len(q) : q[i] \in Node
      /\ h \notin Node /\ h \in Pointer
  <2>1. IsFiniteSet(Elems(q)) /\ Cardinality(Elems(q)) = Len(q)
    BY <1>0, DistinctLength
  <2>2. Elems(q) \subseteq Node /\ h \notin Node /\ \A i \in 1 .. Len(q) : q[i] \in Node
    BY <1>0, Places
  <2>3. N \in Nat /\ Cardinality(Elems(q)) <= N
    BY <2>2, TrapConstants, FS_CardinalityType, FS_Subset
  <2>4. h \in Pointer
    BY DEF Pointer, Elem
  <2> QED BY <1>0, <2>1, <2>2, <2>3, <2>4
<1> DEFINE Bad == {d \in 0 .. Len(q) : \E n \in d .. N : f[<<n, at(d)>>] # rest(d)}
<1> HIDE DEF N
<1>3. ASSUME Bad # {} PROVE FALSE
  <2>1. PICK d \in Bad : \A e \in Bad : d <= e
    <3>1. Bad \subseteq Nat
      BY <1>2
    <3> QED BY <1>3, <3>1, LeastExists
  <2>2. PICK n \in d .. N : f[<<n, at(d)>>] # rest(d)
    OBVIOUS
  <2>3. d \in 0 .. Len(q) /\ n \in 0 .. N /\ n \in Nat /\ d \in Nat
    BY <1>2
  <2>4. CASE d = 0
    <3>1. <<n, h>> \in Walks(N)
      BY <1>2, <2>3 DEF Walks
    <3>2. f[<<n, h>>] = <<>>
      BY <3>1, <1>1, <1>2 DEF Walk
    <3>3. rest(d) = <<>>
      BY <1>2, <2>4, SubSeqEmpty
    <3> QED BY <2>2, <2>4, <3>2, <3>3
  <2>5. CASE d # 0
    <3> DEFINE i == Len(q) + 1 - d
    <3>1. i \in 1 .. Len(q) /\ at(d) = q[i] /\ q[i] \in Node /\ n # 0
      BY <1>2, <2>3, <2>5
    <3>2. <<n, q[i]>> \in Walks(N)
      BY <2>3, <3>1 DEF Walks, Pointer, Elem
    <3>3. f[<<n, q[i]>>] = <<q[i]>> \o f[<<n - 1, m[q[i]].next>>]
      BY <1>1, <3>1, <3>2 DEF Walk
    <3>4. m[q[i]].next = at(d - 1)
      <4>1. m[q[i]].next = At(h, q, i + 1)
        <5>1. i \in 0 .. Len(q) /\ At(h, q, i) = q[i]
          BY <1>2, <3>1 DEF At
        <5> QED BY <5>1 DEF Ring
      <4>2. (i = Len(q) <=> d - 1 = 0) /\ i + 1 = Len(q) + 1 - (d - 1)
        BY <1>2, <2>3, <2>5
      <4>3. CASE i = Len(q)
        <5>1. At(h, q, Len(q) + 1) = h
          BY <1>0, Places
        <5> QED BY <4>1, <4>2, <4>3, <5>1
      <4>4. CASE i # Len(q)
        <5>1. at(d - 1) = q[Len(q) + 1 - (d - 1)]
          BY <4>2, <4>4
        <5>2. q[Len(q) + 1 - (d - 1)] = q[i + 1] /\ i + 1 \in 1 .. Len(q)
          BY <1>2, <3>1, <4>2, <4>4
        <5> QED BY <4>1, <5>1, <5>2 DEF At
      <4> QED BY <4>3, <4>4
    <3>5. ASSUME d - 1 \in Bad PROVE FALSE
      <4>1. d <= d - 1
        BY <2>1, <3>5
      <4> QED BY <2>3, <4>1
    <3>6. f[<<n - 1, at(d - 1)>>] = rest(d - 1)
      <4>1. d - 1 \in 0 .. Len(q) /\ n - 1 \in (d - 1) .. N
        BY <1>2, <2>3, <2>5
      <4> QED BY <3>5, <4>1
    <3>7. rest(d) = <<q[i]>> \o rest(d - 1)
      <4>1. Len(q) \in i .. Len(q) /\ i + 1 = Len(q) + 1 - (d - 1)
        BY <1>2, <2>3, <3>1
      <4> QED BY <1>2, <3>1, <4>1, SubSeqRecursiveFirst
    <3> QED BY <2>2, <3>1, <3>3, <3>4, <3>6, <3>7
  <2> QED BY <2>4, <2>5
<1>4. Len(q) \notin Bad
  BY <1>3
<1>5. f[<<N, at(Len(q))>>] = rest(Len(q))
  <2>1. Len(q) \in 0 .. Len(q) /\ N \in Len(q) .. N
    BY <1>2
  <2> QED BY <1>4, <2>1
<1>6. at(Len(q)) = m[h].next
  <2>1. m[At(h, q, 0)].next = At(h, q, 0 + 1) /\ At(h, q, 0) = h
    <3>1. 0 \in 0 .. Len(q)
      BY <1>2
    <3> QED BY <1>0, <3>1, Places DEF Ring
  <2>2. CASE Len(q) = 0
    <3>1. At(h, q, 0 + 1) = h
      BY <1>0, <2>2, Places
    <3> QED BY <2>1, <2>2, <3>1
  <2>3. CASE Len(q) # 0
    <3>1. 1 \in 1 .. Len(q) /\ Len(q) + 1 - Len(q) = 1
      BY <1>2, <2>3
    <3> QED BY <2>1, <2>3, <3>1 DEF At
  <2> QED BY <2>2, <2>3
<1>7. rest(Len(q)) = q
  BY <1>2, SubSeqFull
<1> QED BY <1>1, <1>5, <1>6, <1>7

-----------------------------------------------------------------------------
(* Sorted lists.                                                           *)

Sorted(q, data) == \A i, j \in DOMAIN q : i < j => data[q[i]] < data[q[j]]

\* The search stops at the first element that is not smaller.
LEMMA FindIs ==
  ASSUME NEW m \in Memory, NEW h \in Header, NEW q, Ring(m, h, q),
         NEW data \in [Node -> Nat], NEW d \in Nat
  PROVE  \E p \in 0 .. Len(q) :
           /\ FindSorted(m, data, h, d) = At(h, q, p + 1)
           /\ \A i \in 1 .. p : data[q[i]] < d
           /\ p < Len(q) => data[q[p + 1]] >= d
<1> DEFINE hits == {i \in 1 .. Len(q) : data[q[i]] >= d}
<1>1. q \in Seq(Node) /\ Distinct(q) /\ Len(q) \in Nat
      /\ \A i \in 1 .. Len(q) : q[i] \in Node /\ data[q[i]] \in Nat
  BY DEF Ring
<1>6. ListOf(m, h) = q
  BY ListIs
<1>2. FindSorted(m, data, h, d) =
        IF hits = {} THEN h ELSE q[CHOOSE i \in hits : \A j \in hits : i <= j]
  BY <1>6 DEF FindSorted, FirstWhere
<1>3. CASE hits = {}
  <2>1. At(h, q, Len(q) + 1) = h
    BY <1>1, Places
  <2>2. \A i \in 1 .. Len(q) : data[q[i]] < d
    BY <1>1, <1>3
  <2>3. Len(q) \in 0 .. Len(q) /\ ~(Len(q) < Len(q))
    BY <1>1
  <2> QED BY <1>2, <1>3, <2>1, <2>2, <2>3
<1>4. CASE hits # {}
  <2> DEFINE k == CHOOSE i \in hits : \A j \in hits : i <= j
  <2>1. k \in hits /\ \A j \in hits : k <= j
    <3>1. hits \subseteq Nat
      OBVIOUS
    <3> QED BY <1>4, <3>1, LeastExists DEF Lowest
  <2>4. FindSorted(m, data, h, d) = q[k]
    BY <1>2, <1>4
  <2> HIDE DEF k
  <2>2. k \in 1 .. Len(q) /\ k - 1 \in 0 .. Len(q) /\ (k - 1) + 1 = k /\ data[q[k]] >= d
    BY <1>1, <2>1
  <2>3. \A i \in 1 .. (k - 1) : data[q[i]] < d
    <3> TAKE i \in 1 .. (k - 1)
    <3>1. i \in 1 .. Len(q) /\ ~(k <= i)
      BY <1>1, <2>2
    <3> QED BY <1>1, <2>1, <3>1
  <2> QED BY <2>2, <2>3, <2>4 DEF At
<1> QED BY <1>3, <1>4

\* An element is inserted before the first that is greater.
LEMMA InsertSortedIs ==
  ASSUME NEW m \in Memory, NEW h \in Header, NEW q, Ring(m, h, q),
         NEW data \in [Node -> Nat], NEW d \in Nat, NEW x
  PROVE  \E p \in 0 .. Len(q) :
           /\ InsertSorted(m, data, h, x, d) =
                PrvInsert(m, At(h, q, p), At(h, q, p + 1), x)
           /\ \A i \in 1 .. p : data[q[i]] <= d
           /\ p < Len(q) => d < data[q[p + 1]]
<1> DEFINE hits == {i \in 1 .. Len(q) : d < data[q[i]]}
           before == IF hits = {} THEN h ELSE q[CHOOSE i \in hits : \A j \in hits : i <= j]
<1>1. q \in Seq(Node) /\ Distinct(q) /\ Len(q) \in Nat
      /\ \A i \in 1 .. Len(q) : q[i] \in Node /\ data[q[i]] \in Nat
  BY DEF Ring
<1>6. ListOf(m, h) = q
  BY ListIs
<1>2. InsertSorted(m, data, h, x, d) = PrvInsert(m, m[before].prev, before, x)
  BY <1>6 DEF InsertSorted, FirstWhere, InsertBefore
<1>5. \A p \in 0 .. Len(q) : m[At(h, q, p + 1)].prev = At(h, q, p)
  BY DEF Ring
<1>3. CASE hits = {}
  <2>1. At(h, q, Len(q) + 1) = h
    BY <1>1, Places
  <2>2. \A i \in 1 .. Len(q) : data[q[i]] <= d
    BY <1>1, <1>3
  <2>3. Len(q) \in 0 .. Len(q) /\ ~(Len(q) < Len(q))
    BY <1>1
  <2> QED BY <1>2, <1>3, <1>5, <2>1, <2>2, <2>3
<1>4. CASE hits # {}
  <2> DEFINE k == CHOOSE i \in hits : \A j \in hits : i <= j
  <2>1. k \in hits /\ \A j \in hits : k <= j
    <3>1. hits \subseteq Nat
      OBVIOUS
    <3> QED BY <1>4, <3>1, LeastExists DEF Lowest
  <2>4. before = q[k]
    BY <1>4
  <2> HIDE DEF k
  <2>2. k \in 1 .. Len(q) /\ k - 1 \in 0 .. Len(q) /\ (k - 1) + 1 = k /\ d < data[q[k]]
    BY <1>1, <2>1
  <2>3. \A i \in 1 .. (k - 1) : data[q[i]] <= d
    <3> TAKE i \in 1 .. (k - 1)
    <3>1. i \in 1 .. Len(q) /\ ~(k <= i)
      BY <1>1, <2>2
    <3> QED BY <1>1, <2>1, <3>1
  <2>5. At(h, q, (k - 1) + 1) = q[k]
    BY <2>2 DEF At
  <2> QED BY <1>2, <1>5, <2>2, <2>3, <2>4, <2>5
<1> QED BY <1>3, <1>4

\* A sorted list with an element put in its place.
LEMMA PutSorted ==
  ASSUME NEW q \in Seq(Node), Distinct(q), NEW data \in [Node -> Nat], Sorted(q, data),
         NEW p \in 0 .. Len(q), NEW x \in Node, x \notin Elems(q),
         NEW data2 \in [Node -> Nat], \A e \in Elems(q) : data2[e] = data[e],
         \A i \in 1 .. p : data[q[i]] < data2[x],
         p < Len(q) => data2[x] < data[q[p + 1]]
  PROVE  Sorted(Put(q, p, x), data2)
<1> DEFINE r == Put(q, p, x)
<1>1. Len(q) \in Nat /\ DOMAIN q = 1 .. Len(q) /\ p \in Nat /\ p <= Len(q)
  OBVIOUS
<1>2. /\ r \in Seq(Node) /\ Len(r) = Len(q) + 1
      /\ \A i \in 1 .. p : r[i] = q[i]
      /\ r[p + 1] = x
      /\ \A i \in (p + 1) .. Len(q) : r[i + 1] = q[i]
  BY PutIs
<1> HIDE DEF r
<1>3. \A i \in 1 .. Len(q) : data2[q[i]] = data[q[i]] /\ data[q[i]] \in Nat
  BY <1>1 DEF Elems
<1>4. \A i \in (p + 1) .. Len(q) : data2[x] < data[q[i]]
  <2> TAKE i \in (p + 1) .. Len(q)
  <2>1. p < Len(q) /\ p + 1 \in 1 .. Len(q) /\ i \in 1 .. Len(q) /\ p + 1 <= i
    BY <1>1
  <2>2. p + 1 # i => data[q[p + 1]] < data[q[i]]
    <3>1. p + 1 # i => p + 1 < i
      BY <1>1, <2>1
    <3> QED BY <1>1, <2>1, <3>1 DEF Sorted
  <2>3. data2[x] < data[q[p + 1]] /\ data2[x] \in Nat
    BY <2>1
  <2> QED BY <1>3, <2>1, <2>2, <2>3
<1>5. \A i \in 1 .. (Len(q) + 1) :
        \/ i <= p /\ i \in 1 .. p /\ i \in 1 .. Len(q) /\ r[i] = q[i]
        \/ i = p + 1 /\ r[i] = x
        \/ i > p + 1 /\ i - 1 \in (p + 1) .. Len(q) /\ i - 1 \in 1 .. Len(q) /\ r[i] = q[i - 1]
  <2> TAKE i \in 1 .. (Len(q) + 1)
  <2>1. CASE i <= p
    BY <1>1, <1>2, <2>1
  <2>2. CASE i = p + 1
    BY <1>2, <2>2
  <2>3. CASE i > p + 1
    <3>1. i - 1 \in (p + 1) .. Len(q) /\ i - 1 \in 1 .. Len(q) /\ (i - 1) + 1 = i
      BY <1>1, <2>3
    <3> QED BY <1>2, <2>3, <3>1
  <2> QED BY <1>1, <2>1, <2>2, <2>3
<1>6. ASSUME NEW i \in 1 .. (Len(q) + 1), NEW j \in 1 .. (Len(q) + 1), i < j
      PROVE  data2[r[i]] < data2[r[j]]
  <2>1. \A k, l \in 1 .. Len(q) : k < l => data[q[k]] < data[q[l]]
    BY <1>1 DEF Sorted
  <2>2. i \in Nat /\ j \in Nat
    OBVIOUS
  <2>3. CASE i <= p
    <3>1. i \in 1 .. p /\ i \in 1 .. Len(q) /\ r[i] = q[i]
      BY <1>1, <1>5, <2>2, <2>3
    <3>2. CASE j <= p
      <4>1. j \in 1 .. Len(q) /\ r[j] = q[j]
        BY <1>1, <1>5, <2>2, <3>2
      <4> QED BY <1>3, <1>6, <2>1, <3>1, <4>1
    <3>3. CASE j = p + 1
      <4>1. r[j] = x
        BY <1>2, <3>3
      <4> QED BY <1>3, <3>1, <4>1
    <3>4. CASE j > p + 1
      <4>1. j - 1 \in 1 .. Len(q) /\ r[j] = q[j - 1] /\ i < j - 1
        BY <1>1, <1>5, <2>2, <2>3, <3>4
      <4> QED BY <1>3, <2>1, <3>1, <4>1
    <3> QED BY <1>1, <2>2, <3>2, <3>3, <3>4
  <2>4. CASE i = p + 1
    <3>1. r[i] = x
      BY <1>2, <2>4
    <3>2. j - 1 \in (p + 1) .. Len(q) /\ j - 1 \in 1 .. Len(q) /\ r[j] = q[j - 1]
      BY <1>1, <1>5, <1>6, <2>2, <2>4
    <3> QED BY <1>3, <1>4, <3>1, <3>2
  <2>5. CASE i > p + 1
    <3>1. i - 1 \in 1 .. Len(q) /\ r[i] = q[i - 1]
      BY <1>1, <1>5, <2>2, <2>5
    <3>2. j - 1 \in 1 .. Len(q) /\ r[j] = q[j - 1]
      BY <1>1, <1>5, <1>6, <2>2, <2>5
    <3>3. i - 1 < j - 1
      BY <1>6, <2>2
    <3> QED BY <1>3, <2>1, <3>1, <3>2, <3>3
  <2> QED BY <1>1, <2>2, <2>3, <2>4, <2>5
<1>7. DOMAIN r = 1 .. (Len(q) + 1)
  BY <1>2
<1>8. Sorted(r, data2)
  BY <1>6, <1>7 DEF Sorted
<1> QED BY <1>8 DEF r

\* A sorted list with an element taken off.
LEMMA DropSorted ==
  ASSUME NEW q \in Seq(Node), Distinct(q), NEW data, Sorted(q, data),
         NEW p \in 1 .. Len(q),
         NEW data2, \A e \in Elems(q) \ {q[p]} : data2[e] = data[e]
  PROVE  Sorted(Drop(q, p), data2)
<1> DEFINE r == Drop(q, p)
<1>1. Len(q) \in Nat /\ DOMAIN q = 1 .. Len(q) /\ p \in Nat
  OBVIOUS
<1>2. /\ r \in Seq(Node) /\ Len(r) = Len(q) - 1
      /\ \A i \in 1 .. (p - 1) : r[i] = q[i]
      /\ \A i \in p .. (Len(q) - 1) : r[i] = q[i + 1]
      /\ Elems(r) = Elems(q) \ {q[p]}
  BY DropIs
<1> HIDE DEF r
<1>3. DOMAIN r = 1 .. (Len(q) - 1)
  BY <1>2
<1>4. \A i \in 1 .. (Len(q) - 1) : data2[r[i]] = data[r[i]]
  BY <1>2, <1>3 DEF Elems
<1>5. \A i \in 1 .. (Len(q) - 1) :
        \/ i < p /\ i \in 1 .. Len(q) /\ r[i] = q[i]
        \/ i >= p /\ i + 1 \in 1 .. Len(q) /\ r[i] = q[i + 1]
  BY <1>1, <1>2
<1>6. ASSUME NEW i \in 1 .. (Len(q) - 1), NEW j \in 1 .. (Len(q) - 1), i < j
      PROVE  data[r[i]] < data[r[j]]
  <2>1. \A k, l \in 1 .. Len(q) : k < l => data[q[k]] < data[q[l]]
    BY <1>1 DEF Sorted
  <2>2. i \in Nat /\ j \in Nat /\ i < j + 1 /\ i + 1 < j + 1
    BY <1>6
  <2>3. CASE j < p
    <3>1. i < p
      BY <1>1, <1>6, <2>2, <2>3
    <3> QED BY <1>1, <1>5, <1>6, <2>1, <2>2, <2>3, <3>1
  <2>4. CASE j >= p /\ i < p
    BY <1>1, <1>5, <1>6, <2>1, <2>2, <2>4
  <2>5. CASE i >= p
    <3>1. j >= p
      BY <1>1, <1>6, <2>2, <2>5
    <3> QED BY <1>1, <1>5, <1>6, <2>1, <2>2, <2>5, <3>1
  <2> QED BY <1>1, <2>2, <2>3, <2>4, <2>5
<1>7. Sorted(r, data2)
  BY <1>3, <1>4, <1>6 DEF Sorted
<1> QED BY <1>7 DEF r

-----------------------------------------------------------------------------
(* The state of a call, and what holds of it: the sequences that the memory*)
(* links, their flows, their counts.                                       *)

\* What the tables hold.
TrapEntry == [action : PacketAction, valid : [Intf -> BOOLEAN],
              count : [Intf -> Int], notSet : [Intf -> BOOLEAN]]
ListEntry == [used : BOOLEAN, data : PortVlan, valid : BOOLEAN]
FlowEntry == [action : {"none", "drop", "trap", "forward"}, of : Trap \cup {Null}]

\* A loop goes past the end of a list only if its first setting was cut short.
SoundEnds == {e \in Ends : e.passed \subseteq e.short}

CallState ==
  [trap : [Trap -> TrapEntry], mem : Memory, cell : [Node -> ListEntry],
   flow : [Cookie -> FlowEntry], ends : SoundEnds, failed : Nat,
   ok : BOOLEAN, hw : Nat, room : Nat, junk : BOOLEAN, stray : PortVlan, at : Pointer]

ValidIn(s, h) == s.trap[h[1]].valid[h[2]]
CountIn(s, h) == s.trap[h[1]].count[h[2]]
DataIn(s, q) == {s.cell[n].data : n \in Elems(q)}
FlowFor(s, h, pv) == s.flow[CookieOf(h[1], h[2], pv)]

\* L has the elements of the lists in order: rings of elements in use, no
\* element on two lists, sorted by their data.
Shape(s, L) ==
  /\ L \in [Header -> Seq(Node)]
  /\ \A h \in Header :
       IF ValidIn(s, h) THEN Ring(s.mem, h, L[h])
       ELSE L[h] = <<>> /\ s.mem[h].next = Null
  /\ \A h \in Header : \A n \in Elems(L[h]) : s.cell[n].used
  /\ \A g, h \in Header : g # h => Elems(L[g]) \cap Elems(L[h]) = {}
  /\ \A h \in Header : Sorted(L[h], Data(s))

\* No two traps share the entry type their flows are keyed by.
OwnCookies == \A t, u \in Trap : EntryType(t) = EntryType(u) => t = u

\* No fault was met, and no two traps share a flow.
Exact(s) == OwnCookies /\ s.failed = 0

\* No list was cut short, no element is lost, and the flows are those of the elements.
Accounted(s, L) ==
  /\ s.ends = NoEnds
  /\ \A n \in Node : s.cell[n].used => \E h \in Header : n \in Elems(L[h])
  /\ \A h \in Header, pv \in PortVlan :
       /\ FlowFor(s, h, pv) = NoFlow \/ FlowFor(s, h, pv).of = h[1]
       /\ FlowFor(s, h, pv).of = h[1] <=> pv \in DataIn(s, L[h])

Core(s, L) == s \in CallState /\ Shape(s, L) /\ (Exact(s) => Accounted(s, L))

Counted(s, L, h) == CountIn(s, h) = Len(L[h])

Follows(s, L, h) ==
  LET a == FlowAction(s.trap[h[1]].action) IN
  (s.trap[h[1]].notSet[h[2]] /\ a # "unsupported") =>
    \A n \in Elems(L[h]) : FlowFor(s, h, s.cell[n].data).action = a

\* A holds the lists last set and R how many were set since the first. From
\* the second list on, no element is marked between two calls.
AsAsked(s, L, h, A, R) ==
  /\ A[h] \subseteq DataIn(s, L[h])
  /\ R[h] # 1 => DataIn(s, L[h]) = A[h]
  /\ R[h] # 0 => \A n \in Elems(L[h]) : ~s.cell[n].valid

Served(s, L, h, A, R) ==
  Counted(s, L, h) /\ Follows(s, L, h) /\ AsAsked(s, L, h, A, R)

\* Whatever has failed, a list counts no more than it has, unless its first
\* setting was cut short, and one not set yet counts nothing.
Within(s, L, h) ==
  /\ ValidIn(s, h) \/ CountIn(s, h) = 0
  /\ h \notin s.ends.short => CountIn(s, h) <= Len(L[h])

\* The lists but those of X are as they should be.
Others(s, L, X, A, R) ==
  \A h \in Header \ X : h[1] \notin SystemTrap =>
    /\ Within(s, L, h)
    /\ Exact(s) => Served(s, L, h, A, R)

\* A step to r, L2 that leaves the lists of the other headers alone.
Apart(s, L, r, L2, h) ==
  /\ \A g \in Header \ {h} :
       /\ L2[g] = L[g] /\ CountIn(r, g) = CountIn(s, g) /\ (ValidIn(r, g) <=> ValidIn(s, g))
       /\ \A n \in Elems(L[g]) : r.cell[n] = s.cell[n]
       /\ OwnCookies => \A pv \in PortVlan : FlowFor(r, g, pv) = FlowFor(s, g, pv)
  /\ \A t \in Trap : r.trap[t].action = s.trap[t].action /\ r.trap[t].notSet = s.trap[t].notSet
  /\ s.failed # 0 => r.failed # 0
  /\ s.ends.short \subseteq r.ends.short

\* Headers and cookies.
LEMMA Headers ==
  ASSUME NEW h \in Header
  PROVE  h[1] \in Trap /\ h[2] \in Intf /\ h = <<h[1], h[2]>>
BY TrapConstants DEF TrapHeaders

LEMMA HeaderOf ==
  ASSUME NEW t \in Trap, NEW i \in Intf
  PROVE  <<t, i>> \in Header /\ <<t, i>>[1] = t /\ <<t, i>>[2] = i
BY TrapConstants DEF TrapHeaders

LEMMA CookieIs ==
  ASSUME NEW h \in Header, NEW pv \in PortVlan
  PROVE  CookieOf(h[1], h[2], pv) \in Cookie
BY Headers DEF CookieOf, Cookie

LEMMA CookiesDiffer ==
  ASSUME OwnCookies, NEW g \in Header, NEW h \in Header, NEW d, NEW e,
         CookieOf(g[1], g[2], d) = CookieOf(h[1], h[2], e)
  PROVE  g = h /\ d = e
<1>1. EntryType(g[1]) = EntryType(h[1]) /\ g[2] = h[2] /\ d = e
  BY DEF CookieOf
<1>2. g[1] = h[1]
  BY <1>1, Headers DEF OwnCookies
<1> QED BY <1>1, <1>2, Headers

LEMMA PortVlanNat == PortVlan \subseteq Nat /\ 0 \in PortVlan
                     /\ \A i \in Intf : Objects[i] \subseteq PortVlan
BY TrapConstants DEF PortVlan

\* The fields of a state.
LEMMA Fields ==
  ASSUME NEW s \in CallState
  PROVE  /\ s.trap \in [Trap -> TrapEntry] /\ s.mem \in Memory
         /\ s.cell \in [Node -> ListEntry] /\ s.flow \in [Cookie -> FlowEntry]
         /\ s.ends \in SoundEnds /\ s.failed \in Nat /\ s.ok \in BOOLEAN
         /\ s.hw \in Nat /\ s.room \in Nat /\ s.junk \in BOOLEAN /\ s.stray \in PortVlan
         /\ s.at \in Pointer
BY DEF CallState

LEMMA DataType ==
  ASSUME NEW s \in CallState
  PROVE  Data(s) \in [Node -> Nat] /\ \A n \in Node : Data(s)[n] = s.cell[n].data
                                                    /\ s.cell[n].data \in PortVlan
BY Fields, PortVlanNat DEF Data, ListEntry

\* The list of a header.
LEMMA ListShape ==
  ASSUME NEW s, NEW L, Core(s, L), NEW h \in Header
  PROVE  /\ L[h] \in Seq(Node) /\ Distinct(L[h]) /\ Len(L[h]) \in Nat
         /\ DOMAIN L[h] = 1 .. Len(L[h])
         /\ Elems(L[h]) \subseteq Node
         /\ ListOf(s.mem, h) = L[h]
         /\ ValidIn(s, h) => Ring(s.mem, h, L[h])
         /\ Sorted(L[h], Data(s))
         /\ \A n \in Elems(L[h]) : s.cell[n].used
<1>1. s.mem \in Memory /\ L[h] \in Seq(Node)
  BY Fields DEF Core, Shape
<1>2. CASE ValidIn(s, h)
  <2>1. Ring(s.mem, h, L[h]) /\ Distinct(L[h])
    BY <1>2 DEF Core, Shape, Ring
  <2>2. ListOf(s.mem, h) = L[h]
    BY <1>1, <2>1, ListIs
  <2> QED BY <1>1, <2>1, <2>2, Places DEF Core, Shape
<1>3. CASE ~ValidIn(s, h)
  <2>1. L[h] = <<>> /\ s.mem[h].next = Null
    BY <1>3 DEF Core, Shape
  <2>2. Distinct(<<>>) /\ Elems(<<>>) = {} /\ Len(<<>>) = 0
    BY DEF Distinct, Elems
  <2>3. ListOf(s.mem, h) = <<>>
    BY <1>1, <2>1, ListNone
  <2> QED BY <1>1, <1>3, <2>1, <2>2, <2>3 DEF Core, Shape
<1> QED BY <1>2, <1>3

\* A list that is left alone stays as it should be.
LEMMA ServedFrame ==
  ASSUME NEW s, NEW L, NEW r, NEW L2, NEW h \in Header, NEW g \in Header, g # h,
         Core(s, L), Apart(s, L, r, L2, h), OwnCookies,
         NEW A, NEW R, Served(s, L, g, A, R)
  PROVE  Served(r, L2, g, A, R)
<1>1. /\ L2[g] = L[g] /\ CountIn(r, g) = CountIn(s, g)
      /\ \A n \in Elems(L[g]) : r.cell[n] = s.cell[n]
      /\ \A pv \in PortVlan : FlowFor(r, g, pv) = FlowFor(s, g, pv)
      /\ r.trap[g[1]].action = s.trap[g[1]].action
      /\ r.trap[g[1]].notSet = s.trap[g[1]].notSet
  BY Headers DEF Apart
<1>2. \A n \in Elems(L[g]) : s.cell[n].data \in PortVlan
  BY ListShape, DataType DEF Core
<1>3. DataIn(r, L2[g]) = DataIn(s, L[g])
  BY <1>1 DEF DataIn
<1>4. Counted(r, L2, g)
  BY <1>1 DEF Served, Counted
<1>5. Follows(r, L2, g)
  BY <1>1, <1>2 DEF Served, Follows
<1>6. AsAsked(r, L2, g, A, R)
  BY <1>1, <1>3 DEF Served, AsAsked
<1> QED BY <1>4, <1>5, <1>6 DEF Served

LEMMA OthersFrame ==
  ASSUME NEW s, NEW L, NEW r, NEW L2, NEW h \in Header, NEW X, h \in X,
         Core(s, L), Apart(s, L, r, L2, h), NEW A, NEW R, Others(s, L, X, A, R)
  PROVE  Others(r, L2, X, A, R)
<1> SUFFICES ASSUME NEW g \in Header \ X, g[1] \notin SystemTrap
             PROVE  Within(r, L2, g) /\ (Exact(r) => Served(r, L2, g, A, R))
  BY DEF Others
<1>1. Exact(r) => Exact(s)
  BY DEF Exact, Apart
<1>2. Within(s, L, g) /\ (Exact(s) => Served(s, L, g, A, R)) /\ g # h
  BY DEF Others
<1>3. Within(r, L2, g)
  BY <1>2 DEF Within, Apart
<1> QED BY <1>1, <1>2, <1>3, ServedFrame DEF Exact

LEMMA ApartTwice ==
  ASSUME NEW s, NEW L, NEW r, NEW L2, NEW u, NEW L3, NEW h \in Header,
         Apart(s, L, r, L2, h), Apart(r, L2, u, L3, h)
  PROVE  Apart(s, L, u, L3, h)
BY DEF Apart

-----------------------------------------------------------------------------
(* Insertions and removals.                                                *)

\* What the assignments of an insertion and of a removal write.
LEMMA PrvInsertIs ==
  ASSUME NEW m \in Memory, NEW a \in Elem, NEW b \in Elem, NEW x \in Node,
         a # x, b # x
  PROVE  /\ PrvInsert(m, a, b, x) \in Memory
         /\ PrvInsert(m, a, b, x)[x] = [next |-> b, prev |-> a]
         /\ \A e \in Elem \ {x} :
              /\ PrvInsert(m, a, b, x)[e].next = IF e = a THEN x ELSE m[e].next
              /\ PrvInsert(m, a, b, x)[e].prev = IF e = b THEN x ELSE m[e].prev
              /\ e \notin {a, b} => PrvInsert(m, a, b, x)[e] = m[e]
BY DEF PrvInsert, Memory, Elem, Pointer

LEMMA PrvRemoveIs ==
  ASSUME NEW m \in Memory, NEW a \in Elem, NEW b \in Elem
  PROVE  /\ PrvRemove(m, a, b) \in Memory
         /\ \A e \in Elem :
              /\ PrvRemove(m, a, b)[e].next = IF e = a THEN b ELSE m[e].next
              /\ PrvRemove(m, a, b)[e].prev = IF e = b THEN a ELSE m[e].prev
              /\ e \notin {a, b} => PrvRemove(m, a, b)[e] = m[e]
BY DEF PrvRemove, Memory, Elem, Pointer

\* An element linked behind the p-th of a list, and a datum that goes there.
LinkedAt(s, h, q, p, x) == PrvInsert(s.mem, At(h, q, p), At(h, q, p + 1), x)

Place(s, q, p, d) ==
  /\ p \in 0 .. Len(q)
  /\ \A i \in 1 .. p : s.cell[q[i]].data < d
  /\ p < Len(q) => d < s.cell[q[p + 1]].data

\* A cell taken into use, the flags that say which lists there are.
Taken(s, z, x, d) ==
  /\ ~s.cell[x].used /\ z.cell[x].used /\ z.cell[x].data = d
  /\ \A n \in Node \ {x} : z.cell[n] = s.cell[n]
SameValid(s, z) == \A g \in Header : ValidIn(z, g) <=> ValidIn(s, g)

\* The p-th element is no longer linked, its own pointers whatever they are.
CutAt(s, m, h, q, p) ==
  \A e \in Elem \ {q[p]} : m[e] = PrvRemove(s.mem, At(h, q, p - 1), At(h, q, p + 1))[e]
KeptBut(s, z, x) == \A e \in Node \ {x} : z.cell[e] = s.cell[e]

PutList(L, h, p, x) == [L EXCEPT ![h] = Put(L[h], p, x)]
DropList(L, h, p) == [L EXCEPT ![h] = Drop(L[h], p)]

\* An element put in its place on a list.
LEMMA ShapePut ==
  ASSUME NEW s, NEW L, Core(s, L), NEW h \in Header, ValidIn(s, h),
         NEW x \in Node,
         NEW d \in PortVlan, NEW p, Place(s, L[h], p, d),
         NEW z \in CallState, z.mem = LinkedAt(s, h, L[h], p, x),
         Taken(s, z, x, d), SameValid(s, z)
  PROVE  /\ Shape(z, PutList(L, h, p, x))
         /\ \A g \in Header : x \notin Elems(L[g])
         /\ Put(L[h], p, x) \in Seq(Node)
         /\ Len(Put(L[h], p, x)) = Len(L[h]) + 1
         /\ Elems(Put(L[h], p, x)) = Elems(L[h]) \cup {x}
<1> DEFINE q == L[h]
           r == Put(q, p, x)
           L2 == [L EXCEPT ![h] = r]
<1>1. /\ s \in CallState /\ s.mem \in Memory /\ L \in [Header -> Seq(Node)]
      /\ s.cell \in [Node -> ListEntry]
  BY Fields DEF Core, Shape
<1>2. /\ q \in Seq(Node) /\ Distinct(q) /\ Len(q) \in Nat /\ DOMAIN q = 1 .. Len(q)
      /\ Elems(q) \subseteq Node /\ Ring(s.mem, h, q) /\ Sorted(q, Data(s))
  BY ListShape
<1>0. /\ p \in 0 .. Len(q)
      /\ \A i \in 1 .. p : s.cell[q[i]].data < d
      /\ p < Len(q) => d < s.cell[q[p + 1]].data
  BY DEF Place
<1>a. /\ ~s.cell[x].used /\ z.cell[x].used /\ z.cell[x].data = d
      /\ \A n \in Node \ {x} : z.cell[n] = s.cell[n]
      /\ \A g \in Header : ValidIn(z, g) <=> ValidIn(s, g)
  BY DEF Taken, SameValid
<1>3. \A g \in Header : x \notin Elems(L[g])
  BY <1>a, ListShape
<1>4. /\ r \in Seq(Node) /\ Len(r) = Len(q) + 1 /\ Distinct(r)
      /\ Elems(r) = Elems(q) \cup {x}
  BY <1>0, <1>2, <1>3, PutIs
<1>5. L2 \in [Header -> Seq(Node)] /\ L2[h] = r /\ \A g \in Header \ {h} : L2[g] = L[g]
  BY <1>1, <1>4
<1>6. /\ At(h, q, p) \in {h} \cup Elems(q) /\ At(h, q, p + 1) \in {h} \cup Elems(q)
      /\ x \notin {h} \cup Elems(q) /\ {h} \cup Elems(q) \subseteq Elem
  <2>1. p \in 0 .. (Len(q) + 1) /\ p + 1 \in 0 .. (Len(q) + 1)
    BY <1>0, <1>2
  <2>2. h \notin Node /\ h \in Elem
    BY DListConstants DEF Elem
  <2> QED BY <1>2, <1>3, <2>1, <2>2, Places DEF Elem
<1>7. /\ z.mem[x] = [next |-> At(h, q, p + 1), prev |-> At(h, q, p)]
      /\ \A e \in Elem \ {x} :
           /\ z.mem[e].next = IF e = At(h, q, p) THEN x ELSE s.mem[e].next
           /\ z.mem[e].prev = IF e = At(h, q, p + 1) THEN x ELSE s.mem[e].prev
           /\ e \notin {h} \cup Elems(q) => z.mem[e] = s.mem[e]
  <2> DEFINE aa == At(h, q, p)
             bb == At(h, q, p + 1)
  <2>1. aa \in Elem /\ bb \in Elem /\ aa # x /\ bb # x /\ z.mem = PrvInsert(s.mem, aa, bb, x)
        /\ aa \in {h} \cup Elems(q) /\ bb \in {h} \cup Elems(q)
    BY <1>6 DEF LinkedAt
  <2> HIDE DEF aa, bb
  <2>2. /\ z.mem[x] = [next |-> bb, prev |-> aa]
        /\ \A e \in Elem \ {x} :
              /\ z.mem[e].next = IF e = aa THEN x ELSE s.mem[e].next
              /\ z.mem[e].prev = IF e = bb THEN x ELSE s.mem[e].prev
              /\ e \notin {aa, bb} => z.mem[e] = s.mem[e]
    BY <1>1, <2>1, PrvInsertIs
  <2>3. \A e : e \notin {h} \cup Elems(q) => e \notin {aa, bb}
    BY <2>1
  <2> QED BY <2>2, <2>3 DEF aa, bb
<1> HIDE DEF r
<1>8. Ring(z.mem, h, r)
  <2>1. z.mem[x].next = At(h, q, p + 1) /\ z.mem[x].prev = At(h, q, p)
    BY <1>7
  <2>2. \A e \in {h} \cup Elems(q) : e \in Elem \ {x}
    BY <1>6
  <2> QED BY <1>0, <1>2, <1>3, <1>7, <2>1, <2>2, RingPut DEF r
<1>9. ASSUME NEW g \in Header \ {h}
      PROVE  /\ \A e \in {g} \cup Elems(L[g]) : z.mem[e] = s.mem[e]
             /\ \A e \in Elems(L[g]) : z.cell[e] = s.cell[e] /\ e \in Node
  <2>1. Elems(L[g]) \cap Elems(q) = {} /\ Elems(L[g]) \subseteq Node
    BY ListShape DEF Core, Shape
  <2>2. g \notin Node /\ h \notin Node
    BY DListConstants
  <2>3. \A e \in {g} \cup Elems(L[g]) : e \in Elem \ {x} /\ e \notin {h} \cup Elems(q)
    BY <1>2, <1>3, <2>1, <2>2 DEF Elem
  <2>4. \A e \in Elems(L[g]) : e \in Node /\ e # x
    BY <1>3, <2>1
  <2> QED BY <1>1, <1>7, <1>a, <2>3, <2>4
<1>10. ASSUME NEW g \in Header
       PROVE  IF ValidIn(z, g) THEN Ring(z.mem, g, L2[g])
              ELSE L2[g] = <<>> /\ z.mem[g].next = Null
  <2>1. CASE g = h
    BY <1>a, <1>5, <1>8, <2>1
  <2>2. CASE g # h
    <3>1. L2[g] = L[g] /\ \A e \in {g} \cup Elems(L[g]) : z.mem[e] = s.mem[e]
      BY <1>5, <1>9, <2>2
    <3>2. ValidIn(z, g) => Ring(z.mem, g, L[g])
      BY <1>a, <3>1, RingFrame, ListShape
    <3>3. ~ValidIn(z, g) => L[g] = <<>> /\ s.mem[g].next = Null
      BY <1>a DEF Core, Shape
    <3> QED BY <3>1, <3>2, <3>3
  <2> QED BY <2>1, <2>2
<1>11. z.cell[x].used /\ z.cell[x].data = d /\ \A e \in Node \ {x} : z.cell[e] = s.cell[e]
  BY <1>a
<1>12. ASSUME NEW g \in Header, NEW n \in Elems(L2[g]) PROVE z.cell[n].used
  <2>1. CASE g = h
    <3>1. n = x \/ (n \in Elems(q) /\ n \in Node \ {x})
      BY <1>2, <1>3, <1>4, <1>5, <2>1
    <3> QED BY <1>11, <3>1, ListShape
  <2>2. CASE g # h
    <3>1. n \in Elems(L[g]) /\ g \in Header \ {h}
      BY <1>5, <2>2
    <3>2. z.cell[n] = s.cell[n] /\ s.cell[n].used
      BY <1>9, <3>1, ListShape
    <3> QED BY <3>2
  <2> QED BY <2>1, <2>2
<1>13. ASSUME NEW g \in Header, NEW k \in Header, g # k
       PROVE  Elems(L2[g]) \cap Elems(L2[k]) = {}
  <2>1. Elems(L[g]) \cap Elems(L[k]) = {}
    BY <1>13 DEF Core, Shape
  <2> QED BY <1>3, <1>4, <1>5, <1>13, <2>1
<1>14. Data(s) \in [Node -> Nat] /\ Data(z) \in [Node -> Nat]
       /\ \A n \in Node : Data(s)[n] = s.cell[n].data /\ Data(z)[n] = z.cell[n].data
  BY <1>1, DataType
<1>15. ASSUME NEW g \in Header PROVE Sorted(L2[g], Data(z))
  <2>1. CASE g = h
    <3>1. \A e \in Elems(q) : Data(z)[e] = Data(s)[e]
      BY <1>2, <1>3, <1>11, <1>14
    <3>2. \A i \in 1 .. Len(q) : q[i] \in Node /\ Data(s)[q[i]] = s.cell[q[i]].data
      BY <1>2, <1>14
    <3>3. Data(z)[x] = d
      BY <1>11, <1>14
    <3>4. \A i \in 1 .. p : Data(s)[q[i]] < Data(z)[x]
      <4> TAKE i \in 1 .. p
      <4>1. i \in 1 .. Len(q)
        BY <1>0, <1>2
      <4> QED BY <1>0, <3>2, <3>3, <4>1
    <3>5. p < Len(q) => Data(z)[x] < Data(s)[q[p + 1]]
      <4>1. p < Len(q) => p + 1 \in 1 .. Len(q)
        BY <1>0, <1>2
      <4> QED BY <1>0, <3>2, <3>3, <4>1
    <3>6. Sorted(r, Data(z))
      BY <1>0, <1>2, <1>3, <1>14, <3>1, <3>4, <3>5, PutSorted DEF r
    <3> QED BY <1>5, <2>1, <3>6
  <2>2. CASE g # h
    <3>1. \A i \in DOMAIN L[g] : L[g][i] \in Elems(L[g])
      BY DEF Elems
    <3>2. \A i \in DOMAIN L[g] : Data(z)[L[g][i]] = Data(s)[L[g][i]]
      <4>1. g \in Header \ {h}
        BY <2>2
      <4>2. \A e \in Elems(L[g]) : z.cell[e] = s.cell[e] /\ e \in Node
        BY <1>9, <4>1
      <4> TAKE i \in DOMAIN L[g]
      <4>3. L[g][i] \in Elems(L[g])
        BY <3>1
      <4>4. z.cell[L[g][i]] = s.cell[L[g][i]] /\ L[g][i] \in Node
        BY <4>2, <4>3
      <4>5. Data(s)[L[g][i]] = s.cell[L[g][i]].data /\ Data(z)[L[g][i]] = z.cell[L[g][i]].data
        BY <1>14, <4>4
      <4> QED BY <4>4, <4>5
    <3>3. Sorted(L[g], Data(s))
      BY ListShape
    <3> QED BY <1>5, <2>2, <3>2, <3>3 DEF Sorted
  <2> QED BY <2>1, <2>2
<1>16. Shape(z, L2)
  BY <1>5, <1>10, <1>12, <1>13, <1>15 DEF Shape
<1> QED BY <1>3, <1>4, <1>16 DEF r, PutList

\* An element taken off a list. Its own pointers may be anything.
LEMMA ShapeDrop ==
  ASSUME NEW s, NEW L, Core(s, L), NEW h \in Header, ValidIn(s, h),
         NEW p \in 1 .. Len(L[h]), NEW x, x = L[h][p], NEW z \in CallState,
         CutAt(s, z.mem, h, L[h], p), KeptBut(s, z, x), SameValid(s, z)
  PROVE  /\ Shape(z, DropList(L, h, p))
         /\ Drop(L[h], p) \in Seq(Node)
         /\ Len(Drop(L[h], p)) = Len(L[h]) - 1
         /\ Elems(Drop(L[h], p)) = Elems(L[h]) \ {x}
         /\ x \in Elems(L[h])
<1> DEFINE q == L[h]
           r == Drop(q, p)
           L2 == [L EXCEPT ![h] = r]
<1>1. /\ s \in CallState /\ s.mem \in Memory /\ L \in [Header -> Seq(Node)]
      /\ s.cell \in [Node -> ListEntry]
  BY Fields DEF Core, Shape
<1>2. /\ q \in Seq(Node) /\ Distinct(q) /\ Len(q) \in Nat /\ DOMAIN q = 1 .. Len(q)
      /\ Elems(q) \subseteq Node /\ Ring(s.mem, h, q) /\ Sorted(q, Data(s))
  BY ListShape
<1>a. /\ \A e \in Elem \ {x} :
           z.mem[e] = PrvRemove(s.mem, At(h, q, p - 1), At(h, q, p + 1))[e]
      /\ \A e \in Node \ {x} : z.cell[e] = s.cell[e]
      /\ \A g \in Header : ValidIn(z, g) <=> ValidIn(s, g)
  BY DEF CutAt, KeptBut, SameValid
<1>3. x \in Elems(q)
  BY <1>2 DEF Elems
<1>b. p \in 1 .. Len(q)
  BY <1>2
<1>4. /\ r \in Seq(Node) /\ Len(r) = Len(q) - 1 /\ Distinct(r)
      /\ Elems(r) = Elems(q) \ {x}
  BY <1>b, <1>2, DropIs
<1>5. L2 \in [Header -> Seq(Node)] /\ L2[h] = r /\ \A g \in Header \ {h} : L2[g] = L[g]
  BY <1>1, <1>4
<1>6. /\ At(h, q, p - 1) \in {h} \cup Elems(q) /\ At(h, q, p + 1) \in {h} \cup Elems(q)
      /\ {h} \cup Elems(q) \subseteq Elem
  <2>1. p - 1 \in 0 .. (Len(q) + 1) /\ p + 1 \in 0 .. (Len(q) + 1)
    BY <1>b, <1>2
  <2> QED BY <1>2, <2>1, Places DEF Elem
<1>7. \A e \in Elem \ {x} :
           /\ z.mem[e].next = IF e = At(h, q, p - 1) THEN At(h, q, p + 1) ELSE s.mem[e].next
           /\ z.mem[e].prev = IF e = At(h, q, p + 1) THEN At(h, q, p - 1) ELSE s.mem[e].prev
           /\ e \notin {h} \cup Elems(q) => z.mem[e] = s.mem[e]
  <2> DEFINE aa == At(h, q, p - 1)
             bb == At(h, q, p + 1)
  <2>1. /\ aa \in Elem /\ bb \in Elem
        /\ aa \in {h} \cup Elems(q) /\ bb \in {h} \cup Elems(q)
        /\ \A e \in Elem \ {x} : z.mem[e] = PrvRemove(s.mem, aa, bb)[e]
    BY <1>6, <1>a
  <2> HIDE DEF aa, bb
  <2>2. \A e \in Elem :
              /\ PrvRemove(s.mem, aa, bb)[e].next = IF e = aa THEN bb ELSE s.mem[e].next
              /\ PrvRemove(s.mem, aa, bb)[e].prev = IF e = bb THEN aa ELSE s.mem[e].prev
              /\ e \notin {aa, bb} => PrvRemove(s.mem, aa, bb)[e] = s.mem[e]
    <3>1. s.mem \in Memory /\ aa \in Elem /\ bb \in Elem
      BY <1>1, <2>1
    <3> DEFINE mm == s.mem
    <3> HIDE DEF mm
    <3>2. mm \in Memory
      BY <3>1 DEF mm
    <3>3. \A e \in Elem :
              /\ PrvRemove(mm, aa, bb)[e].next = IF e = aa THEN bb ELSE mm[e].next
              /\ PrvRemove(mm, aa, bb)[e].prev = IF e = bb THEN aa ELSE mm[e].prev
              /\ e \notin {aa, bb} => PrvRemove(mm, aa, bb)[e] = mm[e]
      BY ONLY <3>1, <3>2, PrvRemoveIs
    <3> QED BY <3>3 DEF mm
  <2>3. \A e : e \notin {h} \cup Elems(q) => e \notin {aa, bb}
    BY <2>1
  <2>4. \A e \in Elem \ {x} : e \in Elem
    OBVIOUS
  <2> QED BY <2>1, <2>2, <2>3, <2>4 DEF aa, bb
<1> HIDE DEF r
<1>8. Ring(z.mem, h, r)
  <2>2. \A e \in ({h} \cup Elems(q)) \ {x} : e \in Elem \ {x}
    BY <1>6
  <2> QED BY <1>b, <1>2, <1>7, <2>2, RingDrop DEF r
<1>9. ASSUME NEW g \in Header \ {h}
      PROVE  /\ \A e \in {g} \cup Elems(L[g]) : z.mem[e] = s.mem[e]
             /\ \A e \in Elems(L[g]) : z.cell[e] = s.cell[e] /\ e \in Node
  <2>1. Elems(L[g]) \cap Elems(q) = {} /\ Elems(L[g]) \subseteq Node
    BY ListShape DEF Core, Shape
  <2>2. g \notin Node /\ h \notin Node
    BY DListConstants
  <2>3. \A e \in {g} \cup Elems(L[g]) : e \in Elem \ {x} /\ e \notin {h} \cup Elems(q)
    BY <1>2, <1>3, <2>1, <2>2 DEF Elem
  <2>4. \A e \in Elems(L[g]) : e \in Node \ {x}
    BY <1>3, <2>1
  <2> QED BY <1>1, <1>7, <1>a, <2>3, <2>4
<1>10. ASSUME NEW g \in Header
       PROVE  IF ValidIn(z, g) THEN Ring(z.mem, g, L2[g])
              ELSE L2[g] = <<>> /\ z.mem[g].next = Null
  <2>1. CASE g = h
    BY <1>a, <1>5, <1>8, <2>1
  <2>2. CASE g # h
    <3>1. L2[g] = L[g] /\ \A e \in {g} \cup Elems(L[g]) : z.mem[e] = s.mem[e]
      BY <1>5, <1>9, <2>2
    <3>2. ValidIn(z, g) => Ring(z.mem, g, L[g])
      BY <1>a, <3>1, RingFrame, ListShape
    <3>3. ~ValidIn(z, g) => L[g] = <<>> /\ s.mem[g].next = Null
      BY <1>a DEF Core, Shape
    <3> QED BY <3>1, <3>2, <3>3
  <2> QED BY <2>1, <2>2
<1>11. \A e \in Elems(r) : e \in Node /\ z.cell[e] = s.cell[e] /\ e \in Elems(q)
  BY <1>a, <1>2, <1>4
<1>12. ASSUME NEW g \in Header, NEW n \in Elems(L2[g]) PROVE z.cell[n].used
  <2>1. CASE g = h
    BY <1>5, <1>11, <2>1, ListShape
  <2>2. CASE g # h
    BY <1>5, <1>9, <2>2, ListShape
  <2> QED BY <2>1, <2>2
<1>13. ASSUME NEW g \in Header, NEW k \in Header, g # k
       PROVE  Elems(L2[g]) \cap Elems(L2[k]) = {}
  <2>1. Elems(L[g]) \cap Elems(L[k]) = {}
    BY <1>13 DEF Core, Shape
  <2> QED BY <1>4, <1>5, <1>13, <2>1
<1>14. \A n \in Node : Data(s)[n] = s.cell[n].data /\ Data(z)[n] = z.cell[n].data
  BY <1>1, DataType
<1>15. ASSUME NEW g \in Header PROVE Sorted(L2[g], Data(z))
  <2>1. CASE g = h
    <3>1. \A e \in Elems(q) \ {x} : Data(z)[e] = Data(s)[e]
      BY <1>a, <1>2, <1>14
    <3>6. Sorted(r, Data(z))
      BY <1>b, <1>2, <3>1, DropSorted DEF r
    <3> QED BY <1>5, <2>1, <3>6
  <2>2. CASE g # h
    <3>1. \A i \in DOMAIN L[g] : L[g][i] \in Elems(L[g])
      BY DEF Elems
    <3>2. \A i \in DOMAIN L[g] : Data(z)[L[g][i]] = Data(s)[L[g][i]]
      BY <1>9, <1>14, <2>2, <3>1
    <3>3. Sorted(L[g], Data(s))
      BY ListShape
    <3> QED BY <1>5, <2>2, <3>2, <3>3 DEF Sorted
  <2> QED BY <2>1, <2>2
<1>16. Shape(z, L2)
  BY <1>5, <1>10, <1>12, <1>13, <1>15 DEF Shape
<1> QED BY <1>3, <1>4, <1>16 DEF r, DropList

\* The lists are in shape whatever else changes.
LEMMA ShapeSame ==
  ASSUME NEW s, NEW L, Core(s, L), NEW z \in CallState, z.mem = s.mem,
         \A n \in Node : z.cell[n].used = s.cell[n].used /\ z.cell[n].data = s.cell[n].data,
         \A g \in Header : ValidIn(z, g) <=> ValidIn(s, g)
  PROVE  Shape(z, L)
<1>1. s \in CallState
  BY DEF Core
<1>2. Data(z) = Data(s)
  BY <1>1, DataType DEF Data
<1>3. \A g \in Header : \A n \in Elems(L[g]) : n \in Node
  BY ListShape
<1> QED BY <1>2, <1>3 DEF Core, Shape

-----------------------------------------------------------------------------
(* Single calls: of the hardware, of the allocator.                        *)

\* A call that met a fault, a call of the hardware, an error.
LEMMA FailIs ==
  ASSUME NEW s \in CallState
  PROVE  /\ Fail(s) \in CallState /\ ~Fail(s).ok /\ Fail(s).failed # 0
         /\ Fail(s).trap = s.trap /\ Fail(s).mem = s.mem /\ Fail(s).cell = s.cell
         /\ Fail(s).flow = s.flow /\ Fail(s).ends = s.ends /\ Fail(s).at = s.at
         /\ Fail(s).junk = s.junk
<1> DEFINE f == IF s.failed = 0 THEN 1 ELSE s.failed
<1>1. f \in Nat /\ f # 0
  BY Fields
<1>2. Fail(s) = [s EXCEPT !.ok = FALSE, !.failed = f]
  BY DEF Fail
<1> HIDE DEF f
<1> QED BY <1>1, <1>2 DEF CallState

LEMMA ReturnIs ==
  ASSUME NEW s \in CallState
  PROVE  /\ Return(s) \in CallState /\ ~Return(s).ok /\ Return(s).failed = s.failed
         /\ Return(s).trap = s.trap /\ Return(s).mem = s.mem /\ Return(s).cell = s.cell
         /\ Return(s).flow = s.flow /\ Return(s).ends = s.ends /\ Return(s).at = s.at
         /\ Return(s).junk = s.junk
BY DEF Return, CallState

LEMMA HardwareIs ==
  ASSUME NEW s \in CallState, NEW f \in [Cookie -> FlowEntry]
  PROVE  LET r == Hardware(s, f) IN
         /\ r \in CallState /\ r.trap = s.trap /\ r.mem = s.mem /\ r.cell = s.cell
         /\ r.ends = s.ends /\ r.at = s.at /\ r.junk = s.junk
         /\ s.failed # 0 => r.failed # 0
         /\ \/ ~r.ok /\ r.failed # 0 /\ r.flow = s.flow
            \/ r.ok = s.ok /\ r.failed = s.failed /\ r.flow = f
<1>1. CASE s.hw = 0
  <2>1. Hardware(s, f) = Fail(s)
    BY <1>1 DEF Hardware
  <2> QED BY <2>1, FailIs
<1>2. CASE s.hw # 0
  <2>1. Hardware(s, f) = [s EXCEPT !.flow = f, !.hw = @ - 1]
    BY <1>2 DEF Hardware
  <2>2. s.hw - 1 \in Nat
    BY <1>2, Fields
  <2> QED BY <2>1, <2>2 DEF CallState
<1> QED BY <1>1, <1>2

\* What Shape and Core read.
LEMMA ShapeReads ==
  ASSUME NEW z, NEW L, Shape(z, L), NEW r, r.trap = z.trap, r.mem = z.mem, r.cell = z.cell
  PROVE  Shape(r, L)
BY DEF Shape, ValidIn, Data

LEMMA CoreReads ==
  ASSUME NEW s, NEW L, Core(s, L), NEW r \in CallState,
         r.trap = s.trap, r.mem = s.mem, r.cell = s.cell, r.flow = s.flow, r.ends = s.ends,
         s.failed # 0 => r.failed # 0
  PROVE  Core(r, L) /\ \A h \in Header : Apart(s, L, r, L, h)
<1>1. Shape(r, L)
  BY ShapeReads DEF Core
<1>2. Exact(r) => Accounted(r, L)
  BY DEF Core, Exact, Accounted, FlowFor, DataIn
<1>3. ASSUME NEW h \in Header PROVE Apart(s, L, r, L, h)
  BY DEF Apart, CountIn, FlowFor, ValidIn
<1> QED BY <1>1, <1>2, <1>3 DEF Core

\* The flow of another list or another datum is not the one written.
LEMMA FlowElsewhere ==
  ASSUME NEW s, NEW f, NEW h \in Header, NEW d \in PortVlan,
         \A c \in Cookie \ {CookieOf(h[1], h[2], d)} : f[c] = s.flow[c],
         NEW r, r.flow = f, OwnCookies,
         NEW g \in Header, NEW pv \in PortVlan, g # h \/ pv # d
  PROVE  FlowFor(r, g, pv) = FlowFor(s, g, pv)
<1>1. CookieOf(g[1], g[2], pv) \in Cookie
  BY CookieIs
<1>2. CookieOf(g[1], g[2], pv) # CookieOf(h[1], h[2], d)
  BY CookiesDiffer
<1> QED BY <1>1, <1>2 DEF FlowFor

LEMMA FlowTypes ==
  /\ NoFlow \in FlowEntry /\ FreeCell \in ListEntry
  /\ \A t \in Trap : [action |-> DefaultFlow(t), of |-> t] \in FlowEntry
  /\ \A t \in Trap : NoFlow.of # t
<1>1. \A t : DefaultFlow(t) \in {"drop", "trap", "forward"}
  BY DEF DefaultFlow
<1> QED BY <1>1, TrapConstants, PortVlanNat DEF NoFlow, FreeCell, FlowEntry, ListEntry

\* The table with the count of a list changed.
CountPut(s, h, c) == [s.trap EXCEPT ![h[1]].count[h[2]] = c]

SameButCount(s, z, h, c) ==
  /\ CountIn(z, h) = c
  /\ \A g \in Header \ {h} : CountIn(z, g) = CountIn(s, g)
  /\ \A g \in Header : ValidIn(z, g) = ValidIn(s, g)
  /\ \A t \in Trap : z.trap[t].action = s.trap[t].action
                      /\ z.trap[t].notSet = s.trap[t].notSet

LEMMA CountSet ==
  ASSUME NEW s \in CallState, NEW h \in Header, NEW c \in Int,
         NEW z, z.trap = CountPut(s, h, c)
  PROVE  z.trap \in [Trap -> TrapEntry] /\ SameButCount(s, z, h, c)
<1>1. s.trap \in [Trap -> TrapEntry]
  BY Fields
<1>2. h[1] \in Trap /\ h[2] \in Intf
  BY Headers
<1>3. \A t \in Trap : s.trap[t] \in TrapEntry
  BY <1>1
<1>4. z.trap = [t \in Trap |->
        IF t = h[1] THEN [s.trap[t] EXCEPT !.count = [@ EXCEPT ![h[2]] = c]] ELSE s.trap[t]]
  BY <1>1 DEF CountPut
<1>5. \A t \in Trap : [s.trap[t] EXCEPT !.count = [@ EXCEPT ![h[2]] = c]] \in TrapEntry
  BY <1>2, <1>3 DEF TrapEntry
<1>6. z.trap \in [Trap -> TrapEntry]
  BY <1>3, <1>4, <1>5
<1>7. \A t \in Trap : z.trap[t].action = s.trap[t].action
                      /\ z.trap[t].notSet = s.trap[t].notSet
                      /\ z.trap[t].valid = s.trap[t].valid
  BY <1>3, <1>4 DEF TrapEntry
<1>8. CountIn(z, h) = c
  BY <1>2, <1>3, <1>4 DEF TrapEntry, CountIn
<1>9. ASSUME NEW g \in Header \ {h} PROVE CountIn(z, g) = CountIn(s, g)
  <2>1. g[1] \in Trap /\ g[2] \in Intf /\ (g[1] # h[1] \/ g[2] # h[2])
    BY Headers
  <2> QED BY <1>2, <1>3, <1>4, <2>1 DEF TrapEntry, CountIn
<1>10. \A g \in Header : ValidIn(z, g) = ValidIn(s, g)
  BY <1>7, Headers DEF ValidIn
<1> QED BY <1>6, <1>7, <1>8, <1>9, <1>10 DEF SameButCount

-----------------------------------------------------------------------------
(* An element added.                                                       *)

\* The flow of a new element.
NewFlow(t) == [action |-> DefaultFlow(t), of |-> t]

\* A memory stored and a count changed.
Changed(s, t, i, c, m) == [s EXCEPT !.mem = m, !.trap[t].count[i] = @ + c]

\* AddElement once its element has a place: m is the memory it is linked in.
Added(s, t, i, d, v, c, m) ==
  LET made == Malloc(s, d, v)
  IN  IF ~made.ok THEN made
      ELSE FlowSet(Changed(made, t, i, c, m), t, i, d)

LEMMA MallocIs ==
  ASSUME NEW s \in CallState, NEW d \in PortVlan, NEW v \in BOOLEAN, s.ok
  PROVE  LET r == Malloc(s, d, v) IN
         /\ r \in CallState
         /\ \/ r = Fail(s)
            \/ /\ r.ok /\ NewCell(s) \in Node /\ ~s.cell[NewCell(s)].used
               /\ r.cell[NewCell(s)].used /\ r.cell[NewCell(s)].data = d
               /\ r.cell[NewCell(s)].valid = v
               /\ \A n \in Node \ {NewCell(s)} : r.cell[n] = s.cell[n]
               /\ r.trap = s.trap /\ r.mem = s.mem /\ r.flow = s.flow /\ r.ends = s.ends
               /\ r.failed = s.failed /\ r.at = s.at /\ r.junk = s.junk
<1>1. CASE s.room = 0 \/ FreeCells(s) = {}
  BY <1>1, FailIs DEF Malloc
<1>2. CASE ~(s.room = 0 \/ FreeCells(s) = {})
  <2> DEFINE x == NewCell(s)
             e == [used |-> TRUE, data |-> d, valid |-> v]
             k == [s.cell EXCEPT ![x] = e]
  <2>1. x \in Node /\ ~s.cell[x].used
    BY <1>2 DEF NewCell, FreeCells
  <2>2. s.room - 1 \in Nat
    BY <1>2, Fields
  <2>3. e \in ListEntry
    BY DEF ListEntry
  <2>4. k \in [Node -> ListEntry]
    BY <2>3, Fields
  <2>5. Malloc(s, d, v) = [s EXCEPT !.room = s.room - 1, !.cell = k]
    BY <1>2 DEF Malloc, CallState
  <2>7. k[x].used /\ k[x].data = d /\ k[x].valid = v /\ \A n \in Node \ {x} : k[n] = s.cell[n]
    BY <2>1, Fields
  <2> HIDE DEF x, e, k
  <2>6. /\ Malloc(s, d, v) \in CallState /\ Malloc(s, d, v).ok
        /\ Malloc(s, d, v).cell = k
        /\ Malloc(s, d, v).trap = s.trap /\ Malloc(s, d, v).mem = s.mem
        /\ Malloc(s, d, v).flow = s.flow /\ Malloc(s, d, v).ends = s.ends
        /\ Malloc(s, d, v).failed = s.failed /\ Malloc(s, d, v).at = s.at
        /\ Malloc(s, d, v).junk = s.junk
    BY <2>2, <2>4, <2>5 DEF CallState
  <2> QED BY <2>1, <2>6, <2>7 DEF x
<1> QED BY <1>1, <1>2

\* The state with the element linked and the count changed.
LEMMA ListChanged ==
  ASSUME NEW s \in CallState, NEW h \in Header, NEW c \in Int, NEW m \in Memory,
         NEW k, k = CountIn(s, h) + c, NEW z, z = Changed(s, h[1], h[2], c, m)
  PROVE  /\ z \in CallState
         /\ z.trap = CountPut(s, h, k)
         /\ k \in Int
         /\ z.mem = m /\ z.cell = s.cell /\ z.flow = s.flow /\ z.ends = s.ends
         /\ z.failed = s.failed /\ z.ok = s.ok /\ z.at = s.at /\ z.junk = s.junk
<1>1. h[1] \in Trap /\ h[2] \in Intf /\ s.trap \in [Trap -> TrapEntry]
  BY Headers, Fields
<1>2. CountIn(s, h) \in Int
  BY <1>1 DEF CountIn, TrapEntry
<1>3. k \in Int
  BY <1>2
<1> DEFINE u == CountPut(s, h, k)
<1>4. z = [s EXCEPT !.mem = m, !.trap = u]
  BY DEF CallState, CountIn, Changed, CountPut
<1>5. u \in [Trap -> TrapEntry]
  <2> DEFINE y == [trap |-> u]
  <2>1. y.trap = CountPut(s, h, k) /\ y.trap = u
    OBVIOUS
  <2> HIDE DEF u, y
  <2>2. y.trap \in [Trap -> TrapEntry]
    BY ONLY <1>3, <2>1, CountSet
  <2> QED BY <2>1, <2>2
<1> HIDE DEF u
<1>6. /\ z \in CallState /\ z.trap = u
      /\ z.mem = m /\ z.cell = s.cell /\ z.flow = s.flow /\ z.ends = s.ends
      /\ z.failed = s.failed /\ z.ok = s.ok /\ z.at = s.at /\ z.junk = s.junk
  BY <1>4, <1>5 DEF CallState
<1> QED BY <1>3, <1>6 DEF u

\* What adding a datum d to a list with a mark v and c to its count gives.
AddedTo(s, L, h, d, v, c, r, L2) ==
  /\ Core(r, L2) /\ Apart(s, L, r, L2, h) /\ ValidIn(r, h) /\ r.junk = s.junk
  /\ Exact(r) => r.ok
  /\ (c <= 1 /\ Within(s, L, h)) => Within(r, L2, h)
  /\ r.ok => /\ Len(L2[h]) = Len(L[h]) + 1
             /\ CountIn(r, h) = CountIn(s, h) + c
             /\ DataIn(r, L2[h]) = DataIn(s, L[h]) \cup {d}
             /\ \A n \in Elems(L2[h]) :
                  \/ n \in Elems(L[h]) /\ r.cell[n] = s.cell[n]
                  \/ r.cell[n].data = d /\ r.cell[n].valid = v

\* A new element has its place behind the p-th of a list, and m links it there.
Fits(s, L, h, d, v, p, m) ==
  Malloc(s, d, v).ok =>
    Place(s, L[h], p, d) /\ m = LinkedAt(s, h, L[h], p, NewCell(s))

\* An element with a new datum linked in its place, and its flow: the lists
\* are in shape whatever fails, and lists and flows agree unless one does.
LEMMA AddedKeeps ==
  ASSUME NEW s, NEW L, Core(s, L), s.ok, NEW h \in Header, ValidIn(s, h),
         NEW d \in PortVlan, NEW v \in BOOLEAN, NEW c \in Int,
         d \notin DataIn(s, L[h]), NEW m, NEW p, Fits(s, L, h, d, v, p, m),
         NEW r, r = Added(s, h[1], h[2], d, v, c, m)
  PROVE  \E L2 \in [Header -> Seq(Node)] : AddedTo(s, L, h, d, v, c, r, L2)
<1> DEFINE made == Malloc(s, d, v)
           x == NewCell(s)
           q == L[h]
           L2 == PutList(L, h, p, x)
           z == Changed(made, h[1], h[2], c, m)
           cc == CountIn(s, h) + c
           k == CookieOf(h[1], h[2], d)
           f == IF z.flow[k] # NoFlow THEN z.flow
                ELSE [z.flow EXCEPT ![k] = [action |-> DefaultFlow(h[1]), of |-> h[1]]]
<1>1. s \in CallState /\ L \in [Header -> Seq(Node)] /\ s.mem \in Memory
      /\ h[1] \in Trap /\ h[2] \in Intf
  BY Fields, Headers DEF Core, Shape
<1>2. CASE made = Fail(s)
  <2>1. r = Fail(s)
    BY <1>1, <1>2, FailIs DEF Added
  <2>2. Core(r, L) /\ Apart(s, L, r, L, h)
    BY <1>1, <2>1, FailIs, CoreReads
  <2>3. ~r.ok /\ r.failed # 0 /\ ValidIn(r, h) /\ r.junk = s.junk
    BY <1>1, <2>1, FailIs DEF ValidIn
  <2>4. ~Exact(r)
    BY <2>3 DEF Exact
  <2>5. Within(s, L, h) => Within(r, L, h)
    BY <1>1, <2>1, FailIs DEF Within, CountIn, ValidIn
  <2> QED BY <1>1, <2>2, <2>3, <2>4, <2>5 DEF AddedTo
<1>3. CASE made # Fail(s)
  <2>1. /\ made \in CallState /\ made.ok /\ x \in Node /\ ~s.cell[x].used
        /\ made.cell[x].used /\ made.cell[x].data = d /\ made.cell[x].valid = v
        /\ \A n \in Node \ {x} : made.cell[n] = s.cell[n]
        /\ made.trap = s.trap
        /\ made.mem = s.mem /\ made.flow = s.flow /\ made.ends = s.ends
        /\ made.failed = s.failed /\ made.junk = s.junk
    <3>1. \/ made = Fail(s)
          \/ /\ made.ok /\ x \in Node /\ ~s.cell[x].used
             /\ made.cell[x].used /\ made.cell[x].data = d /\ made.cell[x].valid = v
             /\ \A n \in Node \ {x} : made.cell[n] = s.cell[n]
             /\ made.trap = s.trap
             /\ made.mem = s.mem /\ made.flow = s.flow /\ made.ends = s.ends
             /\ made.failed = s.failed /\ made.junk = s.junk
      <4>1. s \in CallState /\ s.ok
        BY <1>1
      <4> QED BY ONLY <4>1, MallocIs
    <3>2. made \in CallState
      <4>1. s \in CallState /\ s.ok
        BY <1>1
      <4> QED BY ONLY <4>1, MallocIs
    <3> HIDE DEF made, x
    <3> QED BY <1>3, <3>1, <3>2
  <2>a. Place(s, q, p, d) /\ m = LinkedAt(s, h, q, p, x)
    BY <2>1 DEF Fits
  <2>2. m \in Memory
    <3>1. x \notin Elems(q) /\ x # h /\ x \in Node
      BY <2>1, ListShape, DListConstants
    <3>2. q \in Seq(Node) /\ Distinct(q) /\ Len(q) \in Nat
      BY ListShape
    <3>3. p \in 0 .. (Len(q) + 1) /\ p + 1 \in 0 .. (Len(q) + 1)
      BY <2>a, <3>2 DEF Place
    <3>4. At(h, q, p) \in {h} \cup Elems(q) /\ At(h, q, p + 1) \in {h} \cup Elems(q)
          /\ Elems(q) \subseteq Node
      BY <3>2, <3>3, Places
    <3>5. At(h, q, p) \in Elem \ {x} /\ At(h, q, p + 1) \in Elem \ {x}
      BY <3>1, <3>4 DEF Elem
    <3> DEFINE aa == At(h, q, p)
               bb == At(h, q, p + 1)
               mm == s.mem
    <3>6. aa \in Elem /\ bb \in Elem /\ aa # x /\ bb # x /\ mm \in Memory
          /\ m = PrvInsert(mm, aa, bb, x)
      BY <1>1, <2>a, <3>5 DEF LinkedAt
    <3> HIDE DEF aa, bb, mm, x
    <3> QED BY ONLY <3>1, <3>6, PrvInsertIs
  <2>3. /\ z \in CallState
        /\ z.trap = CountPut(made, h, cc)
        /\ cc \in Int
        /\ z.mem = m /\ z.cell = made.cell /\ z.flow = made.flow /\ z.ends = made.ends
        /\ z.failed = made.failed /\ z.ok = made.ok /\ z.junk = made.junk
    <3>1. z = Changed(made, h[1], h[2], c, m)
      OBVIOUS
    <3>2. made \in CallState /\ h \in Header /\ c \in Int /\ m \in Memory
          /\ cc = CountIn(made, h) + c
      BY <2>1, <2>2 DEF CountIn
    <3> HIDE DEF z, made, cc
    <3> QED BY ONLY <3>2, <3>1, ListChanged
  <2>4. CountIn(made, h) = CountIn(s, h)
        /\ \A g \in Header : CountIn(made, g) = CountIn(s, g) /\ ValidIn(made, g) = ValidIn(s, g)
    BY <2>1 DEF CountIn, ValidIn
  <2> HIDE DEF z, made, x
  <2>5. /\ CountIn(z, h) = CountIn(s, h) + c
        /\ \A g \in Header \ {h} : CountIn(z, g) = CountIn(s, g)
        /\ \A g \in Header : ValidIn(z, g) = ValidIn(s, g)
        /\ \A t \in Trap : z.trap[t].action = s.trap[t].action
                            /\ z.trap[t].notSet = s.trap[t].notSet
    <3>1. /\ CountIn(z, h) = cc
          /\ \A g \in Header \ {h} : CountIn(z, g) = CountIn(made, g)
          /\ \A g \in Header : ValidIn(z, g) = ValidIn(made, g)
          /\ \A t \in Trap : z.trap[t].action = made.trap[t].action
                              /\ z.trap[t].notSet = made.trap[t].notSet
      <4>1. cc \in Int /\ z.trap = CountPut(made, h, cc)
            /\ made \in CallState /\ h \in Header
        BY <2>1, <2>3
      <4> HIDE DEF cc
      <4>2. SameButCount(made, z, h, cc)
        BY ONLY <4>1, CountSet
      <4> QED BY <4>2 DEF SameButCount
    <3> QED BY <2>1, <2>4, <3>1
  <2>6. /\ z.cell[x].used /\ z.cell[x].data = d /\ z.cell[x].valid = v
        /\ \A n \in Node \ {x} : z.cell[n] = s.cell[n]
        /\ z.mem = m /\ z.flow = s.flow /\ z.ends = s.ends
        /\ z.failed = s.failed /\ z.ok /\ z.junk = s.junk
    BY <2>1, <2>3
  <2>7. /\ Shape(z, L2) /\ \A g \in Header : x \notin Elems(L[g])
        /\ Put(q, p, x) \in Seq(Node) /\ Len(Put(q, p, x)) = Len(q) + 1
        /\ Elems(Put(q, p, x)) = Elems(q) \cup {x}
    <3>1. SameValid(s, z) /\ Taken(s, z, x, d)
      BY <2>1, <2>5, <2>6 DEF SameValid, Taken
    <3>2. z.mem = LinkedAt(s, h, q, p, x)
      BY <2>6, <2>a DEF x
    <3>3. x \in Node /\ z \in CallState
      BY <2>1, <2>3
    <3>5. /\ Shape(z, PutList(L, h, p, x))
          /\ \A g \in Header : x \notin Elems(L[g])
          /\ Put(L[h], p, x) \in Seq(Node)
          /\ Len(Put(L[h], p, x)) = Len(L[h]) + 1
          /\ Elems(Put(L[h], p, x)) = Elems(L[h]) \cup {x}
      <4>1. /\ Core(s, L) /\ ValidIn(s, h)
            /\ Place(s, L[h], p, d) /\ h \in Header /\ d \in PortVlan
        BY <2>a
      <4> QED BY ONLY <3>1, <3>2, <3>3, <4>1, ShapePut
    <3> QED BY <3>5
  <2>8. L2 \in [Header -> Seq(Node)] /\ L2[h] = Put(q, p, x)
        /\ \A g \in Header \ {h} : L2[g] = L[g]
    BY <1>1, <2>7 DEF PutList
  <2> HIDE DEF L2
  <2>9. k \in Cookie /\ s.flow \in [Cookie -> FlowEntry]
    BY <1>1, CookieIs, Fields
  <2>10. /\ f \in [Cookie -> FlowEntry]
         /\ \A a \in Cookie \ {k} : f[a] = s.flow[a]
         /\ s.flow[k] = NoFlow => f[k] = NewFlow(h[1])
    BY <1>1, <2>6, <2>9, FlowTypes DEF NewFlow
  <2>11. r = Hardware(z, f)
    BY <2>3, <2>1 DEF Added, FlowSet, z, made
  <2> HIDE DEF f
  <2>12. /\ r \in CallState /\ r.trap = z.trap /\ r.mem = z.mem /\ r.cell = z.cell
         /\ r.ends = z.ends /\ r.junk = z.junk
         /\ s.failed # 0 => r.failed # 0
         /\ \/ ~r.ok /\ r.failed # 0 /\ r.flow = s.flow
            \/ r.ok /\ r.failed = s.failed /\ r.flow = f
    BY <2>3, <2>6, <2>10, <2>11, HardwareIs
  <2>13. Shape(r, L2)
    BY <2>7, <2>12, ShapeReads
  <2>14. \A n \in Node \ {x} : r.cell[n] = s.cell[n]
    BY <2>6, <2>12
  <2>15. r.cell[x].used /\ r.cell[x].data = d /\ r.cell[x].valid = v
    BY <2>6, <2>12
  <2>16. \A g \in Header : \A n \in Elems(L[g]) : n \in Node \ {x} /\ r.cell[n] = s.cell[n]
    <3>1. \A g \in Header : Elems(L[g]) \subseteq Node
      BY ListShape
    <3> QED BY <2>7, <2>14, <3>1
  <2>17. DataIn(r, L2[h]) = DataIn(s, q) \cup {d}
    BY <2>7, <2>8, <2>15, <2>16 DEF DataIn
  <2>18. ASSUME NEW g \in Header \ {h} PROVE DataIn(r, L2[g]) = DataIn(s, L[g])
    <3>1. L2[g] = L[g] /\ \A n \in Elems(L[g]) : r.cell[n] = s.cell[n]
      BY <2>8, <2>16
    <3> QED BY <3>1 DEF DataIn
  <2>19. ASSUME OwnCookies, NEW g \in Header, NEW pv \in PortVlan, g # h \/ pv # d
         PROVE  FlowFor(r, g, pv) = FlowFor(s, g, pv)
    <3>1. CASE r.flow = f
      <4>1. \A a \in Cookie \ {CookieOf(h[1], h[2], d)} : f[a] = s.flow[a]
        BY <2>10
      <4>2. h \in Header /\ g \in Header /\ d \in PortVlan /\ pv \in PortVlan
        OBVIOUS
      <4> QED BY ONLY <2>19, <3>1, <4>1, <4>2, FlowElsewhere
    <3>2. CASE r.flow = s.flow
      BY <3>2 DEF FlowFor
    <3> QED BY <2>12, <3>1, <3>2
  <2>20. Exact(r) => Accounted(r, L2)
    <3> SUFFICES ASSUME Exact(r) PROVE Accounted(r, L2)
      OBVIOUS
    <3>1. OwnCookies /\ r.failed = 0 /\ s.failed = 0 /\ r.flow = f
      BY <2>12 DEF Exact
    <3>2. Accounted(s, L)
      BY <3>1 DEF Exact, Core
    <3>3. r.ends = NoEnds
      BY <2>6, <2>12, <3>2 DEF Accounted
    <3>4. ASSUME NEW n \in Node, r.cell[n].used PROVE \E g \in Header : n \in Elems(L2[g])
      <4>1. CASE n = x
        BY <2>7, <2>8, <4>1
      <4>2. CASE n # x
        <5>1. s.cell[n].used
          BY <2>14, <3>4, <4>2
        <5>2. PICK g \in Header : n \in Elems(L[g])
          BY <3>2, <5>1 DEF Accounted
        <5>3. n \in Elems(L2[g])
          BY <2>7, <2>8, <5>2
        <5> QED BY <5>3
      <4> QED BY <4>1, <4>2
    <3>5. FlowFor(r, h, d).of = h[1]
      <4>1. FlowFor(s, h, d) = NoFlow
        BY <3>2 DEF Accounted
      <4>2. s.flow[k] = NoFlow
        BY <4>1 DEF FlowFor
      <4>3. FlowFor(r, h, d) = NewFlow(h[1])
        <5> HIDE DEF k
        <5>1. f[k] = NewFlow(h[1])
          BY ONLY <2>10, <4>2
        <5>2. FlowFor(r, h, d) = f[k]
          BY <3>1 DEF FlowFor, k
        <5> QED BY <5>1, <5>2
      <4> QED BY <4>3 DEF NewFlow
    <3>6. ASSUME NEW g \in Header, NEW pv \in PortVlan
          PROVE  /\ FlowFor(r, g, pv) = NoFlow \/ FlowFor(r, g, pv).of = g[1]
                 /\ FlowFor(r, g, pv).of = g[1] <=> pv \in DataIn(r, L2[g])
      <4>1. CASE g = h /\ pv = d
        BY <2>17, <3>5, <4>1
      <4>2. CASE g # h \/ pv # d
        <5>1. FlowFor(r, g, pv) = FlowFor(s, g, pv)
          BY <2>19, <3>1, <4>2
        <5>2. pv \in DataIn(r, L2[g]) <=> pv \in DataIn(s, L[g])
          BY <2>17, <2>18, <4>2
        <5> QED BY <3>2, <5>1, <5>2 DEF Accounted
      <4> QED BY <4>1, <4>2
    <3> QED BY <3>3, <3>4, <3>6 DEF Accounted
  <2>21. Core(r, L2)
    BY <2>12, <2>13, <2>20 DEF Core
  <2>22. /\ \A g \in Header : CountIn(r, g) = CountIn(z, g) /\ ValidIn(r, g) = ValidIn(z, g)
         /\ \A t \in Trap : r.trap[t].action = s.trap[t].action
                             /\ r.trap[t].notSet = s.trap[t].notSet
    BY <2>5, <2>12 DEF CountIn, ValidIn
  <2>23. Apart(s, L, r, L2, h)
    <3>1. ASSUME NEW g \in Header \ {h}
          PROVE  /\ L2[g] = L[g] /\ CountIn(r, g) = CountIn(s, g)
                 /\ (ValidIn(r, g) <=> ValidIn(s, g))
                 /\ \A n \in Elems(L[g]) : r.cell[n] = s.cell[n]
                 /\ OwnCookies => \A pv \in PortVlan : FlowFor(r, g, pv) = FlowFor(s, g, pv)
      <4>1. g # h /\ g \in Header
        OBVIOUS
      <4>2. CountIn(r, g) = CountIn(s, g) /\ (ValidIn(r, g) <=> ValidIn(s, g))
        BY <2>5, <2>22
      <4> QED BY <2>8, <2>16, <2>19, <4>1, <4>2
    <3>2. r.ends = s.ends
      BY <2>6, <2>12
    <3> QED BY <2>12, <2>22, <3>1, <3>2 DEF Apart
  <2>24. ValidIn(r, h) /\ r.junk = s.junk /\ CountIn(r, h) = CountIn(s, h) + c
    BY <2>5, <2>6, <2>12, <2>22
  <2>25. Exact(r) => r.ok
    BY <2>12 DEF Exact
  <2>26. \A n \in Elems(L2[h]) :
           \/ n \in Elems(L[h]) /\ r.cell[n] = s.cell[n]
           \/ r.cell[n].data = d /\ r.cell[n].valid = v
    BY <2>7, <2>8, <2>15, <2>16
  <2>27. Len(L2[h]) = Len(L[h]) + 1
    BY <2>7, <2>8
  <2>28. ASSUME c <= 1, Within(s, L, h) PROVE Within(r, L2, h)
    <3>1. r.ends = s.ends /\ CountIn(s, h) \in Int /\ Len(q) \in Nat
      <4>1. s.trap \in [Trap -> TrapEntry]
        BY <1>1, Fields
      <4> QED BY <1>1, <2>6, <2>12, <4>1, ListShape DEF CountIn, TrapEntry
    <3> QED BY <2>24, <2>27, <2>28, <3>1 DEF Within
  <2> QED BY <2>8, <2>17, <2>21, <2>23, <2>24, <2>25, <2>26, <2>27, <2>28 DEF AddedTo
<1> QED BY <1>2, <1>3

-----------------------------------------------------------------------------
(* An element removed.                                                     *)

LEMMA DataOnce ==
  ASSUME NEW s, NEW L, Core(s, L), NEW h \in Header,
         NEW n \in Elems(L[h]), NEW k \in Elems(L[h]), s.cell[n].data = s.cell[k].data
  PROVE  n = k
<1> DEFINE q == L[h]
<1>1. q \in Seq(Node) /\ Len(q) \in Nat /\ DOMAIN q = 1 .. Len(q) /\ Sorted(q, Data(s))
  BY ListShape
<1>2. s \in CallState
  BY DEF Core
<1>3. PICK i \in DOMAIN q : n = q[i]
  BY DEF Elems
<1>4. PICK j \in DOMAIN q : k = q[j]
  BY DEF Elems
<1>5. n \in Node /\ k \in Node /\ Data(s)[n] = Data(s)[k] /\ Data(s)[n] \in Nat
  BY <1>1, <1>2, <1>3, <1>4, DataType
<1>6. \A a, b \in DOMAIN q : a < b => Data(s)[q[a]] < Data(s)[q[b]]
  BY <1>1 DEF Sorted
<1>7. ~(i < j) /\ ~(j < i)
  BY <1>3, <1>4, <1>5, <1>6
<1>8. i = j
  BY <1>1, <1>7
<1> QED BY <1>3, <1>4, <1>8

\* z is s but for one list and its count.
AlikeBut(s, z, h) ==
  /\ z.cell = s.cell /\ z.flow = s.flow /\ z.ends = s.ends /\ z.failed = s.failed
  /\ z.ok = s.ok /\ z.junk = s.junk /\ SameValid(s, z)
  /\ \A g \in Header \ {h} : CountIn(z, g) = CountIn(s, g)
  /\ \A t \in Trap : z.trap[t].action = s.trap[t].action
                     /\ z.trap[t].notSet = s.trap[t].notSet

Removed(z, h, d, n) == Free(FlowDelete(z, h[1], h[2], d), n)

LEMMA FreeIs ==
  ASSUME NEW s \in CallState, NEW n \in Node, NEW r, r = Free(s, n)
  PROVE  /\ r \in CallState /\ r.trap = s.trap /\ r.flow = s.flow /\ r.ends = s.ends
         /\ r.failed = s.failed /\ r.ok = s.ok /\ r.junk = s.junk /\ r.at = s.at
         /\ \A e \in Elem \ {n} : r.mem[e] = s.mem[e]
         /\ \A e \in Node \ {n} : r.cell[e] = s.cell[e]
         /\ s.ok => ~r.cell[n].used
<1>1. CASE ~s.ok
  BY <1>1 DEF Free
<1>2. CASE s.ok
  <2> DEFINE k == [s.cell EXCEPT ![n] = FreeCell]
             m == [s.mem EXCEPT ![n] = Unlinked]
  <2>1. r = [s EXCEPT !.cell = k, !.mem = m]
    BY <1>2 DEF Free, CallState
  <2>2. k \in [Node -> ListEntry] /\ m \in Memory
    BY Fields, FlowTypes DEF Memory, Unlinked, Pointer, Elem
  <2>3. /\ \A e \in Elem \ {n} : m[e] = s.mem[e]
        /\ \A e \in Node \ {n} : k[e] = s.cell[e]
        /\ ~k[n].used
    BY Fields DEF Memory, Elem, FreeCell
  <2> HIDE DEF k, m
  <2> QED BY <2>1, <2>2, <2>3 DEF CallState
<1> QED BY <1>1, <1>2

LEMMA FlowDeleteIs ==
  ASSUME NEW z \in CallState, z.ok, NEW h \in Header, NEW d \in PortVlan,
         NEW r, r = FlowDelete(z, h[1], h[2], d)
  PROVE  /\ r \in CallState /\ r.trap = z.trap /\ r.mem = z.mem /\ r.cell = z.cell
         /\ r.ends = z.ends /\ r.junk = z.junk /\ r.at = z.at
         /\ z.failed # 0 => r.failed # 0
         /\ \/ ~r.ok /\ r.flow = z.flow /\ (FlowFor(z, h, d) # NoFlow => r.failed # 0)
            \/ /\ r.ok /\ r.failed = z.failed /\ FlowFor(r, h, d) = NoFlow
               /\ \A c \in Cookie \ {CookieOf(h[1], h[2], d)} : r.flow[c] = z.flow[c]
<1> DEFINE k == CookieOf(h[1], h[2], d)
           f == [z.flow EXCEPT ![k] = NoFlow]
<1>1. k \in Cookie /\ z.flow \in [Cookie -> FlowEntry]
  BY CookieIs, Fields
<1>2. CASE z.flow[k] = NoFlow
  <2>1. r = Return(z)
    BY <1>2 DEF FlowDelete
  <2>2. FlowFor(z, h, d) = NoFlow
    BY <1>2 DEF FlowFor
  <2> QED BY <2>1, <2>2, ReturnIs
<1>3. CASE z.flow[k] # NoFlow
  <2>1. r = Hardware(z, f)
    BY <1>3 DEF FlowDelete
  <2>2. f \in [Cookie -> FlowEntry]
    BY <1>1, FlowTypes
  <2>3. f[k] = NoFlow /\ \A c \in Cookie \ {k} : f[c] = z.flow[c]
    BY <1>1
  <2> HIDE DEF f
  <2>4. /\ r \in CallState /\ r.trap = z.trap /\ r.mem = z.mem /\ r.cell = z.cell
        /\ r.ends = z.ends /\ r.junk = z.junk /\ r.at = z.at
        /\ z.failed # 0 => r.failed # 0
        /\ \/ ~r.ok /\ r.failed # 0 /\ r.flow = z.flow
           \/ r.ok = z.ok /\ r.failed = z.failed /\ r.flow = f
    <3>1. z \in CallState
      OBVIOUS
    <3> QED BY ONLY <2>1, <2>2, <3>1, HardwareIs
  <2>5. r.flow = f => FlowFor(r, h, d) = NoFlow
    BY <2>3 DEF FlowFor
  <2> QED BY <2>3, <2>4, <2>5
<1> QED BY <1>2, <1>3

\* The others stay as they were when the element with datum d leaves.
LeftBy(s, L, h, d, r, L2) ==
  /\ r.ok => \A n \in Elems(L2[h]) : n \in Elems(L[h]) /\ r.cell[n] = s.cell[n]
  /\ DataIn(s, L2[h]) = DataIn(s, L[h]) \ {d}

\* An element taken off its list, its flow and the element given back.
LEMMA RemovedKeeps ==
  ASSUME NEW s, NEW L, Core(s, L), s.ok, NEW h \in Header, ValidIn(s, h),
         NEW p \in 1 .. Len(L[h]),
         NEW z \in CallState, AlikeBut(s, z, h), CutAt(s, z.mem, h, L[h], p),
         NEW d, d = s.cell[L[h][p]].data,
         NEW r, r = Removed(z, h, d, L[h][p])
  PROVE  LET L2 == DropList(L, h, p) IN
         /\ Core(r, L2) /\ Apart(s, L, r, L2, h) /\ ValidIn(r, h) /\ r.junk = s.junk
         /\ L2 \in [Header -> Seq(Node)] /\ L2[h] = Drop(L[h], p)
         /\ CountIn(r, h) = CountIn(z, h)
         /\ Exact(r) => r.ok
         /\ LeftBy(s, L, h, d, r, L2)
         /\ r.ends = s.ends
<1> DEFINE q == L[h]
           x == q[p]
           L2 == DropList(L, h, p)
           u == FlowDelete(z, h[1], h[2], d)
<1>1. s \in CallState /\ L \in [Header -> Seq(Node)]
  BY DEF Core, Shape
<1>2. /\ q \in Seq(Node) /\ Distinct(q) /\ Len(q) \in Nat /\ DOMAIN q = 1 .. Len(q)
      /\ Elems(q) \subseteq Node
  BY ListShape
<1>3. x \in Node /\ x \in Elems(q) /\ d = s.cell[x].data /\ d \in PortVlan
  <2>1. x \in Elems(q)
    BY <1>2 DEF Elems
  <2>2. x \in Node
    BY <1>2, <2>1
  <2> QED BY <1>1, <2>1, <2>2, DataType
<1>4. Drop(q, p) \in Seq(Node) /\ Elems(Drop(q, p)) = Elems(q) \ {x}
  BY <1>2, DropIs
<1>5. /\ L2 \in [Header -> Seq(Node)]
      /\ L2[h] = Drop(q, p)
      /\ \A g \in Header \ {h} : L2[g] = L[g]
  BY <1>1, <1>4 DEF DropList
<1>6. /\ z.cell = s.cell /\ z.flow = s.flow /\ z.ends = s.ends /\ z.failed = s.failed
      /\ z.ok = s.ok /\ z.junk = s.junk
      /\ \A g \in Header \ {h} : CountIn(z, g) = CountIn(s, g)
      /\ \A g \in Header : ValidIn(z, g) <=> ValidIn(s, g)
      /\ \A t \in Trap : z.trap[t].action = s.trap[t].action
                         /\ z.trap[t].notSet = s.trap[t].notSet
  BY DEF AlikeBut, SameValid
<1> HIDE DEF x, L2, u
<1>7. /\ u \in CallState /\ u.trap = z.trap /\ u.mem = z.mem /\ u.cell = z.cell
      /\ u.ends = z.ends /\ u.junk = z.junk
      /\ z.failed # 0 => u.failed # 0
      /\ \/ ~u.ok /\ u.flow = z.flow /\ (FlowFor(z, h, d) # NoFlow => u.failed # 0)
         \/ /\ u.ok /\ u.failed = z.failed /\ FlowFor(u, h, d) = NoFlow
            /\ \A c \in Cookie \ {CookieOf(h[1], h[2], d)} : u.flow[c] = z.flow[c]
  <2>1. u = FlowDelete(z, h[1], h[2], d) /\ z \in CallState /\ z.ok /\ h \in Header
    BY <1>6 DEF u
  <2> QED BY ONLY <1>3, <2>1, FlowDeleteIs
<1>8. /\ r \in CallState /\ r.trap = u.trap /\ r.flow = u.flow /\ r.ends = u.ends
      /\ r.failed = u.failed /\ r.ok = u.ok /\ r.junk = u.junk
      /\ \A e \in Elem \ {x} : r.mem[e] = u.mem[e]
      /\ \A e \in Node \ {x} : r.cell[e] = u.cell[e]
      /\ u.ok => ~r.cell[x].used
  <2>1. r = Free(u, x)
    BY DEF Removed, u, x
  <2> QED BY ONLY <1>3, <1>7, <2>1, FreeIs
<1>9. Shape(r, L2)
  <2>1. CutAt(s, r.mem, h, q, p)
    <3>1. \A e \in Elem \ {q[p]} : r.mem[e] = z.mem[e]
      BY <1>7, <1>8 DEF x
    <3> QED BY <3>1 DEF CutAt
  <2>2. KeptBut(s, r, q[p])
    <3>0. u.cell = s.cell
      BY <1>6, <1>7
    <3>1. \A e \in Node \ {x} : r.cell[e] = s.cell[e]
      BY ONLY <3>0, <1>8
    <3> QED BY ONLY <3>1 DEF KeptBut, x
  <2>3. SameValid(s, r)
    <3>1. r.trap = z.trap
      BY <1>7, <1>8
    <3> QED BY ONLY <1>6, <3>1 DEF SameValid, ValidIn
  <2>4. Core(s, L) /\ ValidIn(s, h) /\ h \in Header
        /\ p \in 1 .. Len(L[h]) /\ x = L[h][p]
    BY <1>2 DEF x
  <2>5. r \in CallState
    BY <1>8
  <2>6. CutAt(s, r.mem, h, L[h], p) /\ KeptBut(s, r, x)
    BY <2>1, <2>2 DEF x
  <2>7. Shape(r, DropList(L, h, p))
    BY ONLY <2>3, <2>4, <2>5, <2>6, ShapeDrop
  <2> QED BY <2>7 DEF L2
<1>10. \A e \in Node \ {x} : r.cell[e] = s.cell[e]
  <2>1. u.cell = s.cell
    BY <1>6, <1>7
  <2> QED BY ONLY <2>1, <1>8
<1>11. \A n \in Elems(L2[h]) : n \in Elems(q) /\ n \in Node \ {x} /\ r.cell[n] = s.cell[n]
  BY <1>2, <1>4, <1>5, <1>10
<1>12. ASSUME NEW g \in Header \ {h}
       PROVE  L2[g] = L[g] /\ \A n \in Elems(L[g]) : r.cell[n] = s.cell[n]
  <2>1. Elems(L[g]) \cap Elems(q) = {} /\ Elems(L[g]) \subseteq Node
    BY ListShape DEF Core, Shape
  <2> QED BY <1>3, <1>5, <1>10, <2>1
<1>13. DataIn(s, L2[h]) = DataIn(s, q) \ {d}
  <2>1. \A n \in Elems(q) : s.cell[n].data = d => n = x
    BY <1>3, DataOnce
  <2> QED BY <1>3, <1>4, <1>5, <2>1 DEF DataIn
<1>14. DataIn(r, L2[h]) = DataIn(s, q) \ {d}
  BY <1>11, <1>13 DEF DataIn
<1>15. ASSUME NEW g \in Header \ {h} PROVE DataIn(r, L2[g]) = DataIn(s, L[g])
  <2>1. L2[g] = L[g] /\ \A n \in Elems(L[g]) : r.cell[n] = s.cell[n]
    BY <1>12
  <2> QED BY ONLY <2>1 DEF DataIn
<1>16. ASSUME OwnCookies, NEW g \in Header, NEW pv \in PortVlan, g # h \/ pv # d
       PROVE  FlowFor(r, g, pv) = FlowFor(s, g, pv)
  <2>1. CASE r.flow = s.flow
    BY <2>1 DEF FlowFor
  <2>2. CASE r.flow # s.flow
    <3>1. \A c \in Cookie \ {CookieOf(h[1], h[2], d)} : r.flow[c] = s.flow[c]
      <4>1. r.flow = u.flow
        BY <1>6, <1>7, <1>8
      <4> QED BY <1>6, <1>7, <2>2, <4>1
    <3>2. /\ h \in Header /\ g \in Header /\ pv \in PortVlan /\ OwnCookies /\ d \in PortVlan
          /\ g # h \/ pv # d
      BY <1>3, <1>16
    <3> DEFINE f == r.flow
    <3>3. \A c \in Cookie \ {CookieOf(h[1], h[2], d)} : f[c] = s.flow[c]
      BY <3>1
    <3>4. r.flow = f
      OBVIOUS
    <3> HIDE DEF f
    <3> QED BY ONLY <3>2, <3>3, <3>4, FlowElsewhere
  <2> QED BY <2>1, <2>2
<1>17. ASSUME Exact(r) PROVE r.ok /\ Accounted(r, L2)
  <2>1. OwnCookies /\ r.failed = 0 /\ s.failed = 0
    BY <1>6, <1>7, <1>8, <1>17 DEF Exact
  <2>2. Accounted(s, L)
    BY <2>1 DEF Exact, Core
  <2>3. d \in DataIn(s, q)
    BY <1>3 DEF DataIn
  <2>4. FlowFor(s, h, d) # NoFlow
    <3>1. FlowFor(s, h, d).of = h[1]
      BY <1>3, <2>2, <2>3 DEF Accounted
    <3> QED BY <3>1, FlowTypes, Headers
  <2>5. FlowFor(z, h, d) # NoFlow
    BY <1>6, <2>4 DEF FlowFor
  <2>6. r.ok /\ FlowFor(u, h, d) = NoFlow
    BY <1>7, <1>8, <2>1, <2>5
  <2>7. FlowFor(r, h, d) = NoFlow
    BY <1>8, <2>6 DEF FlowFor
  <2>8. ASSUME NEW n \in Node, r.cell[n].used PROVE \E g \in Header : n \in Elems(L2[g])
    <3>1. n # x
      BY <1>8, <2>6, <2>8
    <3>2. s.cell[n].used
      BY <1>10, <2>8, <3>1
    <3>3. PICK g \in Header : n \in Elems(L[g])
      BY <2>2, <3>2 DEF Accounted
    <3>4. n \in Elems(L2[g])
      BY <1>4, <1>5, <3>1, <3>3
    <3> QED BY <3>4
  <2>9. ASSUME NEW g \in Header, NEW pv \in PortVlan
        PROVE  /\ FlowFor(r, g, pv) = NoFlow \/ FlowFor(r, g, pv).of = g[1]
               /\ FlowFor(r, g, pv).of = g[1] <=> pv \in DataIn(r, L2[g])
    <3>1. CASE g = h /\ pv = d
      <4>1. NoFlow.of # g[1]
        BY FlowTypes, Headers
      <4> QED BY <1>14, <2>7, <3>1, <4>1
    <3>2. CASE g # h \/ pv # d
      <4>1. FlowFor(r, g, pv) = FlowFor(s, g, pv)
        BY <1>16, <2>1, <3>2
      <4>2. pv \in DataIn(r, L2[g]) <=> pv \in DataIn(s, L[g])
        BY <1>14, <1>15, <3>2
      <4> QED BY <2>2, <4>1, <4>2 DEF Accounted
    <3> QED BY <3>1, <3>2
  <2>10. r.ends = NoEnds
    BY <1>6, <1>7, <1>8, <2>2 DEF Accounted
  <2> QED BY <2>6, <2>8, <2>9, <2>10 DEF Accounted
<1>18. Core(r, L2)
  BY <1>8, <1>9, <1>17 DEF Core
<1>19. /\ \A g \in Header : CountIn(r, g) = CountIn(z, g) /\ (ValidIn(r, g) <=> ValidIn(z, g))
       /\ \A t \in Trap : r.trap[t].action = s.trap[t].action
                          /\ r.trap[t].notSet = s.trap[t].notSet
  <2>1. r.trap = z.trap
    BY <1>7, <1>8
  <2> QED BY ONLY <1>6, <2>1 DEF CountIn, ValidIn
<1>20. Apart(s, L, r, L2, h)
  <2>1. ASSUME NEW g \in Header \ {h}
        PROVE  /\ L2[g] = L[g] /\ CountIn(r, g) = CountIn(s, g)
               /\ \A n \in Elems(L[g]) : r.cell[n] = s.cell[n]
               /\ OwnCookies => \A pv \in PortVlan : FlowFor(r, g, pv) = FlowFor(s, g, pv)
               /\ (ValidIn(r, g) <=> ValidIn(s, g))
    <3>1. g # h /\ g \in Header
      OBVIOUS
    <3>2. CountIn(r, g) = CountIn(s, g) /\ (ValidIn(r, g) <=> ValidIn(s, g))
      BY <1>6, <1>19
    <3> QED BY <1>12, <1>16, <3>1, <3>2
  <2>2. (s.failed # 0 => r.failed # 0) /\ r.ends = s.ends
    BY <1>6, <1>7, <1>8
  <2> QED BY <1>19, <2>1, <2>2 DEF Apart
<1>21. ValidIn(r, h) /\ r.junk = s.junk /\ CountIn(r, h) = CountIn(z, h) /\ r.ends = s.ends
  BY <1>6, <1>7, <1>8, <1>19
<1> QED BY <1>5, <1>11, <1>13, <1>17, <1>18, <1>20, <1>21 DEF L2, LeftBy

-----------------------------------------------------------------------------
(* The flow of a member.                                                   *)

LEMMA FlowActions == \A a : FlowAction(a) \in {"drop", "trap", "forward", "unsupported"}
BY DEF FlowAction

\* The action of the trap applied to the flow of a member.
LEMMA AppliedKeeps ==
  ASSUME NEW s, NEW L, Core(s, L), s.ok, NEW h \in Header, NEW d \in PortVlan,
         NEW a, a = FlowAction(s.trap[h[1]].action),
         NEW r, r = FlowApply(s, h[1], h[2], d)
  PROVE  /\ Core(r, L) /\ Apart(s, L, r, L, h)
         /\ r.trap = s.trap /\ r.mem = s.mem /\ r.cell = s.cell /\ r.junk = s.junk
         /\ (Exact(r) /\ d \in DataIn(s, L[h])) => (r.ok \/ a = "unsupported")
         /\ r.ok => /\ a # "unsupported" /\ FlowFor(r, h, d).action = a
                    /\ OwnCookies => \A pv \in PortVlan \ {d} : FlowFor(r, h, pv) = FlowFor(s, h, pv)
<1> DEFINE k == CookieOf(h[1], h[2], d)
           e == [s.flow[k] EXCEPT !.action = a]
           f == [s.flow EXCEPT ![k] = e]
<1>1. s \in CallState /\ k \in Cookie /\ s.flow \in [Cookie -> FlowEntry]
  BY CookieIs, Fields DEF Core
<1>2. CASE s.flow[k] = NoFlow \/ a = "unsupported"
  <2>1. r = Return(s)
    BY <1>2 DEF FlowApply
  <2>2. /\ r \in CallState /\ ~r.ok /\ r.failed = s.failed
        /\ r.trap = s.trap /\ r.mem = s.mem /\ r.cell = s.cell
        /\ r.flow = s.flow /\ r.ends = s.ends /\ r.junk = s.junk
    BY <1>1, <2>1, ReturnIs
  <2>3. Core(r, L) /\ Apart(s, L, r, L, h)
    BY <2>2, CoreReads
  <2>4. ASSUME Exact(r), d \in DataIn(s, L[h]) PROVE a = "unsupported"
    <3>1. Accounted(s, L)
      BY <2>2, <2>4 DEF Exact, Core
    <3>2. FlowFor(s, h, d).of = h[1]
      BY <2>4, <3>1 DEF Accounted
    <3>3. FlowFor(s, h, d) # NoFlow
      BY <3>2, FlowTypes, Headers
    <3>4. s.flow[k] # NoFlow
      BY <3>3 DEF FlowFor
    <3> QED BY <1>2, <3>4
  <2> QED BY <2>2, <2>3, <2>4
<1>3. CASE ~(s.flow[k] = NoFlow \/ a = "unsupported")
  <2>1. r = Hardware(s, [s.flow EXCEPT ![k].action = a])
    BY <1>3 DEF FlowApply
  <2>2. f = [s.flow EXCEPT ![k].action = a]
    OBVIOUS
  <2>3. r = Hardware(s, f)
    BY <2>1, <2>2
  <2>4. e \in FlowEntry /\ e.of = s.flow[k].of /\ e.action = a
    BY <1>1, <1>3, FlowActions DEF FlowEntry
  <2> HIDE DEF e
  <2>5. f \in [Cookie -> FlowEntry] /\ f[k] = e /\ \A c \in Cookie \ {k} : f[c] = s.flow[c]
    BY <1>1, <2>4
  <2> HIDE DEF f
  <2>6. /\ r \in CallState /\ r.trap = s.trap /\ r.mem = s.mem /\ r.cell = s.cell
        /\ r.ends = s.ends /\ r.junk = s.junk
        /\ s.failed # 0 => r.failed # 0
        /\ \/ ~r.ok /\ r.failed # 0 /\ r.flow = s.flow
           \/ r.ok = s.ok /\ r.failed = s.failed /\ r.flow = f
    BY ONLY <1>1, <2>3, <2>5, HardwareIs
  <2>7. CASE r.flow = s.flow /\ ~r.ok /\ r.failed # 0
    <3>1. Core(r, L) /\ Apart(s, L, r, L, h)
      BY <2>6, <2>7, CoreReads
    <3> QED BY <2>6, <2>7, <3>1 DEF Exact
  <2>8. CASE r.ok /\ r.failed = s.failed /\ r.flow = f
    <3>1. Shape(r, L)
      BY <2>6, ShapeReads DEF Core
    <3>2. ASSUME OwnCookies, NEW g \in Header, NEW pv \in PortVlan, g # h \/ pv # d
          PROVE  FlowFor(r, g, pv) = FlowFor(s, g, pv)
      <4>1. /\ \A c \in Cookie \ {CookieOf(h[1], h[2], d)} : f[c] = s.flow[c]
            /\ r.flow = f /\ OwnCookies /\ h \in Header /\ g \in Header
            /\ d \in PortVlan /\ pv \in PortVlan
            /\ g # h \/ pv # d
        BY <2>5, <2>8, <3>2
      <4> QED BY ONLY <4>1, FlowElsewhere
    <3>3. FlowFor(r, h, d) = e
      BY <2>5, <2>8 DEF FlowFor
    <3>4. FlowFor(s, h, d) = s.flow[k]
      BY DEF FlowFor
    <3>5. ASSUME Exact(r) PROVE Accounted(r, L)
      <4>1. Accounted(s, L) /\ OwnCookies
        BY <2>8, <3>5 DEF Exact, Core
      <4>2. s.flow[k].of = h[1]
        BY <1>3, <3>4, <4>1 DEF Accounted
      <4>3. \A g \in Header : DataIn(r, L[g]) = DataIn(s, L[g])
        BY <2>6 DEF DataIn
      <4>4. ASSUME NEW g \in Header, NEW pv \in PortVlan
            PROVE  /\ FlowFor(r, g, pv) = NoFlow \/ FlowFor(r, g, pv).of = g[1]
                   /\ FlowFor(r, g, pv).of = g[1] <=> pv \in DataIn(r, L[g])
        <5>1. CASE g = h /\ pv = d
          BY <2>4, <3>3, <3>4, <4>1, <4>2, <4>3, <5>1 DEF Accounted
        <5>2. CASE g # h \/ pv # d
          BY <3>2, <4>1, <4>3, <5>2 DEF Accounted
        <5> QED BY <5>1, <5>2
      <4>5. r.ends = NoEnds /\ \A n \in Node : r.cell[n].used => \E g \in Header : n \in Elems(L[g])
        BY <2>6, <4>1 DEF Accounted
      <4> QED BY <4>4, <4>5 DEF Accounted
    <3>6. Core(r, L)
      BY <2>6, <3>1, <3>5 DEF Core
    <3>7. Apart(s, L, r, L, h)
      <4>1. ASSUME NEW g \in Header \ {h}
            PROVE  /\ CountIn(r, g) = CountIn(s, g) /\ (ValidIn(r, g) <=> ValidIn(s, g))
                   /\ OwnCookies => \A pv \in PortVlan : FlowFor(r, g, pv) = FlowFor(s, g, pv)
        <5>1. g \in Header /\ g # h
          OBVIOUS
        <5>2. CountIn(r, g) = CountIn(s, g) /\ (ValidIn(r, g) <=> ValidIn(s, g))
          BY <2>6 DEF CountIn, ValidIn
        <5> QED BY <3>2, <5>1, <5>2
      <4> QED BY <2>6, <4>1 DEF Apart
    <3>8. OwnCookies => \A pv \in PortVlan \ {d} : FlowFor(r, h, pv) = FlowFor(s, h, pv)
      BY <3>2
    <3> QED BY <1>3, <2>4, <2>6, <2>8, <3>3, <3>6, <3>7, <3>8
  <2> QED BY <2>6, <2>7, <2>8
<1> QED BY <1>2, <1>3

\* An element marked, or its mark cleared.
Marked(s, n, b) == [s EXCEPT !.cell[n].valid = b]

LEMMA MarkedKeeps ==
  ASSUME NEW s, NEW L, Core(s, L), NEW h \in Header, NEW n \in Elems(L[h]),
         NEW b \in BOOLEAN, NEW r, r = Marked(s, n, b)
  PROVE  /\ Core(r, L) /\ Apart(s, L, r, L, h)
         /\ r.trap = s.trap /\ r.mem = s.mem /\ r.flow = s.flow /\ r.ok = s.ok
         /\ r.failed = s.failed /\ r.junk = s.junk /\ r.at = s.at
         /\ \A e \in Node : r.cell[e].used = s.cell[e].used /\ r.cell[e].data = s.cell[e].data
         /\ (b => r.cell[n].valid) /\ (~b => ~r.cell[n].valid)
         /\ \A e \in Node \ {n} : r.cell[e] = s.cell[e]
<1> DEFINE k == [s.cell EXCEPT ![n].valid = b]
<1>1. s \in CallState /\ n \in Node /\ s.cell \in [Node -> ListEntry]
  BY ListShape, Fields DEF Core
<1>2. k \in [Node -> ListEntry]
  BY <1>1 DEF ListEntry
<1>3. /\ \A e \in Node : k[e].used = s.cell[e].used /\ k[e].data = s.cell[e].data
      /\ (b => k[n].valid) /\ (~b => ~k[n].valid)
      /\ \A e \in Node \ {n} : k[e] = s.cell[e]
  BY <1>1 DEF ListEntry
<1>4. r = [s EXCEPT !.cell = k]
  BY <1>1 DEF Marked, CallState
<1> HIDE DEF k
<1>5. /\ r \in CallState /\ r.cell = k
      /\ r.trap = s.trap /\ r.mem = s.mem /\ r.flow = s.flow /\ r.ok = s.ok
      /\ r.failed = s.failed /\ r.junk = s.junk /\ r.ends = s.ends /\ r.at = s.at
  BY <1>1, <1>2, <1>4 DEF CallState
<1>6. Shape(r, L)
  <2>1. \A e \in Node : r.cell[e].used = s.cell[e].used /\ r.cell[e].data = s.cell[e].data
    BY <1>3, <1>5
  <2>2. \A g \in Header : ValidIn(r, g) <=> ValidIn(s, g)
    BY <1>5 DEF ValidIn
  <2> QED BY <1>5, <2>1, <2>2, ShapeSame
<1>7. \A g \in Header : Elems(L[g]) \subseteq Node
  BY ListShape
<1>8. ASSUME NEW g \in Header PROVE DataIn(r, L[g]) = DataIn(s, L[g])
  BY <1>3, <1>5, <1>7 DEF DataIn
<1>9. Exact(r) => Accounted(r, L)
  <2> SUFFICES ASSUME Exact(r) PROVE Accounted(r, L)
    OBVIOUS
  <2>1. Accounted(s, L)
    BY <1>5 DEF Core, Exact
  <2>2. \A g \in Header, pv \in PortVlan : FlowFor(r, g, pv) = FlowFor(s, g, pv)
    BY <1>5 DEF FlowFor
  <2> QED BY <1>3, <1>5, <1>8, <2>1, <2>2 DEF Accounted
<1>10. Apart(s, L, r, L, h)
  <2>1. ASSUME NEW g \in Header \ {h}, NEW e \in Elems(L[g]) PROVE r.cell[e] = s.cell[e]
    <3>1. e \in Node /\ e # n
      BY <1>7 DEF Core, Shape
    <3> QED BY <1>3, <1>5, <3>1
  <2> QED BY <1>5, <2>1 DEF Apart, CountIn, FlowFor, ValidIn
<1> QED BY <1>3, <1>5, <1>6, <1>9, <1>10 DEF Core

\* The element a loop has reached, and the end of a loop that met none.
LEMMA MovedKeeps ==
  ASSUME NEW s, NEW L, Core(s, L), NEW x \in Pointer, NEW r, r = [s EXCEPT !.at = x]
  PROVE  /\ Core(r, L) /\ \A h \in Header : Apart(s, L, r, L, h)
         /\ r.trap = s.trap /\ r.mem = s.mem /\ r.cell = s.cell /\ r.flow = s.flow
         /\ r.ok = s.ok /\ r.failed = s.failed /\ r.junk = s.junk /\ r.at = x
<1>1. /\ r \in CallState /\ s \in CallState
      /\ r.trap = s.trap /\ r.mem = s.mem /\ r.cell = s.cell /\ r.flow = s.flow
      /\ r.ok = s.ok /\ r.failed = s.failed /\ r.junk = s.junk /\ r.at = x /\ r.ends = s.ends
  BY DEF Core, CallState
<1>2. Core(r, L) /\ \A h \in Header : Apart(s, L, r, L, h)
  BY <1>1, CoreReads
<1> QED BY <1>1, <1>2

LEMMA PassedKeeps ==
  ASSUME NEW s, NEW L, Core(s, L), ~Exact(s), NEW h \in Header, h \in s.ends.short,
         NEW r, r = Pass(s, h)
  PROVE  /\ Core(r, L) /\ \A g \in Header : Apart(s, L, r, L, g)
         /\ r.trap = s.trap /\ ~r.ok /\ ~Exact(r)
         /\ r.ends.short = s.ends.short
<1> DEFINE e == [s.ends EXCEPT !.passed = @ \cup {h}]
<1>1. s \in CallState /\ s.ends \in SoundEnds
  BY Fields DEF Core
<1>2. e \in SoundEnds /\ e.short = s.ends.short
  BY <1>1 DEF SoundEnds, Ends
<1>3. r = [Return(s) EXCEPT !.ends = e]
  BY <1>1 DEF Pass, Return, CallState
<1> HIDE DEF e
<1>4. /\ r \in CallState /\ ~r.ok /\ r.ends = e
      /\ r.trap = s.trap /\ r.mem = s.mem /\ r.cell = s.cell /\ r.flow = s.flow
      /\ r.failed = s.failed
  BY <1>1, <1>2, <1>3 DEF CallState, Return
<1>5. Shape(r, L)
  BY <1>4, ShapeReads DEF Core
<1>6. ~Exact(r)
  BY <1>4 DEF Exact
<1>7. ASSUME NEW g \in Header PROVE Apart(s, L, r, L, g)
  BY <1>2, <1>4 DEF Apart, CountIn, FlowFor, ValidIn
<1> QED BY <1>2, <1>4, <1>5, <1>6, <1>7 DEF Core

-----------------------------------------------------------------------------
(* Loops.                                                                  *)

\* A loop of n steps of a function F from s, and states P the steps lead through.
LoopOf(f, n, s, F) == f = [k \in 0 .. n |-> IF k = 0 THEN s ELSE F[<<k, f[k - 1]>>]]
Leads(n, P, F) == \A k \in 1 .. n : \A a \in P[k - 1] : F[<<k, a>>] \in P[k]
Passes(f, n, P) == \A k \in 0 .. n : f[k] \in P[k]

LEMMA LoopExists ==
  ASSUME NEW n \in Nat, NEW s, NEW P, NEW F, s \in P[0], Leads(n, P, F)
  PROVE  \E f : LoopOf(f, n, s, F) /\ Passes(f, n, P)
<1> DEFINE Run(m, f) == [k \in 0 .. m |-> IF k = 0 THEN s ELSE F[<<k, f[k - 1]>>]]
           Runs(m) == \E f : f = Run(m, f) /\ \A k \in 0 .. m : f[k] \in P[k]
           Bad == {m \in 0 .. n : ~Runs(m)}
<1>0. \A k \in 1 .. n : \A a \in P[k - 1] : F[<<k, a>>] \in P[k]
  BY DEF Leads
<1> SUFFICES ASSUME Bad # {} PROVE FALSE
  <2>1. n \in 0 .. n
    OBVIOUS
  <2>2. Bad = {} => Runs(n)
    BY <2>1
  <2> QED BY <2>2 DEF LoopOf, Passes
<1>1. PICK m \in Bad : \A k \in Bad : m <= k
  <2>1. Bad \subseteq Nat
    OBVIOUS
  <2> HIDE DEF Bad
  <2> QED BY <2>1, LeastExists
<1>2. m \in 0 .. n /\ ~Runs(m)
  OBVIOUS
<1>3. CASE m = 0
  <2> DEFINE f == [k \in 0 .. 0 |-> s]
  <2>1. f = Run(0, f)
    OBVIOUS
  <2>2. \A k \in 0 .. 0 : f[k] \in P[k]
    OBVIOUS
  <2> QED BY <1>2, <1>3, <2>1, <2>2
<1>4. CASE m # 0
  <2>1. m - 1 \in 0 .. n /\ m \in 1 .. n /\ m - 1 \notin Bad
    <3>1. m - 1 \in 0 .. n /\ m \in 1 .. n /\ ~(m <= m - 1)
      BY <1>2, <1>4
    <3> HIDE DEF Bad
    <3> QED BY <1>1, <3>1
  <2>2. PICK f : f = Run(m - 1, f) /\ \A k \in 0 .. (m - 1) : f[k] \in P[k]
    BY <2>1
  <2> DEFINE g == Run(m, f)
  <2>3. \A k \in 0 .. (m - 1) : f[k] = IF k = 0 THEN s ELSE F[<<k, f[k - 1]>>]
    BY <2>2
  <2>a. g = [k \in 0 .. m |-> IF k = 0 THEN s ELSE F[<<k, f[k - 1]>>]]
    OBVIOUS
  <2> HIDE DEF g
  <2>4. \A k \in 0 .. m : g[k] = IF k = 0 THEN s ELSE F[<<k, f[k - 1]>>]
    BY ONLY <2>a, <2>1
  <2>5. \A k \in 0 .. (m - 1) : k \in 0 .. m /\ g[k] = f[k]
    <3> TAKE k \in 0 .. (m - 1)
    <3>1. k \in 0 .. m
      BY <2>1
    <3>2. f[k] = IF k = 0 THEN s ELSE F[<<k, f[k - 1]>>]
      BY ONLY <2>3
    <3>3. g[k] = IF k = 0 THEN s ELSE F[<<k, f[k - 1]>>]
      BY ONLY <2>4, <3>1
    <3> QED BY <3>1, <3>2, <3>3
  <2>6. \A k \in 0 .. m : k # 0 => g[k - 1] = f[k - 1]
    <3> TAKE k \in 0 .. m
    <3>1. k # 0 => k - 1 \in 0 .. (m - 1)
      BY <2>1
    <3> QED BY <2>5, <3>1
  <2>7. Run(m, f) = Run(m, g)
    BY <2>6
  <2>8. g = Run(m, g)
    BY <2>7 DEF g
  <2>9. g[m] \in P[m]
    <3>1. g[m] = F[<<m, f[m - 1]>>]
      BY <1>4, <2>1, <2>4
    <3>2. f[m - 1] \in P[m - 1]
      BY <2>1, <2>2
    <3> QED BY <1>0, <2>1, <3>1, <3>2
  <2>10. \A k \in 0 .. m : g[k] \in P[k]
    <3> TAKE k \in 0 .. m
    <3>1. k = m \/ k \in 0 .. (m - 1)
      BY <2>1
    <3> QED BY <2>2, <2>5, <2>9, <3>1
  <2> HIDE DEF Run
  <2> QED BY <1>2, <2>8, <2>10
<1> QED BY <1>3, <1>4

LEMMA LoopKeeps ==
  ASSUME NEW n \in Nat, NEW P, NEW g, g[0] \in P[0],
         \A k \in 1 .. n : g[k - 1] \in P[k - 1] => g[k] \in P[k]
  PROVE  g[n] \in P[n]
<1> DEFINE Bad == {m \in 0 .. n : g[m] \notin P[m]}
<1> SUFFICES ASSUME Bad # {} PROVE FALSE
  OBVIOUS
<1>1. PICK m \in Bad : \A k \in Bad : m <= k
  <2>1. Bad \subseteq Nat
    OBVIOUS
  <2> HIDE DEF Bad
  <2> QED BY <2>1, LeastExists
<1>2. m \in 0 .. n /\ g[m] \notin P[m]
  OBVIOUS
<1>3. m # 0
  BY <1>2
<1>4. m \in 1 .. n /\ m - 1 \in 0 .. n /\ m - 1 \notin Bad
  BY <1>1, <1>2, <1>3
<1>5. g[m - 1] \in P[m - 1]
  BY <1>4
<1> QED BY <1>2, <1>4, <1>5

\* The loop counters.
LEMMA CountTo ==
  ASSUME NEW c \in Int
  PROVE  LET list == [k \in 1 .. c |-> k] IN
         Len(list) \in Nat /\ (c >= 0 => Len(list) = c) /\ (c < 0 => Len(list) = 0)
<1> DEFINE list == [k \in 1 .. c |-> k]
<1>1. CASE c >= 0
  <2>1. list \in Seq(Int) /\ Len(list) = c
    BY <1>1
  <2> QED BY <1>1, <2>1
<1>2. CASE ~(c >= 0)
  <2>1. DOMAIN list = 1 .. 0
    BY <1>2
  <2>2. list \in [1 .. 0 -> Int]
    BY <1>2
  <2>3. list \in Seq(Int)
    BY <2>2
  <2>4. list = [k \in 1 .. 0 |-> k]
    <3>1. 1 .. c = 1 .. 0
      BY <1>2
    <3> QED BY ONLY <3>1
  <2>5. Len([k \in 1 .. 0 |-> k]) = 0
    OBVIOUS
  <2>6. Len(list) = 0
    <3> HIDE DEF list
    <3> QED BY <2>4, <2>5, Zenon
  <2>7. Len(list) \in Nat /\ (c >= 0 => Len(list) = c) /\ (c < 0 => Len(list) = 0)
    <3> DEFINE n == Len(list)
    <3>1. n = 0
      BY <2>6
    <3> HIDE DEF n
    <3>2. n \in Nat /\ (c >= 0 => n = c) /\ (c < 0 => n = 0)
      BY <1>2, <3>1
    <3> QED BY <3>2, Zenon DEF n
  <2> QED BY <2>7, Zenon
<1> QED BY <1>1, <1>2, Zenon

-----------------------------------------------------------------------------
(* The action applied to the flows of a list.                              *)

\* A loop along list q has done k elements and reached the next, if any.
Reached(x, q, k) ==
  /\ k \in 0 .. Len(q)
  /\ IF k < Len(q) THEN x.at = q[k + 1] ELSE x.at \notin Node

LEMMA FirstReached ==
  ASSUME NEW s, NEW L, Core(s, L), NEW h \in Header, NEW r, r.at = GetFirst(s.mem, h)
  PROVE  Reached(r, L[h], 0) /\ GetFirst(s.mem, h) \in Pointer
<1> DEFINE q == L[h]
<1>1. s.mem \in Memory /\ h \in Elem /\ h \notin Node /\ Null \notin Node
  BY Fields, DListConstants DEF Core, Elem
<1>2. GetFirst(s.mem, h) = s.mem[h].next /\ s.mem[h].next \in Pointer
  BY <1>1 DEF GetFirst, GetNext, Memory
<1>3. q \in Seq(Node) /\ Len(q) \in Nat /\ Distinct(q)
  BY ListShape
<1>4. CASE ValidIn(s, h)
  <2>1. Ring(s.mem, h, q)
    BY <1>4, ListShape
  <2>2. s.mem[At(h, q, 0)].next = At(h, q, 0 + 1)
    BY <1>3, <2>1 DEF Ring
  <2>3. s.mem[h].next = At(h, q, 1)
    BY <1>3, <2>2, Places
  <2>4. At(h, q, 1) = IF 0 < Len(q) THEN q[0 + 1] ELSE h
    BY <1>3 DEF At
  <2> QED BY <1>1, <1>2, <1>3, <2>3, <2>4 DEF Reached
<1>5. CASE ~ValidIn(s, h)
  <2>1. q = <<>> /\ s.mem[h].next = Null
    BY <1>5 DEF Core, Shape
  <2>2. Len(q) = 0
    BY <2>1
  <2> QED BY <1>1, <1>2, <2>1, <2>2 DEF Reached
<1> QED BY <1>4, <1>5

LEMMA NextReached ==
  ASSUME NEW s, NEW L, Core(s, L), NEW h \in Header, ValidIn(s, h),
         NEW k \in Nat, k < Len(L[h]), NEW r, r.at = GetNext(s.mem, L[h][k + 1])
  PROVE  Reached(r, L[h], k + 1) /\ GetNext(s.mem, L[h][k + 1]) \in Pointer
<1> DEFINE q == L[h]
<1>1. s.mem \in Memory /\ h \notin Node
  BY Fields, DListConstants DEF Core
<1>2. q \in Seq(Node) /\ Len(q) \in Nat /\ Distinct(q) /\ Ring(s.mem, h, q)
  BY ListShape
<1>3. k + 1 \in 0 .. Len(q) /\ k + 1 \in 1 .. Len(q)
  BY <1>2
<1>4. s.mem[At(h, q, k + 1)].next = At(h, q, (k + 1) + 1)
  BY <1>2, <1>3 DEF Ring
<1>5. At(h, q, k + 1) = q[k + 1] /\ q[k + 1] \in Node
  BY <1>2, <1>3 DEF At
<1>6. At(h, q, (k + 1) + 1) = IF k + 1 < Len(q) THEN q[(k + 1) + 1] ELSE h
  BY <1>2 DEF At
<1>7. GetNext(s.mem, q[k + 1]) = s.mem[q[k + 1]].next /\ s.mem[q[k + 1]].next \in Pointer
  BY <1>1, <1>5 DEF GetNext, Memory, Elem
<1> QED BY <1>1, <1>3, <1>4, <1>5, <1>6, <1>7 DEF Reached

\* A loop that goes on stays on the ring of its list.
LEMMA NextOn ==
  ASSUME NEW s, NEW L, Core(s, L), NEW h \in Header, ValidIn(s, h),
         NEW e \in {h} \cup Elems(L[h])
  PROVE  GetNext(s.mem, e) \in {h} \cup Elems(L[h]) /\ GetNext(s.mem, e) \in Pointer
<1>1. L[h] \in Seq(Node) /\ Elems(L[h]) \subseteq Node /\ Ring(s.mem, h, L[h])
  BY ListShape
<1>2. Linked(s.mem, {h} \cup Elems(L[h]))
  BY <1>1, RingLinked
<1>3. s.mem[e].next \in {h} \cup Elems(L[h])
  BY <1>2 DEF Linked
<1> QED BY <1>1, <1>3 DEF GetNext, Pointer, Elem

\* The action of the trap applied to all members of a list.
AppliedTo(s, L, h, a, r) ==
  /\ Core(r, L) /\ Apart(s, L, r, L, h)
  /\ r.trap = s.trap /\ r.cell = s.cell
  /\ Exact(r) => (r.ok \/ a = "unsupported")
  /\ (Exact(r) /\ r.ok) =>
       \A n \in Elems(L[h]) : FlowFor(r, h, s.cell[n].data).action = a

LEMMA AllApplied ==
  ASSUME NEW s, NEW L, Core(s, L), s.ok, NEW h \in Header,
         Within(s, L, h), Exact(s) => Counted(s, L, h),
         NEW a, a = FlowAction(s.trap[h[1]].action),
         NEW r, r = ApplyAll(s, h[1], h[2])
  PROVE  AppliedTo(s, L, h, a, r)
<1> DEFINE q == L[h]
           c == CountIn(s, h)
           n == Len([k \in 1 .. c |-> k])
           s1 == [s EXCEPT !.at = GetFirst(s.mem, <<h[1], h[2]>>)]
           Done(x, k) == \A j \in 1 .. k : FlowFor(x, h, s.cell[q[j]].data).action = a
           On(x, k) == /\ k <= Len(q) => Reached(x, q, k)
                       /\ n # 0 => x.at \in {h} \cup Elems(q)
           P == [k \in 0 .. n |-> {x \in CallState :
                   /\ Core(x, L) /\ Apart(s, L, x, L, h)
                   /\ x.trap = s.trap /\ x.cell = s.cell /\ x.mem = s.mem
                   /\ Exact(x) => (x.ok \/ a = "unsupported")
                   /\ x.ok => On(x, k)
                   /\ (Exact(x) /\ x.ok) => Done(x, k)}]
           Body(x) == [FlowApply(x, h[1], h[2], DataAt(x)) EXCEPT !.at = GetNext(x.mem, x.at)]
           Step(x) == IF x.ok THEN Body(x) ELSE x
<1>1. s \in CallState /\ c \in Int
  <2>1. h[1] \in Trap /\ h[2] \in Intf /\ s.trap \in [Trap -> TrapEntry]
    BY Headers, Fields DEF Core
  <2> QED BY <2>1 DEF Core, CountIn, TrapEntry
<1>2. n \in Nat /\ (c >= 0 => n = c)
  BY <1>1, CountTo
<1>3. q \in Seq(Node) /\ Len(q) \in Nat /\ DOMAIN q = 1 .. Len(q) /\ Elems(q) \subseteq Node
      /\ Distinct(q)
  BY ListShape
<1>4. \A j \in 1 .. Len(q) : q[j] \in Node /\ q[j] \in Elems(q) /\ s.cell[q[j]].data \in PortVlan
  BY <1>1, <1>3, DataType DEF Elems
<1> HIDE DEF n
<1>0. n # 0 => ValidIn(s, h)
  BY <1>1, <1>2 DEF Within
<1>5. s1 \in P[0]
  <2>1. Reached(s1, q, 0) /\ GetFirst(s.mem, h) \in Pointer
    <3>1. s1.at = GetFirst(s.mem, h)
      BY <1>1, Headers DEF CallState
    <3> HIDE DEF s1
    <3> QED BY <3>1, FirstReached
  <2>2. Core(s1, L) /\ Apart(s, L, s1, L, h) /\ s1.trap = s.trap /\ s1.mem = s.mem
        /\ s1.cell = s.cell /\ s1.ok /\ s1 \in CallState
    <3> DEFINE x == GetFirst(s.mem, h)
    <3>1. x \in Pointer /\ s1 = [s EXCEPT !.at = x]
      BY <2>1, Headers
    <3> HIDE DEF x, s1
    <3> QED BY <3>1, MovedKeeps DEF Core
  <2>3. \A x : Done(x, 0)
    OBVIOUS
  <2>4. 0 \in 0 .. n
    BY <1>2
  <2>5. n # 0 => s1.at \in {h} \cup Elems(q)
    <3>1. s1.at = GetNext(s.mem, h)
      BY <1>1, Headers DEF CallState, GetFirst
    <3> HIDE DEF s1
    <3> QED BY <1>0, <3>1, NextOn
  <2>6. On(s1, 0)
    BY <2>1, <2>5
  <2> HIDE DEF s1, Done, On
  <2> QED BY <2>2, <2>3, <2>4, <2>6
<1>6. ASSUME NEW k \in 1 .. n, NEW x \in P[k - 1] PROVE Step(x) \in P[k]
  <2>1. k \in 0 .. n /\ k - 1 \in 0 .. n /\ k - 1 \in Nat /\ (k - 1) + 1 = k
    BY <1>2
  <2>2. /\ x \in CallState /\ Core(x, L) /\ Apart(s, L, x, L, h)
        /\ x.trap = s.trap /\ x.cell = s.cell /\ x.mem = s.mem
        /\ Exact(x) => (x.ok \/ a = "unsupported")
        /\ x.ok => On(x, k - 1)
        /\ (Exact(x) /\ x.ok) => Done(x, k - 1)
    <3> HIDE DEF Done, Step, On
    <3> QED BY <2>1
  <2> SUFFICES
        /\ Core(Step(x), L) /\ Apart(s, L, Step(x), L, h)
        /\ Step(x).trap = s.trap /\ Step(x).cell = s.cell /\ Step(x).mem = s.mem
        /\ Exact(Step(x)) => (Step(x).ok \/ a = "unsupported")
        /\ Step(x).ok => On(Step(x), k)
        /\ (Exact(Step(x)) /\ Step(x).ok) => Done(Step(x), k)
    <3> HIDE DEF Done, Step, On
    <3> QED BY <2>1 DEF Core
  <2>3. CASE ~x.ok
    <3>1. Step(x) = x
      BY <2>3
    <3> HIDE DEF Step, Done, On
    <3> QED BY <2>2, <2>3, <3>1
  <2>4. CASE x.ok
    <3> DEFINE d == DataAt(x)
               u == FlowApply(x, h[1], h[2], d)
               y == GetNext(x.mem, x.at)
    <3>1. ValidIn(x, h) /\ x.at \in {h} \cup Elems(q)
      <4>1. n # 0
        BY <1>2
      <4> QED BY <1>0, <2>2, <2>4, <4>1 DEF ValidIn
    <3>2. y \in {h} \cup Elems(q) /\ y \in Pointer
      BY <2>2, <3>1, NextOn
    <3>3. d \in PortVlan
      BY <2>2, DataType, Fields DEF DataAt
    <3>4. Step(x) = [u EXCEPT !.at = y]
      BY <2>4
    <3>5. a = FlowAction(x.trap[h[1]].action)
      BY <2>2
    <3>7. k <= Len(q) => k \in 1 .. Len(q) /\ x.at = q[k] /\ d = s.cell[q[k]].data
      <4> SUFFICES ASSUME k <= Len(q) PROVE x.at = q[k] /\ d = s.cell[q[k]].data
        BY <1>2, <1>3
      <4>1. k - 1 < Len(q) /\ k \in 1 .. Len(q)
        BY <1>2, <1>3
      <4>2. x.at = q[k]
        BY <1>3, <2>1, <2>2, <2>4, <4>1 DEF Reached
      <4> QED BY <1>4, <2>2, <4>1, <4>2 DEF DataAt
    <3>8. Exact(x) => k <= Len(q)
      <4>1. Exact(x) => c = Len(q)
        BY <2>2 DEF Exact, Apart, Counted
      <4> QED BY <1>2, <1>3, <4>1
    <3> HIDE DEF d, u, Step, y
    <3>6. /\ Core(u, L) /\ Apart(x, L, u, L, h)
          /\ u.trap = x.trap /\ u.mem = x.mem /\ u.cell = x.cell
          /\ (Exact(u) /\ d \in DataIn(x, L[h])) => (u.ok \/ a = "unsupported")
          /\ u.ok => /\ a # "unsupported" /\ FlowFor(u, h, d).action = a
                     /\ OwnCookies => \A pv \in PortVlan \ {d} : FlowFor(u, h, pv) = FlowFor(x, h, pv)
      <4>1. u = FlowApply(x, h[1], h[2], d) /\ Core(x, L) /\ x.ok /\ h \in Header
        BY <2>2, <2>4 DEF u
      <4> QED BY ONLY <3>3, <3>5, <4>1, AppliedKeeps
    <3>9. Exact(x) => d \in DataIn(x, L[h])
      BY <1>4, <2>2, <3>7, <3>8 DEF DataIn
    <3>10. /\ Core(Step(x), L) /\ Apart(u, L, Step(x), L, h)
           /\ Step(x).trap = u.trap /\ Step(x).mem = u.mem /\ Step(x).cell = u.cell
           /\ Step(x).flow = u.flow /\ Step(x).ok = u.ok /\ Step(x).failed = u.failed
           /\ Step(x).at = y
      <4> DEFINE z == Step(x)
      <4>1. z = [u EXCEPT !.at = y] /\ h \in Header
        BY <3>4
      <4> HIDE DEF z
      <4>2. /\ Core(z, L) /\ Apart(u, L, z, L, h)
            /\ z.trap = u.trap /\ z.mem = u.mem /\ z.cell = u.cell
            /\ z.flow = u.flow /\ z.ok = u.ok /\ z.failed = u.failed /\ z.at = y
        BY ONLY <3>2, <3>6, <4>1, MovedKeeps
      <4> QED BY <4>2 DEF z
    <3>11. Apart(s, L, Step(x), L, h)
      <4>1. Apart(s, L, u, L, h)
        BY <2>2, <3>6, ApartTwice
      <4> QED BY <3>10, <4>1, ApartTwice
    <3>12. Exact(Step(x)) => (Step(x).ok \/ a = "unsupported")
      <4>1. Exact(Step(x)) => Exact(u) /\ Exact(x)
        BY <3>6, <3>10 DEF Exact, Apart
      <4> QED BY <3>6, <3>9, <3>10, <4>1
    <3>13. ASSUME Exact(Step(x)), Step(x).ok, NEW j \in 1 .. k
           PROVE  FlowFor(Step(x), h, s.cell[q[j]].data).action = a
      <4>1. Exact(u) /\ u.ok /\ OwnCookies
        BY <3>10, <3>13 DEF Exact
      <4>2. Exact(x)
        BY <4>1, <3>6 DEF Exact, Apart
      <4>3. FlowFor(Step(x), h, s.cell[q[j]].data) = FlowFor(u, h, s.cell[q[j]].data)
        BY <3>10 DEF FlowFor
      <4>4. CASE s.cell[q[j]].data = d
        BY <3>6, <4>1, <4>3, <4>4
      <4>5. CASE s.cell[q[j]].data # d
        <5>1. k \in 1 .. Len(q) /\ j # k
          BY <3>7, <3>8, <4>2, <4>5
        <5>2. j \in 1 .. (k - 1) /\ j \in 1 .. Len(q)
          BY <5>1
        <5>3. FlowFor(x, h, s.cell[q[j]].data).action = a
          BY <2>2, <2>4, <4>2, <5>2
        <5>4. s.cell[q[j]].data \in PortVlan \ {d}
          BY <1>4, <4>5, <5>2
        <5> QED BY <3>6, <4>1, <4>3, <5>3, <5>4
      <4> QED BY <4>4, <4>5
    <3>14. On(Step(x), k)
      <4>1. k <= Len(q) => Reached(Step(x), q, k)
        <5> SUFFICES ASSUME k <= Len(q) PROVE Reached(Step(x), L[h], (k - 1) + 1)
          BY <2>1
        <5>1. Step(x).at = GetNext(x.mem, L[h][(k - 1) + 1]) /\ k - 1 < Len(L[h])
          BY <1>3, <2>1, <3>7, <3>10 DEF y
        <5> QED BY <2>1, <2>2, <3>1, <5>1, NextReached
      <4> QED BY <3>2, <3>10, <4>1
    <3> HIDE DEF Done, On
    <3>15. (Exact(Step(x)) /\ Step(x).ok) => Done(Step(x), k)
      BY <3>13 DEF Done
    <3> QED BY <2>2, <3>6, <3>10, <3>11, <3>12, <3>14, <3>15
  <2> QED BY <2>3, <2>4
<1> DEFINE F == [y \in (1 .. n) \X CallState |-> Step(y[2])]
<1>7. ASSUME NEW k \in 1 .. n, NEW x \in P[k - 1] PROVE x \in CallState /\ F[<<k, x>>] = Step(x)
  <2>1. k - 1 \in 0 .. n
    BY <1>2
  <2>2. x \in CallState
    <3> HIDE DEF Step
    <3> QED BY <2>1
  <2> HIDE DEF Step, P
  <2> QED BY <2>2
<1> HIDE DEF P, Step, F, s1
<1>8. PICK f : LoopOf(f, n, s1, F) /\ Passes(f, n, P)
  <2>1. Leads(n, P, F)
    BY <1>6, <1>7 DEF Leads
  <2>2. n \in Nat /\ s1 \in P[0]
    BY <1>2, <1>5
  <2> QED BY ONLY <2>1, <2>2, LoopExists
<1>9. f = [k \in 0 .. n |-> IF k = 0 THEN s1 ELSE Step(f[k - 1])]
  <2>1. \A k \in 0 .. n : k # 0 => F[<<k, f[k - 1]>>] = Step(f[k - 1])
    <3> TAKE k \in 0 .. n
    <3>1. k # 0 => k \in 1 .. n /\ k - 1 \in 0 .. n
      BY <1>2
    <3> QED BY <1>7, <1>8, <3>1 DEF Passes
  <2> QED BY <1>8, <2>1 DEF LoopOf
<1> DEFINE g == CHOOSE g : g = [k \in 0 .. n |-> IF k = 0 THEN s1 ELSE Step(g[k - 1])]
<1>10. g = [k \in 0 .. n |-> IF k = 0 THEN s1 ELSE Step(g[k - 1])]
  BY <1>9
<1>11. r = g[n]
  BY Zenon DEF ApplyAll, WalkCounted, Loop, Step, s1, n, CountIn, DataAt
<1> HIDE DEF g
<1>12. g[n] \in P[n]
  <2>1. g[0] \in P[0]
    BY <1>2, <1>5, <1>10
  <2>2. ASSUME NEW k \in 1 .. n, g[k - 1] \in P[k - 1] PROVE g[k] \in P[k]
    <3>1. k \in 0 .. n /\ k # 0
      BY <1>2
    <3>2. g[k] = Step(g[k - 1])
      BY <1>10, <3>1
    <3> QED BY <1>6, <2>2, <3>2
  <2> QED BY <1>2, <2>1, <2>2, LoopKeeps
<1>13. /\ Core(r, L) /\ Apart(s, L, r, L, h) /\ r.trap = s.trap /\ r.cell = s.cell
       /\ Exact(r) => (r.ok \/ a = "unsupported")
       /\ (Exact(r) /\ r.ok) => Done(r, n)
  <2>1. n \in 0 .. n
    BY <1>2
  <2> HIDE DEF Done
  <2> QED BY <1>11, <1>12, <2>1 DEF P
<1>14. ASSUME Exact(r), r.ok, NEW e \in Elems(L[h])
       PROVE  FlowFor(r, h, s.cell[e].data).action = a
  <2>1. n = Len(q)
    <3>1. Exact(s)
      BY <1>13, <1>14 DEF Exact, Apart
    <3> QED BY <1>2, <1>3, <3>1 DEF Counted
  <2>2. PICK j \in 1 .. Len(q) : e = q[j]
    BY <1>3 DEF Elems
  <2> QED BY <1>13, <1>14, <2>1, <2>2
<1> QED BY <1>13, <1>14 DEF AppliedTo

-----------------------------------------------------------------------------
(* The first list.                                                         *)

\* A datum that has its place on a sorted list is not on it.
LEMMA PlaceFresh ==
  ASSUME NEW s, NEW L, Core(s, L), NEW h \in Header, NEW d \in PortVlan, NEW p,
         Place(s, L[h], p, d)
  PROVE  d \notin DataIn(s, L[h])
<1> DEFINE q == L[h]
           data(i) == s.cell[q[i]].data
<1>1. /\ q \in Seq(Node) /\ Len(q) \in Nat /\ DOMAIN q = 1 .. Len(q)
      /\ \A i \in 1 .. Len(q) : q[i] \in Node
  BY ListShape
<1>2. \A i \in 1 .. Len(q) : Data(s)[q[i]] = data(i) /\ data(i) \in Nat
  BY <1>1, DataType, PortVlanNat DEF Core
<1>3. \A i, j \in 1 .. Len(q) : i < j => data(i) < data(j)
  <2>1. \A i, j \in 1 .. Len(q) : i < j => Data(s)[q[i]] < Data(s)[q[j]]
    BY <1>1, ListShape DEF Sorted
  <2> QED BY <1>2, <2>1
<1>4. d \in Nat
  BY PortVlanNat
<1>5. /\ p \in 0 .. Len(q)
      /\ \A i \in 1 .. p : data(i) < d
      /\ p < Len(q) => d < data(p + 1)
  BY DEF Place
<1> SUFFICES ASSUME NEW i \in 1 .. Len(q), data(i) = d PROVE FALSE
  BY <1>1 DEF DataIn, Elems
<1> HIDE DEF data
<1>6. ~(i <= p)
  BY <1>4, <1>5
<1>7. p < Len(q) /\ p + 1 \in 1 .. Len(q) /\ (i = p + 1 \/ p + 1 < i)
  BY <1>1, <1>5, <1>6
<1>8. data(p + 1) \in Nat /\ d < data(p + 1)
  BY <1>2, <1>5, <1>7 DEF data
<1>9. data(p + 1) <= data(i)
  BY <1>2, <1>3, <1>7, <1>8 DEF data
<1> QED BY <1>4, <1>8, <1>9

\* A new datum inserted where the list stays sorted.
LEMMA SortedAdded ==
  ASSUME NEW s, NEW L, Core(s, L), s.ok, NEW h \in Header, ValidIn(s, h),
         NEW d \in PortVlan, NEW v \in BOOLEAN, NEW c \in Int, d \notin DataIn(s, L[h]),
         NEW made, made = Malloc(s, d, v),
         NEW r, r = Added(s, h[1], h[2], d, v, c,
                          InsertSorted(made.mem, Data(made), h, NewCell(s), d))
  PROVE  \E L2 \in [Header -> Seq(Node)] : AddedTo(s, L, h, d, v, c, r, L2)
<1> DEFINE q == L[h]
           x == NewCell(s)
           m == InsertSorted(made.mem, Data(made), h, x, d)
<1>1. s \in CallState
  BY DEF Core
<1>2. /\ q \in Seq(Node) /\ Len(q) \in Nat /\ DOMAIN q = 1 .. Len(q) /\ Distinct(q)
      /\ Ring(s.mem, h, q) /\ \A i \in 1 .. Len(q) : q[i] \in Elems(q) /\ q[i] \in Node
  BY ListShape DEF Elems
<1>3. d \in Nat
  BY PortVlanNat
<1>4. ASSUME made.ok
      PROVE  \E p : Place(s, q, p, d) /\ m = LinkedAt(s, h, q, p, x)
  <2>1. /\ made \in CallState /\ x \in Node /\ ~s.cell[x].used
        /\ \A n \in Node \ {x} : made.cell[n] = s.cell[n]
        /\ made.mem = s.mem
    <3>1. /\ made \in CallState
          /\ \/ made = Fail(s)
             \/ /\ x \in Node /\ ~s.cell[x].used
                /\ \A n \in Node \ {x} : made.cell[n] = s.cell[n]
                /\ made.mem = s.mem
      BY <1>1, MallocIs
    <3> HIDE DEF x
    <3> QED BY <1>1, <1>4, <3>1, FailIs
  <2>2. Data(made) \in [Node -> Nat]
    BY <2>1, DataType
  <2>3. \A i \in 1 .. Len(q) : Data(made)[q[i]] = s.cell[q[i]].data /\ s.cell[q[i]].data \in Nat
    <3> TAKE i \in 1 .. Len(q)
    <3>1. q[i] \in Node /\ q[i] # x
      BY <1>2, <2>1, ListShape
    <3>2. Data(made)[q[i]] = made.cell[q[i]].data
      BY <2>1, <3>1, DataType
    <3>3. made.cell[q[i]] = s.cell[q[i]]
      BY <2>1, <3>1
    <3> QED BY <1>1, <3>1, <3>2, <3>3, DataType, PortVlanNat
  <2> HIDE DEF x
  <2> DEFINE mm == made.mem
             dd == Data(made)
  <2>4. PICK p \in 0 .. Len(q) :
          /\ m = PrvInsert(mm, At(h, q, p), At(h, q, p + 1), x)
          /\ \A i \in 1 .. p : dd[q[i]] <= d
          /\ p < Len(q) => d < dd[q[p + 1]]
    <3>1. mm \in Memory /\ Ring(mm, h, q) /\ m = InsertSorted(mm, dd, h, x, d)
      BY <1>2, <2>1, Fields
    <3>2. dd \in [Node -> Nat] /\ d \in Nat /\ h \in Header
      BY <1>3, <2>2
    <3> HIDE DEF mm, dd, m, q
    <3>3. \E p \in 0 .. Len(q) :
           /\ InsertSorted(mm, dd, h, x, d) =
                PrvInsert(mm, At(h, q, p), At(h, q, p + 1), x)
           /\ \A i \in 1 .. p : dd[q[i]] <= d
           /\ p < Len(q) => d < dd[q[p + 1]]
      BY ONLY <3>1, <3>2, InsertSortedIs
    <3> QED BY ONLY <3>1, <3>3
  <2>5. \A i \in 1 .. p : s.cell[q[i]].data < d
    <3> TAKE i \in 1 .. p
    <3>1. i \in 1 .. Len(q)
      BY <1>2, <2>4
    <3>2. s.cell[q[i]].data # d
      BY <1>2, <3>1 DEF DataIn
    <3>3. s.cell[q[i]].data <= d /\ s.cell[q[i]].data \in Nat
      BY <2>3, <2>4, <3>1
    <3> QED BY <1>3, <3>2, <3>3
  <2>6. p < Len(q) => d < s.cell[q[p + 1]].data
    <3>1. p < Len(q) => p + 1 \in 1 .. Len(q)
      BY <1>2, <2>4
    <3> QED BY <2>3, <2>4, <3>1
  <2>7. Place(s, q, p, d)
    BY <2>4, <2>5, <2>6 DEF Place
  <2>8. m = LinkedAt(s, h, q, p, x)
    BY <2>1, <2>4 DEF LinkedAt
  <2> QED BY <2>7, <2>8
<1> HIDE DEF m, x
<1>5. PICK p : made.ok => Place(s, q, p, d) /\ m = LinkedAt(s, h, q, p, x)
  BY <1>4
<1>6. Fits(s, L, h, d, v, p, m)
  BY <1>5 DEF x, Fits
<1>7. r = Added(s, h[1], h[2], d, v, c, m)
  BY DEF m, x
<1>8. Core(s, L) /\ s.ok /\ h \in Header /\ ValidIn(s, h) /\ d \in PortVlan /\ v \in BOOLEAN
      /\ c \in Int /\ d \notin DataIn(s, L[h])
  OBVIOUS
<1> QED BY ONLY <1>6, <1>7, <1>8, AddedKeeps

-----------------------------------------------------------------------------
(* A search.                                                               *)

\* A search finds the element with a datum, or the place the datum goes to.
LEMMA Searched ==
  ASSUME NEW s, NEW L, Core(s, L), NEW h \in Header, ValidIn(s, h), NEW d \in PortVlan,
         NEW e, e = FindSorted(s.mem, Data(s), h, d)
  PROVE  IF Found(s.mem, Data(s), h, d)
         THEN e \in Elems(L[h]) /\ s.cell[e].data = d
         ELSE \E p : Place(s, L[h], p, d) /\ e = At(h, L[h], p + 1)
                                           /\ s.mem[e].prev = At(h, L[h], p)
<1> DEFINE q == L[h]
           mm == s.mem
           dd == Data(s)
<1>1. s \in CallState /\ mm \in Memory /\ dd \in [Node -> Nat] /\ d \in Nat
      /\ \A n \in Node : dd[n] = s.cell[n].data
  BY Fields, DataType, PortVlanNat DEF Core
<1>2. /\ q \in Seq(Node) /\ Len(q) \in Nat /\ DOMAIN q = 1 .. Len(q) /\ Distinct(q)
      /\ Ring(mm, h, q) /\ \A i \in 1 .. Len(q) : q[i] \in Elems(q) /\ q[i] \in Node
  BY ListShape DEF Elems
<1>3. Found(mm, dd, h, d) <=> (e \in Node /\ dd[e] = d)
  BY DEF Found
<1>4. e = FindSorted(mm, dd, h, d)
  OBVIOUS
<1>5. PICK p \in 0 .. Len(q) :
        /\ e = At(h, q, p + 1)
        /\ \A i \in 1 .. p : dd[q[i]] < d
        /\ p < Len(q) => dd[q[p + 1]] >= d
  <2> HIDE DEF mm, dd, q
  <2>1. \E p \in 0 .. Len(q) :
           /\ FindSorted(mm, dd, h, d) = At(h, q, p + 1)
           /\ \A i \in 1 .. p : dd[q[i]] < d
           /\ p < Len(q) => dd[q[p + 1]] >= d
    <3>1. mm \in Memory /\ dd \in [Node -> Nat] /\ d \in Nat /\ Ring(mm, h, q) /\ h \in Header
      BY <1>1, <1>2
    <3> QED BY ONLY <3>1, FindIs
  <2> QED BY <1>4, <2>1
<1>6. p \in Nat /\ p <= Len(q)
  BY <1>2, <1>5
<1>7. \A i \in 1 .. p : s.cell[q[i]].data < d
  <2> TAKE i \in 1 .. p
  <2>1. i \in 1 .. Len(q)
    BY <1>2, <1>6
  <2> QED BY <1>1, <1>2, <1>5, <2>1
<1>8. CASE p < Len(q)
  <2>1. p + 1 \in 1 .. Len(q) /\ e = q[p + 1] /\ dd[e] \in Nat
    BY <1>1, <1>2, <1>5, <1>6, <1>8 DEF At
  <2>2. e \in Elems(q) /\ e \in Node /\ dd[e] = s.cell[e].data /\ dd[e] >= d
    BY <1>1, <1>2, <1>5, <1>8, <2>1
  <2>3. CASE dd[e] = d
    BY <1>3, <2>2, <2>3
  <2>4. CASE dd[e] # d
    <3>1. Place(s, q, p, d)
      BY <1>1, <1>5, <1>7, <2>1, <2>2, <2>4 DEF Place
    <3>2. s.mem[e].prev = At(h, q, p)
      BY <1>2, <1>5 DEF Ring
    <3> QED BY <1>3, <1>5, <2>4, <3>1, <3>2
  <2> QED BY <2>3, <2>4
<1>9. CASE ~(p < Len(q))
  <2>1. p = Len(q)
    BY <1>2, <1>6, <1>9
  <2>2. e = h /\ h \notin Node
    BY <1>2, <1>5, <2>1, Places
  <2>3. Place(s, q, p, d)
    BY <1>5, <1>7, <1>9 DEF Place
  <2>4. s.mem[e].prev = At(h, q, p)
    BY <1>2, <1>5 DEF Ring
  <2> QED BY <1>3, <1>5, <2>2, <2>3, <2>4
<1> QED BY <1>8, <1>9

\* What looking for a datum d, marking its element or adding one that is
\* marked, gives.
MarkedTo(s, L, h, d, r, L2) ==
  /\ Core(r, L2) /\ Apart(s, L, r, L2, h) /\ ValidIn(r, h)
  /\ Exact(r) => r.ok
  /\ Within(s, L, h) => Within(r, L2, h)
  /\ r.ok => /\ CountIn(r, h) - Len(L2[h]) = CountIn(s, h) - Len(L[h])
             /\ DataIn(r, L2[h]) = DataIn(s, L[h]) \cup {d}
             /\ \A n \in Elems(L2[h]) :
                  \/ r.cell[n].data = d /\ r.cell[n].valid
                  \/ r.cell[n].data # d /\ n \in Elems(L[h]) /\ r.cell[n] = s.cell[n]

LEMMA MarkedOrAdded ==
  ASSUME NEW s, NEW L, Core(s, L), s.ok, NEW h \in Header, ValidIn(s, h), NEW d \in PortVlan,
         NEW e, e = FindSorted(s.mem, Data(s), h, d),
         NEW r, r = IF Found(s.mem, Data(s), h, d)
                    THEN [s EXCEPT !.cell[e].valid = TRUE]
                    ELSE Added(s, h[1], h[2], d, TRUE, 1,
                               InsertBefore(Malloc(s, d, TRUE).mem, e, NewCell(s)))
  PROVE  \E L2 \in [Header -> Seq(Node)] : MarkedTo(s, L, h, d, r, L2)
<1> DEFINE q == L[h]
           b == TRUE
<1>0. b \in BOOLEAN /\ b
  OBVIOUS
<1>1. s \in CallState /\ L \in [Header -> Seq(Node)] /\ Elems(q) \subseteq Node
      /\ CountIn(s, h) \in Int /\ Len(q) \in Nat
  <2>1. h[1] \in Trap /\ h[2] \in Intf /\ s.trap \in [Trap -> TrapEntry]
    BY Headers, Fields DEF Core
  <2>2. CountIn(s, h) \in Int
    BY <2>1 DEF CountIn, TrapEntry
  <2>3. L \in [Header -> Seq(Node)]
    BY DEF Core, Shape
  <2> QED BY <2>2, <2>3, ListShape DEF Core
<1>a. r = IF Found(s.mem, Data(s), h, d) THEN [s EXCEPT !.cell[e].valid = b]
          ELSE Added(s, h[1], h[2], d, b, 1,
                     InsertBefore(Malloc(s, d, b).mem, e, NewCell(s)))
  OBVIOUS
<1> HIDE DEF b
<1>2. CASE Found(s.mem, Data(s), h, d)
  <2>1. e \in Elems(q) /\ s.cell[e].data = d
    BY <1>2, Searched
  <2>2. r = Marked(s, e, b)
    BY <1>2, <1>a DEF Marked
  <2>3. /\ Core(r, L) /\ Apart(s, L, r, L, h)
        /\ r.trap = s.trap /\ r.mem = s.mem /\ r.ok = s.ok
        /\ \A n \in Node : r.cell[n].data = s.cell[n].data
        /\ (b => r.cell[e].valid) /\ (~b => ~r.cell[e].valid)
        /\ \A n \in Node \ {e} : r.cell[n] = s.cell[n]
    <3>1. Core(s, L) /\ h \in Header /\ e \in Elems(L[h]) /\ b \in BOOLEAN
      BY <1>0, <2>1
    <3>2. Core(r, L)
      BY ONLY <2>2, <3>1, MarkedKeeps
    <3>3. Apart(s, L, r, L, h)
      BY ONLY <2>2, <3>1, MarkedKeeps
    <3>4. r.trap = s.trap /\ r.mem = s.mem
      BY ONLY <2>2, <3>1, MarkedKeeps
    <3>5. r.ok = s.ok
      BY ONLY <2>2, <3>1, MarkedKeeps
    <3>6. \A n \in Node : r.cell[n].data = s.cell[n].data
      BY ONLY <2>2, <3>1, MarkedKeeps
    <3>7. (b => r.cell[e].valid) /\ (~b => ~r.cell[e].valid)
      BY ONLY <2>2, <3>1, MarkedKeeps
    <3>8. \A n \in Node \ {e} : r.cell[n] = s.cell[n]
      BY ONLY <2>2, <3>1, MarkedKeeps
    <3> QED BY ONLY <3>2, <3>3, <3>4, <3>5, <3>6, <3>7, <3>8
  <2>4. DataIn(r, q) = DataIn(s, q) \cup {d}
    <3>0. \A n \in Elems(q) : r.cell[n].data = s.cell[n].data
      BY <1>1, <2>3
    <3>1. DataIn(r, q) = DataIn(s, q)
      BY ONLY <3>0 DEF DataIn
    <3>2. d \in DataIn(s, q)
      BY <2>1 DEF DataIn
    <3> QED BY <3>1, <3>2
  <2>5. ASSUME NEW n \in Elems(q)
        PROVE  \/ r.cell[n].data = d /\ r.cell[n].valid
               \/ r.cell[n].data # d /\ n \in Elems(q) /\ r.cell[n] = s.cell[n]
    <3>1. CASE n = e
      <4>1. r.cell[e].data = d
        BY <1>1, <2>1, <2>3
      <4>2. r.cell[e].valid
        BY <1>0, <2>3
      <4> QED BY <3>1, <4>1, <4>2
    <3>2. CASE n # e
      <4>1. s.cell[n].data # d
        BY <2>1, <3>2, DataOnce
      <4> QED BY <1>1, <2>3, <3>2, <4>1
    <3> QED BY <3>1, <3>2
  <2>6. ValidIn(r, h) /\ CountIn(r, h) = CountIn(s, h)
    BY <2>3 DEF ValidIn, CountIn
  <2>7. Within(s, L, h) => Within(r, L, h)
    BY <2>3, <2>6 DEF Within, Apart
  <2>8. MarkedTo(s, L, h, d, r, L)
    BY <2>3, <2>4, <2>5, <2>6, <2>7 DEF MarkedTo
  <2> QED BY <1>1, <2>8
<1>3. CASE ~Found(s.mem, Data(s), h, d)
  <2>1. PICK p : Place(s, q, p, d) /\ e = At(h, q, p + 1) /\ s.mem[e].prev = At(h, q, p)
    BY <1>3, Searched
  <2>2. d \notin DataIn(s, q)
    BY <2>1, PlaceFresh
  <2> DEFINE made == Malloc(s, d, b)
             x == NewCell(s)
             m == InsertBefore(made.mem, e, x)
  <2>3. made.ok => made.mem = s.mem
    <3>1. made = Fail(s) \/ made.mem = s.mem
      <4>1. s \in CallState /\ s.ok /\ d \in PortVlan /\ b \in BOOLEAN
        BY <1>0, <1>1
      <4> QED BY ONLY <4>1, MallocIs
    <3> QED BY <1>1, <3>1, FailIs
  <2> HIDE DEF made, x
  <2>4. made.ok => m = LinkedAt(s, h, q, p, x)
    BY <2>1, <2>3 DEF InsertBefore, LinkedAt
  <2> HIDE DEF m
  <2>5. Fits(s, L, h, d, b, p, m)
    BY <2>1, <2>4 DEF Fits, made, x
  <2>6. r = Added(s, h[1], h[2], d, b, 1, m)
    BY <1>3, <1>a DEF m, made, x
  <2>7. PICK L2 \in [Header -> Seq(Node)] : AddedTo(s, L, h, d, b, 1, r, L2)
    <3>1. Core(s, L) /\ s.ok /\ h \in Header /\ ValidIn(s, h) /\ d \in PortVlan
          /\ b \in BOOLEAN /\ 1 \in Int /\ d \notin DataIn(s, L[h])
      BY <1>0, <2>2
    <3> QED BY ONLY <2>5, <2>6, <3>1, AddedKeeps
  <2>8. MarkedTo(s, L, h, d, r, L2)
    <3>0. Within(s, L, h) => Within(r, L2, h)
      <4>1. 1 <= 1
        OBVIOUS
      <4> QED BY <2>7, <4>1, Zenon DEF AddedTo
    <3>1. /\ Core(r, L2) /\ Apart(s, L, r, L2, h) /\ ValidIn(r, h)
          /\ Exact(r) => r.ok
          /\ r.ok => /\ Len(L2[h]) = Len(L[h]) + 1
                     /\ CountIn(r, h) = CountIn(s, h) + 1
                     /\ DataIn(r, L2[h]) = DataIn(s, L[h]) \cup {d}
                     /\ \A n \in Elems(L2[h]) :
                          \/ n \in Elems(L[h]) /\ r.cell[n] = s.cell[n]
                          \/ r.cell[n].data = d /\ r.cell[n].valid = b
      BY <2>7 DEF AddedTo
    <3>2. r.ok => CountIn(r, h) - Len(L2[h]) = CountIn(s, h) - Len(L[h])
      <4>1. CountIn(s, h) \in Int /\ Len(L[h]) \in Nat
        BY <1>1
      <4> QED BY ONLY <3>1, <4>1
    <3>3. ASSUME r.ok, NEW n \in Elems(L2[h])
          PROVE  \/ r.cell[n].data = d /\ r.cell[n].valid
                 \/ r.cell[n].data # d /\ n \in Elems(L[h]) /\ r.cell[n] = s.cell[n]
      <4>1. \A k \in Elems(L[h]) : s.cell[k].data # d
        BY <2>2 DEF DataIn
      <4> QED BY <1>0, <3>1, <3>3, <4>1
    <3> QED BY <3>0, <3>1, <3>2, <3>3 DEF MarkedTo
  <2> QED BY <2>8
<1> QED BY <1>2, <1>3

\* A list of a trap started.
LEMMA RingStarted ==
  ASSUME NEW s, NEW L, Core(s, L), NEW h \in Header, ~ValidIn(s, h),
         NEW z \in CallState, z.mem = ListInit(s.mem, h),
         z.cell = s.cell, z.flow = s.flow, z.ends = s.ends, z.failed = s.failed,
         \A g \in Header : ValidIn(z, g) <=> (ValidIn(s, g) \/ g = h)
  PROVE  Core(z, L) /\ L[h] = <<>>
<1>1. s \in CallState /\ s.mem \in Memory /\ L \in [Header -> Seq(Node)]
  BY Fields DEF Core, Shape
<1>2. L[h] = <<>> /\ Elems(L[h]) = {}
  <2>1. L[h] = <<>>
    BY DEF Core, Shape
  <2> QED BY <2>1 DEF Elems
<1>3. Ring(z.mem, h, L[h])
  BY <1>1, <1>2, RingInit
<1>4. ASSUME NEW g \in Header, g # h, NEW e \in {g} \cup Elems(L[g])
      PROVE  z.mem[e] = s.mem[e]
  <2>1. Elems(L[g]) \subseteq Node /\ h \notin Node
    BY ListShape, DListConstants
  <2>2. e # h /\ e \in Elem
    BY <1>4, <2>1 DEF Elem
  <2> QED BY <1>1, <2>2 DEF ListInit, Memory
<1>5. ASSUME NEW g \in Header
      PROVE  IF ValidIn(z, g) THEN Ring(z.mem, g, L[g])
             ELSE L[g] = <<>> /\ z.mem[g].next = Null
  <2>1. CASE g = h
    BY <1>3, <2>1
  <2>2. CASE g # h
    <3>1. ValidIn(z, g) <=> ValidIn(s, g)
      BY <2>2
    <3>2. \A e \in {g} \cup Elems(L[g]) : z.mem[e] = s.mem[e]
      BY <1>4, <2>2
    <3>3. ValidIn(s, g) => Ring(z.mem, g, L[g])
      BY <3>2, ListShape, RingFrame
    <3>4. ~ValidIn(s, g) => L[g] = <<>> /\ z.mem[g].next = Null
      BY <3>2 DEF Core, Shape
    <3> QED BY <3>1, <3>3, <3>4
  <2> QED BY <2>1, <2>2
<1>6. Data(z) = Data(s)
  BY DEF Data
<1>7. Shape(z, L)
  <2>1. /\ \A g \in Header : \A n \in Elems(L[g]) : s.cell[n].used
        /\ \A g, k \in Header : g # k => Elems(L[g]) \cap Elems(L[k]) = {}
        /\ \A g \in Header : Sorted(L[g], Data(s))
    BY DEF Core, Shape
  <2>2. \A g \in Header : IF ValidIn(z, g) THEN Ring(z.mem, g, L[g])
                          ELSE L[g] = <<>> /\ z.mem[g].next = Null
    BY <1>5
  <2> QED BY <1>1, <1>6, <2>1, <2>2 DEF Shape
<1>8. Exact(z) => Accounted(z, L)
  BY DEF Core, Exact, Accounted, FlowFor, DataIn
<1> QED BY <1>2, <1>7, <1>8 DEF Core

-----------------------------------------------------------------------------
(* What a client lists, and the first list set.                            *)

\* What a client lists: numbers of its objects, each once.
LEMMA ListsAre ==
  ASSUME NEW i \in Intf, NEW list \in Lists(i)
  PROVE  /\ Len(list) \in Nat /\ DOMAIN list = 1 .. Len(list)
         /\ \A j \in 1 .. Len(list) : list[j] \in PortVlan
         /\ \A j, k \in 1 .. Len(list) : list[j] = list[k] => j = k
<1>1. IsFiniteSet(Objects[i]) /\ Objects[i] \subseteq PortVlan
  BY TrapConstants, PortVlanNat
<1>2. Cardinality(Objects[i]) \in Nat
  BY <1>1, FS_CardinalityType
<1>3. PICK n \in 0 .. Cardinality(Objects[i]) : list \in [1 .. n -> Objects[i]]
  BY DEF Lists
<1>4. n \in Nat
  BY <1>2
<1>5. list \in Seq(Objects[i]) /\ Len(list) = n /\ DOMAIN list = 1 .. n
  BY <1>3, <1>4
<1>6. \A j, k \in DOMAIN list : list[j] = list[k] => j = k
  BY DEF Lists
<1> QED BY <1>1, <1>3, <1>4, <1>5, <1>6

\* A list started, its members yet to come.
Started(s, h, c) ==
  [s EXCEPT !.trap[h[1]] = [@ EXCEPT !.valid[h[2]] = TRUE, !.count[h[2]] = c],
            !.mem = ListInit(@, h)]

LEMMA StartedKeeps ==
  ASSUME NEW s, NEW L, Core(s, L), NEW h \in Header, ~ValidIn(s, h), NEW c \in Int,
         NEW r, r = Started(s, h, c)
  PROVE  /\ Core(r, L) /\ Apart(s, L, r, L, h) /\ L[h] = <<>> /\ ValidIn(r, h)
         /\ CountIn(r, h) = c /\ r.ok = s.ok /\ r.junk = s.junk /\ r.failed = s.failed
         /\ r.ends = s.ends
<1> DEFINE w == [t \in Trap |->
                   IF t = h[1] THEN [s.trap[t] EXCEPT !.valid = [@ EXCEPT ![h[2]] = TRUE],
                                                      !.count = [@ EXCEPT ![h[2]] = c]]
                   ELSE s.trap[t]]
           m == ListInit(s.mem, h)
<1>1. s \in CallState /\ s.trap \in [Trap -> TrapEntry] /\ s.mem \in Memory
  BY Fields DEF Core
<1>2. h[1] \in Trap /\ h[2] \in Intf /\ \A g \in Header : g[1] \in Trap /\ g[2] \in Intf
  BY Headers
<1>3. \A t \in Trap : s.trap[t] \in TrapEntry
  BY <1>1
<1>4. r = [s EXCEPT !.trap = w, !.mem = m]
  <2> DEFINE v == [s.trap EXCEPT ![h[1]] = [@ EXCEPT !.valid[h[2]] = TRUE, !.count[h[2]] = c]]
  <2>1. r = [s EXCEPT !.trap = v, !.mem = m]
    BY <1>1 DEF Started, CallState
  <2>2. v = w
    BY <1>1, <1>2, <1>3 DEF TrapEntry
  <2> QED BY <2>1, <2>2
<1>5. \A t \in Trap : w[t] \in TrapEntry
  BY <1>2, <1>3 DEF TrapEntry
<1>6. \A t \in Trap : w[t].action = s.trap[t].action /\ w[t].notSet = s.trap[t].notSet
  BY <1>3 DEF TrapEntry
<1>7. w[h[1]].valid[h[2]] /\ w[h[1]].count[h[2]] = c
  BY <1>2, <1>3 DEF TrapEntry
<1>8. ASSUME NEW g \in Header, g # h
      PROVE  /\ w[g[1]].valid[g[2]] = s.trap[g[1]].valid[g[2]]
             /\ w[g[1]].count[g[2]] = s.trap[g[1]].count[g[2]]
  <2>1. g[1] # h[1] \/ g[2] # h[2]
    BY <1>8, Headers
  <2> QED BY <1>2, <1>3, <2>1 DEF TrapEntry
<1>9. w \in [Trap -> TrapEntry] /\ m \in Memory
  <2>1. m \in Memory
    BY <1>1, RingInit
  <2>2. w = [t \in Trap |-> w[t]]
    OBVIOUS
  <2> HIDE DEF w
  <2> QED BY <1>5, <2>1, <2>2
<1> HIDE DEF w, m
<1>10. /\ r \in CallState /\ r.trap = w /\ r.mem = m /\ r.cell = s.cell /\ r.flow = s.flow
       /\ r.ends = s.ends /\ r.failed = s.failed /\ r.ok = s.ok /\ r.junk = s.junk
  BY <1>1, <1>4, <1>9 DEF CallState
<1>11. \A g \in Header : ValidIn(r, g) <=> (ValidIn(s, g) \/ g = h)
  <2> TAKE g \in Header
  <2>1. CASE g = h
    BY <1>7, <1>10, <2>1 DEF ValidIn
  <2>2. CASE g # h
    BY <1>8, <1>10, <2>2 DEF ValidIn
  <2> QED BY <2>1, <2>2
<1>12. Core(r, L) /\ L[h] = <<>>
  <2>1. /\ Core(s, L) /\ h \in Header /\ ~ValidIn(s, h)
        /\ r \in CallState /\ r.mem = ListInit(s.mem, h)
        /\ r.cell = s.cell /\ r.flow = s.flow /\ r.ends = s.ends /\ r.failed = s.failed
    BY <1>10 DEF m
  <2> QED BY ONLY <1>11, <2>1, RingStarted
<1>13. \A g \in Header \ {h} : CountIn(r, g) = CountIn(s, g)
  BY <1>8, <1>10 DEF CountIn
<1>14. Apart(s, L, r, L, h)
  BY <1>6, <1>10, <1>11, <1>13 DEF Apart, FlowFor
<1>15. ValidIn(r, h) /\ CountIn(r, h) = c
  BY <1>7, <1>10, <1>11 DEF CountIn
<1> QED BY <1>10, <1>12, <1>14, <1>15

\* A list set: in shape whatever happens; without a fault it has the members
\* of the list given.
SetTo(s, L, h, list, r, L2) ==
  /\ Core(r, L2) /\ Apart(s, L, r, L2, h)
  /\ Exact(r) => r.ok
  /\ Within(r, L2, h)
  /\ (Exact(r) /\ r.ok) => Counted(r, L2, h) /\ DataIn(r, L2[h]) = Members(list)

\* A list whose first setting failed.
ShortAt(s, h) == [s EXCEPT !.ends.short = @ \cup {h}]

LEMMA CutShort ==
  ASSUME NEW s, NEW L, Core(s, L), ~Exact(s), NEW h \in Header,
         NEW r, r = ShortAt(s, h)
  PROVE  /\ Core(r, L) /\ Apart(s, L, r, L, h) /\ ~Exact(r) /\ r.ok = s.ok
         /\ h \in r.ends.short /\ (ValidIn(r, h) <=> ValidIn(s, h))
<1> DEFINE e == [s.ends EXCEPT !.short = @ \cup {h}]
<1>1. s \in CallState /\ s.ends \in SoundEnds
  BY Fields DEF Core
<1>2. e \in SoundEnds /\ e.short = s.ends.short \cup {h}
  BY <1>1 DEF SoundEnds, Ends
<1>3. r = [s EXCEPT !.ends = e]
  BY <1>1 DEF CallState, ShortAt
<1> HIDE DEF e
<1>4. /\ r \in CallState /\ r.ok = s.ok /\ r.ends = e
      /\ r.trap = s.trap /\ r.mem = s.mem /\ r.cell = s.cell /\ r.flow = s.flow
      /\ r.failed = s.failed
  BY <1>1, <1>2, <1>3 DEF CallState
<1>5. Shape(r, L)
  BY <1>4, ShapeReads DEF Core
<1>6. ~Exact(r)
  BY <1>4 DEF Exact
<1>7. Apart(s, L, r, L, h)
  BY <1>2, <1>4 DEF Apart, CountIn, FlowFor, ValidIn
<1> QED BY <1>2, <1>4, <1>5, <1>6, <1>7 DEF Core, ValidIn

\* The first list of a trap.
LEMMA FirstListKeeps ==
  ASSUME NEW s, NEW L, Core(s, L), s.ok, NEW h \in Header, ~ValidIn(s, h),
         NEW list \in Lists(h[2]), NEW r, r = FirstList(s, h[1], h[2], list)
  PROVE  \E L2 \in [Header -> Seq(Node)] : SetTo(s, L, h, list, r, L2)
<1> DEFINE n == Len(list)
           s1 == Started(s, h, n)
           Taken1(k) == {list[j] : j \in 1 .. k}
           Good(x, Lx, k) == /\ Core(x, Lx) /\ Apart(s, L, x, Lx, h) /\ ValidIn(x, h)
                             /\ Exact(x) => x.ok
                             /\ x.ok => /\ CountIn(x, h) = n /\ Len(Lx[h]) = k
                                        /\ DataIn(x, Lx[h]) = Taken1(k)
           P == [k \in 0 .. n |-> {x \in CallState :
                   \E Lx \in [Header -> Seq(Node)] : Good(x, Lx, k)}]
           Body(x, d) == AddElement(x, h[1], h[2], d, x.junk, 0, LAMBDA m, e :
                                    InsertSorted(m.mem, Data(m), <<h[1], h[2]>>, e, d))
           Step(x, k) == IF x.ok THEN Body(x, list[k]) ELSE x
<1>1. /\ n \in Nat /\ DOMAIN list = 1 .. n
      /\ \A j \in 1 .. n : list[j] \in PortVlan
      /\ \A j, k \in 1 .. n : list[j] = list[k] => j = k
  BY Headers, ListsAre
<1> HIDE DEF n
<1>2. s1 \in P[0]
  <2>1. /\ Core(s1, L) /\ Apart(s, L, s1, L, h) /\ L[h] = <<>> /\ ValidIn(s1, h)
        /\ CountIn(s1, h) = n /\ s1.ok = s.ok
    <3>1. Core(s, L) /\ h \in Header /\ ~ValidIn(s, h) /\ n \in Int
      BY <1>1
    <3> QED BY ONLY <3>1, StartedKeeps
  <2>2. DataIn(s1, L[h]) = {} /\ Len(L[h]) = 0 /\ Taken1(0) = {}
    BY <2>1 DEF DataIn, Elems
  <2>3. 0 \in 0 .. n /\ L \in [Header -> Seq(Node)]
    BY <1>1 DEF Core, Shape
  <2> HIDE DEF s1, Taken1
  <2>4. Good(s1, L, 0)
    BY <2>1, <2>2
  <2>5. s1 \in CallState
    BY <2>1 DEF Core
  <2> HIDE DEF Good
  <2> QED BY <2>3, <2>4, <2>5
<1>3. ASSUME NEW k \in 1 .. n, NEW x \in P[k - 1] PROVE Step(x, k) \in P[k]
  <2>1. k \in 0 .. n /\ k - 1 \in 0 .. n /\ (k - 1) + 1 = k
    BY <1>1
  <2>2. PICK Lx \in [Header -> Seq(Node)] : x \in CallState /\ Good(x, Lx, k - 1)
    <3> HIDE DEF Good, Step
    <3> QED BY <2>1
  <2> SUFFICES \E L2 \in [Header -> Seq(Node)] : Good(Step(x, k), L2, k)
    <3>1. \A L2 : Good(Step(x, k), L2, k) => Step(x, k) \in CallState
      BY DEF Core
    <3> HIDE DEF Good, Step
    <3> QED BY <2>1, <3>1
  <2>3. CASE ~x.ok
    <3>1. Step(x, k) = x
      BY <2>3
    <3>2. Good(x, Lx, k)
      BY <2>2, <2>3
    <3> HIDE DEF Good, Step
    <3> QED BY <3>1, <3>2
  <2>4. CASE x.ok
    <3> DEFINE d == list[k]
               u == Step(x, k)
               made == Malloc(x, d, x.junk)
               m == InsertSorted(made.mem, Data(made), h, NewCell(x), d)
    <3>1. u = Added(x, h[1], h[2], d, x.junk, 0, m)
      <4> DEFINE hh == <<h[1], h[2]>>
      <4>1. u = AddElement(x, h[1], h[2], d, x.junk, 0, LAMBDA z, e :
                           InsertSorted(z.mem, Data(z), hh, e, d))
        BY <2>4, Zenon
      <4>2. u = Added(x, h[1], h[2], d, x.junk, 0,
                      InsertSorted(made.mem, Data(made), hh, NewCell(x), d))
        <5> HIDE DEF u, hh, d
        <5> QED BY <4>1, Zenon DEF AddElement, Added, Changed
      <4>3. hh = h
        BY Headers
      <4> HIDE DEF hh, u, d
      <4> QED BY <4>2, <4>3
    <3>2. d \in PortVlan /\ d \notin Taken1(k - 1)
      <4>1. \A j \in 1 .. (k - 1) : j \in 1 .. n /\ j # k
        BY <1>1
      <4> QED BY <1>1, <4>1
    <3>3. x.junk \in BOOLEAN /\ 0 \in Int
      BY <2>2, Fields
    <3> HIDE DEF u, d, m, Taken1
    <3>4. PICK L2 \in [Header -> Seq(Node)] : AddedTo(x, Lx, h, d, x.junk, 0, u, L2)
      <4> DEFINE v == x.junk
      <4>1. /\ Core(x, Lx) /\ x.ok /\ h \in Header /\ ValidIn(x, h) /\ d \in PortVlan
            /\ v \in BOOLEAN /\ 0 \in Int /\ d \notin DataIn(x, Lx[h])
            /\ made = Malloc(x, d, v)
        BY <2>2, <2>4, <3>2, <3>3
      <4>2. u = Added(x, h[1], h[2], d, v, 0,
                      InsertSorted(made.mem, Data(made), h, NewCell(x), d))
        BY <3>1 DEF m
      <4> HIDE DEF v, made
      <4>3. \E L2 \in [Header -> Seq(Node)] : AddedTo(x, Lx, h, d, v, 0, u, L2)
        BY ONLY <4>1, <4>2, SortedAdded
      <4> QED BY <4>3 DEF v
    <3>5. /\ Core(u, L2) /\ Apart(x, Lx, u, L2, h) /\ ValidIn(u, h)
          /\ Exact(u) => u.ok
          /\ u.ok => /\ Len(L2[h]) = Len(Lx[h]) + 1
                     /\ CountIn(u, h) = CountIn(x, h) + 0
                     /\ DataIn(u, L2[h]) = DataIn(x, Lx[h]) \cup {d}
      BY <3>4 DEF AddedTo
    <3>6. Apart(s, L, u, L2, h)
      BY <2>2, <3>5, ApartTwice
    <3>7. Taken1(k) = Taken1(k - 1) \cup {d}
      <4>1. 1 .. k = (1 .. (k - 1)) \cup {k}
        BY <2>1
      <4> QED BY <4>1 DEF Taken1, d
    <3>8. u.ok => CountIn(u, h) = n /\ Len(L2[h]) = k /\ DataIn(u, L2[h]) = Taken1(k)
      BY <1>1, <2>1, <2>2, <2>4, <3>5, <3>7
    <3>9. Good(u, L2, k)
      BY <3>5, <3>6, <3>8
    <3> HIDE DEF Good
    <3> QED BY <3>9 DEF u
  <2> QED BY <2>3, <2>4
<1> DEFINE F == [y \in (1 .. n) \X CallState |-> Step(y[2], y[1])]
<1>4. ASSUME NEW k \in 1 .. n, NEW x \in P[k - 1] PROVE F[<<k, x>>] = Step(x, k)
  <2>1. k - 1 \in 0 .. n
    BY <1>1
  <2>2. x \in CallState
    <3> HIDE DEF Step, Good
    <3> QED BY <2>1
  <2> HIDE DEF Step, P
  <2> QED BY <2>2
<1> HIDE DEF P, Step, F, s1
<1>5. PICK f : LoopOf(f, n, s1, F) /\ Passes(f, n, P)
  <2>1. Leads(n, P, F)
    BY <1>3, <1>4 DEF Leads
  <2>2. n \in Nat /\ s1 \in P[0]
    BY <1>1, <1>2
  <2> QED BY ONLY <2>1, <2>2, LoopExists
<1>6. f = [k \in 0 .. n |-> IF k = 0 THEN s1 ELSE Step(f[k - 1], k)]
  <2>1. \A k \in 0 .. n : k # 0 => F[<<k, f[k - 1]>>] = Step(f[k - 1], k)
    <3> TAKE k \in 0 .. n
    <3>1. k # 0 => k \in 1 .. n /\ k - 1 \in 0 .. n
      BY <1>1
    <3> QED BY <1>4, <1>5, <3>1 DEF Passes
  <2> QED BY <1>5, <2>1 DEF LoopOf
<1> DEFINE g == CHOOSE g : g = [k \in 0 .. n |-> IF k = 0 THEN s1 ELSE Step(g[k - 1], k)]
<1>7. g = [k \in 0 .. n |-> IF k = 0 THEN s1 ELSE Step(g[k - 1], k)]
  BY <1>6
<1>8. r = IF g[n].ok THEN g[n] ELSE ShortAt(g[n], h)
  <2>1. h = <<h[1], h[2]>>
    BY Headers
  <2> DEFINE t == h[1]
             i == h[2]
             s2 == [s EXCEPT !.trap[t] = [@ EXCEPT !.valid[i] = TRUE, !.count[i] = Len(list)],
                             !.mem = ListInit(@, <<t, i>>)]
  <2>2. s1 = s2
    BY ONLY <2>1, Zenon DEF s1, Started, n
  <2> DEFINE hh == <<t, i>>
             A(acc, d) == AddElement(acc, t, i, d, acc.junk, 0, LAMBDA m, e :
                                     InsertSorted(m.mem, Data(m), hh, e, d))
  <2>3. r = LET s3 == Loop(s2, list, A)
            IN  IF s3.ok THEN s3 ELSE ShortAt(s3, hh)
    BY Zenon DEF FirstList, ShortAt
  <2>4. Loop(s2, list, A) = g[n]
    <3> HIDE DEF s2
    <3> QED BY <2>2, Zenon DEF Loop, Step, n
  <2>5. hh = h
    BY <2>1
  <2> HIDE DEF A, g, hh
  <2> QED BY <2>3, <2>4, <2>5, Zenon
<1> HIDE DEF g
<1>9. g[n] \in P[n]
  <2>1. g[0] \in P[0]
    BY <1>1, <1>2, <1>7
  <2>2. ASSUME NEW k \in 1 .. n, g[k - 1] \in P[k - 1] PROVE g[k] \in P[k]
    <3>1. k \in 0 .. n /\ k # 0
      BY <1>1
    <3>2. g[k] = Step(g[k - 1], k)
      BY <1>7, <3>1
    <3> QED BY <1>3, <2>2, <3>2
  <2> QED BY <1>1, <2>1, <2>2, LoopKeeps
<1> DEFINE z == g[n]
<1>10. PICK L2 \in [Header -> Seq(Node)] : Good(z, L2, n)
  <2>1. n \in 0 .. n
    BY <1>1
  <2> HIDE DEF Good
  <2> QED BY <1>9, <2>1 DEF P
<1>11. Taken1(n) = Members(list)
  BY <1>1 DEF Members
<1>12. SetTo(s, L, h, list, r, L2)
  <2> HIDE DEF z, Taken1
  <2>1. CASE z.ok
    <3>1. r = z
      BY <1>8, <2>1 DEF z
    <3>2. Within(r, L2, h)
      BY <1>1, <1>10, <2>1, <3>1 DEF Within
    <3> QED BY <1>10, <1>11, <2>1, <3>1, <3>2 DEF SetTo, Counted
  <2>2. CASE ~z.ok
    <3>1. r = ShortAt(z, h)
      BY <1>8, <2>2 DEF z
    <3>2. Core(z, L2) /\ ~Exact(z) /\ h \in Header
      BY <1>10, <2>2
    <3>3. /\ Core(r, L2) /\ Apart(z, L2, r, L2, h) /\ ~Exact(r) /\ r.ok = z.ok
          /\ h \in r.ends.short /\ (ValidIn(r, h) <=> ValidIn(z, h))
      BY ONLY <3>1, <3>2, CutShort
    <3>4. Apart(s, L, r, L2, h)
      BY <1>10, <3>3, ApartTwice
    <3>5. Within(r, L2, h)
      BY <1>10, <3>3 DEF Within
    <3> QED BY <3>3, <3>4, <3>5 DEF SetTo
  <2> QED BY <2>1, <2>2
<1> QED BY <1>12

-----------------------------------------------------------------------------
(* The marks on a list.                                                    *)

\* The marks of a list are those of the data in M.
Marks(s, q, M) == \A n \in Elems(q) : s.cell[n].valid <=> s.cell[n].data \in M
MarkedData(s, q) == {s.cell[n].data : n \in {n \in Elems(q) : s.cell[n].valid}}

LEMMA MarksAre ==
  ASSUME NEW s, NEW L, Core(s, L), NEW h \in Header
  PROVE  Marks(s, L[h], MarkedData(s, L[h])) /\ MarkedData(s, L[h]) \subseteq DataIn(s, L[h])
<1>1. ASSUME NEW n \in Elems(L[h]), s.cell[n].data \in MarkedData(s, L[h])
      PROVE  s.cell[n].valid
  <2>1. PICK k \in Elems(L[h]) : s.cell[k].valid /\ s.cell[n].data = s.cell[k].data
    BY <1>1 DEF MarkedData
  <2>2. n = k
    BY <2>1, DataOnce
  <2> QED BY <2>1, <2>2
<1>2. ASSUME NEW n \in Elems(L[h]), s.cell[n].valid
      PROVE  s.cell[n].data \in MarkedData(s, L[h])
  BY <1>2 DEF MarkedData
<1>3. Marks(s, L[h], MarkedData(s, L[h]))
  BY <1>1, <1>2 DEF Marks
<1>4. MarkedData(s, L[h]) \subseteq DataIn(s, L[h])
  BY DEF MarkedData, DataIn
<1> QED BY <1>3, <1>4

\* The members of the list are on the list, and marked, as are those that were.
AllMarked(s, L, h, list, r, L2) ==
  /\ Core(r, L2) /\ Apart(s, L, r, L2, h) /\ ValidIn(r, h)
  /\ Exact(r) => r.ok
  /\ Within(s, L, h) => Within(r, L2, h)
  /\ r.ok => /\ CountIn(r, h) - Len(L2[h]) = CountIn(s, h) - Len(L[h])
             /\ DataIn(r, L2[h]) = DataIn(s, L[h]) \cup Members(list)
             /\ Marks(r, L2[h], MarkedData(s, L[h]) \cup Members(list))

LEMMA MembersMarked ==
  ASSUME NEW s, NEW L, Core(s, L), s.ok, NEW h \in Header, ValidIn(s, h),
         NEW list \in Lists(h[2]), NEW r, r = MarkMembers(s, h[1], h[2], list)
  PROVE  \E L2 \in [Header -> Seq(Node)] : AllMarked(s, L, h, list, r, L2)
<1> DEFINE n == Len(list)
           D0 == DataIn(s, L[h])
           M0 == MarkedData(s, L[h])
           c0 == CountIn(s, h) - Len(L[h])
           Taken1(k) == {list[j] : j \in 1 .. k}
           Good(x, Lx, k) == /\ Core(x, Lx) /\ Apart(s, L, x, Lx, h) /\ ValidIn(x, h)
                             /\ Exact(x) => x.ok
                             /\ Within(s, L, h) => Within(x, Lx, h)
                             /\ x.ok => /\ CountIn(x, h) - Len(Lx[h]) = c0
                                        /\ DataIn(x, Lx[h]) = D0 \cup Taken1(k)
                                        /\ Marks(x, Lx[h], M0 \cup Taken1(k))
           P == [k \in 0 .. n |-> {x \in CallState :
                   \E Lx \in [Header -> Seq(Node)] : Good(x, Lx, k)}]
           Body(x, d) ==
             LET e == FindSorted(x.mem, Data(x), <<h[1], h[2]>>, d) IN
             IF Found(x.mem, Data(x), <<h[1], h[2]>>, d)
             THEN [x EXCEPT !.cell[e].valid = TRUE]
             ELSE AddElement(x, h[1], h[2], d, TRUE, 1, LAMBDA z, y :
                             InsertBefore(z.mem, e, y))
           Step(x, k) == IF x.ok THEN Body(x, list[k]) ELSE x
<1>1. /\ n \in Nat /\ DOMAIN list = 1 .. n
      /\ \A j \in 1 .. n : list[j] \in PortVlan
  BY Headers, ListsAre
<1> HIDE DEF n, c0, D0, M0
<1>2. s \in P[0]
  <2>1. DataIn(s, L[h]) = D0 \cup Taken1(0) /\ M0 = M0 \cup Taken1(0)
    BY DEF D0
  <2>2. Marks(s, L[h], M0)
    BY MarksAre DEF M0
  <2>3. 0 \in 0 .. n /\ L \in [Header -> Seq(Node)] /\ s \in CallState
    BY <1>1 DEF Core, Shape
  <2>4. Apart(s, L, s, L, h)
    BY DEF Apart
  <2> HIDE DEF Taken1
  <2>5. Good(s, L, 0)
    BY <2>1, <2>2, <2>4 DEF c0
  <2> HIDE DEF Good
  <2> QED BY <2>3, <2>5
<1>3. ASSUME NEW k \in 1 .. n, NEW x \in P[k - 1] PROVE Step(x, k) \in P[k]
  <2>1. k \in 0 .. n /\ k - 1 \in 0 .. n /\ (k - 1) + 1 = k
    BY <1>1
  <2>2. PICK Lx \in [Header -> Seq(Node)] : x \in CallState /\ Good(x, Lx, k - 1)
    <3> HIDE DEF Good, Step
    <3> QED BY <2>1
  <2> SUFFICES \E L2 \in [Header -> Seq(Node)] : Good(Step(x, k), L2, k)
    <3>1. \A L2 : Good(Step(x, k), L2, k) => Step(x, k) \in CallState
      <4> HIDE DEF Step
      <4> QED BY DEF Core
    <3> HIDE DEF Good, Step
    <3> QED BY <2>1, <3>1
  <2>3. CASE ~x.ok
    <3>1. Step(x, k) = x
      BY <2>3
    <3>2. Good(x, Lx, k)
      BY <2>2, <2>3
    <3> HIDE DEF Good, Step
    <3> QED BY <3>1, <3>2
  <2>4. CASE x.ok
    <3> DEFINE d == list[k]
               u == Step(x, k)
               e == FindSorted(x.mem, Data(x), h, d)
    <3>1. u = IF Found(x.mem, Data(x), h, d)
              THEN [x EXCEPT !.cell[e].valid = TRUE]
              ELSE Added(x, h[1], h[2], d, TRUE, 1,
                         InsertBefore(Malloc(x, d, TRUE).mem, e, NewCell(x)))
      <4> DEFINE hh == <<h[1], h[2]>>
                 ee == FindSorted(x.mem, Data(x), hh, d)
      <4>1. u = IF Found(x.mem, Data(x), hh, d)
                THEN [x EXCEPT !.cell[ee].valid = TRUE]
                ELSE AddElement(x, h[1], h[2], d, TRUE, 1, LAMBDA z, y :
                                InsertBefore(z.mem, ee, y))
        BY <2>4, Zenon
      <4>2. AddElement(x, h[1], h[2], d, TRUE, 1, LAMBDA z, y :
                                InsertBefore(z.mem, ee, y))
            = Added(x, h[1], h[2], d, TRUE, 1,
                         InsertBefore(Malloc(x, d, TRUE).mem, ee, NewCell(x)))
        <5> HIDE DEF u, hh, d, ee
        <5> QED BY Zenon DEF AddElement, Added, Changed
      <4>3. hh = h
        BY Headers
      <4> HIDE DEF hh, u, d
      <4>4. ee = e
        BY <4>3
      <4> HIDE DEF ee, e
      <4> QED BY <4>1, <4>2, <4>3, <4>4
    <3>2. d \in PortVlan
      BY <1>1
    <3> HIDE DEF u, d, Taken1
    <3>4. PICK L2 \in [Header -> Seq(Node)] : MarkedTo(x, Lx, h, d, u, L2)
      <4>1. /\ Core(x, Lx) /\ x.ok /\ h \in Header /\ ValidIn(x, h)
            /\ e = FindSorted(x.mem, Data(x), h, d)
        BY <2>2, <2>4
      <4> HIDE DEF e
      <4> QED BY ONLY <3>1, <3>2, <4>1, MarkedOrAdded
    <3>5. /\ Core(u, L2) /\ Apart(x, Lx, u, L2, h) /\ ValidIn(u, h)
          /\ Exact(u) => u.ok
          /\ Within(x, Lx, h) => Within(u, L2, h)
          /\ u.ok => /\ CountIn(u, h) - Len(L2[h]) = CountIn(x, h) - Len(Lx[h])
                     /\ DataIn(u, L2[h]) = DataIn(x, Lx[h]) \cup {d}
                     /\ \A a \in Elems(L2[h]) :
                          \/ u.cell[a].data = d /\ u.cell[a].valid
                          \/ u.cell[a].data # d /\ a \in Elems(Lx[h]) /\ u.cell[a] = x.cell[a]
      BY <3>4 DEF MarkedTo
    <3>6. Apart(s, L, u, L2, h)
      BY <2>2, <3>5, ApartTwice
    <3>7. Taken1(k) = Taken1(k - 1) \cup {d}
      <4>1. 1 .. k = (1 .. (k - 1)) \cup {k}
        BY <2>1
      <4> QED BY <4>1 DEF Taken1, d
    <3>8. u.ok => /\ CountIn(u, h) - Len(L2[h]) = c0
                  /\ DataIn(u, L2[h]) = D0 \cup Taken1(k)
      <4>1. /\ CountIn(x, h) - Len(Lx[h]) = c0
            /\ DataIn(x, Lx[h]) = D0 \cup Taken1(k - 1)
        BY <2>2, <2>4
      <4> QED BY <3>5, <3>7, <4>1
    <3>9. u.ok => Marks(u, L2[h], M0 \cup Taken1(k))
      <4> SUFFICES ASSUME u.ok, NEW a \in Elems(L2[h])
                   PROVE  u.cell[a].valid <=> u.cell[a].data \in M0 \cup Taken1(k)
        BY DEF Marks
      <4>1. Marks(x, Lx[h], M0 \cup Taken1(k - 1))
        BY <2>2, <2>4
      <4>2. CASE u.cell[a].data = d /\ u.cell[a].valid
        BY <3>7, <4>2
      <4>3. CASE u.cell[a].data # d /\ a \in Elems(Lx[h]) /\ u.cell[a] = x.cell[a]
        <5>1. x.cell[a].valid <=> x.cell[a].data \in M0 \cup Taken1(k - 1)
          BY <4>1, <4>3 DEF Marks
        <5> QED BY <3>7, <4>3, <5>1
      <4> QED BY <3>5, <4>2, <4>3
    <3>10. Good(u, L2, k)
      BY <2>2, <3>5, <3>6, <3>8, <3>9
    <3> HIDE DEF Good
    <3> QED BY <3>10 DEF u
  <2> QED BY <2>3, <2>4
<1> DEFINE F == [y \in (1 .. n) \X CallState |-> Step(y[2], y[1])]
<1>4. ASSUME NEW k \in 1 .. n, NEW x \in P[k - 1] PROVE F[<<k, x>>] = Step(x, k)
  <2>1. k - 1 \in 0 .. n
    BY <1>1
  <2>2. x \in CallState
    <3> HIDE DEF Step, Good
    <3> QED BY <2>1
  <2> HIDE DEF Step, P
  <2> QED BY <2>2
<1> HIDE DEF P, Step, F
<1>5. PICK f : LoopOf(f, n, s, F) /\ Passes(f, n, P)
  <2>1. Leads(n, P, F)
    BY <1>3, <1>4 DEF Leads
  <2>2. n \in Nat /\ s \in P[0]
    BY <1>1, <1>2
  <2> QED BY ONLY <2>1, <2>2, LoopExists
<1>6. f = [k \in 0 .. n |-> IF k = 0 THEN s ELSE Step(f[k - 1], k)]
  <2>1. \A k \in 0 .. n : k # 0 => F[<<k, f[k - 1]>>] = Step(f[k - 1], k)
    <3> TAKE k \in 0 .. n
    <3>1. k # 0 => k \in 1 .. n /\ k - 1 \in 0 .. n
      BY <1>1
    <3> QED BY <1>4, <1>5, <3>1 DEF Passes
  <2> QED BY <1>5, <2>1 DEF LoopOf
<1> DEFINE g == CHOOSE g : g = [k \in 0 .. n |-> IF k = 0 THEN s ELSE Step(g[k - 1], k)]
<1>7. g = [k \in 0 .. n |-> IF k = 0 THEN s ELSE Step(g[k - 1], k)]
  BY <1>6
<1>8. r = g[n]
  BY Zenon DEF MarkMembers, Loop, Step, n
<1> HIDE DEF g
<1>9. g[n] \in P[n]
  <2>1. g[0] \in P[0]
    BY <1>1, <1>2, <1>7
  <2>2. ASSUME NEW k \in 1 .. n, g[k - 1] \in P[k - 1] PROVE g[k] \in P[k]
    <3>1. k \in 0 .. n /\ k # 0
      BY <1>1
    <3>2. g[k] = Step(g[k - 1], k)
      BY <1>7, <3>1
    <3> QED BY <1>3, <2>2, <3>2
  <2> QED BY <1>1, <2>1, <2>2, LoopKeeps
<1>10. PICK L2 \in [Header -> Seq(Node)] : Good(r, L2, n)
  <2>1. n \in 0 .. n
    BY <1>1
  <2> HIDE DEF Good
  <2> QED BY <1>8, <1>9, <2>1 DEF P
<1>11. Taken1(n) = Members(list)
  BY <1>1 DEF Members
<1>12. AllMarked(s, L, h, list, r, L2)
  BY <1>10, <1>11 DEF AllMarked, c0, D0, M0
<1> QED BY <1>12

-----------------------------------------------------------------------------
(* The empty list.                                                         *)

\* The count of a list stored.
WithCount(s, h, c) == [s EXCEPT !.trap = CountPut(s, h, c)]

LEMMA CountStored ==
  ASSUME NEW s, NEW L, Core(s, L), NEW h \in Header, NEW c \in Int,
         NEW r, r = WithCount(s, h, c)
  PROVE  /\ Core(r, L) /\ Apart(s, L, r, L, h) /\ CountIn(r, h) = c
         /\ ValidIn(r, h) <=> ValidIn(s, h)
         /\ r.mem = s.mem /\ r.cell = s.cell /\ r.ok = s.ok /\ r.at = s.at
<1> DEFINE w == CountPut(s, h, c)
<1>1. s \in CallState
  BY DEF Core
<1>2. r.trap = w
  BY <1>1 DEF WithCount, CallState
<1>3. /\ r.trap \in [Trap -> TrapEntry]
      /\ CountIn(r, h) = c
      /\ \A g \in Header \ {h} : CountIn(r, g) = CountIn(s, g)
      /\ \A g \in Header : ValidIn(r, g) = ValidIn(s, g)
      /\ \A t \in Trap : r.trap[t].action = s.trap[t].action
                         /\ r.trap[t].notSet = s.trap[t].notSet
  <2>1. s \in CallState /\ h \in Header /\ c \in Int /\ r.trap = CountPut(s, h, c)
    BY <1>1, <1>2
  <2>2. r.trap \in [Trap -> TrapEntry] /\ SameButCount(s, r, h, c)
    BY ONLY <2>1, CountSet
  <2> QED BY <2>2 DEF SameButCount
<1> HIDE DEF w
<1>4. /\ r \in CallState
      /\ r.mem = s.mem /\ r.cell = s.cell /\ r.flow = s.flow /\ r.ends = s.ends
      /\ r.failed = s.failed /\ r.ok = s.ok /\ r.at = s.at
  <2>1. r = [s EXCEPT !.trap = w] /\ w \in [Trap -> TrapEntry]
    BY <1>2, <1>3 DEF w, WithCount
  <2> QED BY <1>1, <2>1 DEF CallState
<1>5. Shape(r, L)
  <2>1. Data(r) = Data(s)
    BY <1>4 DEF Data
  <2>2. /\ L \in [Header -> Seq(Node)]
        /\ \A g \in Header :
             IF ValidIn(s, g) THEN Ring(s.mem, g, L[g])
             ELSE L[g] = <<>> /\ s.mem[g].next = Null
        /\ \A g \in Header : \A n \in Elems(L[g]) : s.cell[n].used
        /\ \A g, k \in Header : g # k => Elems(L[g]) \cap Elems(L[k]) = {}
        /\ \A g \in Header : Sorted(L[g], Data(s))
    BY DEF Core, Shape
  <2>3. \A g \in Header :
          IF ValidIn(r, g) THEN Ring(r.mem, g, L[g])
          ELSE L[g] = <<>> /\ r.mem[g].next = Null
    BY <1>3, <1>4, <2>2
  <2> QED BY <1>4, <2>1, <2>2, <2>3 DEF Shape
<1>6. Exact(r) => Accounted(r, L)
  BY <1>4 DEF Core, Exact, Accounted, FlowFor, DataIn
<1>7. Apart(s, L, r, L, h)
  BY <1>3, <1>4 DEF Apart, FlowFor
<1> QED BY <1>3, <1>4, <1>5, <1>6, <1>7 DEF Core

\* The first element of a list taken off it.
HeadCut(s, h) == [s EXCEPT !.mem = RemoveFromHead(@, h)]

LEMMA HeadRemoved ==
  ASSUME NEW s, NEW L, Core(s, L), s.ok, NEW h \in Header, ValidIn(s, h),
         Len(L[h]) # 0, NEW n, n = L[h][1],
         NEW r, r = Removed(HeadCut(s, h), h, s.cell[n].data, n)
  PROVE  LET L2 == DropList(L, h, 1) IN
         /\ Core(r, L2) /\ Apart(s, L, r, L2, h) /\ ValidIn(r, h)
         /\ L2 \in [Header -> Seq(Node)] /\ L2[h] = Drop(L[h], 1)
         /\ CountIn(r, h) = CountIn(s, h)
         /\ Exact(r) => r.ok
<1> DEFINE q == L[h]
           p == 1
           m == RemoveFromHead(s.mem, h)
           z == [s EXCEPT !.mem = m]
           d == s.cell[n].data
<1>1. s \in CallState /\ s.mem \in Memory /\ h \in Elem
  BY Fields DEF Core, Elem
<1>2. /\ q \in Seq(Node) /\ Distinct(q) /\ Len(q) \in Nat /\ DOMAIN q = 1 .. Len(q)
      /\ Ring(s.mem, h, q) /\ p \in 1 .. Len(q)
  BY ListShape
<1>3. m = PrvRemove(s.mem, At(h, q, p - 1), At(h, q, p + 1))
  <2>1. At(h, q, 0) = h /\ At(h, q, 1) = q[1]
    BY <1>2 DEF At
  <2>2. s.mem[h].next = q[1]
    <3>1. s.mem[At(h, q, 0)].next = At(h, q, 0 + 1)
      BY <1>2 DEF Ring
    <3> QED BY <2>1, <3>1
  <2>3. s.mem[q[1]].next = At(h, q, 2)
    <3>1. s.mem[At(h, q, 1)].next = At(h, q, 1 + 1)
      BY <1>2 DEF Ring
    <3> QED BY <2>1, <3>1
  <2>4. p - 1 = 0 /\ p + 1 = 2
    OBVIOUS
  <2> QED BY <2>1, <2>2, <2>3, <2>4 DEF RemoveFromHead
<1>4. m \in Memory
  <2> DEFINE a == At(h, q, p - 1)
             b == At(h, q, p + 1)
             mm == s.mem
  <2>1. p - 1 \in 0 .. (Len(q) + 1) /\ p + 1 \in 0 .. (Len(q) + 1)
    BY <1>2
  <2>2. a \in {h} \cup Elems(q) /\ b \in {h} \cup Elems(q) /\ Elems(q) \subseteq Node
    BY <1>2, <2>1, Places
  <2>3. a \in Elem /\ b \in Elem
    BY <2>2, <1>1 DEF Elem
  <2>4. mm \in Memory /\ m = PrvRemove(mm, a, b)
    BY <1>1, <1>3
  <2> HIDE DEF a, b, mm, m
  <2> QED BY ONLY <2>3, <2>4, PrvRemoveIs
<1> HIDE DEF m
<1>5. /\ z \in CallState /\ z.mem = m /\ z.trap = s.trap
      /\ z.cell = s.cell /\ z.flow = s.flow /\ z.ends = s.ends /\ z.failed = s.failed
      /\ z.ok = s.ok /\ z.junk = s.junk
  BY <1>1, <1>4 DEF CallState
<1>6. r = Removed(z, h, d, n)
  BY <1>1 DEF m, HeadCut
<1> HIDE DEF z, d
<1>7. AlikeBut(s, z, h)
  BY <1>5 DEF AlikeBut, SameValid, ValidIn, CountIn
<1> DEFINE zm == z.mem
<1>8. CutAt(s, zm, h, L[h], p)
  BY <1>3, <1>5 DEF CutAt
<1>9. CountIn(z, h) = CountIn(s, h)
  BY <1>5 DEF CountIn
<1> HIDE DEF p
<1>10. LET L2 == DropList(L, h, p) IN
       /\ Core(r, L2) /\ Apart(s, L, r, L2, h) /\ ValidIn(r, h)
       /\ L2 \in [Header -> Seq(Node)] /\ L2[h] = Drop(L[h], p)
       /\ CountIn(r, h) = CountIn(z, h)
       /\ Exact(r) => r.ok
  <2>1. /\ Core(s, L) /\ s.ok /\ h \in Header /\ ValidIn(s, h) /\ p \in 1 .. Len(L[h])
        /\ z \in CallState /\ AlikeBut(s, z, h) /\ CutAt(s, z.mem, h, L[h], p)
        /\ d = s.cell[L[h][p]].data /\ r = Removed(z, h, d, L[h][p])
    BY <1>2, <1>5, <1>6, <1>7, <1>8 DEF d, p
  <2> HIDE DEF q
  <2> QED BY ONLY <2>1, RemovedKeeps
<1> QED BY <1>9, <1>10 DEF p

\* The elements of a list taken off it.
LEMMA EmptyListKeeps ==
  ASSUME NEW s, NEW L, Core(s, L), s.ok, NEW h \in Header, ValidIn(s, h),
         NEW r, r = EmptyList(s, h[1], h[2])
  PROVE  \E L2 \in [Header -> Seq(Node)] : SetTo(s, L, h, <<>>, r, L2)
<1> DEFINE q0 == L[h]
           n == Len(q0)
           s1 == WithCount(s, h, 0)
           Rest(q, k) == Len(q) = n - k /\ \A j \in 1 .. (n - k) : q[j] = q0[k + j]
           Good(x, Lx, k) == /\ Core(x, Lx) /\ Apart(s, L, x, Lx, h) /\ ValidIn(x, h)
                             /\ Exact(x) => x.ok
                             /\ CountIn(x, h) = 0
                             /\ x.ok => Rest(Lx[h], k)
           P == [k \in 0 .. n |-> {x \in CallState :
                   \E Lx \in [Header -> Seq(Node)] : Good(x, Lx, k)}]
           Body(x, e) == Free(FlowDelete([x EXCEPT !.mem = RemoveFromHead(@, <<h[1], h[2]>>)],
                                         h[1], h[2], x.cell[e].data), e)
           Step(x, k) == IF x.ok THEN Body(x, q0[k]) ELSE x
<1>1. q0 \in Seq(Node) /\ n \in Nat /\ ListOf(s.mem, h) = q0 /\ s \in CallState
      /\ L \in [Header -> Seq(Node)]
  BY ListShape DEF Core, Shape
<1> HIDE DEF n, q0
<1>2. s1 \in P[0]
  <2>1. Core(s1, L) /\ Apart(s, L, s1, L, h) /\ ValidIn(s1, h) /\ CountIn(s1, h) = 0
        /\ s1.ok = s.ok
    <3> DEFINE c == 0
    <3>0. c \in Int
      OBVIOUS
    <3> HIDE DEF c
    <3>1. Core(s, L) /\ h \in Header /\ ValidIn(s, h) /\ s1 = WithCount(s, h, c)
      BY DEF c
    <3> HIDE DEF s1
    <3>2. Core(s1, L) /\ Apart(s, L, s1, L, h) /\ CountIn(s1, h) = c
      BY ONLY <3>0, <3>1, CountStored
    <3>3. ValidIn(s1, h)
      BY ONLY <3>0, <3>1, CountStored
    <3>4. s1.ok = s.ok
      BY ONLY <3>0, <3>1, CountStored
    <3> QED BY <3>2, <3>3, <3>4 DEF c
  <2>2. 0 \in 0 .. n
    BY <1>1
  <2>3. Rest(L[h], 0)
    BY <1>1 DEF q0, n
  <2> HIDE DEF s1, Rest
  <2>4. Good(s1, L, 0)
    BY <2>1, <2>3
  <2>5. s1 \in CallState
    BY <2>1 DEF Core
  <2> HIDE DEF Good
  <2> QED BY <1>1, <2>2, <2>4, <2>5
<1>3. ASSUME NEW k \in 1 .. n, NEW x \in P[k - 1] PROVE Step(x, k) \in P[k]
  <2>1. k \in 0 .. n /\ k - 1 \in 0 .. n /\ (k - 1) + 1 = k
    BY <1>1
  <2>2. PICK Lx \in [Header -> Seq(Node)] : x \in CallState /\ Good(x, Lx, k - 1)
    <3> HIDE DEF Good, Step
    <3> QED BY <2>1
  <2> SUFFICES \E L2 \in [Header -> Seq(Node)] : Good(Step(x, k), L2, k)
    <3>1. \A L2 : Good(Step(x, k), L2, k) => Step(x, k) \in CallState
      <4> HIDE DEF Step
      <4> QED BY DEF Core
    <3> HIDE DEF Good, Step
    <3> QED BY <2>1, <3>1
  <2>3. CASE ~x.ok
    <3>1. Step(x, k) = x
      BY <2>3
    <3>2. Good(x, Lx, k)
      BY <2>2, <2>3
    <3> HIDE DEF Good, Step
    <3> QED BY <3>1, <3>2
  <2>4. CASE x.ok
    <3> DEFINE e == q0[k]
               u == Step(x, k)
               L2 == DropList(Lx, h, 1)
    <3>1. u = Removed(HeadCut(x, h), h, x.cell[e].data, e)
      <4> DEFINE hh == <<h[1], h[2]>>
      <4>1. u = Removed(HeadCut(x, hh), h, x.cell[e].data, e)
        BY <2>4, Zenon DEF Removed, HeadCut
      <4>2. hh = h
        BY Headers
      <4> HIDE DEF hh, u
      <4> QED BY <4>1, <4>2
    <3>2. Lx[h] \in Seq(Node) /\ Len(Lx[h]) = n - (k - 1) /\ Len(Lx[h]) # 0 /\ e = Lx[h][1]
          /\ Rest(Lx[h], k - 1)
      <4>1. Rest(Lx[h], k - 1)
        BY <2>2, <2>4
      <4>2. n - (k - 1) # 0 /\ 1 \in 1 .. (n - (k - 1)) /\ (k - 1) + 1 = k
        BY <1>1
      <4> QED BY <4>1, <4>2
    <3> HIDE DEF u, e, L2
    <3>3. /\ Core(u, L2) /\ Apart(x, Lx, u, L2, h) /\ ValidIn(u, h)
          /\ L2 \in [Header -> Seq(Node)] /\ L2[h] = Drop(Lx[h], 1)
          /\ CountIn(u, h) = CountIn(x, h)
          /\ Exact(u) => u.ok
      <4>1. /\ Core(x, Lx) /\ x.ok /\ h \in Header /\ ValidIn(x, h)
            /\ Len(Lx[h]) # 0 /\ e = Lx[h][1]
        BY <2>2, <2>4, <3>2
      <4>2. LET K == DropList(Lx, h, 1) IN
            /\ Core(u, K) /\ Apart(x, Lx, u, K, h) /\ ValidIn(u, h)
            /\ K \in [Header -> Seq(Node)] /\ K[h] = Drop(Lx[h], 1)
            /\ CountIn(u, h) = CountIn(x, h)
            /\ Exact(u) => u.ok
        BY ONLY <3>1, <4>1, HeadRemoved
      <4> QED BY <4>2 DEF L2
    <3>4. Rest(L2[h], k)
      <4> DEFINE q == Lx[h]
      <4>1. q \in Seq(Node) /\ Distinct(q) /\ 1 \in 1 .. Len(q)
        BY <1>1, <2>2, <3>2, ListShape
      <4>2. /\ Len(Drop(q, 1)) = Len(q) - 1
            /\ \A i \in 1 .. (Len(q) - 1) : Drop(q, 1)[i] = q[i + 1]
        BY ONLY <4>1, DropIs
      <4>3. \A j \in 1 .. (n - (k - 1)) : q[j] = q0[(k - 1) + j]
        BY <3>2
      <4>4. Len(q) - 1 = n - k
        BY <1>1, <3>2
      <4>5. \A j \in 1 .. (n - k) : j + 1 \in 1 .. (n - (k - 1)) /\ (k - 1) + (j + 1) = k + j
        BY <1>1
      <4> QED BY <3>3, <4>2, <4>3, <4>4, <4>5
    <3> HIDE DEF Rest
    <3>5. Apart(s, L, u, L2, h)
      BY <2>2, <3>3, ApartTwice
    <3>6. Good(u, L2, k)
      BY <2>2, <2>4, <3>3, <3>4, <3>5
    <3> HIDE DEF Good
    <3> QED BY <3>3, <3>6 DEF u
  <2> QED BY <2>3, <2>4
<1> DEFINE F == [y \in (1 .. n) \X CallState |-> Step(y[2], y[1])]
<1>4. ASSUME NEW k \in 1 .. n, NEW x \in P[k - 1] PROVE F[<<k, x>>] = Step(x, k)
  <2>1. k - 1 \in 0 .. n
    BY <1>1
  <2>2. x \in CallState
    <3> HIDE DEF Step, Good
    <3> QED BY <2>1
  <2> HIDE DEF Step, P
  <2> QED BY <2>2
<1> HIDE DEF P, Step, F, s1
<1>5. PICK f : LoopOf(f, n, s1, F) /\ Passes(f, n, P)
  <2>1. Leads(n, P, F)
    BY <1>3, <1>4 DEF Leads
  <2>2. n \in Nat /\ s1 \in P[0]
    BY <1>1, <1>2
  <2> QED BY ONLY <2>1, <2>2, LoopExists
<1>6. f = [k \in 0 .. n |-> IF k = 0 THEN s1 ELSE Step(f[k - 1], k)]
  <2>1. \A k \in 0 .. n : k # 0 => F[<<k, f[k - 1]>>] = Step(f[k - 1], k)
    <3> TAKE k \in 0 .. n
    <3>1. k # 0 => k \in 1 .. n /\ k - 1 \in 0 .. n
      BY <1>1
    <3> QED BY <1>4, <1>5, <3>1 DEF Passes
  <2> QED BY <1>5, <2>1 DEF LoopOf
<1> DEFINE g == CHOOSE g : g = [k \in 0 .. n |-> IF k = 0 THEN s1 ELSE Step(g[k - 1], k)]
<1>7. g = [k \in 0 .. n |-> IF k = 0 THEN s1 ELSE Step(g[k - 1], k)]
  BY <1>6
<1>8. r = g[n]
  <2> DEFINE t == h[1]
             i == h[2]
             s2 == [s EXCEPT !.trap[t].count[i] = 0]
             qq == ListOf(s.mem, <<t, i>>)
  <2>1. s1 = s2
    BY <1>1 DEF s1, WithCount, CountPut, CallState
  <2>2. qq = q0
    BY <1>1, Headers
  <2> DEFINE B(x, e) == Free(FlowDelete([x EXCEPT !.mem = RemoveFromHead(@, <<t, i>>)],
                                        t, i, x.cell[e].data), e)
             g2 == CHOOSE gg : gg = [k \in 0 .. Len(qq) |->
                     IF k = 0 THEN s2 ELSE IF gg[k - 1].ok THEN B(gg[k - 1], qq[k]) ELSE gg[k - 1]]
  <2>3. r = g2[Len(qq)]
    BY Zenon DEF EmptyList, Loop
  <2> HIDE DEF s2, qq, B
  <2>4. g2 = CHOOSE gg : gg = [k \in 0 .. n |->
                     IF k = 0 THEN s1 ELSE IF gg[k - 1].ok THEN B(gg[k - 1], q0[k]) ELSE gg[k - 1]]
    BY <2>1, <2>2 DEF n
  <2>5. g2 = g
    BY <2>4, Zenon DEF B, Step
  <2> HIDE DEF g2, g
  <2> QED BY <2>2, <2>3, <2>5 DEF n
<1> HIDE DEF g
<1>9. g[n] \in P[n]
  <2>1. g[0] \in P[0]
    BY <1>1, <1>2, <1>7
  <2>2. ASSUME NEW k \in 1 .. n, g[k - 1] \in P[k - 1] PROVE g[k] \in P[k]
    <3>1. k \in 0 .. n /\ k # 0
      BY <1>1
    <3>2. g[k] = Step(g[k - 1], k)
      BY <1>7, <3>1
    <3> QED BY <1>3, <2>2, <3>2
  <2> QED BY <1>1, <2>1, <2>2, LoopKeeps
<1>10. PICK L2 \in [Header -> Seq(Node)] : Good(r, L2, n)
  <2>1. n \in 0 .. n
    BY <1>1
  <2> HIDE DEF Good
  <2> QED BY <1>8, <1>9, <2>1 DEF P
<1>11. ASSUME r.ok PROVE Counted(r, L2, h) /\ DataIn(r, L2[h]) = Members(<<>>)
  <2>1. Len(L2[h]) = 0 /\ CountIn(r, h) = 0 /\ L2[h] \in Seq(Node)
    BY <1>1, <1>10, <1>11
  <2>2. Elems(L2[h]) = {}
    BY <2>1 DEF Elems
  <2>3. Members(<<>>) = {}
    BY DEF Members
  <2> QED BY <2>1, <2>2, <2>3 DEF Counted, DataIn
<1>12. Within(r, L2, h)
  <2>1. Len(L2[h]) \in Nat
    BY <1>1
  <2> QED BY <1>10, <2>1 DEF Within
<1>13. SetTo(s, L, h, <<>>, r, L2)
  BY <1>10, <1>11, <1>12 DEF SetTo
<1> QED BY <1>13

-----------------------------------------------------------------------------
(* Marks being cleared.                                                    *)

\* A list half swept of its unmarked elements: m elements have been kept and
\* their marks cleared, the marks behind them are those of the data in M.
Swept(s, q, m, M) ==
  /\ \A j \in 1 .. m : ~s.cell[q[j]].valid /\ s.cell[q[j]].data \in M
  /\ \A j \in (m + 1) .. Len(q) : s.cell[q[j]].valid <=> s.cell[q[j]].data \in M
  /\ M \subseteq DataIn(s, q)

\* The mark of the next element is cleared.
LEMMA SweptOn ==
  ASSUME NEW s, NEW q \in Seq(Node), Distinct(q), NEW M, NEW m \in Nat, m < Len(q),
         Swept(s, q, m, M), NEW e, e = q[m + 1], s.cell[e].valid,
         NEW r, \A a \in Node \ {e} : r.cell[a] = s.cell[a],
         \A a \in Node : r.cell[a].data = s.cell[a].data, ~r.cell[e].valid
  PROVE  Swept(r, q, m + 1, M)
<1>1. Len(q) \in Nat /\ DOMAIN q = 1 .. Len(q) /\ m + 1 \in 1 .. Len(q)
      /\ \A j \in 1 .. Len(q) : q[j] \in Node
  OBVIOUS
<1>2. s.cell[e].data \in M
  <2>1. m + 1 \in (m + 1) .. Len(q)
    BY <1>1
  <2> QED BY <2>1 DEF Swept
<1>3. \A j \in 1 .. Len(q) : j # m + 1 => q[j] \in Node \ {e}
  BY <1>1 DEF Distinct
<1>4. ASSUME NEW j \in 1 .. (m + 1) PROVE ~r.cell[q[j]].valid /\ r.cell[q[j]].data \in M
  <2>1. CASE j = m + 1
    BY <1>1, <1>2, <2>1
  <2>2. CASE j # m + 1
    <3>1. j \in 1 .. m /\ j \in 1 .. Len(q)
      BY <1>1, <2>2
    <3>2. r.cell[q[j]] = s.cell[q[j]]
      BY <1>3, <2>2, <3>1
    <3> QED BY <3>1, <3>2 DEF Swept
  <2> QED BY <2>1, <2>2
<1>5. ASSUME NEW j \in ((m + 1) + 1) .. Len(q)
      PROVE  r.cell[q[j]].valid <=> r.cell[q[j]].data \in M
  <2>1. j \in (m + 1) .. Len(q) /\ j \in 1 .. Len(q) /\ j # m + 1
    BY <1>1
  <2>2. r.cell[q[j]] = s.cell[q[j]]
    BY <1>3, <2>1
  <2> QED BY <2>1, <2>2 DEF Swept
<1>6. DataIn(r, q) = DataIn(s, q)
  <2>1. Elems(q) \subseteq Node
    BY <1>1 DEF Elems
  <2>2. \A a \in Elems(q) : r.cell[a].data = s.cell[a].data
    BY <2>1
  <2> QED BY ONLY <2>2 DEF DataIn
<1>7. M \subseteq DataIn(r, q)
  BY <1>6 DEF Swept
<1> QED BY <1>4, <1>5, <1>7 DEF Swept

\* The next element, which is not marked, is taken off.
LEMMA SweptOff ==
  ASSUME NEW s, NEW q \in Seq(Node), Distinct(q), NEW M, NEW m \in Nat, m < Len(q),
         Swept(s, q, m, M), NEW e, e = q[m + 1], ~s.cell[e].valid,
         NEW q2, q2 = Drop(q, m + 1),
         NEW r, \A a \in Elems(q2) : r.cell[a] = s.cell[a],
         DataIn(s, q2) = DataIn(s, q) \ {s.cell[e].data}
  PROVE  Swept(r, q2, m, M)
<1>1. Len(q) \in Nat /\ DOMAIN q = 1 .. Len(q) /\ m + 1 \in 1 .. Len(q)
  OBVIOUS
<1>2. s.cell[e].data \notin M
  <2>1. m + 1 \in (m + 1) .. Len(q)
    BY <1>1
  <2> QED BY <2>1 DEF Swept
<1>3. /\ q2 \in Seq(Node) /\ Len(q2) = Len(q) - 1
      /\ \A i \in 1 .. m : q2[i] = q[i]
      /\ \A i \in (m + 1) .. (Len(q) - 1) : q2[i] = q[i + 1]
  <2> DEFINE p == m + 1
  <2>1. p \in 1 .. Len(q) /\ q \in Seq(Node) /\ Distinct(q) /\ q2 = Drop(q, p)
    BY <1>1
  <2>2. p - 1 = m
    OBVIOUS
  <2> HIDE DEF p
  <2>3. /\ Drop(q, p) \in Seq(Node) /\ Len(Drop(q, p)) = Len(q) - 1
        /\ \A i \in 1 .. (p - 1) : Drop(q, p)[i] = q[i]
        /\ \A i \in p .. (Len(q) - 1) : Drop(q, p)[i] = q[i + 1]
    BY ONLY <2>1, DropIs
  <2> QED BY <2>1, <2>2, <2>3 DEF p
<1>4. \A j \in 1 .. Len(q2) : q2[j] \in Elems(q2)
  BY <1>3 DEF Elems
<1>5. ASSUME NEW j \in 1 .. m PROVE ~r.cell[q2[j]].valid /\ r.cell[q2[j]].data \in M
  <2>1. j \in 1 .. Len(q2) /\ q2[j] = q[j]
    BY <1>1, <1>3
  <2>2. r.cell[q2[j]] = s.cell[q[j]]
    BY <1>4, <2>1
  <2> QED BY <2>2 DEF Swept
<1>6. ASSUME NEW j \in (m + 1) .. Len(q2)
      PROVE  r.cell[q2[j]].valid <=> r.cell[q2[j]].data \in M
  <2>1. j \in 1 .. Len(q2) /\ q2[j] = q[j + 1] /\ j + 1 \in (m + 1) .. Len(q)
    BY <1>1, <1>3
  <2>2. r.cell[q2[j]] = s.cell[q[j + 1]]
    BY <1>4, <2>1
  <2> QED BY <2>1, <2>2 DEF Swept
<1>7. DataIn(r, q2) = DataIn(s, q2)
  BY DEF DataIn
<1>8. M \subseteq DataIn(r, q2)
  BY <1>2, <1>7 DEF Swept
<1> QED BY <1>5, <1>6, <1>8 DEF Swept

\* An element unlinked, and the count one less.
Shrunk(s, h, e) ==
  [s EXCEPT !.trap[h[1]].count[h[2]] = @ - 1, !.mem = Unlink(@, e)]

LEMMA ShrunkIs ==
  ASSUME NEW s, NEW L, Core(s, L), NEW h \in Header, ValidIn(s, h),
         NEW p \in 1 .. Len(L[h]), NEW e, e = L[h][p],
         NEW z, z = Shrunk(s, h, e)
  PROVE  /\ z \in CallState /\ AlikeBut(s, z, h) /\ CutAt(s, z.mem, h, L[h], p)
         /\ CountIn(z, h) = CountIn(s, h) - 1
<1> DEFINE q == L[h]
           m == Unlink(s.mem, e)
           c == CountIn(s, h) - 1
           w == CountPut(s, h, c)
           a == At(h, q, p - 1)
           b == At(h, q, p + 1)
           mm == s.mem
<1>1. s \in CallState /\ mm \in Memory /\ h \in Elem
  BY Fields DEF Core, Elem
<1>2. /\ q \in Seq(Node) /\ Distinct(q) /\ Len(q) \in Nat /\ DOMAIN q = 1 .. Len(q)
      /\ Ring(mm, h, q) /\ p \in 1 .. Len(q) /\ Elems(q) \subseteq Node
  BY ListShape
<1>3. a \in {h} \cup Elems(q) /\ b \in {h} \cup Elems(q) /\ At(h, q, p) = e /\ e \in Node
  <2>1. p - 1 \in 0 .. (Len(q) + 1) /\ p + 1 \in 0 .. (Len(q) + 1)
    BY <1>2
  <2> QED BY <1>2, <2>1, Places
<1>4. a \in Elem /\ b \in Elem /\ a # Null /\ b # Null
  BY <1>1, <1>2, <1>3, DListConstants DEF Elem
<1>5. mm[e].prev = a /\ mm[e].next = b
  <2>1. p - 1 \in 0 .. Len(q) /\ p \in 0 .. Len(q) /\ (p - 1) + 1 = p
    BY <1>2
  <2>2. mm[At(h, q, (p - 1) + 1)].prev = At(h, q, p - 1) /\ mm[At(h, q, p)].next = At(h, q, p + 1)
    BY <1>2, <2>1 DEF Ring
  <2> QED BY <1>3, <2>1, <2>2
<1>6. m = [PrvRemove(mm, a, b) EXCEPT ![e] = Unlinked]
  <2> HIDE DEF a, b, mm
  <2> QED BY <1>4, <1>5 DEF Unlink, mm
<1>7. PrvRemove(mm, a, b) \in Memory
  <2> HIDE DEF a, b, mm
  <2> QED BY ONLY <1>1, <1>4, PrvRemoveIs
<1>8. m \in Memory /\ \A k \in Elem \ {e} : m[k] = PrvRemove(mm, a, b)[k]
  <2> DEFINE v == PrvRemove(mm, a, b)
  <2>1. v \in Memory /\ m = [v EXCEPT ![e] = Unlinked]
    BY <1>6, <1>7
  <2>2. Unlinked \in [next : Pointer, prev : Pointer]
    BY DEF Unlinked, Pointer
  <2> HIDE DEF v, m
  <2>3. m \in Memory /\ \A k \in Elem \ {e} : m[k] = v[k]
    BY <2>1, <2>2 DEF Memory
  <2> QED BY <2>3 DEF v
<1> HIDE DEF m
<1>9. c \in Int
  <2>1. h[1] \in Trap /\ h[2] \in Intf /\ s.trap \in [Trap -> TrapEntry]
    BY <1>1, Headers, Fields
  <2>2. CountIn(s, h) \in Int
    BY <2>1 DEF CountIn, TrapEntry
  <2> QED BY <2>2
<1>10. z = [s EXCEPT !.trap = w, !.mem = m]
  BY <1>1 DEF Shrunk, CallState, CountIn, CountPut, m
<1>11. /\ w \in [Trap -> TrapEntry]
       /\ z.trap = w
  <2>1. z.trap = w
    BY <1>1, <1>10 DEF CallState
  <2> HIDE DEF c
  <2>2. s \in CallState /\ h \in Header /\ c \in Int /\ z.trap = CountPut(s, h, c)
    BY <1>1, <1>9, <2>1
  <2>3. z.trap \in [Trap -> TrapEntry]
    BY ONLY <2>2, CountSet
  <2> QED BY <2>1, <2>3
<1>12. /\ CountIn(z, h) = c
       /\ \A g \in Header \ {h} : CountIn(z, g) = CountIn(s, g)
       /\ \A g \in Header : ValidIn(z, g) = ValidIn(s, g)
       /\ \A t \in Trap : z.trap[t].action = s.trap[t].action
                          /\ z.trap[t].notSet = s.trap[t].notSet
  <2> HIDE DEF c
  <2>1. s \in CallState /\ h \in Header /\ c \in Int /\ z.trap = CountPut(s, h, c)
    BY <1>1, <1>9, <1>11
  <2>2. SameButCount(s, z, h, c)
    BY ONLY <2>1, CountSet
  <2> QED BY <2>2 DEF SameButCount
<1> HIDE DEF w
<1>13. /\ z \in CallState /\ z.mem = m
       /\ z.cell = s.cell /\ z.flow = s.flow /\ z.ends = s.ends /\ z.failed = s.failed
       /\ z.ok = s.ok /\ z.junk = s.junk
  BY <1>1, <1>8, <1>10, <1>11 DEF CallState
<1>14. AlikeBut(s, z, h)
  BY <1>12, <1>13 DEF AlikeBut, SameValid
<1>15. CutAt(s, z.mem, h, L[h], p)
  BY <1>8, <1>13 DEF CutAt
<1> QED BY <1>12, <1>13, <1>14, <1>15

-----------------------------------------------------------------------------
(* The loop that takes unmarked elements off.                              *)

\* One step of the loop that takes the unmarked elements off a list.
SweepBody(s, h) ==
  LET n == s.at IN
  [(IF s.cell[n].valid THEN Marked(s, n, FALSE)
    ELSE Removed(Shrunk(s, h, n), h, s.cell[n].data, n))
     EXCEPT !.at = GetNext(s.mem, n)]

SweptTo(s, L, h, M, m, r, L2, m2) ==
  /\ Core(r, L2) /\ Apart(s, L, r, L2, h) /\ ValidIn(r, h)
  /\ Exact(r) => r.ok
  /\ CountIn(r, h) - Len(L2[h]) = CountIn(s, h) - Len(L[h])
  /\ r.ok => /\ Reached(r, L2[h], m2)
             /\ Len(L2[h]) - m2 = Len(L[h]) - (m + 1)
             /\ Swept(r, L2[h], m2, M)

LEMMA SweepStep ==
  ASSUME NEW s, NEW L, Core(s, L), s.ok, NEW h \in Header, ValidIn(s, h), NEW M,
         NEW m, Reached(s, L[h], m), s.at \in Node, Swept(s, L[h], m, M),
         NEW r, r = SweepBody(s, h)
  PROVE  \E L2 \in [Header -> Seq(Node)], m2 \in Nat : SweptTo(s, L, h, M, m, r, L2, m2)
<1> DEFINE q == L[h]
           n == s.at
           x == GetNext(s.mem, n)
<1>1. s \in CallState /\ L \in [Header -> Seq(Node)] /\ CountIn(s, h) \in Int
  <2>1. h[1] \in Trap /\ h[2] \in Intf /\ s.trap \in [Trap -> TrapEntry]
    BY Headers, Fields DEF Core
  <2>2. CountIn(s, h) \in Int
    BY <2>1 DEF CountIn, TrapEntry
  <2> QED BY <2>2 DEF Core, Shape
<1>2. /\ q \in Seq(Node) /\ Distinct(q) /\ Len(q) \in Nat /\ DOMAIN q = 1 .. Len(q)
      /\ Elems(q) \subseteq Node
  BY ListShape
<1>3. m \in Nat /\ m < Len(q) /\ m + 1 \in 1 .. Len(q) /\ n = q[m + 1]
  BY <1>2 DEF Reached
<1>4. n \in Elems(q) /\ n \in Node
  BY <1>2, <1>3 DEF Elems
<1>5. x \in Pointer /\ \A y : y.at = x => Reached(y, q, m + 1)
  <2>1. ASSUME NEW y, y.at = x PROVE Reached(y, q, m + 1)
    <3>1. y.at = GetNext(s.mem, L[h][m + 1])
      BY <1>3, <2>1
    <3>2. Core(s, L) /\ h \in Header /\ ValidIn(s, h) /\ m \in Nat /\ m < Len(L[h])
      BY <1>3
    <3> QED BY ONLY <3>1, <3>2, NextReached
  <2>2. s.mem \in Memory /\ n \in Elem
    BY <1>1, <1>4, Fields DEF Elem
  <2>3. x \in Pointer
    BY <2>2 DEF GetNext, Memory
  <2> QED BY <2>1, <2>3
<1> HIDE DEF x
<1>6. CASE s.cell[n].valid
  <2> DEFINE b == FALSE
             u == Marked(s, n, b)
  <2>0. b \in BOOLEAN /\ ~b
    OBVIOUS
  <2>1. r = [u EXCEPT !.at = x]
    BY <1>6 DEF SweepBody, x
  <2> HIDE DEF b, n
  <2>2. Core(s, L) /\ h \in Header /\ n \in Elems(L[h])
    BY <1>4
  <2>3. Core(u, L) /\ Apart(s, L, u, L, h)
    BY ONLY <2>0, <2>2, MarkedKeeps
  <2>4. u.trap = s.trap /\ u.failed = s.failed
    BY ONLY <2>0, <2>2, MarkedKeeps
  <2>5. u.ok = s.ok
    BY ONLY <2>0, <2>2, MarkedKeeps
  <2>6. \A e \in Node : u.cell[e].data = s.cell[e].data
    BY ONLY <2>0, <2>2, MarkedKeeps
  <2>7. (b => u.cell[n].valid) /\ (~b => ~u.cell[n].valid)
    BY ONLY <2>0, <2>2, MarkedKeeps
  <2>8. \A e \in Node \ {n} : u.cell[e] = s.cell[e]
    BY ONLY <2>0, <2>2, MarkedKeeps
  <2> HIDE DEF u
  <2>9. /\ Core(r, L) /\ Apart(u, L, r, L, h)
        /\ r.trap = u.trap /\ r.cell = u.cell /\ r.ok = u.ok /\ r.failed = u.failed /\ r.at = x
    <3>1. Core(u, L) /\ x \in Pointer /\ h \in Header
      BY <1>5, <2>3
    <3> QED BY ONLY <2>1, <3>1, MovedKeeps
  <2>10. Apart(s, L, r, L, h)
    BY <2>3, <2>9, ApartTwice
  <2>11. Swept(r, q, m + 1, M)
    <3>1. /\ q \in Seq(Node) /\ Distinct(q) /\ m \in Nat /\ m < Len(q)
          /\ Swept(s, q, m, M) /\ n = q[m + 1] /\ s.cell[n].valid
      BY <1>2, <1>3, <1>6
    <3>2. /\ \A a \in Node \ {n} : r.cell[a] = s.cell[a]
          /\ ~r.cell[n].valid
      BY <2>0, <2>7, <2>8, <2>9
    <3>3. \A a \in Node : r.cell[a].data = s.cell[a].data
      BY <2>6, <2>9
    <3> HIDE DEF q
    <3> QED BY ONLY <3>1, <3>2, <3>3, SweptOn
  <2>12. CountIn(r, h) = CountIn(s, h) /\ ValidIn(r, h) /\ r.ok
    BY <2>4, <2>5, <2>9 DEF CountIn, ValidIn
  <2>13. Len(q) - (m + 1) = Len(q) - (m + 1) /\ m + 1 \in Nat
         /\ CountIn(r, h) - Len(q) = CountIn(s, h) - Len(q)
    BY <1>3, <2>12
  <2>14. Reached(r, q, m + 1)
    BY <1>5, <2>9
  <2>15. SweptTo(s, L, h, M, m, r, L, m + 1)
    BY <2>9, <2>10, <2>11, <2>12, <2>13, <2>14 DEF SweptTo
  <2> QED BY <1>1, <2>13, <2>15
<1>7. CASE ~s.cell[n].valid
  <2> DEFINE z == Shrunk(s, h, n)
             d == s.cell[n].data
             u == Removed(z, h, d, n)
             p == m + 1
             L2 == DropList(L, h, p)
             q2 == Drop(q, p)
  <2>1. r = [u EXCEPT !.at = x]
    BY <1>7 DEF SweepBody, x
  <2>0. p \in 1 .. Len(q) /\ n = q[p] /\ p - 1 = m
    BY <1>3
  <2> HIDE DEF n, p, z
  <2>2. /\ z \in CallState /\ AlikeBut(s, z, h) /\ CutAt(s, z.mem, h, L[h], p)
        /\ CountIn(z, h) = CountIn(s, h) - 1
    <3>1. Core(s, L) /\ h \in Header /\ ValidIn(s, h) /\ p \in 1 .. Len(L[h]) /\ n = L[h][p]
          /\ z = Shrunk(s, h, n)
      BY <2>0 DEF z
    <3> HIDE DEF q
    <3> QED BY ONLY <3>1, ShrunkIs
  <2> HIDE DEF d, u
  <2>3. /\ Core(u, L2) /\ Apart(s, L, u, L2, h) /\ ValidIn(u, h)
        /\ L2 \in [Header -> Seq(Node)] /\ L2[h] = q2
        /\ CountIn(u, h) = CountIn(z, h)
        /\ Exact(u) => u.ok
        /\ u.ok => \A a \in Elems(q2) : a \in Elems(q) /\ u.cell[a] = s.cell[a]
        /\ DataIn(s, q2) = DataIn(s, q) \ {d}
    <3>1. /\ Core(s, L) /\ s.ok /\ h \in Header /\ ValidIn(s, h) /\ p \in 1 .. Len(L[h])
          /\ z \in CallState /\ AlikeBut(s, z, h) /\ CutAt(s, z.mem, h, L[h], p)
          /\ d = s.cell[L[h][p]].data /\ u = Removed(z, h, d, L[h][p])
      BY <2>0, <2>2 DEF d, u
    <3> HIDE DEF q
    <3>2. LET K == DropList(L, h, p) IN
          /\ Core(u, K) /\ Apart(s, L, u, K, h) /\ ValidIn(u, h)
          /\ K \in [Header -> Seq(Node)] /\ K[h] = Drop(L[h], p)
          /\ CountIn(u, h) = CountIn(z, h)
          /\ Exact(u) => u.ok
      BY ONLY <3>1, RemovedKeeps
    <3>3. LET K == DropList(L, h, p) IN LeftBy(s, L, h, d, u, K)
      BY ONLY <3>1, RemovedKeeps
    <3> QED BY <3>2, <3>3 DEF q, LeftBy
  <2> HIDE DEF L2
  <2>4. /\ Core(r, L2) /\ Apart(u, L2, r, L2, h)
        /\ r.trap = u.trap /\ r.cell = u.cell /\ r.ok = u.ok /\ r.failed = u.failed /\ r.at = x
    <3>1. Core(u, L2) /\ x \in Pointer /\ h \in Header
      BY <1>5, <2>3
    <3> QED BY ONLY <2>1, <3>1, MovedKeeps
  <2>5. Apart(s, L, r, L2, h)
    BY <2>3, <2>4, ApartTwice
  <2>6. r.ok => Swept(r, q2, m, M)
    <3> SUFFICES ASSUME r.ok PROVE Swept(r, q2, m, M)
      OBVIOUS
    <3>1. /\ q \in Seq(Node) /\ Distinct(q) /\ m \in Nat /\ m < Len(q)
          /\ Swept(s, q, m, M) /\ n = q[m + 1] /\ ~s.cell[n].valid
          /\ q2 = Drop(q, m + 1)
      BY <1>2, <1>3, <1>7 DEF p
    <3>2. \A a \in Elems(q2) : r.cell[a] = s.cell[a]
      BY <2>3, <2>4
    <3>3. DataIn(s, q2) = DataIn(s, q) \ {s.cell[n].data}
      BY <2>3 DEF d
    <3> HIDE DEF q, q2
    <3> QED BY ONLY <3>1, <3>2, <3>3, SweptOff
  <2>7. /\ q2 \in Seq(Node) /\ Len(q2) = Len(q) - 1
        /\ \A i \in (m + 1) .. (Len(q) - 1) : q2[i] = q[i + 1]
    <3>1. q \in Seq(Node) /\ Distinct(q) /\ p \in 1 .. Len(q)
      BY <1>2, <2>0
    <3> HIDE DEF q
    <3>2. /\ q2 \in Seq(Node) /\ Len(q2) = Len(q) - 1
          /\ \A i \in p .. (Len(q) - 1) : q2[i] = q[i + 1]
      BY ONLY <3>1, DropIs
    <3> QED BY <3>2 DEF p
  <2>8. Reached(r, q2, m)
    <3>1. Reached(r, q, m + 1)
      BY <1>5, <2>4
    <3>2. CASE m + 1 < Len(q)
      <4>1. r.at = q[(m + 1) + 1] /\ m + 1 \in (m + 1) .. (Len(q) - 1)
        BY <1>2, <1>3, <3>1, <3>2 DEF Reached
      <4>2. m \in 0 .. Len(q2) /\ m < Len(q2) /\ r.at = q2[m + 1]
        BY <1>2, <1>3, <2>7, <3>2, <4>1
      <4> QED BY <4>2 DEF Reached
    <3>3. CASE ~(m + 1 < Len(q))
      <4>1. r.at \notin Node
        BY <3>1, <3>3 DEF Reached
      <4>2. m \in 0 .. Len(q2) /\ ~(m < Len(q2))
        BY <1>2, <1>3, <2>7, <3>3
      <4> QED BY <4>1, <4>2 DEF Reached
    <3> QED BY <3>2, <3>3
  <2>9. CountIn(r, h) = CountIn(s, h) - 1 /\ ValidIn(r, h)
    <3>1. CountIn(r, h) = CountIn(u, h) /\ ValidIn(r, h)
      BY <2>3, <2>4 DEF CountIn, ValidIn
    <3> QED BY <2>2, <2>3, <3>1
  <2>10. Len(q2) - m = Len(q) - (m + 1) /\ CountIn(r, h) - Len(q2) = CountIn(s, h) - Len(q)
    BY <1>1, <1>2, <1>3, <2>7, <2>9
  <2>11. Exact(r) => r.ok
    BY <2>3, <2>4 DEF Exact
  <2>12. SweptTo(s, L, h, M, m, r, L2, m)
    BY <2>3, <2>4, <2>5, <2>6, <2>8, <2>9, <2>10, <2>11 DEF SweptTo
  <2> QED BY <1>3, <2>3, <2>12
<1> QED BY <1>6, <1>7

-----------------------------------------------------------------------------
(* The sweep as a whole.                                                   *)

\* The loop that sweeps list L[h] after k steps: m elements kept, those
\* before the first of them not reached yet.
Half(s, L, h, M, k, x, Lx, m) ==
  /\ Core(x, Lx) /\ Apart(s, L, x, Lx, h) /\ ValidIn(x, h)
  /\ Exact(x) => x.ok
  /\ CountIn(x, h) - Len(Lx[h]) = CountIn(s, h) - Len(L[h])
  /\ x.ok => /\ Reached(x, Lx[h], m)
             /\ Len(Lx[h]) - m = Len(L[h]) - k
             /\ Swept(x, Lx[h], m, M)

SweptAll(s, L, h, M, r, L2) ==
  /\ Core(r, L2) /\ Apart(s, L, r, L2, h) /\ Within(r, L2, h)
  /\ Exact(r) => /\ r.ok /\ Counted(r, L2, h) /\ DataIn(r, L2[h]) = M
                 /\ \A n \in Elems(L2[h]) : ~r.cell[n].valid

LEMMA UnmarkedDropped ==
  ASSUME NEW s, NEW L, Core(s, L), s.ok, NEW h \in Header, ValidIn(s, h),
         NEW M, Marks(s, L[h], M), M \subseteq DataIn(s, L[h]),
         Within(s, L, h), Exact(s) => Counted(s, L, h),
         NEW r, r = DropUnmarked(s, h[1], h[2])
  PROVE  \E L2 \in [Header -> Seq(Node)] : SweptAll(s, L, h, M, r, L2)
<1> DEFINE c == CountIn(s, h)
           n == Len([k \in 1 .. c |-> k])
           s1 == [s EXCEPT !.at = GetFirst(s.mem, <<h[1], h[2]>>)]
           P == [k \in 0 .. n |-> {x \in CallState :
                   \E Lx \in [Header -> Seq(Node)], m \in Nat : Half(s, L, h, M, k, x, Lx, m)}]
           Step(x) == IF x.ok
                      THEN IF x.at \notin Node THEN Pass(x, <<h[1], h[2]>>)
                           ELSE SweepBody(x, h)
                      ELSE x
<1>1. s \in CallState /\ c \in Int /\ L \in [Header -> Seq(Node)]
  <2>1. h[1] \in Trap /\ h[2] \in Intf /\ s.trap \in [Trap -> TrapEntry]
    BY Headers, Fields DEF Core
  <2> QED BY <2>1 DEF Core, CountIn, TrapEntry, Shape
<1>2. n \in Nat /\ (c >= 0 => n = c) /\ (c < 0 => n = 0)
  BY <1>1, CountTo
<1>3. /\ L[h] \in Seq(Node) /\ Len(L[h]) \in Nat /\ DOMAIN L[h] = 1 .. Len(L[h])
      /\ Elems(L[h]) \subseteq Node
  BY ListShape
<1> HIDE DEF n
<1>5. s1 \in P[0]
  <2>1. Reached(s1, L[h], 0) /\ GetFirst(s.mem, h) \in Pointer
    <3>1. s1.at = GetFirst(s.mem, h)
      BY <1>1, Headers DEF CallState
    <3> HIDE DEF s1
    <3> QED BY <3>1, FirstReached
  <2>2. Core(s1, L) /\ Apart(s, L, s1, L, h) /\ s1.trap = s.trap /\ s1.mem = s.mem
        /\ s1.cell = s.cell /\ s1.ok /\ s1 \in CallState
    <3> DEFINE x == GetFirst(s.mem, h)
    <3>1. x \in Pointer /\ s1 = [s EXCEPT !.at = x]
      BY <2>1, Headers
    <3> HIDE DEF x, s1
    <3> QED BY <3>1, MovedKeeps DEF Core
  <2>3. 0 \in 0 .. n
    BY <1>2
  <2> HIDE DEF s1
  <2>4. Swept(s1, L[h], 0, M)
    <3>1. \A j \in (0 + 1) .. Len(L[h]) : L[h][j] \in Elems(L[h])
      BY <1>3 DEF Elems
    <3>2. \A j \in (0 + 1) .. Len(L[h]) : s1.cell[L[h][j]].valid <=> s1.cell[L[h][j]].data \in M
      BY <2>2, <3>1 DEF Marks
    <3>3. M \subseteq DataIn(s1, L[h])
      BY <2>2 DEF DataIn
    <3>4. \A j \in 1 .. 0 : ~s1.cell[L[h][j]].valid /\ s1.cell[L[h][j]].data \in M
      OBVIOUS
    <3> QED BY <3>2, <3>3, <3>4 DEF Swept
  <2>5. CountIn(s1, h) = CountIn(s, h) /\ ValidIn(s1, h)
    BY <2>2 DEF CountIn, ValidIn
  <2>6. Half(s, L, h, M, 0, s1, L, 0)
    BY <2>1, <2>2, <2>4, <2>5 DEF Half
  <2> QED BY <1>1, <2>2, <2>3, <2>6
<1>6. ASSUME NEW k \in 1 .. n, NEW x \in P[k - 1] PROVE Step(x) \in P[k]
  <2>1. k \in 0 .. n /\ k - 1 \in 0 .. n /\ k - 1 \in Nat /\ (k - 1) + 1 = k
    BY <1>2
  <2>2. PICK Lx \in [Header -> Seq(Node)], m \in Nat :
          x \in CallState /\ Half(s, L, h, M, k - 1, x, Lx, m)
    <3> HIDE DEF Step
    <3> QED BY <2>1
  <2> SUFFICES \E L2 \in [Header -> Seq(Node)], m2 \in Nat : Half(s, L, h, M, k, Step(x), L2, m2)
    <3>1. \A L2, m2 : Half(s, L, h, M, k, Step(x), L2, m2) => Step(x) \in CallState
      <4> HIDE DEF Step
      <4> QED BY DEF Half, Core
    <3> HIDE DEF Step
    <3> QED BY <2>1, <3>1
  <2>3. CASE ~x.ok
    <3>1. Step(x) = x
      BY <2>3
    <3>2. Half(s, L, h, M, k, x, Lx, m)
      BY <2>2, <2>3 DEF Half
    <3> HIDE DEF Step
    <3> QED BY <3>1, <3>2
  <2>4. CASE x.ok /\ x.at \in Node
    <3> DEFINE u == Step(x)
    <3>1. u = SweepBody(x, h)
      BY <2>4
    <3>2. /\ Core(x, Lx) /\ x.ok /\ h \in Header /\ ValidIn(x, h)
          /\ Reached(x, Lx[h], m) /\ x.at \in Node /\ Swept(x, Lx[h], m, M)
      BY <2>2, <2>4 DEF Half
    <3> HIDE DEF u
    <3>3. PICK L2 \in [Header -> Seq(Node)], m2 \in Nat : SweptTo(x, Lx, h, M, m, u, L2, m2)
      BY ONLY <3>1, <3>2, SweepStep
    <3>4. /\ Core(u, L2) /\ Apart(x, Lx, u, L2, h) /\ ValidIn(u, h)
          /\ Exact(u) => u.ok
          /\ CountIn(u, h) - Len(L2[h]) = CountIn(x, h) - Len(Lx[h])
          /\ u.ok => /\ Reached(u, L2[h], m2)
                     /\ Len(L2[h]) - m2 = Len(Lx[h]) - (m + 1)
                     /\ Swept(u, L2[h], m2, M)
      BY <3>3 DEF SweptTo
    <3>5. Apart(s, L, u, L2, h)
      BY <2>2, <3>4, ApartTwice DEF Half
    <3>6. Len(Lx[h]) - (m + 1) = Len(L[h]) - k
      <4>1. Len(Lx[h]) - m = Len(L[h]) - (k - 1) /\ Len(Lx[h]) \in Nat
        BY <2>2, <2>4 DEF Half
      <4> QED BY <1>3, <2>1, <4>1
    <3>7. CountIn(x, h) - Len(Lx[h]) = CountIn(s, h) - Len(L[h])
      BY <2>2, <2>4 DEF Half
    <3>8. Half(s, L, h, M, k, u, L2, m2)
      BY <3>4, <3>5, <3>6, <3>7 DEF Half
    <3> QED BY <3>8 DEF u
  <2>5. CASE x.ok /\ x.at \notin Node
    <3>1. Step(x) = Pass(x, h)
      <4>1. Step(x) = Pass(x, <<h[1], h[2]>>)
        BY <2>5
      <4> HIDE DEF Step
      <4> QED BY <4>1, Headers
    <3>2. h \in x.ends.short /\ ~Exact(x)
      <4>1. Core(x, Lx) /\ Apart(s, L, x, Lx, h) /\ Reached(x, Lx[h], m)
            /\ Len(Lx[h]) - m = Len(L[h]) - (k - 1)
        BY <2>2, <2>5 DEF Half
      <4>3. Lx[h] \in Seq(Node) /\ Len(Lx[h]) \in Nat
        BY <4>1, ListShape
      <4>4. ~(m < Len(Lx[h]))
        <5>1. m < Len(Lx[h]) => Lx[h][m + 1] \in Node
          BY <4>3
        <5> QED BY <2>5, <4>1, <5>1 DEF Reached
      <4>5. m <= Len(Lx[h])
        BY <4>1, <4>3 DEF Reached
      <4>6. Len(L[h]) < c
        BY <1>1, <1>2, <1>3, <2>1, <4>1, <4>3, <4>4, <4>5
      <4>7. h \in s.ends.short
        BY <1>1, <1>3, <4>6 DEF Within
      <4>8. ~Exact(s)
        BY <1>1, <1>3, <4>6 DEF Counted
      <4> QED BY <4>1, <4>7, <4>8 DEF Exact, Apart
    <3> DEFINE z == Step(x)
    <3>3. /\ Core(z, Lx) /\ Apart(x, Lx, z, Lx, h) /\ z.trap = x.trap /\ ~z.ok /\ ~Exact(z)
      <4>1. z = Pass(x, h) /\ Core(x, Lx) /\ h \in Header
        BY <2>2, <3>1 DEF Half
      <4> HIDE DEF z
      <4> QED BY ONLY <3>2, <4>1, PassedKeeps
    <3> HIDE DEF Step
    <3>4. Apart(s, L, z, Lx, h)
      BY <2>2, <3>3, ApartTwice DEF Half
    <3>5. ValidIn(z, h)
      BY <2>2, <3>3 DEF Half, ValidIn
    <3>6. Half(s, L, h, M, k, z, Lx, m)
      BY <2>2, <3>3, <3>4, <3>5 DEF Half, CountIn
    <3> QED BY <3>6
  <2> QED BY <2>3, <2>4, <2>5
<1> DEFINE F == [y \in (1 .. n) \X CallState |-> Step(y[2])]
<1>7. ASSUME NEW k \in 1 .. n, NEW x \in P[k - 1] PROVE x \in CallState /\ F[<<k, x>>] = Step(x)
  <2>1. k - 1 \in 0 .. n
    BY <1>2
  <2>2. x \in CallState
    <3> HIDE DEF Step
    <3> QED BY <2>1
  <2> HIDE DEF Step, P
  <2> QED BY <2>2
<1> HIDE DEF P, Step, F, s1
<1>8. PICK f : LoopOf(f, n, s1, F) /\ Passes(f, n, P)
  <2>1. Leads(n, P, F)
    BY <1>6, <1>7 DEF Leads
  <2>2. n \in Nat /\ s1 \in P[0]
    BY <1>2, <1>5
  <2> QED BY ONLY <2>1, <2>2, LoopExists
<1>9. f = [k \in 0 .. n |-> IF k = 0 THEN s1 ELSE Step(f[k - 1])]
  <2>1. \A k \in 0 .. n : k # 0 => F[<<k, f[k - 1]>>] = Step(f[k - 1])
    <3> TAKE k \in 0 .. n
    <3>1. k # 0 => k \in 1 .. n /\ k - 1 \in 0 .. n
      BY <1>2
    <3> QED BY <1>7, <1>8, <3>1 DEF Passes
  <2> QED BY <1>8, <2>1 DEF LoopOf
<1> DEFINE g == CHOOSE g : g = [k \in 0 .. n |-> IF k = 0 THEN s1 ELSE Step(g[k - 1])]
<1>10. g = [k \in 0 .. n |-> IF k = 0 THEN s1 ELSE Step(g[k - 1])]
  BY <1>9
<1>11. r = g[n]
  BY Zenon DEF DropUnmarked, WalkCounted, Loop, Step, s1, n, CountIn, SweepBody, Marked, Removed, Shrunk, DropElement
<1> HIDE DEF g
<1>12. g[n] \in P[n]
  <2>1. g[0] \in P[0]
    BY <1>2, <1>5, <1>10
  <2>2. ASSUME NEW k \in 1 .. n, g[k - 1] \in P[k - 1] PROVE g[k] \in P[k]
    <3>1. k \in 0 .. n /\ k # 0
      BY <1>2
    <3>2. g[k] = Step(g[k - 1])
      BY <1>10, <3>1
    <3> QED BY <1>6, <2>2, <3>2
  <2> QED BY <1>2, <2>1, <2>2, LoopKeeps
<1>13. PICK L2 \in [Header -> Seq(Node)], m \in Nat : Half(s, L, h, M, n, r, L2, m)
  <2>1. n \in 0 .. n
    BY <1>2
  <2> QED BY <1>11, <1>12, <2>1 DEF P
<1>14. ASSUME Exact(r)
       PROVE  /\ r.ok /\ Counted(r, L2, h) /\ DataIn(r, L2[h]) = M
              /\ \A e \in Elems(L2[h]) : ~r.cell[e].valid
  <2>1. /\ r.ok /\ Core(r, L2) /\ Apart(s, L, r, L2, h) /\ Swept(r, L2[h], m, M)
        /\ Len(L2[h]) - m = Len(L[h]) - n
        /\ CountIn(r, h) - Len(L2[h]) = CountIn(s, h) - Len(L[h])
    BY <1>13, <1>14 DEF Half
  <2>2. c = Len(L[h])
    <3>1. Exact(s)
      BY <1>14, <2>1 DEF Exact, Apart
    <3> QED BY <3>1 DEF Counted
  <2>3. /\ L2[h] \in Seq(Node) /\ Len(L2[h]) \in Nat /\ DOMAIN L2[h] = 1 .. Len(L2[h])
    BY <2>1, ListShape
  <2>4. m = Len(L2[h])
    BY <1>2, <1>3, <2>1, <2>2, <2>3
  <2>5. CountIn(r, h) \in Int
    <3>1. h[1] \in Trap /\ h[2] \in Intf /\ r.trap \in [Trap -> TrapEntry]
      BY <2>1, Headers, Fields DEF Core
    <3> QED BY <3>1 DEF CountIn, TrapEntry
  <2>6. Counted(r, L2, h)
    BY <1>3, <2>1, <2>2, <2>3, <2>5 DEF Counted
  <2>7. \A e \in Elems(L2[h]) : ~r.cell[e].valid /\ r.cell[e].data \in M
    BY <2>1, <2>3, <2>4 DEF Swept, Elems
  <2>8. DataIn(r, L2[h]) = M
    BY <2>1, <2>7 DEF DataIn, Swept
  <2> QED BY <2>1, <2>6, <2>7, <2>8
<1>15. Within(r, L2, h)
  <2>1. /\ Core(r, L2) /\ ValidIn(r, h) /\ s.ends.short \subseteq r.ends.short
        /\ CountIn(r, h) - Len(L2[h]) = CountIn(s, h) - Len(L[h])
    BY <1>13 DEF Half, Apart
  <2>2. Len(L2[h]) \in Nat /\ CountIn(r, h) \in Int
    <3>1. h[1] \in Trap /\ h[2] \in Intf /\ r.trap \in [Trap -> TrapEntry]
      BY <2>1, Headers, Fields DEF Core
    <3>2. CountIn(r, h) \in Int
      BY <3>1 DEF CountIn, TrapEntry
    <3> QED BY <2>1, <3>2, ListShape
  <2> QED BY <1>1, <1>3, <2>1, <2>2 DEF Within
<1>16. SweptAll(s, L, h, M, r, L2)
  BY <1>13, <1>14, <1>15 DEF Half, SweptAll
<1> QED BY <1>16

-----------------------------------------------------------------------------
(* The lists after the first.                                              *)

\* A list set after the first: what it has is marked no more, the members
\* of the new list are on it, and others only if they were marked before.
NextTo(s, L, h, list, r, L2) ==
  /\ Core(r, L2) /\ Apart(s, L, r, L2, h) /\ Within(r, L2, h)
  /\ Exact(r) => /\ r.ok /\ Counted(r, L2, h)
                 /\ \A n \in Elems(L2[h]) : ~r.cell[n].valid
                 /\ Members(list) \subseteq DataIn(r, L2[h])
                 /\ DataIn(r, L2[h]) \subseteq MarkedData(s, L[h]) \cup Members(list)

LEMMA NextListKeeps ==
  ASSUME NEW s, NEW L, Core(s, L), s.ok, NEW h \in Header, ValidIn(s, h),
         NEW list \in Lists(h[2]), Within(s, L, h), Exact(s) => Counted(s, L, h),
         NEW r, r = NextList(s, h[1], h[2], list)
  PROVE  \E L2 \in [Header -> Seq(Node)] : NextTo(s, L, h, list, r, L2)
<1> DEFINE u == MarkMembers(s, h[1], h[2], list)
           M == MarkedData(s, L[h]) \cup Members(list)
<1>1. r = IF list = <<>> THEN EmptyList(s, h[1], h[2])
          ELSE IF u.ok THEN DropUnmarked(u, h[1], h[2]) ELSE u
  BY DEF NextList
<1>2. CASE list = <<>>
  <2>1. r = EmptyList(s, h[1], h[2])
    BY <1>1, <1>2
  <2>2. PICK L2 \in [Header -> Seq(Node)] : SetTo(s, L, h, <<>>, r, L2)
    BY <2>1, EmptyListKeeps
  <2>3. Members(list) = {} /\ Members(<<>>) = {}
    BY <1>2 DEF Members
  <2>4. ASSUME Exact(r) PROVE /\ r.ok /\ Counted(r, L2, h) /\ DataIn(r, L2[h]) = {}
    BY <2>2, <2>3, <2>4 DEF SetTo
  <2>5. ASSUME Exact(r) PROVE Elems(L2[h]) = {}
    BY <2>4, <2>5 DEF DataIn
  <2>6. NextTo(s, L, h, list, r, L2)
    BY <2>2, <2>3, <2>4, <2>5 DEF NextTo, SetTo
  <2> QED BY <2>6
<1>3. CASE list # <<>>
  <2> HIDE DEF u, M
  <2>1. PICK L1 \in [Header -> Seq(Node)] : AllMarked(s, L, h, list, u, L1)
    BY MembersMarked DEF u
  <2>2. /\ Core(u, L1) /\ Apart(s, L, u, L1, h) /\ ValidIn(u, h)
        /\ Exact(u) => u.ok
        /\ Within(u, L1, h)
        /\ u.ok => /\ CountIn(u, h) - Len(L1[h]) = CountIn(s, h) - Len(L[h])
                   /\ DataIn(u, L1[h]) = DataIn(s, L[h]) \cup Members(list)
                   /\ Marks(u, L1[h], M)
    BY <2>1 DEF AllMarked, M
  <2>3. CASE ~u.ok
    <3>1. r = u /\ ~Exact(r)
      BY <1>1, <1>3, <2>2, <2>3
    <3>2. NextTo(s, L, h, list, r, L1)
      BY <2>2, <3>1 DEF NextTo
    <3> QED BY <3>2
  <2>4. CASE u.ok
    <3>1. r = DropUnmarked(u, h[1], h[2])
      BY <1>1, <1>3, <2>4
    <3>2. M \subseteq DataIn(u, L1[h])
      BY <2>2, <2>4, MarksAre DEF M
    <3>3. Exact(u) => Counted(u, L1, h)
      <4> SUFFICES ASSUME Exact(u) PROVE Counted(u, L1, h)
        OBVIOUS
      <4>1. Exact(s)
        BY <2>2 DEF Exact, Apart
      <4>2. CountIn(s, h) = Len(L[h])
        BY <4>1 DEF Counted
      <4>3. CountIn(u, h) \in Int
        <5>1. h[1] \in Trap /\ h[2] \in Intf /\ u.trap \in [Trap -> TrapEntry]
          BY <2>2, Headers, Fields DEF Core
        <5> QED BY <5>1 DEF CountIn, TrapEntry
      <4>4. Len(L1[h]) \in Nat /\ Len(L[h]) \in Nat
        BY <2>2, ListShape
      <4>5. CountIn(u, h) - Len(L1[h]) = CountIn(s, h) - Len(L[h])
        BY <2>2, <2>4
      <4> QED BY <4>2, <4>3, <4>4, <4>5 DEF Counted
    <3>4. PICK L2 \in [Header -> Seq(Node)] : SweptAll(u, L1, h, M, r, L2)
      <4>1. Core(u, L1) /\ u.ok /\ h \in Header /\ ValidIn(u, h) /\ Marks(u, L1[h], M)
            /\ Within(u, L1, h)
        BY <2>2, <2>4
      <4> QED BY ONLY <3>1, <3>2, <3>3, <4>1, UnmarkedDropped
    <3>5. Apart(s, L, r, L2, h)
      BY <2>2, <3>4, ApartTwice DEF SweptAll
    <3>6. NextTo(s, L, h, list, r, L2)
      BY <3>4, <3>5 DEF SweptAll, NextTo, M
    <3> QED BY <3>6
  <2> QED BY <2>3, <2>4
<1> QED BY <1>2, <1>3

\* A call that sets the list of header h, all of it.
ServedTo(s, L, h, A, R, r, L2) ==
  /\ Core(r, L2) /\ Apart(s, L, r, L2, h) /\ Within(r, L2, h)
  /\ Exact(r) => Served(r, L2, h, A, R)

LEMMA ListSetKeeps ==
  ASSUME NEW s, NEW L, Core(s, L), s.ok, NEW h \in Header,
         NEW list \in Lists(h[2]), NEW A, NEW R, R[h] \in 0 .. 2,
         Within(s, L, h), Exact(s) => Served(s, L, h, A, R),
         NEW A2, A2[h] = Members(list),
         NEW R2, R2[h] = IF ~ValidIn(s, h) THEN 0 ELSE IF R[h] = 2 THEN 2 ELSE R[h] + 1,
         NEW r, r = ListSet(s, h[1], h[2], list)
  PROVE  \E L2 \in [Header -> Seq(Node)] : ServedTo(s, L, h, A2, R2, r, L2)
<1> DEFINE u == IF ValidIn(s, h) THEN NextList(s, h[1], h[2], list)
                ELSE FirstList(s, h[1], h[2], list)
           a == FlowAction(u.trap[h[1]].action)
<1>1. r = IF u.ok /\ u.trap[h[1]].notSet[h[2]] /\ CountIn(u, h) # 0
          THEN ApplyAll(u, h[1], h[2]) ELSE u
  BY Zenon DEF ListSet, ValidIn, CountIn
<1>2. \E L1 \in [Header -> Seq(Node)] :
         /\ Core(u, L1) /\ Apart(s, L, u, L1, h) /\ Within(u, L1, h)
         /\ Exact(u) => u.ok /\ Counted(u, L1, h) /\ AsAsked(u, L1, h, A2, R2)
  <2>1. CASE ValidIn(s, h)
    <3>1. u = NextList(s, h[1], h[2], list)
      BY <2>1
    <3> HIDE DEF u
    <3>2. Exact(s) => Counted(s, L, h)
      BY DEF Served
    <3>3. PICK L1 \in [Header -> Seq(Node)] : NextTo(s, L, h, list, u, L1)
      BY <2>1, <3>1, <3>2, NextListKeeps
    <3>4. ASSUME Exact(u) PROVE AsAsked(u, L1, h, A2, R2)
      <4>1. /\ \A n \in Elems(L1[h]) : ~u.cell[n].valid
            /\ Members(list) \subseteq DataIn(u, L1[h])
            /\ DataIn(u, L1[h]) \subseteq MarkedData(s, L[h]) \cup Members(list)
        BY <3>3, <3>4 DEF NextTo
      <4>2. ASSUME R2[h] # 1 PROVE DataIn(u, L1[h]) = Members(list)
        <5>1. R[h] # 0
          BY <2>1, <4>2
        <5>2. Exact(s)
          BY <3>3, <3>4 DEF NextTo, Apart, Exact
        <5>3. \A n \in Elems(L[h]) : ~s.cell[n].valid
          BY <5>1, <5>2 DEF Served, AsAsked
        <5>4. MarkedData(s, L[h]) = {}
          BY <5>3 DEF MarkedData
        <5> QED BY <4>1, <5>4
      <4> QED BY <4>1, <4>2 DEF AsAsked
    <3>5. /\ Core(u, L1) /\ Apart(s, L, u, L1, h) /\ Within(u, L1, h)
          /\ Exact(u) => u.ok /\ Counted(u, L1, h) /\ AsAsked(u, L1, h, A2, R2)
      BY <3>3, <3>4 DEF NextTo
    <3> QED BY <3>5
  <2>2. CASE ~ValidIn(s, h)
    <3>1. u = FirstList(s, h[1], h[2], list)
      BY <2>2
    <3> HIDE DEF u
    <3>2. PICK L1 \in [Header -> Seq(Node)] : SetTo(s, L, h, list, u, L1)
      BY <2>2, <3>1, FirstListKeeps
    <3>3. R2[h] = 0
      BY <2>2
    <3>4. ASSUME Exact(u) PROVE u.ok /\ Counted(u, L1, h) /\ AsAsked(u, L1, h, A2, R2)
      BY <3>2, <3>3, <3>4 DEF SetTo, AsAsked
    <3>5. /\ Core(u, L1) /\ Apart(s, L, u, L1, h) /\ Within(u, L1, h)
          /\ Exact(u) => u.ok /\ Counted(u, L1, h) /\ AsAsked(u, L1, h, A2, R2)
      BY <3>2, <3>4 DEF SetTo
    <3> QED BY <3>5
  <2> QED BY <2>1, <2>2
<1> HIDE DEF u
<1>3. PICK L1 \in [Header -> Seq(Node)] :
         /\ Core(u, L1) /\ Apart(s, L, u, L1, h) /\ Within(u, L1, h)
         /\ Exact(u) => u.ok /\ Counted(u, L1, h) /\ AsAsked(u, L1, h, A2, R2)
  BY <1>2
<1>4. CASE u.ok /\ u.trap[h[1]].notSet[h[2]] /\ CountIn(u, h) # 0
  <2>1. r = ApplyAll(u, h[1], h[2])
    BY <1>1, <1>4
  <2> HIDE DEF a
  <2>2. /\ Core(r, L1) /\ Apart(u, L1, r, L1, h)
        /\ r.trap = u.trap /\ r.cell = u.cell
        /\ Exact(r) => (r.ok \/ a = "unsupported")
        /\ (Exact(r) /\ r.ok) =>
             \A n \in Elems(L1[h]) : FlowFor(r, h, u.cell[n].data).action = a
    <3>1. Core(u, L1) /\ u.ok /\ h \in Header
      BY <1>3, <1>4
    <3>2. Within(u, L1, h) /\ (Exact(u) => Counted(u, L1, h))
      BY <1>3
    <3>3. a = FlowAction(u.trap[h[1]].action)
      BY DEF a
    <3>4. AppliedTo(u, L1, h, a, r)
      BY ONLY <2>1, <3>1, <3>2, <3>3, AllApplied
    <3> QED BY <3>4 DEF AppliedTo
  <2>3. Apart(s, L, r, L1, h)
    BY <1>3, <2>2, ApartTwice
  <2>4. ASSUME Exact(r) PROVE Served(r, L1, h, A2, R2)
    <3>1. Exact(u)
      BY <2>2, <2>4 DEF Exact, Apart
    <3>2. Counted(r, L1, h) /\ AsAsked(r, L1, h, A2, R2)
      BY <1>3, <2>2, <3>1 DEF Counted, AsAsked, CountIn, DataIn
    <3>3. Follows(r, L1, h)
      <4>1. FlowAction(r.trap[h[1]].action) = a
        BY <2>2 DEF a
      <4> QED BY <2>2, <2>4, <4>1 DEF Follows
    <3> QED BY <3>2, <3>3 DEF Served
  <2>5. Within(r, L1, h)
    BY <1>3, <2>2 DEF Within, Apart, CountIn, ValidIn
  <2>6. ServedTo(s, L, h, A2, R2, r, L1)
    BY <2>2, <2>3, <2>4, <2>5 DEF ServedTo
  <2> QED BY <2>6
<1>5. CASE ~(u.ok /\ u.trap[h[1]].notSet[h[2]] /\ CountIn(u, h) # 0)
  <2>1. r = u
    BY <1>1, <1>5
  <2>2. ASSUME Exact(u) PROVE Follows(u, L1, h)
    <3>1. u.ok /\ Counted(u, L1, h)
      BY <1>3, <2>2
    <3>2. CASE ~u.trap[h[1]].notSet[h[2]]
      BY <3>2 DEF Follows
    <3>3. CASE CountIn(u, h) = 0
      <4>1. Len(L1[h]) = 0 /\ L1[h] \in Seq(Node)
        BY <3>1, <3>3 DEF Counted
      <4>2. Elems(L1[h]) = {}
        BY <4>1 DEF Elems
      <4> QED BY <4>2 DEF Follows
    <3> QED BY <1>5, <3>1, <3>2, <3>3
  <2>3. ServedTo(s, L, h, A2, R2, r, L1)
    BY <1>3, <2>1, <2>2 DEF ServedTo, Served
  <2> QED BY <2>3
<1> QED BY <1>4, <1>5

-----------------------------------------------------------------------------
(* The action of a trap that lists nothing itself.                         *)

HeadersOf(t) == {h \in Header : h[1] = t}

\* Attributes of a trap changed, its lists left alone.
LEMMA ToldKeeps ==
  ASSUME NEW s, NEW L, Core(s, L), NEW z \in CallState,
         z.mem = s.mem, z.cell = s.cell, z.flow = s.flow, z.ends = s.ends,
         z.failed = s.failed, \A g \in Header : ValidIn(z, g) <=> ValidIn(s, g)
  PROVE  Core(z, L)
<1>1. Shape(z, L)
  BY ShapeSame
<1>2. Exact(z) => Accounted(z, L)
  BY DEF Core, Exact, Accounted, FlowFor, DataIn
<1> QED BY <1>1, <1>2 DEF Core

LEMMA OthersTold ==
  ASSUME NEW s, NEW L, NEW z, NEW t \in Trap, z.cell = s.cell, z.flow = s.flow, z.ends = s.ends,
         z.failed = s.failed, \A u \in Trap \ {t} : z.trap[u] = s.trap[u],
         NEW A, NEW R, Others(s, L, {}, A, R)
  PROVE  Others(z, L, HeadersOf(t), A, R)
<1> SUFFICES ASSUME NEW g \in Header \ HeadersOf(t), g[1] \notin SystemTrap
             PROVE  Within(z, L, g) /\ (Exact(z) => Served(z, L, g, A, R))
  BY DEF Others
<1>1. Within(s, L, g) /\ (Exact(z) => Served(s, L, g, A, R))
  BY DEF Exact, Others
<1>2. z.trap[g[1]] = s.trap[g[1]]
  BY Headers DEF HeadersOf
<1>3. CountIn(z, g) = CountIn(s, g) /\ (ValidIn(z, g) <=> ValidIn(s, g))
  BY <1>2 DEF CountIn, ValidIn
<1>4. DataIn(z, L[g]) = DataIn(s, L[g])
  BY DEF DataIn
<1>5. \A pv : FlowFor(z, g, pv) = FlowFor(s, g, pv)
  BY DEF FlowFor
<1>6. Exact(z) => Counted(z, L, g) /\ AsAsked(z, L, g, A, R)
  BY <1>1, <1>3, <1>4 DEF Served, Counted, AsAsked
<1>7. Exact(z) => Follows(z, L, g)
  BY <1>1, <1>2, <1>5 DEF Served, Follows
<1>8. Within(z, L, g)
  BY <1>1, <1>3 DEF Within
<1> QED BY <1>6, <1>7, <1>8 DEF Served

\* The lists of a protocol of the system are held to nothing.
LEMMA OthersOfSystem ==
  ASSUME NEW t \in SystemTrap, NEW r, NEW L, NEW A, NEW R, Others(r, L, HeadersOf(t), A, R)
  PROVE  Others(r, L, {}, A, R)
BY DEF Others, HeadersOf

\* The trap told its action and its list marked as set.
SystemTold(s, t, a) ==
  [s EXCEPT !.trap[t] = [@ EXCEPT !.action = a, !.valid["port"] = TRUE]]

LEMMA SystemToldIs ==
  ASSUME NEW s \in CallState, NEW t \in Trap, NEW a \in PacketAction,
         NEW h, h = <<t, "port">>, NEW r, r = SystemTold(s, t, a)
  PROVE  /\ r \in CallState /\ r.mem = s.mem /\ r.cell = s.cell /\ r.flow = s.flow
         /\ r.ends = s.ends /\ r.failed = s.failed /\ r.ok = s.ok
         /\ \A u \in Trap \ {t} : r.trap[u] = s.trap[u]
         /\ \A g \in Header : ValidIn(r, g) <=> (ValidIn(s, g) \/ g = h)
<1> DEFINE w == [u \in Trap |->
                   IF u = t THEN [s.trap[u] EXCEPT !.action = a, !.valid = [@ EXCEPT !["port"] = TRUE]]
                   ELSE s.trap[u]]
<1>1. s.trap \in [Trap -> TrapEntry] /\ \A u \in Trap : s.trap[u] \in TrapEntry
  BY Fields
<1>2. r = [s EXCEPT !.trap = w]
  <2> DEFINE v == [s.trap EXCEPT ![t] = [@ EXCEPT !.action = a, !.valid["port"] = TRUE]]
  <2>1. r = [s EXCEPT !.trap = v]
    BY DEF SystemTold, CallState
  <2>2. v = w
    BY <1>1 DEF TrapEntry
  <2> QED BY <2>1, <2>2
<1>3. \A u \in Trap : w[u] \in TrapEntry
  BY <1>1 DEF TrapEntry
<1>4. w \in [Trap -> TrapEntry]
  <2>1. w = [u \in Trap |-> w[u]]
    OBVIOUS
  <2> HIDE DEF w
  <2> QED BY <1>3, <2>1
<1>5. \A u \in Trap \ {t} : w[u] = s.trap[u]
  OBVIOUS
<1>6. ASSUME NEW g \in Header PROVE w[g[1]].valid[g[2]] <=> (s.trap[g[1]].valid[g[2]] \/ g = h)
  <2>1. g[1] \in Trap /\ g[2] \in Intf /\ g = <<g[1], g[2]>>
    BY Headers
  <2>2. CASE g[1] # t
    <3>1. g # h
      BY <2>2
    <3>2. w[g[1]] = s.trap[g[1]]
      BY <1>5, <2>1, <2>2
    <3> QED BY <3>1, <3>2
  <2>3. CASE g[1] = t /\ g[2] = "port"
    <3>1. g = h
      BY <2>1, <2>3
    <3>2. w[g[1]].valid[g[2]] = TRUE
      BY <1>1, <2>1, <2>3 DEF TrapEntry, Intf
    <3> QED BY <3>1, <3>2
  <2>4. CASE g[1] = t /\ g[2] # "port"
    <3>1. g # h
      BY <2>4
    <3>2. w[g[1]].valid[g[2]] = s.trap[g[1]].valid[g[2]]
      BY <1>1, <2>1, <2>4 DEF TrapEntry, Intf
    <3> QED BY <3>1, <3>2
  <2> QED BY <2>2, <2>3, <2>4
<1> HIDE DEF w
<1>7. /\ r \in CallState /\ r.trap = w /\ r.mem = s.mem /\ r.cell = s.cell /\ r.flow = s.flow
      /\ r.ends = s.ends /\ r.failed = s.failed /\ r.ok = s.ok
  BY <1>2, <1>4 DEF CallState
<1> QED BY <1>5, <1>6, <1>7 DEF ValidIn

\* The memory with the list of h started, that with x at its head.
WithList(s, h) == [s EXCEPT !.mem = ListInit(@, h)]

LEMMA WithListIs ==
  ASSUME NEW s \in CallState, NEW h \in Header, NEW r, r = WithList(s, h)
  PROVE  /\ r \in CallState /\ r.trap = s.trap /\ r.mem = ListInit(s.mem, h)
         /\ r.cell = s.cell /\ r.flow = s.flow /\ r.ends = s.ends /\ r.failed = s.failed
         /\ r.ok = s.ok
<1> DEFINE m == ListInit(s.mem, h)
<1>1. m \in Memory
  BY Fields, RingInit
<1>2. r = [s EXCEPT !.mem = m]
  BY DEF WithList, CallState
<1> HIDE DEF m
<1>3. /\ r \in CallState /\ r.trap = s.trap /\ r.mem = m
      /\ r.cell = s.cell /\ r.flow = s.flow /\ r.ends = s.ends /\ r.failed = s.failed
      /\ r.ok = s.ok
  BY <1>1, <1>2 DEF CallState
<1> QED BY <1>3 DEF m

\* The first change of the action of a protocol of the system.
LEMMA FirstFlow ==
  ASSUME NEW s, NEW L, Core(s, L), s.ok, NEW h \in Header, ValidIn(s, h), L[h] = <<>>,
         NEW r, r = Added(s, h[1], h[2], 0, FALSE, 0,
                          InsertToHead(Malloc(s, 0, FALSE).mem, h, NewCell(s)))
  PROVE  \E L2 \in [Header -> Seq(Node)] : Core(r, L2) /\ Apart(s, L, r, L2, h)
<1> DEFINE d == 0
           v == FALSE
           c == 0
           p == 0
           x == NewCell(s)
           made == Malloc(s, d, v)
           m == InsertToHead(made.mem, h, x)
<1>1. d \in PortVlan /\ v \in BOOLEAN /\ c \in Int /\ s \in CallState
  BY PortVlanNat DEF Core
<1>2. d \notin DataIn(s, L[h])
  BY DEF DataIn, Elems
<1>3. r = Added(s, h[1], h[2], d, v, c, m)
  OBVIOUS
<1>4. ASSUME made.ok PROVE Place(s, L[h], p, d) /\ m = LinkedAt(s, h, L[h], p, x)
  <2>1. Place(s, L[h], p, d)
    BY DEF Place
  <2>2. made.mem = s.mem
    <3> HIDE DEF d, v, made
    <3>1. made = Fail(s) \/ made.mem = s.mem
      BY <1>1, MallocIs DEF made
    <3> QED BY <1>1, <1>4, <3>1, FailIs
  <2>3. Ring(s.mem, h, <<>>)
    BY ListShape
  <2>4. s.mem[At(h, <<>>, 0)].next = At(h, <<>>, 0 + 1)
    BY <2>3 DEF Ring
  <2>5. At(h, <<>>, 0) = h /\ At(h, <<>>, 0 + 1) = h
    BY DEF At
  <2>6. m = PrvInsert(s.mem, h, s.mem[h].next, x)
    BY <2>2 DEF InsertToHead
  <2>7. m = PrvInsert(s.mem, At(h, <<>>, 0), At(h, <<>>, 0 + 1), x)
    BY <2>4, <2>5, <2>6
  <2> QED BY <2>1, <2>7 DEF LinkedAt
<1> HIDE DEF m, x, made, d, v, c, p
<1>5. Fits(s, L, h, d, v, p, m)
  BY <1>4 DEF Fits, made, x
<1>6. Core(s, L) /\ s.ok /\ h \in Header /\ ValidIn(s, h)
  OBVIOUS
<1>7. PICK L2 \in [Header -> Seq(Node)] : AddedTo(s, L, h, d, v, c, r, L2)
  BY ONLY <1>1, <1>2, <1>3, <1>5, <1>6, AddedKeeps
<1> QED BY <1>7 DEF AddedTo

-----------------------------------------------------------------------------
(* The action of a protocol of the system.                                 *)

\* A call that leaves all lists but those of X as they should be.
CallTo(L2, X, A, R, r) == Core(r, L2) /\ Others(r, L2, X, A, R)

\* The action of a protocol of the system set.
LEMMA SystemActionKeeps ==
  ASSUME NEW s, NEW L, Core(s, L), s.ok, NEW t \in Trap, t \in SystemTrap,
         NEW a \in PacketAction, NEW A, NEW R, Others(s, L, {}, A, R),
         NEW r, r = SystemActionSet(s, t, a)
  PROVE  \E L2 \in [Header -> Seq(Node)] : CallTo(L2, {}, A, R, r)
<1> DEFINE h == <<t, "port">>
           X == HeadersOf(t)
           s1 == SystemTold(s, t, a)
           s2 == IF ValidIn(s, h) THEN s1
                 ELSE Added(WithList(s1, h), h[1], h[2], 0, FALSE, 0,
                        InsertToHead(Malloc(WithList(s1, h), 0, FALSE).mem, h,
                                     NewCell(WithList(s1, h))))
<1>1. s \in CallState /\ L \in [Header -> Seq(Node)]
  BY DEF Core, Shape
<1>2. h \in Header /\ h[1] = t /\ h[2] = "port" /\ h \in X
  BY HeaderOf DEF Intf, HeadersOf
<1>3. r = IF s.trap[t].action = a THEN s
          ELSE IF s2.ok THEN FlowApply(s2, h[1], h[2], 0) ELSE s2
  <2> DEFINE z == WithList(s1, <<t, "port">>)
             y == IF s.trap[t].valid["port"] THEN s1
                  ELSE Added(z, t, "port", 0, FALSE, 0,
                         InsertToHead(Malloc(z, 0, FALSE).mem, <<t, "port">>, NewCell(z)))
  <2>1. r = IF s.trap[t].action = a THEN s
            ELSE IF y.ok THEN FlowApply(y, t, "port", 0) ELSE y
    BY Zenon DEF SystemActionSet, SystemTold, WithList, Added, AddElement, Changed
  <2>2. y = s2
    BY <1>2 DEF ValidIn
  <2> HIDE DEF y, s2
  <2> QED BY <1>2, <2>1, <2>2
<1> HIDE DEF s1, s2
<1>4. /\ s1 \in CallState /\ s1.mem = s.mem /\ s1.cell = s.cell /\ s1.flow = s.flow
      /\ s1.ends = s.ends /\ s1.failed = s.failed /\ s1.ok = s.ok
      /\ \A u \in Trap \ {t} : s1.trap[u] = s.trap[u]
      /\ \A g \in Header : ValidIn(s1, g) <=> (ValidIn(s, g) \/ g = h)
  <2>1. s1 = SystemTold(s, t, a) /\ h = <<t, "port">>
    BY DEF s1
  <2> HIDE DEF h
  <2>2. /\ s1 \in CallState /\ s1.mem = s.mem /\ s1.cell = s.cell /\ s1.flow = s.flow
        /\ s1.ends = s.ends /\ s1.failed = s.failed /\ s1.ok = s.ok
    BY ONLY <1>1, <2>1, t \in Trap, a \in PacketAction, SystemToldIs
  <2>3. \A u \in Trap \ {t} : s1.trap[u] = s.trap[u]
    BY ONLY <1>1, <2>1, t \in Trap, a \in PacketAction, SystemToldIs
  <2>4. \A g \in Header : ValidIn(s1, g) <=> (ValidIn(s, g) \/ g = h)
    BY ONLY <1>1, <2>1, t \in Trap, a \in PacketAction, SystemToldIs
  <2> QED BY <2>2, <2>3, <2>4
<1> HIDE DEF h, X
<1>5. CASE s.trap[t].action = a
  BY <1>1, <1>3, <1>5 DEF CallTo
<1>6. CASE s.trap[t].action # a
  <2>1. PICK L2 \in [Header -> Seq(Node)] : Core(s2, L2) /\ Others(s2, L2, X, A, R)
    <3>1. CASE ValidIn(s, h)
      <4>1. s2 = s1
        BY <3>1 DEF s2
      <4>2. \A g \in Header : ValidIn(s1, g) <=> ValidIn(s, g)
        BY <1>4, <3>1
      <4>3. Core(s1, L)
        BY <1>4, <4>2, ToldKeeps
      <4>4. Others(s1, L, X, A, R)
        BY <1>4, OthersTold DEF X
      <4> QED BY <1>1, <4>1, <4>3, <4>4
    <3>2. CASE ~ValidIn(s, h)
      <4> DEFINE z == WithList(s1, h)
      <4>1. s2 = Added(z, h[1], h[2], 0, FALSE, 0,
                       InsertToHead(Malloc(z, 0, FALSE).mem, h, NewCell(z)))
        BY <3>2 DEF s2
      <4>2. /\ z \in CallState /\ z.trap = s1.trap /\ z.mem = ListInit(s1.mem, h)
            /\ z.cell = s1.cell /\ z.flow = s1.flow /\ z.ends = s1.ends
            /\ z.failed = s1.failed /\ z.ok = s1.ok
        <5>1. s1 \in CallState /\ h \in Header /\ z = WithList(s1, h)
          BY <1>2, <1>4
        <5> QED BY ONLY <5>1, WithListIs
      <4> HIDE DEF z
      <4>3. /\ z.mem = ListInit(s.mem, h) /\ z.cell = s.cell /\ z.flow = s.flow
            /\ z.ends = s.ends /\ z.failed = s.failed /\ z.ok
            /\ \A u \in Trap \ {t} : z.trap[u] = s.trap[u]
        BY <1>4, <4>2
      <4>4. \A g \in Header : ValidIn(z, g) <=> (ValidIn(s, g) \/ g = h)
        BY <1>4, <4>2 DEF ValidIn
      <4>5. Core(z, L) /\ L[h] = <<>>
        BY <1>2, <3>2, <4>2, <4>3, <4>4, RingStarted
      <4>6. Others(z, L, X, A, R)
        BY <4>3, OthersTold DEF X
      <4>7. ValidIn(z, h)
        BY <1>2, <4>4
      <4>8. PICK L2 \in [Header -> Seq(Node)] : Core(s2, L2) /\ Apart(z, L, s2, L2, h)
        BY <1>2, <4>1, <4>3, <4>5, <4>7, FirstFlow
      <4>9. Others(s2, L2, X, A, R)
        BY <1>2, <4>5, <4>6, <4>8, OthersFrame
      <4> QED BY <4>8, <4>9
    <3> QED BY <3>1, <3>2
  <2>2. CASE ~s2.ok
    <3>1. r = s2
      BY <1>3, <1>6, <2>2
    <3> QED BY <2>1, <3>1, OthersOfSystem DEF CallTo, X
  <2>3. CASE s2.ok
    <3> DEFINE d == 0
               b == FlowAction(s2.trap[h[1]].action)
    <3>1. r = FlowApply(s2, h[1], h[2], d) /\ d \in PortVlan
      BY <1>3, <1>6, <2>3, PortVlanNat
    <3>2. b = FlowAction(s2.trap[h[1]].action)
      OBVIOUS
    <3> HIDE DEF d, b
    <3>3. Core(r, L2) /\ Apart(s2, L2, r, L2, h)
      BY ONLY <1>2, <2>1, <2>3, <3>1, <3>2, AppliedKeeps
    <3>4. Others(r, L2, X, A, R)
      BY <1>2, <2>1, <3>3, OthersFrame
    <3> QED BY <3>3, <3>4, OthersOfSystem DEF CallTo, X
  <2> QED BY <2>2, <2>3
<1> QED BY <1>5, <1>6

\* The trap told its action and the lists it is to be applied to later.
ListedTold(s, t, a) ==
  [s EXCEPT !.trap[t] = [@ EXCEPT !.action = a, !.notSet = LateAction(s, t)]]

LEMMA ListedToldIs ==
  ASSUME NEW s \in CallState, NEW t \in Trap, NEW a \in PacketAction,
         NEW r, r = ListedTold(s, t, a)
  PROVE  /\ r \in CallState /\ r.mem = s.mem /\ r.cell = s.cell /\ r.flow = s.flow
         /\ r.ends = s.ends /\ r.failed = s.failed /\ r.ok = s.ok
         /\ \A u \in Trap \ {t} : r.trap[u] = s.trap[u]
         /\ \A g \in Header : ValidIn(r, g) = ValidIn(s, g) /\ CountIn(r, g) = CountIn(s, g)
         /\ r.trap[t].action = a
         /\ \A i \in Intf : r.trap[t].notSet[i] = (s.trap[t].notSet[i] \/ s.trap[t].count[i] = 0)
<1> DEFINE b == LateAction(s, t)
           w == [u \in Trap |->
                   IF u = t THEN [s.trap[u] EXCEPT !.action = a, !.notSet = b]
                   ELSE s.trap[u]]
<1>1. s.trap \in [Trap -> TrapEntry] /\ \A u \in Trap : s.trap[u] \in TrapEntry
  BY Fields
<1>0. b \in [Intf -> BOOLEAN]
      /\ \A i \in Intf : b[i] = (s.trap[t].notSet[i] \/ s.trap[t].count[i] = 0)
  BY <1>1 DEF LateAction, TrapEntry
<1> HIDE DEF b
<1>2. r = [s EXCEPT !.trap = w]
  <2> DEFINE v == [s.trap EXCEPT ![t] = [@ EXCEPT !.action = a, !.notSet = b]]
  <2>1. r = [s EXCEPT !.trap = v]
    BY DEF ListedTold, CallState, b
  <2>2. v = w
    BY <1>1 DEF TrapEntry
  <2> QED BY <2>1, <2>2
<1>3. \A u \in Trap : w[u] \in TrapEntry
  BY <1>0, <1>1 DEF TrapEntry
<1>4. w \in [Trap -> TrapEntry]
  <2>1. w = [u \in Trap |-> w[u]]
    OBVIOUS
  <2> HIDE DEF w
  <2> QED BY <1>3, <2>1
<1>5. \A u \in Trap \ {t} : w[u] = s.trap[u]
  OBVIOUS
<1>6. w[t].action = a /\ w[t].notSet = b
  BY <1>1 DEF TrapEntry
<1>7. \A u \in Trap : w[u].valid = s.trap[u].valid /\ w[u].count = s.trap[u].count
  BY <1>1 DEF TrapEntry
<1> HIDE DEF w
<1>8. /\ r \in CallState /\ r.trap = w /\ r.mem = s.mem /\ r.cell = s.cell /\ r.flow = s.flow
      /\ r.ends = s.ends /\ r.failed = s.failed /\ r.ok = s.ok
  BY <1>2, <1>4 DEF CallState
<1>9. \A g \in Header : ValidIn(r, g) = ValidIn(s, g) /\ CountIn(r, g) = CountIn(s, g)
  BY <1>7, <1>8, Headers DEF ValidIn, CountIn
<1>10. \A i \in Intf : r.trap[t].notSet[i] = (s.trap[t].notSet[i] \/ s.trap[t].count[i] = 0)
  BY <1>0, <1>6, <1>8
<1>11. \A u \in Trap \ {t} : r.trap[u] = s.trap[u]
  BY <1>5, <1>8
<1>12. r.trap[t].action = a
  BY <1>6, <1>8
<1> HIDE DEF b
<1> QED BY ONLY <1>8, <1>9, <1>10, <1>11, <1>12

-----------------------------------------------------------------------------
(* The action of a listed trap.                                            *)

LEMMA OthersWhole ==
  ASSUME NEW r, NEW L, NEW X, NEW A, NEW R, Others(r, L, X, A, R),
         ASSUME NEW g \in Header, g \in X PROVE Within(r, L, g),
         ASSUME Exact(r), NEW g \in Header, g \in X PROVE Served(r, L, g, A, R)
  PROVE  Others(r, L, {}, A, R)
<1> SUFFICES ASSUME NEW g \in Header, g[1] \notin SystemTrap
             PROVE  Within(r, L, g) /\ (Exact(r) => Served(r, L, g, A, R))
  BY DEF Others
<1> QED BY DEF Others

\* A list whose trap alone has changed keeps its count and its members.
LEMMA HeldSame ==
  ASSUME NEW s, NEW L, NEW r, NEW h, NEW A, NEW R, r.cell = s.cell,
         CountIn(r, h) = CountIn(s, h),
         Counted(s, L, h), AsAsked(s, L, h, A, R)
  PROVE  Counted(r, L, h) /\ AsAsked(r, L, h, A, R)
BY DEF Counted, AsAsked, DataIn

\* The action of a trap with lists set.
LEMMA ListedActionKeeps ==
  ASSUME NEW s, NEW L, Core(s, L), s.ok, NEW t \in Trap, t \notin SystemTrap,
         NEW a \in PacketAction, NEW A, NEW R, Others(s, L, {}, A, R),
         NEW r, r = ListedActionSet(s, t, a)
  PROVE  \E L2 \in [Header -> Seq(Node)] : CallTo(L2, {}, A, R, r)
<1> DEFINE hp == <<t, "port">>
           hv == <<t, "vlan">>
           X == HeadersOf(t)
           z == ListedTold(s, t, a)
           y == ApplyAll(z, hp[1], hp[2])
           b == FlowAction(a)
           Held(x, g) == Counted(x, L, g) /\ AsAsked(x, L, g, A, R)
<1>1. s \in CallState /\ L \in [Header -> Seq(Node)]
  BY DEF Core, Shape
<1>2. /\ hp \in Header /\ hp[1] = t /\ hp[2] = "port" /\ hp \in X
      /\ hv \in Header /\ hv[1] = t /\ hv[2] = "vlan" /\ hv \in X /\ hp # hv
  BY HeaderOf DEF Intf, HeadersOf
<1>3. \A g \in X : g \in Header /\ g[1] = t /\ (g = hp \/ g = hv)
  BY Headers DEF HeadersOf, Intf
<1>4. r = IF s.trap[t].action = a THEN z
          ELSE IF y.ok THEN ApplyAll(y, hv[1], hv[2]) ELSE y
  <2>1. r = IF s.trap[t].action = a THEN z
            ELSE IF ApplyAll(z, t, "port").ok
                 THEN ApplyAll(ApplyAll(z, t, "port"), t, "vlan") ELSE ApplyAll(z, t, "port")
    BY Zenon DEF ListedActionSet, ListedTold
  <2> HIDE DEF z, hp, hv
  <2> QED BY <1>2, <2>1
<1> HIDE DEF z, y, hp, hv, X
<1>5. /\ z \in CallState /\ z.mem = s.mem /\ z.cell = s.cell /\ z.flow = s.flow
      /\ z.ends = s.ends /\ z.failed = s.failed /\ z.ok = s.ok
      /\ \A u \in Trap \ {t} : z.trap[u] = s.trap[u]
      /\ \A g \in Header : ValidIn(z, g) = ValidIn(s, g) /\ CountIn(z, g) = CountIn(s, g)
      /\ z.trap[t].action = a
      /\ \A i \in Intf : z.trap[t].notSet[i] = (s.trap[t].notSet[i] \/ s.trap[t].count[i] = 0)
  <2>1. z = ListedTold(s, t, a) /\ t \in Trap /\ a \in PacketAction
    BY DEF z
  <2>2. /\ z \in CallState /\ z.mem = s.mem /\ z.cell = s.cell /\ z.flow = s.flow
        /\ z.ends = s.ends /\ z.failed = s.failed /\ z.ok = s.ok /\ z.trap[t].action = a
    BY ONLY <1>1, <2>1, ListedToldIs
  <2>3. \A u \in Trap \ {t} : z.trap[u] = s.trap[u]
    BY ONLY <1>1, <2>1, ListedToldIs
  <2>4. \A g \in Header : ValidIn(z, g) = ValidIn(s, g) /\ CountIn(z, g) = CountIn(s, g)
    BY ONLY <1>1, <2>1, ListedToldIs
  <2>5. \A i \in Intf : z.trap[t].notSet[i] = (s.trap[t].notSet[i] \/ s.trap[t].count[i] = 0)
    BY ONLY <1>1, <2>1, ListedToldIs
  <2> QED BY ONLY <2>2, <2>3, <2>4, <2>5
<1>6. Core(z, L)
  BY <1>5, ToldKeeps
<1>7. Others(z, L, X, A, R)
  BY <1>5, OthersTold DEF X
<1>8. ASSUME Exact(z), NEW g \in X PROVE Held(z, g)
  <2>1. Served(s, L, g, A, R)
    BY <1>3, <1>5, <1>8 DEF Exact, Others
  <2>2. CountIn(z, g) = CountIn(s, g)
    BY <1>3, <1>5
  <2> QED BY <1>5, <2>1, <2>2, HeldSame DEF Served
<1>w. ASSUME NEW g \in Header, g \in X PROVE Within(z, L, g)
  <2>1. Within(s, L, g)
    BY <1>3, <1>w DEF Others
  <2>2. CountIn(z, g) = CountIn(s, g) /\ (ValidIn(z, g) <=> ValidIn(s, g)) /\ z.ends = s.ends
    BY <1>5
  <2> QED BY <2>1, <2>2 DEF Within
<1>9. CASE s.trap[t].action = a
  <2>1. r = z
    BY <1>4, <1>9
  <2>2. ASSUME Exact(z), NEW g \in Header, g \in X PROVE Served(z, L, g, A, R)
    <3>1. Served(s, L, g, A, R)
      BY <1>3, <1>5, <2>2 DEF Exact, Others
    <3>2. Follows(z, L, g)
      <4>1. g[1] = t /\ g[2] \in Intf
        BY <1>3, <2>2, Headers
      <4>2. CASE s.trap[t].notSet[g[2]]
        <5>1. z.trap[g[1]].action = s.trap[g[1]].action
          BY <1>5, <1>9, <4>1
        <5> QED BY <1>5, <3>1, <4>1, <4>2, <5>1 DEF Served, Follows, FlowFor
      <4>3. CASE s.trap[t].count[g[2]] = 0
        <5>1. Len(L[g]) = 0 /\ L[g] \in Seq(Node)
          BY <1>1, <3>1, <4>1, <4>3 DEF Served, Counted, CountIn
        <5>2. Elems(L[g]) = {}
          BY <5>1 DEF Elems
        <5> QED BY <5>2 DEF Follows
      <4>4. CASE ~s.trap[t].notSet[g[2]] /\ s.trap[t].count[g[2]] # 0
        <5>1. ~z.trap[g[1]].notSet[g[2]]
          BY <1>5, <4>1, <4>4
        <5> QED BY <5>1 DEF Follows
      <4> QED BY <4>2, <4>3, <4>4
    <3>3. Held(z, g)
      BY <1>8, <2>2
    <3> QED BY <3>2, <3>3 DEF Served
  <2>3. Others(z, L, {}, A, R)
    BY <1>7, <1>w, <2>2, OthersWhole
  <2> QED BY <1>1, <1>6, <2>1, <2>3 DEF CallTo
<1>10. CASE s.trap[t].action # a
  <2>0. b = FlowAction(z.trap[hp[1]].action)
    BY <1>2, <1>5
  <2> HIDE DEF b
  <2>1. AppliedTo(z, L, hp, b, y)
    <3>1. Exact(z) => Counted(z, L, hp)
      BY <1>2, <1>8
    <3>2. z.ok /\ y = ApplyAll(z, hp[1], hp[2])
      BY <1>5 DEF y
    <3>3. Within(z, L, hp)
      BY <1>2, <1>w
    <3> QED BY ONLY <1>2, <1>6, <2>0, <3>1, <3>2, <3>3, AllApplied
  <2>2. /\ Core(y, L) /\ Apart(z, L, y, L, hp) /\ y.trap = z.trap /\ y.cell = z.cell
        /\ Exact(y) => (y.ok \/ b = "unsupported")
    BY <2>1 DEF AppliedTo
  <2>3. Others(y, L, X, A, R)
    BY <1>2, <1>6, <1>7, <2>2, OthersFrame
  <2>4. ASSUME Exact(y), NEW g \in X PROVE Held(y, g)
    <3>1. Exact(z)
      BY <2>2, <2>4 DEF Exact, Apart
    <3>2. CountIn(y, g) = CountIn(z, g)
      BY <2>2 DEF CountIn
    <3> QED BY <1>8, <2>2, <2>4, <3>1, <3>2, HeldSame
  <2>w. ASSUME NEW g \in Header, g \in X PROVE Within(y, L, g)
    BY <1>w, <2>2, <2>w DEF Within, Apart, CountIn, ValidIn
  <2>5. CASE ~y.ok
    <3>1. r = y
      BY <1>4, <1>10, <2>5
    <3>2. ASSUME Exact(y), NEW g \in Header, g \in X PROVE Served(y, L, g, A, R)
      <4>1. FlowAction(y.trap[g[1]].action) = "unsupported"
        BY <1>2, <1>3, <2>0, <2>2, <2>5, <3>2
      <4>2. Follows(y, L, g)
        BY <4>1 DEF Follows
      <4>3. Held(y, g)
        BY <2>4, <3>2
      <4> QED BY <4>2, <4>3 DEF Served
    <3>3. Others(y, L, {}, A, R)
      BY <2>3, <2>w, <3>2, OthersWhole
    <3> QED BY <1>1, <2>2, <3>1, <3>3 DEF CallTo
  <2>6. CASE y.ok
    <3>0. r = ApplyAll(y, hv[1], hv[2])
      BY <1>4, <1>10, <2>6
    <3>1. AppliedTo(y, L, hv, b, r)
      <4>1. Exact(y) => Counted(y, L, hv)
        BY <1>2, <2>4
      <4>2. b = FlowAction(y.trap[hv[1]].action)
        BY <1>2, <2>0, <2>2
      <4>3. Within(y, L, hv)
        BY <1>2, <2>w
      <4> QED BY ONLY <1>2, <2>2, <2>6, <3>0, <4>1, <4>2, <4>3, AllApplied
    <3>2. /\ Core(r, L) /\ Apart(y, L, r, L, hv) /\ r.trap = y.trap /\ r.cell = y.cell
          /\ Exact(r) => (r.ok \/ b = "unsupported")
      BY <3>1 DEF AppliedTo
    <3>3. Others(r, L, X, A, R)
      BY <1>2, <2>2, <2>3, <3>2, OthersFrame
    <3>4. ASSUME Exact(r), NEW g \in Header, g \in X PROVE Served(r, L, g, A, R)
      <4>1. Exact(y) /\ OwnCookies
        BY <3>2, <3>4 DEF Exact, Apart
      <4>2. CountIn(r, g) = CountIn(y, g)
        BY <3>2 DEF CountIn
      <4>3. Counted(r, L, g) /\ AsAsked(r, L, g, A, R)
        BY <2>4, <3>2, <3>4, <4>1, <4>2, HeldSame
      <4>4. FlowAction(r.trap[g[1]].action) = b
        BY <1>2, <1>3, <2>0, <2>2, <3>2, <3>4
      <4>5. CASE b = "unsupported"
        BY <4>3, <4>4, <4>5 DEF Served, Follows
      <4>6. CASE b # "unsupported" /\ g = hv
        <5>1. r.ok
          BY <3>2, <3>4, <4>6
        <5>2. \A n \in Elems(L[hv]) : FlowFor(r, hv, y.cell[n].data).action = b
          BY <3>1, <3>4, <5>1 DEF AppliedTo
        <5>3. Follows(r, L, g)
          BY <3>2, <4>4, <4>6, <5>2 DEF Follows
        <5> QED BY <4>3, <5>3 DEF Served
      <4>7. CASE b # "unsupported" /\ g = hp
        <5>1. \A n \in Elems(L[hp]) : FlowFor(y, hp, z.cell[n].data).action = b
          BY <2>1, <2>6, <4>1 DEF AppliedTo
        <5>2. \A pv \in PortVlan : FlowFor(r, hp, pv) = FlowFor(y, hp, pv)
          BY <1>2, <3>2, <4>1 DEF Apart
        <5>3. \A n \in Elems(L[hp]) : z.cell[n].data \in PortVlan
          BY <1>2, <1>5, <1>6, ListShape, DataType
        <5>4. \A n \in Elems(L[hp]) : FlowFor(r, hp, r.cell[n].data).action = b
          BY <2>2, <3>2, <5>1, <5>2, <5>3
        <5>5. Follows(r, L, g)
          BY <4>4, <4>7, <5>4 DEF Follows
        <5> QED BY <4>3, <5>5 DEF Served
      <4> QED BY <1>3, <3>4, <4>5, <4>6, <4>7
    <3>w. ASSUME NEW g \in Header, g \in X PROVE Within(r, L, g)
      BY <2>w, <3>2, <3>w DEF Within, Apart, CountIn, ValidIn
    <3>5. Others(r, L, {}, A, R)
      BY <3>3, <3>4, <3>w, OthersWhole
    <3> QED BY <1>1, <3>2, <3>5 DEF CallTo
  <2> QED BY <2>5, <2>6
<1> QED BY <1>9, <1>10

-----------------------------------------------------------------------------
(* The invariant.                                                          *)

\* The lists as they are read from memory.
ListsOf(s) == [h \in Header |-> ListOf(s.mem, h)]

Holds(s, A, R) ==
  /\ A \in [Header -> SUBSET PortVlan] /\ R \in [Header -> 0 .. 2]
  /\ Core(s, ListsOf(s)) /\ Others(s, ListsOf(s), {}, A, R)

\* The state between two calls.
Between == Start([hw |-> 0, room |-> 0], FALSE, 0)

TrapInv == Holds(Between, asked, rounds)

LEMMA HoldsFor ==
  ASSUME NEW r, NEW L \in [Header -> Seq(Node)], NEW A \in [Header -> SUBSET PortVlan],
         NEW R \in [Header -> 0 .. 2], CallTo(L, {}, A, R, r)
  PROVE  Holds(r, A, R)
<1>1. \A h \in Header : L[h] = ListOf(r.mem, h)
  BY ListShape DEF CallTo
<1>2. L = ListsOf(r)
  BY <1>1 DEF ListsOf
<1> QED BY <1>2 DEF Holds, CallTo

\* The flags of a call that has ended are not kept.
LEMMA HoldsOn ==
  ASSUME NEW s, NEW A, NEW R, Holds(s, A, R), NEW r \in CallState,
         r.trap = s.trap, r.mem = s.mem, r.cell = s.cell, r.flow = s.flow, r.ends = s.ends,
         s.failed # 0 => r.failed # 0
  PROVE  Holds(r, A, R)
<1>1. ListsOf(r) = ListsOf(s)
  BY DEF ListsOf
<1> DEFINE L == ListsOf(s)
<1>2. Core(s, L) /\ Others(s, L, {}, A, R)
  BY DEF Holds
<1> HIDE DEF L
<1>3. Core(r, L)
  BY <1>2, CoreReads
<1>4. Others(r, L, {}, A, R)
  <2> SUFFICES ASSUME NEW g \in Header, g[1] \notin SystemTrap
               PROVE  Within(r, L, g) /\ (Exact(r) => Served(r, L, g, A, R))
    BY DEF Others
  <2>1. Within(s, L, g) /\ (Exact(r) => Served(s, L, g, A, R))
    BY <1>2 DEF Others, Exact
  <2>2. CountIn(r, g) = CountIn(s, g) /\ (ValidIn(r, g) <=> ValidIn(s, g))
    BY DEF CountIn, ValidIn
  <2>3. Exact(r) => Counted(r, L, g) /\ AsAsked(r, L, g, A, R)
    BY <2>1, <2>2, HeldSame DEF Served
  <2>4. Exact(r) => Follows(r, L, g)
    BY <2>1 DEF Served, Follows, FlowFor
  <2>5. Within(r, L, g)
    BY <2>1, <2>2 DEF Within
  <2> QED BY <2>3, <2>4, <2>5 DEF Served
<1> QED BY <1>1, <1>3, <1>4 DEF Holds, L

\* No list, no flow.
LEMMA NothingYet ==
  ASSUME NEW s \in CallState, NEW A, NEW R,
         s.trap = [t \in Trap |-> [action |-> "DROP", valid |-> Both(FALSE),
                                   count |-> Both(0), notSet |-> Both(FALSE)]],
         s.mem = [e \in Elem |-> Unlinked], s.cell = [n \in Node |-> FreeCell],
         s.flow = [c \in Cookie |-> NoFlow], s.ends = NoEnds,
         A = [h \in Header |-> {}], R = [h \in Header |-> 0]
  PROVE  Holds(s, A, R)
<1> DEFINE L == [h \in Header |-> <<>>]
<1>1. L \in [Header -> Seq(Node)]
  OBVIOUS
<1>2. \A h \in Header : L[h] = <<>> /\ Elems(L[h]) = {} /\ Len(L[h]) = 0
  BY DEF Elems
<1> HIDE DEF L
<1>3. \A h \in Header : /\ ~ValidIn(s, h) /\ CountIn(s, h) = 0
                        /\ s.trap[h[1]].notSet[h[2]] = FALSE
  BY Headers DEF ValidIn, CountIn, Both
<1>4. \A h \in Header : s.mem[h].next = Null
  BY DEF Unlinked, Elem
<1>5. Shape(s, L)
  <2>1. \A h \in Header : Sorted(L[h], Data(s))
    BY <1>2 DEF Sorted
  <2> QED BY <1>1, <1>2, <1>3, <1>4, <2>1 DEF Shape
<1>6. \A h \in Header : DataIn(s, L[h]) = {}
  BY <1>2 DEF DataIn
<1>7. Accounted(s, L)
  <2>1. \A n \in Node : ~s.cell[n].used
    BY DEF FreeCell
  <2>2. ASSUME NEW h \in Header, NEW pv \in PortVlan
        PROVE  FlowFor(s, h, pv) = NoFlow /\ NoFlow.of # h[1]
    BY CookieIs, Headers, FlowTypes DEF FlowFor
  <2> QED BY <1>6, <2>1, <2>2 DEF Accounted
<1>8. Others(s, L, {}, A, R)
  <2> SUFFICES ASSUME NEW h \in Header PROVE Within(s, L, h) /\ Served(s, L, h, A, R)
    BY DEF Others
  <2>1. Counted(s, L, h)
    BY <1>2, <1>3 DEF Counted
  <2>2. Follows(s, L, h)
    BY <1>3 DEF Follows
  <2>3. AsAsked(s, L, h, A, R)
    BY <1>2, <1>6 DEF AsAsked
  <2>4. Within(s, L, h)
    <3>1. CountIn(s, h) = 0
      BY <1>3
    <3>2. Len(L[h]) = 0
      BY <1>2
    <3> QED BY <3>1, <3>2 DEF Within
  <2> QED BY <2>1, <2>2, <2>3, <2>4 DEF Served
<1>9. CallTo(L, {}, A, R, s)
  BY <1>5, <1>7, <1>8 DEF CallTo, Core
<1>10. A \in [Header -> SUBSET PortVlan] /\ R \in [Header -> 0 .. 2]
  OBVIOUS
<1> QED BY <1>1, <1>9, <1>10, HoldsFor

LEMMA TrapInitInv == TrapInit => TrapInv
<1> SUFFICES ASSUME TrapInit PROVE TrapInv
  OBVIOUS
<1> DEFINE s == Between
<1>1. /\ s.trap = trap /\ s.mem = mem /\ s.cell = cell /\ s.flow = flow
      /\ s.ends = NoEnds /\ s.failed = 0 /\ s.ok = TRUE /\ s.hw = 0 /\ s.room = 0
      /\ s.junk = FALSE /\ s.stray = 0 /\ s.at = Null
  BY DEF Between, Start, TrapInit
<1>2. trap \in [Trap -> TrapEntry]
  BY DEF TrapInit, TrapEntry, Both, PacketAction
<1>3. mem \in Memory
  BY DEF TrapInit, Memory, Unlinked, Pointer
<1>4. cell \in [Node -> ListEntry]
  BY FlowTypes DEF TrapInit
<1>5. flow \in [Cookie -> FlowEntry]
  BY FlowTypes DEF TrapInit
<1>6. s \in CallState
  <2>1. NoEnds \in SoundEnds /\ 0 \in PortVlan
    BY PortVlanNat DEF NoEnds, SoundEnds, Ends
  <2> QED BY <1>2, <1>3, <1>4, <1>5, <2>1 DEF Between, Start, TrapInit, CallState, Pointer
<1> HIDE DEF s
<1>7. Holds(s, asked, rounds)
  BY <1>1, <1>6, NothingYet DEF TrapInit
<1> QED BY <1>7 DEF TrapInv, s

-----------------------------------------------------------------------------
(* The invariant is inductive.                                             *)

\* The state a call starts from.
LEMMA CallStarts ==
  ASSUME TrapInv, NEW budget \in Budgets, NEW junk \in BOOLEAN,
         NEW stray \in Strays, NEW s, s = Start(budget, junk, stray)
  PROVE  /\ Holds(s, asked, rounds) /\ s \in CallState /\ s.ok
         /\ s.trap = trap
<1> DEFINE z == Between
           f == IF failed = 0 THEN 0 ELSE failed + 1
<1>1. Holds(z, asked, rounds) /\ z \in CallState
  BY DEF TrapInv, Holds, Core
<1>2. /\ z.trap = trap /\ z.mem = mem /\ z.cell = cell /\ z.flow = flow /\ z.ends = ends
      /\ z.failed = f
  BY DEF Between, Start
<1>3. budget.hw \in Nat /\ budget.room \in Nat
  BY TrapConstants DEF Budgets
<1>4. /\ s.trap = trap /\ s.mem = mem /\ s.cell = cell /\ s.flow = flow /\ s.ends = ends
      /\ s.failed = f /\ s.ok = TRUE
  BY DEF Start
<1>5. s \in CallState
  <2>1. /\ trap \in [Trap -> TrapEntry] /\ mem \in Memory
        /\ cell \in [Node -> ListEntry] /\ flow \in [Cookie -> FlowEntry]
        /\ ends \in SoundEnds /\ f \in Nat
    <3> HIDE DEF f, z
    <3> QED BY <1>1, <1>2, Fields
  <2>2. stray \in PortVlan
    BY PortVlanNat DEF Strays
  <2> QED BY <1>3, <2>1, <2>2 DEF Start, CallState, Pointer
<1> HIDE DEF z, f
<1>6. Holds(s, asked, rounds)
  BY <1>1, <1>2, <1>4, <1>5, HoldsOn
<1> QED BY <1>4, <1>5, <1>6

\* The calls since the first fault, of a state that a call starts from.
Since(n) == IF n = 0 THEN 0 ELSE n + 1

LEMMA SinceIs == \A n \in Nat : Since(n) \in Nat /\ (n # 0 => Since(n) # 0)
BY DEF Since

\* The state a call leaves.
LEMMA CallEnds ==
  ASSUME NEW r, Result(r), Holds(r, asked', rounds')
  PROVE  TrapInv'
<1> DEFINE z == Between'
<1>1. r \in CallState /\ r.failed = failed' /\ failed' \in Nat
  <2>1. r \in CallState
    BY DEF Holds, Core
  <2> QED BY <2>1, Fields DEF Result
<1>2. PICK k : k \in Nat /\ k = Since(failed') /\ (failed' # 0 => k # 0)
  BY <1>1, SinceIs
<1>3. z = [trap |-> trap', mem |-> mem', cell |-> cell', flow |-> flow', ends |-> ends',
           failed |-> k, ok |-> TRUE, hw |-> 0, room |-> 0, junk |-> FALSE, stray |-> 0,
           at |-> Null]
  BY <1>2 DEF Between, Start, Since
<1> HIDE DEF z
<1>4. /\ z.trap = r.trap /\ z.mem = r.mem /\ z.cell = r.cell /\ z.flow = r.flow
      /\ z.ends = r.ends /\ z.failed = k
  BY <1>3 DEF Result
<1>5. z \in CallState
  <2>1. /\ trap' \in [Trap -> TrapEntry] /\ mem' \in Memory
        /\ cell' \in [Node -> ListEntry] /\ flow' \in [Cookie -> FlowEntry]
        /\ ends' \in SoundEnds
    BY <1>1, Fields DEF Result
  <2>2. Null \in Pointer /\ 0 \in PortVlan
    BY PortVlanNat DEF Pointer
  <2> QED BY ONLY <1>2, <1>3, <2>1, <2>2 DEF CallState
<1>6. Holds(z, asked', rounds')
  BY <1>1, <1>2, <1>4, <1>5, HoldsOn
<1> QED BY <1>6 DEF TrapInv, z

LEMMA SetListInv ==
  ASSUME TrapInv, NEW t \in Trap, NEW i \in Intf, NEW list \in Lists(i), SetList(t, i, list)
  PROVE  TrapInv'
<1> DEFINE h == <<t, i>>
           A == asked
           R == rounds
           A2 == [asked EXCEPT ![h] = Members(list)]
           R2 == [rounds EXCEPT ![h] = IF ~trap[t].valid[i] THEN 0 ELSE IF @ = 2 THEN 2 ELSE @ + 1]
<1>1. h \in Header /\ h[1] = t /\ h[2] = i /\ t \notin SystemTrap
  BY HeaderOf DEF SetList
<1>2. PICK junk \in BOOLEAN, budget \in Budgets, stray \in Strays :
        Result(ListSet(Start(budget, junk, stray), t, i, list))
  BY DEF SetList, Call
<1> DEFINE s == Start(budget, junk, stray)
           L == ListsOf(s)
           r == ListSet(s, t, i, list)
<1>3. Holds(s, A, R) /\ s \in CallState /\ s.ok /\ s.trap = trap
  BY CallStarts
<1>4. Result(r)
  BY <1>2
<1>5. r = ListSet(s, h[1], h[2], list)
  BY <1>1
<1> HIDE DEF s, r, A, R
<1>6. /\ A \in [Header -> SUBSET PortVlan] /\ R \in [Header -> 0 .. 2]
      /\ Core(s, L) /\ Others(s, L, {}, A, R)
  BY <1>3 DEF Holds
<1>7. A2 \in [Header -> SUBSET PortVlan] /\ A2[h] = Members(list)
      /\ \A g \in Header \ {h} : A2[g] = A[g]
  <2>1. Members(list) \subseteq PortVlan
    BY ListsAre DEF Members
  <2> QED BY <1>1, <1>6, <2>1 DEF A
<1>8. /\ R2 \in [Header -> 0 .. 2] /\ \A g \in Header \ {h} : R2[g] = R[g]
      /\ R2[h] = IF ~ValidIn(s, h) THEN 0 ELSE IF R[h] = 2 THEN 2 ELSE R[h] + 1
  <2>1. ValidIn(s, h) = trap[t].valid[i]
    BY <1>1, <1>3 DEF ValidIn
  <2>2. R[h] \in 0 .. 2
    BY <1>1, <1>6
  <2>3. (IF R[h] = 2 THEN 2 ELSE R[h] + 1) \in 0 .. 2
    BY <2>2
  <2> HIDE DEF h
  <2> DEFINE k == IF ~trap[t].valid[i] THEN 0 ELSE IF R[h] = 2 THEN 2 ELSE R[h] + 1
  <2>4. R2 = [R EXCEPT ![h] = k]
    BY DEF R
  <2>5. k \in 0 .. 2 /\ k = IF ~ValidIn(s, h) THEN 0 ELSE IF R[h] = 2 THEN 2 ELSE R[h] + 1
    <3>1. k = IF ~ValidIn(s, h) THEN 0 ELSE IF R[h] = 2 THEN 2 ELSE R[h] + 1
      BY <2>1
    <3> QED BY <2>3, <3>1
  <2> HIDE DEF k, R2
  <2>6. R2 \in [Header -> 0 .. 2] /\ R2[h] = k /\ \A g \in Header \ {h} : R2[g] = R[g]
    BY <1>1, <1>6, <2>4, <2>5
  <2> QED BY <2>5, <2>6
<1> HIDE DEF A2, R2, h, L
<1>9. PICK L2 \in [Header -> Seq(Node)] : ServedTo(s, L, h, A2, R2, r, L2)
  <2>1. Within(s, L, h) /\ (Exact(s) => Served(s, L, h, A, R))
    BY <1>1, <1>6 DEF Others
  <2>2. R[h] \in 0 .. 2 /\ list \in Lists(h[2])
    BY <1>1, <1>6
  <2> QED BY ONLY <1>1, <1>3, <1>5, <1>6, <1>7, <1>8, <2>1, <2>2, ListSetKeeps
<1>10. /\ Core(r, L2) /\ Apart(s, L, r, L2, h) /\ Within(r, L2, h)
       /\ Exact(r) => Served(r, L2, h, A2, R2)
  BY <1>9 DEF ServedTo
<1>11. Others(r, L2, {h}, A, R)
  <2>1. Others(s, L, {h}, A, R)
    BY <1>6 DEF Others
  <2> QED BY <1>1, <1>6, <1>10, <2>1, OthersFrame
<1>12. CASE failed' > 0
  <2>1. asked' = A /\ rounds' = R /\ ~Exact(r)
    <3>1. r.failed \in Nat /\ r.failed = failed'
      BY <1>4, <1>10, Fields DEF Core, Result
    <3> QED BY <1>12, <3>1 DEF SetList, A, R, Exact
  <2>2. Others(r, L2, {}, A, R)
    BY <1>10, <1>11, <2>1 DEF Others
  <2>3. Holds(r, A, R)
    BY <1>6, <1>10, <2>2, HoldsFor DEF CallTo
  <2> QED BY <1>4, <2>1, <2>3, CallEnds
<1>13. CASE ~(failed' > 0)
  <2>1. asked' = A2 /\ rounds' = R2
    BY <1>13 DEF SetList, A2, R2, h
  <2>2. Others(r, L2, {}, A2, R2)
    <3> SUFFICES ASSUME NEW g \in Header, g[1] \notin SystemTrap
                 PROVE  Within(r, L2, g) /\ (Exact(r) => Served(r, L2, g, A2, R2))
      BY DEF Others
    <3>1. CASE g = h
      BY <1>10, <3>1
    <3>2. CASE g # h
      <4>1. Within(r, L2, g) /\ (Exact(r) => Served(r, L2, g, A, R))
        BY <1>11, <3>2 DEF Others
      <4>2. A2[g] = A[g] /\ R2[g] = R[g]
        BY <1>7, <1>8, <3>2
      <4> QED BY <4>1, <4>2 DEF Served, AsAsked
    <3> QED BY <3>1, <3>2
  <2>3. Holds(r, A2, R2)
    BY <1>7, <1>8, <1>10, <2>2, HoldsFor DEF CallTo
  <2> QED BY <1>4, <2>1, <2>3, CallEnds
<1> QED BY <1>12, <1>13

LEMMA SetActionInv ==
  ASSUME TrapInv, NEW t \in Trap, NEW a \in Actions, SetAction(t, a)
  PROVE  TrapInv'
<1> DEFINE A == asked
           R == rounds
<1>1. a \in PacketAction /\ asked' = A /\ rounds' = R
  BY TrapConstants DEF SetAction
<1>2. PICK budget \in Budgets, stray \in Strays :
        Result(IF t \in SystemTrap THEN SystemActionSet(Start(budget, FALSE, stray), t, a)
               ELSE ListedActionSet(Start(budget, FALSE, stray), t, a))
  BY DEF SetAction, Call
<1> DEFINE s == Start(budget, FALSE, stray)
           L == ListsOf(s)
           r == IF t \in SystemTrap THEN SystemActionSet(s, t, a) ELSE ListedActionSet(s, t, a)
<1>3. Holds(s, A, R) /\ s \in CallState /\ s.ok
  BY CallStarts
<1>4. Result(r)
  BY <1>2
<1> HIDE DEF s, A, R
<1>5. /\ A \in [Header -> SUBSET PortVlan] /\ R \in [Header -> 0 .. 2]
      /\ Core(s, L) /\ Others(s, L, {}, A, R)
  BY <1>3 DEF Holds
<1> HIDE DEF L
<1>6. PICK L2 \in [Header -> Seq(Node)] : CallTo(L2, {}, A, R, r)
  <2>1. CASE t \in SystemTrap
    <3>1. r = SystemActionSet(s, t, a)
      BY <2>1
    <3> HIDE DEF r
    <3> QED BY <1>1, <1>3, <1>5, <2>1, <3>1, SystemActionKeeps
  <2>2. CASE t \notin SystemTrap
    <3>1. r = ListedActionSet(s, t, a)
      BY <2>2
    <3> HIDE DEF r
    <3> QED BY <1>1, <1>3, <1>5, <2>2, <3>1, ListedActionKeeps
  <2> QED BY <2>1, <2>2
<1> HIDE DEF r
<1>7. Holds(r, A, R)
  BY <1>5, <1>6, HoldsFor
<1> QED BY <1>1, <1>4, <1>7, CallEnds

LEMMA TrapStutterInv == TrapInv /\ UNCHANGED trapVars => TrapInv'
BY DEF trapVars, TrapInv, Between, Start

\* Whatever a client sets and whichever flow or malloc fails, the invariant
\* holds between calls: mrvl_hostif_trap_list_set and ..._action_set keep
\* the lists sorted rings, and, if none failed, served as asked.
THEOREM TrapsHold == TrapSpec => []TrapInv
<1>1. TrapInv /\ [TrapNext]_trapVars => TrapInv'
  <2> SUFFICES ASSUME TrapInv, [TrapNext]_trapVars PROVE TrapInv'
    OBVIOUS
  <2>1. CASE UNCHANGED trapVars
    BY <2>1, TrapStutterInv
  <2>2. ASSUME NEW t \in Trap, NEW i \in Intf, NEW list \in Lists(i), SetList(t, i, list)
        PROVE  TrapInv'
    BY <2>2, SetListInv
  <2>3. ASSUME NEW t \in Trap, NEW a \in Actions, SetAction(t, a) PROVE TrapInv'
    BY <2>3, SetActionInv
  <2> QED BY <2>1, <2>2, <2>3 DEF TrapNext
<1> QED BY <1>1, TrapInitInv, PTL DEF TrapSpec

-----------------------------------------------------------------------------
(* What follows from it.                                                   *)

LEMMA ElemsCount ==
  ASSUME NEW q \in Seq(Node), Distinct(q)
  PROVE  Cardinality(Elems(q)) = Len(q)
<1> DEFINE f == [i \in 1 .. Len(q) |-> q[i]]
<1>1. Len(q) \in Nat /\ DOMAIN q = 1 .. Len(q)
  OBVIOUS
<1>2. f \in Bijection(1 .. Len(q), Elems(q))
  <2>1. f \in [1 .. Len(q) -> Elems(q)]
    BY <1>1 DEF Elems
  <2>2. \A i, j \in 1 .. Len(q) : f[i] = f[j] => i = j
    BY <1>1 DEF Distinct
  <2>3. \A y \in Elems(q) : \E i \in 1 .. Len(q) : f[i] = y
    BY <1>1 DEF Elems
  <2> HIDE DEF f
  <2> QED BY <2>1, <2>2, <2>3 DEF Bijection, Injection, Surjection, IsInjective
<1>3. ExistsBijection(1 .. Len(q), Elems(q))
  BY <1>2 DEF ExistsBijection
<1> QED BY <1>1, <1>3, FS_CountingElements

\* What is read of a list between two calls.
LEMMA ListedIs ==
  ASSUME TrapInv, NEW s, s = Between, NEW L, L = ListsOf(s)
  PROVE  /\ Core(s, L) /\ Others(s, L, {}, asked, rounds)
         /\ s.trap = trap /\ s.mem = mem /\ s.cell = cell /\ s.flow = flow /\ s.ends = ends
         /\ failed = 0 => s.failed = 0
         /\ \A t \in Trap, i \in Intf :
              /\ Listed(t, i) = Elems(L[<<t, i>>])
              /\ ListedData(t, i) = DataIn(s, L[<<t, i>>])
<1>1. Core(s, L) /\ Others(s, L, {}, asked, rounds)
  BY DEF TrapInv, Holds
<1>2. /\ s.trap = trap /\ s.mem = mem /\ s.cell = cell /\ s.flow = flow /\ s.ends = ends
      /\ failed = 0 => s.failed = 0
  BY DEF Between, Start
<1>3. ASSUME NEW t \in Trap, NEW i \in Intf
      PROVE  /\ Listed(t, i) = Elems(L[<<t, i>>])
             /\ ListedData(t, i) = DataIn(s, L[<<t, i>>])
  <2> DEFINE q == L[<<t, i>>]
  <2>1. <<t, i>> \in Header
    BY HeaderOf
  <2>2. q = ListOf(mem, <<t, i>>)
    BY <1>2, <2>1 DEF ListsOf
  <2>3. DOMAIN q = 1 .. Len(q)
    BY <1>1, <2>1, ListShape
  <2> HIDE DEF q
  <2>4. Listed(t, i) = Elems(q)
    BY <2>2, <2>3 DEF Listed, Elems
  <2>5. ListedData(t, i) = DataIn(s, q)
    BY <1>2, <2>4 DEF ListedData, DataIn
  <2> QED BY <2>4, <2>5 DEF q
<1> QED BY <1>1, <1>2, <1>3

\* As far as the model goes, which ends a behaviour when a loop takes a header
\* for an element: whatever fails in a call, and whichever traps share an entry
\* type, the lists are rings of elements in use, and no element is on two.
RingsWhole == \A h \in ValidHeaders : Linked(mem, {h} \cup Listed(h[1], h[2]))

LEMMA RingsAre == TrapInv => RingsWhole /\ MembersLive
<1> SUFFICES ASSUME TrapInv PROVE RingsWhole /\ MembersLive
  OBVIOUS
<1> DEFINE s == Between
           L == ListsOf(s)
<1>1. /\ Core(s, L) /\ s.trap = trap /\ s.mem = mem /\ s.cell = cell
      /\ \A t \in Trap, i \in Intf : Listed(t, i) = Elems(L[<<t, i>>])
  BY ListedIs
<1> HIDE DEF s, L
<1>2. ASSUME NEW h \in ValidHeaders
      PROVE  /\ h \in Header /\ ValidIn(s, h) /\ Listed(h[1], h[2]) = Elems(L[h])
  BY <1>1, Headers DEF ValidHeaders, ValidIn
<1>3. ASSUME NEW h \in ValidHeaders PROVE Linked(mem, {h} \cup Listed(h[1], h[2]))
  BY <1>1, <1>2, ListShape, RingLinked
<1>4. ASSUME NEW h \in ValidHeaders
      PROVE  /\ \A n \in Listed(h[1], h[2]) : cell[n].used
             /\ \A g \in ValidHeaders \ {h} : Listed(h[1], h[2]) \cap Listed(g[1], g[2]) = {}
  <2>1. \A n \in Listed(h[1], h[2]) : cell[n].used
    BY <1>1, <1>2, ListShape
  <2>2. ASSUME NEW g \in ValidHeaders \ {h}
        PROVE  Listed(h[1], h[2]) \cap Listed(g[1], g[2]) = {}
    BY <1>1, <1>2 DEF Core, Shape
  <2> QED BY <2>1, <2>2
<1> QED BY <1>3, <1>4 DEF RingsWhole, MembersLive

LEMMA CountsAre == TrapInv => CountWithin
<1> SUFFICES ASSUME TrapInv PROVE CountWithin
  OBVIOUS
<1> DEFINE s == Between
           L == ListsOf(s)
<1>1. /\ Core(s, L) /\ Others(s, L, {}, asked, rounds) /\ s.trap = trap /\ s.ends = ends
      /\ \A t \in Trap, i \in Intf : Listed(t, i) = Elems(L[<<t, i>>])
  BY ListedIs
<1> HIDE DEF s, L
<1>2. ends \in SoundEnds
  BY <1>1, Fields DEF Core
<1>3. ASSUME NEW t \in Trap \ SystemTrap, NEW i \in Intf, <<t, i>> \notin ends.short
      PROVE  trap[t].count[i] <= Cardinality(Listed(t, i))
  <2> DEFINE h == <<t, i>>
  <2>1. h \in Header /\ h[1] = t /\ h[2] = i
    BY HeaderOf
  <2>2. Listed(t, i) = Elems(L[h]) /\ h \notin ends.short
    BY <1>1, <1>3
  <2> HIDE DEF h
  <2>3. CountIn(s, h) <= Len(L[h])
    BY <1>1, <2>1, <2>2 DEF Others, Within
  <2>4. Cardinality(Elems(L[h])) = Len(L[h])
    BY <1>1, <2>1, ListShape, ElemsCount
  <2> QED BY <1>1, <2>1, <2>2, <2>3, <2>4 DEF CountIn
<1> QED BY <1>2, <1>3 DEF CountWithin, SoundEnds

LEMMA IntactIs == TrapInv => (OwnCookies => ListsIntact)
<1> SUFFICES ASSUME TrapInv, OwnCookies PROVE ListsIntact
  OBVIOUS
<1> DEFINE s == Between
           L == ListsOf(s)
<1>1. /\ Core(s, L) /\ Others(s, L, {}, asked, rounds)
      /\ s.trap = trap /\ s.mem = mem /\ s.cell = cell /\ s.ends = ends
      /\ failed = 0 => s.failed = 0
      /\ \A t \in Trap, i \in Intf : Listed(t, i) = Elems(L[<<t, i>>])
  BY ListedIs
<1> HIDE DEF s, L
<1>2. ASSUME failed = 0 PROVE ends = NoEnds /\ CountIsLength /\ CellsListed
  <2>1. Exact(s) /\ Accounted(s, L)
    BY <1>1, <1>2 DEF Exact, Core
  <2>2. CountIsLength
    <3> SUFFICES ASSUME NEW t \in Trap \ SystemTrap, NEW i \in Intf
                 PROVE  trap[t].count[i] = Cardinality(Listed(t, i))
      BY DEF CountIsLength
    <3> DEFINE h == <<t, i>>
    <3>1. h \in Header /\ h[1] = t /\ h[2] = i
      BY HeaderOf
    <3> HIDE DEF h
    <3>2. Counted(s, L, h)
      BY <1>1, <2>1, <3>1 DEF Others, Served
    <3>3. Cardinality(Elems(L[h])) = Len(L[h])
      BY <1>1, <3>1, ListShape, ElemsCount
    <3>4. Listed(t, i) = Elems(L[h])
      BY <1>1 DEF h
    <3> QED BY <1>1, <3>1, <3>2, <3>3, <3>4 DEF Counted, CountIn
  <2>3. CellsListed
    <3>1. ASSUME NEW n \in Node, cell[n].used
          PROVE  \E h \in ValidHeaders : n \in Listed(h[1], h[2])
      <4>1. PICK h \in Header : n \in Elems(L[h])
        BY <1>1, <2>1, <3>1 DEF Accounted
      <4>2. ValidIn(s, h)
        <5>1. ~ValidIn(s, h) => L[h] = <<>>
          BY <1>1 DEF Core, Shape
        <5>2. Elems(<<>>) = {}
          BY DEF Elems
        <5> QED BY <4>1, <5>1, <5>2
      <4>3. h \in ValidHeaders /\ n \in Listed(h[1], h[2])
        BY <1>1, <4>1, <4>2, Headers DEF ValidHeaders, ValidIn
      <4> QED BY <4>3
    <3>2. ASSUME NEW h \in ValidHeaders, NEW n \in Listed(h[1], h[2])
          PROVE  n \in Node /\ cell[n].used
      <4>1. h \in Header /\ n \in Elems(L[h])
        BY <1>1, <3>2, Headers DEF ValidHeaders
      <4> QED BY <1>1, <4>1, ListShape
    <3> QED BY <3>1, <3>2 DEF CellsListed
  <2> QED BY <1>1, <2>1, <2>2, <2>3 DEF Accounted
<1> QED BY <1>2, RingsAre, CountsAre DEF ListsIntact, RingsWhole

LEMMA FlowsAre == TrapInv => (OwnCookies => FlowsMatchLists)
<1> SUFFICES ASSUME TrapInv, OwnCookies, failed = 0,
                    NEW t \in Trap, NEW i \in Intf, NEW pv \in PortVlan
             PROVE  (flow[CookieOf(t, i, pv)].of = t) <=> (pv \in ListedData(t, i))
  BY DEF FlowsMatchLists
<1> DEFINE s == Between
           L == ListsOf(s)
           h == <<t, i>>
<1>1. /\ Core(s, L) /\ s.flow = flow /\ s.failed = 0
      /\ ListedData(t, i) = DataIn(s, L[h])
  BY ListedIs
<1>2. h \in Header /\ h[1] = t /\ h[2] = i
  BY HeaderOf
<1> HIDE DEF s, L, h
<1>3. FlowFor(s, h, pv).of = h[1] <=> pv \in DataIn(s, L[h])
  BY <1>1, <1>2 DEF Core, Exact, Accounted
<1> QED BY <1>1, <1>2, <1>3 DEF FlowFor

LEMMA AskedIs == TrapInv => (OwnCookies => ListAsAsked)
<1> SUFFICES ASSUME TrapInv, OwnCookies, failed = 0,
                    NEW t \in Trap \ SystemTrap, NEW i \in Intf
             PROVE  /\ asked[<<t, i>>] \subseteq ListedData(t, i)
                    /\ rounds[<<t, i>>] # 1 => ListedData(t, i) = asked[<<t, i>>]
  BY DEF ListAsAsked
<1> DEFINE s == Between
           L == ListsOf(s)
           h == <<t, i>>
<1>1. /\ Core(s, L) /\ Others(s, L, {}, asked, rounds) /\ s.failed = 0
      /\ ListedData(t, i) = DataIn(s, L[h])
  BY ListedIs
<1>2. h \in Header /\ h[1] = t /\ h[2] = i
  BY HeaderOf
<1> HIDE DEF s, L
<1>3. AsAsked(s, L, h, asked, rounds)
  BY <1>1, <1>2 DEF Exact, Others, Served
<1> QED BY <1>1, <1>3 DEF AsAsked

LEMMA FlaggedFollow == TrapInv => (OwnCookies => FlaggedTrapsFollow)
<1> SUFFICES ASSUME TrapInv, OwnCookies, failed = 0,
                    NEW t \in Trap \ SystemTrap, NEW i \in Intf,
                    trap[t].notSet[i], FlowAction(trap[t].action) # "unsupported",
                    NEW pv \in ListedData(t, i)
             PROVE  flow[CookieOf(t, i, pv)].action = FlowAction(trap[t].action)
  BY DEF FlaggedTrapsFollow
<1> DEFINE s == Between
           L == ListsOf(s)
           h == <<t, i>>
<1>1. /\ Core(s, L) /\ Others(s, L, {}, asked, rounds) /\ s.failed = 0
      /\ s.trap = trap /\ s.flow = flow
      /\ ListedData(t, i) = DataIn(s, L[h])
  BY ListedIs
<1>2. h \in Header /\ h[1] = t /\ h[2] = i
  BY HeaderOf
<1> HIDE DEF s, L, h
<1>3. Follows(s, L, h)
  BY <1>1, <1>2 DEF Exact, Others, Served
<1>4. PICK n \in Elems(L[h]) : pv = s.cell[n].data
  BY <1>1 DEF DataIn
<1>5. FlowFor(s, h, s.cell[n].data).action = FlowAction(s.trap[h[1]].action)
  BY <1>1, <1>2, <1>3 DEF Follows
<1> QED BY <1>1, <1>2, <1>4, <1>5 DEF FlowFor

\* Setting lists and actions (mrvl_hostif_trap_list_set, ..._action_set), in
\* any order and whichever flow or malloc fails: no loop of a call goes past
\* the end of a list, and takes its header for an element, but of one whose
\* first setting was cut short with its count already stored
\* (host_interface.c:1484).  Until one does, the lists of all traps stay rings
\* of live elements, apart from each other; what such a loop unlinks and frees
\* then is outside the model.  Unless a call failed before, the counts are the
\* lengths, so that no loop ever does, and no element is leaked, if no two
\* traps share the entry type that keys their flows.
THEOREM TrapListsIntact ==
  TrapSpec => []( /\ ends.passed = {} => RingsWhole /\ MembersLive
                  /\ CountWithin
                  /\ OwnCookies => ListsIntact )
<1>1. TrapInv => /\ ends.passed = {} => RingsWhole /\ MembersLive
                 /\ CountWithin
                 /\ OwnCookies => ListsIntact
  BY RingsAre, CountsAre, IntactIs
<1> QED BY <1>1, TrapsHold, PTL

\* After any calls that have not failed, the flows of a trap in the switch are
\* those of the members of its lists: no list leaves a flow behind or lacks one.
THEOREM TrapFlowsMatch == TrapSpec => [](OwnCookies => FlowsMatchLists)
BY FlowsAre, TrapsHold, PTL

\* The lists of a trap are those a client last set, in whatever order it named
\* the members; only the second list may keep members of the first, by marks
\* that malloc left.
THEOREM TrapListsAsAsked == TrapSpec => [](OwnCookies => ListAsAsked)
BY AskedIs, TrapsHold, PTL

\* An action set before or after a list reaches the flows of all its members,
\* those that later lists add included.
THEOREM TrapsFollow == TrapSpec => [](OwnCookies => FlaggedTrapsFollow)
BY FlaggedFollow, TrapsHold, PTL

=============================================================================
