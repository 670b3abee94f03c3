--------------------------- MODULE HostInterface ----------------------------
(***************************************************************************)
(* Host interfaces (mrvl_sai_host_interface.c): the tap device of a port,  *)
(* the thread that sends what the network stack writes to the devices out  *)
(* of the ports, and the thread that hands what the ports trap to the      *)
(* devices.  The client thread stores the parts of a host interface one by *)
(* one while both threads read them; only read_fd_set is under the lock,   *)
(* and each of its two critical sections is one step here.                 *)
(***************************************************************************)
EXTENDS Integers, Sequences, FiniteSets

CONSTANTS
  NumPorts,    \* SAI_MAX_NUM_OF_PORTS
  Device,      \* names of tap devices; also their descriptors, see Opened
  Stdin,       \* the descriptor 0, which memset leaves in host_fd
  BadFd,       \* the negative value mrvl_sai_netdev_alloc fails with
  MaxCreates,  \* bound: how many host interfaces a client creates
  Faults       \* what the system may do: fail to open, interrupt select

ASSUME HostConstants ==
  /\ NumPorts \in Nat \ {0} /\ MaxCreates \in Nat
  /\ Stdin \notin Device /\ BadFd \notin Device /\ Stdin # BadFd
  /\ Faults \subseteq {"open", "signal"}

VARIABLES
  hostFd,      \* host_fd
  readFdSet,   \* read_fd_set
  readFdNum,   \* read_fd_num
  create,      \* the client thread in mrvl_sai_create_host_interface
  tap,         \* the tap thread in mrvl_sai_tap_listen
  asic,        \* the asic thread in mrvl_sai_asic_listen
  opened,      \* devices this process has open; it closes none
  pending,     \* devices with a packet of the network stack to read
  named,       \* the devices the client has named for each port
  moved        \* <<descriptor, port>>: packets passed from one to the other

clientVars == <<hostFd, readFdSet, readFdNum, create, opened, named>>
vars == <<clientVars, tap, asic, pending, moved>>

Port == 0 .. NumPorts - 1
Descriptor == Device \cup {Stdin, BadFd}

NoName  == Stdin     \* the empty name of a slot cleared by memset
Cleared == [valid |-> FALSE, fd |-> Stdin, name |-> NoName]

\* Mutant: the slot is marked valid before it is filled.
StoreOrderValidFirst == <<"valid", "fd", "name", "set">>

\* The order in which the parts of a host interface are stored.
StoreOrder == <<"fd", "name", "set", "valid">>

Init ==
  /\ hostFd = [p \in Port |-> Cleared]
  /\ readFdSet = {}
  /\ readFdNum = 0
  /\ create = [at |-> 0, port |-> 0, name |-> NoName, fd |-> Stdin]
  /\ tap = [pc |-> "off", rd |-> {}, left |-> 0, port |-> 0, fd |-> Stdin]
  /\ asic = [pc |-> "off", port |-> 0, fd |-> Stdin]
  /\ opened = {} /\ pending = {}
  /\ named = [p \in Port |-> {}]
  /\ moved = {}

-----------------------------------------------------------------------------
(* Creation, in the client's thread.                                       *)

\* The slots as a creation finds them: the first clears them all.
Slots == IF readFdNum = 0 THEN [p \in Port |-> Cleared] ELSE hostFd

\* mrvl_sai_netdev_alloc: the kernel attaches a device to one descriptor,
\* so that a name this process has open cannot be opened again.
Allocated(d) ==
  IF d \in opened THEN {BadFd}
  ELSE IF "open" \in Faults THEN {d, BadFd} ELSE {d}

\* Mutant: the name is looked for in the slots of all ports.
DescriptorOfAny(p, d) ==
  LET Has == {q \in Port : Slots[q].name = d} IN
  IF Has # {} THEN {Slots[q].fd : q \in Has} ELSE Allocated(d)

\* A port that has the name already keeps its descriptor, whatever it is.
DescriptorFor(p, d) ==
  IF Slots[p].name = d THEN {Slots[p].fd} ELSE Allocated(d)

BeginCreate(p, d) ==
  /\ create.at = 0 /\ readFdNum < MaxCreates
  /\ hostFd' = Slots
  /\ readFdSet' = IF readFdNum = 0 THEN {} ELSE readFdSet
  /\ named' = [named EXCEPT ![p] = @ \cup {d}]
  /\ \E fd \in DescriptorFor(p, d) :
       /\ create' = [at |-> 1, port |-> p, name |-> d, fd |-> fd]
       /\ opened' = opened \cup ({fd} \ {BadFd})
  /\ UNCHANGED <<readFdNum, tap, asic, pending, moved>>

\* FD_SET of a negative number sets the bit of a descriptor that is not
\* open, or nothing.
FdSet(fd) ==
  IF fd = BadFd THEN {readFdSet, readFdSet \cup {BadFd}}
  ELSE {readFdSet \cup {fd}}

StorePart ==
  LET p    == create.port
      Part(name) == /\ create.at \in 1 .. Len(StoreOrder)
                    /\ StoreOrder[create.at] = name
  IN
  /\ \/ /\ Part("fd")
        /\ hostFd' = [hostFd EXCEPT ![p].fd = create.fd]
        /\ UNCHANGED readFdSet
     \/ /\ Part("name")
        /\ hostFd' = [hostFd EXCEPT ![p].name = create.name]
        /\ UNCHANGED readFdSet
     \/ /\ Part("set")
        /\ readFdSet' \in FdSet(create.fd)
        /\ UNCHANGED hostFd
     \/ /\ Part("valid")
        /\ hostFd' = [hostFd EXCEPT ![p].valid = TRUE]
        /\ UNCHANGED readFdSet
  /\ create' = [create EXCEPT !.at = @ + 1]
  /\ UNCHANGED <<readFdNum, opened, named, tap, asic, pending, moved>>

\* The first creation starts the threads.
EndCreate ==
  /\ create.at = Len(StoreOrder) + 1
  /\ create' = [create EXCEPT !.at = 0]
  /\ readFdNum' = readFdNum + 1
  /\ tap' = IF readFdNum = 0 THEN [tap EXCEPT !.pc = "copy"] ELSE tap
  /\ asic' = IF readFdNum = 0 THEN [asic EXCEPT !.pc = "receive"] ELSE asic
  /\ UNCHANGED <<hostFd, readFdSet, opened, named, pending, moved>>

CreateGoesOn == StorePart \/ EndCreate

CreateHostInterface ==
  \/ \E p \in Port, d \in Device : BeginCreate(p, d)
  \/ CreateGoesOn

-----------------------------------------------------------------------------
(* The tap thread.                                                         *)

TapCopy ==
  /\ tap.pc = "copy"
  /\ tap' = [tap EXCEPT !.pc = "select", !.rd = readFdSet]
  /\ UNCHANGED <<clientVars, asic, pending, moved>>

\* Mutant: select has no timeout.
TimesOutNever(Ready) == FALSE

\* select returns after two seconds when nothing can be read.
TimesOut(Ready) == Ready = {}

\* Only when it is interrupted does the thread end; after any other error,
\* of which a bad descriptor is one, it tries again.
TapSelect ==
  LET Ready == tap.rd \cap pending IN
  /\ tap.pc = "select"
  /\ \/ /\ BadFd \notin tap.rd /\ Ready # {}
        /\ tap' = [tap EXCEPT !.pc = "scan", !.rd = Ready, !.port = 0,
                              !.left = Cardinality(Ready)]
     \/ /\ BadFd \notin tap.rd /\ TimesOut(Ready)
        /\ tap' = [tap EXCEPT !.pc = "copy"]
     \/ /\ BadFd \in tap.rd
        /\ tap' = [tap EXCEPT !.pc = "copy"]
  /\ UNCHANGED <<clientVars, asic, pending, moved>>

TapInterrupted ==
  /\ tap.pc = "select" /\ "signal" \in Faults
  /\ tap' = [tap EXCEPT !.pc = "stopped"]
  /\ UNCHANGED <<clientVars, asic, pending, moved>>

\* The scan ends with the ports, or when all that is ready was found.
ScanOver(p, left) == p = NumPorts \/ left = 0

\* FD_ISSET of a negative number finds any bit.
FdIsSet(fd) == IF fd = BadFd THEN BOOLEAN ELSE {fd \in tap.rd}

TapScan ==
  /\ tap.pc = "scan"
  /\ IF ScanOver(tap.port, tap.left) THEN tap' = [tap EXCEPT !.pc = "copy"]
     ELSE \E set \in FdIsSet(hostFd[tap.port].fd) :
            IF hostFd[tap.port].valid /\ set
            THEN tap' = [tap EXCEPT !.pc = "read", !.left = @ - 1,
                                    !.fd = hostFd[tap.port].fd]
            ELSE tap' = [tap EXCEPT !.port = @ + 1]
  /\ UNCHANGED <<clientVars, asic, pending, moved>>

\* Reading a descriptor that is not open fails, and nothing is sent.
TapRead ==
  /\ tap.pc = "read"
  /\ pending' = pending \ {tap.fd}
  /\ moved' = IF tap.fd = BadFd THEN moved ELSE moved \cup {<<tap.fd, tap.port>>}
  /\ tap' = [tap EXCEPT !.pc = "scan", !.port = @ + 1]
  /\ UNCHANGED <<clientVars, asic>>

TapListen == TapCopy \/ TapSelect \/ TapScan \/ TapRead

-----------------------------------------------------------------------------
(* The asic thread, and the network stack.                                 *)

AsicReceive(p) ==
  /\ asic.pc = "receive"
  /\ hostFd[p].valid
  /\ asic' = [pc |-> "write", port |-> p, fd |-> hostFd[p].fd]
  /\ UNCHANGED <<clientVars, tap, pending, moved>>

AsicWrite ==
  /\ asic.pc = "write"
  /\ moved' = IF asic.fd = BadFd THEN moved
              ELSE moved \cup {<<asic.fd, asic.port>>}
  /\ asic' = [pc |-> "receive", port |-> 0, fd |-> Stdin]
  /\ UNCHANGED <<clientVars, tap, pending>>

AsicListen == (\E p \in Port : AsicReceive(p)) \/ AsicWrite

StackSends(d) ==
  /\ d \in opened \ pending
  /\ pending' = pending \cup {d}
  /\ UNCHANGED <<clientVars, tap, asic, moved>>

Next ==
  \/ CreateHostInterface
  \/ TapListen
  \/ TapInterrupted
  \/ AsicListen
  \/ \E d \in Device : StackSends(d)

\* The scheduler runs the tap thread as long as it has something to do, and
\* a call once made goes on; nothing makes clients, ports or the network
\* stack act.
Spec == /\ Init /\ [][Next]_vars
        /\ WF_vars(TapListen) /\ WF_vars(CreateGoesOn)

-----------------------------------------------------------------------------
(* Properties.                                                             *)

TapPc == {"off", "copy", "select", "scan", "read", "stopped"}

\* Every part of the state keeps its shape, the scan ends at the last port.
TypeOK ==
  /\ hostFd \in [Port -> [valid : BOOLEAN, fd : Descriptor,
                          name : Device \cup {NoName}]]
  /\ readFdSet \subseteq Descriptor /\ readFdNum \in Nat
  /\ create \in [at : 0 .. Len(StoreOrder) + 1, port : Port,
                 name : Device \cup {NoName}, fd : Descriptor]
  /\ tap \in [pc : TapPc, rd : SUBSET Descriptor, left : Nat,
              port : 0 .. NumPorts, fd : Descriptor]
  /\ asic \in [pc : {"off", "receive", "write"}, port : Port, fd : Descriptor]
  /\ opened \subseteq Device /\ pending \subseteq opened
  /\ named \in [Port -> SUBSET Device]
  /\ moved \subseteq Descriptor \X Port

\* Packets pass between a port and the devices the client named for it,
\* never another port's and never a descriptor that is no device, at
\* whatever point of a creation the threads look at the slot.
PacketsKeepPort == \A m \in moved : m[1] \in named[m[2]]

\* A descriptor belongs to one port: none is served twice in a scan.
SlotsSound ==
  /\ TypeOK
  /\ \A p, q \in Port :
       /\ hostFd[p].valid /\ hostFd[q].valid
       /\ hostFd[p].fd = hostFd[q].fd /\ hostFd[p].fd # BadFd
       => p = q

Current(d) == \E p \in Port : hostFd[p].valid /\ hostFd[p].fd = d

\* What the network stack writes to the device of a host interface leaves,
\* also when the interface was created while the thread slept in select:
\* unless the interface gets another device meanwhile, the thread was
\* interrupted, or some device could not be opened: select may then fail for
\* all and for ever.
DevicesServed ==
  \A d \in Device :
    d \in pending /\ Current(d) ~>
      \/ d \notin pending
      \/ ~Current(d)
      \/ tap.pc = "stopped"
      \/ BadFd \in readFdSet \/ \E p \in Port : hostFd[p].fd = BadFd

=============================================================================
