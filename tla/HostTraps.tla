----------------------------- MODULE HostTraps ------------------------------
(***************************************************************************)
(* Host interface traps (mrvl_sai_host_interface.c): the action of each    *)
(* kind of control packet, the sorted lists of ports and VLANs it is       *)
(* trapped on, and the flows of the CONTROL_PKT table that must follow     *)
(* both.  Each call is one step, loops and early returns included.         *)
(***************************************************************************)
EXTENDS DList, Integers

CONSTANTS
  Trap,          \* bound: the trap ids whose attributes a client sets
  Actions,       \* bound: the actions a client sets
  Objects,       \* [Intf -> object ids a client lists, as numbers]
  MaxCalls,      \* bound on the hardware calls of a call
  MaxMallocs,    \* bound on the allocations of a call
  MaxAfter,      \* bound on the calls that follow one that met a fault
  TrapFaults     \* what may fail: "flow", "malloc"

Intf == {"port", "vlan"}
PacketAction == {"DROP", "DENY", "COPY", "TRAP", "LOG", "FORWARD",
                 "COPY_CANCEL", "TRANSIT"}
TrapHeaders == Trap \X Intf

ASSUME TrapConstants ==
  /\ Header = TrapHeaders /\ Null \notin Trap
  /\ IsFiniteSet(Node)
  /\ Actions \subseteq PacketAction
  /\ Objects \in [Intf -> SUBSET Nat] /\ \A i \in Intf : IsFiniteSet(Objects[i])
  /\ {MaxCalls, MaxMallocs} \subseteq Nat /\ MaxAfter \in Nat
  /\ TrapFaults \subseteq {"flow", "malloc"}

-----------------------------------------------------------------------------
(* The kinds of control packets.                                           *)

Igmp == {"IGMP_QUERY", "IGMP_LEAVE", "IGMP_V1_REPORT", "IGMP_V2_REPORT",
         "IGMP_V3_REPORT"}
Arp == {"ARP_REQUEST", "ARP_RESPONSE"}
Reserved == {"STP", "LACP", "LLDP"}
L2Multicast == {"OSPF", "PIM", "VRRP", "BGP"}
Ipv6Icmp == {"DHCPV6", "OSPFV6", "VRRPV6", "BGPV6", "MLD_V1_V2",
             "MLD_V1_REPORT", "MLD_V1_DONE", "MLD_V2_REPORT"}

\* mrvl_sai_host_interface_trap_conv_entry_type
EntryType(t) ==
  CASE t \in Reserved    -> "IEEE_RESERVED_MULTICAST"
    [] t \in Igmp        -> "IGMP_CTRL_MESSAGES"
    [] t \in Arp         -> "ARP_REQUEST_MESSAGES"
    [] t = "DHCP"        -> "UDP_BROADCAST_CTRL"
    [] t \in L2Multicast -> "PROPRIETRY_L2_MULTICAST"
    [] t \in Ipv6Icmp    -> "IPV6_MLD_ICMP_MESSAGES"
    [] OTHER             -> "unsupported"

\* mrvl_sai_host_interface_trap_is_port_vlan_supported: the protocols of
\* the system have one flow and no lists.
SystemTrap == Reserved \cup L2Multicast

\* mrvl_sai_host_interface_trap_set_default_action
DefaultFlow(t) ==
  CASE t \in Reserved \cup {"EAPOL", "PVRST"} -> "drop"
    [] t \in Igmp \cup {"SAMPLEPACKET", "L3_MTU_ERROR", "TTL_ERROR"} -> "trap"
    [] OTHER -> "forward"

-----------------------------------------------------------------------------
VARIABLES
  trap,     \* mrvl_sai_hostif_trap_table
  mem,      \* the pointers of list headers and elements
  cell,     \* allocated elements: data and valid
  flow,     \* the CONTROL_PKT table by cookie: action, and trap it matches
  failed,   \* 0, or the calls from the first that met a fault
  ends,     \* how lists end: see Ends
  asked,    \* the list last set for each trap and interface type
  rounds    \* lists set since the first one, counted to 2

trapVars == <<trap, mem, cell, flow, failed, ends, asked, rounds>>

PortVlan == {0} \cup UNION {Objects[i] : i \in Intf}
Cookie == {EntryType(t) : t \in Trap} \X Intf \X PortVlan

\* Mutant: the kind of interface is left out of the cookie.
CookieOfNoIntf(t, i, pv) == <<EntryType(t), "port", pv>>

CookieOf(t, i, pv) == <<EntryType(t), i, pv>>

\* Headers whose first list failed half way, with a count set before its
\* elements were made; and headers that a loop removing elements has then
\* come to and takes for one of them, clearing a byte beside it as its mark
\* or unlinking it and freeing what was never allocated.  The process is
\* followed to that point and no further.
Ends == [short : SUBSET Header, passed : SUBSET Header]
NoEnds == [short |-> {}, passed |-> {}]

NoFlow == [action |-> "none", of |-> Null]
FreeCell == [used |-> FALSE, data |-> 0, valid |-> FALSE]

Both(v) == [i \in Intf |-> v]

TrapInit ==
  /\ trap = [t \in Trap |-> [action |-> "DROP", valid |-> Both(FALSE),
                             count |-> Both(0), notSet |-> Both(FALSE)]]
  /\ mem = [e \in Elem |-> Unlinked]
  /\ cell = [n \in Node |-> FreeCell]
  /\ flow = [c \in Cookie |-> NoFlow]
  /\ failed = 0 /\ ends = NoEnds
  /\ asked = [h \in Header |-> {}]
  /\ rounds = [h \in Header |-> 0]

-----------------------------------------------------------------------------
(* A call is computed on a record of the state: ok until it returns an     *)
(* error, hw and room the hardware calls and allocations that will work,   *)
(* junk what malloc leaves in the valid field of each element, stray what  *)
(* lies beside a header where an element has its datum: the low half of a  *)
(* pointer for a list of ports, the count of ports for one of VLANs.       *)

Data(s) == [n \in Node |-> s.cell[n].data]
Return(s) == [s EXCEPT !.ok = FALSE]
Fail(s) == [s EXCEPT !.ok = FALSE, !.failed = IF @ = 0 THEN 1 ELSE @]

\* A hardware call that leaves the flows as given.
Hardware(s, flows) ==
  IF s.hw = 0 THEN Fail(s) ELSE [s EXCEPT !.flow = flows, !.hw = @ - 1]

\* What mrvl_sai_host_interface_trap_action_set makes of an action; LOG
\* falls through to FORWARD.
FlowAction(a) ==
  CASE a \in {"DROP", "DENY"}   -> "drop"
    [] a \in {"COPY", "TRAP"}   -> "trap"
    [] a \in {"LOG", "FORWARD"} -> "forward"
    [] OTHER                    -> "unsupported"

\* mrvl_sai_host_interface_trap_list_set: a flow is added with the trap's
\* default action; one with its cookie is written back as it was.
FlowSet(s, t, i, pv) ==
  LET c == CookieOf(t, i, pv) IN
  IF s.flow[c] # NoFlow THEN Hardware(s, s.flow)
  ELSE Hardware(s, [s.flow EXCEPT ![c] = [action |-> DefaultFlow(t), of |-> t]])

\* mrvl_sai_host_interface_trap_list_delete
FlowDelete(s, t, i, pv) ==
  LET c == CookieOf(t, i, pv) IN
  IF s.flow[c] = NoFlow THEN Return(s)
  ELSE Hardware(s, [s.flow EXCEPT ![c] = NoFlow])

\* mrvl_sai_host_interface_trap_action_set: the stored action is applied.
FlowApply(s, t, i, pv) ==
  LET c == CookieOf(t, i, pv)
      a == FlowAction(s.trap[t].action)
  IN  IF s.flow[c] = NoFlow \/ a = "unsupported" THEN Return(s)
      ELSE Hardware(s, [s.flow EXCEPT ![c].action = a])

-----------------------------------------------------------------------------
(* Elements.                                                               *)

FreeCells(s) == {n \in Node : ~s.cell[n].used}
NewCell(s) == CHOOSE n \in FreeCells(s) : TRUE

Malloc(s, d, valid) ==
  IF s.room = 0 \/ FreeCells(s) = {} THEN Fail(s)
  ELSE [s EXCEPT !.room = @ - 1,
                 !.cell[NewCell(s)] = [used |-> TRUE, data |-> d, valid |-> valid]]

\* What a freed element still holds is not kept: it is written before it is read.
Free(s, n) ==
  IF s.ok THEN [s EXCEPT !.cell[n] = FreeCell, !.mem[n] = Unlinked] ELSE s

\* An element linked by Insert and its flow; new is the cell it will be.
AddElement(s, t, i, d, valid, count, Insert(_, _)) ==
  LET new  == NewCell(s)
      made == Malloc(s, d, valid)
  IN  IF ~made.ok THEN made
      ELSE FlowSet([made EXCEPT !.mem = Insert(made, new),
                                !.trap[t].count[i] = @ + count], t, i, d)

\* Steps of a loop on a record, left at the first error.
Loop(s, list, Body(_, _)) ==
  LET Step(acc, x) == IF acc.ok THEN Body(acc, x) ELSE acc
      after[k \in 0 .. Len(list)] ==
        IF k = 0 THEN s ELSE Step(after[k - 1], list[k])
  IN  after[Len(list)]

\* The loops that count elements: at is the element the loop has reached.
WalkCounted(s, t, i, Body(_)) ==
  Loop([s EXCEPT !.at = GetFirst(s.mem, <<t, i>>)],
       [k \in 1 .. s.trap[t].count[i] |-> k], LAMBDA acc, k : Body(acc))

\* What a loop takes for the datum of what it has reached.
DataAt(s) == IF s.at \in Node THEN s.cell[s.at].data ELSE s.stray

ApplyAll(s, t, i) ==
  WalkCounted(s, t, i, LAMBDA acc :
    [FlowApply(acc, t, i, DataAt(acc)) EXCEPT !.at = GetNext(acc.mem, acc.at)])

-----------------------------------------------------------------------------
(* mrvl_hostif_trap_list_set.                                              *)

\* The first list of a trap: the count is stored, then the elements are
\* inserted, their valid fields as malloc left them.
FirstList(s, t, i, list) ==
  LET h  == <<t, i>>
      s1 == [s EXCEPT !.trap[t] = [@ EXCEPT !.valid[i] = TRUE, !.count[i] = Len(list)],
                      !.mem = ListInit(@, h)]
      s2 == Loop(s1, list, LAMBDA acc, d :
              AddElement(acc, t, i, d, acc.junk, 0, LAMBDA m, n :
                         InsertSorted(m.mem, Data(m), h, n, d)))
  IN  IF s2.ok THEN s2 ELSE [s2 EXCEPT !.ends.short = @ \cup {h}]

\* An empty list: the elements are taken from the head.
EmptyList(s, t, i) ==
  LET h == <<t, i>> IN
  Loop([s EXCEPT !.trap[t].count[i] = 0], ListOf(s.mem, h), LAMBDA acc, n :
    Free(FlowDelete([acc EXCEPT !.mem = RemoveFromHead(@, h)],
                    t, i, acc.cell[n].data), n))

\* Mutant: an element is counted before it is allocated.
MarkMembersCountFirst(s, t, i, list) ==
  LET h == <<t, i>> IN
  Loop(s, list, LAMBDA acc, d :
    LET e == FindSorted(acc.mem, Data(acc), h, d) IN
    IF Found(acc.mem, Data(acc), h, d)
    THEN [acc EXCEPT !.cell[e].valid = TRUE]
    ELSE AddElement([acc EXCEPT !.trap[t].count[i] = @ + 1], t, i, d, TRUE, 0,
                    LAMBDA m, n : InsertBefore(m.mem, e, n)))

\* The members of the list are inserted or marked valid ...
MarkMembers(s, t, i, list) ==
  LET h == <<t, i>> IN
  Loop(s, list, LAMBDA acc, d :
    LET e == FindSorted(acc.mem, Data(acc), h, d) IN
    IF Found(acc.mem, Data(acc), h, d)
    THEN [acc EXCEPT !.cell[e].valid = TRUE]
    ELSE AddElement(acc, t, i, d, TRUE, 1, LAMBDA m, n :
                    InsertBefore(m.mem, e, n)))

\* An element is taken off its list, counted off first.
DropElement(s, t, i, n) ==
  Free(FlowDelete([s EXCEPT !.trap[t].count[i] = @ - 1, !.mem = Unlink(@, n)],
                  t, i, s.cell[n].data), n)

\* The loop has come to the header.
Pass(s, h) == [Return(s) EXCEPT !.ends.passed = @ \cup {h}]

\* Mutant: a member that stays keeps its mark for the next list.
DropUnmarkedKeepMark(s, t, i) ==
  WalkCounted(s, t, i, LAMBDA acc :
    IF acc.at \notin Node THEN Pass(acc, <<t, i>>)
    ELSE [(IF acc.cell[acc.at].valid THEN acc ELSE DropElement(acc, t, i, acc.at))
            EXCEPT !.at = GetNext(acc.mem, acc.at)])

\* ... and the others removed, the marks of those that stay cleared.
DropUnmarked(s, t, i) ==
  WalkCounted(s, t, i, LAMBDA acc :
    IF acc.at \notin Node THEN Pass(acc, <<t, i>>)
    ELSE [(IF acc.cell[acc.at].valid THEN [acc EXCEPT !.cell[acc.at].valid = FALSE]
           ELSE DropElement(acc, t, i, acc.at))
            EXCEPT !.at = GetNext(acc.mem, acc.at)])

NextList(s, t, i, list) ==
  LET marked == MarkMembers(s, t, i, list) IN
  CASE list = <<>> -> EmptyList(s, t, i)
    [] OTHER       -> IF marked.ok THEN DropUnmarked(marked, t, i) ELSE marked

\* The flag says the action was set while the list was empty; it is
\* cleared in a local variable only.
ListSet(s, t, i, list) ==
  LET s1 == IF s.trap[t].valid[i] THEN NextList(s, t, i, list)
            ELSE FirstList(s, t, i, list)
  IN  IF s1.ok /\ s1.trap[t].notSet[i] /\ s1.trap[t].count[i] # 0
      THEN ApplyAll(s1, t, i) ELSE s1

-----------------------------------------------------------------------------
(* mrvl_hostif_trap_action_set.                                            *)

\* Protocols of the system: a flow of port 0, made by the first change;
\* no list is set after it, so that the valid field is not read.
SystemActionSet(s, t, a) ==
  LET h  == <<t, "port">>
      s1 == [s EXCEPT !.trap[t] = [@ EXCEPT !.action = a, !.valid["port"] = TRUE]]
      s2 == IF s.trap[t].valid["port"] THEN s1
            ELSE AddElement([s1 EXCEPT !.mem = ListInit(@, h)], t, "port", 0,
                            FALSE, 0, LAMBDA m, n : InsertToHead(m.mem, h, n))
  IN  IF s.trap[t].action = a THEN s
      ELSE IF s2.ok THEN FlowApply(s2, t, "port", 0) ELSE s2

\* The lists the action has to be applied to when they are set.
LateAction(s, t) ==
  [i \in Intf |-> s.trap[t].notSet[i] \/ s.trap[t].count[i] = 0]

\* Mutant: the VLANs are left as they are.
ListedActionSetPorts(s, t, a) ==
  LET s1 == [s EXCEPT !.trap[t] = [@ EXCEPT !.action = a, !.notSet = LateAction(s, t)]]
  IN  IF s.trap[t].action = a THEN s1 ELSE ApplyAll(s1, t, "port")

ListedActionSet(s, t, a) ==
  LET s1 == [s EXCEPT !.trap[t] = [@ EXCEPT !.action = a, !.notSet = LateAction(s, t)]]
      s2 == ApplyAll(s1, t, "port")
  IN  IF s.trap[t].action = a THEN s1
      ELSE IF s2.ok THEN ApplyAll(s2, t, "vlan") ELSE s2

-----------------------------------------------------------------------------
(* The calls.                                                              *)

\* How many hardware calls and allocations will work: one in a behaviour
\* may fail.
Budgets ==
  {[hw |-> MaxCalls, room |-> MaxMallocs]} \cup
    (IF failed > 0 THEN {}
     ELSE [hw : IF "flow" \in TrapFaults THEN 0 .. MaxCalls - 1 ELSE {},
           room : {MaxMallocs}]
          \cup [hw : {MaxCalls},
                room : IF "malloc" \in TrapFaults THEN 0 .. MaxMallocs - 1 ELSE {}])

\* The state before a call, and after it.
Start(budget, junk, stray) ==
  [trap |-> trap, mem |-> mem, cell |-> cell, flow |-> flow, ends |-> ends,
   failed |-> IF failed = 0 THEN 0 ELSE failed + 1, ok |-> TRUE,
   hw |-> budget.hw, room |-> budget.room, junk |-> junk, stray |-> stray,
   at |-> Null]

Result(s) ==
  /\ trap' = s.trap /\ mem' = s.mem /\ cell' = s.cell /\ flow' = s.flow
  /\ failed' = s.failed /\ ends' = s.ends

\* Only a list cut short leads a loop to what lies beside its header.
Strays == IF ends.short = {} THEN {0} ELSE PortVlan

Call(junk, Operation(_)) ==
  /\ ends.passed = {} /\ failed <= MaxAfter
  /\ \E budget \in Budgets, stray \in Strays :
       Result(Operation(Start(budget, junk, stray)))

Members(list) == {list[k] : k \in DOMAIN list}

\* What a client lists: objects of a kind, each once, in any order.
Lists(i) ==
  {list \in UNION {[1 .. n -> Objects[i]] : n \in 0 .. Cardinality(Objects[i])} :
     \A j, k \in DOMAIN list : list[j] = list[k] => j = k}

\* mrvl_hostif_trap_port_list_set, mrvl_hostif_trap_vlan_list_set: those of
\* ARP are ignored, those of the system and of no entry type refused.
SetList(t, i, list) ==
  /\ t \notin SystemTrap \cup Arp /\ EntryType(t) # "unsupported"
  /\ \E junk \in BOOLEAN : Call(junk, LAMBDA s : ListSet(s, t, i, list))
  /\ IF failed' > 0 THEN UNCHANGED <<asked, rounds>>
     ELSE /\ asked' = [asked EXCEPT ![<<t, i>>] = Members(list)]
          /\ rounds' = [rounds EXCEPT ![<<t, i>>] =
               IF ~trap[t].valid[i] THEN 0 ELSE IF @ = 2 THEN 2 ELSE @ + 1]

SetAction(t, a) ==
  /\ t \notin Arp /\ EntryType(t) # "unsupported"
  /\ Call(FALSE, LAMBDA s : IF t \in SystemTrap THEN SystemActionSet(s, t, a)
                            ELSE ListedActionSet(s, t, a))
  /\ UNCHANGED <<asked, rounds>>

TrapNext ==
  \E t \in Trap :
    \/ \E i \in Intf : \E list \in Lists(i) : SetList(t, i, list)
    \/ \E a \in Actions : SetAction(t, a)

TrapSpec == TrapInit /\ [][TrapNext]_trapVars

-----------------------------------------------------------------------------
(* Properties.                                                             *)

Listed(t, i) == LET list == ListOf(mem, <<t, i>>) IN {list[k] : k \in 1 .. Len(list)}
ListedData(t, i) == {cell[n].data : n \in Listed(t, i)}
ValidHeaders == {h \in Header : trap[h[1]].valid[h[2]]}

\* The lists are disjoint and made of elements not yet freed, whichever
\* call fails half way.
MembersLive ==
  \A h \in ValidHeaders :
    /\ \A n \in Listed(h[1], h[2]) : cell[n].used
    /\ \A g \in ValidHeaders \ {h} :
         Listed(h[1], h[2]) \cap Listed(g[1], g[2]) = {}

\* "number of ports in linked list": the loops that count elements end where
\* the list does.
CountIsLength ==
  \A t \in Trap \ SystemTrap, i \in Intf :
    trap[t].count[i] = Cardinality(Listed(t, i))

\* Whichever call has failed, no loop goes past the end of a list but one
\* whose first setting was cut short.
CountWithin ==
  /\ ends.passed \subseteq ends.short
  /\ \A t \in Trap \ SystemTrap, i \in Intf :
       <<t, i>> \notin ends.short =>
         trap[t].count[i] <= Cardinality(Listed(t, i))

\* No element is leaked: what is allocated is on a list.
CellsListed ==
  {n \in Node : cell[n].used} = UNION {Listed(h[1], h[2]) : h \in ValidHeaders}

\* The lists of the traps share the memory they are linked through.  Until
\* a loop takes a header for an element, each stays a ring of its own live
\* elements, whichever allocation or flow fails; and that happens only to a
\* list whose first setting failed half way, its count already set.  With no
\* failure, a list has as many elements as its count says and no element is
\* on no list.
ListsIntact ==
  /\ ends.passed = {} =>
       /\ \A h \in ValidHeaders : Linked(mem, {h} \cup Listed(h[1], h[2]))
       /\ MembersLive
  /\ CountWithin
  /\ failed = 0 => ends = NoEnds /\ CountIsLength /\ CellsListed

\* "enable trap for a list of SAI ports": the flows of a trap are those of
\* the members of its lists, and match that trap.
FlowsMatchLists ==
  failed = 0 =>
    \A t \in Trap, i \in Intf, pv \in PortVlan :
      (flow[CookieOf(t, i, pv)].of = t) <=> (pv \in ListedData(t, i))

\* The list is the one last set: exactly, but for the second one set, which
\* may keep members of the first whose valid field malloc left true.
ListAsAsked ==
  failed = 0 =>
    \A t \in Trap \ SystemTrap, i \in Intf :
      /\ asked[<<t, i>>] \subseteq ListedData(t, i)
      /\ rounds[<<t, i>>] # 1 => ListedData(t, i) = asked[<<t, i>>]

\* Once an action was set before the list, all members follow the action
\* of the trap, unless it is one the switch does not support.
FlaggedTrapsFollow ==
  failed = 0 =>
    \A t \in Trap \ SystemTrap, i \in Intf :
      LET a == FlowAction(trap[t].action) IN
      (trap[t].notSet[i] /\ a # "unsupported") =>
        \A pv \in ListedData(t, i) : flow[CookieOf(t, i, pv)].action = a

=============================================================================
