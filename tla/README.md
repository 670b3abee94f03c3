# A verification development for the Marvell SAI plugin

This directory holds TLA+ models of the SAI adapter in `src/` (a C library that
implements the Switch Abstraction Interface on top of Marvell's fpaLib), the TLC
runs that check them on small instances, and TLAPS proofs of the facts that
matter most for tables of any size. `PROJECT.json` maps every definition to the
lines it is translated from.

The adapter keeps its own tables and, call by call, writes what they say into
the switch. Nearly every defect such a program can have is a disagreement: a
list that does not hold what a slot claims, a count that is not a number of
things, a flow that leads to a neighbor that has gone. Each call is short; what
is hard to test is the state left by long sequences of legal calls, by objects
created and removed in another order than the tests use, by calls that fail half
way, and by the threads that read the tables meanwhile. That is what is modelled.

## 1. Inventory

An API function runs in its caller's thread from start to end. Four further
threads exist: the address update (AU) thread of the FDB, the port status thread,
and the tap and asic threads of the host interfaces. fpaLib and CPSS, below the
adapter, are external.

| Component | State it keeps | Operations | Calls / shares | What makes it correct |
|---|---|---|---|---|
| Virtual router (`mrvl_sai_router.c`) | slot: valid, MAC, `rif_ref_cntr` | create, remove, attributes, reference count | counted by router interfaces | count = number of interfaces; nothing outlives its router |
| Router interface (`mrvl_sai_router_intf.c`) | slot: router, type, port or VLAN, MAC, miss action, heads of the neighbor, next hop and route lists; MTU profiles | create (up to six flows, with roll-back), remove, set MAC, list heads, `rif_update_nbr_id` | virtual router; TERMINATION, VR_ID, CONTROL_PKT and FDB flows; L2 group of its port | lists hold exactly the live objects; removed only when empty; flows exist exactly for live interfaces |
| Neighbor (`mrvl_sai_neighbor.c`) | slot: used, MAC, address, next in list, next hop | create, remove, remove all, set MAC and action | list of its interface; L3 group with its index; /32 flow; tells next hops and routes | one per address and interface; group lives as long as the neighbor |
| Next hop (`mrvl_sai_nexthop.c`) | slot: used, interface, address, neighbor id, route list | create, remove, `next_hop_update_nbr_id` | list of its interface; neighbor; routes | its neighbor id is what the address resolves to now |
| Route (`mrvl_sai_route.c`) | hash entry: action, priority, next hop kind and index, neighbor id, list element | create, remove, set action / priority / next hop, update by neighbor | L3_UNICAST flow; list of next hop or interface | flow says what the configuration says; list membership = what the entry names |
| Next hop group (`mrvl_sai_nexthopgroup.c`) | slot: used, member count | create, remove, set list, add, remove member | ECMP group whose buckets refer to L3 groups | count = buckets; buckets follow the next hops' neighbors |
| LAG (`mrvl_sai_lag.c`) | slot: used, member count | create, remove, add and remove member | LAG group; object ids that carry port and LAG | count = buckets; removing a member removes that port from that LAG |
| FDB and AU thread (`mrvl_sai_fdb.c`) | none: the switch's L2_BRIDGING flows; the AU thread's event | create, remove, flush, set and get; poll of AU messages | notification table; L2 groups shared with VLANs | an entry forwards in its VLAN; events are reported in order, to the callback registered |
| VLAN (`mrvl_sai_vlan.c`) | none: flows and groups in the switch | members, tagging mode | L2 groups shared with FDB and interfaces | members leave tagged or not as asked |
| Port (`mrvl_sai_port.c`) | none: the switch | speed, flow control, learning, admin state, default VLAN and priority; statistics | one feature bitmap, one VLAN flow | what was set reads back, one setter not undoing another |
| Switch (`mrvl_sai_switch.c`) | notification table, `port_status`, init flags | initialise, shutdown, connect, disconnect, attributes; port status thread | initialises all others; starts two threads | the client knows the state links settle in; a withdrawn callback is not called for long |
| Host interface (`mrvl_sai_host_interface.c`) | `host_fd`, fd set, lock; trap table with sorted lists | create, trap lists and actions; tap and asic threads | CONTROL_PKT flows; tap devices | packets keep their port; flows = list members, with the trap's action |
| ACL (`mrvl_sai_acl.c`) | none | stubs | | |
| Utilities (`utils/mrvl_sai_utils.c`) | none | object ids, attribute checks and dispatch, fpaLib groups | everybody | an accepted attribute list is sound; an object id decodes to what it was made of |
| Hash table (`utils/mrvl_sai_hash.c`) | chains, free list, sorted list, sorted header, counters | initialise, insert, delete, clean, search, next by key | routes | a finite map; freed cells rest for a margin; successors are right whatever was deleted |
| List (`utils/mrvl_sai_dlist.c`) | links | insert, remove, move, find sorted | routes, host interface traps | a ring, whatever is inserted or removed |
| Stubs, interface query | tables of functions | | | |

Hard behaviours, by component: the three-way agreement of neighbors, next hops
and routes under any creation order; half-failed calls in every `create` and
`remove` of the layer-3 files (`PROJECT.json` "hazards" has each at its line);
stack variables used without having been set (`nh_idx` in
`mrvl_sai_create_neighbor_entry`, `status` in `mrvl_sai_rif_update_nbr_id`,
`nh_type` in the setting of a route's next hop, the match of a termination flow
when a MAC is set); list elements embedded in hash entries that are freed under
the list; counters that trust a helper's `numChanged`; buckets that refer to a
neighbor their next hop no longer has; L2 groups made by whoever needs them first
and taken away by whoever leaves; and four threads that read tables, descriptors
and callback pointers while a call writes them part by part, without a lock.

## 2. How the project was built, and what is left

Most important first, the layer-3 core being what the adapter's own logic is about.

1. `L3Tables`, `VirtualRouter`, `RouterInterface`, `NextHop`, `Neighbor`,
   `Route`, composed by `L3Forwarding`; proofs in `L3ForwardingProofs`.
2. `Lag`, with the object ids of members; proofs in `LagProofs`.
3. `CellStore`, what the hash table promises, and `HashTable`, its chains, lists
   and index, shown to implement it; proofs in `CellStoreProofs` and
   `UtilProofs`.
4. `NextHopGroup`, composed with the whole of `L3Forwarding` by
   `EcmpForwarding`; proofs in `EcmpProofs`.
5. `HostInterface`, the creation of interfaces against the tap and asic threads;
   `HostTraps`, the lists, actions and flows of traps, on `DList`; proofs about both
   in `HostInterfaceProofs`, about the operations of `DList` alone in `UtilProofs`.
6. `SwitchEvents`, initialisation, shutdown, connection and the two reporting
   threads; proofs in `SwitchEventsProofs`.
7. `L2Tables`, shared by `Vlan`, `Fdb`, `Port` and `RifFlows`, composed by
   `L2Switch`; proofs in `L2Proofs`.
8. `Attributes`, the checks and the dispatch every call goes through; proofs in
   `UtilProofs`.

Left, and worth doing: an abstract specification of the layer-3 core (a set of
adjacencies per interface and a decision per route) with `L3Forwarding` shown to
implement it; the setting of a neighbor's MAC and action.

## 3. Modules and the code

| Module | Models | Correspondence |
|---|---|---|
| `L3Tables` | the shared layer-3 tables and the part of the switch they mirror | `vrTable`, `rifTable`, `nbrTable`, `nhTable` are the arrays, `routeTable` the route hash; `l3Flow`, `directFlow`, `l3Group` are flows and groups fpaLib holds |
| `VirtualRouter` | `mrvl_sai_router.c` | `CreateVirtualRouter`, `RemoveVirtualRouter`; the count |
| `RouterInterface` | slots and list heads of `mrvl_sai_router_intf.c` | `CreateRouterInterface`, `RemoveRouterInterface` |
| `NextHop` | `mrvl_sai_nexthop.c` | `CreateNextHop`, `RemoveNextHop` |
| `Neighbor` | `mrvl_sai_neighbor.c` and its L3 group | `CreateNeighbor`, `RemoveNeighbor`, `RemoveAllNeighbors`; `UpdateNbrId` is the pair of update functions it calls |
| `Route` | `mrvl_sai_route.c` | `CreateRoute`, `RemoveRoute`, `SetRouteAction`, `SetRouteNextHop` |
| `L3Forwarding` | all of these as one system | one disjunct of `Next` per API table; the properties |
| `NextHopGroup` | `mrvl_sai_nexthopgroup.c`, the ECMP groups in `mrvl_sai_utils.c` | `nhgTable` is the array; `ecmp` the groups of the switch, a bucket being the neighbor whose L3 group it refers to; the five operations and `HopOf`, `HopCount`, what the get functions return |
| `EcmpForwarding` | next hop groups over the layer-3 adapter | every action of `L3Forwarding` under the groups; `told` is the list the client put together |
| `Lag` | `mrvl_sai_lag.c`, its groups in `mrvl_sai_utils.c`, the object ids of members | `lagTable` is the array; `groups` and `buckets` are what fpaLib holds; `told` is what the client believes: the members whose creation returned success and whose removal did not |
| `CellStore` | what `utils/mrvl_sai_hash.c` promises | `where` is the cell of each key, `idle` the queue of cells without one |
| `HashTable` | `utils/mrvl_sai_hash.c` | `table` is `mrvl_sai_utl_prv_hash_id_STC` with the memory its pointers lead to: `next`, `byKey`, `key` and `free` are the fields of an entry; `InsertHash`, `DeleteHash`, `CleanHash`, `GetNextSort` |
| `DList` | `utils/mrvl_sai_dlist.c` | a memory maps headers and elements to their two pointers; one operator per function |
| `HostInterface` | host interface creation, `mrvl_sai_tap_listen`, `mrvl_sai_asic_listen` | `hostFd`, `readFdSet`, `readFdNum` are the variables of these names; a creation is a step for each part it stores, the two sections under the lock are one step each |
| `HostTraps` | trap lists and trap actions of `mrvl_sai_host_interface.c` | `trap` is the table, `mem` and `cell` the list memory, `flow` the CONTROL_PKT table; a call is computed on a record of the state, loops and early returns included, with `Budgets` saying which hardware call or allocation fails |
| `SwitchEvents` | initialise, shutdown, connect, disconnect, `mrvl_sai_port_status_task` (`mrvl_sai_switch.c`); `mrvl_sai_fdb_wait_for_au_event` | `callbacks`, `portStatus`, `firstTime`, `opened` are the globals; a thread reads a pointer in one step and calls it in the next |
| `L2Tables` | the L2 groups of `mrvl_sai_utils.c`, VLAN and L2_BRIDGING flows | no copy exists in the adapter: what the switch holds is the state |
| `Vlan`, `Fdb`, `Port` | the three files | one action per call, getters as operators on the switch's state |
| `RifFlows` | the flows, L2 group and MTU profiles of `mrvl_sai_router_intf.c` | creation and removal in the order of their five steps (`Done`), `SetSrcMac`; the groups neighbors refer to are `l2Ref` |
| `L2Switch` | the four on their shared tables | the properties |
| `Attributes` | attribute checks, dispatch and list filling of `mrvl_sai_utils.c` | a table is a sequence, `CheckAttribs` is what the check returns, `GetAttributes` the values a get call has written |
| `*Proofs` | | theorems and their proofs |
| `MC*` | | constants and instances for TLC |

One API call is one step, since it runs to completion in its thread; where a
thread reads what a call writes (`HostInterface`, `SwitchEvents`), a call is a
step for each access that the thread may see between. A call that changes nothing
(a failed check, a get) is a stuttering step and has no action. A call that fails
half way *is* an action, or a branch of one, with whatever it leaves behind. The
names `told`, `asked`, `wanted`, `named`, `moved`, `reported`, `rounds`, `late`,
`odd`, `beside`, `calm`, `stale`, `refused`, `ends` and `halfDone` are history: no
guard of the code's own control reads them.

Abstractions of the core:

* The index-linked lists and the route lists are sets. Their order cannot be
  observed, because an address occurs at most once on an interface (`NbrLists`,
  `NhLists`), which is checked and, for next hops, proved.
* An address or a destination is a model value; `AddrOf` gives the address part
  of a destination and `HostPrefix` those with a full mask. The code compares the
  first four bytes of an address whatever its family (`mrvl_sai_neighbor.c:542`);
  that aliasing is left out.
* MACs, trap priorities, counters and statistics are left out.
* fpaLib is external: a flow or group can be added unless one with the same
  match exists, and deleted if it exists. What else may fail is the constant
  `Faults`: `"groupSkip"` (the FDB entry of a MAC has no group), `"groupDelete"`
  (an L3 group cannot be deleted), `"reAdd"` (a flow just deleted cannot be added
  again). `"groupSkip"` is in no run; the theorems say which of them they allow.
* `StackNh` is what the unset `nh_idx` may hold. The unset `status` that ends the
  creation of a neighbor early or not is a free choice in `DirectAdded`. A route
  given a next hop of an unknown kind gets the kind `"STACK"`; its index is taken
  among the interfaces' indices.
* `ClientChecksOids` says that the client names live objects of the right virtual
  router when it sets a route's next hop; the code does not check.
* Where a list holds the memory of a freed route, a call that would walk or
  change lists has no step: what it does is undefined, and the behaviour ends.

Abstractions of `NextHopGroup`: an identifier built from no neighbor is a
reference `Unknown` or to any neighbor; the switch may refuse a bucket whose
group does not exist. The slot after the last is part of the table, as the code
writes there. `ClientKeepsMembers` describes a client that puts next hops with a
neighbor in groups, lists no more than a group may have, and changes no next hop
of a group in use. `EcmpFaults` are deletions the switch may refuse: that of a group
(`"group"`), that of all buckets of a group, with which an update begins (`"list"`),
that of one bucket (`"bucket"`); `refused` remembers which. A creation or an update stops
at any bucket the switch refuses, at the end of the room if not before (`StopsAfter`), and
then deletes the group, which the switch may refuse too and keep what is left of it
(`Partly`). `CountMod` stands for 2^32.

Abstractions of `Lag`:

* `LagNamed` is the round trip of a LAG id through a member's object id, with
  the logical operators of the code: it is 1 for every LAG. `RemoveLagMember`
  and the loop of `RemoveLag` use it, as the code does.
* The index of a bucket is left out; the order it gives the buckets is a free
  choice of which ports are listed first. `MaxMembers` is the room the switch has
  in a group.
* `CounterMod` stands for 2^32. It need only exceed the counts that occur, and a
  small one lets TLC see the counter wrap.
* `RemoveLag` is the whole loop in one step. The ports it lists are those the
  switch returns and, where it returns fewer than the counter says, up to
  `MaxStale` port ids the list on the stack happens to hold; an entry that is no
  port id ends the call, with the removals so far done.
* `Faults`: `"lookup"` (a bucket cannot be looked up), `"bucketDelete"` and
  `"groupDelete"` (a deletion does nothing or fails).

Abstractions of `HashTable`:

* A cell is a number, in the order of allocation; a pointer is the number of a
  cell. Keys are numbers in the order `memcmp` gives; data is left out.
* `next` leads along a chain or the free list, `free` is the bit the code keeps in
  the same word. What a freed cell still holds is left out.
* A table sorted by key is modelled. Sorting by insertion time has no insertion
  (`mrvl_sai_hash.c:1409`, `:2137`), so that its list is always empty and
  `DeleteOldestN` deletes nothing. `UpdateHash` is compiled out.
* The routes' table is the special case `MinEntries = MaxEntries`, `Margin = 1`,
  `SortedHeaderSize = 0`; the run has the general one. The source has
  `SortedHeaderSize >= 5`, `MinRefresh = 3` and `MaxRefresh = 20`.
* `HashOf` is any function.

Abstractions of the host interfaces: a device is its own descriptor, as the
kernel attaches a device to one at most; a failed open gives `BadFd`, for which
`FD_SET` and `FD_ISSET` may do anything to one bit. `pending` is what the network
stack wrote. In `HostTraps` an object id is a number; the flows of a trap are keyed by the code's
cookie, which the kinds of IGMP packets share, as do those of `SystemTrap` (see
Findings); the two traps of the run have cookies of their own. A client lists an
object once, in any order (`Lists`); the code does not look for repetitions. A loop goes on
for as many steps as the list is counted, past its end if the count is too high
(`WalkCounted`): the header is then taken for an element. Where an action is applied, what
lies beside the header is read as a datum, which may be any (`DataAt`, `Strays`), and its
flow is changed if there is one. Where unmarked elements are removed, a
byte beside the header is cleared as a mark, or the header is unlinked and handed to `free`:
the model says that the loop got there (`Pass`, `ends.passed`) and ends the behaviour. Both
happen only to a list whose first setting was cut short (`ends.short`), which is checked.

Abstractions of `SwitchEvents`: each thread reads one pointer of the callback
table, so that writing the table is one step to it. `port_status` as the first
initialisation clears it is cleared again by the thread. Addresses and links are
numbered messages; a message of `NoPort` is one that no conversion knows.

Abstractions of `L2Switch`: the library refuses to make an identifier of what it
parses from an unknown group (0xFFFFFFFF), and to delete a group that an FDB flow
or an L3 group refers to. The adapter asks for the deletion without looking
(`mrvl_sai_utils.c:986`); that the library refuses is what the answer expected at
`mrvl_sai_vlan.c:653`, "used by other tables", says of it, and it is an assumption
of the model (`GroupGone`), on which `ForwardsInItsVlan` rests. The switch runs at
the speed it was set to. `odd` counts the calls after which the flows of an interface
are no longer its own (a second interface on a port or VLAN, a half-failed creation, a
source MAC set, admin states off, a flush of static entries that were an interface's),
up to `MaxOdd`. No such call is an interface of a VLAN made while the port of that
number has one: a creation compares the type of the others with that of the free slot,
which is PORT (`ComparedPlace`, `mrvl_sai_router_intf.c:649`), so that VLAN 1 after
port 1 is made without its own ARP and FDB flows, and without those of its router if the
port's is the same. `beside` is the set of these; their removal does not find what it
would share, fails after it has deleted the rest, and the interface stays. Port 1 and
VLAN 1 are therefore both in the run, and `FlowsFollowInterfaces` says what is left of
the flows of either.
`Fdb` and `RifFlows` share the FDB table but write addresses of their own.

## 4. Runs

| Run | Instance | Shows |
|---|---|---|
| `l3_core` | 1 router, 2 interfaces, 2 neighbors, 2 next hops, 1 route (a host or a subnet), 2 addresses of which one is IPv6, both miss actions, garbage on the stack, no fault | tables, lists, groups and flows agree in every order of creation: `TypeOK`, `NbrLists`, `NhLists`, `RouteLists`, `GroupPerNeighbor`, `HardwareFollowsNeighbors`, `NextHopResolved`, `NeighborChangeKeepsRoutes` |
| `l3_faults` | 2 routers, 2 interfaces, 1 neighbor, 1 next hop, 2 routes; groups may fail to be deleted and flows to be added back | slots, groups, hash entries and routes of removed routers leak, yet `RefCounts`, `RoutersIsolated` and, up to the first use of freed memory, `NoFlowToMissingNeighbor` hold |
| `l3_ipv6_routes` | smallest instance with an IPv6 route | expected violation, see Findings |
| `next_hop_groups` | 1 interface, 2 neighbors, 2 next hops that come and go under 1 group and the slot past the end; up to 3 members listed, 2 buckets; the switch may refuse to delete a group, or its buckets; a careful client | creations and updates stop half way, groups are full: `UsedGroupsExist`, `ListAsTold`, `CountIsMembers`, `BucketsLeadSomewhere`, and `OnlyFullGroupsAreLeft` on what may leave a group behind |
| `lag_many` | 3 LAGs, 2 ports, careless client, all faults, counter modulo 4 | `TypeOK`; `OtherLagsCounted`: the damage is confined to LAG 1; `UsedHasGroup` |
| `lag_two` | 2 LAGs, 2 ports, careful client, no fault | expected violation, see Findings |
| `hash_table` | 4 keys in 2 buckets, 1 to 4 entries in portions of 2, margin 1, a header of 5, refresh between 2 and 4 | `CellsAccounted`, `SortedByKey`, `NextIsNext`; `StoreSpec`: the table implements `CellStore`, and so keeps the margin (`MarginKept`) |
| `host_interfaces` | 2 ports, 2 names, 3 creations; opening may fail, select be interrupted | `PacketsKeepPort`, `SlotsSound`, and `DevicesServed` under fairness |
| `host_traps` | 2 traps, one with lists and one of the system; 2 ports in any order and 1 VLAN; 4 list elements; one allocation or flow fails, one call follows | `ListsIntact`, `FlowsMatchLists`, `ListAsAsked`, `FlaggedTrapsFollow` |
| `switch_events` | 2 initialisations by 2 clients, 1 port, 2 AU threads, 2 addresses, 1 change of a link, every failure | `OneLateCall`, `EventsInOrder`; `LinksTold` (of either initialisation) and `AddressesTold` under fairness |
| `l2_switch` | 2 ports, 1 VLAN, 1 address, attributes of one port, member flows that fail | `TaggedAsAsked`, `ForwardsInItsVlan`, `AttributesAsAsked` |
| `rif_flows` | 2 interfaces of any type on port 1 and VLAN 1, 1 MTU profile, neighbors that hold groups, any flow refused, 1 odd call | `FlowsFollowInterfaces`, `RifTablesSound` |

`TypeOK` of `HostInterface`, `L2Switch` is part of `SlotsSound`, `RifTablesSound`.

Bounds of the layer-3 runs. Two of each kind is the least at which an operation
can disturb something else: a second interface to have the same address on, a
second neighbor slot to be mistaken for the first, a second route to stay on a
list while the other leaves it, a second router to leak into. Three of a kind adds
only another bystander, since every operation touches one interface and one
address (or all of them alike). Each run keeps at one the kinds its question does
not need. `MaxRoutes` bounds the hash. No counter needs a bound: the count of a
virtual router is limited by the number of interfaces.

Bounds of the group run. One group and the slot after the table: the second is
what the wrong comparison at `mrvl_sai_nexthopgroup.c:342` writes to, so that
"full" happens after the first creation. Three members are the most a list may
have and two buckets the room, so that creations and updates stop half way for want
of a bucket, a group is full with one next hop twice when another is added, and a
member is added to a gap before others. Without the room, `RoomForNeighbors`
does not hold, and groups are left behind by additions (`mrvl_sai_nexthopgroup.c:634`);
with refusals, by everything that deletes one; `OnlyFullGroupsAreLeft` says that by
nothing else. Buckets the switch refuses to delete one by one, and a client that
is not careful, are left to the theorems, which have the hypotheses they need and no more.

Bounds of the LAG runs. A LAG interacts with others only by being LAG 1 or not,
and by coming before or after it in the search for a free id: three LAGs have
all the cases. Two ports let one be in a group while another is added or removed.

Bounds of the hash run. Three keys collide, so that the first, a middle and the
last of a chain are deleted; the smallest and the greatest key are those the
header is bounded by. The second portion is clipped. With four entries the header
keys are two apart, with fewer they are adjacent; header keys are stale for up to
three operations. The header of 5 is the least the source makes and takes
the binary search to both sides twice.

Bounds of the host interface runs. Three creations let a port get a first device,
get the other, and the other port ask for one that is open. In `host_traps`, four
elements hold the longest list of either kind twice over, `MaxCalls` is
the most calls of the switch a call makes, `MaxMallocs` the most elements it adds (no
call fails for want of them), and the second trap shares the memory and the flows.
`MaxAfter` lets one call meet what a failed one left. Elements are symmetric:
which free one `malloc` returns (`NewCell`) is a name, on which nothing depends.

Bounds of `switch_events`. A second initialisation is the first that finds
`mrvl_sai_switch_init_first_time` clear, or still set after a failure, when it
starts the second AU thread, and that tells the first states while the thread of the
first one polls, stores and tells. Two addresses can be reported out of order. One
change of a link happens before, between and after the states stored and told. A report
may be overtaken: after the first initialization the thread may store and tell a new state
of the link between the reading and the telling of its first state, and the client is told
the older one last, until the link changes again. `LinksTold` exempts such a link
(`stale`) as long as that is so. One port has its state read, told and polled in every
interleaving; the others would repeat it.

Bounds of the L2 runs. An L2 group is of one port and one VLAN, so that two
ports let an entry move away from a group and back; the attributes of a port do
not meet those of another. On one port and one VLAN, two interfaces can be of
different types, share a place, and must share the one profile, of which the other
size is then refused. One odd call leads to each
of the states the next call can meet; what holds of all numbers is proved.

`CHECK_DEADLOCK FALSE` occurs where behaviours may end: in `l3_faults` and the
violation runs at the use of freed memory or at an exhausted instance, in
`lag_two` where every id can be lost to a group nobody owns, in `host_traps`
once a loop that removes elements has come to a header, and in the L2 runs where creation is bounded.

Fairness. The core is a library: nothing in it must happen unless its client
calls, so that no fairness is assumed there and no liveness stated. The threads
are another matter: the operating system schedules each one that can go on.
`HostInterface` assumes weak fairness of the tap thread (`TapListen`; `select` has
a timeout, so that it is never without a step before it is stopped) and of a
creation under way (`CreateGoesOn`). `SwitchEvents` assumes it of the port status
thread, of each AU thread, and of an initialisation under way. No client is
obliged to call, no link to change, no packet to come.

## 5. Proofs

`L3ForwardingProofs` proves every property of the passing layer-3 runs, for every
value of the constants allowed by `TableSizes`, `AddressSpace` and `Environment`,
hence for tables of any size and any address plan. The first three hold for careless
clients and every fault:

* `TypeCorrect`: `Spec => []TypeOK`. `TypeOK` is inductive, but only because
  `RouteType` ties the kind of a route's next hop to the table its index is for;
  without that, an action that follows `nhIdx` could leave the tables.
* `NextHopListsCorrect`: `Spec => []NhLists`. Inductive relative to `TypeOK`.
  Only `CreateNextHop` and `RemoveNextHop` touch what it speaks of, and the frame
  lemmas `RetargetKeeps`, `RelistKeeps`, `NeighborKeeps` and `RouteKeeps` say so
  of the updates neighbors and routes make to the same records. `RemoveRouterInterface`
  needs that an interface with an empty list has no next hops.
* `RefCountsExact`: `Spec => []RefCounts`. A counting argument: adding or removing
  one interface changes by one the cardinality of a finite set.

The others need an environment, and their statements say which. `GroupsReliable`: no
group of a neighbor fails to be made or deleted. `RoutesReliable`: routes are IPv4, a
client names objects that live, and a deleted flow can be added back; `MCL3Ipv6Routes`
and `MCL3Faults` show what happens otherwise. `PlainSubnets`: no subnet's first
address is one that neighbors have; a route that names an interface is resolved by that
address, but only a route to a host is told of neighbors.
`Trusted` is all three.

* `NeighborListsCorrect` (`NbrLists`) and `GroupsFollowNeighbors`
  (`GroupPerNeighbor`) need `GroupsReliable`, and allow any client. Their invariant
  `NbrInv` is both at once: a group is deleted by the call that takes the neighbor
  off its list.
* `NextHopsResolveCorrectly` (`NextHopResolved`), under the same condition, from
  `NbrInv` and `NhLists`: as an address is on a list once, the search of the code for
  the neighbor of a next hop finds what the property speaks of.
* `RouteListsCorrect` (`RouteLists`) needs `RoutesReliable`, and any group may be
  missed. `RouteLists` alone is not inductive: `RouteInv` adds `FlowsHaveRoutes`, that
  a route whose flow is in the switch is in the table and names an object in use, so
  that the list it belongs on is one that is kept.
* `RoutesSurviveNeighbors` (`NeighborChangeKeepsRoutes`), from `RouteInv`.
* `FlowsFollowNeighbors` (`HardwareFollowsNeighbors`) needs `Trusted`. Its invariant
  `FlowsExact` says of each flow what its next hop holds now, and is inductive relative
  to `Base`, the invariants above together. The proof is by cases on who moves the
  flow: a change of neighbor moves the flows of the routes on one list, and
  `RouteLists` says that these are all that lead there.
* `FlowsLeadToLiveNeighbors` (`NoFlowToMissingNeighbor`) adds `DirectInv`, the same of
  the flow a neighbor itself puts for its address.
* `RoutersStayIsolated` (`RoutersIsolated`) adds `RoutesAtHome`, that a route and its
  next hop are of one router, and `RefCounts`, by which a router with interfaces stays.

`EcmpProofs` proves, for any number of groups, members and buckets:

* `GroupsLeaveLayer3Alone`: `EcmpSpec => Spec`. Groups run on top of the whole
  layer-3 adapter and implement its specification, so that every theorem above
  holds with groups as well; the proofs below rest on several.
* `UsedGroupsAreInSwitch` (`UsedGroupsExist`), for any client and refusal. Each
  operation that deletes a group of the switch marks the record unused in the
  same call, and no call of layer 3 touches either; the converse is not so.
* `ListsReadBack` (`ListAsTold`) and `CountersAreMembers` (`CountIsMembers`), while
  `SoundClient`: the client is careful, neighbors have the groups they were given
  (`GroupsReliable`) and `NumBuckets < CountMod`. Every failure of the calls on
  groups is allowed; they are about the groups none of whose buckets the switch has
  refused to delete (`GroupsTold`), as that refusal is not looked at
  (`mrvl_sai_utils.c:1427`). The list read back alone is not inductive, since a bucket is
  found, added and deleted by the neighbor it refers to and not by its next hop:
  `MembersInv` adds that each next hop told has a neighbor, and exactly as many
  buckets lead there as it was put in (`Sound`), that there are no other buckets,
  and that those beyond the first of each neighbor came with a list (`Spare`).
  `HopsSound`, from the theorems of layer 3, says that no two next hops share a
  neighbor, without which one would be taken off for another.
* `OnlyFullGroupsAreOrphaned` (`OnlyFullGroupsAreLeft`), under `SoundClient` and with
  every failure: a step that leaves a group of the switch without its record is one in
  which the switch refused to delete it, or an addition to a group without a free
  bucket, of a neighbor not in it. The failed addition marks the record unused
  (`mrvl_sai_nexthopgroup.c:634`); the check against the highest number of members is
  made of lists only. No update that stops half way leaves one, and no creation.
* `BucketsLeadToNeighbors` (`BucketsLeadSomewhere`), likewise, from `MembersInv`.
* `NoGroupIsOrphaned`: where the switch refuses to delete no group (`DeletionsWork`) and
  has room in a group for a full list and for every neighbor not on it
  (`RoomForNeighbors`), no group is left behind. `Spare` and the number of neighbors
  then say that a full group lacks none. The code does not see to it: with its 64
  members and 8192 neighbors (`mrvl_sai.h:84`, `:81`) the condition asks for 8255
  buckets in a group. No run has this room; what happens with less is what
  `OnlyFullGroupsAreOrphaned` says.

`LagProofs` proves, for every value of the constants allowed by `LagSizes` and
`LagEnvironment`, hence for any number of LAGs and ports, careless clients and
every fault:

* `LagTypeCorrect`: `Spec => []TypeOK`. Inductive as it stands; that no group
  exceeds its room rests on the cardinality of finite sets of ports.
* `UsedLagsHaveGroups`: `Spec => []UsedHasGroup`. Wherever a call deletes a group
  it also marks the LAG unused, although it marks it unused in more cases.
* `OtherLagsCountedExactly`: `Spec => []OtherLagsCounted`. Lemma `AllNamedFirst`
  says that the object id of any member names LAG 1; hence removals act on LAG 1
  only, and the counter of another LAG changes only where its buckets do.
  `MaxMembers < CounterMod` keeps that counter from wrapping.

`CellStoreProofs` proves, of the abstract specification of the hash table, for
any keys, sizes and margin (`StoreAssumption`):

* `StoreIsSound`: `Spec => []StoreInv`. A cell belongs to one key or waits once.
  The invariant needs `CellsExist`, that every cell's number is at most the number
  of cells allocated, for the cells a growth adds to be new; lemma `QueueGrown`.
* `MarginIsKept`: `Spec => MarginKept`. From `MarginIsIdle`: a freed cell joins a
  queue that has at least `Margin` cells, and cells leave only at its head.

`UtilProofs` proves, of the hash table pointer by pointer, for any sizes, keys, margin,
hash function and length of the sorted header that `TableAssumption` allows:

* `CellsAreAccounted`: `Spec => []CellsAccounted`; `ListIsSortedByKey`:
  `Spec => []SortedByKey`; `AnswersAreNext`: `Spec => []NextIsNext`.
* `TableIsAStore`: `Spec => StoreSpec`, with the cell the search finds for `where` and
  the walk along the free list for `idle`. An insertion takes the head of the free
  list or of the cells a growth adds to it, a deletion gives its cell back at the end,
  a cleaning gives back all cells in the order of the chains, and a search for a
  successor, which may force a refresh, does nothing to the store.
* `TableKeepsTheMargin`: `Spec => MarginKept`, which follows from `MarginIsKept` of the
  store: `CellStoreProofs` is instantiated under the same refinement.

The properties speak of what walks along the pointers visit, and the walks are defined
by recursion. The proofs go the other way round: a sequence of distinct cells is a
`Path` if each cell's pointer leads to the next and the last one's to none;
`FollowPath` says that the walk along the pointers is then that sequence. It needs that
the recursion has a solution (`WalkExists`) and that it is right at every length, both
shown for the least length where they could fail. The invariant `IInv` says that the
lists read from a table are paths of distinct cells that share the allocated ones
(`Hashed`, `Queued`, `Ordered`, `Shared`), that entries are in the chain of their bucket
with keys of their own, and that the header keys ascend from `FirstKey` to `LastKey`
(`Heading`). Each operation is a composition, as in the code: a cell is placed, its
predecessor found, the entry spliced in, the refresh counted; a lemma for each part
gives the paths it leaves (`PlacedIs`, `PreSortedIs`, `SplicedIs`, `CountedKeeps`,
`UnchainedIs`, `UnsortedIs`, `FreedIs`, `EmptiedIs`), with `Parted` for a table whose
lists do not agree yet. `PreSortedIs` needs of the header only that the search starts
at its first key or at a key smaller than the one looked for (`StartIsBefore`): header
keys may be gone from the table, or stored again in another cell.

`L2Proofs` proves, for any ports, VLANs, addresses, interfaces, profiles and
failures (`L2Names`, `PortValues`, `RifSizes`), from the inductive invariant `IInv`:

* `TaggingKept`: `Spec => []TaggedAsAsked`; `ForwardingInVlan`:
  `Spec => []ForwardsInItsVlan`; `AttributesKept`: `Spec => []AttributesAsAsked`.
* `IInv` is `L2Inv /\ RifsPlaced /\ PortInv`. `L2Inv` adds to the types and
  `TaggedAsAsked` that an entry has the group of a port and its own VLAN or none,
  that this group is there unless the entry drops (`EntriesSound`). That a group
  referred to is not deleted is the assumption on the library above, not a result.
  `RifsPlaced` says
  that an interface is at one of the places there are, so that its groups, of
  VLAN 0, are no member's. `PortInv` says that the bits of a port are those of the
  mode asked for, whence `ModesReadBack` gives that reading returns what was set.
* `RifTablesKept`: `Spec => []RifTablesSound`. `MtuInv` is a counting argument: an
  interface that comes or goes changes one finite set, that of its profile, by one.
* `FlowsAreOfInterfaces`: `Spec => []FlowsFollowInterfaces`. `FlowInv` adds that no two
  interfaces with flows are at one place and that a free slot is clear (`SlotsSound`):
  a creation then finds no other interface, but one of a port for a VLAN, and adds all
  five flows, and the removal of an interface not in `beside` finds all five there
  (`AllFlowsThere`); that of one in `beside` finds no ARP flow and fails. `TrapKeys` says that the FDB entries of two places,
  and those a client writes, are apart: reserved VLAN ids start at 4096.

`HostInterfaceProofs` proves, for any number of ports and devices, any number of
creations, failed opens and interruptions (`HostConstants`), `PacketsKept`:
`Spec => []PacketsKeepPort` and `SlotsKept`: `Spec => []SlotsSound`. The inductive
invariant says what holds at every point of a creation: a slot that is valid holds
a descriptor that was named for its port (`SlotsInv`), because `valid` is stored
last and a port keeps a name it has; the descriptor a creation is about to store
is the port's own or bad, because a device is opened once (`CreateInv`); and what a
thread has read from a slot remains true, since devices are never closed and
names never forgotten (`ThreadsInv`).

`HostInterfaceProofs` also proves, for any traps and actions, any finite set of objects
and of list elements, and lists named in any order (`TrapConstants`), of `TrapSpec`, in
which one call may fail, at any of its calls of the switch or allocations, and any number
of calls follow it until a loop that removes elements comes to a header:

* `TrapListsIntact` (`ListsIntact`). With no hypothesis: a list whose first setting was
  not cut short is no shorter than its count, so that no loop takes a header for an
  element but over a list that was (`CountWithin`); and until one does, the lists of
  all traps are disjoint rings of live elements. What moreover holds until a call
  fails, that counts are lengths, that no list was cut short and that no element is
  leaked, needs `OwnCookies`.
* `TrapFlowsMatch` (`FlowsMatchLists`), `TrapListsAsAsked` (`ListAsAsked`) and
  `TrapsFollow` (`FlaggedTrapsFollow`), under `OwnCookies`.

`OwnCookies` says that no two of the traps that are set have flows of the same entry type.
It excludes a second kind of IGMP packet and a second protocol of the system, which share
cookies in the code (see Findings): there one trap's call changes or deletes the flow of
the other, and TLC finds each of the four properties violated when `Trap` is two kinds
of IGMP packets. The traps of `host_traps` have entry types of their own.

The invariant `TrapInv` reads the list of each header from memory and says of these
sequences `Core`: each is linked both ways through its header, sorted by data without
repetition, of elements in use, apart from the others (`Shape`), and, unless a call
failed, every element in use is on one and the flows are those of the data
(`Accounted`); and `Others`: each list a client sets has its count, the members asked
for and flows with the action of its trap (`Served`), and after a failure is at least
no shorter than its count unless it was cut short (`Within`). A call is loops over a
record of the state, and each loop has an invariant of its own on how far along its list it is: all
before have been applied, added, marked or swept (`AllApplied`, `FirstListKeeps`,
`MembersMarked`, `UnmarkedDropped`, where `Half` follows a list from which elements
are taken while it is walked). `LoopKeeps` is the lemma they share: a set of states for
each count of steps, and a step that leads from one to the next. A failing step keeps
`Core`, as each element is linked and unlinked whole, and gives up the rest. What a
search and a walk along the pointers return is shown of the recursive definition for
linked sequences (`ListIs`, `FindIs`), for the least length where it could fail.

`SwitchEventsProofs` proves, for any number of ports and threads, any schedule of the
client, the threads and the hardware, and any failure (`EventConstants`):

* `OneLateCallOnly`: `Spec => []OneLateCall`. A thread reads a callback in one step
  and calls it in the next. `LateInv` adds that a thread about to call a function
  no longer in the table has called none late since it was withdrawn; counting
  starts again with each change of the table, and a thread that has called reads
  the table before it calls again.
* `EventsStayInOrder`: `Spec => []EventsInOrder`. `OrderInv` follows a message from
  the queue to the client: messages wait in the order they were sent
  (`QueueInOrder`), the one the thread holds is between those reported and those
  that wait (`HeldBetween`), and what was reported is older than what waits
  (`ReportedFirst`). All this needs that there is one thread (`OneThread`), hence that
  no initialisation has failed half way, which leaves its thread running; the
  invariant says what still holds after one.

`UtilProofs` proves, for any memory, header and list, that every operation of the
doubly linked list takes a ring to a ring of the elements it says, and touches no
ring it is not given (`OtherRingsKept`). What `Linked` says, that each pointer's
target points back and lies in the list, is all that loops rely on. The
operations are assignments in order, and the theorems hold also where two of the
elements written to are one: the empty list, the list of one, an element moved to
where it is.

`UtilProofs` also proves, of the checks every call passes through, for any table
and any attribute list: what is accepted is sound and complete for creation
(`AcceptedIsSound`, `MandatoryFound`: the `assert`s of the create functions and of
the dispatch cannot fail), a setter or getter is asked only for its own attribute
(`SetterIsOwn`), and what a failed call leaves behind or reports is what its
caller may rely on (`ReadIsPrefix`, `FirstIsBlamed`, `RetryFits`). The module has
no state, and no run: the operators are functions of their arguments, and the
proofs cover all of these.

The proofs have one lemma per action, or per group of actions with the same
frame. TLC checks the same properties on small instances first.

Only model-checked: liveness (`DevicesServed`, `LinksTold`, `AddressesTold`), which is
out of the prover's reach. Every invariant and every action property of the passing
runs is stated by a theorem, under the hypotheses given above.

## 6. Findings

Given a run:

* `l3_ipv6_routes`: updates and removals look for an IPv6 route in the IPv4 flow
  table (`mrvl_sai_route.c:782`); a failed update then frees a hash entry that is
  still on a list.
* `lag_two`: the LAG of a member's object id is written with `&&` and read with
  `||` (`mrvl_sai_utils.c:829`, `:869`), so every member names LAG 1.

Met while modelling. The models do as the code does in each case that is theirs,
and the properties are stated so that they hold in spite of it:

* Layer 3. A /31 route that names an interface resolves by address alone but is
  updated only if its mask is full (`mrvl_sai_route.c:233`, `:1000`), and keeps
  forwarding to a neighbor that has gone; `l3_faults` has no such destination.
  `mrvl_sai_utl_create_l3_unicast_group` reports success without having made a
  group when the FDB entry of the MAC has none (`mrvl_sai_utils.c:1194`). The
  status that ends `mrvl_sai_rif_update_nbr_id` is not set on every path
  (`mrvl_sai_router_intf.c:1363`). Setting a neighbor's MAC rewrites the bytes of
  the address in the group, but not the L2 group of the old MAC's port
  (`mrvl_sai_utils.c:1301`).
* Next hop groups. A full table is not noticed, and the slot after it is written
  (`mrvl_sai_nexthopgroup.c:342`). Removing a next hop that is no member counts
  down, and wraps (`:693`). A next hop without a neighbor makes a bucket from an
  unset identifier. Setting a list does not look at its length. That the switch refused
  to delete a bucket is not looked at (`mrvl_sai_utils.c:1427`), and counted as done. An
  addition to a full group marks the record unused and leaves the group (`:634`).
* LAG. A failed addition marks the LAG unused while its group stays
  (`mrvl_sai_lag.c:405`); a removal that removes nothing is still counted
  (`mrvl_sai_utils.c:2073`), so that the counter wraps.
* Host interfaces. All kinds of IGMP packets, and those of the system, share a
  cookie and so a flow. The action `DROP` is the one a trap is initialised with, so
  that setting it first changes nothing although the flow forwards or traps. The
  `valid` field of a new list element is not set (`mrvl_sai_host_interface.c:1493`),
  so that the second list may keep members of the first. The count of a first list is
  stored before its elements are made (`:1484`), and stays when one fails: later loops
  over the list take its header for an element, and may unlink and free it. Reading a list back
  returns its first element repeatedly. A port that is given a second name, and then the
  first again, fails to open what it still has open. A failed open leaves the
  descriptor -1 in the fd set, and `select` may fail for ever.
* Switch. A second initialisation tells the port states of the first session, while the
  thread polls, so that a client may be told an older state last (`stale`). A
  first initialisation that fails late leaves its AU thread running, and the next
  starts another (`mrvl_sai_switch.c:1455`).
* VLAN, FDB, ports. A VLAN member whose flow cannot be added is reported as
  created (`mrvl_sai_vlan.c:585`; the same pattern in `mrvl_sai_port.c:1600`). A
  port is never set down. Setting the default VLAN resets the default priority. An
  entry set to trap forgets its port and VLAN and cannot forward again. An entry
  set from `LOG` to `FORWARD` keeps its copy to the controller.
* Router interfaces. The search for interfaces of the same place compares the
  type of the free slot (`mrvl_sai_router_intf.c:649`), so that an interface of VLAN 1
  made after one of port 1 lacks flows and cannot be removed. The attribute value of
  the source MAC is used without having been found (`:676`); that the process may end
  there is not modelled. The roll-back of a failed
  creation does nothing (`:699`). Setting the MAC adds termination flows with a
  match that is not set (`:911`) and leaves the FDB entry of the old address.
* Attributes. Eight QoS attributes of the switch are marked as implemented but have
  neither setter nor getter; the dispatch catches them.

## 7. Not modelled

* ACL, stubs and interface query: they keep no state or do nothing.
* The setting of a neighbor's MAC and of its packet action: they rewrite the
  flow or the group in place, and change nothing a property here speaks of except as
  listed under Findings.
* Switch attributes: constants, or one call to fpaLib each. Port statistics and
  supported speeds, likewise. The `db_` functions of `mrvl_sai_nexthopgroup.c`,
  lines 84 to 262, which are plain reads and writes of the table, are part of the
  operations that call them.
* Host interface removal, which only logs; trap groups and user-defined traps,
  which are stubs; the trap priority, which no flow depends on; the function that
  sends a packet given by the client.
* `mrvl_sai_utl_dlist_insert_bigger_element`, which nothing calls; the order by
  insertion time and `UpdateHash` of the hash table, which are compiled out.
* Conversions to text, tracing and logging, the translation of status codes and
  object ids other than those of LAG members: they have no state, and no property
  here is about their wording. A call they refuse is a stutter.
