--------------------------- MODULE VirtualRouter ----------------------------
(* Virtual routers (mrvl_sai_router.c): slots with a count of the router   *)
(* interfaces that refer to them.                                          *)
EXTENDS L3Tables

CreateVirtualRouter(v) ==
  /\ IsFirstFree(v, UsedVrs)
  /\ vrTable' = [vrTable EXCEPT ![v] = [valid |-> TRUE, refs |-> 0]]
  /\ UNCHANGED <<rifTable, nbrTable, nhTable, routeTable,
                 l3Flow, directFlow, l3Group>>

\* Only interfaces hold a reference: the routes of v stay in the hash and
\* in the switch, out of reach until the slot is used again.
RemoveVirtualRouter(v) ==
  /\ vrTable[v].valid
  /\ ~(vrTable[v].refs > 0)
  /\ vrTable' = [vrTable EXCEPT ![v] = NoVr]
  /\ UNCHANGED <<rifTable, nbrTable, nhTable, routeTable,
                 l3Flow, directFlow, l3Group>>

\* Mutant: the direction of the counter is inverted.
ReferencedInverted(v) ==
  IF vrTable[v].valid THEN [vrTable EXCEPT ![v].refs = @ - 1] ELSE vrTable

\* Mutant: the reference of a removed interface is kept.
ReleasedNever(v) == vrTable

\* mrvl_sai_virtual_router_update_referance_cntr, as a new table
Referenced(v) ==
  IF vrTable[v].valid THEN [vrTable EXCEPT ![v].refs = @ + 1] ELSE vrTable

Released(v) ==
  IF vrTable[v].valid /\ vrTable[v].refs # 0
  THEN [vrTable EXCEPT ![v].refs = @ - 1] ELSE vrTable

=============================================================================
