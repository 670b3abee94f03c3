--------------------------- MODULE MCSwitchEvents ---------------------------
(* An instance of SwitchEvents for TLC.                                    *)
EXTENDS SwitchEvents

CONSTANTS a, b

\* Two clients; the second does not ask for port states.
Clients == {[fdb |-> a, state |-> a], [fdb |-> b, state |-> NoFn]}

=============================================================================
