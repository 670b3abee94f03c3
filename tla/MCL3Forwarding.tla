--------------------------- MODULE MCL3Forwarding ---------------------------
(* Instances of L3Forwarding for TLC.                                      *)
EXTENDS L3Forwarding

CONSTANTS ip1, ip2, net, noIp   \* addresses; net is nobody's address
CONSTANTS host1, host2, wide    \* destinations

\* The usual case: a subnet whose address no neighbor has.
AddrPlain == [p \in Prefix |-> IF p = host1 THEN ip1
                               ELSE IF p = host2 THEN ip2 ELSE net]
NoStack == {InvalidId}
DirtyStack == {InvalidId, 0}

=============================================================================
