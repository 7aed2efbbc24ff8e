---------------------------- MODULE MCTransport ----------------------------
(***************************************************************************)
(* Instances of Transport for TLC.                                         *)
(***************************************************************************)
EXTENDS Transport

CONSTANTS alice, bob    \* alice connects to bob

Either(a, b) == [n \in {alice, bob} |-> IF n = alice THEN a ELSE b]

\* bob's messages fit into the connection all together; alice's do not.
OneWayRoom == Either(6, 2)
LongAndShort == Either(3, 1)
ThreeBroadcasts == Either(2, 1)

\* The chain of either node is longer than the connection holds.
LittleRoom == Either(2, 2)
BothLong == Either(4, 4)
None == Either(0, 0)
=============================================================================
