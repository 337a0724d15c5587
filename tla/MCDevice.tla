------------------------------ MODULE MCDevice ------------------------------
(* Two clients, two servers; transfers of exactly and one over what a         *)
(* message holds.                                                            *)
EXTENDS Device, TLC

CONSTANTS c1, c2, s1, s2

PathA == [slash |-> TRUE, len |-> 5, id |-> 1]
PathB == [slash |-> TRUE, len |-> 19, id |-> 2]
MCPaths == {PathA, PathB}
MCOffers == {<<c1, PathA, s1>>, <<c2, PathB, s2>>, <<c2, PathA, s2>>}
MCOps == (s1 :> {"OPEN", "CLOSE", "READ", "WRITE", "IOCTL", "INFO"}) @@ (s2 :> {"OPEN", "SUBMIT", "WAIT"})
MCPlaces == {StaticAt, AreaAt}
MCInside == {AreaAt, AreaAt + 8}
=============================================================================
