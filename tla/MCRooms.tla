------------------------------ MODULE MCRooms ------------------------------
(* Two rooms created, replaced or deleted under one name, two connections,   *)
(* capacities of one and two.                                                *)
EXTENDS Rooms

MCIds == {"lobby"}
MCMembers == {"a", "b"}
MCCapacities == {1, 2}
MCAnyLogic == {TRUE, FALSE}
=============================================================================
