--------------------------- MODULE MCSecondaryZone ---------------------------
(* A zone with two primaries, whose list an operator may change.             *)
EXTENDS SecondaryZone

CONSTANTS p1, p2

MCLists == {<<p1, p2>>, <<p2>>}
MCList == {<<p1, p2>>}
==============================================================================
