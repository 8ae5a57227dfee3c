----------------------------- MODULE MCVehicle ------------------------------
(***************************************************************************)
(* Small instances of Vehicle, with the geometry of the code on a lattice. *)
(* Places are in units of ten metres.  The status is on in some of them.   *)
(***************************************************************************)
EXTENDS MysqlTest

Geo == INSTANCE Geometry

\* A straight road with crossings 100 metres apart; near one of them two places
\* 20 metres apart, and a place off the road.
Town == {<<0, 0>>, <<2, 0>>, <<4, 0>>, <<10, 0>>, <<20, 10>>}

Clock == {NoTime, 1, 2}
Day == {1, 2}

MCNear == [a, b \in Places |-> Geo!IsNear(a, b)]
MCHeading == [a, b \in Places |-> Geo!Angle(a, b)]
MCOffCourse == [a, b \in Places, dan \in 0 .. 180 |-> Geo!IsOffCourse(a, b, dan)]
MCBits == [a \in Places |-> IF a[1] \in {4, 10} THEN {1} ELSE {0}]
=============================================================================
