---------------------------- MODULE VehicleIndex ----------------------------
(***************************************************************************)
(* The two keys of a vehicle id (cache-node/data.cpp), computed by two     *)
(* copies of one loop: VehicleData::generate_index() for records that come *)
(* in, generate_index_from_vehicle_id() for get_vehicle().  The loop goes  *)
(* through the last SIZE_OF_ID bytes of the id from its end, zeros where   *)
(* the id is shorter, and shifts each into a key.  A key is written as its *)
(* bytes, most significant first: the shifts fill it exactly, so no byte   *)
(* drops out at the top or runs into another.                              *)
(***************************************************************************)
EXTENDS Naturals, Sequences

CONSTANTS
  KeyBytes,    \* sizeof(key1): 8
  IdSize,      \* SIZE_OF_ID: 16
  Bytes, NUL   \* the bytes that occur, and the byte 0

ASSUME IndexAssumption ==
  /\ KeyBytes \in Nat \ {0} /\ IdSize \in Nat /\ KeyBytes <= IdSize
  /\ NUL \in Bytes

\* A mistake the run must notice: the loop stops at the end of the first key.
FromEndOfKey1(id, n) == IF n <= Len(id) /\ n <= KeyBytes THEN id[Len(id) + 1 - n] ELSE NUL

\* The n-th byte of the id, counted from its end.
FromEnd(id, n) == IF n <= Len(id) THEN id[Len(id) + 1 - n] ELSE NUL

Key1Of(id) == [n \in 1 .. KeyBytes |-> FromEnd(id, n)]
Key2Of(id) == [n \in 1 .. (IdSize - KeyBytes) |-> FromEnd(id, KeyBytes + n)]

\* An id is a string without a zero.
Plate == Seq(Bytes \ {NUL})
=============================================================================
