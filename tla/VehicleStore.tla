---------------------------- MODULE VehicleStore ----------------------------
(***************************************************************************)
(* What the cache promises to whoever fills it: each vehicle's history is  *)
(* its file, record by record and in order.                                 *)
(***************************************************************************)
EXTENDS Naturals, Sequences

CONSTANTS
  Ids,    \* vehicle ids
  File    \* File[v]: the records of vehicle v, in order

VARIABLE store

Init == store = [v \in Ids |-> <<>>]

\* The next record of the vehicle's file enters its history.
Put(v) ==
  /\ Len(store[v]) < Len(File[v])
  /\ store' = [store EXCEPT ![v] = Append(@, File[v][Len(@) + 1])]

Next == \E v \in Ids : Put(v)

Spec == Init /\ [][Next]_store
=============================================================================
