-------------------------------- MODULE Fifo --------------------------------
(***************************************************************************)
(* What a channel of the cache node promises: what comes out is what went  *)
(* in, in the same order, each value once; and all of it comes out.        *)
(***************************************************************************)
EXTENDS Naturals, Sequences

CONSTANT Values

VARIABLES put, got    \* everything ever put in, everything ever taken out

Init == put = <<>> /\ got = <<>>

Put == /\ \E v \in Values : put' = Append(put, v)
       /\ UNCHANGED got

\* One or more of the waiting values come out.
Get == /\ \E k \in Len(got) + 1 .. Len(put) : got' = SubSeq(put, 1, k)
       /\ UNCHANGED put

Next == Put \/ Get

\* The order, and nothing lost on the way.
SafeSpec == Init /\ [][Next]_<<put, got>>

\* What went in comes out.
Spec == SafeSpec /\ WF_<<put, got>>(Get)
=============================================================================
