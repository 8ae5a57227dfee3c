------------------------------- MODULE MCCache -------------------------------
(***************************************************************************)
(* Small instances of Cache.  va and vb are longer ids that end alike, and *)
(* so have one first key; the others have first keys of their own.         *)
(***************************************************************************)
EXTENDS Cache, TLC

CONSTANTS t1, t2, t3, va, vb, vc, vd, ve

AllIds == {va, vb, vc, vd, ve}
MCKey1 == (va :> 1) @@ (vb :> 1) @@ (vc :> 2) @@ (vd :> 3) @@ (ve :> 4)
MCKey2 == (va :> 1) @@ (vb :> 2) @@ (vc :> 0) @@ (vd :> 0) @@ (ve :> 0)

\* vd and ve are kept; two threads share vc, and va and vb get in each other's way.
MixedFeed == (t1 :> <<vd, va, vd>>) @@ (t2 :> <<vc, vb, ve>>) @@ (t3 :> <<vc, va>>)

\* One thread, and ids with the same first key.
SecondKeyFeed == [t \in {t1} |-> <<va, vc, vb, va, vb, vc, va, vb, vc, va>>]
=============================================================================
