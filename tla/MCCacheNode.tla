---------------------------- MODULE MCCacheNode ----------------------------
(* Two clients on two descriptors, or on one when the process holds the    *)
(* other.  A record is one piece, so a package of none is too short for a  *)
(* Message, and one of two is not a VehicleData.                           *)
EXTENDS CacheNode, TLC

CONSTANTS a, b

MCClients == {a, b}

One == <<"start", "payload", "end">>
Two == One \o One
Short == <<"start", "end">>
Long == <<"start", "payload", "payload", "end">>
Trailing == One \o <<"payload">>

Plan(s, t) == (a :> s) @@ (b :> t)
MCScripts == {Plan(One, One), Plan(Two, <<>>), Plan(Trailing, <<"start">>), Plan(Long, Short)}

MCOtherFiles == {{}, {1}}
=============================================================================
