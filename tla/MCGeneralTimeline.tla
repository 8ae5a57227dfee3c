------------------------- MODULE MCGeneralTimeline -------------------------
(***************************************************************************)
(* A small instance of GeneralTimeline for TLC: two field values, a record *)
(* without a time and three times, chunks of two nodes, so that six samples *)
(* fill two chunks and start a third.                                      *)
(***************************************************************************)
EXTENDS GeneralTimeline

CONSTANTS off, on

MCValues == {off, on}
MCTimes == {NoTime, 0, 1, 2}
=============================================================================
