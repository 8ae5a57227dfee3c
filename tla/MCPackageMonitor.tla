-------------------------- MODULE MCPackageMonitor --------------------------
(***************************************************************************)
(* Small instances of PackageMonitor: the three flags and one other byte,  *)
(* packages of up to two bytes, chunks of up to three.                     *)
(***************************************************************************)
EXTENDS PackageMonitor
=============================================================================
