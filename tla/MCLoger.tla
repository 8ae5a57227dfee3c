------------------------------ MODULE MCLoger ------------------------------
(***************************************************************************)
(* A small instance of Loger: main() and two threads it makes.             *)
(***************************************************************************)
EXTENDS Loger

CONSTANTS m, h1, h2
=============================================================================
