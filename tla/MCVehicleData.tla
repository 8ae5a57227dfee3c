--------------------------- MODULE MCVehicleData ----------------------------
(***************************************************************************)
(* Keys of two bytes, ids of four, two statuses.  Plates of one to five    *)
(* characters: some share an end of two or of four, or a beginning of      *)
(* four.  Rows with a status too few, just enough, and enough to run into  *)
(* when; rows that begin with a comma or a quote.                          *)
(***************************************************************************)
EXTENDS VehicleData

Chars(s) == CASE s = "A" -> <<"A">> [] s = "AB" -> <<"A", "B">>
              [] s = "BAB" -> <<"B", "A", "B">> [] s = "ABAB" -> <<"A", "B", "A", "B">>
              [] s = "BBAB" -> <<"B", "B", "A", "B">>
              [] s = "ABABB" -> <<"A", "B", "A", "B", "B">>
              [] s = "BBABB" -> <<"B", "B", "A", "B", "B">>

Plates == {"A", "AB", "BAB", "ABAB", "BBAB", "ABABB", "BBABB"}

Off == <<"0">>
On == <<"1">>

WholeRows == {<<Chars(p), <<t>>, b, c>> : p \in Plates, t \in {"1"}, b \in {Off, On}, c \in {On}}
OddRows ==
  {<<Chars("AB"), <<"2">>, On, Off>>, <<Chars("AB"), <<"2">>, On>>,
   <<Chars("AB"), <<"2">>, On, On, On, On>>, <<<<>>, <<"2">>, On, Off>>,
   <<<<"q">>, <<"2">>, On, Off>>}

MCRows == WholeRows \cup OddRows
MCBytes == {"A", "B", "0", "1", "2", ",", "q", "nul", "soh"}
=============================================================================
