----------------------------- MODULE MCTerminal -----------------------------
(***************************************************************************)
(* Directories of none to eight files.  A buffer has two lines, so files   *)
(* of up to six lines fill it up to twice, exactly or with a rest.         *)
(***************************************************************************)
EXTENDS Terminal

MCThreads == 1 .. 4

\* Records of vehicles a and b, and one whose number is none and whose time
\* cannot be read.
Body == <<"none", "a", "b", "a", "b">>
Lines(n) == [l \in 1 .. n |-> IF l = 1 THEN "header" ELSE Body[l - 1]]
File(n) == [opens |-> TRUE, lines |-> Lines(n)]
Gaps == [opens |-> TRUE, lines |-> <<"header", "blank", "blank", "b", "none", "blank">>]
Missing == [opens |-> FALSE, lines |-> <<>>]

Texts == {"header", "blank", "a", "b", "none"}
MCNo == [l \in Texts |-> l]
MCWhen == [l \in Texts |-> IF l = "a" THEN 2 ELSE 1]

Four == <<File(3), File(0), File(6), Gaps>>
Five == <<File(2), File(3), File(2), File(1), File(4)>>
Six == <<File(4), File(5), Missing, File(2), Gaps, File(3)>>
Seven == <<File(2), Missing, File(2), File(2), File(5), File(2), File(1)>>
Eight == [f \in 1 .. 8 |-> File((f % 3) + 1)]

MCDirectories == {<<>>, <<File(3)>>, Four, Five, Six, Seven, Eight}
OneFile == {<<File(6)>>}
=============================================================================
