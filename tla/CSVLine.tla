------------------------------ MODULE CSVLine -------------------------------
(***************************************************************************)
(* A line of a CSV file, as operator<< of com/extension.h writes it from   *)
(* its fields and as CSVHelper::process_line (terminal/file.cpp) takes it  *)
(* apart.  Lines and fields are sequences of characters.                   *)
(***************************************************************************)
EXTENDS Integers, Sequences

CONSTANTS Comma, Quote

ASSUME LineAssumption == Comma # Quote

\* What is written from the n-th field on.
LineOf(fields) ==
  LET from[n \in 1 .. (Len(fields) + 1)] ==
        IF n > Len(fields) THEN <<>>
        ELSE fields[n] \o (IF n < Len(fields) THEN <<Comma>> ELSE <<>>) \o from[n + 1]
  IN  from[1]

\* line.find(",", posb); for npos, the place behind the line.
FindComma(line, posb) ==
  LET found == {i \in posb .. Len(line) : line[i] = Comma}
  IN  IF found = {} THEN Len(line) + 1 ELSE CHOOSE i \in found : \A j \in found : i <= j

\* length, before it is stored in a size_t: a quote at either end is not counted.
Length(posb, pose, opens, closes) ==
  pose - posb - (IF opens THEN 1 ELSE 0) - (IF closes THEN 1 ELSE 0)

\* The field from posb to the comma at pose.  before is the byte in memory before
\* the line, which line[pose - 1] reads if the line begins with a comma.  A length
\* below zero wraps around, and substr takes the rest of the line: for a field
\* that is one quote, which counts as both, and for an empty first field.
Field(line, before, posb, pose) ==
  LET opens == line[posb] = Quote
      closes == (IF pose = 1 THEN before ELSE line[pose - 1]) = Quote
      from == IF opens THEN posb + 1 ELSE posb
      length == Length(posb, pose, opens, closes)
  IN  SubSeq(line, from, IF length < 0 THEN Len(line) ELSE from + length - 1)

\* The loop goes from comma to comma; the last field keeps its quotes.
ProcessLine(line, before) ==
  LET rest[posb \in 1 .. (Len(line) + 1)] ==
        LET pose == FindComma(line, posb)
        IN  IF pose > Len(line) THEN <<SubSeq(line, posb, Len(line))>>
            ELSE <<Field(line, before, posb, pose)>> \o rest[pose + 1]
  IN  rest[1]
=============================================================================
