------------------------------ MODULE MysqlTest ------------------------------
(***************************************************************************)
(* mysql_test (terminal/main.cpp): the records of one file are inserted    *)
(* into a table as they are, then the compressed timelines of a vehicle    *)
(* into others.  (The file is W1E-021's and the vehicle W1E-001.)  Any     *)
(* statement may fail, which raises an exception.  main() has the call in  *)
(* a comment, after cache_test's.                                          *)
(***************************************************************************)
EXTENDS Vehicle

CONSTANT FileLength    \* records in the file of W1E-021

VARIABLES
  database,        \* the one in use
  cursor,          \* records, or nodes of the timeline at hand, that are done
  count,           \* the nodes counted as inserted
  origin,          \* the rows of Origin: which records they are
  place,           \* the rows of the location table
  bits             \* the rows of a status table, each with its database

db == <<database, cursor, count, origin, place, bits>>
mysqlVars == <<timeline, p, pp, driveAngle, isDriveVectorOk, samples, cover, status,
               statusSamples, statusCover, stage, files, database, cursor, count, origin,
               place, bits>>

MysqlInit ==
  /\ VehicleInit
  /\ database = "none" /\ cursor = 0 /\ count = 0
  /\ origin = <<>> /\ place = <<>> /\ bits = <<>>

At(s) == stage = s /\ UNCHANGED <<vehicle, files>>
Goto(s) == stage' = s /\ cursor' = 0
Done == cursor' = cursor + 1 /\ UNCHANGED stage

\* No such file, no such vehicle, no connection or no database: it returns 1.
Prepare ==
  /\ At("written")
  /\ \/ Goto("origin") /\ database' = "vehicles"
     \/ Goto("failed") /\ UNCHANGED database
  /\ UNCHANGED <<count, origin, place, bits>>

\* A record is inserted, or forgotten.
InsertOrigin ==
  /\ At("origin") /\ cursor < FileLength
  /\ Done
  /\ origin' \in {origin, Append(origin, cursor + 1)}
  /\ UNCHANGED <<database, count, place, bits>>

\* The speed is a division by the milliseconds it took, which may be none.
OriginDone ==
  /\ At("origin") /\ cursor = FileLength
  /\ (Goto("use") \/ Goto("crashed"))
  /\ UNCHANGED <<database, count, origin, place, bits>>

\* If the other database cannot be used, the location is passed over, and the
\* statuses go where the records went.
UseCompressed ==
  /\ At("use")
  /\ \/ Goto("place") /\ database' = "vehicles_compressed"
     \/ Goto("status") /\ UNCHANGED database
  /\ UNCHANGED <<count, origin, place, bits>>

Row(k) == <<k, LocationRows[k]>>

\* A mistake the run must notice: the two statements are tried one by one.
PlaceRowsEach(k) ==
  {<<>>, <<Row(2 * k - 1)>>, <<Row(2 * k)>>, <<Row(2 * k - 1), Row(2 * k)>>}

\* The start of a node is inserted and then, if that did not fail, its end.
PlaceRows(k) == {<<>>, <<Row(2 * k - 1)>>, <<Row(2 * k - 1), Row(2 * k)>>}

InsertPlace ==
  /\ At("place") /\ cursor < Len(Nodes(timeline))
  /\ Done /\ count' = count + 1
  /\ \E rows \in PlaceRows(cursor + 1) : place' = place \o rows
  /\ UNCHANGED <<database, origin, bits>>

PlaceDone ==
  /\ At("place") /\ cursor = Len(Nodes(timeline))
  /\ Goto("status")
  /\ UNCHANGED <<database, count, origin, place, bits>>

InsertStatus ==
  /\ At("status") /\ cursor < Len(StatusRows)
  /\ Done /\ count' = count + 1
  /\ bits' \in {bits, Append(bits, <<database, cursor + 1>>)}
  /\ UNCHANGED <<database, origin, place>>

StatusDone ==
  /\ At("status") /\ cursor = Len(StatusRows)
  /\ (Goto("done") \/ Goto("crashed"))
  /\ UNCHANGED <<database, count, origin, place, bits>>

Test ==
  \/ Prepare \/ InsertOrigin \/ OriginDone \/ UseCompressed
  \/ InsertPlace \/ PlaceDone \/ InsertStatus \/ StatusDone

Fill == (\E loc \in Places, t \in Times : PushRecord(loc, t)) \/ WriteToFile

MysqlNext == (Fill /\ UNCHANGED db) \/ Test

MysqlSpec == MysqlInit /\ [][MysqlNext]_mysqlVars

-----------------------------------------------------------------------------
\* Whatever statements fail, the table of places is part of the file the vehicle
\* was written to, in its order, and a node's end never stands there without its
\* start; all nodes are counted that there was a try to insert.
TablesTellTheFile ==
  /\ \A j \in DOMAIN place :
       /\ "location" \in DOMAIN files => place[j][2] = files["location"][place[j][1]]
       /\ place[j][1] % 2 = 0 => j > 1 /\ place[j - 1][1] = place[j][1] - 1
       /\ j > 1 => place[j - 1][1] < place[j][1]
  /\ stage = "done" =>
       count = Len(StatusRows) + IF database = "vehicles" THEN 0 ELSE Len(LocationRows) \div 2
=============================================================================
