----------------------------- MODULE VehicleData -----------------------------
(***************************************************************************)
(* struct VehicleData and struct Message (cache-node/data.h, data.cpp):    *)
(* what becomes of a record on its way from a line of a CSV file to a      *)
(* vehicle in the cache.  cache_test puts it there itself; multi_test      *)
(* sends it to a cache node in a package, whose one worker does.           *)
(*                                                                         *)
(* A row is the fields of a line: id, time, then the status fields.        *)
(* Longitude and latitude, which are parsed and copied as the time is, are *)
(* left out.  A number is the bytes it has in memory, two of them.  The    *)
(* escapes and the stream are PackageMonitor's, and transparent.           *)
(***************************************************************************)
EXTENDS VehicleIndex, CSVLine

CONSTANTS
  SOH, Zero,   \* the byte 1, and the character '0'
  NumBits,     \* statuses in bits: 20
  Padding,     \* bytes between bits and when: 4
  Junk,        \* bytes that memory nobody has written may hold
  Rows,        \* the rows that files may hold
  MaxRecords   \* bound on the number of records read

ASSUME RecordAssumption ==
  /\ SOH \in Bytes \ {NUL} /\ NumBits \in Nat \ {0} /\ Padding \in Nat /\ Junk \subseteq Bytes
  /\ \A row \in Rows : row \in Seq(Seq(Bytes \ {NUL})) /\ Len(row) >= 2
  /\ MaxRecords \in Nat

VARIABLES
  path,        \* the way records take: "cache" or "node"
  bigEndian,   \* the byte order of the sender; the node's is little
  rows,        \* history: the rows read
  inCache,     \* the cache: key1 -> key2 -> vehicle
  running

recordVars == <<path, bigEndian, rows, inCache, running>>

RecordInit ==
  /\ path \in {"cache", "node"} /\ bigEndian \in BOOLEAN
  /\ rows = <<>> /\ inCache = [k \in {} |-> {}] /\ running = TRUE

-----------------------------------------------------------------------------
Flag(field) == IF field = <<Zero>> THEN NUL ELSE SOH

\* strtoul: a character is a number; no character is zero.
Number(field) ==
  LET digit == IF field = <<>> THEN NUL ELSE field[1]
  IN  IF bigEndian THEN <<NUL, digit>> ELSE <<digit, NUL>>

\* What VehicleData(fields) may make of a row.  Bits it has no field for are never
\* written.  Fields beyond the last bit go into the bytes behind bits: padding,
\* and then when.
FromFields(fields) ==
  LET given == Len(fields) - 2
      flag(i) == Flag(fields[i + 2])
      behind(k) == NumBits + Padding + k
  IN  {[id |-> fields[1],
        when |-> [k \in 1 .. 2 |->
                    IF behind(k) <= given THEN flag(behind(k)) ELSE Number(fields[2])[k]],
        bits |-> b] :
       b \in {b \in [1 .. NumBits -> Junk \cup {NUL, SOH}] :
                \A i \in 1 .. NumBits : i <= given => b[i] = flag(i)}}

\* A mistake the run must notice: no room is made for a short id.
UnpaddedId(id) == SubSeq(id, 1, IF Len(id) < IdSize THEN Len(id) ELSE IdSize)

\* push_back_to: the id takes SIZE_OF_ID bytes, cut off or filled up with zeros.
PaddedId(id) == [i \in 1 .. IdSize |-> IF i <= Len(id) THEN id[i] ELSE NUL]

\* The package, from byte 9 on; Message hands it over as it is.
MakePackage(vd) == vd.when \o PaddedId(vd.id) \o vd.bits

\* The string that begins at a place in memory ends before the next zero.
CString(bytes) ==
  SubSeq(bytes, 1, (CHOOSE n \in DOMAIN bytes :
                      bytes[n] = NUL /\ \A k \in 1 .. (n - 1) : bytes[k] # NUL) - 1)

\* VehicleData(msg): the fields are copied from their places.  The id is read as a
\* C string, into the bits if its place has no zero, and on behind the package.
FromMessage(package) ==
  LET rest == SubSeq(package, 3, Len(package))
  IN  {[id |-> CString(rest \o behind \o <<NUL>>), when |-> SubSeq(package, 1, 2),
        bits |-> SubSeq(rest, IdSize + 1, Len(rest))] :
       behind \in {<<>>} \cup {<<j>> : j \in Junk}}

\* What push_back is given for a row, by either way.
Arriving(row) ==
  LET read == UNION {FromFields(ProcessLine(LineOf(row), before)) : before \in {Quote, NUL}}
  IN  IF path = "cache" THEN read
      ELSE UNION {FromMessage(MakePackage(vd)) : vd \in read}

-----------------------------------------------------------------------------
(* Cache::push_back by one thread, in one step.                            *)

Sample(vd) == [row |-> Len(rows) + 1, when |-> vd.when, bits |-> vd.bits]

Known(vd) == Key1Of(vd.id) \in DOMAIN inCache

\* The first record of a first key makes a vehicle.
NewVehicle(vd) ==
  /\ ~Known(vd)
  /\ inCache' = [k \in DOMAIN inCache \cup {Key1Of(vd.id)} |->
                   IF k \in DOMAIN inCache THEN inCache[k]
                   ELSE [q \in {Key2Of(vd.id)} |-> [id |-> vd.id, samples |-> <<Sample(vd)>>]]]
  /\ UNCHANGED running

AddSample(vd) ==
  /\ Known(vd) /\ Key2Of(vd.id) \in DOMAIN inCache[Key1Of(vd.id)]
  /\ inCache' = [inCache EXCEPT ![Key1Of(vd.id)][Key2Of(vd.id)].samples = Append(@, Sample(vd))]
  /\ UNCHANGED running

\* Undefined (see Cache): the record is dropped, or the process ends.
MissingKey2(vd) ==
  /\ Known(vd) /\ Key2Of(vd.id) \notin DOMAIN inCache[Key1Of(vd.id)]
  /\ running' \in BOOLEAN
  /\ UNCHANGED inCache

\* A row is read and its record put into the cache.
Read(row) ==
  /\ running = TRUE /\ Len(rows) < MaxRecords
  /\ rows' = Append(rows, row)
  /\ \E vd \in Arriving(row) : NewVehicle(vd) \/ AddSample(vd) \/ MissingKey2(vd)
  /\ UNCHANGED <<path, bigEndian>>

RecordNext == \E row \in Rows : Read(row)

RecordSpec == RecordInit /\ [][RecordNext]_recordVars

-----------------------------------------------------------------------------
\* Rows that process_line gives back as they were written.
Plain(row) ==
  /\ row[1] # <<>>
  /\ \A n \in DOMAIN row : \A i \in DOMAIN row[n] : row[n][i] \notin {Comma, Quote}

\* What is left of the plate of a row's record on its way.
Name(row) ==
  IF path = "cache" \/ Len(row[1]) < IdSize THEN row[1] ELSE SubSeq(row[1], 1, IdSize)

\* The record arrives under a name that its keys tell: one of IdSize bytes at most,
\* and if it has that many in a package, followed by a status that is off.
Told(row) ==
  /\ Plain(row) /\ Len(Name(row)) <= IdSize
  /\ path = "node" /\ Len(Name(row)) = IdSize => Len(row) > 2 /\ row[3] = <<Zero>>

\* With a time, and with fields for the bits and no more, as sort() leaves them.
Whole(row) == row[2] # <<>> /\ Len(row) = NumBits + 2

\* The sample says what the row said, if it was whole and the sender's byte order the node's.
SaysWhat(sample, row) ==
  Whole(row) /\ ~bigEndian => /\ sample.when = <<row[2][1], NUL>>
                              /\ sample.bits = [b \in 1 .. NumBits |-> Flag(row[b + 2])]

\* No other name shares the first key.
Alone(n) ==
  \A m \in DOMAIN rows :
    Key1Of(Name(rows[m])) = Key1Of(Name(rows[n])) => Name(rows[m]) = Name(rows[n])

VehicleOf(id) ==
  IF Key1Of(id) \in DOMAIN inCache /\ Key2Of(id) \in DOMAIN inCache[Key1Of(id)]
  THEN inCache[Key1Of(id)][Key2Of(id)] ELSE [id |-> id, samples |-> <<>>]

\* A vehicle has the records of one plate only, whatever plates share a first key
\* or the end of a name: no two names the keys tell are taken for each other.
NoStrangers ==
  \A k \in DOMAIN inCache : \A q \in DOMAIN inCache[k] :
    LET s == inCache[k][q].samples
        row(i) == rows[s[i].row]
    IN  \A i, j \in DOMAIN s : Told(row(i)) /\ Told(row(j)) => Name(row(i)) = Name(row(j))

\* The record of a row is in the vehicle that get_vehicle finds under its name,
\* once and in order, unless another name shares its first key; and it says what
\* the row said.
EveryRecordIsKept ==
  (\A n \in DOMAIN rows : Told(rows[n])) =>
    \A n \in DOMAIN rows : Alone(n) =>
      LET s == VehicleOf(Name(rows[n])).samples
      IN  /\ \E i \in DOMAIN s : s[i].row = n /\ SaysWhat(s[i], rows[n])
          /\ \A i, j \in DOMAIN s : i < j => s[i].row < s[j].row
=============================================================================
