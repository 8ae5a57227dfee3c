--------------------------- MODULE PackageMonitor ---------------------------
(***************************************************************************)
(* One TCP connection from encode_package (cache-node/data.cpp) at a       *)
(* terminal to PackageMonitor::put in the epoll thread of the cache node.  *)
(*                                                                         *)
(* The terminal encodes a package byte by byte onto the stream.  The epoll *)
(* thread receives the stream in chunks of whatever size recv() returns,   *)
(* hands each to put(), and passes on the packages put() collected, unless *)
(* put() found an error: then it closes the connection.                    *)
(*                                                                         *)
(* A byte in flight is a record [b, at].  Only b is really sent; at is a   *)
(* history variable: the state a parser must be in to take the byte as the *)
(* encoder meant it, which is the number of the package, the index of the  *)
(* next payload byte, and the parser's stat.                               *)
(***************************************************************************)
EXTENDS Integers, Sequences

CONSTANTS
  flagStart, flagEnd, flagChange,  \* 0xaa, 0xbb, 0xcc
  Others,                          \* all other byte values
  ChunkSize,                       \* the epoll thread's buffer: 1024 bytes
  MaxPackages, MaxLength,          \* bounds: packages, payload bytes in each
  MaxRaw                           \* bound: bytes sent without encoding

Flags == {flagStart, flagEnd, flagChange}
Bytes == Flags \cup Others

ASSUME PackageAssumption ==
  /\ flagStart # flagEnd /\ flagStart # flagChange /\ flagEnd # flagChange
  /\ Flags \cap Others = {}
  /\ ChunkSize \in Nat \ {0}
  /\ MaxPackages \in Nat /\ MaxLength \in Nat /\ MaxRaw \in Nat

VARIABLES
  sent,        \* the packages encoded so far
  cur,         \* the payload of the package being encoded
  encoding,    \* TRUE from its flagStart to its flagEnd
  mayRaw,      \* how many bytes this client may send without encoding: none if
               \* it is a terminal, some if it is like unit-test/client.cpp
  raw,         \* how many it has sent
  intact,      \* history: how many packages were sent before the first of them
  hungUp,      \* the terminal has closed its socket
  wire,        \* the bytes in flight
  connected,   \* the epoll thread has the socket open
  buffer,      \* what is left of the chunk that put() is working through
  putting,     \* put() is at work
  stat, data,  \* PackageMonitor::stat and data
  lists,       \* the packages this call of put() has collected
  delivered    \* the packages passed on to the worker

terminal == <<sent, cur, encoding, mayRaw, raw, intact, hungUp>>
monitor == <<stat, data, lists>>
vars == <<sent, cur, encoding, mayRaw, raw, intact, hungUp, wire, connected, buffer,
          putting, stat, data, lists, delivered>>

\* Where the encoder is: which byte of which package comes next.
Position == <<Len(sent) + 1, Len(cur) + 1, IF encoding THEN "END" ELSE "START">>

InChange(p) == <<p[1], p[2], "CHANGE">>

Init ==
  /\ sent = <<>> /\ cur = <<>> /\ encoding = FALSE /\ hungUp = FALSE
  /\ mayRaw \in 0 .. MaxRaw /\ raw = 0 /\ intact = 0
  /\ wire = <<>>
  /\ connected = TRUE /\ buffer = <<>> /\ putting = FALSE
  /\ stat = "START" /\ data = <<>> /\ lists = <<>>
  /\ delivered = <<>>

-----------------------------------------------------------------------------
(* The terminal: encode_package, iteration by iteration, and send().       *)

Send(bytes) == wire' = wire \o bytes

\* p.push_back(flagStart)
EncodeStart ==
  /\ ~hungUp /\ ~encoding /\ Len(sent) < MaxPackages
  /\ Send(<<[b |-> flagStart, at |-> Position]>>)
  /\ encoding' = TRUE
  /\ UNCHANGED <<sent, cur, mayRaw, raw, intact, hungUp, connected, buffer, putting, monitor,
                 delivered>>

\* A mistake the run must notice: flagChange itself is not escaped.
EscapedButChange == {flagStart, flagEnd}

\* The bytes that go behind a flagChange.
Escaped == Flags

\* One payload byte, after a flagChange if it is one of the three flags.
EncodeByte(b) ==
  /\ ~hungUp /\ encoding /\ Len(cur) < MaxLength
  /\ Send(IF b \in Escaped
          THEN <<[b |-> flagChange, at |-> Position], [b |-> b, at |-> InChange(Position)]>>
          ELSE <<[b |-> b, at |-> Position]>>)
  /\ cur' = Append(cur, b)
  /\ UNCHANGED <<sent, encoding, mayRaw, raw, intact, hungUp, connected, buffer, putting,
                 monitor, delivered>>

\* p.push_back(flagEnd)
EncodeEnd ==
  /\ ~hungUp /\ encoding
  /\ Send(<<[b |-> flagEnd, at |-> Position]>>)
  /\ encoding' = FALSE /\ sent' = Append(sent, cur) /\ cur' = <<>>
  /\ UNCHANGED <<mayRaw, raw, intact, hungUp, connected, buffer, putting, monitor, delivered>>

\* A client that sends bytes as they are.
SendRaw(b) ==
  /\ ~hungUp /\ raw < mayRaw
  /\ Send(<<[b |-> b, at |-> Position]>>)
  /\ raw' = raw + 1
  /\ intact' = IF raw = 0 THEN Len(sent) ELSE intact
  /\ UNCHANGED <<sent, cur, encoding, mayRaw, hungUp, connected, buffer, putting, monitor,
                 delivered>>

\* The terminal closes its socket, perhaps in the middle of a package.
HangUp ==
  /\ ~hungUp /\ hungUp' = TRUE
  /\ UNCHANGED <<sent, cur, encoding, mayRaw, raw, intact, wire, connected, buffer, putting,
                 monitor, delivered>>

-----------------------------------------------------------------------------
(* The epoll thread: recv(), put() byte by byte, and what it does next.    *)

\* recv() returns between one byte and a buffer full.
Recv ==
  /\ connected /\ ~putting
  /\ \E n \in 1 .. Len(wire) :
       /\ n <= ChunkSize
       /\ buffer' = SubSeq(wire, 1, n)
       /\ wire' = SubSeq(wire, n + 1, Len(wire))
  /\ putting' = TRUE
  /\ UNCHANGED <<terminal, connected, monitor, delivered>>

\* The next byte of the chunk, in the switch of put().
Taking(s) == putting /\ buffer # <<>> /\ stat = s
NextByte == Head(buffer).b
Consume == buffer' = Tail(buffer)

PutStart ==
  /\ Taking("START") /\ NextByte = flagStart
  /\ Consume
  /\ stat' = "END"
  /\ UNCHANGED <<terminal, wire, connected, putting, data, lists, delivered>>

PutChange ==
  /\ Taking("END") /\ NextByte = flagChange
  /\ Consume
  /\ stat' = "CHANGE"
  /\ UNCHANGED <<terminal, wire, connected, putting, data, lists, delivered>>

\* lists.push_back(std::move(data)) leaves data empty.
PutEnd ==
  /\ Taking("END") /\ NextByte = flagEnd
  /\ Consume
  /\ lists' = Append(lists, data) /\ data' = <<>>
  /\ stat' = "START"
  /\ UNCHANGED <<terminal, wire, connected, putting, delivered>>

\* Any other byte is payload, a flagStart inside a package too.
PutPlain ==
  /\ Taking("END") /\ NextByte \notin {flagChange, flagEnd}
  /\ Consume
  /\ data' = Append(data, NextByte)
  /\ UNCHANGED <<terminal, wire, connected, putting, stat, lists, delivered>>

PutEscaped ==
  /\ Taking("CHANGE") /\ NextByte \in Flags
  /\ Consume
  /\ data' = Append(data, NextByte)
  /\ stat' = "END"
  /\ UNCHANGED <<terminal, wire, connected, putting, lists, delivered>>

\* A mistake the run must notice: a connection that ends is not cleared.
ClearNothing == UNCHANGED <<stat, data>>

\* Connection::clear() resets the monitor.
Clear == stat' = "START" /\ data' = <<>>

\* put() returned -1: the epoll thread closes the socket and clears the
\* connection, which resets the monitor.  What this call had collected is lost.
PutFails ==
  /\ \/ Taking("START") /\ NextByte # flagStart
     \/ Taking("CHANGE") /\ NextByte \notin Flags
  /\ connected' = FALSE
  /\ putting' = FALSE /\ buffer' = <<>> /\ lists' = <<>>
  /\ Clear
  /\ UNCHANGED <<terminal, wire, delivered>>

\* A mistake the run must notice: lists is one for all chunks.
ListsKept == lists

\* lists.clear(), between two chunks.
NewLists == <<>>

\* put() returned the number of packages it collected, which are passed on.
PutReturns ==
  /\ putting /\ buffer = <<>>
  /\ delivered' = delivered \o lists /\ lists' = NewLists
  /\ putting' = FALSE
  /\ UNCHANGED <<terminal, wire, connected, buffer, stat, data>>

\* A mistake the run must notice: the end of the stream is taken for granted
\* as soon as the terminal has closed, with bytes still to be read.
AllReadAtOnce == TRUE

AllRead == wire = <<>>

\* recv() returned 0: all was read and the terminal has closed.
RecvEof ==
  /\ connected /\ ~putting /\ hungUp /\ AllRead
  /\ connected' = FALSE
  /\ Clear
  /\ UNCHANGED <<terminal, wire, buffer, putting, lists, delivered>>

Put == PutStart \/ PutChange \/ PutEnd \/ PutPlain \/ PutEscaped \/ PutFails \/ PutReturns

Terminal == \/ EncodeStart \/ EncodeEnd \/ HangUp
            \/ \E b \in Bytes : EncodeByte(b) \/ SendRaw(b)

EpollThread == Recv \/ Put \/ RecvEof

Next == Terminal \/ EpollThread

Spec == Init /\ [][Next]_vars

\* The epoll thread goes on as long as there is something to receive.
FairSpec == Spec /\ WF_vars(EpollThread)

-----------------------------------------------------------------------------
WellFormed == mayRaw = 0

Package == Seq(Bytes)
Flight == [b : Bytes, at : Nat \X Nat \X {"START", "END", "CHANGE"}]

TypeOK ==
  /\ sent \in Seq(Package) /\ cur \in Package /\ encoding \in BOOLEAN
  /\ mayRaw \in Nat /\ raw \in 0 .. mayRaw /\ intact \in Nat /\ hungUp \in BOOLEAN
  /\ wire \in Seq(Flight) /\ buffer \in Seq(Flight)
  /\ connected \in BOOLEAN /\ putting \in BOOLEAN
  /\ stat \in {"START", "END", "CHANGE"} /\ data \in Package
  /\ lists \in Seq(Package) /\ delivered \in Seq(Package)

\* A stream that encode_package made is decoded to the packages it was made
\* from, in order, however recv() cuts it, and is never taken for an error.
ExactlyWhatWasSent ==
  WellFormed =>
    /\ Len(delivered) <= Len(sent)
    /\ \A n \in 1 .. Len(delivered) : delivered[n] = sent[n]
    /\ ~connected => hungUp /\ wire = <<>>

\* A connection ends clean: nothing of an unfinished package is passed on, and
\* nothing of it is left behind for the next connection that is given the same
\* socket number, also when a parse error ended it.
EndsClean ==
  ~connected => /\ stat = "START" /\ data = <<>> /\ lists = <<>> /\ ~putting
                /\ WellFormed => delivered = sent

\* Bytes sent without encoding cannot damage, repeat or reorder the packages
\* that were sent before them.
EarlierPackagesIntact ==
  \A n \in 1 .. Len(delivered) :
    n <= (IF WellFormed THEN Len(sent) ELSE intact) => delivered[n] = sent[n]

\* The stream of a client that encodes refines the abstract channel: bytes,
\* chunks and escapes are invisible to whoever looks at packages only.
Packages == UNION {[1 .. n -> Bytes] : n \in 0 .. MaxLength}
IfEncoded(packages) == IF WellFormed THEN packages ELSE <<>>

Channel == INSTANCE Fifo WITH Values <- Packages, put <- IfEncoded(sent),
                              got <- IfEncoded(delivered)

\* With nothing but encoded packages, they all arrive, in order, once each.
StreamIsAChannel == Channel!Spec
=============================================================================
