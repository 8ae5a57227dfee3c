------------------------ MODULE PackageMonitorProofs ------------------------
(***************************************************************************)
(* PackageMonitor for every alphabet, every package and every way to cut   *)
(* the stream: what encode_package sent is what put() collects, also in    *)
(* front of bytes that were never encoded.                                 *)
(***************************************************************************)
EXTENDS PackageMonitor, SequenceTheorems, TLAPS

USE DEF Escaped, Clear, NewLists, AllRead

\* The bytes between the encoder and the parser, and the packages behind it.
pending == buffer \o wire
collected == delivered \o lists

\* Where the parser is: the byte it expects, as the encoder numbers them.
Here == <<Len(collected) + 1, Len(data) + 1, stat>>

\* Where the parser is when it has taken a byte the way it was meant.
After(r) ==
  LET n == r.at[1]
      k == r.at[2]
  IN  CASE r.at[3] = "START" -> <<n, k, "END">>
        [] r.at[3] = "CHANGE" -> <<n, k + 1, "END">>
        [] r.at[3] = "END" -> IF r.b = flagChange THEN <<n, k, "CHANGE">>
                              ELSE IF r.b = flagEnd THEN <<n + 1, 1, "START">>
                              ELSE <<n, k + 1, "END">>

\* The n-th package: one of those sent, s, or the one being encoded, c.
PackageAt(n, s, c) == IF n <= Len(s) THEN s[n] ELSE c

\* A byte is the one encode_package puts at its place.
Right(r, s, c) ==
  LET n == r.at[1]
      k == r.at[2]
      e == PackageAt(n, s, c)
  IN  /\ r.at[3] = "START" => r.b = flagStart /\ k = 1
      /\ r.at[3] = "CHANGE" => k \in 1 .. Len(e) /\ e[k] \in Flags /\ r.b = e[k]
      /\ r.at[3] = "END" =>
           \/ k \in 1 .. Len(e) /\ r.b = IF e[k] \in Flags THEN flagChange ELSE e[k]
           \/ k = Len(e) + 1 /\ n <= Len(s) /\ r.b = flagEnd

\* The n-th package is out of reach of all bytes that were not encoded.
Trusted(n) == raw = 0 \/ n <= intact

\* From the parser on, the bytes of trusted packages are the right ones, and
\* each is where the one before leaves the parser.  The last leaves it where the
\* encoder is, or has left the trusted packages behind.
Stream ==
  /\ \A i \in 1 .. Len(pending) :
       /\ pending[i].at[1] \in 1 .. (Len(sent) + 1)
       /\ Trusted(pending[i].at[1]) => Right(pending[i], sent, cur)
  /\ pending # <<>> /\ Trusted(Here[1]) => pending[1].at = Here
  /\ \A i \in 1 .. (Len(pending) - 1) :
       Trusted(pending[i].at[1]) /\ Trusted(After(pending[i])[1]) =>
         pending[i + 1].at = After(pending[i])
  /\ pending = <<>> /\ Trusted(Here[1]) => raw = 0 /\ Here = Position
  /\ pending # <<>> /\ Trusted(pending[Len(pending)].at[1])
       /\ Trusted(After(pending[Len(pending)])[1]) =>
         raw = 0 /\ After(pending[Len(pending)]) = Position

\* What the parser has put together is what was encoded, as far as it got.
Decoded ==
  /\ \A n \in 1 .. Len(collected) :
       Trusted(n) => n <= Len(sent) /\ collected[n] = sent[n]
  /\ connected /\ Trusted(Here[1]) =>
       /\ Len(data) <= Len(PackageAt(Here[1], sent, cur))
       /\ \A k \in 1 .. Len(data) : data[k] = PackageAt(Here[1], sent, cur)[k]

\* When the epoll thread is not in put(), it has nothing in hand; and a closed
\* connection is clear.
AtRest ==
  /\ ~putting => buffer = <<>> /\ lists = <<>>
  /\ stat = "START" => data = <<>>
  /\ ~connected => ~putting /\ stat = "START"
  /\ ~encoding => cur = <<>>
  /\ intact <= Len(sent)
  /\ ~connected /\ WellFormed => hungUp /\ wire = <<>> /\ delivered = sent

IInv == TypeOK /\ AtRest /\ (connected => Stream) /\ Decoded

-----------------------------------------------------------------------------
(* The bytes in flight, as one sequence.                                   *)

\* Two sequences, one behind the other.
LEMMA PendingFacts ==
  ASSUME TypeOK
  PROVE  /\ pending \in Seq(Flight) /\ Len(pending) = Len(buffer) + Len(wire)
         /\ \A i \in 1 .. Len(buffer) : pending[i] = buffer[i]
         /\ \A i \in 1 .. Len(wire) : pending[Len(buffer) + i] = wire[i]
         /\ collected \in Seq(Package) /\ Len(collected) = Len(delivered) + Len(lists)
         /\ \A i \in 1 .. Len(delivered) : collected[i] = delivered[i]
BY DEF TypeOK, pending, collected

\* A byte leaves the parser in the package it belongs to, or in a later one.
LEMMA AfterFacts ==
  ASSUME NEW r \in Flight
  PROVE  /\ r.at[1] \in Nat /\ r.at[2] \in Nat /\ r.at[3] \in {"START", "END", "CHANGE"}
         /\ r.at = <<r.at[1], r.at[2], r.at[3]>>
         /\ After(r)[1] \in Nat /\ After(r)[1] >= r.at[1]
BY DEF Flight, After

\* The byte put() takes is the first of those in flight.
LEMMA TakeFacts ==
  ASSUME TypeOK, buffer # <<>>, Consume, wire' = wire
  PROVE  /\ pending # <<>> /\ Head(buffer) = pending[1] /\ Head(buffer) \in Flight
         /\ pending' = Tail(pending) /\ Len(pending') = Len(pending) - 1
         /\ \A i \in 1 .. Len(pending') : pending'[i] = pending[i + 1]
         /\ pending' # <<>> => pending'[Len(pending')] = pending[Len(pending)]
<1>1. /\ buffer \in Seq(Flight) /\ wire \in Seq(Flight) /\ Len(buffer) \in Nat \ {0}
      /\ buffer' = Tail(buffer) /\ Head(buffer) = buffer[1]
  BY DEF TypeOK, Consume
<1>2. /\ pending' = Tail(buffer) \o wire
      /\ pending = buffer \o wire
  BY <1>1 DEF pending
<1>3. Tail(buffer) \o wire = Tail(pending)
  BY <1>1, <1>2
<1>4. pending \in Seq(Flight) /\ Len(pending) \in Nat \ {0} /\ pending[1] = buffer[1]
  <2>1. Len(wire) \in Nat /\ 1 \in 1 .. Len(buffer)
    BY <1>1
  <2>2. /\ pending \in Seq(Flight) /\ Len(pending) = Len(buffer) + Len(wire)
        /\ \A i \in 1 .. Len(buffer) : pending[i] = buffer[i]
    BY PendingFacts
  <2> QED BY <1>1, <2>1, <2>2
<1>5. Len(Tail(pending)) = Len(pending) - 1
      /\ \A i \in 1 .. Len(Tail(pending)) : Tail(pending)[i] = pending[i + 1]
  BY <1>4
<1>6. pending[1] \in Flight /\ pending # <<>>
  BY <1>4
<1>7. ASSUME pending' # <<>> PROVE pending'[Len(pending')] = pending[Len(pending)]
  <2>1. pending' = Tail(pending) /\ Len(pending) - 1 \in 1 .. Len(Tail(pending))
    BY <1>2, <1>3, <1>4, <1>5, <1>7
  <2> QED BY <1>4, <1>5, <2>1
<1> QED BY <1>1, <1>2, <1>3, <1>4, <1>5, <1>6, <1>7

\* If the parser is still where no stray byte has reached, the byte it takes is
\* the one the encoder put there.
LEMMA HeadIsRight ==
  ASSUME IInv, putting, buffer # <<>>, Trusted(Here[1])
  PROVE  Head(buffer).at = Here /\ Right(Head(buffer), sent, cur) /\ Head(buffer) \in Flight
<1>1. /\ pending # <<>> /\ pending[1] = Head(buffer) /\ 1 \in 1 .. Len(pending)
      /\ Head(buffer) \in Flight
  <2>1. buffer \in Seq(Flight) /\ wire \in Seq(Flight) /\ Len(buffer) \in Nat \ {0}
    BY DEF IInv, TypeOK
  <2> QED BY <2>1, PendingFacts DEF IInv
<1>2. Stream
  BY DEF IInv, AtRest
<1>3. pending[1].at = Here
  BY <1>1, <1>2 DEF Stream
<1>4. Trusted(pending[1].at[1])
  BY <1>3
<1> QED BY <1>1, <1>2, <1>3, <1>4 DEF Stream

\* A byte of a trusted package is in trusted hands all the way before.
LEMMA TrustedFacts ==
  ASSUME TypeOK
  PROVE  \A m, n \in Nat : Trusted(n) /\ m <= n => Trusted(m)
BY DEF TypeOK, Trusted

\* Here is made of numbers.
LEMMA HereFacts ==
  ASSUME TypeOK
  PROVE  /\ Here[1] = Len(collected) + 1 /\ Here[1] \in Nat
         /\ Here[2] = Len(data) + 1 /\ Here[2] \in Nat /\ Here[3] = stat
<1>1. collected \in Seq(Package) /\ data \in Package
  BY PendingFacts DEF TypeOK
<1>2. Len(collected) \in Nat /\ Len(data) \in Nat
  BY <1>1 DEF Package
<1> QED BY <1>2 DEF Here

\* Taking a byte leaves the rest of the stream as it was, and the parser where
\* the byte leads.
LEMMA TakenStream ==
  ASSUME IInv, putting, buffer # <<>>, Consume, wire' = wire, UNCHANGED terminal,
         TypeOK', Here'[1] >= Here[1], Trusted(Here[1]) => Here' = After(Head(buffer))
  PROVE  Stream'
<1>1. Stream /\ TypeOK
  BY DEF IInv, AtRest
<1>2. /\ pending # <<>> /\ Head(buffer) = pending[1] /\ Head(buffer) \in Flight
      /\ Len(pending') = Len(pending) - 1
      /\ \A i \in 1 .. Len(pending') : pending'[i] = pending[i + 1]
      /\ pending' # <<>> => pending'[Len(pending')] = pending[Len(pending)]
  BY <1>1, TakeFacts
<1>3. pending \in Seq(Flight) /\ pending' \in Seq(Flight)
  BY <1>1 DEF TypeOK, pending
<1>4. Len(pending) \in Nat \ {0} /\ Len(pending') \in Nat
  BY <1>2, <1>3
<1>5. Here[1] \in Nat /\ Here'[1] \in Nat /\ (Trusted(Here'[1]) => Trusted(Here[1]))
  <2>1. Here[1] \in Nat /\ Here'[1] \in Nat
    BY <1>1 DEF TypeOK, Here, collected
  <2> QED BY <1>1, <2>1, TrustedFacts
<1>6. ASSUME Trusted(Here'[1])
      PROVE  /\ pending[1].at = Here /\ Here' = After(pending[1])
             /\ Trusted(pending[1].at[1]) /\ Trusted(After(pending[1])[1])
  <2>1. Trusted(Here[1]) /\ pending[1].at = Here /\ Here' = After(pending[1])
    BY <1>1, <1>2, <1>5, <1>6 DEF Stream
  <2> QED BY <1>6, <2>1
<1>7. ASSUME NEW i \in 1 .. Len(pending')
      PROVE  (/\ pending[i].at[1] \in 1 .. (Len(sent) + 1)
              /\ Trusted(pending[i].at[1]) => Right(pending[i], sent, cur))'
  <2>1. pending'[i] = pending[i + 1] /\ i + 1 \in 1 .. Len(pending)
    BY <1>2, <1>4
  <2>2. pending[i + 1].at[1] \in 1 .. (Len(sent) + 1)
        /\ (Trusted(pending[i + 1].at[1]) => Right(pending[i + 1], sent, cur))
    BY <1>1, <2>1 DEF Stream
  <2> QED BY <2>1, <2>2 DEF terminal, Trusted
<1>8. ASSUME pending' # <<>>, Trusted(Here[1])' PROVE pending'[1].at = Here'
  <2>1. Trusted(Here'[1])
    BY <1>8 DEF Trusted, terminal
  <2>2. Len(pending) > 1 /\ pending'[1] = pending[2]
    BY <1>2, <1>3, <1>4, <1>8
  <2>3. pending[1 + 1].at = After(pending[1])
    BY <1>1, <1>4, <1>6, <2>1, <2>2 DEF Stream
  <2> QED BY <1>6, <2>1, <2>2, <2>3
<1>9. ASSUME NEW i \in 1 .. (Len(pending') - 1),
             Trusted(pending[i].at[1])', Trusted(After(pending[i])[1])'
      PROVE  (pending[i + 1].at = After(pending[i]))'
  <2>1. /\ pending'[i] = pending[i + 1] /\ pending'[i + 1] = pending[(i + 1) + 1]
        /\ i + 1 \in 1 .. (Len(pending) - 1)
    BY <1>2, <1>4
  <2>2. Trusted(pending[i + 1].at[1]) /\ Trusted(After(pending[i + 1])[1])
    BY <1>9, <2>1 DEF Trusted, terminal
  <2> QED BY <1>1, <2>1, <2>2 DEF Stream
<1>10. ASSUME pending' = <<>>, Trusted(Here[1])' PROVE raw' = 0 /\ Here' = Position'
  <2>1. Trusted(Here'[1])
    BY <1>10 DEF Trusted, terminal
  <2>2. Len(pending) = 1
    BY <1>2, <1>4, <1>10
  <2>3. raw = 0 /\ After(pending[1]) = Position
    BY <1>1, <1>2, <1>6, <2>1, <2>2 DEF Stream
  <2> QED BY <1>6, <2>1, <2>3 DEF terminal, Position
<1>11. ASSUME pending' # <<>>, Trusted(pending[Len(pending)].at[1])',
              Trusted(After(pending[Len(pending)])[1])'
       PROVE  raw' = 0 /\ (After(pending[Len(pending)]) = Position)'
  <2>1. /\ pending'[Len(pending')] = pending[Len(pending)]
        /\ Trusted(pending[Len(pending)].at[1]) /\ Trusted(After(pending[Len(pending)])[1])
    BY <1>2, <1>11 DEF Trusted, terminal
  <2>2. raw = 0 /\ After(pending[Len(pending)]) = Position
    BY <1>1, <1>2, <2>1 DEF Stream
  <2> QED BY <2>1, <2>2 DEF terminal, Position
<1> QED BY <1>7, <1>8, <1>9, <1>10, <1>11 DEF Stream

-----------------------------------------------------------------------------
(* The terminal's steps.                                                   *)

\* A package gets a byte more, or is complete, or none changes.
Grown ==
  \/ sent' = sent /\ cur' = cur
  \/ sent' = sent /\ \E b \in Bytes : cur' = Append(cur, b)
  \/ sent' = Append(sent, cur) /\ cur' = <<>>

\* What is right of the packages so far stays right while they grow.
LEMMA RightExtends ==
  ASSUME TypeOK, NEW r \in Flight, r.at[1] \in 1 .. (Len(sent) + 1), Right(r, sent, cur),
         Grown
  PROVE  Right(r, sent', cur')
<1>1. r.at[1] \in Nat /\ r.at[2] \in Nat
  BY AfterFacts
<1>2. sent \in Seq(Package) /\ cur \in Seq(Bytes) /\ Len(sent) \in Nat /\ Len(cur) \in Nat
  BY DEF TypeOK, Package
<1>3. CASE r.at[1] <= Len(sent)
  <2>1. r.at[1] <= Len(sent') /\ sent'[r.at[1]] = sent[r.at[1]]
    <3>1. sent' = sent \/ sent' = Append(sent, cur)
      BY DEF Grown
    <3> QED BY <1>1, <1>2, <1>3, <3>1
  <2> QED BY <1>3, <2>1 DEF Right, PackageAt
<1>4. CASE r.at[1] = Len(sent) + 1 /\ ~(sent' = sent /\ cur' = cur)
  <2>1. CASE sent' = sent /\ \E b \in Bytes : cur' = Append(cur, b)
    <3>1. Len(cur') = Len(cur) + 1 /\ \A k \in 1 .. Len(cur) : cur'[k] = cur[k]
      BY <1>2, <2>1
    <3>2. PackageAt(r.at[1], sent, cur) = cur /\ PackageAt(r.at[1], sent', cur') = cur'
      BY <1>2, <1>4, <2>1 DEF PackageAt
    <3>3. \A k \in 1 .. Len(cur) : k \in 1 .. Len(cur')
      BY <1>2, <3>1
    <3> QED BY <1>1, <1>2, <1>4, <2>1, <3>1, <3>2, <3>3 DEF Right
  <2>2. CASE sent' = Append(sent, cur) /\ cur' = <<>>
    <3>1. Len(sent') = Len(sent) + 1 /\ sent'[Len(sent) + 1] = cur
      BY <1>2, <2>2
    <3>2. PackageAt(r.at[1], sent, cur) = cur /\ PackageAt(r.at[1], sent', cur') = cur
      BY <1>2, <1>4, <3>1 DEF PackageAt
    <3> QED BY <1>2, <1>4, <3>1, <3>2 DEF Right
  <2> QED BY <1>4, <2>1, <2>2 DEF Grown
<1> QED BY <1>1, <1>2, <1>3, <1>4 DEF Grown

\* The stream grows by bytes that lead the parser from where the encoder was to
\* where it is, or that come after the trusted packages.
LEMMA SentStream ==
  ASSUME IInv, connected = TRUE, TypeOK', NEW bytes \in Seq(Flight), bytes # <<>>,
         Send(bytes), UNCHANGED <<buffer, stat, data, lists, delivered>>,
         Len(sent) <= Len(sent'),
         Grown,
         bytes[1].at = Position,
         \A i \in 1 .. Len(bytes) : bytes[i].at[1] = Len(sent) + 1,
         \A i \in 1 .. (Len(bytes) - 1) : bytes[i + 1].at = After(bytes[i]),
         \A n \in Nat : Trusted(n)' => Trusted(n),
         IF raw' = 0 THEN /\ After(bytes[Len(bytes)]) = Position'
                          /\ \A i \in 1 .. Len(bytes) : Right(bytes[i], sent', cur')
                     ELSE intact' <= Len(sent)
  PROVE  Stream'
<1> DEFINE old == Len(pending)
           new == Len(bytes)
<1>1. Stream /\ TypeOK /\ raw \in Nat /\ raw' \in Nat /\ intact \in Nat /\ intact' \in Nat
  BY DEF IInv, TypeOK
<1>2. pending \in Seq(Flight) /\ old \in Nat /\ new \in Nat \ {0} /\ Len(sent) \in Nat
      /\ Len(sent') \in Nat
  BY <1>1, PendingFacts DEF TypeOK
<1>3. pending' = pending \o bytes
  <2>1. buffer \in Seq(Flight) /\ wire \in Seq(Flight) /\ bytes \in Seq(Flight)
    BY <1>1 DEF TypeOK
  <2>2. buffer' = buffer /\ wire' = wire \o bytes
    BY DEF Send
  <2>3. buffer \o (wire \o bytes) = (buffer \o wire) \o bytes
    BY <2>1
  <2> QED BY <2>2, <2>3 DEF pending
<1>4. /\ Len(pending') = old + new /\ pending' # <<>>
      /\ \A i \in 1 .. old : pending'[i] = pending[i]
      /\ \A i \in 1 .. new : pending'[old + i] = bytes[i]
  BY <1>2, <1>3
<1>5. Here' = Here /\ Here[1] \in Nat
  BY <1>1, HereFacts DEF Here, collected
<1>6. \A i \in 1 .. new : After(bytes[i])[1] >= bytes[i].at[1] /\ After(bytes[i])[1] \in Nat
  BY <1>2, AfterFacts
<1>7. ASSUME NEW n \in Nat, n > Len(sent), Trusted(n)' PROVE raw' = 0 /\ raw = 0
  <2>1. raw' = 0
    BY <1>1, <1>2, <1>7 DEF Trusted
  <2>2. ASSUME raw # 0 PROVE FALSE
    <3>1. \A m \in Nat : Trusted(m)
      BY <2>1 DEF Trusted
    <3>2. intact + 1 \in Nat /\ ~(intact + 1 <= intact)
      BY <1>1
    <3> QED BY <2>2, <3>1, <3>2 DEF Trusted
  <2> QED BY <2>1, <2>2
<1> HIDE DEF old, new
<1>8. ASSUME NEW i \in 1 .. Len(pending')
      PROVE  (/\ pending[i].at[1] \in 1 .. (Len(sent) + 1)
              /\ Trusted(pending[i].at[1]) => Right(pending[i], sent, cur))'
  <2>1. CASE i \in 1 .. old
    <3>1. pending'[i] = pending[i] /\ pending[i] \in Flight /\ i \in 1 .. Len(pending)
      BY <1>2, <1>4, <2>1 DEF old
    <3>2. pending[i].at[1] \in 1 .. (Len(sent) + 1) /\ pending[i].at[1] \in Nat
          /\ (Trusted(pending[i].at[1]) => Right(pending[i], sent, cur))
      BY <1>1, <3>1, AfterFacts DEF Stream
    <3>3. Trusted(pending[i].at[1])' => Trusted(pending[i].at[1])
      BY <3>1, <3>2 DEF Trusted
    <3>4. Right(pending[i], sent, cur) => Right(pending[i], sent', cur')
      BY <1>1, <3>1, <3>2, RightExtends
    <3>5. pending[i].at[1] \in 1 .. (Len(sent') + 1)
      BY <1>2, <3>2
    <3> QED BY <3>1, <3>2, <3>3, <3>4, <3>5
  <2>2. CASE i \notin 1 .. old
    <3> DEFINE j == i - old
    <3>1. j \in 1 .. new /\ i = old + j
      BY <1>2, <1>4, <2>2
    <3>2. pending'[i] = bytes[j] /\ bytes[j].at[1] = Len(sent) + 1
      BY <1>4, <3>1 DEF new
    <3>3. Trusted(pending[i].at[1])' => raw' = 0
      BY <1>2, <1>7, <3>2 DEF Trusted
    <3>4. raw' = 0 => Right(bytes[j], sent', cur')
      BY <3>1 DEF new
    <3>5. Len(sent) + 1 \in 1 .. (Len(sent') + 1)
      BY <1>2
    <3> QED BY <3>2, <3>3, <3>4, <3>5
  <2> QED BY <2>1, <2>2
<1>9. ASSUME Trusted(Here[1])' PROVE pending'[1].at = Here'
  <2>1. Trusted(Here[1])
    BY <1>5, <1>9 DEF Trusted
  <2>2. CASE pending = <<>>
    <3>1. Here = Position
      BY <1>1, <2>1, <2>2 DEF Stream
    <3>2. pending'[1] = bytes[1]
      BY <1>2, <1>3, <2>2
    <3> QED BY <1>5, <3>1, <3>2
  <2>3. CASE pending # <<>>
    <3>1. pending'[1] = pending[1]
      BY <1>2, <1>4, <2>3 DEF old
    <3> QED BY <1>1, <1>5, <2>1, <2>3, <3>1 DEF Stream
  <2> QED BY <2>2, <2>3
<1>10. ASSUME NEW i \in 1 .. (Len(pending') - 1),
              Trusted(pending[i].at[1])', Trusted(After(pending[i])[1])'
       PROVE  (pending[i + 1].at = After(pending[i]))'
  <2>1. CASE i + 1 <= old
    <3>1. pending'[i] = pending[i] /\ pending'[i + 1] = pending[i + 1]
          /\ pending[i] \in Flight /\ i \in 1 .. (Len(pending) - 1)
      <4>1. i \in 1 .. old /\ i + 1 \in 1 .. old /\ i \in 1 .. (old - 1)
        BY <1>2, <1>4, <2>1
      <4> QED BY <1>2, <1>4, <4>1 DEF old
    <3>2. Trusted(pending[i].at[1]) /\ Trusted(After(pending[i])[1])
      BY <1>10, <3>1, AfterFacts DEF Trusted
    <3> QED BY <1>1, <3>1, <3>2 DEF Stream
  <2>2. CASE i = old
    <3>1. /\ pending'[i] = pending[i] /\ pending'[i + 1] = bytes[1]
          /\ pending[i] \in Flight /\ pending # <<>> /\ i = Len(pending)
      BY <1>2, <1>4, <2>2 DEF old
    <3>2. Trusted(pending[i].at[1]) /\ Trusted(After(pending[i])[1])
      BY <1>10, <3>1, AfterFacts DEF Trusted
    <3> QED BY <1>1, <3>1, <3>2 DEF Stream
  <2>3. CASE i > old
    <3> DEFINE j == i - old
    <3>1. j \in 1 .. (new - 1) /\ j \in 1 .. new /\ j + 1 \in 1 .. new
          /\ i = old + j /\ i + 1 = old + (j + 1)
      BY <1>2, <1>4, <2>3
    <3>2. pending'[i] = bytes[j] /\ pending'[i + 1] = bytes[j + 1]
      BY <1>4, <3>1
    <3> QED BY <3>1, <3>2 DEF new
  <2> QED BY <1>2, <2>1, <2>2, <2>3
<1>11. ASSUME Trusted(After(pending[Len(pending)])[1])'
       PROVE  raw' = 0 /\ (After(pending[Len(pending)]) = Position)'
  <2>1. pending'[Len(pending')] = bytes[Len(bytes)] /\ Len(bytes) \in 1 .. Len(bytes)
    BY <1>2, <1>4, SMTT(30) DEF new
  <2>2. /\ After(bytes[Len(bytes)])[1] \in Nat /\ After(bytes[Len(bytes)])[1] > Len(sent)
        /\ Trusted(After(bytes[Len(bytes)])[1])'
    BY <1>2, <1>6, <1>11, <2>1 DEF new, Trusted
  <2>3. raw' = 0
    BY <1>1, <1>2, <2>2 DEF Trusted
  <2> QED BY <2>1, <2>3
<1> QED BY <1>4, <1>8, <1>9, <1>10, <1>11 DEF Stream

\* So does what the parser has put together.
LEMMA SentDecoded ==
  ASSUME IInv, Grown, UNCHANGED <<connected, stat, data, lists, delivered>>,
         \A n \in Nat : Trusted(n)' => Trusted(n)
  PROVE  Decoded'
<1>1. TypeOK /\ Decoded
  BY DEF IInv
<1>2. /\ sent \in Seq(Package) /\ Len(sent) \in Nat /\ cur \in Seq(Bytes) /\ Len(cur) \in Nat
      /\ Len(collected) \in Nat /\ Len(data) \in Nat
  BY <1>1, PendingFacts DEF TypeOK, Package
<1>3. collected' = collected /\ Here' = Here /\ Here[1] = Len(collected) + 1
  BY DEF collected, Here
<1>4. ASSUME NEW n \in 1 .. Len(sent)
      PROVE  n <= Len(sent') /\ sent'[n] = sent[n]
  BY <1>2 DEF Grown
<1>5. ASSUME NEW n \in 1 .. (Len(sent) + 1)
      PROVE  LET e == PackageAt(n, sent, cur)
                 f == PackageAt(n, sent', cur')
             IN  Len(e) <= Len(f) /\ \A k \in 1 .. Len(e) : f[k] = e[k]
  <2>1. CASE n <= Len(sent)
    <3>1. PackageAt(n, sent, cur) = sent[n] /\ PackageAt(n, sent', cur') = sent[n]
      BY <1>4, <2>1 DEF PackageAt
    <3>2. Len(sent[n]) \in Nat
      BY <1>2, <2>1 DEF Package
    <3> QED BY <3>1, <3>2
  <2>2. CASE n = Len(sent) + 1
    <3>1. PackageAt(n, sent, cur) = cur
      BY <1>2, <2>2 DEF PackageAt
    <3>2. PackageAt(n, sent', cur') = cur \/ \E b \in Bytes : PackageAt(n, sent', cur') = Append(cur, b)
      <4>1. CASE sent' = sent
        BY <1>2, <2>2, <4>1 DEF PackageAt, Grown
      <4>2. CASE sent' # sent
        <5>1. sent' = Append(sent, cur)
          BY <4>2 DEF Grown
        <5> QED BY <1>2, <2>2, <5>1 DEF PackageAt
      <4> QED BY <4>1, <4>2
    <3> QED BY <1>2, <3>1, <3>2
  <2> QED BY <1>2, <2>1, <2>2
<1>6. ASSUME NEW n \in 1 .. Len(collected), Trusted(n)'
      PROVE  n <= Len(sent') /\ collected[n] = sent'[n]
  <2>1. n <= Len(sent) /\ collected[n] = sent[n]
    BY <1>1, <1>6 DEF Decoded
  <2> QED BY <1>4, <2>1
<1>7. ASSUME connected, Trusted(Here[1])'
      PROVE  LET f == PackageAt(Here[1], sent', cur')
             IN  Len(data) <= Len(f) /\ \A k \in 1 .. Len(data) : data[k] = f[k]
  <2>1. Trusted(Here'[1])
    BY <1>2, <1>3, <1>7 DEF Trusted
  <2>2. Trusted(Here[1])
    BY <1>3, <2>1
  <2>3. Here[1] \in 1 .. (Len(sent) + 1)
    <3>1. CASE Len(collected) = 0
      BY <1>2, <1>3, <3>1
    <3>2. CASE Len(collected) # 0
      <4>1. Trusted(Len(collected))
        BY <1>1, <1>2, <1>3, <2>2, TrustedFacts
      <4>2. Len(collected) <= Len(sent)
        BY <1>1, <1>2, <3>2, <4>1 DEF Decoded
      <4> QED BY <1>2, <1>3, <4>2
    <3> QED BY <3>1, <3>2
  <2> DEFINE e == PackageAt(Here[1], sent, cur)
             f == PackageAt(Here[1], sent', cur')
  <2>4. Len(data) <= Len(e) /\ \A k \in 1 .. Len(data) : data[k] = e[k]
    BY <1>1, <1>7, <2>2 DEF Decoded
  <2>5. Len(e) <= Len(f) /\ \A k \in 1 .. Len(e) : f[k] = e[k]
    BY <1>5, <2>3
  <2>6. Len(e) \in Nat /\ Len(f) \in Nat
    <3>1. e \in Seq(Bytes)
      BY <1>2, <2>3 DEF PackageAt, Package
    <3>2. f \in Seq(Bytes)
      <4>1. CASE sent' = sent /\ (cur' = cur \/ \E b \in Bytes : cur' = Append(cur, b))
        <5>1. cur' \in Seq(Bytes)
          BY <1>2, <4>1
        <5> QED BY <1>2, <2>3, <4>1, <5>1 DEF PackageAt, Package
      <4>2. CASE sent' = Append(sent, cur) /\ cur' = <<>>
        <5>1. Len(sent') = Len(sent) + 1 /\ sent' \in Seq(Package)
          BY <1>2, <4>2 DEF Package
        <5> QED BY <1>2, <2>3, <5>1 DEF PackageAt, Package
      <4> QED BY <4>1, <4>2 DEF Grown
    <3> QED BY <3>1, <3>2
  <2> HIDE DEF e, f
  <2> QED BY <1>2, <2>4, <2>5, <2>6 DEF f
<1> QED BY <1>3, <1>6, <1>7 DEF Decoded

\* Whatever bytes the terminal sends in a step, they keep the invariant if they
\* lead from where the encoder was to where it is.
LEMMA SendStep ==
  ASSUME IInv, TypeOK', AtRest', NEW bytes \in Seq(Flight), bytes # <<>>, Send(bytes), Grown,
         UNCHANGED <<connected, buffer, stat, data, lists, delivered>>,
         bytes[1].at = Position,
         \A i \in 1 .. Len(bytes) : bytes[i].at[1] = Len(sent) + 1,
         \A i \in 1 .. (Len(bytes) - 1) : bytes[i + 1].at = After(bytes[i]),
         \A n \in Nat : Trusted(n)' => Trusted(n),
         IF raw' = 0 THEN /\ After(bytes[Len(bytes)]) = Position'
                          /\ \A i \in 1 .. Len(bytes) : Right(bytes[i], sent', cur')
                     ELSE intact' <= Len(sent)
  PROVE  IInv'
<1>1. Len(sent) <= Len(sent')
  <2>1. Len(sent) \in Nat /\ sent \in Seq(Package)
    BY DEF IInv, TypeOK
  <2> QED BY <2>1 DEF Grown
<1>2. ASSUME connected' PROVE Stream'
  <2>1. connected = TRUE
    BY <1>2 DEF IInv, TypeOK
  <2> QED BY <1>1, <2>1, SentStream
<1>3. Decoded'
  BY SentDecoded
<1> QED BY <1>2, <1>3 DEF IInv

\* The numbers and places the terminal's steps are about.
LEMMA TerminalFacts ==
  ASSUME IInv
  PROVE  /\ Len(sent) \in Nat /\ Len(cur) \in Nat /\ raw \in Nat /\ intact \in Nat
         /\ sent \in Seq(Package) /\ cur \in Seq(Bytes) /\ wire \in Seq(Flight)
         /\ Position = <<Len(sent) + 1, Len(cur) + 1, IF encoding THEN "END" ELSE "START">>
         /\ Position \in Nat \X Nat \X {"START", "END", "CHANGE"}
         /\ InChange(Position) = <<Len(sent) + 1, Len(cur) + 1, "CHANGE">>
         /\ flagStart \in Bytes /\ flagEnd \in Bytes /\ flagChange \in Bytes
         /\ flagStart # flagEnd /\ flagStart # flagChange /\ flagEnd # flagChange
         /\ Flags = {flagStart, flagEnd, flagChange}
         /\ ~encoding => Len(cur) = 0
         /\ intact <= Len(sent)
<1>1. TypeOK /\ AtRest
  BY DEF IInv
<1>2. /\ Len(sent) \in Nat /\ Len(cur) \in Nat /\ raw \in Nat /\ intact \in Nat
      /\ sent \in Seq(Package) /\ cur \in Seq(Bytes) /\ wire \in Seq(Flight)
  BY <1>1 DEF TypeOK, Package
<1>3. /\ flagStart \in Bytes /\ flagEnd \in Bytes /\ flagChange \in Bytes
      /\ flagStart # flagEnd /\ flagStart # flagChange /\ flagEnd # flagChange
      /\ Flags = {flagStart, flagEnd, flagChange}
  BY PackageAssumption DEF Bytes, Flags
<1>4. (~encoding => Len(cur) = 0) /\ intact <= Len(sent)
  BY <1>1 DEF AtRest
<1> QED BY <1>2, <1>3, <1>4 DEF Position, InChange

\* Bytes go onto the wire as bytes.
LEMMA WireFacts ==
  ASSUME IInv, NEW bytes \in Seq(Flight), Send(bytes)
  PROVE  wire' \in Seq(Flight)
BY TerminalFacts DEF Send

\* The first byte of a package is where the encoder says it is.
LEMMA EncodeStartStep == IInv /\ EncodeStart => IInv'
<1> SUFFICES ASSUME IInv, EncodeStart PROVE IInv'
  OBVIOUS
<1> DEFINE r == [b |-> flagStart, at |-> Position]
           bytes == <<r>>
<1>1. /\ Send(bytes) /\ encoding' = TRUE /\ ~encoding
      /\ UNCHANGED <<sent, cur, mayRaw, raw, intact, hungUp, connected, buffer, putting, stat,
                     data, lists, delivered>>
  BY DEF EncodeStart, monitor
<1>2. r \in Flight /\ bytes \in Seq(Flight)
  BY TerminalFacts DEF Flight
<1>3. TypeOK' /\ AtRest'
  <2>1. wire' \in Seq(Flight)
    BY <1>1, <1>2, WireFacts
  <2>2. TypeOK'
    BY <1>1, <2>1 DEF IInv, TypeOK
  <2>3. AtRest'
    BY <1>1 DEF IInv, AtRest, WellFormed, EncodeStart
  <2> QED BY <2>2, <2>3
<1>4. /\ r.at[1] = Len(sent) + 1 /\ Right(r, sent, cur) /\ After(r) = Position'
  BY <1>1, TerminalFacts DEF Right, After, Position
<1>5. \A n \in Nat : Trusted(n)' => Trusted(n)
  BY <1>1 DEF Trusted
<1>6. /\ bytes # <<>> /\ Len(bytes) = 1 /\ bytes[1] = r /\ r.at = Position
      /\ intact <= Len(sent)
  BY TerminalFacts
<1> HIDE DEF r, bytes
<1> QED BY <1>1, <1>2, <1>3, <1>4, <1>5, <1>6, SendStep DEF Grown

\* The last byte completes the package.
LEMMA EncodeEndStep == IInv /\ EncodeEnd => IInv'
<1> SUFFICES ASSUME IInv, EncodeEnd PROVE IInv'
  OBVIOUS
<1> DEFINE r == [b |-> flagEnd, at |-> Position]
           bytes == <<r>>
<1>1. /\ Send(bytes) /\ encoding' = FALSE /\ encoding /\ sent' = Append(sent, cur) /\ cur' = <<>>
      /\ UNCHANGED <<mayRaw, raw, intact, hungUp, connected, buffer, putting, stat, data, lists,
                     delivered>>
      /\ ~hungUp
  BY DEF EncodeEnd, monitor
<1>2. r \in Flight /\ bytes \in Seq(Flight)
  BY TerminalFacts DEF Flight
<1>3. /\ Len(sent') = Len(sent) + 1 /\ sent'[Len(sent) + 1] = cur /\ Len(cur') = 0
      /\ sent' \in Seq(Package) /\ cur' \in Package
  BY <1>1, TerminalFacts DEF Package
<1>4. TypeOK' /\ AtRest'
  <2>1. wire' \in Seq(Flight)
    BY <1>1, <1>2, WireFacts
  <2>2. TypeOK'
    BY <1>1, <1>3, <2>1 DEF IInv, TypeOK
  <2>3. intact <= Len(sent')
    BY <1>3, TerminalFacts
  <2>4. AtRest'
    BY <1>1, <2>3 DEF IInv, AtRest, WellFormed
  <2> QED BY <2>2, <2>4
<1>5. /\ r.at[1] = Len(sent) + 1 /\ Right(r, sent', cur') /\ After(r) = Position'
  <2>1. r.at = <<Len(sent) + 1, Len(cur) + 1, "END">> /\ r.b = flagEnd
    BY <1>1, TerminalFacts
  <2>2. PackageAt(Len(sent) + 1, sent', cur') = cur
    BY <1>3, TerminalFacts DEF PackageAt
  <2>3. Right(r, sent', cur')
    BY <1>3, <2>1, <2>2, TerminalFacts DEF Right
  <2> QED BY <1>1, <1>3, <2>1, <2>3, TerminalFacts DEF After, Position
<1>6. \A n \in Nat : Trusted(n)' => Trusted(n)
  BY <1>1 DEF Trusted
<1>7. /\ bytes # <<>> /\ Len(bytes) = 1 /\ bytes[1] = r /\ r.at = Position
      /\ intact <= Len(sent)
  BY TerminalFacts
<1> HIDE DEF r, bytes
<1> QED BY <1>1, <1>2, <1>4, <1>5, <1>6, <1>7, SendStep DEF Grown

\* A payload byte, with or without a flagChange in front, belongs to the package
\* being encoded.
LEMMA EncodeByteStep == ASSUME IInv, NEW b \in Bytes, EncodeByte(b) PROVE IInv'
<1> DEFINE e == [b |-> flagChange, at |-> Position]
           f == [b |-> b, at |-> InChange(Position)]
           r == [b |-> b, at |-> Position]
           bytes == IF b \in Flags THEN <<e, f>> ELSE <<r>>
<1>1. /\ Send(bytes) /\ encoding /\ cur' = Append(cur, b) /\ ~hungUp
      /\ UNCHANGED <<sent, encoding, mayRaw, raw, intact, hungUp, connected, buffer, putting, stat,
                     data, lists, delivered>>
  BY DEF EncodeByte, monitor
<1>2. e \in Flight /\ f \in Flight /\ r \in Flight
  BY TerminalFacts DEF Flight
<1>3. bytes \in Seq(Flight) /\ bytes # <<>>
  BY <1>2
<1>4. Len(cur') = Len(cur) + 1 /\ cur'[Len(cur) + 1] = b /\ cur' \in Package
  BY <1>1, TerminalFacts DEF Package
<1>5. TypeOK' /\ AtRest'
  <2> HIDE DEF bytes
  <2>1. wire' \in Seq(Flight)
    BY <1>1, <1>3, WireFacts
  <2>2. TypeOK'
    BY <1>1, <1>4, <2>1 DEF IInv, TypeOK
  <2>3. AtRest'
    BY <1>1 DEF IInv, AtRest, WellFormed
  <2> QED BY <2>2, <2>3
<1>6. /\ Position = <<Len(sent) + 1, Len(cur) + 1, "END">>
      /\ Position' = <<Len(sent) + 1, Len(cur) + 2, "END">>
      /\ PackageAt(Len(sent) + 1, sent', cur') = cur'
  BY <1>1, <1>4, TerminalFacts DEF Position, PackageAt
<1>7. CASE b \in Flags
  <2>1. bytes = <<e, f>> /\ Len(bytes) = 2 /\ bytes[1] = e /\ bytes[2] = f
    BY <1>7
  <2>2. /\ e.at = Position /\ e.at[1] = Len(sent) + 1 /\ f.at[1] = Len(sent) + 1
        /\ After(e) = f.at /\ After(f) = Position'
    <3>1. e.at = Position /\ e.b = flagChange /\ f.at = InChange(Position)
      OBVIOUS
    <3>2. e.at[1] = Len(sent) + 1 /\ e.at[2] = Len(cur) + 1 /\ e.at[3] = "END"
      BY <1>6, <3>1
    <3>3. f.at = <<Len(sent) + 1, Len(cur) + 1, "CHANGE">>
      BY <3>1, TerminalFacts
    <3>4. f.at[1] = Len(sent) + 1 /\ f.at[2] = Len(cur) + 1 /\ f.at[3] = "CHANGE"
      BY <3>3
    <3> HIDE DEF e, f
    <3>5. After(e) = f.at
      BY <3>1, <3>2, <3>3 DEF After
    <3>6. After(f) = <<Len(sent) + 1, (Len(cur) + 1) + 1, "END">> /\ (Len(cur) + 1) + 1 = Len(cur) + 2
      BY <3>4, TerminalFacts DEF After
    <3> QED BY <1>6, <3>1, <3>2, <3>4, <3>5, <3>6
  <2>3. Right(e, sent', cur') /\ Right(f, sent', cur')
    BY <1>4, <1>6, <1>7, TerminalFacts DEF Right
  <2> HIDE DEF e, f, bytes
  <2>4. \A i \in 1 .. Len(bytes) : bytes[i].at[1] = Len(sent) + 1 /\ Right(bytes[i], sent', cur')
    BY <2>1, <2>2, <2>3
  <2>5. \A i \in 1 .. (Len(bytes) - 1) : bytes[i + 1].at = After(bytes[i])
    BY <2>1, <2>2
  <2>6. After(bytes[Len(bytes)]) = Position' /\ bytes[1].at = Position
    BY <2>1, <2>2
  <2>7. \A n \in Nat : Trusted(n)' => Trusted(n)
    BY <1>1 DEF Trusted
  <2> QED BY <1>1, <1>3, <1>5, <2>4, <2>5, <2>6, <2>7, SendStep, TerminalFacts DEF Grown
<1>8. CASE b \notin Flags
  <2>1. bytes = <<r>> /\ Len(bytes) = 1 /\ bytes[1] = r
    BY <1>8
  <2>2. /\ r.at = Position /\ r.at[1] = Len(sent) + 1 /\ After(r) = Position'
    BY <1>6, <1>8, TerminalFacts DEF After
  <2>3. Right(r, sent', cur')
    BY <1>4, <1>6, <1>8, TerminalFacts DEF Right
  <2>4. \A n \in Nat : Trusted(n)' => Trusted(n)
    BY <1>1 DEF Trusted
  <2> HIDE DEF r, bytes
  <2>5. \A i \in 1 .. Len(bytes) : bytes[i].at[1] = Len(sent) + 1 /\ Right(bytes[i], sent', cur')
    BY <2>1, <2>2, <2>3
  <2>6. \A i \in 1 .. (Len(bytes) - 1) : bytes[i + 1].at = After(bytes[i])
    BY <2>1
  <2>7. After(bytes[Len(bytes)]) = Position' /\ bytes[1].at = Position
    BY <2>1, <2>2
  <2> QED BY <1>1, <1>3, <1>5, <2>4, <2>5, <2>6, <2>7, SendStep, TerminalFacts DEF Grown
<1> QED BY <1>7, <1>8

\* A stray byte is behind all packages that will still be trusted.
LEMMA SendRawStep == ASSUME IInv, NEW b \in Bytes, SendRaw(b) PROVE IInv'
<1> DEFINE r == [b |-> b, at |-> Position]
           bytes == <<r>>
<1>1. /\ Send(bytes) /\ ~hungUp /\ raw < mayRaw /\ raw' = raw + 1
      /\ intact' = IF raw = 0 THEN Len(sent) ELSE intact
      /\ UNCHANGED <<sent, cur, encoding, mayRaw, hungUp, connected, buffer, putting, stat, data,
                     lists, delivered>>
  BY DEF SendRaw, monitor
<1>2. r \in Flight /\ bytes \in Seq(Flight)
  BY TerminalFacts DEF Flight
<1>3. TypeOK' /\ AtRest' /\ raw' # 0 /\ intact' <= Len(sent)
  <2>1. wire' \in Seq(Flight)
    BY <1>1, <1>2, WireFacts
  <2>2. raw' \in 0 .. mayRaw /\ raw' # 0 /\ intact' \in Nat /\ intact' <= Len(sent)
    BY <1>1, TerminalFacts DEF IInv, TypeOK
  <2>3. TypeOK'
    BY <1>1, <2>1, <2>2 DEF IInv, TypeOK
  <2>4. AtRest'
    BY <1>1, <2>2 DEF IInv, AtRest, WellFormed
  <2> QED BY <2>2, <2>3, <2>4
<1>4. \A n \in Nat : Trusted(n)' => Trusted(n)
  BY <1>1, <1>3 DEF Trusted
<1>5. bytes # <<>> /\ Len(bytes) = 1 /\ bytes[1] = r /\ r.at = Position /\ r.at[1] = Len(sent) + 1
  BY TerminalFacts
<1> HIDE DEF r, bytes
<1> QED BY <1>1, <1>2, <1>3, <1>4, <1>5, SendStep DEF Grown

\* Closing the socket leaves the stream as it is.
LEMMA HangUpStep == IInv /\ HangUp => IInv'
<1> SUFFICES ASSUME IInv, HangUp PROVE IInv'
  OBVIOUS
<1>1. UNCHANGED <<sent, cur, encoding, mayRaw, raw, intact, wire, connected, buffer, putting,
                  stat, data, lists, delivered>> /\ hungUp' = TRUE
  BY DEF HangUp, monitor
<1> QED BY <1>1 DEF IInv, TypeOK, AtRest, WellFormed, Stream, Decoded, Trusted, pending, collected,
                    Here, Position
-----------------------------------------------------------------------------
(* The epoll thread's steps.                                               *)

\* What put() knows of the byte in front of it, and what the byte is if no stray
\* byte has reached the parser.
LEMMA ByteFacts ==
  ASSUME IInv, putting, buffer # <<>>
  PROVE  /\ Head(buffer) \in Flight /\ NextByte \in Bytes /\ buffer \in Seq(Flight)
         /\ Tail(buffer) \in Seq(Flight)
         /\ connected = TRUE
         /\ Len(collected) \in Nat /\ collected \in Seq(Package)
         /\ Len(data) \in Nat /\ data \in Seq(Bytes)
         /\ Here[1] = Len(collected) + 1 /\ Here[1] \in Nat
         /\ Trusted(Here[1]) =>
              /\ Head(buffer).at[1] = Len(collected) + 1
              /\ Head(buffer).at[2] = Len(data) + 1
              /\ Head(buffer).at[3] = stat
              /\ Right(Head(buffer), sent, cur)
              /\ PackageAt(Here[1], sent, cur) = PackageAt(Len(collected) + 1, sent, cur)
<1>1. TypeOK /\ AtRest
  BY DEF IInv
<1>2. buffer \in Seq(Flight) /\ Head(buffer) \in Flight /\ Tail(buffer) \in Seq(Flight)
  BY <1>1 DEF TypeOK
<1>3. NextByte \in Bytes
  BY <1>2 DEF NextByte, Flight
<1>4. connected = TRUE
  BY <1>1 DEF TypeOK, AtRest
<1>5. /\ Len(collected) \in Nat /\ collected \in Seq(Package)
      /\ Len(data) \in Nat /\ data \in Seq(Bytes)
  BY <1>1, PendingFacts DEF TypeOK, Package
<1>6. Here[1] = Len(collected) + 1 /\ Here[1] \in Nat
  BY <1>1, HereFacts
<1>7. ASSUME Trusted(Here[1])
      PROVE  /\ Head(buffer).at = Here /\ Right(Head(buffer), sent, cur)
  BY <1>7, HeadIsRight
<1>8. Here[2] = Len(data) + 1 /\ Here[3] = stat
  BY <1>1, HereFacts
<1> QED BY <1>2, <1>3, <1>4, <1>5, <1>6, <1>7, <1>8

\* A package the parser is in, if it is a trusted one, is a sequence of bytes of
\* which data holds the beginning.
LEMMA DataFacts ==
  ASSUME IInv, connected, Trusted(Here[1])
  PROVE  LET e == PackageAt(Len(collected) + 1, sent, cur)
         IN  /\ Len(collected) <= Len(sent)
             /\ e \in Seq(Bytes) /\ Len(e) \in Nat
             /\ Len(data) <= Len(e) /\ \A k \in 1 .. Len(data) : data[k] = e[k]
<1>1. TypeOK /\ Decoded
  BY DEF IInv
<1>2. /\ sent \in Seq(Package) /\ Len(sent) \in Nat /\ cur \in Seq(Bytes)
      /\ Len(collected) \in Nat /\ Here[1] = Len(collected) + 1
  BY <1>1, HereFacts, PendingFacts DEF TypeOK, Package
<1>3. Len(collected) <= Len(sent)
  <2>1. CASE Len(collected) = 0
    BY <1>2, <2>1
  <2>2. CASE Len(collected) # 0
    <3>1. Trusted(Len(collected))
      BY <1>1, <1>2, TrustedFacts
    <3> QED BY <1>1, <1>2, <2>2, <3>1 DEF Decoded
  <2> QED BY <2>1, <2>2
<1> DEFINE e == PackageAt(Len(collected) + 1, sent, cur)
<1>4. e \in Seq(Bytes)
  BY <1>2, <1>3 DEF PackageAt, Package
<1>5. Len(data) <= Len(e) /\ \A k \in 1 .. Len(data) : data[k] = e[k]
  BY <1>1, <1>2 DEF Decoded
<1>6. Len(e) \in Nat
  BY <1>4
<1> QED BY <1>3, <1>4, <1>5, <1>6

\* The byte in front of a package.
LEMMA PutStartStep == IInv /\ PutStart => IInv'
<1> SUFFICES ASSUME IInv, PutStart PROVE IInv'
  OBVIOUS
<1>1. /\ putting /\ buffer # <<>> /\ stat = "START" /\ Consume /\ stat' = "END"
      /\ UNCHANGED terminal
      /\ UNCHANGED <<wire, connected, putting, data, lists, delivered>>
  BY DEF PutStart, Taking
<1>2. TypeOK' /\ AtRest'
  <2>1. TypeOK'
    BY <1>1, ByteFacts DEF IInv, TypeOK, Consume, terminal
  <2>2. AtRest'
    BY <1>1 DEF IInv, AtRest, terminal, WellFormed
  <2> QED BY <2>1, <2>2
<1>3. Here' = <<Len(collected) + 1, Len(data) + 1, "END">> /\ collected' = collected
  BY <1>1 DEF Here, collected
<1>4. Trusted(Here[1]) => Here' = After(Head(buffer))
  BY <1>1, <1>3, ByteFacts DEF After
<1>5. Here'[1] = Here[1]
  BY <1>1, <1>3, ByteFacts
<1>6. Stream'
  BY <1>1, <1>2, <1>4, <1>5, ByteFacts, TakenStream
<1>7. Decoded'
  BY <1>1, <1>3, <1>5 DEF IInv, Decoded, Trusted, terminal
<1> QED BY <1>2, <1>6, <1>7 DEF IInv

\* The byte in front of an escaped one.
LEMMA PutChangeStep == IInv /\ PutChange => IInv'
<1> SUFFICES ASSUME IInv, PutChange PROVE IInv'
  OBVIOUS
<1>1. /\ putting /\ buffer # <<>> /\ stat = "END" /\ Consume /\ stat' = "CHANGE"
      /\ Head(buffer).b = flagChange
      /\ UNCHANGED terminal
      /\ UNCHANGED <<wire, connected, putting, data, lists, delivered>>
  BY DEF PutChange, Taking, NextByte
<1>2. TypeOK' /\ AtRest'
  <2>1. TypeOK'
    BY <1>1, ByteFacts DEF IInv, TypeOK, Consume, terminal
  <2>2. AtRest'
    BY <1>1, ByteFacts DEF IInv, AtRest, terminal, WellFormed
  <2> QED BY <2>1, <2>2
<1>3. Here' = <<Len(collected) + 1, Len(data) + 1, "CHANGE">> /\ collected' = collected
  BY <1>1 DEF Here, collected
<1>4. Trusted(Here[1]) => Here' = After(Head(buffer))
  BY <1>1, <1>3, ByteFacts DEF After
<1>5. Here'[1] = Here[1]
  BY <1>1, <1>3, ByteFacts
<1>6. Stream'
  BY <1>1, <1>2, <1>4, <1>5, ByteFacts, TakenStream
<1>7. Decoded'
  BY <1>1, <1>3, <1>5 DEF IInv, Decoded, Trusted, terminal
<1> QED BY <1>2, <1>6, <1>7 DEF IInv

\* A payload byte: it is the next one of the package.
LEMMA PayloadStep ==
  ASSUME IInv, putting, buffer # <<>>, Consume, UNCHANGED terminal,
         UNCHANGED <<wire, connected, putting, lists, delivered>>,
         stat \in {"END", "CHANGE"}, stat' = "END", data' = Append(data, NextByte),
         stat = "END" => NextByte \notin {flagChange, flagEnd}
  PROVE  IInv'
<1> DEFINE e == PackageAt(Len(collected) + 1, sent, cur)
<1>1. /\ Len(data') = Len(data) + 1 /\ data' \in Package /\ data'[Len(data) + 1] = NextByte
      /\ \A k \in 1 .. Len(data) : data'[k] = data[k]
  BY ByteFacts DEF Package
<1>2. TypeOK' /\ AtRest'
  <2>1. TypeOK'
    BY <1>1, ByteFacts DEF IInv, TypeOK, Consume, terminal
  <2>2. AtRest'
    BY ByteFacts DEF IInv, AtRest, terminal, WellFormed
  <2> QED BY <2>1, <2>2
<1>3. Here' = <<Len(collected) + 1, (Len(data) + 1) + 1, "END">> /\ collected' = collected
  BY <1>1 DEF Here, collected
<1>4. Trusted(Here[1]) => Here' = After(Head(buffer))
  BY <1>3, ByteFacts DEF After, NextByte
<1>5. Here'[1] = Here[1]
  BY <1>3, ByteFacts
<1>6. Stream'
  BY <1>2, <1>4, <1>5, ByteFacts, TakenStream
<1>7. ASSUME Trusted(Here[1])
      PROVE  Len(data) + 1 <= Len(e) /\ NextByte = e[Len(data) + 1]
  <2>1. /\ Head(buffer).at[1] = Len(collected) + 1 /\ Head(buffer).at[2] = Len(data) + 1
        /\ Head(buffer).at[3] = stat /\ Right(Head(buffer), sent, cur)
    BY <1>7, ByteFacts
  <2>2. Len(e) \in Nat /\ Len(data) \in Nat
    BY <1>7, DataFacts, ByteFacts
  <2>3. CASE stat = "CHANGE"
    BY <2>1, <2>2, <2>3 DEF Right, NextByte
  <2>4. CASE stat = "END"
    <3>1. \/ Len(data) + 1 \in 1 .. Len(e)
             /\ NextByte = IF e[Len(data) + 1] \in Flags THEN flagChange ELSE e[Len(data) + 1]
          \/ NextByte = flagEnd
      BY <2>1, <2>4 DEF Right, NextByte
    <3> QED BY <2>2, <2>4, <3>1
  <2> QED BY <2>3, <2>4
<1>8. ASSUME Trusted(Here[1])
      PROVE  Len(data') <= Len(e) /\ \A k \in 1 .. Len(data') : data'[k] = e[k]
  <2>1. Len(data) \in Nat /\ \A k \in 1 .. Len(data) : data[k] = e[k]
    BY <1>8, DataFacts, ByteFacts
  <2> QED BY <1>1, <1>7, <1>8, <2>1
<1>9. Decoded'
  <2>1. PackageAt(Here[1], sent, cur)' = e
    BY <1>5, ByteFacts DEF terminal
  <2>2. Trusted(Here[1])' => Trusted(Here[1])
    BY <1>5 DEF Trusted, terminal
  <2>3. \A n \in 1 .. Len(collected) : Trusted(n)' => Trusted(n)
    BY DEF Trusted, terminal
  <2> HIDE DEF e
  <2> QED BY <1>3, <1>8, <2>1, <2>2, <2>3 DEF IInv, Decoded, terminal
<1> QED BY <1>2, <1>6, <1>9 DEF IInv

\* A payload byte as it is.
LEMMA PutPlainStep == IInv /\ PutPlain => IInv'
BY PayloadStep DEF PutPlain, Taking

\* A payload byte behind a flagChange.
LEMMA PutEscapedStep == IInv /\ PutEscaped => IInv'
BY PayloadStep DEF PutEscaped, Taking

\* The byte behind a package: what was collected is the package that was sent.
LEMMA PutEndStep == IInv /\ PutEnd => IInv'
<1> SUFFICES ASSUME IInv, PutEnd PROVE IInv'
  OBVIOUS
<1> DEFINE e == PackageAt(Len(collected) + 1, sent, cur)
<1>1. /\ putting /\ buffer # <<>> /\ stat = "END" /\ Consume /\ stat' = "START"
      /\ Head(buffer).b = flagEnd
      /\ lists' = Append(lists, data) /\ data' = <<>>
      /\ UNCHANGED terminal
      /\ UNCHANGED <<wire, connected, putting, delivered>>
  BY DEF PutEnd, Taking, NextByte
<1>2. TypeOK /\ lists \in Seq(Package) /\ delivered \in Seq(Package) /\ data \in Package
  BY DEF IInv, TypeOK
<1>3. TypeOK' /\ AtRest'
  <2>1. lists' \in Seq(Package) /\ data' \in Package
    BY <1>1, <1>2 DEF Package
  <2>2. TypeOK'
    BY <1>1, <2>1, ByteFacts DEF IInv, TypeOK, Consume, terminal
  <2>3. AtRest'
    BY <1>1, ByteFacts DEF IInv, AtRest, terminal, WellFormed
  <2> QED BY <2>2, <2>3
<1>4. collected' = Append(collected, data)
  BY <1>1, <1>2 DEF collected
<1>5. /\ Len(collected') = Len(collected) + 1 /\ collected'[Len(collected) + 1] = data
      /\ \A n \in 1 .. Len(collected) : collected'[n] = collected[n]
  BY <1>2, <1>4, ByteFacts
<1>6. Here' = <<(Len(collected) + 1) + 1, 1, "START">>
  BY <1>1, <1>5 DEF Here
<1>7. Trusted(Here[1]) => Here' = After(Head(buffer))
  BY <1>1, <1>6, ByteFacts, PackageAssumption DEF After
<1>8. Here'[1] >= Here[1] /\ Here'[1] = Here[1] + 1
  <2>1. Here'[1] = (Len(collected) + 1) + 1
    BY <1>6
  <2> QED BY <1>1, <2>1, ByteFacts
<1>9. Stream'
  BY <1>1, <1>3, <1>7, <1>8, ByteFacts, TakenStream
<1>10. ASSUME Trusted(Here[1])
       PROVE  Len(collected) + 1 <= Len(sent) /\ data = sent[Len(collected) + 1]
  <2>1. /\ Len(e) \in Nat /\ e \in Seq(Bytes) /\ Len(data) <= Len(e)
        /\ \A k \in 1 .. Len(data) : data[k] = e[k]
    BY <1>1, <1>10, DataFacts, ByteFacts
  <2>2. /\ Head(buffer).at[1] = Len(collected) + 1 /\ Head(buffer).at[2] = Len(data) + 1
        /\ Head(buffer).at[3] = "END" /\ Right(Head(buffer), sent, cur)
    BY <1>1, <1>10, ByteFacts
  <2>3. \/ /\ Len(data) + 1 \in 1 .. Len(e)
           /\ flagEnd = IF e[Len(data) + 1] \in Flags THEN flagChange ELSE e[Len(data) + 1]
        \/ Len(data) + 1 = Len(e) + 1 /\ Len(collected) + 1 <= Len(sent)
    BY <1>1, <2>2 DEF Right
  <2>4. Len(data) + 1 = Len(e) + 1 /\ Len(collected) + 1 <= Len(sent)
    BY <2>3, PackageAssumption DEF Flags
  <2>5. e = sent[Len(collected) + 1]
    BY <2>4 DEF PackageAt
  <2>6. data \in Seq(Bytes) /\ Len(data) = Len(e)
    BY <2>1, <2>4, <1>1, ByteFacts
  <2>7. data = e
    <3> HIDE DEF e
    <3> QED BY <2>1, <2>6, SeqEqual
  <2> QED BY <2>4, <2>5, <2>7
<1>11. ASSUME NEW n \in 1 .. Len(collected'), Trusted(n)'
       PROVE  n <= Len(sent) /\ collected'[n] = sent[n]
  <2>1. Trusted(n) /\ n \in Nat /\ n <= Len(collected) + 1
    BY <1>1, <1>5, <1>11, ByteFacts DEF Trusted, terminal
  <2>2. CASE n = Len(collected) + 1
    BY <1>1, <1>5, <1>10, <2>1, <2>2, ByteFacts
  <2>3. CASE n <= Len(collected)
    <3>1. n \in 1 .. Len(collected)
      BY <1>1, <1>11, <2>1, <2>3, ByteFacts
    <3> QED BY <1>5, <2>1, <3>1 DEF IInv, Decoded
  <2> QED BY <1>1, <2>1, <2>2, <2>3, ByteFacts
<1>12. Decoded'
  <2>1. Len(data') = 0
    BY <1>1
  <2>2. ASSUME Trusted(Here[1])' PROVE Len(PackageAt(Here[1], sent, cur))' \in Nat
    <3>1. Trusted(Here[1]) /\ Trusted(Len(collected) + 1)
      BY <1>1, <1>2, <1>8, <2>2, ByteFacts, TrustedFacts DEF Trusted, terminal
    <3>2. Here'[1] = (Len(collected) + 1) + 1 /\ Len(collected) + 1 <= Len(sent)
      BY <1>6, <1>10, <3>1
    <3>3. sent \in Seq(Package) /\ cur \in Package
      BY <1>2 DEF TypeOK
    <3>4. PackageAt((Len(collected) + 1) + 1, sent, cur) \in Package
      BY <1>1, <3>2, <3>3, ByteFacts DEF PackageAt
    <3> QED BY <1>1, <3>2, <3>4 DEF Package, terminal
  <2> QED BY <1>1, <1>11, <2>1, <2>2 DEF Decoded, terminal
<1> QED BY <1>3, <1>9, <1>12 DEF IInv

\* put() finds an error only in a stream that was not encoded all through.
LEMMA PutFailsStep == IInv /\ PutFails => IInv'
<1> SUFFICES ASSUME IInv, PutFails PROVE IInv'
  OBVIOUS
<1>1. /\ putting /\ buffer # <<>> /\ connected' = FALSE /\ putting' = FALSE
      /\ buffer' = <<>> /\ lists' = <<>> /\ stat' = "START" /\ data' = <<>>
      /\ UNCHANGED terminal
      /\ UNCHANGED <<wire, delivered>>
      /\ \/ stat = "START" /\ Head(buffer).b # flagStart
         \/ stat = "CHANGE" /\ Head(buffer).b \notin Flags
  BY DEF PutFails, Taking, NextByte
<1>2. TypeOK /\ lists \in Seq(Package) /\ delivered \in Seq(Package)
  BY DEF IInv, TypeOK
<1>3. ~Trusted(Here[1])
  <2> SUFFICES ASSUME Trusted(Here[1]) PROVE FALSE
    OBVIOUS
  <2>1. Head(buffer).at[3] = stat /\ Right(Head(buffer), sent, cur)
    BY <1>1, ByteFacts
  <2> QED BY <1>1, <2>1 DEF Right
<1>4. ~WellFormed
  <2>1. raw \in 0 .. mayRaw /\ mayRaw \in Nat /\ raw # 0
    BY <1>2, <1>3 DEF TypeOK, Trusted
  <2> QED BY <2>1 DEF WellFormed
<1>5. TypeOK'
  <2>1. /\ buffer' \in Seq(Flight) /\ lists' \in Seq(Package) /\ data' \in Package
        /\ stat' \in {"START", "END", "CHANGE"}
    BY <1>1 DEF Package
  <2> QED BY <1>1, <1>2, <2>1 DEF TypeOK, terminal
<1>6. AtRest'
  BY <1>1, <1>4 DEF IInv, AtRest, WellFormed, terminal
<1>7. Decoded'
  <2>1. collected' = delivered
    BY <1>1, <1>2 DEF collected
  <2>2. ASSUME NEW n \in 1 .. Len(delivered), Trusted(n)'
        PROVE  n <= Len(sent) /\ delivered[n] = sent[n]
    <3>1. n \in 1 .. Len(collected) /\ collected[n] = delivered[n]
      BY <1>2, PendingFacts
    <3> QED BY <1>1, <2>2, <3>1 DEF IInv, Decoded, Trusted, terminal
  <2> QED BY <1>1, <2>1, <2>2 DEF Decoded, terminal
<1> QED BY <1>1, <1>5, <1>6, <1>7 DEF IInv

\* A step that moves bytes or packages from one hand to the next.
LEMMA SamePlaceStep ==
  ASSUME IInv, TypeOK', AtRest', UNCHANGED <<terminal, connected, stat, data>>,
         pending' = pending, collected' = collected
  PROVE  IInv'
BY DEF IInv, Stream, Decoded, Trusted, Here, Position, terminal

\* What was collected is passed on.
LEMMA PutReturnsStep == IInv /\ PutReturns => IInv'
<1> SUFFICES ASSUME IInv, PutReturns PROVE IInv'
  OBVIOUS
<1>1. /\ putting /\ buffer = <<>> /\ delivered' = delivered \o lists /\ lists' = <<>>
      /\ putting' = FALSE /\ UNCHANGED terminal
      /\ UNCHANGED <<wire, connected, buffer, stat, data>>
  BY DEF PutReturns
<1>2. TypeOK /\ lists \in Seq(Package) /\ delivered \in Seq(Package)
  BY DEF IInv, TypeOK
<1>3. TypeOK'
  <2>1. lists' \in Seq(Package) /\ delivered' \in Seq(Package)
    BY <1>1, <1>2
  <2> QED BY <1>1, <1>2, <2>1 DEF TypeOK, terminal
<1>4. connected
  BY <1>1 DEF IInv, AtRest
<1>5. AtRest'
  BY <1>1, <1>4 DEF IInv, AtRest, WellFormed, terminal
<1>6. collected' = collected
  BY <1>1, <1>2 DEF collected
<1>7. pending' = pending
  BY <1>1 DEF pending
<1> QED BY <1>1, <1>3, <1>5, <1>6, <1>7, SamePlaceStep

\* However recv() cuts the stream, the bytes in flight are the same.
LEMMA RecvStep == IInv /\ Recv => IInv'
<1> SUFFICES ASSUME IInv, Recv PROVE IInv'
  OBVIOUS
<1>1. /\ connected /\ ~putting /\ putting' = TRUE
      /\ UNCHANGED terminal
      /\ UNCHANGED <<connected, stat, data, lists, delivered>>
  BY DEF Recv, monitor
<1>2. PICK n \in 1 .. Len(wire) :
        buffer' = SubSeq(wire, 1, n) /\ wire' = SubSeq(wire, n + 1, Len(wire))
  BY DEF Recv
<1>3. TypeOK /\ wire \in Seq(Flight) /\ Len(wire) \in Nat /\ buffer = <<>>
  BY <1>1 DEF IInv, TypeOK, AtRest
<1>4. /\ buffer' \in Seq(Flight) /\ Len(buffer') = n
      /\ \A i \in 1 .. n : buffer'[i] = wire[i]
  BY <1>2, <1>3
<1>5. /\ wire' \in Seq(Flight) /\ Len(wire') = Len(wire) - n
      /\ \A i \in 1 .. (Len(wire) - n) : wire'[i] = wire[n + i]
  BY <1>2, <1>3
<1>6. TypeOK'
  BY <1>1, <1>3, <1>4, <1>5 DEF TypeOK, terminal
<1>7. AtRest'
  BY <1>1 DEF IInv, AtRest, WellFormed, terminal
<1>8. pending' = pending
  <2>1. pending = wire
    BY <1>3 DEF pending
  <2>2. pending' \in Seq(Flight) /\ Len(pending') = Len(wire)
    <3>1. n \in Nat /\ n + (Len(wire) - n) = Len(wire)
      BY <1>2, <1>3
    <3>2. pending' = buffer' \o wire'
      BY DEF pending
    <3> QED BY <1>4, <1>5, <3>1, <3>2, ConcatProperties
  <2>3. ASSUME NEW i \in 1 .. Len(wire) PROVE pending'[i] = wire[i]
    <3>1. CASE i <= n
      BY <1>2, <1>3, <1>4, <1>5, <3>1 DEF pending
    <3>2. CASE i > n
      <4>1. i - n \in 1 .. (Len(wire) - n) /\ i = n + (i - n)
        BY <1>2, <1>3, <3>2
      <4>2. pending'[i] = wire'[i - n]
        BY <1>2, <1>3, <1>4, <1>5, <3>2, <4>1 DEF pending
      <4> QED BY <1>5, <4>1, <4>2
    <3> QED BY <1>2, <1>3, <3>1, <3>2
  <2> QED BY <1>3, <2>1, <2>2, <2>3, SeqEqual
<1>9. collected' = collected
  BY <1>1 DEF collected
<1> QED BY <1>1, <1>6, <1>7, <1>8, <1>9, SamePlaceStep

\* The end of an encoded stream comes when all that was sent has been passed on.
LEMMA RecvEofStep == IInv /\ RecvEof => IInv'
<1> SUFFICES ASSUME IInv, RecvEof PROVE IInv'
  OBVIOUS
<1>1. /\ connected /\ ~putting /\ hungUp /\ wire = <<>> /\ connected' = FALSE
      /\ stat' = "START" /\ data' = <<>> /\ UNCHANGED terminal
      /\ UNCHANGED <<wire, buffer, putting, lists, delivered>>
  BY DEF RecvEof
<1>2. /\ TypeOK /\ sent \in Seq(Package) /\ delivered \in Seq(Package)
      /\ buffer = <<>> /\ lists = <<>> /\ Len(sent) \in Nat /\ Len(delivered) \in Nat
  BY <1>1 DEF IInv, TypeOK, AtRest
<1>3. pending = <<>> /\ collected = delivered /\ collected' = collected
  BY <1>1, <1>2 DEF pending, collected
<1>4. ASSUME WellFormed PROVE delivered = sent
  <2>1. raw = 0
    BY <1>2, <1>4 DEF TypeOK, WellFormed
  <2>2. \A n \in 1 .. Len(delivered) : delivered[n] = sent[n]
    BY <1>3, <2>1 DEF IInv, Decoded, Trusted
  <2>3. Here = Position
    BY <1>1, <1>3, <2>1 DEF IInv, Stream, Trusted
  <2>4. Len(delivered) + 1 = Len(sent) + 1
    BY <1>3, <2>3 DEF Here, Position
  <2> QED BY <1>2, <2>2, <2>4, SeqEqual
<1>5. TypeOK'
  <2>1. data' \in Package /\ stat' \in {"START", "END", "CHANGE"}
    BY <1>1 DEF Package
  <2> QED BY <1>1, <1>2, <2>1 DEF TypeOK, terminal
<1>6. AtRest'
  BY <1>1, <1>2, <1>4 DEF IInv, AtRest, WellFormed, terminal
<1>7. Decoded'
  BY <1>1, <1>3 DEF IInv, Decoded, Trusted, terminal
<1> QED BY <1>1, <1>5, <1>6, <1>7 DEF IInv

-----------------------------------------------------------------------------
(* The invariant, and what follows from it.                                *)

\* Everything is empty, and the parser is where the encoder is.
LEMMA InitInvariant == Init => IInv
<1> SUFFICES ASSUME Init PROVE IInv
  OBVIOUS
<1>1. /\ sent = <<>> /\ cur = <<>> /\ wire = <<>> /\ buffer = <<>> /\ data = <<>>
      /\ lists = <<>> /\ delivered = <<>>
      /\ encoding = FALSE /\ hungUp = FALSE /\ connected = TRUE /\ putting = FALSE
      /\ mayRaw \in 0 .. MaxRaw /\ raw = 0 /\ intact = 0 /\ stat = "START"
  BY DEF Init
<1>2. TypeOK
  <2>1. /\ sent \in Seq(Package) /\ lists \in Seq(Package) /\ delivered \in Seq(Package)
        /\ cur \in Package /\ data \in Package
        /\ wire \in Seq(Flight) /\ buffer \in Seq(Flight)
    BY <1>1 DEF Package
  <2>2. mayRaw \in Nat /\ raw \in 0 .. mayRaw /\ intact \in Nat
    BY <1>1, PackageAssumption
  <2> QED BY <1>1, <2>1, <2>2 DEF TypeOK
<1>3. AtRest
  BY <1>1 DEF AtRest
<1>4. pending = <<>> /\ collected = <<>>
  BY <1>1 DEF pending, collected
<1>5. Here = <<1, 1, "START">> /\ Position = <<1, 1, "START">>
  BY <1>1, <1>4 DEF Here, Position
<1>6. Stream
  BY <1>1, <1>4, <1>5 DEF Stream
<1>7. Decoded
  <2>1. PackageAt(Here[1], sent, cur) = <<>>
    BY <1>1, <1>5 DEF PackageAt
  <2> QED BY <1>1, <1>4, <2>1 DEF Decoded
<1> QED BY <1>2, <1>3, <1>6, <1>7 DEF IInv

\* Every step of the terminal and of the epoll thread keeps the invariant.
LEMMA Invariance == Spec => []IInv
<1>1. IInv /\ [Next]_vars => IInv'
  <2> SUFFICES ASSUME IInv, [Next]_vars PROVE IInv'
    OBVIOUS
  <2>1. CASE Terminal
    BY <2>1, EncodeStartStep, EncodeEndStep, EncodeByteStep, SendRawStep, HangUpStep DEF Terminal
  <2>2. CASE Put
    BY <2>2, PutStartStep, PutChangeStep, PutEndStep, PutPlainStep, PutEscapedStep, PutFailsStep,
       PutReturnsStep DEF Put
  <2>3. CASE Recv \/ RecvEof
    BY <2>3, RecvStep, RecvEofStep
  <2>4. CASE UNCHANGED vars
    <3>1. UNCHANGED terminal /\ UNCHANGED monitor
          /\ UNCHANGED <<wire, connected, buffer, putting, delivered>>
      BY <2>4 DEF vars, terminal, monitor
    <3>2. pending' = pending /\ collected' = collected
      BY <3>1 DEF pending, collected, monitor
    <3>3. TypeOK' /\ AtRest'
      BY <3>1 DEF IInv, TypeOK, AtRest, WellFormed, terminal, monitor
    <3> QED BY <3>1, <3>2, <3>3, SamePlaceStep DEF monitor
  <2> QED BY <2>1, <2>2, <2>3, <2>4 DEF Next, EpollThread
<1> QED BY <1>1, InitInvariant, PTL DEF Spec

\* The variables keep their types.
THEOREM TypeCorrect == Spec => []TypeOK
<1>1. IInv => TypeOK
  BY DEF IInv
<1> QED BY <1>1, Invariance, PTL

\* Whatever the alphabet, the packages and the chunks: a stream that
\* encode_package made comes out of put() as the packages it was made from, and
\* put() never takes it for an error.
THEOREM StreamsDecodeExactly == Spec => []ExactlyWhatWasSent
<1>1. IInv => ExactlyWhatWasSent
  <2> SUFFICES ASSUME IInv, WellFormed
               PROVE  /\ Len(delivered) <= Len(sent)
                      /\ \A n \in 1 .. Len(delivered) : delivered[n] = sent[n]
                      /\ ~connected => hungUp /\ wire = <<>>
    BY DEF ExactlyWhatWasSent
  <2>1. /\ TypeOK /\ Len(delivered) \in Nat /\ Len(sent) \in Nat /\ Len(lists) \in Nat
    BY DEF IInv, TypeOK
  <2>2. raw = 0
    BY <2>1 DEF TypeOK, WellFormed
  <2>3. ASSUME NEW n \in 1 .. Len(delivered) PROVE n <= Len(sent) /\ delivered[n] = sent[n]
    <3>1. n \in 1 .. Len(collected) /\ collected[n] = delivered[n]
      BY <2>1, PendingFacts, SMTT(30)
    <3> QED BY <2>2, <3>1 DEF IInv, Decoded, Trusted
  <2>4. Len(delivered) <= Len(sent)
    BY <2>1, <2>3
  <2> QED BY <2>3, <2>4 DEF IInv, AtRest
<1> QED BY <1>1, Invariance, PTL

\* A connection that ends leaves nothing behind for the next one, and an encoded
\* stream ends only when all of it has been passed on.
THEOREM ConnectionsEndClean == Spec => []EndsClean
<1>1. IInv => EndsClean
  BY DEF IInv, AtRest, EndsClean
<1> QED BY <1>1, Invariance, PTL

\* Stray bytes, whatever they are, cannot reach back: the packages sent before the
\* first of them come out unharmed.
THEOREM StrayBytesReachForward == Spec => []EarlierPackagesIntact
<1>1. IInv => EarlierPackagesIntact
  <2> SUFFICES ASSUME IInv, NEW n \in 1 .. Len(delivered),
                      n <= (IF WellFormed THEN Len(sent) ELSE intact)
               PROVE  delivered[n] = sent[n]
    BY DEF EarlierPackagesIntact
  <2>1. /\ TypeOK /\ Len(delivered) \in Nat /\ Len(lists) \in Nat
    BY DEF IInv, TypeOK
  <2>2. Trusted(n)
    BY <2>1 DEF TypeOK, WellFormed, Trusted
  <2>3. n \in 1 .. Len(collected) /\ collected[n] = delivered[n]
    BY <2>1, PendingFacts
  <2> QED BY <2>2, <2>3 DEF IInv, Decoded
<1> QED BY <1>1, Invariance, PTL

-----------------------------------------------------------------------------
(* The refinement.                                                         *)

\* The encoder stays inside the bound on packages.
LEMMA LengthBound == Spec => [](Len(cur) <= MaxLength)
<1> DEFINE Short == Len(cur) <= MaxLength
<1>1. Init => Short
  BY PackageAssumption DEF Init
<1>2. IInv /\ Short /\ [Next]_vars => Short'
  <2> SUFFICES ASSUME IInv, Short, Next PROVE Short'
    BY DEF vars
  <2>1. cur \in Seq(Bytes) /\ Len(cur) \in Nat /\ MaxLength \in Nat
    BY PackageAssumption, TerminalFacts
  <2>2. ASSUME NEW b \in Bytes, EncodeByte(b) PROVE Short'
    <3>1. cur' = Append(cur, b) /\ Len(cur) < MaxLength
      BY <2>2 DEF EncodeByte
    <3>2. Len(cur') = Len(cur) + 1
      BY <2>1, <3>1
    <3> QED BY <2>1, <3>1, <3>2
  <2>3. CASE EncodeEnd
    BY <2>1, <2>3 DEF EncodeEnd
  <2>4. ASSUME cur' = cur PROVE Short'
    BY <2>4
  <2> HIDE DEF Short
  <2>5. CASE Terminal
    BY <2>2, <2>3, <2>4, <2>5 DEF Terminal, EncodeStart, HangUp, SendRaw
  <2>6. CASE EpollThread
    BY <2>4, <2>6 DEF EpollThread, Put, Recv, RecvEof, PutStart, PutChange, PutEnd, PutPlain,
                      PutEscaped, PutFails, PutReturns, terminal
  <2> QED BY <2>5, <2>6 DEF Next
<1> QED BY <1>1, <1>2, Invariance, PTL DEF Spec

\* To whoever looks at packages only, a client that encodes and the epoll thread
\* are a channel: what comes out is what went in, in order, once each, several at
\* a time if a chunk held several.
THEOREM StreamRefinesChannel == Spec => Channel!SafeSpec
<1>1. Init => Channel!Init
  BY DEF Init, Channel!Init, IfEncoded
<1>2. IInv /\ IInv' /\ Len(cur) <= MaxLength /\ [Next]_vars
        => [Channel!Next]_<<IfEncoded(sent), IfEncoded(delivered)>>
  <2> SUFFICES ASSUME IInv, IInv', Len(cur) <= MaxLength, Next
               PROVE  [Channel!Next]_<<IfEncoded(sent), IfEncoded(delivered)>>
    BY DEF vars, IfEncoded, WellFormed
  <2>1. mayRaw' = mayRaw
    BY DEF Next, Terminal, EpollThread, Put, EncodeStart, EncodeByte, EncodeEnd, SendRaw, HangUp,
           Recv, RecvEof, PutStart, PutChange, PutEnd, PutPlain, PutEscaped, PutFails, PutReturns,
           terminal
  <2>2. CASE ~WellFormed
    BY <2>1, <2>2 DEF IfEncoded, WellFormed
  <2>3. CASE WellFormed
    <3>1. /\ IfEncoded(sent) = sent /\ IfEncoded(sent)' = sent'
          /\ IfEncoded(delivered) = delivered /\ IfEncoded(delivered)' = delivered'
      BY <2>1, <2>3 DEF IfEncoded, WellFormed
    <3>2. CASE EncodeEnd
      <4>1. sent' = Append(sent, cur) /\ delivered' = delivered
        BY <3>2 DEF EncodeEnd
      <4>2. cur \in Packages
        <5>1. cur \in Seq(Bytes) /\ Len(cur) \in Nat /\ MaxLength \in Nat
          BY PackageAssumption, TerminalFacts
        <5>2. cur \in [1 .. Len(cur) -> Bytes] /\ Len(cur) \in 0 .. MaxLength
          BY <5>1
        <5> QED BY <5>2 DEF Packages
      <4> QED BY <3>1, <4>1, <4>2 DEF Channel!Next, Channel!Put
    <3>3. CASE PutReturns /\ delivered' # delivered
      <4>1. sent' = sent /\ delivered' = delivered \o lists
        BY <3>3 DEF PutReturns, terminal
      <4>2. /\ sent \in Seq(Package) /\ Len(sent) \in Nat
            /\ delivered \in Seq(Package) /\ Len(delivered) \in Nat
            /\ lists \in Seq(Package) /\ Len(lists) \in Nat
        BY DEF IInv, TypeOK
      <4>3. lists # <<>> /\ Len(lists) > 0
        BY <3>3, <4>1, <4>2
      <4>4. Len(delivered') = Len(delivered) + Len(lists) /\ delivered' \in Seq(Package)
        BY <4>1, <4>2
      <4>5. ASSUME NEW n \in 1 .. Len(delivered') PROVE n <= Len(sent) /\ delivered'[n] = sent[n]
        <5>1. collected = delivered' /\ raw = 0
          BY <2>3, <4>1 DEF collected, IInv, TypeOK, WellFormed
        <5> QED BY <5>1, <4>5 DEF IInv, Decoded, Trusted
      <4> DEFINE k == Len(delivered')
      <4>6. k \in Len(delivered) + 1 .. Len(sent)
        BY <4>2, <4>3, <4>4, <4>5
      <4>7. /\ SubSeq(sent, 1, k) \in Seq(Package) /\ Len(SubSeq(sent, 1, k)) = k
            /\ \A n \in 1 .. k : SubSeq(sent, 1, k)[n] = sent[n]
        BY <4>2, <4>6
      <4>8. delivered' = SubSeq(sent, 1, k)
        BY <4>4, <4>5, <4>7, SeqEqual
      <4> QED BY <3>1, <4>1, <4>6, <4>8 DEF Channel!Next, Channel!Get
    <3>4. ASSUME sent' = sent, delivered' = delivered
          PROVE  [Channel!Next]_<<IfEncoded(sent), IfEncoded(delivered)>>
      BY <3>1, <3>4
    <3>5. CASE Terminal
      BY <3>2, <3>4, <3>5 DEF Terminal, EncodeStart, EncodeByte, SendRaw, HangUp
    <3>6. CASE EpollThread
      BY <3>3, <3>4, <3>6 DEF EpollThread, Put, Recv, RecvEof, PutStart, PutChange, PutEnd,
                              PutPlain, PutEscaped, PutFails, PutReturns, terminal
    <3> QED BY <3>5, <3>6 DEF Next
  <2> QED BY <2>2, <2>3
<1> QED BY <1>1, <1>2, Invariance, LengthBound, PTL DEF Spec, Channel!SafeSpec
=============================================================================
