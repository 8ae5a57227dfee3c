--------------------------- MODULE TerminalProofs ---------------------------
(***************************************************************************)
(* The programs of terminal/ and unit-test/ that read through a CSVHelper  *)
(* lose no record and tell them in order, for any directory, any length of *)
(* a buffer and any batch.                                                 *)
(***************************************************************************)
EXTENDS Terminal, FiniteSetTheorems, WellFoundedInduction, TLAPS

Record == Nat \X Nat
CsvFile == [opens : BOOLEAN, lines : Seq(STRING)]
Stream == [file : Nat, pos : Nat, good : BOOLEAN]

\* A full round of next_file: the header and a buffer of lines.
Block == MaxLines + 1

-----------------------------------------------------------------------------
(* The invariant.                                                          *)

\* The types of what the reader keeps, and of where the threads are.
ReaderTypes ==
  /\ csvFiles \in Seq(CsvFile)
  /\ fromTo \in Seq(Nat \X Nat)
  /\ \A i \in DOMAIN fromTo : fromTo[i][1] <= fromTo[i][2] /\ fromTo[i][2] <= Len(csvFiles)
  /\ indexOfFiles \in [DOMAIN fromTo -> Nat] /\ indexOfRecords \in [DOMAIN fromTo -> Nat]
  /\ recordsPerFile \in [DOMAIN fromTo -> Seq(Record)]
  /\ currentIfs \in [DOMAIN fromTo -> Stream]
  /\ given \in [DOMAIN fromTo -> Seq(Record)]
  /\ titles \in Nat
  /\ pc \in [Threads -> {"next", "record", "titles", "lines", "false", "written", "done"}]
  /\ thr \in [Threads -> Nat]

\* What is in the buffer of subset i and was not given out.
Buffered(i) == {recordsPerFile[i][n] : n \in (indexOfRecords[i] + 1) .. Len(recordsPerFile[i])}

\* The last line that subset i has left behind: line 0 of the next file if none is open.
Here(i) ==
  IF currentIfs[i].file = 0 THEN <<indexOfFiles[i] + 1, 0>>
  ELSE <<indexOfFiles[i], currentIfs[i].pos>>

Passed(i) == {r \in Promised(i) : ~Ahead(Here(i), r)}

\* Of subset i, all that was passed was given out or is in the buffer, in order.
SubsetRight(i) ==
  /\ indexOfFiles[i] \in fromTo[i][1] .. fromTo[i][2]
  /\ currentIfs[i].file # 0 =>
       /\ currentIfs[i].file = indexOfFiles[i]
       /\ Reached(i, indexOfFiles[i])
       /\ currentIfs[i].pos <= Len(LinesOf(indexOfFiles[i]))
  /\ ToSet(given[i]) \cup Buffered(i) = Passed(i)
  /\ InOrder(given[i]) /\ InOrder(recordsPerFile[i])
  /\ \A q \in ToSet(given[i]), r \in Buffered(i) : Ahead(q, r)

\* Between two calls of next_record a stream that is open is good, and a whole number of
\* blocks is behind it.
BetweenBlocks(i) == currentIfs[i].file # 0 => currentIfs[i].good /\ currentIfs[i].pos % Block = 0

\* In next_file it is behind a header, or at the end of the file.
BehindHeader(i) ==
  /\ currentIfs[i].file # 0 /\ Drained(i)
  /\ IF currentIfs[i].good THEN currentIfs[i].pos % Block = 1
     ELSE currentIfs[i].pos = Len(LinesOf(indexOfFiles[i]))

AtLines(t) == pc[t] \in {"titles", "lines"}

\* As split left it.
Fresh(i) ==
  /\ currentIfs[i] = Closed /\ indexOfFiles[i] = fromTo[i][1]
  /\ recordsPerFile[i] = <<>> /\ indexOfRecords[i] = 0 /\ given[i] = <<>>

\* The subset of the thread is read to its end.
AtEnd(t) == pc[t] \in {"false", "written", "done"}

Finished(i) == i \in DOMAIN fromTo /\ ToSet(given[i]) = Promised(i)

AllOpen(i) == \A f \in (fromTo[i][1] + 1) .. indexOfFiles[i] : csvFiles[f].opens

\* Where thread t is, in its share and in its subset.
ThreadRight(t) ==
  /\ pc[t] # "done" => started /\ thr[t] \in Shares[t][1] .. Shares[t][2]
  /\ pc[t] \notin {"next", "done"} => thr[t] \in DOMAIN fromTo
  /\ pc[t] = "record" => given[thr[t]] # <<>>
  /\ AtLines(t) => BehindHeader(thr[t])
  /\ pc[t] \in {"next", "record", "titles", "lines"} /\ thr[t] \in DOMAIN fromTo => AllOpen(thr[t])
  /\ pc[t] \in {"false", "written"} => Finished(thr[t])
  /\ pc[t] = "written" => program = "sort"

\* The subsets of its share that a thread is done with and those it has still to read.
ShareRight(t) ==
  /\ \A j \in DOMAIN fromTo : j \in Shares[t][1] .. Shares[t][2] /\ thr[t] < j => Fresh(j)
  /\ ~cut => \A j \in Shares[t][1] .. Shares[t][2] :
               j < thr[t] \/ (AtEnd(t) /\ j <= thr[t]) => Finished(j)
  /\ ~cut /\ pc[t] = "done" /\ Shares[t][1] <= Shares[t][2] => thr[t] = Shares[t][2]

\* The subsets and the rounds.
RoundRight ==
  /\ program \in Programs /\ round \in Nat \ {0}
  /\ started \in BOOLEAN /\ running \in BOOLEAN /\ cut \in BOOLEAN
  /\ ~started => \A t \in Threads : pc[t] = "done"
  /\ started => round <= Rounds /\ Pieces > 0
  /\ round = 1 /\ ~started => fromTo = <<>>
  /\ Pieces > Len(csvFiles) => fromTo = <<>>
  /\ Pieces \in 1 .. Len(csvFiles) /\ (started \/ round > 1) =>
       /\ Len(Ranges(Pieces)) <= Len(fromTo)
       /\ \A k \in Subsets : fromTo[k] = Ranges(Pieces)[k]

ReaderRight ==
  /\ ReaderTypes /\ RoundRight
  /\ \A i \in DOMAIN fromTo : /\ SubsetRight(i)
                              /\ (\A t \in Threads : ~(AtLines(t) /\ thr[t] = i)) => BetweenBlocks(i)
  /\ \A t \in Threads : ThreadRight(t) /\ (started => ShareRight(t))

\* Nothing can be opened in subset i.
Fruitless(i) ==
  /\ i \in DOMAIN fromTo
  /\ fromTo[i][1] = fromTo[i][2] \/ ~csvFiles[fromTo[i][1] + 1].opens

\* As long as there are no titles no file was opened, in the subsets behind a thread
\* because none can be; in multi_test those are all that its later rounds read.
TitlesRight ==
  /\ titles = 0 => \A t \in Threads : /\ pc[t] \notin {"record", "lines"}
                                      /\ pc[t] = "next" /\ thr[t] \in DOMAIN fromTo => Fresh(thr[t])
  /\ titles = 0 /\ started /\ ~cut =>
       \A t \in Threads : \A j \in Shares[t][1] .. Shares[t][2] :
         j < thr[t] \/ (AtEnd(t) /\ j <= thr[t]) => Fruitless(j)
  /\ titles = 0 /\ program = "multi_test" /\ round \in 2 .. 3
       => \A j \in 1 .. 6 * Batch : Fruitless(j)
  /\ TitlesSettled

\* The types of what the programs write, what writes which, and where.
OutputTypes ==
  /\ line \in [Threads -> Seq(Record)]
  /\ extracted \in [Threads -> Seq(Seq(Record))]
  /\ arranged \in [Vehicles -> Seq(Seq(Record))]
  /\ round = 1 /\ ~started => /\ \A t \in Threads : extracted[t] = <<>>
                              /\ \A v \in Vehicles : arranged[v] = <<>>
  /\ program # "sort" \/ (round = 1 /\ ~started) => \A no \in DOMAIN sorted : sorted[no] = <<>>
  /\ program = "extra" /\ (started \/ round > 1) => \A t \in Threads : thr[t] = t
  /\ program = "arrange" /\ (started \/ round > 1) => thr[1] = 1
  /\ \A t \in Threads : \A r \in ToSet(line[t]) : Text(r) \notin Dated

\* sort's thread has read subset i and will not come back to it.
ReadBySort(i) == i < thr[1] \/ (i = thr[1] /\ pc[1] \in {"written", "done"})

\* What sort writes is of a subset that it has read.
SortedRight ==
  \A no \in DOMAIN sorted : sorted[no] # <<>> =>
    LET ends == LastOfEach(Tail(sorted[no])) IN
    /\ Head(sorted[no]) = TitlesRow
    /\ Ascending(ends) /\ IsInjective(ends)
    /\ \E i \in DOMAIN given :
         /\ ReadBySort(i)
         /\ given[i] # <<>> /\ No[Text(Head(given[i]))] = no
         /\ ToSet(ends) = {r \in ToSet(given[i]) : Text(r) \in Whole}

OutputRight == OutputTypes /\ ExtractedInOrder /\ ArrangedInOrder /\ SortedRight

-----------------------------------------------------------------------------
(* Natural numbers, sequences and the order of the directory.              *)

\* Every set of natural numbers that is not empty has a least element.
LEMMA Least ==
  ASSUME NEW T, T \subseteq Nat, T # {}
  PROVE  \E x \in T : \A y \in T : x <= y
<1> DEFINE R == {ss \in Nat \X Nat : ss[1] < ss[2]}
<1>1. IsWellFoundedOn(R, Nat)
  BY NatLessThanWellFounded DEF OpToRel
<1> HIDE DEF R
<1>2. PICK x \in T : \A y \in T : ~ (<<y, x>> \in R)
  BY <1>1, WFMin, Zenon
<1>3. \A y \in T : x <= y
  <2> SUFFICES ASSUME NEW y \in T, y < x PROVE FALSE
    OBVIOUS
  <2>1. <<y, x>> \in R
    BY DEF R
  <2> QED BY <1>2, <2>1
<1> QED BY <1>3

\* Induction, for a set in place of a predicate.
LEMMA Induction ==
  ASSUME NEW P, 0 \in P, \A n \in Nat : n \in P => n + 1 \in P
  PROVE  Nat \subseteq P
<1> SUFFICES ASSUME Nat \ P # {} PROVE FALSE
  OBVIOUS
<1>1. PICK x \in Nat \ P : \A y \in Nat \ P : x <= y
  BY Least
<1>2. x # 0 /\ x - 1 \in Nat
  BY <1>1
<1>3. x - 1 \in P
  BY <1>1, <1>2
<1> QED BY <1>1, <1>2, <1>3

\* Where a line is in its block, when whole blocks are behind.
LEMMA BlockStep ==
  ASSUME NEW b \in Nat, b > 1, NEW p \in Nat, p % b = 0
  PROVE  /\ \A k \in 0 .. b - 1 : (p + k) % b = k
         /\ (p + b) % b = 0
<1>1. PICK d \in Nat : p = b * d
  OBVIOUS
<1>2. \A k \in 0 .. b - 1 : (p + k) % b = k
  BY <1>1
<1>3. (p + b) % b = 0
  BY <1>1
<1> QED BY <1>2, <1>3

\* The order of the directory is a strict and total order.
LEMMA Trans ==
  ASSUME NEW p \in Record, NEW q \in Record, NEW r \in Record
  PROVE  /\ Ahead(p, q) /\ Ahead(q, r) => Ahead(p, r)
         /\ ~Ahead(p, p)
         /\ Ahead(p, q) \/ Ahead(q, p) \/ p = q
BY DEF Ahead, Record

\* What is in a sequence that gets one element more.
LEMMA AppendSet ==
  ASSUME NEW S, NEW s \in Seq(S), NEW r \in S
  PROVE  ToSet(Append(s, r)) = ToSet(s) \cup {r}
<1> DEFINE all == Append(s, r)
<1>1. /\ DOMAIN all = 1 .. (Len(s) + 1) /\ DOMAIN s = 1 .. Len(s) /\ Len(s) \in Nat
      /\ \A n \in DOMAIN s : all[n] = s[n]
      /\ all[Len(s) + 1] = r
  OBVIOUS
<1> HIDE DEF all
<1> QED BY <1>1 DEF ToSet

-----------------------------------------------------------------------------
(* RecordsBetween: the loop of next_file over the lines of a file.         *)

\* The recursive function by which RecordsBetween is defined exists.
LEMMA UpTo ==
  ASSUME NEW f, NEW p \in Nat, NEW q \in Nat, p <= q
  PROVE  \E upTo :
           /\ RecordsBetween(f, p, q) = upTo[q]
           /\ upTo[p] = <<>>
           /\ \A l \in (p + 1) .. q :
                upTo[l] = IF LinesOf(f)[l] = "blank" THEN upTo[l - 1]
                          ELSE Append(upTo[l - 1], <<f, l>>)
<1> DEFINE Step(g, l) == IF l = p THEN <<>>
                         ELSE IF LinesOf(f)[l] = "blank" THEN g[l - 1] ELSE Append(g[l - 1], <<f, l>>)
           Solves(g, n) == g = [l \in p .. n |-> Step(g, l)]
           P == {n \in Nat : \E g : Solves(g, p + n)}
           upTo == CHOOSE g : Solves(g, q)
<1>1. RecordsBetween(f, p, q) = upTo[q]
  BY DEF RecordsBetween
<1>2. 0 \in P
  <2>1. Solves([l \in p .. p |-> <<>>], p + 0)
    OBVIOUS
  <2> QED BY <2>1
<1>3. \A n \in Nat : n \in P => n + 1 \in P
  <2> SUFFICES ASSUME NEW n \in Nat, NEW g, Solves(g, p + n) PROVE \E h : Solves(h, p + (n + 1))
    <3> HIDE DEF Solves
    <3> QED OBVIOUS
  <2> DEFINE h == [l \in p .. p + (n + 1) |-> Step(g, l)]
  <2>1. \A l \in p .. p + n : h[l] = g[l]
    <3> HIDE DEF Step
    <3> QED OBVIOUS
  <2>2. ASSUME NEW l \in p .. p + (n + 1) PROVE Step(h, l) = Step(g, l)
    <3>1. CASE l = p
      BY <3>1
    <3>2. CASE l # p
      <4>1. l - 1 \in p .. p + n
        BY <3>2
      <4> HIDE DEF h
      <4>2. h[l - 1] = g[l - 1]
        BY <4>1, <2>1
      <4> QED BY <4>2, Zenon
    <3> QED BY <3>1, <3>2
  <2> HIDE DEF Step
  <2>3. Solves(h, p + (n + 1))
    BY <2>2
  <2> QED BY <2>3
<1>4. Solves(upTo, q)
  <2> HIDE DEF P
  <2>1. q - p \in P
    BY <1>2, <1>3, Induction
  <2>2. p + (q - p) = q
    OBVIOUS
  <2> HIDE DEF Solves
  <2>3. \E g : Solves(g, q)
    BY <2>1, <2>2, Zenon DEF P
  <2> QED BY <2>3
<1> HIDE DEF upTo
<1>5. upTo[p] = <<>>
  BY <1>4
<1>6. ASSUME NEW l \in (p + 1) .. q
      PROVE  upTo[l] = IF LinesOf(f)[l] = "blank" THEN upTo[l - 1]
                          ELSE Append(upTo[l - 1], <<f, l>>)
  <2>1. l \in p .. q /\ l # p
    OBVIOUS
  <2> HIDE DEF Step
  <2>2. upTo[l] = Step(upTo, l)
    BY <1>4, <2>1
  <2> QED BY <2>1, <2>2, Zenon DEF Step
<1> QED BY <1>1, <1>5, <1>6, Zenon

\* The loop pushes the lines that are not empty, in their order.
LEMMA RecordsFacts ==
  ASSUME NEW f \in Nat, NEW p \in Nat, NEW q \in Nat, p <= q
  PROVE  /\ RecordsBetween(f, p, q) \in Seq(Record)
         /\ InOrder(RecordsBetween(f, p, q))
         /\ ToSet(RecordsBetween(f, p, q))
              = {<<f, l>> : l \in {l \in (p + 1) .. q : IsRecord(<<f, l>>)}}
<1> DEFINE Right(s, n) == /\ s \in Seq(Record)
                          /\ InOrder(s)
                          /\ ToSet(s) = {<<f, l>> : l \in {l \in (p + 1) .. n : IsRecord(<<f, l>>)}}
<1>1. PICK upTo :
        /\ RecordsBetween(f, p, q) = upTo[q]
        /\ upTo[p] = <<>>
        /\ \A l \in (p + 1) .. q :
             upTo[l] = IF LinesOf(f)[l] = "blank" THEN upTo[l - 1]
                       ELSE Append(upTo[l - 1], <<f, l>>)
  BY UpTo
<1> DEFINE Q == {n \in Nat : p + n <= q => Right(upTo[p + n], p + n)}
<1>2. 0 \in Q
  <2>1. <<>> \in Seq(Record) /\ InOrder(<<>>) /\ ToSet(<<>>) = {}
    BY DEF InOrder, ToSet
  <2>2. (p + 1) .. p = {} /\ p + 0 = p
    OBVIOUS
  <2>3. Right(<<>>, p)
    BY <2>1, <2>2
  <2> HIDE DEF Right
  <2> QED BY <1>1, <2>2, <2>3
<1>3. ASSUME NEW n \in Nat, p + (n + 1) <= q, Right(upTo[p + n], p + n)
      PROVE  Right(upTo[p + (n + 1)], p + (n + 1))
  <2> DEFINE l == p + (n + 1)
             s == upTo[p + n]
             r == <<f, l>>
  <2>1. upTo[l] = IF LinesOf(f)[l] = "blank" THEN s ELSE Append(s, r)
    <3>1. l \in (p + 1) .. q /\ l - 1 = p + n
      BY <1>3
    <3> QED BY <1>1, <3>1
  <2>2. IsRecord(r) <=> LinesOf(f)[l] # "blank"
    BY DEF IsRecord
  <2>3. (p + 1) .. l = ((p + 1) .. (p + n)) \cup {l} /\ l \in Nat /\ l > p + n
    OBVIOUS
  <2> HIDE DEF l
  <2>4. ASSUME IsRecord(r)
        PROVE  {<<f, k>> : k \in {k \in (p + 1) .. l : IsRecord(<<f, k>>)}}
                 = {<<f, k>> : k \in {k \in (p + 1) .. p + n : IsRecord(<<f, k>>)}} \cup {r}
    BY <2>3, <2>4
  <2>5. ASSUME ~IsRecord(r)
        PROVE  {k \in (p + 1) .. l : IsRecord(<<f, k>>)}
                 = {k \in (p + 1) .. p + n : IsRecord(<<f, k>>)}
    BY <2>3, <2>5
  <2>6. r \in Record /\ s \in Seq(Record) /\ InOrder(s)
    BY <1>3, <2>3 DEF Record
  <2>7. ASSUME NEW m \in DOMAIN s PROVE s[m][1] = f /\ s[m][2] < l
    <3>1. s[m] \in ToSet(s)
      BY DEF ToSet
    <3>2. PICK k \in (p + 1) .. (p + n) : s[m] = <<f, k>>
      BY <3>1, <1>3
    <3> QED BY <3>2, <2>3
  <2>8. InOrder(Append(s, r))
    <3>1. \A m \in DOMAIN s : Ahead(s[m], r)
      BY <2>7, <2>3 DEF Ahead
    <3> HIDE DEF r, s
    <3> QED BY <2>6, <3>1 DEF InOrder
  <2>9. ToSet(Append(s, r)) = ToSet(s) \cup {r}
    <3> HIDE DEF r, s
    <3> QED BY <2>6, AppendSet
  <2>10. CASE LinesOf(f)[l] = "blank"
    <3>1. upTo[l] = s
      BY <2>1, <2>10
    <3> QED BY <1>3, <2>2, <2>5, <2>10, <3>1 DEF l
  <2>11. CASE LinesOf(f)[l] # "blank"
    <3>1. upTo[l] = Append(s, r)
      BY <2>1, <2>11
    <3>2. Append(s, r) \in Seq(Record)
      <4> HIDE DEF r, s
      <4> QED BY <2>6
    <3>3. ToSet(Append(s, r)) = {<<f, k>> : k \in {k \in (p + 1) .. l : IsRecord(<<f, k>>)}}
      BY <1>3, <2>2, <2>4, <2>9, <2>11
    <3> QED BY <3>1, <3>2, <3>3, <2>8 DEF l
  <2> QED BY <2>10, <2>11
<1>4. Nat \subseteq Q
  <2>1. \A n \in Nat : n \in Q => n + 1 \in Q
    <3> HIDE DEF Right
    <3> QED BY <1>3
  <2> HIDE DEF Q
  <2> QED BY <1>2, <2>1, Induction
<1>5. Right(upTo[q], q)
  <2> HIDE DEF Right
  <2>1. q - p \in Nat /\ p + (q - p) = q
    OBVIOUS
  <2> QED BY <1>4, <2>1
<1> QED BY <1>1, <1>5

-----------------------------------------------------------------------------
(* split: the ranges cover the directory, in order.                        *)

\* As many subsets as were asked for are enough for all files.
LEMMA ShareEnough ==
  ASSUME csvFiles \in Seq(CsvFile), NEW s \in Nat \ {0}
  PROVE  Share(s) \in Nat /\ Share(s) * s >= Len(csvFiles)
<1> DEFINE n == Len(csvFiles)
<1>1. n \in Nat /\ n \div s \in Nat
  OBVIOUS
<1>2. (n \div s + 1) * s >= n
  OBVIOUS
<1> QED BY <1>1, <1>2 DEF Share

\* The ranges begin at the first file, end at the last, and each begins where the
\* one before it ends.
LEMMA RangesFacts ==
  ASSUME csvFiles \in Seq(CsvFile), NEW s \in Nat \ {0}
  PROVE  LET all == Ranges(s)
             n == Len(csvFiles)
         IN  /\ all \in Seq(Nat \X Nat) /\ all # <<>>
             /\ \A k \in DOMAIN all : all[k][1] <= all[k][2] /\ all[k][2] <= n
             /\ \A j, k \in DOMAIN all : j < k => all[j][2] <= all[k][1]
             /\ UNION {(all[k][1] + 1) .. all[k][2] : k \in DOMAIN all} = 1 .. n
<1> DEFINE n == Len(csvFiles)
           w == Share(s)
           To(k) == IF k * w > n THEN n ELSE k * w
           Ends(k) == To(k) = n \/ k = s
           Counts(k) == (\A j \in 1 .. (k - 1) : To(j) # n) /\ Ends(k)
           count == CHOOSE k \in 1 .. s : Counts(k)
<1>1. n \in Nat /\ w \in Nat /\ w * s >= n /\ s \in Nat /\ s >= 1
  BY ShareEnough
<1>2. Ranges(s) = [k \in 1 .. count |-> <<To(k - 1), To(k)>>]
  BY DEF Ranges
<1> HIDE DEF n, w
<1>3. \E k \in 1 .. s : Counts(k)
  <2> DEFINE K == {k \in 1 .. s : Ends(k)}
  <2>1. s \in K
    BY <1>1
  <2>2. PICK c \in K : \A k \in K : c <= k
    <3> K \subseteq Nat
      OBVIOUS
    <3> HIDE DEF K
    <3> QED BY <2>1, Least
  <2>3. \A j \in 1 .. (c - 1) : j \notin K /\ j \in 1 .. s
    BY <2>2
  <2>4. Counts(c)
    BY <2>2, <2>3
  <2> QED BY <2>2, <2>4
<1>4. count \in 1 .. s /\ Counts(count)
  <2> HIDE DEF Counts
  <2> QED BY <1>3
<1>5. \A k \in Nat : To(k) \in Nat /\ To(k) <= n
  BY <1>1
<1>6. ASSUME NEW j \in Nat, NEW k \in Nat, j <= k PROVE To(j) <= To(k)
  <2>1. j * w <= k * w
    BY <1>1, <1>6
  <2>2. j * w \in Nat /\ k * w \in Nat
    BY <1>1
  <2> QED BY <1>1, <2>1, <2>2
<1>7. To(count) = n
  <2>1. To(s) = n
    <3>1. s * w = w * s /\ s * w \in Nat
      BY <1>1
    <3> QED BY <1>1, <3>1
  <2> HIDE DEF To, count
  <2> QED BY <1>4, <2>1
<1>8. To(0) = 0
  BY <1>1
<1>9. count \in Nat /\ count >= 1
  BY <1>1, <1>4
<1> HIDE DEF count, To
<1> DEFINE all == Ranges(s)
<1>10. /\ all \in Seq(Nat \X Nat) /\ all # <<>> /\ DOMAIN all = 1 .. count
       /\ \A k \in 1 .. count : all[k][1] = To(k - 1) /\ all[k][2] = To(k)
  <2>1. \A k \in 1 .. count : k \in Nat /\ k - 1 \in Nat
    BY <1>9
  <2>2. \A k \in 1 .. count : <<To(k - 1), To(k)>> \in Nat \X Nat
    BY <1>5, <2>1
  <2>3. all = [k \in 1 .. count |-> <<To(k - 1), To(k)>>]
    BY <1>2
  <2> HIDE DEF all
  <2>4. DOMAIN all = 1 .. count /\ all \in Seq(Nat \X Nat)
    BY <1>9, <2>2, <2>3
  <2>5. ASSUME NEW k \in 1 .. count PROVE all[k][1] = To(k - 1) /\ all[k][2] = To(k)
    BY <2>3
  <2>6. all # <<>>
    BY <1>9, <2>4
  <2> QED BY <2>4, <2>5, <2>6
<1> HIDE DEF all, To, count
<1>11. ASSUME NEW k \in DOMAIN all PROVE all[k][1] <= all[k][2] /\ all[k][2] <= n
  <2>1. k \in Nat /\ k - 1 \in Nat /\ k - 1 <= k
    BY <1>9, <1>10
  <2> QED BY <1>5, <1>6, <1>10, <2>1
<1>12. ASSUME NEW j \in DOMAIN all, NEW k \in DOMAIN all, j < k PROVE all[j][2] <= all[k][1]
  <2>1. k \in Nat /\ k - 1 \in Nat /\ j \in Nat /\ j <= k - 1
    BY <1>9, <1>10, <1>12
  <2>2. all[j][2] = To(j) /\ all[k][1] = To(k - 1)
    BY <1>10
  <2>3. To(j) <= To(k - 1)
    BY <1>6, <2>1
  <2> QED BY <2>2, <2>3
<1>13. ASSUME NEW f \in 1 .. n PROVE \E k \in DOMAIN all : f \in (all[k][1] + 1) .. all[k][2]
  <2> DEFINE K == {k \in Nat : f <= To(k)}
  <2>1. count \in K
    BY <1>1, <1>7, <1>9
  <2>2. PICK c \in K : \A k \in K : c <= k
    <3> K \subseteq Nat
      OBVIOUS
    <3> HIDE DEF K
    <3> QED BY <2>1, Least
  <2>3. c # 0
    BY <1>8, <2>2
  <2>4. c \in 1 .. count /\ c - 1 \in Nat /\ c - 1 \notin K
    <3> c \in Nat
      OBVIOUS
    <3> HIDE DEF K
    <3> QED BY <1>9, <2>1, <2>2, <2>3
  <2>5. f > To(c - 1) /\ f <= To(c) /\ To(c - 1) \in Nat /\ To(c) \in Nat /\ f \in Nat
    BY <1>1, <1>5, <2>2, <2>4
  <2>6. all[c][1] = To(c - 1) /\ all[c][2] = To(c) /\ c \in DOMAIN all
    BY <1>10, <2>4
  <2>7. f \in (all[c][1] + 1) .. all[c][2]
    BY <2>5, <2>6
  <2> QED BY <2>6, <2>7
<1>14. UNION {(all[k][1] + 1) .. all[k][2] : k \in DOMAIN all} = 1 .. n
  <2>1. ASSUME NEW k \in DOMAIN all PROVE (all[k][1] + 1) .. all[k][2] \subseteq 1 .. n
    <3>1. all[k][1] \in Nat /\ all[k][2] \in Nat
      <4>1. k \in Nat /\ k - 1 \in Nat
        BY <1>9, <1>10
      <4> QED BY <1>5, <1>10, <4>1
    <3>2. all[k][2] <= n
      BY <1>11
    <3> QED BY <1>1, <3>1, <3>2
  <2> QED BY <1>13, <2>1
<1> QED BY <1>10, <1>11, <1>12, <1>14 DEF n, all

-----------------------------------------------------------------------------
(* The shares of the threads.                                              *)

Rests(j) ==
  /\ indexOfFiles'[j] = indexOfFiles[j] /\ indexOfRecords'[j] = indexOfRecords[j]
  /\ recordsPerFile'[j] = recordsPerFile[j] /\ currentIfs'[j] = currentIfs[j]
  /\ given'[j] = given[j]

\* No two threads have a subset in common.
LEMMA SharesFacts ==
  ASSUME csvFiles \in Seq(CsvFile), NEW t \in Threads
  PROVE  /\ Shares[t][1] \in Nat \ {0} /\ Shares[t][2] \in Nat
         /\ \A u \in Threads :
              t # u => (Shares[t][1] .. Shares[t][2]) \cap (Shares[u][1] .. Shares[u][2]) = {}
<1>1. Batch \in Nat /\ Batch >= 1 /\ t \in {1, 2, 3, 4} /\ Threads = {1, 2, 3, 4}
  BY TerminalAssumption
<1>2. Len(csvFiles) \in Nat
  OBVIOUS
<1>3. CASE program = "cache_test"
  <2>1. \A u \in Threads : Shares[u] = <<(u - 1) * Batch + 1,
          IF u * Batch < Len(csvFiles) THEN u * Batch ELSE Len(csvFiles)>>
    BY <1>3 DEF Shares, CacheTest
  <2>2. /\ Shares[1][1] = 1 /\ Shares[2][1] = Batch + 1
        /\ Shares[3][1] = 2 * Batch + 1 /\ Shares[4][1] = 3 * Batch + 1
    BY <1>1, <2>1
  <2>3. \A u \in Threads : Shares[u][2] \in Nat
    BY <1>1, <1>2, <2>1
  <2>4. Shares[1][2] <= Batch /\ Shares[2][2] <= 2 * Batch /\ Shares[3][2] <= 3 * Batch
    <3>1. Shares[1][2] = IF 1 * Batch < Len(csvFiles) THEN 1 * Batch ELSE Len(csvFiles)
      BY <1>1, <2>1
    <3>2. Shares[2][2] = IF 2 * Batch < Len(csvFiles) THEN 2 * Batch ELSE Len(csvFiles)
      BY <1>1, <2>1
    <3>3. Shares[3][2] = IF 3 * Batch < Len(csvFiles) THEN 3 * Batch ELSE Len(csvFiles)
      BY <1>1, <2>1
    <3> HIDE DEF Shares
    <3> QED BY <1>1, <1>2, <3>1, <3>2, <3>3
  <2>5. ASSUME NEW u \in Threads, NEW v \in Threads, u < v PROVE Shares[u][2] < Shares[v][1]
    <3>1. (u = 1 /\ v \in {2, 3, 4}) \/ (u = 2 /\ v \in {3, 4}) \/ (u = 3 /\ v = 4)
      BY <1>1, <2>5
    <3> HIDE DEF Shares
    <3>2. \A b \in Nat : b >= 1 => b < b + 1 /\ 2 * b < 2 * b + 1 /\ 3 * b < 3 * b + 1
                                   /\ b < 2 * b + 1 /\ b < 3 * b + 1 /\ 2 * b < 3 * b + 1
      OBVIOUS
    <3> QED BY <1>1, <2>2, <2>3, <2>4, <3>1, <3>2, SMTT(30)
  <2>6. \A u \in Threads : Shares[u][1] \in Nat \ {0}
    BY <1>1, <2>2
  <2>7. ASSUME NEW u \in Threads, t # u
        PROVE  (Shares[t][1] .. Shares[t][2]) \cap (Shares[u][1] .. Shares[u][2]) = {}
    <3>1. t < u \/ u < t
      BY <1>1, <2>7
    <3>2. Shares[t][2] < Shares[u][1] \/ Shares[u][2] < Shares[t][1]
      BY <2>5, <3>1
    <3>3. /\ Shares[t][1] \in Nat /\ Shares[t][2] \in Nat
          /\ Shares[u][1] \in Nat /\ Shares[u][2] \in Nat
      BY <2>3, <2>6
    <3> HIDE DEF Shares
    <3> QED BY <3>2, <3>3
  <2> QED BY <2>3, <2>6, <2>7
<1>4. CASE program \in {"extra", "dir"}
  <2>1. \A u \in Threads : Shares[u] = <<u, u>>
    BY <1>4 DEF Shares, Extra
  <2> QED BY <1>1, <1>2, <2>1
<1>5. CASE program = "arrange"
  <2>1. \A u \in Threads : Shares[u] = IF u = 1 THEN <<1, 1>> ELSE <<1, 0>>
    BY <1>5 DEF Shares, Arranging, Nobody
  <2> QED BY <1>1, <1>2, <2>1
<1>6. CASE program = "sort"
  <2>1. \A u \in Threads : Shares[u] = IF u = 1 THEN <<1, Len(csvFiles)>> ELSE <<1, 0>>
    BY <1>6 DEF Shares, Sorting, Nobody
  <2> QED BY <1>1, <1>2, <2>1
<1>7. CASE program \notin {"cache_test", "extra", "dir", "arrange", "sort"}
  <2>1. CASE round = 1
    <3>1. \A u \in Threads : Shares[u] = IF u = 1 THEN <<1, 6 * Batch>> ELSE <<1, 0>>
      BY <1>7, <2>1 DEF Shares, ToOneNode, Nobody
    <3> QED BY <1>1, <1>2, <3>1
  <2>2. CASE round = 2
    <3>1. \A u \in Threads : Shares[u] = IF u <= 2 THEN <<3 * Batch * (u - 1) + 1, 3 * Batch * u>>
            ELSE <<1, 0>>
      BY <1>7, <2>2 DEF Shares, ToTwoNodes, Nobody
    <3> QED BY <1>1, <1>2, <3>1
  <2>3. CASE round \notin {1, 2}
    <3>1. \A u \in Threads : Shares[u] = IF u <= 3 THEN <<2 * Batch * (u - 1) + 1,
            2 * Batch * (u - 1) + Batch>> ELSE <<1, 0>>
      BY <1>7, <2>3 DEF Shares, ToThreeNodes, Nobody
    <3> QED BY <1>1, <1>2, <3>1
  <2> QED BY <2>1, <2>2, <2>3
<1> QED BY <1>3, <1>4, <1>5, <1>6, <1>7

\* What is promised of a subset depends on the files and its range alone.
LEMMA SamePromise ==
  ASSUME UNCHANGED csvFiles, NEW j, fromTo'[j] = fromTo[j]
  PROVE  Promised(j)' = Promised(j)
<1>1. \A f : LinesOf(f)' = LinesOf(f)
  BY DEF LinesOf
<1>2. \A r : IsRecord(r)' <=> IsRecord(r)
  BY DEF IsRecord, LinesOf
<1>3. \A f : Kept(f)' = Kept(f)
  BY <1>1, <1>2 DEF Kept
<1>4. \A f : Reached(j, f)' <=> Reached(j, f)
  BY DEF Reached
<1> QED BY <1>3, <1>4 DEF Promised

-----------------------------------------------------------------------------
(* Steps of one thread, in its own subset.                                 *)

\* What a subset that rests satisfied, it still does.
LEMMA Frame ==
  ASSUME UNCHANGED files, NEW j, Rests(j)
  PROVE  /\ SubsetRight(j)' <=> SubsetRight(j)
         /\ BetweenBlocks(j)' <=> BetweenBlocks(j)
         /\ BehindHeader(j)' <=> BehindHeader(j)
         /\ Fresh(j)' <=> Fresh(j)
         /\ Finished(j)' <=> Finished(j)
         /\ AllOpen(j)' <=> AllOpen(j)
<1>1. csvFiles' = csvFiles /\ fromTo' = fromTo
  BY DEF files
<1>2. Promised(j)' = Promised(j)
  BY <1>1, SamePromise
<1>3. Here(j)' = Here(j) /\ Buffered(j)' = Buffered(j)
  BY DEF Rests, Here, Buffered
<1>4. Passed(j)' = Passed(j)
  BY <1>2, <1>3 DEF Passed
<1>5. \A f : LinesOf(f)' = LinesOf(f) /\ (Reached(j, f)' <=> Reached(j, f))
  BY <1>1 DEF LinesOf, Reached
<1>6. SubsetRight(j)' <=> SubsetRight(j)
  BY <1>1, <1>3, <1>4, <1>5 DEF SubsetRight, Rests
<1>7. (BetweenBlocks(j)' <=> BetweenBlocks(j)) /\ (BehindHeader(j)' <=> BehindHeader(j))
  BY <1>5 DEF BetweenBlocks, BehindHeader, Rests, Drained
<1>8. (Fresh(j)' <=> Fresh(j)) /\ (AllOpen(j)' <=> AllOpen(j)) /\ (Finished(j)' <=> Finished(j))
  BY <1>1, <1>2 DEF Fresh, AllOpen, Finished, Rests
<1> QED BY <1>6, <1>7, <1>8

\* The shares depend on the number of files, the program and the round alone.
LEMMA SameShares ==
  ASSUME UNCHANGED <<csvFiles, program, round>>
  PROVE  Shares' = Shares /\ Pieces' = Pieces /\ Rounds' = Rounds /\ Ranges(Pieces)' = Ranges(Pieces)
<1>1. Pieces' = Pieces /\ Rounds' = Rounds
  BY DEF Pieces, Rounds
<1>2. Shares' = Shares
  BY DEF Shares, CacheTest, ToOneNode, ToTwoNodes, ToThreeNodes, Extra, Arranging, Sorting, Nobody
<1>3. Ranges(Pieces)' = Ranges(Pieces)
  BY <1>1 DEF Ranges, Share
<1> QED BY <1>1, <1>2, <1>3

\* A step of thread t in its subset.
LEMMA OneThread ==
  ASSUME ReaderRight, NEW t \in Threads, started, pc[t] # "done", NEW here, here = thr[t],
         UNCHANGED <<files, program, round, started, running>>, cut => cut', cut' \in BOOLEAN,
         ReaderTypes',
         \A j \in DOMAIN fromTo : j # here => Rests(j),
         \A u \in Threads : u # t => pc'[u] = pc[u] /\ thr'[u] = thr[u],
         here \in DOMAIN fromTo => SubsetRight(here)' /\ (AtLines(t)' \/ BetweenBlocks(here)'),
         AtLines(t)' => thr'[t] = here,
         ThreadRight(t)', ShareRight(t)'
  PROVE  ReaderRight'
<1>1. csvFiles' = csvFiles /\ fromTo' = fromTo /\ Shares' = Shares /\ csvFiles \in Seq(CsvFile)
  BY SameShares DEF files, ReaderRight, ReaderTypes
<1>2. here \in Shares[t][1] .. Shares[t][2]
  BY DEF ReaderRight, ThreadRight
<1>3. ASSUME NEW u \in Threads, u # t
      PROVE  here \notin Shares[u][1] .. Shares[u][2]
  BY <1>1, <1>2, <1>3, SharesFacts
<1>4. ASSUME NEW u \in Threads, u # t, pc[u] # "done"
      PROVE  thr[u] # here
  BY <1>3, <1>4 DEF ReaderRight, ThreadRight
<1>5. RoundRight'
  <2>1. (Pieces' = Pieces) /\ (Rounds' = Rounds) /\ Ranges(Pieces)' = Ranges(Pieces)
          /\ Subsets' = Subsets
    BY <1>1, SameShares DEF Subsets
  <2> QED BY <1>1, <2>1 DEF ReaderRight, RoundRight
<1>6. ASSUME NEW i \in DOMAIN fromTo
      PROVE  SubsetRight(i)' /\ ((\A u \in Threads : ~(AtLines(u)' /\ thr'[u] = i))
               => BetweenBlocks(i)')
  <2>1. CASE i = here
    BY <2>1
  <2>2. CASE i # here
    <3>1. Rests(i)
      BY <2>2
    <3>2. (SubsetRight(i)' <=> SubsetRight(i)) /\ (BetweenBlocks(i)' <=> BetweenBlocks(i))
      BY <3>1, Frame
    <3>3. SubsetRight(i)
      BY DEF ReaderRight
    <3>4. ASSUME \A u \in Threads : ~(AtLines(u)' /\ thr'[u] = i)
          PROVE  \A u \in Threads : ~(AtLines(u) /\ thr[u] = i)
      BY <2>2, <3>4 DEF AtLines
    <3>5. (\A u \in Threads : ~(AtLines(u) /\ thr[u] = i)) => BetweenBlocks(i)
      BY DEF ReaderRight
    <3> QED BY <3>2, <3>3, <3>4, <3>5
  <2> QED BY <2>1, <2>2
<1>7. ASSUME NEW u \in Threads
      PROVE  ThreadRight(u)' /\ ShareRight(u)'
  <2>1. CASE u = t
    BY <2>1
  <2>2. CASE u # t
    <3>1. pc'[u] = pc[u] /\ thr'[u] = thr[u] /\ ThreadRight(u) /\ ShareRight(u)
      BY <2>2 DEF ReaderRight
    <3>2. ASSUME NEW j \in DOMAIN fromTo, j # here
          PROVE  /\ BehindHeader(j)' <=> BehindHeader(j)
                 /\ Fresh(j)' <=> Fresh(j)
                 /\ Finished(j)' <=> Finished(j)
                 /\ AllOpen(j)' <=> AllOpen(j)
                 /\ given'[j] = given[j]
      BY <3>2, Frame DEF Rests
    <3>3. ThreadRight(u)'
      BY <1>1, <1>4, <2>2, <3>1, <3>2 DEF ThreadRight, AtLines
    <3>4. ShareRight(u)'
      <4>1. ASSUME NEW j \in DOMAIN fromTo, j \in Shares[u][1] .. Shares[u][2]
            PROVE  (Fresh(j)' <=> Fresh(j)) /\ (Finished(j)' <=> Finished(j))
        BY <1>3, <2>2, <3>2, <4>1
      <4>2. \A j : Finished(j) => j \in DOMAIN fromTo
        BY DEF Finished
      <4> HIDE DEF Shares, Fresh, Finished
      <4> QED BY <1>1, <3>1, <4>1, <4>2 DEF ShareRight, AtEnd
    <3> QED BY <3>3, <3>4
  <2> QED BY <2>1, <2>2
<1> QED BY <1>1, <1>5, <1>6, <1>7 DEF ReaderRight

\* What a thread that is not done with its share may rely on.
LEMMA InShare ==
  ASSUME ReaderRight, NEW t \in Threads, pc[t] # "done"
  PROVE  started /\ thr[t] \in Shares[t][1] .. Shares[t][2] /\ thr[t] \in Nat \ {0}
<1>1. Shares[t][1] \in Nat \ {0} /\ Shares[t][2] \in Nat
  BY SharesFacts DEF ReaderRight, ReaderTypes
<1>2. started /\ thr[t] \in Shares[t][1] .. Shares[t][2]
  BY DEF ReaderRight, ThreadRight
<1> HIDE DEF Shares
<1> QED BY <1>1, <1>2

\* The subset of a thread that is not in next_file is between two blocks.
LEMMA Between ==
  ASSUME ReaderRight, NEW t \in Threads, pc[t] # "done", ~AtLines(t), thr[t] \in DOMAIN fromTo
  PROVE  BetweenBlocks(thr[t])
<1>1. ASSUME NEW u \in Threads, AtLines(u) PROVE thr[u] # thr[t]
  <2>1. CASE u = t
    BY <1>1, <2>1
  <2>2. CASE u # t
    <3>1. pc[u] # "done"
      BY <1>1 DEF AtLines
    <3> QED BY <2>2, <3>1, InShare, SharesFacts DEF ReaderRight, ReaderTypes
  <2> QED BY <2>1, <2>2
<1> QED BY <1>1 DEF ReaderRight

\* A step of thread t that leaves it in its subset.
LEMMA InSubset ==
  ASSUME ReaderRight, NEW t \in Threads, pc[t] # "done", NEW here, here = thr[t],
         UNCHANGED <<files, program, round, started, running, cut, thr>>,
         ReaderTypes',
         \A j \in DOMAIN fromTo : j # here => Rests(j),
         \A u \in Threads : u # t => pc'[u] = pc[u],
         here \in DOMAIN fromTo => SubsetRight(here)' /\ (AtLines(t)' \/ BetweenBlocks(here)'),
         pc'[t] # "done", AtEnd(t)' => Finished(here)',
         ThreadRight(t)'
  PROVE  ReaderRight'
<1>1. csvFiles' = csvFiles /\ fromTo' = fromTo /\ Shares' = Shares /\ csvFiles \in Seq(CsvFile)
  BY SameShares DEF files, ReaderRight, ReaderTypes
<1>2. here \in Shares[t][1] .. Shares[t][2] /\ started /\ here \in Nat \ {0} /\ thr'[t] = here
  BY InShare
<1>3. ShareRight(t)'
  <2>1. ASSUME NEW j \in DOMAIN fromTo, j # here
        PROVE  (Fresh(j)' <=> Fresh(j)) /\ (Finished(j)' <=> Finished(j))
    BY <2>1, Frame
  <2>2. \A j : Finished(j) => j \in DOMAIN fromTo
    BY DEF Finished
  <2>3. ShareRight(t) /\ cut' = cut
    BY <1>2 DEF ReaderRight
  <2>4. Shares[t][1] \in Nat /\ Shares[t][2] \in Nat
    BY <1>1, SharesFacts
  <2> HIDE DEF Shares, Fresh, Finished
  <2>5. \A j \in DOMAIN fromTo : j \in Shares[t][1] .. Shares[t][2] /\ here < j => Fresh(j)'
    BY <1>2, <2>1, <2>3, <2>4 DEF ShareRight
  <2>6. ~cut => \A j \in Shares[t][1] .. Shares[t][2] : j < here => Finished(j)'
    BY <1>2, <2>1, <2>2, <2>3, <2>4 DEF ShareRight
  <2>7. AtEnd(t)' => \A j \in Shares[t][1] .. Shares[t][2] : j <= here => j < here \/ Finished(j)'
    BY <1>2, <2>4
  <2> QED BY <1>1, <1>2, <2>3, <2>5, <2>6, <2>7 DEF ShareRight
<1> QED BY <1>1, <1>2, <1>3, OneThread DEF ReaderRight, RoundRight

-----------------------------------------------------------------------------
(* TakeRecord.                                                             *)

\* What is behind a subset depends on where it is alone.
LEMMA SamePassed ==
  ASSUME UNCHANGED files, NEW j, indexOfFiles'[j] = indexOfFiles[j], currentIfs'[j] = currentIfs[j]
  PROVE  Passed(j)' = Passed(j) /\ Promised(j)' = Promised(j)
<1>1. Promised(j)' = Promised(j)
  BY SamePromise DEF files
<1>2. Here(j)' = Here(j)
  BY DEF Here
<1> QED BY <1>1, <1>2 DEF Passed

\* next_record, from the buffer, keeps the invariant.
LEMMA TakesRecord ==
  ASSUME ReaderRight, NEW t \in Threads, TakeRecord(t),
         UNCHANGED <<program, round, started, running, cut>>
  PROVE  ReaderRight'
<1>a. PICK here, x : here = thr[t] /\ x = recordsPerFile[here][indexOfRecords[here] + 1]
  OBVIOUS
<1>1. here \in DOMAIN fromTo /\ pc[t] = "next" /\ ~Drained(here) /\ t \in DOMAIN pc
  BY <1>a DEF TakeRecord, AtNext, ReaderRight, ReaderTypes
<1>2. /\ given[here] \in Seq(Record) /\ recordsPerFile[here] \in Seq(Record)
      /\ indexOfRecords[here] \in Nat /\ indexOfRecords[here] + 1 \in DOMAIN recordsPerFile[here]
  BY <1>1 DEF ReaderRight, ReaderTypes, Drained
<1>3. x \in Record
  BY <1>a, <1>2
<1>4. UNCHANGED files /\ csvFiles' = csvFiles /\ fromTo' = fromTo
  BY DEF TakeRecord, files
<1>5. /\ given' = [given EXCEPT ![here] = Append(given[here], x)]
      /\ indexOfRecords' = [indexOfRecords EXCEPT ![here] = indexOfRecords[here] + 1]
      /\ pc' = [pc EXCEPT ![t] = "record"]
      /\ UNCHANGED <<indexOfFiles, recordsPerFile, currentIfs, titles, thr>>
  BY <1>a DEF TakeRecord
<1>6. Append(given[here], x) \in Seq(Record)
  BY <1>2, <1>3
<1>7. ReaderTypes'
  BY <1>1, <1>2, <1>4, <1>5, <1>6 DEF ReaderRight, ReaderTypes
<1>8. /\ given'[here] = Append(given[here], x) /\ indexOfRecords'[here] = indexOfRecords[here] + 1
      /\ recordsPerFile'[here] = recordsPerFile[here]
      /\ indexOfFiles'[here] = indexOfFiles[here] /\ currentIfs'[here] = currentIfs[here]
  BY <1>1, <1>5 DEF ReaderRight, ReaderTypes
<1>9. SubsetRight(here)
  BY <1>1 DEF ReaderRight
<1>10. SubsetRight(here)'
  <2>1. Passed(here)' = Passed(here)
        /\ \A f : LinesOf(f)' = LinesOf(f) /\ (Reached(here, f)' <=> Reached(here, f))
    BY <1>4, <1>8, SamePassed DEF LinesOf, Reached
  <2>2. Buffered(here) = Buffered(here)' \cup {x}
    <3>1. PICK buffer, k : buffer = recordsPerFile[here] /\ k = indexOfRecords[here]
      OBVIOUS
    <3>2. k \in Nat /\ Len(buffer) \in Nat /\ k + 1 <= Len(buffer)
      BY <1>2, <3>1
    <3>3. Buffered(here) = {buffer[n] : n \in (k + 1) .. Len(buffer)}
      BY <3>1 DEF Buffered
    <3>4. Buffered(here)' = {buffer[n] : n \in ((k + 1) + 1) .. Len(buffer)}
      BY <1>8, <3>1 DEF Buffered
    <3>5. (k + 1) .. Len(buffer) = (((k + 1) + 1) .. Len(buffer)) \cup {k + 1}
      BY <3>2
    <3> QED BY <1>a, <3>1, <3>3, <3>4, <3>5
  <2>3. ToSet(given'[here]) = ToSet(given[here]) \cup {x}
    BY <1>2, <1>3, <1>8, AppendSet
  <2>4. ASSUME NEW r \in Buffered(here)' PROVE Ahead(x, r)
    <3>1. PICK n \in (indexOfRecords[here] + 2) .. Len(recordsPerFile[here]) :
            r = recordsPerFile[here][n]
      BY <1>2, <1>8 DEF Buffered
    <3>2. InOrder(recordsPerFile[here])
      BY <1>9 DEF SubsetRight
    <3> QED BY <1>a, <1>2, <3>1, <3>2 DEF InOrder
  <2>5. \A q \in ToSet(given[here]) : Ahead(q, x)
    BY <1>9, <2>2 DEF SubsetRight
  <2>6. InOrder(Append(given[here], x))
    <3>1. \A m \in DOMAIN given[here] : Ahead(given[here][m], x)
      BY <2>5 DEF ToSet
    <3>2. InOrder(given[here])
      BY <1>9 DEF SubsetRight
    <3> QED BY <1>2, <3>1, <3>2 DEF InOrder
  <2>7. \A q \in ToSet(given'[here]), r \in Buffered(here)' : Ahead(q, r)
    <3>1. \A q \in ToSet(given[here]), r \in Buffered(here) : Ahead(q, r)
      BY <1>9 DEF SubsetRight
    <3> QED BY <2>2, <2>3, <2>4, <3>1
  <2> QED BY <1>4, <1>8, <1>9, <2>1, <2>2, <2>3, <2>6, <2>7 DEF SubsetRight
<1>11. BetweenBlocks(here)'
  <2>2. BetweenBlocks(here)
    BY <1>a, <1>1, Between DEF AtLines
  <2> QED BY <1>8, <2>2 DEF BetweenBlocks
<1>12. ThreadRight(t)'
  <2>1. ThreadRight(t) /\ Shares' = Shares
    BY <1>4, SameShares DEF ReaderRight
  <2>2. pc'[t] = "record"
    BY <1>1, <1>5
  <2>3. given'[here] # <<>>
    BY <1>2, <1>3, <1>8
  <2>4. AllOpen(here)'
    BY <1>a, <1>1, <1>4, <1>8, <2>1 DEF AllOpen, ThreadRight
  <2> QED BY <1>a, <1>1, <1>4, <1>5, <2>1, <2>2, <2>3, <2>4 DEF ThreadRight, AtLines
<1>13. \A j \in DOMAIN fromTo : j # here => Rests(j)
  BY <1>5 DEF Rests, ReaderRight, ReaderTypes
<1> QED BY <1>a, <1>1, <1>4, <1>5, <1>7, <1>10, <1>11, <1>12, <1>13, InSubset
           DEF AtEnd, ReaderRight, ReaderTypes

-----------------------------------------------------------------------------
(* What was promised; NextFails and SetTitles.                             *)

\* The records that are promised, one by one.
LEMMA PromisedFacts ==
  ASSUME ReaderTypes, NEW i \in DOMAIN fromTo
  PROVE  /\ Promised(i) \subseteq Record
         /\ \A f, l : <<f, l>> \in Promised(i)
              <=> Reached(i, f) /\ l \in DOMAIN LinesOf(f) /\ IsRecord(<<f, l>>) /\ l % Block # 1
         /\ \A f : Reached(i, f) =>
              f \in DOMAIN csvFiles /\ LinesOf(f) \in Seq(STRING)
                  /\ f \in (fromTo[i][1] + 1) .. fromTo[i][2]
<1>1. fromTo[i][1] \in Nat /\ fromTo[i][2] \in Nat /\ fromTo[i][2] <= Len(csvFiles)
        /\ csvFiles \in Seq(CsvFile)
  BY DEF ReaderTypes
<1>2. ASSUME NEW f, Reached(i, f)
      PROVE  f \in DOMAIN csvFiles /\ LinesOf(f) \in Seq(STRING)
               /\ f \in (fromTo[i][1] + 1) .. fromTo[i][2]
  <2>1. f \in (fromTo[i][1] + 1) .. fromTo[i][2] /\ f \in DOMAIN csvFiles
    BY <1>1, <1>2 DEF Reached
  <2>2. csvFiles[f] \in CsvFile
    BY <1>1, <2>1
  <2> QED BY <2>1, <2>2 DEF LinesOf, CsvFile
<1>3. ASSUME NEW f, NEW l
      PROVE  <<f, l>> \in Kept(f) <=> l \in DOMAIN LinesOf(f) /\ IsRecord(<<f, l>>) /\ l % Block # 1
  BY DEF Kept, Block
<1>4. ASSUME NEW f, NEW r \in Kept(f), Reached(i, f) PROVE r \in Record /\ r = <<f, r[2]>>
  <2>1. DOMAIN LinesOf(f) \subseteq Nat /\ f \in Nat
    BY <1>1, <1>2, <1>4
  <2> QED BY <2>1 DEF Kept, Record
<1>5. \A r \in Promised(i) : \E f : Reached(i, f) /\ r \in Kept(f)
  BY DEF Promised
<1>6. \A f : Reached(i, f) => Kept(f) \subseteq Promised(i)
  BY DEF Promised, Reached
<1> QED BY <1>2, <1>3, <1>4, <1>5, <1>6

\* next_record keeps the invariant when it returns false.
LEMMA FailsNext ==
  ASSUME ReaderRight, NEW t \in Threads, NextFails(t),
         UNCHANGED <<program, round, started, running, cut>>
  PROVE  ReaderRight'
<1>a. PICK here : here = thr[t]
  OBVIOUS
<1>1. here \in DOMAIN fromTo /\ pc[t] = "next" /\ Drained(here) /\ currentIfs[here].file = 0
        /\ t \in DOMAIN pc
  BY <1>a DEF NextFails, AtNext, ReaderRight, ReaderTypes
<1>2. /\ UNCHANGED files /\ csvFiles' = csvFiles /\ fromTo' = fromTo
      /\ UNCHANGED <<indexOfRecords, recordsPerFile, currentIfs, titles, thr, given>>
      /\ pc' = [pc EXCEPT ![t] = "false"]
  BY DEF NextFails, files, shared
<1>3. /\ indexOfFiles[here] \in Nat /\ fromTo[here][1] \in Nat /\ fromTo[here][2] \in Nat
      /\ indexOfFiles[here] \in fromTo[here][1] .. fromTo[here][2]
  BY <1>1 DEF ReaderRight, ReaderTypes, SubsetRight
<1>4. \/ indexOfFiles[here] = fromTo[here][2] /\ UNCHANGED indexOfFiles
      \/ /\ indexOfFiles[here] < fromTo[here][2] /\ ~csvFiles[indexOfFiles[here] + 1].opens
         /\ indexOfFiles' = [indexOfFiles EXCEPT ![here] = indexOfFiles[here] + 1]
  BY <1>a, <1>3 DEF NextFails, NoMoreFiles
<1>5. \A r \in Promised(here) : r \in Record /\ r[1] <= indexOfFiles[here]
  <2>1. ASSUME NEW f, Reached(here, f) PROVE f \in Nat /\ f <= indexOfFiles[here]
    BY <1>1, <1>3, <1>4, <2>1 DEF Reached
  <2> QED BY <1>1, <2>1, PromisedFacts DEF ReaderRight, Record
<1>6. Passed(here) = Promised(here)
  BY <1>1, <1>3, <1>5 DEF Passed, Here, Ahead, Record
<1>7. indexOfFiles'[here] \in Nat /\ indexOfFiles'[here] >= indexOfFiles[here]
        /\ indexOfFiles'[here] \in fromTo[here][1] .. fromTo[here][2]
  BY <1>1, <1>3, <1>4 DEF ReaderRight, ReaderTypes
<1>8. ReaderTypes'
  <2>1. indexOfFiles \in [DOMAIN fromTo -> Nat]
    BY DEF ReaderRight, ReaderTypes
  <2>2. indexOfFiles' \in [DOMAIN fromTo -> Nat]
    BY <1>3, <1>4, <2>1
  <2>3. pc' \in [Threads -> {"next", "record", "titles", "lines", "false", "written", "done"}]
    BY <1>2 DEF ReaderRight, ReaderTypes
  <2> QED BY <1>2, <2>2, <2>3 DEF ReaderRight, ReaderTypes
<1>9. Promised(here)' = Promised(here)
  BY <1>2, SamePromise
<1>10. Passed(here)' = Promised(here)
  BY <1>1, <1>2, <1>3, <1>5, <1>7, <1>9 DEF Passed, Here, Ahead, Record
<1>11. Buffered(here) = {} /\ Buffered(here)' = {}
  <2>1. indexOfRecords[here] \in Nat /\ Len(recordsPerFile[here]) \in Nat
        /\ indexOfRecords[here] >= Len(recordsPerFile[here])
    <3>1. indexOfRecords[here] \in Nat /\ recordsPerFile[here] \in Seq(Record)
      BY <1>1 DEF ReaderRight, ReaderTypes
    <3> QED BY <1>1, <3>1 DEF Drained
  <2>2. (indexOfRecords[here] + 1) .. Len(recordsPerFile[here]) = {}
    BY <2>1
  <2> QED BY <1>2, <2>2 DEF Buffered
<1>12. SubsetRight(here)
  BY <1>1 DEF ReaderRight
<1>13. SubsetRight(here)'
  BY <1>1, <1>2, <1>6, <1>7, <1>10, <1>11, <1>12 DEF SubsetRight
<1>14. Finished(here)'
  BY <1>1, <1>2, <1>6, <1>9, <1>11, <1>12 DEF SubsetRight, Finished
<1>15. BetweenBlocks(here)'
  BY <1>1, <1>2 DEF BetweenBlocks
<1>16. ThreadRight(t)'
  <2>1. ThreadRight(t) /\ Shares' = Shares
    BY <1>2, SameShares DEF ReaderRight
  <2>2. pc'[t] = "false"
    BY <1>1, <1>2
  <2> QED BY <1>a, <1>1, <1>2, <1>14, <2>1, <2>2 DEF ThreadRight, AtLines
<1>17. \A j \in DOMAIN fromTo : j # here => Rests(j)
  BY <1>2, <1>4 DEF Rests, ReaderRight, ReaderTypes
<1> QED BY <1>a, <1>1, <1>2, <1>8, <1>13, <1>14, <1>15, <1>16, <1>17, InSubset
           DEF ReaderRight, ReaderTypes

\* The assignment of the titles keeps the invariant.
LEMMA SetsTitles ==
  ASSUME ReaderRight, NEW t \in Threads, SetTitles(t),
         UNCHANGED <<program, round, started, running, cut>>
  PROVE  ReaderRight'
<1>a. PICK here : here = thr[t]
  OBVIOUS
<1>1. here \in DOMAIN fromTo /\ pc[t] = "titles" /\ t \in DOMAIN pc /\ ThreadRight(t)
  BY <1>a DEF SetTitles, ReaderRight, ReaderTypes, ThreadRight
<1>2. /\ UNCHANGED files /\ csvFiles' = csvFiles /\ fromTo' = fromTo
      /\ UNCHANGED <<indexOfFiles, indexOfRecords, recordsPerFile, currentIfs, thr, given>>
      /\ pc' = [pc EXCEPT ![t] = "lines"] /\ titles' = currentIfs[here].file
  BY <1>a DEF SetTitles, files, buffers
<1>3. \A j : Rests(j)
  BY <1>2 DEF Rests
<1>4. ReaderTypes'
  BY <1>1, <1>2 DEF ReaderRight, ReaderTypes, Stream
<1>5. SubsetRight(here)'
  BY <1>1, <1>2, <1>3, Frame DEF ReaderRight
<1>6. ThreadRight(t)'
  <2>1. Shares' = Shares
    BY <1>2, SameShares
  <2>2. (BehindHeader(here)' <=> BehindHeader(here)) /\ (AllOpen(here)' <=> AllOpen(here))
    BY <1>2, <1>3, Frame
  <2>3. pc'[t] = "lines"
    BY <1>1, <1>2
  <2> QED BY <1>a, <1>1, <1>2, <2>1, <2>2, <2>3 DEF ThreadRight, AtLines
<1> QED BY <1>a, <1>1, <1>2, <1>3, <1>4, <1>5, <1>6, InSubset
           DEF AtLines, AtEnd, ReaderRight, ReaderTypes

-----------------------------------------------------------------------------
(* NextFile.                                                               *)

\* next_file keeps the invariant when it has taken the header.
LEMMA OpensNext ==
  ASSUME ReaderRight, NEW t \in Threads, NextFile(t),
         UNCHANGED <<program, round, started, running, cut>>
  PROVE  ReaderRight'
<1>a. PICK here : here = thr[t]
  OBVIOUS
<1>1. here \in DOMAIN fromTo /\ pc[t] = "next" /\ Drained(here) /\ t \in DOMAIN pc
  BY <1>a DEF NextFile, AtNext, ReaderRight, ReaderTypes
<1>2. /\ UNCHANGED files /\ csvFiles' = csvFiles /\ fromTo' = fromTo
      /\ UNCHANGED <<indexOfRecords, recordsPerFile, titles, thr, given>>
  BY DEF NextFile, files, shared
<1>3. /\ indexOfFiles[here] \in Nat /\ fromTo[here][1] \in Nat /\ fromTo[here][2] \in Nat
      /\ indexOfFiles[here] \in fromTo[here][1] .. fromTo[here][2]
      /\ currentIfs[here] \in Stream
  BY <1>1 DEF ReaderRight, ReaderTypes, SubsetRight
<1>4. SubsetRight(here) /\ BetweenBlocks(here) /\ ThreadRight(t) /\ AllOpen(here)
  <2>1. SubsetRight(here) /\ ThreadRight(t)
    BY <1>1 DEF ReaderRight
  <2>2. BetweenBlocks(here)
    BY <1>a, <1>1, Between DEF AtLines
  <2> QED BY <1>a, <1>1, <2>1, <2>2 DEF ThreadRight
<1>b. MaxLines \in Nat /\ Block \in Nat /\ Block > 1 /\ 0 % Block = 0
  BY CSVAssumption DEF Block
<1> DEFINE Ifs(f, p) == [file |-> f, pos |-> p, good |-> TRUE]
<1>5. PICK f \in Nat \ {0}, p \in Nat :
        /\ p % Block = 0 /\ Here(here) = <<f, p>> /\ Reached(here, f) /\ p <= Len(LinesOf(f))
        /\ indexOfFiles' = [indexOfFiles EXCEPT ![here] = f]
        /\ currentIfs' = [currentIfs EXCEPT ![here] = Getline(Ifs(f, p))]
  <2>1. CASE currentIfs[here].file # 0
    <3> DEFINE f == indexOfFiles[here]
               p == currentIfs[here].pos
    <3>1. /\ f \in Nat \ {0} /\ p \in Nat /\ currentIfs[here].file = f /\ currentIfs[here].good
          /\ p % Block = 0 /\ Reached(here, f) /\ p <= Len(LinesOf(f))
      BY <1>3, <1>4, <2>1 DEF SubsetRight, BetweenBlocks, Stream
    <3>2. Here(here) = <<f, p>>
      BY <2>1 DEF Here
    <3>3. currentIfs[here] = Ifs(f, p)
      BY <1>3, <3>1 DEF Stream
    <3>4. indexOfFiles' = [indexOfFiles EXCEPT ![here] = f]
      BY <1>a, <2>1 DEF NextFile, ReaderRight, ReaderTypes
    <3>5. currentIfs' = [currentIfs EXCEPT ![here] = Getline(Ifs(f, p))]
      BY <1>a, <2>1, <3>3 DEF NextFile
    <3> QED BY <3>1, <3>2, <3>4, <3>5
  <2>2. CASE currentIfs[here].file = 0
    <3> DEFINE f == indexOfFiles[here] + 1
    <3>1. ~NoMoreFiles(here) /\ csvFiles[f].opens
      BY <1>a, <2>2 DEF NextFile
    <3>2. f \in Nat \ {0} /\ f \in (fromTo[here][1] + 1) .. fromTo[here][2]
      BY <1>3, <3>1 DEF NoMoreFiles
    <3>3. Reached(here, f)
      <4>1. \A g \in (fromTo[here][1] + 1) .. f :
              g \in (fromTo[here][1] + 1) .. indexOfFiles[here] \/ g = f
        BY <1>3
      <4> QED BY <1>4, <3>1, <3>2, <4>1 DEF Reached, AllOpen
    <3>4. LinesOf(f) \in Seq(STRING)
      BY <1>1, <3>3, PromisedFacts DEF ReaderRight
    <3>5. Here(here) = <<f, 0>>
      BY <2>2 DEF Here
    <3>6. indexOfFiles' = [indexOfFiles EXCEPT ![here] = f]
      BY <1>a, <2>2 DEF NextFile
    <3>7. currentIfs' = [currentIfs EXCEPT ![here] = Getline(Ifs(f, 0))]
      BY <1>a, <2>2 DEF NextFile, Opened
    <3>8. 0 \in Nat /\ 0 <= Len(LinesOf(f))
      BY <3>4
    <3> HIDE DEF f, Ifs
    <3> QED BY <1>b, <3>2, <3>3, <3>5, <3>6, <3>7, <3>8
  <2> QED BY <2>1, <2>2
<1>6. LinesOf(f) \in Seq(STRING) /\ Len(LinesOf(f)) \in Nat
        /\ f \in (fromTo[here][1] + 1) .. fromTo[here][2]
  BY <1>1, <1>5, PromisedFacts DEF ReaderRight
<1>7. PICK q \in Nat, ok \in BOOLEAN :
        /\ currentIfs'[here] = [file |-> f, pos |-> q, good |-> ok]
        /\ IF ok THEN q = p + 1 /\ q % Block = 1 ELSE q = p /\ q = Len(LinesOf(f))
        /\ q <= Len(LinesOf(f))
  <2>1. here \in DOMAIN currentIfs
    BY <1>1 DEF ReaderRight, ReaderTypes
  <2>2. currentIfs'[here] = Getline(Ifs(f, p))
    BY <1>5, <2>1
  <2>3. CASE p < Len(LinesOf(f))
    <3>1. Getline(Ifs(f, p)) = [file |-> f, pos |-> p + 1, good |-> TRUE]
      BY <2>3 DEF Getline
    <3>2. (p + 1) % Block = 1
      BY <1>b, <1>5, BlockStep
    <3>3. p + 1 \in Nat /\ p + 1 <= Len(LinesOf(f))
      BY <1>6, <2>3
    <3> HIDE DEF Ifs
    <3> QED BY <2>2, <3>1, <3>2, <3>3
  <2>4. CASE ~(p < Len(LinesOf(f)))
    <3>1. Getline(Ifs(f, p)) = [file |-> f, pos |-> p, good |-> FALSE]
      BY <2>4 DEF Getline
    <3>2. p = Len(LinesOf(f))
      BY <1>5, <1>6, <2>4
    <3> HIDE DEF Ifs
    <3> QED BY <1>5, <2>2, <3>1, <3>2
  <2> QED BY <2>3, <2>4
<1>8. indexOfFiles'[here] = f
  BY <1>1, <1>5 DEF ReaderRight, ReaderTypes
<1>9. pc'[t] \in {"titles", "lines"} /\ pc' = [pc EXCEPT ![t] = pc'[t]]
  BY <1>1 DEF NextFile
<1>10. ReaderTypes'
  <2>1. indexOfFiles' \in [DOMAIN fromTo -> Nat]
    BY <1>5 DEF ReaderRight, ReaderTypes
  <2>2. currentIfs' \in [DOMAIN fromTo -> Stream]
    <3>1. currentIfs'[here] \in Stream
      BY <1>5, <1>7 DEF Stream
    <3> QED BY <1>1, <1>5, <3>1 DEF ReaderRight, ReaderTypes
  <2>3. pc' \in [Threads -> {"next", "record", "titles", "lines", "false", "written", "done"}]
    BY <1>9 DEF ReaderRight, ReaderTypes
  <2> QED BY <1>2, <2>1, <2>2, <2>3 DEF ReaderRight, ReaderTypes
<1>11. Passed(here)' = Passed(here)
  <2>1. Promised(here)' = Promised(here)
    BY <1>2, SamePromise
  <2>2. Here(here)' = <<f, q>>
    BY <1>5, <1>7, <1>8 DEF Here
  <2>3. ASSUME NEW r \in Promised(here) PROVE Ahead(<<f, p>>, r) <=> Ahead(<<f, q>>, r)
    <3>1. r \in Record
      BY <1>1, PromisedFacts DEF ReaderRight
    <3>2. r[1] = f /\ r[2] = p + 1 => r[2] % Block # 1
      BY <1>1, <3>1, PromisedFacts DEF ReaderRight, Record
    <3> QED BY <1>7, <3>1, <3>2 DEF Ahead, Record
  <2> QED BY <1>5, <2>1, <2>2, <2>3 DEF Passed
<1>12. SubsetRight(here)'
  <2>1. Reached(here, f)' /\ LinesOf(f)' = LinesOf(f) /\ Buffered(here)' = Buffered(here)
    BY <1>2, <1>5 DEF Reached, LinesOf, Buffered
  <2>2. f \in fromTo[here][1] .. fromTo[here][2]
    BY <1>3, <1>6
  <2> QED BY <1>2, <1>4, <1>5, <1>7, <1>8, <1>11, <2>1, <2>2 DEF SubsetRight
<1>13. ThreadRight(t)'
  <2>1. Shares' = Shares
    BY <1>2, SameShares
  <2>2. BehindHeader(here)'
    BY <1>1, <1>2, <1>5, <1>7, <1>8 DEF BehindHeader, Drained, LinesOf
  <2>3. AllOpen(here)'
    BY <1>2, <1>5, <1>8 DEF AllOpen, Reached
  <2> QED BY <1>a, <1>1, <1>2, <1>4, <1>9, <2>1, <2>2, <2>3 DEF ThreadRight, AtLines
<1>14. \A j \in DOMAIN fromTo : j # here => Rests(j)
  BY <1>2, <1>5 DEF Rests, ReaderRight, ReaderTypes
<1>15. AtLines(t)' /\ ~AtEnd(t)' /\ pc'[t] # "done" /\ \A u \in Threads : u # t => pc'[u] = pc[u]
  BY <1>9 DEF AtLines, AtEnd, ReaderRight, ReaderTypes
<1> QED BY <1>a, <1>1, <1>2, <1>10, <1>12, <1>13, <1>14, <1>15, InSubset

-----------------------------------------------------------------------------
(* ReadLines.                                                              *)

\* A buffer ends where the next header is taken, and holds no header.
LEMMA BlockFilled ==
  ASSUME NEW b \in Nat, b > 1, NEW p \in Nat, p % b = 1
  PROVE  /\ \A k \in 1 .. b - 1 : (p + k) % b # 1
         /\ (p + (b - 1)) % b = 0
<1>1. PICK d \in Nat : p = b * d + 1
  OBVIOUS
<1>2. \A k \in 1 .. b - 2 : (p + k) % b = k + 1
  BY <1>1
<1>3. (p + (b - 1)) % b = 0
  BY <1>1
<1>4. \A k \in 1 .. b - 1 : k \in 1 .. b - 2 \/ k = b - 1
  OBVIOUS
<1> QED BY <1>2, <1>3, <1>4

\* next_file keeps the invariant when it has filled the buffer.
LEMMA LinesRead ==
  ASSUME ReaderRight, NEW t \in Threads, ReadLines(t),
         UNCHANGED <<program, round, started, running, cut>>
  PROVE  ReaderRight'
<1>a. PICK here : here = thr[t]
  OBVIOUS
<1>1. here \in DOMAIN fromTo /\ pc[t] = "lines" /\ t \in DOMAIN pc /\ ThreadRight(t)
  BY <1>a DEF ReadLines, ReaderRight, ReaderTypes, ThreadRight
<1>2. /\ UNCHANGED files /\ csvFiles' = csvFiles /\ fromTo' = fromTo
      /\ UNCHANGED <<indexOfFiles, titles, thr, given>>
      /\ pc' = [pc EXCEPT ![t] = "next"]
      /\ indexOfRecords' = [indexOfRecords EXCEPT ![here] = 0]
  BY <1>a DEF ReadLines, files, shared
<1>3. /\ indexOfFiles[here] \in Nat /\ indexOfRecords[here] \in Nat /\ currentIfs[here] \in Stream
      /\ given[here] \in Seq(Record) /\ recordsPerFile[here] \in Seq(Record)
  BY <1>1 DEF ReaderRight, ReaderTypes
<1>4. SubsetRight(here) /\ BehindHeader(here) /\ AllOpen(here)
  BY <1>a, <1>1 DEF ReaderRight, ThreadRight, AtLines
<1>5. MaxLines \in Nat /\ MaxLines > 0 /\ Block = MaxLines + 1 /\ Block \in Nat /\ Block > 1
  BY CSVAssumption DEF Block
<1>6. PICK f, pos, good : currentIfs[here] = [file |-> f, pos |-> pos, good |-> good]
  BY <1>3 DEF Stream
<1>7. /\ f \in Nat /\ f # 0 /\ pos \in Nat /\ good \in BOOLEAN /\ f = indexOfFiles[here]
      /\ Reached(here, f) /\ Here(here) = <<f, pos>>
  BY <1>3, <1>4, <1>6 DEF Stream, SubsetRight, BehindHeader, Here
<1>8. /\ LinesOf(f) \in Seq(STRING) /\ Len(LinesOf(f)) \in Nat /\ pos <= Len(LinesOf(f))
      /\ f \in (fromTo[here][1] + 1) .. fromTo[here][2]
  BY <1>1, <1>4, <1>6, <1>7, PromisedFacts DEF ReaderRight, SubsetRight
<1>9. IF good THEN pos % Block = 1 ELSE pos = Len(LinesOf(f))
  BY <1>4, <1>6, <1>7 DEF BehindHeader
<1> DEFINE end == Len(LinesOf(f))
           last == IF end - pos < MaxLines THEN end ELSE pos + MaxLines
           buffer == IF good THEN RecordsBetween(f, pos, last) ELSE <<>>
           stream == IF good /\ end - pos >= MaxLines THEN [currentIfs[here] EXCEPT !.pos = last]
               ELSE Closed
<1>10. /\ recordsPerFile' = [recordsPerFile EXCEPT ![here] = buffer]
       /\ currentIfs' = [currentIfs EXCEPT ![here] = stream]
  BY <1>a, <1>6 DEF ReadLines, Failed
<1>11. last \in Nat /\ pos <= last /\ last <= end /\ last <= pos + MaxLines /\ end \in Nat
  BY <1>5, <1>7, <1>8
<1>12. /\ buffer \in Seq(Record) /\ InOrder(buffer)
       /\ ToSet(buffer) = {<<f, l>> : l \in {l \in (pos + 1) .. last : IsRecord(<<f, l>>)}}
  <2>1. CASE good
    <3> HIDE DEF last
    <3> QED BY <1>7, <1>11, <2>1, RecordsFacts
  <2>2. CASE ~good
    <3>1. (pos + 1) .. last = {}
      BY <1>5, <1>7, <1>8, <1>9, <2>2
    <3>2. <<>> \in Seq(Record) /\ InOrder(<<>>) /\ ToSet(<<>>) = {}
      BY DEF InOrder, ToSet
    <3> HIDE DEF last
    <3> QED BY <2>2, <3>1, <3>2
  <2> QED BY <1>7, <2>1, <2>2
<1>13. \/ stream = Closed /\ last = end
       \/ stream = [file |-> f, pos |-> last, good |-> TRUE] /\ last % Block = 0
  <2>1. CASE good /\ end - pos >= MaxLines
    <3>1. stream = [file |-> f, pos |-> last, good |-> TRUE]
      <4>1. good = TRUE
        BY <1>7, <2>1
      <4>2. stream = [[file |-> f, pos |-> pos, good |-> TRUE] EXCEPT !.pos = last]
        BY <1>6, <2>1, <4>1
      <4> HIDE DEF last, stream
      <4> QED BY <4>2
    <3>2. last = pos + (Block - 1)
      BY <1>5, <1>7, <1>8, <2>1
    <3>3. (pos + (Block - 1)) % Block = 0
      <4>1. pos % Block = 1
        BY <1>9, <2>1
      <4> QED BY <1>5, <1>7, <4>1, BlockFilled
    <3> QED BY <3>1, <3>2, <3>3
  <2>2. CASE ~(good /\ end - pos >= MaxLines)
    BY <1>5, <1>7, <1>8, <1>9, <2>2
  <2> QED BY <2>1, <2>2
<1> HIDE DEF last, buffer, stream
<1>14. /\ recordsPerFile'[here] = buffer /\ currentIfs'[here] = stream /\ indexOfRecords'[here] = 0
       /\ given'[here] = given[here] /\ indexOfFiles'[here] = f
  BY <1>1, <1>2, <1>7, <1>10 DEF ReaderRight, ReaderTypes
<1>15. ReaderTypes'
  <2>1. recordsPerFile' \in [DOMAIN fromTo -> Seq(Record)]
    BY <1>10, <1>12 DEF ReaderRight, ReaderTypes
  <2>2. currentIfs' \in [DOMAIN fromTo -> Stream]
    <3>1. stream \in Stream
      <4>1. Closed \in Stream /\ [file |-> f, pos |-> last, good |-> TRUE] \in Stream
        BY <1>7, <1>11 DEF Stream, Closed
      <4> QED BY <1>13, <4>1
    <3> QED BY <1>10, <3>1 DEF ReaderRight, ReaderTypes
  <2>3. indexOfRecords' \in [DOMAIN fromTo -> Nat]
    BY <1>2 DEF ReaderRight, ReaderTypes
  <2>4. pc' \in [Threads -> {"next", "record", "titles", "lines", "false", "written", "done"}]
    BY <1>2 DEF ReaderRight, ReaderTypes
  <2> QED BY <1>2, <2>1, <2>2, <2>3, <2>4 DEF ReaderRight, ReaderTypes
<1>16. Passed(here)' = Passed(here) \cup ToSet(buffer)
  <2>1. Promised(here)' = Promised(here)
    BY <1>2, SamePromise
  <2>2. ToSet(buffer) \subseteq Promised(here)
    <3>1. ASSUME NEW l \in (pos + 1) .. last, IsRecord(<<f, l>>) PROVE <<f, l>> \in Promised(here)
      <4>1. l \in DOMAIN LinesOf(f)
        BY <1>7, <1>8, <1>11
      <4>2. good
        BY <1>7, <1>8, <1>9, <1>11
      <4>3. l - pos \in 1 .. Block - 1 /\ pos + (l - pos) = l
        BY <1>5, <1>7, <1>11
      <4>4. l % Block # 1
        <5>1. pos % Block = 1
          BY <1>9, <4>2
        <5>2. (pos + (l - pos)) % Block # 1
          BY <1>5, <1>7, <4>3, <5>1, BlockFilled
        <5> QED BY <4>3, <5>2
      <4> QED BY <1>1, <1>7, <3>1, <4>1, <4>4, PromisedFacts DEF ReaderRight
    <3> QED BY <1>12, <3>1
  <2>3. ASSUME NEW r \in Promised(here)
        PROVE  ~Ahead(Here(here)', r) <=> ~Ahead(<<f, pos>>, r) \/ r \in ToSet(buffer)
    <3>1. r \in Record /\ r = <<r[1], r[2]>> /\ IsRecord(r) /\ r[2] \in DOMAIN LinesOf(r[1])
            /\ Reached(here, r[1])
      BY <1>1, PromisedFacts DEF ReaderRight, Record
    <3>2. r[1] \in Nat /\ r[2] \in Nat /\ r[2] >= 1 /\ r[2] <= Len(LinesOf(r[1]))
      <4>1. LinesOf(r[1]) \in Seq(STRING)
        BY <1>1, <3>1, PromisedFacts DEF ReaderRight
      <4> QED BY <3>1, <4>1 DEF Record
    <3>3. r \in ToSet(buffer) <=> r[1] = f /\ r[2] > pos /\ r[2] <= last
      <4>1. r \in ToSet(buffer) <=> \E l \in (pos + 1) .. last : IsRecord(<<f, l>>) /\ r = <<f, l>>
        BY <1>12
      <4>2. r[2] \in (pos + 1) .. last <=> r[2] > pos /\ r[2] <= last
        BY <1>7, <1>11, <3>2
      <4>3. ASSUME NEW l \in (pos + 1) .. last, r = <<f, l>>
            PROVE  r[1] = f /\ r[2] \in (pos + 1) .. last
        BY <4>3
      <4>4. ASSUME r[1] = f, r[2] \in (pos + 1) .. last PROVE r \in ToSet(buffer)
        <5>1. r = <<f, r[2]>>
          BY <3>1, <4>4
        <5> QED BY <3>1, <4>1, <4>4, <5>1, Zenon
      <4> QED BY <4>1, <4>2, <4>3, <4>4
    <3>4. CASE stream = Closed /\ last = end
      <4>1. Here(here)' = <<f + 1, 0>>
        BY <1>14, <3>4 DEF Here, Closed
      <4> QED BY <1>7, <1>11, <3>2, <3>3, <3>4, <4>1 DEF Ahead
    <3>5. CASE stream = [file |-> f, pos |-> last, good |-> TRUE]
      <4>1. Here(here)' = <<f, last>>
        BY <1>7, <1>14, <3>5 DEF Here
      <4> QED BY <1>7, <1>11, <3>2, <3>3, <4>1 DEF Ahead
    <3> QED BY <1>13, <3>4, <3>5
  <2> QED BY <1>7, <2>1, <2>2, <2>3 DEF Passed
<1>17. Buffered(here) = {} /\ Buffered(here)' = ToSet(buffer)
  <2>1. (indexOfRecords[here] + 1) .. Len(recordsPerFile[here]) = {}
    BY <1>3, <1>4 DEF BehindHeader, Drained
  <2>2. DOMAIN buffer = 1 .. Len(buffer)
    BY <1>12
  <2> QED BY <1>14, <2>1, <2>2 DEF Buffered, ToSet
<1>18. SubsetRight(here)'
  <2>1. ASSUME NEW q \in ToSet(given[here]), NEW r \in ToSet(buffer) PROVE Ahead(q, r)
    <3>1. q \in Passed(here)
      BY <1>4 DEF SubsetRight
    <3>2. q \in Record /\ ~Ahead(<<f, pos>>, q)
      BY <1>1, <1>7, <3>1, PromisedFacts DEF ReaderRight, Passed
    <3>3. PICK l \in Nat : r = <<f, l>> /\ l > pos
      <4>1. PICK l \in (pos + 1) .. last : r = <<f, l>>
        BY <1>12
      <4> QED BY <1>7, <1>11, <4>1
    <3> QED BY <1>7, <3>2, <3>3 DEF Ahead, Record
  <2>2. /\ currentIfs'[here].file # 0 => currentIfs'[here].file = f
        /\ currentIfs'[here].pos <= Len(LinesOf(f))
    BY <1>11, <1>13, <1>14 DEF Closed
  <2>3. Reached(here, f)' /\ LinesOf(f)' = LinesOf(f)
    BY <1>2, <1>7 DEF Reached, LinesOf
  <2>4. f \in fromTo[here][1] .. fromTo[here][2]
    BY <1>4, <1>7 DEF SubsetRight
  <2>5. ToSet(given'[here]) \cup Buffered(here)' = Passed(here)'
    BY <1>4, <1>14, <1>16, <1>17 DEF SubsetRight
  <2> QED BY <1>2, <1>4, <1>12, <1>14, <1>17, <2>1, <2>2, <2>3, <2>4, <2>5 DEF SubsetRight
<1>19. BetweenBlocks(here)'
  BY <1>13, <1>14 DEF BetweenBlocks, Closed
<1>20. ThreadRight(t)'
  <2>1. Shares' = Shares
    BY <1>2, SameShares
  <2>2. AllOpen(here)'
    BY <1>2, <1>4 DEF AllOpen
  <2>3. pc'[t] = "next"
    BY <1>1, <1>2
  <2> QED BY <1>a, <1>1, <1>2, <2>1, <2>2, <2>3 DEF ThreadRight, AtLines
<1>21. \A j \in DOMAIN fromTo : j # here => Rests(j)
  BY <1>2, <1>10 DEF Rests, ReaderRight, ReaderTypes
<1> QED BY <1>a, <1>1, <1>2, <1>15, <1>18, <1>19, <1>20, <1>21, InSubset
           DEF AtEnd, ReaderRight, ReaderTypes

-----------------------------------------------------------------------------
(* What a program does with a record, and between its subsets.             *)

\* So do the programs' own steps, which only move a thread.
LEMMA Moves ==
  ASSUME ReaderRight, NEW t \in Threads, NEW to, pc' = [pc EXCEPT ![t] = to],
         \/ pc[t] = "record" /\ to = "next"
         \/ pc[t] = "false" /\ to = "written" /\ program = "sort",
         UNCHANGED <<files, buffers, titles, thr, given, program, round, started, running, cut>>
  PROVE  ReaderRight'
<1>a. PICK here : here = thr[t]
  OBVIOUS
<1>1. t \in DOMAIN pc /\ ThreadRight(t) /\ here \in DOMAIN fromTo /\ pc'[t] = to
  BY <1>a DEF ReaderRight, ReaderTypes, ThreadRight
<1>2. /\ csvFiles' = csvFiles /\ fromTo' = fromTo
      /\ UNCHANGED <<indexOfFiles, indexOfRecords, recordsPerFile, currentIfs>>
  BY DEF files, buffers
<1>3. \A j : Rests(j)
  BY <1>2 DEF Rests
<1>4. ReaderTypes'
  BY <1>1, <1>2 DEF ReaderRight, ReaderTypes
<1>5. SubsetRight(here)'
  BY <1>1, <1>3, Frame DEF ReaderRight
<1>6. BetweenBlocks(here)'
  <2>1. BetweenBlocks(here)
    BY <1>a, <1>1, Between DEF AtLines
  <2> QED BY <1>3, <2>1, Frame
<1>7. (AllOpen(here)' <=> AllOpen(here)) /\ (Finished(here)' <=> Finished(here))
  BY <1>3, Frame
<1>8. pc[t] = "false" => Finished(here)
  BY <1>a, <1>1 DEF ThreadRight
<1>9. ThreadRight(t)'
  <2>1. Shares' = Shares
    BY <1>2, SameShares
  <2> QED BY <1>a, <1>1, <1>2, <1>7, <2>1 DEF ThreadRight, AtLines
<1>10. AtEnd(t)' => Finished(here)'
  BY <1>1, <1>7, <1>8 DEF AtEnd
<1> QED BY <1>a, <1>1, <1>3, <1>4, <1>5, <1>6, <1>9, <1>10, InSubset DEF ReaderRight, ReaderTypes

\* A thread of multi_test that gives up keeps the invariant.
LEMMA GivesUpRight ==
  ASSUME ReaderRight, NEW t \in Threads, GivesUp(t)
  PROVE  ReaderRight'
<1>a. PICK here : here = thr[t]
  OBVIOUS
<1>1. t \in DOMAIN pc /\ pc[t] \in {"next", "record"} /\ pc' = [pc EXCEPT ![t] = "done"]
        /\ pc'[t] = "done"
  BY DEF GivesUp, AtRecord, AtNext, Goes, ReaderRight, ReaderTypes
<1>2. /\ UNCHANGED <<files, program, round, started, running>>
      /\ csvFiles' = csvFiles /\ fromTo' = fromTo /\ cut' = TRUE
      /\ UNCHANGED <<indexOfFiles, indexOfRecords, recordsPerFile, currentIfs, titles, thr, given>>
  BY DEF GivesUp, files, buffers, shared
<1>3. \A j : Rests(j)
  BY <1>2 DEF Rests
<1>4. ReaderTypes'
  BY <1>1, <1>2 DEF ReaderRight, ReaderTypes
<1>5. here \in DOMAIN fromTo => SubsetRight(here)' /\ BetweenBlocks(here)'
  <2>1. here \in DOMAIN fromTo => SubsetRight(here) /\ BetweenBlocks(here)
    BY <1>a, <1>1, Between DEF AtLines, ReaderRight
  <2> QED BY <1>2, <1>3, <2>1, Frame
<1>6. Shares' = Shares /\ started
  BY <1>1, <1>2, SameShares, InShare
<1>7. ThreadRight(t)'
  BY <1>1 DEF ThreadRight, AtLines
<1>8. ShareRight(t)'
  <2>1. \A j : Fresh(j)' <=> Fresh(j)
    BY <1>2, <1>3, Frame
  <2>2. ShareRight(t)
    BY <1>6 DEF ReaderRight
  <2> HIDE DEF Shares, Fresh, Finished
  <2> QED BY <1>2, <1>6, <2>1, <2>2 DEF ShareRight
<1> QED BY <1>a, <1>1, <1>2, <1>3, <1>4, <1>5, <1>6, <1>7, <1>8, OneThread
           DEF AtLines, ReaderRight, ReaderTypes

\* A thread that goes to its next subset keeps the invariant.
LEMMA NextSubsetRight ==
  ASSUME ReaderRight, NEW t \in Threads, NextSubset(t)
  PROVE  ReaderRight'
<1>a. PICK here : here = thr[t]
  OBVIOUS
<1>1. t \in DOMAIN pc /\ pc[t] \in {"false", "written"} /\ thr \in [Threads -> Nat] /\ here \in Nat
  BY <1>a DEF NextSubset, ReaderRight, ReaderTypes
<1>2. /\ UNCHANGED <<files, program, round, started, running, cut>>
      /\ csvFiles' = csvFiles /\ fromTo' = fromTo
      /\ UNCHANGED <<indexOfFiles, indexOfRecords, recordsPerFile, currentIfs, titles, given>>
  BY DEF NextSubset, files, buffers, shared
<1>3. \A j : Rests(j)
  BY <1>2 DEF Rests
<1>4. /\ started /\ here \in Shares[t][1] .. Shares[t][2] /\ here \in Nat \ {0} /\ ThreadRight(t)
           /\ ShareRight(t)
      /\ Shares[t][1] \in Nat /\ Shares[t][2] \in Nat
  BY <1>a, <1>1, InShare, SharesFacts DEF ReaderRight, ReaderTypes
<1>5. here \in DOMAIN fromTo
  BY <1>a, <1>1, <1>4 DEF ThreadRight
<1>6. \/ here < Shares[t][2] /\ pc' = [pc EXCEPT ![t] = "next"] /\ thr' = [thr EXCEPT ![t] = here + 1]
      \/ here = Shares[t][2] /\ pc' = [pc EXCEPT ![t] = "done"] /\ thr' = thr
  <2>1. here <= Shares[t][2]
    BY <1>4
  <2> HIDE DEF Shares
  <2> QED BY <1>a, <1>1, <1>4, <2>1 DEF NextSubset, Goes
<1>7. ReaderTypes'
  <2>1. pc' \in [Threads -> {"next", "record", "titles", "lines", "false", "written", "done"}]
    BY <1>6 DEF ReaderRight, ReaderTypes
  <2>2. thr' \in [Threads -> Nat]
    BY <1>1, <1>6
  <2> QED BY <1>2, <2>1, <2>2 DEF ReaderRight, ReaderTypes
<1>8. SubsetRight(here)' /\ BetweenBlocks(here)'
  <2>1. SubsetRight(here) /\ BetweenBlocks(here)
    BY <1>a, <1>1, <1>5, Between DEF AtLines, ReaderRight
  <2> QED BY <1>2, <1>3, <2>1, Frame
<1>9. Shares' = Shares
  BY <1>2, SameShares
<1>10. \A j : (Fresh(j)' <=> Fresh(j)) /\ (Finished(j)' <=> Finished(j))
  BY <1>2, <1>3, Frame
<1>11. \A j \in Shares[t][1] .. Shares[t][2] : (j < here \/ j <= here) /\ ~cut => Finished(j)
  BY <1>a, <1>1, <1>4 DEF ShareRight, AtEnd
<1>12. CASE here < Shares[t][2] /\ pc' = [pc EXCEPT ![t] = "next"]
              /\ thr' = [thr EXCEPT ![t] = here + 1]
  <2>1. pc'[t] = "next" /\ thr'[t] = here + 1
    BY <1>1, <1>12
  <2>2. here + 1 \in DOMAIN fromTo => AllOpen(here + 1)'
    <3> SUFFICES ASSUME here + 1 \in DOMAIN fromTo PROVE AllOpen(here + 1)'
      OBVIOUS
    <3>1. here + 1 \in Shares[t][1] .. Shares[t][2] /\ here < here + 1
      BY <1>4, <1>12
    <3>2. Fresh(here + 1)
      BY <1>a, <1>4, <3>1 DEF ShareRight
    <3>3. fromTo[here + 1][1] \in Nat
      BY DEF ReaderRight, ReaderTypes
    <3> QED BY <1>2, <3>2, <3>3 DEF Fresh, AllOpen
  <2>3. ThreadRight(t)'
    <3>1. here + 1 \in Shares[t][1] .. Shares[t][2]
      BY <1>4, <1>12
    <3> QED BY <1>2, <1>4, <1>9, <2>1, <2>2, <3>1 DEF ThreadRight, AtLines
  <2>4. ShareRight(t)'
    <3>1. \A j \in DOMAIN fromTo : j \in Shares[t][1] .. Shares[t][2] /\ here + 1 < j => Fresh(j)'
      BY <1>a, <1>1, <1>4, <1>10 DEF ShareRight
    <3>2. \A j \in Shares[t][1] .. Shares[t][2] : j < here + 1 /\ ~cut => Finished(j)'
      BY <1>1, <1>4, <1>10, <1>11
    <3>3. ~AtEnd(t)' /\ pc'[t] # "done"
      BY <2>1 DEF AtEnd
    <3> HIDE DEF Shares, Fresh, Finished
    <3> QED BY <1>2, <1>9, <2>1, <3>1, <3>2, <3>3 DEF ShareRight
  <2>5. ~AtLines(t)' /\ \A u \in Threads : u # t => pc'[u] = pc[u] /\ thr'[u] = thr[u]
    BY <1>12, <2>1 DEF AtLines, ReaderRight, ReaderTypes
  <2> QED BY <1>a, <1>1, <1>2, <1>3, <1>4, <1>7, <1>8, <2>3, <2>4, <2>5, OneThread
             DEF ReaderRight, RoundRight
<1>13. CASE here = Shares[t][2] /\ pc' = [pc EXCEPT ![t] = "done"] /\ thr' = thr
  <2>1. pc'[t] = "done" /\ thr'[t] = here
    BY <1>a, <1>1, <1>13
  <2>2. ThreadRight(t)'
    BY <2>1 DEF ThreadRight, AtLines
  <2>3. ShareRight(t)'
    <3>1. \A j \in DOMAIN fromTo : j \in Shares[t][1] .. Shares[t][2] /\ here < j => Fresh(j)'
      BY <1>a, <1>1, <1>4, <1>10 DEF ShareRight
    <3>2. \A j \in Shares[t][1] .. Shares[t][2] : (j < here \/ j <= here) /\ ~cut => Finished(j)'
      BY <1>10, <1>11
    <3> HIDE DEF Shares, Fresh, Finished
    <3> QED BY <1>2, <1>9, <1>13, <2>1, <3>1, <3>2 DEF ShareRight
  <2>4. ~AtLines(t)' /\ \A u \in Threads : u # t => pc'[u] = pc[u] /\ thr'[u] = thr[u]
    BY <1>13, <2>1 DEF AtLines, ReaderRight, ReaderTypes
  <2> QED BY <1>a, <1>1, <1>2, <1>3, <1>4, <1>7, <1>8, <2>2, <2>3, <2>4, OneThread
             DEF ReaderRight, RoundRight
<1> QED BY <1>6, <1>12, <1>13

-----------------------------------------------------------------------------
(* The main thread, and every step.                                        *)

\* The invariant holds before the first round.
LEMMA InitRight == Init => ReaderRight
<1> SUFFICES ASSUME Init PROVE ReaderRight
  OBVIOUS
<1>1. /\ csvFiles \in Directories /\ fromTo = <<>>
      /\ indexOfFiles = <<>> /\ indexOfRecords = <<>> /\ recordsPerFile = <<>> /\ currentIfs = <<>>
      /\ titles = 0 /\ pc = [t \in Threads |-> "done"] /\ thr = [t \in Threads |-> 0] /\ given = <<>>
      /\ program \in Programs /\ round = 1 /\ started = FALSE /\ running = TRUE /\ cut = FALSE
  BY DEF Init, ReaderInit
<1>2. csvFiles \in Seq(CsvFile)
  BY <1>1, CSVAssumption DEF CsvFile
<1>3. \A S : <<>> \in [DOMAIN fromTo -> S] /\ DOMAIN fromTo = {}
  BY <1>1
<1>4. ReaderTypes
  BY <1>1, <1>2, <1>3 DEF ReaderTypes
<1>5. RoundRight
  <2>1. /\ ~started /\ started \in BOOLEAN /\ running \in BOOLEAN /\ cut \in BOOLEAN
        /\ \A t \in Threads : pc[t] = "done"
    BY <1>1
  <2>2. round \in Nat \ {0} /\ ~(round > 1)
    BY <1>1
  <2> QED BY <1>1, <2>1, <2>2 DEF RoundRight
<1>6. \A t \in Threads : ThreadRight(t)
  BY <1>1 DEF ThreadRight, AtLines
<1> QED BY <1>1, <1>3, <1>4, <1>5, <1>6 DEF ReaderRight

\* What split leaves behind.
LEMMA FreshRight ==
  ReaderTypes => \A i \in DOMAIN fromTo : Fresh(i) => SubsetRight(i) /\ BetweenBlocks(i) /\ AllOpen(i)
<1> SUFFICES ASSUME ReaderTypes, NEW i \in DOMAIN fromTo, Fresh(i)
             PROVE  SubsetRight(i) /\ BetweenBlocks(i) /\ AllOpen(i)
  OBVIOUS
<1>1. fromTo[i][1] \in Nat /\ fromTo[i][2] \in Nat /\ fromTo[i][1] <= fromTo[i][2]
  BY DEF ReaderTypes
<1>2. Buffered(i) = {} /\ ToSet(given[i]) = {}
  BY DEF Fresh, Buffered, ToSet
<1>3. Passed(i) = {}
  <2>1. Here(i) = <<fromTo[i][1] + 1, 0>>
    BY DEF Fresh, Here, Closed
  <2>2. ASSUME NEW r \in Promised(i) PROVE Ahead(Here(i), r)
    <3>1. r \in Record /\ r = <<r[1], r[2]>>
      BY PromisedFacts DEF Record
    <3>2. r[1] >= fromTo[i][1] + 1 /\ r[2] \in DOMAIN LinesOf(r[1]) /\ LinesOf(r[1]) \in Seq(STRING)
      BY <1>1, <3>1, PromisedFacts
    <3>3. r[2] >= 1
      BY <3>2
    <3> QED BY <1>1, <2>1, <3>1, <3>2, <3>3 DEF Ahead, Record
  <2> QED BY <2>2 DEF Passed
<1>4. InOrder(<<>>)
  BY DEF InOrder
<1> QED BY <1>1, <1>2, <1>3, <1>4 DEF Fresh, SubsetRight, BetweenBlocks, AllOpen, Closed

\* The same after a step.
LEMMA FreshRightNext ==
  (ReaderTypes => \A i \in DOMAIN fromTo : Fresh(i)
      => SubsetRight(i) /\ BetweenBlocks(i) /\ AllOpen(i))'
BY FreshRight, PTL

\* split and the start of the threads make the invariant true again.
LEMMA Starts ==
  ASSUME ReaderRight, StartRound
  PROVE  ReaderRight'
<1>1. /\ started' = TRUE /\ cut' = FALSE /\ csvFiles' = csvFiles /\ titles' = titles
      /\ UNCHANGED <<program, round, running>>
      /\ thr' = [t \in Threads |-> Shares[t][1]]
      /\ pc' = [t \in Threads |-> IF Shares[t][1] <= Shares[t][2] THEN "next" ELSE "done"]
  BY DEF StartRound, Split, files, shared
<1>2. csvFiles \in Seq(CsvFile) /\ Len(csvFiles) \in Nat
  BY DEF ReaderRight, ReaderTypes
<1>3. Shares' = Shares /\ Pieces' = Pieces /\ Rounds' = Rounds /\ Subsets' = Subsets
        /\ Ranges(Pieces)' = Ranges(Pieces)
  BY <1>1, SameShares DEF Subsets
<1>4. \A t \in Threads : Shares[t][1] \in Nat \ {0} /\ Shares[t][2] \in Nat
  BY <1>2, SharesFacts
<1>5. Pieces \in Nat
  BY <1>2 DEF Pieces
<1>6. \/ Split(Pieces) /\ Pieces \in 1 .. Len(csvFiles)
      \/ Pieces > Len(csvFiles) /\ UNCHANGED <<files, buffers, given>> /\ fromTo = <<>>
  BY DEF StartRound, Split, ReaderRight, RoundRight
<1>7. /\ fromTo' \in Seq(Nat \X Nat)
      /\ \A i \in DOMAIN fromTo' : fromTo'[i][1] <= fromTo'[i][2] /\ fromTo'[i][2] <= Len(csvFiles)
      /\ Pieces > Len(csvFiles) => fromTo' = <<>>
      /\ Pieces \in 1 .. Len(csvFiles) =>
           /\ Len(Ranges(Pieces)) <= Len(fromTo')
           /\ \A k \in Subsets : fromTo'[k] = Ranges(Pieces)[k]
  <2>1. CASE Split(Pieces) /\ Pieces \in 1 .. Len(csvFiles)
    <3>1. fromTo' = fromTo \o Ranges(Pieces)
      BY <2>1 DEF Split
    <3>2. PICK old, new : old = fromTo /\ new = Ranges(Pieces)
      OBVIOUS
    <3>3. /\ old \in Seq(Nat \X Nat) /\ new \in Seq(Nat \X Nat)
          /\ \A i \in DOMAIN old : old[i][1] <= old[i][2] /\ old[i][2] <= Len(csvFiles)
          /\ \A i \in DOMAIN new : new[i][1] <= new[i][2] /\ new[i][2] <= Len(csvFiles)
      <4>1. /\ old \in Seq(Nat \X Nat)
            /\ \A i \in DOMAIN old : old[i][1] <= old[i][2] /\ old[i][2] <= Len(csvFiles)
        BY <3>2 DEF ReaderRight, ReaderTypes
      <4>2. PICK s \in Nat \ {0} : s = Pieces
        BY <1>2, <2>1
      <4>3. new = Ranges(s)
        BY <3>2, <4>2
      <4>4. /\ new \in Seq(Nat \X Nat)
            /\ \A i \in DOMAIN new : new[i][1] <= new[i][2] /\ new[i][2] <= Len(csvFiles)
        BY <1>2, <4>3, RangesFacts
      <4> QED BY <4>1, <4>4
    <3>4. /\ old \o new \in Seq(Nat \X Nat) /\ Len(old \o new) = Len(old) + Len(new)
          /\ DOMAIN (old \o new) = 1 .. (Len(old) + Len(new))
          /\ \A i \in DOMAIN old : (old \o new)[i] = old[i]
          /\ \A i \in 1 .. (Len(old) + Len(new)) : i \notin DOMAIN old =>
               (old \o new)[i] = new[i - Len(old)] /\ i - Len(old) \in DOMAIN new
      BY <3>3
    <3>5. \A i \in DOMAIN (old \o new) :
            (old \o new)[i][1] <= (old \o new)[i][2] /\ (old \o new)[i][2] <= Len(csvFiles)
      BY <3>3, <3>4
    <3>6. CASE round = 1
      <4>1. old = <<>>
        BY <3>2, <3>6 DEF StartRound, ReaderRight, RoundRight
      <4>2. old \o new = new
        BY <3>3, <4>1
      <4> QED BY <2>1, <3>1, <3>2, <3>4, <3>5, <4>2 DEF Subsets
    <3>7. CASE round # 1
      <4>1. Len(new) <= Len(old) /\ \A k \in Subsets : old[k] = new[k]
        BY <2>1, <3>2, <3>7 DEF ReaderRight, RoundRight
      <4>2. Subsets \subseteq DOMAIN old
        BY <3>2, <3>3, <4>1 DEF Subsets
      <4>3. Len(old) \in Nat /\ Len(new) \in Nat /\ Len(new) <= Len(old \o new)
        BY <3>3, <3>4
      <4>4. \A k \in Subsets : (old \o new)[k] = new[k]
        BY <3>4, <4>1, <4>2
      <4>5. fromTo' = old \o new /\ ~(Pieces > Len(csvFiles))
        BY <1>2, <2>1, <3>1, <3>2
      <4> QED BY <3>2, <3>4, <3>5, <4>3, <4>4, <4>5
    <3> QED BY <3>6, <3>7
  <2>2. CASE Pieces > Len(csvFiles) /\ UNCHANGED <<files, buffers, given>> /\ fromTo = <<>>
    <3>1. fromTo' = <<>>
      BY <2>2 DEF files
    <3> QED BY <1>2, <1>5, <2>2, <3>1
  <2> QED BY <1>6, <2>1, <2>2
<1>8. /\ DOMAIN indexOfFiles' = DOMAIN fromTo' /\ DOMAIN indexOfRecords' = DOMAIN fromTo'
      /\ DOMAIN recordsPerFile' = DOMAIN fromTo' /\ DOMAIN currentIfs' = DOMAIN fromTo'
           /\ DOMAIN given' = DOMAIN fromTo'
      /\ indexOfFiles' = [i \in DOMAIN fromTo' |-> indexOfFiles'[i]]
      /\ indexOfRecords' = [i \in DOMAIN fromTo' |-> indexOfRecords'[i]]
      /\ recordsPerFile' = [i \in DOMAIN fromTo' |-> recordsPerFile'[i]]
      /\ currentIfs' = [i \in DOMAIN fromTo' |-> currentIfs'[i]]
      /\ given' = [i \in DOMAIN fromTo' |-> given'[i]]
      /\ \A i \in DOMAIN fromTo' : Fresh(i)'
  <2>1. CASE Split(Pieces)
    BY <2>1 DEF Split, Fresh, NewStream, Closed
  <2>2. CASE UNCHANGED <<files, buffers, given>> /\ fromTo = <<>>
    BY <2>2 DEF files, buffers, ReaderRight, ReaderTypes
  <2> QED BY <1>6, <2>1, <2>2
<1>9. ReaderTypes'
  <2>1. ASSUME NEW i \in DOMAIN fromTo'
        PROVE  /\ indexOfFiles'[i] \in Nat /\ indexOfRecords'[i] \in Nat
                 /\ recordsPerFile'[i] \in Seq(Record)
               /\ currentIfs'[i] \in Stream /\ given'[i] \in Seq(Record)
    <3>1. fromTo'[i][1] \in Nat
      BY <1>7
    <3>2. Closed \in Stream /\ <<>> \in Seq(Record)
      BY DEF Closed, Stream
    <3>3. /\ currentIfs'[i] = Closed /\ indexOfFiles'[i] = fromTo'[i][1]
          /\ recordsPerFile'[i] = <<>> /\ indexOfRecords'[i] = 0 /\ given'[i] = <<>>
      BY <1>8 DEF Fresh, Closed
    <3> QED BY <3>1, <3>2, <3>3
  <2>2. /\ indexOfFiles' \in [DOMAIN fromTo' -> Nat] /\ indexOfRecords' \in [DOMAIN fromTo' -> Nat]
        /\ recordsPerFile' \in [DOMAIN fromTo' -> Seq(Record)]
        /\ currentIfs' \in [DOMAIN fromTo' -> Stream] /\ given' \in [DOMAIN fromTo' -> Seq(Record)]
    BY <1>8, <2>1
  <2>3. /\ pc' \in [Threads -> {"next", "record", "titles", "lines", "false", "written", "done"}]
        /\ thr' \in [Threads -> Nat]
    BY <1>1, <1>4
  <2>4. titles' \in Nat
    BY <1>1 DEF ReaderRight, ReaderTypes
  <2> QED BY <1>1, <1>2, <1>7, <2>2, <2>3, <2>4 DEF ReaderTypes
<1>10. RoundRight'
  <2>1. round <= Rounds /\ Pieces > 0 /\ round \in Nat \ {0} /\ program \in Programs
          /\ running \in BOOLEAN
    BY <1>2, <1>5, <1>6 DEF StartRound, Over, Rounds, ReaderRight, RoundRight
  <2> QED BY <1>1, <1>3, <1>7, <2>1 DEF RoundRight
<1>11. \A i \in DOMAIN fromTo' : SubsetRight(i)' /\ BetweenBlocks(i)' /\ AllOpen(i)'
  BY <1>8, <1>9, FreshRightNext
<1>12. ASSUME NEW t \in Threads PROVE ThreadRight(t)' /\ ShareRight(t)'
  <2>1. thr'[t] = Shares[t][1] /\ pc'[t] = IF Shares[t][1] <= Shares[t][2] THEN "next" ELSE "done"
    BY <1>1
  <2>2. Shares[t][1] \in Nat /\ Shares[t][2] \in Nat
    BY <1>4
  <2> HIDE DEF Shares
  <2>3. ThreadRight(t)'
    BY <1>1, <1>3, <1>11, <2>1, <2>2 DEF ThreadRight, AtLines
  <2>4. ShareRight(t)'
    BY <1>3, <1>8, <2>1, <2>2 DEF ShareRight, AtEnd
  <2> QED BY <2>3, <2>4
<1> QED BY <1>9, <1>10, <1>11, <1>12 DEF ReaderRight

\* The joins keep the invariant.
LEMMA Ends ==
  ASSUME ReaderRight, EndRound
  PROVE  ReaderRight'
<1>1. /\ UNCHANGED reader /\ UNCHANGED <<program, running, cut>> /\ started /\ started' = FALSE
      /\ round' = IF cut /\ round = 1 THEN Rounds + 1 ELSE round + 1
      /\ \A t \in Threads : pc[t] = "done"
  BY DEF EndRound
<1>2. /\ UNCHANGED <<csvFiles, fromTo, indexOfFiles, indexOfRecords, recordsPerFile, currentIfs,
           titles, pc, thr, given>>
      /\ UNCHANGED files
  BY <1>1 DEF reader, files
<1>3. \A j : Rests(j)
  BY <1>2 DEF Rests
<1>4. Pieces' = Pieces /\ Subsets' = Subsets /\ Ranges(Pieces)' = Ranges(Pieces)
  BY <1>1, <1>2 DEF Pieces, Subsets, Ranges, Share
<1>5. ReaderTypes'
  BY <1>2 DEF ReaderRight, ReaderTypes
<1>6. round' \in Nat \ {0} /\ round' > 1
  BY <1>1 DEF ReaderRight, RoundRight, Rounds
<1>7. RoundRight'
  <2>1. /\ ~started' /\ started' \in BOOLEAN /\ round' # 1
        /\ \A t \in Threads : pc'[t] = "done"
    <3>1. ~started' /\ started' \in BOOLEAN
      BY <1>1
    <3>2. round' # 1
      BY <1>6
    <3> QED BY <1>1, <1>2, <3>1, <3>2
  <2>2. RoundRight /\ started /\ csvFiles' = csvFiles /\ fromTo' = fromTo
    BY <1>1, <1>2 DEF ReaderRight
  <2>3. cut' \in BOOLEAN /\ running' \in BOOLEAN /\ program' \in Programs /\ round' \in Nat \ {0}
    BY <1>1, <1>6, <2>2 DEF RoundRight
  <2>4. Pieces \in 1 .. Len(csvFiles) => /\ Len(Ranges(Pieces)) <= Len(fromTo)
                                        /\ \A k \in Subsets : fromTo[k] = Ranges(Pieces)[k]
    BY <2>2 DEF RoundRight
  <2>5. Pieces > Len(csvFiles) => fromTo = <<>>
    BY <2>2 DEF RoundRight
  <2> HIDE DEF Pieces, Subsets
  <2> QED BY <1>4, <2>1, <2>2, <2>3, <2>4, <2>5 DEF RoundRight
<1>8. \A t \in Threads : ThreadRight(t)'
  BY <1>1, <1>2 DEF ThreadRight, AtLines
<1>9. \A i \in DOMAIN fromTo : SubsetRight(i)' /\ BetweenBlocks(i)'
  BY <1>1, <1>2, <1>3, Frame DEF ReaderRight, AtLines
<1> QED BY <1>1, <1>2, <1>5, <1>7, <1>8, <1>9 DEF ReaderRight

\* Neither running nor output is of concern to the reader.
LEMMA Elsewhere ==
  ASSUME ReaderRight, UNCHANGED <<reader, program, round, started, cut>>, running' \in BOOLEAN
  PROVE  ReaderRight'
<1>1. /\ UNCHANGED <<csvFiles, fromTo, indexOfFiles, indexOfRecords, recordsPerFile, currentIfs,
           titles, pc, thr, given>>
      /\ UNCHANGED files /\ UNCHANGED <<program, round, started, cut>>
  BY DEF reader, files
<1>2. \A j : Rests(j)
  BY <1>1 DEF Rests
<1>3. Shares' = Shares /\ Pieces' = Pieces /\ Rounds' = Rounds /\ Subsets' = Subsets
        /\ Ranges(Pieces)' = Ranges(Pieces)
  BY <1>1, SameShares DEF Subsets
<1>4. ReaderTypes'
  BY <1>1 DEF ReaderRight, ReaderTypes
<1>5. RoundRight'
  BY <1>1, <1>3 DEF ReaderRight, RoundRight
<1>6. \A j : /\ (SubsetRight(j)' <=> SubsetRight(j)) /\ (BetweenBlocks(j)' <=> BetweenBlocks(j))
             /\ (BehindHeader(j)' <=> BehindHeader(j)) /\ (Fresh(j)' <=> Fresh(j))
             /\ (Finished(j)' <=> Finished(j)) /\ (AllOpen(j)' <=> AllOpen(j))
  BY <1>1, <1>2, Frame
<1>7. ASSUME NEW t \in Threads PROVE ThreadRight(t)' /\ (started => ShareRight(t)')
  <2>1. ThreadRight(t) /\ (started => ShareRight(t)) /\ pc'[t] = pc[t] /\ thr'[t] = thr[t]
    BY <1>1 DEF ReaderRight
  <2>2. ThreadRight(t)'
    BY <1>1, <1>3, <1>6, <2>1 DEF ThreadRight, AtLines
  <2> HIDE DEF Shares, Fresh, Finished
  <2>3. started => ShareRight(t)'
    BY <1>1, <1>3, <1>6, <2>1 DEF ShareRight, AtEnd
  <2> QED BY <2>2, <2>3
<1>8. \A i \in DOMAIN fromTo : SubsetRight(i)'
        /\ ((\A t \in Threads : ~(AtLines(t)' /\ thr'[t] = i)) => BetweenBlocks(i)')
  BY <1>1, <1>6 DEF ReaderRight, AtLines
<1> QED BY <1>1, <1>4, <1>5, <1>7, <1>8 DEF ReaderRight

\* Every step keeps the invariant.
LEMMA StepRight == ReaderRight /\ [Next]_vars => ReaderRight'
<1> SUFFICES ASSUME ReaderRight, [Next]_vars PROVE ReaderRight'
  OBVIOUS
<1>1. CASE StartRound
  BY <1>1, Starts
<1>2. CASE EndRound
  BY <1>2, Ends
<1>3. CASE DividesByZero \/ Crash
  BY <1>3, Elsewhere DEF DividesByZero, Crash
<1>4. CASE UNCHANGED vars
  <2>1. UNCHANGED <<reader, program, round, started, cut>> /\ running' = running
    BY <1>4 DEF vars, reader
  <2> QED BY <2>1, Elsewhere DEF ReaderRight, RoundRight
<1>5. ASSUME NEW t \in Threads, Thread(t) PROVE ReaderRight'
  <2>1. CASE Reads(t)
    <3>1. UNCHANGED <<program, round, started, running, cut>>
      BY <2>1 DEF Reads
    <3> QED BY <2>1, <3>1, TakesRecord, FailsNext, OpensNext, SetsTitles, LinesRead DEF Reads
  <2>2. CASE UseRecord(t) \/ Extract(t) \/ ArrangePasses(t) \/ Arrange(t)
    <3>1. /\ pc[t] = "record" /\ pc' = [pc EXCEPT ![t] = "next"]
          /\ UNCHANGED <<files, buffers, titles, thr, given, program, round, started, running, cut>>
      BY <2>2 DEF UseRecord, Extract, ArrangePasses, Arrange, AtRecord, Goes, shared
    <3> QED BY <3>1, Moves
  <2>3. CASE SortWrites(t)
    <3>1. /\ pc[t] = "false" /\ program = "sort" /\ pc' = [pc EXCEPT ![t] = "written"]
          /\ UNCHANGED <<files, buffers, titles, thr, given, program, round, started, running, cut>>
      BY <2>3 DEF SortWrites, Goes, shared
    <3> QED BY <3>1, Moves
  <2>4. CASE GivesUp(t)
    BY <2>4, GivesUpRight
  <2>5. CASE NextSubset(t)
    BY <2>5, NextSubsetRight
  <2> QED BY <1>5, <2>1, <2>2, <2>3, <2>4, <2>5 DEF Thread
<1> QED BY <1>1, <1>2, <1>3, <1>4, <1>5 DEF Next, Main

-----------------------------------------------------------------------------
(* The theorems about reading.                                             *)

\* Thus the reader is right in every state.
THEOREM ReaderIsRight == Spec => []ReaderRight
BY InitRight, StepRight, PTL DEF Spec

\* The invariant implies that the records are given in order and without a gap.
LEMMA RightReads == ReaderRight => ReadInOrder
<1> SUFFICES ASSUME ReaderRight PROVE ReadInOrder
  OBVIOUS
<1>1. ASSUME NEW i \in DOMAIN given
      PROVE  /\ InOrder(given[i])
             /\ ToSet(given[i]) \subseteq Promised(i)
             /\ \A r \in ToSet(given[i]), q \in Promised(i) : Ahead(q, r) => q \in ToSet(given[i])
  <2>1. i \in DOMAIN fromTo /\ SubsetRight(i)
    BY DEF ReaderRight, ReaderTypes
  <2>2. InOrder(given[i]) /\ ToSet(given[i]) \subseteq Promised(i)
    BY <2>1 DEF SubsetRight, Passed
  <2>3. ASSUME NEW r \in ToSet(given[i]), NEW q \in Promised(i), Ahead(q, r)
        PROVE  q \in ToSet(given[i])
    <3>1. Here(i) \in Record
      BY <2>1 DEF Here, Record, ReaderRight, ReaderTypes, Stream
    <3>2. q \in Record /\ r \in Record
      BY <2>1, <2>2, PromisedFacts DEF ReaderRight
    <3>3. ~Ahead(Here(i), r)
      BY <2>1 DEF SubsetRight, Passed
    <3>4. q \in Passed(i)
      BY <2>3, <3>1, <3>2, <3>3, Trans DEF Passed
    <3>5. q \notin Buffered(i)
      BY <2>1, <2>3, <3>2, Trans DEF SubsetRight
    <3> QED BY <2>1, <3>4, <3>5 DEF SubsetRight
  <2> QED BY <2>2, <2>3
<1>2. \A t \in Threads : pc[t] = "false" => ToSet(given[thr[t]]) = Promised(thr[t])
  BY DEF ReaderRight, ThreadRight, Finished
<1> QED BY <1>1, <1>2 DEF ReadInOrder

\* next_record gives the records of a subset in order, once each and without a gap,
\* and returns false when there are no more, whatever the directory, the length of the
\* buffer, the batch and the program: also after a round in which threads gave up.
THEOREM ReadingInOrder == Spec => []ReadInOrder
BY ReaderIsRight, RightReads, PTL

\* The invariant implies that a round that ends has read the whole directory.
LEMMA RightWhole == ReaderRight => WholeDirectory
<1> SUFFICES ASSUME ReaderRight, started, SharedOut = Subsets, ~cut,
                    \A t \in Threads : pc[t] = "done",
                    \A f \in DOMAIN csvFiles : csvFiles[f].opens
             PROVE  /\ \A i \in Subsets : InOrder(given[i])
                    /\ \A i, j \in Subsets : i < j =>
                         \A q \in ToSet(given[i]), r \in ToSet(given[j]) : Ahead(q, r)
                    /\ UNION {ToSet(given[i]) : i \in Subsets}
                         = UNION {Kept(f) : f \in DOMAIN csvFiles}
  BY DEF WholeDirectory
<1>1. ASSUME NEW i \in Subsets PROVE Finished(i)
  <2>1. PICK t \in Threads : i \in Shares[t][1] .. Shares[t][2]
    BY DEF SharedOut
  <2>2. ShareRight(t) /\ Shares[t][1] \in Nat /\ Shares[t][2] \in Nat
    BY SharesFacts DEF ReaderRight, ReaderTypes
  <2>3. i <= Shares[t][2] /\ Shares[t][1] <= Shares[t][2]
    BY <2>1, <2>2
  <2>4. i <= thr[t] /\ AtEnd(t)
    BY <2>2, <2>3 DEF ShareRight, AtEnd
  <2> HIDE DEF Shares
  <2> QED BY <2>1, <2>2, <2>4 DEF ShareRight
<1>2. csvFiles \in Seq(CsvFile) /\ Pieces \in Nat \ {0}
  BY DEF ReaderRight, ReaderTypes, RoundRight, Pieces
<1>3. PICK all : all = Ranges(Pieces)
  OBVIOUS
<1>4. /\ all \in Seq(Nat \X Nat) /\ all # <<>>
      /\ \A k \in DOMAIN all : all[k][1] <= all[k][2] /\ all[k][2] <= Len(csvFiles)
      /\ \A j, k \in DOMAIN all : j < k => all[j][2] <= all[k][1]
      /\ UNION {(all[k][1] + 1) .. all[k][2] : k \in DOMAIN all} = 1 .. Len(csvFiles)
  <2>1. PICK s \in Nat \ {0} : s = Pieces
    BY <1>2
  <2>2. all = Ranges(s)
    BY <1>3, <2>1
  <2> QED BY <1>2, <2>2, RangesFacts
<1>5. Subsets = DOMAIN all /\ 1 \in Subsets
  BY <1>3, <1>4 DEF Subsets
<1>6. \A k \in Subsets : k \in DOMAIN fromTo /\ fromTo[k] = all[k]
  <2>1. \A k \in Subsets : k \in DOMAIN fromTo
    BY <1>1 DEF Finished
  <2>2. fromTo # <<>>
    BY <1>5, <2>1
  <2>3. Pieces \in 1 .. Len(csvFiles)
    BY <1>2, <2>2 DEF ReaderRight, RoundRight
  <2> QED BY <1>3, <2>1, <2>3 DEF ReaderRight, RoundRight
<1>7. ASSUME NEW i \in Subsets
      PROVE  /\ InOrder(given[i])
             /\ ToSet(given[i]) = UNION {Kept(f) : f \in (all[i][1] + 1) .. all[i][2]}
             /\ \A r \in ToSet(given[i]) : r \in Record /\ r[1] \in (all[i][1] + 1) .. all[i][2]
  <2>1. i \in DOMAIN fromTo /\ fromTo[i] = all[i] /\ Finished(i) /\ SubsetRight(i)
    BY <1>1, <1>6 DEF ReaderRight
  <2>2. fromTo[i][1] \in Nat /\ fromTo[i][2] \in Nat /\ fromTo[i][2] <= Len(csvFiles)
          /\ Len(csvFiles) \in Nat
    BY <2>1 DEF ReaderRight, ReaderTypes
  <2>3. ASSUME NEW f \in (fromTo[i][1] + 1) .. fromTo[i][2] PROVE Reached(i, f)
    <3>1. \A g \in (fromTo[i][1] + 1) .. f : g \in DOMAIN csvFiles
      BY <1>2, <2>2
    <3> QED BY <3>1 DEF Reached
  <2>4. Promised(i) = UNION {Kept(f) : f \in (fromTo[i][1] + 1) .. fromTo[i][2]}
    BY <2>3 DEF Promised
  <2>5. \A r \in Promised(i) : r \in Record /\ r[1] \in (fromTo[i][1] + 1) .. fromTo[i][2]
    BY <2>1, PromisedFacts DEF ReaderRight, Record
  <2> QED BY <2>1, <2>4, <2>5 DEF Finished, SubsetRight
<1>8. ASSUME NEW i \in Subsets, NEW j \in Subsets, i < j,
             NEW q \in ToSet(given[i]), NEW r \in ToSet(given[j])
      PROVE  Ahead(q, r)
  <2>1. q \in Record /\ r \in Record /\ q[1] <= all[i][2] /\ r[1] >= all[j][1] + 1
    BY <1>7
  <2>2. all[i][2] <= all[j][1] /\ all[i][2] \in Nat /\ all[j][1] \in Nat
    BY <1>4, <1>5, <1>8
  <2> QED BY <2>1, <2>2 DEF Ahead, Record
<1>9. UNION {ToSet(given[i]) : i \in Subsets} = UNION {Kept(f) : f \in DOMAIN csvFiles}
  <2>1. DOMAIN csvFiles = UNION {(all[k][1] + 1) .. all[k][2] : k \in Subsets}
    <3>1. DOMAIN csvFiles = 1 .. Len(csvFiles) /\ Subsets = DOMAIN all
      BY <1>2, <1>5
    <3> QED BY <1>4, <3>1, Zenon
  <2>2. ASSUME NEW i \in Subsets, NEW r
        PROVE  r \in ToSet(given[i]) <=> \E f \in (all[i][1] + 1) .. all[i][2] : r \in Kept(f)
    <3>1. ToSet(given[i]) = UNION {Kept(f) : f \in (all[i][1] + 1) .. all[i][2]}
      BY <1>7
    <3> QED BY <3>1, Zenon
  <2>3. \A f : f \in DOMAIN csvFiles <=> \E i \in Subsets : f \in (all[i][1] + 1) .. all[i][2]
    BY <2>1, Zenon
  <2>4. ASSUME NEW r
        PROVE  r \in UNION {ToSet(given[i]) : i \in Subsets}
                 <=> r \in UNION {Kept(f) : f \in DOMAIN csvFiles}
    <3>1. r \in UNION {ToSet(given[i]) : i \in Subsets} <=> \E i \in Subsets : r \in ToSet(given[i])
      BY Zenon
    <3>2. r \in UNION {Kept(f) : f \in DOMAIN csvFiles} <=> \E f \in DOMAIN csvFiles : r \in Kept(f)
      BY Zenon
    <3> QED BY <2>2, <2>3, <3>1, <3>2, Zenon
  <2> QED BY <2>4
<1> QED BY <1>7, <1>8, <1>9

\* split loses no file and gives none out twice: a round whose threads have all the
\* subsets and end has read every file once, in the order of the directory.
THEOREM DirectoryIsWhole == Spec => []WholeDirectory
BY ReaderIsRight, RightWhole, PTL

-----------------------------------------------------------------------------
(* The titles: next_record.                                                *)

\* A step of one thread keeps TitlesRight if it keeps what concerns the thread.
LEMMA TitlesStep ==
  ASSUME ReaderRight, TitlesRight, NEW t \in Threads, pc[t] # "done",
         UNCHANGED <<files, titles, program, round, started>>, cut => cut',
         \A j \in DOMAIN fromTo : j # thr[t] => Rests(j),
         \A u \in Threads : u # t => pc'[u] = pc[u] /\ thr'[u] = thr[u],
         NEW there, there = thr'[t],
         titles = 0 => /\ pc'[t] \notin {"record", "lines"}
                       /\ pc'[t] = "next" /\ there \in DOMAIN fromTo => Fresh(there)',
         titles = 0 /\ ~cut' => \A j \in Shares[t][1] .. Shares[t][2] :
                                  j < there \/ (AtEnd(t)' /\ j <= there) => Fruitless(j),
         program = "multi_test" /\ round > 1 => pc'[t] # "titles"
  PROVE  TitlesRight'
<1>1. csvFiles' = csvFiles /\ fromTo' = fromTo /\ Shares' = Shares /\ csvFiles \in Seq(CsvFile)
  BY SameShares DEF files, ReaderRight, ReaderTypes
<1>2. \A j : Fruitless(j)' <=> Fruitless(j)
  BY <1>1 DEF Fruitless
<1>3. thr[t] \in Shares[t][1] .. Shares[t][2] /\ started
  BY InShare
<1>4. ASSUME NEW u \in Threads, u # t, pc[u] = "next", thr[u] \in DOMAIN fromTo, Fresh(thr[u])
      PROVE  Fresh(thr[u])'
  <2>1. PICK j : j = thr[u]
    OBVIOUS
  <2>2. j \in Shares[u][1] .. Shares[u][2]
    BY <1>4, <2>1, InShare
  <2>3. j # thr[t]
    BY <1>1, <1>3, <1>4, <2>2, SharesFacts
  <2>4. Fresh(j)'
    BY <1>4, <2>1, <2>3, Frame
  <2>5. thr'[u] = j
    BY <1>4, <2>1
  <2> QED BY <2>4, <2>5
<1>5. titles' = 0 => \A u \in Threads : /\ pc'[u] \notin {"record", "lines"}
                                       /\ pc'[u] = "next" /\ thr'[u] \in DOMAIN fromTo'
                                            => Fresh(thr[u])'
  <2> SUFFICES ASSUME titles = 0, NEW u \in Threads
               PROVE  /\ pc'[u] \notin {"record", "lines"}
                      /\ pc'[u] = "next" /\ thr'[u] \in DOMAIN fromTo => Fresh(thr[u])'
    BY <1>1
  <2>1. CASE u = t
    BY <2>1
  <2>2. CASE u # t
    BY <1>4, <2>2 DEF TitlesRight
  <2> QED BY <2>1, <2>2
<1>6. ASSUME titles = 0, ~cut', NEW u \in Threads, NEW j \in Shares[u][1] .. Shares[u][2],
             j < thr'[u] \/ (AtEnd(u)' /\ j <= thr'[u])
      PROVE  Fruitless(j)
  <2>1. CASE u = t
    BY <1>6, <2>1
  <2>2. CASE u # t
    <3>1. j < thr[u] \/ (AtEnd(u) /\ j <= thr[u])
      BY <1>6, <2>2 DEF AtEnd
    <3> HIDE DEF Shares
    <3> QED BY <1>3, <1>6, <3>1 DEF TitlesRight
  <2> QED BY <2>1, <2>2
<1>7. TitlesSettled'
  BY DEF TitlesRight, TitlesSettled
<1>8. titles' = 0 /\ program' = "multi_test" /\ round' \in 2 .. 3
        => \A j \in 1 .. 6 * Batch : Fruitless(j)'
  BY <1>2 DEF TitlesRight
<1> HIDE DEF Shares, Fruitless, Fresh
<1> QED BY <1>1, <1>2, <1>5, <1>6, <1>7, <1>8 DEF TitlesRight

\* The later rounds of multi_test read no subset that the first has not read.
LEMMA LaterShares ==
  ASSUME program = "multi_test", round \in 2 .. 3, NEW t \in Threads,
           NEW j \in Shares[t][1] .. Shares[t][2]
  PROVE  j \in 1 .. 6 * Batch
<1>1. Batch \in Nat /\ Batch >= 1 /\ t \in {1, 2, 3, 4}
  BY TerminalAssumption
<1>2. CASE round = 2
  <2>1. Shares[t] = IF t <= 2 THEN <<3 * Batch * (t - 1) + 1, 3 * Batch * t>> ELSE <<1, 0>>
    BY <1>2 DEF Shares, ToTwoNodes, Nobody
  <2> QED BY <1>1, <2>1
<1>3. CASE round = 3
  <2>1. Shares[t] = IF t <= 3 THEN <<2 * Batch * (t - 1) + 1, 2 * Batch * (t - 1) + Batch>>
          ELSE <<1, 0>>
    BY <1>3 DEF Shares, ToThreeNodes, Nobody
  <2> QED BY <1>1, <2>1
<1> QED BY <1>2, <1>3

\* The first round of multi_test is one thread with six batches.
LEMMA FirstShares ==
  ASSUME program = "multi_test", round = 1
  PROVE  Shares[1][1] = 1 /\ Shares[1][2] = 6 * Batch
BY TerminalAssumption DEF Shares, ToOneNode

\* TakeRecord keeps TitlesRight.
LEMMA TitlesOfRecord ==
  ASSUME ReaderRight, TitlesRight, NEW t \in Threads, TakeRecord(t),
         UNCHANGED <<program, round, started, running, cut>>
  PROVE  TitlesRight'
<1>1. PICK here : here = thr[t]
  OBVIOUS
<1>2. here \in DOMAIN fromTo /\ pc[t] = "next" /\ ~Drained(here) /\ pc'[t] = "record" /\ thr' = thr
  BY <1>1 DEF TakeRecord, AtNext, ReaderRight, ReaderTypes
<1>3. titles # 0
  <2>1. Fresh(here) => Drained(here)
    BY DEF Fresh, Drained
  <2> QED BY <1>1, <1>2, <2>1 DEF TitlesRight
<1>4. \A j \in DOMAIN fromTo : j # here => Rests(j)
  BY <1>1 DEF TakeRecord, Rests, ReaderRight, ReaderTypes
<1>5. \A u \in Threads : u # t => pc'[u] = pc[u] /\ thr'[u] = thr[u]
  BY DEF TakeRecord, ReaderRight, ReaderTypes
<1> QED BY <1>1, <1>2, <1>3, <1>4, <1>5, TitlesStep DEF TakeRecord

\* NextFails keeps it: the subset it is done with was fruitless.
LEMMA TitlesOfFailure ==
  ASSUME ReaderRight, TitlesRight, NEW t \in Threads, NextFails(t),
         UNCHANGED <<program, round, started, running, cut>>
  PROVE  TitlesRight'
<1>1. PICK here : here = thr[t]
  OBVIOUS
<1>2. /\ here \in DOMAIN fromTo /\ pc[t] = "next" /\ pc'[t] = "false" /\ thr' = thr
      /\ UNCHANGED files /\ titles' = titles
  BY <1>1 DEF NextFails, AtNext, shared, ReaderRight, ReaderTypes
<1>3. titles = 0 => Fruitless(here)
  <2> SUFFICES ASSUME titles = 0 PROVE Fruitless(here)
    OBVIOUS
  <2>1. Fresh(here)
    BY <1>1, <1>2 DEF TitlesRight
  <2>2. indexOfFiles[here] = fromTo[here][1]
    BY <2>1 DEF Fresh
  <2>3. \/ indexOfFiles[here] >= fromTo[here][2]
        \/ ~csvFiles[indexOfFiles[here] + 1].opens
    BY <1>1 DEF NextFails, NoMoreFiles
  <2>4. fromTo[here][1] \in Nat /\ fromTo[here][2] \in Nat /\ fromTo[here][1] <= fromTo[here][2]
    BY <1>2 DEF ReaderRight, ReaderTypes
  <2> QED BY <1>2, <2>2, <2>3, <2>4 DEF Fruitless
<1>4. \A j \in DOMAIN fromTo : j # here => Rests(j)
  BY <1>1 DEF NextFails, Rests, ReaderRight, ReaderTypes
<1>5. \A u \in Threads : u # t => pc'[u] = pc[u] /\ thr'[u] = thr[u]
  BY DEF NextFails, ReaderRight, ReaderTypes
<1>6. ASSUME titles = 0, ~cut', NEW j \in Shares[t][1] .. Shares[t][2],
               j < here \/ (AtEnd(t)' /\ j <= here)
      PROVE  Fruitless(j)
  <2>1. CASE j = here
    BY <1>3, <1>6, <2>1
  <2>2. CASE j # here
    <3>1. started /\ here \in Nat /\ Shares[t][1] \in Nat /\ Shares[t][2] \in Nat
      BY <1>1, <1>2, InShare, SharesFacts DEF ReaderRight, ReaderTypes
    <3>2. j < here
      BY <1>6, <2>2, <3>1
    <3> HIDE DEF Shares
    <3> QED BY <1>1, <1>6, <3>1, <3>2 DEF TitlesRight
  <2> QED BY <2>1, <2>2
<1> QED BY <1>1, <1>2, <1>4, <1>5, <1>6, TitlesStep

\* NextFile keeps it: in a later round there are titles if a file can be opened.
LEMMA TitlesOfFile ==
  ASSUME ReaderRight, TitlesRight, NEW t \in Threads, NextFile(t),
         UNCHANGED <<program, round, started, running, cut>>
  PROVE  TitlesRight'
<1>1. PICK here : here = thr[t]
  OBVIOUS
<1>2. /\ here \in DOMAIN fromTo /\ pc[t] = "next" /\ thr' = thr /\ UNCHANGED files /\ titles' = titles
      /\ pc'[t] = IF titles = 0 THEN "titles" ELSE "lines"
  BY <1>1 DEF NextFile, AtNext, NeedsTitles, shared, ReaderRight, ReaderTypes
<1>3. started /\ here \in Shares[t][1] .. Shares[t][2]
  BY <1>1, <1>2, InShare
<1>4. program = "multi_test" /\ round > 1 => titles # 0
  <2> SUFFICES ASSUME program = "multi_test", round > 1, titles = 0 PROVE FALSE
    OBVIOUS
  <2>1. round \in 2 .. 3
    BY <1>3 DEF ReaderRight, RoundRight, Rounds
  <2>2. Fruitless(here)
    BY <1>3, <2>1, LaterShares DEF TitlesRight
  <2>3. Fresh(here)
    BY <1>1, <1>2 DEF TitlesRight
  <2>4. currentIfs[here].file = 0 /\ indexOfFiles[here] = fromTo[here][1]
    BY <2>3 DEF Fresh, Closed
  <2>5. ~NoMoreFiles(here) /\ csvFiles[indexOfFiles[here] + 1].opens
    BY <1>1, <2>4 DEF NextFile
  <2>6. fromTo[here][1] \in Nat /\ fromTo[here][2] \in Nat
    BY <1>2 DEF ReaderRight, ReaderTypes
  <2> QED BY <2>2, <2>4, <2>5, <2>6 DEF Fruitless, NoMoreFiles
<1>5. \A j \in DOMAIN fromTo : j # here => Rests(j)
  BY <1>1 DEF NextFile, Rests, ReaderRight, ReaderTypes
<1>6. \A u \in Threads : u # t => pc'[u] = pc[u] /\ thr'[u] = thr[u]
  BY DEF NextFile, ReaderRight, ReaderTypes
<1>7. ASSUME titles = 0, ~cut', NEW j \in Shares[t][1] .. Shares[t][2],
               j < here \/ (AtEnd(t)' /\ j <= here)
      PROVE  Fruitless(j)
  <2>1. j < here
    BY <1>2, <1>7 DEF AtEnd
  <2> HIDE DEF Shares
  <2> QED BY <1>1, <1>3, <1>7, <2>1 DEF TitlesRight
<1> QED BY <1>1, <1>2, <1>4, <1>5, <1>6, <1>7, TitlesStep

-----------------------------------------------------------------------------
(* The titles: the other steps, and the theorem.                           *)

\* SetTitles keeps it: there are titles now.
LEMMA TitlesOfTitles ==
  ASSUME ReaderRight, TitlesRight, NEW t \in Threads, SetTitles(t),
         UNCHANGED <<program, round, started, running, cut>>
  PROVE  TitlesRight'
<1>1. PICK here : here = thr[t]
  OBVIOUS
<1>2. here \in DOMAIN fromTo /\ pc[t] = "titles" /\ ThreadRight(t)
  BY <1>1 DEF SetTitles, ReaderRight, ThreadRight
<1>3. BehindHeader(here)
  BY <1>1, <1>2 DEF ThreadRight, AtLines
<1>4. titles' # 0
  BY <1>1, <1>3 DEF SetTitles, BehindHeader
<1>5. TitlesSettled'
  BY DEF SetTitles, TitlesRight, TitlesSettled
<1> QED BY <1>4, <1>5 DEF TitlesRight

\* ReadLines keeps it: it runs when there are titles.
LEMMA TitlesOfLines ==
  ASSUME ReaderRight, TitlesRight, NEW t \in Threads, ReadLines(t),
         UNCHANGED <<program, round, started, running, cut>>
  PROVE  TitlesRight'
<1>1. titles' # 0
  BY DEF ReadLines, shared, TitlesRight
<1>2. TitlesSettled'
  BY DEF ReadLines, TitlesRight, TitlesSettled
<1> QED BY <1>1, <1>2 DEF TitlesRight

\* A step of a thread outside the reader.
LEMMA TitlesOfMove ==
  ASSUME ReaderRight, TitlesRight, NEW t \in Threads, NEW to, pc' = [pc EXCEPT ![t] = to],
         \/ pc[t] = "record" /\ to = "next"
         \/ pc[t] = "false" /\ to = "written" /\ UNCHANGED cut
         \/ pc[t] \in {"next", "record"} /\ to = "done" /\ cut' = TRUE,
         cut => cut',
         UNCHANGED <<files, buffers, titles, thr, given, program, round, started>>
  PROVE  TitlesRight'
<1>1. PICK here : here = thr[t]
  OBVIOUS
<1>2. pc'[t] = to /\ thr' = thr /\ \A u \in Threads : u # t => pc'[u] = pc[u] /\ thr'[u] = thr[u]
  BY DEF ReaderRight, ReaderTypes
<1>3. \A j : Rests(j)
  BY DEF buffers, Rests
<1>4. titles = 0 => pc[t] # "record"
  BY DEF TitlesRight
<1>5. pc[t] # "done" /\ started
  BY InShare
<1>6. ASSUME titles = 0, ~cut', NEW j \in Shares[t][1] .. Shares[t][2],
               j < here \/ (AtEnd(t)' /\ j <= here)
      PROVE  Fruitless(j)
  <2>1. AtEnd(t)
    BY <1>4, <1>6 DEF AtEnd
  <2>2. ~cut
    BY <1>6
  <2> HIDE DEF Shares
  <2> QED BY <1>1, <1>5, <1>6, <2>1, <2>2 DEF TitlesRight
<1> QED BY <1>1, <1>2, <1>3, <1>4, <1>5, <1>6, TitlesStep

\* NextSubset keeps it.
LEMMA TitlesOfSubset ==
  ASSUME ReaderRight, TitlesRight, NEW t \in Threads, NextSubset(t)
  PROVE  TitlesRight'
<1>1. PICK here, there : here = thr[t] /\ there = thr'[t]
  OBVIOUS
<1>2. /\ pc[t] \in {"false", "written"} /\ pc'[t] \in {"next", "done"} /\ here \in Nat
      /\ \A u \in Threads : u # t => pc'[u] = pc[u] /\ thr'[u] = thr[u]
      /\ UNCHANGED <<files, titles, program, round, started, cut>>
  BY <1>1 DEF NextSubset, Goes, shared, ReaderRight, ReaderTypes
<1>3. \A j : Rests(j)
  BY DEF NextSubset, buffers, Rests
<1>4. started /\ here \in Shares[t][1] .. Shares[t][2] /\ Shares[t][1] \in Nat
        /\ Shares[t][2] \in Nat /\ ShareRight(t)
  BY <1>1, <1>2, InShare, SharesFacts DEF ReaderRight, ReaderTypes
<1>5. IF pc'[t] = "next" THEN there = here + 1 /\ there <= Shares[t][2] ELSE there = here
  <2> HIDE DEF Shares
  <2> QED BY <1>1, <1>2, <1>4 DEF NextSubset, Goes, ReaderRight, ReaderTypes
<1>6. pc'[t] = "next" /\ there \in DOMAIN fromTo => Fresh(there)'
  <2> SUFFICES ASSUME pc'[t] = "next", there \in DOMAIN fromTo PROVE Fresh(there)'
    OBVIOUS
  <2>1. there \in Shares[t][1] .. Shares[t][2] /\ here < there
    BY <1>2, <1>4, <1>5
  <2>2. Fresh(there)
    BY <1>1, <1>4, <2>1 DEF ShareRight
  <2> QED BY <1>2, <1>3, <2>2, Frame
<1>7. ASSUME titles = 0, ~cut', NEW j \in Shares[t][1] .. Shares[t][2],
               j < there \/ (AtEnd(t)' /\ j <= there)
      PROVE  Fruitless(j)
  <2> HIDE DEF Shares
  <2>1. j <= here
    <3>1. j \in Nat
      BY <1>4
    <3>2. j < there \/ (pc'[t] = "done" /\ j <= there)
      BY <1>2, <1>7 DEF AtEnd
    <3> QED BY <1>2, <1>5, <3>1, <3>2
  <2>2. AtEnd(t)
    BY <1>2 DEF AtEnd
  <2> QED BY <1>1, <1>2, <1>4, <1>7, <2>1, <2>2 DEF TitlesRight
<1> QED BY <1>1, <1>2, <1>3, <1>6, <1>7, TitlesStep

\* StartRound keeps it.
LEMMA TitlesStart ==
  ASSUME ReaderRight, TitlesRight, StartRound
  PROVE  TitlesRight'
<1>1. /\ started' = TRUE /\ cut' = FALSE /\ csvFiles' = csvFiles /\ titles' = titles
      /\ UNCHANGED <<program, round, running>>
      /\ thr' = [t \in Threads |-> Shares[t][1]]
      /\ pc' = [t \in Threads |-> IF Shares[t][1] <= Shares[t][2] THEN "next" ELSE "done"]
  BY DEF StartRound, Split, files, shared
<1>2. csvFiles \in Seq(CsvFile) /\ Len(csvFiles) \in Nat /\ Pieces \in Nat /\ Shares' = Shares
  BY <1>1, SameShares DEF ReaderRight, ReaderTypes, Pieces
<1>3. \/ Split(Pieces) /\ Pieces \in Nat \ {0}
      \/ UNCHANGED <<files, buffers, given>> /\ fromTo = <<>>
  BY <1>2 DEF StartRound, Split, ReaderRight, RoundRight
<1>4. ASSUME NEW i \in DOMAIN fromTo
      PROVE  i \in DOMAIN fromTo' /\ fromTo'[i] = fromTo[i]
  <2>1. CASE Split(Pieces) /\ Pieces \in Nat \ {0}
    <3>1. PICK s \in Nat \ {0} : s = Pieces
      BY <2>1
    <3>2. PICK new \in Seq(Nat \X Nat) : new = Ranges(s)
      BY <1>2, RangesFacts
    <3>3. fromTo' = fromTo \o new
      BY <2>1, <3>1, <3>2 DEF Split
    <3> QED BY <3>3 DEF ReaderRight, ReaderTypes
  <2>2. CASE fromTo = <<>>
    BY <2>2
  <2> QED BY <1>3, <2>1, <2>2
<1>5. \A i \in DOMAIN fromTo' : Fresh(i)'
  <2>1. CASE Split(Pieces)
    BY <2>1 DEF Split, Fresh, NewStream, Closed
  <2>2. CASE UNCHANGED <<files, buffers, given>> /\ fromTo = <<>>
    BY <2>2 DEF files
  <2> QED BY <1>3, <2>1, <2>2
<1>6. \A j : Fruitless(j) => Fruitless(j)'
  BY <1>1, <1>4 DEF Fruitless
<1>7. \A t \in Threads : /\ pc'[t] \in {"next", "done"}
                           /\ (AtEnd(t)' => ~(Shares[t][1] <= Shares[t][2]))
                         /\ thr'[t] = Shares[t][1] /\ Shares[t][1] \in Nat /\ Shares[t][2] \in Nat
  BY <1>1, <1>2, SharesFacts DEF AtEnd
<1>8. ASSUME NEW t \in Threads, NEW j \in Shares[t][1] .. Shares[t][2],
             j < thr'[t] \/ (AtEnd(t)' /\ j <= thr'[t])
      PROVE  FALSE
  <2> HIDE DEF Shares
  <2> QED BY <1>7, <1>8
<1>9. \A t \in Threads : /\ pc'[t] \notin {"record", "lines"}
                         /\ pc'[t] = "next" /\ thr'[t] \in DOMAIN fromTo' => Fresh(thr[t])'
  BY <1>5, <1>7
<1>10. TitlesSettled'
  BY <1>7 DEF TitlesSettled
<1>11. titles = 0 /\ program = "multi_test" /\ round \in 2 .. 3
         => \A j \in 1 .. 6 * Batch : Fruitless(j)'
  BY <1>6 DEF TitlesRight
<1> HIDE DEF Shares, Fresh, Fruitless
<1> QED BY <1>1, <1>2, <1>8, <1>9, <1>10, <1>11 DEF TitlesRight

\* EndRound keeps it: the first round has met all subsets of the later ones.
LEMMA TitlesEnd ==
  ASSUME ReaderRight, TitlesRight, EndRound
  PROVE  TitlesRight'
<1>1. /\ UNCHANGED <<csvFiles, fromTo, pc, titles, program>> /\ started /\ ~started'
      /\ round' = IF cut /\ round = 1 THEN Rounds + 1 ELSE round + 1
      /\ \A t \in Threads : pc[t] = "done" /\ pc'[t] = "done"
  BY DEF EndRound, reader
<1>2. \A j : Fruitless(j)' <=> Fruitless(j)
  BY <1>1 DEF Fruitless
<1>3. TitlesSettled'
  BY <1>1 DEF TitlesSettled
<1>4. ASSUME titles = 0, program = "multi_test", round' \in 2 .. 3, NEW j \in 1 .. 6 * Batch
      PROVE  Fruitless(j)
  <2>1. CASE round = 1
    <3>1. ~cut
      BY <1>1, <1>4, <2>1 DEF Rounds
    <3>2. Shares[1][1] = 1 /\ Shares[1][2] = 6 * Batch /\ 1 \in Threads /\ 6 * Batch \in Nat
            /\ 1 <= 6 * Batch
      BY <1>4, <2>1, FirstShares, TerminalAssumption
    <3>3. thr[1] = 6 * Batch /\ AtEnd(1)
      BY <1>1, <3>1, <3>2 DEF ReaderRight, ShareRight, AtEnd
    <3>4. j \in Shares[1][1] .. Shares[1][2] /\ j <= thr[1]
      BY <3>2, <3>3
    <3> HIDE DEF Shares
    <3> QED BY <1>1, <1>4, <3>1, <3>2, <3>3, <3>4 DEF TitlesRight
  <2>2. CASE round # 1
    <3>1. round \in 2 .. 3
      BY <1>1, <1>4, <2>2 DEF ReaderRight, RoundRight
    <3> QED BY <1>4, <3>1 DEF TitlesRight
  <2> QED BY <2>1, <2>2
<1> QED BY <1>1, <1>2, <1>3, <1>4 DEF TitlesRight

\* TitlesRight holds before the first round.
LEMMA InitTitles == Init => TitlesRight
<1> SUFFICES ASSUME Init PROVE TitlesRight
  OBVIOUS
<1>1. ~started /\ round = 1 /\ \A t \in Threads : pc[t] = "done"
  BY DEF Init, ReaderInit
<1>2. TitlesSettled
  BY <1>1 DEF TitlesSettled
<1> QED BY <1>1, <1>2 DEF TitlesRight

\* Every step keeps TitlesRight.
LEMMA StepTitles == ReaderRight /\ TitlesRight /\ [Next]_vars => TitlesRight'
<1> SUFFICES ASSUME ReaderRight, TitlesRight, [Next]_vars PROVE TitlesRight'
  OBVIOUS
<1>1. CASE StartRound
  BY <1>1, TitlesStart
<1>2. CASE EndRound
  BY <1>2, TitlesEnd
<1>3. CASE DividesByZero \/ Crash \/ UNCHANGED vars
  <2>1. /\ UNCHANGED <<csvFiles, fromTo, indexOfFiles, indexOfRecords, recordsPerFile, currentIfs,
             titles, pc, thr, given>>
        /\ UNCHANGED <<program, round, started, cut>> /\ UNCHANGED files
    BY <1>3 DEF DividesByZero, Crash, vars, reader, files
  <2>2. \A j : Rests(j)
    BY <2>1 DEF Rests
  <2>3. \A j : (Fresh(j)' <=> Fresh(j)) /\ (Fruitless(j)' <=> Fruitless(j))
    BY <2>1, <2>2, Frame DEF Fruitless
  <2>4. Shares' = Shares
    BY <2>1, SameShares
  <2>5. \A t \in Threads : pc[t] = "next" /\ thr[t] \in DOMAIN fromTo /\ Fresh(thr[t])
          => Fresh(thr[t])'
    <3> SUFFICES ASSUME NEW t \in Threads, Fresh(thr[t]) PROVE Fresh(thr[t])'
      OBVIOUS
    <3>1. PICK j : j = thr[t]
      OBVIOUS
    <3>2. Fresh(j)'
      BY <2>3, <3>1
    <3> QED BY <2>1, <3>1, <3>2
  <2>6. TitlesSettled'
    BY <2>1 DEF TitlesSettled, TitlesRight
  <2> HIDE DEF Shares, Fresh, Fruitless
  <2> QED BY <2>1, <2>3, <2>4, <2>5, <2>6 DEF TitlesRight, AtEnd
<1>4. ASSUME NEW t \in Threads, Thread(t) PROVE TitlesRight'
  <2>1. CASE Reads(t)
    <3>1. UNCHANGED <<program, round, started, running, cut>>
      BY <2>1 DEF Reads
    <3> QED BY <2>1, <3>1, TitlesOfRecord, TitlesOfFailure, TitlesOfFile, TitlesOfTitles,
               TitlesOfLines DEF Reads
  <2>2. CASE UseRecord(t) \/ Extract(t) \/ ArrangePasses(t) \/ Arrange(t)
    <3>1. /\ pc[t] = "record" /\ pc' = [pc EXCEPT ![t] = "next"]
          /\ UNCHANGED <<files, buffers, titles, thr, given, program, round, started, cut>>
      BY <2>2 DEF UseRecord, Extract, ArrangePasses, Arrange, AtRecord, Goes, shared
    <3> QED BY <3>1, TitlesOfMove
  <2>3. CASE SortWrites(t)
    <3>1. /\ pc[t] = "false" /\ pc' = [pc EXCEPT ![t] = "written"]
          /\ UNCHANGED <<files, buffers, titles, thr, given, program, round, started, cut>>
      BY <2>3 DEF SortWrites, Goes, shared
    <3> QED BY <3>1, TitlesOfMove
  <2>4. CASE GivesUp(t)
    <3>1. /\ pc[t] \in {"next", "record"} /\ pc' = [pc EXCEPT ![t] = "done"] /\ cut' = TRUE
          /\ UNCHANGED <<files, buffers, titles, thr, given, program, round, started>>
      BY <2>4 DEF GivesUp, AtRecord, AtNext, Goes, shared
    <3> QED BY <3>1, TitlesOfMove
  <2>5. CASE NextSubset(t)
    BY <2>5, TitlesOfSubset
  <2> QED BY <1>4, <2>1, <2>2, <2>3, <2>4, <2>5 DEF Thread
<1> QED BY <1>1, <1>2, <1>3, <1>4 DEF Next, Main

\* multi_test assigns the titles in its first round, of one thread, or never: no
\* thread of a later round is about to, whatever can be opened and read.
THEOREM SettledTitles == Spec => []TitlesSettled
<1>1. TitlesRight => TitlesSettled
  BY DEF TitlesRight
<1> QED BY <1>1, InitTitles, StepTitles, ReaderIsRight, PTL DEF Spec

-----------------------------------------------------------------------------
(* What extract, arrange and sort write: rows.                             *)

\* The last element of a sequence that was appended to.
LEMMA Ending ==
  ASSUME NEW S, NEW s \in Seq(S), NEW r \in S
  PROVE  Last(Append(s, r)) = r /\ Front(Append(s, r)) = s /\ Append(s, r) # <<>>
<1>1. Len(Append(s, r)) = Len(s) + 1 /\ Append(s, r)[Len(s) + 1] = r /\ Len(s) \in Nat
  OBVIOUS
<1>2. SubSeq(Append(s, r), 1, Len(s)) = s
  OBVIOUS
<1> QED BY <1>1, <1>2 DEF Last, Front

\* The rows of a file that has its titles and one row more.
LEMMA RowAdded ==
  ASSUME NEW S, NEW rows \in Seq(S), rows # <<>>, NEW row \in S
  PROVE  LET before == LastOfEach(Tail(rows))
             after == LastOfEach(Tail(Append(rows, row)))
         IN  /\ Head(Append(rows, row)) = Head(rows)
             /\ ToSet(after) = ToSet(before) \cup {Last(row)}
             /\ InOrder(before) /\ (\A q \in ToSet(before) : Ahead(q, Last(row))) => InOrder(after)
<1>1. PICK n \in Nat : n = Len(rows) - 1
  OBVIOUS
<1>2. PICK more \in Seq(S) : more = Append(rows, row)
  <2>1. Append(rows, row) \in Seq(S)
    OBVIOUS
  <2> QED BY <2>1, Zenon
<1>3. Len(more) = n + 2 /\ more[n + 2] = row /\ \A k \in 1 .. n + 1 : more[k] = rows[k]
  <2>1. Len(rows) = n + 1
    BY <1>1
  <2>2. Len(more) = Len(rows) + 1 /\ more[Len(rows) + 1] = row
        /\ \A k \in 1 .. Len(rows) : more[k] = rows[k]
    BY <1>2
  <2> QED BY <2>1, <2>2
<1>4. /\ DOMAIN Tail(rows) = 1 .. n /\ \A k \in 1 .. n : Tail(rows)[k] = rows[k + 1]
      /\ DOMAIN Tail(more) = 1 .. n + 1 /\ \A k \in 1 .. n + 1 : Tail(more)[k] = more[k + 1]
  BY <1>1, <1>3
<1> DEFINE before == LastOfEach(Tail(rows))
           after == LastOfEach(Tail(more))
<1>5. /\ DOMAIN before = 1 .. n /\ DOMAIN after = 1 .. n + 1
      /\ \A k \in 1 .. n : before[k] = Last(rows[k + 1])
      /\ \A k \in 1 .. n + 1 : after[k] = Last(more[k + 1])
  BY <1>4, Zenon DEF LastOfEach
<1> HIDE DEF before, after
<1>6. after[n + 1] = Last(row) /\ \A k \in 1 .. n : after[k] = before[k]
  <2>1. (n + 1) + 1 = n + 2 /\ n + 1 \in 1 .. n + 1
          /\ \A k \in 1 .. n : k \in 1 .. n + 1 /\ k + 1 \in 1 .. n + 1
    OBVIOUS
  <2>2. after[n + 1] = Last(row)
    BY <1>3, <1>5, <2>1
  <2>3. ASSUME NEW k \in 1 .. n
        PROVE  after[k] = before[k]
    <3>1. after[k] = Last(more[k + 1]) /\ before[k] = Last(rows[k + 1])
      BY <1>5, <2>1
    <3>2. more[k + 1] = rows[k + 1]
      BY <1>3, <2>1
    <3> QED BY <3>1, <3>2
  <2> QED BY <2>2, <2>3
<1>7. \A k \in 1 .. n + 1 : k \in 1 .. n \/ k = n + 1
  OBVIOUS
<1>8. ToSet(after) = ToSet(before) \cup {Last(row)}
  <2>1. n + 1 \in 1 .. n + 1 /\ 1 .. n \subseteq 1 .. n + 1
    OBVIOUS
  <2>2. ToSet(before) = {before[k] : k \in 1 .. n} /\ ToSet(after) = {after[k] : k \in 1 .. n + 1}
    BY <1>5, Zenon DEF ToSet
  <2>3. \A x : x \in ToSet(after) <=> x \in ToSet(before) \/ x = Last(row)
    BY <1>6, <1>7, <2>1, <2>2
  <2> QED BY <2>3
<1>9. InOrder(before) /\ (\A q \in ToSet(before) : Ahead(q, Last(row))) => InOrder(after)
  <2>1. \A k \in 1 .. n : before[k] \in ToSet(before)
    BY <1>5 DEF ToSet
  <2> SUFFICES ASSUME InOrder(before), \A q \in ToSet(before) : Ahead(q, Last(row)),
                      NEW j \in 1 .. n + 1, NEW k \in 1 .. n + 1, j < k
               PROVE  Ahead(after[j], after[k])
    BY <1>5 DEF InOrder
  <2>2. j \in 1 .. n /\ after[j] = before[j]
    BY <1>6
  <2>3. CASE k \in 1 .. n
    <3>1. after[k] = before[k]
      BY <1>6, <2>3
    <3> QED BY <1>5, <2>2, <2>3, <3>1 DEF InOrder
  <2>4. CASE k = n + 1
    BY <1>6, <2>1, <2>2, <2>4
  <2> QED BY <1>7, <2>3, <2>4
<1>10. Head(more) = Head(rows)
  BY <1>1, <1>3
<1> QED BY <1>2, <1>8, <1>9, <1>10 DEF before, after

\* A file that has its titles and nothing else.
LEMMA TitlesOnly ==
  ASSUME NEW row
  PROVE  LET ends == LastOfEach(Tail(<<row>>))
         IN  Head(<<row>>) = row /\ ToSet(ends) = {} /\ InOrder(ends)
<1>1. Tail(<<row>>) = <<>>
  OBVIOUS
<1>2. DOMAIN LastOfEach(<<>>) = {}
  BY DEF LastOfEach
<1> QED BY <1>1, <1>2 DEF ToSet, InOrder

\* Of the other programs' threads, and of those that do not give a record back.
LEMMA HandledStays ==
  ASSUME ReaderRight, OutputTypes, NEW t \in Threads,
         program = "extra" \/ (program = "arrange" /\ t = 1),
         NEW u \in Threads,
         \/ Reads(u) \/ NextSubset(u)
         \/ UNCHANGED <<pc, thr, given>>
  PROVE  Handled(t)' = Handled(t) /\ (Reading(t)' <=> Reading(t))
<1>1. CASE UNCHANGED <<pc, thr, given>>
  BY <1>1 DEF Handled, Reading, AtRecord
<1>2. ASSUME Reads(u) \/ NextSubset(u)
      PROVE  /\ pc[u] # "done" /\ started /\ thr[u] \in Shares[u][1] .. Shares[u][2]
             /\ \A w \in Threads : w # u => pc'[w] = pc[w]
             /\ program = "arrange" => u = 1
  <2>1. pc[u] # "done" /\ \A w \in Threads : w # u => pc'[w] = pc[w]
    BY <1>2 DEF Reads, TakeRecord, NextFails, NextFile, SetTitles, ReadLines, AtNext, NextSubset,
       Goes, ReaderRight, ReaderTypes
  <2>2. started /\ thr[u] \in Shares[u][1] .. Shares[u][2]
    BY <2>1, InShare
  <2>3. program = "arrange" /\ u # 1 => Shares[u] = <<1, 0>>
    BY DEF Shares, Arranging, Nobody
  <2> QED BY <2>1, <2>2, <2>3
<1>3. CASE NextSubset(u)
  <2>1. Shares[u][2] = thr[u]
    <3>1. CASE program = "extra"
      BY <1>2, <1>3, <3>1 DEF Shares, Extra, OutputTypes
    <3>2. CASE program = "arrange"
      BY <1>2, <1>3, <3>2 DEF Shares, Arranging, OutputTypes
    <3> QED BY <3>1, <3>2
  <2>2. thr' = thr /\ given' = given /\ pc[u] # "record" /\ pc'[u] # "record"
    <3>1. thr[u] \in Nat
      BY DEF ReaderRight, ReaderTypes
    <3> HIDE DEF Shares
    <3> QED BY <1>3, <2>1, <3>1 DEF NextSubset, Goes, ReaderRight, ReaderTypes
  <2>3. AtRecord(t)' <=> AtRecord(t)
    BY <1>2, <1>3, <2>2 DEF AtRecord
  <2> QED BY <2>2, <2>3 DEF Handled, Reading
<1>4. CASE Reads(u) /\ ~TakeRecord(u)
  <2>1. thr' = thr /\ given' = given /\ pc[u] # "record" /\ pc'[u] # "record"
    BY <1>4 DEF Reads, NextFails, NextFile, SetTitles, ReadLines, AtNext, ReaderRight, ReaderTypes
  <2>2. AtRecord(t)' <=> AtRecord(t)
    BY <1>2, <1>4, <2>1 DEF AtRecord
  <2> QED BY <2>1, <2>2 DEF Handled, Reading
<1>5. CASE Reads(u) /\ TakeRecord(u)
  <2>1. PICK here, x : here = thr[u] /\ x = recordsPerFile[here][indexOfRecords[here] + 1]
    OBVIOUS
  <2>2. /\ here \in DOMAIN fromTo /\ pc[u] = "next" /\ pc'[u] = "record" /\ thr' = thr
        /\ given' = [given EXCEPT ![here] = Append(given[here], x)]
    BY <1>5, <2>1 DEF TakeRecord, AtNext, ReaderRight, ReaderTypes
  <2>3. DOMAIN given' = DOMAIN given /\ given[here] \in Seq(Record)
          /\ given'[here] = Append(given[here], x)
    BY <2>2 DEF ReaderRight, ReaderTypes
  <2>4. CASE t = u
    <3>1. recordsPerFile[here] \in Seq(Record) /\ indexOfRecords[here] \in Nat /\ ~Drained(here)
      BY <1>5, <2>1, <2>2 DEF TakeRecord, ReaderRight, ReaderTypes
    <3>2. x \in Record
      BY <2>1, <3>1 DEF Drained
    <3>3. Front(given'[here]) = given[here]
      BY <2>3, <3>2, Ending
    <3> QED BY <2>1, <2>2, <2>3, <2>4, <3>3 DEF Handled, Reading, AtRecord
  <2>5. CASE t # u
    <3>1. thr[t] # here
      BY <1>2, <1>5, <2>1, <2>5 DEF OutputTypes
    <3>2. given'[thr[t]] = given[thr[t]]
      BY <2>2, <3>1
    <3> QED BY <1>2, <1>5, <2>2, <2>3, <2>5, <3>2 DEF Handled, Reading, AtRecord
  <2> QED BY <2>4, <2>5
<1> QED BY <1>1, <1>3, <1>4, <1>5

-----------------------------------------------------------------------------
(* extract: one record more.                                               *)

\* What extract has written when it is done with the records of `read`.
Extracts(rows, read) ==
  IF read = <<>> THEN rows = <<>>
  ELSE /\ rows # <<>> /\ Head(rows) = TitlesRow
       /\ LET ends == LastOfEach(Tail(rows))
          IN  /\ InOrder(ends)
              /\ ToSet(ends) = {r \in ToSet(read) : Text(r) \in Dated}
       /\ \A n \in 2 .. Len(rows) : \A r \in ToSet(Front(rows[n])) : Text(r) \notin Dated

\* The same of rows of records.
LEMMA RowOfRecords ==
  ASSUME NEW rows \in Seq(Seq(Record)), rows # <<>>, NEW row \in Seq(Record)
  PROVE  /\ Head(Append(rows, row)) = Head(rows)
         /\ ToSet(LastOfEach(Tail(Append(rows, row))))
              = ToSet(LastOfEach(Tail(rows))) \cup {Last(row)}
         /\ InOrder(LastOfEach(Tail(rows)))
              /\ (\A q \in ToSet(LastOfEach(Tail(rows))) : Ahead(q, Last(row)))
              => InOrder(LastOfEach(Tail(Append(rows, row))))
<1>1. PICK S : S = Seq(Record)
  OBVIOUS
<1>2. rows \in Seq(S) /\ row \in S
  BY <1>1
<1> QED BY <1>2, RowAdded, Zenon

\* A row of a file that gets one row more is an old one or the new one.
LEMMA AppendedRows ==
  ASSUME NEW S, NEW rows \in Seq(S), rows # <<>>, NEW row \in S, NEW n \in 2 .. Len(Append(rows, row))
  PROVE  (n \in 2 .. Len(rows) /\ Append(rows, row)[n] = rows[n]) \/ Append(rows, row)[n] = row
OBVIOUS

\* The titles before the first row.
WithTitles(rows) == IF rows = <<>> THEN <<TitlesRow>> ELSE rows

\* The titles, if they were not there, change nothing about the records.
LEMMA TitlesFirst ==
  ASSUME NEW rows \in Seq(Seq(Record)), NEW read \in Seq(Record), Extracts(rows, read)
  PROVE  LET all == WithTitles(rows)
             ends == LastOfEach(Tail(all))
         IN  /\ all \in Seq(Seq(Record)) /\ all # <<>> /\ Head(all) = TitlesRow
             /\ InOrder(ends)
             /\ ToSet(ends) = {r \in ToSet(read) : Text(r) \in Dated}
             /\ \A n \in 2 .. Len(all) : \A r \in ToSet(Front(all[n])) : Text(r) \notin Dated
<1>1. TitlesRow \in Seq(Record) /\ <<TitlesRow>> \in Seq(Seq(Record)) /\ <<TitlesRow>> # <<>>
        /\ Len(<<TitlesRow>>) = 1
  BY DEF TitlesRow
<1>2. CASE rows = <<>>
  <2>1. ToSet(read) = {}
    BY <1>2 DEF Extracts, ToSet
  <2>2. PICK all : all = <<TitlesRow>>
    OBVIOUS
  <2>3. WithTitles(rows) = all
    BY <1>2, <2>2 DEF WithTitles
  <2>4. Head(all) = TitlesRow /\ ToSet(LastOfEach(Tail(all))) = {} /\ InOrder(LastOfEach(Tail(all)))
    BY <2>2, TitlesOnly, Zenon
  <2>5. 2 .. Len(all) = {}
    BY <1>1, <2>2
  <2> QED BY <1>1, <2>1, <2>2, <2>3, <2>4, <2>5, Zenon
<1>3. CASE rows # <<>>
  BY <1>3, Zenon DEF Extracts, WithTitles
<1> QED BY <1>2, <1>3

\* One more record for extract.
LEMMA ExtractsOneMore ==
  ASSUME NEW rows \in Seq(Seq(Record)), NEW read \in Seq(Record), Extracts(rows, read),
         NEW r \in Record, \A q \in ToSet(read) : Ahead(q, r),
         NEW before \in Seq(Record), \A q \in ToSet(before) : Text(q) \notin Dated
  PROVE  Extracts(IF Text(r) \in Dated THEN Append(WithTitles(rows), Append(before, r))
           ELSE WithTitles(rows),
                  Append(read, r))
<1>1. PICK all : all = WithTitles(rows)
  OBVIOUS
<1>2. PICK ends : ends = LastOfEach(Tail(all))
  OBVIOUS
<1>3. /\ all \in Seq(Seq(Record)) /\ all # <<>> /\ Head(all) = TitlesRow
      /\ InOrder(ends) /\ ToSet(ends) = {q \in ToSet(read) : Text(q) \in Dated}
      /\ \A n \in 2 .. Len(all) : \A q \in ToSet(Front(all[n])) : Text(q) \notin Dated
  BY <1>1, <1>2, TitlesFirst, Zenon
<1>4. PICK row \in Seq(Record) : row = Append(before, r)
  <2>1. Append(before, r) \in Seq(Record)
    OBVIOUS
  <2> QED BY <2>1, Zenon
<1>5. Last(row) = r /\ Front(row) = before
  BY <1>4, Ending
<1>6. ToSet(Append(read, r)) = ToSet(read) \cup {r} /\ Append(read, r) # <<>>
  BY AppendSet, Ending
<1>7. CASE Text(r) \in Dated
  <2>1. PICK more : more = Append(all, row)
    OBVIOUS
  <2>2. /\ Head(more) = Head(all)
        /\ ToSet(LastOfEach(Tail(more))) = ToSet(ends) \cup {Last(row)}
        /\ InOrder(ends) /\ (\A q \in ToSet(ends) : Ahead(q, Last(row)))
             => InOrder(LastOfEach(Tail(more)))
    BY <1>2, <1>3, <2>1, RowOfRecords, Zenon
  <2>3. InOrder(LastOfEach(Tail(more)))
    BY <1>3, <1>5, <2>2
  <2>4. ToSet(LastOfEach(Tail(more))) = {q \in ToSet(Append(read, r)) : Text(q) \in Dated}
    BY <1>3, <1>5, <1>6, <1>7, <2>2
  <2>5. more # <<>>
    BY <1>3, <2>1, Ending
  <2>6. \A n \in 2 .. Len(more) : \A q \in ToSet(Front(more[n])) : Text(q) \notin Dated
    BY <1>3, <1>5, <2>1, AppendedRows
  <2> QED BY <1>1, <1>3, <1>4, <1>6, <1>7, <2>1, <2>2, <2>3, <2>4, <2>5, <2>6, Zenon DEF Extracts
<1>8. CASE Text(r) \notin Dated
  <2>1. {q \in ToSet(Append(read, r)) : Text(q) \in Dated} = {q \in ToSet(read) : Text(q) \in Dated}
    BY <1>6, <1>8
  <2> QED BY <1>1, <1>2, <1>3, <1>6, <1>8, <2>1, Zenon DEF Extracts
<1> QED BY <1>7, <1>8

\* ExtractedInOrder, thread by thread.
LEMMA ExtractedBy ==
  ExtractedInOrder <=> \A t \in Threads : program = "extra" /\ Reading(t)
      => Extracts(extracted[t], Handled(t))
BY Zenon DEF ExtractedInOrder, Extracts

\* The same after a step.
LEMMA ExtractedByNext ==
  (ExtractedInOrder <=> \A t \in Threads : program = "extra" /\ Reading(t)
      => Extracts(extracted[t], Handled(t)))'
BY ExtractedBy, PTL

\* The text of a record depends on the files alone.
LEMMA SameText ==
  ASSUME UNCHANGED csvFiles
  PROVE  \A r : Text(r)' = Text(r)
BY DEF Text, LinesOf

\* The record a thread has in its hands is the last that it was given.
LEMMA InHands ==
  ASSUME ReaderRight, NEW t \in Threads, pc[t] = "record"
  PROVE  /\ RecordOf(t) \in Record /\ Handled(t) \in Seq(Record)
         /\ given[thr[t]] = Append(Handled(t), RecordOf(t)) /\ given[thr[t]] \in Seq(Record)
         /\ thr[t] \in DOMAIN fromTo /\ DOMAIN given = DOMAIN fromTo
         /\ \A q \in ToSet(Handled(t)) : Ahead(q, RecordOf(t))
<1>1. thr[t] \in DOMAIN fromTo /\ given[thr[t]] # <<>> /\ DOMAIN given = DOMAIN fromTo
      /\ given[thr[t]] \in Seq(Record) /\ InOrder(given[thr[t]])
  BY DEF ReaderRight, ReaderTypes, ThreadRight, SubsetRight
<1>2. PICK all \in Seq(Record) : all = given[thr[t]]
  BY <1>1, Zenon
<1>3. Len(all) \in Nat /\ Len(all) >= 1 /\ all[Len(all)] \in Record
  BY <1>1, <1>2
<1>4. PICK front : front = Front(all)
  OBVIOUS
<1>5. front = SubSeq(all, 1, Len(all) - 1)
  BY <1>4 DEF Front
<1>6. /\ front \in Seq(Record) /\ Len(front) = Len(all) - 1
      /\ DOMAIN front = 1 .. Len(all) - 1 /\ \A k \in 1 .. Len(all) - 1 : front[k] = all[k]
  <2>1. PICK m \in Nat : m = Len(all) - 1
    BY <1>3
  <2>2. m <= Len(all) /\ front = SubSeq(all, 1, m)
    BY <1>3, <1>5, <2>1
  <2>3. front \in Seq(Record) /\ Len(front) = m /\ \A k \in 1 .. m : front[k] = all[k]
    BY <2>2
  <2> QED BY <2>1, <2>3
<1>7. all = Append(front, all[Len(all)])
  BY <1>3, <1>6
<1>8. \A q \in ToSet(front) : Ahead(q, all[Len(all)])
  <2>1. ASSUME NEW k \in DOMAIN front PROVE Ahead(front[k], all[Len(all)])
    <3>1. k \in DOMAIN all /\ Len(all) \in DOMAIN all /\ k < Len(all)
      BY <1>3, <1>6, <2>1
    <3>2. front[k] = all[k]
      BY <1>6
    <3> QED BY <1>1, <1>2, <3>1, <3>2 DEF InOrder
  <2> QED BY <2>1 DEF ToSet
<1>9. RecordOf(t) = all[Len(all)] /\ Handled(t) = front
  BY <1>2, <1>4 DEF RecordOf, Handled, AtRecord
<1> QED BY <1>1, <1>2, <1>3, <1>6, <1>7, <1>8, <1>9

-----------------------------------------------------------------------------
(* extract: its step.                                                      *)

\* Extracts depends on the files alone.
LEMMA SameExtracts ==
  ASSUME UNCHANGED csvFiles, NEW rows, NEW read
  PROVE  Extracts(rows, read)' <=> Extracts(rows, read)
<1>1. \A r : Text(r)' = Text(r)
  BY SameText
<1>2. UNCHANGED Dated
  OBVIOUS
<1> QED BY <1>1, Zenon DEF Extracts

\* A step that writes no line and gives no record back to extract.
LEMMA ExtractedFrame ==
  ASSUME UNCHANGED <<csvFiles, program, extracted>>, ExtractedInOrder,
         program = "extra" => \A t \in Threads :
             Handled(t)' = Handled(t) /\ (Reading(t)' <=> Reading(t))
  PROVE  ExtractedInOrder'
<1> SUFFICES ASSUME NEW t \in Threads, program' = "extra", Reading(t)'
             PROVE  Extracts(extracted[t], Handled(t))'
  BY ExtractedByNext
<1>1. PICK rows, read : rows = extracted[t] /\ read = Handled(t)
  OBVIOUS
<1>2. Extracts(rows, read)
  BY <1>1, ExtractedBy
<1>3. Extracts(rows, read)'
  BY <1>2, SameExtracts
<1>4. extracted'[t] = rows /\ Handled(t)' = read
  BY <1>1
<1> QED BY <1>3, <1>4

\* extract keeps what it promises with every record.
LEMMA ExtractedOneMore ==
  ASSUME ReaderRight, OutputTypes, ExtractedInOrder, NEW t \in Threads, Extract(t)
  PROVE  ExtractedInOrder'
<1>1. /\ pc[t] = "record" /\ program = "extra" /\ UNCHANGED <<csvFiles, thr, given, program>>
      /\ pc' = [pc EXCEPT ![t] = "next"] /\ pc'[t] = "next"
      /\ \A u \in Threads : u # t => pc'[u] = pc[u]
  BY DEF Extract, Goes, AtRecord, files, ReaderRight, ReaderTypes
<1>2. PICK rows, before, read, r :
        rows = extracted[t] /\ before = line[t] /\ read = Handled(t) /\ r = RecordOf(t)
  OBVIOUS
<1>3. /\ r \in Record /\ read \in Seq(Record) /\ given[thr[t]] = Append(read, r)
      /\ thr[t] \in DOMAIN given /\ \A q \in ToSet(read) : Ahead(q, r)
  BY <1>1, <1>2, InHands
<1>4. /\ rows \in Seq(Seq(Record)) /\ before \in Seq(Record)
      /\ \A q \in ToSet(before) : Text(q) \notin Dated
  BY <1>2 DEF OutputTypes
<1>5. Extracts(rows, read)
  BY <1>1, <1>2, <1>3, ExtractedBy DEF Reading
<1>6. PICK more :
        more = IF Text(r) \in Dated THEN Append(WithTitles(rows), Append(before, r))
            ELSE WithTitles(rows)
  OBVIOUS
<1>7. Extracts(more, Append(read, r))
  BY <1>3, <1>4, <1>5, <1>6, ExtractsOneMore, Zenon
<1>8. extracted' = [extracted EXCEPT ![t] = more]
  BY <1>2, <1>6, Zenon DEF Extract, HasTime, WithTitles
<1>9. /\ extracted \in [Threads -> Seq(Seq(Record))]
      /\ extracted'[t] = more /\ \A u \in Threads : u # t => extracted'[u] = extracted[u]
  BY <1>8 DEF OutputTypes
<1>10. Handled(t)' = Append(read, r)
  BY <1>1, <1>3 DEF Handled, AtRecord
<1>11. Extracts(extracted[t], Handled(t))'
  <2>1. PICK handled : handled = Append(read, r)
    OBVIOUS
  <2>2. Extracts(more, handled)'
    BY <1>1, <1>7, <2>1, SameExtracts
  <2> QED BY <1>9, <1>10, <2>1, <2>2
<1>12. ASSUME NEW u \in Threads, u # t, Reading(u)'
       PROVE  Extracts(extracted[u], Handled(u))'
  <2>1. Reading(u) /\ Handled(u)' = Handled(u)
    BY <1>1, <1>12 DEF Reading, Handled, AtRecord
  <2>2. PICK old, had : old = extracted[u] /\ had = Handled(u)
    OBVIOUS
  <2>3. Extracts(old, had)'
    BY <1>1, <2>1, <2>2, ExtractedBy, SameExtracts
  <2> QED BY <1>9, <1>12, <2>1, <2>2, <2>3
<1> QED BY <1>11, <1>12, ExtractedByNext

-----------------------------------------------------------------------------
(* arrange.                                                                *)

\* What arrange has written for a vehicle when it is done with `its` records.
Arranges(rows, its) ==
  rows # <<>> =>
    LET ends == LastOfEach(Tail(rows))
    IN  /\ Head(rows) = TitlesRow
        /\ InOrder(ends) /\ ToSet(ends) \subseteq its
        /\ \A q \in ToSet(ends), r \in its : Ahead(q, r) => r \in ToSet(ends)

\* One more record for a vehicle's file.
LEMMA ArrangesOneMore ==
  ASSUME NEW rows \in Seq(Seq(Record)), NEW its, its \subseteq Record, Arranges(rows, its),
         NEW r \in Record, \A q \in its : Ahead(q, r)
  PROVE  Arranges(WithTitles(rows) \o <<<<r>>>>, its \cup {r})
<1>1. PICK all : all = WithTitles(rows)
  OBVIOUS
<1>2. PICK ends : ends = LastOfEach(Tail(all))
  OBVIOUS
<1>3. /\ all \in Seq(Seq(Record)) /\ all # <<>> /\ Head(all) = TitlesRow
      /\ InOrder(ends) /\ ToSet(ends) \subseteq its
      /\ \A q \in ToSet(ends), x \in its : Ahead(q, x) => x \in ToSet(ends)
  <2>1. CASE rows = <<>>
    <3>1. all = <<TitlesRow>> /\ TitlesRow \in Seq(Record)
      BY <1>1, <2>1 DEF WithTitles, TitlesRow
    <3>2. all \in Seq(Seq(Record)) /\ all # <<>>
      BY <3>1
    <3>3. Head(all) = TitlesRow /\ ToSet(ends) = {} /\ InOrder(ends)
      BY <1>2, <3>1, TitlesOnly, Zenon
    <3> QED BY <3>2, <3>3
  <2>2. CASE rows # <<>>
    BY <1>1, <1>2, <2>2, Zenon DEF Arranges, WithTitles
  <2> QED BY <2>1, <2>2
<1>4. PICK row : row = <<r>>
  OBVIOUS
<1>5. row \in Seq(Record) /\ Last(row) = r
  <2>1. row \in Seq(Record) /\ Len(row) = 1 /\ row[1] = r
    BY <1>4
  <2> QED BY <2>1 DEF Last
<1>6. PICK more : more = Append(all, row)
  OBVIOUS
<1>7. /\ Head(more) = Head(all)
      /\ ToSet(LastOfEach(Tail(more))) = ToSet(ends) \cup {r}
      /\ InOrder(ends) /\ (\A q \in ToSet(ends) : Ahead(q, r)) => InOrder(LastOfEach(Tail(more)))
  BY <1>2, <1>3, <1>5, <1>6, RowOfRecords, Zenon
<1>8. InOrder(LastOfEach(Tail(more)))
  BY <1>3, <1>7
<1>9. ASSUME NEW q \in ToSet(ends) \cup {r}, NEW x \in its \cup {r}, Ahead(q, x)
      PROVE  x \in ToSet(ends) \cup {r}
  <2>1. q \in Record /\ x \in Record /\ (x \in its => Ahead(x, r))
    BY <1>3
  <2>2. q = r /\ x \in its => FALSE
    BY <1>9, <2>1, Trans
  <2> QED BY <1>3, <1>9, <2>2
<1>10. WithTitles(rows) \o <<<<r>>>> = more
  BY <1>1, <1>3, <1>4, <1>5, <1>6
<1>11. ToSet(ends) \cup {r} \subseteq its \cup {r}
  BY <1>3
<1> QED BY <1>3, <1>7, <1>8, <1>9, <1>10, <1>11, Zenon DEF Arranges

\* The records of the vehicle that arrange is done with.
Its(v) == {r \in ToSet(Handled(1)) : No[Text(r)] = v}

\* ArrangedInOrder, vehicle by vehicle.
LEMMA ArrangedBy ==
  ArrangedInOrder <=>
    (program = "arrange" /\ Reading(1) => \A v \in Vehicles : Arranges(arranged[v], Its(v)))
BY Zenon DEF ArrangedInOrder, Arranges, Its

\* The same after a step.
LEMMA ArrangedByNext ==
  (ArrangedInOrder <=>
    (program = "arrange" /\ Reading(1) => \A v \in Vehicles : Arranges(arranged[v], Its(v))))'
BY ArrangedBy, PTL

\* Arranges depends on its arguments alone.
LEMMA SameArranges ==
  ASSUME NEW rows, NEW its
  PROVE  Arranges(rows, its)' <=> Arranges(rows, its)
BY DEF Arranges

\* A step that writes no line and gives no record back to arrange.
LEMMA ArrangedFrame ==
  ASSUME UNCHANGED <<csvFiles, program, arranged>>, ArrangedInOrder,
         program = "arrange" => Handled(1)' = Handled(1) /\ (Reading(1)' <=> Reading(1))
  PROVE  ArrangedInOrder'
<1> SUFFICES ASSUME program' = "arrange", Reading(1)', NEW v \in Vehicles
             PROVE  Arranges(arranged[v], Its(v))'
  BY ArrangedByNext
<1>1. PICK rows, its : rows = arranged[v] /\ its = Its(v)
  OBVIOUS
<1>2. Arranges(rows, its)'
  BY <1>1, ArrangedBy, SameArranges
<1>3. Its(v)' = its
  BY <1>1, SameText DEF Its
<1> QED BY <1>1, <1>2, <1>3

\* arrange is done with one more record, of which it has written a row or none.
LEMMA ArrangedOneMore ==
  ASSUME ReaderRight, OutputTypes, ArrangedInOrder, NEW t \in Threads, Arrange(t) \/ ArrangePasses(t)
  PROVE  ArrangedInOrder'
<1>1. /\ pc[t] = "record" /\ program = "arrange" /\ UNCHANGED <<csvFiles, thr, given, program>>
      /\ pc' = [pc EXCEPT ![t] = "next"] /\ pc'[t] = "next"
  BY DEF Arrange, ArrangePasses, Goes, AtRecord, files, ReaderRight, ReaderTypes
<1>2. t = 1
  <2>1. Shares[t][1] <= Shares[t][2]
    <3>1. thr[t] \in Shares[t][1] .. Shares[t][2] /\ Shares[t][1] \in Nat \ {0}
            /\ Shares[t][2] \in Nat
      BY <1>1, InShare, SharesFacts DEF ReaderRight, ReaderTypes
    <3> HIDE DEF Shares
    <3> QED BY <3>1
  <2>2. t # 1 => Shares[t] = <<1, 0>>
    BY <1>1 DEF Shares, Arranging, Nobody
  <2> QED BY <2>1, <2>2
<1>3. PICK read, r : read = Handled(1) /\ r = RecordOf(1)
  OBVIOUS
<1>4. /\ r \in Record /\ read \in Seq(Record) /\ given[thr[1]] = Append(read, r)
      /\ thr[1] \in DOMAIN given /\ \A q \in ToSet(read) : Ahead(q, r)
  BY <1>1, <1>2, <1>3, InHands
<1>5. Handled(1)' = Append(read, r) /\ Reading(1)
  BY <1>1, <1>2, <1>4 DEF Handled, AtRecord, Reading
<1>6. ToSet(Append(read, r)) = ToSet(read) \cup {r}
  BY <1>4, AppendSet
<1>7. \A v : Its(v)' = IF No[Text(r)] = v THEN Its(v) \cup {r} ELSE Its(v)
  <2> SUFFICES ASSUME NEW v PROVE Its(v)' = IF No[Text(r)] = v THEN Its(v) \cup {r} ELSE Its(v)
    OBVIOUS
  <2>1. \A q : No[Text(q)]' = No[Text(q)]
    BY <1>1, SameText
  <2>2. Its(v)' = {q \in ToSet(read) \cup {r} : No[Text(q)] = v}
    BY <1>5, <1>6, <2>1 DEF Its
  <2>3. Its(v) = {q \in ToSet(read) : No[Text(q)] = v}
    BY <1>3 DEF Its
  <2> QED BY <2>2, <2>3
<1>8. ToSet(read) \subseteq Record
  BY <1>4 DEF ToSet
<1>9. ASSUME NEW v \in Vehicles
      PROVE  Arranges(arranged[v], Its(v))'
  <2>1. PICK rows, its : rows = arranged[v] /\ its = Its(v)
    OBVIOUS
  <2>2. /\ rows \in Seq(Seq(Record)) /\ its \subseteq Record /\ Arranges(rows, its)
        /\ \A q \in its : Ahead(q, r)
    <3>1. rows \in Seq(Seq(Record))
      BY <2>1 DEF OutputTypes
    <3>2. its \subseteq ToSet(read)
      BY <1>3, <2>1 DEF Its
    <3>3. Arranges(rows, its)
      BY <1>1, <1>5, <2>1, ArrangedBy
    <3> QED BY <1>4, <1>8, <3>1, <3>2, <3>3
  <2>3. CASE No[Text(r)] # v
    <3>1. arranged'[v] = rows
      BY <1>2, <1>3, <2>1, <2>3 DEF Arrange, ArrangePasses, output, OutputTypes
    <3>2. Its(v)' = its
      BY <1>7, <2>1, <2>3
    <3>3. Arranges(rows, its)'
      BY <2>2, SameArranges
    <3> QED BY <3>1, <3>2, <3>3
  <2>4. CASE No[Text(r)] = v
    <3>1. PICK all : all = its \cup {r}
      OBVIOUS
    <3>2. Its(v)' = all
      BY <1>7, <2>1, <2>4, <3>1
    <3>3. CASE Arrange(t)
      <4>1. PICK more : more = WithTitles(rows) \o <<<<r>>>>
        OBVIOUS
      <4>2. arranged' = [arranged EXCEPT ![v] = WithTitles(arranged[v]) \o <<<<r>>>>]
        BY <1>2, <1>3, <2>4, <3>3, Zenon DEF Arrange, WithTitles
      <4>3. arranged'[v] = more
        BY <2>1, <4>1, <4>2 DEF OutputTypes
      <4>4. Arranges(more, all)
        BY <1>4, <2>2, <3>1, <4>1, ArrangesOneMore, Zenon
      <4>5. Arranges(more, all)'
        BY <4>4, SameArranges
      <4> QED BY <3>2, <4>3, <4>5
    <3>4. CASE ArrangePasses(t)
      <4>1. rows = <<>> /\ arranged'[v] = rows
        BY <1>2, <1>3, <2>1, <2>4, <3>4 DEF ArrangePasses, output
      <4>2. Arranges(rows, all)'
        BY <4>1 DEF Arranges
      <4> QED BY <3>2, <4>1, <4>2
    <3> QED BY <3>3, <3>4
  <2> QED BY <2>3, <2>4
<1> QED BY <1>9, ArrangedByNext

-----------------------------------------------------------------------------
(* sort.                                                                   *)

\* A file that sort wrote when it had read subset i.
SortedFrom(rows, no, i) ==
  LET ends == LastOfEach(Tail(rows)) IN
  /\ Head(rows) = TitlesRow
  /\ Ascending(ends) /\ IsInjective(ends)
  /\ i \in DOMAIN given /\ given[i] # <<>> /\ No[Text(Head(given[i]))] = no
  /\ ToSet(ends) = {r \in ToSet(given[i]) : Text(r) \in Whole}

\* SortedRight, file by file.
LEMMA SortedBy ==
  SortedRight <=>
    \A no \in DOMAIN sorted : sorted[no] # <<>>
        => \E i : ReadBySort(i) /\ SortedFrom(sorted[no], no, i)
BY Zenon DEF SortedRight, SortedFrom

\* The same after a step.
LEMMA SortedByNext ==
  (SortedRight <=>
    \A no \in DOMAIN sorted : sorted[no] # <<>>
        => \E i : ReadBySort(i) /\ SortedFrom(sorted[no], no, i))'
BY SortedBy, PTL

\* SortedFrom depends on the files and on what was given of the subset alone.
LEMMA SameSorted ==
  ASSUME UNCHANGED csvFiles, NEW i, i \in DOMAIN given, i \in DOMAIN given', given'[i] = given[i],
         NEW rows, NEW no
  PROVE  SortedFrom(rows, no, i)' <=> SortedFrom(rows, no, i)
<1>1. \A r : Text(r)' = Text(r)
  BY SameText
<1>2. Ascending(LastOfEach(Tail(rows)))' <=> Ascending(LastOfEach(Tail(rows)))
  BY <1>1, Zenon DEF Ascending, LastOfEach
<1>3. LastOfEach(Tail(rows))' = LastOfEach(Tail(rows))
  BY DEF LastOfEach
<1> QED BY <1>1, <1>2, <1>3, Zenon DEF SortedFrom

\* A step after which sort does not come back to a subset either.
LEMMA SortedFrame ==
  ASSUME UNCHANGED <<csvFiles, sorted>>, SortedRight,
         \/ \A no \in DOMAIN sorted : sorted[no] = <<>>
         \/ \A i \in DOMAIN given : ReadBySort(i) =>
              i \in DOMAIN given' /\ given'[i] = given[i] /\ ReadBySort(i)'
  PROVE  SortedRight'
<1> SUFFICES ASSUME NEW no \in DOMAIN sorted, sorted[no] # <<>>
             PROVE  \E i : ReadBySort(i)' /\ SortedFrom(sorted[no], no, i)'
  BY SortedByNext
<1>1. PICK rows : rows = sorted[no]
  OBVIOUS
<1>2. PICK i : ReadBySort(i) /\ SortedFrom(rows, no, i)
  BY <1>1, SortedBy
<1>3. i \in DOMAIN given
  BY <1>2 DEF SortedFrom
<1>4. i \in DOMAIN given' /\ given'[i] = given[i] /\ ReadBySort(i)'
  BY <1>2, <1>3
<1>5. SortedFrom(rows, no, i)'
  BY <1>2, <1>3, <1>4, SameSorted
<1> QED BY <1>1, <1>4, <1>5

\* A set of records written in some order, a row each.
LEMMA RowsOfSet ==
  ASSUME NEW set, IsFiniteSet(set), NEW order \in SetToSeqs(set)
  PROVE  LET rows == <<TitlesRow>> \o [n \in DOMAIN order |-> <<order[n]>>]
         IN  /\ rows # <<>> /\ Head(rows) = TitlesRow
             /\ LastOfEach(Tail(rows)) = order
             /\ IsInjective(order) /\ ToSet(order) = set
             /\ order \in Seq(set)
<1>1. PICK c : c = Cardinality(set)
  OBVIOUS
<1>2. c \in Nat
  BY <1>1, FS_CardinalityType
<1>3. order \in [1 .. c -> set] /\ \A i, j \in 1 .. c : i # j => order[i] # order[j]
  BY <1>1 DEF SetToSeqs
<1>4. DOMAIN order = 1 .. c /\ IsInjective(order) /\ order \in Seq(set)
  BY <1>2, <1>3 DEF IsInjective
<1>5. ToSet(order) = set
  <2>1. IsFiniteSet(1 .. c) /\ Cardinality(1 .. c) = c
    BY <1>2, FS_Interval
  <2>2. order \in Injection(1 .. c, set)
    BY <1>3, <1>4 DEF Injection
  <2>3. order \in Surjection(1 .. c, set)
    BY <1>1, <2>1, <2>2, FS_Injection
  <2> QED BY <1>3, <1>4, <2>3 DEF Surjection, ToSet
<1>6. PICK its : its = [n \in DOMAIN order |-> <<order[n]>>]
  OBVIOUS
<1>7. its \in Seq(Seq(set)) /\ Len(its) = c /\ DOMAIN its = 1 .. c
        /\ \A n \in 1 .. c : its[n] = <<order[n]>>
  BY <1>2, <1>3, <1>4, <1>6
<1>8. PICK rows : rows = <<TitlesRow>> \o its
  OBVIOUS
<1>9. Len(rows) = c + 1 /\ rows # <<>> /\ Head(rows) = TitlesRow /\ Tail(rows) = its
  <2>1. TitlesRow \in Seq(set)
    BY DEF TitlesRow
  <2>2. Len(rows) = c + 1 /\ rows \in Seq(Seq(set)) /\ rows[1] = TitlesRow
          /\ \A n \in 1 .. c : rows[n + 1] = its[n]
    BY <1>2, <1>7, <1>8, <2>1
  <2>3. rows # <<>> /\ Head(rows) = TitlesRow
    BY <1>2, <2>2
  <2>4. Tail(rows) \in Seq(Seq(set)) /\ Len(Tail(rows)) = c
          /\ \A n \in 1 .. c : Tail(rows)[n] = its[n]
    BY <1>2, <2>2
  <2>5. Tail(rows) = its
    BY <1>2, <1>7, <2>4
  <2> QED BY <2>2, <2>3, <2>5
<1>10. \A x : Last(<<x>>) = x
  BY DEF Last
<1>11. LastOfEach(its) = order
  BY <1>3, <1>4, <1>7, <1>10, Zenon DEF LastOfEach
<1> QED BY <1>4, <1>5, <1>6, <1>8, <1>9, <1>11, Zenon

\* sort, arrange: the other threads have nothing to do.
LEMMA OnlyFirst ==
  ASSUME ReaderRight, program \in {"arrange", "sort"}, NEW t \in Threads, pc[t] # "done"
  PROVE  t = 1
<1>1. Shares[t][1] <= Shares[t][2]
  <2>1. thr[t] \in Shares[t][1] .. Shares[t][2] /\ Shares[t][1] \in Nat \ {0} /\ Shares[t][2] \in Nat
    BY InShare, SharesFacts DEF ReaderRight, ReaderTypes
  <2> HIDE DEF Shares
  <2> QED BY <2>1
<1>2. t # 1 => Shares[t] = <<1, 0>>
  BY DEF Shares, Arranging, Sorting, Nobody
<1> QED BY <1>1, <1>2

\* sort keeps what it promises when it writes a file.
LEMMA SortedFile ==
  ASSUME ReaderRight, SortedRight, NEW t \in Threads, SortWrites(t)
  PROVE  SortedRight'
<1>1. /\ pc[t] = "false" /\ program = "sort" /\ UNCHANGED <<csvFiles, thr, given, program>>
      /\ pc'[t] = "written" /\ pc[1] = "false" /\ t = 1
  BY OnlyFirst DEF SortWrites, Goes, files, ReaderRight, ReaderTypes
<1>2. PICK here : here = thr[1]
  OBVIOUS
<1>3. here \in DOMAIN given /\ given[here] \in Seq(Record) /\ ReadBySort(here)'
  BY <1>1, <1>2 DEF ReaderRight, ReaderTypes, ThreadRight, ReadBySort
<1>4. \A i : ReadBySort(i) => ReadBySort(i)'
  BY <1>1 DEF ReadBySort
<1>5. CASE UNCHANGED sorted
  BY <1>1, <1>4, <1>5, SortedFrame
<1>6. CASE ~UNCHANGED sorted
  <2>1. PICK all, whole : all = given[here] /\ whole = {r \in ToSet(all) : Text(r) \in Whole}
    OBVIOUS
  <2>2. PICK order \in SetToSeqs(whole) :
          /\ all # <<>> /\ Ascending(order)
          /\ sorted' = [sorted EXCEPT ![No[Text(Head(all))]] =
                          <<TitlesRow>> \o [n \in DOMAIN order |-> <<order[n]>>]]
    BY <1>1, <1>2, <1>6, <2>1, Zenon DEF SortWrites
  <2>3. PICK rows : rows = <<TitlesRow>> \o [n \in DOMAIN order |-> <<order[n]>>]
    OBVIOUS
  <2>4. IsFiniteSet(whole)
    <3>1. IsFiniteSet(DOMAIN all)
      <4>1. DOMAIN all = 1 .. Len(all) /\ Len(all) \in Int /\ 1 \in Int
        BY <1>3, <2>1
      <4> QED BY <4>1, FS_Interval
    <3>2. all \in Surjection(DOMAIN all, ToSet(all))
      BY <1>3, <2>1 DEF Surjection, ToSet
    <3>3. IsFiniteSet(ToSet(all))
      BY <3>1, <3>2, FS_Surjection
    <3> QED BY <2>1, <3>3, FS_Subset
  <2>5. /\ rows # <<>> /\ Head(rows) = TitlesRow /\ LastOfEach(Tail(rows)) = order
        /\ IsInjective(order) /\ ToSet(order) = whole
    BY <2>3, <2>4, RowsOfSet, Zenon
  <2>6. SortedFrom(rows, No[Text(Head(all))], here)
    BY <1>3, <2>1, <2>2, <2>5, Zenon DEF SortedFrom
  <2>7. ASSUME NEW no \in DOMAIN sorted', sorted'[no] # <<>>
        PROVE  \E i : ReadBySort(i)' /\ SortedFrom(sorted[no], no, i)'
    <3>1. CASE no = No[Text(Head(all))]
      <4>1. sorted'[no] = rows
        BY <2>2, <2>3, <2>7, <3>1
      <4>2. SortedFrom(rows, no, here)'
        BY <1>1, <1>3, <2>6, <3>1, SameSorted
      <4> QED BY <1>3, <4>1, <4>2
    <3>2. CASE no # No[Text(Head(all))]
      <4>1. PICK old : old = sorted[no]
        OBVIOUS
      <4>2. sorted'[no] = old /\ no \in DOMAIN sorted
        BY <2>2, <2>7, <3>2, <4>1
      <4>3. PICK i : ReadBySort(i) /\ SortedFrom(old, no, i)
        BY <2>7, <4>1, <4>2, SortedBy
      <4>4. i \in DOMAIN given
        BY <4>3 DEF SortedFrom
      <4>5. SortedFrom(old, no, i)'
        BY <1>1, <4>3, <4>4, SameSorted
      <4> QED BY <1>4, <4>2, <4>3, <4>5
    <3> QED BY <3>1, <3>2
  <2> QED BY <2>7, SortedByNext
<1> QED BY <1>5, <1>6

-----------------------------------------------------------------------------
(* The output: the threads.                                                *)

\* A step that writes nothing keeps the types of the output.
LEMMA SameOutputTypes ==
  ASSUME OutputTypes, UNCHANGED <<csvFiles, program>>, UNCHANGED output,
         round' = 1 /\ ~started' => round = 1 /\ ~started,
         started' \/ round' > 1 => started \/ round > 1,
         program = "extra" => thr' = thr,
         program = "arrange" => thr'[1] = thr[1]
  PROVE  OutputTypes'
<1>1. \A r : Text(r)' = Text(r)
  BY SameText
<1>2. UNCHANGED <<line, extracted, arranged, sorted>>
  BY DEF output
<1> QED BY <1>1, <1>2 DEF OutputTypes

\* Of extract and arrange only these steps write nothing, in the same subset.
LEMMA SameThread ==
  ASSUME ReaderRight, OutputTypes, NEW t \in Threads, Reads(t) \/ UseRecord(t) \/ GivesUp(t)
           \/ NextSubset(t),
         program \in {"extra", "arrange"}
  PROVE  (Reads(t) \/ NextSubset(t)) /\ thr' = thr
<1>1. Reads(t) \/ NextSubset(t)
  BY DEF UseRecord, GivesUp
<1>2. CASE Reads(t)
  BY <1>2 DEF Reads, TakeRecord, NextFails, NextFile, SetTitles, ReadLines
<1>3. CASE NextSubset(t)
  <2>1. pc[t] # "done" /\ started /\ thr[t] \in Nat
    <3>1. pc[t] # "done"
      BY <1>3 DEF NextSubset
    <3> QED BY <3>1, InShare DEF ReaderRight, ReaderTypes
  <2>2. Shares[t][2] = thr[t]
    <3>1. CASE program = "extra"
      BY <2>1, <3>1 DEF Shares, Extra, OutputTypes
    <3>2. CASE program = "arrange"
      BY <2>1, <3>2, OnlyFirst DEF Shares, Arranging, OutputTypes
    <3> QED BY <3>1, <3>2
  <2> HIDE DEF Shares
  <2> QED BY <1>3, <2>1, <2>2 DEF NextSubset
<1> QED BY <1>1, <1>2, <1>3

\* The steps of a thread that write nothing keep the invariant of the output.
LEMMA OutputStays ==
  ASSUME ReaderRight, OutputRight, NEW t \in Threads, Reads(t) \/ UseRecord(t) \/ GivesUp(t)
           \/ NextSubset(t)
  PROVE  OutputRight'
<1>1. UNCHANGED <<csvFiles, program, round, started>> /\ UNCHANGED output
  BY DEF Reads, TakeRecord, NextFails, NextFile, SetTitles, ReadLines, UseRecord, GivesUp,
     NextSubset, files
<1>2. UNCHANGED <<line, extracted, arranged, sorted>>
  BY <1>1 DEF output
<1>3. program \in {"extra", "arrange"} => (Reads(t) \/ NextSubset(t)) /\ thr' = thr
  BY SameThread DEF OutputRight
<1>4. OutputTypes'
  BY <1>1, <1>3, SameOutputTypes DEF OutputRight
<1>5. ExtractedInOrder'
  <2>1. program = "extra" => \A u \in Threads :
          Handled(u)' = Handled(u) /\ (Reading(u)' <=> Reading(u))
    BY <1>3, HandledStays DEF OutputRight
  <2> QED BY <1>1, <1>2, <2>1, ExtractedFrame DEF OutputRight
<1>6. ArrangedInOrder'
  <2>1. program = "arrange" => Handled(1)' = Handled(1) /\ (Reading(1)' <=> Reading(1))
    BY <1>3, HandledStays, TerminalAssumption DEF OutputRight
  <2> QED BY <1>1, <1>2, <2>1, ArrangedFrame DEF OutputRight
<1>7. SortedRight'
  <2>1. CASE program # "sort"
    BY <1>1, <1>2, <2>1, SortedFrame DEF OutputRight, OutputTypes
  <2>2. CASE program = "sort"
    <3>1. pc[t] # "done"
      BY DEF Reads, TakeRecord, NextFails, NextFile, SetTitles, ReadLines, AtNext, UseRecord,
         GivesUp, NextSubset, AtRecord
    <3>2. t = 1
      BY <2>2, <3>1, OnlyFirst
    <3>3. PICK here : here = thr[1]
      OBVIOUS
    <3>4. here \in Nat /\ DOMAIN given \subseteq Nat
      <4>1. thr \in [Threads -> Nat] /\ 1 \in Threads /\ DOMAIN given = DOMAIN fromTo
              /\ fromTo \in Seq(Nat \X Nat)
        BY TerminalAssumption DEF ReaderRight, ReaderTypes
      <4> QED BY <3>3, <4>1
    <3> SUFFICES ASSUME NEW i \in DOMAIN given, ReadBySort(i)
                 PROVE  i \in DOMAIN given' /\ given'[i] = given[i] /\ ReadBySort(i)'
      BY <1>1, <1>2, SortedFrame DEF OutputRight
    <3>5. CASE Reads(t) /\ TakeRecord(t)
      <4>1. i < here
        BY <3>2, <3>3, <3>5 DEF TakeRecord, AtNext, ReadBySort
      <4>2. given' = [given EXCEPT ![here] =
                               Append(@, recordsPerFile[here][indexOfRecords[here] + 1])]
            /\ thr' = thr
        BY <3>2, <3>3, <3>5, Zenon DEF TakeRecord
      <4>3. i # here
        BY <3>4, <4>1
      <4> QED BY <3>3, <4>1, <4>2, <4>3 DEF ReadBySort
    <3>6. CASE Reads(t) /\ ~TakeRecord(t)
      BY <3>2, <3>6 DEF Reads, NextFails, NextFile, SetTitles, ReadLines, AtNext, ReadBySort
    <3>7. CASE UseRecord(t) \/ GivesUp(t)
      BY <2>2, <3>2, <3>7 DEF UseRecord, GivesUp, AtRecord, ReadBySort
    <3>8. CASE NextSubset(t)
      <4>1. given' = given /\ pc[1] = "written" /\ i <= here
        BY <2>2, <3>2, <3>3, <3>4, <3>8 DEF NextSubset, ReadBySort
      <4>2. (thr'[1] = here + 1) \/ (thr'[1] = here /\ pc'[1] = "done")
        <5> HIDE DEF Shares
        <5> QED BY <3>2, <3>3, <3>4, <3>8, TerminalAssumption
                   DEF NextSubset, Goes, ReaderRight, ReaderTypes
      <4> QED BY <3>4, <4>1, <4>2 DEF ReadBySort
    <3> QED BY <3>5, <3>6, <3>7, <3>8
  <2> QED BY <2>1, <2>2
<1> QED BY <1>4, <1>5, <1>6, <1>7 DEF OutputRight

\* The types of a file that gets a row more.
LEMMA RowsTypes ==
  ASSUME NEW rows \in Seq(Seq(Record))
  PROVE  /\ WithTitles(rows) \in Seq(Seq(Record))
         /\ \A row \in Seq(Record) : /\ Append(WithTitles(rows), row) \in Seq(Seq(Record))
                                     /\ WithTitles(rows) \o <<row>> \in Seq(Seq(Record))
<1>1. PICK all : all = WithTitles(rows)
  OBVIOUS
<1>2. all \in Seq(Seq(Record))
  BY <1>1 DEF WithTitles, TitlesRow
<1> QED BY <1>1, <1>2

\* extract keeps the invariant of the output.
LEMMA OutputOfExtract ==
  ASSUME ReaderRight, OutputRight, NEW t \in Threads, Extract(t)
  PROVE  OutputRight'
<1>1. /\ pc[t] = "record" /\ program = "extra"
      /\ UNCHANGED <<csvFiles, thr, given, program, round, started, arranged, sorted>>
  BY DEF Extract, AtRecord, files
<1>2. started
  BY <1>1, InShare
<1>3. PICK r : r = RecordOf(t)
  OBVIOUS
<1>4. r \in Record
  BY <1>1, <1>3, InHands
<1>5. PICK before, rows : before = line[t] /\ rows = extracted[t]
  OBVIOUS
<1>6. /\ before \in Seq(Record) /\ rows \in Seq(Seq(Record))
      /\ \A q \in ToSet(before) : Text(q) \notin Dated
  BY <1>5 DEF OutputRight, OutputTypes
<1>7. PICK all : all = Append(before, r)
  OBVIOUS
<1>8. all \in Seq(Record) /\ ToSet(all) = ToSet(before) \cup {r}
  BY <1>4, <1>6, <1>7, AppendSet
<1>9. line' = [line EXCEPT ![t] = IF Text(r) \in Dated THEN <<>> ELSE all]
  BY <1>3, <1>5, <1>7, Zenon DEF Extract, HasTime
<1>10. line' \in [Threads -> Seq(Record)]
         /\ \A u \in Threads : \A q \in ToSet(line'[u]) : Text(q) \notin Dated
  <2>1. line \in [Threads -> Seq(Record)]
    BY DEF OutputRight, OutputTypes
  <2>2. ToSet(<<>>) = {}
    BY DEF ToSet
  <2>3. <<>> \in Seq(Record)
    OBVIOUS
  <2>4. ASSUME NEW u \in Threads PROVE \A q \in ToSet(line'[u]) : Text(q) \notin Dated
    <3>1. CASE u # t
      BY <1>9, <2>1, <3>1 DEF OutputRight, OutputTypes
    <3>2. CASE u = t /\ Text(r) \in Dated
      <4>1. line'[u] = <<>>
        BY <1>9, <2>1, <3>2
      <4> QED BY <2>2, <4>1
    <3>3. CASE u = t /\ Text(r) \notin Dated
      <4>1. line'[u] = all
        BY <1>9, <2>1, <3>3
      <4> QED BY <1>6, <1>8, <3>3, <4>1
    <3> QED BY <3>1, <3>2, <3>3
  <2> QED BY <1>8, <1>9, <2>1, <2>3, <2>4
<1>11. extracted' = [extracted EXCEPT ![t] =
         IF Text(r) \in Dated THEN Append(WithTitles(rows), all) ELSE WithTitles(rows)]
  BY <1>3, <1>5, <1>7, Zenon DEF Extract, HasTime, WithTitles
<1>12. extracted' \in [Threads -> Seq(Seq(Record))]
  <2>1. WithTitles(rows) \in Seq(Seq(Record)) /\ Append(WithTitles(rows), all) \in Seq(Seq(Record))
    BY <1>6, <1>8, RowsTypes
  <2> QED BY <1>11, <2>1 DEF OutputRight, OutputTypes
<1>13. \A q : Text(q)' = Text(q)
  BY <1>1, SameText
<1>14. OutputTypes'
  BY <1>1, <1>2, <1>10, <1>12, <1>13 DEF OutputRight, OutputTypes
<1>15. ExtractedInOrder'
  BY ExtractedOneMore DEF OutputRight
<1>16. ArrangedInOrder'
  BY <1>1 DEF ArrangedInOrder
<1>17. SortedRight'
  BY <1>1, SortedFrame DEF OutputRight, OutputTypes
<1> QED BY <1>14, <1>15, <1>16, <1>17 DEF OutputRight

\* arrange keeps it.
LEMMA OutputOfArrange ==
  ASSUME ReaderRight, OutputRight, NEW t \in Threads, Arrange(t) \/ ArrangePasses(t)
  PROVE  OutputRight'
<1>1. /\ pc[t] = "record" /\ program = "arrange"
      /\ UNCHANGED <<csvFiles, thr, given, program, round, started, line, extracted, sorted>>
  BY DEF Arrange, ArrangePasses, AtRecord, files, output
<1>2. started
  BY <1>1, InShare
<1>3. PICK row : row = <<RecordOf(t)>>
  OBVIOUS
<1>4. row \in Seq(Record)
  BY <1>1, <1>3, InHands
<1>5. arranged' \in [Vehicles -> Seq(Seq(Record))]
  <2>1. CASE UNCHANGED arranged
    BY <2>1 DEF OutputRight, OutputTypes
  <2>2. CASE Arrange(t)
    <3>1. PICK no \in Vehicles :
            arranged' = [arranged EXCEPT ![no] = WithTitles(arranged[no]) \o <<row>>]
      BY <1>3, <2>2, Zenon DEF Arrange, WithTitles
    <3>2. PICK rows : rows = arranged[no]
      OBVIOUS
    <3>3. rows \in Seq(Seq(Record))
      BY <3>2 DEF OutputRight, OutputTypes
    <3>4. WithTitles(rows) \o <<row>> \in Seq(Seq(Record))
      BY <1>4, <3>3, RowsTypes
    <3> QED BY <3>1, <3>2, <3>4 DEF OutputRight, OutputTypes
  <2> QED BY <2>1, <2>2 DEF ArrangePasses, output
<1>6. \A q : Text(q)' = Text(q)
  BY <1>1, SameText
<1>7. OutputTypes'
  BY <1>1, <1>2, <1>5, <1>6 DEF OutputRight, OutputTypes
<1>8. ExtractedInOrder'
  BY <1>1 DEF ExtractedInOrder
<1>9. ArrangedInOrder'
  BY ArrangedOneMore DEF OutputRight
<1>10. SortedRight'
  BY <1>1, SortedFrame DEF OutputRight, OutputTypes
<1> QED BY <1>7, <1>8, <1>9, <1>10 DEF OutputRight

\* sort keeps it.
LEMMA OutputOfSort ==
  ASSUME ReaderRight, OutputRight, NEW t \in Threads, SortWrites(t)
  PROVE  OutputRight'
<1>1. /\ pc[t] = "false" /\ program = "sort"
      /\ UNCHANGED <<csvFiles, thr, given, program, round, started, line, extracted, arranged>>
  BY DEF SortWrites, files
<1>2. started
  BY <1>1, InShare
<1>3. \A q : Text(q)' = Text(q)
  BY <1>1, SameText
<1>4. OutputTypes'
  BY <1>1, <1>2, <1>3 DEF OutputRight, OutputTypes
<1>5. ExtractedInOrder' /\ ArrangedInOrder'
  BY <1>1 DEF ExtractedInOrder, ArrangedInOrder
<1>6. SortedRight'
  BY SortedFile DEF OutputRight
<1> QED BY <1>4, <1>5, <1>6 DEF OutputRight

-----------------------------------------------------------------------------
(* The output: the main thread, and the theorem.                           *)

\* It holds when a round starts: nothing is written before the first.
LEMMA OutputAtStart ==
  ASSUME ReaderRight, OutputRight, StartRound
  PROVE  OutputRight'
<1>1. /\ ~Over /\ ~started /\ started' = TRUE /\ csvFiles' = csvFiles /\ UNCHANGED <<program, round>>
      /\ UNCHANGED <<line, extracted, arranged, sorted>>
      /\ thr' = [t \in Threads |-> Shares[t][1]]
      /\ pc' = [t \in Threads |-> IF Shares[t][1] <= Shares[t][2] THEN "next" ELSE "done"]
  BY DEF StartRound, Split, files, output
<1>2. program # "multi_test" => round = 1
  BY <1>1 DEF Over, Rounds, ReaderRight, RoundRight
<1>3. (program = "extra" => \A t \in Threads : thr'[t] = t) /\ (program = "arrange" => thr'[1] = 1)
  BY <1>1, TerminalAssumption DEF Shares, Extra, Arranging
<1>4. \A r : Text(r)' = Text(r)
  BY <1>1, SameText
<1>5. OutputTypes'
  BY <1>1, <1>3, <1>4 DEF OutputRight, OutputTypes
<1>6. \A i \in DOMAIN given' : given'[i] = <<>>
  <2>1. CASE Split(Pieces)
    BY <2>1 DEF Split
  <2>2. CASE Pieces > Len(csvFiles) /\ UNCHANGED given
    BY <2>2 DEF ReaderRight, ReaderTypes, RoundRight
  <2> QED BY <2>1, <2>2 DEF StartRound
<1>7. \A t \in Threads : ~AtRecord(t)' /\ (Reading(t)' => Handled(t)' = <<>>)
  <2> HIDE DEF Shares
  <2>1. \A t \in Threads : pc'[t] # "record"
    BY <1>1
  <2> QED BY <1>6, <2>1 DEF AtRecord, Reading, Handled
<1>8. ExtractedInOrder'
  <2>1. program = "extra" => \A t \in Threads : extracted[t] = <<>>
    BY <1>1, <1>2 DEF OutputRight, OutputTypes
  <2>2. ASSUME NEW t \in Threads, program' = "extra", Reading(t)'
        PROVE  Extracts(extracted[t], Handled(t))'
    BY <1>1, <1>7, <2>1, <2>2 DEF Extracts
  <2> QED BY <2>2, ExtractedByNext
<1>9. ArrangedInOrder'
  <2>1. program = "arrange" => \A v \in Vehicles : arranged[v] = <<>>
    BY <1>1, <1>2 DEF OutputRight, OutputTypes
  <2>2. ASSUME NEW v \in Vehicles, program' = "arrange"
        PROVE  Arranges(arranged[v], Its(v))'
    BY <1>1, <2>1, <2>2 DEF Arranges
  <2> QED BY <2>2, ArrangedByNext
<1>10. SortedRight'
  <2>1. \A no \in DOMAIN sorted : sorted[no] = <<>>
    BY <1>1, <1>2 DEF OutputRight, OutputTypes
  <2> QED BY <1>1, <2>1, SortedFrame DEF OutputRight
<1> QED BY <1>5, <1>8, <1>9, <1>10 DEF OutputRight

\* The other steps of the main thread keep it.
LEMMA OutputElsewhere ==
  ASSUME ReaderRight, OutputRight, EndRound \/ DividesByZero \/ Crash \/ UNCHANGED vars
  PROVE  OutputRight'
<1>1. /\ UNCHANGED <<csvFiles, fromTo, given, pc, thr, program>> /\ UNCHANGED output
      /\ UNCHANGED <<line, extracted, arranged, sorted>>
  BY DEF EndRound, DividesByZero, Crash, vars, reader, output
<1>2. (round' = 1 /\ ~started' => round = 1 /\ ~started)
        /\ (started' \/ round' > 1 => started \/ round > 1)
  <2>1. CASE EndRound
    BY <2>1 DEF EndRound, Rounds, ReaderRight, RoundRight
  <2>2. CASE DividesByZero \/ Crash \/ UNCHANGED vars
    BY <2>2 DEF DividesByZero, Crash, vars
  <2> QED BY <2>1, <2>2
<1>3. OutputTypes'
  BY <1>1, <1>2, SameOutputTypes DEF OutputRight
<1>4. \A t \in Threads : Handled(t)' = Handled(t) /\ (Reading(t)' <=> Reading(t))
  BY <1>1 DEF Handled, AtRecord, Reading
<1>5. ExtractedInOrder'
  BY <1>1, <1>4, ExtractedFrame DEF OutputRight
<1>6. ArrangedInOrder'
  BY <1>1, <1>4, ArrangedFrame, TerminalAssumption DEF OutputRight
<1>7. SortedRight'
  BY <1>1, SortedFrame DEF OutputRight, ReadBySort
<1> QED BY <1>3, <1>5, <1>6, <1>7 DEF OutputRight

\* It holds before the first round.
LEMMA InitOutput == Init => OutputRight
<1> SUFFICES ASSUME Init PROVE OutputRight
  OBVIOUS
<1>1. /\ given = <<>> /\ round = 1 /\ started = FALSE
      /\ line = [t \in Threads |-> <<>>] /\ extracted = [t \in Threads |-> <<>>]
      /\ arranged = [v \in Vehicles |-> <<>>] /\ sorted = [no \in {No[l] : l \in DOMAIN No} |-> <<>>]
  BY DEF Init, ReaderInit
<1>2. OutputTypes
  BY <1>1 DEF OutputTypes, ToSet
<1>3. ExtractedInOrder
  BY <1>1 DEF ExtractedInOrder, Reading
<1>4. ArrangedInOrder
  BY <1>1 DEF ArrangedInOrder
<1>5. SortedRight
  BY <1>1 DEF SortedRight
<1> QED BY <1>2, <1>3, <1>4, <1>5 DEF OutputRight

\* Every step keeps it.
LEMMA StepOutput == ReaderRight /\ OutputRight /\ [Next]_vars => OutputRight'
<1> SUFFICES ASSUME ReaderRight, OutputRight, [Next]_vars PROVE OutputRight'
  OBVIOUS
<1>1. CASE StartRound
  BY <1>1, OutputAtStart
<1>2. CASE EndRound \/ DividesByZero \/ Crash \/ UNCHANGED vars
  BY <1>2, OutputElsewhere
<1>3. ASSUME NEW t \in Threads, Thread(t) PROVE OutputRight'
  BY <1>3, OutputStays, OutputOfExtract, OutputOfArrange, OutputOfSort DEF Thread
<1> QED BY <1>1, <1>2, <1>3 DEF Next, Main

\* What extract, arrange and sort write is what they were given, without loss,
\* repetition or disorder, but for what they skip.
THEOREM WritingInOrder == Spec => []WrittenInOrder
<1>1. SortedRight => SortedInOrder
  BY Zenon DEF SortedRight, SortedInOrder
<1>2. OutputRight => WrittenInOrder
  BY <1>1 DEF OutputRight, WrittenInOrder
<1> QED BY <1>2, InitOutput, StepOutput, ReaderIsRight, PTL DEF Spec
=============================================================================
