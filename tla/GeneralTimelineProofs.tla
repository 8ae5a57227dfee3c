------------------------ MODULE GeneralTimelineProofs ------------------------
(***************************************************************************)
(* The run-length compression of compress.h is exact for every set of      *)
(* values and times, every chunk capacity and any number of samples.       *)
(***************************************************************************)
EXTENDS GeneralTimeline, TLAPS

-----------------------------------------------------------------------------
(* What Alloc and SetLast do to a packed store, in terms of positions: the *)
(* facts every proof about a timeline rests on.                            *)

\* A packed store is empty exactly when it has no chunk.
LEMMA EmptyStore ==
  ASSUME NEW S, NEW tl \in Seq(Seq(S)), ChunksPacked(tl)
  PROVE  IsEmpty(tl) <=> tl = <<>>
BY DEF IsEmpty, ChunksPacked

\* Every position holds a node.
LEMMA NodeType ==
  ASSUME NEW S, NEW tl \in Seq(Seq(S)), NEW p \in Positions(tl)
  PROVE  NodeAt(tl, p) \in S
<1>1. PICK c \in 1 .. Len(tl) : p \in {c} \X (1 .. Len(tl[c]))
  BY DEF Positions
<1>2. tl[c] \in Seq(S) /\ p[1] = c /\ p[2] \in 1 .. Len(tl[c])
  BY <1>1
<1> QED BY <1>2 DEF NodeAt

\* The last position is a position, and every other comes before it.
LEMMA LastPosition ==
  ASSUME NEW S, NEW tl \in Seq(Seq(S)), ChunksPacked(tl), tl # <<>>
  PROVE  /\ LastPos(tl) \in Positions(tl)
         /\ NodeAt(tl, LastPos(tl)) = LastNode(tl)
         /\ LastNode(tl) \in S
         /\ \A p \in Positions(tl) : p = LastPos(tl) \/ Before(p, LastPos(tl))
<1> DEFINE c == Len(tl)
<1>1. c \in 1 .. Len(tl) /\ Len(tl[c]) \in Nat \ {0} /\ tl[c] \in Seq(S)
  BY ChunkCapacityAssumption DEF ChunksPacked
<1>2. LastPos(tl) \in {c} \X (1 .. Len(tl[c]))
  BY <1>1 DEF LastPos
<1>3. LastPos(tl) \in Positions(tl)
  BY <1>1, <1>2 DEF Positions
<1>4. NodeAt(tl, LastPos(tl)) = LastNode(tl) /\ LastNode(tl) \in S
  BY <1>1 DEF NodeAt, LastPos, LastNode
<1>5. ASSUME NEW p \in Positions(tl)
      PROVE  p = LastPos(tl) \/ Before(p, LastPos(tl))
  <2>1. PICK d \in 1 .. Len(tl) : p \in {d} \X (1 .. Len(tl[d]))
    BY DEF Positions
  <2>2. Len(tl[d]) \in Nat
    BY <2>1
  <2> QED BY <2>1, <2>2, <1>1 DEF LastPos, Before
<1> QED BY <1>3, <1>4, <1>5

\* Before is a strict order on the positions of a store.
LEMMA BeforeIsStrict ==
  ASSUME NEW S, NEW tl \in Seq(Seq(S)), NEW p \in Positions(tl), NEW q \in Positions(tl)
  PROVE  ~(Before(p, q) /\ Before(q, p)) /\ ~Before(p, p)
<1>1. PICK d \in 1 .. Len(tl) : p \in {d} \X (1 .. Len(tl[d]))
  BY DEF Positions
<1>2. PICK c \in 1 .. Len(tl) : q \in {c} \X (1 .. Len(tl[c]))
  BY DEF Positions
<1>3. Len(tl[d]) \in Nat /\ Len(tl[c]) \in Nat
  OBVIOUS
<1> QED BY <1>1, <1>2, <1>3 DEF Before

\* Writing to the last node leaves the shape and every other node alone.
LEMMA SetLastFacts ==
  ASSUME NEW S, NEW tl \in Seq(Seq(S)), ChunksPacked(tl), tl # <<>>, NEW n \in S
  PROVE  /\ SetLast(tl, n) \in Seq(Seq(S))
         /\ SetLast(tl, n) # <<>>
         /\ SameShape(tl, SetLast(tl, n))
         /\ ChunksPacked(SetLast(tl, n))
         /\ Positions(SetLast(tl, n)) = Positions(tl)
         /\ LastPos(SetLast(tl, n)) = LastPos(tl)
         /\ NodeAt(SetLast(tl, n), LastPos(tl)) = n
         /\ \A p \in Positions(tl) : p # LastPos(tl) =>
              NodeAt(SetLast(tl, n), p) = NodeAt(tl, p)
<1> DEFINE c == Len(tl)
           new == SetLast(tl, n)
<1>1. c \in 1 .. Len(tl) /\ Len(tl[c]) \in 1 .. Len(tl[c]) /\ tl[c] \in Seq(S)
  BY ChunkCapacityAssumption DEF ChunksPacked
<1>2. new = [tl EXCEPT ![c] = [tl[c] EXCEPT ![Len(tl[c])] = n]]
  BY DEF SetLast
<1>3. [tl[c] EXCEPT ![Len(tl[c])] = n] \in Seq(S)
      /\ Len([tl[c] EXCEPT ![Len(tl[c])] = n]) = Len(tl[c])
  BY <1>1
<1>4. new \in Seq(Seq(S)) /\ Len(new) = Len(tl)
  BY <1>1, <1>2, <1>3
<1>5. \A d \in 1 .. Len(tl) : Len(new[d]) = Len(tl[d])
  BY <1>1, <1>2, <1>3
<1> HIDE DEF new
<1>6. SameShape(tl, new) /\ ChunksPacked(new) /\ LastPos(new) = LastPos(tl)
  BY <1>1, <1>4, <1>5 DEF SameShape, ChunksPacked, LastPos
<1>7. Positions(new) = Positions(tl)
  BY <1>4, <1>5 DEF Positions
<1>8. NodeAt(new, LastPos(tl)) = n
  BY <1>1, <1>2 DEF NodeAt, LastPos
<1>9. ASSUME NEW p \in Positions(tl), p # LastPos(tl)
      PROVE  NodeAt(new, p) = NodeAt(tl, p)
  <2>1. PICK d \in 1 .. Len(tl) : p \in {d} \X (1 .. Len(tl[d]))
    BY DEF Positions
  <2>2. CASE d = c
    BY <2>1, <2>2, <1>1, <1>2, <1>9 DEF NodeAt, LastPos
  <2>3. CASE d # c
    BY <2>1, <2>3, <1>1, <1>2 DEF NodeAt
  <2> QED BY <2>2, <2>3
<1>10. new # <<>>
  BY <1>4
<1> QED BY <1>4, <1>6, <1>7, <1>8, <1>9, <1>10 DEF new

\* A freshly allocated node comes after every other, which stay as they were,
\* and the store stays packed.
LEMMA AllocFacts ==
  ASSUME NEW S, NEW tl \in Seq(Seq(S)), ChunksPacked(tl), NEW n \in S
  PROVE  /\ Alloc(tl, n) \in Seq(Seq(S))
         /\ Alloc(tl, n) # <<>>
         /\ ChunksPacked(Alloc(tl, n))
         /\ Positions(Alloc(tl, n)) = Positions(tl) \cup {LastPos(Alloc(tl, n))}
         /\ LastPos(Alloc(tl, n)) \notin Positions(tl)
         /\ NodeAt(Alloc(tl, n), LastPos(Alloc(tl, n))) = n
         /\ \A p \in Positions(tl) : /\ NodeAt(Alloc(tl, n), p) = NodeAt(tl, p)
                                     /\ Before(p, LastPos(Alloc(tl, n)))
<1> DEFINE c == Len(tl)
           new == Alloc(tl, n)
           last == LastPos(new)
<1>1. CASE HasFreeSpace(tl)
  <2>1. c \in 1 .. Len(tl) /\ Len(tl[c]) \in Nat \ {0} /\ tl[c] \in Seq(S)
        /\ Len(tl[c]) < ChunkCapacity
    <3>1. c \in 1 .. Len(tl) /\ Len(tl[c]) < ChunkCapacity
      BY <1>1 DEF HasFreeSpace
    <3>2. Len(tl[c]) \in 1 .. ChunkCapacity /\ tl[c] \in Seq(S)
      BY <3>1 DEF ChunksPacked
    <3> QED BY <3>1, <3>2, ChunkCapacityAssumption
  <2>2. new = [tl EXCEPT ![c] = Append(tl[c], n)]
    BY <1>1 DEF Alloc
  <2>3. new \in Seq(Seq(S)) /\ Len(new) = c /\ new # <<>>
    BY <2>1, <2>2
  <2>4. new[c] = Append(tl[c], n) /\ Len(new[c]) = Len(tl[c]) + 1
    BY <2>1, <2>2
  <2>5. \A d \in 1 .. c : d # c => new[d] = tl[d]
    BY <2>1, <2>2
  <2> HIDE DEF new
  <2>6. last = <<c, Len(tl[c]) + 1>>
    BY <2>3, <2>4 DEF LastPos
  <2>7. ChunksPacked(new)
    BY <2>1, <2>3, <2>4, <2>5, ChunkCapacityAssumption DEF ChunksPacked
  <2>8. Positions(new) = Positions(tl) \cup {last}
    <3>1. ASSUME NEW p \in Positions(new)
          PROVE  p \in Positions(tl) \cup {last}
      <4>1. PICK d \in 1 .. c : p \in {d} \X (1 .. Len(new[d]))
        BY <2>3 DEF Positions
      <4>2. CASE d # c
        BY <4>1, <4>2, <2>5 DEF Positions
      <4>3. CASE d = c
        <5>1. p[1] = c /\ p[2] \in 1 .. Len(tl[c]) + 1 /\ p = <<p[1], p[2]>>
          BY <4>1, <4>3, <2>1, <2>4
        <5>2. CASE p[2] \in 1 .. Len(tl[c])
          <6>1. p \in {c} \X (1 .. Len(tl[c]))
            BY <5>1, <5>2
          <6> QED BY <6>1, <2>1 DEF Positions
        <5>3. CASE p[2] = Len(tl[c]) + 1
          BY <5>1, <5>3, <2>6
        <5> QED BY <5>1, <5>2, <5>3, <2>1
      <4> QED BY <4>2, <4>3
    <3>2. ASSUME NEW p \in Positions(tl)
          PROVE  p \in Positions(new)
      <4>1. PICK d \in 1 .. c : p \in {d} \X (1 .. Len(tl[d]))
        BY DEF Positions
      <4>2. 1 .. Len(tl[d]) \subseteq 1 .. Len(new[d])
        BY <2>1, <2>4, <2>5, <4>1
      <4>3. p \in {d} \X (1 .. Len(new[d]))
        BY <4>1, <4>2
      <4> QED BY <4>3, <2>3 DEF Positions
    <3>3. last \in Positions(new)
      <4>1. last \in {c} \X (1 .. Len(new[c]))
        BY <2>1, <2>4, <2>6
      <4> QED BY <4>1, <2>1, <2>3 DEF Positions
    <3> QED BY <3>1, <3>2, <3>3
  <2>9. NodeAt(new, last) = n
    BY <2>1, <2>4, <2>6 DEF NodeAt
  <2>10. ASSUME NEW p \in Positions(tl)
         PROVE  /\ NodeAt(new, p) = NodeAt(tl, p)
                /\ Before(p, last)
                /\ p # last
    <3>1. PICK d \in 1 .. c : p \in {d} \X (1 .. Len(tl[d]))
      BY DEF Positions
    <3>2. CASE d # c
      BY <3>1, <3>2, <2>1, <2>5, <2>6 DEF NodeAt, Before
    <3>3. CASE d = c
      BY <3>1, <3>3, <2>1, <2>4, <2>6 DEF NodeAt, Before
    <3> QED BY <3>2, <3>3
  <2> QED BY <2>3, <2>7, <2>8, <2>9, <2>10 DEF new
<1>2. CASE ~HasFreeSpace(tl)
  <2>1. new = Append(tl, <<n>>)
    BY <1>2 DEF Alloc
  <2>2. new \in Seq(Seq(S)) /\ Len(new) = c + 1 /\ new # <<>> /\ c \in Nat
    <3>1. <<n>> \in Seq(S)
      OBVIOUS
    <3> QED BY <2>1, <3>1
  <2>3. new[c + 1] = <<n>>
    BY <2>1
  <2>4. \A d \in 1 .. c : new[d] = tl[d]
    BY <2>1
  <2> HIDE DEF new
  <2>5. last = <<c + 1, 1>>
    BY <2>2, <2>3 DEF LastPos
  <2>6. ChunksPacked(new)
    <3>1. c > 0 => Len(tl[c]) = ChunkCapacity
      BY <1>2, ChunkCapacityAssumption DEF HasFreeSpace, ChunksPacked
    <3>2. Len(new[c + 1]) \in 1 .. ChunkCapacity
      BY <2>3, ChunkCapacityAssumption
    <3>3. ASSUME NEW d \in 1 .. c
          PROVE  Len(new[d]) = ChunkCapacity
      <4>1. d \in 1 .. c /\ new[d] = tl[d] /\ (d < c \/ d = c)
        BY <3>3, <2>2, <2>4
      <4>2. d < c => Len(tl[d]) = ChunkCapacity
        BY <4>1 DEF ChunksPacked
      <4> QED BY <4>1, <4>2, <3>1, <2>2
    <3> QED BY <3>2, <3>3, <2>2, ChunkCapacityAssumption DEF ChunksPacked
  <2>7. Positions(new) = Positions(tl) \cup {last}
    <3>1. ASSUME NEW p \in Positions(new)
          PROVE  p \in Positions(tl) \cup {last}
      <4>1. PICK d \in 1 .. c + 1 : p \in {d} \X (1 .. Len(new[d]))
        BY <2>2 DEF Positions
      <4>2. CASE d \in 1 .. c
        BY <4>1, <4>2, <2>4 DEF Positions
      <4>3. CASE d = c + 1
        BY <4>1, <4>3, <2>3, <2>5
      <4> QED BY <4>2, <4>3, <2>2
    <3>2. Positions(tl) \subseteq Positions(new)
      BY <2>2, <2>4 DEF Positions
    <3>3. last \in {c + 1} \X (1 .. Len(new[c + 1]))
      BY <2>3, <2>5
    <3>4. last \in Positions(new)
      BY <3>3, <2>2 DEF Positions
    <3> QED BY <3>1, <3>2, <3>4
  <2>8. NodeAt(new, last) = n
    BY <2>3, <2>5 DEF NodeAt
  <2>9. ASSUME NEW p \in Positions(tl)
        PROVE  /\ NodeAt(new, p) = NodeAt(tl, p)
               /\ Before(p, last)
               /\ p # last
    <3>1. PICK d \in 1 .. c : p \in {d} \X (1 .. Len(tl[d]))
      BY DEF Positions
    <3> QED BY <3>1, <2>2, <2>4, <2>5 DEF NodeAt, Before
  <2> QED BY <2>2, <2>6, <2>7, <2>8, <2>9 DEF new
<1> QED BY <1>1, <1>2

\* Stores of one shape have the same positions, and keep one shape when both
\* allocate a node.
LEMMA ShapeFacts ==
  ASSUME NEW S, NEW T, NEW a \in Seq(Seq(S)), NEW b \in Seq(Seq(T)),
         SameShape(a, b), NEW m \in S, NEW n \in T
  PROVE  /\ Positions(a) = Positions(b)
         /\ LastPos(a) = LastPos(b)
         /\ ChunksPacked(a) => ChunksPacked(b)
         /\ SameShape(Alloc(a, m), Alloc(b, n))
<1>1. Len(a) = Len(b) /\ \A c \in 1 .. Len(a) : Len(a[c]) = Len(b[c])
  BY DEF SameShape
<1>2. Positions(a) = Positions(b) /\ (ChunksPacked(a) => ChunksPacked(b))
  BY <1>1 DEF Positions, ChunksPacked
<1>3. CASE Len(a) = 0
  <2>1. a = <<>> /\ b = <<>>
    BY <1>3, <1>1
  <2>2. LastPos(a) = LastPos(b)
    BY <2>1
  <2>3. Alloc(a, m) = <<<<m>>>> /\ Alloc(b, n) = <<<<n>>>>
    BY <2>1 DEF Alloc, HasFreeSpace
  <2> QED BY <1>2, <2>2, <2>3 DEF SameShape
<1>4. CASE Len(a) > 0
  <2>1. LastPos(a) = LastPos(b) /\ (HasFreeSpace(a) <=> HasFreeSpace(b))
    BY <1>1, <1>4 DEF LastPos, HasFreeSpace
  <2>2. CASE HasFreeSpace(a)
    <3>1. /\ Alloc(a, m) = [a EXCEPT ![Len(a)] = Append(a[Len(a)], m)]
          /\ Alloc(b, n) = [b EXCEPT ![Len(b)] = Append(b[Len(b)], n)]
      BY <2>1, <2>2 DEF Alloc
    <3>2. /\ Len(Append(a[Len(a)], m)) = Len(a[Len(a)]) + 1
          /\ Len(Append(b[Len(b)], n)) = Len(b[Len(b)]) + 1
      BY <1>1, <1>4
    <3>3. ASSUME NEW U, NEW s \in Seq(Seq(U)), NEW k \in Seq(U)
          PROVE  /\ Len([s EXCEPT ![Len(s)] = k]) = Len(s)
                 /\ \A c \in 1 .. Len(s) :
                      [s EXCEPT ![Len(s)] = k][c] = IF c = Len(s) THEN k ELSE s[c]
      OBVIOUS
    <3>4. Append(a[Len(a)], m) \in Seq(S) /\ Append(b[Len(b)], n) \in Seq(T)
      BY <1>1, <1>4
    <3> DEFINE x == Append(a[Len(a)], m)
               y == Append(b[Len(b)], n)
    <3> HIDE DEF x, y
    <3>5. Len(x) = Len(y)
      BY <3>2, <1>1, <1>4 DEF x, y
    <3>6. /\ Len(Alloc(a, m)) = Len(a)
          /\ \A c \in 1 .. Len(a) :
               Alloc(a, m)[c] = IF c = Len(a) THEN x ELSE a[c]
      BY <3>1, <3>3, <3>4 DEF x
    <3>7. /\ Len(Alloc(b, n)) = Len(b)
          /\ \A c \in 1 .. Len(b) :
               Alloc(b, n)[c] = IF c = Len(b) THEN y ELSE b[c]
      BY <3>1, <3>3, <3>4 DEF y
    <3>8. ASSUME NEW c \in 1 .. Len(Alloc(a, m))
          PROVE  Len(Alloc(a, m)[c]) = Len(Alloc(b, n)[c])
      <4>1. c \in 1 .. Len(a) /\ c \in 1 .. Len(b)
        BY <3>6, <3>8, <1>1
      <4> QED BY <4>1, <3>5, <3>6, <3>7, <1>1
    <3> QED BY <3>6, <3>7, <3>8, <1>1, <1>2, <2>1 DEF SameShape
  <2>3. CASE ~HasFreeSpace(a)
    <3>1. Alloc(a, m) = Append(a, <<m>>) /\ Alloc(b, n) = Append(b, <<n>>)
      BY <2>1, <2>3 DEF Alloc
    <3>2. ASSUME NEW U, NEW s \in Seq(Seq(U)), NEW k \in Seq(U)
          PROVE  /\ Len(Append(s, k)) = Len(s) + 1
                 /\ \A c \in 1 .. Len(s) : Append(s, k)[c] = s[c]
                 /\ Append(s, k)[Len(s) + 1] = k
      OBVIOUS
    <3>3. /\ <<m>> \in Seq(S) /\ Len(<<m>>) = 1
          /\ <<n>> \in Seq(T) /\ Len(<<n>>) = 1
      OBVIOUS
    <3> DEFINE x == <<m>>
               y == <<n>>
    <3>4. x \in Seq(S) /\ y \in Seq(T) /\ Len(x) = Len(y)
      BY <3>3
    <3>5. Alloc(a, m) = Append(a, x) /\ Alloc(b, n) = Append(b, y)
      BY <3>1
    <3> HIDE DEF x, y
    <3>6. /\ Len(Alloc(a, m)) = Len(a) + 1
          /\ \A c \in 1 .. Len(a) : Alloc(a, m)[c] = a[c]
          /\ Alloc(a, m)[Len(a) + 1] = x
      BY <3>2, <3>4, <3>5
    <3>7. /\ Len(Alloc(b, n)) = Len(b) + 1
          /\ \A c \in 1 .. Len(b) : Alloc(b, n)[c] = b[c]
          /\ Alloc(b, n)[Len(b) + 1] = y
      BY <3>2, <3>4, <3>5
    <3>8. ASSUME NEW c \in 1 .. Len(Alloc(a, m))
          PROVE  Len(Alloc(a, m)[c]) = Len(Alloc(b, n)[c])
      <4>1. Len(a) \in Nat /\ c \in 1 .. Len(a) + 1
        BY <3>6, <3>8
      <4>2. CASE c \in 1 .. Len(a)
        BY <4>2, <3>6, <3>7, <1>1
      <4>3. CASE c = Len(a) + 1
        BY <4>3, <3>4, <3>6, <3>7, <1>1
      <4> QED BY <4>1, <4>2, <4>3
    <3> QED BY <3>6, <3>7, <3>8, <1>1, <1>2, <2>1 DEF SameShape
  <2> QED BY <1>2, <2>1, <2>2, <2>3
<1> QED BY <1>3, <1>4

-----------------------------------------------------------------------------
(* The run-length compression.                                             *)

USE DEF Continues, InRun, RunUntil

\* The inductive invariant: the parts of RunsExact support each other.
IInv == TypeOK /\ Packed /\ RunsExact

\* The sequence of samples grows at its end.
LEMMA PushedFacts ==
  ASSUME TypeOK, NEW v \in Values, NEW t \in Times, Pushed(v, t)
  PROVE  /\ samples' \in Seq(Sample)
         /\ Len(samples') = Len(samples) + 1
         /\ \A i \in 1 .. Len(samples) : samples'[i] = samples[i]
         /\ samples'[Len(samples) + 1] = [v |-> v, t |-> t]
         /\ samples' # <<>>
         /\ Len(samples) \in Nat
BY DEF TypeOK, Pushed, Sample

\* A push that allocates a node for its sample keeps the invariant.
LEMMA AllocStep ==
  ASSUME IInv, NEW v \in Values, NEW t \in Times, Pushed(v, t),
         timeline = <<>> \/ ~IsNew(LastNode(timeline)),
         timeline' = Alloc(timeline, NodeOf(v, t)),
         cover' = Alloc(cover, Fresh)
  PROVE  IInv'
<1> DEFINE P == Positions(timeline)
           last == LastPos(timeline')
           k == Len(samples) + 1
<1>1. /\ timeline \in Seq(Seq(Node)) /\ cover \in Seq(Seq(Extent))
      /\ ChunksPacked(timeline) /\ SameShape(timeline, cover)
      /\ NodeOf(v, t) \in Node /\ Fresh \in Extent
  BY DEF IInv, TypeOK, Packed, RunsExact, NodeOf, Node, Fresh, Extent
<1>2. /\ samples' \in Seq(Sample) /\ Len(samples') = k /\ samples' # <<>>
      /\ \A i \in 1 .. Len(samples) : samples'[i] = samples[i]
      /\ samples'[k] = [v |-> v, t |-> t]
      /\ Len(samples) \in Nat
  BY PushedFacts DEF IInv
<1>3. /\ timeline' \in Seq(Seq(Node)) /\ timeline' # <<>> /\ ChunksPacked(timeline')
      /\ Positions(timeline') = P \cup {last} /\ last \notin P
      /\ NodeAt(timeline', last) = NodeOf(v, t)
      /\ \A p \in P : /\ NodeAt(timeline', p) = NodeAt(timeline, p)
                      /\ Before(p, last)
  BY <1>1, AllocFacts
<1>4. /\ Positions(cover) = P /\ ChunksPacked(cover)
      /\ SameShape(timeline', cover')
  BY <1>1, ShapeFacts
<1>5. /\ cover' \in Seq(Seq(Extent))
      /\ NodeAt(cover', LastPos(cover')) = Fresh
      /\ \A p \in P : NodeAt(cover', p) = NodeAt(cover, p)
  BY <1>1, <1>4, AllocFacts
<1>6. last = LastPos(cover')
  BY <1>1, <1>3, <1>4, <1>5, ShapeFacts
<1>7. /\ \A p \in P : NodeAt(timeline, p) \in Node /\ NodeAt(cover, p) \in Extent
  BY <1>1, <1>4, NodeType
<1>8. NodeAt(timeline', last) = [v |-> v, st |-> t, et |-> t]
      /\ NodeAt(cover', last) = [b |-> k, e |-> k]
  BY <1>3, <1>5, <1>6 DEF NodeOf, Fresh
<1> HIDE DEF P, last
<1>9. \A p \in P : NodeAt(cover, p).b \in 1 .. NodeAt(cover, p).e
                   /\ NodeAt(cover, p).e \in 1 .. Len(samples)
  BY DEF IInv, RunsExact, NodesAreRuns, P
<1>10. TypeOK' /\ Packed'
  BY <1>2, <1>3, <1>5 DEF TypeOK, Packed
<1>11. NodesAreRuns'
  <2>1. ASSUME NEW p \in P
        PROVE  LET n == NodeAt(timeline', p)
                   x == NodeAt(cover', p)
               IN  /\ x.b \in 1 .. x.e /\ x.e \in 1 .. Len(samples')
                   /\ n.st = samples'[x.b].t /\ n.et = samples'[x.e].t
                   /\ \A i \in x.b .. x.e : samples'[i].v = n.v
    <3> DEFINE n == NodeAt(timeline, p)
               x == NodeAt(cover, p)
    <3>1. /\ x.b \in 1 .. x.e /\ x.e \in 1 .. Len(samples)
          /\ n.st = samples[x.b].t /\ n.et = samples[x.e].t
          /\ \A i \in x.b .. x.e : samples[i].v = n.v
      BY DEF IInv, RunsExact, NodesAreRuns, P
    <3>2. NodeAt(timeline', p) = n /\ NodeAt(cover', p) = x /\ x \in Extent
      BY <1>3, <1>5, <1>7
    <3> HIDE DEF n, x
    <3>3. \A i \in x.b .. x.e : i \in 1 .. Len(samples)
      BY <3>1, <3>2, <1>2 DEF Extent
    <3> QED BY <3>1, <3>2, <3>3, <1>2 DEF Extent
  <2>2. LET n == NodeAt(timeline', last)
            x == NodeAt(cover', last)
        IN  /\ x.b \in 1 .. x.e /\ x.e \in 1 .. Len(samples')
            /\ n.st = samples'[x.b].t /\ n.et = samples'[x.e].t
            /\ \A i \in x.b .. x.e : samples'[i].v = n.v
    BY <1>2, <1>8
  <2> QED BY <2>1, <2>2, <1>3 DEF NodesAreRuns
<1>12. RunsInOrder'
  <2>1. ASSUME NEW p \in Positions(timeline'), NEW q \in Positions(timeline'),
               Before(p, q)
        PROVE  NodeAt(cover', p).e < NodeAt(cover', q).b
    <3>1. CASE q = last
      <4>1. p \in P
        BY <2>1, <3>1, <1>3, BeforeIsStrict
      <4> QED BY <4>1, <3>1, <1>2, <1>5, <1>8, <1>9
    <3>2. CASE q \in P /\ p = last
      BY <2>1, <3>2, <1>3, BeforeIsStrict
    <3>3. CASE q \in P /\ p \in P
      BY <2>1, <3>3, <1>5 DEF IInv, RunsExact, RunsInOrder, P
    <3> QED BY <3>1, <3>2, <3>3, <1>3
  <2> QED BY <2>1, <1>2, <1>3, <1>8 DEF RunsInOrder, last
<1>13. NewIsLast'
  <2>1. ASSUME NEW p \in P PROVE ~IsNew(NodeAt(timeline', p))
    <3>1. timeline # <<>>
      <4>1. PICK c \in 1 .. Len(timeline) : p \in {c} \X (1 .. Len(timeline[c]))
        BY <2>1 DEF P, Positions
      <4> QED BY <4>1
    <3>2. NodeAt(timeline, LastPos(timeline)) = LastNode(timeline)
      BY <3>1, <1>1, LastPosition
    <3>3. ~IsNew(NodeAt(timeline, p))
      BY <3>1, <3>2 DEF IInv, RunsExact, NewIsLast, P
    <3> QED BY <3>3, <1>3 DEF IsNew
  <2>2. NodeAt(cover', last).b = NodeAt(cover', last).e
    BY <1>8
  <2> QED BY <2>1, <2>2, <1>3 DEF NewIsLast, last
<1>14. AllCovered'
  <2>1. ASSUME NEW i \in 1 .. k, samples'[i].t # NoTime
        PROVE  \E p \in Positions(timeline') :
                 i \in NodeAt(cover', p).b .. NodeAt(cover', p).e
    <3>1. CASE i = k
      BY <3>1, <1>2, <1>3, <1>8, SMTT(30)
    <3>2. CASE i \in 1 .. Len(samples)
      <4>1. samples \in Seq(Sample)
        BY DEF IInv, TypeOK
      <4>2. i \in DOMAIN samples /\ samples[i].t # NoTime
        BY <2>1, <3>2, <4>1, <1>2
      <4>3. PICK p \in P : i \in NodeAt(cover, p).b .. NodeAt(cover, p).e
        BY <4>2 DEF IInv, RunsExact, AllCovered, P
      <4> QED BY <4>3, <1>3, <1>5
    <3> QED BY <3>1, <3>2, <1>2
  <2> QED BY <2>1, <1>2 DEF AllCovered
<1> QED BY <1>4, <1>10, <1>11, <1>12, <1>13, <1>14 DEF IInv, RunsExact

\* A push that writes its sample into the last node keeps the invariant, if
\* the node's new extent ends with that sample, holds only samples of its
\* value, and lets go of no sample that carries a time.
LEMMA SetLastStep ==
  ASSUME IInv, NEW v \in Values, NEW t \in Times, Pushed(v, t), timeline # <<>>,
         NEW n \in Node, NEW x \in Extent,
         timeline' = SetLast(timeline, n),
         cover' = SetLast(cover, x),
         n.v = v /\ n.et = t /\ n.st = samples'[x.b].t,
         x.e = Len(samples) + 1 /\ x.b \in 1 .. x.e,
         LastNode(cover).b <= x.b,
         \A i \in x.b .. Len(samples) : samples[i].v = v,
         \A i \in 1 .. Len(samples) :
           i >= LastNode(cover).b /\ i < x.b => samples[i].t = NoTime,
         IsNew(n) => x.b = x.e
  PROVE  IInv'
<1> DEFINE P == Positions(timeline)
           last == LastPos(timeline)
           k == Len(samples) + 1
<1>1. /\ timeline \in Seq(Seq(Node)) /\ cover \in Seq(Seq(Extent))
      /\ ChunksPacked(timeline) /\ SameShape(timeline, cover)
  BY DEF IInv, TypeOK, Packed, RunsExact
<1>2. /\ samples' \in Seq(Sample) /\ Len(samples') = k /\ samples' # <<>>
      /\ \A i \in 1 .. Len(samples) : samples'[i] = samples[i]
      /\ samples'[k] = [v |-> v, t |-> t]
      /\ Len(samples) \in Nat
  BY PushedFacts DEF IInv
<1>3. /\ Positions(cover) = P /\ LastPos(cover) = last /\ ChunksPacked(cover)
      /\ cover # <<>>
  <2>1. LastNode(timeline) \in Node
    BY <1>1, LastPosition
  <2>2. Positions(cover) = P /\ LastPos(cover) = last /\ ChunksPacked(cover)
    BY <2>1, <1>1, ShapeFacts
  <2>3. Len(cover) = Len(timeline) /\ Len(timeline) # 0
    BY <1>1 DEF SameShape
  <2> QED BY <2>2, <2>3
<1>4. /\ timeline' \in Seq(Seq(Node)) /\ timeline' # <<>> /\ ChunksPacked(timeline')
      /\ SameShape(timeline, timeline')
      /\ Positions(timeline') = P /\ LastPos(timeline') = last
      /\ NodeAt(timeline', last) = n
      /\ \A p \in P : p # last => NodeAt(timeline', p) = NodeAt(timeline, p)
  BY <1>1, SetLastFacts
<1>5. /\ cover' \in Seq(Seq(Extent)) /\ SameShape(cover, cover')
      /\ NodeAt(cover', last) = x
      /\ \A p \in P : p # last => NodeAt(cover', p) = NodeAt(cover, p)
  BY <1>1, <1>3, SetLastFacts
<1>6. /\ last \in P
      /\ \A p \in P : p = last \/ Before(p, last)
      /\ NodeAt(cover, last) = LastNode(cover)
  BY <1>1, <1>3, LastPosition
<1>7. /\ \A p \in P : NodeAt(timeline, p) \in Node /\ NodeAt(cover, p) \in Extent
  BY <1>1, <1>3, NodeType
<1> HIDE DEF P, last
<1>8. \A p \in P : NodeAt(cover, p).b \in 1 .. NodeAt(cover, p).e
                   /\ NodeAt(cover, p).e \in 1 .. Len(samples)
  BY DEF IInv, RunsExact, NodesAreRuns, P
<1>9. \A p \in P : p # last => NodeAt(cover, p).e < x.b
  <2>1. ASSUME NEW p \in P, p # last PROVE NodeAt(cover, p).e < x.b
    <3>1. NodeAt(cover, p).e < NodeAt(cover, last).b
      BY <2>1, <1>6 DEF IInv, RunsExact, RunsInOrder, P
    <3> QED BY <3>1, <1>6, <1>7 DEF Extent
  <2> QED BY <2>1
<1>10. TypeOK' /\ Packed' /\ SameShape(timeline, cover)'
  BY <1>1, <1>2, <1>4, <1>5 DEF TypeOK, Packed, SameShape
<1>11. NodesAreRuns'
  <2>1. ASSUME NEW p \in P, p # last
        PROVE  LET m == NodeAt(timeline', p)
                   y == NodeAt(cover', p)
               IN  /\ y.b \in 1 .. y.e /\ y.e \in 1 .. Len(samples')
                   /\ m.st = samples'[y.b].t /\ m.et = samples'[y.e].t
                   /\ \A i \in y.b .. y.e : samples'[i].v = m.v
    <3> DEFINE m == NodeAt(timeline, p)
               y == NodeAt(cover, p)
    <3>1. /\ y.b \in 1 .. y.e /\ y.e \in 1 .. Len(samples)
          /\ m.st = samples[y.b].t /\ m.et = samples[y.e].t
          /\ \A i \in y.b .. y.e : samples[i].v = m.v
      BY DEF IInv, RunsExact, NodesAreRuns, P
    <3>2. NodeAt(timeline', p) = m /\ NodeAt(cover', p) = y /\ y \in Extent
      BY <2>1, <1>4, <1>5, <1>7
    <3> HIDE DEF m, y
    <3>3. \A i \in y.b .. y.e : i \in 1 .. Len(samples)
      BY <3>1, <3>2, <1>2 DEF Extent
    <3> QED BY <3>1, <3>2, <3>3, <1>2 DEF Extent
  <2>2. LET m == NodeAt(timeline', last)
            y == NodeAt(cover', last)
        IN  /\ y.b \in 1 .. y.e /\ y.e \in 1 .. Len(samples')
            /\ m.st = samples'[y.b].t /\ m.et = samples'[y.e].t
            /\ \A i \in y.b .. y.e : samples'[i].v = m.v
    <3>1. \A i \in x.b .. x.e : samples'[i].v = n.v
      <4>1. ASSUME NEW i \in x.b .. x.e PROVE samples'[i].v = n.v
        <5>1. i = k \/ (i \in x.b .. Len(samples) /\ i \in 1 .. Len(samples))
          BY <1>2 DEF Extent
        <5> QED BY <5>1, <1>2
      <4> QED BY <4>1
    <3> QED BY <3>1, <1>2, <1>4, <1>5
  <2> QED BY <2>1, <2>2, <1>4 DEF NodesAreRuns
<1>12. RunsInOrder'
  <2>1. ASSUME NEW p \in P, NEW q \in P, Before(p, q)
        PROVE  NodeAt(cover', p).e < NodeAt(cover', q).b
    <3>1. p # last
      BY <2>1, <1>1, <1>6, BeforeIsStrict DEF P
    <3>2. CASE q = last
      BY <3>1, <3>2, <1>5, <1>9
    <3>3. CASE q # last
      BY <2>1, <3>1, <3>3, <1>5 DEF IInv, RunsExact, RunsInOrder, P
    <3> QED BY <3>2, <3>3
  <2> QED BY <2>1, <1>2, <1>4, <1>5 DEF RunsInOrder
<1>13. NewIsLast'
  <2>1. ASSUME NEW p \in P, IsNew(NodeAt(timeline', p))
        PROVE  p = last /\ NodeAt(cover', p).b = NodeAt(cover', p).e
    <3>1. CASE p = last
      BY <2>1, <3>1, <1>4, <1>5
    <3>2. CASE p # last
      BY <2>1, <3>2, <1>4 DEF IInv, RunsExact, NewIsLast, P, last
    <3> QED BY <3>1, <3>2
  <2> QED BY <2>1, <1>4 DEF NewIsLast
<1>14. AllCovered'
  <2>1. ASSUME NEW i \in 1 .. k, samples'[i].t # NoTime
        PROVE  \E p \in P : i \in NodeAt(cover', p).b .. NodeAt(cover', p).e
    <3>1. CASE i >= x.b
      <4>1. i \in x.b .. x.e
        BY <3>1 DEF Extent
      <4> QED BY <4>1, <1>5, <1>6
    <3>2. CASE i < x.b
      <4>1. i \in 1 .. Len(samples) /\ samples[i].t # NoTime
        BY <2>1, <3>2, <1>2 DEF Extent
      <4>2. PICK p \in P : i \in NodeAt(cover, p).b .. NodeAt(cover, p).e
        BY <4>1, <1>1 DEF IInv, TypeOK, RunsExact, AllCovered, P
      <4>3. p # last
        BY <4>1, <4>2, <3>2, <1>6, <1>7 DEF Extent
      <4> QED BY <4>2, <4>3, <1>5
    <3> QED BY <3>1, <3>2, <1>2 DEF Extent
  <2> QED BY <2>1, <1>2, <1>4 DEF AllCovered
<1> QED BY <1>10, <1>11, <1>12, <1>13, <1>14 DEF IInv, RunsExact

\* Every push keeps the invariant: one case for each branch of push_back.
LEMMA PushBackStep ==
  ASSUME IInv, NEW v \in Values, NEW t \in Times, PushBack(v, t)
  PROVE  IInv'
<1> DEFINE k == Len(samples) + 1
           lastN == LastNode(timeline)
           lastX == LastNode(cover)
<1>1. /\ timeline \in Seq(Seq(Node)) /\ cover \in Seq(Seq(Extent))
      /\ ChunksPacked(timeline) /\ SameShape(timeline, cover)
      /\ (IsEmpty(timeline) <=> timeline = <<>>)
  BY EmptyStore DEF IInv, TypeOK, Packed, RunsExact
<1>2. ASSUME Pushed(v, t)
      PROVE  /\ samples' \in Seq(Sample) /\ Len(samples) \in Nat
             /\ \A i \in 1 .. Len(samples) : samples'[i] = samples[i]
             /\ samples'[k] = [v |-> v, t |-> t]
  BY <1>2, PushedFacts DEF IInv
<1>3. ASSUME timeline # <<>>
      PROVE  /\ lastN \in Node /\ lastX \in Extent
             /\ lastX.b \in 1 .. lastX.e /\ lastX.e = Len(samples)
             /\ lastN.st = samples[lastX.b].t
             /\ \A i \in lastX.b .. lastX.e : samples[i].v = lastN.v
             /\ IsNew(lastN) => lastX.b = lastX.e
  <2>1. /\ LastPos(timeline) \in Positions(timeline)
        /\ NodeAt(timeline, LastPos(timeline)) = lastN /\ lastN \in Node
    BY <1>1, <1>3, LastPosition
  <2>2. /\ Positions(cover) = Positions(timeline)
        /\ LastPos(cover) = LastPos(timeline) /\ ChunksPacked(cover)
    <3>1. samples \in Seq(Sample)
      BY DEF IInv, TypeOK
    <3>2. Fresh \in Extent
      BY <3>1 DEF Fresh, Extent
    <3> QED BY <1>1, <2>1, <3>2, ShapeFacts
  <2>3. NodeAt(cover, LastPos(timeline)) = lastX /\ lastX \in Extent
    <3>1. cover # <<>>
      <4>1. Len(cover) = Len(timeline) /\ Len(timeline) # 0
        BY <1>1, <1>3 DEF SameShape
      <4> QED BY <4>1
    <3> QED BY <3>1, <2>2, <1>1, LastPosition
  <2> HIDE DEF lastN, lastX
  <2>4. /\ lastX.b \in 1 .. lastX.e
        /\ lastN.st = samples[lastX.b].t
        /\ \A i \in lastX.b .. lastX.e : samples[i].v = lastN.v
    BY <2>1, <2>3 DEF IInv, RunsExact, NodesAreRuns
  <2>5. lastX.e = Len(samples)
    BY <1>3, <2>3 DEF IInv, RunsExact, RunsInOrder
  <2>6. IsNew(lastN) => lastX.b = lastX.e
    BY <2>1, <2>3 DEF IInv, RunsExact, NewIsLast
  <2> QED BY <2>1, <2>3, <2>4, <2>5, <2>6
<1> HIDE DEF lastN, lastX
<1>4. CASE FirstNode(v, t)
  BY <1>1, <1>4, AllocStep DEF FirstNode
<1>5. CASE RefillNew(v, t)
  <2>1. Pushed(v, t) /\ timeline # <<>> /\ IsNew(lastN)
    BY <1>1, <1>5 DEF RefillNew, lastN
  <2>2. NodeOf(v, t) \in Node /\ Fresh \in Extent
    BY <1>2, <2>1 DEF NodeOf, Node, Fresh, Extent
  <2>3. timeline' = SetLast(timeline, NodeOf(v, t)) /\ cover' = SetLast(cover, Fresh)
    BY <1>5 DEF RefillNew
  <2>4. /\ NodeOf(v, t).v = v /\ NodeOf(v, t).et = t
        /\ NodeOf(v, t).st = samples'[Fresh.b].t
        /\ Fresh.e = Len(samples) + 1 /\ Fresh.b \in 1 .. Fresh.e
        /\ Fresh.b = Fresh.e
    BY <1>2, <2>1 DEF NodeOf, Fresh
  <2>5. lastX.b <= Fresh.b /\ \A i \in Fresh.b .. Len(samples) : samples[i].v = v
    BY <1>2, <1>3, <2>1 DEF Fresh, Extent
  <2>6. ASSUME NEW i \in 1 .. Len(samples), i >= lastX.b, i < Fresh.b
        PROVE  samples[i].t = NoTime
    <3>1. i = lastX.b
      BY <2>6, <2>1, <1>2, <1>3 DEF Fresh
    <3> QED BY <3>1, <2>1, <1>3 DEF IsNew
  <2> QED BY <2>1, <2>2, <2>3, <2>4, <2>5, <2>6, SetLastStep DEF lastX
<1>6. CASE NewRun(v, t)
  BY <1>6, AllocStep DEF NewRun
<1>7. CASE ExtendRun(v, t)
  <2> DEFINE n == [lastN EXCEPT !.et = t]
             x == [lastX EXCEPT !.e = k]
  <2>1. Pushed(v, t) /\ timeline # <<>> /\ ~IsNew(lastN) /\ lastN.v = v
    BY <1>1, <1>7 DEF ExtendRun, lastN
  <2>2. n \in Node /\ x \in Extent
    BY <1>2, <1>3, <2>1 DEF Node, Extent
  <2>3. timeline' = SetLast(timeline, n) /\ cover' = SetLast(cover, x)
    BY <1>7 DEF ExtendRun, lastN, lastX
  <2>4. /\ n.v = v /\ n.et = t /\ n.st = lastN.st
        /\ x.e = k /\ x.b = lastX.b
    BY <1>3, <2>1 DEF Node, Extent
  <2> HIDE DEF n, x
  <2>5. n.st = samples'[x.b].t /\ x.b \in 1 .. x.e /\ lastX.b <= x.b
    BY <1>2, <1>3, <2>1, <2>4 DEF Extent
  <2>6. \A i \in x.b .. Len(samples) : samples[i].v = v
    BY <1>3, <2>1, <2>4
  <2>7. /\ \A i \in 1 .. Len(samples) : i >= lastX.b /\ i < x.b => samples[i].t = NoTime
        /\ ~IsNew(n)
    BY <1>2, <1>3, <2>1, <2>4 DEF Extent, IsNew
  <2> QED BY <2>1, <2>2, <2>3, <2>4, <2>5, <2>6, <2>7, SetLastStep DEF lastX
<1> QED BY <1>4, <1>5, <1>6, <1>7 DEF PushBack

\* The invariant holds of every behaviour.
LEMMA Invariance == Spec => []IInv
<1>1. Init => IInv
  BY DEF Init, IInv, TypeOK, Packed, ChunksPacked, RunsExact, SameShape, NodesAreRuns,
         RunsInOrder, NewIsLast, AllCovered, Positions
<1>2. IInv /\ [Next]_vars => IInv'
  <2> SUFFICES ASSUME IInv, [Next]_vars PROVE IInv'
    OBVIOUS
  <2>1. CASE Next
    BY <2>1, PushBackStep DEF Next
  <2>2. CASE UNCHANGED vars
    BY <2>2 DEF vars, IInv, TypeOK, Packed, RunsExact, NodesAreRuns,
                RunsInOrder, NewIsLast, AllCovered
  <2> QED BY <2>1, <2>2
<1> QED BY <1>1, <1>2, PTL DEF Spec

\* Whatever is pushed, the nodes, the samples and the extents keep their types.
THEOREM TypeCorrect == Spec => []TypeOK
<1>1. IInv => TypeOK
  BY DEF IInv
<1> QED BY <1>1, Invariance, PTL

\* No chunk outgrows its reserved capacity or is left part-filled behind a
\* later one, so a node is never moved by a reallocation of its chunk.
THEOREM ChunksStayPacked == Spec => []Packed
<1>1. IInv => Packed
  BY DEF IInv
<1> QED BY <1>1, Invariance, PTL

\* push_back's timeline is an exact run-length encoding of what was pushed.
THEOREM CompressionIsExact == Spec => []RunsExact
<1>1. IInv => RunsExact
  BY DEF IInv
<1> QED BY <1>1, Invariance, PTL

\* A reader of the compressed data finds every sample of a vehicle whose
\* samples came in time order, and finds no value that was not sampled.
THEOREM CompressionIsFaithful == Spec => []Faithful
<1>1. IInv => Faithful
  <2> SUFFICES ASSUME IInv, InTimeOrder PROVE Faithful
    BY DEF Faithful
  <2>1. /\ samples \in Seq(Sample) /\ Len(samples) \in Nat
        /\ \A i \in 1 .. Len(samples) : samples[i].t \in Int
    <3>1. samples \in Seq(Sample) /\ Times \subseteq Int
      BY GeneralAssumption DEF IInv, TypeOK
    <3>2. \A i \in 1 .. Len(samples) : samples[i] \in Sample
      BY <3>1
    <3>3. \A x \in Sample : x.t \in Int
      BY <3>1 DEF Sample
    <3> QED BY <3>1, <3>2, <3>3
  <2>2. \A i, j \in 1 .. Len(samples) : i <= j => samples[i].t <= samples[j].t
    BY <2>1 DEF InTimeOrder
  <2>3. ASSUME NEW i \in DOMAIN samples, samples[i].t # NoTime
        PROVE  \E p \in Positions(timeline) :
                 LET n == NodeAt(timeline, p)
                 IN  n.v = samples[i].v /\ n.st <= samples[i].t /\ samples[i].t <= n.et
    <3>1. PICK p \in Positions(timeline) :
                 i \in NodeAt(cover, p).b .. NodeAt(cover, p).e
      BY <2>3 DEF IInv, RunsExact, AllCovered
    <3> DEFINE n == NodeAt(timeline, p)
               x == NodeAt(cover, p)
    <3>2. /\ x.b \in 1 .. x.e /\ x.e \in 1 .. Len(samples)
          /\ n.st = samples[x.b].t /\ n.et = samples[x.e].t
          /\ samples[i].v = n.v
      BY <3>1 DEF IInv, RunsExact, NodesAreRuns
    <3> HIDE DEF n, x
    <3>3. samples[x.b].t <= samples[i].t /\ samples[i].t <= samples[x.e].t
      BY <2>1, <2>2, <3>1, <3>2 DEF x
    <3> QED BY <3>2, <3>3 DEF n
  <2>4. ASSUME NEW i \in DOMAIN samples, NEW p \in Positions(timeline),
               NodeAt(timeline, p).st < samples[i].t, samples[i].t < NodeAt(timeline, p).et
        PROVE  NodeAt(timeline, p).v = samples[i].v
    <3> DEFINE n == NodeAt(timeline, p)
               x == NodeAt(cover, p)
    <3>1. /\ x.b \in 1 .. x.e /\ x.e \in 1 .. Len(samples)
          /\ n.st = samples[x.b].t /\ n.et = samples[x.e].t
          /\ \A j \in x.b .. x.e : samples[j].v = n.v
      BY DEF IInv, RunsExact, NodesAreRuns
    <3>2. samples[x.b].t < samples[i].t /\ samples[i].t < samples[x.e].t
      BY <2>4, <3>1
    <3> HIDE DEF n, x
    <3>3. i \in 1 .. Len(samples) /\ x.e \in Nat /\ x.b \in 1 .. Len(samples)
      BY <2>1, <3>1
    <3>4. ~(i <= x.b) /\ ~(x.e <= i)
      BY <2>1, <2>2, <3>1, <3>2, <3>3
    <3>5. i \in x.b .. x.e
      BY <3>3, <3>4
    <3> QED BY <3>1, <3>5 DEF n
  <2> QED BY <2>3, <2>4 DEF Faithful
<1> QED BY <1>1, Invariance, PTL

\* A node that is no longer the last one never changes again.
THEOREM OldNodesNeverChange == Spec => OnlyLastNodeChanges
<1> DEFINE Stay == \A p \in Positions(timeline) :
             /\ p \in Positions(timeline')
             /\ NodeAt(timeline', p) # NodeAt(timeline, p) => p = LastPos(timeline)
<1>1. IInv /\ [Next]_vars => [Stay]_vars
  <2> SUFFICES ASSUME IInv, NEW v \in Values, NEW t \in Times, PushBack(v, t)
               PROVE  Stay
    BY DEF Next
  <2>1. timeline \in Seq(Seq(Node)) /\ ChunksPacked(timeline)
        /\ (IsEmpty(timeline) <=> timeline = <<>>)
    BY EmptyStore DEF IInv, TypeOK, Packed
  <2>2. NodeOf(v, t) \in Node
    BY DEF NodeOf, Node
  <2>3. CASE timeline' = Alloc(timeline, NodeOf(v, t))
    BY <2>1, <2>2, <2>3, AllocFacts
  <2>4. CASE RefillNew(v, t)
    BY <2>1, <2>2, <2>4, SetLastFacts DEF RefillNew
  <2>5. CASE ExtendRun(v, t)
    <3>1. timeline # <<>>
      BY <2>1, <2>5 DEF ExtendRun
    <3>2. [LastNode(timeline) EXCEPT !.et = t] \in Node
      BY <2>1, <3>1, LastPosition DEF Node
    <3> QED BY <2>1, <2>5, <3>1, <3>2, SetLastFacts DEF ExtendRun
  <2> QED BY <2>3, <2>4, <2>5 DEF PushBack, FirstNode, NewRun
<1> QED BY <1>1, Invariance, PTL DEF Spec, OnlyLastNodeChanges
=============================================================================
