---------------------------- MODULE VehicleProofs ----------------------------
(***************************************************************************)
(* The compression of a vehicle's path in compress.h keeps the track, the  *)
(* course and the times, for any places, any geometry, any capacity of a   *)
(* chunk and any number of samples; path and status tell of one drive, and *)
(* the tables they are inserted into of the file they are written to.      *)
(***************************************************************************)
EXTENDS MysqlTest, TLAPS

\* What was proved of a run-length compression, for the status of the vehicle.
Runs == INSTANCE GeneralTimelineProofs WITH
          timeline <- status, samples <- statusSamples, cover <- statusCover

-----------------------------------------------------------------------------
(* The path is kept in the same kind of store as the statuses.             *)

\* The operators of Timeline are the same in both.
LEMMA SameStore ==
  /\ \A tl : /\ Runs!IsEmpty(tl) = IsEmpty(tl) /\ Runs!LastNode(tl) = LastNode(tl)
             /\ Runs!LastPos(tl) = LastPos(tl) /\ Runs!Positions(tl) = Positions(tl)
             /\ Runs!ChunksPacked(tl) = ChunksPacked(tl)
  /\ \A tl, node : /\ Runs!SetLast(tl, node) = SetLast(tl, node)
                   /\ Runs!Alloc(tl, node) = Alloc(tl, node)
  /\ \A tl, at : Runs!NodeAt(tl, at) = NodeAt(tl, at)
  /\ \A at, to : Runs!Before(at, to) = Before(at, to)
  /\ \A a, b : Runs!SameShape(a, b) = SameShape(a, b)
BY DEF Runs!IsEmpty, Runs!LastNode, Runs!SetLast, Runs!Alloc, Runs!HasFreeSpace, Runs!Positions,
       Runs!NodeAt, Runs!LastPos, Runs!Before, Runs!ChunksPacked, Runs!SameShape,
       IsEmpty, LastNode, SetLast, Alloc, HasFreeSpace, Positions, NodeAt, LastPos, Before,
       ChunksPacked, SameShape

\* A packed store is empty exactly when it has no chunk.
LEMMA EmptyStore ==
  ASSUME NEW S, NEW tl \in Seq(Seq(S)), ChunksPacked(tl)
  PROVE  IsEmpty(tl) <=> tl = <<>>
BY SameStore, Runs!EmptyStore, ChunkCapacityAssumption, LocationAssumption

\* Every position holds a node.
LEMMA NodeType ==
  ASSUME NEW S, NEW tl \in Seq(Seq(S)), NEW at \in Positions(tl)
  PROVE  NodeAt(tl, at) \in S
BY SameStore, Runs!NodeType, ChunkCapacityAssumption, LocationAssumption

\* The last position is a position, and every other comes before it.
LEMMA LastPosition ==
  ASSUME NEW S, NEW tl \in Seq(Seq(S)), ChunksPacked(tl), tl # <<>>
  PROVE  /\ LastPos(tl) \in Positions(tl)
         /\ NodeAt(tl, LastPos(tl)) = LastNode(tl)
         /\ LastNode(tl) \in S
         /\ \A at \in Positions(tl) : at = LastPos(tl) \/ Before(at, LastPos(tl))
BY SameStore, Runs!LastPosition, ChunkCapacityAssumption, LocationAssumption

\* Before is a strict order on the positions of a store.
LEMMA BeforeIsStrict ==
  ASSUME NEW S, NEW tl \in Seq(Seq(S)), NEW at \in Positions(tl), NEW to \in Positions(tl)
  PROVE  ~(Before(at, to) /\ Before(to, at)) /\ ~Before(at, at)
BY SameStore, Runs!BeforeIsStrict, ChunkCapacityAssumption, LocationAssumption

\* Writing to the last node leaves the shape and every other node alone.
LEMMA SetLastFacts ==
  ASSUME NEW S, NEW tl \in Seq(Seq(S)), ChunksPacked(tl), tl # <<>>, NEW n \in S
  PROVE  /\ SetLast(tl, n) \in Seq(Seq(S))
         /\ SetLast(tl, n) # <<>>
         /\ SameShape(tl, SetLast(tl, n))
         /\ ChunksPacked(SetLast(tl, n))
         /\ Positions(SetLast(tl, n)) = Positions(tl)
         /\ LastPos(SetLast(tl, n)) = LastPos(tl)
         /\ NodeAt(SetLast(tl, n), LastPos(tl)) = n
         /\ \A at \in Positions(tl) : at # LastPos(tl) =>
              NodeAt(SetLast(tl, n), at) = NodeAt(tl, at)
BY SameStore, Runs!SetLastFacts, ChunkCapacityAssumption, LocationAssumption

\* A freshly allocated node comes after every other, which stay as they were,
\* and the store stays packed.
LEMMA AllocFacts ==
  ASSUME NEW S, NEW tl \in Seq(Seq(S)), ChunksPacked(tl), NEW n \in S
  PROVE  /\ Alloc(tl, n) \in Seq(Seq(S))
         /\ Alloc(tl, n) # <<>>
         /\ ChunksPacked(Alloc(tl, n))
         /\ Positions(Alloc(tl, n)) = Positions(tl) \cup {LastPos(Alloc(tl, n))}
         /\ LastPos(Alloc(tl, n)) \notin Positions(tl)
         /\ NodeAt(Alloc(tl, n), LastPos(Alloc(tl, n))) = n
         /\ \A at \in Positions(tl) : /\ NodeAt(Alloc(tl, n), at) = NodeAt(tl, at)
                                      /\ Before(at, LastPos(Alloc(tl, n)))
BY SameStore, Runs!AllocFacts, ChunkCapacityAssumption, LocationAssumption

\* Stores of one shape have the same positions, and keep one shape when both
\* allocate a node.
LEMMA ShapeFacts ==
  ASSUME NEW S, NEW T, NEW a \in Seq(Seq(S)), NEW b \in Seq(Seq(T)),
         SameShape(a, b), NEW m \in S, NEW n \in T
  PROVE  /\ Positions(a) = Positions(b)
         /\ LastPos(a) = LastPos(b)
         /\ ChunksPacked(a) => ChunksPacked(b)
         /\ SameShape(Alloc(a, m), Alloc(b, n))
BY SameStore, Runs!ShapeFacts, ChunkCapacityAssumption, LocationAssumption

USE DEF NoDrift, VectorForgotten, Longer

-----------------------------------------------------------------------------
(* The path.                                                               *)

\* What TrackKept, CourseKept and EndTimes say of each node by itself, of samples
\* s, node n and extent x: the waypoints, what is near them, the ends, the course.
WaysRight(x) ==
  /\ x.b \in 1 .. x.e
  /\ Len(x.ways) > 0 /\ x.ways[1] = x.b
  /\ \A k \in 1 .. Len(x.ways) : x.ways[k] \in x.b .. x.e
  /\ \A k, l \in 1 .. Len(x.ways) : k < l => x.ways[k] < x.ways[l]

ReachRight(s, x) ==
  \A i \in x.b .. x.e : \E k \in 1 .. Len(x.ways) :
    /\ x.ways[k] <= i
    /\ k < Len(x.ways) => i < x.ways[k + 1]
    /\ i = x.ways[k] \/ Near[<<s[x.ways[k]].loc, s[i].loc>>]

EndsRight(s, n, x) ==
  /\ n.sv = s[x.b].loc /\ n.st = s[x.b].t
  /\ n.ev = s[x.ways[Len(x.ways)]].loc
  /\ \/ n.et = s[x.e].t
     \/ Len(x.ways) = 2 /\ x.ways[2] = x.e /\ n.et = s[x.e - 1].t

TurnOf(s, w, k) ==
  Between(Heading[<<s[w[1]].loc, s[w[2]].loc>>], Heading[<<s[w[k - 1]].loc, s[w[k]].loc>>])

CourseRight(s, w) ==
  \A k \in 3 .. Len(w) :
    TurnOf(s, w, k) <= 90 /\ ~OffCourse[<<s[w[1]].loc, s[w[k]].loc, TurnOf(s, w, k)>>]

StretchRight(s, n, x) ==
  WaysRight(x) /\ x.e <= Len(s) /\ ReachRight(s, x) /\ EndsRight(s, n, x) /\ CourseRight(s, x.ways)

\* What push_back remembers is of the last node: where it began, where the last
\* move was, and the heading of its first move once there is one.
Remembered(s, x, at, from, known, angle) ==
  LET w == x.ways
  IN  /\ at = s[w[Len(w)]].loc /\ from = s[w[1]].loc
      /\ known <=> Len(w) >= 2
      /\ known => angle = Heading[<<s[w[1]].loc, s[w[2]].loc>>]

\* A node is new, which only the last can be, while it has one sample.
NewIsAlone(n, x) == IsNew(n) => x.b = x.e /\ Len(x.ways) = 1

PathRight ==
  /\ TypeOK /\ ChunksPacked(timeline) /\ SameShape(timeline, cover)
  /\ \A q \in Positions(timeline) :
       LET n == NodeAt(timeline, q)
           x == NodeAt(cover, q)
       IN  /\ StretchRight(samples, n, x) /\ NewIsAlone(n, x)
           /\ IsNew(n) => q = LastPos(timeline)
  /\ \A q, r \in Positions(timeline) : Before(q, r) => NodeAt(cover, q).e < NodeAt(cover, r).b
  /\ samples = <<>> <=> timeline = <<>>
  /\ timeline # <<>> =>
       /\ NodeAt(cover, LastPos(timeline)).e = Len(samples)
       /\ Remembered(samples, NodeAt(cover, LastPos(timeline)), p, pp, isDriveVectorOk, driveAngle)
  /\ timeline = <<>> => ~isDriveVectorOk
  /\ \A i \in DOMAIN samples : samples[i].t # NoTime =>
       \E q \in Positions(timeline) : i \in NodeAt(cover, q).b .. NodeAt(cover, q).e

\* The sequence of samples grows at its end.
LEMMA PushedFacts ==
  ASSUME TypeOK, NEW loc \in Places, NEW t \in Times, Pushed(loc, t)
  PROVE  /\ samples \in Seq(Sample) /\ samples' \in Seq(Sample)
         /\ Len(samples) \in Nat /\ Len(samples') = Len(samples) + 1
         /\ \A i \in 1 .. Len(samples) : samples'[i] = samples[i]
         /\ samples'[Len(samples) + 1] = [loc |-> loc, t |-> t]
         /\ samples' # <<>>
<1> DEFINE new == [loc |-> loc, t |-> t]
<1>1. samples \in Seq(Sample) /\ new \in Sample /\ samples' = Append(samples, new)
  BY DEF TypeOK, Pushed, Sample
<1> HIDE DEF new
<1>2. samples' \in Seq(Sample) /\ Len(samples) \in Nat /\ Len(samples') = Len(samples) + 1
  BY <1>1
<1>3. \A i \in 1 .. Len(samples) : samples'[i] = samples[i]
  BY <1>1
<1>4. samples'[Len(samples) + 1] = new
  BY <1>1
<1>5. samples' # <<>>
  BY <1>2
<1> QED BY <1>1, <1>2, <1>3, <1>4, <1>5 DEF new

\* What is right about a stretch stays right when more is sampled.
LEMMA StretchStays ==
  ASSUME NEW s \in Seq(Sample), NEW u \in Seq(Sample), Len(s) <= Len(u),
         \A i \in 1 .. Len(s) : u[i] = s[i],
         NEW n \in Node, NEW x \in Extent, StretchRight(s, n, x)
  PROVE  StretchRight(u, n, x)
<1>1. /\ Len(s) \in Nat /\ Len(u) \in Nat /\ x.b \in Nat /\ x.e \in Nat
      /\ x.ways \in Seq(Nat) /\ Len(x.ways) \in Nat
  BY DEF Extent
<1>2. WaysRight(x) /\ x.e <= Len(s)
  BY DEF StretchRight
<1>3. /\ \A i \in x.b .. x.e : u[i] = s[i]
      /\ \A k \in 1 .. Len(x.ways) : u[x.ways[k]] = s[x.ways[k]] /\ x.ways[k] \in x.b .. x.e
  BY <1>1, <1>2, SMTT(30) DEF WaysRight
<1>4. ReachRight(u, x)
  BY <1>3 DEF StretchRight, ReachRight
<1>5. EndsRight(u, n, x)
  <2>1. u[x.b] = s[x.b] /\ u[x.e] = s[x.e] /\ Len(x.ways) \in 1 .. Len(x.ways)
    BY <1>1, <1>2, <1>3 DEF WaysRight
  <2>2. u[x.ways[Len(x.ways)]] = s[x.ways[Len(x.ways)]]
    BY <1>3, <2>1
  <2>3. Len(x.ways) = 2 /\ x.ways[2] = x.e => u[x.e - 1] = s[x.e - 1]
    <3>1. Len(x.ways) = 2 /\ x.ways[2] = x.e => x.e - 1 \in x.b .. x.e
      BY <1>1, <1>2 DEF WaysRight
    <3> QED BY <1>3, <3>1
  <2> QED BY <2>1, <2>2, <2>3 DEF StretchRight, EndsRight
<1>6. CourseRight(u, x.ways)
  <2>1. \A k \in 3 .. Len(x.ways) : k \in 1 .. Len(x.ways) /\ k - 1 \in 1 .. Len(x.ways)
                                    /\ 1 \in 1 .. Len(x.ways) /\ 2 \in 1 .. Len(x.ways)
    BY <1>1
  <2>2. \A k \in 3 .. Len(x.ways) : /\ TurnOf(u, x.ways, k) = TurnOf(s, x.ways, k)
                                    /\ u[x.ways[1]] = s[x.ways[1]] /\ u[x.ways[k]] = s[x.ways[k]]
    BY <1>3, <2>1 DEF TurnOf
  <2> QED BY <2>2 DEF StretchRight, CourseRight
<1> QED BY <1>1, <1>2, <1>4, <1>5, <1>6 DEF StretchRight

\* A node and its extent that stand for the sample being pushed alone.
LEMMA FreshRight ==
  ASSUME NEW s \in Seq(Sample), NEW loc \in Places, NEW t \in Times,
         s # <<>>, s[Len(s)] = [loc |-> loc, t |-> t],
         NEW x, x = [b |-> Len(s), e |-> Len(s), ways |-> <<Len(s)>>],
         NEW known, known = FALSE, NEW angle
  PROVE  /\ StretchRight(s, NodeOf(loc, t), x) /\ NewIsAlone(NodeOf(loc, t), x)
         /\ Remembered(s, x, loc, loc, known, angle)
         /\ NodeOf(loc, t) \in Node /\ x \in Extent
<1> DEFINE k == Len(s)
           n == NodeOf(loc, t)
           w == <<k>>
<1>1. k \in Nat \ {0}
  BY DEF Sample
<1>2. w \in Seq(Nat) /\ Len(w) = 1 /\ w[1] = k
  BY <1>1
<1>3. /\ n.st = t /\ n.sv = loc /\ n.et = t /\ n.ev = loc /\ n \in Node
  BY DEF NodeOf, Node
<1>4. x.b = k /\ x.e = k /\ x.ways = w
  OBVIOUS
<1>5. s[k].loc = loc /\ s[k].t = t
  OBVIOUS
<1> HIDE DEF k, n, w
<1>6. x \in Extent
  BY <1>1, <1>2, <1>4 DEF Extent, k, w
<1>7. WaysRight(x) /\ x.e <= k
  BY <1>1, <1>2, <1>4 DEF WaysRight
<1>8. ReachRight(s, x)
  BY <1>1, <1>2, <1>4 DEF ReachRight
<1>9. EndsRight(s, n, x)
  BY <1>2, <1>3, <1>4, <1>5 DEF EndsRight
<1>10. CourseRight(s, x.ways)
  BY <1>2, <1>4 DEF CourseRight
<1>11. NewIsAlone(n, x)
  BY <1>2, <1>4 DEF NewIsAlone
<1>12. Remembered(s, x, loc, loc, known, angle)
  BY <1>2, <1>4, <1>5 DEF Remembered
<1> QED BY <1>3, <1>6, <1>7, <1>8, <1>9, <1>10, <1>11, <1>12 DEF StretchRight, k, n

\* A push that allocates a node for its sample keeps the path right.
LEMMA AllocStep ==
  ASSUME PathRight, NEW loc \in Places, NEW t \in Times, Pushed(loc, t),
         timeline = <<>> \/ ~IsNew(LastNode(timeline)),
         timeline' = Alloc(timeline, NodeOf(loc, t)), cover' = Alloc(cover, Fresh),
         p' = loc, pp' = loc, isDriveVectorOk' = FALSE, driveAngle' \in 0 .. 360
  PROVE  PathRight'
<1> DEFINE P == Positions(timeline)
           last == LastPos(timeline')
           k == Len(samples) + 1
<1>1. /\ timeline \in Seq(Seq(Node)) /\ cover \in Seq(Seq(Extent))
      /\ ChunksPacked(timeline) /\ SameShape(timeline, cover) /\ TypeOK
  BY DEF PathRight, TypeOK
<1>2. /\ samples \in Seq(Sample) /\ samples' \in Seq(Sample)
      /\ Len(samples') = k /\ samples' # <<>>
      /\ \A i \in 1 .. Len(samples) : samples'[i] = samples[i]
      /\ samples'[k] = [loc |-> loc, t |-> t]
      /\ Len(samples) \in Nat
  BY <1>1, PushedFacts
<1>3. /\ StretchRight(samples', NodeOf(loc, t), Fresh) /\ NewIsAlone(NodeOf(loc, t), Fresh)
      /\ Remembered(samples', Fresh, p', pp', isDriveVectorOk', driveAngle')
      /\ NodeOf(loc, t) \in Node /\ Fresh \in Extent
  BY <1>2, FreshRight DEF Fresh, This
<1>4. Fresh.b = k /\ Fresh.e = k
  BY DEF Fresh, This
<1> HIDE DEF k
<1>5. /\ timeline' \in Seq(Seq(Node)) /\ timeline' # <<>> /\ ChunksPacked(timeline')
      /\ Positions(timeline') = P \cup {last} /\ last \notin P
      /\ NodeAt(timeline', last) = NodeOf(loc, t)
      /\ \A q \in P : /\ NodeAt(timeline', q) = NodeAt(timeline, q)
                      /\ Before(q, last)
  BY <1>1, <1>3, AllocFacts
<1>6. /\ Positions(cover) = P /\ ChunksPacked(cover)
      /\ SameShape(timeline', cover')
  BY <1>1, <1>3, ShapeFacts
<1>7. /\ cover' \in Seq(Seq(Extent))
      /\ NodeAt(cover', LastPos(cover')) = Fresh
      /\ \A q \in P : NodeAt(cover', q) = NodeAt(cover, q)
  BY <1>1, <1>3, <1>6, AllocFacts
<1>8. last = LastPos(cover') /\ NodeAt(cover', last) = Fresh
  BY <1>1, <1>3, <1>5, <1>6, <1>7, ShapeFacts
<1>9. \A q \in P : NodeAt(timeline, q) \in Node /\ NodeAt(cover, q) \in Extent
  BY <1>1, <1>6, NodeType
<1> HIDE DEF P, last
<1>10. \A q \in P : NodeAt(cover, q).e <= Len(samples) /\ NodeAt(cover, q).e \in Nat
  BY <1>9 DEF PathRight, StretchRight, P, Extent
<1>11. TypeOK'
  BY <1>1, <1>2, <1>5, <1>7 DEF TypeOK
<1>12. ASSUME NEW q \in Positions(timeline')
       PROVE  /\ StretchRight(samples', NodeAt(timeline', q), NodeAt(cover', q))
              /\ NewIsAlone(NodeAt(timeline', q), NodeAt(cover', q))
              /\ IsNew(NodeAt(timeline', q)) => q = last
  <2>1. CASE q = last
    BY <1>3, <1>5, <1>8, <2>1
  <2>2. CASE q \in P
    <3>1. /\ StretchRight(samples, NodeAt(timeline, q), NodeAt(cover, q))
          /\ NewIsAlone(NodeAt(timeline, q), NodeAt(cover, q))
      BY <2>2 DEF PathRight, P
    <3>2. StretchRight(samples', NodeAt(timeline, q), NodeAt(cover, q))
      BY <1>2, <1>9, <2>2, <3>1, StretchStays DEF k
    <3>3. ~IsNew(NodeAt(timeline, q))
      <4>1. timeline # <<>>
        BY <2>2 DEF P, Positions
      <4>2. NodeAt(timeline, LastPos(timeline)) = LastNode(timeline)
        BY <1>1, <4>1, LastPosition
      <4>3. IsNew(NodeAt(timeline, q)) => q = LastPos(timeline)
        BY <2>2 DEF PathRight, P
      <4> QED BY <4>1, <4>2, <4>3
    <3> QED BY <1>5, <1>7, <2>2, <3>1, <3>2, <3>3
  <2> QED BY <1>5, <2>1, <2>2
<1>13. ASSUME NEW q \in Positions(timeline'), NEW r \in Positions(timeline'), Before(q, r)
       PROVE  NodeAt(cover', q).e < NodeAt(cover', r).b
  <2>1. CASE r = last
    <3>1. q \in P
      BY <1>5, <1>13, <2>1, BeforeIsStrict
    <3> QED BY <1>2, <1>4, <1>7, <1>8, <1>10, <2>1, <3>1 DEF k
  <2>2. CASE r \in P /\ q = last
    BY <1>5, <1>13, <2>2, BeforeIsStrict
  <2>3. CASE r \in P /\ q \in P
    BY <1>7, <1>13, <2>3 DEF PathRight, P
  <2> QED BY <1>5, <2>1, <2>2, <2>3
<1>14. ASSUME NEW i \in 1 .. k, samples'[i].t # NoTime
       PROVE  \E q \in Positions(timeline') : i \in NodeAt(cover', q).b .. NodeAt(cover', q).e
  <2>1. CASE i = k
    BY <1>2, <1>4, <1>5, <1>8, <2>1, SMTT(30) DEF k
  <2>2. CASE i \in 1 .. Len(samples)
    <3>1. i \in DOMAIN samples /\ samples[i].t # NoTime
      BY <1>2, <1>14, <2>2
    <3>2. PICK q \in P : i \in NodeAt(cover, q).b .. NodeAt(cover, q).e
      BY <3>1 DEF PathRight, P
    <3> QED BY <1>5, <1>7, <3>2
  <2> QED BY <1>2, <2>1, <2>2 DEF k
<1>15. \A i \in DOMAIN samples' : samples'[i].t # NoTime =>
         \E q \in Positions(timeline') : i \in NodeAt(cover', q).b .. NodeAt(cover', q).e
  <2>1. DOMAIN samples' = 1 .. k
    BY <1>2
  <2> QED BY <1>14, <2>1
<1> QED BY <1>2, <1>3, <1>4, <1>5, <1>6, <1>8, <1>11, <1>12, <1>13, <1>15 DEF PathRight, last

\* A push that writes its sample into the last node keeps the path right, if the
\* stretch that node then stands for is told rightly, ends with that sample, and
\* lets go of no sample that carries a time.
LEMMA SetLastStep ==
  ASSUME PathRight, NEW loc \in Places, NEW t \in Times, Pushed(loc, t), timeline # <<>>,
         NEW n \in Node, NEW x \in Extent,
         timeline' = SetLast(timeline, n), cover' = SetLast(cover, x),
         StretchRight(samples', n, x), NewIsAlone(n, x),
         Remembered(samples', x, p', pp', isDriveVectorOk', driveAngle'),
         x.e = Len(samples) + 1, LastNode(cover).b <= x.b,
         \A i \in 1 .. Len(samples) :
           i >= LastNode(cover).b /\ i < x.b => samples[i].t = NoTime,
         p' \in Places, pp' \in Places, isDriveVectorOk' \in BOOLEAN, driveAngle' \in 0 .. 360
  PROVE  PathRight'
<1> DEFINE P == Positions(timeline)
           last == LastPos(timeline)
           k == Len(samples) + 1
<1>1. /\ timeline \in Seq(Seq(Node)) /\ cover \in Seq(Seq(Extent))
      /\ ChunksPacked(timeline) /\ SameShape(timeline, cover) /\ TypeOK
  BY DEF PathRight, TypeOK
<1>2. /\ samples \in Seq(Sample) /\ samples' \in Seq(Sample)
      /\ Len(samples') = k /\ samples' # <<>>
      /\ \A i \in 1 .. Len(samples) : samples'[i] = samples[i]
      /\ Len(samples) \in Nat
  BY <1>1, PushedFacts
<1>3. /\ Positions(cover) = P /\ LastPos(cover) = last /\ ChunksPacked(cover)
      /\ cover # <<>>
  <2>1. Positions(cover) = P /\ LastPos(cover) = last /\ ChunksPacked(cover)
    BY <1>1, ShapeFacts
  <2>2. Len(cover) = Len(timeline) /\ Len(timeline) # 0
    BY <1>1 DEF SameShape
  <2> QED BY <2>1, <2>2
<1>4. /\ timeline' \in Seq(Seq(Node)) /\ timeline' # <<>> /\ ChunksPacked(timeline')
      /\ SameShape(timeline, timeline')
      /\ Positions(timeline') = P /\ LastPos(timeline') = last
      /\ NodeAt(timeline', last) = n
      /\ \A q \in P : q # last => NodeAt(timeline', q) = NodeAt(timeline, q)
  BY <1>1, SetLastFacts
<1>5. /\ cover' \in Seq(Seq(Extent)) /\ SameShape(cover, cover')
      /\ NodeAt(cover', last) = x
      /\ \A q \in P : q # last => NodeAt(cover', q) = NodeAt(cover, q)
  BY <1>1, <1>3, SetLastFacts
<1>6. /\ last \in P
      /\ \A q \in P : q = last \/ Before(q, last)
      /\ NodeAt(cover, last) = LastNode(cover)
  BY <1>1, <1>3, LastPosition
<1>7. \A q \in P : NodeAt(timeline, q) \in Node /\ NodeAt(cover, q) \in Extent
  BY <1>1, <1>3, NodeType
<1> HIDE DEF P, last
<1>8. \A q \in P : q # last => NodeAt(cover, q).e < x.b
  <2> SUFFICES ASSUME NEW q \in P, q # last PROVE NodeAt(cover, q).e < x.b
    OBVIOUS
  <2>1. NodeAt(cover, q).e < NodeAt(cover, last).b
    BY <1>6 DEF PathRight, P
  <2> QED BY <1>6, <1>7, <2>1 DEF Extent
<1>9. TypeOK' /\ SameShape(timeline, cover)'
  BY <1>1, <1>2, <1>4, <1>5 DEF TypeOK, SameShape
<1>10. ASSUME NEW q \in P
       PROVE  /\ StretchRight(samples', NodeAt(timeline', q), NodeAt(cover', q))
              /\ NewIsAlone(NodeAt(timeline', q), NodeAt(cover', q))
              /\ IsNew(NodeAt(timeline', q)) => q = last
  <2>1. CASE q = last
    BY <1>4, <1>5, <2>1
  <2>2. CASE q # last
    <3>1. /\ StretchRight(samples, NodeAt(timeline, q), NodeAt(cover, q))
          /\ NewIsAlone(NodeAt(timeline, q), NodeAt(cover, q))
          /\ IsNew(NodeAt(timeline, q)) => q = last
      BY DEF PathRight, P, last
    <3>2. StretchRight(samples', NodeAt(timeline, q), NodeAt(cover, q))
      BY <1>2, <1>7, <3>1, StretchStays
    <3> QED BY <1>4, <1>5, <2>2, <3>1, <3>2
  <2> QED BY <2>1, <2>2
<1>11. ASSUME NEW q \in P, NEW r \in P, Before(q, r)
       PROVE  NodeAt(cover', q).e < NodeAt(cover', r).b
  <2>1. q # last
    BY <1>1, <1>6, <1>11, BeforeIsStrict DEF P
  <2>2. CASE r = last
    BY <1>5, <1>8, <2>1, <2>2
  <2>3. CASE r # last
    BY <1>5, <1>11, <2>1, <2>3 DEF PathRight, P
  <2> QED BY <2>2, <2>3
<1>12. ASSUME NEW i \in 1 .. k, samples'[i].t # NoTime
       PROVE  \E q \in P : i \in NodeAt(cover', q).b .. NodeAt(cover', q).e
  <2>1. CASE i >= x.b
    <3>1. i \in x.b .. x.e
      BY <1>2, <2>1 DEF Extent
    <3> QED BY <1>5, <1>6, <3>1
  <2>2. CASE i < x.b
    <3>1. i \in 1 .. Len(samples) /\ samples[i].t # NoTime
      <4>1. x.b <= x.e /\ x.b \in Nat
        BY DEF StretchRight, WaysRight, Extent
      <4>2. i \in 1 .. Len(samples)
        BY <1>2, <2>2, <4>1
      <4> QED BY <1>2, <1>12, <4>2
    <3>2. PICK q \in P : i \in NodeAt(cover, q).b .. NodeAt(cover, q).e
      BY <1>2, <3>1 DEF PathRight, P
    <3>3. q # last
      BY <1>6, <1>7, <2>2, <3>1, <3>2 DEF Extent
    <3> QED BY <1>5, <3>2, <3>3
  <2> QED BY <1>2, <2>1, <2>2 DEF Extent
<1>13. \A i \in DOMAIN samples' : samples'[i].t # NoTime =>
         \E q \in Positions(timeline') : i \in NodeAt(cover', q).b .. NodeAt(cover', q).e
  <2>1. DOMAIN samples' = 1 .. k
    BY <1>2
  <2> QED BY <1>4, <1>12, <2>1
<1> QED BY <1>2, <1>4, <1>5, <1>9, <1>10, <1>11, <1>13 DEF PathRight

\* The last stretch goes on with a sample near its last waypoint, which is not one.
LEMMA StretchStaysNear ==
  ASSUME NEW s \in Seq(Sample), NEW u \in Seq(Sample), Len(u) = Len(s) + 1,
         \A i \in 1 .. Len(s) : u[i] = s[i],
         NEW n \in Node, NEW x \in Extent, StretchRight(s, n, x), x.e = Len(s),
         NEW at, NEW from, NEW known \in BOOLEAN, NEW angle, Remembered(s, x, at, from, known, angle),
         Near[<<at, u[Len(u)].loc>>],
         NEW m \in Node, m.sv = n.sv, m.st = n.st, m.ev = n.ev, m.et = u[Len(u)].t,
         NEW y \in Extent, y.b = x.b, y.ways = x.ways, y.e = Len(u)
  PROVE  StretchRight(u, m, y) /\ Remembered(u, y, at, from, known, angle)
<1> DEFINE w == x.ways
<1>1. /\ Len(s) \in Nat /\ Len(u) \in Nat /\ x.b \in Nat /\ x.e \in Nat
      /\ w \in Seq(Nat) /\ Len(w) \in Nat
  BY DEF Extent
<1>2. StretchRight(u, n, x)
  <2>1. Len(s) <= Len(u)
    BY <1>1
  <2> QED BY <2>1, StretchStays
<1>3. WaysRight(x) /\ x.e < y.e /\ y.e \in Nat
  BY <1>1 DEF StretchRight, Extent
<1>4. WaysRight(y)
  BY <1>1, <1>3 DEF WaysRight
<1>5. \A k \in 1 .. Len(w) : w[k] \in x.b .. x.e /\ u[w[k]] = s[w[k]]
  BY <1>1, <1>3 DEF WaysRight
<1>6. Len(w) \in 1 .. Len(w)
  BY <1>1, <1>3 DEF WaysRight
<1>7. ReachRight(u, y)
  <2> SUFFICES ASSUME NEW i \in y.b .. y.e
               PROVE  \E k \in 1 .. Len(w) :
                        /\ w[k] <= i
                        /\ k < Len(w) => i < w[k + 1]
                        /\ i = w[k] \/ Near[<<u[w[k]].loc, u[i].loc>>]
    BY DEF ReachRight
  <2>1. CASE i = Len(u)
    <3>1. w[Len(w)] <= i
      <4>1. w[Len(w)] \in x.b .. x.e
        BY <1>5, <1>6
      <4> QED BY <1>1, <2>1, <4>1
    <3>2. at = u[w[Len(w)]].loc
      BY <1>5, <1>6 DEF Remembered
    <3>3. ~(Len(w) < Len(w))
      BY <1>1
    <3> QED BY <1>6, <2>1, <3>1, <3>2, <3>3
  <2>2. CASE i # Len(u)
    <3>1. i \in x.b .. x.e
      BY <1>1, <2>2
    <3> QED BY <1>2, <3>1 DEF StretchRight, ReachRight
  <2> QED BY <2>1, <2>2
<1>8. EndsRight(u, m, y)
  BY <1>2 DEF StretchRight, EndsRight
<1>9. CourseRight(u, y.ways)
  BY <1>2 DEF StretchRight
<1>10. Remembered(u, y, at, from, known, angle)
  <2>1. 1 \in 1 .. Len(w) /\ (Len(w) >= 2 => 2 \in 1 .. Len(w))
    BY <1>1, <1>6
  <2> QED BY <1>5, <1>6, <2>1 DEF Remembered
<1> QED BY <1>1, <1>4, <1>7, <1>8, <1>9, <1>10 DEF StretchRight

\* A length is one or more than one.
LEMMA OneOrMore ==
  ASSUME NEW c \in Nat
  PROVE  /\ c >= 1 => c >= 2 \/ c = 1
         /\ c + 1 >= 3 => c # 1
OBVIOUS

\* A move to loc, with heading h, is the first of its stretch or keeps to its course.
KeepsCourse(loc, h, from, known, angle) ==
  known => Between(angle, h) <= 90 /\ ~OffCourse[<<from, loc, Between(angle, h)>>]

\* The node m and the extent y that n and x become by a move at the end of u.
MovesOn(u, n, x, known, m, y) ==
  /\ m.sv = n.sv /\ m.st = n.st /\ m.ev = u[Len(u)].loc
  /\ m.et = IF known THEN u[Len(u)].t ELSE n.et
  /\ y.b = x.b /\ y.ways = Append(x.ways, Len(u)) /\ y.e = Len(u)

\* The samples s become u by a move with heading h that the stretch n, x, the last of s, takes in.
LastMoves(s, u, n, x, at, from, known, angle, h) ==
  /\ Len(u) = Len(s) + 1
  /\ \A i \in 1 .. Len(s) : u[i] = s[i]
  /\ StretchRight(s, n, x) /\ x.e = Len(s)
  /\ Remembered(s, x, at, from, known, angle)
  /\ h = Heading[<<at, u[Len(u)].loc>>]
  /\ KeepsCourse(u[Len(u)].loc, h, from, known, angle)

\* The last stretch goes on with a move, which is its first or keeps to its course.
LEMMA StretchMoves ==
  ASSUME NEW s \in Seq(Sample), NEW u \in Seq(Sample), NEW n \in Node, NEW x \in Extent,
         NEW at, NEW from, NEW known \in BOOLEAN, NEW angle, NEW h,
         LastMoves(s, u, n, x, at, from, known, angle, h),
         NEW m \in Node, NEW y \in Extent, MovesOn(u, n, x, known, m, y)
  PROVE  /\ StretchRight(u, m, y)
         /\ Remembered(u, y, u[Len(u)].loc, from, TRUE, IF known THEN angle ELSE h)
<1> DEFINE w == x.ways
           v == y.ways
           k == Len(w) + 1
<1>0. /\ Len(u) = Len(s) + 1
      /\ \A i \in 1 .. Len(s) : u[i] = s[i]
      /\ StretchRight(s, n, x) /\ x.e = Len(s)
      /\ Remembered(s, x, at, from, known, angle)
      /\ h = Heading[<<at, u[Len(u)].loc>>]
      /\ KeepsCourse(u[Len(u)].loc, h, from, known, angle)
  BY DEF LastMoves
<1> USE <1>0 DEF MovesOn, KeepsCourse
<1>1. /\ Len(s) \in Nat /\ Len(u) \in Nat /\ x.b \in Nat /\ x.e \in Nat
      /\ w \in Seq(Nat) /\ Len(w) \in Nat
  BY DEF Extent
<1>2. StretchRight(u, n, x)
  <2>1. Len(s) <= Len(u)
    BY <1>1
  <2> QED BY <2>1, StretchStays
<1>3. WaysRight(x) /\ x.e < y.e /\ y.e \in Nat
  BY <1>1 DEF StretchRight, Extent
<1>4. \A j \in 1 .. Len(w) : w[j] \in x.b .. x.e /\ u[w[j]] = s[w[j]]
  BY <1>1, <1>3, SMTT(30) DEF WaysRight
<1>5. Len(w) \in 1 .. Len(w) /\ 1 \in 1 .. Len(w)
  BY <1>1, <1>3 DEF WaysRight
<1>6. /\ Len(v) = k /\ v \in Seq(Nat) /\ v[k] = Len(u)
      /\ \A j \in 1 .. Len(w) : v[j] = w[j]
  BY <1>1
<1> HIDE DEF v
<1>7. WaysRight(y)
  <2>1. \A j \in 1 .. k : j = k \/ j \in 1 .. Len(w)
    BY <1>1
  <2>2. \A j \in 1 .. k : v[j] \in y.b .. y.e
    <3>1. v[k] \in y.b .. y.e
      BY <1>1, <1>3, <1>6, SMTT(30) DEF WaysRight
    <3>2. \A j \in x.b .. x.e : j \in y.b .. y.e
      BY <1>1, <1>3
    <3>3. \A j \in 1 .. Len(w) : v[j] \in y.b .. y.e
      BY <1>4, <1>6, <3>2
    <3> QED BY <2>1, <3>1, <3>3
  <2>3. \A j, l \in 1 .. k : j < l => v[j] < v[l]
    <3> SUFFICES ASSUME NEW j \in 1 .. k, NEW l \in 1 .. k, j < l PROVE v[j] < v[l]
      OBVIOUS
    <3>1. j \in 1 .. Len(w) /\ v[j] = w[j]
      BY <1>1, <1>6, SMTT(30)
    <3>2. CASE l = k
      BY <1>1, <1>3, <1>4, <1>6, <3>1, <3>2, SMTT(30)
    <3>3. CASE l \in 1 .. Len(w)
      BY <1>3, <1>6, <3>1, <3>3 DEF WaysRight
    <3> QED BY <2>1, <3>2, <3>3
  <2>4. y.b \in 1 .. y.e /\ Len(v) > 0 /\ v[1] = y.b
    BY <1>1, <1>3, <1>5, <1>6 DEF WaysRight
  <2> QED BY <1>6, <2>2, <2>3, <2>4 DEF WaysRight, v
<1>8. ReachRight(u, y)
  <2> SUFFICES ASSUME NEW i \in y.b .. y.e
               PROVE  \E j \in 1 .. Len(v) :
                        /\ v[j] <= i
                        /\ j < Len(v) => i < v[j + 1]
                        /\ i = v[j] \/ Near[<<u[v[j]].loc, u[i].loc>>]
    BY DEF ReachRight, v
  <2>1. CASE i = Len(u)
    <3>1. k \in 1 .. Len(v) /\ v[k] = i /\ ~(k < Len(v)) /\ v[k] <= i
      BY <1>1, <1>6, <2>1
    <3> QED BY <3>1
  <2>2. CASE i # Len(u)
    <3>1. i \in x.b .. x.e
      BY <1>1, <2>2
    <3>2. PICK j \in 1 .. Len(w) : /\ w[j] <= i
                                   /\ j < Len(w) => i < w[j + 1]
                                   /\ i = w[j] \/ Near[<<u[w[j]].loc, u[i].loc>>]
      BY <1>2, <3>1 DEF StretchRight, ReachRight
    <3>3. v[j] = w[j] /\ j \in 1 .. Len(v)
      BY <1>1, <1>6
    <3>4. i < v[j + 1]
      <4>1. CASE j < Len(w)
        <5>1. j + 1 \in 1 .. Len(w)
          BY <1>1, <4>1
        <5> QED BY <1>6, <3>2, <4>1, <5>1
      <4>2. CASE j = Len(w)
        BY <1>1, <1>6, <3>1, <4>2
      <4> QED BY <1>1, <4>1, <4>2
    <3> QED BY <3>2, <3>3, <3>4
  <2> QED BY <2>1, <2>2
<1>9. /\ from = u[v[1]].loc /\ at = u[v[Len(w)]].loc
      /\ known <=> Len(w) >= 2
      /\ known => angle = Heading[<<u[v[1]].loc, u[v[2]].loc>>]
  <2>1. /\ from = u[w[1]].loc /\ at = u[w[Len(w)]].loc
        /\ known <=> Len(w) >= 2
    BY <1>4, <1>5 DEF Remembered
  <2>2. Len(w) >= 2 => 2 \in 1 .. Len(w)
    BY <1>1
  <2>3. known => 2 \in 1 .. Len(w)
    BY <2>1, <2>2, Zenon
  <2>4. known => angle = Heading[<<s[w[1]].loc, s[w[2]].loc>>]
    BY DEF Remembered
  <2>5. ASSUME known PROVE angle = Heading[<<u[v[1]].loc, u[v[2]].loc>>]
    <3>1. /\ u[v[1]] = s[w[1]]
          /\ u[v[2]] = s[w[2]]
      BY <1>4, <1>5, <1>6, <2>3, <2>5
    <3> QED BY <2>4, <2>5, <3>1
  <2>6. /\ from = u[v[1]].loc
        /\ at = u[v[Len(w)]].loc
    BY <1>5, <1>6, <2>1
  <2> QED BY <2>1, <2>5, <2>6, Zenon
<1>10. (known => Len(w) >= 2) /\ (~known => Len(w) = 1)
  <2>1. known <=> Len(w) >= 2
    BY <1>9
  <2>2. Len(w) >= 2 \/ Len(w) = 1
    <3>1. Len(w) \in Nat /\ Len(w) >= 1
      BY <1>1, <1>5
    <3> QED BY <3>1, OneOrMore
  <2> QED BY <2>1, <2>2, Zenon
<1>11. EndsRight(u, m, y)
  <2>1. m.sv = u[y.b].loc /\ m.st = u[y.b].t
    BY <1>2 DEF StretchRight, EndsRight
  <2>2. m.ev = u[v[Len(v)]].loc
    BY <1>6
  <2>3. m.et = u[y.e].t \/ (Len(v) = 2 /\ v[2] = y.e /\ m.et = u[y.e - 1].t)
    <3>1. CASE known
      BY <3>1
    <3>2. CASE ~known
      <4>1. Len(w) = 1
        BY <1>10, <3>2
      <4>2. n.et = u[x.e].t /\ x.e = y.e - 1
        BY <1>1, <1>2, <4>1 DEF StretchRight, EndsRight
      <4> QED BY <1>6, <3>2, <4>1, <4>2
    <3> QED BY <3>1, <3>2
  <2> QED BY <2>1, <2>2, <2>3 DEF EndsRight, v
<1>12. CourseRight(u, v)
  <2> SUFFICES ASSUME NEW j \in 3 .. Len(v)
               PROVE  /\ TurnOf(u, v, j) <= 90
                      /\ ~OffCourse[<<u[v[1]].loc, u[v[j]].loc, TurnOf(u, v, j)>>]
    BY DEF CourseRight
  <2>1. CASE j = k
    <3>1. known /\ k - 1 = Len(w)
      <4>1. k >= 3 /\ k - 1 = Len(w)
        BY <1>1, <1>6, <2>1
      <4>2. Len(w) # 1
        BY <1>1, <4>1, OneOrMore
      <4> QED BY <1>10, <4>1, <4>2, Zenon
    <3>2. TurnOf(u, v, k) = Between(angle, h)
      BY <1>6, <1>9, <3>1 DEF TurnOf
    <3> QED BY <1>6, <1>9, <2>1, <3>1, <3>2
  <2>2. CASE j # k
    <3>1. j \in 3 .. Len(w) /\ j \in 1 .. Len(w) /\ j - 1 \in 1 .. Len(w) /\ 2 \in 1 .. Len(w)
      <4>1. j \in 3 .. k /\ j # k /\ k = Len(w) + 1
        BY <1>6, <2>2
      <4>2. Len(w) \in Nat
        BY <1>1
      <4> HIDE DEF w, k, MovesOn, KeepsCourse
      <4> QED BY <4>1, <4>2
    <3>2. /\ TurnOf(u, w, j) <= 90
          /\ ~OffCourse[<<u[w[1]].loc, u[w[j]].loc, TurnOf(u, w, j)>>]
      BY <1>2, <3>1 DEF StretchRight, CourseRight
    <3>3. v[1] = w[1] /\ v[2] = w[2] /\ v[j] = w[j] /\ v[j - 1] = w[j - 1]
      BY <1>5, <1>6, <3>1
    <3>4. TurnOf(u, v, j) = TurnOf(u, w, j)
      BY <3>3 DEF TurnOf
    <3> QED BY <3>2, <3>3, <3>4
  <2> QED BY <2>1, <2>2
<1>13. Remembered(u, y, u[Len(u)].loc, from, TRUE, IF known THEN angle ELSE h)
  <2>1. Len(v) >= 2 /\ u[v[Len(v)]].loc = u[Len(u)].loc
    BY <1>1, <1>5, <1>6
  <2>2. ~known => Len(w) = 1 /\ h = Heading[<<u[v[1]].loc, u[v[2]].loc>>]
    <3> SUFFICES ASSUME ~known PROVE Len(w) = 1 /\ h = Heading[<<u[v[1]].loc, u[v[2]].loc>>]
      OBVIOUS
    <3>1. Len(w) = 1
      BY <1>10
    <3>2. k = 2
      BY <3>1
    <3> QED BY <1>6, <1>9, <3>1, <3>2
  <2>3. y.ways = v
    BY DEF v
  <2> HIDE DEF w
  <2>4. (IF known THEN angle ELSE h) = Heading[<<u[v[1]].loc, u[v[2]].loc>>]
    BY <1>9, <2>2
  <2> QED BY <1>9, <2>1, <2>3, <2>4 DEF Remembered
<1>14. y.ways = v /\ y.e <= Len(u)
  BY <1>1 DEF v
<1> QED BY <1>7, <1>8, <1>11, <1>12, <1>13, <1>14 DEF StretchRight

\* What is right of the last node, and of what is remembered of it.
LEMMA LastFacts ==
  ASSUME PathRight, timeline # <<>>
  PROVE  /\ LastNode(timeline) \in Node /\ LastNode(cover) \in Extent
         /\ StretchRight(samples, LastNode(timeline), LastNode(cover))
         /\ NewIsAlone(LastNode(timeline), LastNode(cover))
         /\ LastNode(cover).e = Len(samples)
         /\ Remembered(samples, LastNode(cover), p, pp, isDriveVectorOk, driveAngle)
<1>1. /\ timeline \in Seq(Seq(Node)) /\ cover \in Seq(Seq(Extent))
      /\ ChunksPacked(timeline) /\ SameShape(timeline, cover)
  BY DEF PathRight, TypeOK
<1>2. ChunksPacked(cover) /\ LastPos(cover) = LastPos(timeline) /\ cover # <<>>
  <2>1. ChunksPacked(cover) /\ LastPos(cover) = LastPos(timeline)
    <3>1. LastNode(timeline) \in Node
      BY <1>1, LastPosition
    <3>2. PICK y : y = [b |-> 1, e |-> 1, ways |-> <<>>]
      OBVIOUS
    <3>3. y \in Extent
      BY <3>2 DEF Extent
    <3> QED BY <1>1, <3>1, <3>3, ShapeFacts
  <2>2. Len(cover) = Len(timeline) /\ Len(timeline) # 0
    BY <1>1 DEF SameShape
  <2> QED BY <2>1, <2>2
<1>3. /\ LastPos(timeline) \in Positions(timeline)
      /\ NodeAt(timeline, LastPos(timeline)) = LastNode(timeline)
      /\ LastNode(timeline) \in Node
  BY <1>1, LastPosition
<1>4. /\ NodeAt(cover, LastPos(timeline)) = LastNode(cover)
      /\ LastNode(cover) \in Extent
  BY <1>1, <1>2, LastPosition
<1>5. /\ StretchRight(samples, LastNode(timeline), LastNode(cover))
      /\ NewIsAlone(LastNode(timeline), LastNode(cover))
  BY <1>3, <1>4 DEF PathRight
<1>6. /\ LastNode(cover).e = Len(samples)
      /\ Remembered(samples, LastNode(cover), p, pp, isDriveVectorOk, driveAngle)
  BY <1>4 DEF PathRight
<1> QED BY <1>3, <1>4, <1>5, <1>6

\* The geometry gives an angle.
LEMMA HeadingType ==
  ASSUME NEW a \in Places, NEW b \in Places
  PROVE  Heading[<<a, b>>] \in 0 .. 360
BY LocationAssumption

\* Each branch of push_back keeps the path right.
LEMMA FirstNodeStep ==
  ASSUME PathRight, NEW loc \in Places, NEW t \in Times, FirstNode(loc, t)
  PROVE  PathRight'
<1>1. timeline \in Seq(Seq(Node)) /\ ChunksPacked(timeline) /\ driveAngle \in 0 .. 360
  BY DEF PathRight, TypeOK
<1>2. timeline = <<>> /\ ~isDriveVectorOk /\ isDriveVectorOk \in BOOLEAN
  BY <1>1, EmptyStore DEF FirstNode, PathRight, TypeOK
<1>3. isDriveVectorOk' = FALSE /\ driveAngle' = driveAngle
  BY <1>2 DEF FirstNode
<1>4. /\ Pushed(loc, t) /\ p' = loc /\ pp' = loc
      /\ timeline' = Alloc(timeline, NodeOf(loc, t)) /\ cover' = Alloc(cover, Fresh)
  BY DEF FirstNode
<1> QED BY <1>1, <1>2, <1>3, <1>4, AllocStep

LEMMA NewNodeStep ==
  ASSUME PathRight, NEW loc \in Places, NEW t \in Times,
         Continues(loc, t), NewNode(loc, t)
  PROVE  PathRight'
<1>1. driveAngle' \in 0 .. 360
  BY DEF PathRight, TypeOK, NewNode
<1>2. /\ Pushed(loc, t) /\ ~IsNew(LastNode(timeline))
      /\ isDriveVectorOk' = FALSE /\ p' = loc /\ pp' = loc
      /\ timeline' = Alloc(timeline, NodeOf(loc, t)) /\ cover' = Alloc(cover, Fresh)
  BY DEF Continues, NewNode
<1> QED BY <1>1, <1>2, AllocStep

LEMMA RefillNewStep ==
  ASSUME PathRight, NEW loc \in Places, NEW t \in Times, RefillNew(loc, t)
  PROVE  PathRight'
<1>1. /\ TypeOK /\ timeline \in Seq(Seq(Node)) /\ ChunksPacked(timeline)
      /\ driveAngle \in 0 .. 360 /\ isDriveVectorOk \in BOOLEAN
  BY DEF PathRight, TypeOK
<1>2. /\ Pushed(loc, t) /\ timeline # <<>> /\ IsNew(LastNode(timeline))
      /\ timeline' = SetLast(timeline, NodeOf(loc, t)) /\ cover' = SetLast(cover, Fresh)
      /\ p' = loc /\ pp' = loc
      /\ driveAngle' = driveAngle /\ isDriveVectorOk' = isDriveVectorOk
  BY <1>1, EmptyStore DEF RefillNew
<1> DEFINE x == LastNode(cover)
           k == Len(samples)
<1>3. /\ x \in Extent /\ StretchRight(samples, LastNode(timeline), x)
      /\ x.b = x.e /\ Len(x.ways) = 1 /\ x.e = k
      /\ Remembered(samples, x, p, pp, isDriveVectorOk, driveAngle)
  BY <1>2, LastFacts DEF NewIsAlone
<1>4. isDriveVectorOk = FALSE
  <2>1. isDriveVectorOk <=> Len(x.ways) >= 2
    BY <1>3 DEF Remembered
  <2>2. ~(Len(x.ways) >= 2)
    BY <1>3
  <2> QED BY <1>1, <2>1, <2>2, Zenon
<1>5. /\ samples' \in Seq(Sample) /\ samples' # <<>> /\ Len(samples') = k + 1
      /\ samples'[k + 1] = [loc |-> loc, t |-> t] /\ k \in Nat
  BY <1>1, <1>2, PushedFacts
<1>6. /\ StretchRight(samples', NodeOf(loc, t), Fresh) /\ NewIsAlone(NodeOf(loc, t), Fresh)
      /\ Remembered(samples', Fresh, p', pp', isDriveVectorOk', driveAngle')
      /\ NodeOf(loc, t) \in Node /\ Fresh \in Extent
  BY <1>2, <1>4, <1>5, FreshRight DEF Fresh, This
<1>7. Fresh.b = k + 1 /\ Fresh.e = k + 1
  BY DEF Fresh, This
<1>8. samples[k].t = NoTime
  <2>1. LastNode(timeline).st = samples[x.b].t
    BY <1>3 DEF StretchRight, EndsRight
  <2> QED BY <1>2, <1>3, <2>1 DEF IsNew
<1> HIDE DEF x, k
<1>9. /\ x.b <= Fresh.b
      /\ \A i \in 1 .. k : i >= x.b /\ i < Fresh.b => samples[i].t = NoTime
  <2>1. \A i \in 1 .. k : i >= k => i = k
    BY <1>5
  <2> QED BY <1>3, <1>5, <1>7, <1>8, <2>1
<1> QED BY <1>1, <1>2, <1>4, <1>6, <1>7, <1>9, SetLastStep DEF x, k

LEMMA StandStillStep ==
  ASSUME PathRight, NEW loc \in Places, NEW t \in Times, StandStill(loc, t)
  PROVE  PathRight'
<1>1. /\ TypeOK /\ timeline \in Seq(Seq(Node)) /\ ChunksPacked(timeline)
      /\ driveAngle \in 0 .. 360 /\ isDriveVectorOk \in BOOLEAN
      /\ p \in Places /\ pp \in Places
  BY DEF PathRight, TypeOK
<1>2. /\ Pushed(loc, t) /\ timeline # <<>> /\ ~IsNew(LastNode(timeline)) /\ Near[<<p, loc>>]
      /\ p' = p /\ pp' = pp
      /\ driveAngle' = driveAngle /\ isDriveVectorOk' = isDriveVectorOk
  BY <1>1, EmptyStore DEF StandStill, Continues, course
<1>3. PICK n, x, m, y :
        /\ n = LastNode(timeline) /\ x = LastNode(cover)
        /\ m = [n EXCEPT !.et = t] /\ y = [x EXCEPT !.e = This]
  OBVIOUS
<1>4. timeline' = SetLast(timeline, m) /\ cover' = SetLast(cover, y)
  BY <1>3 DEF StandStill, Stay
<1>5. /\ n \in Node /\ x \in Extent /\ StretchRight(samples, n, x) /\ x.e = Len(samples)
      /\ Remembered(samples, x, p, pp, isDriveVectorOk, driveAngle)
  BY <1>2, <1>3, LastFacts
<1>6. /\ samples \in Seq(Sample) /\ samples' \in Seq(Sample)
      /\ Len(samples) \in Nat /\ Len(samples') = Len(samples) + 1
      /\ \A i \in 1 .. Len(samples) : samples'[i] = samples[i]
      /\ samples'[Len(samples')] = [loc |-> loc, t |-> t]
  BY <1>1, <1>2, PushedFacts
<1>7. /\ m \in Node /\ m.sv = n.sv /\ m.st = n.st /\ m.ev = n.ev /\ m.et = t
  BY <1>3, <1>5 DEF Node
<1>8. /\ y \in Extent /\ y.b = x.b /\ y.ways = x.ways /\ y.e = Len(samples')
  BY <1>3, <1>5, <1>6 DEF Extent, This
<1>9. /\ samples'[Len(samples')].loc = loc /\ samples'[Len(samples')].t = t
  BY <1>6
<1>10. /\ StretchRight(samples', m, y)
       /\ Remembered(samples', y, p, pp, isDriveVectorOk, driveAngle)
  <2>1. PICK u, at, from, known, angle :
          u = samples' /\ at = p /\ from = pp /\ known = isDriveVectorOk /\ angle = driveAngle
    OBVIOUS
  <2>2. /\ u \in Seq(Sample) /\ Len(u) = Len(samples) + 1 /\ known \in BOOLEAN
        /\ \A i \in 1 .. Len(samples) : u[i] = samples[i]
        /\ Remembered(samples, x, at, from, known, angle)
    BY <1>1, <1>5, <1>6, <2>1
  <2>3. /\ Near[<<at, u[Len(u)].loc>>] /\ m.et = u[Len(u)].t
        /\ y.e = Len(u)
    BY <1>2, <1>7, <1>8, <1>9, <2>1
  <2>4. StretchRight(u, m, y) /\ Remembered(u, y, at, from, known, angle)
    BY <1>5, <1>6, <1>7, <1>8, <2>2, <2>3, StretchStaysNear, ZenonT(40)
  <2> QED BY <2>1, <2>4
<1>11. NewIsAlone(m, y)
  BY <1>2, <1>3, <1>7 DEF NewIsAlone, IsNew
<1>12. /\ LastNode(cover).b <= y.b
       /\ \A i \in 1 .. Len(samples) :
            i >= LastNode(cover).b /\ i < y.b => samples[i].t = NoTime
  BY <1>3, <1>5, <1>8 DEF Extent
<1> QED BY <1>1, <1>2, <1>4, <1>6, <1>7, <1>8, <1>10, <1>11, <1>12, SetLastStep

\* A move that the last stretch goes on with, with the heading it then has.
LEMMA MoveStep ==
  ASSUME PathRight, NEW loc \in Places, NEW t \in Times, Continues(loc, t), Move,
         LET dan == Dan(loc)
         IN  isDriveVectorOk => dan <= 90 /\ ~OffCourse[<<pp, loc, dan>>],
         NEW m \in Node, m.sv = LastNode(timeline).sv, m.st = LastNode(timeline).st,
         m.ev = loc, m.et = IF isDriveVectorOk THEN t ELSE LastNode(timeline).et,
         timeline' = SetLast(timeline, m),
         p' = loc, pp' = pp, isDriveVectorOk' = TRUE,
         driveAngle' = IF isDriveVectorOk THEN driveAngle ELSE Heading[<<p, loc>>]
  PROVE  PathRight'
<1>1. /\ TypeOK /\ timeline \in Seq(Seq(Node)) /\ ChunksPacked(timeline)
      /\ driveAngle \in 0 .. 360 /\ isDriveVectorOk \in BOOLEAN
      /\ p \in Places /\ pp \in Places
  BY DEF PathRight, TypeOK
<1>2. /\ Pushed(loc, t) /\ timeline # <<>> /\ ~IsNew(LastNode(timeline))
  BY <1>1, EmptyStore DEF Continues
<1>3. PICK n, x, y, h, a, b, known, angle :
        /\ n = LastNode(timeline) /\ x = LastNode(cover)
        /\ y = [x EXCEPT !.e = This, !.ways = Append(@, This)]
        /\ h = Heading[<<p, loc>>] /\ a = p /\ b = pp
        /\ known = isDriveVectorOk /\ angle = driveAngle
  OBVIOUS
<1>4. cover' = SetLast(cover, y)
  BY <1>3 DEF Move
<1>5. /\ n \in Node /\ x \in Extent /\ StretchRight(samples, n, x) /\ x.e = Len(samples)
      /\ Remembered(samples, x, a, b, known, angle)
  BY <1>2, <1>3, LastFacts
<1>6. /\ samples \in Seq(Sample) /\ samples' \in Seq(Sample)
      /\ Len(samples) \in Nat /\ Len(samples') = Len(samples) + 1
      /\ \A i \in 1 .. Len(samples) : samples'[i] = samples[i]
      /\ samples'[Len(samples')] = [loc |-> loc, t |-> t]
  BY <1>1, <1>2, PushedFacts
<1>7. /\ samples'[Len(samples')].loc = loc /\ samples'[Len(samples')].t = t
  BY <1>6
<1>8. /\ y \in Extent /\ y.b = x.b /\ y.ways = Append(x.ways, Len(samples'))
      /\ y.e = Len(samples')
  <2>1. This \in Nat /\ This = Len(samples')
    BY <1>6 DEF This
  <2>2. x.b \in Nat /\ x.e \in Nat /\ x.ways \in Seq(Nat)
        /\ x = [b |-> x.b, e |-> x.e, ways |-> x.ways]
    BY <1>5 DEF Extent
  <2>3. y = [b |-> x.b, e |-> This, ways |-> Append(x.ways, This)]
    BY <1>3, <2>2
  <2>4. Append(x.ways, This) \in Seq(Nat)
    BY <2>1, <2>2
  <2> QED BY <2>1, <2>2, <2>3, <2>4 DEF Extent
<1>9. known => LET dan == Between(angle, h)
               IN  dan <= 90 /\ ~OffCourse[<<b, loc, dan>>]
  BY <1>3 DEF Dan
<1>10. /\ m.sv = n.sv /\ m.st = n.st /\ m.et = IF known THEN t ELSE n.et
  BY <1>3
<1>11. known \in BOOLEAN /\ h = Heading[<<a, loc>>]
  BY <1>1, <1>3
<1>12. /\ StretchRight(samples', m, y)
       /\ Remembered(samples', y, loc, b, TRUE, IF known THEN angle ELSE h)
  <2>1. PICK u : u = samples'
    OBVIOUS
  <2>2. /\ u \in Seq(Sample) /\ Len(u) = Len(samples) + 1
        /\ \A i \in 1 .. Len(samples) : u[i] = samples[i]
        /\ u[Len(u)].loc = loc /\ u[Len(u)].t = t
    BY <1>6, <1>7, <2>1
  <2>3. y.ways = Append(x.ways, Len(u)) /\ y.e = Len(u)
    BY <1>8, <2>1
  <2>4. /\ h = Heading[<<a, u[Len(u)].loc>>]
        /\ m.ev = u[Len(u)].loc
        /\ m.et = IF known THEN u[Len(u)].t ELSE n.et
    BY <1>10, <1>11, <2>2
  <2>5. KeepsCourse(u[Len(u)].loc, h, b, known, angle)
    BY <1>9, <2>2 DEF KeepsCourse
  <2>6. /\ StretchRight(u, m, y)
        /\ Remembered(u, y, u[Len(u)].loc, b, TRUE, IF known THEN angle ELSE h)
    <3>1. /\ samples \in Seq(Sample) /\ n \in Node /\ x \in Extent /\ y \in Extent
          /\ StretchRight(samples, n, x) /\ x.e = Len(samples)
          /\ Remembered(samples, x, a, b, known, angle)
          /\ known \in BOOLEAN
      BY <1>5, <1>6, <1>8, <1>11
    <3>2. MovesOn(u, n, x, known, m, y)
      BY <1>8, <1>10, <2>3, <2>4 DEF MovesOn
    <3>3. LastMoves(samples, u, n, x, a, b, known, angle, h)
      BY <3>1, <2>2, <2>4, <2>5 DEF LastMoves
    <3> QED BY <3>1, <3>2, <3>3, <2>2, StretchMoves
  <2> QED BY <2>1, <2>2, <2>6
<1>13. Remembered(samples', y, p', pp', isDriveVectorOk', driveAngle')
  BY <1>3, <1>12
<1>14. NewIsAlone(m, y)
  BY <1>2, <1>3, <1>10 DEF NewIsAlone, IsNew
<1>15. /\ LastNode(cover).b <= y.b
       /\ \A i \in 1 .. Len(samples) :
            i >= LastNode(cover).b /\ i < y.b => samples[i].t = NoTime
  BY <1>3, <1>5, <1>8 DEF Extent
<1>16. driveAngle' \in 0 .. 360
  BY <1>1, HeadingType
<1> QED BY <1>1, <1>2, <1>4, <1>6, <1>8, <1>12, <1>13, <1>14, <1>15, <1>16, SetLastStep

LEMMA SetCourseStep ==
  ASSUME PathRight, NEW loc \in Places, NEW t \in Times, SetCourse(loc, t)
  PROVE  PathRight'
<1>1. timeline \in Seq(Seq(Node)) /\ ChunksPacked(timeline)
  BY DEF PathRight, TypeOK
<1>2. /\ Continues(loc, t) /\ Move /\ ~isDriveVectorOk
      /\ p' = loc /\ pp' = pp /\ isDriveVectorOk' = TRUE
      /\ driveAngle' = Heading[<<p, loc>>]
  BY DEF SetCourse
<1>3. timeline # <<>>
  BY <1>1, <1>2, EmptyStore DEF Continues
<1>4. PICK m : m = [LastNode(timeline) EXCEPT !.ev = loc]
  OBVIOUS
<1>5. LastNode(timeline) \in Node
  BY <1>3, LastFacts
<1>6. /\ m \in Node /\ m.sv = LastNode(timeline).sv /\ m.st = LastNode(timeline).st
      /\ m.ev = loc /\ m.et = LastNode(timeline).et
  BY <1>4, <1>5 DEF Node
<1>7. timeline' = SetLast(timeline, m)
  BY <1>4 DEF SetCourse
<1> QED BY <1>2, <1>6, <1>7, MoveStep

LEMMA GoOnStep ==
  ASSUME PathRight, NEW loc \in Places, NEW t \in Times, GoOn(loc, t)
  PROVE  PathRight'
<1>1. timeline \in Seq(Seq(Node)) /\ ChunksPacked(timeline)
  BY DEF PathRight, TypeOK
<1>2. /\ Continues(loc, t) /\ Move /\ isDriveVectorOk
      /\ Dan(loc) <= 90 /\ ~OffCourse[<<pp, loc, Dan(loc)>>]
      /\ p' = loc /\ pp' = pp /\ isDriveVectorOk' = isDriveVectorOk
      /\ driveAngle' = driveAngle
  BY DEF GoOn, course
<1>3. timeline # <<>>
  BY <1>1, <1>2, EmptyStore DEF Continues
<1>4. PICK m : m = [LastNode(timeline) EXCEPT !.ev = loc, !.et = t]
  OBVIOUS
<1>5. LastNode(timeline) \in Node
  BY <1>3, LastFacts
<1>6. /\ m \in Node /\ m.sv = LastNode(timeline).sv /\ m.st = LastNode(timeline).st
      /\ m.ev = loc /\ m.et = t
  BY <1>4, <1>5 DEF Node
<1>7. timeline' = SetLast(timeline, m)
  BY <1>4 DEF GoOn
<1>8. isDriveVectorOk' = TRUE
  BY <1>2 DEF PathRight, TypeOK
<1> QED BY <1>2, <1>6, <1>7, <1>8, MoveStep

LEMMA PushBackStep ==
  ASSUME PathRight, NEW loc \in Places, NEW t \in Times, PushBack(loc, t)
  PROVE  PathRight'
BY FirstNodeStep, RefillNewStep, StandStillStep, SetCourseStep, NewNodeStep, GoOnStep
   DEF PushBack, Turn, LeaveCourse

LEMMA PathInit == Init => PathRight
<1> SUFFICES ASSUME Init PROVE PathRight
  OBVIOUS
<1>1. timeline = <<>> /\ cover = <<>> /\ samples = <<>>
  BY DEF Init
<1>2. TypeOK
  <2>1. /\ timeline \in Seq(Seq(Node)) /\ samples \in Seq(Sample)
        /\ cover \in Seq(Seq(Extent))
    BY <1>1
  <2>2. p \in Places /\ pp \in Places /\ driveAngle \in 0 .. 360
    BY DEF Init
  <2>3. isDriveVectorOk \in BOOLEAN
    BY DEF Init
  <2> QED BY <2>1, <2>2, <2>3 DEF TypeOK
<1>3. /\ Positions(timeline) = {} /\ ChunksPacked(timeline) /\ SameShape(timeline, cover)
      /\ DOMAIN samples = {}
  BY <1>1 DEF Positions, ChunksPacked, SameShape
<1> QED BY <1>1, <1>2, <1>3 DEF PathRight, Init

LEMMA PathStep == PathRight /\ [Next]_vars => PathRight'
<1> SUFFICES ASSUME PathRight, [Next]_vars PROVE PathRight'
  OBVIOUS
<1>1. CASE Next
  BY <1>1, PushBackStep DEF Next
<1>2. CASE UNCHANGED vars
  <2>1. /\ timeline' = timeline /\ cover' = cover /\ samples' = samples
        /\ p' = p /\ pp' = pp
        /\ isDriveVectorOk' = isDriveVectorOk /\ driveAngle' = driveAngle
    BY <1>2 DEF vars, course
  <2>2. TypeOK'
    BY <2>1 DEF PathRight, TypeOK
  <2> QED BY <2>1, <2>2 DEF PathRight
<1> QED BY <1>1, <1>2

\* What is kept of each node by itself, in the words of TrackKept.
LEMMA StretchTold ==
  ASSUME PathRight, NEW q \in Positions(timeline)
  PROVE  /\ NodeAt(timeline, q) \in Node /\ NodeAt(cover, q) \in Extent
         /\ WaysOK(NodeAt(cover, q)) /\ WithinReach(NodeAt(cover, q))
         /\ StretchRight(samples, NodeAt(timeline, q), NodeAt(cover, q))
<1> DEFINE x == NodeAt(cover, q)
<1>1. /\ timeline \in Seq(Seq(Node)) /\ cover \in Seq(Seq(Extent))
      /\ SameShape(timeline, cover) /\ samples \in Seq(Sample)
  BY DEF PathRight, TypeOK
<1>2. q \in Positions(cover)
  BY <1>1 DEF SameShape, Positions
<1>3. NodeAt(timeline, q) \in Node /\ x \in Extent
  BY <1>1, <1>2, NodeType
<1>4. StretchRight(samples, NodeAt(timeline, q), x)
  BY DEF PathRight
<1> HIDE DEF x
<1>5. /\ x.ways \in Seq(Nat) /\ Len(x.ways) \in Nat /\ DOMAIN x.ways = 1 .. Len(x.ways)
      /\ Len(samples) \in Nat /\ x.b \in Nat /\ x.e \in Nat
  BY <1>1, <1>3 DEF Extent
<1>6. WaysOK(x)
  BY <1>4, <1>5 DEF StretchRight, WaysRight, WaysOK
<1>7. WithinReach(x)
  BY <1>4, <1>5 DEF StretchRight, ReachRight, WithinReach, Place
<1> QED BY <1>3, <1>4, <1>6, <1>7 DEF x

LEMMA PathGivesTrack == PathRight => TrackKept
<1> SUFFICES ASSUME PathRight PROVE TrackKept
  OBVIOUS
<1>1. ASSUME NEW q \in Positions(timeline)
      PROVE  LET n == NodeAt(timeline, q)
                 x == NodeAt(cover, q)
             IN  /\ WaysOK(x) /\ WithinReach(x)
                 /\ n.sv = Place(x.b) /\ n.st = samples[x.b].t
                 /\ n.ev = Place(x.ways[Len(x.ways)])
  BY StretchTold DEF StretchRight, EndsRight, Place
<1> QED BY <1>1 DEF PathRight, TrackKept

LEMMA PathGivesCourse == PathRight => CourseKept
<1> SUFFICES ASSUME PathRight, NEW q \in Positions(timeline)
             PROVE  LET w == NodeAt(cover, q).ways
                        first == Heading[<<Place(w[1]), Place(w[2])>>]
                    IN  \A k \in 3 .. Len(w) :
                          LET dan == Between(first, Heading[<<Place(w[k - 1]), Place(w[k])>>])
                          IN  dan <= 90 /\ ~OffCourse[<<Place(w[1]), Place(w[k]), dan>>]
  BY DEF CourseKept
<1>1. CourseRight(samples, NodeAt(cover, q).ways)
  BY StretchTold DEF StretchRight
<1> QED BY <1>1 DEF CourseRight, TurnOf, Place

LEMMA PathGivesEndTimes == PathRight => EndTimes
<1> SUFFICES ASSUME PathRight PROVE EndTimes
  OBVIOUS
<1>1. /\ samples \in Seq(Sample) /\ DOMAIN samples = 1 .. Len(samples) /\ Len(samples) \in Nat
      /\ \A i \in 1 .. Len(samples) : samples[i].t \in Int
  <2>1. samples \in Seq(Sample)
    BY DEF PathRight, TypeOK
  <2>2. \A i \in 1 .. Len(samples) : samples[i] \in Sample
    BY <2>1
  <2>3. \A i \in 1 .. Len(samples) : samples[i].t \in Int
    BY <2>2, LocationAssumption DEF Sample
  <2> QED BY <2>1, <2>3
<1>2. ASSUME NEW q \in Positions(timeline)
      PROVE  LET n == NodeAt(timeline, q)
                 x == NodeAt(cover, q)
             IN  \/ n.et = samples[x.e].t
                 \/ Len(x.ways) = 2 /\ x.ways[2] = x.e /\ n.et = samples[x.e - 1].t
  BY <1>2, StretchTold DEF StretchRight, EndsRight
<1>3. ASSUME NEW q \in Positions(timeline)
      PROVE  LET x == NodeAt(cover, q)
             IN  /\ x.b \in 1 .. x.e /\ x.e \in 1 .. Len(samples)
                 /\ NodeAt(timeline, q).st = samples[x.b].t
                 /\ \E e \in x.b .. x.e : NodeAt(timeline, q).et = samples[e].t
  <2> DEFINE x == NodeAt(cover, q)
             n == NodeAt(timeline, q)
  <2>1. WaysOK(x) /\ x \in Extent /\ EndsRight(samples, n, x)
    BY <1>3, StretchTold DEF StretchRight
  <2> HIDE DEF x, n
  <2>2. x.b \in 1 .. x.e /\ x.e \in 1 .. Len(samples) /\ n.st = samples[x.b].t
    BY <2>1 DEF WaysOK, EndsRight
  <2>3. CASE n.et = samples[x.e].t
    <3>1. x.e \in x.b .. x.e
      BY <2>2
    <3> QED BY <2>2, <2>3, <3>1 DEF x, n
  <2>4. CASE Len(x.ways) = 2 /\ x.ways[2] = x.e /\ n.et = samples[x.e - 1].t
    <3>1. x.ways \in Seq(Nat) /\ 1 \in DOMAIN x.ways /\ 2 \in DOMAIN x.ways /\ 1 < 2
      BY <2>1, <2>4 DEF Extent
    <3>2. x.ways[1] = x.b /\ x.ways[1] < x.ways[2]
      BY <2>1, <3>1 DEF WaysOK
    <3>3. x.e - 1 \in x.b .. x.e
      BY <2>2, <2>4, <3>2
    <3> QED BY <2>2, <2>4, <3>3 DEF x, n
  <2> QED BY <2>1, <2>3, <2>4 DEF EndsRight
<1>4. ASSUME InTimeOrder, NEW i \in 1 .. Len(samples), NEW j \in 1 .. Len(samples), i <= j
      PROVE  samples[i].t <= samples[j].t
  <2>1. CASE i = j
    BY <1>1, <2>1
  <2>2. CASE i # j
    BY <1>1, <1>4, <2>2 DEF InTimeOrder
  <2> QED BY <2>1, <2>2
<1>5. ASSUME InTimeOrder, NEW q \in Positions(timeline)
      PROVE  NodeAt(timeline, q).st <= NodeAt(timeline, q).et
  <2>1. PICK b \in 1 .. Len(samples), e \in 1 .. Len(samples) :
          /\ b <= e
          /\ NodeAt(timeline, q).st = samples[b].t /\ NodeAt(timeline, q).et = samples[e].t
    <3>1. PICK e \in NodeAt(cover, q).b .. NodeAt(cover, q).e : NodeAt(timeline, q).et = samples[e].t
      BY <1>3
    <3>2. /\ NodeAt(cover, q).b \in 1 .. Len(samples) /\ e \in 1 .. Len(samples)
          /\ NodeAt(cover, q).b <= e
      BY <1>1, <1>3
    <3> QED BY <1>3, <3>1, <3>2
  <2> QED BY <1>4, <1>5, <2>1
<1>6. ASSUME InTimeOrder, NEW q \in Positions(timeline), NEW r \in Positions(timeline), Before(q, r)
      PROVE  NodeAt(timeline, q).et <= NodeAt(timeline, r).st
  <2>1. NodeAt(cover, q).e < NodeAt(cover, r).b
    BY <1>6 DEF PathRight
  <2>2. PICK e \in NodeAt(cover, q).b .. NodeAt(cover, q).e : NodeAt(timeline, q).et = samples[e].t
    BY <1>3
  <2>3. /\ e \in 1 .. Len(samples) /\ NodeAt(cover, r).b \in 1 .. Len(samples)
        /\ e <= NodeAt(cover, r).b
    BY <1>1, <1>3, <2>1
  <2>4. NodeAt(timeline, r).st = samples[NodeAt(cover, r).b].t
    BY <1>3
  <2> QED BY <1>4, <1>6, <2>2, <2>3, <2>4
<1> QED BY <1>2, <1>5, <1>6 DEF EndTimes

-----------------------------------------------------------------------------
(* The vehicle, and the test that inserts it.                              *)

\* The variables of a location timeline keep their types.
THEOREM TypeCorrect == Spec => []TypeOK
<1>1. PathRight => TypeOK
  BY DEF PathRight
<1> QED BY <1>1, PathInit, PathStep, PTL DEF Spec

\* push_back alone, with any samples in any order, keeps the track, the course and
\* the times of the nodes.
THEOREM PathIsKept == Spec => [](TrackKept /\ CourseKept /\ EndTimes)
BY PathInit, PathStep, PathGivesTrack, PathGivesCourse, PathGivesEndTimes, PTL DEF Spec

\* Whatever else is done with a vehicle, under any schedule of statements that
\* fail, its path is a location timeline: only push_back changes it.
THEOREM VehicleHasAPath == MysqlSpec => Spec
<1>1. MysqlInit => Init
  BY DEF MysqlInit, VehicleInit
<1>2. [MysqlNext]_mysqlVars => [Next]_vars
  <2> SUFFICES ASSUME [MysqlNext]_mysqlVars PROVE [Next]_vars
    OBVIOUS
  <2>1. CASE \E loc \in Places, t \in Times : PushRecord(loc, t)
    BY <2>1 DEF PushRecord, Next
  <2>2. CASE WriteToFile
    BY <2>2 DEF WriteToFile, vehicle, vars, course
  <2>3. CASE Test
    BY <2>3 DEF Test, Prepare, InsertOrigin, OriginDone, UseCompressed, InsertPlace, PlaceDone,
                InsertStatus, StatusDone, At, vehicle, vars, course
  <2>4. CASE UNCHANGED mysqlVars
    BY <2>4 DEF mysqlVars, vars, course
  <2> QED BY <2>1, <2>2, <2>3, <2>4 DEF MysqlNext, Fill
<1> QED BY <1>1, <1>2, PTL DEF MysqlSpec, Spec

\* The nodes of a vehicle's path are its samples in order, cut into stretches
\* without gap or overlap, and each passes within 20 metres of all its samples.
THEOREM TrackIsKept == MysqlSpec => []TrackKept
BY VehicleHasAPath, PathIsKept, PTL

\* Within a node the vehicle never turns by more than 90 degrees from its first
\* move and is never found off course: what is remembered is of the node at hand.
THEOREM CourseIsKept == MysqlSpec => []CourseKept
BY VehicleHasAPath, PathIsKept, PTL

\* A node ends at the time of its last sample or, if that is its first move, of the
\* sample before; so records in time order give nodes in time order.
THEOREM EndsAreInTime == MysqlSpec => []EndTimes
BY VehicleHasAPath, PathIsKept, PTL

-----------------------------------------------------------------------------
(* The tables of mysql_test.                                               *)

\* The rows of the table are of the file, each node's end behind its start.
PlaceRowsRight(rows) ==
  \A j \in 1 .. Len(rows) :
    /\ rows[j][1] % 2 = 0 => j > 1 /\ rows[j - 1][1] = rows[j][1] - 1
    /\ j > 1 => rows[j - 1][1] < rows[j][1]

\* What is counted and inserted when, and that what was written stays true.  The
\* number of nodes is known to be a number once that many steps were taken.
Counted ==
  /\ cursor \in Nat /\ count \in Nat
  /\ stage \in {"filling", "written", "origin", "use"} => count = 0 /\ place = <<>>
  /\ stage \in {"origin", "use"} => database = "vehicles"
  /\ stage = "place" => count = cursor /\ database = "vehicles_compressed"
  /\ stage = "status" =>
       \/ database = "vehicles" /\ count = cursor
       \/ /\ database = "vehicles_compressed"
          /\ Len(Nodes(timeline)) \in Nat /\ count = Len(Nodes(timeline)) + cursor
  /\ stage = "done" =>
       count = Len(StatusRows) + IF database = "vehicles" THEN 0 ELSE Len(LocationRows) \div 2

TablesRight ==
  /\ Counted
  /\ stage = "filling" => DOMAIN files = {}
  /\ "location" \in DOMAIN files => files["location"] = LocationRows
  /\ place \in Seq({Row(k) : k \in Nat})
  /\ PlaceRowsRight(place)
  /\ stage = "place" => \A j \in 1 .. Len(place) : place[j][1] <= 2 * cursor

\* What Row says of a row: its number, and what the file has there.
LEMMA RowFacts ==
  ASSUME NEW r \in {Row(k) : k \in Nat}
  PROVE  r[1] \in Nat /\ r[2] = LocationRows[r[1]]
BY DEF Row

\* The rows of one node are inserted behind those of the nodes before it.
LEMMA PlaceRowsStay ==
  ASSUME NEW S, \A r \in S : r[1] \in Nat,
         NEW rows \in Seq(S), PlaceRowsRight(rows), NEW k \in Nat,
         \A j \in 1 .. Len(rows) : rows[j][1] <= 2 * k,
         NEW a \in S, NEW b \in S, a[1] = 2 * (k + 1) - 1, b[1] = 2 * (k + 1),
         NEW new \in {<<>>, <<a>>, <<a, b>>}
  PROVE  /\ rows \o new \in Seq(S) /\ PlaceRowsRight(rows \o new)
         /\ \A j \in 1 .. Len(rows \o new) : (rows \o new)[j][1] <= 2 * (k + 1)
<1> DEFINE all == rows \o new
           m == Len(rows)
<1>1. m \in Nat /\ \A j \in 1 .. m : rows[j][1] \in Nat
  OBVIOUS
<1>2. a[1] \in Nat /\ b[1] \in Nat /\ a[1] % 2 = 1 /\ b[1] = a[1] + 1 /\ a[1] = 2 * k + 1
  BY SMTT(30)
<1>3. CASE new = <<>>
  <2>1. all = rows
    BY <1>3
  <2>2. \A j \in 1 .. m : rows[j][1] <= 2 * (k + 1)
    BY <1>1
  <2> QED BY <2>1, <2>2
<1>4. ASSUME NEW one \in Seq(S), one = Append(rows, a)
      PROVE  /\ one \in Seq(S) /\ PlaceRowsRight(one) /\ Len(one) = m + 1 /\ one[m + 1] = a
             /\ \A j \in 1 .. Len(one) : one[j][1] <= 2 * k + 1
  <2>1. Len(one) = m + 1 /\ one[m + 1] = a /\ \A j \in 1 .. m : one[j] = rows[j]
    BY <1>4
  <2>2. \A j \in 1 .. Len(one) : one[j][1] <= 2 * k + 1
    BY <1>1, <1>2, <2>1
  <2>3. ASSUME NEW j \in 1 .. m + 1
        PROVE  /\ one[j][1] % 2 = 0 => j > 1 /\ one[j - 1][1] = one[j][1] - 1
               /\ j > 1 => one[j - 1][1] < one[j][1]
    <3>1. CASE j = m + 1
      <4>1. j > 1 => j - 1 \in 1 .. m
        BY <1>1, <3>1
      <4> QED BY <1>1, <1>2, <2>1, <3>1, <4>1
    <3>2. CASE j # m + 1
      <4>1. j \in 1 .. m /\ (j > 1 => j - 1 \in 1 .. m)
        BY <1>1, <3>2
      <4> QED BY <2>1, <4>1 DEF PlaceRowsRight
    <3> QED BY <3>1, <3>2
  <2> QED BY <2>1, <2>2, <2>3 DEF PlaceRowsRight
<1>5. CASE new = <<a>>
  <2>1. all = Append(rows, a) /\ all \in Seq(S)
    BY <1>5
  <2> HIDE DEF all
  <2>2. \A j \in 1 .. Len(all) : all[j][1] <= 2 * k + 1
    BY <1>4, <2>1
  <2>3. \A j \in 1 .. Len(all) : all[j][1] \in Nat
    BY <2>1
  <2>4. \A j \in 1 .. Len(all) : all[j][1] <= 2 * (k + 1)
    BY <2>2, <2>3
  <2> QED BY <1>4, <2>1, <2>4 DEF all
<1>6. CASE new = <<a, b>>
  <2>1. PICK one : one = Append(rows, a)
    OBVIOUS
  <2>2. one \in Seq(S)
    BY <2>1
  <2>3. /\ PlaceRowsRight(one) /\ Len(one) = m + 1 /\ one[m + 1] = a
        /\ \A j \in 1 .. Len(one) : one[j][1] <= 2 * k + 1
    BY <1>4, <2>1, <2>2
  <2>4. all = Append(one, b) /\ all \in Seq(S)
    BY <1>6, <2>1
  <2> HIDE DEF all
  <2>5. Len(all) = m + 2 /\ all[m + 2] = b /\ \A j \in 1 .. m + 1 : all[j] = one[j]
    BY <1>1, <2>2, <2>3, <2>4
  <2>6. \A j \in 1 .. Len(one) : one[j][1] \in Nat
    BY <2>2
  <2>7. \A j \in 1 .. Len(all) : all[j][1] <= 2 * (k + 1)
    BY <1>1, <1>2, <2>3, <2>5, <2>6
  <2>8. ASSUME NEW j \in 1 .. m + 2
        PROVE  /\ all[j][1] % 2 = 0 => j > 1 /\ all[j - 1][1] = all[j][1] - 1
               /\ j > 1 => all[j - 1][1] < all[j][1]
    <3>1. CASE j = m + 2
      <4>1. j > 1 /\ j - 1 = m + 1 /\ m + 1 \in 1 .. m + 1
        BY <1>1, <3>1
      <4>2. all[j][1] = b[1] /\ all[j - 1][1] = a[1]
        BY <2>3, <2>5, <3>1, <4>1
      <4> QED BY <1>2, <4>1, <4>2
    <3>2. CASE j # m + 2
      <4>1. j \in 1 .. m + 1 /\ (j > 1 => j - 1 \in 1 .. m + 1)
        BY <1>1, <3>2
      <4> QED BY <2>3, <2>5, <4>1 DEF PlaceRowsRight
    <3> QED BY <3>1, <3>2
  <2> QED BY <2>4, <2>5, <2>7, <2>8 DEF PlaceRowsRight, all
<1> QED BY <1>3, <1>5, <1>6

\* A vehicle that nothing is pushed to has the same nodes and rows.
LEMMA SameRows ==
  ASSUME UNCHANGED <<vehicle, files>>
  PROVE  /\ Nodes(timeline)' = Nodes(timeline) /\ LocationRows' = LocationRows
         /\ StatusRows' = StatusRows /\ files' = files
         /\ {Row(k) : k \in Nat}' = {Row(k) : k \in Nat}
<1>1. timeline' = timeline /\ status' = status /\ files' = files
  BY DEF vehicle
<1>2. Nodes(timeline)' = Nodes(timeline) /\ StatusRows' = StatusRows
  BY <1>1 DEF StatusRows, Nodes
<1>3. LocationRows' = LocationRows
  BY <1>2 DEF LocationRows
<1>4. {Row(k) : k \in Nat}' = {Row(k) : k \in Nat}
  BY <1>3 DEF Row
<1> QED BY <1>1, <1>2, <1>3, <1>4

\* No statement changes the rows before it.
LEMMA SameTable ==
  ASSUME TablesRight, UNCHANGED <<vehicle, files>>, place' = place, Counted',
         stage # "filling", stage' # "filling", stage' = "place" => place = <<>>
  PROVE  TablesRight'
<1>1. /\ place' \in Seq({Row(k) : k \in Nat}') /\ PlaceRowsRight(place')
  BY SameRows DEF TablesRight
<1>2. "location" \in DOMAIN files' => files'["location"] = LocationRows'
  BY SameRows DEF TablesRight
<1>3. stage' = "place" => \A j \in 1 .. Len(place') : place'[j][1] <= 2 * cursor'
  OBVIOUS
<1> QED BY <1>1, <1>2, <1>3 DEF TablesRight

LEMMA TablesInit == MysqlInit => TablesRight
<1> SUFFICES ASSUME MysqlInit PROVE TablesRight
  OBVIOUS
<1>1. /\ stage = "filling" /\ DOMAIN files = {} /\ place = <<>> /\ cursor = 0 /\ count = 0
  BY DEF MysqlInit, VehicleInit
<1>2. Counted
  BY <1>1 DEF Counted
<1>3. place \in Seq({Row(k) : k \in Nat}) /\ PlaceRowsRight(place)
  BY <1>1 DEF PlaceRowsRight
<1> QED BY <1>1, <1>2, <1>3 DEF TablesRight

LEMMA FillTables ==
  ASSUME TablesRight, Fill, UNCHANGED db
  PROVE  TablesRight'
<1>1. cursor' = cursor /\ count' = count /\ place' = place /\ stage = "filling"
  BY DEF db, Fill, PushRecord, WriteToFile
<1>2. cursor \in Nat /\ count \in Nat /\ count = 0 /\ place = <<>> /\ DOMAIN files = {}
  BY <1>1 DEF TablesRight, Counted
<1>3. place' \in Seq({Row(k) : k \in Nat}') /\ PlaceRowsRight(place') /\ Len(place') = 0
  BY <1>1, <1>2 DEF PlaceRowsRight
<1>4. CASE \E loc \in Places, t \in Times : PushRecord(loc, t)
  <2>1. stage' = "filling" /\ DOMAIN files' = {}
    BY <1>1, <1>2, <1>4 DEF PushRecord
  <2>2. Counted'
    BY <1>1, <1>2, <2>1 DEF Counted
  <2> QED BY <1>3, <2>1, <2>2 DEF TablesRight
<1>5. CASE WriteToFile
  <2>1. stage' = "written"
    BY <1>5 DEF WriteToFile
  <2>2. Counted'
    BY <1>1, <1>2, <2>1 DEF Counted
  <2>3. LocationRows' = LocationRows
    BY <1>5 DEF WriteToFile, vehicle, LocationRows, Nodes
  <2>4. "location" \in DOMAIN files' => files'["location"] = LocationRows
    BY <1>5 DEF WriteToFile
  <2> QED BY <1>3, <2>1, <2>2, <2>3, <2>4 DEF TablesRight
<1> QED BY <1>4, <1>5 DEF Fill

LEMMA InsertPlaceTables ==
  ASSUME TablesRight, InsertPlace
  PROVE  TablesRight'
<1> DEFINE S == {Row(k) : k \in Nat}
           a == Row(2 * (cursor + 1) - 1)
           b == Row(2 * (cursor + 1))
<1>1. /\ UNCHANGED <<vehicle, files>> /\ stage = "place" /\ stage' = "place"
      /\ cursor' = cursor + 1 /\ count' = count + 1 /\ database' = database
  BY DEF InsertPlace, At, Done
<1>2. cursor \in Nat /\ count \in Nat /\ count = cursor /\ database = "vehicles_compressed"
  BY <1>1 DEF TablesRight, Counted
<1>3. PICK new \in {<<>>, <<a>>, <<a, b>>} : place' = place \o new
  BY DEF InsertPlace, PlaceRows
<1>4. a \in S /\ b \in S /\ a[1] = 2 * (cursor + 1) - 1 /\ b[1] = 2 * (cursor + 1)
  <2>1. 2 * (cursor + 1) - 1 \in Nat /\ 2 * (cursor + 1) \in Nat
    BY <1>2
  <2> QED BY <2>1 DEF Row
<1>5. \A r \in S : r[1] \in Nat
  BY RowFacts
<1>6. /\ place \in Seq(S) /\ PlaceRowsRight(place)
      /\ \A j \in 1 .. Len(place) : place[j][1] <= 2 * cursor
  BY <1>1 DEF TablesRight
<1> HIDE DEF S, a, b
<1>7. /\ place' \in Seq(S) /\ PlaceRowsRight(place')
      /\ \A j \in 1 .. Len(place') : place'[j][1] <= 2 * (cursor + 1)
  BY <1>2, <1>3, <1>4, <1>5, <1>6, PlaceRowsStay, ZenonT(40)
<1>8. Counted'
  BY <1>1, <1>2 DEF Counted
<1>9. S' = S /\ ("location" \in DOMAIN files' => files'["location"] = LocationRows')
  BY <1>1, SameRows DEF TablesRight, S
<1>10. place' \in Seq({Row(k) : k \in Nat}')
  BY <1>7, <1>9 DEF S
<1> QED BY <1>1, <1>7, <1>8, <1>9, <1>10 DEF TablesRight

\* What was counted is what there was to count.
LEMMA CountedStep ==
  ASSUME TablesRight, Test, ~InsertPlace
  PROVE  /\ UNCHANGED <<vehicle, files>> /\ place' = place /\ Counted'
         /\ stage # "filling" /\ stage' # "filling"
         /\ stage' = "place" => place = <<>>
<1>1. Counted /\ cursor \in Nat /\ count \in Nat
  BY DEF TablesRight, Counted
<1>2. UNCHANGED <<vehicle, files>> /\ place' = place
  BY DEF Test, Prepare, InsertOrigin, OriginDone, UseCompressed, PlaceDone, InsertStatus,
         StatusDone, At
<1>3. /\ Nodes(timeline)' = Nodes(timeline) /\ StatusRows' = StatusRows
      /\ LocationRows' = LocationRows
  BY <1>2, SameRows
<1>4. CASE Prepare
  BY <1>1, <1>2, <1>4 DEF Prepare, At, Goto, Counted
<1>5. CASE InsertOrigin
  BY <1>1, <1>2, <1>5 DEF InsertOrigin, At, Done, Counted
<1>6. CASE OriginDone
  BY <1>1, <1>2, <1>6 DEF OriginDone, At, Goto, Counted
<1>7. CASE UseCompressed
  <2>1. stage = "use" /\ count' = count /\ cursor' = 0
        /\ \/ stage' = "place" /\ database' = "vehicles_compressed"
           \/ stage' = "status" /\ database' = database
    BY <1>7 DEF UseCompressed, At, Goto
  <2>2. count = 0 /\ place = <<>> /\ database = "vehicles"
    BY <1>1, <2>1 DEF Counted
  <2>3. Counted'
    BY <2>1, <2>2 DEF Counted
  <2> QED BY <1>2, <2>1, <2>2, <2>3
<1>8. CASE PlaceDone
  BY <1>1, <1>2, <1>3, <1>8 DEF PlaceDone, At, Goto, Counted
<1>9. CASE InsertStatus
  BY <1>1, <1>2, <1>3, <1>9 DEF InsertStatus, At, Done, Counted
<1>10. CASE StatusDone
  BY <1>1, <1>2, <1>3, <1>10 DEF StatusDone, At, Goto, Counted, LocationRows
<1> QED BY <1>4, <1>5, <1>6, <1>7, <1>8, <1>9, <1>10 DEF Test

LEMMA TablesStep == TablesRight /\ [MysqlNext]_mysqlVars => TablesRight'
<1> SUFFICES ASSUME TablesRight, [MysqlNext]_mysqlVars PROVE TablesRight'
  OBVIOUS
<1>1. CASE Fill /\ UNCHANGED db
  BY <1>1, FillTables
<1>2. CASE InsertPlace
  BY <1>2, InsertPlaceTables
<1>3. CASE Test /\ ~InsertPlace
  BY <1>3, CountedStep, SameTable
<1>4. CASE UNCHANGED mysqlVars
  <2>1. /\ UNCHANGED <<vehicle, files>> /\ place' = place /\ stage' = stage
        /\ cursor' = cursor /\ count' = count /\ database' = database
    BY <1>4 DEF mysqlVars, vehicle
  <2>2. Counted'
    BY <2>1, SameRows DEF TablesRight, Counted
  <2> QED BY <2>1, <2>2, SameRows DEF TablesRight
<1> QED BY <1>1, <1>2, <1>3, <1>4 DEF MysqlNext

\* Whatever statements fail, the rows of the table of places are of the file, in
\* its order, no end of a node without its start, and the count is that of the
\* nodes there was a try to insert.
THEOREM TablesAreOfTheFile == MysqlSpec => []TablesTellTheFile
<1>1. TablesRight => TablesTellTheFile
  <2> SUFFICES ASSUME TablesRight PROVE TablesTellTheFile
    OBVIOUS
  <2>1. place \in Seq({Row(k) : k \in Nat}) /\ DOMAIN place = 1 .. Len(place)
    BY DEF TablesRight
  <2>2. \A j \in 1 .. Len(place) : place[j][2] = LocationRows[place[j][1]]
    BY <2>1, RowFacts
  <2> QED BY <2>1, <2>2 DEF TablesRight, PlaceRowsRight, Counted, TablesTellTheFile
<1> QED BY <1>1, TablesInit, TablesStep, PTL DEF MysqlSpec

-----------------------------------------------------------------------------
(* The path and the status.                                                *)

\* Every statement leaves the status a run-length compression.
LEMMA VehicleHasRuns == MysqlSpec => Runs!Spec
<1>1. MysqlInit => Runs!Init
  BY DEF MysqlInit, VehicleInit, Runs!Init, Status!Init
<1>2. [MysqlNext]_mysqlVars => [Runs!Next]_Runs!vars
  <2> SUFFICES ASSUME [MysqlNext]_mysqlVars PROVE [Runs!Next]_Runs!vars
    OBVIOUS
  <2>1. ASSUME NEW loc \in Places, NEW t \in Times, PushRecord(loc, t)
        PROVE  Runs!Next
    <3>1. PICK v \in Bits[loc] : Status!PushBack(v, t)
      BY <2>1 DEF PushRecord, PushStatus
    <3>2. v \in Values
      BY VehicleAssumption
    <3>3. Runs!PushBack(v, t)
      BY <3>1
      DEF Status!PushBack, Status!FirstNode, Status!RefillNew, Status!NewRun, Status!ExtendRun,
          Status!Continues, Status!InRun, Status!RunUntil, Status!Pushed, Status!NodeOf, Status!Fresh,
          Runs!PushBack, Runs!FirstNode, Runs!RefillNew, Runs!NewRun, Runs!ExtendRun,
          Runs!Continues, Runs!InRun, Runs!RunUntil, Runs!Pushed, Runs!NodeOf, Runs!Fresh,
          Status!IsEmpty, Status!IsNew, Status!LastNode, Status!Alloc, Status!SetLast,
          Status!HasFreeSpace, Status!NoTime, Runs!NoTime,
          Runs!IsEmpty, Runs!IsNew, Runs!LastNode, Runs!Alloc, Runs!SetLast, Runs!HasFreeSpace
    <3> QED BY <3>2, <3>3 DEF Runs!Next
  <2>2. CASE WriteToFile
    BY <2>2 DEF WriteToFile, vehicle, Runs!vars
  <2>3. CASE Test
    BY <2>3 DEF Test, Prepare, InsertOrigin, OriginDone, UseCompressed, InsertPlace, PlaceDone,
                InsertStatus, StatusDone, At, vehicle, Runs!vars
  <2>4. CASE UNCHANGED mysqlVars
    BY <2>4 DEF mysqlVars, Runs!vars
  <2> QED BY <2>1, <2>2, <2>3, <2>4 DEF MysqlNext, Fill
<1> QED BY <1>1, <1>2, PTL DEF MysqlSpec, Runs!Spec

LEMMA RunsRight == MysqlSpec => []Runs!IInv
<1>1. Times \subseteq Int /\ MaxSamples \in Nat
  BY LocationAssumption
<1> QED BY <1>1, ChunkCapacityAssumption, VehicleHasRuns, Runs!Invariance, PTL

\* The two timelines are pushed the same times.
SameTimes ==
  /\ Len(statusSamples) = Len(samples)
  /\ \A i \in 1 .. Len(samples) : statusSamples[i].t = samples[i].t

LEMMA TimesStaySame ==
  ASSUME TypeOK, Runs!TypeOK, SameTimes, [MysqlNext]_mysqlVars
  PROVE  SameTimes'
<1>1. CASE Fill
  <2>1. ASSUME NEW loc \in Places, NEW t \in Times, PushRecord(loc, t)
        PROVE  SameTimes'
    <3>1. samples' = Append(samples, [loc |-> loc, t |-> t])
      BY <2>1 DEF PushRecord, PushBack, FirstNode, RefillNew, StandStill, SetCourse, Turn,
                  LeaveCourse, GoOn, Continues, Pushed
    <3>2. PICK v \in Bits[loc] : statusSamples' = Append(statusSamples, [v |-> v, t |-> t])
      BY <2>1 DEF PushRecord, PushStatus, Status!PushBack, Status!FirstNode, Status!RefillNew,
                  Status!NewRun, Status!ExtendRun, Status!Continues, Status!Pushed
    <3>3. samples \in Seq(Sample) /\ statusSamples \in Seq(Runs!Sample)
      BY DEF TypeOK, Runs!TypeOK
    <3>4. PICK a, b : a = [loc |-> loc, t |-> t] /\ b = [v |-> v, t |-> t]
      OBVIOUS
    <3>5. a.t = b.t
      BY <3>4
    <3> QED BY <3>1, <3>2, <3>3, <3>4, <3>5 DEF SameTimes
  <2>2. CASE WriteToFile
    BY <2>2 DEF WriteToFile, vehicle, SameTimes
  <2> QED BY <1>1, <2>1, <2>2 DEF Fill
<1>2. CASE Test
  <2>1. samples' = samples /\ statusSamples' = statusSamples
    BY <1>2 DEF Test, Prepare, InsertOrigin, OriginDone, UseCompressed, InsertPlace, PlaceDone,
                InsertStatus, StatusDone, At, vehicle
  <2> QED BY <2>1 DEF SameTimes
<1>3. CASE UNCHANGED mysqlVars
  BY <1>3 DEF mysqlVars, SameTimes
<1> QED BY <1>1, <1>2, <1>3 DEF MysqlNext

\* The timelines of a vehicle tell of one drive: when the records came in time
\* order, each stretch begins where the status is found to be what it was there,
\* and path and status end together.
THEOREM OneDriveIsTold == MysqlSpec => []TimelinesTellOneDrive
<1>1. MysqlSpec => []SameTimes
  <2>1. MysqlInit => SameTimes
    BY DEF MysqlInit, VehicleInit, Init, Status!Init, SameTimes
  <2>2. Runs!IInv => Runs!TypeOK
    BY DEF Runs!IInv
  <2> QED BY <2>1, <2>2, TimesStaySame, VehicleHasAPath, TypeCorrect, RunsRight, PTL DEF MysqlSpec
<1>2. MysqlSpec => []Runs!Faithful
  <2>1. Times \subseteq Int /\ MaxSamples \in Nat
    BY LocationAssumption
  <2> QED BY <2>1, ChunkCapacityAssumption, VehicleHasRuns, Runs!CompressionIsFaithful, PTL
<1>3. MysqlSpec => []PathRight
  BY VehicleHasAPath, PathInit, PathStep, PTL DEF Spec
<1>4. PathRight /\ Runs!IInv /\ Runs!Faithful /\ SameTimes => TimelinesTellOneDrive
  <2> SUFFICES ASSUME PathRight, Runs!IInv, Runs!Faithful, SameTimes, InTimeOrder, samples # <<>>
               PROVE  TimelinesTellOneDrive
    BY DEF TimelinesTellOneDrive
  <2>1. /\ samples \in Seq(Sample) /\ DOMAIN samples = 1 .. Len(samples) /\ Len(samples) \in Nat \ {0}
        /\ statusSamples \in Seq(Runs!Sample) /\ DOMAIN statusSamples = 1 .. Len(samples)
        /\ \A i \in 1 .. Len(samples) : statusSamples[i].t = samples[i].t
    BY DEF PathRight, TypeOK, Runs!IInv, Runs!TypeOK, SameTimes
  <2>2. Runs!InTimeOrder
    BY <2>1 DEF InTimeOrder, Runs!InTimeOrder
  <2>3. status # <<>> /\ timeline # <<>>
    BY <2>1 DEF PathRight, Runs!IInv, Runs!RunsExact, Runs!RunsInOrder
  <2>4. ASSUME NEW q \in Positions(timeline), NodeAt(timeline, q).st # NoTime
        PROVE  LET n == NodeAt(timeline, q)
               IN  \E r \in Positions(status), i \in DOMAIN samples :
                     /\ samples[i] = [loc |-> n.sv, t |-> n.st]
                     /\ NodeAt(status, r).v = statusSamples[i].v
                     /\ NodeAt(status, r).st <= n.st /\ n.st <= NodeAt(status, r).et
    <3> DEFINE n == NodeAt(timeline, q)
               i == NodeAt(cover, q).b
    <3>1. /\ i \in 1 .. Len(samples) /\ n.sv = samples[i].loc /\ n.st = samples[i].t
      <4>1. WaysOK(NodeAt(cover, q)) /\ EndsRight(samples, n, NodeAt(cover, q))
        BY StretchTold DEF StretchRight
      <4> QED BY <2>1, <4>1 DEF WaysOK, EndsRight
    <3>2. samples[i] = [loc |-> n.sv, t |-> n.st]
      <4>1. samples[i] \in Sample
        BY <2>1, <3>1
      <4> QED BY <3>1, <4>1 DEF Sample
    <3>3. statusSamples[i].t # NoTime /\ statusSamples[i].t = n.st /\ i \in DOMAIN statusSamples
      BY <2>1, <2>4, <3>1
    <3> HIDE DEF n, i
    <3>4. PICK r \in Positions(status) :
            /\ NodeAt(status, r).v = statusSamples[i].v
            /\ NodeAt(status, r).st <= statusSamples[i].t
            /\ statusSamples[i].t <= NodeAt(status, r).et
      BY <2>2, <3>3
      DEF Runs!Faithful, Runs!Positions, Runs!NodeAt, Runs!NoTime, Positions, NodeAt, NoTime
    <3> QED BY <2>1, <3>1, <3>2, <3>3, <3>4 DEF n
  <2>5. LastNode(status).et = samples[Len(samples)].t
    <3>1. status \in Seq(Seq(Runs!Node)) /\ ChunksPacked(status)
      BY DEF Runs!IInv, Runs!TypeOK, Runs!Packed, Runs!ChunksPacked, ChunksPacked
    <3>2. LastPos(status) \in Positions(status) /\ NodeAt(status, LastPos(status)) = LastNode(status)
      BY <2>3, <3>1, LastPosition
    <3>3. NodeAt(statusCover, LastPos(status)).e = Len(statusSamples)
      BY <2>3 DEF Runs!IInv, Runs!RunsExact, Runs!RunsInOrder, Runs!NodeAt, Runs!LastPos,
                  NodeAt, LastPos
    <3>4. NodeAt(status, LastPos(status)).et
            = statusSamples[NodeAt(statusCover, LastPos(status)).e].t
      BY <3>2 DEF Runs!IInv, Runs!RunsExact, Runs!NodesAreRuns, Runs!NodeAt, Runs!Positions,
                  NodeAt, Positions
    <3>5. statusSamples[Len(samples)].t = samples[Len(samples)].t /\ Len(statusSamples) = Len(samples)
      BY <2>1 DEF SameTimes
    <3> QED BY <3>2, <3>3, <3>4, <3>5
  <2>6. \/ LastNode(timeline).et = samples[Len(samples)].t
        \/ Len(LastNode(cover).ways) = 2 /\ LastNode(cover).ways[2] = Len(samples)
    BY <2>3, LastFacts DEF StretchRight, EndsRight
  <2> QED BY <2>3, <2>4, <2>5, <2>6 DEF TimelinesTellOneDrive
<1> QED BY <1>1, <1>2, <1>3, <1>4, RunsRight, PTL
=============================================================================
