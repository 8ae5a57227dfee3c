-------------------------- MODULE LocationTimeline --------------------------
(***************************************************************************)
(* LocationTimeline of cache-node/compress.h: compression of a vehicle's   *)
(* path.  A node [st, sv, et, ev] stands for a stretch of road driven      *)
(* without turning: where and when it began and where and when it ended.   *)
(*                                                                         *)
(* The caller (Vehicle::push_back) holds the vehicle's mutex, so each call *)
(* of push_back is one step; each of its branches is an action.  The       *)
(* geometry is a parameter; Geometry has the code's.                       *)
(* samples is a history variable: everything ever pushed, in order.  cover *)
(* is another: for each node the first and the last sample it stands for,  *)
(* and the samples among them at which px, py was moved: its waypoints.    *)
(***************************************************************************)
EXTENDS Timeline

CONSTANTS
  Places,              \* what loc, and x and y, can be
  Times,               \* time_t values that samples carry; may contain NoTime
  MaxSamples,          \* bound on the number of samples pushed
  Near,                \* Near[<<a, b>>]: dis <= 20
  Heading,             \* Heading[<<a, b>>]: angle(), as an int
  OffCourse            \* OffCourse[<<start, a, dan>>]: disToVec > 150

ASSUME LocationAssumption ==
  /\ Times \subseteq Int /\ MaxSamples \in Nat
  /\ Near \in [Places \X Places -> BOOLEAN] /\ \A a \in Places : Near[<<a, a>>]
  /\ Heading \in [Places \X Places -> 0 .. 360]
  /\ OffCourse \in [Places \X Places \X (0 .. 180) -> BOOLEAN]

VARIABLES
  timeline,
  p,                   \* px and py: the last place that counted as a move
  pp,                  \* ppx and ppy: where the last node began
  driveAngle, isDriveVectorOk,
  samples, cover       \* history

course == <<pp, driveAngle, isDriveVectorOk>>
vars == <<timeline, p, course, samples, cover>>

Node == [st : Times, sv : Places, et : Times, ev : Places]
Sample == [loc : Places, t : Times]
Extent == [b : Nat, e : Nat, ways : Seq(Nat)]

NodeOf(loc, t) == [st |-> t, sv |-> loc, et |-> t, ev |-> loc]

\* The extent of a node that stands for the sample being pushed alone.
This == Len(samples) + 1
Fresh == [b |-> This, e |-> This, ways |-> <<This>>]

\* px, py, ppx, ppy and driveAngle are not initialised, and not read before they
\* are set; for driveAngle one value stands for all.
Init ==
  /\ timeline = <<>> /\ samples = <<>> /\ cover = <<>>
  /\ p \in Places /\ pp \in Places /\ driveAngle = 0
  /\ isDriveVectorOk = FALSE

\* What the history variable records when (loc, t) is pushed.
Pushed(loc, t) ==
  /\ Len(samples) < MaxSamples
  /\ samples' = Append(samples, [loc |-> loc, t |-> t])

\* The last node ends later: with the sample being pushed, as a move or not.
Stay == cover' = SetLast(cover, [LastNode(cover) EXCEPT !.e = This])
Move == cover' = SetLast(cover, [LastNode(cover) EXCEPT !.e = This, !.ways = Append(@, This)])

\* lastOrAlloc() allocates the first node, which is new.
FirstNode(loc, t) ==
  /\ Pushed(loc, t)
  /\ IsEmpty(timeline)
  /\ timeline' = Alloc(timeline, NodeOf(loc, t)) /\ cover' = Alloc(cover, Fresh)
  /\ p' = loc /\ pp' = loc
  /\ UNCHANGED <<driveAngle, isDriveVectorOk>>

\* The last node was filled with a sample without a time: it is filled again.
RefillNew(loc, t) ==
  /\ Pushed(loc, t)
  /\ ~IsEmpty(timeline) /\ IsNew(LastNode(timeline))
  /\ timeline' = SetLast(timeline, NodeOf(loc, t)) /\ cover' = SetLast(cover, Fresh)
  /\ p' = loc /\ pp' = loc
  /\ UNCHANGED <<driveAngle, isDriveVectorOk>>

\* A sample that goes on from a node that is filled.
Continues(loc, t) ==
  Pushed(loc, t) /\ ~IsEmpty(timeline) /\ ~IsNew(LastNode(timeline))

\* A mistake the run must notice: px and py follow every sample.
Drift(loc) == p' = loc

NoDrift(loc) == UNCHANGED p

\* At most 20 metres: only the time is brought up to date.
StandStill(loc, t) ==
  /\ Continues(loc, t)
  /\ Near[<<p, loc>>]
  /\ timeline' = SetLast(timeline, [LastNode(timeline) EXCEPT !.et = t]) /\ Stay
  /\ NoDrift(loc)
  /\ UNCHANGED course

\* The first move of a node gives it its direction.  node.et is left alone.
SetCourse(loc, t) ==
  /\ Continues(loc, t)
  /\ ~Near[<<p, loc>>] /\ ~isDriveVectorOk
  /\ timeline' = SetLast(timeline, [LastNode(timeline) EXCEPT !.ev = loc]) /\ Move
  /\ p' = loc
  /\ driveAngle' = Heading[<<p, loc>>] /\ isDriveVectorOk' = TRUE
  /\ UNCHANGED pp

\* dan: the angle between two headings, at most 180.
Between(a, b) ==
  LET d == IF a < b THEN b - a ELSE a - b
  IN  IF d > 180 THEN 360 % d ELSE d

Dan(loc) == Between(driveAngle, Heading[<<p, loc>>])

\* A mistake the run must notice: the new node keeps the old drive vector.
VectorKept == UNCHANGED isDriveVectorOk

VectorForgotten == isDriveVectorOk' = FALSE

NewNode(loc, t) ==
  /\ timeline' = Alloc(timeline, NodeOf(loc, t)) /\ cover' = Alloc(cover, Fresh)
  /\ p' = loc /\ pp' = loc
  /\ VectorForgotten
  /\ UNCHANGED driveAngle

\* A move that turns by more than 90 degrees begins a new node.
Turn(loc, t) ==
  /\ Continues(loc, t)
  /\ ~Near[<<p, loc>>] /\ isDriveVectorOk /\ Dan(loc) > 90
  /\ NewNode(loc, t)

\* So does one that is found more than 150 metres off course.
LeaveCourse(loc, t) ==
  /\ Continues(loc, t)
  /\ ~Near[<<p, loc>>] /\ isDriveVectorOk /\ Dan(loc) <= 90 /\ OffCourse[<<pp, loc, Dan(loc)>>]
  /\ NewNode(loc, t)

\* A mistake the run must notice: the time is forgotten here too.
LongerNotLater(loc, t) == [LastNode(timeline) EXCEPT !.ev = loc]

Longer(loc, t) == [LastNode(timeline) EXCEPT !.ev = loc, !.et = t]

\* Any other move makes the last node longer.
GoOn(loc, t) ==
  /\ Continues(loc, t)
  /\ ~Near[<<p, loc>>] /\ isDriveVectorOk /\ Dan(loc) <= 90 /\ ~OffCourse[<<pp, loc, Dan(loc)>>]
  /\ timeline' = SetLast(timeline, Longer(loc, t)) /\ Move
  /\ p' = loc
  /\ UNCHANGED course

PushBack(loc, t) ==
  \/ FirstNode(loc, t) \/ RefillNew(loc, t) \/ StandStill(loc, t)
  \/ SetCourse(loc, t) \/ Turn(loc, t) \/ LeaveCourse(loc, t) \/ GoOn(loc, t)

Next == \E loc \in Places, t \in Times : PushBack(loc, t)

Spec == Init /\ [][Next]_vars

-----------------------------------------------------------------------------
\* Types of the variables; an angle is there when the drive vector is.
TypeOK ==
  /\ timeline \in Seq(Seq(Node))
  /\ p \in Places /\ pp \in Places
  /\ driveAngle \in 0 .. 360 /\ isDriveVectorOk \in BOOLEAN
  /\ samples \in Seq(Sample)
  /\ cover \in Seq(Seq(Extent))

Place(i) == samples[i].loc

\* The waypoints of a stretch: its first sample, then some of the others.
WaysOK(x) ==
  /\ x.b \in 1 .. x.e /\ x.e \in 1 .. Len(samples)
  /\ Len(x.ways) > 0 /\ x.ways[1] = x.b
  /\ \A k \in DOMAIN x.ways : x.ways[k] \in x.b .. x.e
  /\ \A k, l \in DOMAIN x.ways : k < l => x.ways[k] < x.ways[l]

\* Each sample is a waypoint or within 20 metres of the waypoint before it.
WithinReach(x) ==
  \A i \in x.b .. x.e : \E k \in DOMAIN x.ways :
    /\ x.ways[k] <= i
    /\ k < Len(x.ways) => i < x.ways[k + 1]
    /\ i = x.ways[k] \/ Near[<<Place(x.ways[k]), Place(i)>>]

\* The path survives compression: the nodes are the samples in order, cut into
\* stretches without gap or overlap (but for samples without a time that were
\* overwritten); each begins and ends where the vehicle was, and passes within
\* 20 metres of every sample in it.
TrackKept ==
  /\ SameShape(timeline, cover)
  /\ \A q \in Positions(timeline) :
       LET n == NodeAt(timeline, q)
           x == NodeAt(cover, q)
       IN  /\ WaysOK(x) /\ WithinReach(x)
           /\ n.sv = Place(x.b) /\ n.st = samples[x.b].t
           /\ n.ev = Place(x.ways[Len(x.ways)])
  /\ \A q, r \in Positions(timeline) : Before(q, r) => NodeAt(cover, q).e < NodeAt(cover, r).b
  /\ samples = <<>> <=> timeline = <<>>
  /\ timeline # <<>> => NodeAt(cover, LastPos(timeline)).e = Len(samples)
  /\ \A i \in DOMAIN samples : samples[i].t # NoTime =>
       \E q \in Positions(timeline) : i \in NodeAt(cover, q).b .. NodeAt(cover, q).e

\* Within a node the vehicle never turns by more than 90 degrees from its first
\* move, and is never found off course as seen from where the node began: the
\* remembered start, place and angle are always those of the node at hand.
CourseKept ==
  \A q \in Positions(timeline) :
    LET w == NodeAt(cover, q).ways
        first == Heading[<<Place(w[1]), Place(w[2])>>]
    IN  \A k \in 3 .. Len(w) :
          LET dan == Between(first, Heading[<<Place(w[k - 1]), Place(w[k])>>])
          IN  dan <= 90 /\ ~OffCourse[<<Place(w[1]), Place(w[k]), dan>>]

InTimeOrder ==
  \A i, j \in DOMAIN samples : i < j => samples[i].t <= samples[j].t

\* A node ends at the time of its last sample, unless that is its first move:
\* then at the time of the sample before.  So, if the samples came in time
\* order, no node ends before it begins or after the next begins.
EndTimes ==
  /\ \A q \in Positions(timeline) :
       LET n == NodeAt(timeline, q)
           x == NodeAt(cover, q)
       IN  \/ n.et = samples[x.e].t
           \/ Len(x.ways) = 2 /\ x.ways[2] = x.e /\ n.et = samples[x.e - 1].t
  /\ InTimeOrder =>
       /\ \A q \in Positions(timeline) : NodeAt(timeline, q).st <= NodeAt(timeline, q).et
       /\ \A q, r \in Positions(timeline) :
            Before(q, r) => NodeAt(timeline, q).et <= NodeAt(timeline, r).st

\* "Time, longitude, latitude" (data.cpp:301), the columns both lines of a node
\* are written under: the vehicle was there, give or take 20 metres, then.
EndsAreFixes ==
  \A q \in Positions(timeline) :
    LET n == NodeAt(timeline, q)
    IN  \E i \in DOMAIN samples : samples[i].t = n.et /\ Near[<<Place(i), n.ev>>]
=============================================================================
