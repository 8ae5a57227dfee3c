--------------------------- MODULE GeneralTimeline ---------------------------
(***************************************************************************)
(* GeneralTimeline<char> of cache-node/compress.h: run-length compression  *)
(* of one status bit of a vehicle.  A node [v, st, et] stands for a run of *)
(* samples with the value v, the first taken at st and the last at et.     *)
(*                                                                         *)
(* The caller (Vehicle::push_back) holds the vehicle's mutex, so each call *)
(* of push_back is one step; each of its four branches is an action.       *)
(* samples is a history variable: everything ever pushed, in order.  cover *)
(* is another: for each node, the first and the last sample it stands for. *)
(***************************************************************************)
EXTENDS Timeline

CONSTANTS
  Values,      \* the values of the field (0 and 1 for a status bit)
  Times,       \* time_t values that samples carry; may contain NoTime, which
               \* a record whose time mktime() rejected carries (file.cpp)
  MaxSamples   \* bound on the number of samples pushed

ASSUME GeneralAssumption == Times \subseteq Int /\ MaxSamples \in Nat

VARIABLES timeline, samples, cover

vars == <<timeline, samples, cover>>

Node == [v : Values, st : Times, et : Times]
Sample == [v : Values, t : Times]
Extent == [b : Nat, e : Nat]

NodeOf(v, t) == [v |-> v, st |-> t, et |-> t]

\* The extent of a node that stands for the sample being pushed alone.
Fresh == [b |-> Len(samples) + 1, e |-> Len(samples) + 1]

Init == timeline = <<>> /\ samples = <<>> /\ cover = <<>>

\* What the history variable records when (v, t) is pushed.
Pushed(v, t) ==
  /\ Len(samples) < MaxSamples
  /\ samples' = Append(samples, [v |-> v, t |-> t])

\* lastOrAlloc() allocates the first node, which is new.
FirstNode(v, t) ==
  /\ Pushed(v, t)
  /\ IsEmpty(timeline)
  /\ timeline' = Alloc(timeline, NodeOf(v, t))
  /\ cover' = Alloc(cover, Fresh)

\* The last node still looks new although it was filled before: its sample
\* was taken at NoTime.  The node is filled again.
RefillNew(v, t) ==
  /\ Pushed(v, t)
  /\ ~IsEmpty(timeline) /\ IsNew(LastNode(timeline))
  /\ timeline' = SetLast(timeline, NodeOf(v, t))
  /\ cover' = SetLast(cover, Fresh)

\* A sample that finds a last node that is filled.
Continues(v, t) == Pushed(v, t) /\ ~IsEmpty(timeline) /\ ~IsNew(LastNode(timeline))

\* Mistakes the run must notice: the value is not compared, and the end of a run is
\* not moved.
InRunAlways(v) == TRUE
RunKept(t) == LastNode(timeline)

InRun(v) == LastNode(timeline).v = v
RunUntil(t) == [LastNode(timeline) EXCEPT !.et = t]

\* node.v != v: a new run starts.
NewRun(v, t) ==
  /\ Continues(v, t) /\ ~InRun(v)
  /\ timeline' = Alloc(timeline, NodeOf(v, t))
  /\ cover' = Alloc(cover, Fresh)

\* node.et = t: the run goes on.
ExtendRun(v, t) ==
  /\ Continues(v, t) /\ InRun(v)
  /\ timeline' = SetLast(timeline, RunUntil(t))
  /\ cover' = SetLast(cover, [LastNode(cover) EXCEPT !.e = Len(samples) + 1])

PushBack(v, t) ==
  FirstNode(v, t) \/ RefillNew(v, t) \/ NewRun(v, t) \/ ExtendRun(v, t)

Next == \E v \in Values, t \in Times : PushBack(v, t)

Spec == Init /\ [][Next]_vars

-----------------------------------------------------------------------------
\* Types of the variables.
TypeOK ==
  /\ timeline \in Seq(Seq(Node))
  /\ samples \in Seq(Sample)
  /\ cover \in Seq(Seq(Extent))

\* The chunks a timeline allocates stay full and non-empty, however nodes are
\* allocated and refilled: Timeline::alloc's reserve(1024) and hasFreeSpace().
Packed == ChunksPacked(timeline)

\* Every node starts and ends with a pushed sample, and every sample between
\* the two has the node's value.
NodesAreRuns ==
  \A p \in Positions(timeline) :
    LET n == NodeAt(timeline, p)
        x == NodeAt(cover, p)
    IN  /\ x.b \in 1 .. x.e /\ x.e \in 1 .. Len(samples)
        /\ n.st = samples[x.b].t /\ n.et = samples[x.e].t
        /\ \A i \in x.b .. x.e : samples[i].v = n.v

\* The runs follow each other without overlap, and the last run ends with the
\* newest sample.
RunsInOrder ==
  /\ \A p, q \in Positions(timeline) :
       Before(p, q) => NodeAt(cover, p).e < NodeAt(cover, q).b
  /\ samples = <<>> <=> timeline = <<>>
  /\ timeline # <<>> => NodeAt(cover, LastPos(timeline)).e = Len(samples)

\* A node that still looks new is the last one, and stands for one sample.
NewIsLast ==
  \A p \in Positions(timeline) : IsNew(NodeAt(timeline, p)) =>
    /\ p = LastPos(timeline)
    /\ NodeAt(cover, p).b = NodeAt(cover, p).e

\* No sample that carries a time is forgotten.
AllCovered ==
  \A i \in DOMAIN samples : samples[i].t # NoTime =>
    \E p \in Positions(timeline) :
      i \in NodeAt(cover, p).b .. NodeAt(cover, p).e

\* GeneralTimeline::push_back compresses into exact runs: the timeline is the
\* run-length encoding of the samples, losing only samples without a time.
RunsExact ==
  SameShape(timeline, cover) /\ NodesAreRuns /\ RunsInOrder /\ NewIsLast /\ AllCovered

\* The vehicle's records were arranged by time before they were sent, which is
\* what CSVHelper::sort and the arrange test program are for.
InTimeOrder ==
  \A i, j \in DOMAIN samples : i < j => samples[i].t <= samples[j].t

\* What a reader of the compressed data relies on: if the samples came in time
\* order, each sample taken at t is found in a node with its value and with t
\* between st and et, and no sample taken strictly inside a node's interval
\* had another value.
Faithful ==
  InTimeOrder =>
    /\ \A i \in DOMAIN samples : samples[i].t # NoTime =>
         \E p \in Positions(timeline) :
           LET n == NodeAt(timeline, p)
           IN  n.v = samples[i].v /\ n.st <= samples[i].t /\ samples[i].t <= n.et
    /\ \A i \in DOMAIN samples, p \in Positions(timeline) :
         LET n == NodeAt(timeline, p)
         IN  n.st < samples[i].t /\ samples[i].t < n.et => n.v = samples[i].v

\* What was compressed stays as it is: once a newer node exists, no push
\* changes a node, so a reader of an older node never sees it move.
OnlyLastNodeChanges ==
  [][\A p \in Positions(timeline) :
       /\ p \in Positions(timeline')
       /\ NodeAt(timeline', p) # NodeAt(timeline, p) => p = LastPos(timeline)]_vars
=============================================================================
