------------------------------- MODULE Vehicle -------------------------------
(***************************************************************************)
(* struct Vehicle (cache-node/data.h, data.cpp): one location timeline and *)
(* twenty general ones, which all get each record, in one step under the   *)
(* vehicle's mutex; and the files they are written to.  The general ones   *)
(* are treated alike, and status stands for any of them.                   *)
(***************************************************************************)
EXTENDS LocationTimeline, SequencesExt

CONSTANTS
  Values,         \* the values of the status
  Bits,           \* Bits[loc]: those it may have at a place
  ReportSamples   \* bound on the samples of a vehicle that is written out

ASSUME VehicleAssumption ==
  Bits \in [Places -> SUBSET Values] /\ ReportSamples \in Nat

VARIABLES
  status,                      \* one of generalTimelines
  statusSamples, statusCover,  \* its history
  stage,                       \* "filling", and then where the report is
  files                        \* the files written, and the rows in each

general == <<status, statusSamples, statusCover>>
vehicle == <<timeline, p, pp, driveAngle, isDriveVectorOk, samples, cover, status,
             statusSamples, statusCover>>

Status == INSTANCE GeneralTimeline WITH
            timeline <- status, samples <- statusSamples, cover <- statusCover

VehicleInit ==
  /\ Init /\ Status!Init
  /\ stage = "filling" /\ files = [f \in {} |-> <<>>]

\* A mistake the run must notice: a status is only pushed when it is on.
PushStatusIfOn(v, t) == Status!PushBack(v, t) \/ (v = 0 /\ UNCHANGED general)

PushStatus(v, t) == Status!PushBack(v, t)

\* Vehicle::push_back: every timeline gets the record.
PushRecord(loc, t) ==
  /\ stage = "filling"
  /\ PushBack(loc, t)
  /\ \E v \in Bits[loc] : PushStatus(v, t)
  /\ UNCHANGED <<stage, files>>

\* The nodes of a timeline, through all its chunks.
Nodes(tl) == FlattenSeq(tl)

\* Two lines for each node of the path, one for each node of a status.
LocationRows ==
  [j \in 1 .. 2 * Len(Nodes(timeline)) |->
     LET n == Nodes(timeline)[(j + 1) \div 2]
     IN  IF j % 2 = 1 THEN <<n.st, n.sv>> ELSE <<n.et, n.ev>>]
StatusRows == Nodes(status)

\* Vehicle::write_to_file writes one file after the other, and returns at the
\* first that it cannot open.
WriteToFile ==
  /\ stage = "filling" /\ Len(samples) <= ReportSamples
  /\ stage' = "written"
  /\ \E opened \in {{}, {"location"}, {"location", "status"}} :
       files' = [f \in opened |-> IF f = "location" THEN LocationRows ELSE StatusRows]
  /\ UNCHANGED vehicle

-----------------------------------------------------------------------------
\* The timelines tell of one drive.  If the records came in time order, then at
\* the time a stretch of road begins, the status is found to be what it was
\* there; and they end together, at the time of the last record, unless that was
\* the first move of its stretch.
TimelinesTellOneDrive ==
  InTimeOrder /\ samples # <<>> =>
    /\ status # <<>>
    /\ \A q \in Positions(timeline) :
         LET n == NodeAt(timeline, q)
         IN  n.st # NoTime =>
               \E r \in Positions(status), i \in DOMAIN samples :
                 /\ samples[i] = [loc |-> n.sv, t |-> n.st]
                 /\ NodeAt(status, r).v = statusSamples[i].v
                 /\ NodeAt(status, r).st <= n.st /\ n.st <= NodeAt(status, r).et
    /\ \/ LastNode(timeline).et = LastNode(status).et
       \/ LET w == LastNode(cover).ways IN Len(w) = 2 /\ w[2] = Len(samples)
=============================================================================
