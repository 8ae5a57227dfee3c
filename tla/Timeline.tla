------------------------------ MODULE Timeline ------------------------------
(***************************************************************************)
(* The node store every timeline of cache-node/compress.h is built on:     *)
(* struct Timeline keeps its nodes in a vector of chunks, reserves a fixed *)
(* capacity for each chunk (1024 in the code, ChunkCapacity here) and only *)
(* ever touches the last node.  A timeline is a sequence of chunks, a      *)
(* chunk a sequence of nodes; a node is a record with at least the field   *)
(* st, the start time.                                                     *)
(***************************************************************************)
EXTENDS Integers, Sequences

CONSTANT ChunkCapacity

ASSUME ChunkCapacityAssumption == ChunkCapacity \in Nat \ {0}

\* The start time a default-constructed node carries; isNew() tests for it.
NoTime == -1

IsNew(node) == node.st = NoTime

\* Timeline::isEmpty
IsEmpty(tl) == Len(tl) = 0 \/ (Len(tl) = 1 /\ Len(tl[1]) = 0)

\* Mistakes the runs of the timelines must notice: the capacity of a chunk is
\* not looked at, and front() is written where back() is meant.
HasFreeSpaceAlways(tl) == Len(tl) > 0
SetFirstChunk(tl, node) == [tl EXCEPT ![1][Len(tl[1])] = node]

\* Timeline::hasFreeSpace: the last chunk has not used up its capacity.
HasFreeSpace(tl) == Len(tl) > 0 /\ Len(tl[Len(tl)]) < ChunkCapacity

\* Timeline::last: the newest node, timeline.back().back().
LastNode(tl) == tl[Len(tl)][Len(tl[Len(tl)])]

\* Writing through the reference that last() returned.
SetLast(tl, node) == [tl EXCEPT ![Len(tl)][Len(tl[Len(tl)])] = node]

\* Timeline::alloc, together with the assignments every caller makes to the
\* fresh node before anyone else can see it.
Alloc(tl, node) ==
  IF HasFreeSpace(tl) THEN [tl EXCEPT ![Len(tl)] = Append(@, node)]
                      ELSE Append(tl, <<node>>)

-----------------------------------------------------------------------------
\* Positions of nodes (chunk, offset) and the order they were allocated in.
Positions(tl) == UNION {{c} \X (1 .. Len(tl[c])) : c \in 1 .. Len(tl)}

NodeAt(tl, p) == tl[p[1]][p[2]]

LastPos(tl) == <<Len(tl), Len(tl[Len(tl)])>>

Before(p, q) == p[1] < q[1] \/ (p[1] = q[1] /\ p[2] < q[2])

\* Every chunk but the last is full, and none is empty: what reserve(1024) and
\* "allocate a chunk only when the last one is full" are meant to achieve.
ChunksPacked(tl) ==
  \A c \in 1 .. Len(tl) : /\ Len(tl[c]) \in 1 .. ChunkCapacity
                          /\ c < Len(tl) => Len(tl[c]) = ChunkCapacity

\* Two stores with the same chunks, in number and length.
SameShape(a, b) ==
  /\ Len(a) = Len(b)
  /\ \A c \in 1 .. Len(a) : Len(a[c]) = Len(b[c])
=============================================================================
