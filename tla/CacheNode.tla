----------------------------- MODULE CacheNode -----------------------------
(***************************************************************************)
(* The cache node as main() composes it (cache-node/main.cpp, worker.h):   *)
(* the epoll thread puts messages into its out-queue, the one worker takes *)
(* them and pushes them into the cache.                                    *)
(*                                                                         *)
(* The queue is the abstract channel Fifo, which the module Queue is shown *)
(* to implement: `out' is what was ever put in, and `taken' counts what    *)
(* the worker has taken out.  Cache::push_back by a single thread is one   *)
(* step here; Cache models its own steps.                                  *)
(***************************************************************************)
EXTENDS Epoll, FiniteSets

CONSTANT RecordLength    \* the pieces of a package that holds a VehicleData

ASSUME CacheNodeAssumption == RecordLength \in Nat /\ RecordLength >= HeaderLength

VARIABLES
  taken,     \* how many messages the worker has taken
  cached     \* the messages pushed into the cache

nodeVars == <<vars, taken, cached>>

NodeInit == Init /\ taken = 0 /\ cached = <<>>

-----------------------------------------------------------------------------
\* The message the worker has in hand is out[taken].
Holding == Len(cached) < taken

\* inQueue.get(msg)
Get ==
  /\ alive /\ ~Holding /\ taken < Len(out)
  /\ taken' = taken + 1
  /\ UNCHANGED <<vars, cached>>

\* cache->push_back(*msg)
PushBack ==
  /\ alive /\ Holding /\ Len(out[taken].data) = RecordLength
  /\ cached' = Append(cached, out[taken])
  /\ UNCHANGED <<vars, taken>>

\* The constructor of VehicleData throws, and nobody catches it.
PushBackThrows ==
  /\ alive /\ Holding /\ Len(out[taken].data) # RecordLength
  /\ alive' = FALSE
  /\ UNCHANGED <<clients, backlog, edge, peer, got, startup, at, epEvents, sock, read, lists,
                 table, out, refused, taken, cached>>

worker_thread == Get \/ PushBack \/ PushBackThrows

NodeNext == worker_thread \/ (EpollNext /\ UNCHANGED <<taken, cached>>)

NodeSpec == NodeInit /\ [][NodeNext]_nodeVars

\* Both threads go on when they can.  No client has to do anything.
NodeFairSpec ==
  /\ NodeSpec
  /\ WF_nodeVars(EpollThread /\ UNCHANGED <<taken, cached>>)
  /\ WF_nodeVars(worker_thread)

-----------------------------------------------------------------------------
Ends(c) == {i \in DOMAIN script[c] : script[c][i] = "end"}

\* The places of the pieces of the package that ends at e.
Package(c, e) ==
  {i \in DOMAIN script[c] : /\ i < e /\ script[c][i] = "payload"
                            /\ \A f \in Ends(c) : i < f => e <= f}

\* A client that sends what encode_package makes of records.
Encodes(c) ==
  /\ \A e \in Ends(c) : Cardinality(Package(c, e)) = RecordLength
  /\ \A i \in 1 .. Len(script[c]) :
       script[c][i] = "start" <=> i = 1 \/ script[c][i - 1] = "end"

Pieces(m) == {m.data[j] : j \in 1 .. Len(m.data)}

\* What the node has of client c, of the package that ends at e.
IsPackage(m, c, e) == Pieces(m) = {c} \X Package(c, e)

\* Everything a client that encodes its records gets into the node is one of
\* its packages, whole, in the order sent, none of them twice and none left
\* out between two others, whichever socket number it was given after
\* whomever, and whoever hung up in the middle of a package before it.
RecordsOfASession ==
  \A c \in {c \in Clients : Encodes(c)} :
    LET mine == {i \in 1 .. Len(out) : out[i].sid = session[c]}
    IN  \A i \in mine : \E e \in Ends(c) :
          /\ IsPackage(out[i], c, e)
          /\ Cardinality({j \in mine : j < i}) = Cardinality({f \in Ends(c) : f < e})

\* As long as all clients encode records the node survives them, also if they
\* hang up in the middle of a package or break the connection: the two
\* exceptions nobody catches (data.cpp:139, 152) are out of their reach.
OnlyOthersEndTheNode == ~alive => \E c \in Clients : ~Encodes(c)

-----------------------------------------------------------------------------
Stopped == ~alive \/ at = "ended"

\* Records a client has sent completely reach the cache, unless the connection
\* breaks, an exception ends the node, or descriptors have run out.  If only the
\* epoll thread ends (a signal interrupts epoll_wait, and the process goes on),
\* then at least all that it put into the queue does.
Missing(c) ==
  /\ Encodes(c) /\ hang[c] # "reset"
  /\ \E e \in Ends(c) : /\ e <= sent[c]
                       /\ ~\E i \in 1 .. Len(cached) : IsPackage(cached[i], c, e)

SentIsCached ==
  (\E c \in Clients : Missing(c)) ~>
    \/ (\A c \in Clients : ~Missing(c)) \/ ~alive \/ refused
    \/ at = "ended" /\ Len(cached) = Len(out)

\* Nobody is left in the backlog, although the listening socket reports a
\* newcomer only once, as long as descriptors last.
NobodyLeftWaiting == backlog # <<>> ~> backlog = <<>> \/ Stopped \/ refused

\* A client that hung up does not keep its descriptor, whatever it left.
Leaking == \E c \in Clients : Open(c) /\ hang[c] # "no"
DescriptorsComeBack == Leaking ~> ~Leaking \/ Stopped
=============================================================================
