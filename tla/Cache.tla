-------------------------------- MODULE Cache --------------------------------
(***************************************************************************)
(* class Cache (cache-node/cache.h, cache.cpp): the two-level map from the *)
(* two keys of a vehicle id to its Vehicle object, filled by threads that  *)
(* call push_back, then counted and written out by the thread that joined  *)
(* them (cache_test in terminal/main.cpp; the worker thread of the cache   *)
(* node is the same with one thread and no end).                           *)
(*                                                                         *)
(* A sample is named <<t, i>>: the i-th record that thread t pushes.  The  *)
(* steps of push_back are cut where another thread can get in between: at  *)
(* the lock and unlock calls on lmap1 and at the vehicle's own mutex.      *)
(* Nobody ever write-locks lmap2 (the only wlock() is in a branch that the *)
(* comparison of iterators of two different maps keeps from being taken),  *)
(* so its read lock never waits and is not modelled.                       *)
(***************************************************************************)
EXTENDS Integers, Sequences, FiniteSets

CONSTANTS
  Threads,     \* the threads that call push_back
  Ids,         \* vehicle ids (licence plates)
  Key1, Key2,  \* the two keys generate_index() computes for an id
  Feed,        \* Feed[t]: the vehicle ids of the records thread t pushes
  None         \* nobody: no thread, no object (a null shared_ptr)

ASSUME CacheAssumption ==
  /\ IsFiniteSet(Threads)
  /\ Key1 \in [Ids -> Nat] /\ Key2 \in [Ids -> Nat]
  /\ Feed \in [Threads -> Seq(Ids)]
  /\ None \notin Threads /\ None \notin Nat

VARIABLES
  pc,          \* where each thread is in push_back
  begun,       \* how many records each thread has begun to push
  target,      \* each thread's local variable target
  vehicles,    \* key1 -> key2 -> object
  heap,        \* every Vehicle object ever made, reachable or not
  readers,     \* lmap1: the threads that hold it for reading
  writer,      \* lmap1: the thread that holds it for writing
  processed,   \* countOfProcessedPackage
  compressed,  \* countOfCompressed, one of its 21 fields
  main,        \* where the joining thread is
  alive        \* FALSE once the process has crashed

callers == <<pc, begun, target>>
lmap1 == <<readers, writer>>
report == <<compressed, main>>
vars == <<pc, begun, target, vehicles, heap, readers, writer, processed,
          compressed, main, alive>>

\* The record thread t is pushing, and its vehicle.
Current(t) == <<t, begun[t]>>
IdOf(s) == Feed[s[1]][s[2]]
CurrentId(t) == IdOf(Current(t))

Goto(t, to) == pc' = [pc EXCEPT ![t] = to]

Init ==
  /\ pc = [t \in Threads |-> "idle"]
  /\ begun = [t \in Threads |-> 0]
  /\ target = [t \in Threads |-> None]
  /\ vehicles = [k \in {} |-> {}]
  /\ heap = <<>>
  /\ readers = {} /\ writer = None
  /\ processed = 0 /\ compressed = 0
  /\ main = "joining" /\ alive = TRUE

-----------------------------------------------------------------------------
(* Cache::push_back, step by step.                                         *)

\* A mistake the run must notice: a package is not counted when it comes in.
NotCounted == UNCHANGED processed

Counted == processed' = processed + 1

\* A record is handed to push_back, which counts it first.
Count(t) ==
  /\ pc[t] = "idle" /\ begun[t] < Len(Feed[t])
  /\ begun' = [begun EXCEPT ![t] = @ + 1]
  /\ Counted
  /\ Goto(t, "rlock")
  /\ UNCHANGED <<target, vehicles, heap, lmap1, report, alive>>

\* A mistake the run must notice: the map is read without waiting for a writer.
MayReadAlways == TRUE

MayRead == writer = None

\* lmap1.rlock()
RLock(t) ==
  /\ pc[t] = "rlock" /\ MayRead
  /\ readers' = readers \cup {t}
  /\ Goto(t, "find")
  /\ UNCHANGED <<begun, target, vehicles, heap, writer, processed, report, alive>>

\* A mistake the run must notice: what find() returned is not looked at.
FoundNever(t) == FALSE

Found(t) == Key1[CurrentId(t)] \in DOMAIN vehicles

\* vehicles.find(vd.key1); lmap1.unlock()
Find(t) ==
  /\ pc[t] = "find"
  /\ readers' = readers \ {t}
  /\ Goto(t, IF Found(t) THEN "inner" ELSE "make")
  /\ UNCHANGED <<begun, target, vehicles, heap, writer, processed, report, alive>>

\* Not found: a new Vehicle is made, and lmap1.wlock() taken.
Make(t) ==
  /\ pc[t] = "make" /\ writer = None /\ readers = {}
  /\ heap' = Append(heap, [id |-> CurrentId(t), samples |-> <<>>])
  /\ target' = [target EXCEPT ![t] = Len(heap) + 1]
  /\ writer' = t
  /\ Goto(t, "insert")
  /\ UNCHANGED <<begun, vehicles, readers, processed, report, alive>>

\* Mistakes the run must notice: vehicles[key1] = ... instead of insert(), and a
\* lock that is kept.
EntryOver(t, k) ==
  IF k = Key1[CurrentId(t)] THEN [q \in {Key2[CurrentId(t)]} |-> target[t]] ELSE vehicles[k]
KeepLock == UNCHANGED writer

\* std::map::insert leaves an entry that is already there alone.
Entry(t, k) ==
  IF k \in DOMAIN vehicles THEN vehicles[k] ELSE [q \in {Key2[CurrentId(t)]} |-> target[t]]
LetGo == writer' = None

\* vehicles.insert(vmap1); lmap1.unlock().  The thread keeps its own object as
\* target, in the map or not.
Insert(t) ==
  /\ pc[t] = "insert"
  /\ vehicles' = [k \in DOMAIN vehicles \cup {Key1[CurrentId(t)]} |-> Entry(t, k)]
  /\ LetGo
  /\ Goto(t, "append")
  /\ UNCHANGED <<begun, target, heap, readers, processed, report, alive>>

\* A mistake the run must notice: the second key is not looked at.
FindInnerAny(t) ==
  /\ pc[t] = "inner"
  /\ \E q \in DOMAIN vehicles[Key1[CurrentId(t)]] :
       target' = [target EXCEPT ![t] = vehicles[Key1[CurrentId(t)]][q]]
  /\ Goto(t, "append")
  /\ UNCHANGED <<begun, vehicles, heap, lmap1, processed, report, alive>>

\* Found, and the inner map, copied without a lock, has the second key.
FindInner(t) ==
  LET inner == vehicles[Key1[CurrentId(t)]]
  IN  /\ pc[t] = "inner" /\ Key2[CurrentId(t)] \in DOMAIN inner
      /\ target' = [target EXCEPT ![t] = inner[Key2[CurrentId(t)]]]
      /\ Goto(t, "append")
      /\ UNCHANGED <<begun, vehicles, heap, lmap1, processed, report, alive>>

\* Found, but not the second key: res is the end() of the copy, is compared
\* with the end() of the original, and is dereferenced.  Undefined; what was
\* seen of builds is a null pointer or a crash.
FindInnerMissing(t) ==
  /\ pc[t] = "inner"
  /\ Key2[CurrentId(t)] \notin DOMAIN vehicles[Key1[CurrentId(t)]]
  /\ \/ /\ target' = [target EXCEPT ![t] = None]
        /\ Goto(t, "null")
        /\ UNCHANGED alive
     \/ alive' = FALSE /\ UNCHANGED <<pc, target>>
  /\ UNCHANGED <<begun, vehicles, heap, lmap1, processed, report>>

\* target == nullptr: "Unreached" is logged and the record dropped.
Unreached(t) ==
  /\ pc[t] = "null"
  /\ Goto(t, "idle")
  /\ UNCHANGED <<begun, target, vehicles, heap, lmap1, processed, report, alive>>

\* A mistake the run must notice: the newest record is put first.
InFront(samples, s) == <<s>> \o samples

AtEnd(samples, s) == Append(samples, s)

\* target->push_back(vd), under the vehicle's mutex.
AppendSample(t) ==
  /\ pc[t] = "append"
  /\ heap' = [heap EXCEPT ![target[t]].samples = AtEnd(@, Current(t))]
  /\ Goto(t, "idle")
  /\ UNCHANGED <<begun, target, vehicles, lmap1, processed, report, alive>>

PushBack(t) ==
  Count(t) \/ RLock(t) \/ Find(t) \/ Make(t) \/ Insert(t)
    \/ FindInner(t) \/ FindInnerMissing(t) \/ Unreached(t) \/ AppendSample(t)

-----------------------------------------------------------------------------
(* The thread that joins the others and reports.                           *)

Joined == \A t \in Threads : pc[t] = "idle" /\ begun[t] = Len(Feed[t])

\* Cache::get_vehicle: out_of_range becomes a null pointer.
GetVehicle(id) ==
  IF Key1[id] \in DOMAIN vehicles /\ Key2[id] \in DOMAIN vehicles[Key1[id]]
  THEN vehicles[Key1[id]][Key2[id]] ELSE None

\* The objects in the map, and the places of the samples they hold.
Reachable == UNION {{vehicles[k][q] : q \in DOMAIN vehicles[k]} : k \in DOMAIN vehicles}
Stored == UNION {{<<o, i>> : i \in DOMAIN heap[o].samples} : o \in Reachable}

\* Cache::count: the nodes of one timeline, summed over the vehicles; a vehicle
\* has at least one node and at most one for each of its samples.
CountCompressed ==
  /\ main = "joining" /\ Joined
  /\ \E c \in Cardinality(Reachable) .. Cardinality(Stored) : compressed' = c
  /\ main' = "counted"
  /\ UNCHANGED <<callers, vehicles, heap, lmap1, processed, alive>>

\* Cache::statistic divides by countOfProcessedPackage.
Statistic ==
  /\ main = "counted"
  /\ main' = "reported"
  /\ alive' = (processed # 0)
  /\ UNCHANGED <<callers, vehicles, heap, lmap1, processed, compressed>>

\* Cache::write_to_file
WriteToFile ==
  /\ main = "reported"
  /\ main' = "written"
  /\ UNCHANGED <<callers, vehicles, heap, lmap1, processed, compressed, alive>>

Report == CountCompressed \/ Statistic \/ WriteToFile

Next == alive = TRUE /\ ((\E t \in Threads : PushBack(t)) \/ Report)

\* A thread that can run is run, and so is the joining thread.
Fairness == /\ \A t \in Threads : WF_vars(alive /\ PushBack(t))
            /\ WF_vars(alive /\ Report)

Spec == Init /\ [][Next]_vars

FairSpec == Spec /\ Fairness

-----------------------------------------------------------------------------
(* What cache_test keeps to: one file for each vehicle and each file in    *)
(* one thread's share, and ids of at most eight characters, which their    *)
(* first keys tell apart.  A vehicle is kept if that is so of its records, *)
(* whatever happens to others.                                             *)
Kept ==
  {v \in Ids : \A t, u \in Threads : \A i \in DOMAIN Feed[t], j \in DOMAIN Feed[u] :
     Key1[Feed[t][i]] = Key1[v] /\ Key1[Feed[u][j]] = Key1[v] =>
       t = u /\ Key2[Feed[t][i]] = Key2[v]}

-----------------------------------------------------------------------------
Steps == {"idle", "rlock", "find", "make", "insert", "inner", "append", "null"}
Samples == Threads \X (Nat \ {0})
Object == [id : Ids, samples : Seq(Samples)]

TypeOK ==
  /\ pc \in [Threads -> Steps]
  /\ begun \in [Threads -> Nat]
  /\ \A t \in Threads : begun[t] <= Len(Feed[t])
  /\ target \in [Threads -> Nat \cup {None}]
  /\ heap \in Seq(Object)
  /\ \A k \in DOMAIN vehicles : k \in Nat /\ DOMAIN vehicles[k] \subseteq Nat
  /\ Reachable \subseteq DOMAIN heap
  /\ readers \in SUBSET Threads /\ writer \in Threads \cup {None}
  /\ processed \in Nat /\ compressed \in Nat
  /\ main \in {"joining", "counted", "reported", "written"} /\ alive \in BOOLEAN

\* No thread looks into the outer map while another inserts into it, and no two
\* insert at once: lmap1 does what push_back takes it for.
MapAccessExclusive ==
  \A t, u \in Threads :
    pc[t] = "insert" /\ pc[u] \in {"find", "insert"} => t = u

\* push_back has returned from the i-th record of thread t.
Returned(t, i) == i = begun[t] => pc[t] = "idle"

InCache(s) ==
  LET o == GetVehicle(IdOf(s))
  IN  o # None /\ \E j \in DOMAIN heap[o].samples : heap[o].samples[j] = s

\* "Add a vd to the cache" (cache.h:59): when push_back has returned, the record
\* is in the vehicle that get_vehicle finds for its id.
AddedToCache ==
  \A t \in Threads : \A i \in 1 .. begun[t] : Returned(t, i) => InCache(<<t, i>>)

\* No record of a vehicle that is kept is ever lost, whatever the threads do to
\* other vehicles meanwhile; and the process only crashes where a second key is
\* missing, of a vehicle that is not kept, or where a ratio of nothing is
\* computed.
NoSampleLost ==
  /\ \A t \in Threads : \A i \in 1 .. begun[t] :
       Returned(t, i) /\ IdOf(<<t, i>>) \in Kept => InCache(<<t, i>>)
  /\ alive = FALSE => \/ \E t \in Threads : pc[t] = "inner" /\ CurrentId(t) \notin Kept
                      \/ processed = 0

\* Whatever the threads do, a vehicle is only ever given records of its own two
\* keys, each once, and each thread's records in the order it pushed them.
OnlyOwnRecords ==
  \A o \in DOMAIN heap :
    LET s == heap[o].samples
    IN  /\ \A j \in DOMAIN s : /\ Key1[IdOf(s[j])] = Key1[heap[o].id]
                               /\ Key2[IdOf(s[j])] = Key2[heap[o].id]
        /\ \A i, j \in DOMAIN s : i < j /\ s[i][1] = s[j][1] => s[i][2] < s[j][2]

\* statistic() subtracts unsigned numbers: it must never count more nodes than
\* packages, whatever the threads lost or dropped.
RatioDoesNotWrap == compressed <= processed

\* The pointer get_vehicle hands out stays the vehicle's: no entry of either
\* level is ever replaced or erased, which is what lets push_back use the
\* iterator and copy the inner map after it has let go of lmap1.
EntriesNeverChange ==
  [][\A k \in DOMAIN vehicles :
       k \in DOMAIN vehicles' /\ vehicles'[k] = vehicles[k]]_vars

\* The driver gets to the end of its report, unless the process crashes.
ReportIsWritten == <>(main = "written" \/ alive = FALSE)

-----------------------------------------------------------------------------
(* For the vehicles that are kept, the cache implements VehicleStore.      *)

\* Where in thread t's feed the records under the first key of v are.
PlacesOf(t, v) == {i \in DOMAIN Feed[t] : Key1[Feed[t][i]] = Key1[v]}
UpTo(t, v, i) == {j \in PlacesOf(t, v) : j <= i}

\* Those records, all pushed by one thread, in the order of its feed.
FileOf(v) ==
  LET Pusher == CHOOSE t \in Threads :
                  (\E u \in Threads : PlacesOf(u, v) # {}) => PlacesOf(t, v) # {}
      Nth(n) == CHOOSE i \in PlacesOf(Pusher, v) : Cardinality(UpTo(Pusher, v, i)) = n
  IN  [n \in 1 .. Cardinality(PlacesOf(Pusher, v)) |-> <<Pusher, Nth(n)>>]

\* What get_vehicle would show of a vehicle.
History(v) == IF GetVehicle(v) = None THEN <<>> ELSE heap[GetVehicle(v)].samples

Store == INSTANCE VehicleStore WITH
           Ids <- Kept,
           File <- [v \in Kept |-> FileOf(v)],
           store <- [v \in Kept |-> History(v)]

\* The history of every vehicle that is kept is, at every moment, the part of its
\* file pushed so far, in order.
CacheIsAStore == Store!Spec
=============================================================================
