----------------------------- MODULE CacheProofs -----------------------------
(***************************************************************************)
(* Cache::push_back for any number of threads, any feeds and any keys: its *)
(* lock keeps the outer map safe, its entries never change, and no record  *)
(* is lost of a vehicle that is kept as cache_test keeps all of its.  The  *)
(* report does not wrap, and the kept vehicles are the abstract store.     *)
(* Then what generate_index makes of plates, and what that means for the   *)
(* cache.  Last, the way of a record from its row in a file to a cache:    *)
(* plain rows come back from their lines, a message keeps its record, and  *)
(* under a vehicle's keys are the records of its rows, in their order.     *)
(***************************************************************************)
EXTENDS Cache, VehicleData, FiniteSetTheorems, WellFoundedInduction, TLAPS

USE DEF Counted, MayRead, Found, Entry, LetGo, AtEnd

Busy(t) == pc[t] # "idle"

\* What is true of every thread between any two steps.
Types ==
  /\ pc \in [Threads -> Steps]
  /\ begun \in [Threads -> Nat]
  /\ target \in [Threads -> Nat \cup {None}]
  /\ heap \in Seq(Object)
  /\ \A t \in Threads : begun[t] <= Len(Feed[t]) /\ (Busy(t) => begun[t] > 0)

\* Who holds lmap1 is told by where the threads are.
LockOwners ==
  /\ readers = {t \in Threads : pc[t] = "find"}
  /\ writer \in Threads \cup {None}
  /\ \A t \in Threads : pc[t] = "insert" <=> writer = t
  /\ writer # None => readers = {}

\* Every entry of the map, and every target a thread is about to use, is an
\* object made for the two keys it is found under.
RightObjects ==
  /\ \A k \in DOMAIN vehicles : \A q \in DOMAIN vehicles[k] :
       LET o == vehicles[k][q]
       IN  o \in 1 .. Len(heap) /\ Key1[heap[o].id] = k /\ Key2[heap[o].id] = q
  /\ \A t \in Threads : pc[t] \in {"insert", "append"} =>
       LET o == target[t]
       IN  /\ o \in 1 .. Len(heap)
           /\ Key1[heap[o].id] = Key1[CurrentId(t)]
           /\ Key2[heap[o].id] = Key2[CurrentId(t)]
  /\ \A t \in Threads : pc[t] = "inner" => Key1[CurrentId(t)] \in DOMAIN vehicles

\* What is stored was pushed, and finished.
StoredWasPushed ==
  \A o \in 1 .. Len(heap) : \A j \in 1 .. Len(heap[o].samples) :
    LET s == heap[o].samples[j]
    IN  s \in Threads \X (Nat \ {0}) /\ s[2] <= begun[s[1]]
        /\ (s[2] = begun[s[1]] => ~Busy(s[1]))

IInv == Types /\ LockOwners /\ RightObjects /\ StoredWasPushed /\ OnlyOwnRecords

-----------------------------------------------------------------------------
\* A thread in the middle of push_back has a record of its feed in hand.
LEMMA CurrentIsARecord ==
  ASSUME Types, NEW t \in Threads, Busy(t)
  PROVE  /\ begun[t] \in 1 .. Len(Feed[t])
         /\ CurrentId(t) \in Ids
         /\ Current(t) \in Samples
         /\ Key1[CurrentId(t)] \in Nat /\ Key2[CurrentId(t)] \in Nat
<1>1. begun[t] \in 1 .. Len(Feed[t]) /\ Feed[t] \in Seq(Ids)
  BY CacheAssumption DEF Types
<1>2. Feed[t][begun[t]] \in Ids
  BY <1>1
<1>3. CurrentId(t) = Feed[t][begun[t]]
  BY DEF CurrentId, Current, IdOf
<1> QED BY <1>1, <1>2, <1>3, CacheAssumption DEF Current, Samples

\* The steps of push_back keep the types.
LEMMA TypesStep ==
  ASSUME IInv, NEW t \in Threads, PushBack(t)
  PROVE  Types'
<1> USE DEF IInv, Types, Goto, Busy, Steps
<1>1. CASE Count(t)
  <2>1. \A u \in Threads : Len(Feed[u]) \in Nat
    BY CacheAssumption
  <2>2. begun[t] \in Nat /\ begun[t] < Len(Feed[t]) /\ begun' = [begun EXCEPT ![t] = begun[t] + 1]
    BY <1>1 DEF Count
  <2>3. \A u \in Threads : begun'[u] \in Nat /\ begun'[u] <= Len(Feed[u])
                           /\ (u = t => begun'[u] > 0)
    BY <2>1, <2>2
  <2> QED BY <1>1, <2>2, <2>3 DEF Count
<1>2. CASE RLock(t)
  BY <1>2 DEF RLock
<1>3. CASE Find(t)
  BY <1>3 DEF Find
<1>4. CASE Make(t)
  <2>1. CurrentId(t) \in Ids
    BY <1>4, CurrentIsARecord DEF Make
  <2>2. [id |-> CurrentId(t), samples |-> <<>>] \in Object
    BY <2>1 DEF Object
  <2>3. heap' \in Seq(Object) /\ Len(heap) + 1 \in Nat
    BY <1>4, <2>2 DEF Make
  <2> QED BY <1>4, <2>3 DEF Make
<1>5. CASE Insert(t)
  BY <1>5 DEF Insert
<1>6. CASE FindInner(t)
  <2>1. vehicles[Key1[CurrentId(t)]][Key2[CurrentId(t)]] \in Nat
    BY <1>6 DEF FindInner, RightObjects
  <2> QED BY <1>6, <2>1 DEF FindInner
<1>7. CASE FindInnerMissing(t)
  BY <1>7 DEF FindInnerMissing
<1>8. CASE Unreached(t)
  BY <1>8 DEF Unreached
<1>9. CASE AppendSample(t)
  <2>1. target[t] \in 1 .. Len(heap) /\ heap[target[t]] \in Object
    BY <1>9 DEF AppendSample, RightObjects
  <2>2. Append(heap[target[t]].samples, Current(t)) \in Seq(Samples)
    BY <1>9, <2>1, CurrentIsARecord DEF AppendSample, Object
  <2>3. [heap[target[t]] EXCEPT !.samples = Append(@, Current(t))] \in Object
    BY <2>1, <2>2 DEF Object
  <2>4. heap' \in Seq(Object)
    BY <1>9, <2>1, <2>3 DEF AppendSample
  <2> QED BY <1>9, <2>4 DEF AppendSample
<1> QED BY <1>1, <1>2, <1>3, <1>4, <1>5, <1>6, <1>7, <1>8, <1>9 DEF PushBack

\* The lock calls keep lmap1 in step with where the threads are.
LEMMA LockStep ==
  ASSUME IInv, NEW t \in Threads, PushBack(t)
  PROVE  LockOwners'
<1> USE CacheAssumption DEF IInv, Types, LockOwners, Goto
<1>1. CASE Count(t)
  BY <1>1 DEF Count, lmap1
<1>2. CASE RLock(t)
  BY <1>2 DEF RLock
<1>3. CASE Find(t)
  BY <1>3 DEF Find
<1>4. CASE Make(t)
  BY <1>4 DEF Make
<1>5. CASE Insert(t)
  BY <1>5 DEF Insert
<1>6. CASE FindInner(t)
  BY <1>6 DEF FindInner, lmap1
<1>7. CASE FindInnerMissing(t)
  BY <1>7 DEF FindInnerMissing, lmap1
<1>8. CASE Unreached(t)
  BY <1>8 DEF Unreached, lmap1
<1>9. CASE AppendSample(t)
  BY <1>9 DEF AppendSample, lmap1
<1> QED BY <1>1, <1>2, <1>3, <1>4, <1>5, <1>6, <1>7, <1>8, <1>9 DEF PushBack

\* What push_back does to the heap: it stays, but for one object made or one
\* record appended.
LEMMA HeapStep ==
  ASSUME IInv, NEW t \in Threads, PushBack(t)
  PROVE  /\ Len(heap) \in Nat /\ Len(heap') \in Nat /\ Len(heap) <= Len(heap')
         /\ \A o \in 1 .. Len(heap) : heap'[o].id = heap[o].id
         /\ \/ heap' = heap
            \/ /\ Make(t) /\ Len(heap') = Len(heap) + 1
               /\ heap'[Len(heap')] = [id |-> CurrentId(t), samples |-> <<>>]
               /\ \A o \in 1 .. Len(heap) : heap'[o] = heap[o]
            \/ /\ AppendSample(t) /\ Len(heap') = Len(heap)
               /\ target[t] \in 1 .. Len(heap)
               /\ heap[target[t]].samples \in Seq(Samples)
               /\ heap'[target[t]].samples = Append(heap[target[t]].samples, Current(t))
               /\ \A o \in 1 .. Len(heap) : o # target[t] => heap'[o] = heap[o]
<1>1. heap \in Seq(Object)
  BY DEF IInv, Types
<1>2. CASE Make(t)
  BY <1>1, <1>2 DEF Make
<1>3. CASE AppendSample(t)
  <2>1. target[t] \in 1 .. Len(heap) /\ heap[target[t]] \in Object
    BY <1>1, <1>3 DEF AppendSample, IInv, RightObjects
  <2> DEFINE old == heap[target[t]]
             new == [old EXCEPT !.samples = Append(old.samples, Current(t))]
  <2>2. heap' = [heap EXCEPT ![target[t]] = new]
    BY <1>3, <2>1 DEF AppendSample
  <2>6. /\ new.id = old.id
        /\ new.samples = Append(old.samples, Current(t))
        /\ old.samples \in Seq(Samples)
    BY <2>1 DEF Object
  <2> HIDE DEF new
  <2>3. Len(heap') = Len(heap) /\ \A o \in 1 .. Len(heap) : o # target[t] => heap'[o] = heap[o]
    BY <1>1, <2>1, <2>2
  <2>4. heap'[target[t]] = new
    BY <1>1, <2>1, <2>2
  <2>5. Len(heap) \in Nat /\ Len(heap') \in Nat /\ Len(heap) <= Len(heap')
    BY <1>1, <2>3
  <2>7. ASSUME NEW o \in 1 .. Len(heap) PROVE heap'[o].id = heap[o].id
    <3>1. CASE o = target[t]
      BY <2>4, <2>6, <3>1
    <3>2. CASE o # target[t]
      BY <2>3, <3>2
    <3> QED BY <3>1, <3>2
  <2>8. heap'[target[t]].samples = Append(heap[target[t]].samples, Current(t))
    BY <2>4, <2>6
  <2> QED BY <1>3, <2>1, <2>3, <2>5, <2>6, <2>7, <2>8
<1>4. CASE ~Make(t) /\ ~AppendSample(t)
  <2>1. heap' = heap
    BY <1>4 DEF PushBack, Count, RLock, Find, Insert, FindInner, FindInnerMissing, Unreached
  <2> QED BY <1>1, <2>1
<1> QED BY <1>2, <1>3, <1>4

\* Entries, once made, stay; only Insert adds one, and only under a new key.
LEMMA EntriesStep ==
  ASSUME NEW t \in Threads, PushBack(t)
  PROVE  /\ \A k \in DOMAIN vehicles : k \in DOMAIN vehicles' /\ vehicles'[k] = vehicles[k]
         /\ \/ vehicles' = vehicles
            \/ /\ Insert(t)
               /\ DOMAIN vehicles' = DOMAIN vehicles \cup {Key1[CurrentId(t)]}
               /\ Key1[CurrentId(t)] \notin DOMAIN vehicles =>
                    vehicles'[Key1[CurrentId(t)]] = [q \in {Key2[CurrentId(t)]} |-> target[t]]
<1>1. CASE Insert(t)
  BY <1>1 DEF Insert
<1>2. CASE ~Insert(t)
  BY <1>2 DEF PushBack, Count, RLock, Find, Make, FindInner, FindInnerMissing,
              Unreached, AppendSample
<1> QED BY <1>1, <1>2

\* Where another thread is does not change, nor what it works on.
LEMMA OthersStay ==
  ASSUME IInv, NEW t \in Threads, PushBack(t), NEW u \in Threads, u # t
  PROVE  /\ pc'[u] = pc[u] /\ begun'[u] = begun[u] /\ target'[u] = target[u]
         /\ CurrentId(u)' = CurrentId(u)
BY DEF IInv, Types, PushBack, Count, RLock, Find, Make, Insert, FindInner, FindInnerMissing,
       Unreached, AppendSample, Goto, callers, CurrentId, Current, IdOf

\* Only Count moves a thread to another record.
LEMMA RecordStays ==
  ASSUME IInv, NEW t \in Threads, PushBack(t), ~Count(t)
  PROVE  begun' = begun /\ CurrentId(t)' = CurrentId(t)
BY DEF PushBack, RLock, Find, Make, Insert, FindInner, FindInnerMissing,
       Unreached, AppendSample, callers, CurrentId, Current, IdOf

\* Every entry and every target stays one of the right keys.
LEMMA RightObjectsStep ==
  ASSUME IInv, NEW t \in Threads, PushBack(t)
  PROVE  RightObjects'
<1>1. /\ Len(heap) \in Nat /\ Len(heap') \in Nat
      /\ \A o \in 1 .. Len(heap) : heap'[o].id = heap[o].id /\ o \in 1 .. Len(heap')
  <2>1. /\ Len(heap) \in Nat /\ Len(heap') \in Nat /\ Len(heap) <= Len(heap')
        /\ \A o \in 1 .. Len(heap) : heap'[o].id = heap[o].id
    BY HeapStep
  <2>2. \A o \in 1 .. Len(heap) : o \in 1 .. Len(heap')
    BY <2>1
  <2> QED BY <2>1, <2>2
<1>2. ASSUME NEW k \in DOMAIN vehicles', NEW q \in DOMAIN vehicles'[k]
      PROVE  LET o == vehicles'[k][q]
             IN  o \in 1 .. Len(heap') /\ Key1[heap'[o].id] = k /\ Key2[heap'[o].id] = q
  <2>1. CASE k \in DOMAIN vehicles
    <3>1. vehicles'[k] = vehicles[k]
      BY <2>1, EntriesStep
    <3>2. LET o == vehicles[k][q]
          IN  o \in 1 .. Len(heap) /\ Key1[heap[o].id] = k /\ Key2[heap[o].id] = q
      BY <1>2, <2>1, <3>1 DEF IInv, RightObjects
    <3> QED BY <1>1, <3>1, <3>2
  <2>2. CASE k \notin DOMAIN vehicles
    <3>1. /\ Insert(t) /\ k = Key1[CurrentId(t)]
          /\ vehicles'[k] = [r \in {Key2[CurrentId(t)]} |-> target[t]]
      BY <1>2, <2>2, EntriesStep
    <3>2. q = Key2[CurrentId(t)] /\ vehicles'[k][q] = target[t]
      BY <1>2, <3>1
    <3>3. /\ target[t] \in 1 .. Len(heap) /\ Key1[heap[target[t]].id] = Key1[CurrentId(t)]
          /\ Key2[heap[target[t]].id] = Key2[CurrentId(t)]
      BY <3>1 DEF Insert, IInv, RightObjects
    <3> QED BY <1>1, <3>1, <3>2, <3>3
  <2> QED BY <2>1, <2>2
<1>3. ASSUME NEW u \in Threads, u # t
      PROVE  /\ pc'[u] \in {"insert", "append"} =>
                  LET o == target'[u]
                  IN  /\ o \in 1 .. Len(heap')
                      /\ Key1[heap'[o].id] = Key1[CurrentId(u)']
                      /\ Key2[heap'[o].id] = Key2[CurrentId(u)']
             /\ pc'[u] = "inner" => Key1[CurrentId(u)'] \in DOMAIN vehicles'
  <2>1. /\ pc'[u] = pc[u] /\ target'[u] = target[u]
        /\ CurrentId(u)' = CurrentId(u)
    BY <1>3, OthersStay
  <2>2. \A k \in DOMAIN vehicles : k \in DOMAIN vehicles'
    BY EntriesStep
  <2>3. pc[u] \in {"insert", "append"} =>
          LET o == target[u]
          IN  /\ o \in 1 .. Len(heap)
              /\ Key1[heap[o].id] = Key1[CurrentId(u)]
              /\ Key2[heap[o].id] = Key2[CurrentId(u)]
    BY DEF IInv, RightObjects
  <2>4. pc[u] = "inner" => Key1[CurrentId(u)] \in DOMAIN vehicles
    BY DEF IInv, RightObjects
  <2> QED BY <1>1, <2>1, <2>2, <2>3, <2>4
<1>4. /\ pc'[t] \in {"insert", "append"} =>
           LET o == target'[t]
           IN  /\ o \in 1 .. Len(heap')
               /\ Key1[heap'[o].id] = Key1[CurrentId(t)']
               /\ Key2[heap'[o].id] = Key2[CurrentId(t)']
      /\ pc'[t] = "inner" => Key1[CurrentId(t)'] \in DOMAIN vehicles'
  <2> USE DEF Goto
  <2>1. CASE Count(t) \/ RLock(t) \/ FindInnerMissing(t) \/ Unreached(t) \/ AppendSample(t)
    <3>1. pc'[t] \notin {"insert", "append", "inner"} \/ pc' = pc
      BY <2>1 DEF Count, RLock, FindInnerMissing, Unreached, AppendSample, IInv, Types
    <3>2. pc' = pc => FindInnerMissing(t) /\ pc[t] = "inner"
      BY <2>1 DEF Count, RLock, FindInnerMissing, Unreached, AppendSample, IInv, Types
    <3>3. FindInnerMissing(t) => begun' = begun /\ vehicles' = vehicles
      BY DEF FindInnerMissing
    <3>4. FindInnerMissing(t) => CurrentId(t)' = CurrentId(t)
      BY <3>3 DEF CurrentId, Current, IdOf
    <3> QED BY <3>1, <3>2, <3>3, <3>4 DEF IInv, RightObjects
  <2>2. CASE Find(t)
    <3>1. pc'[t] \in {"inner", "make"}
          /\ (pc'[t] = "inner" => Key1[CurrentId(t)] \in DOMAIN vehicles)
      BY <2>2 DEF Find, IInv, Types
    <3>2. vehicles' = vehicles /\ begun' = begun
      BY <2>2 DEF Find
    <3>3. CurrentId(t)' = CurrentId(t)
      BY <3>2 DEF CurrentId, Current, IdOf
    <3> QED BY <3>1, <3>2, <3>3
  <2>3. CASE Make(t)
    <3>1. /\ pc'[t] = "insert" /\ target'[t] = Len(heap) + 1 /\ begun' = begun
          /\ heap' = Append(heap, [id |-> CurrentId(t), samples |-> <<>>])
      BY <2>3 DEF Make, IInv, Types
    <3>2. Len(heap') = Len(heap) + 1 /\ heap'[Len(heap) + 1].id = CurrentId(t)
      BY <3>1 DEF IInv, Types
    <3>3. CurrentId(t)' = CurrentId(t)
      BY <3>1 DEF CurrentId, Current, IdOf
    <3> QED BY <1>1, <3>1, <3>2, <3>3
  <2>4. CASE Insert(t)
    <3>1. pc[t] = "insert" /\ pc'[t] = "append" /\ target' = target /\ begun' = begun
      BY <2>4 DEF Insert, IInv, Types
    <3>2. CurrentId(t)' = CurrentId(t)
      BY <3>1 DEF CurrentId, Current, IdOf
    <3> QED BY <1>1, <3>1, <3>2 DEF IInv, RightObjects
  <2>5. CASE FindInner(t)
    <3> DEFINE k == Key1[CurrentId(t)]
               q == Key2[CurrentId(t)]
    <3>1. /\ pc[t] = "inner" /\ pc'[t] = "append" /\ begun' = begun
          /\ target'[t] = vehicles[k][q] /\ q \in DOMAIN vehicles[k]
      BY <2>5 DEF FindInner, IInv, Types
    <3>2. k \in DOMAIN vehicles
      BY <3>1 DEF IInv, RightObjects
    <3>3. /\ target'[t] \in 1 .. Len(heap)
          /\ Key1[heap[target'[t]].id] = k /\ Key2[heap[target'[t]].id] = q
      BY <3>1, <3>2 DEF IInv, RightObjects
    <3>4. CurrentId(t)' = CurrentId(t)
      BY <3>1 DEF CurrentId, Current, IdOf
    <3> QED BY <1>1, <3>1, <3>3, <3>4
  <2> QED BY <2>1, <2>2, <2>3, <2>4, <2>5 DEF PushBack
<1> QED
  <2>1. \A u \in Threads : pc'[u] \in {"insert", "append"} =>
          LET o == target'[u]
          IN  /\ o \in 1 .. Len(heap')
              /\ Key1[heap'[o].id] = Key1[CurrentId(u)']
              /\ Key2[heap'[o].id] = Key2[CurrentId(u)']
    BY <1>3, <1>4
  <2>2. \A u \in Threads : pc'[u] = "inner" => Key1[CurrentId(u)'] \in DOMAIN vehicles'
    BY <1>3, <1>4
  <2> QED BY <1>2, <2>1, <2>2 DEF RightObjects

\* A step of push_back other than Count is taken by a busy thread.
LEMMA BusyStep ==
  ASSUME NEW t \in Threads, PushBack(t), ~Count(t)
  PROVE  Busy(t)
BY DEF PushBack, RLock, Find, Make, Insert, FindInner, FindInnerMissing,
       Unreached, AppendSample, Busy

\* A record that was pushed and finished stays so.
LEMMA FinishedStays ==
  ASSUME IInv, NEW t \in Threads, PushBack(t), NEW s \in Threads \X (Nat \ {0}),
         s[2] <= begun[s[1]], s[2] = begun[s[1]] => ~Busy(s[1])
  PROVE  /\ s[2] <= begun'[s[1]]
         /\ s[2] = begun'[s[1]] => pc'[s[1]] = "idle"
<1>1. begun[s[1]] \in Nat /\ s[1] \in Threads /\ s[2] \in Nat
  BY DEF IInv, Types
<1>2. CASE s[1] # t
  BY <1>1, <1>2, OthersStay DEF Busy
<1>3. CASE s[1] = t /\ Count(t)
  <2>1. begun'[t] = begun[t] + 1
    BY <1>3 DEF Count, IInv, Types
  <2> QED BY <1>1, <1>3, <2>1
<1>4. CASE s[1] = t /\ ~Count(t)
  BY <1>1, <1>4, BusyStep, RecordStays
<1> QED BY <1>2, <1>3, <1>4

\* Only records that were pushed are stored, and only when push_back is done.
LEMMA StoredWasPushedStep ==
  ASSUME IInv, NEW t \in Threads, PushBack(t)
  PROVE  StoredWasPushed'
<1>1. ASSUME NEW o \in 1 .. Len(heap), NEW j \in 1 .. Len(heap[o].samples)
      PROVE  LET s == heap[o].samples[j]
             IN  s \in Threads \X (Nat \ {0}) /\ s[2] <= begun'[s[1]]
                 /\ (s[2] = begun'[s[1]] => pc'[s[1]] = "idle")
  <2> DEFINE s == heap[o].samples[j]
  <2>1. s \in Threads \X (Nat \ {0}) /\ s[2] <= begun[s[1]]
        /\ (s[2] = begun[s[1]] => ~Busy(s[1]))
    BY DEF IInv, StoredWasPushed
  <2> HIDE DEF s
  <2>2. s[2] <= begun'[s[1]] /\ (s[2] = begun'[s[1]] => pc'[s[1]] = "idle")
    BY <2>1, FinishedStays
  <2> QED BY <2>1, <2>2 DEF s
<1>2. CASE heap' = heap
  BY <1>1, <1>2 DEF StoredWasPushed, Busy
<1>3. CASE Make(t)
  <2>1. /\ Len(heap) \in Nat /\ Len(heap') = Len(heap) + 1
        /\ heap'[Len(heap')].samples = <<>>
        /\ \A o \in 1 .. Len(heap) : heap'[o] = heap[o]
    BY <1>3 DEF Make, IInv, Types
  <2>2. ASSUME NEW o \in 1 .. Len(heap'), NEW j \in 1 .. Len(heap'[o].samples)
        PROVE  o \in 1 .. Len(heap) /\ heap'[o] = heap[o]
    BY <2>1, <2>2
  <2> QED BY <1>1, <2>2 DEF StoredWasPushed, Busy
<1>4. CASE AppendSample(t)
  <2> DEFINE a == target[t]
  <2>1. Len(heap') = Len(heap) /\ a \in 1 .. Len(heap)
        /\ heap[a].samples \in Seq(Samples)
        /\ heap'[a].samples = Append(heap[a].samples, Current(t))
        /\ \A o \in 1 .. Len(heap) : o # a => heap'[o] = heap[o]
    <3>1. ~Make(t) /\ heap' # heap
      <4>1. ~Make(t)
        BY <1>4 DEF AppendSample, Make
      <4>2. a \in 1 .. Len(heap) /\ heap \in Seq(Object) /\ heap[a] \in Object
        BY <1>4 DEF AppendSample, IInv, RightObjects, Types
      <4>3. heap'[a].samples = Append(heap[a].samples, Current(t))
        BY <1>4, <4>2 DEF AppendSample, Object
      <4>4. heap[a].samples \in Seq(Samples)
        BY <4>2 DEF Object
      <4>5. Append(heap[a].samples, Current(t)) # heap[a].samples
        BY <4>4
      <4> QED BY <4>1, <4>3, <4>5
    <3> QED BY <3>1, HeapStep
  <2>2. /\ Current(t) \in Threads \X (Nat \ {0})
        /\ Current(t)[1] = t /\ Current(t)[2] = begun[t]
        /\ begun' = begun /\ pc'[t] = "idle"
    <3>1. Busy(t) /\ pc'[t] = "idle" /\ begun' = begun
      BY <1>4 DEF AppendSample, Busy, Goto, callers, IInv, Types
    <3>2. Current(t) \in Samples
      BY <3>1, CurrentIsARecord DEF IInv
    <3> QED BY <3>1, <3>2 DEF Current, Samples, Busy
  <2>3. begun[t] \in Nat
    BY DEF IInv, Types
  <2> HIDE DEF a
  <2>4. ASSUME NEW o \in 1 .. Len(heap'), NEW j \in 1 .. Len(heap'[o].samples)
        PROVE  LET s == heap'[o].samples[j]
               IN  s \in Threads \X (Nat \ {0}) /\ s[2] <= begun'[s[1]]
                   /\ (s[2] = begun'[s[1]] => pc'[s[1]] = "idle")
    <3>1. CASE o # a
      <4>1. o \in 1 .. Len(heap) /\ heap'[o] = heap[o]
        BY <2>1, <2>4, <3>1
      <4> QED BY <1>1, <2>4, <4>1
    <3>2. CASE o = a /\ j \in 1 .. Len(heap[a].samples)
      <4>1. heap'[o].samples[j] = heap[o].samples[j]
        BY <2>1, <3>2
      <4> QED BY <1>1, <2>1, <3>2, <4>1
    <3>3. CASE o = a /\ j = Len(heap[a].samples) + 1
      <4>1. heap'[o].samples[j] = Current(t)
        BY <2>1, <3>3
      <4> QED BY <2>2, <2>3, <4>1
    <3>4. Len(heap[a].samples) \in Nat /\ (o = a => j \in 1 .. Len(heap[a].samples) + 1)
      BY <2>1, <2>4
    <3> QED BY <3>1, <3>2, <3>3, <3>4
  <2> QED BY <2>4 DEF StoredWasPushed, Busy
<1> QED BY <1>2, <1>3, <1>4, HeapStep

\* An object only takes records of its own keys, each thread's in order.
LEMMA OnlyOwnRecordsStep ==
  ASSUME IInv, NEW t \in Threads, PushBack(t)
  PROVE  OnlyOwnRecords'
<1> DEFINE Own(obj) ==
      LET s == obj.samples
      IN  /\ \A j \in DOMAIN s : /\ Key1[IdOf(s[j])] = Key1[obj.id]
                                 /\ Key2[IdOf(s[j])] = Key2[obj.id]
          /\ \A i, j \in DOMAIN s : i < j /\ s[i][1] = s[j][1] => s[i][2] < s[j][2]
<1>1. heap \in Seq(Object) /\ Len(heap) \in Nat /\ \A o \in 1 .. Len(heap) : Own(heap[o])
  BY DEF IInv, Types, OnlyOwnRecords
<1>2. heap' \in Seq(Object)
  BY TypesStep DEF Types
<1>3. SUFFICES ASSUME NEW o \in 1 .. Len(heap') PROVE Own(heap'[o])
  <2>1. DOMAIN heap' = 1 .. Len(heap')
    BY <1>2
  <2>2. \A o \in DOMAIN heap' : Own(heap'[o])
    BY <2>1, <1>3
  <2> QED BY <2>2 DEF OnlyOwnRecords
<1>4. CASE heap' = heap
  BY <1>1, <1>4
<1>5. CASE Make(t)
  <2>1. /\ Len(heap') = Len(heap) + 1
        /\ heap'[Len(heap')].samples = <<>>
        /\ \A p \in 1 .. Len(heap) : heap'[p] = heap[p]
    BY <1>1, <1>5 DEF Make
  <2>2. CASE o \in 1 .. Len(heap)
    BY <1>1, <2>1, <2>2
  <2>3. CASE o = Len(heap')
    BY <2>1, <2>3
  <2> QED BY <1>1, <2>1, <2>2, <2>3
<1>6. CASE ~Make(t) /\ heap' # heap
  <2> DEFINE a == target[t]
             old == heap[a].samples
             k == Len(old) + 1
             new == heap'[a].samples
  <2>1. /\ AppendSample(t) /\ Len(heap') = Len(heap) /\ a \in 1 .. Len(heap)
        /\ old \in Seq(Samples)
        /\ new = Append(old, Current(t))
        /\ heap'[a].id = heap[a].id
        /\ \A p \in 1 .. Len(heap) : p # a => heap'[p] = heap[p]
    BY <1>6, HeapStep
  <2>2. CASE o # a
    BY <1>1, <2>1, <2>2
  <2>3. CASE o = a
    <3>1. /\ Key1[IdOf(Current(t))] = Key1[heap[a].id]
          /\ Key2[IdOf(Current(t))] = Key2[heap[a].id]
      BY <2>1 DEF AppendSample, IInv, RightObjects, CurrentId
    <3>2. Own(heap[a])
      BY <1>1, <2>1
    <3>3. ASSUME NEW i \in 1 .. Len(old), old[i][1] = t
          PROVE  old[i][2] < begun[t]
      <4>1. /\ old[i] \in Threads \X (Nat \ {0}) /\ old[i][2] <= begun[t]
            /\ (old[i][2] = begun[t] => ~Busy(t))
        BY <2>1, <3>3 DEF IInv, StoredWasPushed
      <4>2. Busy(t) /\ begun[t] \in Nat
        BY <2>1 DEF AppendSample, Busy, IInv, Types
      <4> QED BY <4>1, <4>2
    <3>4. Current(t)[1] = t /\ Current(t)[2] = begun[t]
      BY DEF Current
    <3> HIDE DEF old, new
    <3>5. /\ DOMAIN new = 1 .. k /\ DOMAIN old = 1 .. Len(old) /\ Len(old) \in Nat
          /\ \A i \in 1 .. Len(old) : new[i] = old[i]
          /\ new[k] = Current(t)
      BY <2>1
    <3>6. ASSUME NEW j \in DOMAIN new
          PROVE  Key1[IdOf(new[j])] = Key1[heap[a].id] /\ Key2[IdOf(new[j])] = Key2[heap[a].id]
      <4>1. CASE j = k
        BY <3>1, <3>5, <4>1
      <4>2. CASE j \in 1 .. Len(old)
        BY <3>2, <3>5, <4>2 DEF old
      <4> QED BY <3>5, <3>6, <4>1, <4>2
    <3>7. ASSUME NEW i \in DOMAIN new, NEW j \in DOMAIN new, i < j, new[i][1] = new[j][1]
          PROVE  new[i][2] < new[j][2]
      <4>1. i \in 1 .. Len(old) /\ new[i] = old[i]
        BY <3>5, <3>7
      <4>2. CASE j = k
        BY <3>3, <3>4, <3>5, <3>7, <4>1, <4>2
      <4>3. CASE j \in 1 .. Len(old)
        BY <3>2, <3>5, <3>7, <4>1, <4>3 DEF old
      <4> QED BY <3>5, <3>7, <4>2, <4>3
    <3> QED BY <2>1, <2>3, <3>6, <3>7 DEF new
  <2> QED BY <2>2, <2>3
<1> QED BY <1>4, <1>5, <1>6

\* The report changes nothing the invariant speaks of.
LEMMA ReportStep ==
  ASSUME Report \/ UNCHANGED vars
  PROVE  UNCHANGED <<pc, begun, target, vehicles, heap, readers, writer, processed>>
BY DEF Report, CountCompressed, Statistic, WriteToFile, callers, lmap1, vars

\* The invariant holds of every behaviour.
LEMMA Invariance == Spec => []IInv
<1>1. Init => IInv
  BY CacheAssumption DEF Init, IInv, Types, LockOwners, RightObjects, StoredWasPushed, OnlyOwnRecords,
                         Steps, Busy
<1>2. IInv /\ [Next]_vars => IInv'
  <2> SUFFICES ASSUME IInv, [Next]_vars PROVE IInv'
    OBVIOUS
  <2>1. ASSUME NEW t \in Threads, PushBack(t) PROVE IInv'
    BY <2>1, TypesStep, LockStep, RightObjectsStep, StoredWasPushedStep, OnlyOwnRecordsStep
       DEF IInv
  <2>2. CASE Report \/ UNCHANGED vars
    <3>1. UNCHANGED <<pc, begun, target, vehicles, heap, readers, writer>>
      BY <2>2, ReportStep
    <3> QED BY <3>1 DEF IInv, Types, LockOwners, RightObjects, StoredWasPushed, OnlyOwnRecords,
                        Busy, CurrentId, Current, IdOf
  <2> QED BY <2>1, <2>2 DEF Next
<1> QED BY <1>1, <1>2, PTL DEF Spec

\* lmap1 keeps a thread that searches the outer map, or inserts into it, from
\* meeting one that inserts.
THEOREM MapIsNeverRaced == Spec => []MapAccessExclusive
<1>1. IInv => MapAccessExclusive
  BY CacheAssumption DEF IInv, LockOwners, MapAccessExclusive
<1> QED BY <1>1, Invariance, PTL

\* No vehicle is ever given a record of other keys, or a thread's records out
\* of their order, whatever threads and keys there are.
THEOREM VehiclesKeepToTheirKeys == Spec => []OnlyOwnRecords
<1>1. IInv => OnlyOwnRecords
  BY DEF IInv
<1> QED BY <1>1, Invariance, PTL

\* An entry of the map, once there, is never replaced or erased.
THEOREM EntriesAreStable == Spec => EntriesNeverChange
<1>1. [Next]_vars => [\A k \in DOMAIN vehicles :
                        k \in DOMAIN vehicles' /\ vehicles'[k] = vehicles[k]]_vars
  BY EntriesStep, ReportStep DEF Next
<1> QED BY <1>1, PTL DEF Spec, EntriesNeverChange

\* The map only refers to objects that were made, of which there are finitely
\* many, so that count() has a number to arrive at.
LEMMA ReachableIsFinite ==
  ASSUME IInv
  PROVE  Reachable \subseteq DOMAIN heap /\ Cardinality(Reachable) \in Nat
<1>1. Reachable \subseteq 1 .. Len(heap)
  BY DEF IInv, RightObjects, Reachable
<1>2. IsFiniteSet(1 .. Len(heap)) /\ DOMAIN heap = 1 .. Len(heap)
  BY FS_Interval DEF IInv, Types
<1> QED BY <1>1, <1>2, FS_Subset, FS_CardinalityType

\* The cache's variables keep their types, whatever the threads push.
THEOREM TypeCorrect == Spec => []TypeOK
<1> DEFINE KeysOK == \A k \in DOMAIN vehicles : k \in Nat /\ DOMAIN vehicles[k] \subseteq Nat
           RestOK == /\ processed \in Nat /\ compressed \in Nat
                     /\ main \in {"joining", "counted", "reported", "written"}
                     /\ alive \in BOOLEAN
           TInv == IInv /\ KeysOK /\ RestOK
<1>1. TInv => TypeOK
  BY ReachableIsFinite DEF TypeOK, IInv, Types, LockOwners
<1>2. Init => IInv
  BY CacheAssumption DEF Init, IInv, Types, LockOwners, RightObjects, StoredWasPushed, OnlyOwnRecords,
                         Steps, Busy
<1>3. Init => KeysOK /\ RestOK
  BY DEF Init
<1>4. ASSUME TInv, NEW t \in Threads, PushBack(t)
      PROVE  TInv'
  <2>1. IInv'
    BY <1>4, TypesStep, LockStep, RightObjectsStep, StoredWasPushedStep, OnlyOwnRecordsStep
       DEF IInv
  <2>2. KeysOK'
    <3>1. ASSUME NEW k \in DOMAIN vehicles', k \notin DOMAIN vehicles
          PROVE  k \in Nat /\ DOMAIN vehicles'[k] \subseteq Nat
      <4>1. /\ Insert(t) /\ k = Key1[CurrentId(t)]
            /\ vehicles'[k] = [r \in {Key2[CurrentId(t)]} |-> target[t]]
        BY <1>4, <3>1, EntriesStep
      <4>2. Key1[CurrentId(t)] \in Nat /\ Key2[CurrentId(t)] \in Nat
        BY <1>4, <4>1, CurrentIsARecord DEF Insert, Busy, IInv
      <4> QED BY <4>1, <4>2
    <3> QED BY <1>4, <3>1, EntriesStep
  <2>3. RestOK'
    <3>1. processed' \in Nat
      BY <1>4 DEF PushBack, Count, RLock, Find, Make, Insert, FindInner, FindInnerMissing,
                  Unreached, AppendSample
    <3>2. UNCHANGED report
      BY <1>4 DEF PushBack, Count, RLock, Find, Make, Insert, FindInner, FindInnerMissing,
                  Unreached, AppendSample
    <3>3. UNCHANGED alive \/ alive' = FALSE
      BY <1>4 DEF PushBack, Count, RLock, Find, Make, Insert, FindInner, FindInnerMissing,
                  Unreached, AppendSample
    <3> QED BY <1>4, <3>1, <3>2, <3>3 DEF report
  <2> QED BY <2>1, <2>2, <2>3
<1>5. ASSUME TInv, Report \/ UNCHANGED vars
      PROVE  TInv'
  <2>1. UNCHANGED <<pc, begun, target, vehicles, heap, readers, writer, processed>>
    BY <1>5, ReportStep
  <2>2. IInv' /\ KeysOK'
    BY <1>5, <2>1 DEF IInv, Types, LockOwners, RightObjects, StoredWasPushed, OnlyOwnRecords,
                      Busy, CurrentId, Current, IdOf
  <2>3. CountCompressed => compressed' \in Nat
    BY <1>5, ReachableIsFinite DEF CountCompressed
  <2>4. RestOK'
    <3>1. CASE CountCompressed
      BY <1>5, <2>3, <3>1 DEF CountCompressed
    <3>2. CASE Statistic \/ WriteToFile \/ UNCHANGED vars
      BY <1>5, <2>1, <3>2 DEF Statistic, WriteToFile, vars
    <3> QED BY <1>5, <3>1, <3>2 DEF Report
  <2> QED BY <2>2, <2>4
<1>6. TInv /\ [Next]_vars => TInv'
  BY <1>4, <1>5 DEF Next
<1> HIDE DEF TInv
<1>7. Init => TInv
  BY <1>2, <1>3 DEF TInv
<1> QED BY <1>1, <1>6, <1>7, PTL DEF Spec

-----------------------------------------------------------------------------
(* Of a vehicle that is kept no record is lost.                            *)

\* Every object was made for a record of some thread.
MadeForARecord ==
  \A o \in 1 .. Len(heap) : \E t \in Threads : \E i \in DOMAIN Feed[t] : heap[o].id = Feed[t][i]

\* A thread that is about to insert a vehicle that is kept finds its key free, one
\* that is about to append finds its target in the map, and it never meets a
\* missing second key.
Undisturbed(t) ==
  LET v == CurrentId(t)
  IN  /\ pc[t] # "null"
      /\ pc[t] \in {"make", "insert"} => Key1[v] \notin DOMAIN vehicles
      /\ pc[t] = "append" => /\ Key1[v] \in DOMAIN vehicles
                             /\ Key2[v] \in DOMAIN vehicles[Key1[v]]
                             /\ vehicles[Key1[v]][Key2[v]] = target[t]

NobodyInTheWay ==
  /\ \A k \in DOMAIN vehicles : DOMAIN vehicles[k] # {}
  /\ \A t \in Threads : Busy(t) /\ CurrentId(t) \in Kept => Undisturbed(t)

DInv == IInv /\ MadeForARecord /\ NobodyInTheWay /\ NoSampleLost

\* A new object is made for the record at hand.
LEMMA MadeForARecordStep ==
  ASSUME IInv, MadeForARecord, NEW t \in Threads, PushBack(t)
  PROVE  MadeForARecord'
<1>1. ASSUME Make(t) PROVE MadeForARecord'
  <2>1. heap \in Seq(Object) /\ heap' = Append(heap, [id |-> CurrentId(t), samples |-> <<>>])
    BY <1>1 DEF Make, IInv, Types
  <2>2. begun[t] \in DOMAIN Feed[t] /\ CurrentId(t) = Feed[t][begun[t]]
    <3>1. begun[t] \in 1 .. Len(Feed[t]) /\ Feed[t] \in Seq(Ids)
      BY <1>1, CurrentIsARecord, CacheAssumption DEF Make, Busy, IInv
    <3> QED BY <3>1 DEF CurrentId, Current, IdOf
  <2>3. \A o \in 1 .. Len(heap') : heap'[o].id = CurrentId(t) \/ (o \in 1 .. Len(heap) /\ heap'[o] = heap[o])
    BY <2>1
  <2> QED BY <2>2, <2>3 DEF MadeForARecord
<1>2. ASSUME ~Make(t) PROVE MadeForARecord'
  <2>1. Len(heap') = Len(heap) /\ \A o \in 1 .. Len(heap) : heap'[o].id = heap[o].id
    <3>1. CASE AppendSample(t)
      BY <3>1 DEF AppendSample, IInv, Types, Object
    <3>2. CASE ~AppendSample(t)
      BY <1>2, <3>2 DEF PushBack, Count, RLock, Find, Insert, FindInner, FindInnerMissing, Unreached
    <3> QED BY <3>1, <3>2
  <2> QED BY <2>1 DEF MadeForARecord
<1> QED BY <1>1, <1>2

\* A thread at work on a vehicle that is kept is the only one at its first key.
LEMMA KeysApart ==
  ASSUME IInv, NEW t \in Threads, NEW u \in Threads, t # u, Busy(t), Busy(u),
         CurrentId(t) \in Kept
  PROVE  Key1[CurrentId(t)] # Key1[CurrentId(u)]
<1>1. begun[t] \in DOMAIN Feed[t] /\ begun[u] \in DOMAIN Feed[u]
  <2>1. Feed[t] \in Seq(Ids) /\ Feed[u] \in Seq(Ids)
    BY CacheAssumption
  <2>2. begun[t] \in 1 .. Len(Feed[t]) /\ begun[u] \in 1 .. Len(Feed[u])
    BY CurrentIsARecord DEF IInv
  <2> QED BY <2>1, <2>2
<1>2. CurrentId(t) = Feed[t][begun[t]] /\ CurrentId(u) = Feed[u][begun[u]]
  BY DEF CurrentId, Current, IdOf
<1> QED BY <1>1, <1>2 DEF Kept

\* If it finds that key, it finds the second key below it.
LEMMA SecondKeyFound ==
  ASSUME IInv, MadeForARecord, NobodyInTheWay, NEW t \in Threads, pc[t] = "inner",
         CurrentId(t) \in Kept
  PROVE  Key2[CurrentId(t)] \in DOMAIN vehicles[Key1[CurrentId(t)]]
<1> DEFINE v == CurrentId(t)
<1>1. Key1[v] \in DOMAIN vehicles
  BY DEF IInv, RightObjects
<1>2. PICK q \in DOMAIN vehicles[Key1[v]] : TRUE
  BY <1>1 DEF NobodyInTheWay
<1> DEFINE o == vehicles[Key1[v]][q]
<1>3. o \in 1 .. Len(heap) /\ Key1[heap[o].id] = Key1[v] /\ Key2[heap[o].id] = q
  BY <1>1, <1>2 DEF IInv, RightObjects
<1>4. PICK u \in Threads : \E i \in DOMAIN Feed[u] : heap[o].id = Feed[u][i]
  BY <1>3 DEF MadeForARecord
<1>5. Key2[heap[o].id] = Key2[v]
  BY <1>3, <1>4 DEF Kept
<1> QED BY <1>2, <1>3, <1>5

\* Nobody gets in the way of a thread at work on a vehicle that is kept.
LEMMA NobodyInTheWayStep ==
  ASSUME IInv, MadeForARecord, NobodyInTheWay, NEW t \in Threads, PushBack(t)
  PROVE  NobodyInTheWay'
<1> DEFINE v == CurrentId(t)
<1>0. Busy(t) => v \in Ids /\ Key1[v] \in Nat
  BY CurrentIsARecord DEF IInv
<1>1. /\ \A k \in DOMAIN vehicles : k \in DOMAIN vehicles' /\ vehicles'[k] = vehicles[k]
      /\ \A k \in DOMAIN vehicles' : k \notin DOMAIN vehicles =>
           /\ Insert(t) /\ k = Key1[v] /\ vehicles'[k] = [q \in {Key2[v]} |-> target[t]]
  BY EntriesStep
<1>2. Busy(t) /\ v \in Kept => ~FindInnerMissing(t) /\ ~Unreached(t)
  BY SecondKeyFound DEF FindInnerMissing, Unreached, NobodyInTheWay, Undisturbed
<1>4. \A k \in DOMAIN vehicles' : DOMAIN vehicles'[k] # {}
  <2>1. \A k \in DOMAIN vehicles' : k \notin DOMAIN vehicles => DOMAIN vehicles'[k] = {Key2[v]}
    BY <1>1
  <2> QED BY <1>1, <2>1 DEF NobodyInTheWay
<1>5. ASSUME NEW u \in Threads, u # t, Busy(u)', CurrentId(u)' \in Kept
      PROVE  Undisturbed(u)'
  <2> DEFINE w == CurrentId(u)
  <2>1. pc'[u] = pc[u] /\ target'[u] = target[u] /\ CurrentId(u)' = w
    BY <1>5, OthersStay
  <2>2. Busy(u) /\ w \in Kept
    BY <1>5, <2>1 DEF Busy
  <2>3. Undisturbed(u)
    BY <2>2 DEF NobodyInTheWay
  <2>4. pc[u] \in {"make", "insert"} => Key1[w] \notin DOMAIN vehicles'
    <3>1. SUFFICES ASSUME pc[u] \in {"make", "insert"} PROVE Key1[w] \notin DOMAIN vehicles'
      OBVIOUS
    <3>2. Key1[w] \notin DOMAIN vehicles
      BY <2>3, <3>1 DEF Undisturbed
    <3>3. Insert(t) => Key1[w] # Key1[v]
      BY <1>5, <2>2, KeysApart DEF Insert, Busy
    <3> QED BY <1>1, <3>2, <3>3
  <2> QED BY <1>1, <2>1, <2>3, <2>4 DEF Undisturbed
<1>6. ASSUME Busy(t)', CurrentId(t)' \in Kept
      PROVE  Undisturbed(t)'
  <2> USE DEF IInv, Types, Goto
  <2>1. CASE Count(t) \/ RLock(t) \/ AppendSample(t)
    BY <2>1 DEF Count, RLock, AppendSample, Undisturbed
  <2>0. ASSUME ~Count(t), Busy(t) PROVE CurrentId(t)' = v /\ v \in Kept /\ Undisturbed(t)
    <3>1. CurrentId(t)' = v
      BY <2>0, RecordStays
    <3> QED BY <1>6, <2>0, <3>1 DEF NobodyInTheWay
  <2>2. CASE Find(t)
    <3>1. /\ vehicles' = vehicles
          /\ pc'[t] = IF Key1[v] \in DOMAIN vehicles THEN "inner" ELSE "make"
      BY <2>2 DEF Find
    <3>2. CurrentId(t)' = v
      BY <2>0, <2>2 DEF Find, Count, Busy
    <3> QED BY <3>1, <3>2 DEF Undisturbed
  <2>3. CASE Make(t)
    <3>1. CurrentId(t)' = v /\ Undisturbed(t)
      BY <2>0, <2>3 DEF Make, Count, Busy
    <3>2. vehicles' = vehicles /\ pc'[t] = "insert" /\ Key1[v] \notin DOMAIN vehicles
      BY <2>3, <3>1 DEF Make, Undisturbed
    <3> QED BY <3>1, <3>2 DEF Undisturbed
  <2>4. CASE Insert(t)
    <3>1. CurrentId(t)' = v /\ Undisturbed(t)
      BY <2>0, <2>4 DEF Insert, Count, Busy
    <3>2. pc'[t] = "append" /\ target' = target
      BY <2>4 DEF Insert
    <3>3. Key1[v] \notin DOMAIN vehicles /\ Key1[v] \in DOMAIN vehicles'
      BY <2>4, <3>1 DEF Insert, Undisturbed
    <3>4. vehicles'[Key1[v]] = [q \in {Key2[v]} |-> target[t]]
      BY <1>1, <3>3
    <3> QED BY <3>1, <3>2, <3>3, <3>4 DEF Undisturbed
  <2>5. CASE FindInner(t)
    <3>1. /\ vehicles' = vehicles /\ pc[t] = "inner" /\ pc'[t] = "append"
          /\ target'[t] = vehicles[Key1[v]][Key2[v]]
          /\ Key2[v] \in DOMAIN vehicles[Key1[v]]
      BY <2>5 DEF FindInner
    <3>2. CurrentId(t)' = v
      BY <2>0, <2>5 DEF FindInner, Count, Busy
    <3>3. Key1[v] \in DOMAIN vehicles
      BY <3>1 DEF RightObjects
    <3> QED BY <3>1, <3>2, <3>3 DEF Undisturbed
  <2>6. CASE FindInnerMissing(t) \/ Unreached(t)
    <3>1. Busy(t) /\ ~Count(t)
      BY <2>6 DEF FindInnerMissing, Unreached, Busy, Count
    <3> QED BY <1>2, <2>0, <2>6, <3>1
  <2> QED BY <2>1, <2>2, <2>3, <2>4, <2>5, <2>6 DEF PushBack
<1> QED BY <1>4, <1>5, <1>6 DEF NobodyInTheWay

\* What get_vehicle finds is an object of the heap.
LEMMA FoundIsObject ==
  ASSUME IInv, NEW id, GetVehicle(id) # None
  PROVE  /\ Key1[id] \in DOMAIN vehicles /\ Key2[id] \in DOMAIN vehicles[Key1[id]]
         /\ GetVehicle(id) = vehicles[Key1[id]][Key2[id]]
         /\ GetVehicle(id) \in 1 .. Len(heap)
BY DEF GetVehicle, IInv, RightObjects

\* A record that is in the cache stays there.
LEMMA CachedStays ==
  ASSUME IInv, NEW t \in Threads, PushBack(t), NEW u \in Threads, NEW i \in Nat, InCache(<<u, i>>)
  PROVE  InCache(<<u, i>>)'
<1> DEFINE id == IdOf(<<u, i>>)
           o == GetVehicle(id)
<1>1. /\ o # None /\ o \in 1 .. Len(heap)
      /\ Key1[id] \in DOMAIN vehicles /\ Key2[id] \in DOMAIN vehicles[Key1[id]]
      /\ o = vehicles[Key1[id]][Key2[id]]
  BY FoundIsObject DEF InCache
<1>2. GetVehicle(id)' = o
  <2>1. Key1[id] \in DOMAIN vehicles' /\ vehicles'[Key1[id]] = vehicles[Key1[id]]
    BY <1>1, EntriesStep
  <2> QED BY <1>1, <2>1 DEF GetVehicle, IdOf
<1>3. PICK j \in DOMAIN heap[o].samples : heap[o].samples[j] = <<u, i>>
  BY DEF InCache
<1> HIDE DEF o
<1>4. j \in DOMAIN heap'[o].samples /\ heap'[o].samples[j] = <<u, i>>
  <2>1. heap[o].samples \in Seq(Samples)
    <3>1. heap[o] \in Object
      BY <1>1 DEF IInv, Types
    <3> QED BY <3>1 DEF Object
  <2>2. CASE heap'[o] = heap[o]
    BY <1>3, <2>2
  <2>3. CASE heap'[o].samples = Append(heap[o].samples, Current(t))
    BY <1>3, <2>1, <2>3
  <2> QED BY <1>1, <2>2, <2>3, HeapStep
<1> QED BY <1>1, <1>2, <1>4 DEF InCache, IdOf

\* What push_back has returned from is in the cache, if its vehicle is kept.
LEMMA AddedToCacheStep ==
  ASSUME IInv, MadeForARecord, NobodyInTheWay, NoSampleLost, NEW t \in Threads, PushBack(t),
         NEW u \in Threads, NEW i \in 1 .. begun'[u], Returned(u, i)', IdOf(<<u, i>>) \in Kept
  PROVE  InCache(<<u, i>>)'
<1>1. i = begun'[u] => pc'[u] = "idle"
  BY DEF Returned
<1>2. begun \in [Threads -> Nat] /\ begun' \in [Threads -> Nat] /\ i \in Nat
  BY TypesStep DEF IInv, Types
<1>3. ASSUME i \in 1 .. begun[u], i = begun[u] => pc[u] = "idle"
      PROVE  InCache(<<u, i>>)'
  <2>1. InCache(<<u, i>>)
    BY <1>3 DEF NoSampleLost, Returned
  <2> QED BY <1>2, <2>1, CachedStays
<1>4. CASE u # t
  BY <1>1, <1>3, <1>4, OthersStay
<1>5. CASE u = t /\ Count(t)
  <2>1. begun'[t] = begun[t] + 1 /\ pc[t] = "idle" /\ pc'[t] = "rlock"
    BY <1>5, <1>2 DEF Count, Goto, IInv, Types
  <2> QED BY <1>1, <1>2, <1>3, <1>5, <2>1
<1>6. CASE u = t /\ ~Count(t) /\ ~AppendSample(t)
  <2>1. begun' = begun
    BY <1>6, RecordStays
  <2>2. CASE i # begun[t]
    BY <1>2, <1>3, <1>6, <2>1, <2>2
  <2>3. CASE i = begun[t]
    <3>1. Busy(t)
      BY <1>6, BusyStep
    <3>2. CurrentId(t) \in Kept
      BY <1>6, <2>3 DEF CurrentId, Current
    <3>3. ~Unreached(t) /\ ~FindInnerMissing(t)
      BY <3>1, <3>2, SecondKeyFound
         DEF FindInnerMissing, Unreached, NobodyInTheWay, Undisturbed
    <3>4. pc'[t] # "idle"
      BY <1>6, <3>3 DEF PushBack, RLock, Find, Make, Insert, FindInner, Goto, IInv, Types
    <3> QED BY <1>1, <1>6, <2>1, <2>3, <3>4
  <2> QED BY <2>2, <2>3
<1>7. CASE u = t /\ AppendSample(t)
  <2>1. begun' = begun /\ pc[t] = "append" /\ vehicles' = vehicles
    BY <1>7 DEF AppendSample, callers
  <2>2. CASE i # begun[t]
    BY <1>1, <1>2, <1>3, <1>7, <2>1, <2>2
  <2>3. CASE i = begun[t]
    <3> DEFINE v == CurrentId(t)
               o == target[t]
    <3>1. IdOf(<<u, i>>) = v /\ <<u, i>> = Current(t) /\ v \in Kept
      BY <1>7, <2>3 DEF CurrentId, Current
    <3>2. GetVehicle(v) = o /\ o # None /\ o \in 1 .. Len(heap)
      <4>1. /\ Key1[v] \in DOMAIN vehicles /\ Key2[v] \in DOMAIN vehicles[Key1[v]]
            /\ vehicles[Key1[v]][Key2[v]] = o
        BY <2>1, <3>1 DEF NobodyInTheWay, Undisturbed, Busy
      <4>2. o \in 1 .. Len(heap) /\ Len(heap) \in Nat
        BY <2>1 DEF IInv, Types, RightObjects
      <4> QED BY <4>1, <4>2, CacheAssumption DEF GetVehicle
    <3>3. GetVehicle(IdOf(<<u, i>>))' = o
      BY <2>1, <3>1, <3>2 DEF GetVehicle, IdOf
    <3>4. heap'[o].samples = Append(heap[o].samples, Current(t))
          /\ heap[o].samples \in Seq(Samples)
      <4>1. heap \in Seq(Object) /\ heap[o] \in Object
        BY <3>2 DEF IInv, Types
      <4> QED BY <1>7, <3>2, <4>1 DEF AppendSample, Object
    <3> HIDE DEF o
    <3> DEFINE k == Len(heap[o].samples) + 1
    <3>5. k \in DOMAIN heap'[o].samples /\ heap'[o].samples[k] = <<u, i>>
      BY <3>1, <3>4
    <3> QED BY <3>2, <3>3, <3>5 DEF InCache
  <2> QED BY <2>2, <2>3
<1> QED BY <1>4, <1>5, <1>6, <1>7

\* When nothing has been pushed, nothing is lost.
LEMMA KeptInit == Init => DInv
BY CacheAssumption DEF Init, DInv, IInv, Types, LockOwners, RightObjects, StoredWasPushed,
   OnlyOwnRecords, Steps, Busy, NobodyInTheWay, MadeForARecord, NoSampleLost

\* What is true of the vehicles that are kept, of every behaviour.
LEMMA KeptInvariance == Spec => []DInv
<1>1. Init => DInv
  BY KeptInit
<1>2. DInv /\ [Next]_vars => DInv'
  <2> SUFFICES ASSUME DInv, [Next]_vars PROVE DInv'
    OBVIOUS
  <2>1. ASSUME NEW t \in Threads, PushBack(t), alive = TRUE PROVE DInv'
    <3>1. IInv' /\ MadeForARecord' /\ NobodyInTheWay'
      BY <2>1, TypesStep, LockStep, RightObjectsStep, StoredWasPushedStep, OnlyOwnRecordsStep,
         MadeForARecordStep, NobodyInTheWayStep DEF DInv, IInv
    <3>2. \A u \in Threads : \A i \in 1 .. begun'[u] :
            Returned(u, i)' /\ IdOf(<<u, i>>) \in Kept => InCache(<<u, i>>)'
      BY <2>1, AddedToCacheStep DEF DInv
    <3>3. ASSUME alive' = FALSE
          PROVE  \E u \in Threads : pc'[u] = "inner" /\ CurrentId(u)' \notin Kept
      <4>1. FindInnerMissing(t) /\ UNCHANGED <<pc, begun>>
        BY <2>1, <3>3 DEF PushBack, Count, RLock, Find, Make, Insert, FindInner, Unreached,
                          AppendSample, FindInnerMissing
      <4>2. pc[t] = "inner" /\ CurrentId(t) \notin Kept
        BY <4>1, SecondKeyFound DEF FindInnerMissing, DInv
      <4> QED BY <4>1, <4>2 DEF CurrentId, Current, IdOf
    <3>4. NoSampleLost'
      BY <3>2, <3>3 DEF NoSampleLost, IdOf
    <3> QED BY <3>1, <3>4 DEF DInv
  <2>2. CASE (Report /\ alive = TRUE) \/ UNCHANGED vars
    <3>1. UNCHANGED <<pc, begun, target, vehicles, heap, readers, writer, processed>>
      BY <2>2, ReportStep
    <3>2. IInv'
      BY <3>1 DEF DInv, IInv, Types, LockOwners, RightObjects, StoredWasPushed, OnlyOwnRecords,
                  Busy, CurrentId, Current, IdOf
    <3>3. MadeForARecord' /\ NobodyInTheWay'
      BY <3>1 DEF DInv, MadeForARecord, NobodyInTheWay, Undisturbed, Busy, CurrentId, Current, IdOf
    <3>4. ASSUME NEW t \in Threads, NEW i \in 1 .. begun'[t], Returned(t, i)',
                 IdOf(<<t, i>>) \in Kept
          PROVE  InCache(<<t, i>>)'
      <4>1. InCache(<<t, i>>)
        BY <3>1, <3>4 DEF DInv, NoSampleLost, Returned
      <4> QED BY <3>1, <4>1 DEF InCache, GetVehicle, IdOf
    <3>5. alive' = FALSE => processed' = 0 \/ UNCHANGED vars
      BY <2>2, <3>1 DEF Report, CountCompressed, Statistic, WriteToFile
    <3>6. alive' = FALSE => \/ \E t \in Threads : pc'[t] = "inner" /\ CurrentId(t)' \notin Kept
                           \/ processed' = 0
      BY <3>5 DEF DInv, NoSampleLost, vars, CurrentId, Current, IdOf
    <3> QED BY <3>2, <3>3, <3>4, <3>6 DEF DInv, NoSampleLost, IdOf
  <2> QED BY <2>1, <2>2 DEF Next
<1> QED BY <1>1, <1>2, PTL DEF Spec

\* Whatever the threads do, Cache::push_back keeps its promise "add a vd to the
\* cache" for each vehicle that is kept, and meets undefined behaviour only with
\* one that is not: for any number of threads, any feeds and any keys.
THEOREM KeptVehiclesLoseNothing == Spec => []NoSampleLost
<1>1. DInv => NoSampleLost
  BY DEF DInv
<1> QED BY <1>1, KeptInvariance, PTL

-----------------------------------------------------------------------------
(* The report never counts more nodes than packages.                       *)

Pushed == {s \in Threads \X Nat : s[2] \in 1 .. begun[s[1]]}

\* What has been processed is counted, each record once.
EachCounted == IsFiniteSet(Pushed) /\ processed = Cardinality(Pushed)

\* Only one object of the map is for two given keys.
LEMMA OneObjectForKeys ==
  ASSUME IInv, NEW a \in Reachable, NEW b \in Reachable,
         Key1[heap[a].id] = Key1[heap[b].id], Key2[heap[a].id] = Key2[heap[b].id]
  PROVE  a = b
<1>1. \A o \in Reachable : vehicles[Key1[heap[o].id]][Key2[heap[o].id]] = o
  BY DEF Reachable, IInv, RightObjects
<1> QED BY <1>1

\* So no record is stored twice, and all that is stored was pushed.
LEMMA StoredFitsPushed ==
  ASSUME IInv, IsFiniteSet(Pushed)
  PROVE  Cardinality(Stored) \in Nat /\ Cardinality(Stored) <= Cardinality(Pushed)
<1> DEFINE At(p) == heap[p[1]].samples[p[2]]
           f == [p \in Stored |-> At(p)]
<1>1. ASSUME NEW p \in Stored
      PROVE  /\ p = <<p[1], p[2]>> /\ p[1] \in Reachable /\ p[1] \in 1 .. Len(heap)
             /\ heap[p[1]].samples \in Seq(Samples)
             /\ p[2] \in 1 .. Len(heap[p[1]].samples)
  <2>1. PICK o \in Reachable : \E i \in DOMAIN heap[o].samples : p = <<o, i>>
    BY DEF Stored
  <2>2. PICK i \in DOMAIN heap[o].samples : p = <<o, i>>
    BY <2>1
  <2>3. o \in 1 .. Len(heap) /\ heap[o] \in Object
    BY ReachableIsFinite DEF IInv, Types
  <2>4. heap[o].samples \in Seq(Samples)
    BY <2>3 DEF Object
  <2> QED BY <2>2, <2>3, <2>4
<1>2. ASSUME NEW p \in Stored PROVE At(p) \in Pushed
  <2>1. /\ At(p) \in Threads \X (Nat \ {0}) /\ At(p)[2] <= begun[At(p)[1]]
    BY <1>1 DEF IInv, StoredWasPushed
  <2>2. begun[At(p)[1]] \in Nat /\ At(p) \in Threads \X Nat /\ At(p)[2] \in 1 .. begun[At(p)[1]]
    BY <2>1 DEF IInv, Types
  <2> QED BY <2>2 DEF Pushed
<1>3. ASSUME NEW p \in Stored, NEW r \in Stored, At(p) = At(r) PROVE p = r
  <2> DEFINE s == heap[p[1]].samples
  <2>1. \A x \in Stored : /\ Key1[IdOf(At(x))] = Key1[heap[x[1]].id]
                          /\ Key2[IdOf(At(x))] = Key2[heap[x[1]].id]
    <3> SUFFICES ASSUME NEW x \in Stored
                 PROVE  /\ Key1[IdOf(At(x))] = Key1[heap[x[1]].id]
                        /\ Key2[IdOf(At(x))] = Key2[heap[x[1]].id]
      OBVIOUS
    <3>1. x[1] \in DOMAIN heap /\ x[2] \in DOMAIN heap[x[1]].samples
      BY <1>1 DEF IInv, Types
    <3> QED BY <3>1 DEF IInv, OnlyOwnRecords
  <2>2. p[1] = r[1]
    BY <1>1, <1>3, <2>1, OneObjectForKeys
  <2>3. /\ s \in Seq(Samples) /\ p[2] \in 1 .. Len(s) /\ r[2] \in 1 .. Len(s)
        /\ s[p[2]] = s[r[2]] /\ p[1] \in DOMAIN heap
    BY <1>1, <1>3, <2>2 DEF IInv, Types
  <2>4. \A i, j \in DOMAIN s : i < j /\ s[i][1] = s[j][1] => s[i][2] < s[j][2]
    BY <2>3 DEF IInv, OnlyOwnRecords
  <2>5. s[p[2]][2] \in Nat
    BY <2>3 DEF Samples
  <2> HIDE DEF s
  <2>6. ~(p[2] < r[2]) /\ ~(r[2] < p[2])
    <3>1. DOMAIN s = 1 .. Len(s)
      BY <2>3
    <3> QED BY <2>3, <2>4, <2>5, <3>1
  <2>7. p[2] = r[2]
    BY <2>3, <2>6
  <2> QED BY <1>1, <2>2, <2>7
<1>4. f \in [Stored -> Pushed] /\ \A p, r \in Stored : f[p] = f[r] => p = r
  BY <1>2, <1>3
<1>5. f \in Injection(Stored, Pushed)
  BY <1>4 DEF Injection, IsInjective
<1> QED BY <1>5, FS_Injection, FS_CardinalityType

\* Count counts each record when it comes in.
LEMMA EachCountedStep ==
  ASSUME IInv, EachCounted, NEW t \in Threads, PushBack(t)
  PROVE  EachCounted' /\ processed <= processed' /\ processed \in Nat
<1>0. processed \in Nat
  BY FS_CardinalityType DEF EachCounted
<1>1. CASE Count(t)
  <2> DEFINE s == <<t, begun[t] + 1>>
  <2>1. /\ begun \in [Threads -> Nat] /\ begun' = [begun EXCEPT ![t] = begun[t] + 1]
        /\ processed' = processed + 1
    BY <1>1 DEF Count, IInv, Types
  <2>2. Pushed' = Pushed \cup {s} /\ s \notin Pushed
    <3>1. \A u \in Threads : u # t => begun'[u] = begun[u]
      BY <2>1
    <3>2. begun[t] \in Nat /\ begun'[t] = begun[t] + 1
      BY <2>1
    <3>3. ASSUME NEW r \in Threads \X Nat
          PROVE  r[2] \in 1 .. begun'[r[1]] <=> (r[2] \in 1 .. begun[r[1]] \/ r = s)
      <4>1. CASE r[1] = t
        BY <3>2, <4>1
      <4>2. CASE r[1] # t
        BY <3>1, <4>2
      <4> QED BY <4>1, <4>2
    <3>4. s \in Threads \X Nat /\ ~(s[2] \in 1 .. begun[s[1]])
      BY <3>2
    <3> QED BY <3>3, <3>4 DEF Pushed
  <2> HIDE DEF s
  <2>3. IsFiniteSet(Pushed') /\ Cardinality(Pushed') = Cardinality(Pushed) + 1
    BY <2>2, FS_AddElement DEF EachCounted
  <2> QED BY <1>0, <2>1, <2>3 DEF EachCounted
<1>2. CASE ~Count(t)
  <2>1. begun' = begun
    BY <1>2, RecordStays
  <2>2. processed' = processed
    BY <1>2 DEF PushBack, RLock, Find, Make, Insert, FindInner, FindInnerMissing, Unreached,
                AppendSample
  <2>3. Pushed' = Pushed
    BY <2>1 DEF Pushed
  <2> QED BY <1>0, <2>2, <2>3 DEF EachCounted
<1> QED BY <1>1, <1>2

\* Whatever the threads lose or drop, statistic() subtracts a smaller number from
\* a larger one.
THEOREM ReportNeverWraps == Spec => []RatioDoesNotWrap
<1> DEFINE SmallEnough == compressed \in Nat /\ compressed <= processed
           CInv == IInv /\ EachCounted /\ SmallEnough
<1>1. Init => CInv
  <2> SUFFICES ASSUME Init PROVE CInv
    OBVIOUS
  <2>1. IInv
    BY CacheAssumption DEF Init, IInv, Types, LockOwners, RightObjects, StoredWasPushed,
                           OnlyOwnRecords, Steps, Busy
  <2>2. Pushed = {}
    BY DEF Pushed, Init
  <2>3. EachCounted
    BY <2>2, FS_EmptySet DEF EachCounted, Init
  <2> QED BY <2>1, <2>3 DEF Init
<1>2. ASSUME CInv, NEW t \in Threads, PushBack(t)
      PROVE  CInv'
  <2>1. IInv'
    BY <1>2, TypesStep, LockStep, RightObjectsStep, StoredWasPushedStep, OnlyOwnRecordsStep
       DEF IInv
  <2>2. compressed' = compressed
    BY <1>2 DEF PushBack, Count, RLock, Find, Make, Insert, FindInner, FindInnerMissing,
                Unreached, AppendSample, report
  <2>3. EachCounted' /\ processed <= processed' /\ processed \in Nat /\ processed' \in Nat
    BY <1>2, EachCountedStep, FS_CardinalityType DEF EachCounted
  <2> QED BY <1>2, <2>1, <2>2, <2>3
<1>3. ASSUME CInv, Report \/ UNCHANGED vars
      PROVE  CInv'
  <2>1. UNCHANGED <<pc, begun, target, vehicles, heap, readers, writer, processed>>
    BY <1>3, ReportStep
  <2>2. IInv'
    BY <1>3, <2>1 DEF IInv, Types, LockOwners, RightObjects, StoredWasPushed, OnlyOwnRecords,
                      Busy, CurrentId, Current, IdOf
  <2>3. EachCounted'
    BY <1>3, <2>1 DEF EachCounted, Pushed
  <2>4. SmallEnough'
    <3>1. CASE CountCompressed
      <4>1. /\ Cardinality(Reachable) \in Nat
            /\ Cardinality(Stored) \in Nat /\ Cardinality(Stored) <= processed /\ processed \in Nat
        BY <1>3, ReachableIsFinite, StoredFitsPushed, FS_CardinalityType DEF EachCounted
      <4>2. compressed' \in Int /\ Cardinality(Reachable) <= compressed'
            /\ compressed' <= Cardinality(Stored)
        BY <3>1, <4>1 DEF CountCompressed
      <4> QED BY <2>1, <4>1, <4>2
    <3>2. CASE Statistic \/ WriteToFile \/ UNCHANGED vars
      BY <1>3, <2>1, <3>2 DEF Statistic, WriteToFile, vars
    <3> QED BY <1>3, <3>1, <3>2 DEF Report
  <2> QED BY <2>2, <2>3, <2>4
<1>4. CInv /\ [Next]_vars => CInv'
  BY <1>2, <1>3 DEF Next
<1>5. CInv => RatioDoesNotWrap
  BY DEF RatioDoesNotWrap
<1> HIDE DEF CInv
<1> QED BY <1>1, <1>4, <1>5, PTL DEF Spec

-----------------------------------------------------------------------------
(* The cache implements VehicleStore for the vehicles that are kept.       *)

\* Ids that cache_test keeps apart in its files, their keys keep apart too.
KeysTellKept ==
  \A v, w \in Kept : Key1[v] = Key1[w] /\ Key2[v] = Key2[w] => v = w

\* How many records of its feed push_back has returned from.
Done(t) == IF Busy(t) THEN begun[t] - 1 ELSE begun[t]

\* The history of a vehicle is as long as its thread is far in its file.
HistoryFits ==
  \A v \in Kept : \A t \in Threads :
    PlacesOf(t, v) # {} => Len(History(v)) = Cardinality(UpTo(t, v, Done(t)))

\* An object that goes into the map has no records yet.
NewIsEmpty ==
  \A t \in Threads :
    pc[t] = "insert" /\ CurrentId(t) \in Kept => heap[target[t]].samples = <<>>

SInv == DInv /\ HistoryFits /\ NewIsEmpty

\* The records under a key are counted one by one along a feed.
LEMMA PlaceFacts ==
  ASSUME NEW t \in Threads, NEW v, NEW i \in PlacesOf(t, v)
  PROVE  /\ Cardinality(UpTo(t, v, i - 1)) \in Nat
         /\ Cardinality(UpTo(t, v, i)) = Cardinality(UpTo(t, v, i - 1)) + 1
         /\ Cardinality(UpTo(t, v, i)) \in 1 .. Cardinality(PlacesOf(t, v))
         /\ Cardinality(PlacesOf(t, v)) \in Nat
         /\ \A j \in PlacesOf(t, v) :
              Cardinality(UpTo(t, v, j)) = Cardinality(UpTo(t, v, i)) => j = i
<1>1. Feed[t] \in Seq(Ids) /\ DOMAIN Feed[t] = 1 .. Len(Feed[t]) /\ Len(Feed[t]) \in Nat
  BY CacheAssumption
<1>2. PlacesOf(t, v) \subseteq 1 .. Len(Feed[t]) /\ PlacesOf(t, v) \subseteq Int
  BY <1>1 DEF PlacesOf
<1>3. IsFiniteSet(PlacesOf(t, v)) /\ Cardinality(PlacesOf(t, v)) \in Nat
  <2>1. IsFiniteSet(1 .. Len(Feed[t]))
    BY <1>1, FS_Interval
  <2>2. PlacesOf(t, v) \in SUBSET (1 .. Len(Feed[t]))
    BY <1>2
  <2> QED BY <2>1, <2>2, FS_Subset, FS_CardinalityType
<1>4. \A n : UpTo(t, v, n) \in SUBSET PlacesOf(t, v)
  BY DEF UpTo
<1>5. \A n : /\ IsFiniteSet(UpTo(t, v, n)) /\ Cardinality(UpTo(t, v, n)) \in Nat
             /\ Cardinality(UpTo(t, v, n)) <= Cardinality(PlacesOf(t, v))
  BY <1>3, <1>4, FS_Subset, FS_CardinalityType
<1>6. UpTo(t, v, i) = UpTo(t, v, i - 1) \cup {i} /\ i \notin UpTo(t, v, i - 1)
  BY <1>2 DEF UpTo
<1>7. Cardinality(UpTo(t, v, i)) = Cardinality(UpTo(t, v, i - 1)) + 1
  BY <1>5, <1>6, FS_AddElement
<1>8. ASSUME NEW j \in PlacesOf(t, v), NEW k \in PlacesOf(t, v), j < k
      PROVE  Cardinality(UpTo(t, v, j)) # Cardinality(UpTo(t, v, k))
  <2>1. UpTo(t, v, j) \in SUBSET UpTo(t, v, k) /\ k \in UpTo(t, v, k) /\ k \notin UpTo(t, v, j)
    BY <1>2, <1>8 DEF UpTo
  <2> QED BY <1>5, <2>1, FS_Subset
<1>9. ASSUME NEW j \in PlacesOf(t, v), Cardinality(UpTo(t, v, j)) = Cardinality(UpTo(t, v, i))
      PROVE  j = i
  <2>1. ~(j < i) /\ ~(i < j)
    BY <1>8, <1>9
  <2>2. i \in Int /\ j \in Int
    BY <1>2
  <2> QED BY <2>1, <2>2
<1> QED BY <1>3, <1>5, <1>7, <1>9

\* A record is where in its vehicle's file as many records are as up to it.
LEMMA FileFacts ==
  ASSUME NEW v \in Kept, NEW t \in Threads, NEW i \in PlacesOf(t, v)
  PROVE  LET n == Cardinality(UpTo(t, v, i))
         IN  n \in 1 .. Len(FileOf(v)) /\ FileOf(v)[n] = <<t, i>>
<1> DEFINE P(u) == (\E w \in Threads : PlacesOf(w, v) # {}) => PlacesOf(u, v) # {}
           pusher == CHOOSE u \in Threads : P(u)
           n == Cardinality(UpTo(t, v, i))
           Nth(m) == CHOOSE j \in PlacesOf(pusher, v) : Cardinality(UpTo(pusher, v, j)) = m
           c == Cardinality(PlacesOf(pusher, v))
<1>1. pusher = t
  <2>1. P(t)
    OBVIOUS
  <2>2. pusher \in Threads /\ P(pusher)
    BY <2>1
  <2> HIDE DEF pusher
  <2>3. PICK j \in PlacesOf(pusher, v) : TRUE
    BY <2>2
  <2> QED BY <2>2, <2>3 DEF Kept, PlacesOf
<1>2. FileOf(v) = [m \in 1 .. c |-> <<pusher, Nth(m)>>]
  BY DEF FileOf
<1> HIDE DEF pusher, P
<1>3. n \in 1 .. c /\ c \in Nat
  BY <1>1, PlaceFacts
<1>4. Nth(n) = i
  BY <1>1, PlaceFacts
<1> HIDE DEF n, Nth
<1>5. FileOf(v)[n] = <<t, i>>
  BY <1>1, <1>2, <1>3, <1>4
<1>6. Len(FileOf(v)) = c
  <2>1. DOMAIN FileOf(v) = 1 .. c
    BY <1>2
  <2> QED BY <1>2, <1>3
<1> QED BY <1>3, <1>5, <1>6 DEF n

\* A record under the first key of a vehicle that is kept is of its second key,
\* and of a vehicle that is kept.
LEMMA UnderKeptKey ==
  ASSUME IInv, NEW v \in Kept, NEW t \in Threads, Busy(t)
  PROVE  /\ begun[t] \in PlacesOf(t, v) <=> Key1[CurrentId(t)] = Key1[v]
         /\ begun[t] \in PlacesOf(t, v) =>
              /\ CurrentId(t) \in Kept /\ Key2[CurrentId(t)] = Key2[v]
              /\ \A u \in Threads : PlacesOf(u, v) # {} => u = t
<1>1. /\ begun[t] \in DOMAIN Feed[t] /\ CurrentId(t) = Feed[t][begun[t]]
      /\ CurrentId(t) \in Ids
  <2>1. begun[t] \in 1 .. Len(Feed[t]) /\ Feed[t] \in Seq(Ids)
    BY CurrentIsARecord, CacheAssumption DEF IInv
  <2> QED BY <2>1 DEF CurrentId, Current, IdOf
<1>2. begun[t] \in PlacesOf(t, v) <=> Key1[CurrentId(t)] = Key1[v]
  BY <1>1 DEF PlacesOf
<1>3. ASSUME Key1[CurrentId(t)] = Key1[v]
      PROVE  CurrentId(t) \in Kept /\ Key2[CurrentId(t)] = Key2[v]
  BY <1>1, <1>3 DEF Kept
<1>4. ASSUME Key1[CurrentId(t)] = Key1[v], NEW u \in Threads, PlacesOf(u, v) # {}
      PROVE  u = t
  <2>1. PICK j \in DOMAIN Feed[u] : Key1[Feed[u][j]] = Key1[v]
    BY <1>4 DEF PlacesOf
  <2> QED BY <1>1, <1>4, <2>1 DEF Kept
<1> QED BY <1>2, <1>3, <1>4

\* A history changes only when a record under its key is appended.
LEMMA HistoryStep ==
  ASSUME DInv, NewIsEmpty, NEW t \in Threads, PushBack(t), NEW v \in Kept
  PROVE  /\ History(v) \in Seq(Samples)
         /\ AppendSample(t) /\ Key1[CurrentId(t)] = Key1[v] =>
              History(v)' = Append(History(v), Current(t))
         /\ ~(AppendSample(t) /\ Key1[CurrentId(t)] = Key1[v]) => History(v)' = History(v)
<1> DEFINE o == GetVehicle(v)
           w == CurrentId(t)
<1> USE DEF DInv
<1>1. heap \in Seq(Object) /\ Len(heap) \in Nat /\ \A x \in 1 .. Len(heap) : heap[x].samples \in Seq(Samples)
  <2>1. heap \in Seq(Object)
    BY DEF IInv, Types
  <2>2. \A x \in 1 .. Len(heap) : heap[x] \in Object
    BY <2>1
  <2> QED BY <2>1, <2>2 DEF Object
<1>2. o # None => /\ Key1[v] \in DOMAIN vehicles /\ Key2[v] \in DOMAIN vehicles[Key1[v]]
                  /\ o = vehicles[Key1[v]][Key2[v]] /\ o \in 1 .. Len(heap)
                  /\ Key1[heap[o].id] = Key1[v]
  BY FoundIsObject DEF IInv, RightObjects
<1>3. History(v) \in Seq(Samples)
  <2>1. CASE o = None
    BY <2>1 DEF History
  <2>2. CASE o # None
    BY <1>1, <1>2, <2>2 DEF History
  <2> QED BY <2>1, <2>2
<1>4. ASSUME AppendSample(t), Key1[w] = Key1[v]
      PROVE  History(v)' = Append(History(v), Current(t))
  <2>1. Busy(t) /\ vehicles' = vehicles /\ pc[t] = "append"
    BY <1>4 DEF AppendSample, Busy
  <2>2. w \in Kept /\ Key2[w] = Key2[v]
    BY <1>4, <2>1, UnderKeptKey
  <2>3. /\ Key1[w] \in DOMAIN vehicles /\ Key2[w] \in DOMAIN vehicles[Key1[w]]
        /\ vehicles[Key1[w]][Key2[w]] = target[t]
    BY <2>1, <2>2 DEF NobodyInTheWay, Undisturbed
  <2>4. target[t] \in 1 .. Len(heap) /\ target[t] # None
    BY <1>1, <2>1, CacheAssumption DEF IInv, RightObjects
  <2>5. o = target[t] /\ GetVehicle(v)' = target[t]
    BY <1>4, <2>1, <2>2, <2>3 DEF GetVehicle
  <2>6. heap'[target[t]].samples = Append(heap[target[t]].samples, Current(t))
    BY <1>1, <1>4, <2>4 DEF AppendSample, Object
  <2> QED BY <2>4, <2>5, <2>6 DEF History
<1>5. ASSUME ~(AppendSample(t) /\ Key1[w] = Key1[v]), o # None
      PROVE  History(v)' = History(v)
  <2>1. GetVehicle(v)' = o
    <3>1. Key1[v] \in DOMAIN vehicles' /\ vehicles'[Key1[v]] = vehicles[Key1[v]]
      BY <1>2, <1>5, EntriesStep
    <3> QED BY <1>2, <1>5, <3>1 DEF GetVehicle
  <2>2. heap'[o] = heap[o]
    <3>1. AppendSample(t) => target[t] # o
      BY <1>2, <1>5 DEF AppendSample, IInv, RightObjects
    <3> QED BY <1>2, <1>5, <3>1, HeapStep
  <2> QED BY <1>5, <2>1, <2>2 DEF History
<1>6. ASSUME o = None PROVE (AppendSample(t) /\ Key1[w] = Key1[v]) \/ History(v)' = History(v)
  <2>1. CASE GetVehicle(v)' = None
    BY <1>6, <2>1 DEF History
  <2>2. CASE GetVehicle(v)' # None
    <3>1. Key1[v] \in DOMAIN vehicles' /\ Key2[v] \in DOMAIN vehicles'[Key1[v]]
          /\ GetVehicle(v)' = vehicles'[Key1[v]][Key2[v]]
      BY <2>2 DEF GetVehicle
    <3>2. Key1[v] \notin DOMAIN vehicles
      <4>1. SUFFICES ASSUME Key1[v] \in DOMAIN vehicles PROVE FALSE
        OBVIOUS
      <4>2. vehicles'[Key1[v]] = vehicles[Key1[v]]
        BY <4>1, EntriesStep
      <4> QED BY <1>6, <2>2, <3>1, <4>1, <4>2 DEF GetVehicle
    <3>3. /\ Insert(t) /\ Key1[v] = Key1[w]
          /\ vehicles'[Key1[v]] = [q \in {Key2[w]} |-> target[t]]
      BY <3>1, <3>2, EntriesStep
    <3>4. GetVehicle(v)' = target[t] /\ heap' = heap /\ pc[t] = "insert" /\ Busy(t)
      BY <3>1, <3>3 DEF Insert, Busy
    <3>5. w \in Kept
      BY <3>3, <3>4, UnderKeptKey
    <3>6. heap[target[t]].samples = <<>>
      BY <3>4, <3>5 DEF NewIsEmpty
    <3> QED BY <1>6, <2>2, <3>4, <3>6 DEF History
  <2> QED BY <2>1, <2>2
<1> QED BY <1>3, <1>4, <1>5, <1>6

\* Nobody appends to an object before it is in the map.
LEMMA NewIsEmptyStep ==
  ASSUME DInv, NewIsEmpty, NEW t \in Threads, PushBack(t)
  PROVE  NewIsEmpty'
<1> USE DEF DInv
<1>1. ASSUME NEW u \in Threads, u # t, pc'[u] = "insert", CurrentId(u)' \in Kept
      PROVE  heap'[target'[u]].samples = <<>>
  <2>1. /\ pc[u] = "insert" /\ target'[u] = target[u] /\ CurrentId(u) \in Kept
    BY <1>1, OthersStay
  <2>2. heap[target[u]].samples = <<>> /\ target[u] \in 1 .. Len(heap)
        /\ Key1[heap[target[u]].id] = Key1[CurrentId(u)]
    BY <2>1 DEF NewIsEmpty, IInv, RightObjects
  <2>3. AppendSample(t) => target[t] # target[u]
    <3>1. SUFFICES ASSUME AppendSample(t) PROVE target[t] # target[u]
      OBVIOUS
    <3>2. Key1[heap[target[t]].id] = Key1[CurrentId(t)] /\ Busy(t) /\ Busy(u)
      BY <2>1, <3>1 DEF AppendSample, IInv, RightObjects, Busy
    <3>3. Key1[CurrentId(u)] # Key1[CurrentId(t)]
      BY <1>1, <2>1, <3>2, KeysApart
    <3> QED BY <2>2, <3>2, <3>3
  <2>4. heap'[target[u]] = heap[target[u]]
    BY <2>2, <2>3, HeapStep
  <2> QED BY <2>1, <2>2, <2>4
<1>2. ASSUME pc'[t] = "insert" PROVE heap'[target'[t]].samples = <<>>
  <2>1. Make(t)
    BY <1>2 DEF PushBack, Count, RLock, Find, Insert, FindInner, FindInnerMissing, Unreached,
                AppendSample, Goto, IInv, Types
  <2>2. heap \in Seq(Object) /\ target'[t] = Len(heap) + 1
        /\ heap' = Append(heap, [id |-> CurrentId(t), samples |-> <<>>])
    BY <2>1 DEF Make, IInv, Types
  <2> QED BY <2>2
<1> QED BY <1>1, <1>2 DEF NewIsEmpty

\* How far a thread is changes when it returns from push_back.
LEMMA DoneStep ==
  ASSUME DInv, NEW t \in Threads, PushBack(t)
  PROVE  /\ \A u \in Threads : u # t => Done(u)' = Done(u)
         /\ ~AppendSample(t) /\ ~Unreached(t) => Done(t)' = Done(t)
         /\ AppendSample(t) \/ Unreached(t) =>
              Busy(t) /\ Done(t) = begun[t] - 1 /\ Done(t)' = begun[t]
<1> USE DEF DInv
<1>1. \A u \in Threads : u # t => Done(u)' = Done(u)
  BY OthersStay DEF Done, Busy
<1>2. CASE Count(t)
  <2>1. begun'[t] = begun[t] + 1 /\ begun[t] \in Nat /\ ~Busy(t) /\ pc'[t] = "rlock"
    BY <1>2 DEF Count, Goto, Busy, IInv, Types
  <2>2. Done(t)' = Done(t) /\ ~AppendSample(t) /\ ~Unreached(t)
    BY <2>1 DEF Done, Busy, AppendSample, Unreached
  <2> QED BY <1>1, <2>2
<1>3. CASE ~Count(t)
  <2>1. begun' = begun /\ Busy(t)
    BY <1>3, RecordStays, BusyStep
  <2>2. ~AppendSample(t) /\ ~Unreached(t) => pc'[t] # "idle"
    BY <1>3, <2>1 DEF PushBack, RLock, Find, Make, Insert, FindInner, FindInnerMissing, Goto,
                      IInv, Types, Busy
  <2>3. AppendSample(t) \/ Unreached(t) => pc'[t] = "idle"
    BY DEF AppendSample, Unreached, Goto, IInv, Types
  <2> QED BY <1>1, <2>1, <2>2, <2>3 DEF Done, Busy
<1> QED BY <1>2, <1>3

\* A history grows with what its thread is done with.
LEMMA HistoryFitsStep ==
  ASSUME SInv, NEW t \in Threads, PushBack(t)
  PROVE  HistoryFits'
<1> USE DEF SInv, DInv
<1>1. SUFFICES ASSUME NEW v \in Kept, NEW u \in Threads, PlacesOf(u, v) # {}
               PROVE  Len(History(v)') = Cardinality(UpTo(u, v, Done(u)'))
  BY DEF HistoryFits, PlacesOf, UpTo
<1>2. Len(History(v)) = Cardinality(UpTo(u, v, Done(u)))
  BY <1>1 DEF HistoryFits
<1>3. History(v) \in Seq(Samples)
  BY HistoryStep
<1>4. CASE AppendSample(t) /\ Key1[CurrentId(t)] = Key1[v]
  <2>1. Busy(t) /\ Done(t) = begun[t] - 1 /\ Done(t)' = begun[t]
    BY <1>4, DoneStep
  <2>2. begun[t] \in PlacesOf(t, v) /\ u = t
    BY <1>1, <1>4, <2>1, UnderKeptKey
  <2>3. /\ Cardinality(UpTo(t, v, begun[t])) = Cardinality(UpTo(t, v, begun[t] - 1)) + 1
    BY <2>2, PlaceFacts
  <2>4. Len(History(v)') = Len(History(v)) + 1
    <3>1. History(v)' = Append(History(v), Current(t))
      BY <1>4, HistoryStep
    <3>2. Current(t) \in Samples
      BY <2>1, CurrentIsARecord DEF IInv
    <3> QED BY <1>3, <3>1, <3>2
  <2> QED BY <1>2, <2>1, <2>2, <2>3, <2>4
<1>5. CASE ~(AppendSample(t) /\ Key1[CurrentId(t)] = Key1[v])
  <2>1. History(v)' = History(v)
    BY <1>5, HistoryStep
  <2>2. UpTo(u, v, Done(u)') = UpTo(u, v, Done(u))
    <3>1. CASE u # t \/ (~AppendSample(t) /\ ~Unreached(t))
      BY <3>1, DoneStep
    <3>2. CASE u = t /\ (AppendSample(t) \/ Unreached(t))
      <4>1. Busy(t) /\ Done(t) = begun[t] - 1 /\ Done(t)' = begun[t] /\ begun[t] \in Nat
        BY <3>2, DoneStep DEF IInv, Types
      <4>2. begun[t] \notin PlacesOf(t, v)
        <5>1. CASE AppendSample(t)
          BY <1>5, <4>1, <5>1, UnderKeptKey
        <5>2. CASE Unreached(t)
          <6>1. CurrentId(t) \notin Kept
            BY <4>1, <5>2 DEF Unreached, NobodyInTheWay, Undisturbed
          <6> QED BY <4>1, <6>1, UnderKeptKey
        <5> QED BY <3>2, <5>1, <5>2
      <4>3. PlacesOf(t, v) \subseteq Nat
        <5>1. DOMAIN Feed[t] \subseteq Nat
          BY CacheAssumption
        <5> QED BY <5>1 DEF PlacesOf
      <4> QED BY <3>2, <4>1, <4>2, <4>3 DEF UpTo
    <3> QED BY <3>1, <3>2
  <2> QED BY <1>2, <2>1, <2>2
<1> QED BY <1>4, <1>5

\* A step of a thread puts the next record of one file, or changes no history.
LEMMA StoreStep ==
  ASSUME KeysTellKept, SInv, NEW t \in Threads, PushBack(t)
  PROVE  [Store!Next]_([v \in Kept |-> History(v)])
<1> USE DEF SInv, DInv
<1> DEFINE store == [v \in Kept |-> History(v)]
<1>1. CASE \A v \in Kept : ~(AppendSample(t) /\ Key1[CurrentId(t)] = Key1[v])
  <2>1. \A v \in Kept : History(v)' = History(v)
    BY <1>1, HistoryStep
  <2> QED BY <2>1
<1>2. CASE \E v \in Kept : AppendSample(t) /\ Key1[CurrentId(t)] = Key1[v]
  <2>0. PICK w \in Kept : w = CurrentId(t)
    <3>1. Busy(t)
      BY <1>2 DEF AppendSample, Busy
    <3> QED BY <1>2, <3>1, UnderKeptKey
  <2>1. AppendSample(t) /\ Busy(t) /\ begun[t] \in PlacesOf(t, w)
    <3>1. AppendSample(t) /\ Busy(t)
      BY <1>2 DEF AppendSample, Busy
    <3> QED BY <1>2, <2>0, <3>1, UnderKeptKey
  <2>2. History(w)' = Append(History(w), Current(t))
    BY <2>0, <2>1, HistoryStep
  <2>3. ASSUME NEW v \in Kept, v # w PROVE History(v)' = History(v)
    <3>1. Key1[v] # Key1[w]
      BY <2>0, <2>1, <2>3, UnderKeptKey DEF KeysTellKept
    <3> QED BY <2>0, <3>1, HistoryStep
  <2>4. /\ Len(History(w)) + 1 \in 1 .. Len(FileOf(w))
        /\ FileOf(w)[Len(History(w)) + 1] = Current(t)
    <3>1. Done(t) = begun[t] - 1
      BY <2>1, DoneStep
    <3>2. Len(History(w)) = Cardinality(UpTo(t, w, begun[t] - 1))
      BY <2>1, <3>1 DEF HistoryFits
    <3>3. Cardinality(UpTo(t, w, begun[t])) = Len(History(w)) + 1
      BY <2>1, <3>2, PlaceFacts
    <3> QED BY <2>1, <3>3, FileFacts DEF Current
  <2>5. Len(History(w)) < Len(FileOf(w))
    <3>1. Len(History(w)) \in Nat
      BY <2>1, HistoryStep
    <3> QED BY <2>4, <3>1
  <2>6. store' = [store EXCEPT ![w] = Append(store[w], FileOf(w)[Len(store[w]) + 1])]
    <3>1. store' = [v \in Kept |-> History(v)']
      OBVIOUS
    <3>2. store[w] = History(w)
      BY <2>1
    <3> QED BY <2>1, <2>2, <2>3, <2>4, <3>1, <3>2
  <2>7. Store!Put(w)
    BY <2>1, <2>5, <2>6 DEF Store!Put
  <2> QED BY <2>1, <2>7 DEF Store!Next
<1> QED BY <1>1, <1>2

\* For any threads, feeds and keys that tell the vehicles which are kept: their
\* histories are, at every moment, the parts of their files pushed so far, and
\* grow by one record at a time, whatever happens to the others.
THEOREM CacheRefinesStore ==
  ASSUME KeysTellKept
  PROVE  Spec => CacheIsAStore
<1> DEFINE store == [v \in Kept |-> History(v)]
<1>1. Init => SInv /\ Store!Init
  <2> SUFFICES ASSUME Init PROVE SInv /\ Store!Init
    OBVIOUS
  <2>1. \A v \in Kept : History(v) = <<>>
    BY DEF Init, History, GetVehicle
  <2>2. \A t \in Threads, v \in Kept : UpTo(t, v, Done(t)) = {}
    <3>1. \A t \in Threads : Done(t) = 0 /\ DOMAIN Feed[t] \subseteq Nat \ {0}
      BY CacheAssumption DEF Init, Done, Busy
    <3> QED BY <3>1 DEF UpTo, PlacesOf
  <2>3. HistoryFits
    <3>1. Len(<<>>) = 0 /\ Cardinality({}) = 0
      BY FS_EmptySet
    <3> QED BY <2>1, <2>2, <3>1 DEF HistoryFits
  <2>4. NewIsEmpty
    BY DEF NewIsEmpty, Init
  <2>5. DInv
    BY KeptInit
  <2> QED BY <2>1, <2>3, <2>4, <2>5 DEF SInv, Store!Init
<1>2. SInv /\ DInv' /\ [Next]_vars => SInv'
  <2> SUFFICES ASSUME SInv, DInv', [Next]_vars PROVE HistoryFits' /\ NewIsEmpty'
    BY DEF SInv
  <2>1. CASE \E t \in Threads : PushBack(t)
    BY <2>1, HistoryFitsStep, NewIsEmptyStep DEF SInv
  <2>2. CASE Report \/ UNCHANGED vars
    <3>1. UNCHANGED <<pc, begun, target, vehicles, heap>>
      BY <2>2, ReportStep
    <3> QED BY <3>1 DEF SInv, HistoryFits, NewIsEmpty, History, GetVehicle, Done, Busy, CurrentId,
                        Current, IdOf
  <2> QED BY <2>1, <2>2 DEF Next
<1>3. SInv /\ [Next]_vars => [Store!Next]_store
  <2> SUFFICES ASSUME SInv, [Next]_vars PROVE [Store!Next]_store
    OBVIOUS
  <2>1. CASE \E t \in Threads : PushBack(t)
    BY <2>1, StoreStep
  <2>2. CASE Report \/ UNCHANGED vars
    <3>1. UNCHANGED <<vehicles, heap>>
      BY <2>2, ReportStep
    <3>2. \A v \in Kept : History(v)' = History(v)
      BY <3>1 DEF History, GetVehicle
    <3> QED BY <3>2
  <2> QED BY <2>1, <2>2 DEF Next
<1> QED BY <1>1, <1>2, <1>3, KeptInvariance, PTL DEF Spec, CacheIsAStore, Store!Spec

-----------------------------------------------------------------------------
(* Which ids the keys of generate_index() tell apart, for every size of    *)
(* key and id: those that are short enough.                                *)

\* Ids that look the same from the end, for longer than they are, are the same.
LEMMA SameFromEnd ==
  ASSUME NEW a \in Plate, NEW b \in Plate, NEW m \in Nat, Len(a) <= m, Len(b) <= m,
         \A n \in 1 .. m : FromEnd(a, n) = FromEnd(b, n)
  PROVE  a = b
<1>1. \A c \in Plate : \A n \in 1 .. m : n <= Len(c) => FromEnd(c, n) = c[Len(c) + 1 - n]
  BY DEF FromEnd
<1>2. \A c \in Plate : \A i \in 1 .. Len(c) : c[i] # NUL
  BY DEF Plate
<1>3. \A c \in Plate : Len(c) \in Nat
  BY DEF Plate
<1>4. ASSUME NEW c \in Plate, NEW d \in Plate, Len(c) < Len(d), Len(d) <= m
      PROVE  \E n \in 1 .. m : FromEnd(c, n) # FromEnd(d, n)
  <2> DEFINE n == Len(c) + 1
  <2>1. n \in 1 .. m /\ n <= Len(d) /\ ~(n <= Len(c)) /\ Len(d) + 1 - n \in 1 .. Len(d)
    BY <1>3, <1>4
  <2>2. FromEnd(c, n) = NUL
    BY <2>1 DEF FromEnd
  <2>3. FromEnd(d, n) = d[Len(d) + 1 - n] /\ d[Len(d) + 1 - n] # NUL
    BY <1>1, <1>2, <2>1
  <2> QED BY <2>1, <2>2, <2>3
<1>5. Len(a) = Len(b)
  <2>1. ~(Len(a) < Len(b)) /\ ~(Len(b) < Len(a))
    BY <1>4
  <2> QED BY <1>3, <2>1
<1>6. ASSUME NEW i \in 1 .. Len(a) PROVE a[i] = b[i]
  <2> DEFINE n == Len(a) + 1 - i
  <2>1. n \in 1 .. m /\ n <= Len(a) /\ Len(a) + 1 - n = i
    BY <1>3
  <2>2. FromEnd(a, n) = a[i] /\ FromEnd(b, n) = b[i]
    BY <1>1, <1>5, <2>1
  <2> QED BY <2>1, <2>2
<1> QED BY <1>5, <1>6 DEF Plate

\* The keys of generate_index() tell all ids of at most SIZE_OF_ID bytes: neither
\* the padding with zeros nor the cut between the keys mixes two of them up.
THEOREM KeysTellIds ==
  ASSUME NEW a \in Plate, NEW b \in Plate, Len(a) <= IdSize, Len(b) <= IdSize,
         Key1Of(a) = Key1Of(b), Key2Of(a) = Key2Of(b)
  PROVE  a = b
<1>1. ASSUME NEW n \in 1 .. IdSize PROVE FromEnd(a, n) = FromEnd(b, n)
  <2>1. CASE n <= KeyBytes
    <3>1. n \in 1 .. KeyBytes
      BY <2>1, IndexAssumption
    <3>2. Key1Of(a)[n] = FromEnd(a, n) /\ Key1Of(b)[n] = FromEnd(b, n)
      BY <3>1 DEF Key1Of
    <3> QED BY <3>2
  <2>2. CASE ~(n <= KeyBytes)
    <3> DEFINE k == n - KeyBytes
    <3>1. k \in 1 .. (IdSize - KeyBytes) /\ KeyBytes + k = n
      BY <2>2, IndexAssumption
    <3>2. Key2Of(a)[k] = FromEnd(a, KeyBytes + k) /\ Key2Of(b)[k] = FromEnd(b, KeyBytes + k)
      BY <3>1 DEF Key2Of
    <3> QED BY <3>1, <3>2
  <2> QED BY <2>1, <2>2
<1>2. IdSize \in Nat
  BY IndexAssumption
<1> QED BY <1>1, <1>2, SameFromEnd

\* The first key alone tells the ids of at most KeyBytes bytes.
THEOREM FirstKeyTellsShortIds ==
  ASSUME NEW a \in Plate, NEW b \in Plate, Len(a) <= KeyBytes, Len(b) <= KeyBytes,
         Key1Of(a) = Key1Of(b)
  PROVE  a = b
<1>1. ASSUME NEW n \in 1 .. KeyBytes PROVE FromEnd(a, n) = FromEnd(b, n)
  <2>1. Key1Of(a)[n] = FromEnd(a, n) /\ Key1Of(b)[n] = FromEnd(b, n)
    BY DEF Key1Of
  <2> QED BY <2>1
<1>2. KeyBytes \in Nat
  BY IndexAssumption
<1> QED BY <1>1, <1>2, SameFromEnd

\* The keys of this module are those generate_index() computes, and each id is
\* of at most n bytes.
KeysOfPlates(n) ==
  \A v, w \in Ids : /\ v \in Plate /\ Len(v) <= n
                    /\ Key1[v] = Key1[w] => Key1Of(v) = Key1Of(w)
                    /\ Key2[v] = Key2[w] => Key2Of(v) = Key2Of(w)

\* cache_test: the records of one id are in one file, which one thread reads.
OneThreadForEachId ==
  \A t, u \in Threads : \A i \in DOMAIN Feed[t], j \in DOMAIN Feed[u] :
    Feed[t][i] = Feed[u][j] => t = u

\* Ids of at most SIZE_OF_ID bytes need no more for the cache to be a store of
\* the files of those that are kept.
LEMMA PlatesAreTold ==
  ASSUME KeysOfPlates(IdSize)
  PROVE  KeysTellKept
<1>1. \A v \in Kept : v \in Ids
  BY DEF Kept
<1> QED BY <1>1, KeysTellIds DEF KeysOfPlates, KeysTellKept

\* Licence plates of at most eight bytes, each pushed by one thread, are all kept.
LEMMA ShortPlatesAreKept ==
  ASSUME KeysOfPlates(KeyBytes), OneThreadForEachId
  PROVE  Kept = Ids
<1>1. \A v, w \in Ids : Key1[v] = Key1[w] => v = w
  BY FirstKeyTellsShortIds DEF KeysOfPlates
<1>2. \A t \in Threads : \A i \in DOMAIN Feed[t] : Feed[t][i] \in Ids
  BY CacheAssumption
<1> QED BY <1>1, <1>2 DEF Kept, OneThreadForEachId

\* So what cache.h says of push_back is true for cache_test with such plates, with
\* any number of threads: every record is in the vehicle get_vehicle finds for it.
THEOREM ShortPlatesLoseNothing ==
  ASSUME KeysOfPlates(KeyBytes), OneThreadForEachId
  PROVE  Spec => []AddedToCache
<1>1. Kept = Ids
  BY ShortPlatesAreKept
<1>2. DInv => AddedToCache
  <2> SUFFICES ASSUME DInv, NEW t \in Threads, NEW i \in 1 .. begun[t], Returned(t, i)
               PROVE  InCache(<<t, i>>)
    BY DEF AddedToCache
  <2>1. i \in 1 .. Len(Feed[t]) /\ Feed[t] \in Seq(Ids)
    BY CacheAssumption DEF DInv, IInv, Types
  <2>2. IdOf(<<t, i>>) \in Kept
    BY <1>1, <2>1 DEF IdOf
  <2> QED BY <2>2 DEF DInv, NoSampleLost
<1> QED BY <1>2, KeptInvariance, PTL

-----------------------------------------------------------------------------
(* Natural numbers and recursive functions.                                *)

\* Every set of natural numbers that is not empty has a least element.
LEMMA Least ==
  ASSUME NEW T, T \subseteq Nat, T # {}
  PROVE  \E x \in T : \A y \in T : x <= y
<1> DEFINE R == {ss \in Nat \X Nat : ss[1] < ss[2]}
<1>1. IsWellFoundedOn(R, Nat)
  BY NatLessThanWellFounded DEF OpToRel
<1> HIDE DEF R
<1>2. PICK x \in T : \A y \in T : ~ (<<y, x>> \in R)
  BY <1>1, WFMin, Zenon
<1>3. \A y \in T : x <= y
  <2> SUFFICES ASSUME NEW y \in T, y < x PROVE FALSE
    OBVIOUS
  <2>1. <<y, x>> \in R
    BY DEF R
  <2> QED BY <1>2, <2>1
<1> QED BY <1>3

\* Induction from N down to 1, for a set in place of a predicate.
LEMMA DownFrom ==
  ASSUME NEW N \in Nat, NEW P, N \in P, \A n \in 1 .. (N - 1) : n + 1 \in P => n \in P
  PROVE  1 .. N \subseteq P
<1> DEFINE T == {m \in Nat : m < N /\ N - m \notin P}
<1> SUFFICES ASSUME NEW k \in 1 .. N, k \notin P PROVE FALSE
  OBVIOUS
<1>1. N - k \in T
  <2>1. N - k \in Nat /\ N - k < N /\ N - (N - k) = k
    OBVIOUS
  <2> QED BY <2>1
<1>2. PICK m \in T : \A y \in T : m <= y
  <2> HIDE DEF T
  <2>1. T # {}
    BY <1>1
  <2>2. T \subseteq Nat
    BY DEF T
  <2> QED BY <2>1, <2>2, Least, Zenon
<1>3. m \in Nat /\ m < N /\ N - m \notin P
  OBVIOUS
<1>4. m # 0
  BY <1>3
<1>5. m - 1 \notin T
  BY <1>2, <1>3, <1>4
<1>6. N - (m - 1) \in P
  BY <1>3, <1>4, <1>5
<1>7. N - m \in 1 .. (N - 1) /\ (N - m) + 1 = N - (m - 1)
  BY <1>3, <1>4
<1> QED BY <1>3, <1>6, <1>7

\* A loop from 1 to N as a recursive function: it is c where the loop stops, and elsewhere
\* c and what comes next.
IsLoop(g, N, c, stop, next) ==
  /\ g = [p \in 1 .. N |-> g[p]]
  /\ \A p \in 1 .. N : g[p] = IF p \in stop THEN c[p] ELSE c[p] \o g[next[p]]

\* A loop that only goes forward and stops at N has such a function.
LEMMA LoopExists ==
  ASSUME NEW N \in Nat \ {0}, NEW c, NEW stop, NEW next, N \in stop,
         \A p \in 1 .. N : p \notin stop => next[p] \in (p + 1) .. N
  PROVE  \E g : IsLoop(g, N, c, stop, next)
<1> DEFINE Step(g, p) == IF p \in stop THEN c[p] ELSE c[p] \o g[next[p]]
           Solves(g, k) == g = [p \in k .. N |-> Step(g, p)]
           P == {k \in 1 .. N : \E g : Solves(g, k)}
<1>1. N \in P
  <2> DEFINE g == [p \in N .. N |-> c[p]]
  <2>1. \A p \in N .. N : Step(g, p) = c[p]
    OBVIOUS
  <2> HIDE DEF Step
  <2>2. Solves(g, N)
    BY <2>1
  <2>3. N \in 1 .. N
    OBVIOUS
  <2> HIDE DEF Solves, g
  <2> QED BY <2>2, <2>3
<1>2. ASSUME NEW n \in 1 .. (N - 1), n + 1 \in P PROVE n \in P
  <2>1. PICK g : Solves(g, n + 1)
    <3> HIDE DEF Solves
    <3> QED BY <1>2
  <2> DEFINE h == [p \in n .. N |-> Step(g, p)]
  <2>2. \A p \in (n + 1) .. N : h[p] = g[p]
    <3> HIDE DEF Step
    <3> QED BY <2>1
  <2>3. ASSUME NEW p \in n .. N PROVE Step(h, p) = Step(g, p)
    <3>1. CASE p \in stop
      BY <3>1
    <3>2. CASE p \notin stop
      <4>1. p \in 1 .. N
        OBVIOUS
      <4>2. next[p] \in (p + 1) .. N
        BY <3>2, <4>1
      <4>3. next[p] \in (n + 1) .. N
        BY <4>2
      <4> HIDE DEF h
      <4>4. h[next[p]] = g[next[p]]
        BY <4>3, <2>2
      <4> QED BY <4>4, Zenon
    <3> QED BY <3>1, <3>2
  <2> HIDE DEF Step
  <2>4. Solves(h, n)
    BY <2>3
  <2>5. n \in 1 .. N
    OBVIOUS
  <2> HIDE DEF Solves, h
  <2> QED BY <2>4, <2>5
<1>3. 1 \in P
  <2> HIDE DEF P
  <2>1. 1 .. N \subseteq P
    BY <1>1, <1>2, DownFrom
  <2> QED BY <2>1
<1>4. PICK g : Solves(g, 1)
  <2> HIDE DEF Solves
  <2> QED BY <1>3
<1>5. g = [p \in 1 .. N |-> g[p]] /\ \A p \in 1 .. N : g[p] = Step(g, p)
  <2> HIDE DEF Step
  <2> QED BY <1>4
<1> QED BY <1>5, Zenon DEF IsLoop

-----------------------------------------------------------------------------
(* A row that is written to a line and read again.                         *)

\* The text from each field on.
IsText(from, fields) ==
  /\ from[Len(fields) + 1] = <<>>
  /\ \A n \in 1 .. Len(fields) :
       from[n] = fields[n] \o (IF n < Len(fields) THEN <<Comma>> ELSE <<>>) \o from[n + 1]

\* What is read of a line, from each place on.
IsReading(rest, line, before) ==
  \A posb \in 1 .. (Len(line) + 1) :
    rest[posb] =
      LET pose == FindComma(line, posb)
      IN  IF pose > Len(line) THEN <<SubSeq(line, posb, Len(line))>>
          ELSE <<Field(line, before, posb, pose)>> \o rest[pose + 1]

\* The recursive function by which LineOf is defined exists.
LEMMA LineFacts ==
  ASSUME NEW fields, Len(fields) \in Nat
  PROVE  \E from : LineOf(fields) = from[1] /\ IsText(from, fields)
<1> DEFINE N == Len(fields) + 1
           Step(g, n) == IF n > Len(fields) THEN <<>>
                         ELSE fields[n] \o (IF n < Len(fields) THEN <<Comma>> ELSE <<>>) \o g[n + 1]
           Solves(g) == g = [n \in 1 .. N |-> Step(g, n)]
           from == CHOOSE g : Solves(g)
<1>1. LineOf(fields) = from[1]
  BY DEF LineOf
<1>2. \E g : Solves(g)
  <2> DEFINE c == [n \in 1 .. N |-> IF n > Len(fields) THEN <<>>
                     ELSE fields[n] \o (IF n < Len(fields) THEN <<Comma>> ELSE <<>>)]
             stop == {N}
             next == [n \in 1 .. N |-> n + 1]
             Looped(g, n) == IF n \in stop THEN c[n] ELSE c[n] \o g[next[n]]
  <2>1. PICK g : g = [n \in 1 .. N |-> g[n]] /\ \A n \in 1 .. N : g[n] = Looped(g, n)
    <3>1. N \in Nat \ {0} /\ N \in stop
      OBVIOUS
    <3>2. \A n \in 1 .. N : n \notin stop => next[n] \in (n + 1) .. N
      OBVIOUS
    <3> HIDE DEF c, next, stop, N
    <3>3. \E g : IsLoop(g, N, c, stop, next)
      BY <3>1, <3>2, LoopExists
    <3> QED BY <3>3, Zenon DEF IsLoop
  <2>2. \A n \in 1 .. N : Looped(g, n) = Step(g, n)
    <3> SUFFICES ASSUME NEW n \in 1 .. N PROVE Looped(g, n) = Step(g, n)
      OBVIOUS
    <3>1. c[n] = IF n > Len(fields) THEN <<>>
                 ELSE fields[n] \o (IF n < Len(fields) THEN <<Comma>> ELSE <<>>)
      BY Zenon
    <3>2. next[n] = n + 1
      BY Zenon
    <3>3. n \in stop <=> n > Len(fields)
      OBVIOUS
    <3> HIDE DEF c, next, stop, N
    <3> QED BY <3>1, <3>2, <3>3, Zenon
  <2> HIDE DEF Looped, Step
  <2> QED BY <2>1, <2>2
<1>3. Solves(from)
  <2> HIDE DEF Solves
  <2> QED BY <1>2
<1> HIDE DEF from
<1>4. ASSUME NEW n \in 1 .. N PROVE from[n] = Step(from, n)
  <2> HIDE DEF Step, N
  <2> QED BY <1>3
<1>5. from[N] = <<>>
  <2>1. N \in 1 .. N /\ N > Len(fields)
    OBVIOUS
  <2> QED BY <1>4, <2>1
<1>6. ASSUME NEW n \in 1 .. Len(fields)
      PROVE  from[n] = fields[n] \o (IF n < Len(fields) THEN <<Comma>> ELSE <<>>) \o from[n + 1]
  <2>1. n \in 1 .. N /\ ~(n > Len(fields))
    OBVIOUS
  <2> HIDE DEF N
  <2> QED BY <1>4, <2>1, Zenon
<1>7. IsText(from, fields)
  BY <1>5, <1>6, Zenon DEF IsText
<1> QED BY <1>1, <1>7

\* What find() returns.
LEMMA FindFacts ==
  ASSUME NEW line, Len(line) \in Nat, NEW posb \in Nat
  PROVE  /\ FindComma(line, posb) \in posb .. Len(line) =>
              /\ line[FindComma(line, posb)] = Comma
              /\ \A i \in posb .. Len(line) : line[i] = Comma => FindComma(line, posb) <= i
         /\ FindComma(line, posb) \notin posb .. Len(line) =>
              /\ FindComma(line, posb) = Len(line) + 1
              /\ \A i \in posb .. Len(line) : line[i] # Comma
<1> DEFINE found == {i \in posb .. Len(line) : line[i] = Comma}
           least == CHOOSE i \in found : \A j \in found : i <= j
<1>1. CASE found = {}
  <2>1. FindComma(line, posb) = Len(line) + 1
    BY <1>1 DEF FindComma
  <2> QED BY <1>1, <2>1
<1>2. CASE found # {}
  <2>1. FindComma(line, posb) = least
    BY <1>2, Zenon DEF FindComma
  <2>2. found \subseteq Nat
    OBVIOUS
  <2>3. \E x \in found : \A y \in found : x <= y
    <3> HIDE DEF found
    <3> QED BY <1>2, <2>2, Least
  <2>4. least \in found /\ \A j \in found : least <= j
    <3> HIDE DEF found
    <3> QED BY <2>3, Zenon
  <2> HIDE DEF least
  <2> QED BY <2>1, <2>4
<1> QED BY <1>1, <1>2

\* The recursive function by which ProcessLine is defined exists.
LEMMA RestFacts ==
  ASSUME NEW line, Len(line) \in Nat, NEW before
  PROVE  \E rest : ProcessLine(line, before) = rest[1] /\ IsReading(rest, line, before)
<1> DEFINE N == Len(line) + 1
           Step(g, posb) == LET pose == FindComma(line, posb)
                            IN  IF pose > Len(line) THEN <<SubSeq(line, posb, Len(line))>>
                                ELSE <<Field(line, before, posb, pose)>> \o g[pose + 1]
           Solves(g) == g = [posb \in 1 .. N |-> Step(g, posb)]
           rest == CHOOSE g : Solves(g)
<1>1. ProcessLine(line, before) = rest[1]
  BY DEF ProcessLine
<1>2. \E g : Solves(g)
  <2> DEFINE stop == {p \in 1 .. N : FindComma(line, p) > Len(line)}
             c == [p \in 1 .. N |-> IF p \in stop THEN <<SubSeq(line, p, Len(line))>>
                                    ELSE <<Field(line, before, p, FindComma(line, p))>>]
             next == [p \in 1 .. N |-> FindComma(line, p) + 1]
             Looped(g, p) == IF p \in stop THEN c[p] ELSE c[p] \o g[next[p]]
  <2>1. PICK g : g = [p \in 1 .. N |-> g[p]] /\ \A p \in 1 .. N : g[p] = Looped(g, p)
    <3>1. N \in Nat \ {0}
      OBVIOUS
    <3>2. \A p \in 1 .. N : p \notin stop => next[p] \in (p + 1) .. N
      <4> SUFFICES ASSUME NEW p \in 1 .. N, p \notin stop PROVE next[p] \in (p + 1) .. N
        OBVIOUS
      <4>1. FindComma(line, p) \in p .. Len(line)
        BY FindFacts
      <4> QED BY <4>1
    <3>3. N \in stop
      BY FindFacts
    <3> HIDE DEF c, next, stop, N
    <3>4. \E g : IsLoop(g, N, c, stop, next)
      BY <3>1, <3>2, <3>3, LoopExists
    <3> QED BY <3>4, Zenon DEF IsLoop
  <2>2. \A p \in 1 .. N : Looped(g, p) = Step(g, p)
    <3> SUFFICES ASSUME NEW p \in 1 .. N PROVE Looped(g, p) = Step(g, p)
      OBVIOUS
    <3>1. p \in stop <=> FindComma(line, p) > Len(line)
      BY Zenon
    <3>2. c[p] = IF p \in stop THEN <<SubSeq(line, p, Len(line))>>
                 ELSE <<Field(line, before, p, FindComma(line, p))>>
      BY Zenon
    <3>3. next[p] = FindComma(line, p) + 1
      BY Zenon
    <3> HIDE DEF c, next, stop, N
    <3> QED BY <3>1, <3>2, <3>3, Zenon
  <2> HIDE DEF Looped, Step
  <2> QED BY <2>1, <2>2
<1>3. Solves(rest)
  <2> HIDE DEF Solves
  <2> QED BY <1>2
<1> HIDE DEF rest
<1>4. ASSUME NEW p \in 1 .. N PROVE rest[p] = Step(rest, p)
  <2> HIDE DEF Step, N
  <2> QED BY <1>3
<1>5. IsReading(rest, line, before)
  BY <1>4, Zenon DEF IsReading
<1> QED BY <1>1, <1>5

Chars == Bytes \cup {Comma}

\* Where a text without commas begins in a line and a comma follows, find() finds that comma
\* and, if there are no quotes either, the text is the field.
LEMMA FieldRead ==
  ASSUME NEW line \in Seq(Chars), NEW before, NEW p \in 1 .. Len(line),
         NEW text \in Seq(Bytes),
         \A i \in 1 .. Len(text) : text[i] \notin {Comma, Quote},
         p + Len(text) <= Len(line),
         \A i \in 1 .. Len(text) : line[p - 1 + i] = text[i],
         line[p + Len(text)] = Comma,
         p = 1 => Len(text) # 0,
         p # 1 => line[p - 1] = Comma
  PROVE  /\ FindComma(line, p) = p + Len(text)
         /\ Field(line, before, p, p + Len(text)) = text
<1> DEFINE pose == p + Len(text)
<1>1. Len(text) \in Nat /\ Len(line) \in Nat /\ Comma # Quote /\ pose \in p .. Len(line)
  BY LineAssumption
<1>2. \A i \in p .. (pose - 1) : line[i] \notin {Comma, Quote}
  <2> SUFFICES ASSUME NEW i \in p .. (pose - 1) PROVE line[i] \notin {Comma, Quote}
    OBVIOUS
  <2>1. i - p + 1 \in 1 .. Len(text) /\ p - 1 + (i - p + 1) = i
    BY <1>1
  <2> QED BY <2>1
<1>3. FindComma(line, p) = pose
  <2>1. FindComma(line, p) \in p .. Len(line)
    BY <1>1, FindFacts
  <2>2. line[FindComma(line, p)] = Comma /\ FindComma(line, p) <= pose
    BY <1>1, <2>1, FindFacts
  <2>3. FindComma(line, p) \notin p .. (pose - 1)
    BY <1>2, <2>2
  <2> QED BY <1>1, <2>1, <2>2, <2>3
<1>4. line[p] # Quote
  <2>1. CASE Len(text) = 0
    BY <1>1, <2>1
  <2>2. CASE Len(text) # 0
    BY <1>1, <1>2, <2>2
  <2> QED BY <2>1, <2>2
<1>5. pose # 1 /\ line[pose - 1] # Quote
  <2>1. CASE Len(text) = 0
    BY <1>1, <2>1
  <2>2. CASE Len(text) # 0
    BY <1>1, <1>2, <2>2
  <2> QED BY <2>1, <2>2
<1>6. Field(line, before, p, pose) = SubSeq(line, p, p + (pose - p) - 1)
  <2>1. Length(p, pose, FALSE, FALSE) = pose - p /\ ~(pose - p < 0)
    BY <1>1 DEF Length
  <2>2. (line[p] = Quote) = FALSE /\ (line[pose - 1] = Quote) = FALSE
    BY <1>4, <1>5
  <2> QED BY <1>5, <2>1, <2>2, Zenon DEF Field
<1>7. SubSeq(line, p, p + (pose - p) - 1) = text
  <2>1. p + (pose - p) - 1 = p + Len(text) - 1
    BY <1>1
  <2>2. \A i \in 1 .. Len(text) : SubSeq(line, p, p + Len(text) - 1)[i] = text[i]
    BY <1>1
  <2>3. SubSeq(line, p, p + Len(text) - 1) \in Seq(Chars) /\ Len(SubSeq(line, p, p + Len(text) - 1)) = Len(text)
    BY <1>1
  <2> QED BY <2>1, <2>2, <2>3
<1> QED BY <1>3, <1>6, <1>7

\* A sequence of one element.
LEMMA OneElement ==
  ASSUME NEW S, NEW s \in Seq(S), Len(s) = 1
  PROVE  s = <<s[1]>>
<1>1. s[1] \in S /\ <<s[1]>> \in Seq(S) /\ Len(<<s[1]>>) = 1 /\ <<s[1]>>[1] = s[1]
  OBVIOUS
<1> QED BY <1>1

\* Three sequences that are joined.
LEMMA JoinFacts ==
  ASSUME NEW S, NEW a \in Seq(S), NEW b \in Seq(S), NEW c \in Seq(S)
  PROVE  /\ a \o b \o c \in Seq(S)
         /\ Len(a \o b \o c) = Len(a) + Len(b) + Len(c)
         /\ \A i \in 1 .. Len(a) : (a \o b \o c)[i] = a[i]
         /\ \A i \in 1 .. Len(b) : (a \o b \o c)[Len(a) + i] = b[i]
         /\ \A i \in 1 .. Len(c) : (a \o b \o c)[Len(a) + Len(b) + i] = c[i]
<1>1. a \o b \in Seq(S) /\ Len(a \o b) = Len(a) + Len(b)
  OBVIOUS
<1>2. /\ \A i \in 1 .. Len(a) : (a \o b)[i] = a[i]
      /\ \A i \in 1 .. Len(b) : (a \o b)[Len(a) + i] = b[i]
  OBVIOUS
<1> DEFINE ab == a \o b
<1>3. /\ ab \o c \in Seq(S) /\ Len(ab \o c) = Len(ab) + Len(c)
      /\ \A i \in 1 .. Len(ab) : (ab \o c)[i] = ab[i]
      /\ \A i \in 1 .. Len(c) : (ab \o c)[Len(ab) + i] = c[i]
  <2> HIDE DEF ab
  <2>1. ab \in Seq(S)
    BY <1>1 DEF ab
  <2> QED BY <2>1
<1>4. /\ \A i \in 1 .. Len(a) : i \in 1 .. Len(ab)
      /\ \A i \in 1 .. Len(b) : Len(a) + i \in 1 .. Len(ab)
  BY <1>1
<1> QED BY <1>1, <1>2, <1>3, <1>4

\* The text from each field on, and where that field and the next begin in it.
LEMMA TextFacts ==
  ASSUME NEW fields \in Seq(Seq(Bytes)), NEW from, IsText(from, fields)
  PROVE  /\ \A n \in 1 .. (Len(fields) + 1) : from[n] \in Seq(Chars)
         /\ \A n \in 1 .. Len(fields) :
              \A i \in 1 .. Len(fields[n]) : from[n][i] = fields[n][i]
         /\ Len(fields) > 0 => from[Len(fields)] = fields[Len(fields)]
<1> DEFINE N == Len(fields) + 1
           P == {n \in 1 .. N : from[n] \in Seq(Chars)}
           link(n) == IF n < Len(fields) THEN <<Comma>> ELSE <<>>
<1>1. /\ from[N] = <<>>
      /\ \A n \in 1 .. Len(fields) : from[n] = fields[n] \o link(n) \o from[n + 1]
  BY Zenon DEF IsText
<1>2. Len(fields) \in Nat /\ Bytes \subseteq Chars /\ Comma \in Chars
  BY DEF Chars
<1>3. \A n \in 1 .. Len(fields) : fields[n] \in Seq(Bytes) /\ fields[n] \in Seq(Chars)
  BY <1>2
<1>4. \A n \in 1 .. Len(fields) : link(n) \in Seq(Chars)
  BY <1>2
<1>5. N \in P
  <2>1. N \in 1 .. N
    BY <1>2
  <2>2. from[N] \in Seq(Chars)
    <3> HIDE DEF N
    <3> QED BY <1>1
  <2> QED BY <2>1, <2>2
<1>6. ASSUME NEW n \in 1 .. (N - 1), n + 1 \in P PROVE n \in P
  <2>1. n \in 1 .. Len(fields) /\ n \in 1 .. N
    BY <1>2
  <2>2. from[n] = fields[n] \o link(n) \o from[n + 1]
    BY <1>1, <2>1, Zenon
  <2>3. fields[n] \in Seq(Chars) /\ link(n) \in Seq(Chars) /\ from[n + 1] \in Seq(Chars)
    BY <1>3, <1>4, <1>6, <2>1
  <2> HIDE DEF link
  <2>4. from[n] \in Seq(Chars)
    BY <2>2, <2>3, JoinFacts
  <2> QED BY <2>1, <2>4
<1>7. \A n \in 1 .. N : from[n] \in Seq(Chars)
  <2>1. N \in Nat
    BY <1>2
  <2> HIDE DEF N, P
  <2>2. 1 .. N \subseteq P
    BY <1>5, <1>6, <2>1, DownFrom
  <2> QED BY <2>2 DEF P
<1>8. ASSUME NEW n \in 1 .. Len(fields), NEW i \in 1 .. Len(fields[n])
      PROVE  from[n][i] = fields[n][i]
  <2>1. n + 1 \in 1 .. N
    BY <1>2
  <2>2. link(n) \in Seq(Chars) /\ fields[n] \in Seq(Chars) /\ from[n + 1] \in Seq(Chars)
    BY <1>3, <1>4, <1>7, <2>1
  <2>3. from[n] = fields[n] \o link(n) \o from[n + 1]
    BY <1>1, Zenon
  <2> DEFINE a == fields[n]
             b == link(n)
             c == from[n + 1]
  <2>4. a \in Seq(Chars) /\ b \in Seq(Chars) /\ c \in Seq(Chars) /\ i \in 1 .. Len(a)
    BY <2>2
  <2>5. (a \o b \o c)[i] = a[i]
    <3> HIDE DEF a, b, c
    <3> QED BY <2>4, JoinFacts
  <2> HIDE DEF link
  <2> QED BY <2>3, <2>5, Zenon
<1>9. Len(fields) > 0 => from[Len(fields)] = fields[Len(fields)]
  <2> HAVE Len(fields) > 0
  <2>1. Len(fields) \in 1 .. Len(fields) /\ ~(Len(fields) < Len(fields))
    BY <1>2
  <2>2. from[Len(fields)] = fields[Len(fields)] \o <<>> \o <<>>
    BY <1>1, <2>1, Zenon
  <2>3. fields[Len(fields)] \in Seq(Bytes)
    BY <1>3, <2>1
  <2> QED BY <2>2, <2>3
<1> QED BY <1>7, <1>8, <1>9

\* Where in a line the parts of a text lie that is a field, a comma and what follows.
LEMMA PartsInLine ==
  ASSUME NEW line \in Seq(Chars), NEW p \in 1 .. (Len(line) + 1),
         NEW text \in Seq(Bytes), NEW all \in Seq(Chars), NEW tail \in Seq(Chars),
         all = text \o <<Comma>> \o tail,
         p - 1 + Len(all) = Len(line),
         \A i \in 1 .. Len(all) : line[p - 1 + i] = all[i]
  PROVE  /\ p \in 1 .. Len(line) /\ p + Len(text) \in 1 .. Len(line)
         /\ \A i \in 1 .. Len(text) : line[p - 1 + i] = text[i]
         /\ line[p + Len(text)] = Comma
         /\ (p + Len(text) + 1) - 1 + Len(tail) = Len(line)
         /\ \A i \in 1 .. Len(tail) : line[(p + Len(text) + 1) - 1 + i] = tail[i]
<1>1. /\ Len(all) = Len(text) + 1 + Len(tail)
      /\ all[Len(text) + 1] = Comma
      /\ \A i \in 1 .. Len(text) : all[i] = text[i]
      /\ \A i \in 1 .. Len(tail) : all[Len(text) + 1 + i] = tail[i]
  <2> DEFINE b == <<Comma>>
  <2>1. text \in Seq(Chars) /\ b \in Seq(Chars) /\ tail \in Seq(Chars)
    BY DEF Chars
  <2>2. Len(text) \in Nat /\ Len(b) = 1 /\ b[1] = Comma
    OBVIOUS
  <2>3. all = text \o b \o tail
    OBVIOUS
  <2> HIDE DEF b
  <2>4. Len(text \o b \o tail) = Len(text) + Len(b) + Len(tail)
    BY <2>1, JoinFacts
  <2>5. \A i \in 1 .. Len(text) : (text \o b \o tail)[i] = text[i]
    BY <2>1, JoinFacts
  <2>6. \A i \in 1 .. Len(b) : (text \o b \o tail)[Len(text) + i] = b[i]
    BY <2>1, JoinFacts
  <2>7. \A i \in 1 .. Len(tail) : (text \o b \o tail)[Len(text) + Len(b) + i] = tail[i]
    BY <2>1, JoinFacts
  <2>8. (text \o b \o tail)[Len(text) + 1] = Comma
    <3>1. 1 \in 1 .. Len(b)
      BY <2>2
    <3>2. (text \o b \o tail)[Len(text) + 1] = b[1]
      BY <2>6, <3>1
    <3> QED BY <2>2, <3>2
  <2> QED BY <2>2, <2>3, <2>4, <2>5, <2>7, <2>8
<1>2. Len(line) \in Nat /\ Len(text) \in Nat /\ Len(all) \in Nat /\ Len(tail) \in Nat
  OBVIOUS
<1>3. p \in Nat \ {0}
  BY <1>2
<1>4. /\ p \in 1 .. Len(line) /\ p + Len(text) \in 1 .. Len(line)
      /\ (p + Len(text) + 1) - 1 + Len(tail) = Len(line)
  BY <1>1, <1>2, <1>3
<1>5. /\ \A i \in 1 .. Len(text) : i \in 1 .. Len(all)
      /\ Len(text) + 1 \in 1 .. Len(all) /\ p - 1 + (Len(text) + 1) = p + Len(text)
  BY <1>1, <1>2, <1>3
<1>6. \A i \in 1 .. Len(text) : line[p - 1 + i] = text[i]
  BY <1>1, <1>5
<1>7. line[p + Len(text)] = Comma
  BY <1>1, <1>5
<1>8. ASSUME NEW i \in 1 .. Len(tail) PROVE line[(p + Len(text) + 1) - 1 + i] = tail[i]
  <2>1. /\ Len(text) + 1 + i \in 1 .. Len(all)
        /\ p - 1 + (Len(text) + 1 + i) = (p + Len(text) + 1) - 1 + i
    BY <1>1, <1>2, <1>3
  <2> QED BY <1>1, <2>1
<1> QED BY <1>4, <1>6, <1>7, <1>8

\* A row without commas and quotes comes back from its line as it was, whatever lies in memory
\* before the line.
THEOREM PlainRowsComeBack ==
  ASSUME NEW row \in Seq(Seq(Bytes)), Len(row) > 0, Plain(row), NEW before
  PROVE  ProcessLine(LineOf(row), before) = row
<1> DEFINE N == Len(row)
           line == LineOf(row)
<1>1. N \in Nat /\ N \in 1 .. N /\ DOMAIN row = 1 .. N
  OBVIOUS
<1>2. PICK from : line = from[1] /\ IsText(from, row)
  BY <1>1, LineFacts
<1>3. /\ \A n \in 1 .. (N + 1) : from[n] \in Seq(Chars)
      /\ \A n \in 1 .. N : \A i \in 1 .. Len(row[n]) : from[n][i] = row[n][i]
      /\ from[N] = row[N]
  <2> HIDE DEF line
  <2> QED BY <1>2, TextFacts
<1>4. line \in Seq(Chars) /\ Len(line) \in Nat
  <2> HIDE DEF line
  <2> QED BY <1>1, <1>2, <1>3
<1> HIDE DEF line
<1>5. PICK rest : ProcessLine(line, before) = rest[1] /\ IsReading(rest, line, before)
  BY <1>4, RestFacts
<1>6. \A n \in 1 .. N : row[n] \in Seq(Bytes) /\ Len(row[n]) \in Nat
                        /\ \A i \in 1 .. Len(row[n]) : row[n][i] \notin {Comma, Quote}
  BY <1>1 DEF Plain
<1>7. Len(row[1]) # 0
  BY <1>1, <1>6 DEF Plain
<1> DEFINE \* the n-th field begins at p
           Begins(n, p) ==
             /\ p - 1 + Len(from[n]) = Len(line)
             /\ \A i \in 1 .. Len(from[n]) : line[p - 1 + i] = from[n][i]
             /\ p = 1 => n = 1
             /\ p # 1 => line[p - 1] = Comma
           P == {n \in 1 .. N : \A p \in 1 .. (Len(line) + 1) :
                                  Begins(n, p) => rest[p] = SubSeq(row, n, N)}
<1>8. N \in P
  <2> SUFFICES ASSUME NEW p \in 1 .. (Len(line) + 1), Begins(N, p)
               PROVE  rest[p] = SubSeq(row, N, N)
    BY <1>1
  <2>1. /\ Len(row[N]) \in Nat /\ p - 1 + Len(row[N]) = Len(line)
        /\ \A i \in 1 .. Len(row[N]) : line[p - 1 + i] = row[N][i]
    BY <1>1, <1>3, <1>6
  <2> HIDE DEF Begins
  <2>2. \A i \in p .. Len(line) : line[i] # Comma
    <3> SUFFICES ASSUME NEW i \in p .. Len(line) PROVE line[i] # Comma
      OBVIOUS
    <3>1. i - p + 1 \in 1 .. Len(row[N]) /\ p - 1 + (i - p + 1) = i
      BY <1>4, <2>1
    <3> QED BY <1>1, <1>6, <2>1, <3>1
  <2>3. FindComma(line, p) > Len(line)
    <3>1. p \in Nat
      BY <1>4
    <3>2. FindComma(line, p) \notin p .. Len(line)
      BY <1>4, <2>2, <3>1, FindFacts
    <3> QED BY <1>4, <3>1, <3>2, FindFacts
  <2>4. rest[p] = <<SubSeq(line, p, Len(line))>>
    BY <1>5, <2>3, Zenon DEF IsReading
  <2>5. SubSeq(line, p, Len(line)) = row[N]
    <3>1. SubSeq(line, p, Len(line)) \in Seq(Chars) /\ Len(SubSeq(line, p, Len(line))) = Len(row[N])
      BY <1>4, <2>1
    <3>2. \A i \in 1 .. Len(row[N]) : SubSeq(line, p, Len(line))[i] = row[N][i]
      BY <1>4, <2>1
    <3>3. row[N] \in Seq(Bytes)
      BY <1>1, <1>6
    <3> HIDE DEF N
    <3> QED BY <2>1, <3>1, <3>2, <3>3
  <2>6. SubSeq(row, N, N) = <<row[N]>>
    <3>1. Len(SubSeq(row, N, N)) = 1 /\ SubSeq(row, N, N)[1] = row[N]
      BY <1>1
    <3>2. SubSeq(row, N, N) \in Seq(Seq(Bytes)) /\ row[N] \in Seq(Bytes)
      BY <1>1
    <3> HIDE DEF N
    <3> QED BY <3>1, <3>2, OneElement
  <2> QED BY <2>4, <2>5, <2>6
<1>9. ASSUME NEW n \in 1 .. (N - 1), n + 1 \in P PROVE n \in P
  <2>1. /\ n \in 1 .. N /\ n + 1 \in 1 .. N
        /\ Len(from[n]) \in Nat /\ Len(from[n + 1]) \in Nat
    BY <1>1, <1>3
  <2> SUFFICES ASSUME NEW p \in 1 .. (Len(line) + 1), Begins(n, p)
               PROVE  rest[p] = SubSeq(row, n, N)
    BY <2>1
  <2> DEFINE text == row[n]
             all == from[n]
             tail == from[n + 1]
             pose == p + Len(text)
  <2>2. text \in Seq(Bytes) /\ Len(text) \in Nat /\ \A i \in 1 .. Len(text) : text[i] \notin {Comma, Quote}
    BY <1>6, <2>1
  <2>3. all = text \o <<Comma>> \o tail
    <3>1. n < N
      BY <1>1
    <3> QED BY <1>2, <2>1, <3>1, Zenon DEF IsText
  <2>4. /\ p - 1 + Len(all) = Len(line)
        /\ \A i \in 1 .. Len(all) : line[p - 1 + i] = all[i]
        /\ p = 1 => n = 1
        /\ p # 1 => line[p - 1] = Comma
    OBVIOUS
  <2>5. /\ all \in Seq(Chars) /\ tail \in Seq(Chars)
    BY <1>3, <2>1
  <2> HIDE DEF Begins, P
  <2>6. /\ p \in 1 .. Len(line) /\ pose \in 1 .. Len(line)
        /\ \A i \in 1 .. Len(text) : line[p - 1 + i] = text[i]
        /\ line[pose] = Comma
        /\ (pose + 1) - 1 + Len(tail) = Len(line)
        /\ \A i \in 1 .. Len(tail) : line[(pose + 1) - 1 + i] = tail[i]
    <3> HIDE DEF text, all, tail
    <3>1. line \in Seq(Chars) /\ p \in 1 .. (Len(line) + 1) /\ text \in Seq(Bytes)
      BY <1>4, <2>2
    <3> QED BY <2>3, <2>4, <2>5, <3>1, PartsInLine, Zenon
  <2>7. p = 1 => Len(text) # 0
    BY <1>7, <2>4
  <2>8. p # 1 => line[p - 1] = Comma
    BY <2>4
  <2>9. FindComma(line, p) = pose /\ Field(line, before, p, pose) = text
    <3>1. pose <= Len(line)
      BY <2>6
    <3> HIDE DEF text
    <3> QED BY <1>4, <2>2, <2>6, <2>7, <2>8, <3>1, FieldRead
  <2>10. Begins(n + 1, pose + 1)
    <3>1. pose + 1 # 1 /\ (pose + 1) - 1 = pose
      BY <2>6
    <3> HIDE DEF pose
    <3> QED BY <2>6, <3>1 DEF Begins
  <2>11. pose + 1 \in 1 .. (Len(line) + 1) /\ ~(pose > Len(line))
    BY <1>4, <2>6
  <2> HIDE DEF pose
  <2>12. rest[pose + 1] = SubSeq(row, n + 1, N)
    BY <1>9, <2>10, <2>11 DEF P
  <2>13. rest[p] = <<text>> \o SubSeq(row, n + 1, N)
    BY <1>5, <2>9, <2>11, <2>12, Zenon DEF IsReading
  <2>14. <<row[n]>> \o SubSeq(row, n + 1, N) = SubSeq(row, n, N)
    BY <1>1, <2>1
  <2> QED BY <2>13, <2>14
<1>10. 1 \in P
  <2> HIDE DEF P
  <2>1. 1 .. N \subseteq P
    BY <1>1, <1>8, <1>9, DownFrom
  <2> QED BY <1>1, <2>1
<1>11. Begins(1, 1)
  BY <1>2, <1>4
<1>12. rest[1] = SubSeq(row, 1, N)
  <2>1. 1 \in 1 .. (Len(line) + 1)
    BY <1>4
  <2> HIDE DEF Begins
  <2> QED BY <1>10, <1>11, <2>1
<1>13. SubSeq(row, 1, N) = row
  BY <1>1
<1> QED BY <1>5, <1>12, <1>13 DEF line

-----------------------------------------------------------------------------
(* What becomes of a record on its way into the cache.                     *)

\* What VehicleData(fields) makes of a row.
LEMMA FieldsFacts ==
  ASSUME NEW row \in Rows, NEW vd \in FromFields(row)
  PROVE  /\ vd.id = row[1]
         /\ vd.when \in Seq(Bytes) /\ Len(vd.when) = 2
         /\ vd.bits \in Seq(Bytes) /\ Len(vd.bits) = NumBits
         /\ Len(row) > 2 => vd.bits[1] = Flag(row[3])
         /\ Whole(row) /\ ~bigEndian => SaysWhat(vd, row)
<1> DEFINE given == Len(row) - 2
           flag(i) == Flag(row[i + 2])
           behind(k) == NumBits + Padding + k
           when == [k \in 1 .. 2 |-> IF behind(k) <= given THEN flag(behind(k)) ELSE Number(row[2])[k]]
<1>1. PICK b \in [1 .. NumBits -> Junk \cup {NUL, SOH}] :
        /\ \A i \in 1 .. NumBits : i <= given => b[i] = flag(i)
        /\ vd = [id |-> row[1], when |-> when, bits |-> b]
  BY Zenon DEF FromFields
<1>2. /\ NUL \in Bytes /\ SOH \in Bytes /\ Junk \subseteq Bytes
      /\ NumBits \in Nat \ {0} /\ Padding \in Nat
      /\ row \in Seq(Seq(Bytes)) /\ Len(row) \in Nat /\ Len(row) >= 2
  BY IndexAssumption, RecordAssumption
<1>3. vd.id = row[1] /\ vd.when = when /\ vd.bits = b
  <2> HIDE DEF when
  <2> QED BY <1>1
<1>4. b \in Seq(Bytes) /\ Len(b) = NumBits
  <2>1. b = [i \in 1 .. NumBits |-> b[i]] /\ \A i \in 1 .. NumBits : b[i] \in Bytes
    BY <1>2
  <2>2. NumBits \in Nat
    BY <1>2
  <2> QED BY <2>1, <2>2
<1>5. when \in Seq(Bytes) /\ Len(when) = 2
  <2>1. \A f : Flag(f) \in Bytes
    BY <1>2 DEF Flag
  <2>2. \A k \in 1 .. 2 : Number(row[2])[k] \in Bytes
    <3>1. row[2] \in Seq(Bytes)
      BY <1>2
    <3>2. row[2] # <<>> => row[2][1] \in Bytes
      BY <3>1
    <3> QED BY <1>2, <3>2 DEF Number
  <2>3. \A k \in 1 .. 2 : when[k] \in Bytes
    BY <2>1, <2>2
  <2> QED BY <2>3
<1>6. Len(row) > 2 => b[1] = Flag(row[3])
  BY <1>1, <1>2
<1>7. ASSUME Whole(row), ~bigEndian PROVE SaysWhat(vd, row)
  <2>1. given = NumBits /\ row[2] # <<>>
    BY <1>2, <1>7 DEF Whole
  <2>2. \A k \in 1 .. 2 : ~(behind(k) <= given)
    BY <1>2, <2>1
  <2>3. Number(row[2]) = <<row[2][1], NUL>>
    BY <1>7, <2>1 DEF Number
  <2>4. when = <<row[2][1], NUL>>
    BY <2>2, <2>3
  <2>5. b = [i \in 1 .. NumBits |-> Flag(row[i + 2])]
    BY <1>1, <2>1
  <2> HIDE DEF when
  <2> QED BY <1>3, <2>4, <2>5 DEF SaysWhat
<1> HIDE DEF when
<1> QED BY <1>3, <1>4, <1>5, <1>6, <1>7

\* The string that begins in memory where a text does that a zero follows is that text.
LEMMA StringInMemory ==
  ASSUME NEW S, NEW bytes \in Seq(S), NEW m \in Nat, m + 1 <= Len(bytes),
         bytes[m + 1] = NUL, \A i \in 1 .. m : bytes[i] # NUL
  PROVE  CString(bytes) = SubSeq(bytes, 1, m)
<1> DEFINE Ends(n) == bytes[n] = NUL /\ \A k \in 1 .. (n - 1) : bytes[k] # NUL
           end == CHOOSE n \in DOMAIN bytes : Ends(n)
<1>1. m + 1 \in DOMAIN bytes /\ DOMAIN bytes \subseteq Nat \ {0}
  OBVIOUS
<1>2. Ends(m + 1)
  OBVIOUS
<1>3. end \in DOMAIN bytes /\ Ends(end)
  <2> HIDE DEF Ends
  <2> QED BY <1>1, <1>2
<1>4. CString(bytes) = SubSeq(bytes, 1, end - 1)
  BY DEF CString
<1> HIDE DEF end
<1>5. end = m + 1
  <2>1. ~(end < m + 1)
    BY <1>1, <1>3
  <2>2. ~(end > m + 1)
    BY <1>1, <1>3
  <2> QED BY <1>1, <1>3, <2>1, <2>2
<1> QED BY <1>4, <1>5

\* What is left of an id in a place of SIZE_OF_ID bytes.
Cut(id) == IF Len(id) < IdSize THEN id ELSE SubSeq(id, 1, IdSize)

\* What a message makes of the package of a record: the record, but for the id, which loses
\* what has no room, and must be short or followed by a status that is off.
THEOREM MessageKeepsRecord ==
  ASSUME NEW vd, vd.id \in Plate,
         vd.when \in Seq(Bytes), Len(vd.when) = 2, vd.bits \in Seq(Bytes), Len(vd.bits) = NumBits,
         Len(vd.id) < IdSize \/ vd.bits[1] = NUL,
         NEW got \in FromMessage(MakePackage(vd))
  PROVE  got.id = Cut(vd.id) /\ got.when = vd.when /\ got.bits = vd.bits
<1> DEFINE id == vd.id
           when == vd.when
           bits == vd.bits
           pad == PaddedId(vd.id)
           package == when \o pad \o bits
           rest == SubSeq(package, 3, Len(package))
           m == IF Len(id) < IdSize THEN Len(id) ELSE IdSize
<1>1. /\ id \in Seq(Bytes) /\ Len(id) \in Nat /\ \A i \in 1 .. Len(id) : id[i] # NUL
      /\ when \in Seq(Bytes) /\ Len(when) = 2 /\ bits \in Seq(Bytes) /\ Len(bits) = NumBits
      /\ Len(id) < IdSize \/ bits[1] = NUL
      /\ IdSize \in Nat /\ NumBits \in Nat \ {0} /\ NUL \in Bytes /\ Junk \subseteq Bytes
  BY IndexAssumption, RecordAssumption DEF Plate
<1>2. /\ pad \in Seq(Bytes) /\ Len(pad) = IdSize
      /\ \A i \in 1 .. IdSize : pad[i] = IF i <= Len(id) THEN id[i] ELSE NUL
  <2>1. pad = [i \in 1 .. IdSize |-> IF i <= Len(id) THEN id[i] ELSE NUL]
    BY DEF PaddedId
  <2>2. \A i \in 1 .. IdSize : (IF i <= Len(id) THEN id[i] ELSE NUL) \in Bytes
    BY <1>1
  <2> HIDE DEF pad, id
  <2> QED BY <1>1, <2>1, <2>2
<1>3. PICK behind \in {<<>>} \cup {<<j>> : j \in Junk} :
        got = [id |-> CString(rest \o behind \o <<NUL>>), when |-> SubSeq(package, 1, 2),
               bits |-> SubSeq(rest, IdSize + 1, Len(rest))]
  BY Zenon DEF FromMessage, MakePackage
<1> HIDE DEF id, when, bits, pad
<1>4. /\ package \in Seq(Bytes) /\ Len(package) = 2 + IdSize + NumBits
      /\ \A i \in 1 .. 2 : package[i] = when[i]
      /\ \A i \in 1 .. IdSize : package[2 + i] = pad[i]
      /\ \A i \in 1 .. NumBits : package[2 + IdSize + i] = bits[i]
  <2>1. when \in Seq(Bytes) /\ pad \in Seq(Bytes) /\ bits \in Seq(Bytes)
    BY <1>1, <1>2
  <2>2. package \in Seq(Bytes) /\ Len(package) = Len(when) + Len(pad) + Len(bits)
    BY <2>1, JoinFacts
  <2>3. \A i \in 1 .. Len(when) : package[i] = when[i]
    BY <2>1, JoinFacts
  <2>4. \A i \in 1 .. Len(pad) : package[Len(when) + i] = pad[i]
    BY <2>1, JoinFacts
  <2>5. \A i \in 1 .. Len(bits) : package[Len(when) + Len(pad) + i] = bits[i]
    BY <2>1, JoinFacts
  <2> HIDE DEF package
  <2> QED BY <1>1, <1>2, <2>2, <2>3, <2>4, <2>5
<1> HIDE DEF package
<1>5. /\ rest \in Seq(Bytes) /\ Len(rest) = IdSize + NumBits
      /\ \A i \in 1 .. (IdSize + NumBits) : rest[i] = package[2 + i]
  BY <1>1, <1>4
<1> HIDE DEF rest
<1>6. /\ \A i \in 1 .. IdSize : rest[i] = pad[i]
      /\ \A i \in 1 .. NumBits : rest[IdSize + i] = bits[i]
  BY <1>1, <1>4, <1>5
<1>7. SubSeq(package, 1, 2) = when
  BY <1>1, <1>4
<1>8. SubSeq(rest, IdSize + 1, Len(rest)) = bits
  <2> DEFINE copy == SubSeq(rest, IdSize + 1, Len(rest))
  <2>1. copy \in Seq(Bytes) /\ Len(copy) = NumBits /\ \A i \in 1 .. NumBits : copy[i] = rest[IdSize + i]
    BY <1>1, <1>5
  <2>2. copy = bits
    <3> HIDE DEF copy
    <3>1. bits \in Seq(Bytes) /\ Len(bits) = NumBits /\ \A i \in 1 .. NumBits : copy[i] = bits[i]
      BY <1>1, <1>6, <2>1
    <3> QED BY <2>1, <3>1
  <2> QED BY <2>2
<1> DEFINE bytes == rest \o behind \o <<NUL>>
<1>9. bytes \in Seq(Bytes) /\ Len(bytes) >= Len(rest) /\ \A i \in 1 .. Len(rest) : bytes[i] = rest[i]
  <2> DEFINE zero == <<NUL>>
  <2>1. behind \in Seq(Bytes) /\ zero \in Seq(Bytes)
    <3>1. CASE behind = <<>>
      BY <1>1, <3>1
    <3>2. CASE behind \in {<<j>> : j \in Junk}
      <4>1. PICK j \in Junk : behind = <<j>>
        BY <3>2
      <4>2. j \in Bytes
        BY <1>1
      <4> QED BY <1>1, <4>1, <4>2
    <3> QED BY <1>3, <3>1, <3>2
  <2>2. Len(behind) \in Nat /\ Len(zero) \in Nat /\ Len(rest) \in Nat
    BY <1>5, <2>1
  <2> HIDE DEF zero
  <2> QED BY <1>5, <2>1, <2>2, JoinFacts DEF zero
<1> HIDE DEF bytes
<1>10. /\ m \in Nat /\ m + 1 <= Len(bytes)
       /\ \A i \in 1 .. m : bytes[i] = id[i] /\ bytes[i] # NUL
       /\ bytes[m + 1] = NUL
  <2>1. /\ m \in Nat /\ m <= IdSize /\ m <= Len(id) /\ m + 1 <= Len(rest) /\ m + 1 <= Len(bytes)
    BY <1>1, <1>5, <1>9
  <2>2. \A i \in 1 .. m : bytes[i] = id[i] /\ bytes[i] # NUL
    BY <1>1, <1>2, <1>5, <1>6, <1>9, <2>1
  <2>3. CASE Len(id) < IdSize
    <3>1. m = Len(id) /\ m + 1 \in 1 .. IdSize /\ m + 1 \in 1 .. Len(rest) /\ ~(m + 1 <= Len(id))
      BY <1>1, <1>5, <2>3
    <3> QED BY <1>2, <1>6, <1>9, <2>1, <2>2, <3>1
  <2>4. CASE ~(Len(id) < IdSize)
    <3>1. m = IdSize /\ bits[1] = NUL /\ m + 1 \in 1 .. Len(rest) /\ 1 \in 1 .. NumBits
      BY <1>1, <1>5, <2>4
    <3> QED BY <1>6, <1>9, <2>1, <2>2, <3>1
  <2> QED BY <2>3, <2>4
<1>11. CString(bytes) = SubSeq(id, 1, m)
  <2>1. CString(bytes) = SubSeq(bytes, 1, m)
    <3> HIDE DEF m
    <3> QED BY <1>9, <1>10, StringInMemory
  <2>2. SubSeq(bytes, 1, m) = SubSeq(id, 1, m)
    <3>1. m <= Len(id)
      BY <1>1
    <3> HIDE DEF m
    <3> QED BY <1>1, <1>9, <1>10, <3>1
  <2> QED BY <2>1, <2>2
<1>12. SubSeq(id, 1, m) = Cut(id)
  BY <1>1 DEF Cut
<1> QED BY <1>3, <1>7, <1>8, <1>11, <1>12 DEF bytes, id, when, bits

\* A name is a plate.
LEMMA NameType ==
  ASSUME NEW row \in Rows
  PROVE  Name(row) \in Plate /\ (path # "cache" => Name(row) = Cut(row[1]))
<1>1. row \in Seq(Seq(Bytes \ {NUL})) /\ Len(row) >= 2 /\ IdSize \in Nat
  BY IndexAssumption, RecordAssumption
<1>2. row[1] \in Seq(Bytes \ {NUL}) /\ Len(row[1]) \in Nat
  BY <1>1
<1>3. ~(Len(row[1]) < IdSize) => SubSeq(row[1], 1, IdSize) \in Seq(Bytes \ {NUL})
  BY <1>1, <1>2
<1>4. path # "cache" => Name(row) = Cut(row[1])
  BY DEF Name, Cut
<1>5. Name(row) = row[1] \/ (~(Len(row[1]) < IdSize) /\ Name(row) = SubSeq(row[1], 1, IdSize))
  BY DEF Name
<1> QED BY <1>2, <1>3, <1>4, <1>5 DEF Plate

\* A record that the keys can tell arrives under the name and with what its row said.
LEMMA ArrivesAs ==
  ASSUME path \in {"cache", "node"}, NEW row \in Rows, Told(row), NEW vd \in Arriving(row)
  PROVE  vd.id = Name(row) /\ SaysWhat(vd, row)
<1>1. /\ Plain(row) /\ row \in Seq(Seq(Bytes)) /\ Len(row) \in Nat /\ Len(row) >= 2
      /\ row[1] \in Plate /\ IdSize \in Nat /\ SOH # NUL
  BY IndexAssumption, RecordAssumption DEF Told, Plate
<1> DEFINE read == UNION {FromFields(ProcessLine(LineOf(row), before)) : before \in {Quote, NUL}}
<1>2. read = FromFields(row)
  <2>1. Len(row) > 0
    BY <1>1
  <2>2. \A before : ProcessLine(LineOf(row), before) = row
    BY <1>1, <2>1, PlainRowsComeBack, Zenon
  <2> QED BY <2>2
<1>3. CASE path = "cache"
  <2>1. vd \in FromFields(row)
    BY <1>2, <1>3 DEF Arriving
  <2>2. vd.id = row[1]
    BY <2>1, FieldsFacts
  <2>3. Whole(row) /\ ~bigEndian => SaysWhat(vd, row)
    BY <2>1, FieldsFacts
  <2>4. SaysWhat(vd, row)
    BY <2>3 DEF SaysWhat
  <2>5. Name(row) = row[1]
    BY <1>3 DEF Name
  <2> QED BY <2>2, <2>4, <2>5
<1>4. CASE path = "node"
  <2>1. PICK sent \in FromFields(row) : vd \in FromMessage(MakePackage(sent))
    <3>1. vd \in UNION {FromMessage(MakePackage(sent)) : sent \in read}
      BY <1>4 DEF Arriving
    <3> HIDE DEF read
    <3> QED BY <1>2, <3>1
  <2>2. /\ sent.id = row[1]
        /\ sent.when \in Seq(Bytes) /\ Len(sent.when) = 2
        /\ sent.bits \in Seq(Bytes) /\ Len(sent.bits) = NumBits
        /\ Len(row) > 2 => sent.bits[1] = Flag(row[3])
        /\ Whole(row) /\ ~bigEndian => SaysWhat(sent, row)
    BY FieldsFacts, Zenon
  <2>3. Name(row) = Cut(row[1])
    BY <1>4, NameType
  <2>4. Len(row[1]) < IdSize \/ sent.bits[1] = NUL
    <3> SUFFICES ASSUME ~(Len(row[1]) < IdSize) PROVE sent.bits[1] = NUL
      OBVIOUS
    <3>1. Len(Name(row)) = IdSize
      BY <1>1, <2>3 DEF Cut, Plate
    <3>2. Len(row) > 2 /\ row[3] = <<Zero>>
      BY <1>4, <3>1 DEF Told
    <3> QED BY <2>2, <3>2 DEF Flag
  <2>5. vd.id = Cut(sent.id) /\ vd.when = sent.when /\ vd.bits = sent.bits
    BY <1>1, <2>1, <2>2, <2>4, MessageKeepsRecord
  <2>6. SaysWhat(vd, row)
    BY <2>2, <2>5, Zenon DEF SaysWhat
  <2> QED BY <2>2, <2>3, <2>5, <2>6
<1> QED BY <1>3, <1>4

-----------------------------------------------------------------------------
(* The inductive invariant of VehicleData.                                 *)

\* All that may arrive.
Arrived == UNION {Arriving(row) : row \in Rows}

\* The samples that may be made of it.
Storable == [row : Nat, when : {vd.when : vd \in Arrived}, bits : {vd.bits : vd \in Arrived}]

Has(k, q) == k \in DOMAIN inCache /\ q \in DOMAIN inCache[k]
SamplesOf(k, q) == inCache[k][q].samples

\* The cache holds samples, in sequences.
RecordTypes ==
  /\ path \in {"cache", "node"} /\ bigEndian \in BOOLEAN
  /\ rows \in Seq(Rows)
  /\ \A k \in DOMAIN inCache : \A q \in DOMAIN inCache[k] :
       inCache[k][q] \in [id : {vd.id : vd \in Arrived}, samples : Seq(Storable)]

\* A sample that the two keys lead to is of a row of theirs and says what that row said.
Right(k, q, sample) ==
  /\ sample.row \in DOMAIN rows
  /\ Told(rows[sample.row]) =>
       /\ k = Key1Of(Name(rows[sample.row])) /\ q = Key2Of(Name(rows[sample.row]))
       /\ SaysWhat(sample, rows[sample.row])

SamplesRight ==
  \A k, q : Has(k, q) =>
    \A i \in DOMAIN SamplesOf(k, q) : Right(k, q, SamplesOf(k, q)[i])

InOrder ==
  \A k, q : Has(k, q) =>
    \A i, j \in DOMAIN SamplesOf(k, q) : i < j => SamplesOf(k, q)[i].row < SamplesOf(k, q)[j].row

AllTold == \A n \in DOMAIN rows : Told(rows[n])

\* A first key has the vehicle of the name that came with it first.
FirstNames ==
  \A k \in DOMAIN inCache : \E m \in DOMAIN rows :
    k = Key1Of(Name(rows[m])) /\ DOMAIN inCache[k] = {Key2Of(Name(rows[m]))}

FirstKeysKnown == \A n \in DOMAIN rows : Key1Of(Name(rows[n])) \in DOMAIN inCache

AloneKept ==
  \A n \in DOMAIN rows : Alone(n) =>
    LET s == SamplesOf(Key1Of(Name(rows[n])), Key2Of(Name(rows[n])))
    IN  \E i \in DOMAIN s : s[i].row = n

\* While the keys tell all names: the first keys of all rows are known, each with the vehicle
\* of the name that came first, and a name that has its first key to itself has its record.
AllKept == AllTold => FirstNames /\ FirstKeysKnown /\ AloneKept

RecordInv == RecordTypes /\ SamplesRight /\ InOrder /\ AllKept

\* What every Read of a row does, for the record that arrives.
Reads(row, vd) ==
  /\ rows' = Append(rows, row) /\ UNCHANGED <<path, bigEndian>>
  /\ NewVehicle(vd) \/ AddSample(vd) \/ MissingKey2(vd)

\* What is said of a row and of what arrives stays true of them.
LEMMA SameSaid ==
  ASSUME UNCHANGED <<path, bigEndian>>
  PROVE  /\ Arrived' = Arrived
         /\ \A row : Name(row)' = Name(row)
         /\ \A row : Told(row)' <=> Told(row)
         /\ \A row : \A sample : SaysWhat(sample, row)' <=> SaysWhat(sample, row)
<1>1. \A fields : Number(fields)' = Number(fields)
  BY DEF Number
<1>2. \A fields : FromFields(fields)' = FromFields(fields)
  BY <1>1, Zenon DEF FromFields
<1>3. \A row : Arriving(row)' = Arriving(row)
  BY <1>2, Zenon DEF Arriving
<1>4. Arrived' = Arrived
  BY <1>3, Zenon DEF Arrived
<1>5. \A row : Name(row)' = Name(row)
  BY DEF Name
<1>6. \A row : Told(row)' <=> Told(row)
  BY <1>5, Zenon DEF Told
<1>7. \A row : \A sample : SaysWhat(sample, row)' <=> SaysWhat(sample, row)
  BY Zenon DEF SaysWhat
<1> QED BY <1>4, <1>5, <1>6, <1>7

\* The rows read are the old ones and one more.
LEMMA RowsGrow ==
  ASSUME rows \in Seq(Rows), NEW row \in Rows, rows' = Append(rows, row)
  PROVE  /\ Len(rows) \in Nat /\ rows' \in Seq(Rows)
         /\ DOMAIN rows = 1 .. Len(rows) /\ DOMAIN rows' = 1 .. (Len(rows) + 1)
         /\ \A i \in 1 .. Len(rows) : rows'[i] = rows[i]
         /\ rows'[Len(rows) + 1] = row
  OBVIOUS

\* A record makes a vehicle or adds a sample to one, or it leaves all as it was.
LEMMA Effect ==
  ASSUME RecordTypes, NEW row \in Rows, NEW vd \in Arriving(row), Reads(row, vd),
         NEW k, NEW q, Has(k, q)'
  PROVE  \/ Has(k, q) /\ SamplesOf(k, q)' = SamplesOf(k, q)
         \/ /\ k = Key1Of(vd.id) /\ q = Key2Of(vd.id) /\ Has(k, q)
            /\ SamplesOf(k, q)' = Append(SamplesOf(k, q), Sample(vd))
         \/ /\ k = Key1Of(vd.id) /\ q = Key2Of(vd.id) /\ ~Has(k, q)
            /\ SamplesOf(k, q)' = <<Sample(vd)>>
<1> DEFINE k1 == Key1Of(vd.id)
           k2 == Key2Of(vd.id)
<1>1. CASE NewVehicle(vd)
  <2>1. /\ k1 \notin DOMAIN inCache
        /\ inCache' = [x \in DOMAIN inCache \cup {k1} |->
             IF x \in DOMAIN inCache THEN inCache[x]
             ELSE [y \in {k2} |-> [id |-> vd.id, samples |-> <<Sample(vd)>>]]]
    BY <1>1 DEF NewVehicle, Known
  <2> HIDE DEF k1, k2
  <2>2. CASE k \in DOMAIN inCache
    <3>1. inCache'[k] = inCache[k]
      BY <2>1, <2>2
    <3> QED BY <2>2, <3>1 DEF Has, SamplesOf
  <2>3. CASE k \notin DOMAIN inCache
    <3>1. k = k1 /\ inCache'[k] = [y \in {k2} |-> [id |-> vd.id, samples |-> <<Sample(vd)>>]]
      BY <2>1, <2>3 DEF Has
    <3>2. q = k2 /\ inCache'[k][q].samples = <<Sample(vd)>>
      BY <3>1 DEF Has
    <3> QED BY <2>3, <3>1, <3>2 DEF Has, SamplesOf, k1, k2
  <2> QED BY <2>2, <2>3
<1>2. CASE AddSample(vd)
  <2>1. /\ Has(k1, k2)
        /\ inCache' = [inCache EXCEPT ![k1][k2].samples = Append(@, Sample(vd))]
    BY <1>2 DEF AddSample, Known, Has
  <2>2. "samples" \in DOMAIN inCache[k1][k2]
    BY <2>1 DEF RecordTypes, Has
  <2> HIDE DEF k1, k2
  <2>3. CASE k = k1 /\ q = k2
    <3>1. inCache'[k][q].samples = Append(inCache[k][q].samples, Sample(vd))
      BY <2>1, <2>2, <2>3 DEF Has
    <3> QED BY <2>1, <2>3, <3>1 DEF Has, SamplesOf, k1, k2
  <2>4. CASE ~(k = k1 /\ q = k2)
    <3>1. Has(k, q) /\ inCache'[k][q] = inCache[k][q]
      BY <2>1, <2>4 DEF Has
    <3> QED BY <3>1 DEF SamplesOf
  <2> QED BY <2>3, <2>4
<1>3. CASE MissingKey2(vd)
  BY <1>3 DEF MissingKey2, Has, SamplesOf
<1> QED BY <1>1, <1>2, <1>3 DEF Reads

\* What a sample is made of.
LEMMA SampleFacts ==
  ASSUME RecordTypes, NEW row \in Rows, NEW vd \in Arriving(row)
  PROVE  /\ Sample(vd) \in Storable /\ Sample(vd).row = Len(rows) + 1
         /\ Told(row) => /\ Key1Of(vd.id) = Key1Of(Name(row)) /\ Key2Of(vd.id) = Key2Of(Name(row))
                         /\ SaysWhat(Sample(vd), row)
<1>1. vd \in Arrived /\ Len(rows) + 1 \in Nat
  BY DEF Arrived, RecordTypes
<1>2. Sample(vd) \in Storable
  BY <1>1 DEF Sample, Storable
<1>3. Sample(vd).row = Len(rows) + 1 /\ Sample(vd).when = vd.when /\ Sample(vd).bits = vd.bits
  BY DEF Sample
<1>4. ASSUME Told(row)
      PROVE  vd.id = Name(row) /\ SaysWhat(Sample(vd), row)
  <2>1. vd.id = Name(row) /\ SaysWhat(vd, row)
    BY <1>4, ArrivesAs DEF RecordTypes
  <2> QED BY <1>3, <2>1 DEF SaysWhat
<1> QED BY <1>2, <1>3, <1>4

LEMMA RecordTypesStep ==
  ASSUME RecordTypes, NEW row \in Rows, NEW vd \in Arriving(row), Reads(row, vd)
  PROVE  RecordTypes'
<1> DEFINE Vehicles == [id : {x.id : x \in Arrived}, samples : Seq(Storable)]
<1>1. Arrived' = Arrived /\ Storable' = Storable
  BY SameSaid DEF Reads, Storable
<1>2. /\ path' \in {"cache", "node"} /\ bigEndian' \in BOOLEAN
      /\ rows' \in Seq(Rows)
  BY RowsGrow DEF RecordTypes, Reads
<1>3. \A k \in DOMAIN inCache : \A q \in DOMAIN inCache[k] : inCache[k][q] \in Vehicles
  BY Zenon DEF RecordTypes, Storable
<1>4. vd.id \in {x.id : x \in Arrived} /\ Sample(vd) \in Storable
  BY SampleFacts DEF Arrived
<1> HIDE DEF Vehicles
<1>5. ASSUME NEW k \in DOMAIN inCache', NEW q \in DOMAIN inCache'[k]
      PROVE  inCache'[k][q] \in Vehicles
  <2>1. CASE NewVehicle(vd)
    <3> DEFINE vehicle == [id |-> vd.id, samples |-> <<Sample(vd)>>]
    <3>1. vehicle \in Vehicles
      BY <1>4 DEF Vehicles
    <3>2. inCache' = [x \in DOMAIN inCache \cup {Key1Of(vd.id)} |->
             IF x \in DOMAIN inCache THEN inCache[x] ELSE [y \in {Key2Of(vd.id)} |-> vehicle]]
      BY <2>1 DEF NewVehicle
    <3> HIDE DEF vehicle
    <3> QED BY <1>3, <3>1, <3>2
  <2>2. CASE AddSample(vd)
    <3> DEFINE k1 == Key1Of(vd.id)
               k2 == Key2Of(vd.id)
               old == inCache[k1][k2]
    <3>1. /\ k1 \in DOMAIN inCache /\ k2 \in DOMAIN inCache[k1]
          /\ inCache' = [inCache EXCEPT ![k1][k2].samples = Append(@, Sample(vd))]
      BY <2>2 DEF AddSample, Known
    <3>2. old \in Vehicles
      BY <1>3, <3>1
    <3> HIDE DEF k1, k2
    <3>3. [old EXCEPT !.samples = Append(@, Sample(vd))] \in Vehicles
      <4> HIDE DEF old
      <4> QED BY <1>4, <3>2 DEF Vehicles
    <3>4. CASE k = k1 /\ q = k2
      BY <3>1, <3>3, <3>4
    <3>5. CASE ~(k = k1 /\ q = k2)
      <4>1. k \in DOMAIN inCache /\ q \in DOMAIN inCache[k] /\ inCache'[k][q] = inCache[k][q]
        BY <3>1, <3>5
      <4> QED BY <1>3, <4>1
    <3> QED BY <3>4, <3>5
  <2>3. CASE MissingKey2(vd)
    BY <1>3, <2>3 DEF MissingKey2
  <2> QED BY <2>1, <2>2, <2>3 DEF Reads
<1> QED BY <1>1, <1>2, <1>5, Zenon DEF RecordTypes, Storable, Vehicles

\* The samples of a vehicle are sequences.
LEMMA SamplesType ==
  ASSUME RecordTypes, NEW k, NEW q, Has(k, q)
  PROVE  /\ SamplesOf(k, q) \in Seq(Storable)
         /\ DOMAIN SamplesOf(k, q) = 1 .. Len(SamplesOf(k, q)) /\ Len(SamplesOf(k, q)) \in Nat
         /\ \A i \in DOMAIN SamplesOf(k, q) : SamplesOf(k, q)[i].row \in Nat
<1>1. inCache[k][q] \in [id : {vd.id : vd \in Arrived}, samples : Seq(Storable)]
  BY Zenon DEF RecordTypes, Has
<1>2. SamplesOf(k, q) \in Seq(Storable)
  BY <1>1 DEF SamplesOf
<1>3. \A x \in Storable : x.row \in Nat
  BY DEF Storable
<1> QED BY <1>2, <1>3

\* A sample of a vehicle is one it had, at the same place, or the last and the new one.
LEMMA EachSample ==
  ASSUME RecordTypes, NEW row \in Rows, NEW vd \in Arriving(row), Reads(row, vd),
         NEW k, NEW q, Has(k, q)', NEW i \in DOMAIN SamplesOf(k, q)'
  PROVE  \/ /\ Has(k, q) /\ i \in DOMAIN SamplesOf(k, q) /\ SamplesOf(k, q)'[i] = SamplesOf(k, q)[i]
         \/ /\ k = Key1Of(vd.id) /\ q = Key2Of(vd.id) /\ SamplesOf(k, q)'[i] = Sample(vd)
            /\ DOMAIN SamplesOf(k, q)' = 1 .. i
<1> DEFINE s == SamplesOf(k, q)
<1>1. CASE Has(k, q) /\ s' = s
  BY <1>1
<1>2. CASE /\ k = Key1Of(vd.id) /\ q = Key2Of(vd.id) /\ Has(k, q)
           /\ s' = Append(s, Sample(vd))
  <2>1. s \in Seq(Storable) /\ DOMAIN s = 1 .. Len(s) /\ Len(s) \in Nat
    BY <1>2, SamplesType
  <2>2. Sample(vd) \in Storable
    BY SampleFacts
  <2> DEFINE n == Append(s, Sample(vd))
  <2>3. /\ DOMAIN n = 1 .. (Len(s) + 1) /\ n[Len(s) + 1] = Sample(vd)
        /\ \A j \in 1 .. Len(s) : n[j] = s[j]
    <3> HIDE DEF s
    <3> QED BY <2>1, <2>2
  <2> HIDE DEF n
  <2>4. s' = n
    BY <1>2 DEF n
  <2>5. i \in 1 .. Len(s) \/ i = Len(s) + 1
    BY <2>1, <2>3, <2>4
  <2> HIDE DEF s
  <2> QED BY <1>2, <2>1, <2>3, <2>4, <2>5 DEF s
<1>3. CASE /\ k = Key1Of(vd.id) /\ q = Key2Of(vd.id)
           /\ s' = <<Sample(vd)>>
  <2>1. DOMAIN <<Sample(vd)>> = 1 .. 1 /\ <<Sample(vd)>>[1] = Sample(vd)
    OBVIOUS
  <2>2. i = 1
    BY <1>3, <2>1
  <2> QED BY <1>3, <2>1, <2>2
<1> HIDE DEF s
<1> QED BY <1>1, <1>2, <1>3, Effect DEF s

LEMMA SamplesRightStep ==
  ASSUME RecordTypes, SamplesRight, NEW row \in Rows, NEW vd \in Arriving(row), Reads(row, vd)
  PROVE  SamplesRight'
<1> SUFFICES ASSUME NEW k, NEW q, Has(k, q)', NEW i \in DOMAIN SamplesOf(k, q)'
             PROVE  Right(k, q, SamplesOf(k, q)[i])'
  BY Zenon DEF SamplesRight
<1>1. /\ Len(rows) \in Nat
      /\ DOMAIN rows = 1 .. Len(rows) /\ DOMAIN rows' = 1 .. (Len(rows) + 1)
      /\ \A n \in 1 .. Len(rows) : rows'[n] = rows[n]
      /\ rows'[Len(rows) + 1] = row
  BY RowsGrow DEF RecordTypes, Reads
<1>2. /\ \A r : Name(r)' = Name(r)
      /\ \A r : Told(r)' <=> Told(r)
      /\ \A r : \A sample : SaysWhat(sample, r)' <=> SaysWhat(sample, r)
  BY SameSaid DEF Reads
<1> DEFINE sample == SamplesOf(k, q)'[i]
<1>3. CASE /\ Has(k, q) /\ i \in DOMAIN SamplesOf(k, q) /\ sample = SamplesOf(k, q)[i]
  <2>1. Right(k, q, SamplesOf(k, q)[i])
    BY <1>3 DEF SamplesRight
  <2>2. sample.row \in DOMAIN rows /\ sample.row \in DOMAIN rows' /\ rows'[sample.row] = rows[sample.row]
    BY <1>1, <1>3, <2>1 DEF Right
  <2> QED BY <1>2, <1>3, <2>1, <2>2, Zenon DEF Right
<1>4. CASE k = Key1Of(vd.id) /\ q = Key2Of(vd.id) /\ sample = Sample(vd)
  <2>1. sample.row = Len(rows) + 1 /\ sample.row \in DOMAIN rows' /\ rows'[sample.row] = row
    BY <1>1, <1>4, SampleFacts
  <2>2. Told(row) => k = Key1Of(Name(row)) /\ q = Key2Of(Name(row)) /\ SaysWhat(sample, row)
    BY <1>4, SampleFacts
  <2> QED BY <1>2, <2>1, <2>2, Zenon DEF Right
<1> QED BY <1>3, <1>4, EachSample

LEMMA InOrderStep ==
  ASSUME RecordTypes, SamplesRight, InOrder, NEW row \in Rows, NEW vd \in Arriving(row), Reads(row, vd)
  PROVE  InOrder'
<1> SUFFICES ASSUME NEW k, NEW q, Has(k, q)',
                    NEW i \in DOMAIN SamplesOf(k, q)', NEW j \in DOMAIN SamplesOf(k, q)', i < j
             PROVE  SamplesOf(k, q)'[i].row < SamplesOf(k, q)'[j].row
  BY Zenon DEF InOrder
<1> DEFINE s == SamplesOf(k, q)
           Old(n) == Has(k, q) /\ n \in DOMAIN s /\ s'[n] = s[n]
           New(n) == s'[n] = Sample(vd) /\ DOMAIN s' = 1 .. n
<1>1. (Old(i) \/ New(i)) /\ (Old(j) \/ New(j))
  BY EachSample
<1>2. ~New(i)
  <2> SUFFICES ASSUME New(i) PROVE FALSE
    OBVIOUS
  <2> HIDE DEF s
  <2>1. i \in 1 .. i /\ j \in 1 .. i
    BY DEF s
  <2> QED BY <2>1
<1>3. s'[i].row \in 1 .. Len(rows)
  <2>1. DOMAIN rows = 1 .. Len(rows)
    BY DEF RecordTypes
  <2> QED BY <1>1, <1>2, <2>1 DEF SamplesRight, Right
<1>4. CASE Old(j)
  BY <1>1, <1>2, <1>4 DEF InOrder
<1>5. CASE New(j)
  <2>1. s'[j].row = Len(rows) + 1 /\ Len(rows) \in Nat
    BY <1>5, SampleFacts DEF RecordTypes
  <2> HIDE DEF s
  <2>2. s'[i].row < s'[j].row
    BY <1>3, <2>1
  <2> QED BY <2>2 DEF s
<1> QED BY <1>1, <1>4, <1>5

\* The vehicle of a name that has its first key to itself is there.
LEMMA AloneHas ==
  ASSUME FirstNames, FirstKeysKnown, NEW n \in DOMAIN rows, Alone(n)
  PROVE  Has(Key1Of(Name(rows[n])), Key2Of(Name(rows[n])))
<1>1. PICK k : k = Key1Of(Name(rows[n]))
  OBVIOUS
<1>2. k \in DOMAIN inCache
  BY <1>1, Zenon DEF FirstKeysKnown
<1>3. PICK m \in DOMAIN rows : k = Key1Of(Name(rows[m])) /\ DOMAIN inCache[k] = {Key2Of(Name(rows[m]))}
  BY <1>2, Zenon DEF FirstNames
<1>4. Name(rows[m]) = Name(rows[n])
  BY <1>1, <1>3, Zenon DEF Alone
<1> QED BY <1>1, <1>2, <1>3, <1>4 DEF Has

LEMMA AllKeptStep ==
  ASSUME RecordTypes, AllKept, NEW row \in Rows, NEW vd \in Arriving(row), Reads(row, vd)
  PROVE  AllKept'
<1> SUFFICES ASSUME AllTold' PROVE FirstNames' /\ FirstKeysKnown' /\ AloneKept'
  BY DEF AllKept
<1>1. PICK N, k1, k2, new :
        N = Len(rows) + 1 /\ k1 = Key1Of(Name(row)) /\ k2 = Key2Of(Name(row)) /\ new = Sample(vd)
  BY Zenon
<1>2. /\ Len(rows) \in Nat /\ N \in DOMAIN rows' /\ N \notin DOMAIN rows
      /\ DOMAIN rows = 1 .. Len(rows) /\ DOMAIN rows' = DOMAIN rows \cup {N}
      /\ \A n \in DOMAIN rows : rows'[n] = rows[n]
      /\ rows'[N] = row
      /\ \A n \in DOMAIN rows : rows[n] \in Rows
  <2>1. /\ Len(rows) \in Nat
        /\ DOMAIN rows = 1 .. Len(rows) /\ DOMAIN rows' = 1 .. (Len(rows) + 1)
        /\ \A n \in 1 .. Len(rows) : rows'[n] = rows[n]
        /\ rows'[Len(rows) + 1] = row
    BY RowsGrow DEF RecordTypes, Reads
  <2>2. \A n \in DOMAIN rows : rows[n] \in Rows
    BY DEF RecordTypes
  <2> QED BY <1>1, <2>1, <2>2
<1>3. /\ \A r : Name(r)' = Name(r)
      /\ \A r : Told(r)' <=> Told(r)
  BY SameSaid DEF Reads
<1>4. Told(row) /\ AllTold
  BY <1>2, <1>3, Zenon DEF AllTold
<1>5. Key1Of(vd.id) = k1 /\ Key2Of(vd.id) = k2
  BY <1>1, <1>4, SampleFacts
<1>6. FirstNames /\ FirstKeysKnown /\ AloneKept
  BY <1>4, Zenon DEF AllKept
<1>7. \A n \in DOMAIN rows : Name(rows[n])' = Name(rows[n])
  BY <1>2, <1>3, Zenon
<1>8. Name(rows[N])' = Name(row)
  BY <1>2, <1>3, Zenon
<1>9. \A n \in DOMAIN rows : Alone(n)' => Alone(n)
  BY <1>2, <1>7, Zenon DEF Alone
<1>10. CASE NewVehicle(vd)
  <2>1. PICK vehicle : vehicle = [id |-> vd.id, samples |-> <<new>>]
    OBVIOUS
  <2>2. /\ k1 \notin DOMAIN inCache
        /\ inCache' = [x \in DOMAIN inCache \cup {k1} |->
             IF x \in DOMAIN inCache THEN inCache[x] ELSE [y \in {k2} |-> vehicle]]
    BY <1>1, <1>5, <1>10, <2>1 DEF NewVehicle, Known
  <2>3. /\ DOMAIN inCache' = DOMAIN inCache \cup {k1}
        /\ \A k \in DOMAIN inCache : inCache'[k] = inCache[k]
        /\ DOMAIN inCache'[k1] = {k2} /\ inCache'[k1][k2] = vehicle
    BY <2>2
  <2>4. FirstNames'
    <3> SUFFICES ASSUME NEW k \in DOMAIN inCache'
                 PROVE  (\E m \in DOMAIN rows : /\ k = Key1Of(Name(rows[m]))
                                                /\ DOMAIN inCache[k] = {Key2Of(Name(rows[m]))})'
      BY Zenon DEF FirstNames
    <3>1. CASE k \in DOMAIN inCache
      <4>1. PICK m \in DOMAIN rows : k = Key1Of(Name(rows[m])) /\ DOMAIN inCache[k] = {Key2Of(Name(rows[m]))}
        BY <1>6, <3>1, Zenon DEF FirstNames
      <4>2. m \in DOMAIN rows' /\ Name(rows[m])' = Name(rows[m]) /\ DOMAIN inCache'[k] = DOMAIN inCache[k]
        BY <1>2, <1>7, <2>3, <3>1, Zenon
      <4> QED BY <4>1, <4>2, Zenon
    <3>2. CASE k = k1
      <4>1. N \in DOMAIN rows' /\ k = Key1Of(Name(rows[N])') /\ DOMAIN inCache'[k] = {Key2Of(Name(rows[N])')}
        BY <1>1, <1>2, <1>8, <2>3, <3>2, Zenon
      <4> QED BY <4>1, Zenon
    <3> QED BY <2>3, <3>1, <3>2
  <2>5. FirstKeysKnown'
    BY <1>2, <1>6, <1>7, <1>1, <1>8, <2>3, Zenon DEF FirstKeysKnown
  <2>6. AloneKept'
    <3> SUFFICES ASSUME NEW n \in DOMAIN rows', Alone(n)'
                 PROVE  LET s == SamplesOf(Key1Of(Name(rows[n])), Key2Of(Name(rows[n])))'
                        IN  \E i \in DOMAIN s : s[i].row = n
      BY Zenon DEF AloneKept
    <3>1. CASE n \in DOMAIN rows
      <4>1. Key1Of(Name(rows[n])) \in DOMAIN inCache
        BY <1>6, <3>1 DEF FirstKeysKnown
      <4>2. Alone(n) /\ Name(rows[n])' = Name(rows[n])
        BY <1>7, <1>9, <3>1
      <4> QED BY <1>6, <2>3, <3>1, <4>1, <4>2, Zenon DEF AloneKept, SamplesOf
    <3>2. CASE n = N
      <4>1. Name(rows[n])' = Name(row)
        BY <1>8, <3>2
      <4>2. SamplesOf(k1, k2)' = <<new>>
        BY <2>1, <2>3 DEF SamplesOf
      <4>3. <<new>>[1].row = n /\ 1 \in DOMAIN <<new>>
        BY <1>1, <3>2, SampleFacts
      <4> QED BY <1>1, <4>1, <4>2, <4>3, Zenon
    <3> QED BY <1>2, <3>1, <3>2
  <2> QED BY <2>4, <2>5, <2>6
<1>11. CASE AddSample(vd)
  <2>1. /\ Has(k1, k2)
        /\ inCache' = [inCache EXCEPT ![k1][k2].samples = Append(@, new)]
    BY <1>1, <1>5, <1>11 DEF AddSample, Known, Has
  <2>2. /\ DOMAIN inCache' = DOMAIN inCache
        /\ \A k \in DOMAIN inCache : DOMAIN inCache'[k] = DOMAIN inCache[k]
    BY <2>1
  <2>3. FirstNames'
    <3> SUFFICES ASSUME NEW k \in DOMAIN inCache'
                 PROVE  (\E m \in DOMAIN rows : /\ k = Key1Of(Name(rows[m]))
                                                /\ DOMAIN inCache[k] = {Key2Of(Name(rows[m]))})'
      BY Zenon DEF FirstNames
    <3>1. PICK m \in DOMAIN rows : k = Key1Of(Name(rows[m])) /\ DOMAIN inCache[k] = {Key2Of(Name(rows[m]))}
      BY <1>6, <2>2, Zenon DEF FirstNames
    <3>2. m \in DOMAIN rows' /\ Name(rows[m])' = Name(rows[m]) /\ DOMAIN inCache'[k] = DOMAIN inCache[k]
      BY <1>2, <1>7, <2>2, Zenon
    <3> QED BY <3>1, <3>2, Zenon
  <2>4. FirstKeysKnown'
    BY <1>2, <1>6, <1>7, <1>1, <1>8, <2>1, <2>2, Zenon DEF FirstKeysKnown, Has
  <2>5. AloneKept'
    <3> SUFFICES ASSUME NEW n \in DOMAIN rows', Alone(n)'
                 PROVE  LET s == SamplesOf(Key1Of(Name(rows[n])), Key2Of(Name(rows[n])))'
                        IN  \E i \in DOMAIN s : s[i].row = n
      BY Zenon DEF AloneKept
    <3>1. /\ SamplesOf(k1, k2)' = Append(SamplesOf(k1, k2), new)
          /\ \A k, q : Has(k, q) /\ ~(k = k1 /\ q = k2) => SamplesOf(k, q)' = SamplesOf(k, q)
      <4>1. "samples" \in DOMAIN inCache[k1][k2]
        BY <2>1 DEF RecordTypes, Has
      <4> QED BY <2>1, <4>1 DEF Has, SamplesOf
    <3>2. /\ SamplesOf(k1, k2) \in Seq(Storable) /\ Len(SamplesOf(k1, k2)) \in Nat
          /\ DOMAIN SamplesOf(k1, k2) = 1 .. Len(SamplesOf(k1, k2))
      BY <2>1, SamplesType
    <3>3. new \in Storable /\ new.row = N
      BY <1>1, SampleFacts
    <3>4. /\ \A i \in DOMAIN SamplesOf(k1, k2) :
               i \in DOMAIN SamplesOf(k1, k2)' /\ SamplesOf(k1, k2)'[i] = SamplesOf(k1, k2)[i]
          /\ \E i \in DOMAIN SamplesOf(k1, k2)' : SamplesOf(k1, k2)'[i] = new
      <4>1. PICK s : s = SamplesOf(k1, k2)
        OBVIOUS
      <4> DEFINE longer == Append(s, new)
      <4>2. /\ DOMAIN longer = 1 .. (Len(s) + 1) /\ longer[Len(s) + 1] = new
            /\ \A i \in 1 .. Len(s) : longer[i] = s[i]
        BY <3>2, <3>3, <4>1
      <4>3. Len(s) \in Nat /\ DOMAIN s = 1 .. Len(s) /\ SamplesOf(k1, k2)' = longer
        BY <3>1, <3>2, <4>1
      <4> HIDE DEF longer
      <4> QED BY <4>1, <4>2, <4>3
    <3>5. CASE n \in DOMAIN rows
      <4>1. PICK k, q : k = Key1Of(Name(rows[n])) /\ q = Key2Of(Name(rows[n]))
        BY Zenon
      <4>2. Alone(n) /\ Name(rows[n])' = Name(rows[n])
        BY <1>7, <1>9, <3>5
      <4>3. PICK i \in DOMAIN SamplesOf(k, q) : SamplesOf(k, q)[i].row = n
        BY <1>6, <3>5, <4>1, <4>2, Zenon DEF AloneKept
      <4>4. Has(k, q)
        BY <1>6, <3>5, <4>1, <4>2, AloneHas
      <4>5. i \in DOMAIN SamplesOf(k, q)' /\ SamplesOf(k, q)'[i] = SamplesOf(k, q)[i]
        BY <3>1, <3>4, <4>3, <4>4, Zenon
      <4> QED BY <4>1, <4>2, <4>3, <4>5, Zenon
    <3>6. CASE n = N
      BY <1>1, <1>8, <3>3, <3>4, <3>6, Zenon
    <3> QED BY <1>2, <3>5, <3>6
  <2> QED BY <2>3, <2>4, <2>5
<1>12. CASE MissingKey2(vd)
  <2>1. k1 \in DOMAIN inCache /\ k2 \notin DOMAIN inCache[k1] /\ inCache' = inCache
    BY <1>5, <1>12 DEF MissingKey2, Known
  <2>2. FirstNames'
    BY <1>2, <1>6, <1>7, <2>1, Zenon DEF FirstNames
  <2>3. FirstKeysKnown'
    BY <1>2, <1>6, <1>7, <1>1, <1>8, <2>1, Zenon DEF FirstKeysKnown
  <2>4. AloneKept'
    <3> SUFFICES ASSUME NEW n \in DOMAIN rows', Alone(n)'
                 PROVE  LET s == SamplesOf(Key1Of(Name(rows[n])), Key2Of(Name(rows[n])))'
                        IN  \E i \in DOMAIN s : s[i].row = n
      BY Zenon DEF AloneKept
    <3>1. n # N
      <4> SUFFICES ASSUME n = N PROVE FALSE
        OBVIOUS
      <4>1. PICK m \in DOMAIN rows : k1 = Key1Of(Name(rows[m])) /\ DOMAIN inCache[k1] = {Key2Of(Name(rows[m]))}
        BY <1>6, <2>1, Zenon DEF FirstNames
      <4>2. Name(rows[m])' = Name(rows[m]) /\ Name(rows[N])' = Name(row) /\ m \in DOMAIN rows'
        BY <1>2, <1>7, <1>8, <4>1
      <4>3. Name(rows[m]) = Name(row)
        BY <1>1, <4>1, <4>2, Zenon DEF Alone
      <4> QED BY <1>1, <2>1, <4>1, <4>3
    <3>2. n \in DOMAIN rows
      BY <1>2, <3>1
    <3>3. Alone(n) /\ Name(rows[n])' = Name(rows[n])
      BY <1>7, <1>9, <3>2
    <3>4. \A k, q : SamplesOf(k, q)' = SamplesOf(k, q)
      BY <2>1 DEF SamplesOf
    <3> QED BY <1>6, <3>2, <3>3, <3>4, Zenon DEF AloneKept
  <2> QED BY <2>2, <2>3, <2>4
<1> QED BY <1>10, <1>11, <1>12 DEF Reads

LEMMA RecordInvariance == RecordSpec => []RecordInv
<1>1. RecordInit => RecordInv
  <2> SUFFICES ASSUME RecordInit PROVE RecordInv
    OBVIOUS
  <2>1. /\ path \in {"cache", "node"} /\ bigEndian \in BOOLEAN
        /\ rows = <<>> /\ DOMAIN rows = {} /\ DOMAIN inCache = {}
    BY DEF RecordInit
  <2>2. RecordTypes
    BY <2>1 DEF RecordTypes
  <2>3. SamplesRight /\ InOrder
    BY <2>1 DEF SamplesRight, InOrder, Has
  <2>4. AllKept
    BY <2>1 DEF AllKept, FirstNames, FirstKeysKnown, AloneKept
  <2> QED BY <2>2, <2>3, <2>4 DEF RecordInv
<1>2. RecordInv /\ [RecordNext]_recordVars => RecordInv'
  <2> SUFFICES ASSUME RecordInv, [RecordNext]_recordVars PROVE RecordInv'
    OBVIOUS
  <2>1. CASE \E row \in Rows : Read(row)
    <3>1. PICK row \in Rows : Read(row)
      BY <2>1
    <3>2. PICK vd \in Arriving(row) : Reads(row, vd)
      BY <3>1, Zenon DEF Read, Reads
    <3> QED BY <3>2, RecordTypesStep, SamplesRightStep, InOrderStep, AllKeptStep DEF RecordInv
  <2>2. CASE UNCHANGED recordVars
    <3>1. UNCHANGED <<path, bigEndian, rows, inCache>>
      BY <2>2 DEF recordVars
    <3>2. /\ Arrived' = Arrived
          /\ \A row : Name(row)' = Name(row)
          /\ \A row : Told(row)' <=> Told(row)
          /\ \A row : \A sample : SaysWhat(sample, row)' <=> SaysWhat(sample, row)
      BY <3>1, SameSaid
    <3>3. RecordTypes'
      BY <3>1, <3>2 DEF RecordInv, RecordTypes, Storable
    <3>4. SamplesRight' /\ InOrder'
      <4>1. \A k, q : /\ Has(k, q)' <=> Has(k, q)
                      /\ SamplesOf(k, q)' = SamplesOf(k, q)
                      /\ \A sample : Right(k, q, sample) => Right(k, q, sample)'
        BY <3>1, <3>2, Zenon DEF Right, Has, SamplesOf
      <4>2. SamplesRight'
        BY <4>1, Zenon DEF RecordInv, SamplesRight
      <4>3. InOrder'
        BY <4>1, Zenon DEF RecordInv, InOrder
      <4> QED BY <4>2, <4>3
    <3>5. AllKept'
      BY <3>1, <3>2, Zenon DEF RecordInv, AllKept, AllTold, FirstNames, FirstKeysKnown, AloneKept, Alone, SamplesOf
    <3> QED BY <3>3, <3>4, <3>5 DEF RecordInv
  <2> QED BY <2>1, <2>2 DEF RecordNext
<1> QED BY <1>1, <1>2, PTL DEF RecordSpec

\* A vehicle has the records of one plate only, by either way into the cache and for any rows,
\* sizes and bytes: what the short keys, the padding with zeros and the read beyond the id's
\* place could mix up, the names the keys tell, they keep apart.
THEOREM NoStrangersMeet == RecordSpec => []NoStrangers
<1>1. RecordInv => NoStrangers
  <2> SUFFICES ASSUME RecordInv, NEW k \in DOMAIN inCache, NEW q \in DOMAIN inCache[k],
                      NEW i \in DOMAIN inCache[k][q].samples, NEW j \in DOMAIN inCache[k][q].samples,
                      Told(rows[inCache[k][q].samples[i].row]), Told(rows[inCache[k][q].samples[j].row])
               PROVE  Name(rows[inCache[k][q].samples[i].row]) = Name(rows[inCache[k][q].samples[j].row])
    BY Zenon DEF NoStrangers
  <2> DEFINE a == rows[inCache[k][q].samples[i].row]
             b == rows[inCache[k][q].samples[j].row]
  <2>1. /\ inCache[k][q].samples[i].row \in DOMAIN rows
        /\ inCache[k][q].samples[j].row \in DOMAIN rows
        /\ Key1Of(Name(a)) = k /\ Key2Of(Name(a)) = q
        /\ Key1Of(Name(b)) = k /\ Key2Of(Name(b)) = q
    BY Zenon DEF RecordInv, SamplesRight, Right, Has, SamplesOf
  <2>2. a \in Rows /\ b \in Rows
    BY <2>1 DEF RecordInv, RecordTypes
  <2>3. Name(a) \in Plate /\ Name(b) \in Plate
    BY <2>2, NameType
  <2>4. Len(Name(a)) <= IdSize /\ Len(Name(b)) <= IdSize
    BY Zenon DEF Told
  <2> HIDE DEF a, b
  <2>5. Name(a) = Name(b)
    BY <2>1, <2>3, <2>4, KeysTellIds
  <2> QED BY <2>5 DEF a, b
<1> QED BY <1>1, RecordInvariance, PTL

\* Every record is found under its name, once, in order and saying what its row said, unless
\* another name came in between with the same first key.
THEOREM RecordsAreKept == RecordSpec => []EveryRecordIsKept
<1>1. RecordInv => EveryRecordIsKept
  <2> SUFFICES ASSUME RecordInv, AllTold, NEW n \in DOMAIN rows, Alone(n)
               PROVE  LET s == VehicleOf(Name(rows[n])).samples
                      IN  /\ \E i \in DOMAIN s : s[i].row = n /\ SaysWhat(s[i], rows[n])
                          /\ \A i, j \in DOMAIN s : i < j => s[i].row < s[j].row
    BY Zenon DEF EveryRecordIsKept, AllTold
  <2>1. PICK k, q : k = Key1Of(Name(rows[n])) /\ q = Key2Of(Name(rows[n]))
    BY Zenon
  <2>2. Has(k, q)
    BY <2>1, AloneHas DEF RecordInv, AllKept
  <2>3. VehicleOf(Name(rows[n])).samples = SamplesOf(k, q)
    BY <2>1, <2>2, Zenon DEF VehicleOf, Has, SamplesOf
  <2>4. PICK i \in DOMAIN SamplesOf(k, q) : SamplesOf(k, q)[i].row = n
    BY <2>1, Zenon DEF RecordInv, AllKept, AloneKept
  <2>5. SaysWhat(SamplesOf(k, q)[i], rows[n])
    <3>1. Right(k, q, SamplesOf(k, q)[i])
      BY <2>2, <2>4 DEF RecordInv, SamplesRight
    <3>2. Told(rows[n])
      BY DEF AllTold
    <3> QED BY <2>4, <3>1, <3>2 DEF Right
  <2>6. \A a, b \in DOMAIN SamplesOf(k, q) : a < b => SamplesOf(k, q)[a].row < SamplesOf(k, q)[b].row
    BY <2>2, Zenon DEF RecordInv, InOrder
  <2> QED BY <2>3, <2>4, <2>5, <2>6, Zenon
<1> QED BY <1>1, RecordInvariance, PTL
=============================================================================
