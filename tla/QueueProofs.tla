----------------------------- MODULE QueueProofs -----------------------------
(***************************************************************************)
(* Queue for any number of producers, consumers and messages: it keeps the *)
(* order, implements the abstract channel, and loses no wakeup.            *)
(***************************************************************************)
EXTENDS Queue, TLAPS, FiniteSetTheorems

USE DEF SignalEach, Popped

IInv == TypeOK /\ InOrder /\ NoLostWakeup

\* A signal makes sleepers awake and forgets none of them.
LEMMA SignalFacts ==
  ASSUME TypeOK, Signal
  PROVE  /\ waiting' \subseteq Consumers /\ woken' \subseteq Consumers
         /\ waiting' \cap woken' = {}
         /\ waiting' # {} =>
              \E c \in waiting : c \notin woken /\ woken \cup {c} \subseteq woken'
<1>1. CASE waiting = {}
  BY <1>1 DEF TypeOK, Signal
<1>2. CASE waiting # {}
  <2>1. PICK W \in (SUBSET waiting) \ {{}} : waiting' = waiting \ W /\ woken' = woken \cup W
    BY <1>2 DEF Signal
  <2>2. W # {} /\ W \subseteq waiting
    BY <2>1
  <2>3. PICK c : c \in W
    BY <2>2
  <2>4. c \in waiting /\ c \notin woken /\ woken \cup {c} \subseteq woken'
    BY <2>1, <2>2, <2>3 DEF TypeOK
  <2>5. waiting' \subseteq Consumers /\ woken' \subseteq Consumers /\ waiting' \cap woken' = {}
    BY <2>1, <2>2 DEF TypeOK
  <2> QED BY <2>4, <2>5
<1> QED BY <1>1, <1>2

\* Sets of consumers are finite, and a thread more or less counts for one.
LEMMA ConsumersFinite ==
  ASSUME NEW W \in SUBSET Consumers
  PROVE  /\ IsFiniteSet(W) /\ Cardinality(W) \in Nat
         /\ \A V \in SUBSET W : Cardinality(V) <= Cardinality(W)
         /\ \A c \in Consumers : /\ c \notin W => Cardinality(W \cup {c}) = Cardinality(W) + 1
                                /\ Cardinality(W \ {c}) >= Cardinality(W) - 1
<1>1. IsFiniteSet(W) /\ Cardinality(W) \in Nat
  BY QueueAssumption, FS_Subset, FS_CardinalityType
<1>2. \A V \in SUBSET W : Cardinality(V) <= Cardinality(W)
  BY <1>1, FS_Subset
<1>3. ASSUME NEW c \in Consumers, c \notin W
      PROVE  Cardinality(W \cup {c}) = Cardinality(W) + 1
  BY <1>1, <1>3, FS_AddElement
<1>4. ASSUME NEW c \in Consumers PROVE Cardinality(W \ {c}) >= Cardinality(W) - 1
  <2>1. CASE c \in W
    <3>1. Cardinality(W \ {c}) = Cardinality(W) - 1
      BY <1>1, <2>1, FS_RemoveElement
    <3> QED BY <1>1, <3>1
  <2>2. CASE c \notin W
    <3>1. W \ {c} = W
      BY <2>2
    <3> QED BY <1>1, <3>1
  <2> QED BY <2>1, <2>2
<1> QED BY <1>1, <1>2, <1>3, <1>4

\* put() lengthens both what was put and what is queued.
LEMMA PutStep ==
  ASSUME IInv, NEW p \in Producers, Put(p)
  PROVE  IInv'
<1> DEFINE m == <<p, puts[p] + 1>>
<1>1. m \in Messages
  BY QueueAssumption DEF IInv, TypeOK, Put, Messages
<1>2. /\ queue \in Seq(Messages) /\ put \in Seq(Messages) /\ got \in Seq(Messages)
      /\ queue' = Append(queue, m) /\ put' = Append(put, m) /\ got' = got
  BY DEF IInv, TypeOK, Put
<1> HIDE DEF m
<1>3. /\ queue' \in Seq(Messages) /\ put' \in Seq(Messages)
      /\ Len(queue') = Len(queue) + 1 /\ Len(put') = Len(put) + 1
      /\ \A i \in 1 .. Len(queue) : queue'[i] = queue[i]
      /\ \A i \in 1 .. Len(put) : put'[i] = put[i]
      /\ queue'[Len(queue) + 1] = m /\ put'[Len(put) + 1] = m
      /\ Len(queue) \in Nat /\ Len(put) \in Nat /\ Len(got) \in Nat
  BY <1>1, <1>2
<1>4. TypeOK'
  BY <1>2, <1>3, SignalFacts, QueueAssumption DEF IInv, TypeOK, Put
<1>5. InOrder'
  BY <1>2, <1>3 DEF IInv, InOrder
<1>6. NoLostWakeup'
  <2>1. SUFFICES ASSUME waiting' # {} PROVE Len(queue') <= Cardinality(woken')
    BY DEF NoLostWakeup
  <2>2. PICK c \in waiting : c \notin woken /\ woken \cup {c} \subseteq woken'
    BY <2>1, SignalFacts DEF IInv, Put
  <2>3. Len(queue) <= Cardinality(woken)
    BY <2>2 DEF IInv, NoLostWakeup
  <2>4. c \in Consumers /\ woken \in SUBSET Consumers /\ woken' \in SUBSET Consumers
    BY <1>4, <2>2 DEF IInv, TypeOK
  <2>5. Cardinality(woken \cup {c}) = Cardinality(woken) + 1
    BY <2>2, <2>4, ConsumersFinite
  <2>6. Cardinality(woken \cup {c}) <= Cardinality(woken')
    BY <2>2, <2>4, ConsumersFinite
  <2>7. Cardinality(woken) \in Nat /\ Cardinality(woken') \in Nat
    BY <2>4, ConsumersFinite
  <2> QED BY <1>3, <2>3, <2>5, <2>6, <2>7
<1> QED BY <1>4, <1>5, <1>6 DEF IInv

\* Taking the front of the queue moves one message from it to what was taken.
LEMMA PopStep ==
  ASSUME IInv, Pop
  PROVE  /\ queue' \in Seq(Messages) /\ got' \in Seq(Messages) /\ put' = put
         /\ puts' = puts
         /\ Len(got') = Len(got) + 1 /\ Len(queue') = Len(queue) - 1
         /\ Len(queue) \in Nat \ {0}
         /\ \A i \in 1 .. Len(got) : got'[i] = got[i]
         /\ got'[Len(got) + 1] = put[Len(got) + 1]
         /\ InOrder'
<1>1. /\ queue \in Seq(Messages) /\ put \in Seq(Messages) /\ got \in Seq(Messages)
      /\ queue # <<>> /\ got' = Append(got, Head(queue)) /\ queue' = Tail(queue)
      /\ put' = put /\ puts' = puts
  BY DEF IInv, TypeOK, Pop
<1>2. /\ Len(queue) \in Nat \ {0} /\ Head(queue) = queue[1] /\ Head(queue) \in Messages
      /\ queue' \in Seq(Messages) /\ Len(queue') = Len(queue) - 1
      /\ \A i \in 1 .. Len(queue') : queue'[i] = queue[i + 1]
  BY <1>1
<1>3. /\ got' \in Seq(Messages) /\ Len(got') = Len(got) + 1 /\ Len(got) \in Nat
      /\ \A i \in 1 .. Len(got) : got'[i] = got[i]
      /\ got'[Len(got) + 1] = queue[1]
  BY <1>1, <1>2
<1>4. queue[1] = put[Len(got) + 1] /\ Len(put) = Len(got) + Len(queue)
  BY <1>2 DEF IInv, InOrder
<1>5. InOrder'
  <2>1. Len(put') = Len(got') + Len(queue')
    BY <1>1, <1>2, <1>3, <1>4
  <2>2. ASSUME NEW i \in 1 .. Len(got') PROVE got'[i] = put'[i]
    <3>1. i \in 1 .. Len(got) \/ i = Len(got) + 1
      BY <1>3
    <3> QED BY <3>1, <1>1, <1>3, <1>4 DEF IInv, InOrder
  <2>3. ASSUME NEW i \in 1 .. Len(queue') PROVE queue'[i] = put'[Len(got') + i]
    <3>1. i + 1 \in 1 .. Len(queue) /\ Len(got) + (i + 1) = Len(got') + i
      BY <1>2, <1>3
    <3>2. queue[i + 1] = put[Len(got) + (i + 1)]
      BY <3>1 DEF IInv, InOrder
    <3> QED BY <1>1, <1>2, <3>1, <3>2
  <2> QED BY <2>1, <2>2, <2>3 DEF InOrder
<1> QED BY <1>1, <1>2, <1>3, <1>4, <1>5

\* The invariant holds of every behaviour.
LEMMA Invariance == Spec => []IInv
<1>1. Init => IInv
  BY QueueAssumption DEF Init, IInv, TypeOK, InOrder, NoLostWakeup
<1>2. IInv /\ [Next]_vars => IInv'
  <2> SUFFICES ASSUME IInv, [Next]_vars PROVE IInv'
    OBVIOUS
  <2>1. ASSUME NEW p \in Producers, Put(p) PROVE IInv'
    BY <2>1, PutStep
  <2>2. ASSUME NEW c \in Consumers, Get(c) PROVE IInv'
    <3>1. /\ Pop /\ woken' = woken \ {c} /\ waiting' = waiting
      BY <2>2 DEF Get
    <3>2. TypeOK' /\ InOrder'
      BY <3>1, PopStep DEF IInv, TypeOK
    <3>3. NoLostWakeup'
      <4>1. SUFFICES ASSUME waiting # {} PROVE Len(queue') <= Cardinality(woken')
        BY <3>1 DEF NoLostWakeup
      <4>2. Len(queue) <= Cardinality(woken) /\ Len(queue') = Len(queue) - 1
            /\ Len(queue) \in Nat
        BY <3>1, <4>1, PopStep DEF IInv, NoLostWakeup
      <4>3. woken \in SUBSET Consumers /\ woken' \in SUBSET Consumers
        BY <3>2 DEF IInv, TypeOK
      <4>4. /\ Cardinality(woken') >= Cardinality(woken) - 1
            /\ Cardinality(woken) \in Nat /\ Cardinality(woken') \in Nat
        BY <2>2, <3>1, <4>3, ConsumersFinite
      <4> QED BY <4>2, <4>4
    <3> QED BY <3>2, <3>3 DEF IInv
  <2>3. ASSUME NEW c \in Consumers, Wait(c) PROVE IInv'
    <3>1. TypeOK' /\ InOrder' /\ queue' = <<>>
      BY <2>3 DEF Wait, IInv, TypeOK, InOrder
    <3>2. Len(queue') = 0 /\ Cardinality(woken') \in Nat
      BY <3>1, ConsumersFinite DEF TypeOK
    <3> QED BY <3>1, <3>2 DEF IInv, NoLostWakeup
  <2>4. ASSUME NEW c \in Consumers, WakeSpuriously(c) PROVE IInv'
    <3>1. TypeOK' /\ InOrder' /\ queue' = queue /\ waiting # {}
      BY <2>4 DEF WakeSpuriously, IInv, TypeOK, InOrder
    <3>2. /\ woken \in SUBSET woken' /\ woken \in SUBSET Consumers
          /\ woken' \in SUBSET Consumers /\ Len(queue) \in Nat
      BY <2>4, <3>1 DEF IInv, TypeOK, WakeSpuriously
    <3>3. /\ Cardinality(woken) <= Cardinality(woken')
          /\ Cardinality(woken) \in Nat /\ Cardinality(woken') \in Nat
      BY <3>2, ConsumersFinite
    <3>4. Len(queue') <= Cardinality(woken')
      BY <3>1, <3>2, <3>3 DEF IInv, NoLostWakeup
    <3> QED BY <3>1, <3>4 DEF IInv, NoLostWakeup
  <2>5. CASE TryPop
    <3>1. Pop /\ waiting' = waiting /\ woken' = woken
      BY <2>5 DEF TryPop
    <3>2. TypeOK' /\ InOrder'
      BY <3>1, PopStep DEF IInv, TypeOK
    <3>3. Cardinality(woken) \in Nat
      BY ConsumersFinite DEF IInv, TypeOK
    <3>4. NoLostWakeup'
      BY <3>1, <3>3, PopStep DEF IInv, NoLostWakeup
    <3> QED BY <3>2, <3>4 DEF IInv
  <2>6. CASE UNCHANGED vars
    BY <2>6 DEF vars, IInv, TypeOK, InOrder, NoLostWakeup
  <2> QED BY <2>1, <2>2, <2>3, <2>4, <2>5, <2>6 DEF Next
<1> QED BY <1>1, <1>2, PTL DEF Spec

\* Queue's variables keep their types, and no thread is asleep and awake.
THEOREM TypeCorrect == Spec => []TypeOK
<1>1. IInv => TypeOK
  BY DEF IInv
<1> QED BY <1>1, Invariance, PTL

\* A consumer never sleeps while a message waits that nobody is coming for.
THEOREM NoWakeupIsLost == Spec => []NoLostWakeup
<1>1. IInv => NoLostWakeup
  BY DEF IInv
<1> QED BY <1>1, Invariance, PTL

\* What is taken is what was put, in that order.
THEOREM FirstInFirstOut == Spec => []InOrder
<1>1. IInv => InOrder
  BY DEF IInv
<1> QED BY <1>1, Invariance, PTL

\* Queue implements the safety of the abstract channel, step by step.
THEOREM QueueImplementsChannel == Spec => Channel!SafeSpec
<1>1. Init => Channel!Init
  BY DEF Init, Channel!Init
<1>2. IInv /\ [Next]_vars => [Channel!Next]_<<put, got>>
  <2> SUFFICES ASSUME IInv, Next PROVE [Channel!Next]_<<put, got>>
    BY DEF vars
  <2>1. ASSUME NEW p \in Producers, Put(p) PROVE Channel!Put
    <3>1. <<p, puts[p] + 1>> \in Messages
      BY <2>1, QueueAssumption DEF IInv, TypeOK, Put, Messages
    <3> QED BY <2>1, <3>1 DEF Put, Channel!Put
  <2>2. ASSUME Pop PROVE Channel!Get
    <3> DEFINE k == Len(got) + 1
    <3>1. /\ got' \in Seq(Messages) /\ Len(got') = k /\ Len(got) \in Nat
          /\ put \in Seq(Messages) /\ put' = put /\ Len(put) \in Nat
      BY <2>2, PopStep DEF IInv, TypeOK
    <3>2. k \in Len(got) + 1 .. Len(put)
      BY <2>2, <3>1, PopStep DEF IInv, InOrder
    <3>3. \A i \in 1 .. k : got'[i] = put[i]
      BY <2>2, <3>1, PopStep DEF InOrder
    <3>4. SubSeq(put, 1, k) \in Seq(Messages) /\ Len(SubSeq(put, 1, k)) = k
          /\ \A i \in 1 .. k : SubSeq(put, 1, k)[i] = put[i]
      BY <3>1, <3>2
    <3>5. got' = SubSeq(put, 1, k)
      BY <3>1, <3>3, <3>4
    <3> QED BY <3>1, <3>2, <3>5 DEF Channel!Get
  <2>3. ASSUME NEW c \in Consumers, Wait(c) \/ WakeSpuriously(c)
        PROVE  UNCHANGED <<put, got>>
    BY <2>3 DEF Wait, WakeSpuriously
  <2> QED BY <2>1, <2>2, <2>3 DEF Next, Get, TryPop, Channel!Next
<1> QED BY <1>1, <1>2, Invariance, PTL DEF Spec, Channel!SafeSpec
=============================================================================
