-------------------------------- MODULE Queue --------------------------------
(***************************************************************************)
(* class Queue (com/queue.h) on its Condlock (com/locker.h): the queue the *)
(* epoll thread hands messages to the worker through, for any number of    *)
(* threads on either side.                                                 *)
(*                                                                         *)
(* Every method is one critical section, except where get() waits on the   *)
(* condition: pthread_cond_wait lets go of the mutex, and the thread comes *)
(* back after a signal, or for no reason, when it next gets the mutex.  So *)
(* a critical section is one step, and the mutex is free between steps.    *)
(* A message is named <<p, n>>: the n-th that producer p puts.             *)
(***************************************************************************)
EXTENDS Naturals, Sequences, FiniteSets

CONSTANTS
  Producers,     \* threads that call put()
  Consumers,     \* threads that call get() over and over, like the worker
  Pollers,       \* threads that call try_pop() now and then
  MaxMessages    \* bound on the messages each producer puts

ASSUME QueueAssumption == IsFiniteSet(Consumers) /\ MaxMessages \in Nat

VARIABLES
  queue,         \* _queue
  waiting,       \* consumers asleep in pthread_cond_wait
  woken,         \* consumers on their way back from it
  puts,          \* how many messages each producer has put
  put, got       \* history: every message put and every message taken

vars == <<queue, waiting, woken, puts, put, got>>

Messages == Producers \X (1 .. MaxMessages)

Init ==
  /\ queue = <<>> /\ waiting = {} /\ woken = {}
  /\ puts = [p \in Producers |-> 0]
  /\ put = <<>> /\ got = <<>>

\* _condLock.signal(): at least one of the threads that wait is unblocked.
Signal ==
  IF waiting = {} THEN UNCHANGED <<waiting, woken>>
  ELSE \E W \in (SUBSET waiting) \ {{}} : waiting' = waiting \ W /\ woken' = woken \cup W

\* A mistake the run must notice: only the put that ends an empty queue signals.
SignalOnce == IF queue = <<>> THEN Signal ELSE UNCHANGED <<waiting, woken>>

SignalEach == Signal

\* Queue::put
Put(p) ==
  /\ puts[p] < MaxMessages
  /\ puts' = [puts EXCEPT ![p] = @ + 1]
  /\ queue' = Append(queue, <<p, puts[p] + 1>>)
  /\ put' = Append(put, <<p, puts[p] + 1>>)
  /\ SignalEach
  /\ UNCHANGED got

\* A mistake the run must notice: a front() that is not popped.
Unpopped == queue

Popped == Tail(queue)

\* t = _queue.front(); _queue.pop_front()
Pop ==
  /\ queue # <<>>
  /\ got' = Append(got, Head(queue))
  /\ queue' = Popped
  /\ UNCHANGED <<puts, put>>

\* Queue::get, by a thread that has just called it or has just been woken, and
\* finds a message.
Get(c) ==
  /\ c \notin waiting
  /\ Pop
  /\ woken' = woken \ {c}
  /\ UNCHANGED waiting

\* Queue::get finds the queue empty, for the first time or again.
Wait(c) ==
  /\ c \notin waiting /\ queue = <<>>
  /\ waiting' = waiting \cup {c} /\ woken' = woken \ {c}
  /\ UNCHANGED <<queue, puts, put, got>>

\* pthread_cond_wait returns though nobody signalled.
WakeSpuriously(c) ==
  /\ c \in waiting
  /\ waiting' = waiting \ {c} /\ woken' = woken \cup {c}
  /\ UNCHANGED <<queue, puts, put, got>>

\* Queue::try_pop finds a message (it returns false, and does nothing, if not).
TryPop == Pop /\ UNCHANGED <<waiting, woken>>

Next ==
  \/ \E p \in Producers : Put(p)
  \/ \E c \in Consumers : Get(c) \/ Wait(c) \/ WakeSpuriously(c)
  \/ \E r \in Pollers : TryPop

Spec == Init /\ [][Next]_vars

\* A consumer that can take a message takes one, for it calls get() in a loop
\* and the mutex is handed on.  Nobody has to wake for no reason.
FairSpec == Spec /\ \A c \in Consumers : WF_vars(Get(c))

-----------------------------------------------------------------------------
\* Types of the variables; a consumer is not asleep and on its way back at once.
TypeOK ==
  /\ queue \in Seq(Messages) /\ put \in Seq(Messages) /\ got \in Seq(Messages)
  /\ waiting \subseteq Consumers /\ woken \subseteq Consumers
  /\ waiting \cap woken = {}
  /\ puts \in [Producers -> 0 .. MaxMessages]

\* One signal for each put is enough: while a consumer sleeps, there are at
\* least as many on their way back as there are messages for them, however
\* often a message is snatched from a thread that was woken for it.
NoLostWakeup == waiting # {} => Len(queue) <= Cardinality(woken)

\* What was put is what was taken and, behind it, what is still queued.
InOrder ==
  /\ Len(put) = Len(got) + Len(queue)
  /\ \A i \in 1 .. Len(got) : got[i] = put[i]
  /\ \A i \in 1 .. Len(queue) : queue[i] = put[Len(got) + i]

\* The queue is a channel: first in, first out, nothing lost or taken twice,
\* and everything put is taken in the end.
Channel == INSTANCE Fifo WITH Values <- Messages

QueueIsAChannel == Channel!Spec
=============================================================================
