---------------------------- MODULE LogerProofs ----------------------------
(***************************************************************************)
(* The unlocked flag of Loger is safe for any number of threads and lines, *)
(* because main() logs before it makes any of them; so lines are printed   *)
(* in the order they were put.                                             *)
(***************************************************************************)
EXTENDS Loger, FiniteSetTheorems, SequenceTheorems, TLAPS

Places == {"new", "idle", "start", "create", "put", "wait", "gone"}
InStart(t) == pc[t] \in {"start", "create"}

\* Only main() is ever in start(), and nobody else is there yet; before it was
\* there, there is no log thread, and main() has not logged.
IInv ==
  /\ pc \in [Threads -> Places]
  /\ logged \in [Threads -> Nat]
  /\ \A t \in Threads : InStart(t) => t = Main
  /\ \A h \in Helpers : pc[h] # "new" => started = TRUE /\ ~InStart(Main)
  /\ started # TRUE => pc[Main] \in {"idle", "start"}
  /\ started # TRUE /\ logged[Main] # 0 => pc[Main] = "start"
  /\ started # TRUE \/ InStart(Main) => logThreads = {}
  /\ logThreads \subseteq {handle}

LEMMA MainIsAThread == Main \in Threads /\ Helpers \subseteq Threads /\ Main \notin Helpers
BY LogerAssumption DEF Threads

\* The steps of a thread that logs keep the invariant.
LEMMA ApendStep ==
  ASSUME IInv, NEW t \in Threads, Apend(t)
  PROVE  IInv'
<1> USE MainIsAThread DEF IInv, Places, InStart, Goto
<1>1. CASE Call(t)
  <2>1. logged' \in [Threads -> Nat]
    BY <1>1 DEF Call
  <2>2. t \in Helpers => started = TRUE
    BY <1>1 DEF Call
  <2>3. t = Main \/ t \in Helpers
    BY DEF Threads
  <2> QED BY <1>1, <2>1, <2>2, <2>3 DEF Call, thread
<1>2. CASE Start(t)
  <2>1. t = Main /\ logThreads = {} /\ \A h \in Helpers : pc[h] = "new"
    BY <1>2 DEF Start
  <2>2. pc'[Main] = "create" /\ \A h \in Helpers : pc'[h] = "new"
    BY <1>2, <2>1 DEF Start
  <2>3. \A u \in Threads : u = Main \/ u \in Helpers
    BY DEF Threads
  <2> QED BY <1>2, <2>1, <2>2, <2>3 DEF Start, Mark
<1>3. CASE Create(t)
  <2>1. t = Main /\ logThreads = {} /\ started = TRUE
    BY <1>3 DEF Create
  <2> QED BY <1>3, <2>1 DEF Create
<1>4. CASE Put(t)
  BY <1>4 DEF Put, thread
<1> QED BY <1>1, <1>2, <1>3, <1>4 DEF Apend

\* So do all others.
LEMMA OtherStep ==
  ASSUME IInv,
         \/ \E l \in LogIds : LogThread(l)
         \/ \E h \in Helpers : Spawn(h) \/ Leave(h)
         \/ Wait \/ Exit \/ Stop \/ UNCHANGED vars
  PROVE  IInv'
<1> USE MainIsAThread DEF IInv, Places, InStart, Goto
<1>1. CASE (\E l \in LogIds : LogThread(l)) \/ Exit \/ UNCHANGED vars
  BY <1>1 DEF LogThread, Get, PrintLine, Exit, vars, callers, thread
<1>2. CASE \E h \in Helpers : Spawn(h)
  <2>1. pc[Main] = "idle" /\ logged[Main] # 0
    BY <1>2 DEF Spawn, MaySpawn
  <2>2. started = TRUE
    BY <2>1
  <2> QED BY <1>2, <2>1, <2>2 DEF Spawn, thread
<1>3. CASE \E h \in Helpers : Leave(h)
  BY <1>3 DEF Leave, thread
<1>4. CASE Wait
  BY <1>4 DEF Wait, Joined, thread
<1>5. CASE Stop
  BY <1>5 DEF Stop, callers
<1> QED BY <1>1, <1>2, <1>3, <1>4, <1>5

\* Loger::apend never makes a second log thread: the one that wait() joins is
\* the only one, so the lines have one printer.
THEOREM OneLogThreadOnly == Spec => []OneLogThread
<1>1. Init => IInv
  BY MainIsAThread DEF Init, IInv, Places, InStart, Threads
<1>2. IInv /\ [Next]_vars => IInv'
  BY ApendStep, OtherStep DEF Next
<1>3. IInv => OneLogThread
  BY MainIsAThread DEF IInv, OneLogThread, InStart, Threads
<1> QED BY <1>1, <1>2, <1>3, PTL DEF Spec

-----------------------------------------------------------------------------
(* The log is a channel.                                                   *)

\* The line the only log thread has taken and not yet printed.
Taken == IF 1 \in LogIds /\ held[1] # Nothing THEN <<held[1]>> ELSE <<>>

\* Every line is either printed, or in the hand of the log thread, or in the
\* queue, and they are in this order.  A line is begun before it is put.
Flow ==
  /\ \A t \in Threads : logged[t] <= MaxLines
  /\ \A t \in Threads : pc[t] \in {"start", "create", "put"} => logged[t] # 0
  /\ logThreads \subseteq {1}
  /\ held \in [LogIds -> Lines \cup {Nothing}]
  /\ queue \in Seq(Lines) /\ put \in Seq(Lines) /\ printed \in Seq(Lines)
  /\ put = (printed \o Taken) \o queue

LEMMA LinesAreLines == Nothing \notin Lines
BY LogerAssumption DEF Lines, Threads

\* The lines on their way, whoever has them.
LEMMA TakenIsASequence ==
  ASSUME Flow
  PROVE  Taken \in Seq(Lines)
BY DEF Flow, Taken

\* The steps of apend() keep the flow.
LEMMA ApendKeepsFlow ==
  ASSUME IInv, Flow, NEW t \in Threads, Apend(t)
  PROVE  Flow' /\ [Channel!Next]_<<put, printed>>
<1>1. /\ logged \in [Threads -> Nat] /\ pc \in [Threads -> Places] /\ MaxLines \in Nat
  BY LogerAssumption DEF IInv
<1>2. CASE Call(t)
  <2>1. /\ \A u \in Threads : logged'[u] <= MaxLines
        /\ \A u \in Threads : pc'[u] \in {"start", "create", "put"} => logged'[u] # 0
    BY <1>1, <1>2 DEF Call, Goto, Flow
  <2>2. UNCHANGED <<logThreads, queue, held, put, printed>>
    BY <1>2 DEF Call, thread, log
  <2> QED BY <2>1, <2>2 DEF Flow, Taken
<1>3. CASE Start(t) \/ Create(t)
  <2>1. /\ \A u \in Threads : pc'[u] \in {"start", "create", "put"} => logged[u] # 0
        /\ UNCHANGED <<logged, queue, held, put, printed>>
    BY <1>1, <1>3 DEF Start, Create, Goto, Flow, log
  <2>2. logThreads' \subseteq {1}
    <3>1. CASE Start(t)
      BY <3>1 DEF Start, Flow
    <3>2. CASE Create(t)
      <4>1. logThreads = {}
        BY <3>2, MainIsAThread DEF Create, IInv, InStart
      <4>2. Cardinality(logThreads) + 1 = 1
        BY <4>1, FS_EmptySet
      <4> QED BY <3>2, <4>1, <4>2 DEF Create
    <3> QED BY <1>3, <3>1, <3>2
  <2> QED BY <2>1, <2>2 DEF Flow, Taken
<1>4. CASE Put(t)
  <2> DEFINE line == <<t, logged[t]>>
  <2>1. /\ queue' = Append(queue, line) /\ put' = Append(put, line)
        /\ UNCHANGED <<logged, logThreads, held, printed>>
        /\ pc[t] = "put" /\ pc' = [pc EXCEPT ![t] = "idle"]
    BY <1>4 DEF Put, Goto, thread
  <2>2. line \in Lines
    BY <1>1, <2>1 DEF Flow, Lines
  <2> HIDE DEF line
  <2>3. Taken' = Taken /\ Taken \in Seq(Lines)
    BY <2>1, TakenIsASequence DEF Taken
  <2>4. put' = (printed' \o Taken') \o queue'
    <3> DEFINE before == printed \o Taken
    <3>1. /\ before \in Seq(Lines) /\ queue \in Seq(Lines) /\ put \in Seq(Lines)
          /\ <<line>> \in Seq(Lines) /\ put = before \o queue
      BY <2>2, <2>3 DEF Flow
    <3>2. printed' \o Taken' = before
      BY <2>1, <2>3
    <3> HIDE DEF before
    <3>3. (before \o queue) \o <<line>> = before \o (queue \o <<line>>)
      BY <3>1, ConcatAssociative
    <3>4. put' = put \o <<line>> /\ queue' = queue \o <<line>>
      BY <2>1, <2>2, <3>1
    <3> QED BY <3>1, <3>2, <3>3, <3>4
  <2>5. \A u \in Threads : pc'[u] \in {"start", "create", "put"} => logged'[u] # 0
    BY <1>1, <2>1 DEF Flow
  <2>6. Flow'
    <3>1. queue' \in Seq(Lines) /\ put' \in Seq(Lines)
      BY <2>1, <2>2 DEF Flow
    <3> QED BY <2>1, <2>4, <2>5, <3>1 DEF Flow
  <2> QED BY <2>1, <2>2, <2>6 DEF Channel!Next, Channel!Put
<1> QED BY <1>2, <1>3, <1>4 DEF Apend

\* So do the steps of the log thread: what it prints is the next line put.
LEMMA LogThreadKeepsFlow ==
  ASSUME Flow, NEW l \in LogIds, LogThread(l)
  PROVE  Flow' /\ [Channel!Next]_<<put, printed>>
<1>1. l = 1 /\ l \in LogIds
  BY DEF LogThread, Get, PrintLine, Flow
<1>2. /\ queue \in Seq(Lines) /\ put \in Seq(Lines) /\ printed \in Seq(Lines)
      /\ held \in [LogIds -> Lines \cup {Nothing}] /\ put = (printed \o Taken) \o queue
  BY DEF Flow
<1>3. CASE Get(l)
  <2>1. /\ queue # <<>> /\ held' = [held EXCEPT ![1] = Head(queue)] /\ queue' = Tail(queue)
        /\ held[1] = Nothing
        /\ UNCHANGED <<pc, logged, logThreads, put, printed>>
    BY <1>1, <1>3 DEF Get, callers, thread
  <2>2. /\ Head(queue) \in Lines /\ queue' \in Seq(Lines) /\ queue = <<Head(queue)>> \o queue'
    BY <1>2, <2>1
  <2>3. Taken = <<>> /\ Taken' = <<Head(queue)>>
    <3>1. held'[1] = Head(queue)
      BY <1>1, <1>2, <2>1
    <3> QED BY <1>1, <2>1, <2>2, <3>1, LinesAreLines DEF Taken
  <2>4. put' = (printed' \o Taken') \o queue'
    <3>1. put = printed \o queue
      BY <1>2, <2>3
    <3>2. <<Head(queue)>> \in Seq(Lines)
      BY <2>2
    <3>3. (printed \o <<Head(queue)>>) \o queue' = printed \o (<<Head(queue)>> \o queue')
      BY <1>2, <2>2, <3>2, ConcatAssociative, SMTT(30)
    <3> QED BY <2>1, <2>2, <2>3, <3>1, <3>3
  <2>5. held' \in [LogIds -> Lines \cup {Nothing}]
    BY <1>2, <2>1, <2>2
  <2> QED BY <2>1, <2>2, <2>4, <2>5 DEF Flow
<1>4. CASE PrintLine(l)
  <2>1. /\ held[1] # Nothing /\ printed' = Append(printed, held[1])
        /\ held' = [held EXCEPT ![1] = Nothing]
        /\ UNCHANGED <<pc, logged, logThreads, put, queue>>
    BY <1>1, <1>4 DEF PrintLine, callers, thread
  <2>2. held[1] \in Lines /\ held'[1] = Nothing /\ held' \in [LogIds -> Lines \cup {Nothing}]
    BY <1>1, <1>2, <2>1
  <2>3. Taken = <<held[1]>> /\ Taken' = <<>>
    BY <1>1, <2>1, <2>2 DEF Taken
  <2>4. printed' = printed \o Taken /\ printed' \in Seq(Lines)
    BY <1>2, <2>1, <2>2, <2>3
  <2>5. put' = (printed' \o Taken') \o queue'
    BY <1>2, <2>1, <2>3, <2>4
  <2>6. Flow'
    BY <2>1, <2>2, <2>4, <2>5 DEF Flow
  <2> DEFINE k == Len(printed) + 1
  <2>7. put = printed' \o queue
    BY <1>2, <2>4
  <2>8. /\ Len(printed') = k /\ Len(put) = k + Len(queue)
        /\ k \in Len(printed) + 1 .. Len(put) /\ k \in Nat
    <3>1. Len(printed') = Len(printed) + 1 /\ Len(put) = Len(printed') + Len(queue)
      <4>1. Len(printed') = Len(printed) + 1
        BY <1>2, <2>1, <2>2
      <4>2. Len(put) = Len(printed') + Len(queue)
        BY <1>2, <2>4, <2>7, ConcatProperties
      <4> QED BY <4>1, <4>2
    <3>2. Len(printed) \in Nat /\ Len(queue) \in Nat
      BY <1>2
    <3> QED BY <3>1, <3>2
  <2>9. \A i \in 1 .. k : put[i] = printed'[i]
    BY <1>2, <2>4, <2>7, <2>8, ConcatProperties
  <2>10. /\ SubSeq(put, 1, k) \in Seq(Lines) /\ Len(SubSeq(put, 1, k)) = k
         /\ \A i \in 1 .. k : SubSeq(put, 1, k)[i] = put[i]
    BY <1>2, <2>8
  <2> HIDE DEF k
  <2>11. printed' = SubSeq(put, 1, k)
    BY <2>4, <2>8, <2>9, <2>10, SeqEqual
  <2>12. Channel!Get
    BY <2>1, <2>8, <2>11 DEF Channel!Get
  <2> QED BY <2>6, <2>12 DEF Channel!Next
<1> QED BY <1>3, <1>4 DEF LogThread

\* All others leave the lines alone.
LEMMA OthersKeepFlow ==
  ASSUME IInv, Flow,
         (\E h \in Helpers : Spawn(h) \/ Leave(h)) \/ Wait \/ Exit \/ Stop \/ UNCHANGED vars
  PROVE  Flow' /\ UNCHANGED <<put, printed>>
<1>1. /\ UNCHANGED <<logged, queue, held, put, printed>> /\ logThreads' \subseteq logThreads
  BY DEF Spawn, Leave, Wait, Exit, Stop, vars, log, thread, callers
<1>2. \A t \in Threads : pc'[t] \in {"start", "create", "put"} => pc'[t] = pc[t]
  BY MainIsAThread DEF Spawn, Leave, Wait, Exit, Stop, Goto, vars, callers, IInv
<1> QED BY <1>1, <1>2 DEF Flow, Taken

\* Loger is a channel for any number of threads and lines: with its one log thread
\* and the queue, lines are printed in the order they were put, each once.
THEOREM LogRefinesChannel == Spec => LogIsAChannel
<1>1. Init => IInv /\ Flow /\ Channel!Init
  <2> SUFFICES ASSUME Init PROVE IInv /\ Flow /\ Channel!Init
    OBVIOUS
  <2>1. IInv /\ Channel!Init
    BY MainIsAThread DEF Init, IInv, Places, InStart, Threads, Channel!Init
  <2>2. Taken = <<>>
    BY DEF Init, Taken
  <2>3. /\ \A t \in Threads : logged[t] <= MaxLines
        /\ \A t \in Threads : pc[t] \in {"start", "create", "put"} => logged[t] # 0
        /\ held \in [LogIds -> Lines \cup {Nothing}]
    BY LogerAssumption DEF Init
  <2>4. queue = <<>> /\ put = <<>> /\ printed = <<>> /\ logThreads = {}
    BY DEF Init
  <2> QED BY <2>1, <2>2, <2>3, <2>4 DEF Flow
<1>2. IInv /\ Flow /\ [Next]_vars => IInv' /\ Flow' /\ [Channel!Next]_<<put, printed>>
  <2>1. IInv /\ [Next]_vars => IInv'
    BY ApendStep, OtherStep DEF Next
  <2> QED BY <2>1, ApendKeepsFlow, LogThreadKeepsFlow, OthersKeepFlow DEF Next
<1> QED BY <1>1, <1>2, PTL DEF Spec, LogIsAChannel, Channel!SafeSpec
=============================================================================
