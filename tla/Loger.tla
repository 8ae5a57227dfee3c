------------------------------- MODULE Loger -------------------------------
(***************************************************************************)
(* class Loger (com/loger.h): lines are put into a queue, and a thread of  *)
(* its own prints them.  The first line starts that thread; no lock guards *)
(* the flag that tells whether it was started.  That is safe because every *)
(* program's main() has logged a line, itself or in CSVHelper's            *)
(* constructor, before it makes the threads that log too (Spawn).          *)
(*                                                                         *)
(* Queue is a channel (Queue.tla), and here it is just a sequence.  A line *)
(* is named <<t, n>>: the n-th that thread t logs.                         *)
(***************************************************************************)
EXTENDS Naturals, Sequences, FiniteSets

CONSTANTS
  Main, Helpers,   \* the thread of main(), and those it makes and joins
  MaxLines,        \* bound on the lines of each
  Nothing          \* no line

ASSUME LogerAssumption ==
  Main \notin Helpers /\ MaxLines \in Nat /\ Nothing \notin (Helpers \cup {Main}) \X Nat

VARIABLES
  pc,           \* where each thread is: in apend(), or where its life is
  logged,       \* the lines it has begun to log
  started,      \* _logStarted
  logThreads,   \* the log threads there are: the first made is 1, and so on
  handle,       \* _logThread; 0 before any was made
  held,         \* what each log thread has taken and not yet printed
  queue,        \* _msgQue
  put, printed, \* history: all lines put, all lines printed
  exited        \* the process has ended

callers == <<pc, logged>>
log == <<queue, held, put, printed>>
thread == <<started, logThreads, handle>>
vars == <<pc, logged, started, logThreads, handle, held, queue, put, printed, exited>>

Threads == Helpers \cup {Main}
Lines == Threads \X (1 .. MaxLines)
LogIds == 1 .. Cardinality(Threads)

Init ==
  /\ pc = [t \in Threads |-> IF t = Main THEN "idle" ELSE "new"]
  /\ logged = [t \in Threads |-> 0]
  /\ started = FALSE /\ logThreads = {} /\ handle = 0
  /\ held = [l \in LogIds |-> Nothing]
  /\ queue = <<>> /\ put = <<>> /\ printed = <<>>
  /\ exited = FALSE

Goto(t, s) == pc' = [pc EXCEPT ![t] = s]

\* log(), err(), warning() or fatal(): apend() reads the flag.
Call(t) ==
  /\ pc[t] = "idle" /\ logged[t] < MaxLines
  /\ logged' = [logged EXCEPT ![t] = @ + 1]
  /\ Goto(t, IF started THEN "put" ELSE "start")
  /\ UNCHANGED <<thread, log, exited>>

\* A mistake the run must notice: the flag is not set.
MarkForgotten == UNCHANGED started

Mark == started' = TRUE

\* start() sets the flag, and goes on whatever it was,
Start(t) ==
  /\ pc[t] = "start"
  /\ Mark
  /\ Goto(t, "create")
  /\ UNCHANGED <<logged, logThreads, handle, log, exited>>

\* to make a thread, whether or not there is one.  That may fail, and nobody asks.
Create(t) ==
  /\ pc[t] = "create"
  /\ \/ handle' = Cardinality(logThreads) + 1 /\ logThreads' = logThreads \cup {handle'}
     \/ UNCHANGED <<handle, logThreads>>
  /\ Goto(t, "put")
  /\ UNCHANGED <<logged, started, log, exited>>

\* _msgQue.put()
Put(t) ==
  /\ pc[t] = "put"
  /\ queue' = Append(queue, <<t, logged[t]>>) /\ put' = Append(put, <<t, logged[t]>>)
  /\ Goto(t, "idle")
  /\ UNCHANGED <<logged, thread, held, printed, exited>>

\* A mistake the run must notice: the log thread does not loop.
AgainOnce == printed = <<>>

Again == TRUE

\* log_thread() takes a line,
Get(l) ==
  /\ l \in logThreads /\ held[l] = Nothing /\ queue # <<>> /\ Again
  /\ held' = [held EXCEPT ![l] = Head(queue)] /\ queue' = Tail(queue)
  /\ UNCHANGED <<callers, thread, put, printed, exited>>

\* and prints it.
PrintLine(l) ==
  /\ l \in logThreads /\ held[l] # Nothing
  /\ printed' = Append(printed, held[l]) /\ held' = [held EXCEPT ![l] = Nothing]
  /\ UNCHANGED <<callers, thread, queue, put, exited>>

\* A mistake the run must notice: the threads are made before anything is logged.
MaySpawnAtOnce == pc[Main] = "idle"

MaySpawn == pc[Main] = "idle" /\ logged[Main] > 0

Spawn(h) ==
  /\ pc[h] = "new" /\ MaySpawn
  /\ Goto(h, "idle")
  /\ UNCHANGED <<logged, thread, log, exited>>

\* A helper's function returns.
Leave(h) ==
  /\ pc[h] = "idle"
  /\ Goto(h, "gone")
  /\ UNCHANGED <<logged, thread, log, exited>>

Joined == pc[Main] = "idle" /\ \A h \in Helpers : pc[h] \in {"new", "gone"}

\* Loger::wait() joins a thread that never ends.  If there is none, that fails or
\* crashes: then the program ends, as it does when main() returns without waiting
\* (extra, client).
Wait ==
  /\ Joined /\ handle \in logThreads
  /\ Goto(Main, "wait")
  /\ UNCHANGED <<logged, thread, log, exited>>

Exit ==
  /\ Joined /\ exited' = TRUE
  /\ UNCHANGED <<callers, thread, log>>

\* Loger::stop(), which nobody calls, cancels the log thread where it takes a
\* line or prints one.
Stop ==
  /\ Joined /\ handle \in logThreads
  /\ logThreads' = logThreads \ {handle}
  /\ UNCHANGED <<callers, started, handle, log, exited>>

Apend(t) == Call(t) \/ Start(t) \/ Create(t) \/ Put(t)

LogThread(l) == Get(l) \/ PrintLine(l)

Next ==
  /\ exited = FALSE
  /\ \/ \E t \in Threads : Apend(t)
     \/ \E l \in LogIds : LogThread(l)
     \/ \E h \in Helpers : Spawn(h) \/ Leave(h)
     \/ Wait \/ Exit \/ Stop

Spec == Init /\ [][Next]_vars

\* A log thread loops for ever, and the system runs it.
FairSpec == Spec /\ \A l \in LogIds : WF_vars(exited = FALSE /\ LogThread(l))

-----------------------------------------------------------------------------
\* The flag is enough without a lock: no two threads ever start the log, so
\* there is one log thread at most, and it is the one that wait() joins.
OneLogThread ==
  /\ \A t, u \in Threads : pc[t] \in {"start", "create"} /\ pc[u] # "new" => t = u
  /\ logThreads \subseteq {handle}

Channel == INSTANCE Fifo WITH Values <- Lines, got <- printed

\* The log is a channel: lines come out in the order they were put, each once,
\* whoever logged them.
LogIsAChannel == Channel!SafeSpec

\* A program that waits loses no line: all of them get printed.
WaitPrintsAll == pc[Main] = "wait" ~> printed = put
=============================================================================
