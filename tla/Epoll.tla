------------------------------- MODULE Epoll -------------------------------
(***************************************************************************)
(* The epoll thread of the cache node (cache-node/epoll.h, epoll.cpp): its *)
(* start, the event loop, the accepting of clients, the table of           *)
(* connections indexed by socket number, the reuse of socket numbers, and  *)
(* the messages it puts into the queue `out'.                              *)
(*                                                                         *)
(* A client sends a script: a sequence of parts, of which "start" and      *)
(* "end" are flagStart and flagEnd and "payload" is a piece of a package.  *)
(* Escapes are PackageMonitor's matter; here put() has its two other       *)
(* states, and what the monitor collects is the places the pieces come     *)
(* from, <<client, index>>, so that it can be told whose they are.         *)
(***************************************************************************)
EXTENDS Integers, Sequences

CONSTANTS
  Clients, Nobody,
  Elsewhere,         \* neither a client nor nobody: some other file
  OtherFiles,        \* the sets of descriptors the rest of the process may hold
  Scripts,           \* what the clients may set out to send
  FirstSock,         \* the first descriptor a client can get
  LastSock,          \* the last one: the limit on open descriptors
  BufferSize,        \* Epoll::buffer, 1024 bytes
  HeaderLength       \* the pieces that hold the token: 9 bytes

Socks == FirstSock .. LastSock
bsock == FirstSock - 1      \* the listening socket was opened before them
Parts == {"start", "payload", "end"}

ASSUME EpollAssumption ==
  /\ Nobody \notin Clients /\ Elsewhere \notin Clients /\ Nobody # Elsewhere
  /\ OtherFiles \subseteq SUBSET Socks
  /\ Scripts \subseteq [Clients -> Seq(Parts)]
  /\ FirstSock \in Nat \ {0} /\ LastSock \in Nat
  /\ BufferSize \in Nat \ {0} /\ HeaderLength \in Nat

VARIABLES
  \* the clients
  script, sent,      \* what each sends, and how many parts of it are sent
  hang,              \* "no", "shut": it has closed its socket, "reset"
  \* the kernel
  backlog,           \* clients that have connected and wait for accept()
  edge,              \* the listening socket has news for epoll_wait
  peer,              \* who is at the other end of each descriptor
  got,               \* how many parts of each client recv() has returned
  \* the node
  port,              \* the constructor has stored the port
  listening,         \* "no", "port", or "elsewhere": bound to port 0
  at,                \* where the thread is
  epEvents,          \* the events of this round still to be handled
  sock,              \* the socket of the event being handled
  read,              \* how many parts of each client put() has gone through
  lists,             \* the packages this recv loop has collected
  sock2Connection, baseSid,
  out,               \* the messages put into the queue, ever
  alive,             \* FALSE: an exception nobody caught
  \* history
  session,           \* the session id each client was given
  refused            \* accept() has failed for want of descriptors

clients == <<script, sent, hang>>
startup == <<port, listening>>
table == <<sock2Connection, baseSid, session>>
vars == <<script, sent, hang, backlog, edge, peer, got, port, listening, at, epEvents, sock,
          read, lists, sock2Connection, baseSid, out, alive, session, refused>>

\* A slot of the table: Connection, with the monitor in it.
Slot == [sid : Nat, sock : Socks \cup {-1}, stat : {"START", "END"}, data : Seq(Clients \X Nat)]
Message == [sock : Socks, sid : Nat \ {0}, data : Seq(Clients \X Nat)]

\* Connection::clear(), and what resize() fills the table with.
Clear == [sid |-> 0, sock |-> -1, stat |-> "START", data |-> <<>>]

TypeOK ==
  /\ script \in Scripts /\ sent \in [Clients -> Nat]
  /\ hang \in [Clients -> {"no", "shut", "reset"}]
  /\ backlog \in Seq(Clients) /\ edge \in BOOLEAN
  /\ peer \in [Socks -> Clients \cup {Nobody, Elsewhere}]
  /\ got \in [Clients -> Nat] /\ read \in [Clients -> Nat]
  /\ port \in BOOLEAN /\ listening \in {"no", "port", "elsewhere"}
  /\ at \in {"bind", "wait", "events", "accept", "recv", "put", "ended"}
  /\ epEvents \subseteq (Socks \cup {bsock}) \X (Clients \cup {Nobody})
  /\ sock \in Socks \cup {bsock}
  /\ lists \in Seq(Seq(Clients \X Nat))
  /\ \E size \in 0 .. LastSock + 1 : sock2Connection \in [0 .. size - 1 -> Slot]
  /\ baseSid \in Nat \ {0}
  /\ out \in Seq(Message)
  /\ alive \in BOOLEAN /\ session \in [Clients -> Nat] /\ refused \in BOOLEAN

Init ==
  /\ script \in Scripts
  /\ sent = [c \in Clients |-> 0] /\ hang = [c \in Clients |-> "no"]
  /\ backlog = <<>> /\ edge = FALSE
  /\ \E held \in OtherFiles : peer = [s \in Socks |-> IF s \in held THEN Elsewhere ELSE Nobody]
  /\ got = [c \in Clients |-> 0]
  /\ port = FALSE /\ listening = "no"
  /\ at = "bind" /\ epEvents = {} /\ sock = bsock
  /\ read = [c \in Clients |-> 0] /\ lists = <<>>
  /\ sock2Connection = <<>> /\ baseSid = 1
  /\ out = <<>> /\ alive = TRUE
  /\ session = [c \in Clients |-> 0] /\ refused = FALSE

-----------------------------------------------------------------------------
(* The clients and the kernel.                                             *)

Waiting(c) == \E i \in 1 .. Len(backlog) : backlog[i] = c
Open(c) == \E s \in Socks : peer[s] = c
Connected(c) == Waiting(c) \/ Open(c)

\* The kernel completes a connection whether or not anyone calls accept().
Connect(c) ==
  /\ alive /\ listening = "port"
  /\ ~Waiting(c) /\ session[c] = 0
  /\ backlog' = Append(backlog, c) /\ edge' = TRUE
  /\ UNCHANGED <<clients, peer, got, startup, at, epEvents, sock, read, lists, table, out,
                 alive, refused>>

Send(c) ==
  /\ alive /\ Connected(c) /\ hang[c] = "no" /\ sent[c] < Len(script[c])
  /\ sent' = [sent EXCEPT ![c] = @ + 1]
  /\ UNCHANGED <<script, hang, backlog, edge, peer, got, startup, at, epEvents, sock, read,
                 lists, table, out, alive, refused>>

\* close() in the client, wherever it is in its script.
Shut(c) ==
  /\ alive /\ Connected(c) /\ hang[c] = "no"
  /\ hang' = [hang EXCEPT ![c] = "shut"]
  /\ UNCHANGED <<script, sent, backlog, edge, peer, got, startup, at, epEvents, sock, read,
                 lists, table, out, alive, refused>>

\* The connection breaks: what was in flight may not arrive.
Reset(c) ==
  /\ alive /\ Connected(c) /\ hang[c] = "no"
  /\ hang' = [hang EXCEPT ![c] = "reset"]
  /\ \E n \in got[c] .. sent[c] : sent' = [sent EXCEPT ![c] = n]
  /\ UNCHANGED <<script, backlog, edge, peer, got, startup, at, epEvents, sock, read,
                 lists, table, out, alive, refused>>

-----------------------------------------------------------------------------
(* The start: the constructor makes the thread, then stores the port.      *)

StorePort ==
  /\ alive /\ ~port /\ port' = TRUE
  /\ UNCHANGED <<clients, backlog, edge, peer, got, listening, at, epEvents, sock, read,
                 lists, table, out, alive, refused>>

\* bind() and listen() with whatever the port is now; 0 is any free port.
Bind ==
  /\ alive /\ at = "bind"
  /\ listening' = IF port THEN "port" ELSE "elsewhere"
  /\ at' = "wait"
  /\ UNCHANGED <<clients, backlog, edge, peer, got, port, epEvents, sock, read, lists, table,
                 out, alive, refused>>

\* bind() or epoll_wait() returns -1: the thread ends, the process goes on.
ThreadEnds ==
  /\ alive /\ at \in {"bind", "wait"}
  /\ at' = "ended"
  /\ UNCHANGED <<clients, backlog, edge, peer, got, startup, epEvents, sock, read, lists,
                 table, out, alive, refused>>

-----------------------------------------------------------------------------
(* The event loop.                                                         *)

\* Client sockets are level-triggered: data to read, or the end of it.
Readable(s) ==
  peer[s] \in Clients /\ (got[peer[s]] < sent[peer[s]] \/ hang[peer[s]] # "no")

\* What epoll_wait has to report.  An event carries, as history, whose it is.
Ready == {<<s, peer[s]>> : s \in {s \in Socks : Readable(s)}}
         \cup (IF edge THEN {<<bsock, Nobody>>} ELSE {})

\* epoll_wait returns.  The listening socket is edge-triggered: it is
\* reported once for what has come so far.
Wait ==
  /\ alive /\ at = "wait" /\ Ready # {}
  /\ epEvents' = Ready /\ edge' = FALSE
  /\ at' = "events"
  /\ UNCHANGED <<clients, backlog, peer, got, startup, sock, read, lists, table, out, alive,
                 refused>>

NextEvent ==
  /\ alive /\ at = "events"
  /\ \E ev \in epEvents :
       /\ sock' = ev[1]
       /\ at' = IF ev[1] = bsock THEN "accept" ELSE "recv"
       /\ epEvents' = epEvents \ {ev}
  /\ lists' = <<>>
  /\ UNCHANGED <<clients, backlog, edge, peer, got, startup, read, table, out, alive, refused>>

EventsDone ==
  /\ alive /\ at = "events" /\ epEvents = {}
  /\ at' = "wait"
  /\ UNCHANGED <<clients, backlog, edge, peer, got, startup, epEvents, sock, read, lists,
                 table, out, alive, refused>>

-----------------------------------------------------------------------------
(* Accepting.                                                              *)

FreeSocks == {s \in Socks : peer[s] = Nobody}

\* resize(csock + 1) if the table is not long enough.
Resized(csock) ==
  IF csock \in DOMAIN sock2Connection THEN sock2Connection
  ELSE [s \in 0 .. csock |-> IF s \in DOMAIN sock2Connection THEN sock2Connection[s] ELSE Clear]

\* The slot with the session written into it; the monitor is left as it was.
InUse(csock) == [sid |-> baseSid + 1, sock |-> csock,
                 stat |-> Resized(csock)[csock].stat, data |-> Resized(csock)[csock].data]

\* A mistake the run must notice: one client for each event.
AcceptOnce == at' = "events"

AcceptOn == UNCHANGED at

\* accept() gives the client the lowest free descriptor; the thread gives it
\* the next session id and writes both into the table, not the monitor.
Accept ==
  /\ alive /\ at = "accept" /\ backlog # <<>>
  /\ \E csock \in FreeSocks :
       /\ \A s \in FreeSocks : csock <= s
       /\ peer' = [peer EXCEPT ![csock] = Head(backlog)]
       /\ sock2Connection' = [Resized(csock) EXCEPT ![csock] = InUse(csock)]
  /\ baseSid' = baseSid + 1
  /\ session' = [session EXCEPT ![Head(backlog)] = baseSid + 1]
  /\ backlog' = Tail(backlog) /\ AcceptOn
  /\ UNCHANGED <<clients, edge, got, startup, epEvents, sock, read, lists, out, alive, refused>>

\* accept() fails for want of descriptors; the backlog stays as it is.
AcceptFails ==
  /\ alive /\ at = "accept" /\ backlog # <<>> /\ FreeSocks = {}
  /\ at' = "events" /\ refused' = TRUE
  /\ UNCHANGED <<clients, backlog, edge, peer, got, startup, epEvents, sock, read, lists,
                 table, out, alive>>

\* accept() says EAGAIN.
AcceptDone ==
  /\ alive /\ at = "accept" /\ backlog = <<>>
  /\ at' = "events"
  /\ UNCHANGED <<clients, backlog, edge, peer, got, startup, epEvents, sock, read, lists,
                 table, out, alive, refused>>

-----------------------------------------------------------------------------
(* Receiving.                                                              *)

connection == sock2Connection[sock]

\* Mistakes the run must notice: a slot keeps its session, or the bytes of an
\* unfinished package, and the loop over recv() is not left.
ClearMonitor(slot) == [sid |-> slot.sid, sock |-> slot.sock, stat |-> "START", data |-> <<>>]
ClearSession(slot) == [sid |-> 0, sock |-> -1, stat |-> slot.stat, data |-> slot.data]
GoOnReceiving == at' = "recv"

ClearSlot(slot) == Clear
LeaveLoop == at' = "events"

\* EPOLL_CTL_DEL, close(), connection.clear(), and the loop is left.
Close ==
  /\ peer' = [peer EXCEPT ![sock] = Nobody]
  /\ sock2Connection' = [sock2Connection EXCEPT ![sock] = ClearSlot(@)]
  /\ LeaveLoop

\* recv() returns between one part and a buffer full.
Recv ==
  /\ alive /\ at = "recv"
  /\ LET c == peer[sock]
     IN  \E n \in got[c] + 1 .. sent[c] :
           /\ n - got[c] <= BufferSize
           /\ got' = [got EXCEPT ![c] = n]
  /\ at' = "put"
  /\ UNCHANGED <<clients, backlog, edge, peer, startup, epEvents, sock, read, lists, table,
                 out, alive, refused>>

\* A mistake the run must notice: every error of recv() is taken for EAGAIN.
OverAtEof(c) == hang[c] = "shut"

Over(c) == hang[c] # "no"

\* recv() returns 0, or -1 with an error other than EAGAIN.
RecvEnds ==
  /\ alive /\ at = "recv" /\ got[peer[sock]] = sent[peer[sock]] /\ Over(peer[sock])
  /\ Close
  /\ UNCHANGED <<clients, backlog, edge, got, startup, epEvents, sock, read, lists, baseSid,
                 out, alive, session, refused>>

\* recv() says EAGAIN.
RecvAgain ==
  /\ alive /\ at = "recv" /\ got[peer[sock]] = sent[peer[sock]] /\ ~Over(peer[sock])
  /\ at' = "events"
  /\ UNCHANGED <<clients, backlog, edge, peer, got, startup, epEvents, sock, read, lists,
                 table, out, alive, refused>>

\* put() is at the next part of what recv() returned.
Putting == alive /\ at = "put" /\ read[peer[sock]] < got[peer[sock]]
Place == <<peer[sock], read[peer[sock]] + 1>>
Part == script[Place[1]][Place[2]]

PutDone(stat, data) ==
  /\ sock2Connection' = [sock2Connection EXCEPT ![sock] =
       [sid |-> connection.sid, sock |-> connection.sock, stat |-> stat, data |-> data]]
  /\ read' = [read EXCEPT ![peer[sock]] = @ + 1]
  /\ UNCHANGED <<clients, backlog, edge, peer, got, startup, at, epEvents, sock, baseSid, out,
                 alive, session, refused>>

PutStart ==
  /\ Putting /\ connection.stat = "START" /\ Part = "start"
  /\ PutDone("END", connection.data) /\ UNCHANGED lists

PutPayload ==
  /\ Putting /\ connection.stat = "END" /\ Part # "end"
  /\ PutDone("END", Append(connection.data, Place)) /\ UNCHANGED lists

\* A mistake the run must notice: data moved from is not empty afterwards.
MovedFrom(data) == data

Moved(data) == <<>>

PutEnd ==
  /\ Putting /\ connection.stat = "END" /\ Part = "end"
  /\ PutDone("START", Moved(connection.data)) /\ lists' = Append(lists, connection.data)

\* put() returns -1: the connection is closed, and lists goes with the scope.
PutFails ==
  /\ Putting /\ connection.stat = "START" /\ Part # "start"
  /\ Close /\ lists' = <<>>
  /\ UNCHANGED <<clients, backlog, edge, got, startup, epEvents, sock, read, baseSid, out,
                 alive, session, refused>>

Returned == alive /\ at = "put" /\ read[peer[sock]] = got[peer[sock]]

\* A mistake the run must notice: only one package is passed on.
NoRest == <<>>

Rest == Tail(lists)

\* One package of those put() has collected becomes a message.
Deliver ==
  /\ Returned /\ lists # <<>> /\ Len(Head(lists)) >= HeaderLength
  /\ out' = Append(out, [sock |-> connection.sock, sid |-> connection.sid, data |-> Head(lists)])
  /\ lists' = Rest
  /\ UNCHANGED <<clients, backlog, edge, peer, got, startup, at, epEvents, sock, read, table,
                 alive, refused>>

\* The constructor of Message throws, and nobody catches it.
DeliverThrows ==
  /\ Returned /\ lists # <<>> /\ Len(Head(lists)) < HeaderLength
  /\ alive' = FALSE
  /\ UNCHANGED <<clients, backlog, edge, peer, got, startup, at, epEvents, sock, read, lists,
                 table, out, refused>>

\* All are delivered: the next recv().
Delivered ==
  /\ Returned /\ lists = <<>>
  /\ at' = "recv"
  /\ UNCHANGED <<clients, backlog, edge, peer, got, startup, epEvents, sock, read, lists,
                 table, out, alive, refused>>

EpollThread ==
  \/ Bind \/ Wait \/ NextEvent \/ EventsDone
  \/ Accept \/ AcceptFails \/ AcceptDone
  \/ Recv \/ RecvEnds \/ RecvAgain
  \/ PutStart \/ PutPayload \/ PutEnd \/ PutFails
  \/ Deliver \/ DeliverThrows \/ Delivered

Client(c) == Connect(c) \/ Send(c) \/ Shut(c) \/ Reset(c)

EpollNext == EpollThread \/ ThreadEnds \/ StorePort \/ \E c \in Clients : Client(c)

-----------------------------------------------------------------------------
(* Properties.                                                             *)

\* The table tells the truth about the sockets: a slot is in use exactly
\* while its descriptor is open, and then holds the session of the client at
\* the other end; a slot that is not in use is as clear as a new one.  The
\* warning that a connection in use is overwritten (epoll.cpp:120) is
\* therefore never logged, though numbers are used again and again.
TableTellsSockets ==
  /\ \A s \in Socks : peer[s] \in Clients =>
       /\ s \in DOMAIN sock2Connection
       /\ sock2Connection[s].sid = session[peer[s]] /\ sock2Connection[s].sid # 0
       /\ sock2Connection[s].sock = s
  /\ \A s \in DOMAIN sock2Connection :
       (s \in Socks => peer[s] \notin Clients) => sock2Connection[s] = Clear

\* An event is never handled for anyone but the client it was raised for,
\* though other events of the same round close sockets and accept clients
\* onto them.
EventsAreFresh ==
  /\ \A ev \in epEvents : ev[1] # bsock => peer[ev[1]] = ev[2]
  /\ at \in {"recv", "put"} => peer[sock] \in Clients

\* A message holds pieces of one client only, the one whose session it names.
MessagesAreFromTheirSession ==
  \A i \in 1 .. Len(out) : \A j \in 1 .. Len(out[i].data) :
    session[out[i].data[j][1]] = out[i].sid
=============================================================================
