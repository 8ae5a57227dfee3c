---------------------------- MODULE EpollProofs ----------------------------
(***************************************************************************)
(* Proofs about the epoll thread in the cache node: the table of           *)
(* connections is right about the sockets, events and messages are of whom *)
(* they seem to be, for any clients, scripts, descriptors and buffer.      *)
(***************************************************************************)
EXTENDS CacheNode, FiniteSetTheorems, TLAPS

USE DEF AcceptOn, ClearSlot, LeaveLoop, Over, Moved, Rest

\* The events that wait are of open sockets, and the newcomers' event.
EventsAreOpen ==
  \A ev \in epEvents :
    \/ ev[1] = bsock /\ ev[2] = Nobody
    \/ ev[1] \in Socks /\ ev[2] \in Clients /\ peer[ev[1]] = ev[2]

\* The event at hand is of an open socket, and the only one of it.
Handling ==
  /\ at \in {"recv", "put"} => sock \in Socks /\ peer[sock] \in Clients
  /\ at \in {"accept", "recv", "put"} => \A ev \in epEvents : ev[1] # sock

\* A client is at one place only, and has a session once it is accepted.
PeersDiffer ==
  /\ \A s, t \in Socks : peer[s] = peer[t] /\ peer[s] \in Clients => s = t
  /\ \A i, j \in 1 .. Len(backlog) : backlog[i] = backlog[j] => i = j
  /\ \A i \in 1 .. Len(backlog) : session[backlog[i]] = 0
  /\ \A s \in Socks : peer[s] \in Clients => session[peer[s]] # 0

\* What a monitor has collected is of the client at the other end.
MonitorsHoldTheirs ==
  /\ \A s \in DOMAIN sock2Connection : \A j \in 1 .. Len(sock2Connection[s].data) :
       s \in Socks /\ sock2Connection[s].data[j][1] = peer[s]
  /\ at = "recv" => lists = <<>>
  /\ at = "put" =>
       \A k \in 1 .. Len(lists) : \A j \in 1 .. Len(lists[k]) : lists[k][j][1] = peer[sock]

Deep ==
  /\ EventsAreOpen /\ Handling /\ PeersDiffer
  /\ TableTellsSockets /\ MonitorsHoldTheirs /\ MessagesAreFromTheirSession

IInv == TypeOK /\ Deep

-----------------------------------------------------------------------------
USE EpollAssumption, CacheNodeAssumption

LEMMA Listener == bsock \in Nat /\ bsock \notin Socks /\ Socks \subseteq Nat
  BY DEF bsock, Socks

LEMMA ClearIsSlot == Clear \in Slot
  BY DEF Clear, Slot

LEMMA InitHolds == NodeInit => IInv
<1> SUFFICES ASSUME NodeInit PROVE IInv
  OBVIOUS
<1> USE DEF NodeInit, Init
<1>1. TypeOK
  <2>1. PICK held \in OtherFiles :
          peer = [s \in Socks |-> IF s \in held THEN Elsewhere ELSE Nobody]
    OBVIOUS
  <2>2. peer \in [Socks -> Clients \cup {Nobody, Elsewhere}]
    BY <2>1
  <2>3. \E size \in 0 .. LastSock + 1 : sock2Connection \in [0 .. size - 1 -> Slot]
    <3>1. sock2Connection \in [0 .. 0 - 1 -> Slot]
      OBVIOUS
    <3>2. 0 \in 0 .. LastSock + 1
      OBVIOUS
    <3> QED
      BY <3>1, <3>2
  <2>4. /\ backlog \in Seq(Clients) /\ lists \in Seq(Seq(Clients \X Nat)) /\ out \in Seq(Message)
        /\ epEvents \subseteq (Socks \cup {bsock}) \X (Clients \cup {Nobody})
        /\ sock \in Socks \cup {bsock}
    OBVIOUS
  <2>5. /\ script \in Scripts
        /\ sent \in [Clients -> Nat] /\ hang \in [Clients -> {"no", "shut", "reset"}]
        /\ got \in [Clients -> Nat] /\ read \in [Clients -> Nat] /\ session \in [Clients -> Nat]
    OBVIOUS
  <2>6. /\ edge \in BOOLEAN /\ port \in BOOLEAN /\ listening \in {"no", "port", "elsewhere"}
        /\ at \in {"bind", "wait", "events", "accept", "recv", "put", "ended"}
        /\ alive \in BOOLEAN /\ refused \in BOOLEAN
    BY Zenon
  <2>7. baseSid \in Nat \ {0}
    OBVIOUS
  <2> QED
    BY <2>2, <2>3, <2>4, <2>5, <2>6, <2>7 DEF TypeOK
<1>2. \A s \in Socks : peer[s] \notin Clients
  OBVIOUS
<1>3. EventsAreOpen /\ Handling
  BY DEF EventsAreOpen, Handling
<1>4. PeersDiffer
  BY <1>2 DEF PeersDiffer
<1>5. TableTellsSockets
  BY <1>2 DEF TableTellsSockets
<1>6. MonitorsHoldTheirs
  BY DEF MonitorsHoldTheirs
<1>7. MessagesAreFromTheirSession
  BY DEF MessagesAreFromTheirSession
<1> QED
  BY <1>1, <1>3, <1>4, <1>5, <1>6, <1>7 DEF IInv, Deep

-----------------------------------------------------------------------------
(* The types.                                                              *)

LEMMA ClientSteps ==
  ASSUME IInv, NEW c \in Clients, Client(c)
  PROVE  TypeOK'
<1> USE DEF IInv, TypeOK, clients, startup, table
<1>1. CASE Connect(c)
  <2>1. backlog' \in Seq(Clients) /\ edge' \in BOOLEAN
    BY <1>1 DEF Connect
  <2> QED
    BY <1>1, <2>1 DEF Connect
<1>2. CASE Send(c)
  <2>1. sent' \in [Clients -> Nat]
    BY <1>2 DEF Send
  <2> QED
    BY <1>2, <2>1 DEF Send
<1>3. CASE Shut(c)
  BY <1>3 DEF Shut
<1>4. CASE Reset(c)
  <2>1. PICK n \in got[c] .. sent[c] : sent' = [sent EXCEPT ![c] = n]
    BY <1>4 DEF Reset
  <2>2. n \in Nat
    BY <2>1
  <2>3. sent' \in [Clients -> Nat] /\ hang' \in [Clients -> {"no", "shut", "reset"}]
    BY <1>4, <2>1, <2>2 DEF Reset
  <2> QED
    BY <1>4, <2>3 DEF Reset
<1> QED
  BY <1>1, <1>2, <1>3, <1>4 DEF Client

LEMMA LoopSteps ==
  ASSUME IInv,
         StorePort \/ Bind \/ ThreadEnds \/ EventsDone \/ AcceptFails \/ AcceptDone \/ RecvAgain
           \/ Delivered \/ DeliverThrows \/ PushBackThrows \/ Wait \/ NextEvent \/ Recv
  PROVE  TypeOK'
<1> USE DEF IInv, TypeOK, clients, startup, table
<1>1. CASE StorePort
  BY <1>1 DEF StorePort
<1>2. CASE Bind
  BY <1>2 DEF Bind
<1>3. CASE ThreadEnds
  BY <1>3 DEF ThreadEnds
<1>4. CASE EventsDone
  BY <1>4 DEF EventsDone
<1>5. CASE AcceptFails
  BY <1>5 DEF AcceptFails
<1>6. CASE AcceptDone
  BY <1>6 DEF AcceptDone
<1>7. CASE RecvAgain
  BY <1>7 DEF RecvAgain
<1>8. CASE Delivered
  BY <1>8 DEF Delivered, Returned
<1>9. CASE DeliverThrows
  BY <1>9 DEF DeliverThrows, Returned
<1>10. CASE PushBackThrows
  BY <1>10 DEF PushBackThrows
<1>11. CASE Wait
  <2>1. epEvents' \subseteq (Socks \cup {bsock}) \X (Clients \cup {Nobody})
    BY <1>11 DEF Wait, Ready, Readable
  <2>2. edge' \in BOOLEAN /\ at' \in {"bind", "wait", "events", "accept", "recv", "put", "ended"}
    BY <1>11 DEF Wait
  <2> QED
    BY <1>11, <2>1, <2>2 DEF Wait
<1>12. CASE NextEvent
  <2>1. PICK ev \in epEvents :
          /\ sock' = ev[1]
          /\ at' = IF ev[1] = bsock THEN "accept" ELSE "recv"
          /\ epEvents' = epEvents \ {ev}
    BY <1>12 DEF NextEvent
  <2>2. ev[1] \in Socks \cup {bsock}
    BY <2>1
  <2>3. /\ sock' \in Socks \cup {bsock}
        /\ at' \in {"bind", "wait", "events", "accept", "recv", "put", "ended"}
        /\ epEvents' \subseteq (Socks \cup {bsock}) \X (Clients \cup {Nobody})
    BY <2>1, <2>2
  <2>4. lists' \in Seq(Seq(Clients \X Nat))
    BY <1>12 DEF NextEvent
  <2> QED
    BY <1>12, <2>3, <2>4 DEF NextEvent
<1>13. CASE Recv
  <2>1. peer[sock] \in Clients
    BY <1>13 DEF Recv, Deep, Handling
  <2>2. got' \in [Clients -> Nat]
    BY <1>13, <2>1 DEF Recv
  <2>3. at' \in {"bind", "wait", "events", "accept", "recv", "put", "ended"}
    BY <1>13 DEF Recv
  <2> QED
    BY <1>13, <2>2, <2>3 DEF Recv
<1> QED
  BY <1>1, <1>2, <1>3, <1>4, <1>5, <1>6, <1>7, <1>8, <1>9, <1>10, <1>11, <1>12, <1>13

\* The slot of the socket at hand.
LEMMA SlotAtHand ==
  ASSUME IInv, at \in {"recv", "put"}
  PROVE  /\ sock \in Socks /\ peer[sock] \in Clients
         /\ sock \in DOMAIN sock2Connection /\ connection \in Slot
<1>1. sock \in Socks /\ peer[sock] \in Clients
  BY DEF IInv, Deep, Handling
<1>2. sock \in DOMAIN sock2Connection
  BY <1>1 DEF IInv, Deep, TableTellsSockets
<1>3. PICK size \in 0 .. LastSock + 1 : sock2Connection \in [0 .. size - 1 -> Slot]
  BY DEF IInv, TypeOK
<1> QED
  BY <1>1, <1>2, <1>3 DEF connection

\* Writing a slot into a slot of the table.
LEMMA TableKept ==
  ASSUME IInv, NEW s \in DOMAIN sock2Connection, NEW slot \in Slot,
         sock2Connection' = [sock2Connection EXCEPT ![s] = slot]
  PROVE  /\ \E size \in 0 .. LastSock + 1 : sock2Connection' \in [0 .. size - 1 -> Slot]
         /\ DOMAIN sock2Connection' = DOMAIN sock2Connection
         /\ sock2Connection'[s] = slot
         /\ \A t \in DOMAIN sock2Connection \ {s} : sock2Connection'[t] = sock2Connection[t]
<1>1. PICK size \in 0 .. LastSock + 1 : sock2Connection \in [0 .. size - 1 -> Slot]
  BY DEF IInv, TypeOK
<1>2. sock2Connection' \in [0 .. size - 1 -> Slot]
  BY <1>1
<1> QED
  BY <1>1, <1>2

\* put() writes stat and data into the slot and leaves the rest.
LEMMA PutWrites ==
  ASSUME IInv, Putting, NEW stat \in {"START", "END"}, NEW data \in Seq(Clients \X Nat),
         PutDone(stat, data)
  PROVE  LET slot == [sid |-> connection.sid, sock |-> connection.sock,
                      stat |-> stat, data |-> data]
         IN  slot \in Slot /\ sock2Connection' = [sock2Connection EXCEPT ![sock] = slot]
<1>1. sock \in DOMAIN sock2Connection /\ connection \in Slot
  BY SlotAtHand DEF Putting
<1>2. [sid |-> connection.sid, sock |-> connection.sock, stat |-> stat, data |-> data] \in Slot
  BY <1>1 DEF Slot
<1> QED
  BY <1>1, <1>2 DEF PutDone

LEMMA PlaceType == ASSUME IInv, Putting PROVE Place \in Clients \X Nat
<1>1. peer[sock] \in Clients
  BY SlotAtHand DEF Putting
<1>2. read[peer[sock]] \in Nat
  BY <1>1 DEF IInv, TypeOK
<1> QED
  BY <1>1, <1>2 DEF Place

LEMMA PutTypes ==
  ASSUME IInv, Putting, NEW stat \in {"START", "END"}, NEW data \in Seq(Clients \X Nat),
         PutDone(stat, data), lists' \in Seq(Seq(Clients \X Nat))
  PROVE  TypeOK'
<1>1. peer[sock] \in Clients /\ sock \in DOMAIN sock2Connection
  BY SlotAtHand DEF Putting
<1>2. read' \in [Clients -> Nat]
  BY <1>1 DEF PutDone, IInv, TypeOK
<1>3. \E size \in 0 .. LastSock + 1 : sock2Connection' \in [0 .. size - 1 -> Slot]
  BY <1>1, PutWrites, TableKept
<1> QED
  BY <1>2, <1>3 DEF IInv, TypeOK, PutDone, clients, startup

LEMMA CloseTypes ==
  ASSUME IInv, at \in {"recv", "put"}, Close, lists' \in {lists, <<>>},
         UNCHANGED <<clients, backlog, edge, got, startup, epEvents, sock, read, baseSid, out,
                     alive, session, refused>>
  PROVE  TypeOK'
<1>1. sock \in Socks /\ sock \in DOMAIN sock2Connection
  BY SlotAtHand
<1>2. peer' \in [Socks -> Clients \cup {Nobody, Elsewhere}]
  BY <1>1 DEF Close, IInv, TypeOK
<1>3. \E size \in 0 .. LastSock + 1 : sock2Connection' \in [0 .. size - 1 -> Slot]
  BY <1>1, ClearIsSlot, TableKept DEF Close
<1>4. at' \in {"bind", "wait", "events", "accept", "recv", "put", "ended"}
  BY DEF Close
<1>5. lists \in Seq(Seq(Clients \X Nat)) /\ <<>> \in Seq(Seq(Clients \X Nat))
  BY DEF IInv, TypeOK
<1>6. lists' \in Seq(Seq(Clients \X Nat))
  BY <1>5
<1> QED
  BY <1>2, <1>3, <1>4, <1>6 DEF IInv, TypeOK, clients, startup

-----------------------------------------------------------------------------
(* The rest of the invariant, by what a step touches.                      *)

deepVars == <<peer, epEvents, backlog, sock, at, lists, session, sock2Connection, out>>

\* Clients that send and break, and the worker, touch nothing of it.
LEMMA Untouched == ASSUME IInv, UNCHANGED deepVars PROVE Deep'
  BY DEF IInv, Deep, deepVars, EventsAreOpen, Handling, PeersDiffer, TableTellsSockets,
         MonitorsHoldTheirs, MessagesAreFromTheirSession

\* The thread goes to a place where no event is at hand.
LEMMA LeftEvent ==
  ASSUME IInv, UNCHANGED <<peer, epEvents, backlog, sock, lists, session, sock2Connection, out>>,
         at' \in {"wait", "events", "ended"}
  PROVE  Deep'
  BY DEF IInv, Deep, EventsAreOpen, Handling, PeersDiffer, TableTellsSockets,
         MonitorsHoldTheirs, MessagesAreFromTheirSession

LEMMA RecvDeep ==
  ASSUME IInv, at = "recv", at' = "put",
         UNCHANGED <<peer, epEvents, backlog, sock, lists, session, sock2Connection, out>>
  PROVE  Deep'
  BY DEF IInv, Deep, EventsAreOpen, Handling, PeersDiffer, TableTellsSockets,
         MonitorsHoldTheirs, MessagesAreFromTheirSession

LEMMA DeliveredDeep ==
  ASSUME IInv, at = "put", at' = "recv", lists = <<>>,
         UNCHANGED <<peer, epEvents, backlog, sock, lists, session, sock2Connection, out>>
  PROVE  Deep'
  BY DEF IInv, Deep, EventsAreOpen, Handling, PeersDiffer, TableTellsSockets,
         MonitorsHoldTheirs, MessagesAreFromTheirSession

LEMMA CloseDeep ==
  ASSUME IInv, at \in {"recv", "put"}, Close, UNCHANGED <<epEvents, backlog, sock, session, out>>
  PROVE  Deep'
<1>1. sock \in Socks /\ peer[sock] \in Clients /\ sock \in DOMAIN sock2Connection
  BY SlotAtHand
<1>2. /\ peer'[sock] = Nobody /\ \A s \in Socks \ {sock} : peer'[s] = peer[s]
      /\ Nobody \notin Clients
  BY <1>1 DEF Close, IInv, TypeOK
<1>3. /\ DOMAIN sock2Connection' = DOMAIN sock2Connection
      /\ sock2Connection'[sock] = Clear
      /\ \A t \in DOMAIN sock2Connection \ {sock} : sock2Connection'[t] = sock2Connection[t]
  BY <1>1, ClearIsSlot, TableKept DEF Close
<1>4. at' = "events"
  BY DEF Close
<1>5. EventsAreOpen'
  <2> SUFFICES ASSUME NEW ev \in epEvents
               PROVE  \/ ev[1] = bsock /\ ev[2] = Nobody
                      \/ ev[1] \in Socks /\ ev[2] \in Clients /\ peer'[ev[1]] = ev[2]
    BY DEF EventsAreOpen, bsock
  <2> QED
    BY <1>2 DEF IInv, Deep, EventsAreOpen, Handling
<1>6. Handling'
  BY <1>4 DEF Handling
<1>7. PeersDiffer'
  BY <1>2 DEF IInv, Deep, PeersDiffer
<1>8. TableTellsSockets'
  <2>1. ASSUME NEW s \in Socks, peer'[s] \in Clients
        PROVE  /\ s \in DOMAIN sock2Connection'
               /\ sock2Connection'[s].sid = session[peer'[s]] /\ sock2Connection'[s].sid # 0
               /\ sock2Connection'[s].sock = s
    <3>1. s # sock /\ peer[s] \in Clients /\ peer'[s] = peer[s]
      BY <1>2, <2>1
    <3>2. s \in DOMAIN sock2Connection
      BY <3>1 DEF IInv, Deep, TableTellsSockets
    <3>3. sock2Connection'[s] = sock2Connection[s]
      BY <1>3, <3>1, <3>2
    <3> QED
      BY <1>3, <3>1, <3>2, <3>3 DEF IInv, Deep, TableTellsSockets
  <2>2. ASSUME NEW s \in DOMAIN sock2Connection', s \in Socks => peer'[s] \notin Clients
        PROVE  sock2Connection'[s] = Clear
    <3>1. CASE s = sock
      BY <1>3, <3>1
    <3>2. CASE s # sock
      BY <1>2, <1>3, <2>2, <3>2 DEF IInv, Deep, TableTellsSockets
    <3> QED
      BY <3>1, <3>2
  <2> QED
    BY <2>1, <2>2 DEF TableTellsSockets
<1>9. MonitorsHoldTheirs'
  BY <1>1, <1>2, <1>3, <1>4 DEF IInv, Deep, MonitorsHoldTheirs, Clear
<1>10. MessagesAreFromTheirSession'
  BY DEF IInv, Deep, MessagesAreFromTheirSession
<1> QED
  BY <1>5, <1>6, <1>7, <1>8, <1>9, <1>10 DEF Deep

\* put() may only write pieces of the client at the other end.
LEMMA PutDeep ==
  ASSUME IInv, Putting, NEW stat \in {"START", "END"}, NEW data \in Seq(Clients \X Nat),
         PutDone(stat, data),
         \A j \in 1 .. Len(data) : data[j][1] = peer[sock],
         \A k \in 1 .. Len(lists') : \A j \in 1 .. Len(lists'[k]) : lists'[k][j][1] = peer[sock]
  PROVE  Deep'
<1>1. sock \in Socks /\ peer[sock] \in Clients /\ sock \in DOMAIN sock2Connection
  BY SlotAtHand DEF Putting
<1> DEFINE slot == [sid |-> connection.sid, sock |-> connection.sock,
                    stat |-> stat, data |-> data]
<1>2. slot \in Slot /\ sock2Connection' = [sock2Connection EXCEPT ![sock] = slot]
  BY PutWrites
<1>3. /\ DOMAIN sock2Connection' = DOMAIN sock2Connection
      /\ sock2Connection'[sock] = slot
      /\ \A t \in DOMAIN sock2Connection \ {sock} : sock2Connection'[t] = sock2Connection[t]
  BY <1>1, <1>2, TableKept
<1>4. slot.sid = sock2Connection[sock].sid /\ slot.sock = sock2Connection[sock].sock
      /\ slot.data = data
  BY DEF connection
<1> HIDE DEF slot
<1>5. UNCHANGED <<peer, epEvents, backlog, sock, at, session, out>> /\ at = "put"
  BY DEF PutDone, Putting
<1>6. EventsAreOpen' /\ Handling' /\ PeersDiffer' /\ MessagesAreFromTheirSession'
  BY <1>5 DEF IInv, Deep, EventsAreOpen, Handling, PeersDiffer, MessagesAreFromTheirSession
<1>7. TableTellsSockets'
  <2>1. ASSUME NEW s \in Socks, peer[s] \in Clients
        PROVE  /\ s \in DOMAIN sock2Connection'
               /\ sock2Connection'[s].sid = session[peer[s]] /\ sock2Connection'[s].sid # 0
               /\ sock2Connection'[s].sock = s
    <3>1. /\ s \in DOMAIN sock2Connection
          /\ sock2Connection[s].sid = session[peer[s]] /\ sock2Connection[s].sid # 0
          /\ sock2Connection[s].sock = s
      BY <2>1 DEF IInv, Deep, TableTellsSockets
    <3>2. CASE s = sock
      BY <1>3, <1>4, <3>1, <3>2
    <3>3. CASE s # sock
      BY <1>3, <3>1, <3>3
    <3> QED
      BY <3>2, <3>3
  <2>2. ASSUME NEW s \in DOMAIN sock2Connection', s \in Socks => peer[s] \notin Clients
        PROVE  sock2Connection'[s] = Clear
    <3>1. s # sock /\ s \in DOMAIN sock2Connection
      BY <1>1, <1>3, <2>2
    <3> QED
      BY <1>3, <2>2, <3>1 DEF IInv, Deep, TableTellsSockets
  <2> QED
    BY <1>5, <2>1, <2>2 DEF TableTellsSockets
<1>8. MonitorsHoldTheirs'
  <2>1. ASSUME NEW s \in DOMAIN sock2Connection', NEW j \in 1 .. Len(sock2Connection'[s].data)
        PROVE  s \in Socks /\ sock2Connection'[s].data[j][1] = peer[s]
    <3>1. CASE s = sock
      BY <1>1, <1>3, <1>4, <3>1
    <3>2. CASE s # sock
      BY <1>3, <3>2 DEF IInv, Deep, MonitorsHoldTheirs
    <3> QED
      BY <3>1, <3>2
  <2> QED
    BY <1>5, <2>1 DEF MonitorsHoldTheirs
<1> QED
  BY <1>6, <1>7, <1>8 DEF Deep

LEMMA PutSteps ==
  ASSUME IInv, PutStart \/ PutPayload \/ PutEnd \/ PutFails
  PROVE  TypeOK' /\ Deep'
<1>1. CASE PutFails
  <2>1. at = "put" /\ Close /\ lists' = <<>>
    BY <1>1 DEF PutFails, Putting
  <2>2. UNCHANGED <<clients, backlog, edge, got, startup, epEvents, sock, read, baseSid, out,
                    alive, session, refused>>
    BY <1>1 DEF PutFails
  <2> QED
    BY <2>1, <2>2, CloseTypes, CloseDeep
<1>2. CASE PutStart \/ PutPayload \/ PutEnd
  <2>1. Putting /\ at = "put"
    BY <1>2 DEF PutStart, PutPayload, PutEnd, Putting
  <2>2. sock \in Socks /\ peer[sock] \in Clients /\ sock \in DOMAIN sock2Connection
        /\ connection.data \in Seq(Clients \X Nat)
    BY <2>1, SlotAtHand DEF Slot
  <2>3. lists \in Seq(Seq(Clients \X Nat))
    BY DEF IInv, TypeOK
  <2>4. \A j \in 1 .. Len(connection.data) : connection.data[j][1] = peer[sock]
    BY <2>2 DEF IInv, Deep, MonitorsHoldTheirs, connection
  <2>5. \A k \in 1 .. Len(lists) : \A j \in 1 .. Len(lists[k]) : lists[k][j][1] = peer[sock]
    BY <2>1 DEF IInv, Deep, MonitorsHoldTheirs
  <2>6. CASE PutStart
    <3>1. PutDone("END", connection.data) /\ lists' = lists
      BY <2>6 DEF PutStart
    <3> QED
      BY <2>1, <2>2, <2>3, <2>4, <2>5, <3>1, PutTypes, PutDeep
  <2>7. CASE PutPayload
    <3> DEFINE data == Append(connection.data, Place)
    <3>1. PutDone("END", data) /\ lists' = lists
      BY <2>7 DEF PutPayload
    <3>2. Place \in Clients \X Nat /\ Place[1] = peer[sock]
      BY <2>1, PlaceType DEF Place
    <3>3. data \in Seq(Clients \X Nat)
      BY <2>2, <3>2
    <3>4. \A j \in 1 .. Len(data) : data[j][1] = peer[sock]
      BY <2>2, <2>4, <3>2
    <3> HIDE DEF data
    <3> QED
      BY <2>1, <2>3, <2>5, <3>1, <3>3, <3>4, PutTypes, PutDeep
  <2>8. CASE PutEnd
    <3>1. PutDone("START", <<>>) /\ lists' = Append(lists, connection.data)
      BY <2>8 DEF PutEnd
    <3>2. lists' \in Seq(Seq(Clients \X Nat))
      BY <2>2, <2>3, <3>1
    <3>3. \A k \in 1 .. Len(lists') : \A j \in 1 .. Len(lists'[k]) : lists'[k][j][1] = peer[sock]
      <4> SUFFICES ASSUME NEW k \in 1 .. Len(lists')
                   PROVE  \A j \in 1 .. Len(lists'[k]) : lists'[k][j][1] = peer[sock]
        OBVIOUS
      <4>1. (k \in 1 .. Len(lists) /\ lists'[k] = lists[k]) \/ lists'[k] = connection.data
        BY <2>2, <2>3, <3>1
      <4> QED
        BY <2>4, <2>5, <4>1
    <3> DEFINE none == <<>>
    <3>4. none \in Seq(Clients \X Nat) /\ \A j \in 1 .. Len(none) : none[j][1] = peer[sock]
      OBVIOUS
    <3>5. PutDone("START", none)
      BY <3>1
    <3> HIDE DEF none
    <3> QED
      BY <2>1, <3>2, <3>3, <3>4, <3>5, PutTypes, PutDeep
  <2> QED
    BY <1>2, <2>6, <2>7, <2>8
<1> QED
  BY <1>1, <1>2

LEMMA DeliverStep == ASSUME IInv, Deliver PROVE TypeOK' /\ Deep'
<1>1. at = "put" /\ lists # <<>>
  BY DEF Deliver, Returned
<1>2. /\ sock \in Socks /\ peer[sock] \in Clients /\ sock \in DOMAIN sock2Connection
      /\ connection.sid = session[peer[sock]] /\ connection.sid # 0 /\ connection.sock = sock
  <2>1. sock \in Socks /\ peer[sock] \in Clients /\ sock \in DOMAIN sock2Connection
    BY <1>1, SlotAtHand
  <2> QED
    BY <2>1 DEF IInv, Deep, TableTellsSockets, connection
<1>3. lists \in Seq(Seq(Clients \X Nat)) /\ out \in Seq(Message)
  BY DEF IInv, TypeOK
<1>4. /\ Head(lists) \in Seq(Clients \X Nat)
      /\ \A j \in 1 .. Len(Head(lists)) : Head(lists)[j][1] = peer[sock]
  <2>1. 1 \in 1 .. Len(lists) /\ Head(lists) = lists[1]
    BY <1>1, <1>3
  <2> QED
    BY <1>1, <1>3, <2>1 DEF IInv, Deep, MonitorsHoldTheirs
<1> DEFINE m == [sock |-> connection.sock, sid |-> connection.sid, data |-> Head(lists)]
<1>5. m \in Message
  <2>1. connection.sid \in Nat
    BY <1>1, SlotAtHand DEF Slot
  <2> QED
    BY <1>2, <1>4, <2>1 DEF Message
<1>6. m.sid = session[peer[sock]] /\ \A j \in 1 .. Len(m.data) : m.data[j][1] = peer[sock]
  BY <1>2, <1>4
<1>7. out' = Append(out, m) /\ lists' = Tail(lists)
  BY DEF Deliver
<1> HIDE DEF m
<1>8. out' \in Seq(Message) /\ lists' \in Seq(Seq(Clients \X Nat))
  BY <1>1, <1>3, <1>5, <1>7
<1>9. UNCHANGED <<peer, epEvents, backlog, sock, at, session, sock2Connection>>
  BY DEF Deliver, table
<1>10. TypeOK'
  BY <1>8 DEF IInv, TypeOK, Deliver, clients, startup, table
<1>11. EventsAreOpen' /\ Handling' /\ PeersDiffer' /\ TableTellsSockets'
  BY <1>9 DEF IInv, Deep, EventsAreOpen, Handling, PeersDiffer, TableTellsSockets
<1>12. MonitorsHoldTheirs'
  <2>1. \A k \in 1 .. Len(lists') : k + 1 \in 1 .. Len(lists) /\ lists'[k] = lists[k + 1]
    BY <1>1, <1>3, <1>7
  <2> QED
    BY <1>1, <1>9, <2>1 DEF IInv, Deep, MonitorsHoldTheirs
<1>13. MessagesAreFromTheirSession'
  <2> SUFFICES ASSUME NEW i \in 1 .. Len(out'), NEW j \in 1 .. Len(out'[i].data)
               PROVE  session[out'[i].data[j][1]] = out'[i].sid
    BY <1>9 DEF MessagesAreFromTheirSession
  <2>1. (i \in 1 .. Len(out) /\ out'[i] = out[i]) \/ out'[i] = m
    BY <1>3, <1>7
  <2> QED
    BY <1>6, <2>1 DEF IInv, Deep, MessagesAreFromTheirSession
<1> QED
  BY <1>10, <1>11, <1>12, <1>13 DEF Deep

LEMMA WaitDeep == ASSUME IInv, Wait PROVE Deep'
<1>1. /\ UNCHANGED <<peer, backlog, sock, lists, session, sock2Connection, out>>
      /\ at' = "events" /\ epEvents' = Ready
  BY DEF Wait, table
<1>2. EventsAreOpen'
  <2>1. \A ev \in Ready : \/ ev[1] = bsock /\ ev[2] = Nobody
                          \/ ev[1] \in Socks /\ ev[2] \in Clients /\ peer[ev[1]] = ev[2]
    BY DEF Ready, Readable
  <2> QED
    BY <1>1, <2>1 DEF EventsAreOpen, bsock
<1> QED
  BY <1>1, <1>2 DEF IInv, Deep, Handling, PeersDiffer, TableTellsSockets, MonitorsHoldTheirs,
                    MessagesAreFromTheirSession

LEMMA NextEventDeep == ASSUME IInv, NextEvent PROVE Deep'
<1>1. PICK ev \in epEvents :
        /\ sock' = ev[1]
        /\ at' = IF ev[1] = bsock THEN "accept" ELSE "recv"
        /\ epEvents' = epEvents \ {ev}
  BY DEF NextEvent
<1>2. UNCHANGED <<peer, backlog, session, sock2Connection, out>> /\ lists' = <<>>
  BY DEF NextEvent, table
<1>3. EventsAreOpen'
  BY <1>1, <1>2 DEF IInv, Deep, EventsAreOpen, bsock
<1>4. Handling'
  <2>1. \A other \in epEvents \ {ev} : other[1] # ev[1]
    <3> SUFFICES ASSUME NEW other \in epEvents, other[1] = ev[1] PROVE other = ev
      OBVIOUS
    <3>1. other = <<other[1], other[2]>> /\ ev = <<ev[1], ev[2]>>
      BY DEF IInv, TypeOK
    <3>2. other[2] = ev[2]
      BY Listener DEF IInv, Deep, EventsAreOpen
    <3> QED
      BY <3>1, <3>2
  <2>2. ev[1] # bsock => ev[1] \in Socks /\ peer[ev[1]] \in Clients
    BY DEF IInv, Deep, EventsAreOpen
  <2> QED
    BY <1>1, <1>2, <2>1, <2>2 DEF Handling
<1>5. PeersDiffer' /\ TableTellsSockets' /\ MessagesAreFromTheirSession'
  BY <1>2 DEF IInv, Deep, PeersDiffer, TableTellsSockets, MessagesAreFromTheirSession
<1>6. MonitorsHoldTheirs'
  BY <1>1, <1>2 DEF IInv, Deep, MonitorsHoldTheirs
<1> QED
  BY <1>3, <1>4, <1>5, <1>6 DEF Deep

LEMMA ConnectDeep == ASSUME IInv, NEW c \in Clients, Connect(c) PROVE Deep'
<1>1. /\ UNCHANGED <<peer, epEvents, sock, at, lists, session, sock2Connection, out>>
      /\ backlog' = Append(backlog, c) /\ session[c] = 0 /\ ~Waiting(c)
  BY DEF Connect, table
<1>2. backlog \in Seq(Clients)
  BY DEF IInv, TypeOK
<1>3. PeersDiffer'
  <2>1. /\ Len(backlog') = Len(backlog) + 1 /\ backlog'[Len(backlog) + 1] = c
        /\ \A i \in 1 .. Len(backlog) : backlog'[i] = backlog[i] /\ backlog[i] # c
    BY <1>1, <1>2 DEF Waiting
  <2>2. \A i \in 1 .. Len(backlog') : session[backlog'[i]] = 0
    BY <1>1, <1>2, <2>1 DEF IInv, Deep, PeersDiffer
  <2>3. \A i, j \in 1 .. Len(backlog') : backlog'[i] = backlog'[j] => i = j
    BY <1>2, <2>1 DEF IInv, Deep, PeersDiffer
  <2> QED
    BY <1>1, <2>2, <2>3 DEF IInv, Deep, PeersDiffer
<1> QED
  BY <1>1, <1>3 DEF IInv, Deep, EventsAreOpen, Handling, TableTellsSockets, MonitorsHoldTheirs,
                    MessagesAreFromTheirSession

\* A new client's slot is clear before it is given to it, whether resize()
\* made it or another client left it.
LEMMA SlotIsClear ==
  ASSUME IInv, NEW csock \in Socks, peer[csock] \notin Clients
  PROVE  /\ \E size \in 0 .. LastSock + 1 : Resized(csock) \in [0 .. size - 1 -> Slot]
         /\ csock \in DOMAIN Resized(csock) /\ Resized(csock)[csock] = Clear
         /\ \A s \in DOMAIN sock2Connection :
              s \in DOMAIN Resized(csock) /\ Resized(csock)[s] = sock2Connection[s]
         /\ \A s \in DOMAIN Resized(csock) \ DOMAIN sock2Connection : Resized(csock)[s] = Clear
<1>1. PICK size \in 0 .. LastSock + 1 : sock2Connection \in [0 .. size - 1 -> Slot]
  BY DEF IInv, TypeOK
<1>2. CASE csock \in DOMAIN sock2Connection
  <2>1. Resized(csock) = sock2Connection
    BY <1>2 DEF Resized
  <2>2. sock2Connection[csock] = Clear
    BY <1>2 DEF IInv, Deep, TableTellsSockets
  <2> QED
    BY <1>1, <1>2, <2>1, <2>2
<1>3. CASE csock \notin DOMAIN sock2Connection
  <2> DEFINE longer == [s \in 0 .. csock |-> IF s \in DOMAIN sock2Connection
                                             THEN sock2Connection[s] ELSE Clear]
  <2>1. Resized(csock) = longer
    BY <1>3 DEF Resized
  <2>2. csock \in Nat /\ csock <= LastSock /\ csock >= size
    BY <1>1, <1>3 DEF Socks
  <2>3. longer \in [0 .. csock -> Slot]
    BY <1>1, ClearIsSlot
  <2>4. \A s \in DOMAIN sock2Connection : s \in 0 .. csock
    BY <1>1, <2>2
  <2>5. csock + 1 \in 0 .. LastSock + 1 /\ 0 .. (csock + 1) - 1 = 0 .. csock
    BY <2>2
  <2>6. \E n \in 0 .. LastSock + 1 : longer \in [0 .. n - 1 -> Slot]
    BY <2>3, <2>5
  <2>7. csock \in 0 .. csock
    BY <2>2
  <2> QED
    BY <1>3, <2>1, <2>4, <2>6, <2>7
<1> QED
  BY <1>2, <1>3

LEMMA AcceptStep == ASSUME IInv, Accept PROVE TypeOK' /\ Deep'
<1>1. PICK csock \in FreeSocks :
        /\ peer' = [peer EXCEPT ![csock] = Head(backlog)]
        /\ sock2Connection' = [Resized(csock) EXCEPT ![csock] = InUse(csock)]
  BY DEF Accept
<1> DEFINE c == Head(backlog)
<1> DEFINE sid == baseSid + 1
<1>2. csock \in Socks /\ peer[csock] = Nobody /\ Nobody \notin Clients
  BY DEF FreeSocks
<1>3. backlog \in Seq(Clients) /\ backlog # <<>>
  BY DEF IInv, TypeOK, Accept
<1>4. /\ c \in Clients /\ backlog' = Tail(backlog) /\ backlog' \in Seq(Clients)
      /\ Len(backlog') = Len(backlog) - 1
      /\ \A i \in 1 .. Len(backlog') :
           i + 1 \in 1 .. Len(backlog) /\ backlog'[i] = backlog[i + 1]
      /\ 1 \in 1 .. Len(backlog) /\ c = backlog[1]
  BY <1>3 DEF Accept
<1>5. session[c] = 0 /\ \A i \in 1 .. Len(backlog') : backlog'[i] # c /\ session[backlog'[i]] = 0
  BY <1>3, <1>4 DEF IInv, Deep, PeersDiffer
<1>6. /\ peer' \in [Socks -> Clients \cup {Nobody, Elsewhere}]
      /\ peer'[csock] = c /\ \A s \in Socks \ {csock} : peer'[s] = peer[s]
  BY <1>1, <1>2, <1>4 DEF IInv, TypeOK
<1>7. /\ sid \in Nat \ {0} /\ baseSid' = sid /\ session' \in [Clients -> Nat]
      /\ session'[c] = sid /\ \A d \in Clients \ {c} : session'[d] = session[d]
  BY <1>4 DEF Accept, IInv, TypeOK
<1>8. \A s \in Socks \ {csock} : peer[s] \in Clients => peer[s] # c
  BY <1>5 DEF IInv, Deep, PeersDiffer
<1> DEFINE slot == [sid |-> sid, sock |-> csock, stat |-> "START", data |-> <<>>]
<1>9. InUse(csock) = slot /\ slot \in Slot
  BY <1>2, <1>7, SlotIsClear DEF InUse, Clear, Slot
<1>10. slot.sid = sid /\ slot.sock = csock /\ slot.data = <<>>
  OBVIOUS
<1> HIDE DEF c, sid, slot
<1>11. /\ \E size \in 0 .. LastSock + 1 : sock2Connection' \in [0 .. size - 1 -> Slot]
       /\ csock \in DOMAIN sock2Connection' /\ sock2Connection'[csock] = slot
       /\ \A s \in DOMAIN sock2Connection \ {csock} :
            s \in DOMAIN sock2Connection' /\ sock2Connection'[s] = sock2Connection[s]
       /\ \A s \in DOMAIN sock2Connection' \ {csock} :
            s \notin DOMAIN sock2Connection => sock2Connection'[s] = Clear
  <2>1. PICK size \in 0 .. LastSock + 1 : Resized(csock) \in [0 .. size - 1 -> Slot]
    BY <1>2, SlotIsClear
  <2>2. csock \in DOMAIN Resized(csock)
    BY <1>2, SlotIsClear
  <2>3. sock2Connection' \in [0 .. size - 1 -> Slot] /\ sock2Connection'[csock] = slot
        /\ DOMAIN sock2Connection' = DOMAIN Resized(csock)
        /\ \A s \in DOMAIN Resized(csock) \ {csock} : sock2Connection'[s] = Resized(csock)[s]
    BY <1>1, <1>9, <2>1, <2>2
  <2> QED
    BY <1>2, <2>1, <2>2, <2>3, SlotIsClear
<1>12. /\ UNCHANGED <<clients, edge, got, startup, at, epEvents, sock, read, lists, out, alive,
                      refused>>
       /\ at = "accept"
  BY DEF Accept
<1>13. TypeOK'
  BY <1>4, <1>6, <1>7, <1>11, <1>12 DEF IInv, TypeOK, clients, startup
<1>14. EventsAreOpen'
  <2> SUFFICES ASSUME NEW ev \in epEvents
               PROVE  \/ ev[1] = bsock /\ ev[2] = Nobody
                      \/ ev[1] \in Socks /\ ev[2] \in Clients /\ peer'[ev[1]] = ev[2]
    BY <1>12 DEF EventsAreOpen, bsock
  <2> QED
    BY <1>2, <1>6 DEF IInv, Deep, EventsAreOpen
<1>15. Handling'
  BY <1>12 DEF IInv, Deep, Handling
<1>16. PeersDiffer'
  <2>1. \A s, t \in Socks : peer'[s] = peer'[t] /\ peer'[s] \in Clients => s = t
    BY <1>6, <1>8 DEF IInv, Deep, PeersDiffer
  <2>2. \A i, j \in 1 .. Len(backlog') : backlog'[i] = backlog'[j] => i = j
    <3> SUFFICES ASSUME NEW i \in 1 .. Len(backlog'), NEW j \in 1 .. Len(backlog'),
                        backlog'[i] = backlog'[j]
                 PROVE  i = j
      OBVIOUS
    <3>1. /\ i + 1 \in 1 .. Len(backlog) /\ j + 1 \in 1 .. Len(backlog)
          /\ backlog[i + 1] = backlog[j + 1]
      BY <1>4
    <3>2. i + 1 = j + 1
      BY <3>1 DEF IInv, Deep, PeersDiffer
    <3> QED
      BY <3>2
  <2>3. \A i \in 1 .. Len(backlog') : session'[backlog'[i]] = 0
    <3> SUFFICES ASSUME NEW i \in 1 .. Len(backlog') PROVE session'[backlog'[i]] = 0
      OBVIOUS
    <3>1. backlog'[i] \in Clients \ {c}
      BY <1>4, <1>5
    <3> QED
      BY <1>5, <1>7, <3>1
  <2>4. \A s \in Socks : peer'[s] \in Clients => session'[peer'[s]] # 0
    BY <1>6, <1>7, <1>8 DEF IInv, Deep, PeersDiffer
  <2> QED
    BY <2>1, <2>2, <2>3, <2>4 DEF PeersDiffer
<1>17. TableTellsSockets'
  <2>1. ASSUME NEW s \in Socks, peer'[s] \in Clients
        PROVE  /\ s \in DOMAIN sock2Connection'
               /\ sock2Connection'[s].sid = session'[peer'[s]] /\ sock2Connection'[s].sid # 0
               /\ sock2Connection'[s].sock = s
    <3>1. CASE s = csock
      BY <1>6, <1>7, <1>10, <1>11, <3>1
    <3>2. CASE s # csock
      <4>1. peer[s] \in Clients /\ peer'[s] = peer[s] /\ peer[s] # c
        BY <1>6, <1>8, <2>1, <3>2
      <4>2. /\ s \in DOMAIN sock2Connection
            /\ sock2Connection[s].sid = session[peer[s]] /\ sock2Connection[s].sid # 0
            /\ sock2Connection[s].sock = s
        BY <4>1 DEF IInv, Deep, TableTellsSockets
      <4> QED
        BY <1>7, <1>11, <3>2, <4>1, <4>2
    <3> QED
      BY <3>1, <3>2
  <2>2. ASSUME NEW s \in DOMAIN sock2Connection', s \in Socks => peer'[s] \notin Clients
        PROVE  sock2Connection'[s] = Clear
    <3>1. s # csock /\ (s \in Socks => peer[s] \notin Clients)
      BY <1>2, <1>4, <1>6, <2>2
    <3>2. s \in DOMAIN sock2Connection => sock2Connection[s] = Clear
      BY <3>1 DEF IInv, Deep, TableTellsSockets
    <3> QED
      BY <1>11, <3>1, <3>2
  <2> QED
    BY <2>1, <2>2 DEF TableTellsSockets
<1>18. MonitorsHoldTheirs'
  <2>1. ASSUME NEW s \in DOMAIN sock2Connection', NEW j \in 1 .. Len(sock2Connection'[s].data)
        PROVE  s \in Socks /\ sock2Connection'[s].data[j][1] = peer'[s]
    <3>1. s # csock
      BY <1>10, <1>11
    <3>2. s \in DOMAIN sock2Connection
      BY <1>11, <3>1 DEF Clear
    <3>3. s \in Socks /\ sock2Connection[s].data[j][1] = peer[s]
      BY <1>11, <3>1, <3>2 DEF IInv, Deep, MonitorsHoldTheirs
    <3> QED
      BY <1>6, <1>11, <3>1, <3>2, <3>3
  <2> QED
    BY <1>12, <2>1 DEF MonitorsHoldTheirs
<1>19. MessagesAreFromTheirSession'
  <2> SUFFICES ASSUME NEW i \in 1 .. Len(out), NEW j \in 1 .. Len(out[i].data)
               PROVE  session'[out[i].data[j][1]] = out[i].sid
    BY <1>12 DEF MessagesAreFromTheirSession
  <2>1. session[out[i].data[j][1]] = out[i].sid
    BY DEF IInv, Deep, MessagesAreFromTheirSession
  <2>2. out[i] \in Message
    BY DEF IInv, TypeOK
  <2>3. out[i].sid # 0 /\ out[i].data[j] \in Clients \X Nat
    BY <2>2 DEF Message
  <2> QED
    BY <1>5, <1>7, <2>1, <2>3
<1> QED
  BY <1>13, <1>14, <1>15, <1>16, <1>17, <1>18, <1>19 DEF Deep

-----------------------------------------------------------------------------
LEMMA StepHolds == IInv /\ [NodeNext]_nodeVars => IInv'
<1> SUFFICES ASSUME IInv, [NodeNext]_nodeVars PROVE IInv'
  OBVIOUS
<1> USE DEF table
<1>1. CASE Get \/ PushBack \/ UNCHANGED nodeVars
  <2>1. UNCHANGED vars
    BY <1>1 DEF Get, PushBack, nodeVars
  <2>2. TypeOK'
    BY <2>1 DEF vars, IInv, TypeOK
  <2>3. Deep'
    BY <2>1, Untouched DEF vars, deepVars
  <2> QED
    BY <2>2, <2>3 DEF IInv
<1>2. CASE PushBackThrows
  BY <1>2, LoopSteps, Untouched DEF PushBackThrows, deepVars, IInv
<1>3. ASSUME NEW c \in Clients, Client(c) PROVE IInv'
  <2>1. CASE Connect(c)
    BY <1>3, <2>1, ClientSteps, ConnectDeep DEF IInv
  <2>2. CASE Send(c) \/ Shut(c) \/ Reset(c)
    <3>1. Deep'
      BY <2>2, Untouched DEF Send, Shut, Reset, deepVars
    <3> QED
      BY <1>3, <3>1, ClientSteps DEF IInv
  <2> QED
    BY <1>3, <2>1, <2>2 DEF Client
<1>4. CASE StorePort \/ DeliverThrows
  BY <1>4, LoopSteps, Untouched DEF StorePort, DeliverThrows, deepVars, IInv
<1>5. CASE Bind \/ ThreadEnds \/ EventsDone \/ AcceptFails \/ AcceptDone \/ RecvAgain
  <2>1. /\ UNCHANGED <<peer, epEvents, backlog, sock, lists, session, sock2Connection, out>>
        /\ at' \in {"wait", "events", "ended"}
    BY <1>5 DEF Bind, ThreadEnds, EventsDone, AcceptFails, AcceptDone, RecvAgain
  <2> QED
    BY <1>5, <2>1, LoopSteps, LeftEvent DEF IInv
<1>6. CASE Wait
  BY <1>6, LoopSteps, WaitDeep DEF IInv
<1>7. CASE NextEvent
  BY <1>7, LoopSteps, NextEventDeep DEF IInv
<1>8. CASE Recv
  BY <1>8, LoopSteps, RecvDeep DEF Recv, IInv
<1>9. CASE Delivered
  BY <1>9, LoopSteps, DeliveredDeep DEF Delivered, Returned, IInv
<1>10. CASE Accept
  BY <1>10, AcceptStep DEF IInv
<1>11. CASE RecvEnds
  BY <1>11, CloseTypes, CloseDeep DEF RecvEnds, IInv
<1>12. CASE PutStart \/ PutPayload \/ PutEnd \/ PutFails
  BY <1>12, PutSteps DEF IInv
<1>13. CASE Deliver
  BY <1>13, DeliverStep DEF IInv
<1> QED
  BY <1>1, <1>2, <1>3, <1>4, <1>5, <1>6, <1>7, <1>8, <1>9, <1>10, <1>11, <1>12, <1>13
     DEF NodeNext, worker_thread, EpollNext, EpollThread

THEOREM InductiveInvariant == NodeSpec => []IInv
  BY InitHolds, StepHolds, PTL DEF NodeSpec

-----------------------------------------------------------------------------
\* The types of the epoll thread's state (epoll.h:34-46), for any clients.
THEOREM TypeCorrect == NodeSpec => []TypeOK
<1>1. IInv => TypeOK
  BY DEF IInv
<1> QED
  BY <1>1, InductiveInvariant, PTL

\* The table of connections agrees with the open sockets (epoll.cpp:112-123,
\* 148-177): however descriptors are used again, no connection in use is
\* overwritten and no session outlives its socket.
THEOREM TableIsRight == NodeSpec => []TableTellsSockets
<1>1. IInv => TableTellsSockets
  BY DEF IInv, Deep
<1> QED
  BY <1>1, InductiveInvariant, PTL

\* No event of a round is stale when its turn comes (epoll.cpp:86-88), though
\* the round closes sockets and accepts clients onto their numbers.
THEOREM NoStaleEvents == NodeSpec => []EventsAreFresh
<1>1. IInv => EventsAreFresh
  <2> SUFFICES ASSUME IInv PROVE EventsAreFresh
    OBVIOUS
  <2>1. \A ev \in epEvents : ev[1] # bsock => peer[ev[1]] = ev[2]
    BY DEF IInv, Deep, EventsAreOpen
  <2>2. at \in {"recv", "put"} => peer[sock] \in Clients
    BY DEF IInv, Deep, Handling
  <2> QED
    BY <2>1, <2>2 DEF EventsAreFresh
<1> QED
  BY <1>1, InductiveInvariant, PTL

\* A message holds bytes of one client only, the one whose session id it
\* carries (epoll.cpp:157), whatever earlier owners of the socket left unsent.
THEOREM MessagesKeepToTheirSession == NodeSpec => []MessagesAreFromTheirSession
<1>1. IInv => MessagesAreFromTheirSession
  BY DEF IInv, Deep
<1> QED
  BY <1>1, InductiveInvariant, PTL

-----------------------------------------------------------------------------
(* The packages of a client, one by one.                                   *)

\* A client's script p: where its packages end, the places of the package that
\* ends at e, and whether it is what encode_package makes of records.
EndsOf(p) == {i \in DOMAIN p : p[i] = "end"}
EndsUpTo(p, n) == {f \in EndsOf(p) : f <= n}
PackageOf(p, e) ==
  {i \in DOMAIN p : i < e /\ p[i] = "payload" /\ \A f \in EndsOf(p) : i < f => e <= f}
WellMade(p) ==
  /\ \A e \in EndsOf(p) : Cardinality(PackageOf(p, e)) = RecordLength
  /\ \A i \in 1 .. Len(p) : p[i] = "start" <=> i = 1 \/ p[i - 1] = "end"

\* The places of the package that is unfinished after n parts.
Unfinished(p, n) ==
  {i \in DOMAIN p : i <= n /\ p[i] = "payload" /\ \A f \in EndsOf(p) : i < f => n < f}

\* d holds the pieces of client c at these places, each once.
Holds(d, c, places) ==
  /\ {d[j] : j \in 1 .. Len(d)} = {c} \X places
  /\ Len(d) = Cardinality(places)

\* d is the package of client c with n packages before it.
Numbered(d, c, p, n) ==
  \E e \in EndsOf(p) : Holds(d, c, PackageOf(p, e)) /\ n = Cardinality(EndsUpTo(p, e - 1))

\* The messages of a session among the first n - 1 of o, and how many there are.
Mine(o, sid, n) == {j \in 1 .. (n - 1) : o[j].sid = sid}
CountMine(o, sid) == Cardinality(Mine(o, sid, Len(o) + 1))

\* The messages of client c so far are its first packages, in order.
MessagesRight(c, p, o, sid) ==
  \A i \in 1 .. Len(o) :
    o[i].sid = sid => Numbered(o[i].data, c, p, Cardinality(Mine(o, sid, i)))

\* The slot of client c, n parts into its script, holds what is unfinished; the
\* packages put() has collected, ls, come after the m messages there are; and
\* together these are all that were finished.
SlotRight(c, p, n, slot, ls, m) ==
  /\ slot.stat = "START" <=> n = 0 \/ p[n] = "end"
  /\ Holds(slot.data, c, Unfinished(p, n))
  /\ m + Len(ls) = Cardinality(EndsUpTo(p, n))
  /\ \A k \in 1 .. Len(ls) : Numbered(ls[k], c, p, m + k - 1)

\* What is read is sent, and what is sent is in the script; and each session is
\* of one client.
Orderly ==
  /\ \A c \in Clients :
       /\ read[c] <= got[c] /\ got[c] <= sent[c] /\ sent[c] <= Len(script[c])
       /\ session[c] = 0 => got[c] = 0
       /\ session[c] <= baseSid
  /\ \A c, d \in Clients : session[c] = session[d] /\ session[c] # 0 => c = d
  /\ \A i \in 1 .. Len(out) : \E c \in Clients : out[i].sid = session[c]
  /\ at # "put" => lists = <<>>

\* The packages put() has collected are of the socket at hand.
ListsOf(s) == IF s = sock THEN lists ELSE <<>>

\* Clients that encode are followed exactly.
Followed ==
  /\ \A c \in Clients : WellMade(script[c]) /\ session[c] # 0 =>
       MessagesRight(c, script[c], out, session[c])
  /\ \A s \in Socks : peer[s] \in Clients /\ WellMade(script[peer[s]]) =>
       SlotRight(peer[s], script[peer[s]], read[peer[s]], sock2Connection[s], ListsOf(s),
                 CountMine(out, session[peer[s]]))

\* The worker takes what is there, and nothing throws while all clients encode.
Surviving ==
  /\ taken \in 0 .. Len(out)
  /\ (\A c \in Clients : WellMade(script[c])) => alive = TRUE

RInv == IInv /\ Orderly /\ Followed /\ Surviving

\* The places of a script, a part further.
LEMMA PartFacts ==
  ASSUME NEW p \in Seq(Parts), NEW n \in Nat, n < Len(p)
  PROVE  /\ n + 1 \in DOMAIN p /\ Len(p) \in Nat
         /\ IsFiniteSet(EndsUpTo(p, n)) /\ IsFiniteSet(Unfinished(p, n))
         /\ Cardinality(EndsUpTo(p, n)) \in Nat /\ Cardinality(Unfinished(p, n)) \in Nat
         /\ p[n + 1] # "end" =>
              EndsUpTo(p, n + 1) = EndsUpTo(p, n)
         /\ p[n + 1] = "start" =>
              Unfinished(p, n + 1) = Unfinished(p, n)
         /\ p[n + 1] = "payload" =>
              /\ Unfinished(p, n + 1) = Unfinished(p, n) \cup {n + 1}
              /\ Cardinality(Unfinished(p, n + 1)) = Cardinality(Unfinished(p, n)) + 1
         /\ p[n + 1] = "end" =>
              /\ n + 1 \in EndsOf(p)
              /\ Unfinished(p, n + 1) = {}
              /\ PackageOf(p, n + 1) = Unfinished(p, n)
              /\ EndsUpTo(p, (n + 1) - 1) = EndsUpTo(p, n)
              /\ Cardinality(EndsUpTo(p, n + 1)) = Cardinality(EndsUpTo(p, n)) + 1
<1>1. Len(p) \in Nat /\ DOMAIN p = 1 .. Len(p) /\ n + 1 \in DOMAIN p
  OBVIOUS
<1>2. IsFiniteSet(DOMAIN p)
  BY <1>1, FS_Interval
<1>3. /\ IsFiniteSet(EndsUpTo(p, n)) /\ IsFiniteSet(Unfinished(p, n))
  <2>1. EndsUpTo(p, n) \subseteq DOMAIN p /\ Unfinished(p, n) \subseteq DOMAIN p
    BY DEF EndsUpTo, EndsOf, Unfinished
  <2> QED BY <1>2, <2>1, FS_Subset
<1>4. Cardinality(EndsUpTo(p, n)) \in Nat /\ Cardinality(Unfinished(p, n)) \in Nat
  BY <1>3, FS_CardinalityType
<1>5. ASSUME p[n + 1] # "end" PROVE EndsUpTo(p, n + 1) = EndsUpTo(p, n)
  BY <1>1, <1>5 DEF EndsUpTo, EndsOf
<1>6. ASSUME p[n + 1] # "end"
      PROVE  \A i \in DOMAIN p, f \in EndsOf(p) : n < f <=> n + 1 < f
  BY <1>1, <1>6 DEF EndsOf
<1>7. ASSUME p[n + 1] = "start" PROVE Unfinished(p, n + 1) = Unfinished(p, n)
  BY <1>1, <1>6, <1>7 DEF Unfinished
<1>8. ASSUME p[n + 1] = "payload"
      PROVE  /\ Unfinished(p, n + 1) = Unfinished(p, n) \cup {n + 1}
             /\ Cardinality(Unfinished(p, n + 1)) = Cardinality(Unfinished(p, n)) + 1
  <2>1. Unfinished(p, n + 1) = Unfinished(p, n) \cup {n + 1}
    BY <1>1, <1>6, <1>8 DEF Unfinished
  <2>2. n + 1 \notin Unfinished(p, n)
    BY DEF Unfinished
  <2> QED BY <1>3, <2>1, <2>2, FS_AddElement
<1>9. ASSUME p[n + 1] = "end"
      PROVE  /\ n + 1 \in EndsOf(p)
             /\ Unfinished(p, n + 1) = {}
             /\ PackageOf(p, n + 1) = Unfinished(p, n)
             /\ EndsUpTo(p, (n + 1) - 1) = EndsUpTo(p, n)
             /\ Cardinality(EndsUpTo(p, n + 1)) = Cardinality(EndsUpTo(p, n)) + 1
  <2>1. n + 1 \in EndsOf(p) /\ \A f \in EndsOf(p) : f \in Nat
    BY <1>1, <1>9 DEF EndsOf
  <2>2. Unfinished(p, n + 1) = {}
    <3> SUFFICES ASSUME NEW i \in Unfinished(p, n + 1) PROVE FALSE
      OBVIOUS
    <3>1. i \in Nat /\ i <= n + 1 /\ i # n + 1 /\ (i < n + 1 => n + 1 < n + 1)
      BY <1>1, <1>9, <2>1 DEF Unfinished
    <3> QED BY <3>1
  <2>3. PackageOf(p, n + 1) = Unfinished(p, n)
    <3>1. \A i \in DOMAIN p : i < n + 1 <=> i <= n
      BY <1>1
    <3>2. \A f \in EndsOf(p) : n + 1 <= f <=> n < f
      BY <2>1
    <3> QED BY <3>1, <3>2 DEF PackageOf, Unfinished
  <2>4. (n + 1) - 1 = n
    OBVIOUS
  <2>5. EndsUpTo(p, n + 1) = EndsUpTo(p, n) \cup {n + 1} /\ n + 1 \notin EndsUpTo(p, n)
    BY <2>1 DEF EndsUpTo
  <2>6. Cardinality(EndsUpTo(p, n + 1)) = Cardinality(EndsUpTo(p, n)) + 1
    BY <1>3, <2>5, FS_AddElement
  <2> QED BY <2>1, <2>2, <2>3, <2>4, <2>6
<1> QED BY <1>1, <1>3, <1>4, <1>5, <1>7, <1>8, <1>9

\* Before its first part nothing of a script has come.
LEMMA NothingYet ==
  ASSUME NEW p \in Seq(Parts)
  PROVE  Unfinished(p, 0) = {} /\ EndsUpTo(p, 0) = {}
<1>1. \A i \in DOMAIN p : i \in Nat /\ i > 0
  OBVIOUS
<1> QED BY <1>1 DEF Unfinished, EndsUpTo, EndsOf

\* A package of a record is as long as the record.
LEMMA PackageLength ==
  ASSUME NEW p, NEW c, NEW d, NEW n, WellMade(p), Numbered(d, c, p, n)
  PROVE  Len(d) = RecordLength
BY DEF WellMade, Numbered, Holds

\* The messages of a session, and one more of it or of another.
LEMMA MineFacts ==
  ASSUME NEW o \in Seq(Message), NEW m \in Message, NEW sid
  PROVE  /\ CountMine(o, sid) \in Nat
         /\ \A i \in 1 .. Len(o) + 1 : Mine(Append(o, m), sid, i) = Mine(o, sid, i)
         /\ m.sid = sid => CountMine(Append(o, m), sid) = CountMine(o, sid) + 1
         /\ m.sid # sid => CountMine(Append(o, m), sid) = CountMine(o, sid)
<1> DEFINE O == Append(o, m)
           L == Len(o)
<1>1. /\ L \in Nat /\ Len(O) = L + 1 /\ O[L + 1] = m
      /\ \A j \in 1 .. L : O[j] = o[j]
  OBVIOUS
<1>2. IsFiniteSet(Mine(o, sid, L + 1))
  <2>1. Mine(o, sid, L + 1) \subseteq 1 .. L /\ IsFiniteSet(1 .. L)
    BY <1>1, FS_Interval DEF Mine
  <2> QED BY <2>1, FS_Subset
<1>3. CountMine(o, sid) \in Nat
  BY <1>2, FS_CardinalityType DEF CountMine
<1> HIDE DEF O, L
<1>4. \A i \in 1 .. L + 1 : Mine(O, sid, i) = Mine(o, sid, i)
  BY <1>1 DEF Mine
<1>5. /\ L + 1 \notin Mine(o, sid, L + 1)
      /\ Mine(O, sid, (L + 1) + 1) =
           IF m.sid = sid THEN Mine(o, sid, L + 1) \cup {L + 1} ELSE Mine(o, sid, L + 1)
  BY <1>1 DEF Mine
<1>6. m.sid = sid => CountMine(O, sid) = CountMine(o, sid) + 1
  BY <1>1, <1>2, <1>5, FS_AddElement DEF CountMine, L
<1>7. m.sid # sid => CountMine(O, sid) = CountMine(o, sid)
  BY <1>1, <1>5 DEF CountMine, L
<1> QED BY <1>3, <1>4, <1>6, <1>7 DEF O, L

\* The scripts are sequences, and the other variables of what they are.
LEMMA RTypes ==
  ASSUME TypeOK
  PROVE  /\ \A c \in Clients : /\ script[c] \in Seq(Parts) /\ Len(script[c]) \in Nat
                               /\ sent[c] \in Nat /\ got[c] \in Nat /\ read[c] \in Nat
                               /\ session[c] \in Nat
         /\ baseSid \in Nat \ {0} /\ out \in Seq(Message) /\ Len(out) \in Nat
         /\ lists \in Seq(Seq(Clients \X Nat)) /\ Len(lists) \in Nat
<1>1. script \in [Clients -> Seq(Parts)]
  BY DEF TypeOK
<1>2. \A c \in Clients : script[c] \in Seq(Parts) /\ Len(script[c]) \in Nat
  BY <1>1
<1>3. out \in Seq(Message) /\ lists \in Seq(Seq(Clients \X Nat))
  BY DEF TypeOK
<1>4. Len(out) \in Nat /\ Len(lists) \in Nat
  BY <1>3
<1> QED BY <1>2, <1>3, <1>4 DEF TypeOK

\* Steps that touch neither the connections nor the messages.
LEMMA FollowedSame ==
  ASSUME Followed, UNCHANGED <<script, session, out, peer, read, sock2Connection, lists>>,
         sock' = sock \/ lists = <<>>
  PROVE  Followed'
<1>1. \A s \in Socks : ListsOf(s)' = ListsOf(s)
  BY DEF ListsOf
<1> QED BY <1>1 DEF Followed

LEMMA OrderlySame ==
  ASSUME Orderly, UNCHANGED <<script, session, baseSid, out, sent, got, read>>,
         lists' \in {lists, <<>>}, lists = <<>> \/ at' = at \/ lists' = <<>>
  PROVE  Orderly'
BY DEF Orderly

\* What the clients do.
LEMMA ClientsFollowed ==
  ASSUME RInv, NEW c \in Clients, Client(c)
  PROVE  Orderly' /\ Followed'
<1>1. UNCHANGED <<script, session, baseSid, out, peer, read, sock2Connection, lists, sock, at, got>>
  BY DEF Client, Connect, Send, Shut, Reset, clients, table
<1>2. Followed'
  BY <1>1, FollowedSame DEF RInv
<1>3. \A d \in Clients : got[d] <= sent'[d] /\ sent'[d] <= Len(script[d])
  <2>1. CASE Connect(c) \/ Shut(c)
    BY <2>1 DEF Connect, Shut, clients, RInv, Orderly
  <2>2. CASE Send(c)
    <3>1. sent \in [Clients -> Nat]
      BY DEF RInv, IInv, TypeOK
    <3>2. sent' = [sent EXCEPT ![c] = sent[c] + 1] /\ sent[c] < Len(script[c])
      BY <2>2 DEF Send
    <3> QED BY <3>1, <3>2, RTypes DEF RInv, IInv, Orderly
  <2>3. CASE Reset(c)
    <3>1. sent \in [Clients -> Nat]
      BY DEF RInv, IInv, TypeOK
    <3>2. PICK n \in got[c] .. sent[c] : sent' = [sent EXCEPT ![c] = n]
      BY <2>3 DEF Reset
    <3> QED BY <3>1, <3>2, RTypes DEF RInv, IInv, Orderly
  <2> QED BY <2>1, <2>2, <2>3 DEF Client
<1> QED BY <1>1, <1>2, <1>3 DEF RInv, Orderly

\* recv(), and the steps that only move the thread on.
LEMMA LoopFollowed ==
  ASSUME RInv,
         StorePort \/ Bind \/ ThreadEnds \/ EventsDone \/ AcceptFails \/ AcceptDone \/ RecvAgain
           \/ Delivered \/ DeliverThrows \/ PushBackThrows \/ Wait \/ NextEvent \/ Recv
  PROVE  Orderly' /\ Followed'
<1>1. UNCHANGED <<script, session, baseSid, out, peer, read, sock2Connection>>
  BY DEF StorePort, Bind, ThreadEnds, EventsDone, AcceptFails, AcceptDone, RecvAgain, Delivered,
         DeliverThrows, PushBackThrows, Wait, NextEvent, Recv, clients, table
<1>2. CASE NextEvent
  <2>1. lists = <<>> /\ lists' = lists /\ UNCHANGED <<sent, got>>
    BY <1>2 DEF NextEvent, RInv, Orderly, clients
  <2> QED BY <1>1, <2>1, FollowedSame, OrderlySame DEF RInv
<1>3. CASE Recv
  <2>1. UNCHANGED <<lists, sock, sent>> /\ at = "recv"
    BY <1>3 DEF Recv, clients
  <2>2. Followed'
    BY <1>1, <2>1, FollowedSame DEF RInv
  <2>3. PICK n \in got[peer[sock]] + 1 .. sent[peer[sock]] : got' = [got EXCEPT ![peer[sock]] = n]
    BY <1>3 DEF Recv
  <2>4. peer[sock] \in Clients /\ got \in [Clients -> Nat] /\ session[peer[sock]] # 0
    BY <2>1, SlotAtHand DEF RInv, IInv, TypeOK, Deep, PeersDiffer
  <2>5. \A c \in Clients : /\ read[c] <= got'[c] /\ got'[c] <= sent[c]
                           /\ session[c] = 0 => got'[c] = 0
    BY <2>3, <2>4, RTypes DEF RInv, IInv, Orderly
  <2>6. lists = <<>>
    BY <2>1 DEF RInv, Orderly
  <2> QED BY <1>1, <2>1, <2>2, <2>5, <2>6 DEF RInv, Orderly
<1>4. CASE ~NextEvent /\ ~Recv
  <2>1. UNCHANGED <<lists, sock, sent, got>>
    BY <1>4 DEF StorePort, Bind, ThreadEnds, EventsDone, AcceptFails, AcceptDone, RecvAgain,
                Delivered, DeliverThrows, PushBackThrows, Wait, clients
  <2>2. lists = <<>> \/ at' = at
    BY <1>4 DEF StorePort, Bind, ThreadEnds, EventsDone, AcceptFails, AcceptDone, RecvAgain,
                Delivered, DeliverThrows, PushBackThrows, Wait, RInv, Orderly
  <2> QED BY <1>1, <2>1, <2>2, FollowedSame, OrderlySame DEF RInv
<1> QED BY <1>2, <1>3, <1>4

\* A connection that is closed takes with it what was unfinished, and nothing else.
LEMMA CloseFollowed ==
  ASSUME RInv, RecvEnds \/ PutFails
  PROVE  Orderly' /\ Followed'
<1>1. /\ at \in {"recv", "put"} /\ Close /\ lists' = <<>>
      /\ UNCHANGED <<script, sent, got, read, sock, baseSid, out, session>>
  BY DEF RecvEnds, PutFails, Putting, clients, RInv, Orderly
<1>2. sock \in Socks /\ sock \in DOMAIN sock2Connection
  BY <1>1, SlotAtHand DEF RInv
<1>3. /\ peer'[sock] = Nobody /\ \A s \in Socks \ {sock} : peer'[s] = peer[s]
      /\ Nobody \notin Clients
  BY <1>1, <1>2 DEF Close, RInv, IInv, TypeOK
<1>4. \A s \in DOMAIN sock2Connection \ {sock} : sock2Connection'[s] = sock2Connection[s]
  BY <1>1, <1>2, ClearIsSlot, TableKept DEF Close, RInv
<1>5. Followed'
  <2>1. ASSUME NEW s \in Socks, peer'[s] \in Clients, WellMade(script'[peer'[s]])
        PROVE  SlotRight(peer'[s], script'[peer'[s]], read'[peer'[s]], sock2Connection'[s],
                         ListsOf(s)', CountMine(out', session'[peer'[s]]))
    <3>1. s # sock /\ peer'[s] = peer[s]
      BY <1>3, <2>1
    <3>2. s \in DOMAIN sock2Connection
      BY <2>1, <3>1 DEF RInv, IInv, Deep, TableTellsSockets
    <3>3. sock2Connection'[s] = sock2Connection[s]
      BY <1>4, <3>1, <3>2
    <3>4. ListsOf(s)' = <<>> /\ ListsOf(s) = <<>>
      BY <1>1, <3>1 DEF ListsOf
    <3> QED BY <1>1, <2>1, <3>1, <3>3, <3>4 DEF RInv, Followed
  <2> QED BY <1>1, <2>1 DEF RInv, Followed
<1> QED BY <1>1, <1>5, OrderlySame DEF RInv

-----------------------------------------------------------------------------
(* put() and what becomes of what it collects.                             *)

\* put() goes on by one part: if what it writes is right for the client at the
\* other end, all is right.
LEMMA PutFollowed ==
  ASSUME RInv, Putting, NEW stat \in {"START", "END"}, NEW data \in Seq(Clients \X Nat),
         PutDone(stat, data),
         LET c == peer[sock]
         IN  WellMade(script[c]) =>
               SlotRight(c, script[c], read[c] + 1,
                         [sid |-> connection.sid, sock |-> connection.sock,
                          stat |-> stat, data |-> data],
                         lists', CountMine(out, session[c]))
  PROVE  Orderly' /\ Followed'
<1> DEFINE c == peer[sock]
           slot == [sid |-> connection.sid, sock |-> connection.sock,
                    stat |-> stat, data |-> data]
<1>1. /\ sock \in Socks /\ c \in Clients /\ sock \in DOMAIN sock2Connection
      /\ at = "put" /\ read[c] < got[c]
  BY SlotAtHand DEF RInv, Putting
<1>2. /\ sock2Connection' = [sock2Connection EXCEPT ![sock] = slot] /\ slot \in Slot
  BY PutWrites DEF RInv
<1>3. /\ sock2Connection'[sock] = slot
      /\ \A t \in DOMAIN sock2Connection \ {sock} : sock2Connection'[t] = sock2Connection[t]
  <2> HIDE DEF slot
  <2> QED BY <1>1, <1>2, TableKept DEF RInv
<1>4. /\ UNCHANGED <<script, sent, got, at, sock, peer, baseSid, out, session>>
      /\ read' = [read EXCEPT ![c] = read[c] + 1]
  BY DEF PutDone, clients
<1>5. read'[c] = read[c] + 1 /\ \A d \in Clients \ {c} : read'[d] = read[d]
  BY <1>1, <1>4 DEF RInv, IInv, TypeOK
<1>6. Orderly'
  <2>1. ASSUME NEW d \in Clients PROVE read'[d] <= got[d]
    <3>1. read[d] \in Nat /\ got[d] \in Nat /\ read[d] <= got[d]
      BY RTypes DEF RInv, IInv, Orderly
    <3>2. CASE d = c
      BY <1>1, <1>5, <3>1, <3>2
    <3>3. CASE d # c
      BY <1>5, <3>1, <3>3
    <3> QED BY <3>2, <3>3
  <2> QED BY <1>1, <1>4, <2>1 DEF RInv, Orderly
<1> HIDE DEF slot
<1>7. ASSUME NEW s \in Socks, peer[s] \in Clients, WellMade(script[peer[s]])
      PROVE  SlotRight(peer[s], script[peer[s]], read'[peer[s]], sock2Connection'[s],
                       ListsOf(s)', CountMine(out, session[peer[s]]))
  <2>1. CASE s = sock
    <3>1. ListsOf(s)' = lists'
      BY <1>4, <2>1 DEF ListsOf
    <3>2. SlotRight(c, script[c], read[c] + 1, slot, lists', CountMine(out, session[c]))
      BY <1>7, <2>1 DEF slot
    <3> QED BY <1>3, <1>5, <2>1, <3>1, <3>2
  <2>2. CASE s # sock
    <3>1. peer[s] # c
      BY <1>1, <1>7, <2>2 DEF RInv, IInv, Deep, PeersDiffer
    <3>2. s \in DOMAIN sock2Connection
      BY <1>7 DEF RInv, IInv, Deep, TableTellsSockets
    <3>3. ListsOf(s)' = <<>> /\ ListsOf(s) = <<>>
      BY <1>4, <2>2 DEF ListsOf
    <3>4. SlotRight(peer[s], script[peer[s]], read[peer[s]], sock2Connection[s], <<>>,
                    CountMine(out, session[peer[s]]))
      BY <1>7, <3>3 DEF RInv, Followed
    <3> QED BY <1>3, <1>5, <1>7, <2>2, <3>1, <3>2, <3>3, <3>4
  <2> QED BY <2>1, <2>2
<1>8. Followed'
  BY <1>4, <1>7 DEF RInv, Followed
<1> QED BY <1>6, <1>8

\* Where put() is with a client that encodes.
LEMMA PutWhere ==
  ASSUME RInv, Putting
  PROVE  LET c == peer[sock]
             p == script[c]
             n == read[c]
         IN  /\ sock \in Socks /\ c \in Clients /\ p \in Seq(Parts) /\ n \in Nat /\ n < Len(p)
             /\ connection \in Slot /\ connection.data \in Seq(Clients \X Nat)
             /\ lists \in Seq(Seq(Clients \X Nat))
             /\ Part = p[n + 1] /\ Place = <<c, n + 1>> /\ Part \in Parts
             /\ CountMine(out, session[c]) \in Nat
             /\ WellMade(p) => SlotRight(c, p, n, connection, lists, CountMine(out, session[c]))
<1> DEFINE c == peer[sock]
           p == script[c]
           n == read[c]
<1>1. /\ sock \in Socks /\ c \in Clients /\ connection \in Slot
      /\ connection.data \in Seq(Clients \X Nat)
  BY SlotAtHand DEF RInv, Putting, Slot
<1>2. /\ p \in Seq(Parts) /\ Len(p) \in Nat /\ n \in Nat /\ got[c] \in Nat /\ sent[c] \in Nat
      /\ lists \in Seq(Seq(Clients \X Nat)) /\ out \in Seq(Message)
  BY <1>1, RTypes DEF RInv, IInv
<1>3. n < got[c] /\ got[c] <= sent[c] /\ sent[c] <= Len(p)
  BY <1>1 DEF RInv, Orderly, Putting
<1>4. n < Len(p)
  BY <1>2, <1>3
<1>5. Part = p[n + 1] /\ Place = <<c, n + 1>>
  BY DEF Part, Place
<1>6. Part \in Parts
  BY <1>2, <1>4, <1>5
<1>7. CountMine(out, session[c]) \in Nat
  <2>1. IsFiniteSet(1 .. (Len(out) + 1) - 1)
    BY <1>2, FS_Interval
  <2>2. Mine(out, session[c], Len(out) + 1) \subseteq 1 .. (Len(out) + 1) - 1
    BY DEF Mine
  <2> QED BY <2>1, <2>2, FS_Subset, FS_CardinalityType DEF CountMine
<1>8. ASSUME WellMade(p)
      PROVE  SlotRight(c, p, n, connection, lists, CountMine(out, session[c]))
  <2>1. ListsOf(sock) = lists
    BY DEF ListsOf
  <2> QED BY <1>1, <1>8, <2>1 DEF RInv, Followed, connection
<1> QED BY <1>1, <1>2, <1>4, <1>5, <1>6, <1>7, <1>8

\* The part in front of a package.
LEMMA PutStartFollowed ==
  ASSUME RInv, PutStart
  PROVE  Orderly' /\ Followed'
<1> DEFINE c == peer[sock]
           p == script[c]
           n == read[c]
           m == CountMine(out, session[c])
           slot == [sid |-> connection.sid, sock |-> connection.sock,
                    stat |-> "END", data |-> connection.data]
<1>1. Putting /\ PutDone("END", connection.data) /\ lists' = lists /\ Part = "start"
  BY DEF PutStart
<1>2. ASSUME WellMade(p) PROVE SlotRight(c, p, n + 1, slot, lists, m)
  <2>1. /\ p \in Seq(Parts) /\ n \in Nat /\ n < Len(p) /\ p[n + 1] = "start"
        /\ SlotRight(c, p, n, connection, lists, m)
    BY <1>1, <1>2, PutWhere
  <2>2. Unfinished(p, n + 1) = Unfinished(p, n) /\ EndsUpTo(p, n + 1) = EndsUpTo(p, n)
    BY <2>1, PartFacts
  <2>3. slot.stat = "END" /\ slot.data = connection.data
    OBVIOUS
  <2> HIDE DEF c, p, n, m, slot
  <2> QED BY <2>1, <2>2, <2>3 DEF SlotRight
<1> QED BY <1>1, <1>2, PutWhere, PutFollowed

\* A piece of a package.
LEMMA PutPayloadFollowed ==
  ASSUME RInv, PutPayload
  PROVE  Orderly' /\ Followed'
<1> DEFINE c == peer[sock]
           p == script[c]
           n == read[c]
           m == CountMine(out, session[c])
           d == connection.data
           data == Append(d, Place)
           slot == [sid |-> connection.sid, sock |-> connection.sock,
                    stat |-> "END", data |-> data]
<1>1. /\ Putting /\ PutDone("END", data) /\ lists' = lists /\ Part # "end"
      /\ connection.stat = "END"
  BY DEF PutPayload
<1>2. /\ p \in Seq(Parts) /\ n \in Nat /\ n < Len(p) /\ p[n + 1] = Part /\ Part \in Parts
      /\ d \in Seq(Clients \X Nat) /\ Place = <<c, n + 1>> /\ c \in Clients
  BY <1>1, PutWhere
<1>3. data \in Seq(Clients \X Nat)
  <2>1. Place \in Clients \X Nat
    BY <1>1, PlaceType DEF RInv
  <2> QED BY <1>2, <2>1
<1>4. ASSUME WellMade(p) PROVE SlotRight(c, p, n + 1, slot, lists, m)
  <2>1. SlotRight(c, p, n, connection, lists, m)
    BY <1>1, <1>4, PutWhere
  <2>2. p[n + 1] = "payload"
    <3>1. ~(n = 0 \/ p[n] = "end")
      BY <1>1, <2>1 DEF SlotRight
    <3>2. n + 1 \in 1 .. Len(p) /\ (n + 1) - 1 = n
      BY <1>2
    <3>3. p[n + 1] # "start"
      BY <1>2, <1>4, <3>1, <3>2 DEF WellMade
    <3> QED BY <1>1, <1>2, <3>3 DEF Parts
  <2>3. /\ EndsUpTo(p, n + 1) = EndsUpTo(p, n)
        /\ Unfinished(p, n + 1) = Unfinished(p, n) \cup {n + 1}
        /\ Cardinality(Unfinished(p, n + 1)) = Cardinality(Unfinished(p, n)) + 1
    BY <1>2, <2>2, PartFacts
  <2>4. /\ {d[j] : j \in 1 .. Len(d)} = {c} \X Unfinished(p, n)
        /\ Len(d) = Cardinality(Unfinished(p, n))
    BY <2>1 DEF SlotRight, Holds
  <2>5. /\ Len(data) = Len(d) + 1 /\ data[Len(d) + 1] = <<c, n + 1>> /\ Len(d) \in Nat
        /\ \A j \in 1 .. Len(d) : data[j] = d[j]
    BY <1>2
  <2>6. slot.stat = "END" /\ slot.data = data
    OBVIOUS
  <2> HIDE DEF c, p, n, m, d, data, slot
  <2>7. {data[j] : j \in 1 .. Len(data)} = {c} \X Unfinished(p, n + 1)
    <3>1. {data[j] : j \in 1 .. Len(data)} = {d[j] : j \in 1 .. Len(d)} \cup {<<c, n + 1>>}
      <4>1. 1 .. Len(data) = 1 .. Len(d) \cup {Len(d) + 1}
        BY <2>5
      <4> QED BY <2>5, <4>1
    <3>2. {c} \X Unfinished(p, n + 1) = ({c} \X Unfinished(p, n)) \cup {<<c, n + 1>>}
      BY <2>3
    <3> QED BY <2>4, <3>1, <3>2
  <2>8. Holds(data, c, Unfinished(p, n + 1))
    BY <2>3, <2>4, <2>5, <2>7 DEF Holds
  <2>9. ~(n + 1 = 0 \/ p[n + 1] = "end")
    BY <1>2, <2>2
  <2> QED BY <2>1, <2>3, <2>6, <2>8, <2>9 DEF SlotRight
<1> HIDE DEF data
<1> QED BY <1>1, <1>3, <1>4, PutFollowed

\* The part behind a package: what was unfinished is the package.
LEMMA PutEndFollowed ==
  ASSUME RInv, PutEnd
  PROVE  Orderly' /\ Followed'
<1> DEFINE c == peer[sock]
           p == script[c]
           n == read[c]
           m == CountMine(out, session[c])
           d == connection.data
           none == <<>>
           slot == [sid |-> connection.sid, sock |-> connection.sock,
                    stat |-> "START", data |-> none]
<1>1. /\ Putting /\ PutDone("START", none) /\ lists' = Append(lists, d) /\ Part = "end"
  BY DEF PutEnd
<1>2. /\ p \in Seq(Parts) /\ n \in Nat /\ n < Len(p) /\ p[n + 1] = "end"
      /\ d \in Seq(Clients \X Nat) /\ lists \in Seq(Seq(Clients \X Nat)) /\ m \in Nat
  BY <1>1, PutWhere
<1>3. none \in Seq(Clients \X Nat) /\ Len(none) = 0
  OBVIOUS
<1>4. ASSUME WellMade(p) PROVE SlotRight(c, p, n + 1, slot, lists', m)
  <2>1. SlotRight(c, p, n, connection, lists, m)
    BY <1>1, <1>4, PutWhere
  <2>2. /\ n + 1 \in EndsOf(p)
        /\ Unfinished(p, n + 1) = {}
        /\ PackageOf(p, n + 1) = Unfinished(p, n)
        /\ EndsUpTo(p, (n + 1) - 1) = EndsUpTo(p, n)
        /\ Cardinality(EndsUpTo(p, n + 1)) = Cardinality(EndsUpTo(p, n)) + 1
        /\ Cardinality(EndsUpTo(p, n)) \in Nat
    BY <1>2, PartFacts
  <2>3. slot.stat = "START" /\ slot.data = none
    OBVIOUS
  <2>4. /\ Len(lists') = Len(lists) + 1 /\ lists'[Len(lists) + 1] = d /\ Len(lists) \in Nat
        /\ \A k \in 1 .. Len(lists) : lists'[k] = lists[k]
    BY <1>1, <1>2
  <2>5. /\ m + Len(lists) = Cardinality(EndsUpTo(p, n))
        /\ Holds(d, c, Unfinished(p, n))
        /\ \A k \in 1 .. Len(lists) : Numbered(lists[k], c, p, m + k - 1)
    BY <2>1 DEF SlotRight
  <2>6. Holds(none, c, {})
    <3>1. Cardinality({}) = 0
      BY FS_EmptySet
    <3> QED BY <1>3, <3>1 DEF Holds
  <2> HIDE DEF c, p, n, m, d, none, slot
  <2>7. Numbered(d, c, p, m + Len(lists))
    BY <2>2, <2>5 DEF Numbered
  <2>8. ASSUME NEW k \in 1 .. Len(lists') PROVE Numbered(lists'[k], c, p, m + k - 1)
    <3>1. CASE k \in 1 .. Len(lists)
      BY <2>4, <2>5, <3>1
    <3>2. CASE k = Len(lists) + 1
      <4>1. m + k - 1 = m + Len(lists)
        BY <1>2, <2>4, <3>2
      <4> QED BY <2>4, <2>7, <3>2, <4>1
    <3> QED BY <2>4, <3>1, <3>2
  <2>9. m + Len(lists') = Cardinality(EndsUpTo(p, n + 1))
    BY <1>2, <2>2, <2>4, <2>5
  <2> QED BY <1>2, <2>2, <2>3, <2>6, <2>8, <2>9 DEF SlotRight
<1> HIDE DEF none
<1> QED BY <1>1, <1>3, <1>4, PutFollowed

\* No message is of session 0.
LEMMA MessagesHaveSessions ==
  ASSUME TypeOK, NEW i \in 1 .. Len(out)
  PROVE  out[i].sid # 0
<1>1. out[i] \in Message
  BY DEF TypeOK
<1> QED BY <1>1 DEF Message

\* A package becomes the next message of its session.
LEMMA DeliverFollowed ==
  ASSUME RInv, Deliver
  PROVE  Orderly' /\ Followed'
<1> DEFINE c == peer[sock]
           m == [sock |-> connection.sock, sid |-> connection.sid, data |-> Head(lists)]
<1>1. /\ at = "put" /\ lists # <<>> /\ out' = Append(out, m) /\ lists' = Tail(lists)
      /\ UNCHANGED <<script, sent, got, read, at, sock, peer, sock2Connection, baseSid, session>>
  BY DEF Deliver, Returned, clients, table
<1>2. /\ sock \in Socks /\ c \in Clients /\ connection.sid = session[c] /\ session[c] # 0
      /\ connection \in Slot /\ connection.sock = sock
  <2>1. sock \in Socks /\ c \in Clients /\ connection \in Slot
    BY <1>1, SlotAtHand DEF RInv
  <2> QED BY <2>1 DEF RInv, IInv, Deep, TableTellsSockets, connection
<1>3. /\ out \in Seq(Message) /\ Len(out) \in Nat
      /\ lists \in Seq(Seq(Clients \X Nat)) /\ Len(lists) \in Nat
  BY RTypes DEF RInv, IInv
<1>4. /\ Len(lists) > 0 /\ Head(lists) = lists[1] /\ Len(lists') = Len(lists) - 1
      /\ \A k \in 1 .. Len(lists') : lists'[k] = lists[k + 1]
  BY <1>1, <1>3
<1>5. m \in Message /\ m.sid = session[c] /\ m.data = lists[1]
  <2>1. Head(lists) \in Seq(Clients \X Nat) /\ connection.sid \in Nat \ {0}
    BY <1>1, <1>2, <1>3 DEF Slot
  <2> QED BY <1>2, <1>4, <2>1 DEF Message
<1> HIDE DEF m
<1>6. /\ Len(out') = Len(out) + 1 /\ out'[Len(out) + 1] = m
      /\ \A i \in 1 .. Len(out) : out'[i] = out[i]
  BY <1>1, <1>3, <1>5
<1>7. Orderly'
  <2>1. ASSUME NEW i \in 1 .. Len(out') PROVE \E d \in Clients : out'[i].sid = session[d]
    <3>1. CASE i \in 1 .. Len(out)
      BY <1>6, <3>1 DEF RInv, Orderly
    <3>2. CASE i = Len(out) + 1
      BY <1>2, <1>5, <1>6, <3>2
    <3> QED BY <1>3, <1>6, <3>1, <3>2
  <2> QED BY <1>1, <2>1 DEF RInv, Orderly
<1>8. ASSUME NEW d \in Clients
      PROVE  /\ CountMine(out, session[d]) \in Nat
             /\ \A i \in 1 .. Len(out) + 1 : Mine(out', session[d], i) = Mine(out, session[d], i)
             /\ d = c => CountMine(out', session[d]) = CountMine(out, session[d]) + 1
             /\ d # c => m.sid # session[d] /\ CountMine(out', session[d]) = CountMine(out, session[d])
  <2>1. d # c => m.sid # session[d]
    BY <1>2, <1>5 DEF RInv, Orderly
  <2> QED BY <1>1, <1>3, <1>5, <2>1, MineFacts
<1>9. ASSUME WellMade(script[c])
      PROVE  SlotRight(c, script[c], read[c], sock2Connection[sock], lists, CountMine(out, session[c]))
  <2>1. ListsOf(sock) = lists
    BY DEF ListsOf
  <2> QED BY <1>2, <1>9, <2>1 DEF RInv, Followed
<1>10. ASSUME NEW d \in Clients, WellMade(script[d]), session[d] # 0
       PROVE  MessagesRight(d, script[d], out', session[d])
  <2>1. MessagesRight(d, script[d], out, session[d])
    BY <1>10 DEF RInv, Followed
  <2>2. ASSUME NEW i \in 1 .. Len(out'), out'[i].sid = session[d]
        PROVE  Numbered(out'[i].data, d, script[d], Cardinality(Mine(out', session[d], i)))
    <3>1. CASE i \in 1 .. Len(out)
      BY <1>3, <1>6, <1>8, <2>1, <2>2, <3>1 DEF MessagesRight
    <3>2. CASE i = Len(out) + 1
      <4>1. d = c /\ out'[i].data = lists[1]
        BY <1>5, <1>6, <1>8, <2>2, <3>2
      <4>2. CountMine(out, session[c]) + 1 - 1 = CountMine(out, session[c])
        BY <1>2, <1>8
      <4>3. Numbered(lists[1], c, script[c], CountMine(out, session[c]))
        BY <1>3, <1>4, <1>9, <1>10, <4>1, <4>2 DEF SlotRight
      <4>4. Mine(out', session[d], i) = Mine(out, session[c], Len(out) + 1)
        BY <1>3, <1>8, <3>2, <4>1
      <4> QED BY <4>1, <4>3, <4>4 DEF CountMine
    <3> QED BY <1>3, <1>6, <3>1, <3>2
  <2> QED BY <2>2 DEF MessagesRight
<1>11. ASSUME NEW s \in Socks, peer[s] \in Clients, WellMade(script[peer[s]])
       PROVE  SlotRight(peer[s], script[peer[s]], read[peer[s]], sock2Connection[s], ListsOf(s)',
                        CountMine(out', session[peer[s]]))
  <2>1. CASE s = sock
    <3> DEFINE n == CountMine(out, session[c])
               n1 == CountMine(out', session[c])
               p == script[c]
    <3>1. n \in Nat /\ n1 = n + 1 /\ ListsOf(s)' = lists'
      BY <1>1, <1>2, <1>8, <2>1 DEF ListsOf
    <3>2. SlotRight(c, p, read[c], sock2Connection[s], lists, n)
      BY <1>9, <1>11, <2>1
    <3> HIDE DEF n, n1, p
    <3>3. n1 + Len(lists') = n + Len(lists)
      BY <1>3, <1>4, <3>1
    <3>4. ASSUME NEW k \in 1 .. Len(lists') PROVE Numbered(lists'[k], c, p, n1 + k - 1)
      <4>1. k + 1 \in 1 .. Len(lists) /\ lists'[k] = lists[k + 1] /\ n + (k + 1) - 1 = n1 + k - 1
        BY <1>3, <1>4, <3>1
      <4>2. Numbered(lists[k + 1], c, p, n + (k + 1) - 1)
        BY <3>2, <4>1 DEF SlotRight
      <4> QED BY <4>1, <4>2
    <3>5. SlotRight(c, p, read[c], sock2Connection[s], lists', n1)
      BY <3>2, <3>3, <3>4 DEF SlotRight
    <3> QED BY <2>1, <3>1, <3>5 DEF p, n1
  <2>2. CASE s # sock
    <3>1. peer[s] # c
      BY <1>2, <1>11, <2>2 DEF RInv, IInv, Deep, PeersDiffer
    <3>2. ListsOf(s)' = ListsOf(s)
      BY <1>1, <2>2 DEF ListsOf
    <3> QED BY <1>8, <1>11, <3>1, <3>2 DEF RInv, Followed
  <2> QED BY <2>1, <2>2
<1>12. Followed'
  BY <1>1, <1>10, <1>11 DEF Followed
<1> QED BY <1>7, <1>12

\* A new client starts with nothing, whoever had its socket number before it.
LEMMA AcceptFollowed ==
  ASSUME RInv, Accept
  PROVE  Orderly' /\ Followed'
<1> DEFINE c == Head(backlog)
           sid == baseSid + 1
<1>1. PICK csock \in FreeSocks :
        /\ peer' = [peer EXCEPT ![csock] = c]
        /\ sock2Connection' = [Resized(csock) EXCEPT ![csock] = InUse(csock)]
  BY DEF Accept
<1>2. csock \in Socks /\ peer[csock] \notin Clients /\ peer \in [Socks -> Clients \cup {Nobody, Elsewhere}]
  BY DEF FreeSocks, RInv, IInv, TypeOK
<1>3. /\ at = "accept" /\ baseSid' = sid /\ session' = [session EXCEPT ![c] = sid]
      /\ UNCHANGED <<script, sent, got, read, at, sock, lists, out>>
  BY DEF Accept, AcceptOn, clients
<1>4. /\ c \in Clients /\ session[c] = 0
  <2>1. backlog \in Seq(Clients) /\ backlog # <<>>
    BY DEF RInv, IInv, TypeOK, Accept
  <2>2. c = backlog[1] /\ 1 \in 1 .. Len(backlog) /\ c \in Clients
    BY <2>1
  <2> QED BY <2>2 DEF RInv, IInv, Deep, PeersDiffer
<1>5. /\ \A d \in Clients : session[d] \in Nat /\ session[d] <= baseSid
      /\ baseSid \in Nat /\ session \in [Clients -> Nat] /\ sid \in Nat /\ sid # 0
      /\ out \in Seq(Message) /\ Len(out) \in Nat
  BY RTypes DEF RInv, IInv, Orderly, TypeOK
<1>6. session'[c] = sid /\ \A d \in Clients \ {c} : session'[d] = session[d] /\ session[d] # sid
  BY <1>3, <1>4, <1>5
<1>7. got[c] = 0 /\ read[c] = 0 /\ lists = <<>>
  BY <1>3, <1>4, RTypes DEF RInv, IInv, Orderly
<1>8. \A i \in 1 .. Len(out) : out[i].sid # sid /\ out[i].sid # 0
  <2>1. \A i \in 1 .. Len(out) : out[i].sid # sid
    BY <1>5 DEF RInv, Orderly
  <2>2. \A i \in 1 .. Len(out) : out[i].sid # 0
    BY MessagesHaveSessions DEF RInv, IInv
  <2> QED BY <2>1, <2>2
<1> HIDE DEF c, sid
<1>9. Orderly'
  <2>1. \A d \in Clients : /\ session'[d] = 0 => got[d] = 0
                           /\ session'[d] <= sid
    BY <1>5, <1>6, <1>7 DEF RInv, Orderly, sid
  <2>2. \A d, e \in Clients : session'[d] = session'[e] /\ session'[d] # 0 => d = e
    BY <1>6 DEF RInv, Orderly
  <2>3. ASSUME NEW i \in 1 .. Len(out) PROVE \E d \in Clients : out[i].sid = session'[d]
    <3>1. PICK d \in Clients : out[i].sid = session[d]
      BY DEF RInv, Orderly
    <3>2. d # c
      BY <1>4, <1>8, <3>1
    <3> QED BY <1>6, <3>1, <3>2
  <2> QED BY <1>3, <2>1, <2>2, <2>3 DEF RInv, Orderly
<1>10. /\ peer'[csock] = c /\ \A s \in Socks \ {csock} : peer'[s] = peer[s]
  BY <1>1, <1>2
<1>11. /\ sock2Connection'[csock].stat = "START" /\ sock2Connection'[csock].data = <<>>
       /\ \A s \in DOMAIN sock2Connection \ {csock} : sock2Connection'[s] = sock2Connection[s]
  <2>1. /\ csock \in DOMAIN Resized(csock) /\ Resized(csock)[csock] = Clear
        /\ \A s \in DOMAIN sock2Connection :
             s \in DOMAIN Resized(csock) /\ Resized(csock)[s] = sock2Connection[s]
    BY <1>2, SlotIsClear DEF RInv
  <2>2. PICK size \in 0 .. LastSock + 1 : Resized(csock) \in [0 .. size - 1 -> Slot]
    BY <1>2, SlotIsClear DEF RInv
  <2>3. /\ sock2Connection'[csock] = InUse(csock)
        /\ \A s \in DOMAIN Resized(csock) \ {csock} : sock2Connection'[s] = Resized(csock)[s]
    BY <1>1, <2>1, <2>2
  <2>4. InUse(csock).stat = "START" /\ InUse(csock).data = <<>>
    BY <2>1 DEF InUse, Clear
  <2> QED BY <2>1, <2>3, <2>4
<1>12. ASSUME NEW d \in Clients, WellMade(script[d]), session'[d] # 0
       PROVE  MessagesRight(d, script[d], out, session'[d])
  <2>1. CASE d = c
    BY <1>6, <1>8, <2>1 DEF MessagesRight
  <2>2. CASE d # c
    BY <1>6, <1>12, <2>2 DEF RInv, Followed
  <2> QED BY <2>1, <2>2
<1>13. ASSUME NEW s \in Socks, peer'[s] \in Clients, WellMade(script[peer'[s]])
       PROVE  SlotRight(peer'[s], script[peer'[s]], read[peer'[s]], sock2Connection'[s],
                        ListsOf(s)', CountMine(out, session'[peer'[s]]))
  <2>1. ListsOf(s)' = <<>> /\ ListsOf(s) = <<>>
    BY <1>3, <1>7 DEF ListsOf
  <2>2. CASE s = csock
    <3> DEFINE p == script[c]
    <3>1. p \in Seq(Parts)
      BY <1>4, RTypes DEF RInv, IInv
    <3>2. Unfinished(p, 0) = {} /\ EndsUpTo(p, 0) = {} /\ Cardinality({}) = 0
      BY <3>1, NothingYet, FS_EmptySet
    <3>3. CountMine(out, sid) = 0
      <4>1. Mine(out, sid, Len(out) + 1) = {}
        BY <1>5, <1>8 DEF Mine
      <4> QED BY <3>2, <4>1 DEF CountMine
    <3> HIDE DEF p
    <3>4. Holds(<<>>, c, {})
      BY <3>2 DEF Holds
    <3>5. SlotRight(c, p, 0, sock2Connection'[csock], <<>>, 0)
      <4> DEFINE none == <<>>
      <4>1. Len(none) = 0 /\ 1 .. Len(none) = {}
        OBVIOUS
      <4>2. none = <<>>
        OBVIOUS
      <4> HIDE DEF none
      <4>3. 0 + Len(none) = Cardinality(EndsUpTo(p, 0))
        <5>1. Cardinality(EndsUpTo(p, 0)) = 0
          BY <3>2, Zenon
        <5>2. 0 + Len(none) = 0
          BY <4>1
        <5> QED BY <5>1, <5>2, Zenon
      <4>4. \A k \in 1 .. Len(none) : Numbered(none[k], c, p, 0 + k - 1)
        BY <4>1
      <4>5. SlotRight(c, p, 0, sock2Connection'[csock], none, 0)
        <5>1. sock2Connection'[csock].stat = "START" /\ sock2Connection'[csock].data = none
          BY <1>11, <4>2
        <5>2. Holds(none, c, {})
          BY <3>4, <4>2
        <5> QED BY <3>2, <4>3, <4>4, <5>1, <5>2 DEF SlotRight
      <4> QED BY <4>2, <4>5
    <3> QED BY <1>6, <1>7, <1>10, <2>1, <2>2, <3>3, <3>5 DEF p
  <2>3. CASE s # csock
    <3>1. peer'[s] = peer[s] /\ peer[s] \in Clients
      BY <1>10, <1>13, <2>3
    <3>2. session[peer[s]] # 0 /\ s \in DOMAIN sock2Connection
      BY <3>1 DEF RInv, IInv, Deep, PeersDiffer, TableTellsSockets
    <3>3. peer[s] # c
      BY <1>4, <3>2
    <3> QED BY <1>6, <1>11, <1>13, <2>1, <2>3, <3>1, <3>2, <3>3 DEF RInv, Followed
  <2> QED BY <2>2, <2>3
<1>14. Followed'
  BY <1>3, <1>12, <1>13 DEF Followed
<1> QED BY <1>9, <1>14

-----------------------------------------------------------------------------
(* Nothing throws.                                                         *)

\* The message of a client that encodes is as long as a record.
LEMMA MessageLength ==
  ASSUME RInv, \A c \in Clients : WellMade(script[c]), NEW i \in 1 .. Len(out)
  PROVE  Len(out[i].data) = RecordLength
<1>1. PICK c \in Clients : out[i].sid = session[c]
  BY DEF RInv, Orderly
<1>2. out[i].sid # 0
  BY MessagesHaveSessions DEF RInv, IInv
<1>3. MessagesRight(c, script[c], out, session[c])
  BY <1>1, <1>2 DEF RInv, Followed
<1> QED BY <1>1, <1>3, PackageLength DEF MessagesRight

\* While all clients encode, the node goes on; and the worker never overtakes the
\* epoll thread.
LEMMA SurvivingStep ==
  ASSUME RInv, [NodeNext]_nodeVars
  PROVE  Surviving'
<1>1. script' = script
  BY DEF NodeNext, worker_thread, Get, PushBack, PushBackThrows, EpollNext, EpollThread, StorePort,
         Client, Connect, Send, Shut, Reset, Bind, ThreadEnds, EventsDone, AcceptFails, AcceptDone,
         RecvAgain, Delivered, DeliverThrows, Wait, NextEvent, Recv, RecvEnds, Accept, PutStart,
         PutPayload, PutEnd, PutFails, PutDone, Deliver, clients, vars, nodeVars
<1>2. taken \in 0 .. Len(out) /\ Len(out) \in Nat /\ out \in Seq(Message)
  BY RTypes DEF RInv, IInv, Surviving
<1>3. taken' \in 0 .. Len(out')
  <2>1. CASE Get
    BY <1>2, <2>1 DEF Get, vars
  <2>2. CASE Deliver /\ taken' = taken
    <3>1. Len(out') = Len(out) + 1
      BY <1>2, <2>2 DEF Deliver
    <3> QED BY <1>2, <2>2, <3>1
  <2>3. CASE UNCHANGED <<taken, out>>
    BY <1>2, <2>3
  <2> QED BY <2>1, <2>2, <2>3
          DEF NodeNext, worker_thread, PushBack, PushBackThrows, EpollNext, EpollThread, StorePort,
              Client, Connect, Send, Shut, Reset, Bind, ThreadEnds, EventsDone, AcceptFails,
              AcceptDone, RecvAgain, Delivered, DeliverThrows, Wait, NextEvent, Recv, RecvEnds,
              Accept, PutStart, PutPayload, PutEnd, PutFails, PutDone, vars, nodeVars
<1>4. ASSUME \A c \in Clients : WellMade(script[c])
      PROVE  alive' = TRUE
  <2>1. alive = TRUE
    BY <1>4 DEF RInv, Surviving
  <2>2. ~DeliverThrows
    <3> SUFFICES ASSUME DeliverThrows PROVE FALSE
      OBVIOUS
    <3>1. /\ at = "put" /\ lists # <<>> /\ Len(Head(lists)) < HeaderLength
      BY DEF DeliverThrows, Returned
    <3>2. sock \in Socks /\ peer[sock] \in Clients /\ ListsOf(sock) = lists
      BY <3>1, SlotAtHand DEF RInv, ListsOf
    <3>3. lists \in Seq(Seq(Clients \X Nat))
      BY RTypes DEF RInv, IInv
    <3>4. 1 \in 1 .. Len(lists) /\ Head(lists) = lists[1]
      BY <3>1, <3>3
    <3>5. Len(Head(lists)) = RecordLength
      BY <1>4, <3>2, <3>4, PackageLength DEF RInv, Followed, SlotRight
    <3> QED BY <3>1, <3>5
  <2>3. ~PushBackThrows
    <3> SUFFICES ASSUME PushBackThrows PROVE FALSE
      OBVIOUS
    <3>1. Len(cached) < taken /\ Len(out[taken].data) # RecordLength
      BY DEF PushBackThrows, Holding
    <3>2. taken \in 1 .. Len(out)
      BY <1>2, <3>1 DEF RInv, Surviving
    <3> QED BY <1>4, <3>1, <3>2, MessageLength
  <2> QED BY <2>1, <2>2, <2>3
          DEF NodeNext, worker_thread, Get, PushBack, EpollNext, EpollThread, StorePort,
              Client, Connect, Send, Shut, Reset, Bind, ThreadEnds, EventsDone, AcceptFails,
              AcceptDone, RecvAgain, Delivered, Wait, NextEvent, Recv, RecvEnds, Accept,
              PutStart, PutPayload, PutEnd, PutFails, PutDone, Deliver, vars, nodeVars
<1> QED BY <1>1, <1>3, <1>4 DEF Surviving

LEMMA RInvariance == NodeSpec => []RInv
<1>1. NodeInit => RInv
  <2> SUFFICES ASSUME NodeInit PROVE RInv
    OBVIOUS
  <2>1. IInv
    BY InitHolds
  <2>2. \A s \in Socks : peer[s] \notin Clients
    BY DEF NodeInit, Init
  <2>3. /\ out = <<>> /\ lists = <<>> /\ taken = 0 /\ alive = TRUE
        /\ \A c \in Clients : read[c] = 0 /\ got[c] = 0 /\ sent[c] = 0 /\ session[c] = 0
        /\ baseSid = 1
    BY DEF NodeInit, Init
  <2>4. Orderly
    BY <2>1, <2>3, RTypes DEF IInv, Orderly
  <2> QED BY <2>1, <2>2, <2>3, <2>4 DEF RInv, Followed, Surviving
<1>2. RInv /\ [NodeNext]_nodeVars => RInv'
  <2> SUFFICES ASSUME RInv, [NodeNext]_nodeVars PROVE RInv'
    OBVIOUS
  <2>1. IInv'
    BY StepHolds DEF RInv
  <2>2. Surviving'
    BY SurvivingStep
  <2>3. Orderly' /\ Followed'
    <3>1. CASE Get \/ PushBack \/ UNCHANGED nodeVars
      <4>1. UNCHANGED vars
        BY <3>1 DEF Get, PushBack, nodeVars
      <4> QED BY <4>1, FollowedSame, OrderlySame DEF vars, RInv
    <3>2. CASE \E c \in Clients : Client(c)
      BY <3>2, ClientsFollowed
    <3>3. CASE Accept
      BY <3>3, AcceptFollowed
    <3>4. CASE RecvEnds \/ PutFails
      BY <3>4, CloseFollowed
    <3>5. CASE PutStart \/ PutPayload \/ PutEnd
      BY <3>5, PutStartFollowed, PutPayloadFollowed, PutEndFollowed
    <3>6. CASE Deliver
      BY <3>6, DeliverFollowed
    <3>7. CASE StorePort \/ Bind \/ ThreadEnds \/ EventsDone \/ AcceptFails \/ AcceptDone
                 \/ RecvAgain \/ Delivered \/ DeliverThrows \/ PushBackThrows \/ Wait
                 \/ NextEvent \/ Recv
      BY <3>7, LoopFollowed
    <3> QED BY <3>1, <3>2, <3>3, <3>4, <3>5, <3>6, <3>7
            DEF NodeNext, worker_thread, EpollNext, EpollThread
  <2> QED BY <2>1, <2>2, <2>3 DEF RInv
<1> QED BY <1>1, <1>2, PTL DEF NodeSpec

\* Encodes is WellMade of the script.
LEMMA EncodesIsWellMade ==
  ASSUME TypeOK, NEW c \in Clients
  PROVE  /\ Encodes(c) <=> WellMade(script[c])
         /\ Ends(c) = EndsOf(script[c])
         /\ \A e : Package(c, e) = PackageOf(script[c], e)
BY DEF Encodes, WellMade, Ends, EndsOf, Package, PackageOf

\* The messages of a client that encodes are its packages, whole, in order, none
\* twice and none skipped (data.cpp put() and epoll.cpp's recv loop together),
\* for any number of clients, sockets and sessions.
THEOREM SessionsHaveTheirRecords == NodeSpec => []RecordsOfASession
<1>1. RInv => RecordsOfASession
  <2> SUFFICES ASSUME RInv, NEW c \in Clients, Encodes(c),
                      NEW i \in {i \in 1 .. Len(out) : out[i].sid = session[c]}
               PROVE  \E e \in Ends(c) :
                        /\ IsPackage(out[i], c, e)
                        /\ Cardinality({j \in {j \in 1 .. Len(out) : out[j].sid = session[c]} : j < i})
                             = Cardinality({f \in Ends(c) : f < e})
    BY DEF RecordsOfASession
  <2>1. /\ WellMade(script[c]) /\ Ends(c) = EndsOf(script[c])
        /\ \A e : Package(c, e) = PackageOf(script[c], e)
    BY EncodesIsWellMade DEF RInv, IInv
  <2>2. out \in Seq(Message) /\ i \in 1 .. Len(out) /\ Len(out) \in Nat
    BY RTypes DEF RInv, IInv
  <2>3. session[c] # 0
    BY <2>2, MessagesHaveSessions DEF RInv, IInv
  <2>4. PICK e \in EndsOf(script[c]) :
          /\ Holds(out[i].data, c, PackageOf(script[c], e))
          /\ Cardinality(Mine(out, session[c], i)) = Cardinality(EndsUpTo(script[c], e - 1))
    BY <2>1, <2>3 DEF RInv, Followed, MessagesRight, Numbered
  <2>5. {j \in {j \in 1 .. Len(out) : out[j].sid = session[c]} : j < i} = Mine(out, session[c], i)
    BY <2>2 DEF Mine
  <2>6. {f \in Ends(c) : f < e} = EndsUpTo(script[c], e - 1)
    <3>1. script[c] \in Seq(Parts)
      BY RTypes DEF RInv, IInv
    <3>2. e \in Nat /\ \A f \in EndsOf(script[c]) : f \in Nat
      BY <3>1 DEF EndsOf
    <3> QED BY <2>1, <3>2 DEF EndsUpTo
  <2>7. IsPackage(out[i], c, e)
    BY <2>1, <2>4 DEF IsPackage, Pieces, Holds
  <2> QED BY <2>1, <2>4, <2>5, <2>6, <2>7
<1> QED BY <1>1, RInvariance, PTL

\* The two exceptions nobody catches (data.cpp:139, 152) are out of reach of
\* clients that encode records, however many there are and whenever they break off.
THEOREM EncodersNeverEndTheNode == NodeSpec => []OnlyOthersEndTheNode
<1>1. RInv => OnlyOthersEndTheNode
  BY EncodesIsWellMade DEF RInv, IInv, Surviving, OnlyOthersEndTheNode
<1> QED BY <1>1, RInvariance, PTL
=============================================================================
