------------------------------- MODULE Broker -------------------------------
(***************************************************************************)
(* One boardcommd daemon and the clients of its Unix socket: the client    *)
(* manager (client_manager.c), the message bus (message_bus.c) and the     *)
(* epoll loop that drives them (reactor.c).                                 *)
(*                                                                          *)
(* The daemon is one thread.  pc says where in on_client_event it is, so   *)
(* that clients write, read and hang up between any two of its steps, but  *)
(* no second handler ever does.  Buffers are counted in frames.             *)
(***************************************************************************)
EXTENDS Router

CONSTANTS
  Clients,         \* file descriptors: one stands for every client that gets it
  NoClient,        \* no event is being handled
  Network,         \* the source of what arrives from other boards
  NodeId,          \* this board; destination 0 is "every board"
  RequireRoute, BridgeBroadcast,  \* "require_route", absence of "no_bridge"
  TxCap, RxCap,    \* frames in tx_buf (4 MiB) and rx_buf (256 KiB)
  SockCap,         \* frames the kernel holds in each direction of a socket
  MaxSubs,         \* BC_MAX_SUBSCRIPTIONS
  Menu,            \* Menu[c]: the frames, without their number, c may write
  Arrivals,        \* [msg, from]: what the transports may bring in
  MaxWrites,       \* bounds on the environment: how many frames each client writes,
  MaxConns,        \* how often a descriptor is given out,
  Leavers,         \* which clients may hang up,
  MaxArrivals      \* how many messages the transports bring in

FrameTypes == {"SUB", "PUB", "STATS", "SHM_SETUP"}

ASSUME BrokerAssumption ==
  /\ NoClient \notin Clients /\ Network \notin Clients
  /\ {TxCap, RxCap, SockCap, MaxSubs, MaxArrivals} \subseteq Nat
  /\ MaxWrites \in [Clients -> Nat]
  /\ \A c \in Clients : \A f \in Menu[c] : f.type \in FrameTypes

VARIABLES
  clients,   \* the manager's list, newest first
  link,      \* link[c]: "none", "open", or "eof" when the peer has closed
  sock,      \* frames c has written and the daemon has not read
  rx, tx,    \* rx_buf and tx_buf of each client
  out,       \* frames the kernel holds for c to read
  armed,     \* whether epoll watches c for EPOLLOUT
  subs,      \* the bus's table: a set of [fd, topic]
  pc,        \* where the daemon is
  me,        \* the client whose event it handles
  todo,      \* the rest of the list, in resume_pending_publishers
  after,     \* where it goes when that returns
  freed      \* whether this handler has used the memory of a client it freed

\* History, read by properties and never by the daemon.
VARIABLES
  written,   \* written[c]: how many frames c has written, over all connections
  conns,     \* conns[c]: how often c has connected
  arrived,   \* how many messages the transports brought in
  done,      \* ids whose handling succeeded: frame removed, or ACK sent
  owed,      \* <<d, id>>: d was subscribed when id was written or arrived
  got,       \* <<d, id>>: a copy of id was queued for d on this connection
  lastRead,  \* lastRead[d][s]: number of the last message of s that d read
  netSent    \* ids a transport accepted

daemon  == <<clients, armed, subs, pc, me, todo, after, freed>>
buffers == <<sock, rx, tx, out>>
history == <<written, conns, arrived, done, owed, got, lastRead, netSent>>
vars    == <<daemon, link, buffers, history>>

Sources == Clients \cup {Network}
Ids     == [src : Sources, n : Nat]
Id(c, f) == [src |-> c, n |-> f.n]
NoReads == [s \in Sources |-> 0]
Least(S) == Min(S)

Init ==
  /\ clients = <<>>
  /\ link = [c \in Clients |-> "none"]
  /\ sock = [c \in Clients |-> <<>>]
  /\ rx = [c \in Clients |-> <<>>]
  /\ tx = [c \in Clients |-> <<>>]
  /\ out = [c \in Clients |-> <<>>]
  /\ armed = [c \in Clients |-> FALSE]
  /\ subs = {}
  /\ pc = "wait" /\ me = NoClient /\ todo = <<>> /\ after = "wait" /\ freed = FALSE
  /\ written = [c \in Clients |-> 0]
  /\ conns = [c \in Clients |-> 0]
  /\ arrived = 0
  /\ done = {} /\ owed = {} /\ got = {} /\ netSent = {}
  /\ lastRead = [c \in Clients |-> NoReads]

-----------------------------------------------------------------------------
(* The message bus                                                          *)

\* How many of d's subscriptions match: a client that subscribed twice gets two
\* copies, the publisher itself none.
Copies(d, src, m) ==
  Cardinality({s \in subs : s.fd = d /\ d # src /\ TopicMatches(s.topic, m.topic)})

\* Free space in d's tx_buf; a client that is not in the list can take nothing.
Room(d) == IF d \in ToSet(clients) THEN TxCap - Len(tx[d]) ELSE 0

\* Mutant of Fits: queues without looking at the space left.
FitsUnchecked(d, src, m) == Copies(d, src, m)

Fits(d, src, m) == Least({Copies(d, src, m), Room(d)})

Starved(src, m) == \E d \in Clients : Copies(d, src, m) > Room(d)
Reached(src, m) == {d \in Clients : Fits(d, src, m) > 0}

\* Mutant of Enqueue: new frames go to the start of tx_buf.
EnqueueInFront(queue, n, id) == [i \in 1 .. n |-> id] \o queue

Enqueue(queue, n, id) == queue \o [i \in 1 .. n |-> id]

\* bc_message_bus_deliver_local and deliver_to_client: every matching client with
\* room gets its copies, whatever becomes of the others.
DeliverLocal(id, m) ==
  /\ tx' = [d \in Clients |-> Enqueue(tx[d], Fits(d, id.src, m), id)]
  /\ armed' = [d \in Clients |-> armed[d] \/ d \in Reached(id.src, m)]
  /\ got' = got \cup {<<d, id>> : d \in Reached(id.src, m)}

ForThisNode(m)   == m.dst \in {0, NodeId}
ShouldForward(m) == IF m.dst = 0 THEN BridgeBroadcast ELSE m.dst # NodeId

NeedsNetwork(m) ==
  \/ m.channel # NoChannel
  \/ m.dst \notin {0, NodeId}
  \/ ~m.noBridge /\ ShouldForward(m)

\* What a transport's send may answer.
SendResults == {"OK", "IO", "NOMEM"}

\* Mutant of PublishResult: the caller never learns that a publish failed.
PublishResultIgnored(src, m, net) == "OK"

\* What bc_message_bus_publish returns when the transport, if asked, answers net.
PublishResult(src, m, net) ==
  LET full == ForThisNode(m) /\ Starved(src, m)
      kept == ForThisNode(m) /\ ~full /\ Reached(src, m) # {}
  IN  CASE full                                                   -> "NOMEM"
        [] ~full /\ NeedsNetwork(m) /\ Route(m) = NoTransport     -> IF RequireRoute THEN "NOT_FOUND" ELSE "OK"
        [] ~full /\ NeedsNetwork(m) /\ Route(m) # NoTransport
             /\ net # "OK" /\ m.qos >= 1 /\ ~kept                 -> net
        [] OTHER                                                  -> "OK"

\* What it does, whatever it returns: local copies first, then the transport.
Publish(id, m, net) ==
  /\ IF ForThisNode(m) THEN DeliverLocal(id, m) ELSE UNCHANGED <<tx, armed, got>>
  /\ netSent' = IF NeedsNetwork(m) /\ Route(m) # NoTransport /\ net = "OK"
                THEN netSent \cup {id} ELSE netSent

\* bc_message_bus_subscribe; its result is ignored, so a full table is silent.
Subscribe(fd, topic) ==
  subs' = IF Cardinality(subs) >= MaxSubs THEN subs
          ELSE subs \cup {[fd |-> fd, topic |-> topic]}

-----------------------------------------------------------------------------
(* Connections                                                              *)

\* on_server_event: the daemon accepts and links in front.
Accept(c) ==
  /\ pc = "wait" /\ link[c] = "none" /\ conns[c] < MaxConns[c]
  /\ clients' = <<c>> \o clients
  /\ link' = [link EXCEPT ![c] = "open"]
  /\ conns' = [conns EXCEPT ![c] = @ + 1]
  /\ UNCHANGED <<armed, subs, pc, me, todo, after, freed, buffers, written, arrived,
                 done, owed, got, lastRead, netSent>>

\* Mutant of SubsWithout: the subscriptions stay in the table.
SubsKept(c) == subs

\* bc_message_bus_remove_client
SubsWithout(c) == {s \in subs : s.fd # c}

\* close_client: every trace of the client goes, whatever its buffers still hold.
Close(c) ==
  /\ clients' = RemoveFirst(clients, c)
  /\ subs' = SubsWithout(c)
  /\ link' = [link EXCEPT ![c] = "none"]
  /\ sock' = [sock EXCEPT ![c] = <<>>]
  /\ rx' = [rx EXCEPT ![c] = <<>>]
  /\ tx' = [tx EXCEPT ![c] = <<>>]
  /\ out' = [out EXCEPT ![c] = <<>>]
  /\ armed' = [armed EXCEPT ![c] = FALSE]
  /\ owed' = {o \in owed : o[1] # c}
  /\ got' = {g \in got : g[1] # c}
  /\ lastRead' = [lastRead EXCEPT ![c] = NoReads]
  /\ UNCHANGED <<written, conns, arrived, done, netSent>>

-----------------------------------------------------------------------------
(* The event loop: on_client_event, one phase per value of pc               *)

CanWrite(c) == armed[c] /\ (Len(out[c]) < SockCap \/ link[c] = "eof")
CanRead(c)  == sock[c] # <<>> \/ link[c] = "eof"

\* Mutant of HandlerReturns: the code after the return is reached.
HandlerGoesOn == pc' = "read" /\ me' = me /\ freed' = freed

HandlerReturns == pc' = "wait" /\ me' = NoClient /\ freed' = FALSE

\* epoll_wait hands out a client that is ready; EPOLLOUT is served first.
ClientEvent(c) ==
  /\ pc = "wait" /\ link[c] # "none"
  /\ CanWrite(c) \/ CanRead(c)
  /\ me' = c
  /\ pc' = IF CanWrite(c) THEN "flush" ELSE "read"
  /\ UNCHANGED <<clients, armed, subs, todo, after, freed, link, buffers, history>>

\* Mutant of Resume: the publishers that wait are left alone.
ResumeNobody(then) == pc' = "resume" /\ todo' = <<>> /\ after' = then

\* The start of resume_pending_publishers.
Resume(then) == pc' = "resume" /\ todo' = clients /\ after' = then

\* Mutant of WatchesOn: update_client_events is called however much is left.
WatchesOff(left) == FALSE

\* Whether EPOLLOUT stays armed when a flush leaves so many frames behind.
WatchesOn(left) == left > 0

\* flush_client_tx sends until the kernel is full or tx_buf is empty, and only
\* then stops watching for EPOLLOUT; publishers that wait are tried again next.
Flush ==
  /\ pc = "flush" /\ link[me] = "open"
  /\ LET k == Least({Len(tx[me]), SockCap - Len(out[me])})
     IN  /\ out' = [out EXCEPT ![me] = @ \o SubSeq(tx[me], 1, k)]
         /\ tx' = [tx EXCEPT ![me] = SubSeq(@, k + 1, Len(@))]
         /\ armed' = [armed EXCEPT ![me] = WatchesOn(Len(tx[me]) - k)]
  /\ Resume("read")
  /\ UNCHANGED <<clients, subs, me, freed, link, sock, rx, history>>

\* The peer is gone: send fails, the client is closed and the handler returns.
FlushFails ==
  /\ pc = "flush" /\ link[me] = "eof"
  /\ Close(me)
  /\ HandlerReturns
  /\ UNCHANGED <<todo, after>>

\* read(2): as much as rx_buf can take, then process_messages.
Read ==
  /\ pc = "read" /\ Len(rx[me]) < RxCap /\ sock[me] # <<>>
  /\ LET k == Least({Len(sock[me]), RxCap - Len(rx[me])})
     IN  /\ rx' = [rx EXCEPT ![me] = @ \o SubSeq(sock[me], 1, k)]
         /\ sock' = [sock EXCEPT ![me] = SubSeq(@, k + 1, Len(@))]
  /\ pc' = "process"
  /\ UNCHANGED <<clients, armed, subs, me, todo, after, freed, link, tx, out, history>>

\* A full rx_buf or EAGAIN ends the handler.
ReadNothing ==
  /\ pc = "read"
  /\ Len(rx[me]) >= RxCap \/ (sock[me] = <<>> /\ link[me] = "open")
  /\ HandlerReturns
  /\ UNCHANGED <<clients, armed, subs, todo, after, link, buffers, history>>

\* End of file: what rx_buf still holds is dropped with the client.
ReadEof ==
  /\ pc = "read" /\ Len(rx[me]) < RxCap /\ sock[me] = <<>> /\ link[me] = "eof"
  /\ Close(me)
  /\ HandlerReturns
  /\ UNCHANGED <<todo, after>>

-----------------------------------------------------------------------------
(* process_one_message, called from the event handler and from              *)
(* resume_pending_publishers                                                 *)

\* Whose rx_buf is being processed, and whether the daemon is at a frame of it.
Current == IF pc = "process" THEN me ELSE Head(todo)
AtFrame == (pc = "process" \/ (pc = "resume" /\ todo # <<>>)) /\ rx[Current] # <<>>
Frame   == Head(rx[Current])

\* What process_frame_buffer returns: an empty topic is invalid for every type.
FrameResult(net) ==
  CASE Frame.msg.topic = <<>>                          -> "INVALID"
    [] Frame.msg.topic # <<>> /\ Frame.type = "SUB"     -> "OK"
    [] Frame.msg.topic # <<>> /\ Frame.type = "PUB"     -> PublishResult(Current, Frame.msg, net)
    [] OTHER                                            -> "INVALID"

\* What it does: only a publish touches other clients and transports.
Apply(net) ==
  IF Frame.type = "PUB" /\ Frame.msg.topic # <<>>
  THEN Publish(Id(Current, Frame), Frame.msg, net) /\ UNCHANGED subs
  ELSE /\ UNCHANGED <<tx, armed, got, netSent>>
       /\ IF Frame.type = "SUB" THEN Subscribe(Current, Frame.msg.topic) ELSE UNCHANGED subs

\* Success: the frame leaves rx_buf and the next one is looked at.
FrameDone ==
  /\ AtFrame
  /\ \E net \in SendResults : FrameResult(net) = "OK" /\ Apply(net)
  /\ rx' = [rx EXCEPT ![Current] = Tail(@)]
  /\ done' = done \cup {Id(Current, Frame)}
  /\ UNCHANGED <<clients, pc, me, todo, after, freed, link, sock, out,
                 written, conns, arrived, owed, lastRead>>

\* Mutant of KeepFrame: the frame is queued again behind the others.
RequeueFrame == rx' = [rx EXCEPT ![Current] = Append(Tail(@), Head(@))]

KeepFrame == rx' = rx

\* A subscriber, or the transport, had no room: the frame stays, and so does
\* what the attempt did.  The event handler then tries every publisher that
\* waits, this one included, and returns.
FrameBlocked ==
  /\ AtFrame
  /\ \E net \in SendResults : FrameResult(net) = "NOMEM" /\ Apply(net)
  /\ IF pc = "process"
     THEN Resume("wait")
     ELSE pc' = pc /\ todo' = Tail(todo) /\ after' = after
  /\ KeepFrame
  /\ UNCHANGED <<clients, me, freed, link, sock, out,
                 written, conns, arrived, done, owed, lastRead>>

\* No route: process_messages takes the NOT_FOUND of publish for "no whole frame
\* yet", so the frame stays at the head of rx_buf.
FrameUnroutable ==
  /\ AtFrame
  /\ \E net \in SendResults : FrameResult(net) = "NOT_FOUND" /\ Apply(net)
  /\ IF pc = "process" THEN pc' = "read" /\ todo' = todo ELSE pc' = pc /\ todo' = Tail(todo)
  /\ KeepFrame
  /\ UNCHANGED <<clients, me, after, freed, link, sock, out,
                 written, conns, arrived, done, owed, lastRead>>

\* Anything else closes the client.  The resume loop then takes client->next out
\* of the client it has just freed: that may still read as it was, or take the
\* daemon down.
FrameFatal ==
  /\ AtFrame
  /\ \E net \in SendResults : FrameResult(net) \in {"INVALID", "IO"}
  /\ Close(Current)
  /\ \/ pc = "process" /\ HandlerReturns /\ todo' = todo
     \/ /\ pc = "resume" /\ me' = me /\ freed' = TRUE
        /\ \/ pc' = "resume" /\ todo' = Tail(todo)
           \/ pc' = "crashed" /\ todo' = todo
  /\ after' = after

\* rx_buf is empty: read again, or go on to the next client of the list.
NoFrame ==
  /\ pc = "process" \/ (pc = "resume" /\ todo # <<>>)
  /\ rx[Current] = <<>>
  /\ IF pc = "process" THEN pc' = "read" /\ todo' = todo ELSE pc' = pc /\ todo' = Tail(todo)
  /\ UNCHANGED <<clients, armed, subs, me, after, freed, link, buffers, history>>

\* End of the list.  If it closed the very client whose event is handled, the
\* handler goes on with freed memory and frees it again.
ResumeEnd ==
  /\ pc = "resume" /\ todo = <<>>
  /\ \/ after = "wait" /\ HandlerReturns
     \/ /\ after = "read" /\ me' = me /\ freed' = freed
        /\ pc' = IF link[me] # "none" THEN "read" ELSE "crashed"
  /\ after' = "wait"
  /\ UNCHANGED <<clients, armed, subs, todo, link, buffers, history>>

-----------------------------------------------------------------------------
(* A transport brings in a whole message: bc_message_bus_handle_inbound      *)

\* forward_message, never back where the message came from.
Forward(m, from, net) ==
  CASE Route(m) = NoTransport                       -> IF RequireRoute THEN "NOT_FOUND" ELSE "OK"
    [] Route(m) # NoTransport /\ Route(m) = from     -> "OK"
    [] Route(m) # NoTransport /\ Route(m) # from     -> net

Forwards(m, from, net) ==
  ShouldForward(m) /\ Route(m) \notin {NoTransport, from} /\ net = "OK"

\* Mutant of Acknowledges: the ACK goes out even when a subscriber had no room.
AcknowledgesAnyway(m, dropped, refused) == ForThisNode(m) /\ ~refused /\ m.qos = 1

Acknowledges(m, dropped, refused) == ForThisNode(m) /\ ~dropped /\ ~refused /\ m.qos = 1

Arrive(a) ==
  LET m  == a.msg
      id == [src |-> Network, n |-> arrived + 1]
  IN  /\ pc = "wait" /\ arrived < MaxArrivals
      /\ arrived' = arrived + 1
      /\ owed' = owed \cup (IF ForThisNode(m)
                            THEN {<<d, id>> : d \in {d \in Clients : Copies(d, Network, m) > 0}}
                            ELSE {})
      /\ IF ForThisNode(m) THEN DeliverLocal(id, m) ELSE UNCHANGED <<tx, armed, got>>
      /\ \E net, ackNet \in SendResults :
           LET dropped == ForThisNode(m) /\ Starved(Network, m)
               refused == ShouldForward(m) /\ RequireRoute /\ Forward(m, a.from, net) # "OK"
               acks    == Acknowledges(m, dropped, refused) /\ ackNet = "OK"
           IN  /\ netSent' = IF ~dropped /\ Forwards(m, a.from, net) THEN netSent \cup {id} ELSE netSent
               /\ done' = IF acks THEN done \cup {id} ELSE done
      /\ UNCHANGED <<clients, subs, pc, me, todo, after, freed, link, sock, rx, out,
                     written, conns, lastRead>>

-----------------------------------------------------------------------------
(* The clients: bc_client.c as the daemon sees it                            *)

Write(c, f) ==
  /\ pc # "crashed" /\ link[c] = "open"
  /\ written[c] < MaxWrites[c] /\ Len(sock[c]) < SockCap
  /\ LET id == [src |-> c, n |-> written[c] + 1]
     IN  /\ sock' = [sock EXCEPT ![c] = Append(@, [n |-> id.n, type |-> f.type, msg |-> f.msg])]
         /\ owed' = owed \cup (IF f.type = "PUB" /\ ForThisNode(f.msg)
                               THEN {<<d, id>> : d \in {d \in Clients : Copies(d, c, f.msg) > 0}}
                               ELSE {})
  /\ written' = [written EXCEPT ![c] = @ + 1]
  /\ UNCHANGED <<daemon, link, rx, tx, out, conns, arrived, done, got, lastRead, netSent>>

Take(c) ==
  /\ pc # "crashed" /\ link[c] = "open" /\ out[c] # <<>>
  /\ out' = [out EXCEPT ![c] = Tail(@)]
  /\ lastRead' = [lastRead EXCEPT ![c][Head(out[c]).src] = Head(out[c]).n]
  /\ UNCHANGED <<daemon, link, sock, rx, tx, written, conns, arrived, done, owed, got, netSent>>

HangUp(c) ==
  /\ pc # "crashed" /\ link[c] = "open" /\ c \in Leavers
  /\ link' = [link EXCEPT ![c] = "eof"]
  /\ UNCHANGED <<daemon, buffers, history>>

-----------------------------------------------------------------------------
Handler ==
  \/ Flush \/ FlushFails
  \/ Read \/ ReadNothing \/ ReadEof
  \/ FrameDone \/ FrameBlocked \/ FrameUnroutable \/ FrameFatal \/ NoFrame
  \/ ResumeEnd

Next ==
  \/ Handler
  \/ \E c \in Clients : \/ Accept(c) \/ ClientEvent(c)
                        \/ Take(c) \/ HangUp(c)
                        \/ \E f \in Menu[c] : Write(c, f)
  \/ \E a \in Arrivals : Arrive(a)

\* A handler runs to its end; epoll returns every descriptor that is ready, in
\* turn, so none that is ready again and again is passed over for ever; a
\* subscriber keeps reading.
Fairness ==
  /\ WF_vars(Handler)
  /\ \A c \in Clients : SF_vars(ClientEvent(c)) /\ WF_vars(Take(c))

Spec     == Init /\ [][Next]_vars
FairSpec == Spec /\ Fairness

-----------------------------------------------------------------------------
(* Properties                                                                *)

Frames == [n : Nat, type : FrameTypes,
           msg : UNION {{f.msg : f \in Menu[c]} : c \in Clients}]

\* Every buffer stays within its capacity: the table of subscriptions, the two
\* buffers of a client (BC_CLIENT_RX_CAP, BC_CLIENT_TX_CAP), the kernel's.
TypeOK ==
  /\ clients \in Seq(Clients)
  /\ link \in [Clients -> {"none", "open", "eof"}]
  /\ sock \in [Clients -> Seq(Frames)] /\ \A c \in Clients : Len(sock[c]) <= SockCap
  /\ rx \in [Clients -> Seq(Frames)] /\ \A c \in Clients : Len(rx[c]) <= RxCap
  /\ tx \in [Clients -> Seq(Ids)] /\ \A c \in Clients : Len(tx[c]) <= TxCap
  /\ out \in [Clients -> Seq(Ids)] /\ \A c \in Clients : Len(out[c]) <= SockCap
  /\ armed \in [Clients -> BOOLEAN]
  /\ IsFiniteSet(subs) /\ Cardinality(subs) <= MaxSubs
  /\ \A s \in subs : s.fd \in Clients
  /\ pc \in {"wait", "flush", "resume", "read", "process", "crashed"}
  /\ me \in Clients \cup {NoClient} /\ todo \in Seq(Clients) /\ after \in {"wait", "read"}
  /\ freed \in BOOLEAN
  /\ written \in [Clients -> Nat] /\ conns \in [Clients -> Nat] /\ arrived \in Nat
  /\ done \subseteq Ids /\ netSent \subseteq Ids
  /\ owed \subseteq Clients \X Ids /\ got \subseteq Clients \X Ids
  /\ lastRead \in [Clients -> [Sources -> Nat]]

\* close_client and bc_message_bus_remove_client: a descriptor that is not
\* connected is not in the list and has no subscription, no frame in either
\* direction and no watch for EPOLLOUT, which the next client with it would inherit.
NothingSurvivesClose ==
  \A c \in Clients :
    /\ link[c] # "none" <=> c \in ToSet(clients)
    /\ link[c] = "none" =>
         /\ \A s \in subs : s.fd # c
         /\ sock[c] = <<>> /\ rx[c] = <<>> /\ tx[c] = <<>> /\ out[c] = <<>>
         /\ ~armed[c]

\* The daemon works on freed memory only where resume_pending_publishers closes a
\* client: its loop takes client->next from that client, and on_client_event goes
\* on with it if it is its own (both of them bugs).  In every other handler neither
\* the client whose event it is nor any that the loop has still to visit has been
\* closed, whoever hung up or was closed meanwhile.
FreedOnlyByResume ==
  ~freed =>
    /\ pc # "crashed"
    /\ pc \in {"flush", "read", "process"} => me \in Clients /\ link[me] # "none"
    /\ pc = "resume" => /\ \A c \in ToSet(todo) : link[c] # "none"
                        /\ after = "read" => me \in Clients /\ link[me] # "none"

\* update_client_events: epoll watches a client for EPOLLOUT exactly while its
\* tx_buf holds something, whichever of enqueue, partial flush and full flush
\* came last.  A lost bit here would leave a subscriber waiting for ever.
ArmedWhileQueued == \A c \in Clients : armed[c] <=> tx[c] # <<>>

\* What d has been sent and has not read, oldest first.
Path(d) == out[d] \o tx[d]

\* The order in which one source's messages reach one client, read, in the kernel
\* or in tx_buf, is the order in which they were sent: the frame a full subscriber
\* holds back is not overtaken, however often it is tried again.  The last
\* conjunct says the same of what is still to be handled.
InOrder ==
  \A d \in Clients :
    /\ \A i, j \in DOMAIN Path(d) :
         i <= j /\ Path(d)[i].src = Path(d)[j].src => Path(d)[i].n <= Path(d)[j].n
    /\ \A i \in DOMAIN Path(d) : lastRead[d][Path(d)[i].src] <= Path(d)[i].n
    /\ \A s \in Clients : rx[s] # <<>> =>
         /\ lastRead[d][s] <= Head(rx[s]).n
         /\ \A i \in DOMAIN Path(d) : Path(d)[i].src = s => Path(d)[i].n <= Head(rx[s]).n

\* A frame that is handled (or an inbound message that is acknowledged) has had a
\* copy queued for every client that was subscribed when it was written and still
\* is connected: a full subscriber holds it back and it is not counted as handled.
\* It may still be lost unhandled: with its publisher's rx_buf when that client is
\* closed, and, being an inbound message, at once; no ACK says otherwise then.
NoLoss == \A o \in owed : o[2] \in done => o \in got

Settled(c, n) == [src |-> c, n |-> n] \in done

\* bc_message_bus_publish: a QoS 1 message that has a route leaves rx_buf only
\* after a transport accepted it or some local subscriber got it, in this attempt
\* or an earlier one.
QosOneHandedOver ==
  [][\A c \in Clients :
       (rx[c] # <<>> /\ Id(c, Head(rx[c])) \in done' \ done) =>
         LET f == Head(rx[c])
         IN  (f.type = "PUB" /\ f.msg.qos = 1 /\ NeedsNetwork(f.msg) /\ Route(f.msg) # NoTransport) =>
               Id(c, f) \in netSent' \/ \E d \in Clients : <<d, Id(c, f)>> \in got']_vars

AtPublish(c) == rx[c] # <<>> /\ Head(rx[c]).type = "PUB" /\ Head(rx[c]).msg.topic # <<>>
Audience(c)  == {d \in Clients : Copies(d, c, Head(rx[c]).msg) > 0}
Shared(c)    == AtPublish(c) /\ (Cardinality(Audience(c)) > 1
                                 \/ \E d \in Clients : Copies(d, c, Head(rx[c]).msg) > 1)

\* "retry after tx drain": a publish that waits for the one subscriber it is for is
\* handled once that subscriber reads, unless one of the two leaves.  It may wait
\* for ever behind a publish that several copies are due of: that one succeeds only
\* if all find room at one time, and every attempt fills what it finds.
RetryAfterDrain ==
  \A p \in Clients : \A n \in 1 .. MaxWrites[p] :
    (/\ AtPublish(p) /\ Head(rx[p]).n = n /\ ForThisNode(Head(rx[p]).msg) /\ ~Shared(p)
     /\ \E d \in Audience(p) : link[d] = "open" /\ Room(d) = 0)
    ~> (\/ Settled(p, n) \/ link[p] # "open" \/ pc = "crashed"
        \/ \E d \in Clients : link[d] = "eof" \/ Shared(d))

-----------------------------------------------------------------------------
(* What the repository says and the code does not do                         *)

\* "Backpressure: subscriber not keeping up; retry after tx drain": when the daemon
\* sleeps, whoever holds an unhandled frame will be looked at again, because some
\* tx_buf is still to drain or the publisher's own socket is readable.
RetryIsComing ==
  pc = "wait" => \A p \in Clients : rx[p] # <<>> => CanRead(p) \/ \E d \in Clients : armed[d]
=============================================================================
