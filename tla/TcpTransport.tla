---------------------------- MODULE TcpTransport ----------------------------
(***************************************************************************)
(* The TCP link between two boards (tcp_transport.c) and the daemon's      *)
(* receive loop on it (main.c): one board connects and reconnects, the      *)
(* other listens.  Each board is one thread; step says where in             *)
(* on_transport_event it is.                                                 *)
(***************************************************************************)
EXTENDS Framing, Backoff

CONSTANTS
  Conns,          \* TCP connections that exist at one time
  NoConn,         \* conn_fd is -1
  SendCap,        \* pieces in send_buf (64 frames)
  WireCap,        \* pieces the kernels hold in each direction
  Immediate,      \* what connect() may answer at once, besides EINPROGRESS
  MaxSent,        \* bounds: frames each board is asked to send,
  MaxFaults       \* connections that are refused or break

Boards  == {"client", "server"}
Peer(b) == IF b = "client" THEN "server" ELSE "client"

ASSUME TcpAssumption ==
  /\ NoConn \notin Conns
  /\ {SendCap, WireCap} \subseteq Nat \ {0} /\ Parts <= SendCap
  /\ Immediate \subseteq {"ok", "failed"}
  /\ MaxSent \in [Boards -> Nat] /\ MaxFaults \in Nat

VARIABLES
  fd,        \* fd[b]: the connection b uses
  status,    \* status[b]: "none", "connecting" or "up"
  queue,     \* send_buf from send_off to send_len
  off,       \* send_off
  watchOut,  \* whether epoll watches the connection for EPOLLOUT
  rx,        \* rx_buf of main.c, which outlives connections
  step,      \* "idle", "accept", "read", "parse" or "crashed"
  retry, armed, timer,  \* the client's retry_attempt, reconnect_armed, timerfd
  stage,     \* stage[k]: "free", "syn" or "open"
  backlog,   \* established connections that wait for accept
  shut,      \* shut[k]: the boards whose end is closed; both, once it broke
  wire       \* wire[k][b]: pieces from b on their way

VARIABLES
  sent,      \* sent[b]: frames b was asked to send
  taken,     \* taken[b]: frames tcp_send accepted on b's connection
  given,     \* given[b]: frames b's bus was given from its connection
  last,      \* last[b]: the last frame b's bus was given
  clean,     \* clean[b]: rx was empty when b's connection began
  faults     \* connections refused or broken so far

local   == <<fd, status, queue, off, watchOut>>
clock   == <<retry, armed, timer>>
network == <<stage, backlog, shut, wire>>
history == <<sent, taken, given, last, clean, faults>>
vars    == <<local, rx, step, clock, network, history>>

Silence  == [b \in Boards |-> <<>>]

-----------------------------------------------------------------------------
(* The retry timer of the client                                             *)

\* tcp_schedule_reconnect, once
Schedule ==
  /\ armed' = TRUE
  /\ timer' = ArmTimer(Delay(retry), timer)
  /\ retry' = retry + 1

\* and twice in a row.
ScheduleTwice ==
  /\ armed' = TRUE
  /\ timer' = ArmTimer(Delay(retry + 1), ArmTimer(Delay(retry), timer))
  /\ retry' = retry + 2

-----------------------------------------------------------------------------
(* Closing                                                                   *)

Gone(b) == Peer(b) \in shut[fd[b]]
Uses(b, k) == fd[b] = k \/ (b = "server" /\ k \in ToSet(backlog))

\* close(2) of b's end: what was on its way to b is lost, what b had sent is not.
CloseEnd(b) ==
  LET k == fd[b]
      kept == Uses(Peer(b), k)
  IN  /\ stage' = [stage EXCEPT ![k] = IF kept THEN @ ELSE "free"]
      /\ shut' = [shut EXCEPT ![k] = IF kept THEN @ \cup {b} ELSE {}]
      /\ wire' = [wire EXCEPT ![k] = IF kept THEN [@ EXCEPT ![Peer(b)] = <<>>] ELSE Silence]

\* Mutant of Cleared: the queue is left for the next connection.
ClearedNot(q) == q

\* tcp_clear_send_queue
Cleared(q) == <<>>

\* History only: the count of frames of a connection starts again.
Afresh(b) ==
  /\ taken' = [taken EXCEPT ![b] = <<>>]
  /\ given' = [given EXCEPT ![b] = <<>>]

\* tcp_close_conn
Close(b) ==
  /\ fd' = [fd EXCEPT ![b] = NoConn]
  /\ status' = [status EXCEPT ![b] = "none"]
  /\ queue' = [queue EXCEPT ![b] = Cleared(@)]
  /\ off' = [off EXCEPT ![b] = 0]
  /\ watchOut' = [watchOut EXCEPT ![b] = FALSE]
  /\ CloseEnd(b) /\ Afresh(b) /\ UNCHANGED <<backlog, clean>>

\* tcp_drop_connection of a connection that is up
Drop(b) ==
  /\ Close(b)
  /\ IF b = "client" THEN Schedule ELSE UNCHANGED clock

-----------------------------------------------------------------------------
(* Connecting and accepting                                                  *)

Start(b, k, state) ==
  /\ fd' = [fd EXCEPT ![b] = k]
  /\ status' = [status EXCEPT ![b] = state]
  /\ watchOut' = [watchOut EXCEPT ![b] = state = "connecting"]
  /\ queue' = [queue EXCEPT ![b] = Cleared(@)]
  /\ off' = [off EXCEPT ![b] = 0]
  /\ clean' = [clean EXCEPT ![b] = rx[b] = <<>>]
  /\ Afresh(b)

\* tcp_begin_connect: in progress, connected at once, or failed at once.
Connecting(k) ==
  /\ Start("client", k, "connecting")
  /\ stage' = [stage EXCEPT ![k] = "syn"] /\ UNCHANGED backlog

ConnectedAtOnce(k) ==
  /\ "ok" \in Immediate
  /\ Start("client", k, "up")
  /\ stage' = [stage EXCEPT ![k] = "open"] /\ backlog' = Append(backlog, k)

FailedAtOnce ==
  /\ "failed" \in Immediate
  /\ UNCHANGED <<local, clean, taken, given, stage, backlog>>

\* The timer has gone off: tcp_handle_event on timer_fd.  A timer that is set
\* always finds the retry armed and no connection (see TypeOK).  The result of
\* tcp_begin_connect is ignored.
TimerFires ==
  /\ timer = "set" /\ step["client"] = "idle"
  /\ armed /\ status["client"] = "none"
  /\ timer' = "off" /\ armed' = FALSE
  /\ \/ /\ \E k \in Conns : stage[k] = "free" /\ Connecting(k)
        /\ UNCHANGED step
     \/ /\ \E k \in Conns : stage[k] = "free" /\ ConnectedAtOnce(k)
        /\ step' = [step EXCEPT !["client"] = "read"]
     \/ FailedAtOnce /\ UNCHANGED step
  /\ UNCHANGED <<retry, rx, shut, wire, sent, last, faults>>

\* tcp_on_connect_ready: the connection is up, the delays start afresh.
ConnectReady ==
  /\ step["client"] = "idle" /\ status["client"] = "connecting"
  /\ stage[fd["client"]] = "open" /\ ~Gone("client")
  /\ Start("client", fd["client"], "up")
  /\ retry' = 0
  /\ step' = [step EXCEPT !["client"] = "read"]
  /\ UNCHANGED <<armed, timer, rx, network, sent, last, faults>>

\* It failed: tcp_drop_connection schedules a retry, and so does its caller.
ConnectFails ==
  /\ step["client"] = "idle" /\ status["client"] = "connecting"
  /\ \/ stage[fd["client"]] = "syn" /\ faults < MaxFaults /\ faults' = faults + 1
     \/ stage[fd["client"]] = "open" /\ Gone("client") /\ faults' = faults
  /\ Close("client")
  /\ ScheduleTwice
  /\ UNCHANGED <<rx, step, sent, last>>

\* tcp_accept_one replaces the connection there is, until nobody waits.
Accept ==
  /\ step["server"] \in {"idle", "accept"} /\ backlog # <<>>
  /\ Start("server", Head(backlog), "up")
  /\ backlog' = Tail(backlog)
  /\ IF fd["server"] = NoConn THEN UNCHANGED <<stage, shut, wire>> ELSE CloseEnd("server")
  /\ step' = [step EXCEPT !["server"] = IF Tail(backlog) = <<>> THEN "read" ELSE "accept"]
  /\ UNCHANGED <<rx, clock, sent, last, faults>>

-----------------------------------------------------------------------------
(* The network                                                               *)

\* The listening kernel answers.
Handshake(k) ==
  /\ stage[k] = "syn"
  /\ stage' = [stage EXCEPT ![k] = "open"]
  /\ backlog' = Append(backlog, k)
  /\ UNCHANGED <<local, rx, step, clock, shut, wire, history>>

\* The connection is reset, or keep-alive gives it up.
Break(k) ==
  /\ stage[k] = "open" /\ shut[k] # Boards /\ faults < MaxFaults
  /\ shut' = [shut EXCEPT ![k] = Boards]
  /\ wire' = [wire EXCEPT ![k] = Silence]
  /\ faults' = faults + 1
  /\ UNCHANGED <<local, rx, step, clock, stage, backlog, sent, taken, given, last, clean>>

-----------------------------------------------------------------------------
(* Receiving: the loop of on_transport_event                                 *)

Incoming(b) == wire[fd[b]][Peer(b)]

\* EPOLLIN: there are bytes, or the end of the stream.
Readable(b) ==
  /\ step[b] = "idle" /\ status[b] = "up"
  /\ Incoming(b) # <<>> \/ Gone(b)
  /\ step' = [step EXCEPT ![b] = "read"]
  /\ UNCHANGED <<local, rx, clock, network, history>>

\* EPOLLHUP or EPOLLERR: dropped with what is still to be read.
HangUp(b) ==
  /\ step[b] = "idle" /\ status[b] = "up" /\ Gone(b)
  /\ Drop(b)
  /\ UNCHANGED <<rx, step, sent, last, faults>>

\* What recv returns is parsed before it is called again.
Recv(b) ==
  /\ step[b] = "read" /\ status[b] = "up"
  /\ \E j \in 1 .. Min({Len(Incoming(b)), RxCap - Len(rx[b])}) :
       /\ rx' = [rx EXCEPT ![b] = @ \o SubSeq(Incoming(b), 1, j)]
       /\ wire' = [wire EXCEPT ![fd[b]][Peer(b)] = SubSeq(@, j + 1, Len(@))]
  /\ step' = [step EXCEPT ![b] = "parse"]
  /\ UNCHANGED <<local, clock, stage, backlog, shut, history>>

\* EAGAIN, or the connection was dropped meanwhile.
RecvNothing(b) ==
  /\ step[b] = "read"
  /\ status[b] = "up" => Incoming(b) = <<>> /\ ~Gone(b)
  /\ step' = [step EXCEPT ![b] = "idle"]
  /\ UNCHANGED <<local, rx, clock, network, history>>

RecvEof(b) ==
  /\ step[b] = "read" /\ status[b] = "up" /\ Incoming(b) = <<>> /\ Gone(b)
  /\ Drop(b)
  /\ step' = [step EXCEPT ![b] = "idle"]
  /\ UNCHANGED <<rx, sent, last, faults>>

ParseFrame(b) ==
  /\ step[b] = "parse" /\ Whole(rx[b])
  /\ last' = [last EXCEPT ![b] = rx[b][1].n]
  /\ given' = [given EXCEPT ![b] = Append(@, rx[b][1].n)]
  /\ rx' = [rx EXCEPT ![b] = Consumed(@)]
  /\ UNCHANGED <<local, step, clock, network, sent, taken, clean, faults>>

\* Half a frame waits for more: read again.
ParseWait(b) ==
  /\ step[b] = "parse" /\ ~Whole(rx[b]) /\ ~Bad(rx[b])
  /\ step' = [step EXCEPT ![b] = "read"]
  /\ UNCHANGED <<local, rx, clock, network, history>>

\* Not a frame: rx_buf is thrown away.
ParseBad(b) ==
  /\ step[b] = "parse" /\ Bad(rx[b])
  /\ rx' = [rx EXCEPT ![b] = <<>>]
  /\ step' = [step EXCEPT ![b] = "idle"]
  /\ UNCHANGED <<local, clock, network, history>>

-----------------------------------------------------------------------------
(* Sending: a client's publish while idle, an ACK or a forward while parsing  *)

Room(b) == WireCap - Len(wire[fd[b]][b])

\* Mutant of Watch: queueing leaves the events as they are.
WatchNot(q) == FALSE

\* tcp_conn_events, once connected
Watch(q) == q # <<>>

\* Mutant of FitsQueue: no limit.
FitsAlways(q) == TRUE

\* tcp_ensure_send_cap: the unsent bytes fit.
FitsQueue(q) == Len(q) + Parts <= SendCap

\* Mutant of Direct: it tries the socket first.
DirectAlways(q) == TRUE

\* tcp_send writes to the socket itself only when nothing waits.
Direct(q) == q = <<>>

\* EPOLLOUT: tcp_flush_send; with all of it sent the buffer starts at 0 again.
Flush(b) ==
  /\ step[b] = "idle" /\ status[b] = "up" /\ watchOut[b] /\ queue[b] # <<>>
  /\ ~Gone(b) /\ Room(b) > 0
  /\ LET m == Min({Len(queue[b]), Room(b)})
         rest == SubSeq(queue[b], m + 1, Len(queue[b]))
     IN  /\ wire' = [wire EXCEPT ![fd[b]][b] = @ \o SubSeq(queue[b], 1, m)]
         /\ queue' = [queue EXCEPT ![b] = rest]
         /\ off' = [off EXCEPT ![b] = IF rest = <<>> THEN 0 ELSE @ + m]
         /\ watchOut' = [watchOut EXCEPT ![b] = Watch(rest)]
  /\ step' = [step EXCEPT ![b] = "read"]
  /\ UNCHANGED <<fd, status, rx, clock, stage, backlog, shut, history>>

\* The reactor calls tcp_send with frame sent[b] + 1.
Sends(b) ==
  /\ step[b] \in {"idle", "parse"} /\ sent[b] < MaxSent[b]
  /\ sent' = [sent EXCEPT ![b] = @ + 1]

SendRefused(b) ==
  /\ Sends(b)
  /\ status[b] # "up" \/ (~Direct(queue[b]) /\ ~FitsQueue(queue[b]))
  /\ UNCHANGED <<local, rx, step, clock, network, taken, given, last, clean, faults>>

\* The kernel takes what it has room for, tcp_queue_send the rest.
SendNow(b) ==
  /\ Sends(b) /\ status[b] = "up" /\ Direct(queue[b]) /\ ~Gone(b)
  /\ LET frame == Frame(sent[b] + 1)
         m == Min({Parts, Room(b)})
         left == queue[b] \o SubSeq(frame, m + 1, Parts)
     IN  /\ wire' = [wire EXCEPT ![fd[b]][b] = @ \o SubSeq(frame, 1, m)]
         /\ queue' = [queue EXCEPT ![b] = left]
         /\ watchOut' = [watchOut EXCEPT ![b] = Watch(left)]
  /\ taken' = [taken EXCEPT ![b] = Append(@, sent[b] + 1)]
  /\ UNCHANGED <<fd, status, off, rx, step, clock, stage, backlog, shut, given, last, clean, faults>>

SendFails(b) ==
  /\ Sends(b) /\ status[b] = "up" /\ Direct(queue[b]) /\ Gone(b)
  /\ Drop(b)
  /\ UNCHANGED <<rx, step, last, faults>>

\* tcp_queue_send writes at send_len and never moves the unsent bytes back to
\* the start: past the end of send_buf the program works by luck, or dies.
SendLater(b) ==
  /\ Sends(b) /\ status[b] = "up" /\ ~Direct(queue[b]) /\ FitsQueue(queue[b])
  /\ queue' = [queue EXCEPT ![b] = @ \o Frame(sent[b] + 1)]
  /\ watchOut' = [watchOut EXCEPT ![b] = Watch(queue'[b])]
  /\ taken' = [taken EXCEPT ![b] = Append(@, sent[b] + 1)]
  /\ \/ UNCHANGED step
     \/ /\ off[b] + Len(queue'[b]) > SendCap
        /\ step' = [step EXCEPT ![b] = "crashed"]
  /\ UNCHANGED <<fd, status, off, rx, clock, network, given, last, clean, faults>>

-----------------------------------------------------------------------------
(* Starting: tcp_open of both boards                                         *)

Init ==
  /\ \E state \in {"connecting"} \cup {IF i = "ok" THEN "up" ELSE "none" : i \in Immediate} :
     \E k \in Conns :
       /\ status = [b \in Boards |-> IF b = "client" THEN state ELSE "none"]
       /\ fd = [b \in Boards |-> IF b = "client" /\ state # "none" THEN k ELSE NoConn]
       /\ watchOut = [b \in Boards |-> b = "client" /\ state = "connecting"]
       /\ stage = [c \in Conns |-> IF c # k \/ state = "none" THEN "free"
                                   ELSE IF state = "up" THEN "open" ELSE "syn"]
       /\ backlog = IF state = "up" THEN <<k>> ELSE <<>>
       /\ armed = (state = "none")
       /\ timer = (IF state = "none" THEN "set" ELSE "off")
       /\ retry = (IF state = "none" THEN 1 ELSE 0)
  /\ queue = Silence /\ off = [b \in Boards |-> 0]
  /\ rx = Silence /\ step = [b \in Boards |-> "idle"]
  /\ shut = [k \in Conns |-> {}] /\ wire = [k \in Conns |-> Silence]
  /\ sent = [b \in Boards |-> 0] /\ last = [b \in Boards |-> 0]
  /\ taken = Silence /\ given = Silence
  /\ clean = [b \in Boards |-> TRUE] /\ faults = 0

Works(b) ==
  \/ Readable(b) \/ HangUp(b) \/ Recv(b) \/ RecvNothing(b) \/ RecvEof(b)
  \/ ParseFrame(b) \/ ParseWait(b) \/ ParseBad(b) \/ Flush(b)

Sending(b) == SendRefused(b) \/ SendNow(b) \/ SendFails(b) \/ SendLater(b)

\* What follows a crash is not modelled.
Runs == \A b \in Boards : step[b] # "crashed"

Next ==
  /\ Runs
  /\ \/ TimerFires \/ ConnectReady \/ ConnectFails \/ Accept
     \/ \E k \in Conns : Handshake(k) \/ Break(k)
     \/ \E b \in Boards : Works(b) \/ Sending(b)

Spec == Init /\ [][Next]_vars

\* epoll_wait returns every ready descriptor in turn, the kernels deliver, and
\* an armed timer expires; nobody has to publish, and no connection has to fail.
Fairness ==
  /\ \A b \in Boards : WF_vars(Runs /\ Works(b))
  /\ WF_vars(Runs /\ Accept) /\ WF_vars(Runs /\ ConnectReady)
  /\ WF_vars(Runs /\ TimerFires)
  /\ \A k \in Conns : WF_vars(Runs /\ Handshake(k))

FairSpec == Spec /\ Fairness

-----------------------------------------------------------------------------
(* Properties                                                                *)

Pieces(b) == [n : 1 .. MaxSent[b], part : 1 .. Parts]

\* The types, and how much each buffer holds: the unsent bytes are never more than
\* send_buf has room for (it may still be written past its end, see SendLater),
\* less than a frame is in rx_buf whenever it is read into, and the timer runs only
\* for a retry.
TypeOK ==
  /\ fd \in [Boards -> Conns \cup {NoConn}]
  /\ \A b \in Boards : (fd[b] = NoConn) = (status[b] = "none")
  /\ status \in [Boards -> {"none", "connecting", "up"}] /\ status["server"] # "connecting"
  /\ \A b \in Boards : queue[b] \in Seq(Pieces(b)) /\ Len(queue[b]) <= SendCap
  /\ off \in [Boards -> Nat] /\ watchOut \in [Boards -> BOOLEAN]
  /\ \A b \in Boards : rx[b] \in Seq(Pieces(Peer(b))) /\ Len(rx[b]) <= RxCap
  /\ \A b \in Boards : step[b] = "read" => Len(rx[b]) < Parts
  /\ step \in [Boards -> {"idle", "accept", "read", "parse", "crashed"}]
  /\ retry \in Nat /\ armed \in BOOLEAN /\ timer \in {"off", "set"}
  /\ timer = "set" => armed /\ status["client"] = "none"
  /\ stage \in [Conns -> {"free", "syn", "open"}]
  /\ backlog \in Seq(Conns) /\ shut \in [Conns -> SUBSET Boards]
  /\ \A k \in Conns, b \in Boards : wire[k][b] \in Seq(Pieces(b)) /\ Len(wire[k][b]) <= WireCap

\* As long as a connection lasts, what tcp_send accepted on it is, byte for
\* byte and in order, what the peer's bus was given, then what is in its rx_buf,
\* on the wire and in send_buf - if rx_buf was empty when it began.
StreamIntact ==
  \A r \in Boards : LET s == Peer(r) IN
    status[r] = "up" /\ status[s] = "up" /\ fd[r] = fd[s] /\ shut[fd[r]] = {} /\ clean[r]
      => /\ IsPrefix(given[r], taken[s])
         /\ Carries(rx[r] \o wire[fd[r]][s] \o queue[s],
                    SubSeq(taken[s], Len(given[r]) + 1, Len(taken[s])))

\* Across any number of connections a board is given the peer's frames in the
\* order they were sent and none of them twice, torn frames included.
OnceInOrder == [][\A b \in Boards : given'[b] # given[b] /\ given'[b] # <<>> => last'[b] > last[b]]_vars

\* Frames that wait in send_buf are sent, or dropped with the connection.
Drains == \A b \in Boards : queue[b] # <<>> ~> (queue[b] = <<>> \/ ~Runs)

\* README.md:252: a client that lost its connection reconnects with backoff, so
\* whenever it has none the retry timer must be running.
RetryIsArmed == Runs /\ status["client"] = "none" => armed /\ timer = "set"
=============================================================================
