---------------------------- MODULE KcpTransport ----------------------------
(***************************************************************************)
(* Two boards joined by UDP with a KCP session on it (udp_kcp_transport.c    *)
(* over ikcp.c), each with the receive loop of its daemon (main.c).           *)
(***************************************************************************)
EXTENDS Framing, Network, Ikcp

CONSTANTS
  RxBufs,    \* sizes of rx_buf in pieces: whether its 3200 bytes are a whole number
             \* of frames depends on the frames
  MaxSent,   \* bounds: frames each board sends,
  MaxFaults  \* faults of the network, timeouts that come too early included

Boards == {"a", "b"}
Peer(b) == IF b = "a" THEN "b" ELSE "a"

ASSUME KcpAssumption ==
  /\ Faults \subseteq {"lose", "repeat", "delay", "early"}
  /\ RxBufs \subseteq Nat /\ \A size \in RxBufs : size >= Parts
  /\ Parts < Mss * RcvWnd
  /\ MaxSent \in [Boards -> Nat] /\ MaxFaults \in Nat

VARIABLES
  kcp,      \* control block of each board
  net,      \* datagrams on the way to each board
  rxBuf,    \* one of RxBufs, for good
  step,     \* where on_transport_event is: "idle", or "recv" in its loop
  rx,       \* rx_buf of the transport
  put,      \* frames given to ikcp_send
  got,      \* frames ikcp_recv gave out
  given,    \* frames the bus was given
  emptied,  \* frames that were in rx_buf when it was emptied because it was full
  faults

vars == <<kcp, net, rxBuf, step, rx, put, got, given, emptied, faults>>

Each(value) == [b \in Boards |-> value]

\* udp_kcp_open on both boards, with the same conv
Init ==
  /\ rxBuf \in RxBufs
  /\ kcp = Each(Created) /\ net = Each(<<>>) /\ step = Each("idle") /\ rx = Each(<<>>)
  /\ put = Each(<<>>) /\ got = Each(<<>>) /\ given = Each(<<>>) /\ emptied = Each(<<>>)
  /\ faults = 0

-----------------------------------------------------------------------------
(* kcp_update_session: ikcp_update, which flushes every 10 ms, and           *)
(* kcp_drain_recv                                                            *)

Numbers(pieces) == [i \in 1 .. Len(pieces) \div Parts |-> pieces[i * Parts].n]

\* Mutant of Overfull: a buffer that cannot take another frame counts as full.
OverfullSoon(buf) == Len(buf) + Parts > rxBuf

\* rx_len >= sizeof(rx_buf)
Overfull(buf) == Len(buf) >= rxBuf

\* One turn of kcp_drain_recv: a full rx_buf is emptied; else the next message is
\* taken if there is one and it fits.
DrainOnce(d) ==
  IF d.done THEN d
  ELSE IF Overfull(d.rx)
  THEN [d EXCEPT !.rx = <<>>, !.emptied = Numbers(d.rx), !.done = TRUE]
  ELSE IF ~MessageReady(d.k) \/ Len(Message(d.k)) > rxBuf - Len(d.rx)
  THEN [d EXCEPT !.done = TRUE]
  ELSE [d EXCEPT !.k = Recv(d.k), !.rx = @ \o Message(d.k), !.got = @ \o Numbers(Message(d.k))]

\* As many turns as fill rx_buf and find it full.
Drained(k, buf) ==
  FoldLeft(LAMBDA d, i : DrainOnce(d),
           [k |-> k, rx |-> buf, got |-> <<>>, emptied |-> <<>>, done |-> FALSE],
           [i \in 1 .. rxBuf \div Parts + 1 |-> i])

\* For the other callers rx_buf stays as kcp_drain_recv left it.
Keeps(b, buf) == rx' = [rx EXCEPT ![b] = buf] /\ UNCHANGED <<rxBuf, given>>

\* What is left of rx_buf when the caller has room for all of it.
Copied(buf) == <<>>

\* udp_kcp_recv returns what rx_buf holds, process_transport_frames hands it on,
\* and on_transport_event calls again; with nothing to return the loop ends.
HandsOn(b, buf) ==
  /\ rx' = [rx EXCEPT ![b] = Copied(buf)]
  /\ given' = [given EXCEPT ![b] = @ \o Numbers(buf)]
  /\ step' = [step EXCEPT ![b] = IF buf = <<>> THEN "idle" ELSE "recv"]
  /\ UNCHANGED rxBuf

\* caller: "recv" for udp_kcp_recv, which goes on to read rx_buf, or "other"
Drain(b, k, caller) ==
  LET d == Drained(k, rx[b])
  IN  /\ IF caller = "recv" THEN HandsOn(b, d.rx) ELSE Keeps(b, d.rx)
      /\ kcp' = [kcp EXCEPT ![b] = d.k]
      /\ got' = [got EXCEPT ![b] = @ \o d.got]
      /\ emptied' = [emptied EXCEPT ![b] = @ \o d.emptied]

\* Nothing is on the way, nor will be with the next flush.
Quiet == \A b \in Boards : net[b] = <<>> /\ kcp[b].acks = <<>> /\ ~kcp[b].tell

\* A segment's time is over (30 ms at least), or the wait before the window is asked
\* for again.  While an answer may be on the way this is early and counts as a fault.
TimesOut(again, due) ==
  \/ again = {} /\ ~due /\ UNCHANGED faults
  \/ (again # {} \/ due) /\ Quiet /\ UNCHANGED faults
  \/ (again # {} \/ due) /\ ~Quiet /\ "early" \in Faults
     /\ faults < MaxFaults /\ faults' = faults + 1

Unacknowledged(k) == {k.snd_buf[i].sn : i \in DOMAIN k.snd_buf}

\* inbox is what the network still holds for board b.
Flush(b, k, inbox, again, due, caller) ==
  /\ TimesOut(again, due)
  /\ net' = [net EXCEPT ![b] = inbox, ![Peer(b)] = @ \o Packed(Outgoing(k, again, due))]
  /\ Drain(b, Flushed(k), caller)

NotYet(b, k, inbox, caller) ==
  /\ net' = [net EXCEPT ![b] = inbox]
  /\ Drain(b, k, caller)
  /\ UNCHANGED faults

UpdateSession(b, k, inbox, caller) ==
  \/ NotYet(b, k, inbox, caller)
  \/ \E again \in SUBSET Unacknowledged(k) : \E due \in {FALSE, k.waiting} :
       Flush(b, k, inbox, again, due, caller)

-----------------------------------------------------------------------------
(* Actions                                                                   *)

\* udp_kcp_send
SendFrame(b) ==
  /\ Len(put[b]) < MaxSent[b]
  /\ put' = [put EXCEPT ![b] = Append(@, Len(@) + 1)]
  /\ UpdateSession(b, Send(kcp[b], Frame(Len(put[b]) + 1)), net[b], "other")
  /\ UNCHANGED step

\* udp_kcp_handle_event, after which on_transport_event calls udp_kcp_recv
Event(b) ==
  /\ step[b] = "idle"
  /\ step' = [step EXCEPT ![b] = "recv"]
  /\ UNCHANGED put

\* The timer, every 10 ms
Tick(b) ==
  /\ Event(b)
  /\ UpdateSession(b, kcp[b], net[b], "other")

\* The socket: kcp_pump_udp takes all that has arrived.
Datagrams(b) ==
  /\ Event(b)
  /\ \E n \in DOMAIN net[b] :
       UpdateSession(b, FoldLeft(Input, kcp[b], SubSeq(net[b], 1, n)),
                     SubSeq(net[b], n + 1, Len(net[b])), "other")

\* udp_kcp_recv, again and again until there is nothing to return
RecvFrames(b) ==
  /\ step[b] = "recv"
  /\ UpdateSession(b, kcp[b], net[b], "recv")
  /\ UNCHANGED put

Disturb(b) ==
  /\ faults < MaxFaults /\ faults' = faults + 1
  /\ \E q \in AfterFault(net[b], DOMAIN net[b]) : net' = [net EXCEPT ![b] = q]
  /\ UNCHANGED <<kcp, rxBuf, step, rx, put, got, given, emptied>>

Next ==
  \E b \in Boards :
    SendFrame(b) \/ Tick(b) \/ Datagrams(b) \/ RecvFrames(b) \/ Disturb(b)

Spec == Init /\ [][Next]_vars

\* A tick that finds the 10 ms over, and all timers run out when nothing is on the way.
FlushTick(b) ==
  LET k == kcp[b]
      again == IF Quiet THEN Unacknowledged(k) ELSE {}
  IN  Event(b) /\ Flush(b, k, net[b], again, Quiet /\ k.waiting, "other")

\* The reactor serves the timer and the socket again and again, and the loop of
\* recv calls goes on: SF_vars(FlushTick(b)), SF_vars(Datagrams(b)) and
\* WF_vars(RecvFrames(b)), with the guards written out for ENABLED.
Fairness ==
  \A b \in Boards :
    /\ []<>(step[b] = "idle") => []<><<FlushTick(b)>>_vars
    /\ []<>(step[b] = "idle" /\ net[b] # <<>>) => []<><<Datagrams(b)>>_vars
    /\ <>[](step[b] = "recv") => []<><<RecvFrames(b)>>_vars

FairSpec == Spec /\ Fairness

-----------------------------------------------------------------------------
(* Properties                                                                *)

Pieces(b) == [n : 1 .. MaxSent[b], part : 1 .. Parts]
ChunksOf(b) == [frg : Nat, data : Seq(Pieces(b))]
SegmentsOf(b) == [sn : Nat, frg : Nat, data : Seq(Pieces(b))]

\* The types; no queue of a control block grows past its window and rx_buf not past its size.
TypeOK ==
  /\ \A b \in Boards :
       LET k == kcp[b]
       IN  /\ k.snd_queue \in Seq(ChunksOf(b)) /\ k.rcv_queue \in Seq(ChunksOf(Peer(b)))
           /\ k.snd_buf \in Seq(SegmentsOf(b)) /\ k.rcv_buf \in Seq(SegmentsOf(Peer(b)))
           /\ {k.snd_una, k.snd_nxt, k.rcv_nxt, k.rmt_wnd} \subseteq Nat
           /\ k.snd_nxt - k.snd_una <= SndWnd /\ Len(k.snd_buf) <= SndWnd
           /\ Len(k.rcv_buf) <= RcvWnd /\ Len(k.rcv_queue) <= RcvWnd
           /\ k.tell \in BOOLEAN /\ k.waiting \in BOOLEAN
           /\ step[b] \in {"idle", "recv"}
           /\ Len(rx[b]) <= rxBuf
  /\ faults \in 0 .. MaxFaults

\* A segment is forgotten only when the other side has it: every number sent is
\* below the other side's rcv_nxt, in its rcv_buf, or still in snd_buf here,
\* however late, often and in whatever order acknowledgements arrive.
ForgottenOnlyIfReceived ==
  \A b \in Boards :
    LET other == kcp[Peer(b)]
    IN  \A sn \in 0 .. kcp[b].snd_nxt - 1 :
          \/ sn \in Unacknowledged(kcp[b])
          \/ sn < other.rcv_nxt
          \/ \E i \in DOMAIN other.rcv_buf : other.rcv_buf[i].sn = sn

\* The session, from ikcp_send of board a to ikcp_recv of board b, is a Channel.
AtoB == INSTANCE Channel WITH Messages <- 1 .. MaxSent["a"], put <- put["a"], got <- got["b"]
IsChannel == AtoB!Spec

\* What came out of the session is handed to the bus in order and once, or is in
\* rx_buf; what is missing was in an rx_buf that was full to the last byte when it
\* was emptied.
OnlyFullBuffersLose ==
  \A b \in Boards :
    /\ \A i, j \in DOMAIN given[b] : i < j => given[b][i] < given[b][j]
    /\ Range(got[b]) = Range(given[b]) \cup Range(emptied[b]) \cup Range(Numbers(rx[b]))
    /\ Len(got[b]) = Len(given[b]) + Len(emptied[b]) + Len(Numbers(rx[b]))
    /\ rxBuf % Parts # 0 => emptied[b] = <<>>

\* Under the losses, repeats and delays of the network, and although a window that
\* opens again is announced once only, every frame sent comes out of the session at
\* last; and is handed to the bus, where no frames can fill rx_buf to the last byte.
AllArrive ==
  \A b \in Boards :
    <>[](/\ Len(got[Peer(b)]) = Len(put[b])
         /\ rxBuf % Parts # 0 => Len(given[Peer(b)]) = Len(put[b]))
=============================================================================
