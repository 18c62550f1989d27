-------------------------------- MODULE Ikcp --------------------------------
(***************************************************************************)
(* The control block of a KCP session (ikcp.c) and what its functions make   *)
(* of it.  It is used in message mode, without the congestion window and     *)
(* with fast resend (ikcp_nodelay(kcp, 1, 10, 2, 1) in udp_kcp_transport.c). *)
(* Clocks, round-trip times and counts of transmissions only decide when a   *)
(* segment is sent again: Flush is told which are.  Sequence numbers do not  *)
(* wrap: that takes 2^32 segments.                                           *)
(***************************************************************************)
EXTENDS Integers, Sequences, SequencesExt, FiniteSetsExt

CONSTANTS
  Mss,       \* pieces of data in a segment
  Overhead,  \* size of the header of a segment, in pieces
  SndWnd,    \* snd_wnd (256)
  RcvWnd,    \* rcv_wnd (256)
  RmtWnd     \* what rmt_wnd starts from (IKCP_WND_RCV, 128)

ASSUME IkcpAssumption == {Mss, Overhead, SndWnd, RcvWnd, RmtWnd} \subseteq Nat \ {0}

Mtu == Mss + Overhead

\* ikcp_create
Created ==
  [snd_queue |-> <<>>, snd_buf |-> <<>>, snd_una |-> 0, snd_nxt |-> 0,
   rcv_queue |-> <<>>, rcv_buf |-> <<>>, rcv_nxt |-> 0,
   rmt_wnd |-> RmtWnd, acks |-> <<>>, tell |-> FALSE, waiting |-> FALSE]

-----------------------------------------------------------------------------
(* ikcp_send and ikcp_recv                                                   *)

\* The fragments of data; frg counts down to 0.
Fragments(data) ==
  LET count == Max({1, (Len(data) + Mss - 1) \div Mss})
  IN  [i \in 1 .. count |->
        [frg |-> count - i, data |-> SubSeq(data, (i - 1) * Mss + 1, Min({i * Mss, Len(data)}))]]

Send(k, data) == [k EXCEPT !.snd_queue = @ \o Fragments(data)]

\* ikcp_peeksize finds a whole message at the head of rcv_queue.
MessageReady(k) == k.rcv_queue # <<>> /\ Len(k.rcv_queue) > Head(k.rcv_queue).frg

MessageSegments(k) == SubSeq(k.rcv_queue, 1, Head(k.rcv_queue).frg + 1)
Message(k) == FlattenSeq([i \in DOMAIN MessageSegments(k) |-> MessageSegments(k)[i].data])

\* Segments rcv_queue takes.
Room(k) == RcvWnd - Len(k.rcv_queue)

\* Mutant of InSequence: a gap is passed over.
InSequenceOrNot(k, n) == TRUE

\* The first n of rcv_buf are the next that are due.
InSequence(k, n) == \A i \in 1 .. n : k.rcv_buf[i].sn = k.rcv_nxt + i - 1

\* Segments move from rcv_buf to rcv_queue, in sequence and while there is room.
MoveReady(k) ==
  LET n == Max({i \in 0 .. Min({Len(k.rcv_buf), Room(k)}) : InSequence(k, i)})
  IN  [k EXCEPT !.rcv_queue = @ \o [i \in 1 .. n |-> [frg |-> k.rcv_buf[i].frg, data |-> k.rcv_buf[i].data]],
                !.rcv_buf = SubSeq(@, n + 1, Len(@)),
                !.rcv_nxt = @ + n]

\* ikcp_recv of a message that fits; a queue that was full announces its room.
Recv(k) ==
  LET full == Len(k.rcv_queue) >= RcvWnd
      rest == MoveReady([k EXCEPT !.rcv_queue = SubSeq(@, Len(MessageSegments(k)) + 1, Len(@))])
  IN  [rest EXCEPT !.tell = @ \/ (full /\ Len(rest.rcv_queue) < RcvWnd)]

-----------------------------------------------------------------------------
(* ikcp_input                                                                *)

\* ikcp_shrink_buf
Shrink(k) == [k EXCEPT !.snd_una = IF k.snd_buf # <<>> THEN Head(k.snd_buf).sn ELSE k.snd_nxt]

\* Mutant of StillOut: una is taken for the last segment received.
StillOutAfter(sn, una) == sn > una

\* Whether una, the next segment the other side is waiting for, leaves sn unacknowledged.
StillOut(sn, una) == sn >= una

\* ikcp_parse_una: segments go from the head of snd_buf up to the first that is still out.
ParseUna(k, una) ==
  LET n == Max({i \in 0 .. Len(k.snd_buf) : \A j \in 1 .. i : ~StillOut(k.snd_buf[j].sn, una)})
  IN  Shrink([k EXCEPT !.snd_buf = SubSeq(@, n + 1, Len(@))])

\* ikcp_parse_ack
ParseAck(k, sn) == Shrink([k EXCEPT !.snd_buf = RemoveFirstMatch(@, LAMBDA s : s.sn = sn)])

\* A PUSH beyond the window is ignored.  Any other is acknowledged, and
\* ikcp_parse_data keeps it, sorted by number, if it is new.
ParsePush(k, seg) ==
  LET acked == [k EXCEPT !.acks = Append(@, seg.sn)]
      before == {i \in DOMAIN k.rcv_buf : k.rcv_buf[i].sn < seg.sn}
      repeat == \E i \in DOMAIN k.rcv_buf : k.rcv_buf[i].sn = seg.sn
      kept  == InsertAt(k.rcv_buf, Cardinality(before) + 1,
                        [sn |-> seg.sn, frg |-> seg.frg, data |-> seg.data])
  IN  IF seg.sn >= k.rcv_nxt + RcvWnd THEN k
      ELSE IF seg.sn < k.rcv_nxt THEN acked
      ELSE MoveReady(IF repeat THEN acked ELSE [acked EXCEPT !.rcv_buf = kept])

InputSegment(k, seg) ==
  LET heard == ParseUna([k EXCEPT !.rmt_wnd = seg.wnd], seg.una)
  IN  CASE seg.cmd = "PUSH" -> ParsePush(heard, seg)
        [] seg.cmd = "ACK"  -> ParseAck(heard, seg.sn)
        [] seg.cmd = "WASK" -> [heard EXCEPT !.tell = TRUE]
        [] seg.cmd = "WINS" -> heard

\* A datagram is a sequence of segments.
Input(k, datagram) == FoldLeft(InputSegment, k, datagram)

-----------------------------------------------------------------------------
(* ikcp_flush                                                                *)

WndUnused(k) == Max({0, RcvWnd - Len(k.rcv_queue)})

Segment(k, cmd, sn, frg, data) ==
  [cmd |-> cmd, sn |-> sn, frg |-> frg, data |-> data, wnd |-> WndUnused(k), una |-> k.rcv_nxt]

\* Mutant of AsksNow: the other side's window is never asked for.
AsksNowNot(k, due) == FALSE

\* The window of the other side is closed, and has been asked for long ago.
AsksNow(k, due) == k.rmt_wnd = 0 /\ k.waiting /\ due

\* Mutant of NewSegments: one more than the window.
NewSegmentsOneMore(k) ==
  Max({0, Min({Len(k.snd_queue), k.snd_una + Min({SndWnd, k.rmt_wnd}) + 1 - k.snd_nxt})})

\* Segments snd_buf takes from snd_queue: min(snd_wnd, rmt_wnd) from snd_una on.
NewSegments(k) ==
  Max({0, Min({Len(k.snd_queue), k.snd_una + Min({SndWnd, k.rmt_wnd}) - k.snd_nxt})})

MoveToSend(k) ==
  LET n == NewSegments(k)
  IN  [k EXCEPT !.snd_buf = @ \o [i \in 1 .. n |->
                  [sn |-> k.snd_nxt + i - 1, frg |-> k.snd_queue[i].frg, data |-> k.snd_queue[i].data]],
                !.snd_queue = SubSeq(@, n + 1, Len(@)),
                !.snd_nxt = @ + n]

\* The control block after ikcp_flush
Flushed(k) == [MoveToSend(k) EXCEPT !.acks = <<>>, !.tell = FALSE, !.waiting = (k.rmt_wnd = 0)]

\* What ikcp_flush sends: acknowledgements, the question about the other side's
\* window and the answer about this one's, the new segments and those of again
\* (their time is over, or later ones have been acknowledged).
Outgoing(k, again, due) ==
  LET acks == [i \in DOMAIN k.acks |-> Segment(k, "ACK", k.acks[i], 0, <<>>)]
      asks == IF AsksNow(k, due) THEN <<Segment(k, "WASK", 0, 0, <<>>)>> ELSE <<>>
      tells == IF k.tell THEN <<Segment(k, "WINS", 0, 0, <<>>)>> ELSE <<>>
      pushes == FoldLeft(LAMBDA sent, s :
                           IF s.sn >= k.snd_nxt \/ s.sn \in again
                           THEN Append(sent, Segment(k, "PUSH", s.sn, s.frg, s.data))
                           ELSE sent,
                         <<>>, MoveToSend(k).snd_buf)
  IN  acks \o asks \o tells \o pushes

Size(datagram) ==
  FoldLeft(LAMBDA size, seg : size + Overhead + Len(seg.data), 0, datagram)

\* Segments share a datagram while it has room.
Packed(segments) ==
  FoldLeft(LAMBDA ds, seg :
             IF ds # <<>> /\ Size(Append(Last(ds), seg)) <= Mtu
             THEN Append(Front(ds), Append(Last(ds), seg))
             ELSE Append(ds, <<seg>>),
           <<>>, segments)
=============================================================================
