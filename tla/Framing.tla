------------------------------ MODULE Framing -------------------------------
(***************************************************************************)
(* Frames in a stream of bytes: what protocol.c and the receive loop of     *)
(* main.c make of the rx_buf of a transport.  A frame is cut into Parts      *)
(* pieces, because devices and sockets take and give any number of bytes.   *)
(***************************************************************************)
EXTENDS Integers, Sequences, SequencesExt

CONSTANT Parts   \* pieces of a frame

ASSUME FramingAssumption == Parts \in Nat \ {0}

Frame(n) == [i \in 1 .. Parts |-> [n |-> n, part |-> i]]

\* s is, piece by piece, the frames of ns one after the other.
Carries(s, ns) ==
  /\ Len(s) = Parts * Len(ns)
  /\ \A k \in DOMAIN ns, p \in 1 .. Parts : s[Parts * (k - 1) + p] = Frame(ns[k])[p]

\* Where a piece comes in everything a board sends
Place(piece) == piece.n * Parts + piece.part

\* What bc_protocol_frame_length and bc_protocol_decode find at the head of rx_buf.
Whole(r) == Len(r) >= Parts /\ SubSeq(r, 1, Parts) = Frame(r[1].n)
Bad(r)   == r # <<>> /\ (r[1].part # 1 \/ (Len(r) >= Parts /\ ~Whole(r)))

\* Mutant of Consumed: the frame is not moved out.
ConsumedNot(r) == r

\* The rest of rx_buf once its first frame is handled
Consumed(r) == SubSeq(r, Parts + 1, Len(r))

\* rx_buf takes two frames.
RxCap == 2 * Parts
=============================================================================
