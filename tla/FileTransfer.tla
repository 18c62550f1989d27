---------------------------- MODULE FileTransfer ----------------------------
(***************************************************************************)
(* bc_file.c: send_file_path in one or more processes and recv_file_path in *)
(* one, all on one topic.  Between them are daemons and transports that may *)
(* lose, repeat and delay packets; the receiver's disk may be full.  A file  *)
(* is counted in chunks; a CRC is the content it was computed from.          *)
(* transfer_id is the sender's name.                                         *)
(***************************************************************************)
EXTENDS Network

CONSTANTS
  Senders, Nobody,
  Size,       \* Size[s]: chunks in the file of s
  Window,     \* BC_FILE_RETX_WINDOW
  MaxRounds,  \* end_wait_rounds
  Losable,    \* the types of packets that may be lost
  MaxFaults   \* bound: how often

Types == {"START", "DATA", "END", "NACK", "DONE"}

ASSUME FileAssumption ==
  /\ Nobody \notin Senders
  /\ Size \in [Senders -> Nat]
  /\ Window \in Nat \ {0} /\ MaxRounds \in Nat \ {0} /\ MaxFaults \in Nat
  /\ Losable \subseteq Types

VARIABLES
  down,      \* packets on their way to the receiver
  up,        \* up[s]: packets on their way to s
  phase,     \* phase[s]: "start", "data", "wait", "ok" or "failed"
  seq,       \* seq[s]: chunks sent
  round,     \* round[s]: rounds of waiting for DONE
  resent,    \* resent[s]: resent_any of this round
  doneSeen,  \* doneSeen[s]: done_seen of this round
  state,     \* of the receiver: "idle", "receiving", "ok" or "failed"
  transfer,  \* transfer_id of the START it took
  written,   \* the chunks in its file; their number is expected_seq and received
  gotEnd, endCrc,
  onDisk,    \* the file at the receiver's path: "none", "open" while it is being written,
             \* then "whole", or "short" when the disk did not take the end of it
  faults     \* how many faults there were

sending   == <<phase, seq, round, resent, doneSeen>>
receiving == <<state, transfer, written, gotEnd, endCrc, onDisk>>
vars      == <<down, up, sending, receiving, faults>>

Chunk(s, n) == [of |-> s, n |-> n]
File(s)     == [i \in 1 .. Size[s] |-> Chunk(s, i - 1)]

Packet(type, s, n) == [type |-> type, of |-> s, n |-> n]

SenderBusy(s) == phase[s] \in {"start", "data", "wait"}
ReceiverBusy  == state \in {"idle", "receiving"}

\* A publish reaches who still reads.
ToReceiver(p)  == down' = IF ReceiverBusy THEN Append(down, p) ELSE down
WithControl(p) == [s \in Senders |-> IF SenderBusy(s) THEN Append(up[s], p) ELSE up[s]]

-----------------------------------------------------------------------------
(* send_file_path                                                            *)

SendStart(s) ==
  /\ phase[s] = "start"
  /\ ToReceiver(Packet("START", s, Size[s]))
  /\ phase' = [phase EXCEPT ![s] = "data"]
  /\ UNCHANGED <<up, seq, round, resent, doneSeen, receiving, faults>>

\* Mutant of MoreToRead: one chunk past the end.
OneMoreToRead(s) == seq[s] <= Size[s]

MoreToRead(s) == seq[s] < Size[s]

SendData(s) ==
  /\ phase[s] = "data" /\ MoreToRead(s)
  /\ ToReceiver(Packet("DATA", s, seq[s]))
  /\ seq' = [seq EXCEPT ![s] = @ + 1]
  /\ UNCHANGED <<up, phase, round, resent, doneSeen, receiving, faults>>

SendEnd(s) ==
  /\ phase[s] = "data" /\ ~MoreToRead(s)
  /\ ToReceiver(Packet("END", s, 0))
  /\ phase' = [phase EXCEPT ![s] = "wait"]
  /\ UNCHANGED <<up, seq, round, resent, doneSeen, receiving, faults>>

\* The call returns; what is on its way to s is read by nobody.
Return(s, result) ==
  /\ phase' = [phase EXCEPT ![s] = result]
  /\ up' = [up EXCEPT ![s] = <<>>]

\* find_cache_slot: chunk n is in slot n % Window until n + Window is.
Cached(s, n) == n >= seq[s] - Window

\* Mutant of ForMe: any control will do.
ForAnybody(s, p) == TRUE

\* parse_file_v2_control compares transfer ids.
ForMe(s, p) == p.of = s

\* sender_handle_controls, packet by packet, while waiting for DONE.
SeeDone(s) ==
  /\ phase[s] = "wait" /\ up[s] # <<>> /\ Head(up[s]).type = "DONE" /\ ForMe(s, Head(up[s]))
  /\ doneSeen' = [doneSeen EXCEPT ![s] = TRUE]
  /\ up' = [up EXCEPT ![s] = Tail(@)]
  /\ UNCHANGED <<down, phase, seq, round, resent, receiving, faults>>

Resend(s) ==
  /\ phase[s] = "wait" /\ up[s] # <<>>
  /\ LET p == Head(up[s])
     IN  /\ p.type = "NACK" /\ ForMe(s, p) /\ p.n < seq[s] /\ Cached(s, p.n)
         /\ ToReceiver(Packet("DATA", s, p.n))
  /\ resent' = [resent EXCEPT ![s] = TRUE]
  /\ up' = [up EXCEPT ![s] = Tail(@)]
  /\ UNCHANGED <<phase, seq, round, doneSeen, receiving, faults>>

CannotResend(s) ==
  /\ phase[s] = "wait" /\ up[s] # <<>>
  /\ LET p == Head(up[s])
     IN  p.type = "NACK" /\ ForMe(s, p) /\ p.n < seq[s] /\ ~Cached(s, p.n)
  /\ Return(s, "failed")
  /\ UNCHANGED <<down, seq, round, resent, doneSeen, receiving, faults>>

SkipControl(s) ==
  /\ phase[s] = "wait" /\ up[s] # <<>>
  /\ LET p == Head(up[s])
     IN  ~ForMe(s, p) \/ (p.type = "NACK" /\ p.n >= seq[s])
  /\ up' = [up EXCEPT ![s] = Tail(@)]
  /\ UNCHANGED <<down, sending, receiving, faults>>

\* Mutant of NextRound: the loop counts nothing.
SameRound(r) == r

NextRound(r) == r + 1

\* bc_read has timed out, whatever is still on its way, and the round is over:
\* done, END again if something was sent again, or simply another round while
\* there are any.
RoundEnds(s) ==
  /\ phase[s] = "wait"
  /\ \/ /\ doneSeen[s]
        /\ Return(s, "ok")
        /\ UNCHANGED <<down, round, resent, doneSeen>>
     \/ /\ ~doneSeen[s]
        /\ IF resent[s] THEN ToReceiver(Packet("END", s, 0)) ELSE UNCHANGED down
        /\ round' = [round EXCEPT ![s] = NextRound(@)]
        /\ resent' = [resent EXCEPT ![s] = FALSE]
        /\ IF NextRound(round[s]) < MaxRounds THEN UNCHANGED <<phase, up>> ELSE Return(s, "failed")
        /\ UNCHANGED doneSeen
  /\ UNCHANGED <<seq, receiving, faults>>

\* The socket fails in any of its calls.
SenderBreaks(s) ==
  /\ SenderBusy(s) /\ "break" \in Faults /\ faults < MaxFaults
  /\ Return(s, "failed")
  /\ faults' = faults + 1
  /\ UNCHANGED <<down, seq, round, resent, doneSeen, receiving>>

-----------------------------------------------------------------------------
(* recv_file_path                                                            *)

Arrived == Head(down)
Arrives(type) == down # <<>> /\ Arrived.type = type
Taken   == down' = Tail(down)
Nack    == up' = WithControl(Packet("NACK", transfer, Len(written)))

\* It returns with an error: the file is removed.
Fails ==
  /\ state' = "failed" /\ onDisk' = "none"
  /\ down' = <<>>
  /\ UNCHANGED <<transfer, written, gotEnd, endCrc>>

\* fclose, whose result is ignored: what stdio still holds may not fit the disk.
FileClosed ==
  \/ onDisk' = "whole" /\ UNCHANGED faults
  \/ /\ written' # <<>> /\ "disk" \in Faults /\ faults < MaxFaults
     /\ onDisk' = "short" /\ faults' = faults + 1

\* Everything was received and its CRC is right: tell the sender.
Succeeds ==
  /\ state' = "ok"
  /\ FileClosed
  /\ down' = <<>>
  /\ up' = WithControl(Packet("DONE", transfer, Len(written')))
  /\ UNCHANGED transfer

TakeStart ==
  /\ state = "idle" /\ Arrives("START")
  /\ state' = "receiving" /\ transfer' = Arrived.of /\ onDisk' = "open"
  /\ Taken
  /\ UNCHANGED <<up, sending, written, gotEnd, endCrc, faults>>

\* A packet before START, a second START, a chunk it has, a second END.
Ignore ==
  /\ ReceiverBusy /\ down # <<>>
  /\ CASE state = "idle"      -> Arrived.type # "START"
       [] state = "receiving" -> \/ Arrived.type = "START"
                                 \/ Arrived.type = "DATA" /\ Arrived.n < Len(written)
                                 \/ Arrived.type = "END" /\ gotEnd
  /\ Taken
  /\ UNCHANGED <<up, sending, receiving, faults>>

\* A later chunk: ask for the one that is missing and forget this one.
AskForMissing ==
  /\ state = "receiving" /\ Arrives("DATA") /\ Arrived.n > Len(written)
  /\ Nack /\ Taken
  /\ UNCHANGED <<sending, receiving, faults>>

\* Mutant of Expected: later chunks are taken as they come.
NotBefore(n) == n >= Len(written)

Expected(n) == n = Len(written)

Longer == Append(written, Chunk(Arrived.of, Arrived.n))

\* The chunk it waits for, from whichever sender: DATA has no transfer id.
TakeChunk ==
  /\ state = "receiving" /\ Arrives("DATA") /\ Expected(Arrived.n)
  /\ ~(gotEnd /\ Len(Longer) = Size[transfer])
  /\ written' = Longer
  /\ Taken
  /\ UNCHANGED <<up, sending, state, transfer, gotEnd, endCrc, onDisk, faults>>

\* Mutant of CrcMatches: the check is left out.
CrcUnchecked(crc, content) == TRUE

CrcMatches(crc, content) == crc = content

\* The last missing chunk, after END.
TakeLastChunk ==
  /\ state = "receiving" /\ Arrives("DATA") /\ Expected(Arrived.n)
  /\ gotEnd /\ Len(Longer) = Size[transfer]
  /\ \/ /\ CrcMatches(endCrc, Longer)
        /\ written' = Longer
        /\ Succeeds /\ UNCHANGED <<gotEnd, endCrc>>
     \/ /\ ~CrcMatches(endCrc, Longer)
        /\ Fails /\ UNCHANGED <<up, faults>>
  /\ UNCHANGED sending

\* END: of another transfer, too early, or with everything there.
TakeEnd ==
  /\ state = "receiving" /\ Arrives("END") /\ ~gotEnd
  /\ \/ /\ Arrived.of # transfer
        /\ Fails /\ UNCHANGED <<up, faults>>
     \/ /\ Arrived.of = transfer /\ Len(written) # Size[transfer]
        /\ gotEnd' = TRUE /\ endCrc' = File(Arrived.of)
        /\ Nack /\ Taken
        /\ UNCHANGED <<state, transfer, written, onDisk, faults>>
     \/ /\ Arrived.of = transfer /\ Len(written) = Size[transfer]
        /\ \/ /\ CrcMatches(File(Arrived.of), written)
              /\ gotEnd' = TRUE /\ endCrc' = File(Arrived.of) /\ UNCHANGED written
              /\ Succeeds
           \/ /\ ~CrcMatches(File(Arrived.of), written)
              /\ Fails /\ UNCHANGED <<up, faults>>
  /\ UNCHANGED sending

\* Nothing came for timeout_ms; what is still on its way comes too late.
ReceiverTimesOut ==
  /\ ReceiverBusy
  /\ Fails
  /\ IF state = "receiving" THEN Nack ELSE UNCHANGED up
  /\ UNCHANGED <<sending, faults>>

ReceiverBreaks ==
  /\ ReceiverBusy /\ "break" \in Faults /\ faults < MaxFaults
  /\ Fails
  /\ faults' = faults + 1
  /\ UNCHANGED <<up, sending>>

-----------------------------------------------------------------------------
(* The network between them                                                  *)

Disturbed(q) == AfterFault(q, {i \in DOMAIN q : q[i].type \in Losable})

Disturb ==
  /\ faults < MaxFaults
  /\ faults' = faults + 1
  /\ \/ down' \in Disturbed(down) /\ UNCHANGED up
     \/ /\ \E s \in Senders : \E q \in Disturbed(up[s]) : up' = [up EXCEPT ![s] = q]
        /\ UNCHANGED down
  /\ UNCHANGED <<sending, receiving>>

-----------------------------------------------------------------------------
Init ==
  /\ down = <<>> /\ up = [s \in Senders |-> <<>>]
  /\ phase = [s \in Senders |-> "start"]
  /\ seq = [s \in Senders |-> 0] /\ round = [s \in Senders |-> 0]
  /\ resent = [s \in Senders |-> FALSE] /\ doneSeen = [s \in Senders |-> FALSE]
  /\ state = "idle" /\ transfer = Nobody /\ written = <<>>
  /\ gotEnd = FALSE /\ endCrc = <<>> /\ onDisk = "none"
  /\ faults = 0

SenderStep(s) ==
  \/ SendStart(s) \/ SendData(s) \/ SendEnd(s)
  \/ SeeDone(s) \/ Resend(s) \/ CannotResend(s) \/ SkipControl(s) \/ RoundEnds(s)

ReceiverStep ==
  \/ TakeStart \/ Ignore \/ AskForMissing \/ TakeChunk \/ TakeLastChunk \/ TakeEnd
  \/ ReceiverTimesOut

Next ==
  \/ \E s \in Senders : SenderStep(s) \/ SenderBreaks(s)
  \/ ReceiverStep \/ ReceiverBreaks
  \/ Disturb

Spec == Init /\ [][Next]_vars

\* Every process keeps running, and its reads time out.
FairSpec == Spec /\ WF_vars(ReceiverStep) /\ \A s \in Senders : WF_vars(SenderStep(s))

-----------------------------------------------------------------------------
(* Properties                                                                *)

Packets == [type : Types, of : Senders, n : Nat]
Chunks  == [of : Senders, n : Nat]

ChannelsOK == down \in Seq(Packets) /\ up \in [Senders -> Seq(Packets)]

SendersOK ==
  /\ phase \in [Senders -> {"start", "data", "wait", "ok", "failed"}]
  /\ seq \in [Senders -> Nat] /\ \A s \in Senders : seq[s] <= Size[s]
  /\ round \in [Senders -> 0 .. MaxRounds]
  /\ \A s \in Senders : SenderBusy(s) => round[s] < MaxRounds
  /\ resent \in [Senders -> BOOLEAN] /\ doneSeen \in [Senders -> BOOLEAN]

ReceiverOK ==
  /\ state \in {"idle", "receiving", "ok", "failed"}
  /\ transfer \in Senders \cup {Nobody} /\ (state = "receiving" => transfer \in Senders)
  /\ written \in Seq(Chunks) /\ endCrc \in Seq(Chunks)
  /\ gotEnd \in BOOLEAN /\ onDisk \in {"none", "open", "whole", "short"}

\* The types; a sender never numbers more chunks than its file has and never
\* waits longer than its rounds.
TypeOK == ChannelsOK /\ SendersOK /\ ReceiverOK /\ faults \in Nat

\* Whether a packet of another sender is in the file or has just arrived.
Mixed == \E s \in Senders \ {transfer} : Arrived.of = s \/ \E i \in DOMAIN written : written[i].of = s

\* The check at the end of recv_file_path refuses a file only when two senders share
\* the topic: whatever the network loses, repeats or delays, the chunks of one
\* sender add up to its file or the call waits for them.
OnlyMixingSpoils ==
  [][(TakeLastChunk \/ TakeEnd) /\ state' = "failed" => Mixed]_vars

\* Success of bc_file_recv means that it received the file whose START it took and
\* handed all of it to stdio, and success of bc_file_send that the receiver did so
\* with its file; an error of the receiver leaves no part of a file.  How much of
\* it the disk has is another matter: nobody asks fclose (FileClosed).
Truthful ==
  /\ state = "ok" => /\ transfer \in Senders /\ written = File(transfer)
                     /\ onDisk \in {"whole", "short"}
  /\ \A s \in Senders : phase[s] = "ok" => state = "ok" /\ transfer = s
  /\ state = "failed" => onDisk = "none"

\* What the callers see of it.
SenderReport == [s \in Senders |-> IF SenderBusy(s) THEN "busy" ELSE phase[s]]
ReceiverReport == IF ReceiverBusy THEN "busy" ELSE state
Accepted == IF state = "ok" /\ written = File(transfer) THEN transfer ELSE Nobody

Delivery == INSTANCE FileDelivery WITH
  sender <- SenderReport, receiver <- ReceiverReport, accepted <- Accepted,
  whole <- onDisk = "whole"

\* bc_file_send and bc_file_recv keep the promise of FileDelivery, in which nobody
\* answers for the disk.
Promise == Delivery!Spec

\* Neither side waits for ever, whatever is lost: both calls return.
EverybodyReturns == <>(~ReceiverBusy /\ \A s \in Senders : ~SenderBusy(s))

\* "NACK/retransmit handles loss" (bc_file.c:14): it never happens that the
\* sender waits for DONE and the receiver for a chunk while nothing is under way.
LossIsRepaired ==
  \A s \in Senders :
    ~(/\ phase[s] = "wait" /\ up[s] = <<>> /\ ~resent[s]
      /\ state = "receiving" /\ down = <<>>)
=============================================================================
