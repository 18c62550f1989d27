----------------------------- MODULE FileProofs -----------------------------
(***************************************************************************)
(* Theorems about FileTransfer: any number of senders, files of any length,  *)
(* any window, and a network that disturbs as often as it likes.             *)
(***************************************************************************)
EXTENDS FileTransfer, SequenceTheorems, TLAPS

-----------------------------------------------------------------------------
(* Facts about the operators of the model                                    *)

\* A sequence over a set is one over every larger set.
LEMMA SeqGrows ==
  ASSUME NEW S, NEW T, S \subseteq T
  PROVE  Seq(S) \subseteq Seq(T)
<1> SUFFICES ASSUME NEW q \in Seq(S) PROVE q \in Seq(T)
  OBVIOUS
<1>1. \A i \in 1 .. Len(q) : q[i] \in T
  BY ElementOfSeq
<1>2. Len(q) \in Nat /\ q = [i \in 1 .. Len(q) |-> q[i]]
  BY LenProperties
<1>3. QED  BY <1>1, <1>2

\* A channel that lost, repeated or delayed a packet holds no packet it did not
\* hold before.
LEMMA DisturbedHoldsNoOther ==
  ASSUME NEW S, NEW q \in Seq(S), NEW r \in Disturbed(q)
  PROVE  r \in Seq(S)
<1>1. PICK i \in DOMAIN q : r \in {Lost(q, i), Twice(q, i), Later(q, i)}
  BY Zenon DEF Disturbed, AfterFault
<1>2. /\ Len(q) \in Nat /\ i \in 1 .. Len(q) /\ q[i] \in S
      /\ \A j \in 1 .. Len(q) : q[j] \in S
  BY <1>1, LenProperties, ElementOfSeq
<1>3. /\ i \in Int /\ i - 1 \in Int /\ i + 1 \in Int
      /\ \A j \in 1 .. i - 1 : q[j] \in S
      /\ \A j \in i .. Len(q) : q[j] \in S
      /\ \A j \in i + 1 .. Len(q) : q[j] \in S
  BY <1>2
<1>4. SubSeq(q, 1, i - 1) \in Seq(S) /\ SubSeq(q, i + 1, Len(q)) \in Seq(S)
      /\ SubSeq(q, i, Len(q)) \in Seq(S)
  BY <1>2, <1>3, SubSeqProperties
<1>5. RemoveAt(q, i) \in Seq(S)
  BY <1>4, ConcatProperties DEF RemoveAt
<1>6. InsertAt(q, i, q[i]) \in Seq(S)
  <2>1. <<q[i]>> \in Seq(S)  BY <1>2
  <2>2. SubSeq(q, 1, i - 1) \o <<q[i]>> \in Seq(S)  BY <2>1, <1>4, ConcatProperties
  <2>3. QED  BY <2>2, <1>4, ConcatProperties DEF InsertAt
<1>7. Append(RemoveAt(q, i), q[i]) \in Seq(S)
  BY <1>2, <1>5, AppendProperties
<1>8. QED  BY <1>1, <1>5, <1>6, <1>7, Zenon DEF Lost, Twice, Later

\* A control packet joins what is under way to the senders.
LEMMA ControlJoins ==
  ASSUME NEW S, up \in [Senders -> Seq(S)], NEW p \in S
  PROVE  WithControl(p) \in [Senders -> Seq(S)]
<1>1. \A s \in Senders : Append(up[s], p) \in Seq(S)
  BY AppendProperties
<1>2. QED  BY <1>1 DEF WithControl

\* A file is a sequence of chunks.
LEMMA FileIsChunks ==
  ASSUME NEW s \in Senders
  PROVE  File(s) \in Seq(Chunks)
<1>1. Size[s] \in Nat  BY FileAssumption
<1>2. \A i \in 1 .. Size[s] : Chunk(s, i - 1) \in Chunks
  BY <1>1 DEF Chunk, Chunks
<1>3. File(s) \in [1 .. Size[s] -> Chunks]  BY <1>2 DEF File
<1>4. QED  BY <1>1, <1>3

-----------------------------------------------------------------------------
(* Types                                                                     *)

\* What a publish puts on its way is a packet.
LEMMA PublishedIsPacket ==
  ASSUME TypeOK, NEW p \in Packets, ToReceiver(p)
  PROVE  down' \in Seq(Packets)
BY AppendProperties DEF ToReceiver, TypeOK, ChannelsOK

\* The types hold at the start.
LEMMA TypeInit == Init => TypeOK
<1> SUFFICES ASSUME Init PROVE TypeOK
  OBVIOUS
<1>1. ChannelsOK  BY DEF Init, ChannelsOK
<1>2. /\ phase \in [Senders -> {"start", "data", "wait", "ok", "failed"}]
      /\ seq \in [Senders -> Nat] /\ \A s \in Senders : seq[s] <= Size[s]
      /\ round \in [Senders -> 0 .. MaxRounds]
      /\ \A s \in Senders : SenderBusy(s) => round[s] < MaxRounds
  BY FileAssumption DEF Init
<1>3. resent \in [Senders -> BOOLEAN] /\ doneSeen \in [Senders -> BOOLEAN]
  BY Zenon DEF Init
<1>4. SendersOK  BY <1>2, <1>3, Zenon DEF SendersOK
<1>5. written \in Seq(Chunks) /\ endCrc \in Seq(Chunks)  BY DEF Init
<1>6. ReceiverOK  BY <1>5, Zenon DEF Init, ReceiverOK
<1>7. faults \in Nat  BY DEF Init
<1>8. QED  BY <1>1, <1>4, <1>6, <1>7, Zenon DEF TypeOK

\* Every step of send_file_path keeps the types.
LEMMA SenderTypes ==
  ASSUME TypeOK, NEW s \in Senders, SenderStep(s) \/ SenderBreaks(s)
  PROVE  TypeOK'
<1> USE FileAssumption
<1>0. Size[s] \in Nat /\ seq[s] \in Nat /\ seq[s] <= Size[s]
  BY DEF TypeOK, SendersOK
<1>1. CASE SendStart(s)
  <2>1. Packet("START", s, Size[s]) \in Packets  BY <1>0 DEF Packet, Packets, Types
  <2>2. down' \in Seq(Packets)  BY <2>1, <1>1, PublishedIsPacket DEF SendStart
  <2>3. ChannelsOK' /\ ReceiverOK' /\ faults' \in Nat
    BY <2>2, <1>1 DEF SendStart, TypeOK, ChannelsOK, ReceiverOK, receiving
  <2>4. SendersOK'  BY <1>1 DEF SendStart, TypeOK, SendersOK, SenderBusy
  <2>5. QED  BY <2>3, <2>4 DEF TypeOK
<1>2. CASE SendData(s)
  <2>1. Packet("DATA", s, seq[s]) \in Packets  BY <1>0 DEF Packet, Packets, Types
  <2>2. down' \in Seq(Packets)  BY <2>1, <1>2, PublishedIsPacket DEF SendData
  <2>3. ChannelsOK' /\ ReceiverOK' /\ faults' \in Nat
    BY <2>2, <1>2 DEF SendData, TypeOK, ChannelsOK, ReceiverOK, receiving
  <2>4. seq[s] + 1 \in Nat /\ seq[s] + 1 <= Size[s]
    BY <1>0, <1>2 DEF SendData, MoreToRead
  <2>5. seq' \in [Senders -> Nat] /\ \A t \in Senders : seq'[t] <= Size[t]
    BY <2>4, <1>2 DEF SendData, TypeOK, SendersOK
  <2>6. SendersOK'  BY <2>5, <1>2 DEF SendData, TypeOK, SendersOK, SenderBusy
  <2>7. QED  BY <2>3, <2>6 DEF TypeOK
<1>3. CASE SendEnd(s)
  <2>1. Packet("END", s, 0) \in Packets  BY DEF Packet, Packets, Types
  <2>2. down' \in Seq(Packets)  BY <2>1, <1>3, PublishedIsPacket DEF SendEnd
  <2>3. ChannelsOK' /\ ReceiverOK' /\ faults' \in Nat
    BY <2>2, <1>3 DEF SendEnd, TypeOK, ChannelsOK, ReceiverOK, receiving
  <2>4. SendersOK'  BY <1>3 DEF SendEnd, TypeOK, SendersOK, SenderBusy
  <2>5. QED  BY <2>3, <2>4 DEF TypeOK
<1>4. CASE SeeDone(s)
  <2>1. Tail(up[s]) \in Seq(Packets)
    BY <1>4, HeadTailProperties DEF SeeDone, TypeOK, ChannelsOK
  <2>2. ChannelsOK' /\ ReceiverOK' /\ faults' \in Nat
    BY <2>1, <1>4 DEF SeeDone, TypeOK, ChannelsOK, ReceiverOK, receiving
  <2>3. SendersOK'  BY <1>4 DEF SeeDone, TypeOK, SendersOK, SenderBusy
  <2>4. QED  BY <2>2, <2>3 DEF TypeOK
<1>5. CASE Resend(s)
  <2>1. Tail(up[s]) \in Seq(Packets) /\ Head(up[s]) \in Packets
    BY <1>5, HeadTailProperties DEF Resend, TypeOK, ChannelsOK
  <2>2. Packet("DATA", s, Head(up[s]).n) \in Packets
    BY <2>1 DEF Packet, Packets, Types
  <2>3. down' \in Seq(Packets)
    BY <2>2, <1>5, PublishedIsPacket DEF Resend
  <2>4. ChannelsOK' /\ ReceiverOK' /\ faults' \in Nat
    BY <2>1, <2>3, <1>5 DEF Resend, TypeOK, ChannelsOK, ReceiverOK, receiving
  <2>5. SendersOK'  BY <1>5 DEF Resend, TypeOK, SendersOK, SenderBusy
  <2>6. QED  BY <2>4, <2>5 DEF TypeOK
<1>6. CASE CannotResend(s)
  <2>1. ChannelsOK' /\ ReceiverOK' /\ faults' \in Nat
    BY <1>6 DEF CannotResend, Return, TypeOK, ChannelsOK, ReceiverOK, receiving
  <2>2. SendersOK'  BY <1>6 DEF CannotResend, Return, TypeOK, SendersOK, SenderBusy
  <2>3. QED  BY <2>1, <2>2 DEF TypeOK
<1>7. CASE SkipControl(s)
  <2>1. Tail(up[s]) \in Seq(Packets)
    BY <1>7, HeadTailProperties DEF SkipControl, TypeOK, ChannelsOK
  <2>2. ChannelsOK' /\ ReceiverOK' /\ faults' \in Nat
    BY <2>1, <1>7 DEF SkipControl, TypeOK, ChannelsOK, ReceiverOK, receiving
  <2>3. SendersOK'  BY <1>7 DEF SkipControl, TypeOK, SendersOK, SenderBusy, sending
  <2>4. QED  BY <2>2, <2>3 DEF TypeOK
<1>8. CASE RoundEnds(s)
  <2>1. ReceiverOK' /\ faults' \in Nat
    BY <1>8 DEF RoundEnds, TypeOK, ReceiverOK, receiving
  <2>2. CASE doneSeen[s]
    <3>1. Return(s, "ok") /\ UNCHANGED <<down, seq, round, resent, doneSeen>>
      BY <2>2, <1>8, Zenon DEF RoundEnds
    <3>2. ChannelsOK'  BY <3>1 DEF Return, TypeOK, ChannelsOK
    <3>3. SendersOK'  BY <3>1 DEF Return, TypeOK, SendersOK, SenderBusy
    <3>4. QED  BY <2>1, <3>2, <3>3 DEF TypeOK
  <2>3. CASE ~doneSeen[s]
    <3>1. Packet("END", s, 0) \in Packets  BY DEF Packet, Packets, Types
    <3>2. /\ ToReceiver(Packet("END", s, 0)) \/ UNCHANGED down
          /\ UNCHANGED <<phase, up>> \/ Return(s, "failed")
      BY <2>3, <1>8, Zenon DEF RoundEnds
    <3>3. ChannelsOK'
      <4>1. down' \in Seq(Packets)
        BY <3>1, <3>2, PublishedIsPacket DEF TypeOK, ChannelsOK
      <4>2. up' \in [Senders -> Seq(Packets)]
        <5>1. CASE up' = up  BY <5>1 DEF TypeOK, ChannelsOK
        <5>2. CASE up' = [up EXCEPT ![s] = <<>>]  BY <5>2 DEF TypeOK, ChannelsOK
        <5>3. QED  BY <3>2, <5>1, <5>2, Zenon DEF Return
      <4>3. QED  BY <4>1, <4>2 DEF ChannelsOK
    <3>4. round[s] \in Nat /\ round[s] < MaxRounds
      BY <1>8 DEF RoundEnds, TypeOK, SendersOK, SenderBusy
    <3>5. round' = [round EXCEPT ![s] = @ + 1] /\ resent' = [resent EXCEPT ![s] = FALSE]
          /\ UNCHANGED <<seq, doneSeen>>
      BY <2>3, <1>8, Zenon DEF RoundEnds, NextRound
    <3>6. round' \in [Senders -> 0 .. MaxRounds]
      BY <3>4, <3>5 DEF TypeOK, SendersOK
    <3>7. \/ phase' = phase /\ round[s] + 1 < MaxRounds
          \/ phase' = [phase EXCEPT ![s] = "failed"]
      BY <2>3, <1>8, Zenon DEF RoundEnds, Return, NextRound
    <3>8. phase' \in [Senders -> {"start", "data", "wait", "ok", "failed"}]
          /\ \A t \in Senders : SenderBusy(t)' => round'[t] < MaxRounds
      BY <3>5, <3>7 DEF TypeOK, SendersOK, SenderBusy
    <3>9. SendersOK'  BY <3>5, <3>6, <3>8 DEF TypeOK, SendersOK
    <3>10. QED  BY <2>1, <3>3, <3>9 DEF TypeOK
  <2>4. QED  BY <2>2, <2>3
<1>9. CASE SenderBreaks(s)
  <2>1. ChannelsOK' /\ ReceiverOK' /\ faults' \in Nat
    BY <1>9 DEF SenderBreaks, Return, TypeOK, ChannelsOK, ReceiverOK, receiving
  <2>2. SendersOK'  BY <1>9 DEF SenderBreaks, Return, TypeOK, SendersOK, SenderBusy
  <2>3. QED  BY <2>1, <2>2 DEF TypeOK
<1>10. QED  BY <1>1, <1>2, <1>3, <1>4, <1>5, <1>6, <1>7, <1>8, <1>9 DEF SenderStep

\* The number the receiver asks for, or confirms, is a packet's.
LEMMA ControlIsPacket ==
  ASSUME TypeOK, transfer \in Senders, NEW type \in Types, NEW w \in Seq(Chunks)
  PROVE  Packet(type, transfer, Len(w)) \in Packets
BY LenProperties DEF Packet, Packets

\* What has arrived is a packet.
LEMMA ArrivedIsPacket ==
  ASSUME TypeOK, down # <<>>
  PROVE  Arrived \in Packets /\ Tail(down) \in Seq(Packets)
BY HeadTailProperties DEF Arrived, TypeOK, ChannelsOK

\* A chunk more is a file still.
LEMMA LongerIsChunks ==
  ASSUME TypeOK, down # <<>>
  PROVE  Longer \in Seq(Chunks)
<1>1. Chunk(Arrived.of, Arrived.n) \in Chunks
  BY ArrivedIsPacket DEF Packets, Chunk, Chunks
<1>2. QED  BY <1>1, AppendProperties DEF Longer, TypeOK, ReceiverOK

\* A failing receiver changes nothing of what the types speak about.
LEMMA FailsTypes ==
  ASSUME TypeOK, Fails
  PROVE  down' \in Seq(Packets) /\ ReceiverOK'
<1>1. down' \in Seq(Packets)  BY DEF Fails
<1>2. ReceiverOK'  BY DEF Fails, TypeOK, ReceiverOK
<1>3. QED  BY <1>1, <1>2

\* The same of a receiver that succeeds.
LEMMA SucceedsTypes ==
  ASSUME TypeOK, transfer \in Senders, written' \in Seq(Chunks), Succeeds,
         gotEnd' \in BOOLEAN, endCrc' \in Seq(Chunks)
  PROVE  ChannelsOK' /\ ReceiverOK'
<1>1. Packet("DONE", transfer, Len(written')) \in Packets
  BY ControlIsPacket DEF Types
<1>2. up' \in [Senders -> Seq(Packets)]
  BY <1>1, ControlJoins DEF Succeeds, TypeOK, ChannelsOK
<1>3. down' \in Seq(Packets)  BY DEF Succeeds
<1>4. /\ state' = "ok" /\ transfer' \in Senders
      /\ onDisk' \in {"none", "open", "whole", "short"}
  BY DEF Succeeds, FileClosed, TypeOK, ReceiverOK
<1>5. QED  BY <1>2, <1>3, <1>4 DEF ChannelsOK, ReceiverOK

\* A NACK is a packet.
LEMMA NackTypes ==
  ASSUME TypeOK, state = "receiving", Nack
  PROVE  up' \in [Senders -> Seq(Packets)]
<1>1. Packet("NACK", transfer, Len(written)) \in Packets
  BY ControlIsPacket DEF Types, TypeOK, ReceiverOK
<1>2. QED  BY <1>1, ControlJoins DEF Nack, TypeOK, ChannelsOK

\* Every step of recv_file_path keeps the types.
LEMMA ReceiverTypes ==
  ASSUME TypeOK, ReceiverStep \/ ReceiverBreaks
  PROVE  TypeOK'
<1> SUFFICES ChannelsOK' /\ ReceiverOK'
  <2>1. UNCHANGED sending /\ (faults' = faults \/ faults' = faults + 1)
    BY Zenon DEF ReceiverStep, TakeStart, Ignore, AskForMissing, TakeChunk, TakeLastChunk,
           TakeEnd, ReceiverTimesOut, ReceiverBreaks, Succeeds, FileClosed
  <2>2. SendersOK' /\ faults' \in Nat
    BY <2>1 DEF TypeOK, SendersOK, SenderBusy, sending
  <2>3. QED  BY <2>2 DEF TypeOK
<1>1. CASE TakeStart
  <2>1. down # <<>>  BY <1>1 DEF TakeStart, Arrives
  <2>2. ChannelsOK'
    BY <1>1, <2>1, ArrivedIsPacket DEF TakeStart, Taken, TypeOK, ChannelsOK
  <2>3. Arrived.of \in Senders  BY <2>1, ArrivedIsPacket DEF Packets
  <2>4. ReceiverOK'  BY <1>1, <2>3 DEF TakeStart, TypeOK, ReceiverOK
  <2>5. QED  BY <2>2, <2>4
<1>2. CASE Ignore
  <2>1. ChannelsOK'
    BY <1>2, ArrivedIsPacket DEF Ignore, Taken, TypeOK, ChannelsOK
  <2>2. ReceiverOK'  BY <1>2 DEF Ignore, TypeOK, ReceiverOK, receiving
  <2>3. QED  BY <2>1, <2>2
<1>3. CASE AskForMissing
  <2>1. down' \in Seq(Packets)
    BY <1>3, ArrivedIsPacket DEF AskForMissing, Arrives, Taken
  <2>2. up' \in [Senders -> Seq(Packets)]
    BY <1>3, NackTypes DEF AskForMissing
  <2>3. ReceiverOK'  BY <1>3 DEF AskForMissing, TypeOK, ReceiverOK, receiving
  <2>4. QED  BY <2>1, <2>2, <2>3 DEF ChannelsOK
<1>4. CASE TakeChunk
  <2>1. down # <<>>  BY <1>4 DEF TakeChunk, Arrives
  <2>2. ChannelsOK'
    BY <1>4, <2>1, ArrivedIsPacket DEF TakeChunk, Taken, TypeOK, ChannelsOK
  <2>3. ReceiverOK'  BY <1>4, <2>1, LongerIsChunks DEF TakeChunk, TypeOK, ReceiverOK
  <2>4. QED  BY <2>2, <2>3
<1>5. CASE TakeLastChunk
  <2>1. CASE Fails /\ UNCHANGED up
    BY <2>1, FailsTypes DEF TypeOK, ChannelsOK
  <2>2. CASE written' = Longer /\ Succeeds /\ UNCHANGED <<gotEnd, endCrc>>
    <3>1. written' \in Seq(Chunks)
      BY <2>2, <1>5, LongerIsChunks DEF TakeLastChunk, Arrives
    <3>2. transfer \in Senders /\ gotEnd' \in BOOLEAN /\ endCrc' \in Seq(Chunks)
      BY <2>2, <1>5 DEF TakeLastChunk, TypeOK, ReceiverOK
    <3>3. QED  BY <3>1, <3>2, <2>2, SucceedsTypes
  <2>3. QED  BY <2>1, <2>2, <1>5 DEF TakeLastChunk
<1>6. CASE TakeEnd
  <2>1. transfer \in Senders /\ state = "receiving"  BY <1>6 DEF TakeEnd, TypeOK, ReceiverOK
  <2>2. CASE Fails /\ UNCHANGED up
    BY <2>2, FailsTypes DEF TypeOK, ChannelsOK
  <2>3. CASE /\ Arrived.of = transfer /\ gotEnd' = TRUE /\ endCrc' = File(Arrived.of)
             /\ Nack /\ Taken
             /\ UNCHANGED <<state, transfer, written, onDisk>>
    <3>1. down' \in Seq(Packets)
      BY <1>6, <2>3, ArrivedIsPacket DEF TakeEnd, Arrives, Taken
    <3>2. up' \in [Senders -> Seq(Packets)]
      BY <2>1, <2>3, NackTypes
    <3>3. endCrc' \in Seq(Chunks)  BY <2>1, <2>3, FileIsChunks
    <3>4. ReceiverOK'  BY <2>3, <3>3 DEF TypeOK, ReceiverOK
    <3>5. QED  BY <3>1, <3>2, <3>4 DEF ChannelsOK
  <2>4. CASE /\ Arrived.of = transfer /\ gotEnd' = TRUE /\ endCrc' = File(Arrived.of)
             /\ UNCHANGED written /\ Succeeds
    <3>1. endCrc' \in Seq(Chunks) /\ written' \in Seq(Chunks) /\ gotEnd' \in BOOLEAN
      BY <2>1, <2>4, FileIsChunks DEF TypeOK, ReceiverOK
    <3>2. QED  BY <3>1, <2>1, <2>4, SucceedsTypes
  <2>5. QED  BY <2>2, <2>3, <2>4, <1>6, Zenon DEF TakeEnd
<1>7. CASE ReceiverTimesOut
  <2>1. down' \in Seq(Packets) /\ ReceiverOK'
    BY <1>7, FailsTypes DEF ReceiverTimesOut
  <2>2. up' \in [Senders -> Seq(Packets)]
    BY <1>7, NackTypes DEF ReceiverTimesOut, TypeOK, ChannelsOK
  <2>3. QED  BY <2>1, <2>2 DEF ChannelsOK
<1>8. CASE ReceiverBreaks
  BY <1>8, FailsTypes DEF ReceiverBreaks, TypeOK, ChannelsOK
<1>9. QED
  BY <1>1, <1>2, <1>3, <1>4, <1>5, <1>6, <1>7, <1>8 DEF ReceiverStep

\* So does every fault of the network.
LEMMA DisturbTypes ==
  ASSUME TypeOK, Disturb
  PROVE  TypeOK'
<1>1. SendersOK' /\ ReceiverOK' /\ faults' \in Nat
  BY DEF Disturb, TypeOK, SendersOK, ReceiverOK, SenderBusy, sending, receiving
<1>2. down' \in Seq(Packets)
  BY DisturbedHoldsNoOther DEF Disturb, TypeOK, ChannelsOK
<1>3. up' \in [Senders -> Seq(Packets)]
  <2>1. CASE UNCHANGED up  BY <2>1 DEF TypeOK, ChannelsOK
  <2>2. CASE \E s \in Senders : \E q \in Disturbed(up[s]) : up' = [up EXCEPT ![s] = q]
    <3>1. PICK s \in Senders : \E q \in Disturbed(up[s]) : up' = [up EXCEPT ![s] = q]
      BY <2>2
    <3>2. PICK q \in Disturbed(up[s]) : up' = [up EXCEPT ![s] = q]
      BY <3>1
    <3>3. q \in Seq(Packets)
      BY DisturbedHoldsNoOther DEF TypeOK, ChannelsOK
    <3>4. QED  BY <3>2, <3>3 DEF TypeOK, ChannelsOK
  <2>3. QED  BY <2>1, <2>2 DEF Disturb
<1>4. QED  BY <1>1, <1>2, <1>3 DEF TypeOK, ChannelsOK

\* Every variable keeps its type, no sender goes past its file or its rounds.
THEOREM FileTypes == Spec => []TypeOK
<1>1. TypeOK /\ [Next]_vars => TypeOK'
  <2> SUFFICES ASSUME TypeOK, [Next]_vars PROVE TypeOK'
    OBVIOUS
  <2>1. CASE \E s \in Senders : SenderStep(s) \/ SenderBreaks(s)
    BY <2>1, SenderTypes
  <2>2. CASE ReceiverStep \/ ReceiverBreaks  BY <2>2, ReceiverTypes
  <2>3. CASE Disturb  BY <2>3, DisturbTypes
  <2>4. CASE UNCHANGED vars
    BY <2>4 DEF vars, sending, receiving, TypeOK, ChannelsOK, SendersOK, ReceiverOK, SenderBusy
  <2>5. QED  BY <2>1, <2>2, <2>3, <2>4 DEF Next
<1>2. QED  BY <1>1, TypeInit, PTL DEF Spec

-----------------------------------------------------------------------------
(* The numbering of the chunks                                               *)

\* Chunk i is in place i, whoever sent it.
InSequence == \A i \in DOMAIN written : written[i].n = i - 1

\* A chunk that is expected continues the numbering.
LEMMA ExpectedContinues ==
  ASSUME TypeOK, InSequence, down # <<>>, Expected(Arrived.n)
  PROVE  \A i \in DOMAIN Longer : Longer[i].n = i - 1
<1> DEFINE c == Chunk(Arrived.of, Arrived.n)
<1>1. c \in Chunks /\ c.n = Len(written)
  BY ArrivedIsPacket DEF Packets, Chunk, Chunks, Expected
<1>2. written \in Seq(Chunks)  BY DEF TypeOK, ReceiverOK
<1> HIDE DEF c
<1>3. /\ Len(written) \in Nat
      /\ Append(written, c) \in Seq(Chunks)
      /\ Len(Append(written, c)) = Len(written) + 1
      /\ \A i \in 1 .. Len(written) : Append(written, c)[i] = written[i]
      /\ Append(written, c)[Len(written) + 1] = c
  BY <1>1, <1>2, AppendProperties, LenProperties
<1>4. \A i \in 1 .. Len(written) : written[i].n = i - 1
  BY <1>2, LenProperties DEF InSequence
<1>5. \A i \in 1 .. Len(written) + 1 : Append(written, c)[i].n = i - 1
  BY <1>1, <1>3, <1>4
<1>6. DOMAIN Append(written, c) = 1 .. Len(written) + 1
  BY <1>3, LenProperties
<1>7. QED  BY <1>5, <1>6 DEF Longer, c

\* The chunks in the receiver's file are numbered without gap and repetition.
LEMMA ChunksInSequence == Spec => []InSequence
<1>1. Init => InSequence  BY DEF Init, InSequence
<1>2. TypeOK /\ InSequence /\ [Next]_vars => InSequence'
  <2> SUFFICES ASSUME TypeOK, InSequence, [Next]_vars PROVE InSequence'
    OBVIOUS
  <2>1. CASE UNCHANGED written  BY <2>1 DEF InSequence
  <2>2. CASE down # <<>> /\ Expected(Arrived.n) /\ written' = Longer
    BY <2>2, ExpectedContinues DEF InSequence
  <2>3. UNCHANGED written \/ (down # <<>> /\ Expected(Arrived.n) /\ written' = Longer)
    <3>1. CASE Next
      <4>1. CASE \E s \in Senders : SenderStep(s) \/ SenderBreaks(s)
        BY <4>1 DEF SenderStep, SendStart, SendData, SendEnd, SeeDone, Resend, CannotResend,
             SkipControl, RoundEnds, SenderBreaks, receiving
      <4>2. CASE ReceiverStep \/ ReceiverBreaks
        BY <4>2, Zenon DEF ReceiverStep, TakeStart, Ignore, AskForMissing, TakeChunk,
             TakeLastChunk, TakeEnd, ReceiverTimesOut, ReceiverBreaks, Fails, Arrives, receiving
      <4>3. CASE Disturb  BY <4>3 DEF Disturb, receiving
      <4>4. QED  BY <3>1, <4>1, <4>2, <4>3 DEF Next
    <3>2. CASE UNCHANGED vars  BY <3>2 DEF vars, receiving
    <3>3. QED  BY <3>1, <3>2
  <2>4. QED  BY <2>1, <2>2, <2>3
<1>3. QED  BY <1>1, <1>2, FileTypes, PTL DEF Spec

-----------------------------------------------------------------------------
(* Nobody is told what is not so                                             *)

\* The control packets that may be under way: DONE only of the transfer that is
\* complete.
Controls == {p \in Packets : p.type = "DONE" => state = "ok" /\ p.of = transfer}

\* Complete(s): the receiver has returned BC_OK with the file of s.
Complete(s) == state = "ok" /\ transfer = s

ControlsTrue == up \in [Senders -> Seq(Controls)]
SendersTrue  == \A s \in Senders : (doneSeen[s] => Complete(s)) /\ (phase[s] = "ok" => Complete(s))
ReceiverTrue ==
  /\ state = "ok" => /\ transfer \in Senders /\ written = File(transfer)
                     /\ onDisk \in {"whole", "short"}
  /\ ReceiverBusy => onDisk \in {"none", "open"}
  /\ state = "receiving" /\ gotEnd => endCrc = File(transfer)
  /\ state = "idle" => ~gotEnd
  /\ state = "failed" => onDisk = "none"

\* Truthful with what it takes to be inductive: what is under way and what the
\* waiting sender has seen is true too, and endCrc is the file announced by START.
Honest == ControlsTrue /\ SendersTrue /\ ReceiverTrue

\* Nothing has been said at the start.
LEMMA HonestInit == Init => Honest
<1> SUFFICES ASSUME Init PROVE Honest
  OBVIOUS
<1>1. ControlsTrue  BY DEF Init, ControlsTrue
<1>2. SendersTrue  BY DEF Init, SendersTrue
<1>3. ReceiverTrue  BY DEF Init, ReceiverTrue, ReceiverBusy
<1>4. QED  BY <1>1, <1>2, <1>3 DEF Honest

\* While the receiver stays complete, every true control packet stays true.
LEMMA ControlsGrow ==
  ASSUME state = "ok" => UNCHANGED <<state, transfer>>
  PROVE  Controls \subseteq Controls'
BY DEF Controls

\* A control packet that is under way is kept, and true packets join.
LEMMA ControlsKept ==
  ASSUME ControlsTrue, state = "ok" => UNCHANGED <<state, transfer>>
  PROVE  /\ up \in [Senders -> Seq(Controls')]
         /\ UNCHANGED up => ControlsTrue'
         /\ \A p \in Controls' : up' = WithControl(p) => ControlsTrue'
<1>1. Seq(Controls) \subseteq Seq(Controls')  BY ControlsGrow, SeqGrows
<1>2. up \in [Senders -> Seq(Controls')]  BY <1>1 DEF ControlsTrue
<1>3. \A p \in Controls' : WithControl(p) \in [Senders -> Seq(Controls')]
  BY <1>2, ControlJoins
<1>4. QED  BY <1>2, <1>3 DEF ControlsTrue

\* A NACK says nothing that could be false.
LEMMA NackHonest ==
  ASSUME TypeOK, ControlsTrue, state = "receiving", Nack
  PROVE  ControlsTrue'
<1>1. Packet("NACK", transfer, Len(written)) \in Packets
  BY ControlIsPacket DEF Types, TypeOK, ReceiverOK
<1>2. Packet("NACK", transfer, Len(written)) \in Controls'
  BY <1>1 DEF Controls, Packet
<1>3. QED  BY <1>2, ControlsKept DEF Nack

\* A receiver that has not returned has confirmed nothing.
LEMMA NothingConfirmed ==
  ASSUME SendersTrue, ReceiverBusy, UNCHANGED sending
  PROVE  SendersTrue'
BY DEF SendersTrue, Complete, ReceiverBusy, sending

\* A receiver that fails removes its file and confirms nothing.
LEMMA FailsHonest ==
  ASSUME TypeOK, Honest, ReceiverBusy, Fails
  PROVE  ReceiverTrue' /\ (UNCHANGED up => ControlsTrue')
<1>1. ReceiverTrue'  BY DEF Fails, ReceiverTrue, ReceiverBusy
<1>2. UNCHANGED up => ControlsTrue'
  BY ControlsKept DEF Honest, ReceiverBusy
<1>3. QED  BY <1>1, <1>2

\* A receiver with the whole file may say DONE.
LEMMA SucceedsHonest ==
  ASSUME TypeOK, Honest, state = "receiving", Succeeds,
         written' \in Seq(Chunks), written' = File(transfer)
  PROVE  ControlsTrue' /\ ReceiverTrue'
<1>1. /\ transfer \in Senders /\ state' = "ok"
      /\ transfer' = transfer /\ onDisk' \in {"whole", "short"}
  BY DEF TypeOK, ReceiverOK, Succeeds, FileClosed
<1>2. Packet("DONE", transfer, Len(written')) \in Packets
  BY <1>1, ControlIsPacket DEF Types
<1>3. Packet("DONE", transfer, Len(written')) \in Controls'
  BY <1>1, <1>2 DEF Controls, Packet
<1>4. ControlsTrue'
  BY <1>3, ControlsKept DEF Succeeds, Honest
<1>5. ReceiverTrue'  BY <1>1 DEF ReceiverTrue, ReceiverBusy
<1>6. QED  BY <1>4, <1>5

\* recv_file_path succeeds only after the CRC of the END of its own transfer.
LEMMA ReceiverHonest ==
  ASSUME TypeOK, Honest, ReceiverStep \/ ReceiverBreaks
  PROVE  Honest'
<1>1. ReceiverBusy /\ UNCHANGED sending
  BY Zenon DEF ReceiverStep, TakeStart, Ignore, AskForMissing, TakeChunk, TakeLastChunk,
         TakeEnd, ReceiverTimesOut, ReceiverBreaks, ReceiverBusy
<1>2. state # "ok" /\ ControlsTrue  BY <1>1 DEF ReceiverBusy, Honest
<1> SUFFICES ControlsTrue' /\ ReceiverTrue'
  BY <1>1, NothingConfirmed DEF Honest
<1>3. CASE TakeStart
  <2>1. ControlsTrue'  BY <1>2, <1>3, ControlsKept DEF TakeStart
  <2>2. ReceiverTrue'  BY <1>3 DEF TakeStart, Honest, ReceiverTrue, ReceiverBusy
  <2>3. QED  BY <2>1, <2>2
<1>4. CASE Ignore
  <2>1. ControlsTrue'  BY <1>2, <1>4, ControlsKept DEF Ignore
  <2>2. ReceiverTrue'  BY <1>4 DEF Ignore, receiving, Honest, ReceiverTrue, ReceiverBusy
  <2>3. QED  BY <2>1, <2>2
<1>5. CASE AskForMissing
  <2>1. ControlsTrue'  BY <1>2, <1>5, NackHonest DEF AskForMissing
  <2>2. ReceiverTrue'  BY <1>5 DEF AskForMissing, receiving, Honest, ReceiverTrue, ReceiverBusy
  <2>3. QED  BY <2>1, <2>2
<1>6. CASE TakeChunk
  <2>1. ControlsTrue'  BY <1>2, <1>6, ControlsKept DEF TakeChunk
  <2>2. ReceiverTrue'  BY <1>6 DEF TakeChunk, Honest, ReceiverTrue, ReceiverBusy
  <2>3. QED  BY <2>1, <2>2
<1>7. CASE TakeLastChunk
  <2>1. CASE Fails /\ UNCHANGED up  BY <2>1, <1>1, FailsHonest
  <2>2. CASE CrcMatches(endCrc, Longer) /\ written' = Longer /\ Succeeds
    <3>1. state = "receiving" /\ gotEnd /\ down # <<>>
      BY <1>7 DEF TakeLastChunk, Arrives
    <3>2. written' = File(transfer)
      BY <2>2, <3>1 DEF CrcMatches, Honest, ReceiverTrue
    <3>3. written' \in Seq(Chunks)  BY <2>2, <3>1, LongerIsChunks
    <3>4. QED  BY <2>2, <3>1, <3>2, <3>3, SucceedsHonest
  <2>3. QED  BY <2>1, <2>2, <1>7, Zenon DEF TakeLastChunk
<1>8. CASE TakeEnd
  <2>1. state = "receiving"  BY <1>8 DEF TakeEnd
  <2>2. CASE Fails /\ UNCHANGED up  BY <2>2, <1>1, FailsHonest
  <2>3. CASE /\ Arrived.of = transfer /\ endCrc' = File(Arrived.of)
             /\ Nack /\ UNCHANGED <<state, transfer, written, onDisk>>
    <3>1. ControlsTrue'  BY <1>2, <2>1, <2>3, NackHonest
    <3>2. ReceiverTrue'  BY <2>1, <2>3 DEF Honest, ReceiverTrue, ReceiverBusy
    <3>3. QED  BY <3>1, <3>2
  <2>4. CASE /\ Arrived.of = transfer /\ CrcMatches(File(Arrived.of), written)
             /\ UNCHANGED written /\ Succeeds
    <3>1. written' \in Seq(Chunks) /\ written' = File(transfer)
      BY <2>4 DEF CrcMatches, TypeOK, ReceiverOK
    <3>2. QED  BY <3>1, <2>1, <2>4, SucceedsHonest
  <2>5. QED  BY <2>2, <2>3, <2>4, <1>8, Zenon DEF TakeEnd
<1>9. CASE ReceiverTimesOut
  <2>1. Fails /\ (UNCHANGED up \/ (state = "receiving" /\ Nack))
    BY <1>9 DEF ReceiverTimesOut
  <2>2. QED  BY <1>1, <1>2, <2>1, FailsHonest, NackHonest
<1>10. CASE ReceiverBreaks
  BY <1>1, <1>10, FailsHonest DEF ReceiverBreaks
<1>11. QED
  BY <1>3, <1>4, <1>5, <1>6, <1>7, <1>8, <1>9, <1>10 DEF ReceiverStep

\* send_file_path succeeds only after a DONE with its own transfer id.
LEMMA SenderHonest ==
  ASSUME TypeOK, Honest, NEW s \in Senders, SenderStep(s) \/ SenderBreaks(s)
  PROVE  Honest'
<1>1. UNCHANGED receiving
  BY Zenon DEF SenderStep, SendStart, SendData, SendEnd, SeeDone, Resend, CannotResend,
         SkipControl, RoundEnds, SenderBreaks, receiving
<1>2. ReceiverTrue' /\ Controls' = Controls /\ (\A t : Complete(t)' = Complete(t))
  BY <1>1 DEF receiving, Honest, ReceiverTrue, ReceiverBusy, Controls, Complete
<1>3. up[s] \in Seq(Controls) /\ (up[s] # <<>> => Head(up[s]) \in Controls)
      /\ (up[s] # <<>> => Tail(up[s]) \in Seq(Controls)) /\ <<>> \in Seq(Controls)
  BY HeadTailProperties, EmptySeq DEF Honest, ControlsTrue
<1>4. ControlsTrue'
  <2>1. \/ UNCHANGED up
        \/ up' = [up EXCEPT ![s] = <<>>]
        \/ up[s] # <<>> /\ up' = [up EXCEPT ![s] = Tail(@)]
    BY Zenon DEF SenderStep, SendStart, SendData, SendEnd, SeeDone, Resend, CannotResend,
           SkipControl, RoundEnds, SenderBreaks, Return
  <2>2. CASE UNCHANGED up  BY <2>2, <1>2 DEF Honest, ControlsTrue
  <2>3. CASE up' = [up EXCEPT ![s] = <<>>]  BY <2>3, <1>2, <1>3 DEF Honest, ControlsTrue
  <2>4. CASE up[s] # <<>> /\ up' = [up EXCEPT ![s] = Tail(@)]
    BY <2>4, <1>2, <1>3 DEF Honest, ControlsTrue
  <2>5. QED  BY <2>1, <2>2, <2>3, <2>4
<1>5. \A t \in Senders : doneSeen'[t] => Complete(t)
  <2>1. CASE SeeDone(s)
    <3>1. Head(up[s]) \in Controls /\ Head(up[s]).type = "DONE" /\ Head(up[s]).of = s
      BY <2>1, <1>3 DEF SeeDone, ForMe
    <3>2. Complete(s)  BY <3>1 DEF Controls, Complete
    <3>3. QED  BY <3>2, <2>1 DEF SeeDone, TypeOK, SendersOK, Honest, SendersTrue
  <2>2. CASE UNCHANGED doneSeen  BY <2>2 DEF Honest, SendersTrue
  <2>3. QED
    BY <2>1, <2>2, Zenon DEF SenderStep, SendStart, SendData, SendEnd, Resend, CannotResend,
           SkipControl, RoundEnds, SenderBreaks, sending
<1>6. \A t \in Senders : phase'[t] = "ok" => Complete(t)
  <2>1. \/ UNCHANGED phase
        \/ \E f \in {"data", "wait", "failed"} : phase' = [phase EXCEPT ![s] = f]
        \/ doneSeen[s] /\ phase' = [phase EXCEPT ![s] = "ok"]
    BY Zenon DEF SenderStep, SendStart, SendData, SendEnd, SeeDone, Resend, CannotResend,
           SkipControl, RoundEnds, SenderBreaks, Return, sending
  <2>2. CASE UNCHANGED phase  BY <2>2 DEF Honest, SendersTrue
  <2>3. CASE \E f \in {"data", "wait", "failed"} : phase' = [phase EXCEPT ![s] = f]
    BY <2>3 DEF TypeOK, SendersOK, Honest, SendersTrue
  <2>4. CASE doneSeen[s] /\ phase' = [phase EXCEPT ![s] = "ok"]
    BY <2>4 DEF TypeOK, SendersOK, Honest, SendersTrue
  <2>5. QED  BY <2>1, <2>2, <2>3, <2>4
<1>7. SendersTrue'  BY <1>2, <1>5, <1>6, Zenon DEF SendersTrue
<1>8. QED  BY <1>2, <1>4, <1>7 DEF Honest

\* The network invents no DONE.
LEMMA DisturbHonest ==
  ASSUME TypeOK, Honest, Disturb
  PROVE  Honest'
<1>1. UNCHANGED receiving /\ UNCHANGED sending  BY DEF Disturb
<1>2. SendersTrue' /\ ReceiverTrue' /\ Controls' = Controls
  BY <1>1 DEF receiving, sending, Honest, SendersTrue, ReceiverTrue, ReceiverBusy, Controls, Complete
<1>3. up' \in [Senders -> Seq(Controls)]
  <2>1. CASE UNCHANGED up  BY <2>1 DEF Honest, ControlsTrue
  <2>2. CASE \E s \in Senders : \E q \in Disturbed(up[s]) : up' = [up EXCEPT ![s] = q]
    <3>1. PICK s \in Senders : \E q \in Disturbed(up[s]) : up' = [up EXCEPT ![s] = q]
      BY <2>2
    <3>2. PICK q \in Disturbed(up[s]) : up' = [up EXCEPT ![s] = q]
      BY <3>1
    <3>3. q \in Seq(Controls)
      BY DisturbedHoldsNoOther DEF Honest, ControlsTrue
    <3>4. QED  BY <3>2, <3>3 DEF Honest, ControlsTrue
  <2>3. QED  BY <2>1, <2>2 DEF Disturb
<1>4. QED  BY <1>2, <1>3 DEF Honest, ControlsTrue

\* Honest is inductive relative to TypeOK.
LEMMA HonestStep ==
  ASSUME TypeOK, Honest, [Next]_vars
  PROVE  Honest'
<1>1. CASE \E s \in Senders : SenderStep(s) \/ SenderBreaks(s)
  BY <1>1, SenderHonest
<1>2. CASE ReceiverStep \/ ReceiverBreaks  BY <1>2, ReceiverHonest
<1>3. CASE Disturb  BY <1>3, DisturbHonest
<1>4. CASE UNCHANGED vars
  BY <1>4 DEF vars, sending, receiving, Honest, ControlsTrue, SendersTrue, ReceiverTrue,
         ReceiverBusy, Controls, Complete
<1>5. QED  BY <1>1, <1>2, <1>3, <1>4 DEF Next

\* Honest is an invariant.
LEMMA AlwaysHonest == Spec => []Honest
BY HonestInit, HonestStep, FileTypes, PTL DEF Spec

\* What the two calls report of the transfer is always so, however often packets
\* are lost, repeated or delayed and however many senders share the topic; of the
\* disk they know nothing, since fclose is not checked.
THEOREM ReportsAreTrue == Spec => []Truthful
<1>1. Honest => Truthful
  BY DEF Honest, SendersTrue, ReceiverTrue, Complete, Truthful
<1>2. QED  BY <1>1, AlwaysHonest, PTL

-----------------------------------------------------------------------------
(* When a file is refused                                                    *)

\* As many chunks as the file has, numbered one after the other and from nobody
\* but its sender, are that file.
LEMMA OwnChunksAreTheFile ==
  ASSUME NEW s \in Senders, NEW w \in Seq(Chunks), Len(w) = Size[s],
         \A i \in DOMAIN w : w[i].n = i - 1,
         \A i \in DOMAIN w : w[i].of = s
  PROVE  w = File(s)
<1>1. w = [i \in 1 .. Size[s] |-> w[i]] /\ DOMAIN w = 1 .. Size[s]
  BY LenProperties
<1>2. \A i \in 1 .. Size[s] : w[i] = Chunk(s, i - 1)
  <2> TAKE i \in 1 .. Size[s]
  <2>1. w[i] \in [of : Senders, n : Nat]  BY <1>1, ElementOfSeq DEF Chunks
  <2>2. w[i].of = s /\ w[i].n = i - 1  BY <1>1
  <2>3. QED  BY <2>1, <2>2 DEF Chunk
<1>3. QED  BY <1>1, <1>2 DEF File

\* A last chunk that is refused, or one before it, came from another sender.
LEMMA RefusedChunk ==
  ASSUME TypeOK, Honest, InSequence, TakeLastChunk, state' = "failed"
  PROVE  Mixed
<1> SUFFICES ASSUME ~Mixed PROVE FALSE
  OBVIOUS
<1>1. /\ state = "receiving" /\ gotEnd /\ down # <<>> /\ Expected(Arrived.n)
      /\ Len(Longer) = Size[transfer] /\ ~CrcMatches(endCrc, Longer)
  BY Zenon DEF TakeLastChunk, Arrives, Succeeds
<1>2. transfer \in Senders /\ Arrived \in Packets /\ Longer \in Seq(Chunks)
  BY <1>1, ArrivedIsPacket, LongerIsChunks DEF TypeOK, ReceiverOK
<1>3. \A i \in DOMAIN Longer : Longer[i].n = i - 1
  BY <1>1, ExpectedContinues
<1>4. \A i \in DOMAIN Longer : Longer[i].of = transfer
  <2> DEFINE c == Chunk(Arrived.of, Arrived.n)
  <2>1. c \in Chunks /\ c.of = transfer
    BY <1>2 DEF Mixed, Packets, Chunk, Chunks
  <2>2. written \in Seq(Chunks)  BY DEF TypeOK, ReceiverOK
  <2>3. \A i \in 1 .. Len(written) : written[i].of = transfer
    <3> TAKE i \in 1 .. Len(written)
    <3>1. i \in DOMAIN written /\ written[i] \in [of : Senders, n : Nat]
      BY <2>2, LenProperties, ElementOfSeq DEF Chunks
    <3>2. QED  BY <3>1, Zenon DEF Mixed
  <2> HIDE DEF c
  <2>4. /\ Len(written) \in Nat
        /\ DOMAIN Append(written, c) = 1 .. Len(written) + 1
        /\ \A i \in 1 .. Len(written) : Append(written, c)[i] = written[i]
        /\ Append(written, c)[Len(written) + 1] = c
    BY <2>1, <2>2, AppendProperties, LenProperties
  <2>5. QED  BY <2>1, <2>3, <2>4 DEF Longer, c
<1>5. Longer = File(transfer)  BY <1>1, <1>2, <1>3, <1>4, OwnChunksAreTheFile
<1>6. endCrc = File(transfer)  BY <1>1 DEF Honest, ReceiverTrue
<1>7. QED  BY <1>1, <1>5, <1>6 DEF CrcMatches

\* So did an END that is refused, or a chunk before it.
LEMMA RefusedEnd ==
  ASSUME TypeOK, Honest, InSequence, TakeEnd, state' = "failed"
  PROVE  Mixed
<1> SUFFICES ASSUME ~Mixed PROVE FALSE
  OBVIOUS
<1>1. state = "receiving" /\ down # <<>>  BY DEF TakeEnd, Arrives
<1>2. /\ transfer \in Senders /\ Arrived \in Packets /\ written \in Seq(Chunks)
      /\ Arrived.of \in Senders
  BY <1>1, ArrivedIsPacket DEF TypeOK, ReceiverOK, Packets
<1>3. Arrived.of = transfer  BY <1>2 DEF Mixed
<1>4. Len(written) = Size[transfer] /\ ~CrcMatches(File(Arrived.of), written)
  BY <1>1, <1>3, Zenon DEF TakeEnd, Succeeds
<1>5. \A i \in DOMAIN written : written[i].of = transfer
  <2> TAKE i \in DOMAIN written
  <2>1. written[i] \in [of : Senders, n : Nat]
    BY <1>2, LenProperties, ElementOfSeq DEF Chunks
  <2>2. QED  BY <2>1, Zenon DEF Mixed
<1>6. \A i \in DOMAIN written : written[i].n = i - 1  BY Zenon DEF InSequence
<1>7. written = File(transfer)  BY <1>2, <1>4, <1>5, <1>6, OwnChunksAreTheFile
<1>8. QED  BY <1>3, <1>4, <1>7 DEF CrcMatches

\* The check of length, CRC and transfer id refuses a file only if a packet of
\* another sender got into it, whatever the network does.
THEOREM OnlyMixingIsRefused == Spec => OnlyMixingSpoils
<1>1. TypeOK /\ Honest /\ InSequence /\ [Next]_vars
      => [(TakeLastChunk \/ TakeEnd) /\ state' = "failed" => Mixed]_vars
  BY RefusedChunk, RefusedEnd
<1>2. QED  BY <1>1, FileTypes, AlwaysHonest, ChunksInSequence, PTL DEF Spec, OnlyMixingSpoils

-----------------------------------------------------------------------------
(* bc_file.c implements FileDelivery                                         *)

\* At the start everybody is busy and nothing is accepted.
LEMMA DeliveryInit == Init => Delivery!Init
<1> SUFFICES ASSUME Init PROVE Delivery!Init
  OBVIOUS
<1>1. SenderReport = [s \in Senders |-> "busy"]
  BY DEF Init, SenderReport, SenderBusy
<1>2. ReceiverReport = "busy" /\ Accepted = Nobody
  BY DEF Init, ReceiverReport, ReceiverBusy, Accepted
<1>3. onDisk # "whole"  BY DEF Init
<1>4. QED  BY <1>1, <1>2, <1>3 DEF Delivery!Init

\* A step of a sender reports its success, reports its failure or nothing.
LEMMA SenderDelivers ==
  ASSUME TypeOK, Honest, NEW s \in Senders, SenderStep(s) \/ SenderBreaks(s)
  PROVE  [Delivery!Next]_(Delivery!promise)
<1>1. UNCHANGED receiving
  BY Zenon DEF SenderStep, SendStart, SendData, SendEnd, SeeDone, Resend, CannotResend,
         SkipControl, RoundEnds, SenderBreaks, receiving
<1>2. UNCHANGED <<ReceiverReport, Accepted, onDisk = "whole">>
  BY <1>1 DEF receiving, ReceiverReport, ReceiverBusy, Accepted
<1>3. SenderBusy(s)
  BY Zenon DEF SenderStep, SendStart, SendData, SendEnd, SeeDone, Resend, CannotResend,
         SkipControl, RoundEnds, SenderBreaks, SenderBusy
<1>4. \/ UNCHANGED phase
      \/ \E f \in {"data", "wait"} : phase' = [phase EXCEPT ![s] = f]
      \/ phase' = [phase EXCEPT ![s] = "failed"]
      \/ doneSeen[s] /\ phase' = [phase EXCEPT ![s] = "ok"]
  BY Zenon DEF SenderStep, SendStart, SendData, SendEnd, SeeDone, Resend, CannotResend,
         SkipControl, RoundEnds, SenderBreaks, Return, sending
<1>5. CASE UNCHANGED phase \/ \E f \in {"data", "wait"} : phase' = [phase EXCEPT ![s] = f]
  <2>1. UNCHANGED SenderReport
    BY <1>3, <1>5 DEF SenderReport, SenderBusy, TypeOK, SendersOK
  <2>2. QED  BY <1>2, <2>1 DEF Delivery!promise
<1>6. CASE phase' = [phase EXCEPT ![s] = "failed"]
  <2>1. /\ SenderReport[s] = "busy"
        /\ SenderReport' = [SenderReport EXCEPT ![s] = "failed"]
    BY <1>3, <1>6 DEF SenderReport, SenderBusy, TypeOK, SendersOK
  <2>2. Delivery!Abandon(s)  BY <1>2, <2>1 DEF Delivery!Abandon
  <2>3. QED  BY <2>2 DEF Delivery!Next
<1>7. CASE doneSeen[s] /\ phase' = [phase EXCEPT ![s] = "ok"]
  <2>1. /\ SenderReport[s] = "busy"
        /\ SenderReport' = [SenderReport EXCEPT ![s] = "ok"]
    BY <1>3, <1>7 DEF SenderReport, SenderBusy, TypeOK, SendersOK
  <2>2. Accepted = s
    BY <1>7 DEF Honest, SendersTrue, ReceiverTrue, Complete, Accepted
  <2>3. Delivery!Confirm(s)  BY <1>2, <2>1, <2>2 DEF Delivery!Confirm
  <2>4. QED  BY <2>3 DEF Delivery!Next
<1>8. QED  BY <1>4, <1>5, <1>6, <1>7

\* A step of the receiver accepts a file, gives up, or shows nothing.
LEMMA ReceiverDelivers ==
  ASSUME TypeOK, Honest, Honest', ReceiverStep \/ ReceiverBreaks
  PROVE  [Delivery!Next]_(Delivery!promise)
<1>1. ReceiverBusy /\ UNCHANGED sending
  BY Zenon DEF ReceiverStep, TakeStart, Ignore, AskForMissing, TakeChunk, TakeLastChunk,
         TakeEnd, ReceiverTimesOut, ReceiverBreaks, ReceiverBusy
<1>2. UNCHANGED SenderReport
  BY <1>1 DEF sending, SenderReport, SenderBusy
<1>3. ReceiverReport = "busy" /\ Accepted = Nobody /\ onDisk # "whole"
  BY <1>1 DEF ReceiverReport, ReceiverBusy, Accepted, Honest, ReceiverTrue
<1>4. UNCHANGED state \/ state' \in {"receiving", "ok", "failed"}
  BY Zenon DEF ReceiverStep, TakeStart, Ignore, AskForMissing, TakeChunk, TakeLastChunk,
         TakeEnd, ReceiverTimesOut, ReceiverBreaks, Fails, Succeeds, receiving
<1>5. CASE UNCHANGED state \/ state' = "receiving"
  <2>1. ReceiverReport' = "busy" /\ Accepted' = Nobody /\ onDisk' # "whole"
    BY <1>1, <1>5 DEF ReceiverReport, ReceiverBusy, Accepted, Honest, ReceiverTrue
  <2>2. QED  BY <1>2, <1>3, <2>1 DEF Delivery!promise
<1>6. CASE state' = "failed"
  <2>1. ReceiverReport' = "failed" /\ Accepted' = Nobody /\ onDisk' # "whole"
    BY <1>6 DEF ReceiverReport, ReceiverBusy, Accepted, Honest, ReceiverTrue
  <2>2. Delivery!GiveUp  BY <1>2, <1>3, <2>1 DEF Delivery!GiveUp
  <2>3. QED  BY <2>2 DEF Delivery!Next
<1>7. CASE state' = "ok"
  <2>1. ReceiverReport' = "ok" /\ Accepted' = transfer' /\ transfer' \in Senders
    BY <1>7 DEF ReceiverReport, ReceiverBusy, Accepted, Honest, ReceiverTrue
  <2>2. Delivery!Accept(transfer')  BY <1>2, <1>3, <2>1 DEF Delivery!Accept
  <2>3. QED  BY <2>1, <2>2 DEF Delivery!Next
<1>8. QED  BY <1>4, <1>5, <1>6, <1>7

\* The two calls keep the promise of FileDelivery: one sender's file is accepted, or
\* none, and no sender hears of success before its own is.
THEOREM ImplementsDelivery == Spec => Promise
<1>1. TypeOK /\ Honest /\ Honest' /\ [Next]_vars => [Delivery!Next]_(Delivery!promise)
  <2> SUFFICES ASSUME TypeOK, Honest, Honest', [Next]_vars
               PROVE  [Delivery!Next]_(Delivery!promise)
    OBVIOUS
  <2>1. CASE \E s \in Senders : SenderStep(s) \/ SenderBreaks(s)
    BY <2>1, SenderDelivers
  <2>2. CASE ReceiverStep \/ ReceiverBreaks  BY <2>2, ReceiverDelivers
  <2>3. CASE UNCHANGED <<sending, receiving>>
    BY <2>3 DEF sending, receiving, Delivery!promise, SenderReport, SenderBusy,
           ReceiverReport, ReceiverBusy, Accepted
  <2>4. QED  BY <2>1, <2>2, <2>3 DEF Next, Disturb, vars
<1>2. QED  BY <1>1, AlwaysHonest, DeliveryInit, FileTypes, PTL DEF Spec, Promise, Delivery!Spec
=============================================================================
