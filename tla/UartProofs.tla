----------------------------- MODULE UartProofs -----------------------------
(***************************************************************************)
(* Theorems about UartTransport, for every size of its buffers, every number *)
(* of frames and every number of faults, on RS-232 and RS-485.               *)
(***************************************************************************)
EXTENDS UartTransport, FramingProofs

-----------------------------------------------------------------------------
(* What the compound steps do                                                *)

\* TypeOK, with what it needs to be inductive: what is idle has less than a frame
\* in rx_buf, the counts stay within their bounds, and the history has its types.
Typed ==
  /\ TypeOK
  /\ step = "idle" => Len(rx) < Parts
  /\ sent <= MaxSent /\ heard <= MaxHeard * Parts
  /\ de => mode = "485"
  /\ cut => lost
  /\ line \in Seq(Pieces(MaxSent)) /\ taken \in Seq(Nat)

\* What letting go of the driver and closing the port keep of it.
FlagsTyped ==
  /\ de \in BOOLEAN /\ pin \in {"low", "high"} /\ faults \in Nat
  /\ cut \in BOOLEAN /\ lost \in BOOLEAN /\ refused \in BOOLEAN
  /\ cut => lost

LEMMA Flags ==
  ASSUME Typed
  PROVE  FlagsTyped
BY DEF Typed, TypeOK, FlagsTyped

\* uart_rs485_tx_disable, after k of n pieces and with the pin at this level
LEMMA LetGoEffect ==
  ASSUME FlagsTyped, NEW n \in Nat, NEW k \in 0 .. n, NEW level \in {"low", "high"},
         LetGo(n, k, level)
  PROVE  /\ de' = FALSE /\ pin' = level /\ cut' = (k < n) /\ refused' = (level = "high")
         /\ (lost => lost') /\ (k < n => lost') /\ FlagsTyped'
<1>1. /\ de' = FALSE /\ pin' = level /\ cut' = (k < n) /\ refused' = (level = "high")
      /\ lost' = (lost \/ k < n)
  BY DEF LetGo
<1>2. faults' = faults \/ faults' = faults + 1  BY DEF LetGo, Fault, failed
<1>3. faults' \in Nat  BY <1>2 DEF FlagsTyped
<1>4. CASE k < n
  <2>1. cut' = TRUE  BY <1>1, <1>4, Zenon
  <2>2. lost' = TRUE  BY <1>1, <1>4, Zenon
  <2>3. refused' \in BOOLEAN  BY <1>1, Zenon
  <2>4. QED  BY <1>1, <1>3, <2>1, <2>2, <2>3, Zenon DEF FlagsTyped
<1>5. CASE ~(k < n)
  <2>1. cut' = FALSE
    <3>1. (k < n) = FALSE  BY <1>5
    <3>2. QED  BY <1>1, <3>1, Zenon
  <2>2. lost' = lost
    <3>1. lost = TRUE \/ lost = FALSE  BY DEF FlagsTyped
    <3>2. CASE lost = TRUE  BY <1>1, <3>2, Zenon
    <3>3. CASE lost = FALSE
      <4>1. ~(lost \/ k < n)  BY <1>5, <3>3
      <4>2. lost' = FALSE  BY <1>1, <4>1
      <4>3. QED  BY <3>3, <4>2
    <3>4. QED  BY <3>1, <3>2, <3>3
  <2>3. refused' \in BOOLEAN  BY <1>1, Zenon
  <2>4. QED  BY <1>1, <1>3, <1>5, <2>1, <2>2, <2>3, Zenon DEF FlagsTyped
<1>6. QED  BY <1>4, <1>5

\* Part of what the UART holds goes out, and all of it unless something was lost.
LeavesSome ==
  \E a, b \in Seq(Pieces(MaxSent)) :
    out = a \o b /\ line' = line \o a /\ (b = <<>> \/ lost')

\* left is shared between the line and the UART.
Parted(left) ==
  \E a, b \in Seq(Pieces(MaxSent)) :
    left = a \o b /\ line' = line \o a /\ out' = b /\ Len(b) <= Len(left)

\* uart_device_close: what the UART holds leaves it, and the driver is let go.
LEMMA CloseEffect ==
  ASSUME Typed, BusReleased, DriverOn, DeviceClose
  PROVE  /\ fd' = "none" /\ watchOut' = FALSE /\ in' = <<>> /\ out' = <<>> /\ de' = FALSE
         /\ FlagsTyped' /\ (lost => lost') /\ LeavesSome
         /\ pin' = "high" => refused'
<1>1. FlagsTyped  BY Flags
<1>2. /\ out \in Seq(Pieces(MaxSent)) /\ line \in Seq(Pieces(MaxSent)) /\ Len(out) \in Nat
      /\ <<>> \in Seq(Pieces(MaxSent)) /\ de \in BOOLEAN /\ pin \in {"low", "high"}
  BY LenProperties, EmptySeq DEF Typed, TypeOK
<1>3. out \o <<>> = out /\ <<>> \o out = out /\ line \o <<>> = line  BY <1>2, ConcatEmptySeq
<1>4. CASE de
  <2>1. PICK k \in 0 .. Len(out), level \in {"low", "high"} :
          /\ LetGo(Len(out), k, level)
          /\ line' = line \o SubSeq(out, 1, k) \o Seen(SubSeq(out, k + 1, Len(out)), level)
    BY <1>4 DEF DeviceClose
  <2>2. /\ de' = FALSE /\ pin' = level /\ refused' = (level = "high")
        /\ (lost => lost') /\ (k < Len(out) => lost') /\ FlagsTyped'
    BY <1>1, <1>2, <2>1, LetGoEffect
  <2> DEFINE a == SubSeq(out, 1, k)
             b == SubSeq(out, k + 1, Len(out))
  <2>3. /\ a \in Seq(Pieces(MaxSent)) /\ b \in Seq(Pieces(MaxSent)) /\ a \o b = out
        /\ Len(b) = Len(out) - k
    BY <1>2, Cut
  <2>4. b = <<>> \/ lost'
    <3>1. k = Len(out) => b = <<>>  BY <1>2, <2>3, EmptySeq
    <3>2. k = Len(out) \/ k < Len(out)  BY <1>2, <2>1
    <3>3. QED  BY <2>2, <3>1, <3>2
  <2>5. line' = line \o a \o Seen(b, level)  BY <2>1
  <2> HIDE DEF a, b
  <2>6. LeavesSome
    <3>1. CASE Seen(b, level) = <<>>
      <4>1. (line \o a) \o <<>> = line \o a
        <5>1. line \o a \in Seq(Pieces(MaxSent))  BY <1>2, <2>3, ConcatProperties
        <5>2. QED  BY <5>1, ConcatEmptySeq
      <4>2. line' = line \o a  BY <2>5, <3>1, <4>1, Zenon
      <4>3. QED  BY <2>3, <2>4, <4>2 DEF LeavesSome
    <3>2. CASE Seen(b, level) = b
      <4>1. (line \o a) \o b = line \o (a \o b)
        <5>1. \A x, y, z \in Seq(Pieces(MaxSent)) : (x \o y) \o z = x \o (y \o z)
          BY ConcatAssociative
        <5>2. QED  BY <1>2, <2>3, <5>1, Zenon
      <4>2. line' = line \o out  BY <2>3, <2>5, <3>2, <4>1, Zenon
      <4>3. QED  BY <1>2, <1>3, <4>2 DEF LeavesSome
    <3>3. QED  BY <3>1, <3>2 DEF Seen
  <2>7. QED  BY <2>2, <2>6 DEF DeviceClose
<1>5. CASE ~de
  <2>1. line' = line \o Seen(out, pin) /\ UNCHANGED <<de, pin, failed>>
    BY <1>5 DEF DeviceClose
  <2>2. FlagsTyped' /\ (lost => lost')  BY <1>1, <2>1 DEF FlagsTyped, failed
  <2>3. pin' = "high" => refused'  BY <1>5, <2>1 DEF BusReleased, failed
  <2>4. LeavesSome
    <3>1. CASE mode = "485" /\ pin = "low" /\ out # <<>>
      <4>1. line' = line \o <<>>  BY <2>1, <3>1 DEF Seen, Driving
      <4>2. lost'  BY <2>1, <3>1 DEF DriverOn, Typed, failed
      <4>3. QED  BY <1>2, <1>3, <4>1, <4>2 DEF LeavesSome
    <3>2. CASE ~(mode = "485" /\ pin = "low") \/ out = <<>>
      <4>1. line' = line \o out  BY <2>1, <3>2 DEF Seen, Driving
      <4>2. QED  BY <1>2, <1>3, <4>1 DEF LeavesSome
    <3>3. QED  BY <3>1, <3>2
  <2>5. QED  BY <1>5, <2>1, <2>2, <2>3, <2>4 DEF DeviceClose
<1>6. QED  BY <1>2, <1>4, <1>5

\* The end of uart_flush_send and of uart_send, when the kernel holds left and
\* rest is still to be written.
Written(rest, left) == IF Finished(rest) THEN TxDisable(left) ELSE TxEnabled(left)

LEMMA WrittenEffect ==
  ASSUME Typed, BusReleased, NEW rest, NEW left \in Seq(Pieces(MaxSent)), Written(rest, left)
  PROVE  /\ Parted(left) /\ FlagsTyped' /\ (lost => lost')
         /\ mode = "485" /\ out' # <<>> /\ pin' = "low" => cut'
         /\ de' => mode = "485" /\ rest # <<>>
         /\ pin' = "high" => de' \/ refused'
<1>1. FlagsTyped  BY Flags
<1>2. /\ line \in Seq(Pieces(MaxSent)) /\ Len(left) \in Nat /\ <<>> \in Seq(Pieces(MaxSent))
      /\ de \in BOOLEAN /\ pin \in {"low", "high"} /\ mode \in Modes /\ (de => mode = "485")
      /\ pin = "high" => de \/ refused
  BY LenProperties, EmptySeq DEF Typed, TypeOK, BusReleased
<1>3. line \o <<>> = line /\ <<>> \o left = left  BY <1>2, ConcatEmptySeq
\* Nothing goes out in the step.
<1>4. ASSUME out' = left, line' = line  PROVE Parted(left)
  <2>1. Len(left) <= Len(left)  BY <1>2
  <2>2. left = <<>> \o left /\ line' = line \o <<>> /\ out' = left  BY <1>3, <1>4, Zenon
  <2>3. QED  BY <1>2, <2>1, <2>2, Zenon DEF Parted
<1>5. CASE Finished(rest) /\ Driving
  <2>1. PICK k \in 0 .. Len(left), level \in {"low", "high"} :
          /\ LetGo(Len(left), k, level)
          /\ line' = line \o SubSeq(left, 1, k)
          /\ out' = SubSeq(left, k + 1, Len(left))
    BY <1>5 DEF Written, TxDisable
  <2>2. /\ de' = FALSE /\ pin' = level /\ cut' = (k < Len(left)) /\ refused' = (level = "high")
        /\ (lost => lost') /\ FlagsTyped'
    BY <1>1, <1>2, <2>1, LetGoEffect
  <2> DEFINE a == SubSeq(left, 1, k)
             b == SubSeq(left, k + 1, Len(left))
  <2>3. /\ a \in Seq(Pieces(MaxSent)) /\ b \in Seq(Pieces(MaxSent)) /\ a \o b = left
        /\ Len(b) = Len(left) - k
    BY <1>2, Cut
  <2>4. line' = line \o a /\ out' = b  BY <2>1
  <2> HIDE DEF a, b
  <2>5. Len(b) <= Len(left)  BY <1>2, <2>1, <2>3
  <2>6. b # <<>> => cut'
    <3>1. k = Len(left) => b = <<>>  BY <1>2, <2>3, EmptySeq
    <3>2. k = Len(left) \/ k < Len(left)  BY <1>2, <2>1
    <3>3. QED  BY <2>2, <3>1, <3>2
  <2>7. Parted(left)  BY <2>3, <2>4, <2>5, Zenon DEF Parted
  <2>8. QED  BY <2>2, <2>4, <2>6, <2>7
<1>6. CASE Finished(rest) /\ ~Driving
  <2>1. out' = left /\ UNCHANGED <<line, de, pin, failed>>  BY <1>6 DEF Written, TxDisable
  <2>2. mode # "485"  BY <1>6 DEF Driving
  <2>3. FlagsTyped' /\ UNCHANGED <<lost, cut, refused, de, pin>>  BY <1>1, <2>1 DEF FlagsTyped, failed
  <2>4. QED  BY <1>2, <1>4, <2>1, <2>2, <2>3
<1>7. CASE ~Finished(rest)
  <2>1. /\ out' = left /\ UNCHANGED <<line, failed>> /\ de' = Driving
        /\ pin' = IF Driving THEN "high" ELSE pin
    BY <1>7 DEF Written, TxEnabled
  <2>2. UNCHANGED <<lost, cut, refused, faults>>  BY <2>1 DEF failed
  <2>3. de' = (mode = "485") /\ pin' \in {"low", "high"}  BY <1>2, <2>1 DEF Driving
  <2>4. FlagsTyped'  BY <1>1, <2>2, <2>3 DEF FlagsTyped
  <2>5. mode = "485" => pin' = "high"  BY <2>1 DEF Driving
  <2>6. rest # <<>>  BY <1>7 DEF Finished
  <2>7. mode # "485" => pin' = pin  BY <2>1 DEF Driving
  <2>8. pin' = "high" => de' \/ refused'  BY <1>2, <2>2, <2>3, <2>7
  <2>9. QED  BY <1>4, <2>1, <2>2, <2>3, <2>4, <2>5, <2>6, <2>8
<1>8. QED  BY <1>5, <1>6, <1>7

\* What moves from a buffer to the UART keeps both within their sizes.
LEMMA MovedOut ==
  \A s, t \in Seq(Pieces(MaxSent)) : \A k :
    Len(s) <= OutCap /\ k = Min({Len(t), OutCap - Len(s)})
    => /\ s \o SubSeq(t, 1, k) \in Seq(Pieces(MaxSent)) /\ Len(s \o SubSeq(t, 1, k)) <= OutCap
       /\ SubSeq(t, k + 1, Len(t)) \in Seq(Pieces(MaxSent))
       /\ Len(SubSeq(t, k + 1, Len(t))) <= Len(t) /\ k \in 0 .. Len(t)
<1>1. OutCap \in Nat  BY UartAssumption DEF UartAssumption
<1>2. QED  BY <1>1, Moved

\* A frame that may still be sent is made of pieces of the right kind.
LEMMA NextFrame ==
  ASSUME Typed, sent < MaxSent
  PROVE  /\ Frame(sent + 1) \in Seq(Pieces(MaxSent)) /\ Len(Frame(sent + 1)) = Parts
         /\ sent + 1 \in Nat /\ sent + 1 <= MaxSent
<1>1. sent \in Nat /\ MaxSent \in Nat  BY UartAssumption DEF Typed, TypeOK, UartAssumption
<1>2. QED  BY <1>1, FrameInBounds DEF Pieces

-----------------------------------------------------------------------------
(* Types                                                                     *)

\* Empty buffers are of the right type and size.
LEMMA Empty ==
  /\ <<>> \in Seq(Pieces(MaxSent)) /\ <<>> \in Seq(Pieces(MaxHeard))
  /\ <<>> \in Seq(Nat) /\ <<>> \in Seq(1 .. MaxHeard)
  /\ Len(<<>>) <= SendCap /\ Len(<<>>) <= OutCap /\ Len(<<>>) <= InCap
  /\ Len(<<>>) <= RxCap /\ Len(<<>>) < Parts
<1>1. /\ Parts \in Nat \ {0} /\ SendCap \in Nat /\ OutCap \in Nat /\ InCap \in Nat /\ RxCap \in Nat
  BY FramingAssumption, UartAssumption DEF FramingAssumption, UartAssumption, RxCap
<1>2. \A S : <<>> \in Seq(S)  BY EmptySeq
<1>3. Len(<<>>) = 0  OBVIOUS
<1>4. /\ Len(<<>>) <= SendCap /\ Len(<<>>) <= OutCap /\ Len(<<>>) <= InCap
      /\ Len(<<>>) <= RxCap /\ Len(<<>>) < Parts
  BY <1>1, <1>3
<1>5. QED  BY <1>2, <1>4, Zenon

LEMMA InitTyped == Init => Typed /\ DriverOn /\ BusReleased
<1> SUFFICES ASSUME Init  PROVE Typed /\ DriverOn /\ BusReleased  OBVIOUS
<1>1. /\ mode \in Modes /\ present = TRUE /\ fd = "live" /\ de = FALSE /\ queue = <<>> /\ off = 0
      /\ watchOut = FALSE /\ retry = 0 /\ armed = FALSE /\ timer = "off" /\ rx = <<>> /\ step = "idle"
      /\ pin = "low" /\ out = <<>> /\ in = <<>> /\ sent = 0 /\ taken = <<>> /\ line = <<>>
      /\ heard = 0 /\ given = <<>> /\ lost = FALSE /\ cut = FALSE /\ refused = FALSE /\ faults = 0
  BY DEF Init
<1>2. /\ queue \in Seq(Pieces(MaxSent)) /\ Len(queue) <= SendCap
      /\ rx \in Seq(Pieces(MaxHeard)) /\ Len(rx) <= RxCap /\ Len(rx) < Parts
      /\ out \in Seq(Pieces(MaxSent)) /\ Len(out) <= OutCap
      /\ in \in Seq(Pieces(MaxHeard)) /\ Len(in) <= InCap /\ given \in Seq(1 .. MaxHeard)
      /\ line \in Seq(Pieces(MaxSent)) /\ taken \in Seq(Nat)
  BY <1>1, Empty, Zenon
<1>3. sent <= MaxSent /\ heard <= MaxHeard * Parts
  <2>1. MaxSent \in Nat /\ MaxHeard * Parts \in Nat
    BY FramingAssumption, UartAssumption DEF FramingAssumption, UartAssumption
  <2>2. QED  BY <1>1, <2>1
<1>4. TypeOK
  <2>1. {sent, heard, faults} \subseteq Nat /\ off \in Nat /\ retry \in Nat  BY <1>1
  <2>2. fd \in {"none", "live", "hung"} /\ timer \in {"off", "set"} /\ pin \in {"low", "high"}
    BY <1>1
  <2>3. /\ step \in {"idle", "read", "parse", "stopped", "crashed"} /\ step # "read"
        /\ present \in BOOLEAN /\ de \in BOOLEAN /\ watchOut \in BOOLEAN /\ armed \in BOOLEAN
        /\ {lost, cut, refused} \subseteq BOOLEAN /\ timer # "set"
    BY <1>1
  <2>4. QED  BY <1>1, <1>2, <2>1, <2>2, <2>3, Zenon DEF TypeOK
<1>5. QED  BY <1>1, <1>2, <1>3, <1>4 DEF Typed, DriverOn, BusReleased

\* The timer of uart_timer_arm
LEMMA TimerTypes ==
  ASSUME NEW delay, NEW was \in {"off", "set"}
  PROVE  ArmTimer(delay, was) \in {"off", "set"}
BY DEF ArmTimer

\* rx_buf when a frame is looked for.
LEMMA ParseTypes ==
  ASSUME Typed
  PROVE  /\ Whole(rx) => /\ rx[1].n \in 1 .. MaxHeard /\ Consumed(rx) \in Seq(Pieces(MaxHeard))
                         /\ Len(Consumed(rx)) <= Len(rx) - Parts
         /\ ~Whole(rx) /\ ~Bad(rx) => Len(rx) < Parts
<1>1. Parts \in Nat \ {0}  BY FramingAssumption DEF FramingAssumption
<1>2. rx \in Seq(Pieces(MaxHeard)) /\ Len(rx) \in Nat  BY LenProperties DEF Typed, TypeOK
<1>3. ASSUME Whole(rx)
      PROVE  /\ rx[1].n \in 1 .. MaxHeard /\ Consumed(rx) \in Seq(Pieces(MaxHeard))
             /\ Len(Consumed(rx)) <= Len(rx) - Parts
  <2>1. Len(rx) >= Parts  BY <1>3 DEF Whole
  <2>2. 1 \in 1 .. Len(rx) /\ Parts \in 0 .. Len(rx)  BY <1>1, <1>2, <2>1
  <2>3. rx[1] \in Pieces(MaxHeard)  BY <1>2, <2>2, ElementOfSeq
  <2>4. /\ Consumed(rx) \in Seq(Pieces(MaxHeard)) /\ Len(Consumed(rx)) = Len(rx) - Parts
    BY <1>2, <2>2, Cut DEF Consumed
  <2>5. QED  BY <1>1, <1>2, <2>3, <2>4 DEF Pieces
<1>4. ASSUME ~Whole(rx), ~Bad(rx)  PROVE Len(rx) < Parts
  <2>1. rx = <<>> \/ ~(Len(rx) >= Parts)  BY <1>4 DEF Bad
  <2>2. rx = <<>> => Len(rx) = 0  BY EmptySeq
  <2>3. QED  BY <1>1, <1>2, <2>1, <2>2
<1>5. QED  BY <1>3, <1>4

LEMMA TypedStep ==
  ASSUME Typed, DriverOn, BusReleased, [Next]_vars
  PROVE  Typed'
<1> USE DEF port, clock, kernel, history, failed
<1>0. TypeOK /\ sent <= MaxSent /\ heard <= MaxHeard * Parts /\ (de => mode = "485")
      /\ line \in Seq(Pieces(MaxSent)) /\ taken \in Seq(Nat)
      /\ (step = "idle" => Len(rx) < Parts) /\ (cut => lost)
  BY DEF Typed
<1>c. /\ Parts \in Nat \ {0} /\ SendCap \in Nat \ {0} /\ OutCap \in Nat \ {0} /\ InCap \in Nat \ {0}
      /\ MaxSent \in Nat /\ MaxHeard \in Nat /\ MaxFaults \in Nat
  BY FramingAssumption, UartAssumption DEF FramingAssumption, UartAssumption
<1>e. <<>> \in Seq(Pieces(MaxSent)) /\ <<>> \in Seq(Pieces(MaxHeard)) /\ Len(<<>>) = 0
  BY EmptySeq
<1>l. Len(rx) \in Nat /\ Len(out) \in Nat /\ Len(in) \in Nat /\ Len(queue) \in Nat
  BY <1>0, LenProperties DEF TypeOK
<1>n. sent \in Nat /\ heard \in Nat /\ faults \in Nat  BY <1>0 DEF TypeOK
\* Once a write has been shared between line and UART
<1>w. ASSUME NEW left \in Seq(Pieces(MaxSent)), Len(left) <= OutCap, Parted(left)
      PROVE  /\ line' \in Seq(Pieces(MaxSent))
             /\ out' \in Seq(Pieces(MaxSent)) /\ Len(out') <= OutCap
  <2>1. PICK a \in Seq(Pieces(MaxSent)), b \in Seq(Pieces(MaxSent)) :
          line' = line \o a /\ out' = b /\ Len(b) <= Len(left)
    BY <1>w DEF Parted
  <2>2. line \o a \in Seq(Pieces(MaxSent))  BY <1>0, ConcatProperties
  <2>3. Len(b) \in Nat /\ Len(left) \in Nat  BY LenProperties
  <2>4. Len(b) <= OutCap  BY <1>c, <1>w, <2>1, <2>3
  <2>5. QED  BY <2>1, <2>2, <2>4, Zenon
\* What leaves when the port is closed
<1>v. ASSUME LeavesSome  PROVE line' \in Seq(Pieces(MaxSent))
  <2>1. PICK a \in Seq(Pieces(MaxSent)) : line' = line \o a  BY <1>v DEF LeavesSome
  <2>2. QED  BY <1>0, <2>1, ConcatProperties
\* uart_schedule_reopen
<1>1. ASSUME ScheduleReopen, UNCHANGED <<mode, present, rx, heard, given, taken>>,
             sent' \in Nat, sent' <= MaxSent,
             step' = step \/ (step = "read" /\ step' = "idle")
      PROVE  Typed'
  <2>1. /\ DeviceClose /\ armed' = TRUE /\ retry' = retry + 1 /\ UNCHANGED <<queue, off>>
        /\ timer' = ArmTimer(ReopenDelay, timer)
    BY <1>1 DEF ScheduleReopen, TimerArm
  <2>2. /\ fd' = "none" /\ watchOut' = FALSE /\ in' = <<>> /\ out' = <<>> /\ de' = FALSE
        /\ FlagsTyped' /\ LeavesSome
    BY <2>1, CloseEffect
  <2>f. /\ pin' \in {"low", "high"} /\ faults' \in Nat /\ (cut' => lost')
        /\ {lost', cut', refused'} \subseteq BOOLEAN
    BY <2>2 DEF FlagsTyped
  <2>3. timer' \in {"off", "set"}  BY <1>0, <2>1, TimerTypes DEF TypeOK
  <2>4. line' \in Seq(Pieces(MaxSent))  BY <1>v, <2>2
  <2>e. /\ out' \in Seq(Pieces(MaxSent)) /\ Len(out') <= OutCap
        /\ in' \in Seq(Pieces(MaxHeard)) /\ Len(in') <= InCap
    BY <2>2, Empty, Zenon
  <2>5. TypeOK'
    <3>1. /\ UNCHANGED <<mode, present, queue, off, rx, heard, given>>
          /\ fd' = "none" /\ watchOut' = FALSE /\ de' = FALSE /\ armed' = TRUE
      BY <1>1, <2>1, <2>2
    <3>2. {sent', heard', faults'} \subseteq Nat /\ retry' \in Nat
      BY <1>0, <1>1, <2>1, <2>f DEF TypeOK
    <3>3. step' \in {"idle", "read", "parse", "stopped", "crashed"} /\ (step' = "read" => step = "read")
      BY <1>0, <1>1 DEF TypeOK
    <3>4. QED  BY <1>0, <2>2, <2>3, <2>e, <2>f, <3>1, <3>2, <3>3, Zenon DEF TypeOK
  <2>6. QED  BY <1>0, <1>1, <2>2, <2>4, <2>5, <2>f DEF Typed, TypeOK
<1>2. CASE Reopen
  BY <1>0, <1>2, <1>n DEF Reopen, DeviceOpen, Watch, Typed, TypeOK
<1>3. CASE ReopenFails
  <2>1. timer' \in {"off", "set"} /\ armed' = TRUE /\ retry' = retry + 1
    BY <1>3, TimerTypes DEF ReopenFails, TriesAgain, TimerArm
  <2>2. TypeOK'  BY <1>0, <1>3, <2>1 DEF ReopenFails, TypeOK
  <2>3. QED  BY <1>0, <1>3, <2>2 DEF ReopenFails, Typed
<1>4. CASE HangUp
  BY <1>0, <1>1, <1>4, <1>n DEF HangUp
<1>5. CASE Flush
  <2> DEFINE m == Min({Len(queue), OutCap - Len(out)})
             rest == SubSeq(queue, m + 1, Len(queue))
             left == out \o SubSeq(queue, 1, m)
  <2>1. /\ queue' = rest /\ off' = (IF rest = <<>> THEN 0 ELSE off + m)
        /\ watchOut' = Watch(rest) /\ step' = "read" /\ step = "idle"
        /\ Written(rest, left)
        /\ UNCHANGED <<mode, present, fd, retry, armed, timer, rx, in, sent, taken, heard, given>>
    BY <1>5 DEF Flush, CanFlush, Written
  <2>2. out \in Seq(Pieces(MaxSent)) /\ queue \in Seq(Pieces(MaxSent)) /\ Len(out) <= OutCap
    BY <1>0 DEF TypeOK
  <2>m. m = Min({Len(queue), OutCap - Len(out)}) /\ OutCap \in Nat  BY <1>c
  <2> HIDE DEF m
  <2>3. /\ left \in Seq(Pieces(MaxSent)) /\ Len(left) <= OutCap
        /\ rest \in Seq(Pieces(MaxSent)) /\ Len(rest) <= Len(queue) /\ m \in 0 .. Len(queue)
    BY <2>2, <2>m, MovedOut, Zenon
  <2> HIDE DEF rest, left
  <2>4. /\ Parted(left) /\ FlagsTyped' /\ (de' => mode = "485")
    BY <2>1, <2>3, WrittenEffect
  <2>f. /\ de' \in BOOLEAN /\ pin' \in {"low", "high"} /\ faults' \in Nat /\ (cut' => lost')
        /\ {lost', cut', refused'} \subseteq BOOLEAN
    BY <2>4 DEF FlagsTyped
  <2>5. line' \in Seq(Pieces(MaxSent)) /\ out' \in Seq(Pieces(MaxSent)) /\ Len(out') <= OutCap
    BY <1>w, <2>3, <2>4
  <2>6. Len(rest) \in Nat /\ Len(rest) <= SendCap
    BY <1>0, <1>c, <1>l, <2>3, LenProperties DEF TypeOK
  <2>7. off' \in Nat /\ watchOut' \in BOOLEAN  BY <1>0, <1>l, <2>1, <2>3 DEF TypeOK, Watch
  <2>8. TypeOK'  BY <1>0, <2>1, <2>3, <2>5, <2>6, <2>7, <2>f DEF TypeOK
  <2>9. QED  BY <1>0, <2>1, <2>4, <2>5, <2>8, <2>f DEF Typed
<1>6. CASE FlushRefused
  <2>1. faults' \in Nat  BY <1>6, <1>n DEF FlushRefused, CannotDrive, Fault
  <2>2. QED  BY <1>0, <1>6, <2>1 DEF FlushRefused, CanFlush, Typed, TypeOK
<1>7. CASE Readable
  BY <1>0, <1>7 DEF Readable, Typed, TypeOK
<1>8. CASE Recv
  <2> DEFINE m == Min({Len(in), RxCap - Len(rx)})
             more == rx \o SubSeq(in, 1, m)
             rest == SubSeq(in, m + 1, Len(in))
  <2>1. rx' = more /\ in' = rest /\ step' = "parse"
        /\ UNCHANGED <<mode, present, port, clock, pin, out, history>>
    BY <1>8 DEF Recv
  <2>2. rx \in Seq(Pieces(MaxHeard)) /\ in \in Seq(Pieces(MaxHeard)) /\ Len(rx) <= RxCap /\ RxCap \in Nat
    BY <1>0, <1>c DEF TypeOK, RxCap
  <2>m. m = Min({Len(in), RxCap - Len(rx)})  OBVIOUS
  <2> HIDE DEF m
  <2>3. /\ more \in Seq(Pieces(MaxHeard)) /\ Len(more) <= RxCap
        /\ rest \in Seq(Pieces(MaxHeard)) /\ Len(rest) <= Len(in)
    BY <2>2, <2>m, Moved, ZenonT(40)
  <2> HIDE DEF more, rest
  <2>4. Len(rest) \in Nat /\ Len(rest) <= InCap
    BY <1>0, <1>c, <1>l, <2>3, LenProperties DEF TypeOK
  <2>5. TypeOK'  BY <1>0, <2>1, <2>3, <2>4 DEF TypeOK
  <2>6. QED  BY <1>0, <2>1, <2>5 DEF Typed
<1>9. CASE RecvNothing
  BY <1>0, <1>9 DEF RecvNothing, Typed, TypeOK
<1>10. CASE RecvLost
  BY <1>0, <1>1, <1>10, <1>n DEF RecvLost, Listening
<1>11. CASE ParseFrame
  <2>1. /\ rx[1].n \in 1 .. MaxHeard /\ Consumed(rx) \in Seq(Pieces(MaxHeard))
        /\ Len(Consumed(rx)) <= Len(rx) - Parts
    BY <1>11, ParseTypes DEF ParseFrame
  <2>2. Len(Consumed(rx)) \in Nat /\ RxCap \in Nat  BY <1>c, <2>1, LenProperties DEF RxCap
  <2>3. Len(Consumed(rx)) <= RxCap  BY <1>0, <1>c, <1>l, <2>1, <2>2 DEF TypeOK
  <2>4. given' \in Seq(1 .. MaxHeard)
    BY <1>0, <1>11, <2>1, AppendProperties DEF ParseFrame, TypeOK
  <2>5. TypeOK'  BY <1>0, <1>11, <2>1, <2>3, <2>4 DEF ParseFrame, TypeOK
  <2>6. QED  BY <1>0, <1>11, <2>5 DEF ParseFrame, Typed
<1>12. CASE ParseEnds
  <2>1. CASE Bad(rx)
    <3>1. rx' = <<>> /\ step' = "idle" /\ RxCap \in Nat /\ 0 <= RxCap
      BY <1>12, <1>c, <2>1 DEF ParseEnds, RxCap
    <3>2. TypeOK'  BY <1>0, <1>12, <1>c, <1>e, <3>1 DEF ParseEnds, TypeOK
    <3>3. QED  BY <1>0, <1>12, <1>c, <1>e, <3>1, <3>2 DEF ParseEnds, Typed
  <2>2. CASE ~Bad(rx)
    <3>1. rx' = rx /\ step' = "read" /\ Len(rx) < Parts
      BY <1>12, <2>2, ParseTypes DEF ParseEnds
    <3>2. TypeOK'  BY <1>0, <1>12, <3>1 DEF ParseEnds, TypeOK
    <3>3. QED  BY <1>0, <1>12, <3>1, <3>2 DEF ParseEnds, Typed
  <2>3. QED  BY <2>1, <2>2
<1>13. CASE SendRefused
  <2>1. faults' \in Nat /\ sent' \in Nat /\ sent' <= MaxSent
    BY <1>13, <1>c, <1>n DEF SendRefused, Sends, CannotDrive, Fault
  <2>2. UNCHANGED <<mode, present, port, clock, rx, step, kernel, taken, line, heard, given, lost, cut, refused>>
    BY <1>13 DEF SendRefused, Sends
  <2>3. TypeOK'  BY <1>0, <2>1, <2>2 DEF TypeOK
  <2>4. QED  BY <1>0, <2>1, <2>2, <2>3 DEF Typed
<1>14. CASE SendNow
  <2> DEFINE m == Min({Parts, OutCap - Len(out)})
             frame == Frame(sent + 1)
             rest == queue \o SubSeq(frame, m + 1, Parts)
             left == out \o SubSeq(frame, 1, m)
  <2>1. /\ queue' = rest /\ queue = <<>> /\ watchOut' = Watch(rest)
        /\ Written(rest, left) /\ taken' = Append(taken, sent + 1) /\ sent' = sent + 1 /\ sent < MaxSent
        /\ UNCHANGED <<mode, present, rx, heard, given, fd, off, retry, armed, timer, step, in>>
    BY <1>14 DEF SendNow, Sends, Direct, Written
  <2>2. frame \in Seq(Pieces(MaxSent)) /\ Len(frame) = Parts /\ sent + 1 \in Nat /\ sent + 1 <= MaxSent
    BY <2>1, NextFrame
  <2>3. out \in Seq(Pieces(MaxSent)) /\ Len(out) <= OutCap  BY <1>0 DEF TypeOK
  <2> DEFINE b == SubSeq(frame, m + 1, Parts)
  <2> HIDE DEF frame
  <2>4. /\ left \in Seq(Pieces(MaxSent)) /\ Len(left) <= OutCap
        /\ b \in Seq(Pieces(MaxSent)) /\ Len(b) <= Parts
    <3>1. m = Min({Len(frame), OutCap - Len(out)}) /\ OutCap \in Nat  BY <1>c, <2>2
    <3> HIDE DEF m
    <3>2. /\ out \o SubSeq(frame, 1, m) \in Seq(Pieces(MaxSent))
          /\ Len(out \o SubSeq(frame, 1, m)) <= OutCap
          /\ SubSeq(frame, m + 1, Len(frame)) \in Seq(Pieces(MaxSent))
          /\ Len(SubSeq(frame, m + 1, Len(frame))) <= Len(frame)
      BY <2>2, <2>3, <3>1, MovedOut, Zenon
    <3>3. QED  BY <2>2, <3>2
  <2> HIDE DEF b, left, m
  <2>5. rest = b  BY <2>1, <2>4, ConcatEmptySeq DEF b
  <2> HIDE DEF rest
  <2>6. /\ Parted(left) /\ FlagsTyped' /\ (de' => mode = "485")
    BY <2>1, <2>4, WrittenEffect
  <2>f. /\ de' \in BOOLEAN /\ pin' \in {"low", "high"} /\ faults' \in Nat /\ (cut' => lost')
        /\ {lost', cut', refused'} \subseteq BOOLEAN
    BY <2>6 DEF FlagsTyped
  <2>7. line' \in Seq(Pieces(MaxSent)) /\ out' \in Seq(Pieces(MaxSent)) /\ Len(out') <= OutCap
    BY <1>w, <2>4, <2>6
  <2>8. watchOut' \in BOOLEAN /\ taken' \in Seq(Nat)
    BY <1>0, <2>1, <2>2, AppendProperties DEF Watch
  <2>9. Len(rest) <= SendCap
    <3>1. Parts <= SendCap  BY UartAssumption DEF UartAssumption
    <3>2. Len(b) \in Nat  BY <2>4, LenProperties
    <3>3. QED  BY <1>c, <2>4, <2>5, <3>1, <3>2
  <2>10. TypeOK'  BY <1>0, <1>n, <2>1, <2>2, <2>4, <2>5, <2>7, <2>8, <2>9, <2>f DEF TypeOK
  <2>11. QED  BY <1>0, <2>1, <2>2, <2>6, <2>7, <2>8, <2>10, <2>f DEF Typed
<1>15. CASE SendFails
  <2>1. sent' \in Nat /\ sent' <= MaxSent  BY <1>15, <1>c, <1>n DEF SendFails, Sends
  <2>2. QED  BY <1>1, <1>15, <2>1 DEF SendFails, Sends
<1>16. CASE SendLater
  <2>1. /\ queue' = queue \o Frame(sent + 1) /\ Len(queue) + Parts <= SendCap
        /\ watchOut' = Watch(queue') /\ taken' = Append(taken, sent + 1) /\ sent' = sent + 1
        /\ sent < MaxSent /\ step' \in {step, "crashed"}
        /\ UNCHANGED <<mode, present, rx, heard, given, fd, de, off, clock, kernel, line, failed>>
    BY <1>16 DEF SendLater, Sends, FitsQueue
  <2>2. /\ Frame(sent + 1) \in Seq(Pieces(MaxSent)) /\ Len(Frame(sent + 1)) = Parts
        /\ sent + 1 \in Nat /\ sent + 1 <= MaxSent
    BY <2>1, NextFrame
  <2>3. queue' \in Seq(Pieces(MaxSent)) /\ Len(queue') <= SendCap
    BY <1>0, <1>l, <2>1, <2>2, ConcatProperties DEF TypeOK
  <2>4. watchOut' \in BOOLEAN /\ taken' \in Seq(Nat)
    BY <1>0, <2>1, <2>2, AppendProperties DEF Watch
  <2>5. TypeOK'  BY <1>0, <1>n, <2>1, <2>2, <2>3, <2>4 DEF TypeOK
  <2>6. QED  BY <1>0, <2>1, <2>2, <2>4, <2>5 DEF Typed
<1>17. CASE Stop
  <2>1. /\ fd' = "none" /\ watchOut' = FALSE /\ in' = <<>> /\ out' = <<>> /\ de' = FALSE
        /\ FlagsTyped' /\ LeavesSome
    BY <1>17, CloseEffect DEF Stop
  <2>f. /\ pin' \in {"low", "high"} /\ faults' \in Nat /\ (cut' => lost')
        /\ {lost', cut', refused'} \subseteq BOOLEAN
    BY <2>1 DEF FlagsTyped
  <2>2. line' \in Seq(Pieces(MaxSent))  BY <1>v, <2>1
  <2>e. /\ out' \in Seq(Pieces(MaxSent)) /\ Len(out') <= OutCap
        /\ in' \in Seq(Pieces(MaxHeard)) /\ Len(in') <= InCap
        /\ queue' \in Seq(Pieces(MaxSent)) /\ Len(queue') <= SendCap
    <3>1. queue' = <<>>  BY <1>17 DEF Stop
    <3>2. QED  BY <2>1, <3>1, Empty, Zenon
  <2>3. TypeOK'  BY <1>0, <1>17, <2>1, <2>e, <2>f DEF Stop, TypeOK
  <2>4. QED  BY <1>0, <1>17, <2>1, <2>2, <2>3, <2>f DEF Stop, Typed
<1>18. CASE DeviceLost
  <2>1. faults' \in Nat /\ fd' \in {"none", "live", "hung"} /\ (fd = "none" => fd' = "none")
    BY <1>0, <1>18, <1>n DEF DeviceLost, Fault, TypeOK
  <2>e. /\ out' \in Seq(Pieces(MaxSent)) /\ Len(out') <= OutCap
        /\ in' \in Seq(Pieces(MaxHeard)) /\ Len(in') <= InCap
    <3>1. out' = <<>> /\ in' = <<>>  BY <1>18 DEF DeviceLost
    <3>2. QED  BY <3>1, Empty, Zenon
  <2>2. TypeOK'  BY <1>0, <1>18, <2>1, <2>e DEF DeviceLost, TypeOK
  <2>3. QED  BY <1>0, <1>18, <2>2 DEF DeviceLost, Typed
<1>19. CASE DeviceBack
  BY <1>0, <1>19 DEF DeviceBack, Typed, TypeOK
<1>20. CASE Shift
  <2>1. /\ Head(out) \in Pieces(MaxSent) /\ Tail(out) \in Seq(Pieces(MaxSent))
        /\ Len(Tail(out)) = Len(out) - 1
    BY <1>0, <1>20, FirstAndRest DEF Shift, TypeOK
  <2>2. line' \in Seq(Pieces(MaxSent))
    <3>1. <<Head(out)>> \in Seq(Pieces(MaxSent)) /\ <<>> \in Seq(Pieces(MaxSent))
      BY <1>e, <2>1
    <3>2. Seen(<<Head(out)>>, pin) \in Seq(Pieces(MaxSent))  BY <3>1 DEF Seen
    <3>3. line' = line \o Seen(<<Head(out)>>, pin)  BY <1>20 DEF Shift
    <3>4. QED  BY <1>0, <3>2, <3>3, ConcatProperties
  <2>3. Len(Tail(out)) <= OutCap  BY <1>0, <1>c, <1>l, <2>1 DEF TypeOK
  <2>4. TypeOK'  BY <1>0, <1>20, <2>1, <2>3 DEF Shift, TypeOK
  <2>5. QED  BY <1>0, <1>20, <2>2, <2>4 DEF Shift, Typed
<1>21. CASE Arrives
  <2> DEFINE x == [n |-> (heard \div Parts) + 1, part |-> (heard % Parts) + 1]
  <2>1. heard < MaxHeard * Parts /\ heard' = heard + 1 /\ MaxHeard * Parts \in Nat
    BY <1>21, <1>c DEF Arrives
  <2>2. x \in Pieces(MaxHeard)  BY <1>c, <1>n, <2>1, PieceNumber DEF Pieces
  <2>3. (in' = Append(in, x) /\ Len(in) < InCap) \/ in' = in  BY <1>21 DEF Arrives
  <2> HIDE DEF x
  <2>4. in' \in Seq(Pieces(MaxHeard)) /\ Len(in') <= InCap
    <3>1. in \in Seq(Pieces(MaxHeard)) /\ Len(in) <= InCap  BY <1>0 DEF TypeOK
    <3>2. Append(in, x) \in Seq(Pieces(MaxHeard)) /\ Len(Append(in, x)) = Len(in) + 1
      BY <2>2, <3>1, AppendProperties
    <3>3. QED  BY <1>c, <1>l, <2>3, <3>1, <3>2
  <2>5. heard' \in Nat /\ heard' <= MaxHeard * Parts  BY <1>n, <2>1
  <2>6. TypeOK'  BY <1>0, <1>21, <2>4, <2>5 DEF Arrives, TypeOK
  <2>7. QED  BY <1>0, <1>21, <2>5, <2>6 DEF Arrives, Typed
<1>22. CASE UNCHANGED vars
  BY <1>0, <1>22 DEF vars, Typed, TypeOK
<1>23. QED
  BY <1>2, <1>3, <1>4, <1>5, <1>6, <1>7, <1>8, <1>9, <1>10, <1>11, <1>12, <1>13, <1>14, <1>15,
     <1>16, <1>17, <1>18, <1>19, <1>20, <1>21, <1>22 DEF Next, Works

-----------------------------------------------------------------------------
(* The direction of the line                                                 *)

LEMMA DriverStep ==
  ASSUME Typed, DriverOn, BusReleased, [Next]_vars
  PROVE  DriverOn' /\ BusReleased'
<1> USE DEF port, clock, kernel, history, failed
<1>0. /\ de \in BOOLEAN /\ pin \in {"low", "high"} /\ mode \in Modes
      /\ mode = "485" /\ out # <<>> /\ pin = "low" => cut
      /\ de => fd # "none" /\ queue # <<>> /\ mode = "485"
      /\ pin = "high" => de \/ refused
  BY DEF Typed, TypeOK, DriverOn, BusReleased
\* Nothing that the two are about changes.
<1>1. ASSUME UNCHANGED <<mode, de, pin, out, queue, cut, refused>>, fd' = fd \/ fd' # "none"
      PROVE  DriverOn' /\ BusReleased'
  BY <1>0, <1>1 DEF DriverOn, BusReleased
\* uart_device_close
<1>2. ASSUME DeviceClose, UNCHANGED mode  PROVE DriverOn' /\ BusReleased'
  <2>1. out' = <<>> /\ de' = FALSE /\ (pin' = "high" => refused')
    BY <1>2, CloseEffect
  <2>2. QED  BY <1>0, <2>1 DEF DriverOn, BusReleased
\* uart_flush_send and uart_send
<1>3. ASSUME NEW rest, NEW left \in Seq(Pieces(MaxSent)), Written(rest, left), queue' = rest,
             UNCHANGED <<mode, fd>>, fd = "live"
      PROVE  DriverOn' /\ BusReleased'
  BY <1>3, WrittenEffect DEF DriverOn, BusReleased
<1>4. CASE Reopen  BY <1>1, <1>4 DEF Reopen, DeviceOpen
<1>5. CASE ReopenFails  BY <1>1, <1>5 DEF ReopenFails
<1>6. CASE HangUp  BY <1>2, <1>6 DEF HangUp, ScheduleReopen
<1>7. CASE Flush
  <2> DEFINE m == Min({Len(queue), OutCap - Len(out)})
             rest == SubSeq(queue, m + 1, Len(queue))
             left == out \o SubSeq(queue, 1, m)
  <2>1. queue' = rest /\ Written(rest, left) /\ UNCHANGED <<mode, fd>> /\ fd = "live"
    BY <1>7 DEF Flush, CanFlush, Written
  <2>2. left \in Seq(Pieces(MaxSent))
    <3>1. /\ out \in Seq(Pieces(MaxSent)) /\ queue \in Seq(Pieces(MaxSent)) /\ Len(out) <= OutCap
          /\ m = Min({Len(queue), OutCap - Len(out)})
      BY DEF Typed, TypeOK
    <3> HIDE DEF m
    <3>2. QED  BY <3>1, MovedOut, Zenon
  <2> HIDE DEF rest, left
  <2>3. QED  BY <1>3, <2>1, <2>2
<1>8. CASE FlushRefused
  BY <1>1, <1>8 DEF FlushRefused, CannotDrive, Fault
<1>9. CASE Readable  BY <1>1, <1>9 DEF Readable
<1>10. CASE Recv  BY <1>1, <1>10 DEF Recv
<1>11. CASE RecvNothing  BY <1>1, <1>11 DEF RecvNothing
<1>12. CASE RecvLost  BY <1>2, <1>12 DEF RecvLost, ScheduleReopen
<1>13. CASE ParseFrame  BY <1>1, <1>13 DEF ParseFrame
<1>14. CASE ParseEnds  BY <1>1, <1>14 DEF ParseEnds
<1>15. CASE SendRefused
  BY <1>1, <1>15 DEF SendRefused, Sends, CannotDrive, Fault
<1>16. CASE SendNow
  <2> DEFINE m == Min({Parts, OutCap - Len(out)})
             rest == queue \o SubSeq(Frame(sent + 1), m + 1, Parts)
             left == out \o SubSeq(Frame(sent + 1), 1, m)
  <2>1. queue' = rest /\ Written(rest, left) /\ UNCHANGED <<mode, fd>> /\ fd = "live"
    BY <1>16 DEF SendNow, Sends, Written
  <2>2. left \in Seq(Pieces(MaxSent))
    <3>1. Frame(sent + 1) \in Seq(Pieces(MaxSent)) /\ Len(Frame(sent + 1)) = Parts
      BY <1>16, NextFrame DEF SendNow, Sends
    <3>2. /\ out \in Seq(Pieces(MaxSent)) /\ Len(out) <= OutCap
          /\ m = Min({Len(Frame(sent + 1)), OutCap - Len(out)})
      BY <3>1 DEF Typed, TypeOK
    <3> HIDE DEF m
    <3>3. QED  BY <3>1, <3>2, MovedOut, Zenon
  <2> HIDE DEF rest, left
  <2>3. QED  BY <1>3, <2>1, <2>2
<1>17. CASE SendFails  BY <1>2, <1>17 DEF SendFails, Sends, ScheduleReopen
<1>18. CASE SendLater
  <2>1. /\ queue' = queue \o Frame(sent + 1) /\ UNCHANGED <<mode, fd, de, pin, out, cut, refused>>
        /\ queue # <<>> /\ sent < MaxSent
    BY <1>18 DEF SendLater, Sends, Direct
  <2>2. queue \o Frame(sent + 1) # <<>>
    <3>1. queue \in Seq(Pieces(MaxSent)) /\ Frame(sent + 1) \in Seq(Pieces(MaxSent))
      BY <2>1, NextFrame DEF Typed, TypeOK
    <3>2. Len(queue) \in Nat \ {0} /\ Len(Frame(sent + 1)) \in Nat
      BY <2>1, <3>1, LenProperties, EmptySeq
    <3>3. Len(queue \o Frame(sent + 1)) = Len(queue) + Len(Frame(sent + 1))
      BY <3>1, ConcatProperties
    <3>4. Len(queue \o Frame(sent + 1)) # 0  BY <3>2, <3>3
    <3>5. Len(<<>>) = 0  OBVIOUS
    <3>6. QED  BY <3>4, <3>5, Zenon
  <2>3. QED  BY <1>0, <2>1, <2>2 DEF DriverOn, BusReleased
<1>19. CASE Stop  BY <1>2, <1>19 DEF Stop
<1>20. CASE DeviceLost
  <2>1. UNCHANGED <<mode, de, pin, queue, cut, refused>> /\ out' = <<>>
        /\ (fd' = fd \/ fd' # "none")
    BY <1>20 DEF DeviceLost, Fault
  <2>2. QED  BY <1>0, <2>1 DEF DriverOn, BusReleased
<1>21. CASE DeviceBack  BY <1>1, <1>21 DEF DeviceBack
<1>22. CASE Shift
  BY <1>0, <1>22 DEF Shift, DriverOn, BusReleased
<1>23. CASE Arrives  BY <1>1, <1>23 DEF Arrives
<1>24. CASE UNCHANGED vars  BY <1>1, <1>24 DEF vars
<1>25. QED
  BY <1>4, <1>5, <1>6, <1>7, <1>8, <1>9, <1>10, <1>11, <1>12, <1>13, <1>14, <1>15, <1>16, <1>17,
     <1>18, <1>19, <1>20, <1>21, <1>22, <1>23, <1>24 DEF Next, Works

Driven == Typed /\ DriverOn /\ BusReleased

LEMMA AlwaysDriven == Spec => []Driven
<1>1. Init => Driven  BY InitTyped DEF Driven
<1>2. Driven /\ [Next]_vars => Driven'  BY TypedStep, DriverStep DEF Driven
<1>3. QED  BY <1>1, <1>2, PTL DEF Spec

\* The types, and how much each buffer holds: uart_send never accepts more unsent
\* bytes than send_buf has room for and the receive loop never reads more than
\* rx_buf has, however much a read or a write moves.  It is no bound on send_len,
\* where uart_queue_send writes (SendLater).
THEOREM BuffersKeepTheirSize == Spec => []TypeOK
<1>1. Driven => TypeOK  BY DEF Driven, Typed
<1>2. QED  BY <1>1, AlwaysDriven, PTL

\* uart_rs485_tx_enable and uart_rs485_tx_disable: no byte is in the UART while
\* the line driver is off, except after a tcdrain that was cut short.
THEOREM DriverOnWhileSending == Spec => []DriverOn
<1>1. Driven => DriverOn  BY DEF Driven
<1>2. QED  BY <1>1, AlwaysDriven, PTL

\* The bus is held only while something is left to send, and the pin is high only
\* then or because the GPIO refused the last write of 0.
THEOREM BusIsReleased == Spec => []BusReleased
<1>1. Driven => BusReleased  BY DEF Driven
<1>2. QED  BY <1>1, AlwaysDriven, PTL

-----------------------------------------------------------------------------
(* Order and loss                                                            *)

\* What the board has put on the line, what the UART holds and what waits.
Stream == (line \o out) \o queue

\* The inductive invariant of LineInOrder
Sending ==
  /\ Rising(Stream)
  /\ \A x \in ToSet(Stream) : x.n <= sent
  /\ ~lost /\ step # "stopped" => Carries(Stream, taken)

\* The inductive invariant of OnceInOrder: what is still to be parsed comes later
\* than every frame given, and no later than what the peer has sent.
Receiving ==
  /\ Rising(rx \o in)
  /\ \A x \in ToSet(rx \o in) : Place(x) <= heard + Parts
  /\ \A g \in ToSet(given) : g * Parts <= heard /\ \A x \in ToSet(rx \o in) : g < x.n
  /\ OnceInOrder

\* The pieces of the serial port are pieces.
LEMMA AlsoPieces ==
  ASSUME NEW max \in Nat
  PROVE  \A s \in Seq(Pieces(max)) : s \in Seq(AnyPiece)
<1>1. Pieces(max) \subseteq AnyPiece  BY DEF Pieces, AnyPiece
<1>2. QED  BY <1>1, Wider

\* Every buffer holds pieces.
LEMMA Streams ==
  ASSUME Typed
  PROVE  /\ rx \in Seq(AnyPiece) /\ in \in Seq(AnyPiece)
         /\ line \in Seq(AnyPiece) /\ out \in Seq(AnyPiece) /\ queue \in Seq(AnyPiece)
         /\ rx \o in \in Seq(AnyPiece) /\ line \o out \in Seq(AnyPiece) /\ Stream \in Seq(AnyPiece)
<1>1. MaxSent \in Nat /\ MaxHeard \in Nat  BY UartAssumption DEF UartAssumption
<1>2. /\ rx \in Seq(Pieces(MaxHeard)) /\ in \in Seq(Pieces(MaxHeard))
      /\ line \in Seq(Pieces(MaxSent)) /\ out \in Seq(Pieces(MaxSent)) /\ queue \in Seq(Pieces(MaxSent))
  BY DEF Typed, TypeOK
<1>3. /\ rx \in Seq(AnyPiece) /\ in \in Seq(AnyPiece)
      /\ line \in Seq(AnyPiece) /\ out \in Seq(AnyPiece) /\ queue \in Seq(AnyPiece)
  BY <1>1, <1>2, AlsoPieces
<1>4. rx \o in \in Seq(AnyPiece) /\ line \o out \in Seq(AnyPiece)  BY <1>3, JoinedTypes, Zenon
<1>5. QED  BY <1>3, <1>4, JoinedTypes, Zenon DEF Stream

LEMMA ReceivingStep ==
  ASSUME Typed, Typed', Receiving, [Next]_vars
  PROVE  Receiving'
<1> USE DEF port, clock, kernel, history
<1>0. /\ rx \in Seq(AnyPiece) /\ in \in Seq(AnyPiece) /\ rx \o in \in Seq(AnyPiece)
      /\ Rising(rx \o in)
      /\ \A x \in ToSet(rx \o in) : Place(x) <= heard + Parts
      /\ \A g \in ToSet(given) : g * Parts <= heard /\ \A x \in ToSet(rx \o in) : g < x.n
      /\ OnceInOrder
  BY Streams DEF Receiving
<1>1. /\ Parts \in Nat \ {0} /\ MaxHeard \in Nat /\ heard \in Nat
      /\ given \in Seq(Nat) /\ ToSet(given) \subseteq Nat
      /\ \A g \in Nat : g * Parts \in Nat
  <2>1. Parts \in Nat \ {0} /\ MaxHeard \in Nat /\ heard \in Nat /\ given \in Seq(1 .. MaxHeard)
    BY FramingAssumption, UartAssumption DEF FramingAssumption, UartAssumption, Typed, TypeOK
  <2>2. \A i \in DOMAIN given : given[i] \in Nat
    <3>1. \A i \in DOMAIN given : given[i] \in 1 .. MaxHeard  BY <2>1, ElementOfSeq, LenProperties
    <3>2. QED  BY <2>1, <3>1
  <2>3. ToSet(given) \subseteq Nat  BY <2>2 DEF ToSet
  <2>4. given \in Seq(Nat)
    <3>1. Len(given) \in Nat /\ given \in [1 .. Len(given) -> Nat]  BY <2>1, <2>2, LenProperties
    <3>2. QED  BY <3>1, SeqDef
  <2>5. QED  BY <2>1, <2>3, <2>4
\* Nothing new, perhaps less: a recv, a device that is closed or lost.
<1>2. ASSUME Rising(rx' \o in'), ToSet(rx' \o in') \subseteq ToSet(rx \o in),
             UNCHANGED <<heard, given>>
      PROVE  Receiving'
  BY <1>0, <1>2 DEF Receiving, OnceInOrder
<1>3. ASSUME UNCHANGED <<rx, in, heard, given>>  PROVE Receiving'
  BY <1>2, <1>3, <1>0
<1>4. ASSUME in' = <<>>, UNCHANGED <<rx, heard, given>>  PROVE Receiving'
  <2>1. rx' \o in' = rx  BY <1>0, <1>4, NothingJoined
  <2>2. Rising(rx) /\ ToSet(rx) \subseteq ToSet(rx \o in)
    BY <1>0, RisingJoined, HeldTogether
  <2>3. QED  BY <1>2, <1>4, <2>1, <2>2
<1>5. ASSUME ScheduleReopen, UNCHANGED <<rx, heard, given>>  PROVE Receiving'
  BY <1>4, <1>5 DEF ScheduleReopen, DeviceClose
<1>6. CASE Recv
  <2> DEFINE m == Min({Len(in), RxCap - Len(rx)})
             a == SubSeq(in, 1, m)
             b == SubSeq(in, m + 1, Len(in))
  <2>1. rx' = rx \o a /\ in' = b /\ UNCHANGED <<heard, given>>  BY <1>6 DEF Recv
  <2>2. m \in 0 .. Len(in)
    <3>1. Len(rx) <= RxCap /\ RxCap \in Nat  BY <1>1 DEF Typed, TypeOK, RxCap
    <3>2. Len(rx) \in Nat /\ Len(in) \in Nat  BY <1>0, LenProperties
    <3>3. QED  BY <3>1, <3>2, Smaller
  <2> HIDE DEF m
  <2>3. a \in Seq(AnyPiece) /\ b \in Seq(AnyPiece) /\ a \o b = in  BY <1>0, <2>2, Cut
  <2> HIDE DEF a, b
  <2>4. (rx \o a) \o b = rx \o (a \o b)  BY <1>0, <2>3, Regrouped, ZenonT(40)
  <2>5. rx' \o in' = rx \o in  BY <2>1, <2>3, <2>4, Zenon
  <2>6. QED  BY <1>0, <1>2, <2>1, <2>5
<1>7. CASE ParseFrame
  <2> DEFINE n == rx[1].n
             c == Consumed(rx)
             last == [n |-> n, part |-> Parts]
  <2>1. /\ Whole(rx) /\ given' = Append(given, n) /\ rx' = c /\ in' = in /\ heard' = heard
    BY <1>7 DEF ParseFrame
  <2>2. /\ n \in Nat /\ c \in Seq(AnyPiece)
        /\ Rising(c \o in) /\ ToSet(c \o in) \subseteq ToSet(rx \o in)
        /\ last \in ToSet(rx \o in) /\ \A x \in ToSet(c \o in) : n < x.n
    BY <1>0, <2>1, TakeFrame
  <2>3. Place(last) = n * Parts + Parts /\ last.n = n  BY DEF Place
  <2> HIDE DEF n, c, last
  <2>4. n * Parts <= heard
    <3>1. n * Parts + Parts <= heard + Parts  BY <1>0, <2>2, <2>3
    <3>2. QED  BY <1>1, <2>2, <3>1
  <2>5. \A g \in ToSet(given) : g < n  BY <1>0, <2>2, <2>3
  <2>6. /\ Len(given) \in Nat /\ DOMAIN given = 1 .. Len(given)
        /\ DOMAIN given' = 1 .. Len(given) + 1 /\ given'[Len(given) + 1] = n
        /\ \A i \in 1 .. Len(given) : given'[i] = given[i]
    BY <1>1, <2>1, <2>2, AppendProperties, LenProperties
  <2>7. ToSet(given') \subseteq ToSet(given) \cup {n}
    <3> SUFFICES ASSUME NEW i \in 1 .. Len(given) + 1  PROVE given'[i] \in ToSet(given) \cup {n}
      BY <2>6 DEF ToSet
    <3>1. i \in 1 .. Len(given) \/ i = Len(given) + 1  BY <2>6
    <3>2. QED  BY <2>6, <3>1 DEF ToSet
  <2>8. OnceInOrder'
    <3> SUFFICES ASSUME NEW i \in 1 .. Len(given) + 1, NEW j \in 1 .. Len(given) + 1, i < j
                 PROVE  given'[i] < given'[j]
      BY <2>6 DEF OnceInOrder
    <3>1. i \in 1 .. Len(given)  BY <2>6
    <3>2. CASE j \in 1 .. Len(given)  BY <1>0, <2>6, <3>1, <3>2 DEF OnceInOrder
    <3>3. CASE j = Len(given) + 1  BY <2>5, <2>6, <3>1, <3>3 DEF ToSet
    <3>4. QED  BY <2>6, <3>2, <3>3
  <2>9. rx' \o in' = c \o in  BY <2>1, Zenon
  <2>10. QED  BY <1>0, <2>1, <2>2, <2>4, <2>7, <2>8, <2>9 DEF Receiving
<1>8. CASE ParseEnds
  <2>1. UNCHANGED <<in, heard, given>> /\ (rx' = rx \/ rx' = <<>>)  BY <1>8 DEF ParseEnds
  <2>2. CASE rx' = <<>>
    <3>1. rx' \o in' = in  BY <1>0, <2>1, <2>2, NothingJoined
    <3>2. Rising(in) /\ ToSet(in) \subseteq ToSet(rx \o in)
      BY <1>0, RisingJoined, HeldTogether
    <3>3. QED  BY <1>2, <2>1, <3>1, <3>2
  <2>3. QED  BY <1>3, <2>1, <2>2
<1>9. CASE Arrives
  <2> DEFINE x == [n |-> (heard \div Parts) + 1, part |-> (heard % Parts) + 1]
  <2>1. /\ heard < MaxHeard * Parts /\ heard' = heard + 1 /\ UNCHANGED <<rx, given>>
        /\ in' = Append(in, x) \/ in' = in
    BY <1>9 DEF Arrives
  <2>2. x \in AnyPiece /\ Place(x) = heard + Parts + 1
    <3>1. /\ (heard \div Parts) + 1 \in 1 .. MaxHeard /\ (heard % Parts) + 1 \in 1 .. Parts
          /\ ((heard \div Parts) + 1) * Parts + ((heard % Parts) + 1) = heard + Parts + 1
      BY <1>1, <2>1, PieceNumber
    <3>2. x.n = (heard \div Parts) + 1 /\ x.part = (heard % Parts) + 1  OBVIOUS
    <3>3. Place(x) = heard + Parts + 1  BY <3>1, <3>2, Zenon DEF Place
    <3>4. (heard \div Parts) + 1 \in Nat  BY <3>1
    <3>5. QED  BY <3>1, <3>3, <3>4 DEF AnyPiece
  <2>3. ASSUME NEW g \in ToSet(given)  PROVE g < x.n
    <3> DEFINE last == [n |-> g, part |-> Parts]
    <3>1. last \in AnyPiece /\ last.n = g /\ last.part = Parts /\ Place(last) = g * Parts + Parts
      BY <1>1 DEF AnyPiece, Place
    <3>2. Place(last) < Place(x)  BY <1>0, <1>1, <2>2, <3>1, SMTT(30)
    <3> HIDE DEF last, x
    <3>3. QED  BY <2>2, <3>1, <3>2, LaterFrames
  <2> HIDE DEF x
  <2>4. CASE in' = Append(in, x)
    <3>1. /\ Append(in, x) = in \o <<x>> /\ <<x>> \in Seq(AnyPiece)
      BY <1>0, <2>2, OneJoined, Zenon
    <3>2. (rx \o in) \o <<x>> = rx \o (in \o <<x>>)  BY <1>0, <3>1, Regrouped, Zenon
    <3>3. rx' \o in' = (rx \o in) \o <<x>>  BY <2>1, <2>4, <3>1, <3>2, Zenon
    <3>4. \A y \in ToSet(rx \o in) : Place(y) \in Nat  BY <1>0, HeldTogether, PlaceIsNat, NothingJoined
    <3>5. \A y \in ToSet(rx \o in) : Place(y) < Place(x)  BY <1>0, <1>1, <2>2, <3>4
    <3>6. Rising((rx \o in) \o <<x>>) /\ ToSet((rx \o in) \o <<x>>) = ToSet(rx \o in) \cup {x}
      <4>1. \A a \in Seq(AnyPiece) :
              Rising(a) /\ (\A y \in ToSet(a) : Place(y) < Place(x))
              => Rising(a \o <<x>>) /\ ToSet(a \o <<x>>) = ToSet(a) \cup {x}
        BY <2>2, OneMore
      <4>2. QED  BY <1>0, <3>5, <4>1, Zenon
    <3> DEFINE old == rx \o in
               new == (rx \o in) \o <<x>>
    <3> HIDE DEF old, new
    <3>7. Rising(new) /\ ToSet(new) = ToSet(old) \cup {x} /\ rx' \o in' = new
      BY <3>3, <3>6 DEF old, new
    <3>8. \A y \in ToSet(new) : Place(y) <= heard' + Parts
      <4>1. \A y \in ToSet(old) : Place(y) <= heard + Parts /\ Place(y) \in Nat
        BY <1>0, <3>4 DEF old
      <4>2. \A k \in Nat : k <= heard + Parts => k <= heard' + Parts  BY <1>1, <2>1
      <4>3. Place(x) <= heard' + Parts  BY <1>1, <2>1, <2>2
      <4>4. QED  BY <3>7, <4>1, <4>2, <4>3, Zenon
    <3>9. \A g \in ToSet(given') : g * Parts <= heard' /\ \A y \in ToSet(new) : g < y.n
      <4> SUFFICES ASSUME NEW g \in ToSet(given)
                   PROVE  g * Parts <= heard' /\ \A y \in ToSet(new) : g < y.n
        BY <2>1
      <4>1. g * Parts <= heard /\ \A y \in ToSet(old) : g < y.n  BY <1>0 DEF old
      <4>2. \A y \in ToSet(new) : g < y.n  BY <2>3, <3>7, <4>1, Zenon
      <4>3. g \in Nat  BY <1>1
      <4>4. g * Parts \in Nat /\ heard \in Nat /\ heard' = heard + 1  BY <1>1, <2>1, <4>3
      <4>5. g * Parts <= heard'  BY <4>1, <4>4
      <4>6. QED  BY <4>2, <4>5
    <3>10. OnceInOrder'  BY <1>0, <2>1 DEF OnceInOrder
    <3>11. QED  BY <3>7, <3>8, <3>9, <3>10, Zenon DEF Receiving
  <2>5. CASE in' = in
    <3>4. \A y \in ToSet(rx \o in) : Place(y) \in Nat  BY <1>0, HeldTogether, PlaceIsNat, NothingJoined
    <3>5. rx' \o in' = rx \o in  BY <2>1, <2>5
    <3>6. \A y \in ToSet(rx \o in) : Place(y) <= heard' + Parts  BY <1>0, <1>1, <2>1, <3>4
    <3>7. \A g \in ToSet(given') : g * Parts <= heard'  BY <1>0, <1>1, <2>1
    <3>8. OnceInOrder'  BY <1>0, <2>1 DEF OnceInOrder
    <3>9. QED  BY <1>0, <2>1, <3>5, <3>6, <3>7, <3>8 DEF Receiving
  <2>6. QED  BY <2>1, <2>4, <2>5
<1>10. CASE HangUp  BY <1>5, <1>10 DEF HangUp
<1>11. CASE RecvLost  BY <1>5, <1>11 DEF RecvLost
<1>12. CASE SendFails  BY <1>5, <1>12 DEF SendFails, Sends
<1>13. CASE Stop  BY <1>4, <1>13 DEF Stop, DeviceClose
<1>14. CASE DeviceLost  BY <1>4, <1>14 DEF DeviceLost
<1>15. CASE Reopen  BY <1>3, <1>15 DEF Reopen
<1>16. CASE ReopenFails  BY <1>3, <1>16 DEF ReopenFails
<1>17. CASE Flush  BY <1>3, <1>17 DEF Flush
<1>18. CASE FlushRefused  BY <1>3, <1>18 DEF FlushRefused
<1>19. CASE Readable  BY <1>3, <1>19 DEF Readable
<1>20. CASE RecvNothing  BY <1>3, <1>20 DEF RecvNothing
<1>21. CASE SendRefused  BY <1>3, <1>21 DEF SendRefused, Sends
<1>22. CASE SendNow  BY <1>3, <1>22 DEF SendNow, Sends
<1>23. CASE SendLater  BY <1>3, <1>23 DEF SendLater, Sends
<1>24. CASE DeviceBack  BY <1>3, <1>24 DEF DeviceBack
<1>25. CASE Shift  BY <1>3, <1>25 DEF Shift
<1>26. CASE UNCHANGED vars  BY <1>3, <1>26 DEF vars
<1>27. QED
  BY <1>6, <1>7, <1>8, <1>9, <1>10, <1>11, <1>12, <1>13, <1>14, <1>15, <1>16, <1>17, <1>18,
     <1>19, <1>20, <1>21, <1>22, <1>23, <1>24, <1>25, <1>26 DEF Next, Works

\* What a step does to the pieces of line, UART and send_buf: nothing, a frame
\* more, or some of them are lost (with the device, or unseen after a tcdrain that
\* was cut short) or dropped at the end.
StreamKept  == Stream' = Stream /\ taken' = taken /\ (lost => lost') /\ sent' \in {sent, sent + 1}
StreamGrows == /\ Stream' = Stream \o Frame(sent + 1) /\ sent' = sent + 1
               /\ taken' = Append(taken, sent + 1) /\ (lost => lost')
StreamLoses ==
  \E a, b, c \in Seq(AnyPiece) :
    /\ Stream = (a \o b) \o c /\ Stream' = a \o c
    /\ lost' \/ step' = "stopped"
    /\ taken' = taken /\ sent' \in {sent, sent + 1}

LEMMA StreamStep ==
  ASSUME Typed, DriverOn, BusReleased, [Next]_vars
  PROVE  StreamKept \/ StreamGrows \/ StreamLoses
<1> USE DEF port, clock, kernel, history, failed
<1>0. /\ line \in Seq(AnyPiece) /\ out \in Seq(AnyPiece) /\ queue \in Seq(AnyPiece)
      /\ line \o out \in Seq(AnyPiece) /\ Stream \in Seq(AnyPiece)
      /\ sent \in Nat /\ Len(out) \in Nat /\ Len(queue) \in Nat
      /\ Len(out) <= OutCap /\ OutCap \in Nat /\ Parts \in Nat
  BY Streams, LenProperties, FramingAssumption, UartAssumption
     DEF FramingAssumption, UartAssumption, Typed, TypeOK
<1>s. /\ line \in Seq(AnyPiece) /\ out \in Seq(AnyPiece) /\ queue \in Seq(AnyPiece)
      /\ <<>> \in Seq(AnyPiece)
  BY <1>0, NothingJoined
<1>p. \A x \in Seq(Pieces(MaxSent)) : x \in Seq(AnyPiece)
  BY AlsoPieces, UartAssumption DEF UartAssumption
\* No buffer that the board sends from changes.
<1>1. ASSUME UNCHANGED <<line, out, queue, taken>>, lost => lost', sent' = sent \/ sent' = sent + 1
      PROVE  StreamKept
  BY <1>0, <1>1 DEF StreamKept, Stream
\* uart_device_close: the output leaves, all of it or not.
<1>c. ASSUME DeviceClose
      PROVE  \E a, b \in Seq(AnyPiece) :
               /\ out = a \o b /\ line' = line \o a /\ out' = <<>> /\ (b = <<>> \/ lost')
               /\ lost => lost'
  <2>1. LeavesSome /\ out' = <<>> /\ (lost => lost')  BY <1>c, CloseEffect
  <2>2. PICK a \in Seq(Pieces(MaxSent)), b \in Seq(Pieces(MaxSent)) :
          out = a \o b /\ line' = line \o a /\ (b = <<>> \/ lost')
    BY <2>1 DEF LeavesSome
  <2>3. a \in Seq(AnyPiece) /\ b \in Seq(AnyPiece)  BY <1>p
  <2>4. QED  BY <2>1, <2>2, <2>3
\* What is left once the part b has gone, and q is in send_buf
<1>d. ASSUME NEW a \in Seq(AnyPiece), NEW b \in Seq(AnyPiece), out = a \o b,
             line' = line \o a, out' = <<>>, NEW q \in Seq(AnyPiece), queue' = q
      PROVE  /\ line \o a \in Seq(AnyPiece) /\ Stream' = (line \o a) \o q
             /\ line \o out = (line \o a) \o b
  <2>1. line \o a \in Seq(AnyPiece)  BY <1>s, JoinedTypes, Zenon
  <2>2. (line \o a) \o <<>> = line \o a  BY <2>1, NothingJoined, Zenon
  <2>3. (line \o a) \o b = line \o (a \o b)
    <3>1. line \in Seq(AnyPiece) /\ a \in Seq(AnyPiece) /\ b \in Seq(AnyPiece)  BY <1>s
    <3>2. QED  BY <3>1, Regrouped, Zenon
  <2>4. Stream' = (line \o a) \o q  BY <1>d, <2>2, Zenon DEF Stream
  <2>5. QED  BY <1>d, <2>1, <2>3, <2>4, Zenon
<1>2. ASSUME DeviceClose, UNCHANGED <<queue, taken>>, sent' = sent \/ sent' = sent + 1
      PROVE  StreamKept \/ StreamLoses
  <2>1. PICK a \in Seq(AnyPiece), b \in Seq(AnyPiece) :
          /\ out = a \o b /\ line' = line \o a /\ out' = <<>> /\ (b = <<>> \/ lost')
          /\ lost => lost'
    BY <1>2, <1>c
  <2> DEFINE l == line \o a
  <2>2. l \in Seq(AnyPiece) /\ Stream' = l \o queue /\ line \o out = l \o b
    BY <1>2, <1>s, <1>d, <2>1
  <2> HIDE DEF l
  <2>3. Stream = (l \o b) \o queue  BY <2>2, Zenon DEF Stream
  <2>4. CASE b = <<>>
    <3>1. l \o b = l  BY <2>2, <2>4, NothingJoined, Zenon
    <3>2. Stream' = Stream  BY <2>2, <2>3, <3>1, Zenon
    <3>3. QED  BY <1>2, <2>1, <3>2 DEF StreamKept
  <2>5. CASE lost'
    <3>1. sent' \in {sent, sent + 1}  BY <1>2
    <3>2. QED  BY <1>2, <1>s, <2>2, <2>3, <2>5, <3>1, Zenon DEF StreamLoses
  <2>6. QED  BY <2>1, <2>4, <2>5
\* uart_send and uart_flush_send
<1>3. ASSUME NEW v \in Seq(AnyPiece), NEW w \in Seq(AnyPiece),
             out \o v \in Seq(Pieces(MaxSent)), Written(w, out \o v), queue' = w
      PROVE  Stream' = (line \o out) \o (v \o w) /\ (lost => lost')
  <2> DEFINE before == line \o out
             left   == out \o v
  <2>1. Parted(left) /\ (lost => lost')  BY <1>3, WrittenEffect
  <2>2. PICK a \in Seq(Pieces(MaxSent)), b \in Seq(Pieces(MaxSent)) :
          left = a \o b /\ line' = line \o a /\ out' = b
    <3> HIDE DEF left
    <3>1. QED  BY <2>1 DEF Parted
  <2>3. a \in Seq(AnyPiece) /\ b \in Seq(AnyPiece)  BY <1>p
  <2>4. (line \o a) \o b = line \o (a \o b)
    <3>1. line \in Seq(AnyPiece) /\ a \in Seq(AnyPiece) /\ b \in Seq(AnyPiece)  BY <1>s, <2>3
    <3>2. QED  BY <3>1, Regrouped, Zenon
  <2>5. (line \o out) \o v = line \o (out \o v)  BY <1>s, Regrouped, ZenonT(40)
  <2>6. line' \o out' = before \o v  BY <2>2, <2>4, <2>5, Zenon DEF before, left
  <2>7. before \in Seq(AnyPiece)  BY <1>s, JoinedTypes, Zenon
  <2> HIDE DEF before, left
  <2>8. (before \o v) \o w = before \o (v \o w)  BY <2>7, Regrouped, Zenon
  <2>9. Stream' = before \o (v \o w)  BY <1>3, <2>6, <2>8, Zenon DEF Stream
  <2>10. QED  BY <2>1, <2>9 DEF before
<1>4. CASE Flush
  <2> DEFINE m == Min({Len(queue), OutCap - Len(out)})
             rest == SubSeq(queue, m + 1, Len(queue))
             v == SubSeq(queue, 1, m)
  <2>1. queue' = rest /\ Written(rest, out \o v) /\ UNCHANGED <<taken, sent>>
    BY <1>4 DEF Flush, CanFlush, Written
  <2>2. m \in 0 .. Len(queue)
    <3>1. OutCap - Len(out) \in Nat  BY <1>0
    <3>2. QED  BY <1>0, <3>1, Smaller
  <2>o. out \o v \in Seq(Pieces(MaxSent))
    <3>1. /\ out \in Seq(Pieces(MaxSent)) /\ queue \in Seq(Pieces(MaxSent)) /\ Len(out) <= OutCap
          /\ m = Min({Len(queue), OutCap - Len(out)})
      BY DEF Typed, TypeOK
    <3> HIDE DEF m
    <3>2. QED  BY <3>1, MovedOut, Zenon
  <2> HIDE DEF m
  <2>3. v \in Seq(AnyPiece) /\ rest \in Seq(AnyPiece) /\ v \o rest = queue
    BY <1>0, <2>2, Cut
  <2> HIDE DEF rest, v
  <2>4. Stream' = (line \o out) \o (v \o rest) /\ (lost => lost')  BY <1>3, <2>1, <2>3, <2>o
  <2>5. Stream' = Stream  BY <2>3, <2>4, Zenon DEF Stream
  <2>6. QED  BY <1>0, <2>1, <2>4, <2>5 DEF StreamKept
<1>5. CASE SendNow
  <2> DEFINE frame == Frame(sent + 1)
             m == Min({Parts, OutCap - Len(out)})
             rest == queue \o SubSeq(frame, m + 1, Parts)
             w == SubSeq(frame, m + 1, Parts)
             v == SubSeq(frame, 1, m)
  <2>1. /\ queue' = rest /\ Written(rest, out \o v) /\ queue = <<>>
        /\ taken' = Append(taken, sent + 1) /\ sent' = sent + 1 /\ sent < MaxSent
    BY <1>5 DEF SendNow, Sends, Direct, Written
  <2>2. m \in 0 .. Parts  BY <1>0, Smaller
  <2>3. frame \in Seq(AnyPiece) /\ Len(frame) = Parts  BY <1>0, FrameProperties, SMTT(30)
  <2>o. out \o v \in Seq(Pieces(MaxSent))
    <3>1. frame \in Seq(Pieces(MaxSent)) /\ Len(frame) = Parts  BY <2>1, NextFrame
    <3>2. /\ out \in Seq(Pieces(MaxSent)) /\ Len(out) <= OutCap
          /\ m = Min({Len(frame), OutCap - Len(out)})
      BY <3>1 DEF Typed, TypeOK
    <3> HIDE DEF m, frame
    <3>3. QED  BY <3>1, <3>2, MovedOut, Zenon
  <2> HIDE DEF m, frame
  <2>4. v \in Seq(AnyPiece) /\ w \in Seq(AnyPiece) /\ v \o w = frame  BY <2>2, <2>3, Cut
  <2>5. rest = w  BY <2>1, <2>4, NothingJoined DEF rest, w
  <2> HIDE DEF rest, v, w
  <2>6. Stream' = (line \o out) \o (v \o w) /\ (lost => lost')  BY <1>3, <2>1, <2>4, <2>5, <2>o
  <2>7. Stream = line \o out
    <3>1. (line \o out) \o <<>> = line \o out  BY <1>0, NothingJoined, Zenon
    <3>2. QED  BY <2>1, <3>1, Zenon DEF Stream
  <2>8. Stream' = Stream \o frame  BY <2>4, <2>6, <2>7, Zenon
  <2>9. QED  BY <2>1, <2>6, <2>8 DEF StreamGrows, frame
<1>6. CASE SendLater
  <2>1. /\ queue' = queue \o Frame(sent + 1) /\ UNCHANGED <<line, out, lost>>
        /\ taken' = Append(taken, sent + 1) /\ sent' = sent + 1
    BY <1>6 DEF SendLater, Sends
  <2>2. Frame(sent + 1) \in Seq(AnyPiece)  BY <1>0, FrameProperties, SMTT(30)
  <2>3. ((line \o out) \o queue) \o Frame(sent + 1) = (line \o out) \o (queue \o Frame(sent + 1))
    BY <1>0, <2>2, Regrouped, ZenonT(40)
  <2>4. Stream' = Stream \o Frame(sent + 1)  BY <2>1, <2>3, Zenon DEF Stream
  <2>5. QED  BY <2>1, <2>4 DEF StreamGrows
<1>7. CASE Stop
  <2>1. PICK a \in Seq(AnyPiece), b \in Seq(AnyPiece) :
          out = a \o b /\ line' = line \o a /\ out' = <<>>
    BY <1>7, <1>c DEF Stop
  <2>2. queue' = <<>> /\ step' = "stopped" /\ UNCHANGED <<taken, sent>>  BY <1>7 DEF Stop
  <2> DEFINE l == line \o a
             e == <<>>
  <2>3. e \in Seq(AnyPiece) /\ queue' = e  BY <1>s, <2>2
  <2>4. l \in Seq(AnyPiece) /\ Stream' = l \o e /\ line \o out = l \o b
    BY <1>d, <2>1, <2>3
  <2> DEFINE d == b \o queue
  <2>5. d \in Seq(AnyPiece)  BY <1>s, JoinedTypes, Zenon
  <2> HIDE DEF l, e
  <2>6. (l \o b) \o queue = l \o (b \o queue)  BY <1>s, <2>4, Regrouped, ZenonT(40)
  <2>7. Stream = l \o d  BY <2>4, <2>6, Zenon DEF Stream
  <2> HIDE DEF d
  <2>8. (l \o d) \o e = l \o d
    <3>1. l \o d \in Seq(AnyPiece)  BY <2>4, <2>5, JoinedTypes, Zenon
    <3>2. QED  BY <3>1, NothingJoined DEF e
  <2>9. Stream = (l \o d) \o e  BY <2>7, <2>8, Zenon
  <2>10. sent' \in {sent, sent + 1}  BY <2>2
  <2>11. QED  BY <2>2, <2>3, <2>4, <2>5, <2>9, <2>10, Zenon DEF StreamLoses
<1>8. CASE DeviceLost
  <2>1. out' = <<>> /\ lost' = TRUE /\ UNCHANGED <<line, queue, taken, sent>>  BY <1>8 DEF DeviceLost
  <2>2. line \o <<>> = line  BY <1>0, NothingJoined, Zenon
  <2>3. Stream' = line \o queue  BY <2>1, <2>2, Zenon DEF Stream
  <2>4. Stream = (line \o out) \o queue  BY DEF Stream
  <2>5. lost' /\ taken' = taken /\ sent' \in {sent, sent + 1}  BY <2>1
  <2>6. QED  BY <1>s, <2>3, <2>4, <2>5, Zenon DEF StreamLoses
<1>9. CASE Shift
  <2> DEFINE h == Head(out)
             p == <<h>>
             r == Tail(out)
  <2>1. /\ out # <<>> /\ out' = r /\ UNCHANGED <<queue, taken, sent, lost, step>>
        /\ line' = line \o Seen(p, pin)
    BY <1>9 DEF Shift
  <2>2. h \in AnyPiece /\ r \in Seq(AnyPiece) /\ p \in Seq(AnyPiece) /\ p \o r = out
    BY <1>0, <2>1, FirstAndRest
  <2> HIDE DEF h, p, r
  <2>3. (line \o p) \o r = line \o (p \o r)  BY <1>s, <2>2, Regrouped, ZenonT(40)
  <2>4. CASE mode = "485" /\ pin = "low"
    <3>1. lost  BY <2>1, <2>4 DEF DriverOn, Typed
    <3>2. line' = line
      <4>1. line' = line \o <<>>  BY <2>1, <2>4 DEF Seen, Driving
      <4>2. QED  BY <1>s, <4>1, NothingJoined, Zenon
    <3> DEFINE c == r \o queue
               l == line \o p
    <3>3. c \in Seq(AnyPiece)  BY <1>s, <2>2, JoinedTypes, Zenon
    <3>4. l \in Seq(AnyPiece)  BY <1>s, <2>2, JoinedTypes, Zenon
    <3>5. (line \o r) \o queue = line \o (r \o queue)  BY <1>s, <2>2, Regrouped, ZenonT(40)
    <3>6. Stream' = line \o c  BY <2>1, <3>2, <3>5, Zenon DEF Stream
    <3>7. Stream = (l \o r) \o queue  BY <2>2, <2>3, Zenon DEF Stream
    <3> HIDE DEF l
    <3>8. (l \o r) \o queue = l \o (r \o queue)  BY <1>s, <2>2, <3>4, Regrouped, ZenonT(40)
    <3>9. Stream = (line \o p) \o c  BY <3>7, <3>8, Zenon DEF l
    <3> HIDE DEF c
    <3>10. lost' /\ taken' = taken /\ sent' \in {sent, sent + 1}  BY <2>1, <3>1
    <3>11. QED  BY <1>s, <2>2, <3>3, <3>6, <3>9, <3>10, Zenon DEF StreamLoses
  <2>5. CASE ~(mode = "485" /\ pin = "low")
    <3>1. line' = line \o p  BY <2>1, <2>5 DEF Seen, Driving
    <3>2. line' \o out' = line \o out  BY <2>1, <2>2, <2>3, <3>1, Zenon
    <3>3. Stream' = Stream  BY <2>1, <3>2, Zenon DEF Stream
    <3>4. QED  BY <1>0, <2>1, <3>3 DEF StreamKept
  <2>6. QED  BY <2>4, <2>5
<1>10. CASE HangUp  BY <1>2, <1>10 DEF HangUp, ScheduleReopen
<1>11. CASE RecvLost  BY <1>2, <1>11 DEF RecvLost, ScheduleReopen
<1>12. CASE SendFails  BY <1>2, <1>12 DEF SendFails, Sends, ScheduleReopen
<1>13. CASE Reopen  BY <1>1, <1>13 DEF Reopen
<1>14. CASE ReopenFails  BY <1>1, <1>14 DEF ReopenFails
<1>15. CASE FlushRefused  BY <1>1, <1>15 DEF FlushRefused
<1>16. CASE Readable  BY <1>1, <1>16 DEF Readable
<1>17. CASE Recv  BY <1>1, <1>17 DEF Recv
<1>18. CASE RecvNothing  BY <1>1, <1>18 DEF RecvNothing
<1>19. CASE ParseFrame  BY <1>1, <1>19 DEF ParseFrame
<1>20. CASE ParseEnds  BY <1>1, <1>20 DEF ParseEnds
<1>21. CASE SendRefused  BY <1>1, <1>21 DEF SendRefused, Sends
<1>22. CASE DeviceBack  BY <1>1, <1>22 DEF DeviceBack
<1>23. CASE Arrives  BY <1>1, <1>23 DEF Arrives
<1>24. CASE UNCHANGED vars  BY <1>1, <1>24 DEF vars
<1>25. QED
  BY <1>4, <1>5, <1>6, <1>7, <1>8, <1>9, <1>10, <1>11, <1>12, <1>13, <1>14, <1>15, <1>16, <1>17,
     <1>18, <1>19, <1>20, <1>21, <1>22, <1>23, <1>24 DEF Next, Works

LEMMA SendingStep ==
  ASSUME Typed, DriverOn, BusReleased, Sending, [Next]_vars
  PROVE  Sending'
<1>0. /\ line \in Seq(AnyPiece) /\ out \in Seq(AnyPiece) /\ queue \in Seq(AnyPiece)
      /\ line \o out \in Seq(AnyPiece) /\ Stream \in Seq(AnyPiece)
      /\ sent \in Nat /\ taken \in Seq(Nat) /\ ToSet(Stream) \subseteq AnyPiece
      /\ Rising(Stream) /\ \A x \in ToSet(Stream) : x.n <= sent
      /\ ~lost /\ step # "stopped" => Carries(Stream, taken)
  BY Streams, HeldTogether, NothingJoined DEF Typed, TypeOK, Sending
\* A board that has stopped does nothing more.
<1>1. ~lost' /\ step' # "stopped" /\ (lost => lost') => ~lost /\ step # "stopped"
  BY DEF Next, Runs, vars
<1>2. CASE StreamKept
  <2>1. Rising(Stream') /\ ToSet(Stream') = ToSet(Stream)  BY <1>0, <1>2 DEF StreamKept
  <2>2. \A x \in ToSet(Stream) : x.n <= sent'
    <3>1. \A x \in ToSet(Stream) : x.n \in Nat  BY <1>0, PlaceIsNat
    <3>2. sent' = sent \/ sent' = sent + 1  BY <1>2 DEF StreamKept
    <3>3. QED  BY <1>0, <3>1, <3>2
  <2>3. ~lost' /\ step' # "stopped" => Carries(Stream', taken')
    BY <1>0, <1>1, <1>2 DEF StreamKept
  <2>4. QED  BY <2>1, <2>2, <2>3, Zenon DEF Sending
<1>3. CASE StreamGrows
  <2> DEFINE f == Frame(sent + 1)
  <2>1. /\ f \in Seq(AnyPiece) /\ Rising(f) /\ \A x \in ToSet(f) : x.n = sent + 1
    BY <1>0, FrameProperties
  <2>2. ToSet(f) \subseteq AnyPiece  BY <2>1, HeldTogether, NothingJoined
  <2>3. /\ Stream' = Stream \o f /\ sent' = sent + 1 /\ taken' = Append(taken, sent + 1)
        /\ lost => lost'
    BY <1>3 DEF StreamGrows
  <2>c. ~lost' /\ step' # "stopped" => Carries(Stream \o f, Append(taken, sent + 1))
    BY <1>0, <1>1, <2>3, CarriesMore
  <2> HIDE DEF f
  <2>4. Below(Stream, f)
    <3> SUFFICES ASSUME NEW x \in ToSet(Stream), NEW y \in ToSet(f)  PROVE Place(x) < Place(y)
      BY DEF Below
    <3>1. x \in AnyPiece /\ y \in AnyPiece /\ x.n <= sent /\ y.n = sent + 1 /\ x.n \in Nat
      BY <1>0, <2>1, <2>2, PlaceIsNat
    <3>2. x.n < y.n  BY <1>0, <3>1
    <3>3. QED  BY <3>1, <3>2, LaterFrames
  <2>5. Rising(Stream \o f)  BY <1>0, <2>1, <2>4, RisingJoined, Zenon
  <2>6. \A x \in ToSet(Stream \o f) : x.n <= sent'
    <3>1. ToSet(Stream \o f) = ToSet(Stream) \cup ToSet(f)  BY <1>0, <2>1, HeldTogether, Zenon
    <3>2. \A x \in ToSet(Stream) : x.n \in Nat  BY <1>0, PlaceIsNat
    <3>3. \A x \in ToSet(Stream) : x.n <= sent'  BY <1>0, <2>3, <3>2
    <3>4. \A x \in ToSet(f) : x.n <= sent'  BY <1>0, <2>1, <2>3
    <3>5. QED  BY <3>1, <3>3, <3>4, Zenon
  <2>7. QED  BY <2>3, <2>5, <2>6, <2>c, Zenon DEF Sending
<1>4. CASE StreamLoses
  <2>1. PICK a \in Seq(AnyPiece), b \in Seq(AnyPiece), c \in Seq(AnyPiece) :
          /\ Stream = (a \o b) \o c /\ Stream' = a \o c
          /\ lost' \/ step' = "stopped"
          /\ taken' = taken /\ sent' \in {sent, sent + 1}
    BY <1>4, Zenon DEF StreamLoses
  <2>2. a \o b \in Seq(AnyPiece)  BY JoinedTypes, Zenon
  <2>3. Rising((a \o b) \o c)  BY <1>0, <2>1, Zenon
  <2>4. Rising(a \o b) /\ Rising(c) /\ Below(a \o b, c)  BY <2>2, <2>3, RisingJoined, Zenon
  <2>5. Rising(a)  BY <2>4, RisingJoined, Zenon
  <2>6. /\ ToSet((a \o b) \o c) = ToSet(a \o b) \cup ToSet(c)
        /\ ToSet(a \o b) = ToSet(a) \cup ToSet(b) /\ ToSet(a \o c) = ToSet(a) \cup ToSet(c)
    BY <2>2, HeldTogether, Zenon
  <2>7. Below(a, c)  BY <2>4, <2>6 DEF Below
  <2>8. Rising(a \o c)  BY <2>4, <2>5, <2>7, RisingJoined, Zenon
  <2>9. \A x \in ToSet(a \o c) : x \in ToSet(Stream)  BY <2>1, <2>6, Zenon
  <2>10. \A x \in ToSet(Stream) : x.n \in Nat  BY <1>0, PlaceIsNat
  <2>11. \A x \in ToSet(Stream) : x.n <= sent'  BY <1>0, <2>1, <2>10
  <2>12. QED  BY <2>1, <2>8, <2>9, <2>11, Zenon DEF Sending
<1>5. QED  BY <1>2, <1>3, <1>4, StreamStep

-----------------------------------------------------------------------------
(* The theorems                                                              *)

LEMMA InitStreams == Init /\ Typed => Receiving /\ Sending
<1> SUFFICES ASSUME Init, Typed  PROVE Receiving /\ Sending  OBVIOUS
<1>1. /\ rx = <<>> /\ in = <<>> /\ line = <<>> /\ out = <<>> /\ queue = <<>>
      /\ given = <<>> /\ taken = <<>>
  BY DEF Init
<1> DEFINE e == <<>>
<1>2. e \in Seq(AnyPiece) /\ e \o e = e  BY NothingJoined
<1>3. rx \o in = e /\ (line \o out) \o queue = e  BY <1>1, <1>2, Zenon
<1>4. DOMAIN e = {} /\ Len(e) = 0  OBVIOUS
<1> HIDE DEF e
<1>5. Rising(e) /\ ToSet(e) = {}  BY <1>4 DEF Rising, ToSet
<1>6. given = e /\ taken = e  BY <1>1 DEF e
<1>7. Carries(e, e)
  <2>1. Parts * 0 = 0  BY FramingAssumption DEF FramingAssumption
  <2>2. QED  BY <1>4, <2>1 DEF Carries
<1>8. OnceInOrder  BY <1>4, <1>6 DEF OnceInOrder
<1>9. QED  BY <1>3, <1>5, <1>6, <1>7, <1>8 DEF Receiving, Sending, Stream

LEMMA AlwaysInOrder == Spec => [](Receiving /\ Sending /\ Typed)
<1> DEFINE I == Driven /\ Receiving /\ Sending
<1>1. Init => I  BY InitTyped, InitStreams DEF Driven
<1>2. I /\ [Next]_vars => I'
  BY TypedStep, DriverStep, ReceivingStep, SendingStep DEF Driven
<1>3. I => Receiving /\ Sending /\ Typed  BY DEF Driven
<1>4. QED  BY <1>1, <1>2, <1>3, PTL DEF Spec

\* Nothing of what uart_send accepted goes out twice or overtakes, over any number
\* of reopenings; and while the device was never lost and no tcdrain cut short, the
\* line, the UART and send_buf hold it byte for byte.
THEOREM SentInOrder == Spec => []LineInOrder
<1>1. Sending /\ Typed => LineInOrder
  <2> SUFFICES ASSUME Sending, Typed  PROVE LineInOrder  OBVIOUS
  <2>1. Rising(Stream) /\ Stream \in Seq(AnyPiece) /\ (~lost /\ step # "stopped" => Carries(Stream, taken))
    BY Streams DEF Sending
  <2>2. line \o out \o queue = Stream  BY DEF Stream
  <2> HIDE DEF Stream
  <2>3. DOMAIN Stream = 1 .. Len(Stream) /\ Len(Stream) \in Nat  BY <2>1, LenProperties
  <2>4. \A i \in 1 .. Len(Stream) - 1 : Place(Stream[i]) < Place(Stream[i + 1])
    <3> TAKE i \in 1 .. Len(Stream) - 1
    <3>1. i \in DOMAIN Stream /\ i + 1 \in DOMAIN Stream /\ i < i + 1  BY <2>3
    <3>2. QED  BY <2>1, <3>1 DEF Rising
  <2>5. QED  BY <2>1, <2>2, <2>4 DEF LineInOrder
<1>2. QED  BY <1>1, AlwaysInOrder, PTL

\* The bus is given every frame once and in the order the peer sent them, although
\* rx_buf keeps half a frame from before the device was lost.
THEOREM GivenOnceInOrder == Spec => []OnceInOrder
<1>1. Receiving => OnceInOrder  BY DEF Receiving
<1>2. QED  BY <1>1, AlwaysInOrder, PTL

-----------------------------------------------------------------------------
(* The retry timer                                                           *)

\* Shifted is defined: it doubles from one attempt to the next.
LEMMA ShiftsExist ==
  ASSUME NEW n \in Nat
  PROVE  \E f : f = [k \in 0 .. n |-> IF k = 0 THEN DelayInit ELSE Double[f[k - 1]]]
<1> DEFINE Is(g, m) == g = [k \in 0 .. m |-> IF k = 0 THEN DelayInit ELSE Double[g[k - 1]]]
           T == {m \in Nat : \E g : Is(g, m)}
<1>1. 0 \in T
  <2>1. Is([k \in 0 .. 0 |-> DelayInit], 0)  OBVIOUS
  <2>2. QED  BY <2>1
<1>2. ASSUME NEW m \in T  PROVE m + 1 \in T
  <2>1. m \in Nat /\ \E g : Is(g, m)
    <3> HIDE DEF Is
    <3>1. QED  BY <1>2
  <2>2. PICK g : Is(g, m)
    <3> HIDE DEF Is
    <3>1. QED  BY <2>1
  <2> HIDE DEF T
  <2> DEFINE h == [k \in 0 .. m + 1 |-> IF k <= m THEN g[k] ELSE Double[g[k - 1]]]
  <2>3. ASSUME NEW k \in 0 .. m + 1  PROVE h[k] = IF k = 0 THEN DelayInit ELSE Double[h[k - 1]]
    <3>1. \A j \in 0 .. m : h[j] = g[j]  BY <2>1
    <3>2. k \in 0 .. m \/ (k = m + 1 /\ k # 0)  BY <2>1
    <3>3. k # 0 => k - 1 \in 0 .. m  BY <2>1
    <3>4. \A j \in 0 .. m : g[j] = IF j = 0 THEN DelayInit ELSE Double[g[j - 1]]  BY <2>2
    <3>5. k = m + 1 => h[k] = Double[g[k - 1]]  BY <2>1
    <3> HIDE DEF h, Is
    <3>6. QED  BY <3>1, <3>2, <3>3, <3>4, <3>5
  <2>4. Is(h, m + 1)  BY <2>3
  <2> HIDE DEF Is, h
  <2>5. QED  BY <2>1, <2>4 DEF T
<1>3. T = Nat  BY <1>1, <1>2, Induct
<1>4. QED  BY <1>3

LEMMA ShiftedIs ==
  /\ Shifted[0] = DelayInit
  /\ \A k \in 1 .. 31 : Shifted[k] = Double[Shifted[k - 1]]
<1>1. Shifted = [k \in 0 .. 31 |-> IF k = 0 THEN DelayInit ELSE Double[Shifted[k - 1]]]
  BY ShiftsExist DEF Shifted
<1>2. \A k \in 1 .. 31 : k \in 0 .. 31 /\ k # 0  OBVIOUS
<1>3. 0 \in 0 .. 31  OBVIOUS
<1>4. QED  BY <1>1, <1>2, <1>3

\* DelayInit << 21 fits in an int, as 1000 << 21 does in 32 bits.
ShiftsFit == DelayInit * 2097152 <= IntMax

LEMMA Doubles ==
  ASSUME NEW x \in Nat, 2 * x <= IntMax
  PROVE  Double[x] = 2 * x
<1>1. IntMax \in Nat  BY BackoffAssumption DEF BackoffAssumption
<1>2. x < Half /\ ~(x >= Half) /\ ~(x < -Half) /\ -Half <= x
  BY <1>1 DEF Half
<1>3. x \in Int  OBVIOUS
<1>4. QED  BY <1>2, <1>3 DEF Double

\* One more shift
LEMMA NextShift ==
  ASSUME ShiftsFit, NEW k \in 1 .. 31, NEW p \in Nat, 2 * p <= 2097152,
         Shifted[k - 1] = DelayInit * p
  PROVE  Shifted[k] = DelayInit * (2 * p)
<1>1. DelayInit \in Nat /\ IntMax \in Nat  BY BackoffAssumption DEF BackoffAssumption
<1>2. PICK x \in Nat : x = DelayInit * p
  <2>1. \A a, b \in Nat : a * b \in Nat  OBVIOUS
  <2>2. QED  BY <1>1, <2>1
<1>3. 2 * x = DelayInit * (2 * p)  BY <1>1, <1>2
<1>4. DelayInit * (2 * p) <= DelayInit * 2097152
  <2>1. \A a, b, c \in Nat : b <= c => a * b <= a * c  OBVIOUS
  <2>2. 2 * p \in Nat /\ 2097152 \in Nat  OBVIOUS
  <2>3. QED  BY <1>1, <2>1, <2>2
<1>5. 2 * x <= IntMax  BY <1>1, <1>3, <1>4 DEF ShiftsFit
<1>6. Shifted[k] = Double[x]  BY <1>2, ShiftedIs
<1>7. QED  BY <1>3, <1>5, <1>6, Doubles

\* The first 22 delays are positive, so the timer starts.
LEMMA DelaysPositive ==
  ASSUME ShiftsFit, NEW attempt \in 0 .. 22
  PROVE  ArmTimer(Delay(attempt), "off") = "set" /\ ArmTimer(Delay(attempt), "set") = "set"
<1>1. DelayInit \in Nat \ {0} /\ DelayMax \in Nat \ {0}  BY BackoffAssumption DEF BackoffAssumption
<1>2. Shifted[0] = DelayInit * 1  BY <1>1, ShiftedIs
<1>3. Shifted[1] = DelayInit * 2  BY <1>2, NextShift
<1>4. Shifted[2] = DelayInit * 4  BY <1>3, NextShift
<1>5. Shifted[3] = DelayInit * 8  BY <1>4, NextShift
<1>6. Shifted[4] = DelayInit * 16  BY <1>5, NextShift
<1>7. Shifted[5] = DelayInit * 32  BY <1>6, NextShift
<1>8. Shifted[6] = DelayInit * 64  BY <1>7, NextShift
<1>9. Shifted[7] = DelayInit * 128  BY <1>8, NextShift
<1>10. Shifted[8] = DelayInit * 256  BY <1>9, NextShift
<1>11. Shifted[9] = DelayInit * 512  BY <1>10, NextShift
<1>12. Shifted[10] = DelayInit * 1024  BY <1>11, NextShift
<1>13. Shifted[11] = DelayInit * 2048  BY <1>12, NextShift
<1>14. Shifted[12] = DelayInit * 4096  BY <1>13, NextShift
<1>15. Shifted[13] = DelayInit * 8192  BY <1>14, NextShift
<1>16. Shifted[14] = DelayInit * 16384  BY <1>15, NextShift
<1>17. Shifted[15] = DelayInit * 32768  BY <1>16, NextShift
<1>18. Shifted[16] = DelayInit * 65536  BY <1>17, NextShift
<1>19. Shifted[17] = DelayInit * 131072  BY <1>18, NextShift
<1>20. Shifted[18] = DelayInit * 262144  BY <1>19, NextShift
<1>21. Shifted[19] = DelayInit * 524288  BY <1>20, NextShift
<1>22. Shifted[20] = DelayInit * 1048576  BY <1>21, NextShift
<1>23. Shifted[21] = DelayInit * 2097152  BY <1>22, NextShift
<1>24. \A k \in 0 .. 21 : \E p \in Nat \ {0} : Shifted[k] = DelayInit * p
  BY <1>2, <1>3, <1>4, <1>5, <1>6, <1>7, <1>8, <1>9, <1>10, <1>11, <1>12, <1>13, <1>14, <1>15, <1>16, <1>17, <1>18, <1>19, <1>20, <1>21, <1>22, <1>23
<1>25. Delay(attempt) \in Nat \ {0}
  <2>1. CASE attempt = 0  BY <1>1, <2>1 DEF Delay
  <2>2. CASE attempt # 0
    <3>1. attempt - 1 \in 0 .. 21 /\ (attempt - 1) % 32 = attempt - 1  BY <2>2
    <3>2. PICK p \in Nat \ {0} : Shifted[attempt - 1] = DelayInit * p  BY <1>24, <3>1
    <3>3. PICK x \in Nat \ {0} : x = DelayInit * p
      <4>1. \A a, b \in Nat \ {0} : a * b \in Nat \ {0}  OBVIOUS
      <4>2. QED  BY <1>1, <4>1
    <3>4. Delay(attempt) = Min({x, DelayMax})  BY <2>2, <3>1, <3>2, <3>3 DEF Delay
    <3>5. QED  BY <1>1, <3>4 DEF Min
  <2>3. QED  BY <2>1, <2>2
<1>26. QED  BY <1>25 DEF ArmTimer

\* After a failed open, a hang-up and a failed read alike the timer runs.
LEMMA KeepsTryingStep ==
  ASSUME ShiftsFit, Typed, KeepsTrying, [Next]_vars
  PROVE  KeepsTrying'
<1>1. retry \in Nat /\ timer \in {"off", "set"}  BY DEF Typed, TypeOK
<1>2. ASSUME NEW was \in {"off", "set"}, TimerArm(was), armed' = TRUE, retry' = retry + 1
      PROVE  KeepsTrying'
  <2>1. SUFFICES ASSUME retry' <= 23  PROVE timer' = "set"  BY <1>2 DEF KeepsTrying
  <2>2. retry \in 0 .. 22  BY <1>1, <1>2, <2>1
  <2>3. QED  BY <1>2, <2>2, DelaysPositive DEF TimerArm, ReopenDelay
<1>3. CASE ReopenFails  BY <1>2, <1>3 DEF ReopenFails, TriesAgain
<1>4. CASE HangUp \/ RecvLost \/ SendFails
  BY <1>1, <1>2, <1>4 DEF HangUp, RecvLost, SendFails, ScheduleReopen
<1>5. CASE Reopen  BY <1>5 DEF Reopen, DeviceOpen, KeepsTrying
<1>6. CASE Stop  BY <1>6 DEF Stop, KeepsTrying, Runs
<1>7. CASE DeviceLost
  BY <1>7 DEF DeviceLost, KeepsTrying, Runs, clock
<1>8. CASE Runs /\ (Flush \/ FlushRefused \/ Readable \/ Recv \/ RecvNothing \/ ParseFrame \/ ParseEnds)
  <2>1. UNCHANGED <<fd, retry, armed, timer>>
    BY <1>8 DEF Flush, FlushRefused, Readable, Recv, RecvNothing, ParseFrame, ParseEnds, port, clock
  <2>2. QED  BY <1>8, <2>1 DEF KeepsTrying
<1>9. CASE Runs /\ (SendRefused \/ SendNow \/ SendLater)
  <2>1. UNCHANGED <<fd, retry, armed, timer>>
    BY <1>9 DEF SendRefused, SendNow, SendLater, port, clock
  <2>2. QED  BY <1>9, <2>1 DEF KeepsTrying
<1>10. CASE Runs /\ (DeviceBack \/ Shift \/ Arrives)
  <2>1. UNCHANGED <<fd, retry, armed, timer>>
    BY <1>10 DEF DeviceBack, Shift, Arrives, port, clock
  <2>2. QED  BY <1>10, <2>1 DEF KeepsTrying
<1>11. CASE UNCHANGED vars
  BY <1>11 DEF vars, port, clock, KeepsTrying, Runs
<1>12. QED
  BY <1>3, <1>4, <1>5, <1>6, <1>7, <1>8, <1>9, <1>10, <1>11 DEF Next, Works

\* A board that lost its device has the reopening armed and the timer running, whichever path
\* closed the port, for the 23 attempts whose delays the width of int allows.
THEOREM ReopeningIsComing ==
  ASSUME ShiftsFit
  PROVE  Spec => []KeepsTrying
<1>1. Init => KeepsTrying  BY DEF Init, KeepsTrying
<1>2. Driven /\ KeepsTrying /\ [Next]_vars => KeepsTrying'
  BY KeepsTryingStep DEF Driven
<1>3. QED  BY <1>1, <1>2, AlwaysDriven, PTL DEF Spec
=============================================================================
