--------------------------- MODULE UartTransport ----------------------------
(***************************************************************************)
(* One board's serial port (uart_transport.c) with the daemon's receive     *)
(* loop on it (main.c).  The device may go away and come back; on RS-485     *)
(* the DE pin turns the line driver on and the port must not be read then.   *)
(* The daemon is one thread, step says where in on_transport_event it is.    *)
(***************************************************************************)
EXTENDS Framing, Backoff

CONSTANTS
  Modes,        \* "232" and "485": uart_mode
  SendCap,      \* pieces in send_buf (8 frames)
  OutCap, InCap,  \* pieces the kernel holds for the line and from it
  IdleRead,     \* what read() of an idle line may answer: "again", "zero"
  MaxSent,      \* bounds: frames the board is asked to send,
  MaxHeard,     \* frames the peer sends,
  MaxFaults     \* the device lost, a GPIO write refused, a tcdrain cut short

ASSUME UartAssumption ==
  /\ Modes \subseteq {"232", "485"}
  /\ {SendCap, OutCap, InCap} \subseteq Nat \ {0} /\ Parts <= SendCap
  /\ IdleRead \subseteq {"again", "zero"}
  /\ {MaxSent, MaxHeard, MaxFaults} \subseteq Nat

VARIABLES
  mode,      \* one of Modes
  present,   \* whether the device node is there
  fd,        \* "none", "live", or "hung" once its device is lost
  de,        \* de_tx_active
  queue,     \* send_buf from send_off to send_len
  off,       \* send_off
  watchOut,  \* whether epoll watches the port for EPOLLOUT
  retry, armed, timer,  \* retry_attempt, reopen_armed, timerfd
  rx,        \* rx_buf of main.c
  step,      \* "idle", "read", "parse", "stopped" or "crashed"
  pin,       \* the DE pin: "high" while this board drives the line
  out,       \* pieces the kernel holds for the line
  in         \* pieces the kernel holds for read()

VARIABLES
  sent,      \* frames the board was asked to send
  taken,     \* frames uart_send answered BC_OK
  line,      \* pieces that went out on the line
  heard,     \* pieces the peer has put on the line
  given,     \* frames the bus was given
  lost,      \* whether the device was ever lost or a tcdrain cut short
  cut,       \* whether the last tcdrain was cut short
  refused,   \* whether the last write of 0 to the pin was refused
  faults     \* faults so far

port    == <<fd, de, queue, off, watchOut>>
clock   == <<retry, armed, timer>>
kernel  == <<pin, out, in>>
failed  == <<lost, cut, refused, faults>>
history == <<sent, taken, line, heard, given, failed>>
vars    == <<mode, present, port, clock, rx, step, kernel, history>>

-----------------------------------------------------------------------------
(* The direction of the line                                                 *)

Fault == faults < MaxFaults /\ faults' = faults + 1

\* uart_rs485_tx_enable leaves the pin high, or fails and changes nothing.
Driving      == mode = "485"
CannotDrive  == mode = "485" /\ ~de /\ Fault

\* What the line carries of pieces that leave while the pin is at this level.
Seen(pieces, level) == IF Driving /\ level = "low" THEN <<>> ELSE pieces

\* uart_rs485_tx_disable when k of the n pieces in the UART went out before
\* tcdrain returned (a signal ends it early, its result is ignored) and the
\* write of 0 leaves the pin at this level (it may be refused, and is ignored).
LetGo(n, k, level) ==
  /\ de' = FALSE /\ pin' = level
  /\ cut' = (k < n) /\ lost' = (lost \/ k < n) /\ refused' = (level = "high")
  /\ IF k < n \/ level = "high" THEN Fault ELSE UNCHANGED faults

\* Mutant of TxDisable: it does not wait for tcdrain.
TxDisableAtOnce(left) ==
  IF Driving
  THEN \E level \in {"low", "high"} : LetGo(0, 0, level) /\ line' = line /\ out' = left
  ELSE out' = left /\ UNCHANGED <<line, de, pin, failed>>

\* uart_rs485_tx_disable after a write that leaves the kernel with left.
TxDisable(left) ==
  IF Driving
  THEN \E k \in 0 .. Len(left), level \in {"low", "high"} :
         /\ LetGo(Len(left), k, level)
         /\ line' = line \o SubSeq(left, 1, k)
         /\ out' = SubSeq(left, k + 1, Len(left))
  ELSE out' = left /\ UNCHANGED <<line, de, pin, failed>>

\* uart_rs485_tx_enable after such a write: DE is on.
TxEnabled(left) ==
  /\ out' = left /\ de' = Driving
  /\ pin' = IF Driving THEN "high" ELSE pin
  /\ UNCHANGED <<line, failed>>

\* uart_device_close: the driver is let go, close(2) lets the output out and drops
\* the input.  send_buf stays as it is.
DeviceClose ==
  /\ fd' = "none" /\ watchOut' = FALSE
  /\ IF de
     THEN \E k \in 0 .. Len(out), level \in {"low", "high"} :
            /\ LetGo(Len(out), k, level)
            /\ line' = line \o SubSeq(out, 1, k) \o Seen(SubSeq(out, k + 1, Len(out)), level)
     ELSE line' = line \o Seen(out, pin) /\ UNCHANGED <<de, pin, failed>>
  /\ out' = <<>> /\ in' = <<>>

\* uart_reopen_delay_ms and uart_timer_arm
ReopenDelay == Delay(retry)
TimerArm(was) == timer' = ArmTimer(ReopenDelay, was)

\* uart_schedule_reopen
ScheduleReopen ==
  /\ DeviceClose
  /\ armed' = TRUE
  /\ TimerArm(timer)
  /\ retry' = retry + 1
  /\ UNCHANGED <<queue, off>>

-----------------------------------------------------------------------------
(* The device                                                                *)

DeviceLost ==
  /\ present /\ Fault
  /\ present' = FALSE /\ lost' = TRUE
  /\ fd' = IF fd = "live" THEN "hung" ELSE fd
  /\ out' = <<>> /\ in' = <<>>
  /\ UNCHANGED <<mode, de, queue, off, watchOut, clock, rx, step, pin, sent, taken, line, heard, given, cut, refused>>

\* A descriptor of the lost device stays hung.
DeviceBack ==
  /\ ~present /\ present' = TRUE
  /\ UNCHANGED <<mode, port, clock, rx, step, kernel, history>>

\* A piece leaves; with the driver off nobody sees it.
Shift ==
  /\ out # <<>>
  /\ out' = Tail(out)
  /\ line' = line \o Seen(<<Head(out)>>, pin)
  /\ UNCHANGED <<mode, present, port, clock, rx, step, pin, in, sent, taken, heard, given, failed>>

\* The peer's next piece; it is lost if nobody listens or the kernel is full.
Arrives ==
  /\ heard < MaxHeard * Parts
  /\ heard' = heard + 1
  /\ in' = IF fd = "live" /\ Len(in) < InCap /\ pin = "low"
           THEN Append(in, [n |-> (heard \div Parts) + 1, part |-> (heard % Parts) + 1])
           ELSE in
  /\ UNCHANGED <<mode, present, port, clock, rx, step, pin, out, sent, taken, line, given, failed>>

-----------------------------------------------------------------------------
(* Events: uart_handle_event                                                 *)

\* Mutant of Watch: the events are left as they are.
WatchNot(q) == FALSE

\* uart_epoll_events
Watch(q) == q # <<>>

\* uart_device_open succeeds when the device node is there.
DeviceOpen == present /\ fd' = "live"

\* The timer has gone off (it runs only while the reopening is armed) and
\* uart_try_reopen finds the device, or not.
Reopen ==
  /\ step = "idle" /\ timer = "set" /\ armed
  /\ timer' = "off" /\ armed' = FALSE /\ retry' = 0
  /\ DeviceOpen /\ watchOut' = Watch(queue)
  /\ step' = "read"
  /\ UNCHANGED <<mode, present, de, queue, off, rx, kernel, history>>

\* Mutant of TriesAgain: a device that is not back is not waited for.
TriesNoMore == timer' = "off" /\ armed' = FALSE /\ retry' = retry

\* uart_schedule_reopen from uart_try_reopen, with nothing to close
TriesAgain == TimerArm("off") /\ armed' = TRUE /\ retry' = retry + 1

ReopenFails ==
  /\ step = "idle" /\ timer = "set" /\ armed /\ ~present
  /\ TriesAgain
  /\ UNCHANGED <<mode, present, port, rx, step, kernel, history>>

\* EPOLLHUP or EPOLLERR, or a write that fails in uart_flush_send
HangUp ==
  /\ step = "idle" /\ fd = "hung"
  /\ ScheduleReopen
  /\ UNCHANGED <<mode, present, rx, step, sent, taken, heard, given>>

\* Mutant of Finished: DE is left on.
FinishedNever(rest) == FALSE

\* Whether all was written, so that DE is turned off again.
Finished(rest) == rest = <<>>

CanFlush == step = "idle" /\ fd = "live" /\ watchOut /\ queue # <<>> /\ Len(out) < OutCap

\* EPOLLOUT: uart_flush_send; with all of it sent the buffer starts at 0 again.
Flush ==
  /\ CanFlush
  /\ step' = "read"
  /\ LET m == Min({Len(queue), OutCap - Len(out)})
         rest == SubSeq(queue, m + 1, Len(queue))
         left == out \o SubSeq(queue, 1, m)
     IN  /\ queue' = rest
         /\ off' = IF rest = <<>> THEN 0 ELSE off + m
         /\ watchOut' = Watch(rest)
         /\ IF Finished(rest) THEN TxDisable(left) ELSE TxEnabled(left)
  /\ UNCHANGED <<mode, present, fd, clock, rx, in, sent, taken, heard, given>>

\* The pin cannot be raised: nothing is written, EPOLLOUT comes again.
FlushRefused ==
  /\ CanFlush
  /\ CannotDrive
  /\ step' = "read"
  /\ UNCHANGED <<mode, present, port, clock, rx, kernel, sent, taken, line, heard, given, lost, cut, refused>>

\* EPOLLIN without EPOLLOUT: an event that brings both is a Flush first.
Readable ==
  /\ step = "idle" /\ fd = "live" /\ in # <<>> /\ ~CanFlush
  /\ step' = "read"
  /\ UNCHANGED <<mode, present, port, clock, rx, kernel, history>>

-----------------------------------------------------------------------------
(* Receiving: uart_recv and the loop of on_transport_event                   *)

Listening == step = "read" /\ fd # "none" /\ ~de

Recv ==
  /\ Listening /\ in # <<>>
  /\ LET m == Min({Len(in), RxCap - Len(rx)})
     IN  rx' = rx \o SubSeq(in, 1, m) /\ in' = SubSeq(in, m + 1, Len(in))
  /\ step' = "parse"
  /\ UNCHANGED <<mode, present, port, clock, pin, out, history>>

\* read() = 0 is the end of the device.
TakenForLost(answer) == answer = "zero"

\* EAGAIN; or the port is closed; or it is transmitting.
RecvNothing ==
  /\ step = "read"
  /\ \/ fd = "none" \/ de
     \/ fd = "live" /\ in = <<>> /\ \E answer \in IdleRead : ~TakenForLost(answer)
  /\ step' = "idle"
  /\ UNCHANGED <<mode, present, port, clock, rx, kernel, history>>

\* 0 bytes, or an error
RecvLost ==
  /\ Listening /\ in = <<>>
  /\ fd = "hung" \/ \E answer \in IdleRead : TakenForLost(answer)
  /\ ScheduleReopen
  /\ step' = "idle"
  /\ UNCHANGED <<mode, present, rx, sent, taken, heard, given>>

ParseFrame ==
  /\ step = "parse" /\ Whole(rx)
  /\ given' = Append(given, rx[1].n)
  /\ rx' = Consumed(rx)
  /\ UNCHANGED <<mode, present, port, clock, step, kernel, sent, taken, line, heard, failed>>

ParseEnds ==
  /\ step = "parse" /\ ~Whole(rx)
  /\ IF Bad(rx) THEN rx' = <<>> /\ step' = "idle" ELSE rx' = rx /\ step' = "read"
  /\ UNCHANGED <<mode, present, port, clock, kernel, history>>

-----------------------------------------------------------------------------
(* Sending: uart_send, for a client while idle, for an ACK while parsing     *)

\* Mutant of FitsQueue: no limit.
FitsAlways(q) == TRUE

\* uart_ensure_send_cap: the unsent bytes fit.
FitsQueue(q) == Len(q) + Parts <= SendCap

\* Mutant of Direct: it tries the device first.
DirectAlways(q) == TRUE

Direct(q) == q = <<>>

Sends ==
  /\ step \in {"idle", "parse"} /\ sent < MaxSent
  /\ sent' = sent + 1
  /\ UNCHANGED <<mode, present, rx, heard, given>>

\* The port is closed, send_buf is full, or the pin cannot be raised.
SendRefused ==
  /\ Sends
  /\ \/ /\ fd = "none" \/ (~Direct(queue) /\ ~FitsQueue(queue))
        /\ UNCHANGED faults
     \/ fd # "none" /\ Direct(queue) /\ CannotDrive
  /\ UNCHANGED <<port, clock, step, kernel, taken, line, lost, cut, refused>>

\* The kernel takes what it has room for; uart_queue_send keeps the rest, with
\* DE still on.
SendNow ==
  /\ Sends /\ fd = "live" /\ Direct(queue)
  /\ LET m == Min({Parts, OutCap - Len(out)})
         rest == queue \o SubSeq(Frame(sent + 1), m + 1, Parts)
         left == out \o SubSeq(Frame(sent + 1), 1, m)
     IN  /\ queue' = rest
         /\ watchOut' = Watch(rest)
         /\ IF Finished(rest) THEN TxDisable(left) ELSE TxEnabled(left)
  /\ taken' = Append(taken, sent + 1)
  /\ UNCHANGED <<fd, off, clock, step, in>>

\* The device is gone: write fails, and with it the frame.
SendFails ==
  /\ Sends /\ fd = "hung" /\ Direct(queue)
  /\ ScheduleReopen
  /\ UNCHANGED <<step, taken>>

\* uart_queue_send writes at send_len and never moves the unsent bytes back to
\* the start: past the end of send_buf the program works by luck, or dies.
SendLater ==
  /\ Sends /\ fd # "none" /\ ~Direct(queue) /\ FitsQueue(queue)
  /\ queue' = queue \o Frame(sent + 1)
  /\ watchOut' = Watch(queue')
  /\ taken' = Append(taken, sent + 1)
  /\ \/ UNCHANGED step
     \/ off + Len(queue') > SendCap /\ step' = "crashed"
  /\ UNCHANGED <<fd, de, off, clock, kernel, line, failed>>

\* uart_close, when the daemon is told to stop
Stop ==
  /\ step = "idle"
  /\ DeviceClose
  /\ step' = "stopped" /\ timer' = "off" /\ armed' = FALSE
  /\ queue' = <<>> /\ off' = 0
  /\ UNCHANGED <<mode, present, retry, rx, sent, taken, heard, given>>

-----------------------------------------------------------------------------
(* uart_open and uart_bind_reactor                                           *)

Init ==
  /\ mode \in Modes /\ present = TRUE /\ fd = "live"
  /\ de = FALSE /\ queue = <<>> /\ off = 0 /\ watchOut = FALSE
  /\ retry = 0 /\ armed = FALSE /\ timer = "off"
  /\ rx = <<>> /\ step = "idle"
  /\ pin = "low" /\ out = <<>> /\ in = <<>>
  /\ sent = 0 /\ taken = <<>> /\ line = <<>> /\ heard = 0 /\ given = <<>>
  /\ lost = FALSE /\ cut = FALSE /\ refused = FALSE /\ faults = 0

Runs == step \notin {"stopped", "crashed"}

Works ==
  \/ Reopen \/ ReopenFails \/ HangUp \/ Flush \/ FlushRefused \/ Readable
  \/ Recv \/ RecvNothing \/ RecvLost \/ ParseFrame \/ ParseEnds

Next ==
  \/ Runs /\ (Works \/ SendRefused \/ SendNow \/ SendFails \/ SendLater \/ Stop)
  \/ Runs /\ (DeviceLost \/ DeviceBack \/ Shift \/ Arrives)

Spec == Init /\ [][Next]_vars

\* The loop of the reactor turns, and a UART sends what it holds.  Nobody has to
\* publish, and the device need not come back.
Fairness == WF_vars(Runs /\ Works) /\ WF_vars(Runs /\ Shift)

FairSpec == Spec /\ Fairness

-----------------------------------------------------------------------------
(* Properties                                                                *)

Pieces(max) == [n : 1 .. max, part : 1 .. Parts]

\* The types, and the bytes that each buffer holds unsent or unread (send_buf may
\* still be written past its end, see SendLater); the timer runs only for a reopening.
TypeOK ==
  /\ mode \in Modes /\ present \in BOOLEAN /\ fd \in {"none", "live", "hung"}
  /\ de \in BOOLEAN /\ watchOut \in BOOLEAN /\ off \in Nat
  /\ queue \in Seq(Pieces(MaxSent)) /\ Len(queue) <= SendCap
  /\ retry \in Nat /\ armed \in BOOLEAN /\ timer \in {"off", "set"}
  /\ timer = "set" => armed /\ fd = "none"
  /\ rx \in Seq(Pieces(MaxHeard)) /\ Len(rx) <= RxCap
  /\ step \in {"idle", "read", "parse", "stopped", "crashed"}
  /\ step = "read" => Len(rx) < Parts
  /\ pin \in {"low", "high"}
  /\ out \in Seq(Pieces(MaxSent)) /\ Len(out) <= OutCap
  /\ in \in Seq(Pieces(MaxHeard)) /\ Len(in) <= InCap
  /\ given \in Seq(1 .. MaxHeard) /\ {sent, heard, faults} \subseteq Nat
  /\ {lost, cut, refused} \subseteq BOOLEAN

\* On RS-485 bytes are in the UART with the line driver off only if a tcdrain was
\* cut short, whose result uart_rs485_tx_disable ignores: otherwise DE is raised
\* before the first write and falls after tcdrain, whatever path leads there (a
\* whole write, a flush, the loss of the device, the end of the daemon).
DriverOn == mode = "485" /\ out # <<>> /\ pin = "low" => cut

\* The board holds the line only while something is left to send and the port is
\* open; the pin is high only then, or if the GPIO refused to let it fall when it
\* was last let go.
BusReleased ==
  /\ de => fd # "none" /\ queue # <<>>
  /\ pin = "high" => de \/ refused

\* Over any number of reopenings nothing goes out twice or overtakes: what went
\* out, is in the UART and waits in send_buf is in the order it was sent.  While
\* the device was never lost and no tcdrain cut short it is byte for byte what
\* uart_send accepted.
LineInOrder ==
  LET all == line \o out \o queue
  IN  /\ \A i \in 1 .. Len(all) - 1 : Place(all[i]) < Place(all[i + 1])
      /\ ~lost /\ step # "stopped" => Carries(all, taken)

\* A frame handed to the bus is later than all before it: in the order the peer
\* sent them and once, although rx_buf keeps half a frame from before the device was lost.
OnceInOrder == \A i, j \in DOMAIN given : i < j => given[i] < given[j]

\* A board without its device has the retry timer running: for the first 23
\* attempts, after which the delay is negative (see RetryIsArmed of TcpTransport).
KeepsTrying == Runs /\ fd = "none" /\ retry <= 23 => armed /\ timer = "set"

\* README.md:271: the port is closed and opened again when the device node is
\* gone.  A device that is there is not given up, except to stop.
KeepsDevice == [][fd = "live" /\ fd' = "none" => step' = "stopped"]_vars

\* What waits in send_buf goes out once the port stays open, however often it was
\* closed and opened before: EPOLLOUT is watched from the reopening on.
Drains == <>[](fd = "live") => (queue # <<>> ~> (queue = <<>> \/ ~Runs))

\* What has arrived is read, although the port is not read while DE is on.
Hears == in # <<>> ~> (in = <<>> \/ ~Runs)
=============================================================================
