------------------------------ MODULE TcpProofs ------------------------------
(***************************************************************************)
(* Theorems about TcpTransport, for any number of connections, frames and    *)
(* faults and every size of the buffers: what reaches the peer's bus over a   *)
(* connection, and over one connection after another.                        *)
(***************************************************************************)
EXTENDS TcpTransport, FramingProofs

-----------------------------------------------------------------------------
(* Types                                                                     *)

\* TypeOK in parts, with what each needs to be inductive: the domains, the types of
\* the history, and that less than a frame is in rx_buf between two events as well.
Ports ==
  /\ fd \in [Boards -> Conns \cup {NoConn}]
  /\ status \in [Boards -> {"none", "connecting", "up"}] /\ status["server"] # "connecting"
  /\ \A b \in Boards : (fd[b] = NoConn) = (status[b] = "none")

Queues ==
  /\ queue \in [Boards -> Seq(AnyPiece)]
  /\ \A b \in Boards : queue[b] \in Seq(Pieces(b)) /\ Len(queue[b]) <= SendCap
  /\ off \in [Boards -> Nat] /\ watchOut \in [Boards -> BOOLEAN]
  /\ taken \in [Boards -> Seq(Nat)]

Counts == sent \in [Boards -> Nat] /\ \A b \in Boards : sent[b] <= MaxSent[b]

Readers ==
  /\ rx \in [Boards -> Seq(AnyPiece)]
  /\ \A b \in Boards : rx[b] \in Seq(Pieces(Peer(b))) /\ Len(rx[b]) <= RxCap
  /\ step \in [Boards -> {"idle", "accept", "read", "parse", "crashed"}]
  /\ \A b \in Boards : step[b] \in {"idle", "accept", "read"} => Len(rx[b]) < Parts
  /\ given \in [Boards -> Seq(Nat)] /\ last \in [Boards -> Nat] /\ clean \in [Boards -> BOOLEAN]

Timers ==
  /\ retry \in Nat /\ armed \in BOOLEAN /\ timer \in {"off", "set"}
  /\ timer = "set" => armed /\ status["client"] = "none"

Links ==
  /\ stage \in [Conns -> {"free", "syn", "open"}]
  /\ backlog \in Seq(Conns) /\ shut \in [Conns -> SUBSET Boards]
  /\ wire \in [Conns -> [Boards -> Seq(AnyPiece)]]
  /\ \A k \in Conns, b \in Boards : wire[k][b] \in Seq(Pieces(b)) /\ Len(wire[k][b]) <= WireCap

Typed == Ports /\ Counts /\ Queues /\ Readers /\ Timers /\ Links

LEMMA Sizes ==
  /\ Parts \in Nat \ {0} /\ SendCap \in Nat /\ WireCap \in Nat /\ RxCap \in Nat
  /\ Parts <= SendCap /\ Parts < RxCap + 1 /\ MaxSent \in [Boards -> Nat] /\ NoConn \notin Conns
BY FramingAssumption, TcpAssumption DEF FramingAssumption, TcpAssumption, RxCap

LEMMA Peers == \A b \in Boards : Peer(b) \in Boards /\ Peer(b) # b /\ Peer(Peer(b)) = b
BY DEF Boards, Peer

\* Empty buffers, and the pieces of a board as pieces.
LEMMA NoPieces == \A S : <<>> \in Seq(S) /\ Len(<<>>) = 0
BY EmptySeq

LEMMA AlsoPieces == \A b \in Boards : \A s \in Seq(Pieces(b)) : s \in Seq(AnyPiece)
<1> TAKE b \in Boards
<1>1. MaxSent[b] \in Nat  BY Sizes
<1>2. Pieces(b) \subseteq AnyPiece  BY <1>1 DEF Pieces, AnyPiece
<1>3. QED  BY <1>2, Wider

\* A frame that may be sent
LEMMA NextFrame ==
  ASSUME Counts, NEW b \in Boards, Sends(b)
  PROVE  /\ Frame(sent[b] + 1) \in Seq(Pieces(b)) /\ Len(Frame(sent[b] + 1)) = Parts
         /\ sent[b] + 1 \in Nat /\ sent[b] + 1 <= MaxSent[b]
<1>1. sent[b] \in Nat /\ MaxSent[b] \in Nat /\ sent[b] < MaxSent[b]  BY Sizes DEF Counts, Sends
<1>2. QED  BY <1>1, FrameInBounds DEF Pieces

-----------------------------------------------------------------------------
(* The compound steps                                                        *)

\* Of the board that starts on a connection or closes its own nothing is left,
\* and of the other board nothing changes.
Restarts(b) ==
  /\ queue' = [queue EXCEPT ![b] = <<>>] /\ off' = [off EXCEPT ![b] = 0]
  /\ \E w \in BOOLEAN : watchOut' = [watchOut EXCEPT ![b] = w]
  /\ taken' = [taken EXCEPT ![b] = <<>>] /\ given' = [given EXCEPT ![b] = <<>>]
  /\ clean' = clean \/ clean' = [clean EXCEPT ![b] = rx[b] = <<>>]

LEMMA StartRestarts == ASSUME NEW b, NEW k, NEW state, Start(b, k, state) PROVE Restarts(b)
BY DEF Start, Afresh, Cleared, Restarts

LEMMA CloseRestarts == ASSUME NEW b, Close(b) PROVE Restarts(b)
BY DEF Close, Afresh, Cleared, Restarts

LEMMA DropCloses == ASSUME NEW b, Drop(b) PROVE Close(b)
BY DEF Drop

\* b goes from one place where rx_buf holds less than a frame to another.
Turned(b) ==
  \/ step' = step
  \/ /\ step[b] \in {"idle", "accept", "read"}
     /\ \E v \in {"idle", "accept", "read"} : step' = [step EXCEPT ![b] = v]

LEMMA RestartTypes ==
  ASSUME Queues, Readers, NEW b \in Boards, Restarts(b)
  PROVE  /\ Queues'
         /\ UNCHANGED <<rx, last>> /\ Turned(b) => Readers'
<1>1. Queues'
  <2>1. queue' \in [Boards -> Seq(AnyPiece)]
    BY NoPieces DEF Restarts, Queues
  <2>2. \A c \in Boards : queue'[c] \in Seq(Pieces(c)) /\ Len(queue'[c]) <= SendCap
    <3> TAKE c \in Boards
    <3>1. queue'[c] = IF c = b THEN <<>> ELSE queue[c]  BY DEF Restarts, Queues
    <3>2. QED  BY <3>1, NoPieces, Sizes DEF Queues
  <2>3. off' \in [Boards -> Nat] /\ watchOut' \in [Boards -> BOOLEAN]  BY DEF Restarts, Queues
  <2>4. taken' \in [Boards -> Seq(Nat)]  BY NoPieces DEF Restarts, Queues
  <2>5. QED  BY <2>1, <2>2, <2>3, <2>4 DEF Queues
<1>2. ASSUME UNCHANGED <<rx, last>>, Turned(b)  PROVE Readers'
  <2>1. given' \in [Boards -> Seq(Nat)]  BY NoPieces DEF Restarts, Readers
  <2>2. clean' \in [Boards -> BOOLEAN]  BY DEF Restarts, Readers
  <2>3. /\ step' \in [Boards -> {"idle", "accept", "read", "parse", "crashed"}]
        /\ \A c \in Boards : step'[c] \in {"idle", "accept", "read"} => Len(rx[c]) < Parts
    BY <1>2 DEF Turned, Readers
  <2>4. QED  BY <1>2, <2>1, <2>2, <2>3 DEF Readers
<1>3. QED  BY <1>1, <1>2
\* What close(2) takes off the wire, and from the table of connections.
LEMMA CloseEndTypes ==
  ASSUME Ports, Links, NEW b \in Boards, fd[b] \in Conns, CloseEnd(b)
  PROVE  /\ stage' \in [Conns -> {"free", "syn", "open"}] /\ shut' \in [Conns -> SUBSET Boards]
         /\ wire' \in [Conns -> [Boards -> Seq(AnyPiece)]]
         /\ \A k \in Conns, c \in Boards : wire'[k][c] \in {wire[k][c], <<>>}
         /\ \A k \in Conns : k # fd[b] =>
              wire'[k] = wire[k] /\ stage'[k] = stage[k] /\ shut'[k] = shut[k]
         /\ wire'[fd[b]][Peer(b)] = <<>>
         /\ Uses(Peer(b), fd[b]) =>
              /\ wire'[fd[b]][b] = wire[fd[b]][b] /\ stage'[fd[b]] = stage[fd[b]]
              /\ shut'[fd[b]] = shut[fd[b]] \cup {b}
         /\ ~Uses(Peer(b), fd[b]) =>
              wire'[fd[b]] = Silence /\ stage'[fd[b]] = "free" /\ shut'[fd[b]] = {}
<1> DEFINE k == fd[b]
           kept == Uses(Peer(b), k)
<1>1. /\ stage' = [stage EXCEPT ![k] = IF kept THEN stage[k] ELSE "free"]
      /\ shut' = [shut EXCEPT ![k] = IF kept THEN shut[k] \cup {b} ELSE {}]
      /\ wire' = [wire EXCEPT ![k] = IF kept THEN [wire[k] EXCEPT ![Peer(b)] = <<>>] ELSE Silence]
  BY DEF CloseEnd
<1>2. Silence \in [Boards -> Seq(AnyPiece)] /\ \A c \in Boards : Silence[c] = <<>>
  BY NoPieces DEF Silence
<1>3. k \in Conns /\ wire[k] \in [Boards -> Seq(AnyPiece)] /\ Peer(b) \in Boards /\ Peer(b) # b
  BY Peers DEF Links
<1>4. [wire[k] EXCEPT ![Peer(b)] = <<>>] \in [Boards -> Seq(AnyPiece)]  BY <1>3, NoPieces
<1>5. wire' \in [Conns -> [Boards -> Seq(AnyPiece)]]  BY <1>1, <1>2, <1>3, <1>4 DEF Links
<1>6. wire'[k] = IF kept THEN [wire[k] EXCEPT ![Peer(b)] = <<>>] ELSE Silence
  BY <1>1, <1>3 DEF Links
<1>7. \A c \in Conns : c # k => wire'[c] = wire[c] /\ stage'[c] = stage[c] /\ shut'[c] = shut[c]
  BY <1>1 DEF Links
<1>8. \A c \in Boards : wire'[k][c] \in {wire[k][c], <<>>}  BY <1>2, <1>3, <1>6
<1>9. /\ wire'[k][Peer(b)] = <<>>
      /\ kept => wire'[k][b] = wire[k][b]
  BY <1>2, <1>3, <1>6
<1>10. stage' \in [Conns -> {"free", "syn", "open"}] /\ shut' \in [Conns -> SUBSET Boards]
  BY <1>1, <1>3 DEF Links
<1>11. /\ stage'[k] = IF kept THEN stage[k] ELSE "free"
       /\ shut'[k] = IF kept THEN shut[k] \cup {b} ELSE {}
  BY <1>1, <1>3 DEF Links
<1>12. \A c \in Conns, d \in Boards : wire'[c][d] \in {wire[c][d], <<>>}  BY <1>7, <1>8
<1>13. QED  BY <1>5, <1>6, <1>7, <1>9, <1>10, <1>11, <1>12

LEMMA CloseEndLinks ==
  ASSUME Ports, Links, NEW b \in Boards, fd[b] \in Conns, CloseEnd(b), backlog' \in Seq(Conns)
  PROVE  Links'
<1>1. /\ stage' \in [Conns -> {"free", "syn", "open"}] /\ shut' \in [Conns -> SUBSET Boards]
      /\ wire' \in [Conns -> [Boards -> Seq(AnyPiece)]]
      /\ \A k \in Conns, c \in Boards : wire'[k][c] \in {wire[k][c], <<>>}
  BY CloseEndTypes
<1>2. \A k \in Conns, c \in Boards : wire'[k][c] \in Seq(Pieces(c)) /\ Len(wire'[k][c]) <= WireCap
  <2> TAKE k \in Conns, c \in Boards
  <2>1. wire[k][c] \in Seq(Pieces(c)) /\ Len(wire[k][c]) <= WireCap  BY DEF Links
  <2>2. <<>> \in Seq(Pieces(c)) /\ Len(<<>>) <= WireCap  BY NoPieces, Sizes
  <2>3. wire'[k][c] = wire[k][c] \/ wire'[k][c] = <<>>  BY <1>1
  <2>4. QED  BY <2>1, <2>2, <2>3, Zenon
<1>3. QED  BY <1>1, <1>2 DEF Links

\* The timer of tcp_schedule_reconnect
LEMMA TimerTypes ==
  ASSUME Timers, Schedule \/ ScheduleTwice, status'["client"] = "none"
  PROVE  Timers'
<1>1. \A d, was : was \in {"off", "set"} => ArmTimer(d, was) \in {"off", "set"}  BY DEF ArmTimer
<1>2. CASE Schedule  BY <1>1, <1>2 DEF Schedule, Timers
<1>3. CASE ScheduleTwice  BY <1>1, <1>3 DEF ScheduleTwice, Timers
<1>4. QED  BY <1>2, <1>3

\* A step that closes a connection and leaves rx_buf as it is.
LEMMA CloseTypes ==
  ASSUME Typed, NEW b \in Boards, Close(b), status[b] # "none", Turned(b),
         UNCHANGED <<rx, last>>
  PROVE  Ports' /\ Queues' /\ Readers' /\ Links' /\ status'[b] = "none"
<1>1. Ports /\ Queues /\ Readers /\ Links  BY DEF Typed
<1>2. fd[b] \in Conns  BY <1>1 DEF Ports
<1>3. Ports' /\ status'[b] = "none"
  <2>1. fd' = [fd EXCEPT ![b] = NoConn] /\ status' = [status EXCEPT ![b] = "none"]  BY DEF Close
  <2>2. QED  BY <1>1, <2>1 DEF Ports
<1>4. Queues' /\ Readers'  BY <1>1, CloseRestarts, RestartTypes
<1>5. Links'
  <2>1. CloseEnd(b) /\ backlog' = backlog  BY DEF Close
  <2>2. backlog' \in Seq(Conns)  BY <1>1, <2>1 DEF Links
  <2>3. QED  BY <1>1, <1>2, <2>1, <2>2, CloseEndLinks
<1>6. QED  BY <1>3, <1>4, <1>5

LEMMA SendsCounts == ASSUME Counts, NEW b \in Boards, Sends(b) PROVE Counts'
<1>1. sent[b] + 1 \in Nat /\ sent[b] + 1 <= MaxSent[b] /\ sent' = [sent EXCEPT ![b] = sent[b] + 1]
  BY NextFrame DEF Sends
<1>2. QED  BY <1>1 DEF Counts

\* One direction of one connection changes.
LEMMA WireTypes ==
  ASSUME Links, NEW k \in Conns, NEW b \in Boards, NEW w \in Seq(Pieces(b)), Len(w) <= WireCap,
         wire' = [wire EXCEPT ![k][b] = w], UNCHANGED <<stage, backlog, shut>>
  PROVE  Links' /\ wire'[k][b] = w
         /\ \A c \in Conns, d \in Boards : c # k \/ d # b => wire'[c][d] = wire[c][d]
<1>1. w \in Seq(AnyPiece)  BY AlsoPieces
<1>2. wire' \in [Conns -> [Boards -> Seq(AnyPiece)]] /\ wire'[k][b] = w
      /\ \A c \in Conns, d \in Boards : c # k \/ d # b => wire'[c][d] = wire[c][d]
  BY <1>1 DEF Links
<1>3. \A c \in Conns, d \in Boards : wire'[c][d] \in Seq(Pieces(d)) /\ Len(wire'[c][d]) <= WireCap
  <2> TAKE c \in Conns, d \in Boards
  <2>1. CASE c = k /\ d = b  BY <1>2, <2>1
  <2>2. CASE c # k \/ d # b  BY <1>2, <2>2 DEF Links
  <2>3. QED  BY <2>1, <2>2
<1>4. QED  BY <1>2, <1>3 DEF Links

\* One queue changes, and what goes with it.
LEMMA QueueTypes ==
  ASSUME Queues, NEW b \in Boards, NEW q \in Seq(Pieces(b)), Len(q) <= SendCap,
         queue' = [queue EXCEPT ![b] = q], off' \in [Boards -> Nat],
         \E w \in BOOLEAN : watchOut' = [watchOut EXCEPT ![b] = w],
         taken' \in [Boards -> Seq(Nat)]
  PROVE  Queues'
<1>1. q \in Seq(AnyPiece)  BY AlsoPieces
<1>2. queue' \in [Boards -> Seq(AnyPiece)] /\ watchOut' \in [Boards -> BOOLEAN]
  BY <1>1 DEF Queues
<1>3. \A c \in Boards : queue'[c] \in Seq(Pieces(c)) /\ Len(queue'[c]) <= SendCap
  <2> TAKE c \in Boards
  <2>1. queue'[c] = IF c = b THEN q ELSE queue[c]  BY DEF Queues
  <2>2. QED  BY <2>1 DEF Queues
<1>4. QED  BY <1>2, <1>3 DEF Queues

\* One rx_buf changes.
LEMMA ReaderTypes ==
  ASSUME Readers, NEW b \in Boards, NEW r \in Seq(Pieces(Peer(b))), Len(r) <= RxCap,
         NEW v \in {"idle", "accept", "read", "parse", "crashed"},
         v \in {"idle", "accept", "read"} => Len(r) < Parts,
         rx' = [rx EXCEPT ![b] = r], step' = [step EXCEPT ![b] = v], clean' = clean,
         given' \in [Boards -> Seq(Nat)], last' \in [Boards -> Nat]
  PROVE  Readers'
<1>1. r \in Seq(AnyPiece)  BY AlsoPieces, Peers
<1>2. rx' \in [Boards -> Seq(AnyPiece)]
      /\ step' \in [Boards -> {"idle", "accept", "read", "parse", "crashed"}]
  BY <1>1 DEF Readers
<1>3. \A c \in Boards : /\ rx'[c] \in Seq(Pieces(Peer(c))) /\ Len(rx'[c]) <= RxCap
                        /\ step'[c] \in {"idle", "accept", "read"} => Len(rx'[c]) < Parts
  <2> TAKE c \in Boards
  <2>1. CASE c = b
    <3>1. rx'[c] = r /\ step'[c] = v  BY <2>1 DEF Readers
    <3>2. QED  BY <2>1, <3>1
  <2>2. CASE c # b
    <3>1. rx'[c] = rx[c] /\ step'[c] = step[c]  BY <2>2 DEF Readers
    <3>2. QED  BY <3>1 DEF Readers
  <2>3. QED  BY <2>1, <2>2
<1>4. QED  BY <1>2, <1>3 DEF Readers

-----------------------------------------------------------------------------
(* Every step keeps the types                                                *)

\* A drop, from wherever the board is.
LEMMA DropTypes ==
  ASSUME Typed, NEW b \in Boards, Drop(b), status[b] = "up", Turned(b), Counts',
         UNCHANGED <<rx, last>>
  PROVE  Typed'
<1>1. Close(b) /\ Ports' /\ Queues' /\ Readers' /\ Links' /\ status'[b] = "none"
  BY DropCloses, CloseTypes
<1>2. Timers'
  <2>1. CASE b = "client"  BY <1>1, <2>1, TimerTypes DEF Drop, Typed
  <2>2. CASE b # "client"
    <3>1. status' = [status EXCEPT ![b] = "none"] /\ clock' = clock  BY <1>1, <2>2 DEF Drop, Close
    <3>2. status'["client"] = status["client"]  BY <2>2, <3>1 DEF Typed, Ports, Boards
    <3>3. QED  BY <3>1, <3>2 DEF Typed, Timers, clock
  <2>3. QED  BY <2>1, <2>2
<1>3. QED  BY <1>1, <1>2 DEF Typed

LEMMA ConnectTypes ==
  ASSUME Typed, TimerFires \/ ConnectReady \/ ConnectFails \/ Accept
  PROVE  Typed'
<1> USE DEF local, clock, network
<1>0. Ports /\ Counts /\ Queues /\ Readers /\ Timers /\ Links /\ "client" \in Boards /\ "server" \in Boards
  BY DEF Typed, Boards
<1>1. CASE TimerFires
  <2>1. timer' = "off" /\ armed' = FALSE /\ UNCHANGED <<retry, rx, shut, wire, sent, last>>
        /\ step["client"] = "idle"
    BY <1>1 DEF TimerFires
  <2>2. Timers' /\ Counts'  BY <1>0, <2>1 DEF Timers, Counts
  <2>3. ASSUME NEW k \in Conns, NEW state \in {"connecting", "up"}, Start("client", k, state),
               Turned("client")
        PROVE  Ports' /\ Queues' /\ Readers'
    <3>1. Queues' /\ Readers'  BY <1>0, <2>1, <2>3, StartRestarts, RestartTypes
    <3>2. fd' = [fd EXCEPT !["client"] = k] /\ status' = [status EXCEPT !["client"] = state]
      BY <2>3 DEF Start
    <3>3. Ports'  BY <1>0, <2>3, <3>2, Sizes DEF Ports
    <3>4. QED  BY <3>1, <3>3
  <2>4. CASE UNCHANGED step /\ \E k \in Conns : stage[k] = "free" /\ Connecting(k)
    <3>1. PICK k \in Conns : Connecting(k)  BY <2>4
    <3>2. Ports' /\ Queues' /\ Readers'  BY <2>3, <2>4, <3>1 DEF Connecting, Turned
    <3>3. stage' = [stage EXCEPT ![k] = "syn"] /\ backlog' = backlog  BY <3>1 DEF Connecting
    <3>4. Links'  BY <1>0, <2>1, <3>3 DEF Links
    <3>5. QED  BY <2>2, <3>2, <3>4 DEF Typed
  <2>5. CASE /\ \E k \in Conns : stage[k] = "free" /\ ConnectedAtOnce(k)
             /\ step' = [step EXCEPT !["client"] = "read"]
    <3>1. PICK k \in Conns : ConnectedAtOnce(k)  BY <2>5
    <3>2. Ports' /\ Queues' /\ Readers'  BY <2>1, <2>3, <2>5, <3>1 DEF ConnectedAtOnce, Turned
    <3>3. stage' = [stage EXCEPT ![k] = "open"] /\ backlog' = Append(backlog, k)
      BY <3>1 DEF ConnectedAtOnce
    <3>4. Links'  BY <1>0, <2>1, <3>3, AppendProperties DEF Links
    <3>5. QED  BY <2>2, <3>2, <3>4 DEF Typed
  <2>6. CASE FailedAtOnce /\ UNCHANGED step
    BY <1>0, <2>1, <2>2, <2>6 DEF FailedAtOnce, Typed, Ports, Queues, Readers, Links
  <2>7. QED  BY <1>1, <2>4, <2>5, <2>6 DEF TimerFires
<1>2. CASE ConnectReady
  <2>1. /\ Start("client", fd["client"], "up") /\ retry' = 0 /\ Turned("client")
        /\ status["client"] = "connecting"
        /\ UNCHANGED <<armed, timer, rx, stage, backlog, shut, wire, sent, last>>
    BY <1>2 DEF ConnectReady, Turned
  <2>2. Queues' /\ Readers'  BY <1>0, <2>1, StartRestarts, RestartTypes
  <2>3. fd' = [fd EXCEPT !["client"] = fd["client"]] /\ status' = [status EXCEPT !["client"] = "up"]
    BY <2>1 DEF Start
  <2>4. Ports'  BY <1>0, <2>1, <2>3, Sizes DEF Ports
  <2>5. Timers' /\ Counts' /\ Links'  BY <1>0, <2>1 DEF Timers, Counts, Links
  <2>6. QED  BY <2>2, <2>4, <2>5 DEF Typed
<1>3. CASE ConnectFails
  <2>1. /\ status["client"] = "connecting" /\ Close("client") /\ ScheduleTwice
        /\ UNCHANGED <<rx, step, sent, last>>
    BY <1>3 DEF ConnectFails
  <2>2. Turned("client")  BY <2>1 DEF Turned
  <2>3. Ports' /\ Queues' /\ Readers' /\ Links' /\ status'["client"] = "none"
    BY <1>0, <2>1, <2>2, CloseTypes
  <2>4. Timers' /\ Counts'  BY <1>0, <2>1, <2>3, TimerTypes DEF Counts
  <2>5. QED  BY <2>3, <2>4 DEF Typed
<1>4. CASE Accept
  <2> DEFINE k == Head(backlog)
  <2>1. /\ Start("server", k, "up") /\ backlog # <<>> /\ backlog' = Tail(backlog)
        /\ IF fd["server"] = NoConn THEN UNCHANGED <<stage, shut, wire>> ELSE CloseEnd("server")
        /\ UNCHANGED <<rx, retry, armed, timer, sent, last>>
        /\ step["server"] \in {"idle", "accept"}
        /\ step' = [step EXCEPT !["server"] = IF Tail(backlog) = <<>> THEN "read" ELSE "accept"]
    BY <1>4 DEF Accept
  <2>2. k \in Conns /\ backlog' \in Seq(Conns)  BY <1>0, <2>1, FirstAndRest DEF Links
  <2>3. Turned("server")  BY <2>1 DEF Turned
  <2>4. Queues' /\ Readers'  BY <1>0, <2>1, <2>3, StartRestarts, RestartTypes
  <2>5. fd' = [fd EXCEPT !["server"] = k] /\ status' = [status EXCEPT !["server"] = "up"]
    BY <2>1 DEF Start
  <2> HIDE DEF k
  <2>6. Ports'  BY <1>0, <2>2, <2>5, Sizes DEF Ports
  <2>7. Links'
    <3>1. CASE fd["server"] = NoConn  BY <1>0, <2>1, <2>2, <3>1 DEF Links
    <3>2. CASE fd["server"] # NoConn
      <4>1. fd["server"] \in Conns /\ CloseEnd("server")  BY <1>0, <2>1, <3>2 DEF Ports
      <4>2. QED  BY <1>0, <2>2, <4>1, CloseEndLinks
    <3>3. QED  BY <3>1, <3>2
  <2>8. Timers' /\ Counts'
    <3>1. status'["client"] = status["client"]  BY <1>0, <2>5 DEF Ports
    <3>2. QED  BY <1>0, <2>1, <3>1 DEF Timers, Counts
  <2>9. QED  BY <2>4, <2>6, <2>7, <2>8 DEF Typed
<1>5. QED  BY <1>1, <1>2, <1>3, <1>4

LEMMA NetworkTypes ==
  ASSUME Typed, NEW k \in Conns, Handshake(k) \/ Break(k)
  PROVE  Typed'
<1> USE DEF local, clock, network, history
<1>0. Ports /\ Counts /\ Queues /\ Readers /\ Timers /\ Links  BY DEF Typed
<1>1. CASE Handshake(k)
  <2>1. /\ stage' = [stage EXCEPT ![k] = "open"] /\ backlog' = Append(backlog, k)
        /\ UNCHANGED <<local, rx, step, clock, shut, wire, history>>
    BY <1>1 DEF Handshake
  <2>2. Links'  BY <1>0, <2>1, AppendProperties DEF Links
  <2>3. QED  BY <1>0, <2>1, <2>2 DEF Typed, Ports, Counts, Queues, Readers, Timers
<1>2. CASE Break(k)
  <2>1. /\ shut' = [shut EXCEPT ![k] = Boards] /\ wire' = [wire EXCEPT ![k] = Silence]
        /\ UNCHANGED <<local, rx, step, clock, stage, backlog, sent, taken, given, last, clean>>
    BY <1>2 DEF Break
  <2>2. Silence \in [Boards -> Seq(AnyPiece)] /\ \A c \in Boards : Silence[c] = <<>>
    BY NoPieces DEF Silence
  <2>3. wire' \in [Conns -> [Boards -> Seq(AnyPiece)]] /\ shut' \in [Conns -> SUBSET Boards]
        /\ \A c \in Conns, d \in Boards : wire'[c][d] \in {wire[c][d], <<>>}
    BY <1>0, <2>1, <2>2 DEF Links
  <2>4. \A c \in Conns, d \in Boards : wire'[c][d] \in Seq(Pieces(d)) /\ Len(wire'[c][d]) <= WireCap
    <3> TAKE c \in Conns, d \in Boards
    <3>1. wire[c][d] \in Seq(Pieces(d)) /\ Len(wire[c][d]) <= WireCap  BY <1>0 DEF Links
    <3>2. <<>> \in Seq(Pieces(d)) /\ Len(<<>>) <= WireCap  BY NoPieces, Sizes
    <3>3. wire'[c][d] = wire[c][d] \/ wire'[c][d] = <<>>  BY <2>3
    <3>4. QED  BY <3>1, <3>2, <3>3, Zenon
  <2>5. Links'  BY <1>0, <2>1, <2>3, <2>4 DEF Links
  <2>6. QED  BY <1>0, <2>1, <2>5 DEF Typed, Ports, Counts, Queues, Readers, Timers
<1>3. QED  BY <1>1, <1>2

\* What is found at the head of rx_buf
LEMMA ParseTypes ==
  ASSUME Readers, NEW b \in Boards
  PROVE  /\ Whole(rx[b]) => /\ rx[b][1].n \in Nat /\ Consumed(rx[b]) \in Seq(Pieces(Peer(b)))
                            /\ Len(Consumed(rx[b])) <= RxCap
         /\ ~Whole(rx[b]) /\ ~Bad(rx[b]) => Len(rx[b]) < Parts
<1> DEFINE r == rx[b]
<1>1. r \in Seq(Pieces(Peer(b))) /\ Len(r) \in Nat /\ Len(r) <= RxCap
  BY LenProperties DEF Readers
<1> HIDE DEF r
<1>2. Parts \in Nat \ {0} /\ RxCap \in Nat  BY Sizes
<1>3. ASSUME Whole(r)
      PROVE  r[1].n \in Nat /\ Consumed(r) \in Seq(Pieces(Peer(b))) /\ Len(Consumed(r)) <= RxCap
  <2>1. Len(r) >= Parts  BY <1>3 DEF Whole
  <2>2. 1 \in 1 .. Len(r) /\ Parts \in 0 .. Len(r)  BY <1>1, <1>2, <2>1
  <2>3. r[1] \in Pieces(Peer(b)) /\ MaxSent[Peer(b)] \in Nat
    BY <1>1, <2>2, ElementOfSeq, Sizes, Peers
  <2>4. Consumed(r) \in Seq(Pieces(Peer(b))) /\ Len(Consumed(r)) = Len(r) - Parts
    BY <1>1, <2>2, Cut DEF Consumed
  <2>5. Len(Consumed(r)) <= RxCap  BY <1>1, <1>2, <2>4
  <2>6. QED  BY <2>3, <2>4, <2>5 DEF Pieces
<1>4. ASSUME ~Whole(r), ~Bad(r)  PROVE Len(r) < Parts
  <2>1. r = <<>> \/ ~(Len(r) >= Parts)  BY <1>4 DEF Bad
  <2>2. r = <<>> => Len(r) = 0  BY EmptySeq
  <2>3. QED  BY <1>1, <1>2, <2>1, <2>2
<1>5. QED  BY <1>3, <1>4 DEF r

\* What one recv moves
LEMMA RecvTypes ==
  ASSUME Typed, NEW b \in Boards, fd[b] \in Conns,
         NEW j \in 1 .. Min({Len(Incoming(b)), RxCap - Len(rx[b])})
  PROVE  /\ Incoming(b) \in Seq(Pieces(Peer(b))) /\ j \in 0 .. Len(Incoming(b))
         /\ SubSeq(Incoming(b), 1, j) \in Seq(Pieces(Peer(b)))
         /\ SubSeq(Incoming(b), j + 1, Len(Incoming(b))) \in Seq(Pieces(Peer(b)))
         /\ Len(SubSeq(Incoming(b), j + 1, Len(Incoming(b)))) <= WireCap
         /\ rx[b] \o SubSeq(Incoming(b), 1, j) \in Seq(Pieces(Peer(b)))
         /\ Len(rx[b] \o SubSeq(Incoming(b), 1, j)) <= RxCap
<1> DEFINE in == Incoming(b)
           r == rx[b]
           P == Pieces(Peer(b))
<1>1. in \in Seq(P) /\ Len(in) <= WireCap /\ Len(in) \in Nat
      /\ r \in Seq(P) /\ Len(r) <= RxCap /\ Len(r) \in Nat
  BY LenProperties, Peers DEF Typed, Links, Readers, Incoming
<1>2. j \in 1 .. Min({Len(in), RxCap - Len(r)})  OBVIOUS
<1> HIDE DEF in, r, P
<1>3. RxCap - Len(r) \in Nat /\ RxCap \in Nat /\ WireCap \in Nat  BY <1>1, Sizes
<1>4. j \in 0 .. Len(in) /\ j <= RxCap - Len(r)
  <2>1. Min({Len(in), RxCap - Len(r)}) \in 0 .. Len(in) /\ Min({Len(in), RxCap - Len(r)}) <= RxCap - Len(r)
    BY <1>1, <1>3, Smaller
  <2>2. QED  BY <1>1, <1>2, <1>3, <2>1
<1> DEFINE x == SubSeq(in, 1, j)
           y == SubSeq(in, j + 1, Len(in))
<1>5. x \in Seq(P) /\ Len(x) = j /\ y \in Seq(P) /\ Len(y) = Len(in) - j  BY <1>1, <1>4, Cut
<1> HIDE DEF x, y
<1>6. r \o x \in Seq(P) /\ Len(r \o x) = Len(r) + j  BY <1>1, <1>5, ConcatProperties
<1>7. Len(r \o x) <= RxCap /\ Len(y) <= WireCap  BY <1>1, <1>3, <1>4, <1>5, <1>6
<1>8. QED  BY <1>1, <1>4, <1>5, <1>6, <1>7 DEF in, r, P, x, y

LEMMA ReadTypes ==
  ASSUME Typed, NEW b \in Boards, Works(b), ~Flush(b)
  PROVE  Typed'
<1> USE DEF local, clock, network, history
<1>0. Ports /\ Counts /\ Queues /\ Readers /\ Timers /\ Links  BY DEF Typed
<1>1. CASE Readable(b) \/ RecvNothing(b)
  <2>1. /\ UNCHANGED <<local, rx, clock, network, history>>
        /\ step[b] \in {"idle", "read"}
        /\ \E v \in {"idle", "read"} : step' = [step EXCEPT ![b] = v]
    BY <1>1 DEF Readable, RecvNothing
  <2>2. Readers'  BY <1>0, <2>1 DEF Readers
  <2>3. QED  BY <1>0, <2>1, <2>2 DEF Typed, Ports, Counts, Queues, Timers, Links
<1>2. CASE HangUp(b)
  BY <1>0, <1>2, DropTypes DEF HangUp, Turned, Counts
<1>3. CASE RecvEof(b)
  BY <1>0, <1>3, DropTypes DEF RecvEof, Turned, Counts
<1>4. CASE Recv(b)
  <2>1. PICK j \in 1 .. Min({Len(Incoming(b)), RxCap - Len(rx[b])}) :
          /\ rx' = [rx EXCEPT ![b] = rx[b] \o SubSeq(Incoming(b), 1, j)]
          /\ wire' = [wire EXCEPT ![fd[b]][Peer(b)] =
                        SubSeq(wire[fd[b]][Peer(b)], j + 1, Len(wire[fd[b]][Peer(b)]))]
    BY <1>4 DEF Recv
  <2>2. status[b] = "up" /\ step' = [step EXCEPT ![b] = "parse"]
        /\ UNCHANGED <<local, clock, stage, backlog, shut, history>>
    BY <1>4 DEF Recv
  <2>3. fd[b] \in Conns /\ Peer(b) \in Boards  BY <1>0, <2>2, Peers DEF Ports
  <2> DEFINE more == rx[b] \o SubSeq(Incoming(b), 1, j)
             rest == SubSeq(Incoming(b), j + 1, Len(Incoming(b)))
  <2>4. /\ rx' = [rx EXCEPT ![b] = more] /\ wire' = [wire EXCEPT ![fd[b]][Peer(b)] = rest]
        /\ more \in Seq(Pieces(Peer(b))) /\ Len(more) <= RxCap
        /\ rest \in Seq(Pieces(Peer(b))) /\ Len(rest) <= WireCap
    BY <2>1, <2>3, RecvTypes DEF Incoming
  <2> HIDE DEF more, rest
  <2>5. Links'  BY <1>0, <2>2, <2>3, <2>4, WireTypes
  <2>6. Readers'
    <3>1. given' \in [Boards -> Seq(Nat)] /\ last' \in [Boards -> Nat]  BY <1>0, <2>2 DEF Readers
    <3>2. QED  BY <1>0, <2>2, <2>4, <3>1, ReaderTypes
  <2>7. QED  BY <1>0, <2>2, <2>5, <2>6 DEF Typed, Ports, Counts, Queues, Timers
<1>5. CASE ParseFrame(b)
  <2>1. /\ Whole(rx[b]) /\ step[b] = "parse" /\ step' = step
        /\ last' = [last EXCEPT ![b] = rx[b][1].n]
        /\ given' = [given EXCEPT ![b] = Append(given[b], rx[b][1].n)]
        /\ rx' = [rx EXCEPT ![b] = Consumed(rx[b])]
        /\ UNCHANGED <<local, clock, network, sent, taken, clean, faults>>
    BY <1>5 DEF ParseFrame
  <2>2. /\ rx[b][1].n \in Nat /\ Consumed(rx[b]) \in Seq(Pieces(Peer(b)))
        /\ Len(Consumed(rx[b])) <= RxCap
    BY <1>0, <2>1, ParseTypes
  <2>3. Append(given[b], rx[b][1].n) \in Seq(Nat)  BY <1>0, <2>2, AppendProperties DEF Readers
  <2>4. given' \in [Boards -> Seq(Nat)] /\ last' \in [Boards -> Nat]
    BY <1>0, <2>1, <2>2, <2>3 DEF Readers
  <2>5. step' = [step EXCEPT ![b] = "parse"]  BY <1>0, <2>1 DEF Readers
  <2>6. Readers'  BY <1>0, <2>1, <2>2, <2>4, <2>5, ReaderTypes
  <2>7. QED  BY <1>0, <2>1, <2>6 DEF Typed, Ports, Counts, Queues, Timers, Links
<1>6. CASE ParseWait(b)
  <2>1. /\ Len(rx[b]) < Parts /\ step' = [step EXCEPT ![b] = "read"]
        /\ UNCHANGED <<local, rx, clock, network, history>>
    BY <1>0, <1>6, ParseTypes DEF ParseWait
  <2>2. Readers'  BY <1>0, <2>1 DEF Readers
  <2>3. QED  BY <1>0, <2>1, <2>2 DEF Typed, Ports, Counts, Queues, Timers, Links
<1>7. CASE ParseBad(b)
  <2>1. /\ rx' = [rx EXCEPT ![b] = <<>>] /\ step' = [step EXCEPT ![b] = "idle"]
        /\ UNCHANGED <<local, clock, network, history>>
    BY <1>7 DEF ParseBad
  <2>2. /\ <<>> \in Seq(Pieces(Peer(b))) /\ Len(<<>>) <= RxCap /\ Len(<<>>) < Parts
    BY NoPieces, Sizes
  <2>3. given' \in [Boards -> Seq(Nat)] /\ last' \in [Boards -> Nat] /\ clean' = clean
    BY <1>0, <2>1 DEF Readers
  <2>4. Readers'  BY <1>0, <2>1, <2>2, <2>3, ReaderTypes
  <2>5. QED  BY <1>0, <2>1, <2>4 DEF Typed, Ports, Counts, Queues, Timers, Links
<1>8. QED  BY <1>1, <1>2, <1>3, <1>4, <1>5, <1>6, <1>7 DEF Works

\* What a flush, or the first write of a frame, moves from t to the wire.
LEMMA PushTypes ==
  ASSUME Links, NEW b \in Boards, fd[b] \in Conns, NEW t \in Seq(Pieces(b)),
         NEW m, m = Min({Len(t), Room(b)})
  PROVE  /\ m \in 0 .. Len(t)
         /\ wire[fd[b]][b] \o SubSeq(t, 1, m) \in Seq(Pieces(b))
         /\ Len(wire[fd[b]][b] \o SubSeq(t, 1, m)) <= WireCap
         /\ SubSeq(t, m + 1, Len(t)) \in Seq(Pieces(b))
         /\ Len(SubSeq(t, m + 1, Len(t))) <= Len(t)
<1> DEFINE w == wire[fd[b]][b]
<1>1. w \in Seq(Pieces(b)) /\ Len(w) <= WireCap  BY DEF Links
<1>2. m = Min({Len(t), WireCap - Len(w)}) /\ WireCap \in Nat  BY Sizes DEF Room
<1> HIDE DEF w
<1>3. /\ w \o SubSeq(t, 1, m) \in Seq(Pieces(b)) /\ Len(w \o SubSeq(t, 1, m)) <= WireCap
      /\ SubSeq(t, m + 1, Len(t)) \in Seq(Pieces(b))
      /\ Len(SubSeq(t, m + 1, Len(t))) <= Len(t) /\ m \in 0 .. Len(t)
  BY <1>1, <1>2, Moved, ZenonT(40)
<1>4. QED  BY <1>3 DEF w

LEMMA SendTypes ==
  ASSUME Typed, NEW b \in Boards, Flush(b) \/ Sending(b)
  PROVE  Typed'
<1> USE DEF clock, network, history
<1>0. Ports /\ Counts /\ Queues /\ Readers /\ Timers /\ Links  BY DEF Typed
<1>c. SendCap \in Nat /\ Parts \in Nat /\ Parts <= SendCap  BY Sizes
<1>q. queue[b] \in Seq(Pieces(b)) /\ Len(queue[b]) <= SendCap /\ Len(queue[b]) \in Nat
      /\ off \in [Boards -> Nat] /\ taken \in [Boards -> Seq(Nat)]
  BY <1>0, LenProperties DEF Queues
<1>w. \A q : Watch(q) \in BOOLEAN  BY DEF Watch
<1>1. CASE Flush(b)
  <2> DEFINE m == Min({Len(queue[b]), Room(b)})
             rest == SubSeq(queue[b], m + 1, Len(queue[b]))
             more == wire[fd[b]][b] \o SubSeq(queue[b], 1, m)
  <2>1. /\ step[b] = "idle" /\ status[b] = "up"
        /\ wire' = [wire EXCEPT ![fd[b]][b] = more]
        /\ queue' = [queue EXCEPT ![b] = rest]
        /\ off' = [off EXCEPT ![b] = IF rest = <<>> THEN 0 ELSE off[b] + m]
        /\ watchOut' = [watchOut EXCEPT ![b] = Watch(rest)]
        /\ step' = [step EXCEPT ![b] = "read"]
        /\ UNCHANGED <<fd, status, rx, clock, stage, backlog, shut, history>>
    BY <1>1 DEF Flush
  <2>2. fd[b] \in Conns  BY <1>0, <2>1 DEF Ports
  <2>3. m = Min({Len(queue[b]), Room(b)})  OBVIOUS
  <2> HIDE DEF m
  <2>4. /\ m \in 0 .. Len(queue[b]) /\ more \in Seq(Pieces(b)) /\ Len(more) <= WireCap
        /\ rest \in Seq(Pieces(b)) /\ Len(rest) <= Len(queue[b])
    BY <1>0, <1>q, <2>2, <2>3, PushTypes
  <2> HIDE DEF rest, more
  <2>5. Links'  BY <1>0, <2>1, <2>2, <2>4, WireTypes
  <2>6. Len(rest) <= SendCap  BY <1>c, <1>q, <2>4, LenProperties
  <2>7. Queues'
    <3>1. off' \in [Boards -> Nat] /\ taken' \in [Boards -> Seq(Nat)]  BY <1>q, <2>1, <2>4
    <3>2. \E w \in BOOLEAN : watchOut' = [watchOut EXCEPT ![b] = w]  BY <1>w, <2>1
    <3>3. QED  BY <1>0, <2>1, <2>4, <2>6, <3>1, <3>2, QueueTypes
  <2>8. Readers'  BY <1>0, <2>1 DEF Readers
  <2>9. QED  BY <1>0, <2>1, <2>5, <2>7, <2>8 DEF Typed, Ports, Counts, Timers
<1>2. CASE SendRefused(b)
  <2>1. Sends(b) /\ UNCHANGED <<local, rx, step, clock, network, taken, given, last, clean, faults>>
    BY <1>2 DEF SendRefused
  <2>2. Counts'  BY <1>0, <2>1, SendsCounts
  <2>3. QED  BY <1>0, <2>1, <2>2 DEF local, Typed, Ports, Queues, Readers, Timers, Links
<1>3. CASE SendNow(b)
  <2> DEFINE frame == Frame(sent[b] + 1)
             m == Min({Parts, Room(b)})
             rest == SubSeq(frame, m + 1, Parts)
             left == queue[b] \o rest
             more == wire[fd[b]][b] \o SubSeq(frame, 1, m)
  <2>1. /\ Sends(b) /\ status[b] = "up" /\ queue[b] = <<>>
        /\ wire' = [wire EXCEPT ![fd[b]][b] = more]
        /\ queue' = [queue EXCEPT ![b] = left]
        /\ watchOut' = [watchOut EXCEPT ![b] = Watch(left)]
        /\ taken' = [taken EXCEPT ![b] = Append(taken[b], sent[b] + 1)]
        /\ UNCHANGED <<fd, status, off, rx, step, clock, stage, backlog, shut, given, last, clean, faults>>
    BY <1>3 DEF SendNow, Direct
  <2>2. fd[b] \in Conns  BY <1>0, <2>1 DEF Ports
  <2>3. /\ frame \in Seq(Pieces(b)) /\ Len(frame) = Parts /\ sent[b] + 1 \in Nat
    BY <1>0, <2>1, NextFrame
  <2> HIDE DEF frame
  <2>4. m = Min({Len(frame), Room(b)})  BY <2>3
  <2> HIDE DEF m
  <2>5. /\ more \in Seq(Pieces(b)) /\ Len(more) <= WireCap
        /\ rest \in Seq(Pieces(b)) /\ Len(rest) <= Parts
    BY <1>0, <2>2, <2>3, <2>4, PushTypes
  <2>6. left = rest  BY <2>1, <2>5, ConcatEmptySeq
  <2> HIDE DEF rest, more, left
  <2>7. Links'  BY <1>0, <2>1, <2>2, <2>5, WireTypes
  <2>8. Len(left) <= SendCap  BY <1>c, <2>5, <2>6, LenProperties
  <2>9. Queues'
    <3>1. Append(taken[b], sent[b] + 1) \in Seq(Nat)  BY <1>q, <2>3, AppendProperties
    <3>2. off' \in [Boards -> Nat] /\ taken' \in [Boards -> Seq(Nat)]  BY <1>q, <2>1, <3>1
    <3>3. \E w \in BOOLEAN : watchOut' = [watchOut EXCEPT ![b] = w]  BY <1>w, <2>1
    <3>4. QED  BY <1>0, <2>1, <2>5, <2>6, <2>8, <3>2, <3>3, QueueTypes
  <2>10. Counts'  BY <1>0, <2>1, SendsCounts
  <2>11. QED  BY <1>0, <2>1, <2>7, <2>9, <2>10 DEF Typed, Ports, Readers, Timers
<1>4. CASE SendFails(b)
  <2>1. Sends(b) /\ Drop(b) /\ status[b] = "up" /\ UNCHANGED <<rx, step, last>>
    BY <1>4 DEF SendFails
  <2>2. Counts' /\ Turned(b)  BY <1>0, <2>1, SendsCounts DEF Turned
  <2>3. QED  BY <2>1, <2>2, DropTypes
<1>5. CASE SendLater(b)
  <2> DEFINE frame == Frame(sent[b] + 1)
             left == queue[b] \o frame
  <2>1. /\ Sends(b) /\ Len(queue[b]) + Parts <= SendCap
        /\ queue' = [queue EXCEPT ![b] = left]
        /\ \E w \in BOOLEAN : watchOut' = [watchOut EXCEPT ![b] = w]
        /\ taken' = [taken EXCEPT ![b] = Append(taken[b], sent[b] + 1)]
        /\ step' = step \/ step' = [step EXCEPT ![b] = "crashed"]
        /\ UNCHANGED <<fd, status, off, rx, clock, network, given, last, clean, faults>>
    BY <1>5, <1>w DEF SendLater, FitsQueue
  <2>2. /\ frame \in Seq(Pieces(b)) /\ Len(frame) = Parts /\ sent[b] + 1 \in Nat
    BY <1>0, <2>1, NextFrame
  <2> HIDE DEF frame
  <2>3. left \in Seq(Pieces(b)) /\ Len(left) <= SendCap
    <3>1. left \in Seq(Pieces(b)) /\ Len(left) = Len(queue[b]) + Parts
      BY <1>q, <2>2, ConcatProperties
    <3>2. QED  BY <2>1, <3>1
  <2> HIDE DEF left
  <2>4. Queues'
    <3>1. Append(taken[b], sent[b] + 1) \in Seq(Nat)  BY <1>q, <2>2, AppendProperties
    <3>2. off' \in [Boards -> Nat] /\ taken' \in [Boards -> Seq(Nat)]  BY <1>q, <2>1, <3>1
    <3>3. QED  BY <1>0, <2>1, <2>3, <3>2, QueueTypes
  <2>5. Readers'
    <3>1. CASE step' = step  BY <1>0, <2>1, <3>1 DEF Readers
    <3>2. CASE step' = [step EXCEPT ![b] = "crashed"]  BY <1>0, <2>1, <3>2 DEF Readers
    <3>3. QED  BY <2>1, <3>1, <3>2
  <2>6. Counts'  BY <1>0, <2>1, SendsCounts
  <2>7. QED  BY <1>0, <2>1, <2>4, <2>5, <2>6 DEF Typed, Ports, Timers, Links
<1>6. QED  BY <1>1, <1>2, <1>3, <1>4, <1>5 DEF Sending

LEMMA InitTypes == Init => Typed
<1> SUFFICES ASSUME Init  PROVE Typed  OBVIOUS
<1>1. PICK state \in {"connecting", "up", "none"}, k \in Conns :
        /\ status = [b \in Boards |-> IF b = "client" THEN state ELSE "none"]
        /\ fd = [b \in Boards |-> IF b = "client" /\ state # "none" THEN k ELSE NoConn]
        /\ watchOut = [b \in Boards |-> b = "client" /\ state = "connecting"]
        /\ stage = [c \in Conns |-> IF c # k \/ state = "none" THEN "free"
                                    ELSE IF state = "up" THEN "open" ELSE "syn"]
        /\ backlog = (IF state = "up" THEN <<k>> ELSE <<>>)
        /\ armed = (state = "none")
        /\ timer = (IF state = "none" THEN "set" ELSE "off")
        /\ retry = (IF state = "none" THEN 1 ELSE 0)
  BY DEF Init
<1>2. /\ queue = Silence /\ off = [b \in Boards |-> 0]
      /\ rx = Silence /\ step = [b \in Boards |-> "idle"]
      /\ shut = [c \in Conns |-> {}] /\ wire = [c \in Conns |-> Silence]
      /\ sent = [b \in Boards |-> 0] /\ last = [b \in Boards |-> 0]
      /\ taken = Silence /\ given = Silence /\ clean = [b \in Boards |-> TRUE]
  BY DEF Init
<1>3. /\ \A S : Silence \in [Boards -> Seq(S)]
      /\ \A b \in Boards : Silence[b] = <<>>
  BY NoPieces DEF Silence
<1>4. Ports
  <2>1. "server" \in Boards /\ "client" \in Boards  BY DEF Boards
  <2>2. QED  BY <1>1, <2>1, Sizes DEF Ports
<1>5. Counts /\ Queues
  <2>1. \A b \in Boards : queue[b] \in Seq(Pieces(b)) /\ Len(queue[b]) <= SendCap
    BY <1>2, <1>3, NoPieces, Sizes
  <2>2. queue \in [Boards -> Seq(AnyPiece)] /\ taken \in [Boards -> Seq(Nat)]  BY <1>2, <1>3, Zenon
  <2>3. QED  BY <1>1, <1>2, <2>1, <2>2, Sizes DEF Counts, Queues
<1>6. Readers
  <2>1. \A b \in Boards : rx[b] \in Seq(Pieces(Peer(b))) /\ Len(rx[b]) <= RxCap /\ Len(rx[b]) < Parts
    BY <1>2, <1>3, NoPieces, Sizes
  <2>2. rx \in [Boards -> Seq(AnyPiece)] /\ given \in [Boards -> Seq(Nat)]  BY <1>2, <1>3, Zenon
  <2>3. QED  BY <1>2, <2>1, <2>2 DEF Readers
<1>7. Timers  BY <1>1 DEF Timers, Boards
<1>8. Links
  <2>1. \A c \in Conns, b \in Boards : wire[c][b] \in Seq(Pieces(b)) /\ Len(wire[c][b]) <= WireCap
    <3> TAKE c \in Conns, b \in Boards
    <3>1. wire[c][b] = <<>>  BY <1>2, <1>3
    <3>2. QED  BY <3>1, NoPieces, Sizes
  <2>2. wire \in [Conns -> [Boards -> Seq(AnyPiece)]]  BY <1>2, <1>3
  <2>3. backlog \in Seq(Conns)
    <3>1. <<k>> \in Seq(Conns) /\ <<>> \in Seq(Conns)  OBVIOUS
    <3>2. QED  BY <1>1, <3>1
  <2>4. QED  BY <1>1, <1>2, <2>1, <2>2, <2>3 DEF Links
<1>9. QED  BY <1>4, <1>5, <1>6, <1>7, <1>8 DEF Typed

LEMMA TypedStep == ASSUME Typed, [Next]_vars PROVE Typed'
<1>1. CASE UNCHANGED vars
  BY <1>1 DEF vars, local, clock, network, history, Typed, Ports, Counts, Queues, Readers, Timers, Links
<1>2. CASE TimerFires \/ ConnectReady \/ ConnectFails \/ Accept  BY <1>2, ConnectTypes
<1>3. CASE \E k \in Conns : Handshake(k) \/ Break(k)  BY <1>3, NetworkTypes
<1>4. CASE \E b \in Boards : Works(b) \/ Sending(b)  BY <1>4, ReadTypes, SendTypes
<1>5. QED  BY <1>1, <1>2, <1>3, <1>4 DEF Next

\* The unsent bytes in send_buf are never more than its size (which is no bound on
\* send_len, where tcp_queue_send writes), rx_buf has room whenever recv is called,
\* no more is on a wire than the kernels hold, and the retry timer runs only while
\* there is no connection.
THEOREM TcpBuffersBounded == Spec => []TypeOK
<1>1. Typed => TypeOK  BY DEF Typed, Ports, Queues, Readers, Timers, Links, TypeOK
<1>2. QED  BY <1>1, InitTypes, TypedStep, PTL DEF Spec

-----------------------------------------------------------------------------
(* What a stream carries                                                     *)

\* t: the frames accepted, g: those given to the peer's bus; r, w and q: what the
\* peer's rx_buf, the wire and send_buf hold.
Flowing(g, t, r, w, q) ==
  \E rest \in Seq(Nat) : t = g \o rest /\ Carries((r \o w) \o q, rest)

LEMMA FlowingNothing == Flowing(<<>>, <<>>, <<>>, <<>>, <<>>)
<1>1. <<>> \in Seq(Nat) /\ <<>> \o <<>> = <<>>  BY NoPieces, ConcatEmptySeq
<1>2. (<<>> \o <<>>) \o <<>> = <<>>  BY <1>1
<1>3. Carries((<<>> \o <<>>) \o <<>>, <<>>)  BY <1>2, NothingCarried, Zenon
<1>4. QED  BY <1>1, <1>3 DEF Flowing

\* recv moves a from the wire to rx_buf.
LEMMA FlowingRecv ==
  ASSUME NEW g, NEW t, NEW r \in Seq(AnyPiece), NEW a \in Seq(AnyPiece), NEW b \in Seq(AnyPiece),
         NEW q, Flowing(g, t, r, a \o b, q)
  PROVE  Flowing(g, t, r \o a, b, q)
<1>1. (r \o a) \o b = r \o (a \o b)  BY Regrouped
<1>2. QED  BY <1>1, Zenon DEF Flowing

\* A write moves a from send_buf to the wire.
LEMMA FlowingWrite ==
  ASSUME NEW g, NEW t, NEW r \in Seq(AnyPiece), NEW w \in Seq(AnyPiece), NEW a \in Seq(AnyPiece),
         NEW b \in Seq(AnyPiece), Flowing(g, t, r, w, a \o b)
  PROVE  Flowing(g, t, r, w \o a, b)
<1>1. r \o w \in Seq(AnyPiece)  BY JoinedTypes, Zenon
<1>2. (r \o w) \o (a \o b) = ((r \o w) \o a) \o b  BY <1>1, Regrouped, Zenon
<1>3. (r \o w) \o a = r \o (w \o a)  BY Regrouped, Zenon
<1>4. (r \o w) \o (a \o b) = (r \o (w \o a)) \o b  BY <1>2, <1>3, Zenon
<1>5. QED  BY <1>4, Zenon DEF Flowing

\* tcp_send accepts a frame.
LEMMA FlowingSend ==
  ASSUME NEW g \in Seq(Nat), NEW t \in Seq(Nat), NEW r \in Seq(AnyPiece), NEW w \in Seq(AnyPiece),
         NEW q \in Seq(AnyPiece), NEW n \in Nat, Flowing(g, t, r, w, q)
  PROVE  Flowing(g, Append(t, n), r, w, q \o Frame(n))
<1>1. PICK rest \in Seq(Nat) : t = g \o rest /\ Carries((r \o w) \o q, rest)  BY DEF Flowing
<1> DEFINE u == r \o w
<1>2. u \in Seq(AnyPiece) /\ Frame(n) \in Seq(AnyPiece)  BY JoinedTypes, FrameProperties
<1>3. u \o q \in Seq(AnyPiece) /\ Carries(u \o q, rest)  BY <1>1, <1>2, JoinedTypes
<1> HIDE DEF u
<1>4. Carries((u \o q) \o Frame(n), Append(rest, n))  BY <1>3, CarriesMore
<1>5. (u \o q) \o Frame(n) = u \o (q \o Frame(n))  BY <1>2, Regrouped, Zenon
<1>6. Carries(u \o (q \o Frame(n)), Append(rest, n))  BY <1>4, <1>5, Zenon
<1>7. Append(rest, n) \in Seq(Nat) /\ Append(t, n) = g \o Append(rest, n)
  <2>1. rest \in Seq(Nat) /\ <<n>> \in Seq(Nat)  OBVIOUS
  <2>2. Append(rest, n) = rest \o <<n>> /\ Append(t, n) = t \o <<n>>  BY AppendIsConcat
  <2>3. g \o (rest \o <<n>>) = (g \o rest) \o <<n>>  BY <2>1, ConcatAssociative
  <2>4. Append(rest, n) \in Seq(Nat)  BY AppendProperties
  <2>5. QED  BY <1>1, <2>2, <2>3, <2>4, Zenon
<1>8. QED  BY <1>6, <1>7 DEF Flowing, u

\* A number moves from the head of one sequence to the end of another.
LEMMA MovedOver ==
  \A g, m \in Seq(Nat), n \in Nat : g \o (<<n>> \o m) = Append(g, n) \o m
<1> TAKE g, m \in Seq(Nat), n \in Nat
<1>1. <<n>> \in Seq(Nat)  OBVIOUS
<1>2. g \o (<<n>> \o m) = (g \o <<n>>) \o m  BY <1>1, ConcatAssociative
<1>3. Append(g, n) = g \o <<n>>  BY AppendIsConcat
<1>4. QED  BY <1>2, <1>3, Zenon

\* The frame at the head of rx_buf is given to the bus.
LEMMA FlowingParse ==
  ASSUME NEW g \in Seq(Nat), NEW t \in Seq(Nat), NEW r \in Seq(AnyPiece), NEW w \in Seq(AnyPiece),
         NEW q \in Seq(AnyPiece), Flowing(g, t, r, w, q)
  PROVE  /\ Whole(r) => Flowing(Append(g, r[1].n), t, Consumed(r), w, q)
         /\ ~Bad(r)
<1>1. PICK rest \in Seq(Nat) : t = g \o rest /\ Carries((r \o w) \o q, rest)  BY DEF Flowing
<1> DEFINE u == w \o q
<1>2. u \in Seq(AnyPiece) /\ (r \o w) \o q = r \o u  BY Regrouped, JoinedTypes
<1> HIDE DEF u
<1>3. Carries(r \o u, rest)  BY <1>1, <1>2, Zenon
<1>4. ~Bad(r)  BY <1>2, <1>3, NothingBad
<1>5. ASSUME Whole(r)  PROVE Flowing(Append(g, r[1].n), t, Consumed(r), w, q)
  <2> DEFINE n == r[1].n
             d == Consumed(r)
  <2>1. /\ Tail(rest) \in Seq(Nat) /\ rest = <<n>> \o Tail(rest) /\ n \in Nat
        /\ d \in Seq(AnyPiece) /\ Carries(d \o u, Tail(rest))
    BY <1>2, <1>3, <1>5, CarriesLess
  <2> HIDE DEF n, d
  <2>2. (d \o w) \o q = d \o u  BY <2>1, Regrouped DEF u
  <2>3. Carries((d \o w) \o q, Tail(rest))  BY <2>1, <2>2, Zenon
  <2>4. t = Append(g, n) \o Tail(rest)
    <3>1. g \o (<<n>> \o Tail(rest)) = Append(g, n) \o Tail(rest)  BY <2>1, MovedOver, Zenon
    <3>2. QED  BY <1>1, <2>1, <3>1, Zenon
  <2>5. Flowing(Append(g, n), t, d, w, q)  BY <2>1, <2>3, <2>4, Zenon DEF Flowing
  <2>6. QED  BY <2>5 DEF n, d
<1>6. QED  BY <1>4, <1>5

-----------------------------------------------------------------------------
(* The connections that wait for accept                                      *)

\* x waits before y.
Before(q, x, y) == \E i, j \in DOMAIN q : i < j /\ q[i] = x /\ q[j] = y

\* One more waits.
LEMMA LastInLine ==
  ASSUME NEW S, NEW q \in Seq(S), NEW x \in S
  PROVE  /\ ToSet(Append(q, x)) = ToSet(q) \cup {x}
         /\ IsInjective(q) /\ x \notin ToSet(q) => IsInjective(Append(q, x))
         /\ \A y, z : Before(Append(q, x), y, z) => Before(q, y, z) \/ (y \in ToSet(q) /\ z = x)
<1> DEFINE u == Append(q, x)
           n == Len(q)
<1>1. n \in Nat /\ DOMAIN q = 1 .. n  BY LenProperties
<1>2. u \in Seq(S) /\ Len(u) = n + 1 /\ u[n + 1] = x /\ \A i \in 1 .. n : u[i] = q[i]
  BY AppendProperties
<1>3. DOMAIN u = 1 .. n + 1  BY <1>2, LenProperties
<1> HIDE DEF u, n
<1>4. \A i \in 1 .. n + 1 : (i \in 1 .. n /\ u[i] = q[i]) \/ (i = n + 1 /\ u[i] = x)
  BY <1>1, <1>2
<1>5. \A i \in 1 .. n : i \in 1 .. n + 1  BY <1>1
<1>6. ToSet(u) = ToSet(q) \cup {x}
  <2>1. n + 1 \in 1 .. n + 1  BY <1>1
  <2>2. QED  BY <1>1, <1>2, <1>3, <1>4, <1>5, <2>1 DEF ToSet
<1>7. ASSUME IsInjective(q), x \notin ToSet(q)  PROVE IsInjective(u)
  BY <1>1, <1>3, <1>4, <1>7 DEF IsInjective, ToSet
<1>8. ASSUME NEW y, NEW z, Before(u, y, z)  PROVE Before(q, y, z) \/ (y \in ToSet(q) /\ z = x)
  <2>1. PICK i \in 1 .. n + 1, j \in 1 .. n + 1 : i < j /\ u[i] = y /\ u[j] = z
    BY <1>3, <1>8 DEF Before
  <2>2. i \in 1 .. n  BY <1>1, <2>1
  <2>3. u[i] = q[i] /\ y \in ToSet(q)  BY <1>1, <1>2, <2>1, <2>2 DEF ToSet
  <2>4. QED  BY <1>1, <1>4, <2>1, <2>2, <2>3 DEF Before
<1>9. QED  BY <1>6, <1>7, <1>8 DEF u

\* The first is accepted.
LEMMA FirstInLine ==
  ASSUME NEW S, NEW q \in Seq(S), q # <<>>
  PROVE  /\ Head(q) \in ToSet(q) /\ ToSet(Tail(q)) \subseteq ToSet(q)
         /\ IsInjective(q) => IsInjective(Tail(q)) /\ Head(q) \notin ToSet(Tail(q))
         /\ \A x, y : Before(Tail(q), x, y) => Before(q, x, y)
         /\ \A y \in ToSet(Tail(q)) : Before(q, Head(q), y)
<1> DEFINE t == Tail(q)
           n == Len(t)
<1>1. Len(q) \in Nat \ {0} /\ DOMAIN q = 1 .. Len(q)  BY LenProperties, FirstAndRest
<1>2. /\ t \in Seq(S) /\ Len(t) = Len(q) - 1 /\ Head(q) = q[1]
      /\ \A i \in 1 .. Len(t) : t[i] = q[i + 1]
  BY <1>1, HeadTailProperties
<1>3. n \in Nat /\ DOMAIN t = 1 .. n /\ DOMAIN q = 1 .. n + 1 /\ \A i \in 1 .. n : t[i] = q[i + 1]
  <2>1. n \in Nat /\ DOMAIN t = 1 .. n /\ n + 1 = Len(q)  BY <1>1, <1>2, LenProperties
  <2>2. QED  BY <1>1, <1>2, <2>1
<1> HIDE DEF t, n
<1>4. \A i \in 1 .. n : i + 1 \in 1 .. n + 1 /\ 1 < i + 1 /\ 1 # i + 1  BY <1>3
<1>5. 1 \in 1 .. n + 1 /\ Head(q) = q[1]  BY <1>2, <1>3
<1>6. Head(q) \in ToSet(q) /\ ToSet(t) \subseteq ToSet(q)  BY <1>3, <1>4, <1>5 DEF ToSet
<1>7. ASSUME IsInjective(q)  PROVE IsInjective(t) /\ Head(q) \notin ToSet(t)
  <2>1. \A i, j \in 1 .. n : t[i] = t[j] => i + 1 = j + 1  BY <1>3, <1>4, <1>7 DEF IsInjective
  <2>2. IsInjective(t)  BY <1>3, <2>1 DEF IsInjective
  <2>3. \A i \in 1 .. n : q[1] # t[i]  BY <1>3, <1>4, <1>5, <1>7 DEF IsInjective
  <2>4. QED  BY <1>3, <1>5, <2>2, <2>3 DEF ToSet
<1>8. ASSUME NEW x, NEW y, Before(t, x, y)  PROVE Before(q, x, y)
  <2>1. PICK i \in 1 .. n, j \in 1 .. n : i < j /\ t[i] = x /\ t[j] = y
    BY <1>3, <1>8 DEF Before
  <2>2. i + 1 < j + 1 /\ q[i + 1] = x /\ q[j + 1] = y  BY <1>3, <2>1
  <2>3. QED  BY <1>3, <1>4, <2>2 DEF Before
<1>9. ASSUME NEW y \in ToSet(t)  PROVE Before(q, Head(q), y)
  <2>1. PICK i \in 1 .. n : t[i] = y  BY <1>3 DEF ToSet
  <2>2. QED  BY <1>3, <1>4, <1>5, <2>1 DEF Before
<1>10. QED  BY <1>6, <1>7, <1>8, <1>9 DEF t

\* Who waits is established, waits once and is not what the server uses already.
Waiting ==
  /\ IsInjective(backlog)
  /\ \A k \in ToSet(backlog) : k # fd["server"] /\ stage[k] = "open"
  /\ fd["server"] # NoConn => stage[fd["server"]] = "open"

\* Closing takes no connection from the server.
LEMMA CloseWaits ==
  ASSUME Typed, Waiting, NEW b \in Boards, fd[b] \in Conns, CloseEnd(b)
  PROVE  /\ \A k \in ToSet(backlog) : stage'[k] = "open"
         /\ b = "client" => \A k \in Conns : k = fd["server"] => stage'[k] = stage[k]
<1>1. ToSet(backlog) \subseteq Conns  BY InJoined, FirstAndRest, ElementOfSeq DEF Typed, Links
<1>2. /\ \A k \in Conns : k # fd[b] => stage'[k] = stage[k]
      /\ Uses(Peer(b), fd[b]) => stage'[fd[b]] = stage[fd[b]]
  BY CloseEndTypes DEF Typed
<1>3. b = "client" => \A k \in Conns : k = fd["server"] \/ k \in ToSet(backlog) => stage'[k] = stage[k]
  BY <1>2 DEF Uses, Peer, Boards
<1>4. b = "server" => \A k \in ToSet(backlog) : k # fd[b]  BY DEF Waiting
<1>5. QED  BY <1>1, <1>2, <1>3, <1>4 DEF Waiting, Boards

LEMMA WaitingStep ==
  ASSUME Typed, Waiting, [Next]_vars
  PROVE  Waiting'
<1> USE DEF local, network
<1>0. backlog \in Seq(Conns) /\ ToSet(backlog) \subseteq Conns /\ stage \in [Conns -> {"free", "syn", "open"}]
      /\ fd \in [Boards -> Conns \cup {NoConn}] /\ "client" \in Boards /\ "server" \in Boards
      /\ NoConn \notin Conns /\ \A b \in Boards : (fd[b] = NoConn) = (status[b] = "none")
  BY InJoined, Sizes DEF Typed, Links, Ports, Boards
<1>a. ASSUME UNCHANGED <<backlog, stage>>, fd'["server"] \in {fd["server"], NoConn}
      PROVE  Waiting'
  BY <1>0, <1>a DEF Waiting
<1>b. ASSUME NEW b \in Boards, Close(b), status[b] # "none"  PROVE Waiting'
  <2>1. backlog' = backlog /\ fd' = [fd EXCEPT ![b] = NoConn] /\ CloseEnd(b)  BY <1>b DEF Close
  <2>2. fd[b] \in Conns  BY <1>0, <1>b
  <2>3. /\ \A k \in ToSet(backlog) : stage'[k] = "open"
        /\ b = "client" => \A k \in Conns : k = fd["server"] => stage'[k] = stage[k]
    BY <2>1, <2>2, CloseWaits
  <2>4. \A k \in ToSet(backlog) : k # fd'["server"]  BY <1>0, <2>1 DEF Waiting
  <2>5. fd'["server"] # NoConn => stage'[fd'["server"]] = "open"
    BY <1>0, <2>1, <2>3 DEF Waiting, Boards
  <2>6. QED  BY <2>1, <2>3, <2>4, <2>5 DEF Waiting
<1>c. ASSUME NEW k \in Conns, stage[k] # "open", stage' = [stage EXCEPT ![k] = "open"],
             backlog' = Append(backlog, k), fd'["server"] = fd["server"]
      PROVE  Waiting'
  <2>1. k \notin ToSet(backlog) /\ k # fd["server"]  BY <1>0, <1>c DEF Waiting
  <2>2. ToSet(backlog') = ToSet(backlog) \cup {k} /\ IsInjective(backlog')
    BY <1>0, <1>c, <2>1, LastInLine DEF Waiting
  <2>3. \A c \in Conns : stage[c] = "open" \/ c = k => stage'[c] = "open"  BY <1>0, <1>c
  <2>4. QED  BY <1>0, <1>c, <2>1, <2>2, <2>3 DEF Waiting
<1>1. CASE UNCHANGED vars  BY <1>a, <1>1 DEF vars
<1>2. CASE TimerFires
  <2>1. CASE \E k \in Conns : stage[k] = "free" /\ Connecting(k)
    <3>1. PICK k \in Conns : stage[k] = "free" /\ Connecting(k)  BY <2>1
    <3>2. backlog' = backlog /\ stage' = [stage EXCEPT ![k] = "syn"] /\ fd'["server"] = fd["server"]
      BY <1>0, <3>1 DEF Connecting, Start
    <3>3. \A c \in Conns : stage[c] = "open" => stage'[c] = "open"  BY <1>0, <3>1, <3>2
    <3>4. QED  BY <1>0, <3>2, <3>3 DEF Waiting
  <2>2. CASE \E k \in Conns : stage[k] = "free" /\ ConnectedAtOnce(k)
    <3>1. PICK k \in Conns : stage[k] = "free" /\ ConnectedAtOnce(k)  BY <2>2
    <3>2. /\ backlog' = Append(backlog, k) /\ stage' = [stage EXCEPT ![k] = "open"]
          /\ fd'["server"] = fd["server"]
      BY <1>0, <3>1 DEF ConnectedAtOnce, Start
    <3>3. QED  BY <1>c, <3>1, <3>2
  <2>3. CASE FailedAtOnce  BY <1>a, <2>3 DEF FailedAtOnce
  <2>4. QED  BY <1>2, <2>1, <2>2, <2>3 DEF TimerFires
<1>3. CASE ConnectReady
  <2>1. fd'["server"] = fd["server"]  BY <1>0, <1>3 DEF ConnectReady, Start
  <2>2. QED  BY <1>a, <1>3, <2>1 DEF ConnectReady
<1>4. CASE ConnectFails  BY <1>0, <1>b, <1>4 DEF ConnectFails
<1>5. CASE Accept
  <2> DEFINE k == Head(backlog)
  <2>1. /\ backlog # <<>> /\ backlog' = Tail(backlog)
        /\ fd' = [fd EXCEPT !["server"] = k]
        /\ IF fd["server"] = NoConn THEN UNCHANGED <<stage, shut, wire>> ELSE CloseEnd("server")
    BY <1>5 DEF Accept, Start
  <2>2. /\ k \in ToSet(backlog) /\ ToSet(backlog') \subseteq ToSet(backlog)
        /\ IsInjective(backlog') /\ k \notin ToSet(backlog')
    BY <1>0, <2>1, FirstInLine DEF Waiting
  <2> HIDE DEF k
  <2>3. \A c \in ToSet(backlog) : stage'[c] = "open"
    <3>1. CASE fd["server"] = NoConn  BY <2>1, <3>1 DEF Waiting
    <3>2. CASE fd["server"] # NoConn  BY <1>0, <2>1, <3>2, CloseWaits
    <3>3. QED  BY <3>1, <3>2
  <2>4. fd'["server"] = k  BY <1>0, <2>1
  <2>5. QED  BY <1>0, <2>2, <2>3, <2>4 DEF Waiting
<1>6. ASSUME NEW k \in Conns, Handshake(k) \/ Break(k)  PROVE Waiting'
  <2>1. CASE Handshake(k)
    <3>1. stage[k] # "open" /\ stage' = [stage EXCEPT ![k] = "open"] /\ backlog' = Append(backlog, k)
          /\ fd' = fd
      BY <2>1 DEF Handshake
    <3>2. QED  BY <1>c, <3>1
  <2>2. CASE Break(k)  BY <1>a, <2>2 DEF Break
  <2>3. QED  BY <1>6, <2>1, <2>2
<1>7. ASSUME NEW b \in Boards, Works(b) \/ Sending(b)  PROVE Waiting'
  <2>1. CASE HangUp(b) \/ RecvEof(b) \/ SendFails(b)
    <3>1. Close(b) /\ status[b] = "up"  BY <2>1, DropCloses DEF HangUp, RecvEof, SendFails
    <3>2. QED  BY <1>b, <3>1
  <2>2. CASE ~(HangUp(b) \/ RecvEof(b) \/ SendFails(b))
    <3>1. UNCHANGED <<fd, stage, backlog>>
      BY <1>7, <2>2 DEF Works, Sending, Readable, Recv, RecvNothing, ParseFrame, ParseWait, ParseBad,
         Flush, SendRefused, SendNow, SendLater
    <3>2. QED  BY <1>a, <3>1
  <2>3. QED  BY <2>1, <2>2
<1>8. QED  BY <1>1, <1>2, <1>3, <1>4, <1>5, <1>6, <1>7 DEF Next

-----------------------------------------------------------------------------
(* What each connection carries                                              *)

\* What of b belongs to connection k
On(b, k)    == status[b] = "up" /\ fd[b] = k
Of(b, k, f) == IF On(b, k) THEN f[b] ELSE <<>>

\* From s over k to its peer's bus, while neither end of k was closed.
Flow(s, k) ==
  shut[k] = {} /\ (On(Peer(s), k) => clean[Peer(s)])
    => Flowing(Of(Peer(s), k, given), Of(s, k, taken),
               Of(Peer(s), k, rx), wire[k][s], Of(s, k, queue))

Flows == \A k \in Conns, s \in Boards : Flow(s, k)

\* Of what k carries nothing changes.
SameFlow(k) ==
  /\ shut'[k] = shut[k] /\ wire'[k] = wire[k]
  /\ \A b \in Boards : /\ On(b, k)' = On(b, k) /\ clean'[b] = clean[b]
                       /\ On(b, k) => /\ given'[b] = given[b] /\ taken'[b] = taken[b]
                                      /\ rx'[b] = rx[b] /\ queue'[b] = queue[b]

LEMMA FlowKept ==
  ASSUME NEW k \in Conns, \A s \in Boards : Flow(s, k), SameFlow(k)
  PROVE  \A s \in Boards : Flow(s, k)'
<1> SUFFICES ASSUME NEW s \in Boards  PROVE Flow(s, k)'  OBVIOUS
<1>1. Peer(s) \in Boards  BY Peers
<1>2. \A b \in Boards : /\ Of(b, k, given)' = Of(b, k, given) /\ Of(b, k, taken)' = Of(b, k, taken)
                        /\ Of(b, k, rx)' = Of(b, k, rx) /\ Of(b, k, queue)' = Of(b, k, queue)
  BY DEF SameFlow, Of
<1>3. Flow(s, k)  OBVIOUS
<1>4. shut'[k] = shut[k] /\ wire'[k][s] = wire[k][s]
      /\ On(Peer(s), k)' = On(Peer(s), k) /\ clean'[Peer(s)] = clean[Peer(s)]
  BY <1>1 DEF SameFlow
<1>5. QED  BY <1>1, <1>2, <1>3, <1>4 DEF Flow

\* b was not on k: if it is now, nothing has passed between it and k.
LEMMA FlowBegins ==
  ASSUME Typed, NEW b \in Boards, NEW k \in Conns, \A s \in Boards : Flow(s, k),
         Restarts(b), rx' = rx, ~On(b, k), On(b, k)' => clean'[b] = (rx[b] = <<>>),
         On(Peer(b), k)' = On(Peer(b), k), wire'[k] = wire[k], shut'[k] = shut[k]
  PROVE  \A s \in Boards : Flow(s, k)'
<1> DEFINE p == Peer(b)
<1>1. p \in Boards /\ p # b /\ Peer(p) = b /\ \A s \in Boards : s = b \/ s = p
  BY Peers DEF Boards, Peer
<1>2. /\ queue'[b] = <<>> /\ taken'[b] = <<>> /\ given'[b] = <<>>
      /\ queue'[p] = queue[p] /\ taken'[p] = taken[p] /\ given'[p] = given[p] /\ clean'[p] = clean[p]
  BY <1>1 DEF Restarts, Typed, Queues, Readers
<1>3. /\ Of(p, k, given)' = Of(p, k, given) /\ Of(p, k, taken)' = Of(p, k, taken)
      /\ Of(p, k, rx)' = Of(p, k, rx) /\ Of(p, k, queue)' = Of(p, k, queue)
  BY <1>1, <1>2 DEF Of
<1>4. /\ Of(b, k, given) = <<>> /\ Of(b, k, taken) = <<>> /\ Of(b, k, rx) = <<>> /\ Of(b, k, queue) = <<>>
  BY DEF Of
<1>5. Of(b, k, given)' = <<>> /\ Of(b, k, taken)' = <<>> /\ Of(b, k, queue)' = <<>>
  BY <1>2 DEF Of
<1>6. Flow(b, k)'
  <2>1. Flow(b, k)  OBVIOUS
  <2>2. wire'[k][b] = wire[k][b]  OBVIOUS
  <2> HIDE DEF p
  <2>3. QED  BY <1>2, <1>3, <1>4, <1>5, <2>1, <2>2 DEF Flow, p
<1>7. Flow(p, k)'
  <2>1. Flow(p, k)  BY <1>1
  <2>2. (On(b, k)' => clean'[b]) => Of(b, k, rx)' = <<>>  BY DEF Of
  <2> HIDE DEF p
  <2>3. QED  BY <1>1, <1>3, <1>4, <1>5, <2>1, <2>2 DEF Flow
<1>8. QED  BY <1>1, <1>6, <1>7

\* b closes its end of k: either the peer still uses it, or nothing is left of it.
LEMMA FlowEnds ==
  ASSUME Typed, NEW b \in Boards, NEW k \in Conns, fd[b] = k, CloseEnd(b), ~On(b, k)',
         On(Peer(b), k)' = On(Peer(b), k)
  PROVE  \A s \in Boards : Flow(s, k)'
<1>1. /\ Uses(Peer(b), k) => shut'[k] = shut[k] \cup {b}
      /\ ~Uses(Peer(b), k) => wire'[k] = Silence
  BY CloseEndTypes, Zenon DEF Typed
<1>2. CASE Uses(Peer(b), k)
  <2>1. shut'[k] # {}  BY <1>1, <1>2
  <2>2. QED  BY <2>1 DEF Flow
<1>3. CASE ~Uses(Peer(b), k)
  <2>1. ~On(Peer(b), k)'  BY <1>3 DEF Uses, On
  <2>2. \A c \in Boards : ~On(c, k)'  BY <2>1 DEF Boards, Peer
  <2>3. \A c \in Boards : /\ Of(c, k, given)' = <<>> /\ Of(c, k, taken)' = <<>>
                          /\ Of(c, k, rx)' = <<>> /\ Of(c, k, queue)' = <<>>
    BY <2>2 DEF Of
  <2>4. \A s \in Boards : wire'[k][s] = <<>>  BY <1>1, <1>3 DEF Silence
  <2>5. QED  BY <2>3, <2>4, FlowingNothing, Peers, Zenon DEF Flow
<1>4. QED  BY <1>2, <1>3

LEMMA FlowClosed ==
  ASSUME Typed, Flows, NEW b \in Boards, Close(b), status[b] # "none", rx' = rx
  PROVE  Flows'
<1>1. Restarts(b) /\ CloseEnd(b)  BY CloseRestarts DEF Close
<1>2. fd' = [fd EXCEPT ![b] = NoConn] /\ status' = [status EXCEPT ![b] = "none"]  BY DEF Close
<1>3. fd[b] \in Conns /\ Ports /\ Links  BY DEF Typed, Ports
<1>4. \A k \in Conns : ~On(b, k)' /\ On(Peer(b), k)' = On(Peer(b), k)
  BY <1>2, <1>3, Peers DEF On, Ports
<1>5. ASSUME NEW k \in Conns  PROVE \A s \in Boards : Flow(s, k)'
  <2>1. CASE fd[b] = k  BY <1>1, <1>4, <2>1, FlowEnds
  <2>2. CASE fd[b] # k
    <3>1. ~On(b, k)  BY <2>2 DEF On
    <3>2. wire'[k] = wire[k] /\ shut'[k] = shut[k]  BY <1>1, <1>3, <2>2, CloseEndTypes
    <3>3. \A s \in Boards : Flow(s, k)  BY DEF Flows
    <3>4. QED  BY <1>1, <1>4, <3>1, <3>2, <3>3, FlowBegins
  <2>3. QED  BY <2>1, <2>2
<1>6. QED  BY <1>5 DEF Flows

\* Connecting, accepting and the network
LEMMA ConnectFlows ==
  ASSUME Typed, Waiting, Flows, TimerFires \/ ConnectReady \/ ConnectFails \/ Accept
  PROVE  Flows'
<1> USE DEF local, network
<1>0. /\ fd \in [Boards -> Conns \cup {NoConn}] /\ status \in [Boards -> {"none", "connecting", "up"}]
      /\ \A b \in Boards : (fd[b] = NoConn) = (status[b] = "none")
      /\ clean \in [Boards -> BOOLEAN] /\ NoConn \notin Conns
      /\ "client" \in Boards /\ "server" \in Boards /\ backlog \in Seq(Conns)
  BY Sizes DEF Typed, Ports, Readers, Links, Boards
<1>a. \A k \in Conns : \A s \in Boards : Flow(s, k)  BY DEF Flows
<1>b. ASSUME NEW b \in Boards, NEW k \in Conns, NEW state, Start(b, k, state), rx' = rx,
             NEW c \in Conns, c = k => ~On(b, c), c # k => fd[b] # c \/ ~On(b, c),
             wire'[c] = wire[c], shut'[c] = shut[c]
      PROVE  \A s \in Boards : Flow(s, c)'
  <2>1. Restarts(b)  BY <1>b, StartRestarts
  <2>2. fd' = [fd EXCEPT ![b] = k] /\ status' = [status EXCEPT ![b] = state]
        /\ clean' = [clean EXCEPT ![b] = (rx[b] = <<>>)]
    BY <1>b DEF Start
  <2>3. ~On(b, c)  BY <1>b DEF On
  <2>4. clean'[b] = (rx[b] = <<>>)  BY <1>0, <2>2
  <2>5. On(Peer(b), c)' = On(Peer(b), c)  BY <1>0, <2>2, Peers DEF On
  <2>6. QED  BY <1>a, <1>b, <2>1, <2>3, <2>4, <2>5, FlowBegins
<1>1. CASE TimerFires
  <2>1. rx' = rx /\ shut' = shut /\ wire' = wire /\ \A c \in Conns : ~On("client", c)
    BY <1>1 DEF TimerFires, On
  <2>2. ASSUME NEW k \in Conns, Connecting(k) \/ ConnectedAtOnce(k)  PROVE Flows'
    <3>1. PICK state : Start("client", k, state)  BY <2>2 DEF Connecting, ConnectedAtOnce
    <3>2. ASSUME NEW c \in Conns  PROVE \A s \in Boards : Flow(s, c)'
      BY <1>0, <1>b, <2>1, <3>1
    <3>3. QED  BY <3>2 DEF Flows
  <2>3. CASE FailedAtOnce
    <3>1. ASSUME NEW c \in Conns  PROVE SameFlow(c)
      BY <2>1, <2>3 DEF FailedAtOnce, SameFlow, On
    <3>2. QED  BY <1>a, <3>1, FlowKept DEF Flows
  <2>4. QED  BY <1>1, <2>2, <2>3 DEF TimerFires
<1>2. CASE ConnectReady
  <2>1. /\ Start("client", fd["client"], "up") /\ fd["client"] \in Conns
        /\ rx' = rx /\ shut' = shut /\ wire' = wire /\ \A c \in Conns : ~On("client", c)
    BY <1>0, <1>2 DEF ConnectReady, On
  <2>2. ASSUME NEW c \in Conns  PROVE \A s \in Boards : Flow(s, c)'
    BY <1>0, <1>b, <2>1
  <2>3. QED  BY <2>2 DEF Flows
<1>3. CASE ConnectFails
  <2>1. Close("client") /\ status["client"] # "none" /\ rx' = rx  BY <1>3 DEF ConnectFails
  <2>2. QED  BY <1>0, <2>1, FlowClosed
<1>4. CASE Accept
  <2> DEFINE k == Head(backlog)
             b == "server"
  <2>1. /\ Start(b, k, "up") /\ backlog # <<>> /\ rx' = rx
        /\ IF fd[b] = NoConn THEN UNCHANGED <<stage, shut, wire>> ELSE CloseEnd(b)
    BY <1>4 DEF Accept
  <2>2. k \in Conns /\ k # fd[b]
    <3>1. k \in ToSet(backlog)  BY <1>0, <2>1, FirstInLine
    <3>2. QED  BY <1>0, <2>1, <3>1, FirstAndRest DEF Waiting
  <2>3. fd' = [fd EXCEPT ![b] = k] /\ b \in Boards  BY <1>0, <2>1 DEF Start
  <2> HIDE DEF k
  <2>4. ASSUME NEW c \in Conns, c # fd[b]  PROVE \A s \in Boards : Flow(s, c)'
    <3>1. wire'[c] = wire[c] /\ shut'[c] = shut[c]
      <4>1. CASE fd[b] = NoConn  BY <2>1, <4>1
      <4>2. CASE fd[b] # NoConn
        <5>1. fd[b] \in Conns /\ CloseEnd(b) /\ b \in Boards  BY <1>0, <2>1, <4>2
        <5>2. QED  BY <2>4, <5>1, CloseEndTypes DEF Typed
      <4>3. QED  BY <4>1, <4>2
    <3>2. ~On(b, c)  BY <2>4 DEF On
    <3>3. QED  BY <1>0, <1>b, <2>1, <2>2, <3>1, <3>2
  <2>5. ASSUME NEW c \in Conns, c = fd[b]  PROVE \A s \in Boards : Flow(s, c)'
    <3>1. CloseEnd(b) /\ b \in Boards  BY <1>0, <2>1, <2>5
    <3>2. ~On(b, c)'  BY <1>0, <2>2, <2>3, <2>5 DEF On
    <3>3. status' = [status EXCEPT ![b] = "up"]  BY <2>1 DEF Start
    <3>4. On(Peer(b), c)' = On(Peer(b), c)  BY <1>0, <2>3, <3>3, Peers DEF On
    <3>5. QED  BY <2>5, <3>1, <3>2, <3>4, FlowEnds
  <2>6. QED  BY <2>4, <2>5 DEF Flows
<1>5. QED  BY <1>1, <1>2, <1>3, <1>4

LEMMA NetworkFlows ==
  ASSUME Typed, Flows, NEW k \in Conns, Handshake(k) \/ Break(k)
  PROVE  Flows'
<1>1. shut \in [Conns -> SUBSET Boards] /\ wire \in [Conns -> [Boards -> Seq(AnyPiece)]]
  BY DEF Typed, Links
<1>2. UNCHANGED <<status, fd, queue, rx, taken, given, clean>>
  BY DEF Handshake, Break, local, history
<1>3. ASSUME NEW c \in Conns  PROVE \A s \in Boards : Flow(s, c)'
  <2>1. CASE Break(k) /\ c = k
    <3>1. shut'[c] # {}  BY <1>1, <2>1 DEF Break, Boards
    <3>2. QED  BY <3>1 DEF Flow
  <2>2. CASE ~(Break(k) /\ c = k)
    <3>1. shut'[c] = shut[c] /\ wire'[c] = wire[c]  BY <1>1, <2>2 DEF Handshake, Break
    <3>2. SameFlow(c)  BY <1>2, <3>1 DEF SameFlow, On
    <3>3. \A s \in Boards : Flow(s, c)  BY DEF Flows
    <3>4. QED  BY <3>2, <3>3, FlowKept
  <2>3. QED  BY <2>1, <2>2
<1>4. QED  BY <1>3 DEF Flows

\* A step of b on its connection: nothing of another connection changes, and what
\* goes from s to its peer over this one still flows.
LEMMA FlowOnOne ==
  ASSUME Typed, Flows, NEW b \in Boards, NEW s \in Boards, NEW k \in Conns, On(b, k),
         UNCHANGED <<fd, status, shut, clean>>,
         \A c \in Conns : c # k => wire'[c] = wire[c],
         wire'[k][Peer(s)] = wire[k][Peer(s)],
         taken'[Peer(s)] = taken[Peer(s)], queue'[Peer(s)] = queue[Peer(s)],
         given'[s] = given[s], rx'[s] = rx[s],
         \A c \in Boards : c # b => taken'[c] = taken[c] /\ queue'[c] = queue[c]
                                    /\ given'[c] = given[c] /\ rx'[c] = rx[c],
         Flow(s, k)'
  PROVE  Flows'
<1>1. Peer(s) \in Boards /\ Peer(Peer(s)) = s /\ \A c \in Boards : c = s \/ c = Peer(s)
  BY Peers DEF Peer, Boards
<1>2. Flow(Peer(s), k)'
  <2>1. Flow(Peer(s), k)  BY <1>1 DEF Flows
  <2>2. \A c \in Boards : On(c, k)' = On(c, k)  BY DEF On
  <2>3. /\ Of(s, k, given)' = Of(s, k, given) /\ Of(s, k, rx)' = Of(s, k, rx)
        /\ Of(Peer(s), k, taken)' = Of(Peer(s), k, taken)
        /\ Of(Peer(s), k, queue)' = Of(Peer(s), k, queue)
    BY <1>1, <2>2 DEF Of
  <2>4. wire'[k][Peer(s)] = wire[k][Peer(s)] /\ clean' = clean /\ shut' = shut  OBVIOUS
  <2>5. QED  BY <1>1, <2>1, <2>2, <2>3, <2>4 DEF Flow
<1>3. ASSUME NEW c \in Conns, c # k  PROVE \A d \in Boards : Flow(d, c)'
  <2>1. \A d \in Boards : On(d, c)' = On(d, c) /\ (On(d, c) => d # b)  BY <1>3 DEF On
  <2>2. SameFlow(c)  BY <1>3, <2>1 DEF SameFlow
  <2>3. QED  BY <2>2, FlowKept DEF Flows
<1>4. QED  BY <1>1, <1>2, <1>3 DEF Flows

LEMMA OfTypes ==
  ASSUME Typed, NEW b \in Boards, NEW k \in Conns
  PROVE  /\ Of(b, k, given) \in Seq(Nat) /\ Of(b, k, taken) \in Seq(Nat)
         /\ Of(b, k, rx) \in Seq(AnyPiece) /\ Of(b, k, queue) \in Seq(AnyPiece)
         /\ wire[k][b] \in Seq(AnyPiece)
<1>1. \A S : <<>> \in Seq(S)  BY NoPieces
<1>2. /\ given[b] \in Seq(Nat) /\ taken[b] \in Seq(Nat)
      /\ rx[b] \in Seq(AnyPiece) /\ queue[b] \in Seq(AnyPiece) /\ wire[k][b] \in Seq(AnyPiece)
  BY DEF Typed, Queues, Readers, Links
<1>3. QED  BY <1>1, <1>2, Zenon DEF Of

\* What b reads
LEMMA ReadFlows ==
  ASSUME Typed, Flows, NEW b \in Boards, Works(b), ~Flush(b)
  PROVE  Flows'
<1> USE DEF local, network, history
<1>0. /\ rx \in [Boards -> Seq(AnyPiece)] /\ given \in [Boards -> Seq(Nat)]
      /\ wire \in [Conns -> [Boards -> Seq(AnyPiece)]]
      /\ Peer(b) \in Boards /\ Peer(b) # b /\ Peer(Peer(b)) = b
  BY Peers DEF Typed, Readers, Links
<1>a. ASSUME UNCHANGED <<local, rx, network, given, taken, clean>>  PROVE Flows'
  <2>1. ASSUME NEW c \in Conns  PROVE \A s \in Boards : Flow(s, c)'
    <3>1. SameFlow(c)  BY <1>a DEF SameFlow, On
    <3>2. QED  BY <3>1, FlowKept DEF Flows
  <2>2. QED  BY <2>1 DEF Flows
<1>1. CASE Readable(b) \/ RecvNothing(b) \/ ParseWait(b)
  BY <1>a, <1>1 DEF Readable, RecvNothing, ParseWait
<1>2. CASE HangUp(b) \/ RecvEof(b)
  <2>1. Close(b) /\ status[b] # "none" /\ rx' = rx  BY <1>2, DropCloses DEF HangUp, RecvEof
  <2>2. QED  BY <2>1, FlowClosed
<1>3. CASE Recv(b)
  <2>1. PICK k \in Conns : k = fd[b] /\ On(b, k)
    BY <1>3 DEF Recv, On, Typed, Ports
  <2> DEFINE in == wire[k][Peer(b)]
  <2>2. in \in Seq(AnyPiece)  BY <1>0
  <2>3. PICK j \in 1 .. Min({Len(in), RxCap - Len(rx[b])}) :
          /\ rx' = [rx EXCEPT ![b] = rx[b] \o SubSeq(in, 1, j)]
          /\ wire' = [wire EXCEPT ![k][Peer(b)] = SubSeq(in, j + 1, Len(in))]
    BY <1>3, <2>1 DEF Recv, Incoming
  <2>4. j \in 0 .. Len(in)  BY <2>1, <2>3, RecvTypes DEF Incoming
  <2>5. PICK x \in Seq(AnyPiece), y \in Seq(AnyPiece) :
          in = x \o y /\ x = SubSeq(in, 1, j) /\ y = SubSeq(in, j + 1, Len(in))
    BY <2>2, <2>4, Cut
  <2>6. /\ rx'[b] = rx[b] \o x /\ \A c \in Boards : c # b => rx'[c] = rx[c]
        /\ wire'[k][Peer(b)] = y /\ wire'[k][b] = wire[k][b]
        /\ \A c \in Conns : c # k => wire'[c] = wire[c]
    BY <1>0, <2>3, <2>5
  <2>7. UNCHANGED <<fd, status, queue, shut, clean, taken, given>>  BY <1>3 DEF Recv
  <2>8. Flow(Peer(b), k)'
    <3>1. /\ Flow(Peer(b), k) /\ Of(b, k, given) = given[b] /\ Of(b, k, rx) = rx[b]
          /\ Of(b, k, given)' = given'[b] /\ Of(b, k, rx)' = rx'[b]
          /\ Of(Peer(b), k, taken)' = Of(Peer(b), k, taken)
          /\ Of(Peer(b), k, queue)' = Of(Peer(b), k, queue)
          /\ On(b, k)' = On(b, k)
      BY <1>0, <2>1, <2>7 DEF Flows, Of, On
    <3>2. Flowing(given[b], Of(Peer(b), k, taken), rx[b], x \o y, Of(Peer(b), k, queue))
            => Flowing(given[b], Of(Peer(b), k, taken), rx[b] \o x, y, Of(Peer(b), k, queue))
      BY <1>0, FlowingRecv
    <3>3. wire[k][Peer(b)] = x \o y  BY <2>5
    <3>4. QED  BY <1>0, <2>6, <2>7, <3>1, <3>2, <3>3, Zenon DEF Flow
  <2>9. QED  BY <1>0, <2>1, <2>6, <2>7, <2>8, FlowOnOne
<1>4. CASE ParseFrame(b) \/ ParseBad(b)
  <2>1. UNCHANGED <<fd, status, queue, wire, shut, clean, taken>>
    BY <1>4 DEF ParseFrame, ParseBad
  <2>2. /\ \A c \in Boards : c # b => rx'[c] = rx[c] /\ given'[c] = given[c]
        /\ ParseFrame(b) => Whole(rx[b]) /\ rx'[b] = Consumed(rx[b])
                            /\ given'[b] = Append(given[b], rx[b][1].n)
        /\ ParseBad(b) => Bad(rx[b])
    BY <1>0, <1>4 DEF ParseFrame, ParseBad
  <2>3. CASE \A k \in Conns : ~On(b, k)
    <3>1. ASSUME NEW c \in Conns  PROVE \A s \in Boards : Flow(s, c)'
      <4>1. SameFlow(c)  BY <2>1, <2>2, <2>3 DEF SameFlow, On
      <4>2. QED  BY <4>1, FlowKept DEF Flows
    <3>2. QED  BY <3>1 DEF Flows
  <2>4. ASSUME NEW k \in Conns, On(b, k)  PROVE Flows'
    <3> DEFINE p == Peer(b)
    <3>1. /\ Flow(p, k) /\ Of(b, k, given) = given[b] /\ Of(b, k, rx) = rx[b]
          /\ Of(b, k, given)' = given'[b] /\ Of(b, k, rx)' = rx'[b]
          /\ Of(p, k, taken)' = Of(p, k, taken) /\ Of(p, k, queue)' = Of(p, k, queue)
          /\ On(b, k)' = On(b, k)
      BY <1>0, <2>1, <2>4 DEF Flows, Of, On
    <3>2. /\ given[b] \in Seq(Nat) /\ rx[b] \in Seq(AnyPiece) /\ Of(p, k, taken) \in Seq(Nat)
          /\ wire[k][p] \in Seq(AnyPiece) /\ Of(p, k, queue) \in Seq(AnyPiece)
      BY <1>0, OfTypes
    <3>3. Flowing(given[b], Of(p, k, taken), rx[b], wire[k][p], Of(p, k, queue))
            => /\ ~Bad(rx[b])
               /\ Whole(rx[b]) => Flowing(Append(given[b], rx[b][1].n), Of(p, k, taken),
                                          Consumed(rx[b]), wire[k][p], Of(p, k, queue))
      BY <3>2, FlowingParse
    <3>4. Flow(p, k)'
      BY <1>0, <1>4, <2>1, <2>2, <3>1, <3>3, Zenon DEF Flow
    <3>5. QED  BY <1>0, <2>1, <2>2, <2>4, <3>4, FlowOnOne
  <2>5. QED  BY <2>3, <2>4
<1>5. QED  BY <1>1, <1>2, <1>3, <1>4 DEF Works

\* What b sends
LEMMA SendFlows ==
  ASSUME Typed, Flows, NEW b \in Boards, Flush(b) \/ Sending(b)
  PROVE  Flows'
<1> USE DEF network, history
<1>0. /\ queue \in [Boards -> Seq(AnyPiece)] /\ taken \in [Boards -> Seq(Nat)]
      /\ wire \in [Conns -> [Boards -> Seq(AnyPiece)]] /\ sent \in [Boards -> Nat]
      /\ Peer(b) \in Boards /\ Peer(b) # b /\ Peer(Peer(b)) = b
  BY Peers DEF Typed, Queues, Links, Counts
<1>k. status[b] = "up" => \E k \in Conns : k = fd[b] /\ On(b, k)  BY DEF On, Typed, Ports
<1>a. ASSUME NEW k \in Conns, On(b, k), NEW w \in Seq(AnyPiece), NEW q \in Seq(AnyPiece), NEW t,
             wire' = [wire EXCEPT ![k][b] = w], queue' = [queue EXCEPT ![b] = q],
             taken' = [taken EXCEPT ![b] = t], UNCHANGED <<fd, status, shut, clean, rx, given>>,
             ASSUME NEW g \in Seq(Nat), NEW r \in Seq(AnyPiece),
                    Flowing(g, taken[b], r, wire[k][b], queue[b])
             PROVE  Flowing(g, t, r, w, q)
      PROVE  Flows'
  <2> DEFINE p == Peer(b)
  <2>1. /\ Flow(b, k) /\ Of(b, k, taken) = taken[b] /\ Of(b, k, queue) = queue[b]
        /\ Of(b, k, taken)' = taken'[b] /\ Of(b, k, queue)' = queue'[b]
        /\ Of(p, k, given)' = Of(p, k, given) /\ Of(p, k, rx)' = Of(p, k, rx)
        /\ On(p, k)' = On(p, k)
    BY <1>0, <1>a DEF Flows, Of, On
  <2>2. Of(p, k, given) \in Seq(Nat) /\ Of(p, k, rx) \in Seq(AnyPiece)  BY <1>0, OfTypes
  <2>3. /\ wire'[k][b] = w /\ queue'[b] = q /\ taken'[b] = t /\ wire'[k][p] = wire[k][p]
        /\ queue'[p] = queue[p] /\ taken'[p] = taken[p]
        /\ \A c \in Conns : c # k => wire'[c] = wire[c]
        /\ \A c \in Boards : c # b => taken'[c] = taken[c] /\ queue'[c] = queue[c]
    BY <1>0, <1>a
  <2>4. Flowing(Of(p, k, given), taken[b], Of(p, k, rx), wire[k][b], queue[b])
          => Flowing(Of(p, k, given), t, Of(p, k, rx), w, q)
    BY <1>a, <2>2
  <2>5. Flow(b, k)'  BY <1>a, <2>1, <2>3, <2>4, Zenon DEF Flow
  <2>6. QED  BY <1>a, <2>3, <2>5, FlowOnOne
<1>1. CASE Flush(b)
  <2>1. PICK k \in Conns : k = fd[b] /\ On(b, k)  BY <1>1, <1>k DEF Flush
  <2> DEFINE q == queue[b]
  <2>2. PICK m : /\ m = Min({Len(q), Room(b)})
                 /\ wire' = [wire EXCEPT ![k][b] = wire[k][b] \o SubSeq(q, 1, m)]
                 /\ queue' = [queue EXCEPT ![b] = SubSeq(q, m + 1, Len(q))]
    BY <1>1, <2>1 DEF Flush
  <2>3. q \in Seq(Pieces(b)) /\ q \in Seq(AnyPiece) /\ wire[k][b] \in Seq(AnyPiece)
    BY <1>0 DEF Typed, Queues
  <2>4. m \in 0 .. Len(q)  BY <2>1, <2>2, <2>3, PushTypes DEF Typed
  <2>5. PICK x \in Seq(AnyPiece), y \in Seq(AnyPiece) :
          q = x \o y /\ x = SubSeq(q, 1, m) /\ y = SubSeq(q, m + 1, Len(q))
    BY <2>3, <2>4, Cut
  <2>6. wire[k][b] \o x \in Seq(AnyPiece)  BY <2>3, JoinedTypes, Zenon
  <2>7. UNCHANGED <<fd, status, shut, clean, rx, given, taken>>  BY <1>1 DEF Flush
  <2>8. taken' = [taken EXCEPT ![b] = taken[b]]  BY <1>0, <2>7
  <2>9. ASSUME NEW g \in Seq(Nat), NEW r \in Seq(AnyPiece), Flowing(g, taken[b], r, wire[k][b], q)
        PROVE  Flowing(g, taken[b], r, wire[k][b] \o x, y)
    <3>1. Flowing(g, taken[b], r, wire[k][b], x \o y)  BY <2>5, <2>9
    <3>2. QED  BY <2>3, <3>1, FlowingWrite
  <2> HIDE DEF q
  <2>10. wire' = [wire EXCEPT ![k][b] = wire[k][b] \o x] /\ queue' = [queue EXCEPT ![b] = y]
    BY <2>2, <2>5
  <2>11. QED  BY <1>a, <2>1, <2>5, <2>6, <2>7, <2>8, <2>9, <2>10 DEF q
<1>2. CASE SendRefused(b)
  <2>1. ASSUME NEW c \in Conns  PROVE \A s \in Boards : Flow(s, c)'
    <3>1. SameFlow(c)  BY <1>2 DEF SendRefused, local, SameFlow, On
    <3>2. QED  BY <3>1, FlowKept DEF Flows
  <2>2. QED  BY <2>1 DEF Flows
<1>3. CASE SendNow(b)
  <2>1. PICK k \in Conns : k = fd[b] /\ On(b, k)  BY <1>3, <1>k DEF SendNow
  <2>2. Sends(b)  BY <1>3 DEF SendNow
  <2>3. PICK f \in Seq(AnyPiece), n \in Nat :
          f = Frame(n) /\ n = sent[b] + 1 /\ f \in Seq(Pieces(b)) /\ Len(f) = Parts
    BY <2>2, NextFrame, AlsoPieces DEF Typed
  <2>4. PICK m : /\ m = Min({Len(f), Room(b)}) /\ queue[b] = <<>>
                 /\ wire' = [wire EXCEPT ![k][b] = wire[k][b] \o SubSeq(f, 1, m)]
                 /\ queue' = [queue EXCEPT ![b] = queue[b] \o SubSeq(f, m + 1, Len(f))]
                 /\ taken' = [taken EXCEPT ![b] = Append(taken[b], n)]
    BY <1>3, <2>1, <2>3 DEF SendNow, Direct
  <2>5. m \in 0 .. Len(f)  BY <2>1, <2>3, <2>4, PushTypes DEF Typed
  <2>6. PICK x \in Seq(AnyPiece), y \in Seq(AnyPiece) :
          f = x \o y /\ x = SubSeq(f, 1, m) /\ y = SubSeq(f, m + 1, Len(f))
    BY <2>3, <2>5, Cut
  <2>7. queue[b] \o y = y /\ queue[b] \o f = f  BY <2>3, <2>4, <2>6, NothingJoined, Zenon
  <2>8. /\ wire' = [wire EXCEPT ![k][b] = wire[k][b] \o x] /\ queue' = [queue EXCEPT ![b] = y]
        /\ wire[k][b] \in Seq(AnyPiece) /\ wire[k][b] \o x \in Seq(AnyPiece)
    <3>1. wire[k][b] \in Seq(AnyPiece)  BY <1>0
    <3>2. wire[k][b] \o x \in Seq(AnyPiece)  BY <3>1, JoinedTypes, Zenon
    <3>3. QED  BY <2>4, <2>6, <2>7, <3>1, <3>2
  <2>9. UNCHANGED <<fd, status, shut, clean, rx, given>>  BY <1>3 DEF SendNow
  <2>10. ASSUME NEW g \in Seq(Nat), NEW r \in Seq(AnyPiece),
                Flowing(g, taken[b], r, wire[k][b], queue[b])
         PROVE  Flowing(g, Append(taken[b], n), r, wire[k][b] \o x, y)
    <3>1. taken[b] \in Seq(Nat) /\ queue[b] \in Seq(AnyPiece)  BY <1>0
    <3>2. Flowing(g, Append(taken[b], n), r, wire[k][b], queue[b] \o Frame(n))
      BY <2>8, <2>10, <3>1, FlowingSend
    <3>3. queue[b] \o Frame(n) = x \o y  BY <2>3, <2>6, <2>7, Zenon
    <3>4. Flowing(g, Append(taken[b], n), r, wire[k][b], x \o y)  BY <3>2, <3>3, Zenon
    <3>5. QED  BY <2>8, <3>4, FlowingWrite
  <2>11. QED  BY <1>a, <2>1, <2>4, <2>6, <2>8, <2>9, <2>10
<1>4. CASE SendFails(b)
  <2>1. Close(b) /\ status[b] # "none" /\ rx' = rx  BY <1>4, DropCloses DEF SendFails
  <2>2. QED  BY <2>1, FlowClosed
<1>5. CASE SendLater(b)
  <2>1. PICK k \in Conns : k = fd[b] /\ On(b, k)  BY <1>5, <1>k DEF SendLater
  <2>2. Sends(b)  BY <1>5 DEF SendLater
  <2>3. PICK n \in Nat : n = sent[b] + 1 /\ Frame(n) \in Seq(AnyPiece)
    BY <2>2, NextFrame, AlsoPieces DEF Typed
  <2>4. /\ queue' = [queue EXCEPT ![b] = queue[b] \o Frame(n)] /\ wire' = wire
        /\ taken' = [taken EXCEPT ![b] = Append(taken[b], n)]
        /\ UNCHANGED <<fd, status, shut, clean, rx, given>>
    BY <1>5, <2>3 DEF SendLater
  <2>5. queue[b] \in Seq(AnyPiece) /\ taken[b] \in Seq(Nat) /\ wire[k][b] \in Seq(AnyPiece)
    BY <1>0
  <2>6. queue[b] \o Frame(n) \in Seq(AnyPiece)  BY <2>3, <2>5, JoinedTypes, Zenon
  <2>7. wire' = [wire EXCEPT ![k][b] = wire[k][b]]  BY <1>0, <2>4
  <2>8. ASSUME NEW g \in Seq(Nat), NEW r \in Seq(AnyPiece),
               Flowing(g, taken[b], r, wire[k][b], queue[b])
        PROVE  Flowing(g, Append(taken[b], n), r, wire[k][b], queue[b] \o Frame(n))
    BY <2>5, <2>8, FlowingSend
  <2>9. QED  BY <1>a, <2>1, <2>4, <2>5, <2>6, <2>7, <2>8
<1>6. QED  BY <1>1, <1>2, <1>3, <1>4, <1>5 DEF Sending

LEMMA InitFlows == Init => Waiting /\ Flows
<1> SUFFICES ASSUME Init  PROVE Waiting /\ Flows  OBVIOUS
<1>1. Typed  BY InitTypes
<1>2. Flows
  <2>1. /\ queue = Silence /\ rx = Silence /\ taken = Silence /\ given = Silence
        /\ wire = [k \in Conns |-> Silence]
    BY DEF Init
  <2>2. \A b \in Boards : Silence[b] = <<>>  BY DEF Silence
  <2>3. \A b \in Boards, k \in Conns :
          /\ Of(b, k, given) = <<>> /\ Of(b, k, taken) = <<>> /\ Of(b, k, rx) = <<>>
          /\ Of(b, k, queue) = <<>> /\ wire[k][b] = <<>>
    BY <2>1, <2>2 DEF Of
  <2>4. QED  BY <2>3, FlowingNothing, Peers, Zenon DEF Flows, Flow
<1>3. Waiting
  <2>1. PICK k \in Conns : backlog = <<>> \/ (backlog = <<k>> /\ stage[k] = "open")
    BY DEF Init
  <2>2. fd["server"] = NoConn /\ k # NoConn  BY Sizes DEF Init, Boards
  <2>3. CASE backlog = <<>>
    <3>1. DOMAIN backlog = {}  BY <2>3
    <3>2. QED  BY <2>2, <3>1 DEF Waiting, IsInjective, ToSet
  <2>4. CASE backlog = <<k>> /\ stage[k] = "open"
    <3>1. DOMAIN backlog = {1} /\ backlog[1] = k
      <4>1. backlog \in Seq(Conns) /\ Len(backlog) = 1 /\ 1 .. 1 = {1} /\ backlog[1] = k  BY <2>4
      <4>2. QED  BY <4>1, LenProperties
    <3>2. IsInjective(backlog) /\ ToSet(backlog) = {k}  BY <3>1 DEF IsInjective, ToSet
    <3>3. QED  BY <2>2, <2>4, <3>2 DEF Waiting
  <2>5. QED  BY <2>1, <2>3, <2>4
<1>4. QED  BY <1>2, <1>3

LEMMA FlowStep == ASSUME Typed, Waiting, Flows, [Next]_vars PROVE Flows'
<1>1. CASE UNCHANGED vars
  <2>1. ASSUME NEW c \in Conns  PROVE \A s \in Boards : Flow(s, c)'
    <3>1. SameFlow(c)  BY <1>1 DEF vars, local, network, history, SameFlow, On
    <3>2. QED  BY <3>1, FlowKept DEF Flows
  <2>2. QED  BY <2>1 DEF Flows
<1>2. CASE TimerFires \/ ConnectReady \/ ConnectFails \/ Accept  BY <1>2, ConnectFlows
<1>3. CASE \E k \in Conns : Handshake(k) \/ Break(k)  BY <1>3, NetworkFlows
<1>4. CASE \E b \in Boards : Works(b) \/ Sending(b)  BY <1>4, ReadFlows, SendFlows
<1>5. QED  BY <1>1, <1>2, <1>3, <1>4 DEF Next

\* What a sequence begins with, and what it goes on with.
LEMMA HeadAndRest ==
  \A s, t \in Seq(Nat) : IsPrefix(s, s \o t) /\ SubSeq(s \o t, Len(s) + 1, Len(s \o t)) = t
<1> TAKE s, t \in Seq(Nat)
<1> DEFINE u == s \o t
<1>1. u \in Seq(Nat) /\ Joins(u, s, t)  BY Joined
<1> HIDE DEF u
<1>2. Len(s) \in 0 .. Len(u) /\ Len(u) - Len(s) = Len(t) /\ Len(s) \in Nat /\ Len(u) \in Nat
  BY <1>1 DEF Joins
<1> DEFINE a == SubSeq(u, 1, Len(s))
           b == SubSeq(u, Len(s) + 1, Len(u))
<1>3. a \in Seq(Nat) /\ Len(a) = Len(s) /\ b \in Seq(Nat) /\ Len(b) = Len(t) /\ a \o b = u
  BY <1>1, <1>2, Cut
<1> HIDE DEF a, b
<1>4. Joins(u, a, b)  BY <1>3, Joined
<1>5. a = s
  <2>1. \A i \in 1 .. Len(s) : a[i] = s[i]  BY <1>1, <1>3, <1>4 DEF Joins
  <2>2. QED  BY <1>3, <2>1, SeqEqual
<1>6. b = t
  <2>1. \A i \in 1 .. Len(t) : b[i] = t[i]  BY <1>1, <1>3, <1>4 DEF Joins
  <2>2. QED  BY <1>3, <2>1, SeqEqual
<1>7. SubSeq(s, 1, Len(s)) = s  BY SubSeqFull
<1>8. IsPrefix(s, u)  BY <1>2, <1>5, <1>7 DEF a, IsPrefix
<1>9. QED  BY <1>6, <1>8 DEF b, u

\* What a connection carries, as StreamIntact says it.
LEMMA FlowsIntact == ASSUME Typed, Flows PROVE StreamIntact
<1> SUFFICES ASSUME NEW r \in Boards, status[r] = "up", status[Peer(r)] = "up", fd[r] = fd[Peer(r)],
                    shut[fd[r]] = {}, clean[r]
             PROVE  LET s == Peer(r) IN
                      /\ IsPrefix(given[r], taken[s])
                      /\ Carries(rx[r] \o wire[fd[r]][s] \o queue[s],
                                 SubSeq(taken[s], Len(given[r]) + 1, Len(taken[s])))
  BY Zenon DEF StreamIntact
<1> DEFINE s == Peer(r)
<1>1. PICK k \in Conns : k = fd[r]  BY DEF Typed, Ports
<1>2. On(r, k) /\ On(s, k) /\ s \in Boards /\ Peer(s) = r  BY <1>1, Peers DEF On
<1>3. Flowing(given[r], taken[s], rx[r], wire[k][s], queue[s])
  <2>1. Flow(s, k)  BY <1>2 DEF Flows
  <2>2. /\ Of(r, k, given) = given[r] /\ Of(s, k, taken) = taken[s]
        /\ Of(r, k, rx) = rx[r] /\ Of(s, k, queue) = queue[s]
    BY <1>2 DEF Of
  <2>3. QED  BY <1>1, <1>2, <2>1, <2>2, Zenon DEF Flow
<1>4. PICK rest \in Seq(Nat) :
        taken[s] = given[r] \o rest /\ Carries((rx[r] \o wire[k][s]) \o queue[s], rest)
  BY <1>3 DEF Flowing
<1>5. given[r] \in Seq(Nat) /\ taken[s] \in Seq(Nat)  BY <1>2 DEF Typed, Readers, Queues
<1> HIDE DEF s
<1>6. IsPrefix(given[r], taken[s]) /\ SubSeq(taken[s], Len(given[r]) + 1, Len(taken[s])) = rest
  BY <1>4, <1>5, HeadAndRest, Zenon
<1>7. Carries((rx[r] \o wire[k][s]) \o queue[s], SubSeq(taken[s], Len(given[r]) + 1, Len(taken[s])))
  BY <1>4, <1>6, Zenon
<1>8. QED  BY <1>1, <1>6, <1>7, Zenon DEF s

\* While a connection lasts it loses, repeats and reorders nothing: whatever the
\* kernels take and give at a time, what the one board's tcp_send accepted is what
\* the other's bus was given, followed by what is in its rx_buf, on the wire and in
\* send_buf.
THEOREM TcpStreamIntact == Spec => []StreamIntact
<1> DEFINE IInv == Typed /\ Waiting /\ Flows
<1>1. Init => IInv  BY InitTypes, InitFlows
<1>2. IInv /\ [Next]_vars => IInv'  BY TypedStep, WaitingStep, FlowStep
<1>3. IInv => StreamIntact  BY FlowsIntact
<1>4. QED  BY <1>1, <1>2, <1>3, PTL DEF Spec

-----------------------------------------------------------------------------
(* From connection to connection                                             *)

\* Everything that is under way to r on connection k, behind rx_buf
Coming(r, k) == wire[k][Peer(r)] \o Of(Peer(r), k, queue)

\* Nothing of it was given to r's bus, and all of it was sent.
Fresh(r, q) == \A x \in ToSet(q) : last[r] < x.n /\ x.n <= sent[Peer(r)]

\* The server reads k to its end, or drops it, before it reads c.
Ahead(k, c) == (k = fd["server"] /\ c \in ToSet(backlog)) \/ Before(backlog, k, c)

\* rx_buf and each connection that r uses or will use are in the order of sending.
Sorted(r) ==
  /\ last[r] <= sent[Peer(r)] /\ Rising(rx[r]) /\ Fresh(r, rx[r])
  /\ \A k \in Conns : Uses(r, k) => Rising(rx[r] \o Coming(r, k)) /\ Fresh(r, Coming(r, k))
  /\ r = "server" => \A k, c \in Conns : Ahead(k, c) => Below(Coming(r, k), Coming(r, c))

\* Nothing is on a connection that is not established, and no connection is newer
\* than the client's.
Ends ==
  /\ \A k \in Conns, b \in Boards : stage[k] # "open" => wire[k][b] = <<>>
  /\ \A k \in Conns : stage[k] = "free" => fd["client"] # k
  /\ \A k \in Conns : stage[k] = "syn" => fd["client"] = k /\ status["client"] = "connecting"
  /\ \A k, c \in Conns : fd["client"] = k => ~Ahead(k, c)

\* u is what is left of v.
Less(u, v) == ToSet(u) \subseteq ToSet(v) /\ (Rising(v) => Rising(u))

LEMMA ToSetOfNone == ToSet(<<>>) = {}
<1>1. DOMAIN <<>> = {}  OBVIOUS
<1>2. QED  BY <1>1 DEF ToSet

\* Either part of a stream is lost, or both, or none.
LEMMA Shrunk ==
  ASSUME NEW a \in Seq(AnyPiece), NEW b \in Seq(AnyPiece), NEW c \in {a, <<>>}, NEW d \in {b, <<>>}
  PROVE  c \o d \in Seq(AnyPiece) /\ Less(c \o d, a \o b)
<1>1. a \o b \in Seq(AnyPiece)  BY JoinedTypes, Zenon
<1>2. ToSet(a \o b) = ToSet(a) \cup ToSet(b)  BY HeldTogether, Zenon
<1>3. Rising(a \o b) => Rising(a) /\ Rising(b)  BY RisingJoined, Zenon
<1>4. CASE c = a /\ d = b  BY <1>1, <1>4 DEF Less
<1>5. CASE c = a /\ d = <<>>
  <2>1. c \o d = a  BY <1>5, NothingJoined, Zenon
  <2>2. QED  BY <1>2, <1>3, <2>1 DEF Less
<1>6. CASE c = <<>> /\ d = b
  <2>1. c \o d = b  BY <1>6, NothingJoined, Zenon
  <2>2. QED  BY <1>2, <1>3, <2>1 DEF Less
<1>7. CASE c = <<>> /\ d = <<>>
  <2>1. c \o d = <<>> /\ <<>> \in Seq(AnyPiece)  BY <1>7, NothingJoined, Zenon
  <2>2. Rising(<<>>)
    <3>1. DOMAIN <<>> = {}  OBVIOUS
    <3>2. QED  BY <3>1 DEF Rising
  <2>3. QED  BY <2>1, <2>2, ToSetOfNone DEF Less
<1>8. QED  BY <1>4, <1>5, <1>6, <1>7

\* Less of what is coming, behind the same rx_buf.
LEMMA LessBehind ==
  ASSUME NEW r \in Seq(AnyPiece), NEW u \in Seq(AnyPiece), NEW v \in Seq(AnyPiece), Less(u, v),
         Rising(r \o v)
  PROVE  Rising(r \o u)
<1>1. Rising(r) /\ Rising(v) /\ Below(r, v)  BY RisingJoined, Zenon
<1>2. Rising(u) /\ Below(r, u)  BY <1>1 DEF Less, Below
<1>3. QED  BY <1>1, <1>2, RisingJoined, Zenon

LEMMA ComingTypes ==
  ASSUME Typed, NEW r \in Boards, NEW k \in Conns
  PROVE  Coming(r, k) \in Seq(AnyPiece) /\ ToSet(Coming(r, k)) \subseteq AnyPiece
<1>1. Peer(r) \in Boards  BY Peers
<1>2. Coming(r, k) \in Seq(AnyPiece)  BY <1>1, OfTypes, JoinedTypes, Zenon DEF Coming
<1>3. QED  BY <1>2, HeldTogether, Zenon

LEMMA ComingShrinks ==
  ASSUME Typed, NEW r \in Boards, NEW k \in Conns,
         wire'[k][Peer(r)] \in {wire[k][Peer(r)], <<>>},
         Of(Peer(r), k, queue)' \in {Of(Peer(r), k, queue), <<>>}
  PROVE  Coming(r, k)' \in Seq(AnyPiece) /\ Less(Coming(r, k)', Coming(r, k))
<1>1. Peer(r) \in Boards  BY Peers
<1>2. wire[k][Peer(r)] \in Seq(AnyPiece) /\ Of(Peer(r), k, queue) \in Seq(AnyPiece)  BY <1>1, OfTypes
<1>3. QED  BY <1>2, Shrunk DEF Coming

\* Nothing comes to r that did not come before.
LEMMA SortedKept ==
  ASSUME Typed, NEW r \in Boards, Sorted(r), rx'[r] = rx[r], last'[r] = last[r],
         sent'[Peer(r)] \in Nat, sent[Peer(r)] <= sent'[Peer(r)],
         \A k \in Conns : Coming(r, k)' \in Seq(AnyPiece) /\ Less(Coming(r, k)', Coming(r, k)),
         \A k \in Conns : Uses(r, k)' => Uses(r, k) \/ Coming(r, k)' = <<>>,
         r = "server" => \A k, c \in Conns : Ahead(k, c)' => Ahead(k, c) \/ Coming(r, c)' = <<>>
  PROVE  Sorted(r)'
<1>0. /\ rx[r] \in Seq(AnyPiece) /\ last[r] \in Nat /\ Peer(r) \in Boards /\ sent[Peer(r)] \in Nat
      /\ ToSet(rx[r]) \subseteq AnyPiece /\ \A x \in AnyPiece : x.n \in Nat
  <2>1. rx[r] \in Seq(AnyPiece) /\ last[r] \in Nat /\ Peer(r) \in Boards /\ sent[Peer(r)] \in Nat
    BY Peers DEF Typed, Readers, Counts
  <2>2. QED  BY <2>1, HeldTogether, PlaceIsNat, Zenon
<1>1. /\ last[r] <= sent[Peer(r)] /\ Rising(rx[r])
      /\ \A x \in ToSet(rx[r]) : last[r] < x.n /\ x.n <= sent[Peer(r)]
      /\ \A k \in Conns : Uses(r, k) => Rising(rx[r] \o Coming(r, k)) /\ Fresh(r, Coming(r, k))
      /\ r = "server" => \A k, c \in Conns : Ahead(k, c) => Below(Coming(r, k), Coming(r, c))
  BY DEF Sorted, Fresh
<1>2. last'[r] <= sent'[Peer(r)]  BY <1>0, <1>1
<1>3. Fresh(r, rx[r])'  BY <1>0, <1>1 DEF Fresh
<1>4. ASSUME NEW k \in Conns, Uses(r, k)'
      PROVE  Rising(rx'[r] \o Coming(r, k)') /\ Fresh(r, Coming(r, k))'
  <2>1. CASE Uses(r, k)
    <3>1. Coming(r, k) \in Seq(AnyPiece) /\ ToSet(Coming(r, k)) \subseteq AnyPiece  BY ComingTypes
    <3>2. Rising(rx[r] \o Coming(r, k)')  BY <1>0, <1>1, <2>1, <3>1, LessBehind
    <3>3. \A x \in ToSet(Coming(r, k)) : last[r] < x.n /\ x.n <= sent[Peer(r)] /\ x.n \in Nat
      BY <1>0, <1>1, <2>1, <3>1 DEF Fresh
    <3>4. \A x \in ToSet(Coming(r, k)') : last'[r] < x.n /\ x.n <= sent'[Peer(r)]
      BY <1>0, <3>3 DEF Less
    <3>5. QED  BY <3>2, <3>4 DEF Fresh
  <2>2. CASE Coming(r, k)' = <<>>
    <3>1. rx'[r] \o Coming(r, k)' = rx[r]  BY <1>0, <2>2, NothingJoined, Zenon
    <3>2. QED  BY <1>1, <2>2, <3>1, ToSetOfNone DEF Fresh
  <2>3. QED  BY <1>4, <2>1, <2>2
<1>5. ASSUME NEW k \in Conns, NEW c \in Conns, r = "server", Ahead(k, c)'
      PROVE  Below(Coming(r, k)', Coming(r, c)')
  <2>1. CASE Ahead(k, c)  BY <1>1, <1>5, <2>1 DEF Below, Less
  <2>2. CASE Coming(r, c)' = <<>>  BY <2>2, ToSetOfNone DEF Below
  <2>3. QED  BY <1>5, <2>1, <2>2
<1>6. QED  BY <1>1, <1>2, <1>3, <1>4, <1>5 DEF Sorted

\* A connection that is up is established.
LEMMA UpIsOpen ==
  ASSUME Typed, Waiting, Ends, NEW b \in Boards, status[b] = "up"
  PROVE  fd[b] \in Conns /\ stage[fd[b]] = "open"
<1>1. fd[b] \in Conns /\ stage[fd[b]] \in {"free", "syn", "open"} /\ NoConn \notin Conns
  BY Sizes DEF Typed, Ports, Links
<1>2. CASE b = "server"  BY <1>1, <1>2 DEF Waiting
<1>3. CASE b = "client"  BY <1>1, <1>3 DEF Ends
<1>4. QED  BY <1>1, <1>2, <1>3 DEF Boards

\* The line behind the server's connection gets shorter, or nothing happens to it.
LEMMA AheadKept ==
  ASSUME backlog' = backlog, fd'["server"] \in {fd["server"], NoConn}
  PROVE  \A k, c \in Conns : Ahead(k, c)' => Ahead(k, c)
<1>1. NoConn \notin Conns  BY Sizes
<1>2. QED  BY <1>1 DEF Ahead, Before

LEMMA AheadAccepted ==
  ASSUME Typed, Accept
  PROVE  /\ \A k, c \in Conns : Ahead(k, c)' => Ahead(k, c)
         /\ \A k \in Conns : Uses("server", k)' => Uses("server", k)
<1>1. backlog \in Seq(Conns) /\ backlog # <<>> /\ backlog' = Tail(backlog) /\ fd'["server"] = Head(backlog)
  BY DEF Accept, Start, Typed, Links, Ports, Boards
<1>2. /\ Head(backlog) \in ToSet(backlog) /\ ToSet(backlog') \subseteq ToSet(backlog)
      /\ \A x, y : Before(backlog', x, y) => Before(backlog, x, y)
      /\ \A y \in ToSet(backlog') : Before(backlog, Head(backlog), y)
  BY <1>1, FirstInLine
<1>3. \A k, c : Ahead(k, c)' <=> (k = fd'["server"] /\ c \in ToSet(backlog')) \/ Before(backlog', k, c)
  BY DEF Ahead, Before
<1>4. \A k, c \in Conns : Ahead(k, c)' => Ahead(k, c)  BY <1>1, <1>2, <1>3 DEF Ahead
<1>5. \A k \in Conns : Uses("server", k)' => Uses("server", k)  BY <1>1, <1>2 DEF Uses
<1>6. QED  BY <1>4, <1>5

\* The newest connection gets in line.
LEMMA AheadAppended ==
  ASSUME Typed, NEW k \in Conns, backlog' = Append(backlog, k), fd'["server"] = fd["server"]
  PROVE  /\ \A a, c \in Conns : Ahead(a, c)' => Ahead(a, c) \/ (Uses("server", a) /\ c = k)
         /\ \A a \in Conns : Uses("server", a)' => Uses("server", a) \/ a = k
<1>1. backlog \in Seq(Conns)  BY DEF Typed, Links
<1>2. /\ ToSet(backlog') = ToSet(backlog) \cup {k}
      /\ \A y, z : Before(backlog', y, z) => Before(backlog, y, z) \/ (y \in ToSet(backlog) /\ z = k)
  BY <1>1, LastInLine
<1>3. \A a, c : Ahead(a, c)' <=> (a = fd'["server"] /\ c \in ToSet(backlog')) \/ Before(backlog', a, c)
  BY DEF Ahead, Before
<1>4. \A a, c \in Conns : Ahead(a, c)' => Ahead(a, c) \/ (Uses("server", a) /\ c = k)
  BY <1>2, <1>3 DEF Ahead, Uses
<1>5. \A a \in Conns : Uses("server", a)' => Uses("server", a) \/ a = k  BY <1>2 DEF Uses
<1>6. QED  BY <1>4, <1>5

\* Who waits or is used by the server is established.
LEMMA UsedIsOpen ==
  ASSUME Typed, Waiting, NEW k \in Conns, Uses("server", k)
  PROVE  stage[k] = "open"
<1>1. NoConn \notin Conns  BY Sizes
<1>2. QED  BY <1>1 DEF Uses, Waiting

LEMMA CloseEnds ==
  ASSUME Typed, Waiting, Ends, NEW b \in Boards, Close(b), status[b] # "none"
  PROVE  Ends'
<1>0. /\ fd \in [Boards -> Conns \cup {NoConn}] /\ status \in [Boards -> {"none", "connecting", "up"}]
      /\ fd[b] \in Conns /\ NoConn \notin Conns /\ "client" \in Boards /\ "server" \in Boards
  BY Sizes DEF Typed, Ports, Boards
<1>1. /\ fd' = [fd EXCEPT ![b] = NoConn] /\ status' = [status EXCEPT ![b] = "none"]
      /\ backlog' = backlog /\ CloseEnd(b)
  BY DEF Close
<1>2. /\ \A k \in Conns, c \in Boards : wire'[k][c] \in {wire[k][c], <<>>}
      /\ \A k \in Conns : k # fd[b] => stage'[k] = stage[k]
      /\ Uses(Peer(b), fd[b]) => stage'[fd[b]] = stage[fd[b]]
      /\ ~Uses(Peer(b), fd[b]) => stage'[fd[b]] = "free" /\ wire'[fd[b]] = Silence
  BY <1>0, <1>1, CloseEndTypes DEF Typed
<1>3. \A k \in Conns : stage'[k] = stage[k]
                       \/ (k = fd[b] /\ stage'[k] = "free" /\ wire'[k] = Silence /\ ~Uses(Peer(b), k))
  BY <1>2
<1>4. \A c \in Boards : Silence[c] = <<>>  BY DEF Silence
<1>5. \A k \in Conns, c \in Boards : stage'[k] # "open" => wire'[k][c] = <<>>
  BY <1>2, <1>3, <1>4 DEF Ends
<1>6. \A k \in Conns : fd'["client"] = k => fd["client"] = k /\ b = "server"
                                            /\ status'["client"] = status["client"]
  BY <1>0, <1>1 DEF Boards
<1>7. \A k \in Conns : stage'[k] = "free" => fd'["client"] # k
  BY <1>3, <1>6 DEF Ends, Uses, Peer
<1>8. \A k \in Conns : stage'[k] = "syn" => fd'["client"] = k /\ status'["client"] = "connecting"
  <2> SUFFICES ASSUME NEW k \in Conns, stage'[k] = "syn"
               PROVE  fd'["client"] = k /\ status'["client"] = "connecting"
    OBVIOUS
  <2>1. stage[k] = "syn" /\ fd["client"] = k /\ status["client"] = "connecting"
    BY <1>3 DEF Ends
  <2>2. b = "server"
    <3> SUFFICES ASSUME b = "client"  PROVE FALSE  BY DEF Boards
    <3>1. ~Uses("server", k)  BY <2>1, UsedIsOpen
    <3>2. Peer(b) = "server" /\ k = fd[b]  BY <2>1 DEF Peer
    <3>3. QED  BY <1>2, <3>1, <3>2
  <2>3. QED  BY <1>0, <1>1, <2>1, <2>2
<1>9. \A k, c \in Conns : fd'["client"] = k => ~Ahead(k, c)'
  <2>1. fd'["server"] \in {fd["server"], NoConn}  BY <1>0, <1>1
  <2>2. \A k, c \in Conns : Ahead(k, c)' => Ahead(k, c)  BY <1>1, <2>1, AheadKept
  <2>3. QED  BY <1>6, <2>2 DEF Ends
<1>10. QED  BY <1>5, <1>7, <1>8, <1>9 DEF Ends

LEMMA ConnectEnds ==
  ASSUME Typed, Waiting, Ends, TimerFires \/ ConnectReady \/ ConnectFails \/ Accept
  PROVE  Ends'
<1> USE DEF local, network
<1>0. /\ fd \in [Boards -> Conns \cup {NoConn}] /\ status \in [Boards -> {"none", "connecting", "up"}]
      /\ stage \in [Conns -> {"free", "syn", "open"}]
      /\ NoConn \notin Conns /\ "client" \in Boards /\ "server" \in Boards
      /\ \A b \in Boards : (fd[b] = NoConn) = (status[b] = "none")
  BY Sizes DEF Typed, Ports, Links, Boards
<1>1. CASE TimerFires
  <2>1. wire' = wire /\ status["client"] = "none" /\ fd["client"] = NoConn
    BY <1>0, <1>1 DEF TimerFires
  <2>2. \A c \in Conns : stage[c] # "syn"  BY <2>1 DEF Ends
  <2>3. CASE \E k \in Conns : stage[k] = "free" /\ Connecting(k)
    <3>1. PICK k \in Conns : stage[k] = "free" /\ Connecting(k)  BY <2>3
    <3>2. /\ fd' = [fd EXCEPT !["client"] = k] /\ status' = [status EXCEPT !["client"] = "connecting"]
          /\ stage' = [stage EXCEPT ![k] = "syn"] /\ backlog' = backlog
      BY <3>1 DEF Connecting, Start
    <3>3. \A a, c \in Conns : fd'["client"] = a => ~Ahead(a, c)'
      <4>1. \A c \in Conns : ~Ahead(k, c)
        <5>1. ~Uses("server", k)  BY <3>1, UsedIsOpen
        <5>2. QED  BY <5>1 DEF Ahead, Before, Uses, ToSet
      <4>2. fd'["server"] = fd["server"] /\ fd'["client"] = k  BY <1>0, <3>2
      <4>3. \A a, c \in Conns : Ahead(a, c)' => Ahead(a, c)  BY <3>2, <4>2, AheadKept
      <4>4. QED  BY <4>1, <4>2, <4>3
    <3>4. QED  BY <1>0, <2>1, <2>2, <3>1, <3>2, <3>3 DEF Ends
  <2>4. CASE \E k \in Conns : stage[k] = "free" /\ ConnectedAtOnce(k)
    <3>1. PICK k \in Conns : stage[k] = "free" /\ ConnectedAtOnce(k)  BY <2>4
    <3>2. /\ fd' = [fd EXCEPT !["client"] = k] /\ status' = [status EXCEPT !["client"] = "up"]
          /\ stage' = [stage EXCEPT ![k] = "open"] /\ backlog' = Append(backlog, k)
      BY <3>1 DEF ConnectedAtOnce, Start
    <3>3. \A a, c \in Conns : fd'["client"] = a => ~Ahead(a, c)'
      <4>1. ~Uses("server", k)  BY <3>1, UsedIsOpen
      <4>2. \A c \in Conns : ~Ahead(k, c)  BY <4>1 DEF Ahead, Before, Uses, ToSet
      <4>3. fd'["server"] = fd["server"] /\ fd'["client"] = k  BY <1>0, <3>2
      <4>4. \A a, c \in Conns : Ahead(a, c)' => Ahead(a, c) \/ (Uses("server", a) /\ c = k)
        BY <3>2, <4>3, AheadAppended
      <4>5. QED  BY <4>1, <4>2, <4>3, <4>4
    <3>4. QED  BY <1>0, <2>1, <2>2, <3>1, <3>2, <3>3 DEF Ends
  <2>5. CASE FailedAtOnce
    <3>1. UNCHANGED <<fd, status, stage, backlog, wire>>  BY <2>1, <2>5 DEF FailedAtOnce
    <3>2. QED  BY <3>1 DEF Ends, Ahead, Before
  <2>6. QED  BY <1>1, <2>3, <2>4, <2>5 DEF TimerFires
<1>2. CASE ConnectReady
  <2>1. /\ fd' = [fd EXCEPT !["client"] = fd["client"]] /\ status' = [status EXCEPT !["client"] = "up"]
        /\ stage[fd["client"]] = "open" /\ UNCHANGED <<stage, backlog, wire>>
    BY <1>2 DEF ConnectReady, Start
  <2>2. fd' = fd  BY <1>0, <2>1
  <2>3. \A k \in Conns : stage[k] # "syn"  BY <2>1 DEF Ends
  <2>4. QED  BY <2>1, <2>2, <2>3 DEF Ends, Ahead, Before
<1>3. CASE ConnectFails
  <2>1. Close("client") /\ status["client"] # "none"  BY <1>3 DEF ConnectFails
  <2>2. QED  BY <1>0, <2>1, CloseEnds
<1>4. CASE Accept
  <2> DEFINE b == "server"
  <2>1. /\ fd' = [fd EXCEPT ![b] = Head(backlog)] /\ status' = [status EXCEPT ![b] = "up"]
        /\ IF fd[b] = NoConn THEN UNCHANGED <<stage, shut, wire>> ELSE CloseEnd(b)
    BY <1>4 DEF Accept, Start
  <2>2. fd'["client"] = fd["client"] /\ status'["client"] = status["client"]  BY <1>0, <2>1
  <2>3. \A k, c \in Conns : fd'["client"] = k => ~Ahead(k, c)'
    BY <1>4, <2>2, AheadAccepted DEF Ends
  <2>4. /\ \A k \in Conns, c \in Boards : wire'[k][c] \in {wire[k][c], <<>>}
        /\ \A k \in Conns : stage'[k] = stage[k]
             \/ (stage'[k] = "free" /\ fd["client"] # k /\ \A c \in Boards : wire'[k][c] = <<>>)
    <3>1. CASE fd[b] = NoConn  BY <2>1, <3>1
    <3>2. CASE fd[b] # NoConn
      <4>1. b \in Boards /\ fd[b] \in Conns /\ CloseEnd(b) /\ Peer(b) = "client"
        BY <1>0, <2>1, <3>2 DEF Peer
      <4>2. /\ \A k \in Conns, c \in Boards : wire'[k][c] \in {wire[k][c], <<>>}
            /\ \A k \in Conns : k # fd[b] => stage'[k] = stage[k]
            /\ Uses(Peer(b), fd[b]) => stage'[fd[b]] = stage[fd[b]]
            /\ ~Uses(Peer(b), fd[b]) => stage'[fd[b]] = "free" /\ wire'[fd[b]] = Silence
        BY <4>1, CloseEndTypes DEF Typed
      <4>3. \A c \in Boards : Silence[c] = <<>>  BY DEF Silence
      <4>4. \A k \in Conns : stage'[k] = stage[k]
              \/ (stage'[k] = "free" /\ fd["client"] # k /\ wire'[k] = Silence)
        BY <4>1, <4>2 DEF Uses
      <4>5. QED  BY <4>2, <4>3, <4>4
    <3>3. QED  BY <3>1, <3>2
  <2>5. QED  BY <2>2, <2>3, <2>4 DEF Ends
<1>5. QED  BY <1>1, <1>2, <1>3, <1>4

LEMMA EndsStep ==
  ASSUME Typed, Waiting, Ends, [Next]_vars
  PROVE  Ends'
<1> USE DEF local, network
<1>0. /\ stage \in [Conns -> {"free", "syn", "open"}] /\ wire \in [Conns -> [Boards -> Seq(AnyPiece)]]
      /\ \A b \in Boards : Peer(b) \in Boards
  BY Peers DEF Typed, Links
<1>a. ASSUME UNCHANGED <<fd, status, stage, backlog>>,
             \A k \in Conns, b \in Boards : stage[k] # "open" => wire'[k][b] \in {wire[k][b], <<>>}
      PROVE  Ends'
  <2>1. \A k, c \in Conns : Ahead(k, c)' = Ahead(k, c)  BY <1>a DEF Ahead, Before
  <2>2. QED  BY <1>a, <2>1 DEF Ends
<1>1. CASE UNCHANGED vars  BY <1>a, <1>1 DEF vars
<1>2. CASE TimerFires \/ ConnectReady \/ ConnectFails \/ Accept  BY <1>2, ConnectEnds
<1>3. ASSUME NEW k \in Conns, Handshake(k)  PROVE Ends'
  <2>1. /\ stage[k] = "syn" /\ stage' = [stage EXCEPT ![k] = "open"] /\ backlog' = Append(backlog, k)
        /\ UNCHANGED <<fd, status, wire>>
    BY <1>3 DEF Handshake
  <2>2. fd["client"] = k /\ ~Uses("server", k)  BY <2>1, UsedIsOpen DEF Ends
  <2>3. \A a, c \in Conns : Ahead(a, c)' => Ahead(a, c) \/ (Uses("server", a) /\ c = k)
    BY <2>1, AheadAppended
  <2>4. QED  BY <1>0, <2>1, <2>2, <2>3 DEF Ends
<1>4. ASSUME NEW k \in Conns, Break(k)  PROVE Ends'
  <2>1. wire' = [wire EXCEPT ![k] = Silence] /\ UNCHANGED <<fd, status, stage, backlog>>
    BY <1>4 DEF Break
  <2>2. \A c \in Boards : Silence[c] = <<>>  BY DEF Silence
  <2>3. \A c \in Conns, b \in Boards : wire'[c][b] \in {wire[c][b], <<>>}  BY <1>0, <2>1, <2>2
  <2>4. QED  BY <1>a, <2>1, <2>3
<1>5. ASSUME NEW b \in Boards, Works(b) \/ Sending(b)  PROVE Ends'
  <2>1. CASE HangUp(b) \/ RecvEof(b) \/ SendFails(b)
    <3>1. Close(b) /\ status[b] = "up"  BY <2>1, DropCloses DEF HangUp, RecvEof, SendFails
    <3>2. QED  BY <3>1, CloseEnds
  <2>2. CASE Recv(b) \/ Flush(b) \/ SendNow(b)
    <3>1. UNCHANGED <<fd, status, stage, backlog>> /\ status[b] = "up"
      BY <2>2 DEF Recv, Flush, SendNow
    <3>2. \E c \in Boards : \E w : wire' = [wire EXCEPT ![fd[b]][c] = w]
      BY <1>0, <2>2 DEF Recv, Flush, SendNow
    <3>3. fd[b] \in Conns /\ stage[fd[b]] = "open"  BY <3>1, UpIsOpen
    <3>4. \A k \in Conns : stage[k] # "open" => wire'[k] = wire[k]  BY <1>0, <3>2, <3>3
    <3>5. QED  BY <1>a, <3>1, <3>4
  <2>3. CASE ~(HangUp(b) \/ RecvEof(b) \/ SendFails(b)) /\ ~(Recv(b) \/ Flush(b) \/ SendNow(b))
    <3>1. UNCHANGED <<fd, status, stage, backlog, wire>>
      BY <1>5, <2>3 DEF Works, Sending, Readable, RecvNothing, ParseFrame, ParseWait, ParseBad,
         SendRefused, SendLater
    <3>2. QED  BY <1>a, <3>1
  <2>4. QED  BY <2>1, <2>2, <2>3
<1>6. QED  BY <1>1, <1>2, <1>3, <1>4, <1>5 DEF Next

\* b starts on a connection, or closes its own.
LEMMA RestartSorted ==
  ASSUME Typed, NEW b \in Boards, Restarts(b), NEW r \in Boards, Sorted(r), UNCHANGED <<rx, last>>,
         fd'[Peer(b)] = fd[Peer(b)], status'[Peer(b)] = status[Peer(b)],
         \A c \in Boards : sent'[c] \in Nat /\ sent[c] <= sent'[c],
         \A k \in Conns, c \in Boards : wire'[k][c] \in {wire[k][c], <<>>},
         \A k \in Conns : Uses(r, k)' => Uses(r, k) \/ Coming(r, k)' = <<>>,
         r = "server" => \A k, c \in Conns : Ahead(k, c)' => Ahead(k, c) \/ Coming(r, c)' = <<>>
  PROVE  Sorted(r)'
<1>1. Peer(r) \in Boards /\ (Peer(r) = b \/ Peer(r) = Peer(b)) /\ Peer(b) # b /\ Peer(b) \in Boards
  BY Peers DEF Peer, Boards
<1>2. queue'[b] = <<>> /\ queue'[Peer(b)] = queue[Peer(b)]
  BY <1>1 DEF Restarts, Typed, Queues
<1>3. \A k \in Conns : Of(Peer(r), k, queue)' \in {Of(Peer(r), k, queue), <<>>}
  BY <1>1, <1>2 DEF Of, On
<1>4. \A k \in Conns : Coming(r, k)' \in Seq(AnyPiece) /\ Less(Coming(r, k)', Coming(r, k))
  BY <1>1, <1>3, ComingShrinks
<1>5. QED  BY <1>1, <1>4, SortedKept

\* On a connection that is not established nothing comes.
LEMMA NothingComes ==
  ASSUME Typed, Waiting, Ends, NEW r \in Boards, NEW k \in Conns, stage[k] # "open",
         wire'[k] = wire[k], Of(Peer(r), k, queue)' = <<>>
  PROVE  Coming(r, k)' = <<>>
<1>1. wire[k][Peer(r)] = <<>>  BY Peers DEF Ends
<1>2. <<>> \o <<>> = <<>>  BY NothingJoined
<1>3. QED  BY <1>1, <1>2, Zenon DEF Coming

LEMMA CloseSorted ==
  ASSUME Typed, NEW b \in Boards, Close(b), status[b] # "none", NEW r \in Boards, Sorted(r),
         UNCHANGED <<rx, last>>, \A c \in Boards : sent'[c] \in Nat /\ sent[c] <= sent'[c]
  PROVE  Sorted(r)'
<1>1. /\ fd' = [fd EXCEPT ![b] = NoConn] /\ status' = [status EXCEPT ![b] = "none"]
      /\ backlog' = backlog /\ CloseEnd(b) /\ Restarts(b)
  BY CloseRestarts DEF Close
<1>2. /\ fd \in [Boards -> Conns \cup {NoConn}] /\ status \in [Boards -> {"none", "connecting", "up"}]
      /\ fd[b] \in Conns /\ NoConn \notin Conns /\ "server" \in Boards
  BY Sizes DEF Typed, Ports, Boards
<1>3. fd'[Peer(b)] = fd[Peer(b)] /\ status'[Peer(b)] = status[Peer(b)]  BY <1>1, <1>2, Peers
<1>4. \A k \in Conns, c \in Boards : wire'[k][c] \in {wire[k][c], <<>>}
  BY <1>1, <1>2, CloseEndTypes DEF Typed
<1>5. \A k \in Conns : Uses(r, k)' => Uses(r, k)  BY <1>1, <1>2 DEF Uses
<1>6. \A k, c \in Conns : Ahead(k, c)' => Ahead(k, c)
  <2>1. fd'["server"] \in {fd["server"], NoConn}  BY <1>1, <1>2
  <2>2. QED  BY <1>1, <2>1, AheadKept
<1>7. QED  BY <1>1, <1>3, <1>4, <1>5, <1>6, RestartSorted

LEMMA ConnectSorted ==
  ASSUME Typed, Waiting, Ends, TimerFires \/ ConnectReady \/ ConnectFails \/ Accept,
         NEW r \in Boards, Sorted(r)
  PROVE  Sorted(r)'
<1> USE DEF local, network
<1>0. /\ fd \in [Boards -> Conns \cup {NoConn}] /\ status \in [Boards -> {"none", "connecting", "up"}]
      /\ NoConn \notin Conns /\ "client" \in Boards /\ "server" \in Boards
      /\ \A b \in Boards : sent[b] \in Nat
      /\ Peer("client") = "server" /\ Peer("server") = "client" /\ r \in {"client", "server"}
  BY Sizes DEF Typed, Ports, Counts, Boards, Peer
<1>s. sent' = sent /\ \A c \in Boards : sent'[c] \in Nat /\ sent[c] <= sent'[c]
  <2>1. sent' = sent  BY DEF TimerFires, ConnectReady, ConnectFails, Accept
  <2>2. QED  BY <1>0, <2>1
<1>1. CASE TimerFires
  <2>1. UNCHANGED <<rx, last, wire>> /\ status["client"] = "none"  BY <1>1 DEF TimerFires
  <2>2. \A k \in Conns, c \in Boards : wire'[k][c] \in {wire[k][c], <<>>}  BY <2>1
  <2>3. ASSUME NEW k \in Conns, stage[k] = "free", Connecting(k) \/ ConnectedAtOnce(k)
        PROVE  Sorted(r)'
    <3>1. PICK state : Start("client", k, state)  BY <2>3 DEF Connecting, ConnectedAtOnce
    <3>2. Restarts("client") /\ fd' = [fd EXCEPT !["client"] = k]
          /\ status' = [status EXCEPT !["client"] = state]
      BY <3>1, StartRestarts DEF Start
    <3>3. fd'["server"] = fd["server"] /\ status'["server"] = status["server"] /\ fd'["client"] = k
      BY <1>0, <3>2
    <3>4. ~Uses("server", k)  BY <2>3, UsedIsOpen
    <3>5. Coming(r, k)' = <<>>
      <4>1. Of("server", k, queue)' = <<>>  BY <3>3, <3>4 DEF Of, On, Uses
      <4>2. Of("client", k, queue)' = <<>>
        <5>1. queue'["client"] = <<>>  BY <1>0, <3>2 DEF Restarts, Typed, Queues
        <5>2. QED  BY <5>1 DEF Of
      <4>3. Of(Peer(r), k, queue)' = <<>>  BY <1>0, <4>1, <4>2
      <4>4. QED  BY <2>1, <2>3, <4>3, NothingComes
    <3>6. \A c \in Conns : Uses(r, c)' => Uses(r, c) \/ c = k
      <4>1. CASE r = "client"  BY <3>3, <4>1 DEF Uses
      <4>2. CASE r = "server" /\ backlog' = backlog  BY <3>3, <4>2 DEF Uses
      <4>3. CASE r = "server" /\ backlog' = Append(backlog, k)  BY <3>3, <4>3, AheadAppended
      <4>4. QED  BY <1>0, <2>3, <4>1, <4>2, <4>3 DEF Connecting, ConnectedAtOnce
    <3>7. \A a, c \in Conns : Ahead(a, c)' => Ahead(a, c) \/ c = k
      <4>1. CASE backlog' = backlog  BY <3>3, <4>1, AheadKept
      <4>2. CASE backlog' = Append(backlog, k)  BY <3>3, <4>2, AheadAppended
      <4>3. QED  BY <2>3, <4>1, <4>2 DEF Connecting, ConnectedAtOnce
    <3>8. \A c \in Conns : Uses(r, c)' => Uses(r, c) \/ Coming(r, c)' = <<>>  BY <3>5, <3>6
    <3>9. \A a, c \in Conns : Ahead(a, c)' => Ahead(a, c) \/ Coming(r, c)' = <<>>  BY <3>5, <3>7
    <3>10. QED  BY <1>0, <1>s, <2>1, <2>2, <3>2, <3>3, <3>8, <3>9, RestartSorted
  <2>4. CASE FailedAtOnce
    <3>1. UNCHANGED <<fd, status, queue, backlog, rx, last, wire, sent>>
      BY <1>s, <2>1, <2>4 DEF FailedAtOnce
    <3>2. QED  BY <3>1 DEF Sorted, Fresh, Uses, Coming, Of, On, Ahead, Before
  <2>5. QED  BY <1>1, <2>3, <2>4 DEF TimerFires
<1>2. CASE ConnectReady
  <2>1. /\ Restarts("client") /\ fd' = [fd EXCEPT !["client"] = fd["client"]]
        /\ status' = [status EXCEPT !["client"] = "up"] /\ UNCHANGED <<rx, last, wire, backlog>>
    BY <1>2, StartRestarts DEF ConnectReady, Start
  <2>2. fd' = fd /\ status'["server"] = status["server"]  BY <1>0, <2>1
  <2>3. \A k \in Conns : Uses(r, k)' => Uses(r, k)  BY <2>1, <2>2 DEF Uses
  <2>4. \A k, c \in Conns : Ahead(k, c)' => Ahead(k, c)  BY <2>1, <2>2, AheadKept
  <2>5. \A k \in Conns, c \in Boards : wire'[k][c] \in {wire[k][c], <<>>}  BY <2>1
  <2>6. QED  BY <1>0, <1>s, <2>1, <2>2, <2>3, <2>4, <2>5, RestartSorted
<1>3. CASE ConnectFails
  <2>1. Close("client") /\ status["client"] # "none" /\ UNCHANGED <<rx, last>>
    BY <1>3 DEF ConnectFails
  <2>2. QED  BY <1>0, <1>s, <2>1, CloseSorted
<1>4. CASE Accept
  <2>1. /\ Restarts("server") /\ fd' = [fd EXCEPT !["server"] = Head(backlog)]
        /\ status' = [status EXCEPT !["server"] = "up"] /\ UNCHANGED <<rx, last>>
        /\ IF fd["server"] = NoConn THEN UNCHANGED <<stage, shut, wire>> ELSE CloseEnd("server")
    BY <1>4, StartRestarts DEF Accept, Start
  <2>2. fd'["client"] = fd["client"] /\ status'["client"] = status["client"]  BY <1>0, <2>1
  <2>3. \A k, c \in Conns : Ahead(k, c)' => Ahead(k, c)  BY <1>4, AheadAccepted
  <2>4. \A k \in Conns : Uses(r, k)' => Uses(r, k)
    <3>1. CASE r = "server"  BY <1>4, <3>1, AheadAccepted
    <3>2. CASE r = "client"  BY <2>2, <3>2 DEF Uses
    <3>3. QED  BY <1>0, <3>1, <3>2
  <2>5. \A k \in Conns, c \in Boards : wire'[k][c] \in {wire[k][c], <<>>}
    <3>1. CASE fd["server"] = NoConn  BY <2>1, <3>1
    <3>2. CASE fd["server"] # NoConn
      <4>1. fd["server"] \in Conns /\ CloseEnd("server")  BY <1>0, <2>1, <3>2
      <4>2. QED  BY <1>0, <4>1, CloseEndTypes DEF Typed
    <3>3. QED  BY <3>1, <3>2
  <2>6. QED  BY <1>0, <1>s, <2>1, <2>2, <2>3, <2>4, <2>5, RestartSorted
<1>5. QED  BY <1>1, <1>2, <1>3, <1>4

LEMMA NetworkSorted ==
  ASSUME Typed, Waiting, Ends, NEW k \in Conns, Handshake(k) \/ Break(k), NEW r \in Boards, Sorted(r)
  PROVE  Sorted(r)'
<1> USE DEF local, history
<1>0. /\ wire \in [Conns -> [Boards -> Seq(AnyPiece)]] /\ Peer(r) \in Boards /\ sent[Peer(r)] \in Nat
      /\ UNCHANGED <<fd, status, queue, rx, last, sent>>
  BY Peers DEF Typed, Links, Counts, Handshake, Break
<1>1. \A c \in Conns, b \in Boards : wire'[c][b] \in {wire[c][b], <<>>}
  <2>1. \A c \in Boards : Silence[c] = <<>>  BY DEF Silence
  <2>2. QED  BY <1>0, <2>1 DEF Handshake, Break
<1>2. \A c \in Conns : Of(Peer(r), c, queue)' = Of(Peer(r), c, queue)  BY <1>0 DEF Of, On
<1>3. \A c \in Conns : Coming(r, c)' \in Seq(AnyPiece) /\ Less(Coming(r, c)', Coming(r, c))
  BY <1>0, <1>1, <1>2, ComingShrinks
<1>s. /\ rx'[r] = rx[r] /\ last'[r] = last[r]
      /\ sent'[Peer(r)] \in Nat /\ sent[Peer(r)] <= sent'[Peer(r)]
  BY <1>0
<1>4. CASE Break(k)
  <2>1. backlog' = backlog  BY <1>4 DEF Break
  <2>2. \A c \in Conns : Uses(r, c)' => Uses(r, c)  BY <1>0, <2>1 DEF Uses
  <2>3. \A a, c \in Conns : Ahead(a, c)' => Ahead(a, c)  BY <1>0, <2>1, AheadKept
  <2>4. QED  BY <1>3, <1>s, <2>2, <2>3, SortedKept
<1>5. CASE Handshake(k)
  <2>1. stage[k] = "syn" /\ backlog' = Append(backlog, k) /\ wire' = wire  BY <1>5 DEF Handshake
  <2>2. r = "server" => Coming(r, k)' = <<>>
    <3> SUFFICES ASSUME r = "server"  PROVE Coming(r, k)' = <<>>  OBVIOUS
    <3>1. status["client"] = "connecting" /\ Peer(r) = "client"  BY <2>1 DEF Ends, Peer
    <3>2. Of(Peer(r), k, queue)' = <<>>  BY <1>0, <3>1 DEF Of, On
    <3>3. QED  BY <2>1, <3>2, NothingComes
  <2>3. \A c \in Conns : Uses(r, c)' => Uses(r, c) \/ Coming(r, c)' = <<>>
    <3>1. CASE r = "server"
      <4>1. \A c \in Conns : Uses(r, c)' => Uses(r, c) \/ c = k  BY <1>0, <2>1, <3>1, AheadAppended
      <4>2. QED  BY <2>2, <3>1, <4>1
    <3>2. CASE r # "server"  BY <1>0, <3>2 DEF Uses
    <3>3. QED  BY <3>1, <3>2
  <2>4. ASSUME r = "server"
        PROVE  \A a, c \in Conns : Ahead(a, c)' => Ahead(a, c) \/ Coming(r, c)' = <<>>
    BY <1>0, <2>1, <2>2, <2>4, AheadAppended
  <2>5. QED  BY <1>3, <1>s, <2>3, <2>4, SortedKept
<1>6. QED  BY <1>4, <1>5

\* A step of r's peer on what it reads, or of r on what it sends: nothing that comes
\* to r changes.
LEMMA SortedOther ==
  ASSUME Typed, NEW r \in Boards, Sorted(r), UNCHANGED <<fd, status, backlog>>,
         rx'[r] = rx[r], last'[r] = last[r],
         sent'[Peer(r)] \in Nat, sent[Peer(r)] <= sent'[Peer(r)],
         \A k \in Conns : wire'[k][Peer(r)] = wire[k][Peer(r)], queue'[Peer(r)] = queue[Peer(r)]
  PROVE  Sorted(r)'
<1>1. \A k \in Conns : Of(Peer(r), k, queue)' = Of(Peer(r), k, queue)  BY DEF Of, On
<1>2. \A k \in Conns : Coming(r, k)' \in Seq(AnyPiece) /\ Less(Coming(r, k)', Coming(r, k))
  BY <1>1, ComingShrinks
<1>3. \A k \in Conns : Uses(r, k)' => Uses(r, k)  BY DEF Uses
<1>4. \A k, c \in Conns : Ahead(k, c)' => Ahead(k, c)  BY AheadKept
<1>5. QED  BY <1>2, <1>3, <1>4, SortedKept

\* recv moves x to rx_buf, and y is still on the wire before q.
LEMMA RecvOrder ==
  ASSUME NEW r \in Seq(AnyPiece), NEW x \in Seq(AnyPiece), NEW y \in Seq(AnyPiece),
         NEW q \in Seq(AnyPiece), Rising(r \o ((x \o y) \o q))
  PROVE  /\ Rising((r \o x) \o (y \o q)) /\ Rising(r \o x)
         /\ ToSet((x \o y) \o q) = ToSet(x) \cup ToSet(y \o q)
         /\ ToSet(r \o x) = ToSet(r) \cup ToSet(x)
<1>1. y \o q \in Seq(AnyPiece) /\ r \o x \in Seq(AnyPiece)  BY JoinedTypes, Zenon
<1>2. (x \o y) \o q = x \o (y \o q)  BY Regrouped, Zenon
<1>3. r \o (x \o (y \o q)) = (r \o x) \o (y \o q)  BY <1>1, Regrouped, Zenon
<1>4. Rising((r \o x) \o (y \o q))  BY <1>2, <1>3, Zenon
<1>5. Rising(r \o x)  BY <1>1, <1>4, RisingJoined, Zenon
<1>6. ToSet(x \o (y \o q)) = ToSet(x) \cup ToSet(y \o q) /\ ToSet(r \o x) = ToSet(r) \cup ToSet(x)
  BY <1>1, HeldTogether, Zenon
<1>7. QED  BY <1>2, <1>4, <1>5, <1>6, Zenon

\* What b receives keeps its order.
LEMMA RecvSorted ==
  ASSUME Typed, NEW b \in Boards, Recv(b), Sorted(b)
  PROVE  Sorted(b)'
<1> DEFINE p == Peer(b)
<1>1. UNCHANGED <<fd, status, queue, backlog, last, sent>> /\ status[b] = "up"
  BY DEF Recv, local, history
<1>2. PICK k \in Conns : k = fd[b]  BY <1>1 DEF Typed, Ports
<1>3. /\ rx \in [Boards -> Seq(AnyPiece)] /\ wire \in [Conns -> [Boards -> Seq(AnyPiece)]]
      /\ p \in Boards /\ NoConn \notin Conns
  BY Peers, Sizes DEF Typed, Readers, Links
<1> DEFINE in == wire[k][p]
<1>4. PICK j \in 1 .. Min({Len(in), RxCap - Len(rx[b])}) :
        /\ rx' = [rx EXCEPT ![b] = rx[b] \o SubSeq(in, 1, j)]
        /\ wire' = [wire EXCEPT ![k][p] = SubSeq(in, j + 1, Len(in))]
  BY <1>2 DEF Recv, Incoming
<1>5. j \in 0 .. Len(in)  BY <1>2, <1>4, RecvTypes DEF Incoming
<1>6. PICK x \in Seq(AnyPiece), y \in Seq(AnyPiece) :
        in = x \o y /\ x = SubSeq(in, 1, j) /\ y = SubSeq(in, j + 1, Len(in))
  <2>1. in \in Seq(AnyPiece)  BY <1>3
  <2>2. QED  BY <1>5, <2>1, Cut
<1>7. rx'[b] = rx[b] \o x /\ wire'[k][p] = y /\ \A c \in Conns : c # k => wire'[c][p] = wire[c][p]
  BY <1>3, <1>4, <1>6
<1>8. \A c \in Conns : Of(p, c, queue)' = Of(p, c, queue)  BY <1>1 DEF Of, On
<1>9. PICK r \in Seq(AnyPiece), q \in Seq(AnyPiece) : r = rx[b] /\ q = Of(p, k, queue)
  BY <1>3, OfTypes
<1>10. Coming(b, k) = (x \o y) \o q /\ Coming(b, k)' = y \o q /\ rx'[b] = r \o x
  BY <1>6, <1>7, <1>8, <1>9 DEF Coming
<1>11. \A c \in Conns : c # k => Coming(b, c)' = Coming(b, c)  BY <1>7, <1>8 DEF Coming
<1>12. /\ last[b] <= sent[p] /\ Fresh(b, r) /\ Uses(b, k)
       /\ \A c \in Conns : Uses(b, c) => Rising(r \o Coming(b, c)) /\ Fresh(b, Coming(b, c))
       /\ b = "server" => \A a, c \in Conns : Ahead(a, c) => Below(Coming(b, a), Coming(b, c))
  BY <1>2, <1>9 DEF Sorted, Uses
<1> HIDE DEF p, in
<1>13. /\ Rising((r \o x) \o (y \o q)) /\ Rising(r \o x)
       /\ ToSet(Coming(b, k)) = ToSet(x) \cup ToSet(y \o q)
       /\ ToSet(r \o x) = ToSet(r) \cup ToSet(x)
  <2>1. Rising(r \o ((x \o y) \o q))  BY <1>10, <1>12, Zenon
  <2>2. /\ Rising((r \o x) \o (y \o q)) /\ Rising(r \o x)
        /\ ToSet((x \o y) \o q) = ToSet(x) \cup ToSet(y \o q)
        /\ ToSet(r \o x) = ToSet(r) \cup ToSet(x)
    BY <2>1, RecvOrder
  <2>3. QED  BY <1>10, <2>2, Zenon
<1>14. /\ \A c : Uses(b, c)' = Uses(b, c) /\ \A q1 : Fresh(b, q1)' = Fresh(b, q1)
       /\ \A a, c \in Conns : Ahead(a, c)' = Ahead(a, c)
  BY <1>1 DEF Uses, Fresh, Ahead, Before
<1>15. Fresh(b, r \o x) /\ Fresh(b, y \o q)  BY <1>12, <1>13 DEF Fresh
<1>16. ASSUME NEW c \in Conns, Uses(b, c)
       PROVE  Rising((r \o x) \o Coming(b, c)') /\ Fresh(b, Coming(b, c)')
  <2>1. CASE c = k  BY <1>10, <1>13, <1>15, <2>1
  <2>2. CASE c # k
    <3>1. b = "server" /\ c \in ToSet(backlog)  BY <1>2, <1>16, <2>2 DEF Uses
    <3>2. Ahead(k, c)  BY <1>2, <3>1 DEF Ahead
    <3>3. Below(Coming(b, k), Coming(b, c))  BY <1>12, <3>1, <3>2
    <3>4. r \o x \in Seq(AnyPiece) /\ Coming(b, c) \in Seq(AnyPiece)  BY ComingTypes, JoinedTypes
    <3>5. Rising(r \o Coming(b, c)) /\ Fresh(b, Coming(b, c))  BY <1>12, <1>16
    <3>6. Rising(Coming(b, c)) /\ Below(r, Coming(b, c))  BY <3>4, <3>5, RisingJoined, Zenon
    <3>7. Below(r \o x, Coming(b, c))  BY <1>13, <3>3, <3>6 DEF Below
    <3>8. Rising((r \o x) \o Coming(b, c))  BY <1>13, <3>4, <3>6, <3>7, RisingJoined, Zenon
    <3>9. QED  BY <1>11, <2>2, <3>5, <3>8
  <2>3. QED  BY <2>1, <2>2
<1>17. ASSUME NEW a \in Conns, NEW c \in Conns, b = "server", Ahead(a, c)
       PROVE  Below(Coming(b, a)', Coming(b, c)')
  <2>1. \A d \in Conns : ToSet(Coming(b, d)') \subseteq ToSet(Coming(b, d))
    <3> SUFFICES ASSUME NEW d \in Conns  PROVE ToSet(Coming(b, d)') \subseteq ToSet(Coming(b, d))
      OBVIOUS
    <3>1. CASE d = k  BY <1>10, <1>13, <3>1
    <3>2. CASE d # k  BY <1>11, <3>2
    <3>3. QED  BY <3>1, <3>2
  <2>2. Below(Coming(b, a), Coming(b, c))  BY <1>12, <1>17
  <2>3. QED  BY <2>1, <2>2 DEF Below
<1>18. last'[b] <= sent'[p]  BY <1>1, <1>12
<1>19. Rising(rx'[b]) /\ Fresh(b, rx[b])'  BY <1>1, <1>10, <1>13, <1>15 DEF Fresh
<1>20. \A c \in Conns : Uses(b, c)' => Rising(rx'[b] \o Coming(b, c)') /\ Fresh(b, Coming(b, c))'
  BY <1>1, <1>10, <1>14, <1>16 DEF Fresh
<1>21. QED  BY <1>14, <1>17, <1>18, <1>19, <1>20 DEF Sorted, p

\* The frame that is given to b's bus comes after the last one and before the others.
LEMMA ParseSorted ==
  ASSUME Typed, NEW b \in Boards, ParseFrame(b), Sorted(b)
  PROVE  Sorted(b)' /\ last[b] < last'[b]
<1>1. /\ Whole(rx[b]) /\ rx' = [rx EXCEPT ![b] = Consumed(rx[b])]
      /\ last' = [last EXCEPT ![b] = rx[b][1].n]
      /\ UNCHANGED <<fd, status, queue, backlog, wire, sent>>
  BY DEF ParseFrame, local, network
<1>2. rx \in [Boards -> Seq(AnyPiece)] /\ last \in [Boards -> Nat] /\ Peer(b) \in Boards
      /\ sent[Peer(b)] \in Nat
  BY Peers DEF Typed, Readers, Counts
<1>3. PICK r, n, d : r \in Seq(AnyPiece) /\ r = rx[b] /\ n = r[1].n /\ d = Consumed(r)  BY <1>2
<1>a. r \in Seq(AnyPiece)  BY <1>3
<1>4. rx'[b] = d /\ last'[b] = n /\ Whole(r)  BY <1>1, <1>2, <1>3
<1>5. /\ last[b] <= sent[Peer(b)] /\ Rising(r) /\ Fresh(b, r)
      /\ \A c \in Conns : Uses(b, c) => Rising(r \o Coming(b, c)) /\ Fresh(b, Coming(b, c))
      /\ b = "server" => \A a, c \in Conns : Ahead(a, c) => Below(Coming(b, a), Coming(b, c))
  BY <1>3 DEF Sorted
<1>6. ASSUME NEW t \in Seq(AnyPiece), Rising(r \o t), Fresh(b, t)
      PROVE  /\ n \in Nat /\ d \in Seq(AnyPiece) /\ Rising(d \o t)
             /\ last[b] < n /\ n <= sent[Peer(b)]
             /\ \A x \in ToSet(d \o t) : n < x.n /\ x.n <= sent[Peer(b)]
  <2>1. /\ n \in Nat /\ d \in Seq(AnyPiece) /\ Rising(d \o t)
        /\ ToSet(d \o t) \subseteq ToSet(r \o t)
        /\ [n |-> n, part |-> Parts] \in ToSet(r \o t)
        /\ \A x \in ToSet(d \o t) : n < x.n
    BY <1>3, <1>4, <1>6, TakeFrame
  <2>2. ToSet(r \o t) = ToSet(r) \cup ToSet(t)  BY <1>a, HeldTogether, Zenon
  <2>3. \A x \in ToSet(r \o t) : last[b] < x.n /\ x.n <= sent[Peer(b)]
    BY <1>5, <1>6, <2>2 DEF Fresh
  <2>4. [n |-> n, part |-> Parts].n = n  OBVIOUS
  <2>5. last[b] < n /\ n <= sent[Peer(b)]  BY <2>1, <2>3, <2>4
  <2>6. QED  BY <2>1, <2>3, <2>5
<1>7. /\ n \in Nat /\ d \in Seq(AnyPiece) /\ Rising(d) /\ last[b] < n /\ n <= sent[Peer(b)]
      /\ \A x \in ToSet(d) : n < x.n /\ x.n <= sent[Peer(b)]
  <2>1. <<>> \in Seq(AnyPiece) /\ r \o <<>> = r  BY <1>a, NothingJoined, Zenon
  <2>2. Rising(r \o <<>>) /\ Fresh(b, <<>>)
    <3>1. Fresh(b, <<>>)  BY ToSetOfNone DEF Fresh
    <3>2. QED  BY <1>5, <2>1, <3>1, Zenon
  <2>3. /\ n \in Nat /\ d \in Seq(AnyPiece) /\ Rising(d \o <<>>) /\ last[b] < n /\ n <= sent[Peer(b)]
        /\ \A x \in ToSet(d \o <<>>) : n < x.n /\ x.n <= sent[Peer(b)]
    BY <1>6, <2>1, <2>2
  <2>4. d \o <<>> = d  BY <2>3, NothingJoined, Zenon
  <2>5. QED  BY <2>3, <2>4
<1>8. /\ \A c \in Conns : Uses(b, c)' = Uses(b, c) /\ Coming(b, c)' = Coming(b, c)
      /\ \A a, c \in Conns : Ahead(a, c)' = Ahead(a, c)
  BY <1>1 DEF Uses, Coming, Of, On, Ahead, Before
<1>9. ASSUME NEW c \in Conns, Uses(b, c)
      PROVE  Rising(d \o Coming(b, c)) /\ \A x \in ToSet(Coming(b, c)) : n < x.n /\ x.n <= sent[Peer(b)]
  <2>1. Coming(b, c) \in Seq(AnyPiece)  BY ComingTypes
  <2>2. /\ d \in Seq(AnyPiece) /\ Rising(d \o Coming(b, c))
        /\ \A x \in ToSet(d \o Coming(b, c)) : n < x.n /\ x.n <= sent[Peer(b)]
    BY <1>5, <1>6, <1>9, <2>1
  <2>3. ToSet(d \o Coming(b, c)) = ToSet(d) \cup ToSet(Coming(b, c))
    BY <2>1, <2>2, HeldTogether, Zenon
  <2>4. QED  BY <2>2, <2>3
<1>10. \A c \in Conns : Uses(b, c)' => Rising(rx'[b] \o Coming(b, c)') /\ Fresh(b, Coming(b, c))'
  BY <1>1, <1>4, <1>8, <1>9 DEF Fresh
<1>11. last'[b] <= sent'[Peer(b)] /\ Rising(rx'[b]) /\ Fresh(b, rx[b])'
  BY <1>1, <1>4, <1>7 DEF Fresh
<1>12. b = "server" => \A a, c \in Conns : Ahead(a, c)' => Below(Coming(b, a)', Coming(b, c)')
  BY <1>5, <1>8
<1>13. Sorted(b)'  BY <1>10, <1>11, <1>12 DEF Sorted
<1>14. QED  BY <1>4, <1>7, <1>13

LEMMA ReadSorted ==
  ASSUME Typed, NEW b \in Boards, Works(b), ~Flush(b), NEW r \in Boards, Sorted(r)
  PROVE  Sorted(r)'
<1> USE DEF local, network, history
<1>0. /\ rx \in [Boards -> Seq(AnyPiece)] /\ last \in [Boards -> Nat]
      /\ wire \in [Conns -> [Boards -> Seq(AnyPiece)]]
      /\ \A c \in Boards : sent[c] \in Nat /\ Peer(c) \in Boards /\ Peer(c) # c
  BY Peers DEF Typed, Readers, Links, Counts
<1>s. sent' = sent /\ \A c \in Boards : sent'[c] \in Nat /\ sent[c] <= sent'[c]
  <2>1. sent' = sent
    BY DEF Works, Readable, HangUp, Recv, RecvNothing, RecvEof, ParseFrame, ParseWait, ParseBad
  <2>2. QED  BY <1>0, <2>1
<1>1. CASE Readable(b) \/ RecvNothing(b) \/ ParseWait(b)
  <2>1. UNCHANGED <<fd, status, queue, backlog, rx, last, wire>>
    BY <1>1 DEF Readable, RecvNothing, ParseWait
  <2>2. QED  BY <1>0, <1>s, <2>1, SortedOther
<1>2. CASE HangUp(b) \/ RecvEof(b)
  <2>1. Close(b) /\ status[b] # "none" /\ UNCHANGED <<rx, last>>
    BY <1>2, DropCloses DEF HangUp, RecvEof
  <2>2. QED  BY <1>s, <2>1, CloseSorted
<1>3. CASE Recv(b)
  <2>1. CASE r = b  BY <1>3, <2>1, RecvSorted
  <2>2. CASE r # b
    <3>1. Peer(r) = b  BY <2>2 DEF Peer, Boards
    <3>2. UNCHANGED <<fd, status, queue, backlog, last>>  BY <1>3 DEF Recv
    <3>3. rx'[r] = rx[r] /\ \A k \in Conns : wire'[k][b] = wire[k][b]
      <4>1. PICK u, w : rx' = [rx EXCEPT ![b] = u] /\ wire' = [wire EXCEPT ![fd[b]][Peer(b)] = w]
        BY <1>3 DEF Recv
      <4>2. QED  BY <1>0, <2>2, <4>1
    <3>4. QED  BY <1>0, <1>s, <3>1, <3>2, <3>3, SortedOther
  <2>3. QED  BY <2>1, <2>2
<1>4. CASE ParseFrame(b) \/ ParseBad(b)
  <2>1. UNCHANGED <<fd, status, queue, backlog, wire>>  BY <1>4 DEF ParseFrame, ParseBad
  <2>2. CASE r # b
    <3>1. rx'[r] = rx[r] /\ last'[r] = last[r]  BY <1>0, <1>4, <2>2 DEF ParseFrame, ParseBad
    <3>2. QED  BY <1>0, <1>s, <2>1, <3>1, SortedOther
  <2>3. CASE r = b /\ ParseFrame(b)  BY <2>3, ParseSorted
  <2>4. CASE r = b /\ ParseBad(b)
    <3>1. rx'[b] = <<>> /\ last' = last  BY <1>0, <2>4 DEF ParseBad
    <3>2. /\ \A c \in Conns : Uses(b, c)' = Uses(b, c) /\ Coming(b, c)' = Coming(b, c)
          /\ \A a, c \in Conns : Ahead(a, c)' = Ahead(a, c)
      BY <2>1 DEF Uses, Coming, Of, On, Ahead, Before
    <3>3. Rising(<<>>)
      <4>1. DOMAIN <<>> = {}  OBVIOUS
      <4>2. QED  BY <4>1 DEF Rising
    <3>4. ASSUME NEW c \in Conns, Uses(b, c)
          PROVE  Rising(<<>> \o Coming(b, c)) /\ Fresh(b, Coming(b, c))
      <4>1. rx[b] \in Seq(AnyPiece) /\ Coming(b, c) \in Seq(AnyPiece)  BY <1>0, ComingTypes
      <4>2. Rising(rx[b] \o Coming(b, c)) /\ Fresh(b, Coming(b, c))  BY <2>4, <3>4 DEF Sorted
      <4>3. Rising(Coming(b, c))  BY <4>1, <4>2, RisingJoined, Zenon
      <4>4. <<>> \o Coming(b, c) = Coming(b, c)  BY <4>1, NothingJoined, Zenon
      <4>5. QED  BY <4>2, <4>3, <4>4, Zenon
    <3>5. \A c \in Conns : Uses(b, c)' => Rising(rx'[b] \o Coming(b, c)') /\ Fresh(b, Coming(b, c))'
      BY <1>s, <3>1, <3>2, <3>4 DEF Fresh
    <3>6. last'[b] <= sent'[Peer(b)] /\ Rising(rx'[b]) /\ Fresh(b, rx[b])'
      BY <1>s, <2>4, <3>1, <3>3, ToSetOfNone DEF Sorted, Fresh
    <3>7. b = "server" => \A a, c \in Conns : Ahead(a, c)' => Below(Coming(b, a)', Coming(b, c)')
      BY <2>4, <3>2 DEF Sorted
    <3>8. QED  BY <2>4, <3>5, <3>6, <3>7 DEF Sorted
  <2>5. QED  BY <1>4, <2>2, <2>3, <2>4
<1>5. QED  BY <1>1, <1>2, <1>3, <1>4 DEF Works

\* A new frame follows what comes to r on the newest connection.
LEMMA SortedMore ==
  ASSUME Typed, Ends, NEW r \in Boards, Sorted(r), NEW k \in Conns, On(Peer(r), k), NEW n \in Nat,
         sent[Peer(r)] < n, sent'[Peer(r)] = n, UNCHANGED <<fd, status, backlog>>,
         rx'[r] = rx[r], last'[r] = last[r],
         Coming(r, k)' = Coming(r, k) \o Frame(n),
         \A c \in Conns : c # k => Coming(r, c)' = Coming(r, c)
  PROVE  Sorted(r)'
<1>0. /\ rx[r] \in Seq(AnyPiece) /\ last[r] \in Nat /\ Peer(r) \in Boards /\ sent[Peer(r)] \in Nat
      /\ ToSet(rx[r]) \subseteq AnyPiece
  <2>1. rx[r] \in Seq(AnyPiece) /\ last[r] \in Nat /\ Peer(r) \in Boards /\ sent[Peer(r)] \in Nat
    BY Peers DEF Typed, Readers, Counts
  <2>2. QED  BY <2>1, HeldTogether, Zenon
<1>1. /\ last[r] <= sent[Peer(r)] /\ Rising(rx[r]) /\ Fresh(r, rx[r])
      /\ \A c \in Conns : Uses(r, c) => Rising(rx[r] \o Coming(r, c)) /\ Fresh(r, Coming(r, c))
      /\ r = "server" => \A a, c \in Conns : Ahead(a, c) => Below(Coming(r, a), Coming(r, c))
  BY DEF Sorted
<1>2. /\ Frame(n) \in Seq(AnyPiece) /\ Rising(Frame(n)) /\ \A x \in ToSet(Frame(n)) : x.n = n
      /\ ToSet(Frame(n)) \subseteq AnyPiece
  <2>1. /\ Frame(n) \in Seq(AnyPiece) /\ Rising(Frame(n)) /\ \A x \in ToSet(Frame(n)) : x.n = n
    BY FrameProperties
  <2>2. QED  BY <2>1, HeldTogether, Zenon
<1>3. ASSUME NEW q \in Seq(AnyPiece), Fresh(r, q)  PROVE Below(q, Frame(n)) /\ Fresh(r, q)'
  <2>1. ToSet(q) \subseteq AnyPiece  BY HeldTogether, Zenon
  <2>2. \A x \in AnyPiece : x.n \in Nat  BY PlaceIsNat
  <2>3. \A x \in ToSet(q) : last[r] < x.n /\ x.n <= sent[Peer(r)] /\ x \in AnyPiece /\ x.n \in Nat
    BY <1>3, <2>1, <2>2 DEF Fresh
  <2>4. \A x \in ToSet(q) : x.n < n  BY <1>0, <2>3
  <2>5. \A x \in ToSet(q), y \in ToSet(Frame(n)) : Place(x) < Place(y)
    BY <1>2, <2>3, <2>4, LaterFrames
  <2>6. ASSUME NEW x \in ToSet(q)  PROVE last'[r] < x.n /\ x.n <= sent'[Peer(r)]
    BY <1>0, <2>3, <2>4
  <2>7. QED  BY <2>5, <2>6 DEF Below, Fresh
<1>4. /\ \A c \in Conns : Uses(r, c)' = Uses(r, c)
      /\ \A a, c \in Conns : Ahead(a, c)' = Ahead(a, c)
  BY DEF Uses, Ahead, Before
<1>5. Coming(r, k) \in Seq(AnyPiece)  BY ComingTypes
<1>6. ToSet(Coming(r, k)') = ToSet(Coming(r, k)) \cup ToSet(Frame(n))
  <2>1. ToSet(Coming(r, k) \o Frame(n)) = ToSet(Coming(r, k)) \cup ToSet(Frame(n))
    BY <1>2, <1>5, HeldTogether, Zenon
  <2>2. QED  BY <2>1
<1>7. ASSUME NEW c \in Conns, Uses(r, c)
      PROVE  Rising(rx[r] \o Coming(r, c)') /\ Fresh(r, Coming(r, c))'
  <2>0. Coming(r, c) \in Seq(AnyPiece) /\ Rising(rx[r] \o Coming(r, c)) /\ Fresh(r, Coming(r, c))
    BY <1>1, <1>7, ComingTypes
  <2>1. CASE c # k
    <3>1. Coming(r, c)' = Coming(r, c)  BY <2>1
    <3>2. Fresh(r, Coming(r, c))'
      <4>1. Below(Coming(r, c), Frame(n)) /\ \A x \in ToSet(Coming(r, c)) :
              last'[r] < x.n /\ x.n <= sent'[Peer(r)]
        BY <1>3, <2>0 DEF Fresh
      <4>2. QED  BY <3>1, <4>1 DEF Fresh
    <3>3. QED  BY <2>0, <3>1, <3>2
  <2>2. CASE c = k
    <3> DEFINE f == Frame(n)
               m == Coming(r, k)
    <3>1. m \in Seq(AnyPiece) /\ Rising(rx[r] \o m) /\ Fresh(r, m)  BY <2>0, <2>2
    <3>2. f \in Seq(AnyPiece) /\ Rising(f)  BY <1>2
    <3>3. rx[r] \o m \in Seq(AnyPiece) /\ ToSet(rx[r] \o m) = ToSet(rx[r]) \cup ToSet(m)
      BY <1>0, <3>1, JoinedTypes, HeldTogether, Zenon
    <3>4. Below(rx[r] \o m, f)
      <4>1. Below(rx[r], f) /\ Below(m, f)  BY <1>0, <1>1, <1>3, <3>1
      <4>2. QED  BY <3>3, <4>1 DEF Below
    <3>5. Rising((rx[r] \o m) \o f)
      <4> HIDE DEF f, m
      <4>1. QED  BY <3>1, <3>2, <3>3, <3>4, RisingJoined, Zenon
    <3>6. (rx[r] \o m) \o f = rx[r] \o (m \o f)  BY <1>0, <3>1, <3>2, Regrouped, Zenon
    <3>7. Rising(rx[r] \o (m \o f))  BY <3>5, <3>6, Zenon
    <3>8. \A x \in ToSet(Coming(r, k)') : last'[r] < x.n /\ x.n <= sent'[Peer(r)]
      <4>1. \A x \in ToSet(m) : last'[r] < x.n /\ x.n <= sent'[Peer(r)]  BY <1>3, <3>1 DEF Fresh
      <4>2. \A x \in ToSet(f) : last'[r] < x.n /\ x.n <= sent'[Peer(r)]  BY <1>0, <1>1, <1>2
      <4>3. QED  BY <1>6, <4>1, <4>2
    <3>9. QED  BY <2>2, <3>7, <3>8 DEF Fresh
  <2>3. QED  BY <2>1, <2>2
<1>8. ASSUME NEW a \in Conns, NEW c \in Conns, r = "server", Ahead(a, c)
      PROVE  Below(Coming(r, a)', Coming(r, c)')
  <2>1. Below(Coming(r, a), Coming(r, c))  BY <1>1, <1>8
  <2>2. a # k
    <3>1. Peer(r) = "client"  BY <1>8 DEF Peer
    <3>2. fd["client"] = k  BY <3>1 DEF On
    <3>3. QED  BY <1>8, <3>2 DEF Ends
  <2>3. Coming(r, a)' = Coming(r, a)  BY <2>2
  <2>4. CASE c # k  BY <2>1, <2>3, <2>4
  <2>5. CASE c = k
    <3>1. Coming(r, a) \in Seq(AnyPiece)  BY ComingTypes
    <3>2. Below(Coming(r, a), Frame(n))
      <4>1. Uses(r, a)  BY <1>8 DEF Ahead, Uses, Before, ToSet
      <4>2. QED  BY <1>1, <1>3, <3>1, <4>1
    <3>3. QED  BY <1>6, <2>1, <2>3, <2>5, <3>2 DEF Below
  <2>6. QED  BY <2>4, <2>5
<1>9. Fresh(r, rx[r])'
  <2>1. \A x \in ToSet(rx[r]) : last'[r] < x.n /\ x.n <= sent'[Peer(r)]  BY <1>0, <1>1, <1>3 DEF Fresh
  <2>2. QED  BY <2>1 DEF Fresh
<1>10. last'[r] <= sent'[Peer(r)]  BY <1>0, <1>1
<1>11. \A c \in Conns : Uses(r, c)' => Rising(rx'[r] \o Coming(r, c)') /\ Fresh(r, Coming(r, c))'
  BY <1>4, <1>7
<1>12. r = "server" => \A a, c \in Conns : Ahead(a, c)' => Below(Coming(r, a)', Coming(r, c)')
  BY <1>4, <1>8
<1>13. QED  BY <1>1, <1>9, <1>10, <1>11, <1>12 DEF Sorted

LEMMA SendSorted ==
  ASSUME Typed, Ends, NEW b \in Boards, Flush(b) \/ Sending(b), NEW r \in Boards, Sorted(r)
  PROVE  Sorted(r)'
<1> USE DEF network, history
<1>0. /\ queue \in [Boards -> Seq(AnyPiece)] /\ wire \in [Conns -> [Boards -> Seq(AnyPiece)]]
      /\ sent \in [Boards -> Nat] /\ \A c \in Boards : Peer(c) \in Boards /\ Peer(c) # c
  BY Peers DEF Typed, Queues, Links, Counts
<1>s. \A c \in Boards : sent'[c] \in Nat /\ sent[c] <= sent'[c]
  <2>1. sent' = sent \/ sent' = [sent EXCEPT ![b] = sent[b] + 1]
    BY DEF Flush, Sending, SendRefused, SendNow, SendFails, SendLater, Sends
  <2>2. sent[b] + 1 \in Nat /\ sent[b] <= sent[b] + 1 /\ \A c \in Boards : sent[c] <= sent[c]  BY <1>0
  <2>3. CASE sent' = sent  BY <1>0, <2>2, <2>3
  <2>4. CASE sent' = [sent EXCEPT ![b] = sent[b] + 1]
    <3>1. \A c \in Boards : sent'[c] = IF c = b THEN sent[b] + 1 ELSE sent[c]  BY <1>0, <2>4
    <3>2. QED  BY <1>0, <2>2, <3>1
  <2>5. QED  BY <2>1, <2>3, <2>4
<1>k. status[b] = "up" => \E k \in Conns : k = fd[b] /\ On(b, k)  BY DEF On, Typed, Ports
<1>1. CASE SendFails(b)
  <2>1. Close(b) /\ status[b] # "none" /\ UNCHANGED <<rx, last>>  BY <1>1, DropCloses DEF SendFails
  <2>2. QED  BY <1>s, <2>1, CloseSorted
<1>2. CASE SendRefused(b)
  <2>1. UNCHANGED <<fd, status, queue, backlog, rx, last, wire>>  BY <1>2 DEF SendRefused, local
  <2>2. QED  BY <1>0, <1>s, <2>1, SortedOther
<1>3. CASE r = b /\ (Flush(b) \/ SendNow(b) \/ SendLater(b))
  <2>1. UNCHANGED <<fd, status, backlog, rx, last>>  BY <1>3 DEF Flush, SendNow, SendLater
  <2>2. queue'[Peer(b)] = queue[Peer(b)]  BY <1>0, <1>3 DEF Flush, SendNow, SendLater
  <2>3. \A k \in Conns : wire'[k][Peer(b)] = wire[k][Peer(b)]
    <3>1. ASSUME NEW k \in Conns, NEW w, wire' = [wire EXCEPT ![fd[b]][b] = w]
          PROVE  wire'[k][Peer(b)] = wire[k][Peer(b)]
      BY <1>0, <3>1
    <3>2. CASE Flush(b)  BY <3>1, <3>2 DEF Flush
    <3>3. CASE SendNow(b)  BY <3>1, <3>3 DEF SendNow
    <3>4. CASE SendLater(b)  BY <3>4 DEF SendLater
    <3>5. QED  BY <1>3, <3>2, <3>3, <3>4
  <2>4. QED  BY <1>0, <1>3, <1>s, <2>1, <2>2, <2>3, SortedOther
<1>4. ASSUME r # b, Flush(b) \/ SendNow(b) \/ SendLater(b)  PROVE Sorted(r)'
  <2>1. Peer(r) = b  BY <1>4 DEF Peer, Boards
  <2>2. PICK k \in Conns : k = fd[b] /\ On(b, k)  BY <1>4, <1>k DEF Flush, SendNow, SendLater
  <2>3. UNCHANGED <<fd, status, backlog, rx, last>>  BY <1>4 DEF Flush, SendNow, SendLater
  <2>4. /\ \A c \in Conns : On(b, c) => c = k
        /\ \A c \in Conns : c # k => Of(b, c, queue) = <<>> /\ Of(b, c, queue)' = <<>>
        /\ Of(b, k, queue) = queue[b] /\ Of(b, k, queue)' = queue'[b]
    BY <2>2, <2>3 DEF On, Of
  <2>5. \A c \in Conns : c # k => wire'[c] = wire[c]
    BY <1>0, <1>4, <2>2 DEF Flush, SendNow, SendLater
  <2>6. \A c \in Conns : c # k => Coming(r, c)' = Coming(r, c)  BY <2>1, <2>4, <2>5 DEF Coming
  <2>7. PICK w \in Seq(AnyPiece), q \in Seq(AnyPiece) : w = wire[k][b] /\ q = queue[b]  BY <1>0
  <2>8. Coming(r, k) = w \o q /\ Coming(r, k)' = wire'[k][b] \o queue'[b]
    BY <2>1, <2>4, <2>7 DEF Coming
  <2>9. CASE Flush(b)
    <3>1. q \in Seq(Pieces(b))  BY <2>7 DEF Typed, Queues
    <3>2. PICK m : /\ m = Min({Len(q), Room(b)})
                   /\ wire'[k][b] = w \o SubSeq(q, 1, m) /\ queue'[b] = SubSeq(q, m + 1, Len(q))
      BY <1>0, <2>2, <2>7, <2>9 DEF Flush
    <3>3. m \in 0 .. Len(q)  BY <2>2, <3>1, <3>2, PushTypes DEF Typed
    <3>4. PICK x \in Seq(AnyPiece), y \in Seq(AnyPiece) :
            q = x \o y /\ x = SubSeq(q, 1, m) /\ y = SubSeq(q, m + 1, Len(q))
      BY <3>3, Cut
    <3>5. (w \o x) \o y = w \o (x \o y)  BY Regrouped
    <3>6. Coming(r, k)' = Coming(r, k)  BY <2>8, <3>2, <3>4, <3>5
    <3>7. /\ \A c : Uses(r, c)' = Uses(r, c)
          /\ \A c, d : Ahead(c, d)' = Ahead(c, d)
      BY <2>3 DEF Uses, Ahead, Before
    <3>8. sent' = sent  BY <2>9 DEF Flush
    <3>9. \A c \in Conns : Coming(r, c)' = Coming(r, c)  BY <2>6, <3>6
    <3>10. QED  BY <2>3, <3>7, <3>8, <3>9 DEF Sorted, Fresh
  <2>10. CASE SendNow(b) \/ SendLater(b)
    <3>1. Sends(b)  BY <2>10 DEF SendNow, SendLater
    <3>2. PICK f \in Seq(AnyPiece), n \in Nat :
            f = Frame(n) /\ n = sent[b] + 1 /\ f \in Seq(Pieces(b)) /\ Len(f) = Parts
      BY <3>1, NextFrame, AlsoPieces DEF Typed
    <3>3. sent[b] < n /\ sent'[b] = n  BY <1>0, <3>1, <3>2 DEF Sends
    <3>4. Coming(r, k)' = Coming(r, k) \o f
      <4>1. CASE SendNow(b)
        <5>1. PICK m : /\ m = Min({Len(f), Room(b)}) /\ queue[b] = <<>>
                       /\ wire'[k][b] = w \o SubSeq(f, 1, m)
                       /\ queue'[b] = queue[b] \o SubSeq(f, m + 1, Len(f))
          BY <1>0, <2>2, <2>7, <3>2, <4>1 DEF SendNow, Direct
        <5>2. m \in 0 .. Len(f)  BY <2>2, <3>2, <5>1, PushTypes DEF Typed
        <5>3. PICK x \in Seq(AnyPiece), y \in Seq(AnyPiece) :
                f = x \o y /\ x = SubSeq(f, 1, m) /\ y = SubSeq(f, m + 1, Len(f))
          BY <5>2, Cut
        <5>4. (w \o x) \o y = w \o (x \o y)  BY Regrouped
        <5>5. queue'[b] = y
          <6>1. queue[b] \o y = y  BY <5>1, <5>3, NothingJoined, Zenon
          <6>2. QED  BY <5>1, <5>3, <6>1
        <5>6. w \o q = w  BY <2>7, <5>1, NothingJoined, Zenon
        <5>7. QED  BY <2>8, <5>1, <5>3, <5>4, <5>5, <5>6
      <4>2. CASE SendLater(b)
        <5>1. wire'[k][b] = w /\ queue'[b] = q \o f
          BY <1>0, <2>7, <3>2, <4>2 DEF SendLater
        <5>2. (w \o q) \o f = w \o (q \o f)  BY Regrouped
        <5>3. QED  BY <2>8, <5>1, <5>2
      <4>3. QED  BY <2>10, <4>1, <4>2
    <3>5. QED  BY <2>1, <2>2, <2>3, <2>6, <3>2, <3>3, <3>4, SortedMore
  <2>11. QED  BY <1>4, <2>9, <2>10
<1>5. QED  BY <1>1, <1>2, <1>3, <1>4 DEF Sending

LEMMA InitOrder == Init => Ends /\ \A r \in Boards : Sorted(r)
<1> SUFFICES ASSUME Init  PROVE Ends /\ \A r \in Boards : Sorted(r)  OBVIOUS
<1>1. PICK state \in {"connecting", "up", "none"}, k \in Conns :
        /\ status = [b \in Boards |-> IF b = "client" THEN state ELSE "none"]
        /\ fd = [b \in Boards |-> IF b = "client" /\ state # "none" THEN k ELSE NoConn]
        /\ stage = [c \in Conns |-> IF c # k \/ state = "none" THEN "free"
                                    ELSE IF state = "up" THEN "open" ELSE "syn"]
        /\ backlog = (IF state = "up" THEN <<k>> ELSE <<>>)
  BY DEF Init
<1>2. /\ queue = Silence /\ rx = Silence /\ wire = [c \in Conns |-> Silence]
      /\ sent = [b \in Boards |-> 0] /\ last = [b \in Boards |-> 0]
  BY DEF Init
<1>3. \A b \in Boards : Silence[b] = <<>>  BY DEF Silence
<1>4. \A b \in Boards : Peer(b) \in Boards  BY Peers
<1>5. Rising(<<>>)
  <2>1. DOMAIN <<>> = {}  OBVIOUS
  <2>2. QED  BY <2>1 DEF Rising
<1>6. \A r \in Boards, c \in Conns : rx[r] = <<>> /\ Coming(r, c) = <<>>
  <2>1. <<>> \o <<>> = <<>>  BY NothingJoined
  <2>2. \A r \in Boards, c \in Conns : wire[c][Peer(r)] = <<>> /\ Of(Peer(r), c, queue) = <<>>
    BY <1>2, <1>3, <1>4 DEF Of
  <2>3. QED  BY <1>2, <1>3, <2>1, <2>2, Zenon DEF Coming
<1>7. \A r \in Boards : Sorted(r)
  <2> TAKE r \in Boards
  <2>1. <<>> \o <<>> = <<>>  BY NothingJoined
  <2>2. Fresh(r, <<>>) /\ Below(<<>>, <<>>)  BY ToSetOfNone DEF Fresh, Below
  <2>3. last[r] <= sent[Peer(r)]  BY <1>2, <1>4
  <2>4. \A c \in Conns : Rising(rx[r] \o Coming(r, c)) /\ Fresh(r, Coming(r, c))
    BY <1>5, <1>6, <2>1, <2>2, Zenon
  <2>5. \A a, c \in Conns : Below(Coming(r, a), Coming(r, c))  BY <1>6, <2>2, Zenon
  <2>6. Rising(rx[r]) /\ Fresh(r, rx[r])
    <3>1. rx[r] = <<>>  BY <1>2, <1>3
    <3>2. QED  BY <1>5, <2>2, <3>1, Zenon
  <2>7. QED  BY <2>3, <2>4, <2>5, <2>6 DEF Sorted
<1>8. Ends
  <2>1. fd["client"] \in {k, NoConn} /\ fd["server"] = NoConn /\ status["client"] = state
        /\ (state # "none" => fd["client"] = k) /\ (state = "none" => fd["client"] = NoConn)
        /\ NoConn \notin Conns
    BY <1>1, Sizes DEF Boards
  <2>2. \A c, d \in Conns : ~Ahead(c, d)
    <3>1. \A i, j \in DOMAIN backlog : ~(i < j)
      <4>1. backlog = <<>> => DOMAIN backlog = {}  OBVIOUS
      <4>2. backlog = <<k>> => DOMAIN backlog = {1}
        <5>1. <<k>> \in Seq(Conns) /\ Len(<<k>>) = 1 /\ 1 .. 1 = {1}  OBVIOUS
        <5>2. QED  BY <5>1, LenProperties
      <4>3. QED  BY <1>1, <4>1, <4>2
    <3>2. QED  BY <2>1, <3>1 DEF Ahead, Before
  <2>3. \A c \in Conns, b \in Boards : wire[c][b] = <<>>  BY <1>2, <1>3
  <2>4. \A c \in Conns : /\ stage[c] = "free" => fd["client"] # c
                         /\ stage[c] = "syn" => fd["client"] = c /\ status["client"] = "connecting"
    BY <1>1, <2>1
  <2>5. QED  BY <2>2, <2>3, <2>4 DEF Ends
<1>9. QED  BY <1>7, <1>8

LEMMA SortedStep ==
  ASSUME Typed, Waiting, Ends, NEW r \in Boards, Sorted(r), [Next]_vars
  PROVE  Sorted(r)'
<1>1. CASE UNCHANGED vars
  BY <1>1 DEF vars, local, network, history, Sorted, Fresh, Uses, Coming, Of, On, Ahead, Before
<1>2. CASE TimerFires \/ ConnectReady \/ ConnectFails \/ Accept  BY <1>2, ConnectSorted
<1>3. CASE \E k \in Conns : Handshake(k) \/ Break(k)  BY <1>3, NetworkSorted
<1>4. CASE \E b \in Boards : Works(b) \/ Sending(b)  BY <1>4, ReadSorted, SendSorted
<1>5. QED  BY <1>1, <1>2, <1>3, <1>4 DEF Next

\* What a board's bus is given on one connection and on the next, whichever ends how,
\* comes in the order in which it was sent, and nothing twice: torn frames, frames left
\* in rx_buf and connections that wait for accept included.
THEOREM TcpOnceInOrder == Spec => OnceInOrder
<1> DEFINE IInv == Typed /\ Waiting /\ Ends /\ \A r \in Boards : Sorted(r)
           Given == \A b \in Boards : given'[b] # given[b] /\ given'[b] # <<>> => last'[b] > last[b]
<1>1. Init => IInv  BY InitTypes, InitFlows, InitOrder
<1>2. IInv /\ [Next]_vars => IInv'
  <2> SUFFICES ASSUME IInv, [Next]_vars  PROVE IInv'  OBVIOUS
  <2>1. Typed' /\ Waiting' /\ Ends'  BY TypedStep, WaitingStep, EndsStep
  <2>2. ASSUME NEW r \in Boards  PROVE Sorted(r)'  BY SortedStep
  <2>3. QED  BY <2>1, <2>2
<1>3. IInv /\ [Next]_vars => [Given]_vars
  <2> SUFFICES ASSUME IInv, Next, NEW b \in Boards, given'[b] # given[b], given'[b] # <<>>
               PROVE  last'[b] > last[b]
    OBVIOUS
  <2>1. given \in [Boards -> Seq(Nat)] /\ last \in [Boards -> Nat]  BY DEF Typed, Readers
  <2>2. ASSUME NEW c \in Boards, Restarts(c)  PROVE FALSE
    <3>1. given'[b] \in {given[b], <<>>}  BY <2>1, <2>2 DEF Restarts
    <3>2. QED  BY <3>1
  <2>3. ASSUME NEW c \in Boards, ParseFrame(c)  PROVE last'[b] > last[b]
    <3>1. b = c  BY <2>1, <2>3 DEF ParseFrame
    <3>2. last[b] < last'[b]  BY <2>3, <3>1, ParseSorted
    <3>3. last'[b] \in Nat /\ last[b] \in Nat
      <4>1. Typed'  BY TypedStep
      <4>2. QED  BY <2>1, <4>1 DEF Typed, Readers
    <3>4. QED  BY <3>2, <3>3
  <2>4. CASE TimerFires \/ ConnectReady \/ ConnectFails \/ Accept
    <3>1. "client" \in Boards /\ "server" \in Boards  BY DEF Boards
    <3>2. given' = given \/ \E c \in Boards : Restarts(c)
      BY <2>4, <3>1, StartRestarts, CloseRestarts
      DEF TimerFires, Connecting, ConnectedAtOnce, FailedAtOnce, ConnectReady, ConnectFails, Accept
    <3>3. QED  BY <2>2, <3>2
  <2>5. CASE \E k \in Conns : Handshake(k) \/ Break(k)  BY <2>5 DEF Handshake, Break, history
  <2>6. ASSUME NEW c \in Boards, Works(c) \/ Sending(c)  PROVE last'[b] > last[b]
    <3>1. given' = given \/ Close(c) \/ ParseFrame(c)
      BY <2>6, DropCloses
      DEF Works, Sending, Readable, HangUp, Recv, RecvNothing, RecvEof, ParseFrame, ParseWait,
          ParseBad, Flush, SendRefused, SendNow, SendFails, SendLater, history
    <3>2. QED  BY <2>2, <2>3, <3>1, CloseRestarts
  <2>7. QED  BY <2>4, <2>5, <2>6 DEF Next
<1>4. QED  BY <1>1, <1>2, <1>3, PTL DEF Spec, OnceInOrder

=============================================================================
