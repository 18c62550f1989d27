----------------------------- MODULE KcpProofs ------------------------------
(***************************************************************************)
(* Theorems about KcpTransport: windows, segments and frames of any size, any *)
(* number of frames in both directions, and a network that loses, repeats     *)
(* and delays as often as it likes.                                            *)
(***************************************************************************)
EXTENDS KcpTransport, FramingProofs, FiniteSetTheorems

-----------------------------------------------------------------------------
(* Folding                                                                   *)

\* The greatest of some numbers up to n
LEMMA Most ==
  ASSUME NEW n \in Nat, NEW s \in SUBSET (0 .. n), s # {}
  PROVE  Max(s) \in s /\ Max(s) \in 0 .. n /\ \A x \in s : x <= Max(s)
<1> DEFINE T == {k \in Nat : \E x \in s : k = n - x}
<1>a. \A x \in s : x \in 0 .. n  OBVIOUS
<1>b. \A x \in s : n - x \in T  BY <1>a
<1>1. PICK m \in T : \A k \in T : m <= k
  <2>1. T \in SUBSET Nat /\ T # {}  BY <1>b
  <2>2. QED  BY <2>1, Least
<1>2. PICK x \in s : m = n - x  BY <1>1
<1>3. \A y \in s : x >= y
  <2> TAKE y \in s
  <2>1. m <= n - y /\ y \in 0 .. n /\ x \in 0 .. n  BY <1>1, <1>a, <1>b
  <2>2. QED  BY <1>2, <2>1
<1>4. \E y \in s : \A z \in s : y >= z  BY <1>3
<1>5. Max(s) \in s /\ \A z \in s : Max(s) >= z  BY <1>4, Zenon DEF Max
<1>6. QED  BY <1>5, <1>a

LEMMA Greatest ==
  ASSUME NEW n \in Nat, NEW s \in SUBSET (1 .. n), s # {}
  PROVE  Max(s) \in s /\ \A x \in s : x <= Max(s)
<1>1. s \in SUBSET (0 .. n)
  <2>1. 1 .. n \subseteq 0 .. n  OBVIOUS
  <2>2. QED  BY <2>1
<1>2. QED  BY <1>1, Most

\* g folds the first n elements of q from base with the function F, as FoldLeft does with
\* an operator, and stays in S.
Folds(g, S, F, base, q, n) ==
  /\ g = [s \in SUBSET (1 .. n) |-> IF s = {} THEN base ELSE F[g[s \ {Max(s)}]][q[Max(s)]]]
  /\ \A s \in SUBSET (1 .. n) : g[s] \in S

LEMMA Folded ==
  ASSUME NEW S, NEW A, NEW F \in [S -> [A -> S]], NEW base \in S, NEW q \in Seq(A), NEW n \in Nat,
         n <= Len(q)
  PROVE  \E g : Folds(g, S, F, base, q, n)
<1> DEFINE Fix(g, m) == /\ g = [s \in SUBSET (1 .. m) |->
                                 IF s = {} THEN base ELSE F[g[s \ {Max(s)}]][q[Max(s)]]]
                        /\ \A s \in SUBSET (1 .. m) : g[s] \in S
           T == {m \in Nat : m <= Len(q) => \E g : Fix(g, m)}
<1>1. 0 \in T
  <2>1. \A s \in SUBSET (1 .. 0) : s = {}  OBVIOUS
  <2>2. Fix([s \in SUBSET (1 .. 0) |-> base], 0)  BY <2>1
  <2>3. QED  BY <2>2
<1>a. Len(q) \in Nat  BY LenProperties
<1>2. ASSUME NEW m \in T  PROVE m + 1 \in T
  <2> HIDE DEF Fix
  <2>1. SUFFICES ASSUME m + 1 <= Len(q)  PROVE \E g : Fix(g, m + 1)  BY <1>2
  <2>2. PICK g : Fix(g, m)
    <3>1. m \in Nat /\ m <= Len(q)  BY <1>2, <1>a, <2>1
    <3>2. QED  BY <1>2, <3>1
  <2> USE DEF Fix
  <2> DEFINE h == [s \in SUBSET (1 .. m + 1) |->
                    IF s \subseteq 1 .. m THEN g[s] ELSE F[g[s \ {m + 1}]][q[m + 1]]]
  <2>3. q[m + 1] \in A  BY <2>1, ElementOfSeq
  <2>4. ASSUME NEW s \in SUBSET (1 .. m + 1)
        PROVE  h[s] \in S /\ h[s] = IF s = {} THEN base ELSE F[h[s \ {Max(s)}]][q[Max(s)]]
    <3>1. CASE s \subseteq 1 .. m
      <4>1. s # {} => s \ {Max(s)} \in SUBSET (1 .. m) /\ s \ {Max(s)} \in SUBSET (1 .. m + 1)
        <5>1. 1 .. m \subseteq 1 .. m + 1  BY <1>2
        <5>2. s \ {Max(s)} \subseteq s  OBVIOUS
        <5>3. QED  BY <3>1, <5>1, <5>2
      <4>2. QED  BY <2>2, <3>1, <4>1
    <3>2. CASE ~(s \subseteq 1 .. m)
      <4>1. m + 1 \in s /\ s # {} /\ s \ {m + 1} \in SUBSET (1 .. m)
            /\ s \ {m + 1} \in SUBSET (1 .. m + 1)
        <5>1. \A x \in s : x \in 1 .. m \/ x = m + 1  BY <1>2
        <5>2. s \ {m + 1} \subseteq 1 .. m /\ m + 1 \in s  BY <3>2, <5>1
        <5>3. QED  BY <5>2
      <4>2. Max(s) = m + 1
        <5>1. m + 1 \in Nat  BY <1>2
        <5>2. Max(s) \in s /\ \A x \in s : x <= Max(s)  BY <4>1, <5>1, Greatest
        <5>3. Max(s) \in 1 .. m + 1 /\ m + 1 <= Max(s)  BY <4>1, <5>2
        <5>4. QED  BY <1>2, <5>3
      <4>3. h[s] = F[g[s \ {m + 1}]][q[m + 1]] /\ h[s \ {m + 1}] = g[s \ {m + 1}]  BY <3>2, <4>1
      <4>4. g[s \ {m + 1}] \in S  BY <2>2, <4>1
      <4>5. QED  BY <2>3, <4>1, <4>2, <4>3, <4>4
    <3>3. QED  BY <3>1, <3>2
  <2> HIDE DEF h
  <2>5. h = [s \in SUBSET (1 .. m + 1) |-> h[s]]  BY DEF h
  <2>6. h = [s \in SUBSET (1 .. m + 1) |->
              IF s = {} THEN base ELSE F[h[s \ {Max(s)}]][q[Max(s)]]]
    BY <2>4, <2>5
  <2>7. QED  BY <2>4, <2>6
<1>3. T = Nat  BY <1>1, <1>2, Induct
<1>4. PICK g : Fix(g, n)  BY <1>3
<1>5. QED  BY <1>4 DEF Folds

\* However such a fold is written: it stays in S if every turn does.
LEMMA StaysIn ==
  ASSUME NEW S, NEW n \in Nat, NEW g,
         g[{}] \in S,
         \A s \in SUBSET (1 .. n) : s # {} /\ g[s \ {Max(s)}] \in S => g[s] \in S
  PROVE  g[1 .. n] \in S
<1> DEFINE T == {m \in Nat : m <= n => g[1 .. m] \in S}
<1>1. 0 \in T
  <2>1. 1 .. 0 = {}  OBVIOUS
  <2>2. QED  BY <2>1
<1>2. ASSUME NEW m \in T  PROVE m + 1 \in T
  <2>1. SUFFICES ASSUME m + 1 <= n  PROVE g[1 .. m + 1] \in S  OBVIOUS
  <2>2. 1 .. m + 1 \in SUBSET (1 .. n) /\ 1 .. m + 1 # {}  BY <2>1
  <2>3. Max(1 .. m + 1) = m + 1
    <3>1. 1 .. m + 1 \in SUBSET (1 .. m + 1) /\ m + 1 \in 1 .. m + 1 /\ m + 1 \in Nat  OBVIOUS
    <3>2. Max(1 .. m + 1) \in 1 .. m + 1 /\ m + 1 <= Max(1 .. m + 1)  BY <2>2, <3>1, Greatest
    <3>3. QED  BY <3>1, <3>2
  <2>4. (1 .. m + 1) \ {m + 1} = 1 .. m  OBVIOUS
  <2>5. g[1 .. m] \in S  BY <1>2, <2>1
  <2>6. QED  BY <2>2, <2>3, <2>4, <2>5
<1>3. T = Nat  BY <1>1, <1>2, Induct
<1>4. QED  BY <1>3

\* The segments of a datagram, one after the other
LEMMA FoldInputSegment ==
  ASSUME NEW S, NEW A, NEW k \in S, NEW q \in Seq(A),
         \A x \in S, a \in A : InputSegment(x, a) \in S
  PROVE  FoldLeft(InputSegment, k, q) \in S
<1> DEFINE F == [x \in S |-> [a \in A |-> InputSegment(x, a)]]
           Is(g) == g = [s \in SUBSET (1 .. Len(q)) |->
                          IF s = {} THEN k ELSE InputSegment(g[s \ {Max(s)}], q[Max(s)])]
           f == CHOOSE g : Is(g)
<1>1. \A x \in S, a \in A : F[x][a] = InputSegment(x, a)  OBVIOUS
<1>2. F \in [S -> [A -> S]]  OBVIOUS
<1>3. Len(q) \in Nat /\ DOMAIN q = 1 .. Len(q) /\ \A i \in 1 .. Len(q) : q[i] \in A
  BY LenProperties, ElementOfSeq
<1>4. PICK g : Folds(g, S, F, k, q, Len(q))
  <2> HIDE DEF F
  <2>1. Len(q) \in Nat /\ Len(q) <= Len(q)  BY <1>3
  <2>2. QED  BY <1>2, <2>1, Folded, Zenon
<1>5. Is(g)
  <2>1. \A s \in SUBSET (1 .. Len(q)) : s # {} =>
          F[g[s \ {Max(s)}]][q[Max(s)]] = InputSegment(g[s \ {Max(s)}], q[Max(s)])
    <3> HIDE DEF F
    <3> TAKE s \in SUBSET (1 .. Len(q))
    <3> HAVE s # {}
    <3>1. Max(s) \in 1 .. Len(q) /\ s \ {Max(s)} \in SUBSET (1 .. Len(q))  BY <1>3, Greatest
    <3>2. g[s \ {Max(s)}] \in S  BY <1>4, <3>1 DEF Folds
    <3>3. QED  BY <1>1, <1>3, <3>1, <3>2
  <2> HIDE DEF F
  <2>2. QED  BY <1>4, <2>1 DEF Folds
<1>6. Is(f)
  <2> HIDE DEF Is
  <2>1. QED  BY <1>5
<1>7. FoldLeft(InputSegment, k, q) = f[DOMAIN q]  BY <1>3 DEF FoldLeft, MapThenFoldSet
<1>8. f[1 .. Len(q)] \in S
  <2> HIDE DEF f
  <2>1. f[{}] \in S  BY <1>6
  <2>2. ASSUME NEW s \in SUBSET (1 .. Len(q)), s # {}, f[s \ {Max(s)}] \in S
        PROVE  f[s] \in S
    <3>1. Max(s) \in 1 .. Len(q)  BY <1>3, <2>2, Greatest
    <3>2. f[s] = InputSegment(f[s \ {Max(s)}], q[Max(s)])  BY <1>6, <2>2
    <3>3. q[Max(s)] \in A  BY <1>3, <3>1
    <3>4. QED  BY <2>2, <3>2, <3>3
  <2>3. QED  BY <1>3, <2>1, <2>2, StaysIn
<1>9. QED  BY <1>3, <1>7, <1>8

-----------------------------------------------------------------------------
(* The inductive invariant                                                    *)

AnyChunk   == [frg : Nat, data : Seq(AnyPiece)]
AnySegment == [sn : Nat, frg : Nat, data : Seq(AnyPiece)]
AnyPacket  == [cmd : {"PUSH", "ACK", "WASK", "WINS"}, sn : Nat, frg : Nat, data : Seq(AnyPiece),
               wnd : Nat, una : Nat]

Blocks ==
  [snd_queue : Seq(AnyChunk), snd_buf : Seq(AnySegment), snd_una : Nat, snd_nxt : Nat,
   rcv_queue : Seq(AnyChunk), rcv_buf : Seq(AnySegment), rcv_nxt : Nat,
   rmt_wnd : Nat, acks : Seq(Nat), tell : BOOLEAN, waiting : BOOLEAN]

\* Segments of a frame, and what segment sn carries wherever it is.
PerFrame    == Max({1, (Parts + Mss - 1) \div Mss})
Carried(sn) == Fragments(Frame((sn \div PerFrame) + 1))[(sn % PerFrame) + 1]

Genuine(x) == x.frg = Carried(x.sn).frg /\ x.data = Carried(x.sn).data

\* The numbers of the segments a board has had
Received(k) == {sn \in Nat : sn < k.rcv_nxt \/ \E i \in DOMAIN k.rcv_buf : k.rcv_buf[i].sn = sn}

\* Genuine segments, by number, from lo on and below hi
Numbered(s, lo, hi) ==
  /\ \A i \in DOMAIN s : lo <= s[i].sn /\ s[i].sn < hi /\ Genuine(s[i])
  /\ \A i, j \in DOMAIN s : i < j => s[i].sn < s[j].sn

\* Segments from number sn on, without a gap
Consecutive(s, sn) == \A i \in DOMAIN s : s[i] = Carried(sn + i - 1)

\* A control block that was given n frames
Sends(k, n) ==
  /\ k.snd_una <= k.snd_nxt /\ k.snd_nxt - k.snd_una <= SndWnd
  /\ Numbered(k.snd_buf, k.snd_una, k.snd_nxt)
  /\ Consecutive(k.snd_queue, k.snd_nxt) /\ k.snd_nxt + Len(k.snd_queue) = PerFrame * n

\* A control block that gave out m frames, when the other has sent the segments below nxt
Receives(k, nxt, m) ==
  /\ k.rcv_nxt <= nxt /\ Numbered(k.rcv_buf, k.rcv_nxt, nxt)
  /\ \A i \in DOMAIN k.rcv_buf : k.rcv_buf[i].sn < k.rcv_nxt + RcvWnd
  /\ Consecutive(k.rcv_queue, PerFrame * m) /\ k.rcv_nxt = PerFrame * m + Len(k.rcv_queue)
  /\ Len(k.rcv_queue) <= RcvWnd
  /\ ToSet(k.acks) \subseteq Received(k)

\* What a board with control block k may have sent so far
Packets(k) ==
  {s \in AnyPacket : /\ s.una <= k.rcv_nxt
                     /\ s.cmd = "PUSH" => s.sn < k.snd_nxt /\ Genuine(s)
                     /\ s.cmd = "ACK" => s.sn \in Received(k)}

\* k has what other still needs: ForgottenOnlyIfReceived
Remembers(k, other) == \A sn \in 0 .. k.snd_nxt - 1 : sn \in Unacknowledged(k) \cup Received(other)

\* Control block k of a board that sent n frames and has had m, when the other board's is l
\* and inbox is on the way to it
Linked(k, l, n, m, inbox) ==
  /\ k \in Blocks
  /\ Sends(k, n) /\ Receives(k, l.snd_nxt, m)
  /\ Remembers(k, l)
  /\ inbox \in Seq(Seq(Packets(l)))

Session(b) == Linked(kcp[b], kcp[Peer(b)], Len(put[b]), Len(got[b]), net[b])

UpTo(lo, hi) == [i \in 1 .. hi - lo |-> lo + i]

\* Of the frames out that came out of a session the first n were handed on or dropped, and
\* buf, which takes size pieces, holds the others.
Accounted(out, handed, dropped, buf, size, n) ==
  /\ out \in Seq(Nat) /\ handed \in Seq(Nat) /\ dropped \in Seq(Nat) /\ buf \in Seq(AnyPiece)
  /\ out = UpTo(0, Len(out)) /\ n \in 0 .. Len(out)
  /\ Carries(buf, UpTo(n, Len(out))) /\ Len(buf) <= size
  /\ ToSet(handed) \cup ToSet(dropped) = 1 .. n
  /\ Len(handed) + Len(dropped) = n
  /\ \A i, j \in DOMAIN handed : i < j => handed[i] < handed[j]
  /\ size % Parts # 0 => dropped = <<>>

Delivered(b) ==
  /\ put[b] \in Seq(Nat) /\ put[b] = UpTo(0, Len(put[b])) /\ Len(put[b]) <= MaxSent[b]
  /\ step[b] \in {"idle", "recv"}
  /\ \E n \in Nat : Accounted(got[b], given[b], emptied[b], rx[b], rxBuf, n)

Tables ==
  /\ DOMAIN kcp = Boards /\ DOMAIN net = Boards /\ DOMAIN step = Boards /\ DOMAIN rx = Boards
  /\ DOMAIN put = Boards /\ DOMAIN got = Boards /\ DOMAIN given = Boards /\ DOMAIN emptied = Boards

Inv ==
  /\ Tables /\ rxBuf \in RxBufs /\ faults \in 0 .. MaxFaults
  /\ \A b \in Boards : Session(b) /\ Delivered(b)

-----------------------------------------------------------------------------
(* Frames and their segments                                                  *)

\* Which numbers the model's Max and Min pick
LEMMA Larger ==
  ASSUME NEW a \in Int, NEW b \in Int
  PROVE  Max({a, b}) = (IF a >= b THEN a ELSE b) /\ Min({a, b}) = (IF a <= b THEN a ELSE b)
BY DEF Max, Min

\* The number of fragments of a frame
LEMMA Fragmented ==
  /\ PerFrame \in Nat \ {0} /\ Parts \in Nat \ {0} /\ Mss \in Nat \ {0}
  /\ Parts <= PerFrame * Mss /\ (PerFrame - 1) * Mss < Parts
<1>1. Parts \in Nat \ {0} /\ Mss \in Nat \ {0}
  BY FramingAssumption, IkcpAssumption DEF FramingAssumption, IkcpAssumption
<1> DEFINE q == (Parts + Mss - 1) \div Mss
           r == (Parts + Mss - 1) % Mss
<1>2. q \in Int /\ r \in 0 .. Mss - 1 /\ Parts + Mss - 1 = Mss * q + r  BY <1>1
<1>3. PICK x, y : x = q /\ y = r  OBVIOUS
<1>4. x \in Int /\ y \in 0 .. Mss - 1 /\ Parts + Mss - 1 = Mss * x + y  BY <1>2, <1>3
<1>5. x >= 1
  <2>1. SUFFICES ASSUME x <= 0  PROVE FALSE  BY <1>4
  <2>2. 0 - x \in Nat /\ \A i, j \in Nat : i * j \in Nat  BY <1>4, <2>1
  <2>3. Mss * (0 - x) \in Nat  BY <1>1, <2>2
  <2>4. Mss * (0 - x) = 0 - Mss * x  BY <1>1, <1>4
  <2>5. QED  BY <1>1, <1>4, <2>3, <2>4
<1>6. PerFrame = x
  <2>1. PerFrame = Max({1, x})  BY <1>3 DEF PerFrame
  <2>2. QED  BY <1>4, <1>5, <2>1, Larger
<1>7. x * Mss = Mss * x /\ (x - 1) * Mss = Mss * x - Mss  BY <1>1, <1>4
<1>8. QED  BY <1>1, <1>4, <1>5, <1>6, <1>7

\* Quotient and remainder of the number of a segment
LEMMA Quotient ==
  ASSUME NEW p \in Nat \ {0}, NEW n \in Nat, NEW i \in 1 .. p
  PROVE  /\ (p * n + i - 1) \div p = n /\ (p * n + i - 1) % p = i - 1
         /\ p * n \in Nat /\ p * (n + 1) = p * n + p
<1>1. p * n \in Nat /\ p * (n + 1) = p * n + p
  <2>1. \A a, b \in Nat : a * b \in Nat  OBVIOUS
  <2>2. QED  BY <2>1
<1> DEFINE q == (p * n + i - 1) \div p
           r == (p * n + i - 1) % p
<1>2. q \in Int /\ r \in 0 .. p - 1 /\ p * n + i - 1 = p * q + r  BY <1>1
<1>3. PICK x, y : x = q /\ y = r  OBVIOUS
<1>a. x \in Int /\ y \in 0 .. p - 1 /\ p * n + i - 1 = p * x + y  BY <1>2, <1>3
<1>b. p * (n - x) = p * n - p * x /\ p * x \in Int  BY <1>a
<1>4. x \in Int /\ y \in 0 .. p - 1 /\ p * (n - x) = y - (i - 1)  BY <1>1, <1>a, <1>b
<1>5. n - x = 0
  <2>1. ASSUME NEW d \in Int, d >= 1  PROVE p * d >= p
    <3>1. p * d = p + p * (d - 1)  OBVIOUS
    <3>2. d - 1 \in Nat  BY <2>1
    <3>3. \A a, b \in Nat : a * b \in Nat  OBVIOUS
    <3>4. p * (d - 1) \in Nat  BY <3>2, <3>3
    <3>5. QED  BY <3>1, <3>4
  <2>2. ~(n - x >= 1)
    <3>1. n - x >= 1 => p * (n - x) >= p  BY <1>4, <2>1
    <3>2. QED  BY <1>4, <3>1
  <2>3. ~(x - n >= 1)
    <3>1. x - n >= 1 => p * (x - n) >= p  BY <1>4, <2>1
    <3>2. p * (x - n) = 0 - p * (n - x)  BY <1>4
    <3>3. QED  BY <1>4, <3>1, <3>2
  <2>4. QED  BY <1>4, <2>2, <2>3
<1>6. x = n  BY <1>4, <1>5
<1>7. y = i - 1  BY <1>4, <1>6
<1>8. QED  BY <1>1, <1>3, <1>6, <1>7

\* Every number is that of a segment of some frame.
LEMMA Divided ==
  ASSUME NEW sn \in Nat
  PROVE  /\ (sn \div PerFrame) \in Nat /\ (sn % PerFrame) + 1 \in 1 .. PerFrame
         /\ sn = PerFrame * (sn \div PerFrame) + ((sn % PerFrame) + 1) - 1
<1>1. PerFrame \in Nat \ {0}  BY Fragmented
<1>2. PICK p \in Nat \ {0} : p = PerFrame  BY <1>1
<1> DEFINE q == sn \div p
           r == sn % p
<1>3. q \in Int /\ r \in 0 .. p - 1 /\ sn = p * q + r  OBVIOUS
<1>4. PICK x, y : x = q /\ y = r  OBVIOUS
<1>5. x \in Int /\ y \in 0 .. p - 1 /\ sn = p * x + y  BY <1>3, <1>4
<1>6. x \in Nat
  <2>1. SUFFICES ASSUME x <= -1  PROVE FALSE  BY <1>5
  <2>2. (-1) - x \in Nat /\ \A a, b \in Nat : a * b \in Nat  BY <1>5, <2>1
  <2>3. p * ((-1) - x) \in Nat  BY <2>2
  <2>4. p * ((-1) - x) = (0 - p) - p * x  BY <1>5
  <2>5. QED  BY <1>5, <2>3, <2>4
<1>7. QED  BY <1>2, <1>4, <1>5, <1>6


\* A function on 1 .. n is a sequence of n elements.
LEMMA Listed ==
  ASSUME NEW S, NEW n \in Nat, NEW f \in [1 .. n -> S]
  PROVE  f \in Seq(S) /\ Len(f) = n /\ DOMAIN f = 1 .. n
<1>1. f \in Seq(S)  BY SeqDef
<1>2. DOMAIN f = 1 .. n  OBVIOUS
<1>3. QED  BY <1>1, <1>2, LenProperties

\* The pieces of the i-th segment of a frame
LEMMA Slice ==
  ASSUME NEW n \in Nat, NEW i \in 1 .. PerFrame
  PROVE  LET lo == (i - 1) * Mss
             hi == Min({i * Mss, Parts})
             d == SubSeq(Frame(n), lo + 1, hi)
         IN  /\ lo \in Nat /\ hi \in lo + 1 .. Parts /\ hi <= lo + Mss
             /\ i * Mss = lo + Mss
             /\ d \in Seq(AnyPiece) /\ Len(d) = hi - lo
             /\ \A j \in 1 .. hi - lo : d[j] = Frame(n)[lo + j]
<1> DEFINE lo == (i - 1) * Mss
           hi == Min({i * Mss, Parts})
           d == SubSeq(Frame(n), lo + 1, hi)
<1>1. PerFrame \in Nat \ {0} /\ Mss \in Nat \ {0} /\ Parts \in Nat \ {0} /\ (PerFrame - 1) * Mss < Parts
  BY Fragmented
<1>2. PICK p \in Nat \ {0} : p = PerFrame  BY <1>1
<1>3. lo \in Nat /\ i * Mss = lo + Mss
  <2>1. i - 1 \in Nat /\ \A a, b \in Nat : a * b \in Nat  BY <1>2
  <2>2. i * Mss = (i - 1) * Mss + Mss  BY <1>1, <1>2
  <2>3. QED  BY <1>1, <2>1, <2>2
<1>4. lo < Parts
  <2>1. (p - i) * Mss \in Nat
    <3>1. p - i \in Nat /\ \A a, b \in Nat : a * b \in Nat  BY <1>2
    <3>2. QED  BY <1>1, <3>1
  <2>2. (p - 1) * Mss = lo + (p - i) * Mss  BY <1>1, <1>2
  <2>3. PICK x \in Nat : x = (p - i) * Mss  BY <2>1
  <2>4. lo + x < Parts  BY <1>1, <1>2, <2>2, <2>3
  <2>5. QED  BY <1>1, <1>3, <2>4
<1>5. hi \in lo + 1 .. Parts /\ hi <= lo + Mss
  <2>1. PICK m \in Nat : m = i * Mss  BY <1>1, <1>3
  <2>2. hi = IF m <= Parts THEN m ELSE Parts  BY <1>1, <2>1, Larger
  <2>3. QED  BY <1>1, <1>3, <1>4, <2>1, <2>2
<1> HIDE DEF lo, hi
<1>6. \A j \in lo + 1 .. hi : Frame(n)[j] \in AnyPiece
  <2>1. Frame(n) \in Seq(AnyPiece) /\ Len(Frame(n)) = Parts  BY FrameProperties
  <2>2. \A j \in lo + 1 .. hi : j \in 1 .. Len(Frame(n))  BY <1>1, <1>3, <1>5, <2>1
  <2>3. QED  BY <2>1, <2>2, ElementOfSeq
<1>7. /\ d \in Seq(AnyPiece) /\ Len(d) = hi - lo
      /\ \A j \in 1 .. hi - lo : d[j] = Frame(n)[lo + j]
  <2>1. lo + 1 \in Int /\ hi \in Int /\ lo + 1 <= hi /\ hi - (lo + 1) + 1 = hi - lo  BY <1>1, <1>3, <1>5
  <2>2. /\ d \in Seq(AnyPiece) /\ Len(d) = IF lo + 1 <= hi THEN hi - (lo + 1) + 1 ELSE 0
        /\ \A j \in 1 .. hi - (lo + 1) + 1 : d[j] = Frame(n)[lo + 1 + j - 1]
    BY <1>6, <2>1, SubSeqProperties
  <2>3. \A j \in 1 .. hi - lo : lo + 1 + j - 1 = lo + j  BY <1>3, <2>1
  <2>4. QED  BY <2>1, <2>2, <2>3
<1> USE DEF lo, hi
<1>8. QED  BY <1>3, <1>5, <1>7

\* ikcp_send cuts a frame into PerFrame segments.
LEMMA FragmentsOf ==
  ASSUME NEW n \in Nat
  PROVE  /\ Fragments(Frame(n)) \in Seq(AnyChunk) /\ Len(Fragments(Frame(n))) = PerFrame
         /\ \A i \in 1 .. PerFrame : Fragments(Frame(n))[i] =
              [frg |-> PerFrame - i,
               data |-> SubSeq(Frame(n), (i - 1) * Mss + 1, Min({i * Mss, Parts}))]
<1>1. Len(Frame(n)) = Parts  BY FrameProperties
<1>2. Fragments(Frame(n)) =
        [i \in 1 .. PerFrame |->
          [frg |-> PerFrame - i,
           data |-> SubSeq(Frame(n), (i - 1) * Mss + 1, Min({i * Mss, Parts}))]]
  BY <1>1 DEF Fragments, PerFrame
<1>3. PICK p \in Nat \ {0} : p = PerFrame  BY Fragmented
<1>4. ASSUME NEW i \in 1 .. p
      PROVE  [frg |-> p - i, data |-> SubSeq(Frame(n), (i - 1) * Mss + 1, Min({i * Mss, Parts}))]
               \in AnyChunk
  <2>1. SubSeq(Frame(n), (i - 1) * Mss + 1, Min({i * Mss, Parts})) \in Seq(AnyPiece)  BY <1>3, Slice
  <2>2. p - i \in Nat  OBVIOUS
  <2>3. QED  BY <2>1, <2>2 DEF AnyChunk
<1>5. Fragments(Frame(n)) \in [1 .. p -> AnyChunk]  BY <1>2, <1>3, <1>4
<1>6. Fragments(Frame(n)) \in Seq(AnyChunk) /\ Len(Fragments(Frame(n))) = p  BY <1>5, Listed
<1>7. QED  BY <1>2, <1>3, <1>6

\* What the numbers of its segments say
LEMMA CarriedIs ==
  ASSUME NEW n \in Nat, NEW i \in 1 .. PerFrame
  PROVE  /\ Carried(PerFrame * n + i - 1) = Fragments(Frame(n + 1))[i]
         /\ PerFrame * n + i - 1 \in Nat
         /\ Carried(PerFrame * n + i - 1) \in AnyChunk
         /\ Carried(PerFrame * n + i - 1).frg = PerFrame - i
<1>1. PICK p \in Nat \ {0} : p = PerFrame  BY Fragmented
<1>2. (p * n + i - 1) \div p = n /\ (p * n + i - 1) % p = i - 1 /\ p * n \in Nat
  BY <1>1, Quotient
<1>3. Carried(p * n + i - 1) = Fragments(Frame(n + 1))[i]
  <2>1. Carried(p * n + i - 1) = Fragments(Frame(((p * n + i - 1) \div p) + 1))[((p * n + i - 1) % p) + 1]
    BY <1>1, Zenon DEF Carried
  <2>2. (i - 1) + 1 = i  BY <1>1
  <2>3. QED  BY <1>2, <2>1, <2>2
<1>4. /\ Fragments(Frame(n + 1)) \in Seq(AnyChunk) /\ Len(Fragments(Frame(n + 1))) = p
      /\ Fragments(Frame(n + 1))[i].frg = p - i
  <2>1. n + 1 \in Nat  OBVIOUS
  <2>2. PICK f : f = Fragments(Frame(n + 1))  OBVIOUS
  <2>3. /\ f \in Seq(AnyChunk) /\ Len(f) = PerFrame
        /\ \A j \in 1 .. PerFrame : f[j] =
             [frg |-> PerFrame - j,
              data |-> SubSeq(Frame(n + 1), (j - 1) * Mss + 1, Min({j * Mss, Parts}))]
    BY <2>1, <2>2, FragmentsOf, Zenon
  <2>4. f[i].frg = p - i
    <3>1. PICK d : f[i] = [frg |-> PerFrame - i, data |-> d]  BY <2>3, Zenon
    <3>2. QED  BY <1>1, <3>1
  <2>5. QED  BY <1>1, <2>2, <2>3, <2>4
<1>5. Fragments(Frame(n + 1))[i] \in AnyChunk  BY <1>1, <1>4, ElementOfSeq
<1>6. QED  BY <1>1, <1>2, <1>3, <1>4, <1>5

LEMMA AllCarried == \A sn \in Nat : Carried(sn) \in AnyChunk
<1> TAKE sn \in Nat
<1>1. PICK n \in Nat, i \in 1 .. PerFrame : sn = PerFrame * n + i - 1  BY Divided
<1>2. QED  BY <1>1, CarriedIs


\* What FlattenSeq computes
LEMMA FlatteningExists ==
  ASSUME NEW s, NEW p \in Nat
  PROVE  \E f : f = [i \in 1 .. p |-> IF i = 1 THEN s[i] ELSE f[i - 1] \o s[i]]
<1> DEFINE Is(g, m) == g = [i \in 1 .. m |-> IF i = 1 THEN s[i] ELSE g[i - 1] \o s[i]]
           T == {m \in Nat : \E g : Is(g, m)}
<1>1. 0 \in T
  <2>1. Is([i \in 1 .. 0 |-> i], 0)  OBVIOUS
  <2>2. QED  BY <2>1
<1>2. ASSUME NEW m \in T  PROVE m + 1 \in T
  <2>a. m \in Nat /\ \E g : Is(g, m)
    <3> HIDE DEF Is
    <3>1. QED  BY <1>2
  <2>1. PICK g : Is(g, m)
    <3> HIDE DEF Is
    <3>1. QED  BY <2>a
  <2> HIDE DEF T
  <2> DEFINE h == [i \in 1 .. m + 1 |->
                    IF i <= m THEN g[i] ELSE IF i = 1 THEN s[i] ELSE g[i - 1] \o s[i]]
  <2>2. ASSUME NEW i \in 1 .. m + 1  PROVE h[i] = IF i = 1 THEN s[i] ELSE h[i - 1] \o s[i]
    <3>1. \A j \in 1 .. m : h[j] = g[j]  BY <2>a
    <3>2. i \in 1 .. m \/ i = m + 1  BY <2>a
    <3>3. i # 1 => i - 1 \in 1 .. m  BY <2>a
    <3>4. \A j \in 1 .. m : g[j] = IF j = 1 THEN s[j] ELSE g[j - 1] \o s[j]  BY <2>1
    <3>5. i = m + 1 => h[i] = IF i = 1 THEN s[i] ELSE g[i - 1] \o s[i]  BY <2>a
    <3> HIDE DEF h, Is
    <3>6. QED  BY <3>1, <3>2, <3>3, <3>4, <3>5
  <2>3. Is(h, m + 1)  BY <2>2
  <2> HIDE DEF Is, h
  <2>4. QED  BY <2>a, <2>3 DEF T
<1>3. T = Nat  BY <1>1, <1>2, Induct
<1>4. QED  BY <1>3

LEMMA Flattening ==
  ASSUME NEW s, NEW p \in Nat \ {0}, Len(s) = p
  PROVE  \E f : /\ FlattenSeq(s) = f[p]
                /\ f = [i \in 1 .. p |-> IF i = 1 THEN s[i] ELSE f[i - 1] \o s[i]]
<1> DEFINE f == CHOOSE g : g = [i \in 1 .. p |-> IF i = 1 THEN s[i] ELSE g[i - 1] \o s[i]]
<1>1. f = [i \in 1 .. p |-> IF i = 1 THEN s[i] ELSE f[i - 1] \o s[i]]  BY FlatteningExists
<1>2. FlattenSeq(s) = f[p]  BY DEF FlattenSeq
<1>3. QED  BY <1>1, <1>2

\* The segments of a frame, one after the other, are the frame.
LEMMA WholeFrame ==
  ASSUME NEW n \in Nat, NEW s, Len(s) = PerFrame,
         \A i \in 1 .. PerFrame : s[i] = SubSeq(Frame(n), (i - 1) * Mss + 1, Min({i * Mss, Parts}))
  PROVE  FlattenSeq(s) = Frame(n)
<1>1. PICK p \in Nat \ {0} : p = PerFrame  BY Fragmented
<1>2. PICK f : /\ FlattenSeq(s) = f[p]
               /\ f = [i \in 1 .. p |-> IF i = 1 THEN s[i] ELSE f[i - 1] \o s[i]]
  BY <1>1, Flattening
<1> DEFINE End(i) == Min({i * Mss, Parts})
           T == {m \in Nat : m + 1 <= p => f[m + 1] = SubSeq(Frame(n), 1, End(m + 1))}
<1>3. /\ Frame(n) \in Seq(AnyPiece) /\ Len(Frame(n)) = Parts
      /\ Parts \in Nat \ {0} /\ Mss \in Nat \ {0} /\ Parts <= p * Mss
  BY <1>1, FrameProperties, Fragmented
<1>4. 0 \in T
  <2>1. f[1] = s[1] /\ 1 \in 1 .. p  BY <1>2
  <2>2. s[1] = SubSeq(Frame(n), (1 - 1) * Mss + 1, End(1))  BY <1>1, <2>1
  <2>3. (1 - 1) * Mss + 1 = 1  BY <1>3
  <2> HIDE DEF End
  <2>4. f[0 + 1] = SubSeq(Frame(n), 1, End(0 + 1))  BY <2>1, <2>2, <2>3
  <2>5. QED  BY <2>4
<1>5. ASSUME NEW m \in T  PROVE m + 1 \in T
  <2>1. SUFFICES ASSUME m + 2 <= p  PROVE f[m + 2] = SubSeq(Frame(n), 1, End(m + 2))
    <3>1. (m + 1) + 1 = m + 2 /\ m + 1 \in Nat  OBVIOUS
    <3> HIDE DEF End
    <3>2. QED  BY <2>1, <3>1
  <2>2. f[m + 1] = SubSeq(Frame(n), 1, End(m + 1))
    <3> HIDE DEF End
    <3>1. m \in Nat /\ m + 1 <= p  BY <2>1
    <3>2. QED  BY <1>5, <3>1
  <2> DEFINE k == (m + 1) * Mss
             h == End(m + 2)
  <2>3. m + 1 \in 1 .. p /\ m + 2 \in 1 .. p /\ (m + 2) - 1 = m + 1  BY <2>1
  <2>4. k \in Nat /\ h \in k + 1 .. Parts
    <3>1. ((m + 2) - 1) * Mss \in Nat /\ End(m + 2) \in ((m + 2) - 1) * Mss + 1 .. Parts
      BY <1>1, <2>3, Slice
    <3> HIDE DEF End
    <3>2. QED  BY <2>3, <3>1
  <2>5. End(m + 1) = k
    <3> HIDE DEF k, h
    <3>1. End(m + 1) = Min({k, Parts})  BY DEF k
    <3> HIDE DEF End
    <3>2. k \in Int /\ Parts \in Int /\ k <= Parts  BY <1>3, <2>4
    <3>3. QED  BY <3>1, <3>2, Larger
  <2>6. f[m + 2] = f[m + 1] \o s[m + 2]
    <3>1. m + 2 # 1  BY <2>3
    <3> HIDE DEF k, h, End, T
    <3>2. f[m + 2] = f[(m + 2) - 1] \o s[m + 2]  BY <1>2, <2>3, <3>1
    <3>3. QED  BY <2>3, <3>2
  <2>7. s[m + 2] = SubSeq(Frame(n), k + 1, h)
    <3>1. s[m + 2] = SubSeq(Frame(n), ((m + 2) - 1) * Mss + 1, End(m + 2))  BY <1>1, <2>3
    <3>2. QED  BY <2>3, <3>1
  <2> HIDE DEF k, h, End
  <2>8. SubSeq(Frame(n), 1, k) \o SubSeq(Frame(n), k + 1, h) = SubSeq(Frame(n), 1, h)
    <3>1. 1 \in 1 .. Len(Frame(n)) + 1 /\ k \in 1 - 1 .. Len(Frame(n)) /\ h \in k .. Len(Frame(n))
      BY <1>3, <2>4
    <3>2. QED  BY <1>3, <3>1, ConcatAdjacentSubSeq
  <2>9. h = End(m + 2)  BY DEF h
  <2>10. QED  BY <2>2, <2>5, <2>6, <2>7, <2>8, <2>9
<1>6. T = Nat
  <2> HIDE DEF End
  <2>1. QED  BY <1>4, <1>5, Induct
<1>7. f[p] = SubSeq(Frame(n), 1, End(p))
  <2> HIDE DEF End
  <2>1. p - 1 \in Nat /\ (p - 1) + 1 = p  OBVIOUS
  <2>2. p - 1 \in T
    <3> HIDE DEF T
    <3>1. QED  BY <1>6, <2>1
  <2>3. QED  BY <2>1, <2>2
<1>8. End(p) = Parts
  <2>1. PICK x \in Nat : x = p * Mss
    <3>1. \A a, b \in Nat : a * b \in Nat  OBVIOUS
    <3>2. QED  BY <1>3, <3>1
  <2>2. End(p) = Min({x, Parts})  BY <2>1
  <2> HIDE DEF End
  <2>3. x \in Int /\ Parts \in Int /\ Parts <= x  BY <1>3, <2>1
  <2>4. Min({x, Parts}) = IF x <= Parts THEN x ELSE Parts  BY <2>3, Larger
  <2>5. QED  BY <2>2, <2>3, <2>4
<1>9. SubSeq(Frame(n), 1, Parts) = Frame(n)  BY <1>3, SubSeqFull
<1>10. QED  BY <1>2, <1>7, <1>8, <1>9


-----------------------------------------------------------------------------
(* Control blocks: what the operators of Ikcp make of them                    *)

\* The rest of a sequence
LEMMA Rest ==
  ASSUME NEW S, NEW s \in Seq(S), NEW n \in 0 .. Len(s)
  PROVE  /\ SubSeq(s, n + 1, Len(s)) \in Seq(S) /\ Len(SubSeq(s, n + 1, Len(s))) = Len(s) - n
         /\ DOMAIN SubSeq(s, n + 1, Len(s)) = 1 .. Len(s) - n
         /\ \A i \in 1 .. Len(s) - n : SubSeq(s, n + 1, Len(s))[i] = s[n + i] /\ n + i \in 1 .. Len(s)
<1>1. Len(s) \in Nat /\ n \in Nat /\ n <= Len(s)  BY LenProperties
<1>2. \A i \in n + 1 .. Len(s) : s[i] \in S
  <2>1. \A i \in n + 1 .. Len(s) : i \in 1 .. Len(s)  BY <1>1
  <2>2. QED  BY <2>1, ElementOfSeq
<1> DEFINE r == SubSeq(s, n + 1, Len(s))
<1>3. /\ r \in Seq(S) /\ Len(r) = IF n + 1 <= Len(s) THEN Len(s) - (n + 1) + 1 ELSE 0
      /\ \A i \in 1 .. Len(s) - (n + 1) + 1 : r[i] = s[n + 1 + i - 1]
  BY <1>1, <1>2, SubSeqProperties
<1>4. Len(r) = Len(s) - n  BY <1>1, <1>3
<1>5. \A i \in 1 .. Len(s) - n : i \in 1 .. Len(s) - (n + 1) + 1 /\ n + 1 + i - 1 = n + i /\ n + i \in 1 .. Len(s)
  BY <1>1
<1>6. DOMAIN r = 1 .. Len(r)  BY <1>3, LenProperties
<1>7. QED  BY <1>3, <1>4, <1>5, <1>6

\* The sending half of a control block is left alone, or the receiving half.
SameSender(k, l) ==
  /\ l.snd_queue = k.snd_queue /\ l.snd_buf = k.snd_buf /\ l.snd_una = k.snd_una
  /\ l.snd_nxt = k.snd_nxt
SameReceiver(k, l) ==
  /\ l.rcv_queue = k.rcv_queue /\ l.rcv_buf = k.rcv_buf /\ l.rcv_nxt = k.rcv_nxt /\ l.acks = k.acks

LEMMA SameSends ==
  ASSUME NEW k, NEW l, SameSender(k, l), NEW n, Sends(k, n)
  PROVE  Sends(l, n) /\ Unacknowledged(l) = Unacknowledged(k)
BY DEF SameSender, Sends, Unacknowledged

LEMMA SameReceives ==
  ASSUME NEW k, NEW l, SameReceiver(k, l), NEW nxt, NEW m, Receives(k, nxt, m)
  PROVE  Receives(l, nxt, m) /\ Received(l) = Received(k)
<1>1. Received(l) = Received(k)  BY DEF SameReceiver, Received
<1>2. QED  BY <1>1 DEF SameReceiver, Receives

\* The fields of a control block
LEMMA Fields ==
  ASSUME NEW k \in Blocks
  PROVE  /\ k.snd_queue \in Seq(AnyChunk) /\ k.snd_buf \in Seq(AnySegment)
         /\ k.snd_una \in Nat /\ k.snd_nxt \in Nat
         /\ k.rcv_queue \in Seq(AnyChunk) /\ k.rcv_buf \in Seq(AnySegment) /\ k.rcv_nxt \in Nat
         /\ k.rmt_wnd \in Nat /\ k.acks \in Seq(Nat) /\ k.tell \in BOOLEAN /\ k.waiting \in BOOLEAN
         /\ Len(k.snd_queue) \in Nat /\ DOMAIN k.snd_queue = 1 .. Len(k.snd_queue)
         /\ Len(k.snd_buf) \in Nat /\ DOMAIN k.snd_buf = 1 .. Len(k.snd_buf)
         /\ Len(k.rcv_queue) \in Nat /\ DOMAIN k.rcv_queue = 1 .. Len(k.rcv_queue)
         /\ Len(k.rcv_buf) \in Nat /\ DOMAIN k.rcv_buf = 1 .. Len(k.rcv_buf)
         /\ \A i \in DOMAIN k.snd_queue : k.snd_queue[i] \in AnyChunk
         /\ \A i \in DOMAIN k.snd_buf : k.snd_buf[i] \in AnySegment /\ k.snd_buf[i].sn \in Nat
         /\ \A i \in DOMAIN k.rcv_queue : k.rcv_queue[i] \in AnyChunk
         /\ \A i \in DOMAIN k.rcv_buf : k.rcv_buf[i] \in AnySegment /\ k.rcv_buf[i].sn \in Nat
<1>1. /\ k.snd_queue \in Seq(AnyChunk) /\ k.snd_buf \in Seq(AnySegment)
      /\ k.snd_una \in Nat /\ k.snd_nxt \in Nat
      /\ k.rcv_queue \in Seq(AnyChunk) /\ k.rcv_buf \in Seq(AnySegment) /\ k.rcv_nxt \in Nat
      /\ k.rmt_wnd \in Nat /\ k.acks \in Seq(Nat) /\ k.tell \in BOOLEAN /\ k.waiting \in BOOLEAN
  BY DEF Blocks
<1>2. ASSUME NEW S, NEW s \in Seq(S)
      PROVE  Len(s) \in Nat /\ DOMAIN s = 1 .. Len(s) /\ \A i \in DOMAIN s : s[i] \in S
  <2>1. Len(s) \in Nat /\ DOMAIN s = 1 .. Len(s)  BY LenProperties
  <2>2. QED  BY <2>1, ElementOfSeq
<1>3. \A x \in AnySegment : x.sn \in Nat  BY DEF AnySegment
<1>4. /\ Len(k.snd_queue) \in Nat /\ DOMAIN k.snd_queue = 1 .. Len(k.snd_queue)
      /\ \A i \in DOMAIN k.snd_queue : k.snd_queue[i] \in AnyChunk
  BY <1>1, <1>2
<1>5. /\ Len(k.snd_buf) \in Nat /\ DOMAIN k.snd_buf = 1 .. Len(k.snd_buf)
      /\ \A i \in DOMAIN k.snd_buf : k.snd_buf[i] \in AnySegment
  BY <1>1, <1>2
<1>6. /\ Len(k.rcv_queue) \in Nat /\ DOMAIN k.rcv_queue = 1 .. Len(k.rcv_queue)
      /\ \A i \in DOMAIN k.rcv_queue : k.rcv_queue[i] \in AnyChunk
  BY <1>1, <1>2
<1>7. /\ Len(k.rcv_buf) \in Nat /\ DOMAIN k.rcv_buf = 1 .. Len(k.rcv_buf)
      /\ \A i \in DOMAIN k.rcv_buf : k.rcv_buf[i] \in AnySegment
  BY <1>1, <1>2
<1>8. QED  BY <1>1, <1>3, <1>4, <1>5, <1>6, <1>7


\* What rcv_buf holds of a segment goes into rcv_queue without its number.
Unnumbered(s, n) == [i \in 1 .. n |-> [frg |-> s[i].frg, data |-> s[i].data]]

LEMMA UnnumberedIs ==
  ASSUME NEW s \in Seq(AnySegment), NEW n \in 0 .. Len(s)
  PROVE  /\ Unnumbered(s, n) \in Seq(AnyChunk) /\ Len(Unnumbered(s, n)) = n
         /\ \A i \in 1 .. n : Genuine(s[i]) => Unnumbered(s, n)[i] = Carried(s[i].sn)
<1>1. Len(s) \in Nat /\ n \in Nat /\ \A i \in 1 .. n : i \in 1 .. Len(s)  BY LenProperties
<1>2. \A i \in 1 .. n : s[i] \in AnySegment  BY <1>1, ElementOfSeq
<1>3. \A x \in AnySegment : [frg |-> x.frg, data |-> x.data] \in AnyChunk /\ x.sn \in Nat
  BY DEF AnySegment, AnyChunk
<1>4. Unnumbered(s, n) \in [1 .. n -> AnyChunk]  BY <1>2, <1>3 DEF Unnumbered
<1>5. Unnumbered(s, n) \in Seq(AnyChunk) /\ Len(Unnumbered(s, n)) = n  BY <1>1, <1>4, Listed
<1>6. ASSUME NEW i \in 1 .. n, Genuine(s[i])  PROVE Unnumbered(s, n)[i] = Carried(s[i].sn)
  <2>1. PICK c : c = Carried(s[i].sn)  OBVIOUS
  <2>2. c \in AnyChunk  BY <1>2, <1>3, <2>1, AllCarried
  <2>3. s[i].frg = c.frg /\ s[i].data = c.data  BY <1>6, <2>1 DEF Genuine
  <2>4. Unnumbered(s, n)[i] = [frg |-> c.frg, data |-> c.data]  BY <2>3 DEF Unnumbered
  <2>5. [frg |-> c.frg, data |-> c.data] = c  BY <2>2 DEF AnyChunk
  <2>6. QED  BY <2>1, <2>4, <2>5
<1>7. QED  BY <1>5, <1>6

\* Chunks that follow each other
LEMMA ConsecutiveMore ==
  ASSUME NEW s \in Seq(AnyChunk), NEW t \in Seq(AnyChunk), NEW sn \in Nat,
         Consecutive(s, sn), Consecutive(t, sn + Len(s))
  PROVE  Consecutive(s \o t, sn) /\ s \o t \in Seq(AnyChunk) /\ Len(s \o t) = Len(s) + Len(t)
<1>1. PICK u : u = s \o t  OBVIOUS
<1>2. u \in Seq(AnyChunk) /\ Joins(u, s, t)  BY <1>1, Joined
<1>3. ASSUME NEW i \in 1 .. Len(s) + Len(t)  PROVE u[i] = Carried(sn + i - 1)
  <2>1. CASE i \in 1 .. Len(s)
    BY <1>2, <2>1 DEF Joins, Consecutive
  <2>2. CASE i - Len(s) \in 1 .. Len(t) /\ i = Len(s) + (i - Len(s))
    <3>1. u[i] = t[i - Len(s)]  BY <1>2, <2>2 DEF Joins
    <3>2. t[i - Len(s)] = Carried(sn + Len(s) + (i - Len(s)) - 1)  BY <1>2, <2>2 DEF Joins, Consecutive
    <3>3. sn + Len(s) + (i - Len(s)) - 1 = sn + i - 1  BY <1>2 DEF Joins
    <3>4. QED  BY <3>1, <3>2, <3>3
  <2>3. QED  BY <1>2, <2>1, <2>2 DEF Joins
<1>4. QED  BY <1>1, <1>2, <1>3 DEF Joins, Consecutive

LEMMA ConsecutiveLess ==
  ASSUME NEW s \in Seq(AnyChunk), NEW n \in 0 .. Len(s), NEW sn \in Nat, Consecutive(s, sn)
  PROVE  Consecutive(SubSeq(s, n + 1, Len(s)), sn + n)
<1>1. PICK r : r = SubSeq(s, n + 1, Len(s))  OBVIOUS
<1>2. /\ DOMAIN r = 1 .. Len(s) - n
      /\ \A i \in 1 .. Len(s) - n : r[i] = s[n + i] /\ n + i \in 1 .. Len(s)
  BY <1>1, Rest
<1>3. DOMAIN s = 1 .. Len(s) /\ Len(s) \in Nat  BY LenProperties
<1>4. ASSUME NEW i \in 1 .. Len(s) - n  PROVE r[i] = Carried(sn + n + i - 1)
  <2>1. r[i] = Carried(sn + (n + i) - 1)  BY <1>2, <1>3 DEF Consecutive
  <2>2. sn + (n + i) - 1 = sn + n + i - 1  BY <1>3
  <2>3. QED  BY <2>1, <2>2
<1>5. QED  BY <1>1, <1>2, <1>4 DEF Consecutive

\* Segments move from rcv_buf to rcv_queue; none is lost, and what is due comes next.
LEMMA MovedReady ==
  ASSUME NEW k \in Blocks, NEW nxt \in Nat, NEW m \in Nat, Receives(k, nxt, m)
  PROVE  LET r == MoveReady(k)
         IN  /\ r \in Blocks /\ Receives(r, nxt, m) /\ SameSender(k, r)
             /\ k.rcv_nxt <= r.rcv_nxt /\ Received(k) \subseteq Received(r)
             /\ r.acks = k.acks
<1> DEFINE N == {i \in 0 .. Min({Len(k.rcv_buf), Room(k)}) : InSequence(k, i)}
           n == Max(N)
           q == k.rcv_queue \o Unnumbered(k.rcv_buf, n)
           t == SubSeq(k.rcv_buf, n + 1, Len(k.rcv_buf))
           r == MoveReady(k)
<1>1. r = [k EXCEPT !.rcv_queue = q, !.rcv_buf = t, !.rcv_nxt = k.rcv_nxt + n]
  BY DEF MoveReady, Unnumbered
<1>2. PICK len : len = Len(k.rcv_buf)  OBVIOUS
<1>3. len \in Nat /\ DOMAIN k.rcv_buf = 1 .. len /\ k.rcv_nxt \in Nat  BY <1>2, Fields
<1>4. Room(k) \in Nat /\ Room(k) = RcvWnd - Len(k.rcv_queue) /\ RcvWnd \in Nat
  <2>1. RcvWnd \in Nat  BY IkcpAssumption DEF IkcpAssumption
  <2>2. QED  BY <2>1, Fields DEF Room, Receives
<1>5. n \in 0 .. len /\ n <= Room(k) /\ InSequence(k, n)
  <2>1. PICK c : c = Min({len, Room(k)})  OBVIOUS
  <2>2. c \in Nat /\ c <= len /\ c <= Room(k)
    <3>1. len \in Int /\ Room(k) \in Int  BY <1>3, <1>4
    <3>2. Min({len, Room(k)}) = IF len <= Room(k) THEN len ELSE Room(k)  BY <3>1, Larger, Zenon
    <3>3. QED  BY <1>3, <1>4, <2>1, <3>2
  <2>3. N = {i \in 0 .. c : InSequence(k, i)}  BY <1>2, <2>1
  <2>4. InSequence(k, 0)  BY DEF InSequence
  <2>5. N # {} /\ N \in SUBSET (0 .. c)
    <3>1. 0 \in 0 .. c  BY <2>2
    <3> HIDE DEF N
    <3>2. 0 \in N /\ \A i \in N : i \in 0 .. c  BY <2>3, <2>4, <3>1
    <3>3. QED  BY <3>2
  <2> HIDE DEF N
  <2>6. n \in N /\ n \in 0 .. c  BY <2>2, <2>5, Most
  <2>7. QED  BY <1>3, <1>4, <2>2, <2>3, <2>6
<1> HIDE DEF n, N
<1>6. \A i \in 1 .. n : k.rcv_buf[i].sn = k.rcv_nxt + i - 1 /\ i \in DOMAIN k.rcv_buf
  BY <1>3, <1>5 DEF InSequence
<1>7. /\ Unnumbered(k.rcv_buf, n) \in Seq(AnyChunk) /\ Len(Unnumbered(k.rcv_buf, n)) = n
      /\ \A i \in 1 .. n : Unnumbered(k.rcv_buf, n)[i] = Carried(k.rcv_nxt + i - 1)
  <2>1. \A i \in 1 .. n : Genuine(k.rcv_buf[i])  BY <1>6 DEF Receives, Numbered
  <2>2. k.rcv_buf \in Seq(AnySegment)  BY Fields
  <2>3. QED  BY <1>2, <1>5, <1>6, <2>1, <2>2, UnnumberedIs
<1>8. PICK a \in Nat : a = PerFrame * m /\ k.rcv_nxt = a + Len(k.rcv_queue)
  <2>1. PerFrame \in Nat /\ \A x, y \in Nat : x * y \in Nat  BY Fragmented
  <2>2. QED  BY <2>1 DEF Receives
<1>9. Consecutive(q, a) /\ q \in Seq(AnyChunk) /\ Len(q) = Len(k.rcv_queue) + n
  <2>1. k.rcv_queue \in Seq(AnyChunk) /\ Consecutive(k.rcv_queue, a)  BY <1>8, Fields DEF Receives
  <2>2. DOMAIN Unnumbered(k.rcv_buf, n) = 1 .. n  BY <1>7, LenProperties
  <2>3. Consecutive(Unnumbered(k.rcv_buf, n), a + Len(k.rcv_queue))
    BY <1>7, <1>8, <2>2 DEF Consecutive
  <2>4. QED  BY <1>7, <2>1, <2>3, ConsecutiveMore
<1>10. /\ t \in Seq(AnySegment) /\ DOMAIN t = 1 .. len - n
       /\ \A i \in 1 .. len - n : t[i] = k.rcv_buf[n + i] /\ n + i \in 1 .. len
  <2>1. k.rcv_buf \in Seq(AnySegment)  BY Fields
  <2>2. QED  BY <1>2, <1>5, <2>1, Rest
<1> HIDE DEF q, t
<1>11. /\ r \in Blocks /\ SameSender(k, r) /\ r.acks = k.acks
       /\ r.rcv_queue = q /\ r.rcv_buf = t /\ r.rcv_nxt = k.rcv_nxt + n
  <2>1. k.rcv_nxt + n \in Nat  BY <1>3, <1>5
  <2>2. QED  BY <1>1, <1>9, <1>10, <2>1 DEF Blocks, SameSender
<1> HIDE DEF r
<1>12. k.rcv_nxt + n <= nxt
  <2>1. CASE n = 0  BY <1>3, <2>1 DEF Receives
  <2>2. CASE n # 0
    <3>1. n \in 1 .. n  BY <1>5, <2>2
    <3>2. k.rcv_buf[n].sn = k.rcv_nxt + n - 1 /\ k.rcv_buf[n].sn < nxt
      BY <1>6, <3>1 DEF Receives, Numbered
    <3>3. QED  BY <1>3, <1>5, <3>2
  <2>3. QED  BY <2>1, <2>2
<1>13. ASSUME NEW i \in 1 .. len - n  PROVE k.rcv_nxt + n <= t[i].sn
  <2>1. t[i] = k.rcv_buf[n + i] /\ n + i \in DOMAIN k.rcv_buf /\ t[i].sn \in Nat
    BY <1>3, <1>10, Fields
  <2>2. CASE n = 0  BY <1>3, <2>1, <2>2 DEF Receives, Numbered
  <2>3. CASE n # 0
    <3>1. n \in 1 .. n /\ n \in DOMAIN k.rcv_buf /\ n < n + i  BY <1>3, <1>5, <2>3
    <3>2. k.rcv_buf[n].sn < k.rcv_buf[n + i].sn  BY <2>1, <3>1 DEF Receives, Numbered
    <3>3. k.rcv_buf[n].sn = k.rcv_nxt + n - 1  BY <1>6, <3>1
    <3>4. k.rcv_nxt + n - 1 < t[i].sn  BY <2>1, <3>2, <3>3
    <3>5. QED  BY <1>3, <1>5, <2>1, <3>4
  <2>4. QED  BY <2>2, <2>3
<1>14. Numbered(t, k.rcv_nxt + n, nxt)
  <2>1. ASSUME NEW i \in DOMAIN t
        PROVE  k.rcv_nxt + n <= t[i].sn /\ t[i].sn < nxt /\ Genuine(t[i])
    <3>1. i \in 1 .. len - n /\ t[i] = k.rcv_buf[n + i] /\ n + i \in DOMAIN k.rcv_buf
      BY <1>3, <1>10
    <3>2. PICK j \in DOMAIN k.rcv_buf : j = n + i  BY <3>1
    <3>3. k.rcv_buf[j].sn < nxt /\ Genuine(k.rcv_buf[j])  BY DEF Receives, Numbered
    <3>4. QED  BY <1>13, <3>1, <3>2, <3>3
  <2>2. ASSUME NEW i \in DOMAIN t, NEW j \in DOMAIN t, i < j  PROVE t[i].sn < t[j].sn
    <3>1. /\ t[i] = k.rcv_buf[n + i] /\ n + i \in DOMAIN k.rcv_buf
          /\ t[j] = k.rcv_buf[n + j] /\ n + j \in DOMAIN k.rcv_buf /\ i \in Int /\ j \in Int
      BY <1>3, <1>10
    <3>2. PICK x \in DOMAIN k.rcv_buf, y \in DOMAIN k.rcv_buf : x = n + i /\ y = n + j
      BY <3>1
    <3>3. x < y  BY <1>5, <2>2, <3>1, <3>2
    <3>4. k.rcv_buf[x].sn < k.rcv_buf[y].sn  BY <3>3 DEF Receives, Numbered
    <3>5. QED  BY <3>1, <3>2, <3>4
  <2>3. QED  BY <2>1, <2>2 DEF Numbered
<1>15. \A i \in DOMAIN t : t[i].sn < (k.rcv_nxt + n) + RcvWnd
  <2> TAKE i \in DOMAIN t
  <2>1. t[i] = k.rcv_buf[n + i] /\ n + i \in DOMAIN k.rcv_buf  BY <1>3, <1>10
  <2>2. t[i].sn < k.rcv_nxt + RcvWnd /\ t[i].sn \in Nat  BY <2>1, Fields DEF Receives
  <2>3. QED  BY <1>3, <1>4, <1>5, <2>2
<1>16. Received(k) \subseteq Received(r)
  <2> SUFFICES ASSUME NEW sn \in Nat, sn \in Received(k)  PROVE sn \in Received(r)
    BY DEF Received
  <2>1. CASE sn < k.rcv_nxt  BY <1>3, <1>5, <1>11, <2>1 DEF Received
  <2>2. ASSUME NEW i \in DOMAIN k.rcv_buf, k.rcv_buf[i].sn = sn  PROVE sn \in Received(r)
    <3>1. CASE i <= n
      <4>1. sn = k.rcv_nxt + i - 1  BY <1>3, <1>6, <2>2, <3>1
      <4>2. QED  BY <1>3, <1>5, <1>11, <3>1, <4>1 DEF Received
    <3>2. CASE i > n
      <4>1. i - n \in 1 .. len - n /\ n + (i - n) = i  BY <1>3, <1>5, <3>2
      <4>2. i - n \in DOMAIN t /\ t[i - n].sn = sn  BY <1>10, <2>2, <4>1
      <4>3. QED  BY <1>11, <4>2 DEF Received
    <3>3. QED  BY <1>3, <1>5, <3>1, <3>2
  <2>3. QED  BY <2>1, <2>2 DEF Received
<1>17. Len(q) <= RcvWnd  BY <1>4, <1>5, <1>9, Fields
<1>18. r.rcv_nxt = PerFrame * m + Len(q)  BY <1>3, <1>5, <1>8, <1>9, <1>11, Fields
<1>19. Receives(r, nxt, m)
  BY <1>8, <1>9, <1>11, <1>12, <1>14, <1>15, <1>16, <1>17, <1>18 DEF Receives
<1>20. k.rcv_nxt <= r.rcv_nxt  BY <1>3, <1>5, <1>11
<1> USE DEF r
<1>21. QED  BY <1>11, <1>16, <1>19, <1>20


\* One element more at place i, or the i-th taken out
Grows(S, s, i, e) ==
  /\ InsertAt(s, i, e) \in Seq(S) /\ Len(InsertAt(s, i, e)) = Len(s) + 1
  /\ DOMAIN InsertAt(s, i, e) = 1 .. Len(s) + 1
  /\ \A j \in 1 .. Len(s) + 1 :
       /\ j < i => InsertAt(s, i, e)[j] = s[j]
       /\ j = i => InsertAt(s, i, e)[j] = e
       /\ j > i => InsertAt(s, i, e)[j] = s[j - 1]

Shrinks(S, s, i) ==
  /\ RemoveAt(s, i) \in Seq(S) /\ Len(RemoveAt(s, i)) = Len(s) - 1
  /\ DOMAIN RemoveAt(s, i) = 1 .. Len(s) - 1
  /\ \A j \in 1 .. Len(s) - 1 :
       (j < i => RemoveAt(s, i)[j] = s[j]) /\ (j >= i => RemoveAt(s, i)[j] = s[j + 1])

LEMMA Inserted ==
  ASSUME NEW S, NEW s \in Seq(S), NEW i \in 1 .. Len(s) + 1, NEW e \in S
  PROVE  Grows(S, s, i, e)
<1>1. Len(s) \in Nat /\ DOMAIN s = 1 .. Len(s)  BY LenProperties
<1> DEFINE a == SubSeq(s, 1, i - 1)
           b == SubSeq(s, i, Len(s))
<1>2. i - 1 \in 0 .. Len(s) /\ (i - 1) + 1 = i  BY <1>1
<1>3. a \in Seq(S) /\ Len(a) = i - 1 /\ \A j \in 1 .. i - 1 : a[j] = s[j]
  <2>1. \A j \in 1 .. i - 1 : s[j] \in S
    <3>1. \A j \in 1 .. i - 1 : j \in 1 .. Len(s)  BY <1>1
    <3>2. QED  BY <3>1, ElementOfSeq
  <2>2. 1 \in Int /\ i - 1 \in Int  BY <1>1
  <2>3. /\ a \in Seq(S) /\ Len(a) = IF 1 <= i - 1 THEN i - 1 - 1 + 1 ELSE 0
        /\ \A j \in 1 .. i - 1 - 1 + 1 : a[j] = s[1 + j - 1]
    BY <2>1, <2>2, SubSeqProperties
  <2>4. i - 1 - 1 + 1 = i - 1 /\ \A j \in 1 .. i - 1 : 1 + j - 1 = j  BY <1>1
  <2>5. QED  BY <1>1, <2>3, <2>4
<1>4. b \in Seq(S) /\ Len(b) = Len(s) - i + 1 /\ \A j \in 1 .. Len(s) - i + 1 : b[j] = s[i - 1 + j]
  <2>1. /\ b \in Seq(S) /\ Len(b) = Len(s) - (i - 1)
        /\ \A j \in 1 .. Len(s) - (i - 1) : b[j] = s[(i - 1) + j]
    BY <1>2, Rest
  <2>2. Len(s) - (i - 1) = Len(s) - i + 1  BY <1>1
  <2>3. QED  BY <2>1, <2>2
<1>5. <<e>> \in Seq(S) /\ Len(<<e>>) = 1 /\ <<e>>[1] = e  OBVIOUS
<1> HIDE DEF a, b
<1>6. PICK v : v = a \o <<e>>  OBVIOUS
<1>7. v \in Seq(S) /\ Joins(v, a, <<e>>)  BY <1>3, <1>5, <1>6, Joined
<1>8. Len(v) = i /\ v[i] = e /\ \A j \in 1 .. i - 1 : v[j] = s[j]
  <2>1. Len(v) = i /\ v[(i - 1) + 1] = e  BY <1>1, <1>3, <1>5, <1>7 DEF Joins
  <2>2. \A j \in 1 .. i - 1 : v[j] = s[j]  BY <1>3, <1>7 DEF Joins
  <2>3. QED  BY <1>2, <2>1, <2>2
<1>9. PICK u : u = v \o b  OBVIOUS
<1>10. u \in Seq(S) /\ Joins(u, v, b)  BY <1>4, <1>7, <1>9, Joined
<1>11. u = InsertAt(s, i, e)  BY <1>6, <1>9 DEF InsertAt, a, b
<1>12. Len(u) = Len(s) + 1 /\ DOMAIN u = 1 .. Len(s) + 1  BY <1>1, <1>4, <1>8, <1>10 DEF Joins
<1>13. ASSUME NEW j \in 1 .. Len(s) + 1
       PROVE  (j < i => u[j] = s[j]) /\ (j = i => u[j] = e) /\ (j > i => u[j] = s[j - 1])
  <2>1. CASE j <= i
    <3>1. j \in 1 .. Len(v)  BY <1>1, <1>8, <2>1
    <3>2. u[j] = v[j]  BY <1>10, <3>1 DEF Joins
    <3>3. j = i \/ j \in 1 .. i - 1  BY <1>1, <2>1
    <3>4. QED  BY <1>1, <1>8, <3>2, <3>3
  <2>2. CASE j > i
    <3>1. j - i \in 1 .. Len(b) /\ i + (j - i) = j /\ i - 1 + (j - i) = j - 1  BY <1>1, <1>4, <2>2
    <3>2. u[i + (j - i)] = b[j - i]  BY <1>8, <1>10, <3>1 DEF Joins
    <3>3. b[j - i] = s[i - 1 + (j - i)]  BY <1>4, <3>1
    <3>4. QED  BY <1>1, <2>2, <3>1, <3>2, <3>3
  <2>3. QED  BY <1>1, <2>1, <2>2
<1>14. QED  BY <1>10, <1>11, <1>12, <1>13 DEF Grows

LEMMA Removed ==
  ASSUME NEW S, NEW s \in Seq(S), NEW i \in 1 .. Len(s)
  PROVE  Shrinks(S, s, i)
<1>1. Len(s) \in Nat /\ DOMAIN s = 1 .. Len(s)  BY LenProperties
<1> DEFINE a == SubSeq(s, 1, i - 1)
           b == SubSeq(s, i + 1, Len(s))
<1>3. a \in Seq(S) /\ Len(a) = i - 1 /\ \A j \in 1 .. i - 1 : a[j] = s[j]
  <2>1. \A j \in 1 .. i - 1 : s[j] \in S
    <3>1. \A j \in 1 .. i - 1 : j \in 1 .. Len(s)  BY <1>1
    <3>2. QED  BY <3>1, ElementOfSeq
  <2>2. 1 \in Int /\ i - 1 \in Int  BY <1>1
  <2>3. /\ a \in Seq(S) /\ Len(a) = IF 1 <= i - 1 THEN i - 1 - 1 + 1 ELSE 0
        /\ \A j \in 1 .. i - 1 - 1 + 1 : a[j] = s[1 + j - 1]
    BY <2>1, <2>2, SubSeqProperties
  <2>4. i - 1 - 1 + 1 = i - 1 /\ \A j \in 1 .. i - 1 : 1 + j - 1 = j  BY <1>1
  <2>5. QED  BY <1>1, <2>3, <2>4
<1>4. b \in Seq(S) /\ Len(b) = Len(s) - i /\ \A j \in 1 .. Len(s) - i : b[j] = s[i + j]
  <2>1. i \in 0 .. Len(s)  BY <1>1
  <2>2. QED  BY <2>1, Rest
<1> HIDE DEF a, b
<1>9. PICK u : u = a \o b  OBVIOUS
<1>10. u \in Seq(S) /\ Joins(u, a, b)  BY <1>3, <1>4, <1>9, Joined
<1>11. u = RemoveAt(s, i)  BY <1>9 DEF RemoveAt, a, b
<1>12. Len(u) = Len(s) - 1 /\ DOMAIN u = 1 .. Len(s) - 1  BY <1>1, <1>3, <1>4, <1>10 DEF Joins
<1>13. ASSUME NEW j \in 1 .. Len(s) - 1  PROVE (j < i => u[j] = s[j]) /\ (j >= i => u[j] = s[j + 1])
  <2>1. CASE j < i
    <3>1. j \in 1 .. i - 1  BY <1>1, <2>1
    <3>2. u[j] = a[j]  BY <1>3, <1>10, <3>1 DEF Joins
    <3>3. QED  BY <1>3, <2>1, <3>1, <3>2
  <2>2. CASE ~(j < i)
    <3>1. j - (i - 1) \in 1 .. Len(b) /\ (i - 1) + (j - (i - 1)) = j /\ i + (j - (i - 1)) = j + 1
      BY <1>1, <1>4, <2>2
    <3>2. u[(i - 1) + (j - (i - 1))] = b[j - (i - 1)]  BY <1>3, <1>10, <3>1 DEF Joins
    <3>3. b[j - (i - 1)] = s[i + (j - (i - 1))]  BY <1>4, <3>1
    <3>4. QED  BY <2>2, <3>1, <3>2, <3>3
  <2>3. QED  BY <2>1, <2>2
<1>14. QED  BY <1>10, <1>11, <1>12, <1>13 DEF Shrinks

\* Some of the segments of s, in the same order
LEMMA NumberedPart ==
  ASSUME NEW s, NEW u, NEW lo, NEW hi, Numbered(s, lo, hi),
         NEW g \in [DOMAIN u -> DOMAIN s],
         \A i \in DOMAIN u : u[i] = s[g[i]],
         \A i, j \in DOMAIN u : i < j => g[i] < g[j]
  PROVE  Numbered(u, lo, hi)
<1>1. \A i \in DOMAIN u : g[i] \in DOMAIN s  OBVIOUS
<1>2. \A i \in DOMAIN u : lo <= u[i].sn /\ u[i].sn < hi /\ Genuine(u[i])  BY <1>1 DEF Numbered
<1>3. \A i, j \in DOMAIN u : i < j => u[i].sn < u[j].sn  BY <1>1 DEF Numbered
<1>4. QED  BY <1>2, <1>3 DEF Numbered

\* ikcp_parse_data puts a new segment where its number belongs.
Filed(s, u, x, lo, hi) ==
  /\ u \in Seq(AnySegment) /\ Numbered(u, lo, hi)
  /\ \A i \in DOMAIN s : \E j \in DOMAIN u : u[j] = s[i]
  /\ \E j \in DOMAIN u : u[j] = x
  /\ \A j \in DOMAIN u : u[j] = x \/ \E i \in DOMAIN s : u[j] = s[i]

LEMMA Kept ==
  ASSUME NEW s \in Seq(AnySegment), NEW lo \in Nat, NEW hi \in Nat, Numbered(s, lo, hi),
         NEW x \in AnySegment, Genuine(x), lo <= x.sn, x.sn < hi,
         \A i \in DOMAIN s : s[i].sn # x.sn,
         NEW u, u = InsertAt(s, Cardinality({i \in DOMAIN s : s[i].sn < x.sn}) + 1, x)
  PROVE  Filed(s, u, x, lo, hi)
<1>0. PICK b : b = {i \in DOMAIN s : s[i].sn < x.sn}  OBVIOUS
<1>1. Len(s) \in Nat /\ DOMAIN s = 1 .. Len(s) /\ x.sn \in Nat
  BY LenProperties DEF AnySegment
<1>2. \A i \in 1 .. Len(s) : s[i].sn \in Nat
  <2>1. \A i \in 1 .. Len(s) : s[i] \in AnySegment  BY ElementOfSeq
  <2>2. QED  BY <2>1 DEF AnySegment
<1>3. PICK c \in 0 .. Len(s) : /\ \A i \in 1 .. c : s[i].sn < x.sn
                               /\ \A i \in c + 1 .. Len(s) : x.sn < s[i].sn
  <2> DEFINE N == {n \in 0 .. Len(s) : \A i \in 1 .. n : s[i].sn < x.sn}
             c == Max(N)
  <2>1. N \in SUBSET (0 .. Len(s))  OBVIOUS
  <2>2. 0 \in N  BY <1>1
  <2>3. c \in N /\ c \in 0 .. Len(s) /\ \A n \in N : n <= c
    <3> HIDE DEF N
    <3>1. QED  BY <1>1, <2>1, <2>2, Most
  <2> HIDE DEF c
  <2>4. ASSUME NEW i \in c + 1 .. Len(s)  PROVE x.sn < s[i].sn
    <3>1. i \in 1 .. Len(s) /\ c + 1 \in 1 .. Len(s) /\ c + 1 <= i  BY <1>1, <2>3
    <3>2. ~(s[c + 1].sn < x.sn)
      <4>1. SUFFICES ASSUME s[c + 1].sn < x.sn  PROVE FALSE  OBVIOUS
      <4>2. \A j \in 1 .. c + 1 : j \in 1 .. c \/ j = c + 1  BY <2>3
      <4>3. \A j \in 1 .. c + 1 : s[j].sn < x.sn  BY <2>3, <4>1, <4>2
      <4>4. c + 1 \in N  BY <1>1, <3>1, <4>3
      <4>5. c + 1 <= c  BY <2>3, <4>4
      <4>6. QED  BY <2>3, <4>5
    <3>3. x.sn < s[c + 1].sn  BY <1>1, <1>2, <3>1, <3>2
    <3>4. c + 1 = i \/ s[c + 1].sn < s[i].sn
      <4>1. c + 1 \in DOMAIN s /\ i \in DOMAIN s /\ (c + 1 = i \/ c + 1 < i)  BY <1>1, <2>3, <3>1
      <4>2. \A j, l \in DOMAIN s : j < l => s[j].sn < s[l].sn  BY DEF Numbered
      <4>3. QED  BY <4>1, <4>2
    <3>5. QED  BY <1>1, <1>2, <3>1, <3>3, <3>4
  <2>5. QED  BY <2>3, <2>4
<1>4. b = 1 .. c
  <2>1. \A i \in 1 .. Len(s) : i \in 1 .. c \/ i \in c + 1 .. Len(s)  BY <1>1
  <2>2. \A i \in 1 .. c : i \in 1 .. Len(s)  BY <1>1
  <2>3. QED  BY <1>0, <1>1, <1>2, <1>3, <2>1, <2>2
<1>5. Cardinality(1 .. c) = c  BY <1>1, FS_Interval
<1>6. c + 1 \in 1 .. Len(s) + 1  BY <1>1
<1>7. u = InsertAt(s, c + 1, x)  BY <1>0, <1>4, <1>5
<1>8. /\ u \in Seq(AnySegment) /\ DOMAIN u = 1 .. Len(s) + 1
      /\ \A j \in 1 .. Len(s) + 1 :
           /\ j < c + 1 => u[j] = s[j]
           /\ j = c + 1 => u[j] = x
           /\ j > c + 1 => u[j] = s[j - 1]
  <2>1. PICK i \in 1 .. Len(s) + 1 : i = c + 1  BY <1>6
  <2>2. u = InsertAt(s, i, x)  BY <1>7, <2>1
  <2>3. /\ u \in Seq(AnySegment) /\ DOMAIN u = 1 .. Len(s) + 1
        /\ \A j \in 1 .. Len(s) + 1 :
             (j < i => u[j] = s[j]) /\ (j = i => u[j] = x) /\ (j > i => u[j] = s[j - 1])
    <3>1. Grows(AnySegment, s, i, x)  BY Inserted, Zenon
    <3>2. QED  BY <2>2, <3>1 DEF Grows
  <2>4. QED  BY <2>1, <2>3
<1>9. /\ \A j \in 1 .. c : u[j] = s[j] /\ j \in DOMAIN u
      /\ u[c + 1] = x /\ c + 1 \in DOMAIN u
      /\ \A j \in c + 1 .. Len(s) : u[j + 1] = s[j] /\ j + 1 \in DOMAIN u
      /\ \A j \in DOMAIN u : j \in 1 .. c \/ j = c + 1 \/ (j - 1 \in c + 1 .. Len(s) /\ u[j] = s[j - 1])
  <2>1. \A j \in 1 .. c : j \in 1 .. Len(s) + 1 /\ j < c + 1  BY <1>1
  <2>2. \A j \in c + 1 .. Len(s) : j + 1 \in 1 .. Len(s) + 1 /\ j + 1 > c + 1 /\ (j + 1) - 1 = j
    BY <1>1
  <2>3. \A j \in 1 .. Len(s) + 1 : j \in 1 .. c \/ j = c + 1
            \/ (j - 1 \in c + 1 .. Len(s) /\ j > c + 1)
    BY <1>1
  <2>4. ~(c + 1 < c + 1)  BY <1>1
  <2>5. QED  BY <1>6, <1>8, <2>1, <2>2, <2>3, <2>4
<1>10. \A i \in DOMAIN s : i \in 1 .. c \/ i \in c + 1 .. Len(s)  BY <1>1
<1>11. \A i \in 1 .. c : i \in DOMAIN s  BY <1>1
<1>12. \A i \in c + 1 .. Len(s) : i \in DOMAIN s  BY <1>1
<1>13. ASSUME NEW i \in DOMAIN u, NEW j \in DOMAIN u, i < j  PROVE u[i].sn < u[j].sn
  <2>1. i \in 1 .. c /\ j \in 1 .. c => u[i].sn < u[j].sn
    BY <1>9, <1>11, <1>13 DEF Numbered
  <2>2. i \in 1 .. c /\ j = c + 1 => u[i].sn < u[j].sn  BY <1>3, <1>9
  <2>3. i \in 1 .. c /\ j - 1 \in c + 1 .. Len(s) /\ u[j] = s[j - 1] => u[i].sn < u[j].sn
    <3>1. SUFFICES ASSUME i \in 1 .. c, j - 1 \in c + 1 .. Len(s), u[j] = s[j - 1]
                   PROVE  u[i].sn < u[j].sn
      OBVIOUS
    <3>2. i < j - 1 /\ i \in DOMAIN s /\ j - 1 \in DOMAIN s  BY <1>1, <1>11, <1>12, <3>1
    <3>3. QED  BY <1>9, <3>1, <3>2 DEF Numbered
  <2>4. i = c + 1 /\ j - 1 \in c + 1 .. Len(s) /\ u[j] = s[j - 1] => u[i].sn < u[j].sn
    BY <1>3, <1>9
  <2>5. i - 1 \in c + 1 .. Len(s) /\ u[i] = s[i - 1] /\ j - 1 \in c + 1 .. Len(s) /\ u[j] = s[j - 1]
          => u[i].sn < u[j].sn
    <3>1. SUFFICES ASSUME i - 1 \in c + 1 .. Len(s), u[i] = s[i - 1],
                          j - 1 \in c + 1 .. Len(s), u[j] = s[j - 1]
                   PROVE  u[i].sn < u[j].sn
      OBVIOUS
    <3>2. i - 1 < j - 1 /\ i - 1 \in DOMAIN s /\ j - 1 \in DOMAIN s  BY <1>1, <1>8, <1>12, <1>13, <3>1
    <3>3. QED  BY <3>1, <3>2 DEF Numbered
  <2>6. /\ i \in 1 .. c \/ i = c + 1 \/ (i - 1 \in c + 1 .. Len(s) /\ u[i] = s[i - 1])
        /\ j \in 1 .. c \/ j = c + 1 \/ (j - 1 \in c + 1 .. Len(s) /\ u[j] = s[j - 1])
    BY <1>9
  <2>7. /\ i = c + 1 => j \notin 1 .. c /\ j # c + 1
        /\ i - 1 \in c + 1 .. Len(s) => j \notin 1 .. c /\ j # c + 1
    BY <1>1, <1>8, <1>13
  <2>8. QED  BY <2>1, <2>2, <2>3, <2>4, <2>5, <2>6, <2>7
<1>14. ASSUME NEW j \in DOMAIN u  PROVE u[j] = x \/ \E i \in DOMAIN s : u[j] = s[i]
  BY <1>9, <1>11, <1>12
<1>15. \A j \in DOMAIN u : lo <= u[j].sn /\ u[j].sn < hi /\ Genuine(u[j])
  BY <1>14 DEF Numbered
<1>16. Numbered(u, lo, hi)  BY <1>13, <1>15 DEF Numbered
<1>17. \A i \in DOMAIN s : \E j \in DOMAIN u : u[j] = s[i]  BY <1>9, <1>10
<1>19. \E j \in DOMAIN u : u[j] = x  BY <1>9
<1>20. \A j \in DOMAIN u : u[j] = x \/ \E i \in DOMAIN s : u[j] = s[i]  BY <1>14
<1>21. u \in Seq(AnySegment)  BY <1>8
<1>22. QED  BY <1>16, <1>17, <1>19, <1>20, <1>21 DEF Filed

\* ikcp_send puts the segments of the next frame at the end of snd_queue.
LEMMA SentFrame ==
  ASSUME NEW k \in Blocks, NEW n \in Nat, Sends(k, n), NEW r, r = Send(k, Frame(n + 1))
  PROVE  /\ r \in Blocks /\ Sends(r, n + 1) /\ SameReceiver(k, r)
         /\ r.snd_nxt = k.snd_nxt /\ Unacknowledged(r) = Unacknowledged(k)
<1>1. PICK f : f = Fragments(Frame(n + 1))  OBVIOUS
<1>2. PICK p \in Nat \ {0} : p = PerFrame  BY Fragmented
<1>3. f \in Seq(AnyChunk) /\ Len(f) = p /\ DOMAIN f = 1 .. p
  <2>1. n + 1 \in Nat  OBVIOUS
  <2>2. f \in Seq(AnyChunk) /\ Len(f) = PerFrame  BY <1>1, <2>1, FragmentsOf, Zenon
  <2>3. QED  BY <1>2, <2>2, LenProperties
<1>4. PICK a \in Nat : a = p * n /\ p * (n + 1) = a + p
  <2>1. 1 \in 1 .. p  OBVIOUS
  <2>2. QED  BY <2>1, Quotient
<1>5. Consecutive(f, a)
  <2>1. ASSUME NEW i \in 1 .. p  PROVE f[i] = Carried(a + i - 1)
    <3>1. Carried(PerFrame * n + i - 1) = Fragments(Frame(n + 1))[i]  BY <1>2, CarriedIs
    <3>2. QED  BY <1>1, <1>2, <1>4, <3>1
  <2>2. QED  BY <1>3, <2>1 DEF Consecutive
<1>6. k.snd_nxt + Len(k.snd_queue) = a  BY <1>2, <1>4 DEF Sends
<1>7. PICK q : q = k.snd_queue \o f  OBVIOUS
<1>8. Consecutive(q, k.snd_nxt) /\ q \in Seq(AnyChunk) /\ Len(q) = Len(k.snd_queue) + p
  <2>1. Consecutive(k.snd_queue, k.snd_nxt)  BY DEF Sends
  <2>2. k.snd_queue \in Seq(AnyChunk) /\ k.snd_nxt \in Nat  BY Fields
  <2>3. Consecutive(f, k.snd_nxt + Len(k.snd_queue))  BY <1>5, <1>6
  <2>4. QED  BY <1>3, <1>7, <2>1, <2>2, <2>3, ConsecutiveMore
<1>9. r = [k EXCEPT !.snd_queue = q]  BY <1>1, <1>7 DEF Send
<1>10. r \in Blocks /\ r.snd_queue = q /\ r.snd_buf = k.snd_buf /\ r.snd_una = k.snd_una
       /\ r.snd_nxt = k.snd_nxt /\ SameReceiver(k, r)
  BY <1>8, <1>9 DEF Blocks, SameReceiver
<1>11. r.snd_nxt + Len(r.snd_queue) = PerFrame * (n + 1)
  <2>1. k.snd_nxt \in Nat /\ Len(k.snd_queue) \in Nat  BY Fields
  <2>2. QED  BY <1>2, <1>4, <1>6, <1>8, <1>10, <2>1
<1>12. Sends(r, n + 1)  BY <1>8, <1>10, <1>11 DEF Sends
<1>13. QED  BY <1>10, <1>12 DEF Unacknowledged

\* ikcp_shrink_buf, once some segments have left snd_buf
LEMMA Trimmed ==
  ASSUME NEW k \in Blocks, NEW n, Sends(k, n), NEW t \in Seq(AnySegment),
         Numbered(t, k.snd_una, k.snd_nxt), NEW r, r = Shrink([k EXCEPT !.snd_buf = t])
  PROVE  /\ r \in Blocks /\ Sends(r, n) /\ SameReceiver(k, r)
         /\ r.snd_nxt = k.snd_nxt /\ r.snd_buf = t
<1>1. PICK una : una = IF t # <<>> THEN Head(t).sn ELSE k.snd_nxt  OBVIOUS
<1>2. r = [k EXCEPT !.snd_buf = t, !.snd_una = una]  BY <1>1 DEF Shrink, Blocks
<1>3. Len(t) \in Nat /\ DOMAIN t = 1 .. Len(t) /\ \A i \in DOMAIN t : t[i].sn \in Nat
  <2>1. Len(t) \in Nat /\ DOMAIN t = 1 .. Len(t)  BY LenProperties
  <2>2. \A i \in 1 .. Len(t) : t[i] \in AnySegment  BY ElementOfSeq
  <2>3. QED  BY <2>1, <2>2 DEF AnySegment
<1>4. /\ una \in Nat /\ k.snd_una <= una /\ una <= k.snd_nxt
      /\ \A i \in DOMAIN t : una <= t[i].sn
  <2>1. k.snd_una \in Nat /\ k.snd_nxt \in Nat /\ k.snd_una <= k.snd_nxt  BY Fields DEF Sends
  <2>2. CASE t = <<>>
    <3>1. DOMAIN t = {}  BY <1>3, <2>2
    <3>2. QED  BY <1>1, <2>1, <2>2, <3>1
  <2>3. CASE t # <<>>
    <3>1. Len(t) # 0  BY <2>3, EmptySeq
    <3>2. 1 \in DOMAIN t /\ una = t[1].sn  BY <1>1, <1>3, <2>3, <3>1
    <3>3. \A i \in DOMAIN t : i = 1 \/ 1 < i  BY <1>3
    <3>4. \A i \in DOMAIN t : i = 1 \/ t[1].sn < t[i].sn  BY <3>2, <3>3 DEF Numbered
    <3>5. k.snd_una <= una /\ una < k.snd_nxt  BY <3>2 DEF Numbered
    <3>6. QED  BY <1>3, <2>1, <3>2, <3>4, <3>5
  <2>4. QED  BY <2>2, <2>3
<1>5. /\ r \in Blocks /\ SameReceiver(k, r) /\ r.snd_nxt = k.snd_nxt /\ r.snd_buf = t
      /\ r.snd_una = una /\ r.snd_queue = k.snd_queue
  BY <1>2, <1>4 DEF Blocks, SameReceiver
<1>6. Numbered(t, una, k.snd_nxt)  BY <1>4 DEF Numbered
<1>7. k.snd_nxt - una <= SndWnd
  <2>1. SndWnd \in Nat  BY IkcpAssumption DEF IkcpAssumption
  <2>2. k.snd_una \in Nat /\ k.snd_nxt \in Nat  BY Fields
  <2>3. QED  BY <1>4, <2>1, <2>2 DEF Sends
<1>8. QED  BY <1>4, <1>5, <1>6, <1>7 DEF Sends

\* An acknowledgement of everything below una: only that leaves snd_buf.
LEMMA UnaParsed ==
  ASSUME NEW k \in Blocks, NEW n, Sends(k, n), NEW una \in Nat, NEW r, r = ParseUna(k, una)
  PROVE  /\ r \in Blocks /\ Sends(r, n) /\ SameReceiver(k, r) /\ r.snd_nxt = k.snd_nxt
         /\ \A sn \in Unacknowledged(k) : sn < una \/ sn \in Unacknowledged(r)
<1>1. PICK s : s = k.snd_buf  OBVIOUS
<1>2. s \in Seq(AnySegment) /\ Len(s) \in Nat /\ DOMAIN s = 1 .. Len(s)
      /\ \A i \in DOMAIN s : s[i].sn \in Nat
  BY <1>1, Fields
<1> DEFINE N == {i \in 0 .. Len(s) : \A j \in 1 .. i : ~StillOut(s[j].sn, una)}
<1>3. PICK c : c = Max(N)  OBVIOUS
<1>4. c \in 0 .. Len(s) /\ \A j \in 1 .. c : ~StillOut(s[j].sn, una)
  <2>1. 0 \in N /\ N \in SUBSET (0 .. Len(s))  BY <1>2
  <2>2. c \in N
    <3> HIDE DEF N
    <3>1. QED  BY <1>2, <1>3, <2>1, Most
  <2>3. QED  BY <2>2
<1>5. PICK t : t = SubSeq(s, c + 1, Len(s))  OBVIOUS
<1>6. r = Shrink([k EXCEPT !.snd_buf = t])  BY <1>1, <1>3, <1>5 DEF ParseUna
<1>7. /\ t \in Seq(AnySegment) /\ DOMAIN t = 1 .. Len(s) - c
      /\ \A i \in 1 .. Len(s) - c : t[i] = s[c + i] /\ c + i \in 1 .. Len(s)
  BY <1>2, <1>4, <1>5, Rest
<1>8. Numbered(t, k.snd_una, k.snd_nxt)
  <2>1. PICK g : g = [i \in DOMAIN t |-> c + i]  OBVIOUS
  <2>2. g \in [DOMAIN t -> DOMAIN s]  BY <1>2, <1>7, <2>1
  <2>3. \A i \in DOMAIN t : t[i] = s[g[i]]  BY <1>7, <2>1
  <2>4. \A i, j \in DOMAIN t : i < j => g[i] < g[j]  BY <1>4, <1>7, <2>1
  <2>5. Numbered(s, k.snd_una, k.snd_nxt)  BY <1>1 DEF Sends
  <2>6. QED  BY <2>2, <2>3, <2>4, <2>5, NumberedPart
<1>9. r \in Blocks /\ Sends(r, n) /\ SameReceiver(k, r) /\ r.snd_nxt = k.snd_nxt /\ r.snd_buf = t
  BY <1>6, <1>7, <1>8, Trimmed
<1>10. ASSUME NEW i \in DOMAIN s  PROVE s[i].sn < una \/ \E j \in DOMAIN t : t[j].sn = s[i].sn
  <2>1. CASE i <= c
    <3>1. i \in 1 .. c /\ s[i].sn \in Nat  BY <1>2, <1>4, <2>1
    <3>2. QED  BY <1>4, <3>1 DEF StillOut
  <2>2. CASE i > c
    <3>1. i - c \in 1 .. Len(s) - c /\ c + (i - c) = i  BY <1>2, <1>4, <2>2
    <3>2. QED  BY <1>7, <3>1
  <2>3. QED  BY <1>2, <1>4, <2>1, <2>2
<1>11. QED  BY <1>1, <1>9, <1>10 DEF Unacknowledged

\* An acknowledgement of segment sn: only that leaves snd_buf.
LEMMA AckParsed ==
  ASSUME NEW k \in Blocks, NEW n, Sends(k, n), NEW sn \in Nat, NEW r, r = ParseAck(k, sn)
  PROVE  /\ r \in Blocks /\ Sends(r, n) /\ SameReceiver(k, r) /\ r.snd_nxt = k.snd_nxt
         /\ \A x \in Unacknowledged(k) : x = sn \/ x \in Unacknowledged(r)
<1>1. PICK s : s = k.snd_buf  OBVIOUS
<1>2. s \in Seq(AnySegment) /\ Len(s) \in Nat /\ DOMAIN s = 1 .. Len(s)
      /\ \A i \in DOMAIN s : s[i].sn \in Nat
  BY <1>1, Fields
<1>3. Numbered(s, k.snd_una, k.snd_nxt)  BY <1>1 DEF Sends
<1> DEFINE I == {i \in 1 .. Len(s) : s[i].sn = sn}
<1>4. PICK t : t = RemoveFirstMatch(s, LAMBDA x : x.sn = sn)  OBVIOUS
<1>5. t = IF I # {} THEN RemoveAt(s, Min(I)) ELSE s
  BY <1>4 DEF RemoveFirstMatch, SelectInSeq
<1>6. r = Shrink([k EXCEPT !.snd_buf = t])  BY <1>1, <1>4 DEF ParseAck
<1>7. CASE I = {}
  <2>1. t = s  BY <1>5, <1>7
  <2>2. r \in Blocks /\ Sends(r, n) /\ SameReceiver(k, r) /\ r.snd_nxt = k.snd_nxt /\ r.snd_buf = t
    BY <1>2, <1>3, <1>6, <2>1, Trimmed
  <2>3. QED  BY <1>1, <2>1, <2>2 DEF Unacknowledged
<1>8. CASE I # {}
  <2>1. PICK c : c = Min(I)  OBVIOUS
  <2>2. c \in 1 .. Len(s) /\ s[c].sn = sn
    <3>1. I \in SUBSET Nat  OBVIOUS
    <3>2. c \in I
      <4> HIDE DEF I
      <4>1. \E m \in I : \A x \in I : m <= x  BY <1>8, <3>1, Least
      <4>2. QED  BY <2>1, <4>1, Zenon DEF Min
    <3>3. QED  BY <3>2
  <2>3. Shrinks(AnySegment, s, c) /\ t = RemoveAt(s, c)
    <3>1. Shrinks(AnySegment, s, c)  BY <1>2, <2>2, Removed, Zenon
    <3>2. QED  BY <1>5, <1>8, <2>1, <3>1
  <2>4. /\ t \in Seq(AnySegment) /\ DOMAIN t = 1 .. Len(s) - 1
        /\ \A j \in 1 .. Len(s) - 1 : (j < c => t[j] = s[j]) /\ (j >= c => t[j] = s[j + 1])
    BY <2>3 DEF Shrinks
  <2>5. Numbered(t, k.snd_una, k.snd_nxt)
    <3>1. PICK g : g = [i \in DOMAIN t |-> IF i < c THEN i ELSE i + 1]  OBVIOUS
    <3>2. g \in [DOMAIN t -> DOMAIN s]  BY <1>2, <2>2, <2>4, <3>1
    <3>3. \A i \in DOMAIN t : t[i] = s[g[i]]  BY <2>2, <2>4, <3>1
    <3>4. \A i, j \in DOMAIN t : i < j => g[i] < g[j]  BY <2>2, <2>4, <3>1
    <3>5. QED  BY <1>3, <3>2, <3>3, <3>4, NumberedPart
  <2>6. r \in Blocks /\ Sends(r, n) /\ SameReceiver(k, r) /\ r.snd_nxt = k.snd_nxt /\ r.snd_buf = t
    BY <1>6, <2>4, <2>5, Trimmed
  <2>7. ASSUME NEW i \in DOMAIN s  PROVE s[i].sn = sn \/ \E j \in DOMAIN t : t[j].sn = s[i].sn
    <3>1. CASE i = c  BY <2>2, <3>1
    <3>2. CASE i < c
      <4>1. i \in 1 .. Len(s) - 1  BY <1>2, <2>2, <3>2
      <4>2. QED  BY <2>4, <3>2, <4>1
    <3>3. CASE i > c
      <4>1. i - 1 \in 1 .. Len(s) - 1 /\ i - 1 >= c /\ (i - 1) + 1 = i  BY <1>2, <2>2, <3>3
      <4>2. QED  BY <2>4, <4>1
    <3>4. QED  BY <1>2, <2>2, <3>1, <3>2, <3>3
  <2>8. QED  BY <1>1, <2>6, <2>7 DEF Unacknowledged
<1>9. QED  BY <1>7, <1>8

\* A PUSH: its number is known from now on, and no other is forgotten.
LEMMA PushParsed ==
  ASSUME NEW k \in Blocks, NEW nxt \in Nat, NEW m \in Nat, Receives(k, nxt, m),
         NEW seg \in AnyPacket, seg.sn < nxt, Genuine(seg), NEW r, r = ParsePush(k, seg)
  PROVE  /\ r \in Blocks /\ Receives(r, nxt, m) /\ SameSender(k, r)
         /\ k.rcv_nxt <= r.rcv_nxt /\ Received(k) \subseteq Received(r)
<1>1. k.rcv_nxt \in Nat /\ seg.sn \in Nat /\ RcvWnd \in Nat
  BY Fields, IkcpAssumption DEF AnyPacket, IkcpAssumption
<1>2. PICK acked : acked = [k EXCEPT !.acks = Append(@, seg.sn)]  OBVIOUS
<1>3. /\ acked \in Blocks /\ SameSender(k, acked) /\ Received(acked) = Received(k)
      /\ acked.rcv_buf = k.rcv_buf /\ acked.rcv_nxt = k.rcv_nxt /\ acked.rcv_queue = k.rcv_queue
      /\ ToSet(acked.acks) = ToSet(k.acks) \cup {seg.sn}
  <2>1. PICK a : a = Append(k.acks, seg.sn)  OBVIOUS
  <2>2. a \in Seq(Nat) /\ ToSet(a) = ToSet(k.acks) \cup {seg.sn}
    <3>1. k.acks \in Seq(Nat)  BY Fields
    <3>2. a = k.acks \o <<seg.sn>> /\ <<seg.sn>> \in Seq(Nat)
      <4>1. <<seg.sn>> \in Seq(Nat)  BY <1>1
      <4>2. a = k.acks \o <<seg.sn>>  BY <1>1, <2>1, <3>1, AppendIsConcat
      <4>3. QED  BY <4>1, <4>2
    <3>3. ToSet(<<seg.sn>>) = {seg.sn}  BY DEF ToSet
    <3>4. a \in Seq(Nat)  BY <1>1, <2>1, <3>1
    <3>5. ToSet(a) = ToSet(k.acks) \cup ToSet(<<seg.sn>>)
      <4>1. PICK s, t : s = k.acks /\ t = <<seg.sn>>  OBVIOUS
      <4>2. s \in Seq(Nat) /\ t \in Seq(Nat) /\ a = s \o t  BY <3>1, <3>2, <4>1
      <4>3. ToSet(s \o t) = ToSet(s) \cup ToSet(t)  BY <4>2, InJoined
      <4>4. QED  BY <4>1, <4>2, <4>3
    <3>6. QED  BY <3>3, <3>4, <3>5
  <2>3. acked = [k EXCEPT !.acks = a]  BY <1>2, <2>1
  <2>4. QED  BY <2>2, <2>3 DEF Blocks, SameSender, Received
<1>4. seg.sn \in Received(k) => Receives(acked, nxt, m)  BY <1>3 DEF Receives
<1>5. CASE seg.sn >= k.rcv_nxt + RcvWnd
  <2>1. r = k  BY <1>5 DEF ParsePush
  <2>2. QED  BY <1>1, <2>1 DEF SameSender
<1>6. CASE ~(seg.sn >= k.rcv_nxt + RcvWnd) /\ seg.sn < k.rcv_nxt
  <2>1. r = acked  BY <1>2, <1>6 DEF ParsePush
  <2>2. seg.sn \in Received(k)  BY <1>1, <1>6 DEF Received
  <2>3. QED  BY <1>1, <1>3, <1>4, <2>1, <2>2
<1>7. CASE ~(seg.sn >= k.rcv_nxt + RcvWnd) /\ ~(seg.sn < k.rcv_nxt)
  <2>1. PICK mid : /\ r = MoveReady(mid)
                   /\ mid \in Blocks /\ Receives(mid, nxt, m) /\ SameSender(k, mid)
                   /\ mid.rcv_nxt = k.rcv_nxt /\ Received(k) \subseteq Received(mid)
    <3>1. CASE \E i \in DOMAIN k.rcv_buf : k.rcv_buf[i].sn = seg.sn
      <4>1. r = MoveReady(acked)  BY <1>2, <1>7, <3>1 DEF ParsePush
      <4>2. seg.sn \in Received(k)  BY <1>1, <3>1 DEF Received
      <4>3. QED  BY <1>3, <1>4, <4>1, <4>2
    <3>2. CASE ~\E i \in DOMAIN k.rcv_buf : k.rcv_buf[i].sn = seg.sn
      <4>1. PICK x : x = [sn |-> seg.sn, frg |-> seg.frg, data |-> seg.data]  OBVIOUS
      <4>2. x \in AnySegment /\ Genuine(x) /\ x.sn = seg.sn  BY <4>1 DEF AnySegment, AnyPacket, Genuine
      <4>3. PICK b : b = {i \in DOMAIN k.rcv_buf : k.rcv_buf[i].sn < seg.sn}  OBVIOUS
      <4>4. PICK u : u = InsertAt(k.rcv_buf, Cardinality(b) + 1, x)  OBVIOUS
      <4>5. PICK mid : mid = [acked EXCEPT !.rcv_buf = u]  OBVIOUS
      <4>6. r = MoveReady(mid)  BY <1>2, <1>7, <3>2, <4>1, <4>3, <4>4, <4>5 DEF ParsePush
      <4>7. /\ u \in Seq(AnySegment) /\ Numbered(u, k.rcv_nxt, nxt)
            /\ \A i \in DOMAIN k.rcv_buf : \E j \in DOMAIN u : u[j] = k.rcv_buf[i]
            /\ \E j \in DOMAIN u : u[j] = x
            /\ \A j \in DOMAIN u : u[j] = x \/ \E i \in DOMAIN k.rcv_buf : u[j] = k.rcv_buf[i]
        <5>1. PICK s : s = k.rcv_buf  OBVIOUS
        <5>2. s \in Seq(AnySegment) /\ Numbered(s, k.rcv_nxt, nxt)  BY <5>1, Fields DEF Receives
        <5>3. k.rcv_nxt <= x.sn /\ x.sn < nxt  BY <1>1, <1>7, <4>2
        <5>4. \A i \in DOMAIN s : s[i].sn # x.sn  BY <3>2, <4>2, <5>1
        <5>5. b = {i \in DOMAIN s : s[i].sn < x.sn}  BY <4>2, <4>3, <5>1
        <5>6. u = InsertAt(s, Cardinality({i \in DOMAIN s : s[i].sn < x.sn}) + 1, x)  BY <4>4, <5>1, <5>5
        <5>7. /\ u \in Seq(AnySegment) /\ Numbered(u, k.rcv_nxt, nxt)
              /\ \A i \in DOMAIN s : \E j \in DOMAIN u : u[j] = s[i]
              /\ \E j \in DOMAIN u : u[j] = x
              /\ \A j \in DOMAIN u : u[j] = x \/ \E i \in DOMAIN s : u[j] = s[i]
          <6>1. PICK lo : lo = k.rcv_nxt  OBVIOUS
          <6>2. /\ lo \in Nat /\ s \in Seq(AnySegment) /\ Numbered(s, lo, nxt) /\ x \in AnySegment
                /\ Genuine(x) /\ lo <= x.sn
            BY <1>1, <4>2, <5>2, <5>3, <6>1
          <6>3. Filed(s, u, x, lo, nxt)  BY <5>3, <5>4, <5>6, <6>2, Kept, Zenon
          <6>4. QED  BY <6>1, <6>3 DEF Filed
        <5>8. QED  BY <5>1, <5>7
      <4>8. /\ mid \in Blocks /\ SameSender(k, mid) /\ mid.rcv_nxt = k.rcv_nxt
            /\ mid.rcv_buf = u /\ mid.rcv_queue = k.rcv_queue /\ mid.acks = acked.acks
        BY <1>3, <4>5, <4>7 DEF Blocks, SameSender
      <4>9. Received(k) \subseteq Received(mid) /\ seg.sn \in Received(mid)
        <5>1. \A i \in DOMAIN k.rcv_buf : \E j \in DOMAIN u : u[j].sn = k.rcv_buf[i].sn  BY <4>7
        <5>2. \E j \in DOMAIN u : u[j].sn = seg.sn  BY <4>2, <4>7
        <5>3. QED  BY <1>1, <4>8, <5>1, <5>2 DEF Received
      <4>10. \A j \in DOMAIN u : u[j].sn < k.rcv_nxt + RcvWnd
        <5>1. x.sn < k.rcv_nxt + RcvWnd  BY <1>1, <1>7, <4>2
        <5>2. \A i \in DOMAIN k.rcv_buf : k.rcv_buf[i].sn < k.rcv_nxt + RcvWnd  BY DEF Receives
        <5>3. QED  BY <4>7, <5>1, <5>2
      <4>11. ToSet(mid.acks) \subseteq Received(mid)  BY <1>3, <4>8, <4>9 DEF Receives
      <4>12. Receives(mid, nxt, m)  BY <4>7, <4>8, <4>10, <4>11 DEF Receives
      <4>13. QED  BY <4>6, <4>8, <4>9, <4>12
    <3>3. QED  BY <3>1, <3>2
  <2>2. /\ r \in Blocks /\ Receives(r, nxt, m) /\ SameSender(mid, r)
        /\ mid.rcv_nxt <= r.rcv_nxt /\ Received(mid) \subseteq Received(r)
    BY <2>1, MovedReady
  <2>3. QED  BY <2>1, <2>2 DEF SameSender
<1>8. QED  BY <1>5, <1>6, <1>7

-----------------------------------------------------------------------------
(* ikcp_input                                                                 *)

\* What input may make of control block k, which was given n frames and gave out m, when
\* the other board's is l
Heard(k, n, l, m) ==
  {x \in Blocks : /\ Sends(x, n) /\ Receives(x, l.snd_nxt, m) /\ Remembers(x, l)
                  /\ x.snd_nxt = k.snd_nxt
                  /\ k.rcv_nxt <= x.rcv_nxt /\ Received(k) \subseteq Received(x)}

LEMMA HeardOnce ==
  ASSUME NEW k \in Blocks, NEW l \in Blocks, NEW n \in Nat, NEW m \in Nat,
         NEW x \in Heard(k, n, l, m), NEW seg \in Packets(l)
  PROVE  InputSegment(x, seg) \in Heard(k, n, l, m)
<1>1. /\ x \in Blocks /\ Sends(x, n) /\ Receives(x, l.snd_nxt, m) /\ Remembers(x, l)
      /\ x.snd_nxt = k.snd_nxt /\ k.rcv_nxt <= x.rcv_nxt /\ Received(k) \subseteq Received(x)
  BY DEF Heard
<1>2. /\ seg \in AnyPacket /\ seg.una <= l.rcv_nxt
      /\ seg.cmd = "PUSH" => seg.sn < l.snd_nxt /\ Genuine(seg)
      /\ seg.cmd = "ACK" => seg.sn \in Received(l)
  BY DEF Packets
<1>3. /\ seg.una \in Nat /\ seg.sn \in Nat /\ seg.wnd \in Nat
      /\ seg.cmd \in {"PUSH", "ACK", "WASK", "WINS"}
  BY <1>2 DEF AnyPacket
<1>4. /\ l.rcv_nxt \in Nat /\ l.snd_nxt \in Nat /\ k.rcv_nxt \in Nat /\ x.rcv_nxt \in Nat
      /\ x.snd_nxt \in Nat
  BY <1>1, Fields
<1>5. PICK y : y = [x EXCEPT !.rmt_wnd = seg.wnd]  OBVIOUS
<1>6. y \in Blocks /\ SameSender(x, y) /\ SameReceiver(x, y)
  BY <1>1, <1>3, <1>5 DEF Blocks, SameSender, SameReceiver
<1>7. /\ Sends(y, n) /\ Unacknowledged(y) = Unacknowledged(x) /\ y.snd_nxt = x.snd_nxt
      /\ y.rcv_nxt = x.rcv_nxt
  BY <1>1, <1>6, SameSends DEF SameSender, SameReceiver
<1>8. PICK h : h = ParseUna(y, seg.una)  OBVIOUS
<1>9. /\ h \in Blocks /\ Sends(h, n) /\ SameReceiver(y, h) /\ h.snd_nxt = y.snd_nxt
      /\ \A sn \in Unacknowledged(y) : sn < seg.una \/ sn \in Unacknowledged(h)
  BY <1>3, <1>6, <1>7, <1>8, UnaParsed
<1>10. SameReceiver(x, h)  BY <1>6, <1>9 DEF SameReceiver
<1>11. /\ Receives(h, l.snd_nxt, m) /\ Received(h) = Received(x) /\ h.rcv_nxt = x.rcv_nxt
       /\ h.snd_nxt = k.snd_nxt
  BY <1>1, <1>7, <1>9, <1>10, SameReceives DEF SameReceiver
<1>12. Remembers(h, l)
  <2> SUFFICES ASSUME NEW sn \in 0 .. h.snd_nxt - 1
               PROVE  sn \in Unacknowledged(h) \cup Received(l)
    BY DEF Remembers
  <2>1. sn \in Unacknowledged(x) \cup Received(l)  BY <1>1, <1>11 DEF Remembers
  <2>2. sn < seg.una => sn \in Received(l)  BY <1>2, <1>3, <1>4 DEF Received
  <2>3. QED  BY <1>7, <1>9, <2>1, <2>2
<1>13. h \in Heard(k, n, l, m)  BY <1>1, <1>9, <1>11, <1>12 DEF Heard
<1>14. CASE seg.cmd = "PUSH"
  <2>1. PICK r : r = ParsePush(h, seg)  OBVIOUS
  <2>2. InputSegment(x, seg) = r  BY <1>5, <1>8, <1>14, <2>1 DEF InputSegment
  <2>3. /\ r \in Blocks /\ Receives(r, l.snd_nxt, m) /\ SameSender(h, r)
        /\ h.rcv_nxt <= r.rcv_nxt /\ Received(h) \subseteq Received(r)
    BY <1>2, <1>4, <1>9, <1>11, <1>14, <2>1, PushParsed
  <2>4. Sends(r, n) /\ Unacknowledged(r) = Unacknowledged(h) /\ r.snd_nxt = h.snd_nxt
    BY <1>9, <2>3, SameSends DEF SameSender
  <2>5. Remembers(r, l)  BY <1>12, <2>4 DEF Remembers
  <2>6. k.rcv_nxt <= r.rcv_nxt
    <3>1. r.rcv_nxt \in Nat  BY <2>3, Fields
    <3>2. QED  BY <1>1, <1>4, <1>11, <2>3, <3>1
  <2>7. r \in Heard(k, n, l, m)  BY <1>1, <1>11, <2>3, <2>4, <2>5, <2>6 DEF Heard
  <2>8. QED  BY <2>2, <2>7
<1>15. CASE seg.cmd = "ACK"
  <2>1. PICK r : r = ParseAck(h, seg.sn)  OBVIOUS
  <2>2. InputSegment(x, seg) = r  BY <1>5, <1>8, <1>15, <2>1 DEF InputSegment
  <2>3. /\ r \in Blocks /\ Sends(r, n) /\ SameReceiver(h, r) /\ r.snd_nxt = h.snd_nxt
        /\ \A sn \in Unacknowledged(h) : sn = seg.sn \/ sn \in Unacknowledged(r)
    <3>1. PICK no \in Nat : no = seg.sn  BY <1>3
    <3>2. /\ r \in Blocks /\ Sends(r, n) /\ SameReceiver(h, r) /\ r.snd_nxt = h.snd_nxt
          /\ \A sn \in Unacknowledged(h) : sn = no \/ sn \in Unacknowledged(r)
      BY <1>9, <2>1, <3>1, AckParsed
    <3>3. QED  BY <3>1, <3>2
  <2>4. Receives(r, l.snd_nxt, m) /\ Received(r) = Received(h) /\ r.rcv_nxt = h.rcv_nxt
    BY <1>11, <2>3, SameReceives DEF SameReceiver
  <2>5. Remembers(r, l)  BY <1>2, <1>12, <1>15, <2>3 DEF Remembers
  <2>6. r \in Heard(k, n, l, m)  BY <1>1, <1>11, <2>3, <2>4, <2>5 DEF Heard
  <2>7. QED  BY <2>2, <2>6
<1>16. CASE seg.cmd = "WASK"
  <2>1. PICK r : r = [h EXCEPT !.tell = TRUE]  OBVIOUS
  <2>2. InputSegment(x, seg) = r  BY <1>5, <1>8, <1>16, <2>1 DEF InputSegment
  <2>3. r \in Blocks /\ SameSender(h, r) /\ SameReceiver(h, r)
    BY <1>9, <2>1 DEF Blocks, SameSender, SameReceiver
  <2>4. Sends(r, n) /\ Unacknowledged(r) = Unacknowledged(h) /\ r.snd_nxt = h.snd_nxt
    BY <1>9, <2>3, SameSends DEF SameSender
  <2>5. Receives(r, l.snd_nxt, m) /\ Received(r) = Received(h) /\ r.rcv_nxt = h.rcv_nxt
    BY <1>11, <2>3, SameReceives DEF SameReceiver
  <2>6. Remembers(r, l)  BY <1>12, <2>4 DEF Remembers
  <2>7. r \in Heard(k, n, l, m)  BY <1>1, <1>11, <2>3, <2>4, <2>5, <2>6 DEF Heard
  <2>8. QED  BY <2>2, <2>7
<1>17. CASE seg.cmd = "WINS"
  <2>1. InputSegment(x, seg) = h  BY <1>5, <1>8, <1>17 DEF InputSegment
  <2>2. QED  BY <1>13, <2>1
<1>18. QED  BY <1>3, <1>14, <1>15, <1>16, <1>17

\* The datagrams that have arrived, one after the other
LEMMA FoldInput ==
  ASSUME NEW S, NEW A, NEW k \in S, NEW q \in Seq(A),
         \A x \in S, a \in A : Input(x, a) \in S
  PROVE  FoldLeft(Input, k, q) \in S
<1> DEFINE F == [x \in S |-> [a \in A |-> Input(x, a)]]
           Is(g) == g = [s \in SUBSET (1 .. Len(q)) |->
                          IF s = {} THEN k ELSE Input(g[s \ {Max(s)}], q[Max(s)])]
           f == CHOOSE g : Is(g)
<1>1. \A x \in S, a \in A : F[x][a] = Input(x, a)  OBVIOUS
<1>2. F \in [S -> [A -> S]]  OBVIOUS
<1>3. Len(q) \in Nat /\ DOMAIN q = 1 .. Len(q) /\ \A i \in 1 .. Len(q) : q[i] \in A
  BY LenProperties, ElementOfSeq
<1>4. PICK g : Folds(g, S, F, k, q, Len(q))
  <2> HIDE DEF F
  <2>1. Len(q) \in Nat /\ Len(q) <= Len(q)  BY <1>3
  <2>2. QED  BY <1>2, <2>1, Folded, Zenon
<1>5. Is(g)
  <2>1. \A s \in SUBSET (1 .. Len(q)) : s # {} =>
          F[g[s \ {Max(s)}]][q[Max(s)]] = Input(g[s \ {Max(s)}], q[Max(s)])
    <3> HIDE DEF F
    <3> TAKE s \in SUBSET (1 .. Len(q))
    <3> HAVE s # {}
    <3>1. Max(s) \in 1 .. Len(q) /\ s \ {Max(s)} \in SUBSET (1 .. Len(q))  BY <1>3, Greatest
    <3>2. g[s \ {Max(s)}] \in S  BY <1>4, <3>1 DEF Folds
    <3>3. QED  BY <1>1, <1>3, <3>1, <3>2
  <2> HIDE DEF F
  <2>2. QED  BY <1>4, <2>1 DEF Folds
<1>6. Is(f)
  <2> HIDE DEF Is
  <2>1. QED  BY <1>5
<1>7. FoldLeft(Input, k, q) = f[DOMAIN q]  BY <1>3 DEF FoldLeft, MapThenFoldSet
<1>8. f[1 .. Len(q)] \in S
  <2> HIDE DEF f
  <2>1. f[{}] \in S  BY <1>6
  <2>2. ASSUME NEW s \in SUBSET (1 .. Len(q)), s # {}, f[s \ {Max(s)}] \in S
        PROVE  f[s] \in S
    <3>1. Max(s) \in 1 .. Len(q)  BY <1>3, <2>2, Greatest
    <3>2. f[s] = Input(f[s \ {Max(s)}], q[Max(s)])  BY <1>6, <2>2
    <3>3. q[Max(s)] \in A  BY <1>3, <3>1
    <3>4. QED  BY <2>2, <3>2, <3>3
  <2>3. QED  BY <1>3, <2>1, <2>2, StaysIn
<1>9. QED  BY <1>3, <1>7, <1>8

LEMMA AllHeard ==
  ASSUME NEW k \in Blocks, NEW l \in Blocks, NEW n \in Nat, NEW m \in Nat,
         k \in Heard(k, n, l, m), NEW q \in Seq(Seq(Packets(l)))
  PROVE  FoldLeft(Input, k, q) \in Heard(k, n, l, m)
<1>1. PICK S : S = Heard(k, n, l, m)  OBVIOUS
<1>2. PICK A : A = Packets(l)  OBVIOUS
<1>3. ASSUME NEW x \in S, NEW a \in Seq(A)  PROVE Input(x, a) \in S
  <2>1. \A y \in S, seg \in A : InputSegment(y, seg) \in S  BY <1>1, <1>2, HeardOnce
  <2>2. FoldLeft(InputSegment, x, a) \in S  BY <2>1, FoldInputSegment, Zenon
  <2>3. QED  BY <2>2 DEF Input
<1>4. PICK B : B = Seq(A)  OBVIOUS
<1>5. k \in S /\ q \in Seq(B) /\ \A x \in S, a \in B : Input(x, a) \in S  BY <1>1, <1>2, <1>3, <1>4
<1>6. FoldLeft(Input, k, q) \in S  BY <1>5, FoldInput, Zenon
<1>7. QED  BY <1>1, <1>6

-----------------------------------------------------------------------------
(* ikcp_recv                                                                  *)

\* The message at the head of rcv_queue is the next frame.
LEMMA MessageIs ==
  ASSUME NEW k \in Blocks, NEW nxt, NEW m \in Nat, Receives(k, nxt, m), MessageReady(k)
  PROVE  /\ Message(k) = Frame(m + 1) /\ Len(MessageSegments(k)) = PerFrame
         /\ PerFrame <= Len(k.rcv_queue)
<1>1. PICK p \in Nat \ {0} : p = PerFrame  BY Fragmented
<1>2. PICK q : q = k.rcv_queue  OBVIOUS
<1>3. q \in Seq(AnyChunk) /\ Len(q) \in Nat /\ DOMAIN q = 1 .. Len(q) /\ q # <<>>
  BY <1>2, Fields DEF MessageReady
<1>4. Len(q) # 0  BY <1>3, EmptySeq
<1>5. \A i \in DOMAIN q : q[i] = Carried(p * m + i - 1)  BY <1>1, <1>2 DEF Receives, Consecutive
<1>6. \A i \in 1 .. p : /\ Carried(p * m + i - 1) = Fragments(Frame(m + 1))[i]
                        /\ Carried(p * m + i - 1).frg = p - i
  BY <1>1, CarriedIs
<1>7. Head(q).frg = p - 1
  <2>1. 1 \in DOMAIN q /\ 1 \in 1 .. p /\ Head(q) = q[1]  BY <1>3, <1>4
  <2>2. q[1] = Carried(p * m + 1 - 1)  BY <1>5, <2>1
  <2>3. QED  BY <1>6, <2>1, <2>2
<1>8. p <= Len(q) /\ MessageSegments(k) = SubSeq(q, 1, p)
  BY <1>2, <1>3, <1>7 DEF MessageReady, MessageSegments
<1>9. PICK s : s = MessageSegments(k)  OBVIOUS
<1>10. Len(s) = p /\ DOMAIN s = 1 .. p /\ \A i \in 1 .. p : s[i] = q[i] /\ i \in DOMAIN q
  <2>1. \A i \in 1 .. p : i \in 1 .. Len(q)  BY <1>3, <1>8
  <2>2. \A i \in 1 .. p : q[i] \in AnyChunk  BY <1>3, <2>1, ElementOfSeq
  <2>3. 1 \in Int /\ p \in Int /\ 1 <= p /\ p - 1 + 1 = p  OBVIOUS
  <2>4. PICK t : t = SubSeq(q, 1, p)  OBVIOUS
  <2>5. /\ t \in Seq(AnyChunk) /\ Len(t) = IF 1 <= p THEN p - 1 + 1 ELSE 0
        /\ \A i \in 1 .. p - 1 + 1 : t[i] = q[1 + i - 1]
    BY <2>2, <2>3, <2>4, SubSeqProperties
  <2>6. Len(t) = p /\ \A i \in 1 .. p : t[i] = q[i]
    <3>1. \A i \in 1 .. p : 1 + i - 1 = i  OBVIOUS
    <3>2. QED  BY <2>3, <2>5, <3>1
  <2>7. DOMAIN t = 1 .. p  BY <2>5, <2>6, LenProperties
  <2>8. QED  BY <1>3, <1>8, <1>9, <2>1, <2>4, <2>6, <2>7
<1>11. PICK d : d = [i \in DOMAIN s |-> s[i].data]  OBVIOUS
<1>12. Message(k) = FlattenSeq(d)  BY <1>9, <1>11 DEF Message
<1>13. ASSUME NEW i \in 1 .. p
       PROVE  /\ d[i] = SubSeq(Frame(m + 1), (i - 1) * Mss + 1, Min({i * Mss, Parts}))
              /\ d[i] \in Seq(AnyPiece)
  <2>1. d[i] = s[i].data /\ s[i] = Fragments(Frame(m + 1))[i]
    <3>1. s[i] = q[i] /\ i \in DOMAIN q  BY <1>10
    <3>2. QED  BY <1>5, <1>6, <1>10, <1>11, <3>1
  <2>2. PICK f : f = Fragments(Frame(m + 1))  OBVIOUS
  <2>3. m + 1 \in Nat  OBVIOUS
  <2>4. /\ f \in Seq(AnyChunk) /\ Len(f) = PerFrame
        /\ \A j \in 1 .. PerFrame : f[j] =
             [frg |-> PerFrame - j,
              data |-> SubSeq(Frame(m + 1), (j - 1) * Mss + 1, Min({j * Mss, Parts}))]
    BY <2>2, <2>3, FragmentsOf, Zenon
  <2>5. PICK c : c = SubSeq(Frame(m + 1), (i - 1) * Mss + 1, Min({i * Mss, Parts}))  OBVIOUS
  <2>6. f[i] = [frg |-> PerFrame - i, data |-> c]  BY <1>1, <2>4, <2>5
  <2>7. f[i].data = c  BY <2>6
  <2>8. f[i] \in AnyChunk  BY <1>1, <2>4, ElementOfSeq
  <2>9. f[i].data \in Seq(AnyPiece)  BY <2>8 DEF AnyChunk
  <2>10. QED  BY <2>1, <2>2, <2>5, <2>7, <2>9
<1>14. Len(d) = p
  <2>1. d \in [1 .. p -> Seq(AnyPiece)]  BY <1>10, <1>11, <1>13
  <2>2. QED  BY <2>1, Listed
<1>15. FlattenSeq(d) = Frame(m + 1)
  <2>1. PICK n \in Nat : n = m + 1  OBVIOUS
  <2>2. \A i \in 1 .. PerFrame : d[i] = SubSeq(Frame(n), (i - 1) * Mss + 1, Min({i * Mss, Parts}))
    BY <1>1, <1>13, <2>1
  <2>3. Len(d) = PerFrame  BY <1>1, <1>14
  <2>4. FlattenSeq(d) = Frame(n)  BY <2>2, <2>3, WholeFrame, Zenon
  <2>5. QED  BY <2>1, <2>4
<1>16. QED  BY <1>1, <1>2, <1>8, <1>9, <1>10, <1>12, <1>15

\* Once it is taken, the frame after it is next.
LEMMA MessageTaken ==
  ASSUME NEW k \in Blocks, NEW nxt \in Nat, NEW m \in Nat, Receives(k, nxt, m), MessageReady(k),
         NEW r, r = Recv(k)
  PROVE  /\ r \in Blocks /\ Receives(r, nxt, m + 1) /\ SameSender(k, r)
         /\ k.rcv_nxt <= r.rcv_nxt /\ Received(k) \subseteq Received(r)
<1>1. PICK p \in Nat \ {0} : p = PerFrame  BY Fragmented
<1>2. PICK q : q = k.rcv_queue  OBVIOUS
<1>3. q \in Seq(AnyChunk) /\ Len(q) \in Nat /\ p <= Len(q) /\ Len(MessageSegments(k)) = p
  BY <1>1, <1>2, Fields, MessageIs
<1>4. PICK t : t = SubSeq(q, p + 1, Len(q))  OBVIOUS
<1>5. PICK y : y = [k EXCEPT !.rcv_queue = t]  OBVIOUS
<1>6. PICK a \in Nat : a = p * m /\ p * (m + 1) = a + p
  <2>1. 1 \in 1 .. p  OBVIOUS
  <2>2. QED  BY <2>1, Quotient
<1>7. t \in Seq(AnyChunk) /\ Len(t) = Len(q) - p /\ Consecutive(t, a + p)
  <2>1. p \in 0 .. Len(q)  BY <1>3
  <2>2. Consecutive(q, a)  BY <1>1, <1>2, <1>6 DEF Receives
  <2>3. t \in Seq(AnyChunk) /\ Len(t) = Len(q) - p  BY <1>3, <1>4, <2>1, Rest
  <2>4. Consecutive(t, a + p)  BY <1>3, <1>4, <2>1, <2>2, ConsecutiveLess
  <2>5. QED  BY <2>3, <2>4
<1>8. /\ y \in Blocks /\ SameSender(k, y) /\ Received(y) = Received(k)
      /\ y.rcv_queue = t /\ y.rcv_buf = k.rcv_buf /\ y.rcv_nxt = k.rcv_nxt /\ y.acks = k.acks
  BY <1>5, <1>7 DEF Blocks, SameSender, Received
<1>9. Receives(y, nxt, m + 1)
  <2>1. k.rcv_nxt = a + Len(q) /\ Len(q) <= RcvWnd  BY <1>1, <1>2, <1>6 DEF Receives
  <2>2. RcvWnd \in Nat  BY IkcpAssumption DEF IkcpAssumption
  <2>3. y.rcv_nxt = PerFrame * (m + 1) + Len(t)  BY <1>1, <1>3, <1>6, <1>7, <1>8, <2>1
  <2>4. Len(t) <= RcvWnd  BY <1>3, <1>7, <2>1, <2>2
  <2>5. Consecutive(t, PerFrame * (m + 1))  BY <1>1, <1>6, <1>7
  <2>6. QED  BY <1>8, <2>3, <2>4, <2>5 DEF Receives
<1>10. PICK z : z = MoveReady(y)  OBVIOUS
<1>11. /\ z \in Blocks /\ Receives(z, nxt, m + 1) /\ SameSender(y, z)
       /\ y.rcv_nxt <= z.rcv_nxt /\ Received(y) \subseteq Received(z)
  BY <1>8, <1>9, <1>10, MovedReady
<1>12. r = [z EXCEPT !.tell =
             @ \/ (Len(k.rcv_queue) >= RcvWnd /\ Len(z.rcv_queue) < RcvWnd)]
  BY <1>2, <1>3, <1>4, <1>5, <1>10 DEF Recv
<1>13. r \in Blocks /\ SameReceiver(z, r) /\ SameSender(z, r)
  BY <1>11, <1>12 DEF Blocks, SameReceiver, SameSender
<1>14. Receives(r, nxt, m + 1) /\ Received(r) = Received(z)  BY <1>11, <1>13, SameReceives
<1>15. QED  BY <1>8, <1>11, <1>13, <1>14 DEF SameSender, SameReceiver

-----------------------------------------------------------------------------
(* Numbers of frames                                                          *)

LEMMA UpToIs ==
  ASSUME NEW lo \in Nat, NEW hi \in Nat, lo <= hi
  PROVE  /\ UpTo(lo, hi) \in Seq(Nat) /\ Len(UpTo(lo, hi)) = hi - lo
         /\ DOMAIN UpTo(lo, hi) = 1 .. hi - lo
         /\ \A i \in 1 .. hi - lo : UpTo(lo, hi)[i] = lo + i
         /\ ToSet(UpTo(lo, hi)) = lo + 1 .. hi
<1>1. PICK u : u = UpTo(lo, hi)  OBVIOUS
<1>2. PICK n \in Nat : n = hi - lo  OBVIOUS
<1>3. u = [i \in 1 .. n |-> lo + i]  BY <1>1, <1>2 DEF UpTo
<1>4. u \in [1 .. n -> Nat]  BY <1>3
<1>5. u \in Seq(Nat) /\ Len(u) = n /\ DOMAIN u = 1 .. n  BY <1>4, Listed
<1>6. ToSet(u) = lo + 1 .. hi
  <2>1. \A x \in lo + 1 .. hi : x - lo \in 1 .. n /\ lo + (x - lo) = x  BY <1>2
  <2>2. \A x \in lo + 1 .. hi : x \in ToSet(u)
    <3> TAKE x \in lo + 1 .. hi
    <3>1. x - lo \in DOMAIN u /\ u[x - lo] = x  BY <1>3, <1>5, <2>1
    <3>2. QED  BY <3>1, Zenon DEF ToSet
  <2>3. \A i \in 1 .. n : lo + i \in lo + 1 .. hi  BY <1>2
  <2>4. \A x \in ToSet(u) : x \in lo + 1 .. hi
    <3> TAKE x \in ToSet(u)
    <3>1. PICK i \in DOMAIN u : x = u[i]  BY DEF ToSet
    <3>2. QED  BY <1>3, <1>5, <2>3, <3>1
  <2>5. QED  BY <2>2, <2>4
<1>7. QED  BY <1>1, <1>2, <1>3, <1>5, <1>6

LEMMA UpToJoined ==
  ASSUME NEW lo \in Nat, NEW mid \in Nat, NEW hi \in Nat, lo <= mid, mid <= hi
  PROVE  UpTo(lo, mid) \o UpTo(mid, hi) = UpTo(lo, hi)
<1>1. PICK a, b, c : a = UpTo(lo, mid) /\ b = UpTo(mid, hi) /\ c = UpTo(lo, hi)  OBVIOUS
<1>2. a \in Seq(Nat) /\ Len(a) = mid - lo /\ \A i \in 1 .. mid - lo : a[i] = lo + i  BY <1>1, UpToIs
<1>3. b \in Seq(Nat) /\ Len(b) = hi - mid /\ \A i \in 1 .. hi - mid : b[i] = mid + i  BY <1>1, UpToIs
<1>4. c \in Seq(Nat) /\ Len(c) = hi - lo /\ \A i \in 1 .. hi - lo : c[i] = lo + i
  <2>1. lo <= hi  OBVIOUS
  <2>2. QED  BY <1>1, <2>1, UpToIs
<1>5. PICK u : u = a \o b  OBVIOUS
<1>6. u \in Seq(Nat) /\ Joins(u, a, b)  BY <1>2, <1>3, <1>5, Joined
<1>7. Len(u) = hi - lo  BY <1>2, <1>3, <1>6 DEF Joins
<1>8. ASSUME NEW i \in 1 .. hi - lo  PROVE u[i] = c[i]
  <2>1. CASE i <= mid - lo
    <3>1. i \in 1 .. Len(a)  BY <1>2, <2>1
    <3>2. u[i] = a[i]  BY <1>6, <3>1 DEF Joins
    <3>3. QED  BY <1>2, <1>4, <3>1, <3>2
  <2>2. CASE i > mid - lo
    <3>1. i - Len(a) \in 1 .. Len(b) /\ Len(a) + (i - Len(a)) = i  BY <1>2, <1>3, <2>2
    <3>2. u[Len(a) + (i - Len(a))] = b[i - Len(a)]  BY <1>6, <3>1 DEF Joins
    <3>3. b[i - Len(a)] = mid + (i - Len(a))  BY <1>3, <3>1
    <3>4. mid + (i - Len(a)) = lo + i  BY <1>2
    <3>5. QED  BY <1>4, <3>1, <3>2, <3>3, <3>4
  <2>3. QED  BY <2>1, <2>2
<1>9. u = c  BY <1>4, <1>6, <1>7, <1>8, SeqEqual
<1>10. QED  BY <1>1, <1>5, <1>9

LEMMA UpToMore ==
  ASSUME NEW lo \in Nat, NEW hi \in Nat, lo <= hi
  PROVE  /\ UpTo(hi, hi) = <<>> /\ UpTo(hi, hi + 1) = <<hi + 1>>
         /\ Append(UpTo(lo, hi), hi + 1) = UpTo(lo, hi + 1)
         /\ UpTo(lo, hi) \o <<hi + 1>> = UpTo(lo, hi + 1)
<1>1. UpTo(hi, hi) = <<>>
  <2>1. Len(UpTo(hi, hi)) = 0 /\ UpTo(hi, hi) \in Seq(Nat)
    <3>1. Len(UpTo(hi, hi)) = hi - hi /\ UpTo(hi, hi) \in Seq(Nat)  BY UpToIs
    <3>2. QED  BY <3>1
  <2>2. QED  BY <2>1, EmptySeq
<1>2. UpTo(hi, hi + 1) = <<hi + 1>>
  <2>1. PICK a : a = UpTo(hi, hi + 1)  OBVIOUS
  <2>2. hi + 1 \in Nat /\ hi <= hi + 1 /\ (hi + 1) - hi = 1  OBVIOUS
  <2>3. a \in Seq(Nat) /\ Len(a) = 1 /\ \A i \in 1 .. 1 : a[i] = hi + i
    <3>1. PICK h \in Nat : h = hi + 1  BY <2>2
    <3>2. a \in Seq(Nat) /\ Len(a) = h - hi /\ \A i \in 1 .. h - hi : a[i] = hi + i
      BY <2>1, <2>2, <3>1, UpToIs
    <3>3. QED  BY <2>2, <3>1, <3>2
  <2>4. a[1] = hi + 1  BY <2>3
  <2>5. QED  BY <2>1, <2>3, <2>4
<1>3. UpTo(lo, hi) \o UpTo(hi, hi + 1) = UpTo(lo, hi + 1)
  <2>1. PICK h \in Nat : h = hi + 1  OBVIOUS
  <2>a. hi <= h  BY <2>1
  <2>2. UpTo(lo, hi) \o UpTo(hi, h) = UpTo(lo, h)  BY <2>a, UpToJoined, Zenon
  <2>3. QED  BY <2>1, <2>2
<1>4. UpTo(lo, hi) \o <<hi + 1>> = UpTo(lo, hi + 1)  BY <1>2, <1>3
<1>5. Append(UpTo(lo, hi), hi + 1) = UpTo(lo, hi) \o <<hi + 1>>
  <2>1. UpTo(lo, hi) \in Seq(Nat) /\ hi + 1 \in Nat  BY UpToIs
  <2>2. QED  BY <2>1, AppendIsConcat
<1>6. QED  BY <1>1, <1>2, <1>4, <1>5

\* Whole frames, and their numbers
LEMMA NumbersOf ==
  ASSUME NEW s \in Seq(AnyPiece), NEW ns \in Seq(Nat), Carries(s, ns)
  PROVE  Numbers(s) = ns /\ Len(s) % Parts = 0 /\ Len(s) = Parts * Len(ns)
<1>1. PICK p \in Nat \ {0} : p = Parts  BY Fragmented
<1>2. Len(ns) \in Nat /\ DOMAIN ns = 1 .. Len(ns) /\ \A i \in 1 .. Len(ns) : ns[i] \in Nat
  BY LenProperties, ElementOfSeq
<1>3. PICK x \in Nat : x = p * Len(ns) /\ Len(s) = x /\ x \div p = Len(ns) /\ x % p = 0
  <2>1. PICK n \in Nat : n = Len(ns)  BY <1>2
  <2>2. 1 \in 1 .. p  OBVIOUS
  <2>3. (p * n + 1 - 1) \div p = n /\ (p * n + 1 - 1) % p = 1 - 1 /\ p * n \in Nat
    BY <2>2, Quotient
  <2>4. PICK y \in Nat : y = p * n  BY <2>3
  <2>5. y \div p = n /\ y % p = 0
    <3>1. (y + 1 - 1) \div p = n /\ (y + 1 - 1) % p = 1 - 1  BY <2>3, <2>4
    <3>2. y + 1 - 1 = y /\ 1 - 1 = 0  OBVIOUS
    <3>3. QED  BY <3>1, <3>2
  <2>6. Len(s) = y  BY <1>1, <2>1, <2>4 DEF Carries
  <2>7. QED  BY <2>1, <2>4, <2>5, <2>6
<1>4. PICK u : u = Numbers(s)  OBVIOUS
<1>5. u = [i \in 1 .. Len(ns) |-> s[i * p].n]  BY <1>1, <1>3, <1>4 DEF Numbers
<1>6. ASSUME NEW i \in 1 .. Len(ns)  PROVE u[i] = ns[i]
  <2>1. i * p = p * (i - 1) + p  BY <1>2
  <2>2. p \in 1 .. p  OBVIOUS
  <2>3. s[p * (i - 1) + p] = Frame(ns[i])[p]  BY <1>1, <1>2, <2>2 DEF Carries
  <2>4. Frame(ns[i])[p] = [n |-> ns[i], part |-> p]
    <3>1. PICK n \in Nat : n = ns[i]  BY <1>2
    <3>2. Frame(n)[p] = [n |-> n, part |-> p]  BY <1>1, <2>2, FrameProperties
    <3>3. QED  BY <3>1, <3>2
  <2>5. QED  BY <1>5, <2>1, <2>3, <2>4
<1>7. u \in [1 .. Len(ns) -> Nat]  BY <1>2, <1>5, <1>6
<1>8. u \in Seq(Nat) /\ Len(u) = Len(ns)  BY <1>2, <1>7, Listed
<1>9. u = ns  BY <1>6, <1>8, SeqEqual
<1>10. QED  BY <1>1, <1>3, <1>4, <1>9

LEMMA NumbersOfFrame ==
  ASSUME NEW n \in Nat
  PROVE  Numbers(Frame(n)) = <<n>>
<1>1. Frame(n) \in Seq(AnyPiece)  BY FrameProperties
<1>2. <<>> \in Seq(AnyPiece) /\ <<>> \o Frame(n) = Frame(n)  BY <1>1, NothingJoined
<1>3. PICK none : none = <<>>  OBVIOUS
<1>4. none \in Seq(AnyPiece) /\ none \in Seq(Nat) /\ Carries(none, none)
  BY <1>2, <1>3, NothingCarried
<1>5. Carries(none \o Frame(n), Append(none, n))  BY <1>4, CarriesMore
<1>6. Append(none, n) = <<n>> /\ <<n>> \in Seq(Nat)  BY <1>3
<1>7. Carries(Frame(n), <<n>>)  BY <1>2, <1>3, <1>5, <1>6
<1>8. QED  BY <1>1, <1>6, <1>7, NumbersOf

-----------------------------------------------------------------------------
(* kcp_drain_recv                                                             *)

\* What its turns may lead to from control block k, which gave out m frames, of which rx_buf
\* held those from n + 1 on
Drains(k, nxt, m, n) ==
  {d \in [k : Blocks, rx : Seq(AnyPiece), got : Seq(Nat), emptied : Seq(Nat), done : BOOLEAN] :
     LET h == m + Len(d.got)
     IN  /\ SameSender(k, d.k) /\ Receives(d.k, nxt, h)
         /\ k.rcv_nxt <= d.k.rcv_nxt /\ Received(k) \subseteq Received(d.k)
         /\ d.got = UpTo(m, h)
         /\ Len(d.rx) <= rxBuf
         /\ \/ d.emptied = <<>> /\ Carries(d.rx, UpTo(n, h))
            \/ d.done /\ d.rx = <<>> /\ d.emptied = UpTo(n, h) /\ rxBuf % Parts = 0}

LEMMA DrainedOnce ==
  ASSUME NEW k \in Blocks, NEW nxt \in Nat, NEW m \in Nat, NEW n \in Nat, n <= m, rxBuf \in Nat,
         NEW d \in Drains(k, nxt, m, n)
  PROVE  DrainOnce(d) \in Drains(k, nxt, m, n)
<1>1. PICK h : h = m + Len(d.got)  OBVIOUS
<1>2. /\ d \in [k : Blocks, rx : Seq(AnyPiece), got : Seq(Nat), emptied : Seq(Nat), done : BOOLEAN]
      /\ SameSender(k, d.k) /\ Receives(d.k, nxt, h)
      /\ k.rcv_nxt <= d.k.rcv_nxt /\ Received(k) \subseteq Received(d.k)
      /\ d.got = UpTo(m, h)
      /\ Len(d.rx) <= rxBuf
      /\ \/ d.emptied = <<>> /\ Carries(d.rx, UpTo(n, h))
         \/ d.done /\ d.rx = <<>> /\ d.emptied = UpTo(n, h) /\ rxBuf % Parts = 0
  BY <1>1 DEF Drains
<1>3. /\ d.k \in Blocks /\ d.rx \in Seq(AnyPiece) /\ d.got \in Seq(Nat) /\ d.emptied \in Seq(Nat)
      /\ d.done \in BOOLEAN
  BY <1>2
<1>4. h \in Nat /\ m <= h /\ n <= h /\ Len(d.got) \in Nat
  <2>1. Len(d.got) \in Nat  BY <1>3, LenProperties
  <2>2. QED  BY <1>1, <2>1
<1>5. UpTo(n, h) \in Seq(Nat)  BY <1>4, UpToIs
<1>6. Len(d.rx) \in Nat  BY <1>3, LenProperties
<1>7. CASE d.done
  <2>1. DrainOnce(d) = d  BY <1>7 DEF DrainOnce
  <2>2. QED  BY <2>1
<1>8. CASE ~d.done /\ Overfull(d.rx)
  <2>1. PICK r : r = [d EXCEPT !.rx = <<>>, !.emptied = Numbers(d.rx), !.done = TRUE]  OBVIOUS
  <2>2. DrainOnce(d) = r  BY <1>8, <2>1 DEF DrainOnce
  <2>3. Numbers(d.rx) = UpTo(n, h) /\ Len(d.rx) % Parts = 0
    BY <1>2, <1>3, <1>5, <1>8, NumbersOf
  <2>4. rxBuf % Parts = 0
    <3>1. Len(d.rx) = rxBuf  BY <1>2, <1>6, <1>8 DEF Overfull
    <3>2. QED  BY <2>3, <3>1
  <2>5. <<>> \in Seq(AnyPiece) /\ Len(<<>>) = 0  OBVIOUS
  <2>6. /\ r \in [k : Blocks, rx : Seq(AnyPiece), got : Seq(Nat), emptied : Seq(Nat), done : BOOLEAN]
        /\ r.k = d.k /\ r.rx = <<>> /\ r.got = d.got /\ r.emptied = UpTo(n, h) /\ r.done
    BY <1>2, <1>5, <2>1, <2>3, <2>5
  <2>7. r \in Drains(k, nxt, m, n)  BY <1>1, <1>2, <2>4, <2>5, <2>6 DEF Drains
  <2>8. QED  BY <2>2, <2>7
<1>9. CASE ~d.done /\ ~Overfull(d.rx) /\ (~MessageReady(d.k) \/ Len(Message(d.k)) > rxBuf - Len(d.rx))
  <2>1. PICK r : r = [d EXCEPT !.done = TRUE]  OBVIOUS
  <2>2. DrainOnce(d) = r  BY <1>9, <2>1 DEF DrainOnce
  <2>3. /\ r \in [k : Blocks, rx : Seq(AnyPiece), got : Seq(Nat), emptied : Seq(Nat), done : BOOLEAN]
        /\ r.k = d.k /\ r.rx = d.rx /\ r.got = d.got /\ r.emptied = d.emptied
    BY <1>2, <2>1
  <2>4. d.emptied = <<>> /\ Carries(d.rx, UpTo(n, h))  BY <1>2, <1>9
  <2>5. r \in Drains(k, nxt, m, n)  BY <1>1, <1>2, <2>3, <2>4 DEF Drains
  <2>6. QED  BY <2>2, <2>5
<1>10. CASE ~d.done /\ ~Overfull(d.rx) /\ MessageReady(d.k) /\ ~(Len(Message(d.k)) > rxBuf - Len(d.rx))
  <2>1. PICK l : l = Recv(d.k)  OBVIOUS
  <2>2. PICK f : f = Frame(h + 1)  OBVIOUS
  <2>3. Message(d.k) = f  BY <1>2, <1>3, <1>4, <1>10, <2>2, MessageIs
  <2>4. f \in Seq(AnyPiece) /\ Len(f) = Parts /\ Parts \in Nat /\ Numbers(f) = <<h + 1>>
    <3>1. h + 1 \in Nat /\ Parts \in Nat  BY <1>4, Fragmented
    <3>2. QED  BY <2>2, <3>1, FrameProperties, NumbersOfFrame
  <2>5. PICK x : x = d.rx \o f  OBVIOUS
  <2>6. PICK g : g = d.got \o <<h + 1>>  OBVIOUS
  <2>7. PICK r : r = [d EXCEPT !.k = l, !.rx = x, !.got = g]  OBVIOUS
  <2>8. DrainOnce(d) = r  BY <1>10, <2>1, <2>3, <2>4, <2>5, <2>6, <2>7 DEF DrainOnce
  <2>9. /\ l \in Blocks /\ Receives(l, nxt, h + 1) /\ SameSender(d.k, l)
        /\ d.k.rcv_nxt <= l.rcv_nxt /\ Received(d.k) \subseteq Received(l)
    BY <1>2, <1>3, <1>4, <1>10, <2>1, MessageTaken
  <2>10. g = UpTo(m, h + 1) /\ g \in Seq(Nat) /\ m + Len(g) = h + 1
    <3>1. g = UpTo(m, h + 1)  BY <1>2, <1>4, <2>6, UpToMore
    <3>2. PICK e \in Nat : e = h + 1  BY <1>4
    <3>3. m <= e  BY <1>4, <3>2
    <3>4. g \in Seq(Nat) /\ Len(g) = e - m  BY <3>1, <3>2, <3>3, UpToIs
    <3>5. QED  BY <3>1, <3>2, <3>4
  <2>11. /\ x \in Seq(AnyPiece) /\ Len(x) = Len(d.rx) + Parts
    <3>1. x \in Seq(AnyPiece) /\ Joins(x, d.rx, f)  BY <1>3, <2>4, <2>5, Joined
    <3>2. QED  BY <2>4, <3>1 DEF Joins
  <2>12. Len(x) <= rxBuf  BY <1>6, <1>10, <2>3, <2>4, <2>11
  <2>13. Carries(x, UpTo(n, h + 1)) /\ d.emptied = <<>>
    <3>1. Carries(d.rx, UpTo(n, h)) /\ d.emptied = <<>>  BY <1>2, <1>10
    <3>2. PICK e \in Nat : e = h + 1  BY <1>4
    <3>3. Carries(d.rx \o Frame(e), Append(UpTo(n, h), e))  BY <1>3, <1>5, <3>1, CarriesMore
    <3>4. Append(UpTo(n, h), h + 1) = UpTo(n, h + 1)  BY <1>4, UpToMore
    <3>5. QED  BY <2>2, <2>5, <3>1, <3>2, <3>3, <3>4
  <2>14. k.rcv_nxt <= l.rcv_nxt
    <3>1. k.rcv_nxt \in Nat /\ d.k.rcv_nxt \in Nat /\ l.rcv_nxt \in Nat  BY <1>3, <2>9, Fields
    <3>2. QED  BY <1>2, <2>9, <3>1
  <2>15. SameSender(k, l) /\ Received(k) \subseteq Received(l)  BY <1>2, <2>9 DEF SameSender
  <2>16. /\ r \in [k : Blocks, rx : Seq(AnyPiece), got : Seq(Nat), emptied : Seq(Nat), done : BOOLEAN]
         /\ r.k = l /\ r.rx = x /\ r.got = g /\ r.emptied = d.emptied
    BY <1>2, <2>7, <2>9, <2>10, <2>11
  <2>17. r \in Drains(k, nxt, m, n)
    BY <2>9, <2>10, <2>12, <2>13, <2>14, <2>15, <2>16 DEF Drains
  <2>18. QED  BY <2>8, <2>17
<1>11. QED  BY <1>3, <1>7, <1>8, <1>9, <1>10

LEMMA FoldDrainOnce ==
  ASSUME NEW S, NEW base \in S, NEW n \in Nat, \A x \in S : DrainOnce(x) \in S
  PROVE  FoldLeft(LAMBDA d, i : DrainOnce(d), base, [i \in 1 .. n |-> i]) \in S
<1> DEFINE q == [i \in 1 .. n |-> i]
           F == [x \in S |-> [a \in Nat |-> DrainOnce(x)]]
           Is(g) == g = [s \in SUBSET (1 .. n) |-> IF s = {} THEN base ELSE DrainOnce(g[s \ {Max(s)}])]
           f == CHOOSE g : Is(g)
<1>1. \A x \in S, a \in Nat : F[x][a] = DrainOnce(x)  OBVIOUS
<1>2. F \in [S -> [Nat -> S]]  OBVIOUS
<1>3. q \in Seq(Nat) /\ Len(q) = n /\ DOMAIN q = 1 .. n /\ \A i \in 1 .. n : q[i] \in Nat
  <2>1. q \in [1 .. n -> Nat]  OBVIOUS
  <2>2. QED  BY <2>1, Listed
<1>4. PICK g : Folds(g, S, F, base, q, n)
  <2> HIDE DEF F, q
  <2>1. n <= Len(q)  BY <1>3
  <2>2. QED  BY <1>2, <1>3, <2>1, Folded, Zenon
<1>5. Is(g)
  <2>1. \A s \in SUBSET (1 .. n) : s # {} =>
          F[g[s \ {Max(s)}]][q[Max(s)]] = DrainOnce(g[s \ {Max(s)}])
    <3> HIDE DEF F, q
    <3> TAKE s \in SUBSET (1 .. n)
    <3> HAVE s # {}
    <3>1. Max(s) \in 1 .. n /\ s \ {Max(s)} \in SUBSET (1 .. n)  BY Greatest
    <3>2. g[s \ {Max(s)}] \in S  BY <1>4, <3>1 DEF Folds
    <3>3. QED  BY <1>1, <1>3, <3>1, <3>2
  <2> HIDE DEF F, q
  <2>2. QED  BY <1>4, <2>1 DEF Folds
<1>6. Is(f)
  <2> HIDE DEF Is
  <2>1. QED  BY <1>5
<1>7. FoldLeft(LAMBDA d, i : DrainOnce(d), base, [i \in 1 .. n |-> i]) = f[1 .. n]
  BY DEF FoldLeft, MapThenFoldSet
<1>8. f[1 .. n] \in S
  <2> HIDE DEF f
  <2>1. f[{}] \in S  BY <1>6
  <2>2. ASSUME NEW s \in SUBSET (1 .. n), s # {}, f[s \ {Max(s)}] \in S
        PROVE  f[s] \in S
    <3>1. f[s] = DrainOnce(f[s \ {Max(s)}])  BY <1>6, <2>2
    <3>2. QED  BY <2>2, <3>1
  <2>3. QED  BY <2>1, <2>2, StaysIn
<1>9. QED  BY <1>7, <1>8

LEMMA AllDrained ==
  ASSUME NEW k \in Blocks, NEW nxt \in Nat, NEW m \in Nat, NEW n \in Nat, n <= m, rxBuf \in Nat,
         Receives(k, nxt, m), NEW buf \in Seq(AnyPiece), Len(buf) <= rxBuf, Carries(buf, UpTo(n, m))
  PROVE  Drained(k, buf) \in Drains(k, nxt, m, n)
<1>1. PICK base : base = [k |-> k, rx |-> buf, got |-> <<>>, emptied |-> <<>>, done |-> FALSE]
  OBVIOUS
<1>2. base \in Drains(k, nxt, m, n)
  <2>1. m + Len(<<>>) = m /\ <<>> \in Seq(Nat)  OBVIOUS
  <2>2. UpTo(m, m) = <<>>  BY UpToMore
  <2>3. /\ base \in [k : Blocks, rx : Seq(AnyPiece), got : Seq(Nat), emptied : Seq(Nat), done : BOOLEAN]
        /\ base.k = k /\ base.rx = buf /\ base.got = <<>> /\ base.emptied = <<>>
    BY <1>1, <2>1
  <2>4. SameSender(k, k) /\ k.rcv_nxt <= k.rcv_nxt  BY Fields DEF SameSender
  <2>5. QED  BY <2>1, <2>2, <2>3, <2>4 DEF Drains
<1>3. PICK c \in Nat : c = rxBuf \div Parts + 1
  <2>1. PICK p \in Nat \ {0}, x \in Nat : p = Parts /\ x = rxBuf  BY Fragmented
  <2>2. PICK y : y = x \div p  OBVIOUS
  <2>3. x \div p \in Int /\ x % p \in 0 .. p - 1 /\ x = p * (x \div p) + (x % p)  OBVIOUS
  <2>4. PICK z : z = x % p  OBVIOUS
  <2>5. y \in Int /\ z \in 0 .. p - 1 /\ x = p * y + z  BY <2>2, <2>3, <2>4
  <2>6. y >= 0
    <3>1. SUFFICES ASSUME y <= -1  PROVE FALSE  BY <2>5
    <3>2. (-1) - y \in Nat /\ \A a, b \in Nat : a * b \in Nat  BY <2>5, <3>1
    <3>3. p * ((-1) - y) \in Nat  BY <3>2
    <3>4. p * ((-1) - y) = (0 - p) - p * y  BY <2>5
    <3>5. QED  BY <2>5, <3>3, <3>4
  <2>7. QED  BY <2>1, <2>2, <2>5, <2>6
<1>4. PICK S : S = Drains(k, nxt, m, n)  OBVIOUS
<1>5. \A d \in S : DrainOnce(d) \in S  BY <1>4, DrainedOnce
<1>6. FoldLeft(LAMBDA d, i : DrainOnce(d), base, [i \in 1 .. c |-> i]) \in S
  BY <1>2, <1>4, <1>5, FoldDrainOnce, Zenon
<1>7. QED  BY <1>1, <1>3, <1>4, <1>6 DEF Drained

-----------------------------------------------------------------------------
(* ikcp_flush                                                                 *)

\* Segments of snd_queue move to snd_buf as far as the windows allow.
LEMMA FlushedIs ==
  ASSUME NEW k \in Blocks, NEW n, Sends(k, n), NEW r, r = Flushed(k)
  PROVE  /\ r \in Blocks /\ Sends(r, n) /\ k.snd_nxt <= r.snd_nxt
         /\ r.rcv_queue = k.rcv_queue /\ r.rcv_buf = k.rcv_buf /\ r.rcv_nxt = k.rcv_nxt
         /\ r.acks = <<>> /\ r.snd_buf = MoveToSend(k).snd_buf
         /\ \A sn \in 0 .. r.snd_nxt - 1 : sn < k.snd_nxt \/ sn \in Unacknowledged(r)
         /\ Unacknowledged(k) \subseteq Unacknowledged(r)
<1>1. PICK q, s, una, nxt : q = k.snd_queue /\ s = k.snd_buf /\ una = k.snd_una /\ nxt = k.snd_nxt
  OBVIOUS
<1>2. /\ q \in Seq(AnyChunk) /\ Len(q) \in Nat /\ DOMAIN q = 1 .. Len(q)
      /\ \A i \in DOMAIN q : q[i] \in AnyChunk
      /\ s \in Seq(AnySegment) /\ Len(s) \in Nat /\ DOMAIN s = 1 .. Len(s)
      /\ una \in Nat /\ nxt \in Nat /\ k.rmt_wnd \in Nat
  BY <1>1, Fields
<1>3. una <= nxt /\ nxt - una <= SndWnd /\ Numbered(s, una, nxt) /\ Consecutive(q, nxt)
      /\ nxt + Len(q) = PerFrame * n
  BY <1>1 DEF Sends
<1>4. SndWnd \in Nat  BY IkcpAssumption DEF IkcpAssumption
<1>5. PICK c : c = NewSegments(k)  OBVIOUS
<1>6. c \in 0 .. Len(q) /\ nxt + c - una <= SndWnd
  <2>1. PICK w : w = Min({SndWnd, k.rmt_wnd})  OBVIOUS
  <2>2. w \in Nat /\ w <= SndWnd
    <3>1. SndWnd \in Int /\ k.rmt_wnd \in Int  BY <1>2, <1>4
    <3>2. Min({SndWnd, k.rmt_wnd}) = IF SndWnd <= k.rmt_wnd THEN SndWnd ELSE k.rmt_wnd
      BY <3>1, Larger, Zenon
    <3>3. QED  BY <1>2, <1>4, <2>1, <3>2
  <2>3. PICK v \in Int : v = una + w - nxt  BY <1>2, <2>2
  <2>4. PICK y : y = Min({Len(q), v})  OBVIOUS
  <2>5. y \in Int /\ y <= Len(q) /\ y <= v
    <3>1. Len(q) \in Int /\ v \in Int  BY <1>2
    <3>2. Min({Len(q), v}) = IF Len(q) <= v THEN Len(q) ELSE v  BY <3>1, Larger, Zenon
    <3>3. QED  BY <1>2, <2>4, <3>2
  <2>6. c = Max({0, y})  BY <1>1, <1>5, <2>1, <2>3, <2>4 DEF NewSegments
  <2>7. c = IF 0 >= y THEN 0 ELSE y
    <3>1. 0 \in Int /\ y \in Int  BY <2>5
    <3>2. Max({0, y}) = IF 0 >= y THEN 0 ELSE y  BY <3>1, Larger, Zenon
    <3>3. QED  BY <2>6, <3>2
  <2>8. QED  BY <1>2, <1>3, <1>4, <2>2, <2>3, <2>5, <2>7
<1>7. PICK t : t = [i \in 1 .. c |-> [sn |-> nxt + i - 1, frg |-> q[i].frg, data |-> q[i].data]]
  OBVIOUS
<1>8. /\ t \in Seq(AnySegment) /\ Len(t) = c /\ DOMAIN t = 1 .. c
      /\ \A i \in 1 .. c : t[i].sn = nxt + i - 1 /\ Genuine(t[i])
  <2>1. ASSUME NEW i \in 1 .. c
        PROVE  t[i] \in AnySegment /\ t[i].sn = nxt + i - 1 /\ Genuine(t[i])
    <3>1. i \in DOMAIN q /\ nxt + i - 1 \in Nat  BY <1>2, <1>6
    <3>2. q[i] \in AnyChunk /\ q[i] = Carried(nxt + i - 1)  BY <1>2, <1>3, <3>1 DEF Consecutive
    <3>3. t[i] = [sn |-> nxt + i - 1, frg |-> q[i].frg, data |-> q[i].data]  BY <1>7
    <3>4. PICK sn \in Nat : sn = nxt + i - 1  BY <3>1
    <3>5. t[i] = [sn |-> sn, frg |-> q[i].frg, data |-> q[i].data] /\ q[i] = Carried(sn)
      BY <3>2, <3>3, <3>4
    <3>6. t[i] \in AnySegment  BY <3>2, <3>5 DEF AnyChunk, AnySegment
    <3>7. t[i].sn = sn /\ t[i].frg = q[i].frg /\ t[i].data = q[i].data  BY <3>5
    <3>8. QED  BY <3>4, <3>5, <3>6, <3>7 DEF Genuine
  <2>2. t \in [1 .. c -> AnySegment]  BY <1>7, <2>1
  <2>3. c \in Nat  BY <1>6
  <2>4. QED  BY <2>1, <2>2, <2>3, Listed
<1>9. PICK u : u = s \o t  OBVIOUS
<1>10. u \in Seq(AnySegment) /\ Joins(u, s, t)  BY <1>2, <1>8, <1>9, Joined
<1>11. ASSUME NEW i \in DOMAIN u
       PROVE  (i \in 1 .. Len(s) /\ u[i] = s[i]) \/ (i - Len(s) \in 1 .. c /\ u[i] = t[i - Len(s)])
  <2>1. DOMAIN u = 1 .. Len(s) + c  BY <1>8, <1>10 DEF Joins
  <2>2. CASE i <= Len(s)
    <3>1. i \in 1 .. Len(s)  BY <1>2, <1>6, <2>1, <2>2
    <3>2. QED  BY <1>10, <3>1 DEF Joins
  <2>3. CASE i > Len(s)
    <3>1. i - Len(s) \in 1 .. c /\ Len(s) + (i - Len(s)) = i  BY <1>2, <1>6, <2>1, <2>3
    <3>2. u[Len(s) + (i - Len(s))] = t[i - Len(s)]  BY <1>8, <1>10, <3>1 DEF Joins
    <3>3. QED  BY <3>1, <3>2
  <2>4. QED  BY <1>2, <1>6, <2>1, <2>2, <2>3
<1>12. Numbered(u, una, nxt + c)
  <2>1. \A i \in 1 .. Len(s) : una <= s[i].sn /\ s[i].sn < nxt /\ Genuine(s[i]) /\ s[i].sn \in Nat
    <3>1. \A i \in 1 .. Len(s) : s[i] \in AnySegment  BY <1>2, ElementOfSeq
    <3>2. \A x \in AnySegment : x.sn \in Nat  BY DEF AnySegment
    <3>3. \A i \in 1 .. Len(s) : una <= s[i].sn /\ s[i].sn < nxt /\ Genuine(s[i])
      BY <1>2, <1>3 DEF Numbered
    <3>4. QED  BY <3>1, <3>2, <3>3
  <2>2. ASSUME NEW i \in DOMAIN u  PROVE una <= u[i].sn /\ u[i].sn < nxt + c /\ Genuine(u[i])
    <3>1. CASE i \in 1 .. Len(s) /\ u[i] = s[i]  BY <1>2, <1>6, <2>1, <3>1
    <3>2. CASE i - Len(s) \in 1 .. c /\ u[i] = t[i - Len(s)]
      <4>1. PICK j \in 1 .. c : j = i - Len(s)  BY <3>2
      <4>2. u[i].sn = nxt + j - 1 /\ Genuine(u[i])  BY <1>8, <3>2, <4>1
      <4>3. QED  BY <1>2, <1>3, <1>6, <4>2
    <3>3. QED  BY <1>11, <3>1, <3>2
  <2>3. ASSUME NEW i \in DOMAIN u, NEW j \in DOMAIN u, i < j  PROVE u[i].sn < u[j].sn
    <3>1. DOMAIN u = 1 .. Len(s) + c  BY <1>8, <1>10 DEF Joins
    <3>2. CASE j \in 1 .. Len(s) /\ u[j] = s[j]
      <4>1. i \in 1 .. Len(s)  BY <1>2, <1>6, <2>3, <3>1, <3>2
      <4>2. u[i] = s[i]  BY <1>10, <4>1 DEF Joins
      <4>3. s[i].sn < s[j].sn  BY <1>2, <1>3, <2>3, <3>2, <4>1 DEF Numbered
      <4>4. QED  BY <3>2, <4>2, <4>3
    <3>3. CASE j - Len(s) \in 1 .. c /\ u[j] = t[j - Len(s)]
      <4>1. PICK l \in 1 .. c : l = j - Len(s)  BY <3>3
      <4>2. u[j].sn = nxt + l - 1  BY <1>8, <3>3, <4>1
      <4>3. CASE i \in 1 .. Len(s) /\ u[i] = s[i]
        <5>1. u[i].sn < nxt /\ u[i].sn \in Nat  BY <2>1, <4>3
        <5>2. QED  BY <1>2, <1>6, <4>2, <5>1
      <4>4. CASE i - Len(s) \in 1 .. c /\ u[i] = t[i - Len(s)]
        <5>1. PICK o \in 1 .. c : o = i - Len(s)  BY <4>4
        <5>2. u[i].sn = nxt + o - 1  BY <1>8, <4>4, <5>1
        <5>3. o < l  BY <1>2, <1>6, <2>3, <3>1, <4>1, <5>1
        <5>4. QED  BY <1>2, <1>6, <4>2, <5>2, <5>3
      <4>5. QED  BY <1>11, <4>3, <4>4
    <3>4. QED  BY <1>11, <3>2, <3>3
  <2>4. QED  BY <2>2, <2>3 DEF Numbered
<1>13. PICK p : p = SubSeq(q, c + 1, Len(q))  OBVIOUS
<1>14. p \in Seq(AnyChunk) /\ Len(p) = Len(q) - c /\ Consecutive(p, nxt + c)
  <2>1. p \in Seq(AnyChunk) /\ Len(p) = Len(q) - c  BY <1>2, <1>6, <1>13, Rest
  <2>2. Consecutive(p, nxt + c)  BY <1>2, <1>3, <1>6, <1>13, ConsecutiveLess
  <2>3. QED  BY <2>1, <2>2
<1>15. MoveToSend(k) = [k EXCEPT !.snd_buf = u, !.snd_queue = p, !.snd_nxt = nxt + c]
  BY <1>1, <1>5, <1>7, <1>9, <1>13 DEF MoveToSend
<1>16. r = [k EXCEPT !.snd_buf = u, !.snd_queue = p, !.snd_nxt = nxt + c, !.acks = <<>>,
                     !.tell = FALSE, !.waiting = (k.rmt_wnd = 0)]
  BY <1>15 DEF Flushed, Blocks
<1>17. /\ r \in Blocks /\ r.snd_queue = p /\ r.snd_buf = u /\ r.snd_una = una
       /\ r.snd_nxt = nxt + c /\ r.rcv_queue = k.rcv_queue /\ r.rcv_buf = k.rcv_buf
       /\ r.rcv_nxt = k.rcv_nxt /\ r.acks = <<>> /\ MoveToSend(k).snd_buf = u
  <2>1. nxt + c \in Nat /\ <<>> \in Seq(Nat) /\ (k.rmt_wnd = 0) \in BOOLEAN  BY <1>2, <1>6
  <2>2. QED  BY <1>1, <1>10, <1>14, <1>15, <1>16, <2>1 DEF Blocks
<1>18. Sends(r, n)
  <2>1. una <= nxt + c /\ (nxt + c) + Len(p) = PerFrame * n  BY <1>2, <1>3, <1>6, <1>14
  <2>2. r.snd_una <= r.snd_nxt /\ r.snd_nxt - r.snd_una <= SndWnd  BY <1>2, <1>4, <1>6, <1>17, <2>1
  <2>3. Numbered(r.snd_buf, r.snd_una, r.snd_nxt)  BY <1>12, <1>17
  <2>4. Consecutive(r.snd_queue, r.snd_nxt) /\ r.snd_nxt + Len(r.snd_queue) = PerFrame * n
    BY <1>14, <1>17, <2>1
  <2>5. QED  BY <2>2, <2>3, <2>4 DEF Sends
<1>19. Unacknowledged(k) \subseteq Unacknowledged(r)
  <2>1. \A i \in DOMAIN s : i \in DOMAIN u /\ u[i] = s[i]  BY <1>2, <1>10 DEF Joins
  <2>2. QED  BY <1>1, <1>17, <2>1 DEF Unacknowledged
<1>20. ASSUME NEW sn \in 0 .. r.snd_nxt - 1, ~(sn < nxt)  PROVE sn \in Unacknowledged(r)
  <2>1. PICK i \in 1 .. c : i = sn - nxt + 1  BY <1>2, <1>6, <1>17, <1>20
  <2>2. t[i].sn = sn  BY <1>2, <1>8, <1>20, <2>1
  <2>3. Len(s) + i \in DOMAIN u /\ u[Len(s) + i] = t[i]  BY <1>8, <1>10 DEF Joins
  <2>4. QED  BY <1>17, <2>2, <2>3 DEF Unacknowledged
<1>21. k.snd_nxt <= r.snd_nxt  BY <1>1, <1>2, <1>6, <1>17
<1>22. \A sn \in 0 .. r.snd_nxt - 1 : sn < k.snd_nxt \/ sn \in Unacknowledged(r)  BY <1>1, <1>20
<1>23. QED  BY <1>17, <1>18, <1>19, <1>21, <1>22

\* The segments of snd_buf that go out
Pushes(k, again, base, q) ==
  FoldLeft(LAMBDA sent, s :
             IF s.sn >= k.snd_nxt \/ s.sn \in again
             THEN Append(sent, Segment(k, "PUSH", s.sn, s.frg, s.data))
             ELSE sent,
           base, q)

LEMMA FoldPushes ==
  ASSUME NEW S, NEW A, NEW base \in S, NEW q \in Seq(A), NEW k, NEW again,
         \A x \in S, a \in A : Append(x, Segment(k, "PUSH", a.sn, a.frg, a.data)) \in S
  PROVE  Pushes(k, again, base, q) \in S
<1> DEFINE Turn(x, a) == IF a.sn >= k.snd_nxt \/ a.sn \in again
                         THEN Append(x, Segment(k, "PUSH", a.sn, a.frg, a.data))
                         ELSE x
           F == [x \in S |-> [a \in A |-> Turn(x, a)]]
           Is(g) == g = [s \in SUBSET (1 .. Len(q)) |->
                          IF s = {} THEN base ELSE Turn(g[s \ {Max(s)}], q[Max(s)])]
           f == CHOOSE g : Is(g)
<1>1. \A x \in S, a \in A : Turn(x, a) \in S  OBVIOUS
<1>2. \A x \in S, a \in A : F[x][a] = Turn(x, a)
  <2> HIDE DEF Turn
  <2>1. QED  OBVIOUS
<1>3. F \in [S -> [A -> S]]
  <2> HIDE DEF Turn
  <2>1. QED  BY <1>1
<1>4. Len(q) \in Nat /\ DOMAIN q = 1 .. Len(q) /\ \A i \in 1 .. Len(q) : q[i] \in A
  BY LenProperties, ElementOfSeq
<1>5. PICK g : Folds(g, S, F, base, q, Len(q))
  <2> HIDE DEF F
  <2>1. Len(q) \in Nat /\ Len(q) <= Len(q)  BY <1>4
  <2>2. QED  BY <1>3, <2>1, Folded, Zenon
<1>6. Is(g)
  <2> HIDE DEF Turn
  <2>1. \A s \in SUBSET (1 .. Len(q)) : s # {} =>
          F[g[s \ {Max(s)}]][q[Max(s)]] = Turn(g[s \ {Max(s)}], q[Max(s)])
    <3> HIDE DEF F
    <3> TAKE s \in SUBSET (1 .. Len(q))
    <3> HAVE s # {}
    <3>1. Max(s) \in 1 .. Len(q) /\ s \ {Max(s)} \in SUBSET (1 .. Len(q))  BY <1>4, Greatest
    <3>2. g[s \ {Max(s)}] \in S  BY <1>5, <3>1 DEF Folds
    <3>3. QED  BY <1>2, <1>4, <3>1, <3>2
  <2> HIDE DEF F
  <2>2. QED  BY <1>5, <2>1 DEF Folds
<1>7. Is(f)
  <2> HIDE DEF Is
  <2>1. QED  BY <1>6
<1>8. Pushes(k, again, base, q) = f[DOMAIN q]  BY <1>4 DEF Pushes, FoldLeft, MapThenFoldSet
<1>9. f[1 .. Len(q)] \in S
  <2> HIDE DEF f, Turn
  <2>1. f[{}] \in S  BY <1>7
  <2>2. ASSUME NEW s \in SUBSET (1 .. Len(q)), s # {}, f[s \ {Max(s)}] \in S
        PROVE  f[s] \in S
    <3>1. Max(s) \in 1 .. Len(q)  BY <1>4, <2>2, Greatest
    <3>2. f[s] = Turn(f[s \ {Max(s)}], q[Max(s)])  BY <1>7, <2>2
    <3>3. q[Max(s)] \in A  BY <1>4, <3>1
    <3>4. QED  BY <1>1, <2>2, <3>2, <3>3
  <2>3. QED  BY <1>4, <2>1, <2>2, StaysIn
<1>10. QED  BY <1>4, <1>8, <1>9

\* The datagrams they are packed into, with whatever these are turned into
LEMMA FoldPacked ==
  ASSUME NEW S, NEW A, NEW base \in S, NEW q \in Seq(A),
         \A x \in S, a \in A :
           (IF x # <<>> /\ Size(Append(Last(x), a)) <= Mtu
            THEN Append(Front(x), Append(Last(x), a))
            ELSE Append(x, <<a>>)) \in S
  PROVE  FoldLeft(LAMBDA ds, seg :
                    IF ds # <<>> /\ Size(Append(Last(ds), seg)) <= Mtu
                    THEN Append(Front(ds), Append(Last(ds), seg))
                    ELSE Append(ds, <<seg>>),
                  base, q) \in S
<1> DEFINE Turn(x, a) == IF x # <<>> /\ Size(Append(Last(x), a)) <= Mtu
                         THEN Append(Front(x), Append(Last(x), a))
                         ELSE Append(x, <<a>>)
           F == [x \in S |-> [a \in A |-> Turn(x, a)]]
           Is(g) == g = [s \in SUBSET (1 .. Len(q)) |->
                          IF s = {} THEN base ELSE Turn(g[s \ {Max(s)}], q[Max(s)])]
           f == CHOOSE g : Is(g)
<1>1. \A x \in S, a \in A : Turn(x, a) \in S  OBVIOUS
<1>2. \A x \in S, a \in A : F[x][a] = Turn(x, a)
  <2> HIDE DEF Turn
  <2>1. QED  OBVIOUS
<1>3. F \in [S -> [A -> S]]
  <2> HIDE DEF Turn
  <2>1. QED  BY <1>1
<1>4. Len(q) \in Nat /\ DOMAIN q = 1 .. Len(q) /\ \A i \in 1 .. Len(q) : q[i] \in A
  BY LenProperties, ElementOfSeq
<1>5. PICK g : Folds(g, S, F, base, q, Len(q))
  <2> HIDE DEF F
  <2>1. Len(q) \in Nat /\ Len(q) <= Len(q)  BY <1>4
  <2>2. QED  BY <1>3, <2>1, Folded, Zenon
<1>6. Is(g)
  <2> HIDE DEF Turn
  <2>1. \A s \in SUBSET (1 .. Len(q)) : s # {} =>
          F[g[s \ {Max(s)}]][q[Max(s)]] = Turn(g[s \ {Max(s)}], q[Max(s)])
    <3> HIDE DEF F
    <3> TAKE s \in SUBSET (1 .. Len(q))
    <3> HAVE s # {}
    <3>1. Max(s) \in 1 .. Len(q) /\ s \ {Max(s)} \in SUBSET (1 .. Len(q))  BY <1>4, Greatest
    <3>2. g[s \ {Max(s)}] \in S  BY <1>5, <3>1 DEF Folds
    <3>3. QED  BY <1>2, <1>4, <3>1, <3>2
  <2> HIDE DEF F
  <2>2. QED  BY <1>5, <2>1 DEF Folds
<1>7. Is(f)
  <2> HIDE DEF Is
  <2>1. QED  BY <1>6
<1>8. FoldLeft(LAMBDA ds, seg :
                 IF ds # <<>> /\ Size(Append(Last(ds), seg)) <= Mtu
                 THEN Append(Front(ds), Append(Last(ds), seg))
                 ELSE Append(ds, <<seg>>),
               base, q) = f[DOMAIN q]
  BY <1>4 DEF FoldLeft, MapThenFoldSet
<1>9. f[1 .. Len(q)] \in S
  <2> HIDE DEF f, Turn
  <2>1. f[{}] \in S  BY <1>7
  <2>2. ASSUME NEW s \in SUBSET (1 .. Len(q)), s # {}, f[s \ {Max(s)}] \in S
        PROVE  f[s] \in S
    <3>1. Max(s) \in 1 .. Len(q)  BY <1>4, <2>2, Greatest
    <3>2. f[s] = Turn(f[s \ {Max(s)}], q[Max(s)])  BY <1>7, <2>2
    <3>3. q[Max(s)] \in A  BY <1>4, <3>1
    <3>4. QED  BY <1>1, <2>2, <3>2, <3>3
  <2>3. QED  BY <1>4, <2>1, <2>2, StaysIn
<1>10. QED  BY <1>4, <1>8, <1>9

LEMMA PackedIs ==
  ASSUME NEW P, NEW segments \in Seq(P)
  PROVE  Packed(segments) \in Seq(Seq(P))
<1>1. PICK B : B = Seq(P)  OBVIOUS
<1>2. ASSUME NEW x \in Seq(B), NEW a \in P
      PROVE  (IF x # <<>> /\ Size(Append(Last(x), a)) <= Mtu
              THEN Append(Front(x), Append(Last(x), a))
              ELSE Append(x, <<a>>)) \in Seq(B)
  <2>1. <<a>> \in B  BY <1>1
  <2>2. Append(x, <<a>>) \in Seq(B)  BY <2>1
  <2>3. ASSUME x # <<>>  PROVE Append(Front(x), Append(Last(x), a)) \in Seq(B)
    <3>1. Len(x) \in Nat /\ Len(x) # 0  BY <2>3, LenProperties, EmptySeq
    <3>2. Last(x) \in B
      <4>1. Len(x) \in 1 .. Len(x)  BY <3>1
      <4>2. QED  BY <4>1, ElementOfSeq DEF Last
    <3>3. PICK last \in Seq(P) : last = Last(x)  BY <1>1, <3>2
    <3>4. Append(last, a) \in B  BY <1>1
    <3>5. Front(x) \in Seq(B)
      <4>1. Len(x) - 1 \in 0 .. Len(x)  BY <3>1
      <4>2. SubSeq(x, 1, Len(x) - 1) \in Seq(B)  BY <4>1, Cut
      <4>3. QED  BY <4>2 DEF Front
    <3>6. PICK front \in Seq(B), more \in B : front = Front(x) /\ more = Append(last, a)
      BY <3>4, <3>5
    <3>7. Append(front, more) \in Seq(B)  OBVIOUS
    <3>8. QED  BY <3>3, <3>6, <3>7
  <2>4. QED  BY <2>2, <2>3
<1>3. <<>> \in Seq(B)  OBVIOUS
<1>4. PICK S : S = Seq(B)  OBVIOUS
<1>5. <<>> \in S /\ \A x \in S, a \in P :
        (IF x # <<>> /\ Size(Append(Last(x), a)) <= Mtu
         THEN Append(Front(x), Append(Last(x), a))
         ELSE Append(x, <<a>>)) \in S
  BY <1>2, <1>3, <1>4, Zenon
<1>6. Packed(segments) \in S  BY <1>5, FoldPacked DEF Packed
<1>7. QED  BY <1>1, <1>4, <1>6

\* What a board may send it may send again later.
LEMMA PacketsGrow ==
  ASSUME NEW k \in Blocks, NEW r \in Blocks, k.rcv_nxt <= r.rcv_nxt, k.snd_nxt <= r.snd_nxt,
         Received(k) \subseteq Received(r)
  PROVE  Packets(k) \subseteq Packets(r)
<1>1. k.rcv_nxt \in Nat /\ r.rcv_nxt \in Nat /\ k.snd_nxt \in Nat /\ r.snd_nxt \in Nat  BY Fields
<1>2. \A s \in AnyPacket : s.una \in Nat /\ s.sn \in Nat  BY DEF AnyPacket
<1>3. ASSUME NEW s \in Packets(k)  PROVE s \in Packets(r)
  <2>1. /\ s \in AnyPacket /\ s.una <= k.rcv_nxt
        /\ s.cmd = "PUSH" => s.sn < k.snd_nxt /\ Genuine(s)
        /\ s.cmd = "ACK" => s.sn \in Received(k)
    BY DEF Packets
  <2>2. s.una <= r.rcv_nxt /\ (s.cmd = "PUSH" => s.sn < r.snd_nxt)  BY <1>1, <1>2, <2>1
  <2>3. QED  BY <2>1, <2>2 DEF Packets
<1>4. QED  BY <1>3

LEMMA SeqOfMore ==
  ASSUME NEW P, NEW Q, P \subseteq Q, NEW s \in Seq(Seq(P))
  PROVE  s \in Seq(Seq(Q))
<1>1. Seq(P) \subseteq Seq(Q)
  <2>1. \A t \in Seq(P) : t \in Seq(Q)  BY Wider
  <2>2. QED  BY <2>1
<1>2. PICK A, B : A = Seq(P) /\ B = Seq(Q)  OBVIOUS
<1>3. A \subseteq B /\ s \in Seq(A)  BY <1>1, <1>2
<1>4. s \in Seq(B)  BY <1>3, Wider
<1>5. QED  BY <1>2, <1>4

\* Everything ikcp_flush sends is true: what it acknowledges was received, and what it pushes
\* is what ikcp_send was given.
LEMMA OutgoingIs ==
  ASSUME NEW k \in Blocks, NEW n, Sends(k, n), NEW nxt, NEW m, Receives(k, nxt, m),
         NEW again, NEW due, NEW r, r = Flushed(k)
  PROVE  Outgoing(k, again, due) \in Seq(Packets(r))
<1>1. /\ r \in Blocks /\ Sends(r, n) /\ k.snd_nxt <= r.snd_nxt
      /\ r.rcv_buf = k.rcv_buf /\ r.rcv_nxt = k.rcv_nxt /\ r.snd_buf = MoveToSend(k).snd_buf
  BY FlushedIs
<1>2. Received(r) = Received(k)  BY <1>1 DEF Received
<1>3. k.rcv_nxt \in Nat /\ k.acks \in Seq(Nat) /\ ToSet(k.acks) \subseteq Received(k)
  BY Fields DEF Receives
<1>4. WndUnused(k) \in Nat
  <2>1. PICK w \in Int : w = RcvWnd - Len(k.rcv_queue)
    BY Fields, IkcpAssumption DEF IkcpAssumption
  <2>2. WndUnused(k) = Max({0, w})  BY <2>1 DEF WndUnused
  <2>3. 0 \in Int  OBVIOUS
  <2>4. Max({0, w}) = IF 0 >= w THEN 0 ELSE w  BY <2>3, Larger, Zenon
  <2>5. QED  BY <2>2, <2>4
<1>5. PICK P : P = Packets(r)  OBVIOUS
<1>6. ASSUME NEW cmd \in {"PUSH", "ACK", "WASK", "WINS"}, NEW sn \in Nat, NEW frg \in Nat,
             NEW data \in Seq(AnyPiece),
             cmd = "PUSH" => sn < r.snd_nxt /\ frg = Carried(sn).frg /\ data = Carried(sn).data,
             cmd = "ACK" => sn \in Received(r)
      PROVE  Segment(k, cmd, sn, frg, data) \in P
  <2>1. PICK s : s = Segment(k, cmd, sn, frg, data)  OBVIOUS
  <2>2. s \in AnyPacket /\ s.una = k.rcv_nxt /\ s.cmd = cmd /\ s.sn = sn /\ s.frg = frg /\ s.data = data
    BY <1>3, <1>4, <2>1 DEF AnyPacket, Segment
  <2>3. s.cmd = "PUSH" => s.sn < r.snd_nxt /\ Genuine(s)  BY <1>6, <2>2 DEF Genuine
  <2>4. s.una <= r.rcv_nxt  BY <1>1, <1>3, <2>2
  <2>5. QED  BY <1>5, <1>6, <2>1, <2>2, <2>3, <2>4 DEF Packets
<1>7. <<>> \in Seq(AnyPiece) /\ 0 \in Nat /\ <<>> \in Seq(P)  OBVIOUS
<1>8. PICK acks : acks = [i \in DOMAIN k.acks |-> Segment(k, "ACK", k.acks[i], 0, <<>>)]  OBVIOUS
<1>9. acks \in Seq(P)
  <2>1. Len(k.acks) \in Nat /\ DOMAIN k.acks = 1 .. Len(k.acks)  BY <1>3, LenProperties
  <2>2. ASSUME NEW i \in 1 .. Len(k.acks)  PROVE Segment(k, "ACK", k.acks[i], 0, <<>>) \in P
    <3>1. PICK sn : sn = k.acks[i]  OBVIOUS
    <3>2. sn \in Nat  BY <1>3, <3>1, ElementOfSeq
    <3>3. sn \in Received(r)  BY <1>2, <1>3, <2>1, <3>1 DEF ToSet
    <3>4. Segment(k, "ACK", sn, 0, <<>>) \in P  BY <1>6, <1>7, <3>2, <3>3
    <3>5. QED  BY <3>1, <3>4
  <2>3. acks \in [1 .. Len(k.acks) -> P]  BY <1>8, <2>1, <2>2
  <2>4. QED  BY <2>1, <2>3, Listed
<1>10. PICK asks : asks = IF AsksNow(k, due) THEN <<Segment(k, "WASK", 0, 0, <<>>)>> ELSE <<>>
  OBVIOUS
<1>11. asks \in Seq(P)
  <2>1. Segment(k, "WASK", 0, 0, <<>>) \in P  BY <1>6, <1>7
  <2>2. QED  BY <1>7, <1>10, <2>1
<1>12. PICK tells : tells = IF k.tell THEN <<Segment(k, "WINS", 0, 0, <<>>)>> ELSE <<>>  OBVIOUS
<1>13. tells \in Seq(P)
  <2>1. Segment(k, "WINS", 0, 0, <<>>) \in P  BY <1>6, <1>7
  <2>2. QED  BY <1>7, <1>12, <2>1
<1>14. PICK pushes : pushes = Pushes(k, again, <<>>, MoveToSend(k).snd_buf)  OBVIOUS
<1>15. pushes \in Seq(P)
  <2>1. PICK A : A = {s \in AnySegment : s.sn < r.snd_nxt /\ Genuine(s)}  OBVIOUS
  <2>2. PICK q : q = r.snd_buf  OBVIOUS
  <2>3. q \in Seq(A)
    <3>1. q \in Seq(AnySegment) /\ Len(q) \in Nat /\ DOMAIN q = 1 .. Len(q)
      BY <1>1, <2>2, Fields
    <3>2. ASSUME NEW i \in 1 .. Len(q)  PROVE q[i] \in A
      <4>1. q[i] \in AnySegment  BY <3>1, ElementOfSeq
      <4>2. q[i].sn < r.snd_nxt /\ Genuine(q[i])  BY <1>1, <2>2, <3>1 DEF Sends, Numbered
      <4>3. QED  BY <2>1, <4>1, <4>2
    <3>3. q = [i \in 1 .. Len(q) |-> q[i]]  BY <3>1
    <3>4. q \in [1 .. Len(q) -> A]  BY <3>2, <3>3
    <3>5. QED  BY <3>1, <3>4, Listed
  <2>4. ASSUME NEW x \in Seq(P), NEW a \in A
        PROVE  Append(x, Segment(k, "PUSH", a.sn, a.frg, a.data)) \in Seq(P)
    <3>1. a \in AnySegment /\ a.sn < r.snd_nxt /\ Genuine(a)  BY <2>1
    <3>2. a.sn \in Nat /\ a.frg \in Nat /\ a.data \in Seq(AnyPiece)  BY <3>1 DEF AnySegment
    <3>3. Segment(k, "PUSH", a.sn, a.frg, a.data) \in P  BY <1>6, <3>1, <3>2 DEF Genuine
    <3>4. PICK e \in P : e = Segment(k, "PUSH", a.sn, a.frg, a.data)  BY <3>3
    <3>5. Append(x, e) \in Seq(P)  OBVIOUS
    <3>6. QED  BY <3>4, <3>5
  <2>5. PICK S, none : S = Seq(P) /\ none = <<>>  OBVIOUS
  <2>6. none \in S /\ \A x \in S, a \in A : Append(x, Segment(k, "PUSH", a.sn, a.frg, a.data)) \in S
    BY <1>7, <2>4, <2>5
  <2>7. Pushes(k, again, none, q) \in S  BY <2>3, <2>6, FoldPushes, Zenon
  <2>8. QED  BY <1>1, <1>14, <2>2, <2>5, <2>7
<1>16. acks \o asks \o tells \o pushes \in Seq(P)  BY <1>9, <1>11, <1>13, <1>15
<1>17. Outgoing(k, again, due) = acks \o asks \o tells \o pushes
  BY <1>8, <1>10, <1>12, <1>14, Zenon DEF Outgoing, Pushes
<1>18. QED  BY <1>5, <1>16, <1>17

\* A fault loses, repeats or delays packets and makes up none.
LEMMA Disturbed ==
  ASSUME NEW S, NEW q \in Seq(S), NEW r \in AfterFault(q, DOMAIN q)
  PROVE  r \in Seq(S)
<1>1. DOMAIN q = 1 .. Len(q) /\ Len(q) \in Nat  BY LenProperties
<1>2. \A i \in 1 .. Len(q) : RemoveAt(q, i) \in Seq(S)
  <2> TAKE i \in 1 .. Len(q)
  <2>1. Shrinks(S, q, i)  BY Removed, Zenon
  <2>2. QED  BY <2>1 DEF Shrinks
<1>3. \A i \in 1 .. Len(q) : q[i] \in S  BY ElementOfSeq
<1>4. CASE \E i \in DOMAIN q : r = Lost(q, i)
  BY <1>1, <1>2, <1>4 DEF Lost
<1>5. CASE \E i \in DOMAIN q : r = Twice(q, i)
  <2>1. PICK i \in 1 .. Len(q) : r = InsertAt(q, i, q[i])  BY <1>1, <1>5 DEF Twice
  <2>2. i \in 1 .. Len(q) + 1  BY <1>1
  <2>3. PICK e \in S : e = q[i]  BY <1>3
  <2>4. Grows(S, q, i, e)  BY <2>2, Inserted, Zenon
  <2>5. QED  BY <2>1, <2>3, <2>4 DEF Grows
<1>6. CASE \E i \in DOMAIN q : r = Later(q, i)
  <2>1. PICK i \in 1 .. Len(q) : r = Append(RemoveAt(q, i), q[i])  BY <1>1, <1>6 DEF Later
  <2>2. PICK t \in Seq(S), e \in S : t = RemoveAt(q, i) /\ e = q[i]  BY <1>2, <1>3
  <2>3. Append(t, e) \in Seq(S)  OBVIOUS
  <2>4. QED  BY <2>1, <2>2, <2>3
<1>7. QED  BY <1>4, <1>5, <1>6 DEF AfterFault

-----------------------------------------------------------------------------
(* kcp_update_session                                                         *)

LEMMA ReceivesMore ==
  ASSUME NEW k \in Blocks, NEW nxt \in Nat, NEW more \in Nat, nxt <= more, NEW m, Receives(k, nxt, m)
  PROVE  Receives(k, more, m)
<1>1. k.rcv_nxt \in Nat /\ \A i \in DOMAIN k.rcv_buf : k.rcv_buf[i].sn \in Nat  BY Fields
<1>2. Numbered(k.rcv_buf, k.rcv_nxt, more)  BY <1>1 DEF Receives, Numbered
<1>3. k.rcv_nxt <= more  BY <1>1 DEF Receives
<1>4. QED  BY <1>2, <1>3 DEF Receives

\* One board's session is updated: k is its control block, l the other's; k1 is k with what came
\* in or was put, k2 is that after ikcp_flush, if there was one, and d what was drained from it.
LEMMA LinkUpdated ==
  ASSUME NEW k \in Blocks, NEW l \in Blocks, NEW n \in Nat, NEW m \in Nat,
         NEW k1 \in Heard(k, n, l, m), NEW k2, k2 = k1 \/ k2 = Flushed(k1),
         NEW first, NEW d \in Drains(k2, l.snd_nxt, m, first),
         NEW inbox \in Seq(Seq(Packets(l))),
         NEW nl, NEW ml, NEW out, Linked(l, k, nl, ml, out), NEW sent \in Seq(Seq(Packets(k2)))
  PROVE  /\ Linked(d.k, l, n, m + Len(d.got), inbox)
         /\ Linked(l, d.k, nl, ml, out \o sent)
<1>1. /\ k1 \in Blocks /\ Sends(k1, n) /\ Receives(k1, l.snd_nxt, m) /\ Remembers(k1, l)
      /\ k1.snd_nxt = k.snd_nxt /\ k.rcv_nxt <= k1.rcv_nxt /\ Received(k) \subseteq Received(k1)
  BY DEF Heard
<1>2. /\ k2 \in Blocks /\ Sends(k2, n) /\ Remembers(k2, l) /\ k.snd_nxt <= k2.snd_nxt
      /\ k.rcv_nxt <= k2.rcv_nxt /\ Received(k) \subseteq Received(k2)
  <2>1. CASE k2 = k1
    <3>1. k.snd_nxt \in Nat  BY Fields
    <3>2. QED  BY <1>1, <2>1, <3>1
  <2>2. CASE k2 = Flushed(k1)
    <3>1. /\ k2 \in Blocks /\ Sends(k2, n) /\ k1.snd_nxt <= k2.snd_nxt
          /\ k2.rcv_buf = k1.rcv_buf /\ k2.rcv_nxt = k1.rcv_nxt
          /\ \A sn \in 0 .. k2.snd_nxt - 1 : sn < k1.snd_nxt \/ sn \in Unacknowledged(k2)
          /\ Unacknowledged(k1) \subseteq Unacknowledged(k2)
      BY <1>1, <2>2, FlushedIs
    <3>2. Received(k2) = Received(k1)  BY <3>1 DEF Received
    <3>3. k1.snd_nxt \in Nat /\ k2.snd_nxt \in Nat  BY <1>1, <3>1, Fields
    <3>4. \A sn \in 0 .. k2.snd_nxt - 1 : sn < k1.snd_nxt => sn \in 0 .. k1.snd_nxt - 1
      BY <3>3
    <3>5. Remembers(k2, l)  BY <1>1, <3>1, <3>4 DEF Remembers
    <3>6. QED  BY <1>1, <3>1, <3>2, <3>5
  <2>3. QED  BY <2>1, <2>2
<1>3. PICK r : r = d.k  OBVIOUS
<1>4. /\ r \in Blocks /\ SameSender(k2, r) /\ Receives(r, l.snd_nxt, m + Len(d.got))
      /\ k2.rcv_nxt <= r.rcv_nxt /\ Received(k2) \subseteq Received(r)
  BY <1>3 DEF Drains
<1>5. Sends(r, n) /\ Unacknowledged(r) = Unacknowledged(k2) /\ r.snd_nxt = k2.snd_nxt
  BY <1>2, <1>4, SameSends DEF SameSender
<1>6. Remembers(r, l)  BY <1>2, <1>5 DEF Remembers
<1>7. Linked(r, l, n, m + Len(d.got), inbox)  BY <1>4, <1>5, <1>6 DEF Linked
<1>8. /\ k.snd_nxt \in Nat /\ r.snd_nxt \in Nat /\ k.snd_nxt <= r.snd_nxt
      /\ k.rcv_nxt <= r.rcv_nxt /\ Received(k) \subseteq Received(r)
  <2>1. /\ k.snd_nxt \in Nat /\ r.snd_nxt \in Nat
        /\ k.rcv_nxt \in Nat /\ k2.rcv_nxt \in Nat /\ r.rcv_nxt \in Nat
    BY <1>2, <1>4, Fields
  <2>2. QED  BY <1>2, <1>4, <1>5, <2>1
<1>9. Sends(l, nl) /\ Receives(l, k.snd_nxt, ml) /\ Remembers(l, k) /\ out \in Seq(Seq(Packets(k)))
  BY DEF Linked
<1>10. Receives(l, r.snd_nxt, ml)
  <2>1. PICK a \in Nat, b \in Nat : a = k.snd_nxt /\ b = r.snd_nxt  BY <1>8
  <2>2. Receives(l, b, ml)  BY <1>8, <1>9, <2>1, ReceivesMore
  <2>3. QED  BY <2>1, <2>2
<1>11. Remembers(l, r)  BY <1>8, <1>9 DEF Remembers
<1>12. out \o sent \in Seq(Seq(Packets(r)))
  <2>1. PICK P, P0, P2 : P = Packets(r) /\ P0 = Packets(k) /\ P2 = Packets(k2)  OBVIOUS
  <2>2. P0 \subseteq P  BY <1>4, <1>8, <2>1, PacketsGrow
  <2>3. P2 \subseteq P
    <3>1. k2.snd_nxt <= r.snd_nxt
      <4>1. r.snd_nxt \in Nat  BY <1>8
      <4>2. QED  BY <1>5, <4>1
    <3>2. QED  BY <1>2, <1>4, <2>1, <3>1, PacketsGrow
  <2>4. out \in Seq(Seq(P0)) /\ sent \in Seq(Seq(P2))  BY <1>9, <2>1
  <2>5. out \in Seq(Seq(P)) /\ sent \in Seq(Seq(P))  BY <2>2, <2>3, <2>4, SeqOfMore
  <2>6. PICK Q : Q = Seq(P)  OBVIOUS
  <2>7. out \in Seq(Q) /\ sent \in Seq(Q)  BY <2>5, <2>6
  <2>8. out \o sent \in Seq(Q)  BY <2>7
  <2>9. QED  BY <2>1, <2>6, <2>8
<1>13. Linked(l, r, nl, ml, out \o sent)  BY <1>9, <1>10, <1>11, <1>12 DEF Linked
<1>14. QED  BY <1>3, <1>7, <1>13

\* rx_buf after kcp_drain_recv
LEMMA AccountedDrained ==
  ASSUME NEW out, NEW handed, NEW dropped, NEW buf, NEW n, rxBuf \in Nat,
         Accounted(out, handed, dropped, buf, rxBuf, n),
         NEW k, NEW nxt, NEW d \in Drains(k, nxt, Len(out), n)
  PROVE  \E x \in Nat : Accounted(out \o d.got, handed, dropped \o d.emptied, d.rx, rxBuf, x)
<1>1. PICK m \in Nat : m = Len(out)  BY LenProperties DEF Accounted
<1>2. /\ out \in Seq(Nat) /\ handed \in Seq(Nat) /\ dropped \in Seq(Nat) /\ buf \in Seq(AnyPiece)
      /\ out = UpTo(0, m) /\ n \in 0 .. m
      /\ ToSet(handed) \cup ToSet(dropped) = 1 .. n /\ Len(handed) + Len(dropped) = n
      /\ \A i, j \in DOMAIN handed : i < j => handed[i] < handed[j]
      /\ rxBuf % Parts # 0 => dropped = <<>>
  BY <1>1 DEF Accounted
<1>3. PICK h : h = m + Len(d.got)  OBVIOUS
<1>4. /\ d.rx \in Seq(AnyPiece) /\ d.got \in Seq(Nat) /\ d.emptied \in Seq(Nat)
      /\ d.got = UpTo(m, h) /\ Len(d.rx) <= rxBuf
      /\ \/ d.emptied = <<>> /\ Carries(d.rx, UpTo(n, h))
         \/ d.rx = <<>> /\ d.emptied = UpTo(n, h) /\ rxBuf % Parts = 0
  BY <1>1, <1>3 DEF Drains
<1>5. h \in Nat /\ m <= h /\ n \in Nat /\ n <= h /\ n \in 0 .. h
  <2>1. Len(d.got) \in Nat  BY <1>4, LenProperties
  <2>2. QED  BY <1>2, <1>3, <2>1
<1>6. PICK o : o = out \o d.got  OBVIOUS
<1>7. o = UpTo(0, h) /\ o \in Seq(Nat) /\ Len(o) = h
  <2>1. 0 \in Nat /\ 0 <= m /\ 0 <= h /\ h - 0 = h  BY <1>5
  <2>2. UpTo(0, m) \o UpTo(m, h) = UpTo(0, h)  BY <1>5, <2>1, UpToJoined, Zenon
  <2>3. UpTo(0, h) \in Seq(Nat) /\ Len(UpTo(0, h)) = h - 0  BY <1>5, <2>1, UpToIs
  <2>4. QED  BY <1>2, <1>4, <1>6, <2>1, <2>2, <2>3
<1>8. CASE d.emptied = <<>> /\ Carries(d.rx, UpTo(n, h))
  <2>1. dropped \o d.emptied = dropped  BY <1>2, <1>8
  <2>2. Accounted(o, handed, dropped, d.rx, rxBuf, n)
    BY <1>2, <1>4, <1>5, <1>7, <1>8 DEF Accounted
  <2>3. QED  BY <1>5, <1>6, <2>1, <2>2
<1>9. CASE d.rx = <<>> /\ d.emptied = UpTo(n, h) /\ rxBuf % Parts = 0
  <2>1. PICK e : e = dropped \o d.emptied  OBVIOUS
  <2>2. e \in Seq(Nat) /\ ToSet(e) = ToSet(dropped) \cup ToSet(d.emptied) /\ Joins(e, dropped, d.emptied)
    <3>1. PICK u : u = d.emptied  OBVIOUS
    <3>2. u \in Seq(Nat)  BY <1>4, <3>1
    <3>3. dropped \o u \in Seq(Nat) /\ Joins(dropped \o u, dropped, u)
      BY <1>2, <3>2, Joined
    <3>4. ToSet(dropped \o u) = ToSet(dropped) \cup ToSet(u)  BY <1>2, <3>2, InJoined
    <3>5. QED  BY <2>1, <3>1, <3>3, <3>4
  <2>3. Len(d.emptied) = h - n /\ ToSet(d.emptied) = n + 1 .. h
    <3>1. PICK u : u = UpTo(n, h)  OBVIOUS
    <3>2. n \in Nat /\ h \in Nat /\ n <= h  BY <1>5
    <3>3. Len(u) = h - n /\ ToSet(u) = n + 1 .. h  BY <3>1, <3>2, UpToIs
    <3>4. QED  BY <1>9, <3>1, <3>3
  <2>4. ToSet(handed) \cup ToSet(e) = 1 .. h
    <3>1. (1 .. n) \cup (n + 1 .. h) = 1 .. h  BY <1>5
    <3>2. QED  BY <1>2, <2>2, <2>3, <3>1
  <2>5. Len(handed) + Len(e) = h
    <3>1. Len(handed) \in Nat /\ Len(dropped) \in Nat  BY <1>2, LenProperties
    <3>2. Len(e) = Len(dropped) + Len(d.emptied)  BY <2>2 DEF Joins
    <3>3. Len(handed) + Len(dropped) = n /\ Len(e) = Len(dropped) + (h - n)
      BY <1>2, <2>3, <3>2
    <3>4. QED  BY <1>5, <3>1, <3>3
  <2>6. Carries(d.rx, UpTo(h, h))
    <3>1. UpTo(h, h) = <<>>  BY <1>5, UpToMore
    <3>2. QED  BY <1>9, <3>1, NothingCarried
  <2>7. h \in 0 .. h  BY <1>5
  <2>8. Accounted(o, handed, e, d.rx, rxBuf, h)
    BY <1>2, <1>4, <1>5, <1>7, <1>9, <2>2, <2>4, <2>5, <2>6, <2>7 DEF Accounted
  <2>9. QED  BY <1>5, <1>6, <2>1, <2>8
<1>10. QED  BY <1>4, <1>8, <1>9

\* What rx_buf holds is handed on.
LEMMA AccountedHanded ==
  ASSUME NEW out, NEW handed, NEW dropped, NEW buf, NEW size \in Nat, NEW n,
         Accounted(out, handed, dropped, buf, size, n)
  PROVE  \E x \in Nat : Accounted(out, handed \o Numbers(buf), dropped, <<>>, size, x)
<1>1. PICK m \in Nat : m = Len(out)  BY LenProperties DEF Accounted
<1>2. /\ out \in Seq(Nat) /\ handed \in Seq(Nat) /\ dropped \in Seq(Nat) /\ buf \in Seq(AnyPiece)
      /\ out = UpTo(0, m) /\ n \in 0 .. m /\ Carries(buf, UpTo(n, m))
      /\ ToSet(handed) \cup ToSet(dropped) = 1 .. n /\ Len(handed) + Len(dropped) = n
      /\ \A i, j \in DOMAIN handed : i < j => handed[i] < handed[j]
      /\ size % Parts # 0 => dropped = <<>>
  BY <1>1 DEF Accounted
<1>3. n \in Nat /\ n <= m  BY <1>2
<1>4. PICK u : u = UpTo(n, m)  OBVIOUS
<1>5. /\ u \in Seq(Nat) /\ Len(u) = m - n /\ ToSet(u) = n + 1 .. m
      /\ \A i \in 1 .. m - n : u[i] = n + i
  BY <1>3, <1>4, UpToIs
<1>6. Numbers(buf) = u  BY <1>2, <1>4, <1>5, NumbersOf
<1>7. PICK g : g = handed \o u  OBVIOUS
<1>8. g \in Seq(Nat) /\ Joins(g, handed, u) /\ ToSet(g) = ToSet(handed) \cup ToSet(u)
  <2>1. handed \o u \in Seq(Nat) /\ Joins(handed \o u, handed, u)  BY <1>2, <1>5, Joined
  <2>2. ToSet(handed \o u) = ToSet(handed) \cup ToSet(u)  BY <1>2, <1>5, InJoined
  <2>3. QED  BY <1>7, <2>1, <2>2
<1>9. ToSet(g) \cup ToSet(dropped) = 1 .. m
  <2>1. (1 .. n) \cup (n + 1 .. m) = 1 .. m  BY <1>3
  <2>2. QED  BY <1>2, <1>5, <1>8, <2>1
<1>10. Len(handed) \in Nat /\ Len(dropped) \in Nat  BY <1>2, LenProperties
<1>11. Len(g) + Len(dropped) = m
  <2>1. Len(g) = Len(handed) + Len(u)  BY <1>8 DEF Joins
  <2>2. Len(g) = Len(handed) + (m - n) /\ Len(handed) + Len(dropped) = n  BY <1>2, <1>5, <2>1
  <2>3. QED  BY <1>3, <1>10, <2>2
<1>12. ASSUME NEW i \in DOMAIN g, NEW j \in DOMAIN g, i < j  PROVE g[i] < g[j]
  <2>1. DOMAIN g = 1 .. Len(handed) + Len(u) /\ DOMAIN handed = 1 .. Len(handed)
    BY <1>2, <1>8, LenProperties DEF Joins
  <2>2. \A x \in 1 .. Len(handed) : handed[x] \in 1 .. n
    <3> TAKE x \in 1 .. Len(handed)
    <3>1. handed[x] \in ToSet(handed)  BY <2>1 DEF ToSet
    <3>2. QED  BY <1>2, <3>1
  <2>3. CASE j <= Len(handed)
    <3>1. i \in DOMAIN handed /\ j \in DOMAIN handed  BY <1>10, <1>12, <2>1, <2>3
    <3>2. g[i] = handed[i] /\ g[j] = handed[j]  BY <1>8, <2>1, <3>1 DEF Joins
    <3>3. QED  BY <1>2, <1>12, <3>1, <3>2
  <2>4. CASE j > Len(handed)
    <3>1. PICK y \in 1 .. Len(u) : j = Len(handed) + y
      <4>1. j - Len(handed) \in 1 .. Len(u)  BY <1>3, <1>5, <1>10, <2>1, <2>4
      <4>2. j = Len(handed) + (j - Len(handed))  BY <1>10, <2>1
      <4>3. QED  BY <4>1, <4>2
    <3>2. g[j] = n + y  BY <1>5, <1>8, <3>1 DEF Joins
    <3>3. CASE i <= Len(handed)
      <4>1. i \in 1 .. Len(handed)  BY <1>10, <2>1, <3>3
      <4>2. g[i] = handed[i]  BY <1>8, <4>1 DEF Joins
      <4>3. QED  BY <1>3, <1>5, <2>2, <3>1, <3>2, <4>1, <4>2
    <3>4. CASE i > Len(handed)
      <4>1. PICK x \in 1 .. Len(u) : i = Len(handed) + x
        <5>1. i - Len(handed) \in 1 .. Len(u)  BY <1>3, <1>5, <1>10, <2>1, <3>4
        <5>2. i = Len(handed) + (i - Len(handed))  BY <1>10, <2>1
        <5>3. QED  BY <5>1, <5>2
      <4>2. g[i] = n + x  BY <1>5, <1>8, <4>1 DEF Joins
      <4>3. x < y  BY <1>3, <1>5, <1>10, <1>12, <3>1, <4>1
      <4>4. QED  BY <1>3, <1>5, <3>1, <3>2, <4>1, <4>2, <4>3
    <3>5. QED  BY <1>10, <2>1, <3>3, <3>4
  <2>5. QED  BY <1>10, <2>1, <2>3, <2>4
<1>13. Carries(<<>>, UpTo(m, m)) /\ <<>> \in Seq(AnyPiece) /\ Len(<<>>) = 0 /\ 0 <= size
  <2>1. UpTo(m, m) = <<>>
    <3>1. m \in Nat /\ m <= m  OBVIOUS
    <3>2. QED  BY <3>1, UpToMore, Zenon
  <2>2. QED  BY <2>1, NothingCarried
<1>14. m \in 0 .. m  OBVIOUS
<1>15. Accounted(out, g, dropped, <<>>, size, m)
  BY <1>1, <1>2, <1>8, <1>9, <1>11, <1>12, <1>13, <1>14 DEF Accounted
<1>16. QED  BY <1>6, <1>7, <1>15

LEMMA Peers == \A b \in Boards : Peer(b) \in Boards /\ Peer(b) # b /\ Peer(Peer(b)) = b /\ Boards = {b, Peer(b)}
BY DEF Boards, Peer

\* A step makes control block k1 of board b into k2, sends some packets and drains k2.
Flushes(b, k1, nxt, m, inbox, caller) ==
  \E k2, sent :
    /\ k2 = k1 \/ k2 = Flushed(k1)
    /\ k2 \in Blocks /\ Receives(k2, nxt, m) /\ sent \in Seq(Seq(Packets(k2)))
    /\ Drain(b, k2, caller) /\ faults' \in 0 .. MaxFaults
    /\ DOMAIN net' = Boards /\ net'[b] = inbox /\ net'[Peer(b)] = net[Peer(b)] \o sent

LEMMA EachFlushes ==
  ASSUME NEW b \in Boards, NEW k1 \in Blocks, NEW n, Sends(k1, n), NEW nxt, NEW m,
         Receives(k1, nxt, m), NEW inbox, NEW caller, UpdateSession(b, k1, inbox, caller),
         DOMAIN net = Boards, net[Peer(b)] \in Seq(Seq(AnyPacket)), faults \in 0 .. MaxFaults
  PROVE  Flushes(b, k1, nxt, m, inbox, caller)
<1>1. CASE NotYet(b, k1, inbox, caller)
  <2>1. PICK none : none = <<>>  OBVIOUS
  <2>2. none \in Seq(Seq(Packets(k1)))  BY <2>1
  <2>3. /\ Drain(b, k1, caller) /\ faults' \in 0 .. MaxFaults
        /\ DOMAIN net' = Boards /\ net'[b] = inbox /\ net'[Peer(b)] = net[Peer(b)]
    BY <1>1, Peers DEF NotYet
  <2>4. net'[Peer(b)] = net[Peer(b)] \o none
    <3>1. PICK S, q : S = Seq(AnyPacket) /\ q = net[Peer(b)]  OBVIOUS
    <3>2. q \in Seq(S)  BY <3>1
    <3>3. q \o <<>> = q  BY <3>2, ConcatEmptySeq
    <3>4. QED  BY <2>1, <2>3, <3>1, <3>3
  <2>5. QED  BY <1>1, <2>2, <2>3, <2>4 DEF Flushes, NotYet
<1>2. CASE \E again \in SUBSET Unacknowledged(k1) : \E due \in {FALSE, k1.waiting} :
             Flush(b, k1, inbox, again, due, caller)
  <2>1. PICK again, due : Flush(b, k1, inbox, again, due, caller)  BY <1>2, Zenon
  <2>2. PICK k2 : k2 = Flushed(k1)  OBVIOUS
  <2>3. /\ k2 \in Blocks /\ k2.rcv_queue = k1.rcv_queue /\ k2.rcv_buf = k1.rcv_buf
        /\ k2.rcv_nxt = k1.rcv_nxt /\ k2.acks = <<>>
    BY <2>2, FlushedIs
  <2>4. ToSet(k2.acks) \subseteq Received(k2)
    <3>1. DOMAIN k2.acks = {}  BY <2>3
    <3>2. QED  BY <3>1 DEF ToSet
  <2>5. Receives(k2, nxt, m)  BY <2>3, <2>4 DEF Receives
  <2>6. PICK segments : segments = Outgoing(k1, again, due)  OBVIOUS
  <2>7. segments \in Seq(Packets(k2))  BY <2>2, <2>6, OutgoingIs
  <2>8. PICK sent : sent = Packed(segments)  OBVIOUS
  <2>9. sent \in Seq(Seq(Packets(k2)))  BY <2>7, <2>8, PackedIs
  <2>10. /\ Drain(b, k2, caller)
         /\ DOMAIN net' = Boards /\ net'[b] = inbox /\ net'[Peer(b)] = net[Peer(b)] \o sent
    BY <2>1, <2>2, <2>6, <2>8, Peers DEF Flush
  <2>11. faults' \in 0 .. MaxFaults
    <3>1. TimesOut(again, due)  BY <2>1 DEF Flush
    <3>2. faults' = faults \/ (faults < MaxFaults /\ faults' = faults + 1)  BY <3>1 DEF TimesOut
    <3>3. MaxFaults \in Nat  BY KcpAssumption DEF KcpAssumption
    <3>4. QED  BY <3>2, <3>3
  <2>12. QED  BY <2>2, <2>3, <2>5, <2>9, <2>10, <2>11 DEF Flushes
<1>3. QED  BY <1>1, <1>2 DEF UpdateSession

\* Board b, and no other, may have taken more frames from its session.
Grew(b) == got'[Peer(b)] = got[Peer(b)] /\ Len(got[b]) <= Len(got'[b])

\* What kcp_update_session makes of the sessions and of the frames, when k1 is the control block
\* of board b with what came in or was put, up to n frames
LEMMA Updated ==
  ASSUME Inv, NEW b \in Boards, NEW n \in Nat, NEW caller,
         NEW k1 \in Heard(kcp[b], n, kcp[Peer(b)], Len(got[b])),
         NEW inbox \in Seq(Seq(Packets(kcp[Peer(b)]))), UpdateSession(b, k1, inbox, caller)
  PROVE  /\ DOMAIN kcp' = Boards /\ DOMAIN net' = Boards /\ DOMAIN rx' = Boards
         /\ DOMAIN got' = Boards /\ DOMAIN given' = Boards /\ DOMAIN emptied' = Boards
         /\ rxBuf' = rxBuf /\ faults' \in 0 .. MaxFaults
         /\ Linked(kcp'[b], kcp'[Peer(b)], n, Len(got'[b]), net'[b])
         /\ Linked(kcp'[Peer(b)], kcp'[b], Len(put[Peer(b)]), Len(got'[Peer(b)]), net'[Peer(b)])
         /\ \A c \in Boards : \E x \in Nat : Accounted(got'[c], given'[c], emptied'[c], rx'[c], rxBuf, x)
         /\ Grew(b)
<1>1. PICK c \in Boards : c = Peer(b) /\ c # b /\ Peer(c) = b /\ Boards = {b, c}  BY Peers
<1>2. PICK k, l, m : k = kcp[b] /\ l = kcp[c] /\ m = Len(got[b])  OBVIOUS
<1>3. Session(b) /\ Session(c) /\ Delivered(b) /\ Delivered(c) /\ Tables /\ rxBuf \in RxBufs
      /\ faults \in 0 .. MaxFaults
  BY DEF Inv
<1>4. PICK nl, ml, out : nl = Len(put[c]) /\ ml = Len(got[c]) /\ out = net[c]  OBVIOUS
<1>5. k \in Blocks /\ l \in Blocks /\ Linked(l, k, nl, ml, out)
  <2>1. Linked(l, k, nl, ml, out)  BY <1>1, <1>2, <1>3, <1>4 DEF Session
  <2>2. k \in Blocks  BY <1>1, <1>2, <1>3 DEF Session, Linked
  <2>3. QED  BY <2>1, <2>2 DEF Linked
<1>6. rxBuf \in Nat  BY <1>3, KcpAssumption DEF KcpAssumption
<1>7. PICK first \in Nat : Accounted(got[b], given[b], emptied[b], rx[b], rxBuf, first)
  BY <1>3 DEF Delivered
<1>8. m \in Nat /\ first <= m /\ rx[b] \in Seq(AnyPiece) /\ Len(rx[b]) <= rxBuf
      /\ Carries(rx[b], UpTo(first, m))
  <2>1. m \in Nat
    <3>1. got[b] \in Seq(Nat)  BY <1>7 DEF Accounted
    <3>2. QED  BY <1>2, <3>1, LenProperties
  <2>2. first \in 0 .. m  BY <1>2, <1>7 DEF Accounted
  <2>3. QED  BY <1>2, <1>7, <2>1, <2>2 DEF Accounted
<1>9. k1 \in Heard(k, n, l, m) /\ inbox \in Seq(Seq(Packets(l)))  BY <1>1, <1>2
<1>10. k1 \in Blocks /\ Sends(k1, n) /\ Receives(k1, l.snd_nxt, m)  BY <1>9 DEF Heard
<1>11. net[c] \in Seq(Seq(AnyPacket))
  <2>1. out \in Seq(Seq(Packets(k)))  BY <1>5 DEF Linked
  <2>2. Packets(k) \subseteq AnyPacket  BY DEF Packets
  <2>3. QED  BY <1>4, <2>1, <2>2, SeqOfMore
<1>12. PICK k2, sent :
         /\ k2 = k1 \/ k2 = Flushed(k1)
         /\ k2 \in Blocks /\ Receives(k2, l.snd_nxt, m) /\ sent \in Seq(Seq(Packets(k2)))
         /\ Drain(b, k2, caller) /\ faults' \in 0 .. MaxFaults
         /\ DOMAIN net' = Boards /\ net'[b] = inbox /\ net'[c] = net[c] \o sent
  <2>1. DOMAIN net = Boards  BY <1>3 DEF Tables
  <2>2. PICK nxt : nxt = l.snd_nxt  OBVIOUS
  <2>3. Receives(k1, nxt, m)  BY <1>10, <2>2
  <2>4. net[Peer(b)] \in Seq(Seq(AnyPacket))  BY <1>1, <1>11
  <2>5. Flushes(b, k1, nxt, m, inbox, caller)
    <3>1. k1 \in Blocks /\ Sends(k1, n) /\ faults \in 0 .. MaxFaults  BY <1>3, <1>10
    <3>2. UpdateSession(b, k1, inbox, caller)  OBVIOUS
    <3>3. QED  BY <2>1, <2>3, <2>4, <3>1, <3>2, EachFlushes, Zenon
  <2>6. QED  BY <1>1, <2>2, <2>5 DEF Flushes
<1>13. PICK d : d = Drained(k2, rx[b])  OBVIOUS
<1>14. d \in Drains(k2, l.snd_nxt, m, first)
  <2>1. PICK nxt \in Nat : nxt = l.snd_nxt  BY <1>5, Fields
  <2>2. Receives(k2, nxt, m)  BY <1>12, <2>1
  <2>3. QED  BY <1>6, <1>8, <1>12, <1>13, <2>1, <2>2, AllDrained
<1>15. /\ kcp' = [kcp EXCEPT ![b] = d.k] /\ got' = [got EXCEPT ![b] = @ \o d.got]
       /\ emptied' = [emptied EXCEPT ![b] = @ \o d.emptied]
       /\ IF caller = "recv" THEN HandsOn(b, d.rx) ELSE Keeps(b, d.rx)
  BY <1>12, <1>13 DEF Drain
<1>16. /\ DOMAIN kcp' = Boards /\ DOMAIN got' = Boards /\ DOMAIN emptied' = Boards
       /\ DOMAIN rx' = Boards /\ DOMAIN given' = Boards /\ rxBuf' = rxBuf
       /\ rx'[c] = rx[c] /\ given'[c] = given[c] /\ emptied'[c] = emptied[c] /\ got'[c] = got[c]
       /\ kcp'[c] = l /\ kcp'[b] = d.k
       /\ got'[b] = got[b] \o d.got /\ emptied'[b] = emptied[b] \o d.emptied
  BY <1>1, <1>2, <1>3, <1>15 DEF Tables, HandsOn, Keeps
<1>17. Len(got'[b]) = m + Len(d.got)
  <2>1. got[b] \in Seq(Nat)  BY <1>7 DEF Accounted
  <2>2. d.got \in Seq(Nat)  BY <1>14 DEF Drains
  <2>3. QED  BY <1>2, <1>16, <2>1, <2>2, ConcatProperties
<1>18. Linked(d.k, l, n, m + Len(d.got), inbox) /\ Linked(l, d.k, nl, ml, out \o sent)
  BY <1>5, <1>8, <1>9, <1>12, <1>14, LinkUpdated
<1>19. Linked(kcp'[b], kcp'[c], n, Len(got'[b]), net'[b])
  BY <1>12, <1>16, <1>17, <1>18
<1>20. Linked(kcp'[c], kcp'[b], Len(put[c]), Len(got'[c]), net'[c])
  BY <1>4, <1>12, <1>16, <1>18
<1>21. PICK y \in Nat :
         Accounted(got[b] \o d.got, given[b], emptied[b] \o d.emptied, d.rx, rxBuf, y)
  BY <1>2, <1>6, <1>7, <1>14, AccountedDrained
<1>22. \E x \in Nat : Accounted(got'[b], given'[b], emptied'[b], rx'[b], rxBuf, x)
  <2>1. CASE caller = "recv"
    <3>1. HandsOn(b, d.rx)  BY <1>15, <2>1
    <3>2. rx'[b] = <<>> /\ given'[b] = given[b] \o Numbers(d.rx)
      BY <1>3, <3>1 DEF HandsOn, Copied, Tables
    <3>3. PICK o, e, g : o = got[b] \o d.got /\ e = emptied[b] \o d.emptied /\ g = given[b]
      OBVIOUS
    <3>4. Accounted(o, g, e, d.rx, rxBuf, y)  BY <1>21, <3>3
    <3>5. \E x \in Nat : Accounted(o, g \o Numbers(d.rx), e, <<>>, rxBuf, x)
      BY <1>6, <3>4, AccountedHanded
    <3>6. QED  BY <1>16, <3>2, <3>3, <3>5
  <2>2. CASE caller # "recv"
    <3>1. Keeps(b, d.rx)  BY <1>15, <2>2
    <3>2. rx'[b] = d.rx /\ given' = given  BY <1>3, <3>1 DEF Keeps, Tables
    <3>3. QED  BY <1>16, <1>21, <3>2
  <2>3. QED  BY <2>1, <2>2
<1>23. \E x \in Nat : Accounted(got'[c], given'[c], emptied'[c], rx'[c], rxBuf, x)
  BY <1>3, <1>16 DEF Delivered
<1>24. Grew(b)
  <2>1. d.got \in Seq(Nat)  BY <1>14 DEF Drains
  <2>2. PICK e \in Nat : e = Len(d.got)  BY <2>1, LenProperties
  <2>3. m <= m + e  BY <1>8
  <2>4. Len(got[b]) <= Len(got'[b])  BY <1>2, <1>17, <2>2, <2>3
  <2>5. QED  BY <1>1, <1>16, <2>4 DEF Grew
<1>25. QED  BY <1>1, <1>12, <1>16, <1>19, <1>20, <1>22, <1>23, <1>24

-----------------------------------------------------------------------------
(* Every step                                                                 *)

LEMMA InitInv == Init => Inv
<1> SUFFICES ASSUME Init  PROVE Inv  OBVIOUS
<1>1. PICK none : none = <<>>  OBVIOUS
<1>2. /\ none \in Seq(AnyChunk) /\ none \in Seq(AnySegment) /\ none \in Seq(Nat)
      /\ none \in Seq(AnyPiece) /\ Len(none) = 0 /\ DOMAIN none = {} /\ ToSet(none) = {}
  BY <1>1 DEF ToSet
<1>3. PICK k : k = Created  OBVIOUS
<1>4. /\ k.snd_queue = none /\ k.snd_buf = none /\ k.snd_una = 0 /\ k.snd_nxt = 0
      /\ k.rcv_queue = none /\ k.rcv_buf = none /\ k.rcv_nxt = 0 /\ k.acks = none
  BY <1>1, <1>3 DEF Created
<1>5. k \in Blocks
  <2>1. RmtWnd \in Nat  BY IkcpAssumption DEF IkcpAssumption
  <2>2. QED  BY <1>1, <1>2, <1>3, <2>1 DEF Created, Blocks
<1>6. /\ PerFrame * 0 = 0 /\ SndWnd \in Nat /\ RcvWnd \in Nat /\ 0 - 0 = 0 /\ 0 + 0 = 0
  BY Fragmented, IkcpAssumption DEF IkcpAssumption
<1>7. Numbered(none, 0, 0) /\ Consecutive(none, 0)  BY <1>2 DEF Numbered, Consecutive
<1>8. Sends(k, 0)  BY <1>2, <1>4, <1>6, <1>7 DEF Sends
<1>9. Receives(k, 0, 0)
  <2>1. ToSet(k.acks) \subseteq Received(k)  BY <1>2, <1>4
  <2>2. \A i \in DOMAIN k.rcv_buf : k.rcv_buf[i].sn < k.rcv_nxt + RcvWnd  BY <1>2, <1>4
  <2>3. QED  BY <1>2, <1>4, <1>6, <1>7, <2>1, <2>2 DEF Receives
<1>10. Linked(k, k, 0, 0, none)
  <2>1. 0 .. k.snd_nxt - 1 = {}  BY <1>4
  <2>2. Remembers(k, k)  BY <2>1 DEF Remembers
  <2>3. none \in Seq(Seq(Packets(k)))  BY <1>1
  <2>4. QED  BY <1>4, <1>5, <1>8, <1>9, <2>2, <2>3 DEF Linked
<1>11. UpTo(0, 0) = none
  <2>1. 0 \in Nat /\ 0 <= 0  OBVIOUS
  <2>2. QED  BY <1>1, <2>1, UpToMore, Zenon
<1>12. rxBuf \in RxBufs /\ rxBuf \in Nat  BY KcpAssumption DEF Init, KcpAssumption
<1>13. Accounted(none, none, none, none, rxBuf, 0)
  <2>1. Carries(none, none)  BY <1>1, NothingCarried
  <2>2. 1 .. 0 = {} /\ 0 \in 0 .. 0 /\ 0 <= rxBuf  BY <1>12
  <2>3. QED  BY <1>1, <1>2, <1>6, <1>11, <2>1, <2>2 DEF Accounted
<1>14. /\ Tables /\ faults = 0
       /\ \A b \in Boards : /\ kcp[b] = k /\ kcp[Peer(b)] = k /\ net[b] = none /\ put[b] = none
                            /\ got[b] = none /\ given[b] = none /\ emptied[b] = none
                            /\ rx[b] = none /\ step[b] = "idle"
  BY <1>1, <1>3, Peers DEF Init, Each, Tables
<1>15. faults \in 0 .. MaxFaults  BY <1>14, KcpAssumption DEF KcpAssumption
<1>16. ASSUME NEW b \in Boards  PROVE Session(b) /\ Delivered(b)
  <2>1. Session(b)  BY <1>2, <1>10, <1>14 DEF Session
  <2>2. MaxSent[b] \in Nat  BY KcpAssumption DEF KcpAssumption
  <2>3. Delivered(b)
    <3>1. none \in Seq(Nat) /\ none = UpTo(0, Len(none)) /\ Len(none) <= MaxSent[b]
      BY <1>2, <1>11, <2>2
    <3>2. Accounted(got[b], given[b], emptied[b], rx[b], rxBuf, 0)  BY <1>13, <1>14
    <3>3. 0 \in Nat  OBVIOUS
    <3>4. put[b] = none /\ step[b] = "idle"  BY <1>14
    <3>5. QED  BY <3>1, <3>2, <3>3, <3>4 DEF Delivered
  <2>4. QED  BY <2>1, <2>3
<1>17. QED  BY <1>12, <1>14, <1>15, <1>16 DEF Inv

Waits == DOMAIN step = Boards /\ \A b \in Boards : step[b] \in {"idle", "recv"}

\* A step of board b that updates its session, after which it was given n frames
LEMMA StepKeeps ==
  ASSUME Inv, NEW b \in Boards, NEW n \in Nat, NEW caller,
         NEW k1 \in Heard(kcp[b], n, kcp[Peer(b)], Len(got[b])),
         NEW inbox \in Seq(Seq(Packets(kcp[Peer(b)]))), UpdateSession(b, k1, inbox, caller),
         DOMAIN put' = Boards, put'[b] \in Seq(Nat), Len(put'[b]) = n, put'[b] = UpTo(0, n),
         n <= MaxSent[b], put'[Peer(b)] = put[Peer(b)], Waits'
  PROVE  Inv' /\ Grew(b)
<1>1. PICK c \in Boards : c = Peer(b) /\ c # b /\ Peer(c) = b /\ Boards = {b, c}  BY Peers
<1>2. /\ DOMAIN kcp' = Boards /\ DOMAIN net' = Boards /\ DOMAIN rx' = Boards
      /\ DOMAIN got' = Boards /\ DOMAIN given' = Boards /\ DOMAIN emptied' = Boards
      /\ rxBuf' = rxBuf /\ faults' \in 0 .. MaxFaults
      /\ Linked(kcp'[b], kcp'[c], n, Len(got'[b]), net'[b])
      /\ Linked(kcp'[c], kcp'[b], Len(put[c]), Len(got'[c]), net'[c])
      /\ \A a \in Boards : \E x \in Nat : Accounted(got'[a], given'[a], emptied'[a], rx'[a], rxBuf, x)
      /\ Grew(b)
  BY <1>1, Updated
<1>3. Tables'  BY <1>2 DEF Tables, Waits
<1>4. rxBuf' \in RxBufs /\ Delivered(c)  BY <1>2 DEF Inv
<1>5. Session(b)'  BY <1>1, <1>2 DEF Session, Peer
<1>6. Session(c)'  BY <1>1, <1>2 DEF Session, Peer
<1>7. Delivered(b)'  BY <1>2 DEF Delivered, Waits
<1>8. Delivered(c)'  BY <1>1, <1>2, <1>4 DEF Delivered, Waits
<1>9. \A a \in Boards : (Session(a) /\ Delivered(a))'  BY <1>1, <1>5, <1>6, <1>7, <1>8
<1>10. QED  BY <1>2, <1>3, <1>4, <1>9 DEF Inv

\* What is known of one board and its peer
LEMMA InvAt ==
  ASSUME Inv, NEW b \in Boards
  PROVE  /\ kcp[b] \in Blocks /\ Sends(kcp[b], Len(put[b])) /\ kcp[Peer(b)] \in Blocks
         /\ kcp[b] \in Heard(kcp[b], Len(put[b]), kcp[Peer(b)], Len(got[b]))
         /\ net[b] \in Seq(Seq(Packets(kcp[Peer(b)])))
         /\ Len(put[b]) \in Nat /\ Len(got[b]) \in Nat /\ Len(net[b]) \in Nat
         /\ DOMAIN net[b] = 1 .. Len(net[b]) /\ DOMAIN put = Boards
         /\ put[b] \in Seq(Nat) /\ put[b] = UpTo(0, Len(put[b])) /\ Len(put[b]) <= MaxSent[b]
         /\ Waits /\ MaxSent[b] \in Nat
<1>1. Session(b) /\ Session(Peer(b)) /\ Tables /\ \A c \in Boards : Delivered(c)
  BY Peers DEF Inv
<1>2. /\ kcp[b] \in Blocks /\ Sends(kcp[b], Len(put[b]))
      /\ Receives(kcp[b], kcp[Peer(b)].snd_nxt, Len(got[b])) /\ Remembers(kcp[b], kcp[Peer(b)])
      /\ net[b] \in Seq(Seq(Packets(kcp[Peer(b)])))
  BY <1>1 DEF Session, Linked
<1>3. kcp[Peer(b)] \in Blocks  BY <1>1 DEF Session, Linked
<1>4. kcp[b] \in Heard(kcp[b], Len(put[b]), kcp[Peer(b)], Len(got[b]))
  <2>1. kcp[b].rcv_nxt <= kcp[b].rcv_nxt
    <3>1. kcp[b].rcv_nxt \in Nat  BY <1>2, Fields
    <3>2. QED  BY <3>1
  <2>2. QED  BY <1>2, <2>1 DEF Heard
<1>5. Len(net[b]) \in Nat /\ DOMAIN net[b] = 1 .. Len(net[b])
  <2>1. PICK S : S = Seq(Packets(kcp[Peer(b)]))  OBVIOUS
  <2>2. net[b] \in Seq(S)  BY <1>2, <2>1
  <2>3. QED  BY <2>2, LenProperties
<1>6. put[b] \in Seq(Nat) /\ put[b] = UpTo(0, Len(put[b])) /\ Len(put[b]) <= MaxSent[b]
  BY <1>1 DEF Delivered
<1>7. got[b] \in Seq(Nat)  BY <1>1 DEF Delivered, Accounted
<1>8. Len(put[b]) \in Nat /\ Len(got[b]) \in Nat  BY <1>6, <1>7, LenProperties
<1>9. Waits  BY <1>1 DEF Delivered, Tables, Waits
<1>10. MaxSent[b] \in Nat  BY KcpAssumption DEF KcpAssumption
<1>11. DOMAIN put = Boards  BY <1>1 DEF Tables
<1>12. QED  BY <1>2, <1>3, <1>4, <1>5, <1>6, <1>8, <1>9, <1>10, <1>11

LEMMA SendKeeps ==
  ASSUME Inv, NEW b \in Boards, SendFrame(b)
  PROVE  Inv' /\ Grew(b)
<1>1. PICK n \in Nat : n = Len(put[b])  BY InvAt
<1>2. /\ n < MaxSent[b] /\ put' = [put EXCEPT ![b] = Append(@, n + 1)]
      /\ UpdateSession(b, Send(kcp[b], Frame(n + 1)), net[b], "other") /\ step' = step
  BY <1>1 DEF SendFrame
<1>3. PICK k, l : k = kcp[b] /\ l = kcp[Peer(b)]  OBVIOUS
<1>4. PICK k1 : k1 = Send(k, Frame(n + 1))  OBVIOUS
<1>5. PICK x \in Nat : x = n + 1  OBVIOUS
<1>6. PICK m : m = Len(got[b])  OBVIOUS
<1>7. /\ k \in Blocks /\ Sends(k, n) /\ k \in Heard(k, n, l, m)
  BY <1>1, <1>3, <1>6, InvAt
<1>8. k1 \in Blocks /\ Sends(k1, n + 1) /\ SameReceiver(k, k1) /\ k1.snd_nxt = k.snd_nxt
      /\ Unacknowledged(k1) = Unacknowledged(k)
  BY <1>4, <1>7, SentFrame
<1>9. k1 \in Heard(k, x, l, m)
  <2>1. Receives(k, l.snd_nxt, m) /\ Remembers(k, l) /\ k.rcv_nxt <= k.rcv_nxt  BY <1>7 DEF Heard
  <2>2. PICK nxt : nxt = l.snd_nxt  OBVIOUS
  <2>3. Receives(k1, nxt, m) /\ Received(k1) = Received(k)  BY <1>8, <2>1, <2>2, SameReceives
  <2>4. Remembers(k1, l)  BY <1>8, <2>1 DEF Remembers
  <2>5. k.rcv_nxt <= k1.rcv_nxt  BY <1>8, <2>1 DEF SameReceiver
  <2>6. QED  BY <1>5, <1>8, <2>2, <2>3, <2>4, <2>5 DEF Heard
<1>10. DOMAIN put' = Boards /\ put'[b] = Append(put[b], n + 1) /\ put'[Peer(b)] = put[Peer(b)]
  BY <1>2, InvAt, Peers
<1>11. put'[b] = UpTo(0, x) /\ put'[b] \in Seq(Nat) /\ Len(put'[b]) = x
  <2>1. 0 \in Nat /\ 0 <= n /\ 0 <= x /\ x - 0 = x  OBVIOUS
  <2>2. Append(UpTo(0, n), n + 1) = UpTo(0, n + 1)  BY <2>1, UpToMore, Zenon
  <2>3. put[b] = UpTo(0, n)  BY <1>1, InvAt
  <2>4. UpTo(0, x) \in Seq(Nat) /\ Len(UpTo(0, x)) = x - 0  BY <2>1, UpToIs
  <2>5. QED  BY <1>5, <1>10, <2>1, <2>2, <2>3, <2>4
<1>12. x <= MaxSent[b] /\ Waits'
  <2>1. MaxSent[b] \in Nat /\ Waits  BY InvAt
  <2>2. QED  BY <1>2, <1>5, <2>1 DEF Waits
<1>13. net[b] \in Seq(Seq(Packets(l)))  BY <1>3, InvAt
<1>14. UpdateSession(b, k1, net[b], "other")  BY <1>2, <1>3, <1>4
<1>15. QED  BY <1>3, <1>6, <1>9, <1>10, <1>11, <1>12, <1>13, <1>14, StepKeeps

\* A step of board b in which nothing is put
LEMMA OtherKeeps ==
  ASSUME Inv, NEW b \in Boards, NEW caller,
         NEW k1 \in Heard(kcp[b], Len(put[b]), kcp[Peer(b)], Len(got[b])),
         NEW inbox \in Seq(Seq(Packets(kcp[Peer(b)]))), UpdateSession(b, k1, inbox, caller),
         put' = put, Waits'
  PROVE  Inv' /\ Grew(b)
<1>1. PICK n \in Nat : n = Len(put[b])  BY InvAt
<1>2. /\ DOMAIN put = Boards /\ put[b] \in Seq(Nat) /\ put[b] = UpTo(0, n) /\ n <= MaxSent[b]
  BY <1>1, InvAt
<1>3. QED  BY <1>1, <1>2, StepKeeps

\* An event of the reactor wakes up the receive loop.
LEMMA EventKeeps ==
  ASSUME Inv, NEW b \in Boards, Tick(b) \/ Datagrams(b)
  PROVE  Inv' /\ Grew(b)
<1>1. PICK k, l, inbox : k = kcp[b] /\ l = kcp[Peer(b)] /\ inbox = net[b]  OBVIOUS
<1>2. PICK n, m : n = Len(put[b]) /\ m = Len(got[b])  OBVIOUS
<1>3. /\ k \in Blocks /\ l \in Blocks /\ n \in Nat /\ m \in Nat /\ k \in Heard(k, n, l, m)
      /\ inbox \in Seq(Seq(Packets(l))) /\ Len(inbox) \in Nat /\ DOMAIN inbox = 1 .. Len(inbox)
      /\ Waits
  BY <1>1, <1>2, InvAt
<1>4. Event(b)  BY DEF Tick, Datagrams
<1>5. put' = put /\ Waits'  BY <1>3, <1>4 DEF Event, Waits
<1>6. CASE Tick(b)
  <2>1. UpdateSession(b, k, inbox, "other")  BY <1>1, <1>6 DEF Tick
  <2>2. QED  BY <1>1, <1>2, <1>3, <1>5, <2>1, OtherKeeps
<1>7. CASE Datagrams(b)
  <2>1. PICK i \in DOMAIN inbox :
          UpdateSession(b, FoldLeft(Input, k, SubSeq(inbox, 1, i)),
                        SubSeq(inbox, i + 1, Len(inbox)), "other")
    BY <1>1, <1>7 DEF Datagrams
  <2>2. PICK came, left : came = SubSeq(inbox, 1, i) /\ left = SubSeq(inbox, i + 1, Len(inbox))
    OBVIOUS
  <2>3. came \in Seq(Seq(Packets(l))) /\ left \in Seq(Seq(Packets(l)))
    <3>1. PICK S : S = Seq(Packets(l))  OBVIOUS
    <3>2. inbox \in Seq(S) /\ i \in 0 .. Len(inbox)  BY <1>3, <3>1
    <3>3. came \in Seq(S) /\ left \in Seq(S)  BY <2>2, <3>2, Cut
    <3>4. QED  BY <3>1, <3>3
  <2>4. PICK k1 : k1 = FoldLeft(Input, k, came)  OBVIOUS
  <2>5. k1 \in Heard(k, n, l, m)
    <3>1. FoldLeft(Input, k, came) \in Heard(k, n, l, m)  BY <1>3, <2>3, AllHeard, Zenon
    <3>2. QED  BY <2>4, <3>1
  <2>6. UpdateSession(b, k1, left, "other")  BY <2>1, <2>2, <2>4
  <2>7. QED  BY <1>1, <1>2, <1>5, <2>3, <2>5, <2>6, OtherKeeps
<1>8. QED  BY <1>6, <1>7

LEMMA RecvKeeps ==
  ASSUME Inv, NEW b \in Boards, RecvFrames(b)
  PROVE  Inv' /\ Grew(b)
<1>1. PICK k, l, inbox : k = kcp[b] /\ l = kcp[Peer(b)] /\ inbox = net[b]  OBVIOUS
<1>2. /\ k \in Heard(k, Len(put[b]), l, Len(got[b])) /\ inbox \in Seq(Seq(Packets(l))) /\ Waits
  BY <1>1, InvAt
<1>3. put' = put /\ UpdateSession(b, k, inbox, "recv")  BY <1>1 DEF RecvFrames
<1>4. PICK k2 : Drain(b, k2, "recv")
  <2>1. CASE NotYet(b, k, inbox, "recv")  BY <2>1 DEF NotYet
  <2>2. CASE \E again \in SUBSET Unacknowledged(k) : \E due \in {FALSE, k.waiting} :
               Flush(b, k, inbox, again, due, "recv")
    <3>1. PICK again, due : Flush(b, k, inbox, again, due, "recv")  BY <2>2, Zenon
    <3>2. QED  BY <3>1 DEF Flush
  <2>3. QED  BY <1>3, <2>1, <2>2 DEF UpdateSession
<1>5. PICK buf : HandsOn(b, buf)  BY <1>4 DEF Drain
<1>6. Waits'  BY <1>2, <1>5 DEF HandsOn, Waits
<1>7. QED  BY <1>1, <1>2, <1>3, <1>6, OtherKeeps

LEMMA DisturbKeeps ==
  ASSUME Inv, NEW b \in Boards, Disturb(b)
  PROVE  Inv'
<1>1. PICK q \in AfterFault(net[b], DOMAIN net[b]) : net' = [net EXCEPT ![b] = q]
  BY DEF Disturb
<1>2. /\ kcp' = kcp /\ rxBuf' = rxBuf /\ step' = step /\ rx' = rx /\ put' = put /\ got' = got
      /\ given' = given /\ emptied' = emptied
      /\ faults < MaxFaults /\ faults' = faults + 1
  BY DEF Disturb
<1>3. /\ Tables /\ rxBuf \in RxBufs /\ faults \in 0 .. MaxFaults /\ MaxFaults \in Nat
      /\ \A c \in Boards : Session(c) /\ Delivered(c)
  BY KcpAssumption DEF Inv, KcpAssumption
<1>4. q \in Seq(Seq(Packets(kcp[Peer(b)])))
  <2>1. PICK S : S = Seq(Packets(kcp[Peer(b)]))  OBVIOUS
  <2>2. PICK s : s = net[b]  OBVIOUS
  <2>3. s \in Seq(S) /\ q \in AfterFault(s, DOMAIN s)  BY <1>1, <2>1, <2>2, InvAt
  <2>4. q \in Seq(S)  BY <2>3, Disturbed
  <2>5. QED  BY <2>1, <2>4
<1>5. ASSUME NEW c \in Boards  PROVE Session(c)' /\ Delivered(c)'
  <2>1. Linked(kcp[c], kcp[Peer(c)], Len(put[c]), Len(got[c]), net'[c])
    <3>1. Linked(kcp[c], kcp[Peer(c)], Len(put[c]), Len(got[c]), net[c])  BY <1>3 DEF Session
    <3>2. net'[c] = net[c] \/ (c = b /\ net'[c] = q)  BY <1>1, <1>3 DEF Tables
    <3>3. net'[c] \in Seq(Seq(Packets(kcp[Peer(c)])))  BY <1>4, <3>1, <3>2 DEF Linked
    <3>4. QED  BY <3>1, <3>3 DEF Linked
  <2>2. Session(c)'  BY <1>2, <2>1 DEF Session
  <2>3. Delivered(c)'  BY <1>2, <1>3 DEF Delivered
  <2>4. QED  BY <2>2, <2>3
<1>6. Tables'  BY <1>1, <1>2, <1>3 DEF Tables
<1>7. faults' \in 0 .. MaxFaults  BY <1>2, <1>3
<1>8. QED  BY <1>2, <1>3, <1>5, <1>6, <1>7 DEF Inv

LEMMA NextInv == Inv /\ [Next]_vars => Inv'
<1> SUFFICES ASSUME Inv, [Next]_vars  PROVE Inv'  OBVIOUS
<1>1. CASE Next
  <2>1. PICK b \in Boards :
          SendFrame(b) \/ Tick(b) \/ Datagrams(b) \/ RecvFrames(b) \/ Disturb(b)
    BY <1>1 DEF Next
  <2>2. CASE SendFrame(b)  BY <2>2, SendKeeps
  <2>3. CASE Tick(b) \/ Datagrams(b)  BY <2>3, EventKeeps
  <2>4. CASE RecvFrames(b)  BY <2>4, RecvKeeps
  <2>5. CASE Disturb(b)  BY <2>5, DisturbKeeps
  <2>6. QED  BY <2>1, <2>2, <2>3, <2>4, <2>5
<1>2. CASE UNCHANGED vars
  <2>1. ASSUME NEW b \in Boards  PROVE (Session(b) /\ Delivered(b))'
    <3>1. Session(b) /\ Delivered(b)  BY DEF Inv
    <3>2. QED  BY <1>2, <3>1 DEF vars, Session, Delivered
  <2>2. QED  BY <1>2, <2>1 DEF vars, Inv, Tables
<1>3. QED  BY <1>1, <1>2

\* Both boards keep what the other has not had, nothing but what was sent is under way, and the
\* frames that came out of a session are the first that were put, whatever the network does.
THEOREM Invariance == Spec => []Inv
<1>1. QED  BY InitInv, NextInv, PTL DEF Spec

-----------------------------------------------------------------------------
(* A session is a channel                                                     *)

\* No more frames come out than were put.
LEMMA Behind ==
  ASSUME NEW k, NEW l, NEW n \in Nat, NEW m \in Nat, NEW here, NEW inbox, NEW there, NEW out,
         Linked(k, l, n, here, inbox), Linked(l, k, there, m, out)
  PROVE  m <= n
<1>1. k \in Blocks /\ l \in Blocks /\ Sends(k, n)  BY DEF Linked
<1>2. Receives(l, k.snd_nxt, m)  BY DEF Linked
<1>3. PICK p \in Nat \ {0} : p = PerFrame  BY Fragmented
<1>4. /\ k.snd_nxt \in Nat /\ Len(k.snd_queue) \in Nat /\ k.snd_nxt + Len(k.snd_queue) = p * n
      /\ l.rcv_nxt \in Nat /\ Len(l.rcv_queue) \in Nat /\ l.rcv_nxt = p * m + Len(l.rcv_queue)
      /\ l.rcv_nxt <= k.snd_nxt
  BY <1>1, <1>2, <1>3, Fields DEF Sends, Receives
<1>5. PICK x \in Nat, y \in Nat : x = p * n /\ y = p * m
  <2>1. \A i, j \in Nat : i * j \in Nat  OBVIOUS
  <2>2. QED  BY <2>1
<1>6. y <= x
  <2>1. PICK s, t, u, v : /\ s = k.snd_nxt /\ t = Len(k.snd_queue)
                          /\ u = l.rcv_nxt /\ v = Len(l.rcv_queue)
    OBVIOUS
  <2>2. s \in Nat /\ t \in Nat /\ u \in Nat /\ v \in Nat /\ s + t = x /\ u = y + v /\ u <= s
    BY <1>4, <1>5, <2>1
  <2>3. QED  BY <2>2
<1>7. m <= n
  <2>1. SUFFICES ASSUME m > n  PROVE FALSE  OBVIOUS
  <2>2. PICK e \in Nat : m = n + 1 + e
    <3>1. m - n - 1 \in Nat /\ m = n + 1 + (m - n - 1)  BY <2>1
    <3>2. QED  BY <3>1
  <2>3. p * m = p * n + p + p * e
    <3>1. \A i, j, k1 \in Nat : i * (j + 1 + k1) = i * j + i + i * k1  OBVIOUS
    <3>2. QED  BY <2>2, <3>1
  <2>4. PICK z \in Nat : z = p * e
    <3>1. \A i, j \in Nat : i * j \in Nat  OBVIOUS
    <3>2. QED  BY <3>1
  <2>5. y = x + p + z  BY <1>5, <2>3, <2>4
  <2>6. QED  BY <1>6, <2>5
<1>8. QED  BY <1>7

\* The first frames of those that were put
LEMMA FirstOf ==
  ASSUME NEW n \in Nat, NEW m \in 0 .. n
  PROVE  SubSeq(UpTo(0, n), 1, m) = UpTo(0, m)
<1>1. PICK u, v, w : u = UpTo(0, n) /\ v = UpTo(0, m) /\ w = SubSeq(u, 1, m)  OBVIOUS
<1>2. 0 \in Nat /\ 0 <= n /\ 0 <= m /\ m \in Nat /\ n - 0 = n /\ m - 0 = m  OBVIOUS
<1>3. u \in Seq(Nat) /\ Len(u) = n /\ \A i \in 1 .. n : u[i] = 0 + i
  <2>1. u \in Seq(Nat) /\ Len(u) = n - 0 /\ \A i \in 1 .. n - 0 : u[i] = 0 + i
    BY <1>1, <1>2, UpToIs
  <2>2. QED  BY <1>2, <2>1
<1>4. v \in Seq(Nat) /\ Len(v) = m /\ \A i \in 1 .. m : v[i] = 0 + i
  <2>1. v \in Seq(Nat) /\ Len(v) = m - 0 /\ \A i \in 1 .. m - 0 : v[i] = 0 + i
    BY <1>1, <1>2, UpToIs
  <2>2. QED  BY <1>2, <2>1
<1>5. w \in Seq(Nat) /\ Len(w) = m  BY <1>1, <1>3, Cut
<1>6. \A i \in 1 .. m : w[i] = u[i]
  <2>1. \A i \in 1 .. m : i \in 1 .. n  OBVIOUS
  <2>2. \A i \in 1 .. m : u[i] \in Nat  BY <1>3, <2>1
  <2>3. 1 \in Int /\ m \in Int /\ m - 1 + 1 = m  OBVIOUS
  <2>4. \A i \in 1 .. m - 1 + 1 : w[i] = u[1 + i - 1]
    BY <1>1, <2>2, <2>3, SubSeqProperties
  <2>5. \A i \in 1 .. m : 1 + i - 1 = i  OBVIOUS
  <2>6. QED  BY <2>3, <2>4, <2>5
<1>7. \A i \in 1 .. m : w[i] = v[i] /\ i \in 1 .. n  BY <1>3, <1>4, <1>6
<1>8. w = v  BY <1>4, <1>5, <1>7, SeqEqual
<1>9. QED  BY <1>1, <1>8

\* A step of the channel from board b to its peer
Put(b) ==
  /\ put'[b] = Append(put[b], Len(put[b]) + 1) /\ Len(put[b]) + 1 \in 1 .. MaxSent[b]
  /\ got'[Peer(b)] = got[Peer(b)]

Get(b) ==
  /\ \E n \in Len(got[Peer(b)]) + 1 .. Len(put[b]) : got'[Peer(b)] = SubSeq(put[b], 1, n)
  /\ put'[b] = put[b]

LEMMA ChannelStep ==
  ASSUME Inv, [Next]_vars, NEW b \in Boards
  PROVE  Put(b) \/ Get(b) \/ (put'[b] = put[b] /\ got'[Peer(b)] = got[Peer(b)])
<1>1. PICK c \in Boards : c = Peer(b) /\ c # b /\ Peer(c) = b /\ Boards = {b, c}  BY Peers
<1>2. CASE SendFrame(b)
  <2>1. Grew(b)  BY <1>2, SendKeeps
  <2>2. /\ Len(put[b]) < MaxSent[b] /\ put' = [put EXCEPT ![b] = Append(@, Len(@) + 1)]
    BY <1>2 DEF SendFrame
  <2>3. Len(put[b]) \in Nat /\ MaxSent[b] \in Nat /\ DOMAIN put = Boards  BY InvAt
  <2>4. Put(b)  BY <2>1, <2>2, <2>3 DEF Put, Grew
  <2>5. QED  BY <2>4
<1>3. ASSUME put'[b] = put[b], Inv', Grew(c)
      PROVE  Get(b) \/ (put'[b] = put[b] /\ got'[Peer(b)] = got[Peer(b)])
  <2>1. PICK n \in Nat, m \in Nat : n = Len(put[b]) /\ m = Len(got[c])  BY InvAt
  <2>2. Delivered(c) /\ Delivered(b) /\ Delivered(c)'  BY <1>3 DEF Inv
  <2>3. got[c] \in Seq(Nat) /\ got[c] = UpTo(0, m) /\ put[b] = UpTo(0, n)
    BY <2>1, <2>2 DEF Delivered, Accounted
  <2>4. got'[c] \in Seq(Nat) /\ got'[c] = UpTo(0, Len(got'[c]))
    BY <2>2 DEF Delivered, Accounted
  <2>5. PICK h \in Nat : h = Len(got'[c])  BY <2>4, LenProperties
  <2>6. m <= h  BY <1>3, <2>1, <2>5 DEF Grew
  <2>7. h <= n
    <3>1. Session(b)' /\ Session(c)'  BY <1>3 DEF Inv
    <3>2. Linked(kcp'[b], kcp'[c], n, Len(got'[b]), net'[b])
      BY <1>1, <1>3, <2>1, <3>1 DEF Session, Peer
    <3>3. Linked(kcp'[c], kcp'[b], Len(put'[c]), h, net'[c])
      BY <1>1, <2>5, <3>1 DEF Session, Peer
    <3>4. QED  BY <3>2, <3>3, Behind
  <2>8. CASE h = m  BY <1>1, <1>3, <2>3, <2>4, <2>5, <2>8
  <2>9. CASE h # m
    <3>1. h \in 0 .. n /\ h \in m + 1 .. n  BY <2>6, <2>7, <2>9
    <3>2. got'[c] = SubSeq(put[b], 1, h)
      <4>1. SubSeq(UpTo(0, n), 1, h) = UpTo(0, h)  BY <3>1, FirstOf, Zenon
      <4>2. QED  BY <2>3, <2>4, <2>5, <4>1
    <3>3. Get(b)  BY <1>1, <1>3, <2>1, <3>1, <3>2 DEF Get
    <3>4. QED  BY <3>3
  <2>10. QED  BY <2>8, <2>9
<1>4. CASE SendFrame(c)
  <2>1. Inv' /\ Grew(c)  BY <1>4, SendKeeps
  <2>2. put'[b] = put[b]  BY <1>1, <1>4, InvAt DEF SendFrame
  <2>3. QED  BY <1>3, <2>1, <2>2
<1>5. CASE Tick(c) \/ Datagrams(c) \/ RecvFrames(c)
  <2>1. Inv' /\ Grew(c)  BY <1>5, EventKeeps, RecvKeeps
  <2>2. put'[b] = put[b]  BY <1>5 DEF Tick, Datagrams, RecvFrames, Event
  <2>3. QED  BY <1>3, <2>1, <2>2
<1>6. CASE Tick(b) \/ Datagrams(b) \/ RecvFrames(b)
  <2>1. Grew(b)  BY <1>6, EventKeeps, RecvKeeps
  <2>2. put'[b] = put[b]  BY <1>6 DEF Tick, Datagrams, RecvFrames, Event
  <2>3. QED  BY <2>1, <2>2 DEF Grew
<1>7. CASE Disturb(b) \/ Disturb(c) \/ UNCHANGED vars
  BY <1>7 DEF Disturb, vars
<1>8. QED  BY <1>1, <1>2, <1>4, <1>5, <1>6, <1>7 DEF Next

\* A KCP session is a channel from ikcp_send of board a to ikcp_recv of board b: frames come
\* out whole, in order and once, and never before they went in, whatever is lost, repeated or
\* delayed on the way, however often segments are sent again and whatever is acknowledged when.
THEOREM SessionIsChannel == Spec => IsChannel
<1>1. Init => AtoB!Init
  <2>1. "a" \in Boards /\ "b" \in Boards  BY DEF Boards
  <2>2. QED  BY <2>1 DEF Init, Each, AtoB!Init
<1>2. Inv /\ [Next]_vars => [AtoB!Next]_<<put["a"], got["b"]>>
  <2> SUFFICES ASSUME Inv, [Next]_vars  PROVE [AtoB!Next]_<<put["a"], got["b"]>>  OBVIOUS
  <2>1. "a" \in Boards /\ Peer("a") = "b"  BY DEF Boards, Peer
  <2>2. Put("a") \/ Get("a") \/ (put'["a"] = put["a"] /\ got'["b"] = got["b"])
    BY <2>1, ChannelStep
  <2>3. CASE Put("a")  BY <2>1, <2>3 DEF Put, AtoB!Next, AtoB!Put
  <2>4. CASE Get("a")  BY <2>1, <2>4 DEF Get, AtoB!Next, AtoB!Get
  <2>5. CASE put'["a"] = put["a"] /\ got'["b"] = got["b"]  BY <2>5
  <2>6. QED  BY <2>2, <2>3, <2>4, <2>5
<1>3. QED  BY <1>1, <1>2, Invariance, PTL DEF Spec, IsChannel, AtoB!Spec

\* A segment leaves snd_buf only when the other board has it: acknowledgements that come late,
\* twice or out of order, and the una of packets sent long ago, never make ikcp_parse_ack or
\* ikcp_parse_una forget one that is still needed.
THEOREM NothingForgotten == Spec => []ForgottenOnlyIfReceived
<1>1. ASSUME Inv  PROVE ForgottenOnlyIfReceived
  <2>1. ASSUME NEW b \in Boards, NEW sn \in 0 .. kcp[b].snd_nxt - 1
        PROVE  \/ sn \in Unacknowledged(kcp[b])
               \/ sn < kcp[Peer(b)].rcv_nxt
               \/ \E i \in DOMAIN kcp[Peer(b)].rcv_buf : kcp[Peer(b)].rcv_buf[i].sn = sn
    <3>1. Remembers(kcp[b], kcp[Peer(b)])  BY <1>1, InvAt DEF Heard
    <3>2. sn \in Unacknowledged(kcp[b]) \cup Received(kcp[Peer(b)])  BY <2>1, <3>1 DEF Remembers
    <3>3. QED  BY <3>2 DEF Received
  <2>2. QED  BY <2>1 DEF ForgottenOnlyIfReceived
<1>2. Inv => ForgottenOnlyIfReceived  BY <1>1
<1>3. QED  BY <1>2, Invariance, PTL

\* What the session gave out reaches the bus in order and once, or waits in rx_buf; a frame is
\* missing only if it was in an rx_buf that was full to the last byte when kcp_drain_recv emptied
\* it, which takes an rx_buf of a whole number of frames.
THEOREM LossesAccounted == Spec => []OnlyFullBuffersLose
<1>1. ASSUME Inv, NEW b \in Boards
      PROVE  /\ \A i, j \in DOMAIN given[b] : i < j => given[b][i] < given[b][j]
             /\ Range(got[b]) = Range(given[b]) \cup Range(emptied[b]) \cup Range(Numbers(rx[b]))
             /\ Len(got[b]) = Len(given[b]) + Len(emptied[b]) + Len(Numbers(rx[b]))
             /\ rxBuf % Parts # 0 => emptied[b] = <<>>
  <2>1. PICK n \in Nat : Accounted(got[b], given[b], emptied[b], rx[b], rxBuf, n)
    BY <1>1 DEF Inv, Delivered
  <2>2. PICK m \in Nat : m = Len(got[b])  BY <1>1, InvAt
  <2>3. /\ got[b] = UpTo(0, m) /\ n <= m /\ rx[b] \in Seq(AnyPiece) /\ Carries(rx[b], UpTo(n, m))
        /\ ToSet(given[b]) \cup ToSet(emptied[b]) = 1 .. n /\ Len(given[b]) + Len(emptied[b]) = n
        /\ \A i, j \in DOMAIN given[b] : i < j => given[b][i] < given[b][j]
        /\ rxBuf % Parts # 0 => emptied[b] = <<>>
    <3>1. PICK o, h, e, x : o = got[b] /\ h = given[b] /\ e = emptied[b] /\ x = rx[b]  OBVIOUS
    <3>2. Accounted(o, h, e, x, rxBuf, n)  BY <2>1, <3>1
    <3>3. /\ o = UpTo(0, m) /\ n \in 0 .. m /\ x \in Seq(AnyPiece) /\ Carries(x, UpTo(n, m))
          /\ ToSet(h) \cup ToSet(e) = 1 .. n /\ Len(h) + Len(e) = n
          /\ \A i, j \in DOMAIN h : i < j => h[i] < h[j]
          /\ rxBuf % Parts # 0 => e = <<>>
      BY <2>2, <3>1, <3>2 DEF Accounted
    <3>4. n <= m  BY <3>3
    <3>5. QED  BY <3>1, <3>3, <3>4
  <2>4. PICK u, v : u = UpTo(n, m) /\ v = UpTo(0, m)  OBVIOUS
  <2>5. u \in Seq(Nat) /\ Len(u) = m - n /\ ToSet(u) = n + 1 .. m  BY <2>3, <2>4, UpToIs
  <2>6. ToSet(v) = 0 + 1 .. m
    <3>1. 0 \in Nat /\ 0 <= m  OBVIOUS
    <3>2. QED  BY <2>4, <3>1, UpToIs
  <2>7. Numbers(rx[b]) = u  BY <2>3, <2>4, <2>5, NumbersOf
  <2>8. 0 + 1 .. m = (1 .. n) \cup (n + 1 .. m)  BY <2>3
  <2>9. ToSet(got[b]) = ToSet(given[b]) \cup ToSet(emptied[b]) \cup ToSet(Numbers(rx[b]))
    <3>1. ToSet(got[b]) = 0 + 1 .. m /\ ToSet(Numbers(rx[b])) = n + 1 .. m
      BY <2>3, <2>4, <2>5, <2>6, <2>7
    <3>2. ToSet(given[b]) \cup ToSet(emptied[b]) = 1 .. n  BY <2>3
    <3>3. QED  BY <2>8, <3>1, <3>2, Zenon
  <2>10. Len(got[b]) = Len(given[b]) + Len(emptied[b]) + Len(Numbers(rx[b]))
    <3>1. m = n + (m - n)  OBVIOUS
    <3>2. QED  BY <2>2, <2>3, <2>5, <2>7, <3>1
  <2>11. \A s : Range(s) = ToSet(s)  BY DEF Range, ToSet
  <2>12. QED  BY <2>3, <2>9, <2>10, <2>11
<1>2. Inv => OnlyFullBuffersLose  BY <1>1, Zenon DEF OnlyFullBuffersLose
<1>3. QED  BY <1>2, Invariance, PTL

-----------------------------------------------------------------------------
(* Types and windows                                                          *)

LEMMA ProductGrows ==
  ASSUME NEW p \in Nat, NEW a \in Nat, NEW c \in Nat, a <= c
  PROVE  p * a \in Nat /\ p * c \in Nat /\ p * a <= p * c
<1>1. \A i, j \in Nat : i * j \in Nat  OBVIOUS
<1>2. PICK e \in Nat : c = a + e
  <2>1. c - a \in Nat /\ c = a + (c - a)  OBVIOUS
  <2>2. QED  BY <2>1
<1>3. p * c = p * a + p * e
  <2>1. \A i, j, h \in Nat : i * (j + h) = i * j + i * h  OBVIOUS
  <2>2. QED  BY <1>2, <2>1
<1>4. PICK x \in Nat, y \in Nat : x = p * a /\ y = p * e  BY <1>1
<1>5. p * c = x + y  BY <1>3, <1>4
<1>6. QED  BY <1>4, <1>5

PiecesUpTo(max)   == [n : 1 .. max, part : 1 .. Parts]
ChunksUpTo(max)   == [frg : Nat, data : Seq(PiecesUpTo(max))]
SegmentsUpTo(max) == [sn : Nat, frg : Nat, data : Seq(PiecesUpTo(max))]

\* The segments of the first frames carry pieces of those frames.
LEMMA ShareOf ==
  ASSUME NEW max \in Nat, NEW sn \in Nat, sn < PerFrame * max
  PROVE  Carried(sn) \in ChunksUpTo(max)
<1>1. PICK n \in Nat, i \in 1 .. PerFrame : sn = PerFrame * n + i - 1  BY Divided
<1>2. PICK p \in Nat \ {0} : p = PerFrame  BY Fragmented
<1>3. n < max
  <2>1. SUFFICES ASSUME max <= n  PROVE FALSE  OBVIOUS
  <2>2. p * max \in Nat /\ p * n \in Nat /\ p * max <= p * n  BY <2>1, ProductGrows
  <2>3. PICK x \in Nat, y \in Nat : x = p * max /\ y = p * n  BY <2>2
  <2>4. sn = y + i - 1 /\ sn < x /\ x <= y  BY <1>1, <1>2, <2>2, <2>3
  <2>5. QED  BY <1>2, <2>4
<1>4. PICK c : c = Carried(sn)  OBVIOUS
<1>5. c = Fragments(Frame(n + 1))[i] /\ c \in AnyChunk  BY <1>1, <1>4, CarriedIs
<1>6. PICK f \in Nat : f = n + 1  OBVIOUS
<1>7. PICK d : d = SubSeq(Frame(f), (i - 1) * Mss + 1, Min({i * Mss, Parts}))  OBVIOUS
<1>8. c.data = d
  <2>1. PICK s : s = Fragments(Frame(f))  OBVIOUS
  <2>2. \A j \in 1 .. PerFrame : s[j] =
          [frg |-> PerFrame - j,
           data |-> SubSeq(Frame(f), (j - 1) * Mss + 1, Min({j * Mss, Parts}))]
    BY <2>1, FragmentsOf, Zenon
  <2>3. s[i] = [frg |-> PerFrame - i, data |-> d]  BY <1>7, <2>2
  <2>4. QED  BY <1>5, <1>6, <2>1, <2>3
<1>9. PICK lo, hi : lo = (i - 1) * Mss /\ hi = Min({i * Mss, Parts})  OBVIOUS
<1>10. /\ lo \in Nat /\ hi \in lo + 1 .. Parts /\ d \in Seq(AnyPiece) /\ Len(d) = hi - lo
       /\ \A j \in 1 .. hi - lo : d[j] = Frame(f)[lo + j]
  BY <1>7, <1>9, Slice
<1>11. d \in Seq(PiecesUpTo(max))
  <2>1. PICK len \in Nat : len = hi - lo  BY <1>10
  <2>2. ASSUME NEW j \in 1 .. len  PROVE d[j] \in PiecesUpTo(max)
    <3>1. lo + j \in 1 .. Parts
      <4>1. lo \in Nat /\ hi \in Nat /\ hi <= Parts /\ Parts \in Nat  BY <1>10, Fragmented
      <4>2. j \in Nat /\ 1 <= j /\ j <= hi - lo  BY <2>1, <2>2
      <4>3. QED  BY <4>1, <4>2
    <3>2. PICK q \in 1 .. Parts : q = lo + j  BY <3>1
    <3>3. Frame(f)[q] = [n |-> f, part |-> q]  BY FrameProperties
    <3>4. f \in 1 .. max  BY <1>3, <1>6
    <3>5. d[j] = [n |-> f, part |-> q]  BY <1>10, <2>1, <3>2, <3>3
    <3>6. QED  BY <3>4, <3>5 DEF PiecesUpTo
  <2>3. DOMAIN d = 1 .. len  BY <1>10, <2>1, LenProperties
  <2>4. d = [j \in 1 .. len |-> d[j]]  BY <1>10, <2>3
  <2>5. d \in [1 .. len -> PiecesUpTo(max)]  BY <2>2, <2>4
  <2>6. QED  BY <2>5, Listed
<1>12. c = [frg |-> c.frg, data |-> d] /\ c.frg \in Nat  BY <1>5, <1>8 DEF AnyChunk
<1>13. QED  BY <1>4, <1>11, <1>12 DEF ChunksUpTo

LEMMA ChunksTyped ==
  ASSUME NEW q \in Seq(AnyChunk), NEW sn \in Nat, NEW max \in Nat, Consecutive(q, sn),
         sn + Len(q) <= PerFrame * max
  PROVE  q \in Seq(ChunksUpTo(max))
<1>1. PICK len \in Nat : len = Len(q)  BY LenProperties
<1>2. DOMAIN q = 1 .. len /\ q = [i \in 1 .. len |-> q[i]]  BY <1>1, LenProperties
<1>3. PICK x \in Nat : x = PerFrame * max
  <2>1. PerFrame \in Nat /\ max <= max  BY Fragmented
  <2>2. QED  BY <2>1, ProductGrows
<1>4. ASSUME NEW i \in 1 .. len  PROVE q[i] \in ChunksUpTo(max)
  <2>1. PICK y \in Nat : y = sn + i - 1  OBVIOUS
  <2>2. q[i] = Carried(y)  BY <1>2, <2>1 DEF Consecutive
  <2>3. y < PerFrame * max  BY <1>1, <1>3, <2>1
  <2>4. QED  BY <2>2, <2>3, ShareOf
<1>5. q \in [1 .. len -> ChunksUpTo(max)]  BY <1>2, <1>4
<1>6. QED  BY <1>5, Listed

LEMMA SegmentsTyped ==
  ASSUME NEW q \in Seq(AnySegment), NEW lo, NEW hi \in Nat, NEW max \in Nat, Numbered(q, lo, hi),
         hi <= PerFrame * max
  PROVE  q \in Seq(SegmentsUpTo(max))
<1>1. PICK len \in Nat : len = Len(q)  BY LenProperties
<1>2. DOMAIN q = 1 .. len /\ q = [i \in 1 .. len |-> q[i]]  BY <1>1, LenProperties
<1>3. PICK x \in Nat : x = PerFrame * max
  <2>1. PerFrame \in Nat /\ max <= max  BY Fragmented
  <2>2. QED  BY <2>1, ProductGrows
<1>4. ASSUME NEW i \in 1 .. len  PROVE q[i] \in SegmentsUpTo(max)
  <2>1. PICK s \in AnySegment : s = q[i]  BY <1>1, ElementOfSeq
  <2>2. s.sn < hi /\ Genuine(s)  BY <1>2, <2>1 DEF Numbered
  <2>3. PICK sn \in Nat : sn = s.sn  BY DEF AnySegment
  <2>4. sn < PerFrame * max  BY <1>3, <2>2, <2>3
  <2>5. Carried(sn) \in ChunksUpTo(max)  BY <2>4, ShareOf
  <2>6. s.frg = Carried(sn).frg /\ s.data = Carried(sn).data  BY <2>2, <2>3 DEF Genuine
  <2>7. s.frg \in Nat /\ s.data \in Seq(PiecesUpTo(max))  BY <2>5, <2>6 DEF ChunksUpTo
  <2>8. s = [sn |-> s.sn, frg |-> s.frg, data |-> s.data]  BY DEF AnySegment
  <2>9. QED  BY <2>1, <2>3, <2>7, <2>8 DEF SegmentsUpTo
<1>5. q \in [1 .. len -> SegmentsUpTo(max)]  BY <1>2, <1>4
<1>6. QED  BY <1>5, Listed

\* Different numbers from lo on and below hi are no more than hi - lo.
LEMMA Spread ==
  ASSUME NEW q \in Seq(AnySegment), NEW lo \in Nat, NEW hi \in Nat, lo <= hi, Numbered(q, lo, hi)
  PROVE  Len(q) <= hi - lo
<1>1. PICK len \in Nat : len = Len(q)  BY LenProperties
<1>2. DOMAIN q = 1 .. len /\ \A i \in 1 .. len : q[i].sn \in Nat
  <2>1. DOMAIN q = 1 .. len  BY <1>1, LenProperties
  <2>2. \A i \in 1 .. len : q[i] \in AnySegment  BY <1>1, ElementOfSeq
  <2>3. QED  BY <2>1, <2>2 DEF AnySegment
<1> DEFINE T == {n \in Nat : n + 1 \in 1 .. len => lo + n <= q[n + 1].sn}
<1>3. 0 \in T
  <2>1. ASSUME 1 \in 1 .. len  PROVE lo <= q[1].sn  BY <1>2, <2>1 DEF Numbered
  <2>2. 0 + 1 = 1 /\ lo + 0 = lo  OBVIOUS
  <2>3. QED  BY <2>1, <2>2
<1>4. ASSUME NEW n \in T  PROVE n + 1 \in T
  <2>1. n \in Nat /\ (n + 1 \in 1 .. len => lo + n <= q[n + 1].sn)  OBVIOUS
  <2>2. ASSUME (n + 1) + 1 \in 1 .. len  PROVE lo + (n + 1) <= q[(n + 1) + 1].sn
    <3>1. PICK a \in Nat, c \in Nat : a = n + 1 /\ c = a + 1  BY <2>1
    <3>2. a \in 1 .. len /\ c \in 1 .. len /\ a < c  BY <1>1, <2>1, <2>2, <3>1
    <3>3. q[a].sn < q[c].sn  BY <1>2, <3>2 DEF Numbered
    <3>4. lo + n <= q[a].sn  BY <2>1, <3>1, <3>2
    <3>5. q[a].sn \in Nat /\ q[c].sn \in Nat  BY <1>2, <3>2
    <3>6. lo + a <= q[c].sn  BY <2>1, <3>1, <3>3, <3>4, <3>5
    <3>7. QED  BY <3>1, <3>6
  <2>3. QED  BY <2>1, <2>2
<1>5. T = Nat  BY <1>3, <1>4, Induct
<1>6. CASE len = 0  BY <1>1, <1>6
<1>7. CASE len # 0
  <2>1. PICK n \in Nat : len = n + 1
    <3>1. len - 1 \in Nat /\ len = (len - 1) + 1  BY <1>7
    <3>2. QED  BY <3>1
  <2>2. lo + n <= q[n + 1].sn
    <3>1. n \in T  BY <1>5
    <3>2. n + 1 \in 1 .. len  BY <2>1
    <3>3. QED  BY <3>1, <3>2
  <2>3. q[len].sn < hi /\ q[len].sn \in Nat
    <3>1. len \in 1 .. len  BY <1>7
    <3>2. QED  BY <1>2, <3>1 DEF Numbered
  <2>4. lo + n < hi  BY <2>1, <2>2, <2>3
  <2>5. QED  BY <1>1, <2>1, <2>4
<1>8. QED  BY <1>6, <1>7

\* The types and the windows, of a board with control block k, that was given n frames, at most
\* max, when the other's is l, with nl frames, at most most
LEMMA TypesOf ==
  ASSUME NEW k, NEW l, NEW n \in Nat, NEW m \in Nat, NEW inbox, Linked(k, l, n, m, inbox),
         NEW nl \in Nat, NEW ml, NEW out, Linked(l, k, nl, ml, out),
         NEW max \in Nat, n <= max, NEW most \in Nat, nl <= most
  PROVE  /\ k.snd_queue \in Seq(ChunksUpTo(max)) /\ k.rcv_queue \in Seq(ChunksUpTo(most))
         /\ k.snd_buf \in Seq(SegmentsUpTo(max)) /\ k.rcv_buf \in Seq(SegmentsUpTo(most))
         /\ k.snd_una \in Nat /\ k.snd_nxt \in Nat /\ k.rcv_nxt \in Nat /\ k.rmt_wnd \in Nat
         /\ k.snd_nxt - k.snd_una <= SndWnd /\ Len(k.snd_buf) <= SndWnd
         /\ Len(k.rcv_buf) <= RcvWnd /\ Len(k.rcv_queue) <= RcvWnd
         /\ k.tell \in BOOLEAN /\ k.waiting \in BOOLEAN
<1>1. k \in Blocks /\ l \in Blocks /\ Sends(k, n) /\ Sends(l, nl)  BY DEF Linked
<1>2. PICK una \in Nat, nxt \in Nat, due \in Nat, lnxt \in Nat :
        una = k.snd_una /\ nxt = k.snd_nxt /\ due = k.rcv_nxt /\ lnxt = l.snd_nxt
  BY <1>1, Fields
<1>3. PICK sq, sb, rq, rb :
        sq = k.snd_queue /\ sb = k.snd_buf /\ rq = k.rcv_queue /\ rb = k.rcv_buf
  OBVIOUS
<1>4. /\ sq \in Seq(AnyChunk) /\ sb \in Seq(AnySegment) /\ rq \in Seq(AnyChunk) /\ rb \in Seq(AnySegment)
      /\ Len(sq) \in Nat /\ Len(rq) \in Nat /\ Len(l.snd_queue) \in Nat
      /\ k.rmt_wnd \in Nat /\ k.tell \in BOOLEAN /\ k.waiting \in BOOLEAN
  BY <1>1, <1>3, Fields
<1>5. PICK p \in Nat \ {0} : p = PerFrame  BY Fragmented
<1>6. /\ una <= nxt /\ nxt - una <= SndWnd /\ Numbered(sb, una, nxt)
      /\ Consecutive(sq, nxt) /\ nxt + Len(sq) = p * n
  BY <1>1, <1>2, <1>3, <1>5 DEF Sends
<1>7. Receives(k, lnxt, m)  BY <1>2 DEF Linked
<1>8. /\ due <= lnxt /\ Numbered(rb, due, lnxt) /\ \A i \in DOMAIN rb : rb[i].sn < due + RcvWnd
      /\ Consecutive(rq, p * m) /\ due = p * m + Len(rq) /\ Len(rq) <= RcvWnd
  BY <1>2, <1>3, <1>5, <1>7 DEF Receives
<1>9. lnxt + Len(l.snd_queue) = p * nl  BY <1>1, <1>2, <1>5 DEF Sends
<1>10. SndWnd \in Nat /\ RcvWnd \in Nat  BY IkcpAssumption DEF IkcpAssumption
<1>11. PICK x \in Nat, y \in Nat, z \in Nat : x = p * n /\ y = p * nl /\ z = p * m
  <2>1. \A i, j \in Nat : i * j \in Nat  OBVIOUS
  <2>2. QED  BY <2>1
<1>12. PICK bx \in Nat, by \in Nat : bx = p * max /\ by = p * most /\ x <= bx /\ y <= by
  <2>1. p * max \in Nat /\ p * n <= p * max  BY ProductGrows
  <2>2. p * most \in Nat /\ p * nl <= p * most  BY ProductGrows
  <2>3. QED  BY <1>11, <2>1, <2>2
<1>13. nxt + Len(sq) <= bx /\ nxt <= bx /\ z + Len(rq) <= by /\ lnxt <= by
  <2>1. PICK a \in Nat, c \in Nat, d \in Nat : a = Len(sq) /\ c = Len(rq) /\ d = Len(l.snd_queue)
    BY <1>4
  <2>2. nxt + a = x /\ due = z + c /\ lnxt + d = y  BY <1>6, <1>8, <1>9, <1>11, <2>1
  <2>3. QED  BY <1>8, <1>12, <2>1, <2>2
<1>14. sq \in Seq(ChunksUpTo(max))
  <2>1. nxt + Len(sq) <= PerFrame * max  BY <1>5, <1>12, <1>13
  <2>2. QED  BY <1>4, <1>6, <2>1, ChunksTyped
<1>15. rq \in Seq(ChunksUpTo(most))
  <2>1. z + Len(rq) <= PerFrame * most /\ Consecutive(rq, z)  BY <1>5, <1>8, <1>11, <1>12, <1>13
  <2>2. QED  BY <1>4, <2>1, ChunksTyped
<1>16. sb \in Seq(SegmentsUpTo(max))
  <2>1. nxt <= PerFrame * max  BY <1>5, <1>12, <1>13
  <2>2. QED  BY <1>4, <1>6, <2>1, SegmentsTyped
<1>17. rb \in Seq(SegmentsUpTo(most))
  <2>1. lnxt <= PerFrame * most  BY <1>5, <1>12, <1>13
  <2>2. QED  BY <1>4, <1>8, <2>1, SegmentsTyped
<1>18. Len(sb) <= SndWnd
  <2>1. Len(sb) <= nxt - una  BY <1>4, <1>6, Spread
  <2>2. Len(sb) \in Nat  BY <1>4, LenProperties
  <2>3. QED  BY <1>6, <1>10, <2>1, <2>2
<1>19. Len(rb) <= RcvWnd
  <2>1. PICK hi \in Nat : hi = due + RcvWnd  BY <1>10
  <2>2. Numbered(rb, due, hi)  BY <1>8, <2>1 DEF Numbered
  <2>3. due <= hi  BY <1>10, <2>1
  <2>4. Len(rb) <= hi - due  BY <1>4, <2>2, <2>3, Spread
  <2>5. Len(rb) \in Nat  BY <1>4, LenProperties
  <2>6. QED  BY <1>10, <2>1, <2>4, <2>5
<1>20. QED
  BY <1>2, <1>3, <1>4, <1>6, <1>8, <1>14, <1>15, <1>16, <1>17, <1>18, <1>19

\* Every queue holds whole segments of frames that were put, none outgrows its window (snd_wnd,
\* rcv_wnd), no more than snd_wnd segments are ever unacknowledged, and rx_buf never takes more
\* than it has room for.
THEOREM WindowsKept == Spec => []TypeOK
<1>1. ASSUME Inv  PROVE TypeOK
  <2>1. ASSUME NEW b \in Boards
        PROVE  LET k == kcp[b]
               IN  /\ k.snd_queue \in Seq(ChunksOf(b)) /\ k.rcv_queue \in Seq(ChunksOf(Peer(b)))
                   /\ k.snd_buf \in Seq(SegmentsOf(b)) /\ k.rcv_buf \in Seq(SegmentsOf(Peer(b)))
                   /\ {k.snd_una, k.snd_nxt, k.rcv_nxt, k.rmt_wnd} \subseteq Nat
                   /\ k.snd_nxt - k.snd_una <= SndWnd /\ Len(k.snd_buf) <= SndWnd
                   /\ Len(k.rcv_buf) <= RcvWnd /\ Len(k.rcv_queue) <= RcvWnd
                   /\ k.tell \in BOOLEAN /\ k.waiting \in BOOLEAN
                   /\ step[b] \in {"idle", "recv"}
                   /\ Len(rx[b]) <= rxBuf
    <3>1. PICK c \in Boards : c = Peer(b) /\ Peer(c) = b  BY Peers
    <3>2. PICK n \in Nat, m \in Nat, max \in Nat :
            n = Len(put[b]) /\ m = Len(got[b]) /\ max = MaxSent[b] /\ n <= max
      BY <1>1, InvAt
    <3>3. PICK nl \in Nat, most \in Nat : nl = Len(put[c]) /\ most = MaxSent[c] /\ nl <= most
      BY <1>1, InvAt
    <3>4. PICK k, l : k = kcp[b] /\ l = kcp[c]  OBVIOUS
    <3>5. Session(b) /\ Session(c) /\ Delivered(b)  BY <1>1 DEF Inv
    <3>6. Linked(k, l, n, m, net[b]) /\ Linked(l, k, nl, Len(got[c]), net[c])
      BY <3>1, <3>2, <3>3, <3>4, <3>5 DEF Session
    <3>7. /\ k.snd_queue \in Seq(ChunksUpTo(max)) /\ k.rcv_queue \in Seq(ChunksUpTo(most))
          /\ k.snd_buf \in Seq(SegmentsUpTo(max)) /\ k.rcv_buf \in Seq(SegmentsUpTo(most))
          /\ k.snd_una \in Nat /\ k.snd_nxt \in Nat /\ k.rcv_nxt \in Nat /\ k.rmt_wnd \in Nat
          /\ k.snd_nxt - k.snd_una <= SndWnd /\ Len(k.snd_buf) <= SndWnd
          /\ Len(k.rcv_buf) <= RcvWnd /\ Len(k.rcv_queue) <= RcvWnd
          /\ k.tell \in BOOLEAN /\ k.waiting \in BOOLEAN
      BY <3>2, <3>3, <3>6, TypesOf
    <3>8. /\ ChunksUpTo(max) = ChunksOf(b) /\ SegmentsUpTo(max) = SegmentsOf(b)
          /\ ChunksUpTo(most) = ChunksOf(Peer(b)) /\ SegmentsUpTo(most) = SegmentsOf(Peer(b))
      BY <3>1, <3>2, <3>3
      DEF ChunksUpTo, SegmentsUpTo, PiecesUpTo, ChunksOf, SegmentsOf, Pieces
    <3>9. step[b] \in {"idle", "recv"} /\ Len(rx[b]) <= rxBuf
      BY <3>5 DEF Delivered, Accounted
    <3>10. QED  BY <3>4, <3>7, <3>8, <3>9
  <2>2. faults \in 0 .. MaxFaults  BY <1>1 DEF Inv
  <2>3. QED  BY <2>1, <2>2 DEF TypeOK
<1>2. Inv => TypeOK  BY <1>1
<1>3. QED  BY <1>2, Invariance, PTL

=============================================================================
