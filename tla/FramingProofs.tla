--------------------------- MODULE FramingProofs ----------------------------
(***************************************************************************)
(* What the proofs about the transports use of Framing and of buffers: how   *)
(* streams of pieces are cut, joined and kept in order; and induction.       *)
(***************************************************************************)
EXTENDS Framing, SequenceTheorems, WellFoundedInduction, TLAPS

-----------------------------------------------------------------------------
(* Induction on numbers, stated with sets                                    *)

\* Every set of numbers that is not empty has a least one.
LEMMA Least == \A T \in SUBSET Nat : T # {} => \E m \in T : \A k \in T : m <= k
<1> TAKE T \in SUBSET Nat
<1> HAVE T # {}
<1>1. IsWellFoundedOn(OpToRel(<, Nat), Nat)  BY NatLessThanWellFounded
<1>2. PICK m \in T : \A k \in T : ~(<<k, m>> \in OpToRel(<, Nat))  BY <1>1, WFMin
<1>3. \A k \in T : ~(k < m)
  <2> TAKE k \in T
  <2>1. <<k, m>> \notin OpToRel(<, Nat)  BY <1>2
  <2>2. k < m => <<k, m>> \in OpToRel(<, Nat)  BY DEF OpToRel
  <2>3. QED  BY <2>1, <2>2
<1>4. \A k \in T : m <= k  BY <1>3
<1>5. QED  BY <1>4

\* Induction
LEMMA Induct ==
  ASSUME NEW T \in SUBSET Nat, 0 \in T, \A n \in T : n + 1 \in T
  PROVE  T = Nat
<1>1. SUFFICES ASSUME Nat \ T # {}  PROVE FALSE  OBVIOUS
<1>2. PICK m \in Nat \ T : \A k \in Nat \ T : m <= k  BY <1>1, Least
<1>3. m - 1 \in T  BY <1>2
<1>4. QED  BY <1>2, <1>3

-----------------------------------------------------------------------------
(* Cutting and joining buffers                                               *)

\* What a write, a flush or a recv moves, and what it leaves.
LEMMA Cut ==
  ASSUME NEW S, NEW s \in Seq(S), NEW k \in 0 .. Len(s)
  PROVE  /\ SubSeq(s, 1, k) \in Seq(S) /\ Len(SubSeq(s, 1, k)) = k
         /\ SubSeq(s, k + 1, Len(s)) \in Seq(S) /\ Len(SubSeq(s, k + 1, Len(s))) = Len(s) - k
         /\ SubSeq(s, 1, k) \o SubSeq(s, k + 1, Len(s)) = s
<1>1. Len(s) \in Nat  BY LenProperties
<1>2. /\ \A i \in 1 .. k : s[i] \in S
      /\ \A i \in k + 1 .. Len(s) : s[i] \in S
  BY <1>1, ElementOfSeq
<1>3. /\ SubSeq(s, 1, k) \in Seq(S) /\ Len(SubSeq(s, 1, k)) = k
      /\ SubSeq(s, k + 1, Len(s)) \in Seq(S) /\ Len(SubSeq(s, k + 1, Len(s))) = Len(s) - k
  BY <1>1, <1>2, SubSeqProperties
<1>4. 1 \in 1 .. Len(s) + 1 /\ k \in 1 - 1 .. Len(s) /\ Len(s) \in k .. Len(s)  BY <1>1
<1>5. SubSeq(s, 1, k) \o SubSeq(s, k + 1, Len(s)) = SubSeq(s, 1, Len(s))
  BY <1>4, ConcatAdjacentSubSeq
<1>6. QED  BY <1>3, <1>5, SubSeqFull

\* How much a read or a write moves.
LEMMA Smaller ==
  ASSUME NEW a \in Nat, NEW b \in Nat
  PROVE  Min({a, b}) \in 0 .. a /\ Min({a, b}) <= b
<1>1. \E x \in {a, b} : \A y \in {a, b} : x =< y
  <2>1. CASE a <= b  BY <2>1
  <2>2. CASE b <= a  BY <2>2
  <2>3. QED  BY <2>1, <2>2
<1>2. Min({a, b}) \in {a, b} /\ Min({a, b}) <= a /\ Min({a, b}) <= b  BY <1>1 DEF Min
<1>3. \A x \in {a, b} : x <= a => x \in 0 .. a  OBVIOUS
<1>4. QED  BY <1>2, <1>3

\* What moves from one buffer to the end of another keeps both within their size.
LEMMA Moved ==
  ASSUME NEW S, NEW s \in Seq(S), NEW t \in Seq(S), NEW cap \in Nat, NEW m,
         Len(s) <= cap, m = Min({Len(t), cap - Len(s)})
  PROVE  /\ s \o SubSeq(t, 1, m) \in Seq(S) /\ Len(s \o SubSeq(t, 1, m)) <= cap
         /\ SubSeq(t, m + 1, Len(t)) \in Seq(S) /\ Len(SubSeq(t, m + 1, Len(t))) <= Len(t)
         /\ m \in 0 .. Len(t)
<1>1. Len(s) \in Nat /\ Len(t) \in Nat /\ cap - Len(s) \in Nat  BY LenProperties
<1>2. m \in 0 .. Len(t) /\ m <= cap - Len(s)  BY <1>1, Smaller
<1> DEFINE a == SubSeq(t, 1, m)
           b == SubSeq(t, m + 1, Len(t))
<1>3. a \in Seq(S) /\ Len(a) = m /\ b \in Seq(S) /\ Len(b) = Len(t) - m  BY <1>2, Cut
<1> HIDE DEF a, b
<1>4. s \o a \in Seq(S) /\ Len(s \o a) = Len(s) + m  BY <1>3, ConcatProperties
<1>5. Len(s \o a) <= cap /\ Len(b) <= Len(t)  BY <1>1, <1>2, <1>3, <1>4
<1>6. QED  BY <1>2, <1>3, <1>4, <1>5 DEF a, b

\* A sequence over some of the elements is one over all of them.
LEMMA Wider ==
  ASSUME NEW S, NEW T, S \subseteq T, NEW s \in Seq(S)
  PROVE  s \in Seq(T)
<1>1. Len(s) \in Nat /\ s \in [1 .. Len(s) -> S]  BY LenProperties, ElementOfSeq
<1>2. s \in [1 .. Len(s) -> T]  BY <1>1
<1>3. QED  BY <1>1, <1>2, SeqDef

\* u is s followed by t.
Joins(u, s, t) ==
  /\ Len(s) \in Nat /\ Len(t) \in Nat
  /\ Len(u) = Len(s) + Len(t) /\ DOMAIN u = 1 .. Len(s) + Len(t)
  /\ \A i \in 1 .. Len(s) : i \in 1 .. Len(s) + Len(t) /\ u[i] = s[i]
  /\ \A i \in 1 .. Len(t) : Len(s) + i \in 1 .. Len(s) + Len(t) /\ u[Len(s) + i] = t[i]
  /\ \A i \in 1 .. Len(s) + Len(t) :
       i \in 1 .. Len(s) \/ (i - Len(s) \in 1 .. Len(t) /\ i = Len(s) + (i - Len(s)))
  /\ DOMAIN s = 1 .. Len(s) /\ DOMAIN t = 1 .. Len(t)

LEMMA Joined ==
  ASSUME NEW S, NEW s \in Seq(S), NEW t \in Seq(S)
  PROVE  s \o t \in Seq(S) /\ Joins(s \o t, s, t)
<1> DEFINE a == Len(s)
           b == Len(t)
           u == s \o t
<1>1. /\ a \in Nat /\ b \in Nat /\ DOMAIN s = 1 .. a /\ DOMAIN t = 1 .. b
      /\ u \in Seq(S) /\ Len(u) = a + b
      /\ \A i \in 1 .. a + b : u[i] = IF i <= a THEN s[i] ELSE t[i - a]
  BY LenProperties, ConcatProperties
<1>2. DOMAIN u = 1 .. a + b  BY <1>1, LenProperties
<1> HIDE DEF a, b, u
<1>3. ASSUME NEW i \in 1 .. a  PROVE i \in 1 .. a + b /\ u[i] = s[i]  BY <1>1
<1>4. ASSUME NEW i \in 1 .. b  PROVE a + i \in 1 .. a + b /\ u[a + i] = t[i]
  <2>1. a + i \in 1 .. a + b /\ ~(a + i <= a) /\ (a + i) - a = i  BY <1>1
  <2>2. QED  BY <1>1, <2>1
<1>5. ASSUME NEW i \in 1 .. a + b  PROVE i \in 1 .. a \/ (i - a \in 1 .. b /\ i = a + (i - a))
  BY <1>1
<1>6. QED  BY <1>1, <1>2, <1>3, <1>4, <1>5 DEF a, b, u, Joins

\* What is in two buffers together, in the rest of one, and in one with one more.
LEMMA InJoined ==
  ASSUME NEW S, NEW s \in Seq(S), NEW t \in Seq(S)
  PROVE  ToSet(s \o t) = ToSet(s) \cup ToSet(t) /\ ToSet(s) \subseteq S
<1> DEFINE u == s \o t
<1>1. Joins(u, s, t)  BY Joined
<1> HIDE DEF u
<1>2. ToSet(u) \subseteq ToSet(s) \cup ToSet(t)
  <2> SUFFICES ASSUME NEW i \in 1 .. Len(s) + Len(t)  PROVE u[i] \in ToSet(s) \cup ToSet(t)
    BY <1>1 DEF Joins, ToSet
  <2>1. CASE i \in 1 .. Len(s)  BY <1>1, <2>1 DEF Joins, ToSet
  <2>2. CASE i - Len(s) \in 1 .. Len(t) /\ i = Len(s) + (i - Len(s))
    <3>1. u[Len(s) + (i - Len(s))] = t[i - Len(s)]  BY <1>1, <2>2 DEF Joins
    <3>2. u[i] = t[i - Len(s)] /\ i - Len(s) \in DOMAIN t  BY <1>1, <2>2, <3>1 DEF Joins
    <3>3. QED  BY <3>2 DEF ToSet
  <2>3. QED  BY <1>1, <2>1, <2>2 DEF Joins
<1>3. ToSet(s) \subseteq ToSet(u)  BY <1>1 DEF Joins, ToSet
<1>4. ToSet(t) \subseteq ToSet(u)
  <2> SUFFICES ASSUME NEW i \in 1 .. Len(t)  PROVE t[i] \in ToSet(u)  BY <1>1 DEF Joins, ToSet
  <2>1. Len(s) + i \in DOMAIN u /\ t[i] = u[Len(s) + i]  BY <1>1 DEF Joins
  <2>2. QED  BY <2>1 DEF ToSet
<1>5. ToSet(s) \subseteq S  BY ElementOfSeq, LenProperties DEF ToSet
<1>6. QED  BY <1>2, <1>3, <1>4, <1>5 DEF u

\* The first piece and the others.
LEMMA FirstAndRest ==
  ASSUME NEW S, NEW s \in Seq(S), s # <<>>
  PROVE  /\ Head(s) \in S /\ Tail(s) \in Seq(S) /\ Len(Tail(s)) = Len(s) - 1
         /\ <<Head(s)>> \in Seq(S) /\ <<Head(s)>> \o Tail(s) = s /\ Len(s) \in Nat \ {0}
<1>1. Len(s) \in Nat \ {0}  BY LenProperties, EmptySeq
<1>2. /\ Head(s) \in S /\ Tail(s) \in Seq(S) /\ Len(Tail(s)) = Len(s) - 1 /\ Head(s) = s[1]
      /\ \A i \in 1 .. Len(Tail(s)) : Tail(s)[i] = s[i + 1]
  BY <1>1, HeadTailProperties
<1> DEFINE h == <<Head(s)>>
           r == Tail(s)
           u == h \o r
<1>3. h \in Seq(S) /\ Len(h) = 1 /\ h[1] = s[1]  BY <1>2
<1>4. u \in Seq(S) /\ Joins(u, h, r)  BY <1>2, <1>3, Joined, Zenon
<1> HIDE DEF h, r, u
<1>5. Len(r) = Len(s) - 1 /\ \A i \in 1 .. Len(r) : r[i] = s[i + 1]  BY <1>2 DEF r
<1>6. Len(u) = Len(s)  BY <1>1, <1>3, <1>4, <1>5 DEF Joins
<1>7. ASSUME NEW i \in 1 .. Len(s)  PROVE u[i] = s[i]
  <2>1. CASE i = 1
    <3>1. 1 \in 1 .. Len(h) /\ u[1] = h[1]  BY <1>3, <1>4 DEF Joins
    <3>2. QED  BY <1>3, <2>1, <3>1
  <2>2. CASE i # 1
    <3>1. i - 1 \in 1 .. Len(r) /\ 1 + (i - 1) = i /\ (i - 1) + 1 = i  BY <1>1, <1>5, <2>2
    <3>2. u[1 + (i - 1)] = r[i - 1] /\ r[i - 1] = s[(i - 1) + 1]  BY <1>3, <1>4, <1>5, <3>1 DEF Joins
    <3>3. QED  BY <3>1, <3>2
  <2>3. QED  BY <2>1, <2>2
<1>8. u = s  BY <1>4, <1>6, <1>7, SeqEqual
<1>9. QED  BY <1>1, <1>2, <1>3, <1>8 DEF h, r, u

-----------------------------------------------------------------------------
(* Pieces in order                                                           *)

AnyPiece == [n : Nat, part : 1 .. Parts]

LEMMA PlaceIsNat == \A x \in AnyPiece : Place(x) \in Nat /\ x.n \in Nat /\ x.part \in 1 .. Parts
BY FramingAssumption DEF FramingAssumption, AnyPiece, Place

Rising(s)   == \A i, j \in DOMAIN s : i < j => Place(s[i]) < Place(s[j])
Below(s, t) == \A x \in ToSet(s), y \in ToSet(t) : Place(x) < Place(y)

\* Two streams one after the other.
LEMMA RisingJoined ==
  ASSUME NEW s \in Seq(AnyPiece), NEW t \in Seq(AnyPiece)
  PROVE  Rising(s \o t) <=> Rising(s) /\ Rising(t) /\ Below(s, t)
<1> DEFINE u == s \o t
           a == Len(s)
           b == Len(t)
<1>1. Joins(u, s, t)  BY Joined
<1> HIDE DEF u
<1>2. /\ a \in Nat /\ b \in Nat /\ DOMAIN u = 1 .. a + b /\ DOMAIN s = 1 .. a /\ DOMAIN t = 1 .. b
      /\ \A i \in 1 .. a : i \in 1 .. a + b /\ u[i] = s[i]
      /\ \A i \in 1 .. b : a + i \in 1 .. a + b /\ u[a + i] = t[i]
      /\ \A i \in 1 .. a + b : i \in 1 .. a \/ (i - a \in 1 .. b /\ i = a + (i - a))
  BY <1>1 DEF Joins
<1> HIDE DEF a, b
<1>3. ASSUME Rising(u)  PROVE Rising(s) /\ Rising(t) /\ Below(s, t)
  <2>1. Rising(s)  BY <1>2, <1>3 DEF Rising
  <2>2. ASSUME NEW i \in 1 .. b, NEW j \in 1 .. b, i < j  PROVE Place(t[i]) < Place(t[j])
    <3>1. a + i < a + j  BY <1>2, <2>2
    <3>2. QED  BY <1>2, <1>3, <3>1, SMTT(30) DEF Rising
  <2>3. ASSUME NEW i \in 1 .. a, NEW j \in 1 .. b  PROVE Place(s[i]) < Place(t[j])
    <3>1. i < a + j  BY <1>2
    <3>2. QED  BY <1>2, <1>3, <3>1 DEF Rising
  <2>4. QED  BY <1>2, <2>1, <2>2, <2>3 DEF Rising, Below, ToSet
<1>4. ASSUME Rising(s), Rising(t), Below(s, t)  PROVE Rising(u)
  <2> SUFFICES ASSUME NEW i \in 1 .. a + b, NEW j \in 1 .. a + b, i < j
               PROVE  Place(u[i]) < Place(u[j])
    BY <1>2 DEF Rising
  <2>1. CASE i \in 1 .. a /\ j \in 1 .. a  BY <1>2, <1>4, <2>1 DEF Rising
  <2>2. CASE i \in 1 .. a /\ j - a \in 1 .. b /\ j = a + (j - a)
    <3>1. u[a + (j - a)] = t[j - a] /\ t[j - a] \in ToSet(t)  BY <1>2, <2>2 DEF ToSet
    <3>2. u[i] = s[i] /\ s[i] \in ToSet(s)  BY <1>2, <2>2 DEF ToSet
    <3>3. QED  BY <1>4, <2>2, <3>1, <3>2 DEF Below
  <2>3. CASE i - a \in 1 .. b /\ i = a + (i - a) /\ j - a \in 1 .. b /\ j = a + (j - a)
    <3>1. u[a + (i - a)] = t[i - a] /\ u[a + (j - a)] = t[j - a] /\ i - a < j - a  BY <1>2, <2>3
    <3>2. Place(t[i - a]) < Place(t[j - a])  BY <1>2, <1>4, <2>3, <3>1 DEF Rising
    <3>3. QED  BY <2>3, <3>1, <3>2
  <2>4. i \in 1 .. a \/ (i - a \in 1 .. b /\ i = a + (i - a))  BY <1>2
  <2>5. j \in 1 .. a \/ (j - a \in 1 .. b /\ j = a + (j - a))  BY <1>2
  <2>6. ~(i - a \in 1 .. b /\ j \in 1 .. a)  BY <1>2
  <2>7. QED  BY <2>1, <2>2, <2>3, <2>4, <2>5, <2>6
<1>5. QED  BY <1>3, <1>4 DEF u

\* A frame and its pieces.
LEMMA FrameProperties ==
  ASSUME NEW n \in Nat
  PROVE  /\ Frame(n) \in Seq(AnyPiece) /\ Len(Frame(n)) = Parts /\ Rising(Frame(n))
         /\ \A x \in ToSet(Frame(n)) : x.n = n
         /\ \A p \in 1 .. Parts : Frame(n)[p] = [n |-> n, part |-> p]
<1>1. Parts \in Nat \ {0}  BY FramingAssumption DEF FramingAssumption
<1>2. \A p \in 1 .. Parts : Frame(n)[p] = [n |-> n, part |-> p]  BY DEF Frame
<1>3. Frame(n) \in [1 .. Parts -> AnyPiece]  BY DEF Frame, AnyPiece
<1>4. Frame(n) \in Seq(AnyPiece) /\ DOMAIN Frame(n) = 1 .. Parts /\ Len(Frame(n)) = Parts
  BY <1>1, <1>3, SeqDef, LenProperties
<1>5. ASSUME NEW i \in 1 .. Parts, NEW j \in 1 .. Parts, i < j
      PROVE  Place(Frame(n)[i]) < Place(Frame(n)[j])
  <2>1. n * Parts \in Nat  BY <1>1
  <2>2. \A p \in 1 .. Parts : Frame(n)[p].n = n /\ Frame(n)[p].part = p
    <3> TAKE p \in 1 .. Parts
    <3>1. \A x : x = [n |-> n, part |-> p] => x.n = n /\ x.part = p  OBVIOUS
    <3>2. QED  BY <1>2, <3>1
  <2>3. Place(Frame(n)[i]) = n * Parts + i /\ Place(Frame(n)[j]) = n * Parts + j
    BY <2>2, Zenon DEF Place
  <2>4. QED  BY <1>1, <1>5, <2>1, <2>3
<1>6. QED  BY <1>2, <1>4, <1>5 DEF Rising, ToSet

\* Pieces of later frames come later.
LEMMA LaterFrames ==
  ASSUME NEW x \in AnyPiece, NEW y \in AnyPiece
  PROVE  /\ x.n < y.n => Place(x) < Place(y)
         /\ x.part = Parts /\ Place(x) < Place(y) => x.n < y.n
<1>1. /\ Parts \in Nat \ {0} /\ x.n \in Nat /\ y.n \in Nat
      /\ x.part \in 1 .. Parts /\ y.part \in 1 .. Parts
  BY FramingAssumption DEF FramingAssumption, AnyPiece
<1>2. ASSUME NEW a \in Nat, NEW b \in Nat, a < b  PROVE a * Parts + Parts <= b * Parts
  <2>1. PICK d \in Nat : b = a + 1 + d
    <3>1. b - a - 1 \in Nat /\ b = a + 1 + (b - a - 1)  BY <1>2
    <3>2. QED  BY <3>1
  <2>2. b * Parts = a * Parts + Parts + d * Parts  BY <1>1, <2>1
  <2>3. d * Parts \in Nat /\ a * Parts \in Nat  BY <1>1
  <2>4. QED  BY <1>1, <2>2, <2>3
<1>3. x.n * Parts \in Nat /\ y.n * Parts \in Nat  BY <1>1
<1>4. x.n < y.n => Place(x) < Place(y)
  <2>1. x.n < y.n => x.n * Parts + Parts <= y.n * Parts  BY <1>1, <1>2
  <2>2. QED  BY <1>1, <1>3, <2>1 DEF Place
<1>5. ASSUME x.part = Parts, Place(x) < Place(y)  PROVE x.n < y.n
  <2>1. x.n * Parts + Parts < y.n * Parts + y.part  BY <1>5 DEF Place
  <2>2. CASE y.n < x.n
    <3>1. y.n * Parts + Parts <= x.n * Parts  BY <1>1, <1>2, <2>2
    <3>2. QED  BY <1>1, <1>3, <2>1, <3>1
  <2>3. CASE y.n = x.n  BY <1>1, <1>3, <2>1, <2>3
  <2>4. QED  BY <1>1, <2>2, <2>3
<1>6. QED  BY <1>4, <1>5

\* A frame that may be sent is made of the pieces that may be sent.
LEMMA FrameInBounds ==
  ASSUME NEW max \in Nat, NEW n \in Nat, n < max
  PROVE  /\ Frame(n + 1) \in Seq([n : 1 .. max, part : 1 .. Parts]) /\ Len(Frame(n + 1)) = Parts
         /\ n + 1 \in Nat /\ n + 1 <= max
<1> DEFINE P == [n : 1 .. max, part : 1 .. Parts]
           s == Frame(n + 1)
<1>1. n + 1 \in 1 .. max  OBVIOUS
<1>2. s \in [1 .. Parts -> P]  BY <1>1 DEF Frame
<1>3. Parts \in Nat  BY FramingAssumption DEF FramingAssumption
<1> HIDE DEF P, s
<1>4. s \in Seq(P) /\ Len(s) = Parts  BY <1>2, <1>3, SeqDef, LenProperties
<1>5. QED  BY <1>1, <1>4 DEF P, s

\* The h-th piece a peer sends, counted from 0.
LEMMA PieceNumber ==
  ASSUME NEW h \in Nat, NEW max \in Nat, h < max * Parts
  PROVE  /\ (h \div Parts) + 1 \in 1 .. max /\ (h % Parts) + 1 \in 1 .. Parts
         /\ ((h \div Parts) + 1) * Parts + ((h % Parts) + 1) = h + Parts + 1
<1>1. Parts \in Nat \ {0}  BY FramingAssumption DEF FramingAssumption
<1> DEFINE q == h \div Parts
           r == h % Parts
<1>2. q \in Int /\ r \in 0 .. Parts - 1 /\ h = Parts * q + r  BY <1>1
<1> HIDE DEF q, r
<1>3. q \in 0 .. max - 1
  <2>1. CASE q < 0
    <3>1. PICK d \in Nat : q = -1 - d
      <4>1. -1 - q \in Nat /\ q = -1 - (-1 - q)  BY <1>2, <2>1
      <4>2. QED  BY <4>1
    <3>2. Parts * q = -Parts - Parts * d /\ Parts * d \in Nat  BY <1>1, <3>1
    <3>3. QED  BY <1>1, <1>2, <3>2
  <2>2. CASE q >= max
    <3>1. PICK d \in Nat : q = max + d
      <4>1. q - max \in Nat /\ q = max + (q - max)  BY <1>2, <2>2
      <4>2. QED  BY <4>1
    <3>2. Parts * q = max * Parts + Parts * d /\ Parts * d \in Nat /\ max * Parts \in Nat  BY <1>1, <3>1
    <3>3. QED  BY <1>1, <1>2, <3>2
  <2>3. QED  BY <1>2, <2>1, <2>2
<1>4. (q + 1) * Parts = Parts * q + Parts /\ Parts * q \in Nat  BY <1>1, <1>3
<1>5. QED  BY <1>1, <1>2, <1>3, <1>4 DEF q, r

-----------------------------------------------------------------------------
(* Streams that carry frames                                                 *)

\* One more frame is accepted.
LEMMA CarriesMore ==
  ASSUME NEW s \in Seq(AnyPiece), NEW ns \in Seq(Nat), NEW n \in Nat, Carries(s, ns)
  PROVE  Carries(s \o Frame(n), Append(ns, n))
<1> DEFINE u == s \o Frame(n)
           ms == Append(ns, n)
           c == Len(ns)
<1>1. Parts \in Nat \ {0} /\ c \in Nat /\ DOMAIN ns = 1 .. c
  BY LenProperties, FramingAssumption DEF FramingAssumption
<1>2. Len(s) = Parts * c /\ Len(s) \in Nat  BY LenProperties DEF Carries
<1>3. /\ Frame(n) \in Seq(AnyPiece) /\ Len(Frame(n)) = Parts
      /\ \A p \in 1 .. Parts : Frame(n)[p] = [n |-> n, part |-> p]
  BY FrameProperties
<1>4. Joins(u, s, Frame(n))  BY <1>3, Joined
<1>5. Len(ms) = c + 1 /\ DOMAIN ms = 1 .. c + 1 /\ ms[c + 1] = n /\ \A k \in 1 .. c : ms[k] = ns[k]
  BY <1>1, AppendProperties, LenProperties
<1> HIDE DEF u, ms, c
<1>6. Len(u) = Parts * Len(ms)
  <2>1. Len(u) = Parts * c + Parts  BY <1>2, <1>3, <1>4 DEF Joins
  <2>2. Parts * (c + 1) = Parts * c + Parts  BY <1>1
  <2>3. QED  BY <1>5, <2>1, <2>2
<1>7. ASSUME NEW k \in 1 .. c + 1, NEW p \in 1 .. Parts
      PROVE  u[Parts * (k - 1) + p] = Frame(ms[k])[p]
  <2>1. CASE k = c + 1
    <3>1. Parts * (k - 1) + p = Len(s) + p  BY <1>1, <1>2, <2>1
    <3>2. u[Len(s) + p] = Frame(n)[p]  BY <1>3, <1>4 DEF Joins
    <3>3. QED  BY <1>5, <2>1, <3>1, <3>2
  <2>2. CASE k \in 1 .. c
    <3>1. PICK d \in Nat : c = k + d
      <4>1. c - k \in Nat /\ c = k + (c - k)  BY <1>1, <2>2
      <4>2. QED  BY <4>1
    <3>2. Parts * c = Parts * (k - 1) + Parts + Parts * d  BY <1>1, <2>2, <3>1
    <3>3. Parts * d \in Nat /\ Parts * (k - 1) \in Nat  BY <1>1, <2>2
    <3>4. Parts * (k - 1) + p \in 1 .. Len(s)  BY <1>1, <1>2, <3>2, <3>3, SMTT(30)
    <3>5. u[Parts * (k - 1) + p] = s[Parts * (k - 1) + p]  BY <1>4, <3>4 DEF Joins
    <3>6. s[Parts * (k - 1) + p] = Frame(ns[k])[p]  BY <1>1, <2>2 DEF Carries
    <3>7. QED  BY <1>5, <2>2, <3>5, <3>6
  <2>3. QED  BY <1>1, <2>1, <2>2
<1>8. Carries(u, ms)  BY <1>5, <1>6, <1>7 DEF Carries
<1>9. QED  BY <1>8 DEF u, ms

\* Streams are joined in any grouping; nothing joined to a stream leaves it.
LEMMA Regrouped == \A a, b, c \in Seq(AnyPiece) : (a \o b) \o c = a \o (b \o c)
BY ConcatAssociative

LEMMA JoinedTypes == \A a, b \in Seq(AnyPiece) : a \o b \in Seq(AnyPiece)
BY ConcatProperties

LEMMA NothingJoined ==
  <<>> \in Seq(AnyPiece) /\ \A a \in Seq(AnyPiece) : a \o <<>> = a /\ <<>> \o a = a
<1>1. \A a \in Seq(AnyPiece) : a \o <<>> = a /\ <<>> \o a = a  BY ConcatEmptySeq
<1>2. <<>> \in Seq(AnyPiece)  BY EmptySeq
<1>3. QED  BY <1>1, <1>2, Zenon

\* The first frame of a stream is its first Parts pieces, and the others follow.
LEMMA CarriesFirst ==
  ASSUME NEW s \in Seq(AnyPiece), NEW ns \in Seq(Nat), Carries(s, ns), s # <<>>
  PROVE  /\ ns # <<>> /\ ns[1] \in Nat /\ Len(s) >= Parts
         /\ \A p \in 1 .. Parts : s[p] = [n |-> ns[1], part |-> p]
<1>1. Parts \in Nat \ {0} /\ Len(ns) \in Nat /\ DOMAIN ns = 1 .. Len(ns) /\ Len(s) \in Nat
  BY LenProperties, FramingAssumption DEF FramingAssumption
<1>2. Len(s) = Parts * Len(ns) /\ Len(s) # 0  BY <1>1, EmptySeq DEF Carries
<1>3. Len(ns) # 0  BY <1>1, <1>2
<1>4. PICK d \in Nat : Len(ns) = d + 1
  <2>1. Len(ns) - 1 \in Nat /\ Len(ns) = (Len(ns) - 1) + 1  BY <1>1, <1>3
  <2>2. QED  BY <2>1
<1>5. Len(s) = Parts * d + Parts /\ Parts * d \in Nat  BY <1>1, <1>2, <1>4
<1>6. 1 \in DOMAIN ns /\ ns[1] \in Nat  BY <1>1, <1>3, ElementOfSeq
<1>7. ASSUME NEW p \in 1 .. Parts  PROVE s[p] = [n |-> ns[1], part |-> p]
  <2>1. s[Parts * (1 - 1) + p] = Frame(ns[1])[p]  BY <1>6 DEF Carries
  <2>2. Parts * (1 - 1) + p = p  BY <1>1
  <2>3. Frame(ns[1])[p] = [n |-> ns[1], part |-> p]  BY DEF Frame
  <2>4. QED  BY <2>1, <2>2, <2>3
<1>8. ns # <<>>  BY <1>3
<1>9. QED  BY <1>1, <1>5, <1>6, <1>7, <1>8

\* As long as rx_buf is the head of such a stream, nothing in it is bad.
LEMMA NothingBad ==
  ASSUME NEW r \in Seq(AnyPiece), NEW t \in Seq(AnyPiece), NEW ns \in Seq(Nat),
         Carries(r \o t, ns)
  PROVE  ~Bad(r)
<1> DEFINE u == r \o t
<1>1. u \in Seq(AnyPiece) /\ Joins(u, r, t)  BY Joined
<1>2. Carries(u, ns)  OBVIOUS
<1> HIDE DEF u
<1> SUFFICES ASSUME r # <<>>  PROVE ~Bad(r)  BY DEF Bad
<1>3. Parts \in Nat \ {0} /\ Len(r) \in Nat \ {0} /\ Len(t) \in Nat
  BY LenProperties, EmptySeq, FramingAssumption DEF FramingAssumption
<1>4. u # <<>>
  <2>1. Len(u) # 0  BY <1>1, <1>3 DEF Joins
  <2>2. QED  BY <2>1
<1>5. ns[1] \in Nat /\ \A p \in 1 .. Parts : u[p] = [n |-> ns[1], part |-> p]
  BY <1>1, <1>2, <1>4, CarriesFirst
<1>6. \A i \in 1 .. Len(r) : u[i] = r[i]  BY <1>1 DEF Joins
<1>7. r[1] = [n |-> ns[1], part |-> 1]  BY <1>3, <1>5, <1>6
<1>8. Len(r) >= Parts => SubSeq(r, 1, Parts) = Frame(r[1].n)
  <2> SUFFICES ASSUME Len(r) >= Parts  PROVE SubSeq(r, 1, Parts) = Frame(r[1].n)  OBVIOUS
  <2>1. Parts \in 0 .. Len(r)  BY <1>3
  <2> DEFINE h == SubSeq(r, 1, Parts)
             f == Frame(ns[1])
  <2>2. /\ h \in Seq(AnyPiece) /\ Len(h) = Parts
        /\ f \in Seq(AnyPiece) /\ Len(f) = Parts
        /\ \A p \in 1 .. Parts : f[p] = [n |-> ns[1], part |-> p]
    BY <1>5, <2>1, Cut, FrameProperties
  <2>3. \A p \in 1 .. Parts : h[p] = r[p]
    <3>1. \A i \in 1 .. Parts : r[i] \in AnyPiece  BY <1>3, <2>1, ElementOfSeq
    <3>2. QED  BY <1>3, <3>1, SubSeqProperties
  <2> HIDE DEF h, f
  <2>4. \A p \in 1 .. Parts : h[p] = f[p]  BY <1>3, <1>5, <1>6, <2>1, <2>2, <2>3
  <2>5. h = f  BY <1>3, <2>2, <2>4, SeqEqual
  <2>6. r[1].n = ns[1]  BY <1>7
  <2>7. QED  BY <2>5, <2>6 DEF h, f
<1>9. r[1].part = 1  BY <1>7
<1>10. QED  BY <1>8, <1>9 DEF Bad, Whole

\* The frame at the head is the first that the stream carries.
LEMMA CarriesLess ==
  ASSUME NEW r \in Seq(AnyPiece), NEW t \in Seq(AnyPiece), NEW ns \in Seq(Nat),
         Whole(r), Carries(r \o t, ns)
  PROVE  /\ Tail(ns) \in Seq(Nat) /\ ns = <<r[1].n>> \o Tail(ns) /\ r[1].n \in Nat
         /\ Consumed(r) \in Seq(AnyPiece) /\ Carries(Consumed(r) \o t, Tail(ns))
<1> DEFINE u == r \o t
           n == r[1].n
           d == Consumed(r)
           v == d \o t
           ms == Tail(ns)
<1>1. u \in Seq(AnyPiece) /\ Joins(u, r, t) /\ Carries(u, ns)  BY Joined
<1>2. Parts \in Nat \ {0} /\ Len(r) \in Nat /\ Len(r) >= Parts /\ SubSeq(r, 1, Parts) = Frame(n)
  BY LenProperties, FramingAssumption DEF FramingAssumption, Whole
<1>3. Parts \in 0 .. Len(r) /\ 1 \in 1 .. Len(r)  BY <1>2
<1>4. n \in Nat  BY <1>3, ElementOfSeq, PlaceIsNat
<1>5. d \in Seq(AnyPiece) /\ r = Frame(n) \o d  BY <1>2, <1>3, Cut DEF Consumed
<1>6. Frame(n) \in Seq(AnyPiece) /\ Len(Frame(n)) = Parts  BY <1>4, FrameProperties
<1> HIDE DEF n, d
<1>7. v \in Seq(AnyPiece) /\ u = Frame(n) \o v
  <2>1. (Frame(n) \o d) \o t = Frame(n) \o (d \o t)  BY <1>5, <1>6, Regrouped, Zenon
  <2>2. d \o t \in Seq(AnyPiece)  BY <1>5, JoinedTypes, Zenon
  <2>3. r \o t = (Frame(n) \o d) \o t  BY <1>5, Zenon
  <2>4. QED  BY <2>1, <2>2, <2>3, Zenon
<1> HIDE DEF u, v
<1>8. Joins(u, Frame(n), v)  BY <1>6, <1>7, Joined
<1>9. Len(u) = Parts + Len(v) /\ Len(v) \in Nat /\ u # <<>>
  <2>1. Len(u) = Parts + Len(v) /\ Len(v) \in Nat  BY <1>6, <1>8 DEF Joins
  <2>2. Len(u) # 0  BY <1>2, <2>1
  <2>3. QED  BY <2>1, <2>2
<1>10. /\ ns # <<>> /\ ns[1] \in Nat
       /\ \A p \in 1 .. Parts : u[p] = [n |-> ns[1], part |-> p]
  BY <1>1, <1>9, CarriesFirst
<1>11. ns[1] = n
  <2>1. 1 \in 1 .. Parts /\ u[1] = Frame(n)[1]  BY <1>2, <1>6, <1>8 DEF Joins
  <2>2. Frame(n)[1] = [n |-> n, part |-> 1] /\ u[1] = [n |-> ns[1], part |-> 1]
    BY <1>10, <2>1 DEF Frame
  <2>3. [n |-> ns[1], part |-> 1].n = [n |-> n, part |-> 1].n  BY <2>1, <2>2, Zenon
  <2>4. QED  BY <2>3
<1>12. /\ ms \in Seq(Nat) /\ Len(ms) = Len(ns) - 1 /\ <<Head(ns)>> \o ms = ns /\ Len(ns) \in Nat \ {0}
       /\ Head(ns) = ns[1] /\ \A i \in 1 .. Len(ms) : ms[i] = ns[i + 1]
  BY <1>10, FirstAndRest, HeadTailProperties
<1> HIDE DEF ms
<1>13. Carries(v, ms)
  <2> DEFINE c == Len(ms)
  <2>1. c \in Nat /\ Len(ns) = c + 1 /\ DOMAIN ns = 1 .. c + 1 /\ DOMAIN ms = 1 .. c
    BY <1>12, LenProperties
  <2> HIDE DEF c
  <2>2. Len(u) = Parts * (c + 1) /\ Parts * (c + 1) = Parts * c + Parts /\ Parts * c \in Nat
    BY <1>1, <1>2, <2>1 DEF Carries
  <2>3. Len(v) = Parts * c  BY <1>2, <1>9, <2>2
  <2>4. ASSUME NEW k \in 1 .. c, NEW p \in 1 .. Parts
        PROVE  v[Parts * (k - 1) + p] = Frame(ms[k])[p]
    <3>1. u[Parts * ((k + 1) - 1) + p] = Frame(ns[k + 1])[p]
      <4>1. k + 1 \in DOMAIN ns  BY <2>1
      <4>2. QED  BY <1>1, <4>1, Zenon DEF Carries
    <3>2. Parts * ((k + 1) - 1) + p = Parts + (Parts * (k - 1) + p)  BY <1>2, <2>1
    <3>3. Parts * (k - 1) + p \in 1 .. Len(v)
      <4>1. PICK e \in Nat : c = k + e
        <5>1. c - k \in Nat /\ c = k + (c - k)  BY <2>1
        <5>2. QED  BY <5>1
      <4>2. Parts * c = Parts * (k - 1) + Parts + Parts * e  BY <1>2, <2>1, <4>1
      <4>3. Parts * e \in Nat /\ Parts * (k - 1) \in Nat  BY <1>2, <2>1
      <4>4. PICK f \in Nat, g \in Nat : f = Parts * (k - 1) /\ g = Parts * e  BY <4>3
      <4>5. Len(v) = f + Parts + g  BY <2>3, <4>2, <4>4
      <4>6. f + p \in 1 .. f + Parts + g  BY <1>2
      <4>7. QED  BY <4>4, <4>5, <4>6
    <3>4. u[Parts + (Parts * (k - 1) + p)] = v[Parts * (k - 1) + p]  BY <1>6, <1>8, <3>3 DEF Joins
    <3>5. ms[k] = ns[k + 1]  BY <1>12, <2>1 DEF c
    <3>6. QED  BY <3>1, <3>2, <3>4, <3>5
  <2>5. QED  BY <2>1, <2>3, <2>4 DEF Carries, c
<1>14. QED  BY <1>4, <1>5, <1>11, <1>12, <1>13 DEF n, d, v, ms

\* The empty stream carries no frame.
LEMMA NothingCarried == Carries(<<>>, <<>>)
<1>1. Parts * 0 = 0  BY FramingAssumption DEF FramingAssumption
<1>2. Len(<<>>) = 0 /\ DOMAIN <<>> = {}  OBVIOUS
<1>3. QED  BY <1>1, <1>2 DEF Carries

\* A stream with one piece more.
LEMMA OneJoined ==
  \A a \in Seq(AnyPiece), x \in AnyPiece : Append(a, x) = a \o <<x>> /\ <<x>> \in Seq(AnyPiece)
BY AppendIsConcat

\* What two streams hold together.
LEMMA HeldTogether ==
  \A a, b \in Seq(AnyPiece) : ToSet(a \o b) = ToSet(a) \cup ToSet(b) /\ ToSet(a) \subseteq AnyPiece
BY InJoined

\* A piece that comes after all others.
LEMMA OneMore ==
  ASSUME NEW s \in Seq(AnyPiece), NEW x \in AnyPiece,
         Rising(s), \A y \in ToSet(s) : Place(y) < Place(x)
  PROVE  Rising(s \o <<x>>) /\ ToSet(s \o <<x>>) = ToSet(s) \cup {x}
<1>1. <<x>> \in Seq(AnyPiece) /\ DOMAIN <<x>> = {1} /\ <<x>>[1] = x
  <2>1. Len(<<x>>) = 1 /\ <<x>>[1] = x /\ 1 .. 1 = {1}  OBVIOUS
  <2>2. <<x>> \in Seq(AnyPiece)  OBVIOUS
  <2>3. QED  BY <2>1, <2>2, LenProperties
<1>2. ToSet(<<x>>) = {x} /\ Rising(<<x>>)
  <2> DEFINE y == <<x>>
  <2>1. DOMAIN y = {1} /\ y[1] = x /\ ~(1 < 1)  BY <1>1
  <2> HIDE DEF y
  <2>2. ToSet(y) = {x}  BY <2>1 DEF ToSet
  <2>3. Rising(y)  BY <2>1 DEF Rising
  <2>4. QED  BY <2>2, <2>3 DEF y
<1>3. Below(s, <<x>>)  BY <1>2 DEF Below
<1>4. Rising(s \o <<x>>)  BY <1>1, <1>2, <1>3, RisingJoined, Zenon
<1>5. ToSet(s \o <<x>>) = ToSet(s) \cup {x}  BY <1>1, <1>2, HeldTogether, Zenon
<1>6. QED  BY <1>4, <1>5

\* The frame at the head of rx_buf is taken, t is what comes after rx_buf.
LEMMA TakeFrame ==
  ASSUME NEW r \in Seq(AnyPiece), NEW t \in Seq(AnyPiece), Whole(r), Rising(r \o t)
  PROVE  LET n == r[1].n
             c == Consumed(r) \o t
         IN  /\ n \in Nat /\ Consumed(r) \in Seq(AnyPiece) /\ c \in Seq(AnyPiece)
             /\ r \o t = Frame(n) \o c
             /\ Rising(c) /\ ToSet(c) \subseteq ToSet(r \o t)
             /\ [n |-> n, part |-> Parts] \in ToSet(r \o t)
             /\ \A x \in ToSet(c) : n < x.n
<1> DEFINE n == r[1].n
           d == Consumed(r)
           c == d \o t
           last == [n |-> n, part |-> Parts]
<1>1. Parts \in Nat \ {0}  BY FramingAssumption DEF FramingAssumption
<1>2. Len(r) >= Parts /\ SubSeq(r, 1, Parts) = Frame(n) /\ Len(r) \in Nat
  BY LenProperties DEF Whole
<1>3. Parts \in 0 .. Len(r) /\ 1 \in 1 .. Len(r)  BY <1>1, <1>2
<1>4. d \in Seq(AnyPiece) /\ r = Frame(n) \o d  BY <1>2, <1>3, Cut DEF Consumed
<1>5. n \in Nat  BY <1>3, ElementOfSeq, PlaceIsNat
<1>6. /\ Frame(n) \in Seq(AnyPiece) /\ Len(Frame(n)) = Parts
      /\ \A p \in 1 .. Parts : Frame(n)[p] = [n |-> n, part |-> p]
  BY <1>5, FrameProperties
<1>7. last \in ToSet(Frame(n)) /\ last \in AnyPiece
  <2>1. Parts \in 1 .. Parts /\ DOMAIN Frame(n) = 1 .. Parts  BY <1>1, <1>6, LenProperties
  <2>2. Frame(n)[Parts] = last  BY <1>6, <2>1
  <2>3. QED  BY <1>5, <2>1, <2>2 DEF ToSet, AnyPiece
<1> HIDE DEF n, d, last
<1>8. c \in Seq(AnyPiece) /\ r \o t = Frame(n) \o c
  <2>1. (Frame(n) \o d) \o t = Frame(n) \o (d \o t) /\ d \o t \in Seq(AnyPiece)
    <3>1. Frame(n) \in Seq(AnyPiece) /\ d \in Seq(AnyPiece)  BY <1>4, <1>6
    <3>2. (Frame(n) \o d) \o t = Frame(n) \o (d \o t)  BY <3>1, Regrouped, Zenon
    <3>3. d \o t \in Seq(AnyPiece)  BY <3>1, JoinedTypes, Zenon
    <3>4. QED  BY <3>2, <3>3, Zenon
  <2>2. r \o t = (Frame(n) \o d) \o t  BY <1>4, Zenon
  <2>3. QED  BY <2>1, <2>2, Zenon DEF c
<1> HIDE DEF c
<1>9. Rising(c) /\ Below(Frame(n), c)  BY <1>6, <1>8, RisingJoined
<1>10. ToSet(r \o t) = ToSet(Frame(n)) \cup ToSet(c) /\ ToSet(c) \subseteq AnyPiece
  BY <1>6, <1>8, InJoined
<1>11. ASSUME NEW x \in ToSet(c)  PROVE n < x.n
  <2>1. Place(last) < Place(x) /\ x \in AnyPiece  BY <1>7, <1>9, <1>10 DEF Below
  <2>2. last.n = n /\ last.part = Parts  BY DEF last
  <2>3. QED  BY <1>7, <2>1, <2>2, LaterFrames
<1>12. QED  BY <1>4, <1>5, <1>7, <1>8, <1>9, <1>10, <1>11 DEF n, d, c, last
=============================================================================
