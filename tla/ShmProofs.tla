----------------------------- MODULE ShmProofs ------------------------------
(***************************************************************************)
(* Theorems about ShmRing, for every size of the ring, width of the          *)
(* counters and set of records.                                              *)
(***************************************************************************)
EXTENDS ShmRing, WellFoundedInduction, TLAPS

\* The counters wrap later than the ring ends.
LEMMA WrapFact == Size \in Nat /\ Hdr \in Nat /\ 0 < Hdr /\ Hdr < Size /\ Wrap \in Nat /\ Size < Wrap
<1>1. Size \in Nat /\ Hdr \in Nat /\ 0 < Hdr /\ Hdr < Size BY ShmAssumption, SMT
<1>2. Turns \in Nat /\ Turns > 1 BY ShmAssumption, SMT
<1>3. Turns * Size >= 2 * Size BY <1>1, <1>2, SMT
<1> QED BY <1>1, <1>2, <1>3, SMT DEF Wrap

\* A sum and a difference of counters that stay within Size of each other
LEMMA CounterFacts ==
  ASSUME NEW h \in 0 .. Wrap - 1, NEW t \in 0 .. Wrap - 1, NEW n \in Nat
  PROVE  /\ Minus(h, t) \in 0 .. Wrap - 1
         /\ n <= Size => Plus(h, n) \in 0 .. Wrap - 1
         /\ Minus(h, t) + n <= Size => Minus(Plus(h, n), t) = Minus(h, t) + n
         /\ (n <= Minus(h, t) /\ Minus(h, t) <= Size) => Minus(h, Plus(t, n)) = Minus(h, t) - n
BY WrapFact, SMT DEF Plus, Minus

LEMMA CellRange == ASSUME NEW p \in Nat, NEW i \in Nat PROVE Cell(p, i) \in 0 .. Size - 1
BY WrapFact, SMT DEF Cell

\* A record in the ring is a sequence of bytes and not empty.
LEMMA EncodedType ==
  ASSUME NEW m \in Records
  PROVE  /\ Encoded(m) \in Seq(Bytes) /\ Len(Encoded(m)) = Hdr + Len(m)
         /\ m \in Seq(Bytes) /\ Len(m) \in Nat
<1>1. m \in Seq(Bytes) /\ Len(m) \in Nat BY ShmAssumption
<1>2. Split[Len(m)] \in [1 .. Hdr -> Bytes] BY ShmAssumption
<1>3. Split[Len(m)] \in Seq(Bytes) /\ Len(Split[Len(m)]) = Hdr BY <1>2, WrapFact
<1> QED BY <1>1, <1>3 DEF Encoded

-----------------------------------------------------------------------------
(* Remainders                                                                *)

LEMMA Quotient ==
  ASSUME NEW a \in Nat
  PROVE  /\ a \div Size \in Nat /\ a % Size \in 0 .. Size - 1
         /\ a = Size * (a \div Size) + (a % Size)
<1>1. a % Size \in 0 .. Size - 1 BY WrapFact, SMT
<1>2. a \div Size \in Int BY WrapFact, SMT
<1>3. a = Size * (a \div Size) + (a % Size) BY WrapFact, SMT
<1>4. a \div Size >= 0 BY WrapFact, SMT
<1> QED BY <1>1, <1>2, <1>3, <1>4, SMT

\* A multiple of Size that lies strictly between -Size and Size is 0.
LEMMA SmallMultiple ==
  ASSUME NEW d \in Int, Size * d < Size, -Size < Size * d
  PROVE  d = 0
<1>1. CASE d >= 1
  <2>1. Size * d >= Size * 1 BY <1>1, WrapFact, SMT
  <2> QED BY <2>1, WrapFact, SMT
<1>2. CASE d <= -1
  <2>1. Size * d <= Size * (-1) BY <1>2, WrapFact, SMT
  <2> QED BY <2>1, WrapFact, SMT
<1> QED BY <1>1, <1>2, SMT

\* Two positions less than Size apart are different cells.
LEMMA DistinctCells ==
  ASSUME NEW t \in Nat, NEW x \in Nat, NEW y \in Nat, x < y, y < x + Size
  PROVE  Cell(t, x) # Cell(t, y)
<1> DEFINE p == (t + x) \div Size
           q == (t + y) \div Size
<1>1. p \in Nat /\ t + x = Size * p + ((t + x) % Size) BY Quotient, SMT
<1>2. q \in Nat /\ t + y = Size * q + ((t + y) % Size) BY Quotient, SMT
<1>3. (t + x) % Size \in 0 .. Size - 1 /\ (t + y) % Size \in 0 .. Size - 1 BY Quotient, SMT
<1> HIDE DEF p, q
<1> SUFFICES ASSUME (t + x) % Size = (t + y) % Size PROVE FALSE BY DEF Cell
<1>4. y - x = Size * q - Size * p BY <1>1, <1>2, <1>3, WrapFact, SMT
<1>5. Size * q - Size * p = Size * (q - p) BY <1>1, <1>2, WrapFact, SMT
<1>6. q - p = 0 BY <1>1, <1>2, <1>4, <1>5, SmallMultiple, WrapFact, SMT
<1>7. Size * (q - p) = 0 BY <1>6, WrapFact, SMT
<1> QED BY <1>4, <1>5, <1>7, SMT

\* The counters wrap where the ring ends: Wrap is a multiple of Size.
LEMMA WrapCell == ASSUME NEW a \in Nat PROVE (a + Wrap) % Size = a % Size
<1> DEFINE p == a \div Size
           q == (a + Wrap) \div Size
<1>1. p \in Nat /\ a = Size * p + (a % Size) /\ a % Size \in 0 .. Size - 1 BY Quotient, SMT
<1>2. /\ q \in Nat /\ a + Wrap = Size * q + ((a + Wrap) % Size)
      /\ (a + Wrap) % Size \in 0 .. Size - 1
  BY Quotient, WrapFact, SMT
<1>3. Turns \in Nat /\ Wrap = Size * Turns BY ShmAssumption, WrapFact, SMT DEF Wrap
<1> HIDE DEF p, q
<1>4. ((a + Wrap) % Size) - (a % Size) = Size * p + Size * Turns - Size * q BY <1>1, <1>2, <1>3, WrapFact, SMT
<1>5. Size * p + Size * Turns - Size * q = Size * (p + Turns - q) BY <1>1, <1>2, <1>3, WrapFact, SMT
<1>6. p + Turns - q = 0 BY <1>1, <1>2, <1>3, <1>4, <1>5, SmallMultiple, WrapFact, SMT
<1>7. Size * (p + Turns - q) = 0 BY <1>6, WrapFact, SMT
<1> QED BY <1>1, <1>2, <1>4, <1>5, <1>7, WrapFact, SMT

\* A cell seen from t
LEMMA CellFrom ==
  ASSUME NEW p \in 0 .. Wrap - 1, NEW t \in 0 .. Wrap - 1, NEW x \in Nat
  PROVE  Cell(p, x) = Cell(t, Minus(p, t) + x)
<1>1. CASE p >= t BY <1>1, WrapFact, SMT DEF Cell, Minus
<1>2. CASE p < t
  <2>1. t + (Minus(p, t) + x) = (p + x) + Wrap BY <1>2, WrapFact, SMT DEF Minus
  <2>2. p + x \in Nat BY WrapFact, SMT
  <2>3. ((p + x) + Wrap) % Size = (p + x) % Size BY <2>2, WrapCell
  <2> QED BY <2>1, <2>3 DEF Cell
<1> QED BY <1>1, <1>2, WrapFact, SMT

-----------------------------------------------------------------------------
(* The invariant                                                             *)

Unread == Len(got) + 1 .. Len(put)

\* Where record k lies, counted from tail, and what it takes
Off(k)   == Minus(starts[k], tail)
Takes(k) == Hdr + Len(put[k])

Histories ==
  /\ put \in Seq(Records) /\ starts \in Seq(0 .. Wrap - 1) /\ Len(starts) = Len(put)
  /\ Len(got) \in 0 .. Len(put) /\ got = SubSeq(put, 1, Len(got))

\* The unread records lie one behind the other from tail to head.
Layout ==
  /\ Unread = {} => Data = 0
  /\ Unread # {} => Off(Len(got) + 1) = 0 /\ Off(Len(put)) + Takes(Len(put)) = Data
  /\ \A k \in Unread : Off(k) + Takes(k) <= Data
  /\ \A k \in Unread : k + 1 \in Unread => Off(k + 1) = Off(k) + Takes(k)
  /\ \A k, l \in Unread : k < l => Off(k) + Takes(k) <= Off(l)

Contents ==
  \A k \in Unread : \A j \in 1 .. Takes(k) : cells[Cell(starts[k], j - 1)] = Encoded(put[k])[j]

\* What the writer has stored so far lies from head on.
WriterHas ==
  wbuf # <<>> =>
    /\ next \in Records /\ wbuf = Encoded(next)
    /\ \A j \in 1 .. wi : cells[Cell(head, j - 1)] = wbuf[j]

\* What the reader has loaded so far is the beginning of the first unread record.
ReaderHas ==
  /\ rpc = "header" =>
       /\ Unread # {} /\ Len(rbuf) <= Hdr
       /\ \A j \in 1 .. Len(rbuf) : rbuf[j] = Encoded(put[Len(got) + 1])[j]
  /\ rpc = "data" =>
       /\ Unread # {} /\ ravail = Len(put[Len(got) + 1]) /\ Len(rbuf) <= ravail
       /\ \A j \in 1 .. Len(rbuf) : rbuf[j] = put[Len(got) + 1][j]

Ring == TypeOK /\ Histories /\ Layout /\ Contents /\ WriterHas /\ ReaderHas

LEMMA ElementOf == ASSUME NEW S, NEW s \in Seq(S), NEW i \in 1 .. Len(s) PROVE s[i] \in S
OBVIOUS

LEMMA UnreadFacts ==
  ASSUME TypeOK, Histories, NEW k \in Unread
  PROVE  /\ k \in Nat /\ k \in 1 .. Len(put) /\ Len(got) < k
         /\ put[k] \in Records /\ starts[k] \in 0 .. Wrap - 1
         /\ Len(put[k]) \in Nat /\ Takes(k) \in Nat /\ Hdr <= Takes(k) /\ Off(k) \in 0 .. Wrap - 1
         /\ Encoded(put[k]) \in Seq(Bytes) /\ Len(Encoded(put[k])) = Takes(k)
<1>1. put \in Seq(Records) /\ starts \in Seq(0 .. Wrap - 1) /\ Len(starts) = Len(put) /\ Len(got) \in Nat
  BY DEF Histories
<1>2. k \in Nat /\ k \in 1 .. Len(put) /\ Len(got) < k BY <1>1 DEF Unread
<1>3. put[k] \in Records BY <1>1, <1>2
<1>10. starts[k] \in 0 .. Wrap - 1
  <2>1. k \in 1 .. Len(starts) BY <1>1, <1>2
  <2> QED BY <1>1, <2>1, ElementOf
<1>4. Len(put[k]) \in Nat /\ Encoded(put[k]) \in Seq(Bytes) /\ Len(Encoded(put[k])) = Hdr + Len(put[k])
  BY <1>3, EncodedType
<1>5. Off(k) \in 0 .. Wrap - 1 BY <1>10, CounterFacts DEF Off, TypeOK
<1> QED BY <1>2, <1>3, <1>10, <1>4, <1>5, WrapFact DEF Takes

LEMMA FirstUnread ==
  ASSUME TypeOK, Histories, Unread # {}
  PROVE  Len(got) + 1 \in Unread /\ Len(put) \in Unread
BY DEF Unread, Histories

LEMMA DataFacts ==
  ASSUME TypeOK
  PROVE  Data \in Nat /\ Data <= Size /\ Len(wbuf) \in Nat /\ Len(rbuf) \in Nat
<1>1. Data \in Nat BY CounterFacts, WrapFact DEF TypeOK, Data
<1>2. Len(wbuf) \in Nat /\ Len(rbuf) \in Nat BY DEF TypeOK
<1> HIDE DEF Data
<1> QED BY <1>1, <1>2, WrapFact DEF TypeOK

\* The bytes the reader meets are those of the first unread record.
LEMMA FirstBytes ==
  ASSUME TypeOK, Histories, Layout, Contents, Unread # {}, NEW i \in Nat, i < Takes(Len(got) + 1)
  PROVE  cells[Cell(tail, i)] = Encoded(put[Len(got) + 1])[i + 1]
<1> DEFINE f == Len(got) + 1
<1>1. f \in Unread BY FirstUnread
<1>2. starts[f] \in 0 .. Wrap - 1 /\ Takes(f) \in Nat BY <1>1, UnreadFacts
<1>3. Minus(starts[f], tail) = 0 BY DEF Layout, Off
<1>4. starts[f] = tail BY <1>2, <1>3, WrapFact, SMT DEF Minus, TypeOK
<1>5. i + 1 \in 1 .. Takes(f) BY <1>2
<1>6. cells[Cell(starts[f], (i + 1) - 1)] = Encoded(put[f])[i + 1] BY <1>1, <1>5 DEF Contents
<1>7. (i + 1) - 1 = i OBVIOUS
<1> QED BY <1>4, <1>6, <1>7

\* Nothing that is unread lies where the writer stores.
LEMMA NothingOverwritten ==
  ASSUME TypeOK, Histories, Layout, wbuf # <<>>, wi < Len(wbuf),
         NEW k \in Unread, NEW j \in 1 .. Takes(k)
  PROVE  Cell(starts[k], j - 1) # Cell(head, wi)
<1>1. starts[k] \in 0 .. Wrap - 1 /\ Takes(k) \in Nat /\ Off(k) \in 0 .. Wrap - 1 BY UnreadFacts
<1>2. head \in 0 .. Wrap - 1 /\ tail \in 0 .. Wrap - 1 /\ tail \in Nat /\ wi \in Nat /\ wi < Len(wbuf)
  BY WrapFact DEF TypeOK
<1>3. Data \in Nat /\ Data + Len(wbuf) <= Size /\ Len(wbuf) \in Nat BY DataFacts DEF TypeOK
<1>4. Off(k) + Takes(k) <= Data BY DEF Layout
<1>5. Cell(starts[k], j - 1) = Cell(tail, Off(k) + (j - 1)) BY <1>1, <1>2, CellFrom DEF Off
<1>6. Cell(head, wi) = Cell(tail, Data + wi) BY <1>2, CellFrom DEF Data
<1> HIDE DEF Data
<1>10. j \in Nat /\ 1 <= j /\ j <= Takes(k) /\ Off(k) \in Nat BY <1>1, WrapFact
<1>11. \A o, n, d, w, b \in Nat :
        o + n <= d /\ d + b <= Size /\ w < b /\ 1 <= j /\ j <= n =>
          /\ o + (j - 1) \in Nat /\ d + w \in Nat /\ o + (j - 1) < d + w
          /\ d + w < o + (j - 1) + Size
  BY <1>10, WrapFact, SMT
<1>7. /\ Off(k) + (j - 1) \in Nat /\ Data + wi \in Nat /\ Off(k) + (j - 1) < Data + wi
      /\ Data + wi < Off(k) + (j - 1) + Size
  BY <1>1, <1>2, <1>3, <1>4, <1>10, <1>11
<1>8. Cell(tail, Off(k) + (j - 1)) # Cell(tail, Data + wi) BY <1>2, <1>7, DistinctCells
<1> QED BY <1>5, <1>6, <1>8

LEMMA RingInit == Init => Ring
<1> SUFFICES ASSUME Init PROVE Ring OBVIOUS
<1> USE WrapFact, ShmAssumption
<1>1. Data = 0 BY SMT DEF Init, Data, Minus
<1>2. TypeOK
  <2>1. cells \in [0 .. Size - 1 -> Bytes] BY DEF Init
  <2>2. head \in 0 .. Wrap - 1 /\ tail \in 0 .. Wrap - 1 BY DEF Init
  <2>3. wbuf \in Seq(Bytes) /\ wi \in 0 .. Len(wbuf) /\ rbuf \in Seq(Bytes) /\ Len(wbuf) = 0 BY DEF Init
  <2>4. rpc \in {"idle", "header", "data"} /\ ravail \in Nat BY DEF Init
  <2> QED BY <1>1, <2>1, <2>2, <2>3, <2>4 DEF TypeOK
<1>3. Unread = {} BY DEF Unread, Init
<1>4. Histories
  <2>1. put \in Seq(Records) /\ starts \in Seq(0 .. Wrap - 1) /\ Len(starts) = Len(put) BY DEF Init
  <2>2. Len(got) = 0 /\ Len(put) = 0 /\ got = SubSeq(put, 1, Len(got)) BY DEF Init
  <2> QED BY <2>1, <2>2 DEF Histories
<1>5. Layout BY <1>1, <1>3 DEF Layout
<1>6. Contents BY <1>3 DEF Contents
<1>7. WriterHas /\ ReaderHas BY DEF Init, WriterHas, ReaderHas
<1> QED BY <1>2, <1>4, <1>5, <1>6, <1>7 DEF Ring

LEMMA ConcatElements ==
  ASSUME NEW S, NEW s \in Seq(S), NEW t \in Seq(S)
  PROVE  /\ \A j \in 1 .. Len(s) : (s \o t)[j] = s[j]
         /\ \A j \in 1 .. Len(t) : (s \o t)[Len(s) + j] = t[j]
OBVIOUS

LEMMA EncodedElements ==
  ASSUME NEW m \in Records
  PROVE  /\ \A j \in 1 .. Hdr : Encoded(m)[j] = Split[Len(m)][j]
         /\ \A j \in 1 .. Len(m) : Encoded(m)[Hdr + j] = m[j]
<1>1. m \in Seq(Bytes) /\ Len(m) \in Nat BY ShmAssumption
<1>2. Split[Len(m)] \in [1 .. Hdr -> Bytes] BY ShmAssumption
<1>3. Split[Len(m)] \in Seq(Bytes) /\ Len(Split[Len(m)]) = Hdr BY <1>2, WrapFact
<1>4. \A j \in 1 .. Hdr : (Split[Len(m)] \o m)[j] = Split[Len(m)][j] BY <1>1, <1>3, ConcatElements
<1>5. \A j \in 1 .. Len(m) : (Split[Len(m)] \o m)[Hdr + j] = m[j] BY <1>1, <1>3, ConcatElements
<1> QED BY <1>4, <1>5 DEF Encoded

-----------------------------------------------------------------------------
(* The writer                                                                *)

LEMMA WriteBeginsKeeps == ASSUME Ring, NEW m \in Records, WriteBegins(m) PROVE Ring'
<1> USE DEF Ring
<1>1. /\ wbuf' = Encoded(m) /\ wi' = 0 /\ next' = m /\ cells' = cells /\ head' = head /\ tail' = tail
      /\ rpc' = rpc /\ ravail' = ravail /\ rbuf' = rbuf /\ put' = put /\ got' = got /\ starts' = starts
  BY DEF WriteBegins, reader
<1>2. Encoded(m) \in Seq(Bytes) /\ Len(Encoded(m)) = Hdr + Len(m) /\ Len(m) \in Nat BY EncodedType
<1>3. Data' = Data BY <1>1 DEF Data, Minus
<1>4. Data \in Nat BY DataFacts
<1>5. Hdr + Len(m) <= Size - Data BY DEF WriteBegins, Fits, Space
<1> HIDE DEF Data
<1>6. Data + Len(Encoded(m)) <= Size /\ 0 \in 0 .. Len(Encoded(m)) BY <1>2, <1>4, <1>5, WrapFact
<1>7. TypeOK' BY <1>1, <1>2, <1>3, <1>6 DEF TypeOK
<1>8. Histories' BY <1>1 DEF Histories
<1>9. Layout' /\ Contents' /\ ReaderHas'
  BY <1>1, <1>3, ZenonT(40) DEF Layout, Contents, ReaderHas, Unread, Off, Takes, Minus, Cell, Encoded
<1>10. WriterHas' BY <1>1 DEF WriterHas, Encoded
<1> QED BY <1>7, <1>8, <1>9, <1>10

LEMMA StoreKeeps == ASSUME Ring, Store PROVE Ring'
<1> USE DEF Ring
<1>1. /\ wbuf # <<>> /\ wi < Len(wbuf) /\ wi' = wi + 1
      /\ cells' = [cells EXCEPT ![Cell(head, wi)] = wbuf[wi + 1]]
      /\ wbuf' = wbuf /\ next' = next /\ head' = head /\ tail' = tail
      /\ rpc' = rpc /\ ravail' = ravail /\ rbuf' = rbuf /\ put' = put /\ got' = got /\ starts' = starts
  BY DEF Store, reader
<1>2. wi \in Nat /\ Len(wbuf) \in Nat /\ wbuf \in Seq(Bytes) BY DEF TypeOK
<1>3. wi + 1 \in 1 .. Len(wbuf) BY <1>1, <1>2
<1>4. wbuf[wi + 1] \in Bytes BY <1>2, <1>3, ElementOf
<1>5. head \in Nat BY WrapFact DEF TypeOK
<1>16. Cell(head, wi) \in 0 .. Size - 1 BY <1>2, <1>5, CellRange
<1>6. cells \in [0 .. Size - 1 -> Bytes] BY DEF TypeOK
<1>7. cells' \in [0 .. Size - 1 -> Bytes] BY <1>1, <1>4, <1>6
<1>8. Data' = Data BY <1>1 DEF Data, Minus
<1>9. wi' \in 0 .. Len(wbuf) BY <1>1, <1>2
<1>10. TypeOK' BY <1>1, <1>7, <1>8, <1>9 DEF TypeOK
<1>11. Histories' BY <1>1 DEF Histories
<1>12. Layout' /\ ReaderHas'
  BY <1>1, <1>8 DEF Layout, ReaderHas, Unread, Off, Takes, Minus, Encoded
<1>13. ASSUME NEW c, c # Cell(head, wi) PROVE cells'[c] = cells[c]
  BY <1>1, <1>16, <1>6, <1>13
<1>14. Contents'
  <2>1. SUFFICES ASSUME NEW k \in Unread, NEW j \in 1 .. Takes(k)
                 PROVE  cells'[Cell(starts[k], j - 1)] = Encoded(put[k])[j]
    <3>1. Unread' = Unread BY <1>1 DEF Unread
    <3>2. \A k \in Unread : Takes(k)' = Takes(k) /\ Encoded(put[k])' = Encoded(put[k])
      BY <1>1 DEF Takes, Encoded
    <3> QED BY <1>1, <3>1, <3>2 DEF Contents, Cell
  <2>2. Cell(starts[k], j - 1) # Cell(head, wi) BY <1>1, NothingOverwritten
  <2>3. cells'[Cell(starts[k], j - 1)] = cells[Cell(starts[k], j - 1)] BY <1>13, <2>2
  <2> QED BY <2>3 DEF Contents
<1>15. WriterHas'
  <2>1. SUFFICES ASSUME NEW j \in 1 .. wi + 1 PROVE cells'[Cell(head, j - 1)] = wbuf[j]
    BY <1>1 DEF WriterHas, Cell, Encoded
  <2>2. CASE j = wi + 1
    <3>1. j - 1 = wi BY <1>2, <2>2
    <3> QED BY <1>1, <1>16, <1>6, <2>2, <3>1
  <2>3. CASE j \in 1 .. wi
    <3>1. Data \in Nat /\ Data + Len(wbuf) <= Size BY DataFacts DEF TypeOK
    <3> HIDE DEF Data
    <3>2. j - 1 \in Nat /\ j - 1 < wi /\ wi < (j - 1) + Size BY <1>1, <1>2, <2>3, <3>1, WrapFact
    <3>3. Cell(head, j - 1) # Cell(head, wi) BY <1>2, <1>5, <3>2, DistinctCells
    <3>4. cells'[Cell(head, j - 1)] = cells[Cell(head, j - 1)] BY <1>13, <3>3
    <3> QED BY <1>1, <2>3, <3>4 DEF WriterHas
  <2> QED BY <1>2, <2>2, <2>3
<1> QED BY <1>10, <1>11, <1>12, <1>14, <1>15

-----------------------------------------------------------------------------
(* The reader, up to the step that moves tail                                *)

LEMMA PeekKeeps == ASSUME Ring, Peek PROVE Ring'
<1> USE DEF Ring
<1>1. /\ ravail' = Data /\ rpc' = "header" /\ rbuf' = <<>> /\ Data >= Hdr
      /\ cells' = cells /\ head' = head /\ tail' = tail /\ wbuf' = wbuf /\ wi' = wi /\ next' = next
      /\ put' = put /\ got' = got /\ starts' = starts
  BY DEF Peek, writer, Holds
<1>2. Data' = Data BY <1>1 DEF Data, Minus
<1>3. Data \in Nat BY DataFacts
<1>4. Data # 0 BY <1>1, <1>3, WrapFact
<1> HIDE DEF Data
<1>5. Unread # {} BY <1>4 DEF Layout
<1>6. TypeOK' BY <1>1, <1>2, <1>3 DEF TypeOK
<1>7. Histories' BY <1>1 DEF Histories
<1>8. Layout' /\ Contents' /\ WriterHas'
  BY <1>1, <1>2, ZenonT(40) DEF Layout, Contents, WriterHas, Unread, Off, Takes, Minus, Cell, Encoded
<1>9. Len(rbuf') = 0 BY <1>1
<1>10. ReaderHas' BY <1>1, <1>5, <1>9, WrapFact DEF ReaderHas, Unread
<1> QED BY <1>6, <1>7, <1>8, <1>10

\* What only the reader's own buffer changes
LEMMA ReaderOnly ==
  ASSUME Ring, rpc' \in {"idle", "header", "data"}, ravail' \in Nat, rbuf' \in Seq(Bytes),
         cells' = cells, head' = head, tail' = tail, wbuf' = wbuf, wi' = wi, next' = next,
         put' = put, got' = got, starts' = starts
  PROVE  TypeOK' /\ Histories' /\ Layout' /\ Contents' /\ WriterHas'
<1> USE DEF Ring
<1>1. Data' = Data BY DEF Data, Minus
<1> HIDE DEF Data
<1>2. TypeOK' BY <1>1 DEF TypeOK
<1>3. Histories' BY DEF Histories
<1>4. Layout' /\ Contents' /\ WriterHas'
  BY <1>1, ZenonT(40) DEF Layout, Contents, WriterHas, Unread, Off, Takes, Minus, Cell, Encoded
<1> QED BY <1>2, <1>3, <1>4

\* One more byte
LEMMA Appended ==
  ASSUME NEW S, NEW s \in Seq(S), NEW e \in S
  PROVE  /\ Append(s, e) \in Seq(S) /\ Len(Append(s, e)) = Len(s) + 1
         /\ \A j \in 1 .. Len(s) : Append(s, e)[j] = s[j]
         /\ Append(s, e)[Len(s) + 1] = e
OBVIOUS

LEMMA LoadHeaderKeeps == ASSUME Ring, LoadHeader PROVE Ring'
<1> USE DEF Ring
<1> DEFINE b == cells[Cell(tail, Len(rbuf))]
           first == put[Len(got) + 1]
<1>1. /\ rpc = "header" /\ Len(rbuf) < Hdr /\ rbuf' = Append(rbuf, b)
      /\ cells' = cells /\ head' = head /\ tail' = tail /\ wbuf' = wbuf /\ wi' = wi /\ next' = next
      /\ rpc' = rpc /\ ravail' = ravail /\ put' = put /\ got' = got /\ starts' = starts
  BY DEF LoadHeader, writer
<1>2. Len(rbuf) \in Nat /\ rbuf \in Seq(Bytes) BY DataFacts DEF TypeOK
<1>3. tail \in Nat BY WrapFact DEF TypeOK
<1>4. b \in Bytes BY <1>2, <1>3, CellRange DEF TypeOK
<1>5. Unread # {} BY <1>1 DEF ReaderHas
<1>6. Len(got) + 1 \in Unread BY <1>5, FirstUnread
<1>7. Takes(Len(got) + 1) \in Nat /\ Hdr <= Takes(Len(got) + 1) BY <1>6, UnreadFacts
<1>8. Len(rbuf) < Takes(Len(got) + 1) BY <1>1, <1>2, <1>7, WrapFact
<1>9. b = Encoded(first)[Len(rbuf) + 1] BY <1>2, <1>5, <1>8, FirstBytes
<1> HIDE DEF b
<1>10. rbuf' \in Seq(Bytes) /\ Len(rbuf') = Len(rbuf) + 1 BY <1>1, <1>2, <1>4, Appended
<1>11. \A j \in 1 .. Len(rbuf') : rbuf'[j] = Encoded(first)[j]
  <2> TAKE j \in 1 .. Len(rbuf')
  <2>1. CASE j \in 1 .. Len(rbuf) BY <1>1, <1>2, <1>4, <2>1, Appended DEF ReaderHas
  <2>2. CASE j = Len(rbuf) + 1 BY <1>1, <1>2, <1>4, <1>9, <2>2, Appended
  <2> QED BY <1>2, <1>10, <2>1, <2>2
<1>12. rpc' \in {"idle", "header", "data"} /\ ravail' \in Nat BY <1>1 DEF TypeOK
<1>13. TypeOK' /\ Histories' /\ Layout' /\ Contents' /\ WriterHas' BY <1>1, <1>10, <1>12, ReaderOnly
<1>14. Unread' # {} BY <1>1, <1>5 DEF Unread
<1>15. Len(rbuf') <= Hdr BY <1>1, <1>2, <1>10, WrapFact
<1>16. Encoded(put[Len(got) + 1])' = Encoded(first) BY <1>1 DEF Encoded
<1>17. ReaderHas' BY <1>1, <1>11, <1>14, <1>15, <1>16 DEF ReaderHas
<1> QED BY <1>13, <1>17

LEMMA CheckLengthKeeps == ASSUME Ring, CheckLength PROVE Ring'
<1> USE DEF Ring
<1> DEFINE first == put[Len(got) + 1]
<1>1. /\ rpc = "header" /\ Len(rbuf) = Hdr /\ rbuf' = <<>>
      /\ cells' = cells /\ head' = head /\ tail' = tail /\ wbuf' = wbuf /\ wi' = wi /\ next' = next
      /\ put' = put /\ got' = got /\ starts' = starts
      /\ \/ rpc' = "data" /\ ravail' = Join[rbuf]
         \/ rpc' = "idle" /\ ravail' = 0
  BY DEF CheckLength, writer
<1>2. rbuf \in Seq(Bytes) BY DEF TypeOK
<1>3. Unread # {} BY <1>1 DEF ReaderHas
<1>4. Len(got) + 1 \in Unread BY <1>3, FirstUnread
<1>5. first \in Records /\ Len(first) \in Nat BY <1>4, UnreadFacts
<1>6. \A j \in 1 .. Hdr : rbuf[j] = Split[Len(first)][j]
  BY <1>1, <1>5, EncodedElements DEF ReaderHas
<1>7. rbuf \in [1 .. Hdr -> Bytes] BY <1>1, <1>2
<1>8. Split[Len(first)] \in [1 .. Hdr -> Bytes] /\ Join[Split[Len(first)]] = Len(first) BY <1>5, ShmAssumption
<1>9. rbuf = Split[Len(first)]
  <2> DEFINE g == Split[Len(first)]
  <2>1. g \in [1 .. Hdr -> Bytes] /\ \A j \in 1 .. Hdr : rbuf[j] = g[j] BY <1>6, <1>8
  <2> HIDE DEF g
  <2>2. rbuf = [j \in 1 .. Hdr |-> rbuf[j]] BY <1>7
  <2>3. g = [j \in 1 .. Hdr |-> g[j]] BY <2>1
  <2>4. [j \in 1 .. Hdr |-> rbuf[j]] = [j \in 1 .. Hdr |-> g[j]] BY <2>1, Zenon
  <2>5. rbuf = g BY <2>2, <2>3, <2>4, Zenon
  <2> QED BY <2>5 DEF g
<1>10. Join[rbuf] = Len(first) BY <1>8, <1>9
<1>11. rpc' \in {"idle", "header", "data"} /\ ravail' \in Nat /\ rbuf' \in Seq(Bytes) /\ Len(rbuf') = 0
  BY <1>1, <1>5, <1>10
<1>12. TypeOK' /\ Histories' /\ Layout' /\ Contents' /\ WriterHas' BY <1>1, <1>11, ReaderOnly
<1>13. Unread' # {} BY <1>1, <1>3 DEF Unread
<1>14. CASE rpc' = "data" /\ ravail' = Join[rbuf]
  <2>1. ravail' = Len(put[Len(got) + 1])' BY <1>1, <1>10, <1>14
  <2>2. Len(rbuf') <= ravail' BY <1>5, <1>10, <1>11, <1>14
  <2>3. ReaderHas' BY <1>11, <1>13, <1>14, <2>1, <2>2 DEF ReaderHas
  <2> QED BY <1>12, <2>3
<1>15. CASE rpc' = "idle" BY <1>12, <1>15 DEF ReaderHas
<1> QED BY <1>1, <1>14, <1>15

LEMMA LoadKeeps == ASSUME Ring, Load PROVE Ring'
<1> USE DEF Ring
<1> DEFINE b == cells[Cell(tail, Hdr + Len(rbuf))]
           first == put[Len(got) + 1]
<1>1. /\ rpc = "data" /\ Len(rbuf) < ravail /\ rbuf' = Append(rbuf, b)
      /\ cells' = cells /\ head' = head /\ tail' = tail /\ wbuf' = wbuf /\ wi' = wi /\ next' = next
      /\ rpc' = rpc /\ ravail' = ravail /\ put' = put /\ got' = got /\ starts' = starts
  BY DEF Load, writer
<1>2. Len(rbuf) \in Nat /\ rbuf \in Seq(Bytes) BY DataFacts DEF TypeOK
<1>3. tail \in Nat /\ Hdr + Len(rbuf) \in Nat BY <1>2, WrapFact DEF TypeOK
<1>4. b \in Bytes BY <1>3, CellRange DEF TypeOK
<1>5. Unread # {} /\ ravail = Len(first) BY <1>1 DEF ReaderHas
<1>6. Len(got) + 1 \in Unread BY <1>5, FirstUnread
<1>7. first \in Records /\ Len(first) \in Nat BY <1>6, UnreadFacts
<1>8. Len(rbuf) + 1 \in 1 .. Len(first) BY <1>1, <1>2, <1>5, <1>7
<1>9. Hdr + Len(rbuf) < Takes(Len(got) + 1) BY <1>2, <1>7, <1>8, WrapFact DEF Takes
<1>10. b = Encoded(first)[(Hdr + Len(rbuf)) + 1] BY <1>3, <1>5, <1>9, FirstBytes
<1>11. (Hdr + Len(rbuf)) + 1 = Hdr + (Len(rbuf) + 1) BY <1>2, WrapFact
<1>12. b = first[Len(rbuf) + 1] BY <1>7, <1>8, <1>10, <1>11, EncodedElements
<1> HIDE DEF b
<1>13. rbuf' \in Seq(Bytes) /\ Len(rbuf') = Len(rbuf) + 1 BY <1>1, <1>2, <1>4, Appended
<1>14. \A j \in 1 .. Len(rbuf') : rbuf'[j] = first[j]
  <2> TAKE j \in 1 .. Len(rbuf')
  <2>1. CASE j \in 1 .. Len(rbuf) BY <1>1, <1>2, <1>4, <2>1, Appended DEF ReaderHas
  <2>2. CASE j = Len(rbuf) + 1 BY <1>1, <1>2, <1>4, <1>12, <2>2, Appended
  <2> QED BY <1>2, <1>13, <2>1, <2>2
<1>15. rpc' \in {"idle", "header", "data"} /\ ravail' \in Nat BY <1>1 DEF TypeOK
<1>16. TypeOK' /\ Histories' /\ Layout' /\ Contents' /\ WriterHas' BY <1>1, <1>13, <1>15, ReaderOnly
<1>17. Unread' # {} BY <1>1, <1>5 DEF Unread
<1>18. Len(rbuf') <= ravail BY <1>5, <1>7, <1>8, <1>13
<1>19. ReaderHas' BY <1>1, <1>5, <1>14, <1>17, <1>18 DEF ReaderHas
<1> QED BY <1>16, <1>19

-----------------------------------------------------------------------------
(* The steps that move head and tail                                         *)

LEMMA PrefixOfAppend ==
  ASSUME NEW S, NEW s \in Seq(S), NEW e \in S, NEW n \in 0 .. Len(s)
  PROVE  SubSeq(Append(s, e), 1, n) = SubSeq(s, 1, n)
OBVIOUS

LEMMA PublishKeeps == ASSUME Ring, Publish PROVE Ring'
<1> USE DEF Ring
<1>0. PICK n : n = Len(put) + 1 OBVIOUS
<1>1. /\ wbuf # <<>> /\ wi = Len(wbuf) /\ head' = Plus(head, Len(wbuf))
      /\ put' = Append(put, next) /\ starts' = Append(starts, head)
      /\ wbuf' = <<>> /\ wi' = 0 /\ next' = <<>> /\ cells' = cells /\ tail' = tail /\ got' = got
      /\ rpc' = rpc /\ ravail' = ravail /\ rbuf' = rbuf
  BY DEF Publish, reader, Stored
<1>2. next \in Records /\ wbuf = Encoded(next) BY <1>1 DEF WriterHas
<1>3. Len(wbuf) = Hdr + Len(next) /\ Len(next) \in Nat BY <1>2, EncodedType
<1>4. /\ head \in 0 .. Wrap - 1 /\ tail \in 0 .. Wrap - 1 /\ Data \in Nat /\ Len(wbuf) \in Nat
      /\ Data + Len(wbuf) <= Size
  BY DataFacts DEF TypeOK
<1>5. Data' = Data + Len(wbuf) BY <1>1, <1>4, CounterFacts DEF Data
<1>6. head' \in 0 .. Wrap - 1
  <2>1. Len(wbuf) <= Size BY <1>4, WrapFact
  <2> QED BY <1>1, <1>4, <2>1, CounterFacts
<1>7. put \in Seq(Records) /\ starts \in Seq(0 .. Wrap - 1) /\ Len(starts) = Len(put) /\ Len(got) \in 0 .. Len(put)
  BY DEF Histories
<1>8. /\ put' \in Seq(Records) /\ Len(put') = n /\ put'[n] = next
      /\ \A k \in 1 .. Len(put) : put'[k] = put[k]
  BY <1>0, <1>1, <1>2, <1>7, Appended
<1>9. /\ starts' \in Seq(0 .. Wrap - 1) /\ Len(starts') = n /\ starts'[n] = head
      /\ \A k \in 1 .. Len(put) : starts'[k] = starts[k]
  <2>1. starts' \in Seq(0 .. Wrap - 1) /\ Len(starts') = Len(starts) + 1 /\ starts'[Len(starts) + 1] = head
    BY <1>1, <1>4, <1>7, Appended
  <2>2. \A k \in 1 .. Len(starts) : starts'[k] = starts[k] BY <1>1, <1>4, <1>7, Appended
  <2> QED BY <1>0, <1>7, <2>1, <2>2
<1>10. TypeOK'
  <2>1. wbuf' \in Seq(Bytes) /\ Len(wbuf') = 0 BY <1>1
  <2>2. Data' + 0 <= Size BY <1>4, <1>5, WrapFact
  <2>3. wi' \in 0 .. Len(wbuf') BY <1>1, <2>1
  <2> HIDE DEF Data
  <2> QED BY <1>1, <1>6, <2>1, <2>2, <2>3 DEF TypeOK
<1>11. Histories'
  <2>1. SubSeq(put', 1, Len(got)) = got BY <1>1, <1>2, <1>7, PrefixOfAppend DEF Histories
  <2>2. Len(got) \in 0 .. Len(put') BY <1>0, <1>7, <1>8
  <2>3. Len(got') = Len(got) /\ got' = SubSeq(put', 1, Len(got')) BY <1>1, <2>1
  <2> QED BY <1>8, <1>9, <2>2, <2>3 DEF Histories
<1>12. Unread' = Unread \cup {n} /\ n \notin Unread /\ \A k \in Unread : k < n /\ k \in 1 .. Len(put)
  BY <1>0, <1>1, <1>7, <1>8 DEF Unread
<1>13. \A k \in Unread : Off(k)' = Off(k) /\ Takes(k)' = Takes(k) /\ Off(k) \in Nat /\ Takes(k) \in Nat
  <2> TAKE k \in Unread
  <2>1. put'[k] = put[k] /\ starts'[k] = starts[k] BY <1>8, <1>9, <1>12
  <2>2. Off(k) \in Nat /\ Takes(k) \in Nat BY UnreadFacts, WrapFact
  <2> QED BY <1>1, <2>1, <2>2 DEF Off, Takes, Minus
<1>14. Off(n)' = Data /\ Takes(n)' = Len(wbuf)
  BY <1>1, <1>3, <1>8, <1>9 DEF Off, Takes, Data, Minus
<1> HIDE DEF Data
<1>15. Layout'
  <2>1. Unread' # {} /\ Len(put)' = n BY <1>8, <1>12
  <2>2. Off(n)' + Takes(n)' = Data' BY <1>5, <1>14
  <2>3. Off(Len(got) + 1)' = 0
    <3>1. CASE Unread = {}
      <4>1. Data = 0 BY <3>1 DEF Layout
      <4>2. Len(got') + 1 = n BY <1>0, <1>1, <1>7, <3>1, SMTT(30) DEF Unread
      <4> QED BY <1>14, <4>1, <4>2
    <3>2. CASE Unread # {}
      <4>1. Len(got) + 1 \in Unread /\ Off(Len(got) + 1) = 0 BY <3>2, FirstUnread DEF Layout
      <4>2. Len(got') = Len(got) BY <1>1
      <4> QED BY <1>13, <4>1, <4>2
    <3> QED BY <3>1, <3>2
  <2>4. \A k \in Unread' : Off(k)' + Takes(k)' <= Data'
    <3> TAKE k \in Unread'
    <3>1. CASE k = n BY <1>4, <1>5, <1>14, <3>1
    <3>2. CASE k \in Unread
      <4>1. Off(k) + Takes(k) <= Data BY <3>2 DEF Layout
      <4> QED BY <1>4, <1>5, <1>13, <3>2, <4>1
    <3> QED BY <1>12, <3>1, <3>2
  <2>5. \A k \in Unread' : k + 1 \in Unread' => Off(k + 1)' = Off(k)' + Takes(k)'
    <3> SUFFICES ASSUME NEW k \in Unread', k + 1 \in Unread' PROVE Off(k + 1)' = Off(k)' + Takes(k)'
      OBVIOUS
    <3>1. k \in Unread
      <4>1. k # n BY <1>0, <1>7, <1>12
      <4> QED BY <1>12, <4>1
    <3>2. CASE k + 1 \in Unread BY <1>13, <3>1, <3>2 DEF Layout
    <3>3. CASE k + 1 = n
      <4>1. k = Len(put) BY <1>0, <1>7, <1>12, <3>1, <3>3
      <4>2. Off(k) + Takes(k) = Data BY <3>1, <4>1 DEF Layout
      <4> QED BY <1>13, <1>14, <3>1, <3>3, <4>2
    <3> QED BY <1>12, <3>2, <3>3
  <2>6. \A k, l \in Unread' : k < l => Off(k)' + Takes(k)' <= Off(l)'
    <3> SUFFICES ASSUME NEW k \in Unread', NEW l \in Unread', k < l PROVE Off(k)' + Takes(k)' <= Off(l)'
      OBVIOUS
    <3>1. k \in Unread BY <1>0, <1>7, <1>12
    <3>2. CASE l \in Unread BY <1>13, <3>1, <3>2 DEF Layout
    <3>3. CASE l = n
      <4>1. Off(k) + Takes(k) <= Data BY <3>1 DEF Layout
      <4> QED BY <1>13, <1>14, <3>1, <3>3, <4>1
    <3> QED BY <1>12, <3>2, <3>3
  <2> QED BY <2>1, <2>2, <2>3, <2>4, <2>5, <2>6 DEF Layout
<1>16. Contents'
  <2> SUFFICES ASSUME NEW k \in Unread', NEW j \in 1 .. Takes(k)'
               PROVE  cells[Cell(starts'[k], j - 1)] = Encoded(put'[k])[j]
    BY <1>1 DEF Contents, Cell, Encoded
  <2>1. CASE k = n
    <3>1. j \in 1 .. wi BY <1>1, <1>14, <2>1
    <3>2. cells[Cell(head, j - 1)] = wbuf[j] BY <1>1, <3>1 DEF WriterHas
    <3> QED BY <1>2, <1>8, <1>9, <2>1, <3>2
  <2>2. CASE k \in Unread
    <3>1. j \in 1 .. Takes(k) /\ put'[k] = put[k] /\ starts'[k] = starts[k] BY <1>8, <1>9, <1>12, <1>13, <2>2
    <3> QED BY <2>2, <3>1 DEF Contents
  <2> QED BY <1>12, <2>1, <2>2
<1>17. WriterHas' BY <1>1 DEF WriterHas
<1>18. ReaderHas'
  <2>1. ASSUME Unread # {} PROVE Unread' # {} /\ put'[Len(got') + 1] = put[Len(got) + 1]
    <3>1. Len(got) + 1 \in Unread BY <2>1, FirstUnread
    <3> QED BY <1>1, <1>8, <1>12, <3>1
  <2>2. CASE rpc = "header"
    <3>1. Unread' # {} /\ put'[Len(got') + 1] = put[Len(got) + 1] BY <2>1, <2>2 DEF ReaderHas
    <3> QED BY <1>1, <2>2, <3>1 DEF ReaderHas, Encoded
  <2>3. CASE rpc = "data"
    <3>1. Unread' # {} /\ put'[Len(got') + 1] = put[Len(got) + 1] BY <2>1, <2>3 DEF ReaderHas
    <3> QED BY <1>1, <2>3, <3>1 DEF ReaderHas
  <2>4. CASE rpc # "header" /\ rpc # "data" BY <1>1, <2>4 DEF ReaderHas
  <2> QED BY <2>2, <2>3, <2>4
<1> QED BY <1>10, <1>11, <1>15, <1>16, <1>17, <1>18

\* A whole sequence, element by element
LEMMA Whole ==
  ASSUME NEW S, NEW s \in Seq(S), NEW t \in Seq(S), Len(s) = Len(t), \A j \in 1 .. Len(s) : s[j] = t[j]
  PROVE  s = t
OBVIOUS

LEMMA NextPrefix ==
  ASSUME NEW S, NEW s \in Seq(S), NEW n \in 0 .. Len(s), n < Len(s)
  PROVE  Append(SubSeq(s, 1, n), s[n + 1]) = SubSeq(s, 1, n + 1) /\ Len(SubSeq(s, 1, n + 1)) = n + 1
OBVIOUS

\* What Release takes out of the ring is the first unread record.
LEMMA ReleaseFacts ==
  ASSUME Ring, Release
  PROVE  /\ Unread # {} /\ rbuf = put[Len(got) + 1]
         /\ tail' = Plus(tail, Takes(Len(got) + 1)) /\ got' = Append(got, put[Len(got) + 1])
         /\ got' = SubSeq(put, 1, Len(got) + 1) /\ Len(got') = Len(got) + 1
         /\ Len(got) + 1 \in Unread
<1> USE DEF Ring
<1>1. rpc = "data" /\ Len(rbuf) = ravail /\ tail' = Plus(tail, Hdr + ravail) /\ got' = Append(got, rbuf)
  BY DEF Release
<1>2. /\ Unread # {} /\ ravail = Len(put[Len(got) + 1])
      /\ \A j \in 1 .. Len(rbuf) : rbuf[j] = put[Len(got) + 1][j]
  BY <1>1 DEF ReaderHas
<1>3. Len(got) + 1 \in Unread BY <1>2, FirstUnread
<1>4. put[Len(got) + 1] \in Records BY <1>3, UnreadFacts
<1>5. put[Len(got) + 1] \in Seq(Bytes) /\ rbuf \in Seq(Bytes) BY <1>4, EncodedType DEF TypeOK
<1>6. rbuf = put[Len(got) + 1] BY <1>1, <1>2, <1>5, Whole
<1>7. put \in Seq(Records) /\ Len(got) \in 0 .. Len(put) /\ got = SubSeq(put, 1, Len(got)) BY DEF Histories
<1>8. Len(got) < Len(put) BY <1>3, <1>7 DEF Unread
<1>9. Append(SubSeq(put, 1, Len(got)), put[Len(got) + 1]) = SubSeq(put, 1, Len(got) + 1)
      /\ Len(SubSeq(put, 1, Len(got) + 1)) = Len(got) + 1
  BY <1>7, <1>8, NextPrefix
<1>10. got' = SubSeq(put, 1, Len(got) + 1) BY <1>1, <1>6, <1>7, <1>9
<1> QED BY <1>1, <1>2, <1>3, <1>6, <1>9, <1>10 DEF Takes

LEMMA ReleaseKeeps == ASSUME Ring, Release PROVE Ring'
<1> USE DEF Ring
<1>0. PICK f, t : f = Len(got) + 1 /\ t = Takes(Len(got) + 1) OBVIOUS
<1>1. /\ Unread # {} /\ f \in Unread /\ tail' = Plus(tail, t)
      /\ got' = SubSeq(put, 1, f) /\ Len(got') = f /\ t = Takes(f)
  BY <1>0, ReleaseFacts
<1>2. /\ cells' = cells /\ head' = head /\ wbuf' = wbuf /\ wi' = wi /\ next' = next
      /\ put' = put /\ starts' = starts /\ rpc' = "idle" /\ ravail' = 0 /\ rbuf' = <<>>
  BY DEF Release, writer
<1>3. t \in Nat /\ Off(f) = 0 /\ Off(f) + t <= Data BY <1>0, <1>1, UnreadFacts DEF Layout
<1>4. /\ head \in 0 .. Wrap - 1 /\ tail \in 0 .. Wrap - 1 /\ Data \in Nat /\ Data <= Size
      /\ Len(wbuf) \in Nat /\ Data + Len(wbuf) <= Size
  BY DataFacts DEF TypeOK
<1>5. t <= Data /\ t <= Size BY <1>3, <1>4, WrapFact
<1>6. Data' = Data - t BY <1>1, <1>2, <1>3, <1>4, <1>5, CounterFacts DEF Data
<1>7. tail' \in 0 .. Wrap - 1 BY <1>1, <1>3, <1>4, <1>5, CounterFacts
<1>8. TypeOK'
  <2>1. rbuf' \in Seq(Bytes) BY <1>2
  <2>2. Data' + Len(wbuf') <= Size BY <1>2, <1>3, <1>4, <1>6, WrapFact
  <2> HIDE DEF Data
  <2> QED BY <1>2, <1>7, <2>1, <2>2 DEF TypeOK
<1>9. put \in Seq(Records) /\ Len(put) \in Nat /\ Len(got) \in 0 .. Len(put) BY DEF Histories
<1>10. Len(got') \in 0 .. Len(put) /\ f <= Len(put) /\ f \in Nat BY <1>0, <1>1, <1>9 DEF Unread
<1>11. Histories' BY <1>1, <1>2, <1>10 DEF Histories
<1>12. Unread' = Unread \ {f} /\ \A k \in Unread' : f < k /\ k \in Unread
  BY <1>0, <1>1, <1>2, <1>9, <1>10 DEF Unread
<1>13. ASSUME NEW k \in Unread'
       PROVE  /\ Off(k)' = Off(k) - t /\ Takes(k)' = Takes(k)
              /\ Off(k) \in Nat /\ Takes(k) \in Nat /\ t <= Off(k)
  <2>1. k \in Unread /\ f < k BY <1>12
  <2>2. starts[k] \in 0 .. Wrap - 1 /\ Off(k) \in Nat /\ Takes(k) \in Nat BY <2>1, UnreadFacts, WrapFact
  <2>3. Off(f) + Takes(f) <= Off(k) /\ Off(k) + Takes(k) <= Data BY <1>1, <2>1 DEF Layout
  <2>4. t <= Off(k) /\ Off(k) <= Size BY <1>1, <1>3, <1>4, <2>2, <2>3, WrapFact
  <2>5. Minus(starts[k], Plus(tail, t)) = Minus(starts[k], tail) - t
    <3>1. PICK h : h = starts[k] OBVIOUS
    <3>2. h \in 0 .. Wrap - 1 /\ t <= Minus(h, tail) /\ Minus(h, tail) <= Size BY <2>2, <2>4, <3>1 DEF Off
    <3>3. t \in Nat /\ tail \in 0 .. Wrap - 1 BY <1>3, <1>4
    <3>4. Minus(h, Plus(tail, t)) = Minus(h, tail) - t BY <3>2, <3>3, CounterFacts
    <3> QED BY <3>1, <3>4
  <2>6. Off(k)' = Off(k) - t BY <1>1, <1>2, <2>5 DEF Off, Minus
  <2>7. Takes(k)' = Takes(k) BY <1>2 DEF Takes
  <2> QED BY <2>2, <2>4, <2>6, <2>7
<1> HIDE DEF Data
<1>14. Layout'
  <2>1. ASSUME Unread' = {} PROVE Data' = 0
    <3>1. Len(put) = f BY <1>2, <1>1, <1>10, <2>1 DEF Unread
    <3>2. Off(f) + Takes(f) = Data BY <1>1, <3>1 DEF Layout
    <3> QED BY <1>1, <1>3, <1>6, <3>2
  <2>2. ASSUME Unread' # {} PROVE Off(Len(got) + 1)' = 0 /\ Off(Len(put))' + Takes(Len(put))' = Data'
    <3>1. f + 1 \in Unread' /\ Len(put) \in Unread' BY <1>1, <1>2, <1>10, <2>2 DEF Unread
    <3>2. f + 1 \in Unread BY <1>12, <3>1
    <3>3. Off(f + 1) = Off(f) + Takes(f) BY <1>1, <3>2 DEF Layout
    <3>4. Off(f + 1)' = 0 BY <1>1, <1>3, <1>13, <3>1, <3>3
    <3>5. Off(Len(put)) + Takes(Len(put)) = Data BY <1>1 DEF Layout
    <3>6. PICK n : n = Len(put) OBVIOUS
    <3>7. Off(n)' + Takes(n)' = Data' BY <1>3, <1>4, <1>6, <1>13, <3>1, <3>5, <3>6, SMTT(30)
    <3>8. Len(put)' = n /\ (Len(got) + 1)' = f + 1 BY <1>1, <1>2, <3>6
    <3> QED BY <3>4, <3>7, <3>8
  <2>3. \A k \in Unread' : Off(k)' + Takes(k)' <= Data'
    <3> TAKE k \in Unread'
    <3>1. Off(k) + Takes(k) <= Data BY <1>12 DEF Layout
    <3> QED BY <1>3, <1>4, <1>6, <1>13, <3>1
  <2>4. \A k \in Unread' : k + 1 \in Unread' => Off(k + 1)' = Off(k)' + Takes(k)'
    <3> SUFFICES ASSUME NEW k \in Unread', k + 1 \in Unread' PROVE Off(k + 1)' = Off(k)' + Takes(k)'
      OBVIOUS
    <3>1. Off(k + 1) = Off(k) + Takes(k) BY <1>12 DEF Layout
    <3> QED BY <1>3, <1>13, <3>1
  <2>5. \A k, l \in Unread' : k < l => Off(k)' + Takes(k)' <= Off(l)'
    <3> SUFFICES ASSUME NEW k \in Unread', NEW l \in Unread', k < l PROVE Off(k)' + Takes(k)' <= Off(l)'
      OBVIOUS
    <3>1. Off(k) + Takes(k) <= Off(l) BY <1>12 DEF Layout
    <3> QED BY <1>3, <1>13, <3>1
  <2> QED BY <2>1, <2>2, <2>3, <2>4, <2>5 DEF Layout
<1>15. Contents'
  <2> SUFFICES ASSUME NEW k \in Unread', NEW j \in 1 .. Takes(k)'
               PROVE  cells[Cell(starts[k], j - 1)] = Encoded(put[k])[j]
    BY <1>2 DEF Contents, Cell, Encoded
  <2>1. k \in Unread /\ j \in 1 .. Takes(k) BY <1>12, <1>13
  <2> QED BY <2>1 DEF Contents
<1>16. WriterHas' BY <1>2 DEF WriterHas, Cell, Encoded
<1>17. ReaderHas' BY <1>2 DEF ReaderHas
<1> QED BY <1>8, <1>11, <1>14, <1>15, <1>16, <1>17

-----------------------------------------------------------------------------
(* Theorems                                                                  *)

LEMMA RingStep == ASSUME Ring, [Next]_vars PROVE Ring'
<1>1. CASE \E m \in Records : WriteBegins(m) BY <1>1, WriteBeginsKeeps
<1>2. CASE Store BY <1>2, StoreKeeps
<1>3. CASE Publish BY <1>3, PublishKeeps
<1>4. CASE Peek BY <1>4, PeekKeeps
<1>5. CASE LoadHeader BY <1>5, LoadHeaderKeeps
<1>6. CASE CheckLength BY <1>6, CheckLengthKeeps
<1>7. CASE Load BY <1>7, LoadKeeps
<1>8. CASE Release BY <1>8, ReleaseKeeps
<1>9. CASE UNCHANGED vars
  BY <1>9, ZenonT(40) DEF vars, writer, reader, Ring, TypeOK, Histories, Layout, Contents, WriterHas, ReaderHas,
              Unread, Off, Takes, Data, Minus, Cell, Encoded
<1> QED BY <1>1, <1>2, <1>3, <1>4, <1>5, <1>6, <1>7, <1>8, <1>9 DEF Next, Writes, Reads

LEMMA RingHoldsAlways == Spec => []Ring
BY RingInit, RingStep, PTL DEF Spec

\* The writer never runs over what the reader has still to read, whatever the sizes
\* of the records, wherever the ring ends and the unsigned counters wrap.
THEOREM NeverOverrun == Spec => []TypeOK
<1>1. Ring => TypeOK BY DEF Ring
<1> QED BY <1>1, RingHoldsAlways, PTL

-----------------------------------------------------------------------------
(* The bytes of the ring, from tail to head                                  *)

\* Induction, stated with a set of numbers
LEMMA Induct ==
  ASSUME NEW T \in SUBSET Nat, 0 \in T, \A n \in T : n + 1 \in T
  PROVE  T = Nat
<1>1. SUFFICES ASSUME Nat \ T # {} PROVE FALSE OBVIOUS
<1>2. IsWellFoundedOn(OpToRel(<, Nat), Nat) BY NatLessThanWellFounded
<1>3. PICK m \in Nat \ T : \A k \in Nat \ T : ~(<<k, m>> \in OpToRel(<, Nat)) BY <1>1, <1>2, WFMin
<1>4. m # 0 /\ m - 1 \in Nat /\ m - 1 < m /\ m = (m - 1) + 1 BY <1>1
<1>5. <<m - 1, m>> \in OpToRel(<, Nat) BY <1>4 DEF OpToRel
<1>6. m - 1 \in T BY <1>3, <1>4, <1>5
<1> QED BY <1>4, <1>6

\* The function FlattenSeq computes its result with
LEMMA FlatteningExists ==
  ASSUME NEW s, NEW p \in Nat
  PROVE  \E f : f = [i \in 1 .. p |-> IF i = 1 THEN s[i] ELSE f[i - 1] \o s[i]]
<1> DEFINE Is(g, m) == g = [i \in 1 .. m |-> IF i = 1 THEN s[i] ELSE g[i - 1] \o s[i]]
           T == {m \in Nat : \E g : Is(g, m)}
<1>1. 0 \in T
  <2>1. Is([i \in 1 .. 0 |-> i], 0) OBVIOUS
  <2> QED BY <2>1
<1>2. ASSUME NEW m \in T PROVE m + 1 \in T
  <2>1. m \in Nat /\ \E g : Is(g, m)
    <3> HIDE DEF Is
    <3> QED BY <1>2
  <2>2. PICK g : Is(g, m)
    <3> HIDE DEF Is
    <3> QED BY <2>1
  <2> HIDE DEF T
  <2> DEFINE h == [i \in 1 .. m + 1 |->
                    IF i <= m THEN g[i] ELSE IF i = 1 THEN s[i] ELSE g[i - 1] \o s[i]]
  <2>3. ASSUME NEW i \in 1 .. m + 1 PROVE h[i] = IF i = 1 THEN s[i] ELSE h[i - 1] \o s[i]
    <3>1. \A j \in 1 .. m : h[j] = g[j] BY <2>1
    <3>2. i \in 1 .. m \/ i = m + 1 BY <2>1
    <3>3. i # 1 => i - 1 \in 1 .. m BY <2>1
    <3>4. \A j \in 1 .. m : g[j] = IF j = 1 THEN s[j] ELSE g[j - 1] \o s[j] BY <2>2
    <3>5. i = m + 1 => h[i] = IF i = 1 THEN s[i] ELSE g[i - 1] \o s[i] BY <2>1
    <3> HIDE DEF h, Is
    <3> QED BY <3>1, <3>2, <3>3, <3>4, <3>5
  <2>4. Is(h, m + 1) BY <2>3
  <2> HIDE DEF Is, h
  <2> QED BY <2>1, <2>4 DEF T
<1>3. T = Nat BY <1>1, <1>2, Induct
<1> QED BY <1>3

LEMMA Flattening ==
  ASSUME NEW s, NEW p \in Nat \ {0}, Len(s) = p
  PROVE  \E f : /\ FlattenSeq(s) = f[p]
                /\ f = [i \in 1 .. p |-> IF i = 1 THEN s[i] ELSE f[i - 1] \o s[i]]
<1> DEFINE f == CHOOSE g : g = [i \in 1 .. p |-> IF i = 1 THEN s[i] ELSE g[i - 1] \o s[i]]
<1>1. f = [i \in 1 .. p |-> IF i = 1 THEN s[i] ELSE f[i - 1] \o s[i]] BY FlatteningExists
<1>2. FlattenSeq(s) = f[p] BY DEF FlattenSeq
<1> QED BY <1>1, <1>2

\* A beginning of c and what follows it there
LEMMA Extended ==
  ASSUME NEW S, NEW c \in Seq(S), NEW s \in Seq(S), NEW a \in Nat, a + Len(s) <= Len(c),
         \A j \in 1 .. Len(s) : s[j] = c[a + j]
  PROVE  SubSeq(c, 1, a) \o s = SubSeq(c, 1, a + Len(s))
<1>1. Len(c) \in Nat /\ Len(s) \in Nat OBVIOUS
<1>2. SubSeq(c, 1, a) \in Seq(S) /\ Len(SubSeq(c, 1, a)) = a BY <1>1
<1>3. SubSeq(c, 1, a + Len(s)) \in Seq(S) /\ Len(SubSeq(c, 1, a + Len(s))) = a + Len(s) BY <1>1
<1>4. SubSeq(c, 1, a) \o s \in Seq(S) /\ Len(SubSeq(c, 1, a) \o s) = a + Len(s) BY <1>1, <1>2
<1>5. ASSUME NEW i \in 1 .. a + Len(s)
      PROVE  (SubSeq(c, 1, a) \o s)[i] = SubSeq(c, 1, a + Len(s))[i]
  <2>1. SubSeq(c, 1, a + Len(s))[i] = c[i] BY <1>1
  <2>2. CASE i <= a
    <3>1. (SubSeq(c, 1, a) \o s)[i] = SubSeq(c, 1, a)[i] BY <1>1, <1>2, <2>2
    <3>2. SubSeq(c, 1, a)[i] = c[i] BY <1>1, <2>2
    <3> QED BY <2>1, <3>1, <3>2
  <2>3. CASE i > a
    <3>1. (SubSeq(c, 1, a) \o s)[i] = s[i - a] BY <1>1, <1>2, <2>3
    <3>2. i - a \in 1 .. Len(s) /\ a + (i - a) = i BY <1>1, <2>3
    <3>3. s[i - a] = c[a + (i - a)] BY <3>2
    <3> QED BY <2>1, <3>1, <3>2, <3>3
  <2> QED BY <1>1, <2>2, <2>3
<1> QED BY <1>3, <1>4, <1>5, Whole

\* What the ring holds from tail on
InRing == [i \in 1 .. Data |-> cells[Cell(tail, i - 1)]]

\* A record that is unread is found there, at its offset.
LEMMA RecordInRing ==
  ASSUME Ring, NEW k \in Unread
  PROVE  /\ InRing \in Seq(Bytes) /\ Len(InRing) = Data /\ Data \in Nat
         /\ Encoded(put[k]) \in Seq(Bytes) /\ Len(Encoded(put[k])) = Takes(k)
         /\ Off(k) \in Nat /\ Takes(k) \in Nat /\ Off(k) + Takes(k) <= Data
         /\ \A j \in 1 .. Takes(k) : Encoded(put[k])[j] = InRing[Off(k) + j]
<1> USE DEF Ring
<1>1. /\ starts[k] \in 0 .. Wrap - 1 /\ Off(k) \in 0 .. Wrap - 1 /\ Takes(k) \in Nat
      /\ Encoded(put[k]) \in Seq(Bytes) /\ Len(Encoded(put[k])) = Takes(k)
  BY UnreadFacts
<1>2. tail \in 0 .. Wrap - 1 /\ tail \in Nat /\ cells \in [0 .. Size - 1 -> Bytes] BY WrapFact DEF TypeOK
<1>3. Data \in Nat BY DataFacts
<1>4. Off(k) + Takes(k) <= Data BY DEF Layout
<1> HIDE DEF Data
<1>5. \A i \in 1 .. Data : cells[Cell(tail, i - 1)] \in Bytes
  <2> TAKE i \in 1 .. Data
  <2>1. i - 1 \in Nat BY <1>3
  <2>2. Cell(tail, i - 1) \in 0 .. Size - 1 BY <1>2, <2>1, CellRange
  <2> QED BY <1>2, <2>2
<1>6. InRing \in Seq(Bytes) /\ Len(InRing) = Data BY <1>3, <1>5 DEF InRing
<1>7. Off(k) \in Nat BY <1>1, WrapFact
<1>8. ASSUME NEW j \in 1 .. Takes(k) PROVE Encoded(put[k])[j] = InRing[Off(k) + j]
  <2>1. cells[Cell(starts[k], j - 1)] = Encoded(put[k])[j] BY DEF Contents
  <2>2. j - 1 \in Nat BY <1>1
  <2>3. Cell(starts[k], j - 1) = Cell(tail, Off(k) + (j - 1)) BY <1>1, <1>2, <2>2, CellFrom DEF Off
  <2> HIDE DEF Off, Takes
  <2>4. Off(k) + j \in 1 .. Data /\ (Off(k) + j) - 1 = Off(k) + (j - 1) BY <1>1, <1>3, <1>4, <1>7
  <2>5. InRing[Off(k) + j] = cells[Cell(tail, (Off(k) + j) - 1)] BY <2>4 DEF InRing
  <2> QED BY <2>1, <2>3, <2>4, <2>5
<1> QED BY <1>1, <1>3, <1>4, <1>6, <1>7, <1>8

\* The unread records, joined as FlattenSeq does, are what the ring holds: each one continues
\* where the one before it ended.
LEMMA RecordsFill == ASSUME Ring PROVE RingHolds
<1> DEFINE g == Len(got)
           n == Len(put) - Len(got)
           e == [k \in 1 .. n |-> Encoded(put[g + k])]
<1>1. g \in Nat /\ Len(put) \in Nat /\ n \in Nat /\ n + g = Len(put) BY DEF Ring, Histories
<1>2. Len(e) = n
  <2> HIDE DEF n, g
  <2> QED BY <1>1
<1>3. SUFFICES InRing = FlattenSeq(e) BY DEF RingHolds, InRing
<1>4. CASE n = 0
  <2>1. Unread = {} BY <1>1, <1>4 DEF Unread
  <2>2. Data = 0 BY <2>1 DEF Ring, Layout
  <2>3. InRing = <<>> BY <2>2 DEF InRing
  <2>4. e = <<>> BY <1>4
  <2>5. FlattenSeq(e) = e BY <1>2, <1>4 DEF FlattenSeq
  <2> QED BY <2>3, <2>4, <2>5
<1>5. CASE n # 0
  <2>1. n \in Nat \ {0} BY <1>1, <1>5
  <2>2. \A k \in 1 .. n : e[k] = Encoded(put[g + k]) /\ g + k \in Unread BY <1>1 DEF Unread
  <2> HIDE DEF e, n
  <2>3. Unread # {} /\ g + 1 \in Unread /\ g + n \in Unread
    <3>1. 1 \in 1 .. n /\ n \in 1 .. n BY <2>1
    <3> QED BY <2>2, <3>1
  <2>4. PICK f : /\ FlattenSeq(e) = f[n]
                 /\ f = [i \in 1 .. n |-> IF i = 1 THEN e[i] ELSE f[i - 1] \o e[i]]
    BY <1>2, <2>1, Flattening
  <2> DEFINE To(m) == Off(g + m) + Takes(g + m)
             T     == {m \in Nat : m + 1 <= n => f[m + 1] = SubSeq(InRing, 1, To(m + 1))}
  <2>5. ASSUME NEW k \in 1 .. n
        PROVE  SubSeq(InRing, 1, Off(g + k)) \o e[k] = SubSeq(InRing, 1, To(k))
    <3>1. g + k \in Unread /\ e[k] = Encoded(put[g + k]) BY <2>2
    <3>2. /\ InRing \in Seq(Bytes) /\ Len(InRing) = Data /\ Data \in Nat
          /\ Encoded(put[g + k]) \in Seq(Bytes) /\ Len(Encoded(put[g + k])) = Takes(g + k)
          /\ Off(g + k) \in Nat /\ Takes(g + k) \in Nat /\ Off(g + k) + Takes(g + k) <= Data
          /\ \A j \in 1 .. Takes(g + k) : Encoded(put[g + k])[j] = InRing[Off(g + k) + j]
      BY <3>1, RecordInRing
    <3> HIDE DEF g
    <3>3. SubSeq(InRing, 1, Off(g + k)) \o Encoded(put[g + k])
            = SubSeq(InRing, 1, Off(g + k) + Len(Encoded(put[g + k])))
      BY <3>2, Extended
    <3> QED BY <3>1, <3>2, <3>3
  <2>6. 0 \in T
    <3>1. Off(g + 1) = 0 BY <2>3 DEF Ring, Layout
    <3>2. 1 \in 1 .. n BY <2>1
    <3>3. f[1] = e[1] BY <2>4, <3>2
    <3>4. SubSeq(InRing, 1, 0) \o e[1] = SubSeq(InRing, 1, To(1)) BY <2>5, <3>1, <3>2
    <3>5. SubSeq(InRing, 1, 0) = <<>>
      <4>1. InRing \in Seq(Bytes) BY <2>3, RecordInRing
      <4> QED BY <4>1
    <3>6. e[1] \in Seq(Bytes) BY <2>2, <3>2, RecordInRing
    <3>7. <<>> \o e[1] = e[1] BY <3>6
    <3> HIDE DEF To
    <3>8. f[1] = SubSeq(InRing, 1, To(1)) BY <3>3, <3>4, <3>5, <3>7, Zenon
    <3>9. 0 \in Nat /\ 0 + 1 = 1 OBVIOUS
    <3> QED BY <3>8, <3>9
  <2>7. ASSUME NEW m \in T PROVE m + 1 \in T
    <3> HIDE DEF To
    <3>1. m \in Nat OBVIOUS
    <3>2. SUFFICES ASSUME m + 2 <= n PROVE f[m + 2] = SubSeq(InRing, 1, To(m + 2))
      <4>1. (m + 1) + 1 = m + 2 /\ m + 1 \in Nat BY <3>1
      <4> QED BY <3>2, <4>1
    <3>3. f[m + 1] = SubSeq(InRing, 1, To(m + 1))
      <4>1. m + 1 <= n BY <2>1, <3>1, <3>2
      <4> QED BY <4>1
    <3>4. /\ m + 1 \in 1 .. n /\ m + 2 \in 1 .. n /\ (m + 2) - 1 = m + 1 /\ m + 2 # 1
          /\ g + (m + 2) = (g + (m + 1)) + 1
      BY <1>1, <2>1, <3>1, <3>2
    <3>5. f[m + 2] = f[m + 1] \o e[m + 2]
      <4>1. f[m + 2] = IF m + 2 = 1 THEN e[m + 2] ELSE f[(m + 2) - 1] \o e[m + 2] BY <2>4, <3>4
      <4> QED BY <3>4, <4>1
    <3>6. Off(g + (m + 2)) = To(m + 1)
      <4>1. g + (m + 1) \in Unread /\ (g + (m + 1)) + 1 \in Unread BY <2>2, <3>4
      <4>2. Off((g + (m + 1)) + 1) = Off(g + (m + 1)) + Takes(g + (m + 1)) BY <4>1 DEF Ring, Layout
      <4> QED BY <3>4, <4>2 DEF To
    <3>7. SubSeq(InRing, 1, Off(g + (m + 2))) \o e[m + 2] = SubSeq(InRing, 1, To(m + 2)) BY <2>5, <3>4
    <3> QED BY <3>3, <3>5, <3>6, <3>7
  <2>8. T = Nat
    <3> HIDE DEF To
    <3> QED BY <2>6, <2>7, Induct
  <2>9. f[n] = SubSeq(InRing, 1, To(n))
    <3> HIDE DEF To
    <3>1. n - 1 \in Nat /\ (n - 1) + 1 = n BY <2>1
    <3>2. n - 1 \in T
      <4> HIDE DEF T
      <4> QED BY <2>8, <3>1
    <3> QED BY <3>1, <3>2
  <2>10. To(n) = Data BY <1>1, <2>3 DEF Ring, Layout
  <2>11. InRing \in Seq(Bytes) /\ Len(InRing) = Data BY <2>3, RecordInRing
  <2>12. SubSeq(InRing, 1, Data) = InRing BY <2>11
  <2> QED BY <2>4, <2>9, <2>10, <2>12
<1> QED BY <1>4, <1>5

\* What lies between tail and head is, byte for byte, the records that were written and not
\* read, at every moment of both processes, wherever the ring ends and the counters wrap.
THEOREM RecordsInRing == Spec => []RingHolds
<1>1. Ring => RingHolds BY RecordsFill
<1> QED BY <1>1, RingHoldsAlways, PTL

-----------------------------------------------------------------------------
(* Implementing the channel                                                  *)

LEMMA ChannelStep == ASSUME Ring, [Next]_vars PROVE [Fifo!Next]_<<put, got>>
<1> USE DEF Ring
<1>1. CASE Publish
  <2>1. wbuf # <<>> /\ put' = Append(put, next) /\ got' = got BY <1>1 DEF Publish
  <2>2. next \in Records BY <2>1 DEF WriterHas
  <2> QED BY <2>1, <2>2 DEF Fifo!Next, Fifo!Put
<1>2. CASE Release
  <2>1. got' = SubSeq(put, 1, Len(got) + 1) /\ Len(got) + 1 \in Unread BY <1>2, ReleaseFacts
  <2>2. put' = put BY <1>2 DEF Release
  <2>3. Len(got) + 1 \in Len(got) + 1 .. Len(put) BY <2>1 DEF Unread
  <2> QED BY <2>1, <2>2, <2>3 DEF Fifo!Next, Fifo!Get
<1>3. CASE Store \/ (\E m \in Records : WriteBegins(m))
  BY <1>3 DEF Store, WriteBegins
<1>4. CASE Peek \/ LoadHeader \/ CheckLength \/ Load
  BY <1>4 DEF Peek, LoadHeader, CheckLength, Load
<1>5. CASE UNCHANGED vars BY <1>5 DEF vars
<1> QED BY <1>1, <1>2, <1>3, <1>4, <1>5 DEF Next, Writes, Reads

\* Writer and reader, in steps of one byte each and in any interleaving, implement a
\* channel: bc_shm_ring_read returns what bc_shm_ring_write took, whole, in order, once.
THEOREM ImplementsChannel == Spec => IsChannel
<1>1. Init => Fifo!Init BY DEF Init, Fifo!Init
<1> QED BY <1>1, RingHoldsAlways, ChannelStep, PTL DEF Spec, IsChannel, Fifo!Spec
=============================================================================
