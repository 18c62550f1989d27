---------------------------- MODULE BrokerProofs ----------------------------
(***************************************************************************)
(* Theorems about Broker, for every set of clients, every menu of frames,   *)
(* every route table and every capacity: types; where freed memory is used; *)
(* no frame is handled before its subscribers have it; what a closed client *)
(* leaves; EPOLLOUT is watched exactly while something waits; a QoS 1 message*)
(* is handed over; messages of one source stay in order.                    *)
(***************************************************************************)
EXTENDS Broker, SequenceTheorems, FiniteSetTheorems, TLAPS

-----------------------------------------------------------------------------
(* Facts about the operators of the model                                    *)

\* The smaller of two numbers is one of them and exceeds neither.
LEMMA LeastOfTwo ==
  ASSUME NEW a \in Nat, NEW b \in Nat
  PROVE  /\ Least({a, b}) \in {a, b}
         /\ Least({a, b}) <= a /\ Least({a, b}) <= b
<1>1. \E x \in {a, b} : \A y \in {a, b} : x =< y
  <2>1. CASE a <= b  BY <2>1
  <2>2. CASE b <= a  BY <2>2
  <2>3. QED  BY <2>1, <2>2
<1>2. QED  BY <1>1 DEF Least, Min

\* How many frames a read or a flush moves: no more than there are, nor than fit.
LEMMA LeastBounds ==
  ASSUME NEW a \in Nat, NEW b \in Nat
  PROVE  Least({a, b}) \in 0 .. a /\ Least({a, b}) <= b
<1> DEFINE k == Least({a, b})
<1>1. k \in {a, b} /\ k <= a /\ k <= b  BY LeastOfTwo, Zenon
<1> HIDE DEF k
<1>2. k \in 0 .. a /\ k <= b  BY <1>1
<1>3. QED  BY <1>2 DEF k

\* Cutting a buffer in two yields two buffers of the same frames.
LEMMA SplitProperties ==
  ASSUME NEW S, NEW s \in Seq(S), NEW k \in 0 .. Len(s)
  PROVE  /\ SubSeq(s, 1, k) \in Seq(S) /\ Len(SubSeq(s, 1, k)) = k
         /\ SubSeq(s, k + 1, Len(s)) \in Seq(S)
         /\ Len(SubSeq(s, k + 1, Len(s))) = Len(s) - k
<1>1. /\ \A i \in 1 .. k : s[i] \in S
      /\ \A i \in k + 1 .. Len(s) : s[i] \in S
  BY ElementOfSeq, LenProperties
<1>2. QED  BY <1>1, SubSeqProperties, LenProperties

\* No client is twice in a list.
Distinct(s) == \A i, j \in DOMAIN s : s[i] = s[j] => i = j

\* Taking one element out of a list without duplicates.
LEMMA RemoveAtProperties ==
  ASSUME NEW S, NEW s \in Seq(S), NEW i \in 1 .. Len(s)
  PROVE  /\ RemoveAt(s, i) \in Seq(S)
         /\ Len(RemoveAt(s, i)) = Len(s) - 1
         /\ \A j \in 1 .. Len(s) - 1 : RemoveAt(s, i)[j] = IF j < i THEN s[j] ELSE s[j + 1]
<1> DEFINE a == SubSeq(s, 1, i - 1)
           b == SubSeq(s, i + 1, Len(s))
<1>1. /\ Len(s) \in Nat /\ i \in Int /\ i - 1 \in Int /\ i + 1 \in Int
      /\ \A j \in 1 .. Len(s) : s[j] \in S
  BY LenProperties, ElementOfSeq
<1>2. /\ a \in Seq(S) /\ Len(a) = i - 1
      /\ \A j \in 1 .. i - 1 : a[j] = s[j]
  BY <1>1, SubSeqProperties
<1>3. /\ b \in Seq(S) /\ Len(b) = Len(s) - i
      /\ \A j \in 1 .. Len(s) - i : b[j] = s[i + j]
  <2>1. \A j \in i + 1 .. Len(s) : s[j] \in S  BY <1>1
  <2>2. /\ b \in Seq(S)
        /\ Len(b) = IF i + 1 <= Len(s) THEN Len(s) - (i + 1) + 1 ELSE 0
        /\ \A j \in 1 .. Len(s) - (i + 1) + 1 : b[j] = s[i + 1 + j - 1]
    BY <1>1, <2>1, SubSeqProperties
  <2>3. QED  BY <1>1, <2>2
<1> HIDE DEF a, b
<1>4. /\ a \o b \in Seq(S) /\ Len(a \o b) = Len(s) - 1
      /\ \A j \in 1 .. Len(s) - 1 : (a \o b)[j] = IF j <= i - 1 THEN a[j] ELSE b[j - (i - 1)]
  <2>1. /\ a \o b \in Seq(S) /\ Len(a \o b) = Len(a) + Len(b)
        /\ \A j \in 1 .. Len(a) + Len(b) :
             (a \o b)[j] = IF j <= Len(a) THEN a[j] ELSE b[j - Len(a)]
    BY <1>2, <1>3, ConcatProperties
  <2>2. Len(a) + Len(b) = Len(s) - 1  BY <1>1, <1>2, <1>3
  <2>3. QED  BY <2>1, <2>2, <1>2
<1>5. \A j \in 1 .. Len(s) - 1 : (a \o b)[j] = IF j < i THEN s[j] ELSE s[j + 1]
  <2> TAKE j \in 1 .. Len(s) - 1
  <2>1. CASE j < i  BY <2>1, <1>1, <1>2, <1>4
  <2>2. CASE ~(j < i)
    <3>1. j - (i - 1) \in 1 .. Len(s) - i  BY <2>2, <1>1
    <3>2. b[j - (i - 1)] = s[i + (j - (i - 1))]  BY <3>1, <1>3
    <3>3. i + (j - (i - 1)) = j + 1  BY <1>1
    <3>4. QED  BY <3>2, <3>3, <2>2, <1>4, <1>1
  <2>3. QED  BY <2>1, <2>2
<1>6. QED  BY <1>4, <1>5 DEF RemoveAt, a, b

\* close_client: the list loses that client and no other.
LEMMA RemoveFirstProperties ==
  ASSUME NEW S, NEW s \in Seq(S), NEW e, Distinct(s)
  PROVE  /\ RemoveFirst(s, e) \in Seq(S)
         /\ Distinct(RemoveFirst(s, e))
         /\ ToSet(RemoveFirst(s, e)) = ToSet(s) \ {e}
<1>0. Len(s) \in Nat /\ DOMAIN s = 1 .. Len(s)  BY LenProperties
<1>1. CASE ~ \E i \in 1 .. Len(s) : s[i] = e
  <2>1. RemoveFirst(s, e) = s  BY <1>1 DEF RemoveFirst
  <2>2. e \notin ToSet(s)  BY <1>0, <1>1 DEF ToSet
  <2>3. QED  BY <2>1, <2>2
<1>2. CASE \E i \in 1 .. Len(s) : s[i] = e
  <2>1. PICK k \in 1 .. Len(s) : s[k] = e  BY <1>2
  <2>2. {i \in 1 .. Len(s) : s[i] = e} = {k}  BY <1>0, <2>1 DEF Distinct
  <2>3. Min({k}) = k  BY <1>0, <2>1 DEF Min
  <2>4. SelectInSeq(s, LAMBDA v : v = e) = k  BY <2>2, <2>3 DEF SelectInSeq
  <2>5. RemoveFirst(s, e) = RemoveAt(s, k)  BY <1>2, <2>4 DEF RemoveFirst
  <2> DEFINE r == RemoveAt(s, k)
  <2>6. /\ r \in Seq(S) /\ Len(r) = Len(s) - 1 /\ DOMAIN r = 1 .. Len(s) - 1
        /\ \A j \in 1 .. Len(s) - 1 : r[j] = IF j < k THEN s[j] ELSE s[j + 1]
    BY RemoveAtProperties, LenProperties
  <2> HIDE DEF r
  <2>7. Distinct(r)
    <3> SUFFICES ASSUME NEW i \in 1 .. Len(s) - 1, NEW j \in 1 .. Len(s) - 1, r[i] = r[j]
                 PROVE  i = j
      BY <2>6 DEF Distinct
    <3>1. /\ i \in DOMAIN s /\ i + 1 \in DOMAIN s
          /\ j \in DOMAIN s /\ j + 1 \in DOMAIN s
      BY <1>0
    <3>2. QED  BY <1>0, <2>1, <2>6, <3>1 DEF Distinct
  <2>8. ToSet(r) \subseteq ToSet(s) \ {e}
    <3> SUFFICES ASSUME NEW j \in 1 .. Len(s) - 1
                 PROVE  r[j] \in ToSet(s) /\ r[j] # e
      BY <2>6 DEF ToSet
    <3>1. j \in DOMAIN s /\ j + 1 \in DOMAIN s /\ k \in DOMAIN s  BY <1>0, <2>1
    <3>2. QED  BY <1>0, <2>1, <2>6, <3>1 DEF Distinct, ToSet
  <2>9. ToSet(s) \ {e} \subseteq ToSet(r)
    <3>0. ToSet(r) = {r[j] : j \in 1 .. Len(s) - 1} /\ ToSet(s) = {s[i] : i \in 1 .. Len(s)}
      BY <1>0, <2>6 DEF ToSet
    <3> SUFFICES ASSUME NEW i \in 1 .. Len(s), s[i] # e
                 PROVE  \E j \in 1 .. Len(s) - 1 : r[j] = s[i]
      BY <3>0
    <3>1. CASE i < k  BY <3>1, <1>0, <2>1, <2>6
    <3>2. CASE i > k
      <4>1. i - 1 \in 1 .. Len(s) - 1 /\ ~(i - 1 < k) /\ (i - 1) + 1 = i  BY <3>2, <1>0, <2>1
      <4>2. r[i - 1] = s[i]  BY <4>1, <2>6
      <4>3. QED  BY <4>1, <4>2
    <3>3. QED  BY <3>1, <3>2, <2>1, <1>0
  <2>10. QED  BY <2>5, <2>6, <2>7, <2>8, <2>9 DEF r
<1>3. QED  BY <1>1, <1>2

\* on_server_event: the list gains the new client in front.
LEMMA ConsProperties ==
  ASSUME NEW S, NEW s \in Seq(S), NEW e \in S, Distinct(s), e \notin ToSet(s)
  PROVE  /\ <<e>> \o s \in Seq(S)
         /\ Distinct(<<e>> \o s)
         /\ ToSet(<<e>> \o s) = ToSet(s) \cup {e}
<1>0. Len(s) \in Nat /\ DOMAIN s = 1 .. Len(s)  BY LenProperties
<1>1. <<e>> \in Seq(S) /\ Len(<<e>>) = 1 /\ <<e>>[1] = e  OBVIOUS
<1> DEFINE r == <<e>> \o s
<1>2. /\ r \in Seq(S) /\ Len(r) = Len(s) + 1
      /\ \A i \in 1 .. Len(s) + 1 : r[i] = IF i = 1 THEN e ELSE s[i - 1]
  <2>1. /\ r \in Seq(S) /\ Len(r) = Len(<<e>>) + Len(s)
        /\ \A i \in 1 .. Len(<<e>>) + Len(s) : r[i] = IF i <= Len(<<e>>) THEN <<e>>[i] ELSE s[i - Len(<<e>>)]
    BY <1>1, ConcatProperties
  <2>2. QED  BY <1>0, <1>1, <2>1
<1> HIDE DEF r
<1>3. DOMAIN r = 1 .. Len(s) + 1  BY <1>2, LenProperties
<1>4. \A i \in 1 .. Len(s) : s[i] # e  BY <1>0 DEF ToSet
<1>5. Distinct(r)
  <2> SUFFICES ASSUME NEW i \in 1 .. Len(s) + 1, NEW j \in 1 .. Len(s) + 1, r[i] = r[j]
               PROVE  i = j
    BY <1>3 DEF Distinct
  <2>1. /\ i # 1 => i - 1 \in DOMAIN s
        /\ j # 1 => j - 1 \in DOMAIN s
    BY <1>0
  <2>2. CASE i = 1 \/ j = 1  BY <1>0, <1>2, <1>4, <2>1, <2>2
  <2>3. CASE i # 1 /\ j # 1
    <3>1. s[i - 1] = s[j - 1]  BY <1>2, <2>3
    <3>2. i - 1 = j - 1  BY <3>1, <2>1, <2>3 DEF Distinct
    <3>3. QED  BY <3>2, <1>0
  <2>4. QED  BY <2>2, <2>3
<1>6. ToSet(r) \subseteq ToSet(s) \cup {e}
  <2> SUFFICES ASSUME NEW i \in 1 .. Len(s) + 1  PROVE r[i] \in ToSet(s) \cup {e}
    BY <1>3 DEF ToSet
  <2>1. i # 1 => i - 1 \in DOMAIN s  BY <1>0
  <2>2. QED  BY <1>2, <2>1 DEF ToSet
<1>7. ToSet(s) \cup {e} \subseteq ToSet(r)
  <2>0. ToSet(r) = {r[j] : j \in 1 .. Len(s) + 1} /\ ToSet(s) = {s[i] : i \in 1 .. Len(s)}
    BY <1>0, <1>3 DEF ToSet
  <2>1. 1 \in 1 .. Len(s) + 1 /\ r[1] = e  BY <1>0, <1>2
  <2>2. \A i \in 1 .. Len(s) : i + 1 \in 1 .. Len(s) + 1 /\ r[i + 1] = s[i]  BY <1>0, <1>2
  <2>3. QED  BY <2>0, <2>1, <2>2
<1>8. QED  BY <1>2, <1>5, <1>6, <1>7 DEF r

\* The rest of the list the resume loop walks.
LEMMA TailProperties ==
  ASSUME NEW S, NEW s \in Seq(S), s # <<>>
  PROVE  /\ Head(s) \in S /\ Head(s) \in ToSet(s)
         /\ Tail(s) \in Seq(S) /\ Len(Tail(s)) = Len(s) - 1
         /\ ToSet(Tail(s)) \subseteq ToSet(s)
         /\ Distinct(s) => Distinct(Tail(s)) /\ Head(s) \notin ToSet(Tail(s))
<1>0. Len(s) \in Nat \ {0} /\ DOMAIN s = 1 .. Len(s)  BY LenProperties, EmptySeq
<1>1. /\ Head(s) \in S /\ Tail(s) \in Seq(S) /\ Len(Tail(s)) = Len(s) - 1
      /\ \A i \in 1 .. Len(s) - 1 : Tail(s)[i] = s[i + 1]
  BY HeadTailProperties
<1>2. DOMAIN Tail(s) = 1 .. Len(s) - 1  BY <1>1, LenProperties
<1>3. Head(s) = s[1] /\ 1 \in DOMAIN s  BY <1>0
<1>4. \A i \in 1 .. Len(s) - 1 : i + 1 \in DOMAIN s /\ i + 1 # 1  BY <1>0
<1>5. \A x \in ToSet(Tail(s)) : \E i \in 1 .. Len(s) - 1 : x = s[i + 1]
  BY <1>1, <1>2 DEF ToSet
<1>6. ToSet(Tail(s)) \subseteq ToSet(s) /\ Head(s) \in ToSet(s)  BY <1>3, <1>4, <1>5 DEF ToSet
<1>7. ASSUME Distinct(s)  PROVE Distinct(Tail(s)) /\ Head(s) \notin ToSet(Tail(s))
  <2>1. Head(s) \notin ToSet(Tail(s))  BY <1>3, <1>4, <1>5, <1>7 DEF Distinct
  <2>2. Distinct(Tail(s))
    <3> SUFFICES ASSUME NEW i \in 1 .. Len(s) - 1, NEW j \in 1 .. Len(s) - 1, Tail(s)[i] = Tail(s)[j]
                 PROVE  i = j
      BY <1>2 DEF Distinct
    <3>1. s[i + 1] = s[j + 1]  BY <1>1
    <3>2. i + 1 = j + 1  BY <3>1, <1>4, <1>7 DEF Distinct
    <3>3. QED  BY <3>2, <1>0
  <2>3. QED  BY <2>1, <2>2
<1>8. QED  BY <1>1, <1>6, <1>7

\* What is in a sequence after it was split, joined or extended.
LEMMA Elements ==
  ASSUME NEW S, NEW s \in Seq(S), NEW t \in Seq(S), NEW e \in S, NEW k \in 0 .. Len(s)
  PROVE  /\ ToSet(s \o t) \subseteq ToSet(s) \cup ToSet(t)
         /\ ToSet(Append(s, e)) \subseteq ToSet(s) \cup {e}
         /\ ToSet(SubSeq(s, 1, k)) \subseteq ToSet(s)
         /\ ToSet(SubSeq(s, k + 1, Len(s))) \subseteq ToSet(s)
<1>0. /\ Len(s) \in Nat /\ DOMAIN s = 1 .. Len(s)
      /\ Len(t) \in Nat /\ DOMAIN t = 1 .. Len(t)
  BY LenProperties
<1>1. ToSet(s \o t) \subseteq ToSet(s) \cup ToSet(t)
  <2>1. /\ DOMAIN (s \o t) = 1 .. Len(s) + Len(t)
        /\ \A i \in 1 .. Len(s) + Len(t) : (s \o t)[i] = IF i <= Len(s) THEN s[i] ELSE t[i - Len(s)]
    BY ConcatProperties, LenProperties
  <2> SUFFICES ASSUME NEW i \in 1 .. Len(s) + Len(t)
               PROVE  (s \o t)[i] \in ToSet(s) \cup ToSet(t)
    BY <2>1 DEF ToSet
  <2>2. IF i <= Len(s) THEN i \in DOMAIN s ELSE i - Len(s) \in DOMAIN t  BY <1>0
  <2>3. QED  BY <2>1, <2>2 DEF ToSet
<1>2. ToSet(Append(s, e)) \subseteq ToSet(s) \cup {e}
  <2>1. /\ DOMAIN Append(s, e) = 1 .. Len(s) + 1
        /\ \A i \in 1 .. Len(s) : Append(s, e)[i] = s[i]
        /\ Append(s, e)[Len(s) + 1] = e
    BY AppendProperties, LenProperties
  <2> SUFFICES ASSUME NEW i \in 1 .. Len(s) + 1
               PROVE  Append(s, e)[i] \in ToSet(s) \cup {e}
    BY <2>1 DEF ToSet
  <2>2. QED  BY <1>0, <2>1 DEF ToSet
<1>3. ASSUME NEW m \in Nat \ {0}, NEW n \in 0 .. Len(s)
      PROVE  ToSet(SubSeq(s, m, n)) \subseteq ToSet(s)
  <2>1. \A i \in m .. n : s[i] \in S  BY <1>0, ElementOfSeq
  <2>2. /\ SubSeq(s, m, n) \in Seq(S)
        /\ Len(SubSeq(s, m, n)) = IF m <= n THEN n - m + 1 ELSE 0
        /\ \A i \in 1 .. n - m + 1 : SubSeq(s, m, n)[i] = s[m + i - 1]
    BY <2>1, <1>0, SubSeqProperties
  <2>3. DOMAIN SubSeq(s, m, n) \subseteq 1 .. n - m + 1  BY <2>2, LenProperties
  <2>4. \A i \in 1 .. n - m + 1 : m + i - 1 \in DOMAIN s  BY <1>0
  <2>5. QED  BY <2>2, <2>3, <2>4 DEF ToSet
<1>4. QED  BY <1>0, <1>1, <1>2, <1>3

-----------------------------------------------------------------------------
(* Queues and copies                                                         *)

\* What a delivery appends to a tx_buf.
LEMMA EnqueueProperties ==
  ASSUME NEW queue \in Seq(Ids), NEW n \in Nat, NEW id \in Ids
  PROVE  /\ Enqueue(queue, n, id) \in Seq(Ids)
         /\ Len(Enqueue(queue, n, id)) = Len(queue) + n
         /\ n = 0 => Enqueue(queue, n, id) = queue
<1> DEFINE r == [i \in 1 .. n |-> id]
<1>1. r \in Seq(Ids) /\ Len(r) = n
  <2>1. r \in [1 .. n -> Ids]  OBVIOUS
  <2>2. QED  BY <2>1, SeqDef, LenProperties
<1>2. n = 0 => r = <<>>  BY <1>1, EmptySeq
<1> HIDE DEF r
<1>3. Enqueue(queue, n, id) = queue \o r  BY DEF Enqueue, r
<1>4. queue \o r \in Seq(Ids) /\ Len(queue \o r) = Len(queue) + Len(r)
  BY <1>1, ConcatProperties
<1>5. n = 0 => queue \o r = queue  BY <1>2, ConcatEmptySeq
<1>6. QED  BY <1>1, <1>3, <1>4, <1>5

\* The copies a client is due are a number, positive exactly if a subscription matches.
LEMMA CopiesProperties ==
  ASSUME TypeOK, NEW d \in Clients, NEW src, NEW m
  PROVE  /\ Copies(d, src, m) \in Nat
         /\ Copies(d, src, m) > 0 <=>
              d # src /\ \E s \in subs : s.fd = d /\ TopicMatches(s.topic, m.topic)
<1> DEFINE S == {s \in subs : s.fd = d /\ d # src /\ TopicMatches(s.topic, m.topic)}
<1>1. IsFiniteSet(S)  BY FS_Subset DEF TypeOK
<1>2. Cardinality(S) \in Nat /\ (Cardinality(S) = 0 <=> S = {})
  BY <1>1, FS_CardinalityType, FS_EmptySet
<1>3. Copies(d, src, m) = Cardinality(S)  BY DEF Copies
<1>4. S # {} <=> d # src /\ \E s \in subs : s.fd = d /\ TopicMatches(s.topic, m.topic)
  OBVIOUS
<1> HIDE DEF S
<1>5. QED  BY <1>2, <1>3, <1>4

\* A client takes no more copies than are meant for it and than it has room for.
LEMMA FitsProperties ==
  ASSUME BrokerAssumption, TypeOK, NEW d \in Clients, NEW src, NEW m
  PROVE  /\ Room(d) \in Nat /\ Room(d) <= TxCap - Len(tx[d])
         /\ d \notin ToSet(clients) => Room(d) = 0
         /\ Fits(d, src, m) \in Nat
         /\ Fits(d, src, m) <= Room(d)
         /\ Fits(d, src, m) \in {Copies(d, src, m), Room(d)}
<1>1. Len(tx[d]) \in Nat /\ Len(tx[d]) <= TxCap /\ TxCap \in Nat
  BY LenProperties DEF TypeOK, BrokerAssumption
<1>2. Room(d) \in Nat /\ Room(d) <= TxCap - Len(tx[d])
  <2>1. Room(d) = TxCap - Len(tx[d]) \/ Room(d) = 0  BY DEF Room
  <2>2. QED  BY <1>1, <2>1
<1>3. d \notin ToSet(clients) => Room(d) = 0  BY DEF Room
<1>4. Copies(d, src, m) \in Nat  BY CopiesProperties
<1>5. Fits(d, src, m) = Least({Copies(d, src, m), Room(d)})  BY DEF Fits
<1>6. /\ Fits(d, src, m) \in {Copies(d, src, m), Room(d)}
      /\ Fits(d, src, m) <= Room(d)
  BY <1>2, <1>4, <1>5, LeastOfTwo
<1>7. QED  BY <1>2, <1>3, <1>4, <1>6

\* deliver_to_client keeps every tx_buf within its capacity and gives nothing to
\* a descriptor that is not connected.
LEMMA DeliverLocalProperties ==
  ASSUME BrokerAssumption, TypeOK, NEW id \in Ids, NEW m, DeliverLocal(id, m)
  PROVE  /\ tx' \in [Clients -> Seq(Ids)] /\ \A d \in Clients : Len(tx'[d]) <= TxCap
         /\ armed' \in [Clients -> BOOLEAN]
         /\ got' \subseteq Clients \X Ids
         /\ \A d \in Clients : d \notin ToSet(clients) => tx'[d] = tx[d] /\ armed'[d] = armed[d]
         /\ \A d \in Clients : Len(tx'[d]) > Len(tx[d]) <=> d \in Reached(id.src, m)
         /\ \A d \in Clients : Len(tx'[d]) >= Len(tx[d])
<1>1. ASSUME NEW d \in Clients
      PROVE  /\ tx'[d] \in Seq(Ids)
             /\ Len(tx[d]) \in Nat
             /\ Len(tx'[d]) = Len(tx[d]) + Fits(d, id.src, m)
             /\ Fits(d, id.src, m) = 0 => tx'[d] = tx[d]
             /\ Fits(d, id.src, m) \in Nat
             /\ Len(tx'[d]) <= TxCap
             /\ d \in Reached(id.src, m) <=> Fits(d, id.src, m) > 0
             /\ d \notin ToSet(clients) => Fits(d, id.src, m) = 0
  <2>1. tx'[d] = Enqueue(tx[d], Fits(d, id.src, m), id)  BY DEF DeliverLocal
  <2>2. tx[d] \in Seq(Ids) /\ Len(tx[d]) \in Nat  BY LenProperties DEF TypeOK
  <2>3. Fits(d, id.src, m) \in Nat /\ Fits(d, id.src, m) <= TxCap - Len(tx[d])
        /\ (d \notin ToSet(clients) => Fits(d, id.src, m) = 0)
    BY <2>2, FitsProperties DEF BrokerAssumption
  <2>4. d \in Reached(id.src, m) <=> Fits(d, id.src, m) > 0  BY DEF Reached
  <2>5. /\ Enqueue(tx[d], Fits(d, id.src, m), id) \in Seq(Ids)
        /\ Len(Enqueue(tx[d], Fits(d, id.src, m), id)) = Len(tx[d]) + Fits(d, id.src, m)
        /\ Fits(d, id.src, m) = 0 => Enqueue(tx[d], Fits(d, id.src, m), id) = tx[d]
    BY <2>2, <2>3, EnqueueProperties
  <2>6. TxCap \in Nat  BY DEF BrokerAssumption
  <2>7. Len(tx[d]) + Fits(d, id.src, m) <= TxCap  BY <2>2, <2>3, <2>6
  <2>8. QED  BY <2>1, <2>2, <2>3, <2>4, <2>5, <2>7
<1>2. DOMAIN tx' = Clients /\ tx' = [d \in Clients |-> tx'[d]]  BY DEF DeliverLocal
<1>3. tx' \in [Clients -> Seq(Ids)]  BY <1>1, <1>2
<1>4. armed' \in [Clients -> BOOLEAN]
  <2>1. \A d \in Clients : (armed[d] \/ d \in Reached(id.src, m)) \in BOOLEAN  OBVIOUS
  <2>2. QED  BY <2>1 DEF DeliverLocal
<1>5. got' \subseteq Clients \X Ids  BY DEF DeliverLocal, Reached, TypeOK
<1>6. \A d \in Clients : d \notin ToSet(clients) => armed'[d] = armed[d]
  <2>1. \A d \in Clients : armed'[d] = (armed[d] \/ d \in Reached(id.src, m))  BY DEF DeliverLocal
  <2>2. \A d \in Clients : d \notin ToSet(clients) => d \notin Reached(id.src, m)  BY <1>1
  <2>3. \A d \in Clients : armed[d] \in BOOLEAN  BY DEF TypeOK
  <2>4. QED  BY <2>1, <2>2, <2>3, Zenon
<1>7. \A d \in Clients :
        /\ Len(tx'[d]) > Len(tx[d]) <=> d \in Reached(id.src, m)
        /\ Len(tx'[d]) >= Len(tx[d]) /\ Len(tx'[d]) <= TxCap
        /\ d \notin ToSet(clients) => tx'[d] = tx[d]
  BY <1>1
<1>8. QED  BY <1>3, <1>4, <1>5, <1>6, <1>7

-----------------------------------------------------------------------------
(* Types and lists                                                           *)

\* The client whose event is handled, and those the resume loop has still to visit,
\* are connected.
WorksOnOpenClients ==
  /\ pc \in {"flush", "read", "process"} => me \in Clients /\ link[me] # "none"
  /\ pc = "resume" => \A c \in ToSet(todo) : link[c] # "none"

\* What TypeOK needs to be inductive, and FreedOnlyByResume with it: the list holds
\* exactly the connected clients, once each, and so does what is left of it in the
\* resume loop; a handler that will go on after that loop has a client; and a
\* daemon that is down, or about to go on with a client that was closed, has used
\* freed memory.
Lists ==
  /\ Distinct(clients) /\ Distinct(todo)
  /\ \A c \in Clients : link[c] # "none" <=> c \in ToSet(clients)
  /\ WorksOnOpenClients
  /\ pc = "resume" /\ after = "read" => me \in Clients
  /\ pc = "resume" /\ after = "read" /\ link[me] = "none" => freed
  /\ pc = "crashed" => freed

\* The frame the daemon is at, wherever it is.
LEMMA CurrentProperties ==
  ASSUME TypeOK, Lists, pc = "process" \/ (pc = "resume" /\ todo # <<>>)
  PROVE  /\ Current \in Clients /\ link[Current] # "none"
         /\ rx[Current] \in Seq(Frames)
         /\ rx[Current] # <<>> =>
              /\ Frame \in Frames
              /\ Id(Current, Frame) \in Ids
              /\ Tail(rx[Current]) \in Seq(Frames)
              /\ Len(Tail(rx[Current])) <= RxCap
<1>1. Current \in Clients /\ link[Current] # "none"
  <2>1. CASE pc = "process"  BY <2>1 DEF Lists, WorksOnOpenClients, Current
  <2>2. CASE pc = "resume" /\ todo # <<>>
    <3>1. todo \in Seq(Clients)  BY DEF TypeOK
    <3>2. Head(todo) \in Clients /\ Head(todo) \in ToSet(todo)  BY <3>1, <2>2, TailProperties
    <3>3. QED  BY <2>2, <3>2 DEF Lists, WorksOnOpenClients, Current
  <2>3. QED  BY <2>1, <2>2
<1>2. rx[Current] \in Seq(Frames) /\ Len(rx[Current]) <= RxCap  BY <1>1 DEF TypeOK
<1>3. ASSUME rx[Current] # <<>>
      PROVE  /\ Frame \in Frames /\ Id(Current, Frame) \in Ids
             /\ Tail(rx[Current]) \in Seq(Frames) /\ Len(Tail(rx[Current])) <= RxCap
  <2>1. /\ Frame \in Frames /\ Tail(rx[Current]) \in Seq(Frames)
        /\ Len(Tail(rx[Current])) = Len(rx[Current]) - 1 /\ Len(rx[Current]) \in Nat
    BY <1>2, <1>3, TailProperties, LenProperties DEF Frame
  <2>2. Len(Tail(rx[Current])) <= RxCap
    <3>1. RxCap \in Nat  BY BrokerAssumption DEF BrokerAssumption
    <3>2. QED  BY <3>1, <2>1, <1>2
  <2>3. Frame.n \in Nat  BY <2>1 DEF Frames
  <2>4. QED  BY <1>1, <2>1, <2>2, <2>3 DEF Id, Ids, Sources
<1>4. QED  BY <1>1, <1>2, <1>3

\* process_one_message leaves buffers within their capacity and gives nothing to
\* a descriptor that is not connected.
LEMMA ApplyProperties ==
  ASSUME TypeOK, Lists, AtFrame, NEW net, Apply(net)
  PROVE  /\ tx' \in [Clients -> Seq(Ids)] /\ \A d \in Clients : Len(tx'[d]) <= TxCap
         /\ armed' \in [Clients -> BOOLEAN]
         /\ got' \subseteq Clients \X Ids /\ netSent' \subseteq Ids
         /\ IsFiniteSet(subs') /\ Cardinality(subs') <= MaxSubs
         /\ \A s \in subs' : s.fd \in Clients
<1>0. Current \in Clients /\ Id(Current, Frame) \in Ids  BY CurrentProperties DEF AtFrame
<1>1. CASE Frame.type = "PUB" /\ Frame.msg.topic # <<>>
  <2>1. Publish(Id(Current, Frame), Frame.msg, net) /\ subs' = subs  BY <1>1 DEF Apply
  <2>2. netSent' \subseteq Ids  BY <2>1, <1>0 DEF Publish, TypeOK
  <2>3. CASE ForThisNode(Frame.msg)
    <3>1. DeliverLocal(Id(Current, Frame), Frame.msg)  BY <2>1, <2>3 DEF Publish
    <3>2. /\ tx' \in [Clients -> Seq(Ids)] /\ \A d \in Clients : Len(tx'[d]) <= TxCap
          /\ armed' \in [Clients -> BOOLEAN] /\ got' \subseteq Clients \X Ids
      BY <3>1, <1>0, BrokerAssumption, DeliverLocalProperties
    <3>3. QED  BY <2>1, <2>2, <3>2 DEF TypeOK
  <2>4. CASE ~ForThisNode(Frame.msg)
    <3>1. tx' = tx /\ armed' = armed /\ got' = got  BY <2>1, <2>4 DEF Publish
    <3>2. QED  BY <2>1, <2>2, <3>1 DEF TypeOK
  <2>5. QED  BY <2>3, <2>4
<1>2. CASE ~(Frame.type = "PUB" /\ Frame.msg.topic # <<>>)
  <2>1. /\ tx' = tx /\ armed' = armed /\ got' = got /\ netSent' = netSent
        /\ subs' = subs \/ Subscribe(Current, Frame.msg.topic)
    BY <1>2 DEF Apply
  <2>2. CASE subs' = subs  BY <2>1, <2>2 DEF TypeOK
  <2>3. CASE Subscribe(Current, Frame.msg.topic) /\ subs' # subs
    <3> DEFINE e == [fd |-> Current, topic |-> Frame.msg.topic]
    <3>1. subs' = subs \cup {e} /\ ~(Cardinality(subs) >= MaxSubs)  BY <2>3 DEF Subscribe
    <3>2. e.fd \in Clients  BY <1>0
    <3> HIDE DEF e
    <3>3. IsFiniteSet(subs) /\ Cardinality(subs) \in Nat /\ MaxSubs \in Nat
      BY FS_CardinalityType, BrokerAssumption DEF TypeOK, BrokerAssumption
    <3>4. /\ IsFiniteSet(subs \cup {e})
          /\ Cardinality(subs \cup {e}) = Cardinality(subs) \/ Cardinality(subs \cup {e}) = Cardinality(subs) + 1
      BY <3>3, FS_AddElement
    <3>5. IsFiniteSet(subs') /\ Cardinality(subs') <= MaxSubs  BY <3>1, <3>3, <3>4
    <3>6. \A s \in subs' : s.fd \in Clients  BY <3>1, <3>2 DEF TypeOK
    <3>7. QED  BY <2>1, <3>5, <3>6 DEF TypeOK
  <2>4. QED  BY <2>1, <2>2, <2>3
<1>3. QED  BY <1>1, <1>2

\* close_client keeps the types, and takes one client off the list.
LEMMA CloseProperties ==
  ASSUME TypeOK, Lists, NEW c \in Clients, Close(c)
  PROVE  /\ clients' \in Seq(Clients) /\ Distinct(clients')
         /\ ToSet(clients') = ToSet(clients) \ {c}
         /\ link' = [link EXCEPT ![c] = "none"]
         /\ \A d \in Clients : link'[d] # "none" <=> d \in ToSet(clients')
         /\ link' \in [Clients -> {"none", "open", "eof"}]
         /\ sock' \in [Clients -> Seq(Frames)] /\ \A d \in Clients : Len(sock'[d]) <= SockCap
         /\ rx' \in [Clients -> Seq(Frames)] /\ \A d \in Clients : Len(rx'[d]) <= RxCap
         /\ tx' \in [Clients -> Seq(Ids)] /\ \A d \in Clients : Len(tx'[d]) <= TxCap
         /\ out' \in [Clients -> Seq(Ids)] /\ \A d \in Clients : Len(out'[d]) <= SockCap
         /\ armed' \in [Clients -> BOOLEAN]
         /\ IsFiniteSet(subs') /\ Cardinality(subs') <= MaxSubs
         /\ \A s \in subs' : s.fd \in Clients
         /\ written' = written /\ conns' = conns /\ arrived' = arrived
         /\ done' = done /\ netSent' = netSent
         /\ owed' \subseteq Clients \X Ids /\ got' \subseteq Clients \X Ids
         /\ lastRead' \in [Clients -> [Sources -> Nat]]
<1>1. /\ clients' \in Seq(Clients) /\ Distinct(clients') /\ ToSet(clients') = ToSet(clients) \ {c}
  <2>1. clients \in Seq(Clients) /\ Distinct(clients)  BY DEF TypeOK, Lists
  <2>2. QED  BY <2>1, RemoveFirstProperties DEF Close
<1>2. /\ link' = [link EXCEPT ![c] = "none"] /\ link' \in [Clients -> {"none", "open", "eof"}]
  BY DEF Close, TypeOK
<1>3. \A d \in Clients : link'[d] # "none" <=> d \in ToSet(clients')
  BY <1>1, <1>2 DEF Lists, TypeOK
<1>4. /\ <<>> \in Seq(Frames) /\ <<>> \in Seq(Ids) /\ Len(<<>>) = 0
      /\ 0 <= SockCap /\ 0 <= RxCap /\ 0 <= TxCap
  BY EmptySeq, BrokerAssumption DEF BrokerAssumption
<1>5. /\ sock' \in [Clients -> Seq(Frames)] /\ \A d \in Clients : Len(sock'[d]) <= SockCap
      /\ rx' \in [Clients -> Seq(Frames)] /\ \A d \in Clients : Len(rx'[d]) <= RxCap
  BY <1>4 DEF Close, TypeOK
<1>6. /\ tx' \in [Clients -> Seq(Ids)] /\ \A d \in Clients : Len(tx'[d]) <= TxCap
      /\ out' \in [Clients -> Seq(Ids)] /\ \A d \in Clients : Len(out'[d]) <= SockCap
  BY <1>4 DEF Close, TypeOK
<1>7. armed' \in [Clients -> BOOLEAN]  BY DEF Close, TypeOK
<1>8. /\ IsFiniteSet(subs') /\ Cardinality(subs') <= MaxSubs
      /\ \A s \in subs' : s.fd \in Clients
  <2>1. subs' \subseteq subs  BY DEF Close, SubsWithout
  <2>2. IsFiniteSet(subs) /\ Cardinality(subs) <= MaxSubs /\ MaxSubs \in Nat
        /\ Cardinality(subs) \in Nat /\ \A s \in subs : s.fd \in Clients
    BY BrokerAssumption, FS_CardinalityType DEF TypeOK, BrokerAssumption
  <2>3. IsFiniteSet(subs') /\ Cardinality(subs') <= Cardinality(subs) /\ Cardinality(subs') \in Nat
    BY <2>1, <2>2, FS_Subset, FS_CardinalityType
  <2>4. QED  BY <2>1, <2>2, <2>3
<1>9. /\ written' = written /\ conns' = conns /\ arrived' = arrived
      /\ done' = done /\ netSent' = netSent
  BY DEF Close
<1>10. owed' \subseteq Clients \X Ids /\ got' \subseteq Clients \X Ids  BY DEF Close, TypeOK
<1>11. lastRead' \in [Clients -> [Sources -> Nat]]
  <2>1. NoReads \in [Sources -> Nat]  BY DEF NoReads
  <2>2. QED  BY <2>1 DEF Close, TypeOK
<1>12. QED  BY <1>1, <1>2, <1>3, <1>5, <1>6, <1>7, <1>8, <1>9, <1>10, <1>11

\* The types hold when the daemon starts.
LEMMA InitTypes == Init => TypeOK /\ Lists
<1> SUFFICES ASSUME Init  PROVE TypeOK /\ Lists
  OBVIOUS
<1>1. /\ \A S : <<>> \in Seq(S)
      /\ Len(<<>>) = 0 /\ ToSet(<<>>) = {} /\ Distinct(<<>>)
  BY EmptySeq DEF ToSet, Distinct
<1>2. IsFiniteSet({}) /\ Cardinality({}) = 0  BY FS_EmptySet
<1>3. NoReads \in [Sources -> Nat]  BY DEF NoReads
<1>4. 0 <= TxCap /\ 0 <= RxCap /\ 0 <= SockCap /\ 0 <= MaxSubs
  BY BrokerAssumption DEF BrokerAssumption
<1>5. TypeOK  BY <1>1, <1>2, <1>3, <1>4 DEF Init, TypeOK
<1>6. Lists  BY <1>1 DEF Init, Lists, WorksOnOpenClients
<1>7. QED  BY <1>5, <1>6

\* Every step keeps every buffer within its capacity.
LEMMA TypesStep ==
  ASSUME TypeOK, Lists, [Next]_vars
  PROVE  TypeOK'
<1> USE DEF daemon, buffers, history
<1>1. ASSUME NEW c \in Clients, Accept(c)  PROVE TypeOK'
  <2>1. clients' \in Seq(Clients)
    <3>1. c \notin ToSet(clients)  BY <1>1 DEF Accept, Lists
    <3>2. QED  BY <1>1, <3>1, ConsProperties DEF Accept, TypeOK, Lists
  <2>2. link' \in [Clients -> {"none", "open", "eof"}]  BY <1>1 DEF Accept, TypeOK
  <2>3. conns' \in [Clients -> Nat]  BY <1>1, SMTT(30) DEF Accept, TypeOK
  <2>4. QED  BY <1>1, <2>1, <2>2, <2>3 DEF Accept, TypeOK
<1>2. ASSUME NEW c \in Clients, ClientEvent(c)  PROVE TypeOK'
  BY <1>2 DEF ClientEvent, TypeOK
<1>3. ASSUME NEW c \in Clients, Take(c)  PROVE TypeOK'
  <2>1. out[c] \in Seq(Ids) /\ out[c] # <<>> /\ Len(out[c]) <= SockCap  BY <1>3 DEF Take, TypeOK
  <2>2. /\ Head(out[c]) \in Ids /\ Tail(out[c]) \in Seq(Ids)
        /\ Len(Tail(out[c])) = Len(out[c]) - 1 /\ Len(out[c]) \in Nat
    BY <2>1, TailProperties, LenProperties
  <2>3. Len(Tail(out[c])) <= SockCap  BY <2>1, <2>2, BrokerAssumption DEF BrokerAssumption
  <2>4. out' \in [Clients -> Seq(Ids)] /\ \A d \in Clients : Len(out'[d]) <= SockCap
    BY <1>3, <2>2, <2>3 DEF Take, TypeOK
  <2>5. lastRead' \in [Clients -> [Sources -> Nat]]
    <3>1. Head(out[c]).src \in Sources /\ Head(out[c]).n \in Nat  BY <2>2 DEF Ids
    <3>2. QED  BY <1>3, <3>1 DEF Take, TypeOK
  <2>6. QED  BY <1>3, <2>4, <2>5 DEF Take, TypeOK
<1>4. ASSUME NEW c \in Clients, HangUp(c)  PROVE TypeOK'
  BY <1>4 DEF HangUp, TypeOK
<1>5. ASSUME NEW c \in Clients, NEW f \in Menu[c], Write(c, f)  PROVE TypeOK'
  <2>1. sock[c] \in Seq(Frames) /\ Len(sock[c]) < SockCap /\ Len(sock[c]) \in Nat /\ written[c] \in Nat
    BY <1>5, LenProperties DEF Write, TypeOK
  <2> DEFINE id == [src |-> c, n |-> written[c] + 1]
             e  == [n |-> id.n, type |-> f.type, msg |-> f.msg]
  <2>2. e \in Frames /\ id \in Ids
    BY <2>1, BrokerAssumption DEF Frames, Ids, Sources, BrokerAssumption
  <2>3. sock' = [sock EXCEPT ![c] = Append(@, e)] /\ owed' \subseteq owed \cup (Clients \X {id})
    BY <1>5 DEF Write
  <2>4. /\ Append(sock[c], e) \in Seq(Frames) /\ Len(Append(sock[c], e)) <= SockCap
    <3>1. /\ Append(sock[c], e) \in Seq(Frames) /\ Len(Append(sock[c], e)) = Len(sock[c]) + 1
      BY <2>1, <2>2, AppendProperties
    <3>2. QED  BY <2>1, <3>1, BrokerAssumption DEF BrokerAssumption
  <2> HIDE DEF e, id
  <2>5. sock' \in [Clients -> Seq(Frames)] /\ \A d \in Clients : Len(sock'[d]) <= SockCap
    BY <2>3, <2>4 DEF TypeOK
  <2>6. written' \in [Clients -> Nat]  BY <1>5, <2>1, SMTT(30) DEF Write, TypeOK
  <2>7. owed' \subseteq Clients \X Ids  BY <2>2, <2>3 DEF TypeOK
  <2>8. QED  BY <1>5, <2>5, <2>6, <2>7 DEF Write, TypeOK
<1>6. ASSUME NEW a \in Arrivals, Arrive(a)  PROVE TypeOK'
  <2> DEFINE id == [src |-> Network, n |-> arrived + 1]
  <2>1. id \in Ids /\ arrived' \in Nat  BY <1>6 DEF Arrive, TypeOK, Ids, Sources
  <2>2. /\ tx' \in [Clients -> Seq(Ids)] /\ \A d \in Clients : Len(tx'[d]) <= TxCap
        /\ armed' \in [Clients -> BOOLEAN] /\ got' \subseteq Clients \X Ids
    <3>1. CASE ForThisNode(a.msg)
      <4>1. DeliverLocal(id, a.msg)  BY <1>6, <3>1 DEF Arrive
      <4> HIDE DEF id
      <4>2. QED  BY <2>1, <4>1, BrokerAssumption, DeliverLocalProperties
    <3>2. CASE ~ForThisNode(a.msg)  BY <1>6, <3>2 DEF Arrive, TypeOK
    <3>3. QED  BY <3>1, <3>2
  <2>3. /\ owed' \subseteq owed \cup (Clients \X {id})
        /\ netSent' \subseteq netSent \cup {id} /\ done' \subseteq done \cup {id}
    BY <1>6 DEF Arrive
  <2>4. UNCHANGED <<clients, subs, pc, me, todo, after, freed, link, sock, rx, out, written, conns, lastRead>>
    BY <1>6 DEF Arrive
  <2> HIDE DEF id
  <2>5. owed' \subseteq Clients \X Ids /\ netSent' \subseteq Ids /\ done' \subseteq Ids
    BY <2>1, <2>3 DEF TypeOK
  <2>6. QED  BY <2>1, <2>2, <2>4, <2>5 DEF TypeOK
<1>7. ASSUME Flush  PROVE TypeOK'
  <2> DEFINE k == Least({Len(tx[me]), SockCap - Len(out[me])})
  <2>1. me \in Clients  BY <1>7 DEF Flush, Lists, WorksOnOpenClients
  <2>2. /\ tx[me] \in Seq(Ids) /\ out[me] \in Seq(Ids)
        /\ Len(tx[me]) \in Nat /\ Len(out[me]) \in Nat /\ SockCap - Len(out[me]) \in Nat
        /\ Len(tx[me]) <= TxCap /\ SockCap \in Nat /\ TxCap \in Nat
    BY <2>1, LenProperties, BrokerAssumption DEF TypeOK, BrokerAssumption
  <2>3. k \in 0 .. Len(tx[me]) /\ k <= SockCap - Len(out[me])  BY <2>2, LeastBounds, Zenon DEF k
  <2>4. /\ out' = [out EXCEPT ![me] = @ \o SubSeq(tx[me], 1, k)]
        /\ tx' = [tx EXCEPT ![me] = SubSeq(@, k + 1, Len(@))]
        /\ armed' = [armed EXCEPT ![me] = WatchesOn(Len(tx[me]) - k)]
    BY <1>7 DEF Flush
  <2> HIDE DEF k
  <2>5. /\ SubSeq(tx[me], 1, k) \in Seq(Ids) /\ Len(SubSeq(tx[me], 1, k)) = k
        /\ SubSeq(tx[me], k + 1, Len(tx[me])) \in Seq(Ids)
        /\ Len(SubSeq(tx[me], k + 1, Len(tx[me]))) = Len(tx[me]) - k
    BY <2>2, <2>3, SplitProperties
  <2>6. /\ out[me] \o SubSeq(tx[me], 1, k) \in Seq(Ids)
        /\ Len(out[me] \o SubSeq(tx[me], 1, k)) = Len(out[me]) + k
    BY <2>2, <2>5, ConcatProperties
  <2>7. /\ Len(out[me] \o SubSeq(tx[me], 1, k)) <= SockCap
        /\ Len(SubSeq(tx[me], k + 1, Len(tx[me]))) <= TxCap
    <3>1. k \in Nat /\ Len(out[me]) + k <= SockCap /\ Len(tx[me]) - k <= TxCap  BY <2>2, <2>3
    <3>2. QED  BY <3>1, <2>5, <2>6, Zenon
  <2>8. /\ out' \in [Clients -> Seq(Ids)] /\ \A d \in Clients : Len(out'[d]) <= SockCap
        /\ tx' \in [Clients -> Seq(Ids)] /\ \A d \in Clients : Len(tx'[d]) <= TxCap
    BY <2>4, <2>5, <2>6, <2>7 DEF TypeOK
  <2>9. armed' \in [Clients -> BOOLEAN]
    <3>1. WatchesOn(Len(tx[me]) - k) \in BOOLEAN  BY DEF WatchesOn
    <3>2. QED  BY <3>1, <2>4 DEF TypeOK
  <2>10. QED  BY <1>7, <2>8, <2>9 DEF Flush, Resume, TypeOK
<1>8. ASSUME FlushFails  PROVE TypeOK'
  <2>1. me \in Clients /\ Close(me)  BY <1>8 DEF FlushFails, Lists, WorksOnOpenClients
  <2>2. QED  BY <1>8, <2>1, CloseProperties DEF FlushFails, HandlerReturns, TypeOK
<1>9. ASSUME Read  PROVE TypeOK'
  <2> DEFINE k == Least({Len(sock[me]), RxCap - Len(rx[me])})
  <2>1. me \in Clients  BY <1>9 DEF Read, Lists, WorksOnOpenClients
  <2>2. /\ sock[me] \in Seq(Frames) /\ rx[me] \in Seq(Frames)
        /\ Len(sock[me]) \in Nat /\ Len(rx[me]) \in Nat /\ RxCap - Len(rx[me]) \in Nat
        /\ Len(sock[me]) <= SockCap /\ SockCap \in Nat /\ RxCap \in Nat
    BY <2>1, LenProperties, BrokerAssumption DEF TypeOK, BrokerAssumption
  <2>3. k \in 0 .. Len(sock[me]) /\ k <= RxCap - Len(rx[me])  BY <2>2, LeastBounds, Zenon DEF k
  <2>4. /\ rx' = [rx EXCEPT ![me] = @ \o SubSeq(sock[me], 1, k)]
        /\ sock' = [sock EXCEPT ![me] = SubSeq(@, k + 1, Len(@))]
    BY <1>9 DEF Read
  <2> HIDE DEF k
  <2>5. /\ SubSeq(sock[me], 1, k) \in Seq(Frames) /\ Len(SubSeq(sock[me], 1, k)) = k
        /\ SubSeq(sock[me], k + 1, Len(sock[me])) \in Seq(Frames)
        /\ Len(SubSeq(sock[me], k + 1, Len(sock[me]))) = Len(sock[me]) - k
    BY <2>2, <2>3, SplitProperties
  <2>6. /\ rx[me] \o SubSeq(sock[me], 1, k) \in Seq(Frames)
        /\ Len(rx[me] \o SubSeq(sock[me], 1, k)) = Len(rx[me]) + k
    BY <2>2, <2>5, ConcatProperties
  <2>7. /\ Len(rx[me] \o SubSeq(sock[me], 1, k)) <= RxCap
        /\ Len(SubSeq(sock[me], k + 1, Len(sock[me]))) <= SockCap
    <3>1. k \in Nat /\ Len(rx[me]) + k <= RxCap /\ Len(sock[me]) - k <= SockCap  BY <2>2, <2>3
    <3>2. QED  BY <3>1, <2>5, <2>6, Zenon
  <2>8. /\ rx' \in [Clients -> Seq(Frames)] /\ \A d \in Clients : Len(rx'[d]) <= RxCap
        /\ sock' \in [Clients -> Seq(Frames)] /\ \A d \in Clients : Len(sock'[d]) <= SockCap
    BY <2>4, <2>5, <2>6, <2>7 DEF TypeOK
  <2>9. QED  BY <1>9, <2>8 DEF Read, TypeOK
<1>10. ASSUME ReadNothing  PROVE TypeOK'
  BY <1>10 DEF ReadNothing, HandlerReturns, TypeOK
<1>11. ASSUME ReadEof  PROVE TypeOK'
  <2>1. me \in Clients /\ Close(me)  BY <1>11 DEF ReadEof, Lists, WorksOnOpenClients
  <2>2. QED  BY <1>11, <2>1, CloseProperties DEF ReadEof, HandlerReturns, TypeOK
<1>12. ASSUME FrameDone  PROVE TypeOK'
  <2>1. AtFrame /\ rx[Current] # <<>>  BY <1>12 DEF FrameDone, AtFrame
  <2>2. PICK net \in SendResults : Apply(net)  BY <1>12 DEF FrameDone
  <2>3. /\ Current \in Clients /\ Id(Current, Frame) \in Ids
        /\ Tail(rx[Current]) \in Seq(Frames) /\ Len(Tail(rx[Current])) <= RxCap
    BY <2>1, CurrentProperties DEF AtFrame
  <2>4. rx' = [rx EXCEPT ![Current] = Tail(@)] /\ done' = done \cup {Id(Current, Frame)}
    BY <1>12 DEF FrameDone
  <2>5. rx' \in [Clients -> Seq(Frames)] /\ \A d \in Clients : Len(rx'[d]) <= RxCap
    BY <2>3, <2>4 DEF TypeOK
  <2>6. /\ tx' \in [Clients -> Seq(Ids)] /\ \A d \in Clients : Len(tx'[d]) <= TxCap
        /\ armed' \in [Clients -> BOOLEAN]
        /\ got' \subseteq Clients \X Ids /\ netSent' \subseteq Ids
        /\ IsFiniteSet(subs') /\ Cardinality(subs') <= MaxSubs
        /\ \A s \in subs' : s.fd \in Clients
    BY <2>1, <2>2, ApplyProperties
  <2>7. done' \subseteq Ids  BY <2>3, <2>4 DEF TypeOK
  <2>8. UNCHANGED <<clients, pc, me, todo, after, freed, link, sock, out, written, conns, arrived, owed, lastRead>>
    BY <1>12 DEF FrameDone
  <2>9. QED  BY <2>5, <2>6, <2>7, <2>8 DEF TypeOK
<1>13. ASSUME FrameBlocked \/ FrameUnroutable  PROVE TypeOK'
  <2>1. AtFrame  BY <1>13 DEF FrameBlocked, FrameUnroutable
  <2>2. PICK net \in SendResults : Apply(net)  BY <1>13 DEF FrameBlocked, FrameUnroutable
  <2>3. /\ tx' \in [Clients -> Seq(Ids)] /\ \A d \in Clients : Len(tx'[d]) <= TxCap
        /\ armed' \in [Clients -> BOOLEAN]
        /\ got' \subseteq Clients \X Ids /\ netSent' \subseteq Ids
        /\ IsFiniteSet(subs') /\ Cardinality(subs') <= MaxSubs
        /\ \A s \in subs' : s.fd \in Clients
    BY <2>1, <2>2, ApplyProperties
  <2>4. UNCHANGED <<clients, me, rx, freed, link, sock, out, written, conns, arrived, done, owed, lastRead>>
    BY <1>13 DEF FrameBlocked, FrameUnroutable, KeepFrame
  <2>5. todo' \in Seq(Clients)
    <3>1. todo \in Seq(Clients) /\ clients \in Seq(Clients)  BY DEF TypeOK
    <3>2. todo # <<>> => Tail(todo) \in Seq(Clients)  BY <3>1, TailProperties
    <3>3. QED  BY <1>13, <3>1, <3>2 DEF FrameBlocked, FrameUnroutable, AtFrame, Resume
  <2>6. pc' \in {"wait", "flush", "resume", "read", "process", "crashed"} /\ after' \in {"wait", "read"}
    BY <1>13 DEF FrameBlocked, FrameUnroutable, Resume, TypeOK
  <2>7. QED  BY <2>3, <2>4, <2>5, <2>6 DEF TypeOK
<1>14. ASSUME FrameFatal  PROVE TypeOK'
  <2>1. Current \in Clients /\ Close(Current)  BY <1>14, CurrentProperties DEF FrameFatal, AtFrame
  <2>2. todo' \in Seq(Clients)
    <3>1. todo \in Seq(Clients)  BY DEF TypeOK
    <3>2. todo # <<>> => Tail(todo) \in Seq(Clients)  BY <3>1, TailProperties
    <3>3. QED  BY <1>14, <3>1, <3>2 DEF FrameFatal, AtFrame
  <2>3. /\ pc' \in {"wait", "flush", "resume", "read", "process", "crashed"}
        /\ me' \in Clients \cup {NoClient} /\ after' \in {"wait", "read"} /\ freed' \in BOOLEAN
    <3>1. pc' \in {"wait", "resume", "crashed"}  BY <1>14 DEF FrameFatal, HandlerReturns
    <3>2. me' \in {me, NoClient} /\ after' = after  BY <1>14 DEF FrameFatal, HandlerReturns
    <3>3. freed' \in BOOLEAN  BY <1>14 DEF FrameFatal, HandlerReturns
    <3>4. QED  BY <3>1, <3>2, <3>3 DEF TypeOK
  <2>4. PICK c \in Clients : Close(c)  BY <2>1
  <2>5. done' \subseteq Ids /\ netSent' \subseteq Ids /\ arrived' \in Nat
        /\ written' \in [Clients -> Nat] /\ conns' \in [Clients -> Nat]
    BY <2>4 DEF Close, TypeOK
  <2>6. QED  BY <2>2, <2>3, <2>4, <2>5, CloseProperties DEF TypeOK
<1>15. ASSUME NoFrame  PROVE TypeOK'
  <2>1. todo' \in Seq(Clients)
    <3>1. todo \in Seq(Clients)  BY DEF TypeOK
    <3>2. todo # <<>> => Tail(todo) \in Seq(Clients)  BY <3>1, TailProperties
    <3>3. QED  BY <1>15, <3>1, <3>2 DEF NoFrame
  <2>2. pc' \in {"wait", "flush", "resume", "read", "process", "crashed"}
    BY <1>15 DEF NoFrame
  <2>3. QED  BY <1>15, <2>1, <2>2 DEF NoFrame, TypeOK
<1>16. ASSUME ResumeEnd  PROVE TypeOK'
  BY <1>16 DEF ResumeEnd, HandlerReturns, TypeOK
<1>17. ASSUME UNCHANGED vars  PROVE TypeOK'
  BY <1>17 DEF vars, TypeOK
<1>18. CASE Handler
  BY <1>18, <1>7, <1>8, <1>9, <1>10, <1>11, <1>12, <1>13, <1>14, <1>15, <1>16 DEF Handler
<1>19. QED
  BY <1>1, <1>2, <1>3, <1>4, <1>5, <1>6, <1>17, <1>18, Zenon DEF Next

\* Every step keeps the lists right.  A descriptor
\* leaves the list only through Close, and Close is called on the client whose
\* event is handled, after which the handler returns, or on the head of todo,
\* which is then dropped.
LEMMA ListsStep ==
  ASSUME TypeOK, Lists, [Next]_vars
  PROVE  Lists'
<1> USE DEF daemon, buffers, history
<1>0. /\ clients \in Seq(Clients) /\ todo \in Seq(Clients)
      /\ pc \in {"wait", "flush", "resume", "read", "process", "crashed"}
  BY DEF TypeOK
<1>1. ASSUME NEW c \in Clients, Accept(c)  PROVE Lists'
  <2>1. c \notin ToSet(clients)  BY <1>1 DEF Accept, Lists
  <2>2. Distinct(clients') /\ ToSet(clients') = ToSet(clients) \cup {c}
    BY <1>0, <1>1, <2>1, ConsProperties DEF Accept, Lists
  <2>3. /\ link'[c] = "open" /\ \A d \in Clients \ {c} : link'[d] = link[d]
    BY <1>1 DEF Accept, TypeOK
  <2>4. \A d \in Clients : link'[d] # "none" <=> d \in ToSet(clients')
    BY <2>2, <2>3 DEF Lists
  <2>5. pc' = "wait" /\ todo' = todo  BY <1>1 DEF Accept
  <2>6. QED  BY <2>2, <2>4, <2>5 DEF Lists, WorksOnOpenClients
<1>2. ASSUME NEW c \in Clients, ClientEvent(c)  PROVE Lists'
  BY <1>2 DEF ClientEvent, Lists, WorksOnOpenClients
<1>3. ASSUME NEW c \in Clients, Take(c)  PROVE Lists'
  BY <1>3 DEF Take, Lists, WorksOnOpenClients
<1>4. ASSUME NEW c \in Clients, HangUp(c)  PROVE Lists'
  <2>1. \A d \in Clients : link'[d] # "none" <=> link[d] # "none"  BY <1>4 DEF HangUp, TypeOK
  <2>2. \A d \in ToSet(todo) : d \in Clients
    BY <1>0, ElementOfSeq, LenProperties DEF ToSet
  <2>3. QED  BY <1>4, <2>1, <2>2 DEF HangUp, Lists, WorksOnOpenClients
<1>5. ASSUME NEW c \in Clients, NEW f \in Menu[c], Write(c, f)  PROVE Lists'
  BY <1>5 DEF Write, Lists, WorksOnOpenClients
<1>6. ASSUME NEW a \in Arrivals, Arrive(a)  PROVE Lists'
  <2>1. UNCHANGED <<clients, pc, me, todo, after, freed, link>>  BY <1>6 DEF Arrive
  <2>2. QED  BY <2>1 DEF Lists, WorksOnOpenClients
\* The resume loop starts with the whole list.
<1>7. ASSUME pc \in {"flush", "process"}, UNCHANGED <<clients, link, me>>,
             NEW then \in {"wait", "read"}, Resume(then)
      PROVE  Lists'
  <2>1. ToSet(clients) \subseteq Clients  BY <1>0, ElementOfSeq, LenProperties DEF ToSet
  <2>2. \A c \in ToSet(clients) : link[c] # "none"  BY <2>1 DEF Lists
  <2>3. me \in Clients  BY <1>7 DEF Lists, WorksOnOpenClients
  <2>4. QED  BY <1>7, <2>2, <2>3 DEF Lists, WorksOnOpenClients, Resume
<1>8. ASSUME Flush  PROVE Lists'
  BY <1>7, <1>8 DEF Flush
\* The handler returns after closing its own client.
<1>9. ASSUME Close(me), me \in Clients, HandlerReturns, todo' = todo  PROVE Lists'
  <2>1. Distinct(clients') /\ \A d \in Clients : link'[d] # "none" <=> d \in ToSet(clients')
    BY <1>9, CloseProperties
  <2>2. QED  BY <1>9, <2>1 DEF Lists, WorksOnOpenClients, HandlerReturns
<1>10. ASSUME FlushFails \/ ReadEof  PROVE Lists'
  BY <1>9, <1>10 DEF FlushFails, ReadEof, Lists, WorksOnOpenClients
<1>11. ASSUME Read  PROVE Lists'
  BY <1>11 DEF Read, Lists, WorksOnOpenClients
<1>12. ASSUME ReadNothing  PROVE Lists'
  BY <1>12 DEF ReadNothing, HandlerReturns, Lists, WorksOnOpenClients
\* The resume loop drops the head of the list.
<1>13. ASSUME pc = "resume", todo # <<>>
       PROVE  /\ Distinct(Tail(todo)) /\ Head(todo) \notin ToSet(Tail(todo))
              /\ \A c \in ToSet(Tail(todo)) : c \in Clients /\ link[c] # "none"
  <2>1. /\ Distinct(Tail(todo)) /\ Head(todo) \notin ToSet(Tail(todo))
        /\ ToSet(Tail(todo)) \subseteq ToSet(todo)
    BY <1>0, <1>13, TailProperties DEF Lists
  <2>2. ToSet(todo) \subseteq Clients  BY <1>0, ElementOfSeq, LenProperties DEF ToSet
  <2>3. QED  BY <1>13, <2>1, <2>2 DEF Lists, WorksOnOpenClients
<1>14. ASSUME FrameDone  PROVE Lists'
  BY <1>14 DEF FrameDone, Lists, WorksOnOpenClients
<1>15. ASSUME FrameBlocked  PROVE Lists'
  <2>1. UNCHANGED <<clients, me, freed, link>>  BY <1>15 DEF FrameBlocked
  <2>2. CASE pc = "process"
    <3>1. Resume("wait")  BY <1>15, <2>2 DEF FrameBlocked
    <3>2. QED  BY <1>7, <2>1, <2>2, <3>1
  <2>3. CASE pc = "resume" /\ todo # <<>>
    <3>1. pc' = pc /\ todo' = Tail(todo) /\ after' = after  BY <1>15, <2>3 DEF FrameBlocked
    <3>2. QED  BY <1>13, <2>1, <2>3, <3>1 DEF Lists, WorksOnOpenClients
  <2>4. QED  BY <1>15, <2>2, <2>3 DEF FrameBlocked, AtFrame
<1>16. ASSUME FrameUnroutable \/ NoFrame  PROVE Lists'
  <2>1. UNCHANGED <<clients, me, freed, link, after>>  BY <1>16 DEF FrameUnroutable, NoFrame
  <2>2. CASE pc = "process"
    <3>1. pc' = "read" /\ todo' = todo  BY <1>16, <2>2 DEF FrameUnroutable, NoFrame
    <3>2. QED  BY <2>1, <2>2, <3>1 DEF Lists, WorksOnOpenClients
  <2>3. CASE pc = "resume" /\ todo # <<>>
    <3>1. pc' = pc /\ todo' = Tail(todo)  BY <1>16, <2>3 DEF FrameUnroutable, NoFrame
    <3>2. QED  BY <1>13, <2>1, <2>3, <3>1 DEF Lists, WorksOnOpenClients
  <2>4. QED  BY <1>16, <2>2, <2>3 DEF FrameUnroutable, NoFrame, AtFrame
<1>17. ASSUME FrameFatal  PROVE Lists'
  <2>1. AtFrame /\ Close(Current) /\ Current \in Clients /\ after' = after
    BY <1>17, CurrentProperties DEF FrameFatal, AtFrame
  <2>2. CASE pc = "process"
    <3>1. Close(me) /\ me \in Clients /\ HandlerReturns /\ todo' = todo
      BY <1>17, <2>1, <2>2 DEF FrameFatal, Current
    <3>2. QED  BY <1>9, <3>1
  <2>3. CASE pc = "resume" /\ todo # <<>>
    <3>1. /\ Distinct(clients') /\ \A d \in Clients : link'[d] # "none" <=> d \in ToSet(clients')
          /\ link' = [link EXCEPT ![Current] = "none"]
      BY <2>1, CloseProperties
    <3>2. /\ me' = me /\ freed' = TRUE
          /\ \/ pc' = "resume" /\ todo' = Tail(todo)
             \/ pc' = "crashed" /\ todo' = todo
      BY <1>17, <2>3 DEF FrameFatal
    <3>3. \A c \in ToSet(Tail(todo)) : link'[c] # "none"
      BY <1>13, <2>3, <3>1 DEF Current, TypeOK
    <3>4. CASE pc' = "resume" /\ todo' = Tail(todo)
      BY <1>13, <2>1, <2>3, <3>1, <3>2, <3>3, <3>4 DEF Lists, WorksOnOpenClients
    <3>5. CASE pc' = "crashed" /\ todo' = todo
      BY <3>1, <3>2, <3>5 DEF Lists, WorksOnOpenClients
    <3>6. QED  BY <3>2, <3>4, <3>5
  <2>4. QED  BY <2>1, <2>2, <2>3 DEF AtFrame
<1>18. ASSUME ResumeEnd  PROVE Lists'
  BY <1>18 DEF ResumeEnd, HandlerReturns, Lists, WorksOnOpenClients
<1>19. ASSUME UNCHANGED vars  PROVE Lists'
  BY <1>19 DEF vars, Lists, WorksOnOpenClients
<1>20. CASE Handler
  BY <1>20, <1>8, <1>10, <1>11, <1>12, <1>14, <1>15, <1>16, <1>17, <1>18 DEF Handler
<1>21. QED
  BY <1>1, <1>2, <1>3, <1>4, <1>5, <1>6, <1>19, <1>20, Zenon DEF Next

\* Whatever the clients write and whenever they hang up, every buffer, queue and
\* table of the daemon stays within its capacity.
THEOREM Types == Spec => [](TypeOK /\ Lists)
<1>1. Init => TypeOK /\ Lists  BY InitTypes
<1>2. TypeOK /\ Lists /\ [Next]_vars => (TypeOK /\ Lists)'  BY TypesStep, ListsStep
<1>3. QED  BY <1>1, <1>2, PTL DEF Spec

\* TypeOK for every set of clients and every capacity.
THEOREM BuffersBounded == Spec => []TypeOK
BY Types, PTL

\* client_manager.c works on the memory of a client that close_client freed only in
\* a handler whose resume_pending_publishers closed one: the loop itself, or
\* on_client_event when the client was its own.
THEOREM FreedMemoryOnlyAfterResume == Spec => []FreedOnlyByResume
<1>1. TypeOK /\ Lists => FreedOnlyByResume  BY DEF Lists, WorksOnOpenClients, FreedOnlyByResume
<1>2. QED  BY <1>1, Types, PTL


-----------------------------------------------------------------------------
(* A frame counts as handled only when every client that is still owed a     *)
(* copy of it has had one.                                                    *)

\* What clients have written and the daemon has not handled.
Pending(c) == ToSet(sock[c]) \cup ToSet(rx[c])

\* The last number a source has given to a message.
LastOf(src) == IF src = Network THEN arrived ELSE written[src]

Wanted(d, src, m) == d # src /\ \E s \in subs : s.fd = d /\ TopicMatches(s.topic, m.topic)

\* NoLoss is not inductive: the step that handles a frame must know that whoever
\* is owed a copy still has the subscription (Meant), and the step that creates a
\* message must know that its number was never used (Numbered).
Numbered ==
  /\ \A o \in owed : o[2].n <= LastOf(o[2].src)
  /\ \A id \in done : id.n <= LastOf(id.src)
  /\ \A c \in Clients : \A f \in Pending(c) : f.n <= written[c]

Meant ==
  \A c, d \in Clients : \A f \in Pending(c) :
    <<d, Id(c, f)>> \in owed => f.type = "PUB" /\ ForThisNode(f.msg) /\ Wanted(d, c, f.msg)

Handed == TypeOK /\ Lists /\ Numbered /\ Meant /\ NoLoss

-----------------------------------------------------------------------------
\* A client is due copies exactly when one of its subscriptions matches.
LEMMA WantedMeansCopies ==
  ASSUME TypeOK, NEW d \in Clients, NEW src, NEW m
  PROVE  Copies(d, src, m) > 0 <=> Wanted(d, src, m)
BY CopiesProperties DEF Wanted

\* An attempt to publish takes no subscription and no copy away.
LEMMA ApplyGrows ==
  ASSUME NEW net, Apply(net)
  PROVE  subs \subseteq subs' /\ got \subseteq got'
<1>1. CASE Frame.type = "PUB" /\ Frame.msg.topic # <<>>
  <2>1. subs' = subs /\ Publish(Id(Current, Frame), Frame.msg, net)  BY <1>1 DEF Apply
  <2>2. QED  BY <2>1 DEF Publish, DeliverLocal
<1>2. CASE ~(Frame.type = "PUB" /\ Frame.msg.topic # <<>>)
  BY <1>2 DEF Apply, Subscribe
<1>3. QED  BY <1>1, <1>2

\* If no subscriber is starved, whoever wants the message gets it.
LEMMA NobodyMissed ==
  ASSUME TypeOK, NEW src, NEW m, ~Starved(src, m), NEW d \in Clients, Wanted(d, src, m)
  PROVE  d \in Reached(src, m)
<1>1. Copies(d, src, m) > 0 /\ Copies(d, src, m) \in Nat  BY WantedMeansCopies, CopiesProperties
<1>2. ~(Copies(d, src, m) > Room(d))  BY DEF Starved
<1>3. Room(d) \in Nat /\ Fits(d, src, m) \in {Copies(d, src, m), Room(d)}
  BY FitsProperties, BrokerAssumption
<1>4. Fits(d, src, m) > 0  BY <1>1, <1>2, <1>3
<1>5. QED  BY <1>4 DEF Reached

\* Only Write adds to what is pending.
LEMMA PendingStep ==
  ASSUME TypeOK, Lists, [Next]_vars,
         ~ \E c \in Clients : \E f \in Menu[c] : Write(c, f)
  PROVE  \A c \in Clients : Pending(c)' \subseteq Pending(c)
<1> USE DEF daemon, buffers, history
<1>1. ASSUME sock' = sock, rx' = rx  PROVE \A c \in Clients : Pending(c)' \subseteq Pending(c)
  BY <1>1 DEF Pending
<1>2. ASSUME NEW c \in Clients, Close(c)
      PROVE  \A d \in Clients : Pending(d)' \subseteq Pending(d)
  <2> TAKE d \in Clients
  <2>1. CASE d = c
    <3>1. sock'[d] = <<>> /\ rx'[d] = <<>>  BY <1>2, <2>1 DEF Close, TypeOK
    <3>2. ToSet(<<>>) = {}  BY DEF ToSet
    <3>3. QED  BY <3>1, <3>2 DEF Pending
  <2>2. CASE d # c
    <3>1. sock'[d] = sock[d] /\ rx'[d] = rx[d]  BY <1>2, <2>2 DEF Close, TypeOK
    <3>2. QED  BY <3>1 DEF Pending
  <2>3. QED  BY <2>1, <2>2
<1>3. CASE Read
  <2> DEFINE k == Least({Len(sock[me]), RxCap - Len(rx[me])})
  <2>1. me \in Clients  BY <1>3 DEF Read, Lists, WorksOnOpenClients
  <2>2. /\ sock[me] \in Seq(Frames) /\ rx[me] \in Seq(Frames)
        /\ Len(sock[me]) \in Nat /\ Len(rx[me]) \in Nat /\ RxCap - Len(rx[me]) \in Nat
    BY <2>1, LenProperties, BrokerAssumption DEF TypeOK, BrokerAssumption
  <2>3. k \in 0 .. Len(sock[me]) /\ k <= RxCap - Len(rx[me])  BY <2>2, LeastBounds, Zenon DEF k
  <2>4. /\ rx' = [rx EXCEPT ![me] = @ \o SubSeq(sock[me], 1, k)]
        /\ sock' = [sock EXCEPT ![me] = SubSeq(@, k + 1, Len(@))]
    BY <1>3 DEF Read
  <2> HIDE DEF k
  <2> DEFINE head == SubSeq(sock[me], 1, k)
             rest == SubSeq(sock[me], k + 1, Len(sock[me]))
  <2>5. head \in Seq(Frames)
    <3>1. SubSeq(sock[me], 1, k) \in Seq(Frames)  BY <2>2, <2>3, SplitProperties
    <3>2. QED  BY <3>1
  <2>6. Frames # {} => /\ ToSet(head) \subseteq ToSet(sock[me])
                       /\ ToSet(rest) \subseteq ToSet(sock[me])
                       /\ ToSet(rx[me] \o head) \subseteq ToSet(rx[me]) \cup ToSet(head)
    <3> SUFFICES ASSUME NEW e \in Frames
                 PROVE  /\ ToSet(head) \subseteq ToSet(sock[me])
                        /\ ToSet(rest) \subseteq ToSet(sock[me])
                        /\ ToSet(rx[me] \o head) \subseteq ToSet(rx[me]) \cup ToSet(head)
      OBVIOUS
    <3>1. ToSet(head) \subseteq ToSet(sock[me]) /\ ToSet(rest) \subseteq ToSet(sock[me])
      BY <2>2, <2>3, Elements
    <3>2. 0 \in 0 .. Len(rx[me])  BY <2>2
    <3> HIDE DEF head, rest
    <3>3. ToSet(rx[me] \o head) \subseteq ToSet(rx[me]) \cup ToSet(head)
      BY <2>2, <2>5, <3>2, Elements
    <3>4. QED  BY <3>1, <3>3
  <2>7. Frames # {}
    <3>1. sock[me] # <<>>  BY <1>3 DEF Read
    <3>2. QED  BY <2>2, <3>1, TailProperties
  <2>8. sock'[me] = rest /\ rx'[me] = rx[me] \o head  BY <2>1, <2>4 DEF TypeOK
  <2>9. \A d \in Clients \ {me} : sock'[d] = sock[d] /\ rx'[d] = rx[d]  BY <2>4 DEF TypeOK
  <2> HIDE DEF head, rest
  <2>10. QED  BY <2>6, <2>7, <2>8, <2>9 DEF Pending
<1>4. CASE FrameDone
  <2>1. AtFrame /\ sock' = sock /\ rx' = [rx EXCEPT ![Current] = Tail(@)]  BY <1>4 DEF FrameDone
  <2>2. Current \in Clients /\ rx[Current] \in Seq(Frames) /\ rx[Current] # <<>>
    BY <2>1, CurrentProperties DEF AtFrame
  <2>3. ToSet(Tail(rx[Current])) \subseteq ToSet(rx[Current])  BY <2>2, TailProperties
  <2>4. \A d \in Clients : ToSet(rx'[d]) \subseteq ToSet(rx[d])  BY <2>1, <2>2, <2>3 DEF TypeOK
  <2>5. QED  BY <2>1, <2>4 DEF Pending
<1>5. CASE FlushFails \/ ReadEof
  <2>1. me \in Clients /\ Close(me)  BY <1>5 DEF FlushFails, ReadEof, Lists, WorksOnOpenClients
  <2>2. QED  BY <1>2, <2>1
<1>6. CASE FrameFatal
  <2>1. Current \in Clients /\ Close(Current)  BY <1>6, CurrentProperties DEF FrameFatal, AtFrame
  <2>2. QED  BY <1>2, <2>1
<1>7. CASE FrameBlocked \/ FrameUnroutable
  BY <1>1, <1>7 DEF FrameBlocked, FrameUnroutable, KeepFrame
<1>8. CASE Flush \/ ReadNothing \/ NoFrame \/ ResumeEnd
  BY <1>1, <1>8 DEF Flush, ReadNothing, NoFrame, ResumeEnd
<1>9. ASSUME NEW c \in Clients, Accept(c) \/ ClientEvent(c) \/ Take(c) \/ HangUp(c)
      PROVE  sock' = sock /\ rx' = rx
  BY <1>9 DEF Accept, ClientEvent, Take, HangUp
<1>10. ASSUME NEW a \in Arrivals, Arrive(a)  PROVE sock' = sock /\ rx' = rx
  BY <1>10 DEF Arrive
<1>11. CASE UNCHANGED vars  BY <1>1, <1>11 DEF vars
<1>12. CASE Handler
  BY <1>12, <1>3, <1>4, <1>5, <1>6, <1>7, <1>8 DEF Handler
<1>13. QED  BY <1>1, <1>9, <1>10, <1>11, <1>12, Zenon DEF Next

-----------------------------------------------------------------------------
(* The steps                                                                 *)

\* The invariant holds when the daemon starts.
LEMMA InitHanded == Init => Handed
<1> SUFFICES ASSUME Init  PROVE Handed
  OBVIOUS
<1>1. TypeOK /\ Lists  BY InitTypes
<1>2. \A c \in Clients : Pending(c) = {}  BY DEF Init, Pending, ToSet
<1>3. Numbered /\ Meant /\ NoLoss  BY <1>2 DEF Init, Numbered, Meant, NoLoss
<1>4. QED  BY <1>1, <1>3 DEF Handed

\* Steps that hand nothing over: what was promised stays promised.
LEMMA QuietStep ==
  ASSUME Handed, \A c \in Clients : Pending(c)' \subseteq Pending(c),
         UNCHANGED <<written, arrived, owed, done>>, subs \subseteq subs', got \subseteq got'
  PROVE  (Numbered /\ Meant /\ NoLoss)'
<1>1. Numbered'
  <2>1. \A src : LastOf(src)' = LastOf(src)  BY DEF LastOf
  <2>2. QED  BY <2>1 DEF Numbered, Handed
<1>2. Meant'
  <2> SUFFICES ASSUME NEW c \in Clients, NEW d \in Clients, NEW f \in Pending(c)',
                      <<d, Id(c, f)>> \in owed
               PROVE  f.type = "PUB" /\ ForThisNode(f.msg) /\ Wanted(d, c, f.msg)'
    BY DEF Meant
  <2>1. f.type = "PUB" /\ ForThisNode(f.msg) /\ Wanted(d, c, f.msg)  BY DEF Handed, Meant
  <2>2. Wanted(d, c, f.msg)'  BY <2>1 DEF Wanted
  <2>3. QED  BY <2>1, <2>2
<1>3. NoLoss'  BY DEF Handed, NoLoss
<1>4. QED  BY <1>1, <1>2, <1>3

\* close_client forgets what is owed to the client together with what it got.
LEMMA CloseStep ==
  ASSUME Handed, NEW c \in Clients, Close(c), \A d \in Clients : Pending(d)' \subseteq Pending(d)
  PROVE  (Numbered /\ Meant /\ NoLoss)'
<1>1. /\ owed' = {o \in owed : o[1] # c} /\ got' = {g \in got : g[1] # c}
      /\ subs' = {s \in subs : s.fd # c}
      /\ UNCHANGED <<written, arrived, done>>
  BY DEF Close, SubsWithout
<1>2. Numbered'
  <2>1. \A src : LastOf(src)' = LastOf(src)  BY <1>1 DEF LastOf
  <2>2. QED  BY <1>1, <2>1 DEF Numbered, Handed
<1>3. Meant'
  <2> SUFFICES ASSUME NEW p \in Clients, NEW d \in Clients, NEW f \in Pending(p)',
                      <<d, Id(p, f)>> \in owed'
               PROVE  f.type = "PUB" /\ ForThisNode(f.msg) /\ Wanted(d, p, f.msg)'
    BY DEF Meant
  <2>1. f \in Pending(p) /\ <<d, Id(p, f)>> \in owed /\ d # c  BY <1>1
  <2>2. f.type = "PUB" /\ ForThisNode(f.msg) /\ Wanted(d, p, f.msg)
    BY <2>1 DEF Handed, Meant
  <2>3. Wanted(d, p, f.msg)'  BY <1>1, <2>1, <2>2 DEF Wanted
  <2>4. QED  BY <2>2, <2>3
<1>4. NoLoss'  BY <1>1 DEF Handed, NoLoss
<1>5. QED  BY <1>2, <1>3, <1>4

\* A frame leaves rx_buf only when nobody it is owed to was starved.
LEMMA FrameDoneStep ==
  ASSUME Handed, FrameDone, \A c \in Clients : Pending(c)' \subseteq Pending(c)
  PROVE  (Numbered /\ Meant /\ NoLoss)'
<1> DEFINE id == Id(Current, Frame)
<1>1. PICK net \in SendResults : FrameResult(net) = "OK" /\ Apply(net)  BY DEF FrameDone
<1>2. /\ AtFrame /\ done' = done \cup {id}
      /\ UNCHANGED <<written, arrived, owed>>
  BY DEF FrameDone
<1>3. subs \subseteq subs' /\ got \subseteq got'  BY <1>1, ApplyGrows
<1>4. /\ TypeOK /\ Lists /\ Current \in Clients /\ Frame \in Pending(Current)
      /\ id \in Ids /\ Current # Network
  <2>1. TypeOK /\ Lists  BY DEF Handed
  <2>2. Current \in Clients /\ rx[Current] \in Seq(Frames) /\ rx[Current] # <<>> /\ id \in Ids
    BY <1>2, <2>1, CurrentProperties DEF AtFrame
  <2>3. Frame \in ToSet(rx[Current])  BY <2>2, TailProperties DEF Frame
  <2>4. QED  BY <2>1, <2>2, <2>3, BrokerAssumption DEF Pending, BrokerAssumption
<1>5. Numbered'
  <2>1. \A src : LastOf(src)' = LastOf(src)  BY <1>2 DEF LastOf
  <2>2. id.n <= LastOf(id.src)  BY <1>4 DEF Handed, Numbered, LastOf, Id
  <2> HIDE DEF id
  <2>3. QED  BY <1>2, <2>1, <2>2 DEF Numbered, Handed
<1>6. Meant'
  <2> SUFFICES ASSUME NEW c \in Clients, NEW d \in Clients, NEW f \in Pending(c)',
                      <<d, Id(c, f)>> \in owed
               PROVE  f.type = "PUB" /\ ForThisNode(f.msg) /\ Wanted(d, c, f.msg)'
    BY <1>2 DEF Meant
  <2>1. f.type = "PUB" /\ ForThisNode(f.msg) /\ Wanted(d, c, f.msg)  BY DEF Handed, Meant
  <2>2. Wanted(d, c, f.msg)'  BY <1>3, <2>1 DEF Wanted
  <2>3. QED  BY <2>1, <2>2
<1>7. NoLoss'
  <2> SUFFICES ASSUME NEW o \in owed, o[2] \in done'  PROVE o \in got'
    BY <1>2 DEF NoLoss
  <2>1. CASE o[2] \in done  BY <1>3, <2>1 DEF Handed, NoLoss
  <2>2. CASE o[2] = id
    <3>0. o \in Clients \X Ids  BY <1>4 DEF TypeOK
    <3>1. o = <<o[1], id>> /\ o[1] \in Clients
      <4>1. o = <<o[1], o[2]>> /\ o[1] \in Clients  BY <3>0
      <4> HIDE DEF id
      <4>2. QED  BY <4>1, <2>2
    <3>2. Frame.type = "PUB" /\ ForThisNode(Frame.msg) /\ Wanted(o[1], Current, Frame.msg)
      BY <1>4, <3>1 DEF Handed, Meant
    <3>3. Frame.msg.topic # <<>> /\ PublishResult(Current, Frame.msg, net) = "OK"
      BY <1>1, <3>2 DEF FrameResult
    <3>4. ~Starved(Current, Frame.msg)  BY <3>2, <3>3 DEF PublishResult
    <3>5. o[1] \in Reached(Current, Frame.msg)  BY <1>4, <3>1, <3>2, <3>4, NobodyMissed
    <3>6. DeliverLocal(id, Frame.msg) /\ id.src = Current
      BY <1>1, <3>2, <3>3 DEF Apply, Publish, Id
    <3> HIDE DEF id
    <3>7. QED  BY <3>1, <3>5, <3>6 DEF DeliverLocal
  <2>3. QED  BY <1>2, <2>1, <2>2
<1>8. QED  BY <1>5, <1>6, <1>7

\* A client writes: the number is new, and whoever is owed a copy is subscribed.
LEMMA WriteStep ==
  ASSUME Handed, NEW c \in Clients, NEW f \in Menu[c], Write(c, f)
  PROVE  (Numbered /\ Meant /\ NoLoss)'
<1> DEFINE id == [src |-> c, n |-> written[c] + 1]
           e  == [n |-> id.n, type |-> f.type, msg |-> f.msg]
           new == IF f.type = "PUB" /\ ForThisNode(f.msg)
                  THEN {<<d, id>> : d \in {d \in Clients : Copies(d, c, f.msg) > 0}} ELSE {}
<1>1. /\ sock' = [sock EXCEPT ![c] = Append(@, e)] /\ owed' = owed \cup new
      /\ written' = [written EXCEPT ![c] = @ + 1]
      /\ UNCHANGED <<arrived, done, got, subs, rx>>
  BY DEF Write, daemon
<1>2. TypeOK /\ written[c] \in Nat /\ c # Network
  BY BrokerAssumption DEF Handed, TypeOK, BrokerAssumption
<1>3. /\ e \in Frames /\ id \in Ids /\ id.src = c /\ id.n = written[c] + 1
      /\ e.n = written[c] + 1 /\ e.type = f.type /\ e.msg = f.msg /\ Id(c, e) = id
  BY <1>2, BrokerAssumption DEF Frames, Ids, Sources, BrokerAssumption, Id
<1>4. \A o \in new : o[2] = id
  OBVIOUS
<1>5. \A d : <<d, id>> \in new => f.type = "PUB" /\ ForThisNode(f.msg) /\ Wanted(d, c, f.msg)
  BY <1>2, WantedMeansCopies
<1> HIDE DEF new, id, e
<1>6. \A src \in Sources : LastOf(src) \in Nat /\ LastOf(src)' = IF src = c THEN LastOf(src) + 1 ELSE LastOf(src)
  BY <1>1, <1>2 DEF LastOf, TypeOK, Sources
<1>7. /\ Pending(c)' \subseteq Pending(c) \cup {e}
      /\ \A d \in Clients \ {c} : Pending(d)' = Pending(d)
  <2>1. sock[c] \in Seq(Frames) /\ sock'[c] = Append(sock[c], e)
        /\ \A d \in Clients \ {c} : sock'[d] = sock[d]
    BY <1>1, <1>2 DEF TypeOK
  <2>2. 0 \in 0 .. Len(sock[c])  BY <2>1, LenProperties
  <2>3. ToSet(Append(sock[c], e)) \subseteq ToSet(sock[c]) \cup {e}  BY <1>3, <2>1, <2>2, Elements
  <2>4. QED  BY <1>1, <2>1, <2>3 DEF Pending
<1>8. \A d \in Clients : \A g \in Pending(d) : g.n \in Nat /\ g.n <= written[d]
  <2>1. \A d \in Clients : ToSet(sock[d]) \subseteq Frames /\ ToSet(rx[d]) \subseteq Frames
    <3>1. \A s \in Seq(Frames) : ToSet(s) \subseteq Frames  BY ElementOfSeq, LenProperties DEF ToSet
    <3>2. QED  BY <1>2, <3>1 DEF TypeOK
  <2>2. \A g \in Frames : g.n \in Nat  BY DEF Frames
  <2>3. QED  BY <2>1, <2>2 DEF Handed, Numbered, Pending
<1>9. \A o \in owed : o[2] # id
  <2>1. \A o \in owed : o[2].n <= LastOf(o[2].src)  BY DEF Handed, Numbered
  <2>2. LastOf(c) = written[c]  BY <1>2 DEF LastOf
  <2>3. QED  BY <1>2, <1>3, <2>1, <2>2
<1>10. id \notin done
  <2>1. \A i \in done : i.n <= LastOf(i.src)  BY DEF Handed, Numbered
  <2>2. LastOf(c) = written[c]  BY <1>2 DEF LastOf
  <2>3. QED  BY <1>2, <1>3, <2>1, <2>2
<1>11. Numbered'
  <2>1. \A o \in owed' : o[2].n <= LastOf(o[2].src)'
    <3> SUFFICES ASSUME NEW o \in owed'  PROVE o[2].n <= LastOf(o[2].src)'
      OBVIOUS
    <3>1. CASE o \in owed
      <4>1. o[2] \in Ids /\ o[2].n <= LastOf(o[2].src)  BY <1>2, <3>1 DEF Handed, Numbered, TypeOK
      <4>2. o[2].n \in Nat /\ o[2].src \in Sources  BY <4>1 DEF Ids
      <4>3. QED  BY <4>1, <4>2, <1>6
    <3>2. CASE o[2] = id
      <4>1. c \in Sources /\ LastOf(c)' = written[c] + 1  BY <1>2, <1>6 DEF LastOf, Sources
      <4>2. QED  BY <4>1, <3>2, <1>2, <1>3
    <3>3. QED  BY <1>1, <1>4, <3>1, <3>2
  <2>2. \A i \in done' : i.n <= LastOf(i.src)'
    <3> SUFFICES ASSUME NEW i \in done  PROVE i.n <= LastOf(i.src)'
      BY <1>1
    <3>1. i \in Ids /\ i.n <= LastOf(i.src)  BY <1>2 DEF Handed, Numbered, TypeOK
    <3>2. i.n \in Nat /\ i.src \in Sources  BY <3>1 DEF Ids
    <3>3. QED  BY <3>1, <3>2, <1>6
  <2>3. \A d \in Clients : \A g \in Pending(d)' : g.n <= written'[d]
    <3> SUFFICES ASSUME NEW d \in Clients, NEW g \in Pending(d)'  PROVE g.n <= written'[d]
      OBVIOUS
    <3>1. written[d] \in Nat /\ written'[d] \in {written[d], written[d] + 1} /\ written'[c] = written[c] + 1
      BY <1>1, <1>2 DEF TypeOK
    <3>2. CASE g \in Pending(d)  BY <1>8, <3>1, <3>2
    <3>3. CASE d = c /\ g = e  BY <1>2, <1>3, <3>1, <3>3
    <3>4. QED  BY <1>7, <3>2, <3>3
  <2>4. QED  BY <2>1, <2>2, <2>3 DEF Numbered
<1>12. Meant'
  <2> SUFFICES ASSUME NEW p \in Clients, NEW d \in Clients, NEW g \in Pending(p)',
                      <<d, Id(p, g)>> \in owed'
               PROVE  g.type = "PUB" /\ ForThisNode(g.msg) /\ Wanted(d, p, g.msg)'
    BY DEF Meant
  <2>0. \A m : Wanted(d, p, m)' = Wanted(d, p, m)  BY <1>1 DEF Wanted
  <2>1. CASE g \in Pending(p)
    <3>1. Id(p, g) # id  BY <1>2, <1>3, <1>8, <2>1 DEF Id
    <3>2. <<d, Id(p, g)>> \in owed  BY <1>1, <1>4, <3>1
    <3>3. QED  BY <2>0, <2>1, <3>2 DEF Handed, Meant
  <2>2. CASE p = c /\ g = e
    <3>1. <<d, id>> \in new  BY <1>1, <1>3, <1>9, <2>2
    <3>2. QED  BY <1>3, <1>5, <2>0, <2>2, <3>1
  <2>3. QED  BY <1>7, <2>1, <2>2
<1>13. NoLoss'
  <2>1. \A o \in owed' : o[2] \in done' => o \in owed  BY <1>1, <1>4, <1>10
  <2>2. QED  BY <1>1, <2>1 DEF Handed, NoLoss
<1>14. QED  BY <1>11, <1>12, <1>13

\* A message arrives: it is acknowledged only when no subscriber was starved.
LEMMA ArriveStep ==
  ASSUME Handed, NEW a \in Arrivals, Arrive(a), \A c \in Clients : Pending(c)' \subseteq Pending(c)
  PROVE  (Numbered /\ Meant /\ NoLoss)'
<1> DEFINE m   == a.msg
           id  == [src |-> Network, n |-> arrived + 1]
           new == IF ForThisNode(m)
                  THEN {<<d, id>> : d \in {d \in Clients : Copies(d, Network, m) > 0}} ELSE {}
<1>1. /\ arrived' = arrived + 1 /\ owed' = owed \cup new
      /\ done' \subseteq done \cup {id}
      /\ UNCHANGED <<written, subs>>
  BY DEF Arrive
<1>2. /\ TypeOK /\ arrived \in Nat /\ Network \notin Clients
  BY BrokerAssumption DEF Handed, TypeOK, BrokerAssumption
<1>3. id \in Ids /\ id.src = Network /\ id.n = arrived + 1  BY <1>2 DEF Ids, Sources
<1>4. got \subseteq got'  BY DEF Arrive, DeliverLocal
<1>5. ASSUME id \in done', id \notin done, ForThisNode(m)
      PROVE  ~Starved(Network, m) /\ DeliverLocal(id, m)
  <2>1. DeliverLocal(id, m)  BY <1>5 DEF Arrive
  <2>2. ~Starved(Network, m)  BY <1>5 DEF Arrive, Acknowledges
  <2>3. QED  BY <2>1, <2>2
<1>6. \A o \in new : o[2] = id
  OBVIOUS
<1>7. ASSUME NEW o \in new
      PROVE  ForThisNode(m) /\ o = <<o[1], id>> /\ o[1] \in Clients /\ Wanted(o[1], Network, m)
  BY <1>2, <1>7, WantedMeansCopies
<1>8. ASSUME ForThisNode(m), ~Starved(Network, m), DeliverLocal(id, m)
      PROVE  \A d \in Clients : Wanted(d, Network, m) => <<d, id>> \in got'
  <2>1. \A d \in Clients : Wanted(d, Network, m) => d \in Reached(Network, m)
    BY <1>2, <1>8, NobodyMissed
  <2>2. QED  BY <1>3, <1>8, <2>1 DEF DeliverLocal
<1> HIDE DEF new, id, m
<1>9. \A src \in Sources : LastOf(src) \in Nat /\ LastOf(src)' = IF src = Network THEN LastOf(src) + 1 ELSE LastOf(src)
  BY <1>1, <1>2 DEF LastOf, TypeOK, Sources
<1>10. LastOf(Network) = arrived /\ LastOf(Network)' = arrived + 1  BY <1>1 DEF LastOf
<1>11. \A o \in owed : o[2] \in Ids /\ o[2].n \in Nat /\ o[2].src \in Sources /\ o[2].n <= LastOf(o[2].src)
  BY <1>2 DEF Handed, Numbered, TypeOK, Ids
<1>12. \A i \in done : i \in Ids /\ i.n \in Nat /\ i.src \in Sources /\ i.n <= LastOf(i.src)
  BY <1>2 DEF Handed, Numbered, TypeOK, Ids
<1>13. id \notin done /\ \A o \in owed : o[2] # id
  BY <1>2, <1>3, <1>10, <1>11, <1>12
<1>14. Numbered'
  <2>1. \A o \in owed' : o[2].n <= LastOf(o[2].src)'
    BY <1>1, <1>2, <1>3, <1>6, <1>9, <1>10, <1>11
  <2>2. \A i \in done' : i.n <= LastOf(i.src)'
    BY <1>1, <1>2, <1>3, <1>9, <1>10, <1>12
  <2>3. \A c \in Clients : \A f \in Pending(c)' : f.n <= written'[c]
    BY <1>1 DEF Handed, Numbered
  <2>4. QED  BY <2>1, <2>2, <2>3 DEF Numbered
<1>15. Meant'
  <2> SUFFICES ASSUME NEW c \in Clients, NEW d \in Clients, NEW f \in Pending(c)',
                      <<d, Id(c, f)>> \in owed'
               PROVE  f.type = "PUB" /\ ForThisNode(f.msg) /\ Wanted(d, c, f.msg)'
    BY DEF Meant
  <2>1. Id(c, f) # id  BY <1>2, <1>3 DEF Id
  <2>2. <<d, Id(c, f)>> \in owed  BY <1>1, <1>6, <2>1
  <2>3. Wanted(d, c, f.msg)' = Wanted(d, c, f.msg)  BY <1>1 DEF Wanted
  <2>4. QED  BY <2>2, <2>3 DEF Handed, Meant
<1>16. NoLoss'
  <2> SUFFICES ASSUME NEW o \in owed', o[2] \in done'  PROVE o \in got'
    BY DEF NoLoss
  <2>1. CASE o \in owed
    <3>1. o[2] \in done  BY <1>1, <1>13, <2>1
    <3>2. QED  BY <1>4, <2>1, <3>1 DEF Handed, NoLoss
  <2>2. CASE o \in new
    <3>1. o[2] = id /\ ForThisNode(m) /\ o = <<o[1], id>> /\ o[1] \in Clients /\ Wanted(o[1], Network, m)
      BY <1>6, <1>7, <2>2
    <3>2. ~Starved(Network, m) /\ DeliverLocal(id, m)  BY <1>5, <1>13, <3>1
    <3>3. <<o[1], id>> \in got'  BY <1>8, <3>1, <3>2
    <3>4. QED  BY <3>1, <3>3
  <2>3. QED  BY <1>1, <2>1, <2>2
<1>17. QED  BY <1>14, <1>15, <1>16

\* Every step of the broker, its clients and its transports keeps the invariant.
LEMMA HandedStep == Handed /\ [Next]_vars => Handed'
<1> SUFFICES ASSUME Handed, [Next]_vars  PROVE Handed'
  OBVIOUS
<1> USE DEF daemon, buffers, history
<1>0. (TypeOK /\ Lists)'  BY TypesStep, ListsStep DEF Handed
<1>1. CASE \E c \in Clients : \E f \in Menu[c] : Write(c, f)
  BY <1>0, <1>1, WriteStep DEF Handed
<1>2. CASE ~ \E c \in Clients : \E f \in Menu[c] : Write(c, f)
  <2>0. \A c \in Clients : Pending(c)' \subseteq Pending(c)  BY <1>2, PendingStep DEF Handed
  <2>1. ASSUME UNCHANGED <<written, arrived, owed, done>>, subs \subseteq subs', got \subseteq got'
        PROVE  Handed'
    BY <1>0, <2>0, <2>1, QuietStep DEF Handed
  <2>2. ASSUME NEW a \in Arrivals, Arrive(a)  PROVE Handed'
    BY <1>0, <2>0, <2>2, ArriveStep DEF Handed
  <2>3. ASSUME NEW c \in Clients, Accept(c) \/ ClientEvent(c) \/ Take(c) \/ HangUp(c)  PROVE Handed'
    BY <2>1, <2>3 DEF Accept, ClientEvent, Take, HangUp
  <2>4. ASSUME NEW c \in Clients, Close(c)  PROVE Handed'
    BY <1>0, <2>0, <2>4, CloseStep DEF Handed
  <2>5. CASE FlushFails \/ ReadEof
    <3>1. me \in Clients /\ Close(me)
      BY <2>5 DEF FlushFails, ReadEof, Handed, Lists, WorksOnOpenClients
    <3>2. QED  BY <2>4, <3>1
  <2>6. CASE FrameFatal
    <3>1. Current \in Clients /\ Close(Current)
      BY <2>6, CurrentProperties DEF FrameFatal, AtFrame, Handed
    <3>2. QED  BY <2>4, <3>1
  <2>7. CASE FrameDone  BY <1>0, <2>0, <2>7, FrameDoneStep DEF Handed
  <2>8. CASE FrameBlocked \/ FrameUnroutable
    <3>1. subs \subseteq subs' /\ got \subseteq got'
      BY <2>8, ApplyGrows DEF FrameBlocked, FrameUnroutable
    <3>2. UNCHANGED <<written, arrived, owed, done>>  BY <2>8 DEF FrameBlocked, FrameUnroutable
    <3>3. QED  BY <2>1, <3>1, <3>2
  <2>9. CASE Flush \/ Read \/ ReadNothing \/ NoFrame \/ ResumeEnd
    BY <2>1, <2>9 DEF Flush, Read, ReadNothing, NoFrame, ResumeEnd
  <2>10. CASE UNCHANGED vars  BY <2>1, <2>10 DEF vars
  <2>11. CASE Handler
    BY <2>11, <2>5, <2>6, <2>7, <2>8, <2>9 DEF Handler
  <2>12. QED  BY <1>2, <2>2, <2>3, <2>10, <2>11, Zenon DEF Next
<1>3. QED  BY <1>1, <1>2

\* message_bus.c and client_manager.c: no frame counts as handled, and no inbound
\* message is acknowledged, while a full subscriber has still to get its copy, for
\* any number of clients, any frames and any capacity.
THEOREM NothingIsLost == Spec => []NoLoss
<1>1. Init => Handed  BY InitHanded
<1>2. Handed /\ [Next]_vars => Handed'  BY HandedStep
<1>3. Handed => NoLoss  BY DEF Handed
<1>4. QED  BY <1>1, <1>2, <1>3, PTL DEF Spec

-----------------------------------------------------------------------------
(* What process_one_message and deliver_to_client do to each client          *)

\* A delivery arms EPOLLOUT for those whose tx_buf grew and touches nobody else.
LEMMA DeliveryEffect ==
  ASSUME TypeOK, NEW id \in Ids, NEW m, DeliverLocal(id, m), NEW d \in Clients
  PROVE  /\ d \notin ToSet(clients) => tx'[d] = tx[d] /\ armed'[d] = armed[d]
         /\ armed'[d] <=> armed[d] \/ Len(tx'[d]) > Len(tx[d])
         /\ Len(tx'[d]) >= Len(tx[d])
<1>1. /\ d \notin ToSet(clients) => tx'[d] = tx[d] /\ armed'[d] = armed[d]
      /\ Len(tx'[d]) > Len(tx[d]) <=> d \in Reached(id.src, m)
      /\ Len(tx'[d]) >= Len(tx[d])
  BY BrokerAssumption, DeliverLocalProperties
<1>2. armed'[d] = (armed[d] \/ d \in Reached(id.src, m))  BY DEF DeliverLocal
<1>3. armed[d] \in BOOLEAN  BY DEF TypeOK
<1>4. QED  BY <1>1, <1>2, <1>3, Zenon

\* The same for a frame, which may also add a subscription of its own client.
LEMMA ApplyEffect ==
  ASSUME TypeOK, Lists, AtFrame, NEW net, Apply(net)
  PROVE  /\ \A d \in Clients :
              /\ d \notin ToSet(clients) => tx'[d] = tx[d] /\ armed'[d] = armed[d]
              /\ armed'[d] <=> armed[d] \/ Len(tx'[d]) > Len(tx[d])
              /\ Len(tx'[d]) >= Len(tx[d])
         /\ \A s \in subs' : s \in subs \/ s.fd = Current
<1>0. Current \in Clients /\ Id(Current, Frame) \in Ids  BY CurrentProperties DEF AtFrame
<1>1. ASSUME tx' = tx, armed' = armed, NEW d \in Clients
      PROVE  /\ armed'[d] <=> armed[d] \/ Len(tx'[d]) > Len(tx[d])
             /\ Len(tx'[d]) >= Len(tx[d])
  <2>1. Len(tx[d]) \in Nat  BY LenProperties DEF TypeOK
  <2>2. ~(Len(tx'[d]) > Len(tx[d])) /\ Len(tx'[d]) >= Len(tx[d])  BY <1>1, <2>1
  <2>3. QED  BY <1>1, <2>2, Zenon
<1>2. CASE Frame.type = "PUB" /\ Frame.msg.topic # <<>>
  <2>1. Publish(Id(Current, Frame), Frame.msg, net) /\ subs' = subs  BY <1>2 DEF Apply
  <2>2. CASE ForThisNode(Frame.msg)
    <3>1. DeliverLocal(Id(Current, Frame), Frame.msg)  BY <2>1, <2>2 DEF Publish
    <3>2. QED  BY <1>0, <2>1, <3>1, DeliveryEffect, Zenon
  <2>3. CASE ~ForThisNode(Frame.msg)
    <3>1. tx' = tx /\ armed' = armed  BY <2>1, <2>3 DEF Publish
    <3>2. QED  BY <1>1, <2>1, <3>1, Zenon
  <2>4. QED  BY <2>2, <2>3
<1>3. CASE ~(Frame.type = "PUB" /\ Frame.msg.topic # <<>>)
  <2>1. tx' = tx /\ armed' = armed  BY <1>3 DEF Apply
  <2>2. \A s \in subs' : s \in subs \/ s.fd = Current  BY <1>3 DEF Apply, Subscribe
  <2>3. QED  BY <1>1, <2>1, <2>2, Zenon
<1>4. QED  BY <1>2, <1>3

-----------------------------------------------------------------------------
(* Nothing survives close_client                                             *)

\* A descriptor that nobody has holds nothing.
Blank(c) ==
  /\ \A s \in subs : s.fd # c
  /\ sock[c] = <<>> /\ rx[c] = <<>> /\ tx[c] = <<>> /\ out[c] = <<>>
  /\ ~armed[c]

Blanks == \A c \in Clients : link[c] = "none" => Blank(c)

\* Steps that touch only clients which are connected.
LEMMA BlanksStep ==
  ASSUME TypeOK, Lists, Blanks, [Next]_vars
  PROVE  Blanks'
<1> USE DEF daemon, buffers, history
<1>1. ASSUME UNCHANGED <<subs, sock, rx, tx, out, armed>>,
             \A c \in Clients : link'[c] = "none" => link[c] = "none"
      PROVE  Blanks'
  BY <1>1 DEF Blanks, Blank
<1>2. ASSUME NEW c \in Clients, Close(c)  PROVE Blanks'
  <2> SUFFICES ASSUME NEW d \in Clients, link'[d] = "none"  PROVE Blank(d)'
    BY DEF Blanks
  <2>1. CASE d = c
    <3>1. /\ sock'[c] = <<>> /\ rx'[c] = <<>> /\ tx'[c] = <<>> /\ out'[c] = <<>>
          /\ armed'[c] = FALSE
      BY <1>2 DEF Close, TypeOK
    <3>2. \A s \in subs' : s.fd # c  BY <1>2 DEF Close, SubsWithout
    <3>3. QED  BY <2>1, <3>1, <3>2 DEF Blank
  <2>2. CASE d # c
    <3>1. /\ sock'[d] = sock[d] /\ rx'[d] = rx[d] /\ tx'[d] = tx[d] /\ out'[d] = out[d]
          /\ armed'[d] = armed[d] /\ link'[d] = link[d]
      BY <1>2, <2>2 DEF Close, TypeOK
    <3>2. subs' \subseteq subs  BY <1>2 DEF Close, SubsWithout
    <3>3. Blank(d)  BY <3>1 DEF Blanks
    <3>4. QED  BY <3>1, <3>2, <3>3 DEF Blank
  <2>3. QED  BY <2>1, <2>2
<1>3. ASSUME NEW c \in Clients, link[c] # "none", UNCHANGED <<subs, link>>,
             \A d \in Clients \ {c} : sock'[d] = sock[d] /\ rx'[d] = rx[d] /\ tx'[d] = tx[d]
                                      /\ out'[d] = out[d] /\ armed'[d] = armed[d]
      PROVE  Blanks'
  BY <1>3 DEF Blanks, Blank
<1>4. ASSUME NEW c \in Clients, Accept(c) \/ ClientEvent(c) \/ HangUp(c)  PROVE Blanks'
  <2>1. UNCHANGED <<subs, sock, rx, tx, out, armed>>  BY <1>4 DEF Accept, ClientEvent, HangUp
  <2>2. \A d \in Clients : link'[d] = "none" => link[d] = "none"
    BY <1>4 DEF Accept, ClientEvent, HangUp, TypeOK
  <2>3. QED  BY <1>1, <2>1, <2>2
<1>5. ASSUME NEW c \in Clients, Take(c)  PROVE Blanks'
  BY <1>3, <1>5 DEF Take, TypeOK
<1>6. ASSUME NEW c \in Clients, NEW f \in Menu[c], Write(c, f)  PROVE Blanks'
  BY <1>3, <1>6 DEF Write, TypeOK
<1>7. CASE Flush
  <2>1. me \in Clients /\ link[me] # "none"  BY <1>7 DEF Flush, Lists, WorksOnOpenClients
  <2>2. QED  BY <1>3, <1>7, <2>1 DEF Flush, TypeOK
<1>8. CASE Read
  <2>1. me \in Clients /\ link[me] # "none"  BY <1>8 DEF Read, Lists, WorksOnOpenClients
  <2>2. QED  BY <1>3, <1>8, <2>1 DEF Read, TypeOK
<1>9. CASE ReadNothing \/ NoFrame \/ ResumeEnd
  BY <1>1, <1>9 DEF ReadNothing, NoFrame, ResumeEnd
<1>10. CASE FlushFails \/ ReadEof
  <2>1. me \in Clients /\ Close(me)  BY <1>10 DEF FlushFails, ReadEof, Lists, WorksOnOpenClients
  <2>2. QED  BY <1>2, <2>1
<1>11. CASE FrameFatal
  <2>1. Current \in Clients /\ Close(Current)  BY <1>11, CurrentProperties DEF FrameFatal, AtFrame
  <2>2. QED  BY <1>2, <2>1
<1>12. CASE FrameDone \/ FrameBlocked \/ FrameUnroutable
  <2>1. AtFrame /\ link' = link /\ sock' = sock /\ out' = out
    BY <1>12 DEF FrameDone, FrameBlocked, FrameUnroutable
  <2>2. PICK net \in SendResults : Apply(net)  BY <1>12 DEF FrameDone, FrameBlocked, FrameUnroutable
  <2>3. Current \in Clients /\ link[Current] # "none"  BY <2>1, CurrentProperties DEF AtFrame
  <2>4. \A d \in Clients \ {Current} : rx'[d] = rx[d]
    BY <1>12, <2>3 DEF FrameDone, FrameBlocked, FrameUnroutable, KeepFrame, TypeOK
  <2> SUFFICES ASSUME NEW d \in Clients, link'[d] = "none"  PROVE Blank(d)'
    BY DEF Blanks
  <2>5. link[d] = "none" /\ d # Current /\ d \notin ToSet(clients) /\ Blank(d)
    BY <2>1, <2>3 DEF Blanks, Lists
  <2>6. tx'[d] = tx[d] /\ armed'[d] = armed[d]  BY <2>1, <2>2, <2>5, ApplyEffect
  <2>7. \A s \in subs' : s \in subs \/ s.fd = Current  BY <2>1, <2>2, ApplyEffect
  <2>8. rx'[d] = rx[d]  BY <2>4, <2>5
  <2>9. QED  BY <2>1, <2>5, <2>6, <2>7, <2>8 DEF Blank
<1>13. ASSUME NEW a \in Arrivals, Arrive(a)  PROVE Blanks'
  <2> DEFINE id == [src |-> Network, n |-> arrived + 1]
  <2>1. UNCHANGED <<subs, link, sock, rx, out>>  BY <1>13 DEF Arrive
  <2>2. \/ DeliverLocal(id, a.msg)
        \/ UNCHANGED <<tx, armed>>
    BY <1>13 DEF Arrive
  <2>3. id \in Ids  BY DEF TypeOK, Ids, Sources
  <2> HIDE DEF id
  <2> SUFFICES ASSUME NEW d \in Clients, link'[d] = "none"  PROVE Blank(d)'
    BY DEF Blanks
  <2>4. d \notin ToSet(clients) /\ Blank(d)  BY <2>1 DEF Blanks, Lists
  <2>5. tx'[d] = tx[d] /\ armed'[d] = armed[d]  BY <2>2, <2>3, <2>4, DeliveryEffect
  <2>6. QED  BY <2>1, <2>4, <2>5 DEF Blank
<1>14. CASE UNCHANGED vars  BY <1>1, <1>14 DEF vars
<1>15. CASE Handler
  BY <1>15, <1>7, <1>8, <1>9, <1>10, <1>11, <1>12 DEF Handler
<1>16. QED  BY <1>4, <1>5, <1>6, <1>13, <1>14, <1>15, Zenon DEF Next

\* close_client and bc_message_bus_remove_client leave no subscription, no byte in
\* either direction and no watch for EPOLLOUT to the next client with the descriptor.
THEOREM DescriptorsStartAfresh == Spec => []NothingSurvivesClose
<1>1. Init => Blanks  BY DEF Init, Blanks, Blank
<1>2. TypeOK /\ Lists /\ Blanks /\ [Next]_vars => Blanks'  BY BlanksStep
<1>3. Lists /\ Blanks => NothingSurvivesClose  BY DEF Lists, Blanks, Blank, NothingSurvivesClose
<1>4. QED  BY <1>1, <1>2, <1>3, Types, PTL DEF Spec

-----------------------------------------------------------------------------
(* EPOLLOUT                                                                  *)

LEMMA ArmedStep ==
  ASSUME TypeOK, Lists, ArmedWhileQueued, [Next]_vars
  PROVE  ArmedWhileQueued'
<1> USE DEF daemon, buffers, history
<1>0. \A d \in Clients : /\ Len(tx[d]) \in Nat /\ (tx[d] = <<>> <=> Len(tx[d]) = 0)
                         /\ (armed[d] <=> Len(tx[d]) > 0)
  BY LenProperties, EmptySeq DEF TypeOK, ArmedWhileQueued
<1>1. TypeOK'  BY TypesStep
<1>2. \A d \in Clients : Len(tx'[d]) \in Nat /\ (tx'[d] = <<>> <=> Len(tx'[d]) = 0)
  BY <1>1, LenProperties, EmptySeq DEF TypeOK
<1>3. ASSUME \A d \in Clients : armed'[d] <=> Len(tx'[d]) > 0  PROVE ArmedWhileQueued'
  BY <1>2, <1>3 DEF ArmedWhileQueued
<1>4. ASSUME UNCHANGED <<tx, armed>>  PROVE ArmedWhileQueued'
  BY <1>4 DEF ArmedWhileQueued
<1>5. ASSUME NEW c \in Clients, Close(c)  PROVE ArmedWhileQueued'
  BY <1>5 DEF Close, TypeOK, ArmedWhileQueued
<1>6. ASSUME \A d \in Clients : /\ armed'[d] <=> armed[d] \/ Len(tx'[d]) > Len(tx[d])
                                /\ Len(tx'[d]) >= Len(tx[d])
      PROVE  ArmedWhileQueued'
  <2>1. \A d \in Clients : Len(tx'[d]) > 0 <=> Len(tx[d]) > 0 \/ Len(tx'[d]) > Len(tx[d])
    BY <1>0, <1>2, <1>6
  <2>2. \A d \in Clients : armed'[d] <=> Len(tx'[d]) > 0  BY <1>0, <1>6, <2>1
  <2>3. QED  BY <1>3, <2>2
<1>7. CASE Flush
  <2> DEFINE k == Least({Len(tx[me]), SockCap - Len(out[me])})
  <2>1. me \in Clients  BY <1>7 DEF Flush, Lists, WorksOnOpenClients
  <2>2. /\ tx[me] \in Seq(Ids) /\ Len(tx[me]) \in Nat /\ SockCap - Len(out[me]) \in Nat
    BY <2>1, LenProperties, BrokerAssumption DEF TypeOK, BrokerAssumption
  <2>3. k \in 0 .. Len(tx[me])  BY <2>2, LeastBounds, Zenon DEF k
  <2>4. /\ tx' = [tx EXCEPT ![me] = SubSeq(@, k + 1, Len(@))]
        /\ armed' = [armed EXCEPT ![me] = WatchesOn(Len(tx[me]) - k)]
    BY <1>7 DEF Flush
  <2> HIDE DEF k
  <2>5. Len(SubSeq(tx[me], k + 1, Len(tx[me]))) = Len(tx[me]) - k  BY <2>2, <2>3, SplitProperties
  <2>6. /\ Len(tx'[me]) = Len(tx[me]) - k /\ armed'[me] = (Len(tx[me]) - k > 0)
        /\ \A d \in Clients \ {me} : tx'[d] = tx[d] /\ armed'[d] = armed[d]
    BY <2>1, <2>4, <2>5 DEF WatchesOn, TypeOK
  <2>7. armed'[me] <=> Len(tx'[me]) > 0  BY <2>6, Zenon
  <2>8. QED  BY <1>0, <1>3, <2>6, <2>7
<1>8. CASE FlushFails \/ ReadEof
  <2>1. me \in Clients /\ Close(me)  BY <1>8 DEF FlushFails, ReadEof, Lists, WorksOnOpenClients
  <2>2. QED  BY <1>5, <2>1
<1>9. CASE FrameFatal
  <2>1. Current \in Clients /\ Close(Current)  BY <1>9, CurrentProperties DEF FrameFatal, AtFrame
  <2>2. QED  BY <1>5, <2>1
<1>10. CASE FrameDone \/ FrameBlocked \/ FrameUnroutable
  <2>1. AtFrame  BY <1>10 DEF FrameDone, FrameBlocked, FrameUnroutable
  <2>2. PICK net \in SendResults : Apply(net)  BY <1>10 DEF FrameDone, FrameBlocked, FrameUnroutable
  <2>3. QED  BY <1>6, <2>1, <2>2, ApplyEffect, Zenon
<1>11. ASSUME NEW a \in Arrivals, Arrive(a)  PROVE ArmedWhileQueued'
  <2> DEFINE id == [src |-> Network, n |-> arrived + 1]
  <2>1. DeliverLocal(id, a.msg) \/ UNCHANGED <<tx, armed>>  BY <1>11 DEF Arrive
  <2>2. id \in Ids  BY DEF TypeOK, Ids, Sources
  <2> HIDE DEF id
  <2>3. QED  BY <1>4, <1>6, <2>1, <2>2, DeliveryEffect, Zenon
<1>12. CASE Read \/ ReadNothing \/ NoFrame \/ ResumeEnd
  BY <1>4, <1>12 DEF Read, ReadNothing, NoFrame, ResumeEnd
<1>13. ASSUME NEW c \in Clients,
              Accept(c) \/ ClientEvent(c) \/ Take(c) \/ HangUp(c) \/ \E f \in Menu[c] : Write(c, f)
       PROVE  ArmedWhileQueued'
  BY <1>4, <1>13 DEF Accept, ClientEvent, Take, HangUp, Write
<1>14. CASE UNCHANGED vars  BY <1>4, <1>14 DEF vars
<1>15. CASE Handler
  BY <1>15, <1>7, <1>8, <1>9, <1>10, <1>12 DEF Handler
<1>16. QED  BY <1>11, <1>13, <1>14, <1>15, Zenon DEF Next

\* update_client_events never loses the bit: whoever has something queued is
\* watched for EPOLLOUT, and nobody else is.
THEOREM WatchedWhileQueued == Spec => []ArmedWhileQueued
<1>1. Init => ArmedWhileQueued  BY DEF Init, ArmedWhileQueued
<1>2. TypeOK /\ Lists /\ ArmedWhileQueued /\ [Next]_vars => ArmedWhileQueued'  BY ArmedStep
<1>3. QED  BY <1>1, <1>2, Types, PTL DEF Spec
-----------------------------------------------------------------------------
(* QoS 1                                                                     *)

\* The property of one step
HandedOverNow ==
  \A c \in Clients :
    (rx[c] # <<>> /\ Id(c, Head(rx[c])) \in done' \ done) =>
      LET f == Head(rx[c])
      IN  (f.type = "PUB" /\ f.msg.qos = 1 /\ NeedsNetwork(f.msg) /\ Route(f.msg) # NoTransport) =>
            Id(c, f) \in netSent' \/ \E d \in Clients : <<d, Id(c, f)>> \in got'

LEMMA HandOverStep ==
  ASSUME [Next]_vars
  PROVE  [HandedOverNow]_vars
<1> SUFFICES ASSUME Next, NEW c \in Clients, rx[c] # <<>>, Id(c, Head(rx[c])) \in done',
                    Id(c, Head(rx[c])) \notin done,
                    Head(rx[c]).type = "PUB", Head(rx[c]).msg.qos = 1,
                    NeedsNetwork(Head(rx[c]).msg), Route(Head(rx[c]).msg) # NoTransport
             PROVE  \/ Id(c, Head(rx[c])) \in netSent'
                    \/ \E d \in Clients : <<d, Id(c, Head(rx[c]))>> \in got'
  BY DEF HandedOverNow
<1> DEFINE f == Head(rx[c])
<1> USE DEF daemon, buffers, history
<1>1. CASE FrameDone
  <2>1. PICK net \in SendResults : FrameResult(net) = "OK" /\ Apply(net)  BY <1>1 DEF FrameDone
  <2>2. Id(c, f) = Id(Current, Frame)  BY <1>1 DEF FrameDone
  <2>3. c = Current /\ f = Frame  BY <2>2 DEF Id, Frame
  <2> HIDE DEF f
  <2>4. f.msg.topic # <<>> /\ PublishResult(c, f.msg, net) = "OK"
    BY <2>1, <2>3 DEF FrameResult, f
  <2>5. Publish(Id(c, f), f.msg, net)  BY <2>1, <2>3, <2>4 DEF Apply, f
  <2>6. CASE net = "OK"  BY <2>5, <2>6 DEF Publish, f
  <2>7. CASE net # "OK"
    <3>1. ForThisNode(f.msg) /\ Reached(c, f.msg) # {}  BY <2>4, <2>7 DEF PublishResult, f
    <3>2. DeliverLocal(Id(c, f), f.msg) /\ Id(c, f).src = c  BY <2>5, <3>1 DEF Publish, Id
    <3>3. PICK d \in Clients : d \in Reached(c, f.msg)  BY <3>1 DEF Reached
    <3>4. <<d, Id(c, f)>> \in got'  BY <3>2, <3>3 DEF DeliverLocal
    <3>5. QED  BY <3>4 DEF f
  <2>8. QED  BY <2>6, <2>7
<1>2. ASSUME NEW a \in Arrivals, Arrive(a)  PROVE FALSE
  <2>1. done' \subseteq done \cup {[src |-> Network, n |-> arrived + 1]}  BY <1>2 DEF Arrive
  <2>2. c = Network  BY <2>1 DEF Id
  <2>3. QED  BY <2>2, BrokerAssumption DEF BrokerAssumption
<1>3. ASSUME done' = done  PROVE FALSE  BY <1>3
<1>4. CASE FlushFails \/ ReadEof \/ FrameFatal
  BY <1>3, <1>4 DEF FlushFails, ReadEof, FrameFatal, Close
<1>5. CASE Flush \/ Read \/ ReadNothing \/ FrameBlocked \/ FrameUnroutable \/ NoFrame \/ ResumeEnd
  BY <1>3, <1>5 DEF Flush, Read, ReadNothing, FrameBlocked, FrameUnroutable, NoFrame, ResumeEnd
<1>6. ASSUME NEW p \in Clients,
             Accept(p) \/ ClientEvent(p) \/ Take(p) \/ HangUp(p) \/ \E g \in Menu[p] : Write(p, g)
      PROVE  FALSE
  BY <1>3, <1>6 DEF Accept, ClientEvent, Take, HangUp, Write
<1>7. QED  BY <1>1, <1>2, <1>4, <1>5, <1>6, Zenon DEF Next, Handler

\* bc_message_bus_publish: a QoS 1 message with a route leaves its publisher only
\* when a transport has taken it or a local subscriber has got it.
THEOREM QosOneIsHandedOver == Spec => QosOneHandedOver
<1>1. [Next]_vars => [HandedOverNow]_vars  BY HandOverStep
<1>2. QED  BY <1>1, PTL DEF Spec, QosOneHandedOver, HandedOverNow
-----------------------------------------------------------------------------
(* Two buffers, one behind the other                                         *)

\* u is s followed by t.
Joins(u, s, t) ==
  /\ Len(s) \in Nat /\ Len(t) \in Nat
  /\ Len(u) = Len(s) + Len(t) /\ DOMAIN u = 1 .. Len(s) + Len(t)
  /\ \A i \in 1 .. Len(s) : u[i] = s[i]
  /\ \A i \in 1 .. Len(t) : u[Len(s) + i] = t[i]
  /\ \A i \in 1 .. Len(s) + Len(t) : i \in 1 .. Len(s) \/ i - Len(s) \in 1 .. Len(t)
  /\ ToSet(u) = ToSet(s) \cup ToSet(t)

LEMMA Joined ==
  ASSUME NEW S, NEW s \in Seq(S), NEW t \in Seq(S)
  PROVE  Joins(s \o t, s, t)
<1> DEFINE a == Len(s)
           b == Len(t)
           u == s \o t
<1>1. /\ a \in Nat /\ b \in Nat /\ DOMAIN s = 1 .. a /\ DOMAIN t = 1 .. b
      /\ u \in Seq(S) /\ Len(u) = a + b
      /\ \A i \in 1 .. a + b : u[i] = IF i <= a THEN s[i] ELSE t[i - a]
  BY LenProperties, ConcatProperties
<1>2. DOMAIN u = 1 .. a + b  BY <1>1, LenProperties
<1> HIDE DEF a, b, u
<1>3. ASSUME NEW i \in 1 .. a  PROVE i \in 1 .. a + b /\ u[i] = s[i]  BY <1>1
<1>4. ASSUME NEW i \in 1 .. b  PROVE a + i \in 1 .. a + b /\ u[a + i] = t[i]
  <2>1. a + i \in 1 .. a + b /\ ~(a + i <= a) /\ (a + i) - a = i  BY <1>1
  <2>2. QED  BY <1>1, <2>1
<1>5. ASSUME NEW i \in 1 .. a + b  PROVE i \in 1 .. a \/ (i - a \in 1 .. b /\ i = a + (i - a))
  BY <1>1
<1>6. \A i \in 1 .. a + b : u[i] \in ToSet(s) \cup ToSet(t)
  <2> TAKE i \in 1 .. a + b
  <2>1. CASE i \in 1 .. a  BY <1>1, <1>3, <2>1 DEF ToSet
  <2>2. CASE i - a \in 1 .. b /\ i = a + (i - a)
    <3>1. u[a + (i - a)] = t[i - a]  BY <1>4, <2>2
    <3>2. QED  BY <1>1, <2>2, <3>1 DEF ToSet
  <2>3. QED  BY <1>5, <2>1, <2>2
<1>7. ToSet(u) = ToSet(s) \cup ToSet(t)
  <2>1. ToSet(u) \subseteq ToSet(s) \cup ToSet(t)  BY <1>2, <1>6 DEF ToSet
  <2>2. ToSet(s) \subseteq ToSet(u)  BY <1>1, <1>2, <1>3 DEF ToSet
  <2>3. ToSet(t) \subseteq ToSet(u)
    <3> SUFFICES ASSUME NEW i \in 1 .. b  PROVE t[i] \in ToSet(u)  BY <1>1 DEF ToSet
    <3>1. a + i \in DOMAIN u /\ t[i] = u[a + i]  BY <1>2, <1>4
    <3>2. QED  BY <3>1 DEF ToSet
  <2>4. QED  BY <2>1, <2>2, <2>3
<1>8. QED  BY <1>1, <1>2, <1>3, <1>4, <1>5, <1>7 DEF a, b, u, Joins

\* Moving the first frames of one buffer to the end of the one before it leaves
\* the two together as they were: a read, or a flush.
LEMMA MoveFirst ==
  ASSUME NEW S, NEW s \in Seq(S), NEW t \in Seq(S), NEW k \in 0 .. Len(t)
  PROVE  (s \o SubSeq(t, 1, k)) \o SubSeq(t, k + 1, Len(t)) = s \o t
<1> DEFINE a == SubSeq(t, 1, k)
           b == SubSeq(t, k + 1, Len(t))
<1>1. a \in Seq(S) /\ b \in Seq(S)  BY SplitProperties
<1>2. a \o b = t
  <2>1. Len(t) \in Nat  BY LenProperties
  <2>2. 1 \in 1 .. Len(t) + 1 /\ k \in 1 - 1 .. Len(t) /\ Len(t) \in k .. Len(t)  BY <2>1
  <2>3. SubSeq(t, 1, k) \o SubSeq(t, k + 1, Len(t)) = SubSeq(t, 1, Len(t))
    BY <2>2, ConcatAdjacentSubSeq
  <2>4. QED  BY <2>3, SubSeqFull
<1> HIDE DEF a, b
<1>3. (s \o a) \o b = s \o (a \o b)  BY <1>1, ConcatAssociative
<1>4. QED  BY <1>2, <1>3 DEF a, b

\* v is w without its first element.
Rest(v, w) ==
  /\ Len(w) \in Nat \ {0} /\ Len(v) = Len(w) - 1
  /\ DOMAIN w = 1 .. Len(w) /\ DOMAIN v = 1 .. Len(w) - 1
  /\ \A i \in 1 .. Len(w) - 1 : v[i] = w[i + 1]

\* Taking the first element of the first of two buffers.
LEMMA RestOfBoth ==
  ASSUME NEW S, NEW s \in Seq(S), NEW t \in Seq(S), s # <<>>
  PROVE  Rest(Tail(s) \o t, s \o t) /\ (s \o t)[1] = Head(s) /\ 1 \in DOMAIN (s \o t)
<1> DEFINE a == Len(s)
           b == Len(t)
           u == Tail(s)
           v == Tail(s) \o t
           w == s \o t
<1>1. a \in Nat \ {0} /\ b \in Nat  BY EmptySeq, LenProperties
<1>2. /\ u \in Seq(S) /\ Len(u) = a - 1 /\ Head(s) = s[1]
      /\ \A i \in 1 .. a - 1 : u[i] = s[i + 1]
  BY <1>1, HeadTailProperties
<1>3. /\ Len(w) = a + b /\ DOMAIN w = 1 .. a + b
      /\ \A i \in 1 .. a : w[i] = s[i]
      /\ \A i \in 1 .. b : w[a + i] = t[i]
  <2>1. Joins(w, s, t)  BY Joined, Zenon
  <2>2. QED  BY <2>1 DEF Joins
<1>4. /\ Len(v) = Len(u) + b /\ DOMAIN v = 1 .. Len(u) + b
      /\ \A i \in 1 .. Len(u) : v[i] = u[i]
      /\ \A i \in 1 .. b : v[Len(u) + i] = t[i]
  <2>1. Joins(v, u, t)  BY <1>2, Joined, Zenon
  <2> HIDE DEF u, v
  <2>2. QED  BY <2>1 DEF Joins
<1> HIDE DEF a, b, u, v, w
<1>5. ASSUME NEW i \in 1 .. a + b - 1  PROVE v[i] = w[i + 1]
  <2>1. CASE i <= a - 1
    <3>1. i \in 1 .. a - 1 /\ i + 1 \in 1 .. a  BY <1>1, <2>1
    <3>2. QED  BY <1>2, <1>3, <1>4, <3>1
  <2>2. CASE ~(i <= a - 1)
    <3> DEFINE j == i - (a - 1)
    <3>1. j \in 1 .. b /\ i = (a - 1) + j /\ i + 1 = a + j  BY <1>1, <2>2
    <3> HIDE DEF j
    <3>2. QED  BY <1>2, <1>3, <1>4, <3>1
  <2>3. QED  BY <2>1, <2>2
<1>6. /\ Len(w) \in Nat \ {0} /\ Len(v) = Len(w) - 1 /\ DOMAIN w = 1 .. Len(w)
      /\ DOMAIN v = 1 .. Len(w) - 1 /\ 1 \in DOMAIN w /\ 1 \in 1 .. a
      /\ Len(w) - 1 = a + b - 1
  BY <1>1, <1>2, <1>3, <1>4
<1>7. Rest(v, w)  BY <1>5, <1>6 DEF Rest
<1>8. w[1] = Head(s)  BY <1>2, <1>3, <1>6
<1>9. QED  BY <1>6, <1>7, <1>8 DEF v, w

-----------------------------------------------------------------------------
(* Order                                                                     *)

\* A path, oldest first, to a client that has read up to last[s] of each source s.
Ordered(path, last) ==
  \A i \in DOMAIN path :
    /\ last[path[i].src] <= path[i].n
    /\ \A j \in DOMAIN path : i <= j /\ path[i].src = path[j].src => path[i].n <= path[j].n

SeenIn(path, last) ==
  {path[i] : i \in DOMAIN path} \cup {[src |-> s, n |-> last[s]] : s \in Sources}

\* The client reads one.
LEMMA OrderedRest ==
  ASSUME NEW v \in Seq(Ids), NEW w \in Seq(Ids), NEW last \in [Sources -> Nat],
         Rest(v, w), Ordered(w, last)
  PROVE  /\ Ordered(v, [last EXCEPT ![w[1].src] = w[1].n])
         /\ SeenIn(v, [last EXCEPT ![w[1].src] = w[1].n]) \subseteq SeenIn(w, last)
<1> DEFINE read == [last EXCEPT ![w[1].src] = w[1].n]
           n == Len(w)
<1>1. /\ n \in Nat \ {0} /\ DOMAIN w = 1 .. n /\ DOMAIN v = 1 .. n - 1
      /\ \A i \in 1 .. n - 1 : v[i] = w[i + 1]
  BY DEF Rest
<1>2. \A i \in 1 .. n - 1 : i + 1 \in 1 .. n /\ 1 <= i + 1  BY <1>1
<1>3. 1 \in 1 .. n  BY <1>1
<1>4. \A i \in 1 .. n : w[i] \in Ids  BY <1>1, ElementOfSeq
<1>5. \A i \in 1 .. n : w[i].src \in Sources /\ w[i].n \in Nat /\ w[i] = [src |-> w[i].src, n |-> w[i].n]
  BY <1>4 DEF Ids
<1>6. \A s \in Sources : read[s] = IF s = w[1].src THEN w[1].n ELSE last[s]  OBVIOUS
<1> HIDE DEF read, n
<1>7. ASSUME NEW i \in 1 .. n - 1
      PROVE  /\ read[v[i].src] <= v[i].n
             /\ \A j \in 1 .. n - 1 : i <= j /\ v[i].src = v[j].src => v[i].n <= v[j].n
  <2>1. /\ last[w[i + 1].src] <= w[i + 1].n
        /\ w[1].src = w[i + 1].src => w[1].n <= w[i + 1].n
    BY <1>1, <1>2, <1>3 DEF Ordered
  <2>2. read[v[i].src] <= v[i].n  BY <1>1, <1>2, <1>5, <1>6, <2>1
  <2>3. ASSUME NEW j \in 1 .. n - 1, i <= j, v[i].src = v[j].src  PROVE v[i].n <= v[j].n
    <3>1. i + 1 \in 1 .. n /\ j + 1 \in 1 .. n /\ i + 1 <= j + 1  BY <1>1, <2>3
    <3>2. QED  BY <1>1, <2>3, <3>1 DEF Ordered
  <2>4. QED  BY <2>2, <2>3
<1>8. Ordered(v, read)  BY <1>1, <1>7 DEF Ordered
<1>9. SeenIn(v, read) \subseteq SeenIn(w, last)
  <2>1. \A i \in 1 .. n - 1 : v[i] \in SeenIn(w, last)  BY <1>1, <1>2 DEF SeenIn
  <2>2. w[1] \in SeenIn(w, last)  BY <1>1, <1>3 DEF SeenIn
  <2>3. \A s \in Sources : [src |-> s, n |-> last[s]] \in SeenIn(w, last)  BY DEF SeenIn
  <2>4. \A s \in Sources : [src |-> s, n |-> read[s]] \in SeenIn(w, last)
    BY <1>3, <1>5, <1>6, <2>2, <2>3
  <2>5. QED  BY <1>1, <2>1, <2>4 DEF SeenIn
<1>10. QED  BY <1>8, <1>9 DEF read

\* Copies of one message, no older than anything seen of its source, are queued.
LEMMA OrderedMore ==
  ASSUME NEW w \in Seq(Ids), NEW r \in Seq(Ids), NEW id \in Ids, NEW last \in [Sources -> Nat],
         \A i \in DOMAIN r : r[i] = id,
         Ordered(w, last),
         \A x \in SeenIn(w, last) : x.src = id.src => x.n <= id.n
  PROVE  Ordered(w \o r, last) /\ SeenIn(w \o r, last) \subseteq SeenIn(w, last) \cup {id}
<1> DEFINE v == w \o r
           a == Len(w)
           b == Len(r)
<1>1. /\ a \in Nat /\ b \in Nat /\ DOMAIN v = 1 .. a + b
      /\ \A i \in 1 .. a : v[i] = w[i]
      /\ \A i \in 1 .. b : v[a + i] = r[i]
      /\ \A i \in 1 .. a + b : i \in 1 .. a \/ i - a \in 1 .. b
  <2>1. Joins(v, w, r)  BY Joined, Zenon
  <2>2. QED  BY <2>1 DEF Joins
<1>2. DOMAIN w = 1 .. a /\ DOMAIN r = 1 .. b  BY LenProperties
<1>3. id.src \in Sources /\ id.n \in Nat /\ \A i \in 1 .. a : w[i].n \in Nat
  <2>1. \A i \in 1 .. a : w[i] \in Ids  BY ElementOfSeq
  <2>2. QED  BY <2>1 DEF Ids
<1> HIDE DEF v, a, b
<1>4. \A i \in 1 .. a + b : \/ i \in 1 .. a /\ v[i] = w[i]
                            \/ i \notin 1 .. a /\ v[i] = id
  <2> TAKE i \in 1 .. a + b
  <2>1. CASE i \in 1 .. a  BY <1>1, <2>1
  <2>2. CASE i \notin 1 .. a
    <3>1. i - a \in 1 .. b /\ a + (i - a) = i  BY <1>1, <2>2
    <3>2. v[a + (i - a)] = r[i - a]  BY <1>1, <3>1
    <3>3. QED  BY <1>2, <2>2, <3>1, <3>2
  <2>3. QED  BY <2>1, <2>2
<1>5. \A i \in 1 .. a : w[i].src = id.src => w[i].n <= id.n  BY <1>2 DEF SeenIn
<1>6. last[id.src] <= id.n
  <2> DEFINE x == [src |-> id.src, n |-> last[id.src]]
  <2>1. x \in SeenIn(w, last) /\ x.src = id.src /\ x.n = last[id.src]  BY <1>3 DEF SeenIn
  <2>2. QED  BY <2>1
<1>7. ASSUME NEW i \in 1 .. a + b  PROVE last[v[i].src] <= v[i].n
  <2>1. CASE i \in 1 .. a /\ v[i] = w[i]  BY <1>2, <2>1 DEF Ordered
  <2>2. CASE v[i] = id  BY <1>6, <2>2
  <2>3. QED  BY <1>4, <2>1, <2>2
<1>8. ASSUME NEW i \in 1 .. a + b, NEW j \in 1 .. a + b, i <= j, v[i].src = v[j].src
      PROVE  v[i].n <= v[j].n
  <2>1. CASE j \in 1 .. a /\ v[j] = w[j]
    <3>1. i \in 1 .. a  BY <1>1, <1>8, <2>1
    <3>2. QED  BY <1>2, <1>4, <1>8, <2>1, <3>1 DEF Ordered
  <2>2. CASE v[j] = id /\ i \in 1 .. a /\ v[i] = w[i]  BY <1>5, <1>8, <2>2
  <2>3. CASE v[j] = id /\ v[i] = id  BY <1>3, <2>3
  <2>4. QED  BY <1>4, <2>1, <2>2, <2>3
<1>9. Ordered(v, last)  BY <1>1, <1>7, <1>8 DEF Ordered
<1>10. SeenIn(v, last) \subseteq SeenIn(w, last) \cup {id}  BY <1>1, <1>2, <1>4 DEF SeenIn
<1>11. QED  BY <1>9, <1>10 DEF v

\* What waits, oldest first.
Growing(w) == \A i, j \in DOMAIN w : i < j => w[i].n < w[j].n

LEMMA GrowingRest ==
  ASSUME NEW v, NEW w, Rest(v, w), Growing(w)
  PROVE  Growing(v)
<1> DEFINE n == Len(w)
<1>1. /\ n \in Nat \ {0} /\ DOMAIN w = 1 .. n /\ DOMAIN v = 1 .. n - 1
      /\ \A i \in 1 .. n - 1 : v[i] = w[i + 1]
  BY DEF Rest
<1> HIDE DEF n
<1> SUFFICES ASSUME NEW i \in 1 .. n - 1, NEW j \in 1 .. n - 1, i < j  PROVE v[i].n < v[j].n
  BY <1>1 DEF Growing
<1>2. i + 1 \in 1 .. n /\ j + 1 \in 1 .. n /\ i + 1 < j + 1  BY <1>1
<1>3. w[i + 1].n < w[j + 1].n  BY <1>1, <1>2 DEF Growing
<1>4. QED  BY <1>1, <1>3

LEMMA GrowingMore ==
  ASSUME NEW w \in Seq(Frames), NEW e \in Frames, Growing(w),
         \A i \in DOMAIN w : w[i].n < e.n
  PROVE  Growing(Append(w, e))
<1> DEFINE a == Len(w)
           v == Append(w, e)
<1>1. a \in Nat /\ DOMAIN w = 1 .. a  BY LenProperties
<1>2. v \in Seq(Frames) /\ Len(v) = a + 1 /\ \A i \in 1 .. a : v[i] = w[i]  BY AppendProperties
<1>3. v[a + 1] = e  BY AppendProperties
<1>4. DOMAIN v = 1 .. a + 1  BY <1>2, LenProperties
<1> HIDE DEF a, v
<1>5. ASSUME NEW i \in 1 .. a + 1, NEW j \in 1 .. a + 1, i < j  PROVE v[i].n < v[j].n
  <2>1. i \in 1 .. a  BY <1>1, <1>5
  <2>2. CASE j \in 1 .. a  BY <1>1, <1>2, <1>5, <2>1, <2>2 DEF Growing
  <2>3. CASE j = a + 1  BY <1>1, <1>2, <1>3, <2>1, <2>3
  <2>4. QED  BY <1>1, <2>2, <2>3
<1>6. QED  BY <1>4, <1>5 DEF Growing, v

-----------------------------------------------------------------------------
\* What a client wrote and the daemon has not handled, oldest first.
Waiting(c) == rx[c] \o sock[c]

\* What d has seen of each source: the last one read and all that are on the way.
Seen(d) == SeenIn(Path(d), lastRead[d])

\* InOrder is not inductive: a message is queued behind what its source sent
\* before because nothing seen is newer than anything that waits (Ahead), and the
\* frame at the head of rx_buf is the oldest because what waits is in order
\* (Increasing).
Sorted     == \A d \in Clients : Ordered(Path(d), lastRead[d])
Increasing == \A c \in Clients : Growing(Waiting(c))
Ahead ==
  \A d \in Clients : \A id \in Seen(d) :
    /\ id.n <= LastOf(id.src)
    /\ id.src \in Clients => \A f \in Pending(id.src) : id.n <= f.n

Orderly == Handed /\ Sorted /\ Increasing /\ Ahead

LEMMA SeenTypes ==
  ASSUME NEW s \in Seq(Ids), NEW t \in Seq(Ids), NEW last \in [Sources -> Nat]
  PROVE  s \o t \in Seq(Ids) /\ SeenIn(s \o t, last) \subseteq Ids
<1> DEFINE u == s \o t
<1>1. u \in Seq(Ids)  BY ConcatProperties
<1> HIDE DEF u
<1>2. \A i \in DOMAIN u : u[i] \in Ids  BY <1>1, ElementOfSeq, LenProperties
<1>3. \A x \in Sources : [src |-> x, n |-> last[x]] \in Ids  BY DEF Ids
<1>4. SeenIn(u, last) \subseteq Ids  BY <1>2, <1>3 DEF SeenIn
<1>5. QED  BY <1>1, <1>4 DEF u

LEMMA WaitingProperties ==
  ASSUME TypeOK, NEW c \in Clients
  PROVE  /\ Waiting(c) \in Seq(Frames)
         /\ Pending(c) = {Waiting(c)[i] : i \in DOMAIN Waiting(c)} /\ Pending(c) \subseteq Frames
         /\ rx[c] # <<>> => /\ Rest(Tail(rx[c]) \o sock[c], Waiting(c))
                            /\ Head(rx[c]) = Waiting(c)[1] /\ 1 \in DOMAIN Waiting(c)
<1>1. rx[c] \in Seq(Frames) /\ sock[c] \in Seq(Frames)  BY DEF TypeOK
<1>2. Waiting(c) \in Seq(Frames)  BY <1>1, ConcatProperties DEF Waiting
<1>3. Joins(Waiting(c), rx[c], sock[c])  BY <1>1, Joined DEF Waiting
<1>4. Pending(c) = {Waiting(c)[i] : i \in DOMAIN Waiting(c)}
  BY <1>3 DEF Joins, Pending, ToSet
<1>5. \A i \in DOMAIN Waiting(c) : Waiting(c)[i] \in Frames
  BY <1>2, ElementOfSeq, LenProperties
<1>6. rx[c] # <<>> => /\ Rest(Tail(rx[c]) \o sock[c], Waiting(c))
                      /\ Head(rx[c]) = Waiting(c)[1] /\ 1 \in DOMAIN Waiting(c)
  BY <1>1, RestOfBoth DEF Waiting
<1>7. QED  BY <1>2, <1>4, <1>5, <1>6

LEMMA PathProperties ==
  ASSUME TypeOK, NEW d \in Clients
  PROVE  /\ Path(d) \in Seq(Ids) /\ Seen(d) \subseteq Ids /\ lastRead[d] \in [Sources -> Nat]
         /\ out[d] # <<>> => /\ Rest(Tail(out[d]) \o tx[d], Path(d))
                             /\ Head(out[d]) = Path(d)[1] /\ 1 \in DOMAIN Path(d)
<1>1. out[d] \in Seq(Ids) /\ tx[d] \in Seq(Ids) /\ lastRead[d] \in [Sources -> Nat]  BY DEF TypeOK
<1>2. Path(d) \in Seq(Ids) /\ Seen(d) \subseteq Ids  BY <1>1, SeenTypes DEF Path, Seen
<1>6. out[d] # <<>> => /\ Rest(Tail(out[d]) \o tx[d], Path(d))
                       /\ Head(out[d]) = Path(d)[1] /\ 1 \in DOMAIN Path(d)
  BY <1>1, RestOfBoth DEF Path
<1>7. QED  BY <1>1, <1>2, <1>6

\* When a step keeps Ahead: what is newly seen is not newer than what waits, and
\* what newly waits is not older than what its source has sent.
LEMMA AheadKept ==
  ASSUME TypeOK, TypeOK', Ahead,
         \A d \in Clients : \A id \in Seen(d)' :
           \/ id \in Seen(d) \/ id.n = 0
           \/ /\ id.n <= LastOf(id.src)'
              /\ id.src \in Clients => \A f \in Pending(id.src)' : id.n <= f.n,
         \A s \in Sources : LastOf(s) <= LastOf(s)',
         \A c \in Clients : \A f \in Pending(c)' : f \in Pending(c) \/ LastOf(c) <= f.n
  PROVE  Ahead'
<1> SUFFICES ASSUME NEW d \in Clients, NEW id \in Seen(d)'
             PROVE  /\ id.n <= LastOf(id.src)'
                    /\ id.src \in Clients => \A f \in Pending(id.src)' : id.n <= f.n
  BY DEF Ahead
<1>1. id \in Ids
  <2>1. out'[d] \in Seq(Ids) /\ tx'[d] \in Seq(Ids) /\ lastRead'[d] \in [Sources -> Nat]  BY DEF TypeOK
  <2>2. QED  BY <2>1, SeenTypes DEF Path, Seen
<1>2. id.src \in Sources /\ id.n \in Nat  BY <1>1 DEF Ids
<1>3. ASSUME NEW c \in Clients, NEW f \in Pending(c)'  PROVE f.n \in Nat
  <2>1. sock'[c] \in Seq(Frames) /\ rx'[c] \in Seq(Frames)  BY DEF TypeOK
  <2>2. f \in Frames  BY <2>1, ElementOfSeq, LenProperties DEF Pending, ToSet
  <2>3. QED  BY <2>2 DEF Frames
<1>4. \A s \in Sources : LastOf(s) \in Nat /\ LastOf(s)' \in Nat
  BY DEF LastOf, TypeOK, Sources
<1>5. CASE id \in Seen(d)
  <2>1. /\ id.n <= LastOf(id.src)
        /\ id.src \in Clients => \A f \in Pending(id.src) : id.n <= f.n
    BY <1>5 DEF Ahead
  <2>2. id.n <= LastOf(id.src)'
    <3>1. LastOf(id.src) <= LastOf(id.src)'  BY <1>2
    <3>2. QED  BY <1>2, <1>4, <2>1, <3>1
  <2>3. ASSUME id.src \in Clients, NEW f \in Pending(id.src)'  PROVE id.n <= f.n
    <3>1. CASE f \in Pending(id.src)  BY <2>1, <2>3, <3>1
    <3>2. CASE LastOf(id.src) <= f.n
      BY <1>2, <1>3, <1>4, <2>1, <2>3, <3>2
    <3>3. QED  BY <2>3, <3>1, <3>2
  <2>4. QED  BY <2>2, <2>3
<1>6. CASE id.n = 0
  BY <1>2, <1>3, <1>4, <1>6
<1>7. QED  BY <1>5, <1>6

\* bc_message_bus_deliver_local queues a message that is no older than what its
\* audience has seen.
LEMMA DeliverInOrder ==
  ASSUME TypeOK, NEW id \in Ids, NEW m, DeliverLocal(id, m), UNCHANGED <<out, lastRead>>, Sorted,
         \A d \in Clients : \A x \in Seen(d) : x.src = id.src => x.n <= id.n
  PROVE  Sorted' /\ \A d \in Clients : Seen(d)' \subseteq Seen(d) \cup {id}
<1> SUFFICES ASSUME NEW d \in Clients
             PROVE  /\ Ordered(Path(d)', lastRead'[d])
                    /\ SeenIn(Path(d)', lastRead'[d]) \subseteq Seen(d) \cup {id}
  BY DEF Sorted, Seen
<1> DEFINE k == Fits(d, id.src, m)
           r == [i \in 1 .. k |-> id]
<1>1. out[d] \in Seq(Ids) /\ tx[d] \in Seq(Ids)  BY DEF TypeOK
<1>2. k \in Nat  BY BrokerAssumption, FitsProperties
<1> HIDE DEF k
<1>3. r \in Seq(Ids) /\ \A i \in DOMAIN r : r[i] = id
  <2>1. r \in [1 .. k -> Ids]  OBVIOUS
  <2>2. QED  BY <1>2, <2>1, SeqDef
<1> HIDE DEF r
<1>4. tx'[d] = tx[d] \o r
  <2>1. tx'[d] = Enqueue(tx[d], k, id)  BY DEF DeliverLocal, k
  <2>2. Enqueue(tx[d], k, id) = tx[d] \o r  BY DEF Enqueue, r
  <2>3. QED  BY <2>1, <2>2
<1>5. out[d] \o (tx[d] \o r) = (out[d] \o tx[d]) \o r
  <2>1. \A a, b, e \in Seq(Ids) : (a \o b) \o e = a \o (b \o e)  BY ConcatAssociative
  <2>2. (out[d] \o tx[d]) \o r = out[d] \o (tx[d] \o r)  BY <1>1, <1>3, <2>1, Zenon
  <2>3. QED  BY <2>2, Zenon
<1>6. Path(d)' = Path(d) \o r /\ lastRead'[d] = lastRead[d]  BY <1>4, <1>5 DEF Path
<1>7. Path(d) \in Seq(Ids) /\ lastRead[d] \in [Sources -> Nat]  BY PathProperties
<1>8. Ordered(Path(d), lastRead[d])  BY DEF Sorted
<1>9. \A x \in SeenIn(Path(d), lastRead[d]) : x.src = id.src => x.n <= id.n  BY DEF Seen
<1>10. /\ Ordered(Path(d) \o r, lastRead[d])
       /\ SeenIn(Path(d) \o r, lastRead[d]) \subseteq SeenIn(Path(d), lastRead[d]) \cup {id}
  BY <1>3, <1>7, <1>8, <1>9, OrderedMore
<1>11. QED  BY <1>6, <1>10 DEF Seen

\* The same for the frame at the head of an rx_buf, which is older than whatever
\* waits behind it.
LEMMA ApplyInOrder ==
  ASSUME Orderly, AtFrame, NEW net, Apply(net), UNCHANGED <<out, lastRead>>
  PROVE  /\ Sorted'
         /\ \A d \in Clients : Seen(d)' \subseteq Seen(d) \cup {Id(Current, Frame)}
         /\ Current \in Clients /\ Id(Current, Frame).src = Current
         /\ Id(Current, Frame).n <= written[Current]
         /\ \A f \in Pending(Current) : Id(Current, Frame).n <= f.n
<1> DEFINE c == Current
           id == Id(Current, Frame)
<1>1. c \in Clients /\ id \in Ids /\ TypeOK  BY CurrentProperties DEF Orderly, Handed, AtFrame
<1>2. id.src = c /\ id.n = Frame.n  BY DEF Id
<1>3. rx[c] # <<>> /\ Frame = Head(rx[c])  BY DEF AtFrame, Frame
<1> HIDE DEF c, id
<1>4. /\ Pending(c) = {Waiting(c)[i] : i \in DOMAIN Waiting(c)} /\ Waiting(c) \in Seq(Frames)
      /\ Frame = Waiting(c)[1] /\ 1 \in DOMAIN Waiting(c) /\ Pending(c) \subseteq Frames
  BY <1>1, <1>3, WaitingProperties
<1>5. Frame \in Pending(c)  BY <1>4
<1>6. ASSUME NEW f \in Pending(c)  PROVE id.n <= f.n
  <2>1. PICK i \in DOMAIN Waiting(c) : f = Waiting(c)[i]  BY <1>4
  <2>2. DOMAIN Waiting(c) = 1 .. Len(Waiting(c)) /\ Len(Waiting(c)) \in Nat  BY <1>4, LenProperties
  <2>3. f.n \in Nat /\ Frame.n \in Nat  BY <1>4, <1>5 DEF Frames
  <2>4. CASE i = 1  BY <1>2, <1>4, <2>1, <2>3, <2>4
  <2>5. CASE i # 1
    <3>1. 1 < i  BY <2>2, <2>5
    <3>2. Waiting(c)[1].n < Waiting(c)[i].n  BY <1>1, <1>4, <3>1 DEF Orderly, Increasing, Growing
    <3>3. QED  BY <1>2, <1>4, <2>1, <2>3, <3>2
  <2>6. QED  BY <2>4, <2>5
<1>7. id.n <= written[c]  BY <1>1, <1>2, <1>5 DEF Orderly, Handed, Numbered
<1>8. \A d \in Clients : \A x \in Seen(d) : x.src = id.src => x.n <= id.n
  BY <1>1, <1>2, <1>5 DEF Orderly, Ahead
<1>9. Sorted' /\ \A d \in Clients : Seen(d)' \subseteq Seen(d) \cup {id}
  <2>1. CASE DeliverLocal(id, Frame.msg)
    BY <1>1, <1>8, <2>1, DeliverInOrder DEF Orderly
  <2>2. CASE tx' = tx
    <3>1. \A d \in Clients : Path(d)' = Path(d) /\ lastRead'[d] = lastRead[d]  BY <2>2 DEF Path
    <3>2. QED  BY <3>1 DEF Orderly, Sorted, Seen
  <2>3. QED  BY <2>1, <2>2 DEF Apply, Publish, id
<1>10. QED  BY <1>1, <1>2, <1>6, <1>7, <1>9 DEF c, id

-----------------------------------------------------------------------------
(* The steps                                                                 *)

\* Anything but a write: nothing newly waits.
LEMMA OrderedStep ==
  ASSUME Orderly, [Next]_vars, ~ \E c \in Clients : \E f \in Menu[c] : Write(c, f)
  PROVE  Sorted' /\ Increasing' /\ Ahead'
<1> USE DEF daemon, buffers, history
<1>0. TypeOK /\ Lists /\ Sorted /\ Increasing /\ Ahead  BY DEF Orderly, Handed
<1>t. TypeOK'  BY <1>0, TypesStep
<1>1. \A c \in Clients : Pending(c)' \subseteq Pending(c)  BY <1>0, PendingStep
<1>2. ASSUME UNCHANGED <<written, arrived>>
      PROVE  \A s \in Sources : LastOf(s) <= LastOf(s)'
  BY <1>0, <1>2 DEF LastOf, TypeOK, Sources
<1>3. ASSUME \A s \in Sources : LastOf(s) <= LastOf(s)',
             \A d \in Clients : \A id \in Seen(d)' :
               \/ id \in Seen(d) \/ id.n = 0
               \/ /\ id.n <= LastOf(id.src)'
                  /\ id.src \in Clients => \A f \in Pending(id.src)' : id.n <= f.n
      PROVE  Ahead'
  BY <1>0, <1>t, <1>1, <1>3, AheadKept
<1>4. ASSUME NEW d \in Clients, Path(d)' = Path(d), lastRead'[d] = lastRead[d]
      PROVE  Ordered(Path(d), lastRead[d])' /\ Seen(d)' = Seen(d)
  BY <1>0, <1>4 DEF Sorted, Seen
<1>5. ASSUME NEW c \in Clients, Waiting(c)' = Waiting(c)  PROVE Growing(Waiting(c))'
  BY <1>0, <1>5 DEF Increasing
<1>6. ASSUME \A d \in Clients : Path(d)' = Path(d) /\ Waiting(d)' = Waiting(d),
             UNCHANGED <<lastRead, written, arrived>>
      PROVE  Sorted' /\ Increasing' /\ Ahead'
  BY <1>2, <1>3, <1>4, <1>5, <1>6 DEF Sorted, Increasing
<1>7. ASSUME UNCHANGED <<sock, rx, tx, out, lastRead, written, arrived>>
      PROVE  Sorted' /\ Increasing' /\ Ahead'
  BY <1>6, <1>7 DEF Path, Waiting
<1>8. ASSUME NEW c \in Clients, Close(c)  PROVE Sorted' /\ Increasing' /\ Ahead'
  <2>1. ASSUME NEW d \in Clients \ {c}
        PROVE  Path(d)' = Path(d) /\ Waiting(d)' = Waiting(d) /\ lastRead'[d] = lastRead[d]
    BY <1>0, <1>8 DEF Close, TypeOK, Path, Waiting
  <2>2. Path(c)' = <<>> \o <<>> /\ Waiting(c)' = <<>> \o <<>> /\ lastRead'[c] = NoReads
    BY <1>0, <1>8 DEF Close, TypeOK, Path, Waiting
  <2>3. <<>> \o <<>> = <<>> /\ DOMAIN <<>> = {}  BY ConcatEmptySeq, EmptySeq
  <2>4. Ordered(Path(c), lastRead[c])' /\ Growing(Waiting(c))'
    BY <2>2, <2>3 DEF Ordered, Growing
  <2>5. \A id \in Seen(c)' : id.n = 0  BY <2>2, <2>3 DEF Seen, SeenIn, NoReads
  <2>6. UNCHANGED <<written, arrived>>  BY <1>8 DEF Close
  <2>7. Sorted' /\ Increasing'  BY <1>4, <1>5, <2>1, <2>4 DEF Sorted, Increasing
  <2>8. \A d \in Clients : \A id \in Seen(d)' : id \in Seen(d) \/ id.n = 0  BY <1>4, <2>1, <2>5
  <2>9. QED  BY <1>2, <1>3, <2>6, <2>7, <2>8
<1>9. CASE Flush
  <2> DEFINE k == Least({Len(tx[me]), SockCap - Len(out[me])})
  <2>1. me \in Clients  BY <1>0, <1>9 DEF Flush, Lists, WorksOnOpenClients
  <2>2. /\ tx[me] \in Seq(Ids) /\ out[me] \in Seq(Ids)
        /\ Len(tx[me]) \in Nat /\ SockCap - Len(out[me]) \in Nat
    BY <1>0, <2>1, LenProperties, BrokerAssumption DEF TypeOK, BrokerAssumption
  <2>3. k \in 0 .. Len(tx[me])  BY <2>2, LeastBounds, Zenon DEF k
  <2>4. /\ out' = [out EXCEPT ![me] = @ \o SubSeq(tx[me], 1, k)]
        /\ tx' = [tx EXCEPT ![me] = SubSeq(@, k + 1, Len(@))]
        /\ UNCHANGED <<sock, rx, lastRead, written, arrived>>
    BY <1>9 DEF Flush
  <2> HIDE DEF k
  <2>5. (out[me] \o SubSeq(tx[me], 1, k)) \o SubSeq(tx[me], k + 1, Len(tx[me])) = out[me] \o tx[me]
    BY <2>2, <2>3, MoveFirst
  <2>6. /\ out'[me] = out[me] \o SubSeq(tx[me], 1, k)
        /\ tx'[me] = SubSeq(tx[me], k + 1, Len(tx[me]))
        /\ \A d \in Clients \ {me} : out'[d] = out[d] /\ tx'[d] = tx[d]
    BY <1>0, <2>1, <2>4 DEF TypeOK
  <2>7. \A d \in Clients : Path(d)' = Path(d)  BY <2>5, <2>6, Zenon DEF Path
  <2>8. QED  BY <1>6, <2>4, <2>7 DEF Waiting
<1>10. CASE Read
  <2> DEFINE k == Least({Len(sock[me]), RxCap - Len(rx[me])})
  <2>1. me \in Clients  BY <1>0, <1>10 DEF Read, Lists, WorksOnOpenClients
  <2>2. /\ sock[me] \in Seq(Frames) /\ rx[me] \in Seq(Frames)
        /\ Len(sock[me]) \in Nat /\ RxCap - Len(rx[me]) \in Nat
    BY <1>0, <2>1, LenProperties, BrokerAssumption DEF TypeOK, BrokerAssumption
  <2>3. k \in 0 .. Len(sock[me])  BY <2>2, LeastBounds, Zenon DEF k
  <2>4. /\ rx' = [rx EXCEPT ![me] = @ \o SubSeq(sock[me], 1, k)]
        /\ sock' = [sock EXCEPT ![me] = SubSeq(@, k + 1, Len(@))]
        /\ UNCHANGED <<tx, out, lastRead, written, arrived>>
    BY <1>10 DEF Read
  <2> HIDE DEF k
  <2>5. (rx[me] \o SubSeq(sock[me], 1, k)) \o SubSeq(sock[me], k + 1, Len(sock[me])) = rx[me] \o sock[me]
    BY <2>2, <2>3, MoveFirst
  <2>6. /\ rx'[me] = rx[me] \o SubSeq(sock[me], 1, k)
        /\ sock'[me] = SubSeq(sock[me], k + 1, Len(sock[me]))
        /\ \A d \in Clients \ {me} : rx'[d] = rx[d] /\ sock'[d] = sock[d]
    BY <1>0, <2>1, <2>4 DEF TypeOK
  <2>7. \A d \in Clients : Waiting(d)' = Waiting(d)  BY <2>5, <2>6, Zenon DEF Waiting
  <2>8. QED  BY <1>6, <2>4, <2>7 DEF Path
<1>11. CASE FrameDone \/ FrameBlocked \/ FrameUnroutable
  <2>1. AtFrame /\ UNCHANGED <<sock, out, lastRead, written, arrived>>
    BY <1>11 DEF FrameDone, FrameBlocked, FrameUnroutable
  <2>2. PICK net \in SendResults : Apply(net)  BY <1>11 DEF FrameDone, FrameBlocked, FrameUnroutable
  <2>0. PICK c \in Clients, id \in Ids : c = Current /\ id = Id(Current, Frame)
    BY <1>0, <2>1, CurrentProperties DEF AtFrame
  <2>3. /\ Sorted' /\ \A d \in Clients : Seen(d)' \subseteq Seen(d) \cup {id}
        /\ c \in Clients /\ id.src = c /\ id.n <= written[c]
        /\ \A f \in Pending(c) : id.n <= f.n
    BY <2>0, <2>1, <2>2, ApplyInOrder
  <2>4. rx[c] # <<>>  BY <2>0, <2>1 DEF AtFrame
  <2>5. rx' = rx \/ rx' = [rx EXCEPT ![c] = Tail(@)]
    BY <1>11, <2>0 DEF FrameDone, FrameBlocked, FrameUnroutable, KeepFrame
  <2>6. Increasing'
    <3>1. CASE rx' = rx  BY <1>5, <2>1, <3>1 DEF Waiting, Increasing
    <3>2. CASE rx' = [rx EXCEPT ![c] = Tail(@)]
      <4>1. Waiting(c)' = Tail(rx[c]) \o sock[c]  BY <1>0, <2>1, <2>3, <3>2 DEF Waiting, TypeOK
      <4>2. Rest(Tail(rx[c]) \o sock[c], Waiting(c))  BY <1>0, <2>3, <2>4, WaitingProperties
      <4>3. Growing(Waiting(c))'  BY <1>0, <2>3, <4>1, <4>2, GrowingRest DEF Increasing
      <4>4. \A d \in Clients \ {c} : Waiting(d)' = Waiting(d)  BY <1>0, <2>1, <3>2 DEF Waiting, TypeOK
      <4>5. QED  BY <1>5, <4>3, <4>4 DEF Increasing
    <3>3. QED  BY <2>5, <3>1, <3>2
  <2>7. id.n <= LastOf(id.src)'
    BY <2>1, <2>3, BrokerAssumption DEF LastOf, BrokerAssumption
  <2>8. id.src \in Clients => \A f \in Pending(id.src)' : id.n <= f.n  BY <1>1, <2>3
  <2>9. Ahead'  BY <1>2, <1>3, <2>1, <2>3, <2>7, <2>8
  <2>10. QED  BY <2>3, <2>6, <2>9
<1>12. ASSUME NEW a \in Arrivals, Arrive(a)  PROVE Sorted' /\ Increasing' /\ Ahead'
  <2>0. PICK id \in Ids : id = [src |-> Network, n |-> arrived + 1]
    <3>1. arrived + 1 \in Nat /\ Network \in Sources  BY <1>0 DEF TypeOK, Sources
    <3>2. [src |-> Network, n |-> arrived + 1] \in Ids  BY <3>1 DEF Ids
    <3>3. QED  BY <3>2
  <2>1. /\ UNCHANGED <<sock, rx, out, written, lastRead>> /\ arrived' = arrived + 1
        /\ DeliverLocal(id, a.msg) \/ tx' = tx
    BY <1>12, <2>0 DEF Arrive
  <2>2. id.src = Network /\ id.n = arrived + 1 /\ Network \notin Clients
    BY <2>0, BrokerAssumption DEF BrokerAssumption
  <2>3. arrived \in Nat  BY <1>0 DEF TypeOK
  <2>4. \A d \in Clients : \A x \in Seen(d) : x.src = id.src => x.n <= id.n
    <3> SUFFICES ASSUME NEW d \in Clients, NEW x \in Seen(d), x.src = Network  PROVE x.n <= arrived + 1
      BY <2>2
    <3>1. x.n \in Nat  BY <1>0, PathProperties DEF Ids
    <3>2. x.n <= arrived  BY <1>0 DEF Ahead, LastOf
    <3>3. QED  BY <2>3, <3>1, <3>2
  <2>5. Sorted' /\ \A d \in Clients : Seen(d)' \subseteq Seen(d) \cup {id}
    <3>1. CASE DeliverLocal(id, a.msg)  BY <1>0, <2>1, <2>2, <2>4, <3>1, DeliverInOrder
    <3>2. CASE tx' = tx  BY <1>4, <2>1, <3>2 DEF Path, Sorted
    <3>3. QED  BY <2>1, <3>1, <3>2
  <2>6. Increasing'  BY <1>5, <2>1 DEF Waiting, Increasing
  <2>7. \A s \in Sources : LastOf(s) <= LastOf(s)'
    BY <1>0, <2>1, <2>3 DEF LastOf, Sources, TypeOK
  <2>8. id.n <= LastOf(id.src)' /\ id.src \notin Clients  BY <2>1, <2>2, <2>3 DEF LastOf
  <2>9. Ahead'  BY <1>3, <2>5, <2>7, <2>8
  <2>10. QED  BY <2>5, <2>6, <2>9
<1>13. ASSUME NEW c \in Clients, Take(c)  PROVE Sorted' /\ Increasing' /\ Ahead'
  <2>1. /\ out[c] # <<>> /\ UNCHANGED <<sock, rx, tx, written, arrived>>
        /\ out' = [out EXCEPT ![c] = Tail(@)]
        /\ lastRead' = [lastRead EXCEPT ![c][Head(out[c]).src] = Head(out[c]).n]
    BY <1>13 DEF Take
  <2>2. \A d \in Clients \ {c} : Path(d)' = Path(d) /\ lastRead'[d] = lastRead[d]
    BY <1>0, <2>1 DEF Path, TypeOK
  <2> DEFINE v == Tail(out[c]) \o tx[c]
             w == Path(c)
             last == lastRead[c]
  <2>3. /\ w \in Seq(Ids) /\ last \in [Sources -> Nat] /\ Rest(v, w) /\ Head(out[c]) = w[1]
    BY <1>0, <2>1, PathProperties
  <2>4. v \in Seq(Ids)
    <3>1. tx[c] \in Seq(Ids) /\ Tail(out[c]) \in Seq(Ids)  BY <1>0, <2>1, TailProperties DEF TypeOK
    <3>2. QED  BY <3>1, ConcatProperties
  <2>5. Path(c)' = v /\ lastRead'[c] = [last EXCEPT ![w[1].src] = w[1].n]
    BY <1>0, <2>1, <2>3 DEF Path, TypeOK
  <2>6. Ordered(w, last)  BY <1>0 DEF Sorted
  <2> HIDE DEF v, w, last
  <2>7. /\ Ordered(v, [last EXCEPT ![w[1].src] = w[1].n])
        /\ SeenIn(v, [last EXCEPT ![w[1].src] = w[1].n]) \subseteq SeenIn(w, last)
    BY <2>3, <2>4, <2>6, OrderedRest
  <2>8. Ordered(Path(c), lastRead[c])' /\ Seen(c)' \subseteq Seen(c)
    BY <2>5, <2>7 DEF Seen, w, last
  <2>9. Sorted'  BY <1>4, <2>2, <2>8 DEF Sorted
  <2>10. \A d \in Clients : Seen(d)' \subseteq Seen(d)  BY <1>4, <2>2, <2>8
  <2>11. Ahead'  BY <1>2, <1>3, <2>1, <2>10
  <2>12. Increasing'  BY <1>5, <2>1 DEF Waiting, Increasing
  <2>13. QED  BY <2>9, <2>11, <2>12
<1>14. CASE FlushFails \/ ReadEof
  <2>1. me \in Clients /\ Close(me)  BY <1>0, <1>14 DEF FlushFails, ReadEof, Lists, WorksOnOpenClients
  <2>2. QED  BY <1>8, <2>1
<1>15. CASE FrameFatal
  <2>1. Current \in Clients /\ Close(Current)
    BY <1>0, <1>15, CurrentProperties DEF FrameFatal, AtFrame
  <2>2. QED  BY <1>8, <2>1
<1>16. CASE ReadNothing \/ NoFrame \/ ResumeEnd
  BY <1>7, <1>16 DEF ReadNothing, NoFrame, ResumeEnd
<1>17. ASSUME NEW c \in Clients, Accept(c) \/ ClientEvent(c) \/ HangUp(c)
       PROVE  Sorted' /\ Increasing' /\ Ahead'
  BY <1>7, <1>17 DEF Accept, ClientEvent, HangUp
<1>18. CASE UNCHANGED vars  BY <1>7, <1>18 DEF vars
<1>19. CASE Handler
  BY <1>19, <1>9, <1>10, <1>11, <1>14, <1>15, <1>16 DEF Handler
<1>20. QED  BY <1>12, <1>13, <1>17, <1>18, <1>19, Zenon DEF Next

\* A write: the new frame is newer than everything.
LEMMA WrittenInOrder ==
  ASSUME Orderly, [Next]_vars, NEW c \in Clients, NEW g \in Menu[c], Write(c, g)
  PROVE  Sorted' /\ Increasing' /\ Ahead'
<1> USE DEF daemon, buffers, history
<1> DEFINE e == [n |-> written[c] + 1, type |-> g.type, msg |-> g.msg]
<1>0. TypeOK /\ Lists /\ Sorted /\ Increasing /\ Ahead /\ Numbered  BY DEF Orderly, Handed
<1>t. TypeOK'  BY <1>0, TypesStep
<1>1. /\ sock' = [sock EXCEPT ![c] = Append(@, e)] /\ written' = [written EXCEPT ![c] = @ + 1]
      /\ UNCHANGED <<rx, tx, out, arrived, lastRead>>
  BY DEF Write
<1>2. /\ e \in Frames /\ e.n = written[c] + 1 /\ written[c] \in Nat
  <2>1. g.type \in FrameTypes  BY BrokerAssumption DEF BrokerAssumption
  <2>2. QED  BY <1>0, <2>1 DEF TypeOK, Frames
<1> HIDE DEF e
<1>3. rx[c] \in Seq(Frames) /\ sock[c] \in Seq(Frames)  BY <1>0 DEF TypeOK
<1>4. sock'[c] = Append(sock[c], e) /\ \A d \in Clients \ {c} : sock'[d] = sock[d]
  BY <1>0, <1>1 DEF TypeOK
<1>5. \A f \in Pending(c) : f.n < e.n
  <2>1. \A f \in Pending(c) : f.n \in Nat /\ f.n <= written[c]
    BY <1>0, WaitingProperties DEF Numbered, Frames
  <2>2. QED  BY <1>2, <2>1
<1>6. Waiting(c)' = Append(Waiting(c), e)
  <2>1. rx[c] \o Append(sock[c], e) = Append(rx[c] \o sock[c], e)
    <3>1. <<e>> \in Seq(Frames)  BY <1>2
    <3>2. \A a, b, f \in Seq(Frames) : (a \o b) \o f = a \o (b \o f)  BY ConcatAssociative
    <3>3. (rx[c] \o sock[c]) \o <<e>> = rx[c] \o (sock[c] \o <<e>>)  BY <1>3, <3>1, <3>2, Zenon
    <3>4. \A a \in Seq(Frames) : Append(a, e) = a \o <<e>>  BY <1>2, AppendIsConcat
    <3>5. rx[c] \o sock[c] \in Seq(Frames)  BY <1>3, ConcatProperties
    <3>6. QED  BY <1>3, <3>3, <3>4, <3>5, Zenon
  <2>2. QED  BY <1>1, <1>4, <2>1 DEF Waiting
<1>7. Increasing'
  <2>1. /\ Waiting(c) \in Seq(Frames) /\ Growing(Waiting(c))
        /\ \A i \in DOMAIN Waiting(c) : Waiting(c)[i].n < e.n
    BY <1>0, <1>5, WaitingProperties DEF Increasing
  <2>2. Growing(Waiting(c))'  BY <1>2, <1>6, <2>1, GrowingMore
  <2>3. \A d \in Clients \ {c} : Waiting(d)' = Waiting(d)  BY <1>1, <1>4 DEF Waiting
  <2>4. QED  BY <1>0, <2>2, <2>3 DEF Increasing
<1>8. Sorted' /\ \A d \in Clients : Seen(d)' = Seen(d)  BY <1>0, <1>1 DEF Sorted, Path, Seen
<1>9. \A s \in Sources : LastOf(s) <= LastOf(s)'
  BY <1>0, <1>1, <1>2, SMTT(30) DEF LastOf, Sources, TypeOK
<1>10. \A d \in Clients : \A f \in Pending(d)' : f \in Pending(d) \/ LastOf(d) <= f.n
  <2>1. \A d \in Clients \ {c} : Pending(d)' = Pending(d)  BY <1>1, <1>4 DEF Pending
  <2>2. Pending(c)' \subseteq Pending(c) \cup {e}
    <3>1. 0 \in 0 .. Len(sock[c])  BY <1>3, LenProperties
    <3>2. ToSet(Append(sock[c], e)) \subseteq ToSet(sock[c]) \cup {e}
      BY <1>2, <1>3, <3>1, Elements
    <3>3. QED  BY <1>1, <1>4, <3>2 DEF Pending
  <2>3. LastOf(c) <= e.n  BY <1>2, BrokerAssumption DEF LastOf, BrokerAssumption
  <2>4. QED  BY <2>1, <2>2, <2>3
<1>11. Ahead'  BY <1>0, <1>t, <1>8, <1>9, <1>10, AheadKept
<1>12. QED  BY <1>7, <1>8, <1>11

\* What reaches a client of one source, whichever way and however often it was
\* tried, is in the order in which that source sent it.
THEOREM MessagesStayInOrder == Spec => []InOrder
<1>1. Init => Orderly
  <2> SUFFICES ASSUME Init  PROVE Orderly  OBVIOUS
  <2>1. Handed  BY InitHanded
  <2>2. <<>> \o <<>> = <<>> /\ DOMAIN <<>> = {} /\ ToSet(<<>>) = {}
    BY ConcatEmptySeq, EmptySeq DEF ToSet
  <2>3. \A d \in Clients : /\ Path(d) = <<>> /\ Waiting(d) = <<>>
                           /\ Pending(d) = {} /\ lastRead[d] = NoReads
    BY <2>2 DEF Init, Path, Waiting, Pending
  <2>4. Sorted /\ Increasing  BY <2>2, <2>3 DEF Sorted, Increasing, Ordered, Growing
  <2>5. \A d \in Clients : \A id \in Seen(d) : id.src \in Sources /\ id.n = 0
    BY <2>2, <2>3 DEF Seen, SeenIn, NoReads
  <2>6. \A s \in Sources : LastOf(s) = 0  BY DEF Init, LastOf, Sources
  <2>7. Ahead  BY <2>3, <2>5, <2>6 DEF Ahead
  <2>8. QED  BY <2>1, <2>4, <2>7 DEF Orderly
<1>2. Orderly /\ [Next]_vars => Orderly'
  BY HandedStep, OrderedStep, WrittenInOrder DEF Orderly
<1>3. Orderly => InOrder
  <2> SUFFICES ASSUME Orderly, NEW d \in Clients
               PROVE  /\ Ordered(Path(d), lastRead[d])
                      /\ \A s \in Clients : rx[s] # <<>> =>
                           /\ lastRead[d][s] <= Head(rx[s]).n
                           /\ \A i \in DOMAIN Path(d) : Path(d)[i].src = s => Path(d)[i].n <= Head(rx[s]).n
    BY DEF InOrder, Ordered
  <2>1. Ordered(Path(d), lastRead[d])  BY DEF Orderly, Sorted
  <2>2. ASSUME NEW s \in Clients, rx[s] # <<>>
        PROVE  /\ lastRead[d][s] <= Head(rx[s]).n
               /\ \A i \in DOMAIN Path(d) : Path(d)[i].src = s => Path(d)[i].n <= Head(rx[s]).n
    <3>1. Head(rx[s]) \in Pending(s)  BY <2>2, WaitingProperties DEF Orderly, Handed
    <3>2. \A id \in Seen(d) : id.src = s => id.n <= Head(rx[s]).n  BY <3>1 DEF Orderly, Ahead
    <3>3. \A i \in DOMAIN Path(d) : Path(d)[i] \in Seen(d)  BY DEF Seen, SeenIn
    <3> DEFINE x == [src |-> s, n |-> lastRead[d][s]]
    <3>4. x \in Seen(d) /\ x.src = s /\ x.n = lastRead[d][s]  BY DEF Seen, SeenIn, Sources
    <3> HIDE DEF x
    <3>5. QED  BY <3>2, <3>3, <3>4
  <2>3. QED  BY <2>1, <2>2
<1>4. QED  BY <1>1, <1>2, <1>3, PTL DEF Spec
=============================================================================
