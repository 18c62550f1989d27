-------------------------- MODULE ReassemblyProofs --------------------------
(***************************************************************************)
(* Theorems about Reassembly: any number of boards and slots, messages of any *)
(* number of fragments, and a network that disturbs as often as it likes.     *)
(***************************************************************************)
EXTENDS Reassembly, FiniteSetTheorems, SequenceTheorems, WellFoundedInduction, TLAPS

-----------------------------------------------------------------------------
(* The invariants                                                            *)

\* Fragments of b from its boots up to n, and what a place in a slot holds.
Packets(b, n) == [src : {b}, boot : 0 .. n, seq : 1 .. MaxSeq, index : Indices]
AnyPacket     == [src : Boards \cup {Nobody}, boot : Nat, seq : Nat, index : Nat]

SlotType == [active : BOOLEAN, src : Boards \cup {Nobody}, seq : 0 .. MaxSeq,
             received : Nat, pieces : [Indices -> AnyPacket]]

\* p is the x-th fragment of a message seq of b, from one of its boots up to n.
Belongs(p, b, n, seq, x) == p \in Packets(b, n) /\ p.seq = seq /\ p.index = x

\* A slot holds fragments of its own message, each in its place, and counts them.
Sound(s, n) ==
  /\ s.src \in Boards /\ s.seq \in 1 .. MaxSeq
  /\ s.received = Cardinality(Held(s))
  /\ \A x \in Indices : s.pieces[x] = Nothing \/ Belongs(s.pieces[x], s.src, n, s.seq, x)

\* Unmixed says it of what was put together; this of all that is on its way there.
Slotted ==
  /\ boots \in [Boards -> 0 .. MaxBoots] /\ nextSeq \in [Boards -> 0 .. MaxSeq]
  /\ faults \in 0 .. MaxFaults /\ refused \in Nat
  /\ DOMAIN net = Boards /\ \A b \in Boards : net[b] \in Seq(Packets(b, boots[b]))
  /\ slot \in [1 .. Slots -> SlotType]
  /\ \A i \in Active :
       /\ Sound(slot[i], boots[slot[i].src]) /\ slot[i].received \in 1 .. Total - 1
       /\ \A j \in Active \ {i} : slot[j].src # slot[i].src \/ slot[j].seq # slot[i].seq
  /\ out \in [Boards -> Seq([Indices -> AnyPacket])]
  /\ \A b \in Boards : \A k \in DOMAIN out[b] : \A x \in Indices :
       Belongs(out[b][k][x], b, boots[b], out[b][k][0].seq, x)

\* How many fragments of the message after those put together were taken, if
\* nothing was lost.
Progress(b) == Total * nextSeq[b] - Len(net[b]) - Total * Len(out[b])

\* Without faults the fragments under way continue what was put together and what
\* the slot of the next message holds.
InStep(b) ==
  /\ Progress(b) \in 0 .. Total - 1
  /\ \A k \in DOMAIN net[b] :
       Total * (net[b][k].seq - 1) + net[b][k].index = Total * Len(out[b]) + Progress(b) + k - 1
  /\ \A i \in Active : slot[i].src = b =>
       slot[i].seq = Len(out[b]) + 1 /\ Held(slot[i]) = 0 .. Progress(b) - 1
  /\ Progress(b) > 0 => \E i \in Active : slot[i].src = b
  /\ \A k \in DOMAIN out[b] : out[b][k][0].seq = k

Undisturbed == faults = 0 /\ refused = 0 => \A b \in Boards : boots[b] = 0 => InStep(b)

-----------------------------------------------------------------------------
(* Facts about the operators of the model                                    *)

\* Cardinality and <= need that Indices is what it is.
LEMMA Constants ==
  /\ Slots \in Nat \ {0} /\ Total \in Nat /\ Total > 1 /\ MaxSeq \in Nat /\ MaxBoots \in Nat
  /\ MaxFaults \in Nat /\ Nobody \notin Boards
  /\ 0 \in Indices /\ Indices \subseteq Nat /\ \A x \in Indices : x < Total /\ x + 1 \in 1 .. Total
  /\ IsFiniteSet(Indices) /\ Cardinality(Indices) = Total
<1>1. /\ Slots \in Nat \ {0} /\ Total \in Nat /\ Total > 1 /\ MaxSeq \in Nat /\ MaxBoots \in Nat
      /\ MaxFaults \in Nat /\ Nobody \notin Boards
  BY ReassemblyAssumption DEF ReassemblyAssumption
<1>2. IsFiniteSet(Indices) /\ Cardinality(Indices) = Total
  <2>1. 0 \in Int /\ Total - 1 \in Int /\ ~(0 > Total - 1) /\ (Total - 1) - 0 + 1 = Total  BY <1>1
  <2>2. QED  BY <2>1, FS_Interval DEF Indices
<1>3. 0 \in Indices /\ Indices \subseteq Nat /\ \A x \in Indices : x < Total /\ x + 1 \in 1 .. Total
  BY <1>1 DEF Indices
<1>4. QED  BY <1>1, <1>2, <1>3

\* A set of slots that is not empty has a first one.
LEMMA FirstOne ==
  ASSUME NEW T \in SUBSET Nat, T # {}
  PROVE  \E i \in T : \A j \in T : i <= j
<1> DEFINE R == OpToRel(<, Nat)
<1>1. \E i \in T : \A j \in T : ~(<<j, i>> \in R)
  <2>1. IsWellFoundedOn(R, Nat)  BY NatLessThanWellFounded
  <2> HIDE DEF R
  <2>2. QED  BY <2>1, WFMin
<1>2. \A i, j \in Nat : j < i => <<j, i>> \in R  BY DEF OpToRel
<1> HIDE DEF R
<1>3. PICK i \in T : \A j \in T : ~(<<j, i>> \in R)  BY <1>1
<1>4. ASSUME NEW j \in T  PROVE i <= j
  <2>1. i \in Nat /\ j \in Nat /\ ~(j < i)  BY <1>2, <1>3
  <2>2. QED  BY <2>1
<1>5. QED  BY <1>4

\* find_slot finds one of the slots it may find.
LEMMA SlotFound ==
  ASSUME NEW f, Candidates(f) # {}
  PROVE  /\ FindSlot(f) \in Candidates(f) /\ FindSlot(f) \in 1 .. Slots
         /\ IF FindSlot(f) \in Active THEN FindSlot(f) \in Holders(f) ELSE Holders(f) = {}
<1>1. Candidates(f) \subseteq 1 .. Slots  BY DEF Candidates, Holders, Active
<1>2. \E i \in Candidates(f) : \A j \in Candidates(f) : i <= j
  BY <1>1, FirstOne
<1>3. FindSlot(f) \in Candidates(f)  BY <1>2, Zenon DEF FindSlot
<1> DEFINE i == FindSlot(f)
<1> HIDE DEF i
<1>4. i \in Candidates(f) => (IF i \in Active THEN i \in Holders(f) ELSE Holders(f) = {})
  BY Zenon DEF Candidates, Holders
<1>5. QED  BY <1>1, <1>3, <1>4 DEF i

\* A sequence over a set is one over every larger set.
LEMMA SeqGrows ==
  ASSUME NEW S, NEW T, S \subseteq T
  PROVE  Seq(S) \subseteq Seq(T)
<1> SUFFICES ASSUME NEW q \in Seq(S)  PROVE q \in Seq(T)  OBVIOUS
<1>1. \A i \in 1 .. Len(q) : q[i] \in T  BY ElementOfSeq
<1>2. Len(q) \in Nat /\ q = [i \in 1 .. Len(q) |-> q[i]]  BY LenProperties
<1>3. QED  BY <1>1, <1>2

\* A network that lost, repeated or delayed a packet holds no packet it did not
\* hold before.
LEMMA NoOtherPacket ==
  ASSUME NEW S, NEW q \in Seq(S), NEW r \in AfterFault(q, DOMAIN q)
  PROVE  r \in Seq(S)
<1>1. PICK i \in DOMAIN q : r \in {Lost(q, i), Twice(q, i), Later(q, i)}
  BY Zenon DEF AfterFault
<1>2. /\ Len(q) \in Nat /\ i \in 1 .. Len(q) /\ q[i] \in S
      /\ \A j \in 1 .. Len(q) : q[j] \in S
  BY <1>1, LenProperties, ElementOfSeq
<1>3. /\ i \in Int /\ i - 1 \in Int /\ i + 1 \in Int
      /\ \A j \in 1 .. i - 1 : q[j] \in S
      /\ \A j \in i .. Len(q) : q[j] \in S
      /\ \A j \in i + 1 .. Len(q) : q[j] \in S
  BY <1>2
<1>4. /\ SubSeq(q, 1, i - 1) \in Seq(S) /\ SubSeq(q, i + 1, Len(q)) \in Seq(S)
      /\ SubSeq(q, i, Len(q)) \in Seq(S)
  BY <1>2, <1>3, SubSeqProperties
<1>5. RemoveAt(q, i) \in Seq(S)  BY <1>4, ConcatProperties DEF RemoveAt
<1>6. InsertAt(q, i, q[i]) \in Seq(S)
  <2>1. <<q[i]>> \in Seq(S)  BY <1>2
  <2>2. SubSeq(q, 1, i - 1) \o <<q[i]>> \in Seq(S)  BY <2>1, <1>4, ConcatProperties
  <2>3. QED  BY <2>2, <1>4, ConcatProperties DEF InsertAt
<1>7. Append(RemoveAt(q, i), q[i]) \in Seq(S)  BY <1>2, <1>5, AppendProperties
<1>8. QED  BY <1>1, <1>5, <1>6, <1>7, Zenon DEF Lost, Twice, Later

\* The pieces of a message as far as they were sent
LEMMA EmittedPackets ==
  ASSUME Slotted, NEW b \in Boards, nextSeq[b] < MaxSeq, NEW k \in 0 .. Total
  PROVE  /\ Emitted(b, k) \in Seq(Packets(b, boots[b])) /\ Len(Emitted(b, k)) = k
         /\ \A i \in 1 .. k : Emitted(b, k)[i] = Fragment(b, boots[b], nextSeq[b] + 1, i - 1)
<1>1. boots[b] \in Nat /\ nextSeq[b] \in Nat /\ nextSeq[b] + 1 \in 1 .. MaxSeq /\ k \in Nat
      /\ Total \in Nat
  BY Constants DEF Slotted
<1>2. ASSUME NEW i \in 1 .. k
      PROVE  Fragment(b, boots[b], nextSeq[b] + 1, i - 1) \in Packets(b, boots[b])
  <2>1. i - 1 \in Indices  BY <1>1 DEF Indices
  <2>2. QED  BY <1>1, <2>1 DEF Fragment, Packets
<1> DEFINE e == Emitted(b, k)
<1>3. e \in [1 .. k -> Packets(b, boots[b])]
      /\ \A i \in 1 .. k : e[i] = Fragment(b, boots[b], nextSeq[b] + 1, i - 1)
  BY <1>2 DEF Emitted
<1> HIDE DEF e
<1>4. e \in Seq(Packets(b, boots[b])) /\ Len(e) = k  BY <1>1, <1>3, SeqDef, LenProperties
<1>5. QED  BY <1>3, <1>4 DEF e

\* The fields of a fragment
LEMMA PacketFields ==
  ASSUME NEW b \in Boards, NEW n \in Nat, NEW f \in Packets(b, n)
  PROVE  /\ f.src = b /\ f.boot \in 0 .. n /\ f.seq \in 1 .. MaxSeq /\ f.index \in Indices
         /\ f \in AnyPacket /\ f # Nothing /\ f = Fragment(b, f.boot, f.seq, f.index)
<1>1. f.src = b /\ f.boot \in 0 .. n /\ f.seq \in 1 .. MaxSeq /\ f.index \in Indices
  BY DEF Packets
<1>2. f.boot \in Nat /\ f.seq \in Nat /\ f.index \in Nat /\ b # Nobody
  <2>1. \A k \in 1 .. MaxSeq : k \in Nat  BY Constants
  <2>2. \A k \in 0 .. n : k \in Nat  OBVIOUS
  <2>3. f.boot \in Nat /\ f.seq \in Nat  BY <1>1, <2>1, <2>2, Zenon
  <2>4. f.index \in Nat  BY <1>1, Constants, Zenon
  <2>5. b # Nobody  BY Constants, Zenon
  <2>6. QED  BY <2>3, <2>4, <2>5
<1>3. f = [src |-> b, boot |-> f.boot, seq |-> f.seq, index |-> f.index]
  <2>1. f = [src |-> f.src, boot |-> f.boot, seq |-> f.seq, index |-> f.index]  BY DEF Packets
  <2>2. QED  BY <1>1, <2>1, Zenon
<1>4. f \in AnyPacket  BY <1>2, <1>3 DEF AnyPacket
<1>5. Nothing.src = Nobody  BY DEF Nothing, Fragment
<1>6. f # Nothing  BY <1>1, <1>2, <1>5
<1>7. QED  BY <1>1, <1>3, <1>4, <1>6 DEF Fragment

\* The slot a fragment is put in, and with it.
LEMMA OpenedSlot ==
  ASSUME Slotted, NEW b \in Boards, net[b] # <<>>, Candidates(Head(net[b])) # {}
  PROVE  LET f == Head(net[b])
             i == FindSlot(f)
             s == Opened(f, i)
         IN  /\ f \in Packets(b, boots[b]) /\ f.index \in Indices
             /\ i \in 1 .. Slots /\ s \in SlotType /\ s.active = TRUE
             /\ s.src = b /\ s.seq = f.seq /\ Sound(s, boots[b]) /\ s.received \in 0 .. Total - 1
             /\ \A j \in Active \ {i} : slot[j].src # b \/ slot[j].seq # f.seq
             /\ i \in Active => s = slot[i] /\ slot[i].src = b
             /\ i \notin Active => /\ s.received = 0 /\ Held(s) = {}
                                  /\ \A j \in Active : slot[j].src # b \/ slot[j].seq # f.seq
<1> DEFINE f == Head(net[b])
           i == FindSlot(f)
           s == Opened(f, i)
<1>1. f \in Packets(b, boots[b])
  <2>1. net[b] \in Seq(Packets(b, boots[b])) /\ net[b] # <<>>  BY DEF Slotted
  <2>2. QED  BY <2>1, HeadTailProperties
<1>2. /\ f.src = b /\ f.index \in Indices /\ f.seq \in 1 .. MaxSeq /\ f.boot \in 0 .. boots[b]
  BY <1>1 DEF Packets
<1>3. /\ i \in 1 .. Slots
      /\ IF i \in Active THEN i \in Holders(f) ELSE Holders(f) = {}
  BY SlotFound
<1> HIDE DEF f, i
<1>4. slot[i] \in SlotType /\ slot[i].active \in BOOLEAN /\ (i \in Active <=> slot[i].active)
  BY <1>3 DEF Slotted, SlotType, Active
<1>5. CASE i \in Active
  <2>1. i \in Holders(f) /\ slot[i].src = b /\ slot[i].seq = f.seq  BY <1>2, <1>3, <1>5 DEF Holders
  <2>2. s = slot[i] /\ slot[i].active = TRUE  BY <1>4, <1>5 DEF Opened
  <2>3. /\ Sound(slot[i], boots[slot[i].src]) /\ slot[i].received \in 1 .. Total - 1
        /\ \A j \in Active \ {i} : slot[j].src # slot[i].src \/ slot[j].seq # slot[i].seq
    BY <1>5 DEF Slotted
  <2>4. slot[i].received \in 0 .. Total - 1  BY <2>3, Constants
  <2> HIDE DEF s
  <2>5. QED  BY <1>1, <1>2, <1>3, <1>4, <1>5, <2>1, <2>2, <2>3, <2>4 DEF f, i, s
<1>6. CASE i \notin Active
  <2>1. /\ s = [active |-> TRUE, src |-> f.src, seq |-> f.seq, received |-> 0, pieces |-> Cleared(i)]
    BY <1>4, <1>6 DEF Opened
  <2>2. Cleared(i) \in [Indices -> AnyPacket] /\ \A x \in Indices : Cleared(i)[x] = Nothing
    BY DEF Cleared, Nothing, Fragment, AnyPacket
  <2> HIDE DEF s
  <2>3. /\ s \in SlotType /\ s.active = TRUE /\ s.src = b /\ s.seq = f.seq /\ s.received = 0
        /\ s.pieces = Cleared(i)
    BY <1>2, <2>1, <2>2, Constants DEF SlotType
  <2>4. Held(s) = {}  BY <2>2, <2>3 DEF Held
  <2>5. Sound(s, boots[b])
    <3>1. Cardinality({}) = 0  BY FS_EmptySet
    <3>2. QED  BY <1>2, <2>2, <2>3, <2>4, <3>1 DEF Sound
  <2>6. \A j \in Active : slot[j].src # b \/ slot[j].seq # f.seq
    BY <1>2, <1>3, <1>6 DEF Holders
  <2>7. s.received \in 0 .. Total - 1  BY <2>3, Constants
  <2>8. QED  BY <1>1, <1>2, <1>3, <1>6, <2>3, <2>4, <2>5, <2>6, <2>7 DEF f, i, s
<1>7. QED  BY <1>5, <1>6

\* t is the slot s once it also holds f, a fragment of its message.
Taken(t, s, f, n) ==
  /\ t \in SlotType /\ t.active = s.active /\ t.src = s.src /\ t.seq = s.seq
  /\ Held(t) = Held(s) \cup {f.index} /\ f.index \notin Held(s)
  /\ t.received = s.received + 1 /\ t.received \in Nat /\ Sound(t, n)
  /\ t.received = Total => Held(t) = Indices
  /\ t.pieces = [s.pieces EXCEPT ![f.index] = f]

\* The end of bc_reasm_feed: the fragment is held and counted.
LEMMA StoredSlot ==
  ASSUME NEW n \in Nat, NEW b \in Boards, NEW s \in SlotType, NEW f \in Packets(b, n),
         s.src = b, s.seq = f.seq, Sound(s, n), ~Duplicate(f, s)
  PROVE  Taken(Stored(f, s), s, f, n)
<1> DEFINE t == Stored(f, s)
<1>1. /\ f.src = b /\ f.index \in Indices /\ f.seq \in 1 .. MaxSeq /\ f \in AnyPacket /\ f # Nothing
      /\ Belongs(f, b, n, f.seq, f.index)
  BY PacketFields DEF Belongs
<1>2. s.received \in Nat /\ s.pieces \in [Indices -> AnyPacket]  BY DEF SlotType
<1>3. /\ t \in SlotType /\ t.active = s.active /\ t.src = s.src /\ t.seq = s.seq
      /\ t.received = s.received + 1 /\ t.pieces = [s.pieces EXCEPT ![f.index] = f]
  <2>1. [s.pieces EXCEPT ![f.index] = f] \in [Indices -> AnyPacket] /\ s.received + 1 \in Nat
    BY <1>1, <1>2
  <2>2. t = [s EXCEPT !.received = s.received + 1, !.pieces = [s.pieces EXCEPT ![f.index] = f]]
    BY DEF Stored, SlotType
  <2> HIDE DEF t
  <2>3. QED  BY <2>1, <2>2 DEF SlotType
<1> HIDE DEF t
<1>4. f.index \notin Held(s)  BY DEF Held, Duplicate
<1>5. Held(t) = Held(s) \cup {f.index}  BY <1>1, <1>2, <1>3 DEF Held
<1>6. IsFiniteSet(Held(s)) /\ Held(s) \subseteq Indices /\ Held(t) \subseteq Indices
  <2>1. Held(s) \subseteq Indices /\ Held(t) \subseteq Indices  BY DEF Held
  <2>2. QED  BY <2>1, Constants, FS_Subset
<1>7. Cardinality(Held(t)) = Cardinality(Held(s)) + 1  BY <1>4, <1>5, <1>6, FS_AddElement
<1>8. t.received = Cardinality(Held(t))  BY <1>3, <1>7 DEF Sound
<1>9. Sound(t, n)
  <2>1. \A x \in Indices : t.pieces[x] = Nothing \/ Belongs(t.pieces[x], b, n, f.seq, x)
    <3> TAKE x \in Indices
    <3>1. CASE x = f.index  BY <1>1, <1>2, <1>3, <3>1
    <3>2. CASE x # f.index  BY <1>1, <1>2, <1>3, <3>2 DEF Sound
    <3>3. QED  BY <3>1, <3>2
  <2>2. QED  BY <1>1, <1>3, <1>8, <2>1 DEF Sound
<1>10. t.received = Total => Held(t) = Indices
  <2>1. SUFFICES ASSUME t.received = Total  PROVE Held(t) = Indices  OBVIOUS
  <2>2. Cardinality(Held(t)) = Cardinality(Indices) /\ IsFiniteSet(Indices)
    BY <1>8, <2>1, Constants
  <2>3. QED  BY <1>6, <2>2, FS_Subset
<1>11. QED  BY <1>2, <1>3, <1>4, <1>5, <1>9, <1>10 DEF t, Taken

\* What is right up to one boot is right up to a later one.
LEMMA LaterBoots ==
  ASSUME NEW m \in Nat, NEW n \in Nat, m <= n
  PROVE  /\ \A b : Packets(b, m) \subseteq Packets(b, n)
         /\ \A b : Seq(Packets(b, m)) \subseteq Seq(Packets(b, n))
         /\ \A s : Sound(s, m) => Sound(s, n)
         /\ \A p, b, seq, x : Belongs(p, b, m, seq, x) => Belongs(p, b, n, seq, x)
<1>1. \A b : Packets(b, m) \subseteq Packets(b, n)
  <2>1. \A k \in 0 .. m : k \in 0 .. n  OBVIOUS
  <2>2. QED  BY <2>1 DEF Packets
<1>2. \A b : Seq(Packets(b, m)) \subseteq Seq(Packets(b, n))  BY <1>1, SeqGrows
<1>3. \A p, b, seq, x : Belongs(p, b, m, seq, x) => Belongs(p, b, n, seq, x)
  BY <1>1, Zenon DEF Belongs
<1>4. \A s : Sound(s, m) => Sound(s, n)  BY <1>3, Zenon DEF Sound
<1>5. QED  BY <1>1, <1>2, <1>3, <1>4

LEMMA SlottedInit == Init => Slotted
<1> SUFFICES ASSUME Init  PROVE Slotted  OBVIOUS
<1>1. Active = {}  BY DEF Init, Active
<1>2. slot \in [1 .. Slots -> SlotType]
  <2>1. [x \in Indices |-> Nothing] \in [Indices -> AnyPacket]  BY DEF Nothing, Fragment, AnyPacket
  <2>2. QED  BY <2>1, Constants DEF Init, SlotType
<1>3. /\ boots \in [Boards -> 0 .. MaxBoots] /\ nextSeq \in [Boards -> 0 .. MaxSeq]
      /\ faults \in 0 .. MaxFaults /\ refused \in Nat
  BY Constants DEF Init
<1>4. DOMAIN net = Boards /\ \A b \in Boards : net[b] \in Seq(Packets(b, boots[b]))
  <2>1. \A b : <<>> \in Seq(Packets(b, boots[b]))  BY EmptySeq
  <2>2. QED  BY <2>1 DEF Init
<1>5. out \in [Boards -> Seq([Indices -> AnyPacket])] /\ \A b \in Boards : DOMAIN out[b] = {}
  <2>1. <<>> \in Seq([Indices -> AnyPacket]) /\ DOMAIN <<>> = {}  BY EmptySeq
  <2>2. QED  BY <2>1 DEF Init
<1>6. QED  BY <1>1, <1>2, <1>3, <1>4, <1>5, Zenon DEF Slotted

LEMMA SlottedStep ==
  ASSUME Slotted, [Next]_vars
  PROVE  Slotted'
<1>1. /\ boots \in [Boards -> 0 .. MaxBoots] /\ nextSeq \in [Boards -> 0 .. MaxSeq]
      /\ faults \in 0 .. MaxFaults /\ refused \in Nat
      /\ DOMAIN net = Boards /\ \A b \in Boards : net[b] \in Seq(Packets(b, boots[b]))
      /\ slot \in [1 .. Slots -> SlotType]
      /\ \A i \in Active :
           /\ Sound(slot[i], boots[slot[i].src]) /\ slot[i].received \in 1 .. Total - 1
           /\ \A j \in Active \ {i} : slot[j].src # slot[i].src \/ slot[j].seq # slot[i].seq
      /\ out \in [Boards -> Seq([Indices -> AnyPacket])]
      /\ \A b \in Boards : \A k \in DOMAIN out[b] : \A x \in Indices :
           Belongs(out[b][k][x], b, boots[b], out[b][k][0].seq, x)
  BY DEF Slotted
<1>2. \A b \in Boards : boots[b] \in Nat /\ nextSeq[b] \in Nat
  BY <1>1, Constants
\* Slots and results do not change.
<1>3. ASSUME UNCHANGED <<slot, out>>, boots' \in [Boards -> 0 .. MaxBoots],
             nextSeq' \in [Boards -> 0 .. MaxSeq], faults' \in 0 .. MaxFaults, refused' \in Nat,
             \A b \in Boards : boots[b] <= boots'[b], DOMAIN net' = Boards,
             \A b \in Boards : net'[b] \in Seq(Packets(b, boots'[b]))
      PROVE  Slotted'
  <2>1. \A b \in Boards : boots'[b] \in Nat  BY <1>3, Constants
  <2>2. \A i \in Active : slot[i].src \in Boards  BY <1>1 DEF Sound
  <2>3. \A i \in Active : Sound(slot[i], boots'[slot[i].src])
    BY <1>1, <1>2, <1>3, <2>1, <2>2, LaterBoots
  <2>4. \A b \in Boards : \A k \in DOMAIN out[b] : \A x \in Indices :
          Belongs(out[b][k][x], b, boots'[b], out[b][k][0].seq, x)
    BY <1>1, <1>2, <1>3, <2>1, LaterBoots
  <2>5. Active' = Active /\ slot' = slot /\ out' = out  BY <1>3 DEF Active
  <2>6. QED  BY <1>1, <1>3, <2>3, <2>4, <2>5, Zenon DEF Slotted
<1>4. ASSUME NEW b \in Boards, Publish(b)  PROVE Slotted'
  <2>1. /\ nextSeq[b] < MaxSeq /\ nextSeq' = [nextSeq EXCEPT ![b] = @ + 1]
        /\ net' = [net EXCEPT ![b] = @ \o Emitted(b, Total)]
        /\ UNCHANGED <<boots, slot, out, faults, refused>>
    BY <1>4 DEF Publish
  <2>2. Total \in 0 .. Total  BY Constants
  <2>3. net[b] \o Emitted(b, Total) \in Seq(Packets(b, boots[b]))
    BY <1>1, <2>1, <2>2, EmittedPackets, ConcatProperties
  <2>4. DOMAIN net' = Boards /\ \A c \in Boards : net'[c] \in Seq(Packets(c, boots'[c]))
    BY <1>1, <2>1, <2>3
  <2>5. nextSeq' \in [Boards -> 0 .. MaxSeq]  BY <1>1, <1>2, <2>1, Constants
  <2>6. QED  BY <1>1, <1>2, <1>3, <2>1, <2>4, <2>5
<1>5. ASSUME NEW b \in Boards, PublishBreaks(b)  PROVE Slotted'
  <2>1. /\ nextSeq[b] < MaxSeq /\ nextSeq' = [nextSeq EXCEPT ![b] = @ + 1]
        /\ UNCHANGED <<boots, slot, out, refused>> /\ faults < MaxFaults /\ faults' = faults + 1
    BY <1>5 DEF PublishBreaks
  <2>2. PICK k \in 0 .. Total - 1 : net' = [net EXCEPT ![b] = @ \o Emitted(b, k)]
    BY <1>5 DEF PublishBreaks
  <2>3. k \in 0 .. Total  BY Constants
  <2>4. net[b] \o Emitted(b, k) \in Seq(Packets(b, boots[b]))
    BY <1>1, <2>1, <2>3, EmittedPackets, ConcatProperties
  <2>5. DOMAIN net' = Boards /\ \A c \in Boards : net'[c] \in Seq(Packets(c, boots'[c]))
    BY <1>1, <2>1, <2>2, <2>4
  <2>6. nextSeq' \in [Boards -> 0 .. MaxSeq] /\ faults' \in 0 .. MaxFaults
    BY <1>1, <1>2, <2>1, Constants
  <2>7. QED  BY <1>1, <1>2, <1>3, <2>1, <2>5, <2>6
<1>6. ASSUME NEW b \in Boards, Restart(b)  PROVE Slotted'
  <2>1. /\ boots[b] < MaxBoots /\ boots' = [boots EXCEPT ![b] = @ + 1]
        /\ nextSeq' = [nextSeq EXCEPT ![b] = 0] /\ UNCHANGED <<net, slot, out, faults, refused>>
    BY <1>6 DEF Restart
  <2>2. /\ boots' \in [Boards -> 0 .. MaxBoots] /\ nextSeq' \in [Boards -> 0 .. MaxSeq]
        /\ \A c \in Boards : boots[c] <= boots'[c] /\ boots'[c] \in Nat
    BY <1>1, <1>2, <2>1, Constants
  <2>3. \A c \in Boards : net'[c] \in Seq(Packets(c, boots'[c]))
    BY <1>1, <1>2, <2>1, <2>2, LaterBoots
  <2>4. QED  BY <1>1, <1>3, <2>1, <2>2, <2>3
<1>7. ASSUME NEW b \in Boards, Disturb(b)  PROVE Slotted'
  <2>1. faults < MaxFaults /\ faults' = faults + 1 /\ UNCHANGED <<boots, nextSeq, slot, out, refused>>
    BY <1>7 DEF Disturb
  <2>2. PICK q \in AfterFault(net[b], DOMAIN net[b]) : net' = [net EXCEPT ![b] = q]
    BY <1>7 DEF Disturb
  <2>3. q \in Seq(Packets(b, boots[b]))  BY <1>1, NoOtherPacket
  <2>4. DOMAIN net' = Boards /\ \A c \in Boards : net'[c] \in Seq(Packets(c, boots'[c]))
    BY <1>1, <2>1, <2>2, <2>3
  <2>5. faults' \in 0 .. MaxFaults  BY <1>1, <2>1, Constants
  <2>6. QED  BY <1>1, <1>2, <1>3, <2>1, <2>4, <2>5
\* A fragment arrives.
<1>8. ASSUME NEW b \in Boards, Arrives(b), UNCHANGED boots
      PROVE  DOMAIN net' = Boards /\ \A c \in Boards : net'[c] \in Seq(Packets(c, boots'[c]))
  <2>1. net[b] # <<>> /\ net' = [net EXCEPT ![b] = Tail(@)]  BY <1>8 DEF Arrives
  <2>2. Tail(net[b]) \in Seq(Packets(b, boots[b]))  BY <1>1, <2>1, HeadTailProperties
  <2>3. QED  BY <1>1, <1>8, <2>1, <2>2
<1>9. ASSUME NEW b \in Boards, FeedRefused(b)  PROVE Slotted'
  <2>1. Arrives(b) /\ refused' = refused + 1 /\ UNCHANGED <<boots, nextSeq, slot, out, faults>>
    BY <1>9 DEF FeedRefused
  <2>2. refused' \in Nat  BY <1>1, <2>1
  <2>3. QED  BY <1>1, <1>2, <1>3, <1>8, <2>1, <2>2
<1>10. ASSUME NEW b \in Boards, Feed(b)  PROVE Slotted'
  <2> DEFINE f == Head(net[b])
             i == FindSlot(f)
             s == Opened(f, i)
             t == Stored(f, s)
  <2>1. /\ Arrives(b) /\ net[b] # <<>> /\ Candidates(f) # {}
        /\ UNCHANGED <<boots, nextSeq, faults, refused>>
        /\ \/ UNCHANGED <<slot, out>>
           \/ ~Duplicate(f, s) /\ t.received < Total /\ slot' = [slot EXCEPT ![i] = t] /\ out' = out
           \/ /\ ~Duplicate(f, s) /\ t.received = Total
              /\ slot' = [slot EXCEPT ![i] = [t EXCEPT !.active = FALSE]]
              /\ out' = [out EXCEPT ![b] = Append(@, t.pieces)]
    BY <1>10 DEF Feed, Arrives, Released
  <2>2. /\ f \in Packets(b, boots[b]) /\ f.index \in Indices
        /\ i \in 1 .. Slots /\ s \in SlotType /\ s.active = TRUE
        /\ s.src = b /\ s.seq = f.seq /\ Sound(s, boots[b]) /\ s.received \in 0 .. Total - 1
        /\ \A j \in Active \ {i} : slot[j].src # b \/ slot[j].seq # f.seq
    BY <2>1, OpenedSlot
  <2> HIDE DEF f, i, s
  <2>3. ~Duplicate(f, s) => Taken(t, s, f, boots[b])
    <3>1. boots[b] \in Nat  BY <1>2
    <3>2. ~Duplicate(f, s) => Taken(Stored(f, s), s, f, boots[b])  BY <2>2, <3>1, StoredSlot
    <3>3. QED  BY <3>2
  <2> HIDE DEF t
  <2>4. ~Duplicate(f, s) =>
        /\ t \in SlotType /\ t.active = TRUE /\ t.src = b /\ t.seq = f.seq
        /\ t.received = s.received + 1 /\ t.received \in Nat /\ Sound(t, boots[b])
        /\ t.received = Total => Held(t) = Indices
    BY <2>2, <2>3 DEF Taken
  <2>5. CASE UNCHANGED <<slot, out>>  BY <1>1, <1>2, <1>3, <1>8, <2>1, <2>5
  <2>6. CASE ~Duplicate(f, s) /\ t.received < Total /\ slot' = [slot EXCEPT ![i] = t] /\ out' = out
    <3>1. slot' \in [1 .. Slots -> SlotType] /\ slot'[i] = t /\ t.active = TRUE
          /\ \A j \in 1 .. Slots \ {i} : slot'[j] = slot[j]
      BY <1>1, <2>2, <2>4, <2>6
    <3>2. Active' = Active \cup {i} /\ i \in 1 .. Slots /\ Active \subseteq 1 .. Slots
      BY <2>2, <3>1 DEF Active
    <3>3. t.received \in 1 .. Total - 1  BY <2>2, <2>4, <2>6, Constants
    <3>4. \A j \in Active' :
            /\ Sound(slot'[j], boots[slot'[j].src]) /\ slot'[j].received \in 1 .. Total - 1
            /\ \A k \in Active' \ {j} : slot'[k].src # slot'[j].src \/ slot'[k].seq # slot'[j].seq
      <4> SUFFICES ASSUME NEW j \in Active \cup {i}
                   PROVE  /\ Sound(slot'[j], boots[slot'[j].src]) /\ slot'[j].received \in 1 .. Total - 1
                          /\ \A k \in (Active \cup {i}) \ {j} :
                               slot'[k].src # slot'[j].src \/ slot'[k].seq # slot'[j].seq
        BY <3>2
      <4>1. CASE j = i  BY <2>2, <2>4, <2>6, <3>1, <3>2, <3>3, <4>1
      <4>2. CASE j # i
        <5>1. j \in Active /\ slot'[j] = slot[j]  BY <3>1, <3>2, <4>2
        <5>2. \A k \in Active \ {j} : slot[k].src # slot[j].src \/ slot[k].seq # slot[j].seq
          BY <1>1, <5>1
        <5>3. slot[j].src # t.src \/ slot[j].seq # t.seq  BY <2>2, <2>4, <2>6, <4>2, <5>1
        <5>4. QED  BY <1>1, <3>1, <3>2, <5>1, <5>2, <5>3
      <4>3. QED  BY <4>1, <4>2
    <3>5. QED  BY <1>1, <1>8, <2>1, <2>6, <3>1, <3>4, Zenon DEF Slotted
  <2>7. CASE /\ ~Duplicate(f, s) /\ t.received = Total
             /\ slot' = [slot EXCEPT ![i] = [t EXCEPT !.active = FALSE]]
             /\ out' = [out EXCEPT ![b] = Append(@, t.pieces)]
    <3>1. [t EXCEPT !.active = FALSE] \in SlotType /\ [t EXCEPT !.active = FALSE].active = FALSE
      BY <2>4, <2>7 DEF SlotType
    <3>2. slot' \in [1 .. Slots -> SlotType] /\ slot'[i].active = FALSE
          /\ \A j \in 1 .. Slots \ {i} : slot'[j] = slot[j]
      BY <1>1, <2>2, <2>7, <3>1
    <3>3. Active' = Active \ {i} /\ Active \subseteq 1 .. Slots  BY <3>2 DEF Active
    <3>4. \A j \in Active' :
            /\ Sound(slot'[j], boots[slot'[j].src]) /\ slot'[j].received \in 1 .. Total - 1
            /\ \A k \in Active' \ {j} : slot'[k].src # slot'[j].src \/ slot'[k].seq # slot'[j].seq
      <4>1. \A j \in Active' : slot'[j] = slot[j] /\ j \in Active  BY <3>2, <3>3
      <4>2. QED  BY <1>1, <4>1
    <3>5. \A x \in Indices : Belongs(t.pieces[x], b, boots[b], t.pieces[0].seq, x)
      <4>1. \A x \in Indices : t.pieces[x] # Nothing  BY <2>4, <2>7 DEF Held
      <4>2. \A x \in Indices : Belongs(t.pieces[x], b, boots[b], t.seq, x)
        BY <2>4, <2>7, <4>1 DEF Sound
      <4>3. t.pieces[0].seq = t.seq  BY <4>2, Constants DEF Belongs
      <4>4. QED  BY <4>2, <4>3
    <3> DEFINE more == Append(out[b], t.pieces)
    <3>6. /\ t.pieces \in [Indices -> AnyPacket] /\ out[b] \in Seq([Indices -> AnyPacket])
      BY <1>1, <2>4, <2>7 DEF SlotType
    <3>7. /\ more \in Seq([Indices -> AnyPacket]) /\ DOMAIN more = 1 .. Len(out[b]) + 1
          /\ DOMAIN out[b] = 1 .. Len(out[b]) /\ Len(out[b]) \in Nat
          /\ more[Len(out[b]) + 1] = t.pieces /\ \A k \in 1 .. Len(out[b]) : more[k] = out[b][k]
      BY <3>6, AppendProperties, LenProperties
    <3> HIDE DEF more
    <3>8. \A k \in DOMAIN more : \A x \in Indices : Belongs(more[k][x], b, boots[b], more[k][0].seq, x)
      <4> SUFFICES ASSUME NEW k \in 1 .. Len(out[b]) + 1
                   PROVE  \A x \in Indices : Belongs(more[k][x], b, boots[b], more[k][0].seq, x)
        BY <3>7
      <4>1. CASE k = Len(out[b]) + 1  BY <3>5, <3>7, <4>1
      <4>2. CASE k \in 1 .. Len(out[b])  BY <1>1, <3>7, <4>2
      <4>3. QED  BY <3>7, <4>1, <4>2
    <3>9. out' = [out EXCEPT ![b] = more]  BY <2>7 DEF more
    <3>10. /\ out' \in [Boards -> Seq([Indices -> AnyPacket])]
           /\ \A c \in Boards : \A k \in DOMAIN out'[c] : \A x \in Indices :
                Belongs(out'[c][k][x], c, boots[c], out'[c][k][0].seq, x)
      BY <1>1, <3>7, <3>8, <3>9
    <3>11. QED  BY <1>1, <1>8, <2>1, <3>2, <3>4, <3>10, Zenon DEF Slotted
  <2>8. QED  BY <2>1, <2>5, <2>6, <2>7
<1>11. CASE UNCHANGED vars
  <2>1. \A b \in Boards : boots[b] <= boots'[b]  BY <1>2, <1>11 DEF vars
  <2>2. QED  BY <1>1, <1>3, <1>11, <2>1 DEF vars
<1>12. QED  BY <1>4, <1>5, <1>6, <1>7, <1>9, <1>10, <1>11 DEF Next

LEMMA AlwaysSlotted == Spec => []Slotted
<1>1. QED  BY SlottedInit, SlottedStep, PTL DEF Spec

-----------------------------------------------------------------------------
(* What comes in is kept apart                                               *)

\* However often the boards restart and whatever the network does, a slot that is
\* active counts what it holds, still misses something, and is the only one of
\* its message: find_slot never opens a second one.
THEOREM SlotsStaySound == Spec => []TypeOK
<1>1. Slotted => TypeOK
  <2> SUFFICES ASSUME Slotted  PROVE TypeOK  OBVIOUS
  <2>1. \A i \in Active :
          /\ Sound(slot[i], boots[slot[i].src]) /\ slot[i].received \in 1 .. Total - 1
          /\ \A j \in Active \ {i} : slot[j].src # slot[i].src \/ slot[j].seq # slot[i].seq
    BY DEF Slotted
  <2>2. \A i \in Active :
          /\ slot[i].src \in Boards /\ slot[i].seq \in 1 .. MaxSeq
          /\ slot[i].received = Cardinality(Held(slot[i]))
    BY <2>1 DEF Sound
  <2>3. \A i \in Active : \A j \in Active \ {i} :
          <<slot[j].src, slot[j].seq>> # <<slot[i].src, slot[i].seq>>
    BY <2>1
  <2>4. QED  BY <2>1, <2>2, <2>3 DEF Slotted, TypeOK
<1>2. QED  BY <1>1, AlwaysSlotted, PTL

\* What bc_reasm_feed hands on of a board that never restarted is one message of
\* it, each piece in its place; a restarted board may find its old slot again,
\* which is why the property says nothing of it.
THEOREM NoForeignPieces == Spec => []Unmixed
<1>1. Slotted => Unmixed
  <2> SUFFICES ASSUME Slotted, NEW b \in Boards, boots[b] = 0, NEW k \in DOMAIN out[b],
                      NEW x \in Indices
               PROVE  out[b][k][x] = Fragment(b, 0, out[b][k][0].seq, x)
    BY DEF Unmixed
  <2> DEFINE p == out[b][k][x]
  <2>1. Belongs(p, b, 0, out[b][k][0].seq, x)  BY DEF Slotted
  <2> HIDE DEF p
  <2>2. p \in Packets(b, 0) /\ p.seq = out[b][k][0].seq /\ p.index = x  BY <2>1 DEF Belongs
  <2>3. p = Fragment(b, p.boot, p.seq, p.index) /\ p.boot \in 0 .. 0  BY <2>2, PacketFields
  <2>4. p.boot = 0  BY <2>3
  <2>5. QED  BY <2>2, <2>3, <2>4, Zenon DEF p
<1>2. QED  BY <1>1, AlwaysSlotted, PTL

-----------------------------------------------------------------------------
(* Without faults nothing is lost                                            *)

\* Quotient and remainder are unique.
LEMMA Unique ==
  ASSUME NEW T \in Nat \ {0}, NEW a \in Int, NEW b \in Int,
         NEW x \in 0 .. T - 1, NEW y \in 0 .. T - 1, T * a + x = T * b + y
  PROVE  a = b /\ x = y
<1>1. ASSUME NEW d \in Int, d >= 1  PROVE T * d >= T
  <2>1. T * d = T + T * (d - 1)  OBVIOUS
  <2>2. d - 1 \in Nat  BY <1>1
  <2>3. \A m, n \in Nat : m * n >= 0 /\ m * n \in Nat  OBVIOUS
  <2>4. T * (d - 1) >= 0 /\ T * (d - 1) \in Nat  BY <2>2, <2>3
  <2>5. QED  BY <2>1, <2>4
<1>2. T * (a - b) = y - x /\ T * (b - a) = x - y  OBVIOUS
<1>3. ~(a - b >= 1)
  <2>1. a - b >= 1 => T * (a - b) >= T  BY <1>1
  <2>2. QED  BY <1>2, <2>1
<1>4. ~(b - a >= 1)
  <2>1. b - a >= 1 => T * (b - a) >= T  BY <1>1
  <2>2. QED  BY <1>2, <2>1
<1>5. a = b  BY <1>3, <1>4
<1>6. QED  BY <1>5

\* The numbers InStep is about
LEMMA Counts ==
  ASSUME Slotted, NEW b \in Boards
  PROVE  /\ nextSeq[b] \in Nat /\ boots[b] \in Nat /\ Total \in Nat \ {0}
         /\ Len(net[b]) \in Nat /\ DOMAIN net[b] = 1 .. Len(net[b])
         /\ Len(out[b]) \in Nat /\ DOMAIN out[b] = 1 .. Len(out[b])
         /\ Total * nextSeq[b] \in Int /\ Total * Len(out[b]) \in Int /\ Progress(b) \in Int
         /\ \A k \in DOMAIN net[b] : net[b][k] \in Packets(b, boots[b])
<1>1. nextSeq[b] \in Nat /\ boots[b] \in Nat /\ Total \in Nat \ {0}  BY Constants DEF Slotted
<1>2. net[b] \in Seq(Packets(b, boots[b])) /\ out[b] \in Seq([Indices -> AnyPacket])
  BY DEF Slotted
<1>3. /\ Len(net[b]) \in Nat /\ DOMAIN net[b] = 1 .. Len(net[b])
      /\ Len(out[b]) \in Nat /\ DOMAIN out[b] = 1 .. Len(out[b])
      /\ \A k \in DOMAIN net[b] : net[b][k] \in Packets(b, boots[b])
  BY <1>2, LenProperties, ElementOfSeq
<1>4. Total * nextSeq[b] \in Int /\ Total * Len(out[b]) \in Int  BY <1>1, <1>3
<1>5. Progress(b) \in Int  BY <1>3, <1>4 DEF Progress
<1>6. QED  BY <1>1, <1>3, <1>4, <1>5

LEMMA UndisturbedInit == Init => Undisturbed
<1> SUFFICES ASSUME Init, NEW b \in Boards  PROVE InStep(b)  BY DEF Undisturbed
<1>1. Active = {}  BY DEF Init, Active
<1>2. net[b] = <<>> /\ out[b] = <<>> /\ nextSeq[b] = 0  BY DEF Init
<1>3. Len(net[b]) = 0 /\ Len(out[b]) = 0 /\ DOMAIN net[b] = {} /\ DOMAIN out[b] = {}
  BY <1>2, EmptySeq
<1>4. Total * 0 = 0 /\ 0 \in 0 .. Total - 1  BY Constants
<1>5. Progress(b) = 0  BY <1>2, <1>3, <1>4 DEF Progress
<1>6. ~(Progress(b) > 0) /\ Progress(b) \in 0 .. Total - 1  BY <1>4, <1>5
<1>7. QED  BY <1>1, <1>3, <1>6, Zenon DEF InStep

\* A step that leaves the board, its fragments and its slots alone
LEMMA OthersInStep ==
  ASSUME NEW b, InStep(b), nextSeq'[b] = nextSeq[b], net'[b] = net[b], out'[b] = out[b],
         \A i : i \in Active' /\ slot'[i].src = b <=> i \in Active /\ slot[i].src = b,
         \A i \in Active : slot[i].src = b => slot'[i] = slot[i]
  PROVE  InStep(b)'
<1>1. Progress(b)' = Progress(b)  BY DEF Progress
<1>2. \A k \in DOMAIN net'[b] :
        Total * (net'[b][k].seq - 1) + net'[b][k].index
          = Total * Len(out'[b]) + Progress(b)' + k - 1
  BY <1>1 DEF InStep
<1>3. /\ \A i \in Active' : slot'[i].src = b =>
           slot'[i].seq = Len(out'[b]) + 1 /\ Held(slot'[i]) = 0 .. Progress(b)' - 1
      /\ Progress(b)' > 0 => \E i \in Active' : slot'[i].src = b
  BY <1>1 DEF InStep
<1>4. Progress(b)' \in 0 .. Total - 1 /\ \A k \in DOMAIN out'[b] : out'[b][k][0].seq = k
  BY <1>1 DEF InStep
<1>5. QED  BY <1>2, <1>3, <1>4, Zenon DEF InStep

\* bc_fragment_publish, all of it
LEMMA PublishInStep ==
  ASSUME Slotted, NEW b \in Boards, InStep(b), Publish(b)
  PROVE  InStep(b)'
<1>1. /\ nextSeq[b] < MaxSeq /\ nextSeq' = [nextSeq EXCEPT ![b] = @ + 1]
      /\ net' = [net EXCEPT ![b] = @ \o Emitted(b, Total)]
      /\ UNCHANGED <<slot, out>>
  BY DEF Publish
<1>2. PICK n, l, w, o, e :
        /\ n = nextSeq[b] /\ l = Len(net[b]) /\ w = Total * nextSeq[b] /\ o = Total * Len(out[b])
        /\ e = Emitted(b, Total)
  OBVIOUS
<1>3. /\ n \in Int /\ l \in Nat /\ w \in Int /\ o \in Int /\ Total \in Nat
      /\ DOMAIN net[b] = 1 .. l /\ Progress(b) = w - l - o
  BY <1>2, Counts DEF Progress
<1>4. /\ e \in Seq(Packets(b, boots[b])) /\ Len(e) = Total
      /\ \A i \in 1 .. Total : e[i] = Fragment(b, boots[b], n + 1, i - 1)
  <2>1. Total \in 0 .. Total  BY <1>3
  <2>2. QED  BY <1>1, <1>2, <2>1, EmittedPackets
<1>5. /\ net[b] \in Seq(Packets(b, boots[b])) /\ Len(net[b]) = l
      /\ nextSeq'[b] = n + 1 /\ net'[b] = net[b] \o e
  BY <1>1, <1>2 DEF Slotted
<1>6. Total * n = w /\ Total * (n + 1) = w + Total
  BY <1>2, <1>3
<1>7. /\ DOMAIN net'[b] = 1 .. l + Total /\ Len(net'[b]) = l + Total
      /\ \A k \in 1 .. l : net'[b][k] = net[b][k]
      /\ \A k \in l + 1 .. l + Total : net'[b][k] = e[k - l]
  <2>1. PICK q : q = net[b] \o e  OBVIOUS
  <2>2. /\ q \in Seq(Packets(b, boots[b])) /\ Len(q) = Len(net[b]) + Len(e)
        /\ \A k \in 1 .. Len(net[b]) + Len(e) :
             q[k] = IF k <= Len(net[b]) THEN net[b][k] ELSE e[k - Len(net[b])]
    BY <1>4, <1>5, <2>1, ConcatProperties
  <2>3. /\ Len(q) = l + Total /\ DOMAIN q = 1 .. l + Total
        /\ \A k \in 1 .. l + Total : q[k] = IF k <= l THEN net[b][k] ELSE e[k - l]
    BY <1>4, <1>5, <2>2, LenProperties
  <2>4. /\ \A k \in 1 .. l : k <= l /\ k \in 1 .. l + Total
        /\ \A k \in l + 1 .. l + Total : ~(k <= l) /\ k \in 1 .. l + Total
    BY <1>3
  <2>5. net'[b] = q  BY <1>5, <2>1
  <2>6. QED  BY <2>3, <2>4, <2>5
<1>8. Progress(b)' = Progress(b)
  <2>1. Progress(b)' = Total * (n + 1) - (l + Total) - o
    BY <1>1, <1>2, <1>5, <1>7 DEF Progress
  <2>2. Progress(b)' = (w + Total) - (l + Total) - o  BY <1>6, <2>1, Zenon
  <2>3. QED  BY <1>3, <2>2
<1>9. ASSUME NEW k \in DOMAIN net'[b]
      PROVE  Total * (net'[b][k].seq - 1) + net'[b][k].index = o + Progress(b) + k - 1
  <2>1. CASE k \in 1 .. l
    <3>1. Total * (net[b][k].seq - 1) + net[b][k].index = Total * Len(out[b]) + Progress(b) + k - 1
      BY <1>3, <2>1 DEF InStep
    <3>2. QED  BY <1>2, <1>7, <2>1, <3>1
  <2>2. CASE k \in l + 1 .. l + Total
    <3>1. k - l \in 1 .. Total /\ k \in Int  BY <1>3, <2>2
    <3>2. net'[b][k] = e[k - l]  BY <1>7, <2>2
    <3>3. net'[b][k].seq = n + 1 /\ net'[b][k].index = k - l - 1
      BY <1>4, <3>1, <3>2 DEF Fragment
    <3>4. net'[b][k].seq - 1 = n  BY <1>3, <3>3
    <3>5. Total * (net'[b][k].seq - 1) = w  BY <1>6, <3>4
    <3>6. w + (k - l - 1) = o + (w - l - o) + k - 1  BY <1>3, <3>1
    <3>7. QED  BY <1>3, <3>3, <3>5, <3>6
  <2>3. \A j \in 1 .. l + Total : j \in 1 .. l \/ j \in l + 1 .. l + Total  BY <1>3
  <2>4. QED  BY <1>7, <2>1, <2>2, <2>3
<1>10. Active' = Active /\ out'[b] = out[b] /\ slot' = slot  BY <1>1 DEF Active
<1>11. QED  BY <1>2, <1>8, <1>9, <1>10 DEF InStep

\* The fragment that arrives is the next one, and its slot holds all before it.
LEMMA HeadInStep ==
  ASSUME Slotted, NEW b \in Boards, InStep(b), net[b] # <<>>, Candidates(Head(net[b])) # {}
  PROVE  LET f == Head(net[b])
             s == Opened(f, FindSlot(f))
         IN  /\ f.seq = Len(out[b]) + 1 /\ f.index = Progress(b)
             /\ Held(s) = 0 .. Progress(b) - 1 /\ s.received = Progress(b)
             /\ \A j \in Active \ {FindSlot(f)} : slot[j].src # b
<1> DEFINE f == Head(net[b])
           i == FindSlot(f)
           s == Opened(f, i)
<1>1. /\ f \in Packets(b, boots[b]) /\ f.index \in Indices
      /\ s.seq = f.seq /\ Sound(s, boots[b])
      /\ \A j \in Active \ {i} : slot[j].src # b \/ slot[j].seq # f.seq
      /\ i \in Active => s = slot[i] /\ slot[i].src = b
      /\ i \notin Active => /\ s.received = 0 /\ Held(s) = {}
                           /\ \A j \in Active : slot[j].src # b \/ slot[j].seq # f.seq
  BY OpenedSlot
<1>2. f = net[b][1] /\ 1 \in DOMAIN net[b]
  <2>1. net[b] \in Seq(Packets(b, boots[b])) /\ net[b] # <<>>  BY DEF Slotted
  <2>2. Head(net[b]) = net[b][1] /\ Len(net[b]) \in Nat /\ DOMAIN net[b] = 1 .. Len(net[b])
        /\ Len(net[b]) # 0
    BY <2>1, HeadTailProperties, LenProperties, EmptySeq
  <2>3. QED  BY <2>2
<1> HIDE DEF f, i, s
<1>3. /\ Len(out[b]) \in Nat /\ Total \in Nat \ {0} /\ boots[b] \in Nat
      /\ Progress(b) \in 0 .. Total - 1 /\ Total * Len(out[b]) \in Int
  BY Counts DEF InStep
<1>4. f.seq - 1 \in Int /\ f.index \in 0 .. Total - 1 /\ f.seq \in Int
  <2>1. f.seq \in 1 .. MaxSeq  BY <1>1 DEF Packets
  <2>2. f.seq \in Int  BY <2>1, Constants
  <2>3. QED  BY <1>1, <2>2 DEF Indices
<1>5. f.seq - 1 = Len(out[b]) /\ f.index = Progress(b)
  <2>1. Total * (f.seq - 1) + f.index = Total * Len(out[b]) + Progress(b) + 1 - 1
    BY <1>2 DEF InStep
  <2>2. Total * (f.seq - 1) + f.index = Total * Len(out[b]) + Progress(b)
    BY <1>3, <2>1
  <2>3. Len(out[b]) \in Int  BY <1>3
  <2>4. \A a, c \in Int : \A x, y \in 0 .. Total - 1 :
          Total * a + x = Total * c + y => a = c /\ x = y
    BY <1>3, Unique
  <2>5. f.seq - 1 \in Int /\ f.index \in 0 .. Total - 1 /\ Progress(b) \in 0 .. Total - 1
    BY <1>3, <1>4
  <2>6. QED  BY <2>2, <2>3, <2>4, <2>5, ZenonT(40)
<1>6. f.seq = Len(out[b]) + 1  BY <1>3, <1>4, <1>5
<1>7. \A j \in Active : slot[j].src = b =>
        slot[j].seq = f.seq /\ Held(slot[j]) = 0 .. Progress(b) - 1
  BY <1>6 DEF InStep
<1>8. \A j \in Active \ {i} : slot[j].src # b  BY <1>1, <1>7
<1>9. Held(s) = 0 .. Progress(b) - 1
  <2>1. CASE i \in Active  BY <1>1, <1>7, <2>1
  <2>2. CASE i \notin Active
    <3>1. ~(Progress(b) > 0)  BY <1>8, <2>2 DEF InStep
    <3>2. Progress(b) = 0 /\ 0 .. Progress(b) - 1 = {}  BY <1>3, <3>1
    <3>3. QED  BY <1>1, <2>2, <3>2
  <2>3. QED  BY <2>1, <2>2
<1>10. s.received = Progress(b)
  <2>1. s.received = Cardinality(Held(s))  BY <1>1 DEF Sound
  <2>2. PICK p \in Nat : p = Progress(b)  BY <1>3
  <2>3. Cardinality(0 .. p - 1) = p
    <3>1. p - 1 \in Int /\ 0 \in Int  OBVIOUS
    <3>2. Cardinality(0 .. p - 1) = IF 0 > p - 1 THEN 0 ELSE p - 1 - 0 + 1
      BY <3>1, FS_Interval
    <3>3. QED  BY <3>2
  <2>4. QED  BY <1>9, <2>1, <2>2, <2>3
<1>11. QED  BY <1>5, <1>6, <1>8, <1>9, <1>10 DEF f, i, s

\* bc_reasm_feed with the next fragment: one more of its message is held, or the
\* message is complete.
LEMMA FeedInStep ==
  ASSUME Slotted, NEW b \in Boards, InStep(b), Feed(b)
  PROVE  InStep(b)'
<1> DEFINE f == Head(net[b])
           i == FindSlot(f)
           s == Opened(f, i)
           t == Stored(f, s)
<1>1. /\ net[b] # <<>> /\ Candidates(f) # {} /\ net' = [net EXCEPT ![b] = Tail(@)]
      /\ nextSeq' = nextSeq
      /\ \/ Duplicate(f, s)
         \/ ~Duplicate(f, s) /\ t.received < Total /\ slot' = [slot EXCEPT ![i] = t] /\ out' = out
         \/ /\ ~Duplicate(f, s) /\ t.received = Total
            /\ slot' = [slot EXCEPT ![i] = [t EXCEPT !.active = FALSE]]
            /\ out' = [out EXCEPT ![b] = Append(@, t.pieces)]
  BY DEF Feed, Arrives, Released
<1>2. /\ f \in Packets(b, boots[b]) /\ f.index \in Indices /\ i \in 1 .. Slots
      /\ s \in SlotType /\ s.active = TRUE /\ s.src = b /\ s.seq = f.seq /\ Sound(s, boots[b])
  BY <1>1, OpenedSlot
<1>3. /\ f.seq = Len(out[b]) + 1 /\ f.index = Progress(b)
      /\ Held(s) = 0 .. Progress(b) - 1 /\ s.received = Progress(b)
      /\ \A j \in Active \ {i} : slot[j].src # b
  BY <1>1, HeadInStep
<1> HIDE DEF f, i, s
<1>4. ~Duplicate(f, s) => Taken(t, s, f, boots[b])
  <2>1. boots[b] \in Nat  BY Counts
  <2>2. ~Duplicate(f, s) => Taken(Stored(f, s), s, f, boots[b])  BY <1>2, <2>1, StoredSlot
  <2>3. QED  BY <2>2
<1> HIDE DEF t
<1>5. PICK n, l, w, o, p :
        /\ n = nextSeq[b] /\ l = Len(net[b]) /\ w = Total * nextSeq[b] /\ o = Len(out[b])
        /\ p = Progress(b)
  OBVIOUS
<1>6. /\ l \in Nat /\ w \in Int /\ o \in Nat /\ Total \in Nat /\ Total * o \in Int
      /\ p \in 0 .. Total - 1 /\ p = w - l - Total * o /\ p \in Nat
      /\ DOMAIN net[b] = 1 .. l /\ DOMAIN out[b] = 1 .. o
  <2>1. p \in 0 .. Total - 1  BY <1>5 DEF InStep
  <2>2. QED  BY <1>5, <2>1, Counts DEF Progress
\* It is not taken for a duplicate.
<1>7. ~Duplicate(f, s)
  <2>1. f.index \notin Held(s)  BY <1>3, <1>5, <1>6
  <2>2. QED  BY <1>2, <2>1 DEF Duplicate, Held
<1>8. /\ t \in SlotType /\ t.active = TRUE /\ t.src = b /\ t.seq = o + 1
      /\ Held(t) = 0 .. p /\ t.received = p + 1 /\ Sound(t, boots[b])
      /\ t.received = Total => Held(t) = Indices
  <2>1. Held(t) = (0 .. p - 1) \cup {p}  BY <1>3, <1>4, <1>5, <1>7 DEF Taken
  <2>2. (0 .. p - 1) \cup {p} = 0 .. p  BY <1>6
  <2>3. QED  BY <1>2, <1>3, <1>4, <1>5, <1>7, <2>1, <2>2 DEF Taken
\* What is still under way
<1>9. /\ Len(net'[b]) = l - 1 /\ DOMAIN net'[b] = 1 .. l - 1
      /\ \A k \in 1 .. l - 1 : net'[b][k] = net[b][k + 1]
  <2>1. net[b] \in Seq(Packets(b, boots[b])) /\ net'[b] = Tail(net[b])  BY <1>1 DEF Slotted
  <2>2. PICK q : q = Tail(net[b])  OBVIOUS
  <2>3. q \in Seq(Packets(b, boots[b])) /\ Len(q) = l - 1
        /\ \A k \in 1 .. Len(q) : q[k] = net[b][k + 1]
    BY <1>1, <1>5, <2>1, <2>2, HeadTailProperties
  <2>4. DOMAIN q = 1 .. Len(q)  BY <2>3, LenProperties
  <2>5. QED  BY <2>1, <2>2, <2>3, <2>4
<1>10. \A k \in 1 .. l - 1 :
         Total * (net'[b][k].seq - 1) + net'[b][k].index = Total * o + p + k
  <2> TAKE k \in 1 .. l - 1
  <2>1. k + 1 \in 1 .. l /\ k \in Int  BY <1>6
  <2>2. Total * (net[b][k + 1].seq - 1) + net[b][k + 1].index = Total * o + p + (k + 1) - 1
    BY <1>5, <1>6, <2>1 DEF InStep
  <2>3. Total * o + p + (k + 1) - 1 = Total * o + p + k
    <3>1. \A m \in Int : m + p + (k + 1) - 1 = m + p + k  BY <1>6, <2>1
    <3>2. QED  BY <1>6, <3>1
  <2>4. QED  BY <1>9, <2>2, <2>3
<1>11. slot \in [1 .. Slots -> SlotType] /\ out \in [Boards -> Seq([Indices -> AnyPacket])]
  BY DEF Slotted
<1>12. CASE t.received < Total /\ slot' = [slot EXCEPT ![i] = t] /\ out' = out
  <2>1. Progress(b)' = p + 1
    <3>1. Progress(b)' = Total * nextSeq[b] - (l - 1) - Total * Len(out[b])
      BY <1>1, <1>9, <1>12 DEF Progress
    <3>2. PICK v \in Int : v = Total * o  BY <1>6
    <3>3. Progress(b)' = w - (l - 1) - v /\ p = w - l - v  BY <1>5, <1>6, <3>1, <3>2, Zenon
    <3>4. QED  BY <1>6, <3>3
  <2>2. p + 1 \in 0 .. Total - 1 /\ p + 1 > 0 /\ p + 1 - 1 = p  BY <1>6, <1>8, <1>12
  <2>3. \A k \in 1 .. l - 1 : Total * o + p + k = Total * o + (p + 1) + k - 1
    <3>1. \A m \in Int : \A k \in 1 .. l - 1 : m + p + k = m + (p + 1) + k - 1  BY <1>6
    <3>2. QED  BY <1>6, <3>1
  <2>4. /\ slot'[i] = t /\ i \in Active'
        /\ \A j \in Active' \ {i} : j \in Active /\ slot'[j] = slot[j]
    BY <1>2, <1>8, <1>11, <1>12 DEF Active
  <2>5. \A j \in Active' : slot'[j].src = b => slot'[j].seq = o + 1 /\ Held(slot'[j]) = 0 .. p
    BY <1>3, <1>8, <2>4
  <2>6. out'[b] = out[b] /\ Len(out'[b]) = o  BY <1>5, <1>12
  <2>7. \A k \in DOMAIN out'[b] : out'[b][k][0].seq = k  BY <2>6 DEF InStep
  <2>8. \A k \in DOMAIN net'[b] :
          Total * (net'[b][k].seq - 1) + net'[b][k].index
            = Total * Len(out'[b]) + Progress(b)' + k - 1
    BY <1>9, <1>10, <2>1, <2>3, <2>6
  <2>9. \E j \in Active' : slot'[j].src = b  BY <1>8, <2>4
  <2>10. \A j \in Active' : slot'[j].src = b =>
           slot'[j].seq = Len(out'[b]) + 1 /\ Held(slot'[j]) = 0 .. Progress(b)' - 1
    <3>1. Progress(b)' - 1 = p  BY <1>6, <2>1
    <3>2. 0 .. Progress(b)' - 1 = 0 .. p  BY <3>1, Zenon
    <3>3. QED  BY <2>5, <2>6, <3>2, Zenon
  <2>11. Progress(b)' \in 0 .. Total - 1  BY <2>1, <2>2
  <2>12. QED  BY <2>7, <2>8, <2>9, <2>10, <2>11 DEF InStep
<1>13. CASE /\ t.received = Total
            /\ slot' = [slot EXCEPT ![i] = [t EXCEPT !.active = FALSE]]
            /\ out' = [out EXCEPT ![b] = Append(@, t.pieces)]
  <2>1. /\ t.pieces \in [Indices -> AnyPacket] /\ out[b] \in Seq([Indices -> AnyPacket])
        /\ out'[b] = Append(out[b], t.pieces)
    BY <1>8, <1>11, <1>13 DEF SlotType
  <2>2. PICK q : q = Append(out[b], t.pieces)  OBVIOUS
  <2>3. /\ q \in Seq([Indices -> AnyPacket]) /\ Len(q) = o + 1
        /\ q[Len(out[b]) + 1] = t.pieces /\ \A k \in 1 .. Len(out[b]) : q[k] = out[b][k]
    BY <1>5, <2>1, <2>2, AppendProperties
  <2>4. /\ out'[b] = q /\ Len(out'[b]) = o + 1 /\ DOMAIN out'[b] = 1 .. o + 1
        /\ q[o + 1] = t.pieces /\ \A k \in 1 .. o : q[k] = out[b][k]
    BY <1>5, <2>1, <2>2, <2>3, LenProperties
  <2>5. t.pieces[0].seq = o + 1
    <3>1. 0 \in Indices /\ t.pieces[0] # Nothing
      BY <1>8, <1>13, Constants DEF Held
    <3>2. Belongs(t.pieces[0], t.src, boots[b], t.seq, 0)  BY <1>8, <3>1 DEF Sound
    <3>3. QED  BY <1>8, <3>2 DEF Belongs
  <2>6. \A k \in DOMAIN out'[b] : out'[b][k][0].seq = k
    <3> SUFFICES ASSUME NEW k \in 1 .. o + 1  PROVE q[k][0].seq = k  BY <2>4
    <3>1. CASE k = o + 1  BY <2>4, <2>5, <3>1
    <3>2. CASE k \in 1 .. o  BY <1>6, <2>4, <3>2 DEF InStep
    <3>3. QED  BY <1>6, <3>1, <3>2
  <2>7. p + 1 = Total  BY <1>8, <1>13
  <2>8. Total * (o + 1) = Total * o + Total  BY <1>6
  <2>9. Progress(b)' = 0
    <3>1. Progress(b)' = Total * nextSeq[b] - (l - 1) - Total * (o + 1)
      BY <1>1, <1>9, <2>4 DEF Progress
    <3>2. PICK v \in Int : v = Total * o  BY <1>6
    <3>3. Progress(b)' = w - (l - 1) - (v + Total) /\ p = w - l - v
      BY <1>5, <1>6, <2>8, <3>1, <3>2, Zenon
    <3>4. QED  BY <1>6, <2>7, <3>3
  <2>10. \A k \in DOMAIN net'[b] :
           Total * (net'[b][k].seq - 1) + net'[b][k].index
             = Total * Len(out'[b]) + Progress(b)' + k - 1
    <3>1. PICK v \in Int : v = Total * o  BY <1>6
    <3>2. \A k \in 1 .. l - 1 : v + p + k = v + Total + 0 + k - 1  BY <1>6, <2>7
    <3>3. Total * Len(out'[b]) = v + Total  BY <2>4, <2>8, <3>1
    <3>4. \A k \in 1 .. l - 1 :
            Total * (net'[b][k].seq - 1) + net'[b][k].index = v + Total + 0 + k - 1
      BY <1>10, <3>1, <3>2
    <3>5. QED  BY <1>9, <2>9, <3>3, <3>4, Zenon
  <2>11. \A j \in Active' : slot'[j].src # b
    <3>1. [t EXCEPT !.active = FALSE].active = FALSE  BY <1>8 DEF SlotType
    <3>2. i \notin Active' /\ \A j \in Active' : j \in Active \ {i} /\ slot'[j] = slot[j]
      BY <1>2, <1>11, <1>13, <3>1 DEF Active
    <3>3. QED  BY <1>3, <3>2
  <2>12. Progress(b)' \in 0 .. Total - 1 /\ ~(Progress(b)' > 0)  BY <1>6, <2>9
  <2>13. QED  BY <2>6, <2>10, <2>11, <2>12, Zenon DEF InStep
<1>14. QED  BY <1>1, <1>7, <1>12, <1>13

LEMMA UndisturbedStep ==
  ASSUME Slotted, Undisturbed, [Next]_vars
  PROVE  Undisturbed'
<1> SUFFICES ASSUME faults' = 0, refused' = 0, NEW b \in Boards, boots'[b] = 0
             PROVE  InStep(b)'
  BY DEF Undisturbed
<1>1. faults \in Nat /\ refused \in Nat /\ boots \in [Boards -> 0 .. MaxBoots]
      /\ \A c \in Boards : boots[c] \in Nat
  BY Constants DEF Slotted
\* The step of another board, or of none
<1>2. ASSUME faults = 0, refused = 0, boots[b] = 0, nextSeq'[b] = nextSeq[b], net'[b] = net[b],
             out'[b] = out[b],
             \A i : i \in Active' /\ slot'[i].src = b <=> i \in Active /\ slot[i].src = b,
             \A i \in Active : slot[i].src = b => slot'[i] = slot[i]
      PROVE  InStep(b)'
  <2>1. InStep(b)  BY <1>2 DEF Undisturbed
  <2>2. QED  BY <1>2, <2>1, OthersInStep
<1>3. ASSUME NEW c \in Boards, Publish(c)  PROVE InStep(b)'
  <2>1. /\ nextSeq' = [nextSeq EXCEPT ![c] = @ + 1] /\ net' = [net EXCEPT ![c] = @ \o Emitted(c, Total)]
        /\ UNCHANGED <<boots, slot, out, faults, refused>>
    BY <1>3 DEF Publish
  <2>2. CASE c = b
    <3>1. InStep(b)  BY <2>1 DEF Undisturbed
    <3>2. QED  BY <1>3, <2>2, <3>1, PublishInStep
  <2>3. CASE c # b
    <3>1. nextSeq'[b] = nextSeq[b] /\ net'[b] = net[b]  BY <2>1, <2>3 DEF Slotted
    <3>2. Active' = Active /\ slot' = slot  BY <2>1 DEF Active
    <3>3. QED  BY <1>2, <2>1, <3>1, <3>2
  <2>4. QED  BY <2>2, <2>3
<1>4. ASSUME NEW c \in Boards, PublishBreaks(c) \/ Disturb(c)  PROVE FALSE
  <2>1. faults' = faults + 1  BY <1>4 DEF PublishBreaks, Disturb
  <2>2. QED  BY <1>1, <2>1
<1>5. ASSUME NEW c \in Boards, FeedRefused(c)  PROVE FALSE
  <2>1. refused' = refused + 1  BY <1>5 DEF FeedRefused
  <2>2. QED  BY <1>1, <2>1
<1>6. ASSUME NEW c \in Boards, Restart(c)  PROVE InStep(b)'
  <2>1. /\ boots' = [boots EXCEPT ![c] = @ + 1] /\ nextSeq' = [nextSeq EXCEPT ![c] = 0]
        /\ UNCHANGED <<net, slot, out, faults, refused>>
    BY <1>6 DEF Restart
  <2>2. c # b  BY <1>1, <2>1
  <2>3. nextSeq'[b] = nextSeq[b] /\ boots'[b] = boots[b]  BY <1>1, <2>1, <2>2 DEF Slotted
  <2>4. Active' = Active /\ slot' = slot  BY <2>1 DEF Active
  <2>5. QED  BY <1>2, <2>1, <2>3, <2>4
<1>7. ASSUME NEW c \in Boards, Feed(c)  PROVE InStep(b)'
  <2> DEFINE f == Head(net[c])
             i == FindSlot(f)
             s == Opened(f, i)
             t == Stored(f, s)
  <2>1. /\ net[c] # <<>> /\ Candidates(f) # {} /\ net' = [net EXCEPT ![c] = Tail(@)]
        /\ UNCHANGED <<boots, nextSeq, faults, refused>>
        /\ \/ UNCHANGED <<slot, out>>
           \/ ~Duplicate(f, s) /\ slot' = [slot EXCEPT ![i] = t] /\ out' = out
           \/ /\ ~Duplicate(f, s) /\ slot' = [slot EXCEPT ![i] = [t EXCEPT !.active = FALSE]]
              /\ out' = [out EXCEPT ![c] = Append(@, t.pieces)]
    BY <1>7 DEF Feed, Arrives, Released
  <2>2. CASE c = b
    <3>1. InStep(b)  BY <2>1 DEF Undisturbed
    <3>2. QED  BY <1>7, <2>2, <3>1, FeedInStep
  <2>3. CASE c # b
    <3>1. /\ f \in Packets(c, boots[c]) /\ i \in 1 .. Slots /\ s \in SlotType /\ s.src = c
          /\ s.seq = f.seq /\ Sound(s, boots[c]) /\ (i \in Active => slot[i].src = c)
      BY <2>1, OpenedSlot
    <3> HIDE DEF f, i, s
    <3>2. ~Duplicate(f, s) => Taken(t, s, f, boots[c])
      <4>1. boots[c] \in Nat  BY <1>1
      <4>2. ~Duplicate(f, s) => Taken(Stored(f, s), s, f, boots[c])  BY <3>1, <4>1, StoredSlot
      <4>3. QED  BY <4>2
    <3>3. ~Duplicate(f, s) => t.src = c /\ t \in SlotType  BY <3>1, <3>2 DEF Taken
    <3> HIDE DEF t
    <3>4. net'[b] = net[b] /\ out'[b] = out[b]  BY <2>1, <2>3 DEF Slotted
    <3>5. CASE UNCHANGED <<slot, out>>
      <4>1. Active' = Active /\ slot' = slot  BY <3>5 DEF Active
      <4>2. QED  BY <1>2, <2>1, <3>4, <4>1
    <3>6. CASE ~Duplicate(f, s) /\ slot' \in {[slot EXCEPT ![i] = t],
                                              [slot EXCEPT ![i] = [t EXCEPT !.active = FALSE]]}
      <4>1. [t EXCEPT !.active = FALSE].src = c  BY <3>3, <3>6 DEF SlotType
      <4>2. slot'[i].src = c /\ \A j \in 1 .. Slots \ {i} : slot'[j] = slot[j]
        BY <3>1, <3>3, <3>6, <4>1 DEF Slotted
      <4>3. \A j : j \in Active' /\ slot'[j].src = b <=> j \in Active /\ slot[j].src = b
        BY <2>3, <3>1, <4>2 DEF Active
      <4>4. \A j \in Active : slot[j].src = b => slot'[j] = slot[j]
        BY <2>3, <3>1, <4>2 DEF Active
      <4>5. QED  BY <1>2, <2>1, <3>4, <4>3, <4>4
    <3>7. QED  BY <2>1, <3>5, <3>6
  <2>4. QED  BY <2>2, <2>3
<1>8. CASE UNCHANGED vars
  <2>1. Active' = Active /\ slot' = slot  BY <1>8 DEF vars, Active
  <2>2. QED  BY <1>2, <1>8, <2>1 DEF vars
<1>9. QED  BY <1>3, <1>4, <1>5, <1>6, <1>7, <1>8 DEF Next

\* While nothing was lost, broken off or refused, bc_reasm_feed puts every message
\* of a board that did not restart together exactly once and in the order of
\* bc_fragment_publish, whatever the boards around it do.
THEOREM CompleteWithoutFaults == Spec => []Lossless
<1>1. Slotted /\ Undisturbed => Lossless
  <2> SUFFICES ASSUME Slotted, Undisturbed, faults = 0, refused = 0, NEW b \in Boards,
                      boots[b] = 0, net[b] = <<>>
               PROVE  [k \in DOMAIN out[b] |-> out[b][k][0].seq] = [k \in 1 .. nextSeq[b] |-> k]
    BY DEF Lossless
  <2>1. /\ Progress(b) \in 0 .. Total - 1 /\ \A k \in DOMAIN out[b] : out[b][k][0].seq = k
    BY DEF Undisturbed, InStep
  <2>2. /\ nextSeq[b] \in Int /\ Len(out[b]) \in Int /\ DOMAIN out[b] = 1 .. Len(out[b])
        /\ Total \in Nat \ {0}
    BY Counts
  <2>3. nextSeq[b] = Len(out[b])
    <3>1. PICK n, o, p : n = nextSeq[b] /\ o = Len(out[b]) /\ p = Progress(b)  OBVIOUS
    <3>2. n \in Int /\ o \in Int /\ p \in 0 .. Total - 1 /\ 0 \in 0 .. Total - 1
          /\ Total * n \in Int /\ Total * o \in Int
      BY <2>1, <2>2, <3>1
    <3>3. Len(net[b]) = 0  BY EmptySeq
    <3>4. p = Total * n - 0 - Total * o  BY <3>1, <3>3, Zenon DEF Progress
    <3>5. Total * n + 0 = Total * o + p
      <4>1. PICK v, w \in Int : v = Total * n /\ w = Total * o  BY <3>2
      <4>2. p = v - 0 - w  BY <3>4, <4>1
      <4>3. v + 0 = w + p  BY <4>2
      <4>4. QED  BY <4>1, <4>3
    <3>6. \A a, c \in Int : \A x, y \in 0 .. Total - 1 :
            Total * a + x = Total * c + y => a = c /\ x = y
      BY <2>2, Unique
    <3>7. n = o  BY <3>2, <3>5, <3>6, Zenon
    <3>8. QED  BY <3>1, <3>7
  <2>4. QED  BY <2>1, <2>2, <2>3
<1>2. Slotted /\ Undisturbed /\ [Next]_vars => Undisturbed'  BY UndisturbedStep
<1>3. QED  BY <1>1, <1>2, AlwaysSlotted, UndisturbedInit, PTL DEF Spec

-----------------------------------------------------------------------------
(* What strands a slot                                                       *)

\* The index after x, when the message is published again and again.
After(x) == IF x = Total - 1 THEN 0 ELSE x + 1

\* Where fragments of message seq are in q
Of(q, seq) == {p \in DOMAIN q : q[p].seq = seq}

\* The fragments of message seq in q follow each other from index h to the last one.
Chain(q, seq, h) ==
  /\ \A p \in Of(q, seq) : (\A o \in Of(q, seq) : p <= o) => q[p].index = h
  /\ \A p, r \in Of(q, seq) :
       p < r /\ (\A o \in Of(q, seq) : o <= p \/ r <= o) => q[r].index = After(q[p].index)
  /\ \A p \in Of(q, seq) : (\A o \in Of(q, seq) : o <= p) => q[p].index = Total - 1
  /\ Of(q, seq) = {} => h = 0

\* The slot of a message holds what comes before index h, if there is any.
Holding(b, seq, h) ==
  /\ \A i \in Active : slot[i].src = b /\ slot[i].seq = seq => Held(slot[i]) = 0 .. h - 1
  /\ h # 0 => \E i \in Active : slot[i].src = b /\ slot[i].seq = seq

\* What is under way of a message completes what was taken of it.
Tidy(b, seq) == \E h \in Indices : Chain(net[b], seq, h) /\ Holding(b, seq, h)

Untidy == {k \in Boards \X (1 .. MaxSeq) : ~Tidy(k[1], k[2])}

\* Every message that is not tidy has cost a fault or a fragment that found no slot.
Accounted == IsFiniteSet(Untidy) /\ Cardinality(Untidy) <= faults + refused

\* g says where in q each fragment of the message in r is, and misses none.
Moves(g, q, r, seq) ==
  /\ \A p \in Of(r, seq) : g[p] \in Of(q, seq) /\ q[g[p]] = r[p]
  /\ \A p, o \in Of(r, seq) : p < o => g[p] < g[o]
  /\ \A o \in Of(q, seq) : \E p \in Of(r, seq) : g[p] = o

\* Other packets that come, go or change places do not matter.
LEMMA ChainMoved ==
  ASSUME NEW q, NEW r, NEW seq, NEW h, NEW g, Of(q, seq) \subseteq Nat, Of(r, seq) \subseteq Nat,
         Moves(g, q, r, seq), Chain(q, seq, h)
  PROVE  Chain(r, seq, h)
<1> DEFINE Q == Of(q, seq)
           R == Of(r, seq)
<1>1. /\ \A p \in R : g[p] \in Q /\ q[g[p]] = r[p] /\ p \in Nat /\ g[p] \in Nat
      /\ \A p, o \in R : p < o => g[p] < g[o]
      /\ \A o \in Q : \E p \in R : g[p] = o
  BY DEF Moves
<1>2. /\ \A p \in Q : (\A o \in Q : p <= o) => q[p].index = h
      /\ \A p, o \in Q : p < o /\ (\A x \in Q : x <= p \/ o <= x) => q[o].index = After(q[p].index)
      /\ \A p \in Q : (\A o \in Q : o <= p) => q[p].index = Total - 1
      /\ Q = {} => h = 0
  BY DEF Chain
<1> HIDE DEF Q, R
<1>3. \A p, o \in R : p <= o => g[p] <= g[o]
  <2> TAKE p, o \in R
  <2>1. p \in Nat /\ o \in Nat /\ g[p] \in Nat /\ g[o] \in Nat /\ (p < o => g[p] < g[o])  BY <1>1
  <2>2. p = o => g[p] = g[o]  OBVIOUS
  <2>3. QED  BY <2>1, <2>2
<1>4. ASSUME NEW p \in R, \A o \in R : p <= o  PROVE r[p].index = h
  <2>1. \A o \in Q : g[p] <= o  BY <1>1, <1>3, <1>4
  <2>2. QED  BY <1>1, <1>2, <2>1
<1>5. ASSUME NEW p \in R, NEW o \in R, p < o, \A x \in R : x <= p \/ o <= x
      PROVE  r[o].index = After(r[p].index)
  <2>1. \A x \in Q : x <= g[p] \/ g[o] <= x  BY <1>1, <1>3, <1>5
  <2>2. QED  BY <1>1, <1>2, <1>5, <2>1
<1>6. ASSUME NEW p \in R, \A o \in R : o <= p  PROVE r[p].index = Total - 1
  <2>1. \A o \in Q : o <= g[p]  BY <1>1, <1>3, <1>6
  <2>2. QED  BY <1>1, <1>2, <2>1
<1>7. R = {} => h = 0  BY <1>1, <1>2
<1>8. QED  BY <1>4, <1>5, <1>6, <1>7 DEF Chain, R

\* r are the n elements of q after the first one.
Rest(q, r, n) ==
  DOMAIN q = 1 .. n + 1 /\ DOMAIN r = 1 .. n /\ \A p \in 1 .. n : r[p] = q[p + 1]

\* The first fragment of a message is taken.
LEMMA ChainTaken ==
  ASSUME NEW q, NEW r, NEW seq, NEW h, NEW n \in Nat, Rest(q, r, n), q[1].seq = seq, Chain(q, seq, h)
  PROVE  q[1].index = h /\ Chain(r, seq, After(h))
<1> DEFINE Q == Of(q, seq)
           R == Of(r, seq)
<1>0. DOMAIN q = 1 .. n + 1 /\ DOMAIN r = 1 .. n /\ \A p \in 1 .. n : r[p] = q[p + 1]  BY DEF Rest
<1>1. /\ 1 \in Q /\ \A p \in Q : p \in 1 .. n + 1 /\ (p # 1 => p - 1 \in R)
      /\ \A p \in R : p \in 1 .. n /\ p + 1 \in Q /\ r[p] = q[p + 1]
  BY <1>0 DEF Of
<1>2. /\ \A p \in Q : (\A o \in Q : p <= o) => q[p].index = h
      /\ \A p, o \in Q : p < o /\ (\A x \in Q : x <= p \/ o <= x) => q[o].index = After(q[p].index)
      /\ \A p \in Q : (\A o \in Q : o <= p) => q[p].index = Total - 1
  BY DEF Chain
<1> HIDE DEF Q, R
<1>3. q[1].index = h
  <2>1. \A o \in Q : 1 <= o  BY <1>1
  <2>2. QED  BY <1>1, <1>2, <2>1
<1>4. ASSUME NEW p \in R, \A o \in R : p <= o  PROVE r[p].index = After(h)
  <2>1. p + 1 \in Q /\ 1 < p + 1 /\ p \in Nat  BY <1>1
  <2>2. \A x \in Q : x <= 1 \/ p + 1 <= x
    <3> TAKE x \in Q
    <3>1. x \in Nat /\ (x = 1 \/ p <= x - 1)  BY <1>1, <1>4
    <3>2. QED  BY <2>1, <3>1
  <2>3. q[p + 1].index = After(q[1].index)  BY <1>1, <1>2, <2>1, <2>2
  <2>4. QED  BY <1>1, <1>3, <2>3
<1>5. ASSUME NEW p \in R, NEW o \in R, p < o, \A x \in R : x <= p \/ o <= x
      PROVE  r[o].index = After(r[p].index)
  <2>1. p + 1 \in Q /\ o + 1 \in Q /\ p + 1 < o + 1 /\ p \in Nat /\ o \in Nat  BY <1>1, <1>5
  <2>2. \A x \in Q : x <= p + 1 \/ o + 1 <= x
    <3> TAKE x \in Q
    <3>1. x \in Nat /\ (x = 1 \/ x - 1 <= p \/ o <= x - 1)  BY <1>1, <1>5
    <3>2. QED  BY <2>1, <3>1
  <2>3. q[o + 1].index = After(q[p + 1].index)  BY <1>2, <2>1, <2>2
  <2>4. QED  BY <1>1, <2>3
<1>6. ASSUME NEW p \in R, \A o \in R : o <= p  PROVE r[p].index = Total - 1
  <2>1. p + 1 \in Q /\ p \in Nat  BY <1>1
  <2>2. \A x \in Q : x <= p + 1
    <3> TAKE x \in Q
    <3>1. x \in Nat /\ (x = 1 \/ x - 1 <= p)  BY <1>1, <1>6
    <3>2. QED  BY <2>1, <3>1
  <2>3. QED  BY <1>1, <1>2, <2>1, <2>2
<1>7. ASSUME R = {}  PROVE h = Total - 1
  <2>1. \A x \in Q : x <= 1  BY <1>1, <1>7
  <2>2. QED  BY <1>1, <1>2, <1>3, <2>1
<1>8. R = {} => After(h) = 0  BY <1>7 DEF After
<1>9. QED  BY <1>3, <1>4, <1>5, <1>6, <1>7, <1>8 DEF Chain, R

\* A message is published behind what is under way of it.
LEMMA ChainPublished ==
  ASSUME NEW q, NEW r, NEW seq, NEW h, NEW n \in Nat, DOMAIN q = 1 .. n, DOMAIN r = 1 .. n + Total,
         \A p \in 1 .. n : r[p] = q[p],
         \A i \in 1 .. Total : r[n + i].seq = seq /\ r[n + i].index = i - 1,
         Chain(q, seq, h)
  PROVE  Chain(r, seq, h)
<1> DEFINE Q == Of(q, seq)
           R == Of(r, seq)
<1>0. Total \in Nat /\ Total > 1  BY Constants
<1>1. /\ \A p \in Q : p \in 1 .. n /\ p \in R /\ r[p] = q[p]
      /\ \A p \in R : p \in 1 .. n + Total /\ (p <= n => p \in Q)
      /\ \A p \in n + 1 .. n + Total : p \in R /\ r[p].index = p - n - 1
  <2>1. \A p \in Q : p \in 1 .. n /\ p \in R /\ r[p] = q[p]  BY <1>0 DEF Of
  <2>2. \A p \in R : p \in 1 .. n + Total /\ (p <= n => p \in Q)  BY <1>0 DEF Of
  <2>3. ASSUME NEW p \in n + 1 .. n + Total  PROVE p \in R /\ r[p].index = p - n - 1
    <3>1. PICK i \in 1 .. Total : p = n + i
      <4>1. p - n \in 1 .. Total /\ p = n + (p - n)  BY <1>0
      <4>2. QED  BY <4>1
    <3>2. p \in 1 .. n + Total  BY <1>0
    <3>3. QED  BY <1>0, <3>1, <3>2 DEF Of
  <2>4. QED  BY <2>1, <2>2, <2>3
<1>2. /\ \A p \in Q : (\A o \in Q : p <= o) => q[p].index = h
      /\ \A p, o \in Q : p < o /\ (\A x \in Q : x <= p \/ o <= x) => q[o].index = After(q[p].index)
      /\ \A p \in Q : (\A o \in Q : o <= p) => q[p].index = Total - 1
      /\ Q = {} => h = 0
  BY DEF Chain
<1> HIDE DEF Q, R
<1>3. n + 1 \in n + 1 .. n + Total /\ n + Total \in n + 1 .. n + Total  BY <1>0
<1>4. ASSUME NEW p \in R, \A o \in R : p <= o  PROVE r[p].index = h
  <2>1. p \in Nat /\ p <= n + 1  BY <1>1, <1>3, <1>4
  <2>2. CASE p <= n
    <3>1. p \in Q /\ \A o \in Q : p <= o  BY <1>1, <1>4, <2>2
    <3>2. QED  BY <1>1, <1>2, <3>1
  <2>3. CASE p = n + 1
    <3>1. Q = {}
      <4>1. \A o \in Q : o \in 1 .. n /\ n + 1 <= o  BY <1>1, <1>4, <2>3
      <4>2. QED  BY <4>1
    <3>2. r[n + 1].index = (n + 1) - n - 1  BY <1>1, <1>3
    <3>3. QED  BY <1>2, <2>3, <3>1, <3>2
  <2>4. QED  BY <2>1, <2>2, <2>3
<1>5. ASSUME NEW p \in R, NEW o \in R, p < o, \A x \in R : x <= p \/ o <= x
      PROVE  r[o].index = After(r[p].index)
  <2>1. p \in Nat /\ o \in Nat /\ p <= n + Total /\ o <= n + Total /\ 1 <= p  BY <1>0, <1>1
  <2>2. CASE o <= n
    <3>1. p \in Q /\ o \in Q /\ \A x \in Q : x <= p \/ o <= x  BY <1>1, <1>5, <2>1, <2>2
    <3>2. QED  BY <1>1, <1>2, <1>5, <3>1
  <2>3. CASE p <= n /\ o > n
    <3>1. n + 1 \in R /\ (n + 1 <= p \/ o <= n + 1)  BY <1>1, <1>3, <1>5
    <3>2. o = n + 1  BY <2>1, <2>3, <3>1
    <3>3. p \in Q /\ \A x \in Q : x <= p
      <4>1. \A x \in Q : x \in 1 .. n /\ (x <= p \/ n + 1 <= x)  BY <1>1, <1>5, <3>2
      <4>2. QED  BY <1>1, <2>3, <4>1
    <3>4. r[p].index = Total - 1  BY <1>1, <1>2, <3>3
    <3>5. r[o].index = (n + 1) - n - 1  BY <1>1, <1>3, <3>2
    <3>6. QED  BY <3>4, <3>5 DEF After
  <2>4. CASE p > n
    <3>1. p \in n + 1 .. n + Total /\ o \in n + 1 .. n + Total /\ p + 1 \in n + 1 .. n + Total
      BY <1>0, <1>5, <2>1, <2>4
    <3>2. p + 1 \in R /\ (p + 1 <= p \/ o <= p + 1)  BY <1>1, <1>5, <3>1
    <3>3. o = p + 1  BY <1>5, <2>1, <3>2
    <3>4. r[p].index = p - n - 1 /\ r[o].index = (p + 1) - n - 1  BY <1>1, <3>1, <3>3
    <3>5. p - n - 1 # Total - 1 /\ (p + 1) - n - 1 = (p - n - 1) + 1
      BY <1>0, <2>1, <3>1
    <3>6. QED  BY <3>4, <3>5 DEF After
  <2>5. QED  BY <2>1, <2>2, <2>3, <2>4
<1>6. ASSUME NEW p \in R, \A o \in R : o <= p  PROVE r[p].index = Total - 1
  <2>1. p \in 1 .. n + Total /\ n + Total <= p  BY <1>1, <1>3, <1>6
  <2>2. p = n + Total  BY <1>0, <2>1
  <2>3. r[p].index = (n + Total) - n - 1  BY <1>1, <1>3, <2>2
  <2>4. QED  BY <1>0, <2>3
<1>7. R # {}  BY <1>1, <1>3
<1>8. QED  BY <1>4, <1>5, <1>6, <1>7 DEF Chain, R

\* A sequence without its i-th element, and with something else before it
LEMMA WithoutOne ==
  ASSUME NEW S, NEW q \in Seq(S), NEW i \in 1 .. Len(q)
  PROVE  /\ RemoveAt(q, i) \in Seq(S) /\ Len(RemoveAt(q, i)) = Len(q) - 1
         /\ \A p \in 1 .. Len(q) - 1 : RemoveAt(q, i)[p] = q[IF p < i THEN p ELSE p + 1]
<1>1. Len(q) \in Nat /\ i \in Nat  BY LenProperties
<1> DEFINE s == SubSeq(q, 1, i - 1)
           t == SubSeq(q, i + 1, Len(q))
<1>2. /\ s \in Seq(S) /\ Len(s) = i - 1 /\ \A p \in 1 .. i - 1 : s[p] = q[p]
      /\ t \in Seq(S) /\ Len(t) = Len(q) - i /\ \A p \in 1 .. Len(q) - i : t[p] = q[i + p]
  <2>1. /\ \A p \in 1 .. i - 1 : q[p] \in S
        /\ \A p \in i + 1 .. Len(q) : q[p] \in S
    BY <1>1, ElementOfSeq
  <2>2. /\ s \in Seq(S) /\ Len(s) = (IF 1 <= i - 1 THEN (i - 1) - 1 + 1 ELSE 0)
        /\ \A p \in 1 .. (i - 1) - 1 + 1 : s[p] = q[1 + p - 1]
    BY <1>1, <2>1, SubSeqProperties
  <2>3. /\ t \in Seq(S) /\ Len(t) = (IF i + 1 <= Len(q) THEN Len(q) - (i + 1) + 1 ELSE 0)
        /\ \A p \in 1 .. Len(q) - (i + 1) + 1 : t[p] = q[i + 1 + p - 1]
    BY <1>1, <2>1, SubSeqProperties
  <2> HIDE DEF s, t
  <2>4. \A p \in 1 .. i - 1 : s[p] = q[p]
    <3> TAKE p \in 1 .. i - 1
    <3>1. p \in 1 .. (i - 1) - 1 + 1 /\ 1 + p - 1 = p  BY <1>1
    <3>2. QED  BY <2>2, <3>1
  <2>5. \A p \in 1 .. Len(q) - i : t[p] = q[i + p]
    <3> TAKE p \in 1 .. Len(q) - i
    <3>1. p \in 1 .. Len(q) - (i + 1) + 1 /\ i + 1 + p - 1 = i + p  BY <1>1
    <3>2. QED  BY <2>3, <3>1
  <2>6. QED  BY <1>1, <2>2, <2>3, <2>4, <2>5
<1>3. RemoveAt(q, i) = s \o t  BY DEF RemoveAt
<1> HIDE DEF s, t
<1>4. /\ s \o t \in Seq(S) /\ Len(s \o t) = Len(s) + Len(t)
      /\ \A p \in 1 .. Len(s) + Len(t) : (s \o t)[p] = IF p <= Len(s) THEN s[p] ELSE t[p - Len(s)]
  BY <1>2, ConcatProperties
<1>5. ASSUME NEW p \in 1 .. Len(q) - 1  PROVE (s \o t)[p] = q[IF p < i THEN p ELSE p + 1]
  <2>1. p \in 1 .. Len(s) + Len(t) /\ p \in Nat  BY <1>1, <1>2
  <2>2. CASE p < i
    <3>1. p <= Len(s) /\ p \in 1 .. i - 1  BY <1>1, <1>2, <2>2
    <3>2. QED  BY <1>2, <1>4, <2>1, <2>2, <3>1
  <2>3. CASE ~(p < i)
    <3>1. ~(p <= Len(s)) /\ p - Len(s) \in 1 .. Len(q) - i /\ i + (p - Len(s)) = p + 1
      BY <1>1, <1>2, <2>1, <2>3
    <3>2. QED  BY <1>2, <1>4, <2>1, <2>3, <3>1
  <2>4. QED  BY <2>2, <2>3
<1>6. QED  BY <1>1, <1>2, <1>3, <1>4, <1>5

LEMMA WithOneMore ==
  ASSUME NEW S, NEW q \in Seq(S), NEW i \in 1 .. Len(q), NEW e \in S
  PROVE  /\ InsertAt(q, i, e) \in Seq(S) /\ Len(InsertAt(q, i, e)) = Len(q) + 1
         /\ InsertAt(q, i, e)[i] = e
         /\ \A p \in 1 .. Len(q) + 1 : p # i => InsertAt(q, i, e)[p] = q[IF p < i THEN p ELSE p - 1]
<1>1. Len(q) \in Nat /\ i \in Nat  BY LenProperties
<1> DEFINE s == SubSeq(q, 1, i - 1)
           u == s \o <<e>>
           t == SubSeq(q, i, Len(q))
<1>2. /\ s \in Seq(S) /\ Len(s) = i - 1 /\ \A p \in 1 .. i - 1 : s[p] = q[p]
      /\ t \in Seq(S) /\ Len(t) = Len(q) - i + 1 /\ \A p \in 1 .. Len(q) - i + 1 : t[p] = q[i + p - 1]
  <2>1. /\ \A p \in 1 .. i - 1 : q[p] \in S
        /\ \A p \in i .. Len(q) : q[p] \in S
    BY <1>1, ElementOfSeq
  <2>2. /\ s \in Seq(S) /\ Len(s) = (IF 1 <= i - 1 THEN (i - 1) - 1 + 1 ELSE 0)
        /\ \A p \in 1 .. (i - 1) - 1 + 1 : s[p] = q[1 + p - 1]
    BY <1>1, <2>1, SubSeqProperties
  <2>3. /\ t \in Seq(S) /\ Len(t) = (IF i <= Len(q) THEN Len(q) - i + 1 ELSE 0)
        /\ \A p \in 1 .. Len(q) - i + 1 : t[p] = q[i + p - 1]
    BY <1>1, <2>1, SubSeqProperties
  <2> HIDE DEF s, t
  <2>4. \A p \in 1 .. i - 1 : s[p] = q[p]
    <3> TAKE p \in 1 .. i - 1
    <3>1. p \in 1 .. (i - 1) - 1 + 1 /\ 1 + p - 1 = p  BY <1>1
    <3>2. QED  BY <2>2, <3>1
  <2>5. QED  BY <1>1, <2>2, <2>3, <2>4
<1>3. InsertAt(q, i, e) = u \o t  BY DEF InsertAt
<1> HIDE DEF s, t
<1>4. /\ u \in Seq(S) /\ Len(u) = i /\ u[i] = e /\ \A p \in 1 .. i - 1 : u[p] = q[p]
  <2>1. <<e>> \in Seq(S) /\ Len(<<e>>) = 1 /\ <<e>>[1] = e  OBVIOUS
  <2>2. /\ u \in Seq(S) /\ Len(u) = Len(s) + Len(<<e>>)
        /\ \A p \in 1 .. Len(s) + Len(<<e>>) : u[p] = IF p <= Len(s) THEN s[p] ELSE <<e>>[p - Len(s)]
    BY <1>2, <2>1, ConcatProperties
  <2> HIDE DEF u
  <2>3. Len(u) = i /\ i \in 1 .. Len(s) + 1 /\ ~(i <= Len(s)) /\ i - Len(s) = 1
    BY <1>1, <1>2, <2>1, <2>2
  <2>4. u[i] = e  BY <2>1, <2>2, <2>3
  <2>5. ASSUME NEW p \in 1 .. i - 1  PROVE u[p] = q[p]
    <3>1. p \in 1 .. Len(s) + 1 /\ p <= Len(s)  BY <1>1, <1>2
    <3>2. QED  BY <1>2, <2>1, <2>2, <3>1
  <2>6. QED  BY <2>2, <2>3, <2>4, <2>5
<1> HIDE DEF u
<1>5. /\ u \o t \in Seq(S) /\ Len(u \o t) = Len(u) + Len(t)
      /\ \A p \in 1 .. Len(u) + Len(t) : (u \o t)[p] = IF p <= Len(u) THEN u[p] ELSE t[p - Len(u)]
  BY <1>2, <1>4, ConcatProperties
<1>6. Len(u \o t) = Len(q) + 1 /\ (u \o t)[i] = e
  BY <1>1, <1>2, <1>4, <1>5
<1>7. ASSUME NEW p \in 1 .. Len(q) + 1, p # i  PROVE (u \o t)[p] = q[IF p < i THEN p ELSE p - 1]
  <2>1. p \in 1 .. Len(u) + Len(t) /\ p \in Nat  BY <1>1, <1>2, <1>4
  <2>2. CASE p < i
    <3>1. p <= Len(u) /\ p \in 1 .. i - 1  BY <1>1, <1>4, <2>1, <2>2
    <3>2. QED  BY <1>4, <1>5, <2>1, <2>2, <3>1
  <2>3. CASE ~(p < i)
    <3>1. ~(p <= Len(u)) /\ p - Len(u) \in 1 .. Len(q) - i + 1 /\ i + (p - Len(u)) - 1 = p - 1
      BY <1>1, <1>4, <1>7, <2>1, <2>3
    <3>2. QED  BY <1>2, <1>5, <2>1, <2>3, <3>1
  <2>4. QED  BY <2>2, <2>3
<1>8. QED  BY <1>3, <1>5, <1>6, <1>7

\* A fault that hits a fragment of one message leaves the others tidy.
LEMMA ChainDisturbed ==
  ASSUME NEW S, NEW q \in Seq(S), NEW i \in 1 .. Len(q), NEW r \in {Lost(q, i), Twice(q, i), Later(q, i)},
         NEW seq, q[i].seq # seq, NEW h, Chain(q, seq, h)
  PROVE  Chain(r, seq, h)
<1>1. PICK n \in Nat : n = Len(q) /\ DOMAIN q = 1 .. n /\ i \in 1 .. n /\ q[i] \in S
  BY LenProperties, ElementOfSeq
<1>2. /\ Of(q, seq) \subseteq 1 .. n /\ i \notin Of(q, seq) /\ Of(q, seq) \subseteq Nat
      /\ \A p \in 1 .. n : p \in Of(q, seq) <=> q[p].seq = seq
  BY <1>1 DEF Of
<1>3. CASE r = Lost(q, i)
  <2>1. r = RemoveAt(q, i)  BY <1>3 DEF Lost
  <2>2. /\ r \in Seq(S) /\ Len(r) = n - 1
        /\ \A p \in 1 .. n - 1 : r[p] = q[IF p < i THEN p ELSE p + 1]
    BY <1>1, <2>1, WithoutOne
  <2>3. DOMAIN r = 1 .. n - 1  BY <2>2, LenProperties
  <2> DEFINE g == [p \in 1 .. n - 1 |-> IF p < i THEN p ELSE p + 1]
  <2>4. \A p \in Of(r, seq) : p \in 1 .. n - 1 /\ p \in Nat /\ g[p] \in 1 .. n /\ q[g[p]] = r[p] /\ r[p].seq = seq
    BY <1>1, <2>2, <2>3 DEF Of
  <2>5. \A p \in Of(r, seq) : g[p] \in Of(q, seq)  BY <1>2, <2>4
  <2>6. \A p, o \in Of(r, seq) : p < o => g[p] < g[o]
    <3> TAKE p, o \in Of(r, seq)
    <3>1. p \in 1 .. n - 1 /\ o \in 1 .. n - 1  BY <2>4
    <3>2. QED  BY <1>1, <3>1
  <2>7. ASSUME NEW o \in Of(q, seq)  PROVE \E p \in Of(r, seq) : g[p] = o
    <3>1. PICK p \in 1 .. n - 1 : g[p] = o
      <4>1. o \in 1 .. n /\ o # i  BY <1>2
      <4>2. CASE o < i
        <5>1. o \in 1 .. n - 1 /\ g[o] = o  BY <1>1, <4>1, <4>2
        <5>2. QED  BY <5>1
      <4>3. CASE o > i
        <5>1. o - 1 \in 1 .. n - 1 /\ g[o - 1] = o  BY <1>1, <4>1, <4>3
        <5>2. QED  BY <5>1
      <4>4. QED  BY <1>1, <4>1, <4>2, <4>3
    <3>2. r[p] = q[o]  BY <2>2, <3>1
    <3>3. p \in Of(r, seq)  BY <2>3, <3>2 DEF Of
    <3>4. QED  BY <3>1, <3>3
  <2> HIDE DEF g
  <2>8. Moves(g, q, r, seq)  BY <2>4, <2>5, <2>6, <2>7 DEF Moves
  <2>9. Of(r, seq) \subseteq Nat  BY <2>4
  <2>10. QED  BY <1>2, <2>8, <2>9, ChainMoved
<1>4. CASE r = Twice(q, i)
  <2>1. r = InsertAt(q, i, q[i])  BY <1>4 DEF Twice
  <2>2. /\ r \in Seq(S) /\ Len(r) = n + 1 /\ r[i] = q[i]
        /\ \A p \in 1 .. n + 1 : p # i => r[p] = q[IF p < i THEN p ELSE p - 1]
    <3>1. PICK e \in S : e = q[i]  BY <1>1
    <3>2. /\ InsertAt(q, i, e) \in Seq(S) /\ Len(InsertAt(q, i, e)) = Len(q) + 1
          /\ InsertAt(q, i, e)[i] = e
          /\ \A p \in 1 .. Len(q) + 1 :
               p # i => InsertAt(q, i, e)[p] = q[IF p < i THEN p ELSE p - 1]
      BY WithOneMore
    <3>3. r = InsertAt(q, i, e)  BY <2>1, <3>1
    <3>4. QED  BY <1>1, <3>1, <3>2, <3>3
  <2>3. DOMAIN r = 1 .. n + 1  BY <2>2, LenProperties
  <2> DEFINE g == [p \in 1 .. n + 1 |-> IF p < i THEN p ELSE p - 1]
  <2>4. \A p \in Of(r, seq) : p \in 1 .. n + 1 /\ p # i /\ p \in Nat /\ g[p] \in 1 .. n /\ q[g[p]] = r[p] /\ r[p].seq = seq
    BY <1>1, <2>2, <2>3 DEF Of
  <2>5. \A p \in Of(r, seq) : g[p] \in Of(q, seq)  BY <1>2, <2>4
  <2>6. \A p, o \in Of(r, seq) : p < o => g[p] < g[o]
    <3> TAKE p, o \in Of(r, seq)
    <3>1. p \in 1 .. n + 1 /\ o \in 1 .. n + 1 /\ p # i /\ o # i  BY <2>4
    <3>2. QED  BY <1>1, <3>1
  <2>7. ASSUME NEW o \in Of(q, seq)  PROVE \E p \in Of(r, seq) : g[p] = o
    <3>1. PICK p \in 1 .. n + 1 : g[p] = o /\ p # i
      <4>1. o \in 1 .. n /\ o # i  BY <1>2
      <4>2. CASE o < i
        <5>1. o \in 1 .. n + 1 /\ g[o] = o /\ o # i  BY <1>1, <4>1, <4>2
        <5>2. QED  BY <5>1
      <4>3. CASE o > i
        <5>1. o + 1 \in 1 .. n + 1 /\ g[o + 1] = o /\ o + 1 # i  BY <1>1, <4>1, <4>3
        <5>2. QED  BY <5>1
      <4>4. QED  BY <1>1, <4>1, <4>2, <4>3
    <3>2. r[p] = q[o]  BY <2>2, <3>1
    <3>3. p \in Of(r, seq)  BY <2>3, <3>2 DEF Of
    <3>4. QED  BY <3>1, <3>3
  <2> HIDE DEF g
  <2>8. Moves(g, q, r, seq)  BY <2>4, <2>5, <2>6, <2>7 DEF Moves
  <2>9. Of(r, seq) \subseteq Nat  BY <2>4
  <2>10. QED  BY <1>2, <2>8, <2>9, ChainMoved
<1>5. CASE r = Later(q, i)
  <2>1. r = Append(RemoveAt(q, i), q[i])  BY <1>5 DEF Later
  <2>2. /\ RemoveAt(q, i) \in Seq(S) /\ Len(RemoveAt(q, i)) = n - 1
        /\ \A p \in 1 .. n - 1 : RemoveAt(q, i)[p] = q[IF p < i THEN p ELSE p + 1]
    BY <1>1, WithoutOne
  <2>3. /\ r \in Seq(S) /\ Len(r) = n /\ r[n] = q[i]
        /\ \A p \in 1 .. n - 1 : r[p] = q[IF p < i THEN p ELSE p + 1]
    <3>1. /\ r \in Seq(S) /\ Len(r) = (n - 1) + 1 /\ r[(n - 1) + 1] = q[i]
          /\ \A p \in 1 .. n - 1 : r[p] = RemoveAt(q, i)[p]
      BY <1>1, <2>1, <2>2, AppendProperties
    <3>2. (n - 1) + 1 = n  BY <1>1
    <3>3. QED  BY <2>2, <3>1, <3>2
  <2>4. DOMAIN r = 1 .. n  BY <2>3, LenProperties
  <2> DEFINE g == [p \in 1 .. n |-> IF p < i THEN p ELSE p + 1]
  <2>5. \A p \in Of(r, seq) : p \in 1 .. n - 1 /\ p \in Nat /\ r[p].seq = seq
    <3> TAKE p \in Of(r, seq)
    <3>1. p \in 1 .. n /\ r[p].seq = seq  BY <2>4 DEF Of
    <3>2. p # n  BY <2>3, <3>1
    <3>3. QED  BY <1>1, <3>1, <3>2
  <2>6. \A p \in 1 .. n - 1 : g[p] \in 1 .. n /\ q[g[p]] = r[p]  BY <1>1, <2>3
  <2>7. \A p \in Of(r, seq) : g[p] \in Of(q, seq)  BY <1>2, <2>5, <2>6
  <2>8. \A p, o \in Of(r, seq) : p < o => g[p] < g[o]
    <3> TAKE p, o \in Of(r, seq)
    <3>1. p \in 1 .. n - 1 /\ o \in 1 .. n - 1  BY <2>5
    <3>2. QED  BY <1>1, <3>1
  <2>9. ASSUME NEW o \in Of(q, seq)  PROVE \E p \in Of(r, seq) : g[p] = o
    <3>1. PICK p \in 1 .. n - 1 : g[p] = o
      <4>1. o \in 1 .. n /\ o # i  BY <1>2
      <4>2. CASE o < i
        <5>1. o \in 1 .. n - 1 /\ g[o] = o  BY <1>1, <4>1, <4>2
        <5>2. QED  BY <5>1
      <4>3. CASE o > i
        <5>1. o - 1 \in 1 .. n - 1 /\ g[o - 1] = o  BY <1>1, <4>1, <4>3
        <5>2. QED  BY <5>1
      <4>4. QED  BY <1>1, <4>1, <4>2, <4>3
    <3>2. r[p] = q[o]  BY <2>6, <3>1
    <3>3. p \in Of(r, seq)
      <4>1. p \in 1 .. n /\ q[o].seq = seq  BY <1>1, <1>2
      <4>2. QED  BY <2>4, <3>2, <4>1 DEF Of
    <3>4. QED  BY <3>1, <3>3
  <2> HIDE DEF g
  <2>10. Moves(g, q, r, seq)  BY <2>5, <2>6, <2>7, <2>8, <2>9 DEF Moves
  <2>11. Of(r, seq) \subseteq Nat  BY <2>5
  <2>12. QED  BY <1>2, <2>10, <2>11, ChainMoved
<1>6. QED  BY <1>3, <1>4, <1>5

\* Something else comes in, or is added.
LEMMA ChainOfOthers ==
  ASSUME NEW S, NEW q \in Seq(S), NEW seq, NEW h, Chain(q, seq, h)
  PROVE  /\ q # <<>> /\ q[1].seq # seq => Chain(Tail(q), seq, h)
         /\ \A e \in Seq(S) : (\A i \in 1 .. Len(e) : e[i].seq # seq) => Chain(q \o e, seq, h)
<1>1. PICK n \in Nat : n = Len(q) /\ DOMAIN q = 1 .. n  BY LenProperties
<1>2. /\ Of(q, seq) \subseteq 1 .. n /\ Of(q, seq) \subseteq Nat
      /\ \A p \in 1 .. n : p \in Of(q, seq) <=> q[p].seq = seq
  BY <1>1 DEF Of
<1>3. ASSUME q # <<>>, q[1].seq # seq  PROVE Chain(Tail(q), seq, h)
  <2>1. PICK r : r = Tail(q)  OBVIOUS
  <2>2. r \in Seq(S) /\ Len(r) = n - 1 /\ \A p \in 1 .. Len(r) : r[p] = q[p + 1]
    BY <1>1, <1>3, <2>1, HeadTailProperties
  <2>3. DOMAIN r = 1 .. n - 1  BY <2>2, LenProperties
  <2> DEFINE g == [p \in 1 .. n - 1 |-> p + 1]
  <2>4. \A p \in Of(r, seq) : p \in 1 .. n - 1 /\ p \in Nat /\ g[p] \in 1 .. n /\ q[g[p]] = r[p] /\ r[p].seq = seq
    BY <1>1, <2>2, <2>3 DEF Of
  <2>5. \A p \in Of(r, seq) : g[p] \in Of(q, seq)  BY <1>2, <2>4
  <2>6. \A p, o \in Of(r, seq) : p < o => g[p] < g[o]
    <3> TAKE p, o \in Of(r, seq)
    <3>1. p \in 1 .. n - 1 /\ o \in 1 .. n - 1  BY <2>4
    <3>2. QED  BY <1>1, <3>1
  <2>7. ASSUME NEW o \in Of(q, seq)  PROVE \E p \in Of(r, seq) : g[p] = o
    <3>1. o \in 1 .. n /\ o # 1 /\ q[o].seq = seq  BY <1>2, <1>3
    <3>2. o - 1 \in 1 .. n - 1 /\ g[o - 1] = o /\ (o - 1) + 1 = o  BY <1>1, <3>1
    <3>3. r[o - 1] = q[o]  BY <2>2, <3>2
    <3>4. o - 1 \in Of(r, seq)  BY <2>3, <3>1, <3>2, <3>3 DEF Of
    <3>5. QED  BY <3>2, <3>4
  <2> HIDE DEF g
  <2>8. Moves(g, q, r, seq)  BY <2>4, <2>5, <2>6, <2>7 DEF Moves
  <2>9. Of(r, seq) \subseteq Nat  BY <2>4
  <2>10. Chain(r, seq, h)  BY <1>2, <2>8, <2>9, ChainMoved
  <2>11. QED  BY <2>1, <2>10
<1>4. ASSUME NEW e \in Seq(S), \A i \in 1 .. Len(e) : e[i].seq # seq  PROVE Chain(q \o e, seq, h)
  <2>1. PICK r : r = q \o e  OBVIOUS
  <2>2. /\ r \in Seq(S) /\ Len(r) = n + Len(e) /\ Len(e) \in Nat
        /\ \A p \in 1 .. n + Len(e) : r[p] = IF p <= n THEN q[p] ELSE e[p - n]
    BY <1>1, <2>1, ConcatProperties, LenProperties
  <2>3. DOMAIN r = 1 .. n + Len(e)  BY <2>2, LenProperties
  <2>4. \A p \in Of(r, seq) : p \in 1 .. n /\ p \in Nat /\ r[p] = q[p] /\ r[p].seq = seq
    <3> TAKE p \in Of(r, seq)
    <3>1. p \in 1 .. n + Len(e) /\ r[p].seq = seq  BY <2>3 DEF Of
    <3>2. p <= n
      <4>1. SUFFICES ASSUME ~(p <= n)  PROVE FALSE  OBVIOUS
      <4>2. p - n \in 1 .. Len(e)  BY <2>2, <3>1, <4>1
      <4>3. r[p] = e[p - n]  BY <2>2, <3>1, <4>1
      <4>4. QED  BY <1>4, <3>1, <4>2, <4>3
    <3>3. QED  BY <2>2, <3>1, <3>2
  <2> DEFINE g == [p \in 1 .. n |-> p]
  <2>5. \A p \in Of(r, seq) : g[p] \in Of(q, seq) /\ q[g[p]] = r[p]  BY <1>2, <2>4
  <2>6. \A p, o \in Of(r, seq) : p < o => g[p] < g[o]  BY <2>4
  <2>7. ASSUME NEW o \in Of(q, seq)  PROVE \E p \in Of(r, seq) : g[p] = o
    <3>1. o \in 1 .. n /\ q[o].seq = seq /\ o \in 1 .. n + Len(e) /\ o <= n  BY <1>2, <2>2
    <3>2. r[o] = q[o]  BY <2>2, <3>1
    <3>3. o \in Of(r, seq)  BY <2>3, <3>1, <3>2 DEF Of
    <3>4. QED  BY <3>1, <3>3
  <2> HIDE DEF g
  <2>8. Moves(g, q, r, seq)  BY <2>5, <2>6, <2>7 DEF Moves
  <2>9. Of(r, seq) \subseteq Nat  BY <2>4
  <2>10. Chain(r, seq, h)  BY <1>2, <2>8, <2>9, ChainMoved
  <2>11. QED  BY <2>1, <2>10
<1>5. QED  BY <1>3, <1>4

\* The step leaves the slot of the message alone.
Untouched(b, seq) ==
  /\ \A i : i \in Active' /\ slot'[i].src = b /\ slot'[i].seq = seq
              <=> i \in Active /\ slot[i].src = b /\ slot[i].seq = seq
  /\ \A i \in Active : slot[i].src = b /\ slot[i].seq = seq => slot'[i] = slot[i]

LEMMA StillTidy ==
  ASSUME NEW b, NEW seq, \A h \in Indices : Chain(net[b], seq, h) => Chain(net'[b], seq, h),
         Untouched(b, seq), Tidy(b, seq)
  PROVE  Tidy(b, seq)'
<1>1. PICK h \in Indices : Chain(net[b], seq, h) /\ Holding(b, seq, h)  BY DEF Tidy
<1>2. Chain(net'[b], seq, h)  BY <1>1
<1>3. Holding(b, seq, h)'
  <2>1. \A i \in Active' : slot'[i].src = b /\ slot'[i].seq = seq => Held(slot'[i]) = 0 .. h - 1
    BY <1>1, Zenon DEF Holding, Untouched
  <2>2. h # 0 => \E i \in Active' : slot'[i].src = b /\ slot'[i].seq = seq
    BY <1>1, Zenon DEF Holding, Untouched
  <2>3. QED  BY <2>1, <2>2, Zenon DEF Holding
<1>4. QED  BY <1>2, <1>3, Zenon DEF Tidy

\* A sequence and what follows its first element
LEMMA FirstAndRest ==
  ASSUME NEW S, NEW q \in Seq(S), q # <<>>
  PROVE  Head(q) = q[1] /\ \E n \in Nat : Rest(q, Tail(q), n)
<1>1. PICK r : r = Tail(q)  OBVIOUS
<1>2. /\ Head(q) = q[1] /\ r \in Seq(S) /\ Len(r) = Len(q) - 1
      /\ \A p \in 1 .. Len(r) : r[p] = q[p + 1]
  BY <1>1, HeadTailProperties
<1>3. PICK n \in Nat : n = Len(r) /\ DOMAIN r = 1 .. n  BY <1>2, LenProperties
<1>4. Len(q) \in Nat /\ DOMAIN q = 1 .. Len(q)  BY LenProperties
<1>5. Len(q) = n + 1  BY <1>2, <1>3, <1>4
<1>6. Rest(q, r, n)  BY <1>2, <1>3, <1>4, <1>5 DEF Rest
<1>7. QED  BY <1>1, <1>2, <1>6

\* bc_reasm_feed keeps the message it gets a fragment of tidy.
LEMMA FeedTidy ==
  ASSUME Slotted, NEW b \in Boards, NEW seq, Feed(b), Head(net[b]).seq = seq, Tidy(b, seq)
  PROVE  Tidy(b, seq)'
<1> DEFINE f == Head(net[b])
           i == FindSlot(f)
           s == Opened(f, i)
           t == Stored(f, s)
<1>1. /\ net[b] # <<>> /\ Candidates(f) # {} /\ net' = [net EXCEPT ![b] = Tail(@)]
      /\ \/ Duplicate(f, s)
         \/ ~Duplicate(f, s) /\ t.received < Total /\ slot' = [slot EXCEPT ![i] = t]
         \/ ~Duplicate(f, s) /\ t.received = Total /\ slot' = [slot EXCEPT ![i] = [t EXCEPT !.active = FALSE]]
  BY DEF Feed, Arrives, Released
<1>2. /\ f \in Packets(b, boots[b]) /\ f.index \in Indices /\ i \in 1 .. Slots
      /\ s \in SlotType /\ s.active = TRUE /\ s.src = b /\ s.seq = f.seq /\ Sound(s, boots[b])
      /\ \A j \in Active \ {i} : slot[j].src # b \/ slot[j].seq # f.seq
      /\ i \in Active => s = slot[i]
      /\ i \notin Active => /\ Held(s) = {}
                           /\ \A j \in Active : slot[j].src # b \/ slot[j].seq # f.seq
  BY <1>1, OpenedSlot
<1>3. PICK n \in Nat : Rest(net[b], Tail(net[b]), n) /\ f = net[b][1]
  <2>1. net[b] \in Seq(Packets(b, boots[b])) /\ net[b] # <<>>  BY <1>1 DEF Slotted
  <2>2. QED  BY <2>1, FirstAndRest
<1>4. slot \in [1 .. Slots -> SlotType] /\ boots[b] \in Nat /\ net'[b] = Tail(net[b])
  BY <1>1, Counts DEF Slotted
<1>0. f.seq = seq  OBVIOUS
<1> HIDE DEF f, i, s
<1>5. PICK h \in Indices : Chain(net[b], seq, h) /\ Holding(b, seq, h)  BY DEF Tidy
<1>6. h \in Nat /\ h \in 0 .. Total - 1 /\ Total \in Nat /\ Total > 1  BY Constants DEF Indices
<1>7. f.index = h /\ Chain(net'[b], seq, After(h))
  <2>1. PICK q, r : q = net[b] /\ r = Tail(net[b])  OBVIOUS
  <2>2. Rest(q, r, n) /\ q[1].seq = seq /\ Chain(q, seq, h)  BY <1>0, <1>3, <1>5, <2>1
  <2>3. q[1].index = h /\ Chain(r, seq, After(h))  BY <2>2, ChainTaken
  <2>4. QED  BY <1>3, <1>4, <2>1, <2>3
<1>8. Held(s) = 0 .. h - 1
  <2>1. CASE i \in Active
    <3>1. slot[i].src = b /\ slot[i].seq = seq /\ s = slot[i]  BY <1>0, <1>2, <2>1
    <3>2. QED  BY <1>5, <2>1, <3>1 DEF Holding
  <2>2. CASE i \notin Active
    <3>1. h = 0  BY <1>0, <1>2, <1>5, <2>2 DEF Holding
    <3>2. 0 .. h - 1 = {}  BY <3>1
    <3>3. QED  BY <1>2, <2>2, <3>2
  <2>3. QED  BY <2>1, <2>2
<1>9. ~Duplicate(f, s)
  <2>1. f.index \notin Held(s)  BY <1>6, <1>7, <1>8
  <2>2. QED  BY <1>2, <2>1 DEF Duplicate, Held
<1>10. Taken(t, s, f, boots[b])
  <2>1. Taken(Stored(f, s), s, f, boots[b])  BY <1>2, <1>4, <1>9, StoredSlot
  <2>2. QED  BY <2>1
<1> HIDE DEF t
<1>11. /\ t \in SlotType /\ t.active = TRUE /\ t.src = b /\ t.seq = seq /\ Held(t) = 0 .. h
       /\ t.received = h + 1
  <2>1. Held(t) = (0 .. h - 1) \cup {h}  BY <1>7, <1>8, <1>10 DEF Taken
  <2>2. (0 .. h - 1) \cup {h} = 0 .. h  BY <1>6
  <2>3. Cardinality(0 .. h) = h + 1
    <3>1. Cardinality(0 .. h) = IF 0 > h THEN 0 ELSE h - 0 + 1  BY <1>6, FS_Interval
    <3>2. QED  BY <1>6, <3>1
  <2>4. t.received = Cardinality(Held(t))  BY <1>10 DEF Taken, Sound
  <2>5. QED  BY <1>0, <1>2, <1>10, <2>1, <2>2, <2>3, <2>4 DEF Taken
<1>12. CASE t.received < Total /\ slot' = [slot EXCEPT ![i] = t]
  <2>1. PICK m \in Indices : m = After(h) /\ m = h + 1 /\ m # 0 /\ m - 1 = h
    <3>1. h + 1 \in Indices /\ After(h) = h + 1 /\ h + 1 # 0 /\ (h + 1) - 1 = h
      BY <1>6, <1>11, <1>12 DEF After, Indices
    <3>2. QED  BY <3>1
  <2>2. /\ i \in Active' /\ slot'[i] = t
        /\ \A j \in Active' \ {i} : slot'[j].src # b \/ slot'[j].seq # seq
    BY <1>0, <1>2, <1>4, <1>11, <1>12 DEF Active
  <2>3. \A j \in Active' : slot'[j].src = b /\ slot'[j].seq = seq => Held(slot'[j]) = 0 .. m - 1
    BY <1>11, <2>1, <2>2
  <2>4. \E j \in Active' : slot'[j].src = b /\ slot'[j].seq = seq  BY <1>11, <2>2
  <2>5. Chain(net'[b], seq, m) /\ m \in Indices  BY <1>7, <2>1
  <2>6. QED  BY <2>3, <2>4, <2>5, Zenon DEF Tidy, Holding
<1>13. CASE t.received = Total /\ slot' = [slot EXCEPT ![i] = [t EXCEPT !.active = FALSE]]
  <2>1. After(h) = 0 /\ 0 \in Indices  BY <1>6, <1>11, <1>13, Constants DEF After
  <2>2. [t EXCEPT !.active = FALSE].active = FALSE  BY <1>11 DEF SlotType
  <2>3. \A j \in Active' : slot'[j].src # b \/ slot'[j].seq # seq
    BY <1>0, <1>2, <1>4, <1>13, <2>2 DEF Active
  <2>4. Chain(net'[b], seq, 0)  BY <1>7, <2>1
  <2>5. QED  BY <2>1, <2>3, <2>4, Zenon DEF Tidy, Holding
<1>14. QED  BY <1>1, <1>9, <1>12, <1>13

\* The messages in K are the only ones the step may upset.
OthersTidy(K) ==
  \A b \in Boards : \A seq \in 1 .. MaxSeq : Tidy(b, seq) /\ <<b, seq>> \notin K => Tidy(b, seq)'

\* Steps that add fragments of the next message of c, all of them or not
LEMMA PublishOthers ==
  ASSUME Slotted, NEW c \in Boards, nextSeq[c] < MaxSeq, NEW k \in 0 .. Total,
         net' = [net EXCEPT ![c] = @ \o Emitted(c, k)], slot' = slot
  PROVE  OthersTidy({<<c, nextSeq[c] + 1>>})
<1> SUFFICES ASSUME NEW b \in Boards, NEW seq \in 1 .. MaxSeq, Tidy(b, seq), b # c \/ seq # nextSeq[c] + 1
             PROVE  Tidy(b, seq)'
  BY DEF OthersTidy
<1>1. Untouched(b, seq)  BY DEF Untouched, Active
<1>2. DOMAIN net = Boards /\ net[b] \in Seq(Packets(b, boots[b]))  BY DEF Slotted
<1>3. CASE b # c
  <2>1. net'[b] = net[b]  BY <1>2, <1>3
  <2>2. QED  BY <1>1, <2>1, StillTidy
<1>4. CASE b = c
  <2>1. PICK e : e = Emitted(c, k)  OBVIOUS
  <2>2. /\ e \in Seq(Packets(b, boots[b])) /\ Len(e) = k
        /\ \A i \in 1 .. k : e[i].seq = nextSeq[c] + 1
    <3>1. /\ Emitted(c, k) \in Seq(Packets(c, boots[c])) /\ Len(Emitted(c, k)) = k
          /\ \A i \in 1 .. k : Emitted(c, k)[i] = Fragment(c, boots[c], nextSeq[c] + 1, i - 1)
      BY EmittedPackets
    <3>2. \A i \in 1 .. k : e[i] = Fragment(c, boots[c], nextSeq[c] + 1, i - 1)  BY <2>1, <3>1
    <3>3. \A i \in 1 .. k : e[i].seq = nextSeq[c] + 1
      <4> TAKE i \in 1 .. k
      <4>1. PICK n, m, x : e[i] = Fragment(c, n, m, x) /\ m = nextSeq[c] + 1  BY <3>2
      <4>2. e[i].seq = m  BY <4>1 DEF Fragment
      <4>3. QED  BY <4>1, <4>2
    <3>4. QED  BY <1>4, <2>1, <3>1, <3>3
  <2>3. \A i \in 1 .. Len(e) : e[i].seq # seq  BY <1>4, <2>2
  <2>4. net'[b] = net[b] \o e  BY <1>2, <1>4, <2>1
  <2>5. \A h \in Indices : Chain(net[b], seq, h) => Chain(net'[b], seq, h)
    BY <1>2, <2>2, <2>3, <2>4, ChainOfOthers
  <2>6. QED  BY <1>1, <2>5, StillTidy
<1>5. QED  BY <1>3, <1>4

LEMMA PublishTidy ==
  ASSUME Slotted, NEW c \in Boards, Publish(c)
  PROVE  OthersTidy({})
<1>1. /\ nextSeq[c] < MaxSeq /\ net' = [net EXCEPT ![c] = @ \o Emitted(c, Total)] /\ slot' = slot
  BY DEF Publish
<1>2. Total \in 0 .. Total /\ Total \in Nat /\ nextSeq[c] \in Nat  BY Counts
<1>3. OthersTidy({<<c, nextSeq[c] + 1>>})  BY <1>1, <1>2, PublishOthers
<1>4. PICK seq : seq = nextSeq[c] + 1  OBVIOUS
<1>5. ASSUME Tidy(c, seq)  PROVE Tidy(c, seq)'
  <2>1. Untouched(c, seq)  BY <1>1 DEF Untouched, Active
  <2>2. PICK q, e, r : q = net[c] /\ e = Emitted(c, Total) /\ r = q \o e  OBVIOUS
  <2>3. /\ q \in Seq(Packets(c, boots[c])) /\ DOMAIN net = Boards
        /\ e \in Seq(Packets(c, boots[c])) /\ Len(e) = Total
        /\ \A i \in 1 .. Total : e[i].seq = seq /\ e[i].index = i - 1
    <3>1. PICK k \in 0 .. Total : k = Total  BY <1>2
    <3>2. /\ Emitted(c, k) \in Seq(Packets(c, boots[c])) /\ Len(Emitted(c, k)) = k
          /\ \A i \in 1 .. k : Emitted(c, k)[i] = Fragment(c, boots[c], nextSeq[c] + 1, i - 1)
      BY <1>1, EmittedPackets
    <3>3. \A i \in 1 .. Total : e[i] = Fragment(c, boots[c], seq, i - 1)
      BY <1>4, <2>2, <3>1, <3>2
    <3>4. \A i \in 1 .. Total : e[i].seq = seq /\ e[i].index = i - 1
      <4> TAKE i \in 1 .. Total
      <4>1. PICK n, m, x : e[i] = Fragment(c, n, m, x) /\ m = seq /\ x = i - 1  BY <3>3
      <4>2. e[i].seq = m /\ e[i].index = x  BY <4>1 DEF Fragment
      <4>3. QED  BY <4>1, <4>2
    <3>5. q \in Seq(Packets(c, boots[c])) /\ DOMAIN net = Boards  BY <2>2 DEF Slotted
    <3>6. QED  BY <2>2, <3>1, <3>2, <3>4, <3>5
  <2>4. net'[c] = r  BY <1>1, <2>2, <2>3
  <2>5. PICK n \in Nat : n = Len(q) /\ DOMAIN q = 1 .. n  BY <2>3, LenProperties
  <2>6. /\ r \in Seq(Packets(c, boots[c])) /\ Len(r) = n + Total
        /\ \A p \in 1 .. n + Total : r[p] = IF p <= n THEN q[p] ELSE e[p - n]
    BY <2>2, <2>3, <2>5, ConcatProperties
  <2>7. DOMAIN r = 1 .. n + Total  BY <2>6, LenProperties
  <2>8. \A p \in 1 .. n : r[p] = q[p]  BY <1>2, <2>6
  <2>9. \A i \in 1 .. Total : r[n + i].seq = seq /\ r[n + i].index = i - 1
    <3> TAKE i \in 1 .. Total
    <3>1. n + i \in 1 .. n + Total /\ ~(n + i <= n) /\ (n + i) - n = i  BY <1>2
    <3>2. r[n + i] = e[i]  BY <2>6, <3>1
    <3>3. QED  BY <2>3, <3>2
  <2>10. \A h \in Indices : Chain(q, seq, h) => Chain(r, seq, h)
    BY <2>5, <2>7, <2>8, <2>9, ChainPublished
  <2>11. QED  BY <1>5, <2>1, <2>2, <2>4, <2>10, StillTidy
<1>6. QED  BY <1>3, <1>4, <1>5 DEF OthersTidy

\* A fault hits one fragment and upsets its message only.
LEMMA DisturbTidy ==
  ASSUME Slotted, NEW c \in Boards, Disturb(c)
  PROVE  \E k : OthersTidy({k})
<1>1. PICK r \in AfterFault(net[c], DOMAIN net[c]) : net' = [net EXCEPT ![c] = r]
  BY DEF Disturb
<1>2. slot' = slot /\ DOMAIN net = Boards /\ net[c] \in Seq(Packets(c, boots[c]))
  BY DEF Disturb, Slotted
<1>3. PICK i \in DOMAIN net[c] : r \in {Lost(net[c], i), Twice(net[c], i), Later(net[c], i)}
  BY <1>1, Zenon DEF AfterFault
<1>4. i \in 1 .. Len(net[c])  BY <1>2, <1>3, LenProperties
<1>5. PICK x : x = net[c][i].seq  OBVIOUS
<1>6. ASSUME NEW b \in Boards, NEW seq \in 1 .. MaxSeq, Tidy(b, seq), b # c \/ seq # x
      PROVE  Tidy(b, seq)'
  <2>1. Untouched(b, seq)  BY <1>2 DEF Untouched, Active
  <2>2. CASE b # c
    <3>1. net'[b] = net[b]  BY <1>1, <1>2, <2>2
    <3>2. QED  BY <1>6, <2>1, <3>1, StillTidy
  <2>3. CASE b = c
    <3>1. net'[c] = r  BY <1>1, <1>2
    <3>2. PICK q : q = net[c]  OBVIOUS
    <3>3. /\ q \in Seq(Packets(c, boots[c])) /\ i \in 1 .. Len(q)
          /\ r \in {Lost(q, i), Twice(q, i), Later(q, i)} /\ q[i].seq # seq
      BY <1>2, <1>3, <1>4, <1>5, <1>6, <2>3, <3>2
    <3>4. \A h \in Indices : Chain(q, seq, h) => Chain(r, seq, h)  BY <3>3, ChainDisturbed
    <3>5. QED  BY <1>6, <2>1, <2>3, <3>1, <3>2, <3>4, StillTidy
  <2>4. QED  BY <2>2, <2>3
<1>7. OthersTidy({<<c, x>>})  BY <1>6 DEF OthersTidy
<1>8. QED  BY <1>7

\* The fragment that arrives matters to its message only.
LEMMA ArrivalOthers ==
  ASSUME Slotted, NEW c \in Boards, Arrives(c), NEW b \in Boards, NEW seq,
         b # c \/ seq # Head(net[c]).seq, Untouched(b, seq), Tidy(b, seq)
  PROVE  Tidy(b, seq)'
<1>1. /\ net[c] # <<>> /\ net' = [net EXCEPT ![c] = Tail(@)] /\ DOMAIN net = Boards
      /\ net[c] \in Seq(Packets(c, boots[c]))
  BY DEF Arrives, Slotted
<1>2. CASE b # c
  <2>1. net'[b] = net[b]  BY <1>1, <1>2
  <2>2. QED  BY <2>1, StillTidy
<1>3. CASE b = c
  <2>1. PICK q : q = net[c]  OBVIOUS
  <2>2. net'[c] = Tail(q) /\ q # <<>> /\ q \in Seq(Packets(c, boots[c]))  BY <1>1, <2>1
  <2>3. Head(q) = q[1]  BY <2>2, FirstAndRest
  <2>4. q[1].seq # seq  BY <1>3, <2>1, <2>3
  <2>5. \A h \in Indices : Chain(q, seq, h) => Chain(Tail(q), seq, h)
    BY <2>2, <2>4, ChainOfOthers
  <2>6. QED  BY <1>3, <2>1, <2>2, <2>5, StillTidy
<1>4. QED  BY <1>2, <1>3

\* A step of bc_reasm_feed that finds no slot upsets the message of its fragment.
LEMMA RefusedTidy ==
  ASSUME Slotted, NEW c \in Boards, FeedRefused(c)
  PROVE  \E k : OthersTidy({k})
<1>1. Arrives(c) /\ slot' = slot  BY DEF FeedRefused
<1>2. PICK x : x = Head(net[c]).seq  OBVIOUS
<1>3. ASSUME NEW b \in Boards, NEW seq \in 1 .. MaxSeq, Tidy(b, seq), b # c \/ seq # x
      PROVE  Tidy(b, seq)'
  <2>1. Untouched(b, seq)  BY <1>1 DEF Untouched, Active
  <2>2. QED  BY <1>1, <1>2, <1>3, <2>1, ArrivalOthers
<1>4. OthersTidy({<<c, x>>})  BY <1>3 DEF OthersTidy
<1>5. QED  BY <1>4

\* One that finds a slot upsets none.
LEMMA FeedOthers ==
  ASSUME Slotted, NEW c \in Boards, Feed(c)
  PROVE  OthersTidy({})
<1> DEFINE f == Head(net[c])
           i == FindSlot(f)
           s == Opened(f, i)
           t == Stored(f, s)
<1>1. /\ Arrives(c) /\ net[c] # <<>> /\ Candidates(f) # {}
      /\ \/ slot' = slot
         \/ ~Duplicate(f, s) /\ slot' = [slot EXCEPT ![i] = t]
         \/ ~Duplicate(f, s) /\ slot' = [slot EXCEPT ![i] = [t EXCEPT !.active = FALSE]]
  BY DEF Feed, Arrives, Released
<1>2. /\ f \in Packets(c, boots[c]) /\ i \in 1 .. Slots /\ s \in SlotType /\ s.src = c
      /\ s.seq = f.seq /\ Sound(s, boots[c])
      /\ (i \in Active => slot[i].src = c /\ slot[i].seq = f.seq)
  BY <1>1, OpenedSlot
<1>3. slot \in [1 .. Slots -> SlotType] /\ boots[c] \in Nat  BY Counts DEF Slotted
<1>4. PICK x : x = f.seq  OBVIOUS
<1>5. ASSUME NEW seq, seq = x, Tidy(c, seq)  PROVE Tidy(c, seq)'
  BY <1>4, <1>5, FeedTidy
<1> HIDE DEF i, s
<1>6. ~Duplicate(f, s) => t.src = c /\ t.seq = x /\ t \in SlotType
  <2>1. ~Duplicate(f, s) => Taken(Stored(f, s), s, f, boots[c])  BY <1>2, <1>3, StoredSlot
  <2>2. QED  BY <1>2, <1>4, <2>1 DEF Taken
<1> HIDE DEF t
<1>7. ASSUME NEW b \in Boards, NEW seq \in 1 .. MaxSeq, b # c \/ seq # x
      PROVE  Untouched(b, seq)
  <2>1. CASE slot' = slot  BY <2>1 DEF Untouched, Active
  <2>2. CASE ~Duplicate(f, s) /\ slot' \in {[slot EXCEPT ![i] = t],
                                            [slot EXCEPT ![i] = [t EXCEPT !.active = FALSE]]}
    <3>1. [t EXCEPT !.active = FALSE].src = c /\ [t EXCEPT !.active = FALSE].seq = x
      BY <1>6, <2>2 DEF SlotType
    <3>2. /\ slot'[i].src = c /\ slot'[i].seq = x
          /\ \A j \in 1 .. Slots \ {i} : slot'[j] = slot[j]
      BY <1>2, <1>3, <1>6, <2>2, <3>1
    <3>3. \A j : j \in Active' /\ slot'[j].src = b /\ slot'[j].seq = seq
                   <=> j \in Active /\ slot[j].src = b /\ slot[j].seq = seq
      BY <1>2, <1>4, <1>7, <3>2 DEF Active
    <3>4. \A j \in Active : slot[j].src = b /\ slot[j].seq = seq => slot'[j] = slot[j]
      BY <1>2, <1>4, <1>7, <3>2 DEF Active
    <3>5. QED  BY <3>3, <3>4, Zenon DEF Untouched
  <2>3. QED  BY <1>1, <2>1, <2>2
<1>8. ASSUME NEW b \in Boards, NEW seq \in 1 .. MaxSeq, Tidy(b, seq)
      PROVE  Tidy(b, seq)'
  <2>1. CASE b = c /\ seq = x  BY <1>5, <1>8, <2>1
  <2>2. CASE b # c \/ seq # x  BY <1>1, <1>4, <1>7, <1>8, <2>2, ArrivalOthers
  <2>3. QED  BY <2>1, <2>2
<1>9. QED  BY <1>8 DEF OthersTidy

\* The accounts are balanced at the start and stay so.
LEMMA AccountedInit == Init => Accounted
<1> SUFFICES ASSUME Init  PROVE Accounted  OBVIOUS
<1>1. ASSUME NEW b \in Boards, NEW seq \in 1 .. MaxSeq  PROVE Tidy(b, seq)
  <2>1. net[b] = <<>> /\ DOMAIN <<>> = {}  BY EmptySeq DEF Init
  <2>2. Of(net[b], seq) = {}  BY <2>1 DEF Of
  <2>3. Chain(net[b], seq, 0)  BY <2>2, Zenon DEF Chain
  <2>4. Active = {}  BY DEF Init, Active
  <2>5. Holding(b, seq, 0)  BY <2>4, Zenon DEF Holding
  <2>6. QED  BY <2>3, <2>5, Constants DEF Tidy
<1>2. Untidy = {}  BY <1>1 DEF Untidy
<1>3. faults + refused = 0  BY DEF Init
<1>4. QED  BY <1>2, <1>3, FS_EmptySet DEF Accounted

LEMMA AccountedStep ==
  ASSUME Slotted, Accounted, [Next]_vars
  PROVE  Accounted'
<1>1. faults \in Nat /\ refused \in Nat  BY Constants DEF Slotted
<1>2. PICK U, V : U = Untidy /\ V = Untidy'  OBVIOUS
<1>3. IsFiniteSet(U) /\ Cardinality(U) \in Nat /\ Cardinality(U) <= faults + refused
  BY <1>2, FS_CardinalityType DEF Accounted
<1>4. ASSUME NEW K, OthersTidy(K)  PROVE V \subseteq U \cup K
  <2>1. ASSUME NEW k \in V  PROVE k \in U \cup K
    <3>1. k \in Boards \X (1 .. MaxSeq) /\ ~Tidy(k[1], k[2])'  BY <1>2 DEF Untidy
    <3>2. PICK b \in Boards, seq \in 1 .. MaxSeq : k = <<b, seq>>  BY <3>1
    <3>3. ~Tidy(b, seq)'  BY <3>1, <3>2
    <3>4. ~Tidy(b, seq) \/ k \in K  BY <1>4, <3>2, <3>3 DEF OthersTidy
    <3>5. CASE ~Tidy(b, seq)  BY <1>2, <3>1, <3>2, <3>5 DEF Untidy
    <3>6. QED  BY <3>4, <3>5
  <2>2. QED  BY <2>1
\* None is upset.
<1>5. ASSUME OthersTidy({}), faults' = faults, refused' = refused  PROVE Accounted'
  <2>1. V \in SUBSET U  BY <1>4, <1>5
  <2>2. IsFiniteSet(V) /\ Cardinality(V) <= Cardinality(U)  BY <1>3, <2>1, FS_Subset
  <2>3. Cardinality(V) \in Nat  BY <2>2, FS_CardinalityType
  <2>4. Cardinality(V) <= faults' + refused'  BY <1>1, <1>3, <1>5, <2>2, <2>3
  <2>5. QED  BY <1>2, <2>2, <2>4 DEF Accounted
\* One is, and it is counted.
<1>6. ASSUME NEW k, OthersTidy({k}), faults' + refused' = faults + refused + 1  PROVE Accounted'
  <2>1. V \in SUBSET (U \cup {k})  BY <1>4, <1>6
  <2>2. IsFiniteSet(U \cup {k}) /\ Cardinality(U \cup {k}) <= Cardinality(U) + 1
    BY <1>3, FS_AddElement
  <2>3. IsFiniteSet(V) /\ Cardinality(V) <= Cardinality(U \cup {k})  BY <2>1, <2>2, FS_Subset
  <2>4. Cardinality(V) \in Nat /\ Cardinality(U \cup {k}) \in Nat
    BY <2>2, <2>3, FS_CardinalityType
  <2>5. Cardinality(V) <= faults' + refused'  BY <1>1, <1>3, <1>6, <2>2, <2>3, <2>4
  <2>6. QED  BY <1>2, <2>3, <2>5 DEF Accounted
<1>7. ASSUME UNCHANGED <<net, slot>>  PROVE OthersTidy({})
  <2> SUFFICES ASSUME NEW b \in Boards, NEW seq \in 1 .. MaxSeq, Tidy(b, seq)  PROVE Tidy(b, seq)'
    BY DEF OthersTidy
  <2>1. Untouched(b, seq)  BY <1>7 DEF Untouched, Active
  <2>2. net'[b] = net[b]  BY <1>7
  <2>3. QED  BY <2>1, <2>2, StillTidy
<1>8. ASSUME NEW c \in Boards, Publish(c)  PROVE Accounted'
  <2>1. faults' = faults /\ refused' = refused  BY <1>8 DEF Publish
  <2>2. OthersTidy({})  BY <1>8, PublishTidy
  <2>3. QED  BY <1>5, <2>1, <2>2
<1>9. ASSUME NEW c \in Boards, PublishBreaks(c)  PROVE Accounted'
  <2>1. PICK k \in 0 .. Total - 1 : net' = [net EXCEPT ![c] = @ \o Emitted(c, k)]
    BY <1>9 DEF PublishBreaks
  <2>2. /\ nextSeq[c] < MaxSeq /\ slot' = slot /\ faults' = faults + 1 /\ refused' = refused
    BY <1>9 DEF PublishBreaks
  <2>3. k \in 0 .. Total  BY Constants
  <2>4. OthersTidy({<<c, nextSeq[c] + 1>>})  BY <2>1, <2>2, <2>3, PublishOthers
  <2>5. faults' + refused' = faults + refused + 1  BY <1>1, <2>2
  <2>6. QED  BY <1>6, <2>4, <2>5
<1>10. ASSUME NEW c \in Boards, Restart(c)  PROVE Accounted'
  <2>1. UNCHANGED <<net, slot>> /\ faults' = faults /\ refused' = refused  BY <1>10 DEF Restart
  <2>2. QED  BY <1>5, <1>7, <2>1
<1>11. ASSUME NEW c \in Boards, Disturb(c)  PROVE Accounted'
  <2>1. faults' = faults + 1 /\ refused' = refused  BY <1>11 DEF Disturb
  <2>2. PICK k : OthersTidy({k})  BY <1>11, DisturbTidy
  <2>3. faults' + refused' = faults + refused + 1  BY <1>1, <2>1
  <2>4. QED  BY <1>6, <2>2, <2>3
<1>12. ASSUME NEW c \in Boards, FeedRefused(c)  PROVE Accounted'
  <2>1. faults' = faults /\ refused' = refused + 1  BY <1>12 DEF FeedRefused
  <2>2. PICK k : OthersTidy({k})  BY <1>12, RefusedTidy
  <2>3. faults' + refused' = faults + refused + 1  BY <1>1, <2>1
  <2>4. QED  BY <1>6, <2>2, <2>3
<1>13. ASSUME NEW c \in Boards, Feed(c)  PROVE Accounted'
  <2>1. faults' = faults /\ refused' = refused  BY <1>13 DEF Feed
  <2>2. OthersTidy({})  BY <1>13, FeedOthers
  <2>3. QED  BY <1>5, <2>1, <2>2
<1>14. CASE UNCHANGED vars
  <2>1. UNCHANGED <<net, slot>> /\ faults' = faults /\ refused' = refused  BY <1>14 DEF vars
  <2>2. QED  BY <1>5, <1>7, <2>1
<1>15. QED  BY <1>8, <1>9, <1>10, <1>11, <1>12, <1>13, <1>14 DEF Next

\* A piece that the slot of a tidy message misses is on its way.
LEMMA StrandedUntidy ==
  ASSUME Slotted, NEW i \in Stranded
  PROVE  <<slot[i].src, slot[i].seq>> \in Untidy
<1>1. PICK b, seq, q : b = slot[i].src /\ seq = slot[i].seq /\ q = net[b]  OBVIOUS
<1>2. /\ i \in Active /\ b \in Boards /\ seq \in 1 .. MaxSeq
      /\ slot[i].received = Cardinality(Held(slot[i])) /\ slot[i].received >= 1
  <2>1. i \in Active  BY DEF Stranded
  <2>2. Sound(slot[i], boots[slot[i].src]) /\ slot[i].received \in 1 .. Total - 1
    BY <2>1 DEF Slotted
  <2>3. QED  BY <1>1, <2>1, <2>2, Constants DEF Sound
<1>3. SUFFICES ASSUME Tidy(b, seq)  PROVE FALSE  BY <1>1, <1>2 DEF Untidy
<1>4. PICK h \in Indices : Chain(q, seq, h) /\ Holding(b, seq, h)  BY <1>1, <1>3 DEF Tidy
<1>5. PICK x \in Indices : x \notin Held(slot[i]) /\ ~UnderWay(b, seq, x)
  BY <1>1 DEF Stranded
<1>6. Held(slot[i]) = 0 .. h - 1  BY <1>1, <1>2, <1>4 DEF Holding
<1>7. h # 0
  <2>1. SUFFICES ASSUME h = 0  PROVE FALSE  OBVIOUS
  <2>2. Held(slot[i]) = {}  BY <1>6, <2>1
  <2>3. slot[i].received = 0  BY <1>2, <2>2, FS_EmptySet
  <2>4. QED  BY <1>2, <2>3
<1> DEFINE Q == Of(q, seq)
           Missing == {y \in Indices : h <= y /\ ~UnderWay(b, seq, y)}
<1>8. /\ Q \subseteq Nat
      /\ \A p \in Q : \A y : q[p].index = y => UnderWay(b, seq, y)
      /\ \A y : UnderWay(b, seq, y) => \E p \in Q : q[p].index = y
  <2>1. DOMAIN q \subseteq Nat  BY <1>1, <1>2, Counts
  <2>2. QED  BY <1>1, <2>1 DEF Of, UnderWay
<1>9. /\ \A p \in Q : (\A o \in Q : p <= o) => q[p].index = h
      /\ \A p, r \in Q : p < r /\ (\A o \in Q : o <= p \/ r <= o) => q[r].index = After(q[p].index)
      /\ \A p \in Q : (\A o \in Q : o <= p) => q[p].index = Total - 1
      /\ Q # {}
  BY <1>4, <1>7 DEF Chain
<1>10. Total \in Nat /\ h \in Nat /\ x \in Nat /\ \A y \in Indices : y \in Nat /\ y <= Total - 1
  BY Constants DEF Indices
<1>11. x \in Missing
  <2>1. ~(x \in 0 .. h - 1)  BY <1>5, <1>6
  <2>2. h <= x  BY <1>10, <2>1
  <2>3. QED  BY <1>5, <2>2
<1> HIDE DEF Q
<1>12. PICK y \in Missing : \A z \in Missing : y <= z
  <2>1. Missing \in SUBSET Nat /\ Missing # {}  BY <1>10, <1>11
  <2>2. QED  BY <2>1, FirstOne
<1>13. UnderWay(b, seq, h)
  <2>1. PICK p \in Q : \A o \in Q : p <= o  BY <1>8, <1>9, FirstOne
  <2>2. q[p].index = h  BY <1>9, <2>1
  <2>3. QED  BY <1>8, <2>2
<1>14. y \in Indices /\ y \in Nat /\ h < y /\ y <= Total - 1 /\ ~UnderWay(b, seq, y)
  <2>1. y \in Indices /\ h <= y /\ ~UnderWay(b, seq, y)  BY <1>12
  <2>2. y # h  BY <1>13, <2>1
  <2>3. QED  BY <1>10, <2>1, <2>2
<1>15. UnderWay(b, seq, y - 1)
  <2>1. y - 1 \in Indices /\ h <= y - 1 /\ ~(y <= y - 1)  BY <1>10, <1>14 DEF Indices
  <2>2. y - 1 \notin Missing  BY <1>12, <2>1
  <2>3. QED  BY <2>1, <2>2
<1> HIDE DEF Missing
<1>16. PICK p \in Q : q[p].index = y - 1  BY <1>8, <1>15
<1>17. PICK r \in Q : p < r /\ \A o \in Q : p < o => r <= o
  <2> DEFINE B == {o \in Q : p < o}
  <2>1. B # {}
    <3>1. y - 1 # Total - 1  BY <1>10, <1>14
    <3>2. PICK o \in Q : ~(o <= p)  BY <1>9, <1>16, <3>1
    <3>3. p < o  BY <1>8, <3>2
    <3>4. QED  BY <3>3
  <2>2. B \in SUBSET Nat  BY <1>8
  <2>3. PICK r \in B : \A o \in B : r <= o  BY <2>1, <2>2, FirstOne
  <2>4. QED  BY <2>3
<1>18. \A o \in Q : o <= p \/ r <= o  BY <1>8, <1>17
<1>19. q[r].index = After(y - 1)  BY <1>9, <1>16, <1>17, <1>18
<1>20. After(y - 1) = y  BY <1>10, <1>14 DEF After
<1>21. QED  BY <1>8, <1>14, <1>19, <1>20

\* A fragment that is lost, or that finds all slots taken, leaves its message in a
\* slot for ever, and bc_reasm_feed has no timeout that frees it. Nothing else does:
\* each such slot has cost a fault of the network or a refusal of its own.
THEOREM StrandedSlotsAccounted == Spec => []SlotsAccounted
<1>1. Slotted /\ Accounted => SlotsAccounted
  <2> SUFFICES ASSUME Slotted, Accounted  PROVE SlotsAccounted  OBVIOUS
  <2>1. faults \in Nat /\ refused \in Nat  BY Constants DEF Slotted
  <2>2. PICK U, S : U = Untidy /\ S = Stranded  OBVIOUS
  <2> DEFINE m == [i \in S |-> <<slot[i].src, slot[i].seq>>]
  <2>3. m \in [S -> U]  BY <2>2, StrandedUntidy
  <2>4. \A i, j \in S : m[i] = m[j] => i = j
    <3> TAKE i, j \in S
    <3>1. i \in Active /\ j \in Active  BY <2>2 DEF Stranded
    <3>2. i # j => slot[j].src # slot[i].src \/ slot[j].seq # slot[i].seq  BY <3>1 DEF Slotted
    <3>3. QED  BY <3>2
  <2> HIDE DEF m
  <2>5. m \in Injection(S, U)  BY <2>3, <2>4 DEF Injection, IsInjective
  <2>6. IsFiniteSet(U) /\ Cardinality(U) <= faults + refused  BY <2>2 DEF Accounted
  <2>7. IsFiniteSet(S) /\ Cardinality(S) <= Cardinality(U)  BY <2>5, <2>6, FS_Injection
  <2>8. Cardinality(S) \in Nat /\ Cardinality(U) \in Nat  BY <2>6, <2>7, FS_CardinalityType
  <2>9. Cardinality(S) <= faults + refused  BY <2>1, <2>6, <2>7, <2>8
  <2>10. QED  BY <2>2, <2>9 DEF SlotsAccounted
<1>2. Slotted /\ Accounted /\ [Next]_vars => Accounted'  BY AccountedStep
<1>3. QED  BY <1>1, <1>2, AlwaysSlotted, AccountedInit, PTL DEF Spec

=============================================================================
