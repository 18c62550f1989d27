----------------------------- MODULE Reassembly -----------------------------
(***************************************************************************)
(* fragment.c: boards that publish large messages in fragments, and the       *)
(* reassembly slots of the board they send to.                               *)
(***************************************************************************)
EXTENDS Network, FiniteSets

CONSTANTS
  Boards, Nobody,
  Slots,      \* BC_REASM_SLOTS
  Total,      \* fragments of a message; BC_FRAG_CHUNK_MAX makes it 2
  MaxSeq,     \* bound: messages of a board per boot
  Restarting, \* bound: the boards that may restart
  MaxBoots,   \* bound: restarts of a board
  MaxFaults   \* bound: how often the network does what it should not

ASSUME ReassemblyAssumption ==
  /\ Nobody \notin Boards
  /\ Slots \in Nat \ {0} /\ Total \in Nat \ {0, 1}
  /\ MaxSeq \in Nat /\ MaxBoots \in Nat /\ MaxFaults \in Nat

VARIABLES
  boots,    \* boots[b]: how often b has restarted
  nextSeq,  \* nextSeq[b]: next_seq of its bus
  net,      \* net[b]: fragments on their way from b
  slot,     \* slot[i]: the i-th slot, with what it last held if it is not active
  out,      \* out[b]: the messages of b that were put together
  faults,   \* how many faults there were
  refused   \* how many fragments found no slot

vars == <<boots, nextSeq, net, slot, out, faults, refused>>

Indices == 0 .. Total - 1

\* Its payload is known by where it was cut: the boot is no field of the frame.
Fragment(b, boot, seq, index) == [src |-> b, boot |-> boot, seq |-> seq, index |-> index]

Nothing == Fragment(Nobody, 0, 0, 0)

-----------------------------------------------------------------------------
(* The boards that send                                                      *)

\* bc_fragment_publish as far as the transport takes the pieces.
Emitted(b, k) ==
  [i \in 1 .. k |-> Fragment(b, boots[b], nextSeq[b] + 1, i - 1)]

Publish(b) ==
  /\ nextSeq[b] < MaxSeq
  /\ nextSeq' = [nextSeq EXCEPT ![b] = @ + 1]
  /\ net' = [net EXCEPT ![b] = @ \o Emitted(b, Total)]
  /\ UNCHANGED <<boots, slot, out, faults, refused>>

\* The transport refuses a piece, the rest is not sent.
PublishBreaks(b) ==
  /\ nextSeq[b] < MaxSeq /\ "break" \in Faults /\ faults < MaxFaults
  /\ nextSeq' = [nextSeq EXCEPT ![b] = @ + 1]
  /\ \E k \in 0 .. Total - 1 : net' = [net EXCEPT ![b] = @ \o Emitted(b, k)]
  /\ faults' = faults + 1
  /\ UNCHANGED <<boots, slot, out, refused>>

\* The daemon of b is started again and counts from 1.
Restart(b) ==
  /\ b \in Restarting /\ boots[b] < MaxBoots
  /\ boots' = [boots EXCEPT ![b] = @ + 1]
  /\ nextSeq' = [nextSeq EXCEPT ![b] = 0]
  /\ UNCHANGED <<net, slot, out, faults, refused>>

Disturb(b) ==
  /\ faults < MaxFaults
  /\ \E q \in AfterFault(net[b], DOMAIN net[b]) : net' = [net EXCEPT ![b] = q]
  /\ faults' = faults + 1
  /\ UNCHANGED <<boots, nextSeq, slot, out, refused>>

-----------------------------------------------------------------------------
(* bc_reasm_feed                                                             *)

Active == {i \in 1 .. Slots : slot[i].active}

\* Mutant of Holders: src_node is not compared.
HoldersBySeq(f) == {i \in Active : slot[i].seq = f.seq}

\* The slot of the message f is a fragment of.
Holders(f) == {i \in Active : slot[i].src = f.src /\ slot[i].seq = f.seq}

\* find_slot: its slot or else a free one; none if the result is empty.
Candidates(f) == IF Holders(f) # {} THEN Holders(f) ELSE (1 .. Slots) \ Active

FindSlot(f) == CHOOSE i \in Candidates(f) : \A j \in Candidates(f) : i <= j

\* Mutant of Cleared: bitmap and payload of the last message stay.
Uncleared(i) == slot[i].pieces

Cleared(i) == [x \in Indices |-> Nothing]

\* The slot f goes to, made active if it was not.
Opened(f, i) ==
  IF slot[i].active THEN slot[i]
  ELSE [active |-> TRUE, src |-> f.src, seq |-> f.seq, received |-> 0, pieces |-> Cleared(i)]

\* Mutant of Duplicate: the bitmap is not looked at.
NeverDuplicate(f, s) == FALSE

\* bitmap[index]
Duplicate(f, s) == s.pieces[f.index] # Nothing

\* Mutant of Released: the slot stays active.
Kept(i, s) == [slot EXCEPT ![i] = s]

Released(i, s) == [slot EXCEPT ![i] = [s EXCEPT !.active = FALSE]]

Stored(f, s) ==
  [s EXCEPT !.received = @ + 1, !.pieces[f.index] = f]

Arrives(b) == net[b] # <<>> /\ net' = [net EXCEPT ![b] = Tail(@)]

FeedRefused(b) ==
  /\ Arrives(b) /\ Candidates(Head(net[b])) = {}
  /\ refused' = refused + 1
  /\ UNCHANGED <<boots, nextSeq, slot, out, faults>>

Feed(b) ==
  /\ Arrives(b) /\ Candidates(Head(net[b])) # {}
  /\ LET f == Head(net[b])
         i == FindSlot(f)
         s == Opened(f, i)
     IN  \/ /\ Duplicate(f, s)
            /\ UNCHANGED <<slot, out>>
         \/ /\ ~Duplicate(f, s) /\ Stored(f, s).received < Total
            /\ slot' = [slot EXCEPT ![i] = Stored(f, s)]
            /\ UNCHANGED out
         \/ /\ ~Duplicate(f, s) /\ Stored(f, s).received = Total
            /\ slot' = Released(i, Stored(f, s))
            /\ out' = [out EXCEPT ![b] = Append(@, Stored(f, s).pieces)]
  /\ UNCHANGED <<boots, nextSeq, faults, refused>>

-----------------------------------------------------------------------------
Init ==
  /\ boots = [b \in Boards |-> 0] /\ nextSeq = [b \in Boards |-> 0]
  /\ net = [b \in Boards |-> <<>>] /\ out = [b \in Boards |-> <<>>]
  /\ slot = [i \in 1 .. Slots |->
               [active |-> FALSE, src |-> Nobody, seq |-> 0, received |-> 0,
                pieces |-> [x \in Indices |-> Nothing]]]
  /\ faults = 0 /\ refused = 0

Next ==
  \E b \in Boards :
    Publish(b) \/ PublishBreaks(b) \/ Restart(b) \/ Disturb(b) \/ FeedRefused(b) \/ Feed(b)

Spec == Init /\ [][Next]_vars

-----------------------------------------------------------------------------
(* Properties                                                                *)

Held(s) == {x \in Indices : s.pieces[x] # Nothing}

\* An active slot counts what it holds, is not complete, and is the only one of
\* its message.
TypeOK ==
  /\ boots \in [Boards -> 0 .. MaxBoots] /\ nextSeq \in [Boards -> 0 .. MaxSeq]
  /\ faults \in 0 .. MaxFaults /\ refused \in Nat
  /\ \A i \in Active :
       /\ slot[i].src \in Boards /\ slot[i].seq \in 1 .. MaxSeq
       /\ slot[i].received = Cardinality(Held(slot[i])) /\ slot[i].received \in 1 .. Total - 1
       /\ \A j \in Active \ {i} : <<slot[j].src, slot[j].seq>> # <<slot[i].src, slot[i].seq>>

\* A message of a board that never restarted is put together from its own
\* pieces, each in its place, whatever was lost, repeated or reordered.
Unmixed ==
  \A b \in Boards : boots[b] = 0 =>
    \A k \in DOMAIN out[b] : \A x \in Indices :
      out[b][k][x] = Fragment(b, 0, out[b][k][0].seq, x)

UnderWay(src, seq, x) ==
  \E k \in DOMAIN net[src] : net[src][k].seq = seq /\ net[src][k].index = x

\* Slots nobody will ever complete: a piece they miss is not on its way.
Stranded ==
  {i \in Active : \E x \in Indices \ Held(slot[i]) : ~UnderWay(slot[i].src, slot[i].seq, x)}

\* There is no timeout that frees a slot, so nothing else may strand one: each
\* stranded slot has cost a fault or a fragment that found no slot.
SlotsAccounted == Cardinality(Stranded) <= faults + refused

\* Without faults and without a lack of slots every published message is put
\* together exactly once, in the order it was published.
Lossless ==
  faults = 0 /\ refused = 0 =>
    \A b \in Boards : boots[b] = 0 /\ net[b] = <<>> =>
      [k \in DOMAIN out[b] |-> out[b][k][0].seq] = [k \in 1 .. nextSeq[b] |-> k]
=============================================================================
