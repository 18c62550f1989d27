------------------------------ MODULE ShmRing -------------------------------
(***************************************************************************)
(* One ring of a shared-memory session (bc_shm.c): a process that writes    *)
(* records and a process that reads them, in steps of one memory access.    *)
(* A record is its length in Hdr bytes, then its bytes; head and tail are   *)
(* unsigned integers that run freely and wrap.                               *)
(*                                                                          *)
(* Stores become visible in the order of the program, as they do on x86;    *)
(* the code itself has no barrier.                                           *)
(***************************************************************************)
EXTENDS Integers, Sequences, SequencesExt

CONSTANTS
  Size,       \* bytes in the ring (32 MiB)
  Turns,      \* head and tail wrap after so many turns of the ring (128)
  Hdr,        \* bytes of a length (4)
  Bytes,      \* the values of a byte
  Split, Join,  \* a length as Hdr bytes, and back
  Records,    \* what may be written, as sequences of bytes
  ReadCap,    \* the capacity every call of bc_shm_ring_read passes
  MaxWrites   \* bound: how many records are written

ASSUME ShmAssumption ==
  /\ Size \in Nat /\ Hdr \in Nat \ {0} /\ Hdr < Size
  /\ Turns \in Nat \ {0, 1} /\ {ReadCap, MaxWrites} \subseteq Nat
  /\ 0 \in Bytes /\ Join \in [[1 .. Hdr -> Bytes] -> Nat]
  /\ \A m \in Records :
       /\ m \in Seq(Bytes) /\ Len(m) <= ReadCap
       /\ Split[Len(m)] \in [1 .. Hdr -> Bytes]
       /\ Join[Split[Len(m)]] = Len(m)

VARIABLES
  cells,   \* data of the ring
  head, tail,
  wbuf,    \* bytes the writer is storing; empty between calls
  wi,      \* how many of them it has stored
  rpc,     \* the reader: "idle", "header" or "data"
  ravail,  \* the bytes bc_shm_ring_peek_len found in the ring
  rbuf     \* bytes the reader has loaded in this phase

VARIABLES
  put, got,   \* history: records written and read,
  starts,     \* where each record written begins,
  next        \* and the record being written

writer == <<wbuf, wi, next>>
reader == <<rpc, ravail, rbuf>>
vars   == <<cells, head, tail, writer, reader, put, got, starts>>

\* 2^32: head and tail are uint32_t, and the size of the ring divides it.
Wrap == Turns * Size

\* Sums and differences of unsigned integers
Plus(a, b)  == IF a + b < Wrap THEN a + b ELSE a + b - Wrap
Minus(a, b) == IF a >= b THEN a - b ELSE a - b + Wrap

Cell(position, i) == (position + i) % Size

\* ring_data and ring_space
Data  == Minus(head, tail)
Space == Size - Data

\* The bytes of a record in the ring
Encoded(m) == Split[Len(m)] \o m

Init ==
  /\ cells = [i \in 0 .. Size - 1 |-> 0]
  /\ head = 0 /\ tail = 0
  /\ wbuf = <<>> /\ wi = 0 /\ next = <<>>
  /\ rpc = "idle" /\ ravail = 0 /\ rbuf = <<>>
  /\ put = <<>> /\ got = <<>> /\ starts = <<>>

-----------------------------------------------------------------------------
(* bc_shm_ring_write                                                         *)

\* Mutant of Fits: the header is forgotten.
FitsBarely(m) == Len(m) <= Space

\* Neither BC_ERR_INVALID nor BC_ERR_NOMEM
Fits(m) == Len(m) <= Size - Hdr /\ Hdr + Len(m) <= Space

WriteBegins(m) ==
  /\ wbuf = <<>> /\ Len(put) < MaxWrites
  /\ Fits(m)
  /\ wbuf' = Encoded(m) /\ wi' = 0 /\ next' = m
  /\ UNCHANGED <<cells, head, tail, reader, put, got, starts>>

Store ==
  /\ wbuf # <<>> /\ wi < Len(wbuf)
  /\ cells' = [cells EXCEPT ![Cell(head, wi)] = wbuf[wi + 1]]
  /\ wi' = wi + 1
  /\ UNCHANGED <<head, tail, wbuf, next, reader, put, got, starts>>

\* Mutant of Stored: head may become visible before the bytes.
StoredOrNot(i) == TRUE

\* All bytes are in the ring before head moves.
Stored(i) == i = Len(wbuf)

Publish ==
  /\ wbuf # <<>> /\ Stored(wi)
  /\ head' = Plus(head, Len(wbuf))
  /\ put' = Append(put, next) /\ starts' = Append(starts, head)
  /\ wbuf' = <<>> /\ wi' = 0 /\ next' = <<>>
  /\ UNCHANGED <<cells, tail, reader, got>>

-----------------------------------------------------------------------------
(* bc_shm_ring_read with bc_shm_ring_peek_len                                *)

\* Mutant of Holds: a record that fills what is there is not seen.
HoldsMore(avail, n) == avail > n

Holds(avail, n) == avail >= n

Peek ==
  /\ rpc = "idle" /\ Holds(Data, Hdr)
  /\ ravail' = Data /\ rpc' = "header" /\ rbuf' = <<>>
  /\ UNCHANGED <<cells, head, tail, writer, put, got, starts>>

\* The length, byte by byte
LoadHeader ==
  /\ rpc = "header" /\ Len(rbuf) < Hdr
  /\ rbuf' = Append(rbuf, cells[Cell(tail, Len(rbuf))])
  /\ UNCHANGED <<cells, head, tail, writer, rpc, ravail, put, got, starts>>

\* A record that is not whole, or is too long for the caller, stays in the ring.
CheckLength ==
  /\ rpc = "header" /\ Len(rbuf) = Hdr
  /\ IF Holds(ravail, Hdr + Join[rbuf]) /\ Join[rbuf] <= ReadCap
     THEN rpc' = "data" /\ ravail' = Join[rbuf]
     ELSE rpc' = "idle" /\ ravail' = 0
  /\ rbuf' = <<>>
  /\ UNCHANGED <<cells, head, tail, writer, put, got, starts>>

\* Its bytes, then tail; in this phase ravail is the length.
Load ==
  /\ rpc = "data" /\ Len(rbuf) < ravail
  /\ rbuf' = Append(rbuf, cells[Cell(tail, Hdr + Len(rbuf))])
  /\ UNCHANGED <<cells, head, tail, writer, rpc, ravail, put, got, starts>>

Release ==
  /\ rpc = "data" /\ Len(rbuf) = ravail
  /\ tail' = Plus(tail, Hdr + ravail)
  /\ got' = Append(got, rbuf)
  /\ rpc' = "idle" /\ ravail' = 0 /\ rbuf' = <<>>
  /\ UNCHANGED <<cells, head, writer, put, starts>>

-----------------------------------------------------------------------------

Writes == (\E m \in Records : WriteBegins(m)) \/ Store \/ Publish
Reads  == Peek \/ LoadHeader \/ CheckLength \/ Load \/ Release

Next == Writes \/ Reads

Spec == Init /\ [][Next]_vars

\* A reader calls bc_shm_ring_read again and again, as drain_client_shm does on
\* every kick; a writer that has begun ends.  Nobody has to begin.
FairSpec == Spec /\ WF_vars(Reads) /\ WF_vars(Store \/ Publish)

-----------------------------------------------------------------------------
(* Properties                                                                *)

\* The types, and that the writer never runs over the reader: at most Size bytes
\* are in the ring, those being written included.
TypeOK ==
  /\ cells \in [0 .. Size - 1 -> Bytes]
  /\ head \in 0 .. Wrap - 1 /\ tail \in 0 .. Wrap - 1
  /\ wbuf \in Seq(Bytes) /\ wi \in 0 .. Len(wbuf)
  /\ rpc \in {"idle", "header", "data"} /\ ravail \in Nat
  /\ rbuf \in Seq(Bytes)
  /\ Data + Len(wbuf) <= Size

\* What lies between tail and head is, byte for byte, the records that were
\* written and not read, wherever the ring ends and the counters wrap.
RingHolds ==
  [i \in 1 .. Data |-> cells[Cell(tail, i - 1)]]
    = FlattenSeq([k \in 1 .. Len(put) - Len(got) |-> Encoded(put[Len(got) + k])])

\* Two processes and a ring are a channel: bc_shm_ring_read returns the records
\* of bc_shm_ring_write, whole, in order and once.
Fifo == INSTANCE Channel WITH Messages <- Records
IsChannel == Fifo!Spec

\* Every record that is written is read, also the one that fills the ring.
AllRead == \A k \in 1 .. MaxWrites : Len(put) >= k ~> Len(got) >= k
=============================================================================
