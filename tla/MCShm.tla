------------------------------- MODULE MCShm --------------------------------
(* An instance of ShmRing: six bytes, counters that wrap at twelve, a length  *)
(* of two bytes, each of one bit, lowest first.                                *)
EXTENDS ShmRing

\* Empty, one that leaves a third free or fills the ring with its like, and the
\* longest there is.
MCRecords == {<<>>, <<1>>, <<0, 1>>, <<1, 0, 1>>}

MCSplit == [n \in 0 .. 3 |-> <<n % 2, n \div 2>>]
MCJoin  == [bytes \in [1 .. 2 -> {0, 1}] |-> bytes[1] + 2 * bytes[2]]
=============================================================================
