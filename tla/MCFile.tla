------------------------------- MODULE MCFile -------------------------------
(* Instances of FileTransfer: two senders on one topic, or one.               *)
EXTENDS FileTransfer

CONSTANTS a, b

TwoFiles == [s \in Senders |-> IF s = a THEN 3 ELSE 1]
TwoChunks == [s \in Senders |-> 2]
=============================================================================
