------------------------------ MODULE Network -------------------------------
(***************************************************************************)
(* What transports and the daemons in between may do to the packets under    *)
(* way from one process to another.                                          *)
(***************************************************************************)
EXTENDS Integers, Sequences, SequencesExt

CONSTANT Faults  \* of "lose", "repeat" and "delay", and of what else the user knows

Lost(q, i)  == RemoveAt(q, i)
Twice(q, i) == InsertAt(q, i, q[i])
Later(q, i) == Append(RemoveAt(q, i), q[i])

\* What one fault may make of q, of which only the packets at I may be lost.
AfterFault(q, I) ==
  {r \in {Lost(q, i) : i \in I} : "lose" \in Faults}
  \cup {r \in {Twice(q, i) : i \in DOMAIN q} : "repeat" \in Faults}
  \cup {r \in {Later(q, i) : i \in DOMAIN q} : "delay" \in Faults}
=============================================================================
