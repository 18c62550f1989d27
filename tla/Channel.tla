------------------------------ MODULE Channel -------------------------------
(***************************************************************************)
(* What the shared-memory ring (bc_shm.c) and a KCP session (ikcp.c) promise *)
(* their users: messages come out whole, in the order they went in, each     *)
(* once, and never before they went in.                                      *)
(***************************************************************************)
EXTENDS Naturals, Sequences

CONSTANT Messages

VARIABLES
  put,   \* messages that went in
  got    \* messages that came out

Init == put = <<>> /\ got = <<>>

Put(m) == put' = Append(put, m) /\ got' = got

\* One or more of those that are next
Get ==
  /\ \E n \in Len(got) + 1 .. Len(put) : got' = SubSeq(put, 1, n)
  /\ put' = put

Next == (\E m \in Messages : Put(m)) \/ Get

Spec == Init /\ [][Next]_<<put, got>>
=============================================================================
