---------------------------- MODULE FileDelivery ----------------------------
(***************************************************************************)
(* What bc_file_send and bc_file_recv promise their callers: the receiver   *)
(* ends with having accepted one sender's file, received whole and checked,  *)
(* or with an error and no file, and a sender is told that it succeeded only *)
(* once its file was accepted.  Whether the disk has all of an accepted file *)
(* is not promised, and nobody is told.                                      *)
(***************************************************************************)
CONSTANTS Senders, Nobody

VARIABLES
  sender,    \* sender[s]: "busy", "ok" or "failed"
  receiver,  \* "busy", "ok" or "failed"
  accepted,  \* whose file the receiver has accepted, Nobody before that
  whole      \* whether the disk has all of it

promise == <<sender, receiver, accepted, whole>>

Init ==
  /\ sender = [s \in Senders |-> "busy"]
  /\ receiver = "busy" /\ accepted = Nobody /\ whole = FALSE

Accept(s) ==
  /\ receiver = "busy"
  /\ receiver' = "ok" /\ accepted' = s
  /\ whole' \in BOOLEAN
  /\ UNCHANGED sender

GiveUp ==
  /\ receiver = "busy"
  /\ receiver' = "failed"
  /\ UNCHANGED <<sender, accepted, whole>>

Confirm(s) ==
  /\ sender[s] = "busy" /\ accepted = s
  /\ sender' = [sender EXCEPT ![s] = "ok"]
  /\ UNCHANGED <<receiver, accepted, whole>>

Abandon(s) ==
  /\ sender[s] = "busy"
  /\ sender' = [sender EXCEPT ![s] = "failed"]
  /\ UNCHANGED <<receiver, accepted, whole>>

Next == GiveUp \/ \E s \in Senders : Accept(s) \/ Confirm(s) \/ Abandon(s)

Spec == Init /\ [][Next]_promise
=============================================================================
