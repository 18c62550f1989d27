------------------------------ MODULE Backoff -------------------------------
(***************************************************************************)
(* The retry delay of the TCP client (tcp_transport.c) and of the serial    *)
(* port (uart_transport.c), computed in the width of the program's int, and *)
(* the timerfd it is given to.                                              *)
(***************************************************************************)
EXTENDS Integers, Sequences, SequencesExt

CONSTANTS DelayInit, DelayMax, IntMax  \* 1000 ms, 30000 ms, INT_MAX

ASSUME BackoffAssumption == {DelayInit, DelayMax, IntMax} \subseteq Nat \ {0}

Half == IntMax \div 2 + 1

\* Twice x in the width of an int.
Double[x \in Int] ==
  CASE x >= Half              -> 2 * (x - Half) - IntMax - 1
    [] x < -Half              -> 2 * (x + Half) + IntMax + 1
    [] -Half <= x /\ x < Half -> 2 * x

\* DelayInit << k
Shifted[k \in 0 .. 31] == IF k = 0 THEN DelayInit ELSE Double[Shifted[k - 1]]

\* The delay is capped after it has been shifted.
Delay(attempt) ==
  IF attempt = 0 THEN DelayInit ELSE Min({Shifted[(attempt - 1) % 32], DelayMax})

\* timerfd_settime starts the timer, or refuses a negative time and leaves it be.
ArmTimer(delay, was) == IF delay < 0 THEN was ELSE IF delay = 0 THEN "off" ELSE "set"
=============================================================================
