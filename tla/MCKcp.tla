------------------------------- MODULE MCKcp --------------------------------
(* An instance of KcpTransport: frames of two segments from a to b.            *)
EXTENDS KcpTransport

OneWay == [a |-> 3, b |-> 0]
=============================================================================
