------------------------------- MODULE MCTcp -------------------------------
(* Instances of TcpTransport.  The delays and the width of int are the        *)
(* program's own. *)
EXTENDS TcpTransport

CONSTANTS k1, k2

Mostly   == [client |-> 3, server |-> 1]
Nothing  == [client |-> 0, server |-> 0]
=============================================================================
