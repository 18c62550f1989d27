------------------------------- MODULE MCUart -------------------------------
(* Instances of UartTransport.  The delays and the width of int are the       *)
(* program's own.                                                             *)
EXTENDS UartTransport
=============================================================================
