------------------------------ MODULE MCProxy ------------------------------
(* Two downstream websockets, the second of which sends one message: what  *)
(* they share is the listener, never their messages.                       *)
EXTENDS Proxy

CONSTANTS s1, s2

MCMaxMessages == [s \in Sockets |-> IF s = s1 THEN 2 ELSE 1]
=============================================================================
