---------------------------- MODULE MCClientLease ----------------------------
(* Two clients that want the browser closed and one that does not, with the *)
(* smallest timeouts the assumption allows.                                 *)
EXTENDS ClientLease

MCTimeoutOf == [c \in Clients |-> IF c \in Wanting THEN 10 ELSE 12]
=============================================================================
