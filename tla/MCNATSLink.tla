------------------------------ MODULE MCNATSLink ------------------------------
(* Two clients and their calls.                                            *)
EXTENDS NATSLink, TLC

CONSTANTS u1, u2, a, b

TwoClients == {u1, u2}
OneWaiter == {u1}
TwoCalls == {a, b}
OneEach == (a :> u1) @@ (b :> u2)
=============================================================================
