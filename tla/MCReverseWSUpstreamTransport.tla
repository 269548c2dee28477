--------------------- MODULE MCReverseWSUpstreamTransport ---------------------
(* Finite instances of ReverseWSUpstreamTransport: one call with a timer,  *)
(* one without, one wait for a peer.                                       *)
EXTENDS ReverseWSUpstreamTransport

CONSTANTS timed, untimed, waiter
=============================================================================
