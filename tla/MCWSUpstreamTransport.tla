------------------------ MODULE MCWSUpstreamTransport ------------------------
(* Finite instances of WSUpstreamTransport for TLC: one call with a timer, *)
(* one without.                                                            *)
EXTENDS WSUpstreamTransport

CONSTANTS timed, untimed
=============================================================================
