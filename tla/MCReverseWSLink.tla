---------------------------- MODULE MCReverseWSLink ----------------------------
(* ReverseWSLink for TLC, without commands: the connection itself.         *)
EXTENDS ReverseWSLink

=============================================================================
