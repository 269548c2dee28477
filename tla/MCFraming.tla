------------------------------ MODULE MCFraming ------------------------------
(* Two bodies of one-byte characters, one of which begins like a line of   *)
(* the protocol, and one that holds two-byte characters.                   *)
EXTENDS Framing

Characters == {"a", "b", "w", "MSG", "1", "2", "3", "4", "5", "6", "7", "8", "9"}
Numerals == <<"1", "2", "3", "4", "5", "6", "7", "8", "9">>

OneByteBodies == {<<"a">>, <<"MSG", "b">>}
AnyBodies == OneByteBodies \cup {<<"w", "w", "a">>}
=============================================================================
