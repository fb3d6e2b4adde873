-------------------------- MODULE MCCiphertextWire --------------------------
(* Cuts before and inside the size in the header, inside the members, and *)
(* just before the end of the longest message, which is behind others.    *)
EXTENDS CiphertextWire

MCCuts == {8, 9, 20, 2105448}
=============================================================================
