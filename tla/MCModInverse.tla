---------------------------- MODULE MCModInverse ----------------------------
(* Every modulus up to 24, prime or not, and every argument up to twice it. *)
EXTENDS ModInverse

SmallMods == 2..24
SmallVals == 0..48
=============================================================================
