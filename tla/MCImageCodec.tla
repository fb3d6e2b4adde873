---------------------------- MODULE MCImageCodec ----------------------------
(* Every file of at most seven bytes over a zero and two other bytes.      *)
EXTENDS ImageCodec

SmallFiles == UNION {[1..n -> {0, 1, 255}] : n \in 0..7}
=============================================================================
