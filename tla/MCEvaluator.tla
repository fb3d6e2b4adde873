---------------------------- MODULE MCEvaluator ----------------------------
(* One ciphertext of each kind: fresh, of a lower level, in NTT form, of three *)
(* polynomials, transparent, of the key level; and lists with and without an   *)
(* operand that does not fit.                                                  *)
EXTENDS Evaluator

Fresh       == [level |-> TopLevel, ntt |-> FALSE, c |-> <<1, 1>>]
Other       == [level |-> TopLevel, ntt |-> FALSE, c |-> <<0, 2>>]
Lower       == [level |-> TopLevel - 1, ntt |-> FALSE, c |-> <<2, 1>>]
InNtt       == [level |-> TopLevel, ntt |-> TRUE,  c |-> <<1, 2>>]
Large       == [level |-> TopLevel, ntt |-> FALSE, c |-> <<0, 1, 2>>]
Bare        == [level |-> TopLevel, ntt |-> FALSE, c |-> <<2, 0>>]
OfKeys      == [level |-> KeyLevel, ntt |-> FALSE, c |-> <<1, 1>>]

MCOperands == {Fresh, Other, Lower, InNtt, Large, Bare, OfKeys}
MCLists == {<<Large>>, <<OfKeys>>, <<Bare>>, <<Fresh, Other>>, <<Fresh, Large>>, <<Other, Lower>>,
            <<Fresh, Fresh, Other>>, <<Other, Fresh, Lower>>, <<Fresh, Other, Large>>,
            <<Other, Other, Fresh, Other>>, <<Other, Fresh, Other, Other, Fresh>>,
            <<Fresh, Other, Other, Other, Other, Other, Other>>}
MCPlains == {[level |-> 0, ntt |-> FALSE, v |-> 0], [level |-> 0, ntt |-> FALSE, v |-> 2],
             [level |-> TopLevel, ntt |-> TRUE, v |-> 2], [level |-> KeyLevel, ntt |-> TRUE, v |-> 1]}
=============================================================================
