----------------------------- MODULE ModInverse ------------------------------
(***************************************************************************)
(* Share::mod_inverse, the extended Euclidean loop field_div rests on: one *)
(* step of the machine is one iteration of the loop.  The function returns *)
(* only the cofactor of its argument; b and prev_b, the cofactors of mod   *)
(* the code does not compute, are kept to state what the loop preserves.   *)
(***************************************************************************)
EXTENDS Integers

CONSTANTS Mods,    \* the values of mod
          Vals,    \* the arguments
          MaxInt   \* the largest int64_t

ASSUME ModsAssumption == Mods \subseteq {m \in Nat : m >= 2}
ASSUME ValsAssumption == Vals \subseteq Nat
\* Share's constructor admits moduli of at most 60 bits.
ASSUME WidthAssumption == /\ MaxInt \in Nat
                          /\ \A m \in Mods : 8 * m <= MaxInt

VARIABLES mod, arg,        \* the object's modulus and the argument
          val, modulus,    \* the two remainders
          a, prev_a,       \* int64_t cofactors of arg
          b, prev_b,       \* cofactors of mod
          pc, res

vars == <<mod, arg, val, modulus, a, prev_a, b, prev_b, pc, res>>

Init ==
    /\ mod \in Mods /\ arg \in Vals
    /\ val = arg /\ modulus = mod
    /\ a = 0 /\ prev_a = 1
    /\ b = 1 /\ prev_b = 0
    /\ pc = IF arg = 0 THEN "threw" ELSE "loop"
    /\ res = 0

\* The cofactor after a quotient q.
\* Mutants: the sign is lost, the quotient is one too large.
CofactorAdded(prev, cur, q) == prev + q * cur
CofactorOvershot(prev, cur, q) == prev - (q + 1) * cur
NextCofactor(prev, cur, q) == prev - q * cur

LoopDoneEarly == modulus <= 1  \* mutant: stops one iteration too early
LoopDone == modulus = 0

\* Mutant: the remainders are not exchanged.
IterateUnexchanged ==
    /\ pc = "loop" /\ ~LoopDone
    /\ val' = val % modulus
    /\ UNCHANGED <<mod, arg, modulus, a, prev_a, b, prev_b, pc, res>>
Iterate ==
    /\ pc = "loop" /\ ~LoopDone
    /\ val' = modulus
    /\ modulus' = val % modulus
    /\ a' = NextCofactor(prev_a, a, val \div modulus)
    /\ prev_a' = a
    /\ b' = NextCofactor(prev_b, b, val \div modulus)
    /\ prev_b' = b
    /\ UNCHANGED <<mod, arg, pc, res>>

\* The cofactor as a field element.
Reduced(x) == IF x < 0 THEN x + mod ELSE x

\* The loop is over; the last non-zero remainder must be 1.
Return ==
    /\ pc = "loop" /\ LoopDone
    /\ \/ /\ val = 1
          /\ pc' = "returned"
          /\ res' = Reduced(prev_a)
       \/ /\ val # 1
          /\ pc' = "threw"
          /\ UNCHANGED res
    /\ UNCHANGED <<mod, arg, val, modulus, a, prev_a, b, prev_b>>

Stopped == pc \in {"returned", "threw"} /\ UNCHANGED vars

Next == Iterate \/ Return \/ Stopped
Spec == Init /\ [][Next]_vars
FairSpec == Spec /\ WF_vars(Iterate \/ Return)

-----------------------------------------------------------------------------

AbsVal(x) == IF x < 0 THEN -x ELSE x

\* Every variable keeps its type; a result is never negative.
TypeOK ==
    /\ mod \in Nat /\ mod >= 2 /\ arg \in Nat
    /\ val \in Nat /\ modulus \in Nat
    /\ a \in Int /\ prev_a \in Int /\ b \in Int /\ prev_b \in Int
    /\ pc \in {"loop", "returned", "threw"}
    /\ res \in Nat

\* The loop keeps both remainders combinations of arg and mod.
Bezout ==
    /\ prev_a * arg + prev_b * mod = val
    /\ a * arg + b * mod = modulus

\* The cofactors of arg alternate in sign and their sizes, weighed by the
\* remainders, always add up to mod.
Balance ==
    /\ (a <= 0 /\ prev_a >= 0) \/ (a >= 0 /\ prev_a <= 0)
    /\ AbsVal(a) * val + AbsVal(prev_a) * modulus = mod

\* The loop runs on a positive remainder and cofactors no larger than mod.
Ranges == pc = "loop" => val > 0 /\ AbsVal(a) <= mod /\ AbsVal(prev_a) <= mod

\* The signed arithmetic of the loop never leaves int64_t: neither the
\* cofactors nor the product of the quotient and the cofactor overflow.
NoOverflow ==
    pc = "loop" => /\ AbsVal(a) <= MaxInt /\ AbsVal(prev_a) <= MaxInt
                   /\ modulus # 0 => AbsVal((val \div modulus) * a) <= MaxInt

\* A returned value is the reduced inverse: a field element whose product with
\* the argument is 1, which field_div and the Lagrange constants rely on.
Inverse == pc = "returned" => res < mod /\ (res * arg) % mod = 1

\* Only arguments without an inverse throw.
ThrowsRightly == pc = "threw" => \A x \in 0..mod - 1 : (x * arg) % mod # 1

\* The loop ends for every argument.
Ends == <>(pc # "loop")
=============================================================================
