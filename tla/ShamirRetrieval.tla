--------------------------- MODULE ShamirRetrieval ---------------------------
(***************************************************************************)
(* What a retrieval with Shamir sharing computes in one slot of the        *)
(* ciphertexts: the same round as AddRetrieval with ShamirShare::share and *)
(* ShamirShare::reconstruct.  reconstruct() is given the responses of any  *)
(* set of servers: fetch_image always passes all of them, the unit tests   *)
(* leave some out.                                                         *)
(***************************************************************************)
EXTENDS Integers, FiniteSets, Functions

CONSTANTS Mod,          \* params::PLAINTEXT_MOD, a prime
          NumServers,   \* num_server, at most 65536 for the real modulus
          NumImages,
          Privacies,    \* the values the option -t may have
          Mantissa,     \* bits in the mantissa of a double
          IntWidth      \* bits of a uint64_t

Field == 0..Mod - 1
Servers == 1..NumServers
Images == 0..NumImages - 1

ASSUME ModAssumption ==
    Mod \in Nat /\ Mod >= 2 /\ \A x \in 2..Mod - 1 : Mod % x # 0
ASSUME CountsAssumption ==
    NumServers \in 1..Mod - 1 /\ NumImages \in Nat \ {0} /\ Privacies \subseteq Nat
ASSUME WidthAssumption == Mantissa \in Nat /\ IntWidth \in Nat /\ Mantissa <= IntWidth

VARIABLES
    row,      \* row[i]: the word of image i in this slot
    index,    \* the image wanted
    privacy,  \* the client's -t
    img,      \* i of fetch_image
    coeff,    \* coeff of share()
    shares,   \* what share() returned
    acc,      \* acc[s]: the slot of server s's response
    have,     \* the servers whose responses reconstruct() is given
    res, pc

vars == <<row, index, privacy, img, coeff, shares, acc, have, res, pc>>

-----------------------------------------------------------------------------
(* Field operations; Word-sized intermediates never wrap (AddRetrieval).   *)

FieldAdd(a, b) == (a + b) % Mod
FieldSub(a, b) == IF a < b THEN Mod + a - b ELSE a - b
FieldMul(a, b) == (a * b) % Mod
\* mod_inverse of an element other than 0 (ModInverse).
FieldInv(d) == CHOOSE x \in Field : FieldMul(x, d) = 1

FieldSum(f) == FoldFunction(FieldAdd, 0, f)
FieldProduct(f) == FoldFunction(FieldMul, 1, f)

\* degree as PIRClient's constructor sets it.
Degree == NumServers - privacy - 1

-----------------------------------------------------------------------------
(* Polynomials.                                                            *)

\* x^i for all i.
PowersOf(x) == LET power[i \in Nat] == IF i = 0 THEN 1 ELSE x * power[i - 1] IN power
Pow(x, i) == PowersOf(x)[i]

Bits(n) == CHOOSE b \in 0..n : n < Pow(2, b) /\ \A c \in 0..b - 1 : n >= Pow(2, c)

\* A natural number as the nearest double, ties to even.
Nearest(n) ==
    IF n < Pow(2, Mantissa) THEN n
    ELSE LET ulp == Pow(2, Bits(n) - Mantissa)
             q == n \div ulp
             r == n % ulp
             up == 2 * r > ulp \/ (2 * r = ulp /\ q % 2 = 1)
         IN  (IF up THEN q + 1 ELSE q) * ulp

\* std::pow(x, i) converted to uint64_t; out of range the result is undefined.
Power(x, i) == Nearest(Pow(x, i))
InRange(x, i) == Power(x, i) < Pow(2, IntWidth)

\* The polynomial with coefficients c at x, as it should be.
Polynomial(c, x) == FieldSum([i \in DOMAIN c |-> FieldMul(c[i], Pow(x, i))])

\* evaluate_polynomial; u stands for what an undefined conversion makes of it.
Defined(c, x) == \A i \in DOMAIN c : c[i] = 0 \/ InRange(x, i)
Evaluate(c, x, u) ==
    IF Defined(c, x)
    THEN FieldSum([i \in DOMAIN c |-> IF c[i] = 0 THEN 0
                                      ELSE FieldMul(c[i], Power(x, i))])
    ELSE u

\* get_lagrange_const for the point s of the points ps.
LagrangeFlipped(ps, s) ==  \* mutant: the sign of the differences is flipped
    LET num == FieldProduct([j \in ps \ {s} |-> j])
        d == FieldProduct([j \in ps \ {s} |-> FieldSub(s, j)])
    IN  FieldMul(num, FieldInv(d))
Lagrange(ps, s) ==
    LET num == FieldProduct([j \in ps \ {s} |-> j])
        d == FieldProduct([j \in ps \ {s} |-> FieldSub(j, s)])
    IN  FieldMul(num, FieldInv(d))

-----------------------------------------------------------------------------

Bit(i) == IF i = index THEN 1 ELSE 0
CoefficientsShort(b) ==  \* mutant: the last coefficient is not drawn
    {c \in [0..Degree -> Field] : c[0] = b /\ (Degree > 0 => c[Degree] = 0)}
Coefficients(b) == {c \in [0..Degree -> Field] : c[0] = b}

Init ==
    /\ row \in [Images -> Field] /\ index \in Images /\ privacy \in Privacies
    /\ img = 0 /\ coeff = <<>> /\ shares = <<>>
    /\ acc = [s \in Servers |-> 0]
    /\ have = {} /\ res = 0
    /\ pc = "share"

\* share(): random coefficients, one share per server.  When the subtraction in
\* Degree wraps around, coeff.at(0) of the vector of degree + 1 coefficients, or
\* the vector itself, throws.
ShareBit ==
    /\ pc = "share"
    /\ \/ /\ Degree >= 0
          /\ coeff' \in Coefficients(Bit(img))
          /\ \E u \in IF \A x \in Servers : Defined(coeff', x)
                      THEN {[x \in Servers |-> 0]} ELSE [Servers -> Field] :
                shares' = [x \in Servers |-> Evaluate(coeff', x, u[x])]
          /\ pc' = "send"
       \/ /\ Degree < 0
          /\ pc' = "threw"
          /\ UNCHANGED <<coeff, shares>>
    /\ UNCHANGED <<row, index, privacy, img, acc, have, res>>

\* The servers multiply the shares by their row and add them up.
SendSharesLast ==  \* mutant: a product replaces the response
    /\ pc = "send"
    /\ acc' = [s \in Servers |-> FieldMul(shares[s], row[img])]
    /\ img' = img + 1
    /\ pc' = IF img + 1 < NumImages THEN "share" ELSE "collect"
    /\ coeff' = <<>> /\ shares' = <<>>
    /\ UNCHANGED <<row, index, privacy, have, res>>
SendShares ==
    /\ pc = "send"
    /\ acc' = [s \in Servers |-> FieldAdd(acc[s], FieldMul(shares[s], row[img]))]
    /\ img' = img + 1
    /\ pc' = IF img + 1 < NumImages THEN "share" ELSE "collect"
    /\ coeff' = <<>> /\ shares' = <<>>
    /\ UNCHANGED <<row, index, privacy, have, res>>

TooFew(ps) == Cardinality(ps) < Degree + 1

\* reconstruct() of the responses of some servers.
Reconstruct ==
    /\ pc = "collect"
    /\ have' \in SUBSET Servers
    /\ \/ /\ TooFew(have')
          /\ pc' = "threw"
          /\ UNCHANGED res
       \/ /\ ~TooFew(have')
          /\ pc' = "done"
          /\ res' = FieldSum([s \in have' |-> FieldMul(Lagrange(have', s), acc[s])])
    /\ UNCHANGED <<row, index, privacy, img, coeff, shares, acc>>

Stopped == pc \in {"threw", "done"} /\ UNCHANGED vars

Next == ShareBit \/ SendShares \/ Reconstruct \/ Stopped
Spec == Init /\ [][Next]_vars

-----------------------------------------------------------------------------

\* A share is "the polynomial evaluated at index" (ShamirShare.h): one polynomial
\* of the client's degree through the selection bit passes through all of them.
SharesOnPolynomial ==
    pc = "send" => \A x \in Servers : shares[x] = Polynomial(coeff, x)

\* What the servers have so far, every share multiplied by its row and all of them
\* added up, is again one polynomial of the client's degree at their indices: at 0
\* it is the wanted word once its request has been answered, and 0 before.
ResponsesOnPolynomial ==
    Degree \in Nat =>
        \E c \in [0..Degree -> Field] :
            /\ c[0] = IF index < img THEN row[index] ELSE 0
            /\ \A s \in Servers : acc[s] = Polynomial(c, s)

\* Any degree + 1 responses, of whichever servers, yield the wanted word.
Retrieved == pc = "done" => res = row[index]

\* The shares of any n servers are shares of either selection bit.
Independent(n) ==
    \A T \in SUBSET Servers : Cardinality(T) <= n =>
        \A b \in {0, 1} : \E c \in Coefficients(b) :
            \A x \in T : Polynomial(c, x) = shares[x]

\* Sharing hides the selection bit from as many servers as the degree says.
DegreeHides == pc = "send" => Independent(Degree)

\* What -t says: "Protection against t colluding servers in shamir sharing".
ThresholdHides == pc = "send" => Independent(privacy)
=============================================================================
