----------------------------- MODULE Evaluator -----------------------------
(***************************************************************************)
(* The BFV operations of SEAL on ciphertexts, seen from one ciphertext     *)
(* object that a program passes as operand, as destination, or as both.    *)
(* A polynomial is one residue modulo P, without noise, so that a          *)
(* ciphertext c decrypts to c[1] + c[2]*s + c[3]*s^2 + ...  What the       *)
(* model keeps is what the operations check, in which form and in which    *)
(* buffer they compute, and what they leave behind when they throw.        *)
(***************************************************************************)
EXTENDS Integers, Sequences

CONSTANTS
    P,           \* the residues a polynomial may be
    Secret,      \* the secret key
    Mask,        \* the uniform polynomial of the key switching keys
    RelinCount,  \* keys that create_relin_keys makes: 1
    SizeMax,     \* SEAL_CIPHERTEXT_SIZE_MAX
    TopLevel,    \* chain index of first_parms_id; above it is only the key level
    Operands,    \* other ciphertexts of the program
    Lists,       \* the vectors of them that it passes
    Plains,      \* its plaintexts
    MaxExponent,
    MaxTerms     \* terms of a number of steps

KeyLevel == TopLevel + 1
Residues == 0..P - 1
\* A ciphertext with any number of polynomials that resize allows.
Ciphertexts == [level : 0..KeyLevel, ntt : BOOLEAN,
                c : UNION {[1..n -> Residues] : n \in 2..SizeMax}]
Plaintexts == [level : 0..KeyLevel, ntt : BOOLEAN, v : Residues]

ASSUME EvaluatorAssumption ==
    /\ P \in Nat \ {0, 1} /\ Secret \in Residues /\ Mask \in Residues
    /\ RelinCount \in Nat /\ SizeMax \in Nat \ {0, 1} /\ TopLevel \in Nat
    /\ Operands \subseteq Ciphertexts /\ Plains \subseteq Plaintexts
    /\ Lists \subseteq Seq(Ciphertexts) \ {<<>>}
    /\ MaxExponent \in Nat /\ MaxTerms \in Nat

VARIABLES
    ct,     \* the ciphertext object
    out,    \* how the last call ended: "ok", "same" (an early return) or "threw"
    want    \* the value that call has promised
vars == <<ct, out, want>>

-----------------------------------------------------------------------------
(* What the operations check, and how they end.                            *)

\* is_metadata_valid_for: no ciphertext of the key level.
Valid(x) == x.level <= TopLevel
PlainValid(p) == p.ntt => p.level <= TopLevel

\* is_transparent
Transparent(x) == \A i \in 2..Len(x.c) : x.c[i] = 0

Throw(x) == [ct |-> x, out |-> "threw"]
Same(x)  == [ct |-> x, out |-> "same"]
\* The object has been written when a transparent result throws.
Done(x)  == [ct |-> x, out |-> IF Transparent(x) THEN "threw" ELSE "ok"]

\* Of the first n of a sequence of numbers.
Sum(f, n)  == LET sum[i \in 0..n] == IF i = 0 THEN 0 ELSE sum[i - 1] + f[i] IN sum[n]
Prod(f, n) == LET prod[i \in 0..n] == IF i = 0 THEN 1 ELSE prod[i - 1] * f[i] IN prod[n]
Pow(x, n)  == Prod([i \in 1..n |-> x], n)

\* What decryption makes of the polynomials, with the powers of the secret.
Phase(c) == Sum([i \in DOMAIN c |-> c[i] * Pow(Secret, i - 1)], Len(c)) % P

-----------------------------------------------------------------------------
(* Arithmetic.                                                             *)

Coefficient(c, i) == IF i \in DOMAIN c THEN c[i] ELSE 0
Combine(a, b, sign) ==
    [i \in DOMAIN a \cup DOMAIN b |-> (Coefficient(a, i) + sign * Coefficient(b, i)) % P]
\* behz_ciphertext_product
Convolve(a, b) ==
    [k \in 1..Len(a) + Len(b) - 1 |->
        Sum([i \in DOMAIN a |-> a[i] * Coefficient(b, k + 1 - i)], Len(a)) % P]
Scale(x, v) == [x EXCEPT !.c = [i \in DOMAIN x.c |-> (x.c[i] * v) % P]]

NegateInplace(x) == IF Valid(x) THEN Done(Scale(x, P - 1)) ELSE Throw(x)

Match(x, y) == Valid(x) /\ Valid(y) /\ x.level = y.level
\* Mutant: the result of add is not looked at.
AddUnchecked(x, y) ==
    IF Match(x, y) /\ x.ntt = y.ntt
    THEN [ct |-> [x EXCEPT !.c = Combine(x.c, y.c, 1)], out |-> "ok"] ELSE Throw(x)
AddInplace(x, y) ==
    IF Match(x, y) /\ x.ntt = y.ntt THEN Done([x EXCEPT !.c = Combine(x.c, y.c, 1)]) ELSE Throw(x)
SubInplace(x, y) ==
    IF Match(x, y) /\ x.ntt = y.ntt THEN Done([x EXCEPT !.c = Combine(x.c, y.c, -1)]) ELSE Throw(x)

\* The first failure ends the loop; the sum so far stays in the destination.
Sums(xs) ==
    LET sum[i \in 1..Len(xs)] ==
            IF i = 1 THEN Same(xs[1])
            ELSE LET r == sum[i - 1] IN IF r.out = "threw" THEN r ELSE AddInplace(r.ct, xs[i])
    IN  sum
AddMany(xs) == Sums(xs)[Len(xs)]

\* sub with the second operand as destination.
\* Mutant: the sign is forgotten.
SubUnsigned(x, y) == SubInplace(y, x)
SubFrom(x, y) ==
    LET r == SubInplace(y, x) IN IF r.out = "threw" THEN r ELSE NegateInplace(r.ct)

\* Mutant: the size is set before the form is looked at.
MultiplyResizing(x, y) ==
    IF Match(x, y) /\ Len(x.c) + Len(y.c) - 1 <= SizeMax
    THEN IF x.ntt \/ y.ntt THEN Throw([x EXCEPT !.c = Append(@, 0)])
         ELSE Done([x EXCEPT !.c = Convolve(x.c, y.c)])
    ELSE Throw(x)
MultiplyInplace(x, y) ==
    IF Match(x, y) /\ ~x.ntt /\ ~y.ntt /\ Len(x.c) + Len(y.c) - 1 <= SizeMax
    THEN Done([x EXCEPT !.c = Convolve(x.c, y.c)]) ELSE Throw(x)
SquareInplace(x) ==
    IF Valid(x) /\ ~x.ntt /\ Len(x.c) = 2 /\ 3 <= SizeMax
    THEN Done([x EXCEPT !.c = <<(x.c[1] * x.c[1]) % P, (2 * x.c[1] * x.c[2]) % P, (x.c[2] * x.c[2]) % P>>])
    ELSE MultiplyInplace(x, x)

AddPlainInplace(x, p, sign) ==
    IF Valid(x) /\ PlainValid(p) /\ ~x.ntt /\ ~p.ntt
    THEN Done([x EXCEPT !.c[1] = (@ + sign * p.v) % P]) ELSE Throw(x)
MultiplyPlainInplace(x, p) ==
    IF Valid(x) /\ PlainValid(p) /\ x.ntt = p.ntt /\ (x.ntt => x.level = p.level)
    THEN Done(Scale(x, p.v)) ELSE Throw(x)

-----------------------------------------------------------------------------
(* Key switching, relinearization, levels and forms.                       *)

\* A key that encrypts a power of the secret under the secret, as the keys for
\* relinearization and for the Galois automorphisms do.
KSwitchKey(power) == <<(power - Mask * Secret) % P, Mask>>
RelinKey(exponent) == KSwitchKey(Pow(Secret, exponent))
GaloisKey == KSwitchKey(Secret)

\* switch_key_inplace: target times what the key encrypts moves to the first
\* two polynomials, masked.
Switched(x, target, key) ==
    [x EXCEPT !.c[1] = (@ + target * key[1]) % P, !.c[2] = (@ + target * key[2]) % P]
Switchable(x) == Valid(x) /\ ~x.ntt

\* relinearize: the last polynomial is switched away, as often as needed, with
\* an iterator that does not move.
Switchings(x) ==
    LET n == Len(x.c)
        y[i \in 0..n - 2] == IF i = 0 THEN x ELSE Switched(y[i - 1], x.c[n], RelinKey(n - i))
    IN  y
RelinearizeInplace(x) ==
    LET n == Len(x.c) IN
    IF n > RelinCount + 2 THEN Throw(x)
    ELSE IF n = 2 THEN Same(x)
    ELSE IF ~Switchable(x) THEN Throw(x)
    ELSE LET y == Switchings(x)[n - 2] IN Done([y EXCEPT !.c = <<y.c[1], y.c[2]>>])

\* The destination is not touched before the checks are over.
ModSwitchToNext(x, destination) ==
    IF Valid(x) /\ x.level > 0 /\ ~x.ntt THEN Done([x EXCEPT !.level = @ - 1]) ELSE Throw(destination)

\* A loop of ModSwitchToNext; only transparency stops it later than at once.
ModSwitchTo(x, level) ==
    IF level > x.level THEN Throw(x)
    ELSE IF level = x.level THEN Same(x)
    ELSE LET first == ModSwitchToNext(x, x)
         IN  IF first.out = "threw" THEN first ELSE Done([x EXCEPT !.level = level])

\* Products that are relinearized at once; a failure anywhere is one of all.
Product(x, y) ==
    IF "threw" \in {x.out, y.out} THEN Throw(x.ct)
    ELSE LET r == MultiplyInplace(x.ct, y.ct) IN IF r.out = "threw" THEN r ELSE RelinearizeInplace(r.ct)

\* multiply_many: pairs first, an odd one copied; then neighbours, their
\* products appended, until the end is reached.
Products(xs) ==
    LET m == (Len(xs) + 1) \div 2
        given(i) == Same(xs[i])
        all[j \in 1..2 * m - 1] ==
            IF j > m THEN Product(all[2 * (j - m) - 1], all[2 * (j - m)])
            ELSE IF 2 * j > Len(xs) THEN given(2 * j - 1)
            ELSE Product(given(2 * j - 1), given(2 * j))
    IN  all
MultiplyMany(xs, destination) ==
    LET all == Products(xs) IN
    IF Len(xs) = 1 THEN Same(xs[1])
    ELSE IF \E j \in DOMAIN all : all[j].out = "threw" THEN Throw(destination)
    ELSE [ct |-> all[Len(all)].ct, out |-> "ok"]

\* A copy of the object goes into the vector; the object itself stays.
ExponentiateInplace(x, exponent) ==
    IF exponent = 0 THEN Throw(x)
    ELSE IF exponent = 1 THEN Same(x)
    ELSE MultiplyMany([i \in 1..exponent |-> x], x)

Transform(x, ntt) == IF Valid(x) /\ x.ntt # ntt THEN Done([x EXCEPT !.ntt = ntt]) ELSE Throw(x)

\* apply_galois: the second polynomial is wiped before switch_key_inplace is
\* called, which refuses the NTT form; the permutation of a polynomial that
\* was in that form gives garbage.  A constant is its own image.
ApplyGalois(x, garbage) ==
    IF ~Valid(x) \/ Len(x.c) > 2 THEN Throw(x)
    ELSE IF x.ntt THEN Throw([x EXCEPT !.c = <<garbage, 0>>])
    ELSE Done(Switched([x EXCEPT !.c[2] = 0], x.c[2], GaloisKey))

\* rotate_internal: one automorphism for each term of the number of steps in
\* non-adjacent form, every power of two having its key; none for no step.
Rotate(x, terms, garbage) ==
    LET image[i \in 0..terms] ==
            IF i = 0 THEN Same(x)
            ELSE LET r == image[i - 1] IN IF r.out = "threw" THEN r ELSE ApplyGalois(r.ct, garbage)
    IN  image[terms]

-----------------------------------------------------------------------------
(* Calls.  A form with a destination of its own copies an operand there    *)
(* and works in place: it is Copy, then the action for that form.          *)

Returns(r, value) ==
    /\ ct' = r.ct
    /\ out' = r.out
    /\ want' = value

Value(x) == Phase(x.c)
Sources == Operands \cup {ct}

\* Ciphertext::operator=, with no check.
Copy == \E x \in Operands : Returns(Same(x), Value(x))

\* Encryptor::encrypt under the public key: a random multiple masks.
EncryptOf(v, a) == [level |-> TopLevel, ntt |-> FALSE, c |-> <<(v - a * Secret) % P, a>>]
Encrypt == \E v \in Residues, a \in Residues \ {0} : Returns(Done(EncryptOf(v, a)), v)

Init == /\ \E v \in Residues, a \in Residues \ {0} : ct = EncryptOf(v, a) /\ want = v
        /\ out = "ok"

Negate == Returns(NegateInplace(ct), -Value(ct) % P)
Add == \E x \in Sources : Returns(AddInplace(ct, x), (Value(ct) + Value(x)) % P)
Sub == \E x \in Sources :
    \/ Returns(SubInplace(ct, x), (Value(ct) - Value(x)) % P)
    \/ Returns(SubFrom(x, ct), (Value(x) - Value(ct)) % P)
AddAll == \E xs \in Lists :
    Returns(AddMany(xs), Sum([i \in DOMAIN xs |-> Value(xs[i])], Len(xs)) % P)
Multiply == \E x \in Sources : Returns(MultiplyInplace(ct, x), (Value(ct) * Value(x)) % P)
Square == Returns(SquareInplace(ct), (Value(ct) * Value(ct)) % P)
MultiplyAll == \E xs \in Lists :
    Returns(MultiplyMany(xs, ct), Prod([i \in DOMAIN xs |-> Value(xs[i])], Len(xs)) % P)
Exponentiate == \E e \in 0..MaxExponent :
    Returns(ExponentiateInplace(ct, e), Pow(Value(ct), e) % P)
AddPlain == \E p \in Plains : Returns(AddPlainInplace(ct, p, 1), (Value(ct) + p.v) % P)
SubPlain == \E p \in Plains : Returns(AddPlainInplace(ct, p, -1), (Value(ct) - p.v) % P)
MultiplyPlain == \E p \in Plains : Returns(MultiplyPlainInplace(ct, p), (Value(ct) * p.v) % P)
Relinearize == Returns(RelinearizeInplace(ct), Value(ct))
ModSwitch ==
    \/ \E x \in Sources : Returns(ModSwitchToNext(x, ct), Value(x))
    \/ \E level \in 0..KeyLevel : Returns(ModSwitchTo(ct, level), Value(ct))
TransformNtt == \E ntt \in BOOLEAN : Returns(Transform(ct, ntt), Value(ct))
RotateRows == \E terms \in 0..MaxTerms, garbage \in Residues :
    Returns(Rotate(ct, terms, garbage), Value(ct))
\* Rescaling is for another scheme.
Rescale == Returns(Throw(ct), Value(ct))
Galois == \E garbage \in Residues : Returns(ApplyGalois(ct, garbage), Value(ct))

Next ==
    \/ Copy \/ Encrypt \/ Negate \/ Add \/ Sub \/ AddAll \/ Multiply \/ Square \/ MultiplyAll \/ Exponentiate
    \/ AddPlain \/ SubPlain \/ MultiplyPlain
    \/ Relinearize \/ ModSwitch \/ TransformNtt \/ Galois \/ RotateRows \/ Rescale
Spec == Init /\ [][Next]_vars

-----------------------------------------------------------------------------
(* Properties.                                                             *)

\* What a call returns decrypts, in whatever size, level and form, to what
\* the operation promises of its operands, the destination among them or not.
Homomorphic == out # "threw" /\ Valid(ct) => Value(ct) = want

\* What a call has computed is a ciphertext that every other call takes: of
\* an allowed size, not of the key level, and not readable without the key.
ValidResults == ct \in Ciphertexts /\ (out = "ok" => Valid(ct) /\ ~Transparent(ct))

\* A call that throws leaves the object as it was, or a copy of an operand,
\* or what it had already added up of a list; else nothing that could pass for
\* a result.
NoSilentDamage == [][
    out' = "threw" =>
        \/ ct' \in Sources
        \/ Transparent(ct')
        \/ \E xs \in Lists : \E n \in 1..Len(xs) - 1 :
               Sums(xs)[n].out # "threw" /\ ct' = Sums(xs)[n].ct]_vars
=============================================================================
