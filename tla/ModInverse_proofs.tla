-------------------------- MODULE ModInverse_proofs --------------------------
(* Theorems about ModInverse, for every modulus and argument.              *)
EXTENDS ModInverse, TLAPS

(* Arithmetic.                                                             *)

\* Division with remainder of natural numbers.
LEMMA DivMod ==
    ASSUME NEW x \in Nat, NEW m \in Nat, m # 0
    PROVE  /\ x \div m \in Nat /\ x % m \in Nat
           /\ x % m = x - (x \div m) * m
           /\ x % m < m /\ x \div m <= x
  OBVIOUS

\* One iteration applied to a combination of g and m.
LEMMA Combine ==
    ASSUME NEW p \in Int, NEW c \in Int, NEW h \in Int, NEW d \in Int,
           NEW g \in Int, NEW m \in Int, NEW q \in Int
    PROVE  (p - q * c) * g + (h - q * d) * m = (p * g + h * m) - q * (c * g + d * m)
  OBVIOUS

\* One iteration applied to the weighed cofactors.
LEMMA Weigh ==
    ASSUME NEW p \in Int, NEW c \in Int, NEW v \in Int, NEW r \in Int, NEW q \in Int
    PROVE  (p - q * c) * r + (-c) * (v - q * r) = p * r + (-c) * v
  OBVIOUS

\* Absolute values are natural numbers.
LEMMA AbsNat == \A x \in Int : AbsVal(x) \in Nat
  BY DEF AbsVal

\* The sign of a product.
LEMMA ProductSign ==
    ASSUME NEW x \in Int, NEW y \in Nat
    PROVE  /\ x >= 0 => x * y >= 0
           /\ x <= 0 => x * y <= 0
           /\ x \in Nat => x * y \in Nat
           /\ x \in Nat /\ y >= 1 => x <= x * y
  OBVIOUS

-----------------------------------------------------------------------------
(* The loop invariant.                                                     *)

Inv == TypeOK /\ Bezout /\ Balance /\ Ranges

\* mod_inverse enters its loop in the invariant.
LEMMA InvInit == Init => Inv
<1> SUFFICES ASSUME Init PROVE Inv
  OBVIOUS
<1>1. TypeOK
  BY ModsAssumption, ValsAssumption DEF Init, TypeOK
<1>2. Bezout
  BY <1>1 DEF Init, Bezout, TypeOK
<1>3. Balance
  BY <1>1 DEF Init, Balance, AbsVal, TypeOK
<1>4. Ranges
  BY <1>1 DEF Init, Ranges, AbsVal, TypeOK
<1> QED
  BY <1>1, <1>2, <1>3, <1>4 DEF Inv

\* One iteration preserves the invariant.
LEMMA IterateInv ==
    ASSUME Inv, Iterate
    PROVE  Inv'
<1> DEFINE q == val \div modulus
<1>1. /\ pc = "loop" /\ pc' = "loop" /\ modulus # 0 /\ mod' = mod /\ arg' = arg
      /\ val' = modulus /\ modulus' = val % modulus
      /\ a' = prev_a - q * a /\ prev_a' = a
      /\ b' = prev_b - q * b /\ prev_b' = b /\ res' = res
  BY DEF Iterate, LoopDone, NextCofactor
<1>2. /\ mod \in Nat /\ mod >= 2 /\ arg \in Nat /\ val \in Nat /\ modulus \in Nat
      /\ a \in Int /\ prev_a \in Int /\ b \in Int /\ prev_b \in Int /\ res \in Nat
  BY DEF Inv, TypeOK
<1>3. /\ q \in Nat /\ val % modulus \in Nat /\ val % modulus = val - q * modulus
  BY <1>1, <1>2, DivMod
<1> HIDE DEF q
<1>4. TypeOK'
  <2>1. q * a \in Int /\ q * b \in Int
    BY <1>2, <1>3
  <2> QED
    BY <1>1, <1>2, <1>3, <2>1 DEF TypeOK
<1>5. Bezout'
  <2>1. prev_a * arg + prev_b * mod = val /\ a * arg + b * mod = modulus
    BY DEF Inv, Bezout
  <2>2. (prev_a - q * a) * arg + (prev_b - q * b) * mod
          = (prev_a * arg + prev_b * mod) - q * (a * arg + b * mod)
    BY <1>2, <1>3, Combine
  <2>3. (prev_a - q * a) * arg + (prev_b - q * b) * mod = val - q * modulus
    BY <2>1, <2>2
  <2> QED
    BY <1>1, <1>3, <2>1, <2>3 DEF Bezout
<1>6. Balance'
  <2>1. CASE a <= 0 /\ prev_a >= 0
    <3>1. (-a) * val + prev_a * modulus = mod
      BY <1>2, <2>1 DEF Inv, Balance, AbsVal
    <3>2. prev_a - q * a >= 0
      BY <1>2, <1>3, <2>1, ProductSign
    <3>3. (prev_a - q * a) * modulus + (-a) * (val - q * modulus)
            = prev_a * modulus + (-a) * val
      BY <1>2, <1>3, Weigh
    <3>4. AbsVal(a') = prev_a - q * a /\ AbsVal(prev_a') = -a
      BY <1>1, <1>2, <1>3, <2>1, <3>2 DEF AbsVal
    <3>5. AbsVal(a') * val' + AbsVal(prev_a') * modulus' = mod
      BY <1>1, <1>2, <1>3, <3>1, <3>3, <3>4
    <3> QED
      BY <1>1, <2>1, <3>2, <3>5 DEF Balance
  <2>2. CASE a >= 0 /\ prev_a <= 0
    <3>1. a * val + (-prev_a) * modulus = mod
      BY <1>2, <2>2 DEF Inv, Balance, AbsVal
    <3>2. prev_a - q * a <= 0
      BY <1>2, <1>3, <2>2, ProductSign
    <3>3. ((-prev_a) - q * (-a)) * modulus + a * (val - q * modulus)
            = (-prev_a) * modulus + a * val
      <4>1. -a \in Int /\ -prev_a \in Int /\ -(-a) = a
        BY <1>2
      <4>2. ((-prev_a) - q * (-a)) * modulus + (-(-a)) * (val - q * modulus)
              = (-prev_a) * modulus + (-(-a)) * val
        BY <1>2, <1>3, <4>1, Weigh
      <4> QED
        BY <4>1, <4>2
    <3>4. AbsVal(a') = (-prev_a) - q * (-a) /\ AbsVal(prev_a') = a
      BY <1>1, <1>2, <1>3, <2>2, <3>2 DEF AbsVal
    <3>5. AbsVal(a') * val' + AbsVal(prev_a') * modulus' = mod
      <4>1. AbsVal(a') * val' + AbsVal(prev_a') * modulus'
              = ((-prev_a) - q * (-a)) * modulus + a * (val - q * modulus)
        BY <1>1, <1>3, <3>4
      <4> QED
        BY <1>2, <3>1, <3>3, <4>1
    <3> QED
      BY <1>1, <2>2, <3>2, <3>5 DEF Balance
  <2> QED
    BY <2>1, <2>2 DEF Inv, Balance
<1>7. Ranges'
  <2>1. val' > 0 /\ AbsVal(prev_a') <= mod
    BY <1>1, <1>2 DEF Inv, Ranges
  <2>2. AbsVal(a') <= mod
    <3> DEFINE x == AbsVal(a')
               y == AbsVal(prev_a') * modulus'
               v == val'
    <3>1. x \in Nat /\ y \in Nat
      <4>1. AbsVal(a') \in Nat /\ AbsVal(prev_a') \in Nat /\ modulus' \in Nat
        <5>1. a' \in Int /\ prev_a' \in Int /\ modulus' \in Nat
          BY <1>4 DEF TypeOK
        <5> QED
          BY <5>1, AbsNat
      <4> QED
        BY <4>1, ProductSign
    <3>2. x * v + y = mod
      BY <1>1, <1>6 DEF Balance
    <3>3. v \in Nat /\ v >= 1
      BY <1>1, <1>2
    <3> HIDE DEF x, y, v
    <3>4. x <= x * v /\ x * v \in Nat
      BY <3>1, <3>3, ProductSign
    <3>5. x <= mod
      BY <1>2, <3>1, <3>2, <3>4
    <3> QED
      BY <3>5 DEF x
  <2> QED
    BY <1>1, <2>1, <2>2 DEF Ranges
<1> QED
  BY <1>4, <1>5, <1>6, <1>7 DEF Inv

\* Returning or throwing preserves the invariant.
LEMMA ReturnInv ==
    ASSUME Inv, Return
    PROVE  Inv'
<1>1. /\ UNCHANGED <<mod, arg, val, modulus, a, prev_a, b, prev_b>>
      /\ pc' \in {"returned", "threw"} /\ pc = "loop"
      /\ res' = res \/ res' = IF prev_a < 0 THEN prev_a + mod ELSE prev_a
  BY DEF Return, LoopDone, Reduced
<1>2. AbsVal(prev_a) <= mod /\ prev_a \in Int /\ mod \in Nat
  BY <1>1 DEF Inv, Ranges, TypeOK
<1>3. res' \in Nat
  BY <1>1, <1>2 DEF Inv, TypeOK, AbsVal
<1>4. TypeOK'
  BY <1>1, <1>3 DEF Inv, TypeOK
<1>5. Bezout' /\ Balance' /\ Ranges'
  BY <1>1 DEF Inv, Bezout, Balance, Ranges
<1> QED
  BY <1>4, <1>5 DEF Inv

\* So does doing nothing.
LEMMA StutterInv ==
    ASSUME Inv, UNCHANGED vars
    PROVE  Inv'
  BY DEF Inv, TypeOK, Bezout, Balance, Ranges, vars

\* Every iteration keeps the Bezout identity, the weighed sum of the cofactors
\* and their bound by mod.
THEOREM LoopInvariant == Spec => []Inv
<1>1. Inv /\ [Next]_vars => Inv'
  BY IterateInv, ReturnInv, StutterInv DEF Next, Stopped
<1> QED
  BY <1>1, InvInit, PTL DEF Spec

\* Every variable keeps its type; in particular the value returned for a
\* negative cofactor has not wrapped around.
THEOREM TypeCorrect == Spec => []TypeOK
<1>1. Inv => TypeOK
  BY DEF Inv
<1> QED
  BY <1>1, LoopInvariant, PTL

\* The remainders of the loop stay combinations of the argument and mod.
THEOREM BezoutHolds == Spec => []Bezout
<1>1. Inv => Bezout
  BY DEF Inv
<1> QED
  BY <1>1, LoopInvariant, PTL

\* No product or difference of the loop leaves int64_t, for any modulus the
\* constructor of Share admits.
THEOREM NoOverflowHolds == Spec => []NoOverflow
<1>1. ASSUME Inv, mod \in Mods PROVE NoOverflow
  <2> SUFFICES ASSUME pc = "loop"
               PROVE  /\ AbsVal(a) <= MaxInt /\ AbsVal(prev_a) <= MaxInt
                      /\ modulus # 0 => AbsVal((val \div modulus) * a) <= MaxInt
    BY DEF NoOverflow
  <2>1. /\ val > 0 /\ AbsVal(a) <= mod /\ AbsVal(prev_a) <= mod
        /\ mod \in Nat /\ val \in Nat /\ modulus \in Nat
        /\ a \in Int /\ prev_a \in Int /\ MaxInt \in Nat /\ mod <= MaxInt
    BY <1>1, WidthAssumption DEF Inv, Ranges, TypeOK
  <2>a. AbsVal(a) \in Nat /\ AbsVal(prev_a) \in Nat
    BY <2>1 DEF AbsVal
  <2>2. ASSUME modulus # 0 PROVE AbsVal((val \div modulus) * a) <= MaxInt
    <3> DEFINE q == val \div modulus
               x == AbsVal(a)
               y == AbsVal(prev_a) * modulus
    <3>1. q \in Nat /\ q <= val
      BY <2>1, <2>2, DivMod
    <3>2. x \in Nat /\ y \in Nat /\ x * val + y = mod
      BY <1>1, <2>1, ProductSign DEF Inv, Balance, AbsVal
    <3>3. AbsVal(q * a) = q * x
      <4>1. CASE a >= 0
        BY <2>1, <3>1, <4>1, ProductSign DEF AbsVal
      <4>2. CASE a < 0
        <5>1. q * (-a) = -(q * a) /\ q * (-a) >= 0 /\ q * a \in Int
          BY <2>1, <3>1, <4>2, ProductSign
        <5> HIDE DEF q
        <5> QED
          BY <2>1, <4>2, <5>1 DEF AbsVal
      <4> QED
        BY <2>1, <4>1, <4>2
    <3> HIDE DEF q, x, y
    <3>4. q * x <= x * val
      BY <2>1, <3>1, <3>2
    <3>5. q * x <= mod /\ q * x \in Nat
      BY <2>1, <3>1, <3>2, <3>4
    <3> QED
      BY <2>1, <3>3, <3>5 DEF q
  <2> QED
    BY <2>1, <2>a, <2>2
<1>2. Spec => [](mod \in Mods)
  <2>1. Init => mod \in Mods
    BY DEF Init
  <2>2. mod \in Mods /\ [Next]_vars => (mod \in Mods)'
    BY DEF Next, Iterate, Return, Stopped, vars
  <2> QED
    BY <2>1, <2>2, PTL DEF Spec
<1> QED
  BY <1>1, <1>2, LoopInvariant, PTL

\* A number one above a multiple of m leaves 1.
LEMMA OneModulo ==
    ASSUME NEW m \in Nat, m >= 2, NEW k \in Int, NEW x \in Nat, x = k * m + 1
    PROVE  x % m = 1
<1>0. m # 0
  OBVIOUS
<1>1. x % m \in Nat /\ x % m < m /\ x % m = x - (x \div m) * m /\ x \div m \in Nat
  BY <1>0, DivMod
<1> DEFINE d == k - (x \div m)
<1>2. d \in Int /\ x % m = d * m + 1
  BY <1>1
<1> HIDE DEF d
<1>3. d = 0
  <2>1. ~(d >= 1)
    BY <1>1, <1>2
  <2>2. ~(d <= -1)
    BY <1>1, <1>2
  <2> QED
    BY <1>2, <2>1, <2>2
<1> QED
  BY <1>2, <1>3

\* When mod_inverse returns, it returns the reduced inverse of its argument.
THEOREM InverseHolds == Spec => []Inverse
<1>1. Init => Inverse
  BY DEF Init, Inverse
<1>2. Inv /\ Inverse /\ [Next]_vars => Inverse'
  <2> SUFFICES ASSUME Inv, Inverse, [Next]_vars PROVE Inverse'
    OBVIOUS
  <2>1. CASE Iterate
    BY <2>1 DEF Iterate, LoopDone, Inverse
  <2>2. CASE Stopped \/ UNCHANGED vars
    BY <2>2 DEF Stopped, vars, Inverse
  <2>3. CASE Return
    <3>1. CASE pc' # "returned"
      BY <3>1 DEF Inverse
    <3>2. CASE pc' = "returned"
      <4>1. /\ val = 1 /\ modulus = 0 /\ pc = "loop" /\ mod' = mod /\ arg' = arg
            /\ res' = IF prev_a < 0 THEN prev_a + mod ELSE prev_a
        BY <2>3, <3>2 DEF Return, LoopDone, Reduced
      <4>2. /\ mod \in Nat /\ mod >= 2 /\ arg \in Nat /\ prev_a \in Int /\ prev_b \in Int
            /\ prev_a <= mod /\ -prev_a <= mod
            /\ prev_a * arg + prev_b * mod = 1
        BY <4>1 DEF Inv, TypeOK, Ranges, Bezout, AbsVal
      <4>3. CASE prev_a < 0
        <5>1. res' = prev_a + mod /\ res' \in Nat /\ res' < mod
          BY <4>1, <4>2, <4>3
        <5>2. (prev_a + mod) * arg = (arg - prev_b) * mod + 1 /\ arg - prev_b \in Int
              /\ (prev_a + mod) * arg \in Nat
          BY <4>2, <5>1
        <5>3. ((prev_a + mod) * arg) % mod = 1
          BY <4>2, <5>2, OneModulo
        <5> QED
          BY <4>1, <5>1, <5>3 DEF Inverse
      <4>4. CASE prev_a >= 0
        <5>1. res' = prev_a /\ res' \in Nat
          BY <4>1, <4>2, <4>4
        <5>2. prev_a * arg = (-prev_b) * mod + 1 /\ -prev_b \in Int /\ prev_a * arg \in Nat
          BY <4>2, <5>1
        <5>3. (prev_a * arg) % mod = 1
          BY <4>2, <5>2, OneModulo
        <5>4. prev_a # mod
          <6> SUFFICES ASSUME prev_a = mod PROVE FALSE
            OBVIOUS
          <6> DEFINE d == arg + prev_b
          <6>1. d \in Int /\ d * mod = 1
            BY <4>2
          <6> HIDE DEF d
          <6>2. ~(d >= 1) /\ ~(d <= 0)
            BY <4>2, <6>1
          <6> QED
            BY <6>1, <6>2
        <5>5. prev_a < mod
          BY <4>2, <5>4
        <5> QED
          BY <4>1, <5>1, <5>3, <5>5 DEF Inverse
      <4> QED
        BY <4>2, <4>3, <4>4
    <3> QED
      BY <3>1, <3>2
  <2> QED
    BY <2>1, <2>2, <2>3 DEF Next
<1> QED
  BY <1>1, <1>2, LoopInvariant, PTL DEF Spec

\* The cofactors balance: what bounds them (Share.cpp:97-104).
THEOREM BalanceHolds == Spec => []Balance
<1>1. Inv => Balance
  BY DEF Inv
<1> QED
  BY <1>1, LoopInvariant, PTL

-----------------------------------------------------------------------------
(* Arguments without an inverse.                                           *)

\* Whatever divides both remainders divides the argument.
Spanned == \E u \in Int, w \in Int : arg = u * val + w * modulus

\* The argument in terms of the next two remainders.
LEMMA Respan ==
    ASSUME NEW u \in Int, NEW w \in Int, NEW v \in Int, NEW m \in Int, NEW q \in Int
    PROVE  u * v + w * m = (u * q + w) * m + u * (v - q * m)
  OBVIOUS

\* A unit has no factor but one.
LEMMA NoFactor ==
    ASSUME NEW d \in Int, NEW v \in Nat, d * v = 1
    PROVE  v = 1
<1>1. ~(d <= 0)
  BY ProductSign
<1>2. d \in Nat /\ d >= 1 /\ v * d = 1 /\ v <= v * d
  BY <1>1, ProductSign
<1> QED
  BY <1>2

\* With the last remainder v a common divisor other than one, no multiple of
\* the argument leaves one.
LEMMA NoInverse ==
    ASSUME NEW v \in Nat, v # 1, NEW u \in Int, NEW c \in Int, NEW x \in Nat,
           NEW g \in Nat, g = u * v, NEW m \in Nat, m = c * v, m # 0
    PROVE  (x * g) % m # 1
<1> SUFFICES ASSUME (x * g) % m = 1 PROVE FALSE
  OBVIOUS
<1>1. x * g \in Nat
  OBVIOUS
<1>2. PICK y \in Nat : y = x * g
  BY <1>1
<1>3. PICK k \in Nat : y - k * m = 1
  <2>1. y \div m \in Nat /\ y % m = y - (y \div m) * m
    BY <1>2, DivMod
  <2> QED BY <1>2, <2>1
<1>4. x * (u * v) - k * (c * v) = (x * u - k * c) * v /\ x * u - k * c \in Int
  OBVIOUS
<1>5. (x * u - k * c) * v = 1
  BY <1>2, <1>3, <1>4
<1> QED
  BY <1>4, <1>5, NoFactor

\* Only an argument without an inverse makes mod_inverse throw, for every
\* modulus, prime or not, and every argument (Share.cpp:89-113).
THEOREM ThrowsRightlyHolds == Spec => []ThrowsRightly
<1> DEFINE Holds == ThrowsRightly /\ (pc = "loop" => Spanned)
<1>1. Init => Holds
  <2> SUFFICES ASSUME Init PROVE Holds
    OBVIOUS
  <2>1. mod \in Nat /\ mod >= 2 /\ arg \in Nat /\ val = arg /\ modulus = mod
    BY ModsAssumption, ValsAssumption DEF Init
  <2>2. arg = 1 * val + 0 * modulus
    BY <2>1
  <2>3. Spanned
    BY <2>2 DEF Spanned
  <2>4. ASSUME arg = 0, NEW x \in 0..mod - 1 PROVE (x * arg) % mod # 1
    <3>1. x * arg = 0
      BY <2>4
    <3>2. 0 % mod = 0
      BY <2>1
    <3> QED BY <3>1, <3>2
  <2> QED BY <2>3, <2>4 DEF Init, ThrowsRightly
<1>2. Inv /\ Holds /\ [Next]_vars => Holds'
  <2> SUFFICES ASSUME Inv, Holds, [Next]_vars PROVE Holds'
    OBVIOUS
  <2>1. CASE Iterate
    <3> DEFINE q == val \div modulus
    <3>1. /\ pc = "loop" /\ pc' = "loop" /\ modulus # 0 /\ mod' = mod /\ arg' = arg
          /\ val' = modulus /\ modulus' = val % modulus
      BY <2>1 DEF Iterate, LoopDone
    <3>2. val \in Nat /\ modulus \in Nat
      BY DEF Inv, TypeOK
    <3>3. q \in Nat /\ val % modulus = val - q * modulus
      BY <3>1, <3>2, DivMod
    <3> HIDE DEF q
    <3>4. PICK u \in Int, w \in Int : arg = u * val + w * modulus
      BY <3>1 DEF Spanned
    <3>5. arg = (u * q + w) * modulus + u * (val - q * modulus) /\ u * q + w \in Int
      BY <3>2, <3>3, <3>4, Respan
    <3>6. arg' = (u * q + w) * val' + u * modulus'
      BY <3>1, <3>3, <3>5
    <3>7. Spanned'
      BY <3>5, <3>6 DEF Spanned
    <3> QED BY <3>1, <3>7 DEF ThrowsRightly
  <2>2. CASE Stopped \/ UNCHANGED vars
    BY <2>2 DEF Stopped, vars, ThrowsRightly, Spanned
  <2>3. CASE Return
    <3>1. CASE pc' # "threw"
      BY <2>3, <3>1 DEF Return, ThrowsRightly
    <3>2. CASE pc' = "threw"
      <4>1. val # 1 /\ modulus = 0 /\ pc = "loop" /\ mod' = mod /\ arg' = arg
        BY <2>3, <3>2 DEF Return, LoopDone
      <4>2. /\ mod \in Nat /\ mod >= 2 /\ arg \in Nat /\ val \in Nat
            /\ a \in Int /\ prev_a \in Int
        BY DEF Inv, TypeOK
      <4>3. PICK u \in Int : arg = u * val
        BY <4>1, <4>2 DEF Spanned
      <4>4. PICK c \in Int : mod = c * val
        <5>1. AbsVal(a) \in Int /\ AbsVal(prev_a) \in Int
          BY <4>2 DEF AbsVal
        <5>2. AbsVal(a) * val + AbsVal(prev_a) * modulus = mod
          BY DEF Inv, Balance
        <5>3. AbsVal(prev_a) * modulus = 0
          BY <4>1, <5>1
        <5> QED BY <4>2, <5>1, <5>2, <5>3
      <4>5. ASSUME NEW x \in 0..mod - 1 PROVE (x * arg) % mod # 1
        <5>1. x \in Nat /\ mod # 0
          BY <4>2
        <5>2. /\ val \in Nat /\ val # 1 /\ arg \in Nat /\ arg = u * val
              /\ mod \in Nat /\ mod = c * val
          BY <4>1, <4>2, <4>3, <4>4
        <5> QED BY <5>1, <5>2, NoInverse, Zenon
      <4> QED BY <4>1, <3>2, <4>5 DEF ThrowsRightly
    <3> QED BY <3>1, <3>2
  <2> QED BY <2>1, <2>2, <2>3 DEF Next
<1> QED
  BY <1>1, <1>2, LoopInvariant, PTL DEF Spec
=============================================================================
