----------------------- MODULE ShamirRetrieval_proofs -----------------------
(***************************************************************************)
(* A retrieval with Shamir sharing returns the wanted word from any        *)
(* sufficient set of responses, and its shares hide the selection bit, for *)
(* every prime modulus, every number of servers and images, every -t,      *)
(* database and choice of polynomials - as long as a double holds the      *)
(* powers.  The interpolation formula itself is proved, from the laws of   *)
(* the residues up.                                                        *)
(***************************************************************************)
EXTENDS ShamirRetrieval, FiniteSetTheorems, WellFoundedInduction, TLAPS

-----------------------------------------------------------------------------
(* Induction, on finite sets and on numbers: what a proof by induction      *)
(* shows of all is the absence of a smallest exception.                     *)

\* A set of finite sets that is not empty has a smallest member.
LEMMA SmallestSet ==
    ASSUME NEW S, NEW T, T \subseteq FiniteSubsetsOf(S), T # {}
    PROVE  \E x \in T : \A y \in T : y \subseteq x => y = x
<1> DEFINE R == StrictSubsetOrdering(S)
           F == FiniteSubsetsOf(S)
<1>1. IsWellFoundedOn(R, F)
  BY FS_StrictSubsetOrderingWellFounded
<1>2. PICK x \in T : \A y \in T : ~ (<<y, x>> \in R)
  <2> HIDE DEF R, F
  <2> QED BY <1>1, WFMin DEF F
<1>3. \A y \in T : y \in SUBSET S
  BY DEF FiniteSubsetsOf
<1> QED BY <1>2, <1>3 DEF StrictSubsetOrdering

\* A set of numbers that is not empty has a smallest member.
LEMMA SmallestNumber ==
    ASSUME NEW T, T \subseteq Nat, T # {}
    PROVE  \E x \in T : \A y \in T : x <= y
<1> DEFINE U == {0..n : n \in T}
<1>1. U \subseteq FiniteSubsetsOf(Nat) /\ U # {}
  <2>1. \A n \in T : IsFiniteSet(0..n) /\ 0..n \subseteq Nat
    BY FS_Interval
  <2> QED BY <2>1 DEF FiniteSubsetsOf
<1>2. PICK x \in U : \A y \in U : y \subseteq x => y = x
  <2> HIDE DEF U
  <2> QED BY <1>1, SmallestSet
<1>3. PICK n \in T : x = 0..n
  OBVIOUS
<1>4. ASSUME NEW m \in T, m < n PROVE FALSE
  <2>1. 0..m \subseteq 0..n /\ n \notin 0..m /\ n \in 0..n
    BY <1>4
  <2> QED BY <1>2, <1>3, <2>1
<1>5. \A m \in T : n <= m
  BY <1>4
<1> QED BY <1>5

\* What holds of 0, and with every number of the next, holds of all.
LEMMA NumberInduction ==
    ASSUME NEW T, 0 \in T, \A n \in Nat : n \in T => n + 1 \in T
    PROVE  Nat \subseteq T
<1> SUFFICES ASSUME Nat \ T # {} PROVE FALSE
  OBVIOUS
<1>1. PICK x \in Nat \ T : \A y \in Nat \ T : x <= y
  BY SmallestNumber
<1>2. x - 1 \in Nat /\ x - 1 \in T
  BY <1>1
<1> QED BY <1>2

-----------------------------------------------------------------------------
(* Residues.                                                               *)

\* What % and \div are on integers, negative ones included.
LEMMA Division ==
    ASSUME NEW x \in Int
    PROVE  x % Mod \in Field /\ x \div Mod \in Int /\ x = (x % Mod) + (x \div Mod) * Mod
BY ModAssumption DEF Field

\* The only multiple of the modulus closer to 0 than the modulus is 0.
LEMMA SmallMultiple ==
    ASSUME NEW k \in Int, NEW d \in Int, d = k * Mod, -Mod < d, d < Mod
    PROVE  d = 0
<1>1. CASE k >= 1
  <2>1. k * Mod >= Mod
    BY <1>1, ModAssumption
  <2> QED BY <2>1, ModAssumption
<1>2. CASE k <= -1
  <2>1. k * Mod <= -Mod
    BY <1>2, ModAssumption
  <2> QED BY <2>1, ModAssumption
<1>3. CASE k = 0
  BY <1>3, ModAssumption
<1> QED BY <1>1, <1>2, <1>3

\* There is one residue.
LEMMA OneResidue ==
    ASSUME NEW r \in Field, NEW k \in Int, NEW x \in Int, x = r + k * Mod
    PROVE  x % Mod = r
<1> DEFINE q == x \div Mod
           t == x % Mod
           d == t - r
<1>1. t \in 0..Mod - 1 /\ r \in 0..Mod - 1 /\ q \in Int /\ x = t + q * Mod
  BY Division DEF Field
<1> HIDE DEF q, t
<1>2. d = (k - q) * Mod /\ d \in Int /\ k - q \in Int /\ -Mod < d /\ d < Mod
  BY <1>1, ModAssumption
<1>3. d = 0
  <2> HIDE DEF d
  <2>1. PICK e \in Int : e = k - q
    BY <1>2
  <2> QED BY <1>2, <2>1, SmallMultiple
<1> QED BY <1>1, <1>3 DEF t

\* Residues are their own residues.
LEMMA ModField == \A r \in Field : r % Mod = r
<1> SUFFICES ASSUME NEW r \in Field PROVE r % Mod = r
  OBVIOUS
<1>1. r = r + 0 * Mod /\ r \in Int
  BY ModAssumption DEF Field
<1> QED BY <1>1, OneResidue

\* The residue of a summand or a factor may be taken first.
LEMMA ModPlus ==
    ASSUME NEW x \in Int, NEW y \in Int
    PROVE  ((x % Mod) + y) % Mod = (x + y) % Mod
<1> DEFINE r == x % Mod
           q == x \div Mod
           s == (r + y) % Mod
           k == (r + y) \div Mod
<1>1. r \in Int /\ q \in Int /\ x = r + q * Mod
  BY Division DEF Field
<1> HIDE DEF r, q
<1>2. PICK z \in Int : z = r + y
  BY <1>1
<1>3. s \in Field /\ s \in Int /\ k \in Int /\ r + y = s + k * Mod
  BY <1>2, Division DEF Field
<1> HIDE DEF s, k
<1>4. x + y = s + (k + q) * Mod
  BY <1>1, <1>3, ModAssumption
<1>5. PICK e \in Int, u \in Int : e = k + q /\ u = x + y
  BY <1>1, <1>3
<1>6. u % Mod = s
  BY <1>3, <1>4, <1>5, OneResidue
<1> QED BY <1>5, <1>6 DEF r, s

\* The residue of a factor may be taken first.
LEMMA ModTimes ==
    ASSUME NEW x \in Int, NEW y \in Int
    PROVE  ((x % Mod) * y) % Mod = (x * y) % Mod
<1> DEFINE r == x % Mod
           q == x \div Mod
           s == (r * y) % Mod
           k == (r * y) \div Mod
<1>1. r \in Int /\ q \in Int /\ x = r + q * Mod
  BY Division DEF Field
<1> HIDE DEF r, q
<1>2. PICK z \in Int : z = r * y
  BY <1>1
<1>3. s \in Field /\ s \in Int /\ k \in Int /\ r * y = s + k * Mod
  BY <1>2, Division DEF Field
<1> HIDE DEF s, k
<1>4. x * y = s + (k + q * y) * Mod
  <2>1. x * y = r * y + (q * y) * Mod
    BY <1>1, ModAssumption
  <2>2. q * y \in Int /\ (k + q * y) * Mod = k * Mod + (q * y) * Mod
    BY <1>1, <1>3, ModAssumption
  <2> QED BY <1>1, <1>3, <2>1, <2>2, ModAssumption
<1>5. PICK e \in Int, u \in Int : e = k + q * y /\ u = x * y
  BY <1>1, <1>3
<1>6. u % Mod = s
  BY <1>3, <1>4, <1>5, OneResidue
<1> QED BY <1>5, <1>6 DEF r, s

-----------------------------------------------------------------------------
(* The field.                                                              *)

\* Share's operations stay in the field.
LEMMA FieldTyped ==
    /\ 0 \in Field /\ 1 \in Field /\ Field \subseteq Int
    /\ \A a, b \in Field : FieldAdd(a, b) \in Field /\ FieldMul(a, b) \in Field /\ FieldSub(a, b) \in Field
    /\ \A a \in Field, n \in Int : FieldMul(a, n) \in Field
<1>1. 0 \in Field /\ 1 \in Field /\ Field \subseteq Int
  BY ModAssumption DEF Field
<1>2. ASSUME NEW a \in Field, NEW n \in Int PROVE (a + n) % Mod \in Field /\ (a * n) % Mod \in Field
  <2>1. PICK x \in Int, y \in Int : x = a + n /\ y = a * n
    BY <1>1
  <2> QED BY <2>1, Division
<1>3. ASSUME NEW a \in Field, NEW b \in Field PROVE FieldSub(a, b) \in Field
  BY ModAssumption DEF Field, FieldSub
<1> QED BY <1>1, <1>2, <1>3 DEF FieldAdd, FieldMul

\* FieldAdd is a commutative group operation.
LEMMA AddLaws ==
    ASSUME NEW a \in Field, NEW b \in Field, NEW c \in Field
    PROVE  /\ FieldAdd(a, b) = FieldAdd(b, a)
           /\ FieldAdd(0, a) = a
           /\ FieldAdd(FieldAdd(a, b), c) = FieldAdd(a, FieldAdd(b, c))
<1>1. a \in Int /\ b \in Int /\ c \in Int
  BY FieldTyped
<1>2. FieldAdd(a, b) = FieldAdd(b, a)
  BY <1>1 DEF FieldAdd
<1>3. FieldAdd(0, a) = a
  BY <1>1, ModField DEF FieldAdd
<1>4. FieldAdd(FieldAdd(a, b), c) = ((a + b) + c) % Mod
  <2>1. PICK x \in Int : x = a + b
    BY <1>1
  <2> QED BY <1>1, <2>1, ModPlus DEF FieldAdd
<1>5. FieldAdd(a, FieldAdd(b, c)) = ((b + c) + a) % Mod
  <2>1. PICK x \in Int : x = b + c
    BY <1>1
  <2>2. x % Mod \in Int
    BY <2>1, Division, FieldTyped
  <2>3. a + (x % Mod) = (x % Mod) + a
    BY <1>1, <2>2
  <2> QED BY <1>1, <2>1, <2>3, ModPlus DEF FieldAdd
<1>6. (a + b) + c = (b + c) + a
  BY <1>1
<1> QED BY <1>2, <1>3, <1>4, <1>5, <1>6

\* Products with 0 and 1.
LEMMA MulUnits ==
    /\ \A a \in Field : FieldMul(a, 0) = 0 /\ FieldMul(a, 1) = a /\ FieldMul(1, a) = a
    /\ \A n \in Int : FieldMul(0, n) = 0
<1>1. ASSUME NEW a \in Field PROVE FieldMul(a, 0) = 0 /\ FieldMul(a, 1) = a /\ FieldMul(1, a) = a
  <2>1. a * 0 = 0 /\ a * 1 = a /\ 1 * a = a
    BY FieldTyped
  <2> QED BY <2>1, FieldTyped, ModField DEF FieldMul
<1>2. ASSUME NEW n \in Int PROVE FieldMul(0, n) = 0
  <2>1. 0 * n = 0
    OBVIOUS
  <2> QED BY <2>1, FieldTyped, ModField DEF FieldMul
<1> QED BY <1>1, <1>2

\* Factors may change places.
LEMMA MulCommutes ==
    \A a, b \in Field : FieldMul(a, b) = FieldMul(b, a)
<1>1. \A a, b \in Field : a * b = b * a
  BY FieldTyped
<1> QED BY <1>1 DEF FieldMul

\* The last factor may be any integer: a power is not reduced.
LEMMA MulAssociates ==
    ASSUME NEW a \in Field, NEW b \in Field, NEW n \in Int
    PROVE  FieldMul(a, FieldMul(b, n)) = FieldMul(FieldMul(a, b), n)
<1>1. a \in Int /\ b \in Int
  BY FieldTyped
<1>2. PICK x \in Int, y \in Int : x = b * n /\ y = a * b
  BY <1>1
<1>3. FieldMul(a, FieldMul(b, n)) = (x * a) % Mod
  <2>1. x % Mod \in Int
    BY <1>2, Division, FieldTyped
  <2>2. a * (x % Mod) = (x % Mod) * a
    BY <1>1, <2>1
  <2> QED BY <1>1, <1>2, <2>2, ModTimes DEF FieldMul
<1>4. FieldMul(FieldMul(a, b), n) = (y * n) % Mod
  BY <1>1, <1>2, ModTimes DEF FieldMul
<1>5. x * a = y * n
  BY <1>1, <1>2
<1> QED BY <1>3, <1>4, <1>5

\* One more factor of a power.
LEMMA MulPower ==
    ASSUME NEW a \in Field, NEW b \in Field, NEW n \in Int
    PROVE  FieldMul(a, FieldMul(b, n)) = FieldMul(b, a * n)
<1>1. a \in Int /\ b \in Int
  BY FieldTyped
<1>2. PICK x \in Int : x = b * n
  BY <1>1
<1>3. FieldMul(a, FieldMul(b, n)) = (x * a) % Mod
  <2>1. x % Mod \in Int
    BY <1>2, Division, FieldTyped
  <2>2. a * (x % Mod) = (x % Mod) * a
    BY <1>1, <2>1
  <2> QED BY <1>1, <1>2, <2>2, ModTimes DEF FieldMul
<1>4. x * a = b * (a * n)
  BY <1>1, <1>2
<1> QED BY <1>3, <1>4 DEF FieldMul

\* Factors distribute over sums.
LEMMA Distributes ==
    ASSUME NEW a \in Field, NEW b \in Field
    PROVE  /\ \A n \in Int : FieldMul(FieldAdd(a, b), n) = FieldAdd(FieldMul(a, n), FieldMul(b, n))
           /\ \A c \in Field : FieldMul(c, FieldAdd(a, b)) = FieldAdd(FieldMul(c, a), FieldMul(c, b))
<1>1. ASSUME NEW n \in Int PROVE FieldMul(FieldAdd(a, b), n) = FieldAdd(FieldMul(a, n), FieldMul(b, n))
  <2>1. PICK p \in Int, q \in Int, s \in Int : p = a * n /\ q = b * n /\ s = a + b
    BY FieldTyped
  <2>2. FieldMul(FieldAdd(a, b), n) = (s * n) % Mod
    BY <2>1, ModTimes DEF FieldMul, FieldAdd
  <2>3. FieldAdd(FieldMul(a, n), FieldMul(b, n)) = (p + (q % Mod)) % Mod
    <3>1. q % Mod \in Int
      BY <2>1, Division, FieldTyped
    <3> QED BY <2>1, <3>1, ModPlus DEF FieldMul, FieldAdd
  <2>4. (p + (q % Mod)) % Mod = (q + p) % Mod
    <3>1. q % Mod \in Int
      BY <2>1, Division, FieldTyped
    <3>2. p + (q % Mod) = (q % Mod) + p
      BY <3>1
    <3> QED BY <3>2, ModPlus
  <2>5. s * n = q + p
    BY <2>1, FieldTyped
  <2> QED BY <2>2, <2>3, <2>4, <2>5
<1>2. ASSUME NEW c \in Field PROVE FieldMul(c, FieldAdd(a, b)) = FieldAdd(FieldMul(c, a), FieldMul(c, b))
  <2>1. PICK d \in Field : d = FieldAdd(a, b)
    BY FieldTyped
  <2>2. FieldMul(c, d) = FieldMul(d, c) /\ FieldMul(c, a) = FieldMul(a, c) /\ FieldMul(c, b) = FieldMul(b, c)
    BY MulCommutes
  <2>3. c \in Int
    BY FieldTyped
  <2> QED BY <1>1, <2>1, <2>2, <2>3
<1> QED BY <1>1, <1>2

\* FieldSub undoes FieldAdd, and is 0 only for equal operands.
LEMMA SubLaw ==
    ASSUME NEW a \in Field, NEW b \in Field
    PROVE  /\ FieldAdd(FieldSub(a, b), b) = a
           /\ FieldSub(a, b) = 0 => a = b
<1>1. CASE a < b
  <2>1. FieldSub(a, b) + b = a + 1 * Mod /\ a + 1 * Mod \in Int /\ FieldSub(a, b) # 0
    BY <1>1, ModAssumption DEF Field, FieldSub
  <2>2. (a + 1 * Mod) % Mod = a
    BY <2>1, OneResidue
  <2> QED BY <2>1, <2>2 DEF FieldAdd
<1>2. CASE ~(a < b)
  <2>1. FieldSub(a, b) + b = a /\ (FieldSub(a, b) = 0 => a = b)
    BY <1>2, ModAssumption DEF Field, FieldSub
  <2> QED BY <2>1, ModField DEF FieldAdd
<1> QED BY <1>1, <1>2

\* Equal sums with an equal summand have equal other summands.
LEMMA Cancel ==
    ASSUME NEW a \in Field, NEW b \in Field, NEW c \in Field, FieldAdd(a, c) = FieldAdd(b, c)
    PROVE  a = b
<1> DEFINE n == FieldSub(0, c)
<1>1. n \in Field /\ FieldAdd(n, c) = 0
  BY FieldTyped, SubLaw
<1> HIDE DEF n
<1>2. \A x \in Field : FieldAdd(FieldAdd(x, c), n) = x
  <2> SUFFICES ASSUME NEW x \in Field PROVE FieldAdd(FieldAdd(x, c), n) = x
    OBVIOUS
  <2>1. FieldAdd(FieldAdd(x, c), n) = FieldAdd(x, FieldAdd(c, n))
    BY <1>1, AddLaws
  <2>2. FieldAdd(c, n) = 0
    BY <1>1, AddLaws
  <2> QED BY <2>1, <2>2, FieldTyped, AddLaws
<1> QED BY <1>2

\* The modulus being prime, every element but 0 has an inverse.
LEMMA Inverses ==
    ASSUME NEW d \in Field \ {0}
    PROVE  FieldInv(d) \in Field /\ FieldMul(FieldInv(d), d) = 1
<1> DEFINE G == {g \in 1..Mod - 1 : \E x \in Field : (x * d) % Mod = g}
<1>1. d \in G
  <2>1. 1 * d = d /\ d \in 1..Mod - 1 /\ d % Mod = d /\ 1 \in Field
    BY ModField, FieldTyped, ModAssumption DEF Field
  <2> QED BY <2>1
<1>2. PICK g \in G : \A k \in G : g <= k
  <2>1. G \subseteq Nat /\ G # {}
    BY <1>1
  <2> HIDE DEF G
  <2> QED BY <2>1, SmallestNumber
<1>3. PICK x \in Field : (x * d) % Mod = g
  OBVIOUS
<1>4. g = 1
  <2> SUFFICES ASSUME g # 1 PROVE FALSE
    OBVIOUS
  <2> DEFINE q == Mod \div g
             r == Mod % g
             y == (-q * x) % Mod
             m == (x * d) \div Mod
  <2>1. g \in Nat /\ g > 1 /\ g < Mod /\ Mod \in Nat /\ d \in Int /\ x \in Int
    BY ModAssumption, FieldTyped
  <2>2. q \in Int /\ r \in 0..g - 1 /\ Mod = r + q * g
    BY <2>1
  <2>3. r # 0
    <3>1. g \in 2..Mod - 1
      BY <2>1
    <3> QED BY <3>1, ModAssumption
  <2>4. m \in Int /\ x * d = g + m * Mod
    <3>1. PICK z \in Int : z = x * d
      BY <2>1
    <3> QED BY <1>3, <3>1, Division
  <2> HIDE DEF q, r, m
  <2>5. (-q * x) * d = r + (-1 - q * m) * Mod
    <3>1. (-q * x) * d = -q * (x * d)
      BY <2>1, <2>2
    <3>2. -q * (g + m * Mod) = -(q * g) - (q * m) * Mod
      BY <2>1, <2>2, <2>4
    <3>3. PICK e \in Int, h \in Int : e = q * m /\ h = q * g
      BY <2>1, <2>2, <2>4
    <3>4. -h - e * Mod = r + (-1 - e) * Mod
      BY <2>1, <2>2, <3>3
    <3> QED BY <2>4, <3>1, <3>2, <3>3, <3>4
  <2>6. PICK u \in Int, k \in Int : u = -q * x /\ k = -1 - q * m
    BY <2>1, <2>2, <2>4
  <2>7. y \in Field /\ (y * d) % Mod = (u * d) % Mod
    BY <2>1, <2>6, Division, ModTimes
  <2>8. (u * d) % Mod = r
    <3>1. PICK z \in Int : z = u * d
      BY <2>1, <2>6
    <3>2. r \in Field
      BY <2>1, <2>2 DEF Field
    <3> QED BY <2>5, <2>6, <3>1, <3>2, OneResidue
  <2>9. r \in G
    BY <2>1, <2>2, <2>3, <2>7, <2>8
  <2>10. g <= r
    <3> HIDE DEF G
    <3> QED BY <1>2, <2>9
  <2> QED BY <2>1, <2>2, <2>10
<1>5. FieldMul(x, d) = 1
  BY <1>3, <1>4 DEF FieldMul
<1> QED BY <1>5 DEF FieldInv

\* A product that is 0 has a factor 0.
LEMMA NoZeroDivisor ==
    ASSUME NEW a \in Field, NEW b \in Field, FieldMul(a, b) = 0, a # 0
    PROVE  b = 0
<1> DEFINE i == FieldInv(a)
<1>1. i \in Field /\ FieldMul(i, a) = 1
  BY Inverses
<1> HIDE DEF i
<1>2. FieldMul(FieldMul(i, a), b) = FieldMul(i, FieldMul(a, b))
  BY <1>1, FieldTyped, MulAssociates
<1>3. FieldMul(1, b) = b /\ FieldMul(i, 0) = 0
  BY <1>1, FieldTyped, MulUnits
<1> QED BY <1>1, <1>2, <1>3

\* An equation may be divided by an element that is not 0.
LEMMA Divide ==
    ASSUME NEW a \in Field, NEW b \in Field, NEW d \in Field \ {0},
           FieldMul(a, d) = FieldMul(b, d)
    PROVE  a = b
<1> DEFINE i == FieldInv(d)
<1>1. i \in Field /\ FieldMul(i, d) = 1
  BY Inverses
<1> HIDE DEF i
<1>2. \A x \in Field : FieldMul(FieldMul(x, d), i) = x
  <2> SUFFICES ASSUME NEW x \in Field PROVE FieldMul(FieldMul(x, d), i) = x
    OBVIOUS
  <2>1. FieldMul(x, FieldMul(d, i)) = FieldMul(FieldMul(x, d), i)
    BY <1>1, FieldTyped, MulAssociates
  <2>2. FieldMul(d, i) = FieldMul(i, d)
    BY <1>1, FieldTyped, MulCommutes
  <2>3. FieldMul(x, 1) = x
    BY FieldTyped, MulUnits
  <2> QED BY <1>1, <2>1, <2>2, <2>3
<1> QED BY <1>2

-----------------------------------------------------------------------------
(* Folds over a set.                                                       *)

\* fold is the fold of op over f: what FoldFunction computes, its elements
\* taken in the order CHOOSE takes them.
IsFold(fold, op, b, f, S) ==
    fold = [s \in SUBSET S |-> IF s = {} THEN b
                               ELSE op[<<f[CHOOSE x \in s : TRUE], fold[s \ {CHOOSE x \in s : TRUE}]>>]]

\* There is one, ...
LEMMA FoldExists ==
    ASSUME NEW S, IsFiniteSet(S), NEW V, NEW b \in V, NEW op \in [V \X V -> V], NEW f \in [S -> V]
    PROVE  \E fold \in [SUBSET S -> V] : IsFold(fold, op, b, f, S)
<1> DEFINE Small(n) == {s \in SUBSET S : Cardinality(s) <= n}
           C(s) == CHOOSE x \in s : TRUE
           Eq(g, n) == \A s \in Small(n) : g[s] = IF s = {} THEN b ELSE op[<<f[C(s)], g[s \ {C(s)}]>>]
           T == {n \in Nat : \E g \in [Small(n) -> V] : Eq(g, n)}
<1>1. \A s \in SUBSET S : IsFiniteSet(s) /\ Cardinality(s) \in Nat
  BY FS_Subset, FS_CardinalityType
<1>2. \A s \in SUBSET S : s # {} => /\ C(s) \in s /\ C(s) \in S
                                    /\ s \ {C(s)} \in SUBSET S
                                    /\ Cardinality(s \ {C(s)}) = Cardinality(s) - 1
  BY <1>1, FS_RemoveElement
<1>3. 0 \in T
  <2>1. \A s \in Small(0) : s = {}
    BY <1>1, FS_EmptySet
  <2>2. [s \in Small(0) |-> b] \in [Small(0) -> V]
    OBVIOUS
  <2> QED BY <2>1, <2>2
<1>4. ASSUME NEW n \in Nat, n \in T PROVE n + 1 \in T
  <2>1. PICK g \in [Small(n) -> V] : Eq(g, n)
    BY <1>4
  <2> DEFINE h == [s \in Small(n + 1) |-> IF s = {} THEN b ELSE op[<<f[C(s)], g[s \ {C(s)}]>>]]
  <2>2. \A s \in Small(n + 1) : s # {} => s \ {C(s)} \in Small(n)
    BY <1>1, <1>2
  <2>3. h \in [Small(n + 1) -> V]
    <3> SUFFICES ASSUME NEW s \in Small(n + 1) PROVE (IF s = {} THEN b ELSE op[<<f[C(s)], g[s \ {C(s)}]>>]) \in V
      OBVIOUS
    <3>1. CASE s = {}
      BY <3>1
    <3>2. CASE s # {}
      <4>1. f[C(s)] \in V
        BY <1>2, <3>2
      <4>2. g[s \ {C(s)}] \in V
        BY <2>1, <2>2, <3>2
      <4> QED BY <3>2, <4>1, <4>2
    <3> QED BY <3>1, <3>2
  <2>4. \A s \in Small(n) : s \in Small(n + 1) /\ h[s] = g[s]
    <3> SUFFICES ASSUME NEW s \in Small(n) PROVE s \in Small(n + 1) /\ h[s] = g[s]
      OBVIOUS
    <3>1. s \in Small(n + 1)
      BY <1>1
    <3> QED BY <2>1, <3>1
  <2>5. Eq(h, n + 1)
    <3> SUFFICES ASSUME NEW s \in Small(n + 1)
                 PROVE  h[s] = IF s = {} THEN b ELSE op[<<f[C(s)], h[s \ {C(s)}]>>]
      OBVIOUS
    <3>1. s # {} => h[s \ {C(s)}] = g[s \ {C(s)}]
      BY <2>2, <2>4
    <3> QED BY <3>1
  <2> HIDE DEF h, Small, Eq
  <2> QED BY <2>3, <2>5
<1>5. Nat \subseteq T
  <2> HIDE DEF T
  <2> QED BY <1>3, <1>4, NumberInduction
<1>6. Cardinality(S) \in T
  BY <1>1, <1>5
<1>7. PICK g \in [Small(Cardinality(S)) -> V] : Eq(g, Cardinality(S))
  BY <1>6
<1>8. Small(Cardinality(S)) = SUBSET S
  <2>1. \A s \in SUBSET S : Cardinality(s) <= Cardinality(S)
    BY FS_Subset
  <2> QED BY <2>1
<1>9. g = [s \in SUBSET S |-> IF s = {} THEN b ELSE op[<<f[C(s)], g[s \ {C(s)}]>>]]
  BY <1>7, <1>8
<1>10. g \in [SUBSET S -> V]
  BY <1>7, <1>8
<1> QED BY <1>9, <1>10 DEF IsFold

\* ... on a smaller set there is no other, ...
LEMMA FoldUnique ==
    ASSUME NEW S, IsFiniteSet(S), NEW op, NEW b, NEW f, NEW D \in SUBSET S, NEW g,
           \A x \in D : f[x] = g[x],
           NEW fold, IsFold(fold, op, b, f, S), NEW other, IsFold(other, op, b, g, D)
    PROVE  \A s \in SUBSET D : fold[s] = other[s]
<1> DEFINE C(s) == CHOOSE x \in s : TRUE
           U == {s \in SUBSET D : fold[s] # other[s]}
<1> SUFFICES ASSUME U # {} PROVE FALSE
  OBVIOUS
<1>1. U \subseteq FiniteSubsetsOf(D)
  <2>1. \A s \in SUBSET D : IsFiniteSet(s)
    BY FS_Subset
  <2> QED BY <2>1 DEF FiniteSubsetsOf
<1>2. PICK s \in U : \A t \in U : t \subseteq s => t = s
  <2> HIDE DEF U
  <2> QED BY <1>1, SmallestSet
<1>3. /\ fold[s] = IF s = {} THEN b ELSE op[<<f[C(s)], fold[s \ {C(s)}]>>]
      /\ other[s] = IF s = {} THEN b ELSE op[<<g[C(s)], other[s \ {C(s)}]>>]
  <2>1. s \in SUBSET S /\ s \in SUBSET D
    OBVIOUS
  <2> QED BY <2>1 DEF IsFold
<1>4. s # {} /\ C(s) \in s
  BY <1>3
<1>5. s \ {C(s)} \notin U
  BY <1>2, <1>4
<1>6. fold[s \ {C(s)}] = other[s \ {C(s)}] /\ f[C(s)] = g[C(s)]
  BY <1>4, <1>5
<1> QED BY <1>3, <1>4, <1>6

LeftCommutes(op) ==
    /\ op \in [Field \X Field -> Field]
    /\ \A x, y, z \in Field : op[<<x, op[<<y, z>>]>>] = op[<<y, op[<<x, z>>]>>]

FieldFold(fold, op, b, f, S) ==
    /\ IsFiniteSet(S) /\ b \in Field /\ LeftCommutes(op) /\ f \in [S -> Field]
    /\ fold \in [SUBSET S -> Field] /\ IsFold(fold, op, b, f, S)

AnyLast(fold, op, f, S) == \A s \in SUBSET S : \A a \in s : fold[s] = op[<<f[a], fold[s \ {a}]>>]

\* ... and where the order of operands is nothing to op, any element may be last.
LEMMA FoldOrder ==
    ASSUME NEW S, NEW b, NEW op, NEW f, NEW fold, FieldFold(fold, op, b, f, S)
    PROVE  AnyLast(fold, op, f, S)
<1> DEFINE C(s) == CHOOSE x \in s : TRUE
           U == {s \in SUBSET S : \E a \in s : fold[s] # op[<<f[a], fold[s \ {a}]>>]}
<1> USE DEF FieldFold
<1> SUFFICES ASSUME U # {} PROVE FALSE
  BY DEF AnyLast
<1>1. U \subseteq FiniteSubsetsOf(S)
  <2>1. \A s \in SUBSET S : IsFiniteSet(s)
    BY FS_Subset
  <2> QED BY <2>1 DEF FiniteSubsetsOf
<1>2. PICK s \in U : \A t \in U : t \subseteq s => t = s
  <2> HIDE DEF U
  <2> QED BY <1>1, SmallestSet
<1>3. PICK a \in s : fold[s] # op[<<f[a], fold[s \ {a}]>>]
  OBVIOUS
<1>4. PICK c \in s : c = C(s)
  OBVIOUS
<1>5. \A t \in SUBSET S : t # {} => fold[t] = op[<<f[C(t)], fold[t \ {C(t)}]>>]
  BY DEF IsFold
<1>6. fold[s] = op[<<f[c], fold[s \ {c}]>>] /\ c # a
  BY <1>3, <1>4, <1>5
<1>7. s \ {c} \notin U /\ s \ {a} \notin U
  BY <1>2, <1>6
<1>8. fold[s \ {c}] = op[<<f[a], fold[(s \ {c}) \ {a}]>>]
  BY <1>6, <1>7
<1>9. fold[s \ {a}] = op[<<f[c], fold[(s \ {a}) \ {c}]>>]
  BY <1>6, <1>7
<1>10. (s \ {c}) \ {a} = (s \ {a}) \ {c}
  OBVIOUS
<1>11. PICK z \in Field : z = fold[(s \ {a}) \ {c}]
  OBVIOUS
<1>12. op[<<f[c], op[<<f[a], z>>]>>] = op[<<f[a], op[<<f[c], z>>]>>]
  BY <1>3, <1>4 DEF LeftCommutes
<1> QED BY <1>3, <1>6, <1>8, <1>9, <1>10, <1>11, <1>12

\* A part of S is in T when all smaller ones are.
Inherits(S, T) == \A s \in SUBSET S : (\A t \in SUBSET s : t # s => t \in T) => s \in T

\* What holds of a set when it holds of all smaller ones holds of all.
LEMMA StrongSetInduction ==
    ASSUME NEW S, IsFiniteSet(S), NEW T, Inherits(S, T)
    PROVE  SUBSET S \subseteq T
<1> USE DEF Inherits
<1> DEFINE U == (SUBSET S) \ T
<1> SUFFICES ASSUME U # {} PROVE FALSE
  OBVIOUS
<1>1. U \subseteq FiniteSubsetsOf(S)
  <2>1. \A s \in SUBSET S : IsFiniteSet(s)
    BY FS_Subset
  <2> QED BY <2>1 DEF FiniteSubsetsOf
<1>2. PICK s \in U : \A t \in U : t \subseteq s => t = s
  <2> HIDE DEF U
  <2> QED BY <1>1, SmallestSet
<1>3. \A t \in SUBSET s : t # s => t \in T
  BY <1>2
<1> QED BY <1>3

Plus == [p \in Field \X Field |-> FieldAdd(p[1], p[2])]
Times == [p \in Field \X Field |-> FieldMul(p[1], p[2])]

\* Both operations, as functions on pairs, commute from the left.
LEMMA PlusTimes ==
    /\ Plus \in [Field \X Field -> Field] /\ Times \in [Field \X Field -> Field]
    /\ \A a, b \in Field : Plus[<<a, b>>] = FieldAdd(a, b) /\ Times[<<a, b>>] = FieldMul(a, b)
    /\ \A x, y, z \in Field : Plus[<<x, Plus[<<y, z>>]>>] = Plus[<<y, Plus[<<x, z>>]>>]
    /\ \A x, y, z \in Field : Times[<<x, Times[<<y, z>>]>>] = Times[<<y, Times[<<x, z>>]>>]
<1>1. Plus \in [Field \X Field -> Field] /\ Times \in [Field \X Field -> Field]
  BY FieldTyped DEF Plus, Times
<1>2. \A a, b \in Field : Plus[<<a, b>>] = FieldAdd(a, b) /\ Times[<<a, b>>] = FieldMul(a, b)
  BY DEF Plus, Times
<1>3. ASSUME NEW x \in Field, NEW y \in Field, NEW z \in Field
      PROVE  FieldAdd(x, FieldAdd(y, z)) = FieldAdd(y, FieldAdd(x, z))
  <2>1. FieldAdd(FieldAdd(x, y), z) = FieldAdd(x, FieldAdd(y, z)) /\ FieldAdd(x, y) = FieldAdd(y, x)
    BY AddLaws
  <2>2. FieldAdd(FieldAdd(y, x), z) = FieldAdd(y, FieldAdd(x, z))
    BY AddLaws
  <2> QED BY <2>1, <2>2
<1>4. ASSUME NEW x \in Field, NEW y \in Field, NEW z \in Field
      PROVE  FieldMul(x, FieldMul(y, z)) = FieldMul(y, FieldMul(x, z))
  <2>1. FieldMul(x, FieldMul(y, z)) = FieldMul(FieldMul(x, y), z) /\ FieldMul(x, y) = FieldMul(y, x)
    BY FieldTyped, MulAssociates, MulCommutes
  <2>2. FieldMul(y, FieldMul(x, z)) = FieldMul(FieldMul(y, x), z)
    BY FieldTyped, MulAssociates
  <2> QED BY <2>1, <2>2
<1>5. \A a, b \in Field : FieldAdd(a, b) \in Field /\ FieldMul(a, b) \in Field
  BY FieldTyped
<1>6. ASSUME NEW x \in Field, NEW y \in Field, NEW z \in Field
      PROVE  Plus[<<x, Plus[<<y, z>>]>>] = Plus[<<y, Plus[<<x, z>>]>>]
  <2>1. Plus[<<y, z>>] = FieldAdd(y, z) /\ Plus[<<x, z>>] = FieldAdd(x, z)
    BY <1>2
  <2>2. Plus[<<x, FieldAdd(y, z)>>] = FieldAdd(x, FieldAdd(y, z)) /\ Plus[<<y, FieldAdd(x, z)>>] = FieldAdd(y, FieldAdd(x, z))
    BY <1>2, <1>5
  <2> QED BY <1>3, <2>1, <2>2
<1>7. ASSUME NEW x \in Field, NEW y \in Field, NEW z \in Field
      PROVE  Times[<<x, Times[<<y, z>>]>>] = Times[<<y, Times[<<x, z>>]>>]
  <2>1. Times[<<y, z>>] = FieldMul(y, z) /\ Times[<<x, z>>] = FieldMul(x, z)
    BY <1>2
  <2>2. Times[<<x, FieldMul(y, z)>>] = FieldMul(x, FieldMul(y, z)) /\ Times[<<y, FieldMul(x, z)>>] = FieldMul(y, FieldMul(x, z))
    BY <1>2, <1>5
  <2> QED BY <1>4, <2>1, <2>2
<1> QED BY <1>1, <1>2, <1>6, <1>7

\* FieldSum is a fold, ...
LEMMA SumIsFold ==
    ASSUME NEW S, IsFiniteSet(S), NEW f \in [S -> Field]
    PROVE  \E fold \in [SUBSET S -> Field] : IsFold(fold, Plus, 0, f, S) /\ FieldSum(f) = fold[S]
<1> DEFINE C(s) == CHOOSE x \in s : TRUE
           Eq(g) == g = [s \in SUBSET S |-> IF s = {} THEN 0 ELSE FieldAdd(f[C(s)], g[s \ {C(s)}])]
           T(g) == {s \in SUBSET S : g[s] \in Field}
<1>1. PICK fold \in [SUBSET S -> Field] : IsFold(fold, Plus, 0, f, S)
  BY FoldExists, FieldTyped, PlusTimes
<1>2. \A s \in SUBSET S : s # {} => C(s) \in s /\ f[C(s)] \in Field /\ s \ {C(s)} \in SUBSET S
  OBVIOUS
<1>3. Eq(fold)
  <2>1. \A s \in SUBSET S : s # {} => Plus[<<f[C(s)], fold[s \ {C(s)}]>>] = FieldAdd(f[C(s)], fold[s \ {C(s)}])
    BY <1>1, <1>2, PlusTimes
  <2> QED BY <1>1, <2>1 DEF IsFold
<1>4. FieldSum(f) = (CHOOSE g : g = [s \in SUBSET DOMAIN f |->
                        IF s = {} THEN 0
                        ELSE FieldAdd(f[CHOOSE x \in s : TRUE], g[s \ {CHOOSE x \in s : TRUE}])])[DOMAIN f]
  BY Zenon DEF FieldSum, FoldFunction, FoldFunctionOnSet, MapThenFoldSet
<1>5. PICK g : Eq(g) /\ FieldSum(f) = g[S]
  <2> DEFINE h == CHOOSE g : Eq(g)
  <2>1. Eq(h)
    BY <1>3
  <2>2. FieldSum(f) = h[S]
    <3>1. DOMAIN f = S
      OBVIOUS
    <3> QED BY <1>4, <3>1
  <2> QED BY <2>1, <2>2
<1>6. SUBSET S \subseteq T(g)
  <2>1. ASSUME NEW s \in SUBSET S, \A t \in SUBSET s : t # s => t \in T(g) PROVE s \in T(g)
    <3>1. CASE s = {}
      BY <1>5, <3>1, FieldTyped
    <3>2. CASE s # {}
      <4>1. s \ {C(s)} \in T(g)
        BY <1>2, <2>1, <3>2
      <4>2. g[s] = FieldAdd(f[C(s)], g[s \ {C(s)}])
        BY <1>5, <3>2
      <4>3. PICK u \in Field, v \in Field : u = f[C(s)] /\ v = g[s \ {C(s)}]
        BY <1>2, <3>2, <4>1
      <4>4. g[s] \in Field
        BY <4>2, <4>3, FieldTyped
      <4> QED BY <4>4
    <3> QED BY <3>1, <3>2
  <2> DEFINE U == T(g)
  <2>2. Inherits(S, U)
    BY <2>1 DEF Inherits
  <2> HIDE DEF U
  <2>3. SUBSET S \subseteq U
    BY <2>2, StrongSetInduction
  <2> QED BY <2>3 DEF U
<1>7. g \in [SUBSET S -> Field]
  BY <1>5, <1>6
<1>8. IsFold(g, Plus, 0, f, S)
  <2>1. \A s \in SUBSET S : s # {} => Plus[<<f[C(s)], g[s \ {C(s)}]>>] = FieldAdd(f[C(s)], g[s \ {C(s)}])
    BY <1>2, <1>7, PlusTimes
  <2> QED BY <1>5, <2>1 DEF IsFold
<1> QED BY <1>5, <1>7, <1>8

\* ... and so is FieldProduct.
LEMMA ProductIsFold ==
    ASSUME NEW S, IsFiniteSet(S), NEW f \in [S -> Field]
    PROVE  \E fold \in [SUBSET S -> Field] : IsFold(fold, Times, 1, f, S) /\ FieldProduct(f) = fold[S]
<1> DEFINE C(s) == CHOOSE x \in s : TRUE
           Eq(g) == g = [s \in SUBSET S |-> IF s = {} THEN 1 ELSE FieldMul(f[C(s)], g[s \ {C(s)}])]
           T(g) == {s \in SUBSET S : g[s] \in Field}
<1>1. PICK fold \in [SUBSET S -> Field] : IsFold(fold, Times, 1, f, S)
  BY FoldExists, FieldTyped, PlusTimes
<1>2. \A s \in SUBSET S : s # {} => C(s) \in s /\ f[C(s)] \in Field /\ s \ {C(s)} \in SUBSET S
  OBVIOUS
<1>3. Eq(fold)
  <2>1. \A s \in SUBSET S : s # {} => Times[<<f[C(s)], fold[s \ {C(s)}]>>] = FieldMul(f[C(s)], fold[s \ {C(s)}])
    BY <1>1, <1>2, PlusTimes
  <2> QED BY <1>1, <2>1 DEF IsFold
<1>4. FieldProduct(f) = (CHOOSE g : g = [s \in SUBSET DOMAIN f |->
                        IF s = {} THEN 1
                        ELSE FieldMul(f[CHOOSE x \in s : TRUE], g[s \ {CHOOSE x \in s : TRUE}])])[DOMAIN f]
  BY Zenon DEF FieldProduct, FoldFunction, FoldFunctionOnSet, MapThenFoldSet
<1>5. PICK g : Eq(g) /\ FieldProduct(f) = g[S]
  <2> DEFINE h == CHOOSE g : Eq(g)
  <2>1. Eq(h)
    BY <1>3
  <2>2. FieldProduct(f) = h[S]
    <3>1. DOMAIN f = S
      OBVIOUS
    <3> QED BY <1>4, <3>1
  <2> QED BY <2>1, <2>2
<1>6. SUBSET S \subseteq T(g)
  <2>1. ASSUME NEW s \in SUBSET S, \A t \in SUBSET s : t # s => t \in T(g) PROVE s \in T(g)
    <3>1. CASE s = {}
      BY <1>5, <3>1, FieldTyped
    <3>2. CASE s # {}
      <4>1. s \ {C(s)} \in T(g)
        BY <1>2, <2>1, <3>2
      <4>2. g[s] = FieldMul(f[C(s)], g[s \ {C(s)}])
        BY <1>5, <3>2
      <4>3. PICK u \in Field, v \in Field : u = f[C(s)] /\ v = g[s \ {C(s)}]
        BY <1>2, <3>2, <4>1
      <4>4. g[s] \in Field
        BY <4>2, <4>3, FieldTyped
      <4> QED BY <4>4
    <3> QED BY <3>1, <3>2
  <2> DEFINE U == T(g)
  <2>2. Inherits(S, U)
    BY <2>1 DEF Inherits
  <2> HIDE DEF U
  <2>3. SUBSET S \subseteq U
    BY <2>2, StrongSetInduction
  <2> QED BY <2>3 DEF U
<1>7. g \in [SUBSET S -> Field]
  BY <1>5, <1>6
<1>8. IsFold(g, Times, 1, f, S)
  <2>1. \A s \in SUBSET S : s # {} => Times[<<f[C(s)], g[s \ {C(s)}]>>] = FieldMul(f[C(s)], g[s \ {C(s)}])
    BY <1>2, <1>7, PlusTimes
  <2> QED BY <1>5, <2>1 DEF IsFold
<1> QED BY <1>5, <1>7, <1>8

\* Any summand may be split off a sum.
LEMMA SumFacts ==
    ASSUME NEW S, IsFiniteSet(S), NEW f \in [S -> Field]
    PROVE  /\ FieldSum(f) \in Field
           /\ S = {} => FieldSum(f) = 0
           /\ \A a \in S : FieldSum(f) = FieldAdd(f[a], FieldSum([x \in S \ {a} |-> f[x]]))
<1>1. PICK fold \in [SUBSET S -> Field] : IsFold(fold, Plus, 0, f, S) /\ FieldSum(f) = fold[S]
  BY SumIsFold
<1>2. S \in SUBSET S /\ (S = {} => fold[S] = 0)
  BY <1>1 DEF IsFold
<1>3. ASSUME NEW a \in S
      PROVE  FieldSum(f) = FieldAdd(f[a], FieldSum([x \in S \ {a} |-> f[x]]))
  <2>1. PICK R : R = S \ {a} /\ R \in SUBSET S /\ IsFiniteSet(R)
    <3>1. IsFiniteSet(S \ {a})
      BY FS_Subset
    <3> QED BY <3>1
  <2>2. PICK g \in [R -> Field] : g = [x \in R |-> f[x]]
    BY <2>1
  <2>3. PICK other \in [SUBSET R -> Field] : IsFold(other, Plus, 0, g, R) /\ FieldSum(g) = other[R]
    <3>1. IsFiniteSet(R)
      BY <2>1
    <3> QED BY <3>1, SumIsFold
  <2>4. \A s \in SUBSET R : fold[s] = other[s]
    <3>1. R \in SUBSET S /\ \A x \in R : f[x] = g[x]
      BY <2>1, <2>2
    <3> QED BY <1>1, <2>3, <3>1, FoldUnique
  <2>5. fold[S] = Plus[<<f[a], fold[S \ {a}]>>]
    <3>1. 0 \in Field
      BY FieldTyped
    <3>2. LeftCommutes(Plus)
      BY PlusTimes DEF LeftCommutes
    <3>3. IsFold(fold, Plus, 0, f, S)
      BY <1>1
    <3>4. FieldFold(fold, Plus, 0, f, S)
      BY <1>1, <3>1, <3>2, <3>3 DEF FieldFold
    <3>5. AnyLast(fold, Plus, f, S)
      BY <3>4, FoldOrder
    <3> QED BY <1>2, <3>5 DEF AnyLast
  <2>6. fold[S] = FieldAdd(f[a], fold[R])
    <3>1. PICK u \in Field, v \in Field : u = f[a] /\ v = fold[R]
      BY <2>1
    <3>2. Plus[<<u, v>>] = FieldAdd(u, v)
      BY PlusTimes
    <3> QED BY <2>1, <2>5, <3>1, <3>2
  <2> QED BY <1>1, <2>1, <2>2, <2>3, <2>4, <2>6
<1> QED BY <1>1, <1>2, <1>3

\* Any factor may be split off a product.
LEMMA ProductFacts ==
    ASSUME NEW S, IsFiniteSet(S), NEW f \in [S -> Field]
    PROVE  /\ FieldProduct(f) \in Field
           /\ S = {} => FieldProduct(f) = 1
           /\ \A a \in S : FieldProduct(f) = FieldMul(f[a], FieldProduct([x \in S \ {a} |-> f[x]]))
<1>1. PICK fold \in [SUBSET S -> Field] : IsFold(fold, Times, 1, f, S) /\ FieldProduct(f) = fold[S]
  BY ProductIsFold
<1>2. S \in SUBSET S /\ (S = {} => fold[S] = 1)
  BY <1>1 DEF IsFold
<1>3. ASSUME NEW a \in S
      PROVE  FieldProduct(f) = FieldMul(f[a], FieldProduct([x \in S \ {a} |-> f[x]]))
  <2>1. PICK R : R = S \ {a} /\ R \in SUBSET S /\ IsFiniteSet(R)
    <3>1. IsFiniteSet(S \ {a})
      BY FS_Subset
    <3> QED BY <3>1
  <2>2. PICK g \in [R -> Field] : g = [x \in R |-> f[x]]
    BY <2>1
  <2>3. PICK other \in [SUBSET R -> Field] : IsFold(other, Times, 1, g, R) /\ FieldProduct(g) = other[R]
    <3>1. IsFiniteSet(R)
      BY <2>1
    <3> QED BY <3>1, ProductIsFold
  <2>4. \A s \in SUBSET R : fold[s] = other[s]
    <3>1. R \in SUBSET S /\ \A x \in R : f[x] = g[x]
      BY <2>1, <2>2
    <3> QED BY <1>1, <2>3, <3>1, FoldUnique
  <2>5. fold[S] = Times[<<f[a], fold[S \ {a}]>>]
    <3>1. 1 \in Field
      BY FieldTyped
    <3>2. LeftCommutes(Times)
      BY PlusTimes DEF LeftCommutes
    <3>3. IsFold(fold, Times, 1, f, S)
      BY <1>1
    <3>4. FieldFold(fold, Times, 1, f, S)
      BY <1>1, <3>1, <3>2, <3>3 DEF FieldFold
    <3>5. AnyLast(fold, Times, f, S)
      BY <3>4, FoldOrder
    <3> QED BY <1>2, <3>5 DEF AnyLast
  <2>6. fold[S] = FieldMul(f[a], fold[R])
    <3>1. PICK u \in Field, v \in Field : u = f[a] /\ v = fold[R]
      BY <2>1
    <3>2. Times[<<u, v>>] = FieldMul(u, v)
      BY PlusTimes
    <3> QED BY <2>1, <2>5, <3>1, <3>2
  <2> QED BY <1>1, <2>1, <2>2, <2>3, <2>4, <2>6
<1> QED BY <1>1, <1>2, <1>3

\* What a sum runs over: the values of f on a part of its domain.
Part(f, s) == FieldSum([x \in s |-> f[x]])

\* SumFacts for every part of a domain.
LEMMA PartFacts ==
    ASSUME NEW S, IsFiniteSet(S), NEW f \in [S -> Field]
    PROVE  /\ FieldSum(f) = Part(f, S)
           /\ \A s \in SUBSET S : /\ Part(f, s) \in Field
                                  /\ s = {} => Part(f, s) = 0
                                  /\ \A a \in s : Part(f, s) = FieldAdd(f[a], Part(f, s \ {a}))
<1>1. FieldSum(f) = Part(f, S)
  <2>1. f = [x \in S |-> f[x]]
    OBVIOUS
  <2> QED BY <2>1 DEF Part
<1>2. ASSUME NEW s \in SUBSET S
      PROVE  /\ Part(f, s) \in Field
             /\ s = {} => Part(f, s) = 0
             /\ \A a \in s : Part(f, s) = FieldAdd(f[a], Part(f, s \ {a}))
  <2>1. PICK g \in [s -> Field] : g = [x \in s |-> f[x]]
    OBVIOUS
  <2>2. IsFiniteSet(s)
    BY FS_Subset
  <2>3. /\ FieldSum(g) \in Field
        /\ s = {} => FieldSum(g) = 0
        /\ \A a \in s : FieldSum(g) = FieldAdd(g[a], FieldSum([x \in s \ {a} |-> g[x]]))
    BY <2>2, SumFacts
  <2>4. ASSUME NEW a \in s PROVE FieldSum(g) = FieldAdd(f[a], Part(f, s \ {a}))
    <3>1. [x \in s \ {a} |-> g[x]] = [x \in s \ {a} |-> f[x]] /\ g[a] = f[a]
      BY <2>1
    <3>2. FieldSum(g) = FieldAdd(g[a], FieldSum([x \in s \ {a} |-> g[x]]))
      BY <2>3
    <3> QED BY <3>1, <3>2 DEF Part
  <2>5. FieldSum(g) = Part(f, s)
    BY <2>1 DEF Part
  <2> QED BY <2>3, <2>4, <2>5
<1> QED BY <1>1, <1>2

\* Four summands in another order.
LEMMA Swap ==
    ASSUME NEW a \in Field, NEW b \in Field, NEW c \in Field, NEW d \in Field
    PROVE  FieldAdd(FieldAdd(a, b), FieldAdd(c, d)) = FieldAdd(FieldAdd(a, c), FieldAdd(b, d))
<1>1. PICK u \in Field, v \in Field : u = FieldAdd(c, d) /\ v = FieldAdd(b, d)
  BY FieldTyped
<1>2. FieldAdd(FieldAdd(a, b), u) = FieldAdd(a, FieldAdd(b, u))
  BY AddLaws
<1>3. FieldAdd(FieldAdd(a, c), v) = FieldAdd(a, FieldAdd(c, v))
  BY AddLaws
<1>4. FieldAdd(b, u) = FieldAdd(FieldAdd(b, c), d) /\ FieldAdd(c, v) = FieldAdd(FieldAdd(c, b), d)
  BY <1>1, AddLaws
<1>5. FieldAdd(b, c) = FieldAdd(c, b)
  BY AddLaws
<1> QED BY <1>1, <1>2, <1>3, <1>4, <1>5

\* A sum is linear in what it sums.
LEMMA SumLinear ==
    ASSUME NEW S, IsFiniteSet(S), NEW r \in Field,
           NEW f \in [S -> Field], NEW g \in [S -> Field], NEW h \in [S -> Field],
           \A x \in S : h[x] = FieldAdd(f[x], FieldMul(r, g[x]))
    PROVE  FieldSum(h) = FieldAdd(FieldSum(f), FieldMul(r, FieldSum(g)))
<1> DEFINE T == {s \in SUBSET S : Part(h, s) = FieldAdd(Part(f, s), FieldMul(r, Part(g, s)))}
<1>1. ASSUME NEW s \in SUBSET S, \A t \in SUBSET s : t # s => t \in T PROVE s \in T
  <2>1. CASE s = {}
    <3>1. Part(h, s) = 0 /\ Part(f, s) = 0 /\ Part(g, s) = 0
      BY <2>1, PartFacts
    <3>2. FieldAdd(0, FieldMul(r, 0)) = 0
      BY FieldTyped, AddLaws, MulUnits
    <3> QED BY <3>1, <3>2
  <2>2. CASE s # {}
    <3>1. PICK a \in s : TRUE
      BY <2>2
    <3>2. PICK t \in SUBSET S : t = s \ {a} /\ t \in T
      <4>1. s \ {a} \in SUBSET s /\ s \ {a} # s /\ s \ {a} \in SUBSET S
        BY <3>1
      <4> HIDE DEF T
      <4>2. s \ {a} \in T
        BY <1>1, <4>1
      <4> QED BY <4>1, <4>2
    <3>3. PICK u \in Field, v \in Field : u = Part(f, t) /\ v = Part(g, t)
      BY PartFacts
    <3>4. PICK fa \in Field, ga \in Field : fa = f[a] /\ ga = g[a]
      OBVIOUS
    <3>5. /\ Part(h, s) = FieldAdd(h[a], Part(h, t))
          /\ Part(f, s) = FieldAdd(fa, u)
          /\ Part(g, s) = FieldAdd(ga, v)
      BY <3>2, <3>3, <3>4, PartFacts
    <3>6. Part(h, t) = FieldAdd(u, FieldMul(r, v))
      BY <3>2, <3>3
    <3>7. h[a] = FieldAdd(fa, FieldMul(r, ga))
      BY <3>4
    <3>8. PICK x \in Field, y \in Field : x = FieldMul(r, ga) /\ y = FieldMul(r, v)
      BY FieldTyped
    <3>9. FieldAdd(FieldAdd(fa, x), FieldAdd(u, y)) = FieldAdd(FieldAdd(fa, u), FieldAdd(x, y))
      BY Swap
    <3>10. FieldMul(r, FieldAdd(ga, v)) = FieldAdd(x, y)
      BY <3>8, Distributes
    <3> QED BY <3>5, <3>6, <3>7, <3>8, <3>9, <3>10
  <2> QED BY <2>1, <2>2
<1>2. SUBSET S \subseteq T
  <2>1. Inherits(S, T)
    BY <1>1 DEF Inherits
  <2> HIDE DEF T
  <2> QED BY <2>1, StrongSetInduction
<1>3. S \in T
  BY <1>2
<1> QED BY <1>3, PartFacts

\* Summands that are 0 may be left out, ...
LEMMA SumZero ==
    ASSUME NEW S, IsFiniteSet(S), NEW f \in [S -> Field], \A x \in S : f[x] = 0
    PROVE  FieldSum(f) = 0
<1>1. \A x \in S : f[x] = FieldAdd(f[x], FieldMul(1, f[x]))
  BY FieldTyped, AddLaws, MulUnits
<1>2. PICK u \in Field : u = FieldSum(f)
  BY SumFacts
<1>3. u = FieldAdd(u, FieldMul(1, u))
  BY <1>1, <1>2, FieldTyped, SumLinear
<1>4. FieldMul(1, u) = u /\ FieldAdd(0, u) = u
  BY FieldTyped, AddLaws, MulUnits
<1>5. FieldAdd(u, u) = FieldAdd(0, u)
  BY <1>3, <1>4
<1> QED BY <1>2, <1>5, FieldTyped, Cancel

\* ... and a factor of all of them may be taken out.
LEMMA SumScaled ==
    ASSUME NEW S, IsFiniteSet(S), NEW r \in Field, NEW g \in [S -> Field], NEW h \in [S -> Field],
           \A x \in S : h[x] = FieldMul(r, g[x])
    PROVE  FieldSum(h) = FieldMul(r, FieldSum(g))
<1> DEFINE f == [x \in S |-> 0]
<1>1. f \in [S -> Field] /\ \A x \in S : f[x] = 0
  BY FieldTyped
<1> HIDE DEF f
<1>2. \A x \in S : h[x] = FieldAdd(f[x], FieldMul(r, g[x]))
  <2> SUFFICES ASSUME NEW x \in S PROVE h[x] = FieldAdd(f[x], FieldMul(r, g[x]))
    OBVIOUS
  <2>1. FieldAdd(0, h[x]) = h[x]
    BY FieldTyped, AddLaws
  <2> QED BY <1>1, <2>1
<1>3. FieldSum(h) = FieldAdd(FieldSum(f), FieldMul(r, FieldSum(g)))
  BY <1>1, <1>2, SumLinear
<1>4. FieldSum(f) = 0
  BY <1>1, SumZero
<1>5. FieldMul(r, FieldSum(g)) \in Field
  BY FieldTyped, SumFacts
<1> QED BY <1>3, <1>4, <1>5, FieldTyped, AddLaws

-----------------------------------------------------------------------------
(* Powers.                                                                 *)

Powers(g, x, n) == g \in [0..n -> Nat] /\ g[0] = 1 /\ \A i \in 0..n - 1 : g[i + 1] = x * g[i]

\* The first n powers exist, ...
LEMMA PowersExist ==
    ASSUME NEW x \in Nat
    PROVE  \A n \in Nat : \E g : Powers(g, x, n)
<1> DEFINE T == {n \in Nat : \E g : Powers(g, x, n)}
<1>1. 0 \in T
  <2>1. Powers([i \in 0..0 |-> 1], x, 0)
    BY DEF Powers
  <2> QED BY <2>1
<1>2. ASSUME NEW n \in Nat, n \in T PROVE n + 1 \in T
  <2>1. PICK g : Powers(g, x, n)
    BY <1>2
  <2> DEFINE h == [i \in 0..n + 1 |-> IF i <= n THEN g[i] ELSE x * g[n]]
  <2>2. Powers(h, x, n + 1)
    <3>1. PICK y \in Nat : y = x * g[n]
      <4>1. g[n] \in Nat
        BY <2>1 DEF Powers
      <4>2. \A u, v \in Nat : u * v \in Nat
        OBVIOUS
      <4> QED BY <4>1, <4>2
    <3>2. h \in [0..n + 1 -> Nat] /\ h[0] = 1
      BY <2>1, <3>1 DEF Powers
    <3>3. ASSUME NEW i \in 0..n PROVE h[i + 1] = x * h[i]
      <4>1. CASE i = n
        BY <3>1, <4>1
      <4>2. CASE i # n
        <5>1. i \in 0..n - 1 /\ i + 1 <= n
          BY <4>2
        <5>2. h[i + 1] = g[i + 1] /\ h[i] = g[i]
          BY <5>1
        <5>3. g[i + 1] = x * g[i]
          BY <2>1, <5>1 DEF Powers
        <5> QED BY <5>2, <5>3
      <4> QED BY <4>1, <4>2
    <3>4. (n + 1) - 1 = n
      OBVIOUS
    <3> HIDE DEF h
    <3> QED BY <3>2, <3>3, <3>4 DEF Powers
  <2> QED BY <2>2
<1>3. Nat \subseteq T
  <2> HIDE DEF T
  <2> QED BY <1>1, <1>2, NumberInduction
<1> QED BY <1>3

\* ... more of them do not change the first ones, ...
LEMMA PowersAgree ==
    ASSUME NEW x \in Nat, NEW m \in Nat, NEW n \in Nat, m <= n, NEW g, Powers(g, x, m), NEW h, Powers(h, x, n)
    PROVE  \A i \in 0..m : g[i] = h[i]
<1> DEFINE U == {i \in 0..m : g[i] # h[i]}
<1> SUFFICES ASSUME U # {} PROVE FALSE
  OBVIOUS
<1>1. PICK i \in U : \A j \in U : i <= j
  <2>1. U \subseteq Nat
    OBVIOUS
  <2> HIDE DEF U
  <2> QED BY <2>1, SmallestNumber
<1>2. i # 0
  BY DEF Powers
<1>3. PICK j \in 0..m - 1 : i = j + 1
  BY <1>2
<1>4. j \in 0..m /\ j \notin U
  BY <1>1, <1>3
<1>5. g[j] = h[j]
  BY <1>4
<1>6. g[i] = x * g[j] /\ h[i] = x * h[j]
  BY <1>3 DEF Powers
<1> QED BY <1>5, <1>6

\* ... and so there is one function of all of them, which Pow applies.
LEMMA PowFacts ==
    ASSUME NEW x \in Nat
    PROVE  /\ Pow(x, 0) = 1
           /\ \A i \in Nat : Pow(x, i) \in Nat /\ Pow(x, i + 1) = x * Pow(x, i)
<1> DEFINE p(n) == CHOOSE g : Powers(g, x, n)
           power == [n \in Nat |-> p(n)[n]]
           Eq(q) == q = [i \in Nat |-> IF i = 0 THEN 1 ELSE x * q[i - 1]]
           T(q) == {i \in Nat : q[i] \in Nat}
<1>1. \A n \in Nat : Powers(p(n), x, n)
  BY PowersExist
<1>2. ASSUME NEW n \in Nat PROVE power[n] = IF n = 0 THEN 1 ELSE x * power[n - 1]
  <2>1. CASE n = 0
    BY <1>1, <2>1 DEF Powers
  <2>2. CASE n # 0
    <3>1. n - 1 \in Nat /\ n - 1 \in 0..n - 1 /\ (n - 1) + 1 = n
      BY <2>2
    <3>2. PICK g, h : g = p(n) /\ h = p(n - 1) /\ Powers(g, x, n) /\ Powers(h, x, n - 1)
      BY <1>1, <3>1
    <3>3. h[n - 1] = g[n - 1]
      <4>1. \A i \in 0..n - 1 : h[i] = g[i]
        BY <3>1, <3>2, PowersAgree
      <4> QED BY <3>1, <4>1
    <3>4. g[n] = x * g[n - 1]
      <4>1. g[(n - 1) + 1] = x * g[n - 1]
        BY <3>1, <3>2 DEF Powers
      <4> QED BY <3>1, <4>1
    <3>5. power[n] = g[n] /\ power[n - 1] = h[n - 1]
      BY <3>1, <3>2
    <3> QED BY <2>2, <3>3, <3>4, <3>5
  <2> QED BY <2>1, <2>2
<1>3. Eq(power)
  <2> HIDE DEF p
  <2> QED BY <1>2
<1>4. PICK q : Eq(q) /\ q = PowersOf(x)
  <2>1. PowersOf(x) = CHOOSE q : Eq(q)
    BY Zenon DEF PowersOf
  <2>2. Eq(CHOOSE q : Eq(q))
    <3> HIDE DEF Eq, power
    <3> QED BY <1>3
  <2> QED BY <2>1, <2>2
<1>5. q[0] = 1 /\ \A i \in Nat : q[i + 1] = x * q[i]
  <2>1. \A i \in Nat : q[i] = IF i = 0 THEN 1 ELSE x * q[i - 1]
    BY <1>4
  <2>2. \A i \in Nat : i + 1 \in Nat /\ i + 1 # 0 /\ (i + 1) - 1 = i
    OBVIOUS
  <2> HIDE DEF Eq
  <2> QED BY <2>1, <2>2
<1>6. Nat \subseteq T(q)
  <2>1. 0 \in T(q)
    BY <1>5
  <2>2. ASSUME NEW n \in Nat, n \in T(q) PROVE n + 1 \in T(q)
    <3>1. \A u, v \in Nat : u * v \in Nat
      OBVIOUS
    <3> QED BY <1>5, <2>2, <3>1
  <2> DEFINE U == T(q)
  <2>3. 0 \in U /\ \A n \in Nat : n \in U => n + 1 \in U
    BY <2>1, <2>2
  <2> HIDE DEF U
  <2>4. Nat \subseteq U
    BY <2>3, NumberInduction
  <2> QED BY <2>4 DEF U
<1> QED BY <1>4, <1>5, <1>6 DEF Pow

-----------------------------------------------------------------------------
(* Polynomials.                                                            *)

Terms(c, x) == [i \in DOMAIN c |-> FieldMul(c[i], Pow(x, i))]

\* The terms of a polynomial and its value are in the field.
LEMMA TermsTyped ==
    ASSUME NEW n \in Nat, NEW c \in [0..n -> Field], NEW x \in Field
    PROVE  /\ Terms(c, x) \in [0..n -> Field] /\ IsFiniteSet(0..n)
           /\ \A i \in 0..n : Terms(c, x)[i] = FieldMul(c[i], Pow(x, i)) /\ Pow(x, i) \in Int
           /\ Polynomial(c, x) = FieldSum(Terms(c, x)) /\ Polynomial(c, x) \in Field
<1>1. x \in Nat
  BY ModAssumption DEF Field
<1>2. \A i \in 0..n : Pow(x, i) \in Nat /\ Pow(x, i) \in Int
  <2>1. \A i \in 0..n : i \in Nat
    OBVIOUS
  <2>2. \A i \in 0..n : Pow(x, i) \in Nat
    BY <1>1, <2>1, PowFacts
  <2> QED BY <2>2
<1>3. Terms(c, x) \in [0..n -> Field]
  BY <1>2, FieldTyped DEF Terms
<1>4. IsFiniteSet(0..n)
  BY FS_Interval
<1>5. Polynomial(c, x) = FieldSum(Terms(c, x))
  BY DEF Polynomial, Terms
<1>6. FieldSum(Terms(c, x)) \in Field
  BY <1>3, <1>4, SumFacts
<1>7. \A i \in 0..n : Terms(c, x)[i] = FieldMul(c[i], Pow(x, i))
  BY DEF Terms
<1> QED BY <1>2, <1>3, <1>4, <1>5, <1>6, <1>7

\* The coefficients e are c + r * d.
Combined(e, c, r, d, n) ==
    /\ n \in Nat /\ r \in Field
    /\ c \in [0..n -> Field] /\ d \in [0..n -> Field] /\ e \in [0..n -> Field]
    /\ \A i \in 0..n : e[i] = FieldAdd(c[i], FieldMul(r, d[i]))

\* A polynomial is linear in its coefficients.
LEMMA PolynomialLinear ==
    ASSUME NEW n, NEW x \in Field, NEW r, NEW c, NEW d, NEW e, Combined(e, c, r, d, n)
    PROVE  Polynomial(e, x) = FieldAdd(Polynomial(c, x), FieldMul(r, Polynomial(d, x)))
<1> USE DEF Combined
<1>1. PICK S, f, g, h : /\ S = 0..n /\ IsFiniteSet(S)
                        /\ f = Terms(c, x) /\ g = Terms(d, x) /\ h = Terms(e, x)
                        /\ f \in [S -> Field] /\ g \in [S -> Field] /\ h \in [S -> Field]
  BY TermsTyped
<1>2. ASSUME NEW i \in 0..n PROVE h[i] = FieldAdd(f[i], FieldMul(r, g[i]))
  <2>1. PICK p \in Int : p = Pow(x, i)
    <3>1. Pow(x, i) \in Int
      BY TermsTyped
    <3> QED BY <3>1
  <2>2. f[i] = FieldMul(c[i], p) /\ g[i] = FieldMul(d[i], p) /\ h[i] = FieldMul(e[i], p)
    <3>1. \A q \in {c, d, e} : Terms(q, x)[i] = FieldMul(q[i], Pow(x, i))
      BY DEF Terms
    <3> QED BY <1>1, <2>1, <3>1
  <2>3. PICK u \in Field, v \in Field : u = c[i] /\ v = d[i]
    OBVIOUS
  <2>4. PICK w \in Field : w = FieldMul(r, v)
    BY FieldTyped
  <2>5. FieldMul(FieldAdd(u, w), p) = FieldAdd(FieldMul(u, p), FieldMul(w, p))
    BY Distributes
  <2>6. FieldMul(r, FieldMul(v, p)) = FieldMul(w, p)
    BY <2>4, MulAssociates
  <2>7. e[i] = FieldAdd(u, w)
    BY <2>3, <2>4
  <2> QED BY <2>2, <2>3, <2>5, <2>6, <2>7
<1>3. FieldSum(h) = FieldAdd(FieldSum(f), FieldMul(r, FieldSum(g)))
  <2>1. \A i \in S : h[i] = FieldAdd(f[i], FieldMul(r, g[i]))
    BY <1>1, <1>2
  <2>2. IsFiniteSet(S) /\ f \in [S -> Field] /\ g \in [S -> Field] /\ h \in [S -> Field]
    BY <1>1
  <2> QED BY <2>1, <2>2, SumLinear
<1> QED BY <1>1, <1>3, TermsTyped

\* A constant.
LEMMA PolynomialConstant ==
    ASSUME NEW c \in [0..0 -> Field], NEW x \in Field
    PROVE  Polynomial(c, x) = c[0]
<1>1. PICK f \in [0..0 -> Field] : f = Terms(c, x) /\ Polynomial(c, x) = FieldSum(f)
  <2>1. 0 \in Nat
    OBVIOUS
  <2>2. Terms(c, x) \in [0..0 -> Field] /\ Polynomial(c, x) = FieldSum(Terms(c, x))
    BY <2>1, TermsTyped
  <2> QED BY <2>2
<1>2. f[0] = c[0]
  <2>1. Pow(x, 0) = 1
    <3>1. x \in Nat
      BY ModAssumption DEF Field
    <3> QED BY <3>1, PowFacts
  <2>2. f[0] = FieldMul(c[0], 1)
    <3>1. 0 \in 0..0 /\ 0 \in Nat
      OBVIOUS
    <3>2. Terms(c, x)[0] = FieldMul(c[0], Pow(x, 0))
      BY <3>1, TermsTyped
    <3> QED BY <1>1, <2>1, <3>2
  <2>3. c[0] \in Field
    OBVIOUS
  <2> QED BY <2>2, <2>3, FieldTyped, MulUnits
<1>3. FieldSum(f) = FieldAdd(f[0], Part(f, {}))
  <2>1. 0 \in 0..0 /\ (0..0) \ {0} = {} /\ 0 \in Int
    OBVIOUS
  <2>3. IsFiniteSet(0..0)
    BY <2>1, FS_Interval
  <2>2. FieldSum(f) = Part(f, 0..0) /\ Part(f, 0..0) = FieldAdd(f[0], Part(f, (0..0) \ {0}))
    BY <2>1, <2>3, PartFacts
  <2> QED BY <2>1, <2>2
<1>4. Part(f, {}) = 0
  <2>1. IsFiniteSet(0..0)
    <3>1. 0 \in Int
      OBVIOUS
    <3> QED BY <3>1, FS_Interval
  <2>2. {} \in SUBSET (0..0)
    OBVIOUS
  <2> QED BY <2>1, <2>2, PartFacts
<1>5. PICK u \in Field : u = c[0]
  OBVIOUS
<1>6. FieldAdd(u, 0) = u
  BY FieldTyped, AddLaws
<1> QED BY <1>1, <1>2, <1>3, <1>4, <1>5, <1>6

\* The highest term apart.
LEMMA PolynomialTop ==
    ASSUME NEW n \in Nat, NEW c \in [0..n + 1 -> Field], NEW x \in Field,
           NEW d \in [0..n -> Field], \A i \in 0..n : d[i] = c[i]
    PROVE  Polynomial(c, x) = FieldAdd(FieldMul(c[n + 1], Pow(x, n + 1)), Polynomial(d, x))
<1>1. n + 1 \in Nat /\ n + 1 \in 0..n + 1 /\ (0..n + 1) \ {n + 1} = 0..n
  OBVIOUS
<1>2. PICK f \in [0..n + 1 -> Field] : f = Terms(c, x) /\ Polynomial(c, x) = FieldSum(f)
  BY <1>1, TermsTyped
<1>3. FieldSum(f) = FieldAdd(f[n + 1], Part(f, 0..n))
  <2>1. IsFiniteSet(0..n + 1)
    BY <1>1, TermsTyped
  <2>2. FieldSum(f) = Part(f, 0..n + 1) /\ Part(f, 0..n + 1) = FieldAdd(f[n + 1], Part(f, (0..n + 1) \ {n + 1}))
    BY <1>1, <2>1, PartFacts
  <2> QED BY <1>1, <2>2
<1>4. f[n + 1] = FieldMul(c[n + 1], Pow(x, n + 1))
  BY <1>1, <1>2, TermsTyped
<1>5. Part(f, 0..n) = Polynomial(d, x)
  <2>1. \A i \in 0..n : f[i] = FieldMul(d[i], Pow(x, i))
    BY <1>1, <1>2, TermsTyped
  <2>2. [i \in 0..n |-> f[i]] = [i \in DOMAIN d |-> FieldMul(d[i], Pow(x, i))]
    BY <2>1
  <2> QED BY <2>2 DEF Part, Polynomial
<1> QED BY <1>2, <1>3, <1>4, <1>5

\* Horner's rule.
LEMMA Horner ==
    \A n \in Nat : \A x \in Field, c \in [0..n + 1 -> Field], d \in [0..n -> Field] :
        (\A i \in 0..n : d[i] = c[i + 1]) =>
            Polynomial(c, x) = FieldAdd(c[0], FieldMul(x, Polynomial(d, x)))
<1> DEFINE Rule(n) == \A x \in Field, c \in [0..n + 1 -> Field], d \in [0..n -> Field] :
                          (\A i \in 0..n : d[i] = c[i + 1]) =>
                              Polynomial(c, x) = FieldAdd(c[0], FieldMul(x, Polynomial(d, x)))
           T == {n \in Nat : Rule(n)}
<1>1. ASSUME NEW n \in Nat, NEW x \in Field, NEW u \in Field
      PROVE  FieldMul(u, Pow(x, n + 1)) = FieldMul(x, FieldMul(u, Pow(x, n))) /\ FieldMul(u, Pow(x, n)) \in Field
  <2>1. x \in Nat /\ x \in Int
    BY ModAssumption DEF Field
  <2>2. PICK p \in Int : p = Pow(x, n) /\ Pow(x, n + 1) = x * p
    <3>1. Pow(x, n) \in Nat /\ Pow(x, n + 1) = x * Pow(x, n)
      BY <2>1, PowFacts
    <3> QED BY <3>1
  <2>3. FieldMul(x, FieldMul(u, p)) = FieldMul(u, x * p)
    BY MulPower
  <2> QED BY <2>2, <2>3, FieldTyped
<1>2. Rule(0)
  <2> SUFFICES ASSUME NEW x \in Field, NEW c \in [0..0 + 1 -> Field], NEW d \in [0..0 -> Field],
                      \A i \in 0..0 : d[i] = c[i + 1]
               PROVE  Polynomial(c, x) = FieldAdd(c[0], FieldMul(x, Polynomial(d, x)))
    OBVIOUS
  <2>1. PICK e \in [0..0 -> Field] : e = [i \in 0..0 |-> c[i]]
    <3>1. \A i \in 0..0 : i \in 0..0 + 1
      OBVIOUS
    <3>2. \A i \in 0..0 : c[i] \in Field
      BY <3>1
    <3> QED BY <3>2
  <2>2. PICK a \in Field, b \in Field : a = c[0] /\ b = c[0 + 1] /\ e[0] = a /\ d[0] = b
    BY <2>1
  <2>3. Polynomial(e, x) = a /\ Polynomial(d, x) = b
    BY <2>2, PolynomialConstant
  <2>4. Polynomial(c, x) = FieldAdd(FieldMul(b, Pow(x, 0 + 1)), Polynomial(e, x))
    <3>1. 0 \in Nat /\ \A i \in 0..0 : e[i] = c[i]
      BY <2>1
    <3>2. Polynomial(c, x) = FieldAdd(FieldMul(c[0 + 1], Pow(x, 0 + 1)), Polynomial(e, x))
      BY <3>1, PolynomialTop
    <3> QED BY <2>2, <3>2
  <2>5. FieldMul(b, Pow(x, 0 + 1)) = FieldMul(x, b)
    <3>1. Pow(x, 0) = 1
      BY ModAssumption, PowFacts DEF Field
    <3>2. FieldMul(b, Pow(x, 0 + 1)) = FieldMul(x, FieldMul(b, Pow(x, 0)))
      BY <1>1
    <3>3. FieldMul(b, 1) = b
      BY FieldTyped, MulUnits
    <3> QED BY <3>1, <3>2, <3>3
  <2>6. PICK v \in Field : v = FieldMul(x, b)
    BY FieldTyped
  <2>7. FieldAdd(v, a) = FieldAdd(a, v)
    BY AddLaws
  <2> QED BY <2>2, <2>3, <2>4, <2>5, <2>6, <2>7
<1>3. ASSUME NEW n \in Nat, Rule(n) PROVE Rule(n + 1)
  <2> SUFFICES ASSUME NEW x \in Field, NEW c \in [0..(n + 1) + 1 -> Field], NEW d \in [0..n + 1 -> Field],
                      \A i \in 0..n + 1 : d[i] = c[i + 1]
               PROVE  Polynomial(c, x) = FieldAdd(c[0], FieldMul(x, Polynomial(d, x)))
    OBVIOUS
  <2>1. PICK e \in [0..n + 1 -> Field] : e = [i \in 0..n + 1 |-> c[i]]
    <3>1. \A i \in 0..n + 1 : i \in 0..(n + 1) + 1
      OBVIOUS
    <3>2. \A i \in 0..n + 1 : c[i] \in Field
      BY <3>1
    <3> QED BY <3>2
  <2>2. PICK g \in [0..n -> Field] : g = [i \in 0..n |-> d[i]]
    <3>1. \A i \in 0..n : i \in 0..n + 1
      OBVIOUS
    <3>2. \A i \in 0..n : d[i] \in Field
      BY <3>1
    <3> QED BY <3>2
  <2>3. PICK a \in Field, t \in Field : a = c[0] /\ e[0] = a /\ t = c[(n + 1) + 1] /\ d[n + 1] = t
    BY <2>1
  <2>4. PICK w \in Field, z \in Field, y \in Field :
            w = Polynomial(g, x) /\ z = FieldMul(x, w) /\ y = FieldMul(t, Pow(x, n + 1))
    <3>1. Polynomial(g, x) \in Field
      BY TermsTyped
    <3>2. FieldMul(t, Pow(x, n + 1)) \in Field
      <4>1. n + 1 \in Nat
        OBVIOUS
      <4> QED BY <1>1, <4>1
    <3>3. FieldMul(x, Polynomial(g, x)) \in Field
      BY <3>1, FieldTyped
    <3> QED BY <3>1, <3>2, <3>3
  <2>5. Polynomial(e, x) = FieldAdd(a, z)
    <3>1. \A i \in 0..n : g[i] = e[i + 1]
      BY <2>1, <2>2
    <3>2. Polynomial(e, x) = FieldAdd(e[0], FieldMul(x, Polynomial(g, x)))
      BY <1>3, <3>1
    <3> QED BY <2>3, <2>4, <3>2
  <2>6. Polynomial(d, x) = FieldAdd(y, w)
    <3>1. \A i \in 0..n : g[i] = d[i]
      BY <2>2
    <3>2. Polynomial(d, x) = FieldAdd(FieldMul(d[n + 1], Pow(x, n + 1)), Polynomial(g, x))
      BY <3>1, PolynomialTop
    <3> QED BY <2>3, <2>4, <3>2
  <2>7. Polynomial(c, x) = FieldAdd(FieldMul(t, Pow(x, (n + 1) + 1)), FieldAdd(a, z))
    <3>1. \A i \in 0..n + 1 : e[i] = c[i]
      BY <2>1
    <3>2. Polynomial(c, x) = FieldAdd(FieldMul(c[(n + 1) + 1], Pow(x, (n + 1) + 1)), Polynomial(e, x))
      <4>1. n + 1 \in Nat
        OBVIOUS
      <4> QED BY <3>1, <4>1, PolynomialTop
    <3> QED BY <2>3, <2>5, <3>2
  <2>8. PICK v \in Field : v = FieldMul(x, y) /\ FieldMul(t, Pow(x, (n + 1) + 1)) = v
    <3>1. FieldMul(t, Pow(x, (n + 1) + 1)) = FieldMul(x, FieldMul(t, Pow(x, n + 1)))
      BY <1>1
    <3> QED BY <2>4, <3>1, FieldTyped
  <2>9. FieldMul(x, FieldAdd(y, w)) = FieldAdd(v, z)
    BY <2>4, <2>8, Distributes
  <2>10. FieldAdd(v, FieldAdd(a, z)) = FieldAdd(a, FieldAdd(v, z))
    <3>1. FieldAdd(FieldAdd(v, a), z) = FieldAdd(v, FieldAdd(a, z))
      BY AddLaws
    <3>2. FieldAdd(FieldAdd(a, v), z) = FieldAdd(a, FieldAdd(v, z))
      BY AddLaws
    <3>3. FieldAdd(v, a) = FieldAdd(a, v)
      BY AddLaws
    <3> QED BY <3>1, <3>2, <3>3
  <2> QED BY <2>3, <2>6, <2>7, <2>8, <2>9, <2>10
<1>4. Nat \subseteq T
  <2>1. 0 \in T /\ \A n \in Nat : n \in T => n + 1 \in T
    <3> HIDE DEF Rule
    <3> QED BY <1>2, <1>3
  <2> HIDE DEF T
  <2> QED BY <2>1, NumberInduction
<1> QED BY <1>4

-----------------------------------------------------------------------------
(* Interpolation.                                                          *)

\* The points of the servers are elements of the field other than 0.
LEMMA ServersInField ==
    /\ Servers \subseteq Field \ {0}
    /\ \A S \in SUBSET Servers : IsFiniteSet(S) /\ Cardinality(S) \in Nat
<1>1. Servers \subseteq Field \ {0}
  BY ModAssumption, CountsAssumption DEF Servers, Field
<1>2. IsFiniteSet(Servers)
  <2>1. 1 \in Int /\ NumServers \in Int
    BY CountsAssumption
  <2> QED BY <2>1, FS_Interval DEF Servers
<1>3. \A S \in SUBSET Servers : IsFiniteSet(S)
  BY <1>2, FS_Subset
<1> QED BY <1>1, <1>3, FS_CardinalityType

\* A product of elements other than 0 is not 0: the field has no zero divisors.
LEMMA ProductNonzero ==
    ASSUME NEW S, IsFiniteSet(S), NEW f \in [S -> Field \ {0}]
    PROVE  FieldProduct(f) # 0
<1> DEFINE P(s) == FieldProduct([x \in s |-> f[x]])
           T == {s \in SUBSET S : P(s) # 0}
<1>1. ASSUME NEW s \in SUBSET S PROVE /\ P(s) \in Field /\ (s = {} => P(s) = 1)
                                      /\ \A a \in s : P(s) = FieldMul(f[a], P(s \ {a}))
  <2>1. PICK g \in [s -> Field] : g = [x \in s |-> f[x]]
    OBVIOUS
  <2>2. IsFiniteSet(s)
    BY FS_Subset
  <2>3. /\ FieldProduct(g) \in Field /\ (s = {} => FieldProduct(g) = 1)
        /\ \A a \in s : FieldProduct(g) = FieldMul(g[a], FieldProduct([x \in s \ {a} |-> g[x]]))
    BY <2>2, ProductFacts
  <2>4. ASSUME NEW a \in s PROVE FieldProduct(g) = FieldMul(f[a], P(s \ {a}))
    <3>1. [x \in s \ {a} |-> g[x]] = [x \in s \ {a} |-> f[x]] /\ g[a] = f[a]
      BY <2>1
    <3>2. FieldProduct(g) = FieldMul(g[a], FieldProduct([x \in s \ {a} |-> g[x]]))
      BY <2>3
    <3> QED BY <3>1, <3>2
  <2> QED BY <2>1, <2>3, <2>4
<1> HIDE DEF P
<1>2. ASSUME NEW s \in SUBSET S, \A t \in SUBSET s : t # s => t \in T PROVE s \in T
  <2>1. CASE s = {}
    BY <1>1, <2>1
  <2>2. CASE s # {}
    <3>1. PICK a \in s : TRUE
      BY <2>2
    <3>2. PICK t : t = s \ {a} /\ t \in SUBSET S /\ t \in T
      <4>1. s \ {a} \in SUBSET s /\ s \ {a} # s /\ s \ {a} \in SUBSET S
        BY <3>1
      <4> HIDE DEF T
      <4> QED BY <1>2, <4>1
    <3>3. P(s) = FieldMul(f[a], P(t))
      BY <1>1, <3>2
    <3>4. PICK u \in Field, v \in Field : u = f[a] /\ v = P(t) /\ u # 0 /\ v # 0
      BY <1>1, <3>2
    <3>5. FieldMul(u, v) # 0
      BY <3>4, NoZeroDivisor
    <3> QED BY <3>3, <3>4, <3>5
  <2> QED BY <2>1, <2>2
<1>3. SUBSET S \subseteq T
  <2>1. Inherits(S, T)
    BY <1>2 DEF Inherits
  <2> HIDE DEF T
  <2> QED BY <2>1, StrongSetInduction
<1>4. P(S) # 0
  BY <1>3
<1>5. f = [x \in S |-> f[x]]
  OBVIOUS
<1> QED BY <1>4, <1>5 DEF P

Num(S, s) == FieldProduct([j \in S \ {s} |-> j])
Den(S, s) == FieldProduct([j \in S \ {s} |-> FieldSub(j, s)])

\* The fraction the constant stands for.
LEMMA LagrangeFraction ==
    ASSUME NEW S \in SUBSET Servers, NEW s \in S
    PROVE  /\ Lagrange(S, s) \in Field /\ Num(S, s) \in Field /\ Den(S, s) \in Field \ {0}
           /\ FieldMul(Lagrange(S, s), Den(S, s)) = Num(S, s)
<1>1. PICK R \in SUBSET Servers : R = S \ {s}
  OBVIOUS
<1>2. IsFiniteSet(R) /\ R \subseteq Field
  BY ServersInField
<1>3. PICK f \in [R -> Field] : f = [j \in R |-> j]
  BY <1>2
<1>4. PICK g \in [R -> Field \ {0}] : g = [j \in R |-> FieldSub(j, s)]
  <2>1. ASSUME NEW j \in R PROVE FieldSub(j, s) \in Field \ {0}
    <3>1. PICK u \in Field, v \in Field : u = j /\ v = s /\ u # v
      BY <1>1, ServersInField
    <3>2. FieldSub(u, v) \in Field /\ FieldSub(u, v) # 0
      BY <3>1, FieldTyped, SubLaw
    <3> QED BY <3>1, <3>2
  <2> QED BY <2>1
<1>5. PICK n \in Field : n = FieldProduct(f)
  BY <1>2, ProductFacts
<1>6. PICK d \in Field \ {0} : d = FieldProduct(g)
  <2>1. FieldProduct(g) # 0
    BY <1>2, ProductNonzero
  <2>2. g \in [R -> Field]
    OBVIOUS
  <2>3. FieldProduct(g) \in Field
    BY <1>2, <2>2, ProductFacts
  <2> QED BY <2>1, <2>3
<1>7. Num(S, s) = n /\ Den(S, s) = d /\ Lagrange(S, s) = FieldMul(n, FieldInv(d))
  BY <1>1, <1>3, <1>4, <1>5, <1>6 DEF Num, Den, Lagrange
<1>8. PICK i \in Field : i = FieldInv(d) /\ FieldMul(i, d) = 1
  BY Inverses
<1>9. FieldMul(n, FieldMul(i, d)) = FieldMul(FieldMul(n, i), d)
  BY FieldTyped, MulAssociates
<1>10. FieldMul(n, 1) = n
  BY FieldTyped, MulUnits
<1>11. FieldMul(n, i) \in Field
  BY FieldTyped
<1> QED BY <1>7, <1>8, <1>9, <1>10, <1>11

\* A point more.
LEMMA LagrangeMore ==
    ASSUME NEW S \in SUBSET Servers, NEW s \in S, NEW a \in S, a # s
    PROVE  FieldMul(Lagrange(S, s), FieldSub(a, s)) = FieldMul(a, Lagrange(S \ {a}, s))
<1>1. PICK Q \in SUBSET Servers : Q = S \ {a} /\ s \in Q
  OBVIOUS
<1>2. PICK R \in SUBSET Servers : R = S \ {s} /\ a \in R /\ R \ {a} = Q \ {s}
  <2>1. S \ {s} \in SUBSET Servers /\ a \in S \ {s} /\ (S \ {s}) \ {a} = (S \ {a}) \ {s}
    OBVIOUS
  <2> QED BY <1>1, <2>1
<1>3. IsFiniteSet(R) /\ R \subseteq Field
  BY ServersInField
<1>4. a \in Field /\ s \in Field
  BY ServersInField
<1>5. Num(S, s) = FieldMul(a, Num(Q, s))
  <2>1. PICK f \in [R -> Field] : f = [j \in R |-> j]
    BY <1>3
  <2>2. FieldProduct(f) = FieldMul(f[a], FieldProduct([j \in R \ {a} |-> f[j]]))
    BY <1>2, <1>3, ProductFacts
  <2>3. f[a] = a /\ [j \in R \ {a} |-> f[j]] = [j \in Q \ {s} |-> j]
    BY <1>2, <2>1
  <2> QED BY <1>2, <2>1, <2>2, <2>3 DEF Num
<1>6. Den(S, s) = FieldMul(FieldSub(a, s), Den(Q, s))
  <2>1. PICK f \in [R -> Field] : f = [j \in R |-> FieldSub(j, s)]
    BY <1>3, <1>4, FieldTyped
  <2>2. FieldProduct(f) = FieldMul(f[a], FieldProduct([j \in R \ {a} |-> f[j]]))
    BY <1>2, <1>3, ProductFacts
  <2>3. f[a] = FieldSub(a, s) /\ [j \in R \ {a} |-> f[j]] = [j \in Q \ {s} |-> FieldSub(j, s)]
    BY <1>2, <2>1
  <2> QED BY <1>2, <2>1, <2>2, <2>3 DEF Den
<1>7. PICK l \in Field, n \in Field, d \in Field \ {0}, k \in Field, m \in Field, e \in Field, h \in Field :
          /\ l = Lagrange(S, s) /\ n = Num(S, s) /\ e = Den(S, s) /\ FieldMul(l, e) = n
          /\ k = Lagrange(Q, s) /\ m = Num(Q, s) /\ d = Den(Q, s) /\ FieldMul(k, d) = m
          /\ h = FieldSub(a, s)
  <2>1. /\ Lagrange(S, s) \in Field /\ Num(S, s) \in Field /\ Den(S, s) \in Field
        /\ FieldMul(Lagrange(S, s), Den(S, s)) = Num(S, s)
    BY LagrangeFraction
  <2>2. /\ Lagrange(Q, s) \in Field /\ Num(Q, s) \in Field /\ Den(Q, s) \in Field \ {0}
        /\ FieldMul(Lagrange(Q, s), Den(Q, s)) = Num(Q, s)
    BY <1>1, LagrangeFraction
  <2>3. FieldSub(a, s) \in Field
    BY <1>4, FieldTyped
  <2> QED BY <2>1, <2>2, <2>3
<1>8. n = FieldMul(a, m) /\ e = FieldMul(h, d)
  BY <1>5, <1>6, <1>7
<1>9. FieldMul(l, FieldMul(h, d)) = FieldMul(FieldMul(l, h), d)
  BY FieldTyped, MulAssociates
<1>10. FieldMul(a, FieldMul(k, d)) = FieldMul(FieldMul(a, k), d)
  <2>1. PICK b \in Field : b = a
    BY <1>4
  <2>2. d \in Int
    BY FieldTyped
  <2>3. FieldMul(b, FieldMul(k, d)) = FieldMul(FieldMul(b, k), d)
    BY <2>2, MulAssociates
  <2> QED BY <2>1, <2>3
<1>11. FieldMul(FieldMul(l, h), d) = FieldMul(FieldMul(a, k), d)
  BY <1>7, <1>8, <1>9, <1>10
<1>12. FieldMul(l, h) \in Field /\ FieldMul(a, k) \in Field
  BY <1>4, FieldTyped
<1>13. FieldMul(l, h) = FieldMul(a, k)
  BY <1>11, <1>12, Divide
<1> QED BY <1>1, <1>7, <1>13

\* What reconstruct() computes of the responses q.
Combination(S, q) == FieldSum([s \in S |-> FieldMul(Lagrange(S, s), q[s])])

\* reconstruct() returns an element of the field.
LEMMA CombinationTyped ==
    ASSUME NEW S \in SUBSET Servers, NEW q \in [Servers -> Field]
    PROVE  /\ [s \in S |-> FieldMul(Lagrange(S, s), q[s])] \in [S -> Field]
           /\ Combination(S, q) \in Field
<1>1. \A s \in S : FieldMul(Lagrange(S, s), q[s]) \in Field
  <2> SUFFICES ASSUME NEW s \in S PROVE FieldMul(Lagrange(S, s), q[s]) \in Field
    OBVIOUS
  <2>1. Lagrange(S, s) \in Field /\ q[s] \in Field
    BY LagrangeFraction
  <2> QED BY <2>1, FieldTyped
<1>2. PICK f \in [S -> Field] : f = [s \in S |-> FieldMul(Lagrange(S, s), q[s])]
  BY <1>1
<1>3. FieldSum(f) \in Field
  BY ServersInField, SumFacts
<1> QED BY <1>2, <1>3 DEF Combination

\* What reconstruct() computes is linear in the responses.
LEMMA CombinationLinear ==
    ASSUME NEW S \in SUBSET Servers, NEW r \in Field, NEW p \in [Servers -> Field],
           NEW q \in [Servers -> Field], NEW o \in [Servers -> Field],
           \A s \in S : o[s] = FieldAdd(p[s], FieldMul(r, q[s]))
    PROVE  Combination(S, o) = FieldAdd(Combination(S, p), FieldMul(r, Combination(S, q)))
<1>1. PICK f \in [S -> Field] : f = [s \in S |-> FieldMul(Lagrange(S, s), p[s])]
  BY CombinationTyped
<1>2. PICK g \in [S -> Field] : g = [s \in S |-> FieldMul(Lagrange(S, s), q[s])]
  BY CombinationTyped
<1>3. PICK h \in [S -> Field] : h = [s \in S |-> FieldMul(Lagrange(S, s), o[s])]
  BY CombinationTyped
<1>4. ASSUME NEW s \in S PROVE h[s] = FieldAdd(f[s], FieldMul(r, g[s]))
  <2>1. PICK l \in Field, u \in Field, v \in Field : l = Lagrange(S, s) /\ u = p[s] /\ v = q[s]
    <3>1. Lagrange(S, s) \in Field /\ p[s] \in Field /\ q[s] \in Field
      BY LagrangeFraction
    <3> QED BY <3>1
  <2>2. o[s] = FieldAdd(u, FieldMul(r, v))
    BY <2>1
  <2>3. f[s] = FieldMul(l, u) /\ g[s] = FieldMul(l, v) /\ h[s] = FieldMul(l, FieldAdd(u, FieldMul(r, v)))
    BY <1>1, <1>2, <1>3, <2>1, <2>2
  <2>4. PICK w \in Field : w = FieldMul(r, v)
    BY FieldTyped
  <2>5. FieldMul(l, FieldAdd(u, w)) = FieldAdd(FieldMul(l, u), FieldMul(l, w))
    <3>1. u \in Field /\ w \in Field /\ l \in Field /\ w \in Int
      BY FieldTyped
    <3> QED BY <3>1, Distributes
  <2>6. FieldMul(l, FieldMul(r, v)) = FieldMul(r, FieldMul(l, v))
    <3>1. v \in Int
      BY FieldTyped
    <3>2. FieldMul(l, FieldMul(r, v)) = FieldMul(FieldMul(l, r), v)
      BY <3>1, MulAssociates
    <3>3. FieldMul(r, FieldMul(l, v)) = FieldMul(FieldMul(r, l), v)
      BY <3>1, MulAssociates
    <3>4. FieldMul(l, r) = FieldMul(r, l)
      BY <3>1, MulCommutes
    <3> QED BY <3>2, <3>3, <3>4
  <2> QED BY <2>3, <2>4, <2>5, <2>6
<1>5. IsFiniteSet(S)
  BY ServersInField
<1>6. FieldSum(h) = FieldAdd(FieldSum(f), FieldMul(r, FieldSum(g)))
  BY <1>4, <1>5, SumLinear
<1> QED BY <1>1, <1>2, <1>3, <1>6 DEF Combination

\* Responses with the factor a - s lose the point a.
LEMMA CombinationLess ==
    ASSUME NEW S \in SUBSET Servers, NEW a \in S,
           NEW q \in [Servers -> Field], NEW o \in [Servers -> Field],
           \A s \in S : o[s] = FieldMul(FieldSub(a, s), q[s])
    PROVE  Combination(S, o) = FieldMul(a, Combination(S \ {a}, q))
<1>1. PICK Q \in SUBSET Servers : Q = S \ {a}
  OBVIOUS
<1>2. PICK g \in [Q -> Field] : g = [s \in Q |-> FieldMul(Lagrange(Q, s), q[s])]
  BY CombinationTyped
<1>3. PICK h \in [S -> Field] : h = [s \in S |-> FieldMul(Lagrange(S, s), o[s])]
  BY CombinationTyped
<1>4. PICK k \in [Q -> Field] : k = [s \in Q |-> h[s]]
  BY <1>1
<1>5. IsFiniteSet(S) /\ IsFiniteSet(Q) /\ a \in Field
  BY ServersInField
<1>6. FieldSum(h) = FieldAdd(h[a], FieldSum(k))
  BY <1>1, <1>4, <1>5, SumFacts
<1>7. h[a] = 0
  <2>1. PICK x \in Field, l \in Field : x = q[a] /\ l = Lagrange(S, a)
    <3>1. Lagrange(S, a) \in Field /\ q[a] \in Field
      BY LagrangeFraction
    <3> QED BY <3>1
  <2>2. FieldSub(a, a) = 0
    BY <1>5, FieldTyped DEF FieldSub
  <2>3. FieldMul(0, x) = 0 /\ FieldMul(l, 0) = 0
    BY FieldTyped, MulUnits
  <2>4. o[a] = FieldMul(FieldSub(a, a), q[a])
    OBVIOUS
  <2>5. h[a] = FieldMul(Lagrange(S, a), o[a])
    BY <1>3
  <2> QED BY <2>1, <2>2, <2>3, <2>4, <2>5
<1>8. ASSUME NEW s \in Q PROVE k[s] = FieldMul(a, g[s])
  <2>1. s \in S /\ s # a
    BY <1>1
  <2>2. PICK l \in Field, m \in Field, d \in Field, x \in Field :
            l = Lagrange(S, s) /\ m = Lagrange(Q, s) /\ d = FieldSub(a, s) /\ x = q[s]
    <3>1. Lagrange(S, s) \in Field /\ Lagrange(Q, s) \in Field /\ q[s] \in Field
      BY <2>1, LagrangeFraction
    <3>2. FieldSub(a, s) \in Field
      <4>1. s \in Field
        BY ServersInField
      <4> QED BY <1>5, <4>1, FieldTyped
    <3> QED BY <3>1, <3>2
  <2>3. FieldMul(l, d) = FieldMul(a, m)
    BY <1>1, <2>1, <2>2, LagrangeMore
  <2>4. k[s] = FieldMul(l, FieldMul(d, x)) /\ g[s] = FieldMul(m, x)
    <3>1. o[s] = FieldMul(FieldSub(a, s), q[s])
      BY <2>1
    <3>2. k[s] = h[s] /\ h[s] = FieldMul(Lagrange(S, s), o[s]) /\ g[s] = FieldMul(Lagrange(Q, s), q[s])
      BY <1>2, <1>3, <1>4, <2>1
    <3> QED BY <2>2, <3>1, <3>2
  <2>5. x \in Int
    BY FieldTyped
  <2>6. FieldMul(l, FieldMul(d, x)) = FieldMul(FieldMul(l, d), x)
    BY <2>5, MulAssociates
  <2>7. FieldMul(a, FieldMul(m, x)) = FieldMul(FieldMul(a, m), x)
    BY <1>5, <2>5, MulAssociates
  <2> QED BY <2>3, <2>4, <2>6, <2>7
<1>9. FieldSum(k) = FieldMul(a, FieldSum(g))
  BY <1>5, <1>8, SumScaled
<1>10. FieldSum(k) \in Field
  BY <1>5, SumFacts
<1>11. FieldSum(h) = FieldSum(k)
  BY <1>6, <1>7, <1>10, FieldTyped, AddLaws
<1> QED BY <1>1, <1>2, <1>3, <1>9, <1>11 DEF Combination

Ones == [s \in Servers |-> 1]

\* One point alone.
LEMMA CombinationSingle ==
    ASSUME NEW a \in Servers
    PROVE  Combination({a}, Ones) = 1
<1>1. {a} \in SUBSET Servers /\ {a} \ {a} = {}
  OBVIOUS
<1>2. Num({a}, a) = 1 /\ Den({a}, a) = 1
  <2>1. PICK f \in [{} -> Field] : f = [j \in {} |-> j]
    OBVIOUS
  <2>2. PICK g \in [{} -> Field] : g = [j \in {} |-> FieldSub(j, a)]
    OBVIOUS
  <2>3. FieldProduct(f) = 1 /\ FieldProduct(g) = 1
    BY FS_EmptySet, ProductFacts
  <2> QED BY <1>1, <2>1, <2>2, <2>3 DEF Num, Den
<1>3. PICK l \in Field : l = Lagrange({a}, a) /\ FieldMul(l, 1) = 1
  <2>1. Lagrange({a}, a) \in Field /\ FieldMul(Lagrange({a}, a), Den({a}, a)) = Num({a}, a)
    BY <1>1, LagrangeFraction
  <2> QED BY <1>2, <2>1
<1>4. l = 1
  BY <1>3, FieldTyped, MulUnits
<1>5. PICK S : S = {a} /\ a \in S /\ S \ {a} = {} /\ IsFiniteSet(S) /\ S \in SUBSET Servers
  BY <1>1, ServersInField
<1>6. Ones \in [Servers -> Field] /\ Ones[a] = 1
  BY FieldTyped DEF Ones
<1>7. PICK h \in [S -> Field] : h = [s \in S |-> FieldMul(Lagrange(S, s), Ones[s])]
  <2>1. [s \in S |-> FieldMul(Lagrange(S, s), Ones[s])] \in [S -> Field]
    BY <1>5, <1>6, CombinationTyped
  <2> QED BY <2>1
<1>8. h[a] = 1
  <2>1. h[a] = FieldMul(Lagrange(S, a), Ones[a])
    BY <1>5, <1>7
  <2> QED BY <1>3, <1>4, <1>5, <1>6, <2>1
<1>9. FieldSum(h) = FieldAdd(h[a], Part(h, {}))
  <2>1. FieldSum(h) = Part(h, S) /\ Part(h, S) = FieldAdd(h[a], Part(h, S \ {a}))
    BY <1>5, PartFacts
  <2> QED BY <1>5, <2>1
<1>10. Part(h, {}) = 0
  <2>1. {} \in SUBSET S
    OBVIOUS
  <2> QED BY <1>5, <2>1, PartFacts
<1>11. FieldAdd(1, 0) = 1
  <2>1. FieldAdd(0, 1) = 1 /\ FieldAdd(1, 0) = FieldAdd(0, 1)
    BY FieldTyped, AddLaws
  <2> QED BY <2>1
<1> QED BY <1>5, <1>7, <1>8, <1>9, <1>10, <1>11 DEF Combination

\* The differences of two constants.
LEMMA Differences ==
    ASSUME NEW S \in SUBSET Servers, NEW a \in S, NEW q \in [Servers -> Field], NEW o \in [Servers -> Field],
           \A s \in S : o[s] = FieldMul(s, q[s])
    PROVE  FieldMul(a, Combination(S, q)) = FieldAdd(FieldMul(a, Combination(S \ {a}, q)), Combination(S, o))
<1>1. Servers \subseteq Field /\ a \in Field
  BY ServersInField
<1>2. PICK e \in [Servers -> Field] : e = [s \in Servers |-> FieldMul(FieldSub(a, s), q[s])]
  <2>1. ASSUME NEW s \in Servers PROVE FieldMul(FieldSub(a, s), q[s]) \in Field
    <3>1. FieldSub(a, s) \in Field /\ q[s] \in Field
      BY <1>1, FieldTyped
    <3> QED BY <3>1, FieldTyped
  <2> QED BY <2>1
<1>3. PICK t \in [Servers -> Field] : t = [s \in Servers |-> FieldMul(a, q[s])]
  <2>1. \A s \in Servers : q[s] \in Field
    OBVIOUS
  <2> QED BY <1>1, <2>1, FieldTyped
<1>4. PICK z \in [Servers -> Field] : z = [s \in Servers |-> 0]
  BY FieldTyped
<1>5. Combination(S, e) = FieldMul(a, Combination(S \ {a}, q))
  BY <1>2, CombinationLess
<1>6. ASSUME NEW s \in S PROVE t[s] = FieldAdd(e[s], FieldMul(1, o[s]))
  <2>1. PICK u \in Field, x \in Field, d \in Field : u = s /\ x = q[s] /\ d = FieldSub(a, u) /\ FieldAdd(d, u) = a
    <3>1. s \in Field /\ q[s] \in Field
      BY <1>1
    <3>2. FieldSub(a, s) \in Field /\ FieldAdd(FieldSub(a, s), s) = a
      BY <1>1, <3>1, FieldTyped, SubLaw
    <3> QED BY <3>1, <3>2
  <2>2. e[s] = FieldMul(d, x) /\ t[s] = FieldMul(a, x) /\ o[s] = FieldMul(u, x)
    BY <1>2, <1>3, <2>1
  <2>3. x \in Int
    BY FieldTyped
  <2>4. FieldMul(FieldAdd(d, u), x) = FieldAdd(FieldMul(d, x), FieldMul(u, x))
    BY <2>3, Distributes
  <2>5. FieldMul(1, FieldMul(u, x)) = FieldMul(u, x)
    BY FieldTyped, MulAssociates, MulUnits
  <2> QED BY <2>1, <2>2, <2>4, <2>5
<1>7. PICK P \in Field, Q \in Field, R \in Field, T \in Field :
          P = Combination(S, e) /\ Q = Combination(S, o) /\ R = Combination(S, q) /\ T = Combination(S, t)
  <2>1. /\ Combination(S, e) \in Field /\ Combination(S, o) \in Field
        /\ Combination(S, q) \in Field /\ Combination(S, t) \in Field
    BY CombinationTyped
  <2> QED BY <2>1
<1>8. T = FieldAdd(P, FieldMul(1, Q))
  BY <1>6, <1>7, FieldTyped, CombinationLinear
<1>9. T = FieldMul(a, R)
  <2>1. \A s \in S : t[s] = FieldAdd(z[s], FieldMul(a, q[s]))
    <3> SUFFICES ASSUME NEW s \in S PROVE t[s] = FieldAdd(z[s], FieldMul(a, q[s]))
      OBVIOUS
    <3>1. t[s] = FieldMul(a, q[s]) /\ t[s] \in Field /\ z[s] = 0
      BY <1>3, <1>4
    <3> QED BY <3>1, FieldTyped, AddLaws
  <2>2. T = FieldAdd(Combination(S, z), FieldMul(a, R))
    BY <1>1, <1>7, <2>1, CombinationLinear
  <2>3. Combination(S, z) = 0
    <3>1. PICK f \in [S -> Field] : f = [s \in S |-> FieldMul(Lagrange(S, s), z[s])]
      BY CombinationTyped
    <3>2. ASSUME NEW s \in S PROVE f[s] = 0
      <4>1. PICK l \in Field : l = Lagrange(S, s)
        BY LagrangeFraction
      <4>2. z[s] = 0
        BY <1>4
      <4> QED BY <3>1, <4>1, <4>2, FieldTyped, MulUnits
    <3>3. FieldSum(f) = 0
      BY <3>2, ServersInField, SumZero
    <3> QED BY <3>1, <3>3 DEF Combination
  <2>4. FieldMul(a, R) \in Field
    BY <1>1, FieldTyped
  <2> QED BY <2>2, <2>3, <2>4, FieldTyped, AddLaws
<1>10. FieldMul(1, Q) = Q
  BY FieldTyped, MulUnits
<1> QED BY <1>5, <1>7, <1>8, <1>9, <1>10

\* The responses 1 of any servers yield 1.
LEMMA CombinationOne ==
    ASSUME NEW S \in SUBSET Servers, S # {}
    PROVE  Combination(S, Ones) = 1
<1> DEFINE T == {s \in SUBSET S : s # {} => Combination(s, Ones) = 1}
<1>1. Ones \in [Servers -> Field] /\ \A s \in Servers : Ones[s] = 1
  BY FieldTyped DEF Ones
<1>2. ASSUME NEW s \in SUBSET S, \A t \in SUBSET s : t # s => t \in T PROVE s \in T
  <2> SUFFICES ASSUME s # {} PROVE Combination(s, Ones) = 1
    OBVIOUS
  <2>1. PICK a \in s : TRUE
    OBVIOUS
  <2>2. CASE s = {a}
    BY <2>2, CombinationSingle
  <2>3. CASE s # {a}
    <3>1. PICK b \in s : b # a
      BY <2>3
    <3>2. \A c \in {a, b} : Combination(s \ {c}, Ones) = 1
      <4>1. \A c \in {a, b} : s \ {c} \in SUBSET s /\ s \ {c} # s /\ s \ {c} # {}
        BY <3>1
      <4>2. \A c \in {a, b} : s \ {c} \in T
        <5> HIDE DEF T
        <5> QED BY <1>2, <4>1
      <4> QED BY <4>1, <4>2
    <3>3. PICK id \in [Servers -> Field] : id = [x \in Servers |-> x]
      BY ServersInField
    <3>4. s \in SUBSET Servers /\ a \in Field /\ b \in Field
      BY ServersInField
    <3>5. \A x \in s : id[x] = FieldMul(x, Ones[x])
      <4> SUFFICES ASSUME NEW x \in s PROVE id[x] = FieldMul(x, Ones[x])
        OBVIOUS
      <4>1. x \in Field /\ id[x] = x /\ Ones[x] = 1
        BY <1>1, <3>3, <3>4, ServersInField
      <4> QED BY <4>1, FieldTyped, MulUnits
    <3>6. PICK v \in Field, w \in Field, d \in Field :
              v = Combination(s, Ones) /\ w = Combination(s, id) /\ d = FieldSub(a, b) /\ FieldAdd(d, b) = a /\ d # 0
      <4>1. Combination(s, Ones) \in Field /\ Combination(s, id) \in Field
        BY <1>1, <3>4, CombinationTyped
      <4>2. FieldSub(a, b) \in Field /\ FieldAdd(FieldSub(a, b), b) = a /\ FieldSub(a, b) # 0
        BY <3>1, <3>4, FieldTyped, SubLaw
      <4> QED BY <4>1, <4>2
    <3>7. FieldMul(a, v) = FieldAdd(a, w) /\ FieldMul(b, v) = FieldAdd(b, w)
      <4>1. ASSUME NEW c \in {a, b} PROVE FieldMul(c, v) = FieldAdd(c, w)
        <5>1. FieldMul(c, v) = FieldAdd(FieldMul(c, Combination(s \ {c}, Ones)), w)
          <6>1. c \in s
            OBVIOUS
          <6> QED BY <1>1, <3>4, <3>5, <3>6, <6>1, Differences
        <5>2. FieldMul(c, 1) = c
          <6>1. c \in Field
            BY <3>4
          <6> QED BY <6>1, FieldTyped, MulUnits
        <5> QED BY <3>2, <5>1, <5>2
      <4> QED BY <4>1
    <3>8. PICK x \in Field, y \in Field : x = FieldMul(d, v) /\ y = FieldMul(b, v)
      BY <3>4, FieldTyped
    <3>9. FieldAdd(x, y) = FieldAdd(FieldAdd(d, b), w)
      <4>1. FieldMul(FieldAdd(d, b), v) = FieldAdd(FieldMul(d, v), FieldMul(b, v))
        <5>1. v \in Int /\ b \in Field
          BY <3>4, FieldTyped
        <5> QED BY <5>1, Distributes
      <4> QED BY <3>6, <3>7, <3>8, <4>1
    <3>10. FieldAdd(FieldAdd(d, b), w) = FieldAdd(d, y)
      <4>1. FieldAdd(FieldAdd(d, b), w) = FieldAdd(d, FieldAdd(b, w))
        BY <3>4, AddLaws
      <4> QED BY <3>7, <3>8, <4>1
    <3>11. x = d
      BY <3>9, <3>10, Cancel
    <3>12. FieldMul(v, d) = FieldMul(1, d)
      <4>1. FieldMul(v, d) = FieldMul(d, v) /\ FieldMul(1, d) = d
        BY FieldTyped, MulUnits, MulCommutes
      <4> QED BY <3>8, <3>11, <4>1
    <3>13. v = 1
      BY <3>6, <3>12, FieldTyped, Divide
    <3> QED BY <3>6, <3>13
  <2> QED BY <2>2, <2>3
<1>3. IsFiniteSet(S)
  BY ServersInField
<1>4. SUBSET S \subseteq T
  <2>1. Inherits(S, T)
    BY <1>2 DEF Inherits
  <2> HIDE DEF T
  <2> QED BY <1>3, <2>1, StrongSetInduction
<1>5. S \in T
  BY <1>4
<1> QED BY <1>5

Shift(c, d, n) == \A i \in 0..n : d[i] = c[i + 1]

\* n + 1 points or more determine a polynomial of degree n: what reconstruct()
\* computes of its values is its value at 0.
LEMMA Interpolation ==
    \A n \in Nat : \A c \in [0..n -> Field], S \in SUBSET Servers, q \in [Servers -> Field] :
        Cardinality(S) > n /\ (\A s \in S : q[s] = Polynomial(c, s)) => Combination(S, q) = c[0]
<1> DEFINE Claim(n) == \A c \in [0..n -> Field], S \in SUBSET Servers, q \in [Servers -> Field] :
                           Cardinality(S) > n /\ (\A s \in S : q[s] = Polynomial(c, s)) => Combination(S, q) = c[0]
           T == {n \in Nat : Claim(n)}
<1>1. Ones \in [Servers -> Field] /\ \A s \in Servers : Ones[s] = 1
  BY FieldTyped DEF Ones
<1>2. Claim(0)
  <2> SUFFICES ASSUME NEW c \in [0..0 -> Field], NEW S \in SUBSET Servers, NEW q \in [Servers -> Field],
                      Cardinality(S) > 0, \A s \in S : q[s] = Polynomial(c, s)
               PROVE  Combination(S, q) = c[0]
    OBVIOUS
  <2>1. S # {} /\ IsFiniteSet(S)
    BY FS_EmptySet, ServersInField
  <2>2. PICK a \in Field : a = c[0]
    OBVIOUS
  <2>3. PICK f \in [S -> Field] : f = [s \in S |-> FieldMul(Lagrange(S, s), q[s])]
    BY CombinationTyped
  <2>4. PICK g \in [S -> Field] : g = [s \in S |-> FieldMul(Lagrange(S, s), Ones[s])]
    BY <1>1, CombinationTyped
  <2>5. ASSUME NEW s \in S PROVE f[s] = FieldMul(a, g[s])
    <3>1. q[s] = a
      <4>1. s \in Field
        BY ServersInField
      <4> QED BY <2>2, <4>1, PolynomialConstant
    <3>2. PICK l \in Field : l = Lagrange(S, s)
      BY LagrangeFraction
    <3>3. f[s] = FieldMul(l, a) /\ g[s] = FieldMul(l, 1)
      BY <1>1, <2>3, <2>4, <3>1, <3>2
    <3>4. FieldMul(l, 1) = l /\ FieldMul(l, a) = FieldMul(a, l)
      BY FieldTyped, MulUnits, MulCommutes
    <3> QED BY <3>3, <3>4
  <2>6. FieldSum(f) = FieldMul(a, FieldSum(g))
    BY <2>1, <2>5, SumScaled
  <2>7. FieldSum(g) = 1
    <3>1. Combination(S, Ones) = 1
      BY <2>1, CombinationOne
    <3> QED BY <2>4, <3>1 DEF Combination
  <2>8. FieldMul(a, 1) = a
    BY FieldTyped, MulUnits
  <2> QED BY <2>2, <2>3, <2>6, <2>7, <2>8 DEF Combination
<1>3. ASSUME NEW n \in Nat, Claim(n) PROVE Claim(n + 1)
  <2> SUFFICES ASSUME NEW c \in [0..n + 1 -> Field], NEW S \in SUBSET Servers, NEW q \in [Servers -> Field],
                      Cardinality(S) > n + 1, \A s \in S : q[s] = Polynomial(c, s)
               PROVE  Combination(S, q) = c[0]
    OBVIOUS
  <2>1. IsFiniteSet(S) /\ Cardinality(S) \in Nat
    BY ServersInField
  <2>2. PICK a \in S : TRUE
    <3>1. S # {}
      BY <2>1, FS_EmptySet
    <3> QED BY <3>1
  <2>3. PICK Q \in SUBSET Servers : Q = S \ {a} /\ Cardinality(Q) = Cardinality(S) - 1
    BY <2>1, FS_RemoveElement
  <2>4. Cardinality(S) > n /\ Cardinality(Q) > n
    BY <2>1, <2>3
  <2>5. PICK d \in [0..n -> Field] : \A i \in 0..n : d[i] = c[i + 1]
    <3>1. \A i \in 0..n : i + 1 \in 0..n + 1
      OBVIOUS
    <3>2. \A i \in 0..n : c[i + 1] \in Field
      BY <3>1
    <3>3. [i \in 0..n |-> c[i + 1]] \in [0..n -> Field]
      BY <3>2
    <3> QED BY <3>3
  <2>6. Servers \subseteq Field /\ a \in Field
    BY ServersInField
  <2>7. PICK p \in [Servers -> Field] : p = [s \in Servers |-> Polynomial(d, s)]
    <3>1. ASSUME NEW s \in Servers PROVE Polynomial(d, s) \in Field
      <4>1. s \in Field
        BY <2>6
      <4> QED BY <4>1, TermsTyped
    <3> QED BY <3>1
  <2>8. PICK o \in [Servers -> Field] : o = [s \in Servers |-> FieldMul(s, p[s])]
    <3>1. ASSUME NEW s \in Servers PROVE FieldMul(s, p[s]) \in Field
      <4>1. s \in Field /\ p[s] \in Field
        BY <2>6
      <4> QED BY <4>1, FieldTyped
    <3> QED BY <3>1
  <2>9. PICK u \in Field : u = d[0] /\ Combination(S, p) = u /\ Combination(Q, p) = u
    <3>1. \A s \in Servers : p[s] = Polynomial(d, s)
      BY <2>7
    <3>2. Combination(S, p) = d[0]
      <4>1. \A s \in S : p[s] = Polynomial(d, s)
        BY <3>1
      <4> QED BY <1>3, <2>4, <4>1
    <3>3. Combination(Q, p) = d[0]
      <4>1. \A s \in Q : p[s] = Polynomial(d, s)
        BY <3>1
      <4> QED BY <1>3, <2>4, <4>1
    <3>4. d[0] \in Field
      OBVIOUS
    <3> QED BY <3>2, <3>3, <3>4
  <2>10. PICK z \in Field : z = Combination(S, o)
    BY CombinationTyped
  <2>11. z = 0
    <3>1. \A s \in S : o[s] = FieldMul(s, p[s])
      BY <2>8
    <3>2. FieldMul(a, Combination(S, p)) = FieldAdd(FieldMul(a, Combination(S \ {a}, p)), Combination(S, o))
      BY <3>1, Differences
    <3>3. PICK m \in Field : m = FieldMul(a, u)
      BY <2>6, FieldTyped
    <3>4. m = FieldAdd(m, z)
      BY <2>3, <2>9, <2>10, <3>2, <3>3
    <3>5. FieldAdd(m, z) = FieldAdd(z, m) /\ FieldAdd(0, m) = m
      BY FieldTyped, AddLaws
    <3>6. FieldAdd(z, m) = FieldAdd(0, m)
      BY <3>4, <3>5
    <3> QED BY <3>6, FieldTyped, Cancel
  <2>12. PICK b \in Field : b = c[0]
    <3>1. 0 \in 0..n + 1
      OBVIOUS
    <3> QED BY <3>1
  <2> DEFINE k == [i \in 0..0 |-> b]
  <2>13. PICK e \in [Servers -> Field] : e = [s \in Servers |-> b]
    OBVIOUS
  <2>14. Combination(S, e) = b
    <3>1. \A s \in S : e[s] = Polynomial(k, s)
      <4> SUFFICES ASSUME NEW s \in S PROVE e[s] = Polynomial(k, s)
        OBVIOUS
      <4>1. s \in Field /\ k \in [0..0 -> Field] /\ k[0] = b
        BY <2>6
      <4> HIDE DEF k
      <4>2. Polynomial(k, s) = k[0]
        BY <4>1, PolynomialConstant
      <4> QED BY <2>13, <4>1, <4>2
    <3>2. Cardinality(S) > 0
      BY <2>1
    <3>3. k \in [0..0 -> Field] /\ k[0] = b
      OBVIOUS
    <3> HIDE DEF Claim, k
    <3>4. Combination(S, e) = k[0]
      BY <1>2, <3>1, <3>2, <3>3 DEF Claim
    <3> QED BY <3>3, <3>4
  <2>15. ASSUME NEW s \in S PROVE q[s] = FieldAdd(e[s], FieldMul(1, o[s]))
    <3>1. PICK x \in Field : x = s
      BY <2>6
    <3>2. Polynomial(c, x) = FieldAdd(c[0], FieldMul(x, Polynomial(d, x)))
      BY <2>5, Horner
    <3>3. o[s] = FieldMul(s, p[s]) /\ p[s] = Polynomial(d, s) /\ e[s] = b /\ o[s] \in Field
      BY <2>7, <2>8, <2>13
    <3>4. FieldMul(1, o[s]) = o[s]
      BY <3>3, FieldTyped, MulUnits
    <3>5. q[s] = Polynomial(c, s)
      OBVIOUS
    <3> QED BY <2>12, <3>1, <3>2, <3>3, <3>4, <3>5
  <2>16. Combination(S, q) = FieldAdd(Combination(S, e), FieldMul(1, Combination(S, o)))
    BY <2>15, FieldTyped, CombinationLinear
  <2>17. FieldMul(1, 0) = 0 /\ FieldAdd(b, 0) = b
    <3>1. FieldAdd(0, b) = b /\ FieldAdd(b, 0) = FieldAdd(0, b)
      BY FieldTyped, AddLaws
    <3> QED BY <3>1, FieldTyped, MulUnits
  <2> QED BY <2>10, <2>11, <2>12, <2>14, <2>16, <2>17
<1>4. Nat \subseteq T
  <2>1. 0 \in T /\ \A n \in Nat : n \in T => n + 1 \in T
    <3> HIDE DEF Claim
    <3> QED BY <1>2, <1>3
  <2> HIDE DEF T
  <2> QED BY <2>1, NumberInduction
<1> QED BY <1>4

\* n points: a polynomial of degree n that is 1 at 0 and 0 at all of them.
LEMMA Vanishing ==
    \A n \in Nat : \A S \in SUBSET Servers : Cardinality(S) <= n =>
        \E w \in [0..n -> Field] : w[0] = 1 /\ \A s \in S : Polynomial(w, s) = 0
<1> DEFINE Claim(n) == \A S \in SUBSET Servers : Cardinality(S) <= n =>
                           \E w \in [0..n -> Field] : w[0] = 1 /\ \A s \in S : Polynomial(w, s) = 0
           T == {n \in Nat : Claim(n)}
<1>1. Claim(0)
  <2> SUFFICES ASSUME NEW S \in SUBSET Servers, Cardinality(S) <= 0
               PROVE  \E w \in [0..0 -> Field] : w[0] = 1 /\ \A s \in S : Polynomial(w, s) = 0
    OBVIOUS
  <2>1. S = {}
    BY ServersInField, FS_EmptySet
  <2>2. [i \in 0..0 |-> 1] \in [0..0 -> Field] /\ [i \in 0..0 |-> 1][0] = 1
    BY FieldTyped
  <2> QED BY <2>1, <2>2
<1>2. ASSUME NEW n \in Nat, Claim(n) PROVE Claim(n + 1)
  <2> SUFFICES ASSUME NEW S \in SUBSET Servers, Cardinality(S) <= n + 1
               PROVE  \E w \in [0..n + 1 -> Field] : w[0] = 1 /\ \A s \in S : Polynomial(w, s) = 0
    OBVIOUS
  <2>1. CASE S = {}
    <3>1. [i \in 0..n + 1 |-> 1] \in [0..n + 1 -> Field]
      BY FieldTyped
    <3>2. [i \in 0..n + 1 |-> 1][0] = 1
      <4>1. 0 \in 0..n + 1
        OBVIOUS
      <4> QED BY <4>1
    <3> QED BY <2>1, <3>1, <3>2
  <2>2. CASE S # {}
    <3>1. PICK t \in S : TRUE
      BY <2>2
    <3>2. IsFiniteSet(S) /\ Cardinality(S) \in Nat
      BY ServersInField
    <3>3. PICK Q \in SUBSET Servers : Q = S \ {t} /\ Cardinality(Q) <= n
      <4>1. Cardinality(S \ {t}) = Cardinality(S) - 1
        BY <3>1, <3>2, FS_RemoveElement
      <4>2. S \ {t} \in SUBSET Servers /\ Cardinality(S) - 1 <= n
        BY <3>2
      <4> QED BY <4>1, <4>2
    <3>4. PICK v \in [0..n -> Field] : v[0] = 1 /\ \A s \in Q : Polynomial(v, s) = 0
      BY <1>2, <3>3
    <3>5. Servers \subseteq Field \ {0} /\ t \in Field \ {0}
      BY <3>1, ServersInField
    <3>6. PICK m \in Field : FieldAdd(FieldMul(m, t), 1) = 0
      <4>1. PICK i \in Field : FieldMul(i, t) = 1
        BY <3>5, Inverses
      <4>2. PICK k \in Field : FieldAdd(k, 1) = 0
        <5>1. FieldSub(0, 1) \in Field /\ FieldAdd(FieldSub(0, 1), 1) = 0
          BY FieldTyped, SubLaw
        <5> QED BY <5>1
      <4>3. FieldMul(k, FieldMul(i, t)) = FieldMul(FieldMul(k, i), t)
        <5>1. t \in Int /\ t \in Field
          BY <3>5, FieldTyped
        <5> QED BY <5>1, MulAssociates
      <4>4. FieldMul(k, 1) = k /\ FieldMul(k, i) \in Field
        BY FieldTyped, MulUnits
      <4> QED BY <4>1, <4>2, <4>3, <4>4
    <3>7. PICK c \in [0..n + 1 -> Field] : c = [i \in 0..n + 1 |-> IF i = n + 1 THEN 0 ELSE v[i]]
      <4>1. \A i \in 0..n + 1 : i # n + 1 => i \in 0..n
        OBVIOUS
      <4>2. \A i \in 0..n + 1 : (IF i = n + 1 THEN 0 ELSE v[i]) \in Field
        BY <4>1, FieldTyped
      <4> QED BY <4>2
    <3>8. PICK d \in [0..n + 1 -> Field] : d = [i \in 0..n + 1 |-> IF i = 0 THEN 0 ELSE v[i - 1]]
      <4>1. \A i \in 0..n + 1 : i # 0 => i - 1 \in 0..n
        OBVIOUS
      <4>2. \A i \in 0..n + 1 : (IF i = 0 THEN 0 ELSE v[i - 1]) \in Field
        BY <4>1, FieldTyped
      <4> QED BY <4>2
    <3>9. PICK w \in [0..n + 1 -> Field] : \A i \in 0..n + 1 : w[i] = FieldAdd(c[i], FieldMul(m, d[i]))
      <4>1. ASSUME NEW i \in 0..n + 1 PROVE FieldAdd(c[i], FieldMul(m, d[i])) \in Field
        <5>1. c[i] \in Field /\ d[i] \in Field
          OBVIOUS
        <5> QED BY <5>1, FieldTyped
      <4>2. [i \in 0..n + 1 |-> FieldAdd(c[i], FieldMul(m, d[i]))] \in [0..n + 1 -> Field]
        BY <4>1
      <4> QED BY <4>2
    <3>10. 0 \in 0..n + 1 /\ 0 # n + 1 /\ n + 1 \in 0..n + 1 /\ n + 1 \in Nat
      OBVIOUS
    <3>11. w[0] = 1
      <4>1. c[0] = 1 /\ d[0] = 0
        BY <3>4, <3>7, <3>8, <3>10
      <4>2. FieldMul(m, 0) = 0 /\ FieldAdd(0, 1) = 1 /\ FieldAdd(1, 0) = FieldAdd(0, 1)
        BY FieldTyped, AddLaws, MulUnits
      <4> QED BY <3>9, <3>10, <4>1, <4>2
    <3>12. ASSUME NEW s \in S PROVE Polynomial(w, s) = 0
      <4>1. PICK x \in Field : x = s
        BY <3>5
      <4>2. PICK y \in Field : y = Polynomial(v, x)
        BY TermsTyped
      <4>3. Polynomial(c, x) = y
        <5>1. \A i \in 0..n : v[i] = c[i]
          <6>1. \A i \in 0..n : i \in 0..n + 1 /\ i # n + 1
            OBVIOUS
          <6> QED BY <3>7, <6>1
        <5>2. Polynomial(c, x) = FieldAdd(FieldMul(c[n + 1], Pow(x, n + 1)), Polynomial(v, x))
          BY <5>1, PolynomialTop
        <5>3. c[n + 1] = 0
          BY <3>7, <3>10
        <5>4. FieldMul(0, Pow(x, n + 1)) = 0
          <6>1. Pow(x, n + 1) \in Int
            BY <3>10, TermsTyped
          <6> QED BY <6>1, FieldTyped, MulUnits
        <5> QED BY <4>2, <5>2, <5>3, <5>4, FieldTyped, AddLaws
      <4>4. PICK z \in Field : z = FieldMul(x, y) /\ Polynomial(d, x) = z
        <5>1. \A i \in 0..n : v[i] = d[i + 1]
          <6>1. \A i \in 0..n : i + 1 \in 0..n + 1 /\ i + 1 # 0 /\ (i + 1) - 1 = i
            OBVIOUS
          <6> QED BY <3>8, <6>1
        <5>2. Polynomial(d, x) = FieldAdd(d[0], FieldMul(x, Polynomial(v, x)))
          BY <5>1, Horner
        <5>3. d[0] = 0
          BY <3>8, <3>10
        <5>4. FieldMul(x, y) \in Field
          BY FieldTyped
        <5>5. FieldAdd(0, FieldMul(x, y)) = FieldMul(x, y)
          BY <5>4, FieldTyped, AddLaws
        <5> QED BY <4>2, <5>2, <5>3, <5>4, <5>5
      <4>5. Polynomial(w, x) = FieldAdd(y, FieldMul(m, z))
        <5>1. Polynomial(w, x) = FieldAdd(Polynomial(c, x), FieldMul(m, Polynomial(d, x)))
          <6>1. Combined(w, c, m, d, n + 1)
            BY <3>9, <3>10 DEF Combined
          <6> QED BY <6>1, PolynomialLinear
        <5> QED BY <4>3, <4>4, <5>1
      <4>6. CASE s \in Q
        <5>1. y = 0
          BY <3>4, <4>1, <4>2, <4>6
        <5>2. FieldMul(x, 0) = 0 /\ FieldMul(m, 0) = 0 /\ FieldAdd(0, 0) = 0
          BY FieldTyped, AddLaws, MulUnits
        <5> QED BY <4>1, <4>4, <4>5, <5>1, <5>2
      <4>7. CASE s = t
        <5>1. PICK k \in Field : k = FieldMul(m, x) /\ FieldAdd(k, 1) = 0
          BY <3>6, <4>1, <4>7, FieldTyped
        <5>2. y \in Int
          BY FieldTyped
        <5>3. FieldMul(m, FieldMul(x, y)) = FieldMul(k, y)
          BY <5>1, <5>2, MulAssociates
        <5>4. FieldMul(FieldAdd(k, 1), y) = FieldAdd(FieldMul(k, y), FieldMul(1, y))
          <6>1. 1 \in Field
            BY FieldTyped
          <6> QED BY <5>2, <6>1, Distributes
        <5>5. PICK h \in Field : h = FieldMul(k, y)
          BY FieldTyped
        <5>6. FieldMul(1, y) = y /\ FieldMul(0, y) = 0 /\ FieldAdd(y, h) = FieldAdd(h, y)
          BY <5>2, FieldTyped, MulUnits, AddLaws
        <5> QED BY <4>1, <4>4, <4>5, <5>1, <5>3, <5>4, <5>5, <5>6
      <4> QED BY <3>3, <4>6, <4>7
    <3> QED BY <3>9, <3>11, <3>12
  <2> QED BY <2>1, <2>2
<1>3. Nat \subseteq T
  <2>1. 0 \in T /\ \A n \in Nat : n \in T => n + 1 \in T
    <3> HIDE DEF Claim
    <3> QED BY <1>1, <1>2
  <2> HIDE DEF T
  <2> QED BY <2>1, NumberInduction
<1> QED BY <1>3

-----------------------------------------------------------------------------
(* Arithmetic with doubles.                                                *)

\* The powers share() computes fit the mantissa.
Exact ==
    \A p \in Privacies, x \in Servers : \A i \in 0..NumServers - p - 1 : Pow(x, i) < Pow(2, Mantissa)

\* The powers of two are ordered as their exponents.
LEMMA PowersOfTwo ==
    /\ \A n \in Nat : Pow(2, n) \in Nat
    /\ \A m, n \in Nat : m <= n => Pow(2, m) <= Pow(2, n)
<1> DEFINE T == {n \in Nat : \A m \in Nat : m <= n => Pow(2, m) <= Pow(2, n)}
<1>1. /\ \A n \in Nat : Pow(2, n) \in Nat
      /\ \A n \in Nat : Pow(2, n + 1) = 2 * Pow(2, n)
  <2>1. 2 \in Nat
    OBVIOUS
  <2> QED BY <2>1, PowFacts
<1>2. 0 \in T
  BY <1>1
<1>3. ASSUME NEW n \in Nat, n \in T PROVE n + 1 \in T
  <2> SUFFICES ASSUME NEW m \in Nat, m <= n + 1 PROVE Pow(2, m) <= Pow(2, n + 1)
    OBVIOUS
  <2>1. PICK p \in Nat : p = Pow(2, n) /\ Pow(2, n + 1) = 2 * p
    BY <1>1
  <2>2. CASE m = n + 1
    BY <2>1, <2>2
  <2>3. CASE m # n + 1
    <3>1. m <= n
      BY <2>3
    <3>2. PICK q \in Nat : q = Pow(2, m)
      BY <1>1
    <3>3. q <= p
      BY <1>3, <2>1, <3>1, <3>2
    <3> QED BY <2>1, <3>2, <3>3
  <2> QED BY <2>2, <2>3
<1>4. Nat \subseteq T
  <2> HIDE DEF T
  <2> QED BY <1>2, <1>3, NumberInduction
<1> QED BY <1>1, <1>4

\* While the powers fit, evaluate_polynomial() is the polynomial.
LEMMA EvaluateExact ==
    ASSUME Exact, NEW p \in Privacies, NEW n \in Nat, n = NumServers - p - 1,
           NEW c \in [0..n -> Field], NEW x \in Servers, NEW u
    PROVE  Defined(c, x) /\ Evaluate(c, x, u) = Polynomial(c, x)
<1>1. ASSUME NEW i \in 0..n PROVE Power(x, i) = Pow(x, i) /\ InRange(x, i)
  <2>1. i \in 0..NumServers - p - 1
    OBVIOUS
  <2>2. Pow(x, i) < Pow(2, Mantissa)
    BY <2>1 DEF Exact
  <2>3. Power(x, i) = Pow(x, i)
    BY <2>2 DEF Power, Nearest
  <2>4. Pow(x, i) \in Nat
    <3>1. x \in Nat /\ i \in Nat
      BY CountsAssumption DEF Servers
    <3> QED BY <3>1, PowFacts
  <2>5. Pow(2, Mantissa) <= Pow(2, IntWidth) /\ Pow(2, Mantissa) \in Nat /\ Pow(2, IntWidth) \in Nat
    BY WidthAssumption, PowersOfTwo
  <2>6. PICK y \in Nat, a \in Nat, b \in Nat : y = Pow(x, i) /\ a = Pow(2, Mantissa) /\ b = Pow(2, IntWidth)
    BY <2>4, <2>5
  <2>7. y < b
    BY <2>2, <2>5, <2>6
  <2> QED BY <2>3, <2>6, <2>7 DEF InRange
<1>2. DOMAIN c = 0..n
  OBVIOUS
<1>3. Defined(c, x)
  BY <1>1, <1>2 DEF Defined
<1>4. x \in Field
  BY ServersInField
<1>5. ASSUME NEW i \in 0..n
      PROVE  (IF c[i] = 0 THEN 0 ELSE FieldMul(c[i], Power(x, i))) = FieldMul(c[i], Pow(x, i))
  <2>1. CASE c[i] = 0
    <3>1. Pow(x, i) \in Int
      BY <1>4, TermsTyped
    <3>2. FieldMul(0, Pow(x, i)) = 0
      BY <3>1, FieldTyped, MulUnits
    <3> QED BY <2>1, <3>2
  <2>2. CASE c[i] # 0
    BY <1>1, <2>2
  <2> QED BY <2>1, <2>2
<1>6. [i \in DOMAIN c |-> IF c[i] = 0 THEN 0 ELSE FieldMul(c[i], Power(x, i))]
        = [i \in DOMAIN c |-> FieldMul(c[i], Pow(x, i))]
  BY <1>2, <1>5
<1> QED BY <1>3, <1>6 DEF Evaluate, Polynomial

-----------------------------------------------------------------------------
(* The retrieval.                                                          *)

\* Every variable keeps its type.
ShamirTypes ==
    /\ row \in [Images -> Field] /\ index \in Images /\ privacy \in Privacies
    /\ img \in 0..NumImages /\ acc \in [Servers -> Field]
    /\ have \in SUBSET Servers /\ res \in Field
    /\ pc \in {"share", "send", "collect", "done", "threw"}

\* How far fetch_image has come; only in "threw" the degree may be negative.
Progress ==
    /\ pc \in {"share", "send"} => img < NumImages
    /\ pc \in {"collect", "done"} => img = NumImages
    /\ pc \in {"send", "collect", "done"} => Degree \in Nat

\* What share() has just returned.
FreshShares == pc = "send" => coeff \in Coefficients(Bit(img)) /\ SharesOnPolynomial

\* The inductive invariant.
ShamirInv == ShamirTypes /\ Progress /\ FreshShares /\ ResponsesOnPolynomial /\ Retrieved

\* The invariant holds at the start: the polynomial 0 is the sum of no shares.
LEMMA ShamirInit == Init => ShamirInv
<1> SUFFICES ASSUME Init PROVE ShamirInv
  OBVIOUS
<1>1. ShamirTypes
  BY FieldTyped, CountsAssumption DEF Init, ShamirTypes
<1>2. Progress
  BY CountsAssumption DEF Init, Progress
<1>3. FreshShares /\ Retrieved
  BY DEF Init, FreshShares, Retrieved
<1>4. ResponsesOnPolynomial
  <2> SUFFICES ASSUME Degree \in Nat
               PROVE  \E c \in [0..Degree -> Field] :
                          /\ c[0] = IF index < img THEN row[index] ELSE 0
                          /\ \A s \in Servers : acc[s] = Polynomial(c, s)
    BY DEF ResponsesOnPolynomial
  <2>1. PICK n \in Nat : n = Degree
    OBVIOUS
  <2> DEFINE c == [i \in 0..n |-> 0]
  <2>2. c \in [0..n -> Field]
    BY FieldTyped
  <2>3. c[0] = 0
    <3>1. 0 \in 0..n
      OBVIOUS
    <3> QED BY <3>1
  <2>4. ~(index < img) /\ \A s \in Servers : acc[s] = 0
    BY DEF Init, Images
  <2>5. ASSUME NEW s \in Servers PROVE Polynomial(c, s) = 0
    <3>1. PICK x \in Field : x = s
      BY ServersInField
    <3>2. Terms(c, x) \in [0..n -> Field] /\ IsFiniteSet(0..n) /\ Polynomial(c, x) = FieldSum(Terms(c, x))
      BY <2>2, TermsTyped
    <3>3. ASSUME NEW i \in 0..n PROVE Terms(c, x)[i] = 0
      <4>1. Terms(c, x)[i] = FieldMul(c[i], Pow(x, i)) /\ Pow(x, i) \in Int
        BY <2>2, TermsTyped
      <4>2. c[i] = 0
        OBVIOUS
      <4>3. FieldMul(0, Pow(x, i)) = 0
        BY <4>1, FieldTyped, MulUnits
      <4> HIDE DEF c
      <4> QED BY <4>1, <4>2, <4>3
    <3> HIDE DEF c
    <3>4. PICK f, S : /\ f = Terms(c, x) /\ S = 0..n
                      /\ f \in [S -> Field] /\ IsFiniteSet(S) /\ \A i \in S : f[i] = 0
      BY <3>2, <3>3
    <3>5. f \in [S -> Field] /\ IsFiniteSet(S) /\ \A i \in S : f[i] = 0
      BY <3>4
    <3>6. FieldSum(f) = 0
      BY <3>5, SumZero
    <3> QED BY <3>1, <3>2, <3>4, <3>6
  <2> HIDE DEF c
  <2> QED BY <2>1, <2>2, <2>3, <2>4, <2>5
<1> QED BY <1>1, <1>2, <1>3, <1>4 DEF ShamirInv

\* Shares of one more bit.
LEMMA ShareStep ==
    ASSUME Exact, ShamirInv, ShareBit
    PROVE  ShamirInv'
<1> USE DEF ShamirInv
<1>1. UNCHANGED <<row, index, privacy, img, acc, have, res>> /\ pc = "share"
  BY DEF ShareBit
<1>2. Degree' = Degree /\ Degree \in Int
  BY <1>1, CountsAssumption DEF Degree, ShamirTypes
<1>3. \/ Degree \in Nat /\ coeff' \in Coefficients(Bit(img)) /\ pc' = "send"
      \/ pc' = "threw"
  BY <1>2 DEF ShareBit
<1>4. ShamirTypes'
  BY <1>1, <1>3 DEF ShamirTypes
<1>5. Progress'
  BY <1>1, <1>2, <1>3 DEF Progress
<1>6. ResponsesOnPolynomial'
  BY <1>1, <1>2 DEF ResponsesOnPolynomial
<1>7. Retrieved'
  BY <1>3 DEF Retrieved
<1>8. FreshShares'
  <2> SUFFICES ASSUME pc' = "send" PROVE coeff' \in Coefficients(Bit(img)) /\ SharesOnPolynomial'
    BY <1>1 DEF FreshShares, Coefficients, Bit, Degree
  <2>1. coeff' \in Coefficients(Bit(img)) /\ Degree \in Nat
    BY <1>3
  <2>2. PICK u : shares' = [x \in Servers |-> Evaluate(coeff', x, u[x])]
    BY <1>3 DEF ShareBit
  <2>3. PICK n \in Nat : n = Degree /\ n = NumServers - privacy - 1 /\ coeff' \in [0..n -> Field]
    BY <2>1 DEF Degree, Coefficients
  <2>4. privacy \in Privacies
    BY DEF ShamirTypes
  <2>5. ASSUME NEW x \in Servers PROVE shares'[x] = Polynomial(coeff', x)
    <3>1. Evaluate(coeff', x, u[x]) = Polynomial(coeff', x)
      BY <2>3, <2>4, EvaluateExact
    <3> QED BY <2>2, <3>1
  <2> QED BY <2>1, <2>5 DEF SharesOnPolynomial
<1> QED BY <1>4, <1>5, <1>6, <1>7, <1>8

\* The servers' sums move on to another polynomial.
LEMMA SendStep ==
    ASSUME ShamirInv, SendShares
    PROVE  ShamirInv'
<1> USE DEF ShamirInv
<1>1. /\ UNCHANGED <<row, index, privacy, have, res>> /\ pc = "send" /\ img' = img + 1
      /\ acc' = [s \in Servers |-> FieldAdd(acc[s], FieldMul(shares[s], row[img]))]
      /\ pc' = IF img + 1 < NumImages THEN "share" ELSE "collect"
  BY DEF SendShares
<1>2. Degree' = Degree /\ Degree \in Nat
  BY <1>1 DEF Degree, Progress
<1>3. img \in Images /\ img \in Nat /\ img < NumImages /\ index \in Nat
  BY <1>1, CountsAssumption DEF ShamirTypes, Progress, Images
<1>4. PICK r \in Field : r = row[img]
  BY <1>3 DEF ShamirTypes
<1>5. PICK n \in Nat : n = Degree
  BY <1>2
<1>6. PICK c \in [0..n -> Field] : /\ c[0] = IF index < img THEN row[index] ELSE 0
                                   /\ \A s \in Servers : acc[s] = Polynomial(c, s)
  BY <1>5 DEF ResponsesOnPolynomial
<1>7. PICK d \in [0..n -> Field] : d = coeff /\ d[0] = Bit(img) /\ \A s \in Servers : shares[s] = Polynomial(d, s)
  BY <1>1, <1>5 DEF FreshShares, Coefficients, SharesOnPolynomial
<1>8. PICK e : Combined(e, c, r, d, n)
  <2>1. ASSUME NEW i \in 0..n PROVE FieldAdd(c[i], FieldMul(r, d[i])) \in Field
    <3>1. c[i] \in Field /\ d[i] \in Field
      OBVIOUS
    <3> QED BY <3>1, FieldTyped
  <2> DEFINE e == [i \in 0..n |-> FieldAdd(c[i], FieldMul(r, d[i]))]
  <2>2. e \in [0..n -> Field] /\ \A i \in 0..n : e[i] = FieldAdd(c[i], FieldMul(r, d[i]))
    BY <2>1
  <2> HIDE DEF e
  <2>3. Combined(e, c, r, d, n)
    BY <2>2 DEF Combined
  <2> QED BY <2>3
<1>9. ASSUME NEW s \in Servers
      PROVE  acc'[s] = Polynomial(e, s) /\ acc'[s] \in Field
  <2>1. PICK x \in Field : x = s
    BY ServersInField
  <2>2. PICK p \in Field, q \in Field : p = Polynomial(c, x) /\ q = Polynomial(d, x)
    <3>1. Polynomial(c, x) \in Field /\ Polynomial(d, x) \in Field
      BY TermsTyped
    <3> QED BY <3>1
  <2>3. Polynomial(e, x) = FieldAdd(p, FieldMul(r, q))
    BY <1>8, <2>2, PolynomialLinear
  <2>4. acc'[s] = FieldAdd(p, FieldMul(q, r))
    BY <1>1, <1>4, <1>6, <1>7, <2>1, <2>2
  <2>5. FieldMul(q, r) = FieldMul(r, q) /\ FieldAdd(p, FieldMul(q, r)) \in Field
    BY FieldTyped, MulCommutes
  <2> QED BY <2>1, <2>3, <2>4, <2>5
<1>10. e \in [0..n -> Field] /\ e[0] = FieldAdd(c[0], FieldMul(r, d[0]))
  <2>1. 0 \in 0..n
    OBVIOUS
  <2> QED BY <1>8, <2>1 DEF Combined
<1>11. e[0] = IF index < img + 1 THEN row[index] ELSE 0
  <2>1. CASE img = index
    <3>1. d[0] = 1 /\ c[0] = 0 /\ index < img + 1 /\ row[index] = r
      BY <1>3, <1>4, <1>6, <1>7, <2>1 DEF Bit
    <3>2. FieldMul(r, 1) = r /\ FieldAdd(0, r) = r
      BY FieldTyped, AddLaws, MulUnits
    <3> QED BY <1>10, <3>1, <3>2
  <2>2. CASE img # index
    <3>1. d[0] = 0 /\ (index < img + 1 <=> index < img)
      BY <1>3, <1>7, <2>2 DEF Bit
    <3>2. PICK a \in Field : a = c[0]
      <4>1. 0 \in 0..n
        OBVIOUS
      <4> QED BY <4>1
    <3>3. FieldMul(r, 0) = 0 /\ FieldAdd(a, 0) = FieldAdd(0, a) /\ FieldAdd(0, a) = a
      BY FieldTyped, AddLaws, MulUnits
    <3> QED BY <1>6, <1>10, <3>1, <3>2, <3>3
  <2> QED BY <2>1, <2>2
<1>12. ShamirTypes'
  <2>1. acc' \in [Servers -> Field]
    <3>1. \A s \in Servers : FieldAdd(acc[s], FieldMul(shares[s], row[img])) \in Field
      BY <1>1, <1>9
    <3> QED BY <1>1, <3>1
  <2>2. img' \in 0..NumImages
    BY <1>1, <1>3, CountsAssumption
  <2> QED BY <1>1, <2>1, <2>2 DEF ShamirTypes
<1>13. Progress'
  BY <1>1, <1>2, <1>3, CountsAssumption DEF Progress
<1>14. FreshShares' /\ Retrieved'
  BY <1>1 DEF FreshShares, Retrieved
<1>15. ResponsesOnPolynomial'
  <2>1. Degree' = n
    BY <1>2, <1>5
  <2>2. \A s \in Servers : acc'[s] = Polynomial(e, s)
    BY <1>9
  <2>3. e[0] = IF index' < img' THEN row'[index'] ELSE 0
    BY <1>1, <1>11
  <2> QED BY <1>10, <2>1, <2>2, <2>3 DEF ResponsesOnPolynomial
<1> QED BY <1>12, <1>13, <1>14, <1>15

\* More than Degree responses: their combination is the word wanted.
LEMMA ReconstructStep ==
    ASSUME ShamirInv, Reconstruct
    PROVE  ShamirInv'
<1> USE DEF ShamirInv
<1>1. /\ UNCHANGED <<row, index, privacy, img, coeff, shares, acc>> /\ pc = "collect" /\ have' \in SUBSET Servers
      /\ \/ pc' = "threw" /\ res' = res
         \/ /\ pc' = "done" /\ ~TooFew(have')
            /\ res' = FieldSum([s \in have' |-> FieldMul(Lagrange(have', s), acc[s])])
  BY DEF Reconstruct
<1>2. Degree' = Degree /\ Degree \in Nat
  BY <1>1 DEF Degree, Progress
<1>3. pc' = "done" => res' = row[index] /\ row[index] \in Field
  <2> SUFFICES ASSUME pc' = "done" PROVE res' = row[index] /\ row[index] \in Field
    OBVIOUS
  <2>1. PICK n \in Nat : n = Degree
    BY <1>2
  <2>2. PICK S \in SUBSET Servers : S = have' /\ Cardinality(S) > n
    <3>1. Cardinality(have') \in Nat /\ ~(Cardinality(have') < n + 1)
      BY <1>1, <2>1, ServersInField DEF TooFew
    <3> QED BY <1>1, <3>1
  <2>3. PICK c \in [0..n -> Field] : /\ c[0] = IF index < img THEN row[index] ELSE 0
                                     /\ \A s \in Servers : acc[s] = Polynomial(c, s)
    BY <2>1 DEF ResponsesOnPolynomial
  <2>4. acc \in [Servers -> Field] /\ \A s \in S : acc[s] = Polynomial(c, s)
    BY <2>3 DEF ShamirTypes
  <2>5. Combination(S, acc) = c[0]
    BY <2>2, <2>4, Interpolation
  <2>6. index < img /\ row[index] \in Field
    BY <1>1, CountsAssumption DEF ShamirTypes, Progress, Images
  <2> QED BY <1>1, <2>2, <2>3, <2>5, <2>6 DEF Combination
<1>4. ShamirTypes'
  BY <1>1, <1>3 DEF ShamirTypes
<1>5. Progress'
  BY <1>1, <1>2 DEF Progress
<1>6. FreshShares'
  BY <1>1 DEF FreshShares
<1>7. ResponsesOnPolynomial'
  BY <1>1, <1>2 DEF ResponsesOnPolynomial
<1>8. Retrieved'
  BY <1>1, <1>3 DEF Retrieved
<1> QED BY <1>4, <1>5, <1>6, <1>7, <1>8

\* The invariant of a retrieval with exact powers.
LEMMA ShamirInvariant ==
    ASSUME Exact
    PROVE  Spec => []ShamirInv
<1>1. Init => ShamirInv
  BY ShamirInit
<1>2. ShamirInv /\ [Next]_vars => ShamirInv'
  <2> SUFFICES ASSUME ShamirInv, [Next]_vars PROVE ShamirInv'
    OBVIOUS
  <2>1. CASE ShareBit
    BY <2>1, ShareStep
  <2>2. CASE SendShares
    BY <2>2, SendStep
  <2>3. CASE Reconstruct
    BY <2>3, ReconstructStep
  <2>4. CASE Stopped \/ UNCHANGED vars
    BY <2>4 DEF Stopped, vars, ShamirInv, ShamirTypes, Progress, FreshShares, ResponsesOnPolynomial,
                Retrieved, SharesOnPolynomial, Degree, Coefficients, Bit
  <2> QED BY <2>1, <2>2, <2>3, <2>4 DEF Next
<1> QED BY <1>1, <1>2, PTL DEF Spec

\* While the powers fit a double, the responses of all servers lie on one
\* polynomial whose value at 0 is the word wanted, or 0 before its turn.
THEOREM ResponsesFit ==
    ASSUME Exact
    PROVE  Spec => []ResponsesOnPolynomial
<1>1. ShamirInv => ResponsesOnPolynomial
  BY DEF ShamirInv
<1> QED BY <1>1, ShamirInvariant, PTL

\* While the powers fit a double, any Degree + 1 responses yield the word wanted.
THEOREM RetrievesWanted ==
    ASSUME Exact
    PROVE  Spec => []Retrieved
<1>1. ShamirInv => Retrieved
  BY DEF ShamirInv
<1> QED BY <1>1, ShamirInvariant, PTL

\* Any Degree shares on a polynomial are shares of either bit.
LEMMA EitherBit ==
    ASSUME ShamirInv, pc = "send"
    PROVE  Independent(Degree)
<1>1. PICK n \in Nat : n = Degree
  BY DEF ShamirInv, Progress
<1>2. PICK c \in [0..n -> Field] : \A s \in Servers : shares[s] = Polynomial(c, s)
  BY <1>1 DEF ShamirInv, FreshShares, Coefficients, SharesOnPolynomial
<1> SUFFICES ASSUME NEW T \in SUBSET Servers, Cardinality(T) <= n, NEW b \in {0, 1}
             PROVE  \E e \in Coefficients(b) : \A x \in T : Polynomial(e, x) = shares[x]
  BY <1>1 DEF Independent
<1>3. PICK w \in [0..n -> Field] : w[0] = 1 /\ \A t \in T : Polynomial(w, t) = 0
  BY Vanishing
<1>4. PICK a \in Field : a = c[0]
  <2>1. 0 \in 0..n
    OBVIOUS
  <2> QED BY <2>1
<1>5. b \in Field
  BY FieldTyped
<1>6. PICK r \in Field : FieldAdd(r, a) = b
  <2>1. FieldSub(b, a) \in Field /\ FieldAdd(FieldSub(b, a), a) = b
    BY <1>5, FieldTyped, SubLaw
  <2> QED BY <2>1
<1>7. PICK e : Combined(e, c, r, w, n)
  <2>1. ASSUME NEW i \in 0..n PROVE FieldAdd(c[i], FieldMul(r, w[i])) \in Field
    <3>1. c[i] \in Field /\ w[i] \in Field
      OBVIOUS
    <3> QED BY <3>1, FieldTyped
  <2> DEFINE e == [i \in 0..n |-> FieldAdd(c[i], FieldMul(r, w[i]))]
  <2>2. e \in [0..n -> Field] /\ \A i \in 0..n : e[i] = FieldAdd(c[i], FieldMul(r, w[i]))
    BY <2>1
  <2> HIDE DEF e
  <2>3. Combined(e, c, r, w, n)
    BY <2>2 DEF Combined
  <2> QED BY <2>3
<1>8. e \in Coefficients(b)
  <2>1. 0 \in 0..n
    OBVIOUS
  <2>2. e \in [0..n -> Field] /\ e[0] = FieldAdd(a, FieldMul(r, 1))
    BY <1>3, <1>4, <1>7, <2>1 DEF Combined
  <2>3. FieldMul(r, 1) = r /\ FieldAdd(a, r) = FieldAdd(r, a)
    BY FieldTyped, AddLaws, MulUnits
  <2> QED BY <1>1, <1>6, <2>2, <2>3 DEF Coefficients
<1>9. ASSUME NEW x \in T PROVE Polynomial(e, x) = shares[x]
  <2>1. PICK y \in Field : y = x
    BY ServersInField
  <2>2. PICK p \in Field : p = Polynomial(c, y)
    BY TermsTyped
  <2>3. Polynomial(e, y) = FieldAdd(p, FieldMul(r, Polynomial(w, y)))
    BY <1>7, <2>2, PolynomialLinear
  <2>4. Polynomial(w, y) = 0
    BY <1>3, <2>1
  <2>5. FieldMul(r, 0) = 0 /\ FieldAdd(p, 0) = FieldAdd(0, p) /\ FieldAdd(0, p) = p
    BY FieldTyped, AddLaws, MulUnits
  <2> QED BY <1>2, <2>1, <2>2, <2>3, <2>4, <2>5
<1> QED BY <1>8, <1>9

\* While the powers fit a double, Degree shares tell nothing of the bit.
THEOREM HidesBit ==
    ASSUME Exact
    PROVE  Spec => []DegreeHides
<1>1. ShamirInv => DegreeHides
  BY EitherBit DEF DegreeHides
<1> QED BY <1>1, ShamirInvariant, PTL
=============================================================================
