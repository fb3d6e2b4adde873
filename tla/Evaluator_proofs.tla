-------------------------- MODULE Evaluator_proofs --------------------------
(***************************************************************************)
(* Results of the operations on ciphertexts: what they return is valid,    *)
(* what they leave behind when they throw is harmless, and what they       *)
(* return decrypts to the operation on what the operands decrypt to - for  *)
(* every modulus, key, number of polynomials, level, operand and list.     *)
(***************************************************************************)
EXTENDS Evaluator, FiniteSetTheorems, WellFoundedInduction, TLAPS

-----------------------------------------------------------------------------
(* Induction, on finite sets and on numbers: what a proof by induction      *)
(* shows of all is the absence of a smallest exception.                     *)

\* A set of finite sets that is not empty has a smallest member.
LEMMA SmallestSet ==
    ASSUME NEW S, NEW T, T \subseteq FiniteSubsetsOf(S), T # {}
    PROVE  \E x \in T : \A y \in T : y \subseteq x => y = x
<1> DEFINE R == StrictSubsetOrdering(S)
           F == FiniteSubsetsOf(S)
<1>1. IsWellFoundedOn(R, F)
  BY FS_StrictSubsetOrderingWellFounded
<1>2. PICK x \in T : \A y \in T : ~ (<<y, x>> \in R)
  <2> HIDE DEF R, F
  <2> QED BY <1>1, WFMin DEF F
<1>3. \A y \in T : y \in SUBSET S
  BY DEF FiniteSubsetsOf
<1> QED BY <1>2, <1>3 DEF StrictSubsetOrdering

\* A set of numbers that is not empty has a smallest member.
LEMMA SmallestNumber ==
    ASSUME NEW T, T \subseteq Nat, T # {}
    PROVE  \E x \in T : \A y \in T : x <= y
<1> DEFINE U == {0..n : n \in T}
<1>1. U \subseteq FiniteSubsetsOf(Nat) /\ U # {}
  <2>1. \A n \in T : IsFiniteSet(0..n) /\ 0..n \subseteq Nat
    BY FS_Interval
  <2> QED BY <2>1 DEF FiniteSubsetsOf
<1>2. PICK x \in U : \A y \in U : y \subseteq x => y = x
  <2> HIDE DEF U
  <2> QED BY <1>1, SmallestSet
<1>3. PICK n \in T : x = 0..n
  OBVIOUS
<1>4. ASSUME NEW m \in T, m < n PROVE FALSE
  <2>1. 0..m \subseteq 0..n /\ n \notin 0..m /\ n \in 0..n
    BY <1>4
  <2> QED BY <1>2, <1>3, <2>1
<1>5. \A m \in T : n <= m
  BY <1>4
<1> QED BY <1>5

\* What holds of 0, and with every number of the next, holds of all.
LEMMA NumberInduction ==
    ASSUME NEW T, 0 \in T, \A n \in Nat : n \in T => n + 1 \in T
    PROVE  Nat \subseteq T
<1> SUFFICES ASSUME Nat \ T # {} PROVE FALSE
  OBVIOUS
<1>1. PICK x \in Nat \ T : \A y \in Nat \ T : x <= y
  BY SmallestNumber
<1>2. x - 1 \in Nat /\ x - 1 \in T
  BY <1>1
<1> QED BY <1>2

-----------------------------------------------------------------------------
(* Recursive functions on an interval.                                     *)

LooksBack(h, lo, hi, T) ==
    /\ h \in [[lo..hi -> T] \X (lo..hi) -> T]
    /\ \A f, g \in [lo..hi -> T], j \in lo..hi :
          (\A i \in lo..j - 1 : f[i] = g[i]) => h[<<f, j>>] = h[<<g, j>>]

\* A function on an interval may be defined by what it is at a number, given
\* what it is at the numbers before.
LEMMA Recursion ==
    ASSUME NEW lo \in Int, NEW hi \in Int, NEW T, NEW b \in T, NEW h, LooksBack(h, lo, hi, T)
    PROVE  \E g \in [lo..hi -> T] : \A j \in lo..hi : g[j] = h[<<g, j>>]
<1> DEFINE D == lo..hi
           Upto(g, k) == \A j \in D : j < lo + k => g[j] = h[<<g, j>>]
           U == {k \in Nat : \E g \in [D -> T] : Upto(g, k)}
<1> USE DEF LooksBack
<1>1. 0 \in U
  <2>1. [j \in D |-> b] \in [D -> T] /\ Upto([j \in D |-> b], 0)
    OBVIOUS
  <2> HIDE DEF D, Upto
  <2> QED BY <2>1
<1>2. ASSUME NEW k \in Nat, k \in U PROVE k + 1 \in U
  <2>1. PICK g \in [D -> T] : Upto(g, k)
    BY <1>2
  <2>2. PICK m \in Int : m = lo + k
    OBVIOUS
  <2>3. CASE m \notin D
    <3>1. Upto(g, k + 1)
      BY <2>1, <2>2, <2>3
    <3> HIDE DEF Upto
    <3> QED BY <3>1
  <2>4. CASE m \in D
    <3>1. PICK v \in T : v = h[<<g, m>>]
      BY <2>4
    <3> DEFINE e == [g EXCEPT ![m] = v]
    <3>2. e \in [D -> T] /\ e[m] = v /\ \A j \in D : j # m => e[j] = g[j]
      BY <2>4, <3>1
    <3> HIDE DEF e
    <3>3. ASSUME NEW j \in D, j <= m PROVE h[<<e, j>>] = h[<<g, j>>]
      <4>1. \A i \in lo..j - 1 : i \in D /\ i # m
        BY <2>2, <2>4, <3>3
      <4>2. \A i \in lo..j - 1 : e[i] = g[i]
        BY <3>2, <4>1
      <4> QED BY <3>2, <4>2
    <3>4. Upto(e, k + 1)
      <4> SUFFICES ASSUME NEW j \in D, j < lo + (k + 1) PROVE e[j] = h[<<e, j>>]
        OBVIOUS
      <4>1. CASE j = m
        <5>1. m \in D /\ m <= m
          BY <2>2, <2>4
        <5> HIDE DEF D
        <5>2. h[<<e, m>>] = h[<<g, m>>]
          BY <3>3, <5>1
        <5> QED BY <3>1, <3>2, <4>1, <5>2
      <4>2. CASE j # m
        <5>1. j <= m /\ j < lo + k
          BY <2>2, <4>2
        <5> QED BY <2>1, <3>2, <3>3, <4>2, <5>1
      <4> QED BY <4>1, <4>2
    <3> HIDE DEF Upto
    <3> QED BY <3>2, <3>4
  <2> QED BY <2>3, <2>4
<1>3. Nat \subseteq U
  <2> HIDE DEF U
  <2> QED BY <1>1, <1>2, NumberInduction
<1>4. PICK k \in Nat : lo + k > hi
  <2>1. CASE hi < lo
    BY <2>1, 0 \in Nat
  <2>2. CASE hi >= lo
    <3>1. hi - lo + 1 \in Nat /\ lo + (hi - lo + 1) > hi
      BY <2>2
    <3> QED BY <3>1
  <2> QED BY <2>1, <2>2
<1>5. PICK g \in [D -> T] : Upto(g, k)
  <2> HIDE DEF D, Upto
  <2> QED BY <1>3
<1> QED BY <1>4, <1>5

Steps(step, lo, hi, T) == step \in [T \X (lo..hi) -> T]
Walks(g, step, b, lo, hi, T) ==
    g \in [lo..hi -> T] /\ \A j \in lo..hi : g[j] = IF j = lo THEN b ELSE step[<<g[j - 1], j>>]

\* In particular by what it is after one step from the number before.
LEMMA Loop ==
    ASSUME NEW lo \in Int, NEW hi \in Int, NEW T, NEW b \in T, NEW step, Steps(step, lo, hi, T)
    PROVE  \E g : Walks(g, step, b, lo, hi, T)
<1> DEFINE D == lo..hi
           h == [p \in [D -> T] \X D |-> IF p[2] = lo THEN b ELSE step[<<p[1][p[2] - 1], p[2]>>]]
<1> USE DEF Steps
<1>1. \A j \in D : j # lo => j - 1 \in D /\ j - 1 \in lo..j - 1
  OBVIOUS
<1>2. \A g \in [D -> T], j \in D : h[<<g, j>>] = IF j = lo THEN b ELSE step[<<g[j - 1], j>>]
  OBVIOUS
<1>3. h \in [[D -> T] \X D -> T]
  <2>1. ASSUME NEW g \in [D -> T], NEW j \in D, j # lo PROVE step[<<g[j - 1], j>>] \in T
    <3>1. g[j - 1] \in T
      BY <1>1, <2>1
    <3> QED BY <3>1
  <2>2. \A p \in [D -> T] \X D : (IF p[2] = lo THEN b ELSE step[<<p[1][p[2] - 1], p[2]>>]) \in T
    <3> HIDE DEF D
    <3> QED BY <2>1
  <2> HIDE DEF D
  <2> QED BY <2>2
<1>4. \A f, g \in [D -> T], j \in D : (\A i \in lo..j - 1 : f[i] = g[i]) => h[<<f, j>>] = h[<<g, j>>]
  <2> HIDE DEF h, D
  <2> SUFFICES ASSUME NEW f \in [D -> T], NEW g \in [D -> T], NEW j \in D, \A i \in lo..j - 1 : f[i] = g[i]
               PROVE  h[<<f, j>>] = h[<<g, j>>]
    OBVIOUS
  <2>1. CASE j = lo
    BY <1>2, <2>1
  <2>2. CASE j # lo
    <3>1. f[j - 1] = g[j - 1]
      BY <1>1, <2>2
    <3>2. h[<<f, j>>] = step[<<f[j - 1], j>>] /\ h[<<g, j>>] = step[<<g[j - 1], j>>]
      BY <1>2, <2>2
    <3> QED BY <3>1, <3>2
  <2> QED BY <2>1, <2>2
<1> HIDE DEF h
<1>5. LooksBack(h, lo, hi, T)
  BY <1>3, <1>4 DEF LooksBack
<1>6. PICK g \in [D -> T] : \A j \in D : g[j] = h[<<g, j>>]
  BY <1>5, Recursion
<1> HIDE DEF D
<1>7. \A j \in D : g[j] = IF j = lo THEN b ELSE step[<<g[j - 1], j>>]
  BY <1>2, <1>6
<1> QED BY <1>6, <1>7 DEF D, Walks

-----------------------------------------------------------------------------
(* Residues.                                                               *)

\* What % and \div are on integers, negative ones included.
LEMMA Division ==
    ASSUME NEW x \in Int
    PROVE  x % P \in Residues /\ x \div P \in Int /\ x = (x % P) + (x \div P) * P
BY EvaluatorAssumption DEF Residues

\* The only multiple of the modulus closer to 0 than the modulus is 0.
LEMMA SmallMultiple ==
    ASSUME NEW k \in Int, NEW d \in Int, d = k * P, -P < d, d < P
    PROVE  d = 0
<1>1. CASE k >= 1
  <2>1. k * P >= P
    BY <1>1, EvaluatorAssumption
  <2> QED BY <2>1, EvaluatorAssumption
<1>2. CASE k <= -1
  <2>1. k * P <= -P
    BY <1>2, EvaluatorAssumption
  <2> QED BY <2>1, EvaluatorAssumption
<1>3. CASE k = 0
  BY <1>3, EvaluatorAssumption
<1> QED BY <1>1, <1>2, <1>3

\* Numbers with the same residue.
Cong(a, b) == \E k \in Int : a = b + k * P

\* Residues are integers, of which no two are congruent.
LEMMA ResidueFacts ==
    /\ Residues \subseteq Int /\ 0 \in Residues
    /\ \A a, b \in Residues : Cong(a, b) => a = b
<1>1. Residues \subseteq Int /\ 0 \in Residues
  BY EvaluatorAssumption DEF Residues
<1>2. ASSUME NEW a \in Residues, NEW b \in Residues, Cong(a, b) PROVE a = b
  <2>1. PICK k \in Int : a = b + k * P
    BY <1>2 DEF Cong
  <2>2. PICK d \in Int : d = a - b
    BY <1>1
  <2>3. d = k * P /\ -P < d /\ d < P
    BY <2>1, <2>2, EvaluatorAssumption DEF Residues
  <2>4. d = 0
    BY <2>3, SmallMultiple
  <2> QED BY <1>1, <2>2, <2>4
<1> QED BY <1>1, <1>2

\* Congruence is an equivalence ...
LEMMA CongEquivalence ==
    /\ \A a \in Int : Cong(a, a)
    /\ \A a, b \in Int : Cong(a, b) => Cong(b, a)
    /\ \A a, b, c \in Int : Cong(a, b) /\ Cong(b, c) => Cong(a, c)
<1>1. ASSUME NEW a \in Int PROVE Cong(a, a)
  <2>1. a = a + 0 * P
    BY EvaluatorAssumption
  <2> QED BY <2>1 DEF Cong
<1>2. ASSUME NEW a \in Int, NEW b \in Int, Cong(a, b) PROVE Cong(b, a)
  <2>1. PICK k \in Int : a = b + k * P
    BY <1>2 DEF Cong
  <2>2. -k \in Int /\ b = a + (-k) * P
    BY <2>1, EvaluatorAssumption
  <2> QED BY <2>2 DEF Cong
<1>3. ASSUME NEW a \in Int, NEW b \in Int, NEW c \in Int, Cong(a, b), Cong(b, c) PROVE Cong(a, c)
  <2>1. PICK k \in Int, l \in Int : a = b + k * P /\ b = c + l * P
    BY <1>3 DEF Cong
  <2>2. k + l \in Int /\ a = c + (k + l) * P
    BY <2>1, EvaluatorAssumption
  <2> QED BY <2>2 DEF Cong
<1> QED BY <1>1, <1>2, <1>3

\* ... that sums, differences and products respect, ...
LEMMA CongOps ==
    ASSUME NEW a \in Int, NEW b \in Int, NEW c \in Int, NEW d \in Int, Cong(a, b), Cong(c, d)
    PROVE  Cong(a + c, b + d) /\ Cong(a - c, b - d) /\ Cong(a * c, b * d)
<1>1. PICK k \in Int, l \in Int : a = b + k * P /\ c = d + l * P
  BY DEF Cong
<1>2. Cong(a + c, b + d)
  <2>1. k + l \in Int /\ a + c = (b + d) + (k + l) * P
    BY <1>1, EvaluatorAssumption
  <2> QED BY <2>1 DEF Cong
<1>3. Cong(a - c, b - d)
  <2>1. k - l \in Int /\ a - c = (b - d) + (k - l) * P
    BY <1>1, EvaluatorAssumption
  <2> QED BY <2>1 DEF Cong
<1>4. Cong(a * c, b * d)
  <2>1. PICK u \in Int, v \in Int : u = k * c /\ v = b * l
    OBVIOUS
  <2>2. a * c = b * c + u * P
    <3>1. a * c = b * c + (k * P) * c
      BY <1>1, EvaluatorAssumption
    <3>2. (k * P) * c = (k * c) * P
      BY EvaluatorAssumption
    <3> QED BY <2>1, <3>1, <3>2
  <2>3. b * c = b * d + v * P
    <3>1. b * c = b * d + b * (l * P)
      BY <1>1, EvaluatorAssumption
    <3>2. b * (l * P) = (b * l) * P
      BY EvaluatorAssumption
    <3> QED BY <2>1, <3>1, <3>2
  <2>4. u + v \in Int /\ b * d \in Int /\ u * P + v * P = (u + v) * P
    BY EvaluatorAssumption
  <2>5. u * P \in Int /\ v * P \in Int
    BY EvaluatorAssumption
  <2>6. a * c = b * d + (u + v) * P
    BY <2>2, <2>3, <2>4, <2>5
  <2> QED BY <2>4, <2>6 DEF Cong
<1> QED BY <1>2, <1>3, <1>4

\* ... and taking the residue.
LEMMA CongMod ==
    ASSUME NEW a \in Int
    PROVE  a % P \in Int /\ a % P \in Residues /\ Cong(a % P, a) /\ Cong(a, a % P)
<1>1. a % P \in Residues /\ a % P \in Int /\ a \div P \in Int /\ a = (a % P) + (a \div P) * P
  BY Division, ResidueFacts
<1>2. Cong(a, a % P)
  BY <1>1 DEF Cong
<1> QED BY <1>1, <1>2, CongEquivalence

\* Congruent numbers have one residue.
LEMMA CongResidue ==
    ASSUME NEW a \in Int, NEW b \in Int, Cong(a, b)
    PROVE  a % P = b % P
<1>1. PICK x \in Residues, y \in Residues : x = a % P /\ y = b % P
  BY CongMod
<1>2. x \in Int /\ y \in Int /\ Cong(x, a) /\ Cong(b, y)
  BY <1>1, CongMod
<1>3. Cong(x, y)
  BY <1>2, CongEquivalence
<1> QED BY <1>1, <1>3, ResidueFacts

-----------------------------------------------------------------------------
(* Sums and products.                                                      *)

\* A number for each step, made by an operation from the one before.
Accumulates(g, op, b, f, n) ==
    g \in [0..n -> Int] /\ g[0] = b /\ \A i \in 1..n : g[i] = op[<<g[i - 1], f[i]>>]

\* There is one such sequence of numbers, ...
LEMMA AccumulatesExists ==
    ASSUME NEW op \in [Int \X Int -> Int], NEW b \in Int, NEW n \in Nat, NEW f, \A i \in 1..n : f[i] \in Int
    PROVE  \E g : Accumulates(g, op, b, f, n)
<1> DEFINE D == 0..n
           G == [D -> Int]
           h == [p \in G \X D |-> IF p[2] = 0 THEN b ELSE op[<<p[1][p[2] - 1], f[p[2]]>>]]
<1>1. \A g \in G, j \in D : h[<<g, j>>] = IF j = 0 THEN b ELSE op[<<g[j - 1], f[j]>>]
  OBVIOUS
<1>2. \A j \in D : j # 0 => j - 1 \in D /\ j \in 1..n /\ j - 1 \in 0..j - 1
  OBVIOUS
<1>3. \A g \in G, j \in D : j # 0 => op[<<g[j - 1], f[j]>>] \in Int
  <2> SUFFICES ASSUME NEW g \in G, NEW j \in D, j # 0 PROVE op[<<g[j - 1], f[j]>>] \in Int
    OBVIOUS
  <2>1. g[j - 1] \in Int /\ f[j] \in Int
    BY <1>2
  <2> QED BY <2>1
<1>4. h \in [G \X D -> Int]
  <2>1. \A p \in G \X D : (IF p[2] = 0 THEN b ELSE op[<<p[1][p[2] - 1], f[p[2]]>>]) \in Int
    <3> HIDE DEF G, D
    <3> QED BY <1>3
  <2> HIDE DEF G, D
  <2> QED BY <2>1
<1>5. \A u, v \in G, j \in D : (\A i \in 0..j - 1 : u[i] = v[i]) => h[<<u, j>>] = h[<<v, j>>]
  <2> HIDE DEF G, h, D
  <2> SUFFICES ASSUME NEW u \in G, NEW v \in G, NEW j \in D, \A i \in 0..j - 1 : u[i] = v[i]
               PROVE  h[<<u, j>>] = h[<<v, j>>]
    OBVIOUS
  <2>1. CASE j = 0
    BY <1>1, <2>1
  <2>2. CASE j # 0
    <3>1. u[j - 1] = v[j - 1]
      BY <1>2, <2>2
    <3>2. h[<<u, j>>] = op[<<u[j - 1], f[j]>>]
      BY <1>1, <2>2
    <3>3. h[<<v, j>>] = op[<<v[j - 1], f[j]>>]
      BY <1>1, <2>2
    <3> QED BY <3>1, <3>2, <3>3
  <2> QED BY <2>1, <2>2
<1>6. PICK g \in G : \A j \in D : g[j] = h[<<g, j>>]
  <2>1. LooksBack(h, 0, n, Int)
    <3> HIDE DEF h
    <3> QED BY <1>4, <1>5 DEF LooksBack
  <2> HIDE DEF h
  <2>2. PICK T, lo : T = Int /\ lo = 0
    OBVIOUS
  <2>3. \E g \in [lo..n -> T] : \A j \in lo..n : g[j] = h[<<g, j>>]
    <3>1. lo \in Int /\ n \in Int /\ b \in T /\ LooksBack(h, lo, n, T)
      BY <2>1, <2>2
    <3> QED BY <3>1, Recursion
  <2> QED BY <2>2, <2>3
<1> HIDE DEF h, D
<1>7. \A j \in D : g[j] = IF j = 0 THEN b ELSE op[<<g[j - 1], f[j]>>]
  BY <1>1, <1>6
<1>8. 0 \in D /\ \A i \in 1..n : i \in D /\ i # 0
  BY DEF D
<1>9. g[0] = b /\ \A i \in 1..n : g[i] = op[<<g[i - 1], f[i]>>]
  BY <1>7, <1>8
<1> QED BY <1>6, <1>9 DEF D, Accumulates

\* ... and where two of them are made from the same numbers, they agree.
LEMMA AccumulatesAgree ==
    ASSUME NEW op, NEW b, NEW m \in Nat, NEW n \in Nat, m <= n, NEW f, NEW e, \A i \in 1..m : e[i] = f[i],
           NEW g, Accumulates(g, op, b, e, m), NEW h, Accumulates(h, op, b, f, n)
    PROVE  g[m] = h[m]
<1> DEFINE U == {i \in Nat : i <= m => g[i] = h[i]}
<1>1. 0 \in U
  BY DEF Accumulates
<1>2. ASSUME NEW i \in Nat, i \in U PROVE i + 1 \in U
  <2> SUFFICES ASSUME i + 1 <= m PROVE g[i + 1] = h[i + 1]
    OBVIOUS
  <2>1. PICK j \in Nat : j = i + 1 /\ j \in 1..m /\ j \in 1..n /\ j - 1 = i
    OBVIOUS
  <2>2. g[j] = op[<<g[j - 1], e[j]>>] /\ h[j] = op[<<h[j - 1], f[j]>>]
    BY <2>1 DEF Accumulates
  <2>3. g[i] = h[i]
    BY <1>2
  <2> QED BY <2>1, <2>2, <2>3
<1>3. Nat \subseteq U
  <2> HIDE DEF U
  <2> QED BY <1>1, <1>2, NumberInduction
<1> QED BY <1>3

Plus  == [p \in Int \X Int |-> p[1] + p[2]]
Times == [p \in Int \X Int |-> p[1] * p[2]]

\* Both operations take integers to integers.
LEMMA PlusTimes ==
    /\ Plus \in [Int \X Int -> Int] /\ Times \in [Int \X Int -> Int]
    /\ \A a, b \in Int : Plus[<<a, b>>] = a + b /\ Times[<<a, b>>] = a * b /\ a * b \in Int
<1>1. \A a, b \in Int : a + b \in Int /\ a * b \in Int
  OBVIOUS
<1> QED BY <1>1 DEF Plus, Times

\* Sum adds one number after the other, ...
LEMMA SumAccumulates ==
    ASSUME NEW n \in Nat, NEW f, \A i \in 1..n : f[i] \in Int
    PROVE  \E g : Accumulates(g, Plus, 0, f, n) /\ Sum(f, n) = g[n]
<1> DEFINE Eq(g) == g = [i \in 0..n |-> IF i = 0 THEN 0 ELSE g[i - 1] + f[i]]
<1>1. PICK g : Accumulates(g, Plus, 0, f, n)
  <2>1. PICK op, b : op = Plus /\ b = 0
    OBVIOUS
  <2>2. op \in [Int \X Int -> Int] /\ b \in Int
    BY <2>1, PlusTimes
  <2>3. \E g : Accumulates(g, op, b, f, n)
    BY <2>2, AccumulatesExists
  <2> QED BY <2>1, <2>3
<1>2. \A i \in 1..n : i \in 0..n /\ i # 0 /\ i - 1 \in 0..n
  OBVIOUS
<1>3. Eq(g)
  <2>1. g \in [0..n -> Int] /\ g[0] = 0
    BY <1>1 DEF Accumulates
  <2>2. ASSUME NEW i \in 0..n PROVE g[i] = IF i = 0 THEN 0 ELSE g[i - 1] + f[i]
    <3>1. CASE i = 0
      BY <2>1, <3>1
    <3>2. CASE i # 0
      <4>1. i \in 1..n /\ i - 1 \in 0..n
        BY <3>2
      <4>2. g[i - 1] \in Int /\ f[i] \in Int
        BY <2>1, <4>1
      <4>3. g[i] = Plus[<<g[i - 1], f[i]>>]
        BY <1>1, <4>1 DEF Accumulates
      <4> QED BY <3>2, <4>2, <4>3, PlusTimes
    <3> QED BY <3>1, <3>2
  <2> QED BY <2>1, <2>2
<1>4. PICK q : Eq(q) /\ Sum(f, n) = q[n]
  <2>1. Sum(f, n) = (CHOOSE q : Eq(q))[n]
    BY Zenon DEF Sum
  <2>2. Eq(CHOOSE q : Eq(q))
    <3> HIDE DEF Eq
    <3> QED BY <1>3
  <2> QED BY <2>1, <2>2
<1>5. q[0] = 0 /\ \A i \in 1..n : q[i] = q[i - 1] + f[i]
  <2>1. \A i \in 0..n : q[i] = IF i = 0 THEN 0 ELSE q[i - 1] + f[i]
    BY <1>4
  <2>2. 0 \in 0..n
    OBVIOUS
  <2> HIDE DEF Eq
  <2> QED BY <1>2, <2>1, <2>2
<1>6. \A i \in 0..n : q[i] \in Int
  <2> DEFINE U == {i \in Nat : i <= n => q[i] \in Int}
  <2>1. 0 \in U
    BY <1>5
  <2>2. ASSUME NEW i \in Nat, i \in U PROVE i + 1 \in U
    <3> SUFFICES ASSUME i + 1 <= n PROVE q[i + 1] \in Int
      OBVIOUS
    <3>1. PICK j \in Nat : j = i + 1 /\ j \in 1..n /\ j - 1 = i
      OBVIOUS
    <3>2. q[j] = q[i] + f[j] /\ q[i] \in Int
      BY <1>5, <2>2, <3>1
    <3> QED BY <3>1, <3>2
  <2>3. Nat \subseteq U
    <3> HIDE DEF U
    <3> QED BY <2>1, <2>2, NumberInduction
  <2> QED BY <2>3
<1>7. q \in [0..n -> Int]
  BY <1>4, <1>6
<1>8. \A i \in 1..n : q[i] = Plus[<<q[i - 1], f[i]>>]
  <2> SUFFICES ASSUME NEW i \in 1..n PROVE q[i] = Plus[<<q[i - 1], f[i]>>]
    OBVIOUS
  <2>1. q[i - 1] \in Int /\ f[i] \in Int
    BY <1>2, <1>6
  <2> QED BY <1>5, <2>1, PlusTimes
<1> HIDE DEF Eq
<1> QED BY <1>4, <1>5, <1>7, <1>8 DEF Accumulates

\* ... and Prod multiplies them.
LEMMA ProdAccumulates ==
    ASSUME NEW n \in Nat, NEW f, \A i \in 1..n : f[i] \in Int
    PROVE  \E g : Accumulates(g, Times, 1, f, n) /\ Prod(f, n) = g[n]
<1> DEFINE Eq(g) == g = [i \in 0..n |-> IF i = 0 THEN 1 ELSE g[i - 1] * f[i]]
<1>1. PICK g : Accumulates(g, Times, 1, f, n)
  <2>1. PICK op, b : op = Times /\ b = 1
    OBVIOUS
  <2>2. op \in [Int \X Int -> Int] /\ b \in Int
    BY <2>1, PlusTimes
  <2>3. \E g : Accumulates(g, op, b, f, n)
    BY <2>2, AccumulatesExists
  <2> QED BY <2>1, <2>3
<1>2. \A i \in 1..n : i \in 0..n /\ i # 0 /\ i - 1 \in 0..n
  OBVIOUS
<1>3. Eq(g)
  <2>1. g \in [0..n -> Int] /\ g[0] = 1
    BY <1>1 DEF Accumulates
  <2>2. ASSUME NEW i \in 0..n PROVE g[i] = IF i = 0 THEN 1 ELSE g[i - 1] * f[i]
    <3>1. CASE i = 0
      BY <2>1, <3>1
    <3>2. CASE i # 0
      <4>1. i \in 1..n /\ i - 1 \in 0..n
        BY <3>2
      <4>2. g[i - 1] \in Int /\ f[i] \in Int
        BY <2>1, <4>1
      <4>3. g[i] = Times[<<g[i - 1], f[i]>>]
        BY <1>1, <4>1 DEF Accumulates
      <4> QED BY <3>2, <4>2, <4>3, PlusTimes
    <3> QED BY <3>1, <3>2
  <2> QED BY <2>1, <2>2
<1>4. PICK q : Eq(q) /\ Prod(f, n) = q[n]
  <2>1. Prod(f, n) = (CHOOSE q : Eq(q))[n]
    BY Zenon DEF Prod
  <2>2. Eq(CHOOSE q : Eq(q))
    <3> HIDE DEF Eq
    <3> QED BY <1>3
  <2> QED BY <2>1, <2>2
<1>5. q[0] = 1 /\ \A i \in 1..n : q[i] = q[i - 1] * f[i]
  <2>1. \A i \in 0..n : q[i] = IF i = 0 THEN 1 ELSE q[i - 1] * f[i]
    BY <1>4
  <2>2. 0 \in 0..n
    OBVIOUS
  <2> HIDE DEF Eq
  <2> QED BY <1>2, <2>1, <2>2
<1>6. \A i \in 0..n : q[i] \in Int
  <2> DEFINE U == {i \in Nat : i <= n => q[i] \in Int}
  <2>1. 0 \in U
    BY <1>5
  <2>2. ASSUME NEW i \in Nat, i \in U PROVE i + 1 \in U
    <3> SUFFICES ASSUME i + 1 <= n PROVE q[i + 1] \in Int
      OBVIOUS
    <3>1. PICK j \in Nat : j = i + 1 /\ j \in 1..n /\ j - 1 = i
      OBVIOUS
    <3>2. q[j] = q[i] * f[j] /\ q[i] \in Int
      BY <1>5, <2>2, <3>1
    <3> QED BY <3>1, <3>2
  <2>3. Nat \subseteq U
    <3> HIDE DEF U
    <3> QED BY <2>1, <2>2, NumberInduction
  <2> QED BY <2>3
<1>7. q \in [0..n -> Int]
  BY <1>4, <1>6
<1>8. \A i \in 1..n : q[i] = Times[<<q[i - 1], f[i]>>]
  <2> SUFFICES ASSUME NEW i \in 1..n PROVE q[i] = Times[<<q[i - 1], f[i]>>]
    OBVIOUS
  <2>1. q[i - 1] \in Int /\ f[i] \in Int
    BY <1>2, <1>6
  <2> QED BY <1>5, <2>1, PlusTimes
<1> HIDE DEF Eq
<1> QED BY <1>4, <1>5, <1>7, <1>8 DEF Accumulates

\* Sums are built up from the first number on.
LEMMA SumFacts ==
    ASSUME NEW n \in Nat, NEW f, \A i \in 1..n : f[i] \in Int
    PROVE  /\ Sum(f, 0) = 0 /\ Sum(f, n) \in Int
           /\ f[n + 1] \in Int => Sum(f, n + 1) = Sum(f, n) + f[n + 1]
<1>1. PICK g : Accumulates(g, Plus, 0, f, n) /\ Sum(f, n) = g[n]
  BY SumAccumulates
<1>2. Sum(f, 0) = 0
  <2>1. PICK h : Accumulates(h, Plus, 0, f, 0) /\ Sum(f, 0) = h[0]
    BY SumAccumulates
  <2> QED BY <2>1 DEF Accumulates
<1>3. Sum(f, n) \in Int
  <2>1. n \in 0..n
    OBVIOUS
  <2> QED BY <1>1, <2>1 DEF Accumulates
<1>4. ASSUME f[n + 1] \in Int PROVE Sum(f, n + 1) = Sum(f, n) + f[n + 1]
  <2>1. PICK m : m = n + 1 /\ m \in Nat /\ m - 1 = n /\ n <= m /\ m \in 1..m
    OBVIOUS
  <2>2. \A i \in 1..m : f[i] \in Int
    BY <1>4, <2>1
  <2>3. PICK h : Accumulates(h, Plus, 0, f, m) /\ Sum(f, m) = h[m]
    BY <2>1, <2>2, SumAccumulates
  <2>4. g[n] = h[n]
    <3>1. PICK op, b : op = Plus /\ b = 0
      OBVIOUS
    <3> QED BY <1>1, <2>1, <2>3, <3>1, AccumulatesAgree
  <2>5. h[m] = Plus[<<h[n], f[m]>>]
    BY <2>1, <2>3 DEF Accumulates
  <2>6. h[n] \in Int /\ f[m] \in Int
    BY <1>1, <1>3, <1>4, <2>1, <2>4
  <2> QED BY <1>1, <2>1, <2>3, <2>4, <2>5, <2>6, PlusTimes
<1> QED BY <1>2, <1>3, <1>4

\* Products are built up from the first number on.
LEMMA ProdFacts ==
    ASSUME NEW n \in Nat, NEW f, \A i \in 1..n : f[i] \in Int
    PROVE  /\ Prod(f, 0) = 1 /\ Prod(f, n) \in Int
           /\ f[n + 1] \in Int => Prod(f, n + 1) = Prod(f, n) * f[n + 1]
<1>1. PICK g : Accumulates(g, Times, 1, f, n) /\ Prod(f, n) = g[n]
  BY ProdAccumulates
<1>2. Prod(f, 0) = 1
  <2>1. PICK h : Accumulates(h, Times, 1, f, 0) /\ Prod(f, 0) = h[0]
    BY ProdAccumulates
  <2> QED BY <2>1 DEF Accumulates
<1>3. Prod(f, n) \in Int
  <2>1. n \in 0..n
    OBVIOUS
  <2> QED BY <1>1, <2>1 DEF Accumulates
<1>4. ASSUME f[n + 1] \in Int PROVE Prod(f, n + 1) = Prod(f, n) * f[n + 1]
  <2>1. PICK m : m = n + 1 /\ m \in Nat /\ m - 1 = n /\ n <= m /\ m \in 1..m
    OBVIOUS
  <2>2. \A i \in 1..m : f[i] \in Int
    BY <1>4, <2>1
  <2>3. PICK h : Accumulates(h, Times, 1, f, m) /\ Prod(f, m) = h[m]
    BY <2>1, <2>2, ProdAccumulates
  <2>4. g[n] = h[n]
    <3>1. PICK op, b : op = Times /\ b = 1
      OBVIOUS
    <3> QED BY <1>1, <2>1, <2>3, <3>1, AccumulatesAgree
  <2>5. h[m] = Times[<<h[n], f[m]>>]
    BY <2>1, <2>3 DEF Accumulates
  <2>6. h[n] \in Int /\ f[m] \in Int
    BY <1>1, <1>3, <1>4, <2>1, <2>4
  <2> QED BY <1>1, <2>1, <2>3, <2>4, <2>5, <2>6, PlusTimes
<1> QED BY <1>2, <1>3, <1>4

\* Only the first n numbers count.
LEMMA SameNumbers ==
    ASSUME NEW n \in Nat, NEW e, NEW f, \A i \in 1..n : f[i] \in Int /\ e[i] = f[i]
    PROVE  Sum(e, n) = Sum(f, n) /\ Prod(e, n) = Prod(f, n)
<1>1. PICK g, h : Accumulates(g, Plus, 0, e, n) /\ Accumulates(h, Plus, 0, f, n) /\ Sum(e, n) = g[n] /\ Sum(f, n) = h[n]
  BY SumAccumulates
<1>2. PICK u, v : Accumulates(u, Times, 1, e, n) /\ Accumulates(v, Times, 1, f, n) /\ Prod(e, n) = u[n] /\ Prod(f, n) = v[n]
  BY ProdAccumulates
<1>3. g[n] = h[n]
  <2>1. PICK op, b : op = Plus /\ b = 0
    OBVIOUS
  <2> QED BY <1>1, <2>1, AccumulatesAgree
<1>4. u[n] = v[n]
  <2>1. PICK op, b : op = Times /\ b = 1
    OBVIOUS
  <2> QED BY <1>2, <2>1, AccumulatesAgree
<1> QED BY <1>1, <1>2, <1>3, <1>4

\* Congruent numbers have congruent sums and products.
LEMMA SameResidues ==
    ASSUME NEW n \in Nat, NEW e, NEW f, \A i \in 1..n : e[i] \in Int /\ f[i] \in Int /\ Cong(e[i], f[i])
    PROVE  Cong(Sum(e, n), Sum(f, n)) /\ Cong(Prod(e, n), Prod(f, n))
<1> DEFINE U == {k \in Nat : k <= n => Cong(Sum(e, k), Sum(f, k)) /\ Cong(Prod(e, k), Prod(f, k))}
<1>1. 0 \in U
  <2>1. Sum(e, 0) = 0 /\ Sum(f, 0) = 0 /\ Prod(e, 0) = 1 /\ Prod(f, 0) = 1
    BY SumFacts, ProdFacts
  <2>2. Cong(0, 0) /\ Cong(1, 1)
    BY CongEquivalence
  <2> QED BY <2>1, <2>2
<1>2. ASSUME NEW k \in Nat, k \in U PROVE k + 1 \in U
  <2> SUFFICES ASSUME k + 1 <= n
               PROVE  Cong(Sum(e, k + 1), Sum(f, k + 1)) /\ Cong(Prod(e, k + 1), Prod(f, k + 1))
    OBVIOUS
  <2>1. PICK m \in Nat : m = k + 1 /\ m \in 1..n /\ \A i \in 1..k : i \in 1..n
    OBVIOUS
  <2>2. Cong(Sum(e, k), Sum(f, k)) /\ Cong(Prod(e, k), Prod(f, k))
    BY <1>2
  <2>3. PICK a, b : a = e[m] /\ b = f[m] /\ a \in Int /\ b \in Int /\ Cong(a, b)
    BY <2>1
  <2>4. \A i \in 1..k : e[i] \in Int /\ f[i] \in Int
    BY <2>1
  <2>5. PICK u, v : u = Sum(e, k) /\ v = Sum(f, k) /\ u \in Int /\ v \in Int
    BY <2>4, SumFacts
  <2>6. PICK x, y : x = Prod(e, k) /\ y = Prod(f, k) /\ x \in Int /\ y \in Int
    BY <2>4, ProdFacts
  <2>7. Sum(e, k + 1) = u + a /\ Sum(f, k + 1) = v + b
    BY <2>1, <2>3, <2>4, <2>5, SumFacts
  <2>8. Prod(e, k + 1) = x * a /\ Prod(f, k + 1) = y * b
    BY <2>1, <2>3, <2>4, <2>6, ProdFacts
  <2>9. Cong(u + a, v + b)
    BY <2>2, <2>3, <2>5, CongOps
  <2>10. Cong(x * a, y * b)
    BY <2>2, <2>3, <2>6, CongOps
  <2> QED BY <2>7, <2>8, <2>9, <2>10
<1>3. Nat \subseteq U
  <2> HIDE DEF U
  <2> QED BY <1>1, <1>2, NumberInduction
<1> QED BY <1>3

Linear(h, e, c, f, n) ==
    \A i \in 1..n : h[i] \in Int /\ e[i] \in Int /\ f[i] \in Int /\ h[i] = e[i] + c * f[i]

\* Sums are linear.
LEMMA SumLinear ==
    ASSUME NEW n \in Nat, NEW h, NEW e, NEW c \in Int, NEW f, Linear(h, e, c, f, n)
    PROVE  Sum(h, n) = Sum(e, n) + c * Sum(f, n)
<1> DEFINE U == {k \in Nat : k <= n => Sum(h, k) = Sum(e, k) + c * Sum(f, k)}
<1>1. 0 \in U
  <2>1. Sum(h, 0) = 0 /\ Sum(e, 0) = 0 /\ Sum(f, 0) = 0
    BY SumFacts
  <2>2. 0 = 0 + c * 0
    OBVIOUS
  <2> QED BY <2>1, <2>2
<1>2. ASSUME NEW k \in Nat, k \in U PROVE k + 1 \in U
  <2> SUFFICES ASSUME k + 1 <= n PROVE Sum(h, k + 1) = Sum(e, k + 1) + c * Sum(f, k + 1)
    OBVIOUS
  <2>1. PICK m \in Nat : m = k + 1 /\ m \in 1..n /\ \A i \in 1..k : i \in 1..n
    OBVIOUS
  <2>2. Sum(h, k) = Sum(e, k) + c * Sum(f, k)
    BY <1>2
  <2>3. h[m] \in Int /\ e[m] \in Int /\ f[m] \in Int /\ h[m] = e[m] + c * f[m]
    BY <2>1 DEF Linear
  <2>4. \A i \in 1..k : h[i] \in Int /\ e[i] \in Int /\ f[i] \in Int
    BY <2>1 DEF Linear
  <2>5. /\ Sum(h, k + 1) = Sum(h, k) + h[m] /\ Sum(e, k + 1) = Sum(e, k) + e[m]
        /\ Sum(f, k + 1) = Sum(f, k) + f[m] /\ Sum(e, k) \in Int /\ Sum(f, k) \in Int
    BY <2>1, <2>3, <2>4, SumFacts
  <2>6. \A u, v, a, b \in Int : (u + c * v) + (a + c * b) = (u + a) + c * (v + b)
    OBVIOUS
  <2> QED BY <2>2, <2>3, <2>5, <2>6
<1>3. Nat \subseteq U
  <2> HIDE DEF U
  <2> QED BY <1>1, <1>2, NumberInduction
<1> QED BY <1>3

\* Zeros at the end of a sum are not seen.
LEMMA SumTail ==
    ASSUME NEW m \in Nat, NEW n \in Nat, m <= n, NEW f, \A i \in 1..n : f[i] \in Int,
           \A i \in 1..n : i > m => f[i] = 0
    PROVE  Sum(f, n) = Sum(f, m)
<1> DEFINE U == {k \in Nat : m <= k /\ k <= n => Sum(f, k) = Sum(f, m)}
<1>1. 0 \in U
  OBVIOUS
<1>2. ASSUME NEW k \in Nat, k \in U PROVE k + 1 \in U
  <2> SUFFICES ASSUME m <= k + 1, k + 1 <= n PROVE Sum(f, k + 1) = Sum(f, m)
    OBVIOUS
  <2>1. CASE m = k + 1
    BY <2>1
  <2>2. CASE m # k + 1
    <3>1. m <= k /\ k <= n /\ k + 1 \in 1..n /\ k + 1 > m /\ \A i \in 1..k : i \in 1..n
      BY <2>2
    <3>2. Sum(f, k) = Sum(f, m)
      BY <1>2, <3>1
    <3>3. f[k + 1] = 0 /\ \A i \in 1..k : f[i] \in Int
      BY <3>1
    <3>4. Sum(f, k + 1) = Sum(f, k) + 0 /\ Sum(f, k) \in Int
      <4>1. 0 \in Int
        OBVIOUS
      <4> QED BY <3>3, <4>1, SumFacts
    <3> QED BY <3>2, <3>4
  <2> QED BY <2>1, <2>2
<1>3. Nat \subseteq U
  <2> HIDE DEF U
  <2> QED BY <1>1, <1>2, NumberInduction
<1> QED BY <1>3

\* A power is a product of one factor; congruent numbers have congruent powers.
LEMMA PowFacts ==
    ASSUME NEW x \in Int
    PROVE  /\ Pow(x, 0) = 1
           /\ \A n \in Nat : Pow(x, n) \in Int /\ Pow(x, n + 1) = Pow(x, n) * x
<1>1. ASSUME NEW n \in Nat PROVE Pow(x, n) \in Int /\ Pow(x, n + 1) = Pow(x, n) * x
  <2>1. PICK e, f : e = [i \in 1..n |-> x] /\ f = [i \in 1..n + 1 |-> x]
    OBVIOUS
  <2>2. /\ \A i \in 1..n : f[i] \in Int /\ e[i] = f[i]
        /\ f[n + 1] = x
    BY <2>1
  <2>3. Prod(e, n) = Prod(f, n)
    BY <2>2, SameNumbers
  <2>4. Prod(f, n) \in Int /\ Prod(f, n + 1) = Prod(f, n) * x
    BY <2>2, ProdFacts
  <2> QED BY <2>1, <2>3, <2>4 DEF Pow
<1>2. Pow(x, 0) = 1
  <2>1. PICK f : f = [i \in 1..0 |-> x]
    OBVIOUS
  <2>2. Prod(f, 0) = 1
    BY ProdFacts
  <2> QED BY <2>1, <2>2 DEF Pow
<1> QED BY <1>1, <1>2

\* Exponents add up, and the first powers are these.
LEMMA PowLaws ==
    ASSUME NEW x \in Int
    PROVE  /\ \A m, n \in Nat : Pow(x, m + n) = Pow(x, m) * Pow(x, n)
           /\ Pow(x, 1) = x /\ Pow(x, 2) = x * x
<1>1. ASSUME NEW m \in Nat PROVE \A n \in Nat : Pow(x, m + n) = Pow(x, m) * Pow(x, n)
  <2> DEFINE U == {n \in Nat : Pow(x, m + n) = Pow(x, m) * Pow(x, n)}
  <2>1. 0 \in U
    <3>1. Pow(x, 0) = 1 /\ Pow(x, m) \in Int /\ m + 0 = m
      BY PowFacts
    <3> QED BY <3>1
  <2>2. ASSUME NEW n \in Nat, n \in U PROVE n + 1 \in U
    <3>1. PICK k \in Nat : k = m + n
      OBVIOUS
    <3>2. Pow(x, k + 1) = Pow(x, k) * x /\ Pow(x, n + 1) = Pow(x, n) * x
      BY PowFacts
    <3>3. PICK u, v : u = Pow(x, m) /\ v = Pow(x, n) /\ u \in Int /\ v \in Int
      BY PowFacts
    <3>4. Pow(x, k) = u * v
      BY <2>2, <3>1, <3>3
    <3>5. (u * v) * x = u * (v * x)
      BY <3>3
    <3>6. m + (n + 1) = k + 1
      BY <3>1
    <3>7. Pow(x, m + (n + 1)) = Pow(x, m) * Pow(x, n + 1)
      BY <3>2, <3>3, <3>4, <3>5, <3>6
    <3> QED BY <3>7
  <2>3. Nat \subseteq U
    <3> HIDE DEF U
    <3> QED BY <2>1, <2>2, NumberInduction
  <2> QED BY <2>3
<1>2. Pow(x, 1) = x
  <2>1. Pow(x, 0 + 1) = Pow(x, 0) * x /\ Pow(x, 0) = 1
    BY PowFacts
  <2>2. 0 + 1 = 1 /\ 1 * x = x
    OBVIOUS
  <2> QED BY <2>1, <2>2
<1>3. Pow(x, 2) = x * x
  <2>1. Pow(x, 1 + 1) = Pow(x, 1) * x
    BY PowFacts
  <2>2. 1 + 1 = 2
    OBVIOUS
  <2> QED BY <1>2, <2>1, <2>2
<1> QED BY <1>1, <1>2, <1>3

-----------------------------------------------------------------------------
(* What ciphertexts decrypt to.                                            *)

Poly(c) == Len(c) \in Nat /\ DOMAIN c = 1..Len(c) /\ \A i \in 1..Len(c) : c[i] \in Int
Terms(c) == [i \in Nat |-> Coefficient(c, i) * Pow(Secret, i - 1)]

\* The polynomials of a ciphertext are residues.
LEMMA PolyFacts ==
    /\ \A c : Poly(c) => \A i \in Int : Coefficient(c, i) \in Int
    /\ \A c : Poly(c) => \A i \in Nat : i # 0 => Terms(c)[i] \in Int
    /\ Secret \in Int /\ Mask \in Int
<1>1. Secret \in Int /\ Mask \in Int
  BY EvaluatorAssumption, ResidueFacts
<1>2. ASSUME NEW c, Poly(c), NEW i \in Int PROVE Coefficient(c, i) \in Int
  BY <1>2 DEF Poly, Coefficient
<1>3. ASSUME NEW c, Poly(c), NEW i \in Nat, i # 0 PROVE Terms(c)[i] \in Int
  <2>1. i - 1 \in Nat /\ i \in Int
    BY <1>3
  <2>2. PICK u, v : u = Coefficient(c, i) /\ v = Pow(Secret, i - 1) /\ u \in Int /\ v \in Int
    BY <1>1, <1>2, <1>3, <2>1, PowFacts
  <2>3. Terms(c)[i] = u * v
    BY <2>2 DEF Terms
  <2>4. u * v \in Int
    BY <2>2
  <2> QED BY <2>3, <2>4
<1> QED BY <1>1, <1>2, <1>3

\* Decryption may take as many polynomials as it likes, the missing being 0.
LEMMA PhaseIsSum ==
    ASSUME NEW c, Poly(c), NEW n \in Nat, Len(c) <= n
    PROVE  /\ Sum(Terms(c), n) \in Int /\ Phase(c) \in Residues /\ Phase(c) \in Int
           /\ Cong(Phase(c), Sum(Terms(c), n))
<1> DEFINE m == Len(c)
           f == [i \in DOMAIN c |-> c[i] * Pow(Secret, i - 1)]
<1>1. m \in Nat /\ m <= n /\ DOMAIN c = 1..m
  BY DEF Poly
<1>2. \A i \in 1..m : f[i] = Terms(c)[i]
  BY <1>1 DEF Terms, Coefficient
<1>3. \A i \in 1..n : Terms(c)[i] \in Int
  BY PolyFacts
<1>4. \A i \in 1..n : i > m => Terms(c)[i] = 0
  <2> SUFFICES ASSUME NEW i \in 1..n, i > m PROVE Terms(c)[i] = 0
    OBVIOUS
  <2>1. i \in Nat /\ i - 1 \in Nat /\ i \notin DOMAIN c
    BY <1>1
  <2>2. PICK v \in Int : v = Pow(Secret, i - 1)
    BY <2>1, PolyFacts, PowFacts
  <2>3. Terms(c)[i] = 0 * v
    BY <2>1, <2>2 DEF Terms, Coefficient
  <2> QED BY <2>2, <2>3
<1>5. Sum(Terms(c), n) = Sum(Terms(c), m) /\ Sum(Terms(c), n) \in Int
  <2> HIDE DEF m
  <2> QED BY <1>1, <1>3, <1>4, SumTail, SumFacts
<1>6. Sum(f, m) = Sum(Terms(c), m)
  <2>1. \A i \in 1..m : i \in 1..n
    BY <1>1
  <2> HIDE DEF m, f
  <2> QED BY <1>1, <1>2, <1>3, <2>1, SameNumbers
<1>7. Phase(c) = Sum(Terms(c), n) % P
  BY <1>5, <1>6 DEF Phase
<1> QED BY <1>5, <1>7, CongMod

\* Two polynomials: masked and mask.
LEMMA PhaseOfTwo ==
    ASSUME NEW a \in Int, NEW b \in Int
    PROVE  Poly(<<a, b>>) /\ Phase(<<a, b>>) \in Residues /\ Cong(Phase(<<a, b>>), a + b * Secret)
<1>1. PICK c : c = <<a, b>> /\ Len(c) = 2 /\ DOMAIN c = 1..2 /\ c[1] = a /\ c[2] = b
  <2>1. Len(<<a, b>>) = 2 /\ DOMAIN <<a, b>> = 1..2 /\ <<a, b>>[1] = a /\ <<a, b>>[2] = b
    OBVIOUS
  <2> QED BY <2>1
<1>2. Poly(c)
  <2>1. \A i \in 1..2 : i = 1 \/ i = 2
    OBVIOUS
  <2> QED BY <1>1, <2>1 DEF Poly
<1>3. Terms(c)[1] = a /\ Terms(c)[2] = b * Secret
  <2>1. Pow(Secret, 0) = 1 /\ Pow(Secret, 1) = Secret
    BY PolyFacts, PowFacts, PowLaws
  <2>2. 1 \in Nat /\ 2 \in Nat /\ 1 - 1 = 0 /\ 2 - 1 = 1 /\ 1 \in 1..2 /\ 2 \in 1..2
    OBVIOUS
  <2> QED BY <1>1, <2>1, <2>2 DEF Terms, Coefficient
<1>4. Sum(Terms(c), 2) = a + b * Secret
  <2>1. PICK f : f = Terms(c)
    OBVIOUS
  <2>2. b * Secret \in Int
    BY PolyFacts
  <2>3. \A i \in 1..0 : f[i] \in Int
    OBVIOUS
  <2>4. Sum(f, 0) = 0 /\ Sum(f, 0 + 1) = Sum(f, 0) + f[0 + 1]
    BY <1>3, <2>1, <2>3, SumFacts
  <2>5. \A i \in 1..1 : f[i] \in Int
    BY <1>3, <2>1
  <2>6. Sum(f, 1 + 1) = Sum(f, 1) + f[1 + 1]
    BY <1>3, <2>1, <2>2, <2>5, SumFacts
  <2> QED BY <1>3, <2>1, <2>2, <2>4, <2>6
<1>5. 2 \in Nat /\ Len(c) <= 2
  BY <1>1
<1> QED BY <1>1, <1>2, <1>4, <1>5, PhaseIsSum

\* Three polynomials: what relinearization takes, and what squaring returns.
LEMMA PhaseOfThree ==
    ASSUME NEW c, Poly(c), Len(c) = 3
    PROVE  /\ c[1] \in Int /\ c[2] \in Int /\ c[3] \in Int /\ Phase(c) \in Residues
           /\ Cong(Phase(c), c[1] + c[2] * Secret + c[3] * (Secret * Secret))
<1>1. c[1] \in Int /\ c[2] \in Int /\ c[3] \in Int /\ DOMAIN c = 1..3
  BY DEF Poly
<1>2. Terms(c)[1] = c[1] /\ Terms(c)[2] = c[2] * Secret /\ Terms(c)[3] = c[3] * (Secret * Secret)
  <2>1. Pow(Secret, 0) = 1 /\ Pow(Secret, 1) = Secret /\ Pow(Secret, 2) = Secret * Secret
    BY PolyFacts, PowFacts, PowLaws
  <2>2. /\ 1 \in Nat /\ 2 \in Nat /\ 3 \in Nat /\ 1 - 1 = 0 /\ 2 - 1 = 1 /\ 3 - 1 = 2
        /\ 1 \in 1..3 /\ 2 \in 1..3 /\ 3 \in 1..3
    OBVIOUS
  <2> QED BY <1>1, <2>1, <2>2 DEF Terms, Coefficient
<1>3. Sum(Terms(c), 3) = c[1] + c[2] * Secret + c[3] * (Secret * Secret)
  <2>1. PICK f : f = Terms(c)
    OBVIOUS
  <2>2. PICK u, v : u = c[2] * Secret /\ v = c[3] * (Secret * Secret) /\ u \in Int /\ v \in Int
    BY <1>1, PolyFacts
  <2>3. f[1] = c[1] /\ f[2] = u /\ f[3] = v
    BY <1>2, <2>1, <2>2
  <2>4. \A i \in 1..0 : f[i] \in Int
    OBVIOUS
  <2>5. Sum(f, 0) = 0 /\ Sum(f, 0 + 1) = Sum(f, 0) + f[0 + 1]
    BY <1>1, <2>3, <2>4, SumFacts
  <2>6. \A i \in 1..1 : f[i] \in Int
    BY <1>1, <2>3
  <2>7. Sum(f, 1 + 1) = Sum(f, 1) + f[1 + 1]
    BY <2>2, <2>3, <2>6, SumFacts
  <2>8. \A i \in 1..2 : f[i] \in Int
    <3>1. \A i \in 1..2 : i = 1 \/ i = 2
      OBVIOUS
    <3> QED BY <1>1, <2>2, <2>3, <3>1
  <2>9. Sum(f, 2 + 1) = Sum(f, 2) + f[2 + 1]
    <3>1. PICK n \in Nat : n = 2
      OBVIOUS
    <3>2. f[n + 1] \in Int /\ \A i \in 1..n : f[i] \in Int
      BY <2>2, <2>3, <2>8, <3>1
    <3>3. Sum(f, n + 1) = Sum(f, n) + f[n + 1]
      BY <3>2, SumFacts
    <3> QED BY <3>1, <3>3
  <2> QED BY <1>1, <2>1, <2>2, <2>3, <2>5, <2>7, <2>9
<1>4. 3 \in Nat /\ Len(c) <= 3
  OBVIOUS
<1> QED BY <1>1, <1>3, <1>4, PhaseIsSum

Shifted(b, j) == [k \in Nat |-> Coefficient(b, k - j) * Pow(Secret, k - 1)]

\* A ciphertext moved up by j polynomials decrypts to the j-th power as much.
LEMMA ShiftedSum ==
    ASSUME NEW b, Poly(b), NEW j \in Nat, NEW n \in Nat, n >= j + Len(b)
    PROVE  /\ \A k \in 1..n : Shifted(b, j)[k] \in Int
           /\ Sum(Shifted(b, j), n) = Pow(Secret, j) * Sum(Terms(b), Len(b))
<1> DEFINE Z == Shifted(b, j)
           V == Terms(b)
           s == Pow(Secret, j)
           m == Len(b)
           U == {l \in Nat : Sum(Z, j + l) = s * Sum(V, l)}
<1>1. m \in Nat /\ s \in Int /\ Secret \in Int /\ DOMAIN b = 1..m
  BY PolyFacts, PowFacts DEF Poly
<1>2. ASSUME NEW k \in Nat, k # 0
      PROVE  Z[k] \in Int /\ (k <= j => Z[k] = 0) /\ Z[k] = Coefficient(b, k - j) * Pow(Secret, k - 1)
  <2>1. k - 1 \in Nat /\ k - j \in Int
    BY <1>2
  <2>2. PICK u, v : u = Coefficient(b, k - j) /\ v = Pow(Secret, k - 1) /\ u \in Int /\ v \in Int
    BY <1>1, <2>1, PolyFacts, PowFacts
  <2>3. Z[k] = u * v
    BY <2>2 DEF Shifted
  <2>4. k <= j => u = 0
    BY <1>1, <2>2 DEF Coefficient
  <2>5. u * v \in Int /\ 0 * v = 0
    BY <2>2
  <2> QED BY <2>2, <2>3, <2>4, <2>5
<1>3. \A i \in Nat : i # 0 => V[i] \in Int
  BY PolyFacts
<1>4. 0 \in U
  <2>1. \A i \in 1..j : i \in Nat /\ i # 0 /\ i <= j
    OBVIOUS
  <2>2. \A i \in 1..j : Z[i] \in Int /\ Z[i] = 0
    BY <1>2, <2>1
  <2>3. 0 <= j /\ \A i \in 1..j : i > 0 => Z[i] = 0
    BY <2>2
  <2> HIDE DEF Z
  <2>4. Sum(Z, j) = Sum(Z, 0)
    BY <2>2, <2>3, SumTail
  <2>5. Sum(Z, 0) = 0 /\ Sum(V, 0) = 0
    <3>1. \A i \in 1..0 : Z[i] \in Int /\ V[i] \in Int
      OBVIOUS
    <3> HIDE DEF V
    <3> QED BY <3>1, SumFacts
  <2>6. j + 0 = j /\ s * 0 = 0
    BY <1>1
  <2> QED BY <2>4, <2>5, <2>6
<1>5. ASSUME NEW l \in Nat, l \in U PROVE l + 1 \in U
  <2>1. PICK k \in Nat : k = j + l
    OBVIOUS
  <2>2. \A i \in 1..k : i \in Nat /\ i # 0
    OBVIOUS
  <2>3. k + 1 \in Nat /\ k + 1 # 0 /\ (k + 1) - j = l + 1 /\ (k + 1) - 1 = k /\ j + (l + 1) = k + 1
    BY <2>1
  <2>4. l + 1 \in Nat /\ l + 1 # 0 /\ (l + 1) - 1 = l /\ \A i \in 1..l : i \in Nat /\ i # 0
    OBVIOUS
  <2>5. PICK u, v : u = Coefficient(b, l + 1) /\ v = Pow(Secret, l) /\ u \in Int /\ v \in Int
    <3>1. Coefficient(b, l + 1) \in Int
      <4>1. PICK i \in Int : i = l + 1
        OBVIOUS
      <4> QED BY <4>1, PolyFacts
    <3>2. Pow(Secret, l) \in Int
      BY <1>1, PowFacts
    <3> QED BY <3>1, <3>2
  <2>6. Z[k + 1] = u * (s * v)
    <3>1. Pow(Secret, k) = s * v
      <4>1. Secret \in Int
        BY PolyFacts
      <4>2. \A p, q \in Nat : Pow(Secret, p + q) = Pow(Secret, p) * Pow(Secret, q)
        BY <4>1, PowLaws
      <4>3. Pow(Secret, j + l) = Pow(Secret, j) * Pow(Secret, l)
        BY <4>2
      <4> QED BY <2>1, <2>5, <4>3
    <3> HIDE DEF Z, s
    <3> QED BY <1>2, <2>3, <2>5, <3>1
  <2>7. V[l + 1] = u * v
    BY <2>4, <2>5 DEF Terms
  <2>8. Sum(Z, k + 1) = Sum(Z, k) + Z[k + 1]
    <3>1. Z[k + 1] \in Int /\ \A i \in 1..k : Z[i] \in Int
      BY <1>2, <2>2, <2>3
    <3> HIDE DEF Z
    <3> QED BY <3>1, SumFacts
  <2>9. Sum(V, l + 1) = Sum(V, l) + V[l + 1] /\ Sum(V, l) \in Int
    <3>1. V[l + 1] \in Int /\ \A i \in 1..l : V[i] \in Int
      BY <1>3, <2>4
    <3> HIDE DEF V
    <3> QED BY <3>1, SumFacts
  <2>10. PICK t, z : t = Sum(V, l) /\ z = Sum(Z, k) /\ t \in Int /\ z = s * t
    BY <1>5, <2>1, <2>9
  <2>11. s * t + u * (s * v) = s * (t + u * v)
    <3>1. \A x, y, z1, w \in Int : x * z1 + y * (x * w) = x * (z1 + y * w)
      OBVIOUS
    <3>2. s \in Int /\ t \in Int /\ u \in Int /\ v \in Int
      BY <1>1, <2>5, <2>10
    <3> HIDE DEF s
    <3> QED BY <3>1, <3>2
  <2> HIDE DEF Z, V, s
  <2> QED BY <2>3, <2>6, <2>7, <2>8, <2>9, <2>10, <2>11
<1>6. Nat \subseteq U
  <2> HIDE DEF U
  <2> QED BY <1>4, <1>5, NumberInduction
<1>7. PICK l \in Nat : n = j + l /\ m <= l
  <2>1. n - j \in Nat /\ n = j + (n - j) /\ m <= n - j
    BY <1>1
  <2> QED BY <2>1
<1>8. Sum(V, l) = Sum(V, m)
  <2>1. \A i \in 1..l : i \in Nat /\ i # 0
    OBVIOUS
  <2>2. \A i \in 1..l : i > m => V[i] = 0
    <3> SUFFICES ASSUME NEW i \in 1..l, i > m PROVE V[i] = 0
      OBVIOUS
    <3>1. i \in Nat /\ i - 1 \in Nat /\ i \notin DOMAIN b
      BY <1>1
    <3>2. PICK v \in Int : v = Pow(Secret, i - 1)
      BY <1>1, <3>1, PowFacts
    <3>3. V[i] = 0 * v
      BY <3>1, <3>2 DEF Terms, Coefficient
    <3> QED BY <3>2, <3>3
  <2> HIDE DEF V, m
  <2> QED BY <1>1, <1>3, <1>7, <2>1, <2>2, SumTail
<1>9. \A k \in 1..n : Z[k] \in Int
  <2>1. \A i \in 1..n : i \in Nat /\ i # 0
    OBVIOUS
  <2> QED BY <1>2, <2>1
<1> QED BY <1>6, <1>7, <1>8, <1>9

\* The part of a product that the first j polynomials of a factor make.
Factors(a, b, k) == [i \in DOMAIN a |-> a[i] * Coefficient(b, k + 1 - i)]
Partial(a, b, j) == [k \in Nat |-> Sum(Factors(a, b, k), j) * Pow(Secret, k - 1)]

\* The partial sums of a product are numbers.
LEMMA PartialFacts ==
    ASSUME NEW a, Poly(a), NEW b, Poly(b), NEW k \in Nat, k # 0, NEW j \in Nat, j <= Len(a)
    PROVE  /\ \A i \in 1..Len(a) : Factors(a, b, k)[i] \in Int
           /\ Sum(Factors(a, b, k), j) \in Int
           /\ Partial(a, b, j)[k] \in Int
           /\ j + 1 <= Len(a) =>
                 Partial(a, b, j + 1)[k] = Partial(a, b, j)[k] + a[j + 1] * Shifted(b, j)[k]
<1> DEFINE f == Factors(a, b, k)
<1>1. Len(a) \in Nat /\ DOMAIN a = 1..Len(a) /\ \A i \in 1..Len(a) : a[i] \in Int
  BY DEF Poly
<1>2. ASSUME NEW i \in 1..Len(a) PROVE f[i] = a[i] * Coefficient(b, k + 1 - i) /\ f[i] \in Int
  <2>1. k + 1 - i \in Int
    BY <1>1
  <2>2. PICK u, v : u = a[i] /\ v = Coefficient(b, k + 1 - i) /\ u \in Int /\ v \in Int
    BY <1>1, <2>1, PolyFacts
  <2>3. u * v \in Int
    BY <2>2
  <2> QED BY <1>1, <2>2, <2>3 DEF Factors
<1>3. \A i \in 1..j : i \in 1..Len(a)
  BY <1>1
<1>4. Sum(f, j) \in Int
  <2> HIDE DEF f
  <2> QED BY <1>2, <1>3, SumFacts
<1>5. PICK s \in Int : s = Pow(Secret, k - 1)
  <2>1. k - 1 \in Nat
    OBVIOUS
  <2> QED BY <2>1, PolyFacts, PowFacts
<1>6. Partial(a, b, j)[k] = Sum(f, j) * s /\ Sum(f, j) * s \in Int
  <2>1. \A u, v \in Int : u * v \in Int
    OBVIOUS
  <2>2. Partial(a, b, j)[k] = Sum(f, j) * s
    BY <1>5 DEF Partial
  <2> HIDE DEF f
  <2> QED BY <1>4, <1>5, <2>1, <2>2
<1>7. ASSUME j + 1 <= Len(a)
      PROVE  Partial(a, b, j + 1)[k] = Partial(a, b, j)[k] + a[j + 1] * Shifted(b, j)[k]
  <2>1. j + 1 \in 1..Len(a) /\ k + 1 - (j + 1) = k - j /\ k - j \in Int
    BY <1>1, <1>7
  <2>2. PICK u, v : u = a[j + 1] /\ v = Coefficient(b, k - j) /\ u \in Int /\ v \in Int
    BY <1>1, <2>1, PolyFacts
  <2>3. f[j + 1] = u * v /\ f[j + 1] \in Int
    BY <1>2, <2>1, <2>2
  <2>4. Sum(f, j + 1) = Sum(f, j) + f[j + 1]
    <3> HIDE DEF f
    <3> QED BY <1>2, <1>3, <2>3, SumFacts
  <2>5. Partial(a, b, j + 1)[k] = Sum(f, j + 1) * s
    BY <1>5 DEF Partial
  <2>6. Shifted(b, j)[k] = v * s
    BY <1>5, <2>2 DEF Shifted
  <2>7. PICK x \in Int : x = Sum(f, j)
    BY <1>4
  <2>8. (x + u * v) * s = x * s + u * (v * s)
    <3>1. \A p, q, r, t \in Int : (p + q * r) * t = p * t + q * (r * t)
      OBVIOUS
    <3>2. x \in Int /\ u \in Int /\ v \in Int /\ s \in Int
      BY <1>5, <2>2, <2>7
    <3> QED BY <3>1, <3>2
  <2> HIDE DEF f
  <2> QED BY <1>6, <2>2, <2>3, <2>4, <2>5, <2>6, <2>7, <2>8
<1> QED BY <1>2, <1>4, <1>6, <1>7

\* The partial products decrypt to partial sums times the other factor.
LEMMA PartialSum ==
    ASSUME NEW a, Poly(a), NEW b, Poly(b), NEW n \in Nat, n + 1 = Len(a) + Len(b)
    PROVE  \A j \in 0..Len(a) : Sum(Partial(a, b, j), n) = Sum(Terms(a), j) * Sum(Terms(b), Len(b))
<1> DEFINE B == Sum(Terms(b), Len(b))
           A(j) == Sum(Terms(a), j)
           U == {j \in Nat : j <= Len(a) => Sum(Partial(a, b, j), n) = A(j) * B}
<1>1. Len(a) \in Nat /\ Len(b) \in Nat /\ \A i \in 1..Len(a) : a[i] \in Int
  BY DEF Poly
<1>2. \A i \in 1..n : i \in Nat /\ i # 0
  OBVIOUS
<1>3. B \in Int
  <2>1. Len(b) <= Len(b)
    BY <1>1
  <2> QED BY <1>1, <2>1, PhaseIsSum
<1>4. 0 \in U
  <2>1. PICK f : f = Partial(a, b, 0)
    OBVIOUS
  <2>2. ASSUME NEW k \in 1..n PROVE f[k] = 0 /\ f[k] \in Int
    <3>1. k \in Nat /\ k # 0 /\ k - 1 \in Nat /\ 0 <= Len(a)
      BY <1>1
    <3>2. PICK g : g = Factors(a, b, k)
      OBVIOUS
    <3>3. Sum(g, 0) = 0
      <4>1. \A i \in 1..0 : g[i] \in Int
        OBVIOUS
      <4> QED BY <4>1, SumFacts
    <3>4. PICK v \in Int : v = Pow(Secret, k - 1)
      BY <3>1, PolyFacts, PowFacts
    <3>5. f[k] = 0 * v
      BY <2>1, <3>1, <3>2, <3>3, <3>4 DEF Partial
    <3> QED BY <3>4, <3>5
  <2>3. Sum(f, n) = Sum(f, 0) /\ Sum(f, 0) = 0
    <3>1. 0 <= n /\ (\A i \in 1..n : i > 0 => f[i] = 0) /\ \A i \in 1..0 : f[i] \in Int
      BY <2>2
    <3> QED BY <2>2, <3>1, SumTail, SumFacts
  <2>4. A(0) = 0
    <3>1. \A i \in 1..0 : Terms(a)[i] \in Int
      OBVIOUS
    <3> QED BY <3>1, SumFacts
  <2>5. 0 * B = 0
    BY <1>3
  <2> HIDE DEF A, B
  <2> QED BY <2>1, <2>3, <2>4, <2>5
<1>5. ASSUME NEW j \in Nat, j \in U PROVE j + 1 \in U
  <2> SUFFICES ASSUME j + 1 <= Len(a) PROVE Sum(Partial(a, b, j + 1), n) = A(j + 1) * B
    OBVIOUS
  <2>1. j <= Len(a) /\ j + 1 \in 1..Len(a) /\ n >= j + Len(b)
    BY <1>1
  <2>2. PICK f, g, z, c : f = Partial(a, b, j) /\ g = Partial(a, b, j + 1) /\ z = Shifted(b, j) /\ c = a[j + 1]
    OBVIOUS
  <2>3. c \in Int
    BY <1>1, <2>1, <2>2
  <2>4. Linear(g, f, c, z, n)
    <3> SUFFICES ASSUME NEW k \in 1..n
                 PROVE  g[k] \in Int /\ f[k] \in Int /\ z[k] \in Int /\ g[k] = f[k] + c * z[k]
      BY DEF Linear
    <3>1. k \in Nat /\ k # 0
      OBVIOUS
    <3>2. f[k] \in Int /\ g[k] = f[k] + c * z[k]
      <4>1. j <= Len(a) /\ j + 1 <= Len(a)
        BY <2>1
      <4>2. Partial(a, b, j)[k] \in Int /\ Partial(a, b, j + 1)[k] = Partial(a, b, j)[k] + a[j + 1] * Shifted(b, j)[k]
        BY <3>1, <4>1, PartialFacts
      <4> QED BY <2>2, <4>2
    <3>3. g[k] \in Int
      <4>1. PICK i \in Nat : i = j + 1 /\ i <= Len(a)
        OBVIOUS
      <4> QED BY <2>2, <3>1, <4>1, PartialFacts
    <3>4. z[k] \in Int
      BY <2>1, <2>2, ShiftedSum
    <3> QED BY <3>2, <3>3, <3>4
  <2>5. Sum(g, n) = Sum(f, n) + c * Sum(z, n)
    BY <2>3, <2>4, SumLinear
  <2>6. PICK s \in Int : s = Pow(Secret, j)
    BY PolyFacts, PowFacts
  <2>7. Sum(z, n) = s * B
    BY <2>1, <2>2, <2>6, ShiftedSum
  <2>8. Sum(f, n) = A(j) * B
    BY <1>5, <2>1, <2>2
  <2>9. A(j) \in Int /\ A(j + 1) = A(j) + c * s
    <3>1. PICK t : t = Terms(a)
      OBVIOUS
    <3>2. t[j + 1] = c * s /\ t[j + 1] \in Int
      <4>1. j + 1 \in Nat /\ (j + 1) - 1 = j /\ j + 1 \in DOMAIN a
        BY <2>1 DEF Poly
      <4>2. c * s \in Int
        BY <2>3, <2>6
      <4> QED BY <2>2, <2>6, <3>1, <4>1, <4>2 DEF Terms, Coefficient
    <3>3. \A i \in 1..j : t[i] \in Int
      <4>1. \A i \in 1..j : i \in Nat /\ i # 0
        OBVIOUS
      <4> QED BY <3>1, <4>1, PolyFacts
    <3>4. Sum(t, j) \in Int /\ Sum(t, j + 1) = Sum(t, j) + t[j + 1]
      BY <3>2, <3>3, SumFacts
    <3> QED BY <3>1, <3>2, <3>4
  <2>10. A(j) * B + c * (s * B) = (A(j) + c * s) * B
    <3> HIDE DEF A, B
    <3>1. \A p, q, r, t \in Int : p * t + q * (r * t) = (p + q * r) * t
      OBVIOUS
    <3>2. A(j) \in Int /\ B \in Int /\ c \in Int /\ s \in Int
      BY <1>3, <2>3, <2>6, <2>9
    <3> QED BY <3>1, <3>2
  <2> HIDE DEF A, B
  <2> QED BY <2>2, <2>5, <2>7, <2>8, <2>9, <2>10
<1>6. Nat \subseteq U
  <2> HIDE DEF U
  <2> QED BY <1>4, <1>5, NumberInduction
<1>7. ASSUME NEW j \in 0..Len(a) PROVE Sum(Partial(a, b, j), n) = A(j) * B
  <2>1. j \in Nat /\ j <= Len(a)
    BY <1>1
  <2> HIDE DEF A, B
  <2> QED BY <1>6, <2>1
<1> QED BY <1>7

\* The product of two ciphertexts decrypts to the product.
LEMMA PhaseOfProduct ==
    ASSUME NEW a, Poly(a), NEW b, Poly(b), Len(a) \in Nat \ {0}, Len(b) \in Nat \ {0}
    PROVE  /\ Poly(Convolve(a, b)) /\ Len(Convolve(a, b)) = Len(a) + Len(b) - 1
           /\ Convolve(a, b) \in [1..Len(a) + Len(b) - 1 -> Residues]
           /\ Cong(Phase(Convolve(a, b)), Phase(a) * Phase(b))
<1>1. PICK n \in Nat : n = Len(a) + Len(b) - 1 /\ n + 1 = Len(a) + Len(b)
  <2>1. Len(a) + Len(b) - 1 \in Nat
    OBVIOUS
  <2> QED BY <2>1
<1>2. PICK c : c = Convolve(a, b)
  OBVIOUS
<1>3. \A k \in 1..n : k \in Nat /\ k # 0
  OBVIOUS
<1>4. Len(a) <= Len(a) /\ DOMAIN a = 1..Len(a)
  BY DEF Poly
<1>5. ASSUME NEW k \in 1..n
      PROVE  Sum(Factors(a, b, k), Len(a)) \in Int /\ c[k] = Sum(Factors(a, b, k), Len(a)) % P /\ c[k] \in Residues
  <2>1. Sum(Factors(a, b, k), Len(a)) \in Int
    BY <1>3, <1>4, PartialFacts
  <2>2. c[k] = Sum(Factors(a, b, k), Len(a)) % P
    BY <1>1, <1>2 DEF Convolve, Factors
  <2> QED BY <2>1, <2>2, CongMod
<1>6. c = [k \in 1..n |-> Sum([i \in DOMAIN a |-> a[i] * Coefficient(b, k + 1 - i)], Len(a)) % P]
  BY <1>1, <1>2 DEF Convolve
<1>7. c \in [1..n -> Residues]
  BY <1>5, <1>6
<1>8. Len(c) = n /\ DOMAIN c = 1..n
  BY <1>7
<1>9. Poly(c)
  BY <1>7, <1>8, ResidueFacts DEF Poly
<1>10. PICK f, g : f = Terms(c) /\ g = Partial(a, b, Len(a))
  OBVIOUS
<1>11. ASSUME NEW k \in 1..n PROVE f[k] \in Int /\ g[k] \in Int /\ Cong(f[k], g[k])
  <2>1. k \in Nat /\ k # 0 /\ k - 1 \in Nat
    OBVIOUS
  <2>2. f[k] \in Int /\ g[k] \in Int
    BY <1>4, <1>9, <1>10, <2>1, PolyFacts, PartialFacts
  <2>3. PICK u, s \in Int : u = Sum(Factors(a, b, k), Len(a)) /\ s = Pow(Secret, k - 1) /\ u \in Int
    BY <1>5, <2>1, PolyFacts, PowFacts
  <2>4. g[k] = u * s
    BY <1>10, <2>1, <2>3 DEF Partial
  <2>5. PICK r \in Int : r = u % P /\ Cong(r, u)
    BY <2>3, CongMod
  <2>6. f[k] = r * s
    BY <1>5, <1>8, <1>10, <2>1, <2>3, <2>5 DEF Terms, Coefficient
  <2>7. Cong(s, s)
    BY <2>3, CongEquivalence
  <2>8. Cong(r * s, u * s)
    BY <2>3, <2>5, <2>7, CongOps
  <2> QED BY <2>2, <2>4, <2>6, <2>8
<1>12. Cong(Sum(f, n), Sum(g, n))
  BY <1>11, SameResidues
<1>13. PICK A, B : A = Sum(Terms(a), Len(a)) /\ B = Sum(Terms(b), Len(b)) /\ A \in Int /\ B \in Int
  <2>1. Len(b) <= Len(b)
    OBVIOUS
  <2> QED BY <1>4, <2>1, PhaseIsSum
<1>14. Sum(g, n) = A * B
  <2>1. Len(a) \in 0..Len(a)
    OBVIOUS
  <2> QED BY <1>1, <1>10, <1>13, <2>1, PartialSum
<1>15. PICK x, y, z : /\ x = Phase(a) /\ y = Phase(b) /\ z = Phase(c) /\ x \in Int /\ y \in Int /\ z \in Int
                      /\ Cong(x, A) /\ Cong(y, B) /\ Cong(z, Sum(f, n)) /\ Sum(f, n) \in Int
  <2>1. Len(b) <= Len(b) /\ n <= n
    OBVIOUS
  <2>2. Phase(a) \in Int /\ Cong(Phase(a), A)
    BY <1>4, <1>13, PhaseIsSum
  <2>3. Phase(b) \in Int /\ Cong(Phase(b), B)
    BY <1>13, <2>1, PhaseIsSum
  <2>4. Phase(c) \in Int /\ Cong(Phase(c), Sum(f, n)) /\ Sum(f, n) \in Int
    BY <1>8, <1>9, <1>10, <2>1, PhaseIsSum
  <2> QED BY <2>2, <2>3, <2>4
<1>16. Cong(z, x * y)
  <2>1. Cong(x * y, A * B)
    BY <1>13, <1>15, CongOps
  <2>2. PICK u, v, w : u = x * y /\ v = A * B /\ w = Sum(f, n) /\ u \in Int /\ v \in Int /\ w \in Int
    BY <1>13, <1>15
  <2>3. Cong(z, w) /\ Cong(w, v) /\ Cong(v, u)
    BY <1>12, <1>14, <1>15, <2>1, <2>2, CongEquivalence
  <2> QED BY <1>15, <2>2, <2>3, CongEquivalence
<1> QED BY <1>1, <1>2, <1>7, <1>8, <1>9, <1>15, <1>16

\* A sum or a difference of ciphertexts decrypts to that of what they decrypt to.
LEMMA PhaseOfSum ==
    ASSUME NEW a, Poly(a), NEW b, Poly(b), NEW sign \in {1, -1}, NEW n \in Nat,
           n = IF Len(a) > Len(b) THEN Len(a) ELSE Len(b)
    PROVE  /\ Poly(Combine(a, b, sign)) /\ Len(Combine(a, b, sign)) = n
           /\ Combine(a, b, sign) \in [1..n -> Residues]
           /\ Cong(Phase(Combine(a, b, sign)), Phase(a) + sign * Phase(b))
<1>1. PICK c : c = Combine(a, b, sign)
  OBVIOUS
<1>2. Len(a) <= n /\ Len(b) <= n /\ DOMAIN a \cup DOMAIN b = 1..n
  <2>1. PICK p, q \in Nat : p = Len(a) /\ q = Len(b) /\ DOMAIN a = 1..p /\ DOMAIN b = 1..q
    BY DEF Poly
  <2>2. p <= n /\ q <= n /\ (n = p \/ n = q)
    BY <2>1
  <2>3. (1..p) \cup (1..q) = 1..n
    BY <2>2
  <2> QED BY <2>1, <2>2, <2>3
<1>3. \A k \in 1..n : k \in Nat /\ k # 0 /\ k - 1 \in Nat
  OBVIOUS
<1>4. sign \in Int
  OBVIOUS
<1>5. ASSUME NEW k \in 1..n
      PROVE  /\ Coefficient(a, k) \in Int /\ Coefficient(b, k) \in Int
             /\ c[k] = (Coefficient(a, k) + sign * Coefficient(b, k)) % P
             /\ c[k] \in Residues /\ Cong(c[k], Coefficient(a, k) + sign * Coefficient(b, k))
  <2>1. PICK u, v : u = Coefficient(a, k) /\ v = Coefficient(b, k) /\ u \in Int /\ v \in Int
    BY PolyFacts
  <2>2. c[k] = (u + sign * v) % P
    BY <1>1, <1>2, <2>1 DEF Combine
  <2>3. u + sign * v \in Int
    BY <1>4, <2>1
  <2> QED BY <2>1, <2>2, <2>3, CongMod
<1>6. c = [k \in 1..n |-> (Coefficient(a, k) + sign * Coefficient(b, k)) % P]
  BY <1>1, <1>2 DEF Combine
<1>7. c \in [1..n -> Residues]
  BY <1>5, <1>6
<1>8. Len(c) = n /\ DOMAIN c = 1..n
  BY <1>7
<1>9. Poly(c)
  BY <1>7, <1>8, ResidueFacts DEF Poly
<1>10. PICK f, g, h, t : f = Terms(a) /\ g = Terms(b) /\ t = Terms(c) /\ h = [k \in Nat |-> f[k] + sign * g[k]]
  OBVIOUS
<1>11. ASSUME NEW k \in 1..n PROVE f[k] \in Int /\ g[k] \in Int /\ h[k] \in Int /\ h[k] = f[k] + sign * g[k]
  <2>1. f[k] \in Int /\ g[k] \in Int
    BY <1>3, <1>10, PolyFacts
  <2>2. h[k] = f[k] + sign * g[k]
    BY <1>3, <1>10
  <2>3. \A u, v \in Int : u + sign * v \in Int
    BY <1>4
  <2> QED BY <2>1, <2>2, <2>3
<1>12. ASSUME NEW k \in 1..n PROVE t[k] \in Int /\ h[k] \in Int /\ Cong(t[k], h[k])
  <2>1. PICK u, v, s : u = Coefficient(a, k) /\ v = Coefficient(b, k) /\ s = Pow(Secret, k - 1) /\ u \in Int /\ v \in Int /\ s \in Int
    BY <1>3, <1>5, PolyFacts, PowFacts
  <2>2. f[k] = u * s /\ g[k] = v * s
    BY <1>3, <1>10, <2>1 DEF Terms
  <2>3. h[k] = (u + sign * v) * s
    <3>1. u * s + sign * (v * s) = (u + sign * v) * s
      <4>1. \A p, q, r, w \in Int : p * w + q * (r * w) = (p + q * r) * w
        OBVIOUS
      <4>2. u \in Int /\ sign \in Int /\ v \in Int /\ s \in Int
        BY <1>4, <2>1
      <4> QED BY <4>1, <4>2
    <3> QED BY <1>11, <2>2, <3>1
  <2>4. PICK r, w \in Int : r = c[k] /\ w = u + sign * v /\ Cong(r, w)
    <3>1. u + sign * v \in Int
      BY <1>4, <2>1
    <3>2. Cong(c[k], u + sign * v) /\ c[k] \in Residues
      BY <1>5, <2>1
    <3> QED BY <3>1, <3>2, ResidueFacts
  <2>5. t[k] = r * s
    BY <1>3, <1>8, <1>10, <2>1, <2>4 DEF Terms, Coefficient
  <2>6. Cong(r * s, w * s)
    <3>1. Cong(s, s)
      BY <2>1, CongEquivalence
    <3> QED BY <2>1, <2>4, <3>1, CongOps
  <2>7. r * s \in Int
    BY <2>1, <2>4
  <2> QED BY <1>11, <2>3, <2>4, <2>5, <2>6, <2>7
<1>13. Sum(h, n) = Sum(f, n) + sign * Sum(g, n)
  <2>1. Linear(h, f, sign, g, n)
    BY <1>11 DEF Linear
  <2> QED BY <1>4, <2>1, SumLinear
<1>14. Cong(Sum(t, n), Sum(h, n))
  BY <1>12, SameResidues
<1>15. PICK A, B, C : A = Sum(f, n) /\ B = Sum(g, n) /\ C = Sum(t, n)
  OBVIOUS
<1>16. PICK x, y, z : /\ x = Phase(a) /\ y = Phase(b) /\ z = Phase(c) /\ x \in Int /\ y \in Int /\ z \in Int
                      /\ A \in Int /\ B \in Int /\ C \in Int /\ Cong(x, A) /\ Cong(y, B) /\ Cong(z, C)
  <2>1. n <= n
    OBVIOUS
  <2>2. A \in Int /\ Phase(a) \in Int /\ Cong(Phase(a), A)
    BY <1>2, <1>10, <1>15, PhaseIsSum
  <2>3. B \in Int /\ Phase(b) \in Int /\ Cong(Phase(b), B)
    BY <1>2, <1>10, <1>15, PhaseIsSum
  <2>4. C \in Int /\ Phase(c) \in Int /\ Cong(Phase(c), C)
    BY <1>8, <1>9, <1>10, <1>15, <2>1, PhaseIsSum
  <2> QED BY <2>2, <2>3, <2>4
<1>17. Cong(z, x + sign * y)
  <2>1. PICK u, v : u = sign * y /\ v = sign * B /\ u \in Int /\ v \in Int
    BY <1>4, <1>16
  <2>2. Cong(u, v)
    <3>1. Cong(sign, sign)
      BY <1>4, CongEquivalence
    <3> QED BY <1>4, <1>16, <2>1, <3>1, CongOps
  <2>3. Cong(x + u, A + v)
    BY <1>16, <2>1, <2>2, CongOps
  <2>4. PICK p, q \in Int : p = x + u /\ q = A + v /\ Cong(q, p)
    BY <1>16, <2>1, <2>3, CongEquivalence
  <2>5. Cong(C, q)
    BY <1>13, <1>14, <1>15, <2>1, <2>4
  <2>6. Cong(z, p)
    BY <1>16, <2>4, <2>5, CongEquivalence
  <2> QED BY <2>1, <2>4, <2>6
<1> QED BY <1>1, <1>7, <1>8, <1>9, <1>16, <1>17

\* Scaling scales.
LEMMA PhaseOfScale ==
    ASSUME NEW a, Poly(a), NEW v \in Int, NEW c, c = [i \in DOMAIN a |-> (a[i] * v) % P]
    PROVE  /\ Poly(c) /\ Len(c) = Len(a) /\ c \in [1..Len(a) -> Residues]
           /\ Cong(Phase(c), Phase(a) * v)
<1>1. PICK n \in Nat : n = Len(a) /\ DOMAIN a = 1..n /\ \A i \in 1..n : a[i] \in Int
  BY DEF Poly
<1>2. ASSUME NEW i \in 1..n PROVE a[i] * v \in Int /\ c[i] = (a[i] * v) % P /\ c[i] \in Residues /\ Cong(c[i], a[i] * v)
  <2>1. a[i] * v \in Int
    BY <1>1
  <2>2. c[i] = (a[i] * v) % P
    BY <1>1
  <2> QED BY <2>1, <2>2, CongMod
<1>3. c \in [1..n -> Residues]
  BY <1>1, <1>2
<1>4. Len(c) = n /\ DOMAIN c = 1..n
  BY <1>3
<1>5. Poly(c)
  BY <1>3, <1>4, ResidueFacts DEF Poly
<1>6. PICK f, t, z, h : f = Terms(a) /\ t = Terms(c) /\ z = [k \in Nat |-> 0] /\ h = [k \in Nat |-> 0 + v * f[k]]
  OBVIOUS
<1>7. \A k \in 1..n : k \in Nat /\ k # 0 /\ k - 1 \in Nat
  OBVIOUS
<1>8. ASSUME NEW k \in 1..n PROVE f[k] \in Int /\ z[k] = 0 /\ h[k] \in Int /\ h[k] = z[k] + v * f[k]
  BY <1>6, <1>7, PolyFacts
<1>9. ASSUME NEW k \in 1..n PROVE t[k] \in Int /\ h[k] \in Int /\ Cong(t[k], h[k])
  <2>1. PICK u, s : u = a[k] /\ s = Pow(Secret, k - 1) /\ u \in Int /\ s \in Int
    BY <1>1, <1>7, PolyFacts, PowFacts
  <2>2. f[k] = u * s
    BY <1>1, <1>6, <1>7, <2>1 DEF Terms, Coefficient
  <2>3. PICK r, w \in Int : r = c[k] /\ w = u * v /\ Cong(r, w)
    BY <1>2, <2>1, ResidueFacts
  <2>4. t[k] = r * s
    BY <1>4, <1>6, <1>7, <2>1, <2>3 DEF Terms, Coefficient
  <2>5. h[k] = w * s
    <3>1. 0 + v * (u * s) = (u * v) * s
      BY <2>1
    <3> QED BY <1>8, <2>2, <2>3, <3>1
  <2>6. Cong(r * s, w * s) /\ r * s \in Int
    <3>1. Cong(s, s)
      BY <2>1, CongEquivalence
    <3>2. r * s \in Int
      BY <2>1, <2>3
    <3> QED BY <2>1, <2>3, <3>1, <3>2, CongOps
  <2> QED BY <1>8, <2>4, <2>5, <2>6
<1>10. Sum(h, n) = Sum(z, n) + v * Sum(f, n)
  <2>1. Linear(h, z, v, f, n)
    BY <1>8 DEF Linear
  <2> QED BY <2>1, SumLinear
<1>11. Sum(z, n) = 0
  <2>1. 0 <= n /\ (\A i \in 1..n : i > 0 => z[i] = 0) /\ (\A i \in 1..0 : z[i] \in Int) /\ \A i \in 1..n : z[i] \in Int
    BY <1>8
  <2> QED BY <2>1, SumTail, SumFacts
<1>12. Cong(Sum(t, n), Sum(h, n))
  BY <1>9, SameResidues
<1>13. PICK x, y, A, C : /\ x = Phase(a) /\ y = Phase(c) /\ A = Sum(f, n) /\ C = Sum(t, n)
                         /\ x \in Int /\ y \in Int /\ A \in Int /\ C \in Int /\ Cong(x, A) /\ Cong(y, C)
  <2>1. n <= n
    OBVIOUS
  <2>2. Phase(a) \in Int /\ Sum(f, n) \in Int /\ Cong(Phase(a), Sum(f, n))
    BY <1>1, <1>6, <2>1, PhaseIsSum
  <2>3. Phase(c) \in Int /\ Sum(t, n) \in Int /\ Cong(Phase(c), Sum(t, n))
    BY <1>4, <1>5, <1>6, <2>1, PhaseIsSum
  <2> QED BY <2>2, <2>3
<1>14. Cong(y, x * v)
  <2>1. PICK p, q \in Int : p = x * v /\ q = A * v
    BY <1>13
  <2>2. Cong(p, q)
    <3>1. Cong(v, v)
      BY CongEquivalence
    <3> QED BY <1>13, <2>1, <3>1, CongOps
  <2>3. Sum(h, n) = q
    <3>1. 0 + v * A = A * v
      BY <1>13
    <3> QED BY <1>10, <1>11, <1>13, <2>1, <3>1
  <2>4. Cong(C, q) /\ Cong(q, p)
    BY <1>12, <1>13, <2>1, <2>2, <2>3, CongEquivalence
  <2>5. Cong(y, p)
    BY <1>13, <2>1, <2>4, CongEquivalence
  <2> QED BY <2>1, <2>5
<1> QED BY <1>1, <1>3, <1>4, <1>5, <1>13, <1>14

\* A plaintext is added to the first polynomial.
LEMMA PhaseOfPlain ==
    ASSUME NEW a, Poly(a), Len(a) # 0, NEW v \in Int, NEW c, c = [a EXCEPT ![1] = (@ + v) % P]
    PROVE  /\ Poly(c) /\ Len(c) = Len(a) /\ c[1] \in Residues
           /\ Cong(Phase(c), Phase(a) + v)
<1>1. PICK n \in Nat : n = Len(a) /\ n # 0 /\ DOMAIN a = 1..n /\ \A i \in 1..n : a[i] \in Int
  BY DEF Poly
<1>2. 1 \in 1..n /\ a[1] \in Int /\ a[1] + v \in Int
  BY <1>1
<1>3. DOMAIN c = 1..n /\ c[1] = (a[1] + v) % P /\ c[1] \in Residues /\ c[1] \in Int /\ Cong(c[1], a[1] + v)
  BY <1>1, <1>2, CongMod
<1>4. \A i \in 1..n : i # 1 => c[i] = a[i]
  BY <1>1
<1>5. c \in [1..n -> Int]
  <2>1. \A i \in 1..n : c[i] \in Int
    BY <1>1, <1>3, <1>4
  <2> QED BY <1>1, <2>1
<1>6. Len(c) = n
  BY <1>5
<1>7. Poly(c)
  BY <1>5, <1>6 DEF Poly
<1>8. PICK f, t, d, h : /\ f = Terms(a) /\ t = Terms(c) /\ d = [k \in Nat |-> IF k = 1 THEN 1 ELSE 0]
                        /\ h = [k \in Nat |-> f[k] + v * d[k]]
  OBVIOUS
<1>9. \A k \in 1..n : k \in Nat /\ k # 0 /\ k - 1 \in Nat
  OBVIOUS
<1>10. ASSUME NEW k \in 1..n
       PROVE  f[k] \in Int /\ d[k] \in Int /\ h[k] \in Int /\ h[k] = f[k] + v * d[k] /\ t[k] \in Int
  <2>1. f[k] \in Int /\ t[k] \in Int
    BY <1>7, <1>8, <1>9, PolyFacts
  <2>2. d[k] \in {0, 1} /\ v * 0 = 0 /\ v * 1 = v
    BY <1>8, <1>9
  <2>3. h[k] = f[k] + v * d[k]
    BY <1>8, <1>9
  <2> QED BY <2>1, <2>2, <2>3
<1>11. ASSUME NEW k \in 1..n PROVE Cong(t[k], h[k])
  <2>1. CASE k = 1
    <3>1. Pow(Secret, 0) = 1 /\ 1 - 1 = 0 /\ 1 \in Nat
      BY PolyFacts, PowFacts
    <3>2. f[1] = a[1] * 1 /\ t[1] = c[1] * 1
      BY <1>1, <1>2, <1>3, <1>8, <3>1 DEF Terms, Coefficient
    <3>3. h[1] = f[1] + v * 1
      BY <1>8, <3>1
    <3>4. h[1] = a[1] + v /\ t[1] = c[1]
      BY <1>2, <1>3, <3>2, <3>3
    <3> QED BY <1>3, <2>1, <3>4
  <2>2. CASE k # 1
    <3>1. t[k] = f[k]
      BY <1>1, <1>3, <1>4, <1>8, <1>9, <2>2 DEF Terms, Coefficient
    <3>2. d[k] = 0 /\ v * 0 = 0
      BY <1>8, <1>9, <2>2
    <3>3. h[k] = f[k]
      BY <1>10, <3>2
    <3> QED BY <1>10, <3>1, <3>3, CongEquivalence
  <2> QED BY <2>1, <2>2
<1>12. Sum(d, n) = 1
  <2>1. 1 <= n /\ (\A i \in 1..n : i > 1 => d[i] = 0) /\ \A i \in 1..n : d[i] \in Int
    <3>1. \A i \in 1..n : i > 1 => d[i] = 0
      BY <1>8, <1>9
    <3> QED BY <1>1, <1>10, <3>1
  <2>2. 1 \in Nat
    OBVIOUS
  <2>3. Sum(d, n) = Sum(d, 1)
    BY <2>1, <2>2, SumTail
  <2>4. Sum(d, 0) = 0 /\ Sum(d, 0 + 1) = Sum(d, 0) + d[0 + 1]
    <3>1. (\A i \in 1..0 : d[i] \in Int) /\ d[0 + 1] \in Int
      BY <1>8
    <3> QED BY <3>1, SumFacts
  <2>5. d[0 + 1] = 1 /\ 0 + 1 = 1
    BY <1>8
  <2> QED BY <2>3, <2>4, <2>5
<1>13. Sum(h, n) = Sum(f, n) + v * Sum(d, n)
  <2>1. Linear(h, f, v, d, n)
    BY <1>10 DEF Linear
  <2> QED BY <2>1, SumLinear
<1>14. Cong(Sum(t, n), Sum(h, n))
  BY <1>10, <1>11, SameResidues
<1>15. PICK x, y, A, C : /\ x = Phase(a) /\ y = Phase(c) /\ A = Sum(f, n) /\ C = Sum(t, n)
                         /\ x \in Int /\ y \in Int /\ A \in Int /\ C \in Int /\ Cong(x, A) /\ Cong(y, C)
  <2>1. n <= n
    OBVIOUS
  <2>2. Phase(a) \in Int /\ Sum(f, n) \in Int /\ Cong(Phase(a), Sum(f, n))
    BY <1>1, <1>8, <2>1, PhaseIsSum
  <2>3. Phase(c) \in Int /\ Sum(t, n) \in Int /\ Cong(Phase(c), Sum(t, n))
    BY <1>6, <1>7, <1>8, <2>1, PhaseIsSum
  <2> QED BY <2>2, <2>3
<1>16. Cong(y, x + v)
  <2>1. PICK p, q \in Int : p = x + v /\ q = A + v
    BY <1>15
  <2>2. Cong(p, q)
    <3>1. Cong(v, v)
      BY CongEquivalence
    <3> QED BY <1>15, <2>1, <3>1, CongOps
  <2>3. Sum(h, n) = q
    <3>1. A + v * 1 = A + v
      BY <1>15
    <3> QED BY <1>12, <1>13, <1>15, <2>1, <3>1
  <2>4. Cong(C, q) /\ Cong(q, p)
    BY <1>14, <1>15, <2>1, <2>2, <2>3, CongEquivalence
  <2>5. Cong(y, p)
    BY <1>15, <2>1, <2>4, CongEquivalence
  <2> QED BY <2>1, <2>5
<1> QED BY <1>1, <1>3, <1>6, <1>7, <1>15, <1>16

-----------------------------------------------------------------------------
(* What an operation returns.                                              *)

Outcomes == {"ok", "same", "threw"}
\* What is computed is valid and not transparent.
Sound(r) == r.ct \in Ciphertexts /\ r.out \in Outcomes /\ (r.out = "ok" => Valid(r.ct) /\ ~Transparent(r.ct))
\* Where an operation throws, the object x is as it was, or reads as transparent.
Harmless(r, x) == r.out = "threw" => r.ct = x \/ Transparent(r.ct)
\* With a key for every relinearization that create_relin_keys makes one for,
\* the result decrypts to v.
Decrypts(r, v) == RelinCount <= 1 /\ r.out # "threw" => Cong(Value(r.ct), v)
Outcome(r, x, v) == Sound(r) /\ Harmless(r, x) /\ Decrypts(r, v)

\* The fields of a ciphertext.
LEMMA CiphertextFacts ==
    ASSUME NEW x \in Ciphertexts
    PROVE  /\ x.level \in 0..KeyLevel /\ x.ntt \in BOOLEAN
           /\ Len(x.c) \in 2..SizeMax /\ Len(x.c) \in Nat /\ DOMAIN x.c = 1..Len(x.c)
           /\ \A i \in 1..Len(x.c) : x.c[i] \in Residues
           /\ Poly(x.c) /\ Value(x) \in Residues /\ Value(x) \in Int
<1>1. x.level \in 0..KeyLevel /\ x.ntt \in BOOLEAN
  BY DEF Ciphertexts
<1>2. Len(x.c) \in 2..SizeMax /\ DOMAIN x.c = 1..Len(x.c) /\ \A i \in 1..Len(x.c) : x.c[i] \in Residues
  BY DEF Ciphertexts
<1>3. Len(x.c) \in Nat /\ Len(x.c) <= Len(x.c)
  BY <1>2
<1>4. Poly(x.c)
  BY <1>2, <1>3, ResidueFacts DEF Poly
<1>5. Value(x) \in Residues /\ Value(x) \in Int
  BY <1>3, <1>4, PhaseIsSum DEF Value
<1> QED BY <1>1, <1>2, <1>3, <1>4, <1>5

\* A ciphertext with other polynomials, at another level, in another form.
LEMMA Rewritten ==
    ASSUME NEW x \in Ciphertexts
    PROVE  /\ \A n \in 2..SizeMax : \A c \in [1..n -> Residues] :
                 /\ [x EXCEPT !.c = c] \in Ciphertexts /\ [x EXCEPT !.c = c].c = c
                 /\ [x EXCEPT !.c = c].level = x.level /\ [x EXCEPT !.c = c].ntt = x.ntt
           /\ \A level \in 0..KeyLevel :
                 /\ [x EXCEPT !.level = level] \in Ciphertexts /\ [x EXCEPT !.level = level].level = level
                 /\ [x EXCEPT !.level = level].c = x.c /\ [x EXCEPT !.level = level].ntt = x.ntt
           /\ \A ntt \in BOOLEAN :
                 /\ [x EXCEPT !.ntt = ntt] \in Ciphertexts
                 /\ [x EXCEPT !.ntt = ntt].level = x.level /\ [x EXCEPT !.ntt = ntt].c = x.c
<1>1. ASSUME NEW n \in 2..SizeMax, NEW c \in [1..n -> Residues]
      PROVE  /\ [x EXCEPT !.c = c] \in Ciphertexts /\ [x EXCEPT !.c = c].c = c
             /\ [x EXCEPT !.c = c].level = x.level /\ [x EXCEPT !.c = c].ntt = x.ntt
  BY DEF Ciphertexts
<1>2. ASSUME NEW level \in 0..KeyLevel
      PROVE  /\ [x EXCEPT !.level = level] \in Ciphertexts /\ [x EXCEPT !.level = level].level = level
             /\ [x EXCEPT !.level = level].c = x.c /\ [x EXCEPT !.level = level].ntt = x.ntt
  BY DEF Ciphertexts
<1>3. ASSUME NEW ntt \in BOOLEAN
      PROVE  /\ [x EXCEPT !.ntt = ntt] \in Ciphertexts
             /\ [x EXCEPT !.ntt = ntt].level = x.level /\ [x EXCEPT !.ntt = ntt].c = x.c
  BY DEF Ciphertexts
<1> QED BY <1>1, <1>2, <1>3

\* A call that is refused leaves everything, ...
LEMMA Refused ==
    ASSUME NEW x \in Ciphertexts
    PROVE  \A v : Outcome(Throw(x), x, v)
BY DEF Throw, Outcome, Sound, Harmless, Decrypts, Outcomes

\* ... one that has nothing to do returns what there is, ...
LEMMA Returned ==
    ASSUME NEW x \in Ciphertexts, NEW y
    PROVE  Outcome(Same(x), y, Value(x))
<1>1. Cong(Value(x), Value(x))
  BY CiphertextFacts, CongEquivalence
<1>2. Same(x).ct = x /\ Same(x).out = "same"
  BY DEF Same
<1> QED BY <1>1, <1>2 DEF Outcome, Sound, Harmless, Decrypts, Outcomes

\* ... and one that has written a valid result looks at it.
LEMMA Computed ==
    ASSUME NEW y \in Ciphertexts, Valid(y), NEW x, NEW v, RelinCount <= 1 => Cong(Value(y), v)
    PROVE  Outcome(Done(y), x, v)
<1>1. Done(y).ct = y /\ Done(y).out = IF Transparent(y) THEN "threw" ELSE "ok"
  BY DEF Done
<1>2. Sound(Done(y))
  BY <1>1 DEF Sound, Outcomes
<1>3. Harmless(Done(y), x)
  BY <1>1 DEF Harmless
<1>4. Decrypts(Done(y), v)
  BY <1>1 DEF Decrypts
<1> QED BY <1>2, <1>3, <1>4 DEF Outcome

\* Scale keeps everything but the residues.
LEMMA ScaleFacts ==
    ASSUME NEW x \in Ciphertexts, NEW v \in Int
    PROVE  /\ Scale(x, v) \in Ciphertexts /\ Scale(x, v).level = x.level
           /\ Cong(Value(Scale(x, v)), Value(x) * v)
<1>1. PICK c : c = [i \in DOMAIN x.c |-> (x.c[i] * v) % P]
  OBVIOUS
<1>2. Poly(x.c) /\ Len(x.c) \in 2..SizeMax
  BY CiphertextFacts
<1>3. c \in [1..Len(x.c) -> Residues] /\ Cong(Phase(c), Phase(x.c) * v)
  BY <1>1, <1>2, PhaseOfScale
<1>4. Scale(x, v) = [x EXCEPT !.c = c]
  BY <1>1 DEF Scale
<1>5. [x EXCEPT !.c = c] \in Ciphertexts /\ [x EXCEPT !.c = c].c = c /\ [x EXCEPT !.c = c].level = x.level
  BY <1>2, <1>3, Rewritten
<1> QED BY <1>3, <1>4, <1>5 DEF Value

\* Negation negates.
LEMMA NegateFacts ==
    ASSUME NEW x \in Ciphertexts
    PROVE  Outcome(NegateInplace(x), x, -Value(x))
<1>1. CASE ~Valid(x)
  BY <1>1, Refused DEF NegateInplace
<1>2. CASE Valid(x)
  <2>1. PICK y, v : y = Scale(x, P - 1) /\ v = Value(x) /\ v \in Int
    BY CiphertextFacts
  <2>2. P - 1 \in Int
    BY EvaluatorAssumption
  <2>3. y \in Ciphertexts /\ y.level = x.level /\ Cong(Value(y), v * (P - 1))
    BY <2>1, <2>2, ScaleFacts
  <2>4. Valid(y)
    BY <1>2, <2>3 DEF Valid
  <2>5. Cong(v * (P - 1), -v)
    <3>1. v * (P - 1) = -v + v * P
      BY <2>1, EvaluatorAssumption
    <3> QED BY <2>1, <3>1 DEF Cong
  <2>6. Cong(Value(y), -v)
    <3>1. PICK u, w, z : u = v * (P - 1) /\ w = -v /\ z = Value(y) /\ u \in Int /\ w \in Int /\ z \in Int
      BY <2>1, <2>2, <2>3, CiphertextFacts
    <3>2. Cong(z, u) /\ Cong(u, w)
      BY <2>3, <2>5, <3>1
    <3> QED BY <3>1, <3>2, CongEquivalence
  <2> QED BY <1>2, <2>1, <2>3, <2>4, <2>6, Computed DEF NegateInplace
<1> QED BY <1>1, <1>2

\* Addition and subtraction, of ciphertexts of any two sizes.
LEMMA CombineFacts ==
    ASSUME NEW x \in Ciphertexts, NEW y \in Ciphertexts, NEW sign \in {1, -1}
    PROVE  /\ [x EXCEPT !.c = Combine(x.c, y.c, sign)] \in Ciphertexts
           /\ [x EXCEPT !.c = Combine(x.c, y.c, sign)].level = x.level
           /\ Cong(Value([x EXCEPT !.c = Combine(x.c, y.c, sign)]), Value(x) + sign * Value(y))
<1>1. PICK n \in Nat : n = (IF Len(x.c) > Len(y.c) THEN Len(x.c) ELSE Len(y.c)) /\ n \in 2..SizeMax
  BY CiphertextFacts
<1>2. PICK c : c = Combine(x.c, y.c, sign)
  OBVIOUS
<1>3. c \in [1..n -> Residues] /\ Cong(Phase(c), Phase(x.c) + sign * Phase(y.c))
  <2>1. Poly(x.c) /\ Poly(y.c)
    BY CiphertextFacts
  <2> QED BY <1>1, <1>2, <2>1, PhaseOfSum
<1>4. [x EXCEPT !.c = c] \in Ciphertexts /\ [x EXCEPT !.c = c].c = c /\ [x EXCEPT !.c = c].level = x.level
  BY <1>1, <1>3, Rewritten
<1> QED BY <1>2, <1>3, <1>4 DEF Value

\* Addition adds.
LEMMA AddFacts ==
    ASSUME NEW x \in Ciphertexts, NEW y \in Ciphertexts
    PROVE  Outcome(AddInplace(x, y), x, Value(x) + Value(y))
<1>1. CASE ~(Match(x, y) /\ x.ntt = y.ntt)
  BY <1>1, Refused DEF AddInplace
<1>2. CASE Match(x, y) /\ x.ntt = y.ntt
  <2>1. PICK z, sign : z = [x EXCEPT !.c = Combine(x.c, y.c, sign)] /\ sign = 1
    OBVIOUS
  <2>2. z \in Ciphertexts /\ z.level = x.level /\ Cong(Value(z), Value(x) + sign * Value(y))
    <3>1. sign \in {1, -1}
      BY <2>1
    <3> QED BY <2>1, <3>1, CombineFacts
  <2>3. Valid(z)
    BY <1>2, <2>2 DEF Valid, Match
  <2>4. Value(x) + sign * Value(y) = Value(x) + Value(y)
    BY <2>1, CiphertextFacts
  <2> QED BY <1>2, <2>1, <2>2, <2>3, <2>4, Computed DEF AddInplace
<1> QED BY <1>1, <1>2

\* Subtraction subtracts, whichever operand is the destination.
LEMMA SubFacts ==
    ASSUME NEW x \in Ciphertexts, NEW y \in Ciphertexts
    PROVE  /\ Outcome(SubInplace(x, y), x, Value(x) - Value(y))
           /\ Outcome(SubFrom(x, y), y, Value(x) - Value(y))
<1>1. ASSUME NEW x1 \in Ciphertexts, NEW y1 \in Ciphertexts
      PROVE  Outcome(SubInplace(x1, y1), x1, Value(x1) - Value(y1))
  <2>1. CASE ~(Match(x1, y1) /\ x1.ntt = y1.ntt)
    BY <2>1, Refused DEF SubInplace
  <2>2. CASE Match(x1, y1) /\ x1.ntt = y1.ntt
    <3>1. PICK z, sign : z = [x1 EXCEPT !.c = Combine(x1.c, y1.c, sign)] /\ sign = -1
      OBVIOUS
    <3>2. z \in Ciphertexts /\ z.level = x1.level /\ Cong(Value(z), Value(x1) + sign * Value(y1))
      <4>1. sign \in {1, -1}
        BY <3>1
      <4> QED BY <3>1, <4>1, CombineFacts
    <3>3. Valid(z)
      BY <2>2, <3>2 DEF Valid, Match
    <3>4. Value(x1) + sign * Value(y1) = Value(x1) - Value(y1)
      BY <3>1, CiphertextFacts
    <3> QED BY <2>2, <3>1, <3>2, <3>3, <3>4, Computed DEF SubInplace
  <2> QED BY <2>1, <2>2
<1>2. Outcome(SubFrom(x, y), y, Value(x) - Value(y))
  <2>1. PICK r : r = SubInplace(y, x) /\ Outcome(r, y, Value(y) - Value(x))
    BY <1>1
  <2>2. CASE r.out = "threw"
    <3>1. SubFrom(x, y) = r
      BY <2>1, <2>2 DEF SubFrom
    <3> QED BY <2>1, <2>2, <3>1 DEF Outcome, Sound, Harmless, Decrypts
  <2>3. CASE r.out # "threw"
    <3>1. SubFrom(x, y) = NegateInplace(r.ct)
      BY <2>1, <2>3 DEF SubFrom
    <3>2. r.ct \in Ciphertexts /\ Valid(r.ct)
      <4>1. r = Done([y EXCEPT !.c = Combine(y.c, x.c, -1)])
        BY <2>1, <2>3 DEF SubInplace, Throw
      <4>2. r.out = "ok"
        BY <2>3, <4>1 DEF Done
      <4> QED BY <2>1, <4>2 DEF Outcome, Sound
    <3>3. PICK n : n = NegateInplace(r.ct) /\ Outcome(n, r.ct, -Value(r.ct))
      BY <3>2, NegateFacts
    <3>4. Harmless(n, y)
      <4>1. n = Done(Scale(r.ct, P - 1))
        BY <3>2, <3>3 DEF NegateInplace
      <4> QED BY <4>1 DEF Harmless, Done
    <3>5. Decrypts(n, Value(x) - Value(y))
      <4> SUFFICES ASSUME RelinCount <= 1, n.out # "threw" PROVE Cong(Value(n.ct), Value(x) - Value(y))
        BY DEF Decrypts
      <4>1. Cong(Value(r.ct), Value(y) - Value(x)) /\ Cong(Value(n.ct), -Value(r.ct))
        BY <2>1, <2>3, <3>3 DEF Outcome, Decrypts
      <4>2. PICK a, b, c, d : /\ a = Value(x) /\ b = Value(y) /\ c = Value(r.ct) /\ d = Value(n.ct)
                              /\ a \in Int /\ b \in Int /\ c \in Int /\ d \in Int
        <5>1. n.ct \in Ciphertexts
          BY <3>3 DEF Outcome, Sound
        <5> QED BY <3>2, <5>1, CiphertextFacts
      <4>3. Cong(0 - c, 0 - (b - a))
        <5>1. Cong(0, 0) /\ b - a \in Int /\ 0 \in Int
          BY <4>2, CongEquivalence
        <5>2. PICK e \in Int : e = b - a
          BY <5>1
        <5>3. Cong(0 - c, 0 - e)
          BY <4>1, <4>2, <5>1, <5>2, CongOps
        <5> QED BY <5>2, <5>3
      <4>4. 0 - c = -c /\ 0 - (b - a) = a - b /\ -c \in Int /\ a - b \in Int
        BY <4>2
      <4>5. Cong(d, -c) /\ Cong(-c, a - b)
        BY <4>1, <4>2, <4>3, <4>4
      <4>6. PICK p, q \in Int : p = -c /\ q = a - b
        BY <4>4
      <4>7. Cong(d, q)
        BY <4>2, <4>5, <4>6, CongEquivalence
      <4> QED BY <4>2, <4>6, <4>7
    <3> QED BY <3>1, <3>3, <3>4, <3>5 DEF Outcome
  <2> QED BY <2>2, <2>3
<1> QED BY <1>1, <1>2

\* Multiplication multiplies, and makes a ciphertext larger.
LEMMA MultiplyFacts ==
    ASSUME NEW x \in Ciphertexts, NEW y \in Ciphertexts
    PROVE  /\ Outcome(MultiplyInplace(x, y), x, Value(x) * Value(y))
           /\ MultiplyInplace(x, y).out # "threw" =>
                 /\ Valid(MultiplyInplace(x, y).ct) /\ Len(MultiplyInplace(x, y).ct.c) >= 3
<1> DEFINE guard == Match(x, y) /\ ~x.ntt /\ ~y.ntt /\ Len(x.c) + Len(y.c) - 1 <= SizeMax
<1>1. CASE ~guard
  <2>1. MultiplyInplace(x, y) = Throw(x)
    BY <1>1 DEF MultiplyInplace
  <2>2. Outcome(Throw(x), x, Value(x) * Value(y)) /\ Throw(x).out = "threw"
    BY Refused DEF Throw
  <2> QED BY <2>1, <2>2
<1>2. CASE guard
  <2>1. PICK n, c, z : n = Len(x.c) + Len(y.c) - 1 /\ c = Convolve(x.c, y.c) /\ z = [x EXCEPT !.c = c]
    OBVIOUS
  <2>2. n \in 2..SizeMax /\ n >= 3 /\ n \in Nat
    <3>1. Len(x.c) \in 2..SizeMax /\ Len(y.c) \in 2..SizeMax
      BY CiphertextFacts
    <3>2. Len(x.c) + Len(y.c) - 1 <= SizeMax /\ SizeMax \in Nat
      BY <1>2, EvaluatorAssumption
    <3>3. PICK k, l \in Nat : k = Len(x.c) /\ l = Len(y.c) /\ k >= 2 /\ l >= 2
      BY <3>1
    <3>4. n = k + l - 1 /\ k + l - 1 <= SizeMax
      BY <2>1, <3>2, <3>3
    <3>5. k + l - 1 \in Nat /\ k + l - 1 >= 3
      <4>1. k >= 2 /\ l >= 2
        BY <3>3
      <4> QED BY <4>1
    <3>6. n \in Nat /\ n >= 3 /\ n <= SizeMax
      BY <3>4, <3>5
    <3> QED BY <3>2, <3>6
  <2>3. c \in [1..n -> Residues] /\ Len(c) = n /\ Cong(Phase(c), Phase(x.c) * Phase(y.c))
    <3>1. Poly(x.c) /\ Poly(y.c) /\ Len(x.c) \in Nat \ {0} /\ Len(y.c) \in Nat \ {0}
      BY CiphertextFacts
    <3> QED BY <2>1, <3>1, PhaseOfProduct
  <2>4. z \in Ciphertexts /\ z.c = c /\ z.level = x.level
    <3>1. [x EXCEPT !.c = c] \in Ciphertexts /\ [x EXCEPT !.c = c].c = c /\ [x EXCEPT !.c = c].level = x.level
      BY <2>2, <2>3, Rewritten
    <3> QED BY <2>1, <3>1
  <2>5. Valid(z)
    BY <1>2, <2>4 DEF Valid, Match
  <2>6. MultiplyInplace(x, y) = Done(z)
    BY <1>2, <2>1 DEF MultiplyInplace
  <2>7. Outcome(Done(z), x, Value(x) * Value(y))
    BY <2>3, <2>4, <2>5, Computed DEF Value
  <2> QED BY <2>2, <2>3, <2>4, <2>5, <2>6, <2>7 DEF Done
<1> QED BY <1>1, <1>2

\* Two residues are two polynomials, as many as a fresh ciphertext has.
LEMMA TwoPolys ==
    ASSUME NEW x \in Ciphertexts
    PROVE  /\ Len(x.c) = 2 =>
                 /\ x.c[1] \in Residues /\ x.c[2] \in Residues /\ x.c[1] \in Int /\ x.c[2] \in Int
                 /\ Cong(Value(x), x.c[1] + x.c[2] * Secret)
           /\ \A a, b \in Residues : \A c : c = <<a, b>> =>
                 /\ c \in [1..2 -> Residues]
                 /\ [x EXCEPT !.c = c] \in Ciphertexts /\ [x EXCEPT !.c = c].c = c
                 /\ [x EXCEPT !.c = c].level = x.level /\ [x EXCEPT !.c = c].ntt = x.ntt
                 /\ Cong(Value([x EXCEPT !.c = c]), a + b * Secret)
<1>1. ASSUME Len(x.c) = 2
      PROVE  /\ x.c[1] \in Residues /\ x.c[2] \in Residues /\ x.c[1] \in Int /\ x.c[2] \in Int
             /\ Cong(Value(x), x.c[1] + x.c[2] * Secret)
  <2>1. x.c[1] \in Residues /\ x.c[2] \in Residues /\ x.c[1] \in Int /\ x.c[2] \in Int
    <3>1. 1 \in 1..2 /\ 2 \in 1..2
      OBVIOUS
    <3>2. x.c[1] \in Residues /\ x.c[2] \in Residues
      BY <1>1, <3>1, CiphertextFacts
    <3> QED BY <3>2, ResidueFacts
  <2>2. x.c = <<x.c[1], x.c[2]>>
    <3>1. PICK c : c = x.c /\ c \in [1..2 -> Residues]
      BY <1>1 DEF Ciphertexts
    <3>2. c = <<c[1], c[2]>>
      BY <3>1
    <3> QED BY <3>1, <3>2
  <2>3. Cong(Phase(<<x.c[1], x.c[2]>>), x.c[1] + x.c[2] * Secret)
    BY <2>1, PhaseOfTwo
  <2> QED BY <2>1, <2>2, <2>3 DEF Value
<1>2. ASSUME NEW a \in Residues, NEW b \in Residues, NEW c, c = <<a, b>>
      PROVE  /\ c \in [1..2 -> Residues]
             /\ [x EXCEPT !.c = c] \in Ciphertexts /\ [x EXCEPT !.c = c].c = c
             /\ [x EXCEPT !.c = c].level = x.level /\ [x EXCEPT !.c = c].ntt = x.ntt
             /\ Cong(Value([x EXCEPT !.c = c]), a + b * Secret)
  <2>1. c \in [1..2 -> Residues]
    <3>1. <<a, b>> \in [1..2 -> Residues]
      OBVIOUS
    <3> QED BY <1>2, <3>1
  <2>2. 2 \in 2..SizeMax
    BY EvaluatorAssumption
  <2>3. /\ [x EXCEPT !.c = c] \in Ciphertexts /\ [x EXCEPT !.c = c].c = c
        /\ [x EXCEPT !.c = c].level = x.level /\ [x EXCEPT !.c = c].ntt = x.ntt
    <3>1. PICK n : n = 2
      OBVIOUS
    <3>2. n \in 2..SizeMax /\ c \in [1..n -> Residues]
      BY <2>1, <2>2, <3>1
    <3> QED BY <3>2, Rewritten
  <2>4. Cong(Phase(<<a, b>>), a + b * Secret)
    BY ResidueFacts, PhaseOfTwo
  <2> QED BY <1>2, <2>1, <2>3, <2>4 DEF Value
<1> QED BY <1>1, <1>2

\* Squaring of two polynomials is what multiplication would have been.
LEMMA SquareFacts ==
    ASSUME NEW x \in Ciphertexts
    PROVE  Outcome(SquareInplace(x), x, Value(x) * Value(x))
<1> DEFINE guard == Valid(x) /\ ~x.ntt /\ Len(x.c) = 2 /\ 3 <= SizeMax
<1>1. CASE ~guard
  <2>1. SquareInplace(x) = MultiplyInplace(x, x)
    BY <1>1 DEF SquareInplace
  <2> QED BY <2>1, MultiplyFacts
<1>2. CASE guard
  <2>1. PICK a, b \in Int : a = x.c[1] /\ b = x.c[2] /\ Cong(Value(x), a + b * Secret)
    BY <1>2, TwoPolys
  <2>2. PICK p, q, r \in Int : p = a * a /\ q = 2 * a * b /\ r = b * b
    OBVIOUS
  <2>3. PICK u, v, w \in Residues : u = p % P /\ v = q % P /\ w = r % P /\ Cong(u, p) /\ Cong(v, q) /\ Cong(w, r)
    BY CongMod
  <2>4. PICK c, z : c = <<u, v, w>> /\ z = [x EXCEPT !.c = c]
    OBVIOUS
  <2>5. c \in [1..3 -> Residues] /\ Len(c) = 3 /\ c[1] = u /\ c[2] = v /\ c[3] = w /\ DOMAIN c = 1..3
    <3>1. <<u, v, w>> \in [1..3 -> Residues] /\ Len(<<u, v, w>>) = 3
      OBVIOUS
    <3> QED BY <2>4, <3>1
  <2>6. Poly(c)
    BY <2>5, ResidueFacts DEF Poly
  <2>7. z \in Ciphertexts /\ z.c = c /\ z.level = x.level
    <3>1. 3 \in 2..SizeMax
      BY <1>2, EvaluatorAssumption
    <3>2. PICK n : n = 3
      OBVIOUS
    <3>3. n \in 2..SizeMax /\ c \in [1..n -> Residues]
      BY <2>5, <3>1, <3>2
    <3>4. [x EXCEPT !.c = c] \in Ciphertexts /\ [x EXCEPT !.c = c].c = c /\ [x EXCEPT !.c = c].level = x.level
      BY <3>3, Rewritten
    <3> QED BY <2>4, <3>4
  <2>8. Valid(z)
    BY <1>2, <2>7 DEF Valid
  <2>9. SquareInplace(x) = Done(z)
    BY <1>2, <2>1, <2>2, <2>3, <2>4 DEF SquareInplace
  <2>10. Cong(Value(z), Value(x) * Value(x))
    <3>1. PICK s \in Int : s = Secret
      BY PolyFacts
    <3>2. u \in Int /\ v \in Int /\ w \in Int
      BY ResidueFacts
    <3>3. Phase(c) \in Int /\ Cong(Phase(c), u + v * s + w * (s * s))
      BY <2>5, <2>6, <3>1, PhaseOfThree, ResidueFacts
    <3>4. Cong(u + v * s + w * (s * s), p + q * s + r * (s * s))
      <4>1. PICK t \in Int : t = s * s
        BY <3>1
      <4>2. Cong(s, s) /\ Cong(t, t)
        BY <3>1, <4>1, CongEquivalence
      <4>3. PICK i, j, k, l \in Int : i = v * s /\ j = q * s /\ k = w * t /\ l = r * t
        BY <2>2, <3>1, <3>2, <4>1
      <4>4. Cong(i, j) /\ Cong(k, l)
        <5>1. Cong(v * s, q * s)
          BY <2>3, <3>1, <3>2, <4>2, CongOps
        <5>2. Cong(w * t, r * t)
          BY <2>3, <3>2, <4>1, <4>2, CongOps
        <5> QED BY <4>3, <5>1, <5>2
      <4>5. u + i \in Int /\ p + j \in Int /\ Cong(u + i, p + j)
        <5>1. u + i \in Int /\ p + j \in Int
          BY <3>2
        <5>2. Cong(u, p)
          BY <2>3
        <5> QED BY <3>2, <4>4, <5>1, <5>2, CongOps
      <4>6. Cong((u + i) + k, (p + j) + l)
        BY <4>3, <4>4, <4>5, CongOps
      <4> QED BY <4>1, <4>3, <4>6
    <3>5. p + q * s + r * (s * s) = (a + b * s) * (a + b * s)
      <4>1. \A e, f, g \in Int : e * e + (2 * e * f) * g + (f * f) * (g * g) = (e + f * g) * (e + f * g)
        OBVIOUS
      <4> QED BY <2>1, <2>2, <3>1, <4>1
    <3>6. PICK m, n, y, o \in Int : /\ m = a + b * s /\ n = m * m /\ y = Value(x) /\ o = u + v * s + w * (s * s)
      <4>1. a + b * s \in Int /\ \A e \in Int : e * e \in Int
        BY <2>1, <3>1
      <4>2. u + v * s + w * (s * s) \in Int
        <5>1. \A e, f, g \in Int : e + f * s + g * (s * s) \in Int
          BY <3>1
        <5> QED BY <3>2, <5>1
      <4> QED BY <4>1, <4>2, CiphertextFacts
    <3>7. Cong(y, m) /\ Cong(m, y)
      BY <2>1, <3>1, <3>6, CongEquivalence
    <3>8. Cong(m * m, y * y) /\ y * y \in Int
      <4>1. \A e \in Int : e * e \in Int
        OBVIOUS
      <4>2. m \in Int /\ y \in Int
        OBVIOUS
      <4> QED BY <3>7, <4>1, <4>2, CongOps
    <3>9. PICK d, yy \in Int : d = Phase(c) /\ yy = y * y /\ Cong(d, o) /\ Cong(o, n) /\ Cong(n, yy)
      BY <3>3, <3>4, <3>5, <3>6, <3>8
    <3>10. Cong(d, yy)
      BY <3>6, <3>9, CongEquivalence
    <3> QED BY <2>7, <3>6, <3>9, <3>10 DEF Value
  <2> QED BY <2>7, <2>8, <2>9, <2>10, Computed
<1> QED BY <1>1, <1>2

\* A plaintext is added, taken away or multiplied with.
LEMMA PlainFacts ==
    ASSUME NEW x \in Ciphertexts, NEW p \in Plaintexts
    PROVE  /\ p.v \in Int
           /\ \A sign \in {1, -1} : Outcome(AddPlainInplace(x, p, sign), x, Value(x) + sign * p.v)
           /\ Outcome(MultiplyPlainInplace(x, p), x, Value(x) * p.v)
<1>1. p.v \in Int
  BY ResidueFacts DEF Plaintexts
<1>2. ASSUME NEW sign \in {1, -1} PROVE Outcome(AddPlainInplace(x, p, sign), x, Value(x) + sign * p.v)
  <2>1. CASE ~(Valid(x) /\ PlainValid(p) /\ ~x.ntt /\ ~p.ntt)
    BY <2>1, Refused DEF AddPlainInplace
  <2>2. CASE Valid(x) /\ PlainValid(p) /\ ~x.ntt /\ ~p.ntt
    <3>1. PICK v \in Int : v = sign * p.v
      BY <1>1
    <3>2. PICK c, z, n : c = [x.c EXCEPT ![1] = (@ + v) % P] /\ z = [x EXCEPT !.c = c] /\ n = Len(x.c)
      OBVIOUS
    <3>3. n \in 2..SizeMax /\ Poly(x.c) /\ n # 0 /\ DOMAIN x.c = 1..n /\ \A i \in 1..n : x.c[i] \in Residues
      BY <3>2, CiphertextFacts
    <3>4. c[1] \in Residues /\ Cong(Phase(c), Phase(x.c) + v)
      BY <3>2, <3>3, PhaseOfPlain
    <3>5. c \in [1..n -> Residues]
      <4>1. DOMAIN c = 1..n /\ \A i \in 1..n : i # 1 => c[i] = x.c[i]
        BY <3>2, <3>3
      <4>2. c = [i \in 1..n |-> c[i]] /\ \A i \in 1..n : c[i] \in Residues
        BY <3>2, <3>3, <3>4, <4>1
      <4> QED BY <4>2
    <3>6. z \in Ciphertexts /\ z.c = c /\ z.level = x.level
      BY <3>2, <3>3, <3>5, Rewritten
    <3>7. Valid(z)
      BY <2>2, <3>6 DEF Valid
    <3>8. AddPlainInplace(x, p, sign) = Done(z)
      BY <2>2, <3>1, <3>2 DEF AddPlainInplace
    <3> QED BY <3>1, <3>4, <3>6, <3>7, <3>8, Computed DEF Value
  <2> QED BY <2>1, <2>2
<1>3. Outcome(MultiplyPlainInplace(x, p), x, Value(x) * p.v)
  <2> DEFINE guard == Valid(x) /\ PlainValid(p) /\ x.ntt = p.ntt /\ (x.ntt => x.level = p.level)
  <2>1. CASE ~guard
    BY <2>1, Refused DEF MultiplyPlainInplace
  <2>2. CASE guard
    <3>1. PICK z : z = Scale(x, p.v) /\ z \in Ciphertexts /\ z.level = x.level /\ Cong(Value(z), Value(x) * p.v)
      BY <1>1, ScaleFacts
    <3>2. Valid(z)
      BY <2>2, <3>1 DEF Valid
    <3>3. MultiplyPlainInplace(x, p) = Done(z)
      BY <2>2, <3>1 DEF MultiplyPlainInplace
    <3> QED BY <3>1, <3>2, <3>3, Computed
  <2> QED BY <2>1, <2>2
<1> QED BY <1>1, <1>2, <1>3

-----------------------------------------------------------------------------
(* Key switching, levels and forms.                                        *)

\* What a key holds, in residues.
LEMMA KeyFacts ==
    ASSUME NEW power \in Int
    PROVE  \E k \in Residues :
               /\ KSwitchKey(power)[1] = k /\ KSwitchKey(power)[2] = Mask /\ Mask \in Residues
               /\ Cong(k, power - Mask * Secret)
<1>1. power - Mask * Secret \in Int
  BY PolyFacts
<1>2. PICK k \in Residues : k = (power - Mask * Secret) % P /\ Cong(k, power - Mask * Secret)
  <2>1. PICK e \in Int : e = power - Mask * Secret
    BY <1>1
  <2> QED BY <2>1, CongMod
<1>3. KSwitchKey(power)[1] = k /\ KSwitchKey(power)[2] = Mask
  BY <1>2 DEF KSwitchKey
<1> QED BY <1>2, <1>3, EvaluatorAssumption

\* Key switching writes the first two polynomials.
LEMMA SwitchedFacts ==
    ASSUME NEW x \in Ciphertexts, NEW t \in Int, NEW k, k[1] \in Int, k[2] \in Int, NEW y, y = Switched(x, t, k)
    PROVE  /\ y \in Ciphertexts /\ y.level = x.level /\ y.ntt = x.ntt
           /\ Len(y.c) = Len(x.c)
           /\ y.c[1] = (x.c[1] + t * k[1]) % P /\ y.c[2] = (x.c[2] + t * k[2]) % P
<1>1. PICK n, d : n = Len(x.c) /\ d = x.c
  OBVIOUS
<1>2. n \in 2..SizeMax /\ d \in [1..n -> Residues] /\ 1 \in 1..n /\ 2 \in 1..n
  <2>1. n \in 2..SizeMax /\ DOMAIN d = 1..n /\ \A i \in 1..n : d[i] \in Residues
    BY <1>1, CiphertextFacts
  <2>2. d \in [1..n -> Residues]
    BY <1>1, <2>1 DEF Ciphertexts
  <2> QED BY <2>1, <2>2
<1>3. PICK u, v \in Residues : u = (d[1] + t * k[1]) % P /\ v = (d[2] + t * k[2]) % P
  <2>1. d[1] \in Int /\ d[2] \in Int
    BY <1>2, ResidueFacts
  <2>2. PICK e, f \in Int : e = d[1] + t * k[1] /\ f = d[2] + t * k[2]
    <3>1. t * k[1] \in Int /\ t * k[2] \in Int
      OBVIOUS
    <3> QED BY <2>1, <3>1
  <2> QED BY <2>2, CongMod
<1>4. PICK c : c = [d EXCEPT ![1] = u, ![2] = v] /\ c \in [1..n -> Residues] /\ c[1] = u /\ c[2] = v
  <2>1. [d EXCEPT ![1] = u, ![2] = v] \in [1..n -> Residues]
    BY <1>2
  <2>2. [d EXCEPT ![1] = u, ![2] = v][1] = u /\ [d EXCEPT ![1] = u, ![2] = v][2] = v
    BY <1>2
  <2> QED BY <2>1, <2>2
<1>5. y = [x EXCEPT !.c = c]
  BY <1>1, <1>3, <1>4 DEF Switched, Ciphertexts
<1>6. /\ [x EXCEPT !.c = c] \in Ciphertexts /\ [x EXCEPT !.c = c].c = c
      /\ [x EXCEPT !.c = c].level = x.level /\ [x EXCEPT !.c = c].ntt = x.ntt
  <2>1. n \in 2..SizeMax /\ c \in [1..n -> Residues]
    BY <1>2, <1>4
  <2> QED BY <2>1, Rewritten
<1>7. Len(c) = n
  <2>1. n \in Nat
    BY <1>2
  <2> QED BY <1>4, <2>1
<1> QED BY <1>1, <1>3, <1>4, <1>5, <1>6, <1>7

\* The rounds of a relinearization keep level and form; the first one takes
\* away the last of three polynomials.
LEMMA SwitchingsFacts ==
    ASSUME NEW x \in Ciphertexts, Len(x.c) >= 3
    PROVE  /\ \A i \in 0..Len(x.c) - 2 :
                 Switchings(x)[i] \in Ciphertexts /\ Switchings(x)[i].level = x.level /\ Switchings(x)[i].ntt = x.ntt
           /\ Switchings(x)[1] = Switched(x, x.c[Len(x.c)], RelinKey(Len(x.c) - 1))
<1> DEFINE n == Len(x.c)
           D == 0..n - 2
           T == {z \in Ciphertexts : z.level = x.level /\ z.ntt = x.ntt}
           S(z, i) == Switched(z, x.c[n], RelinKey(n - i))
           Eq(y) == y = [i \in D |-> IF i = 0 THEN x ELSE S(y[i - 1], i)]
           step == [p \in T \X D |-> S(p[1], p[2])]
<1>1. n \in Nat /\ n >= 3 /\ x.c[n] \in Int
  <2>1. PICK l : l = Len(x.c) /\ l \in Nat /\ \A i \in 1..l : x.c[i] \in Residues
    BY CiphertextFacts
  <2>2. l >= 3
    BY <2>1
  <2>3. l \in 1..l
    BY <2>1, <2>2
  <2> QED BY <2>1, <2>2, <2>3, ResidueFacts
<1>2. ASSUME NEW z \in T, NEW i \in D PROVE S(z, i) \in T
  <2>1. n - i \in Nat
    BY <1>1
  <2>2. PICK e \in Int : e = Pow(Secret, n - i)
    BY <2>1, PolyFacts, PowFacts
  <2>3. PICK k : k = RelinKey(n - i) /\ k[1] \in Int /\ k[2] \in Int
    <3>1. KSwitchKey(e)[1] \in Residues /\ KSwitchKey(e)[2] \in Residues
      BY KeyFacts
    <3> QED BY <2>2, <3>1, ResidueFacts DEF RelinKey
  <2>4. PICK w : w = S(z, i)
    OBVIOUS
  <2>5. w \in Ciphertexts /\ w.level = z.level /\ w.ntt = z.ntt
    BY <1>1, <2>3, <2>4, SwitchedFacts
  <2> QED BY <2>4, <2>5
<1>3. \A j \in D : j # 0 => j - 1 \in D
  <2>1. PICK l \in Int : l = n
    BY <1>1
  <2>2. \A j \in 0..l - 2 : j # 0 => j - 1 \in 0..l - 2
    OBVIOUS
  <2> QED BY <2>1, <2>2
<1>4. x \in T
  OBVIOUS
<1>5. step \in [T \X D -> T] /\ \A z \in T, j \in D : step[<<z, j>>] = S(z, j)
  <2> HIDE DEF D, T, S
  <2> QED BY <1>2
<1>6. PICK g \in [D -> T] : \A j \in D : g[j] = IF j = 0 THEN x ELSE step[<<g[j - 1], j>>]
  <2> HIDE DEF T, step
  <2>1. PICK lo, hi : lo = 0 /\ hi = n - 2 /\ lo \in Int /\ hi \in Int
    <3>1. PICK l \in Int : l = n
      BY <1>1
    <3>2. 0 \in Int /\ l - 2 \in Int
      OBVIOUS
    <3> QED BY <3>1, <3>2
  <2>2. PICK V, f : V = T /\ f = step
    OBVIOUS
  <2>3. lo \in Int /\ hi \in Int /\ x \in V /\ Steps(f, lo, hi, V)
    BY <1>4, <1>5, <2>1, <2>2 DEF Steps
  <2>4. \E g : Walks(g, f, x, lo, hi, V)
    BY <2>3, Loop
  <2> QED BY <2>1, <2>2, <2>4 DEF Walks
<1>7. \A j \in D : g[j] = IF j = 0 THEN x ELSE S(g[j - 1], j)
  <2> SUFFICES ASSUME NEW j \in D, j # 0 PROVE g[j] = S(g[j - 1], j)
    BY <1>6
  <2> HIDE DEF T, S, D, step
  <2>1. g[j - 1] \in T
    BY <1>3, <1>6
  <2> QED BY <1>5, <1>6, <2>1
<1>8. Eq(g)
  <2> HIDE DEF T, S, D
  <2> QED BY <1>6, <1>7
<1>9. PICK y : Eq(y) /\ y = Switchings(x)
  <2>1. Switchings(x) = CHOOSE y : Eq(y)
    BY Zenon DEF Switchings
  <2>2. Eq(CHOOSE y : Eq(y))
    <3> HIDE DEF Eq
    <3> QED BY <1>8
  <2> QED BY <2>1, <2>2
<1>10. \A j \in D : y[j] = IF j = 0 THEN x ELSE S(y[j - 1], j)
  <2> HIDE DEF S, D
  <2> QED BY <1>9
<1>11. \A j \in D : y[j] \in T
  <2> DEFINE U == {i \in Nat : i \in D => y[i] \in T}
  <2>1. 0 \in U
    <3>1. 0 \in D
      BY <1>1
    <3> HIDE DEF S, D, T
    <3> QED BY <1>4, <1>10, <3>1
  <2>2. ASSUME NEW i \in Nat, i \in U PROVE i + 1 \in U
    <3> SUFFICES ASSUME i + 1 \in D PROVE y[i + 1] \in T
      OBVIOUS
    <3>1. i \in D /\ i + 1 # 0 /\ (i + 1) - 1 = i
      BY <1>1
    <3>2. y[i] \in T
      BY <2>2, <3>1
    <3> HIDE DEF S, D, T
    <3> QED BY <1>2, <1>10, <3>1, <3>2
  <2>3. Nat \subseteq U
    <3> HIDE DEF U
    <3> QED BY <2>1, <2>2, NumberInduction
  <2> QED BY <2>3
<1>12. y[1] = S(x, 1)
  <2>1. 0 \in D /\ 1 \in D /\ 1 - 1 = 0
    BY <1>1
  <2> HIDE DEF S, D
  <2> QED BY <1>10, <2>1
<1> QED BY <1>9, <1>11, <1>12

\* Relinearization leaves what the ciphertext decrypts to.
LEMMA RelinearizeFacts ==
    ASSUME NEW x \in Ciphertexts
    PROVE  /\ Outcome(RelinearizeInplace(x), x, Value(x))
           /\ Len(x.c) >= 3 => RelinearizeInplace(x).out # "same"
<1>1. CASE Len(x.c) > RelinCount + 2
  <2>1. RelinearizeInplace(x) = Throw(x)
    BY <1>1 DEF RelinearizeInplace
  <2> QED BY <2>1, Refused DEF Throw
<1>2. CASE ~(Len(x.c) > RelinCount + 2) /\ Len(x.c) = 2
  <2>1. RelinearizeInplace(x) = Same(x)
    BY <1>2 DEF RelinearizeInplace
  <2> QED BY <1>2, <2>1, Returned
<1>3. CASE ~(Len(x.c) > RelinCount + 2) /\ Len(x.c) # 2 /\ ~Switchable(x)
  <2>1. RelinearizeInplace(x) = Throw(x)
    BY <1>3 DEF RelinearizeInplace
  <2> QED BY <2>1, Refused DEF Throw
<1>4. CASE ~(Len(x.c) > RelinCount + 2) /\ Len(x.c) # 2 /\ Switchable(x)
  <2>1. PICK n \in Nat : n = Len(x.c) /\ n >= 3
    <3>1. PICK l : l = Len(x.c) /\ l \in 2..SizeMax /\ l # 2
      BY <1>4, CiphertextFacts
    <3>2. l \in Nat /\ l >= 3
      <4>1. PICK m \in Nat : m = SizeMax
        BY EvaluatorAssumption
      <4>2. l \in 2..m /\ l # 2
        BY <3>1, <4>1
      <4> QED BY <4>2
    <3> QED BY <3>1, <3>2
  <2>2. PICK y : y = Switchings(x)[n - 2] /\ y \in Ciphertexts /\ y.level = x.level /\ y.ntt = x.ntt
    <3>1. n - 2 \in 0..n - 2
      BY <2>1
    <3> QED BY <2>1, <3>1, SwitchingsFacts
  <2>3. PICK z : z = [y EXCEPT !.c = <<y.c[1], y.c[2]>>]
    OBVIOUS
  <2>4. RelinearizeInplace(x) = Done(z)
    BY <1>4, <2>1, <2>2, <2>3 DEF RelinearizeInplace
  <2>5. y.c[1] \in Residues /\ y.c[2] \in Residues
    <3>1. PICK m : m = Len(y.c) /\ m \in 2..SizeMax /\ \A i \in 1..m : y.c[i] \in Residues
      BY <2>2, CiphertextFacts
    <3>2. 1 \in 1..m /\ 2 \in 1..m
      BY <3>1
    <3> QED BY <3>1, <3>2
  <2>6. z \in Ciphertexts /\ z.level = y.level /\ Cong(Value(z), y.c[1] + y.c[2] * Secret)
    <3>1. PICK a, b \in Residues : a = y.c[1] /\ b = y.c[2]
      BY <2>5
    <3>2. PICK c : c = <<a, b>>
      OBVIOUS
    <3>3. /\ [y EXCEPT !.c = c] \in Ciphertexts /\ [y EXCEPT !.c = c].level = y.level
          /\ Cong(Value([y EXCEPT !.c = c]), a + b * Secret)
      BY <2>2, <3>2, TwoPolys
    <3> QED BY <2>3, <3>1, <3>2, <3>3
  <2>7. Valid(z)
    BY <1>4, <2>2, <2>6 DEF Valid, Switchable
  <2>8. ASSUME RelinCount <= 1 PROVE Cong(Value(z), Value(x))
    <3>1. n = 3
      <4>1. RelinCount \in Nat /\ ~(n > RelinCount + 2)
        BY <1>4, <2>1, EvaluatorAssumption
      <4>2. RelinCount + 2 <= 3 /\ RelinCount + 2 \in Nat
        BY <2>8, <4>1
      <4>3. n <= RelinCount + 2
        BY <4>1, <4>2
      <4>4. n <= 3
        BY <4>1, <4>2, <4>3
      <4>5. n >= 3
        BY <2>1
      <4> QED BY <4>4, <4>5
    <3>2. PICK a, b, c : /\ a = x.c[1] /\ b = x.c[2] /\ c = x.c[3] /\ a \in Int /\ b \in Int /\ c \in Int
                         /\ Cong(Value(x), a + b * Secret + c * (Secret * Secret))
      BY <2>1, <3>1, CiphertextFacts, PhaseOfThree DEF Value
    <3>3. PICK s, m \in Int : s = Secret /\ m = Mask
      BY PolyFacts
    <3>4. PICK k \in Residues : RelinKey(2)[1] = k /\ RelinKey(2)[2] = m /\ Cong(k, s * s - m * s)
      <4>1. PICK e \in Int : e = s * s /\ RelinKey(2) = KSwitchKey(e)
        BY <3>3, PowLaws DEF RelinKey
      <4> QED BY <3>3, <4>1, KeyFacts
    <3>5. k \in Int
      BY ResidueFacts
    <3>6. y.c[1] = (a + c * k) % P /\ y.c[2] = (b + c * m) % P
      <4>1. y = Switched(x, c, RelinKey(2))
        <5>1. Switchings(x)[1] = Switched(x, x.c[Len(x.c)], RelinKey(Len(x.c) - 1))
          BY <2>1, SwitchingsFacts
        <5>2. n - 2 = 1 /\ n - 1 = 2
          BY <3>1
        <5> QED BY <2>1, <2>2, <3>1, <3>2, <5>1, <5>2
      <4>2. PICK key : key = RelinKey(2) /\ key[1] = k /\ key[2] = m
        BY <3>4
      <4>3. key[1] \in Int /\ key[2] \in Int /\ c \in Int /\ y = Switched(x, c, key)
        BY <3>2, <3>3, <3>5, <4>1, <4>2
      <4>4. y.c[1] = (x.c[1] + c * key[1]) % P /\ y.c[2] = (x.c[2] + c * key[2]) % P
        BY <4>3, SwitchedFacts
      <4> QED BY <3>2, <4>2, <4>4
    <3>7. PICK p, q, u, v \in Int : p = y.c[1] /\ q = y.c[2] /\ u = a + c * k /\ v = b + c * m /\ Cong(p, u) /\ Cong(q, v)
      <4>1. PICK u, v \in Int : u = a + c * k /\ v = b + c * m
        <5>1. \A e, f, g \in Int : e + f * g \in Int
          OBVIOUS
        <5> QED BY <3>2, <3>5, <5>1
      <4>2. (u % P) \in Int /\ Cong(u % P, u) /\ (v % P) \in Int /\ Cong(v % P, v)
        BY CongMod
      <4> QED BY <3>6, <4>1, <4>2
    <3>8. PICK w, o \in Int : w = s * s - m * s /\ o = a + c * w
      <4>1. \A e, f \in Int : e * f \in Int
        OBVIOUS
      <4>2. s * s \in Int /\ m * s \in Int
        BY <4>1
      <4>3. PICK w \in Int : w = s * s - m * s
        BY <4>2
      <4>4. c * w \in Int
        BY <3>2, <4>1
      <4> QED BY <3>2, <4>3, <4>4
    <3>9. Cong(p, o)
      <4>1. Cong(a, a) /\ Cong(c, c)
        BY <3>2, CongEquivalence
      <4>2. Cong(c * k, c * w) /\ c * k \in Int /\ c * w \in Int
        <5>1. c * k \in Int /\ c * w \in Int
          BY <3>2, <3>5
        <5>2. Cong(k, w)
          BY <3>4, <3>8
        <5> QED BY <3>2, <3>5, <4>1, <5>1, <5>2, CongOps
      <4>3. PICK e, f \in Int : e = c * k /\ f = c * w
        BY <4>2
      <4>4. Cong(a + e, a + f)
        BY <3>2, <4>1, <4>2, <4>3, CongOps
      <4>5. Cong(u, o)
        BY <3>7, <3>8, <4>3, <4>4
      <4> QED BY <3>7, <3>8, <4>5, CongEquivalence
    <3>10. PICK d, e, f \in Int : d = p + q * s /\ e = o + v * s /\ f = a + b * s + c * (s * s)
      <4>1. \A i, j, l \in Int : i + j * l \in Int
        OBVIOUS
      <4>2. \A i, j, l, r \in Int : i + j * r + l * (r * r) \in Int
        OBVIOUS
      <4> QED BY <3>2, <3>7, <3>8, <4>1, <4>2
    <3>11. Cong(d, e)
      <4>1. Cong(s, s)
        BY CongEquivalence
      <4>2. PICK i, j \in Int : i = q * s /\ j = v * s
        OBVIOUS
      <4>3. Cong(i, j)
        BY <3>7, <4>1, <4>2, CongOps
      <4>4. Cong(p + i, o + j)
        BY <3>9, <4>2, <4>3, CongOps
      <4> QED BY <3>10, <4>2, <4>4
    <3>12. e = f
      <4>1. \A i, j, l, r, t \in Int : (i + l * (t * t - r * t)) + (j + l * r) * t = i + j * t + l * (t * t)
        OBVIOUS
      <4>2. e = (a + c * (s * s - m * s)) + (b + c * m) * s
        BY <3>7, <3>8, <3>10
      <4>3. a \in Int /\ b \in Int /\ c \in Int /\ s \in Int /\ m \in Int
        BY <3>2
      <4>4. e = a + b * s + c * (s * s)
        BY <4>1, <4>2, <4>3
      <4> QED BY <3>10, <4>4
    <3>13. PICK g, i \in Int : g = Value(z) /\ i = Value(x) /\ Cong(g, d) /\ Cong(i, f)
      BY <2>6, <3>2, <3>3, <3>7, <3>10, CiphertextFacts
    <3>14. Cong(d, i)
      BY <3>10, <3>11, <3>12, <3>13, CongEquivalence
    <3>15. Cong(g, i)
      BY <3>10, <3>13, <3>14, CongEquivalence
    <3> QED BY <3>13, <3>15
  <2>9. Outcome(Done(z), x, Value(x)) /\ Done(z).out # "same"
    BY <2>6, <2>7, <2>8, Computed DEF Done
  <2> QED BY <2>4, <2>9
<1> QED BY <1>1, <1>2, <1>3, <1>4

\* Switching down a level and changing the form touch no polynomial.
LEMMA LevelFacts ==
    ASSUME NEW x \in Ciphertexts, NEW d \in Ciphertexts, NEW level \in 0..KeyLevel, NEW ntt \in BOOLEAN
    PROVE  /\ Outcome(ModSwitchToNext(x, d), d, Value(x))
           /\ Outcome(ModSwitchTo(x, level), x, Value(x))
           /\ Outcome(Transform(x, ntt), x, Value(x))
<1>1. PICK l \in Int : l = x.level /\ l \in 0..KeyLevel /\ KeyLevel = TopLevel + 1 /\ TopLevel \in Nat
  BY CiphertextFacts, EvaluatorAssumption DEF KeyLevel
<1>2. ASSUME NEW m \in 0..KeyLevel, m <= TopLevel, NEW y \in Ciphertexts
      PROVE  Outcome(Done([x EXCEPT !.level = m]), y, Value(x))
  <2>1. PICK z : z = [x EXCEPT !.level = m] /\ z \in Ciphertexts /\ z.level = m /\ z.c = x.c
    <3>1. [x EXCEPT !.level = m] \in Ciphertexts /\ [x EXCEPT !.level = m].level = m /\ [x EXCEPT !.level = m].c = x.c
      BY Rewritten
    <3> QED BY <3>1
  <2>2. Valid(z) /\ Value(z) = Value(x)
    BY <1>2, <2>1 DEF Valid, Value
  <2>3. Cong(Value(z), Value(x))
    BY <2>2, CiphertextFacts, CongEquivalence
  <2> QED BY <2>1, <2>2, <2>3, Computed
<1>3. ASSUME NEW y \in Ciphertexts PROVE Outcome(ModSwitchToNext(x, y), y, Value(x))
  <2> DEFINE guard == Valid(x) /\ x.level > 0 /\ ~x.ntt
  <2>1. CASE ~guard
    BY <2>1, Refused DEF ModSwitchToNext
  <2>2. CASE guard
    <3>1. PICK m \in Int : m = x.level - 1 /\ m \in 0..KeyLevel /\ m <= TopLevel
      BY <1>1, <2>2 DEF Valid
    <3>2. ModSwitchToNext(x, y) = Done([x EXCEPT !.level = m])
      BY <2>2, <3>1 DEF ModSwitchToNext
    <3> QED BY <1>2, <3>1, <3>2
  <2> QED BY <2>1, <2>2
<1>4. Outcome(ModSwitchTo(x, level), x, Value(x))
  <2>1. CASE level > x.level
    BY <2>1, Refused DEF ModSwitchTo
  <2>2. CASE level = x.level
    <3>1. ~(level > x.level)
      BY <1>1, <2>2
    <3> QED BY <2>2, <3>1, Returned DEF ModSwitchTo
  <2>3. CASE ~(level > x.level) /\ level # x.level
    <3>1. PICK first : first = ModSwitchToNext(x, x) /\ Outcome(first, x, Value(x))
      BY <1>3
    <3>2. CASE first.out = "threw"
      BY <2>3, <3>1, <3>2 DEF ModSwitchTo
    <3>3. CASE first.out # "threw"
      <4>1. Valid(x)
        BY <3>1, <3>3 DEF ModSwitchToNext, Throw
      <4>2. level <= TopLevel
        BY <1>1, <2>3, <4>1 DEF Valid
      <4>3. ModSwitchTo(x, level) = Done([x EXCEPT !.level = level])
        BY <2>3, <3>1, <3>3 DEF ModSwitchTo
      <4> QED BY <1>2, <4>2, <4>3
    <3> QED BY <3>2, <3>3
  <2> QED BY <2>1, <2>2, <2>3
<1>5. Outcome(Transform(x, ntt), x, Value(x))
  <2>1. CASE ~(Valid(x) /\ x.ntt # ntt)
    BY <2>1, Refused DEF Transform
  <2>2. CASE Valid(x) /\ x.ntt # ntt
    <3>1. PICK z : z = [x EXCEPT !.ntt = ntt] /\ z \in Ciphertexts /\ z.level = x.level /\ z.c = x.c
      BY Rewritten
    <3>2. Valid(z) /\ Value(z) = Value(x)
      BY <2>2, <3>1 DEF Valid, Value
    <3>3. Cong(Value(z), Value(x))
      BY <3>2, CiphertextFacts, CongEquivalence
    <3>4. Transform(x, ntt) = Done(z)
      BY <2>2, <3>1 DEF Transform
    <3> QED BY <3>1, <3>2, <3>3, <3>4, Computed
  <2> QED BY <2>1, <2>2
<1> QED BY <1>3, <1>4, <1>5

\* An automorphism keeps a constant, and makes a ciphertext the next one takes;
\* what it destroys when it refuses the NTT form is seen to be empty.
LEMMA GaloisFacts ==
    ASSUME NEW x \in Ciphertexts, NEW garbage \in Residues, NEW r, r = ApplyGalois(x, garbage)
    PROVE  /\ Outcome(r, x, Value(x)) /\ r.out # "same"
           /\ r.out = "ok" => ~r.ct.ntt /\ Len(r.ct.c) = 2
           /\ Valid(x) /\ Len(x.c) = 2 /\ ~x.ntt /\ r.out = "threw" => Transparent(r.ct)
<1>1. CASE ~Valid(x) \/ Len(x.c) > 2
  <2>1. r = Throw(x)
    BY <1>1 DEF ApplyGalois
  <2>2. ~(Valid(x) /\ Len(x.c) = 2)
    <3>1. PICK l : l = Len(x.c)
      OBVIOUS
    <3>2. l = 2 => ~(l > 2)
      OBVIOUS
    <3> QED BY <1>1, <3>1, <3>2
  <2> QED BY <2>1, <2>2, Refused DEF Throw
<1>2. CASE ~(~Valid(x) \/ Len(x.c) > 2) /\ x.ntt
  <2>1. PICK c, z : c = <<garbage, 0>> /\ z = [x EXCEPT !.c = c] /\ r = Throw(z)
    BY <1>2 DEF ApplyGalois
  <2>2. z \in Ciphertexts /\ z.c = c
    BY <2>1, ResidueFacts, TwoPolys
  <2>3. Transparent(z)
    <3>1. Len(c) = 2 /\ c[2] = 0
      <4>1. Len(<<garbage, 0>>) = 2 /\ <<garbage, 0>>[2] = 0
        OBVIOUS
      <4> QED BY <2>1, <4>1
    <3>2. \A i \in 2..2 : i = 2
      OBVIOUS
    <3> QED BY <2>2, <3>1, <3>2 DEF Transparent
  <2> QED BY <1>2, <2>1, <2>2, <2>3 DEF Throw, Outcome, Sound, Harmless, Decrypts, Outcomes
<1>3. CASE ~(~Valid(x) \/ Len(x.c) > 2) /\ ~x.ntt
  <2>1. Len(x.c) = 2
    <3>1. PICK l : l = Len(x.c) /\ l \in Nat /\ l >= 2
      <4>1. PICK l : l = Len(x.c) /\ l \in Nat /\ l \in 2..SizeMax
        BY CiphertextFacts
      <4>2. SizeMax \in Nat
        BY EvaluatorAssumption
      <4>3. l >= 2
        BY <4>1, <4>2
      <4> QED BY <4>1, <4>3
    <3>2. ~(l > 2)
      BY <1>3, <3>1
    <3>3. l = 2
      <4>1. l \in Nat /\ l >= 2
        BY <3>1
      <4> QED BY <3>2, <4>1
    <3> QED BY <3>1, <3>3
  <2>2. PICK a, b \in Residues : a = x.c[1] /\ b = x.c[2] /\ a \in Int /\ b \in Int /\ Cong(Value(x), a + b * Secret)
    BY <2>1, TwoPolys
  <2>3. PICK c, y : c = <<a, 0>> /\ y = [x EXCEPT !.c = c] /\ y = [x EXCEPT !.c[2] = 0]
    <3>1. PICK d : d = x.c /\ d \in [1..2 -> Residues]
      BY <2>1 DEF Ciphertexts
    <3>2. [d EXCEPT ![2] = 0] = <<d[1], 0>>
      BY <3>1
    <3>3. PICK c : c = <<a, 0>>
      OBVIOUS
    <3>4. [x EXCEPT !.c[2] = 0] = [x EXCEPT !.c = c]
      BY <2>2, <3>1, <3>2, <3>3 DEF Ciphertexts
    <3> QED BY <3>3, <3>4
  <2>4. y \in Ciphertexts /\ y.c = c /\ y.level = x.level /\ y.ntt = x.ntt
    BY <2>2, <2>3, ResidueFacts, TwoPolys
  <2>5. c[1] = a /\ c[2] = 0 /\ Len(c) = 2
    <3>1. <<a, 0>>[1] = a /\ <<a, 0>>[2] = 0 /\ Len(<<a, 0>>) = 2
      OBVIOUS
    <3> QED BY <2>3, <3>1
  <2>6. PICK key, k, m, s : /\ key = GaloisKey /\ key[1] = k /\ key[2] = m /\ k \in Int /\ m \in Int /\ s \in Int
                            /\ s = Secret /\ m = Mask /\ Cong(k, s - m * s)
    BY PolyFacts, KeyFacts, ResidueFacts DEF GaloisKey
  <2>7. PICK z : z = Switched(y, b, key)
    OBVIOUS
  <2>8. /\ z \in Ciphertexts /\ z.level = x.level /\ z.ntt = x.ntt /\ Len(z.c) = 2
        /\ z.c[1] = (a + b * k) % P /\ z.c[2] = (0 + b * m) % P
    <3>1. key[1] \in Int /\ key[2] \in Int /\ b \in Int /\ y \in Ciphertexts /\ z = Switched(y, b, key)
      BY <2>2, <2>4, <2>6, <2>7
    <3>2. /\ z \in Ciphertexts /\ z.level = y.level /\ z.ntt = y.ntt /\ Len(z.c) = Len(y.c)
          /\ z.c[1] = (y.c[1] + b * key[1]) % P /\ z.c[2] = (y.c[2] + b * key[2]) % P
      BY <3>1, SwitchedFacts
    <3> QED BY <2>4, <2>5, <2>6, <3>2
  <2>9. r = Done(z)
    BY <1>3, <2>2, <2>3, <2>6, <2>7 DEF ApplyGalois
  <2>10. Valid(z)
    BY <1>3, <2>8 DEF Valid
  <2>11. Cong(Value(z), Value(x))
    <3>1. PICK u, v \in Int : u = a + b * k /\ v = 0 + b * m
      <4>1. \A e, f, g \in Int : e + f * g \in Int
        OBVIOUS
      <4> QED BY <2>2, <2>6, <4>1
    <3>2. PICK p, q \in Int : p = z.c[1] /\ q = z.c[2] /\ Cong(p, u) /\ Cong(q, v)
      <4>1. (u % P) \in Int /\ Cong(u % P, u) /\ (v % P) \in Int /\ Cong(v % P, v)
        BY CongMod
      <4> QED BY <2>8, <3>1, <4>1
    <3>3. PICK w, o \in Int : w = s - m * s /\ o = a + b * w
      <4>1. PICK w \in Int : w = s - m * s
        BY <2>6
      <4>2. b * w \in Int
        BY <2>2
      <4> QED BY <2>2, <4>1, <4>2
    <3>4. Cong(p, o)
      <4>1. Cong(a, a) /\ Cong(b, b)
        BY <2>2, CongEquivalence
      <4>2. Cong(b * k, b * w)
        BY <2>2, <2>6, <3>3, <4>1, CongOps
      <4>3. PICK e, f \in Int : e = b * k /\ f = b * w
        <5>1. \A i, j \in Int : i * j \in Int
          OBVIOUS
        <5> QED BY <2>2, <2>6, <3>3, <5>1
      <4>4. Cong(a + e, a + f)
        BY <2>2, <4>1, <4>2, <4>3, CongOps
      <4>5. Cong(u, o)
        BY <3>1, <3>3, <4>3, <4>4
      <4> QED BY <3>1, <3>2, <3>3, <4>5, CongEquivalence
    <3>5. PICK d, e, f \in Int : d = p + q * s /\ e = o + v * s /\ f = a + b * s
      <4>1. \A i, j, l \in Int : i + j * l \in Int
        OBVIOUS
      <4> QED BY <2>2, <2>6, <3>1, <3>2, <3>3, <4>1
    <3>6. Cong(d, e)
      <4>1. Cong(s, s)
        BY <2>6, CongEquivalence
      <4>2. PICK i, j \in Int : i = q * s /\ j = v * s
        BY <2>6
      <4>3. Cong(i, j)
        BY <2>6, <3>2, <4>1, <4>2, CongOps
      <4>4. Cong(p + i, o + j)
        BY <3>4, <4>2, <4>3, CongOps
      <4> QED BY <3>5, <4>2, <4>4
    <3>7. e = f
      <4>1. \A i, j, l, t \in Int : (i + j * (t - l * t)) + (0 + j * l) * t = i + j * t
        OBVIOUS
      <4>2. e = (a + b * (s - m * s)) + (0 + b * m) * s
        BY <3>1, <3>3, <3>5
      <4>3. a \in Int /\ b \in Int /\ s \in Int /\ m \in Int
        BY <2>2, <2>6
      <4>4. e = a + b * s
        BY <4>1, <4>2, <4>3
      <4> QED BY <3>5, <4>4
    <3>8. Cong(Value(z), d)
      <4>1. Cong(Value(z), z.c[1] + z.c[2] * Secret)
        BY <2>8, TwoPolys
      <4> QED BY <2>6, <3>2, <3>5, <4>1
    <3>9. PICK g, i \in Int : g = Value(z) /\ i = Value(x) /\ Cong(g, d) /\ Cong(i, f)
      BY <2>2, <2>6, <2>8, <3>5, <3>8, CiphertextFacts
    <3>10. Cong(d, i)
      BY <3>5, <3>6, <3>7, <3>9, CongEquivalence
    <3>11. Cong(g, i)
      BY <3>5, <3>9, <3>10, CongEquivalence
    <3> QED BY <3>9, <3>11
  <2>12. Outcome(Done(z), x, Value(x))
    BY <2>8, <2>10, <2>11, Computed
  <2>13. Done(z).ct = z /\ Done(z).out # "same" /\ (Done(z).out = "threw" => Transparent(z))
    BY DEF Done
  <2> QED BY <1>3, <2>8, <2>9, <2>12, <2>13
<1> QED BY <1>1, <1>2, <1>3

-----------------------------------------------------------------------------
(* Calls that go from one result to the next.                              *)

Answers == [ct : Ciphertexts, out : Outcomes]

\* What the steps of those calls return is a record of an object and an outcome.
LEMMA AnswerFacts ==
    ASSUME NEW x \in Ciphertexts, NEW y \in Ciphertexts, NEW garbage \in Residues
    PROVE  /\ Same(x) \in Answers /\ Throw(x) \in Answers
           /\ AddInplace(x, y) \in Answers /\ ApplyGalois(x, garbage) \in Answers
           /\ MultiplyInplace(x, y) \in Answers /\ RelinearizeInplace(x) \in Answers
<1> DEFINE Record(r) == r = [ct |-> r.ct, out |-> r.out]
<1>1. \A z : Record(Same(z)) /\ Record(Throw(z)) /\ Record(Done(z))
  BY DEF Same, Throw, Done
<1>2. \A r : Record(r) /\ Sound(r) => r \in Answers
  BY DEF Sound, Answers
<1>3. Sound(Same(x)) /\ Sound(Throw(x))
  BY Returned, Refused DEF Outcome
<1> HIDE DEF Record
<1>4. Sound(AddInplace(x, y)) /\ Sound(MultiplyInplace(x, y)) /\ Sound(RelinearizeInplace(x))
  BY AddFacts, MultiplyFacts, RelinearizeFacts DEF Outcome
<1>5. Sound(ApplyGalois(x, garbage))
  <2>1. PICK r : r = ApplyGalois(x, garbage)
    OBVIOUS
  <2> QED BY <2>1, GaloisFacts DEF Outcome
<1>6. Record(AddInplace(x, y))
  BY <1>1 DEF AddInplace
<1>7. Record(MultiplyInplace(x, y))
  BY <1>1 DEF MultiplyInplace
<1>8. Record(RelinearizeInplace(x))
  BY <1>1 DEF RelinearizeInplace
<1>9. Record(ApplyGalois(x, garbage))
  BY <1>1 DEF ApplyGalois
<1> QED BY <1>1, <1>2, <1>3, <1>4, <1>5, <1>6, <1>7, <1>8, <1>9

\* What decrypts to what decrypts to a value decrypts to it.
LEMMA Through ==
    ASSUME NEW x \in Ciphertexts, NEW v \in Int, RelinCount <= 1 => Cong(Value(x), v),
           NEW r, Sound(r), Decrypts(r, Value(x))
    PROVE  Decrypts(r, v)
<1> SUFFICES ASSUME RelinCount <= 1, r.out # "threw" PROVE Cong(Value(r.ct), v)
  BY DEF Decrypts
<1>1. PICK a, b \in Int : a = Value(r.ct) /\ b = Value(x)
  BY CiphertextFacts DEF Sound
<1>2. Cong(a, b) /\ Cong(b, v)
  BY <1>1 DEF Decrypts
<1>3. Cong(a, v)
  BY <1>2, CongEquivalence
<1> QED BY <1>1, <1>3

\* A rotation of a constant, in any number of automorphisms, is the constant;
\* it is refused before the first one, or leaves a transparent object.
LEMMA RotateFacts ==
    ASSUME NEW x \in Ciphertexts, NEW terms \in Nat, NEW garbage \in Residues
    PROVE  Outcome(Rotate(x, terms, garbage), x, Value(x))
<1> DEFINE D == 0..terms
           S(r) == IF r.out = "threw" THEN r ELSE ApplyGalois(r.ct, garbage)
           Eq(image) == image = [i \in D |-> IF i = 0 THEN Same(x)
                                             ELSE LET r == image[i - 1] IN
                                                  IF r.out = "threw" THEN r ELSE ApplyGalois(r.ct, garbage)]
           step == [p \in Answers \X D |-> S(p[1])]
<1>1. \A r \in Answers : S(r) \in Answers
  <2> SUFFICES ASSUME NEW r \in Answers, r.out # "threw" PROVE ApplyGalois(r.ct, garbage) \in Answers
    OBVIOUS
  <2>1. r.ct \in Ciphertexts
    BY DEF Answers
  <2> QED BY <2>1, AnswerFacts
<1>2. \A j \in D : j # 0 => j - 1 \in D
  OBVIOUS
<1>3. PICK b : b = Same(x) /\ b \in Answers
  BY AnswerFacts, ResidueFacts
<1>4. Steps(step, 0, terms, Answers) /\ \A r \in Answers, j \in D : step[<<r, j>>] = S(r)
  <2> HIDE DEF S
  <2>1. step \in [Answers \X D -> Answers]
    BY <1>1
  <2>2. \A r \in Answers, j \in D : step[<<r, j>>] = S(r)
    OBVIOUS
  <2> QED BY <2>1, <2>2 DEF Steps
<1> HIDE DEF step
<1>5. PICK g \in [D -> Answers] : \A j \in D : g[j] = IF j = 0 THEN b ELSE step[<<g[j - 1], j>>]
  <2> HIDE DEF D, S
  <2>1. PICK lo, hi, T, f : lo = 0 /\ hi = terms /\ T = Answers /\ f = step
    OBVIOUS
  <2>2. lo \in Int /\ hi \in Int /\ b \in T /\ Steps(f, lo, hi, T)
    BY <1>3, <1>4, <2>1
  <2>3. \E g : Walks(g, f, b, lo, hi, T)
    BY <2>2, Loop
  <2> QED BY <2>1, <2>3 DEF D, Walks
<1>6. \A j \in D : g[j] = IF j = 0 THEN Same(x) ELSE S(g[j - 1])
  <2> SUFFICES ASSUME NEW j \in D, j # 0 PROVE g[j] = S(g[j - 1])
    BY <1>3, <1>5
  <2> HIDE DEF D, S
  <2>1. g[j - 1] \in Answers
    BY <1>2, <1>5
  <2> QED BY <1>4, <1>5, <2>1
<1>7. Eq(g)
  BY <1>5, <1>6
<1>8. PICK image : Eq(image) /\ Rotate(x, terms, garbage) = image[terms]
  <2>1. Rotate(x, terms, garbage) = (CHOOSE image : Eq(image))[terms]
    BY Zenon DEF Rotate
  <2>2. Eq(CHOOSE image : Eq(image))
    <3> HIDE DEF Eq
    <3> QED BY <1>7
  <2> QED BY <2>1, <2>2
<1>9. \A j \in D : image[j] = IF j = 0 THEN Same(x) ELSE S(image[j - 1])
  BY <1>8
<1> HIDE DEF Eq
<1> DEFINE Good(r) == /\ Outcome(r, x, Value(x))
                      /\ r.out = "same" => r.ct = x
                      /\ r.out = "ok" => ~r.ct.ntt /\ Len(r.ct.c) = 2
<1>10. Good(Same(x))
  BY Returned DEF Same
<1>11. ASSUME NEW r, Good(r) PROVE Good(S(r))
  <2>1. CASE r.out = "threw"
    BY <1>11, <2>1
  <2>2. CASE r.out # "threw"
    <3>1. PICK q : q = ApplyGalois(r.ct, garbage) /\ q = S(r)
      BY <2>2
    <3>2. r.ct \in Ciphertexts /\ r.out \in {"ok", "same"} /\ (r.out = "ok" => Valid(r.ct))
      BY <1>11, <2>2 DEF Outcome, Sound, Outcomes
    <3>3. /\ Outcome(q, r.ct, Value(r.ct)) /\ q.out # "same"
          /\ q.out = "ok" => ~q.ct.ntt /\ Len(q.ct.c) = 2
          /\ Valid(r.ct) /\ Len(r.ct.c) = 2 /\ ~r.ct.ntt /\ q.out = "threw" => Transparent(q.ct)
      BY <3>1, <3>2, GaloisFacts
    <3>4. Harmless(q, x)
      <4>1. CASE r.out = "same"
        BY <1>11, <3>3, <4>1 DEF Outcome
      <4>2. CASE r.out = "ok"
        BY <1>11, <3>2, <3>3, <4>2 DEF Harmless
      <4> QED BY <3>2, <4>1, <4>2
    <3>5. Decrypts(q, Value(x))
      <4>1. RelinCount <= 1 => Cong(Value(r.ct), Value(x))
        BY <1>11, <2>2 DEF Outcome, Decrypts
      <4>2. PICK v \in Int : v = Value(x)
        BY CiphertextFacts
      <4> HIDE DEF S, Good
      <4>3. Sound(q) /\ Decrypts(q, Value(r.ct))
        BY <3>3 DEF Outcome
      <4>4. Decrypts(q, v)
        BY <3>2, <4>1, <4>2, <4>3, Through
      <4> QED BY <4>2, <4>4
    <3> QED BY <3>1, <3>3, <3>4, <3>5 DEF Outcome
  <2> QED BY <2>1, <2>2
<1> HIDE DEF Good, S
<1>12. \A j \in D : Good(image[j])
  <2> DEFINE U == {j \in Nat : j \in D => Good(image[j])}
  <2>1. 0 \in U
    BY <1>9, <1>10
  <2>2. ASSUME NEW j \in Nat, j \in U PROVE j + 1 \in U
    <3> SUFFICES ASSUME j + 1 \in D PROVE Good(image[j + 1])
      OBVIOUS
    <3>1. j \in D /\ j + 1 # 0 /\ (j + 1) - 1 = j
      OBVIOUS
    <3>2. Good(image[j])
      BY <2>2, <3>1
    <3>3. image[j + 1] = S(image[j])
      BY <1>9, <3>1
    <3> QED BY <1>11, <3>2, <3>3
  <2>3. Nat \subseteq U
    <3> HIDE DEF U
    <3> QED BY <2>1, <2>2, NumberInduction
  <2> QED BY <2>3
<1>13. Good(image[terms])
  <2>1. terms \in D
    OBVIOUS
  <2> QED BY <1>12, <2>1
<1> QED BY <1>8, <1>13 DEF Good

\* Cut short only by a transparent sum, and then what it leaves is that sum, or
\* the one before the operand that did not fit; else the sum of the operands.
LEMMA SumsFacts ==
    ASSUME NEW xs \in Seq(Ciphertexts) \ {<<>>}, NEW v, v = [i \in DOMAIN xs |-> Value(xs[i])]
    PROVE  \A n \in 1..Len(xs) :
              /\ Sound(Sums(xs)[n]) /\ Decrypts(Sums(xs)[n], Sum(v, n))
              /\ Sums(xs)[n].out = "threw" =>
                    \/ Transparent(Sums(xs)[n].ct)
                    \/ \E m \in 1..n - 1 : Sums(xs)[m].out # "threw" /\ Sums(xs)[n].ct = Sums(xs)[m].ct
<1>1. PICK L \in Nat : L = Len(xs) /\ L >= 1 /\ \A i \in 1..L : xs[i] \in Ciphertexts
  OBVIOUS
<1>2. \A i \in 1..L : v[i] = Value(xs[i]) /\ v[i] \in Int
  BY <1>1, CiphertextFacts
<1> DEFINE D == 1..L
           S(r, i) == IF r.out = "threw" THEN r ELSE AddInplace(r.ct, xs[i])
           Eq(sum) == sum = [i \in 1..Len(xs) |-> IF i = 1 THEN Same(xs[1])
                                       ELSE LET r == sum[i - 1] IN IF r.out = "threw" THEN r ELSE AddInplace(r.ct, xs[i])]
           step == [p \in Answers \X D |-> S(p[1], p[2])]
<1>3. \A r \in Answers, i \in D : S(r, i) \in Answers
  <2> SUFFICES ASSUME NEW r \in Answers, NEW i \in D, r.out # "threw" PROVE AddInplace(r.ct, xs[i]) \in Answers
    OBVIOUS
  <2>1. r.ct \in Ciphertexts /\ xs[i] \in Ciphertexts
    BY <1>1 DEF Answers
  <2> QED BY <2>1, AnswerFacts, ResidueFacts
<1>4. \A j \in D : j # 1 => j - 1 \in D
  OBVIOUS
<1>5. PICK b : b = Same(xs[1]) /\ b \in Answers
  <2>1. 1 \in 1..L
    BY <1>1
  <2>2. xs[1] \in Ciphertexts
    BY <1>1, <2>1
  <2> QED BY <2>2, AnswerFacts, ResidueFacts
<1>6. Steps(step, 1, L, Answers) /\ \A r \in Answers, j \in D : step[<<r, j>>] = S(r, j)
  <2> HIDE DEF S
  <2>1. step \in [Answers \X D -> Answers]
    BY <1>3
  <2>2. \A r \in Answers, j \in D : step[<<r, j>>] = S(r, j)
    OBVIOUS
  <2> QED BY <2>1, <2>2 DEF Steps
<1> HIDE DEF step
<1>7. PICK g \in [D -> Answers] : \A j \in D : g[j] = IF j = 1 THEN b ELSE step[<<g[j - 1], j>>]
  <2> HIDE DEF D, S
  <2>1. PICK lo, hi, T, f : lo = 1 /\ hi = L /\ T = Answers /\ f = step
    OBVIOUS
  <2>2. lo \in Int /\ hi \in Int /\ b \in T /\ Steps(f, lo, hi, T)
    BY <1>5, <1>6, <2>1
  <2>3. \E g : Walks(g, f, b, lo, hi, T)
    BY <2>2, Loop
  <2> QED BY <2>1, <2>3 DEF D, Walks
<1>8. \A j \in D : g[j] = IF j = 1 THEN Same(xs[1]) ELSE S(g[j - 1], j)
  <2> SUFFICES ASSUME NEW j \in D, j # 1 PROVE g[j] = S(g[j - 1], j)
    BY <1>5, <1>7
  <2> HIDE DEF D, S
  <2>1. g[j - 1] \in Answers
    BY <1>4, <1>7
  <2> QED BY <1>6, <1>7, <2>1
<1>9. Eq(g)
  BY <1>1, <1>7, <1>8
<1>10. PICK sum : Eq(sum) /\ Sums(xs) = sum
  <2>1. Sums(xs) = (CHOOSE sum : Eq(sum))
    BY Zenon DEF Sums
  <2>2. Eq(CHOOSE sum : Eq(sum))
    <3> HIDE DEF Eq
    <3> QED BY <1>9
  <2> QED BY <2>1, <2>2
<1>11. \A j \in D : sum[j] = IF j = 1 THEN Same(xs[1]) ELSE S(sum[j - 1], j)
  BY <1>1, <1>10
<1> HIDE DEF Eq
<1> DEFINE Left(r, n) == r.out = "threw" =>
                            Transparent(r.ct) \/ \E m \in 1..n - 1 : sum[m].out # "threw" /\ r.ct = sum[m].ct
           Good(r, n) == Sound(r) /\ Decrypts(r, Sum(v, n)) /\ Left(r, n)
<1>12. Good(sum[1], 1)
  <2>1. 1 \in D
    BY <1>1
  <2>2. xs[1] \in Ciphertexts /\ v[1] = Value(xs[1]) /\ v[1] \in Int
    BY <1>1, <1>2, <2>1
  <2>3. Sum(v, 1) = v[1]
    <3>1. PICK n \in Nat : n = 0
      OBVIOUS
    <3>2. n + 1 = 1 /\ \A i \in 1..n : v[i] \in Int
      BY <3>1
    <3>3. Sum(v, 0) = 0 /\ Sum(v, n + 1) = Sum(v, n) + v[n + 1]
      BY <2>2, <3>2, SumFacts
    <3> QED BY <2>2, <3>1, <3>2, <3>3
  <2>4. sum[1] = Same(xs[1])
    BY <1>11, <2>1
  <2>5. Outcome(Same(xs[1]), xs[1], Value(xs[1])) /\ Same(xs[1]).out = "same"
    BY <2>2, Returned DEF Same
  <2> QED BY <2>2, <2>3, <2>4, <2>5 DEF Outcome
<1>13. ASSUME NEW j \in Nat, j >= 1, j + 1 \in D, Good(sum[j], j) PROVE Good(sum[j + 1], j + 1)
  <2>1. j \in D /\ j + 1 # 1 /\ (j + 1) - 1 = j
    BY <1>13
  <2>2. sum[j + 1] = S(sum[j], j + 1)
    BY <1>11, <1>13, <2>1
  <2>3. PICK r, q : r = sum[j] /\ q = sum[j + 1] /\ q = S(r, j + 1) /\ Good(r, j)
    BY <1>13, <2>2
  <2>4. CASE r.out = "threw"
    <3>1. q = r
      BY <2>3, <2>4
    <3>2. Decrypts(q, Sum(v, j + 1))
      BY <2>4, <3>1 DEF Decrypts
    <3>3. \A m \in 1..j - 1 : m \in 1..(j + 1) - 1
      OBVIOUS
    <3>4. Left(q, j + 1)
      BY <2>3, <3>1, <3>3
    <3> HIDE DEF S, Left
    <3> QED BY <2>3, <3>1, <3>2, <3>4
  <2>5. CASE r.out # "threw"
    <3>1. q = AddInplace(r.ct, xs[j + 1])
      BY <2>3, <2>5
    <3>2. PICK x, y \in Ciphertexts : x = r.ct /\ y = xs[j + 1]
      BY <1>1, <1>13, <2>3 DEF Sound
    <3>3. Outcome(q, x, Value(x) + Value(y))
      BY <3>1, <3>2, AddFacts
    <3>4. Left(q, j + 1)
      <4>1. j \in 1..(j + 1) - 1
        BY <1>13
      <4>2. q.out = "threw" => q.ct = x \/ Transparent(q.ct)
        BY <3>3 DEF Outcome, Harmless
      <4> HIDE DEF S
      <4> QED BY <2>3, <2>5, <3>2, <4>1, <4>2
    <3>5. Decrypts(q, Sum(v, j + 1))
      <4> SUFFICES ASSUME RelinCount <= 1, q.out # "threw" PROVE Cong(Value(q.ct), Sum(v, j + 1))
        BY DEF Decrypts
      <4>1. Cong(Value(q.ct), Value(x) + Value(y)) /\ Cong(Value(x), Sum(v, j))
        BY <2>3, <2>5, <3>2, <3>3 DEF Outcome, Decrypts
      <4>2. \A i \in 1..j : v[i] \in Int
        BY <1>2, <2>1
      <4>3. v[j + 1] = Value(y) /\ v[j + 1] \in Int
        BY <1>2, <1>13, <3>2
      <4>4. Sum(v, j + 1) = Sum(v, j) + v[j + 1] /\ Sum(v, j) \in Int
        BY <4>2, <4>3, SumFacts
      <4>5. PICK d, e, f, g1 \in Int : d = Value(q.ct) /\ e = Value(x) /\ f = Value(y) /\ g1 = Sum(v, j)
        BY <3>2, <3>3, <4>4, CiphertextFacts DEF Outcome, Sound
      <4>6. Cong(f, f) /\ Cong(e, g1)
        BY <4>1, <4>5, CongEquivalence
      <4>7. Cong(e + f, g1 + f)
        BY <4>6, CongOps
      <4>8. PICK s, t \in Int : s = e + f /\ t = g1 + f
        OBVIOUS
      <4>9. Cong(d, t)
        BY <4>1, <4>5, <4>7, <4>8, CongEquivalence
      <4> QED BY <4>3, <4>4, <4>5, <4>8, <4>9
    <3> HIDE DEF S, Left
    <3> QED BY <2>3, <3>3, <3>4, <3>5 DEF Outcome
  <2> QED BY <2>4, <2>5
<1> HIDE DEF Good, S
<1>14. \A n \in D : Good(sum[n], n)
  <2> DEFINE U == {j \in Nat : j \in D => Good(sum[j], j)}
  <2>1. 0 \in U
    OBVIOUS
  <2>2. ASSUME NEW j \in Nat, j \in U PROVE j + 1 \in U
    <3> SUFFICES ASSUME j + 1 \in D PROVE Good(sum[j + 1], j + 1)
      OBVIOUS
    <3>1. CASE j = 0
      BY <1>12, <3>1
    <3>2. CASE j # 0
      <4>1. j \in D /\ j >= 1
        BY <3>2
      <4> QED BY <1>13, <2>2, <4>1
    <3> QED BY <3>1, <3>2
  <2>3. Nat \subseteq U
    <3> HIDE DEF U
    <3> QED BY <2>1, <2>2, NumberInduction
  <2> QED BY <2>3
<1> QED BY <1>1, <1>10, <1>14 DEF Good

\* A product is relinearized at once; it fails when an operand is missing.
LEMMA ProductFacts ==
    ASSUME NEW a \in Answers, NEW b \in Answers, Sound(a), Sound(b), NEW r, r = Product(a, b)
    PROVE  /\ r \in Answers /\ Sound(r) /\ r.out # "same"
           /\ r.out # "threw" => a.out # "threw" /\ b.out # "threw"
           /\ Decrypts(r, Value(a.ct) * Value(b.ct))
<1>1. PICK x, y \in Ciphertexts : x = a.ct /\ y = b.ct
  BY DEF Answers
<1>2. CASE "threw" \in {a.out, b.out}
  <2>1. r = Throw(x)
    BY <1>1, <1>2 DEF Product
  <2> QED BY <2>1, AnswerFacts, ResidueFacts, Refused DEF Outcome, Throw, Decrypts
<1>3. CASE ~("threw" \in {a.out, b.out})
  <2>1. PICK q : /\ q = MultiplyInplace(x, y) /\ q \in Answers /\ Outcome(q, x, Value(x) * Value(y))
                 /\ q.out # "threw" => Len(q.ct.c) >= 3
    BY AnswerFacts, ResidueFacts, MultiplyFacts
  <2>2. r = IF q.out = "threw" THEN q ELSE RelinearizeInplace(q.ct)
    BY <1>1, <1>3, <2>1 DEF Product
  <2>3. CASE q.out = "threw"
    BY <1>3, <2>1, <2>2, <2>3 DEF Outcome, Decrypts
  <2>4. CASE q.out # "threw"
    <3>1. PICK z \in Ciphertexts : z = q.ct
      BY <2>1 DEF Answers
    <3>2. r \in Answers /\ Outcome(r, z, Value(z)) /\ r.out # "same"
      BY <2>1, <2>2, <2>4, <3>1, AnswerFacts, ResidueFacts, RelinearizeFacts
    <3>3. PICK v \in Int : v = Value(x) * Value(y)
      <4>1. Value(x) \in Int /\ Value(y) \in Int
        BY CiphertextFacts
      <4> QED BY <4>1
    <3>4. RelinCount <= 1 => Cong(Value(z), v)
      BY <2>1, <2>4, <3>1, <3>3 DEF Outcome, Decrypts
    <3>5. Sound(r) /\ Decrypts(r, Value(z))
      BY <3>2 DEF Outcome
    <3>6. Decrypts(r, v)
      BY <3>4, <3>5, Through
    <3> QED BY <1>1, <1>3, <3>2, <3>3, <3>5, <3>6
  <2> QED BY <2>3, <2>4
<1> QED BY <1>2, <1>3

Window(v, o) == [i \in Nat |-> v[o + i]]

\* A product is built up from its last number on as well.
LEMMA WindowFacts ==
    ASSUME NEW n \in Nat, NEW o \in Nat, NEW v, \A i \in 1..n + 1 : v[o + i] \in Int
    PROVE  /\ Prod(Window(v, o), n) \in Int /\ Prod(Window(v, o + 1), n) \in Int
           /\ Prod(Window(v, o), n + 1) = Prod(Window(v, o), n) * v[o + (n + 1)]
           /\ Prod(Window(v, o), n + 1) = v[o + 1] * Prod(Window(v, o + 1), n)
<1> DEFINE f == Window(v, o)
           e == Window(v, o + 1)
<1>1. \A i \in Nat : f[i] = v[o + i]
  BY DEF Window
<1>2. \A i \in Nat : i + 1 \in Nat /\ (o + 1) + i = o + (i + 1)
  OBVIOUS
<1>3. \A i \in Nat : e[i] = v[o + (i + 1)]
  BY <1>2 DEF Window
<1> HIDE DEF f, e
<1>4. \A i \in 1..n : i \in 1..n + 1 /\ i + 1 \in 1..n + 1 /\ i \in Nat
  OBVIOUS
<1>5. 1 \in 1..n + 1 /\ n + 1 \in 1..n + 1 /\ 1 \in Nat /\ n + 1 \in Nat
  OBVIOUS
<1>6. \A i \in 1..n : f[i] \in Int /\ e[i] \in Int
  BY <1>1, <1>3, <1>4
<1>7. Prod(f, n) \in Int /\ Prod(e, n) \in Int
  BY <1>6, ProdFacts
<1>8. f[n + 1] = v[o + (n + 1)] /\ f[n + 1] \in Int /\ f[1] = v[o + 1] /\ f[1] \in Int
  BY <1>1, <1>5
<1>9. Prod(f, n + 1) = Prod(f, n) * f[n + 1]
  BY <1>6, <1>8, ProdFacts
<1>10. Prod(f, n + 1) = f[1] * Prod(e, n)
  <2> DEFINE U == {k \in Nat : k <= n => Prod(f, k + 1) = f[1] * Prod(e, k)}
  <2>1. 0 \in U
    <3>1. Prod(f, 0) = 1 /\ Prod(e, 0) = 1
      BY ProdFacts
    <3>2. PICK z \in Nat : z = 0 /\ z + 1 = 1
      OBVIOUS
    <3>3. f[z + 1] \in Int /\ \A i \in 1..z : f[i] \in Int
      BY <1>8, <3>2
    <3>4. Prod(f, z + 1) = Prod(f, z) * f[z + 1]
      BY <3>3, ProdFacts
    <3>5. \A a \in Int : 1 * a = a * 1
      OBVIOUS
    <3> QED BY <1>8, <3>1, <3>2, <3>4, <3>5
  <2>2. ASSUME NEW k \in Nat, k \in U PROVE k + 1 \in U
    <3> SUFFICES ASSUME k + 1 <= n PROVE Prod(f, (k + 1) + 1) = f[1] * Prod(e, k + 1)
      OBVIOUS
    <3>1. PICK j \in Nat : j = k + 1 /\ j \in 1..n /\ (\A i \in 1..j : i \in 1..n) /\ (\A i \in 1..k : i \in 1..n)
      OBVIOUS
    <3>2. j + 1 \in 1..n + 1 /\ j + 1 \in Nat
      BY <1>4, <3>1
    <3>3. e[j] = v[o + (j + 1)] /\ f[j + 1] = v[o + (j + 1)] /\ e[j] \in Int
      BY <1>1, <1>3, <1>6, <3>1, <3>2
    <3>4. Prod(f, j + 1) = Prod(f, j) * f[j + 1] /\ Prod(f, j) \in Int
      BY <1>6, <3>1, <3>3, ProdFacts
    <3>5. Prod(e, k + 1) = Prod(e, k) * e[k + 1] /\ Prod(e, k) \in Int
      BY <1>6, <3>1, <3>3, ProdFacts
    <3>6. Prod(f, j) = f[1] * Prod(e, k)
      BY <2>2, <3>1
    <3>7. \A a, b, c \in Int : (a * b) * c = a * (b * c)
      OBVIOUS
    <3> QED BY <1>8, <3>1, <3>3, <3>4, <3>5, <3>6, <3>7
  <2>3. Nat \subseteq U
    <3> HIDE DEF U
    <3> QED BY <2>1, <2>2, NumberInduction
  <2> QED BY <2>3
<1> QED BY <1>7, <1>8, <1>9, <1>10 DEF f, e

\* When the numbers after the first m are products of neighbours, taken from the
\* first one on, the last one is the product of the first m.
LEMMA NeighboursProduct ==
    ASSUME NEW m \in Nat, m >= 1, NEW v, \A j \in 1..2 * m - 1 : v[j] \in Int,
           \A j \in m + 1..2 * m - 1 : Cong(v[j], v[2 * (j - m) - 1] * v[2 * (j - m)])
    PROVE  Cong(v[2 * m - 1], Prod(v, m))
<1> DEFINE U == {k \in Nat : k <= m - 1 => Cong(Prod(Window(v, 2 * k), m - k), Prod(v, m))}
<1>1. \A j \in 1..m : j \in 1..2 * m - 1
  OBVIOUS
<1>2. PICK total \in Int : total = Prod(v, m)
  <2>1. \A j \in 1..m : v[j] \in Int
    BY <1>1
  <2> QED BY <2>1, ProdFacts
<1>3. 0 \in U
  <2>1. PICK f : f = Window(v, 0)
    OBVIOUS
  <2>2. \A i \in 1..m : v[i] \in Int /\ f[i] = v[i]
    <3>1. \A i \in 1..m : 0 + i = i /\ i \in Nat
      OBVIOUS
    <3> QED BY <1>1, <2>1, <3>1 DEF Window
  <2>3. Prod(f, m) = Prod(v, m)
    BY <2>2, SameNumbers
  <2>4. 2 * 0 = 0 /\ m - 0 = m
    OBVIOUS
  <2> QED BY <1>2, <2>1, <2>3, <2>4, CongEquivalence
<1>4. ASSUME NEW k \in Nat, k \in U PROVE k + 1 \in U
  <2> SUFFICES ASSUME k + 1 <= m - 1 PROVE Cong(Prod(Window(v, 2 * (k + 1)), m - (k + 1)), total)
    BY <1>2
  <2>1. PICK n, o \in Nat : n = m - k - 2 /\ o = 2 * k
    OBVIOUS
  <2>2. /\ m - k = (n + 1) + 1 /\ m - (k + 1) = n + 1 /\ 2 * (k + 1) = (o + 1) + 1
        /\ o + 1 \in Nat /\ (o + 1) + 1 \in Nat /\ n + 1 \in Nat
    BY <2>1
  <2>3. /\ \A i \in 1..(n + 1) + 1 : o + i \in 1..2 * m - 1
        /\ \A i \in 1..n + 1 : (o + 1) + i \in 1..2 * m - 1 /\ ((o + 1) + 1) + i \in 1..2 * m - 1
    BY <2>1
  <2>4. PICK w, a, b, c, d \in Int :
           /\ w = Prod(Window(v, o), (n + 1) + 1) /\ a = v[o + 1] /\ b = v[(o + 1) + 1]
           /\ c = Prod(Window(v, (o + 1) + 1), n) /\ d = v[((o + 1) + 1) + (n + 1)]
           /\ w = a * (b * c) /\ Prod(Window(v, (o + 1) + 1), n + 1) = c * d
    <3>1. PICK p \in Nat : p = o + 1
      OBVIOUS
    <3>2. PICK q \in Nat : q = p + 1
      OBVIOUS
    <3>3. PICK l \in Nat : l = n + 1
      OBVIOUS
    <3>4. /\ \A i \in 1..l + 1 : v[o + i] \in Int
          /\ \A i \in 1..n + 1 : v[p + i] \in Int /\ v[q + i] \in Int
      BY <2>3, <3>1, <3>2, <3>3
    <3>5. Prod(Window(v, o), l + 1) = v[o + 1] * Prod(Window(v, p), l) /\ Prod(Window(v, p), l) \in Int
      BY <3>1, <3>4, WindowFacts
    <3>6. Prod(Window(v, p), n + 1) = v[p + 1] * Prod(Window(v, q), n) /\ Prod(Window(v, q), n) \in Int
      BY <3>2, <3>4, WindowFacts
    <3>7. Prod(Window(v, q), n + 1) = Prod(Window(v, q), n) * v[q + (n + 1)]
      BY <3>4, WindowFacts
    <3>8. 1 \in 1..l + 1 /\ 1 \in 1..n + 1 /\ n + 1 \in 1..n + 1
      BY <3>3
    <3>9. v[o + 1] \in Int /\ v[p + 1] \in Int /\ v[q + (n + 1)] \in Int
      BY <3>4, <3>8
    <3>10. v[o + 1] * (v[p + 1] * Prod(Window(v, q), n)) \in Int
      <4>1. \A x, y, z \in Int : x * (y * z) \in Int
        OBVIOUS
      <4> QED BY <3>6, <3>9, <4>1
    <3> QED BY <3>1, <3>2, <3>3, <3>5, <3>6, <3>7, <3>9, <3>10
  <2>5. Cong(d, a * b)
    <3>1. PICK j \in m + 1..2 * m - 1 : j = m + k + 1
      BY <2>1
    <3>2. ((o + 1) + 1) + (n + 1) = j /\ 2 * (j - m) - 1 = o + 1 /\ 2 * (j - m) = (o + 1) + 1
      BY <2>1, <3>1
    <3> QED BY <2>4, <3>1, <3>2
  <2>6. Cong(w, total)
    <3>1. k <= m - 1
      BY <2>1
    <3> QED BY <1>2, <1>4, <2>1, <2>2, <2>4, <3>1
  <2>7. PICK e, f \in Int : e = c * d /\ f = c * (a * b)
    <3>1. \A x, y, z \in Int : x * y \in Int /\ x * (y * z) \in Int
      OBVIOUS
    <3> QED BY <3>1
  <2>8. Cong(e, f)
    <3>1. PICK g \in Int : g = a * b
      OBVIOUS
    <3>2. Cong(c, c) /\ Cong(d, g)
      BY <2>5, <3>1, CongEquivalence
    <3>3. Cong(c * d, c * g)
      BY <3>2, CongOps
    <3> QED BY <2>7, <3>1, <3>3
  <2>9. f = w
    <3>1. \A x, y, z \in Int : z * (x * y) = x * (y * z)
      OBVIOUS
    <3> QED BY <2>4, <2>7, <3>1
  <2>10. Cong(e, total)
    BY <2>6, <2>8, <2>9, CongEquivalence
  <2> QED BY <2>2, <2>4, <2>7, <2>10
<1>5. m - 1 \in U
  <2>1. Nat \subseteq U /\ m - 1 \in Nat
    <3> HIDE DEF U
    <3> QED BY <1>3, <1>4, NumberInduction
  <2> HIDE DEF U
  <2> QED BY <2>1
<1>6. PICK o \in Nat : o = 2 * (m - 1)
  OBVIOUS
<1>7. Prod(Window(v, o), 1) = v[2 * m - 1]
  <2>1. PICK z \in Nat : z = 0
    OBVIOUS
  <2>2. o + 1 = 2 * m - 1 /\ o + 1 \in 1..2 * m - 1 /\ z + 1 = 1 /\ \A i \in 1..z + 1 : i = 1
    BY <1>6, <2>1
  <2>3. \A i \in 1..z + 1 : v[o + i] \in Int
    BY <2>2
  <2>4. Prod(Window(v, o), z + 1) = Prod(Window(v, o), z) * v[o + (z + 1)]
    BY <2>3, WindowFacts
  <2>5. Prod(Window(v, o), 0) = 1
    BY ProdFacts
  <2>6. v[o + 1] \in Int
    BY <2>2
  <2>7. \A x \in Int : 1 * x = x
    OBVIOUS
  <2> QED BY <2>1, <2>2, <2>4, <2>5, <2>6, <2>7
<1>8. m - (m - 1) = 1 /\ m - 1 <= m - 1
  OBVIOUS
<1> QED BY <1>5, <1>6, <1>7, <1>8

\* The product of the pairs, the last number without a partner or not, is the
\* product of all.
LEMMA PairsProduct ==
    ASSUME NEW l \in Nat, NEW m \in Nat, 2 * m = l \/ 2 * m = l + 1,
           NEW w, \A i \in 1..l : w[i] \in Int, NEW u, \A j \in 1..m : u[j] \in Int,
           \A j \in 1..m : 2 * j <= l => Cong(u[j], w[2 * j - 1] * w[2 * j]),
           \A j \in 1..m : 2 * j > l => Cong(u[j], w[2 * j - 1])
    PROVE  Cong(Prod(u, m), Prod(w, l))
<1> DEFINE U == {k \in Nat : k <= m /\ 2 * k <= l => Cong(Prod(u, k), Prod(w, 2 * k))}
<1>1. 0 \in U
  <2>1. Prod(u, 0) = 1 /\ Prod(w, 0) = 1 /\ 2 * 0 = 0
    BY ProdFacts
  <2> QED BY <2>1, CongEquivalence
<1>2. ASSUME NEW k \in Nat, k \in U PROVE k + 1 \in U
  <2> SUFFICES ASSUME k + 1 <= m, 2 * (k + 1) <= l PROVE Cong(Prod(u, k + 1), Prod(w, 2 * (k + 1)))
    OBVIOUS
  <2>1. PICK j, n \in Nat : /\ j = k + 1 /\ j \in 1..m /\ n = 2 * k /\ 2 * j = (n + 1) + 1 /\ 2 * j - 1 = n + 1
                            /\ n + 1 \in 1..l /\ (n + 1) + 1 \in 1..l
    OBVIOUS
  <2>2. (\A i \in 1..k : i \in 1..m) /\ (\A i \in 1..n : i \in 1..l) /\ (\A i \in 1..n + 1 : i \in 1..l)
    BY <2>1
  <2>3. PICK x, y, a, b, c \in Int : x = Prod(u, k) /\ y = Prod(w, n) /\ a = u[j] /\ b = w[n + 1] /\ c = w[(n + 1) + 1]
    <3>1. Prod(u, k) \in Int /\ Prod(w, n) \in Int
      BY <2>2, ProdFacts
    <3> QED BY <2>1, <3>1
  <2>4. Prod(u, k + 1) = x * a
    BY <2>1, <2>2, <2>3, ProdFacts
  <2>5. Prod(w, 2 * (k + 1)) = (y * b) * c
    <3>1. Prod(w, n + 1) = y * b
      BY <2>2, <2>3, ProdFacts
    <3>2. PICK p \in Nat : p = n + 1
      OBVIOUS
    <3>3. w[p + 1] \in Int /\ \A i \in 1..p : w[i] \in Int
      BY <2>2, <2>3, <3>2
    <3>4. Prod(w, p + 1) = Prod(w, p) * w[p + 1]
      BY <3>3, ProdFacts
    <3> QED BY <2>1, <2>3, <3>1, <3>2, <3>4
  <2>6. Cong(x, y)
    <3>1. k <= m /\ 2 * k <= l
      OBVIOUS
    <3> QED BY <1>2, <2>1, <2>3, <3>1
  <2>7. Cong(a, b * c)
    <3>1. 2 * j <= l
      BY <2>1
    <3> QED BY <2>1, <2>3, <3>1
  <2>8. PICK d \in Int : d = b * c
    OBVIOUS
  <2>9. Cong(x * a, y * d)
    BY <2>6, <2>7, <2>8, CongOps
  <2>10. y * d = (y * b) * c
    <3>1. \A e, f, g \in Int : e * (f * g) = (e * f) * g
      OBVIOUS
    <3> QED BY <2>8, <3>1
  <2> QED BY <2>4, <2>5, <2>9, <2>10
<1>3. Nat \subseteq U
  <2> HIDE DEF U
  <2> QED BY <1>1, <1>2, NumberInduction
<1>4. CASE 2 * m = l
  <2>1. m <= m /\ 2 * m <= l
    BY <1>4
  <2> QED BY <1>3, <1>4, <2>1
<1>5. CASE 2 * m = l + 1
  <2>1. PICK k, n \in Nat : /\ k = m - 1 /\ n = 2 * k /\ m = k + 1 /\ l = n + 1 /\ k <= m /\ n <= l
                            /\ 2 * m - 1 = l /\ 2 * m > l /\ m \in 1..m /\ l \in 1..l
    <3>1. m >= 1
      BY <1>5
    <3>2. m - 1 \in Nat /\ 2 * (m - 1) \in Nat
      BY <3>1
    <3> QED BY <1>5, <3>1, <3>2
  <2>2. (\A i \in 1..k : i \in 1..m) /\ (\A i \in 1..n : i \in 1..l)
    BY <2>1
  <2>3. PICK x, y, a, b \in Int : x = Prod(u, k) /\ y = Prod(w, n) /\ a = u[m] /\ b = w[l]
    <3>1. Prod(u, k) \in Int /\ Prod(w, n) \in Int
      BY <2>2, ProdFacts
    <3> QED BY <2>1, <3>1
  <2>4. Prod(u, k + 1) = x * a
    BY <2>1, <2>2, <2>3, ProdFacts
  <2>5. Prod(w, n + 1) = y * b
    BY <2>1, <2>2, <2>3, ProdFacts
  <2>6. Cong(x, y) /\ Cong(a, b)
    BY <1>3, <2>1, <2>3
  <2>7. Cong(x * a, y * b)
    BY <2>6, CongOps
  <2> QED BY <2>1, <2>4, <2>5, <2>7
<1> QED BY <1>4, <1>5

\* The products that multiply_many goes through: the pairs, then neighbours.
Pair(xs, j) == IF 2 * j > Len(xs) THEN Same(xs[2 * j - 1]) ELSE Product(Same(xs[2 * j - 1]), Same(xs[2 * j]))
Halves(xs) == (Len(xs) + 1) \div 2

\* Every one of them is an answer, and a product of two before it.
LEMMA ProductsSteps ==
    ASSUME NEW xs \in Seq(Ciphertexts) \ {<<>>}
    PROVE  /\ Halves(xs) \in Nat /\ Halves(xs) >= 1 /\ (2 * Halves(xs) = Len(xs) \/ 2 * Halves(xs) = Len(xs) + 1)
           /\ Products(xs) \in [1..2 * Halves(xs) - 1 -> Answers]
           /\ \A j \in 1..Halves(xs) : Products(xs)[j] = Pair(xs, j)
           /\ \A j \in Halves(xs) + 1..2 * Halves(xs) - 1 :
                 Products(xs)[j] = Product(Products(xs)[2 * (j - Halves(xs)) - 1], Products(xs)[2 * (j - Halves(xs))])
           /\ \A j \in 1..2 * Halves(xs) - 1 : Sound(Products(xs)[j])
<1>1. PICK L \in Nat : L = Len(xs) /\ L >= 1 /\ \A i \in 1..L : xs[i] \in Ciphertexts
  OBVIOUS
<1>2. PICK m \in Nat : m = Halves(xs) /\ m >= 1 /\ (2 * m = L \/ 2 * m = L + 1)
  BY <1>1 DEF Halves
<1> DEFINE D == 1..2 * m - 1
           T == {r \in Answers : Sound(r)}
           Node(f, j) == IF j > m THEN Product(f[2 * (j - m) - 1], f[2 * (j - m)]) ELSE Pair(xs, j)
           h == [p \in [D -> T] \X D |-> Node(p[1], p[2])]
           Eq(all) == all = [j \in 1..2 * Halves(xs) - 1 |->
                               IF j > Halves(xs)
                               THEN Product(all[2 * (j - Halves(xs)) - 1], all[2 * (j - Halves(xs))])
                               ELSE IF 2 * j > Len(xs) THEN Same(xs[2 * j - 1])
                               ELSE Product(Same(xs[2 * j - 1]), Same(xs[2 * j]))]
<1>3. \A a, b \in T : Product(a, b) \in T
  BY ProductFacts
<1>4. \A i \in 1..L : Same(xs[i]) \in T
  <2> SUFFICES ASSUME NEW i \in 1..L PROVE Same(xs[i]) \in T
    OBVIOUS
  <2>1. PICK x \in Ciphertexts : x = xs[i]
    BY <1>1
  <2>2. Same(x) \in Answers /\ Outcome(Same(x), x, Value(x))
    BY AnswerFacts, ResidueFacts, Returned
  <2> QED BY <2>1, <2>2 DEF Outcome
<1>5. \A j \in 1..m : Pair(xs, j) \in T
  <2> SUFFICES ASSUME NEW j \in 1..m PROVE Pair(xs, j) \in T
    OBVIOUS
  <2>1. CASE 2 * j > L
    <3>1. 2 * j - 1 \in 1..L
      BY <1>2
    <3> HIDE DEF T
    <3> QED BY <1>1, <1>4, <2>1, <3>1 DEF Pair
  <2>2. CASE ~(2 * j > L)
    <3>1. 2 * j - 1 \in 1..L /\ 2 * j \in 1..L
      BY <2>2
    <3> HIDE DEF T
    <3> QED BY <1>1, <1>3, <1>4, <2>2, <3>1 DEF Pair
  <2> QED BY <2>1, <2>2
<1>6. \A j \in D : /\ j > m => /\ 2 * (j - m) - 1 \in D /\ 2 * (j - m) \in D
                               /\ 2 * (j - m) - 1 \in 1..j - 1 /\ 2 * (j - m) \in 1..j - 1
                   /\ ~(j > m) => j \in 1..m
  OBVIOUS
<1>7. ASSUME NEW f \in [D -> T], NEW j \in D PROVE Node(f, j) \in T
  <2>1. CASE j > m
    <3>1. f[2 * (j - m) - 1] \in T /\ f[2 * (j - m)] \in T
      BY <1>6, <2>1
    <3> HIDE DEF T
    <3> QED BY <1>3, <2>1, <3>1
  <2>2. CASE ~(j > m)
    BY <1>5, <1>6, <2>2
  <2> QED BY <2>1, <2>2
<1>8. LooksBack(h, 1, 2 * m - 1, T)
  <2>1. h \in [[D -> T] \X D -> T]
    <3> HIDE DEF D, T, Node
    <3> QED BY <1>7
  <2>2. \A f, g \in [D -> T], j \in D : (\A i \in 1..j - 1 : f[i] = g[i]) => h[<<f, j>>] = h[<<g, j>>]
    <3> SUFFICES ASSUME NEW f \in [D -> T], NEW g \in [D -> T], NEW j \in D, \A i \in 1..j - 1 : f[i] = g[i]
                 PROVE  h[<<f, j>>] = h[<<g, j>>]
      OBVIOUS
    <3>1. Node(f, j) = Node(g, j)
      <4>1. CASE j > m
        <5>1. f[2 * (j - m) - 1] = g[2 * (j - m) - 1] /\ f[2 * (j - m)] = g[2 * (j - m)]
          BY <1>6, <4>1
        <5> QED BY <4>1, <5>1
      <4>2. CASE ~(j > m)
        BY <4>2
      <4> QED BY <4>1, <4>2
    <3> HIDE DEF D, T, Node
    <3>2. h[<<f, j>>] = Node(f, j) /\ h[<<g, j>>] = Node(g, j)
      OBVIOUS
    <3> QED BY <3>1, <3>2
  <2> HIDE DEF h, T
  <2> QED BY <2>1, <2>2 DEF LooksBack
<1>9. \A f \in [D -> T], j \in D : h[<<f, j>>] = Node(f, j)
  <2> HIDE DEF D, T, Node
  <2> QED OBVIOUS
<1>10. Same(xs[1]) \in T
  <2>1. 1 \in 1..L
    BY <1>1
  <2> HIDE DEF T
  <2> QED BY <1>4, <2>1
<1> HIDE DEF h
<1>11. PICK g \in [D -> T] : \A j \in D : g[j] = h[<<g, j>>]
  <2>1. PICK lo, hi, V, f, b : lo = 1 /\ hi = 2 * m - 1 /\ V = T /\ f = h /\ b = Same(xs[1])
    OBVIOUS
  <2>2. lo \in Int /\ hi \in Int /\ b \in V /\ LooksBack(f, lo, hi, V)
    <3>1. 1 \in Int /\ 2 * m - 1 \in Int
      OBVIOUS
    <3> HIDE DEF T
    <3> QED BY <1>8, <1>10, <2>1, <3>1
  <2>3. \E g \in [lo..hi -> V] : \A j \in lo..hi : g[j] = f[<<g, j>>]
    BY <2>2, Recursion
  <2> HIDE DEF T
  <2> QED BY <2>1, <2>3
<1>12. \A j \in D : g[j] = Node(g, j)
  <2> HIDE DEF D, T, Node
  <2> QED BY <1>9, <1>11
<1>13. Eq(g)
  <2>1. g = [j \in D |-> Node(g, j)]
    <3> HIDE DEF D, T, Node
    <3> QED BY <1>11, <1>12
  <2> QED BY <1>2, <2>1 DEF Pair
<1>14. PICK all : Eq(all) /\ Products(xs) = all
  <2>1. Products(xs) = (CHOOSE all : Eq(all))
    BY Zenon DEF Products, Halves
  <2>2. Eq(CHOOSE all : Eq(all))
    <3> HIDE DEF Eq
    <3> QED BY <1>13
  <2> QED BY <2>1, <2>2
<1>15. \A j \in D : all[j] = Node(all, j)
  BY <1>2, <1>14 DEF Pair
<1>16. all = [j \in D |-> all[j]]
  BY <1>2, <1>14
<1> HIDE DEF Eq
<1>17. \A j \in D : all[j] \in T
  <2> DEFINE U == {k \in Nat : \A j \in D : j <= k => all[j] \in T}
  <2>1. 0 \in U
    OBVIOUS
  <2>2. ASSUME NEW k \in Nat, k \in U PROVE k + 1 \in U
    <3> SUFFICES ASSUME NEW j \in D, j <= k + 1 PROVE all[j] \in T
      OBVIOUS
    <3>1. CASE j > m
      <4>1. 2 * (j - m) - 1 \in D /\ 2 * (j - m) \in D /\ 2 * (j - m) - 1 <= k /\ 2 * (j - m) <= k
        BY <3>1
      <4>2. all[2 * (j - m) - 1] \in T /\ all[2 * (j - m)] \in T
        <5> HIDE DEF D, T, Node
        <5> QED BY <2>2, <4>1
      <4>3. all[j] = Product(all[2 * (j - m) - 1], all[2 * (j - m)])
        BY <1>15, <3>1
      <4> HIDE DEF T
      <4> QED BY <1>3, <4>2, <4>3
    <3>2. CASE ~(j > m)
      <4>1. all[j] = Pair(xs, j)
        BY <1>15, <3>2
      <4> HIDE DEF T
      <4> QED BY <1>5, <1>6, <3>2, <4>1
    <3> QED BY <3>1, <3>2
  <2>3. Nat \subseteq U
    <3> HIDE DEF U
    <3> QED BY <2>1, <2>2, NumberInduction
  <2> SUFFICES ASSUME NEW j \in D PROVE all[j] \in T
    OBVIOUS
  <2>4. j \in Nat /\ j <= j
    OBVIOUS
  <2>5. j \in U
    <3> HIDE DEF U
    <3> QED BY <2>3, <2>4
  <2> HIDE DEF T, D
  <2> QED BY <2>4, <2>5
<1>18. all \in [D -> Answers]
  <2> HIDE DEF D
  <2> QED BY <1>16, <1>17
<1>19. \A j \in 1..m : j \in D /\ ~(j > m)
  OBVIOUS
<1>20. \A j \in 1..m : all[j] = Pair(xs, j)
  <2> HIDE DEF D
  <2> QED BY <1>15, <1>19
<1>21. \A j \in m + 1..2 * m - 1 : j \in D /\ j > m
  OBVIOUS
<1>22. \A j \in m + 1..2 * m - 1 : all[j] = Product(all[2 * (j - m) - 1], all[2 * (j - m)])
  <2> HIDE DEF D
  <2> QED BY <1>15, <1>21
<1> QED BY <1>1, <1>2, <1>14, <1>17, <1>18, <1>20, <1>22

\* When every product is made, the last one decrypts to the product of all.
LEMMA LastProduct ==
    ASSUME NEW xs \in Seq(Ciphertexts) \ {<<>>}, NEW v, v = [i \in DOMAIN xs |-> Value(xs[i])],
           RelinCount <= 1, \A j \in 1..2 * Halves(xs) - 1 : Products(xs)[j].out # "threw"
    PROVE  Cong(Value(Products(xs)[2 * Halves(xs) - 1].ct), Prod(v, Len(xs)))
<1>1. PICK l, m \in Nat : l = Len(xs) /\ m = Halves(xs) /\ l >= 1 /\ m >= 1 /\ (2 * m = l \/ 2 * m = l + 1)
  <2>1. Len(xs) \in Nat /\ Len(xs) >= 1
    OBVIOUS
  <2> QED BY <2>1, ProductsSteps
<1>2. \A i \in 1..l : xs[i] \in Ciphertexts /\ v[i] = Value(xs[i])
  BY <1>1
<1>3. PICK all : /\ all = Products(xs) /\ \A j \in 1..2 * m - 1 : all[j] \in Answers /\ Sound(all[j]) /\ all[j].out # "threw"
  BY <1>1, ProductsSteps
<1>4. /\ \A j \in 1..m : all[j] = Pair(xs, j)
      /\ \A j \in m + 1..2 * m - 1 : all[j] = Product(all[2 * (j - m) - 1], all[2 * (j - m)])
  BY <1>1, <1>3, ProductsSteps
<1>5. PICK u : u = [j \in 1..2 * m - 1 |-> Value(all[j].ct)]
  OBVIOUS
<1>6. \A j \in 1..2 * m - 1 : u[j] = Value(all[j].ct) /\ u[j] \in Int /\ all[j].ct \in Ciphertexts
  BY <1>3, <1>5, CiphertextFacts DEF Sound
<1>7. \A i \in 1..l : v[i] \in Int
  BY <1>2, CiphertextFacts
<1>8. ASSUME NEW j \in m + 1..2 * m - 1 PROVE Cong(u[j], u[2 * (j - m) - 1] * u[2 * (j - m)])
  <2>1. j \in 1..2 * m - 1 /\ 2 * (j - m) - 1 \in 1..2 * m - 1 /\ 2 * (j - m) \in 1..2 * m - 1
    OBVIOUS
  <2>2. PICK r, a, b \in Answers : /\ r = all[j] /\ a = all[2 * (j - m) - 1] /\ b = all[2 * (j - m)]
                                   /\ Sound(a) /\ Sound(b) /\ r.out # "threw"
    BY <1>3, <2>1
  <2>3. r = Product(a, b)
    BY <1>4, <2>2
  <2>4. Decrypts(r, Value(a.ct) * Value(b.ct))
    BY <2>2, <2>3, ProductFacts
  <2> QED BY <1>6, <2>1, <2>2, <2>4 DEF Decrypts
<1>9. ASSUME NEW j \in 1..m, 2 * j > l PROVE Cong(u[j], v[2 * j - 1])
  <2>1. j \in 1..2 * m - 1 /\ 2 * j - 1 \in 1..l
    BY <1>1, <1>9
  <2>2. all[j] = Same(xs[2 * j - 1])
    BY <1>1, <1>4, <1>9 DEF Pair
  <2>3. u[j] = v[2 * j - 1]
    BY <1>2, <1>6, <2>1, <2>2 DEF Same
  <2> QED BY <1>6, <2>1, <2>3, CongEquivalence
<1>10. ASSUME NEW j \in 1..m, 2 * j <= l PROVE Cong(u[j], v[2 * j - 1] * v[2 * j])
  <2>1. j \in 1..2 * m - 1 /\ 2 * j - 1 \in 1..l /\ 2 * j \in 1..l /\ ~(2 * j > l)
    BY <1>1, <1>10
  <2>2. PICK x, y \in Ciphertexts : x = xs[2 * j - 1] /\ y = xs[2 * j]
    BY <1>2, <2>1
  <2>3. PICK r, a, b : r = all[j] /\ a = Same(x) /\ b = Same(y) /\ r.out # "threw"
    BY <1>3, <2>1
  <2>4. r = Product(a, b)
    BY <1>1, <1>4, <2>1, <2>2, <2>3 DEF Pair
  <2>5. a \in Answers /\ b \in Answers /\ Sound(a) /\ Sound(b) /\ a.ct = x /\ b.ct = y
    <3>1. Same(x).ct = x /\ Same(y).ct = y
      BY DEF Same
    <3> QED BY <2>3, <3>1, AnswerFacts, ResidueFacts, Returned DEF Outcome
  <2>6. Decrypts(r, Value(a.ct) * Value(b.ct))
    BY <2>4, <2>5, ProductFacts
  <2> QED BY <1>2, <1>6, <2>1, <2>2, <2>3, <2>5, <2>6 DEF Decrypts
<1>11. Cong(u[2 * m - 1], Prod(u, m))
  BY <1>1, <1>6, <1>8, NeighboursProduct
<1>12. Cong(Prod(u, m), Prod(v, l))
  <2>1. \A j \in 1..m : u[j] \in Int
    BY <1>1, <1>6
  <2> QED BY <1>1, <1>7, <1>9, <1>10, <2>1, PairsProduct
<1>13. 2 * m - 1 \in 1..2 * m - 1 /\ \A j \in 1..m : j \in 1..2 * m - 1
  BY <1>1
<1>14. PICK a, b, c \in Int : a = u[2 * m - 1] /\ b = Prod(u, m) /\ c = Prod(v, l)
  <2>1. \A j \in 1..m : u[j] \in Int
    BY <1>6, <1>13
  <2>2. Prod(u, m) \in Int /\ Prod(v, l) \in Int
    BY <1>7, <2>1, ProdFacts
  <2> QED BY <1>6, <1>13, <2>2
<1>15. Cong(a, c)
  BY <1>11, <1>12, <1>14, CongEquivalence
<1> QED BY <1>1, <1>3, <1>6, <1>13, <1>14, <1>15

\* multiply_many touches nothing before every product is made.
LEMMA MultiplyManyFacts ==
    ASSUME NEW xs \in Seq(Ciphertexts) \ {<<>>}, NEW d \in Ciphertexts,
           NEW v, v = [i \in DOMAIN xs |-> Value(xs[i])]
    PROVE  Outcome(MultiplyMany(xs, d), d, Prod(v, Len(xs)))
<1>1. PICK l, m \in Nat : l = Len(xs) /\ m = Halves(xs) /\ l >= 1 /\ m >= 1 /\ (2 * m = l \/ 2 * m = l + 1)
  <2>1. Len(xs) \in Nat /\ Len(xs) >= 1
    OBVIOUS
  <2> QED BY <2>1, ProductsSteps
<1>2. PICK all : all = Products(xs) /\ all \in [1..2 * m - 1 -> Answers] /\ \A j \in 1..2 * m - 1 : Sound(all[j])
  BY <1>1, ProductsSteps
<1>3. Len(all) = 2 * m - 1 /\ DOMAIN all = 1..2 * m - 1
  <2>1. PICK n \in Nat : n = 2 * m - 1 /\ all \in [1..n -> Answers]
    BY <1>1, <1>2
  <2>2. Len(all) = n /\ DOMAIN all = 1..n
    BY <2>1
  <2> QED BY <2>1, <2>2
<1>4. CASE l = 1
  <2>1. PICK x \in Ciphertexts : x = xs[1]
    BY <1>1
  <2>2. MultiplyMany(xs, d) = Same(x)
    BY <1>1, <1>4, <2>1 DEF MultiplyMany
  <2>3. Prod(v, 1) = Value(x)
    <3>1. PICK z \in Nat : z = 0 /\ z + 1 = 1 /\ \A i \in 1..z : v[i] \in Int
      OBVIOUS
    <3>2. v[1] = Value(x) /\ v[1] \in Int
      BY <1>1, <2>1, CiphertextFacts
    <3>3. Prod(v, z + 1) = Prod(v, z) * v[z + 1] /\ Prod(v, 0) = 1
      BY <3>1, <3>2, ProdFacts
    <3>4. \A a \in Int : 1 * a = a
      OBVIOUS
    <3> QED BY <3>1, <3>2, <3>3, <3>4
  <2> QED BY <1>1, <1>4, <2>2, <2>3, Returned
<1>5. CASE l # 1 /\ \E j \in DOMAIN all : all[j].out = "threw"
  <2>1. MultiplyMany(xs, d) = Throw(d)
    BY <1>1, <1>2, <1>5 DEF MultiplyMany
  <2> QED BY <2>1, Refused
<1>6. CASE l # 1 /\ ~\E j \in DOMAIN all : all[j].out = "threw"
  <2>1. PICK n \in 1..2 * m - 1 : n = 2 * m - 1
    BY <1>1
  <2>2. PICK r : r = MultiplyMany(xs, d) /\ r.ct = all[n].ct /\ r.out = "ok"
    <3>1. MultiplyMany(xs, d) = [ct |-> all[Len(all)].ct, out |-> "ok"]
      BY <1>1, <1>2, <1>6 DEF MultiplyMany
    <3>2. Len(all) = n
      BY <1>3, <2>1
    <3> QED BY <3>1, <3>2
  <2>3. all[n].out = "ok"
    <3>1. \E a, b \in Answers : Sound(a) /\ Sound(b) /\ all[n] = Product(a, b)
      <4>1. CASE m = 1
        <5>1. l = 2 /\ n = 1 /\ n \in 1..m /\ ~(2 * n > l) /\ 1 \in 1..l /\ 2 \in 1..l /\ 2 * n - 1 = 1 /\ 2 * n = 2
          BY <1>1, <1>6, <2>1, <4>1
        <5>2. PICK x, y \in Ciphertexts : x = xs[1] /\ y = xs[2]
          <6>1. \A i \in 1..Len(xs) : xs[i] \in Ciphertexts
            OBVIOUS
          <6>2. xs[1] \in Ciphertexts /\ xs[2] \in Ciphertexts
            BY <1>1, <5>1, <6>1
          <6> QED BY <6>2
        <5>3. all[n] = Pair(xs, n)
          BY <1>1, <1>2, <5>1, ProductsSteps
        <5>4. all[n] = Product(Same(x), Same(y))
          BY <1>1, <5>1, <5>2, <5>3 DEF Pair
        <5>5. Same(x) \in Answers /\ Same(y) \in Answers /\ Sound(Same(x)) /\ Sound(Same(y))
          BY AnswerFacts, ResidueFacts, Returned DEF Outcome
        <5> QED BY <5>4, <5>5
      <4>2. CASE m # 1
        <5>1. n \in m + 1..2 * m - 1 /\ 2 * (n - m) - 1 \in 1..2 * m - 1 /\ 2 * (n - m) \in 1..2 * m - 1
          <6>1. m >= 1 /\ m # 1 /\ n = 2 * m - 1
            BY <1>1, <2>1, <4>2
          <6> QED BY <6>1
        <5>2. all[n] = Product(all[2 * (n - m) - 1], all[2 * (n - m)])
          BY <1>1, <1>2, <5>1, ProductsSteps
        <5> QED BY <1>2, <5>1, <5>2
      <4> QED BY <4>1, <4>2
    <3>2. all[n] \in Answers /\ all[n].out # "threw"
      BY <1>2, <1>3, <1>6
    <3>3. all[n].out # "same"
      BY <3>1, ProductFacts
    <3> QED BY <3>2, <3>3 DEF Answers, Outcomes
  <2>4. Sound(r)
    BY <1>2, <2>2, <2>3 DEF Sound
  <2>5. Harmless(r, d)
    BY <2>2 DEF Harmless
  <2>6. Decrypts(r, Prod(v, Len(xs)))
    <3> SUFFICES ASSUME RelinCount <= 1 PROVE Cong(Value(r.ct), Prod(v, Len(xs)))
      BY DEF Decrypts
    <3>1. \A j \in 1..2 * Halves(xs) - 1 : Products(xs)[j].out # "threw"
      BY <1>1, <1>2, <1>3, <1>6
    <3>2. Cong(Value(Products(xs)[2 * Halves(xs) - 1].ct), Prod(v, Len(xs)))
      BY <3>1, LastProduct
    <3> QED BY <1>1, <1>2, <2>1, <2>2, <3>2
  <2> QED BY <2>2, <2>4, <2>5, <2>6 DEF Outcome
<1> QED BY <1>4, <1>5, <1>6

\* A power is the product of copies, and the zeroth is refused.
LEMMA ExponentiateFacts ==
    ASSUME NEW x \in Ciphertexts, NEW e \in Nat
    PROVE  Outcome(ExponentiateInplace(x, e), x, Pow(Value(x), e))
<1>1. CASE e = 0
  <2>1. ExponentiateInplace(x, e) = Throw(x)
    BY <1>1 DEF ExponentiateInplace
  <2> QED BY <2>1, Refused
<1>2. CASE e = 1
  <2>1. ExponentiateInplace(x, e) = Same(x)
    BY <1>2 DEF ExponentiateInplace
  <2>2. Pow(Value(x), 1) = Value(x)
    BY CiphertextFacts, PowLaws
  <2> QED BY <1>2, <2>1, <2>2, Returned
<1>3. CASE e # 0 /\ e # 1
  <2>1. PICK xs, v : xs = [i \in 1..e |-> x] /\ v = [i \in DOMAIN xs |-> Value(xs[i])]
    OBVIOUS
  <2>2. xs \in Seq(Ciphertexts) \ {<<>>} /\ Len(xs) = e
    <3>1. xs \in Seq(Ciphertexts) /\ Len(xs) = e
      BY <2>1
    <3>2. Len(<<>>) = 0
      OBVIOUS
    <3> QED BY <1>3, <3>1, <3>2
  <2>3. ExponentiateInplace(x, e) = MultiplyMany(xs, x)
    BY <1>3, <2>1 DEF ExponentiateInplace
  <2>4. Prod(v, e) = Pow(Value(x), e)
    <3>1. PICK f : f = [i \in 1..e |-> Value(x)]
      OBVIOUS
    <3>2. \A i \in 1..e : f[i] \in Int /\ v[i] = f[i]
      BY <2>1, <3>1, CiphertextFacts
    <3>3. Prod(v, e) = Prod(f, e)
      BY <3>2, SameNumbers
    <3> QED BY <3>1, <3>3 DEF Pow
  <2>5. Outcome(MultiplyMany(xs, x), x, Prod(v, Len(xs)))
    BY <2>1, <2>2, MultiplyManyFacts
  <2> QED BY <2>2, <2>3, <2>4, <2>5
<1> QED BY <1>1, <1>2, <1>3

\* What encryption makes decrypts to the plaintext, and is not transparent.
LEMMA EncryptFacts ==
    ASSUME NEW v \in Residues, NEW a \in Residues \ {0}
    PROVE  /\ EncryptOf(v, a) \in Ciphertexts /\ Valid(EncryptOf(v, a)) /\ ~Transparent(EncryptOf(v, a))
           /\ Cong(Value(EncryptOf(v, a)), v)
<1>1. PICK s \in Int : s = Secret
  BY PolyFacts
<1>2. v \in Int /\ a \in Int
  BY ResidueFacts
<1>3. PICK w \in Int : w = v - a * s
  BY <1>2
<1>4. PICK b \in Residues : b = w % P /\ b \in Int /\ Cong(b, w)
  BY CongMod
<1>5. PICK c : c = <<b, a>> /\ c \in [1..2 -> Residues] /\ Len(c) = 2 /\ c[1] = b /\ c[2] = a
  <2>1. <<b, a>> \in [1..2 -> Residues] /\ Len(<<b, a>>) = 2 /\ <<b, a>>[1] = b /\ <<b, a>>[2] = a
    OBVIOUS
  <2> QED BY <2>1
<1>6. PICK x : x = EncryptOf(v, a) /\ x = [level |-> TopLevel, ntt |-> FALSE, c |-> c]
  BY <1>1, <1>3, <1>4, <1>5 DEF EncryptOf
<1>7. x \in Ciphertexts
  <2>1. 2 \in 2..SizeMax /\ TopLevel \in 0..KeyLevel
    BY EvaluatorAssumption DEF KeyLevel
  <2>2. PICK n \in 2..SizeMax : n = 2
    BY <2>1
  <2>3. c \in [1..n -> Residues]
    BY <1>5, <2>2
  <2> QED BY <1>6, <2>1, <2>3 DEF Ciphertexts
<1>8. Valid(x)
  BY <1>6, EvaluatorAssumption DEF Valid
<1>9. ~Transparent(x)
  <2>1. 2 \in 2..Len(x.c) /\ x.c[2] # 0
    BY <1>5, <1>6
  <2> QED BY <2>1 DEF Transparent
<1>10. Cong(Value(x), v)
  <2>1. Cong(Value(x), b + a * s)
    BY <1>1, <1>5, <1>6, <1>7, TwoPolys
  <2>2. PICK t \in Int : t = a * s
    BY <1>2
  <2>3. Cong(t, t)
    BY CongEquivalence
  <2>4. Cong(b + t, w + t)
    BY <1>4, <2>3, CongOps
  <2>5. w + t = v
    BY <1>2, <1>3, <2>2
  <2>6. PICK d, e \in Int : d = Value(x) /\ e = b + t
    BY <1>4, <1>7, CiphertextFacts
  <2> QED BY <1>2, <2>1, <2>2, <2>4, <2>5, <2>6, CongEquivalence
<1> QED BY <1>6, <1>7, <1>8, <1>9, <1>10

-----------------------------------------------------------------------------
(* The object, call after call.                                            *)

\* What holds of the object when a call has returned.
Kept == ct' \in Ciphertexts /\ (out' = "ok" => Valid(ct') /\ ~Transparent(ct'))
Promise == RelinCount <= 1 /\ out' # "threw" => Value(ct') = want'
Blame == out' = "threw" =>
             \/ ct' \in Sources
             \/ Transparent(ct')
             \/ \E xs \in Lists : \E n \in 1..Len(xs) - 1 :
                    Sums(xs)[n].out # "threw" /\ ct' = Sums(xs)[n].ct

\* A call whose result is sound and decrypts to what it should keeps its
\* promise, the promise being a residue.
LEMMA KeepsPromise ==
    ASSUME NEW r, NEW v \in Int, NEW w, w = v % P \/ (v \in Residues /\ w = v),
           Sound(r), Decrypts(r, v), Returns(r, w)
    PROVE  Kept /\ Promise
<1>1. ct' = r.ct /\ out' = r.out /\ want' = w
  BY DEF Returns
<1>2. Kept
  BY <1>1 DEF Kept, Sound
<1>3. ASSUME RelinCount <= 1, r.out # "threw" PROVE Value(r.ct) = w
  <2>1. PICK a \in Residues : a = Value(r.ct) /\ a \in Int /\ Cong(a, v)
    BY <1>3, CiphertextFacts DEF Sound, Decrypts
  <2>2. CASE w = v % P
    <3>1. w \in Residues /\ w \in Int /\ Cong(v, w)
      BY <2>2, CongMod
    <3>2. Cong(a, w)
      BY <2>1, <3>1, CongEquivalence
    <3> QED BY <2>1, <3>1, <3>2, ResidueFacts
  <2>3. CASE v \in Residues /\ w = v
    BY <2>1, <2>3, ResidueFacts
  <2> QED BY <2>2, <2>3
<1> QED BY <1>1, <1>2, <1>3 DEF Promise

\* One that also leaves a source in place, or a transparent object, hides no
\* damage.
LEMMA KeepsAll ==
    ASSUME NEW r, NEW x \in Sources, NEW v \in Int, NEW w, w = v % P \/ (v \in Residues /\ w = v),
           Outcome(r, x, v), Returns(r, w)
    PROVE  Kept /\ Promise /\ Blame
<1>1. Kept /\ Promise
  BY KeepsPromise DEF Outcome
<1>2. Blame
  BY DEF Outcome, Harmless, Returns, Blame
<1> QED BY <1>1, <1>2

\* add_many, whose sums are spread over a list.
LEMMA AddManyFacts ==
    ASSUME NEW xs \in Lists, Returns(AddMany(xs), Sum([i \in DOMAIN xs |-> Value(xs[i])], Len(xs)) % P)
    PROVE  Kept /\ Promise /\ Blame
<1>1. xs \in Seq(Ciphertexts) \ {<<>>}
  BY EvaluatorAssumption
<1>2. PICK n \in Nat : n = Len(xs) /\ n \in 1..n /\ \A i \in 1..n : xs[i] \in Ciphertexts
  BY <1>1
<1>3. PICK v : v = [i \in DOMAIN xs |-> Value(xs[i])]
  OBVIOUS
<1>4. PICK s \in Int : s = Sum(v, n)
  <2>1. \A i \in 1..n : v[i] \in Int
    <3>1. \A i \in 1..n : v[i] = Value(xs[i])
      BY <1>1, <1>2, <1>3
    <3> QED BY <1>2, <3>1, CiphertextFacts
  <2> QED BY <2>1, SumFacts
<1>5. PICK r : /\ r = Sums(xs)[n] /\ r = AddMany(xs) /\ Sound(r) /\ Decrypts(r, s)
               /\ r.out = "threw" =>
                     Transparent(r.ct) \/ \E m \in 1..n - 1 : Sums(xs)[m].out # "threw" /\ r.ct = Sums(xs)[m].ct
  BY <1>1, <1>2, <1>3, <1>4, SumsFacts DEF AddMany
<1>6. PICK w : w = s % P /\ Returns(r, w)
  BY <1>2, <1>3, <1>4, <1>5
<1>7. Kept /\ Promise
  BY <1>5, <1>6, KeepsPromise
<1>8. Blame
  BY <1>2, <1>5, <1>6 DEF Blame, Returns
<1> QED BY <1>7, <1>8

\* Every call keeps the object a ciphertext, keeps its promise, and hides no
\* damage.
LEMMA StepFacts ==
    ASSUME ct \in Ciphertexts, Next
    PROVE  Kept /\ Promise /\ Blame
<1> DEFINE goal == Kept /\ Promise /\ Blame
<1>1. ct \in Sources /\ \A x \in Sources : x \in Ciphertexts
  BY EvaluatorAssumption DEF Sources
<1>2. \A x \in Sources : Value(x) \in Int /\ Value(x) \in Residues
  BY <1>1, CiphertextFacts
<1>3. PICK a \in Int : a = Value(ct) /\ a \in Residues
  BY <1>1, <1>2
<1> HIDE DEF goal
<1>4. CASE Copy
  <2>1. PICK x \in Operands : Returns(Same(x), Value(x))
    BY <1>4 DEF Copy
  <2>2. PICK r, v : v \in Int /\ r = Same(x) /\ v = Value(x) /\ v \in Residues /\ x \in Sources
    BY <1>2 DEF Sources
  <2>3. Outcome(r, x, v)
    BY <1>1, <2>2, Returned
  <2> QED BY <2>1, <2>2, <2>3, KeepsAll
<1>5. CASE Encrypt
  <2>1. PICK v \in Residues, b \in Residues \ {0} : Returns(Done(EncryptOf(v, b)), v)
    BY <1>5 DEF Encrypt
  <2>2. PICK x, r : x = EncryptOf(v, b) /\ r = Done(x) /\ v \in Int
    BY ResidueFacts
  <2>3. x \in Ciphertexts /\ Valid(x) /\ Cong(Value(x), v)
    BY <2>2, EncryptFacts
  <2>4. Outcome(r, ct, v)
    BY <2>2, <2>3, Computed
  <2> QED BY <1>1, <2>1, <2>2, <2>4, KeepsAll
<1>6. CASE Negate
  <2>1. PICK r, v, w : v \in Int /\ r = NegateInplace(ct) /\ v = -a /\ w = v % P /\ Returns(r, w)
    BY <1>3, <1>6 DEF Negate
  <2>2. Outcome(r, ct, v)
    BY <1>1, <1>3, <2>1, NegateFacts
  <2> QED BY <1>1, <2>1, <2>2, KeepsAll
<1>7. CASE Add
  <2>1. PICK x \in Sources : Returns(AddInplace(ct, x), (Value(ct) + Value(x)) % P)
    BY <1>7 DEF Add
  <2>2. PICK b \in Int : b = Value(x)
    BY <1>2
  <2>3. PICK r, v, w : v \in Int /\ r = AddInplace(ct, x) /\ v = a + b /\ w = v % P /\ Returns(r, w)
    BY <1>3, <2>1, <2>2
  <2>4. Outcome(r, ct, v)
    BY <1>1, <1>3, <2>2, <2>3, AddFacts
  <2> QED BY <1>1, <2>3, <2>4, KeepsAll
<1>8. CASE Sub
  <2>1. PICK x \in Sources : \/ Returns(SubInplace(ct, x), (Value(ct) - Value(x)) % P)
                             \/ Returns(SubFrom(x, ct), (Value(x) - Value(ct)) % P)
    BY <1>8 DEF Sub
  <2>2. PICK b \in Int : b = Value(x)
    BY <1>2
  <2>3. CASE Returns(SubInplace(ct, x), (Value(ct) - Value(x)) % P)
    <3>1. PICK r, v, w : v \in Int /\ r = SubInplace(ct, x) /\ v = a - b /\ w = v % P /\ Returns(r, w)
      BY <1>3, <2>2, <2>3
    <3>2. Outcome(r, ct, v)
      BY <1>1, <1>3, <2>2, <3>1, SubFacts
    <3> QED BY <1>1, <3>1, <3>2, KeepsAll
  <2>4. CASE Returns(SubFrom(x, ct), (Value(x) - Value(ct)) % P)
    <3>1. PICK r, v, w : v \in Int /\ r = SubFrom(x, ct) /\ v = b - a /\ w = v % P /\ Returns(r, w)
      BY <1>3, <2>2, <2>4
    <3>2. Outcome(r, ct, v)
      BY <1>1, <1>3, <2>2, <3>1, SubFacts
    <3> QED BY <1>1, <3>1, <3>2, KeepsAll
  <2> QED BY <2>1, <2>3, <2>4
<1>9. CASE AddAll
  BY <1>9, AddManyFacts DEF AddAll
<1>10. CASE Multiply
  <2>1. PICK x \in Sources : Returns(MultiplyInplace(ct, x), (Value(ct) * Value(x)) % P)
    BY <1>10 DEF Multiply
  <2>2. PICK b \in Int : b = Value(x)
    BY <1>2
  <2>3. PICK r, v, w : v \in Int /\ r = MultiplyInplace(ct, x) /\ v = a * b /\ w = v % P /\ Returns(r, w)
    BY <1>3, <2>1, <2>2
  <2>4. Outcome(r, ct, v)
    BY <1>1, <1>3, <2>2, <2>3, MultiplyFacts
  <2> QED BY <1>1, <2>3, <2>4, KeepsAll
<1>11. CASE Square
  <2>1. PICK r, v, w : v \in Int /\ r = SquareInplace(ct) /\ v = a * a /\ w = v % P /\ Returns(r, w)
    BY <1>3, <1>11 DEF Square
  <2>2. Outcome(r, ct, v)
    BY <1>1, <1>3, <2>1, SquareFacts
  <2> QED BY <1>1, <2>1, <2>2, KeepsAll
<1>12. CASE MultiplyAll
  <2>1. PICK xs \in Lists : Returns(MultiplyMany(xs, ct), Prod([i \in DOMAIN xs |-> Value(xs[i])], Len(xs)) % P)
    BY <1>12 DEF MultiplyAll
  <2>2. xs \in Seq(Ciphertexts) \ {<<>>} /\ Len(xs) \in Nat /\ \A i \in 1..Len(xs) : xs[i] \in Ciphertexts
    BY EvaluatorAssumption
  <2>3. PICK u : u = [i \in DOMAIN xs |-> Value(xs[i])]
    OBVIOUS
  <2>4. \A i \in 1..Len(xs) : u[i] \in Int
    <3>1. \A i \in 1..Len(xs) : u[i] = Value(xs[i])
      BY <2>2, <2>3
    <3> QED BY <2>2, <3>1, CiphertextFacts
  <2>5. PICK r, v, w : v \in Int /\ r = MultiplyMany(xs, ct) /\ v = Prod(u, Len(xs)) /\ w = v % P /\ Returns(r, w)
    BY <2>1, <2>2, <2>3, <2>4, ProdFacts
  <2>6. Outcome(r, ct, v)
    BY <1>1, <2>2, <2>3, <2>5, MultiplyManyFacts
  <2> QED BY <1>1, <2>5, <2>6, KeepsAll
<1>13. CASE Exponentiate
  <2>1. PICK e \in Nat : Returns(ExponentiateInplace(ct, e), Pow(Value(ct), e) % P)
    BY <1>13, EvaluatorAssumption DEF Exponentiate
  <2>2. PICK r, v, w : v \in Int /\ r = ExponentiateInplace(ct, e) /\ v = Pow(a, e) /\ w = v % P /\ Returns(r, w)
    BY <1>3, <2>1, PowFacts
  <2>3. Outcome(r, ct, v)
    BY <1>1, <1>3, <2>2, ExponentiateFacts
  <2> QED BY <1>1, <2>2, <2>3, KeepsAll
<1>14. CASE AddPlain
  <2>1. PICK p \in Plains : Returns(AddPlainInplace(ct, p, 1), (Value(ct) + p.v) % P)
    BY <1>14 DEF AddPlain
  <2>2. PICK sign \in {1, -1} : sign = 1
    OBVIOUS
  <2>3. p \in Plaintexts
    BY EvaluatorAssumption
  <2>4. p.v \in Int /\ Outcome(AddPlainInplace(ct, p, sign), ct, Value(ct) + sign * p.v)
    BY <1>1, <2>3, PlainFacts
  <2>5. PICK r, v, w : /\ v \in Int /\ r = AddPlainInplace(ct, p, sign) /\ v = a + sign * p.v
                        /\ w = v % P /\ Returns(r, w)
    BY <1>3, <2>1, <2>2, <2>4
  <2> QED BY <1>1, <1>3, <2>4, <2>5, KeepsAll
<1>15. CASE SubPlain
  <2>1. PICK p \in Plains : Returns(AddPlainInplace(ct, p, -1), (Value(ct) - p.v) % P)
    BY <1>15 DEF SubPlain
  <2>2. PICK sign \in {1, -1} : sign = -1
    OBVIOUS
  <2>3. p \in Plaintexts
    BY EvaluatorAssumption
  <2>4. p.v \in Int /\ Outcome(AddPlainInplace(ct, p, sign), ct, Value(ct) + sign * p.v)
    BY <1>1, <2>3, PlainFacts
  <2>5. PICK r, v, w : /\ v \in Int /\ r = AddPlainInplace(ct, p, sign) /\ v = a + sign * p.v
                        /\ w = v % P /\ Returns(r, w)
    BY <1>3, <2>1, <2>2, <2>4
  <2> QED BY <1>1, <1>3, <2>4, <2>5, KeepsAll
<1>16. CASE MultiplyPlain
  <2>1. PICK p \in Plains : Returns(MultiplyPlainInplace(ct, p), (Value(ct) * p.v) % P)
    BY <1>16 DEF MultiplyPlain
  <2>2. p \in Plaintexts
    BY EvaluatorAssumption
  <2>3. p.v \in Int /\ Outcome(MultiplyPlainInplace(ct, p), ct, Value(ct) * p.v)
    BY <1>1, <2>2, PlainFacts
  <2>4. PICK r, v, w : v \in Int /\ r = MultiplyPlainInplace(ct, p) /\ v = a * p.v /\ w = v % P /\ Returns(r, w)
    BY <1>3, <2>1, <2>3
  <2> QED BY <1>1, <1>3, <2>3, <2>4, KeepsAll
<1>17. CASE Relinearize
  <2>1. PICK r : r = RelinearizeInplace(ct) /\ Returns(r, a)
    BY <1>3, <1>17 DEF Relinearize
  <2>2. Outcome(r, ct, a)
    BY <1>1, <1>3, <2>1, RelinearizeFacts
  <2> QED BY <1>1, <1>3, <2>1, <2>2, KeepsAll
<1>18. CASE ModSwitch
  <2>1. CASE \E x \in Sources : Returns(ModSwitchToNext(x, ct), Value(x))
    <3>1. PICK x \in Sources : Returns(ModSwitchToNext(x, ct), Value(x))
      BY <2>1
    <3>2. PICK r, v : v \in Int /\ r = ModSwitchToNext(x, ct) /\ v = Value(x) /\ v \in Residues /\ Returns(r, v)
      BY <1>2, <3>1
    <3>3. Outcome(r, ct, v)
      <4>1. ct.level \in 0..KeyLevel /\ TRUE \in BOOLEAN
        BY <1>1, CiphertextFacts
      <4> QED BY <1>1, <3>2, <4>1, LevelFacts
    <3> QED BY <1>1, <3>2, <3>3, KeepsAll
  <2>2. CASE \E level \in 0..KeyLevel : Returns(ModSwitchTo(ct, level), Value(ct))
    <3>1. PICK level \in 0..KeyLevel : Returns(ModSwitchTo(ct, level), Value(ct))
      BY <2>2
    <3>2. PICK r : r = ModSwitchTo(ct, level) /\ Returns(r, a)
      BY <1>3, <3>1
    <3>3. Outcome(r, ct, a)
      BY <1>1, <1>3, <3>2, TRUE \in BOOLEAN, LevelFacts
    <3> QED BY <1>1, <1>3, <3>2, <3>3, KeepsAll
  <2> QED BY <1>18, <2>1, <2>2 DEF ModSwitch
<1>19. CASE TransformNtt
  <2>1. PICK ntt \in BOOLEAN : Returns(Transform(ct, ntt), Value(ct))
    BY <1>19 DEF TransformNtt
  <2>2. PICK r : r = Transform(ct, ntt) /\ Returns(r, a)
    BY <1>3, <2>1
  <2>3. Outcome(r, ct, a)
    <3>1. ct.level \in 0..KeyLevel
      BY <1>1, CiphertextFacts
    <3> QED BY <1>1, <1>3, <2>2, <3>1, LevelFacts
  <2> QED BY <1>1, <1>3, <2>2, <2>3, KeepsAll
<1>20. CASE RotateRows
  <2>1. PICK terms \in Nat, garbage \in Residues : Returns(Rotate(ct, terms, garbage), Value(ct))
    BY <1>20, EvaluatorAssumption DEF RotateRows
  <2>2. PICK r : r = Rotate(ct, terms, garbage) /\ Returns(r, a)
    BY <1>3, <2>1
  <2>3. Outcome(r, ct, a)
    BY <1>1, <1>3, <2>2, RotateFacts
  <2> QED BY <1>1, <1>3, <2>2, <2>3, KeepsAll
<1>21. CASE Rescale
  <2>1. PICK r : r = Throw(ct) /\ Returns(r, a)
    BY <1>3, <1>21 DEF Rescale
  <2>2. Outcome(r, ct, a)
    BY <1>1, <2>1, Refused
  <2> QED BY <1>1, <1>3, <2>1, <2>2, KeepsAll
<1>22. CASE Galois
  <2>1. PICK garbage \in Residues : Returns(ApplyGalois(ct, garbage), Value(ct))
    BY <1>22 DEF Galois
  <2>2. PICK r : r = ApplyGalois(ct, garbage) /\ Returns(r, a)
    BY <1>3, <2>1
  <2>3. Outcome(r, ct, a)
    BY <1>1, <1>3, <2>2, GaloisFacts
  <2> QED BY <1>1, <1>3, <2>2, <2>3, KeepsAll
<1> QED
  BY <1>4, <1>5, <1>6, <1>7, <1>8, <1>9, <1>10, <1>11, <1>12, <1>13, <1>14, <1>15, <1>16, <1>17, <1>18,
     <1>19, <1>20, <1>21, <1>22 DEF Next

\* What a program starts from is a fresh encryption.
LEMMA InitFacts ==
    ASSUME Init
    PROVE  ValidResults /\ Homomorphic
<1>1. PICK v \in Residues, a \in Residues \ {0} : ct = EncryptOf(v, a) /\ want = v
  BY DEF Init
<1>2. ct \in Ciphertexts /\ Valid(ct) /\ ~Transparent(ct) /\ Cong(Value(ct), v)
  BY <1>1, EncryptFacts
<1>3. Value(ct) = v
  BY <1>2, CiphertextFacts, ResidueFacts
<1> QED BY <1>1, <1>2, <1>3 DEF ValidResults, Homomorphic

\* What a call has computed every other call takes: whatever the calls before,
\* its result has an allowed size, is not of the key level and not transparent
\* (is_transparent after each operation of evaluator.cpp).
THEOREM ResultsAreValid == Spec => []ValidResults
<1>1. Init => ValidResults
  BY InitFacts
<1>2. ValidResults /\ [Next]_vars => ValidResults'
  <2> SUFFICES ASSUME ValidResults, [Next]_vars PROVE ValidResults'
    OBVIOUS
  <2>1. CASE Next
    <3>1. Kept
      BY <2>1, StepFacts DEF ValidResults
    <3> QED BY <3>1 DEF Kept, ValidResults, Valid, Transparent
  <2>2. CASE UNCHANGED vars
    BY <2>2 DEF ValidResults, Valid, Transparent, vars
  <2> QED BY <2>1, <2>2
<1> QED BY <1>1, <1>2, PTL DEF Spec

\* With at most the one relinearization key that create_relin_keys makes, what
\* a call returns decrypts to the operation on what its operands decrypt to,
\* the destination among them or not, in every form, size and level.
THEOREM CallsAreHomomorphic ==
    ASSUME RelinCount <= 1
    PROVE  Spec => []Homomorphic
<1>1. Init => Homomorphic
  BY InitFacts
<1>2. ValidResults /\ Homomorphic /\ [Next]_vars => Homomorphic'
  <2> SUFFICES ASSUME ValidResults, Homomorphic, [Next]_vars PROVE Homomorphic'
    OBVIOUS
  <2>1. CASE Next
    <3>1. Promise
      BY <2>1, StepFacts DEF ValidResults
    <3> QED BY <3>1 DEF Promise, Homomorphic, Value
  <2>2. CASE UNCHANGED vars
    BY <2>2 DEF Homomorphic, Value, Valid, vars
  <2> QED BY <2>1, <2>2
<1>3. Spec => []ValidResults
  BY ResultsAreValid
<1> QED BY <1>1, <1>2, <1>3, PTL DEF Spec

\* A call that throws leaves what it found, a copy of an operand, the part of a
\* sum it had made, or an object that is seen to be empty: never a ciphertext
\* that decrypts to something nobody asked for.
THEOREM ThrowsHideNothing == Spec => NoSilentDamage
<1>1. ValidResults /\ Next => Blame
  BY StepFacts DEF ValidResults
<1>2. ValidResults /\ [Next]_vars => [Blame]_vars
  BY <1>1
<1>3. Spec => []ValidResults
  BY ResultsAreValid
<1>4. Spec => [][Blame]_vars
  BY <1>2, <1>3, PTL DEF Spec
<1> QED BY <1>4 DEF NoSilentDamage, Blame

=============================================================================
