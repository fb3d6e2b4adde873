------------------------- MODULE AddRetrieval_proofs -------------------------
(***************************************************************************)
(* A retrieval with additive sharing returns the wanted word, for every    *)
(* modulus of at most 60 bits, every number of servers and images, every   *)
(* database and every choice of the random shares.                         *)
(***************************************************************************)
EXTENDS AddRetrieval, TLAPS

-----------------------------------------------------------------------------
(* Residues.                                                               *)

\* What % and \div are on integers, negative ones included.
LEMMA Residue ==
    ASSUME NEW x \in Int
    PROVE  x % Mod \in Field /\ x \div Mod \in Int /\ x = (x % Mod) + (x \div Mod) * Mod
  BY ModAssumption DEF Field

\* The only multiple of the modulus closer to 0 than the modulus is 0.
LEMMA SmallMultiple ==
    ASSUME NEW k \in Int, NEW d \in Int, d = k * Mod, -Mod < d, d < Mod
    PROVE  d = 0
<1>1. CASE k >= 1
  <2>1. k * Mod >= Mod
    BY <1>1, ModAssumption
  <2> QED
    BY <2>1, ModAssumption
<1>2. CASE k <= -1
  <2>1. k * Mod <= -Mod
    BY <1>2, ModAssumption
  <2> QED
    BY <2>1, ModAssumption
<1>3. CASE k = 0
  BY <1>3, ModAssumption
<1> QED
  BY <1>1, <1>2, <1>3

\* Congruent numbers differ by a multiple of the modulus.
LEMMA CongruentDiffer ==
    ASSUME NEW x \in Int, NEW y \in Int, Congruent(x, y)
    PROVE  \E e \in Int : x = y + e * Mod
<1> DEFINE ex == x \div Mod
           ey == y \div Mod
           r == x % Mod
<1>1. r \in Int /\ ex \in Int /\ ey \in Int /\ x = r + ex * Mod /\ y = r + ey * Mod
  BY Residue, ModAssumption DEF Congruent, Field
<1> HIDE DEF ex, ey, r
<1>2. x = y + (ex - ey) * Mod
  BY <1>1, ModAssumption
<1> QED
  BY <1>1, <1>2

\* Numbers that differ by a multiple of the modulus are congruent.
LEMMA DifferCongruent ==
    ASSUME NEW x \in Int, NEW y \in Int, NEW e \in Int, x = y + e * Mod
    PROVE  Congruent(x, y)
<1> DEFINE ex == x \div Mod
           ey == y \div Mod
           rx == x % Mod
           ry == y % Mod
           k == ey + e - ex
           d == rx - ry
<1>1. /\ rx \in 0..Mod - 1 /\ ry \in 0..Mod - 1 /\ ex \in Int /\ ey \in Int
      /\ x = rx + ex * Mod /\ y = ry + ey * Mod
  BY Residue DEF Field
<1> HIDE DEF ex, ey, rx, ry
<1>2. d = k * Mod /\ d \in Int /\ k \in Int /\ -Mod < d /\ d < Mod
  BY <1>1, ModAssumption
<1>3. d = 0
  <2> HIDE DEF d, k
  <2> QED
    BY <1>2, SmallMultiple
<1>4. rx = ry
  BY <1>1, <1>3, ModAssumption
<1> QED
  BY <1>4 DEF Congruent, rx, ry

\* A number is congruent to its residue.
LEMMA ResidueCongruent ==
    ASSUME NEW x \in Int
    PROVE  Congruent(x % Mod, x) /\ Congruent(x, x % Mod)
<1> DEFINE q == x \div Mod
           r == x % Mod
<1>1. q \in Int /\ -q \in Int /\ r \in Int /\ x = r + q * Mod
  BY Residue, ModAssumption DEF Field
<1> HIDE DEF q, r
<1>2. r = x + (-q) * Mod
  BY <1>1, ModAssumption
<1>3. Congruent(r, x) /\ Congruent(x, r)
  BY <1>1, <1>2, DifferCongruent
<1> QED
  BY <1>3 DEF r

\* Congruence is an equivalence.
LEMMA CongruentBasics ==
    ASSUME NEW x, NEW y, NEW z
    PROVE  /\ Congruent(x, x)
           /\ Congruent(x, y) => Congruent(y, x)
           /\ Congruent(x, y) /\ Congruent(y, z) => Congruent(x, z)
  BY DEF Congruent

\* Congruence is preserved by addition.
LEMMA CongruentAdd ==
    ASSUME NEW x \in Int, NEW y \in Int, NEW u \in Int, NEW v \in Int,
           Congruent(x, y), Congruent(u, v)
    PROVE  Congruent(x + u, y + v)
<1>1. PICK e \in Int : x = y + e * Mod
  BY CongruentDiffer
<1>2. PICK f \in Int : u = v + f * Mod
  BY CongruentDiffer
<1>3. x + u = y + v + (e + f) * Mod /\ e + f \in Int /\ x + u \in Int /\ y + v \in Int
  BY <1>1, <1>2, ModAssumption
<1> DEFINE p == x + u
           q == y + v
           g == e + f
<1> HIDE DEF p, q, g
<1>4. p = q + g * Mod /\ p \in Int /\ q \in Int /\ g \in Int
  BY <1>3 DEF p, q, g
<1>5. Congruent(p, q)
  BY <1>4, DifferCongruent
<1> QED
  BY <1>5 DEF p, q

\* Congruence is preserved by multiplication.
LEMMA CongruentTimes ==
    ASSUME NEW x \in Int, NEW y \in Int, NEW w \in Int, Congruent(x, y)
    PROVE  Congruent(x * w, y * w)
<1>1. PICK e \in Int : x = y + e * Mod
  BY CongruentDiffer
<1> DEFINE p == x * w
           q == y * w
           g == e * w
<1>2. p = q + g * Mod /\ p \in Int /\ q \in Int /\ g \in Int
  BY <1>1, ModAssumption
<1> HIDE DEF p, q, g
<1>3. Congruent(p, q)
  BY <1>2, DifferCongruent
<1> QED
  BY <1>3 DEF p, q

\* Elements of the field are congruent only to themselves.
LEMMA CongruentField ==
    ASSUME NEW x \in Field, NEW y \in Field, Congruent(x, y)
    PROVE  x = y
<1>1. PICK e \in Int : x = y + e * Mod
  BY CongruentDiffer, ModAssumption DEF Field
<1> DEFINE d == x - y
<1>2. d \in Int /\ d = e * Mod /\ -Mod < d /\ d < Mod
  BY <1>1, ModAssumption DEF Field
<1> HIDE DEF d
<1>3. d = 0
  BY <1>2, SmallMultiple
<1> QED
  BY <1>3, ModAssumption DEF d, Field

-----------------------------------------------------------------------------
(* The operations on words and slots.                                      *)

\* field_add never wraps around a uint64_t and returns the sum in the field.
LEMMA FieldAddSum ==
    ASSUME NEW x \in Field, NEW y \in Field
    PROVE  FieldAdd(x, y) \in Field /\ Congruent(FieldAdd(x, y), x + y)
<1> DEFINE t == x + y
<1>1. t \in Int /\ 0 <= t /\ t < Word
  BY ModAssumption, WordAssumption DEF Field
<1>2. FieldAdd(x, y) = (t % Word) % Mod
  BY DEF FieldAdd
<1> HIDE DEF t
<1>3. t % Word = t
  BY <1>1, WordAssumption
<1>4. FieldAdd(x, y) \in Field /\ Congruent(FieldAdd(x, y), t)
  BY <1>1, <1>2, <1>3, Residue, ResidueCongruent
<1> QED
  BY <1>4 DEF t

\* field_sub never wraps around and returns the difference in the field.
LEMMA FieldSubDifference ==
    ASSUME NEW x \in Field, NEW y \in Field
    PROVE  FieldSub(x, y) \in Field /\ Congruent(FieldSub(x, y) + y, x)
<1>1. CASE x < y
  <2> DEFINE t == Mod + x - y
  <2>1. t \in Field /\ 0 <= t /\ t < Word /\ t + y \in Int /\ x \in Int
        /\ t + y = x + 1 * Mod
    BY <1>1, ModAssumption, WordAssumption DEF Field
  <2>2. FieldSub(x, y) = t % Word
    BY <1>1 DEF FieldSub
  <2> HIDE DEF t
  <2>3. t % Word = t
    BY <2>1, ModAssumption, WordAssumption DEF Field
  <2>4. Congruent(t + y, x)
    <3> DEFINE u == t + y
    <3>1. u \in Int /\ x \in Int /\ u = x + 1 * Mod
      BY <2>1
    <3> HIDE DEF u
    <3>2. Congruent(u, x)
      BY <3>1, DifferCongruent
    <3> QED
      BY <3>2 DEF u
  <2> QED
    BY <2>1, <2>2, <2>3, <2>4
<1>2. CASE ~(x < y)
  <2>1. FieldSub(x, y) = x - y /\ x - y \in Field /\ (x - y) + y = x
    BY <1>2, ModAssumption DEF FieldSub, Field
  <2> QED
    BY <2>1, CongruentBasics
<1> QED
  BY <1>1, <1>2

\* The slotwise operations of the servers compute in the field.
LEMMA SlotOperations ==
    ASSUME NEW x \in Field, NEW y \in Field
    PROVE  /\ SlotMul(x, y) \in Field /\ Congruent(SlotMul(x, y), x * y)
           /\ SlotAdd(x, y) \in Field /\ Congruent(SlotAdd(x, y), x + y)
<1>1. x * y \in Int /\ x + y \in Int
  BY ModAssumption DEF Field
<1> QED
  BY <1>1, Residue, ResidueCongruent DEF SlotMul, SlotAdd

\* Constants of the field.
LEMMA FieldElements ==
    /\ Field \subseteq Int /\ 0 \in Field /\ 1 \in Field
    /\ \A i \in Images : Bit(i) \in Field
  BY ModAssumption DEF Field, Bit

-----------------------------------------------------------------------------
(* The inductive invariant.                                                *)

Inv == TypeOK /\ RetrievalInv

\* fetch_image starts in the invariant.
LEMMA InitInv == Init => Inv
<1> SUFFICES ASSUME Init PROVE Inv
  OBVIOUS
<1>1. /\ pc = "share" /\ img = 0 /\ shares = <<>> /\ last = Bit(0) /\ pos = 0 /\ res = 0
      /\ psum = <<0>> /\ asum = [k \in 1..NumServers + 1 |-> 0]
      /\ acc = [s \in Servers |-> 0] /\ row \in [Images -> Field] /\ index \in Images
  BY DEF Init
<1>2. 0 \in Images /\ 0 < NumImages /\ 0 < NumServers /\ NumServers \in Nat
      /\ ~(index < img) /\ 0 \in 0..NumImages /\ 0 \in 0..NumServers
  BY <1>1, CountsAssumption DEF Images
<1>3. TypeOK
  BY <1>1, <1>2, FieldElements DEF TypeOK
<1>4. ShareInv
  <2>1. Len(shares) = 0 /\ Len(psum) = 1 /\ psum[1] = 0 /\ 1..Len(shares) = {}
    BY <1>1
  <2>2. psum[1] + last = Bit(0)
    <3>1. Bit(0) \in Int /\ psum[1] = 0 /\ last = Bit(0)
      BY <1>1, <1>2, <2>1, FieldElements
    <3> QED
      BY <3>1
  <2>3. Congruent(psum[Len(shares) + 1] + last, Bit(img))
    BY <1>1, <2>1, <2>2, CongruentBasics
  <2> QED
    BY <1>1, <1>2, <2>1, <2>3 DEF ShareInv
<1>5. ResponseInv
  <2>1. asum[1] = 0 /\ asum[NumServers + 1] = 0
    BY <1>1, <1>2
  <2>2. ASSUME NEW s \in Servers PROVE asum[s] + acc[s] = asum[s + 1]
    BY <1>1, <1>2 DEF Servers
  <2>3. ASSUME NEW s \in Servers PROVE Congruent(asum[s] + acc[s], asum[s + 1])
    BY <2>2, CongruentBasics
  <2> QED
    BY <1>2, <2>1, <2>3, CongruentBasics DEF ResponseInv
<1>6. ReconstructInv
  <2>1. asum[pos + 1] = 0
    BY <1>1, <1>2
  <2> QED
    BY <1>1, <1>2, <2>1, CongruentBasics DEF ReconstructInv
<1> QED
  BY <1>3, <1>4, <1>5, <1>6 DEF Inv, RetrievalInv

\* A drawn share leaves what share() still has to hand out.
LEMMA DrawInv ==
    ASSUME Inv, DrawShare
    PROVE  Inv'
<1> DEFINE n == Len(shares)
<1>1. PICK qj \in Field : /\ shares' = Append(shares, qj)
                          /\ last' = FieldSub(last, qj)
                          /\ psum' = Append(psum, psum[Len(psum)] + qj)
  BY DEF DrawShare, RandomFieldElement
<1>2. /\ pc = "share" /\ n + 1 < NumServers /\ n \in Nat
      /\ shares \in Seq(Field) /\ psum \in Seq(Int) /\ last \in Field
      /\ UNCHANGED <<row, index, img, acc, pos, res, pc, asum>>
      /\ TypeOK /\ ShareInv /\ ResponseInv /\ ReconstructInv
  BY DEF DrawShare, Inv, TypeOK, RetrievalInv
<1>3. Len(psum) = n + 1 /\ qj \in Int /\ psum[n + 1] \in Int
  BY <1>2, FieldElements DEF ShareInv
<1>4. /\ Len(shares') = n + 1 /\ Len(psum') = n + 2
      /\ \A k \in 1..n : shares'[k] = shares[k]
      /\ shares'[n + 1] = qj
      /\ \A k \in 1..n + 1 : psum'[k] = psum[k]
      /\ psum'[n + 1] = psum[n + 1] /\ psum'[n + 2] = psum[n + 1] + qj
      /\ shares' \in Seq(Field) /\ psum' \in Seq(Int)
  BY <1>1, <1>2, <1>3
<1>5. TypeOK'
  BY <1>1, <1>2, <1>4, FieldSubDifference DEF TypeOK
<1>6. ShareInv'
  <2>1. Congruent(psum'[n + 2] + last', Bit(img))
    <3> DEFINE p == psum[n + 1]
               u == last' + qj
    <3>0. last' \in Int /\ last \in Int /\ Congruent(u, last)
      BY <1>1, <1>2, FieldSubDifference, FieldElements
    <3>1. /\ p \in Int /\ u \in Int /\ psum'[n + 2] = p + qj
          /\ psum'[n + 2] + last' = p + u
      BY <1>3, <1>4, <3>0
    <3>2. Congruent(p + last, Bit(img))
      BY <1>2 DEF ShareInv
    <3> HIDE DEF p, u
    <3>3. Congruent(p + u, p + last)
      <4>1. Congruent(p, p)
        BY CongruentBasics
      <4> QED
        BY <3>0, <3>1, <4>1, CongruentAdd
    <3> QED
      BY <3>1, <3>2, <3>3, CongruentBasics
  <2>2. Len(shares') + 1 = n + 2 /\ Bit(img)' = Bit(img)
    BY <1>2, <1>4 DEF Bit
  <2>3. ASSUME NEW k \in 1..Len(shares')
        PROVE  psum'[k + 1] = psum'[k] + shares'[k]
    <3>1. CASE k \in 1..n
      <4>1. psum[k + 1] = psum[k] + shares[k] /\ k \in 1..n + 1 /\ k + 1 \in 1..n + 1
        BY <1>2, <3>1 DEF ShareInv
      <4> QED
        BY <1>4, <3>1, <4>1
    <3>2. CASE k = n + 1
      <4>1. psum'[k + 1] = psum[k] + qj /\ psum'[k] = psum[k] /\ shares'[k] = qj
        <5>1. k + 1 = n + 2
          BY <1>2, <3>2
        <5> QED
          BY <1>4, <3>2, <5>1
      <4> QED
        BY <4>1
    <3> QED
      BY <1>2, <1>4, <3>1, <3>2
  <2>4. psum'[1] = 0
    BY <1>2, <1>4 DEF ShareInv
  <2> QED
    BY <1>2, <1>4, <2>1, <2>2, <2>3, <2>4, CountsAssumption DEF ShareInv
<1>7. ResponseInv' /\ ReconstructInv'
  BY <1>2 DEF ResponseInv, ReconstructInv
<1> QED
  BY <1>5, <1>6, <1>7 DEF Inv, RetrievalInv

\* The last share makes up the bit.
LEMMA LastInv ==
    ASSUME Inv, LastShare
    PROVE  Inv'
<1> DEFINE n == Len(shares)
<1>2. /\ pc = "share" /\ n + 1 = NumServers /\ n \in Nat
      /\ shares \in Seq(Field) /\ psum \in Seq(Int) /\ last \in Field
      /\ shares' = Append(shares, last)
      /\ psum' = Append(psum, psum[Len(psum)] + last)
      /\ pc' = "send"
      /\ UNCHANGED <<row, index, img, last, acc, pos, res, asum>>
      /\ TypeOK /\ ShareInv /\ ResponseInv /\ ReconstructInv
  BY DEF LastShare, Inv, TypeOK, RetrievalInv
<1>3. Len(psum) = n + 1 /\ last \in Int /\ psum[n + 1] \in Int
  BY <1>2, FieldElements DEF ShareInv
<1>4. /\ Len(shares') = n + 1 /\ Len(psum') = n + 2
      /\ \A k \in 1..n : shares'[k] = shares[k]
      /\ shares'[n + 1] = last
      /\ \A k \in 1..n + 1 : psum'[k] = psum[k]
      /\ psum'[n + 2] = psum[n + 1] + last
      /\ shares' \in Seq(Field) /\ psum' \in Seq(Int)
  BY <1>2, <1>3
<1>5. TypeOK'
  BY <1>2, <1>4 DEF TypeOK
<1>6. ShareInv'
  <2>1. Congruent(psum'[NumServers + 1], Bit(img)) /\ img < NumImages
    BY <1>2, <1>4 DEF ShareInv
  <2>2. Bit(img)' = Bit(img)
    BY <1>2 DEF Bit
  <2>3. ASSUME NEW k \in 1..Len(shares')
        PROVE  psum'[k + 1] = psum'[k] + shares'[k]
    <3>1. CASE k \in 1..n
      <4>1. psum[k + 1] = psum[k] + shares[k] /\ k \in 1..n + 1 /\ k + 1 \in 1..n + 1
        BY <1>2, <3>1 DEF ShareInv
      <4> QED
        BY <1>4, <3>1, <4>1
    <3>2. CASE k = n + 1
      BY <1>2, <1>4, <3>2
    <3> QED
      BY <1>2, <1>4, <3>1, <3>2
  <2>4. psum'[1] = 0
    BY <1>2, <1>4 DEF ShareInv
  <2> QED
    BY <1>2, <1>4, <2>1, <2>2, <2>3, <2>4 DEF ShareInv
<1>7. ResponseInv' /\ ReconstructInv'
  BY <1>2 DEF ResponseInv, ReconstructInv
<1> QED
  BY <1>5, <1>6, <1>7 DEF Inv, RetrievalInv

\* An image dealt with adds its bit times its word to the sum of the responses.
LEMMA SendInv ==
    ASSUME Inv, SendShares
    PROVE  Inv'
<1> DEFINE r == row[img]
           want == IF index < img THEN row[index] ELSE 0
<1>1. /\ pc = "send" /\ img' = img + 1 /\ shares' = <<>> /\ psum' = <<0>>
      /\ acc' = [s \in Servers |-> SlotAdd(acc[s], SlotMul(shares[s], row[img]))]
      /\ asum' = [k \in 1..NumServers + 1 |-> asum[k] + psum[k] * row[img]]
      /\ UNCHANGED <<row, index, pos, res>>
      /\ TypeOK /\ ShareInv /\ ResponseInv /\ ReconstructInv
  BY DEF SendShares, Inv, RetrievalInv
<1>2. /\ img \in Images /\ img + 1 \in 0..NumImages /\ img \in Int
      /\ img < NumImages /\ NumImages \in Nat
  BY <1>1, CountsAssumption DEF TypeOK, ShareInv, Images
<1>3. /\ NumServers \in Nat \ {0} /\ Len(shares) = NumServers /\ Len(psum) = NumServers + 1
      /\ psum \in Seq(Int) /\ shares \in Seq(Field) /\ psum[1] = 0
      /\ \A k \in 1..NumServers : psum[k + 1] = psum[k] + shares[k]
      /\ Congruent(psum[NumServers + 1], Bit(img))
  BY <1>1, CountsAssumption DEF TypeOK, ShareInv
<1>4. /\ row \in [Images -> Field] /\ acc \in [Servers -> Field]
      /\ asum \in [1..NumServers + 1 -> Int] /\ index \in Images
  BY <1>1 DEF TypeOK
<1>5. r \in Field /\ r \in Int /\ row[index] \in Field /\ Field \subseteq Int
  BY <1>2, <1>4, FieldElements
<1>6. \A s \in Servers : /\ shares[s] \in Field /\ acc[s] \in Field
                         /\ s \in 1..NumServers + 1 /\ s + 1 \in 1..NumServers + 1
                         /\ psum[s] \in Int /\ asum[s] \in Int /\ asum[s + 1] \in Int
  BY <1>3, <1>4 DEF Servers
<1>7. /\ img + 1 < NumImages => pc' = "share" /\ last' = Bit(img + 1)
      /\ img + 1 >= NumImages => pc' = "add" /\ last' = 0
  BY <1>2 DEF SendShares
<1>8. /\ img + 1 < NumImages => img + 1 \in Images
      /\ ~(img + 1 < NumImages) => img + 1 = NumImages
      /\ img + 1 < NumImages \/ img + 1 >= NumImages
  BY <1>2 DEF Images
<1> HIDE DEF r
<1>9. acc' \in [Servers -> Field] /\ asum' \in [1..NumServers + 1 -> Int]
  <2>1. ASSUME NEW s \in Servers
        PROVE  SlotAdd(acc[s], SlotMul(shares[s], row[img])) \in Field
    BY <1>5, <1>6, SlotOperations DEF r
  <2>2. ASSUME NEW k \in 1..NumServers + 1 PROVE asum[k] + psum[k] * row[img] \in Int
    <3>1. asum[k] \in Int /\ psum[k] \in Int
      BY <1>3, <1>4
    <3> QED
      BY <1>5, <3>1 DEF r
  <2> QED
    BY <1>1, <2>1, <2>2
<1>10. TypeOK'
  <2>1. last' \in Field /\ pc' \in {"share", "send", "add", "done"}
    BY <1>7, <1>8, FieldElements
  <2>2. shares' \in Seq(Field) /\ psum' \in Seq(Int) /\ img' \in 0..NumImages
    BY <1>1, <1>2
  <2> QED
    BY <1>1, <1>9, <2>1, <2>2 DEF TypeOK
<1>11. ShareInv'
  <2>1. Len(psum') = 1 /\ Len(shares') = 0 /\ psum'[1] = 0 /\ 1..Len(shares') = {}
    BY <1>1
  <2>2. ASSUME pc' = "share"
        PROVE  /\ img' < NumImages /\ Len(shares') < NumServers
               /\ Congruent(psum'[Len(shares') + 1] + last', Bit(img)')
    <3>1. img + 1 < NumImages /\ last' = Bit(img + 1)
      BY <1>7, <1>8, <2>2
    <3>2. Bit(img + 1) \in Int /\ Bit(img)' = Bit(img + 1)
      BY <1>1, <1>8, <3>1, FieldElements DEF Bit
    <3>3. psum'[Len(shares') + 1] + last' = Bit(img + 1)
      BY <2>1, <3>1, <3>2
    <3> QED
      BY <1>1, <1>3, <2>1, <3>1, <3>2, <3>3, CongruentBasics
  <2> QED
    BY <1>7, <1>8, <2>1, <2>2 DEF ShareInv
<1>12. ASSUME NEW s \in Servers
       PROVE  Congruent(asum'[s] + acc'[s], asum'[s + 1])
  <2> DEFINE x == shares[s]
             a == acc[s]
             p == psum[s]
             u == asum[s]
             v == asum[s + 1]
             m == SlotMul(x, r)
             b == SlotAdd(a, m)
  <2>1. /\ x \in Field /\ a \in Field /\ p \in Int /\ u \in Int /\ v \in Int
        /\ x \in Int /\ a \in Int /\ Congruent(u + a, v)
    BY <1>1, <1>5, <1>6 DEF ResponseInv
  <2>2. m \in Field /\ m \in Int /\ b \in Int /\ b \in Field /\ Congruent(m, x * r)
        /\ Congruent(b, a + m)
    BY <1>5, <2>1, SlotOperations
  <2>3. acc'[s] = b /\ asum'[s] = u + p * r /\ asum'[s + 1] = v + (p + x) * r
    <3>1. psum[s + 1] = p + x
      BY <1>3 DEF Servers
    <3>2. asum'[s] = asum[s] + psum[s] * row[img]
          /\ asum'[s + 1] = asum[s + 1] + psum[s + 1] * row[img]
          /\ acc'[s] = SlotAdd(acc[s], SlotMul(shares[s], row[img]))
      BY <1>1, <1>6
    <3> QED
      BY <3>1, <3>2 DEF r
  <2> HIDE DEF x, a, p, u, v, m, b
  <2> DEFINE y == x * r
             w == p * r
             z == u + a
  <2>4. y \in Int /\ w \in Int /\ z \in Int
        /\ (p + x) * r = w + y
    BY <1>5, <2>1
  <2>5. Congruent(m, y) /\ Congruent(z, v)
    BY <2>1, <2>2
  <2>6. z = u + a
    OBVIOUS
  <2>7. asum'[s] = u + w /\ asum'[s + 1] = v + (w + y)
    BY <2>3, <2>4
  <2> HIDE DEF y, w, z
  <2>8. Congruent(b, a + y)
    <3>1. Congruent(a, a)
      BY CongruentBasics
    <3>2. Congruent(a + m, a + y)
      BY <2>1, <2>2, <2>4, <2>5, <3>1, CongruentAdd
    <3> QED
      BY <2>2, <3>2, CongruentBasics
  <2>9. Congruent((u + w) + b, (u + w) + (a + y))
    <3> DEFINE c == u + w
               d == a + y
    <3>1. c \in Int /\ d \in Int /\ Congruent(c, c) /\ Congruent(b, d)
      BY <2>1, <2>4, <2>8, CongruentBasics
    <3> HIDE DEF c, d
    <3>2. Congruent(c + b, c + d)
      BY <2>2, <3>1, CongruentAdd
    <3> QED
      BY <3>2 DEF c, d
  <2>10. Congruent(z + (w + y), v + (w + y))
    <3> DEFINE c == w + y
    <3>1. c \in Int /\ Congruent(c, c)
      BY <2>4, CongruentBasics
    <3> HIDE DEF c
    <3>2. Congruent(z + c, v + c)
      BY <2>1, <2>4, <2>5, <3>1, CongruentAdd
    <3> QED
      BY <3>2 DEF c
  <2>11. (u + w) + (a + y) = z + (w + y)
    BY <2>1, <2>4, <2>6
  <2> QED
    BY <2>3, <2>7, <2>9, <2>10, <2>11, CongruentBasics
<1>13. Congruent(asum'[NumServers + 1], IF index' < img' THEN row'[index'] ELSE 0)
  <2> DEFINE v == asum[NumServers + 1]
             p == psum[NumServers + 1]
             t == Bit(img)
  <2>1. v \in Int /\ p \in Int /\ want \in Int /\ t \in Int
        /\ Congruent(v, want) /\ Congruent(p, t)
    <3>1. v \in Int /\ p \in Int
      BY <1>3, <1>4
    <3>2. Congruent(v, want) /\ Congruent(p, t)
      BY <1>1, <1>3 DEF ResponseInv
    <3>3. want \in Int /\ t \in Int
      BY <1>2, <1>5, FieldElements, ModAssumption
    <3> QED
      BY <3>1, <3>2, <3>3
  <2>2. asum'[NumServers + 1] = v + p * r
    BY <1>1, <1>3 DEF r
  <2>3. want + t * r = IF index < img + 1 THEN row[index] ELSE 0
    <3>1. index \in Int
      BY <1>4 DEF Images
    <3>2. CASE img = index
      <4>1. t = 1 /\ want = 0 /\ r = row[index] /\ index < img + 1
        BY <1>2, <3>1, <3>2 DEF Bit, r
      <4> QED
        BY <1>5, <4>1
    <3>3. CASE img # index
      <4>1. t = 0 /\ (index < img + 1 <=> index < img)
        BY <1>2, <3>1, <3>3 DEF Bit
      <4>2. want + t * r = want
        BY <1>5, <2>1, <4>1
      <4> QED
        BY <4>1, <4>2
    <3> QED
      BY <3>2, <3>3
  <2> HIDE DEF v, p, t, want
  <2>4. Congruent(v + p * r, want + t * r)
    <3> DEFINE c == p * r
               d == t * r
    <3>1. c \in Int /\ d \in Int /\ Congruent(c, d)
      BY <1>5, <2>1, CongruentTimes
    <3> HIDE DEF c, d
    <3>2. Congruent(v + c, want + d)
      BY <2>1, <3>1, CongruentAdd
    <3> QED
      BY <3>2 DEF c, d
  <2> QED
    BY <1>1, <2>2, <2>3, <2>4
<1>14. ResponseInv'
  <2>1. asum'[1] = 0
    BY <1>1, <1>3, <1>5 DEF ResponseInv, r
  <2> QED
    BY <1>12, <1>13, <2>1 DEF ResponseInv
<1>15. ReconstructInv'
  <2>1. pos = 0 /\ res = 0 /\ asum'[pos + 1] = 0
    BY <1>1, <1>14 DEF ReconstructInv, ResponseInv
  <2>2. pos' = 0 /\ res' = 0 /\ pos' < NumServers /\ Congruent(res', asum'[pos' + 1])
    BY <1>1, <1>3, <2>1, CongruentBasics
  <2>3. pc' \in {"share", "add"} /\ (pc' = "add" => img' = NumImages)
    BY <1>1, <1>7, <1>8
  <2> QED
    BY <2>2, <2>3 DEF ReconstructInv
<1> QED
  BY <1>10, <1>11, <1>14, <1>15 DEF Inv, RetrievalInv

\* reconstruct() follows the prefix sums of the responses.
LEMMA AddInv ==
    ASSUME Inv, AddResponse
    PROVE  Inv'
<1>1. /\ pc = "add" /\ pos < NumServers /\ pos' = pos + 1
      /\ res' = FieldAdd(acc[pos + 1], res)
      /\ pc' = IF pos + 1 = NumServers THEN "done" ELSE "add"
      /\ UNCHANGED <<row, index, img, shares, last, acc, psum, asum>>
      /\ TypeOK /\ ShareInv /\ ResponseInv /\ ReconstructInv
  BY DEF AddResponse, Inv, RetrievalInv
<1>2. /\ NumServers \in Nat /\ pos \in Int /\ pos + 1 \in Servers
      /\ pos + 1 \in 0..NumServers
      /\ pos + 1 \in 1..NumServers + 1 /\ pos + 2 \in 1..NumServers + 1
      /\ pos + 1 # NumServers => pos + 1 < NumServers
  BY <1>1, CountsAssumption DEF TypeOK, Servers
<1> DEFINE a == acc[pos + 1]
           u == asum[pos + 1]
           v == asum[pos + 2]
           f == FieldAdd(a, res)
<1>3. /\ a \in Field /\ res \in Field /\ u \in Int /\ v \in Int
      /\ a \in Int /\ res \in Int
  BY <1>1, <1>2, FieldElements DEF TypeOK
<1>4. f \in Field /\ f \in Int /\ Congruent(f, a + res)
  BY <1>3, FieldAddSum, FieldElements
<1>5. Congruent(u + a, v) /\ Congruent(res, u)
  <2>1. Congruent(asum[pos + 1] + acc[pos + 1], asum[(pos + 1) + 1])
    BY <1>1, <1>2 DEF ResponseInv
  <2>2. (pos + 1) + 1 = pos + 2
    BY <1>2
  <2>3. Congruent(res, u)
    BY <1>1 DEF ReconstructInv
  <2> QED
    BY <2>1, <2>2, <2>3
<1>6. res' = f /\ asum'[pos' + 1] = v
  <2>1. pos' + 1 = pos + 2
    BY <1>1, <1>2
  <2> QED
    BY <1>1, <2>1
<1> HIDE DEF a, u, v, f
<1>7. Congruent(f, v)
  <2>1. Congruent(a, a)
    BY CongruentBasics
  <2>2. Congruent(a + res, a + u) /\ a + u = u + a
    BY <1>3, <1>5, <2>1, CongruentAdd
  <2> QED
    BY <1>4, <1>5, <2>2, CongruentBasics
<1>8. TypeOK'
  BY <1>1, <1>2, <1>4, <1>6 DEF TypeOK
<1>9. ShareInv' /\ ResponseInv'
  BY <1>1 DEF ShareInv, ResponseInv
<1>10. ReconstructInv'
  BY <1>1, <1>2, <1>6, <1>7 DEF ReconstructInv
<1> QED
  BY <1>8, <1>9, <1>10 DEF Inv, RetrievalInv

\* Nothing else changes the invariant.
LEMMA StutterInv ==
    ASSUME Inv, UNCHANGED vars
    PROVE  Inv'
<1>1. TypeOK'
  BY DEF Inv, TypeOK, vars
<1>2. RetrievalInv'
  BY DEF Inv, RetrievalInv, ShareInv, ResponseInv, ReconstructInv, Bit, vars
<1> QED
  BY <1>1, <1>2 DEF Inv

-----------------------------------------------------------------------------
(* The theorems.                                                           *)

\* The invariant of the sharing, sending and adding loops is inductive.
THEOREM RetrievalInvariant == Spec => [](TypeOK /\ RetrievalInv)
<1>1. Inv /\ [Next]_vars => Inv'
  BY DrawInv, LastInv, SendInv, AddInv, StutterInv DEF Next, Stopped
<1> QED
  BY <1>1, InitInv, PTL DEF Spec, Inv

\* share() hands out shares that add up to the selection bit, for every modulus
\* and number of servers.
THEOREM SharesAddUpAlways == Spec => []SharesAddUp
<1>1. TypeOK /\ RetrievalInv => SharesAddUp
  <2> SUFFICES ASSUME TypeOK, RetrievalInv, pc = "send"
               PROVE  psum[NumServers + 1] % Mod = Bit(img)
    BY DEF SharesAddUp
  <2> DEFINE p == psum[NumServers + 1]
  <2>1. /\ p \in Int /\ Congruent(p, Bit(img)) /\ img \in Images
    BY CountsAssumption DEF TypeOK, RetrievalInv, ShareInv, Images
  <2> HIDE DEF p
  <2>2. p % Mod \in Field /\ Bit(img) \in Field
    BY <2>1, Residue, FieldElements
  <2>3. Congruent(p % Mod, Bit(img))
    BY <2>1, ResidueCongruent, CongruentBasics
  <2>4. p % Mod = Bit(img)
    BY <2>2, <2>3, CongruentField
  <2> QED
    BY <2>4 DEF p
<1> QED
  BY <1>1, RetrievalInvariant, PTL

\* The word reconstructed is the word of the wanted image, for every modulus,
\* database and number of servers and images, whatever the random shares are.
THEOREM RetrievedAlways == Spec => []Retrieved
<1>1. TypeOK /\ RetrievalInv => Retrieved
  <2> SUFFICES ASSUME TypeOK, RetrievalInv, pc = "done"
               PROVE  res = row[index]
    BY DEF Retrieved
  <2>1. res \in Field /\ row[index] \in Field /\ index \in Images
    BY DEF TypeOK
  <2>2. pos = NumServers /\ img = NumImages /\ Congruent(res, asum[pos + 1])
    BY DEF RetrievalInv, ReconstructInv
  <2>3. index < img
    BY <2>1, <2>2, CountsAssumption DEF Images
  <2>4. Congruent(asum[NumServers + 1], row[index])
    BY <2>3 DEF RetrievalInv, ResponseInv
  <2>5. Congruent(res, row[index])
    BY <2>2, <2>4, CongruentBasics
  <2> QED
    BY <2>1, <2>5, CongruentField
<1> QED
  BY <1>1, RetrievalInvariant, PTL
=============================================================================
