-------------------------- MODULE ImageCodec_proofs --------------------------
(***************************************************************************)
(* The properties of ImageCodec for every file, word size and number of    *)
(* slots.  The invariant says of every word and of every byte of the       *)
(* output which byte of the file it is, and how far each loop has come.    *)
(***************************************************************************)
EXTENDS ImageCodec, SequenceTheorems, TLAPS

\* The byte i of the file, counted from 1, and the zeros behind it.
FileByte(i) == IF i \in 1..Len(file) THEN file[i] ELSE 0

\* Byte j of word k is the byte NumBytes * (k - 1) + j of the file.
WordsInv ==
    \A k \in 1..Len(values) : \A j \in 1..NumBytes :
        values[k][j] = FileByte(NumBytes * (k - 1) + j)

\* The output is the beginning of the file, with zeros behind the file.
BytesInv == \A i \in 1..Len(bytes) : bytes[i] = FileByte(i)

\* What the output leaves out is zero.
RestZero == \A i \in 1..Len(file) : i > Len(bytes) => file[i] = 0
SomeByte == \E i \in 1..Len(file) : file[i] # 0

CodecInv ==
    /\ TypeOK /\ WordsInv /\ BytesInv
    /\ pc = "read" => /\ it = NumBytes * Len(values)
                      /\ it <= Len(file) + NumBytes
                      /\ bytes = <<>>
    /\ pc \in {"write", "strip"} => /\ Len(values) = Slots
                                    /\ SomeByte
    /\ pc \in {"write", "strip", "written"} => Len(file) < NumBytes * Slots
    /\ pc = "write" => \E m \in 0..Slots : Len(bytes) = NumBytes * m
    /\ pc \in {"strip", "written"} => RestZero
    /\ pc = "written" => Len(bytes) > 0 /\ bytes[Len(bytes)] # 0
    /\ pc = "threw" => \/ Len(file) >= NumBytes * Slots
                       \/ \A j \in 1..Len(file) : file[j] = 0
    /\ pc # "undefined"

-----------------------------------------------------------------------------
(* Arithmetic.                                                             *)

\* Multiplication by the word size is monotone.
LEMMA Scaled ==
    ASSUME NEW a \in Int, NEW b \in Int, a <= b
    PROVE  /\ NumBytes * a \in Int /\ NumBytes * b \in Int
           /\ NumBytes * a <= NumBytes * b
           /\ NumBytes * (a + 1) = NumBytes * a + NumBytes
<1>1. \/ NumBytes = 1 \/ NumBytes = 2 \/ NumBytes = 3 \/ NumBytes = 4
      \/ NumBytes = 5 \/ NumBytes = 6 \/ NumBytes = 7 \/ NumBytes = 8
  BY NumBytesAssumption
<1> QED BY <1>1

\* Every byte lies in one word, at one place.
LEMMA Placed ==
    ASSUME NEW i \in Nat \ {0}
    PROVE  \E k \in Nat \ {0}, j \in 1..NumBytes : i = NumBytes * (k - 1) + j
<1>1. \/ NumBytes = 1 \/ NumBytes = 2 \/ NumBytes = 3 \/ NumBytes = 4
      \/ NumBytes = 5 \/ NumBytes = 6 \/ NumBytes = 7 \/ NumBytes = 8
  BY NumBytesAssumption
<1> DEFINE k == (i - 1) \div NumBytes + 1
           j == ((i - 1) % NumBytes) + 1
<1>2. k \in Nat \ {0} /\ j \in 1..NumBytes /\ i = NumBytes * (k - 1) + j
  BY <1>1
<1> QED BY <1>2

\* The quotient of a multiple of the word size.
LEMMA Quotient ==
    ASSUME NEW m \in Nat
    PROVE  (NumBytes * m) \div NumBytes = m
<1>1. \/ NumBytes = 1 \/ NumBytes = 2 \/ NumBytes = 3 \/ NumBytes = 4
      \/ NumBytes = 5 \/ NumBytes = 6 \/ NumBytes = 7 \/ NumBytes = 8
  BY NumBytesAssumption
<1> QED BY <1>1

-----------------------------------------------------------------------------
(* read_image.                                                             *)

LEMMA InitCodec == Init => CodecInv
<1> SUFFICES ASSUME Init PROVE CodecInv
  OBVIOUS
<1>1. file \in Seq(Bytes) /\ Len(file) \in Nat
  BY FilesAssumption DEF Init
<1>2. NumBytes \in Nat
  BY NumBytesAssumption
<1> QED BY <1>1, <1>2 DEF Init, CodecInv, TypeOK, WordsInv, BytesInv

\* The word that one iteration reads.
LEMMA WordRead ==
    ASSUME TypeOK, pc = "read", More, it = NumBytes * Len(values)
    PROVE  /\ WordAt \in Words
           /\ \A j \in 1..NumBytes : WordAt[j] = FileByte(it + j)
<1>1. file \in Seq(Bytes) /\ it \in Nat /\ Len(file) \in Nat /\ NumBytes \in Nat
  BY NumBytesAssumption DEF TypeOK
<1>2. it <= Len(file)
  BY DEF More
<1>3. \A j \in 1..NumBytes : WordAt[j] = FileByte(it + j)
  BY <1>1, <1>2 DEF WordAt, CopyLen, FileByte
<1>4. \A i \in Nat : FileByte(i) \in Bytes
  <2>1. 0 \in Bytes
    BY DEF Bytes
  <2>2. \A i \in 1..Len(file) : file[i] \in Bytes
    BY <1>1
  <2> QED BY <2>1, <2>2 DEF FileByte
<1>5. \A j \in 1..NumBytes : it + j \in Nat
  BY <1>1
<1>6. WordAt = [j \in 1..NumBytes |-> WordAt[j]]
  BY DEF WordAt
<1>7. WordAt \in Words
  BY <1>3, <1>4, <1>5, <1>6 DEF Words
<1> QED BY <1>3, <1>7

LEMMA ReadWordCodec ==
    ASSUME CodecInv, ReadWord
    PROVE  CodecInv'
<1> DEFINE n == Len(values)
<1>1. /\ pc = "read" /\ pc' = "read" /\ More
      /\ values' = Append(values, WordAt) /\ it' = it + NumBytes
      /\ file' = file /\ bytes' = bytes
  BY DEF ReadWord
<1>2. /\ TypeOK /\ WordsInv /\ BytesInv
      /\ it = NumBytes * n /\ it <= Len(file) + NumBytes /\ bytes = <<>>
  BY <1>1 DEF CodecInv
<1>3. /\ WordAt \in Words
      /\ \A j \in 1..NumBytes : WordAt[j] = FileByte(it + j)
  BY <1>1, <1>2, WordRead
<1>4. file \in Seq(Bytes) /\ it \in Nat /\ values \in Seq(Words) /\ n \in Nat /\ NumBytes \in Nat
  BY <1>2, NumBytesAssumption DEF TypeOK
<1>5. values' \in Seq(Words) /\ Len(values') = n + 1
  BY <1>1, <1>3, <1>4
<1>6. TypeOK'
  BY <1>1, <1>2, <1>4, <1>5 DEF TypeOK
<1>7. WordsInv'
  <2> SUFFICES ASSUME NEW k \in 1..n + 1, NEW j \in 1..NumBytes
               PROVE  values'[k][j] = FileByte(NumBytes * (k - 1) + j)
    BY <1>1, <1>5 DEF WordsInv, FileByte
  <2>1. CASE k <= n
    <3>1. values'[k] = values[k] /\ k \in 1..Len(values)
      BY <1>1, <1>4, <2>1
    <3> QED BY <1>2, <3>1 DEF WordsInv
  <2>2. CASE k = n + 1
    <3>1. values'[k] = WordAt /\ k - 1 = n
      BY <1>1, <1>4, <2>2
    <3> QED BY <1>2, <1>3, <3>1
  <2> QED BY <1>4, <2>1, <2>2
<1>8. it' = NumBytes * Len(values') /\ it' <= Len(file) + NumBytes
  <2>1. NumBytes * (n + 1) = NumBytes * n + NumBytes
    BY <1>4, Scaled
  <2>2. it <= Len(file)
    BY <1>1 DEF More
  <2>3. Len(file) \in Nat
    BY <1>4
  <2> QED BY <1>1, <1>2, <1>4, <1>5, <2>1, <2>2, <2>3
<1>9. BytesInv'
  BY <1>1, <1>2 DEF BytesInv
<1> QED BY <1>1, <1>2, <1>6, <1>7, <1>8, <1>9 DEF CodecInv

\* The bytes of the words that have been read once the loop is over.
LEMMA AllRead ==
    ASSUME CodecInv, pc = "read", ~More
    PROVE  /\ Len(values) \in Nat /\ Len(file) \in Nat
           /\ Len(file) < NumBytes * Len(values)
           /\ NumBytes * (Len(values) - 1) <= Len(file)
           /\ \A i \in 1..Len(file) : \E k \in 1..Len(values), j \in 1..NumBytes :
                 i = NumBytes * (k - 1) + j /\ values[k][j] = file[i]
<1> DEFINE n == Len(values)
<1>1. n \in Nat /\ Len(file) \in Nat /\ it \in Nat /\ NumBytes \in Nat
  BY NumBytesAssumption DEF CodecInv, TypeOK
<1>2. it = NumBytes * n /\ it <= Len(file) + NumBytes /\ it > Len(file)
  BY <1>1 DEF CodecInv, More
<1>3. NumBytes * n = NumBytes * (n - 1) + NumBytes /\ NumBytes * (n - 1) \in Int
  BY <1>1, Scaled, n - 1 <= n - 1, (n - 1) + 1 = n
<1>4. ASSUME NEW i \in 1..Len(file)
      PROVE  \E k \in 1..n, j \in 1..NumBytes :
                 i = NumBytes * (k - 1) + j /\ values[k][j] = file[i]
  <2>1. PICK k \in Nat \ {0}, j \in 1..NumBytes : i = NumBytes * (k - 1) + j
    <3>1. i \in Nat \ {0}
      BY <1>1
    <3> QED BY <3>1, Placed, Zenon
  <2>2. k <= n
    <3> SUFFICES ASSUME n <= k - 1 PROVE FALSE
      BY <1>1
    <3>1. n \in Int /\ k - 1 \in Int /\ n <= k - 1
      BY <1>1
    <3>2. NumBytes * n <= NumBytes * (k - 1) /\ NumBytes * (k - 1) \in Int
      BY <3>1, Scaled
    <3> QED BY <1>1, <1>2, <2>1, <3>2
  <2>3. values[k][j] = FileByte(i)
    BY <1>1, <2>1, <2>2 DEF CodecInv, WordsInv
  <2>4. k \in 1..n
    BY <1>1, <2>2
  <2> QED BY <2>1, <2>3, <2>4 DEF FileByte
<1> QED BY <1>1, <1>2, <1>3, <1>4

\* A word of zeros is behind the file, or the file has zeros there.
LEMMA EncodeCodec ==
    ASSUME CodecInv, Encode
    PROVE  CodecInv'
<1> DEFINE n == Len(values)
<1>1. /\ pc = "read" /\ ~More
      /\ file' = file /\ it' = it /\ bytes' = bytes
  BY DEF Encode
<1>2. TypeOK /\ WordsInv /\ bytes = <<>>
  BY <1>1 DEF CodecInv
<1>3. /\ n \in Nat /\ Len(file) \in Nat
      /\ Len(file) < NumBytes * n /\ NumBytes * (n - 1) <= Len(file)
      /\ \A i \in 1..Len(file) : \E k \in 1..n, j \in 1..NumBytes :
            i = NumBytes * (k - 1) + j /\ values[k][j] = file[i]
  BY <1>1, AllRead
<1>4. NumBytes \in Nat /\ Slots \in Nat \ {0} /\ values \in Seq(Words) /\ file \in Seq(Bytes)
  BY <1>2, NumBytesAssumption, SlotsAssumption DEF TypeOK
<1>5. BytesInv'
  BY <1>1, <1>2 DEF BytesInv
<1>6. ZeroWord \in Words /\ \A j \in 1..NumBytes : ZeroWord[j] = 0
  BY DEF ZeroWord, ZeroBytes, Words, Bytes
<1>7. CASE ~Encodable
  <2>1. pc' = "threw" /\ values' = values
    BY <1>7 DEF Encode
  <2>2. Len(file) >= NumBytes * Slots \/ \A i \in 1..Len(file) : file[i] = 0
    <3>1. CASE n > Slots
      <4>1. Slots \in Int /\ n - 1 \in Int /\ Slots <= n - 1
        BY <1>3, <1>4, <3>1
      <4>2. NumBytes * Slots <= NumBytes * (n - 1) /\ NumBytes * Slots \in Int /\ NumBytes * (n - 1) \in Int
        BY <4>1, Scaled
      <4> QED BY <1>3, <4>2
    <3>2. CASE \A k \in 1..n : values[k] = ZeroWord
      BY <1>3, <1>6, <3>2
    <3> QED BY <1>3, <1>4, <1>7, <3>1, <3>2 DEF Encodable
  <2>3. TypeOK'
    BY <1>1, <1>2, <2>1 DEF TypeOK
  <2>4. WordsInv'
    BY <1>1, <1>2, <2>1 DEF WordsInv, FileByte
  <2> QED BY <1>1, <1>5, <2>1, <2>2, <2>3, <2>4 DEF CodecInv
<1>8. CASE Encodable
  <2>1. /\ pc' = "write" /\ n <= Slots
        /\ values' = [k \in 1..Slots |-> IF k <= n THEN values[k] ELSE ZeroWord]
    BY <1>8 DEF Encode, Encodable
  <2>2. \A k \in 1..Slots : values'[k] \in Words
    BY <1>3, <1>4, <1>6, <2>1
  <2>3. values' \in Seq(Words) /\ Len(values') = Slots
    BY <1>4, <2>1, <2>2
  <2>4. TypeOK'
    BY <1>1, <1>2, <2>1, <2>3 DEF TypeOK
  <2>5. WordsInv'
    <3> SUFFICES ASSUME NEW k \in 1..Slots, NEW j \in 1..NumBytes
                 PROVE  values'[k][j] = FileByte(NumBytes * (k - 1) + j)
      BY <1>1, <2>3 DEF WordsInv, FileByte
    <3>1. CASE k <= n
      <4>1. k \in 1..n /\ values'[k] = values[k]
        BY <1>3, <1>4, <2>1, <3>1
      <4> QED BY <1>2, <4>1 DEF WordsInv
    <3>2. CASE k > n
      <4>0. n \in Int /\ k - 1 \in Int /\ n <= k - 1
        BY <1>3, <1>4, <3>2
      <4>1. NumBytes * n <= NumBytes * (k - 1) /\ NumBytes * n \in Int /\ NumBytes * (k - 1) \in Int
        BY <4>0, Scaled
      <4>2. NumBytes * (k - 1) + j > Len(file)
        BY <1>3, <1>4, <4>1
      <4>3. values'[k] = ZeroWord
        BY <1>3, <1>4, <2>1, <3>2
      <4> QED BY <1>3, <1>4, <1>6, <4>1, <4>2, <4>3 DEF FileByte
    <3> QED BY <1>3, <1>4, <3>1, <3>2
  <2>6. SomeByte
    <3>1. PICK k \in 1..n : values[k] # ZeroWord
      BY <1>8 DEF Encodable
    <3>2. values[k] \in Words
      BY <1>3, <1>4
    <3>3. PICK j \in 1..NumBytes : values[k][j] # 0
      <4>1. ASSUME \A j \in 1..NumBytes : values[k][j] = 0 PROVE FALSE
        <5>1. values[k] = [j \in 1..NumBytes |-> 0]
          BY <3>2, <4>1 DEF Words
        <5> QED BY <3>1, <5>1 DEF ZeroWord, ZeroBytes
      <4> QED BY <4>1
    <3>4. values[k][j] = FileByte(NumBytes * (k - 1) + j)
      BY <1>2 DEF WordsInv
    <3> QED BY <3>3, <3>4 DEF FileByte, SomeByte
  <2>7. Len(file) < NumBytes * Slots
    <3>1. n \in Int /\ Slots \in Int /\ n <= Slots
      BY <1>3, <1>4, <2>1
    <3>2. NumBytes * n <= NumBytes * Slots /\ NumBytes * n \in Int /\ NumBytes * Slots \in Int
      BY <3>1, Scaled
    <3> QED BY <1>3, <3>2
  <2>8. \E m \in 0..Slots : Len(bytes') = NumBytes * m
    <3>1. 0 \in 0..Slots /\ Len(bytes') = NumBytes * 0
      BY <1>1, <1>2, <1>4
    <3> QED BY <3>1
  <2> QED BY <1>1, <1>5, <2>1, <2>3, <2>4, <2>5, <2>6, <2>7, <2>8 DEF CodecInv, SomeByte
<1> QED BY <1>7, <1>8

-----------------------------------------------------------------------------
(* write_image.                                                            *)

LEMMA WriteWordCodec ==
    ASSUME CodecInv, WriteWord
    PROVE  CodecInv'
<1>1. /\ pc = "write" /\ pc' = "write" /\ Len(bytes) < NumBytes * Len(values)
      /\ bytes' = bytes \o values[Len(bytes) \div NumBytes + 1]
      /\ file' = file /\ it' = it /\ values' = values
  BY DEF WriteWord
<1>2. /\ TypeOK /\ WordsInv /\ BytesInv /\ Len(values) = Slots /\ SomeByte
      /\ Len(file) < NumBytes * Slots
  BY <1>1 DEF CodecInv
<1>3. PICK m \in 0..Slots : Len(bytes) = NumBytes * m
  BY <1>1 DEF CodecInv
<1>4. NumBytes \in Nat /\ Slots \in Nat /\ m \in Nat /\ bytes \in Seq(Bytes) /\ values \in Seq(Words)
  BY <1>2, <1>3, NumBytesAssumption, SlotsAssumption DEF TypeOK
<1>5. m < Slots
  <2>1. m # Slots
    BY <1>1, <1>2, <1>3, <1>4
  <2> QED BY <1>3, <1>4, <2>1
<1>6. Len(bytes) \div NumBytes = m
  BY <1>3, <1>4, Quotient
<1>7. /\ values[m + 1] \in Words /\ m + 1 \in 1..Len(values)
      /\ bytes' = bytes \o values[m + 1]
  <2>1. m + 1 \in 1..Len(values)
    BY <1>2, <1>4, <1>5
  <2>2. values[m + 1] \in Words
    BY <1>4, <2>1
  <2> QED BY <1>1, <1>6, <2>1, <2>2
<1>8. values[m + 1] \in Seq(Bytes) /\ Len(values[m + 1]) = NumBytes
  BY <1>4, <1>7 DEF Words
<1>9. /\ bytes' \in Seq(Bytes) /\ Len(bytes') = Len(bytes) + NumBytes
      /\ \A i \in 1..Len(bytes') :
            bytes'[i] = IF i <= Len(bytes) THEN bytes[i] ELSE values[m + 1][i - Len(bytes)]
  <2> DEFINE w == values[m + 1]
  <2> HIDE DEF w
  <2>1. w \in Seq(Bytes) /\ bytes \in Seq(Bytes) /\ Len(w) = NumBytes /\ bytes' = bytes \o w
    BY <1>4, <1>7, <1>8 DEF w
  <2>2. /\ bytes' \in Seq(Bytes) /\ Len(bytes') = Len(bytes) + NumBytes
        /\ \A i \in 1..Len(bytes') :
              bytes'[i] = IF i <= Len(bytes) THEN bytes[i] ELSE w[i - Len(bytes)]
    <3>1. Len(bytes) \in Nat /\ NumBytes \in Nat
      BY <1>4
    <3>2. /\ bytes \o w \in Seq(Bytes) /\ Len(bytes \o w) = Len(bytes) + Len(w)
          /\ \A i \in 1..Len(bytes) + Len(w) :
                (bytes \o w)[i] = IF i <= Len(bytes) THEN bytes[i] ELSE w[i - Len(bytes)]
      BY <2>1, ConcatProperties, Zenon
    <3> QED BY <2>1, <3>1, <3>2
  <2> QED BY <2>2 DEF w
<1>10. BytesInv'
  <2> SUFFICES ASSUME NEW i \in 1..Len(bytes') PROVE bytes'[i] = FileByte(i)
    BY <1>1 DEF BytesInv, FileByte
  <2>1. CASE i <= Len(bytes)
    BY <1>2, <1>4, <1>9, <2>1 DEF BytesInv
  <2>2. CASE i > Len(bytes)
    <3>1. i - Len(bytes) \in 1..NumBytes /\ Len(bytes) \in Nat
      BY <1>4, <1>9, <2>2
    <3>2. values[m + 1][i - Len(bytes)] = FileByte(NumBytes * ((m + 1) - 1) + (i - Len(bytes)))
      BY <1>2, <1>7, <3>1 DEF WordsInv
    <3>3. (m + 1) - 1 = m /\ Len(bytes) + (i - Len(bytes)) = i
      BY <1>4, <3>1
    <3>4. values[m + 1][i - Len(bytes)] = FileByte(i)
      BY <1>3, <3>2, <3>3
    <3> QED BY <1>4, <1>9, <2>2, <3>1, <3>4
  <2> QED BY <1>4, <1>9, <2>1, <2>2
<1>11. \E l \in 0..Slots : Len(bytes') = NumBytes * l
  <2>1. NumBytes * (m + 1) = NumBytes * m + NumBytes
    BY <1>4, Scaled
  <2>2. m + 1 \in 0..Slots /\ Len(bytes') = NumBytes * (m + 1)
    BY <1>3, <1>4, <1>5, <1>9, <2>1
  <2> QED BY <2>2
<1>12. TypeOK'
  BY <1>1, <1>2, <1>9 DEF TypeOK
<1>13. WordsInv'
  BY <1>1, <1>2 DEF WordsInv, FileByte
<1> QED BY <1>1, <1>2, <1>10, <1>11, <1>12, <1>13 DEF CodecInv, SomeByte

LEMMA StripCodec ==
    ASSUME CodecInv, Strip
    PROVE  CodecInv'
<1>1. /\ pc \in {"write", "strip"} /\ (pc = "write" => Len(bytes) = NumBytes * Len(values))
      /\ file' = file /\ it' = it /\ values' = values
  BY DEF Strip
<1>2. /\ TypeOK /\ WordsInv /\ BytesInv /\ Len(values) = Slots /\ SomeByte
      /\ Len(file) < NumBytes * Slots
  BY <1>1 DEF CodecInv
<1>3. /\ Len(file) \in Nat /\ file \in Seq(Bytes) /\ bytes \in Seq(Bytes) /\ Len(bytes) \in Nat
  BY <1>2 DEF TypeOK
<1>4. RestZero
  <2>1. CASE pc = "strip"
    BY <2>1 DEF CodecInv
  <2>2. CASE pc = "write"
    BY <1>1, <1>2, <1>3, <2>2 DEF RestZero
  <2> QED BY <1>1, <2>1, <2>2
<1>5. Len(bytes) > 0 /\ bytes # <<>>
  <2>1. PICK i \in 1..Len(file) : file[i] # 0
    BY <1>2 DEF SomeByte
  <2> QED BY <1>3, <1>4, <2>1 DEF RestZero
<1>6. WordsInv'
  BY <1>1, <1>2 DEF WordsInv, FileByte
<1>7. CASE bytes[Len(bytes)] = 0
  <2>1. pc' = "strip" /\ bytes' = SubSeq(bytes, 1, Len(bytes) - 1)
    BY <1>5, <1>7 DEF Strip
  <2>2. /\ bytes' \in Seq(Bytes) /\ Len(bytes') = Len(bytes) - 1
        /\ \A i \in 1..Len(bytes') : bytes'[i] = bytes[i]
    <3> DEFINE b == Len(bytes) - 1
    <3>1. bytes \in Seq(Bytes) /\ b \in 0..Len(bytes)
      BY <1>3, <1>5
    <3>2. bytes' = SubSeq(bytes, 1, b)
      BY <2>1
    <3> HIDE DEF b
    <3>3. bytes' \in Seq(Bytes) /\ Len(bytes') = b /\ \A i \in 1..b : bytes'[i] = bytes[i]
      BY <3>1, <3>2
    <3> QED BY <3>3 DEF b
  <2>3. BytesInv'
    BY <1>1, <1>2, <1>3, <2>2 DEF BytesInv, FileByte
  <2>4. RestZero'
    <3> SUFFICES ASSUME NEW i \in 1..Len(file), i > Len(bytes') PROVE file[i] = 0
      BY <1>1 DEF RestZero
    <3>1. CASE i = Len(bytes)
      BY <1>2, <1>3, <1>7, <3>1 DEF BytesInv, FileByte
    <3>2. CASE i > Len(bytes)
      BY <1>4, <3>2 DEF RestZero
    <3> QED BY <1>3, <2>2, <3>1, <3>2
  <2>5. TypeOK'
    BY <1>1, <1>2, <2>1, <2>2 DEF TypeOK
  <2> QED BY <1>1, <1>2, <1>6, <2>1, <2>3, <2>4, <2>5 DEF CodecInv, SomeByte
<1>8. CASE bytes[Len(bytes)] # 0
  <2>1. pc' = "written" /\ bytes' = bytes
    BY <1>5, <1>8 DEF Strip
  <2>2. TypeOK' /\ BytesInv' /\ RestZero'
    BY <1>1, <1>2, <1>4, <2>1 DEF TypeOK, BytesInv, FileByte, RestZero
  <2> QED BY <1>1, <1>2, <1>5, <1>6, <1>8, <2>1, <2>2 DEF CodecInv
<1> QED BY <1>7, <1>8

-----------------------------------------------------------------------------
(* Theorems.                                                               *)

LEMMA StutterCodec ==
    ASSUME CodecInv, UNCHANGED vars
    PROVE  CodecInv'
BY DEF CodecInv, TypeOK, WordsInv, BytesInv, RestZero, SomeByte, FileByte, vars

LEMMA CodecInvariant == Spec => []CodecInv
<1>1. CodecInv /\ [Next]_vars => CodecInv'
  <2> SUFFICES ASSUME CodecInv, [Next]_vars PROVE CodecInv'
    OBVIOUS
  <2>1. CASE ReadWord
    BY <2>1, ReadWordCodec
  <2>2. CASE Encode
    BY <2>2, EncodeCodec
  <2>3. CASE WriteWord
    BY <2>3, WriteWordCodec
  <2>4. CASE Strip
    BY <2>4, StripCodec
  <2>5. CASE Stopped
    BY <2>5, StutterCodec DEF Stopped
  <2>6. CASE UNCHANGED vars
    BY <2>6, StutterCodec
  <2> QED BY <2>1, <2>2, <2>3, <2>4, <2>5, <2>6 DEF Next
<1> QED BY <1>1, InitCodec, PTL DEF Spec

\* Every variable of the codec keeps its type (utils.cpp).
THEOREM TypeCorrect == Spec => []TypeOK
<1>1. CodecInv => TypeOK
  BY DEF CodecInv
<1> QED BY <1>1, CodecInvariant, PTL

\* read_image's iterator is NumBytes times the words read (utils.cpp:20-27).
THEOREM ReadLoop == Spec => []ReadInv
<1>1. CodecInv => ReadInv
  BY DEF CodecInv, ReadInv
<1> QED BY <1>1, CodecInvariant, PTL

\* An image is encoded only if it is shorter than a ciphertext, and refused only
\* if it is not or has no byte but zeros (utils.cpp:20-27, SEAL's encoder).
THEOREM CapacityHolds == Spec => []Capacity
<1>1. CodecInv => Capacity
  BY DEF CodecInv, Capacity
<1> QED BY <1>1, CodecInvariant, PTL

\* The output of write_image is the image up to its own trailing zeros, for
\* every file (utils.cpp:11-51).
THEOREM RoundTripHolds == Spec => []RoundTrip
<1>1. CodecInv => RoundTrip
  <2> SUFFICES ASSUME CodecInv, pc = "written" PROVE RoundTrip
    BY DEF RoundTrip
  <2>1. /\ file \in Seq(Bytes) /\ bytes \in Seq(Bytes) /\ BytesInv /\ RestZero
        /\ Len(bytes) > 0 /\ bytes[Len(bytes)] # 0
    BY DEF CodecInv, TypeOK
  <2>2. Len(file) \in Nat /\ Len(bytes) \in Nat
    BY <2>1
  <2>3. bytes[Len(bytes)] = FileByte(Len(bytes))
    BY <2>1, <2>2 DEF BytesInv
  <2>4. Len(bytes) <= Len(file)
    BY <2>1, <2>2, <2>3 DEF FileByte
  <2>5. \A j \in 1..Len(file) : IF j <= Len(bytes) THEN bytes[j] = file[j] ELSE file[j] = 0
    BY <2>1, <2>2 DEF BytesInv, RestZero, FileByte
  <2>6. ASSUME file[Len(file)] # 0 PROVE bytes = file
    <3>1. Len(bytes) = Len(file)
      BY <2>1, <2>2, <2>4, <2>6 DEF RestZero
    <3> QED BY <2>1, <2>2, <2>5, <3>1
  <2> QED BY <2>4, <2>5, <2>6 DEF RoundTrip
<1> QED BY <1>1, CodecInvariant, PTL

\* write_image never takes back() of an empty vector (utils.cpp:46).
THEOREM NeverEmptiedHolds == Spec => []NeverEmptied
<1>1. CodecInv => NeverEmptied
  BY DEF CodecInv, NeverEmptied
<1> QED BY <1>1, CodecInvariant, PTL
=============================================================================
