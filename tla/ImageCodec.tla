----------------------------- MODULE ImageCodec ------------------------------
(***************************************************************************)
(* The way of an image through a retrieval that reconstructs every word:   *)
(* utils::read_image cuts the file into words of NumBytes bytes, the       *)
(* server's encoder accepts at most Slots words, the client decodes Slots  *)
(* of them, and utils::write_image turns these into a file again.  A word  *)
(* is the sequence of its bytes.                                           *)
(***************************************************************************)
EXTENDS Integers, Sequences

CONSTANTS Files,     \* the contents image files may have
          NumBytes,  \* params::NUM_BYTES
          Slots      \* slots of a ciphertext, params::MOD_DEGREE

Bytes == 0..255

ASSUME FilesAssumption == Files \subseteq Seq(Bytes)
ASSUME NumBytesAssumption == NumBytes \in 1..8
ASSUME SlotsAssumption == Slots \in Nat \ {0}

VARIABLES file,    \* the image file; a missing file reads like an empty one
          it,      \* read_image's iterator, counted from buffer.begin()
          values,  \* the words read, then the words decoded
          bytes,   \* write_image's vector, in the end the output file
          pc

vars == <<file, it, values, bytes, pc>>

ZeroBytes(n) == [j \in 1..n |-> 0]
ZeroWord == ZeroBytes(NumBytes)

Init ==
    /\ file \in Files
    /\ it = 0 /\ values = <<>> /\ bytes = <<>>
    /\ pc = "read"

\* std::min(buffer.end() - it, num_bytes)
CopyLen == IF Len(file) - it < NumBytes THEN Len(file) - it ELSE NumBytes

\* The word memcpy leaves: its bytes, and zeros where the file has ended.
\* Mutants: the word is not zeroed before memcpy; its bytes are reversed.
WordUnpadded == [j \in 1..CopyLen |-> file[it + j]]
WordReversed == [j \in 1..NumBytes |->
                    IF NumBytes + 1 - j <= CopyLen
                    THEN file[it + NumBytes + 1 - j] ELSE 0]
WordAt == [j \in 1..NumBytes |-> IF j <= CopyLen THEN file[it + j] ELSE 0]

\* The condition of read_image's loop.
MoreStrict == it < Len(file)  \* mutant: the loop stops at the end of the file
More == it <= Len(file)

\* One iteration of read_image.
\* Mutant: the iterator advances by what was copied.
ReadWordByLen ==
    /\ pc = "read" /\ More
    /\ values' = Append(values, WordAt)
    /\ it' = it + CopyLen
    /\ UNCHANGED <<file, bytes, pc>>
ReadWord ==
    /\ pc = "read" /\ More
    /\ values' = Append(values, WordAt)
    /\ it' = it + NumBytes
    /\ UNCHANGED <<file, bytes, pc>>

\* multiply_plain_inplace: the encoder refuses more words than slots, the
\* evaluator refuses a plaintext that is all zero; decoding yields one word
\* per slot.
\* Mutant: transparent ciphertexts are allowed.
EncodableTransparent == Len(values) <= Slots
Encodable == /\ Len(values) <= Slots
             /\ \E k \in 1..Len(values) : values[k] # ZeroWord

Encode ==
    /\ pc = "read" /\ ~More
    /\ \/ /\ Encodable
          /\ values' = [k \in 1..Slots |->
                          IF k <= Len(values) THEN values[k] ELSE ZeroWord]
          /\ pc' = "write"
       \/ /\ ~Encodable
          /\ pc' = "threw"
          /\ UNCHANGED values
    /\ UNCHANGED <<file, it, bytes>>

\* One iteration of write_image's copying loop.
WriteWord ==
    /\ pc = "write" /\ Len(bytes) < NumBytes * Len(values)
    /\ bytes' = bytes \o values[Len(bytes) \div NumBytes + 1]
    /\ UNCHANGED <<file, it, values, pc>>

\* Remove trailing zeros: back() of an empty vector is undefined.
Strip ==
    /\ \/ pc = "write" /\ Len(bytes) = NumBytes * Len(values)
       \/ pc = "strip"
    /\ IF bytes = <<>> THEN /\ pc' = "undefined"
                            /\ UNCHANGED bytes
       ELSE IF bytes[Len(bytes)] = 0
            THEN /\ pc' = "strip"
                 /\ bytes' = SubSeq(bytes, 1, Len(bytes) - 1)
            ELSE /\ pc' = "written"
                 /\ UNCHANGED bytes
    /\ UNCHANGED <<file, it, values>>

Stopped == pc \in {"threw", "written", "undefined"} /\ UNCHANGED vars

Next == ReadWord \/ Encode \/ WriteWord \/ Strip \/ Stopped
Spec == Init /\ [][Next]_vars
FairSpec == Spec /\ WF_vars(ReadWord \/ Encode \/ WriteWord \/ Strip)

-----------------------------------------------------------------------------

Words == [1..NumBytes -> Bytes]

\* Every variable keeps its type: a word has NumBytes bytes.
TypeOK ==
    /\ file \in Seq(Bytes)
    /\ it \in Nat
    /\ values \in Seq(Words)
    /\ bytes \in Seq(Bytes)
    /\ pc \in {"read", "write", "strip", "threw", "written", "undefined"}

\* Where read_image's loop stands: it has read NumBytes bytes per word, and
\* began its last word inside the file or at its end.
ReadInv ==
    pc = "read" => /\ it = NumBytes * Len(values)
                   /\ it <= Len(file) + NumBytes

\* An image gets one word more than it fills whenever it fills its words, so
\* only images strictly shorter than a ciphertext's NumBytes * Slots bytes are
\* encoded; of the longer ones every one is refused, and nothing is truncated.
Capacity ==
    /\ pc \in {"write", "strip", "written"} => Len(file) < NumBytes * Slots
    /\ pc = "threw" => \/ Len(file) >= NumBytes * Slots
                       \/ \A j \in 1..Len(file) : file[j] = 0

\* The output file is the image up to the image's own trailing zero bytes: the
\* same file for every image that ends in another byte, as a JPEG does.
RoundTrip ==
    pc = "written" =>
        /\ Len(bytes) <= Len(file)
        /\ \A j \in 1..Len(file) :
              IF j <= Len(bytes) THEN bytes[j] = file[j] ELSE file[j] = 0
        /\ file[Len(file)] # 0 => bytes = file

\* write_image never empties its vector: the server has refused the images
\* whose words are all zero.
NeverEmptied == pc # "undefined"

\* read_image and write_image end, with a file or with a refusal.
Ends == <>(pc \in {"threw", "written"})
=============================================================================
