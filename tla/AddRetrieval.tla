---------------------------- MODULE AddRetrieval ----------------------------
(***************************************************************************)
(* What a retrieval with additive sharing computes in one slot of the      *)
(* ciphertexts (all slots are treated alike): PIRClient::fetch_image       *)
(* shares the selection bit of every image with AddShare::share, each      *)
(* server multiplies its share by the word its row has in the slot and     *)
(* adds it to its response, and AddShare::reconstruct adds the responses.  *)
(* Which request meets which row is the business of PirSession; here the   *)
(* shares of image i reach all servers in one step.                        *)
(***************************************************************************)
EXTENDS Integers, Sequences

CONSTANTS Mod,        \* the field's modulus, params::PLAINTEXT_MOD
          Word,       \* 2^64, the number of values of a uint64_t
          NumServers,
          NumImages

\* Share's constructor admits moduli of 2 to 60 bits.
ASSUME ModAssumption == Mod \in Nat /\ Mod >= 2
ASSUME WordAssumption == Word \in Nat /\ 16 * Mod <= Word
ASSUME CountsAssumption == NumServers \in Nat \ {0} /\ NumImages \in Nat \ {0}

Field == 0..Mod - 1
Servers == 1..NumServers
Images == 0..NumImages - 1

VARIABLES
    row,     \* row[i]: the word of image i in this slot
    index,   \* the image wanted
    img,     \* i of fetch_image
    shares,  \* shares of share(), then what fetch_image sends
    last,    \* last_share_value of share()
    acc,     \* acc[s]: the slot of server s's response
    pos,     \* how many responses reconstruct() has added
    res,     \* res of reconstruct()
    pc,
    psum,    \* history: psum[k+1] is the sum of the first k shares,
    asum     \* asum[k+1] that of the first k responses, neither reduced

vars == <<row, index, img, shares, last, acc, pos, res, pc, psum, asum>>

-----------------------------------------------------------------------------
(* Share's field operations, on uint64_t.                                  *)

FieldAdd(a1, a2) == ((a1 + a2) % Word) % Mod

FieldSubReversed(s1, s2) == IF s2 < s1 THEN Mod + s2 - s1 ELSE s2 - s1  \* mutant
FieldSub(s1, s2) == IF s1 < s2 THEN (Mod + s1 - s2) % Word ELSE s1 - s2

\* get_random_field_element: drawing until the masked value is below mod leaves
\* every element of the field possible.
RandomFieldElement == Field

\* A slot of multiply_plain_inplace and of add_inplace.
SlotMul(c, p) == (c * p) % Mod
SlotAdd(c1, c2) == (c1 + c2) % Mod

\* The selection bit fetch_image shares for image i.
BitInverted(i) == IF i = index THEN 0 ELSE 1  \* mutant
Bit(i) == IF i = index THEN 1 ELSE 0

-----------------------------------------------------------------------------

Init ==
    /\ row \in [Images -> Field] /\ index \in Images
    /\ img = 0 /\ shares = <<>> /\ last = Bit(0)
    /\ acc = [s \in Servers |-> 0]
    /\ pos = 0 /\ res = 0
    /\ pc = "share"
    /\ psum = <<0>> /\ asum = [k \in 1..NumServers + 1 |-> 0]

\* One iteration of share()'s loop.
DrawShare ==
    /\ pc = "share" /\ Len(shares) + 1 < NumServers
    /\ \E qj \in RandomFieldElement :
          /\ shares' = Append(shares, qj)
          /\ last' = FieldSub(last, qj)
          /\ psum' = Append(psum, psum[Len(psum)] + qj)
    /\ UNCHANGED <<row, index, img, acc, pos, res, pc, asum>>

\* shares[num_shares] = last_share_value, and share() returns.
LastShare ==
    /\ pc = "share" /\ Len(shares) + 1 = NumServers
    /\ shares' = Append(shares, last)
    /\ psum' = Append(psum, psum[Len(psum)] + last)
    /\ pc' = "send"
    /\ UNCHANGED <<row, index, img, last, acc, pos, res, asum>>

\* Every server multiplies its share by row img and adds it to its response;
\* fetch_image goes on to the next image.
SendShares ==
    /\ pc = "send"
    /\ acc' = [s \in Servers |-> SlotAdd(acc[s], SlotMul(shares[s], row[img]))]
    /\ asum' = [k \in 1..NumServers + 1 |-> asum[k] + psum[k] * row[img]]
    /\ img' = img + 1
    /\ shares' = <<>> /\ psum' = <<0>>
    /\ IF img + 1 < NumImages THEN pc' = "share" /\ last' = Bit(img + 1)
                              ELSE pc' = "add" /\ last' = 0
    /\ UNCHANGED <<row, index, pos, res>>

\* One iteration of reconstruct().
\* Mutant: the first response is skipped.
AddResponseLate ==
    /\ pc = "add" /\ pos < NumServers
    /\ res' = IF pos = 0 THEN res ELSE FieldAdd(acc[pos + 1], res)
    /\ pos' = pos + 1
    /\ pc' = IF pos + 1 = NumServers THEN "done" ELSE "add"
    /\ UNCHANGED <<row, index, img, shares, last, acc, psum, asum>>
AddResponse ==
    /\ pc = "add" /\ pos < NumServers
    /\ res' = FieldAdd(acc[pos + 1], res)
    /\ pos' = pos + 1
    /\ pc' = IF pos + 1 = NumServers THEN "done" ELSE "add"
    /\ UNCHANGED <<row, index, img, shares, last, acc, psum, asum>>

Stopped == pc = "done" /\ UNCHANGED vars

Next == DrawShare \/ LastShare \/ SendShares \/ AddResponse \/ Stopped
Spec == Init /\ [][Next]_vars

-----------------------------------------------------------------------------

\* Every variable keeps its type: words, shares and responses are field elements.
TypeOK ==
    /\ row \in [Images -> Field] /\ index \in Images
    /\ img \in 0..NumImages
    /\ shares \in Seq(Field) /\ last \in Field
    /\ acc \in [Servers -> Field]
    /\ pos \in 0..NumServers /\ res \in Field
    /\ pc \in {"share", "send", "add", "done"}
    /\ psum \in Seq(Int) /\ asum \in [1..NumServers + 1 -> Int]

\* x and y are the same element of the field.
Congruent(x, y) == (x % Mod) = (y % Mod)

\* What share() has handed out and what it has left make up the bit.
ShareInv ==
    /\ Len(psum) = Len(shares) + 1 /\ psum[1] = 0
    /\ \A k \in 1..Len(shares) : psum[k + 1] = psum[k] + shares[k]
    /\ pc = "share" => /\ img < NumImages /\ Len(shares) < NumServers
                       /\ Congruent(psum[Len(shares) + 1] + last, Bit(img))
    /\ pc = "send" => /\ img < NumImages /\ Len(shares) = NumServers
                      /\ Congruent(psum[NumServers + 1], Bit(img))

\* The responses add up to the wanted word once its image has been dealt with.
ResponseInv ==
    /\ asum[1] = 0
    /\ \A s \in Servers : Congruent(asum[s] + acc[s], asum[s + 1])
    /\ Congruent(asum[NumServers + 1], IF index < img THEN row[index] ELSE 0)

ReconstructInv ==
    /\ pc \in {"add", "done"} => img = NumImages
    /\ pc \in {"share", "send"} => pos = 0 /\ res = 0
    /\ pc = "add" => pos < NumServers
    /\ pc = "done" => pos = NumServers
    /\ Congruent(res, asum[pos + 1])

\* The invariant of the sharing, sending and adding loops: how the shares, the
\* responses and the partial result stand to the wanted word.
RetrievalInv == ShareInv /\ ResponseInv /\ ReconstructInv

\* share() hands out shares of its argument: whatever was drawn, what fetch_image
\* sends to the servers adds up to the selection bit in the field.
SharesAddUp ==
    pc = "send" => psum[NumServers + 1] % Mod = Bit(img)

\* The word reconstruct() returns is the word of the wanted image, whatever the
\* random shares were and whatever the other images hold.
Retrieved == pc = "done" => res = row[index]
=============================================================================
