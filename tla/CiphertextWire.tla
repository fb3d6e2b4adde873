--------------------------- MODULE CiphertextWire ---------------------------
(***************************************************************************)
(* How a ciphertext crosses the network: save writes a header and its      *)
(* compressed members to the front of the adapter's buffer, the whole      *)
(* buffer is sent, the peer reads as much of it as arrives over what its   *)
(* own buffer held, and load takes from the front as many bytes as the     *)
(* header says.  A buffer is described by its layers: [msg, end] stands    *)
(* for the bytes of msg up to end that no earlier layer covers.            *)
(***************************************************************************)
EXTENDS Integers, Sequences, FiniteSets

CONSTANTS
    Degrees,    \* values of params::MOD_DEGREE
    MaxSends,   \* ciphertexts each end sends
    Compressed, \* bytes that compression saves, at most
    Cuts,       \* how much of a message may arrive when its sender dies, if any
    Chance      \* bytes of two ciphertexts that may agree by chance

ASSUME WireAssumption ==
    /\ Degrees \subseteq {2048, 4096, 8192, 16384}
    /\ MaxSends \in Nat /\ Cuts \subseteq Nat \ {0}
    /\ Compressed \subseteq 0..10000 /\ Chance \in Nat

VARIABLES
    degree,     \* params::MOD_DEGREE
    saved,      \* saved[m]: the size in the header of m, 0 before it is saved
    buffer,     \* buffer[e]: the layers of buffer_
    coming,     \* coming[e]: [layers, bytes] on the way to e
    loaded,     \* loaded[e]: the result of the last load at e
    dead        \* ends whose process is gone
vars == <<degree, saved, buffer, coming, loaded, dead>>

Ends == {"client", "server"}
Peer(e) == CHOOSE f \in Ends : f # e
Messages == Ends \X (1..MaxSends)

\* What a buffer may hold, or load may return, that is no message.
Zero    == <<"zero">>
Torn    == <<"torn">>
Nothing == <<"nothing">>
Threw   == <<"threw">>
Garbage == <<"garbage">>

-----------------------------------------------------------------------------
(* Sizes, in bytes.                                                        *)

HeaderSize == 16
FixedHeader == 8  \* magic number, header size, version, compr_mode: in all the same

\* Primes of BFVDefault(degree) but for the one only keys use.
DataPrimes(d) == IF d = 2048 THEN 1 ELSE IF d = 4096 THEN 2 ELSE IF d = 8192 THEN 4 ELSE 8

\* save_members: parms_id, form, three sizes, scale, and the DynArray with a
\* header and a size of its own, for two polynomials.
MembersSize(d) == 32 + 1 + 3 * 8 + 8 + (HeaderSize + 8 + 2 * d * DataPrimes(d) * 8)

\* A bound on what zstd makes of n bytes.
SizeBound(n) == n + n \div 256 + (IF n < 131072 THEN (131072 - n) \div 2048 ELSE 0)

\* utils::get_ciphertext_size.
\* Mutant: the header is forgotten.
HeaderlessSize(d) == IF d = 4096 THEN 131673 ELSE IF d = 8192 THEN 526425 ELSE 2105433
BufferSize(d) == IF d = 4096 THEN 131689 ELSE IF d = 8192 THEN 526441 ELSE 2105449

\* What Save may write: a compressor never exceeds its bound.
SaveSize(d) == HeaderSize + SizeBound(MembersSize(d))
Sizes(d) == {SaveSize(d) - x : x \in Compressed}

-----------------------------------------------------------------------------
(* Buffers.                                                                *)

Zeroes(d) == <<[msg |-> Zero, end |-> BufferSize(d)]>>

\* The layers when the first n bytes of new are written over old.
Front(layers, n) ==
    [k \in DOMAIN layers |-> [layers[k] EXCEPT !.end = IF @ < n THEN @ ELSE n]]
Overwrite(new, n, old) == Front(new, n) \o old

\* The first bytes of a size of three bytes, the least significant first.
LowBytes(size, n) ==
    IF n <= 0 THEN 0 ELSE IF n = 1 THEN size % 256 ELSE IF n = 2 THEN size % 65536 ELSE size

\* The connection ended in the middle of the message x begins with.
Cut(x) == x.bytes < saved[Head(x.layers).msg]

\* As much of the header as has come is also that of the message layers begin
\* with: up to the size it is always the same.
SameHeader(x, layers) ==
    LET old == Head(layers)
    IN  /\ old.msg \in Messages /\ x.bytes <= old.end
        /\ LowBytes(saved[old.msg], x.bytes - FixedHeader) =
               LowBytes(saved[Head(x.layers).msg], x.bytes - FixedHeader)

\* The front of the buffer is the whole of one message.
Intact(layers) == Head(layers).msg \in Messages /\ saved[Head(layers).msg] <= Head(layers).end

\* What load may make of a buffer: zeroes are refused, if only because no
\* parms_id is zero; bytes of different messages may pass all checks.  That they
\* are alike, so that a message is whole after all, the read has settled.
\* Mutant: a load that only looks at the header.
LoadHeaderOnly(layers) == IF Head(layers).msg \in Messages THEN {Head(layers).msg} ELSE {Threw}
Load(layers) ==
    IF Intact(layers) THEN {Head(layers).msg}
    ELSE IF Head(layers).msg = Zero THEN {Threw} ELSE {Threw, Garbage}

-----------------------------------------------------------------------------
(* Steps.                                                                  *)

Init ==
    /\ degree \in Degrees
    /\ saved = [m \in Messages |-> 0]
    /\ buffer = [e \in Ends |-> Zeroes(degree)]
    /\ coming = [e \in Ends |-> <<>>]
    /\ loaded = [e \in Ends |-> Nothing]
    /\ dead = {}

Sent(e) == {m \in Messages : m[1] = e /\ saved[m] > 0}

\* send_ciphertext: Save throws when the buffer is too small, and its front is
\* lost then; else everything in the buffer is written, the stale rest too.
SendCiphertext(e) ==
    LET m == <<e, Cardinality(Sent(e)) + 1>>
        new(n) == <<[msg |-> m, end |-> n]>>
    IN  /\ e \notin dead /\ m \in Messages
        /\ \E n \in Sizes(degree) :
              /\ saved' = [saved EXCEPT ![m] = n]
              /\ \/ /\ n <= BufferSize(degree)
                    /\ buffer' = [buffer EXCEPT ![e] = Overwrite(new(n), n, @)]
                    /\ coming' = [coming EXCEPT ![Peer(e)] =
                                     Append(@, [layers |-> buffer'[e], bytes |-> BufferSize(degree)])]
                    /\ UNCHANGED dead
                 \/ /\ n > BufferSize(degree)
                    /\ buffer' = [buffer EXCEPT ![e] = new(BufferSize(degree))]
                    /\ dead' = dead \cup {e}
                    /\ UNCHANGED coming
        /\ UNCHANGED <<degree, loaded>>

\* load, with the exception that ends the process.
Loads(e, layers) ==
    \E x \in Load(layers) :
        /\ loaded' = [loaded EXCEPT ![e] = x]
        /\ dead' = IF x = Threw THEN dead \cup {e} ELSE dead

\* Mutant: one read_some, which may end before the whole message is there.
ReceiveSome(e) ==
    /\ e \notin dead /\ coming[e] # <<>>
    /\ \E b \in Cuts : b < BufferSize(degree)
          /\ buffer' = [buffer EXCEPT ![e] = Overwrite(Head(coming[e]).layers, b, @)]
    /\ coming' = [coming EXCEPT ![e] = Tail(@)]
    /\ Loads(e, buffer'[e])
    /\ UNCHANGED <<degree, saved>>

\* What the read of x leaves in the buffer of e.  What came of a message that is
\* cut may have been there before, and so may, by chance, what did not come.
Reads(e, x) ==
    \/ /\ ~(Cut(x) /\ SameHeader(x, buffer[e]) /\ x.bytes <= HeaderSize)
       /\ buffer' = [buffer EXCEPT ![e] = Overwrite(x.layers, x.bytes, @)]
    \/ /\ Cut(x) /\ SameHeader(x, buffer[e]) /\ x.bytes <= HeaderSize + Chance
       /\ UNCHANGED buffer
    \/ \E n \in {saved[Head(x.layers).msg]} :
          /\ Cut(x) /\ n <= x.bytes + Chance
          /\ buffer' = [buffer EXCEPT ![e] = Overwrite(x.layers, n, @)]

\* receive_ciphertext: what arrives is written over what was there, all of it
\* or, when the connection ends before, a part.
ReceiveCiphertext(e) ==
    /\ e \notin dead /\ coming[e] # <<>>
    /\ Reads(e, Head(coming[e]))
    /\ coming' = [coming EXCEPT ![e] = Tail(@)]
    /\ Loads(e, buffer'[e])
    /\ UNCHANGED <<degree, saved>>

\* receive_ciphertext when the connection has ended: the error is ignored.
ReceiveNothing(e) ==
    /\ e \notin dead /\ coming[e] = <<>> /\ Peer(e) \in dead
    /\ Loads(e, buffer[e])
    /\ UNCHANGED <<degree, saved, buffer, coming>>

\* The process dies or closes; what it wrote last may be cut or lost.
Die(e) ==
    /\ e \notin dead
    /\ dead' = dead \cup {e}
    /\ \E n \in 0..Len(coming[Peer(e)]) :
          \/ coming' = [coming EXCEPT ![Peer(e)] = SubSeq(@, 1, n)]
          \/ /\ n > 0
             /\ \E b \in Cuts :
                   /\ b < BufferSize(degree)
                   /\ coming' = [coming EXCEPT ![Peer(e)] =
                                    [SubSeq(@, 1, n) EXCEPT ![n].bytes = b]]
    /\ UNCHANGED <<degree, saved, buffer, loaded>>

\* Both have done all they wanted.
Finished == \A e \in Ends : e \in dead \/ coming[e] = <<>>
Rest == Finished /\ UNCHANGED vars

Next == \/ \E e \in Ends : SendCiphertext(e) \/ ReceiveCiphertext(e) \/ ReceiveNothing(e) \/ Die(e)
        \/ Rest
Spec == Init /\ [][Next]_vars

-----------------------------------------------------------------------------
(* Properties.                                                             *)

\* Every ciphertext fits into the buffer get_ciphertext_size has reserved for
\* it, compressed or not: the table agrees with what Save may write.
Fits == \A m \in Messages : saved[m] <= BufferSize(degree)

\* While the other process lives, load gives what it has sent: the stale rest
\* of a buffer, the reader's or the sender's, is never taken for data.
StaleBytesUnread ==
    \A e \in Ends : Peer(e) \notin dead =>
        \/ loaded[e] = Nothing
        \/ loaded[e] \in Messages /\ loaded[e][1] = Peer(e)

\* The connection does what PirSession assumes of it: of a message cut off by the
\* death of its sender load gives an exception, bytes of no message, or, when what
\* came leaves the buffer as it was or completes the message, the one in the buffer
\* before or that message; never another, and never after a message that is whole.
Whole(layers) ==
    IF Intact(layers) THEN Head(layers).msg
    ELSE IF Head(layers).msg = Zero THEN Zero ELSE Torn
Arriving(x) == [msg |-> Head(x.layers).msg, part |-> IF Cut(x) THEN "some" ELSE "all"]
AdapterView == INSTANCE Adapter WITH
    holds <- [e \in Ends |-> Whole(buffer[e])],
    coming <- [e \in Ends |-> [k \in DOMAIN coming[e] |-> Arriving(coming[e][k])]]
ImplementsAdapter == AdapterView!AdapterSpec
=============================================================================
