------------------------ MODULE CiphertextWire_proofs ------------------------
(***************************************************************************)
(* That the table of buffer sizes is enough for every ciphertext, that the *)
(* stale rest of a buffer is never read, and that save, send, receive and  *)
(* load are the connection the session assumes.                            *)
(***************************************************************************)
EXTENDS CiphertextWire, FiniteSetTheorems, TLAPS

\* The bound on the compressed size is no bigger than the buffer.
LEMMA TableHolds ==
    ASSUME NEW d \in {2048, 4096, 8192, 16384}
    PROVE  SaveSize(d) \in 10001..BufferSize(d)
<1>1. /\ MembersSize(2048) = 32857 /\ BufferSize(2048) = 2105449
      /\ MembersSize(4096) = 131161 /\ BufferSize(4096) = 131689
      /\ MembersSize(8192) = 524377 /\ BufferSize(8192) = 526441
      /\ MembersSize(16384) = 2097241 /\ BufferSize(16384) = 2105449
  BY DEF HeaderSize, MembersSize, DataPrimes, BufferSize
<1>2. /\ 32857 \div 256 = 128 /\ 98215 \div 2048 = 47
      /\ 131161 \div 256 = 512 /\ 524377 \div 256 = 2048
      /\ 2097241 \div 256 = 8192
  OBVIOUS
<1>3. /\ SizeBound(32857) = 33032 /\ SizeBound(131161) = 131673
      /\ SizeBound(524377) = 526425 /\ SizeBound(2097241) = 2105433
  BY <1>2 DEF SizeBound
<1>4. d = 2048 \/ d = 4096 \/ d = 8192 \/ d = 16384
  OBVIOUS
<1> QED BY <1>1, <1>3, <1>4 DEF HeaderSize, SaveSize

\* Whatever compression saves, the header fits, and so does what it announces.
LEMMA SizesHold ==
    ASSUME NEW d \in Degrees, NEW n \in Sizes(d)
    PROVE  n \in 0..BufferSize(d)
<1>1. d \in {2048, 4096, 8192, 16384}
  BY WireAssumption
<1>2. PICK top \in Int, size \in Int : SaveSize(d) = top /\ BufferSize(d) = size
  <2>1. BufferSize(d) \in Int
    BY <1>1 DEF BufferSize
  <2> QED BY <1>1, <2>1, TableHolds
<1>3. top > 10000 /\ top <= size
  BY <1>1, <1>2, TableHolds
<1>4. PICK x \in 0..10000 : n = top - x
  <2>1. PICK x \in Compressed : n = SaveSize(d) - x
    BY DEF Sizes
  <2>2. x \in 0..10000
    BY <2>1, WireAssumption
  <2> QED BY <1>2, <2>1, <2>2
<1>5. n \in 0..size
  BY <1>4, <1>3
<1> QED BY <1>2, <1>5

LEMMA SizesPositive ==
    ASSUME NEW d \in Degrees, NEW n \in Sizes(d)
    PROVE  n > 0
<1>1. d \in {2048, 4096, 8192, 16384}
  BY WireAssumption
<1>2. PICK top \in Int : SaveSize(d) = top /\ top > 10000
  BY <1>1, TableHolds
<1>3. PICK x \in Compressed : n = SaveSize(d) - x
  BY DEF Sizes
<1>4. x \in 0..10000
  BY WireAssumption
<1> QED BY <1>2, <1>3, <1>4

SavedInv ==
    /\ degree \in Degrees
    /\ saved \in [Messages -> Nat]
    /\ Fits

LEMMA SavedInit == Init => SavedInv
<1> SUFFICES ASSUME Init PROVE SavedInv
  OBVIOUS
<1>1. degree \in {2048, 4096, 8192, 16384}
  BY WireAssumption DEF Init
<1>2. BufferSize(degree) \in Nat
  BY <1>1 DEF BufferSize
<1> QED BY <1>2 DEF Init, SavedInv, Fits

LEMMA SavedNext == SavedInv /\ [Next]_vars => SavedInv'
<1> SUFFICES ASSUME SavedInv, [Next]_vars PROVE SavedInv'
  OBVIOUS
<1> USE DEF SavedInv, Fits
<1>1. ASSUME NEW e \in Ends, SendCiphertext(e) PROVE SavedInv'
  <2>1. PICK m \in Messages, n \in Sizes(degree) :
            saved' = [saved EXCEPT ![m] = n] /\ degree' = degree
    BY <1>1 DEF SendCiphertext
  <2>2. n \in 0..BufferSize(degree)
    BY SizesHold
  <2>3. BufferSize(degree') = BufferSize(degree)
    BY <2>1
  <2>4. saved' \in [Messages -> Nat]
    BY <2>1, <2>2
  <2>5. ASSUME NEW k \in Messages PROVE saved'[k] <= BufferSize(degree)
    BY <2>1, <2>2
  <2> QED BY <2>1, <2>3, <2>4, <2>5
<1>2. ASSUME UNCHANGED <<degree, saved>> PROVE SavedInv'
  BY <1>2 DEF BufferSize
<1>3. ASSUME NEW e \in Ends, ReceiveCiphertext(e) PROVE UNCHANGED <<degree, saved>>
  BY <1>3 DEF ReceiveCiphertext
<1>4. ASSUME NEW e \in Ends, ReceiveNothing(e) PROVE UNCHANGED <<degree, saved>>
  BY <1>4 DEF ReceiveNothing
<1>5. ASSUME NEW e \in Ends, Die(e) PROVE UNCHANGED <<degree, saved>>
  BY <1>5 DEF Die
<1>6. Rest \/ UNCHANGED vars => UNCHANGED <<degree, saved>>
  BY DEF Rest, vars
<1> QED BY <1>1, <1>2, <1>3, <1>4, <1>5, <1>6 DEF Next

\* Every ciphertext, of whatever degree and however compressible, fits into
\* the buffer that get_ciphertext_size reserves: save never throws.
THEOREM AlwaysFits == Spec => []Fits
<1>1. SavedInv => Fits
  BY DEF SavedInv
<1> QED BY SavedInit, SavedNext, <1>1, PTL DEF Spec

-----------------------------------------------------------------------------
(* What a buffer and a message on its way look like.                       *)

Layers == Seq([msg : Messages \cup {Zero}, end : Nat]) \ {<<>>}
Packets == [layers : Layers, bytes : Nat \ {0}]

\* Ciphertexts are numbered in the order they are saved in.
Numbered == \A e \in Ends : \E c \in 0..MaxSends :
                \A k \in 1..MaxSends : saved[<<e, k>>] > 0 <=> k <= c

\* A packet begins with a ciphertext of the other end, all of it when that end
\* is alive; its length is cut by the death of that end only.
WellFormed(e, x) ==
    LET h == Head(x.layers)
    IN  /\ h.msg \in Messages /\ h.msg[1] = Peer(e)
        /\ 0 < saved[h.msg] /\ saved[h.msg] <= h.end
        /\ x.bytes = BufferSize(degree) \/ Peer(e) \in dead

WireInv ==
    /\ SavedInv /\ Numbered
    /\ buffer \in [Ends -> Layers]
    /\ coming \in [Ends -> Seq(Packets)]
    /\ dead \subseteq Ends
    /\ loaded \in [Ends -> Messages \cup {Nothing, Threw, Garbage}]
    /\ \A e \in Ends : Head(buffer[e]).msg # Zero => saved[Head(buffer[e]).msg] > 0
    /\ \A e \in Ends : \A k \in DOMAIN coming[e] : WellFormed(e, coming[e][k])
    /\ StaleBytesUnread

LEMMA TwoEnds ==
    \A e \in Ends : Peer(e) \in Ends /\ Peer(e) # e /\ Peer(Peer(e)) = e
<1>1. \A e \in Ends : Peer(e) \in Ends /\ Peer(e) # e
  <2> SUFFICES ASSUME NEW e \in Ends PROVE Peer(e) \in Ends /\ Peer(e) # e
    OBVIOUS
  <2>1. \E f \in Ends : f # e
    BY DEF Ends
  <2> QED BY <2>1 DEF Peer
<1> QED BY <1>1 DEF Ends

LEMMA NoMessage ==
    /\ \A x \in {Zero, Torn, Nothing, Threw, Garbage} : x \notin Messages
    /\ Threw # Garbage /\ Threw # Nothing /\ Garbage # Nothing
<1>1. \A x \in Messages : DOMAIN x = 1..2
  BY DEF Messages
<1>2. \A x \in {Zero, Torn, Nothing, Threw, Garbage} : DOMAIN x = 1..1
  BY DEF Zero, Torn, Nothing, Threw, Garbage
<1>3. 2 \in 1..2 /\ 2 \notin 1..1
  OBVIOUS
<1>4. Threw # Garbage /\ Threw # Nothing /\ Garbage # Nothing
  BY DEF Threw, Garbage, Nothing
<1> QED BY <1>1, <1>2, <1>3, <1>4

LEMMA HeadFacts ==
    ASSUME NEW layers \in Layers
    PROVE  Head(layers).msg \in Messages \cup {Zero} /\ Head(layers).end \in Nat
<1> DEFINE T == [msg : Messages \cup {Zero}, end : Nat]
<1>1. Head(layers) \in T
  <2>1. layers \in Seq(T) /\ layers # <<>>
    BY DEF Layers
  <2> HIDE DEF T
  <2> QED BY <2>1
<1> QED BY <1>1

LEMMA FrontFacts ==
    ASSUME NEW layers \in Layers, NEW n \in Nat
    PROVE  /\ Front(layers, n) \in Layers
           /\ Head(Front(layers, n)).msg = Head(layers).msg
           /\ Head(Front(layers, n)).end = IF Head(layers).end < n THEN Head(layers).end ELSE n
<1> DEFINE T == [msg : Messages \cup {Zero}, end : Nat]
<1>1. layers \in Seq(T) /\ layers # <<>>
  BY DEF Layers
<1>2. DOMAIN layers = 1..Len(layers) /\ Len(layers) \in Nat \ {0} /\ \A k \in 1..Len(layers) : layers[k] \in T
  <2> HIDE DEF T
  <2> QED BY <1>1
<1>3. \A k \in 1..Len(layers) :
          [layers[k] EXCEPT !.end = IF @ < n THEN @ ELSE n] \in T
  BY <1>2
<1>4. Front(layers, n) = [k \in 1..Len(layers) |->
          [layers[k] EXCEPT !.end = IF @ < n THEN @ ELSE n]]
  BY <1>2 DEF Front
<1>5. Front(layers, n) \in Seq(T) /\ Len(Front(layers, n)) = Len(layers)
  <2> HIDE DEF T
  <2> QED BY <1>2, <1>3, <1>4
<1>6. Head(Front(layers, n)) = [layers[1] EXCEPT !.end = IF @ < n THEN @ ELSE n]
  <2>1. Head(Front(layers, n)) = Front(layers, n)[1]
    BY <1>2, <1>5
  <2> QED BY <1>2, <1>4, <2>1
<1>7. Head(layers) = layers[1] /\ layers[1] \in T
  BY <1>1, <1>2
<1> QED BY <1>2, <1>5, <1>6, <1>7 DEF Layers

LEMMA OverwriteFacts ==
    ASSUME NEW new \in Layers, NEW old \in Layers, NEW n \in Nat
    PROVE  /\ Overwrite(new, n, old) \in Layers
           /\ Head(Overwrite(new, n, old)) = Head(Front(new, n))
<1> DEFINE T == [msg : Messages \cup {Zero}, end : Nat]
<1>1. PICK f \in Seq(T) : f = Front(new, n) /\ f # <<>>
  BY FrontFacts DEF Layers
<1>2. old \in Seq(T)
  BY DEF Layers
<1> HIDE DEF T
<1>3. f \o old \in Seq(T) /\ Head(f \o old) = Head(f) /\ f \o old # <<>>
  BY <1>1, <1>2
<1> QED BY <1>1, <1>3 DEF Overwrite, Layers, T

\* The next ciphertext of an end has not been saved before.
LEMMA Fresh ==
    ASSUME Numbered, saved \in [Messages -> Nat], NEW e \in Ends
    PROVE  \E c \in 0..MaxSends :
              /\ \A k \in 1..MaxSends : saved[<<e, k>>] > 0 <=> k <= c
              /\ Cardinality(Sent(e)) = c
<1>1. PICK c \in 0..MaxSends : \A k \in 1..MaxSends : saved[<<e, k>>] > 0 <=> k <= c
  BY DEF Numbered
<1>2. MaxSends \in Nat /\ c \in Nat
  BY WireAssumption
<1>3. Sent(e) = {<<e, k>> : k \in 1..c}
  <2>1. ASSUME NEW m \in Sent(e) PROVE m \in {<<e, k>> : k \in 1..c}
    <3>1. m \in Messages /\ m[1] = e /\ saved[m] > 0
      BY DEF Sent
    <3>2. PICK k \in 1..MaxSends : m = <<e, k>>
      BY <3>1 DEF Messages
    <3> QED BY <1>1, <1>2, <3>1, <3>2
  <2>2. ASSUME NEW k \in 1..c PROVE <<e, k>> \in Sent(e)
    <3>1. k \in 1..MaxSends
      BY <1>2
    <3>2. saved[<<e, k>>] > 0 /\ <<e, k>> \in Messages
      BY <1>1, <1>2, <3>1 DEF Messages
    <3> QED BY <3>2 DEF Sent
  <2> QED BY <2>1, <2>2
<1>4. ExistsBijection(1..c, Sent(e))
  <2> DEFINE g == [k \in 1..c |-> <<e, k>>]
  <2>1. g \in [1..c -> Sent(e)]
    BY <1>3
  <2>2. \A a, b \in 1..c : g[a] = g[b] => a = b
    OBVIOUS
  <2>3. \A y \in Sent(e) : \E k \in 1..c : g[k] = y
    BY <1>3
  <2> QED BY <2>1, <2>2, <2>3 DEF ExistsBijection, Bijection, Injection, Surjection, IsInjective
<1>5. IsFiniteSet(1..c) /\ Cardinality(1..c) = c
  BY <1>2, FS_Interval
<1> QED BY <1>1, <1>4, <1>5, FS_Bijection

LEMMA WireInit == Init => WireInv
<1> SUFFICES ASSUME Init PROVE WireInv
  OBVIOUS
<1>1. degree \in {2048, 4096, 8192, 16384}
  BY WireAssumption DEF Init
<1>2. BufferSize(degree) \in Nat
  BY <1>1 DEF BufferSize
<1>3. Zeroes(degree) \in Layers /\ Head(Zeroes(degree)).msg = Zero
  BY <1>2 DEF Zeroes, Layers
<1>4. Numbered
  <2>1. \A e \in Ends, k \in 1..MaxSends : saved[<<e, k>>] = 0
    BY DEF Init, Messages
  <2>2. 0 \in 0..MaxSends
    BY WireAssumption
  <2>3. \A k \in 1..MaxSends : ~(k <= 0)
    BY WireAssumption
  <2>4. ~(0 > 0)
    OBVIOUS
  <2>5. \A e \in Ends, k \in 1..MaxSends : saved[<<e, k>>] > 0 <=> k <= 0
    BY <2>1, <2>3, <2>4
  <2> QED BY <2>2, <2>5 DEF Numbered
<1>5. coming \in [Ends -> Seq(Packets)] /\ \A e \in Ends : DOMAIN coming[e] = {}
  BY DEF Init
<1> QED BY SavedInit, <1>3, <1>4, <1>5 DEF Init, WireInv, StaleBytesUnread

\* What load returns, and who ends by it.
LEMMA LoadFacts ==
    ASSUME NEW layers \in Layers, NEW x \in Load(layers)
    PROVE  /\ x \in Messages \cup {Threw, Garbage}
           /\ Intact(layers) => x = Head(layers).msg /\ x # Threw
BY NoMessage DEF Load, Intact

\* A step that saves nothing and leaves the packets of the other ends as they
\* are, or drops some.
LEMMA PacketsKept ==
    ASSUME WireInv, degree' = degree, saved' = saved, dead \subseteq dead',
           NEW e \in Ends, NEW x, WellFormed(e, x)
    PROVE  WellFormed(e, x)'
<1>1. BufferSize(degree') = BufferSize(degree)
  OBVIOUS
<1> QED BY <1>1 DEF WellFormed

\* What a send changes: an m never saved before, the front of the buffer, and a
\* packet more on its way.
SendEffect(e, m, n, new) ==
    /\ e \notin dead /\ m[1] = e /\ saved[m] = 0
    /\ n > 0 /\ n <= BufferSize(degree)
    /\ saved' = [saved EXCEPT ![m] = n]
    /\ \A k \in Messages : saved'[k] = IF k = m THEN n ELSE saved[k]
    /\ new.layers = buffer'[e] /\ new.bytes = BufferSize(degree)
    /\ Head(new.layers).msg = m /\ Head(new.layers).end = n
    /\ buffer' \in [Ends -> Layers] /\ \A f \in Ends \ {e} : buffer'[f] = buffer[f]
    /\ coming' = [coming EXCEPT ![Peer(e)] = Append(@, new)]
    /\ Numbered'
    /\ UNCHANGED <<dead, degree, loaded>>

LEMMA SendFacts ==
    ASSUME WireInv, NEW e \in Ends, SendCiphertext(e)
    PROVE  \E m \in Messages, n \in Nat, new \in Packets : SendEffect(e, m, n, new)
<1> DEFINE m == <<e, Cardinality(Sent(e)) + 1>>
<1>1. PICK n \in Sizes(degree) :
          /\ e \notin dead /\ m \in Messages
          /\ saved' = [saved EXCEPT ![m] = n]
          /\ \/ /\ n <= BufferSize(degree)
                /\ buffer' = [buffer EXCEPT ![e] = Overwrite(<<[msg |-> m, end |-> n]>>, n, @)]
                /\ coming' = [coming EXCEPT ![Peer(e)] =
                                 Append(@, [layers |-> buffer'[e], bytes |-> BufferSize(degree)])]
                /\ UNCHANGED dead
             \/ n > BufferSize(degree)
          /\ UNCHANGED <<degree, loaded>>
  BY DEF SendCiphertext
<1>2. n \in Nat /\ n > 0 /\ n <= BufferSize(degree) /\ BufferSize(degree) \in Nat /\ BufferSize(degree) > 0
  <2>1. degree \in Degrees
    BY DEF WireInv, SavedInv
  <2>2. degree \in {2048, 4096, 8192, 16384}
    BY <2>1, WireAssumption
  <2>3. BufferSize(degree) \in Nat
    BY <2>2 DEF BufferSize
  <2>4. n \in 0..BufferSize(degree) /\ n > 0
    BY <2>1, SizesHold, SizesPositive
  <2> QED BY <2>3, <2>4
<1>3. /\ buffer' = [buffer EXCEPT ![e] = Overwrite(<<[msg |-> m, end |-> n]>>, n, @)]
      /\ coming' = [coming EXCEPT ![Peer(e)] =
                       Append(@, [layers |-> buffer'[e], bytes |-> BufferSize(degree)])]
      /\ UNCHANGED <<dead, degree, loaded>>
  <2>1. ~(n > BufferSize(degree))
    BY <1>2
  <2> QED BY <1>1, <2>1
<1>4. PICK c \in 0..MaxSends :
          /\ \A k \in 1..MaxSends : saved[<<e, k>>] > 0 <=> k <= c
          /\ Cardinality(Sent(e)) = c
  BY Fresh DEF WireInv, SavedInv
<1>5. c + 1 \in 1..MaxSends /\ m = <<e, c + 1>> /\ saved[m] = 0
  BY <1>1, <1>4 DEF Messages, WireInv, SavedInv
<1> HIDE DEF m
<1>6. \A k \in Messages : saved'[k] = IF k = m THEN n ELSE saved[k]
  BY <1>1 DEF WireInv, SavedInv
<1>7. /\ <<[msg |-> m, end |-> n]>> \in Layers
      /\ Head(<<[msg |-> m, end |-> n]>>) = [msg |-> m, end |-> n]
  BY <1>1, <1>2 DEF Layers
<1>8. /\ buffer'[e] \in Layers
      /\ Head(buffer'[e]).msg = m /\ Head(buffer'[e]).end = n
  <2>1. buffer[e] \in Layers /\ n \in Nat
    BY <1>2 DEF WireInv
  <2>2. buffer'[e] = Overwrite(<<[msg |-> m, end |-> n]>>, n, buffer[e])
    BY <1>3 DEF WireInv
  <2>3. PICK new \in Layers :
            new = <<[msg |-> m, end |-> n]>> /\ Head(new) = [msg |-> m, end |-> n]
    BY <1>7
  <2>4. buffer'[e] \in Layers /\ Head(buffer'[e]) = Head(Front(new, n))
    <3>1. buffer'[e] = Overwrite(new, n, buffer[e])
      BY <2>2, <2>3
    <3>2. Overwrite(new, n, buffer[e]) \in Layers
      BY <2>1, OverwriteFacts
    <3>3. Head(Overwrite(new, n, buffer[e])) = Head(Front(new, n))
      BY <2>1, OverwriteFacts
    <3> QED BY <3>1, <3>2, <3>3
  <2>5. Head(Front(new, n)).msg = Head(new).msg
    BY <2>1, FrontFacts
  <2>6. Head(Front(new, n)).end = IF Head(new).end < n THEN Head(new).end ELSE n
    BY <2>1, FrontFacts
  <2>7. Head(new).msg = m /\ Head(new).end = n
    BY <2>3
  <2> QED BY <2>4, <2>5, <2>6, <2>7
<1>9. buffer' \in [Ends -> Layers]
  BY <1>3, <1>8 DEF WireInv
<1>10. Numbered'
  <2> SUFFICES ASSUME NEW f \in Ends
               PROVE  \E d \in 0..MaxSends : \A k \in 1..MaxSends : saved'[<<f, k>>] > 0 <=> k <= d
    BY DEF Numbered
  <2>1. CASE f = e
    <3>1. \A k \in 1..MaxSends : saved'[<<e, k>>] = IF k = c + 1 THEN n ELSE saved[<<e, k>>]
      BY <1>5, <1>6 DEF Messages
    <3>2. \A k \in 1..MaxSends : saved'[<<e, k>>] > 0 <=> k <= c + 1
      BY <1>2, <1>4, <3>1
    <3>3. c + 1 \in 0..MaxSends
      BY <1>5
    <3> QED BY <2>1, <3>2, <3>3
  <2>2. CASE f # e
    <3>1. \A k \in 1..MaxSends : saved'[<<f, k>>] = saved[<<f, k>>]
      BY <1>5, <1>6, <2>2 DEF Messages
    <3> QED BY <3>1 DEF WireInv, Numbered
  <2> QED BY <2>1, <2>2
<1>11. PICK new \in Packets : new = [layers |-> buffer'[e], bytes |-> BufferSize(degree)]
  <2>1. buffer'[e] \in Layers /\ BufferSize(degree) \in Nat \ {0}
    BY <1>2, <1>8
  <2>2. [layers |-> buffer'[e], bytes |-> BufferSize(degree)] \in Packets
    BY <2>1 DEF Packets
  <2> QED BY <2>2
<1>12. coming' = [coming EXCEPT ![Peer(e)] = Append(@, new)] /\ Peer(e) \in Ends
  BY <1>3, <1>11, TwoEnds
<1>13. e \notin dead /\ m \in Messages /\ m[1] = e
  BY <1>1, <1>5
<1>14. \A f \in Ends \ {e} : buffer'[f] = buffer[f]
  BY <1>3 DEF WireInv
<1>15. SendEffect(e, m, n, new)
  BY <1>1, <1>2, <1>3, <1>5, <1>6, <1>10, <1>8, <1>9, <1>11, <1>12, <1>13, <1>14 DEF SendEffect
<1> QED BY <1>2, <1>13, <1>15

LEMMA WireSend == ASSUME WireInv, NEW e \in Ends, SendCiphertext(e) PROVE WireInv'
<1>1. SavedInv'
  BY SavedNext DEF WireInv, Next
<1>2. PICK m \in Messages, n \in Nat, new \in Packets : SendEffect(e, m, n, new)
  BY SendFacts
<1>3. /\ e \notin dead /\ m[1] = e /\ saved[m] = 0
      /\ n > 0 /\ n <= BufferSize(degree)
      /\ new.layers = buffer'[e] /\ new.bytes = BufferSize(degree)
      /\ Head(new.layers).msg = m /\ Head(new.layers).end = n
      /\ buffer' \in [Ends -> Layers] /\ \A f \in Ends \ {e} : buffer'[f] = buffer[f]
      /\ UNCHANGED <<dead, degree, loaded>> /\ Numbered'
  BY <1>2 DEF SendEffect
<1>4. \A k \in Messages : saved'[k] = IF k = m THEN n ELSE saved[k]
  BY <1>2 DEF SendEffect
<1>5. coming' = [coming EXCEPT ![Peer(e)] = Append(@, new)] /\ Peer(e) \in Ends
  BY <1>2, TwoEnds DEF SendEffect
<1>6. \A f \in Ends : Head(buffer'[f]).msg # Zero => saved'[Head(buffer'[f]).msg] > 0
  <2> SUFFICES ASSUME NEW f \in Ends, Head(buffer'[f]).msg # Zero
               PROVE  saved'[Head(buffer'[f]).msg] > 0
    OBVIOUS
  <2>1. CASE f = e
    BY <1>3, <1>4, NoMessage, <2>1
  <2>2. CASE f # e
    <3>1. buffer'[f] = buffer[f] /\ buffer[f] \in Layers
      BY <1>3, <2>2 DEF WireInv
    <3>2. Head(buffer[f]).msg \in Messages
      BY <2>2, <3>1, HeadFacts
    <3>3. saved[Head(buffer[f]).msg] > 0
      BY <3>1 DEF WireInv
    <3> QED BY <1>3, <1>4, <3>1, <3>2, <3>3
  <2> QED BY <2>1, <2>2
<1>7. coming' \in [Ends -> Seq(Packets)]
  BY <1>5 DEF WireInv
<1>8. WellFormed(Peer(e), new)'
  <2>1. Head(new.layers).msg = m /\ Head(new.layers).end = n /\ new.bytes = BufferSize(degree)
    BY <1>3
  <2>2. m[1] = Peer(Peer(e))
    BY <1>3, TwoEnds
  <2>3. BufferSize(degree') = BufferSize(degree)
    BY <1>3
  <2> QED BY <1>2, <1>3, <1>4, <2>1, <2>2, <2>3 DEF WellFormed
<1>9. ASSUME NEW f \in Ends, NEW x, WellFormed(f, x) PROVE WellFormed(f, x)'
  <2>1. 0 < saved[Head(x.layers).msg] /\ Head(x.layers).msg \in Messages
    BY <1>9 DEF WellFormed
  <2>2. Head(x.layers).msg # m
    BY <1>3, <2>1
  <2>3. dead' = dead /\ BufferSize(degree') = BufferSize(degree)
    BY <1>3
  <2>4. saved'[Head(x.layers).msg] = saved[Head(x.layers).msg]
    BY <1>4, <2>1, <2>2
  <2> QED BY <1>9, <2>3, <2>4 DEF WellFormed
<1>10. \A f \in Ends : \A k \in DOMAIN coming'[f] : WellFormed(f, coming[f][k])'
  <2> SUFFICES ASSUME NEW f \in Ends, NEW k \in DOMAIN coming'[f]
               PROVE  WellFormed(f, coming[f][k])'
    OBVIOUS
  <2>1. coming[f] \in Seq(Packets)
    BY DEF WireInv
  <2>2. CASE k \in DOMAIN coming[f] /\ coming'[f][k] = coming[f][k]
    <3>1. WellFormed(f, coming[f][k])
      BY <2>2 DEF WireInv
    <3>2. PICK x : x = coming[f][k]
      OBVIOUS
    <3>3. WellFormed(f, x)'
      BY <1>9, <3>1, <3>2
    <3> QED BY <2>2, <3>2, <3>3 DEF WellFormed
  <2>3. CASE f = Peer(e) /\ coming'[f][k] = new
    BY <1>8, <2>3 DEF WellFormed
  <2>4. \/ k \in DOMAIN coming[f] /\ coming'[f][k] = coming[f][k]
        \/ f = Peer(e) /\ coming'[f][k] = new
    BY <1>5, <2>1 DEF WireInv
  <2> QED BY <2>2, <2>3, <2>4
<1>11. StaleBytesUnread'
  <2>1. loaded' = loaded /\ dead' = dead
    BY <1>3
  <2>2. StaleBytesUnread
    BY DEF WireInv
  <2> QED BY <2>1, <2>2 DEF StaleBytesUnread
<1> QED BY <1>1, <1>3, <1>6, <1>7, <1>10, <1>11 DEF WireInv

\* What a load leaves alone.
LEMMA LoadsFacts ==
    ASSUME WireInv, NEW e \in Ends, NEW layers \in Layers, Loads(e, layers)
    PROVE  /\ loaded' \in [Ends -> Messages \cup {Nothing, Threw, Garbage}]
           /\ loaded'[e] \in Load(layers)
           /\ \A f \in Ends \ {e} : loaded'[f] = loaded[f]
           /\ dead' \subseteq Ends /\ dead \subseteq dead'
           /\ dead' = IF loaded'[e] = Threw THEN dead \cup {e} ELSE dead
<1>1. PICK x \in Load(layers) :
          /\ loaded' = [loaded EXCEPT ![e] = x]
          /\ dead' = IF x = Threw THEN dead \cup {e} ELSE dead
  BY DEF Loads
<1>2. x \in Messages \cup {Threw, Garbage}
  BY LoadFacts
<1>3. loaded \in [Ends -> Messages \cup {Nothing, Threw, Garbage}] /\ dead \subseteq Ends
  BY DEF WireInv
<1>4. loaded'[e] = x
  BY <1>1, <1>3
<1> QED BY <1>1, <1>2, <1>3, <1>4

\* A packet that is still to come stays well formed.
LEMMA ComingKept ==
    ASSUME WireInv, degree' = degree, saved' = saved, dead \subseteq dead',
           \A f \in Ends : \A k \in DOMAIN coming'[f] :
               \E j \in DOMAIN coming[f] : coming'[f][k] = coming[f][j]
    PROVE  \A f \in Ends : \A k \in DOMAIN coming'[f] : WellFormed(f, coming[f][k])'
<1> SUFFICES ASSUME NEW f \in Ends, NEW k \in DOMAIN coming'[f]
             PROVE  WellFormed(f, coming[f][k])'
  OBVIOUS
<1>1. PICK j \in DOMAIN coming[f] : coming'[f][k] = coming[f][j]
  OBVIOUS
<1>2. PICK x : x = coming[f][j]
  OBVIOUS
<1>3. WellFormed(f, x)
  BY <1>2 DEF WireInv
<1>4. WellFormed(f, x)'
  BY <1>3, PacketsKept
<1> QED BY <1>1, <1>2, <1>4 DEF WellFormed

\* The read of a message gives that message, unless it is cut: then it may leave
\* the buffer as it is.
LEMMA ReadsFacts ==
    ASSUME WireInv, NEW e \in Ends, NEW x \in Packets, WellFormed(e, x), Reads(e, x)
    PROVE  /\ buffer' \in [Ends -> Layers] /\ \A f \in Ends \ {e} : buffer'[f] = buffer[f]
           /\ \/ buffer'[e] = buffer[e] /\ Cut(x)
              \/ Head(buffer'[e]).msg = Head(x.layers).msg /\ (Intact(buffer'[e]) \/ Cut(x))
<1>1. x.layers \in Layers /\ x.bytes \in Nat /\ buffer \in [Ends -> Layers]
  BY DEF Packets, WireInv
<1>2. PICK h \in Messages : h = Head(x.layers).msg /\ saved[h] <= Head(x.layers).end
  BY DEF WellFormed
<1>3. saved[h] \in Nat /\ Head(x.layers).end \in Nat
  BY <1>1, <1>2, HeadFacts DEF WireInv, SavedInv
<1>4. ASSUME NEW n \in Nat, n >= saved[h] \/ Cut(x),
             buffer' = [buffer EXCEPT ![e] = Overwrite(x.layers, n, @)]
      PROVE  /\ buffer' \in [Ends -> Layers] /\ \A f \in Ends \ {e} : buffer'[f] = buffer[f]
             /\ Head(buffer'[e]).msg = h /\ (Intact(buffer'[e]) \/ Cut(x))
  <2>1. PICK b : b = Overwrite(x.layers, n, buffer[e])
    OBVIOUS
  <2>2. b \in Layers /\ Head(b) = Head(Front(x.layers, n))
    BY <1>1, <2>1, OverwriteFacts
  <2>3. /\ Head(Front(x.layers, n)).msg = h
        /\ Head(Front(x.layers, n)).end = IF Head(x.layers).end < n THEN Head(x.layers).end ELSE n
    BY <1>1, <1>2, FrontFacts
  <2>4. buffer'[e] = b /\ buffer' \in [Ends -> Layers] /\ \A f \in Ends \ {e} : buffer'[f] = buffer[f]
    BY <1>1, <1>4, <2>1, <2>2
  <2>5. n >= saved[h] => saved[h] <= Head(b).end
    BY <1>2, <1>3, <2>2, <2>3
  <2>6. n >= saved[h] => Intact(b)
    BY <2>2, <2>3, <2>5 DEF Intact
  <2> QED BY <1>4, <2>2, <2>3, <2>4, <2>6
<1>5. x.bytes >= saved[h] \/ Cut(x)
  BY <1>1, <1>2, <1>3 DEF Cut
<1>6. CASE buffer' = [buffer EXCEPT ![e] = Overwrite(x.layers, x.bytes, @)]
  BY <1>1, <1>2, <1>4, <1>5, <1>6
<1>7. CASE Cut(x) /\ UNCHANGED buffer
  BY <1>1, <1>7
<1>8. CASE buffer' = [buffer EXCEPT ![e] = Overwrite(x.layers, saved[h], @)]
  <2>1. PICK n \in Nat : n = saved[h]
    BY <1>3
  <2>2. n >= saved[h] /\ buffer' = [buffer EXCEPT ![e] = Overwrite(x.layers, n, @)]
    BY <1>8, <2>1
  <2> QED BY <1>2, <1>4, <2>2
<1> QED BY <1>2, <1>6, <1>7, <1>8 DEF Reads

LEMMA WireReceive == ASSUME WireInv, NEW e \in Ends, ReceiveCiphertext(e) PROVE WireInv'
<1>1. SavedInv'
  BY SavedNext DEF WireInv, Next
<1>2. /\ e \notin dead /\ coming[e] # <<>>
      /\ Reads(e, Head(coming[e]))
      /\ coming' = [coming EXCEPT ![e] = Tail(@)]
      /\ Loads(e, buffer'[e])
      /\ degree' = degree /\ saved' = saved
  BY DEF ReceiveCiphertext
<1>3. PICK x \in Packets : x = Head(coming[e]) /\ x = coming[e][1] /\ 1 \in DOMAIN coming[e]
  BY <1>2 DEF WireInv
<1>4. WellFormed(e, x)
  BY <1>3 DEF WireInv
<1>5. /\ buffer' \in [Ends -> Layers] /\ \A f \in Ends \ {e} : buffer'[f] = buffer[f]
      /\ \/ buffer'[e] = buffer[e] /\ Cut(x)
         \/ Head(buffer'[e]).msg = Head(x.layers).msg /\ (Intact(buffer'[e]) \/ Cut(x))
  BY <1>2, <1>3, <1>4, ReadsFacts
<1>6. buffer'[e] \in Layers
  BY <1>5
<1>7. /\ loaded' \in [Ends -> Messages \cup {Nothing, Threw, Garbage}]
      /\ loaded'[e] \in Load(buffer'[e])
      /\ \A f \in Ends \ {e} : loaded'[f] = loaded[f]
      /\ dead' \subseteq Ends /\ dead \subseteq dead'
  BY <1>2, <1>6, LoadsFacts
<1>8. coming' \in [Ends -> Seq(Packets)]
  <2>1. Tail(coming[e]) \in Seq(Packets)
    BY <1>2 DEF WireInv
  <2> QED BY <1>2, <2>1 DEF WireInv
<1>9. \A f \in Ends : \A k \in DOMAIN coming'[f] : \E j \in DOMAIN coming[f] : coming'[f][k] = coming[f][j]
  <2> SUFFICES ASSUME NEW f \in Ends, NEW k \in DOMAIN coming'[f]
               PROVE  \E j \in DOMAIN coming[f] : coming'[f][k] = coming[f][j]
    OBVIOUS
  <2>1. PICK s \in Seq(Packets) : s = coming[e]
    BY DEF WireInv
  <2>2. CASE f = e
    <3>1. coming'[f] = Tail(s) /\ s # <<>>
      BY <1>2, <2>1, <2>2 DEF WireInv
    <3>2. \A i \in DOMAIN Tail(s) : Tail(s)[i] = s[i + 1] /\ i + 1 \in DOMAIN s
      BY <3>1
    <3> QED BY <2>1, <2>2, <3>1, <3>2
  <2>3. CASE f # e
    BY <1>2, <2>3 DEF WireInv
  <2> QED BY <2>2, <2>3
<1>10. \A f \in Ends : \A k \in DOMAIN coming'[f] : WellFormed(f, coming[f][k])'
  BY <1>2, <1>7, <1>9, ComingKept
<1>11. Numbered'
  BY <1>2 DEF WireInv, Numbered
<1>12. \A f \in Ends : Head(buffer'[f]).msg # Zero => saved'[Head(buffer'[f]).msg] > 0
  <2>1. saved[Head(x.layers).msg] > 0
    BY <1>4 DEF WellFormed, WireInv, SavedInv
  <2>2. \A f \in Ends : buffer'[f] = buffer[f] \/ Head(buffer'[f]).msg = Head(x.layers).msg
    BY <1>5
  <2> QED BY <1>2, <2>1, <2>2 DEF WireInv
<1>13. ASSUME Peer(e) \notin dead PROVE loaded'[e] \in Messages /\ loaded'[e][1] = Peer(e)
  <2>1. PICK h : h = Head(x.layers).msg /\ h \in Messages /\ h[1] = Peer(e)
    BY <1>4 DEF WellFormed
  <2>2. x.bytes = BufferSize(degree)
    BY <1>4, <1>13 DEF WellFormed
  <2>3. ~Cut(x)
    <3>1. saved[h] <= BufferSize(degree) /\ saved[h] \in Nat /\ BufferSize(degree) \in Nat
      BY <2>1, <2>2 DEF WireInv, SavedInv, Fits, Packets
    <3> QED BY <2>1, <2>2, <3>1 DEF Cut
  <2>4. Intact(buffer'[e]) /\ Head(buffer'[e]).msg = h
    BY <1>5, <2>1, <2>3
  <2>5. loaded'[e] = h
    BY <1>7, <2>4 DEF Load
  <2> QED BY <2>1, <2>5
<1>14. StaleBytesUnread'
  <2> SUFFICES ASSUME NEW f \in Ends, Peer(f) \notin dead'
               PROVE  loaded'[f] = Nothing \/ (loaded'[f] \in Messages /\ loaded'[f][1] = Peer(f))
    BY DEF StaleBytesUnread
  <2>1. Peer(f) \notin dead
    BY <1>7
  <2>2. CASE f = e
    BY <1>13, <2>1, <2>2
  <2>3. CASE f # e
    BY <1>7, <2>1, <2>3 DEF WireInv, StaleBytesUnread
  <2> QED BY <2>2, <2>3
<1> QED BY <1>1, <1>5, <1>7, <1>8, <1>10, <1>11, <1>12, <1>14 DEF WireInv

LEMMA WireNothing == ASSUME WireInv, NEW e \in Ends, ReceiveNothing(e) PROVE WireInv'
<1>1. SavedInv'
  BY SavedNext DEF WireInv, Next
<1>2. /\ Peer(e) \in dead /\ Loads(e, buffer[e])
      /\ degree' = degree /\ saved' = saved /\ buffer' = buffer /\ coming' = coming
  BY DEF ReceiveNothing
<1>3. buffer[e] \in Layers
  BY DEF WireInv
<1>4. /\ loaded' \in [Ends -> Messages \cup {Nothing, Threw, Garbage}]
      /\ \A f \in Ends \ {e} : loaded'[f] = loaded[f]
      /\ dead' \subseteq Ends /\ dead \subseteq dead'
  BY <1>2, <1>3, LoadsFacts
<1>5. \A f \in Ends : \A k \in DOMAIN coming'[f] : WellFormed(f, coming[f][k])'
  BY <1>2, <1>4, ComingKept
<1>6. StaleBytesUnread'
  BY <1>2, <1>4 DEF WireInv, StaleBytesUnread
<1> QED BY <1>1, <1>2, <1>4, <1>5, <1>6 DEF WireInv, Numbered

LEMMA PrefixFacts ==
    ASSUME NEW S, NEW s \in Seq(S), NEW n \in 0..Len(s)
    PROVE  /\ SubSeq(s, 1, n) \in Seq(S) /\ Len(SubSeq(s, 1, n)) = n
           /\ \A k \in 1..n : SubSeq(s, 1, n)[k] = s[k]
OBVIOUS

\* A packet may be cut: its layers stay.
LEMMA CutFacts ==
    ASSUME NEW x \in Packets, NEW b \in Nat \ {0}
    PROVE  /\ [x EXCEPT !.bytes = b] \in Packets
           /\ [x EXCEPT !.bytes = b].layers = x.layers
           /\ [x EXCEPT !.bytes = b].bytes = b
BY DEF Packets

LEMMA WireDie == ASSUME WireInv, NEW e \in Ends, Die(e) PROVE WireInv'
<1>1. SavedInv'
  BY SavedNext DEF WireInv, Next
<1>2. PICK s \in Seq(Packets) : s = coming[Peer(e)] /\ Peer(e) \in Ends /\ Peer(Peer(e)) = e
  BY TwoEnds DEF WireInv
<1>3. PICK n \in 0..Len(s) :
          /\ dead' = dead \cup {e}
          /\ degree' = degree /\ saved' = saved /\ buffer' = buffer /\ loaded' = loaded
          /\ \/ coming' = [coming EXCEPT ![Peer(e)] = SubSeq(@, 1, n)]
             \/ /\ n > 0
                /\ \E b \in Cuts : coming' = [coming EXCEPT ![Peer(e)] =
                                                 [SubSeq(@, 1, n) EXCEPT ![n].bytes = b]]
  BY <1>2 DEF Die
<1>4. PICK t \in Seq(Packets) : t = SubSeq(s, 1, n) /\ Len(t) = n /\ \A k \in 1..n : t[k] = s[k]
  BY PrefixFacts
<1>5. \A f \in Ends \ {Peer(e)} : coming'[f] = coming[f]
  BY <1>3 DEF WireInv
<1>6. ASSUME NEW x, NEW f \in Ends, WellFormed(f, x) PROVE WellFormed(f, x)'
  BY <1>3, <1>6, PacketsKept
<1>7. \A k \in 1..Len(s) : WellFormed(Peer(e), s[k])
  BY <1>2 DEF WireInv
<1>8. ASSUME coming' = [coming EXCEPT ![Peer(e)] = SubSeq(@, 1, n)]
      PROVE  /\ coming' \in [Ends -> Seq(Packets)]
             /\ \A f \in Ends : \A k \in DOMAIN coming'[f] : WellFormed(f, coming[f][k])'
  <2>1. coming'[Peer(e)] = t
    BY <1>2, <1>4, <1>8 DEF WireInv
  <2>2. coming' \in [Ends -> Seq(Packets)]
    BY <1>2, <1>4, <1>8 DEF WireInv
  <2>3. \A k \in DOMAIN t : k \in DOMAIN s /\ t[k] = s[k]
    BY <1>3, <1>4
  <2>4. \A f \in Ends : \A k \in DOMAIN coming'[f] : \E j \in DOMAIN coming[f] : coming'[f][k] = coming[f][j]
    BY <1>2, <1>5, <2>1, <2>3
  <2>5. \A f \in Ends : \A k \in DOMAIN coming'[f] : WellFormed(f, coming[f][k])'
    BY <1>3, <2>4, ComingKept
  <2> QED BY <2>2, <2>5
<1>9. ASSUME n > 0,
             \E b \in Cuts : coming' = [coming EXCEPT ![Peer(e)] =
                                            [SubSeq(@, 1, n) EXCEPT ![n].bytes = b]]
      PROVE  /\ coming' \in [Ends -> Seq(Packets)]
             /\ \A f \in Ends : \A k \in DOMAIN coming'[f] : WellFormed(f, coming[f][k])'
  <2>1. PICK b \in Cuts : coming' = [coming EXCEPT ![Peer(e)] =
                                        [SubSeq(@, 1, n) EXCEPT ![n].bytes = b]]
    BY <1>9
  <2>2. PICK y \in Packets : y = [t[n] EXCEPT !.bytes = b] /\ y.layers = t[n].layers
    <3>1. t[n] \in Packets /\ b \in Nat \ {0}
      BY <1>3, <1>4, <1>9, WireAssumption
    <3> QED BY <3>1, CutFacts
  <2>3. PICK u : u = [t EXCEPT ![n] = y]
    OBVIOUS
  <2>4. u \in Seq(Packets) /\ DOMAIN u = 1..n /\ \A k \in 1..n : u[k] = IF k = n THEN y ELSE s[k]
    <3>1. n \in 1..n /\ DOMAIN t = 1..n
      BY <1>4, <1>9
    <3>2. u \in Seq(Packets) /\ DOMAIN u = 1..n
      BY <1>4, <2>3, <3>1
    <3>3. \A k \in 1..n : u[k] = IF k = n THEN y ELSE t[k]
      BY <2>3, <3>1
    <3> QED BY <1>4, <3>2, <3>3
  <2>5. coming'[Peer(e)] = u
    BY <1>2, <1>4, <2>1, <2>2, <2>3 DEF WireInv
  <2>6. coming' = [coming EXCEPT ![Peer(e)] = u]
    BY <1>2, <1>4, <2>1, <2>2, <2>3
  <2>7. coming' \in [Ends -> Seq(Packets)]
    BY <1>2, <2>4, <2>6 DEF WireInv
  <2>8. WellFormed(Peer(e), y)'
    <3>1. WellFormed(Peer(e), t[n])
      BY <1>3, <1>4, <1>7, <1>9
    <3>2. PICK x : x = t[n]
      OBVIOUS
    <3>3. WellFormed(Peer(e), x)'
      BY <1>2, <1>6, <3>1, <3>2
    <3>4. e \in dead'
      BY <1>3
    <3> QED BY <1>2, <2>2, <3>2, <3>3, <3>4 DEF WellFormed
  <2>9. ASSUME NEW f \in Ends, NEW k \in DOMAIN coming'[f] PROVE WellFormed(f, coming[f][k])'
    <3>1. PICK x : x = coming'[f][k]
      OBVIOUS
    <3>2. CASE f = Peer(e) /\ k = n
      <4>1. x = y
        BY <1>3, <1>9, <2>4, <2>5, <3>1, <3>2
      <4> QED BY <2>8, <3>1, <3>2, <4>1 DEF WellFormed
    <3>3. CASE ~(f = Peer(e) /\ k = n)
      <4>1. \E j \in DOMAIN coming[f] : x = coming[f][j]
        BY <1>2, <1>3, <1>5, <2>4, <2>5, <3>1, <3>3
      <4>2. WellFormed(f, x)
        BY <4>1 DEF WireInv
      <4>3. WellFormed(f, x)'
        BY <1>6, <4>2
      <4> QED BY <3>1, <4>3 DEF WellFormed
    <3> QED BY <3>2, <3>3
  <2> QED BY <2>7, <2>9
<1>10. StaleBytesUnread'
  BY <1>3 DEF WireInv, StaleBytesUnread
<1> QED BY <1>1, <1>3, <1>8, <1>9, <1>10 DEF WireInv, Numbered

LEMMA WireStutter == ASSUME WireInv, UNCHANGED vars PROVE WireInv'
<1>1. SavedInv'
  BY SavedNext DEF WireInv
<1>2. \A f \in Ends : \A k \in DOMAIN coming'[f] : WellFormed(f, coming[f][k])'
  BY ComingKept DEF vars
<1>3. StaleBytesUnread'
  BY DEF vars, WireInv, StaleBytesUnread
<1>4. Numbered'
  BY DEF vars, WireInv, Numbered
<1> QED BY <1>1, <1>2, <1>3, <1>4 DEF vars, WireInv

LEMMA WireNext == WireInv /\ [Next]_vars => WireInv'
BY WireSend, WireReceive, WireNothing, WireDie, WireStutter DEF Next, Rest

\* While its peer lives, no end ever takes the stale rest of a buffer, its own
\* or the sender's, for a ciphertext: load returns what the peer has sent.
THEOREM StaleNeverRead == Spec => []StaleBytesUnread
<1>1. WireInv => StaleBytesUnread
  BY DEF WireInv
<1> QED BY WireInit, WireNext, <1>1, PTL DEF Spec

-----------------------------------------------------------------------------
(* The connection the session assumes.                                     *)

\* Whole and Arriving, of any sizes sv.
WholeOf(sv, layers) ==
    IF Head(layers).msg \in Messages /\ sv[Head(layers).msg] <= Head(layers).end
    THEN Head(layers).msg
    ELSE IF Head(layers).msg = Zero THEN Zero ELSE Torn
ArrivingOf(sv, x) ==
    [msg |-> Head(x.layers).msg,
     part |-> IF x.bytes < sv[Head(x.layers).msg] THEN "some" ELSE "all"]
HoldsOf(sv, bf) == [e \in Ends |-> WholeOf(sv, bf[e])]
Arrivals(sv, q) == [k \in DOMAIN q |-> ArrivingOf(sv, q[k])]
ComesOf(sv, cm) == [e \in Ends |-> Arrivals(sv, cm[e])]

LEMMA ViewNow ==
    ASSUME WireInv
    PROVE  /\ [e \in Ends |-> Whole(buffer[e])] = HoldsOf(saved, buffer)
           /\ [e \in Ends |-> [k \in DOMAIN coming[e] |-> Arriving(coming[e][k])]]
                  = ComesOf(saved, coming)
<1>1. ASSUME NEW e \in Ends PROVE Whole(buffer[e]) = WholeOf(saved, buffer[e])
  BY DEF Whole, Intact, WholeOf
<1>2. ASSUME NEW e \in Ends, NEW k \in DOMAIN coming[e]
      PROVE  Arriving(coming[e][k]) = ArrivingOf(saved, coming[e][k])
  BY DEF Arriving, ArrivingOf, Cut
<1>3. [e \in Ends |-> Whole(buffer[e])] = HoldsOf(saved, buffer)
  BY <1>1 DEF HoldsOf
<1>4. [e \in Ends |-> [k \in DOMAIN coming[e] |-> Arriving(coming[e][k])]]
          = ComesOf(saved, coming)
  BY <1>2 DEF ComesOf, Arrivals
<1> QED BY <1>3, <1>4

LEMMA ViewNext ==
    ASSUME WireInv'
    PROVE  /\ [e \in Ends |-> Whole(buffer[e])]' = HoldsOf(saved', buffer')
           /\ [e \in Ends |-> [k \in DOMAIN coming[e] |-> Arriving(coming[e][k])]]'
                  = ComesOf(saved', coming')
<1>1. ASSUME NEW e \in Ends PROVE Whole(buffer[e])' = WholeOf(saved', buffer'[e])
  BY DEF Whole, Intact, WholeOf
<1>2. ASSUME NEW e \in Ends, NEW k \in DOMAIN coming'[e]
      PROVE  Arriving(coming[e][k])' = ArrivingOf(saved', coming'[e][k])
  BY DEF Arriving, ArrivingOf, Cut
<1>3. [e \in Ends |-> Whole(buffer[e])]' = HoldsOf(saved', buffer')
  BY <1>1 DEF HoldsOf
<1>4. [e \in Ends |-> [k \in DOMAIN coming[e] |-> Arriving(coming[e][k])]]'
          = ComesOf(saved', coming')
  BY <1>2 DEF ComesOf, Arrivals
<1> QED BY <1>3, <1>4

LEMMA RefineInit == Init => AdapterView!AdapterInit
<1> SUFFICES ASSUME Init PROVE AdapterView!AdapterInit
  OBVIOUS
<1>1. WireInv
  BY WireInit
<1>2. HoldsOf(saved, buffer) = [e \in Ends |-> Zero]
  <2>1. ASSUME NEW e \in Ends PROVE Head(buffer[e]).msg = Zero
    BY DEF Init, Zeroes
  <2> QED BY <2>1, NoMessage DEF HoldsOf, WholeOf
<1>3. ComesOf(saved, coming) = [e \in Ends |-> <<>>]
  BY DEF ComesOf, Arrivals, Init
<1> QED BY <1>1, <1>2, <1>3, ViewNow
     DEF Init, AdapterView!AdapterInit, Zero, AdapterView!Zero, Nothing, AdapterView!Nothing

\* A message keeps its size, and so its place in a buffer, once it is saved.
LEMMA WholeKept ==
    ASSUME NEW layers \in Layers, NEW sv, NEW tv,
           Head(layers).msg # Zero => tv[Head(layers).msg] = sv[Head(layers).msg]
    PROVE  WholeOf(tv, layers) = WholeOf(sv, layers)
BY NoMessage DEF WholeOf

LEMMA AppendFunction ==
    ASSUME NEW T, NEW t \in Seq(T), NEW m \in T
    PROVE  Append(t, m) = [k \in 1..Len(Append(t, m)) |-> Append(t, m)[k]]
<1>1. Append(t, m) \in Seq(T)
  OBVIOUS
<1>2. ASSUME NEW w \in Seq(T) PROVE w = [k \in 1..Len(w) |-> w[k]]
  OBVIOUS
<1> QED BY <1>1, <1>2

LEMMA RefineSend ==
    ASSUME WireInv, WireInv', NEW e \in Ends, SendCiphertext(e)
    PROVE  AdapterView!Send(e)
<1>1. PICK m \in Messages, n \in Nat, new \in Packets : SendEffect(e, m, n, new)
  BY SendFacts
<1>2. /\ e \notin dead /\ saved[m] = 0
      /\ n > 0 /\ n <= BufferSize(degree)
      /\ new.layers = buffer'[e] /\ new.bytes = BufferSize(degree)
      /\ Head(new.layers).msg = m /\ Head(new.layers).end = n
      /\ \A f \in Ends \ {e} : buffer'[f] = buffer[f]
      /\ UNCHANGED <<dead, degree, loaded>>
  BY <1>1 DEF SendEffect
<1>3. \A k \in Messages : saved'[k] = IF k = m THEN n ELSE saved[k]
  BY <1>1 DEF SendEffect
<1>4. coming' = [coming EXCEPT ![Peer(e)] = Append(@, new)] /\ Peer(e) \in Ends
  BY <1>1, TwoEnds DEF SendEffect
<1>5. HoldsOf(saved', buffer') = [HoldsOf(saved, buffer) EXCEPT ![e] = m]
  <2>1. WholeOf(saved', buffer'[e]) = m
    BY <1>2, <1>3 DEF WholeOf
  <2>2. ASSUME NEW f \in Ends \ {e} PROVE WholeOf(saved', buffer'[f]) = WholeOf(saved, buffer[f])
    <3>1. buffer'[f] = buffer[f] /\ buffer[f] \in Layers
      BY <1>2 DEF WireInv
    <3>2. ASSUME Head(buffer[f]).msg # Zero
          PROVE  saved'[Head(buffer[f]).msg] = saved[Head(buffer[f]).msg]
      <4>1. Head(buffer[f]).msg \in Messages
        BY <3>1, <3>2, HeadFacts
      <4>2. Head(buffer[f]).msg # m
        BY <1>2, <3>2 DEF WireInv
      <4> QED BY <1>3, <4>1, <4>2
    <3> QED BY <3>1, <3>2, WholeKept
  <2> QED BY <2>1, <2>2 DEF HoldsOf
<1>6. PICK a : a = [msg |-> m, part |-> "all"] /\ ArrivingOf(saved', new) = a
  <2>1. ~(new.bytes < n)
    BY <1>2 DEF Packets
  <2> QED BY <1>2, <1>3, <2>1 DEF ArrivingOf
<1>7. ASSUME NEW f \in Ends, NEW k \in DOMAIN coming[f]
      PROVE  ArrivingOf(saved', coming[f][k]) = ArrivingOf(saved, coming[f][k])
  <2>1. WellFormed(f, coming[f][k])
    BY DEF WireInv
  <2>2. PICK h \in Messages : h = Head(coming[f][k].layers).msg /\ 0 < saved[h]
    BY <2>1 DEF WellFormed
  <2>3. saved'[h] = saved[h]
    BY <1>2, <1>3, <2>2
  <2> QED BY <2>2, <2>3 DEF ArrivingOf
<1>8. ComesOf(saved', coming') = [ComesOf(saved, coming) EXCEPT ![Peer(e)] = Append(@, a)]
  <2>1. PICK s \in Seq(Packets) : s = coming[Peer(e)]
    BY <1>4 DEF WireInv
  <2>2. coming'[Peer(e)] = Append(s, new)
    BY <1>4, <2>1 DEF WireInv
  <2>3. Arrivals(saved', Append(s, new)) = Append(Arrivals(saved, s), a)
    <3>1. PICK t : t = [k \in DOMAIN s |-> ArrivingOf(saved, s[k])]
      OBVIOUS
    <3>2. DOMAIN s = 1..Len(s) /\ Len(s) \in Nat
      BY <2>1
    <3> DEFINE T == {ArrivingOf(saved, s[k]) : k \in DOMAIN s} \cup {a}
    <3>3. t \in Seq(T) /\ a \in T /\ Len(t) = Len(s)
      BY <3>1, <3>2
    <3> HIDE DEF T
    <3>4. DOMAIN Append(t, a) = 1..(Len(s) + 1) /\ Len(Append(t, a)) = Len(s) + 1
      BY <3>2, <3>3
    <3>5. \A k \in 1..(Len(s) + 1) : Append(t, a)[k] = IF k = Len(s) + 1 THEN a ELSE t[k]
      BY <3>2, <3>3
    <3>6. /\ DOMAIN Append(s, new) = 1..(Len(s) + 1)
          /\ \A k \in 1..(Len(s) + 1) : Append(s, new)[k] = IF k = Len(s) + 1 THEN new ELSE s[k]
      BY <2>1, <3>2
    <3>7. \A k \in 1..(Len(s) + 1) : ArrivingOf(saved', Append(s, new)[k]) = Append(t, a)[k]
      <4> SUFFICES ASSUME NEW k \in 1..(Len(s) + 1)
                   PROVE  ArrivingOf(saved', Append(s, new)[k]) = Append(t, a)[k]
        OBVIOUS
      <4>1. CASE k = Len(s) + 1
        BY <1>6, <3>5, <3>6, <4>1
      <4>2. CASE k # Len(s) + 1
        <5>1. k \in DOMAIN s
          BY <3>2, <4>2
        <5>2. ArrivingOf(saved', s[k]) = ArrivingOf(saved, s[k])
          BY <1>4, <1>7, <2>1, <5>1
        <5> QED BY <3>1, <3>5, <3>6, <4>2, <5>1, <5>2
      <4> QED BY <4>1, <4>2
    <3>8. Append(t, a) = [k \in 1..Len(Append(t, a)) |-> Append(t, a)[k]]
      BY <3>3, AppendFunction
    <3> QED BY <3>1, <3>4, <3>6, <3>7, <3>8 DEF Arrivals
  <2>4. ASSUME NEW f \in Ends \ {Peer(e)} PROVE coming'[f] = coming[f]
    BY <1>4 DEF WireInv
  <2>5. \A f \in Ends \ {Peer(e)} : Arrivals(saved', coming'[f]) = Arrivals(saved, coming[f])
    BY <1>7, <2>4 DEF Arrivals
  <2> QED BY <1>4, <2>1, <2>2, <2>3, <2>5 DEF ComesOf
<1> QED BY <1>2, <1>5, <1>6, <1>8, ViewNow, ViewNext DEF AdapterView!Send, AdapterView!Peer, Peer

LEMMA RefineLoads ==
    ASSUME WireInv, NEW e \in Ends, NEW layers \in Layers, Loads(e, layers)
    PROVE  AdapterView!Loads(e, WholeOf(saved, layers))
<1>1. PICK x \in Load(layers) :
          /\ loaded' = [loaded EXCEPT ![e] = x]
          /\ dead' = IF x = Threw THEN dead \cup {e} ELSE dead
  BY DEF Loads
<1>2. Torn \notin Messages /\ Zero \notin Messages
  BY NoMessage
<1>3. AdapterView!Threw = Threw /\ AdapterView!Torn = Torn /\ AdapterView!Garbage = Garbage
  BY DEF AdapterView!Threw, AdapterView!Torn, AdapterView!Garbage, Threw, Torn, Garbage
<1>4. CASE Intact(layers)
  <2>1. WholeOf(saved, layers) \in Messages /\ x = WholeOf(saved, layers) /\ x # Threw
    BY <1>4, NoMessage DEF Load, Intact, WholeOf
  <2> QED BY <1>1, <2>1 DEF AdapterView!Loads
<1>5. CASE ~Intact(layers) /\ Head(layers).msg = Zero
  <2>1. WholeOf(saved, layers) = Zero /\ x = Threw
    BY <1>2, <1>5 DEF Load, Intact, WholeOf
  <2> QED BY <1>1, <1>2, <1>3, <2>1 DEF AdapterView!Loads
<1>6. CASE ~Intact(layers) /\ Head(layers).msg # Zero
  <2>1. WholeOf(saved, layers) = Torn /\ (x = Threw \/ x = Garbage)
    BY <1>6 DEF Load, Intact, WholeOf
  <2>2. Threw # Garbage
    BY NoMessage
  <2> QED BY <1>1, <1>2, <1>3, <2>1, <2>2 DEF AdapterView!Loads
<1> QED BY <1>4, <1>5, <1>6

LEMMA ArrivalsFacts ==
    ASSUME NEW sv, NEW s \in Seq(Packets)
    PROVE  /\ Len(Arrivals(sv, s)) = Len(s)
           /\ DOMAIN Arrivals(sv, s) = 1..Len(s)
           /\ \E T : Arrivals(sv, s) \in Seq(T)
           /\ \A k \in 1..Len(s) : Arrivals(sv, s)[k] = ArrivingOf(sv, s[k])
<1> DEFINE T == {ArrivingOf(sv, s[k]) : k \in DOMAIN s}
<1>1. DOMAIN s = 1..Len(s) /\ Len(s) \in Nat
  OBVIOUS
<1>2. Arrivals(sv, s) \in Seq(T) /\ Len(Arrivals(sv, s)) = Len(s)
  BY <1>1 DEF Arrivals
<1> QED BY <1>1, <1>2 DEF Arrivals

LEMMA RefineReceive ==
    ASSUME WireInv, WireInv', NEW e \in Ends, ReceiveCiphertext(e)
    PROVE  AdapterView!Receive(e)
<1>1. /\ e \notin dead /\ coming[e] # <<>>
      /\ Reads(e, Head(coming[e]))
      /\ coming' = [coming EXCEPT ![e] = Tail(@)]
      /\ Loads(e, buffer'[e])
      /\ degree' = degree /\ saved' = saved
  BY DEF ReceiveCiphertext
<1>2. PICK s \in Seq(Packets) : s = coming[e] /\ s # <<>> /\ Len(s) > 0 /\ Head(s) = s[1]
  BY <1>1 DEF WireInv
<1>3. PICK x \in Packets : x = s[1]
  BY <1>2
<1>4. WellFormed(e, x)
  BY <1>2, <1>3 DEF WireInv
<1>5. PICK h \in Messages : h = Head(x.layers).msg
  BY <1>4 DEF WellFormed
<1>6. /\ buffer' \in [Ends -> Layers] /\ \A f \in Ends \ {e} : buffer'[f] = buffer[f]
      /\ \/ buffer'[e] = buffer[e] /\ Cut(x)
         \/ Head(buffer'[e]).msg = h /\ (Intact(buffer'[e]) \/ Cut(x))
  BY <1>1, <1>2, <1>3, <1>4, <1>5, ReadsFacts
<1>7. PICK a : a = ArrivingOf(saved, x) /\ a.msg = h /\ (a.part = "some" <=> Cut(x))
  <2>1. ArrivingOf(saved, x) = [msg |-> h, part |-> IF Cut(x) THEN "some" ELSE "all"]
    BY <1>5 DEF ArrivingOf, Cut
  <2> QED BY <2>1
<1>8. PICK content : content = WholeOf(saved, buffer'[e])
  OBVIOUS
<1>9. HoldsOf(saved, buffer)[e] = WholeOf(saved, buffer[e])
  BY DEF HoldsOf
<1>10. content \in {a.msg} \cup (IF a.part = "some" THEN {Torn, HoldsOf(saved, buffer)[e]} ELSE {})
  <2>1. CASE buffer'[e] = buffer[e] /\ Cut(x)
    BY <1>7, <1>8, <1>9, <2>1
  <2>2. CASE Head(buffer'[e]).msg = h /\ Intact(buffer'[e])
    BY <1>7, <1>8, <2>2 DEF WholeOf, Intact
  <2>3. CASE Head(buffer'[e]).msg = h /\ Cut(x)
    <3>1. h # Zero
      BY NoMessage
    <3>2. content = h \/ content = Torn
      BY <1>8, <2>3, <3>1 DEF WholeOf
    <3> QED BY <1>7, <2>3, <3>2
  <2> QED BY <1>6, <2>1, <2>2, <2>3
<1>11. HoldsOf(saved', buffer') = [HoldsOf(saved, buffer) EXCEPT ![e] = content]
  BY <1>1, <1>6, <1>8 DEF HoldsOf
<1>12. /\ ComesOf(saved, coming)[e] = Arrivals(saved, s)
       /\ ComesOf(saved', coming') = [ComesOf(saved, coming) EXCEPT ![e] = Arrivals(saved, Tail(s))]
  BY <1>1, <1>2 DEF ComesOf, WireInv
<1>13. PICK T : Arrivals(saved, s) \in Seq(T)
  BY ArrivalsFacts
<1>14. PICK t \in Seq(T) : t = Arrivals(saved, s) /\ Len(t) = Len(s)
  BY <1>13, ArrivalsFacts
<1>15. t # <<>> /\ Head(t) = a
  BY <1>2, <1>3, <1>7, <1>14, ArrivalsFacts
<1>16. Arrivals(saved, Tail(s)) = Tail(t)
  <2>1. Tail(s) \in Seq(Packets) /\ Len(Tail(s)) = Len(s) - 1 /\ \A k \in 1..(Len(s) - 1) : Tail(s)[k] = s[k + 1]
    BY <1>2
  <2>2. Tail(t) \in Seq(T) /\ Len(Tail(t)) = Len(s) - 1 /\ \A k \in 1..(Len(s) - 1) : Tail(t)[k] = t[k + 1]
    BY <1>2, <1>14, <1>15
  <2>3. \A k \in 1..(Len(s) - 1) : k + 1 \in 1..Len(s)
    BY <1>2
  <2>4. \A k \in 1..(Len(s) - 1) : Tail(t)[k] = ArrivingOf(saved, s[k + 1])
    BY <1>14, <2>2, <2>3, ArrivalsFacts
  <2>5. \A k \in 1..(Len(s) - 1) : Arrivals(saved, Tail(s))[k] = Tail(t)[k]
    <3>1. PICK r \in Seq(Packets) : r = Tail(s) /\ Len(r) = Len(s) - 1 /\ \A k \in 1..(Len(s) - 1) : r[k] = s[k + 1]
      BY <2>1
    <3>2. \A k \in 1..Len(r) : Arrivals(saved, r)[k] = ArrivingOf(saved, r[k])
      BY ArrivalsFacts
    <3> QED BY <2>4, <3>1, <3>2
  <2>6. PICK U : Arrivals(saved, Tail(s)) \in Seq(U)
    BY <2>1, ArrivalsFacts
  <2>7. PICK u \in Seq(U) : u = Arrivals(saved, Tail(s)) /\ Len(u) = Len(s) - 1
    BY <2>1, <2>6, ArrivalsFacts
  <2>8. PICK r \in Seq(T) : r = Tail(t) /\ Len(r) = Len(s) - 1
    BY <2>2
  <2>9. u = r
    BY <2>5, <2>7, <2>8
  <2> QED BY <2>7, <2>8, <2>9
<1>17. AdapterView!Loads(e, content)
  <2>1. buffer'[e] \in Layers
    BY <1>6
  <2> QED BY <1>1, <1>8, <2>1, RefineLoads
<1>18. /\ ComesOf(saved, coming)[e] # <<>>
       /\ Head(ComesOf(saved, coming)[e]) = a
       /\ Tail(ComesOf(saved, coming)[e]) = Arrivals(saved, Tail(s))
  BY <1>12, <1>14, <1>15, <1>16
<1>19. ComesOf(saved', coming') = [ComesOf(saved, coming) EXCEPT ![e] = Tail(@)]
  BY <1>12, <1>18 DEF ComesOf
<1>20. AdapterView!Torn = Torn
  BY DEF AdapterView!Torn, Torn
<1> QED BY <1>1, <1>10, <1>11, <1>17, <1>18, <1>19, <1>20, ViewNow, ViewNext DEF AdapterView!Receive

LEMMA RefineNothing ==
    ASSUME WireInv, WireInv', NEW e \in Ends, ReceiveNothing(e)
    PROVE  AdapterView!ReceiveNothing(e)
<1>1. /\ e \notin dead /\ coming[e] = <<>> /\ Peer(e) \in dead
      /\ Loads(e, buffer[e])
      /\ saved' = saved /\ buffer' = buffer /\ coming' = coming
  BY DEF ReceiveNothing
<1>2. AdapterView!Loads(e, HoldsOf(saved, buffer)[e])
  <2>1. HoldsOf(saved, buffer)[e] = WholeOf(saved, buffer[e]) /\ buffer[e] \in Layers
    BY DEF HoldsOf, WireInv
  <2> QED BY <1>1, <2>1, RefineLoads
<1>3. ComesOf(saved, coming)[e] = <<>>
  BY <1>1 DEF ComesOf, Arrivals
<1>4. HoldsOf(saved', buffer') = HoldsOf(saved, buffer) /\ ComesOf(saved', coming') = ComesOf(saved, coming)
  BY <1>1
<1> QED BY <1>1, <1>2, <1>3, <1>4, ViewNow, ViewNext
     DEF AdapterView!ReceiveNothing, AdapterView!Peer, Peer

LEMMA RefineDie ==
    ASSUME WireInv, WireInv', NEW e \in Ends, Die(e)
    PROVE  AdapterView!Die(e)
<1>1. saved \in [Messages -> Nat] /\ Fits
  BY DEF WireInv, SavedInv
<1>2. PICK s \in Seq(Packets) : s = coming[Peer(e)] /\ Peer(e) \in Ends /\ Peer(Peer(e)) = e
  BY TwoEnds DEF WireInv
<1>3. PICK n \in 0..Len(s) :
          /\ e \notin dead /\ dead' = dead \cup {e}
          /\ saved' = saved /\ buffer' = buffer /\ loaded' = loaded
          /\ \/ coming' = [coming EXCEPT ![Peer(e)] = SubSeq(@, 1, n)]
             \/ /\ n > 0
                /\ \E b \in Cuts : coming' = [coming EXCEPT ![Peer(e)] =
                                                 [SubSeq(@, 1, n) EXCEPT ![n].bytes = b]]
  BY <1>2 DEF Die
<1>4. PICK r \in Seq(Packets) : r = SubSeq(s, 1, n) /\ Len(r) = n /\ \A k \in 1..n : r[k] = s[k]
  BY PrefixFacts
<1>5. PICK T : Arrivals(saved, s) \in Seq(T)
  BY ArrivalsFacts
<1>6. PICK t \in Seq(T) : /\ t = Arrivals(saved, s) /\ Len(t) = Len(s)
                          /\ \A k \in 1..Len(s) : t[k] = ArrivingOf(saved, s[k])
  BY <1>5, ArrivalsFacts
<1>7. Len(t) = Len(s) /\ n \in 0..Len(t)
  BY <1>6
<1>8. PICK p \in Seq(T) : p = SubSeq(t, 1, n) /\ Len(p) = n /\ \A k \in 1..n : p[k] = t[k]
  <2>1. SubSeq(t, 1, n) \in Seq(T) /\ Len(SubSeq(t, 1, n)) = n
    BY <1>7, PrefixFacts
  <2>2. \A k \in 1..n : SubSeq(t, 1, n)[k] = t[k]
    BY <1>7, PrefixFacts
  <2> QED BY <2>1, <2>2
<1>9. ComesOf(saved, coming)[Peer(e)] = t
  BY <1>2, <1>6 DEF ComesOf
<1>10. ASSUME NEW u, coming' = [coming EXCEPT ![Peer(e)] = u]
      PROVE  ComesOf(saved', coming') = [ComesOf(saved, coming) EXCEPT ![Peer(e)] = Arrivals(saved, u)]
  BY <1>2, <1>3, <1>10 DEF ComesOf, WireInv
<1>11. HoldsOf(saved', buffer') = HoldsOf(saved, buffer)
  BY <1>3
<1>12. ASSUME NEW u \in Seq(Packets), Len(u) = n, NEW U, NEW q \in Seq(U), Len(q) = n,
              \A k \in 1..n : ArrivingOf(saved, u[k]) = q[k]
       PROVE  Arrivals(saved, u) = q
  <2>1. DOMAIN q = 1..n /\ q = [k \in 1..n |-> q[k]] /\ DOMAIN u = 1..n
    BY <1>12
  <2> QED BY <1>12, <2>1 DEF Arrivals
<1>13. Arrivals(saved, r) = p
  <2>1. \A k \in 1..n : ArrivingOf(saved, r[k]) = p[k]
    BY <1>4, <1>6, <1>8
  <2> QED BY <1>4, <1>8, <1>12, <2>1
<1>14. CASE coming' = [coming EXCEPT ![Peer(e)] = SubSeq(@, 1, n)]
  <2>1. coming' = [coming EXCEPT ![Peer(e)] = r]
    BY <1>2, <1>4, <1>14
  <2>2. ComesOf(saved', coming') = [ComesOf(saved, coming) EXCEPT ![Peer(e)] = SubSeq(@, 1, n)]
    BY <1>8, <1>9, <1>10, <1>13, <2>1 DEF ComesOf
  <2> QED BY <1>2, <1>3, <1>9, <1>7, <1>11, <2>2, ViewNow, ViewNext
       DEF AdapterView!Die, AdapterView!Peer, Peer
<1>15. ASSUME n > 0, NEW b \in Cuts,
              coming' = [coming EXCEPT ![Peer(e)] = [SubSeq(@, 1, n) EXCEPT ![n].bytes = b]]
       PROVE  AdapterView!Die(e)
  <2>1. PICK x \in Packets : x = s[n] /\ x = r[n] /\ WellFormed(Peer(e), x)
    <3>1. n \in DOMAIN s /\ n \in 1..n
      BY <1>15
    <3>2. WellFormed(Peer(e), s[n])
      BY <1>2, <3>1 DEF WireInv
    <3> QED BY <1>4, <3>1, <3>2
  <2>2. PICK h \in Messages : h = Head(x.layers).msg
    BY <2>1 DEF WellFormed
  <2>3. saved[h] <= Head(x.layers).end /\ x.bytes = BufferSize(degree)
    BY <1>2, <1>3, <2>1, <2>2 DEF WellFormed
  <2>4. ArrivingOf(saved, x) = [msg |-> h, part |-> "all"]
    <3>1. ~(x.bytes < saved[h])
      BY <1>1, <2>1, <2>2, <2>3 DEF Packets, Fits
    <3> QED BY <2>2, <3>1 DEF ArrivingOf
  <2>5. PICK y \in Packets : y = [x EXCEPT !.bytes = b] /\ y.layers = x.layers /\ y.bytes = b
    <3>1. b \in Nat \ {0}
      BY <1>15, WireAssumption
    <3> QED BY <3>1, CutFacts
  <2>6. ArrivingOf(saved, y) = [msg |-> h, part |-> IF saved[h] <= b THEN "all" ELSE "some"]
    <3>1. b < saved[h] <=> ~(saved[h] <= b)
      BY <1>1, <1>15, WireAssumption
    <3> QED BY <2>2, <2>5, <3>1 DEF ArrivingOf
  <2>7. PICK u \in Seq(Packets) : u = [r EXCEPT ![n] = y] /\ Len(u) = n
                                  /\ \A k \in 1..n : u[k] = IF k = n THEN y ELSE r[k]
    <3>1. n \in 1..n /\ DOMAIN r = 1..n
      BY <1>4, <1>15
    <3>2. [r EXCEPT ![n] = y] \in Seq(Packets) /\ Len([r EXCEPT ![n] = y]) = n
      BY <1>4, <3>1
    <3>3. \A k \in 1..n : [r EXCEPT ![n] = y][k] = IF k = n THEN y ELSE r[k]
      BY <3>1
    <3> QED BY <3>2, <3>3
  <2>8. coming' = [coming EXCEPT ![Peer(e)] = u]
    BY <1>2, <1>4, <1>15, <2>1, <2>5, <2>7
  <2>9. CASE saved[h] <= b
    <3>1. \A k \in 1..n : ArrivingOf(saved, u[k]) = p[k]
      BY <1>4, <1>6, <1>8, <1>15, <2>1, <2>4, <2>6, <2>7, <2>9
    <3>2. Arrivals(saved, u) = p
      BY <1>8, <1>12, <2>7, <3>1
    <3>3. ComesOf(saved', coming') = [ComesOf(saved, coming) EXCEPT ![Peer(e)] = SubSeq(@, 1, n)]
      BY <1>8, <1>9, <1>10, <2>8, <3>2 DEF ComesOf
    <3> QED BY <1>2, <1>3, <1>9, <1>7, <1>11, <3>3, ViewNow, ViewNext
         DEF AdapterView!Die, AdapterView!Peer, Peer
  <2>10. CASE ~(saved[h] <= b)
    <3>1. PICK z : z = [msg |-> h, part |-> "some"]
      OBVIOUS
    <3>2. PICK q \in Seq(T \cup {z}) : q = [p EXCEPT ![n] = z] /\ Len(q) = n
                                  /\ \A k \in 1..n : q[k] = IF k = n THEN z ELSE p[k]
      <4>1. n \in 1..n /\ DOMAIN p = 1..n
        BY <1>8, <1>15
      <4>2. \A k \in 1..n : [p EXCEPT ![n] = z][k] = IF k = n THEN z ELSE p[k]
        BY <4>1
      <4>3. \A k \in 1..n : p[k] \in T
        BY <1>8, <4>1
      <4>4. [p EXCEPT ![n] = z] = [k \in 1..n |-> IF k = n THEN z ELSE p[k]]
        BY <4>1
      <4>5. [k \in 1..n |-> IF k = n THEN z ELSE p[k]] \in Seq(T \cup {z})
        BY <4>3
      <4>6. Len([k \in 1..n |-> IF k = n THEN z ELSE p[k]]) = n
        OBVIOUS
      <4> QED BY <4>2, <4>4, <4>5, <4>6
    <3>3. \A k \in 1..n : ArrivingOf(saved, u[k]) = q[k]
      BY <1>4, <1>6, <1>8, <1>15, <2>6, <2>7, <2>10, <3>2, <3>1
    <3>4. Arrivals(saved, u) = q
      BY <1>12, <2>7, <3>2, <3>3
    <3>5. [p EXCEPT ![n].part = "some"] = q
      <4>1. n \in 1..n /\ p[n] = [msg |-> h, part |-> "all"]
        <5>1. n \in 1..n /\ n \in 1..Len(s)
          BY <1>15
        <5>2. p[n] = t[n] /\ t[n] = ArrivingOf(saved, s[n])
          BY <1>6, <1>8, <5>1
        <5> QED BY <2>1, <2>4, <5>1, <5>2
      <4>2. [p[n] EXCEPT !.part = "some"] = z
        BY <3>1, <4>1
      <4> QED BY <3>2, <4>2
    <3>6. ComesOf(saved', coming') =
              [ComesOf(saved, coming) EXCEPT ![Peer(e)] = [SubSeq(@, 1, n) EXCEPT ![n].part = "some"]]
      <4>1. q = [SubSeq(ComesOf(saved, coming)[Peer(e)], 1, n) EXCEPT ![n].part = "some"]
        BY <1>8, <1>9, <3>5
      <4>2. ComesOf(saved', coming') = [ComesOf(saved, coming) EXCEPT ![Peer(e)] = q]
        BY <1>10, <2>8, <3>4
      <4> QED BY <1>2, <4>1, <4>2 DEF ComesOf
    <3> QED BY <1>2, <1>3, <1>9, <1>7, <1>11, <1>15, <3>6, ViewNow, ViewNext
         DEF AdapterView!Die, AdapterView!Peer, Peer
  <2> QED BY <2>9, <2>10
<1> QED BY <1>2, <1>3, <1>14, <1>15

LEMMA RefineStutter ==
    ASSUME WireInv, WireInv', UNCHANGED vars
    PROVE  UNCHANGED AdapterView!adapterVars
<1>1. HoldsOf(saved', buffer') = HoldsOf(saved, buffer) /\ ComesOf(saved', coming') = ComesOf(saved, coming)
  BY DEF vars
<1> QED BY <1>1, ViewNow, ViewNext DEF vars, AdapterView!adapterVars

\* Behind the layers of stale bytes there is the connection PirSession assumes:
\* save, send, receive and load of a ciphertext are one step each of a channel
\* that delivers whole messages in order until its sender dies.
THEOREM WireImplements == Spec => ImplementsAdapter
<1>1. Init => AdapterView!AdapterInit
  BY RefineInit
<1>2. WireInv /\ WireInv' /\ [Next]_vars => [AdapterView!AdapterNext]_(AdapterView!adapterVars)
  <2> SUFFICES ASSUME WireInv, WireInv', [Next]_vars
               PROVE  AdapterView!AdapterNext \/ UNCHANGED AdapterView!adapterVars
    OBVIOUS
  <2>1. ASSUME NEW e \in Ends, SendCiphertext(e) PROVE AdapterView!AdapterNext
    BY <2>1, RefineSend DEF AdapterView!AdapterNext
  <2>2. ASSUME NEW e \in Ends, ReceiveCiphertext(e) PROVE AdapterView!AdapterNext
    BY <2>2, RefineReceive DEF AdapterView!AdapterNext
  <2>3. ASSUME NEW e \in Ends, ReceiveNothing(e) PROVE AdapterView!AdapterNext
    BY <2>3, RefineNothing DEF AdapterView!AdapterNext
  <2>4. ASSUME NEW e \in Ends, Die(e) PROVE AdapterView!AdapterNext
    BY <2>4, RefineDie DEF AdapterView!AdapterNext
  <2>5. CASE UNCHANGED vars
    BY <2>5, RefineStutter
  <2> QED BY <2>1, <2>2, <2>3, <2>4, <2>5 DEF Next, Rest
<1> QED BY <1>1, <1>2, WireInit, WireNext, PTL DEF Spec, ImplementsAdapter, AdapterView!AdapterSpec
=============================================================================
