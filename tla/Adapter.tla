------------------------------ MODULE Adapter ------------------------------
(***************************************************************************)
(* What PirSession takes for granted of a connection between two adapters: *)
(* messages arrive whole, in order, once; a read that fails leaves what    *)
(* the buffer held, and load returns exactly that.  Only the death of its  *)
(* sender cuts a message off; reading that may also leave the buffer torn, *)
(* or as it was, or with the message whole.                                *)
(***************************************************************************)
EXTENDS Naturals, Sequences

CONSTANTS Ends, Messages   \* the two ends, and what they send

VARIABLES
    holds,    \* holds[e]: the message in the buffer of e, Zero or Torn
    coming,   \* coming[e]: [msg, part] on their way to e, part "some" when msg is cut off
    loaded,   \* loaded[e]: what load has returned last at e
    dead      \* ends whose process is gone
adapterVars == <<holds, coming, loaded, dead>>

\* What is no message: a buffer never written, one cut off, no load yet, the
\* exception, and what a load may make of bytes that are no message.
Zero    == <<"zero">>
Torn    == <<"torn">>
Nothing == <<"nothing">>
Threw   == <<"threw">>
Garbage == <<"garbage">>

Peer(e) == CHOOSE f \in Ends : f # e

AdapterInit ==
    /\ holds = [e \in Ends |-> Zero]
    /\ coming = [e \in Ends |-> <<>>]
    /\ loaded = [e \in Ends |-> Nothing]
    /\ dead = {}

Send(e) ==
    /\ e \notin dead
    /\ \E m \in Messages : /\ holds' = [holds EXCEPT ![e] = m]
                           /\ coming' = [coming EXCEPT ![Peer(e)] =
                                               Append(@, [msg |-> m, part |-> "all"])]
    /\ UNCHANGED <<loaded, dead>>

\* load gives the message the buffer holds; of a buffer that holds none, an
\* exception that ends the process or, when it is torn, what is no message.
Loads(e, content) ==
    \/ /\ content \in Messages
       /\ loaded' = [loaded EXCEPT ![e] = content]
       /\ UNCHANGED dead
    \/ /\ content \notin Messages
       /\ loaded' = [loaded EXCEPT ![e] = Threw]
       /\ dead' = dead \cup {e}
    \/ /\ content = Torn
       /\ loaded' = [loaded EXCEPT ![e] = Garbage]
       /\ UNCHANGED dead

Receive(e) ==
    /\ e \notin dead /\ coming[e] # <<>>
    /\ \E content \in {Head(coming[e]).msg} \cup
                       (IF Head(coming[e]).part = "some" THEN {Torn, holds[e]} ELSE {}) :
          /\ holds' = [holds EXCEPT ![e] = content]
          /\ Loads(e, content)
    /\ coming' = [coming EXCEPT ![e] = Tail(@)]

ReceiveNothing(e) ==
    /\ e \notin dead /\ coming[e] = <<>> /\ Peer(e) \in dead
    /\ Loads(e, holds[e])
    /\ UNCHANGED <<holds, coming>>

\* Of what a dead process has sent last, some may be lost or cut off.
Die(e) ==
    /\ e \notin dead
    /\ dead' = dead \cup {e}
    /\ \E n \in 0..Len(coming[Peer(e)]) :
          \/ coming' = [coming EXCEPT ![Peer(e)] = SubSeq(@, 1, n)]
          \/ n > 0 /\ coming' = [coming EXCEPT ![Peer(e)] =
                                        [SubSeq(@, 1, n) EXCEPT ![n].part = "some"]]
    /\ UNCHANGED <<holds, loaded>>

AdapterNext == \E e \in Ends : Send(e) \/ Receive(e) \/ ReceiveNothing(e) \/ Die(e)
AdapterSpec == AdapterInit /\ [][AdapterNext]_adapterVars
=============================================================================
