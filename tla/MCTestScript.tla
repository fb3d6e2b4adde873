---------------------------- MODULE MCTestScript ----------------------------
(* An instance of TestScript: two images, a guest, and a port space of four. *)
EXTENDS TestScript

MCServers == {<<r, 1>> : r \in 1..2}
MCServerPort == [s \in MCServers |-> 1]
MCClients == 1..2 \cup {9}
At(n) == [host |-> "address", number |-> n]
\* With port 5 on a port space of 4: two strings for one port.
MCGuestLists == {<<At(1), At(5)>>, <<At(5)>>, <<>>}
MCGuestFiles == {<<>>, <<At(1)>>, <<[host |-> "name", number |-> 1]>>}
MCLeftovers == {0, 1, 2}
=============================================================================
