---------------------------- MODULE MCPirSession ----------------------------
(* Instances of PirSession for TLC: what the servers were started with.    *)
EXTENDS PirSession

TwoImagesEach == [s \in Servers |-> 2]
ThreeImagesEach == [s \in Servers |-> 3]
\* Server 1 was started with one image more than the client asks about,
\* server 2 with one less, the others with as many.
Mismatched == [s \in Servers |-> CASE s = 1 -> ClientImages + 1
                                   [] s = 2 -> ClientImages - 1
                                   [] OTHER -> ClientImages]

NoRows == {}
\* The last row of server 4, which has as many images as the client, is missing
\* or too long for one ciphertext.
LastRowOfFourth == {<<4, ClientImages - 1>>}
Everyone == 0..NumServers
ServersOnly == 1..NumServers
=============================================================================
