----------------------------- MODULE Rendezvous -----------------------------
(***************************************************************************)
(* Which client gets which server.  Server processes come and go on ports, *)
(* each accepts one connection and closes its acceptor; clients connect to *)
(* the ports of their list, one after the other, and are connected as soon *)
(* as the kernel has put them into the backlog of a listening socket.      *)
(* What client and server say to each other once they have met is the      *)
(* business of PirSession; here an exchange is answered or it is not.      *)
(***************************************************************************)
EXTENDS Naturals, Sequences, RunnerConfig

CONSTANTS
    Servers,      \* server processes over time
    Clients,      \* client processes over time
    ServerPort    \* ServerPort[s]: the -p of server s

ASSUME PortsAssumption == ServerPort \in [Servers -> 0..PortSpace - 1]

VARIABLES
    sst,       \* sst[s]: where server s is
    backlog,   \* backlog[s]: connections the acceptor of s has not accepted
    peer,      \* peer[s]: the connections s has accepted, one at most
    cst,       \* cst[c]: where client c is
    sockets,   \* sockets[c]: the ports client c connects to
    conns,     \* conns[c]: the server behind each of its adapters
    answered,  \* connections whose server has sent its response
    result     \* result[c]: what c has written to its output file

serverVars == <<sst, backlog, peer>>
clientVars == <<cst, sockets, conns, result>>
meetVars == <<serverVars, clientVars, answered>>

\* Connection <<c, k>> is the one of the adapter k of client c.
Connections == Clients \X (Nat \ {0})

ServerPlaces == {"absent", "booting", "listening", "serving", "exited", "failed", "killed"}
ClientPlaces == {"absent", "connecting", "talking", "done", "failed"}

\* Every variable keeps its type; a server accepts once.
MeetTypeOK ==
    /\ sst \in [Servers -> ServerPlaces]
    /\ backlog \in [Servers -> Seq(Connections)]
    /\ peer \in [Servers -> SUBSET Connections]
    /\ cst \in [Clients -> ClientPlaces]
    /\ sockets \in [Clients -> Seq(0..PortSpace - 1)]
    /\ conns \in [Clients -> Seq(Servers)]
    /\ answered \subseteq Connections
    /\ result \in [Clients -> {"nothing", "image", "wrong"}]

MeetInit ==
    /\ sst = [s \in Servers |-> "absent"]
    /\ backlog = [s \in Servers |-> <<>>]
    /\ peer = [s \in Servers |-> {}]
    /\ cst = [c \in Clients |-> "absent"]
    /\ sockets = [c \in Clients |-> <<>>]
    /\ conns = [c \in Clients |-> <<>>]
    /\ answered = {}
    /\ result = [c \in Clients |-> "nothing"]

-----------------------------------------------------------------------------
(* Servers.                                                                *)

StartServer(s) ==
    /\ sst[s] = "absent"
    /\ sst' = [sst EXCEPT ![s] = "booting"]
    /\ UNCHANGED <<backlog, peer, clientVars, answered>>

Listening(port) == {s \in Servers : sst[s] = "listening" /\ ServerPort[s] = port}

\* The acceptor is opened with SO_REUSEADDR: connections of an earlier process
\* do not keep the port, a socket that still listens does.
Bind(s) ==
    /\ sst[s] = "booting"
    /\ sst' = [sst EXCEPT ![s] =
                  IF Listening(ServerPort[s]) = {} THEN "listening" ELSE "failed"]
    /\ UNCHANGED <<backlog, peer, clientVars, answered>>

\* accept takes the oldest connection, of a client that may be gone already;
\* with the acceptor the rest of the backlog is reset.
\* Mutant: the acceptor stays open until the backlog has been accepted, too.
AcceptAgain(s) ==
    /\ sst[s] = "listening" /\ backlog[s] # <<>>
    /\ peer' = [peer EXCEPT ![s] = @ \cup {Head(backlog[s])}]
    /\ backlog' = [backlog EXCEPT ![s] = Tail(@)]
    /\ sst' = [sst EXCEPT ![s] = IF Len(backlog[s]) = 1 THEN "serving" ELSE @]
    /\ UNCHANGED <<clientVars, answered>>
Accept(s) ==
    /\ sst[s] = "listening" /\ backlog[s] # <<>>
    /\ peer' = [peer EXCEPT ![s] = @ \cup {Head(backlog[s])}]
    /\ backlog' = [backlog EXCEPT ![s] = <<>>]
    /\ sst' = [sst EXCEPT ![s] = "serving"]
    /\ UNCHANGED <<clientVars, answered>>

\* The process dies of a signal.
Kill(s) ==
    /\ sst[s] \in {"booting", "listening", "serving"}
    /\ sst' = [sst EXCEPT ![s] = "killed"]
    /\ backlog' = [backlog EXCEPT ![s] = <<>>]
    /\ UNCHANGED <<peer, clientVars, answered>>

-----------------------------------------------------------------------------
(* Connections.                                                            *)

Gone(c) == cst[c] \in {"done", "failed"}
\* Connection k of client c waits to be accepted, is accepted, has its answer.
Waiting(c, k) == <<c, k>> \in ToSet(backlog[conns[c][k]])
Served(c, k) == sst[conns[c][k]] = "serving" /\ <<c, k>> \in peer[conns[c][k]]
Answered(c, k) == <<c, k>> \in answered

\* respond: it needs the requests of all rows, and fetch_image writes row after
\* row to all servers, far more than a kernel buffers, so it waits while one of
\* them has not accepted yet.  If the client is gone, the reads of respond
\* return and the process ends.
\* Mutant: the process then accepts the next client.
RespondAgain(s) ==
    /\ sst[s] = "serving"
    /\ \E x \in peer[s] :
          /\ cst[x[1]] = "talking"
          /\ \A k \in 1..Len(conns[x[1]]) : ~Waiting(x[1], k)
          /\ answered' = answered \cup {x}
    /\ sst' = [sst EXCEPT ![s] = "listening"]
    /\ UNCHANGED <<backlog, peer, clientVars>>
Respond(s) ==
    /\ sst[s] = "serving"
    /\ \E x \in peer[s] :
          \/ /\ cst[x[1]] = "talking"
             /\ \A k \in 1..Len(conns[x[1]]) : ~Waiting(x[1], k)
             /\ answered' = answered \cup {x}
          \/ /\ Gone(x[1])
             /\ UNCHANGED answered
    /\ sst' = [sst EXCEPT ![s] = "exited"]
    /\ UNCHANGED <<backlog, peer, clientVars>>

-----------------------------------------------------------------------------
(* Clients.                                                                *)

\* main of the client, with its options and the lines of its config file.
StartClient(c, cli, lines) ==
    /\ cst[c] = "absent"
    /\ \/ /\ Refused(cli, lines)
          /\ cst' = [cst EXCEPT ![c] = "failed"]
          /\ UNCHANGED sockets
       \/ /\ ~Refused(cli, lines)
          /\ sockets' = [sockets EXCEPT ![c] = Sockets(cli, lines)]
          /\ cst' = [cst EXCEPT ![c] = "connecting"]
    /\ UNCHANGED <<conns, result, serverVars, answered>>

\* The next adapter of PIRClient connects, or throws when nobody listens.
Connect(c) ==
    LET port == sockets[c][Len(conns[c]) + 1]
    IN  /\ cst[c] = "connecting"
        /\ \/ /\ Listening(port) = {}
              /\ cst' = [cst EXCEPT ![c] = "failed"]
              /\ UNCHANGED <<conns, backlog>>
           \/ \E s \in Listening(port) :
                 /\ backlog' = [backlog EXCEPT ![s] = Append(@, <<c, Len(conns[c]) + 1>>)]
                 /\ conns' = [conns EXCEPT ![c] = Append(@, s)]
                 /\ cst' = [cst EXCEPT ![c] =
                               IF Len(conns'[c]) = Len(sockets[c]) THEN "talking" ELSE @]
        /\ UNCHANGED <<sockets, result, sst, peer, answered>>

\* A read of fetch_image returns: an answer, or the end of the connection.
Readable(c, k) == Answered(c, k) \/ ~(Waiting(c, k) \/ Served(c, k))
Complete(c) == \A k \in 1..Len(conns[c]) : Answered(c, k)

\* The rest of fetch_image.  Without the answer of some server the client's own
\* query takes its place, and the output is wrong or the process dies over it.
Finish(c) ==
    /\ cst[c] = "talking"
    /\ \A k \in 1..Len(conns[c]) : Readable(c, k)
    /\ \/ /\ cst' = [cst EXCEPT ![c] = "done"]
          /\ result' = [result EXCEPT ![c] = IF Complete(c) THEN "image" ELSE "wrong"]
       \/ /\ ~Complete(c)
          /\ cst' = [cst EXCEPT ![c] = "failed"]
          /\ UNCHANGED result
    /\ UNCHANGED <<sockets, conns, serverVars, answered>>

-----------------------------------------------------------------------------
(* Properties.                                                             *)

\* A connection belongs to the server its adapter has reached.
Reached(x, s) == x[2] \in DOMAIN conns[x[1]] /\ conns[x[1]][x[2]] = s

\* A server that has accepted is out of reach for everybody else, and only a
\* connection it accepted is answered.
MeetInv ==
    /\ MeetTypeOK
    /\ \A s \in Servers :
          /\ \A x, y \in peer[s] : x = y
          /\ \A x \in peer[s] \cup ToSet(backlog[s]) : Reached(x, s)
          /\ sst[s] \in {"absent", "booting", "listening"} => peer[s] = {}
          /\ sst[s] # "listening" => backlog[s] = <<>>
    /\ \A x \in answered : \E s \in Servers : x \in peer[s]

\* No two connections are answered by one process: a client that gets its image
\* got it from as many servers as its list is long, also when two of its server
\* strings name one port, and two clients never share a server.
AnswersDistinct ==
    \A x, y \in answered : x # y => conns[x[1]][x[2]] # conns[y[1]][y[2]]
=============================================================================
