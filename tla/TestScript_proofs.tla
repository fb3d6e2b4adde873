-------------------------- MODULE TestScript_proofs --------------------------
(***************************************************************************)
(* Proofs about Rendezvous and TestScript: no server process answers two   *)
(* connections, for any number of servers, clients and guests.             *)
(***************************************************************************)
EXTENDS TestScript, TLAPS

\* What ToSet is for the sequences of the model.
LEMMA ToSetFacts ==
    ASSUME NEW S, NEW q \in Seq(S)
    PROVE  /\ ToSet(q) \subseteq S
           /\ \A x \in S : ToSet(Append(q, x)) = ToSet(q) \cup {x}
           /\ q # <<>> => Head(q) \in ToSet(q)
           /\ ToSet(<<>>) = {}
<1>1. ToSet(q) \subseteq S
  BY DEF ToSet
<1>2. ASSUME NEW x \in S PROVE ToSet(Append(q, x)) = ToSet(q) \cup {x}
  <2>1. Len(Append(q, x)) = Len(q) + 1 /\ Len(q) \in Nat
    OBVIOUS
  <2>2. \A i \in 1..Len(q) : Append(q, x)[i] = q[i]
    OBVIOUS
  <2>3. Append(q, x)[Len(q) + 1] = x
    OBVIOUS
  <2>4. DOMAIN Append(q, x) = 1..Len(q) + 1 /\ DOMAIN q = 1..Len(q)
    OBVIOUS
  <2> QED
    BY <2>1, <2>2, <2>3, <2>4 DEF ToSet
<1>3. q # <<>> => Head(q) \in ToSet(q)
  <2>1. q # <<>> => 1 \in DOMAIN q /\ Head(q) = q[1]
    OBVIOUS
  <2> QED
    BY <2>1 DEF ToSet
<1>4. ToSet(<<>>) = {}
  BY DEF ToSet
<1> QED
  BY <1>1, <1>2, <1>3, <1>4

LEMMA SocketsType ==
    ASSUME NEW cli \in Seq(ServerStrings), NEW lines \in Seq(ServerStrings)
    PROVE  Sockets(cli, lines) \in Seq(0..PortSpace - 1)
<1> DEFINE q == cli \o lines
<1>1. q \in Seq(ServerStrings)
  OBVIOUS
<1>2. \A k \in 1..Len(q) : q[k].number \in Nat
  <2> HIDE DEF q
  <2>1. \A k \in 1..Len(q) : q[k] \in ServerStrings
    BY <1>1
  <2> QED
    BY <2>1 DEF ServerStrings
<1>3. \A k \in 1..Len(q) : PortOf(q[k]) \in 0..PortSpace - 1
  BY <1>2, PortAssumption DEF PortOf
<1>4. Len(q) \in Nat
  BY <1>1
<1> HIDE DEF q
<1>5. [k \in 1..Len(q) |-> PortOf(q[k])] \in Seq(0..PortSpace - 1)
  BY <1>3, <1>4
<1> QED
  BY <1>5 DEF Sockets, q

LEMMA MeetInitial == MeetInit => MeetInv
<1> SUFFICES ASSUME MeetInit PROVE MeetInv
  OBVIOUS
<1>1. MeetTypeOK
  BY DEF MeetInit, MeetTypeOK, ServerPlaces, ClientPlaces
<1>2. \A s \in Servers : peer[s] = {} /\ backlog[s] = <<>> /\ sst[s] = "absent"
  BY DEF MeetInit
<1>3. ToSet(<<>>) = {}
  BY DEF ToSet
<1>4. \A s \in Servers : peer[s] \cup ToSet(backlog[s]) = {}
  BY <1>2, <1>3
<1>5. answered = {}
  BY DEF MeetInit
<1> QED
  BY <1>1, <1>2, <1>4, <1>5 DEF MeetInv

LEMMA StartServerKeeps == ASSUME MeetInv, NEW s \in Servers, StartServer(s) PROVE MeetInv'
BY DEF MeetInv, MeetTypeOK, StartServer, clientVars, ServerPlaces, Reached

LEMMA BindKeeps == ASSUME MeetInv, NEW s \in Servers, Bind(s) PROVE MeetInv'
BY DEF MeetInv, MeetTypeOK, Bind, clientVars, ServerPlaces, Reached

LEMMA KillKeeps == ASSUME MeetInv, NEW s \in Servers, Kill(s) PROVE MeetInv'
<1>1. MeetTypeOK'
  BY DEF MeetInv, MeetTypeOK, Kill, clientVars, ServerPlaces
<1>2. QED
  BY <1>1, ToSetFacts DEF MeetInv, MeetTypeOK, Kill, clientVars, Reached

LEMMA AcceptKeeps == ASSUME MeetInv, NEW s \in Servers, Accept(s) PROVE MeetInv'
<1> DEFINE x == Head(backlog[s])
<1>1. backlog[s] \in Seq(Connections) /\ backlog[s] # <<>> /\ peer[s] = {} /\ sst[s] = "listening"
  BY DEF MeetInv, MeetTypeOK, Accept
<1>2. x \in Connections /\ x \in ToSet(backlog[s])
  BY <1>1, ToSetFacts
<1> HIDE DEF x
<1>3. /\ peer' = [peer EXCEPT ![s] = {x}]
      /\ backlog' = [backlog EXCEPT ![s] = <<>>]
      /\ sst' = [sst EXCEPT ![s] = "serving"]
      /\ UNCHANGED <<clientVars, answered>>
  BY <1>1 DEF Accept, x, MeetInv, MeetTypeOK
<1>4. MeetTypeOK'
  BY <1>2, <1>3 DEF MeetInv, MeetTypeOK, clientVars, ServerPlaces
<1>5. Reached(x, s)
  BY <1>2 DEF MeetInv
<1>6. \A t \in Servers : \A y \in peer'[t] \cup ToSet(backlog'[t]) : Reached(y, t)'
  BY <1>2, <1>3, <1>5, ToSetFacts DEF MeetInv, MeetTypeOK, Reached, clientVars
<1>7. \A t \in Servers : peer[t] \subseteq peer'[t]
  BY <1>1, <1>3 DEF MeetInv, MeetTypeOK
<1> QED
  BY <1>1, <1>3, <1>4, <1>6, <1>7 DEF MeetInv, MeetTypeOK

LEMMA RespondKeeps == ASSUME MeetInv, NEW s \in Servers, Respond(s) PROVE MeetInv'
<1>1. PICK x \in peer[s] : answered' = answered \cup {x} \/ UNCHANGED answered
  BY DEF Respond
<1>2. x \in Connections
  BY DEF MeetInv, MeetTypeOK
<1>3. MeetTypeOK'
  BY <1>1, <1>2 DEF MeetInv, MeetTypeOK, Respond, clientVars, ServerPlaces
<1>4. \A y \in answered' : \E t \in Servers : y \in peer'[t]
  BY <1>1 DEF MeetInv, Respond
<1> QED
  BY <1>3, <1>4 DEF MeetInv, MeetTypeOK, Respond, clientVars, Reached

LEMMA StartClientKeeps ==
    ASSUME MeetInv, NEW c \in Clients, NEW cli \in Seq(ServerStrings),
           NEW lines \in Seq(ServerStrings), StartClient(c, cli, lines)
    PROVE  MeetInv'
<1>1. MeetTypeOK'
  <2>1. sockets' \in [Clients -> Seq(0..PortSpace - 1)]
    <3>1. Sockets(cli, lines) \in Seq(0..PortSpace - 1)
      BY SocketsType
    <3>2. sockets' = sockets \/ sockets' = [sockets EXCEPT ![c] = Sockets(cli, lines)]
      BY DEF StartClient
    <3>3. sockets \in [Clients -> Seq(0..PortSpace - 1)]
      BY DEF MeetInv, MeetTypeOK
    <3> QED
      BY <3>1, <3>2, <3>3
  <2>2. cst' \in [Clients -> ClientPlaces]
    <3>1. cst' = [cst EXCEPT ![c] = "failed"] \/ cst' = [cst EXCEPT ![c] = "connecting"]
      BY DEF StartClient
    <3>2. cst \in [Clients -> ClientPlaces]
      BY DEF MeetInv, MeetTypeOK
    <3> QED
      BY <3>1, <3>2 DEF ClientPlaces
  <2> QED
    BY <2>1, <2>2 DEF MeetInv, MeetTypeOK, StartClient, serverVars
<1> QED
  BY <1>1 DEF MeetInv, StartClient, serverVars, Reached

LEMMA ConnectKeeps == ASSUME MeetInv, NEW c \in Clients, Connect(c) PROVE MeetInv'
<1> DEFINE port == sockets[c][Len(conns[c]) + 1]
<1>0. PICK x \in Connections : x = <<c, Len(conns[c]) + 1>>
  <2>1. conns[c] \in Seq(Servers)
    BY DEF MeetInv, MeetTypeOK
  <2>2. Len(conns[c]) + 1 \in Nat \ {0}
    BY <2>1
  <2>3. <<c, Len(conns[c]) + 1>> \in Connections
    BY <2>2 DEF Connections
  <2> QED
    BY <2>3
<1>1. CASE UNCHANGED <<conns, backlog>> /\ cst' = [cst EXCEPT ![c] = "failed"]
  BY <1>1 DEF MeetInv, MeetTypeOK, Connect, ClientPlaces, Reached
<1>2. ASSUME NEW s \in Listening(port),
             backlog' = [backlog EXCEPT ![s] = Append(@, x)],
             conns' = [conns EXCEPT ![c] = Append(@, s)],
             cst' = [cst EXCEPT ![c] = IF Len(conns'[c]) = Len(sockets[c]) THEN "talking" ELSE @]
      PROVE  MeetInv'
  <2>1. s \in Servers /\ sst[s] = "listening"
    BY DEF Listening
  <2>2. conns[c] \in Seq(Servers) /\ backlog[s] \in Seq(Connections)
    BY <2>1 DEF MeetInv, MeetTypeOK
  <2>3. x \in Connections
    OBVIOUS
  <2>4. MeetTypeOK'
    BY <1>2, <2>1, <2>2, <2>3 DEF MeetInv, MeetTypeOK, Connect, ClientPlaces
  <2>5. \A y \in Connections, t \in Servers : Reached(y, t) => Reached(y, t)'
    BY <1>2, <2>1, <2>2 DEF Reached, Connections, MeetInv, MeetTypeOK
  <2>6. Reached(x, s)'
    <3>1. conns'[c] = Append(conns[c], s)
      BY <1>2 DEF MeetInv, MeetTypeOK
    <3>2. Len(conns[c]) + 1 \in DOMAIN conns'[c] /\ conns'[c][Len(conns[c]) + 1] = s
      BY <2>1, <2>2, <3>1
    <3>3. x[1] = c /\ x[2] = Len(conns[c]) + 1
      BY <1>0
    <3>4. x[2] \in DOMAIN conns'[x[1]] /\ conns'[x[1]][x[2]] = s
      BY <3>2, <3>3
    <3> QED
      BY <3>4 DEF Reached
  <2>7. \A t \in Servers : ToSet(backlog'[t]) \subseteq ToSet(backlog[t]) \cup (IF t = s THEN {x} ELSE {})
    BY <1>2, <2>1, <2>2, <2>3, ToSetFacts DEF MeetInv, MeetTypeOK
  <2>8. \A t \in Servers : ToSet(backlog[t]) \subseteq Connections /\ peer[t] \subseteq Connections
    BY ToSetFacts DEF MeetInv, MeetTypeOK
  <2>9. UNCHANGED <<sst, peer, answered>>
    BY DEF Connect
  <2>10. \A t \in Servers : \A y \in peer'[t] \cup ToSet(backlog'[t]) : Reached(y, t)'
    <3> SUFFICES ASSUME NEW t \in Servers, NEW y \in peer'[t] \cup ToSet(backlog'[t])
                 PROVE  Reached(y, t)'
      OBVIOUS
    <3>1. y \in peer[t] \cup ToSet(backlog[t]) \/ (t = s /\ y = x)
      BY <2>7, <2>9
    <3>2. ASSUME y \in peer[t] \cup ToSet(backlog[t]) PROVE Reached(y, t)'
      <4>1. Reached(y, t)
        BY <3>2 DEF MeetInv
      <4>2. y \in Connections
        BY <2>8, <3>2
      <4> QED
        BY <2>5, <4>1, <4>2
    <3>3. ASSUME t = s, y = x PROVE Reached(y, t)'
      BY <2>6, <3>3
    <3> QED
      BY <3>1, <3>2, <3>3
  <2>11. \A t \in Servers : sst'[t] # "listening" => backlog'[t] = <<>>
    BY <1>2, <2>1, <2>9 DEF MeetInv, MeetTypeOK
  <2> QED
    BY <2>4, <2>9, <2>10, <2>11 DEF MeetInv
<1> QED
  BY <1>0, <1>1, <1>2 DEF Connect

LEMMA FinishKeeps == ASSUME MeetInv, NEW c \in Clients, Finish(c) PROVE MeetInv'
<1>1. MeetTypeOK'
  BY DEF MeetInv, MeetTypeOK, Finish, serverVars, ClientPlaces
<1> QED
  BY <1>1 DEF MeetInv, Finish, serverVars, Reached

LEMMA UnchangedKeeps == ASSUME MeetInv, UNCHANGED meetVars PROVE MeetInv'
BY DEF MeetInv, MeetTypeOK, meetVars, serverVars, clientVars, Reached

\* The script hands its processes arguments of their types.
LEMMA ArgumentsType == Arguments \in Seq(ServerStrings) /\ <<>> \in Seq(ServerStrings)
BY ScriptAssumption DEF Arguments, ServerStrings, Hosts

LEMMA ScriptStepKeeps ==
    ASSUME MeetInv, ScriptStep, round \in 1..Rounds, spawned \in Nat
    PROVE  MeetInv'
<1>1. CASE PopenServer
  <2>1. ServerOf(round, spawned + 1) \in Servers
    BY <1>1, ScriptAssumption DEF PopenServer, ServerOf, RoundServers
  <2> QED
    BY <1>1, <2>1, StartServerKeeps DEF PopenServer
<1>2. CASE PopenClient
  BY <1>2, StartClientKeeps, ArgumentsType, ScriptAssumption DEF PopenClient
<1>3. CASE PopenRaises
  BY <1>3, UnchangedKeeps DEF PopenRaises
<1>4. CASE ClientReturns
  BY <1>4, UnchangedKeeps DEF ClientReturns
<1>5. CASE TimeoutExpired
  BY <1>5, UnchangedKeeps DEF TimeoutExpired
<1>6. CASE Compare
  BY <1>6, UnchangedKeeps DEF Compare
<1> QED
  BY <1>1, <1>2, <1>3, <1>4, <1>5, <1>6 DEF ScriptStep

\* The script's counters, as far as the processes it starts depend on them.
Counters == spawned \in Nat /\ (Running => round \in 1..Rounds)

LEMMA Initial == Init => MeetInv /\ Counters
BY MeetInitial, ScriptAssumption DEF Init, Counters, Running

LEMMA Step == ASSUME MeetInv, Counters, [Next]_vars PROVE MeetInv' /\ Counters'
<1>1. CASE ScriptStep
  <2>1. Running
    BY <1>1 DEF ScriptStep, PopenServer, PopenClient, PopenRaises, ClientReturns,
                TimeoutExpired, Compare, Running
  <2>2. round \in 1..Rounds /\ spawned \in Nat /\ Rounds \in Nat
    BY <2>1, ScriptAssumption DEF Counters
  <2>3. MeetInv'
    BY <1>1, <2>2, ScriptStepKeeps
  <2>4. \A v : Conclude(v) => Counters'
    BY <2>2 DEF Conclude, Counters, Running
  <2>5. Counters'
    BY <1>1, <2>2, <2>4 DEF ScriptStep, PopenServer, PopenClient, PopenRaises, ClientReturns,
                            TimeoutExpired, Compare, Running, Counters
  <2> QED
    BY <2>3, <2>5
<1>2. ASSUME NEW s \in Servers, ServerProcess(s) PROVE MeetInv' /\ Counters'
  BY <1>2, BindKeeps, AcceptKeeps, RespondKeeps, KillKeeps
     DEF ServerProcess, scriptVars, Counters, Running
<1>3. ASSUME NEW c \in Clients, ClientProcess(c) PROVE MeetInv' /\ Counters'
  BY <1>3, ConnectKeeps, FinishKeeps DEF ClientProcess, Counters, Running
<1>4. ASSUME NEW c \in Guests, GuestComes(c) PROVE MeetInv' /\ Counters'
  <2>1. PICK cli \in GuestLists, lines \in GuestFiles : StartClient(c, cli, lines)
    BY <1>4 DEF GuestComes
  <2>2. c \in Clients /\ cli \in Seq(ServerStrings) /\ lines \in Seq(ServerStrings)
    BY ScriptAssumption
  <2> QED
    BY <1>4, <2>1, <2>2, StartClientKeeps DEF GuestComes, scriptVars, Counters, Running
<1>5. CASE Idle \/ UNCHANGED vars
  BY <1>5, UnchangedKeeps DEF Idle, vars, scriptVars, Counters, Running
<1> QED
  BY <1>1, <1>2, <1>3, <1>4, <1>5 DEF Next

\* A server process that has accepted is out of reach for all others.
THEOREM Meeting == Spec => []MeetInv
<1>1. Spec => [](MeetInv /\ Counters)
  BY Initial, Step, PTL DEF Spec
<1> QED
  BY <1>1, PTL

\* No two connections are answered by one server process.
THEOREM DistinctAnswers == Spec => []AnswersDistinct
<1>1. MeetInv => AnswersDistinct
  <2> SUFFICES ASSUME MeetInv, NEW x \in answered, NEW y \in answered,
                      conns[x[1]][x[2]] = conns[y[1]][y[2]]
               PROVE  x = y
    BY DEF AnswersDistinct
  <2>1. PICK s \in Servers, t \in Servers : x \in peer[s] /\ y \in peer[t]
    BY DEF MeetInv
  <2>2. Reached(x, s) /\ Reached(y, t)
    BY <2>1 DEF MeetInv
  <2>3. s = t
    BY <2>2 DEF Reached
  <2>4. y \in peer[s]
    BY <2>1, <2>3
  <2>5. \A u, v \in peer[s] : u = v
    BY DEF MeetInv
  <2> QED
    BY <2>1, <2>4, <2>5
<1> QED
  BY <1>1, Meeting, PTL

-----------------------------------------------------------------------------
(* What the script prints.                                                 *)

\* A client has written nothing before it ends, and the file, like every round
\* that passed, is the image a client has retrieved or what was there at first.
FileInv ==
    /\ MeetInv /\ Counters
    /\ verdict \in [1..Rounds -> {"none", "Passed", "Failed", "Timeout"}]
    /\ \A c \in Clients : ~Gone(c) => result[c] = "nothing"
    /\ \A r \in 1..Rounds : file = r => result[r] = "image" \/ leftover = r
    /\ PassedMeansRetrieved

LEMMA FileInitial == Init => FileInv
BY Initial, ScriptAssumption
   DEF Init, MeetInit, FileInv, PassedMeansRetrieved, Gone

\* Steps that leave results and file alone and pass no round.
LEMMA FileUntouched ==
    ASSUME FileInv, MeetInv', Counters', UNCHANGED <<result, file, leftover>>,
           \A c \in Clients : Gone(c) => Gone(c)',
           verdict' \in [1..Rounds -> {"none", "Passed", "Failed", "Timeout"}],
           \A r \in 1..Rounds : verdict'[r] = "Passed" => verdict[r] = "Passed" \/ file = r
    PROVE  FileInv'
BY DEF FileInv, PassedMeansRetrieved

LEMMA FileScript == ASSUME FileInv, MeetInv', Counters', ScriptStep PROVE FileInv'
<1> USE DEF FileInv
<1>1. round \in 1..Rounds
  BY DEF ScriptStep, PopenServer, PopenClient, PopenRaises, ClientReturns,
         TimeoutExpired, Compare, Running, Counters
<1>2. ASSUME NEW v \in {"Passed", "Failed", "Timeout"}, Conclude(v), v = "Passed" => file = round
      PROVE  /\ verdict' \in [1..Rounds -> {"none", "Passed", "Failed", "Timeout"}]
             /\ \A r \in 1..Rounds : verdict'[r] = "Passed" => verdict[r] = "Passed" \/ file = r
  BY <1>1, <1>2 DEF Conclude
<1>3. CASE PopenServer
  BY <1>3, FileUntouched DEF PopenServer, StartServer, clientVars, Gone
<1>4. CASE PopenClient
  <2>1. UNCHANGED <<result, file, leftover, verdict>>
    BY <1>4 DEF PopenClient, StartClient
  <2>2. \A c \in Clients : Gone(c) => Gone(c)'
    BY <1>4, <1>1, ScriptAssumption DEF PopenClient, StartClient, Gone, MeetInv, MeetTypeOK
  <2> QED
    BY <2>1, <2>2, FileUntouched
<1>5. CASE PopenRaises
  <2>1. UNCHANGED <<result, file, leftover, cst>>
    BY <1>5 DEF PopenRaises, meetVars, clientVars
  <2> QED
    BY <1>2, <1>5, <2>1, FileUntouched DEF PopenRaises, Gone
<1>6. CASE ClientReturns
  BY <1>6, FileUntouched DEF ClientReturns, meetVars, clientVars, Gone
<1>7. CASE TimeoutExpired
  <2>1. UNCHANGED <<result, file, leftover, cst>>
    BY <1>7 DEF TimeoutExpired, meetVars, clientVars
  <2> QED
    BY <1>2, <1>7, <2>1, FileUntouched DEF TimeoutExpired, Gone
<1>8. CASE Compare
  <2>1. UNCHANGED <<result, file, leftover, cst>>
    BY <1>8 DEF Compare, meetVars, clientVars
  <2>2. \/ Conclude("Passed") /\ file = round
        \/ Conclude("Failed")
    BY <1>8 DEF Compare
  <2> QED
    BY <1>2, <2>1, <2>2, FileUntouched DEF Gone
<1> QED
  BY <1>3, <1>4, <1>5, <1>6, <1>7, <1>8 DEF ScriptStep

LEMMA FileServer ==
    ASSUME FileInv, MeetInv', Counters', NEW s \in Servers, ServerProcess(s)
    PROVE  FileInv'
<1>1. UNCHANGED clientVars
  BY DEF ServerProcess, Bind, Accept, Respond, Kill, clientVars
<1> QED
  BY <1>1, FileUntouched DEF ServerProcess, scriptVars, clientVars, Gone, FileInv

LEMMA FileGuest ==
    ASSUME FileInv, MeetInv', Counters', NEW c \in Guests, GuestComes(c)
    PROVE  FileInv'
<1>1. c \in Clients
  BY ScriptAssumption
<1>2. UNCHANGED result /\ \A d \in Clients : Gone(d) => Gone(d)'
  BY <1>1 DEF GuestComes, StartClient, Gone, FileInv, MeetInv, MeetTypeOK
<1> QED
  BY <1>2, FileUntouched DEF GuestComes, scriptVars, FileInv

LEMMA FileClient ==
    ASSUME FileInv, MeetInv', Counters', NEW c \in Clients, ClientProcess(c)
    PROVE  FileInv'
<1>1. CASE Connect(c) /\ UNCHANGED file
  <2>1. UNCHANGED result /\ \A d \in Clients : Gone(d) => Gone(d)'
    BY <1>1 DEF Connect, Gone, FileInv, MeetInv, MeetTypeOK
  <2> QED
    BY <1>1, <2>1, FileUntouched DEF ClientProcess, FileInv
<1>2. ASSUME Finish(c),
             file' = IF c \in Guests \/ cst'[c] = "failed" THEN file
                     ELSE IF result'[c] = "image" THEN c ELSE Garbage
      PROVE  FileInv'
  <2>1. /\ \A d \in Clients \ {c} : result'[d] = result[d] /\ Gone(d)' = Gone(d)
        /\ Gone(c)'
        /\ result[c] = "nothing"
    BY <1>2 DEF Finish, Gone, FileInv, MeetInv, MeetTypeOK
  <2>2. UNCHANGED <<leftover, verdict>>
    BY DEF ClientProcess
  <2>3. 1..Rounds \subseteq Clients /\ Garbage \notin 1..Rounds
    BY ScriptAssumption DEF Garbage
  <2>4. \A r \in 1..Rounds : file' = r => result'[r] = "image" \/ leftover' = r
    BY <1>2, <2>1, <2>2, <2>3 DEF FileInv
  <2>5. PassedMeansRetrieved'
    BY <2>1, <2>2, <2>3 DEF FileInv, PassedMeansRetrieved
  <2> QED
    BY <2>1, <2>2, <2>4, <2>5 DEF FileInv
<1> QED
  BY <1>1, <1>2 DEF ClientProcess

LEMMA FileStep == ASSUME FileInv, [Next]_vars PROVE FileInv'
<1>1. MeetInv' /\ Counters'
  BY Step DEF FileInv
<1>2. CASE Idle \/ UNCHANGED vars
  BY <1>1, <1>2, FileUntouched DEF Idle, vars, scriptVars, meetVars, clientVars, Gone, FileInv
<1> QED
  BY <1>1, <1>2, FileScript, FileServer, FileClient, FileGuest DEF Next

\* "Passed" is said only of rounds whose client has retrieved the image, or
\* whose image was in the file from the start.
THEOREM PassedRetrieved == Spec => []PassedMeansRetrieved
<1>1. FileInv /\ [Next]_vars => FileInv'
  BY FileStep
<1>2. FileInv => PassedMeansRetrieved
  BY DEF FileInv
<1> QED
  BY FileInitial, <1>1, <1>2, PTL DEF Spec

-----------------------------------------------------------------------------
(* What the script does not blame on a client.                             *)

\* A client of an earlier round, left running, has ended since.
Overwritten(r) == \E k \in 1..r - 1 : verdict[k] = "Timeout" /\ Gone(k)

\* Clients of the script are started by their rounds; one that still runs is
\* the one the script waits for or has timed out, so that a file with the image
\* of the round is lost to a late client only.
BlameInv ==
    /\ FileInv
    /\ \A c \in 1..Rounds : cst[c] # "absent" =>
          /\ c < round \/ (c = round /\ place # "spawn")
          /\ Gone(c) \/ (c = round /\ place = "wait") \/ verdict[c] = "Timeout"
    /\ place = "compare" => Gone(round)
    /\ \A r \in 1..Rounds : verdict[r] # "none" => r < round \/ ~Running
    /\ \A r \in 1..Rounds : r < round => verdict[r] # "none"
    /\ \A r \in 1..Rounds :
          verdict[r] \in {"none", "Failed"} /\ result[r] = "image" =>
              (verdict[r] = "none" /\ file = r) \/ Overwritten(r)

LEMMA BlameInitial == Init => BlameInv
BY FileInitial, ScriptAssumption DEF Init, MeetInit, BlameInv, Running, FileInv

\* The end of a round whose client has never run, has ended or is late.
LEMMA BlameConclude ==
    ASSUME BlameInv, FileInv', NEW v \in {"Passed", "Failed", "Timeout"},
           Running, Conclude(v), UNCHANGED <<cst, result, file>>,
           cst[round] = "absent" \/ Gone(round) \/ v = "Timeout",
           v = "Failed" => file # round \/ cst[round] = "absent"
    PROVE  BlameInv'
<1>0. round \in 1..Rounds /\ Rounds \in Nat
  BY ScriptAssumption DEF BlameInv, FileInv, Counters
<1>1. /\ verdict' = [verdict EXCEPT ![round] = v]
      /\ verdict[round] = "none"
      /\ verdict' \in [1..Rounds -> {"none", "Passed", "Failed", "Timeout"}]
  BY <1>0 DEF Conclude, BlameInv, FileInv
<1>2. \/ round < Rounds /\ round' = round + 1 /\ place' = "spawn"
      \/ round = Rounds /\ round' = round /\ place' = "end"
  BY <1>0 DEF Conclude
<1>3. \A c \in 1..Rounds : Gone(c)' <=> Gone(c)
  BY DEF Gone
<1>4. \A r \in 1..Rounds : r # round => verdict'[r] = verdict[r]
  BY <1>0, <1>1 DEF FileInv, BlameInv
<1>5. verdict'[round] = v
  BY <1>0, <1>1 DEF FileInv, BlameInv
<1>6. \A c \in 1..Rounds : cst[c] # "absent" => c <= round
  BY <1>0 DEF BlameInv
<1>7. \A c \in 1..Rounds : cst'[c] # "absent" =>
          /\ c < round' \/ (c = round' /\ place' # "spawn")
          /\ Gone(c)' \/ verdict'[c] = "Timeout"
  BY <1>0, <1>2, <1>3, <1>4, <1>5, <1>6 DEF BlameInv, Running
<1>8. place' # "compare" /\ (place' = "end" => ~Running')
  BY <1>2 DEF Running
<1>9. /\ \A r \in 1..Rounds : verdict'[r] # "none" => r < round' \/ ~Running'
      /\ \A r \in 1..Rounds : r < round' => verdict'[r] # "none"
  BY <1>0, <1>2, <1>4, <1>5, <1>8 DEF BlameInv
<1>10. \A r \in 1..Rounds : Overwritten(r) => Overwritten(r)'
  <2> SUFFICES ASSUME NEW r \in 1..Rounds, NEW k \in 1..r - 1,
                      verdict[k] = "Timeout", Gone(k)
               PROVE  Overwritten(r)'
    BY DEF Overwritten
  <2>1. k \in 1..Rounds /\ k # round
    BY <1>0, <1>1
  <2>2. verdict'[k] = "Timeout" /\ Gone(k)'
    BY <1>3, <1>4, <2>1
  <2> QED
    BY <2>2 DEF Overwritten
<1>11. ASSUME NEW r \in 1..Rounds,
              verdict'[r] \in {"none", "Failed"}, result'[r] = "image"
       PROVE  (verdict'[r] = "none" /\ file' = r) \/ Overwritten(r)'
  <2>1. CASE r # round
    BY <1>4, <1>10, <1>11, <2>1 DEF BlameInv
  <2>2. CASE r = round
    <3>1. v = "Failed" /\ result[round] = "image"
      BY <1>5, <1>11, <2>2
    <3>2. round \in Clients
      BY <1>0, ScriptAssumption
    <3>3. cst[round] # "absent"
      BY <3>1, <3>2 DEF BlameInv, FileInv, Gone
    <3>4. Overwritten(round)
      BY <1>0, <1>1, <3>1, <3>3 DEF BlameInv
    <3> QED
      BY <1>10, <2>2, <3>4
  <2> QED
    BY <2>1, <2>2
<1> QED
  BY <1>7, <1>8, <1>9, <1>11 DEF BlameInv

\* Steps of a script that stays in its round.
LEMMA BlameStays ==
    ASSUME BlameInv, FileInv', UNCHANGED <<round, verdict, result, file>>,
           \A c \in 1..Rounds : Gone(c) => Gone(c)',
           \A c \in 1..Rounds : cst'[c] # "absent" =>
              /\ cst[c] # "absent" \/ (c = round /\ place' = "wait")
              /\ c < round \/ (c = round /\ place' # "spawn")
              /\ Gone(c)' \/ (c = round /\ place' = "wait") \/ verdict[c] = "Timeout",
           place' = "compare" => Gone(round)',
           Running' => Running
    PROVE  BlameInv'
<1>1. \A r \in 1..Rounds : Overwritten(r) => Overwritten(r)'
  <2> SUFFICES ASSUME NEW r \in 1..Rounds, NEW k \in 1..r - 1,
                      verdict[k] = "Timeout", Gone(k)
               PROVE  Overwritten(r)'
    BY DEF Overwritten
  <2>1. k \in 1..Rounds
    BY ScriptAssumption
  <2> QED
    BY <2>1 DEF Overwritten
<1> QED
  BY <1>1 DEF BlameInv

\* Steps that neither start a client of the script nor move the script on.
LEMMA BlameOthers ==
    ASSUME BlameInv, FileInv', UNCHANGED <<round, place, verdict, file, result>>,
           \A c \in 1..Rounds : (cst'[c] # "absent" => cst[c] # "absent") /\ (Gone(c) => Gone(c)'),
           place = "compare" => round \in 1..Rounds
    PROVE  BlameInv'
<1>1. place' = "compare" => Gone(round)'
  BY DEF BlameInv
<1>2. \A c \in 1..Rounds : cst'[c] # "absent" =>
         /\ cst[c] # "absent"
         /\ c < round \/ (c = round /\ place' # "spawn")
         /\ Gone(c)' \/ (c = round /\ place' = "wait") \/ verdict[c] = "Timeout"
  BY DEF BlameInv
<1> QED
  BY <1>1, <1>2, BlameStays DEF Running

LEMMA BlameScript == ASSUME BlameInv, FileInv', ScriptStep PROVE BlameInv'
<1> USE DEF FileInv
<1>0. Running
  BY DEF ScriptStep, PopenServer, PopenClient, PopenRaises, ClientReturns,
         TimeoutExpired, Compare, Running
<1>1. round \in 1..Rounds /\ Rounds \in Nat /\ round \in Clients
  BY <1>0, ScriptAssumption DEF BlameInv, Counters
<1>2. place = "spawn" => cst[round] = "absent"
  BY <1>1 DEF BlameInv
<1>3. CASE PopenServer
  <2>1. UNCHANGED <<cst, result, round, place, verdict, file>>
    BY <1>3 DEF PopenServer, StartServer, clientVars
  <2>2. \A c \in 1..Rounds : Gone(c)' <=> Gone(c)
    BY <2>1 DEF Gone
  <2> QED
    BY <1>1, <2>1, <2>2, BlameOthers
<1>4. CASE PopenClient
  <2>1. /\ UNCHANGED <<result, round, verdict, file>>
        /\ place = "spawn" /\ place' = "wait"
        /\ \E p \in {"failed", "connecting"} : cst' = [cst EXCEPT ![round] = p]
    BY <1>4 DEF PopenClient, StartClient
  <2>2. \A c \in Clients \ {round} : cst'[c] = cst[c] /\ (Gone(c)' <=> Gone(c))
    BY <1>1, <2>1 DEF Gone, BlameInv, MeetInv, MeetTypeOK
  <2>3. ~Gone(round)
    BY <1>2, <2>1 DEF Gone
  <2>4. 1..Rounds \subseteq Clients
    BY ScriptAssumption
  <2>5. \A c \in 1..Rounds : Gone(c) => Gone(c)'
    BY <2>2, <2>3, <2>4
  <2>6. \A c \in 1..Rounds : cst'[c] # "absent" =>
           /\ cst[c] # "absent" \/ (c = round /\ place' = "wait")
           /\ c < round \/ (c = round /\ place' # "spawn")
           /\ Gone(c)' \/ (c = round /\ place' = "wait") \/ verdict[c] = "Timeout"
    BY <2>1, <2>2, <2>4 DEF BlameInv
  <2> QED
    BY <1>0, <2>1, <2>5, <2>6, BlameStays
<1>5. CASE PopenRaises
  <2>1. UNCHANGED <<cst, result, file>> /\ place = "spawn"
    BY <1>5 DEF PopenRaises, meetVars, clientVars
  <2>2. CASE Conclude("Failed")
    BY <1>0, <1>2, <2>1, <2>2, BlameConclude
  <2>3. CASE place' = "crashed" /\ UNCHANGED <<round, verdict>>
    <3>1. \A c \in 1..Rounds : Gone(c)' <=> Gone(c)
      BY <2>1 DEF Gone
    <3> QED
      BY <1>0, <2>1, <2>3, <3>1, BlameStays DEF BlameInv
  <2> QED
    BY <1>5, <2>2, <2>3 DEF PopenRaises
<1>6. CASE ClientReturns
  <2>1. /\ UNCHANGED <<cst, result, round, verdict, file>>
        /\ place = "wait" /\ place' = "compare" /\ Gone(round)
    BY <1>6 DEF ClientReturns, meetVars, clientVars
  <2>2. \A c \in Clients : Gone(c)' <=> Gone(c)
    BY <2>1 DEF Gone
  <2>3. Gone(round)'
    BY <1>1, <2>1, <2>2
  <2>4. \A c \in 1..Rounds : Gone(c) => Gone(c)'
    BY <2>2, ScriptAssumption
  <2>5. \A c \in 1..Rounds : cst'[c] # "absent" =>
           /\ cst[c] # "absent"
           /\ c < round \/ (c = round /\ place' # "spawn")
           /\ Gone(c)' \/ verdict[c] = "Timeout"
    BY <2>1, <2>3, <2>4 DEF BlameInv
  <2> QED
    BY <1>0, <2>1, <2>3, <2>4, <2>5, BlameStays
<1>7. CASE TimeoutExpired
  <2>1. UNCHANGED <<cst, result, file>>
    BY <1>7 DEF TimeoutExpired, meetVars, clientVars
  <2> QED
    BY <1>0, <1>7, <2>1, BlameConclude DEF TimeoutExpired
<1>8. CASE Compare
  <2>1. UNCHANGED <<cst, result, file>> /\ place = "compare"
    BY <1>8 DEF Compare, meetVars, clientVars
  <2>2. Gone(round)
    BY <2>1 DEF BlameInv
  <2>3. \/ Conclude("Passed")
        \/ Conclude("Failed") /\ file # round
    BY <1>8 DEF Compare
  <2> QED
    BY <1>0, <2>1, <2>2, <2>3, BlameConclude
<1> QED
  BY <1>3, <1>4, <1>5, <1>6, <1>7, <1>8 DEF ScriptStep

LEMMA BlameClient ==
    ASSUME BlameInv, FileInv', NEW c \in Clients, ClientProcess(c)
    PROVE  BlameInv'
<1> USE DEF FileInv
<1>0. /\ 1..Rounds \subseteq Clients
      /\ place = "compare" => round \in 1..Rounds
      /\ UNCHANGED <<round, place, verdict>>
  BY ScriptAssumption DEF ClientProcess, BlameInv, Counters, Running
<1>1. CASE Connect(c) /\ UNCHANGED file
  <2>1. /\ UNCHANGED result
        /\ \A d \in Clients : (cst'[d] # "absent" => cst[d] # "absent") /\ (Gone(d) => Gone(d)')
    BY <1>1 DEF Connect, Gone, BlameInv, MeetInv, MeetTypeOK
  <2> QED
    BY <1>0, <1>1, <2>1, BlameOthers
<1>2. ASSUME Finish(c),
             file' = IF c \in Guests \/ cst'[c] = "failed" THEN file
                     ELSE IF result'[c] = "image" THEN c ELSE Garbage
      PROVE  BlameInv'
  <2>1. /\ \A d \in Clients \ {c} : result'[d] = result[d] /\ cst'[d] = cst[d] /\ (Gone(d)' <=> Gone(d))
        /\ Gone(c)' /\ ~Gone(c) /\ cst[c] # "absent"
        /\ cst'[c] = "failed" => result'[c] = result[c]
    BY <1>2 DEF Finish, Gone, BlameInv, MeetInv, MeetTypeOK
  <2>2. result[c] = "nothing"
    BY <2>1 DEF BlameInv
  <2>3. \A d \in 1..Rounds : Gone(d) => Gone(d)'
    BY <1>0, <2>1
  <2>4. \A r \in 1..Rounds : Overwritten(r) => Overwritten(r)'
    <3> SUFFICES ASSUME NEW r \in 1..Rounds, NEW k \in 1..r - 1,
                        verdict[k] = "Timeout", Gone(k)
                 PROVE  Overwritten(r)'
      BY DEF Overwritten
    <3>1. k \in 1..Rounds
      BY ScriptAssumption
    <3> QED
      BY <1>0, <2>3, <3>1 DEF Overwritten
  <2>5. ASSUME NEW r \in 1..Rounds,
               verdict'[r] \in {"none", "Failed"}, result'[r] = "image"
        PROVE  (verdict'[r] = "none" /\ file' = r) \/ Overwritten(r)'
    <3>1. CASE r = c
      <4>1. cst'[c] # "failed" /\ c \notin Guests
        BY <2>1, <2>2, <2>5, <3>1, ScriptAssumption
      <4>2. file' = r
        BY <1>2, <2>5, <3>1, <4>1
      <4>3. c = round /\ place = "wait"
        BY <1>0, <2>1, <2>5, <3>1 DEF BlameInv
      <4>4. verdict[c] = "none"
        BY <3>1, <4>3 DEF BlameInv, Running
      <4> QED
        BY <1>0, <3>1, <4>2, <4>4
    <3>2. CASE r # c
      <4>1. result[r] = "image" /\ verdict[r] \in {"none", "Failed"}
        BY <1>0, <2>1, <2>5, <3>2
      <4>2. CASE Overwritten(r)
        BY <2>4, <4>2
      <4>3. CASE verdict[r] = "none" /\ file = r /\ file' = file
        BY <1>0, <4>3
      <4>4. CASE verdict[r] = "none" /\ file' # file
        <5>1. c \notin Guests /\ c \in 1..Rounds
          BY <1>2, <4>4, ScriptAssumption
        <5>2. r \in Clients /\ cst[r] # "absent"
          BY <1>0, <4>1 DEF BlameInv, Gone
        <5>3. r = round /\ round \in Nat
          BY <4>4, <5>2, ScriptAssumption DEF BlameInv
        <5>4. c < round /\ verdict[c] = "Timeout"
          BY <2>1, <3>2, <5>1, <5>3 DEF BlameInv
        <5>5. c \in 1..r - 1 /\ verdict'[c] = "Timeout"
          BY <1>0, <5>1, <5>3, <5>4, ScriptAssumption
        <5> QED
          BY <2>1, <5>5 DEF Overwritten
      <4> QED
        BY <4>1, <4>2, <4>3, <4>4 DEF BlameInv
    <3> QED
      BY <3>1, <3>2
  <2>6. place' = "compare" => Gone(round)'
    BY <1>0, <2>3 DEF BlameInv
  <2>7. \A d \in 1..Rounds : cst'[d] # "absent" =>
           /\ d < round' \/ (d = round' /\ place' # "spawn")
           /\ Gone(d)' \/ (d = round' /\ place' = "wait") \/ verdict'[d] = "Timeout"
    BY <1>0, <2>1, <2>3 DEF BlameInv
  <2>8. /\ \A r \in 1..Rounds : verdict'[r] # "none" => r < round' \/ ~Running'
        /\ \A r \in 1..Rounds : r < round' => verdict'[r] # "none"
    BY <1>0 DEF BlameInv, Running
  <2> QED
    BY <2>5, <2>6, <2>7, <2>8 DEF BlameInv
<1> QED
  BY <1>1, <1>2 DEF ClientProcess

LEMMA BlameStep == ASSUME BlameInv, FileInv', [Next]_vars PROVE BlameInv'
<1>0. place = "compare" => round \in 1..Rounds
  BY DEF BlameInv, FileInv, Counters, Running
<1>1. ASSUME NEW s \in Servers, ServerProcess(s) PROVE BlameInv'
  <2>1. UNCHANGED <<clientVars, round, place, verdict, file>>
    BY <1>1 DEF ServerProcess, Bind, Accept, Respond, Kill, clientVars, scriptVars
  <2> QED
    BY <1>0, <2>1, BlameOthers DEF clientVars, Gone
<1>2. ASSUME NEW c \in Guests, GuestComes(c) PROVE BlameInv'
  <2>1. /\ UNCHANGED <<result, round, place, verdict, file>>
        /\ \E p \in {"failed", "connecting"} : cst' = [cst EXCEPT ![c] = p]
    BY <1>2 DEF GuestComes, StartClient, scriptVars
  <2>2. \A d \in 1..Rounds : d # c /\ d \in Clients
    BY ScriptAssumption
  <2>3. \A d \in 1..Rounds : cst'[d] = cst[d]
    BY <2>1, <2>2 DEF BlameInv, FileInv, MeetInv, MeetTypeOK
  <2> QED
    BY <1>0, <2>1, <2>3, BlameOthers DEF Gone
<1>3. CASE Idle \/ UNCHANGED vars
  <2>1. UNCHANGED <<cst, result, round, place, verdict, file>>
    BY <1>3 DEF Idle, vars, scriptVars, meetVars, clientVars
  <2> QED
    BY <1>0, <2>1, BlameOthers DEF Gone
<1> QED
  BY <1>1, <1>2, <1>3, BlameScript, BlameClient DEF Next

\* The script says "Failed" of a client that has retrieved its image only when
\* a client it had left running has overwritten the file.
THEOREM FailedRefused == Spec => []FailedMeansRefused
<1>1. BlameInv /\ [Next]_vars => BlameInv'
  BY FileStep, BlameStep DEF BlameInv
<1>2. BlameInv => FailedMeansRefused
  BY DEF BlameInv, FailedMeansRefused, Overwritten
<1> QED
  BY BlameInitial, <1>1, <1>2, PTL DEF Spec
=============================================================================
