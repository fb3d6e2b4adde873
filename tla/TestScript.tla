----------------------------- MODULE TestScript -----------------------------
(***************************************************************************)
(* tests/pir_test.py: it fetches image after image, each with new server   *)
(* processes on the same ports and a new client, and compares the one      *)
(* output file with the image.  Processes are terminated without being     *)
(* waited for, a client that takes too long is left running, and anybody   *)
(* else may use the servers meanwhile (Guests).                            *)
(***************************************************************************)
EXTENDS Integers, Rendezvous

CONSTANTS
    NumServers,     \* -n of the script
    Rounds,         \* number of files in the database
    StartPort,      \* START_PORT
    Guests,         \* clients of other users
    GuestLists,     \* what those may give as --servers
    GuestFiles,     \* and as lines of a config file
    Leftovers,      \* what OUTFILE may hold before the script starts
    PopenFails      \* TRUE when starting a process may fail

\* The processes of round r.
ServerOf(r, i) == <<r, i>>
RoundServers(r) == {ServerOf(r, i) : i \in 1..NumServers}
ASSUME ScriptAssumption ==
    /\ NumServers \in Nat \ {0} /\ Rounds \in Nat /\ StartPort \in Nat
    /\ Servers = UNION {RoundServers(r) : r \in 1..Rounds}
    /\ Clients = (1..Rounds) \cup Guests /\ Guests \cap (1..Rounds) = {}
    /\ \A r \in 1..Rounds, i \in 1..NumServers :
          ServerPort[ServerOf(r, i)] = StartPort + i - 1
    /\ GuestLists \subseteq Seq(ServerStrings) /\ GuestFiles \subseteq Seq(ServerStrings)
    /\ PopenFails \in BOOLEAN

VARIABLES
    round,     \* idx + 1
    place,     \* where the script is
    spawned,   \* Len(process_list)
    doomed,    \* servers sent SIGTERM
    verdict,   \* what the script has printed for each round
    leftover,  \* what OUTFILE held at first
    file       \* what OUTFILE holds: the round whose image it is, or not
scriptVars == <<round, place, spawned, doomed, verdict, leftover, file>>
vars == <<meetVars, scriptVars>>

NoFile == 0    \* there is no OUTFILE
Garbage == -1  \* it holds no image

Init ==
    /\ MeetInit
    /\ round = 1
    /\ place = IF Rounds = 0 THEN "end" ELSE "spawn"
    /\ spawned = 0
    /\ doomed = {}
    /\ verdict = [r \in 1..Rounds |-> "none"]
    /\ leftover \in Leftovers
    /\ file = leftover

-----------------------------------------------------------------------------
(* The script.                                                             *)

Running == place \in {"spawn", "wait", "compare"}

\* The round is over: verdict v, and on to the next image.
Conclude(v) ==
    /\ verdict' = [verdict EXCEPT ![round] = v]
    /\ round' = IF round = Rounds THEN round ELSE round + 1
    /\ place' = IF round = Rounds THEN "end" ELSE "spawn"
    /\ spawned' = 0

\* The arguments of the round's client.
Arguments == [i \in 1..NumServers |-> [host |-> "address", number |-> StartPort + i - 1]]

PopenServer ==
    /\ place = "spawn" /\ spawned < NumServers
    /\ StartServer(ServerOf(round, spawned + 1))
    /\ spawned' = spawned + 1
    /\ UNCHANGED <<round, place, doomed, verdict, leftover, file>>

\* The 0.1 s of sleep before it promise nothing about the servers.
PopenClient ==
    /\ place = "spawn" /\ spawned = NumServers
    /\ StartClient(round, Arguments, <<>>)
    /\ place' = "wait"
    /\ UNCHANGED <<round, spawned, doomed, verdict, leftover, file>>

\* Popen raises.  The handler terminates num_servers processes, but its list
\* has only those started so far: when one is missing the handler itself raises
\* after the last of them, and the script ends.
PopenRaises ==
    /\ PopenFails /\ place = "spawn"
    /\ doomed' = doomed \cup {ServerOf(round, i) : i \in 1..spawned}
    /\ \/ /\ spawned = NumServers
          /\ Conclude("Failed")
       \/ /\ spawned < NumServers
          /\ place' = "crashed"
          /\ UNCHANGED <<round, spawned, verdict>>
    /\ UNCHANGED <<meetVars, leftover, file>>

\* communicate returns.
\* Mutant: the servers are terminated only when the client timed out.
ClientReturnsOnly ==
    /\ place = "wait" /\ Gone(round)
    /\ place' = "compare"
    /\ UNCHANGED <<meetVars, round, spawned, doomed, verdict, leftover, file>>
ClientReturns ==
    /\ place = "wait" /\ Gone(round)
    /\ doomed' = doomed \cup RoundServers(round)
    /\ place' = "compare"
    /\ UNCHANGED <<meetVars, round, spawned, verdict, leftover, file>>

\* communicate raises TimeoutExpired.  The client goes on.
TimeoutExpired ==
    /\ place = "wait" /\ ~Gone(round)
    /\ doomed' = doomed \cup RoundServers(round)
    /\ Conclude("Timeout")
    /\ UNCHANGED <<meetVars, leftover, file>>

\* OUTFILE is compared with the image; nothing asks how the client ended.
\* Mutants: any image passes; the image of the next round is expected.
CompareAny == place = "compare" /\ Conclude(IF file > NoFile THEN "Passed" ELSE "Failed")
              /\ UNCHANGED <<meetVars, doomed, leftover, file>>
CompareNext == place = "compare" /\ Conclude(IF file = round + 1 THEN "Passed" ELSE "Failed")
               /\ UNCHANGED <<meetVars, doomed, leftover, file>>
Compare == place = "compare" /\ Conclude(IF file = round THEN "Passed" ELSE "Failed")
           /\ UNCHANGED <<meetVars, doomed, leftover, file>>

ScriptStep == \/ PopenServer \/ PopenClient \/ PopenRaises
              \/ ClientReturns \/ TimeoutExpired \/ Compare

-----------------------------------------------------------------------------
(* The processes, as far as they concern the script.                       *)

\* Clients of the script write OUTFILE, the late ones too.
ClientProcess(c) ==
    /\ \/ Connect(c) /\ UNCHANGED file
       \/ /\ Finish(c)
          /\ file' = IF c \in Guests \/ cst'[c] = "failed" THEN file
                     ELSE IF result'[c] = "image" THEN c ELSE Garbage
    /\ UNCHANGED <<round, place, spawned, doomed, verdict, leftover>>

ServerProcess(s) ==
    /\ Bind(s) \/ Accept(s) \/ Respond(s) \/ (s \in doomed /\ Kill(s))
    /\ UNCHANGED scriptVars

GuestComes(c) ==
    /\ \E cli \in GuestLists, lines \in GuestFiles : StartClient(c, cli, lines)
    /\ UNCHANGED scriptVars

\* The script is over and its processes have ended.
Over ==
    /\ ~Running
    /\ \A s \in Servers : sst[s] \notin {"booting", "listening", "serving"}
    /\ \A c \in Clients : cst[c] = "absent" \/ Gone(c)
\* Once the script is over, nothing has to happen.
Idle == ~Running /\ UNCHANGED vars

Next == \/ ScriptStep
        \/ \E s \in Servers : ServerProcess(s)
        \/ \E c \in Clients : ClientProcess(c)
        \/ \E c \in Guests : GuestComes(c)
        \/ Idle

Spec == Init /\ [][Next]_vars

\* Every process is scheduled again and again, and a signal sent is delivered
\* (Kill alone needs that: a server may have nothing else to do).
Fairness == /\ WF_vars(ScriptStep)
            /\ \A s \in Servers : WF_vars(ServerProcess(s))
            /\ \A c \in Clients : WF_vars(ClientProcess(c))
FairSpec == Spec /\ Fairness

-----------------------------------------------------------------------------
(* Properties.                                                             *)

\* "Passed" is said of a round only if its client has retrieved the image,
\* although the script never looks at the client: no image of another round,
\* late client or guest is taken for it.  One case is left: OUTFILE held the
\* image of this round before the script started and nobody has written it
\* since.
PassedMeansRetrieved ==
    \A r \in 1..Rounds : verdict[r] = "Passed" => result[r] = "image" \/ leftover = r

\* "Failed" is said of a client that has retrieved its image only if the client
\* of an earlier round was left running and has overwritten the file.
FailedMeansRefused ==
    \A r \in 1..Rounds : verdict[r] = "Failed" /\ result[r] = "image" =>
        \E k \in 1..r - 1 : verdict[k] = "Timeout" /\ Gone(k)

\* The servers and clients the script has started end, whatever happens to the
\* script: no server keeps listening on a port of the next test.
NothingLeftRunning == <>[]Over
=============================================================================
