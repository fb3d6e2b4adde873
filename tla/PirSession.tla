----------------------------- MODULE PirSession -----------------------------
(***************************************************************************)
(* One retrieval of PrivaGram: a client process (client_runner, PIRClient) *)
(* and NumServers server processes (server_runner, PIRServer) over one TCP *)
(* connection each (NetworkAdapter).  The client sends one ciphertext per  *)
(* image and server, each server multiplies the i-th request it reads by   *)
(* row i of its database and answers once with the sum.                    *)
(*                                                                         *)
(* Ciphertexts are symbolic: a query is the image its selection bit is     *)
(* about, a sum is the sequence of the images its terms were asked for,    *)
(* term j being multiplied by row j-1.  What the numbers come to is the    *)
(* business of the sharing modules.                                        *)
(***************************************************************************)
EXTENDS Integers, Sequences

CONSTANTS
    NumServers,    \* num_server, the length of the client's server list
    ClientImages,  \* the client's -n, num_images of fetch_image
    ServerImages,  \* ServerImages[s]: the -n of server s
    UseShamir,     \* the client's --shamir
    Privacy,       \* the client's -t
    ReqCap,        \* whole requests the kernel buffers on a connection while
                   \* the server is not reading
    ReplyFits,     \* TRUE when a whole reply fits in the kernel's buffers
    BadRows,       \* <<s, i>> whose row multiply_plain_inplace rejects
    Faulty         \* processes that may be killed: servers, and 0 the client

Servers == 1..NumServers

ASSUME ServersAssumption == NumServers \in Nat \ {0}
ASSUME ImagesAssumption == /\ ClientImages \in Nat
                           /\ ServerImages \in [Servers -> Nat]
ASSUME OptionsAssumption == UseShamir \in BOOLEAN /\ Privacy \in Nat
ASSUME KernelAssumption == ReqCap \in Nat /\ ReplyFits \in BOOLEAN
ASSUME FaultAssumption == /\ BadRows \subseteq Servers \X Nat
                          /\ Faulty \subseteq {0} \cup Servers

VARIABLES
    index,     \* -i of the client
    cpc,       \* where the client is
    cimg,      \* the image i of the sending loop
    csrv,      \* the server the client's current loop is at
    cbuf,      \* cbuf[s]: buffer_ of the client's adapter for server s
    texts,     \* decryptedTexts
    out,       \* what write_image wrote
    linked,    \* linked[s]: the client's connection to s is established
    spc,       \* spc[s]: where server s is
    sbuf,      \* sbuf[s]: buffer_ of server s
    acc,       \* acc[s]: the terms of response in server s
    toServer,  \* toServer[s]: requests in flight to server s
    toClient   \* toClient[s]: the reply in flight from server s

clientVars == <<index, cpc, cimg, csrv, cbuf, texts, out>>
serverVars == <<spc, sbuf, acc>>
netVars == <<linked, toServer, toClient>>
vars == <<clientVars, serverVars, netVars>>

-----------------------------------------------------------------------------
(* Buffers and ciphertexts.                                                *)

Noise == -1   \* a selection that decodes to no image
Wrong == -2   \* any output that is not the image asked for, none included
Unset == -3   \* nothing written yet

Selections == Nat \cup {Noise}
Buffers == [kind : {"zero", "torn", "query", "sum"},
            sel : Selections, terms : Seq(Selections)]

Zero == [kind |-> "zero", sel |-> Noise, terms |-> <<>>]  \* as constructed
Torn == [kind |-> "torn", sel |-> Noise, terms |-> <<>>]  \* partly overwritten
Query(k) == [kind |-> "query", sel |-> k, terms |-> <<>>]
Sum(t) == [kind |-> "sum", sel |-> Noise, terms |-> t]

\* The response when request j is multiplied by row j, for the first m rows.
Paired(m) == [j \in 1..m |-> j - 1]

\* Ciphertext::load of a buffer: a buffer never written has no header, a
\* response no request was added to has no valid parameters, and a torn one
\* may be rejected or decode to anything.
LoadThrows(b) == \/ b.kind \in {"zero", "torn"}
                 \/ b.kind = "sum" /\ b.terms = <<>>
LoadReturns(b) == \/ b.kind \in {"torn", "query"}
                  \/ b.kind = "sum" /\ b.terms # <<>>

\* The blocking read of receive_ciphertext: the next ciphertext of channel c,
\* or, the error_code being ignored, whatever buffer b held before.
Received(b, c) == IF c # <<>> THEN Head(c) ELSE b
Unread(c) == IF c # <<>> THEN Tail(c) ELSE c

-----------------------------------------------------------------------------
(* The state of the processes.                                             *)

ClientPlaces == {"connect", "fetch", "send", "recv", "rebuild",
                 "done", "failed", "crashed"}
ServerPlaces == {"boot", "listening", "loading", "receive", "reply",
                 "exited", "failed", "crashed"}

ClientGone == cpc \in {"done", "failed", "crashed"}
Stopped(s) == spc[s] \in {"exited", "failed", "crashed"}
Lost(s) == spc[s] \in {"failed", "crashed"}

\* A request can be written without the server reading first.
RequestRoom(s) == \/ Len(toServer[s]) < ReqCap
                  \/ spc[s] = "receive" /\ toServer[s] = <<>>
\* The reply can be written: it fits, or the client is reading it, or the
\* client is gone and the write returns an error.
ReplyRoom(s) == ReplyFits \/ (cpc = "recv" /\ csrv = s) \/ ClientGone

\* A read returns: the next message has come, or none will.
\* Mutants: the read does not wait for a whole message, does not see the end of
\* the connection.
RequestPolled(s) == TRUE
RequestWithoutEof(s) == toServer[s] # <<>>
ReplyWithoutEof(s) == toClient[s] # <<>>
RequestReadable(s) == toServer[s] # <<>> \/ ClientGone
ReplyReadable(s) == toClient[s] # <<>> \/ Stopped(s)

\* What the client may still find of a reply once its connection is reset.
AfterReset(c) == {c, <<>>} \cup IF c # <<>> THEN {<<Torn>>} ELSE {}

\* Every variable keeps its type: the loops stay within their bounds.
TypeOK ==
    /\ index \in 0..ClientImages
    /\ cpc \in ClientPlaces
    /\ cimg \in 0..ClientImages
    /\ csrv \in 1..NumServers + 1
    /\ cbuf \in [Servers -> Buffers]
    /\ texts \in Seq(Buffers)
    /\ out \in {Unset, Wrong} \cup 0..ClientImages
    /\ linked \in [Servers -> BOOLEAN]
    /\ spc \in [Servers -> ServerPlaces]
    /\ sbuf \in [Servers -> Buffers]
    /\ acc \in [Servers -> Seq(Selections)]
    /\ toServer \in [Servers -> Seq(Buffers)]
    /\ toClient \in [Servers -> Seq(Buffers)]

Init ==
    /\ index \in 0..ClientImages
    /\ cpc = "connect" /\ cimg = 0 /\ csrv = 1
    /\ cbuf = [s \in Servers |-> Zero]
    /\ texts = <<>>
    /\ out = Unset
    /\ linked = [s \in Servers |-> FALSE]
    /\ spc = [s \in Servers |-> "boot"]
    /\ sbuf = [s \in Servers |-> Zero]
    /\ acc = [s \in Servers |-> <<>>]
    /\ toServer = [s \in Servers |-> <<>>]
    /\ toClient = [s \in Servers |-> <<>>]

-----------------------------------------------------------------------------
(* The server: main, PIRServer::PIRServer and PIRServer::respond.          *)

Listen(s) ==
    /\ spc[s] = "boot"
    /\ spc' = [spc EXCEPT ![s] = "listening"]
    /\ UNCHANGED <<clientVars, sbuf, acc, netVars>>

\* One client is accepted and the acceptor is closed, before the database is
\* read: the client may be sending already.
AcceptClient(s) ==
    /\ spc[s] = "listening" /\ linked[s]
    /\ spc' = [spc EXCEPT ![s] = "loading"]
    /\ UNCHANGED <<clientVars, sbuf, acc, netVars>>

\* The place of respond's loop when it has dealt with n rows.
\* Mutant: the loop's bound is inclusive.
AtRowInclusive(s, n) == IF n <= ServerImages[s] THEN "receive" ELSE "reply"
AtRow(s, n) == IF n < ServerImages[s] THEN "receive" ELSE "reply"

ReadDatabase(s) ==
    /\ spc[s] = "loading"
    /\ spc' = [spc EXCEPT ![s] = AtRow(s, 0)]
    /\ UNCHANGED <<clientVars, sbuf, acc, netVars>>

\* network.receive_ciphertext, up to the load.
ReceiveRequest(s) ==
    /\ spc[s] = "receive"
    /\ RequestReadable(s)
    /\ sbuf' = [sbuf EXCEPT ![s] = Received(@, toServer[s])]
    /\ toServer' = [toServer EXCEPT ![s] = Unread(@)]
    /\ UNCHANGED <<clientVars, linked, toClient>>

\* One iteration of respond: request i is multiplied by row i and added.
MultiplyRow(s) ==
    /\ ReceiveRequest(s)
    /\ LoadReturns(sbuf'[s])
    /\ <<s, Len(acc[s])>> \notin BadRows
    /\ acc' = [acc EXCEPT ![s] = Append(@, sbuf'[s].sel)]
    /\ spc' = [spc EXCEPT ![s] = AtRow(s, Len(acc[s]) + 1)]

\* The iteration throws, in load or in multiply_plain_inplace; nothing
\* catches it and the process aborts.
\* Mutant: the exception is caught and the row skipped.
RejectRowSkips(s) ==
    /\ ReceiveRequest(s)
    /\ LoadThrows(sbuf'[s]) \/ <<s, Len(acc[s])>> \in BadRows
    /\ acc' = [acc EXCEPT ![s] = Append(@, Noise)]
    /\ spc' = [spc EXCEPT ![s] = AtRow(s, Len(acc[s]) + 1)]
RejectRow(s) ==
    /\ ReceiveRequest(s)
    /\ LoadThrows(sbuf'[s]) \/ <<s, Len(acc[s])>> \in BadRows
    /\ spc' = [spc EXCEPT ![s] = "failed"]
    /\ UNCHANGED acc

\* The response is sent and the process exits.  Closing a socket with unread
\* requests resets the connection, and the reply may not survive it.
SendResponse(s) ==
    /\ spc[s] = "reply" /\ ReplyRoom(s)
    /\ sbuf' = [sbuf EXCEPT ![s] = Sum(acc[s])]
    /\ spc' = [spc EXCEPT ![s] = "exited"]
    /\ \E c \in IF toServer[s] = <<>> THEN {<<Sum(acc[s])>>}
                ELSE AfterReset(<<Sum(acc[s])>>) :
          toClient' = [toClient EXCEPT ![s] = c]
    /\ UNCHANGED <<clientVars, acc, linked, toServer>>

\* The process is killed, possibly with its reply half written.
CrashServer(s) ==
    /\ s \in Faulty /\ ~Stopped(s)
    /\ spc' = [spc EXCEPT ![s] = "crashed"]
    /\ \E c \in {<<>>} \cup (IF spc[s] = "reply" THEN {<<Torn>>} ELSE {}) :
          toClient' = [toClient EXCEPT ![s] = c]
    /\ UNCHANGED <<clientVars, sbuf, acc, linked, toServer>>

-----------------------------------------------------------------------------
(* The client: main, PIRClient::PIRClient and PIRClient::fetch_image.      *)

\* connect() completes as soon as the server listens, accepted or not; it
\* throws when nobody listens.
ConnectTo(s) ==
    /\ cpc = "connect" /\ csrv = s
    /\ \/ /\ spc[s] = "listening"
          /\ linked' = [linked EXCEPT ![s] = TRUE]
          /\ csrv' = IF s = NumServers THEN 1 ELSE s + 1
          /\ cpc' = IF s = NumServers THEN "fetch" ELSE "connect"
       \/ /\ spc[s] # "listening"
          /\ cpc' = "failed"
          /\ UNCHANGED <<linked, csrv>>
    /\ UNCHANGED <<index, cimg, cbuf, texts, out, serverVars, toServer, toClient>>

\* share() throws at once when num_server - privacy - 1 wraps around.
ShareThrows == UseShamir /\ Privacy >= NumServers

\* Mutant: the index one past the last image is let through.
StartFetchInclusive ==
    /\ cpc = "fetch"
    /\ cpc' = IF index > ClientImages \/ ShareThrows THEN "failed" ELSE "send"
    /\ UNCHANGED <<index, cimg, csrv, cbuf, texts, out, serverVars, netVars>>
StartFetch ==
    /\ cpc = "fetch"
    /\ cpc' = IF index >= ClientImages \/ ShareThrows THEN "failed" ELSE "send"
    /\ UNCHANGED <<index, cimg, csrv, cbuf, texts, out, serverVars, netVars>>

\* The place of fetch_image when it has sent the requests for n images.
\* Mutant: the loop's bound is inclusive.
AfterSendingInclusive(n) == IF n <= ClientImages THEN "send" ELSE "recv"
AfterSending(n) == IF n < ClientImages THEN "send" ELSE "recv"

\* send_ciphertext of the share of image cimg for server s.  It blocks while
\* the connection is full; on a closed one the error is ignored, and writing
\* to it resets it.
SendShare(s) ==
    /\ cpc = "send" /\ csrv = s
    /\ cbuf' = [cbuf EXCEPT ![s] = Query(cimg)]
    /\ \/ /\ ~Stopped(s) /\ RequestRoom(s)
          /\ toServer' = [toServer EXCEPT ![s] = Append(@, Query(cimg))]
          /\ UNCHANGED toClient
       \/ /\ Stopped(s)
          /\ \E c \in AfterReset(toClient[s]) :
                toClient' = [toClient EXCEPT ![s] = c]
          /\ UNCHANGED toServer
    /\ csrv' = IF s = NumServers THEN 1 ELSE s + 1
    /\ cimg' = IF s = NumServers THEN cimg + 1 ELSE cimg
    /\ cpc' = AfterSending(cimg')
    /\ UNCHANGED <<index, texts, out, linked, serverVars>>

\* receive_ciphertext and decrypt of the reply of server s.
ReceiveResponse(s) ==
    /\ cpc = "recv" /\ csrv = s
    /\ ReplyReadable(s)
    /\ cbuf' = [cbuf EXCEPT ![s] = Received(@, toClient[s])]
    /\ toClient' = [toClient EXCEPT ![s] = Unread(@)]
    /\ \/ /\ LoadReturns(cbuf'[s])
          /\ texts' = Append(texts, cbuf'[s])
          /\ csrv' = s + 1
          /\ cpc' = IF s = NumServers THEN "rebuild" ELSE "recv"
       \/ /\ LoadThrows(cbuf'[s])
          /\ cpc' = "failed"
          /\ UNCHANGED <<texts, csrv>>
    /\ UNCHANGED <<index, cimg, out, linked, toServer, serverVars>>

\* The two size checks of fetch_image.  Both always succeed: decryptedTexts
\* has one entry per server whatever the servers did.
EnoughResponses == IF UseShamir THEN Len(texts) > NumServers \div 2
                                ELSE Len(texts) >= NumServers

\* reconstruct on every slot yields the image exactly when every server
\* answered with the sum of the same rows and the image is among them.
Reconstructs == \E m \in {Len(texts[1].terms)} :
                   /\ index < m
                   /\ \A s \in Servers : texts[s] = Sum(Paired(m))

\* write_image: other words than the image are written like the image, or, if
\* they are all zero, bytes.back() is called on an empty vector, which may
\* end the process.
WriteImage ==
    /\ cpc = "rebuild" /\ EnoughResponses
    /\ \/ /\ cpc' = "done"
          /\ out' = IF Reconstructs THEN index ELSE Wrong
       \/ /\ ~Reconstructs
          /\ cpc' = "failed"
          /\ UNCHANGED out
    /\ UNCHANGED <<index, cimg, csrv, cbuf, texts, serverVars, netVars>>

\* The process is killed, possibly with a request half written.
CrashClient ==
    /\ 0 \in Faulty /\ ~ClientGone
    /\ cpc' = "crashed"
    /\ \/ UNCHANGED toServer
       \/ /\ cpc = "send" /\ ~Stopped(csrv) /\ RequestRoom(csrv)
          /\ toServer' = [toServer EXCEPT ![csrv] = Append(@, Torn)]
    /\ UNCHANGED <<index, cimg, csrv, cbuf, texts, out, serverVars, linked, toClient>>

-----------------------------------------------------------------------------

\* Every process has stopped, but for servers no client ever connected to.
Finished ==
    /\ ClientGone
    /\ \A s \in Servers : Stopped(s) \/ (spc[s] = "listening" /\ ~linked[s])
Idle == Finished /\ UNCHANGED vars

ServerStep(s) == \/ Listen(s) \/ AcceptClient(s) \/ ReadDatabase(s)
                 \/ MultiplyRow(s) \/ RejectRow(s) \/ SendResponse(s)

ClientStep == \/ StartFetch \/ WriteImage
              \/ \E s \in Servers : ConnectTo(s) \/ SendShare(s) \/ ReceiveResponse(s)

Next == \/ ClientStep
        \/ \E s \in Servers : ServerStep(s)
        \/ \E s \in Servers : CrashServer(s)
        \/ CrashClient
        \/ Idle

Spec == Init /\ [][Next]_vars

\* Each process is a single thread that the scheduler runs again and again
\* while it can take a step; nothing makes a process crash.
Fairness == /\ WF_vars(ClientStep)
            /\ \A s \in Servers : WF_vars(ServerStep(s))
FairSpec == Spec /\ Fairness

-----------------------------------------------------------------------------
(* The inductive invariant behind the safety properties.                   *)

\* Requests for server s the client has written.
Sent(s) == cimg + (IF cpc = "send" /\ s < csrv THEN 1 ELSE 0)
\* The reply of server s has been read.
HasText(s) == cpc = "rebuild" \/ (cpc = "recv" /\ s < csrv)

ClientInv ==
    /\ cpc \in {"connect", "fetch"} => cimg = 0 /\ csrv \in Servers /\ texts = <<>>
    /\ cpc = "fetch" => csrv = 1
    /\ cpc = "send" => cimg < ClientImages /\ csrv \in Servers /\ texts = <<>>
    /\ cpc = "recv" => csrv \in Servers /\ Len(texts) = csrv - 1
    /\ cpc = "rebuild" => Len(texts) = NumServers
    /\ cpc \in {"recv", "rebuild"} => cimg = ClientImages
    /\ cpc \in {"send", "recv", "rebuild", "done"} => index < ClientImages

ServerInv(s) ==
    /\ spc[s] \in {"boot", "listening", "loading"} => acc[s] = <<>>
    /\ spc[s] = "receive" => Len(acc[s]) < ServerImages[s]
    /\ spc[s] \in {"reply", "exited"} => Len(acc[s]) = ServerImages[s]
    /\ ~Stopped(s) => toClient[s] = <<>>

\* The terms of a response are those of images 0, 1, ... in order.
InOrder(a) == \A j \in 1..Len(a) : a[j] = j - 1
\* The requests in channel c are those for images n, n + 1, ... in order.
Following(c, n) == \A j \in 1..Len(c) : c[j] = Query(n + j - 1)

\* What server s has read and what it has not make up what the client sent.
StreamInv(s) ==
    /\ Stopped(s) => Len(acc[s]) + Len(toServer[s]) <= Sent(s)
    /\ ~Stopped(s) =>
          /\ Len(acc[s]) + Len(toServer[s]) = Sent(s)
          /\ Following(toServer[s], Len(acc[s]))
    /\ InOrder(acc[s])

\* The reply of a server with as many images as the client is on its way
\* complete, or has been read complete.
ReplyInv(s) ==
    /\ HasText(s) => Stopped(s)
    /\ spc[s] = "exited" /\ ServerImages[s] = ClientImages =>
          /\ Sent(s) = ClientImages
          /\ IF HasText(s) THEN texts[s] = Sum(Paired(ClientImages))
                           ELSE toClient[s] = <<Sum(Paired(ClientImages))>>

\* The inductive invariant: the places of the processes, the requests read and in
\* flight, the replies, and the file the client has written.
SessionInv ==
    /\ ClientInv
    /\ \A s \in Servers : ServerInv(s)
    /\ ~ClientGone => \A s \in Servers : StreamInv(s) /\ ReplyInv(s)
    /\ cpc = "done" => /\ \A s \in Servers : Stopped(s)
                       /\ \A s \in Servers :
                             spc[s] = "exited" => ServerImages[s] <= ClientImages
                       /\ (\A s \in Servers : spc[s] = "exited"
                                               /\ ServerImages[s] = ClientImages)
                          => out = index

-----------------------------------------------------------------------------
(* Properties.                                                             *)

EqualCounts == \A s \in Servers : ServerImages[s] = ClientImages

\* While the client runs, every term of a response multiplies the request for
\* an image by the row of that same image: no request is lost, duplicated,
\* reordered or replaced by the stale content of buffer_ (respond reads the
\* requests by position, nothing in a request names its image).
RowsMatchRequests ==
    ~ClientGone => \A s \in Servers : acc[s] = Paired(Len(acc[s]))

\* A client and a server never wait for each other when they agree on the
\* number of images: waiting to read each other's message needs a server with
\* more images (fetch_image has sent all its requests, respond wants more), and
\* waiting to write to each other needs a server with fewer (respond answers
\* before fetch_image has finished sending).
NoWaitCycle ==
    \A s \in Servers :
        /\ cpc = "recv" /\ csrv = s /\ toClient[s] = <<>>
           /\ spc[s] = "receive" /\ toServer[s] = <<>>
           => ServerImages[s] > ClientImages
        /\ cpc = "send" /\ csrv = s /\ ~RequestRoom(s)
           /\ spc[s] = "reply" /\ ~ReplyRoom(s)
           => ServerImages[s] < ClientImages

\* When the client writes a file and no server was lost, no server had more
\* images than the client asked about, and if all had as many, the file is the
\* image at index.
AnswerSound ==
    cpc = "done" /\ (\A s \in Servers : ~Lost(s)) =>
        /\ \A s \in Servers : ServerImages[s] <= ClientImages
        /\ EqualCounts => out = index

\* A failure is reported, not written to the output file: what the checks of
\* fetch_image ("Not enough responses received") say of the client.
NoSilentWrong == cpc = "done" => out = index

\* A client that agrees with its servers on the number of images ends, whatever
\* crashes: every read and write of fetch_image returns.
ClientEnds == EqualCounts => <>ClientGone

\* A server a client connected to ends, whatever crashes, and frees its port:
\* respond never waits for a client that is gone.
ServersEnd == EqualCounts => \A s \in Servers : linked[s] ~> Stopped(s)

\* The retrieval the client's state stands for.
Status == CASE cpc \in {"connect", "fetch"} -> "pending"
            [] cpc \in {"send", "recv", "rebuild"} -> "committed"
            [] cpc = "done" -> "answered"
            [] cpc = "failed" -> "refused"
            [] cpc = "crashed" -> "abandoned"

R == INSTANCE Retrieval WITH Images <- ClientImages, want <- index,
        status <- Status, got <- out, lost <- \E s \in Servers : Lost(s)

\* The session of client and servers that agree on the number of images
\* implements the retrieval promised to the user: once every server is
\* connected and the first request goes out, only the loss of a server can make
\* the client fail or write anything but the image, and the retrieval settles.
ImplementsRetrieval == R!AbsSpec
=============================================================================
