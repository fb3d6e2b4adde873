-------------------------- MODULE PirSession_proofs --------------------------
(***************************************************************************)
(* Theorems about PirSession, for any number of servers and images, any    *)
(* kernel buffering, any database rows and any crashes.                    *)
(***************************************************************************)
EXTENDS PirSession, SequenceTheorems, TLAPS

(* The loops over the servers.                                             *)

\* Going from server to server stays among them.
LEMMA ServerLoop ==
    ASSUME NEW s \in Servers
    PROVE  /\ s \in Nat /\ s >= 1 /\ s <= NumServers
           /\ s # NumServers => s + 1 \in Servers
           /\ 1 \in Servers
  BY ServersAssumption DEF Servers

(* The buffers.                                                            *)

\* The contents of a buffer are typed.
LEMMA BufferTypes ==
    /\ Zero \in Buffers /\ Torn \in Buffers
    /\ \A k \in Nat : Query(k) \in Buffers
    /\ \A t \in Seq(Selections) : Sum(t) \in Buffers
  BY DEF Zero, Torn, Query, Sum, Buffers, Selections, Noise

\* Appending to channels and responses keeps their types.
LEMMA SequenceTypes ==
    /\ <<>> \in Seq(Buffers)
    /\ \A b \in Buffers : <<b>> \in Seq(Buffers)
    /\ \A b \in Buffers, c \in Seq(Buffers) : Append(c, b) \in Seq(Buffers)
  OBVIOUS

\* A read returns a message or the old content of the buffer.
LEMMA ReadTypes ==
    ASSUME NEW c \in Seq(Buffers), NEW b \in Buffers
    PROVE  /\ Received(b, c) \in Buffers
           /\ Unread(c) \in Seq(Buffers)
  BY HeadTailProperties DEF Received, Unread

\* What a reset leaves of a channel is a channel.
LEMMA ResetTypes ==
    ASSUME NEW c \in Seq(Buffers), NEW d \in AfterReset(c)
    PROVE  d \in Seq(Buffers)
<1>1. <<>> \in Seq(Buffers) /\ <<Torn>> \in Seq(Buffers)
  BY BufferTypes, SequenceTypes
<1>2. d = c \/ d = <<>> \/ d = <<Torn>>
  BY DEF AfterReset
<1> QED
  BY <1>1, <1>2

\* What a read leaves in the channel is what it held, one position on.
LEMMA UnreadProperties ==
    ASSUME NEW c \in Seq(Buffers), c # <<>>
    PROVE  /\ Received(Zero, c) = c[1]
           /\ Len(Unread(c)) = Len(c) - 1
           /\ \A j \in 1..Len(c) - 1 : Unread(c)[j] = c[j + 1]
  BY HeadTailProperties DEF Received, Unread

-----------------------------------------------------------------------------
(* Type correctness.  The counters stay in range only because of ClientInv. *)

\* The processes start with typed variables.
LEMMA TypeInit == Init => TypeOK
  BY BufferTypes, ServersAssumption, ImagesAssumption
  DEF Init, TypeOK, ClientPlaces, ServerPlaces, Unset, Selections

\* The steps of one server.
LEMMA TypeServer ==
    ASSUME TypeOK, NEW s \in Servers, ServerStep(s) \/ CrashServer(s)
    PROVE  TypeOK'
<1> USE DEF TypeOK, vars, clientVars, serverVars, netVars
<1>1. CASE Listen(s) \/ AcceptClient(s) \/ ReadDatabase(s)
  BY <1>1 DEF Listen, AcceptClient, ReadDatabase, AtRow, ServerPlaces
<1>2. ASSUME ReceiveRequest(s)
      PROVE  /\ sbuf' \in [Servers -> Buffers]
             /\ toServer' \in [Servers -> Seq(Buffers)]
             /\ sbuf'[s] \in Buffers
             /\ UNCHANGED <<clientVars, linked, toClient>>
  <2>1. Received(sbuf[s], toServer[s]) \in Buffers /\ Unread(toServer[s]) \in Seq(Buffers)
    BY ReadTypes
  <2> QED
    BY <1>2, <2>1 DEF ReceiveRequest
<1>3. CASE MultiplyRow(s)
  <2>1. sbuf'[s].sel \in Selections
    BY <1>2, <1>3 DEF MultiplyRow, Buffers
  <2>2. acc' \in [Servers -> Seq(Selections)]
    BY <1>3, <2>1 DEF MultiplyRow
  <2> QED
    BY <1>2, <1>3, <2>2 DEF MultiplyRow, AtRow, ServerPlaces
<1>4. CASE RejectRow(s)
  BY <1>2, <1>4 DEF RejectRow, ServerPlaces
<1>5. CASE SendResponse(s)
  <2>1. Sum(acc[s]) \in Buffers
    BY BufferTypes
  <2>2. PICK c : /\ c = <<Sum(acc[s])>> \/ c \in AfterReset(<<Sum(acc[s])>>)
                 /\ toClient' = [toClient EXCEPT ![s] = c]
    BY <1>5 DEF SendResponse
  <2>3. c \in Seq(Buffers)
    <3>1. <<Sum(acc[s])>> \in Seq(Buffers)
      BY <2>1
    <3> QED
      BY <2>2, <3>1, ResetTypes
  <2> QED
    BY <1>5, <2>1, <2>2, <2>3 DEF SendResponse, ServerPlaces
<1>6. CASE CrashServer(s)
  <2>1. PICK c : /\ c = <<>> \/ c = <<Torn>>
                 /\ toClient' = [toClient EXCEPT ![s] = c]
    BY <1>6 DEF CrashServer
  <2>2. c \in Seq(Buffers)
    BY <2>1, BufferTypes, SequenceTypes
  <2> QED
    BY <1>6, <2>1, <2>2 DEF CrashServer, ServerPlaces
<1> QED
  BY <1>1, <1>3, <1>4, <1>5, <1>6 DEF ServerStep

\* The steps of the client.
LEMMA ClientCounters ==
    ASSUME csrv \in 1..NumServers + 1, cimg \in 0..ClientImages, ClientInv,
           NEW s \in Servers, ConnectTo(s) \/ SendShare(s) \/ ReceiveResponse(s)
    PROVE  csrv' \in 1..NumServers + 1 /\ cimg' \in 0..ClientImages
<1>a. s + 1 \in 1..NumServers + 1 /\ 1 \in 1..NumServers + 1
  BY ServersAssumption DEF Servers
<1>1. CASE ConnectTo(s)
  BY <1>1, <1>a DEF ConnectTo
<1>2. CASE SendShare(s)
  <2>1. cimg < ClientImages
    BY <1>2 DEF SendShare, ClientInv
  <2>2. cimg + 1 \in 0..ClientImages
    BY <2>1, ImagesAssumption
  <2> QED
    BY <1>2, <1>a, <2>2 DEF SendShare
<1>3. CASE ReceiveResponse(s)
  BY <1>3, <1>a DEF ReceiveResponse
<1> QED
  BY <1>1, <1>2, <1>3

\* The steps of the client preserve types.
LEMMA TypeClient ==
    ASSUME TypeOK, ClientInv, ClientStep \/ CrashClient
    PROVE  TypeOK'
<1> USE ServersAssumption, ImagesAssumption
    DEF TypeOK, ClientInv, vars, clientVars, serverVars, netVars
<1>1. CASE StartFetch
  BY <1>1 DEF StartFetch, ClientPlaces
<1>2. CASE WriteImage
  BY <1>2 DEF WriteImage, ClientPlaces
<1>3. ASSUME NEW s \in Servers, ConnectTo(s) PROVE TypeOK'
  <2>1. cpc' \in ClientPlaces
    BY <1>3 DEF ConnectTo, ClientPlaces
  <2>2. csrv' \in 1..NumServers + 1
    BY <1>3, ClientCounters
  <2>3. linked' \in [Servers -> BOOLEAN]
    BY <1>3 DEF ConnectTo
  <2> QED
    BY <1>3, <2>1, <2>2, <2>3 DEF ConnectTo
<1>4. ASSUME NEW s \in Servers, SendShare(s) PROVE TypeOK'
  <2>1. Query(cimg) \in Buffers
    BY BufferTypes
  <2>2. toServer' \in [Servers -> Seq(Buffers)]
    <3>1. Append(toServer[s], Query(cimg)) \in Seq(Buffers)
      BY <2>1, SequenceTypes
    <3> QED
      BY <1>4, <3>1 DEF SendShare
  <2>3. toClient' \in [Servers -> Seq(Buffers)]
    <3>1. CASE ~Stopped(s)
      BY <1>4, <3>1 DEF SendShare
    <3>2. CASE Stopped(s)
      <4>1. PICK c \in AfterReset(toClient[s]) : toClient' = [toClient EXCEPT ![s] = c]
        BY <1>4, <3>2 DEF SendShare
      <4>2. c \in Seq(Buffers)
        BY ResetTypes
      <4> QED
        BY <4>1, <4>2
    <3> QED
      BY <3>1, <3>2
  <2>4. cbuf' \in [Servers -> Buffers]
    BY <1>4, <2>1 DEF SendShare
  <2>5. cimg' \in 0..ClientImages /\ csrv' \in 1..NumServers + 1
    BY <1>4, ClientCounters
  <2>6. cpc' \in ClientPlaces
    BY <1>4 DEF SendShare, AfterSending, ClientPlaces
  <2> QED
    BY <1>4, <2>2, <2>3, <2>4, <2>5, <2>6 DEF SendShare
<1>5. ASSUME NEW s \in Servers, ReceiveResponse(s) PROVE TypeOK'
  <2>1. Received(cbuf[s], toClient[s]) \in Buffers /\ Unread(toClient[s]) \in Seq(Buffers)
    BY ReadTypes
  <2>2. cbuf' \in [Servers -> Buffers] /\ cbuf'[s] \in Buffers
        /\ toClient' \in [Servers -> Seq(Buffers)]
    BY <1>5, <2>1 DEF ReceiveResponse
  <2>3. texts' \in Seq(Buffers)
    <3>1. Append(texts, cbuf'[s]) \in Seq(Buffers)
      BY <2>2, SequenceTypes
    <3> QED
      BY <1>5, <3>1 DEF ReceiveResponse
  <2>4. cpc' \in ClientPlaces
    BY <1>5 DEF ReceiveResponse, ClientPlaces
  <2>5. csrv' \in 1..NumServers + 1
    BY <1>5, ClientCounters
  <2> QED
    BY <1>5, <2>2, <2>3, <2>4, <2>5 DEF ReceiveResponse
<1>6. CASE CrashClient
  <2>1. toServer' \in [Servers -> Seq(Buffers)]
    <3>1. CASE cpc = "send"
      <4>1. csrv \in Servers /\ Append(toServer[csrv], Torn) \in Seq(Buffers)
        BY <3>1, BufferTypes, SequenceTypes
      <4> QED
        BY <1>6, <4>1 DEF CrashClient
    <3> QED
      BY <1>6, <3>1 DEF CrashClient
  <2> QED
    BY <1>6, <2>1 DEF CrashClient, ClientPlaces
<1> QED
  BY <1>1, <1>2, <1>3, <1>4, <1>5, <1>6 DEF ClientStep

\* Every step preserves types.
LEMMA TypeStep ==
    ASSUME TypeOK, ClientInv, [Next]_vars
    PROVE  TypeOK'
<1>1. CASE Idle \/ UNCHANGED vars
  BY <1>1 DEF Idle, TypeOK, vars, clientVars, serverVars, netVars
<1> QED
  BY <1>1, TypeServer, TypeClient DEF Next

-----------------------------------------------------------------------------
(* The streams of requests.                                                *)

\* Reading the first of the requests from position Len(a) on and adding its
\* term keeps terms and channel consecutive.
LEMMA StreamRead ==
    ASSUME NEW a \in Seq(Selections), NEW c \in Seq(Buffers), c # <<>>,
           Following(c, Len(a)), InOrder(a), NEW d, d = Append(a, Head(c).sel)
    PROVE  /\ Len(d) = Len(a) + 1
           /\ Len(Tail(c)) = Len(c) - 1
           /\ Following(Tail(c), Len(d))
           /\ InOrder(d)
<1> USE DEF Following, InOrder
<1>1. Len(c) \in Nat /\ Len(c) >= 1 /\ Head(c) = c[1] /\ Len(a) \in Nat
  OBVIOUS
<1>2. Head(c).sel = Len(a)
  <2>1. c[1] = Query(Len(a) + 1 - 1)
    BY <1>1
  <2>2. Len(a) + 1 - 1 = Len(a)
    BY <1>1
  <2> QED
    BY <1>1, <2>1, <2>2 DEF Query
<1>3. Len(a) \in Selections
  BY <1>1 DEF Selections
<1>4. /\ Len(d) = Len(a) + 1
      /\ \A j \in 1..Len(d) : d[j] = IF j <= Len(a) THEN a[j] ELSE Len(a)
  BY <1>1, <1>2, <1>3
<1>5. Len(Tail(c)) = Len(c) - 1 /\ \A j \in 1..Len(c) - 1 : Tail(c)[j] = c[j + 1]
  BY <1>1
<1>6. ASSUME NEW j \in 1..Len(Tail(c)) PROVE Tail(c)[j] = Query(Len(d) + j - 1)
  <2>1. j + 1 \in 1..Len(c) /\ Tail(c)[j] = c[j + 1]
    BY <1>1, <1>5
  <2>2. c[j + 1] = Query(Len(a) + (j + 1) - 1)
    BY <2>1
  <2>3. Len(a) + (j + 1) - 1 = Len(d) + j - 1
    BY <1>1, <1>4
  <2> QED
    BY <2>1, <2>2, <2>3
<1>7. ASSUME NEW j \in 1..Len(d) PROVE d[j] = j - 1
  BY <1>1, <1>4
<1> QED
  BY <1>4, <1>5, <1>6, <1>7

\* Writing the next request keeps the channel consecutive.
LEMMA StreamWrite ==
    ASSUME NEW n \in Nat, NEW c \in Seq(Buffers), NEW k \in Nat, k = n + Len(c),
           Following(c, n), NEW d, d = Append(c, Query(k))
    PROVE  /\ Len(d) = Len(c) + 1
           /\ Following(d, n)
<1> USE DEF Following
<1>1. Len(c) \in Nat /\ Query(k) \in Buffers
  BY BufferTypes
<1>2. /\ Len(d) = Len(c) + 1
      /\ \A j \in 1..Len(d) : d[j] = IF j <= Len(c) THEN c[j] ELSE Query(k)
  BY <1>1
<1>3. ASSUME NEW j \in 1..Len(d) PROVE d[j] = Query(n + j - 1)
  <2>1. CASE j <= Len(c)
    BY <1>1, <1>2, <2>1
  <2>2. CASE j > Len(c)
    <3>1. j = Len(c) + 1
      BY <1>1, <1>2, <2>2
    <3>2. n + j - 1 = k
      BY <1>1, <3>1
    <3> QED
      BY <1>2, <2>2, <3>2, <1>1
  <2> QED
    BY <1>1, <1>2, <2>1, <2>2
<1> QED
  BY <1>2, <1>3

\* A response whose terms are in order is Paired.
LEMMA PairedTerms ==
    ASSUME NEW a \in Seq(Selections), InOrder(a)
    PROVE  a = Paired(Len(a))
<1>1. a \in [1..Len(a) -> Selections]
  BY LenProperties
<1> QED
  BY <1>1 DEF Paired, InOrder

\* The length of a paired response.
LEMMA PairedLen ==
    ASSUME NEW m \in Nat
    PROVE  Len(Paired(m)) = m
<1>1. Paired(m) \in [1..m -> Nat]
  BY DEF Paired
<1>2. Paired(m) \in Seq(Nat)
  BY <1>1
<1> QED
  BY <1>1, <1>2

-----------------------------------------------------------------------------
(* The session invariant, server steps.                                    *)

\* The processes start in the invariant.
LEMMA SessionInit == Init => SessionInv
  BY ServersAssumption
  DEF Init, SessionInv, ClientInv, ServerInv, StreamInv, Following, InOrder,
      ReplyInv, Sent, HasText, ClientGone, Stopped, Servers

\* A step of a server is taken by a process that runs and touches nothing of
\* the client or of the other servers.
LEMMA ServerFrame ==
    ASSUME TypeOK, NEW s \in Servers, ServerStep(s) \/ CrashServer(s)
    PROVE  /\ ~Stopped(s)
           /\ UNCHANGED clientVars
           /\ \A t \in Servers \ {s} : /\ spc'[t] = spc[t]
                                      /\ acc'[t] = acc[t]
                                      /\ toServer'[t] = toServer[t]
                                      /\ toClient'[t] = toClient[t]
<1> USE DEF TypeOK, Stopped, clientVars, netVars
<1>1. CASE Listen(s) \/ AcceptClient(s) \/ ReadDatabase(s)
  BY <1>1 DEF Listen, AcceptClient, ReadDatabase
<1>2. CASE MultiplyRow(s)
  BY <1>2 DEF MultiplyRow, ReceiveRequest
<1>3. CASE RejectRow(s)
  BY <1>3 DEF RejectRow, ReceiveRequest
<1>4. CASE SendResponse(s)
  BY <1>4 DEF SendResponse
<1>5. CASE CrashServer(s)
  BY <1>5 DEF CrashServer
<1> QED
  BY <1>1, <1>2, <1>3, <1>4, <1>5 DEF ServerStep

\* What the server does to its own part of the invariant.
LEMMA ServerOwn ==
    ASSUME TypeOK, SessionInv, NEW s \in Servers, ServerStep(s) \/ CrashServer(s)
    PROVE  ServerInv(s)'
<1>1. /\ Len(acc[s]) \in Nat /\ ServerImages[s] \in Nat /\ ServerInv(s)
      /\ spc \in [Servers -> ServerPlaces] /\ acc[s] \in Seq(Selections)
      /\ acc \in [Servers -> Seq(Selections)] /\ toClient \in [Servers -> Seq(Buffers)]
      /\ sbuf \in [Servers -> Buffers] /\ toServer \in [Servers -> Seq(Buffers)]
  BY ImagesAssumption DEF TypeOK, SessionInv
<1>2. CASE Listen(s) \/ AcceptClient(s)
  BY <1>1, <1>2 DEF Listen, AcceptClient, ServerInv, Stopped, netVars
<1>3. CASE ReadDatabase(s)
  BY <1>1, <1>3 DEF ReadDatabase, AtRow, ServerInv, Stopped, netVars
<1>4. CASE MultiplyRow(s)
  <2>1. sbuf'[s].sel \in Selections
    <3>1. Received(sbuf[s], toServer[s]) \in Buffers
      BY <1>1, ReadTypes
    <3> QED
      BY <1>1, <1>4, <3>1 DEF MultiplyRow, ReceiveRequest, Buffers
  <2>2. acc'[s] = Append(acc[s], sbuf'[s].sel)
    BY <1>1, <1>4 DEF MultiplyRow
  <2>3. Len(acc'[s]) = Len(acc[s]) + 1
    BY <1>1, <2>1, <2>2
  <2>4. /\ spc[s] = "receive" /\ toClient' = toClient
        /\ spc'[s] = AtRow(s, Len(acc[s]) + 1)
    BY <1>1, <1>4 DEF MultiplyRow, ReceiveRequest
  <2> QED
    BY <1>1, <2>3, <2>4 DEF AtRow, ServerInv, Stopped
<1>5. CASE RejectRow(s)
  BY <1>1, <1>5 DEF RejectRow, ReceiveRequest, ServerInv, Stopped
<1>6. CASE SendResponse(s)
  BY <1>1, <1>6 DEF SendResponse, ServerInv, Stopped
<1>7. CASE CrashServer(s)
  BY <1>1, <1>7 DEF CrashServer, ServerInv, Stopped
<1> QED
  BY <1>2, <1>3, <1>4, <1>5, <1>6, <1>7 DEF ServerStep

\* What the server does to the streams while the client runs.
LEMMA ServerStream ==
    ASSUME TypeOK, SessionInv, ~ClientGone,
           NEW s \in Servers, ServerStep(s) \/ CrashServer(s)
    PROVE  StreamInv(s)' /\ ReplyInv(s)'
<1>1. /\ Len(acc[s]) \in Nat /\ ServerImages[s] \in Nat /\ ClientImages \in Nat
      /\ ServerInv(s) /\ StreamInv(s) /\ ReplyInv(s)
      /\ acc[s] \in Seq(Selections) /\ toServer[s] \in Seq(Buffers)
      /\ spc \in [Servers -> ServerPlaces] /\ acc \in [Servers -> Seq(Selections)]
      /\ toClient \in [Servers -> Seq(Buffers)] /\ sbuf \in [Servers -> Buffers]
      /\ toServer \in [Servers -> Seq(Buffers)] /\ Len(toServer[s]) \in Nat
  BY ImagesAssumption DEF TypeOK, SessionInv
<1>2. /\ ~Stopped(s) /\ ~HasText(s)
      /\ Sent(s)' = Sent(s) /\ HasText(s)' = HasText(s)
  BY <1>1, ServerFrame DEF ReplyInv, Sent, HasText, clientVars
<1>3. Sent(s) \in Nat
  BY DEF Sent, TypeOK
<1>4. CASE Listen(s) \/ AcceptClient(s) \/ ReadDatabase(s)
  <2>1. UNCHANGED <<acc, toServer>> /\ ~Stopped(s)'
    BY <1>1, <1>4 DEF Listen, AcceptClient, ReadDatabase, AtRow, Stopped, netVars
  <2> QED
    BY <1>1, <1>2, <2>1 DEF StreamInv, ReplyInv, Stopped
<1>5. CASE MultiplyRow(s)
  <2>1. toServer[s] # <<>>
    BY <1>5 DEF MultiplyRow, ReceiveRequest, RequestReadable
  <2>2. /\ acc'[s] = Append(acc[s], Head(toServer[s]).sel)
        /\ toServer'[s] = Tail(toServer[s])
    BY <1>1, <1>5, <2>1 DEF MultiplyRow, ReceiveRequest, Received, Unread
  <2>3. /\ Len(acc'[s]) = Len(acc[s]) + 1
        /\ Len(toServer'[s]) = Len(toServer[s]) - 1
        /\ Following(toServer'[s], Len(acc'[s])) /\ InOrder(acc'[s])
    <3>1. /\ Following(toServer[s], Len(acc[s])) /\ InOrder(acc[s])
          /\ acc[s] \in Seq(Selections) /\ toServer[s] \in Seq(Buffers)
      BY <1>1, <1>2 DEF StreamInv
    <3> QED
      BY <2>1, <2>2, <3>1, StreamRead
  <2>4. Len(acc'[s]) + Len(toServer'[s]) = Sent(s)'
    BY <1>1, <1>2, <1>3, <2>3 DEF StreamInv
  <2>5. spc'[s] # "exited" /\ ~Stopped(s)'
    BY <1>1, <1>5 DEF MultiplyRow, AtRow, Stopped
  <2>6. StreamInv(s)'
    BY <2>3, <2>4, <2>5 DEF StreamInv
  <2> QED
    BY <1>2, <2>5, <2>6 DEF ReplyInv
<1>6. CASE RejectRow(s)
  <2>1. toServer[s] # <<>>
    BY <1>6 DEF RejectRow, ReceiveRequest, RequestReadable
  <2>2. /\ acc' = acc /\ spc'[s] = "failed"
        /\ toServer'[s] = Tail(toServer[s])
    BY <1>1, <1>6, <2>1 DEF RejectRow, ReceiveRequest, Unread
  <2>3. Len(toServer'[s]) = Len(toServer[s]) - 1
    BY <1>1, <2>1, <2>2
  <2>4. Len(acc[s]) + Len(toServer'[s]) <= Sent(s)
    <3> DEFINE p == Len(acc[s])
               q == Len(toServer[s])
    <3>1. p + q = Sent(s) /\ p \in Nat /\ q \in Nat
      BY <1>1, <1>2 DEF StreamInv
    <3>2. Len(toServer'[s]) = q - 1
      BY <2>3
    <3> HIDE DEF p, q
    <3>3. p + (q - 1) <= Sent(s)
      BY <3>1
    <3> QED
      BY <3>2, <3>3 DEF p
  <2>5. InOrder(acc'[s])
    BY <1>1, <2>2 DEF StreamInv
  <2>6. StreamInv(s)'
    BY <1>2, <2>2, <2>4, <2>5 DEF StreamInv, Stopped
  <2> QED
    BY <1>2, <2>2, <2>6 DEF ReplyInv, Stopped
<1>7. CASE SendResponse(s)
  <2>1. /\ UNCHANGED <<acc, toServer>> /\ spc'[s] = "exited" /\ Stopped(s)'
        /\ Len(acc[s]) = ServerImages[s]
    BY <1>1, <1>7 DEF SendResponse, Stopped, ServerInv
  <2>2. StreamInv(s)'
    BY <1>1, <1>2, <2>1 DEF StreamInv
  <2>3. ASSUME ServerImages[s] = ClientImages
        PROVE  Sent(s) = ClientImages /\ toClient'[s] = <<Sum(Paired(ClientImages))>>
    <3>1. Sent(s) <= ClientImages
      BY ServersAssumption, ImagesAssumption DEF Sent, SessionInv, ClientInv, TypeOK
    <3>2. Len(toServer[s]) = 0 /\ Sent(s) = ClientImages
      <4> DEFINE q == Len(toServer[s])
      <4>1. ClientImages + q = Sent(s)
        BY <1>1, <1>2, <2>1, <2>3 DEF StreamInv
      <4>2. q \in Nat
        BY <1>1
      <4> HIDE DEF q
      <4>3. q = 0 /\ Sent(s) = ClientImages
        BY <1>1, <1>3, <3>1, <4>1, <4>2
      <4> QED
        BY <4>3 DEF q
    <3>3. toServer[s] = <<>>
      BY <1>1, <3>2
    <3>4. acc[s] = Paired(ClientImages)
      BY <1>1, <2>1, <2>3, PairedTerms DEF StreamInv
    <3> QED
      BY <1>1, <1>7, <3>2, <3>3, <3>4 DEF SendResponse
  <2> QED
    BY <1>2, <2>1, <2>2, <2>3 DEF ReplyInv
<1>8. CASE CrashServer(s)
  <2>1. UNCHANGED <<acc, toServer>> /\ spc'[s] = "crashed" /\ Stopped(s)'
    BY <1>1, <1>8 DEF CrashServer, Stopped
  <2> QED
    BY <1>1, <1>2, <2>1 DEF StreamInv, ReplyInv
<1> QED
  BY <1>4, <1>5, <1>6, <1>7, <1>8 DEF ServerStep

\* The steps of a server preserve the invariant.
LEMMA SessionServer ==
    ASSUME TypeOK, SessionInv, NEW s \in Servers, ServerStep(s) \/ CrashServer(s)
    PROVE  SessionInv'
<1>1. /\ ~Stopped(s)
      /\ UNCHANGED <<index, cpc, cimg, csrv, texts, out>>
      /\ \A t \in Servers \ {s} : /\ spc'[t] = spc[t] /\ acc'[t] = acc[t]
                                 /\ toServer'[t] = toServer[t]
                                 /\ toClient'[t] = toClient[t]
  BY ServerFrame DEF clientVars
<1>2. ClientInv'
  BY <1>1 DEF SessionInv, ClientInv
<1>3. ASSUME NEW t \in Servers PROVE ServerInv(t)'
  <2>1. CASE t = s
    BY <2>1, ServerOwn
  <2>2. CASE t # s
    BY <1>1, <2>2 DEF SessionInv, ServerInv, Stopped
  <2> QED
    BY <2>1, <2>2
<1>4. ASSUME ~ClientGone', NEW t \in Servers PROVE StreamInv(t)' /\ ReplyInv(t)'
  <2>1. ~ClientGone
    BY <1>1, <1>4 DEF ClientGone
  <2>2. CASE t = s
    BY <2>1, <2>2, ServerStream
  <2>3. CASE t # s
    <3>1. StreamInv(t) /\ ReplyInv(t)
      BY <2>1 DEF SessionInv
    <3>2. /\ spc'[t] = spc[t] /\ acc'[t] = acc[t] /\ toServer'[t] = toServer[t]
          /\ toClient'[t] = toClient[t] /\ Sent(t)' = Sent(t)
          /\ HasText(t)' = HasText(t) /\ Stopped(t)' = Stopped(t)
      BY <1>1, <2>3 DEF Sent, HasText, Stopped
    <3>3. StreamInv(t)'
      BY <3>1, <3>2 DEF StreamInv
    <3>4. ReplyInv(t)'
      BY <1>1, <3>1, <3>2 DEF ReplyInv
    <3> QED
      BY <3>3, <3>4
  <2> QED
    BY <2>2, <2>3
<1>5. cpc' # "done"
  BY <1>1 DEF SessionInv
<1> QED
  BY <1>2, <1>3, <1>4, <1>5 DEF SessionInv

-----------------------------------------------------------------------------
(* The session invariant, client steps.                                    *)

\* A client step that changes no server, reply or stream leaves the servers'
\* part of the invariant alone.
LEMMA ServersUnmoved ==
    ASSUME SessionInv, UNCHANGED serverVars, UNCHANGED toClient
    PROVE  \A t \in Servers : ServerInv(t)'
  BY DEF SessionInv, ServerInv, Stopped, serverVars

\* A running client that ends without writing its file.
LEMMA ClientEnded ==
    ASSUME SessionInv, UNCHANGED <<index, cimg, csrv, texts>>, ~ClientGone,
           cpc' \in {"failed", "crashed"}, \A t \in Servers : ServerInv(t)'
    PROVE  SessionInv'
  BY DEF SessionInv, ClientInv, ClientGone

\* Connecting preserves the invariant.
LEMMA ConnectStep ==
    ASSUME TypeOK, SessionInv, NEW s \in Servers, ConnectTo(s)
    PROVE  SessionInv'
<1>1. /\ cpc = "connect" /\ csrv = s /\ ~ClientGone
      /\ UNCHANGED <<index, cimg, texts, spc, acc, toServer, toClient>>
      /\ UNCHANGED serverVars
  BY DEF ConnectTo, ClientGone, serverVars
<1>2. \A t \in Servers : ServerInv(t)'
  BY <1>1, ServersUnmoved
<1>3. CASE spc[s] # "listening"
  <2>1. cpc' = "failed" /\ csrv' = csrv
    BY <1>3 DEF ConnectTo
  <2> QED
    BY <1>1, <1>2, <2>1, ClientEnded
<1>4. CASE spc[s] = "listening"
  <2>1. /\ cpc' \in {"connect", "fetch"} /\ csrv' \in Servers
        /\ cpc' = "fetch" => csrv' = 1
    <3>1. /\ csrv' = IF s = NumServers THEN 1 ELSE s + 1
          /\ cpc' = IF s = NumServers THEN "fetch" ELSE "connect"
      BY <1>4 DEF ConnectTo
    <3> QED
      BY <3>1, ServersAssumption DEF Servers
  <2>2. ClientInv'
    BY <1>1, <2>1 DEF SessionInv, ClientInv
  <2>3. ASSUME NEW t \in Servers PROVE StreamInv(t)' /\ ReplyInv(t)'
    <3>1. StreamInv(t) /\ ReplyInv(t)
      BY <1>1 DEF SessionInv
    <3>2. /\ Sent(t)' = Sent(t) /\ ~HasText(t) /\ ~HasText(t)'
          /\ Stopped(t)' = Stopped(t)
      BY <1>1, <2>1 DEF Sent, HasText, Stopped
    <3>3. StreamInv(t)'
      BY <1>1, <3>1, <3>2 DEF StreamInv
    <3>4. ReplyInv(t)'
      BY <1>1, <3>1, <3>2 DEF ReplyInv
    <3> QED
      BY <3>3, <3>4
  <2> QED
    BY <1>2, <2>1, <2>2, <2>3 DEF SessionInv
<1> QED
  BY <1>3, <1>4

\* Starting to fetch preserves the invariant.
LEMMA FetchStep ==
    ASSUME TypeOK, SessionInv, StartFetch
    PROVE  SessionInv'
<1>1. /\ cpc = "fetch" /\ ~ClientGone
      /\ UNCHANGED <<index, cimg, csrv, texts, spc, acc, toServer, toClient>>
      /\ UNCHANGED serverVars
  BY DEF StartFetch, ClientGone, serverVars, netVars
<1>2. \A t \in Servers : ServerInv(t)'
  BY <1>1, ServersUnmoved
<1>3. CASE index >= ClientImages \/ ShareThrows
  <2>1. cpc' = "failed"
    BY <1>3 DEF StartFetch
  <2> QED
    BY <1>1, <1>2, <2>1, ClientEnded
<1>4. CASE ~(index >= ClientImages \/ ShareThrows)
  <2>1. cpc' = "send" /\ index < ClientImages
    BY <1>4, ImagesAssumption DEF StartFetch, TypeOK
  <2>2. cimg = 0 /\ csrv \in Servers /\ texts = <<>>
    BY <1>1 DEF SessionInv, ClientInv
  <2>3. cimg < ClientImages
    BY <2>1, <2>2, ImagesAssumption DEF TypeOK
  <2>4. ClientInv'
    BY <1>1, <2>1, <2>2, <2>3 DEF ClientInv
  <2>5. ASSUME NEW t \in Servers PROVE StreamInv(t)' /\ ReplyInv(t)'
    <3>1. StreamInv(t) /\ ReplyInv(t) /\ csrv = 1
      BY <1>1 DEF SessionInv, ClientInv
    <3>2. ~(t < csrv)
      BY <3>1, ServersAssumption DEF Servers
    <3>3. /\ Sent(t)' = Sent(t) /\ ~HasText(t) /\ ~HasText(t)'
          /\ Stopped(t)' = Stopped(t)
      BY <1>1, <2>1, <3>2 DEF Sent, HasText, Stopped
    <3>4. StreamInv(t)'
      BY <1>1, <3>1, <3>3 DEF StreamInv
    <3>5. ReplyInv(t)'
      BY <1>1, <3>1, <3>3 DEF ReplyInv
    <3> QED
      BY <3>4, <3>5
  <2> QED
    BY <1>2, <2>1, <2>4, <2>5 DEF SessionInv
<1> QED
  BY <1>3, <1>4

\* A request extends the stream to its server and no other.
LEMMA SendStep ==
    ASSUME TypeOK, SessionInv, NEW s \in Servers, SendShare(s)
    PROVE  SessionInv'
<1>1. /\ cpc = "send" /\ csrv = s /\ ~ClientGone /\ cimg \in Nat
      /\ cimg < ClientImages /\ texts = <<>> /\ index < ClientImages
      /\ UNCHANGED <<index, texts, spc, acc>> /\ UNCHANGED serverVars
      /\ ClientImages \in Nat
  BY ImagesAssumption
  DEF SendShare, ClientGone, serverVars, TypeOK, SessionInv, ClientInv
<1>2. /\ csrv' = IF s = NumServers THEN 1 ELSE s + 1
      /\ cimg' = IF s = NumServers THEN cimg + 1 ELSE cimg
      /\ cpc' = IF cimg' < ClientImages THEN "send" ELSE "recv"
  BY DEF SendShare, AfterSending
<1>3. csrv' \in Servers /\ cimg' \in Nat /\ cimg' <= ClientImages
  BY <1>1, <1>2, ServersAssumption DEF Servers
<1>4. cpc' = "recv" => csrv' = 1
  BY <1>1, <1>2
<1>5. /\ \A t \in Servers \ {s} : toServer'[t] = toServer[t] /\ toClient'[t] = toClient[t]
      /\ ~Stopped(s) => /\ toServer'[s] = Append(toServer[s], Query(cimg))
                        /\ toClient'[s] = toClient[s]
      /\ Stopped(s) => toServer'[s] = toServer[s]
  BY DEF SendShare, TypeOK
<1>6. ClientInv'
  <2>1. CASE cpc' = "send"
    BY <1>1, <1>2, <1>3, <2>1 DEF ClientInv
  <2>2. CASE cpc' = "recv"
    <3>1. cimg' = ClientImages /\ csrv' = 1 /\ Len(texts') = 0
      BY <1>1, <1>2, <1>4, <2>2
    <3> QED
      BY <1>1, <1>3, <2>2, <3>1 DEF ClientInv
  <2> QED
    BY <1>2, <2>1, <2>2
<1>7. ASSUME NEW t \in Servers PROVE ServerInv(t)'
  <2>1. ServerInv(t) /\ Stopped(t)' = Stopped(t)
    BY <1>1 DEF SessionInv, Stopped
  <2>2. ~Stopped(t) => toClient'[t] = toClient[t]
    BY <1>5
  <2> QED
    BY <1>1, <2>1, <2>2 DEF ServerInv
<1>8. /\ Sent(s) = cimg /\ Sent(s)' = cimg + 1
      /\ \A t \in Servers \ {s} : Sent(t)' = Sent(t)
  <2>1. CASE s = NumServers
    <3>1. csrv' = 1 /\ cimg' = cimg + 1 /\ \A t \in Servers : ~(t < 1)
      BY <1>2, <2>1 DEF Servers
    <3>2. \A t \in Servers \ {s} : t < s
      BY <2>1, ServersAssumption DEF Servers
    <3>3. ~(s < s) /\ cimg + 0 = cimg /\ cimg + 1 + 0 = cimg + 1
      BY <1>1 DEF Servers
    <3> QED
      BY <1>1, <3>1, <3>2, <3>3 DEF Sent
  <2>2. CASE s # NumServers
    <3>1. csrv' = s + 1 /\ cimg' = cimg /\ cpc' = "send"
      BY <1>1, <1>2, <2>2
    <3>2. /\ ~(s < s) /\ s < s + 1 /\ cimg + 0 = cimg
          /\ \A t \in Servers \ {s} : t < s <=> t < s + 1
      BY <1>1, ServersAssumption DEF Servers
    <3> QED
      BY <1>1, <3>1, <3>2 DEF Sent
  <2> QED
    BY <2>1, <2>2
<1>9. ASSUME NEW t \in Servers PROVE StreamInv(t)' /\ ReplyInv(t)'
  <2>1. StreamInv(t) /\ ReplyInv(t) /\ Stopped(t)' = Stopped(t)
    BY <1>1 DEF SessionInv, Stopped
  <2>2. ~HasText(t) /\ ~HasText(t)'
    <3>1. cpc' = "recv" => ~(t < csrv')
      BY <1>4 DEF Servers
    <3> QED
      BY <1>1, <1>2, <3>1 DEF HasText
  <2>3. CASE t # s
    <3>1. StreamInv(t)'
      BY <1>1, <1>5, <1>8, <2>1, <2>3 DEF StreamInv
    <3>2. ReplyInv(t)'
      BY <1>1, <1>5, <1>8, <2>1, <2>2, <2>3 DEF ReplyInv
    <3> QED
      BY <3>1, <3>2
  <2>4. CASE t = s /\ ~Stopped(s)
    <3> DEFINE n == Len(acc[s])
               c == toServer[s]
    <3>1. n \in Nat /\ c \in Seq(Buffers) /\ cimg = n + Len(c) /\ Following(c, n)
      BY <1>8, <2>1, <2>4 DEF StreamInv, TypeOK
    <3>2. toServer'[s] = Append(c, Query(cimg))
      BY <1>5, <2>4
    <3>3. Len(c) \in Nat
      BY <3>1
    <3> HIDE DEF n, c
    <3>4. Len(toServer'[s]) = Len(c) + 1 /\ Following(toServer'[s], n)
      BY <1>1, <3>1, <3>2, StreamWrite
    <3>5. n + (Len(c) + 1) = cimg + 1
      BY <3>1, <3>3
    <3>6. Len(acc'[s]) + Len(toServer'[s]) = Sent(s)' /\ Following(toServer'[s], Len(acc'[s]))
      BY <1>1, <1>8, <3>4, <3>5 DEF n
    <3>7. StreamInv(s)'
      BY <1>1, <2>1, <2>4, <3>6 DEF StreamInv
    <3> QED
      BY <2>1, <2>2, <2>4, <3>7 DEF ReplyInv, Stopped
  <2>5. CASE t = s /\ Stopped(s)
    <3>1. Len(acc[s]) + Len(toServer[s]) <= cimg + 1
      <4> DEFINE p == Len(acc[s])
                 q == Len(toServer[s])
      <4>1. p \in Nat /\ q \in Nat /\ p + q <= cimg
        BY <1>8, <2>1, <2>5 DEF StreamInv, TypeOK
      <4> HIDE DEF p, q
      <4>2. p + q <= cimg + 1
        BY <1>1, <4>1
      <4> QED
        BY <4>2 DEF p, q
    <3>2. StreamInv(s)'
      BY <1>1, <1>5, <1>8, <2>1, <2>5, <3>1 DEF StreamInv
    <3>3. ~(spc[s] = "exited" /\ ServerImages[s] = ClientImages)
      BY <1>1, <1>8, <2>1, <2>5 DEF ReplyInv
    <3> QED
      BY <1>1, <2>2, <2>5, <3>2, <3>3 DEF ReplyInv
  <2> QED
    BY <2>3, <2>4, <2>5
<1> QED
  BY <1>2, <1>6, <1>7, <1>9 DEF SessionInv

\* A reply read is the complete one, if its server answered.
LEMMA ReceiveStep ==
    ASSUME TypeOK, SessionInv, NEW s \in Servers, ReceiveResponse(s)
    PROVE  SessionInv'
<1>1. /\ cpc = "recv" /\ csrv = s /\ ~ClientGone /\ Len(texts) = s - 1
      /\ cimg = ClientImages /\ index < ClientImages
      /\ UNCHANGED <<index, cimg, spc, acc, toServer>>
      /\ \A t \in Servers \ {s} : toClient'[t] = toClient[t]
      /\ s \in Nat /\ texts \in Seq(Buffers)
  BY DEF ReceiveResponse, ClientGone, serverVars, TypeOK, SessionInv, ClientInv, Servers
<1>2. /\ toClient'[s] = Unread(toClient[s])
      /\ cbuf'[s] = Received(cbuf[s], toClient[s])
      /\ cbuf'[s] \in Buffers
  BY ReadTypes DEF ReceiveResponse, TypeOK
<1>3. Stopped(s)
  BY <1>1 DEF ReceiveResponse, ReplyReadable, SessionInv, ServerInv
<1>4. ASSUME NEW t \in Servers PROVE ServerInv(t)'
  <2>1. ServerInv(t) /\ Stopped(t)' = Stopped(t)
    BY <1>1 DEF SessionInv, Stopped
  <2>2. ~Stopped(t) => toClient'[t] = toClient[t]
    BY <1>1, <1>3
  <2> QED
    BY <1>1, <2>1, <2>2 DEF ServerInv
<1>5. CASE LoadThrows(cbuf'[s]) /\ cpc' = "failed" /\ UNCHANGED <<texts, csrv>>
  BY <1>1, <1>4, <1>5, ClientEnded
<1>6. CASE /\ texts' = Append(texts, cbuf'[s]) /\ csrv' = s + 1
           /\ cpc' = IF s = NumServers THEN "rebuild" ELSE "recv"
  <2>1. /\ Len(texts') = s /\ texts'[s] = cbuf'[s]
        /\ \A t \in Servers : t < s => texts'[t] = texts[t]
    <3>1. \A t \in 1..Len(texts) : texts'[t] = texts[t]
      BY <1>2, <1>6, <1>1
    <3>2. \A t \in Servers : t < s => t \in 1..s - 1
      BY <1>1 DEF Servers
    <3>3. Len(texts') = Len(texts) + 1 /\ texts'[Len(texts) + 1] = cbuf'[s]
      BY <1>1, <1>2, <1>6
    <3>4. (s - 1) + 1 = s
      BY <1>1
    <3> QED
      BY <1>1, <3>1, <3>2, <3>3, <3>4
  <2>2. ClientInv'
    <3>1. CASE s = NumServers
      BY <1>1, <1>6, <2>1, <3>1 DEF ClientInv
    <3>2. CASE s # NumServers
      <4>1. s + 1 \in Servers /\ (s + 1) - 1 = s
        BY <1>1, <3>2, ServersAssumption DEF Servers
      <4> QED
        BY <1>1, <1>6, <2>1, <3>2, <4>1 DEF ClientInv
    <3> QED
      BY <3>1, <3>2
  <2>3. \A t \in Servers : HasText(t)' <=> (HasText(t) \/ t = s)
    <3>1. CASE s = NumServers
      <4>1. \A t \in Servers : t < s \/ t = s
        BY <3>1, ServersAssumption DEF Servers
      <4> QED
        BY <1>1, <1>6, <3>1, <4>1 DEF HasText
    <3>2. CASE s # NumServers
      <4>1. \A t \in Servers : t < s + 1 <=> t < s \/ t = s
        BY <1>1 DEF Servers
      <4> QED
        BY <1>1, <1>6, <3>2, <4>1 DEF HasText
    <3> QED
      BY <3>1, <3>2
  <2>4. ASSUME NEW t \in Servers PROVE StreamInv(t)' /\ ReplyInv(t)'
    <3>1. /\ StreamInv(t) /\ ReplyInv(t) /\ Stopped(t)' = Stopped(t)
          /\ Sent(t)' = Sent(t)
      BY <1>1, <1>6 DEF SessionInv, Stopped, Sent
    <3>2. StreamInv(t)'
      BY <1>1, <3>1 DEF StreamInv
    <3>3. HasText(t)' => Stopped(t)'
      BY <1>3, <2>3, <3>1 DEF ReplyInv
    <3>4. ASSUME spc'[t] = "exited", ServerImages[t] = ClientImages
          PROVE  /\ Sent(t)' = ClientImages
                 /\ IF HasText(t)' THEN texts'[t] = Sum(Paired(ClientImages))
                                   ELSE toClient'[t] = <<Sum(Paired(ClientImages))>>
      <4>1. /\ Sent(t)' = ClientImages
            /\ IF HasText(t) THEN texts[t] = Sum(Paired(ClientImages))
                             ELSE toClient[t] = <<Sum(Paired(ClientImages))>>
        BY <1>1, <3>1, <3>4 DEF ReplyInv
      <4>2. CASE t = s
        <5>1. ~HasText(s)
          BY <1>1 DEF HasText, Servers
        <5>2. toClient[s] = <<Sum(Paired(ClientImages))>>
          BY <4>1, <4>2, <5>1
        <5>3. cbuf'[s] = Sum(Paired(ClientImages))
          BY <1>2, <5>2 DEF Received
        <5> QED
          BY <2>1, <2>3, <4>1, <4>2, <5>3
      <4>3. CASE t # s
        <5>1. HasText(t)' = HasText(t) /\ (HasText(t) => t < s)
          BY <1>1, <2>3, <4>3 DEF HasText
        <5> QED
          BY <1>1, <2>1, <4>1, <4>3, <5>1
      <4> QED
        BY <4>2, <4>3
    <3>5. ReplyInv(t)'
      BY <3>3, <3>4 DEF ReplyInv
    <3> QED
      BY <3>2, <3>5
  <2> QED
    BY <1>4, <1>6, <2>2, <2>4 DEF SessionInv
<1> QED
  BY <1>5, <1>6 DEF ReceiveResponse

\* The file written agrees with the replies read.
LEMMA WriteStep ==
    ASSUME TypeOK, SessionInv, WriteImage
    PROVE  SessionInv'
<1>1. /\ cpc = "rebuild" /\ ~ClientGone /\ cimg = ClientImages
      /\ index \in Nat /\ index < ClientImages /\ ClientImages \in Nat
      /\ UNCHANGED <<index, cimg, csrv, texts, spc, acc, toServer, toClient>>
      /\ UNCHANGED serverVars
  BY ImagesAssumption
  DEF WriteImage, ClientGone, serverVars, netVars, SessionInv, ClientInv, TypeOK
<1>2. \A t \in Servers : ServerInv(t)'
  BY <1>1, ServersUnmoved
<1>3. CASE cpc' = "failed"
  BY <1>1, <1>2, <1>3, ClientEnded
<1>4. CASE cpc' = "done" /\ out' = IF Reconstructs THEN index ELSE Wrong
  <2>1. \A t \in Servers : Stopped(t) /\ StreamInv(t) /\ ReplyInv(t) /\ ServerInv(t) /\ HasText(t)
    BY <1>1 DEF SessionInv, ReplyInv, HasText
  <2>2. ASSUME NEW t \in Servers, spc[t] = "exited" PROVE ServerImages[t] <= ClientImages
    <3> DEFINE p == Len(acc[t])
               q == Len(toServer[t])
    <3>1. p \in Nat /\ q \in Nat /\ p = ServerImages[t] /\ p + q <= Sent(t)
      BY <2>1, <2>2 DEF StreamInv, ServerInv, TypeOK
    <3>2. Sent(t) = ClientImages
      BY <1>1 DEF Sent
    <3> HIDE DEF p, q
    <3> QED
      BY <1>1, <3>1, <3>2
  <2>3. ASSUME \A t \in Servers : spc[t] = "exited" /\ ServerImages[t] = ClientImages
        PROVE  Reconstructs
    <3>1. \A t \in Servers : texts[t] = Sum(Paired(ClientImages))
      BY <2>1, <2>3 DEF ReplyInv
    <3>2. Len(texts[1].terms) = ClientImages
      BY <1>1, <3>1, ServersAssumption, PairedLen DEF Sum, Servers
    <3> QED
      BY <1>1, <3>1, <3>2 DEF Reconstructs
  <2>4. ClientInv'
    BY <1>1, <1>4 DEF ClientInv
  <2>5. ClientGone'
    BY <1>4 DEF ClientGone
  <2>6. \A t \in Servers : Stopped(t)'
    BY <1>1, <2>1 DEF Stopped
  <2> QED
    BY <1>1, <1>2, <1>4, <2>2, <2>3, <2>4, <2>5, <2>6 DEF SessionInv
<1> QED
  BY <1>3, <1>4 DEF WriteImage

\* The death of the client preserves the invariant.
LEMMA CrashClientStep ==
    ASSUME TypeOK, SessionInv, CrashClient
    PROVE  SessionInv'
<1>1. /\ ~ClientGone /\ cpc' = "crashed" /\ UNCHANGED <<index, cimg, csrv, texts>>
      /\ UNCHANGED serverVars /\ UNCHANGED toClient
  BY DEF CrashClient
<1> QED
  BY <1>1, ServersUnmoved, ClientEnded

\* Doing nothing preserves the invariant.
LEMMA SessionStutter ==
    ASSUME SessionInv, UNCHANGED vars
    PROVE  SessionInv'
<1>1. UNCHANGED <<index, cpc, cimg, csrv, texts, out, spc, acc, toServer, toClient>>
  BY DEF vars, clientVars, serverVars, netVars
<1>2. /\ ClientInv' /\ ClientGone' = ClientGone
      /\ \A t \in Servers : ServerInv(t)' /\ Stopped(t)' = Stopped(t)
  BY <1>1 DEF SessionInv, ClientInv, ServerInv, ClientGone, Stopped
<1>3. ASSUME ~ClientGone, NEW t \in Servers PROVE StreamInv(t)' /\ ReplyInv(t)'
  BY <1>1, <1>3 DEF SessionInv, StreamInv, ReplyInv, Sent, HasText, Stopped
<1> QED
  BY <1>1, <1>2, <1>3 DEF SessionInv

\* Every step preserves the invariant.
LEMMA SessionStep ==
    ASSUME TypeOK, SessionInv, [Next]_vars
    PROVE  SessionInv'
<1>1. CASE Idle \/ UNCHANGED vars
  BY <1>1, SessionStutter DEF Idle
<1>2. CASE ClientStep \/ CrashClient
  BY <1>2, ConnectStep, FetchStep, SendStep, ReceiveStep, WriteStep, CrashClientStep
  DEF ClientStep
<1>3. ASSUME NEW s \in Servers, ServerStep(s) \/ CrashServer(s) PROVE SessionInv'
  BY <1>3, SessionServer
<1> QED
  BY <1>1, <1>2, <1>3 DEF Next

-----------------------------------------------------------------------------
(* The theorems.                                                           *)

\* Every state of a session has the invariant the properties follow from.
THEOREM SessionInvariant == Spec => [](TypeOK /\ SessionInv)
<1>1. Init => TypeOK /\ SessionInv
  BY TypeInit, SessionInit
<1>2. TypeOK /\ SessionInv /\ [Next]_vars => (TypeOK /\ SessionInv)'
  <2>1. SessionInv => ClientInv
    BY DEF SessionInv
  <2> QED
    BY <2>1, TypeStep, SessionStep
<1> QED
  BY <1>1, <1>2, PTL DEF Spec

\* Every variable keeps its type: no loop counter of fetch_image runs past its
\* bound and no buffer holds anything but what was written to it.
THEOREM TypeCorrect == Spec => []TypeOK
  BY SessionInvariant, PTL

\* However client and servers interleave and whatever crashes, the i-th term of
\* a response is request i times row i.
THEOREM RowsMatch == Spec => []RowsMatchRequests
<1>1. TypeOK /\ SessionInv => RowsMatchRequests
  <2>1. ASSUME TypeOK, SessionInv, ~ClientGone, NEW s \in Servers
        PROVE  acc[s] = Paired(Len(acc[s]))
    BY <2>1, PairedTerms DEF TypeOK, SessionInv, StreamInv
  <2> QED
    BY <2>1 DEF RowsMatchRequests
<1> QED
  BY <1>1, SessionInvariant, PTL

\* A client and a server can wait for each other only when their numbers of
\* images differ, in the direction that NoWaitCycle says.
THEOREM NoCycle == Spec => []NoWaitCycle
<1>1. TypeOK /\ SessionInv => NoWaitCycle
  <2> SUFFICES ASSUME TypeOK, SessionInv, NEW s \in Servers, csrv = s,
                      cpc = "recv" \/ cpc = "send"
               PROVE  /\ cpc = "recv" /\ spc[s] = "receive" /\ toServer[s] = <<>>
                           => ServerImages[s] > ClientImages
                      /\ cpc = "send" /\ spc[s] = "reply"
                           => ServerImages[s] < ClientImages
    BY DEF NoWaitCycle
  <2> DEFINE p == Len(acc[s])
             q == Len(toServer[s])
  <2>1. /\ ServerInv(s) /\ StreamInv(s) /\ p \in Nat /\ q \in Nat
        /\ ServerImages[s] \in Nat /\ ClientImages \in Nat /\ cimg \in Nat
    BY ImagesAssumption DEF TypeOK, SessionInv, ClientGone
  <2>2. ASSUME cpc = "recv", spc[s] = "receive", toServer[s] = <<>>
        PROVE  ServerImages[s] > ClientImages
    <3>1. p + q = ClientImages + 0 /\ q = 0 /\ p < ServerImages[s]
      BY <2>1, <2>2 DEF StreamInv, ServerInv, Stopped, Sent, SessionInv, ClientInv
    <3> HIDE DEF p, q
    <3> QED
      BY <2>1, <3>1
  <2>3. ASSUME cpc = "send", spc[s] = "reply"
        PROVE  ServerImages[s] < ClientImages
    <3>1. ~(s < s)
      BY DEF Servers
    <3>2. p + q = cimg + 0 /\ p = ServerImages[s] /\ cimg < ClientImages
      BY <2>1, <2>3, <3>1 DEF StreamInv, ServerInv, Stopped, Sent, SessionInv, ClientInv
    <3> HIDE DEF p, q
    <3> QED
      BY <2>1, <3>2
  <2> QED
    BY <2>2, <2>3
<1> QED
  BY <1>1, SessionInvariant, PTL

\* A client that wrote its file while no server was lost wrote the image at
\* index, when all had as many images as it asked about.
THEOREM AnswerIsSound == Spec => []AnswerSound
<1>1. TypeOK /\ SessionInv => AnswerSound
  <2> SUFFICES ASSUME TypeOK, SessionInv, cpc = "done", \A s \in Servers : ~Lost(s)
               PROVE  /\ \A s \in Servers : ServerImages[s] <= ClientImages
                      /\ EqualCounts => out = index
    BY DEF AnswerSound
  <2>1. \A s \in Servers : spc[s] = "exited"
    BY DEF SessionInv, Stopped, Lost
  <2> QED
    BY <2>1 DEF SessionInv, EqualCounts
<1> QED
  BY <1>1, SessionInvariant, PTL

-----------------------------------------------------------------------------
(* The session implements the retrieval.                                   *)

ServerLost == \E s \in Servers : Lost(s)

\* When a committed client has every answer it can get and no server is lost,
\* the answers are complete.
LEMMA NothingLost ==
    ASSUME TypeOK, SessionInv, EqualCounts, ~ServerLost,
           NEW s \in Servers, cpc = "recv", csrv = s, Stopped(s)
    PROVE  /\ toClient[s] = <<Sum(Paired(ClientImages))>>
           /\ ~LoadThrows(Received(cbuf[s], toClient[s]))
<1>1. spc[s] = "exited" /\ ServerImages[s] = ClientImages /\ ~HasText(s) /\ ReplyInv(s)
  BY DEF ServerLost, Lost, Stopped, EqualCounts, HasText, SessionInv, ClientGone, Servers
<1>2. toClient[s] = <<Sum(Paired(ClientImages))>>
  BY <1>1 DEF ReplyInv
<1>3. ClientImages \in Nat /\ ClientImages > 0
  BY ImagesAssumption DEF SessionInv, ClientInv, TypeOK
<1>4. Paired(ClientImages) # <<>>
  BY <1>3, PairedLen
<1>5. Received(cbuf[s], toClient[s]) = Sum(Paired(ClientImages))
  BY <1>2 DEF Received
<1> QED
  BY <1>2, <1>4, <1>5 DEF LoadThrows, Sum

\* The status of the retrieval, place by place.
LEMMA StatusOf ==
    /\ cpc \in {"connect", "fetch"} => Status = "pending"
    /\ cpc \in {"send", "recv", "rebuild"} => Status = "committed"
    /\ cpc = "done" => Status = "answered"
    /\ cpc = "failed" => Status = "refused"
    /\ cpc = "crashed" => Status = "abandoned"
  BY DEF Status

\* The abstract status depends on the place of the client.
LEMMA StatusOfNext ==
    /\ cpc' \in {"connect", "fetch"} => Status' = "pending"
    /\ cpc' \in {"send", "recv", "rebuild"} => Status' = "committed"
    /\ cpc' = "done" => Status' = "answered"
    /\ cpc' = "failed" => Status' = "refused"
    /\ cpc' = "crashed" => Status' = "abandoned"
  BY DEF Status

\* A step of a server loses it or is invisible to the abstract retrieval.
LEMMA RetrievalServer ==
    ASSUME TypeOK, NEW s \in Servers, ServerStep(s) \/ CrashServer(s)
    PROVE  [R!AbsNext]_(R!absVars)
<1>1. UNCHANGED <<index, Status, out>>
  BY ServerFrame DEF clientVars, Status
<1>2. ServerLost => ServerLost'
  <2>1. ASSUME NEW t \in Servers, Lost(t) PROVE Lost(t)'
    BY <2>1, ServerFrame DEF Lost, Stopped
  <2> QED
    BY <2>1 DEF ServerLost
<1>3. CASE ServerLost'
  BY <1>1, <1>3 DEF R!AbsNext, R!Lose, ServerLost
<1>4. CASE ~ServerLost'
  <2>1. ServerLost' = ServerLost
    BY <1>2, <1>4 DEF ServerLost
  <2> QED
    BY <1>1, <2>1 DEF R!absVars, ServerLost
<1> QED
  BY <1>3, <1>4

\* A step of the client is an abstract step.
LEMMA RetrievalClient ==
    ASSUME TypeOK, SessionInv, SessionInv', EqualCounts, ClientStep \/ CrashClient
    PROVE  [R!AbsNext]_(R!absVars)
<1>1. UNCHANGED <<index, spc>> /\ ServerLost' = ServerLost
  <2>1. UNCHANGED <<index, spc>>
    BY DEF ClientStep, CrashClient, StartFetch, WriteImage, ConnectTo, SendShare,
           ReceiveResponse, serverVars
  <2> QED
    BY <2>1 DEF ServerLost, Lost
<1>2. ASSUME UNCHANGED <<Status, out>> PROVE [R!AbsNext]_(R!absVars)
  BY <1>1, <1>2 DEF R!absVars, ServerLost
<1>3. ASSUME Status' = "refused", out' = out,
             Status = "pending" \/ (Status = "committed" /\ ServerLost)
      PROVE  [R!AbsNext]_(R!absVars)
  BY <1>1, <1>3 DEF R!AbsNext, R!Refuse, ServerLost
<1>4. ASSUME NEW s \in Servers, ConnectTo(s) PROVE [R!AbsNext]_(R!absVars)
  <2>1. /\ cpc = "connect" /\ out' = out
        /\ cpc' \in {"connect", "fetch"} \/ cpc' = "failed"
    BY <1>4 DEF ConnectTo
  <2> QED
    BY <1>2, <1>3, <2>1, StatusOf, StatusOfNext
<1>5. CASE StartFetch
  <2>1. /\ cpc = "fetch" /\ out' = out
        /\ cpc' = "failed" \/ (cpc' = "send" /\ index < ClientImages)
    BY <1>5, ImagesAssumption DEF StartFetch, TypeOK
  <2>2. CASE cpc' = "failed"
    BY <1>3, <2>1, <2>2, StatusOf, StatusOfNext
  <2>3. CASE cpc' = "send" /\ index < ClientImages
    BY <1>1, <2>1, <2>3, StatusOf, StatusOfNext DEF R!AbsNext, R!Commit, ServerLost
  <2> QED
    BY <2>1, <2>2, <2>3
<1>6. ASSUME NEW s \in Servers, SendShare(s) PROVE [R!AbsNext]_(R!absVars)
  <2>1. cpc = "send" /\ out' = out /\ cpc' \in {"send", "recv", "rebuild"}
    BY <1>6 DEF SendShare, AfterSending
  <2> QED
    BY <1>2, <2>1, StatusOf, StatusOfNext
<1>7. ASSUME NEW s \in Servers, ReceiveResponse(s) PROVE [R!AbsNext]_(R!absVars)
  <2>1. /\ cpc = "recv" /\ csrv = s /\ out' = out
        /\ \/ cpc' \in {"send", "recv", "rebuild"}
           \/ cpc' = "failed" /\ LoadThrows(cbuf'[s])
    BY <1>7 DEF ReceiveResponse
  <2>2. ASSUME cpc' = "failed", LoadThrows(cbuf'[s]) PROVE ServerLost
    <3>1. Stopped(s) /\ cbuf'[s] = Received(cbuf[s], toClient[s])
      BY <1>7 DEF ReceiveResponse, ReplyReadable, TypeOK, SessionInv, ServerInv
    <3> QED
      BY <2>1, <2>2, <3>1, NothingLost
  <2> QED
    BY <1>2, <1>3, <2>1, <2>2, StatusOf, StatusOfNext
<1>8. CASE WriteImage
  <2>1. cpc = "rebuild" /\ Status = "committed"
    BY <1>8, StatusOf DEF WriteImage
  <2>2. ~ServerLost => Reconstructs
    <3> SUFFICES ASSUME ~ServerLost PROVE Reconstructs
      OBVIOUS
    <3>1. \A s \in Servers : texts[s] = Sum(Paired(ClientImages))
      BY <2>1 DEF ServerLost, Lost, SessionInv, ClientGone, ReplyInv, HasText,
                  Stopped, EqualCounts
    <3>2. Len(texts[1].terms) = ClientImages
      BY <3>1, ServersAssumption, ImagesAssumption, PairedLen DEF Sum, Servers
    <3>3. index < ClientImages
      BY <2>1 DEF SessionInv, ClientInv
    <3> QED
      BY <3>1, <3>2, <3>3 DEF Reconstructs
  <2>3. CASE cpc' = "done" /\ out' = IF Reconstructs THEN index ELSE Wrong
    <3>1. Status' = "answered" /\ (out' = index \/ (ServerLost /\ out' = Wrong))
      BY <2>2, <2>3, StatusOfNext
    <3> QED
      BY <1>1, <2>1, <3>1 DEF R!AbsNext, R!Answer, ServerLost
  <2>4. CASE ~Reconstructs /\ cpc' = "failed" /\ out' = out
    BY <1>3, <2>1, <2>2, <2>4, StatusOfNext
  <2> QED
    BY <1>8, <2>3, <2>4 DEF WriteImage
<1>9. CASE CrashClient
  <2>1. /\ cpc' = "crashed" /\ out' = out
        /\ cpc \in {"connect", "fetch"} \/ cpc \in {"send", "recv", "rebuild"}
    BY <1>9 DEF CrashClient, ClientGone, TypeOK, ClientPlaces
  <2> QED
    BY <1>1, <2>1, StatusOf, StatusOfNext DEF R!AbsNext, R!Abandon, ServerLost
<1> QED
  BY <1>4, <1>5, <1>6, <1>7, <1>8, <1>9 DEF ClientStep

\* The safety part of ImplementsRetrieval for any number of servers, images and
\* crashes: once it has committed, only the loss of a server can make the client
\* fail or write another image than the one asked for.
THEOREM RetrievalSafety == EqualCounts => (Spec => R!AbsSafety)
<1> SUFFICES ASSUME EqualCounts PROVE Spec => R!AbsSafety
  OBVIOUS
<1>1. Init => R!AbsInit
  <2> SUFFICES ASSUME Init PROVE R!AbsInit
    OBVIOUS
  <2>1. cpc = "connect" /\ out = Unset /\ index \in 0..ClientImages
        /\ \A s \in Servers : spc[s] = "boot"
    BY DEF Init
  <2>2. (\E s \in Servers : Lost(s)) = FALSE
    BY <2>1 DEF Lost
  <2>3. Status = "pending"
    BY <2>1, StatusOf
  <2> QED
    BY <2>1, <2>2, <2>3 DEF R!AbsInit
<1>2. TypeOK /\ SessionInv /\ SessionInv' /\ [Next]_vars => [R!AbsNext]_(R!absVars)
  <2> SUFFICES ASSUME TypeOK, SessionInv, SessionInv', [Next]_vars
               PROVE  [R!AbsNext]_(R!absVars)
    OBVIOUS
  <2>1. CASE Idle \/ UNCHANGED vars
    <3>1. UNCHANGED <<index, cpc, out, spc>>
      BY <2>1 DEF Idle, vars, clientVars, serverVars
    <3>2. UNCHANGED <<Status, ServerLost>>
      BY <3>1 DEF Status, ServerLost, Lost
    <3> QED
      BY <3>1, <3>2 DEF R!absVars, ServerLost
  <2> QED
    BY <2>1, RetrievalServer, RetrievalClient DEF Next
<1> QED
  BY <1>1, <1>2, SessionInvariant, PTL DEF Spec, R!AbsSafety
=============================================================================
