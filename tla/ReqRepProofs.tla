---------------------------- MODULE ReqRepProofs ----------------------------
(***************************************************************************)
(* Client::send keeps the promise of WriteOnce for any number of clients,  *)
(* requests and retries.  The invariant follows each socket: one message   *)
(* or reply at a time is under way on it, and on a client's present socket *)
(* that is its present request or an answer to it.                         *)
(***************************************************************************)
EXTENDS ReqRep, TLAPS

\* A client is busy with one of its own pending requests, and knows them all.
Busy ==
    /\ \A c \in Clients : current[c] # None =>
          outcome[current[c]] = "pending" /\ Owner[current[c]] = c
    /\ \A r \in Requests : outcome[r] = "pending" => current[Owner[r]] = r

\* What has not been issued has not been written.
Fresh == \A r \in Requests : outcome[r] = "new" => applied[r] = 0

\* A request under way has been issued, is written nowhere, and is on one socket;
\* on its client's present socket it is the one the client waits for.
Underway ==
    \A m \in toServer : m.req # None =>
        /\ outcome[m.req] # "new" /\ applied[m.req] = 0
        /\ m.socket = socket[m.client] => m.req = current[m.client]
        /\ \A n \in toServer : n.req = m.req => n = m

\* No socket is newer than its client's present one.
Sockets ==
    /\ \A m \in toServer : m.socket <= socket[m.client]
    /\ \A p \in toClient : p.socket <= socket[p.client]
    /\ reply # None => reply.socket <= socket[reply.client]

SameSocket(x, y) == x.client = y.client /\ x.socket = y.socket

\* One message or reply at a time is under way on a socket.
OneAtATime ==
    /\ \A m, n \in toServer : SameSocket(m, n) => m = n
    /\ \A p, q \in toClient : SameSocket(p, q) => p = q
    /\ \A m \in toServer, p \in toClient : ~SameSocket(m, p)
    /\ reply # None => \A m \in toServer : ~SameSocket(reply, m)
    /\ reply # None => \A p \in toClient : ~SameSocket(reply, p)

\* An answer on a client's present socket is to its present request: ACK says
\* that it has been written.
GoodAnswer(p) ==
    p.socket = socket[p.client] =>
        /\ current[p.client] # None
        /\ p.status = "ACK" => applied[current[p.client]] = 1

Answers ==
    /\ \A m \in toServer : m.socket = socket[m.client] => current[m.client] # None
    /\ \A p \in toClient : GoodAnswer(p)
    /\ reply # None => GoodAnswer(reply)
    /\ provider = "replying" <=> reply # None

RInv == TypeOK /\ Busy /\ Fresh /\ Underway /\ Sockets /\ OneAtATime /\ Answers

-----------------------------------------------------------------------------
\* The initial state satisfies the invariant.
LEMMA InitRInv == Init => RInv
  BY ReqRepAssumption
     DEF Init, RInv, TypeOK, Busy, Fresh, Underway, Sockets, OneAtATime, Answers, GoodAnswer

\* Every variable keeps its type.
LEMMA TypeStep == TypeOK /\ Answers /\ [Next]_vars => TypeOK'
<1> SUFFICES ASSUME TypeOK, Answers, [Next]_vars PROVE TypeOK'
  OBVIOUS
<1> USE ReqRepAssumption DEF TypeOK, Replies, Status
<1>1. ASSUME NEW r \in Requests, Send(r) PROVE TypeOK'
  BY <1>1 DEF Send, Message, providerVars
<1>2. ASSUME NEW c \in Clients, Receive(c) PROVE TypeOK'
  BY <1>2 DEF Receive, Return, providerVars
<1>3. ASSUME NEW c \in Clients, Retry(c) PROVE TypeOK'
  BY <1>3 DEF Retry, Reconnect, Message, Sent, providerVars
<1>4. ASSUME NEW c \in Clients, Abandon(c) PROVE TypeOK'
  BY <1>4 DEF Abandon, Reconnect, Return, providerVars
<1>5. ASSUME NEW m \in toServer, Handle(m) PROVE TypeOK'
  <2>1. /\ m \in [client : Clients, socket : Nat, req : Requests \union {None}]
        /\ toServer' \subseteq toServer
        /\ UNCHANGED <<current, retriesLeft, socket, toClient, outcome>>
    BY <1>5 DEF Handle, clientVars
  <2>2. \A st \in Status : Answer(m, st) \in Replies
    BY <2>1 DEF Answer
  <2>3. CASE HandleWrite(m)
    <3>1. handled' \in [Requests -> BOOLEAN] /\ applied' \in [Requests -> Nat]
      BY <2>1, <2>3 DEF HandleWrite
    <3>2. /\ reply' \in Replies
          /\ provider' = "replying"
      BY <2>2, <2>3 DEF HandleWrite
    <3> QED
      BY <2>1, <3>1, <3>2
  <2>4. CASE HandleEmpty(m)
    BY <2>1, <2>2, <2>4 DEF HandleEmpty
  <2> QED
    BY <1>5, <2>3, <2>4 DEF Handle
<1>6. ASSUME NEW m \in toServer, LoseRequest(m) PROVE TypeOK'
  BY <1>6 DEF LoseRequest, clientVars, providerVars
<1>7. ASSUME NEW m \in toClient, LoseReply(m) PROVE TypeOK'
  BY <1>7 DEF LoseReply, clientVars, providerVars
<1>8. CASE Crash
  BY <1>8 DEF Crash, clientVars
<1>9. CASE Restart
  BY <1>9 DEF Restart, clientVars
<1>10. CASE UNCHANGED vars
  BY <1>10 DEF vars, clientVars, providerVars
<1>11. CASE Reply
  BY <1>11 DEF Reply, Answers, clientVars
<1> QED
  BY <1>1, <1>2, <1>3, <1>4, <1>5, <1>6, <1>7, <1>8, <1>9, <1>10, <1>11
     DEF Next, ClientStep

\* A client knows the requests it is busy with.
LEMMA BusyStep == TypeOK /\ Busy /\ [Next]_vars => Busy'
<1> SUFFICES ASSUME TypeOK, Busy, [Next]_vars PROVE Busy'
  OBVIOUS
<1> USE ReqRepAssumption DEF TypeOK, Busy
<1>1. ASSUME NEW r \in Requests, Send(r) PROVE Busy'
  BY <1>1 DEF Send
<1>2. ASSUME NEW c \in Clients, NEW o \in {"ACK", "ERR", "abandoned"}, current[c] # None,
             Return(c, o)
      PROVE  Busy'
  BY <1>2 DEF Return
<1>3. ASSUME NEW c \in Clients, Receive(c) PROVE Busy'
  BY <1>2, <1>3 DEF Receive, Replies, Status
<1>4. ASSUME NEW c \in Clients, Abandon(c) PROVE Busy'
  BY <1>2, <1>4 DEF Abandon
<1>5. CASE UNCHANGED <<current, outcome>>
  BY <1>5
<1> QED
  BY <1>1, <1>3, <1>4, <1>5
     DEF Next, ClientStep, Retry, Handle, LoseRequest, LoseReply, Reply, Crash, Restart,
         vars, clientVars

\* A new request goes out on a socket with nothing under way.
LEMMA SendStep ==
    ASSUME RInv, NEW r \in Requests, Send(r)
    PROVE  Underway' /\ Sockets' /\ OneAtATime' /\ Answers'
<1> DEFINE c == Owner[r]
           s == Message(c, socket[c], r)
<1>1. /\ TypeOK /\ Busy /\ Underway /\ Sockets /\ OneAtATime /\ Answers
      /\ c \in Clients /\ r # None
  BY ReqRepAssumption DEF RInv
<1>2. /\ outcome[r] = "new" /\ current[c] = None
      /\ current' = [current EXCEPT ![c] = r]
      /\ toServer' = toServer \union {s}
      /\ outcome' = [outcome EXCEPT ![r] = "pending"]
      /\ UNCHANGED <<socket, toClient, provider, reply, applied, handled>>
  BY DEF Send, providerVars
<1>3. s.client = c /\ s.socket = socket[c] /\ s.req = r
  BY DEF Message
<1>4. /\ \A m \in toServer : ~SameSocket(m, s)
      /\ \A p \in toClient : ~SameSocket(p, s)
      /\ reply # None => ~SameSocket(reply, s)
  BY <1>1, <1>2, <1>3 DEF Answers, GoodAnswer, SameSocket
<1>5. \A m \in toServer : m.req # r
  BY <1>1, <1>2 DEF Underway
<1>6. applied[r] = 0
  BY <1>2 DEF RInv, Fresh
<1>7. /\ \A d \in Clients : d # c => current'[d] = current[d]
      /\ current'[c] = r
      /\ \A q \in Requests : q # r => outcome'[q] = outcome[q]
      /\ outcome'[r] = "pending"
  BY <1>1, <1>2 DEF TypeOK
<1>8. /\ \A m \in toServer : m.client \in Clients /\ m.req \in Requests \union {None}
      /\ \A p \in toClient : p.client \in Clients
      /\ reply # None => reply.client \in Clients
  BY <1>1 DEF TypeOK, Replies
<1>9. Underway'
  BY <1>1, <1>2, <1>3, <1>4, <1>5, <1>6, <1>7, <1>8 DEF Underway, SameSocket
<1>10. Sockets'
  BY <1>1, <1>2, <1>3 DEF Sockets, TypeOK
<1>11. OneAtATime'
  BY <1>1, <1>2, <1>4 DEF OneAtATime, SameSocket
<1>12. Answers'
  BY <1>1, <1>2, <1>3, <1>4, <1>7, <1>8 DEF Answers, GoodAnswer, SameSocket
<1> QED
  BY <1>9, <1>10, <1>11, <1>12

\* send() returns: what is still under way is on sockets it no longer reads, or
\* there is nothing.
LEMMA ReceiveStep ==
    ASSUME RInv, NEW c \in Clients, Receive(c)
    PROVE  Underway' /\ Sockets' /\ OneAtATime' /\ Answers'
<1>1. TypeOK /\ Busy /\ Underway /\ Sockets /\ OneAtATime /\ Answers
  BY DEF RInv
<1>2. PICK a \in toClient :
          /\ a.client = c /\ a.socket = socket[c]
          /\ toClient' = toClient \ {a}
          /\ Return(c, a.status)
  BY DEF Receive
<1>3. /\ current[c] # None
      /\ UNCHANGED <<socket, toServer, provider, reply, applied, handled>>
  BY DEF Receive, providerVars
<1>4. /\ \A d \in Clients : d # c => current'[d] = current[d]
      /\ \A q \in Requests : outcome'[q] # "new" <=> outcome[q] # "new"
  <2>1. current[c] \in Requests /\ outcome[current[c]] = "pending" /\ a.status # "new"
    BY <1>1, <1>2, <1>3 DEF Busy, TypeOK, Replies, Status
  <2> QED
    BY <1>1, <1>2, <2>1 DEF Return, TypeOK
<1>5. /\ \A m \in toServer : ~SameSocket(m, a)
      /\ \A p \in toClient' : ~SameSocket(p, a)
      /\ reply # None => ~SameSocket(reply, a)
  BY <1>1, <1>2 DEF OneAtATime, SameSocket
<1>6. /\ \A m \in toServer : m.client \in Clients /\ m.req \in Requests \union {None}
      /\ \A p \in toClient : p.client \in Clients
      /\ reply # None => reply.client \in Clients
  BY <1>1 DEF TypeOK, Replies
<1>7. Underway'
  BY <1>1, <1>2, <1>3, <1>4, <1>5, <1>6 DEF Underway, SameSocket
<1>8. Sockets' /\ OneAtATime'
  BY <1>1, <1>2, <1>3 DEF Sockets, OneAtATime
<1>9. Answers'
  BY <1>1, <1>2, <1>3, <1>4, <1>5, <1>6 DEF Answers, GoodAnswer, SameSocket
<1> QED
  BY <1>7, <1>8, <1>9

\* Nothing is under way on a socket just opened but the empty retry.
LEMMA ReconnectStep ==
    ASSUME RInv, NEW c \in Clients, Retry(c) \/ Abandon(c)
    PROVE  Underway' /\ Sockets' /\ OneAtATime' /\ Answers'
<1> DEFINE s == Message(c, socket[c] + 1, None)
<1>1. TypeOK /\ Busy /\ Underway /\ Sockets /\ OneAtATime /\ Answers
  BY DEF RInv
<1>2. /\ current[c] # None
      /\ socket' = [socket EXCEPT ![c] = socket[c] + 1]
      /\ \/ toServer' = toServer /\ current' = [current EXCEPT ![c] = None]
         \/ toServer' = toServer \union {s} /\ current' = current
      /\ toClient' \subseteq toClient
      /\ UNCHANGED <<provider, reply, applied, handled>>
  BY <1>1 DEF Retry, Abandon, Reconnect, Return, Sent, providerVars, TypeOK
<1>3. s.client = c /\ s.socket = socket[c] + 1 /\ s.req = None
  BY DEF Message
<1>4. /\ \A d \in Clients : d # c => current'[d] = current[d] /\ socket'[d] = socket[d]
      /\ socket'[c] = socket[c] + 1 /\ socket[c] \in Nat
      /\ \A q \in Requests : outcome'[q] # "new" <=> outcome[q] # "new"
  <2>1. current[c] \in Requests /\ outcome[current[c]] = "pending"
    BY <1>1, <1>2 DEF Busy, TypeOK
  <2> QED
    BY <1>1, <1>2, <2>1 DEF Retry, Abandon, Return, TypeOK
<1>5. /\ \A m \in toServer : /\ m.client \in Clients /\ m.req \in Requests \union {None}
                             /\ m.socket \in Nat
      /\ \A p \in toClient : p.client \in Clients /\ p.socket \in Nat
      /\ reply # None => reply.client \in Clients /\ reply.socket \in Nat
  BY <1>1 DEF TypeOK, Replies
<1>6. /\ \A m \in toServer : m.client = c => m.socket < socket[c] + 1
      /\ \A p \in toClient : p.client = c => p.socket < socket[c] + 1
      /\ reply # None /\ reply.client = c => reply.socket < socket[c] + 1
  BY <1>1, <1>4, <1>5 DEF Sockets
<1>7. /\ \A m \in toServer : m.client = c => m.socket # socket'[c]
      /\ \A p \in toClient : p.client = c => p.socket # socket'[c]
      /\ reply # None /\ reply.client = c => reply.socket # socket'[c]
  BY <1>4, <1>5, <1>6
<1>8. Underway'
  BY <1>1, <1>2, <1>3, <1>4, <1>5, <1>7 DEF Underway
<1>9. Sockets'
  BY <1>1, <1>2, <1>3, <1>4, <1>5, <1>6 DEF Sockets
<1>10. OneAtATime'
  BY <1>1, <1>2, <1>3, <1>4, <1>7 DEF OneAtATime, SameSocket
<1>11. Answers'
  BY <1>1, <1>2, <1>3, <1>4, <1>5, <1>7 DEF Answers, GoodAnswer
<1> QED
  BY <1>8, <1>9, <1>10, <1>11

\* None is not a reply.
LEMMA NoneIsNoAnswer ==
    ASSUME NEW m \in toServer, NEW st \in Status, TypeOK
    PROVE  Answer(m, st) # None
<1>1. Answer(m, st) \in Replies
  BY DEF Answer, Replies, TypeOK
<1> QED
  BY <1>1, ReqRepAssumption

\* The provider turns the one message of a socket into its one answer.
LEMMA HandleStep ==
    ASSUME RInv, NEW a \in toServer, Handle(a)
    PROVE  Underway' /\ Sockets' /\ OneAtATime' /\ Answers'
<1>1. TypeOK /\ Underway /\ Sockets /\ OneAtATime /\ Answers
  BY DEF RInv
<1>2. /\ provider = "receiving" /\ reply = None
      /\ toServer' = toServer \ {a}
      /\ UNCHANGED <<current, retriesLeft, socket, toClient, outcome>>
  BY <1>1 DEF Handle, clientVars, Answers
<1>3. /\ a.client \in Clients /\ a.socket \in Nat /\ a.req \in Requests \union {None}
      /\ \A m \in toServer : m.client \in Clients /\ m.req \in Requests \union {None}
      /\ \A p \in toClient : p.client \in Clients
  BY <1>1 DEF TypeOK, Replies
<1>4. \/ /\ reply' = None /\ provider' = "down"
      \/ /\ reply' # None /\ provider' = "replying"
         /\ reply'.client = a.client /\ reply'.socket = a.socket
         /\ reply'.status = "ACK" => a.req # None /\ applied'[a.req] = 1
  <2>1. \A st : /\ Answer(a, st).client = a.client /\ Answer(a, st).socket = a.socket
                /\ Answer(a, st).status = st
    BY DEF Answer
  <2>2. \A st \in Status : Answer(a, st) # None
    BY <1>1, NoneIsNoAnswer
  <2>3. CASE HandleWrite(a)
    <3>1. a.req \in Requests /\ applied[a.req] = 0
      BY <1>1, <1>3, <2>3 DEF HandleWrite, Underway
    <3> QED
      BY <1>1, <2>1, <2>2, <2>3, <3>1 DEF HandleWrite, TypeOK, Status
  <2>4. CASE HandleEmpty(a)
    BY <2>1, <2>2, <2>4 DEF HandleEmpty, Status
  <2> QED
    BY <2>3, <2>4 DEF Handle
<1>5. \A r \in Requests : r # a.req => applied'[r] = applied[r]
  BY <1>1 DEF Handle, HandleWrite, HandleEmpty, TypeOK
<1>6. \A r \in Requests : applied[r] = 1 => applied'[r] = 1
  <2>1. a.req # None => applied[a.req] = 0
    BY <1>1 DEF Underway
  <2> QED
    BY <1>5, <2>1, ReqRepAssumption
<1>7. Underway'
  <2>1. \A m \in toServer' : m.req # None => m.req # a.req
    BY <1>1, <1>2 DEF Underway
  <2> QED
    BY <1>1, <1>2, <1>3, <1>5, <2>1 DEF Underway
<1>8. Sockets'
  BY <1>1, <1>2, <1>4 DEF Sockets
<1>9. OneAtATime'
  BY <1>1, <1>2, <1>4 DEF OneAtATime, SameSocket
<1>10. Answers'
  <2>1. \A p \in toClient : GoodAnswer(p)'
    <3> SUFFICES ASSUME NEW p \in toClient, p.socket = socket[p.client]
                 PROVE  /\ current[p.client] # None
                        /\ p.status = "ACK" => applied'[current[p.client]] = 1
      BY <1>2 DEF GoodAnswer
    <3>1. current[p.client] # None /\ current[p.client] \in Requests
      BY <1>1, <1>3 DEF Answers, GoodAnswer, TypeOK
    <3> QED
      BY <1>1, <1>6, <3>1 DEF Answers, GoodAnswer
  <2>2. reply' # None => GoodAnswer(reply)'
    BY <1>1, <1>2, <1>4 DEF Answers, GoodAnswer, Underway
  <2> QED
    BY <1>1, <1>2, <1>4, <2>1, <2>2 DEF Answers
<1> QED
  BY <1>7, <1>8, <1>9, <1>10

\* Losing messages, replying, crashing and restarting move or remove what is under
\* way, and touch neither clients nor writes.
LEMMA NetworkStep ==
    ASSUME RInv,
           \/ \E m \in toServer : LoseRequest(m)
           \/ \E p \in toClient : LoseReply(p)
           \/ Reply \/ Crash \/ Restart
    PROVE  Underway' /\ Sockets' /\ OneAtATime' /\ Answers'
<1>1. TypeOK /\ Underway /\ Sockets /\ OneAtATime /\ Answers
  BY DEF RInv
<1>2. UNCHANGED <<current, retriesLeft, socket, outcome, applied>>
  BY DEF LoseRequest, LoseReply, Reply, Crash, Restart, clientVars, providerVars
<1>3. CASE Reply
  <2>1. /\ reply # None /\ reply' = None /\ toClient' \subseteq toClient \union {reply}
        /\ toServer' = toServer /\ provider' = "receiving"
    BY <1>1, <1>3 DEF Reply, Answers
  <2> QED
    BY <1>1, <1>2, <2>1
       DEF Underway, Sockets, OneAtATime, SameSocket, Answers, GoodAnswer
<1>4. CASE ~Reply
  <2>1. /\ toServer' \subseteq toServer /\ toClient' \subseteq toClient
        /\ reply' = None \/ reply' = reply
        /\ provider' = "replying" <=> reply' # None
    BY <1>1, <1>4 DEF LoseRequest, LoseReply, Crash, Restart, providerVars, Answers
  <2> QED
    BY <1>1, <1>2, <2>1
       DEF Underway, Sockets, OneAtATime, SameSocket, Answers, GoodAnswer
<1> QED
  BY <1>3, <1>4

\* A step that changes nothing keeps the invariant.
LEMMA StutterStep ==
    ASSUME RInv, UNCHANGED vars
    PROVE  Underway' /\ Sockets' /\ OneAtATime' /\ Answers'
  BY DEF RInv, vars, clientVars, providerVars, Underway, Sockets, OneAtATime, SameSocket,
         Answers, GoodAnswer

-----------------------------------------------------------------------------
(* The refinement.                                                         *)

\* Every step is one of WriteOnce, or leaves outcomes and writes as they are.
LEMMA StepWritesOnce ==
    RInv /\ [Next]_vars => [Abstract!WNext]_<<outcome, applied>>
<1> SUFFICES ASSUME RInv, [Next]_vars
             PROVE  [Abstract!WNext]_<<outcome, applied>>
  OBVIOUS
<1> USE DEF Abstract!WNext
<1>1. TypeOK /\ Busy /\ Fresh /\ Underway /\ Answers
  BY DEF RInv
<1>2. ASSUME NEW r \in Requests, Send(r) PROVE Abstract!WNext
  BY <1>2 DEF Send, providerVars, Abstract!Issue
<1>3. ASSUME NEW c \in Clients, Receive(c) PROVE Abstract!WNext
  <2>1. PICK a \in toClient :
            /\ a.client = c /\ a.socket = socket[c] /\ Return(c, a.status)
    BY <1>3 DEF Receive
  <2>2. /\ current[c] \in Requests /\ outcome[current[c]] = "pending"
        /\ UNCHANGED applied
    BY <1>1, <1>3 DEF Receive, Busy, TypeOK, providerVars
  <2>3. a.status = "ACK" => applied[current[c]] = 1
    BY <1>1, <2>1 DEF Answers, GoodAnswer
  <2>4. a.status \in Abstract!Reports
    BY <1>1 DEF TypeOK, Replies, Status, Abstract!Reports
  <2>5. Abstract!Report(current[c], a.status)
    BY <2>1, <2>2, <2>3 DEF Return, Abstract!Report
  <2> QED
    BY <2>2, <2>4, <2>5
<1>4. ASSUME NEW c \in Clients, Abandon(c) PROVE Abstract!WNext
  <2>1. /\ current[c] \in Requests /\ outcome[current[c]] = "pending"
        /\ UNCHANGED applied
    BY <1>1, <1>4 DEF Abandon, Busy, TypeOK, providerVars
  <2>2. Abstract!Report(current[c], "abandoned")
    BY <1>4, <2>1 DEF Abandon, Return, Abstract!Report
  <2> QED
    BY <2>1, <2>2 DEF Abstract!Reports
<1>5. ASSUME NEW m \in toServer, Handle(m)
      PROVE  Abstract!WNext \/ UNCHANGED <<outcome, applied>>
  <2>1. CASE HandleWrite(m)
    <3>1. m.req \in Requests /\ applied[m.req] = 0 /\ outcome[m.req] # "new"
      BY <1>1, <2>1 DEF HandleWrite, Underway, TypeOK
    <3>2. Abstract!TakeEffect(m.req) \/ UNCHANGED <<outcome, applied>>
      BY <1>5, <2>1, <3>1 DEF Handle, HandleWrite, Abstract!TakeEffect
    <3> QED
      BY <3>1, <3>2
  <2> QED
    BY <1>5, <2>1 DEF Handle, HandleEmpty
<1> QED
  BY <1>2, <1>3, <1>4, <1>5
     DEF Next, ClientStep, Retry, LoseRequest, LoseReply, Reply, Crash, Restart,
         providerVars, vars

\* What has not been issued is not written.
LEMMA FreshStep == RInv /\ [Next]_vars => Fresh'
<1> SUFFICES ASSUME RInv, [Next]_vars PROVE Fresh'
  OBVIOUS
<1>1. TypeOK /\ Fresh
  BY DEF RInv
<1>2. [Abstract!WNext]_<<outcome, applied>>
  BY StepWritesOnce
<1> QED
  BY <1>1, <1>2
     DEF Fresh, TypeOK, Abstract!WNext, Abstract!Issue, Abstract!TakeEffect,
         Abstract!Report, Abstract!Reports

\* The invariant holds in every reachable state.
THEOREM ReqRepInvariant == Spec => []RInv
<1>1. RInv /\ [Next]_vars => RInv'
  <2> SUFFICES ASSUME RInv, [Next]_vars PROVE RInv'
    OBVIOUS
  <2>1. TypeOK' /\ Busy' /\ Fresh'
    BY TypeStep, BusyStep, FreshStep DEF RInv
  <2>2. Underway' /\ Sockets' /\ OneAtATime' /\ Answers'
    BY SendStep, ReceiveStep, ReconnectStep, HandleStep, NetworkStep, StutterStep
       DEF Next, ClientStep
  <2> QED
    BY <2>1, <2>2 DEF RInv
<1> QED
  BY InitRInv, <1>1, PTL DEF Spec

\* Client::send and Server::run keep their state in its types: no client retries
\* past zero, whoever answers or does not.
THEOREM ReqRepTypeCorrect == Spec => []TypeOK
<1>1. RInv => TypeOK
  BY DEF RInv
<1> QED
  BY ReqRepInvariant, <1>1, PTL

\* Client::send, Server::run and Provider::messageHandler write a point at most once
\* per request, and report ACK only of a write that was made, with any number of
\* clients and retries and whatever the network loses or delays.
THEOREM RequestsWriteOnce == Spec => WritesOnce
<1>1. Init => Abstract!WInit
  BY DEF Init, Abstract!WInit
<1> QED
  BY <1>1, ReqRepInvariant, StepWritesOnce, PTL DEF Spec, WritesOnce, Abstract!WSpec

-----------------------------------------------------------------------------
(* Why send() returns: what is left to prove of SendReturns is the fairness *)
(* of the poll.                                                             *)

\* A client that waits has a retry left, or has to give up at its next timeout.
Waiting == \A c \in Clients : current[c] # None => retriesLeft[c] \in 1 .. REQUEST_RETRIES

\* A step of the system ends a send(), brings it one retry nearer to its end, or
\* leaves it waiting on the same socket for the same request.
SendAdvances ==
    \A c \in Clients : current[c] # None =>
        \/ current'[c] = None
        \/ current'[c] = current[c] /\ retriesLeft'[c] < retriesLeft[c]
        \/ current'[c] = current[c] /\ retriesLeft'[c] = retriesLeft[c] /\ socket'[c] = socket[c]

\* What every step does to the clients.
LEMMA SendStepFacts ==
    ASSUME TypeOK, Waiting, [Next]_vars
    PROVE  Waiting' /\ SendAdvances
<1>0. /\ current \in [Clients -> Requests \union {None}]
      /\ retriesLeft \in [Clients -> 0 .. REQUEST_RETRIES]
      /\ REQUEST_RETRIES \in Nat \ {0} /\ socket \in [Clients -> Nat]
      /\ \A r \in Requests : r # None /\ Owner[r] \in Clients
  BY ReqRepAssumption DEF TypeOK
<1>1. ASSUME NEW r \in Requests, Send(r) PROVE Waiting' /\ SendAdvances
  <2>1. /\ current[Owner[r]] = None /\ UNCHANGED socket
        /\ current' = [current EXCEPT ![Owner[r]] = r]
        /\ retriesLeft' = [retriesLeft EXCEPT ![Owner[r]] = REQUEST_RETRIES]
    BY <1>1 DEF Send
  <2> QED
    BY <1>0, <2>1 DEF Waiting, SendAdvances
<1>2. ASSUME NEW c \in Clients, Receive(c) \/ Abandon(c) PROVE Waiting' /\ SendAdvances
  <2>1. /\ current' = [current EXCEPT ![c] = None]
        /\ retriesLeft' = [retriesLeft EXCEPT ![c] = 0]
        /\ \A d \in Clients : d # c => socket'[d] = socket[d]
    BY <1>0, <1>2 DEF Receive, Abandon, Return, Reconnect
  <2> QED
    BY <1>0, <2>1 DEF Waiting, SendAdvances
<1>3. ASSUME NEW c \in Clients, Retry(c) PROVE Waiting' /\ SendAdvances
  <2>1. /\ retriesLeft[c] > 1 /\ UNCHANGED current
        /\ retriesLeft' = [retriesLeft EXCEPT ![c] = @ - 1]
        /\ \A d \in Clients : d # c => socket'[d] = socket[d]
    BY <1>0, <1>3 DEF Retry, Reconnect
  <2> QED
    BY <1>0, <2>1 DEF Waiting, SendAdvances
<1>4. CASE UNCHANGED clientVars
  BY <1>4 DEF clientVars, Waiting, SendAdvances
<1>5. CASE \/ \E m \in toServer : Handle(m) \/ LoseRequest(m)
           \/ \E m \in toClient : LoseReply(m)
           \/ Reply \/ Crash \/ Restart \/ UNCHANGED vars
  BY <1>4, <1>5 DEF Handle, LoseRequest, LoseReply, Reply, Crash, Restart, vars
<1> QED
  BY <1>1, <1>2, <1>3, <1>5 DEF Next, ClientStep

\* Client::send ends after at most REQUEST_RETRIES timeouts, whatever the network
\* and the provider do: a client that waits has between 1 and REQUEST_RETRIES of
\* them left, so that its next timeout is a retry or the end, and no step gives
\* it back a retry or changes its socket without using one up.
THEOREM SendIsBounded == Spec => []Waiting /\ [][SendAdvances]_vars
<1>1. Init => Waiting
  BY DEF Init, Waiting
<1>2. TypeOK /\ Waiting /\ [Next]_vars => Waiting' /\ SendAdvances
  BY SendStepFacts
<1> QED
  BY <1>1, <1>2, ReqRepTypeCorrect, PTL DEF Spec
=============================================================================
