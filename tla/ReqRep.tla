------------------------------- MODULE ReqRep -------------------------------
(***************************************************************************)
(* How an output module writes to a simulation provider: Client::send      *)
(* (Client.cpp) over a ZeroMQ REQ socket, Server::run (Server.cpp) and     *)
(* Provider::messageHandler (Provider.cpp) behind a REP socket.            *)
(*                                                                         *)
(* The client waits for a reply with a timeout; when it expires it closes  *)
(* its socket, opens another and sends again, REQUEST_RETRIES times in     *)
(* all.  Requests and replies may be lost or overtaken, a timeout may race *)
(* a reply that is under way, and a provider may crash between a write and *)
(* its reply, and be started again.                                        *)
(***************************************************************************)
EXTENDS Naturals

CONSTANTS
    None,
    Clients,           \* the output modules' clients, one request at a time each
    Requests,          \* the writes they will ask for, one point each
    Owner,             \* request -> client
    REQUEST_RETRIES

Status == {"ACK", "ERR"}

Replies == [client : Clients, socket : Nat, status : Status]

ASSUME ReqRepAssumption ==
    /\ Owner \in [Requests -> Clients]
    /\ REQUEST_RETRIES \in Nat \ {0}
    /\ None \notin Requests /\ None \notin Replies

VARIABLES
    current,       \* client -> the request send() is busy with
    retriesLeft,   \* client -> timeouts left before it abandons
    socket,        \* client -> how many sockets it has opened before this one
    toServer,      \* requests under way, or queued at the provider's socket
    toClient,      \* replies under way
    provider,      \* "receiving", "replying" or "down"
    reply,         \* the reply the provider is about to send
    outcome,       \* request -> "new", "pending", or what the client reports
    applied,       \* request -> how often the provider has written it
    handled        \* request -> the provider has seen it (history)

clientVars == <<current, retriesLeft, socket>>

providerVars == <<provider, reply, applied, handled>>

vars == <<clientVars, toServer, toClient, providerVars, outcome>>

-----------------------------------------------------------------------------
\* A message on a client's socket: the request it carries, None if it is empty.
Message(c, k, req) == [client |-> c, socket |-> k, req |-> req]

Answer(m, status) == [client |-> m.client, socket |-> m.socket, status |-> status]

\* What a message_t holds once zmq_msg_send has taken its content.
Sent(req) == None

Init ==
    /\ current = [c \in Clients |-> None]
    /\ retriesLeft = [c \in Clients |-> 0]
    /\ socket = [c \in Clients |-> 0]
    /\ toServer = {}
    /\ toClient = {}
    /\ provider = "receiving"
    /\ reply = None
    /\ outcome = [r \in Requests |-> "new"]
    /\ applied = [r \in Requests |-> 0]
    /\ handled = [r \in Requests |-> FALSE]

-----------------------------------------------------------------------------
(* Client::send.                                                           *)

Send(r) ==
    LET c == Owner[r]
    IN  /\ outcome[r] = "new"
        /\ current[c] = None
        /\ current' = [current EXCEPT ![c] = r]
        /\ retriesLeft' = [retriesLeft EXCEPT ![c] = REQUEST_RETRIES]
        /\ toServer' = toServer \union {Message(c, socket[c], r)}
        /\ outcome' = [outcome EXCEPT ![r] = "pending"]
        /\ UNCHANGED <<socket, toClient, providerVars>>

\* send() returns.
Return(c, report) ==
    /\ outcome' = [outcome EXCEPT ![current[c]] = report]
    /\ current' = [current EXCEPT ![c] = None]

\* The poll finds a reply on the client's present socket.
Receive(c) ==
    /\ current[c] # None
    /\ \E m \in toClient :
          /\ m.client = c /\ m.socket = socket[c]
          /\ toClient' = toClient \ {m}
          /\ Return(c, m.status)
    /\ retriesLeft' = [retriesLeft EXCEPT ![c] = 0]
    /\ UNCHANGED <<socket, toServer, providerVars>>

\* Defect: the socket is kept.
ReconnectNever(c) == UNCHANGED <<socket, toClient>>

\* close() and connect(): the new socket never sees a reply to the old one.
Reconnect(c) ==
    /\ socket' = [socket EXCEPT ![c] = @ + 1]
    /\ toClient' = {m \in toClient : m.client # c}

\* Defect: the client does not see that it has used up its retries.
RetryPastZero(c) ==
    /\ current[c] # None
    /\ retriesLeft' = [retriesLeft EXCEPT ![c] = @ - 1]
    /\ Reconnect(c)
    /\ toServer' = toServer \union {Message(c, socket'[c], Sent(current[c]))}
    /\ UNCHANGED <<current, providerVars, outcome>>

\* The poll times out, and retries are left.
Retry(c) ==
    /\ current[c] # None
    /\ retriesLeft[c] > 1
    /\ retriesLeft' = [retriesLeft EXCEPT ![c] = @ - 1]
    /\ Reconnect(c)
    /\ toServer' = toServer \union {Message(c, socket'[c], Sent(current[c]))}
    /\ UNCHANGED <<current, providerVars, outcome>>

\* Defect: the client abandons the request but waits on for a reply.
AbandonWaiting(c) ==
    /\ current[c] # None
    /\ retriesLeft[c] = 1
    /\ retriesLeft' = [retriesLeft EXCEPT ![c] = 0]
    /\ Reconnect(c)
    /\ UNCHANGED <<current, toServer, providerVars, outcome>>

\* ... or none are left.
Abandon(c) ==
    /\ current[c] # None
    /\ retriesLeft[c] = 1
    /\ retriesLeft' = [retriesLeft EXCEPT ![c] = 0]
    /\ Reconnect(c)
    /\ Return(c, "abandoned")
    /\ UNCHANGED <<toServer, providerVars>>

-----------------------------------------------------------------------------
(* Server::run and Provider::messageHandler.                               *)

\* The provider writes the point, or knows no such point.
HandleWrite(m) ==
    /\ m.req # None
    /\ handled' = [handled EXCEPT ![m.req] = TRUE]
    /\ \/ /\ applied' = [applied EXCEPT ![m.req] = @ + 1]
          /\ reply' = Answer(m, "ACK")
       \/ /\ reply' = Answer(m, "ERR")
          /\ UNCHANGED applied
    /\ provider' = "replying"

\* An empty request has no second part to split off.  Reading it is undefined:
\* "Unknown command type", or the end of the process.
HandleEmpty(m) ==
    /\ m.req = None
    /\ \/ /\ reply' = Answer(m, "ERR")
          /\ provider' = "replying"
       \/ /\ reply' = None
          /\ provider' = "down"
    /\ UNCHANGED <<applied, handled>>

Handle(m) ==
    /\ provider = "receiving"
    /\ toServer' = toServer \ {m}
    /\ HandleWrite(m) \/ HandleEmpty(m)
    /\ UNCHANGED <<clientVars, toClient, outcome>>

\* A reply to a socket that is closed by now goes nowhere.
Reply ==
    /\ provider = "replying"
    /\ toClient' = IF reply.socket = socket[reply.client]
                   THEN toClient \union {reply} ELSE toClient
    /\ provider' = "receiving"
    /\ reply' = None
    /\ UNCHANGED <<clientVars, toServer, applied, handled, outcome>>

-----------------------------------------------------------------------------
(* The environment: ZeroMQ over an unreliable network, and the provider's  *)
(* process.                                                                *)

\* A message on a connection that breaks, in the queue of a provider that dies,
\* or left unsent on a socket closed with a linger of 0.
LoseRequest(m) ==
    /\ toServer' = toServer \ {m}
    /\ UNCHANGED <<clientVars, toClient, providerVars, outcome>>

LoseReply(m) ==
    /\ toClient' = toClient \ {m}
    /\ UNCHANGED <<clientVars, toServer, providerVars, outcome>>

Crash ==
    /\ provider # "down"
    /\ provider' = "down"
    /\ reply' = None
    /\ UNCHANGED <<clientVars, toServer, toClient, applied, handled, outcome>>

Restart ==
    /\ provider = "down"
    /\ provider' = "receiving"
    /\ UNCHANGED <<clientVars, toServer, toClient, reply, applied, handled, outcome>>

-----------------------------------------------------------------------------
ClientStep(c) == Receive(c) \/ Retry(c) \/ Abandon(c)

Next ==
    \/ \E r \in Requests : Send(r)
    \/ \E c \in Clients : ClientStep(c)
    \/ \E m \in toServer : Handle(m) \/ LoseRequest(m)
    \/ \E m \in toClient : LoseReply(m)
    \/ Reply \/ Crash \/ Restart

Spec == Init /\ [][Next]_vars

\* zmq::poll returns after REQUEST_TIMEOUT at the latest.
FairSpec == Spec /\ \A c \in Clients : WF_vars(ClientStep(c))

-----------------------------------------------------------------------------
(* Properties.                                                             *)

TypeOK ==
    /\ current \in [Clients -> Requests \union {None}]
    /\ retriesLeft \in [Clients -> 0 .. REQUEST_RETRIES]
    /\ socket \in [Clients -> Nat]
    /\ toServer \subseteq [client : Clients, socket : Nat, req : Requests \union {None}]
    /\ toClient \subseteq Replies
    /\ provider \in {"receiving", "replying", "down"}
    /\ reply \in Replies \union {None}
    /\ outcome \in [Requests -> {"new", "pending", "ACK", "ERR", "abandoned"}]
    /\ applied \in [Requests -> Nat]
    /\ handled \in [Requests -> BOOLEAN]

Abstract == INSTANCE WriteOnce

\* Whatever is lost, delayed or retried: a write takes effect at most once, and
\* the client reports ACK only of a write that has taken effect.
WritesOnce == Abstract!WSpec

\* Client::send returns, whatever becomes of the provider: an output module does
\* not stop the scan of its device for good.
SendReturns == \A c \in Clients : current[c] # None ~> current[c] = None

\* A request answered by the provider was received by it: "Send request again, on
\* new socket".
AnsweredMeansHandled ==
    \A r \in Requests : outcome[r] \in Status => handled[r]
=============================================================================
