----------------------------- MODULE Transport ------------------------------
(***************************************************************************)
(* The connections between clients and daemon: the handshake of a client   *)
(* (pkg/client connect and dialStream) with one handleConn goroutine per   *)
(* connection of transport.Server, the registry Server.clients, and the    *)
(* operations that take a client out of it.                                *)
(*                                                                         *)
(* A client opens a control connection, learns its ID from the reply, and  *)
(* opens a stream connection that names the ID.  IDs are random and        *)
(* unique, so a client stands for its ID.                                  *)
(***************************************************************************)
EXTENDS Naturals, FiniteSets

CONSTANTS
    NoClient,
    Client,     \* client processes, each of which connects once
    BadToken,   \* clients whose token is not the daemon's
    Mode,       \* the AutomationMode: "open", "sameUser" or "children"
    SameUser,   \* clients with the daemon's user ID
    Daemon,     \* the daemon's process
    Parent,     \* the parent of a process, NoProc when it has none
    NoProc,
    MaxDepth    \* maxDepth of isDescendant

ASSUME TransportAssumption == MaxDepth \in Nat

VARIABLES
    step,       \* the step of connect() in each client
    conn,       \* connections: their two ends and the first frame to the client
    hand,       \* the handleConn of each connection
    clients,    \* Server.clients
    stream,     \* clients whose Client.Stream is set
    closed,     \* Server.closed
    listening,  \* the listener is open
    toDrop,     \* clients whose connections a Kick will close
    closing,    \* clients whose connections Close will close
    cast,       \* the client that BroadcastTo has looked up
    past        \* history, see NoPast

cliVars == <<clients, stream>>
dropVars == <<toDrop, closing>>
netVars == <<step, conn, hand, cliVars, closed, listening, dropVars, cast, past>>

Channel == {"control", "stream"}

NoConn == [cli |-> FALSE, srv |-> FALSE, auth |-> FALSE, first |-> "none"]
NewConn(auth) == [cli |-> TRUE, srv |-> TRUE, auth |-> auth, first |-> "none"]

(* History: who was kicked, also by Close; who was taken out by            *)
(* RemoveClient; whose handshake ran into its deadline; whether Close ran. *)
NoPast == [kicked |-> {}, forgotten |-> {}, expired |-> {}, swept |-> FALSE]

NetInit ==
    /\ step = [k \in Client |-> "start"]
    /\ conn = [k \in Client |-> [c \in Channel |-> NoConn]]
    /\ hand = [k \in Client |-> [c \in Channel |-> "none"]]
    /\ clients = {} /\ stream = {}
    /\ closed = FALSE /\ listening = TRUE
    /\ toDrop = {} /\ closing = {} /\ cast = NoClient /\ past = NoPast

Up(k, c) == conn[k][c].cli /\ conn[k][c].srv

(* isDescendant: a walk of at most MaxDepth steps up the process tree.     *)
isDescendant(child, ancestor) ==
    LET walk[d \in 0..MaxDepth, p \in DOMAIN Parent] ==
            /\ d > 0
            /\ Parent[p] # NoProc
            /\ Parent[p] = ancestor \/ walk[d - 1, Parent[p]]
    IN  child \in DOMAIN Parent /\ walk[MaxDepth, child]

(* checkAutomationMode                                                     *)
checkAutomationMode(k) ==
    \/ Mode = "open"
    \/ Mode = "sameUser" /\ k \in SameUser
    \/ Mode = "children" /\ isDescendant(k, Daemon)

-----------------------------------------------------------------------------
(* The client                                                              *)

Goto(k, s) == step' = [step EXCEPT ![k] = s]

(* connect and dialStream: net.Dial and the auth frame, which does not     *)
(* follow when the client stops in between.                                *)
Dial(k, c) ==
    /\ listening
    /\ step[k] = IF c = "control" THEN "start" ELSE "dialStream"
    /\ Goto(k, c)
    /\ \E auth \in BOOLEAN : conn' = [conn EXCEPT ![k][c] = NewConn(auth)]
    /\ hand' = [hand EXCEPT ![k][c] = "accept"]
    /\ UNCHANGED <<cliVars, closed, listening, dropVars, cast, past>>

(* The end of a client: its process closes every connection.               *)
Hangup(k, s) ==
    /\ Goto(k, s)
    /\ conn' = [conn EXCEPT ![k] = [c \in Channel |-> [@[c] EXCEPT !.cli = FALSE]]]
    /\ UNCHANGED <<hand, cliVars, closed, listening, dropVars, cast, past>>

(* The reply to the auth frame is the first frame on the connection.       *)
ReadOk(k, c) ==
    /\ step[k] = c /\ conn[k][c].first = "ok"
    /\ Goto(k, IF c = "control" THEN "dialStream" ELSE "connected")
    /\ UNCHANGED <<conn, hand, cliVars, closed, listening, dropVars, cast, past>>

(* Another frame, or the end of the connection: connect fails.             *)
ReadOther(k, c) ==
    /\ step[k] = c
    /\ conn[k][c].first \notin {"none", "ok"} \/ (conn[k][c].first = "none" /\ ~conn[k][c].srv)
    /\ Hangup(k, "failed")

(* Nobody listens.                                                         *)
DialFails(k) ==
    /\ ~listening /\ step[k] \in {"start", "dialStream"}
    /\ Hangup(k, "failed")

(* Client.Close, or the end of the client process.                         *)
ClientEnds(k) ==
    /\ step[k] \notin {"start", "failed", "gone"}
    /\ Hangup(k, "gone")

-----------------------------------------------------------------------------
(* handleConn                                                              *)

HandGoto(k, c, s) == hand' = [hand EXCEPT ![k][c] = s]

(* sendError and Close.                                                    *)
Reject(k, c) ==
    /\ HandGoto(k, c, "done")
    /\ conn' = [conn EXCEPT ![k][c].srv = FALSE,
                            ![k][c].first = IF @ = "none" /\ Up(k, c) THEN "error" ELSE @]

(* Serve accepts a connection and starts handleConn.                       *)
Accept(k, c) ==
    /\ listening /\ hand[k][c] = "accept"
    /\ HandGoto(k, c, "auth")
    /\ UNCHANGED <<step, conn, cliVars, closed, listening, dropVars, cast, past>>

(* handleConn up to the switch: the auth frame is in, and right.           *)
Authenticate(k, c) ==
    /\ hand[k][c] = "auth"
    /\ conn[k][c].auth /\ k \notin BadToken /\ checkAutomationMode(k)
    /\ HandGoto(k, c, "register")
    /\ UNCHANGED <<step, conn, cliVars, closed, listening, dropVars, cast, past>>

(* Its early returns: an end of file, or an auth frame that is not right,  *)
(* ...                                                                     *)
AuthFails(k, c) ==
    /\ hand[k][c] = "auth"
    /\ \/ ~conn[k][c].cli
       \/ conn[k][c].auth /\ ~(k \notin BadToken /\ checkAutomationMode(k))
    /\ Reject(k, c)
    /\ UNCHANGED <<step, cliVars, closed, listening, dropVars, cast, past>>

(* Mutation: the deadline is set once the auth frame is in.                *)
DeadlineLate(k, c) ==
    /\ hand[k][c] = "auth" /\ conn[k][c].cli /\ conn[k][c].auth
    /\ Reject(k, c)
    /\ past' = [past EXCEPT !.expired = @ \cup {k}]
    /\ UNCHANGED <<step, cliVars, closed, listening, dropVars, cast>>

(* ... and the deadline on the handshake.                                  *)
Deadline(k, c) ==
    /\ hand[k][c] = "auth" /\ conn[k][c].cli
    /\ Reject(k, c)
    /\ past' = [past EXCEPT !.expired = @ \cup {k}]
    /\ UNCHANGED <<step, cliVars, closed, listening, dropVars, cast>>

(* Mutation: the client is not entered.                                    *)
registerControlNothing(k) ==
    /\ hand[k]["control"] = "register"
    /\ HandGoto(k, "control", "reply")
    /\ UNCHANGED <<step, conn, cliVars, closed, listening, dropVars, cast, past>>

(* registerControl: the new entry, ...                                     *)
registerControl(k) ==
    /\ hand[k]["control"] = "register"
    /\ HandGoto(k, "control", "reply")
    /\ clients' = clients \cup {k}
    /\ UNCHANGED <<step, conn, stream, closed, listening, dropVars, cast, past>>

(* ... the reply with the ID, or the removal when it cannot be written, ... *)
replyControl(k) ==
    /\ hand[k]["control"] = "reply"
    /\ IF Up(k, "control")
       THEN /\ HandGoto(k, "control", "callback")
            /\ conn' = [conn EXCEPT ![k]["control"].first = "ok"]
            /\ UNCHANGED clients
       ELSE /\ Reject(k, "control")
            /\ clients' = clients \ {k}
    /\ UNCHANGED <<step, stream, closed, listening, dropVars, cast, past>>

(* ... and the callback, which starts Daemon.readControl.                  *)
onClient(k) ==
    /\ hand[k]["control"] = "callback"
    /\ HandGoto(k, "control", "serve")
    /\ UNCHANGED <<step, conn, cliVars, closed, listening, dropVars, cast, past>>

(* registerStream under the lock.                                          *)
registerStream(k) ==
    /\ hand[k]["stream"] = "register"
    /\ IF k \in clients /\ k \notin stream
       THEN stream' = stream \cup {k} /\ HandGoto(k, "stream", "reply") /\ UNCHANGED conn
       ELSE Reject(k, "stream") /\ UNCHANGED stream
    /\ UNCHANGED <<step, clients, closed, listening, dropVars, cast, past>>

(* The reply of registerStream; a failed write clears Client.Stream of a   *)
(* client that is still registered.                                        *)
replyStream(k) ==
    /\ hand[k]["stream"] = "reply"
    /\ IF Up(k, "stream")
       THEN /\ HandGoto(k, "stream", "serve")
            /\ conn' = [conn EXCEPT ![k]["stream"].first = IF @ = "none" THEN "ok" ELSE @]
            /\ UNCHANGED stream
       ELSE /\ Reject(k, "stream")
            /\ stream' = IF k \in clients THEN stream \ {k} ELSE stream
    /\ UNCHANGED <<step, clients, closed, listening, dropVars, cast, past>>

-----------------------------------------------------------------------------
(* The registry                                                            *)

(* Kick and Close take clients out under the lock, and close what they     *)
(* took after it; RemoveClient closes nothing.                             *)
Kick(k) ==
    /\ k \in clients
    /\ clients' = clients \ {k}
    /\ toDrop' = toDrop \cup {k}
    /\ past' = [past EXCEPT !.kicked = @ \cup {k}]
    /\ UNCHANGED <<step, conn, hand, stream, closed, listening, closing, cast>>

RemoveClient(k) ==
    /\ k \in clients
    /\ clients' = clients \ {k}
    /\ past' = [past EXCEPT !.forgotten = @ \cup {k}]
    /\ UNCHANGED <<step, conn, hand, stream, closed, listening, dropVars, cast>>

ServerClose ==
    /\ ~past.swept
    /\ closed' = TRUE
    /\ clients' = {} /\ closing' = clients
    /\ past' = [past EXCEPT !.kicked = @ \cup clients, !.swept = TRUE]
    /\ UNCHANGED <<step, conn, hand, stream, listening, toDrop, cast>>

(* The two connections of a client are closed.                             *)
Drop(k) ==
    /\ k \in toDrop \cup closing
    /\ toDrop' = toDrop \ {k} /\ closing' = closing \ {k}
    /\ conn' = [conn EXCEPT ![k]["control"].srv = FALSE,
                            ![k]["stream"].srv = @ /\ k \notin stream]
    /\ UNCHANGED <<step, hand, cliVars, closed, listening, cast, past>>

(* The end of the context sets closed, too; it leaves the clients alone.   *)
ContextDone ==
    /\ ~closed /\ closed' = TRUE
    /\ UNCHANGED <<step, conn, hand, cliVars, listening, dropVars, cast, past>>

(* listener.Close; the kernel resets what was not accepted.                *)
ListenerClose ==
    /\ closed /\ listening /\ closing = {}
    /\ listening' = FALSE
    /\ conn' = [k \in Client |-> [c \in Channel |->
                  [conn[k][c] EXCEPT !.srv = @ /\ hand[k][c] # "accept"]]]
    /\ UNCHANGED <<step, hand, cliVars, closed, dropVars, cast, past>>

-----------------------------------------------------------------------------
(* BroadcastTo, for a client that watches a session, as it can once        *)
(* connect has returned: the lookup under the read lock, ...               *)
BroadcastLookup(k) ==
    /\ cast = NoClient /\ step[k] = "connected"
    /\ cast' = IF k \in clients THEN k ELSE NoClient
    /\ UNCHANGED <<step, conn, hand, cliVars, closed, listening, dropVars, past>>

(* ... and the write after it.                                             *)
BroadcastWrite ==
    /\ cast # NoClient
    /\ conn' = IF cast \in stream /\ Up(cast, "stream") /\ conn[cast]["stream"].first = "none"
               THEN [conn EXCEPT ![cast]["stream"].first = "data"] ELSE conn
    /\ cast' = NoClient
    /\ UNCHANGED <<step, hand, cliVars, closed, listening, dropVars, past>>

HandStep(k) ==
    \/ \E c \in Channel : Accept(k, c) \/ Authenticate(k, c) \/ AuthFails(k, c) \/ Deadline(k, c)
    \/ registerControl(k) \/ replyControl(k) \/ onClient(k)
    \/ registerStream(k) \/ replyStream(k)

ReadsReply(k) == \E c \in Channel : ReadOk(k, c) \/ ReadOther(k, c)

ClientStep(k) == (\E c \in Channel : Dial(k, c)) \/ ReadsReply(k) \/ DialFails(k)

RegistryStep ==
    \/ \E k \in Client : Kick(k) \/ RemoveClient(k) \/ Drop(k)
    \/ ServerClose \/ ContextDone \/ ListenerClose

Broadcaster == BroadcastWrite \/ \E k \in Client : BroadcastLookup(k)

NetNext ==
    \/ \E k \in Client : HandStep(k) \/ ClientStep(k) \/ ClientEnds(k)
    \/ RegistryStep \/ Broadcaster

NetSpec == NetInit /\ [][NetNext]_netVars

(* Go schedules every runnable goroutine, deadlines fire, and a client     *)
(* that waits for a reply reads it.                                        *)
NetFairness ==
    /\ \A k \in Client :
          WF_netVars(HandStep(k)) /\ WF_netVars(ReadsReply(k)) /\ WF_netVars(Drop(k))
    /\ WF_netVars(ListenerClose)

-----------------------------------------------------------------------------
(* registerControl enters the client before it answers, and registerStream *)
(* answers before the daemon can have output for the client.  So a client  *)
(* with the right token is turned away only after its handshake ran into   *)
(* the deadline, it was taken out of the registry, or the server stopped.  *)
RefusedForReason ==
    \A k \in Client :
        step[k] = "failed" =>
            \/ k \in BadToken \/ ~checkAutomationMode(k) \/ closed
            \/ k \in past.expired \cup past.forgotten \cup past.kicked

(* The deadline on the handshake, "to prevent connections that never send  *)
(* auth", and the replies of handleConn: no client waits for ever in       *)
(* connect, whoever is kicked or stopped meanwhile.                        *)
HandshakeEnds ==
    \A k \in Client : step[k] \in Channel ~> step[k] \notin Channel
=============================================================================
