---------------------------- MODULE Attachments -----------------------------
(***************************************************************************)
(* Which client watches which session (internal/daemon/service.go): the    *)
(* maps Daemon.attachments and Daemon.clientSession under Daemon.mu, kept  *)
(* in step by the handlers with Session.State under Service.mu.  A client  *)
(* has one control goroutine (readControl), so its own requests are        *)
(* handled one at a time; requests of different clients, Kill, Create and  *)
(* the exit of a process interleave with their steps.                      *)
(***************************************************************************)
EXTENDS SessionRegistry

CONSTANTS
    Client,   \* client IDs
    NoId      \* no entry in clientSession

ASSUME ClientAssumption == NoId \notin Id

VARIABLES
    attachments,    \* Daemon.attachments: who watches each session
    clientSession,  \* Daemon.clientSession
    handler,        \* the control goroutine of each client
    gone,           \* clients whose control connection has failed
    juggled,        \* history: clients that used two sessions at a time
    raced           \* history: IDs where a Detach overlapped an attach

historyVars == <<juggled, raced>>
daemonVars == <<attachments, clientSession, handler, gone, historyVars>>
vars == <<regVars, daemonVars>>

Ready == [pc |-> "read", id |-> NoId]

Init ==
    /\ RegInit
    /\ attachments = [i \in Id |-> {}]
    /\ clientSession = [c \in Client |-> NoId]
    /\ handler = [c \in Client |-> Ready]
    /\ gone = {} /\ juggled = {} /\ raced = {}

(* The control goroutine of c goes on at pc, or reads the next frame.      *)
Continue(c, pc, i) == handler' = [handler EXCEPT ![c] = [pc |-> pc, id |-> i]]

Finish(c) == handler' = [handler EXCEPT ![c] = Ready]

Reading(c) == c \notin gone /\ handler[c] = Ready

(* History: c asks for session i while its entry names another one.        *)
Juggle(c, i) ==
    juggled' = IF clientSession[c] \in {NoId, i} THEN juggled ELSE juggled \cup {c}

-----------------------------------------------------------------------------
(* handleAttach: Get; an unknown session is answered with an error.        *)
AttachGet(c, i) ==
    /\ Reading(c)
    /\ sessions[i] # NoHandle
    /\ Continue(c, "attach", i)
    /\ UNCHANGED <<regVars, attachments, clientSession, gone, historyVars>>

(* handleAttach: sessionSvc.Attach, which may find the session gone.       *)
AttachState(c) ==
    /\ handler[c].pc = "attach"
    /\ \/ Attach(handler[c].id) /\ Continue(c, "record", handler[c].id)
       \/ sessions[handler[c].id] = NoHandle /\ Finish(c) /\ UNCHANGED regVars
    /\ UNCHANGED <<attachments, clientSession, gone, historyVars>>

(* handleAttach under mu; the snapshot and the reply follow.               *)
AttachRecord(c) ==
    /\ handler[c].pc = "record"
    /\ attachments' = [attachments EXCEPT ![handler[c].id] = @ \cup {c}]
    /\ clientSession' = [clientSession EXCEPT ![c] = handler[c].id]
    /\ Finish(c)
    /\ Juggle(c, handler[c].id)
    /\ UNCHANGED <<regVars, gone, raced>>

(* What handleDetach and detachClient do to the watchers of session i; the *)
(* last one to leave goes on to Service.Detach.                            *)
Leave(c, i) ==
    /\ attachments' = [attachments EXCEPT ![i] = @ \ {c}]
    /\ IF attachments[i] # {} /\ attachments'[i] = {}
       THEN Continue(c, "detach", i)
       ELSE Finish(c)

(* handleDetach under mu: the client's entry goes whatever it names.       *)
DetachLocked(c, i) ==
    /\ Reading(c)
    /\ Leave(c, i)
    /\ clientSession' = [clientSession EXCEPT ![c] = NoId]
    /\ Juggle(c, i)
    /\ UNCHANGED <<regVars, gone, raced>>

(* Somebody watches session i, or is about to be recorded as a watcher.    *)
Watched(i) ==
    attachments[i] # {} \/ \E c \in Client : handler[c] = [pc |-> "record", id |-> i]

(* sessionSvc.Detach, outside mu; its error is ignored.                    *)
DetachState(c) ==
    /\ handler[c].pc = "detach"
    /\ \/ Detach(handler[c].id)
       \/ sessions[handler[c].id] = NoHandle /\ UNCHANGED regVars
    /\ Finish(c)
    /\ raced' = IF Watched(handler[c].id) THEN raced \cup {handler[c].id} ELSE raced
    /\ UNCHANGED <<attachments, clientSession, gone, juggled>>

(* Mutation: only clientSession is updated.                                *)
DisconnectHalf(c) ==
    /\ Reading(c)
    /\ gone' = gone \cup {c}
    /\ clientSession' = [clientSession EXCEPT ![c] = NoId]
    /\ UNCHANGED <<regVars, attachments, handler, historyVars>>

(* readControl on a read error or a cancelled context: detachClient.       *)
Disconnect(c) ==
    /\ Reading(c)
    /\ gone' = gone \cup {c}
    /\ IF clientSession[c] = NoId
       THEN UNCHANGED <<attachments, clientSession, handler>>
       ELSE /\ Leave(c, clientSession[c])
            /\ clientSession' = [clientSession EXCEPT ![c] = NoId]
    /\ UNCHANGED <<regVars, historyVars>>

(* handleCreate, handleKill and waitLoop; none of them touches the maps.   *)
SessionStep ==
    /\ \/ \E h \in Handle : Create(h) \/ Exit(h) \/ Notify(h)
       \/ \E i \in Id : Kill(i)
    /\ UNCHANGED daemonVars

Next ==
    \/ \E c \in Client :
          \/ AttachState(c) \/ AttachRecord(c) \/ DetachState(c) \/ Disconnect(c)
          \/ \E i \in Id : AttachGet(c, i) \/ DetachLocked(c, i)
    \/ SessionStep

Spec == Init /\ [][Next]_vars

-----------------------------------------------------------------------------
HandlerPc == {"read", "attach", "record", "detach"}

(* Every variable has its type.                                            *)
TypeOK ==
    /\ RegTypeOK
    /\ attachments \in [Id -> SUBSET Client]
    /\ clientSession \in [Client -> Id \cup {NoId}]
    /\ handler \in [Client -> [pc: HandlerPc, id: Id \cup {NoId}]]
    /\ \A c \in Client : handler[c].pc # "read" => handler[c].id \in Id
    /\ gone \subseteq Client /\ juggled \subseteq Client /\ raced \subseteq Id

(* detachClient finds the watchers to leave through clientSession, so the  *)
(* session named there must have the client among its watchers.            *)
CurrentIsAttached ==
    \A c \in Client : clientSession[c] # NoId => c \in attachments[clientSession[c]]

(* The comment on detachClient: it "removes all attachment state for the   *)
(* disconnected client".  True of every client that kept to one session at *)
(* a time; one that attached to a second session without detaching stays   *)
(* among the watchers of the first for ever.                               *)
DisconnectedIsForgotten ==
    \A c \in gone \ juggled, i \in Id : c \notin attachments[i]

(* The comments on handleAttach and handleDetach: a session is alive once  *)
(* attached, and detached only "when the last client leaves".  True of     *)
(* every session, also one that replaced another under the same ID, until  *)
(* a Detach of a last client runs after the attach of a new one: the state *)
(* is changed outside the lock on the maps.                                *)
AttachedIsAlive ==
    \A i \in Registered \ raced : attachments[i] # {} => state[sessions[i]] = "alive"
=============================================================================
