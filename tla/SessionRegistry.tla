-------------------------- MODULE SessionRegistry ---------------------------
(***************************************************************************)
(* The session map of session.Service (internal/session/service.go): what  *)
(* its critical sections do to Service.sessions and to Session.State.      *)
(* Every operation here runs under Service.mu and is one action.           *)
(*                                                                         *)
(* A handle is a *managedSession, made by one Create for one session ID.   *)
(* Several handles may exist for one ID over time, and a handle lives on   *)
(* in its goroutines after it has left the map.                            *)
(*                                                                         *)
(* SessionService adds the resources behind a handle to this module;       *)
(* Attachments adds the daemon's clients.                                  *)
(***************************************************************************)
EXTENDS Naturals, FiniteSets

CONSTANTS
    Id,           \* session IDs
    Handle,       \* managed sessions, one per successful Create
    Sid,          \* the ID each handle is created for
    NoHandle,     \* the map has no entry
    MaxSessions   \* Service.maxSessions; 0 means no limit

ASSUME HandleAssumption ==
    /\ Sid \in [Handle -> Id]
    /\ NoHandle \notin Handle

ASSUME LimitAssumption == IsFiniteSet(Id) /\ MaxSessions \in Nat

VARIABLES
    sessions,   \* Service.sessions
    state,      \* Session.State of every handle ("unborn" before Create)
    killed,     \* history: handles taken out of the map by Kill
    notified    \* handles whose onExit callback was invoked

regVars == <<sessions, state, killed, notified>>

SessionState == {"alive", "detached", "exited"}

Live == {"alive", "detached"}

Registered == {i \in Id : sessions[i] # NoHandle}

RegInit ==
    /\ sessions = [i \in Id |-> NoHandle]
    /\ state = [h \in Handle |-> "unborn"]
    /\ killed = {}
    /\ notified = {}

(* Mutation: no check that the ID is free.                                 *)
CreateUnchecked(h) ==
    /\ state[h] = "unborn"
    /\ MaxSessions > 0 => Cardinality(Registered) < MaxSessions
    /\ sessions' = [sessions EXCEPT ![Sid[h]] = h]
    /\ state' = [state EXCEPT ![h] = "alive"]
    /\ UNCHANGED <<killed, notified>>

(* Create, when the ID is free, the cap allows it and the spawn succeeds.  *)
(* Its early returns (ErrSessionExists, ErrMaxSessions, a failed spawn)    *)
(* leave everything as it was.                                             *)
Create(h) ==
    /\ state[h] = "unborn"
    /\ sessions[Sid[h]] = NoHandle
    /\ MaxSessions > 0 => Cardinality(Registered) < MaxSessions
    /\ sessions' = [sessions EXCEPT ![Sid[h]] = h]
    /\ state' = [state EXCEPT ![h] = "alive"]
    /\ UNCHANGED <<killed, notified>>

(* Mutation: the entry is left to waitLoop.                                *)
KillKeeping(i) ==
    /\ sessions[i] # NoHandle
    /\ killed' = killed \cup {sessions[i]}
    /\ UNCHANGED <<sessions, state, notified>>

(* The critical section of Kill.                                           *)
Kill(i) ==
    /\ sessions[i] # NoHandle
    /\ sessions' = [sessions EXCEPT ![i] = NoHandle]
    /\ killed' = killed \cup {sessions[i]}
    /\ UNCHANGED <<state, notified>>

(* Mutation: a detached session stays detached.                            *)
AttachNothing(i) == sessions[i] # NoHandle /\ UNCHANGED regVars

Attach(i) ==
    /\ sessions[i] # NoHandle
    /\ state' = [state EXCEPT ![sessions[i]] = IF @ = "detached" THEN "alive" ELSE @]
    /\ UNCHANGED <<sessions, killed, notified>>

Detach(i) ==
    /\ sessions[i] # NoHandle
    /\ state' = [state EXCEPT ![sessions[i]] = IF @ = "alive" THEN "detached" ELSE @]
    /\ UNCHANGED <<sessions, killed, notified>>

(* The critical section of waitLoop: it deletes the map entry of its ID.   *)
Exit(h) ==
    /\ state[h] \in Live
    /\ state' = [state EXCEPT ![h] = "exited"]
    /\ sessions' = [sessions EXCEPT ![Sid[h]] = NoHandle]
    /\ UNCHANGED <<killed, notified>>

(* Mutation: the exit is reported before the critical section.             *)
NotifyEarly(h) ==
    /\ state[h] \in Live
    /\ h \notin notified
    /\ notified' = notified \cup {h}
    /\ UNCHANGED <<sessions, state, killed>>

(* The end of waitLoop: onExit(id, exitCode).                              *)
Notify(h) ==
    /\ state[h] = "exited"
    /\ h \notin notified
    /\ notified' = notified \cup {h}
    /\ UNCHANGED <<sessions, state, killed>>

RegNext ==
    \/ \E h \in Handle : Create(h) \/ Exit(h) \/ Notify(h)
    \/ \E i \in Id : Kill(i) \/ Attach(i) \/ Detach(i)

RegSpec == RegInit /\ [][RegNext]_regVars

-----------------------------------------------------------------------------
(* Every variable has its type.                                            *)
RegTypeOK ==
    /\ sessions \in [Id -> Handle \cup {NoHandle}]
    /\ state \in [Handle -> SessionState \cup {"unborn"}]
    /\ killed \subseteq Handle
    /\ notified \subseteq Handle

(* What Get, Attach and every other lookup rely on: an entry of the map    *)
(* belongs to the ID it is found under and its process has not been        *)
(* reaped, also when handles of the same ID come and go.                   *)
RegisteredIsLive ==
    \A i \in Registered :
        Sid[sessions[i]] = i /\ state[sessions[i]] \in Live

(* Create enforces the session cap ("enforces the session cap").           *)
CapRespected == MaxSessions > 0 => Cardinality(Registered) <= MaxSessions

(* The comment on waitLoop: it "removes the session from the map", its own *)
(* session.  In fact it deletes by ID, so a running session nobody killed  *)
(* can be missing from the map, but only when the exit of a killed         *)
(* predecessor under the same ID took its entry.                           *)
LostOnlyToPredecessor ==
    \A h \in Handle :
        state[h] \in Live /\ h \notin killed =>
            \/ sessions[Sid[h]] = h
            \/ \E g \in killed \ {h} : Sid[g] = Sid[h] /\ state[g] = "exited"
=============================================================================
