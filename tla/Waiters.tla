------------------------------ MODULE Waiters -------------------------------
(***************************************************************************)
(* MsgWait (internal/daemon/service.go): every request runs handleWait in  *)
(* a goroutine of its own, which looks the session up, adds a waiter to    *)
(* Daemon.waiters and blocks on it.  Waiters are answered by the exit      *)
(* callback of waitLoop and by the broadcaster as it drains output.  Both  *)
(* address waiters by session ID.                                          *)
(***************************************************************************)
EXTENDS SessionRegistry

CONSTANTS
    Waiter,      \* handleWait goroutines, one per MsgWait
    Asks,        \* the modes each may ask for
    Limited,     \* those with a positive timeout
    NoChunk      \* the broadcaster has read nothing

Mode == {"exit", "idle", "match"}

ASSUME WaiterAssumption ==
    /\ Asks \in [Waiter -> SUBSET Mode]
    /\ Limited \subseteq Waiter
    /\ NoChunk \notin Id \X BOOLEAN

VARIABLES
    pc,         \* handleWait
    mode,       \* WaitRequest.Mode
    on,         \* the session its Get found
    waiters,    \* Daemon.waiters
    done,       \* waiter.done, a channel of capacity one
    reply,      \* the response written to the client
    read,       \* a chunk the broadcaster has read and not yet shown: the ID and
                \* whether bytes.Contains finds the pattern in it
    seen,       \* history: "match" waiters that were shown the pattern
    told        \* handles whose onExit has been through notifyExitOnNonExitWaiters

waitVars == <<pc, mode, on, waiters, done, reply, seen>>
daemonVars == <<regVars, waitVars, read, told>>

WaitInit ==
    /\ RegInit
    /\ pc = [w \in Waiter |-> "new"]
    /\ mode = [w \in Waiter |-> "none"]
    /\ on = [w \in Waiter |-> NoHandle]
    /\ waiters = [i \in Id |-> {}]
    /\ done = [w \in Waiter |-> "empty"]
    /\ reply = [w \in Waiter |-> "none"]
    /\ read = NoChunk
    /\ seen = {}
    /\ told = {}

Respond(w, r) ==
    /\ reply' = [reply EXCEPT ![w] = r]
    /\ pc' = [pc EXCEPT ![w] = "remove"]

(* A non-blocking send of r to every waiter in ws.                         *)
Send(ws, r) ==
    done' = [w \in Waiter |-> IF w \in ws /\ done[w] = "empty" THEN r ELSE done[w]]

-----------------------------------------------------------------------------
(* handleWait: Get.                                                        *)
WaitGet(w, i, m) ==
    /\ pc[w] = "new"
    /\ mode' = [mode EXCEPT ![w] = m]
    /\ IF sessions[i] = NoHandle
       THEN /\ reply' = [reply EXCEPT ![w] = "error"]
            /\ pc' = [pc EXCEPT ![w] = "done"]
            /\ UNCHANGED on
       ELSE /\ on' = [on EXCEPT ![w] = sessions[i]]
            /\ pc' = [pc EXCEPT ![w] = "add"]
            /\ UNCHANGED reply
    /\ UNCHANGED <<regVars, waiters, done, read, seen, told>>

AddWaiter(w) ==
    /\ pc[w] = "add"
    /\ waiters' = [waiters EXCEPT ![Sid[on[w]]] = @ \cup {w}]
    /\ pc' = [pc EXCEPT ![w] = "wait"]
    /\ UNCHANGED <<regVars, mode, on, done, reply, read, seen, told>>

(* The select of waitUntilExit, waitUntilIdle and waitUntilMatch.          *)
Receive(w) ==
    /\ pc[w] = "wait"
    /\ done[w] # "empty"
    /\ Respond(w, done[w])
    /\ done' = [done EXCEPT ![w] = "empty"]
    /\ UNCHANGED <<regVars, mode, on, waiters, read, seen, told>>

TimeOut(w) ==
    /\ pc[w] = "wait"
    /\ w \in Limited
    /\ Respond(w, "timeout")
    /\ UNCHANGED <<regVars, mode, on, waiters, done, read, seen, told>>

IdleTimer(w) ==
    /\ pc[w] = "wait"
    /\ mode[w] = "idle"
    /\ Respond(w, "idle")
    /\ UNCHANGED <<regVars, mode, on, waiters, done, read, seen, told>>

(* The deferred removeWaiter.                                              *)
RemoveWaiter(w) ==
    /\ pc[w] = "remove"
    /\ waiters' = [waiters EXCEPT ![Sid[on[w]]] = @ \ {w}]
    /\ pc' = [pc EXCEPT ![w] = "done"]
    /\ UNCHANGED <<regVars, mode, on, done, reply, read, seen, told>>

-----------------------------------------------------------------------------
(* flushOutput: ReadOutput, then notifyOutputWaiters.  An "idle" waiter    *)
(* only has its timer reset.                                               *)
ReadOutput(i, found) ==
    /\ read = NoChunk
    /\ sessions[i] # NoHandle
    /\ read' = <<i, found>>
    /\ UNCHANGED <<regVars, waitVars, told>>

Shown == {w \in waiters[read[1]] : mode[w] = "match" /\ read[2]}

NotifyOutput ==
    /\ read # NoChunk
    /\ Send(Shown, "match")
    /\ seen' = seen \cup Shown
    /\ read' = NoChunk
    /\ UNCHANGED <<regVars, pc, mode, on, waiters, reply, told>>

(* onExit: notifyExitWaiters, then notifyExitOnNonExitWaiters.             *)
NotifyExit(h) ==
    /\ Notify(h)
    /\ Send({w \in waiters[Sid[h]] : mode[w] = "exit"}, "exit")
    /\ UNCHANGED <<pc, mode, on, waiters, reply, read, seen, told>>

(* Mutation: "match" waiters are not told of the exit.                     *)
NotifyIdleOnly(h) ==
    /\ h \in notified \ told
    /\ Send({w \in waiters[Sid[h]] : mode[w] = "idle"}, "exit")
    /\ told' = told \cup {h}
    /\ UNCHANGED <<regVars, pc, mode, on, waiters, reply, read, seen>>

NotifyNonExit(h) ==
    /\ h \in notified \ told
    /\ Send({w \in waiters[Sid[h]] : mode[w] # "exit"}, "exit")
    /\ told' = told \cup {h}
    /\ UNCHANGED <<regVars, pc, mode, on, waiters, reply, read, seen>>

SessionStep ==
    /\ \/ \E h \in Handle : Create(h) \/ Exit(h)
       \/ \E i \in Id : Kill(i)
    /\ UNCHANGED <<waitVars, read, told>>

HandleWait(w) ==
    \/ AddWaiter(w) \/ Receive(w) \/ TimeOut(w) \/ RemoveWaiter(w)

NotifyWaiters(h) == NotifyExit(h) \/ NotifyNonExit(h)

WaitNext ==
    \/ \E w \in Waiter : HandleWait(w) \/ IdleTimer(w) \/ \E i \in Id, m \in Asks[w] : WaitGet(w, i, m)
    \/ \E i \in Id, found \in BOOLEAN : ReadOutput(i, found)
    \/ NotifyOutput
    \/ \E h \in Handle : NotifyWaiters(h)
    \/ SessionStep

WaitSpec == WaitInit /\ [][WaitNext]_daemonVars

(* Goroutines are scheduled and a started timer fires.  No session has to  *)
(* exit, produce output or fall silent.                                    *)
WaitFairSpec ==
    /\ WaitSpec
    /\ \A w \in Waiter : WF_daemonVars(HandleWait(w))
    /\ \A h \in Handle : WF_daemonVars(NotifyWaiters(h))
    /\ WF_daemonVars(NotifyOutput)

-----------------------------------------------------------------------------
(* Every variable has its type.                                            *)
WaitTypeOK ==
    /\ RegTypeOK
    /\ pc \in [Waiter -> {"new", "add", "wait", "remove", "done"}]
    /\ mode \in [Waiter -> Mode \cup {"none"}]
    /\ on \in [Waiter -> Handle \cup {NoHandle}]
    /\ waiters \in [Id -> SUBSET Waiter]
    /\ done \in [Waiter -> {"empty", "exit", "match"}]
    /\ reply \in [Waiter -> {"none", "error", "exit", "match", "idle", "timeout"}]
    /\ told \subseteq notified
    /\ read \in (Id \X BOOLEAN) \cup {NoChunk}
    /\ seen \subseteq Waiter

(* A waiter is listed exactly while its handler waits or is about to take  *)
(* it off, and only under the ID it was opened for: none is left behind to *)
(* make flushOutput drain a session for nobody.                            *)
ListedIffWaiting ==
    \A w \in Waiter, i \in Id :
        w \in waiters[i] <=> pc[w] \in {"wait", "remove"} /\ i = Sid[on[w]]

(* A waiter that is on the list before its session's exit is reported is   *)
(* answered after it, whatever the mode and without any timeout.           *)
ListedIsAnswered ==
    \A w \in Waiter :
        [](pc[w] = "wait" /\ on[w] \notin notified =>
              [](on[w] \in notified => <>(pc[w] = "done")))

(* Answers are true.  "match": a chunk with the pattern was read while the *)
(* waiter was on the list.  "exit" (docs/cli/wmux.md: "Wait until the      *)
(* session exits"): the session has exited, or the exit of an earlier one  *)
(* with the same ID was still to be reported, since waiters go by ID.      *)
RepliesAreTrue ==
    \A w \in Waiter :
        /\ reply[w] = "match" => w \in seen
        /\ reply[w] = "exit" =>
              \/ state[on[w]] = "exited"
              \/ \E h \in notified \ {on[w]} : Sid[h] = Sid[on[w]]

(* A pattern that arrives within one chunk is found: every "match" waiter  *)
(* listed when the chunk is read is answered, whatever else it is told.    *)
FoundIsAnswered ==
    \A w \in Waiter :
        (read # NoChunk /\ w \in Shown) ~> pc[w] = "done"

(* handleWait answers whoever it listed in time: an exit or a match is     *)
(* never lost between the notifications and the one slot of waiter.done.   *)
WaitersAreAnswered == ListedIsAnswered /\ FoundIsAnswered
=============================================================================
