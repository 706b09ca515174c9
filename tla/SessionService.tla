--------------------------- MODULE SessionService ---------------------------
(***************************************************************************)
(* session.Service with the resources behind each managed session: the     *)
(* child process, the batcher goroutine and the PTY master, torn down by   *)
(* two goroutines that do not know of each other, Kill (on behalf of a     *)
(* caller, the Reaper or the Watchdog) and the session's waitLoop.         *)
(***************************************************************************)
EXTENDS SessionRegistry

CONSTANTS
    Caller,       \* goroutines that call Create, Kill, Attach and Detach
    Sweeper,      \* those of "reaper" and "watchdog" that are running
    SpawnSlots    \* capacity of Service.spawnSem

ASSUME GoroutineAssumption ==
    /\ Sweeper \subseteq {"reaper", "watchdog"}
    /\ Caller \cap Sweeper = {}
    /\ IsFiniteSet(Caller)
    /\ SpawnSlots \in Nat \ {0}

VARIABLES
    proc,       \* the child: "none", "running", "zombie" or "reaped"
    hungUp,     \* children whose process group got SIGHUP
    stopped,    \* handles whose Batcher.done is closed
    closed,     \* handles whose PTY master is closed (closeOnce has run)
    waitPc,     \* waitLoop of every handle
    call,       \* what every calling goroutine is doing, and on which handle
    todo,       \* handles a sweep has listed and not yet looked at
    panicked    \* a channel was closed twice: the daemon is gone

resVars == <<proc, hungUp, stopped, closed, panicked>>
svcVars == <<regVars, resVars, waitPc, call, todo>>

Goroutine == Caller \cup Sweeper

Idle == [pc |-> "idle", h |-> NoHandle]

At(c, pc) == call[c].pc = pc

(* Goroutine c goes on at pc, about the same handle.                       *)
Goto(c, pc) == call' = [call EXCEPT ![c].pc = pc]

Spawning == {c \in Caller : At(c, "spawn")}

Init ==
    /\ RegInit
    /\ proc = [h \in Handle |-> "none"]
    /\ hungUp = {} /\ stopped = {} /\ closed = {} /\ panicked = FALSE
    /\ waitPc = [h \in Handle |-> "none"]
    /\ call = [c \in Goroutine |-> Idle]
    /\ todo = [c \in Sweeper |-> {}]

-----------------------------------------------------------------------------
(* Create                                                                  *)

(* Create: acquire a spawn slot, blocking while all are taken.             *)
CreateAcquire(c, h) ==
    /\ call[c] = Idle
    /\ state[h] = "unborn"
    /\ Cardinality(Spawning) < SpawnSlots
    /\ call' = [call EXCEPT ![c] = [pc |-> "spawn", h |-> h]]
    /\ UNCHANGED <<regVars, resVars, waitPc, todo>>

(* Create under mu: spawn, enter the map, start readLoop and waitLoop.     *)
CreateLocked(c) ==
    /\ At(c, "spawn")
    /\ Create(call[c].h)
    /\ proc' = [proc EXCEPT ![call[c].h] = "running"]
    /\ waitPc' = [waitPc EXCEPT ![call[c].h] = "wait"]
    /\ call' = [call EXCEPT ![c] = Idle]
    /\ UNCHANGED <<hungUp, stopped, closed, panicked, todo>>

(* Create's early returns; a spawn may always fail.                        *)
CreateFails(c) ==
    /\ At(c, "spawn")
    /\ call' = [call EXCEPT ![c] = Idle]
    /\ UNCHANGED <<regVars, resVars, waitPc, todo>>

-----------------------------------------------------------------------------
(* Kill                                                                    *)

(* Kill under mu: out of the map.                                          *)
KillLocked(c, i) ==
    /\ Kill(i)
    /\ call' = [call EXCEPT ![c] = [pc |-> "stop", h |-> sessions[i]]]
    /\ UNCHANGED <<resVars, waitPc>>

(* Batcher.Stop, first half: select on done, with a default.               *)
KillStop(c) ==
    /\ At(c, "stop")
    /\ Goto(c, IF call[c].h \in stopped THEN "hangup" ELSE "stopClose")
    /\ UNCHANGED <<regVars, resVars, waitPc, todo>>

(* Batcher.Stop, second half: close(done), which panics when it is closed. *)
CloseDone(h) ==
    /\ panicked' = (h \in stopped)
    /\ stopped' = stopped \cup {h}

KillStopClose(c) ==
    /\ At(c, "stopClose")
    /\ CloseDone(call[c].h)
    /\ Goto(c, "hangup")
    /\ UNCHANGED <<regVars, proc, hungUp, closed, waitPc, todo>>

(* Mutation: Kill deletes the entry of its ID once more at the end.        *)
KillHangupDeleting(c) ==
    /\ At(c, "hangup")
    /\ sessions' = [sessions EXCEPT ![Sid[call[c].h]] = NoHandle]
    /\ hungUp' = hungUp \cup {call[c].h}
    /\ closed' = closed \cup {call[c].h}
    /\ call' = [call EXCEPT ![c] = Idle]
    /\ UNCHANGED <<state, killed, notified, proc, stopped, panicked, waitPc, todo>>

(* SIGHUP to the process group, which a reaped child no longer has, and    *)
(* process.Close under closeOnce.                                          *)
KillHangup(c) ==
    /\ At(c, "hangup")
    /\ hungUp' = IF proc[call[c].h] = "running"
                 THEN hungUp \cup {call[c].h} ELSE hungUp
    /\ closed' = closed \cup {call[c].h}
    /\ call' = [call EXCEPT ![c] = Idle]
    /\ UNCHANGED <<regVars, proc, stopped, panicked, waitPc, todo>>

-----------------------------------------------------------------------------
(* The API calls that are a single critical section.                       *)

CallKill(c, i) == call[c] = Idle /\ KillLocked(c, i) /\ UNCHANGED todo

CallAttach(c, i) ==
    call[c] = Idle /\ Attach(i) /\ UNCHANGED <<resVars, waitPc, call, todo>>

CallDetach(c, i) ==
    call[c] = Idle /\ Detach(i) /\ UNCHANGED <<resVars, waitPc, call, todo>>

-----------------------------------------------------------------------------
(* Reaper.tick and Watchdog.tick                                           *)

(* List: the Reaper skips what is not detached.                            *)
SweepList(c) ==
    /\ call[c] = Idle
    /\ todo[c] = {}
    /\ todo' = [todo EXCEPT ![c] =
           {sessions[i] : i \in {j \in Registered :
                c = "reaper" => state[sessions[j]] = "detached"}}]
    /\ UNCHANGED <<regVars, resVars, waitPc, call>>

(* The test on one listed session.  The Reaper looks up LastActivity by ID *)
(* and finds it idle or not; the Watchdog signals the listed PID.          *)
SweepTest(c, h) ==
    /\ call[c] = Idle
    /\ h \in todo[c]
    /\ todo' = [todo EXCEPT ![c] = @ \ {h}]
    /\ \/ UNCHANGED call
       \/ /\ IF c = "reaper" THEN sessions[Sid[h]] # NoHandle
                             ELSE proc[h] = "reaped"
          /\ call' = [call EXCEPT ![c] = [pc |-> "sweep", h |-> h]]
    /\ UNCHANGED <<regVars, resVars, waitPc>>

(* Kill(sess.ID), or ErrSessionNotFound.                                   *)
SweepKill(c) ==
    /\ At(c, "sweep")
    /\ \/ KillLocked(c, Sid[call[c].h])
       \/ /\ sessions[Sid[call[c].h]] = NoHandle
          /\ call' = [call EXCEPT ![c] = Idle]
          /\ UNCHANGED <<regVars, resVars, waitPc>>
    /\ UNCHANGED todo

-----------------------------------------------------------------------------
(* The child and its waitLoop                                              *)

WaitGoto(h, pc) == waitPc' = [waitPc EXCEPT ![h] = pc]

ChildExit(h) ==
    /\ proc[h] = "running"
    /\ proc' = [proc EXCEPT ![h] = "zombie"]
    /\ UNCHANGED <<regVars, hungUp, stopped, closed, panicked, waitPc, call, todo>>

(* process.Wait returns.                                                   *)
Wait(h) ==
    /\ waitPc[h] = "wait"
    /\ proc[h] = "zombie"
    /\ proc' = [proc EXCEPT ![h] = "reaped"]
    /\ WaitGoto(h, "lock")
    /\ UNCHANGED <<regVars, hungUp, stopped, closed, panicked, call, todo>>

(* Mutation: waitLoop gives up when Kill was first.                        *)
WaitLockedOwn(h) ==
    /\ waitPc[h] = "lock"
    /\ sessions[Sid[h]] = h
    /\ Exit(h)
    /\ WaitGoto(h, "stop")
    /\ UNCHANGED <<resVars, call, todo>>

WaitLocked(h) ==
    /\ waitPc[h] = "lock"
    /\ Exit(h)
    /\ WaitGoto(h, "stop")
    /\ UNCHANGED <<resVars, call, todo>>

(* Mutation: a stopped batcher is taken to mean that all is released.      *)
WaitStopEarly(h) ==
    /\ waitPc[h] = "stop"
    /\ WaitGoto(h, IF h \in stopped THEN "notify" ELSE "stopClose")
    /\ UNCHANGED <<regVars, resVars, call, todo>>

WaitStop(h) ==
    /\ waitPc[h] = "stop"
    /\ WaitGoto(h, IF h \in stopped THEN "close" ELSE "stopClose")
    /\ UNCHANGED <<regVars, resVars, call, todo>>

WaitStopClose(h) ==
    /\ waitPc[h] = "stopClose"
    /\ CloseDone(h)
    /\ WaitGoto(h, "close")
    /\ UNCHANGED <<regVars, proc, hungUp, closed, call, todo>>

(* process.Close under closeOnce; the emulator is closed too.              *)
WaitClose(h) ==
    /\ waitPc[h] = "close"
    /\ closed' = closed \cup {h}
    /\ WaitGoto(h, "notify")
    /\ UNCHANGED <<regVars, proc, hungUp, stopped, panicked, call, todo>>

WaitNotify(h) ==
    /\ waitPc[h] = "notify"
    /\ Notify(h)
    /\ WaitGoto(h, "done")
    /\ UNCHANGED <<resVars, call, todo>>

-----------------------------------------------------------------------------
WaitLoop(h) ==
    \/ Wait(h) \/ WaitLocked(h) \/ WaitStop(h) \/ WaitStopClose(h)
    \/ WaitClose(h) \/ WaitNotify(h)

KillRest(c) == KillStop(c) \/ KillStopClose(c) \/ KillHangup(c)

Next ==
    /\ ~panicked
    /\ \/ \E c \in Caller :
             \/ \E h \in Handle : CreateAcquire(c, h)
             \/ CreateLocked(c) \/ CreateFails(c)
             \/ \E i \in Id : CallKill(c, i) \/ CallAttach(c, i) \/ CallDetach(c, i)
       \/ \E c \in Sweeper :
             SweepList(c) \/ SweepKill(c) \/ \E h \in Handle : SweepTest(c, h)
       \/ \E c \in Goroutine : KillRest(c)
       \/ \E h \in Handle : ChildExit(h) \/ WaitLoop(h)

Spec == Init /\ [][Next]_svcVars

(* Goroutines are scheduled, and a child dies of SIGHUP; nobody is obliged *)
(* to call the API and no child is obliged to exit by itself.              *)
FairSpec ==
    /\ Spec
    /\ \A h \in Handle : /\ WF_svcVars(~panicked /\ WaitLoop(h))
                         /\ WF_svcVars(~panicked /\ h \in hungUp /\ ChildExit(h))
    /\ \A c \in Goroutine : WF_svcVars(~panicked /\ KillRest(c))

-----------------------------------------------------------------------------
CallPc == {"idle", "spawn", "sweep", "stop", "stopClose", "hangup"}
WaitPc == {"none", "wait", "lock", "stop", "stopClose", "close", "notify", "done"}

(* Every variable has its type.                                            *)
TypeOK ==
    /\ RegTypeOK
    /\ proc \in [Handle -> {"none", "running", "zombie", "reaped"}]
    /\ hungUp \subseteq Handle /\ stopped \subseteq Handle /\ closed \subseteq Handle
    /\ panicked \in BOOLEAN
    /\ waitPc \in [Handle -> WaitPc]
    /\ call \in [Goroutine -> [pc: CallPc, h: Handle \cup {NoHandle}]]
    /\ todo \in [Sweeper -> SUBSET Handle]

(* Whatever WriteInput, Resize or ReadOutput finds in the map is usable:   *)
(* both Kill and waitLoop leave the map before they stop the batcher and   *)
(* close the PTY, and no entry is ever put back.                           *)
RegisteredIsUsable ==
    \A i \in Registered :
        /\ sessions[i] \notin stopped \cup closed
        /\ proc[sessions[i]] # "none"

(* The exit of a session is reported only after both of its resources are  *)
(* released, whichever of Kill and waitLoop got to release them.           *)
NotifiedIsReleased == notified \subseteq stopped \cap closed

(* Kill: "The waitLoop goroutine handles final cleanup once the process    *)
(* exits."  Every killed session is reported, unless the daemon died.      *)
KilledIsNotified ==
    \A h \in Handle : h \in killed ~> h \in notified \/ panicked

(* The comment on Batcher.Stop: "Calling Stop more than once is safe."     *)
(* Its test and its close are two steps, so two callers can both close the *)
(* channel; but only Kill and the waitLoop of the session killed ever call *)
(* it twice: without a Kill that meets the exit of its session, no channel *)
(* is closed twice.                                                        *)
PanicNeedsKillAndExit == panicked => \E h \in killed : state[h] = "exited"

(* With its resources hidden, the service is the registry: no step of Kill *)
(* or waitLoop outside the critical sections touches the map or a state.   *)
ImplementsRegistry == RegSpec
=============================================================================
