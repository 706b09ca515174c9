------------------------------- MODULE Events -------------------------------
(***************************************************************************)
(* From the event bus to the clients (internal/daemon/service.go):         *)
(* Daemon.readControl reads the requests of a client, a MsgEvent request   *)
(* starts a goroutine that forwards events to the control connection, and  *)
(* Daemon.Serve closes the bus once the context is done and Start has      *)
(* returned, while readControl goroutines still run.                       *)
(***************************************************************************)
EXTENDS EventBus

CONSTANT
    Wants     \* the publishers whose events a subscriber has asked for

VARIABLES
    lost,     \* subscribers whose control connection has failed
    req,      \* subscribers whose MsgEvent request is on the connection
    ctl,      \* readControl of each subscriber
    fwd,      \* the goroutine of handleSubscribe for each subscriber
    held,     \* the event it is about to write
    seen,     \* history: events it has written
    ctxDone   \* the context of the daemon is done

fwdVars == <<fwd, held, seen>>
evVars == <<busVars, lost, req, ctl, fwdVars, ctxDone>>

EvInit ==
    /\ BusInit
    /\ lost = {} /\ req = {} /\ ctxDone = FALSE
    /\ ctl = [s \in Sub |-> "read"]
    /\ fwd = [s \in Sub |-> "off"]
    /\ held = [s \in Sub |-> <<>>]
    /\ seen = [s \in Sub |-> <<>>]

-----------------------------------------------------------------------------
(* readControl and handleSubscribe                                         *)

CtlStep(s, from, to) ==
    /\ ctl[s] = from /\ ctl' = [ctl EXCEPT ![s] = to]
    /\ UNCHANGED <<lost, held, seen, ctxDone>>

(* A frame is read and the context is not done: dispatch.                  *)
ReadFrame(s) ==
    /\ CtlStep(s, "read", "dispatch")
    /\ s \in req /\ ~ctxDone
    /\ req' = req \ {s}
    /\ UNCHANGED <<busVars, fwd>>

(* No more frames, or the context is done: detachClient.                   *)
ReadEnds(s) ==
    /\ CtlStep(s, "read", "done")
    /\ IF s \in req THEN ctxDone ELSE s \in lost
    /\ UNCHANGED <<busVars, req, fwd>>

handleSubscribe(s) ==
    /\ CtlStep(s, "dispatch", "read")
    /\ Subscribe(s)
    /\ fwd' = [fwd EXCEPT ![s] = "receive"]
    /\ UNCHANGED req

FwdStep(s, from, to) ==
    /\ fwd[s] = from /\ fwd' = [fwd EXCEPT ![s] = to]
    /\ UNCHANGED <<lost, req, ctl, ctxDone>>

(* The forwarding goroutine takes an event and drops it, when it is about  *)
(* another session than the one asked for, ...                             *)
FwdSkip(s) ==
    /\ FwdStep(s, "receive", "receive")
    /\ Receive(s) /\ Head(queue[s])[1] \notin Wants[s]
    /\ UNCHANGED <<held, seen>>

FwdReceive(s) ==
    /\ FwdStep(s, "receive", "write")
    /\ Receive(s) /\ Head(queue[s])[1] \in Wants[s]
    /\ held' = [held EXCEPT ![s] = <<Head(queue[s])>>]
    /\ UNCHANGED seen

(* Mutation: the event is written once more.                               *)
FwdWriteAgain(s) ==
    /\ FwdStep(s, "write", "write")
    /\ s \notin lost /\ Len(seen[s]) < 3
    /\ seen' = [seen EXCEPT ![s] = @ \o held[s]]
    /\ UNCHANGED <<busVars, held>>

(* ... writes it, ...                                                      *)
FwdWrite(s) ==
    /\ FwdStep(s, "write", "receive")
    /\ s \notin lost
    /\ seen' = [seen EXCEPT ![s] = @ \o held[s]]
    /\ held' = [held EXCEPT ![s] = <<>>]
    /\ UNCHANGED busVars

(* ... returns when the client is gone, ...                                *)
FwdWriteFails(s) ==
    /\ FwdStep(s, "write", "return")
    /\ s \in lost
    /\ held' = [held EXCEPT ![s] = <<>>]
    /\ UNCHANGED <<busVars, seen>>

(* ... or when the channel is closed, ...                                  *)
FwdExhausted(s) ==
    /\ FwdStep(s, "receive", "return")
    /\ Exhausted(s)
    /\ UNCHANGED <<busVars, held, seen>>

(* ... and unsubscribes.                                                   *)
FwdReturn(s) ==
    /\ FwdStep(s, "return", "done")
    /\ Unsubscribe(s)
    /\ UNCHANGED <<held, seen>>

-----------------------------------------------------------------------------
(* The client asks for events, once, ...                                   *)
SendSubscribe(s) ==
    /\ s \notin lost /\ ctl[s] = "read" /\ fwd[s] = "off"
    /\ req' = req \cup {s}
    /\ UNCHANGED <<busVars, lost, ctl, fwdVars, ctxDone>>

(* ... and disconnects.                                                    *)
Disconnect(s) ==
    /\ s \notin lost /\ lost' = lost \cup {s}
    /\ UNCHANGED <<busVars, req, ctl, fwdVars, ctxDone>>

(* Stop, a signal, or a MsgShutdown.                                       *)
Stop ==
    /\ ~ctxDone /\ ctxDone' = TRUE
    /\ UNCHANGED <<busVars, lost, req, ctl, fwdVars>>

(* The deferred Close of Daemon.Serve.                                     *)
ServeReturns ==
    /\ ctxDone /\ BusClose
    /\ UNCHANGED <<lost, req, ctl, fwdVars, ctxDone>>

BusStep(A) == A /\ UNCHANGED <<lost, req, ctl, fwdVars, ctxDone>>
Publish(p) == BusStep(PublishBegin(p) \/ PublishSend(p))
Leave(s) == BusStep(removeSub(s) \/ UnsubscribeClose(s))
CloseLoop == BusStep(BusCloseNext)

Control(s) == ReadFrame(s) \/ ReadEnds(s) \/ handleSubscribe(s)

Forward(s) ==
    \/ FwdSkip(s) \/ FwdReceive(s) \/ FwdWrite(s) \/ FwdWriteFails(s)
    \/ FwdExhausted(s) \/ FwdReturn(s)

EvNext ==
    \/ \E p \in Publisher : Publish(p)
    \/ \E s \in Sub : Control(s) \/ Forward(s) \/ Leave(s)
    \/ \E s \in Sub : SendSubscribe(s) \/ Disconnect(s)
    \/ Stop \/ ServeReturns \/ CloseLoop

EvSpec == EvInit /\ [][EvNext]_evVars

(* Go schedules every runnable goroutine and writes return; nobody has to  *)
(* leave or to stop the daemon.                                            *)
EvFairness ==
    /\ \A p \in Publisher : WF_evVars(BusStep(PublishSend(p)))
    /\ \A s \in Sub : WF_evVars(Control(s)) /\ WF_evVars(Forward(s)) /\ WF_evVars(Leave(s))
    /\ WF_evVars(ServeReturns) /\ WF_evVars(CloseLoop)

-----------------------------------------------------------------------------
(* Each client sees the events of one publisher in the order they were     *)
(* published, and none twice, though the buffer overflows and the bus      *)
(* closes around it.                                                       *)
EventsInOrder ==
    \A s \in Sub :
        LET all == seen[s] \o (held[s] \o queue[s])
        IN  \A i, j \in 1..Len(all) :
                i < j /\ all[i][1] = all[j][1] => all[i][2] < all[j][2]

(* Every forwarding goroutine ends once the bus is closed, and Close       *)
(* returns: the Once of a subscription and the lock of the bus are never   *)
(* waited for in a circle.                                                 *)
ClosedBusIsLeft ==
    busClosed ~> toClose = <<>> /\ \A s \in Sub : fwd[s] \in {"off", "done"}
=============================================================================
