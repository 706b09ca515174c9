------------------------------ MODULE EventBus ------------------------------
(***************************************************************************)
(* The event bus (internal/platform/event/service.go).  Publish runs under *)
(* the read lock, so publishers run beside each other; subscribe,          *)
(* removeSub and Close change the list under the write lock; channels are  *)
(* closed outside it, guarded by the sync.Once of the subscription.        *)
(***************************************************************************)
EXTENDS Naturals, Sequences

CONSTANTS
    Sub,         \* subscriptions
    Publisher,   \* goroutines that publish
    SubCap,      \* subscriberBufferSize
    MaxEvents    \* bound: events of one publisher

ASSUME BusAssumption == SubCap \in Nat \ {0} /\ MaxEvents \in Nat

VARIABLES
    subs,       \* Bus.subs
    busClosed,  \* Bus.closed
    queue,      \* events in each Subscription.ch
    shut,       \* subscriptions whose channel is closed
    once,       \* Subscription.once
    unsub,      \* the step of Unsubscribe
    toClose,    \* what Close has still to close, in order
    pub,        \* Publish of each publisher: events so far, receivers to come
    late,       \* history: subscriptions made on a closed bus
    panicked    \* a channel was closed twice, or a closed one was sent to

busVars == <<subs, busClosed, queue, shut, once, unsub, toClose, pub, late, panicked>>

BusInit ==
    /\ subs = <<>> /\ busClosed = FALSE
    /\ queue = [s \in Sub |-> <<>>] /\ shut = {}
    /\ once = [s \in Sub |-> "new"]
    /\ unsub = [s \in Sub |-> "no"]
    /\ toClose = <<>>
    /\ pub = [p \in Publisher |-> [sent |-> 0, todo |-> <<>>]]
    /\ late = {} /\ panicked = FALSE

(* No Publish holds the read lock.                                         *)
Unlocked == \A p \in Publisher : pub[p].todo = <<>>

(* close(s.ch): closing a closed channel panics.                           *)
CloseChan(s) ==
    /\ shut' = shut \cup {s}
    /\ panicked' = (panicked \/ s \in shut)

(* subscribe.  On a closed bus the channel is closed past the Once.        *)
Subscribe(s) ==
    /\ Unlocked
    /\ IF busClosed
       THEN CloseChan(s) /\ late' = late \cup {s} /\ UNCHANGED subs
       ELSE subs' = Append(subs, s) /\ UNCHANGED <<shut, late, panicked>>
    /\ UNCHANGED <<busClosed, queue, once, unsub, toClose, pub>>

(* Publish takes the read lock and looks at closed.                        *)
PublishBegin(p) ==
    /\ pub[p].todo = <<>> /\ pub[p].sent < MaxEvents
    /\ pub' = [pub EXCEPT ![p] = [sent |-> @.sent + 1,
                                  todo |-> IF busClosed THEN <<>> ELSE subs]]
    /\ UNCHANGED <<subs, busClosed, queue, shut, once, unsub, toClose, late, panicked>>

(* One round of the loop in Publish: a full channel drops the event.       *)
PublishSend(p) ==
    /\ pub[p].todo # <<>>
    /\ LET s == Head(pub[p].todo)
       IN  /\ queue' = IF Len(queue[s]) < SubCap
                       THEN [queue EXCEPT ![s] = Append(@, <<p, pub[p].sent>>)]
                       ELSE queue
           /\ panicked' = (panicked \/ s \in shut)
    /\ pub' = [pub EXCEPT ![p].todo = Tail(@)]
    /\ UNCHANGED <<subs, busClosed, shut, once, unsub, toClose, late>>

(* Mutation: the channel is closed before the subscription leaves the list. *)
UnsubscribeClosing(s) ==
    /\ unsub[s] = "no"
    /\ IF once[s] = "new"
       THEN /\ once' = [once EXCEPT ![s] = "running"]
            /\ unsub' = [unsub EXCEPT ![s] = "remove"]
            /\ CloseChan(s)
       ELSE /\ once[s] = "done"
            /\ unsub' = [unsub EXCEPT ![s] = "done"]
            /\ UNCHANGED <<once, shut, panicked>>
    /\ UNCHANGED <<subs, busClosed, queue, toClose, pub, late>>

(* Unsubscribe enters once.Do, or waits for who is in it and returns.      *)
Unsubscribe(s) ==
    /\ unsub[s] = "no"
    /\ IF once[s] = "new"
       THEN /\ once' = [once EXCEPT ![s] = "running"]
            /\ unsub' = [unsub EXCEPT ![s] = "remove"]
       ELSE /\ once[s] = "done"
            /\ unsub' = [unsub EXCEPT ![s] = "done"]
            /\ UNCHANGED once
    /\ UNCHANGED <<subs, busClosed, queue, shut, toClose, pub, late, panicked>>

(* The entry of s leaves the list, if it is still there.                   *)
Cut(s) ==
    \/ \E i \in 1..Len(subs) :
          /\ subs[i] = s
          /\ subs' = SubSeq(subs, 1, i - 1) \o SubSeq(subs, i + 1, Len(subs))
    \/ (\A i \in 1..Len(subs) : subs[i] # s) /\ UNCHANGED subs

(* Mutation: Close keeps the lock until its last channel is closed.        *)
removeSubLocked(s) ==
    /\ unsub[s] = "remove"
    /\ Unlocked /\ toClose = <<>>
    /\ Cut(s)
    /\ unsub' = [unsub EXCEPT ![s] = "close"]
    /\ UNCHANGED <<busClosed, queue, shut, once, toClose, pub, late, panicked>>

(* removeSub takes the write lock.                                         *)
removeSub(s) ==
    /\ unsub[s] = "remove"
    /\ Unlocked
    /\ Cut(s)
    /\ unsub' = [unsub EXCEPT ![s] = "close"]
    /\ UNCHANGED <<busClosed, queue, shut, once, toClose, pub, late, panicked>>

(* The close at the end of Unsubscribe.                                    *)
UnsubscribeClose(s) ==
    /\ unsub[s] = "close"
    /\ CloseChan(s)
    /\ once' = [once EXCEPT ![s] = "done"]
    /\ unsub' = [unsub EXCEPT ![s] = "done"]
    /\ UNCHANGED <<subs, busClosed, queue, toClose, pub, late>>

(* The critical section of Close.                                          *)
BusClose ==
    /\ ~busClosed
    /\ Unlocked
    /\ busClosed' = TRUE
    /\ toClose' = subs
    /\ subs' = <<>>
    /\ UNCHANGED <<queue, shut, once, unsub, pub, late, panicked>>

(* One round of the loop in Close, through the Once of the subscription.   *)
BusCloseNext ==
    /\ toClose # <<>>
    /\ LET s == Head(toClose)
       IN  /\ once[s] # "running"
           /\ once' = [once EXCEPT ![s] = "done"]
           /\ IF once[s] = "new" THEN CloseChan(s) ELSE UNCHANGED <<shut, panicked>>
    /\ toClose' = Tail(toClose)
    /\ UNCHANGED <<subs, busClosed, queue, unsub, pub, late>>

(* A receive from the channel of s, closed or not.                         *)
Receive(s) ==
    /\ queue[s] # <<>>
    /\ queue' = [queue EXCEPT ![s] = Tail(@)]
    /\ UNCHANGED <<subs, busClosed, shut, once, unsub, toClose, pub, late, panicked>>

(* A range over the channel of s ends.                                     *)
Exhausted(s) == s \in shut /\ queue[s] = <<>>

-----------------------------------------------------------------------------
(* What the bus relies on to close every channel once and to send on open  *)
(* channels only, wherever Publish, Unsubscribe and Close interleave: the  *)
(* one way to a panic is to unsubscribe a subscription that was made on a  *)
(* closed bus, whose channel subscribe closed past the Once.               *)
PanicNeedsLateSubscribe ==
    panicked => \E s \in late : unsub[s] = "done"
=============================================================================
