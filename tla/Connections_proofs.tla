-------------------------- MODULE Connections_proofs ------------------------
(***************************************************************************)
(* The connections, for any clients, tokens and process tree: a client     *)
(* that the daemon admits is refused for one of the reasons the code knows *)
(* and never for the order of the steps.                                   *)
(*                                                                         *)
(* The event bus with its subscribers, for any number of publishers,       *)
(* subscribers and events: no channel is closed twice and no closed one is *)
(* sent to, but for a subscription made on a closed bus, and the events of *)
(* a publisher reach each client in their order.                           *)
(***************************************************************************)
EXTENDS Transport, Events, SequenceTheorems, TLAPS

In(s, q) == \E i \in 1..Len(q) : q[i] = s

Distinct(q) == \A i, j \in 1..Len(q) : q[i] = q[j] => i = j

(* The types that matter for the channels.                                 *)
BusTypes ==
    /\ subs \in Seq(Sub) /\ toClose \in Seq(Sub)
    /\ shut \subseteq Sub /\ late \subseteq Sub
    /\ once \in [Sub -> {"new", "running", "done"}]
    /\ unsub \in [Sub -> {"no", "remove", "close", "done"}]
    /\ pub \in [Publisher -> [sent : Nat, todo : Seq(Sub)]]
    /\ ctl \in [Sub -> {"read", "dispatch", "done"}]
    /\ fwd \in [Sub -> {"off", "receive", "write", "return", "done"}]
    /\ busClosed \in BOOLEAN

(* A client subscribes once: until then the bus knows nothing of it.       *)
Fresh ==
    \A s \in Sub :
        /\ s \in req \/ ctl[s] = "dispatch" => fwd[s] = "off"
        /\ ctl[s] = "dispatch" => s \notin req
        /\ fwd[s] = "off" =>
              /\ ~In(s, subs) /\ ~In(s, toClose) /\ s \notin shut \cup late
              /\ once[s] = "new" /\ unsub[s] = "no"

(* The list holds open channels only, each once, and is empty on a closed  *)
(* bus.                                                                    *)
ListedIsOpen ==
    /\ Distinct(subs)
    /\ busClosed => subs = <<>>
    /\ toClose # <<>> => busClosed
    /\ \A s \in Sub : In(s, subs) =>
          s \notin shut \cup late /\ once[s] # "done" /\ unsub[s] \in {"no", "remove"}

(* Whom a Publish will send to is on the list.                             *)
AimedIsListed ==
    \A p \in Publisher, s \in Sub : In(s, pub[p].todo) => In(s, subs)

(* The Once of a subscription, while it lasts, keeps the channel open.     *)
OnceGuards ==
    \A s \in Sub :
        /\ once[s] = "running" <=> unsub[s] \in {"remove", "close"}
        /\ s \notin late /\ once[s] # "done" => s \notin shut
        /\ In(s, toClose) => s \notin late

EvInv ==
    /\ BusTypes /\ Fresh /\ ListedIsOpen /\ AimedIsListed /\ OnceGuards
    /\ PanicNeedsLateSubscribe

-----------------------------------------------------------------------------
(* Lists                                                                   *)

(* Append adds one element.                                                *)
LEMMA AppendIn ==
    ASSUME NEW q \in Seq(Sub), NEW s \in Sub, NEW t \in Sub
    PROVE  /\ Append(q, t) \in Seq(Sub)
           /\ In(s, Append(q, t)) <=> In(s, q) \/ s = t
           /\ Distinct(q) /\ ~In(t, q) => Distinct(Append(q, t))
<1>1. Append(q, t) \in Seq(Sub) /\ Len(Append(q, t)) = Len(q) + 1 /\ Len(q) \in Nat
  OBVIOUS
<1>2. \A i \in 1..Len(q) : Append(q, t)[i] = q[i]
  OBVIOUS
<1>3. Append(q, t)[Len(q) + 1] = t
  OBVIOUS
<1>4. \A i \in 1..(Len(q) + 1) : i \in 1..Len(q) \/ i = Len(q) + 1
  BY <1>1
<1>5. In(s, Append(q, t)) <=> In(s, q) \/ s = t
  BY <1>1, <1>2, <1>3, <1>4 DEF In
<1>6. Distinct(q) /\ ~In(t, q) => Distinct(Append(q, t))
  BY Zenon, <1>1, <1>2, <1>3, <1>4 DEF In, Distinct
<1> QED
  BY Zenon, <1>1, <1>5, <1>6

(* Tail takes the head away.                                               *)
LEMMA TailIn ==
    ASSUME NEW q \in Seq(Sub), q # <<>>, NEW s \in Sub
    PROVE  /\ Tail(q) \in Seq(Sub) /\ Head(q) \in Sub /\ In(Head(q), q)
           /\ In(s, Tail(q)) => In(s, q)
<1>1. Tail(q) \in Seq(Sub) /\ Len(q) \in Nat \ {0} /\ Len(Tail(q)) = Len(q) - 1 /\ Head(q) = q[1]
  OBVIOUS
<1>2. \A i \in 1..Len(Tail(q)) : Tail(q)[i] = q[i + 1] /\ i + 1 \in 1..Len(q)
  BY <1>1
<1> QED
  BY <1>1, <1>2 DEF In

(* What is left of a list without repetitions when position k goes.        *)
LEMMA SkipIn ==
    ASSUME NEW q \in Seq(Sub), NEW k \in 1..Len(q), NEW s \in Sub, NEW r \in Seq(Sub),
           Len(r) = Len(q) - 1,
           \A i \in 1..Len(r) : r[i] = IF i < k THEN q[i] ELSE q[i + 1]
    PROVE  /\ In(s, r) => In(s, q)
           /\ Distinct(q) => Distinct(r) /\ ~In(q[k], r)
<1>1. Len(q) \in Nat /\ k \in Nat
  OBVIOUS
<1> DEFINE at(i) == IF i < k THEN i ELSE i + 1
<1>2. \A i \in 1..Len(r) : at(i) \in 1..Len(q) /\ r[i] = q[at(i)] /\ at(i) # k
  BY <1>1
<1>3. \A i, j \in 1..Len(r) : at(i) = at(j) => i = j
  BY <1>1
<1> HIDE DEF at
<1>4. In(s, r) => In(s, q)
  BY Zenon, <1>2 DEF In
<1>5. Distinct(q) => Distinct(r)
  BY SMTT(30), <1>2, <1>3 DEF Distinct
<1>6. Distinct(q) => ~In(q[k], r)
  BY <1>2 DEF Distinct, In
<1> QED
  BY Zenon, <1>4, <1>5, <1>6

(* That is what removeSub puts together.                                   *)
LEMMA CutIn ==
    ASSUME NEW q \in Seq(Sub), NEW k \in 1..Len(q), NEW s \in Sub
    PROVE  LET r == SubSeq(q, 1, k - 1) \o SubSeq(q, k + 1, Len(q))
           IN  /\ r \in Seq(Sub)
               /\ In(s, r) => In(s, q)
               /\ Distinct(q) => Distinct(r) /\ ~In(q[k], r)
<1> DEFINE a == SubSeq(q, 1, k - 1)
           b == SubSeq(q, k + 1, Len(q))
           r == a \o b
<1>1. Len(q) \in Nat /\ k \in Nat
  OBVIOUS
<1>2. a \in Seq(Sub) /\ Len(a) = k - 1 /\ \A i \in 1..(k - 1) : a[i] = q[i]
  BY <1>1
<1>3. b \in Seq(Sub) /\ Len(b) = Len(q) - k /\ \A i \in 1..(Len(q) - k) : b[i] = q[i + k]
  BY <1>1
<1> HIDE DEF a, b
<1>4. /\ r \in Seq(Sub) /\ Len(r) = Len(a) + Len(b)
      /\ \A i \in 1..(Len(a) + Len(b)) : r[i] = IF i <= Len(a) THEN a[i] ELSE b[i - Len(a)]
  BY <1>2, <1>3, ConcatProperties, Zenon
<1> HIDE DEF r
<1>5. Len(r) = Len(q) - 1
  BY <1>1, <1>2, <1>3, <1>4
<1>6. ASSUME NEW i \in 1..Len(r) PROVE r[i] = IF i < k THEN q[i] ELSE q[i + 1]
  <2>1. CASE i < k
    BY <1>1, <1>2, <1>4, <1>5, <1>6, <2>1
  <2>2. CASE ~(i < k)
    <3>1. i - Len(a) \in 1..(Len(q) - k) /\ (i - Len(a)) + k = i + 1 /\ ~(i <= Len(a))
      BY <1>1, <1>2, <1>5, <1>6, <2>2
    <3> QED
      BY Zenon, <1>3, <1>4, <1>5, <1>6, <2>2, <3>1
  <2> QED
    BY Zenon, <2>1, <2>2
<1>7. /\ In(s, r) => In(s, q)
      /\ Distinct(q) => Distinct(r) /\ ~In(q[k], r)
  BY Zenon, <1>4, <1>5, <1>6, SkipIn
<1> QED
  BY Zenon, <1>4, <1>7 DEF r, a, b

-----------------------------------------------------------------------------
(* The steps                                                               *)

(* At first the bus is empty.                                              *)
LEMMA EvInitHolds == EvInit => EvInv
<1> SUFFICES ASSUME EvInit PROVE EvInv
  BY Zenon
<1>1. <<>> \in Seq(Sub) /\ Len(<<>>) = 0
  OBVIOUS
<1>2. (\A s : ~In(s, <<>>)) /\ Distinct(<<>>)
  BY <1>1 DEF In, Distinct
<1>3. pub \in [Publisher -> [sent : Nat, todo : Seq(Sub)]] /\ \A p \in Publisher : pub[p].todo = <<>>
  BY Zenon, <1>1 DEF EvInit, BusInit
<1>4. BusTypes
  BY Zenon, <1>1, <1>3 DEF EvInit, BusInit, BusTypes
<1> QED
  BY Zenon, <1>2, <1>3, <1>4 DEF EvInit, BusInit, EvInv, Fresh, ListedIsOpen, AimedIsListed,
     OnceGuards, PanicNeedsLateSubscribe

(* What the subscribers do beside the bus.                                 *)
LEMMA EvClientStep ==
    ASSUME EvInv, NEW s \in Sub,
           ReadFrame(s) \/ ReadEnds(s) \/ SendSubscribe(s) \/ Disconnect(s)
    PROVE  EvInv'
<1> USE DEF EvInv, BusTypes, Fresh, ListedIsOpen, AimedIsListed, OnceGuards,
        PanicNeedsLateSubscribe, busVars, fwdVars, CtlStep
<1>1. CASE ReadFrame(s)
  BY Zenon, <1>1 DEF ReadFrame
<1>2. CASE ReadEnds(s)
  BY Zenon, <1>2 DEF ReadEnds
<1>3. CASE SendSubscribe(s)
  BY Zenon, <1>3 DEF SendSubscribe
<1>4. CASE Disconnect(s)
  BY Zenon, <1>4 DEF Disconnect
<1> QED
  BY Zenon, <1>1, <1>2, <1>3, <1>4

(* A forwarding goroutine moves on.                                        *)
LEMMA ForwardStep ==
    ASSUME EvInv, NEW s \in Sub,
           \/ FwdSkip(s) \/ FwdReceive(s) \/ FwdWrite(s) \/ FwdWriteFails(s)
           \/ FwdExhausted(s)
    PROVE  EvInv'
<1>1. /\ fwd[s] # "off"
      /\ \E to \in {"receive", "write", "return", "done"} : fwd' = [fwd EXCEPT ![s] = to]
      /\ UNCHANGED <<subs, busClosed, shut, once, unsub, toClose, pub, late, panicked, req, ctl>>
  BY Zenon DEF FwdSkip, FwdReceive, FwdWrite, FwdWriteFails, FwdExhausted, FwdStep, Receive, busVars
<1> QED
  BY <1>1 DEF EvInv, BusTypes, Fresh, ListedIsOpen, AimedIsListed, OnceGuards,
     PanicNeedsLateSubscribe

(* The goroutine ends and enters the Once.                                 *)
LEMMA ReturnStep ==
    ASSUME EvInv, NEW s \in Sub, FwdReturn(s)
    PROVE  EvInv'
<1> USE DEF EvInv, FwdReturn, FwdStep, Unsubscribe
<1>1. BusTypes'
  BY Zenon DEF BusTypes
<1>2. Fresh'
  BY DEF BusTypes, Fresh
<1>3. ListedIsOpen'
  <2>1. In(s, subs) => s \notin late /\ once[s] # "done"
    BY Zenon DEF BusTypes, ListedIsOpen, OnceGuards
  <2> QED
    BY Zenon, <2>1 DEF BusTypes, ListedIsOpen
<1>4. AimedIsListed' /\ OnceGuards'
  BY Zenon DEF BusTypes, AimedIsListed, OnceGuards
<1>5. PanicNeedsLateSubscribe'
  BY Zenon DEF BusTypes, PanicNeedsLateSubscribe
<1> QED
  BY Zenon, <1>1, <1>2, <1>3, <1>4, <1>5

(* subscribe: a new channel for the list, or a closed one.                 *)
LEMMA SubscribeStep ==
    ASSUME EvInv, NEW s \in Sub, handleSubscribe(s)
    PROVE  EvInv'
<1> USE DEF EvInv, handleSubscribe, CtlStep, Subscribe, CloseChan
<1>1. /\ fwd[s] = "off" /\ s \notin req
      /\ ~In(s, subs) /\ ~In(s, toClose) /\ s \notin shut \cup late
      /\ once[s] = "new" /\ unsub[s] = "no"
  BY Zenon DEF BusTypes, Fresh
<1>2. CASE busClosed
  <2>1. BusTypes' /\ Fresh'
    BY <1>1, <1>2 DEF BusTypes, Fresh
  <2>2. ListedIsOpen' /\ AimedIsListed'
    BY <1>1, <1>2 DEF BusTypes, ListedIsOpen, AimedIsListed
  <2>3. OnceGuards'
    BY Zenon, <1>1, <1>2 DEF BusTypes, OnceGuards
  <2>4. PanicNeedsLateSubscribe'
    BY Zenon, <1>1, <1>2 DEF PanicNeedsLateSubscribe
  <2> QED
    BY Zenon, <2>1, <2>2, <2>3, <2>4
<1>3. CASE ~busClosed
  <2>1. subs \in Seq(Sub) /\ subs' = Append(subs, s)
    BY Zenon, <1>3 DEF BusTypes
  <2>2. /\ subs' \in Seq(Sub) /\ Distinct(subs')
        /\ \A t \in Sub : In(t, subs') <=> In(t, subs) \/ t = s
    BY Zenon, <1>1, <2>1, AppendIn DEF ListedIsOpen
  <2>3. BusTypes' /\ Fresh'
    BY Zenon, <1>1, <1>3, <2>2 DEF BusTypes, Fresh
  <2>4. ListedIsOpen'
    BY Zenon, <1>1, <1>3, <2>2 DEF BusTypes, ListedIsOpen
  <2>5. AimedIsListed' /\ OnceGuards' /\ PanicNeedsLateSubscribe'
    BY Zenon, <1>1, <1>3, <2>2 DEF BusTypes, AimedIsListed, OnceGuards, PanicNeedsLateSubscribe
  <2> QED
    BY Zenon, <2>3, <2>4, <2>5
<1> QED
  BY Zenon, <1>2, <1>3

(* Publish holds the read lock, and sends to open channels.                *)
LEMMA PublishStep ==
    ASSUME EvInv, NEW p \in Publisher, Publish(p)
    PROVE  EvInv'
<1> USE DEF EvInv, Publish, BusStep, fwdVars
<1>1. CASE PublishBegin(p)
  <2>1. \A s : ~In(s, <<>>)
    BY DEF In
  <2>2. pub' = [pub EXCEPT ![p] = [sent |-> @.sent + 1, todo |-> IF busClosed THEN <<>> ELSE subs]]
    BY Zenon, <1>1 DEF PublishBegin
  <2>3. pub' \in [Publisher -> [sent : Nat, todo : Seq(Sub)]]
    BY <2>2 DEF BusTypes
  <2>4. \A q \in Publisher, s \in Sub : In(s, pub'[q].todo) => In(s, pub[q].todo) \/ In(s, subs)
    BY Zenon, <2>1, <2>2 DEF BusTypes
  <2>5. UNCHANGED <<subs, busClosed, shut, once, unsub, toClose, late, panicked, req, ctl, fwd>>
    BY Zenon, <1>1 DEF PublishBegin
  <2> QED
    BY Zenon, <2>3, <2>4, <2>5 DEF BusTypes, Fresh, ListedIsOpen, AimedIsListed, OnceGuards,
       PanicNeedsLateSubscribe
<1>2. CASE PublishSend(p)
  <2> DEFINE q == pub[p].todo
  <2>1. q \in Seq(Sub) /\ q # <<>>
    BY Zenon, <1>2 DEF PublishSend, BusTypes
  <2>2. Head(q) \notin shut
    BY <2>1, TailIn DEF ListedIsOpen, AimedIsListed
  <2>3. panicked' => panicked
    BY Zenon, <1>2, <2>2 DEF PublishSend
  <2>4. pub' = [pub EXCEPT ![p].todo = Tail(@)]
    BY Zenon, <1>2 DEF PublishSend
  <2>5. pub' \in [Publisher -> [sent : Nat, todo : Seq(Sub)]] /\ pub'[p].todo = Tail(q)
    <3>1. Tail(q) \in Seq(Sub)
      BY <2>1
    <3>2. pub[p] \in [sent : Nat, todo : Seq(Sub)]
      BY Zenon DEF BusTypes
    <3>3. [pub[p] EXCEPT !.todo = Tail(q)] \in [sent : Nat, todo : Seq(Sub)]
      BY Zenon, <3>1, <3>2
    <3>4. pub' = [pub EXCEPT ![p] = [pub[p] EXCEPT !.todo = Tail(q)]]
      BY Zenon, <2>4
    <3> QED
      BY Zenon, <3>2, <3>3, <3>4 DEF BusTypes
  <2>6. \A o \in Publisher, s \in Sub : In(s, pub'[o].todo) => In(s, pub[o].todo)
    BY Zenon, <2>1, <2>4, <2>5, TailIn DEF BusTypes
  <2>7. UNCHANGED <<subs, busClosed, shut, once, unsub, toClose, late, req, ctl, fwd>>
    BY Zenon, <1>2 DEF PublishSend
  <2> QED
    BY Zenon, <2>3, <2>5, <2>6, <2>7 DEF BusTypes, Fresh, ListedIsOpen, AimedIsListed, OnceGuards,
       PanicNeedsLateSubscribe
<1> QED
  BY Zenon, <1>1, <1>2

(* The rest of Unsubscribe: off the list under the lock, then the close.   *)
LEMMA LeaveStep ==
    ASSUME EvInv, NEW s \in Sub, Leave(s)
    PROVE  EvInv'
<1> USE DEF EvInv, Leave, BusStep, fwdVars
<1>1. CASE removeSub(s)
  <2>1. /\ subs' \in Seq(Sub) /\ Distinct(subs') /\ ~In(s, subs')
        /\ \A t \in Sub : In(t, subs') => In(t, subs)
        /\ subs = <<>> => subs' = <<>>
    <3>1. subs \in Seq(Sub) /\ Distinct(subs)
      BY Zenon DEF BusTypes, ListedIsOpen
    <3>2. ASSUME NEW i \in 1..Len(subs), subs[i] = s,
                 subs' = SubSeq(subs, 1, i - 1) \o SubSeq(subs, i + 1, Len(subs))
          PROVE  <2>1
      <4>1. subs # <<>>
        BY <3>1, <3>2
      <4>2. subs' \in Seq(Sub) /\ Distinct(subs') /\ ~In(s, subs')
        BY Zenon, <3>1, <3>2, CutIn
      <4>3. \A t \in Sub : In(t, subs') => In(t, subs)
        BY Zenon, <3>1, <3>2, CutIn
      <4> QED
        BY Zenon, <4>1, <4>2, <4>3
    <3>3. ASSUME \A i \in 1..Len(subs) : subs[i] # s, subs' = subs PROVE <2>1
      BY Zenon, <3>1, <3>3 DEF In
    <3> QED
      BY Zenon, <1>1, <3>2, <3>3 DEF removeSub, Cut
  <2>2. \A p \in Publisher, t \in Sub : ~In(t, pub[p].todo)
    <3>1. \A t : ~In(t, <<>>)
      BY DEF In
    <3> QED
      BY Zenon, <1>1, <3>1 DEF removeSub, Unlocked
  <2>3. /\ unsub[s] = "remove" /\ unsub' = [unsub EXCEPT ![s] = "close"]
        /\ UNCHANGED <<busClosed, shut, once, toClose, pub, late, panicked, req, ctl, fwd>>
    BY Zenon, <1>1 DEF removeSub
  <2>4. BusTypes' /\ Fresh'
    BY Zenon, <2>1, <2>3 DEF BusTypes, Fresh
  <2>5. ListedIsOpen'
    BY Zenon, <2>1, <2>3 DEF BusTypes, ListedIsOpen
  <2>6. AimedIsListed'
    BY Zenon, <2>2, <2>3 DEF AimedIsListed
  <2>7. OnceGuards' /\ PanicNeedsLateSubscribe'
    BY Zenon, <2>3 DEF BusTypes, OnceGuards, PanicNeedsLateSubscribe
  <2> QED
    BY Zenon, <2>4, <2>5, <2>6, <2>7
<1>2. CASE UnsubscribeClose(s)
  <2>1. /\ unsub[s] = "close" /\ unsub' = [unsub EXCEPT ![s] = "done"]
        /\ once' = [once EXCEPT ![s] = "done"]
        /\ shut' = shut \cup {s} /\ panicked' = (panicked \/ s \in shut)
        /\ UNCHANGED <<subs, busClosed, toClose, pub, late, req, ctl, fwd>>
    BY Zenon, <1>2 DEF UnsubscribeClose, CloseChan
  <2>2. once[s] = "running" /\ ~In(s, subs) /\ fwd[s] # "off"
    BY Zenon, <2>1 DEF BusTypes, OnceGuards, ListedIsOpen, Fresh
  <2>3. s \in shut => s \in late
    BY Zenon, <2>2 DEF OnceGuards
  <2>4. BusTypes' /\ Fresh'
    BY Zenon, <2>1, <2>2 DEF BusTypes, Fresh
  <2>5. ListedIsOpen' /\ AimedIsListed'
    BY Zenon, <2>1, <2>2 DEF BusTypes, ListedIsOpen, AimedIsListed
  <2>6. OnceGuards'
    BY Zenon, <2>1, <2>2 DEF BusTypes, OnceGuards
  <2>7. PanicNeedsLateSubscribe'
    BY Zenon, <2>1, <2>3 DEF BusTypes, PanicNeedsLateSubscribe
  <2> QED
    BY Zenon, <2>4, <2>5, <2>6, <2>7
<1> QED
  BY Zenon, <1>1, <1>2

(* Close empties the list under the lock, ...                              *)
LEMMA CloseStep ==
    ASSUME EvInv, ServeReturns
    PROVE  EvInv'
<1> USE DEF EvInv, ServeReturns, BusClose, fwdVars
<1>1. <<>> \in Seq(Sub) /\ Distinct(<<>>) /\ \A t : ~In(t, <<>>)
  BY DEF In, Distinct
<1>2. \A p \in Publisher, t \in Sub : ~In(t, pub'[p].todo)
  BY Zenon, <1>1 DEF Unlocked
<1>3. BusTypes' /\ Fresh'
  BY Zenon, <1>1 DEF BusTypes, Fresh
<1>4. ListedIsOpen' /\ AimedIsListed'
  BY Zenon, <1>1, <1>2 DEF ListedIsOpen, AimedIsListed
<1>5. OnceGuards' /\ PanicNeedsLateSubscribe'
  BY Zenon DEF OnceGuards, ListedIsOpen, PanicNeedsLateSubscribe
<1> QED
  BY Zenon, <1>3, <1>4, <1>5

(* ... and closes what was on it, where nobody has entered the Once.       *)
LEMMA CloseLoopStep ==
    ASSUME EvInv, CloseLoop
    PROVE  EvInv'
<1> USE DEF EvInv, CloseLoop, BusStep, BusCloseNext, fwdVars
<1> DEFINE s == Head(toClose)
<1>1. toClose \in Seq(Sub) /\ toClose # <<>>
  BY Zenon DEF BusTypes
<1>2. /\ s \in Sub /\ In(s, toClose) /\ toClose' \in Seq(Sub)
      /\ \A t \in Sub : In(t, toClose') => In(t, toClose)
  BY <1>1, TailIn
<1>3. s \notin late /\ fwd[s] # "off" /\ once[s] # "running"
  BY Zenon, <1>2 DEF OnceGuards, Fresh
<1>4. /\ once' = [once EXCEPT ![s] = "done"]
      /\ UNCHANGED <<subs, busClosed, unsub, pub, late, req, ctl, fwd>>
      /\ shut' \in {shut, shut \cup {s}} /\ (panicked' => panicked)
  BY Zenon, <1>2, <1>3 DEF CloseChan, BusTypes, OnceGuards
<1> HIDE DEF s
<1>5. BusTypes' /\ Fresh'
  BY <1>2, <1>3, <1>4 DEF BusTypes, Fresh
<1>6. busClosed /\ \A t \in Sub : ~In(t, subs)
  <2>1. \A t : ~In(t, <<>>)
    BY DEF In
  <2> QED
    BY Zenon, <1>1, <2>1 DEF ListedIsOpen
<1>7. ListedIsOpen' /\ AimedIsListed'
  BY SMTT(30), <1>4, <1>6 DEF ListedIsOpen, AimedIsListed
<1>8. OnceGuards'
  BY <1>2, <1>3, <1>4 DEF BusTypes, OnceGuards
<1>9. PanicNeedsLateSubscribe'
  BY Zenon, <1>4 DEF PanicNeedsLateSubscribe
<1> QED
  BY Zenon, <1>5, <1>7, <1>8, <1>9

(* Every step keeps the invariant.                                         *)
LEMMA EvNextHolds == EvInv /\ [EvNext]_evVars => EvInv'
<1> SUFFICES ASSUME EvInv, [EvNext]_evVars PROVE EvInv'
  BY Zenon
<1>1. CASE Stop
  BY Zenon, <1>1 DEF Stop, busVars, fwdVars, EvInv, BusTypes, Fresh, ListedIsOpen, AimedIsListed,
     OnceGuards, PanicNeedsLateSubscribe
<1>2. CASE UNCHANGED evVars
  BY Zenon, <1>2 DEF evVars, busVars, fwdVars, EvInv, BusTypes, Fresh, ListedIsOpen, AimedIsListed,
     OnceGuards, PanicNeedsLateSubscribe
<1>3. ASSUME NEW s \in Sub, Control(s) \/ Forward(s) \/ Leave(s) \/ SendSubscribe(s) \/ Disconnect(s)
      PROVE  EvInv'
  BY Zenon, <1>3, EvClientStep, SubscribeStep, ForwardStep, ReturnStep, LeaveStep DEF Control,
     Forward
<1> QED
  BY Zenon, <1>1, <1>2, <1>3, PublishStep, CloseStep, CloseLoopStep DEF EvNext

(* The bus with its forwarding goroutines closes no channel twice and      *)
(* sends to no closed one, whoever publishes, leaves and closes at once,   *)
(* but for the late subscription that subscribe closes past the Once.      *)
THEOREM PanicCorrect == EvSpec => []PanicNeedsLateSubscribe
<1>1. EvInv => PanicNeedsLateSubscribe
  BY Zenon DEF EvInv
<1> QED
  BY <1>1, EvInitHolds, EvNextHolds, PTL DEF EvSpec

(* A subscription on the list has an open channel, and the list of a       *)
(* closed bus is empty: Publish never meets a channel that Unsubscribe or  *)
(* Close has closed.                                                       *)
THEOREM ListedCorrect == EvSpec => []ListedIsOpen
<1>1. EvInv => ListedIsOpen
  BY Zenon DEF EvInv
<1> QED
  BY <1>1, EvInitHolds, EvNextHolds, PTL DEF EvSpec

-----------------------------------------------------------------------------
(* The order of events.  The sequence of EventsInOrder is taken apart:     *)
(* what was written, what is held and what is queued are each in order,    *)
(* each before the next, and nothing in them is newer than what its        *)
(* publisher has sent.                                                     *)

Event == Publisher \X Nat

Older(d, e) == d[1] = e[1] => d[2] < e[2]

Ordered(q) == \A i, j \in 1..Len(q) : i < j => Older(q[i], q[j])

Before(q, r) == \A i \in 1..Len(q), j \in 1..Len(r) : Older(q[i], r[j])

(* No event of p in q has a number over n.                                 *)
UpTo(q, p, n) == \A i \in 1..Len(q) : q[i][1] = p => q[i][2] <= n

(* The newest event of p that the channel of s can hold: the one that is   *)
(* being published counts once it was offered to s.                        *)
Newest(p, s) == IF In(s, pub[p].todo) THEN pub[p].sent - 1 ELSE pub[p].sent

EventTypes ==
    /\ queue \in [Sub -> Seq(Event)]
    /\ held \in [Sub -> Seq(Event)]
    /\ seen \in [Sub -> Seq(Event)]
    /\ \A p \in Publisher : Distinct(pub[p].todo)

PiecesInOrder ==
    \A s \in Sub :
        /\ Ordered(seen[s]) /\ Ordered(held[s]) /\ Ordered(queue[s])
        /\ Before(seen[s], held[s]) /\ Before(seen[s], queue[s]) /\ Before(held[s], queue[s])

SentIsNewest ==
    \A s \in Sub, p \in Publisher :
        /\ UpTo(seen[s], p, Newest(p, s))
        /\ UpTo(held[s], p, Newest(p, s))
        /\ UpTo(queue[s], p, Newest(p, s))

HeldToWrite == \A s \in Sub : fwd[s] # "write" => held[s] = <<>>

OInv == EvInv /\ EventTypes /\ PiecesInOrder /\ SentIsNewest /\ HeldToWrite

(* Joining two sequences.                                                  *)
LEMMA JoinOrdered ==
    ASSUME NEW a \in Seq(Event), NEW b \in Seq(Event), NEW c \in Seq(Event), NEW p, NEW n
    PROVE  /\ a \o b \in Seq(Event)
           /\ Ordered(a) /\ Ordered(b) /\ Before(a, b) => Ordered(a \o b)
           /\ Before(a, c) /\ Before(b, c) => Before(a \o b, c)
           /\ Before(c, a) /\ Before(c, b) => Before(c, a \o b)
           /\ UpTo(a, p, n) /\ UpTo(b, p, n) => UpTo(a \o b, p, n)
<1> DEFINE r == a \o b
<1>1. /\ r \in Seq(Event) /\ Len(r) = Len(a) + Len(b)
      /\ \A i \in 1..(Len(a) + Len(b)) : r[i] = IF i <= Len(a) THEN a[i] ELSE b[i - Len(a)]
  BY ConcatProperties, Zenon
<1>2. Len(a) \in Nat /\ Len(b) \in Nat
  OBVIOUS
<1> HIDE DEF r
<1>3. \A i \in 1..Len(r) :
         \/ i \in 1..Len(a) /\ r[i] = a[i]
         \/ i > Len(a) /\ i - Len(a) \in 1..Len(b) /\ r[i] = b[i - Len(a)]
  BY <1>1, <1>2
<1>4. Ordered(a) /\ Ordered(b) /\ Before(a, b) => Ordered(r)
  <2> SUFFICES ASSUME Ordered(a), Ordered(b), Before(a, b),
                      NEW i \in 1..Len(r), NEW j \in 1..Len(r), i < j
               PROVE  Older(r[i], r[j])
    BY Zenon DEF Ordered
  <2>1. CASE i \in 1..Len(a) /\ j \in 1..Len(a)
    BY SMTT(30), <1>2, <1>3, <2>1 DEF Ordered
  <2>2. CASE i \in 1..Len(a) /\ j > Len(a)
    BY <1>2, <1>3, <2>2 DEF Before
  <2>3. CASE i > Len(a) /\ j > Len(a)
    <3>1. /\ i - Len(a) \in 1..Len(b) /\ j - Len(a) \in 1..Len(b) /\ i - Len(a) < j - Len(a)
          /\ r[i] = b[i - Len(a)] /\ r[j] = b[j - Len(a)]
      BY <1>1, <1>2, <1>3, <2>3
    <3> QED
      BY Zenon, <3>1 DEF Ordered
  <2> QED
    BY <1>1, <1>2, <2>1, <2>2, <2>3
<1>5. /\ Before(a, c) /\ Before(b, c) => Before(r, c)
      /\ Before(c, a) /\ Before(c, b) => Before(c, r)
  BY Zenon, <1>3 DEF Before
<1>6. UpTo(a, p, n) /\ UpTo(b, p, n) => UpTo(r, p, n)
  BY Zenon, <1>3 DEF UpTo
<1> QED
  BY Zenon, <1>1, <1>4, <1>5, <1>6 DEF r

(* An event at the end of a sequence.                                      *)
LEMMA OneOrdered ==
    ASSUME NEW e \in Event, NEW a \in Seq(Event), NEW p, NEW n
    PROVE  /\ <<e>> \in Seq(Event) /\ Ordered(<<e>>)
           /\ (\A i \in 1..Len(a) : Older(a[i], e)) => Before(a, <<e>>)
           /\ (\A i \in 1..Len(a) : Older(e, a[i])) => Before(<<e>>, a)
           /\ (e[1] = p => e[2] <= n) => UpTo(<<e>>, p, n)
<1>1. <<e>> \in Seq(Event) /\ Len(<<e>>) = 1 /\ <<e>>[1] = e
  OBVIOUS
<1>2. \A i \in 1..1 : i = 1
  OBVIOUS
<1> QED
  BY <1>1, <1>2 DEF Ordered, Before, UpTo

(* Taking the head of a queue.                                             *)
LEMMA TailOrdered ==
    ASSUME NEW q \in Seq(Event), q # <<>>, NEW a \in Seq(Event), NEW p, NEW n
    PROVE  /\ Head(q) \in Event /\ Tail(q) \in Seq(Event) /\ q = <<Head(q)>> \o Tail(q)
           /\ Ordered(q) => Ordered(Tail(q)) /\ Before(<<Head(q)>>, Tail(q))
           /\ Before(a, q) => Before(a, Tail(q)) /\ Before(a, <<Head(q)>>)
           /\ UpTo(q, p, n) => UpTo(Tail(q), p, n) /\ UpTo(<<Head(q)>>, p, n)
<1>1. /\ Head(q) \in Event /\ Tail(q) \in Seq(Event) /\ Len(q) \in Nat \ {0}
      /\ Len(Tail(q)) = Len(q) - 1 /\ Head(q) = q[1]
  OBVIOUS
<1>2. \A i \in 1..Len(Tail(q)) : Tail(q)[i] = q[i + 1] /\ i + 1 \in 1..Len(q) /\ 1 < i + 1
  BY <1>1
<1>3. q = <<Head(q)>> \o Tail(q)
  BY <1>1
<1>4. 1 \in 1..Len(q) /\ Len(<<Head(q)>>) = 1 /\ \A i \in 1..1 : <<Head(q)>>[i] = q[1]
  BY <1>1
<1>5. ASSUME Ordered(q) PROVE Ordered(Tail(q)) /\ Before(<<Head(q)>>, Tail(q))
  <2>1. \A i, j \in 1..Len(Tail(q)) : i < j => i + 1 < j + 1
    BY <1>1
  <2> QED
    BY Zenon, <1>2, <1>4, <1>5, <2>1 DEF Ordered, Before
<1>6. Before(a, q) => Before(a, Tail(q)) /\ Before(a, <<Head(q)>>)
  BY Zenon, <1>2, <1>4 DEF Before
<1>7. UpTo(q, p, n) => UpTo(Tail(q), p, n) /\ UpTo(<<Head(q)>>, p, n)
  BY Zenon, <1>2, <1>4 DEF UpTo
<1> QED
  BY Zenon, <1>1, <1>3, <1>5, <1>6, <1>7

-----------------------------------------------------------------------------
(* At first there are no events.                                           *)
LEMMA OrderInit == EvInit => OInv
<1> SUFFICES ASSUME EvInit PROVE OInv
  BY Zenon
<1>1. EvInv
  BY Zenon, EvInitHolds
<1>2. /\ <<>> \in Seq(Event) /\ Len(<<>>) = 0 /\ 1..0 = {}
  OBVIOUS
<1>3. EventTypes /\ HeldToWrite
  BY Zenon, <1>2 DEF EvInit, BusInit, EventTypes, HeldToWrite, Distinct
<1>4. PiecesInOrder /\ SentIsNewest
  BY Zenon, <1>2 DEF EvInit, BusInit, PiecesInOrder, SentIsNewest, Ordered, Before, UpTo
<1> QED
  BY Zenon, <1>1, <1>3, <1>4 DEF OInv

(* A step that moves no event.                                             *)
LEMMA OrderFrame ==
    ASSUME OInv, EvInv', HeldToWrite', UNCHANGED <<queue, held, seen, pub>>
    PROVE  OInv'
BY Zenon DEF OInv, EventTypes, PiecesInOrder, SentIsNewest, Newest

(* Steps that move no event.                                               *)
LEMMA OrderQuiet ==
    ASSUME OInv, EvInv',
           \/ Stop \/ ServeReturns \/ CloseLoop \/ UNCHANGED evVars
           \/ \E s \in Sub : \/ Control(s) \/ Leave(s) \/ SendSubscribe(s) \/ Disconnect(s)
                             \/ FwdExhausted(s) \/ FwdReturn(s)
    PROVE  OInv'
<1>1. UNCHANGED <<queue, held, seen, pub>>
  BY Zenon DEF Stop, ServeReturns, BusClose, CloseLoop, BusStep, BusCloseNext, evVars,
     busVars, fwdVars, Control, ReadFrame, ReadEnds, handleSubscribe, CtlStep, Subscribe,
     Leave, removeSub, UnsubscribeClose, SendSubscribe, Disconnect, FwdExhausted, FwdReturn,
     FwdStep, Unsubscribe
<1>2. fwd \in [Sub -> {"off", "receive", "write", "return", "done"}] /\ HeldToWrite /\ Fresh
  BY Zenon DEF OInv, EvInv, BusTypes
<1>3. \A s \in Sub : fwd'[s] # "write" => fwd[s] # "write"
  BY Zenon, <1>2 DEF Stop, ServeReturns, CloseLoop, BusStep, evVars, fwdVars, Fresh,
     Control, ReadFrame, ReadEnds, handleSubscribe, CtlStep, Leave,
     SendSubscribe, Disconnect, FwdExhausted, FwdReturn, FwdStep
<1> QED
  BY Zenon, <1>1, <1>2, <1>3, OrderFrame DEF HeldToWrite

(* A step of the forwarding goroutine of s moves events of s only.         *)
LEMMA OrderMove ==
    ASSUME OInv, EvInv', NEW s \in Sub, UNCHANGED pub, HeldToWrite', EventTypes',
           \A t \in Sub \ {s} : /\ queue'[t] = queue[t]
                                /\ held'[t] = held[t]
                                /\ seen'[t] = seen[t],
           Ordered(seen'[s]), Ordered(held'[s]), Ordered(queue'[s]),
           Before(seen'[s], held'[s]), Before(seen'[s], queue'[s]), Before(held'[s], queue'[s]),
           \A p \in Publisher : /\ UpTo(seen'[s], p, Newest(p, s))
                                /\ UpTo(held'[s], p, Newest(p, s))
                                /\ UpTo(queue'[s], p, Newest(p, s))
    PROVE  OInv'
<1>1. PiecesInOrder'
  BY Zenon DEF OInv, PiecesInOrder
<1>2. \A p \in Publisher, t \in Sub : Newest(p, t)' = Newest(p, t)
  BY Zenon DEF Newest
<1>3. SentIsNewest'
  BY Zenon, <1>2 DEF OInv, SentIsNewest
<1> QED
  BY Zenon, <1>1, <1>3 DEF OInv

(* Nothing is in order with anything.                                      *)
LEMMA NoneOrdered ==
    ASSUME NEW a \in Seq(Event), NEW p, NEW n
    PROVE  /\ <<>> \in Seq(Event) /\ Ordered(<<>>) /\ UpTo(<<>>, p, n)
           /\ Before(<<>>, a) /\ Before(a, <<>>)
<1>1. <<>> \in Seq(Event) /\ Len(<<>>) = 0 /\ 1..0 = {}
  OBVIOUS
<1> QED
  BY Zenon, <1>1 DEF Ordered, UpTo, Before

(* The forwarding goroutine takes an event from the channel and writes it. *)
LEMMA OrderForward ==
    ASSUME OInv, EvInv', NEW s \in Sub,
           FwdSkip(s) \/ FwdReceive(s) \/ FwdWrite(s) \/ FwdWriteFails(s)
    PROVE  OInv'
<1> DEFINE w == seen[s]  h == held[s]  q == queue[s]
<1>1. /\ queue \in [Sub -> Seq(Event)] /\ held \in [Sub -> Seq(Event)] /\ seen \in [Sub -> Seq(Event)]
      /\ w \in Seq(Event) /\ h \in Seq(Event) /\ q \in Seq(Event)
      /\ \A p \in Publisher : Distinct(pub[p].todo)
  BY Zenon DEF OInv, EventTypes
<1>2. /\ Ordered(w) /\ Ordered(h) /\ Ordered(q)
      /\ Before(w, h) /\ Before(w, q) /\ Before(h, q)
  BY Zenon DEF OInv, PiecesInOrder
<1>3. \A p \in Publisher : UpTo(w, p, Newest(p, s)) /\ UpTo(h, p, Newest(p, s)) /\ UpTo(q, p, Newest(p, s))
  BY Zenon DEF OInv, SentIsNewest
<1>4. UNCHANGED pub
  BY Zenon DEF FwdSkip, FwdReceive, FwdWrite, FwdWriteFails, Receive, busVars
<1>5. fwd \in [Sub -> {"off", "receive", "write", "return", "done"}] /\ HeldToWrite
  BY Zenon DEF OInv, EvInv, BusTypes
<1>6. ASSUME NEW a \in Seq(Event), NEW b \in Seq(Event), NEW c \in Seq(Event),
             seen' = [seen EXCEPT ![s] = a], held' = [held EXCEPT ![s] = b],
             queue' = [queue EXCEPT ![s] = c], HeldToWrite',
             Ordered(a), Ordered(b), Ordered(c), Before(a, b), Before(a, c), Before(b, c),
             \A p \in Publisher : UpTo(a, p, Newest(p, s)) /\ UpTo(b, p, Newest(p, s)) /\ UpTo(c, p, Newest(p, s))
      PROVE  OInv'
  <2>1. seen'[s] = a /\ held'[s] = b /\ queue'[s] = c
    BY Zenon, <1>1, <1>6
  <2>2. \A t \in Sub \ {s} : queue'[t] = queue[t] /\ held'[t] = held[t] /\ seen'[t] = seen[t]
    BY Zenon, <1>1, <1>6
  <2>3. EventTypes'
    BY Zenon, <1>1, <1>4, <1>6 DEF EventTypes
  <2> QED
    BY Zenon, <1>4, <1>6, <2>1, <2>2, <2>3, OrderMove
<1>7. seen = [seen EXCEPT ![s] = w] /\ held = [held EXCEPT ![s] = h] /\ queue = [queue EXCEPT ![s] = q]
  BY Zenon, <1>1
<1>8. CASE FwdSkip(s)
  <2>1. q # <<>> /\ queue' = [queue EXCEPT ![s] = Tail(q)] /\ UNCHANGED <<held, seen>>
    BY Zenon, <1>8 DEF FwdSkip, Receive
  <2>2. HeldToWrite'
    BY Zenon, <1>5, <1>8 DEF HeldToWrite, FwdSkip, FwdStep
  <2>3. /\ Tail(q) \in Seq(Event) /\ Ordered(Tail(q)) /\ Before(w, Tail(q)) /\ Before(h, Tail(q))
        /\ \A p \in Publisher : UpTo(Tail(q), p, Newest(p, s))
    BY Zenon, <1>1, <1>2, <1>3, <2>1, TailOrdered
  <2> HIDE DEF w, h, q
  <2> QED
    BY Zenon, <1>1, <1>2, <1>3, <1>6, <1>7, <2>1, <2>2, <2>3
<1>9. CASE FwdReceive(s)
  <2>1. /\ q # <<>> /\ queue' = [queue EXCEPT ![s] = Tail(q)] /\ UNCHANGED seen
        /\ held' = [held EXCEPT ![s] = <<Head(q)>>]
    BY Zenon, <1>9 DEF FwdReceive, Receive
  <2>2. HeldToWrite'
    BY Zenon, <1>1, <1>5, <1>9 DEF HeldToWrite, FwdReceive, FwdStep
  <2>3. /\ Head(q) \in Event /\ Tail(q) \in Seq(Event) /\ Ordered(Tail(q)) /\ Before(w, Tail(q))
        /\ Before(w, <<Head(q)>>) /\ Before(<<Head(q)>>, Tail(q))
        /\ \A p \in Publisher : UpTo(Tail(q), p, Newest(p, s)) /\ UpTo(<<Head(q)>>, p, Newest(p, s))
    BY Zenon, <1>1, <1>2, <1>3, <2>1, TailOrdered
  <2>4. <<Head(q)>> \in Seq(Event) /\ Ordered(<<Head(q)>>)
    BY Zenon, <1>1, <2>3, OneOrdered
  <2> HIDE DEF w, h, q
  <2> QED
    BY Zenon, <1>1, <1>2, <1>3, <1>6, <1>7, <2>1, <2>2, <2>3, <2>4
<1>10. CASE FwdWrite(s)
  <2>1. /\ seen' = [seen EXCEPT ![s] = w \o h] /\ held' = [held EXCEPT ![s] = <<>>]
        /\ UNCHANGED queue
    BY Zenon, <1>10 DEF FwdWrite, busVars
  <2>2. HeldToWrite'
    BY Zenon, <1>1, <1>5, <1>10 DEF HeldToWrite, FwdWrite, FwdStep
  <2>3. /\ w \o h \in Seq(Event) /\ Ordered(w \o h) /\ Before(w \o h, q)
        /\ \A p \in Publisher : UpTo(w \o h, p, Newest(p, s))
    <3> HIDE DEF w, h, q
    <3> QED
      BY <1>1, <1>2, <1>3, JoinOrdered, Zenon
  <2>4. /\ <<>> \in Seq(Event) /\ Ordered(<<>>) /\ Before(w \o h, <<>>) /\ Before(<<>>, q)
        /\ \A p \in Publisher : UpTo(<<>>, p, Newest(p, s))
    <3> HIDE DEF w, h, q
    <3> QED
      BY <1>1, <2>3, NoneOrdered, Zenon
  <2> HIDE DEF w, h, q
  <2> QED
    BY <1>1, <1>2, <1>3, <1>6, <1>7, <2>1, <2>2, <2>3, <2>4, Zenon
<1>11. CASE FwdWriteFails(s)
  <2>1. held' = [held EXCEPT ![s] = <<>>] /\ UNCHANGED <<queue, seen>>
    BY Zenon, <1>11 DEF FwdWriteFails, busVars
  <2>2. HeldToWrite'
    BY Zenon, <1>1, <1>5, <1>11 DEF HeldToWrite, FwdWriteFails, FwdStep
  <2>3. /\ <<>> \in Seq(Event) /\ Ordered(<<>>) /\ Before(w, <<>>) /\ Before(<<>>, q)
        /\ \A p \in Publisher : UpTo(<<>>, p, Newest(p, s))
    BY Zenon, <1>1, NoneOrdered
  <2> HIDE DEF w, h, q
  <2> QED
    BY Zenon, <1>1, <1>2, <1>3, <1>6, <1>7, <2>1, <2>2, <2>3
<1> QED
  BY Zenon, <1>8, <1>9, <1>10, <1>11

(* The rest of a list without repetitions lacks its head.                  *)
LEMMA TailDistinct ==
    ASSUME NEW q \in Seq(Sub), q # <<>>, Distinct(q)
    PROVE  /\ Head(q) \in Sub /\ Tail(q) \in Seq(Sub)
           /\ Distinct(Tail(q)) /\ ~In(Head(q), Tail(q)) /\ In(Head(q), q)
           /\ \A t : t # Head(q) => (In(t, Tail(q)) <=> In(t, q))
<1>1. /\ Head(q) \in Sub /\ Tail(q) \in Seq(Sub) /\ Len(q) \in Nat \ {0}
      /\ Len(Tail(q)) = Len(q) - 1 /\ Head(q) = q[1]
  OBVIOUS
<1>2. \A i \in 1..Len(Tail(q)) : Tail(q)[i] = q[i + 1] /\ i + 1 \in 1..Len(q) /\ i + 1 # 1
  BY <1>1
<1>3. 1 \in 1..Len(q) /\ \A i \in 1..Len(q) : i = 1 \/ (i - 1 \in 1..Len(Tail(q)) /\ (i - 1) + 1 = i)
  BY <1>1
<1>4. \A i, j \in 1..Len(Tail(q)) : i + 1 = j + 1 => i = j
  BY <1>1
<1>5. Distinct(Tail(q))
  BY Zenon, <1>2, <1>4 DEF Distinct
<1>6. ~In(Head(q), Tail(q)) /\ In(Head(q), q)
  BY <1>1, <1>2, <1>3 DEF Distinct, In
<1>7. ASSUME NEW t, t # Head(q) PROVE In(t, Tail(q)) <=> In(t, q)
  BY SMTT(30), <1>1, <1>2, <1>3, <1>7 DEF In
<1> QED
  BY Zenon, <1>1, <1>5, <1>6, <1>7

(* Publish takes the next number and copies the list.                      *)
LEMMA OrderBegin ==
    ASSUME OInv, EvInv', NEW p \in Publisher, BusStep(PublishBegin(p))
    PROVE  OInv'
<1>1. /\ pub \in [Publisher -> [sent : Nat, todo : Seq(Sub)]] /\ Distinct(subs)
      /\ Distinct(<<>>)
  BY DEF OInv, EvInv, BusTypes, ListedIsOpen, Distinct
<1>2. /\ UNCHANGED <<queue, held, seen, fwd>> /\ pub[p].todo = <<>>
      /\ pub' = [pub EXCEPT ![p] = [sent |-> pub[p].sent + 1, todo |-> IF busClosed THEN <<>> ELSE subs]]
  BY Zenon DEF BusStep, PublishBegin, fwdVars
<1>3. HeldToWrite' /\ PiecesInOrder'
  BY Zenon, <1>2 DEF OInv, HeldToWrite, PiecesInOrder
<1>4. pub'[p].sent = pub[p].sent + 1 /\ Distinct(pub'[p].todo) /\ \A o \in Publisher \ {p} : pub'[o] = pub[o]
  BY Zenon, <1>1, <1>2
<1>5. EventTypes'
  BY Zenon, <1>2, <1>4 DEF OInv, EventTypes
<1>6. ASSUME NEW s \in Sub, NEW o \in Publisher
      PROVE  Newest(o, s) \in Int /\ Newest(o, s)' \in Int /\ Newest(o, s) <= Newest(o, s)'
  <2>1. CASE o # p
    BY SMTT(30), <1>1, <1>4, <2>1 DEF Newest
  <2>2. CASE o = p
    <3>1. ~In(s, pub[p].todo) /\ pub[p].sent \in Nat
      BY <1>1, <1>2 DEF In
    <3> QED
      BY <1>4, <2>2, <3>1 DEF Newest
  <2> QED
    BY Zenon, <2>1, <2>2
<1>7. ASSUME NEW a \in Seq(Event), NEW o, NEW m \in Int, NEW n \in Int, m <= n, UpTo(a, o, m)
      PROVE  UpTo(a, o, n)
  <2>1. \A i \in 1..Len(a) : a[i][2] \in Nat
    BY DEF Event
  <2> QED
    BY <1>7, <2>1 DEF UpTo
<1>8. SentIsNewest'
  <2> SUFFICES ASSUME NEW s \in Sub, NEW o \in Publisher
               PROVE  /\ UpTo(seen[s], o, Newest(o, s)')
                      /\ UpTo(held[s], o, Newest(o, s)')
                      /\ UpTo(queue[s], o, Newest(o, s)')
    BY Zenon, <1>2 DEF SentIsNewest
  <2>1. seen[s] \in Seq(Event) /\ held[s] \in Seq(Event) /\ queue[s] \in Seq(Event)
    BY Zenon DEF OInv, EventTypes
  <2>2. UpTo(seen[s], o, Newest(o, s)) /\ UpTo(held[s], o, Newest(o, s)) /\ UpTo(queue[s], o, Newest(o, s))
    BY Zenon DEF OInv, SentIsNewest
  <2> QED
    BY Zenon, <1>6, <1>7, <2>1, <2>2
<1> QED
  BY Zenon, <1>3, <1>5, <1>8 DEF OInv

(* Publish offers its event to one channel, which drops it when full.      *)
LEMMA OrderSend ==
    ASSUME OInv, EvInv', NEW p \in Publisher, BusStep(PublishSend(p))
    PROVE  OInv'
<1>a. /\ pub \in [Publisher -> [sent : Nat, todo : Seq(Sub)]] /\ pub[p].todo # <<>>
  BY Zenon DEF OInv, EvInv, BusTypes, BusStep, PublishSend
<1>b. PICK n \in Nat : n = pub[p].sent
  BY Zenon, <1>a
<1>c. PICK todo \in Seq(Sub) : todo = pub[p].todo
  BY Zenon, <1>a
<1>d. PICK s \in Sub : s = Head(todo)
  BY <1>a, <1>c
<1> DEFINE e == <<p, n>>
<1>1. /\ pub \in [Publisher -> [sent : Nat, todo : Seq(Sub)]]
      /\ todo \in Seq(Sub) /\ n \in Nat /\ Distinct(todo) /\ e \in Event
      /\ queue \in [Sub -> Seq(Event)] /\ held \in [Sub -> Seq(Event)] /\ seen \in [Sub -> Seq(Event)]
  BY Zenon, <1>c DEF OInv, EvInv, BusTypes, EventTypes, Event
<1>2. /\ UNCHANGED <<held, seen, fwd>> /\ todo # <<>>
      /\ queue' = IF Len(queue[s]) < SubCap THEN [queue EXCEPT ![s] = Append(queue[s], e)] ELSE queue
      /\ pub' = [pub EXCEPT ![p].todo = Tail(todo)]
  BY Zenon, <1>b, <1>c, <1>d DEF BusStep, PublishSend, fwdVars
<1>3. /\ s \in Sub /\ Tail(todo) \in Seq(Sub) /\ Distinct(Tail(todo))
      /\ ~In(s, Tail(todo)) /\ In(s, todo)
      /\ \A t : t # s => (In(t, Tail(todo)) <=> In(t, todo))
  BY Zenon, <1>1, <1>2, <1>d, TailDistinct
<1>4. pub'[p].sent = n /\ pub'[p].todo = Tail(todo) /\ \A o \in Publisher \ {p} : pub'[o] = pub[o]
  BY Zenon, <1>1, <1>2, <1>b
<1>5. HeldToWrite'
  BY Zenon, <1>2 DEF OInv, HeldToWrite
<1>6. Newest(p, s) = n - 1 /\ Newest(p, s)' = n
  BY Zenon, <1>3, <1>4, <1>b, <1>c DEF Newest
<1>7. \A t \in Sub, o \in Publisher : t # s \/ o # p => Newest(o, t)' = Newest(o, t)
  BY Zenon, <1>3, <1>4, <1>b, <1>c DEF Newest
<1>8. ASSUME NEW a \in Seq(Event), UpTo(a, p, n - 1)
      PROVE  (\A i \in 1..Len(a) : Older(a[i], e)) /\ UpTo(a, p, n)
  <2>1. \A i \in 1..Len(a) : a[i][2] \in Nat
    BY DEF Event
  <2>2. \A i \in 1..Len(a) : a[i][1] = p => a[i][2] < n /\ a[i][2] <= n
    BY <1>8, <2>1 DEF UpTo
  <2>3. e[1] = p /\ e[2] = n
    BY Zenon
  <2> HIDE DEF e
  <2> QED
    BY Zenon, <2>2, <2>3 DEF UpTo, Older
<1>9. /\ UpTo(seen[s], p, n - 1) /\ UpTo(held[s], p, n - 1) /\ UpTo(queue[s], p, n - 1)
      /\ seen[s] \in Seq(Event) /\ held[s] \in Seq(Event) /\ queue[s] \in Seq(Event)
  BY Zenon, <1>1, <1>3, <1>6 DEF OInv, SentIsNewest
<1>10. /\ <<e>> \in Seq(Event) /\ Ordered(<<e>>) /\ Before(queue[s], <<e>>)
       /\ Before(seen[s], <<e>>) /\ Before(held[s], <<e>>)
       /\ UpTo(<<e>>, p, n)
  <2> HIDE DEF e
  <2>1. e[1] = p /\ e[2] = n
    BY Zenon DEF e
  <2>2. e[1] = p => e[2] <= n
    BY <2>1
  <2>3. /\ \A i \in 1..Len(queue[s]) : Older(queue[s][i], e)
        /\ \A i \in 1..Len(seen[s]) : Older(seen[s][i], e)
        /\ \A i \in 1..Len(held[s]) : Older(held[s][i], e)
    BY Zenon, <1>8, <1>9
  <2> QED
    BY Zenon, <1>1, <1>9, <2>2, <2>3, OneOrdered
<1>11. \A o \in Publisher : o # p => \A m : UpTo(<<e>>, o, m)
  <2>1. \A i \in 1..1 : <<e>>[i][1] = p
    OBVIOUS
  <2> QED
    BY Zenon, <2>1 DEF UpTo
<1>12. queue'[s] \in {queue[s], queue[s] \o <<e>>} /\ \A t \in Sub \ {s} : queue'[t] = queue[t]
  <2>1. Append(queue[s], e) = queue[s] \o <<e>>
    <3> HIDE DEF e
    <3> QED
      BY <1>1, <1>9
  <2> QED
    BY Zenon, <1>1, <1>2, <1>3, <2>1
<1>13. ASSUME NEW q \in {queue[s], queue[s] \o <<e>>}
       PROVE  /\ q \in Seq(Event) /\ Ordered(q) /\ Before(seen[s], q) /\ Before(held[s], q)
              /\ UpTo(q, p, n) /\ \A o \in Publisher : o # p => UpTo(q, o, Newest(o, s))
  <2>1. /\ Ordered(queue[s]) /\ Before(seen[s], queue[s]) /\ Before(held[s], queue[s])
        /\ UpTo(queue[s], p, n) /\ \A o \in Publisher : UpTo(queue[s], o, Newest(o, s))
    BY Zenon, <1>3, <1>8, <1>9 DEF OInv, PiecesInOrder, SentIsNewest
  <2>3. CASE q = queue[s]
    BY Zenon, <1>9, <2>1, <2>3
  <2>4. CASE q = queue[s] \o <<e>>
    <3> HIDE DEF e
    <3> QED
      BY <1>9, <1>10, <1>11, <2>1, <2>4, JoinOrdered, Zenon
  <2> QED
    BY Zenon, <2>3, <2>4
<1>14. EventTypes'
  <2>1. queue' \in [Sub -> Seq(Event)]
    BY SMTT(30), <1>1, <1>2, <1>3, <1>9
  <2>2. \A o \in Publisher : Distinct(pub'[o].todo)
    BY Zenon, <1>3, <1>4 DEF OInv, EventTypes
  <2> QED
    BY Zenon, <1>1, <1>2, <2>1, <2>2 DEF EventTypes
<1>15. PiecesInOrder'
  BY Zenon, <1>2, <1>12, <1>13 DEF OInv, PiecesInOrder
<1>16. SentIsNewest'
  <2> SUFFICES ASSUME NEW t \in Sub, NEW o \in Publisher
               PROVE  /\ UpTo(seen[t], o, Newest(o, t)')
                      /\ UpTo(held[t], o, Newest(o, t)')
                      /\ UpTo(queue'[t], o, Newest(o, t)')
    BY Zenon, <1>2 DEF SentIsNewest
  <2>1. UpTo(seen[t], o, Newest(o, t)) /\ UpTo(held[t], o, Newest(o, t)) /\ UpTo(queue[t], o, Newest(o, t))
    BY Zenon DEF OInv, SentIsNewest
  <2>2. CASE t # s
    BY Zenon, <1>7, <1>12, <2>1, <2>2
  <2>3. CASE t = s /\ o # p
    BY Zenon, <1>7, <1>12, <1>13, <2>1, <2>3
  <2>4. CASE t = s /\ o = p
    BY Zenon, <1>6, <1>8, <1>9, <1>12, <1>13, <2>4
  <2> QED
    BY Zenon, <2>2, <2>3, <2>4
<1> QED
  BY Zenon, <1>5, <1>14, <1>15, <1>16 DEF OInv

(* Every step keeps the order.                                             *)
LEMMA OrderNext == OInv /\ [EvNext]_evVars => OInv'
<1> SUFFICES ASSUME OInv, [EvNext]_evVars PROVE OInv'
  BY Zenon
<1>1. EvInv'
  BY Zenon, EvNextHolds DEF OInv
<1> QED
  BY Zenon, <1>1, OrderQuiet, OrderForward, OrderBegin, OrderSend DEF EvNext, Publish,
     BusStep, Forward

(* A client is sent the events of each publisher in the order they were    *)
(* published and none twice, whatever the bus drops, whoever publishes     *)
(* beside it, and whenever the bus is closed.                              *)
THEOREM OrderCorrect == EvSpec => []EventsInOrder
<1>1. OInv => EventsInOrder
  <2> SUFFICES ASSUME OInv, NEW s \in Sub
               PROVE  Ordered(seen[s] \o (held[s] \o queue[s]))
    BY Zenon DEF EventsInOrder, Ordered, Older
  <2>1. /\ seen[s] \in Seq(Event) /\ held[s] \in Seq(Event) /\ queue[s] \in Seq(Event)
        /\ Ordered(seen[s]) /\ Ordered(held[s]) /\ Ordered(queue[s])
        /\ Before(seen[s], held[s]) /\ Before(seen[s], queue[s]) /\ Before(held[s], queue[s])
    BY Zenon DEF OInv, EventTypes, PiecesInOrder
  <2>2. /\ held[s] \o queue[s] \in Seq(Event) /\ Ordered(held[s] \o queue[s])
        /\ Before(seen[s], held[s] \o queue[s])
    BY <2>1, JoinOrdered, Zenon
  <2> QED
    BY <2>1, <2>2, JoinOrdered, Zenon
<1> QED
  BY <1>1, OrderInit, OrderNext, PTL DEF EvSpec

-----------------------------------------------------------------------------
(* Transport: the handshake.                                               *)

Connection ==
    [cli: BOOLEAN, srv: BOOLEAN, auth: BOOLEAN, first: {"none", "ok", "error", "data"}]

HandState == {"none", "accept", "auth", "register", "reply", "callback", "serve", "done"}

NetTypeOK ==
    /\ step \in [Client -> {"start", "control", "dialStream", "stream",
                            "connected", "failed", "gone"}]
    /\ conn \in [Client -> [Channel -> Connection]]
    /\ hand \in [Client -> [Channel -> HandState]]
    /\ clients \subseteq Client /\ stream \subseteq Client
    /\ closed \in BOOLEAN /\ listening \in BOOLEAN
    /\ toDrop \subseteq past.kicked /\ closing \subseteq past.kicked
    /\ cast \in Client \cup {NoClient}
    /\ past \in [kicked: SUBSET Client, forgotten: SUBSET Client,
                 expired: SUBSET Client, swept: BOOLEAN]

(* What may keep a client from connecting.                                 *)
Excused(k) ==
    \/ k \in BadToken \/ ~checkAutomationMode(k) \/ closed
    \/ k \in past.expired \cup past.forgotten \cup past.kicked

(* How far the two sides of a client's handshake are together.             *)
Paired(k) ==
    /\ step[k] = "start" => hand[k]["control"] = "none"
    /\ step[k] \in {"start", "control", "dialStream"} => hand[k]["stream"] = "none"
    /\ step[k] \in {"control", "dialStream", "stream", "connected"} => conn[k]["control"].cli
    /\ step[k] \in {"stream", "connected"} => conn[k]["stream"].cli
    /\ conn[k]["control"].first = "ok" => hand[k]["control"] \in {"callback", "serve"}
    /\ hand[k]["stream"] \in {"none", "accept", "auth", "register"} => k \notin stream
    /\ cast = k /\ cast # NoClient => step[k] \in {"connected", "gone", "failed"}

(* A client with no excuse that waits for a reply has an open connection   *)
(* with no refusal on it, and once entered it stays entered.               *)
Welcome(k) ==
    ~Excused(k) =>
        /\ hand[k]["control"] \in {"reply", "callback", "serve"} => k \in clients
        /\ step[k] \in {"dialStream", "stream"} => hand[k]["control"] \in {"callback", "serve"}
        /\ \A c \in Channel : step[k] = c =>
              conn[k][c].srv /\ conn[k][c].first \in {"none", "ok"}

Sound(k) ==
    /\ Paired(k) /\ Welcome(k)
    /\ step[k] = "failed" => Excused(k)

NetInv ==
    /\ NetTypeOK
    /\ ~listening => closed
    /\ \A k \in Client : Sound(k)

(* No client has started: the invariant holds.                             *)
LEMMA NetInitHolds == NetInit => NetInv
  <1> SUFFICES ASSUME NetInit PROVE NetInv
    BY Zenon
  <1>1. NoConn \in Connection /\ NoConn.first = "none"
    BY Zenon DEF NoConn, Connection
  <1>2. NetTypeOK
    BY Zenon, <1>1 DEF NetInit, NetTypeOK, NoPast, Channel, HandState
  <1>3. ASSUME NEW k \in Client PROVE Sound(k)
    <2>1. /\ step[k] = "start" /\ hand[k]["control"] = "none" /\ hand[k]["stream"] = "none"
          /\ conn[k]["control"].first = "none"
      BY Zenon, <1>1 DEF NetInit, Channel
    <2> QED
      BY Zenon, <2>1 DEF NetInit, Sound, Paired, Welcome, Channel
  <1> QED
    BY Zenon, <1>2, <1>3 DEF NetInit, NetInv

(* Connection c of client k becomes r, and no other one changes.           *)
Sets(k, c, r) ==
    /\ conn' \in [Client -> [Channel -> Connection]]
    /\ conn'[k][c] = r
    /\ \A j \in Client, d \in Channel : ~(j = k /\ d = c) => conn'[j][d] = conn[j][d]

(* One entry of the table of connections is replaced.                      *)
LEMMA SetsField ==
    ASSUME NetTypeOK, NEW k \in Client, NEW c \in Channel, NEW r \in Connection,
           conn' = [conn EXCEPT ![k][c] = r]
    PROVE  Sets(k, c, r)
  BY Zenon DEF NetTypeOK, Sets, Channel

(* The same for the table of goroutines.                                   *)
LEMMA HandSets ==
    ASSUME NetTypeOK, NEW k \in Client, NEW c \in Channel,
           NEW s \in HandState,
           HandGoto(k, c, s)
    PROVE  /\ hand' \in [Client -> [Channel -> HandState]]
           /\ hand'[k][c] = s
           /\ \A j \in Client, d \in Channel : ~(j = k /\ d = c) => hand'[j][d] = hand[j][d]
  BY Zenon DEF NetTypeOK, HandGoto, Channel, HandState

(* Reject closes the daemon's end, after an error to a client that listens *)
(* and has had no frame.                                                   *)
LEMMA RejectSets ==
    ASSUME NetTypeOK, NEW k \in Client, NEW c \in Channel, Reject(k, c)
    PROVE  \E r \in Connection :
                /\ Sets(k, c, r)
                /\ r.cli = conn[k][c].cli /\ ~r.srv
                /\ r.first = IF conn[k][c].first = "none" /\ Up(k, c) THEN "error"
                             ELSE conn[k][c].first
  <1> DEFINE f == IF conn[k][c].first = "none" /\ Up(k, c) THEN "error" ELSE conn[k][c].first
             r == [conn[k][c] EXCEPT !.srv = FALSE, !.first = f]
  <1>1. conn[k][c] \in Connection
    BY DEF NetTypeOK
  <1>2. f \in {"none", "ok", "error", "data"}
    BY Zenon, <1>1 DEF Connection
  <1>3. conn' = [conn EXCEPT ![k][c] = r]
    BY Zenon, <1>1 DEF Reject, Connection, NetTypeOK
  <1> HIDE DEF f
  <1>4. r \in Connection /\ r.cli = conn[k][c].cli /\ ~r.srv /\ r.first = f
    BY Zenon, <1>1, <1>2 DEF Connection
  <1> HIDE DEF r
  <1>5. Sets(k, c, r)
    BY Zenon, <1>3, <1>4, SetsField
  <1> QED
    BY Zenon, <1>4, <1>5 DEF f

(* An excuse is never lost.                                                *)
LEMMA ExcusedStays ==
    ASSUME NetTypeOK, NetNext, NEW j \in Client, Excused(j)
    PROVE  Excused(j)'
  <1> DEFINE Grows ==
          /\ closed => closed'
          /\ past.kicked \subseteq past'.kicked /\ past.forgotten \subseteq past'.forgotten
          /\ past.expired \subseteq past'.expired
  <1>1. CASE UNCHANGED <<closed, past>>
    BY Zenon, <1>1 DEF Excused
  <1>2. ASSUME NEW k \in Client, HandStep(k) PROVE Grows \/ UNCHANGED <<closed, past>>
    <2>1. CASE \E c \in Channel : Deadline(k, c)
      BY <2>1 DEF Deadline, NetTypeOK
    <2> QED
      BY Zenon, <1>2, <2>1 DEF HandStep, Accept, Authenticate, AuthFails, registerControl,
         replyControl, onClient, registerStream, replyStream
  <1>3. ASSUME NEW k \in Client, ClientStep(k) \/ ClientEnds(k)
        PROVE  UNCHANGED <<closed, past>>
    BY Zenon, <1>3 DEF ClientStep, ReadsReply, Dial, ReadOk, ReadOther, DialFails, ClientEnds,
       Hangup
  <1>4. ASSUME RegistryStep PROVE Grows \/ UNCHANGED <<closed, past>>
    <2>1. ASSUME NEW k \in Client, Kick(k) PROVE Grows
      BY Zenon, <2>1 DEF Kick, NetTypeOK
    <2>2. ASSUME NEW k \in Client, RemoveClient(k) PROVE Grows
      BY Zenon, <2>2 DEF RemoveClient, NetTypeOK
    <2>3. CASE ServerClose
      BY Zenon, <2>3 DEF ServerClose, NetTypeOK
    <2>4. CASE ContextDone
      BY Zenon, <2>4 DEF ContextDone, NetTypeOK
    <2> QED
      BY Zenon, <1>4, <2>1, <2>2, <2>3, <2>4 DEF RegistryStep, Drop, ListenerClose
  <1>5. ASSUME Broadcaster PROVE UNCHANGED <<closed, past>>
    BY Zenon, <1>5 DEF Broadcaster, BroadcastWrite, BroadcastLookup
  <1>6. CASE Grows
    BY Zenon, <1>6 DEF Excused
  <1> HIDE DEF Grows
  <1> QED
    BY Zenon, <1>1, <1>2, <1>3, <1>4, <1>5, <1>6 DEF NetNext

(* A step that is not about client j.                                      *)
Untouched(j) ==
    /\ step'[j] = step[j]
    /\ \A d \in Channel : conn'[j][d] = conn[j][d] /\ hand'[j][d] = hand[j][d]
    /\ j \in clients => j \in clients' \/ Excused(j)'
    /\ j \in stream' => j \in stream
    /\ cast' = j => cast = j \/ cast' = NoClient

(* Such a step leaves what the invariant says of client j.                 *)
LEMMA UntouchedSound ==
    ASSUME NetTypeOK, NetNext, NEW j \in Client, Sound(j), Untouched(j)
    PROVE  Sound(j)'
  <1>1. Excused(j) => Excused(j)'
    BY Zenon, ExcusedStays
  <1>2. "control" \in Channel /\ "stream" \in Channel
    BY Zenon DEF Channel
  <1>3. Paired(j)'
    BY Zenon, <1>2 DEF Sound, Paired, Untouched
  <1>4. Welcome(j)'
    BY Zenon, <1>1, <1>2 DEF Sound, Welcome, Untouched
  <1> QED
    BY Zenon, <1>1, <1>3, <1>4 DEF Sound, Untouched

(* handleConn that turns a client away: the client has ended, or it has an *)
(* excuse.                                                                 *)
LEMMA RejectSound ==
    ASSUME NetInv, NetNext, NEW k \in Client, NEW c \in Channel, Reject(k, c),
           UNCHANGED <<step, closed, listening, dropVars, cast>>,
           hand[k][c] \in {"auth", "register", "reply"},
           step[k] = c => Excused(k)' \/ ~Up(k, c),
           clients' \subseteq Client /\ clients \ {k} \subseteq clients',
           c = "stream" /\ k \in clients => k \in clients',
           stream' \subseteq stream,
           NetTypeOK'
    PROVE  NetInv'
  <1>1. PICK r \in Connection :
          /\ Sets(k, c, r)
          /\ r.cli = conn[k][c].cli /\ ~r.srv
          /\ r.first = IF conn[k][c].first = "none" /\ Up(k, c) THEN "error"
                       ELSE conn[k][c].first
    BY Zenon, RejectSets DEF NetInv
  <1>2. /\ hand'[k][c] = "done"
        /\ \A j \in Client, d \in Channel : ~(j = k /\ d = c) => hand'[j][d] = hand[j][d]
    BY Zenon, HandSets DEF HandState, NetInv, Reject
  <1>3. ASSUME NEW j \in Client PROVE Sound(j)'
    <2>1. CASE j # k
      <3>1. Untouched(j)
        BY Zenon, <1>1, <1>2, <2>1 DEF Untouched, Sets
      <3> QED
        BY Zenon, <3>1, UntouchedSound DEF NetInv
    <2>2. CASE j = k
      <3>1. Paired(k) /\ Welcome(k) /\ (Excused(k) => Excused(k)')
            /\ (step[k] = "failed" => Excused(k))
        BY Zenon, ExcusedStays DEF NetInv, Sound
      <3>2. "control" \in Channel /\ "stream" \in Channel /\ "control" # "stream"
            /\ c \in {"control", "stream"}
        BY Zenon DEF Channel
      <3>3. Paired(k)'
        <4>1. CASE c = "control"
          BY Zenon, <1>1, <1>2, <3>1, <3>2, <4>1 DEF Paired, Sets
        <4>2. CASE c = "stream"
          BY Zenon, <1>1, <1>2, <3>1, <3>2, <4>2 DEF Paired, Sets
        <4> QED
          BY Zenon, <3>2, <4>1, <4>2
      <3>4. Welcome(k)'
        <4> SUFFICES ASSUME ~Excused(k)' PROVE Welcome(k)'
          BY Zenon DEF Welcome
        <4>1. ~Excused(k)
          BY Zenon, <3>1
        <4>2. step[k] # c
          <5>1. SUFFICES ASSUME step[k] = c PROVE FALSE
            BY Zenon
          <5>2. conn[k][c].srv /\ conn[k][c].cli
            BY Zenon, <3>1, <3>2, <4>1, <5>1 DEF Welcome, Paired
          <5> QED
            BY Zenon, <5>1, <5>2 DEF Up
        <4>3. CASE c = "control"
          BY Zenon, <1>1, <1>2, <3>1, <3>2, <4>1, <4>2, <4>3 DEF Welcome, Sets
        <4>4. CASE c = "stream"
          BY Zenon, <1>1, <1>2, <3>1, <3>2, <4>1, <4>2, <4>4 DEF Welcome, Sets
        <4> QED
          BY Zenon, <3>2, <4>3, <4>4
      <3> QED
        BY Zenon, <2>2, <3>1, <3>3, <3>4 DEF Sound
    <2> QED
      BY Zenon, <2>1, <2>2
  <1> QED
    BY Zenon, <1>3 DEF NetInv

(* handleConn keeps the invariant.                                         *)
LEMMA HandStepSound ==
    ASSUME NetInv, NetNext, NEW k \in Client, HandStep(k)
    PROVE  NetInv'
  <1> USE DEF NetInv
  <1>0. "control" \in Channel /\ "stream" \in Channel
    BY Zenon DEF Channel
  <1>1. ASSUME NEW c \in Channel, Accept(k, c) \/ Authenticate(k, c) PROVE NetInv'
    <2>1. /\ UNCHANGED <<step, conn, clients, stream, closed, listening, toDrop, closing,
                         cast, past>>
          /\ \/ hand[k][c] = "accept" /\ HandGoto(k, c, "auth")
             \/ hand[k][c] = "auth" /\ HandGoto(k, c, "register")
      BY Zenon, <1>1 DEF Accept, Authenticate, cliVars, dropVars
    <2>2. PICK s \in {"auth", "register"} :
            /\ hand' \in [Client -> [Channel -> HandState]]
            /\ hand'[k][c] = s
            /\ \A j \in Client, d \in Channel :
                  ~(j = k /\ d = c) => hand'[j][d] = hand[j][d]
      BY Zenon, <2>1, HandSets DEF HandState
    <2>3. NetTypeOK'
      BY Zenon, <2>1, <2>2 DEF NetTypeOK
    <2>4. ASSUME NEW j \in Client PROVE Sound(j)'
      <3>1. Excused(j)' <=> Excused(j)
        BY Zenon, <1>0, <2>1, <2>2 DEF Excused
      <3>2. Paired(j)'
        BY Zenon, <1>0, <2>1, <2>2 DEF Sound, Paired, Channel
      <3>3. Welcome(j)'
        BY Zenon, <1>0, <2>1, <2>2, <3>1 DEF Sound, Welcome, Channel
      <3> QED
        BY Zenon, <1>0, <2>1, <2>2, <3>1, <3>2, <3>3 DEF Sound
    <2> QED
      BY Zenon, <2>1, <2>3, <2>4
  <1>2. ASSUME NEW c \in Channel, AuthFails(k, c) PROVE NetInv'
    <2>1. PICK r \in Connection : Sets(k, c, r)
      BY Zenon, <1>2, RejectSets DEF AuthFails
    <2>2. NetTypeOK'
      BY Zenon, <1>2, <2>1, HandSets DEF HandState, NetTypeOK, AuthFails, Reject, cliVars,
         dropVars, Sets
    <2>3. Excused(k)' \/ ~Up(k, c)
      BY Zenon, <1>2, ExcusedStays DEF AuthFails, Excused, Up
    <2> QED
      BY Zenon, <1>2, <2>2, <2>3, RejectSound DEF AuthFails, cliVars, NetTypeOK
  <1>3. ASSUME NEW c \in Channel, Deadline(k, c) PROVE NetInv'
    <2>1. PICK r \in Connection : Sets(k, c, r)
      BY Zenon, <1>3, RejectSets DEF Deadline
    <2>2. NetTypeOK'
      BY ZenonT(30), <1>3, <2>1, HandSets DEF HandState, NetTypeOK, Deadline, Reject, cliVars,
         dropVars, Sets
    <2>3. Excused(k)'
      BY Zenon, <1>3 DEF Deadline, Excused, NetTypeOK
    <2> QED
      BY Zenon, <1>3, <2>2, <2>3, RejectSound DEF Deadline, cliVars, NetTypeOK
  <1>4. CASE registerControl(k)
    <2>1. /\ hand' \in [Client -> [Channel -> HandState]]
          /\ hand[k]["control"] = "register" /\ hand'[k]["control"] = "reply"
          /\ \A j \in Client, d \in Channel :
                ~(j = k /\ d = "control") => hand'[j][d] = hand[j][d]
      BY Zenon, <1>0, <1>4, HandSets DEF HandState, registerControl
    <2>2. /\ UNCHANGED <<step, conn, stream, closed, listening, toDrop, closing, cast, past>>
          /\ clients' = clients \cup {k}
      BY Zenon, <1>4 DEF registerControl, dropVars
    <2>3. NetTypeOK'
      BY Zenon, <2>1, <2>2 DEF NetTypeOK
    <2>4. ASSUME NEW j \in Client PROVE Sound(j)'
      <3>1. Excused(j)' <=> Excused(j)
        BY Zenon, <1>0, <2>1, <2>2 DEF Excused
      <3>2. Paired(j)'
        BY Zenon, <1>0, <2>1, <2>2 DEF Sound, Paired, Channel
      <3>3. Welcome(j)'
        BY Zenon, <1>0, <2>1, <2>2, <3>1 DEF Sound, Welcome, Channel
      <3> QED
        BY Zenon, <1>0, <2>1, <2>2, <3>1, <3>2, <3>3 DEF Sound
    <2> QED
      BY Zenon, <2>2, <2>3, <2>4
  <1>5. CASE onClient(k)
    <2>1. /\ hand' \in [Client -> [Channel -> HandState]]
          /\ hand[k]["control"] = "callback" /\ hand'[k]["control"] = "serve"
          /\ \A j \in Client, d \in Channel :
                ~(j = k /\ d = "control") => hand'[j][d] = hand[j][d]
      BY Zenon, <1>0, <1>5, HandSets DEF HandState, onClient
    <2>2. UNCHANGED <<step, conn, clients, stream, closed, listening, toDrop, closing, cast, past>>
      BY Zenon, <1>5 DEF onClient, dropVars, cliVars
    <2>3. NetTypeOK'
      BY Zenon, <2>1, <2>2 DEF NetTypeOK
    <2>4. ASSUME NEW j \in Client PROVE Sound(j)'
      <3>1. Excused(j)' <=> Excused(j)
        BY Zenon, <1>0, <2>1, <2>2 DEF Excused
      <3>2. Paired(j)'
        BY Zenon, <1>0, <2>1, <2>2 DEF Sound, Paired, Channel
      <3>3. Welcome(j)'
        BY Zenon, <1>0, <2>1, <2>2, <3>1 DEF Sound, Welcome, Channel
      <3> QED
        BY Zenon, <1>0, <2>1, <2>2, <3>1, <3>2, <3>3 DEF Sound
    <2> QED
      BY Zenon, <2>2, <2>3, <2>4
  <1>6. CASE replyControl(k)
    <2>1. CASE Up(k, "control")
      <3> DEFINE r == [conn[k]["control"] EXCEPT !.first = "ok"]
      <3>1. conn[k]["control"] \in Connection
        BY <1>0 DEF NetTypeOK
      <3>2. /\ r \in Connection /\ r.first = "ok"
            /\ r.cli = conn[k]["control"].cli /\ r.srv = conn[k]["control"].srv
        BY Zenon, <3>1 DEF Connection
      <3>3. conn' = [conn EXCEPT ![k]["control"] = r]
        BY Zenon, <1>6, <2>1 DEF replyControl
      <3> HIDE DEF r
      <3>4. Sets(k, "control", r)
        BY Zenon, <1>0, <3>2, <3>3, SetsField
      <3>5. /\ hand' \in [Client -> [Channel -> HandState]]
            /\ hand[k]["control"] = "reply" /\ hand'[k]["control"] = "callback"
            /\ \A j \in Client, d \in Channel :
                  ~(j = k /\ d = "control") => hand'[j][d] = hand[j][d]
        BY Zenon, <1>0, <1>6, <2>1, HandSets DEF HandState, replyControl
      <3>6. UNCHANGED <<step, clients, stream, closed, listening, toDrop, closing, cast, past>>
        BY Zenon, <1>6, <2>1 DEF replyControl, dropVars, cliVars
      <3>7. NetTypeOK'
        BY Zenon, <3>4, <3>5, <3>6 DEF NetTypeOK, Sets
      <3>8. ASSUME NEW j \in Client PROVE Sound(j)'
        <4>1. CASE j # k
          <5>1. Untouched(j)
            BY Zenon, <3>4, <3>5, <3>6, <4>1 DEF Untouched, Sets
          <5> QED
            BY Zenon, <5>1, UntouchedSound
        <4>2. CASE j = k
          <5>1. Excused(j)' <=> Excused(j)
            BY Zenon, <1>0, <3>2, <3>4, <3>5, <3>6, <4>2 DEF Excused
          <5>2. Paired(j)'
            BY SMTT(30), <1>0, <3>2, <3>4, <3>5, <3>6, <4>2 DEF Sound, Paired, Channel, Sets
          <5>3. Welcome(j)'
            BY Zenon, <1>0, <3>2, <3>4, <3>5, <3>6, <4>2, <5>1 DEF Sound, Welcome, Channel, Sets
          <5> QED
            BY Zenon, <1>0, <3>2, <3>4, <3>5, <3>6, <4>2, <5>1, <5>2, <5>3 DEF Sound
        <4> QED
          BY Zenon, <4>1, <4>2
      <3> QED
        BY Zenon, <3>6, <3>7, <3>8
    <2>2. CASE ~Up(k, "control")
      <3>1. Reject(k, "control") /\ clients' = clients \ {k} /\ hand[k]["control"] = "reply"
            /\ UNCHANGED <<step, stream, closed, listening, dropVars, cast, past>>
        BY Zenon, <1>6, <2>2 DEF replyControl
      <3>2. PICK r \in Connection : Sets(k, "control", r)
        BY Zenon, <1>0, <3>1, RejectSets
      <3>3. NetTypeOK'
        BY Zenon, <1>0, <3>1, <3>2, HandSets DEF HandState, NetTypeOK, Reject, dropVars, Sets
      <3>4. clients' \subseteq Client /\ clients \ {k} \subseteq clients'
        BY Zenon, <3>1 DEF NetTypeOK
      <3> QED
        BY Zenon, <1>0, <2>2, <3>1, <3>3, <3>4, RejectSound
    <2> QED
      BY Zenon, <2>1, <2>2
  <1>7. CASE registerStream(k)
    <2>1. CASE k \in clients /\ k \notin stream
      <3>1. /\ hand' \in [Client -> [Channel -> HandState]]
            /\ hand[k]["stream"] = "register" /\ hand'[k]["stream"] = "reply"
            /\ \A j \in Client, d \in Channel :
                  ~(j = k /\ d = "stream") => hand'[j][d] = hand[j][d]
        BY Zenon, <1>0, <1>7, <2>1, HandSets DEF HandState, registerStream
      <3>2. /\ UNCHANGED <<step, conn, clients, closed, listening, toDrop, closing, cast, past>>
            /\ stream' = stream \cup {k}
        BY Zenon, <1>7, <2>1 DEF registerStream, dropVars
      <3>3. NetTypeOK'
        BY Zenon, <3>1, <3>2 DEF NetTypeOK
      <3>4. ASSUME NEW j \in Client PROVE Sound(j)'
        <4>1. Excused(j)' <=> Excused(j)
          BY Zenon, <1>0, <3>1, <3>2 DEF Excused
        <4>2. Paired(j)'
          BY Zenon, <1>0, <3>1, <3>2 DEF Sound, Paired, Channel
        <4>3. Welcome(j)'
          BY Zenon, <1>0, <3>1, <3>2, <4>1 DEF Sound, Welcome, Channel
        <4> QED
          BY Zenon, <1>0, <3>1, <3>2, <4>1, <4>2, <4>3 DEF Sound
      <3> QED
        BY Zenon, <3>2, <3>3, <3>4
    <2>2. CASE ~(k \in clients /\ k \notin stream)
      <3>1. Reject(k, "stream") /\ hand[k]["stream"] = "register"
            /\ UNCHANGED <<step, clients, stream, closed, listening, dropVars, cast, past>>
        BY Zenon, <1>7, <2>2 DEF registerStream
      <3>2. PICK r \in Connection : Sets(k, "stream", r)
        BY Zenon, <1>0, <3>1, RejectSets
      <3>3. NetTypeOK'
        BY Zenon, <1>0, <3>1, <3>2, HandSets DEF HandState, NetTypeOK, Reject, dropVars, Sets
      <3>4. step[k] = "stream" => Excused(k)
        BY Zenon, <2>2, <3>1 DEF Sound, Paired, Welcome
      <3>5. step[k] = "stream" => Excused(k)'
        BY Zenon, <3>4, ExcusedStays
      <3> QED
        BY Zenon, <1>0, <3>1, <3>3, <3>5, RejectSound DEF NetTypeOK
    <2> QED
      BY Zenon, <2>1, <2>2
  <1>8. CASE replyStream(k)
    <2>1. CASE Up(k, "stream")
      <3> DEFINE f == IF conn[k]["stream"].first = "none" THEN "ok" ELSE conn[k]["stream"].first
                 r == [conn[k]["stream"] EXCEPT !.first = f]
      <3>1. conn[k]["stream"] \in Connection
        BY <1>0 DEF NetTypeOK
      <3>2. /\ r \in Connection /\ r.first = f
            /\ r.cli = conn[k]["stream"].cli /\ r.srv = conn[k]["stream"].srv
        BY Zenon, <3>1 DEF Connection
      <3>3. conn' = [conn EXCEPT ![k]["stream"] = r]
        BY Zenon, <1>0, <1>8, <2>1 DEF replyStream, NetTypeOK, Connection
      <3> HIDE DEF r
      <3>4. Sets(k, "stream", r)
        BY Zenon, <1>0, <3>2, <3>3, SetsField
      <3>5. /\ hand' \in [Client -> [Channel -> HandState]]
            /\ hand[k]["stream"] = "reply" /\ hand'[k]["stream"] = "serve"
            /\ \A j \in Client, d \in Channel :
                  ~(j = k /\ d = "stream") => hand'[j][d] = hand[j][d]
        BY Zenon, <1>0, <1>8, <2>1, HandSets DEF HandState, replyStream
      <3>6. UNCHANGED <<step, clients, stream, closed, listening, toDrop, closing, cast, past>>
        BY Zenon, <1>8, <2>1 DEF replyStream, dropVars, cliVars
      <3>7. NetTypeOK'
        BY Zenon, <3>4, <3>5, <3>6 DEF NetTypeOK, Sets
      <3>8. ASSUME NEW j \in Client PROVE Sound(j)'
        <4>1. CASE j # k
          <5>1. Untouched(j)
            BY Zenon, <3>4, <3>5, <3>6, <4>1 DEF Untouched, Sets
          <5> QED
            BY Zenon, <5>1, UntouchedSound
        <4>2. CASE j = k
          <5>1. Excused(j)' <=> Excused(j)
            BY Zenon, <1>0, <3>2, <3>4, <3>5, <3>6, <4>2 DEF Excused
          <5>2. Paired(j)'
            BY SMTT(30), <1>0, <3>2, <3>4, <3>5, <3>6, <4>2 DEF Sound, Paired, Channel, Sets
          <5>3. Welcome(j)'
            <6>1. /\ hand'[j]["control"] = hand[j]["control"]
                  /\ conn'[j]["control"] = conn[j]["control"]
                  /\ conn'[j]["stream"].srv = conn[j]["stream"].srv
                  /\ conn[j]["stream"].first \in {"none", "ok"} => conn'[j]["stream"].first = "ok"
              BY Zenon, <1>0, <3>2, <3>4, <3>5, <4>2 DEF Sets
            <6>2. Welcome(j) /\ step'[j] = step[j] /\ clients' = clients
              BY Zenon, <3>6 DEF Sound
            <6> QED
              BY Zenon, <5>1, <6>1, <6>2 DEF Welcome, Channel
          <5> QED
            BY Zenon, <1>0, <3>2, <3>4, <3>5, <3>6, <4>2, <5>1, <5>2, <5>3 DEF Sound
        <4> QED
          BY Zenon, <4>1, <4>2
      <3> QED
        BY Zenon, <3>6, <3>7, <3>8
    <2>2. CASE ~Up(k, "stream")
      <3>1. Reject(k, "stream") /\ hand[k]["stream"] = "reply" /\ stream' \subseteq stream
            /\ UNCHANGED <<step, clients, closed, listening, dropVars, cast, past>>
        BY Zenon, <1>8, <2>2 DEF replyStream
      <3>2. PICK r \in Connection : Sets(k, "stream", r)
        BY Zenon, <1>0, <3>1, RejectSets
      <3>3. NetTypeOK'
        BY Zenon, <1>0, <3>1, <3>2, HandSets DEF HandState, NetTypeOK, Reject, dropVars, Sets
      <3> QED
        BY Zenon, <1>0, <2>2, <3>1, <3>3, RejectSound DEF NetTypeOK
    <2> QED
      BY Zenon, <2>1, <2>2
  <1> HIDE DEF NetInv
  <1> QED
    BY Zenon, <1>1, <1>2, <1>3, <1>4, <1>5, <1>6, <1>7, <1>8 DEF HandStep

(* The end of a client, which has an excuse if connect failed.             *)
LEMMA HangupSound ==
    ASSUME NetInv, NetNext, NEW k \in Client, NEW s \in {"failed", "gone"}, Hangup(k, s),
           step[k] # "start" \/ s = "failed",
           s = "failed" => Excused(k)
    PROVE  NetInv'
  <1> USE DEF NetInv
  <1>0. "control" \in Channel /\ "stream" \in Channel
    BY Zenon DEF Channel
  <1>1. /\ UNCHANGED <<hand, clients, stream, closed, listening, toDrop, closing, cast, past>>
        /\ step' = [step EXCEPT ![k] = s]
    BY Zenon DEF Hangup, Goto, cliVars, dropVars
  <1>2. ASSUME NEW j \in Client, NEW d \in Channel
        PROVE  /\ conn'[j][d] \in Connection
               /\ conn'[j][d].srv = conn[j][d].srv /\ conn'[j][d].first = conn[j][d].first
               /\ j # k => conn'[j][d] = conn[j][d]
    <2>1. conn[j][d] \in Connection
      BY DEF NetTypeOK
    <2>2. conn'[j][d] = IF j = k THEN [conn[j][d] EXCEPT !.cli = FALSE] ELSE conn[j][d]
      BY Zenon DEF NetTypeOK, Hangup
    <2> QED
      BY Zenon, <2>1, <2>2 DEF Connection
  <1>3. conn' \in [Client -> [Channel -> Connection]]
    <2>1. \A j \in Client : conn'[j] \in [Channel -> Connection]
      <3> TAKE j \in Client
      <3>1. conn'[j] = [d \in Channel |-> conn'[j][d]]
        BY Zenon DEF Hangup, NetTypeOK
      <3> QED
        BY Zenon, <1>2, <3>1
    <2>2. conn' = [j \in Client |-> conn'[j]]
      BY Zenon DEF Hangup, NetTypeOK
    <2> QED
      BY Zenon, <2>1, <2>2
  <1>4. NetTypeOK'
    BY Zenon, <1>1, <1>3 DEF NetTypeOK
  <1>5. ASSUME NEW j \in Client PROVE Sound(j)'
    <2>1. CASE j # k
      <3>1. Untouched(j)
        BY Zenon, <1>1, <1>2, <2>1 DEF Untouched, NetTypeOK
      <3> QED
        BY Zenon, <3>1, UntouchedSound
    <2>2. CASE j = k
      <3>1. step'[k] = s
        BY Zenon, <1>1 DEF NetTypeOK
      <3> QED
        <4>1. Excused(j)' <=> Excused(j)
          BY Zenon, <1>0, <1>1, <1>2, <2>2, <3>1 DEF Excused
        <4>2. /\ step'[j] \in {"failed", "gone"} /\ hand' = hand
              /\ clients' = clients /\ stream' = stream /\ cast' = cast
              /\ conn'[j]["control"].first = conn[j]["control"].first
          BY Zenon, <1>0, <1>1, <1>2, <2>2, <3>1
        <4>3. Paired(j)'
          BY Zenon, <4>2 DEF Sound, Paired
        <4>4. Welcome(j)'
          BY Zenon, <4>1, <4>2 DEF Sound, Welcome, Channel
        <4> QED
          BY Zenon, <2>2, <3>1, <4>1, <4>3, <4>4 DEF Sound
    <2> QED
      BY Zenon, <2>1, <2>2
  <1> QED
    BY Zenon, <1>1, <1>4, <1>5

(* The client keeps the invariant: connect fails with an excuse only.      *)
LEMMA ClientStepSound ==
    ASSUME NetInv, NetNext, NEW k \in Client, ClientStep(k) \/ ClientEnds(k)
    PROVE  NetInv'
  <1> USE DEF NetInv
  <1>0. "control" \in Channel /\ "stream" \in Channel
    BY Zenon DEF Channel
  <1>1. ASSUME NEW c \in Channel, Dial(k, c) PROVE NetInv'
    <2>1. PICK auth \in BOOLEAN : conn' = [conn EXCEPT ![k][c] = NewConn(auth)]
      BY Zenon, <1>1 DEF Dial
    <2> DEFINE r == NewConn(auth)
    <2>2. r \in Connection /\ r.cli /\ r.srv /\ r.first = "none"
      BY Zenon DEF NewConn, Connection
    <2>3. conn' = [conn EXCEPT ![k][c] = r]
      BY Zenon, <2>1
    <2> HIDE DEF r
    <2>4. Sets(k, c, r)
      BY Zenon, <2>2, <2>3, SetsField
    <2>5. /\ hand' \in [Client -> [Channel -> HandState]]
          /\ hand'[k][c] = "accept"
          /\ \A j \in Client, d \in Channel :
                ~(j = k /\ d = c) => hand'[j][d] = hand[j][d]
      BY Zenon, <1>1, HandSets DEF Dial, HandGoto, HandState
    <2>6. /\ UNCHANGED <<clients, stream, closed, listening, toDrop, closing, cast, past>>
          /\ step' = [step EXCEPT ![k] = c]
          /\ step[k] = IF c = "control" THEN "start" ELSE "dialStream"
      BY Zenon, <1>1 DEF Dial, Goto, cliVars, dropVars
    <2>7. NetTypeOK'
      BY Zenon, <2>4, <2>5, <2>6 DEF NetTypeOK, Sets, Channel
    <2>8. ASSUME NEW j \in Client PROVE Sound(j)'
      <3>1. CASE j # k
        <4>1. Untouched(j)
          BY Zenon, <2>4, <2>5, <2>6, <3>1 DEF Untouched, Sets, NetTypeOK
        <4> QED
          BY Zenon, <4>1, UntouchedSound
      <3>2. CASE j = k
        <4>1. step'[k] = c
          BY Zenon, <2>6 DEF NetTypeOK
        <4>2. CASE c = "control"
          <5>1. Excused(j)' <=> Excused(j)
            BY Zenon, <1>0, <2>2, <2>4, <2>5, <2>6, <3>2, <4>1, <4>2 DEF Excused
          <5>2. /\ step[j] = "start" /\ step'[j] = "control"
                /\ hand'[j]["control"] = "accept" /\ hand'[j]["stream"] = hand[j]["stream"]
                /\ conn'[j]["control"] = r /\ conn'[j]["stream"] = conn[j]["stream"]
                /\ clients' = clients /\ stream' = stream /\ cast' = cast
            BY Zenon, <1>0, <2>4, <2>5, <2>6, <3>2, <4>1, <4>2 DEF Sets
          <5>3. Paired(j)'
            BY Zenon, <2>2, <5>2 DEF Sound, Paired
          <5>4. Welcome(j)'
            BY Zenon, <2>2, <5>1, <5>2 DEF Sound, Welcome, Channel
          <5> QED
            BY Zenon, <5>1, <5>2, <5>3, <5>4 DEF Sound
        <4>3. CASE c = "stream"
          <5>1. Excused(j)' <=> Excused(j)
            BY Zenon, <1>0, <2>2, <2>4, <2>5, <2>6, <3>2, <4>1, <4>3 DEF Excused
          <5>2. /\ step[j] = "dialStream" /\ step'[j] = "stream"
                /\ hand'[j]["stream"] = "accept" /\ hand'[j]["control"] = hand[j]["control"]
                /\ conn'[j]["stream"] = r /\ conn'[j]["control"] = conn[j]["control"]
                /\ clients' = clients /\ stream' = stream /\ cast' = cast
            BY Zenon, <1>0, <2>4, <2>5, <2>6, <3>2, <4>1, <4>3 DEF Sets
          <5>3. Paired(j)'
            BY <2>2, <5>2 DEF Sound, Paired
          <5>4. Welcome(j)'
            BY Zenon, <2>2, <5>1, <5>2 DEF Sound, Welcome, Channel
          <5> QED
            BY Zenon, <5>1, <5>2, <5>3, <5>4 DEF Sound
        <4> QED
          BY Zenon, <4>2, <4>3 DEF Channel
      <3> QED
        BY Zenon, <3>1, <3>2
    <2> QED
      BY Zenon, <2>6, <2>7, <2>8
  <1>2. ASSUME NEW c \in Channel, ReadOk(k, c) PROVE NetInv'
    <2>1. /\ UNCHANGED <<conn, hand, clients, stream, closed, listening, toDrop, closing,
                         cast, past>>
          /\ step' = [step EXCEPT ![k] = IF c = "control" THEN "dialStream" ELSE "connected"]
          /\ step[k] = c /\ conn[k][c].first = "ok"
      BY Zenon, <1>2 DEF ReadOk, Goto, cliVars, dropVars
    <2>2. NetTypeOK'
      BY Zenon, <2>1 DEF NetTypeOK
    <2>3. ASSUME NEW j \in Client PROVE Sound(j)'
      <3>1. CASE j # k
        <4>1. Untouched(j)
          BY Zenon, <2>1, <3>1 DEF Untouched, NetTypeOK
        <4> QED
          BY Zenon, <4>1, UntouchedSound
      <3>2. CASE j = k
        <4>1. step'[k] = IF c = "control" THEN "dialStream" ELSE "connected"
          BY Zenon, <2>1 DEF NetTypeOK
        <4> QED
          <5>1. Excused(j)' <=> Excused(j)
            BY Zenon, <1>0, <2>1, <3>2, <4>1 DEF Excused
          <5>2. /\ UNCHANGED <<conn, hand, clients, stream, cast>>
                /\ \/ step[j] = "control" /\ step'[j] = "dialStream"
                         /\ conn[j]["control"].first = "ok"
                   \/ step[j] = "stream" /\ step'[j] = "connected"
            BY Zenon, <2>1, <3>2, <4>1 DEF Channel
          <5>3. Paired(j)'
            BY Zenon, <5>2 DEF Sound, Paired
          <5>4. Welcome(j)'
            <6>1. step'[j] = "dialStream" => hand[j]["control"] \in {"callback", "serve"}
              BY Zenon, <5>2 DEF Sound, Paired
            <6>2. step'[j] \notin {"control", "stream"}
              BY Zenon, <5>2
            <6> QED
              BY Zenon, <5>1, <5>2, <6>1, <6>2 DEF Sound, Welcome, Channel
          <5> QED
            BY Zenon, <5>1, <5>2, <5>3, <5>4 DEF Sound
      <3> QED
        BY Zenon, <3>1, <3>2
    <2> QED
      BY Zenon, <2>1, <2>2, <2>3
  <1>3. ASSUME NEW c \in Channel, ReadOther(k, c) PROVE NetInv'
    <2>1. step[k] = c /\ step[k] # "start" /\ Hangup(k, "failed")
      BY Zenon, <1>3 DEF ReadOther, Channel
    <2>2. Excused(k)
      BY Zenon, <1>3 DEF ReadOther, Sound, Welcome
    <2> QED
      BY Zenon, <2>1, <2>2, HangupSound
  <1>4. CASE DialFails(k)
    BY Zenon, <1>4, HangupSound DEF DialFails, Excused
  <1>5. CASE ClientEnds(k)
    BY Zenon, <1>5, HangupSound DEF ClientEnds
  <1> HIDE DEF NetInv
  <1> QED
    BY Zenon, <1>1, <1>2, <1>3, <1>4, <1>5 DEF ClientStep, ReadsReply

(* The registry keeps the invariant: whom it takes out has an excuse.      *)
LEMMA RegistryStepSound ==
    ASSUME NetInv, NetNext, RegistryStep
    PROVE  NetInv'
  <1> USE DEF NetInv
  <1>0. "control" \in Channel /\ "stream" \in Channel
    BY Zenon DEF Channel
  <1>1. ASSUME UNCHANGED <<step, conn, hand, stream, cast>>, NetTypeOK',
               ~listening' => closed',
               \A j \in Client : j \in clients => j \in clients' \/ Excused(j)'
        PROVE  NetInv'
    <2>1. \A j \in Client : Untouched(j)
      BY Zenon, <1>1 DEF Untouched
    <2> QED
      BY Zenon, <1>1, <2>1, UntouchedSound
  <1>2. ASSUME NEW k \in Client, Kick(k) PROVE NetInv'
    <2>1. NetTypeOK' /\ k \in past'.kicked
      BY Zenon, <1>2 DEF Kick, NetTypeOK
    <2> QED
      BY Zenon, <1>1, <1>2, <2>1 DEF Kick, Excused
  <1>3. ASSUME NEW k \in Client, RemoveClient(k) PROVE NetInv'
    <2>1. NetTypeOK' /\ k \in past'.forgotten
      BY Zenon, <1>3 DEF RemoveClient, NetTypeOK, dropVars
    <2> QED
      BY Zenon, <1>1, <1>3, <2>1 DEF RemoveClient, Excused
  <1>4. CASE ServerClose
    <2>1. NetTypeOK'
      BY Zenon, <1>4 DEF ServerClose, NetTypeOK
    <2> QED
      BY Zenon, <1>1, <1>4, <2>1 DEF ServerClose, Excused
  <1>5. CASE ContextDone
    <2>1. NetTypeOK'
      BY Zenon, <1>5 DEF ContextDone, NetTypeOK, cliVars, dropVars
    <2> QED
      BY Zenon, <1>1, <1>5, <2>1 DEF ContextDone, cliVars
  <1>6. ASSUME UNCHANGED <<step, hand, clients, stream, closed, cast, past>>,
               ~listening' => closed', listening' \in BOOLEAN,
               toDrop' \subseteq toDrop, closing' \subseteq closing,
               conn' \in [Client -> [Channel -> Connection]],
               \A j \in Client, d \in Channel :
                  /\ conn'[j][d].cli = conn[j][d].cli /\ conn'[j][d].first = conn[j][d].first
                  /\ conn'[j][d].srv = conn[j][d].srv \/ Excused(j)
        PROVE  NetInv'
    <2>1. NetTypeOK'
      BY Zenon, <1>6 DEF NetTypeOK
    <2>2. ASSUME NEW j \in Client PROVE Sound(j)'
      <3>1. Excused(j)' <=> Excused(j)
        BY Zenon, <1>6 DEF Excused
      <3>2. Paired(j)'
        BY SMTT(30), <1>0, <1>6, <2>2 DEF Paired, Sound
      <3>3. Welcome(j)'
        BY SMTT(30), <1>0, <1>6, <2>2, <3>1 DEF Welcome, Sound
      <3> QED
        BY Zenon, <1>6, <3>1, <3>2, <3>3 DEF Sound
    <2> QED
      BY Zenon, <1>6, <2>1, <2>2
  <1>7. ASSUME NEW k \in Client, Drop(k) PROVE NetInv'
    <2>1. Excused(k)
      BY Zenon, <1>7 DEF Drop, Excused, NetTypeOK
    <2> DEFINE b == conn[k]["stream"].srv /\ k \notin stream
               rc == [conn[k]["control"] EXCEPT !.srv = FALSE]
               rs == [conn[k]["stream"] EXCEPT !.srv = b]
    <2>2. conn[k]["control"] \in Connection /\ conn[k]["stream"] \in Connection
      BY <1>0 DEF NetTypeOK
    <2>3. conn' = [conn EXCEPT ![k]["control"] = rc, ![k]["stream"] = rs]
      BY Zenon, <1>0, <1>7 DEF Drop, NetTypeOK, Channel
    <2>4. b \in BOOLEAN
      BY Zenon, <2>2 DEF Connection
    <2> HIDE DEF b
    <2>5. /\ rc \in Connection /\ rs \in Connection
          /\ rc.cli = conn[k]["control"].cli /\ rc.first = conn[k]["control"].first
          /\ rs.cli = conn[k]["stream"].cli /\ rs.first = conn[k]["stream"].first
      BY Zenon, <2>2, <2>4 DEF Connection
    <2> HIDE DEF rc, rs
    <2>6. /\ conn'[k]["control"] = rc /\ conn'[k]["stream"] = rs
          /\ \A j \in Client : j # k => conn'[j] = conn[j]
      BY Zenon, <1>0, <2>3 DEF NetTypeOK
    <2>7. ASSUME NEW j \in Client, NEW d \in Channel
          PROVE  /\ conn'[j][d].cli = conn[j][d].cli /\ conn'[j][d].first = conn[j][d].first
                 /\ conn'[j][d].srv = conn[j][d].srv \/ Excused(j)
      BY Zenon, <1>0, <2>1, <2>5, <2>6 DEF NetTypeOK, Channel
    <2>8. conn' \in [Client -> [Channel -> Connection]]
      BY Zenon, <1>0, <2>3, <2>5 DEF NetTypeOK
    <2>9. /\ UNCHANGED <<step, hand, clients, stream, closed, listening, cast, past>>
          /\ toDrop' \subseteq toDrop /\ closing' \subseteq closing
      BY Zenon, <1>7 DEF Drop, cliVars
    <2> QED
      BY Zenon, <1>6, <2>7, <2>8, <2>9 DEF NetTypeOK
  <1>8. CASE ListenerClose
    <2>1. ASSUME NEW j \in Client PROVE Excused(j)
      BY Zenon, <1>8 DEF ListenerClose, Excused
    <2>2. ASSUME NEW j \in Client, NEW d \in Channel
          PROVE  /\ conn'[j][d] \in Connection
                 /\ conn'[j][d].cli = conn[j][d].cli /\ conn'[j][d].first = conn[j][d].first
      <3>1. conn[j][d] \in Connection
        BY DEF NetTypeOK
      <3>2. PICK b \in BOOLEAN : conn'[j][d] = [conn[j][d] EXCEPT !.srv = b]
        BY Zenon, <1>8, <3>1 DEF ListenerClose, Connection
      <3> QED
        BY Zenon, <3>1, <3>2 DEF Connection
    <2>3. conn' \in [Client -> [Channel -> Connection]]
      <3>1. \A j \in Client : conn'[j] = [d \in Channel |-> conn'[j][d]]
        BY Zenon, <1>8 DEF ListenerClose
      <3>2. conn' = [j \in Client |-> conn'[j]]
        BY Zenon, <1>8 DEF ListenerClose
      <3> QED
        BY Zenon, <2>2, <3>1, <3>2
    <2>4. /\ UNCHANGED <<step, hand, clients, stream, closed, toDrop, closing, cast, past>>
          /\ ~listening' /\ closed /\ listening' \in BOOLEAN
      BY Zenon, <1>8 DEF ListenerClose, cliVars, dropVars
    <2> QED
      BY Zenon, <1>6, <2>1, <2>2, <2>3, <2>4
  <1> HIDE DEF NetInv
  <1> QED
    BY Zenon, <1>2, <1>3, <1>4, <1>5, <1>7, <1>8 DEF RegistryStep

(* BroadcastTo keeps the invariant: it writes to clients that are done     *)
(* with the handshake.                                                     *)
LEMMA BroadcasterSound ==
    ASSUME NetInv, NetNext, Broadcaster
    PROVE  NetInv'
  <1> USE DEF NetInv
  <1>0. "control" \in Channel /\ "stream" \in Channel /\ "control" # "stream"
    BY Zenon DEF Channel
  <1>1. ASSUME NEW k \in Client, BroadcastLookup(k) PROVE NetInv'
    <2>1. NetTypeOK'
      BY Zenon, <1>1 DEF BroadcastLookup, NetTypeOK, cliVars, dropVars
    <2>2. ASSUME NEW j \in Client PROVE Sound(j)'
      <3>1. Excused(j)' <=> Excused(j)
        BY Zenon, <1>1 DEF Excused, BroadcastLookup, cliVars
      <3>2. Paired(j)'
        BY Zenon, <1>1 DEF Sound, Paired, Channel, BroadcastLookup, cliVars
      <3>3. Welcome(j)'
        BY Zenon, <1>1, <3>1 DEF Sound, Welcome, Channel, BroadcastLookup, cliVars
      <3> QED
        BY Zenon, <1>1, <3>1, <3>2, <3>3 DEF Sound, BroadcastLookup, cliVars
    <2> QED
      BY Zenon, <1>1, <2>1, <2>2 DEF BroadcastLookup
  <1>2. CASE BroadcastWrite
    <2> DEFINE k == cast
               r == [conn[k]["stream"] EXCEPT !.first = "data"]
    <2>1. /\ UNCHANGED <<step, hand, clients, stream, closed, listening, toDrop, closing, past>>
          /\ cast' = NoClient /\ cast # NoClient /\ k \in Client
      BY Zenon, <1>2 DEF BroadcastWrite, cliVars, dropVars, NetTypeOK
    <2>2. CASE conn' = conn
      <3>1. NetTypeOK' /\ \A j \in Client : Untouched(j)
        BY Zenon, <2>1, <2>2 DEF NetTypeOK, Untouched
      <3> QED
        BY Zenon, <2>1, <3>1, UntouchedSound
    <2>3. CASE conn' # conn
      <3>1. conn' = [conn EXCEPT ![k]["stream"] = r]
        BY Zenon, <1>2, <2>3 DEF BroadcastWrite
      <3>2. r \in Connection /\ r.cli = conn[k]["stream"].cli
        <4>1. conn[k]["stream"] \in Connection
          BY <1>0, <2>1 DEF NetTypeOK
        <4> QED
          BY Zenon, <4>1 DEF Connection
      <3> HIDE DEF r
      <3>3. Sets(k, "stream", r)
        BY Zenon, <1>0, <2>1, <3>1, <3>2, SetsField
      <3>4. NetTypeOK'
        BY Zenon, <2>1, <3>3 DEF NetTypeOK, Sets
      <3>5. ASSUME NEW j \in Client PROVE Sound(j)'
        <4>1. CASE j # k
          <5>1. Untouched(j)
            BY Zenon, <2>1, <3>3, <4>1 DEF Untouched, Sets
          <5> QED
            BY Zenon, <5>1, UntouchedSound
        <4>2. CASE j = k
          <5>1. step[k] \in {"connected", "gone", "failed"}
            BY Zenon, <2>1 DEF Sound, Paired
          <5> QED
            <6>1. Excused(j)' <=> Excused(j)
              BY Zenon, <1>0, <2>1, <3>2, <3>3, <4>2, <5>1 DEF Excused
            <6>2. Paired(j)'
              BY Zenon, <1>0, <2>1, <3>2, <3>3, <4>2, <5>1 DEF Sound, Paired, Channel, Sets
            <6>3. Welcome(j)'
              BY Zenon, <1>0, <2>1, <3>2, <3>3, <4>2, <5>1, <6>1 DEF Sound, Welcome, Channel, Sets
            <6> QED
              BY Zenon, <1>0, <2>1, <3>2, <3>3, <4>2, <5>1, <6>1, <6>2, <6>3 DEF Sound
        <4> QED
          BY Zenon, <4>1, <4>2
      <3> QED
        BY Zenon, <2>1, <3>4, <3>5
    <2> QED
      BY Zenon, <2>2, <2>3
  <1> HIDE DEF NetInv
  <1> QED
    BY Zenon, <1>1, <1>2 DEF Broadcaster

(* The invariant holds in every reachable state.                           *)
LEMMA NetInvariance == NetSpec => []NetInv
  <1>1. NetInv /\ [NetNext]_netVars => NetInv'
    <2> SUFFICES ASSUME NetInv, [NetNext]_netVars PROVE NetInv'
      BY Zenon
    <2>1. CASE NetNext
      BY Zenon, <2>1, HandStepSound, ClientStepSound, RegistryStepSound, BroadcasterSound
         DEF NetNext
    <2>2. CASE UNCHANGED netVars
      BY Zenon, <2>2 DEF netVars, cliVars, dropVars, NetInv, NetTypeOK, Sound, Paired,
         Welcome, Excused
    <2> QED
      BY Zenon, <2>1, <2>2
  <1> QED
    BY NetInitHolds, <1>1, PTL DEF NetSpec

(* For any clients, tokens, process tree and automation mode: connect of a *)
(* client that the daemon admits fails only after its deadline, after it   *)
(* was taken out of the registry, or when the server stops; no order of    *)
(* registration, replies, kicks and broadcasts refuses it.                 *)
THEOREM RefusedForReasonCorrect == NetSpec => []RefusedForReason
  <1>1. NetInv => RefusedForReason
    BY Zenon DEF NetInv, Sound, Excused, RefusedForReason
  <1> QED
    BY NetInvariance, <1>1, PTL
=============================================================================
