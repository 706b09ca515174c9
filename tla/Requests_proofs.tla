-------------------------- MODULE Requests_proofs ---------------------------
(***************************************************************************)
(* The daemon's requests, for any clients, sessions and commands: what the *)
(* handlers guarantee of the attachment maps and exactly when the promises *)
(* of their comments hold, that the whole of Cli uses the maps as          *)
(* Attachments does, that a resize leaves one size, and that an exit code  *)
(* is true.                                                                *)
(***************************************************************************)
EXTENDS Cli, SessionRegistry_proofs

-----------------------------------------------------------------------------
(* The maps.  What follows is about the steps of Attachments among those   *)
(* of handlers that leave the maps alone (Aside), so that it is about      *)
(* Attachments as well as about Cli.                                       *)

(* Where a handler of that kind may be.                                    *)
Aloof == {"lookup", "write", "kill", "resizePty", "resizeEmu", "resizeRec"}

Aside(c) ==
    /\ handler[c].pc \in Aloof \/ handler[c] = Ready
    /\ c \notin gone
    /\ \E x \in {Ready} \cup [pc: Aloof, id: Id] : handler' = [handler EXCEPT ![c] = x]
    /\ UNCHANGED mapVars
    /\ UNCHANGED regVars \/ \E i \in Id : Kill(i)

MapsMove == Next \/ \E c \in Client : Aside(c)

(* TypeOK with those handlers.                                             *)
MapTypeOK ==
    /\ RegTypeOK
    /\ attachments \in [Id -> SUBSET Client]
    /\ clientSession \in [Client -> Id \cup {NoId}]
    /\ handler \in [Client -> [pc: HandlerPc \cup Aloof, id: Id \cup {NoId}]]
    /\ \A c \in Client : handler[c].pc # "read" => handler[c].id \in Id
    /\ gone \subseteq Client /\ juggled \subseteq Client /\ raced \subseteq Id

(* Every step of the daemon is an operation of the session map or leaves   *)
(* the map alone.                                                          *)
LEMMA StepIsRegStep == MapTypeOK /\ [MapsMove]_vars => [RegNext]_regVars
<1> SUFFICES ASSUME MapTypeOK, [MapsMove]_vars PROVE [RegNext]_regVars
  BY Zenon
<1> USE DEF regVars
<1>1. ASSUME NEW c \in Client, NEW i \in Id, AttachGet(c, i) PROVE [RegNext]_regVars
  BY Zenon, <1>1 DEF AttachGet
<1>2. ASSUME NEW c \in Client, AttachState(c) PROVE [RegNext]_regVars
  BY Zenon, <1>2 DEF AttachState, RegNext, MapTypeOK
<1>3. ASSUME NEW c \in Client, AttachRecord(c) PROVE [RegNext]_regVars
  BY Zenon, <1>3 DEF AttachRecord
<1>4. ASSUME NEW c \in Client, NEW i \in Id, DetachLocked(c, i) PROVE [RegNext]_regVars
  BY Zenon, <1>4 DEF DetachLocked
<1>5. ASSUME NEW c \in Client, DetachState(c) PROVE [RegNext]_regVars
  BY Zenon, <1>5 DEF DetachState, RegNext, MapTypeOK
<1>6. ASSUME NEW c \in Client, Disconnect(c) PROVE [RegNext]_regVars
  BY Zenon, <1>6 DEF Disconnect
<1>7. CASE SessionStep
  BY Zenon, <1>7 DEF SessionStep, RegNext
<1>8. CASE UNCHANGED vars
  BY Zenon, <1>8 DEF vars
<1>9. ASSUME NEW c \in Client, Aside(c) PROVE [RegNext]_regVars
  BY Zenon, <1>9 DEF Aside, RegNext
<1> QED
  BY Zenon, <1>1, <1>2, <1>3, <1>4, <1>5, <1>6, <1>7, <1>8, <1>9 DEF Next, MapsMove

(* Every step keeps the types.                                             *)
LEMMA MapTypeStep == MapTypeOK /\ [MapsMove]_vars => MapTypeOK'
<1> SUFFICES ASSUME MapTypeOK, [MapsMove]_vars PROVE MapTypeOK'
  BY Zenon
<1>0. RegTypeOK'
  BY Zenon, StepIsRegStep, RegTypeStep DEF MapTypeOK
<1> USE <1>0, ClientAssumption DEF MapTypeOK, HandlerPc, Ready, Continue, Finish,
        Juggle, historyVars
<1>1. ASSUME NEW c \in Client, NEW i \in Id, AttachGet(c, i) PROVE MapTypeOK'
  BY Zenon, <1>1 DEF AttachGet
<1>2. ASSUME NEW c \in Client, AttachState(c) PROVE MapTypeOK'
  BY <1>2 DEF AttachState
<1>3. ASSUME NEW c \in Client, AttachRecord(c) PROVE MapTypeOK'
  BY Zenon, <1>3 DEF AttachRecord
<1>4. ASSUME NEW c \in Client, NEW i \in Id, DetachLocked(c, i) PROVE MapTypeOK'
  <2>1. /\ attachments' = [attachments EXCEPT ![i] = @ \ {c}]
        /\ clientSession' = [clientSession EXCEPT ![c] = NoId]
        /\ juggled' \in {juggled, juggled \cup {c}} /\ UNCHANGED <<gone, raced>>
    BY Zenon, <1>4 DEF DetachLocked, Leave
  <2>2. Continue(c, "detach", i) \/ Finish(c)
    BY Zenon, <1>4 DEF DetachLocked, Leave
  <2>3. /\ handler' \in [Client -> [pc: HandlerPc \cup Aloof, id: Id \cup {NoId}]]
        /\ \A d \in Client : handler'[d].pc # "read" => handler'[d].id \in Id
    <3>1. CASE Continue(c, "detach", i)
      BY Zenon, <3>1
    <3>2. CASE Finish(c)
      BY Zenon, <3>2
    <3> QED
      BY Zenon, <2>2, <3>1, <3>2
  <2>4. attachments' \in [Id -> SUBSET Client] /\ clientSession' \in [Client -> Id \cup {NoId}]
    BY Zenon, <2>1
  <2> QED
    BY Zenon, <2>1, <2>3, <2>4
<1>5. ASSUME NEW c \in Client, DetachState(c) PROVE MapTypeOK'
  BY Zenon, <1>5 DEF DetachState
<1>6. ASSUME NEW c \in Client, Disconnect(c) PROVE MapTypeOK'
  <2>1. CASE clientSession[c] = NoId
    BY Zenon, <1>6, <2>1 DEF Disconnect
  <2>2. CASE clientSession[c] # NoId
    <3>1. clientSession[c] \in Id
      BY Zenon, <2>2
    <3>2. attachments' \in [Id -> SUBSET Client]
      BY <1>6, <2>2 DEF Disconnect, Leave
    <3>3. \/ handler' = [handler EXCEPT ![c] = Ready]
          \/ handler' = [handler EXCEPT ![c] = [pc |-> "detach", id |-> clientSession[c]]]
      BY Zenon, <1>6, <2>2 DEF Disconnect, Leave
    <3>4. /\ clientSession' = [clientSession EXCEPT ![c] = NoId] /\ gone' = gone \cup {c}
          /\ UNCHANGED <<juggled, raced>>
      BY Zenon, <1>6, <2>2 DEF Disconnect
    <3>5. handler' \in [Client -> [pc: HandlerPc \cup Aloof, id: Id \cup {NoId}]]
      BY <3>1, <3>3
    <3>6. \A d \in Client : handler'[d].pc # "read" => handler'[d].id \in Id
      BY <3>1, <3>3
    <3> QED
      BY Zenon, <3>2, <3>4, <3>5, <3>6
  <2> QED
    BY Zenon, <2>1, <2>2
<1>7. CASE SessionStep
  BY Zenon, <1>7 DEF SessionStep, daemonVars
<1>8. CASE UNCHANGED vars
  BY Zenon, <1>8 DEF vars, daemonVars
<1>9. ASSUME NEW c \in Client, Aside(c) PROVE MapTypeOK'
  BY <1>9 DEF Aside, mapVars, Aloof
<1> QED
  BY Zenon, <1>1, <1>2, <1>3, <1>4, <1>5, <1>6, <1>7, <1>8, <1>9 DEF Next, MapsMove

(* Every step keeps the session of clientSession among the watched ones.   *)
LEMMA CurrentStep == MapTypeOK /\ CurrentIsAttached /\ [MapsMove]_vars => CurrentIsAttached'
<1> SUFFICES ASSUME MapTypeOK, CurrentIsAttached, [MapsMove]_vars PROVE CurrentIsAttached'
  BY Zenon
<1> USE ClientAssumption DEF MapTypeOK, CurrentIsAttached
<1>1. ASSUME NEW c \in Client, NEW i \in Id, AttachGet(c, i) PROVE CurrentIsAttached'
  BY Zenon, <1>1 DEF AttachGet
<1>2. ASSUME NEW c \in Client, AttachState(c) PROVE CurrentIsAttached'
  BY Zenon, <1>2 DEF AttachState
<1>3. ASSUME NEW c \in Client, AttachRecord(c) PROVE CurrentIsAttached'
  BY Zenon, <1>3 DEF AttachRecord
<1>4. ASSUME NEW c \in Client, NEW i \in Id, DetachLocked(c, i) PROVE CurrentIsAttached'
  BY Zenon, <1>4 DEF DetachLocked, Leave
<1>5. ASSUME NEW c \in Client, DetachState(c) PROVE CurrentIsAttached'
  BY Zenon, <1>5 DEF DetachState
<1>6. ASSUME NEW c \in Client, Disconnect(c) PROVE CurrentIsAttached'
  BY <1>6 DEF Disconnect, Leave
<1>7. CASE SessionStep
  BY Zenon, <1>7 DEF SessionStep, daemonVars
<1>8. CASE UNCHANGED vars
  BY Zenon, <1>8 DEF vars, daemonVars
<1>9. ASSUME NEW c \in Client, Aside(c) PROVE CurrentIsAttached'
  BY Zenon, <1>9 DEF Aside, mapVars
<1> QED
  BY Zenon, <1>1, <1>2, <1>3, <1>4, <1>5, <1>6, <1>7, <1>8, <1>9 DEF Next, MapsMove

(* Nobody is attached at the start.                                        *)
LEMMA InitHolds == Init => TypeOK /\ MapTypeOK /\ CurrentIsAttached /\ RegisteredIsLive
BY RegInitHolds DEF Init, TypeOK, MapTypeOK, CurrentIsAttached, HandlerPc, Ready

(* In Attachments no handler is elsewhere.                                 *)
LEMMA TypeStep == TypeOK /\ [Next]_vars => TypeOK'
<1> SUFFICES ASSUME TypeOK, [Next]_vars PROVE TypeOK'
  BY Zenon
<1>1. MapTypeOK
  BY Zenon DEF TypeOK, MapTypeOK
<1>2. MapTypeOK'
  BY Zenon, <1>1, MapTypeStep DEF MapsMove
<1>3. \A c \in Client : handler'[c].pc \in HandlerPc
  <2> USE DEF TypeOK, HandlerPc, Ready, Continue, Finish
  <2>1. ASSUME NEW c \in Client, NEW i \in Id, AttachGet(c, i) \/ DetachLocked(c, i)
        PROVE  \A d \in Client : handler'[d].pc \in HandlerPc
    BY SMTT(30), <2>1 DEF AttachGet, DetachLocked, Leave
  <2>2. ASSUME NEW c \in Client, AttachState(c) \/ AttachRecord(c) \/ DetachState(c)
        PROVE  \A d \in Client : handler'[d].pc \in HandlerPc
    BY SMTT(30), <2>2 DEF AttachState, AttachRecord, DetachState
  <2>3. ASSUME NEW c \in Client, Disconnect(c)
        PROVE  \A d \in Client : handler'[d].pc \in HandlerPc
    BY <2>3 DEF Disconnect, Leave
  <2>4. CASE UNCHANGED handler
    BY Zenon, <2>4
  <2> QED
    BY Zenon, <2>1, <2>2, <2>3, <2>4 DEF Next, SessionStep, daemonVars, vars
<1>4. handler' \in [Client -> [pc: HandlerPc, id: Id \cup {NoId}]]
  BY Zenon, <1>2, <1>3 DEF MapTypeOK
<1> QED
  BY Zenon, <1>2, <1>4 DEF MapTypeOK, TypeOK

(* The steps of Attachments are among those the lemmas are about.          *)
LEMMA NextMovesMaps == (TypeOK => MapTypeOK) /\ ([Next]_vars => [MapsMove]_vars)
BY Zenon DEF MapsMove, TypeOK, MapTypeOK

(* The daemon's maps are always well typed.                                *)
THEOREM TypeCorrect == Spec => []TypeOK
BY InitHolds, TypeStep, PTL DEF Spec

(* detachClient always finds the client among the watchers of the session  *)
(* clientSession names, for any number of clients and sessions.            *)
THEOREM CurrentCorrect == Spec => []CurrentIsAttached
BY InitHolds, TypeStep, NextMovesMaps, CurrentStep, PTL DEF Spec

(* The daemon uses the session map only through its operations, so that    *)
(* what is proved of RegSpec holds under it.                               *)
THEOREM RegistryImplemented == Spec => RegSpec
<1>1. Init => RegInit
  BY Zenon DEF Init
<1> QED
  BY <1>1, TypeCorrect, NextMovesMaps, StepIsRegStep, PTL DEF Spec, RegSpec

-----------------------------------------------------------------------------
(* A client that keeps to one session at a time watches none but the one   *)
(* clientSession names, and a client that is gone is past its handlers     *)
(* except for the last Detach.                                             *)
Agree ==
    /\ \A c \in Client \ juggled, i \in Id : c \in attachments[i] => clientSession[c] = i
    /\ \A c \in gone : clientSession[c] = NoId /\ handler[c].pc \in {"read", "detach"}

(* Every step keeps the two maps in agreement.                             *)
LEMMA AgreeStep == MapTypeOK /\ CurrentIsAttached /\ Agree /\ [MapsMove]_vars => Agree'
<1> SUFFICES ASSUME MapTypeOK, CurrentIsAttached, Agree, [MapsMove]_vars PROVE Agree'
  BY Zenon
<1> USE ClientAssumption DEF MapTypeOK, CurrentIsAttached, Agree, Ready,
        Continue, Finish, Reading, Juggle, historyVars
<1>1. ASSUME NEW c \in Client, NEW i \in Id, AttachGet(c, i) PROVE Agree'
  BY Zenon, <1>1 DEF AttachGet
<1>2. ASSUME NEW c \in Client, AttachState(c) PROVE Agree'
  BY Zenon, <1>2 DEF AttachState
<1>3. ASSUME NEW c \in Client, AttachRecord(c) PROVE Agree'
  BY SMTT(30), <1>3 DEF AttachRecord
<1>4. ASSUME NEW c \in Client, NEW i \in Id, DetachLocked(c, i) PROVE Agree'
  BY <1>4 DEF DetachLocked, Leave
<1>5. ASSUME NEW c \in Client, DetachState(c) PROVE Agree'
  BY Zenon, <1>5 DEF DetachState
<1>6. ASSUME NEW c \in Client, Disconnect(c) PROVE Agree'
  <2>1. CASE clientSession[c] = NoId
    BY <1>6, <2>1 DEF Disconnect
  <2>2. CASE clientSession[c] # NoId
    <3>1. /\ attachments' = [attachments EXCEPT ![clientSession[c]] = @ \ {c}]
          /\ clientSession' = [clientSession EXCEPT ![c] = NoId]
          /\ gone' = gone \cup {c} /\ UNCHANGED juggled
      BY Zenon, <1>6, <2>2 DEF Disconnect, Leave
    <3>2. \A d \in Client \ juggled, i \in Id :
             d \in attachments'[i] => clientSession'[d] = i
      BY Zenon, <2>2, <3>1
    <3>3. /\ \A d \in Client \ {c} : handler'[d] = handler[d]
          /\ handler'[c].pc \in {"read", "detach"}
      BY <1>6, <2>2 DEF Disconnect, Leave
    <3>4. \A d \in gone' : clientSession'[d] = NoId /\ handler'[d].pc \in {"read", "detach"}
      BY <3>1, <3>3
    <3> QED
      BY Zenon, <3>1, <3>2, <3>4
  <2> QED
    BY Zenon, <2>1, <2>2
<1>7. CASE SessionStep
  BY Zenon, <1>7 DEF SessionStep, daemonVars
<1>8. CASE UNCHANGED vars
  BY Zenon, <1>8 DEF vars, daemonVars
<1>9. ASSUME NEW c \in Client, Aside(c) PROVE Agree'
  BY <1>9 DEF Aside, mapVars, Aloof
<1> QED
  BY Zenon, <1>1, <1>2, <1>3, <1>4, <1>5, <1>6, <1>7, <1>8, <1>9 DEF Next, MapsMove

(* Then a client that is gone is among no watchers.                        *)
LEMMA AgreeForgets == Agree /\ MapTypeOK => DisconnectedIsForgotten
BY Zenon, ClientAssumption DEF Agree, MapTypeOK, DisconnectedIsForgotten

(* A disconnected client that kept to one session at a time leaves nothing *)
(* behind, as the comment on detachClient says.                            *)
THEOREM ForgottenCorrect == Spec => []DisconnectedIsForgotten
<1>1. Init => Agree
  BY Zenon DEF Init, Agree
<1> QED
  BY <1>1, AgreeForgets, NextMovesMaps, AgreeStep, TypeCorrect, CurrentCorrect, PTL DEF Spec

-----------------------------------------------------------------------------
(* From the Attach of its first client on, a session is alive, as long as  *)
(* no Detach has overlapped an attach under its ID.                        *)
WatchedAlive == \A i \in Registered \ raced : Watched(i) => state[sessions[i]] = "alive"

(* Every step keeps the watched sessions alive.                            *)
LEMMA WatchedStep ==
    MapTypeOK /\ RegisteredIsLive /\ WatchedAlive /\ [MapsMove]_vars => WatchedAlive'
<1> SUFFICES ASSUME MapTypeOK, RegisteredIsLive, WatchedAlive, [MapsMove]_vars
             PROVE  WatchedAlive'
  BY Zenon
<1> USE HandleAssumption, ClientAssumption DEF MapTypeOK, RegTypeOK, RegisteredIsLive,
        WatchedAlive, Watched, Registered, Juggle, historyVars, Ready, Continue, Finish, Reading, HandlerPc,
        SessionState, Live, regVars
<1>1. ASSUME NEW c \in Client, NEW i \in Id, AttachGet(c, i) PROVE WatchedAlive'
  BY ZenonT(30), <1>1 DEF AttachGet
<1>2. ASSUME NEW c \in Client, AttachState(c) PROVE WatchedAlive'
  BY <1>2 DEF AttachState, Attach
<1>3. ASSUME NEW c \in Client, AttachRecord(c) PROVE WatchedAlive'
  BY <1>3 DEF AttachRecord
<1>4. ASSUME NEW c \in Client, NEW i \in Id, DetachLocked(c, i) PROVE WatchedAlive'
  BY SMTT(30), <1>4 DEF DetachLocked, Leave
<1>5. ASSUME NEW c \in Client, DetachState(c) PROVE WatchedAlive'
  BY SMTT(30), <1>5 DEF DetachState, Detach
<1>6. ASSUME NEW c \in Client, Disconnect(c) PROVE WatchedAlive'
  BY <1>6 DEF Disconnect, Leave
<1>7. CASE SessionStep
  <2>1. ASSUME NEW h \in Handle, Create(h), UNCHANGED daemonVars PROVE WatchedAlive'
    BY SMTT(30), <2>1 DEF Create, daemonVars
  <2>2. ASSUME NEW h \in Handle, Exit(h), UNCHANGED daemonVars PROVE WatchedAlive'
    BY <2>2 DEF Exit, daemonVars
  <2>3. ASSUME NEW h \in Handle, Notify(h), UNCHANGED daemonVars PROVE WatchedAlive'
    BY Zenon, <2>3 DEF Notify, daemonVars
  <2>4. ASSUME NEW i \in Id, Kill(i), UNCHANGED daemonVars PROVE WatchedAlive'
    BY <2>4 DEF Kill, daemonVars
  <2> QED
    BY Zenon, <1>7, <2>1, <2>2, <2>3, <2>4 DEF SessionStep
<1>8. CASE UNCHANGED vars
  BY Zenon, <1>8 DEF vars, daemonVars
<1>9. ASSUME NEW c \in Client, Aside(c) PROVE WatchedAlive'
  BY <1>9 DEF Aside, mapVars, Aloof, Kill
<1> QED
  BY Zenon, <1>1, <1>2, <1>3, <1>4, <1>5, <1>6, <1>7, <1>8, <1>9 DEF Next, MapsMove

(* Watched sessions are those with attachments, and some more.             *)
LEMMA AliveWatched == WatchedAlive => AttachedIsAlive
BY Zenon DEF WatchedAlive, AttachedIsAlive, Watched

(* A watched session is alive, whatever the clients do, until a Detach     *)
(* overlaps an attach under its ID.                                        *)
THEOREM AliveCorrect == Spec => []AttachedIsAlive
<1>1. Init => WatchedAlive
  BY DEF Init, RegInit, WatchedAlive, Registered
<1> QED
  BY <1>1, AliveWatched, NextMovesMaps, WatchedStep, TypeCorrect, RegistryImplemented, RegLiveCorrect, PTL DEF Spec

-----------------------------------------------------------------------------
(* The handler as Attachments sees it.                                     *)
Seen == [c \in Client |-> IF handler[c].pc \in HandlerPc THEN handler[c] ELSE Ready]

(* A handler that goes on within Attachments is seen to.                   *)
LEMMA SeenMoves ==
    ASSUME MapTypeOK, NEW c \in Client, NEW x, x.pc \in HandlerPc,
           handler' = [handler EXCEPT ![c] = x]
    PROVE  Seen' = [Seen EXCEPT ![c] = x]
  BY Zenon DEF MapTypeOK, Seen

(* One that stays outside is not.                                          *)
LEMMA SeenAside ==
    ASSUME MapTypeOK, NEW c \in Client, Aside(c)
    PROVE  Seen' = Seen
  <1>1. PICK x \in {Ready} \cup [pc: Aloof, id: Id] : handler' = [handler EXCEPT ![c] = x]
    BY Zenon DEF Aside
  <1>2. Seen[c] = Ready
    BY Zenon DEF Aside, Seen, Aloof, HandlerPc
  <1>3. x = Ready \/ x.pc \notin HandlerPc
    BY Zenon, <1>1 DEF Aloof, HandlerPc
  <1>4. Seen'[c] = Ready
    BY Zenon, <1>1, <1>3 DEF Seen, MapTypeOK
  <1>5. \A d \in Client \ {c} : Seen'[d] = Seen[d]
    BY Zenon, <1>1 DEF Seen, MapTypeOK
  <1> QED
    BY <1>2, <1>4, <1>5 DEF Seen

(* A step of Attachments as it sees the handlers.                          *)
SeenNext == [Watching!Next]_(Watching!vars)

(* Every step that the maps and the handlers take is one of Attachments.   *)
LEMMA SeenStep ==
    ASSUME MapTypeOK, [MapsMove]_vars
    PROVE  SeenNext
  <1>1. \A c \in Client : handler[c].pc \in HandlerPc => Seen[c] = handler[c]
    BY Zenon DEF Seen
  <1>2. \A c \in Client : Seen[c].pc # "read" => handler[c] = Seen[c]
    BY Zenon DEF Seen, Ready
  <1>3. Seen = [c \in Client |-> IF handler[c].pc \in HandlerPc THEN handler[c] ELSE Ready]
    BY Zenon DEF Seen
  <1>4. Seen' = [c \in Client |-> IF handler[c].pc \in HandlerPc THEN handler[c] ELSE Ready]'
    BY Zenon DEF Seen
  <1>5. /\ \A c \in Client, p \in HandlerPc : \A i :
              handler' = [handler EXCEPT ![c] = [pc |-> p, id |-> i]] =>
                 Seen' = [Seen EXCEPT ![c] = [pc |-> p, id |-> i]]
        /\ \A c \in Client :
              handler' = [handler EXCEPT ![c] = Ready] => Seen' = [Seen EXCEPT ![c] = Ready]
    <2>1. ASSUME NEW c \in Client, NEW p \in HandlerPc, NEW i,
                 handler' = [handler EXCEPT ![c] = [pc |-> p, id |-> i]]
          PROVE  Seen' = [Seen EXCEPT ![c] = [pc |-> p, id |-> i]]
      <3> DEFINE x == [pc |-> p, id |-> i]
      <3>1. x.pc \in HandlerPc /\ handler' = [handler EXCEPT ![c] = x]
        BY Zenon, <2>1
      <3> HIDE DEF x
      <3>2. Seen' = [Seen EXCEPT ![c] = x]
        BY Zenon, <3>1, SeenMoves
      <3> QED
        BY Zenon, <3>2 DEF x
    <2>2. ASSUME NEW c \in Client, handler' = [handler EXCEPT ![c] = Ready]
          PROVE  Seen' = [Seen EXCEPT ![c] = Ready]
      <3>1. Ready.pc \in HandlerPc
        BY Zenon DEF Ready, HandlerPc
      <3> QED
        BY Zenon, <2>2, <3>1, SeenMoves
    <2> QED
      BY Zenon, <2>1, <2>2
  <1>6. UNCHANGED handler => UNCHANGED Seen
    BY Zenon DEF Seen
  <1> USE DEF regVars, Watching!regVars, historyVars, Watching!historyVars, Ready, Watching!Ready
  <1>7. ASSUME NEW c \in Client, NEW i \in Id, AttachGet(c, i) PROVE SeenNext
    <2>1. Seen[c] = Ready /\ Seen' = [Seen EXCEPT ![c] = [pc |-> "attach", id |-> i]]
      <3>1. handler[c] = Ready /\ handler' = [handler EXCEPT ![c] = [pc |-> "attach", id |-> i]]
        BY Zenon, <1>7 DEF AttachGet, Reading, Continue
      <3>2. Ready.pc \in HandlerPc /\ "attach" \in HandlerPc
        BY Zenon DEF HandlerPc
      <3> QED
        <4>1. Seen[c] = Ready
          BY Zenon, <1>1, <3>1, <3>2
        <4>2. Seen' = [Seen EXCEPT ![c] = [pc |-> "attach", id |-> i]]
          BY Zenon, <1>5, <3>1, <3>2
        <4> QED
          BY Zenon, <4>1, <4>2
    <2>2. Watching!AttachGet(c, i)
      BY Zenon, <1>3, <1>4, <1>7, <2>1
         DEF AttachGet, Reading, Watching!AttachGet, Watching!Reading, Watching!Continue
    <2> QED
      BY Zenon, <2>2 DEF SeenNext, Watching!Next
  <1>8. ASSUME NEW c \in Client, AttachState(c) PROVE SeenNext
    <2>1. Seen[c] = handler[c]
      BY Zenon, <1>1, <1>8 DEF AttachState, HandlerPc
    <2>2. CASE Attach(handler[c].id) /\ Continue(c, "record", handler[c].id)
      <3>1. Seen' = [Seen EXCEPT ![c] = [pc |-> "record", id |-> handler[c].id]]
        BY Zenon, <1>5, <2>2 DEF Continue, HandlerPc
      <3>2. Watching!AttachState(c)
        BY Zenon, <1>3, <1>4, <1>8, <2>1, <2>2, <3>1
           DEF AttachState, Watching!AttachState, Watching!Continue, Attach, Watching!Attach
      <3> QED
        BY Zenon, <3>2 DEF SeenNext, Watching!Next
    <2>3. CASE sessions[handler[c].id] = NoHandle /\ Finish(c) /\ UNCHANGED regVars
      <3>1. Seen' = [Seen EXCEPT ![c] = Ready]
        BY Zenon, <1>5, <2>3 DEF Finish
      <3>2. Watching!AttachState(c)
        BY Zenon, <1>3, <1>4, <1>8, <2>1, <2>3, <3>1
           DEF AttachState, Watching!AttachState, Watching!Finish
      <3> QED
        BY Zenon, <3>2 DEF SeenNext, Watching!Next
    <2> QED
      BY Zenon, <1>8, <2>2, <2>3 DEF AttachState
  <1>9. ASSUME NEW c \in Client, AttachRecord(c) PROVE SeenNext
    <2>1. Seen[c] = handler[c] /\ Seen' = [Seen EXCEPT ![c] = Ready]
      BY Zenon, <1>1, <1>5, <1>9 DEF AttachRecord, HandlerPc, Finish
    <2>2. Watching!AttachRecord(c)
      BY Zenon, <1>3, <1>4, <1>9, <2>1
         DEF AttachRecord, Watching!AttachRecord, Watching!Finish, Juggle, Watching!Juggle
    <2> QED
      BY Zenon, <2>2 DEF SeenNext, Watching!Next
  <1>10. ASSUME NEW c \in Client, NEW i \in Id, Leave(c, i) PROVE Watching!Leave(c, i)
    <2>1. CASE attachments[i] # {} /\ attachments'[i] = {}
      <3>1. Seen' = [Seen EXCEPT ![c] = [pc |-> "detach", id |-> i]]
        BY Zenon, <1>5, <1>10, <2>1 DEF Leave, Continue, HandlerPc
      <3> QED
        BY Zenon, <1>3, <1>4, <1>10, <2>1, <3>1 DEF Leave, Watching!Leave, Watching!Continue
    <2>2. CASE ~(attachments[i] # {} /\ attachments'[i] = {})
      <3>1. Seen' = [Seen EXCEPT ![c] = Ready]
        BY Zenon, <1>5, <1>10, <2>2 DEF Leave, Finish
      <3> QED
        BY Zenon, <1>3, <1>4, <1>10, <2>2, <3>1 DEF Leave, Watching!Leave, Watching!Finish
    <2> QED
      BY Zenon, <2>1, <2>2
  <1>11. ASSUME NEW c \in Client, Reading(c) PROVE Watching!Reading(c)
    <2>1. Seen[c] = Ready
      BY <1>1, <1>11 DEF Reading, HandlerPc
    <2> QED
      BY Zenon, <1>3, <1>11, <2>1 DEF Reading, Watching!Reading
  <1>12. ASSUME NEW c \in Client, NEW i \in Id, DetachLocked(c, i) PROVE SeenNext
    <2>1. Watching!DetachLocked(c, i)
      BY Zenon, <1>10, <1>11, <1>12 DEF DetachLocked, Watching!DetachLocked, Juggle, Watching!Juggle
    <2> QED
      BY Zenon, <2>1 DEF SeenNext, Watching!Next
  <1>13. ASSUME NEW c \in Client, DetachState(c) PROVE SeenNext
    <2>1. Seen[c] = handler[c] /\ Seen' = [Seen EXCEPT ![c] = Ready]
      BY Zenon, <1>1, <1>5, <1>13 DEF DetachState, HandlerPc, Finish
    <2>2. \A i : Watched(i) <=> Watching!Watched(i)
      <3>1. \A d \in Client : \A i : handler[d] = [pc |-> "record", id |-> i]
                                 <=> Seen[d] = [pc |-> "record", id |-> i]
        BY <1>1, <1>2 DEF HandlerPc
      <3> QED
        BY Zenon, <1>3, <3>1 DEF Watched, Watching!Watched
    <2>3. Watching!DetachState(c)
      <3>1. /\ handler[c].pc = "detach"
            /\ raced' = IF Watched(handler[c].id) THEN raced \cup {handler[c].id} ELSE raced
            /\ UNCHANGED <<attachments, clientSession, gone, juggled>>
            /\ \/ Detach(handler[c].id)
               \/ sessions[handler[c].id] = NoHandle /\ UNCHANGED regVars
        BY Zenon, <1>13 DEF DetachState
      <3>2. \/ Watching!Detach(handler[c].id)
            \/ sessions[handler[c].id] = NoHandle /\ UNCHANGED regVars
        BY Zenon, <3>1 DEF Detach, Watching!Detach
      <3> QED
        BY Zenon, <1>3, <1>4, <2>1, <2>2, <3>1, <3>2 DEF Watching!DetachState, Watching!Finish
    <2> QED
      BY Zenon, <2>3 DEF SeenNext, Watching!Next
  <1>14. ASSUME NEW c \in Client, Disconnect(c) PROVE SeenNext
    <2>1. CASE clientSession[c] = NoId
      <3>1. Watching!Disconnect(c)
        BY Zenon, <1>3, <1>4, <1>6, <1>11, <1>14, <2>1 DEF Disconnect, Watching!Disconnect
      <3> QED
        BY Zenon, <3>1 DEF SeenNext, Watching!Next
    <2>2. CASE clientSession[c] # NoId
      <3>1. clientSession[c] \in Id
        BY Zenon, <2>2 DEF MapTypeOK
      <3>2. Watching!Disconnect(c)
        BY Zenon, <1>10, <1>11, <1>14, <2>2, <3>1 DEF Disconnect, Watching!Disconnect
      <3> QED
        BY Zenon, <3>2 DEF SeenNext, Watching!Next
    <2> QED
      BY Zenon, <2>1, <2>2
  <1>15. ASSUME UNCHANGED Seen, UNCHANGED mapVars, UNCHANGED regVars PROVE SeenNext
    BY Zenon, <1>3, <1>4, <1>15 DEF SeenNext, Watching!vars, Watching!daemonVars, mapVars
  <1>16. ASSUME UNCHANGED Seen, UNCHANGED mapVars, NEW i \in Id, Kill(i) PROVE SeenNext
    <2>1. Watching!Kill(i) /\ UNCHANGED Watching!daemonVars
      BY Zenon, <1>3, <1>4, <1>16 DEF Kill, Watching!Kill, Watching!daemonVars, mapVars
    <2> QED
      BY Zenon, <2>1 DEF SeenNext, Watching!Next, Watching!SessionStep
  <1>17. CASE SessionStep
    <2>1. UNCHANGED Seen /\ UNCHANGED mapVars
      BY Zenon, <1>6, <1>17 DEF SessionStep, daemonVars, mapVars
    <2>2. UNCHANGED Watching!daemonVars
      BY Zenon, <1>3, <1>4, <2>1 DEF Watching!daemonVars, mapVars
    <2>3. ASSUME NEW h \in Handle, Create(h) \/ Exit(h) \/ Notify(h) PROVE SeenNext
      <3>1. Watching!Create(h) \/ Watching!Exit(h) \/ Watching!Notify(h)
        <4>1. Create(h) => Watching!Create(h)
          <5>1. Watching!Registered = Registered
            BY Zenon DEF Registered, Watching!Registered
          <5>2. Watching!Cardinality(Watching!Registered) = Cardinality(Registered)
            BY <5>1, Zenon DEF Cardinality, Watching!Cardinality
          <5> QED
            BY Zenon, <5>1, <5>2 DEF Create, Watching!Create
        <4>2. Exit(h) => Watching!Exit(h)
          BY Zenon DEF Exit, Watching!Exit, Live, Watching!Live
        <4>3. Notify(h) => Watching!Notify(h)
          BY Zenon DEF Notify, Watching!Notify
        <4> QED
          BY Zenon, <2>3, <4>1, <4>2, <4>3
      <3> QED
        BY Zenon, <2>2, <3>1 DEF SeenNext, Watching!Next, Watching!SessionStep
    <2> QED
      BY Zenon, <1>16, <1>17, <2>1, <2>3 DEF SessionStep
  <1>18. ASSUME NEW c \in Client, Aside(c) PROVE SeenNext
    <2>1. UNCHANGED Seen
      BY Zenon, <1>18, SeenAside
    <2> QED
      BY Zenon, <1>15, <1>16, <1>18, <2>1 DEF Aside
  <1>19. CASE UNCHANGED vars
    BY Zenon, <1>6, <1>15, <1>19 DEF vars, daemonVars, mapVars
  <1>20. SeenNext
    BY Zenon, <1>7, <1>8, <1>9, <1>12, <1>13, <1>14, <1>17, <1>18, <1>19 DEF MapsMove, Next
  <1> QED
    BY Zenon, <1>20

-----------------------------------------------------------------------------
(* Requests and programs.                                                  *)

Op == OneId \cup {"none", "list", "status", "shutdown", "killPrefix", "execSync", "execPrefix"}

FrameType == [type: {"ok", "error", "chunk", "end"}, bad: BOOLEAN]

(* Every variable of Requests and Cli that matters here has its type; a    *)
(* request for one session names one.                                      *)
AskTypeOK ==
    /\ ask \in [Client -> [op: Op, ids: SUBSET Id]]
    /\ \A c \in Client : ask[c].op \in OneId => \E i \in Id : ask[c].ids = {i}
    /\ out \in [Client -> Seq(FrameType)]
    /\ left \in [Client -> SUBSET Id] /\ found \in [Client -> Handle \cup {NoHandle}]
    /\ bad \in [Client -> BOOLEAN]
    /\ goals \in [Client -> SUBSET Id] /\ reached \in [Client -> SUBSET Handle]
    /\ at \in [Client -> {"dial", "read", "leave", "dump", "stream", "ended"}]
    /\ code \in [Client -> Nat] /\ cut \subseteq Client

(* A handler under way works on the request of its client, and only a      *)
(* process that has ended has a connection that is gone.                   *)
InHand(c) ==
    /\ handler[c].pc \in {"attach", "record"} => ask[c].op = "attach"
    /\ handler[c].pc = "detach" => ask[c].op = "detach" \/ c \in gone
    /\ handler[c].pc \in {"lookup", "write"} =>
          ask[c].op \in {"input", "exec", "execSync", "execPrefix"}
    /\ handler[c].pc = "kill" => ask[c].op = "killPrefix"
    /\ resizing(c) => ask[c].op = "resize"
    /\ handler[c].pc = "write" => found[c] \in Handle /\ Sid[found[c]] = handler[c].id
    /\ c \in gone => at[c] = "ended" /\ ask[c] = Nothing /\ handler[c].pc \in {"read", "detach"}

(* The request a command sends.                                            *)
OpOf(k) ==
    CASE k = "new-session" -> "create"
      [] k = "send-keys" -> "exec"
      [] k = "kill-session" -> "kill"
      [] k = "list-sessions" -> "list"
      [] k = "has-session" -> "info"
      [] k = "capture-pane" -> "attach"
      [] k = "write" -> "input"
      [] OTHER -> k

(* The reply f makes the command end with 0.                               *)
Good(c, f) == f.type # "error" /\ (cmd[c] \in {"killPrefix", "execSync", "execPrefix"} => ~f.bad)

(* The sessions of ID i among the handles r.                               *)
Under(r, i) == {h \in r : Sid[h] = i}

Waiting(c) == at[c] = "read" /\ ask[c] # Nothing
Answered(c) == at[c] = "read" /\ ask[c] = Nothing

(* A loop over targets: those to come were not acted on, the others once   *)
(* unless there was an error.                                              *)
Todo(c) == left[c] \cup {handler[c].id}

InLoop(c) ==
    /\ left[c] \subseteq goals[c] /\ handler[c].id \in goals[c] /\ handler[c].id \notin left[c]
    /\ \A i \in Todo(c) : Under(reached[c], i) = {}
    /\ \A i \in goals[c] \ Todo(c) : Under(reached[c], i) = {} \/ \E h \in Handle : Under(reached[c], i) = {h}
    /\ bad[c] <=> \E i \in goals[c] \ Todo(c) : Under(reached[c], i) = {}
    /\ ask[c].op \in OneId => goals[c] = {handler[c].id}

(* How far process and request are.                                        *)
Stage(c) ==
    /\ at[c] = "dial" => /\ ask[c] = Nothing /\ handler[c].pc = "read" /\ out[c] = <<>>
                         /\ reached[c] = {}
    /\ Waiting(c) => /\ ask[c].op = OpOf(cmd[c]) /\ out[c] = <<>>
                     /\ handler[c].pc = "read" => reached[c] = {}
                     /\ handler[c].pc \in {"lookup", "write", "kill"} => InLoop(c)
    /\ Answered(c) =>
          /\ handler[c].pc = "read" /\ out[c] # <<>>
          /\ OpOf(cmd[c]) = "attach" /\ ~checkError(Head(out[c])) => clientSession[c] \in Id
          /\ cmd[c] \in Acting => (Good(c, Head(out[c])) <=> AllReached(c))
    /\ at[c] = "stream" => /\ cmd[c] = "attach" /\ clientSession[c] \in Id
                           /\ ask[c].op \in {"none", "input"}
    /\ at[c] = "leave" => cmd[c] = "capture-pane"
    /\ at[c] = "dump" => cmd[c] = "history"
    /\ at[c] = "ended" /\ cmd[c] \in Acting /\ c \notin cut =>
          /\ ask[c] = Nothing /\ handler[c].pc \in {"read", "detach"}
          /\ code[c] = 0 <=> AllReached(c)

(* The invariant, but for the sizes.                                       *)
CliInv ==
    /\ MapTypeOK /\ RegisteredIsLive /\ AskTypeOK
    /\ \A c \in Client : InHand(c) /\ Stage(c)

(* What the invariant says of one client stays when nothing of it changes. *)
Same(d) ==
    /\ cmd' = cmd
    /\ handler'[d] = handler[d] /\ ask'[d] = ask[d] /\ out'[d] = out[d]
    /\ left'[d] = left[d] /\ found'[d] = found[d] /\ bad'[d] = bad[d]
    /\ goals'[d] = goals[d] /\ reached'[d] = reached[d]
    /\ at'[d] = at[d] /\ code'[d] = code[d] /\ clientSession'[d] = clientSession[d]
    /\ (d \in gone' <=> d \in gone) /\ (d \in cut' <=> d \in cut)

(* A client that a step leaves alone stays where it is.                    *)
LEMMA SameHolds ==
    ASSUME NEW d \in Client, Same(d), InHand(d), Stage(d)
    PROVE  InHand(d)' /\ Stage(d)'
  <1>1. InHand(d)'
    BY Zenon DEF Same, InHand, resizing
  <1>2. AllReached(d)' <=> AllReached(d)
    BY DEF Same, AllReached
  <1>3. reached'[d] = reached[d]
    BY Zenon DEF Same
  <1>4. InLoop(d)' <=> InLoop(d)
    <2>1. Todo(d)' = Todo(d)
      BY Zenon DEF Same, Todo
    <2> QED
      BY <1>3, <2>1 DEF Same, InLoop
  <1>5. /\ Waiting(d)' <=> Waiting(d)
        /\ Answered(d)' <=> Answered(d)
    BY Zenon DEF Same, Waiting, Answered
  <1>6. \A f : Good(d, f)' <=> Good(d, f)
    BY Zenon DEF Same, Good
  <1> QED
    BY Zenon, <1>1, <1>2, <1>4, <1>5, <1>6 DEF Same, Stage

(* Frames are written behind those under way ...                           *)
LEMMA Written == ASSUME NEW s \in Seq(FrameType), NEW t \in Seq(FrameType)
                 PROVE  s \o t \in Seq(FrameType) /\ <<>> \o t = t
OBVIOUS

(* ... one by one ...                                                      *)
LEMMA WrittenLast == ASSUME NEW s \in Seq(FrameType), NEW f \in FrameType
                     PROVE  Append(s, f) \in Seq(FrameType) /\ Append(s, f) # <<>>
  <1>1. Append(s, f) \in Seq(FrameType) /\ Len(Append(s, f)) = Len(s) + 1 /\ Len(s) \in Nat
    OBVIOUS
  <1> QED
    BY <1>1

(* ... and read from the front.                                            *)
LEMMA ReadFirst == ASSUME NEW s \in Seq(FrameType), s # <<>>
                   PROVE  Tail(s) \in Seq(FrameType)
OBVIOUS

-----------------------------------------------------------------------------
(* What a step of the daemon for client c may change.                      *)
Working(c) ==
    /\ \A d \in Client \ {c} : /\ handler'[d] = handler[d]
                               /\ clientSession'[d] = clientSession[d]
    /\ UNCHANGED <<gone, progVars>>
    /\ ask' = ask \/ ask' = [ask EXCEPT ![c] = Nothing]
    /\ out' = out \/ \E f \in Seq(FrameType) : out' = [out EXCEPT ![c] = @ \o f]
    /\ left' = left \/ \E s \in SUBSET Id : left' = [left EXCEPT ![c] = s]
    /\ found' = found \/ \E h \in Handle : found' = [found EXCEPT ![c] = h]
    /\ bad' = bad \/ \E b \in BOOLEAN : bad' = [bad EXCEPT ![c] = b]
    /\ goals' = goals \/ \E s \in SUBSET Id : goals' = [goals EXCEPT ![c] = s]
    /\ reached' = reached \/ \E h \in Handle : reached' = [reached EXCEPT ![c] = @ \cup {h}]

(* Every step of c does.                                                   *)
Touches(c) == AskTypeOK' /\ \A d \in Client \ {c} : Same(d)

(* A handler keeps the types and leaves the other clients alone.           *)
LEMMA WorkingTouches ==
    ASSUME CliInv, NEW c \in Client, Working(c)
    PROVE  Touches(c)
  <1>1. AskTypeOK
    BY Zenon DEF CliInv
  <1>2. Nothing \in [op: Op, ids: SUBSET Id] /\ Nothing.op \notin OneId
    BY Zenon DEF Nothing, Op, OneId
  <1>3. /\ ask' \in [Client -> [op: Op, ids: SUBSET Id]]
        /\ \A d \in Client : ask'[d].op \in OneId => \E i \in Id : ask'[d].ids = {i}
        /\ \A d \in Client \ {c} : ask'[d] = ask[d]
    <2>1. ask' = ask \/ ask' = [ask EXCEPT ![c] = Nothing]
      BY Zenon DEF Working
    <2>2. CASE ask' = ask
      BY Zenon, <1>1, <2>2 DEF AskTypeOK
    <2>3. CASE ask' = [ask EXCEPT ![c] = Nothing]
      <3>1. ask \in [Client -> [op: Op, ids: SUBSET Id]]
        BY Zenon, <1>1 DEF AskTypeOK
      <3>2. ask'[c] = Nothing /\ \A d \in Client \ {c} : ask'[d] = ask[d]
        BY Zenon, <2>3, <3>1
      <3>3. ask' \in [Client -> [op: Op, ids: SUBSET Id]]
        BY Zenon, <1>2, <2>3, <3>1
      <3>4. \A d \in Client : ask[d].op \in OneId => \E i \in Id : ask[d].ids = {i}
        BY Zenon, <1>1 DEF AskTypeOK
      <3> QED
        BY Zenon, <1>2, <3>2, <3>3, <3>4
    <2> QED
      BY Zenon, <2>1, <2>2, <2>3
  <1>4. out' \in [Client -> Seq(FrameType)] /\ \A d \in Client \ {c} : out'[d] = out[d]
    <2>1. CASE out' = out
      BY Zenon, <1>1, <2>1 DEF AskTypeOK
    <2>2. ASSUME NEW f \in Seq(FrameType), out' = [out EXCEPT ![c] = @ \o f]
          PROVE  out' \in [Client -> Seq(FrameType)] /\ \A d \in Client \ {c} : out'[d] = out[d]
      <3>1. out[c] \o f \in Seq(FrameType)
        BY Zenon, <1>1, Written DEF AskTypeOK
      <3> QED
        BY Zenon, <1>1, <2>2, <3>1 DEF AskTypeOK
    <2> QED
      BY Zenon, <2>1, <2>2 DEF Working
  <1>5. left' \in [Client -> SUBSET Id] /\ \A d \in Client \ {c} : left'[d] = left[d]
    <2>1. left \in [Client -> SUBSET Id]
      BY Zenon, <1>1 DEF AskTypeOK
    <2>2. left' = left \/ \E s \in SUBSET Id : left' = [left EXCEPT ![c] = s]
      BY Zenon DEF Working
    <2> QED
      BY Zenon, <2>1, <2>2
  <1>12. /\ found' \in [Client -> Handle \cup {NoHandle}]
         /\ \A d \in Client \ {c} : found'[d] = found[d]
    <2>1. found \in [Client -> Handle \cup {NoHandle}]
      BY Zenon, <1>1 DEF AskTypeOK
    <2>2. found' = found \/ \E h \in Handle : found' = [found EXCEPT ![c] = h]
      BY Zenon DEF Working
    <2> QED
      BY Zenon, <2>1, <2>2
  <1>6. /\ bad' \in [Client -> BOOLEAN] /\ \A d \in Client \ {c} : bad'[d] = bad[d]
    BY Zenon, <1>1 DEF AskTypeOK, Working
  <1>7. /\ goals' \in [Client -> SUBSET Id] /\ \A d \in Client \ {c} : goals'[d] = goals[d]
    <2>1. goals \in [Client -> SUBSET Id]
      BY Zenon, <1>1 DEF AskTypeOK
    <2>2. goals' = goals \/ \E s \in SUBSET Id : goals' = [goals EXCEPT ![c] = s]
      BY Zenon DEF Working
    <2> QED
      BY Zenon, <2>1, <2>2
  <1>8. reached' \in [Client -> SUBSET Handle] /\ \A d \in Client \ {c} : reached'[d] = reached[d]
    <2>1. reached \in [Client -> SUBSET Handle]
      BY Zenon, <1>1 DEF AskTypeOK
    <2>2. reached' = reached \/ \E h \in Handle : reached' = [reached EXCEPT ![c] = @ \cup {h}]
      BY Zenon DEF Working
    <2> QED
      BY Zenon, <2>1, <2>2
  <1>9. UNCHANGED <<cmd, at, code, cut, gone>>
    BY Zenon DEF Working, progVars
  <1>10. AskTypeOK'
    BY Zenon, <1>1, <1>3, <1>4, <1>5, <1>6, <1>7, <1>8, <1>9, <1>12 DEF AskTypeOK
  <1>11. \A d \in Client \ {c} : Same(d)
    BY Zenon, <1>3, <1>4, <1>5, <1>6, <1>7, <1>8, <1>9, <1>12 DEF Same, Working
  <1> QED
    BY Zenon, <1>10, <1>11 DEF Touches

(* What has to be shown of a step of c.                                    *)
Moved(c) == [MapsMove]_vars /\ Touches(c) /\ InHand(c)' /\ Stage(c)'

(* The commands that act on sessions and the requests they send.           *)
LEMMA ActingOps ==
    ASSUME NEW k \in Acting
    PROVE  /\ OpOf(k) \in {"create", "kill", "killPrefix", "exec", "execSync", "execPrefix",
                           "info", "input", "metaSet", "metaGet"}
           /\ k \in {"killPrefix", "execSync", "execPrefix"} <=> OpOf(k) \notin OneId
  BY Zenon DEF Acting, OpOf, OneId

(* The daemon answers: the reply decides what the exit code will be.       *)
LEMMA AnswerStage ==
    ASSUME CliInv, NEW c \in Client, ask[c] # Nothing, handler'[c].pc = "read",
           c \notin gone, UNCHANGED <<gone, progVars>>,
           NEW f \in Seq(FrameType), f # <<>>, Write(c, f),
           at[c] = "stream" => clientSession'[c] \in Id,
           at[c] = "read" /\ ask[c].op = "attach" /\ f[1].type # "error" =>
               clientSession'[c] \in Id,
           at[c] = "read" /\ cmd[c] \in Acting => (Good(c, f[1]) <=> AllReached(c)')
    PROVE  InHand(c)' /\ Stage(c)'
  <1>1. AskTypeOK /\ InHand(c) /\ Stage(c)
    BY Zenon DEF CliInv
  <1>2. /\ ask'[c] = Nothing /\ out'[c] = out[c] \o f
        /\ UNCHANGED <<cmd, at, code, cut, gone>>
    BY Zenon, <1>1 DEF Write, AskTypeOK, progVars
  <1>3. InHand(c)'
    BY Zenon, <1>2 DEF InHand, resizing
  <1>4. Nothing.op = "none"
    BY Zenon DEF Nothing
  <1>5. CASE at[c] = "read"
    <2>1. Waiting(c) /\ ask[c].op = OpOf(cmd[c]) /\ out[c] = <<>>
      BY Zenon, <1>1, <1>5 DEF Stage, Waiting
    <2>2. out'[c] = f
      BY Zenon, <1>2, <2>1, Written
    <2>3. Head(f) = f[1]
      OBVIOUS
    <2>4. Answered(c)' /\ ~Waiting(c)'
      BY Zenon, <1>2, <1>5 DEF Answered, Waiting
    <2>5. OpOf(cmd[c]) = "attach" /\ ~checkError(f[1]) => clientSession'[c] \in Id
      BY Zenon, <1>5, <2>1 DEF checkError
    <2>6. \A e : Good(c, e)' <=> Good(c, e)
      BY Zenon, <1>2 DEF Good
    <2>7. cmd[c] \in Acting => (Good(c, f[1]) <=> AllReached(c)')
      BY Zenon, <1>5
    <2> QED
      BY Zenon, <1>2, <1>3, <1>5, <2>2, <2>3, <2>4, <2>5, <2>6, <2>7 DEF Stage
  <1>6. CASE at[c] # "read"
    <2>1. at[c] # "dial"
      BY Zenon, <1>1 DEF Stage
    <2>2. ~(at[c] = "ended" /\ cmd[c] \in Acting /\ c \notin cut)
      BY Zenon, <1>1 DEF Stage
    <2>3. ~Waiting(c)' /\ ~Answered(c)'
      BY Zenon, <1>2, <1>6 DEF Answered, Waiting
    <2> QED
      BY Zenon, <1>1, <1>2, <1>3, <1>4, <1>6, <2>1, <2>2, <2>3 DEF Stage
  <1> QED
    BY Zenon, <1>5, <1>6

-----------------------------------------------------------------------------
(* A request for one session names an ID.                                  *)
LEMMA NamedIsId ==
    ASSUME CliInv, NEW c \in Client, ask[c].op \in OneId
    PROVE  Named(c) \in Id /\ ask[c].ids = {Named(c)}
  <1>1. PICK i \in Id : ask[c].ids = {i}
    BY Zenon DEF CliInv, AskTypeOK
  <1>2. The({i}) = i
    BY Zenon DEF The
  <1> QED
    BY Zenon, <1>1, <1>2 DEF Named

(* One of the handles r has ID i.                                          *)
Once(r, i) == \E j \in r : {k \in r : Sid[k] = i} = {j}

(* When no session was acted on twice, to be reached is to be reached once. *)
LEMMA ReachedOnce ==
    ASSUME NEW r, NEW i, Under(r, i) = {} \/ \E h \in Handle : Under(r, i) = {h}
    PROVE  Once(r, i) <=> Under(r, i) # {}
  BY Zenon DEF Under, Once

(* What Write puts out is frames.                                          *)
LEMMA FramesOfReply ==
    /\ \A b \in BOOLEAN : Frame("ok", b) \in FrameType /\ Frame("error", b) \in FrameType
    /\ Frame("ok", FALSE).type = "ok" /\ ~Frame("ok", FALSE).bad
    /\ Frame("error", FALSE).type = "error"
    /\ \A b : Frame("ok", b).type = "ok" /\ Frame("ok", b).bad = b
  BY Zenon DEF Frame, FrameType

(* A reply of one frame is a sequence of frames.                           *)
LEMMA OneFrame ==
    \A x \in FrameType : \E f \in Seq(FrameType) : f = <<x>> /\ f # <<>> /\ f[1] = x
  <1> SUFFICES ASSUME NEW x \in FrameType
               PROVE  \E f \in Seq(FrameType) : f = <<x>> /\ f # <<>> /\ f[1] = x
    BY Zenon
  <1>1. <<x>> \in Seq(FrameType) /\ <<x>> # <<>> /\ <<x>>[1] = x
    OBVIOUS
  <1> QED
    BY <1>1, Zenon

(* The replies of one frame.                                               *)
LEMMA Replies ==
    /\ <<Frame("ok", FALSE)>> \in Seq(FrameType) /\ <<Frame("ok", FALSE)>> # <<>>
    /\ <<Frame("error", FALSE)>> \in Seq(FrameType) /\ <<Frame("error", FALSE)>> # <<>>
  <1>1. \A x \in FrameType : <<x>> \in Seq(FrameType) /\ <<x>> # <<>>
    OBVIOUS
  <1>2. Frame("ok", FALSE) \in FrameType /\ Frame("error", FALSE) \in FrameType
    BY Zenon, FramesOfReply
  <1> QED
    BY <1>1, <1>2, Zenon

(* Handlers with one critical section that leave the maps alone.           *)
LEMMA OneSection ==
    ASSUME CliInv, NEW c \in Client, Reading(c), ask[c] # Nothing, ask[c].op # "attach",
           UNCHANGED <<daemonVars, workVars, progVars>>,
           UNCHANGED regVars \/ (\E h \in Handle : Create(h)) \/ (\E i \in Id : Kill(i)),
           NEW f \in Seq(FrameType), f # <<>>, Write(c, f),
           goals' = goals \/ \E s \in SUBSET Id : goals' = [goals EXCEPT ![c] = s],
           reached' = reached \/ \E h \in Handle : reached' = [reached EXCEPT ![c] = @ \cup {h}],
           at[c] = "read" /\ cmd[c] \in Acting => (Good(c, f[1]) <=> AllReached(c)')
    PROVE  Moved(c)
  <1>1. handler' = handler /\ clientSession' = clientSession /\ gone' = gone
    BY Zenon DEF daemonVars
  <1>2. [MapsMove]_vars
    BY Zenon DEF MapsMove, Next, SessionStep, vars
  <1>3. Working(c)
    BY Zenon, <1>1 DEF Working, workVars, Write
  <1>4. Touches(c)
    BY Zenon, <1>3, WorkingTouches
  <1>5. c \notin gone /\ handler'[c].pc = "read"
    BY <1>1 DEF Reading, Ready
  <1>6. at[c] = "stream" => clientSession'[c] \in Id
    BY Zenon, <1>1 DEF CliInv, Stage
  <1>7. InHand(c)' /\ Stage(c)'
    BY Zenon, <1>1, <1>5, <1>6, AnswerStage
  <1> QED
    BY Zenon, <1>2, <1>4, <1>7 DEF Moved

(* Handlers of requests that are not about acting on sessions.             *)
LEMMA PlainMoves ==
    ASSUME CliInv, NEW c \in Client,
           Reading(c), ask[c].op \in {"list", "status", "shutdown", "scrollback", "history"},
           UNCHANGED <<vars, workVars, goals, reached, progVars>>,
           NEW f \in Seq(FrameType), f # <<>>, Write(c, f)
    PROVE  Moved(c)
  <1>1. UNCHANGED <<daemonVars, regVars>>
    BY Zenon DEF vars
  <1>2. ask[c] # Nothing /\ ask[c].op # "attach"
    BY DEF Nothing
  <1>3. ~(at[c] = "read" /\ cmd[c] \in Acting)
    BY Zenon, <1>2, ActingOps DEF CliInv, Stage, Waiting
  <1> QED
    BY Zenon, <1>1, <1>2, <1>3, OneSection

(* Handlers that act on one session or answer with an error.               *)
LEMMA SingleMoves ==
    ASSUME CliInv, NEW c \in Client, Reading(c), ask[c].op \in OneId \ {"attach"},
           UNCHANGED <<daemonVars, workVars, progVars>>,
           UNCHANGED regVars \/ (\E h \in Handle : Create(h)) \/ (\E i \in Id : Kill(i)),
           Aim(c, ask[c].ids),
           \/ \E h \in Handle : Sid[h] = Named(c) /\ Hit(c, h) /\ ok(c)
           \/ errorFrame(c) /\ UNCHANGED reached
    PROVE  Moved(c)
  <1>1. ask[c] # Nothing /\ ask[c].op # "attach" /\ AskTypeOK
    BY DEF Nothing, OneId, CliInv
  <1>2. PICK s \in SUBSET Id : s = ask[c].ids /\ s = {Named(c)} /\ Named(c) \in Id
    BY Zenon, NamedIsId
  <1>3. goals' = [goals EXCEPT ![c] = s] /\ goals'[c] = s
    BY ZenonT(30), <1>1, <1>2 DEF Aim, AskTypeOK
  <1>4. at[c] = "read" => reached[c] = {}
    <2>1. Stage(c) /\ handler[c] = Ready
      BY Zenon DEF CliInv, Reading
    <2>2. Ready.pc = "read"
      BY Zenon DEF Ready
    <2> QED
      BY Zenon, <1>1, <2>1, <2>2 DEF Stage, Waiting
  <1>5. ASSUME NEW h \in Handle, Sid[h] = Named(c), Hit(c, h), ok(c)
        PROVE  Moved(c)
    <2>1. PICK f \in Seq(FrameType) : f = <<Frame("ok", FALSE)>> /\ f # <<>>
      BY Zenon, FramesOfReply, OneFrame
    <2>2. Write(c, f)
      BY Zenon, <1>5, <2>1 DEF ok
    <2>3. reached' = [reached EXCEPT ![c] = @ \cup {h}] /\ reached'[c] = reached[c] \cup {h}
      BY Zenon, <1>1, <1>5 DEF Hit, AskTypeOK
    <2>4. at[c] = "read" => AllReached(c)'
      <3>1. SUFFICES ASSUME at[c] = "read" PROVE AllReached(c)'
        BY Zenon
      <3>2. reached'[c] = {h}
        BY Zenon, <1>4, <2>3, <3>1
      <3>3. Under({h}, Named(c)) = {h}
        BY Zenon, <1>5 DEF Under
      <3>4. \A i \in s : Under({h}, i) = {h}
        BY Zenon, <1>2, <3>3
      <3>5. \A i \in s : Once({h}, i)
        BY Zenon, <3>4, ReachedOnce
      <3> QED
        BY Zenon, <1>2, <1>3, <3>2, <3>5 DEF AllReached, Once
    <2>5. Good(c, f[1])
      BY Zenon, <2>1, FramesOfReply DEF Good
    <2> QED
      BY Zenon, <1>1, <1>3, <2>1, <2>2, <2>3, <2>4, <2>5, OneSection
  <1>6. CASE errorFrame(c) /\ UNCHANGED reached
    <2>1. PICK f \in Seq(FrameType) : f = <<Frame("error", FALSE)>> /\ f # <<>>
      BY Zenon, FramesOfReply, OneFrame
    <2>2. Write(c, f)
      BY Zenon, <1>6, <2>1 DEF errorFrame
    <2>3. at[c] = "read" => ~AllReached(c)'
      <3>1. SUFFICES ASSUME at[c] = "read" PROVE ~AllReached(c)'
        BY Zenon
      <3>2. reached'[c] = {}
        BY Zenon, <1>4, <1>6, <3>1
      <3> QED
        BY Zenon, <1>2, <1>3, <3>2 DEF AllReached
    <2>4. ~Good(c, f[1])
      BY Zenon, <2>1, FramesOfReply DEF Good
    <2> QED
      BY Zenon, <1>1, <1>3, <1>6, <2>1, <2>2, <2>3, <2>4, OneSection
  <1> QED
    BY Zenon, <1>5, <1>6

-----------------------------------------------------------------------------
(* What the session map holds under an ID.                                 *)
LEMMA EntryOf ==
    ASSUME CliInv, NEW i \in Id, sessions[i] # NoHandle
    PROVE  sessions[i] \in Handle /\ Sid[sessions[i]] = i
  <1>1. i \in Registered
    BY Zenon DEF Registered
  <1> QED
    BY Zenon, <1>1 DEF CliInv, MapTypeOK, RegTypeOK, RegisteredIsLive

(* The handlers with one critical section.                                 *)
LEMMA SectionsMove ==
    ASSUME CliInv, NEW c \in Client, UNCHANGED progVars,
           \/ handleCreate(c) \/ handleInfo(c) \/ handleKill(c) \/ handleMetaSet(c)
           \/ handleMetaGet(c) \/ handleList(c) \/ handleStatus(c) \/ handleShutdown(c)
           \/ handleUpdateEmulatorScrollback(c) \/ handleHistory(c)
    PROVE  Moved(c)
  <1>1. ASSUME ask[c].op \in OneId, Known(Named(c))
        PROVE  sessions[Named(c)] \in Handle /\ Sid[sessions[Named(c)]] = Named(c)
    BY Zenon, <1>1, NamedIsId, EntryOf DEF Known
  <1>2. {"create", "info", "kill", "metaSet", "metaGet"} \subseteq OneId \ {"attach"}
    BY Zenon DEF OneId
  <1>3. CASE handleCreate(c)
    <2>1. Reading(c) /\ ask[c].op \in OneId \ {"attach"} /\ Aim(c, ask[c].ids)
      BY Zenon, <1>2, <1>3 DEF handleCreate, Asked
    <2>2. UNCHANGED <<daemonVars, workVars, progVars>>
      BY Zenon, <1>3 DEF handleCreate
    <2>3. /\ UNCHANGED regVars \/ \E h \in Handle : Create(h)
          /\ \/ \E h \in Handle : Sid[h] = Named(c) /\ Hit(c, h) /\ ok(c)
             \/ errorFrame(c) /\ UNCHANGED reached
      BY Zenon, <1>3 DEF handleCreate
    <2> QED
      BY Zenon, <2>1, <2>2, <2>3, SingleMoves
  <1>4. ASSUME ask[c].op \in OneId, Tell(c)
        PROVE  /\ Aim(c, ask[c].ids)
               /\ \/ \E h \in Handle : Sid[h] = Named(c) /\ Hit(c, h) /\ ok(c)
                  \/ errorFrame(c) /\ UNCHANGED reached
    BY Zenon, <1>1, <1>4 DEF Tell
  <1>5. CASE handleInfo(c) \/ handleMetaGet(c)
    <2>1. Reading(c) /\ ask[c].op \in OneId \ {"attach"} /\ Tell(c)
      BY Zenon, <1>2, <1>5 DEF handleInfo, handleMetaGet, Asked
    <2>2. UNCHANGED <<daemonVars, regVars, workVars, progVars>>
      BY Zenon, <1>5 DEF handleInfo, handleMetaGet, vars
    <2> QED
      BY Zenon, <1>4, <2>1, <2>2, SingleMoves
  <1>6. CASE handleKill(c)
    <2>1. Reading(c) /\ ask[c].op \in OneId \ {"attach"} /\ Aim(c, ask[c].ids)
      BY Zenon, <1>2, <1>6 DEF handleKill, Asked
    <2>2. UNCHANGED <<daemonVars, workVars, progVars>>
      BY Zenon, <1>6 DEF handleKill
    <2>3. CASE Kill(Named(c)) /\ Hit(c, sessions[Named(c)]) /\ ok(c)
      <3>1. Known(Named(c)) /\ Named(c) \in Id
        BY Zenon, <2>1, <2>3, NamedIsId DEF Kill, Known
      <3> QED
        BY Zenon, <1>1, <2>1, <2>2, <2>3, <3>1, SingleMoves
    <2>4. CASE errorFrame(c) /\ UNCHANGED <<regVars, reached>>
      BY Zenon, <2>1, <2>2, <2>4, SingleMoves
    <2> QED
      BY Zenon, <1>6, <2>3, <2>4 DEF handleKill
  <1>7. CASE handleMetaSet(c)
    <2>1. Reading(c) /\ ask[c].op \in OneId \ {"attach"} /\ Aim(c, ask[c].ids)
      BY Zenon, <1>2, <1>7 DEF handleMetaSet, Asked
    <2>2. UNCHANGED <<daemonVars, regVars, workVars, progVars>>
      BY Zenon, <1>7 DEF handleMetaSet, vars
    <2>3. \/ \E h \in Handle : Sid[h] = Named(c) /\ Hit(c, h) /\ ok(c)
          \/ errorFrame(c) /\ UNCHANGED reached
      BY Zenon, <1>1, <1>7, <2>1 DEF handleMetaSet, MetaSet
    <2> QED
      BY Zenon, <2>1, <2>2, <2>3, SingleMoves
  <1>8. /\ <<Frame("ok", FALSE)>> \in Seq(FrameType) /\ <<Frame("ok", FALSE)>> # <<>>
        /\ <<Frame("error", FALSE)>> \in Seq(FrameType) /\ <<Frame("error", FALSE)>> # <<>>
    BY Zenon, Replies
  <1>9. CASE handleList(c) \/ handleStatus(c) \/ handleShutdown(c)
    <2>1. /\ Reading(c)
          /\ ask[c].op \in {"list", "status", "shutdown", "scrollback", "history"}
          /\ UNCHANGED <<vars, workVars, goals, reached, progVars>>
          /\ Write(c, <<Frame("ok", FALSE)>>)
      BY Zenon, <1>9 DEF handleList, handleStatus, handleShutdown, Asked, ok, tellVars
    <2> QED
      BY Zenon, <1>8, <2>1, PlainMoves
  <1>10. CASE handleUpdateEmulatorScrollback(c)
    <2>1. /\ Reading(c)
          /\ ask[c].op \in {"list", "status", "shutdown", "scrollback", "history"}
          /\ UNCHANGED <<vars, workVars, goals, reached, progVars>>
          /\ Write(c, <<Frame("ok", FALSE)>>) \/ Write(c, <<Frame("error", FALSE)>>)
      BY Zenon, <1>10 DEF handleUpdateEmulatorScrollback, Asked, ok, errorFrame, tellVars
    <2> QED
      BY Zenon, <1>8, <2>1, PlainMoves
  <1>11. CASE handleHistory(c)
    <2>1. /\ Reading(c)
          /\ ask[c].op \in {"list", "status", "shutdown", "scrollback", "history"}
          /\ UNCHANGED <<vars, workVars, goals, reached, progVars>>
      BY Zenon, <1>11 DEF handleHistory, Asked, tellVars
    <2>2. CASE errorFrame(c)
      BY Zenon, <1>8, <2>1, <2>2, PlainMoves DEF errorFrame
    <2>3. ASSUME NEW n \in 0..2,
                 Write(c, Append([k \in 1..n |-> Frame("chunk", FALSE)], Frame("end", FALSE)))
          PROVE  Moved(c)
      <3>1. PICK s \in Seq(FrameType) : s = [k \in 1..n |-> Frame("chunk", FALSE)]
        <4>1. Frame("chunk", FALSE) \in FrameType /\ n \in Nat
          BY DEF Frame, FrameType
        <4>2. [k \in 1..n |-> Frame("chunk", FALSE)] \in [1..n -> FrameType]
          BY Zenon, <4>1
        <4>3. [k \in 1..n |-> Frame("chunk", FALSE)] \in Seq(FrameType)
          <5>1. \A S : \A m \in Nat : \A s \in [1..m -> S] : s \in Seq(S)
            OBVIOUS
          <5> QED
            BY <4>1, <4>2, <5>1, Zenon
        <4> QED
          BY <4>3, Zenon
      <3>2. Frame("end", FALSE) \in FrameType
        BY Zenon DEF Frame, FrameType
      <3>3. Append(s, Frame("end", FALSE)) \in Seq(FrameType)
            /\ Append(s, Frame("end", FALSE)) # <<>>
        BY Zenon, <3>2, WrittenLast
      <3> QED
        BY Zenon, <2>1, <2>3, <3>1, <3>3, PlainMoves
    <2> QED
      BY Zenon, <1>11, <2>2, <2>3 DEF handleHistory
  <1> QED
    BY Zenon, <1>3, <1>5, <1>6, <1>7, <1>9, <1>10, <1>11

-----------------------------------------------------------------------------
(* A handler that goes on: the reply is still to come.                     *)
LEMMA GoOnStage ==
    ASSUME CliInv, NEW c \in Client, ask[c] # Nothing, c \notin gone, handler'[c].pc # "read",
           UNCHANGED <<ask, out, gone, progVars>>, InHand(c)',
           at[c] = "stream" => clientSession'[c] \in Id,
           at[c] = "read" /\ handler'[c].pc \in {"lookup", "write", "kill"} => InLoop(c)'
    PROVE  Stage(c)'
  <1>1. Stage(c)
    BY Zenon DEF CliInv
  <1>2. UNCHANGED <<cmd, at, code, cut>>
    BY Zenon DEF progVars
  <1>3. at[c] # "dial" /\ ~(at[c] = "ended" /\ cmd[c] \in Acting /\ c \notin cut)
    BY Zenon, <1>1 DEF Stage
  <1>4. (Waiting(c)' <=> Waiting(c)) /\ ~Answered(c)' /\ (Waiting(c) <=> at[c] = "read")
    BY Zenon, <1>2 DEF Waiting, Answered
  <1> QED
    BY Zenon, <1>1, <1>2, <1>3, <1>4 DEF Stage

(* handleAttach.                                                           *)
LEMMA AttachMoves ==
    ASSUME CliInv, NEW c \in Client, UNCHANGED progVars, handleAttach(c)
    PROVE  Moved(c)
  <1>1. AskTypeOK /\ MapTypeOK /\ InHand(c) /\ Stage(c)
    BY Zenon DEF CliInv
  <1>2. UNCHANGED <<left, found, bad, goals, reached>>
    BY Zenon DEF handleAttach, workVars, tellVars
  <1>3. /\ <<Frame("ok", FALSE)>> \in Seq(FrameType) /\ <<Frame("ok", FALSE)>> # <<>>
        /\ <<Frame("error", FALSE)>> \in Seq(FrameType) /\ <<Frame("error", FALSE)>> # <<>>
    BY Zenon, Replies
  <1>4. ASSUME ask[c].op = "attach"
        PROVE  /\ ask[c] # Nothing /\ at[c] # "stream" /\ Named(c) \in Id
               /\ ~(at[c] = "read" /\ cmd[c] \in Acting)
    <2>1. ask[c] # Nothing /\ at[c] # "stream"
      <3>1. Nothing.op = "none"
        BY Zenon DEF Nothing
      <3>2. at[c] = "stream" => ask[c].op \in {"none", "input"}
        BY Zenon, <1>1 DEF Stage
      <3> QED
        BY Zenon, <1>4, <3>1, <3>2
    <2>2. Named(c) \in Id
      BY Zenon, <1>4, NamedIsId DEF OneId
    <2> QED
      BY ZenonT(30), <1>1, <1>4, <2>1, <2>2, ActingOps DEF Stage, Waiting
  <1>5. CASE Asked(c, "attach") /\ AttachGet(c, Named(c)) /\ UNCHANGED <<ask, out>>
    <2>1. ask[c].op = "attach" /\ c \notin gone
      BY Zenon, <1>5 DEF Asked, Reading
    <2>2. [MapsMove]_vars
      BY Zenon, <1>4, <1>5, <2>1 DEF MapsMove, Next
    <2>3. /\ handler' = [handler EXCEPT ![c] = [pc |-> "attach", id |-> Named(c)]]
          /\ UNCHANGED <<clientSession, gone>>
      BY Zenon, <1>5 DEF AttachGet, Continue
    <2>4. handler'[c].pc = "attach" /\ \A d \in Client \ {c} : handler'[d] = handler[d]
      BY Zenon, <1>1, <2>3 DEF MapTypeOK
    <2>5. Touches(c)
      BY Zenon, <1>2, <1>5, <2>3, <2>4, WorkingTouches DEF Working
    <2>6. InHand(c)'
      BY Zenon, <1>5, <2>1, <2>3, <2>4 DEF InHand, resizing
    <2>7. Stage(c)'
      BY Zenon, <1>4, <1>5, <2>1, <2>3, <2>4, <2>6, GoOnStage
    <2> QED
      BY Zenon, <2>2, <2>5, <2>6, <2>7 DEF Moved
  <1>6. CASE Asked(c, "attach") /\ errorFrame(c) /\ UNCHANGED vars
    <2>1. ask[c].op = "attach" /\ c \notin gone /\ handler[c].pc = "read"
      BY <1>6 DEF Asked, Reading, Ready
    <2>2. UNCHANGED <<handler, clientSession, gone>>
      BY Zenon, <1>6 DEF vars, daemonVars
    <2>3. Write(c, <<Frame("error", FALSE)>>)
      BY Zenon, <1>6 DEF errorFrame
    <2>4. Touches(c)
      BY Zenon, <1>2, <1>3, <2>2, <2>3, WorkingTouches DEF Working, Write
    <2>5. <<Frame("error", FALSE)>>[1].type = "error"
      BY Zenon, FramesOfReply
    <2>6. InHand(c)' /\ Stage(c)'
      BY Zenon, <1>3, <1>4, <2>1, <2>2, <2>3, <2>5, AnswerStage
    <2> QED
      BY Zenon, <1>6, <2>4, <2>6 DEF Moved
  <1>7. CASE AttachState(c) /\ (IF handler'[c] = Ready THEN errorFrame(c) ELSE UNCHANGED <<ask, out>>)
    <2>1. ask[c].op = "attach" /\ c \notin gone /\ handler[c].pc = "attach"
      BY Zenon, <1>1, <1>7 DEF AttachState, InHand
    <2>2. [MapsMove]_vars
      BY Zenon, <1>7 DEF MapsMove, Next
    <2>3. UNCHANGED <<clientSession, gone>>
      BY Zenon, <1>7 DEF AttachState
    <2>4. CASE Continue(c, "record", handler[c].id)
      <3>1. /\ handler'[c] = [pc |-> "record", id |-> handler[c].id]
            /\ \A d \in Client \ {c} : handler'[d] = handler[d]
        BY Zenon, <1>1, <2>4 DEF Continue, MapTypeOK
      <3>2. handler'[c].pc = "record" /\ handler'[c] # Ready
        BY <3>1 DEF Ready
      <3>3. UNCHANGED <<ask, out>>
        BY Zenon, <1>7, <3>2
      <3>4. Touches(c)
        BY Zenon, <1>2, <2>3, <3>1, <3>3, WorkingTouches DEF Working
      <3>5. InHand(c)'
        BY Zenon, <2>1, <2>3, <3>2, <3>3 DEF InHand, resizing
      <3>6. Stage(c)'
        BY Zenon, <1>4, <2>1, <2>3, <3>2, <3>3, <3>5, GoOnStage
      <3> QED
        BY Zenon, <2>2, <3>4, <3>5, <3>6 DEF Moved
    <2>5. CASE Finish(c)
      <3>1. handler'[c] = Ready /\ \A d \in Client \ {c} : handler'[d] = handler[d]
        BY Zenon, <1>1, <2>5 DEF Finish, MapTypeOK
      <3>2. Write(c, <<Frame("error", FALSE)>>) /\ handler'[c].pc = "read"
        BY <1>7, <3>1 DEF errorFrame, Ready
      <3>3. Touches(c)
        BY Zenon, <1>2, <1>3, <2>3, <3>1, <3>2, WorkingTouches DEF Working, Write
      <3>4. <<Frame("error", FALSE)>>[1].type = "error"
        BY Zenon, FramesOfReply
      <3>5. InHand(c)' /\ Stage(c)'
        BY Zenon, <1>3, <1>4, <2>1, <2>3, <3>2, <3>4, AnswerStage
      <3> QED
        BY Zenon, <2>2, <3>3, <3>5 DEF Moved
    <2> QED
      BY Zenon, <1>7, <2>4, <2>5 DEF AttachState
  <1>8. CASE AttachRecord(c) /\ ok(c)
    <2>1. ask[c].op = "attach" /\ c \notin gone /\ handler[c].pc = "record" /\ handler[c].id \in Id
      BY Zenon, <1>1, <1>8 DEF AttachRecord, InHand, MapTypeOK
    <2>2. [MapsMove]_vars
      BY Zenon, <1>8 DEF MapsMove, Next
    <2>3. /\ handler'[c] = Ready /\ \A d \in Client \ {c} : handler'[d] = handler[d]
          /\ clientSession'[c] = handler[c].id
          /\ \A d \in Client \ {c} : clientSession'[d] = clientSession[d]
          /\ gone' = gone
      BY Zenon, <1>1, <1>8 DEF AttachRecord, Finish, MapTypeOK
    <2>4. Write(c, <<Frame("ok", FALSE)>>) /\ handler'[c].pc = "read"
      BY SMTT(30), <1>8, <2>3 DEF ok, Ready
    <2>5. Touches(c)
      BY Zenon, <1>2, <1>3, <2>3, <2>4, WorkingTouches DEF Working, Write
    <2>6. InHand(c)' /\ Stage(c)'
      BY Zenon, <1>3, <1>4, <2>1, <2>3, <2>4, AnswerStage
    <2> QED
      BY Zenon, <2>2, <2>5, <2>6 DEF Moved
  <1> QED
    BY Zenon, <1>5, <1>6, <1>7, <1>8 DEF handleAttach

-----------------------------------------------------------------------------
(* handleDetach, and the Detach that follows a disconnect.                 *)
LEMMA DetachMoves ==
    ASSUME CliInv, NEW c \in Client, UNCHANGED progVars, handleDetach(c)
    PROVE  Moved(c)
  <1>1. AskTypeOK /\ MapTypeOK /\ InHand(c) /\ Stage(c)
    BY Zenon DEF CliInv
  <1>2. UNCHANGED <<left, found, bad, goals, reached>>
    BY Zenon DEF handleDetach, workVars, tellVars
  <1>3. <<Frame("ok", FALSE)>> \in Seq(FrameType) /\ <<Frame("ok", FALSE)>> # <<>>
    BY Zenon, Replies
  <1>4. ASSUME ask[c].op = "detach"
        PROVE  /\ ask[c] # Nothing /\ at[c] # "stream" /\ Named(c) \in Id
               /\ ~(at[c] = "read" /\ cmd[c] \in Acting)
    <2>1. ask[c] # Nothing /\ at[c] # "stream"
      BY <1>1, <1>4 DEF Nothing, Stage
    <2>2. Named(c) \in Id
      BY Zenon, <1>4, NamedIsId DEF OneId
    <2> QED
      BY ZenonT(30), <1>1, <1>4, <2>1, <2>2, ActingOps DEF Stage, Waiting
  <1>5. CASE Asked(c, "detach") /\ DetachLocked(c, Named(c)) /\ Replied(c)
    <2>1. ask[c].op = "detach" /\ c \notin gone
      BY Zenon, <1>5 DEF Asked, Reading
    <2>2. [MapsMove]_vars
      BY Zenon, <1>4, <1>5, <2>1 DEF MapsMove, Next
    <2>3. /\ gone' = gone /\ \A d \in Client \ {c} : clientSession'[d] = clientSession[d]
      BY Zenon, <1>1, <1>5 DEF DetachLocked, MapTypeOK
    <2>4. CASE Continue(c, "detach", Named(c))
      <3>1. /\ handler'[c] = [pc |-> "detach", id |-> Named(c)]
            /\ \A d \in Client \ {c} : handler'[d] = handler[d]
        BY Zenon, <1>1, <2>4 DEF Continue, MapTypeOK
      <3>2. handler'[c].pc = "detach" /\ handler'[c] # Ready
        BY <3>1 DEF Ready
      <3>3. UNCHANGED <<ask, out>>
        BY Zenon, <1>5, <3>2 DEF Replied
      <3>4. Touches(c)
        BY Zenon, <1>2, <2>3, <3>1, <3>3, WorkingTouches DEF Working
      <3>5. InHand(c)'
        BY Zenon, <2>1, <2>3, <3>2, <3>3 DEF InHand, resizing
      <3>6. Stage(c)'
        BY Zenon, <1>4, <2>1, <2>3, <3>2, <3>3, <3>5, GoOnStage
      <3> QED
        BY Zenon, <2>2, <3>4, <3>5, <3>6 DEF Moved
    <2>5. CASE Finish(c)
      <3>1. handler'[c] = Ready /\ \A d \in Client \ {c} : handler'[d] = handler[d]
        BY Zenon, <1>1, <2>5 DEF Finish, MapTypeOK
      <3>2. Write(c, <<Frame("ok", FALSE)>>) /\ handler'[c].pc = "read"
        BY <1>5, <3>1 DEF Replied, ok, Ready
      <3>3. Touches(c)
        BY Zenon, <1>2, <1>3, <2>3, <3>1, <3>2, WorkingTouches DEF Working, Write
      <3>4. InHand(c)' /\ Stage(c)'
        BY Zenon, <1>3, <1>4, <2>1, <2>3, <3>2, AnswerStage
      <3> QED
        BY Zenon, <2>2, <3>3, <3>4 DEF Moved
    <2> QED
      BY Zenon, <1>5, <2>4, <2>5 DEF DetachLocked, Leave
  <1>6. CASE DetachState(c)
    <2>1. [MapsMove]_vars /\ handler[c].pc = "detach"
      BY Zenon, <1>6 DEF MapsMove, Next, DetachState
    <2>2. /\ handler'[c] = Ready /\ \A d \in Client \ {c} : handler'[d] = handler[d]
          /\ UNCHANGED <<clientSession, gone>>
      BY Zenon, <1>1, <1>6 DEF DetachState, Finish, MapTypeOK
    <2>3. handler'[c].pc = "read"
      BY <2>2 DEF Ready
    <2>4. CASE c \notin gone /\ Replied(c)
      <3>1. Write(c, <<Frame("ok", FALSE)>>)
        BY Zenon, <2>2, <2>4 DEF Replied, ok
      <3>2. ask[c].op = "detach"
        BY Zenon, <1>1, <2>1, <2>4 DEF InHand
      <3>3. Touches(c)
        BY Zenon, <1>2, <1>3, <2>2, <3>1, WorkingTouches DEF Working, Write
      <3>4. InHand(c)' /\ Stage(c)'
        BY Zenon, <1>3, <1>4, <2>2, <2>3, <2>4, <3>1, <3>2, AnswerStage
      <3> QED
        BY Zenon, <2>1, <3>3, <3>4 DEF Moved
    <2>5. CASE c \in gone /\ UNCHANGED <<ask, out>>
      <3>1. Touches(c)
        BY Zenon, <1>2, <2>2, <2>5, WorkingTouches DEF Working
      <3>2. at[c] = "ended" /\ ask[c] = Nothing /\ UNCHANGED <<cmd, at, code, cut>>
        BY Zenon, <1>1, <2>5 DEF InHand, progVars
      <3>3. InHand(c)'
        BY Zenon, <2>2, <2>3, <2>5, <3>2 DEF InHand, resizing
      <3>4. AllReached(c)' <=> AllReached(c)
        BY Zenon, <1>2 DEF AllReached
      <3>5. Stage(c)'
        BY Zenon, <1>1, <2>3, <2>5, <3>2, <3>4 DEF Stage, Waiting, Answered
      <3> QED
        BY Zenon, <2>1, <3>1, <3>3, <3>5 DEF Moved
    <2> QED
      BY Zenon, <1>6, <2>4, <2>5, <2>1 DEF handleDetach, Asked, Reading, Ready
  <1> QED
    BY Zenon, <1>5, <1>6 DEF handleDetach

-----------------------------------------------------------------------------
(* The loops over targets.                                                 *)
Looping == {"input", "exec", "execSync", "execPrefix", "killPrefix"}

(* A handler starts on its targets.                                        *)
LEMMA TargetsMoves ==
    ASSUME CliInv, NEW c \in Client, UNCHANGED progVars, Reading(c), ask[c].op \in Looping,
           NEW ids \in SUBSET Id, ask[c].op \in OneId => ids = {Named(c)},
           NEW pc \in {"lookup", "kill"}, pc = "kill" <=> ask[c].op = "killPrefix",
           Targets(c, ids, pc)
    PROVE  Moved(c)
  <1>1. AskTypeOK /\ MapTypeOK /\ InHand(c) /\ Stage(c)
    BY Zenon DEF CliInv
  <1>2. /\ ask[c] # Nothing /\ ask[c].op # "attach" /\ c \notin gone /\ handler[c] = Ready
        /\ handler[c].pc = "read"
    BY DEF Nothing, Reading, Ready, Looping
  <1>3. /\ goals' = [goals EXCEPT ![c] = ids] /\ goals'[c] = ids
        /\ UNCHANGED <<regVars, mapVars, found, reached>>
    BY Zenon, <1>1 DEF Targets, Aim, AskTypeOK
  <1>4. UNCHANGED <<attachments, clientSession, gone>>
    BY Zenon, <1>3 DEF mapVars
  <1>5. at[c] = "read" => reached[c] = {}
    BY Zenon, <1>1, <1>2 DEF Stage, Waiting
  <1>6. at[c] = "stream" => clientSession'[c] \in Id
    BY Zenon, <1>1, <1>4 DEF Stage
  <1>7. CASE ids = {}
    <2>1. Write(c, <<Frame("error", FALSE)>>) /\ UNCHANGED <<handler, left, bad>>
      BY Zenon, <1>7 DEF Targets, errorFrame
    <2>2. <<Frame("error", FALSE)>> \in Seq(FrameType) /\ <<Frame("error", FALSE)>> # <<>>
          /\ <<Frame("error", FALSE)>>[1].type = "error"
      <3>1. <<Frame("error", FALSE)>>[1] = Frame("error", FALSE)
        BY Zenon
      <3> QED
        BY Zenon, <3>1, Replies, FramesOfReply
    <2>3. [MapsMove]_vars
      BY Zenon, <1>3, <2>1 DEF mapVars, vars, daemonVars
    <2>4. Touches(c)
      BY Zenon, <1>3, <1>4, <2>1, <2>2, WorkingTouches DEF Working, Write
    <2>5. ~AllReached(c)' /\ ~Good(c, <<Frame("error", FALSE)>>[1])
      BY Zenon, <1>3, <1>7, <2>2 DEF AllReached, Good
    <2>6. InHand(c)' /\ Stage(c)'
      BY Zenon, <1>2, <1>4, <1>6, <2>1, <2>2, <2>5, AnswerStage
    <2> QED
      BY Zenon, <2>3, <2>4, <2>6 DEF Moved
  <1>8. ASSUME NEW i \in ids, Continue(c, pc, i), left' = [left EXCEPT ![c] = ids \ {i}],
               bad' = [bad EXCEPT ![c] = FALSE], UNCHANGED <<ask, out>>
        PROVE  Moved(c)
    <2>1. /\ handler' = [handler EXCEPT ![c] = [pc |-> pc, id |-> i]]
          /\ handler'[c].pc = pc /\ handler'[c].id = i
          /\ \A d \in Client \ {c} : handler'[d] = handler[d]
      BY Zenon, <1>1, <1>8 DEF Continue, MapTypeOK
    <2>2. [pc |-> pc, id |-> i] \in [pc: Aloof, id: Id]
      BY Zenon DEF Aloof
    <2>3. Aside(c)
      BY Zenon, <1>2, <1>3, <2>1, <2>2 DEF Aside
    <2>4. Touches(c)
      <3>1. ids \ {i} \in SUBSET Id
        BY Zenon
      <3> QED
        BY Zenon, <1>3, <1>4, <1>8, <2>1, <3>1, WorkingTouches DEF Working
    <2>5. InHand(c)'
      BY Zenon, <1>2, <1>4, <1>8, <2>1 DEF InHand, resizing, Looping
    <2>6. at[c] = "read" => InLoop(c)'
      <3>1. SUFFICES ASSUME at[c] = "read" PROVE InLoop(c)'
        BY Zenon
      <3>2. left'[c] = ids \ {i} /\ bad'[c] = FALSE /\ Todo(c)' = ids
        BY <1>1, <1>8, <2>1 DEF AskTypeOK, Todo
      <3>3. \A j : Under(reached'[c], j) = {}
        BY Zenon, <1>3, <1>5, <3>1 DEF Under
      <3>4. ask'[c].op \in OneId => ids = {i}
        BY Zenon, <1>8
      <3> QED
        BY Zenon, <1>3, <2>1, <3>2, <3>3, <3>4 DEF InLoop
    <2>7. Stage(c)'
      BY Zenon, <1>2, <1>4, <1>6, <1>8, <2>1, <2>5, <2>6, GoOnStage
    <2> QED
      BY Zenon, <2>3, <2>4, <2>5, <2>7 DEF Moved, MapsMove
  <1> QED
    BY Zenon, <1>7, <1>8 DEF Targets

(* One target is done, by h or with an error.                              *)
LEMMA NextTargetMoves ==
    ASSUME CliInv, NEW c \in Client, UNCHANGED progVars,
           NEW failed \in BOOLEAN, NEW pc \in {"lookup", "kill"},
           handler[c].pc \in (IF pc = "kill" THEN {"kill"} ELSE {"lookup", "write"}),
           NextTarget(c, failed, pc),
           UNCHANGED <<mapVars, found, goals>>,
           UNCHANGED regVars \/ \E i \in Id : Kill(i),
           \/ failed /\ UNCHANGED reached
           \/ ~failed /\ \E h \in Handle : Sid[h] = handler[c].id /\ Hit(c, h)
    PROVE  Moved(c)
  <1>1. AskTypeOK /\ MapTypeOK /\ InHand(c) /\ Stage(c)
    BY Zenon DEF CliInv
  <1>2. /\ ask[c].op \in Looping /\ ask[c] # Nothing /\ ask[c].op # "attach"
        /\ handler[c].pc \in Aloof /\ c \notin gone
        /\ pc = "kill" <=> ask[c].op = "killPrefix"
    BY <1>1 DEF InHand, Nothing, Aloof, Looping
  <1>3. UNCHANGED <<attachments, clientSession, gone>>
    BY Zenon DEF mapVars
  <1>4. at[c] = "stream" => clientSession'[c] \in Id
    BY Zenon, <1>1, <1>3 DEF Stage
  <1>5. at[c] = "read" => InLoop(c) /\ ask[c].op = OpOf(cmd[c])
    BY Zenon, <1>1, <1>2 DEF Stage, Waiting
  <1>6. reached' = reached \/ \E h \in Handle : reached' = [reached EXCEPT ![c] = @ \cup {h}]
    BY Zenon DEF Hit
  <1>7. /\ \A j : j # handler[c].id => Under(reached'[c], j) = Under(reached[c], j)
        /\ failed => Under(reached'[c], handler[c].id) = Under(reached[c], handler[c].id)
        /\ at[c] = "read" /\ ~failed => \E h \in Handle : Under(reached'[c], handler[c].id) = {h}
    <2>1. CASE failed /\ UNCHANGED reached
      BY Zenon, <2>1
    <2>2. ASSUME ~failed, NEW h \in Handle, Sid[h] = handler[c].id, Hit(c, h)
          PROVE  /\ \A j : j # handler[c].id => Under(reached'[c], j) = Under(reached[c], j)
                 /\ at[c] = "read" => Under(reached'[c], handler[c].id) = {h}
      <3>1. reached'[c] = reached[c] \cup {h}
        BY Zenon, <1>1, <2>2 DEF Hit, AskTypeOK
      <3>2. \A j : j # handler[c].id => Under(reached'[c], j) = Under(reached[c], j)
        BY Zenon, <2>2, <3>1 DEF Under
      <3>3. at[c] = "read" => Under(reached[c], handler[c].id) = {}
        BY Zenon, <1>5 DEF InLoop, Todo
      <3>4. at[c] = "read" => Under(reached'[c], handler[c].id) = {h}
        BY Zenon, <2>2, <3>1, <3>3 DEF Under
      <3> QED
        BY Zenon, <3>2, <3>4
    <2>3. CASE ~failed
      <3>1. PICK h \in Handle : Sid[h] = handler[c].id /\ Hit(c, h)
        BY Zenon, <2>3
      <3>2. /\ \A j : j # handler[c].id => Under(reached'[c], j) = Under(reached[c], j)
            /\ at[c] = "read" => Under(reached'[c], handler[c].id) = {h}
        BY Zenon, <2>2, <2>3, <3>1
      <3> QED
        BY Zenon, <2>3, <3>2
    <2> QED
      BY Zenon, <2>1, <2>3
  <1>8. CASE left[c] = {}
    <2>1. /\ handler' = [handler EXCEPT ![c] = Ready]
          /\ handler'[c] = Ready /\ handler'[c].pc = "read"
          /\ \A d \in Client \ {c} : handler'[d] = handler[d]
          /\ UNCHANGED <<left, bad>>
      <3>1. handler' = [handler EXCEPT ![c] = Ready] /\ UNCHANGED <<left, bad>>
        BY Zenon, <1>8 DEF NextTarget, Finish
      <3>2. DOMAIN handler = Client
        BY Zenon, <1>1 DEF MapTypeOK
      <3>3. Ready.pc = "read"
        BY Zenon DEF Ready
      <3> QED
        BY Zenon, <3>1, <3>2, <3>3
    <2>2. Aside(c)
      BY Zenon, <1>2, <2>1 DEF Aside
    <2>3. PICK f \in FrameType :
              /\ f = IF ask[c].op \in OneId
                     THEN (IF failed THEN Frame("error", FALSE) ELSE Frame("ok", FALSE))
                     ELSE Frame("ok", bad[c] \/ failed)
              /\ Write(c, <<f>>)
      <3>1. bad[c] \/ failed \in BOOLEAN
        BY Zenon, <1>1 DEF AskTypeOK
      <3> QED
        BY Zenon, <1>8, <3>1, FramesOfReply DEF NextTarget, ok, errorFrame
    <2>4. <<f>> \in Seq(FrameType) /\ <<f>> # <<>> /\ <<f>>[1] = f
      BY Zenon, OneFrame
    <2>5. Touches(c)
      BY Zenon, <1>3, <1>6, <2>1, <2>3, <2>4, WorkingTouches DEF Working, Write
    <2>6. at[c] = "read" => (AllReached(c)' <=> ~failed /\ ~bad[c])
      <3>1. SUFFICES ASSUME at[c] = "read" PROVE AllReached(c)' <=> ~failed /\ ~bad[c]
        BY Zenon
      <3>2. InLoop(c) /\ Todo(c) = {handler[c].id} /\ goals'[c] = goals[c]
        BY Zenon, <1>5, <1>8, <3>1 DEF Todo
      <3>3. \A j \in goals[c] : \/ Under(reached'[c], j) = {}
                                \/ \E h \in Handle : Under(reached'[c], j) = {h}
        BY SMTT(30), <1>7, <3>1, <3>2 DEF InLoop
      <3>4. Under(reached'[c], handler[c].id) = {} <=> failed
        BY Zenon, <1>7, <3>1, <3>2 DEF InLoop
      <3>5. (\E j \in goals[c] \ {handler[c].id} : Under(reached'[c], j) = {}) <=> bad[c]
        BY Zenon, <1>7, <3>2 DEF InLoop
      <3>6. AllReached(c)' <=> (goals[c] # {} /\ \A i \in goals[c] : Under(reached'[c], i) # {})
        <4>1. AllReached(c)' <=> (goals[c] # {} /\ \A i \in goals[c] : Once(reached'[c], i))
          BY Zenon, <3>2 DEF AllReached, Once
        <4>2. \A i \in goals[c] : Once(reached'[c], i) <=> Under(reached'[c], i) # {}
          BY Zenon, <3>3, ReachedOnce
        <4> QED
          BY Zenon, <4>1, <4>2
      <3>7. handler[c].id \in goals[c]
        BY Zenon, <3>2 DEF InLoop
      <3> QED
        BY Zenon, <3>4, <3>5, <3>6, <3>7
    <2>7. at[c] = "read" /\ cmd[c] \in Acting => (Good(c, f) <=> ~failed /\ ~bad[c])
      <3>1. SUFFICES ASSUME at[c] = "read", cmd[c] \in Acting
                     PROVE  Good(c, f) <=> ~failed /\ ~bad[c]
        BY Zenon
      <3>2. InLoop(c) /\ (cmd[c] \in {"killPrefix", "execSync", "execPrefix"} <=> ask[c].op \notin OneId)
        BY SMTT(30), <1>5, <3>1, ActingOps
      <3>3. CASE ask[c].op \in OneId
        <4>1. ~bad[c]
          BY Zenon, <3>2, <3>3 DEF InLoop, Todo
        <4> QED
          BY Zenon, <2>3, <3>2, <3>3, <4>1, FramesOfReply DEF Good
      <3>4. CASE ask[c].op \notin OneId
        BY Zenon, <2>3, <3>2, <3>4, FramesOfReply DEF Good
      <3> QED
        BY Zenon, <3>3, <3>4
    <2>8. InHand(c)' /\ Stage(c)'
      BY Zenon, <1>2, <1>3, <1>4, <2>1, <2>3, <2>4, <2>6, <2>7, AnswerStage
    <2> QED
      BY ZenonT(30), <2>2, <2>5, <2>8 DEF Moved, MapsMove
  <1>9. CASE left[c] # {}
    <2>1. PICK i \in left[c] : Continue(c, pc, i) /\ left' = [left EXCEPT ![c] = @ \ {i}]
      BY Zenon, <1>9 DEF NextTarget
    <2>2. bad' = [bad EXCEPT ![c] = @ \/ failed] /\ UNCHANGED <<ask, out>>
      BY Zenon, <1>9 DEF NextTarget
    <2>3. i \in Id /\ left[c] \ {i} \in SUBSET Id /\ left'[c] = left[c] \ {i}
      BY Zenon, <1>1, <2>1 DEF AskTypeOK
    <2>4. bad'[c] = (bad[c] \/ failed) /\ (bad[c] \/ failed) \in BOOLEAN
      BY Zenon, <1>1, <2>2 DEF AskTypeOK
    <2>5. /\ handler' = [handler EXCEPT ![c] = [pc |-> pc, id |-> i]]
          /\ handler'[c].pc = pc /\ handler'[c].id = i
          /\ \A d \in Client \ {c} : handler'[d] = handler[d]
      BY Zenon, <1>1, <2>1 DEF Continue, MapTypeOK
    <2>6. Aside(c)
      <3>1. [pc |-> pc, id |-> i] \in [pc: Aloof, id: Id]
        BY Zenon, <2>3 DEF Aloof
      <3> QED
        BY Zenon, <1>2, <2>5, <3>1 DEF Aside
    <2>7. Touches(c)
      <3>1. \E s \in SUBSET Id : left' = [left EXCEPT ![c] = s]
        BY Zenon, <2>1, <2>3
      <3>2. \E b \in BOOLEAN : bad' = [bad EXCEPT ![c] = b]
        BY Zenon, <2>2, <2>4
      <3> QED
        BY Zenon, <1>3, <1>6, <2>2, <2>5, <3>1, <3>2, WorkingTouches DEF Working
    <2>8. InHand(c)'
      BY ZenonT(30), <1>2, <1>3, <2>2, <2>5 DEF InHand, resizing, Looping
    <2>9. at[c] = "read" => InLoop(c)'
      <3>1. SUFFICES ASSUME at[c] = "read" PROVE InLoop(c)'
        BY Zenon
      <3>2. InLoop(c) /\ goals'[c] = goals[c] /\ ask'[c] = ask[c]
        BY Zenon, <1>5, <2>2, <3>1
      <3>3. Todo(c)' = left[c] /\ handler[c].id \notin left[c]
        <4>1. Todo(c)' = left'[c] \cup {handler'[c].id}
          BY Zenon DEF Todo
        <4>2. left'[c] \cup {handler'[c].id} = left[c]
          BY Zenon, <2>1, <2>3, <2>5
        <4>3. handler[c].id \notin left[c]
          BY Zenon, <3>2 DEF InLoop
        <4> QED
          BY Zenon, <4>1, <4>2, <4>3
      <3>4. \A j \in left[c] : Under(reached'[c], j) = {}
        BY ZenonT(30), <1>7, <3>2, <3>3 DEF InLoop, Todo
      <3>5. \A j \in goals[c] \ left[c] : \/ Under(reached'[c], j) = {}
                                          \/ \E h \in Handle : Under(reached'[c], j) = {h}
        BY SMTT(30), <1>7, <3>1, <3>2 DEF InLoop, Todo
      <3>6. (bad[c] \/ failed) <=> \E j \in goals[c] \ left[c] : Under(reached'[c], j) = {}
        <4>1. Under(reached'[c], handler[c].id) = {} <=> failed
          BY Zenon, <1>7, <3>1, <3>2 DEF InLoop, Todo
        <4>2. bad[c] <=> \E j \in goals[c] \ Todo(c) : Under(reached'[c], j) = {}
          BY Zenon, <1>7, <3>2 DEF InLoop, Todo
        <4>3. handler[c].id \in goals[c]
          BY Zenon, <3>2 DEF InLoop
        <4> QED
          BY Zenon, <3>3, <4>1, <4>2, <4>3 DEF Todo
      <3>7. ~(ask[c].op \in OneId)
        BY Zenon, <2>1, <3>2 DEF InLoop
      <3> QED
        BY Zenon, <2>1, <2>3, <2>4, <2>5, <3>2, <3>3, <3>4, <3>5, <3>6, <3>7 DEF InLoop
    <2>10. Stage(c)'
      BY Zenon, <1>2, <1>3, <1>4, <2>2, <2>5, <2>8, <2>9, GoOnStage
    <2> QED
      BY Zenon, <2>6, <2>7, <2>8, <2>10 DEF Moved, MapsMove
  <1> QED
    BY Zenon, <1>8, <1>9

-----------------------------------------------------------------------------
(* handleInput, handleExec, handleExecSync and handleKillPrefix.           *)
LEMMA LoopsMove ==
    ASSUME CliInv, NEW c \in Client, UNCHANGED progVars,
           \/ handleInput(c) \/ handleExec(c) \/ handleExecSync(c) \/ handleKillPrefix(c)
           \/ WriteLookup(c) \/ WritePty(c) \/ KillTarget(c)
    PROVE  Moved(c)
  <1>1. AskTypeOK /\ MapTypeOK /\ InHand(c) /\ Stage(c) /\ ask[c].ids \in SUBSET Id
    BY Zenon DEF CliInv, AskTypeOK
  <1>2. ASSUME NEW op \in {"input", "exec", "execSync"}, Asked(c, op),
               Targets(c, ask[c].ids, "lookup")
        PROVE  Moved(c)
    <2>1. Reading(c) /\ ask[c].op = op /\ op \in Looping
      BY Zenon, <1>2 DEF Asked, Looping
    <2>2. ask[c].op \in OneId => ask[c].ids = {Named(c)}
      BY Zenon, NamedIsId
    <2> QED
      BY Zenon, <1>1, <1>2, <2>1, <2>2, TargetsMoves
  <1>3. ASSUME NEW op \in {"execPrefix", "killPrefix"}, Asked(c, op),
               Targets(c, sessionsByPrefix, IF op = "killPrefix" THEN "kill" ELSE "lookup")
        PROVE  Moved(c)
    <2>1. Reading(c) /\ ask[c].op = op /\ op \in Looping /\ ask[c].op \notin OneId
      BY Zenon, <1>3 DEF Asked, Looping, OneId
    <2>2. sessionsByPrefix \in SUBSET Id
      BY Zenon DEF sessionsByPrefix, Registered
    <2> QED
      BY Zenon, <1>3, <2>1, <2>2, TargetsMoves
  <1>4. CASE handleInput(c) \/ handleExec(c) \/ handleExecSync(c) \/ handleKillPrefix(c)
    BY Zenon, <1>2, <1>3, <1>4 DEF handleInput, handleExec, handleExecSync, handleKillPrefix
  <1>5. CASE WriteLookup(c)
    <2>1. /\ handler[c].pc = "lookup" /\ handler[c].id \in Id
          /\ UNCHANGED <<regVars, mapVars, goals, reached>>
      BY Zenon, <1>1, <1>5 DEF WriteLookup, MapTypeOK, tellVars
    <2>2. CASE sessions[handler[c].id] = NoHandle
      <3>1. NextTarget(c, TRUE, "lookup") /\ UNCHANGED found
        BY Zenon, <1>5, <2>2 DEF WriteLookup
      <3> QED
        BY Zenon, <2>1, <3>1, NextTargetMoves
    <2>3. CASE sessions[handler[c].id] # NoHandle
      <3>1. PICK h \in Handle : h = sessions[handler[c].id] /\ Sid[h] = handler[c].id
        BY Zenon, <2>1, <2>3, EntryOf
      <3>2. found' = [found EXCEPT ![c] = h] /\ UNCHANGED <<ask, out, left, bad>>
        BY Zenon, <1>5, <2>3, <3>1 DEF WriteLookup
      <3>3. /\ handler' = [handler EXCEPT ![c] = [pc |-> "write", id |-> handler[c].id]]
            /\ handler'[c].pc = "write" /\ handler'[c].id = handler[c].id
            /\ \A d \in Client \ {c} : handler'[d] = handler[d]
        <4>1. Continue(c, "write", handler[c].id)
          BY Zenon, <1>5, <2>3 DEF WriteLookup
        <4> QED
          BY Zenon, <1>1, <4>1 DEF Continue, MapTypeOK
      <3>4. UNCHANGED <<attachments, clientSession, gone>>
        BY ZenonT(30), <2>1 DEF mapVars
      <3>5. /\ ask[c].op \in {"input", "exec", "execSync", "execPrefix"} /\ c \notin gone
            /\ ask[c] # Nothing
        BY <1>1, <2>1 DEF InHand, Nothing
      <3>6. Aside(c)
        <4>1. [pc |-> "write", id |-> handler[c].id] \in [pc: Aloof, id: Id]
          BY Zenon, <2>1 DEF Aloof
        <4>2. handler[c].pc \in Aloof
          BY Zenon, <2>1 DEF Aloof
        <4> QED
          BY Zenon, <2>1, <3>3, <3>5, <4>1, <4>2 DEF Aside
      <3>7. Touches(c)
        BY Zenon, <2>1, <3>2, <3>3, <3>4, WorkingTouches DEF Working
      <3>8. found'[c] = h
        BY Zenon, <1>1, <3>2 DEF AskTypeOK
      <3>9. InHand(c)'
        BY Zenon, <3>1, <3>2, <3>3, <3>4, <3>5, <3>8 DEF InHand, resizing
      <3>10. at[c] = "read" => InLoop(c)'
        <4>1. SUFFICES ASSUME at[c] = "read" PROVE InLoop(c)'
          BY Zenon
        <4>2. InLoop(c)
          BY Zenon, <1>1, <2>1, <3>5, <4>1 DEF Stage, Waiting
        <4>3. Todo(c)' = Todo(c)
          BY Zenon, <3>2, <3>3 DEF Todo
        <4> QED
          BY Zenon, <2>1, <3>2, <3>3, <4>2, <4>3 DEF InLoop
      <3>11. at[c] = "stream" => clientSession'[c] \in Id
        BY Zenon, <1>1, <3>4 DEF Stage
      <3>12. Stage(c)'
        BY Zenon, <3>2, <3>3, <3>4, <3>5, <3>9, <3>10, <3>11, GoOnStage
      <3> QED
        BY Zenon, <3>6, <3>7, <3>9, <3>12 DEF Moved, MapsMove
    <2> QED
      BY Zenon, <2>2, <2>3
  <1>6. CASE WritePty(c)
    <2>1. /\ handler[c].pc = "write" /\ found[c] \in Handle /\ Sid[found[c]] = handler[c].id
          /\ UNCHANGED <<regVars, mapVars, found, goals>>
      BY Zenon, <1>1, <1>6 DEF WritePty, InHand
    <2>2. CASE state[found[c]] \in Live
      <3>1. Hit(c, found[c]) /\ NextTarget(c, FALSE, "lookup")
        BY Zenon, <1>6, <2>2 DEF WritePty, NextTarget
      <3> QED
        BY Zenon, <2>1, <3>1, NextTargetMoves
    <2>3. CASE state[found[c]] \notin Live
      <3>1. UNCHANGED reached /\ NextTarget(c, TRUE, "lookup")
        BY Zenon, <1>6, <2>3 DEF WritePty, NextTarget
      <3> QED
        BY Zenon, <2>1, <3>1, NextTargetMoves
    <2> QED
      BY Zenon, <2>2, <2>3
  <1>7. CASE KillTarget(c)
    <2>1. /\ handler[c].pc = "kill" /\ handler[c].id \in Id
          /\ UNCHANGED <<mapVars, found, goals>>
      BY Zenon, <1>1, <1>7 DEF KillTarget, MapTypeOK
    <2>2. CASE Kill(handler[c].id) /\ Hit(c, sessions[handler[c].id]) /\ NextTarget(c, FALSE, "kill")
      <3>1. sessions[handler[c].id] \in Handle /\ Sid[sessions[handler[c].id]] = handler[c].id
        BY Zenon, <2>1, <2>2, EntryOf DEF Kill
      <3> QED
        BY Zenon, <2>1, <2>2, <3>1, NextTargetMoves
    <2>3. CASE NextTarget(c, TRUE, "kill") /\ UNCHANGED <<regVars, reached>>
      BY Zenon, <2>1, <2>3, NextTargetMoves
    <2> QED
      BY Zenon, <1>7, <2>2, <2>3 DEF KillTarget
  <1> QED
    BY Zenon, <1>4, <1>5, <1>6, <1>7

(* handleResize and its steps, but for the sizes.                          *)
LEMMA ResizesMove ==
    ASSUME CliInv, NEW c \in Client, UNCHANGED progVars,
           handleResize(c) \/ ResizePty(c) \/ ResizeEmu(c) \/ ResizeRec(c)
    PROVE  Moved(c)
  <1>1. AskTypeOK /\ MapTypeOK /\ InHand(c) /\ Stage(c)
    BY Zenon DEF CliInv
  <1>2. /\ ask[c].op = "resize" /\ c \notin gone
        /\ handler[c] = Ready \/ (handler[c].pc \in Aloof /\ handler[c].id \in Id)
    BY Zenon, <1>1 DEF InHand, resizing, handleResize, ResizePty, ResizeEmu, ResizeRec, Asked,
                Reading, Aloof, MapTypeOK
  <1>3. /\ ask[c] # Nothing /\ ask[c].op # "attach" /\ at[c] # "stream" /\ Named(c) \in Id
        /\ ~(at[c] = "read" /\ cmd[c] \in Acting)
    <2>1. ask[c] # Nothing /\ ask[c].op # "attach" /\ at[c] # "stream"
      <3>1. ask[c] # Nothing
        BY <1>2 DEF Nothing
      <3> QED
        BY Zenon, <1>1, <1>2, <3>1 DEF Stage
    <2>2. Named(c) \in Id
      BY Zenon, <1>2, NamedIsId DEF OneId
    <2> QED
      BY ZenonT(30), <1>1, <1>2, <2>1, <2>2, ActingOps DEF Stage, Waiting
  <1>4. /\ UNCHANGED <<regVars, mapVars, left, bad, goals, reached>>
        /\ UNCHANGED <<attachments, clientSession, gone>>
    BY Zenon DEF handleResize, ResizePty, ResizeEmu, ResizeRec, workVars, tellVars, mapVars
  <1>5. found' = found \/ \E h \in Handle : found' = [found EXCEPT ![c] = h]
    BY Zenon, <1>3, EntryOf DEF handleResize, ResizePty, ResizeEmu, ResizeRec, workVars
  <1>6. \/ /\ \E x \in [pc: {"resizePty", "resizeEmu", "resizeRec"}, id: Id] :
                handler' = [handler EXCEPT ![c] = x]
           /\ UNCHANGED <<ask, out>>
        \/ /\ (handler' = handler /\ handler[c] = Ready) \/ Finish(c)
           /\ ok(c) \/ errorFrame(c)
    <2>1. CASE handleResize(c)
      <3>1. handler[c] = Ready
        BY Zenon, <2>1 DEF handleResize, Asked, Reading
      <3> QED
        BY Zenon, <1>3, <2>1, <3>1 DEF handleResize, Continue
    <2>2. CASE ResizePty(c) \/ ResizeEmu(c) \/ ResizeRec(c)
      <3>1. handler[c].id \in Id
        BY Zenon, <1>1, <2>2 DEF ResizePty, ResizeEmu, ResizeRec, MapTypeOK
      <3> QED
        BY Zenon, <2>2, <3>1 DEF ResizePty, ResizeEmu, ResizeRec, Continue
    <2> QED
      BY Zenon, <2>1, <2>2
  <1>7. ASSUME NEW x \in [pc: {"resizePty", "resizeEmu", "resizeRec"}, id: Id],
               handler' = [handler EXCEPT ![c] = x], UNCHANGED <<ask, out>>
        PROVE  Moved(c)
    <2>1. /\ handler'[c] = x /\ x.pc \in {"resizePty", "resizeEmu", "resizeRec"}
          /\ x \in [pc: Aloof, id: Id]
          /\ \A d \in Client \ {c} : handler'[d] = handler[d]
      BY Zenon, <1>1, <1>7 DEF MapTypeOK, Aloof
    <2>2. Aside(c)
      BY Zenon, <1>2, <1>4, <1>7, <2>1 DEF Aside
    <2>3. Touches(c)
      BY Zenon, <1>4, <1>5, <1>7, <2>1, WorkingTouches DEF Working
    <2>4. InHand(c)'
      BY Zenon, <1>2, <1>4, <1>7, <2>1 DEF InHand, resizing
    <2>5. Stage(c)'
      BY Zenon, <1>2, <1>3, <1>4, <1>7, <2>1, <2>4, GoOnStage
    <2> QED
      BY Zenon, <2>2, <2>3, <2>4, <2>5 DEF Moved, MapsMove
  <1>8. CASE ((handler' = handler /\ handler[c] = Ready) \/ Finish(c)) /\ (ok(c) \/ errorFrame(c))
    <2>1. /\ handler' = [handler EXCEPT ![c] = Ready]
          /\ handler'[c].pc = "read" /\ \A d \in Client \ {c} : handler'[d] = handler[d]
      BY <1>1, <1>8 DEF Finish, MapTypeOK, Ready
    <2>2. Aside(c)
      BY Zenon, <1>2, <1>4, <2>1 DEF Aside
    <2>3. PICK f \in Seq(FrameType) : f # <<>> /\ Write(c, f)
      <3>1. CASE ok(c)
        BY Zenon, <3>1, Replies DEF ok
      <3>2. CASE errorFrame(c)
        BY Zenon, <3>2, Replies DEF errorFrame
      <3> QED
        BY Zenon, <1>8, <3>1, <3>2
    <2>4. Touches(c)
      BY Zenon, <1>4, <1>5, <2>1, <2>3, WorkingTouches DEF Working, Write
    <2>5. InHand(c)' /\ Stage(c)'
      BY Zenon, <1>2, <1>3, <1>4, <2>1, <2>3, AnswerStage
    <2> QED
      BY Zenon, <2>2, <2>4, <2>5 DEF Moved, MapsMove
  <1> QED
    BY Zenon, <1>6, <1>7, <1>8

(* Whatever the daemon does for a client.                                  *)
LEMMA ServeMoves ==
    ASSUME CliInv, NEW c \in Client, Serve(c)
    PROVE  Moved(c)
  <1>1. UNCHANGED progVars /\ dispatch(c)
    BY Zenon DEF Serve
  <1> QED
    BY Zenon, <1>1, SectionsMove, AttachMoves, DetachMoves, LoopsMove, ResizesMove DEF dispatch

-----------------------------------------------------------------------------
(* What a step of the program c changes: its request, the frames it has    *)
(* still to read, where it is, and how it ended.                           *)
Running(c) ==
    /\ UNCHANGED <<vars, left, found, bad, goals, reached, cmd>>
    /\ \/ ask' = ask
       \/ \E op \in Op, s \in SUBSET Id :
             /\ ask' = [ask EXCEPT ![c] = [op |-> op, ids |-> s]]
             /\ op \in OneId => \E i \in Id : s = {i}
    /\ out' = out \/ (out[c] # <<>> /\ out' = [out EXCEPT ![c] = Tail(@)])
    /\ \/ at' = at
       \/ \E w \in {"read", "leave", "dump", "stream", "ended"} : at' = [at EXCEPT ![c] = w]
    /\ code' = code \/ \E n \in Nat : code' = [code EXCEPT ![c] = n]
    /\ cut' = cut \/ cut' = cut \cup {c}

(* Such a step keeps the types and leaves the other clients alone.         *)
LEMMA RunningTouches ==
    ASSUME CliInv, NEW c \in Client, Running(c)
    PROVE  Touches(c) /\ [MapsMove]_vars
  <1>1. AskTypeOK
    BY Zenon DEF CliInv
  <1>2. UNCHANGED <<vars, left, found, bad, goals, reached, cmd>>
    BY Zenon DEF Running
  <1>3. UNCHANGED <<handler, clientSession, gone>>
    BY Zenon, <1>2 DEF vars, daemonVars
  <1>4. /\ ask' \in [Client -> [op: Op, ids: SUBSET Id]]
        /\ \A d \in Client : ask'[d].op \in OneId => \E i \in Id : ask'[d].ids = {i}
        /\ \A d \in Client \ {c} : ask'[d] = ask[d]
    <2>1. /\ ask \in [Client -> [op: Op, ids: SUBSET Id]]
          /\ \A d \in Client : ask[d].op \in OneId => \E i \in Id : ask[d].ids = {i}
      BY Zenon, <1>1 DEF AskTypeOK
    <2>2. CASE ask' = ask
      BY Zenon, <2>1, <2>2
    <2>3. ASSUME NEW op \in Op, NEW s \in SUBSET Id,
                 ask' = [ask EXCEPT ![c] = [op |-> op, ids |-> s]],
                 op \in OneId => \E i \in Id : s = {i}
          PROVE  /\ ask' \in [Client -> [op: Op, ids: SUBSET Id]]
                 /\ \A d \in Client : ask'[d].op \in OneId => \E i \in Id : ask'[d].ids = {i}
                 /\ \A d \in Client \ {c} : ask'[d] = ask[d]
      <3>1. ask'[c].op = op /\ ask'[c].ids = s /\ \A d \in Client \ {c} : ask'[d] = ask[d]
        BY Zenon, <2>1, <2>3
      <3>2. ask' \in [Client -> [op: Op, ids: SUBSET Id]]
        BY Zenon, <2>1, <2>3
      <3> QED
        BY Zenon, <2>1, <2>3, <3>1, <3>2
    <2>4. \/ ask' = ask
          \/ \E op \in Op, s \in SUBSET Id :
                /\ ask' = [ask EXCEPT ![c] = [op |-> op, ids |-> s]]
                /\ op \in OneId => \E i \in Id : s = {i}
      BY Zenon DEF Running
    <2> QED
      BY Zenon, <2>2, <2>3, <2>4
  <1>5. out' \in [Client -> Seq(FrameType)] /\ \A d \in Client \ {c} : out'[d] = out[d]
    <2>1. out \in [Client -> Seq(FrameType)]
      BY Zenon, <1>1 DEF AskTypeOK
    <2>2. CASE out' = out
      BY Zenon, <2>1, <2>2
    <2>3. CASE out[c] # <<>> /\ out' = [out EXCEPT ![c] = Tail(@)]
      <3>1. Tail(out[c]) \in Seq(FrameType)
        BY Zenon, <2>1, <2>3, ReadFirst
      <3> QED
        BY Zenon, <2>1, <2>3, <3>1
    <2> QED
      BY Zenon, <2>2, <2>3 DEF Running
  <1>6. /\ at' \in [Client -> {"dial", "read", "leave", "dump", "stream", "ended"}]
        /\ \A d \in Client \ {c} : at'[d] = at[d]
    <2>1. at \in [Client -> {"dial", "read", "leave", "dump", "stream", "ended"}]
      BY Zenon, <1>1 DEF AskTypeOK
    <2>2. \/ at' = at
          \/ \E w \in {"read", "leave", "dump", "stream", "ended"} : at' = [at EXCEPT ![c] = w]
      BY Zenon DEF Running
    <2> QED
      BY Zenon, <2>1, <2>2
  <1>7. code' \in [Client -> Nat] /\ \A d \in Client \ {c} : code'[d] = code[d]
    <2>1. code \in [Client -> Nat]
      BY Zenon, <1>1 DEF AskTypeOK
    <2>2. code' = code \/ \E n \in Nat : code' = [code EXCEPT ![c] = n]
      BY Zenon DEF Running
    <2> QED
      BY Zenon, <2>1, <2>2
  <1>8. cut' \subseteq Client /\ \A d \in Client \ {c} : d \in cut' <=> d \in cut
    BY Zenon, <1>1 DEF AskTypeOK, Running
  <1>9. AskTypeOK'
    BY Zenon, <1>1, <1>2, <1>4, <1>5, <1>6, <1>7, <1>8 DEF AskTypeOK
  <1>10. \A d \in Client \ {c} : Same(d)
    BY Zenon, <1>2, <1>3, <1>4, <1>5, <1>6, <1>7, <1>8 DEF Same
  <1> QED
    BY Zenon, <1>2, <1>9, <1>10 DEF Touches

(* The command and the request that belong together.                       *)
LEMMA SendMoves ==
    ASSUME CliInv, NEW c \in Client, NEW op \in Op \ {"none"}, NEW targets, op = OpOf(cmd[c]),
           sendRequest(c, op, targets),
           targets = AnId \/ (op \notin OneId /\ targets \in {NoIds, {Id}})
    PROVE  Moved(c)
  <1>1. AskTypeOK /\ InHand(c) /\ Stage(c)
    BY Zenon DEF CliInv
  <1>2. at[c] = "dial" /\ UNCHANGED <<vars, out, left, found, bad, goals, reached, cmd, code, cut>>
    BY Zenon DEF sendRequest, dialDaemon, workVars, tellVars
  <1>3. PICK s \in targets : ask' = [ask EXCEPT ![c] = [op |-> op, ids |-> s]]
    BY Zenon DEF sendRequest
  <1>4. s \in SUBSET Id /\ (op \in OneId => \E i \in Id : s = {i})
    BY DEF AnId, NoIds
  <1>5. at' = [at EXCEPT ![c] = "read"] /\ at'[c] = "read"
    BY Zenon, <1>1 DEF sendRequest, To, AskTypeOK
  <1>6. Touches(c) /\ [MapsMove]_vars
    BY Zenon, <1>2, <1>3, <1>4, <1>5, RunningTouches DEF Running
  <1>7. /\ ask[c] = Nothing /\ handler[c].pc = "read" /\ out[c] = <<>> /\ reached[c] = {}
        /\ c \notin gone
    BY Zenon, <1>1, <1>2 DEF Stage, InHand
  <1>8. UNCHANGED <<handler, clientSession, gone>>
    BY Zenon, <1>2 DEF vars, daemonVars
  <1>9. ask'[c].op = op /\ ask'[c] # Nothing
    BY Zenon, <1>1, <1>3 DEF AskTypeOK, Nothing
  <1>10. InHand(c)'
    BY Zenon, <1>7, <1>8 DEF InHand, resizing
  <1>11. Stage(c)'
    BY Zenon, <1>2, <1>5, <1>7, <1>8, <1>9 DEF Stage, Waiting, Answered
  <1> QED
    BY Zenon, <1>6, <1>10, <1>11 DEF Moved

(* A program that reads its reply has been answered.                       *)
LEMMA ReadsReply ==
    ASSUME CliInv, NEW c \in Client, Reads(c, "read")
    PROVE  /\ Answered(c) /\ handler[c].pc = "read" /\ ask[c] = Nothing /\ c \notin gone
           /\ out[c] # <<>> /\ out' = [out EXCEPT ![c] = Tail(@)] /\ at[c] = "read"
           /\ UNCHANGED <<vars, left, found, bad, goals, reached, cmd, cut>>
           /\ UNCHANGED <<handler, clientSession, gone>>
  <1>1. AskTypeOK /\ InHand(c) /\ Stage(c)
    BY Zenon DEF CliInv
  <1>2. /\ at[c] = "read" /\ out[c] # <<>> /\ out' = [out EXCEPT ![c] = Tail(@)]
        /\ UNCHANGED <<vars, left, found, bad, goals, reached, cmd, cut>>
    BY Zenon DEF Reads, workVars, tellVars
  <1>3. UNCHANGED <<handler, clientSession, gone>>
    BY Zenon, <1>2 DEF vars, daemonVars
  <1>4. Answered(c)
    BY Zenon, <1>1, <1>2 DEF Stage, Waiting, Answered
  <1> QED
    BY Zenon, <1>1, <1>2, <1>3, <1>4 DEF Stage, Answered, InHand

(* The reply that decides the exit code.                                   *)
LEMMA ReplyMoves ==
    ASSUME CliInv, NEW c \in Client, Reads(c, "read"), NEW n \in Nat, Quit(c, n), UNCHANGED ask,
           cmd[c] \in Acting => (n = 0 <=> Good(c, Reply(c)))
    PROVE  Moved(c)
  <1>1. AskTypeOK /\ InHand(c) /\ Stage(c)
    BY Zenon DEF CliInv
  <1>2. at' = [at EXCEPT ![c] = "ended"] /\ code' = [code EXCEPT ![c] = n]
        /\ at'[c] = "ended" /\ code'[c] = n
    BY Zenon, <1>1 DEF Quit, To, AskTypeOK
  <1>3. Touches(c) /\ [MapsMove]_vars
    BY Zenon, <1>2, ReadsReply, RunningTouches DEF Running
  <1>4. InHand(c)'
    BY Zenon, ReadsReply DEF InHand, resizing
  <1>5. AllReached(c)' <=> AllReached(c)
    <2>1. UNCHANGED <<goals, reached>>
      BY Zenon, ReadsReply
    <2> QED
      BY Zenon, <2>1 DEF AllReached
  <1>6. cmd[c] \in Acting => (n = 0 <=> AllReached(c))
    BY Zenon, <1>1, ReadsReply DEF Stage, Reply
  <1>7. Stage(c)'
    BY Zenon, <1>2, <1>5, <1>6, ReadsReply DEF Stage, Waiting, Answered
  <1> QED
    BY Zenon, <1>3, <1>4, <1>7 DEF Moved

(* A command sends its request and turns the reply into its exit code.     *)
LEMMA RequestMoves ==
    ASSUME CliInv, NEW c \in Client, NEW op \in Op \ {"none"}, NEW targets, op = OpOf(cmd[c]),
           targets = AnId \/ (op \notin OneId /\ targets \in {NoIds, {Id}}),
           \/ sendRequest(c, op, targets)
           \/ readReply(c) /\ cmd[c] \notin {"killPrefix", "execSync", "execPrefix"}
           \/ readResults(c) /\ cmd[c] \in {"killPrefix", "execSync", "execPrefix"}
    PROVE  Moved(c)
  <1>1. CASE sendRequest(c, op, targets)
    BY Zenon, <1>1, SendMoves
  <1>2. CASE readReply(c) /\ cmd[c] \notin {"killPrefix", "execSync", "execPrefix"}
    <2>1. PICK n \in Nat : n = (IF checkError(Reply(c)) THEN 1 ELSE 0) /\ Quit(c, n)
      BY Zenon, <1>2 DEF readReply
    <2>2. n = 0 <=> Good(c, Reply(c))
      BY SMTT(30), <1>2, <2>1 DEF Good, checkError
    <2> QED
      BY Zenon, <1>2, <2>1, <2>2, ReplyMoves DEF readReply
  <1>3. CASE readResults(c) /\ cmd[c] \in {"killPrefix", "execSync", "execPrefix"}
    <2>1. PICK n \in Nat :
              /\ n = (IF checkError(Reply(c)) \/ printExecSyncResults(Reply(c)) THEN 1 ELSE 0)
              /\ Quit(c, n)
      BY Zenon, <1>3 DEF readResults
    <2>2. n = 0 <=> Good(c, Reply(c))
      BY SMTT(30), <1>3, <2>1 DEF Good, checkError, printExecSyncResults
    <2> QED
      BY Zenon, <1>3, <2>1, <2>2, ReplyMoves DEF readResults
  <1> QED
    BY Zenon, <1>1, <1>2, <1>3

-----------------------------------------------------------------------------
(* cmdAttach and typeInput.                                                *)
LEMMA StreamMoves ==
    ASSUME CliInv, NEW c \in Client, cmdAttach(c) \/ typeInput(c)
    PROVE  Moved(c)
  <1>1. AskTypeOK /\ MapTypeOK /\ InHand(c) /\ Stage(c)
    BY Zenon DEF CliInv
  <1>2. CASE cmdAttach(c)
    <2>1. cmd[c] = "attach" /\ OpOf(cmd[c]) = "attach" /\ cmd[c] \notin Acting
      BY Zenon, <1>2 DEF cmdAttach, OpOf, Acting
    <2>2. CASE sendRequest(c, "attach", AnId)
      BY Zenon, <2>1, <2>2, SendMoves DEF Op, OneId
    <2>3. CASE Reads(c, "read") /\ Quit(c, 1) /\ UNCHANGED ask
      BY Zenon, <2>1, <2>3, ReplyMoves
    <2>4. CASE Reads(c, "read") /\ ~checkError(Reply(c)) /\ To(c, "stream") /\ UNCHANGED <<code, ask>>
      <3>1. at' = [at EXCEPT ![c] = "stream"] /\ at'[c] = "stream"
        BY Zenon, <1>1, <2>4 DEF To, AskTypeOK
      <3>2. Touches(c) /\ [MapsMove]_vars
        BY Zenon, <2>4, <3>1, ReadsReply, RunningTouches DEF Running
      <3>3. InHand(c)'
        BY Zenon, <2>4, ReadsReply DEF InHand, resizing
      <3>4. clientSession[c] \in Id /\ Nothing.op = "none"
        BY Zenon, <1>1, <2>1, <2>4, ReadsReply DEF Stage, Reply, Nothing
      <3>5. Stage(c)'
        BY Zenon, <2>1, <2>4, <3>1, <3>4, ReadsReply DEF Stage, Waiting, Answered
      <3> QED
        BY Zenon, <3>2, <3>3, <3>5 DEF Moved
    <2> QED
      BY Zenon, <1>2, <2>2, <2>3, <2>4 DEF cmdAttach
  <1>3. CASE typeInput(c)
    <2>1. /\ at[c] = "stream" /\ UNCHANGED <<vars, left, found, bad, goals, reached, cmd, at, code, cut>>
      BY Zenon, <1>3 DEF typeInput, Reads, workVars, tellVars, progVars
    <2>2. /\ cmd[c] = "attach" /\ clientSession[c] \in Id /\ c \notin gone
          /\ UNCHANGED <<handler, clientSession, gone>>
      BY Zenon, <1>1, <2>1 DEF Stage, InHand, vars, daemonVars
    <2>3. \/ /\ ask[c] = Nothing /\ UNCHANGED out
             /\ ask' = [ask EXCEPT ![c] = [op |-> "input", ids |-> {clientSession[c]}]]
          \/ out[c] # <<>> /\ out' = [out EXCEPT ![c] = Tail(@)] /\ UNCHANGED ask
      BY Zenon, <1>3 DEF typeInput, Reads
    <2>4. \/ ask' = ask
          \/ \E op \in Op, s \in SUBSET Id :
                 /\ ask' = [ask EXCEPT ![c] = [op |-> op, ids |-> s]]
                 /\ op \in OneId => \E i \in Id : s = {i}
      <3>1. "input" \in Op /\ {clientSession[c]} \in SUBSET Id
        BY Zenon, <2>2 DEF Op, OneId
      <3> QED
        BY Zenon, <2>2, <2>3, <3>1
    <2>5. Touches(c) /\ [MapsMove]_vars
      BY Zenon, <2>1, <2>3, <2>4, RunningTouches DEF Running
    <2>6. ask'[c] = ask[c] \/ (ask[c] = Nothing /\ ask'[c].op = "input")
      BY SMTT(30), <1>1, <2>3 DEF AskTypeOK
    <2>7. ask[c] = Nothing => handler[c].pc \in {"read"}
      BY SMTT(30), <1>1, <2>2, <1>1 DEF InHand, Nothing, resizing, MapTypeOK, HandlerPc, Aloof
    <2>8. InHand(c)'
      BY Zenon, <1>1, <2>1, <2>2, <2>6, <2>7 DEF InHand, resizing
    <2>9. Stage(c)'
      BY Zenon, <1>1, <2>1, <2>2, <2>6 DEF Stage, Waiting, Answered
    <2> QED
      BY Zenon, <2>5, <2>8, <2>9 DEF Moved
  <1> QED
    BY Zenon, <1>2, <1>3

(* cmdHistory.                                                             *)
LEMMA DumpMoves ==
    ASSUME CliInv, NEW c \in Client, cmdHistory(c)
    PROVE  Moved(c)
  <1>1. AskTypeOK /\ InHand(c) /\ Stage(c)
    BY Zenon DEF CliInv
  <1>2. cmd[c] = "history" /\ OpOf(cmd[c]) = "history" /\ cmd[c] \notin Acting
    BY Zenon DEF cmdHistory, OpOf, Acting
  <1>3. CASE sendRequest(c, "history", AnId)
    BY Zenon, <1>2, <1>3, SendMoves DEF Op, OneId
  <1>4. CASE Reads(c, "read") /\ Quit(c, 1) /\ UNCHANGED ask
    BY Zenon, <1>2, <1>4, ReplyMoves
  <1>5. CASE Reads(c, "read") /\ To(c, "dump") /\ UNCHANGED <<code, ask>>
    <2>1. at' = [at EXCEPT ![c] = "dump"] /\ at'[c] = "dump"
      BY Zenon, <1>1, <1>5 DEF To, AskTypeOK
    <2>2. Touches(c) /\ [MapsMove]_vars
      BY Zenon, <1>5, <2>1, ReadsReply, RunningTouches DEF Running
    <2>3. InHand(c)'
      BY Zenon, <1>5, ReadsReply DEF InHand, resizing
    <2>4. Stage(c)'
      BY Zenon, <1>2, <1>5, <2>1, ReadsReply DEF Stage, Waiting, Answered
    <2> QED
      BY Zenon, <2>2, <2>3, <2>4 DEF Moved
  <1>6. CASE Reads(c, "dump") /\ (Quit(c, 0) \/ UNCHANGED <<at, code>>) /\ UNCHANGED ask
    <2>1. /\ at[c] = "dump" /\ out[c] # <<>> /\ out' = [out EXCEPT ![c] = Tail(@)]
          /\ UNCHANGED <<vars, left, found, bad, goals, reached, cmd, cut>>
      BY Zenon, <1>6 DEF Reads, workVars, tellVars
    <2>2. UNCHANGED <<handler, clientSession, gone>> /\ c \notin gone
      BY Zenon, <1>1, <2>1 DEF InHand, vars, daemonVars
    <2>3. /\ at' = at \/ at' = [at EXCEPT ![c] = "ended"]
          /\ code' = code \/ code' = [code EXCEPT ![c] = 0]
      BY Zenon, <1>6 DEF Quit, To
    <2>4. at'[c] \in {"dump", "ended"}
      BY Zenon, <1>1, <2>1, <2>3 DEF AskTypeOK
    <2>5. Touches(c) /\ [MapsMove]_vars
      BY Zenon, <1>6, <2>1, <2>3, RunningTouches DEF Running
    <2>6. InHand(c)'
      BY Zenon, <1>1, <1>6, <2>1, <2>2 DEF InHand, resizing
    <2>7. Stage(c)'
      BY Zenon, <1>2, <2>1, <2>4 DEF Stage, Waiting, Answered
    <2> QED
      BY Zenon, <2>5, <2>6, <2>7 DEF Moved
  <1> QED
    BY Zenon, <1>3, <1>4, <1>5, <1>6 DEF cmdHistory

(* cmdCapturePane.                                                         *)
LEMMA CaptureMoves ==
    ASSUME CliInv, NEW c \in Client, cmdCapturePane(c)
    PROVE  Moved(c)
  <1>1. AskTypeOK /\ InHand(c) /\ Stage(c)
    BY Zenon DEF CliInv
  <1>2. cmd[c] = "capture-pane" /\ OpOf(cmd[c]) = "attach" /\ cmd[c] \notin Acting
    BY Zenon DEF cmdCapturePane, OpOf, Acting
  <1>3. CASE sendRequest(c, "attach", AnId)
    BY Zenon, <1>2, <1>3, SendMoves DEF Op, OneId
  <1>4. CASE Reads(c, "read") /\ Quit(c, 1) /\ UNCHANGED ask
    BY Zenon, <1>2, <1>4, ReplyMoves
  <1>5. CASE /\ Reads(c, "read") /\ ~checkError(Reply(c)) /\ To(c, "leave") /\ UNCHANGED code
             /\ ask' = [ask EXCEPT ![c] = [op |-> "detach", ids |-> {clientSession[c]}]]
    <2>1. at' = [at EXCEPT ![c] = "leave"] /\ at'[c] = "leave"
      BY Zenon, <1>1, <1>5 DEF To, AskTypeOK
    <2>2. clientSession[c] \in Id
      BY Zenon, <1>1, <1>2, <1>5, ReadsReply DEF Stage, Reply
    <2>3. "detach" \in Op /\ {clientSession[c]} \in SUBSET Id
      BY Zenon, <2>2 DEF Op, OneId
    <2>4. Touches(c) /\ [MapsMove]_vars
      BY Zenon, <1>5, <2>1, <2>2, <2>3, ReadsReply, RunningTouches DEF Running
    <2>5. InHand(c)'
      BY Zenon, <1>5, ReadsReply DEF InHand, resizing
    <2>6. Stage(c)'
      BY Zenon, <1>2, <1>5, <2>1, ReadsReply DEF Stage, Waiting, Answered
    <2> QED
      BY Zenon, <2>4, <2>5, <2>6 DEF Moved
  <1>6. CASE Reads(c, "leave") /\ Quit(c, 0) /\ UNCHANGED ask
    <2>1. /\ at[c] = "leave" /\ out[c] # <<>> /\ out' = [out EXCEPT ![c] = Tail(@)]
          /\ UNCHANGED <<vars, left, found, bad, goals, reached, cmd, cut>>
      BY Zenon, <1>6 DEF Reads, workVars, tellVars
    <2>2. UNCHANGED <<handler, clientSession, gone>> /\ c \notin gone
      BY Zenon, <1>1, <2>1 DEF InHand, vars, daemonVars
    <2>3. at' = [at EXCEPT ![c] = "ended"] /\ code' = [code EXCEPT ![c] = 0]
      BY Zenon, <1>6 DEF Quit, To
    <2>4. at'[c] = "ended"
      BY Zenon, <1>1, <2>3 DEF AskTypeOK
    <2>5. Touches(c) /\ [MapsMove]_vars
      BY Zenon, <1>6, <2>1, <2>3, RunningTouches DEF Running
    <2>6. InHand(c)'
      BY Zenon, <1>1, <1>6, <2>1, <2>2 DEF InHand, resizing
    <2>7. Stage(c)'
      BY Zenon, <1>2, <2>1, <2>4 DEF Stage, Waiting, Answered
    <2> QED
      BY Zenon, <2>5, <2>6, <2>7 DEF Moved
  <1> QED
    BY Zenon, <1>3, <1>4, <1>5, <1>6 DEF cmdCapturePane

-----------------------------------------------------------------------------
(* The commands.                                                           *)
LEMMA MainMoves ==
    ASSUME CliInv, NEW c \in Client, main(c)
    PROVE  Moved(c)
  <1>1. CASE cmdAttach(c)
    BY Zenon, <1>1, StreamMoves
  <1>2. CASE cmdHistory(c)
    BY Zenon, <1>2, DumpMoves
  <1>3. CASE cmdCapturePane(c)
    BY Zenon, <1>3, CaptureMoves
  <1>4. ASSUME NEW op \in OneId, op = OpOf(cmd[c]), sendRequest(c, op, AnId) \/ readReply(c)
        PROVE  Moved(c)
    <2>1. op \in Op \ {"none"} /\ cmd[c] \notin {"killPrefix", "execSync", "execPrefix"}
      BY Zenon, <1>4 DEF Op, OneId, OpOf
    <2> QED
      BY Zenon, <1>4, <2>1, RequestMoves
  <1>5. ASSUME NEW op \in {"list", "status", "shutdown"}, op = OpOf(cmd[c]),
               sendRequest(c, op, NoIds) \/ readReply(c)
        PROVE  Moved(c)
    <2>1. /\ op \in Op \ {"none"} /\ op \notin OneId
          /\ cmd[c] \notin {"killPrefix", "execSync", "execPrefix"}
      BY Zenon, <1>5 DEF Op, OneId, OpOf
    <2> QED
      BY Zenon, <1>5, <2>1, RequestMoves
  <1>6. ASSUME cmd[c] \in {"killPrefix", "execSync", "execPrefix"}, NEW t \in {NoIds, {Id}},
               sendRequest(c, cmd[c], t) \/ readResults(c)
        PROVE  Moved(c)
    <2>1. cmd[c] = OpOf(cmd[c]) /\ cmd[c] \in Op \ {"none"} /\ cmd[c] \notin OneId
      BY Zenon, <1>6 DEF Op, OneId, OpOf
    <2> QED
      BY Zenon, <1>6, <2>1, RequestMoves
  <1>7. CASE cmdCreate(c) \/ cmdDetach(c) \/ cmdKill(c) \/ cmdInfo(c) \/ execSingle(c)
    <2>1. /\ cmd[c] \in OneId /\ OpOf(cmd[c]) = cmd[c]
          /\ sendRequest(c, cmd[c], AnId) \/ readReply(c)
      BY Zenon, <1>7 DEF cmdCreate, cmdDetach, cmdKill, cmdInfo, execSingle, OneId, OpOf
    <2> QED
      BY Zenon, <1>4, <2>1
  <1>8. CASE cmdList(c) \/ cmdStatus(c)
    <2>1. /\ cmd[c] \in {"list", "status", "shutdown"} /\ OpOf(cmd[c]) = cmd[c]
          /\ sendRequest(c, cmd[c], NoIds) \/ readReply(c)
      BY Zenon, <1>8 DEF cmdList, cmdStatus, OpOf
    <2> QED
      BY Zenon, <1>5, <2>1
  <1>9. CASE cmdKillPrefix(c) \/ execSync(c) \/ execPrefix(c)
    <2>1. /\ cmd[c] \in {"killPrefix", "execSync", "execPrefix"}
          /\ (\E t \in {NoIds, {Id}} : sendRequest(c, cmd[c], t)) \/ readResults(c)
      BY Zenon, <1>9 DEF cmdKillPrefix, execSync, execPrefix
    <2> QED
      BY Zenon, <1>6, <2>1
  <1>10. CASE cmdNewSession(c) \/ cmdSendKeys(c) \/ cmdKillSession(c) \/ cmdHasSession(c)
    <2>1. \E op \in OneId : OpOf(cmd[c]) = op /\ (sendRequest(c, op, AnId) \/ readReply(c))
      BY Zenon, <1>10 DEF cmdNewSession, cmdSendKeys, cmdKillSession, cmdHasSession, ClientCreate,
                   ClientExec, ClientKill, ClientInfo, OneId, OpOf
    <2> QED
      BY Zenon, <1>4, <2>1
  <1>11. CASE cmdListSessions(c)
    <2>1. OpOf(cmd[c]) = "list" /\ (sendRequest(c, "list", NoIds) \/ readReply(c))
      BY Zenon, <1>11 DEF cmdListSessions, ClientList, OpOf
    <2> QED
      BY Zenon, <1>5, <2>1
  <1>12. CASE callMethod(c)
    <2>1. CASE cmd[c] = "write" /\ ClientWrite(c)
      <3>1. OpOf(cmd[c]) = "input" /\ "input" \in OneId
        BY Zenon, <2>1 DEF OpOf, OneId
      <3> QED
        BY Zenon, <1>4, <2>1, <3>1 DEF ClientWrite
    <2>2. CASE cmd[c] = "shutdown" /\ (sendRequest(c, "shutdown", NoIds) \/ readReply(c))
      <3>1. OpOf(cmd[c]) = "shutdown"
        BY Zenon, <2>2 DEF OpOf
      <3> QED
        BY Zenon, <1>5, <2>2, <3>1
    <2>3. CASE \/ cmd[c] = "resize" /\ ClientResize(c)
               \/ cmd[c] = "scrollback" /\ ClientUpdateEmulatorScrollback(c)
               \/ cmd[c] = "metaSet" /\ ClientMetaSet(c)
               \/ cmd[c] = "metaGet" /\ ClientMetaGet(c)
      <3>1. /\ cmd[c] \in OneId /\ OpOf(cmd[c]) = cmd[c]
            /\ sendRequest(c, cmd[c], AnId) \/ readReply(c)
        BY Zenon, <2>3 DEF ClientResize, ClientUpdateEmulatorScrollback, ClientMetaSet,
           ClientMetaGet, OneId, OpOf
      <3> QED
        BY Zenon, <1>4, <3>1
    <2> QED
      BY Zenon, <1>12, <2>1, <2>2, <2>3 DEF callMethod
  <1> QED
    BY Zenon, <1>1, <1>2, <1>3, <1>7, <1>8, <1>9, <1>10, <1>11, <1>12 DEF main, cmdExec

(* A program that ends without its reply.                                  *)
LEMMA CutMoves ==
    ASSUME CliInv, NEW c \in Client,
           dialFails(c) \/ connectionEnds(c) \/ giveUp(c) \/ interrupt(c)
    PROVE  Moved(c)
  <1>1. AskTypeOK /\ InHand(c) /\ Stage(c)
    BY Zenon DEF CliInv
  <1>2. PICK n \in Nat : Quit(c, n) /\ cut' = cut \cup {c} /\ UNCHANGED <<vars, requestVars, cmd>>
    BY Zenon DEF dialFails, connectionEnds, giveUp, interrupt
  <1>3. UNCHANGED <<ask, out, left, found, bad, goals, reached>>
    BY Zenon, <1>2 DEF requestVars, workVars, tellVars
  <1>4. at' = [at EXCEPT ![c] = "ended"] /\ at'[c] = "ended" /\ code' = [code EXCEPT ![c] = n]
    BY Zenon, <1>1, <1>2 DEF Quit, To, AskTypeOK
  <1>5. Touches(c) /\ [MapsMove]_vars
    BY Zenon, <1>2, <1>3, <1>4, RunningTouches DEF Running
  <1>6. UNCHANGED <<handler, clientSession, gone>>
    BY Zenon, <1>2 DEF vars, daemonVars
  <1>7. InHand(c)'
    BY Zenon, <1>1, <1>3, <1>4, <1>6 DEF InHand, resizing
  <1>8. Stage(c)'
    BY Zenon, <1>2, <1>4 DEF Stage, Waiting, Answered
  <1> QED
    BY Zenon, <1>5, <1>7, <1>8 DEF Moved

(* The daemon notices that a connection is gone.                           *)
LEMMA HangUpMoves ==
    ASSUME CliInv, NEW c \in Client, hangUp(c)
    PROVE  Moved(c)
  <1>1. AskTypeOK /\ MapTypeOK /\ InHand(c) /\ Stage(c)
    BY Zenon DEF CliInv
  <1>2. at[c] = "ended" /\ ask[c] = Nothing /\ Disconnect(c)
    BY Zenon DEF hangUp
  <1>3. /\ UNCHANGED <<ask, out, left, found, bad, goals, reached>>
        /\ UNCHANGED <<cmd, at, code, cut>>
    BY Zenon DEF hangUp, requestVars, workVars, tellVars, progVars
  <1>4. [MapsMove]_vars
    BY ZenonT(30), <1>2 DEF MapsMove, Next
  <1>5. /\ gone' = gone \cup {c}
        /\ \A d \in Client \ {c} : handler'[d] = handler[d] /\ clientSession'[d] = clientSession[d]
        /\ handler'[c].pc \in {"read", "detach"}
    <2>1. /\ handler \in [Client -> [pc: HandlerPc \cup Aloof, id: Id \cup {NoId}]]
          /\ clientSession \in [Client -> Id \cup {NoId}]
      BY Zenon, <1>1 DEF MapTypeOK
    <2>2. gone' = gone \cup {c} /\ handler[c] = Ready /\ Ready.pc = "read"
      BY Zenon, <1>2 DEF Disconnect, Reading, Ready
    <2>3. CASE clientSession[c] = NoId
      <3>1. handler' = handler /\ clientSession' = clientSession
        BY Zenon, <1>2, <2>3 DEF Disconnect
      <3> QED
        BY Zenon, <2>2, <3>1
    <2>4. CASE clientSession[c] # NoId
      <3>1. /\ clientSession' = [clientSession EXCEPT ![c] = NoId]
            /\ Leave(c, clientSession[c])
        BY Zenon, <1>2, <2>4 DEF Disconnect
      <3>2. Continue(c, "detach", clientSession[c]) \/ Finish(c)
        BY Zenon, <3>1 DEF Leave
      <3>3. CASE Finish(c)
        <4>1. handler' = [handler EXCEPT ![c] = Ready]
          BY Zenon, <3>3 DEF Finish
        <4> QED
          BY Zenon, <2>1, <2>2, <3>1, <4>1
      <3>4. CASE Continue(c, "detach", clientSession[c])
        <4>1. handler' = [handler EXCEPT ![c] = [pc |-> "detach", id |-> clientSession[c]]]
          BY Zenon, <3>4 DEF Continue
        <4>2. handler'[c].pc = "detach"
          BY Zenon, <2>1, <4>1
        <4> QED
          BY Zenon, <2>1, <2>2, <3>1, <4>1, <4>2
      <3> QED
        BY Zenon, <3>2, <3>3, <3>4
    <2> QED
      BY Zenon, <2>3, <2>4
  <1>6. Touches(c)
    <2>1. AskTypeOK'
      BY Zenon, <1>1, <1>3 DEF AskTypeOK
    <2>2. \A d \in Client \ {c} : Same(d)
      BY Zenon, <1>3, <1>5 DEF Same
    <2> QED
      BY Zenon, <2>1, <2>2 DEF Touches
  <1>7. InHand(c)'
    BY Zenon, <1>2, <1>3, <1>5 DEF InHand, resizing
  <1>8. AllReached(c)' <=> AllReached(c)
    BY Zenon, <1>3 DEF AllReached
  <1>9. Stage(c)'
    BY Zenon, <1>1, <1>2, <1>3, <1>5, <1>8 DEF Stage, Waiting, Answered
  <1> QED
    BY Zenon, <1>4, <1>6, <1>7, <1>9 DEF Moved

-----------------------------------------------------------------------------
(* The steps of a client are those of its program and of the daemon for it.*)
LEMMA CliStepMoves ==
    ASSUME CliInv, NEW c \in Client,
           \/ Program(c) \/ typeInput(c) \/ giveUp(c) \/ interrupt(c)
           \/ Serve(c) \/ hangUp(c)
    PROVE  Moved(c)
  BY Zenon, MainMoves, CutMoves, StreamMoves, ServeMoves, HangUpMoves DEF Program

(* The steps of no client: sessions, and the daemon as a whole.            *)
LEMMA OthersMove ==
    ASSUME CliInv, ((SessionsMove \/ StopDaemon) /\ UNCHANGED progVars) \/ UNCHANGED cliVars
    PROVE  [MapsMove]_vars /\ AskTypeOK' /\ \A d \in Client : Same(d)
  <1>1. [MapsMove]_vars
    BY Zenon DEF SessionsMove, StopDaemon, MapsMove, Next, SessionStep, cliVars
  <1>2. /\ UNCHANGED <<handler, clientSession, gone>>
        /\ UNCHANGED <<ask, out, left, found, bad, goals, reached>>
        /\ UNCHANGED <<cmd, at, code, cut>>
    BY Zenon DEF SessionsMove, StopDaemon, cliVars, requestVars, workVars, tellVars, progVars, vars,
           daemonVars
  <1>3. AskTypeOK'
    BY Zenon, <1>2 DEF CliInv, AskTypeOK
  <1> QED
    BY Zenon, <1>1, <1>2, <1>3 DEF Same

(* Programs and daemon take the steps of the maps.                         *)
LEMMA CliMovesMaps == CliInv /\ [CliNext]_cliVars => [MapsMove]_vars
  BY Zenon, CliStepMoves, OthersMove DEF CliNext, Moved

(* The invariant holds before any command runs.                            *)
LEMMA CliInitHolds == CliInit => CliInv
  <1> SUFFICES ASSUME CliInit PROVE CliInv
    BY Zenon
  <1>1. MapTypeOK /\ RegisteredIsLive
    BY Zenon, InitHolds DEF CliInit, RequestInit
  <1>2. AskTypeOK
    <2>1. Nothing \in [op: Op, ids: SUBSET Id] /\ Nothing.op \notin OneId
      BY Zenon DEF Nothing, Op, OneId
    <2>2. <<>> \in Seq(FrameType)
      OBVIOUS
    <2> QED
      BY Zenon, <2>1, <2>2 DEF CliInit, RequestInit, AskTypeOK
  <1>3. ASSUME NEW c \in Client PROVE InHand(c) /\ Stage(c)
    <2>1. /\ handler[c].pc = "read" /\ gone = {} /\ at[c] = "dial" /\ ask[c] = Nothing
          /\ out[c] = <<>> /\ reached[c] = {}
      BY Zenon DEF CliInit, RequestInit, Init, Ready
    <2> QED
      BY Zenon, <2>1 DEF InHand, resizing, Stage, Waiting, Answered
  <1> QED
    BY Zenon, <1>1, <1>2, <1>3 DEF CliInv

(* Every step keeps it.                                                    *)
LEMMA CliNextHolds == CliInv /\ [CliNext]_cliVars => CliInv'
  <1> SUFFICES ASSUME CliInv, [CliNext]_cliVars PROVE CliInv'
    BY Zenon
  <1>1. [MapsMove]_vars
    BY Zenon, CliMovesMaps
  <1>2. MapTypeOK /\ RegTypeOK /\ RegisteredIsLive
    BY Zenon DEF CliInv, MapTypeOK
  <1>3. MapTypeOK'
    BY Zenon, <1>1, <1>2, MapTypeStep
  <1>4. RegisteredIsLive'
    BY Zenon, <1>1, <1>2, StepIsRegStep, RegLiveStep
  <1>5. ASSUME NEW c \in Client,
               \/ Program(c) \/ typeInput(c) \/ giveUp(c) \/ interrupt(c)
               \/ Serve(c) \/ hangUp(c)
        PROVE  AskTypeOK' /\ \A d \in Client : (InHand(d) /\ Stage(d))'
    <2>1. Moved(c)
      BY Zenon, <1>5, CliStepMoves
    <2>2. ASSUME NEW d \in Client \ {c} PROVE InHand(d)' /\ Stage(d)'
      BY Zenon, <2>1, SameHolds DEF Moved, Touches, CliInv
    <2> QED
      BY Zenon, <2>1, <2>2 DEF Moved, Touches
  <1>6. CASE ((SessionsMove \/ StopDaemon) /\ UNCHANGED progVars) \/ UNCHANGED cliVars
    <2>1. AskTypeOK' /\ \A d \in Client : Same(d)
      BY Zenon, <1>6, OthersMove
    <2> QED
      BY Zenon, <1>3, <1>4, <2>1, SameHolds DEF CliInv
  <1> QED
    BY Zenon, <1>3, <1>4, <1>5, <1>6 DEF CliNext, CliInv

(* The invariant of the programs and the requests they have under way.     *)
THEOREM CliInvariance == CliSpec => []CliInv
  BY CliInitHolds, CliNextHolds, PTL DEF CliSpec

(* An exit code is true, for any commands, clients, sessions and prefixes. *)
THEOREM ExitCodeIsTrueCorrect == CliSpec => []ExitCodeIsTrue
  <1>1. CliInv => ExitCodeIsTrue
    BY Zenon DEF CliInv, Stage, ExitCodeIsTrue
  <1> QED
    BY <1>1, CliInvariance, PTL

-----------------------------------------------------------------------------
(* The three sizes of a session.                                           *)
OneSize(h) == size[h].pty = size[h].emu /\ size[h].emu = size[h].rec

(* Every size is one that a client asked for, or the first one.            *)
AnySize == {0} \cup {SizeOf[c] : c \in Client}

SizeTypeOK == size \in [Handle -> [pty: AnySize, emu: AnySize, rec: AnySize]]

(* How far the resize of c has come.  It works alone on its session, or    *)
(* the session is known to have met two at once.                           *)
Resized(c) ==
    /\ found[c] \in Handle
    /\ found[c] \notin overlapped =>
          /\ \A d \in Client : resizing(d) /\ found[d] = found[c] => d = c
          /\ handler[c].pc = "resizePty" => OneSize(found[c])
          /\ handler[c].pc = "resizeEmu" =>
                size[found[c]].pty = SizeOf[c] /\ size[found[c]].emu = size[found[c]].rec
          /\ handler[c].pc = "resizeRec" =>
                size[found[c]].pty = SizeOf[c] /\ size[found[c]].emu = SizeOf[c]

SizeInv ==
    /\ SizeTypeOK /\ SizesAgree
    /\ \A c \in Client : resizing(c) => Resized(c)

(* A step that has nothing to do with a resize.                            *)
Still ==
    /\ UNCHANGED <<size, overlapped>>
    /\ \A d \in Client :
          /\ resizing(d)' <=> resizing(d)
          /\ resizing(d) => handler'[d] = handler[d] /\ found'[d] = found[d]

(* A step that resizes nothing and moves no resize keeps the sizes equal.  *)
LEMMA StillHolds == SizeInv /\ Still => SizeInv'
  <1> SUFFICES ASSUME SizeInv, Still PROVE SizeInv'
    BY Zenon
  <1>1. SizeTypeOK'
    BY Zenon DEF SizeInv, SizeTypeOK, Still
  <1>2. SizesAgree'
    BY DEF SizeInv, SizesAgree, Still
  <1>3. ASSUME NEW c \in Client, resizing(c)' PROVE Resized(c)'
    <2>1. resizing(c) /\ handler'[c] = handler[c] /\ found'[c] = found[c] /\ Resized(c)
      BY Zenon, <1>3 DEF Still, SizeInv
    <2>2. \A d \in Client : resizing(d)' => resizing(d) /\ found'[d] = found[d]
      BY Zenon DEF Still
    <2>3. size' = size /\ overlapped' = overlapped
      BY Zenon DEF Still
    <2> QED
      BY Zenon, <2>1, <2>2, <2>3 DEF Resized, OneSize
  <1> QED
    BY Zenon, <1>1, <1>2, <1>3 DEF SizeInv

(* A step of a client whose handler does not resize, or stays where it is. *)
LEMMA MovedStill ==
    ASSUME NEW c \in Client, Touches(c), UNCHANGED <<size, overlapped>>,
           \/ handler'[c] = handler[c] /\ found'[c] = found[c]
           \/ ~resizing(c) /\ ~resizing(c)'
    PROVE  Still
  BY Zenon DEF Touches, Same, Still, resizing

(* A step of the resize of c, which leaves the other sessions alone.       *)
LEMMA ResizeHolds ==
    ASSUME SizeInv, SizeTypeOK', NEW c \in Client, resizing(c), UNCHANGED <<found, overlapped>>,
           \A d \in Client \ {c} : handler'[d] = handler[d],
           \A h \in Handle \ {found[c]} : size'[h] = size[h],
           resizing(c)' => Resized(c)',
           found[c] \notin overlapped /\ ~resizing(c)' => OneSize(found[c])'
    PROVE  SizeInv'
  <1>1. Resized(c)
    BY Zenon DEF SizeInv
  <1>2. \A d \in Client \ {c} : (resizing(d)' <=> resizing(d)) /\ found'[d] = found[d]
    BY Zenon DEF resizing
  <1>3. ASSUME NEW d \in Client \ {c}, resizing(d)' PROVE Resized(d)'
    <2>1. Resized(d) /\ resizing(d)
      BY Zenon, <1>2, <1>3 DEF SizeInv
    <2>2. CASE found[d] \in overlapped
      BY Zenon, <2>1, <2>2 DEF Resized
    <2>3. CASE found[d] \notin overlapped
      <3>1. found[d] # found[c] /\ found[d] \in Handle
        BY Zenon, <2>1, <2>3 DEF Resized
      <3>2. size'[found[d]] = size[found[d]]
        BY Zenon, <3>1
      <3>3. \A e \in Client : resizing(e)' /\ found'[e] = found[d] => e = d
        BY Zenon, <1>2, <2>1, <2>3, <3>1 DEF Resized
      <3>4. handler'[d] = handler[d]
        BY Zenon
      <3> QED
        BY Zenon, <1>2, <2>1, <2>3, <3>1, <3>2, <3>3, <3>4 DEF Resized, OneSize
    <2> QED
      BY Zenon, <2>2, <2>3
  <1>4. SizesAgree'
    <2>1. SUFFICES ASSUME NEW h \in Handle \ overlapped
                   PROVE  OneSize(h)' \/ \E d \in Client : resizing(d)' /\ found'[d] = h
      BY Zenon DEF SizesAgree, OneSize
    <2>2. CASE h = found[c]
      BY Zenon, <2>1, <2>2
    <2>3. CASE h # found[c]
      <3>1. OneSize(h) \/ \E d \in Client : resizing(d) /\ found[d] = h
        BY Zenon, <2>1 DEF SizeInv, SizesAgree, OneSize
      <3>2. size'[h] = size[h]
        BY Zenon, <2>1, <2>3
      <3> QED
        BY Zenon, <1>2, <2>3, <3>1, <3>2 DEF OneSize
    <2> QED
      BY Zenon, <2>2, <2>3
  <1> QED
    BY Zenon, <1>3, <1>4 DEF SizeInv

(* handleResize and its steps keep the sizes.                              *)
LEMMA ResizesKeep ==
    ASSUME CliInv, SizeInv, NEW c \in Client, Touches(c),
           handleResize(c) \/ ResizePty(c) \/ ResizeEmu(c) \/ ResizeRec(c)
    PROVE  SizeInv'
  <1>1. AskTypeOK /\ MapTypeOK /\ SizeTypeOK
    BY Zenon DEF CliInv, SizeInv
  <1>2. \A d \in Client \ {c} : handler'[d] = handler[d] /\ found'[d] = found[d]
    BY Zenon DEF Touches, Same
  <1>3. CASE handleResize(c)
    <2>1. handler[c] = Ready /\ ~resizing(c) /\ Named(c) \in Id /\ size' = size
      <3>1. handler[c] = Ready /\ ask[c].op = "resize" /\ size' = size
        BY Zenon, <1>3 DEF handleResize, Asked, Reading
      <3>2. Ready.pc = "read" /\ "resize" \in OneId
        BY Zenon DEF Ready, OneId
      <3>3. Named(c) \in Id
        BY Zenon, <3>1, <3>2, NamedIsId
      <3>4. ~resizing(c)
        BY Zenon, <3>1, <3>2 DEF resizing
      <3> QED
        BY Zenon, <3>1, <3>3, <3>4
    <2>2. CASE sessions[Named(c)] = NoHandle
      BY Zenon, <1>2, <1>3, <2>2, MovedStill, StillHolds DEF handleResize
    <2>3. CASE sessions[Named(c)] # NoHandle
      <3>1. PICK h \in Handle : h = sessions[Named(c)]
        BY Zenon, <2>1, <2>3, EntryOf
      <3>2. /\ found' = [found EXCEPT ![c] = h] /\ found'[c] = h
            /\ overlapped' = IF \E d \in Client : resizing(d) /\ found[d] = h
                             THEN overlapped \cup {h} ELSE overlapped
        BY ZenonT(30), <1>1, <1>3, <2>3, <3>1 DEF handleResize, AskTypeOK
      <3>3. handler'[c].pc = "resizePty"
        BY SMTT(30), <1>1, <1>3, <2>3 DEF handleResize, Continue, MapTypeOK
      <3>4. \A d \in Client \ {c} : (resizing(d)' <=> resizing(d)) /\ found'[d] = found[d]
        BY Zenon, <1>2 DEF resizing
      <3>5. overlapped \subseteq overlapped'
        BY Zenon, <3>2
      <3>6. ASSUME NEW d \in Client \ {c}, resizing(d)' PROVE Resized(d)'
        <4>1. Resized(d) /\ resizing(d) /\ found'[d] = found[d] /\ handler'[d] = handler[d]
          BY Zenon, <1>2, <3>4, <3>6 DEF SizeInv
        <4>2. CASE found[d] \in overlapped'
          BY Zenon, <4>1, <4>2 DEF Resized
        <4>3. CASE found[d] \notin overlapped'
          <5>1. found[d] # h /\ found[d] \notin overlapped
            BY Zenon, <3>2, <4>1, <4>3
          <5>2. \A e \in Client : resizing(e)' /\ found'[e] = found[d] => e = d
            BY Zenon, <3>2, <3>4, <4>1, <5>1 DEF Resized
          <5> QED
            BY Zenon, <2>1, <4>1, <4>3, <5>1, <5>2 DEF Resized, OneSize
        <4> QED
          BY Zenon, <4>2, <4>3
      <3>7. Resized(c)'
        <4>1. CASE h \in overlapped'
          BY Zenon, <3>2, <4>1 DEF Resized
        <4>2. CASE h \notin overlapped'
          <5>1. \A d \in Client : ~(resizing(d) /\ found[d] = h)
            BY Zenon, <3>2, <4>2
          <5>2. OneSize(h)
            BY Zenon, <3>5, <4>2, <5>1 DEF SizeInv, SizesAgree, OneSize
          <5>3. \A d \in Client : resizing(d)' /\ found'[d] = h => d = c
            BY Zenon, <3>4, <5>1
          <5> QED
            BY Zenon, <2>1, <3>2, <3>3, <4>2, <5>2, <5>3 DEF Resized, OneSize
        <4> QED
          BY Zenon, <4>1, <4>2
      <3>8. SizesAgree'
        BY Zenon, <2>1, <3>4, <3>5 DEF SizeInv, SizesAgree
      <3>9. SizeTypeOK'
        BY Zenon, <1>1, <2>1 DEF SizeTypeOK
      <3> QED
        BY Zenon, <3>6, <3>7, <3>8, <3>9 DEF SizeInv
    <2> QED
      BY ZenonT(30), <2>2, <2>3
  <1>4. ASSUME resizing(c), UNCHANGED found PROVE found[c] \in Handle /\ Resized(c)
    BY Zenon, <1>4 DEF SizeInv, Resized
  <1>5. /\ DOMAIN size = Handle
        /\ \A h \in Handle : DOMAIN size[h] = {"pty", "emu", "rec"}
        /\ SizeOf[c] \in AnySize
    BY Zenon, <1>1 DEF SizeTypeOK, AnySize
  <1>6. CASE ResizePty(c)
    <2>1. resizing(c) /\ handler[c].pc = "resizePty" /\ UNCHANGED <<found, overlapped>>
      BY Zenon, <1>6 DEF ResizePty, resizing, workVars, tellVars
    <2>2. found[c] \in Handle /\ Resized(c)
      BY Zenon, <1>4, <2>1
    <2>3. CASE size' = [size EXCEPT ![found[c]].pty = SizeOf[c]] /\ Continue(c, "resizeEmu", handler[c].id)
      <3>1. /\ size'[found[c]].pty = SizeOf[c] /\ size'[found[c]].emu = size[found[c]].emu
            /\ size'[found[c]].rec = size[found[c]].rec
            /\ \A h \in Handle \ {found[c]} : size'[h] = size[h]
        BY Zenon, <1>5, <2>2, <2>3
      <3>2. SizeTypeOK'
        BY Zenon, <1>1, <1>5, <2>2, <2>3 DEF SizeTypeOK
      <3>3. handler'[c].pc = "resizeEmu"
        BY Zenon, <1>1, <2>3 DEF Continue, MapTypeOK
      <3>4. resizing(c)'
        BY Zenon, <3>3 DEF resizing
      <3>5. \A d \in Client : resizing(d)' /\ found'[d] = found[c] => d = c \/ found[c] \in overlapped
        BY Zenon, <1>2, <2>1, <2>2 DEF Resized, resizing
      <3>6. Resized(c)'
        BY Zenon, <2>1, <2>2, <3>1, <3>3, <3>5 DEF Resized, OneSize
      <3> QED
        BY Zenon, <1>2, <2>1, <3>1, <3>2, <3>4, <3>6, ResizeHolds
    <2>4. CASE Finish(c) /\ UNCHANGED size
      <3>1. ~resizing(c)'
        BY Zenon, <1>1, <2>4 DEF Finish, Ready, MapTypeOK, resizing
      <3>2. SizeTypeOK'
        BY Zenon, <1>1, <2>4 DEF SizeTypeOK
      <3>3. found[c] \notin overlapped => OneSize(found[c])'
        BY Zenon, <2>1, <2>2, <2>4 DEF Resized, OneSize
      <3> QED
        BY Zenon, <1>2, <2>1, <2>4, <3>1, <3>2, <3>3, ResizeHolds
    <2> QED
      BY Zenon, <1>6, <2>3, <2>4 DEF ResizePty
  <1>7. CASE ResizeEmu(c)
    <2>1. resizing(c) /\ handler[c].pc = "resizeEmu" /\ UNCHANGED <<found, overlapped>>
      BY Zenon, <1>7 DEF ResizeEmu, resizing, workVars, tellVars
    <2>2. found[c] \in Handle /\ Resized(c)
      BY Zenon, <1>4, <2>1
    <2>3. size' = [size EXCEPT ![found[c]].emu = SizeOf[c]] /\ Continue(c, "resizeRec", handler[c].id)
      BY Zenon, <1>7 DEF ResizeEmu
    <2>4. /\ size'[found[c]].emu = SizeOf[c] /\ size'[found[c]].pty = size[found[c]].pty
          /\ \A h \in Handle \ {found[c]} : size'[h] = size[h]
      BY Zenon, <1>5, <2>2, <2>3
    <2>5. SizeTypeOK'
      BY Zenon, <1>1, <1>5, <2>2, <2>3 DEF SizeTypeOK
    <2>6. handler'[c].pc = "resizeRec"
      BY Zenon, <1>1, <2>3 DEF Continue, MapTypeOK
    <2>7. resizing(c)'
      BY Zenon, <2>6 DEF resizing
    <2>8. \A d \in Client : resizing(d)' /\ found'[d] = found[c] => d = c \/ found[c] \in overlapped
      BY Zenon, <1>2, <2>1, <2>2 DEF Resized, resizing
    <2>9. Resized(c)'
      BY Zenon, <2>1, <2>2, <2>4, <2>6, <2>8 DEF Resized, OneSize
    <2> QED
      BY Zenon, <1>2, <2>1, <2>4, <2>5, <2>7, <2>9, ResizeHolds
  <1>8. CASE ResizeRec(c)
    <2>1. resizing(c) /\ handler[c].pc = "resizeRec" /\ UNCHANGED <<found, overlapped>>
      BY Zenon, <1>8 DEF ResizeRec, resizing, workVars, tellVars
    <2>2. found[c] \in Handle /\ Resized(c)
      BY Zenon, <1>4, <2>1
    <2>3. size' = [size EXCEPT ![found[c]].rec = SizeOf[c]] /\ Finish(c)
      BY Zenon, <1>8 DEF ResizeRec
    <2>4. /\ size'[found[c]].rec = SizeOf[c] /\ size'[found[c]].pty = size[found[c]].pty
          /\ size'[found[c]].emu = size[found[c]].emu
          /\ \A h \in Handle \ {found[c]} : size'[h] = size[h]
      BY Zenon, <1>5, <2>2, <2>3
    <2>5. SizeTypeOK'
      BY Zenon, <1>1, <1>5, <2>2, <2>3 DEF SizeTypeOK
    <2>6. ~resizing(c)'
      BY Zenon, <1>1, <2>3 DEF Finish, Ready, MapTypeOK, resizing
    <2>7. found[c] \notin overlapped => OneSize(found[c])'
      BY Zenon, <2>1, <2>2, <2>4 DEF Resized, OneSize
    <2> QED
      BY Zenon, <1>2, <2>1, <2>4, <2>5, <2>6, <2>7, ResizeHolds
  <1> QED
    BY Zenon, <1>3, <1>6, <1>7, <1>8

-----------------------------------------------------------------------------
(* The other handlers leave the sizes alone.                               *)
LEMMA ServeKeeps ==
    ASSUME CliInv, SizeInv, NEW c \in Client, Serve(c)
    PROVE  SizeInv'
  <1>1. Touches(c) /\ MapTypeOK
    BY Zenon, ServeMoves DEF Moved, CliInv
  <1>2. CASE handleResize(c) \/ ResizePty(c) \/ ResizeEmu(c) \/ ResizeRec(c)
    BY Zenon, <1>1, <1>2, ResizesKeep
  <1>3. CASE \/ handleCreate(c) \/ handleInfo(c) \/ handleKill(c) \/ handleMetaSet(c)
             \/ handleMetaGet(c) \/ handleList(c) \/ handleStatus(c) \/ handleShutdown(c)
             \/ handleUpdateEmulatorScrollback(c) \/ handleHistory(c)
    <2>1. UNCHANGED <<handler, found, size, overlapped>>
      BY Zenon, <1>3 DEF handleCreate, handleInfo, handleKill, handleMetaSet, handleMetaGet,
         handleList, handleStatus, handleShutdown, handleUpdateEmulatorScrollback,
         handleHistory, workVars, tellVars, vars, daemonVars
    <2> QED
      BY Zenon, <1>1, <2>1, MovedStill, StillHolds
  <1>4. CASE handleAttach(c) \/ handleDetach(c)
    <2>1. UNCHANGED <<found, size, overlapped>>
      BY Zenon, <1>4 DEF handleAttach, handleDetach, workVars, tellVars
    <2>2. handler'[c] = handler[c] \/ (handler[c].pc \in HandlerPc /\ handler'[c].pc \in HandlerPc)
      <3>1. handler \in [Client -> [pc: HandlerPc \cup Aloof, id: Id \cup {NoId}]]
        BY Zenon, <1>1 DEF MapTypeOK
      <3>2. ASSUME NEW p, NEW i, Continue(c, p, i) PROVE handler'[c].pc = p
        <4>1. handler'[c] = [pc |-> p, id |-> i]
          BY Zenon, <3>1, <3>2 DEF Continue
        <4> QED
          BY <4>1
      <3>3. /\ Finish(c) => handler'[c] = Ready
            /\ Reading(c) => handler[c] = Ready
        BY Zenon, <3>1 DEF Finish, Reading
      <3>4. Ready.pc = "read" /\ "read" \in HandlerPc /\ "attach" \in HandlerPc /\ "record" \in HandlerPc
            /\ "detach" \in HandlerPc
        BY Zenon DEF HandlerPc, Ready
      <3>5. CASE handleAttach(c)
        <4>1. \/ handler' = handler
              \/ Reading(c) /\ Continue(c, "attach", Named(c))
              \/ handler[c].pc = "attach" /\ (Continue(c, "record", handler[c].id) \/ Finish(c))
              \/ handler[c].pc = "record" /\ Finish(c)
          BY Zenon, <3>5 DEF handleAttach, AttachGet, AttachState, AttachRecord, vars, daemonVars
        <4> QED
          BY Zenon, <3>2, <3>3, <3>4, <4>1
      <3>6. CASE handleDetach(c)
        <4>1. \/ Reading(c) /\ (Continue(c, "detach", Named(c)) \/ Finish(c))
              \/ handler[c].pc = "detach" /\ Finish(c)
          BY Zenon, <3>6 DEF handleDetach, DetachLocked, DetachState, Leave
        <4> QED
          BY Zenon, <3>2, <3>3, <3>4, <4>1
      <3> QED
        BY ZenonT(30), <1>4, <3>5, <3>6
    <2>3. handler'[c] = handler[c] \/ (~resizing(c) /\ ~resizing(c)')
      BY Zenon, <2>2 DEF resizing, HandlerPc
    <2> QED
      BY Zenon, <1>1, <2>1, <2>3, MovedStill, StillHolds
  <1>5. CASE \/ handleInput(c) \/ handleExec(c) \/ handleExecSync(c) \/ handleKillPrefix(c)
             \/ WriteLookup(c) \/ WritePty(c) \/ KillTarget(c)
    <2>1. UNCHANGED <<size, overlapped>>
      BY Zenon, <1>5 DEF handleInput, handleExec, handleExecSync, handleKillPrefix, Targets,
         WriteLookup, WritePty, KillTarget, tellVars
    <2>2. ~resizing(c)
      <3>1. CASE handleInput(c) \/ handleExec(c) \/ handleExecSync(c) \/ handleKillPrefix(c)
        <4>1. Reading(c)
          BY Zenon, <3>1 DEF handleInput, handleExec, handleExecSync, handleKillPrefix, Asked
        <4> QED
          BY <4>1 DEF Reading, Ready, resizing
      <3>2. CASE WriteLookup(c) \/ WritePty(c) \/ KillTarget(c)
        <4>1. handler[c].pc \in {"lookup", "write", "kill"}
          BY Zenon, <3>2 DEF WriteLookup, WritePty, KillTarget
        <4> QED
          BY Zenon, <4>1 DEF resizing
      <3> QED
        BY ZenonT(30), <1>5, <3>1, <3>2
    <2>3. \A pc \in {"lookup", "write", "kill"} : \A i : Continue(c, pc, i) => ~resizing(c)'
      BY SMTT(30), <1>1 DEF Continue, MapTypeOK, resizing
    <2>4. (Finish(c) \/ UNCHANGED handler) => ~resizing(c)'
      BY SMTT(30), <1>1, <2>2 DEF Finish, Ready, MapTypeOK, resizing
    <2>5. ASSUME NEW pc \in {"lookup", "kill"}, NEW ids, Targets(c, ids, pc) PROVE ~resizing(c)'
      BY Zenon, <2>3, <2>4, <2>5 DEF Targets
    <2>6. ASSUME NEW pc \in {"lookup", "kill"}, NEW b, NextTarget(c, b, pc) PROVE ~resizing(c)'
      BY Zenon, <2>3, <2>4, <2>6 DEF NextTarget
    <2>7. ~resizing(c)'
      <3>1. CASE handleInput(c) \/ handleExec(c) \/ handleExecSync(c) \/ handleKillPrefix(c)
        BY Zenon, <2>5, <3>1 DEF handleInput, handleExec, handleExecSync, handleKillPrefix
      <3>2. CASE WriteLookup(c)
        BY Zenon, <2>3, <2>6, <3>2 DEF WriteLookup
      <3>3. CASE WritePty(c)
        BY Zenon, <2>6, <3>3 DEF WritePty
      <3>4. CASE KillTarget(c)
        BY Zenon, <2>6, <3>4 DEF KillTarget
      <3> QED
        BY Zenon, <1>5, <3>1, <3>2, <3>3, <3>4
    <2> QED
      BY Zenon, <1>1, <2>1, <2>2, <2>7, MovedStill, StillHolds
  <1> QED
    BY Zenon, <1>2, <1>3, <1>4, <1>5 DEF Serve, dispatch

(* Nor does a program, a hang-up, a session or the end of the daemon       *)
(* change a size.                                                          *)
LEMMA SizeNextHolds == CliInv /\ SizeInv /\ [CliNext]_cliVars => SizeInv'
  <1> SUFFICES ASSUME CliInv, SizeInv, [CliNext]_cliVars PROVE SizeInv'
    BY Zenon
  <1>1. ASSUME NEW c \in Client, Serve(c) PROVE SizeInv'
    BY Zenon, <1>1, ServeKeeps
  <1>2. ASSUME UNCHANGED <<handler, found, size, overlapped>> PROVE SizeInv'
    BY Zenon, <1>2, StillHolds DEF Still, resizing
  <1>3. ASSUME NEW c \in Client, main(c) PROVE UNCHANGED <<handler, found, size, overlapped>>
    <2>1. ASSUME NEW op, NEW t, sendRequest(c, op, t)
          PROVE  UNCHANGED <<handler, found, size, overlapped>>
      BY Zenon, <2>1 DEF sendRequest, vars, daemonVars, workVars, tellVars
    <2>2. ASSUME NEW w, Reads(c, w) PROVE UNCHANGED <<handler, found, size, overlapped>>
      BY Zenon, <2>2 DEF Reads, vars, daemonVars, workVars, tellVars
    <2>3. (\E op, t : sendRequest(c, op, t)) \/ (\E w : Reads(c, w))
      BY Zenon, <1>3 DEF main, cmdCreate, cmdAttach, cmdDetach, cmdKill, cmdKillPrefix,
         cmdList, cmdInfo, cmdStatus, cmdExec, execSingle, execSync, execPrefix, cmdHistory,
         cmdNewSession, cmdSendKeys, cmdCapturePane, cmdKillSession, cmdListSessions,
         cmdHasSession, callMethod, ClientCreate, ClientKill, ClientWrite, ClientResize,
         ClientUpdateEmulatorScrollback, ClientList, ClientInfo, ClientExec, ClientMetaSet,
         ClientMetaGet, readReply, readResults
    <2> QED
      BY Zenon, <2>1, <2>2, <2>3
  <1>4. ASSUME NEW c \in Client,
               dialFails(c) \/ connectionEnds(c) \/ typeInput(c) \/ giveUp(c) \/ interrupt(c)
        PROVE  UNCHANGED <<handler, found, size, overlapped>>
    BY Zenon, <1>4 DEF dialFails, connectionEnds, typeInput, giveUp, interrupt, Reads, vars,
       daemonVars, requestVars, workVars, tellVars
  <1>5. ASSUME NEW c \in Client, hangUp(c) PROVE SizeInv'
    <2>1. Touches(c)
      BY Zenon, <1>5, HangUpMoves DEF Moved
    <2>2. UNCHANGED <<found, size, overlapped>> /\ Disconnect(c)
      BY ZenonT(30), <1>5 DEF hangUp, requestVars, workVars, tellVars
    <2>3. handler[c] = Ready /\ (handler' = handler \/ handler'[c].pc \in {"read", "detach"})
      BY SMTT(30), <2>2 DEF Disconnect, Reading, Leave, Continue, Finish, Ready, CliInv, MapTypeOK
    <2>4. handler'[c] = handler[c] \/ (~resizing(c) /\ ~resizing(c)')
      BY <2>3 DEF resizing, Ready
    <2> QED
      BY Zenon, <2>1, <2>2, <2>4, MovedStill, StillHolds
  <1>6. CASE ((SessionsMove \/ StopDaemon) /\ UNCHANGED progVars) \/ UNCHANGED cliVars
    <2>1. UNCHANGED <<handler, found, size, overlapped>>
      BY Zenon, <1>6 DEF SessionsMove, StopDaemon, cliVars, vars, daemonVars, requestVars,
         workVars, tellVars
    <2> QED
      BY Zenon, <1>2, <2>1
  <1> QED
    BY Zenon, <1>1, <1>2, <1>3, <1>4, <1>5, <1>6 DEF CliNext, Program

(* At the start every session has the size 0.                              *)
LEMMA SizeInitHolds == CliInit => SizeInv
  <1> SUFFICES ASSUME CliInit PROVE SizeInv
    BY Zenon
  <1>1. \A h \in Handle : size[h] = [pty |-> 0, emu |-> 0, rec |-> 0]
    BY Zenon DEF CliInit, RequestInit
  <1>2. SizeTypeOK
    BY Zenon DEF CliInit, RequestInit, SizeTypeOK, AnySize
  <1>3. SizesAgree
    BY <1>1 DEF SizesAgree
  <1>4. \A c \in Client : ~resizing(c)
    BY Zenon DEF CliInit, RequestInit, Init, Ready, resizing
  <1> QED
    BY Zenon, <1>2, <1>3, <1>4 DEF SizeInv

(* A session has one size whenever no resize is at work on it, unless two  *)
(* overlapped, for any clients and sizes.                                  *)
THEOREM SizesAgreeCorrect == CliSpec => []SizesAgree
  <1>1. SizeInv => SizesAgree
    BY Zenon DEF SizeInv
  <1> QED
    BY <1>1, SizeInitHolds, SizeNextHolds, CliInvariance, PTL DEF CliSpec

-----------------------------------------------------------------------------
(* What was proved of the maps holds of them under all requests, programs  *)
(* and hang-ups, too: the composition moves them only as Attachments may.  *)
LEMMA CliMaps == CliSpec => [](MapTypeOK /\ RegisteredIsLive) /\ [][MapsMove]_vars
  <1>1. CliInv => MapTypeOK /\ RegisteredIsLive
    BY Zenon DEF CliInv
  <1> QED
    BY <1>1, CliInvariance, CliMovesMaps, PTL DEF CliSpec

(* The maps are those of Attachments, whatever requests clients mix and    *)
(* whatever ends programs and daemon.                                      *)
THEOREM AttachmentsImplemented == CliSpec => ImplementsAttachments
  <1>1. CliInit => Watching!Init
    <2> SUFFICES ASSUME CliInit PROVE Watching!Init
      BY Zenon
    <2>1. Init
      BY Zenon DEF CliInit, RequestInit
    <2>2. [c \in Client |-> IF handler[c].pc \in HandlerPc THEN handler[c] ELSE Ready]
             = [c \in Client |-> Ready]
      BY Zenon, <2>1 DEF Init, Ready, HandlerPc
    <2>3. Ready = Watching!Ready
      BY Zenon DEF Ready, Watching!Ready
    <2> QED
      BY Zenon, <2>1, <2>2, <2>3 DEF Init, RegInit, Watching!Init, Watching!RegInit
  <1>2. MapTypeOK /\ [MapsMove]_vars => [Watching!Next]_(Watching!vars)
    BY Zenon, SeenStep DEF SeenNext
  <1> QED
    BY <1>1, <1>2, CliMaps, PTL DEF CliSpec, ImplementsAttachments, Watching!Spec

(* detachClient forgets the client, also one that was killed or timed out. *)
THEOREM CliForgottenCorrect == CliSpec => []DisconnectedIsForgotten
  <1>1. CliInit => CurrentIsAttached /\ Agree
    BY Zenon, InitHolds DEF CliInit, RequestInit, Init, Agree
  <1> QED
    BY <1>1, CurrentStep, AgreeStep, AgreeForgets, CliMaps, PTL DEF CliSpec

(* A watched session is alive, also when programs end in the middle of a   *)
(* request, until a Detach overlaps an attach under its ID.                *)
THEOREM CliAliveCorrect == CliSpec => []AttachedIsAlive
  <1>1. CliInit => WatchedAlive
    BY DEF CliInit, RequestInit, Init, RegInit, WatchedAlive, Registered
  <1> QED
    BY <1>1, WatchedStep, AliveWatched, CliMaps, PTL DEF CliSpec

=============================================================================
