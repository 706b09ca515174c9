----------------------- MODULE SessionRegistry_proofs -----------------------
(***************************************************************************)
(* What holds of the session map for any number of IDs, sessions and       *)
(* callers: the types, that entries are live and filed under their own ID, *)
(* and who can lose an entry.  The session cap, which takes the theorems   *)
(* about finite sets, is in SessionService_proofs.                         *)
(***************************************************************************)
EXTENDS SessionRegistry, TLAPS

(* Every operation of the service keeps the types of the map.              *)
LEMMA RegTypeStep == RegTypeOK /\ [RegNext]_regVars => RegTypeOK'
<1> SUFFICES ASSUME RegTypeOK, [RegNext]_regVars PROVE RegTypeOK'
  OBVIOUS
<1> USE HandleAssumption DEF RegTypeOK, SessionState, Live
<1>1. ASSUME NEW h \in Handle, Create(h) PROVE RegTypeOK'
  BY <1>1 DEF Create
<1>2. ASSUME NEW h \in Handle, Exit(h) PROVE RegTypeOK'
  BY <1>2 DEF Exit
<1>3. ASSUME NEW h \in Handle, Notify(h) PROVE RegTypeOK'
  BY <1>3 DEF Notify
<1>4. ASSUME NEW i \in Id, Kill(i) PROVE RegTypeOK'
  BY <1>4 DEF Kill
<1>5. ASSUME NEW i \in Id, Attach(i) PROVE RegTypeOK'
  BY <1>5 DEF Attach
<1>6. ASSUME NEW i \in Id, Detach(i) PROVE RegTypeOK'
  BY <1>6 DEF Detach
<1>7. CASE UNCHANGED regVars
  BY <1>7 DEF regVars
<1> QED
  BY <1>1, <1>2, <1>3, <1>4, <1>5, <1>6, <1>7 DEF RegNext

(* Every operation of the service keeps the entries of the map live: Exit  *)
(* empties the slot of the one ID its handle can be filed under.           *)
LEMMA RegLiveStep ==
    RegTypeOK /\ RegisteredIsLive /\ [RegNext]_regVars => RegisteredIsLive'
<1> SUFFICES ASSUME RegTypeOK, RegisteredIsLive, [RegNext]_regVars
             PROVE  RegisteredIsLive'
  OBVIOUS
<1> USE HandleAssumption DEF RegTypeOK, RegisteredIsLive, Registered, SessionState, Live
<1>1. ASSUME NEW h \in Handle, Create(h) PROVE RegisteredIsLive'
  BY <1>1 DEF Create
<1>2. ASSUME NEW h \in Handle, Exit(h) PROVE RegisteredIsLive'
  BY <1>2 DEF Exit
<1>3. ASSUME NEW h \in Handle, Notify(h) PROVE RegisteredIsLive'
  BY <1>3 DEF Notify
<1>4. ASSUME NEW i \in Id, Kill(i) PROVE RegisteredIsLive'
  BY <1>4 DEF Kill
<1>5. ASSUME NEW i \in Id, Attach(i) PROVE RegisteredIsLive'
  BY <1>5 DEF Attach
<1>6. ASSUME NEW i \in Id, Detach(i) PROVE RegisteredIsLive'
  BY <1>6 DEF Detach
<1>7. CASE UNCHANGED regVars
  BY <1>7 DEF regVars
<1> QED
  BY <1>1, <1>2, <1>3, <1>4, <1>5, <1>6, <1>7 DEF RegNext

(* Every operation keeps a running session in the map or blames a killed   *)
(* predecessor: an Exit that takes the entry of another session has been   *)
(* killed, or has itself lost its entry that way.                          *)
LEMMA RegLostStep ==
    RegTypeOK /\ RegisteredIsLive /\ LostOnlyToPredecessor /\ [RegNext]_regVars
        => LostOnlyToPredecessor'
<1> SUFFICES ASSUME RegTypeOK, RegisteredIsLive, LostOnlyToPredecessor, [RegNext]_regVars
             PROVE  LostOnlyToPredecessor'
  OBVIOUS
<1> USE HandleAssumption DEF RegTypeOK, RegisteredIsLive, LostOnlyToPredecessor,
        Registered, SessionState, Live
<1>1. ASSUME NEW h \in Handle, Create(h) PROVE LostOnlyToPredecessor'
  BY <1>1 DEF Create
<1>2. ASSUME NEW h \in Handle, Exit(h) PROVE LostOnlyToPredecessor'
  BY <1>2 DEF Exit
<1>3. ASSUME NEW h \in Handle, Notify(h) PROVE LostOnlyToPredecessor'
  BY <1>3 DEF Notify
<1>4. ASSUME NEW i \in Id, Kill(i) PROVE LostOnlyToPredecessor'
  BY <1>4 DEF Kill
<1>5. ASSUME NEW i \in Id, Attach(i) PROVE LostOnlyToPredecessor'
  BY <1>5 DEF Attach
<1>6. ASSUME NEW i \in Id, Detach(i) PROVE LostOnlyToPredecessor'
  BY <1>6 DEF Detach
<1>7. CASE UNCHANGED regVars
  BY <1>7 DEF regVars
<1> QED
  BY <1>1, <1>2, <1>3, <1>4, <1>5, <1>6, <1>7 DEF RegNext

(* The initial map is empty, so everything holds of it.                    *)
LEMMA RegInitHolds == RegInit => RegTypeOK /\ RegisteredIsLive
BY HandleAssumption DEF RegInit, RegTypeOK, RegisteredIsLive, Registered, SessionState

(* The session map is always well typed, whatever is called in whatever    *)
(* order.                                                                  *)
THEOREM RegTypeCorrect == RegSpec => []RegTypeOK
BY RegInitHolds, RegTypeStep, PTL DEF RegSpec

(* Whatever a lookup in Service.sessions finds is filed under its own ID   *)
(* and has not exited.                                                     *)
THEOREM RegLiveCorrect == RegSpec => []RegisteredIsLive
BY RegInitHolds, RegTypeStep, RegLiveStep, PTL DEF RegSpec

(* A running session that nobody killed is missing from the map only when  *)
(* the waitLoop of a killed session with the same ID deleted its entry.    *)
THEOREM RegLostCorrect == RegSpec => []LostOnlyToPredecessor
<1>1. RegInit => LostOnlyToPredecessor
  BY DEF RegInit, LostOnlyToPredecessor, Live
<1> QED
  BY <1>1, RegInitHolds, RegTypeStep, RegLiveStep, RegLostStep, PTL DEF RegSpec
=============================================================================
