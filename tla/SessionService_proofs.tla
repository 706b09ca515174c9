----------------------- MODULE SessionService_proofs ------------------------
(***************************************************************************)
(* The service with its resources implements the session map, and its two  *)
(* teardown paths never pull a resource from under a registered session.   *)
(***************************************************************************)
EXTENDS SessionService, SessionRegistry_proofs, FiniteSetTheorems

(* The strengthening that makes RegisteredIsUsable and NotifiedIsReleased  *)
(* inductive.  A handle whose teardown has begun was created and is out of *)
(* the map: on the side of Kill because it is in killed ...                *)
CallsNameHandles ==
    \A c \in Goroutine :
        /\ call[c].pc \in {"spawn", "sweep"} => call[c].h \in Handle
        /\ call[c].pc \in {"stop", "stopClose", "hangup"} => call[c].h \in killed

KilledIsOut == \A h \in killed : state[h] # "unborn" /\ sessions[Sid[h]] # h

(* ... and on the side of waitLoop because its state is "exited".          *)
ReleasedIsOut == \A h \in stopped \cup closed : h \in killed \/ state[h] = "exited"

(* The position of waitLoop tells the state of the session and of the      *)
(* child, and what has been released.                                      *)
WaitLoopTracks ==
    \A h \in Handle :
        /\ waitPc[h] = "none" <=> state[h] = "unborn"
        /\ proc[h] = "none" <=> state[h] = "unborn"
        /\ waitPc[h] \in {"wait", "lock"} <=> state[h] \in Live
        /\ waitPc[h] \in {"close", "notify", "done"} => h \in stopped
        /\ waitPc[h] \in {"notify", "done"} => h \in closed
        /\ h \in notified => waitPc[h] = "done"

Teardown == CallsNameHandles /\ KilledIsOut /\ ReleasedIsOut /\ WaitLoopTracks

IInv == TypeOK /\ RegisteredIsLive /\ Teardown

(* Before anything is called, nothing is released and all holds.           *)
LEMMA InitHolds == Init => IInv
<1> SUFFICES ASSUME Init PROVE IInv
  OBVIOUS
<1>1. RegTypeOK /\ RegisteredIsLive
  BY RegInitHolds DEF Init
<1>2. TypeOK
  BY Zenon, <1>1 DEF Init, TypeOK, Idle, CallPc, WaitPc
<1>3. Teardown
  BY SMTT(30), HandleAssumption DEF Init, RegInit, Teardown, CallsNameHandles, KilledIsOut,
     ReleasedIsOut, WaitLoopTracks, Idle, Live
<1> QED
  BY <1>1, <1>2, <1>3 DEF IInv

(* Every step of the service is an operation of the session map or leaves  *)
(* the map alone.                                                          *)
LEMMA StepIsRegStep == IInv /\ [Next]_svcVars => [RegNext]_regVars
<1> SUFFICES ASSUME IInv, [Next]_svcVars PROVE [RegNext]_regVars
  OBVIOUS
<1> USE DEF regVars
<1>1. ASSUME NEW c \in Caller, NEW h \in Handle, CreateAcquire(c, h) PROVE [RegNext]_regVars
  BY <1>1 DEF CreateAcquire
<1>2. ASSUME NEW c \in Caller, CreateLocked(c) PROVE [RegNext]_regVars
  BY <1>2 DEF CreateLocked, At, IInv, Teardown, CallsNameHandles, Goroutine, RegNext
<1>3. ASSUME NEW c \in Caller, CreateFails(c) PROVE [RegNext]_regVars
  BY <1>3 DEF CreateFails
<1>4. ASSUME NEW c \in Caller, NEW i \in Id, CallKill(c, i) PROVE [RegNext]_regVars
  BY <1>4 DEF CallKill, KillLocked, RegNext
<1>5. ASSUME NEW c \in Caller, NEW i \in Id, CallAttach(c, i) PROVE [RegNext]_regVars
  BY <1>5 DEF CallAttach, RegNext
<1>6. ASSUME NEW c \in Caller, NEW i \in Id, CallDetach(c, i) PROVE [RegNext]_regVars
  BY <1>6 DEF CallDetach, RegNext
<1>7. ASSUME NEW c \in Sweeper, SweepList(c) PROVE [RegNext]_regVars
  BY <1>7 DEF SweepList
<1>8. ASSUME NEW c \in Sweeper, NEW h \in Handle, SweepTest(c, h) PROVE [RegNext]_regVars
  BY <1>8 DEF SweepTest
<1>9. ASSUME NEW c \in Sweeper, SweepKill(c) PROVE [RegNext]_regVars
  BY <1>9, HandleAssumption DEF SweepKill, KillLocked, At, IInv, Teardown, CallsNameHandles,
     Goroutine, RegNext
<1>10. ASSUME NEW c \in Goroutine, KillStop(c) PROVE [RegNext]_regVars
  BY <1>10 DEF KillStop
<1>11. ASSUME NEW c \in Goroutine, KillStopClose(c) PROVE [RegNext]_regVars
  BY <1>11 DEF KillStopClose
<1>12. ASSUME NEW c \in Goroutine, KillHangup(c) PROVE [RegNext]_regVars
  BY <1>12 DEF KillHangup
<1>13. ASSUME NEW h \in Handle, ChildExit(h) PROVE [RegNext]_regVars
  BY <1>13 DEF ChildExit
<1>14. ASSUME NEW h \in Handle, Wait(h) PROVE [RegNext]_regVars
  BY <1>14 DEF Wait
<1>15. ASSUME NEW h \in Handle, WaitLocked(h) PROVE [RegNext]_regVars
  BY <1>15 DEF WaitLocked, RegNext
<1>16. ASSUME NEW h \in Handle, WaitStop(h) PROVE [RegNext]_regVars
  BY <1>16 DEF WaitStop
<1>17. ASSUME NEW h \in Handle, WaitStopClose(h) PROVE [RegNext]_regVars
  BY <1>17 DEF WaitStopClose
<1>18. ASSUME NEW h \in Handle, WaitClose(h) PROVE [RegNext]_regVars
  BY <1>18 DEF WaitClose
<1>19. ASSUME NEW h \in Handle, WaitNotify(h) PROVE [RegNext]_regVars
  BY <1>19 DEF WaitNotify, RegNext
<1>20. CASE UNCHANGED svcVars
  BY SMTT(30), <1>20 DEF svcVars
<1> QED
  BY SMTT(30), <1>1, <1>2, <1>3, <1>4, <1>5, <1>6, <1>7, <1>8, <1>9, <1>10, <1>11,
     <1>12, <1>13, <1>14, <1>15, <1>16, <1>17, <1>18, <1>19, <1>20
     DEF Next, WaitLoop, KillRest

(* Every step of the service keeps the types.                              *)
LEMMA TypeStep == IInv /\ [Next]_svcVars => TypeOK'
<1> SUFFICES ASSUME IInv, [Next]_svcVars PROVE TypeOK'
  OBVIOUS
<1>0. RegTypeOK'
  BY StepIsRegStep, RegTypeStep DEF IInv, TypeOK
<1> USE <1>0, HandleAssumption DEF IInv, TypeOK, CallPc, WaitPc, Idle, Goroutine, resVars
<1>1. ASSUME NEW c \in Caller, NEW h \in Handle, CreateAcquire(c, h) PROVE TypeOK'
  BY <1>1 DEF CreateAcquire
<1>2. ASSUME NEW c \in Caller, CreateLocked(c) PROVE TypeOK'
  BY Zenon, <1>2 DEF CreateLocked
<1>3. ASSUME NEW c \in Caller, CreateFails(c) PROVE TypeOK'
  BY <1>3 DEF CreateFails
<1>4. ASSUME NEW c \in Caller, NEW i \in Id, CallKill(c, i) PROVE TypeOK'
  BY <1>4 DEF CallKill, KillLocked, Kill, RegTypeOK
<1>5. ASSUME NEW c \in Caller, NEW i \in Id, CallAttach(c, i) PROVE TypeOK'
  BY <1>5 DEF CallAttach
<1>6. ASSUME NEW c \in Caller, NEW i \in Id, CallDetach(c, i) PROVE TypeOK'
  BY <1>6 DEF CallDetach
<1>7. ASSUME NEW c \in Sweeper, SweepList(c) PROVE TypeOK'
  BY <1>7 DEF SweepList, Registered, RegTypeOK
<1>8. ASSUME NEW c \in Sweeper, NEW h \in Handle, SweepTest(c, h) PROVE TypeOK'
  BY SMTT(30), <1>8 DEF SweepTest
<1>9. ASSUME NEW c \in Sweeper, SweepKill(c) PROVE TypeOK'
  BY <1>9 DEF SweepKill, KillLocked, Kill, RegTypeOK
<1>10. ASSUME NEW c \in Goroutine, KillStop(c) PROVE TypeOK'
  BY <1>10 DEF KillStop, Goto
<1>11. ASSUME NEW c \in Goroutine, KillStopClose(c) PROVE TypeOK'
  BY <1>11 DEF KillStopClose, Goto, CloseDone, At, Teardown, CallsNameHandles, RegTypeOK
<1>12. ASSUME NEW c \in Goroutine, KillHangup(c) PROVE TypeOK'
  BY <1>12 DEF KillHangup, At, Teardown, CallsNameHandles, RegTypeOK
<1>13. ASSUME NEW h \in Handle, ChildExit(h) PROVE TypeOK'
  BY <1>13 DEF ChildExit
<1>14. ASSUME NEW h \in Handle, Wait(h) PROVE TypeOK'
  BY <1>14 DEF Wait, WaitGoto
<1>15. ASSUME NEW h \in Handle, WaitLocked(h) PROVE TypeOK'
  BY <1>15 DEF WaitLocked, WaitGoto
<1>16. ASSUME NEW h \in Handle, WaitStop(h) PROVE TypeOK'
  BY <1>16 DEF WaitStop, WaitGoto
<1>17. ASSUME NEW h \in Handle, WaitStopClose(h) PROVE TypeOK'
  BY <1>17 DEF WaitStopClose, WaitGoto, CloseDone
<1>18. ASSUME NEW h \in Handle, WaitClose(h) PROVE TypeOK'
  BY <1>18 DEF WaitClose, WaitGoto
<1>19. ASSUME NEW h \in Handle, WaitNotify(h) PROVE TypeOK'
  BY <1>19 DEF WaitNotify, WaitGoto
<1>20. CASE UNCHANGED svcVars
  BY SMTT(30), <1>20 DEF svcVars
<1> QED
  BY ZenonT(30), <1>1, <1>2, <1>3, <1>4, <1>5, <1>6, <1>7, <1>8, <1>9, <1>10, <1>11,
     <1>12, <1>13, <1>14, <1>15, <1>16, <1>17, <1>18, <1>19, <1>20
     DEF Next, WaitLoop, KillRest

(* Every step of the service keeps the bookkeeping of the two teardowns.   *)
LEMMA TeardownStep == IInv /\ [Next]_svcVars => Teardown'
<1> SUFFICES ASSUME IInv, [Next]_svcVars PROVE Teardown'
  OBVIOUS
<1> USE HandleAssumption DEF IInv, TypeOK, RegTypeOK, Teardown, CallsNameHandles,
        KilledIsOut, ReleasedIsOut, WaitLoopTracks, Goroutine, regVars, resVars
<1>1. ASSUME NEW c \in Caller, NEW h \in Handle, CreateAcquire(c, h) PROVE Teardown'
  BY SMTT(30), <1>1 DEF CreateAcquire, Idle
<1>2. ASSUME NEW c \in Caller, CreateLocked(c) PROVE Teardown'
  BY <1>2 DEF CreateLocked, Create, Idle, At, Live, SessionState
<1>3. ASSUME NEW c \in Caller, CreateFails(c) PROVE Teardown'
  BY <1>3 DEF CreateFails, Idle, At
<1>4. ASSUME NEW c \in Caller, NEW i \in Id, CallKill(c, i) PROVE Teardown'
  BY SMTT(30), <1>4 DEF CallKill, KillLocked, Kill, RegisteredIsLive, Registered,
     Live
<1>5. ASSUME NEW c \in Caller, NEW i \in Id, CallAttach(c, i) PROVE Teardown'
  BY <1>5 DEF CallAttach, Attach, Live, SessionState, RegisteredIsLive,
     Registered
<1>6. ASSUME NEW c \in Caller, NEW i \in Id, CallDetach(c, i) PROVE Teardown'
  BY SMTT(30), <1>6 DEF CallDetach, Detach, Live, SessionState, RegisteredIsLive,
     Registered
<1>7. ASSUME NEW c \in Sweeper, SweepList(c) PROVE Teardown'
  BY SMTT(30), <1>7 DEF SweepList, Registered
<1>8. ASSUME NEW c \in Sweeper, NEW h \in Handle, SweepTest(c, h) PROVE Teardown'
  BY SMTT(30), <1>8 DEF SweepTest
<1>9. ASSUME NEW c \in Sweeper, SweepKill(c) PROVE Teardown'
  <2>1. CASE KillLocked(c, Sid[call[c].h]) /\ UNCHANGED todo
    BY SMTT(30), <1>9, <2>1 DEF SweepKill, KillLocked, Kill, At, RegisteredIsLive,
       Registered, Live
  <2>2. CASE call' = [call EXCEPT ![c] = Idle] /\ UNCHANGED <<regVars, resVars, waitPc, todo>>
    BY SMTT(30), <2>2 DEF Idle
  <2> QED
    BY Zenon, <1>9, <2>1, <2>2 DEF SweepKill
<1>10. ASSUME NEW c \in Goroutine, KillStop(c) PROVE Teardown'
  BY <1>10 DEF KillStop, Goto, At
<1>11. ASSUME NEW c \in Goroutine, KillStopClose(c) PROVE Teardown'
  BY <1>11 DEF KillStopClose, Goto, CloseDone, At
<1>12. ASSUME NEW c \in Goroutine, KillHangup(c) PROVE Teardown'
  BY <1>12 DEF KillHangup, Idle, At
<1>13. ASSUME NEW h \in Handle, ChildExit(h) PROVE Teardown'
  BY SMTT(30), <1>13 DEF ChildExit
<1>14. ASSUME NEW h \in Handle, Wait(h) PROVE Teardown'
  BY <1>14 DEF Wait, WaitGoto
<1>15. ASSUME NEW h \in Handle, WaitLocked(h) PROVE Teardown'
  BY <1>15 DEF WaitLocked, WaitGoto, Exit, Live, SessionState
<1>16. ASSUME NEW h \in Handle, WaitStop(h) PROVE Teardown'
  BY <1>16 DEF WaitStop, WaitGoto
<1>17. ASSUME NEW h \in Handle, WaitStopClose(h) PROVE Teardown'
  BY SMTT(30), <1>17 DEF WaitStopClose, WaitGoto, CloseDone, Live, SessionState
<1>18. ASSUME NEW h \in Handle, WaitClose(h) PROVE Teardown'
  BY <1>18 DEF WaitClose, WaitGoto
<1>19. ASSUME NEW h \in Handle, WaitNotify(h) PROVE Teardown'
  BY <1>19 DEF WaitNotify, WaitGoto, Notify, Live, SessionState
<1>20. CASE UNCHANGED svcVars
  BY <1>20 DEF svcVars
<1> QED
  BY ZenonT(30), <1>1, <1>2, <1>3, <1>4, <1>5, <1>6, <1>7, <1>8, <1>9, <1>10, <1>11,
     <1>12, <1>13, <1>14, <1>15, <1>16, <1>17, <1>18, <1>19, <1>20
     DEF Next, WaitLoop, KillRest

(* The inductive invariant holds throughout.                               *)
LEMMA Invariance == Spec => []IInv
<1>1. IInv /\ [Next]_svcVars => IInv'
  BY StepIsRegStep, TypeStep, RegLiveStep, TeardownStep DEF IInv, TypeOK
<1> QED
  BY InitHolds, <1>1, PTL DEF Spec

(* The service is always well typed.                                       *)
THEOREM TypeCorrect == Spec => []TypeOK
BY Invariance, PTL DEF IInv

(* Whatever a caller finds in the session map has a running batcher and an *)
(* open PTY, for any interleaving of Kill, waitLoop, Reaper and Watchdog   *)
(* and any reuse of session IDs.                                           *)
THEOREM UsableCorrect == Spec => []RegisteredIsUsable
<1>1. IInv => RegisteredIsUsable
  BY HandleAssumption DEF IInv, TypeOK, RegTypeOK, RegisteredIsLive, Registered,
     Teardown, KilledIsOut, ReleasedIsOut, WaitLoopTracks, RegisteredIsUsable, Live
<1> QED
  BY Invariance, <1>1, PTL

(* onExit is called only after the batcher is stopped and the PTY closed.  *)
THEOREM ReleasedCorrect == Spec => []NotifiedIsReleased
<1>1. IInv => NotifiedIsReleased
  BY SMTT(30) DEF IInv, TypeOK, RegTypeOK, Teardown, WaitLoopTracks, NotifiedIsReleased
<1> QED
  BY Invariance, <1>1, PTL

-----------------------------------------------------------------------------
(* Who may close Batcher.done: one Kill per handle, and its waitLoop.  The *)
(* one that finds it closed after having found it open was overtaken by    *)
(* the other.                                                              *)
Killing(c) == call[c].pc \in {"stop", "stopClose", "hangup"}

OneKiller == \A c, d \in Goroutine : Killing(c) /\ Killing(d) /\ call[c].h = call[d].h => c = d

Overtaken ==
    /\ \A c \in Goroutine :
          call[c].pc \in {"stop", "stopClose"} /\ call[c].h \in stopped
              => state[call[c].h] = "exited"
    /\ \A h \in stopped : waitPc[h] \in {"stop", "stopClose"} => h \in killed

StopInv == OneKiller /\ Overtaken /\ PanicNeedsKillAndExit

(* Every step keeps it that way, and only an overtaken Stop panics.        *)
LEMMA StopStep == IInv /\ StopInv /\ [Next]_svcVars => StopInv'
<1> SUFFICES ASSUME IInv, StopInv, [Next]_svcVars PROVE StopInv'
  BY SMTT(30)
<1> USE HandleAssumption DEF IInv, TypeOK, RegTypeOK, Teardown, CallsNameHandles,
        KilledIsOut, ReleasedIsOut, WaitLoopTracks, Goroutine, regVars, resVars,
        StopInv, OneKiller, Overtaken, PanicNeedsKillAndExit, Killing
<1>1. ASSUME NEW c \in Caller, NEW h \in Handle, CreateAcquire(c, h) PROVE StopInv'
  BY SMTT(30), <1>1 DEF CreateAcquire, Idle
<1>2. ASSUME NEW c \in Caller, CreateLocked(c) PROVE StopInv'
  BY SMTT(30), <1>2 DEF CreateLocked, Create, Idle, At, Live, SessionState
<1>3. ASSUME NEW c \in Caller, CreateFails(c) PROVE StopInv'
  BY SMTT(30), <1>3 DEF CreateFails, Idle, At
<1>4. ASSUME NEW c \in Caller, NEW i \in Id, CallKill(c, i) PROVE StopInv'
  BY SMTT(30), <1>4 DEF CallKill, KillLocked, Kill, RegisteredIsLive, Registered, Live
<1>5. ASSUME NEW c \in Caller, NEW i \in Id, CallAttach(c, i) PROVE StopInv'
  BY SMTT(30), <1>5 DEF CallAttach, Attach, Live, SessionState, RegisteredIsLive, Registered
<1>6. ASSUME NEW c \in Caller, NEW i \in Id, CallDetach(c, i) PROVE StopInv'
  BY SMTT(30), <1>6 DEF CallDetach, Detach, Live, SessionState, RegisteredIsLive, Registered
<1>7. ASSUME NEW c \in Sweeper, SweepList(c) PROVE StopInv'
  BY SMTT(30), <1>7 DEF SweepList, Registered
<1>8. ASSUME NEW c \in Sweeper, NEW h \in Handle, SweepTest(c, h) PROVE StopInv'
  <2>1. UNCHANGED <<regVars, resVars, waitPc>>
    BY SMTT(30), <1>8 DEF SweepTest
  <2>2. CASE UNCHANGED call
    BY SMTT(30), <2>1, <2>2
  <2>3. CASE call' = [call EXCEPT ![c] = [pc |-> "sweep", h |-> h]]
    BY SMTT(30), <2>1, <2>3
  <2> QED
    BY SMTT(30), <1>8, <2>2, <2>3 DEF SweepTest
<1>9. ASSUME NEW c \in Sweeper, SweepKill(c) PROVE StopInv'
  BY SMTT(30), <1>9 DEF SweepKill, KillLocked, Kill, Idle, At, RegisteredIsLive, Registered, Live
<1>10. ASSUME NEW c \in Goroutine, KillStop(c) PROVE StopInv'
  BY SMTT(30), <1>10 DEF KillStop, Goto, At
<1>11. ASSUME NEW c \in Goroutine, KillStopClose(c) PROVE StopInv'
  BY SMTT(30), <1>11 DEF KillStopClose, Goto, CloseDone, At
<1>12. ASSUME NEW c \in Goroutine, KillHangup(c) PROVE StopInv'
  BY SMTT(30), <1>12 DEF KillHangup, Idle, At
<1>13. ASSUME NEW h \in Handle, ChildExit(h) PROVE StopInv'
  BY SMTT(30), <1>13 DEF ChildExit
<1>14. ASSUME NEW h \in Handle, Wait(h) PROVE StopInv'
  BY SMTT(30), <1>14 DEF Wait, WaitGoto
<1>15. ASSUME NEW h \in Handle, WaitLocked(h) PROVE StopInv'
  BY SMTT(30), <1>15 DEF WaitLocked, WaitGoto, Exit, Live, SessionState
<1>16. ASSUME NEW h \in Handle, WaitStop(h) PROVE StopInv'
  BY SMTT(30), <1>16 DEF WaitStop, WaitGoto
<1>17. ASSUME NEW h \in Handle, WaitStopClose(h) PROVE StopInv'
  BY SMTT(30), <1>17 DEF WaitStopClose, WaitGoto, CloseDone, Live, SessionState
<1>18. ASSUME NEW h \in Handle, WaitClose(h) PROVE StopInv'
  BY SMTT(30), <1>18 DEF WaitClose, WaitGoto
<1>19. ASSUME NEW h \in Handle, WaitNotify(h) PROVE StopInv'
  BY SMTT(30), <1>19 DEF WaitNotify, WaitGoto, Notify, Live, SessionState
<1>20. CASE UNCHANGED svcVars
  BY <1>20 DEF svcVars
<1> QED
  BY ZenonT(30), <1>1, <1>2, <1>3, <1>4, <1>5, <1>6, <1>7, <1>8, <1>9, <1>10, <1>11,
     <1>12, <1>13, <1>14, <1>15, <1>16, <1>17, <1>18, <1>19, <1>20
     DEF Next, WaitLoop, KillRest

(* The double close of Batcher.Stop needs a Kill that meets the exit of    *)
(* the session it kills; nothing else makes it panic.                      *)
THEOREM PanicCorrect == Spec => []PanicNeedsKillAndExit
<1>1. Init => StopInv
  BY DEF Init, StopInv, OneKiller, Overtaken, PanicNeedsKillAndExit, Killing, Idle
<1>2. StopInv => PanicNeedsKillAndExit
  BY DEF StopInv
<1> QED
  BY <1>1, <1>2, Invariance, StopStep, PTL DEF Spec

-----------------------------------------------------------------------------
(* The service implements the session map: with the resources and the      *)
(* goroutines' positions hidden, its behaviours are those of RegSpec, so   *)
(* RegisteredIsLive and CapRespected hold of it as well.                   *)
THEOREM RegistryImplemented == Spec => ImplementsRegistry
<1>1. Init => RegInit
  BY DEF Init
<1> QED
  BY <1>1, Invariance, StepIsRegStep, PTL DEF Spec, ImplementsRegistry, RegSpec

-----------------------------------------------------------------------------
(* The registered IDs are a finite set.                                    *)
LEMMA RegisteredFinite == IsFiniteSet(Registered) /\ Cardinality(Registered) \in Nat
BY LimitAssumption, FS_Subset, FS_CardinalityType DEF Registered

(* Every operation of the service keeps to the cap: Create adds one ID     *)
(* below it, and no other operation adds any.                              *)
LEMMA RegCapStep ==
    RegTypeOK /\ CapRespected /\ [RegNext]_regVars => CapRespected'
<1> SUFFICES ASSUME RegTypeOK, CapRespected, [RegNext]_regVars, MaxSessions > 0
             PROVE  Cardinality(Registered') <= MaxSessions
  BY DEF CapRespected
<1> USE HandleAssumption, LimitAssumption
<1>0. IsFiniteSet(Registered) /\ Cardinality(Registered) \in Nat
  BY RegisteredFinite
<1>1. ASSUME NEW h \in Handle, Create(h) PROVE Cardinality(Registered') <= MaxSessions
  <2>1. Registered' = Registered \cup {Sid[h]} /\ Sid[h] \notin Registered
    BY <1>1 DEF Create, Registered, RegTypeOK
  <2>2. Cardinality(Registered') = Cardinality(Registered) + 1
    BY Zenon, <2>1, <1>0, FS_AddElement
  <2> QED
    BY <2>2, <1>1, <1>0 DEF Create
<1>2. ASSUME Registered' \subseteq Registered
      PROVE  Cardinality(Registered') <= MaxSessions
  <2>1. Cardinality(Registered') <= Cardinality(Registered)
    BY <1>2, <1>0, FS_Subset
  <2>2. Cardinality(Registered') \in Nat
    BY <1>2, <1>0, FS_Subset, FS_CardinalityType
  <2> QED
    BY <2>1, <2>2, <1>0 DEF CapRespected
<1>3. ASSUME NEW h \in Handle, Exit(h) \/ Notify(h) PROVE Registered' \subseteq Registered
  BY <1>3 DEF Exit, Notify, Registered, RegTypeOK
<1>4. ASSUME NEW i \in Id, Kill(i) \/ Attach(i) \/ Detach(i)
      PROVE  Registered' \subseteq Registered
  BY <1>4 DEF Kill, Attach, Detach, Registered, RegTypeOK
<1>5. CASE UNCHANGED regVars
  BY <1>5, <1>2 DEF regVars, Registered
<1> QED
  BY <1>1, <1>2, <1>3, <1>4, <1>5 DEF RegNext

(* Service.Create never lets the map grow past maxSessions.                *)
THEOREM RegCapCorrect == RegSpec => []CapRespected
<1>1. RegInit => CapRespected
  <2>1. RegInit => Registered = {}
    BY DEF RegInit, Registered
  <2> QED
    BY <2>1, FS_EmptySet, LimitAssumption DEF CapRespected
<1> QED
  BY <1>1, RegInitHolds, RegTypeStep, RegCapStep, PTL DEF RegSpec
=============================================================================
