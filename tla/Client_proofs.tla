----------------------------- MODULE Client_proofs --------------------------
(***************************************************************************)
(* pkg/client.                                                             *)
(*                                                                         *)
(* Starting and finding a daemon, for any number of daemons, starters,     *)
(* crashes and stops: as long as starts do not overlap, the daemon that    *)
(* serves can be reached and New fails only for a reason.                  *)
(*                                                                         *)
(* Calls on a connection, for any number of callers and calls: a call      *)
(* returns its own answer.  Nothing in a frame says whose it is, so the    *)
(* argument counts: each answer on its way has one caller or one drain     *)
(* that will take it.                                                      *)
(***************************************************************************)
EXTENDS ClientRpc, Lifecycle, FiniteSetTheorems, SequenceTheorems, TLAPS

Secret == Process \cup Starter

Ready == {"listen", "bind", "pid", "serve", "closing", "removed"}
InConnect == {"load", "dial", "auth"}

LifeTypeOK ==
    /\ tokenFile \in Secret \cup {Absent, Torn}
    /\ life \in [Process -> Over \cup {"ensure", "create", "save"} \cup Ready]
    /\ token \in [Process -> Secret \cup {Absent}]
    /\ new \in [Starter -> {"off", "ensure", "create", "save", "spawn", "poll", "connected",
                            "failed", "dead"} \cup InConnect]
    /\ tries \in [Starter -> {0, 1, 2}]
    /\ carries \in [Starter -> Secret \cup {Absent}]
    /\ peer \in [Starter -> Process \cup {Absent}]
    /\ excused \subseteq Starter
    /\ overlap \in BOOLEAN

(* Starts and daemons take turns.                                          *)
TakeTurns ==
    /\ \A d, e \in Running : d = e
    /\ \A s, t \in Starting : s = t
    /\ \A s \in Starter :
          /\ new[s] \in {"ensure", "create", "save", "spawn"} => Unready = {}
          /\ new[s] \in {"create", "save"} => Running = {}

(* The files of a daemon are its own from the step that makes them on.     *)
FilesAreOwn ==
    \A d \in Process :
        /\ life[d] \in Ready => tokenFile = token[d] /\ token[d] \in Secret
        /\ life[d] \in {"pid", "serve"} => socketFile = d
        /\ life[d] = "serve" => pidFile = d

(* The second connect of s is to a daemon that s has seen listening and    *)
(* that is still there, with the token it was found under.                 *)
SecondConnect(s) ==
    \E d \in Process :
        /\ life[d] \in {"pid", "serve"}
        /\ new[s] \in {"dial", "auth"} => carries[s] = token[d]
        /\ new[s] = "auth" => peer[s] = d

Attempts ==
    \A s \in Starter :
        /\ new[s] \in InConnect => tries[s] \in {1, 2}
        /\ s \in Starting => tries[s] = 1
        /\ new[s] \in InConnect /\ tries[s] = 2 /\ s \notin excused => SecondConnect(s)
        /\ new[s] = "failed" => s \in excused

LifeInv == LifeTypeOK /\ (overlap \/ (TakeTurns /\ FilesAreOwn /\ Attempts))

-----------------------------------------------------------------------------
(* Every step keeps the types.                                             *)
LEMMA LifeTypeStep == LifeTypeOK /\ [LifeNext]_lifeVars => LifeTypeOK'
<1> SUFFICES ASSUME LifeTypeOK, [LifeNext]_lifeVars PROVE LifeTypeOK'
  BY Zenon
<1> USE DEF LifeTypeOK, Secret, Ready, InConnect, Over, LifeTo, NewTo, fileVars, starterVars, eventVars
<1>1. ASSUME NEW d \in Process, DaemonEnsure(d) \/ DaemonCreate(d) \/ DaemonSave(d)
      PROVE  LifeTypeOK'
  BY <1>1 DEF DaemonEnsure, DaemonCreate, DaemonSave, Loadable
<1>2. ASSUME NEW d \in Process,
             \/ Listen(d) \/ Bind(d) \/ WritePIDFile(d) \/ RemoveSocket(d) \/ RemovePIDFile(d)
      PROVE  LifeTypeOK'
  BY <1>2 DEF Listen, Bind, WritePIDFile, RemoveSocket, RemovePIDFile
<1>3. ASSUME NEW d \in Process, CloseListener(d) \/ Crash(d)
      PROVE  LifeTypeOK'
  BY <1>3 DEF CloseListener, Crash, InNew
<1>4. CASE Launch
  BY Zenon, <1>4 DEF Launch, Spawn
<1>5. ASSUME NEW s \in Starter, BeginNew(s) PROVE LifeTypeOK'
  BY Zenon, <1>5 DEF BeginNew
<1>6. ASSUME NEW s \in Starter, ConnectLoad(s) \/ ConnectDial(s) \/ ConnectAuth(s)
      PROVE  LifeTypeOK'
  <2>1. UNCHANGED <<fileVars, life, token, tries, excused>>
    BY Zenon, <1>6 DEF ConnectLoad, ConnectDial, ConnectAuth
  <2>2. CASE Fail(s)
    BY Zenon, <2>1, <2>2 DEF Fail, Returned
  <2>3. CASE ~Fail(s)
    <3>1. UNCHANGED overlap
      BY Zenon, <1>6, <2>3 DEF ConnectLoad, ConnectDial, ConnectAuth
    <3>2. ConnectLoad(s) => carries' = [carries EXCEPT ![s] = tokenFile] /\ UNCHANGED peer /\ Loadable
      BY Zenon, <2>3 DEF ConnectLoad
    <3>3. ConnectDial(s) => /\ peer' = [peer EXCEPT ![s] = socketFile] /\ UNCHANGED carries
                            /\ socketFile \in Process
      BY Zenon, <2>3 DEF ConnectDial, Listening
    <3>4. ConnectAuth(s) => Returned(s)
      BY Zenon, <2>3 DEF ConnectAuth
    <3>5. \E where \in {"dial", "auth", "connected"} : NewTo(s, where)
      BY Zenon, <1>6, <2>3 DEF ConnectLoad, ConnectDial, ConnectAuth
    <3> QED
      BY SMTT(30), <1>6, <2>1, <3>1, <3>2, <3>3, <3>4, <3>5 DEF Returned, Loadable
  <2> QED
    BY Zenon, <2>2, <2>3
<1>7. ASSUME NEW s \in Starter,
             StartEnsure(s) \/ StartCreate(s) \/ StartSave(s) \/ StartDeadline(s) \/ StarterCrash(s)
      PROVE  LifeTypeOK'
  BY <1>7 DEF StartEnsure, StartCreate, StartSave, StartDeadline, StarterCrash
<1>8. ASSUME NEW s \in Starter, StartSpawn(s) \/ StartPoll(s)
      PROVE  LifeTypeOK'
  BY ZenonT(30), <1>8 DEF StartSpawn, Spawn, StartPoll
<1>9. CASE UNCHANGED lifeVars
  BY Zenon, <1>9 DEF lifeVars
<1> QED
  BY Zenon, <1>1, <1>2, <1>3, <1>4, <1>5, <1>6, <1>7, <1>8, <1>9 DEF LifeNext, StartNext,
     ServeStep, NewStep

(* An overlap is for ever.                                                 *)
LEMMA OverlapStays == overlap /\ [LifeNext]_lifeVars => overlap'
<1> USE DEF eventVars
<1>1. ASSUME overlap, NEW d \in Process,
             ServeStep(d) \/ CloseListener(d) \/ RemoveSocket(d) \/ RemovePIDFile(d) \/ Crash(d)
      PROVE  overlap'
  BY Zenon, <1>1 DEF ServeStep, DaemonEnsure, DaemonCreate, DaemonSave, Listen, Bind, WritePIDFile,
     CloseListener, RemoveSocket, RemovePIDFile, Crash
<1>2. ASSUME overlap, NEW s \in Starter, BeginNew(s) \/ NewStep(s) \/ StarterCrash(s)
      PROVE  overlap'
  BY Zenon, <1>2 DEF BeginNew, NewStep, ConnectLoad, ConnectDial, ConnectAuth, Fail, StartEnsure,
     StartCreate, StartSave, StartSpawn, StartPoll, StartDeadline, StarterCrash
<1> QED
  BY Zenon, <1>1, <1>2 DEF LifeNext, StartNext, Launch, lifeVars

(* What the invariant says until starts overlap.                           *)
Calm == LifeTypeOK /\ TakeTurns /\ FilesAreOwn /\ Attempts

(* The daemons, seen from the starters.                                    *)
LEMMA ServeStepCalm ==
    ASSUME Calm, LifeTypeOK', NEW d \in Process,
           DaemonEnsure(d) \/ DaemonCreate(d) \/ DaemonSave(d) \/ Listen(d) \/ Bind(d) \/ WritePIDFile(d)
    PROVE  Calm'
<1> USE DEF Calm, LifeTypeOK, Ready, InConnect, Over, LifeTo, NewTo, fileVars, starterVars, eventVars
<1>1. /\ d \in Running /\ UNCHANGED <<new, tries, carries, peer, excused>>
      /\ \A e \in Process \ {d} : life'[e] = life[e] /\ e \notin Running /\ token'[e] = token[e]
      /\ Running' \subseteq Running /\ Unready' \subseteq Unready
  BY DEF DaemonEnsure, DaemonCreate, DaemonSave, Listen, Bind, WritePIDFile, Running, Unready, TakeTurns
<1>2. TakeTurns'
  BY <1>1 DEF TakeTurns, Starting
<1>3. FilesAreOwn'
  <2>1. \A e \in Process \ {d} : life'[e] \in Over
    BY Zenon, <1>1 DEF Running
  <2>2. /\ life'[d] \in Ready => tokenFile' = token'[d] /\ token'[d] \in Secret
        /\ life'[d] \in {"pid", "serve"} => socketFile' = d
        /\ life'[d] = "serve" => pidFile' = d
    BY DEF DaemonEnsure, DaemonCreate, DaemonSave, Listen, Bind, WritePIDFile, FilesAreOwn, Secret,
       Loadable
  <2> QED
    BY Zenon, <2>1, <2>2 DEF FilesAreOwn
<1>4. Attempts'
  <2>1. \A e \in Process : life[e] \in {"pid", "serve"} => life'[e] \in {"pid", "serve"} /\ token'[e] = token[e]
    BY Zenon, <1>1 DEF DaemonEnsure, DaemonCreate, DaemonSave, Listen, Bind, WritePIDFile
  <2>2. \A s \in Starter : SecondConnect(s) => SecondConnect(s)'
    BY Zenon, <1>1, <2>1 DEF SecondConnect
  <2> QED
    BY Zenon, <1>1, <2>2 DEF Attempts, Starting
<1> QED
  BY Zenon, <1>2, <1>3, <1>4

(* A daemon on its way out disturbs nobody while starts take turns.        *)
LEMMA EndStepCalm ==
    ASSUME Calm, LifeTypeOK', NEW d \in Process,
           CloseListener(d) \/ RemoveSocket(d) \/ RemovePIDFile(d) \/ Crash(d)
    PROVE  Calm'
<1> USE DEF Calm, LifeTypeOK, Ready, InConnect, Over, LifeTo, NewTo, fileVars, starterVars, eventVars
<1>1. /\ d \in Running /\ UNCHANGED <<tokenFile, token, new, tries, carries, peer>>
      /\ \A e \in Process \ {d} : life'[e] = life[e] /\ e \notin Running
      /\ Running' \subseteq Running /\ Unready' \subseteq Unready
  BY DEF CloseListener, RemoveSocket, RemovePIDFile, Crash, Running, Unready, TakeTurns
<1>2. TakeTurns'
  BY <1>1 DEF TakeTurns, Starting
<1>3. FilesAreOwn'
  <2>1. \A e \in Process \ {d} : life'[e] \in Over
    BY Zenon, <1>1 DEF Running
  <2>2. /\ life'[d] \in Ready => tokenFile' = token'[d] /\ token'[d] \in Secret
        /\ life'[d] \notin {"pid", "serve"}
    BY DEF CloseListener, RemoveSocket, RemovePIDFile, Crash, FilesAreOwn
  <2> QED
    BY Zenon, <2>1, <2>2 DEF FilesAreOwn
<1>4. Attempts'
  <2>1. CASE CloseListener(d) \/ Crash(d)
    <3>1. excused' = excused \cup InNew
      BY Zenon, <2>1 DEF CloseListener, Crash
    <3>2. \A s \in Starter : new[s] \in InConnect => s \in InNew
      BY Zenon DEF InNew
    <3> QED
      BY Zenon, <1>1, <3>1, <3>2 DEF Attempts, Starting
  <2>2. CASE RemoveSocket(d) \/ RemovePIDFile(d)
    <3>1. excused' = excused /\ life[d] \notin {"pid", "serve"}
      BY Zenon, <2>2 DEF RemoveSocket, RemovePIDFile
    <3>2. \A s \in Starter : SecondConnect(s) => SecondConnect(s)'
      BY Zenon, <1>1, <3>1 DEF SecondConnect
    <3> QED
      BY Zenon, <1>1, <3>1, <3>2 DEF Attempts, Starting
  <2> QED
    BY Zenon, <2>1, <2>2
<1> QED
  BY Zenon, <1>2, <1>3, <1>4

(* A daemon begins when no other one and no start is under way.            *)
LEMMA SpawnCalm ==
    ASSUME Calm, LifeTypeOK', Spawn, Running = {}, UNCHANGED <<fileVars, token>>,
           \A s \in Starter : new'[s] \notin {"ensure", "create", "save", "spawn"},
           \A s, t \in Starting' : s = t
    PROVE  (TakeTurns /\ FilesAreOwn)'
<1> USE DEF Calm, LifeTypeOK, Ready, InConnect, Over, LifeTo, fileVars
<1>1. PICK d \in Process : life[d] = "unborn" /\ life' = [life EXCEPT ![d] = "ensure"]
  BY Zenon DEF Spawn
<1>2. \A e \in Process \ {d} : life'[e] \in Over
  BY Zenon, <1>1 DEF Running
<1>3. life'[d] = "ensure"
  BY Zenon, <1>1
<1>4. TakeTurns'
  BY Zenon, <1>2 DEF TakeTurns, Running
<1>5. FilesAreOwn'
  BY Zenon, <1>2, <1>3 DEF FilesAreOwn
<1> QED
  BY Zenon, <1>4, <1>5

(* A daemon launched by hand when nobody runs or starts.                   *)
LEMMA LaunchCalm ==
    ASSUME Calm, LifeTypeOK', Launch, ~overlap'
    PROVE  Calm'
<1> USE DEF Calm, LifeTypeOK, Ready, InConnect, Over, LifeTo, NewTo, starterVars
<1>1. Running = {} /\ Starting = {} /\ UNCHANGED <<fileVars, token, new, tries, carries, peer, excused>>
  BY Zenon DEF Launch
<1>2. Starting' = {} /\ \A s \in Starter : new'[s] \notin {"ensure", "create", "save", "spawn"}
  BY Zenon, <1>1 DEF Starting
<1>3. (TakeTurns /\ FilesAreOwn)'
  BY Zenon, <1>1, <1>2, SpawnCalm DEF Launch
<1>4. \A e \in Process : life[e] \notin {"pid", "serve"}
  BY Zenon, <1>1 DEF Running
<1>5. Attempts'
  BY Zenon, <1>1, <1>2, <1>4 DEF Attempts, SecondConnect
<1> QED
  BY Zenon, <1>3, <1>5

(* A starter spawns its daemon.                                            *)
LEMMA StartSpawnCalm ==
    ASSUME Calm, LifeTypeOK', NEW s \in Starter, StartSpawn(s), ~overlap'
    PROVE  Calm'
<1> USE DEF Calm, LifeTypeOK, Ready, InConnect, Over, LifeTo, NewTo
<1>1. /\ new[s] = "spawn" /\ new' = [new EXCEPT ![s] = "poll"]
      /\ Running = {} /\ UNCHANGED <<fileVars, token, tries, carries, peer, excused>>
  BY Zenon DEF StartSpawn
<1>2. s \in Starting /\ \A t \in Starter \ {s} : t \notin Starting /\ new'[t] = new[t]
  BY <1>1 DEF TakeTurns, Starting
<1>3. \A t \in Starter : new'[t] \notin {"ensure", "create", "save", "spawn"}
  BY <1>1, <1>2 DEF Starting
<1>4. \A t, u \in Starting' : t = u
  BY Zenon, <1>2 DEF Starting
<1>5. (TakeTurns /\ FilesAreOwn)'
  BY Zenon, <1>1, <1>3, <1>4, SpawnCalm DEF StartSpawn
<1>6. \A e \in Process : life[e] \notin {"pid", "serve"}
  BY Zenon, <1>1 DEF Running
<1>7. Attempts'
  BY SMTT(30), <1>1, <1>2, <1>6 DEF Attempts, SecondConnect, Starting
<1> QED
  BY Zenon, <1>5, <1>7

(* A step of a starter that changes no daemon and, but for its token, no   *)
(* file.                                                                   *)
LEMMA StarterFrame ==
    ASSUME Calm, NEW s \in Starter, UNCHANGED <<life, token, socketFile, pidFile>>,
           \A t \in Starter \ {s} :
              /\ new'[t] = new[t] /\ tries'[t] = tries[t]
              /\ carries'[t] = carries[t] /\ peer'[t] = peer[t]
              /\ t \in excused' <=> t \in excused
    PROVE  /\ Running' = Running /\ Unready' = Unready
           /\ UNCHANGED tokenFile \/ Running = {} => FilesAreOwn'
           /\ \A t \in Starter \ {s} :
                 /\ t \in Starting' <=> t \in Starting
                 /\ SecondConnect(t)' = SecondConnect(t)
<1> USE DEF Calm, LifeTypeOK
<1>1. Running' = Running /\ Unready' = Unready
  BY Zenon DEF Running, Unready
<1>2. UNCHANGED tokenFile => FilesAreOwn'
  BY Zenon DEF FilesAreOwn
<1>3. Running = {} => FilesAreOwn'
  BY Zenon DEF FilesAreOwn, Running, Ready, Over
<1>4. \A t \in Starter \ {s} : t \in Starting' <=> t \in Starting
  BY Zenon DEF Starting
<1>5. \A t \in Starter \ {s} : SecondConnect(t)' = SecondConnect(t)
  BY DEF SecondConnect
<1> QED
  BY Zenon, <1>1, <1>2, <1>3, <1>4, <1>5

(* startDaemon, but for the spawn, and the beginning of New.               *)
LEMMA StartStepCalm ==
    ASSUME Calm, LifeTypeOK', NEW s \in Starter,
           \/ BeginNew(s) \/ StartEnsure(s) \/ StartCreate(s) \/ StartSave(s)
           \/ StartPoll(s) \/ StartDeadline(s) \/ StarterCrash(s)
    PROVE  Calm'
<1> USE DEF Calm, LifeTypeOK, Ready, InConnect, LifeTo, NewTo, fileVars, eventVars
<1>1. /\ UNCHANGED <<life, token, socketFile, pidFile>>
      /\ \A t \in Starter \ {s} :
            /\ new'[t] = new[t] /\ tries'[t] = tries[t]
            /\ carries'[t] = carries[t] /\ peer'[t] = peer[t]
            /\ t \in excused' <=> t \in excused
  BY DEF BeginNew, StartEnsure, StartCreate, StartSave, StartPoll, StartDeadline, StarterCrash
<1>2. /\ Running' = Running /\ Unready' = Unready
      /\ UNCHANGED tokenFile \/ Running = {} => FilesAreOwn'
      /\ \A t \in Starter \ {s} :
            /\ t \in Starting' <=> t \in Starting
            /\ SecondConnect(t)' = SecondConnect(t)
  BY Zenon, <1>1, StarterFrame
<1>3. FilesAreOwn'
  <2>1. StartCreate(s) \/ StartSave(s) => Running = {}
    BY Zenon DEF StartCreate, StartSave, TakeTurns
  <2>2. StartCreate(s) \/ StartSave(s) \/ UNCHANGED tokenFile
    BY Zenon DEF BeginNew, StartEnsure, StartPoll, StartDeadline, StarterCrash
  <2> QED
    BY Zenon, <1>2, <2>1, <2>2
<1>4. TakeTurns'
  <2>1. s \in Starting' => s \in Starting
    BY DEF BeginNew, StartEnsure, StartCreate, StartSave, StartPoll, StartDeadline, StarterCrash, Starting
  <2>2. \A t, u \in Starting' : t = u
    BY Zenon, <1>2, <2>1 DEF TakeTurns, Starting
  <2>3. new'[s] \in {"ensure", "create", "save", "spawn"} => Unready = {}
    BY DEF BeginNew, StartEnsure, StartCreate, StartSave, StartPoll, StartDeadline, StarterCrash, TakeTurns
  <2>4. new'[s] \in {"create", "save"} => Running = {}
    <3>1. CASE StartEnsure(s) /\ ~Loadable
      <4>1. Unready = {} /\ \A d \in Process : life[d] \notin Ready
        BY <3>1, LifeAssumption DEF StartEnsure, TakeTurns, FilesAreOwn, Loadable, Secret
      <4> QED
        BY SMTT(30), <4>1 DEF Running, Unready, Over
    <3>2. CASE StartEnsure(s) /\ Loadable
      BY Zenon, <3>2 DEF StartEnsure
    <3>3. CASE ~StartEnsure(s)
      BY <3>3 DEF BeginNew, StartCreate, StartSave, StartPoll, StartDeadline, StarterCrash, TakeTurns
    <3> QED
      BY Zenon, <3>1, <3>2, <3>3
  <2> QED
    BY Zenon, <1>1, <1>2, <2>2, <2>3, <2>4 DEF TakeTurns
<1>5. Attempts'
  <2>1. CASE StartPoll(s)
    <3>1. PICK d \in Process : life[d] \in {"pid", "serve"}
      BY Zenon, <2>1 DEF StartPoll, Listening
    <3>2. new'[s] = "load" /\ tries'[s] = 2
      BY Zenon, <2>1 DEF StartPoll
    <3>3. SecondConnect(s)'
      BY Zenon, <1>1, <3>1, <3>2 DEF SecondConnect
    <3>4. s \notin Starting'
      BY Zenon, <3>2 DEF Starting
    <3> QED
      BY <1>1, <1>2, <3>2, <3>3, <3>4 DEF Attempts
  <2>2. CASE BeginNew(s)
    <3>1. new'[s] = "load" /\ tries'[s] = 1
      BY Zenon, <2>2 DEF BeginNew
    <3> QED
      BY <1>1, <1>2, <3>1 DEF Attempts, Starting
  <2>3. CASE ~StartPoll(s) /\ ~BeginNew(s)
    <3>1. /\ new'[s] \notin InConnect /\ tries'[s] = tries[s] /\ s \in Starting
          /\ new'[s] = "failed" => s \in excused'
      BY <2>3 DEF StartEnsure, StartCreate, StartSave, StartDeadline, StarterCrash, Starting
    <3> QED
      BY SMTT(30), <1>1, <1>2, <3>1 DEF Attempts
  <2> QED
    BY Zenon, <2>1, <2>2, <2>3
<1> QED
  BY Zenon, <1>3, <1>4, <1>5

(* connect, the first or the second time.                                  *)
LEMMA ConnectCalm ==
    ASSUME Calm, LifeTypeOK', NEW s \in Starter, ~overlap',
           ConnectLoad(s) \/ ConnectDial(s) \/ ConnectAuth(s)
    PROVE  Calm'
<1> USE DEF Calm, LifeTypeOK, Ready, InConnect, LifeTo, NewTo, fileVars
<1>1. /\ UNCHANGED <<life, token, tokenFile, socketFile, pidFile, tries, excused>>
      /\ \A t \in Starter \ {s} :
            /\ new'[t] = new[t] /\ tries'[t] = tries[t]
            /\ carries'[t] = carries[t] /\ peer'[t] = peer[t]
            /\ t \in excused' <=> t \in excused
  BY DEF ConnectLoad, ConnectDial, ConnectAuth, Fail, Returned
<1>2. /\ Running' = Running /\ Unready' = Unready /\ FilesAreOwn'
      /\ \A t \in Starter \ {s} :
            /\ t \in Starting' <=> t \in Starting
            /\ SecondConnect(t)' = SecondConnect(t)
  BY Zenon, <1>1, StarterFrame
<1>3. new[s] \in InConnect /\ s \notin Starting /\ tries[s] \in {1, 2}
  BY Zenon DEF ConnectLoad, ConnectDial, ConnectAuth, Starting, Attempts
<1>4. CASE Fail(s) /\ tries[s] = 1
  <2>1. Starting = {} /\ Unready = {} /\ new'[s] = "ensure"
    BY Zenon, <1>4 DEF Fail
  <2>2. TakeTurns'
    BY SMTT(30), <1>1, <1>2, <2>1 DEF TakeTurns, Starting
  <2>3. Attempts'
    BY Zenon, <1>1, <1>2, <1>4, <2>1 DEF Attempts, Starting
  <2> QED
    BY Zenon, <1>2, <2>2, <2>3
<1>5. CASE Fail(s) /\ tries[s] = 2
  <2>1. new'[s] = "failed"
    BY SMTT(30), <1>5 DEF Fail
  <2>2. TakeTurns'
    BY SMTT(30), <1>1, <1>2, <2>1 DEF TakeTurns, Starting
  <2>3. s \in excused
    <3> SUFFICES ASSUME s \notin excused PROVE FALSE
      BY Zenon
    <3>1. PICK d \in Process :
             /\ life[d] \in {"pid", "serve"}
             /\ new[s] \in {"dial", "auth"} => carries[s] = token[d]
             /\ new[s] = "auth" => peer[s] = d
      BY Zenon, <1>3, <1>5 DEF Attempts, SecondConnect
    <3>2. tokenFile = token[d] /\ token[d] \in Secret /\ socketFile = d
      BY Zenon, <3>1 DEF FilesAreOwn
    <3>3. Loadable /\ Listening(socketFile)
      BY Zenon, <3>1, <3>2, LifeAssumption DEF Loadable, Listening, Secret
    <3>4. new'[s] # "dial" /\ new'[s] # "auth" /\ new'[s] # "connected"
      BY Zenon, <2>1
    <3> QED
      BY SMTT(30), <3>1, <3>3, <3>4 DEF ConnectLoad, ConnectDial, ConnectAuth
  <2>4. Attempts'
    BY SMTT(30), <1>1, <1>2, <2>1, <2>3 DEF Attempts, Starting
  <2> QED
    BY Zenon, <1>2, <2>2, <2>4
<1>6. CASE ~Fail(s)
  <2>1. new'[s] \in {"dial", "auth", "connected"} /\ s \notin Starting'
    BY SMTT(30), <1>6 DEF ConnectLoad, ConnectDial, ConnectAuth, Starting
  <2>2. TakeTurns'
    BY SMTT(30), <1>1, <1>2, <2>1 DEF TakeTurns, Starting
  <2>3. ASSUME new'[s] \in InConnect, tries[s] = 2, s \notin excused
        PROVE  SecondConnect(s)'
    <3>1. PICK d \in Process :
             /\ life[d] \in {"pid", "serve"}
             /\ new[s] \in {"dial", "auth"} => carries[s] = token[d]
      BY <1>3, <2>3 DEF Attempts, SecondConnect
    <3>2. tokenFile = token[d] /\ socketFile = d
      BY Zenon, <3>1 DEF FilesAreOwn
    <3>3. /\ carries'[s] = token[d]
          /\ new'[s] = "auth" => peer'[s] = d
      BY SMTT(30), <1>6, <2>3, <3>1, <3>2 DEF ConnectLoad, ConnectDial, ConnectAuth
    <3> QED
      BY Zenon, <1>1, <3>1, <3>3 DEF SecondConnect
  <2>4. Attempts'
    BY SMTT(30), <1>1, <1>2, <1>3, <2>1, <2>3 DEF Attempts
  <2> QED
    BY Zenon, <1>2, <2>2, <2>4
<1> QED
  BY Zenon, <1>3, <1>4, <1>5, <1>6

-----------------------------------------------------------------------------
(* The invariant holds at first, with no daemon and no starter.            *)
LEMMA LifeInitHolds == LifeInit => LifeInv
<1> SUFFICES ASSUME LifeInit PROVE LifeInv
  BY Zenon
<1>1. LifeTypeOK
  BY Zenon DEF LifeInit, LifeTypeOK, Over
<1>2. Running = {} /\ Starting = {}
  BY Zenon DEF LifeInit, Running, Over, Starting
<1> QED
  BY Zenon, <1>1, <1>2 DEF LifeInit, LifeInv, TakeTurns, FilesAreOwn, Attempts, Ready, InConnect

(* Every step keeps it.                                                    *)
LEMMA LifeNextHolds == LifeInv /\ [LifeNext]_lifeVars => LifeInv'
<1> SUFFICES ASSUME LifeInv, [LifeNext]_lifeVars PROVE LifeInv'
  BY Zenon
<1>1. LifeTypeOK'
  BY Zenon, LifeTypeStep DEF LifeInv
<1>2. CASE overlap'
  BY Zenon, <1>1, <1>2 DEF LifeInv
<1>3. CASE ~overlap'
  <2>1. Calm
    BY Zenon, <1>3, OverlapStays DEF LifeInv, Calm
  <2>2. CASE UNCHANGED lifeVars
    BY SMTT(30), <2>1, <2>2 DEF Calm, lifeVars, LifeInv, LifeTypeOK, TakeTurns, FilesAreOwn, Attempts,
       SecondConnect, Running, Starting, Unready
  <2>3. ASSUME NEW d \in Process,
               ServeStep(d) \/ CloseListener(d) \/ RemoveSocket(d) \/ RemovePIDFile(d) \/ Crash(d)
        PROVE  Calm'
    BY Zenon, <1>1, <2>1, <2>3, ServeStepCalm, EndStepCalm DEF ServeStep
  <2>4. ASSUME NEW s \in Starter, BeginNew(s) \/ NewStep(s) \/ StarterCrash(s)
        PROVE  Calm'
    BY Zenon, <1>1, <1>3, <2>1, <2>4, StartStepCalm, StartSpawnCalm, ConnectCalm DEF NewStep
  <2>5. ASSUME Launch PROVE Calm'
    BY Zenon, <1>1, <1>3, <2>1, <2>5, LaunchCalm
  <2>6. CASE Calm'
    BY Zenon, <2>6 DEF Calm, LifeInv
  <2> QED
    BY Zenon, <2>2, <2>3, <2>4, <2>5, <2>6 DEF LifeNext, StartNext
<1> QED
  BY Zenon, <1>2, <1>3

(* Whatever crashed or stopped before it and wherever, the daemon that     *)
(* serves is found through its socket file, accepts the token of the token *)
(* file and is named by the PID file, as long as starts did not overlap.   *)
THEOREM ReachableCorrect == LifeSpec => []ServingIsReachable
<1>1. LifeInv => ServingIsReachable
  BY Zenon DEF LifeInv, FilesAreOwn, ServingIsReachable, Ready
<1> QED
  BY <1>1, LifeInitHolds, LifeNextHolds, PTL DEF LifeSpec

(* client.New gives up only when its poll ran out, a daemon went down      *)
(* under it, or starts overlapped: what crashes left behind is got over.   *)
THEOREM NewCorrect == LifeSpec => []NewFailsForReason
<1>1. LifeInv => NewFailsForReason
  BY Zenon DEF LifeInv, Attempts, NewFailsForReason
<1> QED
  BY <1>1, LifeInitHolds, LifeNextHolds, PTL DEF LifeSpec

-----------------------------------------------------------------------------
(* Calls on a connection.                                                  *)

Request == [kind: {"rpc", "wait", "history"}, of: Nat]
Answer == [kind: {"reply", "chunk", "end"}, of: Nat]
NoAnswer == [kind: {"none", "ended"}, of: {0}]

RpcTypeOK ==
    /\ calls \in Nat /\ drains \in Nat
    /\ at \in [Caller -> {"idle", "wait", "parked", "woken", "lock", "write", "select",
                          "pick", "stream"}]
    /\ call \in [Caller -> Nat] /\ got \in [Caller -> Nat]
    /\ asks \in [Caller -> {"rpc", "wait", "history"}]
    /\ toDaemon \in Seq(Request) /\ waits \subseteq Nat /\ IsFiniteSet(waits)
    /\ toClient \in Seq(Answer) /\ responses \in Seq(Answer) /\ history \in Seq(Answer)
    /\ reader \in Answer \cup NoAnswer
    /\ done \in BOOLEAN /\ linkUp \in BOOLEAN
    /\ mixed \in BOOLEAN /\ overtaken \in BOOLEAN /\ leftOver \in BOOLEAN

(* The steps of a call, and what they say about its state.                 *)
CallInStep ==
    /\ \A c \in Caller :
          /\ at[c] \in {"write", "select"} => rpcMu = c
          /\ at[c] \in {"wait", "parked", "woken", "select"} => asks[c] # "history"
          /\ at[c] \in {"pick", "stream"} => asks[c] = "history"
          /\ at[c] \notin {"idle", "stream"} => got[c] = 0
    /\ done \/ ReaderEnded => ~linkUp

(* A call that is past drainWg.Wait sees no drain, unless it was overtaken. *)
NoneToDrain ==
    ~overtaken => \A c \in Caller :
        LetThrough(c) \/ (at[c] = "write" /\ asks[c] # "history") => drains = 0

Orderly == ~mixed /\ ~leftOver
Streaming(c) == at[c] \in {"pick", "stream"}

(* The answers that will still come.                                       *)
InFlight ==
    Len(toDaemon) + Cardinality(waits) + Len(toClient)
        + (IF reader \in Answer THEN 1 ELSE 0) + Len(responses)

Selecting == IF \E c \in Caller : at[c] = "select" THEN 1 ELSE 0

(* While no History is outstanding, each answer that will come has a       *)
(* caller or a drain to take it.                                           *)
EachIsTaken ==
    linkUp /\ Orderly /\ (\A c \in Caller : ~Streaming(c)) =>
        /\ history = <<>>
        /\ \A i \in 1..Len(toDaemon) : toDaemon[i].kind # "history"
        /\ \A i \in 1..Len(toClient) : toClient[i].kind = "reply"
        /\ reader.kind \notin {"chunk", "end"}
        /\ InFlight <= drains + Selecting

(* The way of a History's answer through the connection.                   *)
Idle == [kind |-> "none", of |-> 0]
HistoryFlow(n) ==
    LET re == [kind |-> "reply", of |-> n]
        ch == [kind |-> "chunk", of |-> n]
        en == [kind |-> "end", of |-> n] IN
    \/ /\ toDaemon = <<[kind |-> "history", of |-> n]>>
       /\ toClient = <<>> /\ reader = Idle /\ responses = <<>> /\ history = <<>>
    \/ /\ toDaemon = <<>>
       /\ \/ /\ toClient \in {<<re>>, <<en>>, <<ch, en>>}
             /\ reader = Idle /\ responses = <<>> /\ history = <<>>
          \/ /\ toClient = <<>> /\ reader \in {re, en} /\ responses = <<>> /\ history = <<>>
          \/ toClient = <<>> /\ reader = Idle /\ responses = <<re>> /\ history = <<>>
          \/ /\ toClient = <<>> /\ reader = Idle /\ responses = <<>>
             /\ history \in {<<en>>, <<ch, en>>}
          \/ toClient = <<en>> /\ reader = ch /\ responses = <<>> /\ history = <<>>
          \/ toClient = <<en>> /\ reader = Idle /\ responses = <<>> /\ history = <<ch>>
          \/ toClient = <<>> /\ reader = en /\ responses = <<>> /\ history = <<ch>>

(* A History that is outstanding alone has the connection for itself.      *)
HistoryIsAlone ==
    linkUp /\ Orderly => \A c \in Caller : Streaming(c) =>
        /\ drains = 0 /\ waits = {} /\ HistoryFlow(call[c])
        /\ \A o \in Caller \ {c} : ~AwaitsReply(o)

(* Everything on its way belongs to call n.                                *)
AllOf(n) ==
    /\ \A i \in 1..Len(toDaemon) : toDaemon[i].of = n
    /\ waits \subseteq {n}
    /\ \A i \in 1..Len(toClient) : toClient[i].of = n
    /\ reader \in Answer => reader.of = n
    /\ \A i \in 1..Len(responses) : responses[i].of = n
    /\ \A i \in 1..Len(history) : history[i].of = n

OnlyOwn ==
    Orderly => \A c \in Caller :
        Streaming(c) \/ (at[c] = "select" /\ ~overtaken) => AllOf(call[c])

RpcInv ==
    /\ RpcTypeOK /\ CallInStep /\ NoneToDrain /\ EachIsTaken /\ HistoryIsAlone /\ OnlyOwn
    /\ AnswerIsOwn

(* Before the first call nothing is on its way.                            *)
LEMMA RpcInitHolds == RpcInit => RpcInv
  <1> SUFFICES ASSUME RpcInit PROVE RpcInv
    BY Zenon
  <1>1. IsFiniteSet({}) /\ Cardinality({}) = 0
    BY Zenon, FS_EmptySet
  <1>2. reader \notin Answer
    BY Zenon DEF RpcInit, Answer
  <1>3. RpcTypeOK
    <2>1. reader \in NoAnswer
      BY Zenon DEF RpcInit, NoAnswer
    <2>2. /\ toDaemon \in Seq(Request) /\ toClient \in Seq(Answer)
          /\ responses \in Seq(Answer) /\ history \in Seq(Answer)
      BY Zenon, EmptySeq DEF RpcInit
    <2> QED
      BY <1>1, <2>1, <2>2, Zenon DEF RpcInit, RpcTypeOK
  <1>4. CallInStep /\ NoneToDrain /\ AnswerIsOwn
    BY Zenon DEF RpcInit, CallInStep, NoneToDrain, AnswerIsOwn, ReaderEnded, LetThrough
  <1>5. EachIsTaken
    BY <1>1, <1>2 DEF RpcInit, EachIsTaken, InFlight, Selecting
  <1>6. HistoryIsAlone /\ OnlyOwn
    BY Zenon DEF RpcInit, HistoryIsAlone, OnlyOwn, Streaming
  <1> QED
    BY Zenon, <1>3, <1>4, <1>5, <1>6 DEF RpcInv

(* The head and the tail of a queue are in its type.                       *)
LEMMA QueueTypes ==
    ASSUME NEW S, NEW q \in Seq(S), q # <<>>
    PROVE  /\ Head(q) \in S /\ Tail(q) \in Seq(S) /\ Head(q) = q[1]
           /\ Len(q) \in Nat /\ Len(q) > 0 /\ Len(Tail(q)) = Len(q) - 1
           /\ \A i \in 1..Len(Tail(q)) : Tail(q)[i] = q[i + 1] /\ i + 1 \in 1..Len(q)
  OBVIOUS

(* The same for a queue of answers.                                        *)
LEMMA AnswerTypes ==
    ASSUME NEW q \in Seq(Answer), q # <<>>
    PROVE  Head(q) \in Answer /\ Head(q).of \in Nat /\ Tail(q) \in Seq(Answer)
  <1>1. Head(q) \in Answer /\ Tail(q) \in Seq(Answer)
    BY Zenon, QueueTypes
  <1> QED
    BY Zenon, <1>1 DEF Answer

(* Every step keeps the types.                                             *)
LEMMA RpcTypeStep ==
    ASSUME RpcTypeOK, RpcNext
    PROVE  RpcTypeOK'
  <1> USE DEF RpcTypeOK, CallAt, wireVars, chanVars, pastVars
  <1>1. ASSUME NEW c \in Caller, NEW kind \in {"rpc", "wait", "history"}, Begin(c, kind)
        PROVE  RpcTypeOK'
    BY <1>1 DEF Begin
  <1>2. ASSUME NEW c \in Caller, DrainWait(c) \/ DrainWoken(c) PROVE RpcTypeOK'
    BY <1>2, Zenon DEF DrainWait, DrainWoken
  <1>3. ASSUME NEW c \in Caller, LockRpc(c) \/ CloseHistory(c) PROVE RpcTypeOK'
    BY <1>3, Zenon DEF LockRpc, CloseHistory
  <1>4. ASSUME NEW c \in Caller, WriteRequest(c) PROVE RpcTypeOK'
    <2>1. [kind |-> asks[c], of |-> call[c]] \in Request
      BY Zenon DEF Request
    <2>2. Append(toDaemon, [kind |-> asks[c], of |-> call[c]]) \in Seq(Request)
      BY Zenon, <2>1, AppendProperties
    <2>3. toDaemon' \in Seq(Request)
      BY <1>4, <2>2, Zenon DEF WriteRequest
    <2>4. mixed' \in BOOLEAN
      BY <1>4, Zenon DEF WriteRequest
    <2>5. at' \in [Caller -> {"idle", "wait", "parked", "woken", "lock", "write", "select",
                              "pick", "stream"}]
      BY <1>4, Zenon DEF WriteRequest
    <2> QED
      BY Zenon, <1>4, <2>3, <2>5, <2>4 DEF WriteRequest
  <1>5. ASSUME NEW c \in Caller, ReceiveReply(c) PROVE RpcTypeOK'
    <2>1. CASE responses # <<>>
      <3>1. Head(responses).of \in Nat /\ Tail(responses) \in Seq(Answer)
        BY Zenon, <2>1, AnswerTypes
      <3> QED
        BY <1>5, <2>1, <3>1, Zenon DEF ReceiveReply
    <2>2. CASE responses = <<>>
      BY Zenon, <1>5, <2>2 DEF ReceiveReply
    <2> QED
      BY Zenon, <2>1, <2>2
  <1>6. ASSUME NEW c \in Caller, RequestTimeout(c) PROVE RpcTypeOK'
    BY <1>6 DEF RequestTimeout
  <1>7. ASSUME NEW c \in Caller, PickHistory(c) \/ ReadHistory(c) PROVE RpcTypeOK'
    <2>1. responses # <<>> => Head(responses).of \in Nat /\ Tail(responses) \in Seq(Answer)
      BY Zenon, AnswerTypes
    <2>2. history # <<>> => Head(history).of \in Nat /\ Tail(history) \in Seq(Answer)
      BY Zenon, AnswerTypes
    <2>3. CASE PickHistory(c)
      <3>1. got' \in [Caller -> Nat] /\ responses' \in Seq(Answer) /\ history' \in Seq(Answer)
        BY <2>1, <2>2, <2>3, Zenon DEF PickHistory
      <3>2. at' \in [Caller -> {"idle", "wait", "parked", "woken", "lock", "write", "select",
                                "pick", "stream"}]
        BY <2>3, Zenon DEF PickHistory
      <3> QED
        BY Zenon, <2>3, <3>1, <3>2 DEF PickHistory
    <2>4. CASE ReadHistory(c)
      <3>1. got' \in [Caller -> Nat] /\ history' \in Seq(Answer)
        BY <2>1, <2>2, <2>4, Zenon DEF ReadHistory
      <3>2. at' \in [Caller -> {"idle", "wait", "parked", "woken", "lock", "write", "select",
                                "pick", "stream"}]
        BY <2>4, Zenon DEF ReadHistory
      <3> QED
        BY Zenon, <2>4, <3>1, <3>2 DEF ReadHistory
    <2> QED
      BY Zenon, <1>7, <2>3, <2>4
  <1>8. ASSUME ReadControl \/ Demux PROVE RpcTypeOK'
    <2>1. CASE ReadControl
      <3>1. toClient # <<>> => Head(toClient) \in Answer /\ Tail(toClient) \in Seq(Answer)
        BY Zenon, QueueTypes
      <3>2. [kind |-> "ended", of |-> 0] \in NoAnswer
        BY Zenon DEF NoAnswer
      <3>3. toClient' \in Seq(Answer) /\ reader' \in Answer \cup NoAnswer
        BY <2>1, <3>1, <3>2, Zenon DEF ReadControl
      <3> QED
        BY Zenon, <2>1, <3>3 DEF ReadControl
    <2>2. CASE Demux
      <3>1. reader \in Answer
        BY Zenon, <2>2 DEF Demux, NoAnswer
      <3>2. [kind |-> "none", of |-> 0] \in NoAnswer
        BY Zenon DEF NoAnswer
      <3>3. Append(responses, reader) \in Seq(Answer) /\ Append(history, reader) \in Seq(Answer)
        BY Zenon, <3>1, AppendProperties
      <3>4. responses' \in Seq(Answer) /\ history' \in Seq(Answer)
        BY <2>2, <3>3, Zenon DEF Demux
      <3> QED
        BY Zenon, <2>2, <3>2, <3>4 DEF Demux
    <2> QED
      BY Zenon, <1>8, <2>1, <2>2
  <1>9. CASE DrainOne
    <2>1. responses # <<>> => Tail(responses) \in Seq(Answer)
      BY Zenon, AnswerTypes
    <2>2. responses' \in Seq(Answer)
      BY <1>9, <2>1, Zenon DEF DrainOne
    <2>3. drains' \in Nat
      BY <1>9 DEF DrainOne
    <2>4. at' \in [Caller -> {"idle", "wait", "parked", "woken", "lock", "write", "select",
                              "pick", "stream"}]
      BY Zenon, <1>9 DEF DrainOne
    <2> QED
      BY Zenon, <1>9, <2>2, <2>4, <2>3 DEF DrainOne
  <1>10. CASE CloseClient \/ LoseLink
    BY <1>10, Zenon DEF CloseClient, LoseLink
  <1>11. CASE dispatch
    <2> DEFINE f == Head(toDaemon)
    <2>1. f \in Request /\ Tail(toDaemon) \in Seq(Request)
      BY Zenon, <1>11, QueueTypes DEF dispatch
    <2>2. f.of \in Nat
      BY Zenon, <2>1 DEF Request
    <2>3. \A kind \in {"reply", "chunk", "end"} : [kind |-> kind, of |-> f.of] \in Answer
      BY Zenon, <2>2 DEF Answer
    <2>4. toDaemon' = Tail(toDaemon)
      BY Zenon, <1>11 DEF dispatch
    <2>5. /\ \/ toClient' = Append(toClient, [kind |-> "reply", of |-> f.of])
             \/ toClient' = toClient
             \/ \E answer \in {<<[kind |-> "reply", of |-> f.of]>>,
                               <<[kind |-> "end", of |-> f.of]>>,
                               <<[kind |-> "chunk", of |-> f.of], [kind |-> "end", of |-> f.of]>>} :
                   toClient' = toClient \o answer
          /\ waits' \in {waits, waits \cup {f.of}}
      BY <1>11, Zenon DEF dispatch
    <2> HIDE DEF f
    <2> DEFINE re == [kind |-> "reply", of |-> f.of]
               ch == [kind |-> "chunk", of |-> f.of]
               en == [kind |-> "end", of |-> f.of]
    <2>6. re \in Answer /\ ch \in Answer /\ en \in Answer
      BY Zenon, <2>3
    <2>7. \/ toClient' = Append(toClient, re) \/ toClient' = toClient
          \/ toClient' \in {toClient \o <<re>>, toClient \o <<en>>, toClient \o <<ch, en>>}
      BY <2>5, Zenon
    <2> HIDE DEF re, ch, en
    <2>8. /\ Append(toClient, re) \in Seq(Answer) /\ toClient \o <<re>> \in Seq(Answer)
           /\ toClient \o <<en>> \in Seq(Answer) /\ toClient \o <<ch, en>> \in Seq(Answer)
      BY <2>6, AppendProperties, ConcatProperties
    <2>9. toClient' \in Seq(Answer)
      BY <2>7, <2>8, Zenon
    <2>10. waits' \subseteq Nat /\ IsFiniteSet(waits')
      <3>1. IsFiniteSet(waits \cup {f.of})
        BY FS_AddElement, Zenon
      <3> QED
        BY <2>2, <2>5, <3>1, Zenon
    <2> QED
      BY Zenon, <1>11, <2>1, <2>4, <2>9, <2>10 DEF dispatch
  <1>12. ASSUME NEW n \in 1..MaxCalls, answerWait(n) PROVE RpcTypeOK'
    <2>1. [kind |-> "reply", of |-> n] \in Answer
      BY Zenon, <1>12 DEF answerWait, Answer
    <2>2. IsFiniteSet(waits') /\ waits' \subseteq Nat
      BY Zenon, <1>12, FS_RemoveElement DEF answerWait
    <2> QED
      BY SMTT(30), <1>12, <2>1, <2>2 DEF answerWait
  <1> HIDE DEF RpcTypeOK
  <1> QED
    BY Zenon, <1>1, <1>2, <1>3, <1>4, <1>5, <1>6, <1>7, <1>8, <1>9, <1>10, <1>11, <1>12
       DEF RpcNext, Proceed, ReaderStep

(* Every step keeps what the place of a call says about it.                *)
LEMMA CallInStepStep ==
    ASSUME RpcTypeOK, CallInStep, RpcNext
    PROVE  CallInStep'
  <1> USE DEF RpcTypeOK, CallInStep, CallAt, ReaderEnded, wireVars, chanVars, pastVars
  <1>1. NoCaller \notin Caller
    BY Zenon, RpcAssumption
  <1>2. ASSUME NEW c \in Caller, NEW kind \in {"rpc", "wait", "history"}, Begin(c, kind)
        PROVE  CallInStep'
    BY Zenon, <1>2 DEF Begin
  <1>3. ASSUME NEW c \in Caller, DrainWait(c) PROVE CallInStep'
    BY Zenon, <1>3 DEF DrainWait
  <1>4. ASSUME NEW c \in Caller, DrainWoken(c) PROVE CallInStep'
    BY Zenon, <1>4 DEF DrainWoken
  <1>5. ASSUME NEW c \in Caller, LockRpc(c) PROVE CallInStep'
    BY Zenon, <1>1, <1>5 DEF LockRpc
  <1>6. ASSUME NEW c \in Caller, CloseHistory(c) PROVE CallInStep'
    BY Zenon, <1>6 DEF CloseHistory
  <1>7. ASSUME NEW c \in Caller, WriteRequest(c) PROVE CallInStep'
    <2>1. UNCHANGED <<asks, got, done, linkUp, reader>> /\ at[c] = "write"
      BY Zenon, <1>7 DEF WriteRequest
    <2>2. \/ asks[c] = "history" /\ at' = [at EXCEPT ![c] = "pick"]
          \/ asks[c] # "history" /\ at' = [at EXCEPT ![c] = "select"] /\ rpcMu' = c
          \/ at' = [at EXCEPT ![c] = "idle"]
      BY Zenon, <1>7 DEF WriteRequest
    <2> QED
      BY SMTT(30), <2>1, <2>2
  <1>8. ASSUME NEW c \in Caller, ReceiveReply(c) PROVE CallInStep'
    <2>1. /\ UNCHANGED <<asks, done, linkUp, reader>> /\ at[c] = "select"
          /\ at' = [at EXCEPT ![c] = "idle"]
          /\ \A o \in Caller \ {c} : got'[o] = got[o]
      BY Zenon, <1>8 DEF ReceiveReply
    <2> QED
      BY Zenon, <2>1
  <1>9. ASSUME NEW c \in Caller, RequestTimeout(c) PROVE CallInStep'
    BY Zenon, <1>9 DEF RequestTimeout
  <1>10. ASSUME NEW c \in Caller, PickHistory(c) \/ ReadHistory(c) PROVE CallInStep'
    <2>1. /\ UNCHANGED <<asks, done, linkUp, reader, rpcMu>> /\ at[c] \in {"pick", "stream"}
          /\ \A o \in Caller \ {c} : got'[o] = got[o]
      BY Zenon, <1>10 DEF PickHistory, ReadHistory
    <2>2. PICK s \in {"idle", "stream"} : at' = [at EXCEPT ![c] = s]
      BY Zenon, <1>10 DEF PickHistory, ReadHistory
    <2> QED
      BY Zenon, <2>1, <2>2
  <1>11. CASE ReadControl
    <2>1. toClient # <<>> => Head(toClient) \in Answer
      BY Zenon, AnswerTypes
    <2>2. toClient # <<>> => Head(toClient).kind # "ended"
      BY Zenon, <2>1 DEF Answer
    <2> QED
      BY Zenon, <1>11, <2>2 DEF ReadControl
  <1>12. CASE Demux
    BY Zenon, <1>12 DEF Demux
  <1>13. CASE DrainOne
    <2>1. /\ UNCHANGED <<asks, got, done, linkUp, reader, rpcMu>>
          /\ \A c \in Caller : at'[c] = at[c] \/ (at[c] = "parked" /\ at'[c] = "woken")
      BY Zenon, <1>13 DEF DrainOne
    <2> QED
      BY <2>1
  <1>14. CASE CloseClient \/ LoseLink
    BY Zenon, <1>14 DEF CloseClient, LoseLink
  <1>15. CASE dispatch
    BY Zenon, <1>15 DEF dispatch
  <1>16. ASSUME NEW n \in 1..MaxCalls, answerWait(n) PROVE CallInStep'
    BY Zenon, <1>16 DEF answerWait
  <1> HIDE DEF CallInStep
  <1> QED
    BY Zenon, <1>2, <1>3, <1>4, <1>5, <1>6, <1>7, <1>8, <1>9, <1>10, <1>11, <1>12, <1>13, <1>14,
       <1>15, <1>16 DEF RpcNext, Proceed, ReaderStep

(* Drains start only where a call times out.                               *)
LEMMA NoneToDrainStep ==
    ASSUME RpcTypeOK, CallInStep, NoneToDrain, RpcNext
    PROVE  NoneToDrain'
  <1> USE DEF RpcTypeOK, NoneToDrain, LetThrough, CallAt, wireVars, chanVars, pastVars
  <1>1. ASSUME NEW c \in Caller, NEW kind \in {"rpc", "wait", "history"}, Begin(c, kind)
        PROVE  NoneToDrain'
    BY Zenon, <1>1 DEF Begin
  <1>2. ASSUME NEW c \in Caller, DrainWait(c) PROVE NoneToDrain'
    BY Zenon, <1>2 DEF DrainWait
  <1>3. ASSUME NEW c \in Caller, DrainWoken(c) PROVE NoneToDrain'
    BY Zenon, <1>3 DEF DrainWoken
  <1>4. ASSUME NEW c \in Caller, LockRpc(c) PROVE NoneToDrain'
    BY Zenon, <1>4 DEF LockRpc
  <1>5. ASSUME NEW c \in Caller, CloseHistory(c) PROVE NoneToDrain'
    BY Zenon, <1>5 DEF CloseHistory
  <1>6. ASSUME NEW c \in Caller, WriteRequest(c) PROVE NoneToDrain'
    <2>1. UNCHANGED <<asks, drains, overtaken>>
      BY Zenon, <1>6 DEF WriteRequest
    <2>2. PICK s \in {"pick", "select", "idle"} : at' = [at EXCEPT ![c] = s]
      BY Zenon, <1>6 DEF WriteRequest
    <2> QED
      BY Zenon, <2>1, <2>2
  <1>7. ASSUME NEW c \in Caller, ReceiveReply(c) PROVE NoneToDrain'
    BY Zenon, <1>7 DEF ReceiveReply
  <1>8. ASSUME NEW c \in Caller, RequestTimeout(c) PROVE NoneToDrain'
    <2>1. \A o \in Caller : at[o] # "write"
      BY Zenon, <1>8 DEF RequestTimeout, CallInStep
    <2>2. ~overtaken' => \A o \in Caller \ {c} : ~LetThrough(o)
      BY <1>8, Zenon DEF RequestTimeout
    <2>3. UNCHANGED asks /\ at' = [at EXCEPT ![c] = "idle"]
      BY Zenon, <1>8 DEF RequestTimeout
    <2> QED
      BY Zenon, <2>1, <2>2, <2>3
  <1>9. ASSUME NEW c \in Caller, PickHistory(c) \/ ReadHistory(c) PROVE NoneToDrain'
    <2>1. UNCHANGED <<asks, drains, overtaken>>
      BY Zenon, <1>9 DEF PickHistory, ReadHistory
    <2>2. PICK s \in {"idle", "stream"} : at' = [at EXCEPT ![c] = s]
      BY Zenon, <1>9 DEF PickHistory, ReadHistory
    <2> QED
      BY Zenon, <2>1, <2>2
  <1>10. CASE DrainOne
    <2>1. UNCHANGED <<asks, overtaken>> /\ drains > 0 /\ drains' = drains - 1
      BY Zenon, <1>10 DEF DrainOne
    <2>2. \A c \in Caller : at'[c] = at[c] \/ (drains = 1 /\ at[c] = "parked" /\ at'[c] = "woken")
      BY Zenon, <1>10 DEF DrainOne
    <2> QED
      BY <2>1, <2>2
  <1>11. CASE UNCHANGED <<at, asks, drains, overtaken>>
    BY Zenon, <1>11
  <1>12. ASSUME ReaderStep \/ CloseClient \/ LoseLink \/ dispatch
                \/ \E n \in 1..MaxCalls : answerWait(n)
         PROVE  UNCHANGED <<at, asks, drains, overtaken>>
    BY <1>12, Zenon DEF ReaderStep, ReadControl, Demux, CloseClient, LoseLink, dispatch, answerWait
  <1> HIDE DEF NoneToDrain
  <1> QED
    BY Zenon, <1>1, <1>2, <1>3, <1>4, <1>5, <1>6, <1>7, <1>8, <1>9, <1>10, <1>11, <1>12
       DEF RpcNext, Proceed

(* Nothing in flight: every queue is empty.                                *)
LEMMA NoneInFlight ==
    ASSUME RpcTypeOK
    PROVE  /\ InFlight \in Nat
           /\ InFlight = 0 => /\ toDaemon = <<>> /\ waits = {} /\ toClient = <<>>
                              /\ reader \notin Answer /\ responses = <<>>
  <1>1. Cardinality(waits) \in Nat /\ (Cardinality(waits) = 0 <=> waits = {})
    BY FS_CardinalityType, FS_EmptySet, Zenon DEF RpcTypeOK
  <1>2. Len(toDaemon) \in Nat /\ Len(toClient) \in Nat /\ Len(responses) \in Nat
    BY Zenon, LenProperties DEF RpcTypeOK
  <1>3. (IF reader \in Answer THEN 1 ELSE 0) \in {0, 1}
    BY Zenon
  <1>4. InFlight \in Nat
    BY SMTT(30), <1>1, <1>2, <1>3 DEF InFlight
  <1>5. ASSUME InFlight = 0
        PROVE  /\ Len(toDaemon) = 0 /\ Cardinality(waits) = 0 /\ Len(toClient) = 0
               /\ reader \notin Answer /\ Len(responses) = 0
    BY SMTT(30), <1>1, <1>2, <1>5 DEF InFlight
  <1> QED
    BY Zenon, <1>1, <1>4, <1>5, EmptySeq DEF RpcTypeOK

(* The number of answers in flight is a natural number, ...                *)
LEMMA InFlightType == RpcTypeOK => InFlight \in Nat
  BY Zenon, NoneInFlight

(* ... after a step as before it.                                          *)
LEMMA InFlightTypeNext == RpcTypeOK' => (InFlight \in Nat)'
  BY InFlightType, PTL

(* A call that writes while no other one is outstanding finds the          *)
(* connection empty, unless drains are left to take what is on it.         *)
LEMMA WriteAlone ==
    ASSUME RpcInv, NEW c \in Caller, WriteRequest(c), linkUp, Orderly'
    PROVE  /\ Orderly /\ at[c] = "write"
           /\ \A o \in Caller : ~AwaitsReply(o) /\ ~Streaming(o)
           /\ asks[c] = "history" => drains = 0
           /\ history = <<>> /\ Selecting = 0
           /\ (asks[c] = "history" \/ ~overtaken) => InFlight = 0
  <1>1. Orderly /\ at[c] = "write"
    BY Zenon DEF WriteRequest, Orderly
  <1>2. /\ \A o \in Caller \ {c} :
              ~(AwaitsReply(o) /\ (asks[c] = "history" \/ asks[o] = "history"))
        /\ asks[c] = "history" => ~(drains > 0)
    BY Zenon DEF WriteRequest, Orderly
  <1>3. ASSUME NEW o \in Caller PROVE ~AwaitsReply(o)
    BY Zenon, <1>1, <1>2 DEF AwaitsReply, RpcInv, CallInStep
  <1>4. /\ asks[c] = "history" => drains = 0
        /\ asks[c] # "history" /\ ~overtaken => drains = 0
    BY <1>1, <1>2 DEF RpcInv, RpcTypeOK, NoneToDrain
  <1>5. \A o \in Caller : ~Streaming(o) /\ at[o] # "select"
    BY Zenon, <1>3 DEF AwaitsReply, Streaming
  <1>6. Selecting = 0
    BY Zenon, <1>5 DEF Selecting
  <1>7. history = <<>> /\ InFlight <= drains
    BY <1>1, <1>5, <1>6 DEF RpcInv, EachIsTaken, RpcTypeOK
  <1>8. InFlight \in Nat
    BY Zenon, NoneInFlight DEF RpcInv
  <1> QED
    BY SMTT(30), <1>1, <1>3, <1>4, <1>5, <1>6, <1>7, <1>8

(* A queue of frames of call n stays one when one or two are added.        *)
LEMMA AllOfConcat ==
    ASSUME NEW S, NEW n, NEW q \in Seq(S), NEW x \in S, NEW y \in S, x.of = n, y.of = n,
           \A i \in 1..Len(q) : q[i].of = n
    PROVE  /\ \A i \in 1..Len(Append(q, x)) : Append(q, x)[i].of = n
           /\ \A i \in 1..Len(q \o <<x>>) : (q \o <<x>>)[i].of = n
           /\ \A i \in 1..Len(q \o <<x, y>>) : (q \o <<x, y>>)[i].of = n
  <1>1. \A i \in 1..Len(Append(q, x)) : Append(q, x)[i].of = n
    OBVIOUS
  <1>2. \A i \in 1..Len(q \o <<x>>) : (q \o <<x>>)[i].of = n
    OBVIOUS
  <1>3. \A i \in 1..Len(q \o <<x, y>>) : (q \o <<x, y>>)[i].of = n
    OBVIOUS
  <1> QED
    BY SMTT(30), <1>1, <1>2, <1>3

(* Frames keep the call they belong to on their way.                       *)
LEMMA AllOfStep ==
    ASSUME RpcTypeOK, RpcNext, NEW n, AllOf(n),
           toDaemon' = toDaemon \/ (toDaemon # <<>> /\ toDaemon' = Tail(toDaemon))
    PROVE  AllOf(n)'
  <1> USE DEF RpcTypeOK, wireVars, chanVars, pastVars
  <1>1. ASSUME NEW S, NEW q \in Seq(S), q # <<>>, \A i \in 1..Len(q) : q[i].of = n
        PROVE  Head(q).of = n /\ \A i \in 1..Len(Tail(q)) : Tail(q)[i].of = n
    BY SMTT(30), <1>1, QueueTypes
  <1>2. ASSUME NEW S, NEW q \in Seq(S), NEW e \in S, e.of = n,
               \A i \in 1..Len(q) : q[i].of = n
        PROVE  \A i \in 1..Len(Append(q, e)) : Append(q, e)[i].of = n
    BY <1>2, AppendProperties
  <1>3. CASE UNCHANGED <<toDaemon, waits, toClient, reader, responses, history>>
    BY Zenon, <1>3 DEF AllOf
  <1>4. ASSUME UNCHANGED <<toDaemon, waits, toClient, reader>>,
               responses' = responses \/ (responses # <<>> /\ responses' = Tail(responses)),
               history' = history \/ (history # <<>> /\ history' = Tail(history))
        PROVE  AllOf(n)'
    <2>1. responses # <<>> => \A i \in 1..Len(Tail(responses)) : Tail(responses)[i].of = n
      BY Zenon, <1>1 DEF AllOf
    <2>2. \A i \in 1..Len(responses') : responses'[i].of = n
      BY <1>4, <2>1, Zenon DEF AllOf
    <2>3. history # <<>> => \A i \in 1..Len(Tail(history)) : Tail(history)[i].of = n
      BY Zenon, <1>1 DEF AllOf
    <2>4. \A i \in 1..Len(history') : history'[i].of = n
      BY <1>4, <2>3, Zenon DEF AllOf
    <2> QED
      BY Zenon, <1>4, <2>2, <2>4 DEF AllOf
  <1>5. ASSUME NEW c \in Caller, ReceiveReply(c) \/ PickHistory(c) \/ ReadHistory(c)
        PROVE  AllOf(n)'
    BY Zenon, <1>4, <1>5 DEF ReceiveReply, PickHistory, ReadHistory
  <1>6. CASE DrainOne
    BY Zenon, <1>4, <1>6 DEF DrainOne
  <1>7. CASE ReadControl
    <2>1. CASE reader' = Head(toClient) /\ toClient # <<>> /\ toClient' = Tail(toClient)
      <3>1. Head(toClient).of = n /\ \A i \in 1..Len(Tail(toClient)) : Tail(toClient)[i].of = n
        BY Zenon, <1>1, <2>1 DEF AllOf
      <3> QED
        BY Zenon, <1>7, <2>1, <3>1 DEF ReadControl, AllOf
    <2>2. CASE reader' = [kind |-> "ended", of |-> 0] /\ UNCHANGED toClient
      <3>1. reader' \notin Answer
        BY Zenon, <2>2 DEF Answer
      <3> QED
        BY Zenon, <1>7, <2>2, <3>1 DEF ReadControl, AllOf
    <2> QED
      BY Zenon, <1>7, <2>1, <2>2 DEF ReadControl
  <1>8. CASE Demux
    <2>1. reader \in Answer /\ reader' \notin Answer
      BY Zenon, <1>8 DEF Demux, Answer, NoAnswer
    <2>2. reader.of = n
      BY Zenon, <2>1 DEF AllOf
    <2>3. \A i \in 1..Len(Append(responses, reader)) : Append(responses, reader)[i].of = n
      BY SMTT(30), <1>2, <2>1, <2>2 DEF AllOf
    <2>4. \A i \in 1..Len(responses') : responses'[i].of = n
      BY Zenon, <1>8, <2>3 DEF Demux, AllOf
    <2>5. history \in Seq(Answer) /\ \A i \in 1..Len(history) : history[i].of = n
      BY Zenon DEF AllOf
    <2>6. \A i \in 1..Len(Append(history, reader)) : Append(history, reader)[i].of = n
      BY ONLY Zenon, <1>2, <2>1, <2>2, <2>5
    <2>7. \A i \in 1..Len(history') : history'[i].of = n
      BY <1>8, <2>6, Zenon DEF Demux, AllOf
    <2> QED
      BY Zenon, <1>8, <2>1, <2>4, <2>7 DEF Demux, AllOf
  <1>9. CASE dispatch
    <2> DEFINE f == Head(toDaemon)
               re == [kind |-> "reply", of |-> f.of]
               ch == [kind |-> "chunk", of |-> f.of]
               en == [kind |-> "end", of |-> f.of]
    <2>1. toDaemon # <<>> /\ toDaemon' = Tail(toDaemon)
      BY Zenon, <1>9 DEF dispatch
    <2>2. f.of = n /\ \A i \in 1..Len(toDaemon') : toDaemon'[i].of = n
      BY SMTT(30), <1>1, <2>1 DEF AllOf
    <2>3. /\ \/ toClient' = Append(toClient, re) \/ toClient' = toClient
             \/ toClient' \in {toClient \o <<re>>, toClient \o <<en>>, toClient \o <<ch, en>>}
          /\ waits' \in {waits, waits \cup {f.of}}
      BY <1>9, Zenon DEF dispatch
    <2>4. re \in Answer /\ ch \in Answer /\ en \in Answer
      <3>1. f \in Request
        BY Zenon, <2>1, QueueTypes
      <3>2. f.of \in Nat
        BY Zenon, <3>1 DEF Request
      <3> QED
        BY Zenon, <3>2 DEF Answer
    <2>5. re.of = n /\ ch.of = n /\ en.of = n
      BY Zenon, <2>2
    <2> HIDE DEF re, ch, en
    <2>6. \A i \in 1..Len(toClient) : toClient[i].of = n
      BY Zenon DEF AllOf
    <2>7. \A i \in 1..Len(toClient') : toClient'[i].of = n
      <3>1. toClient \in Seq(Answer)
        BY Zenon
      <3>2. ASSUME NEW x \in Answer, NEW y \in Answer, x.of = n, y.of = n
            PROVE  /\ \A i \in 1..Len(Append(toClient, x)) : Append(toClient, x)[i].of = n
                   /\ \A i \in 1..Len(toClient \o <<x>>) : (toClient \o <<x>>)[i].of = n
                   /\ \A i \in 1..Len(toClient \o <<x, y>>) : (toClient \o <<x, y>>)[i].of = n
        BY ONLY SMTT(30), <2>6, <3>1, <3>2, AllOfConcat
      <3>3. /\ \A i \in 1..Len(Append(toClient, re)) : Append(toClient, re)[i].of = n
            /\ \A i \in 1..Len(toClient \o <<re>>) : (toClient \o <<re>>)[i].of = n
        BY ONLY Zenon, <2>4, <2>5, <3>2
      <3>4. /\ \A i \in 1..Len(toClient \o <<en>>) : (toClient \o <<en>>)[i].of = n
            /\ \A i \in 1..Len(toClient \o <<ch, en>>) : (toClient \o <<ch, en>>)[i].of = n
        BY ONLY Zenon, <2>4, <2>5, <3>2
      <3> QED
        BY Zenon, <2>3, <2>6, <3>3, <3>4
    <2> QED
      BY Zenon, <1>9, <2>2, <2>3, <2>7 DEF dispatch, AllOf
  <1>10. ASSUME NEW m \in 1..MaxCalls, answerWait(m) PROVE AllOf(n)'
    <2> DEFINE e == [kind |-> "reply", of |-> m]
    <2>1. e.of = n /\ e \in Answer
      BY Zenon, <1>10 DEF answerWait, AllOf, Answer
    <2>2. toClient' = Append(toClient, e)
      BY Zenon, <1>10 DEF answerWait
    <2> HIDE DEF e
    <2>3. \A i \in 1..Len(toClient') : toClient'[i].of = n
      BY SMTT(30), <1>2, <2>1, <2>2 DEF AllOf
    <2> QED
      BY Zenon, <1>10, <2>3 DEF answerWait, AllOf
  <1>11. ASSUME NEW c \in Caller, WriteRequest(c) PROVE AllOf(n)'
    <2>1. toDaemon' = toDaemon
      <3>1. CASE linkUp
        <4>1. toDaemon' = Append(toDaemon, [kind |-> asks[c], of |-> call[c]])
          BY Zenon, <1>11, <3>1 DEF WriteRequest
        <4>2. [kind |-> asks[c], of |-> call[c]] \in Request
          BY Zenon DEF Request
        <4>3. Len(toDaemon') = Len(toDaemon) + 1
          BY <4>1, <4>2, AppendProperties
        <4>4. toDaemon = <<>> \/ Len(Tail(toDaemon)) = Len(toDaemon) - 1
          BY Zenon, QueueTypes
        <4>5. Len(toDaemon) \in Nat
          BY Zenon, LenProperties
        <4> QED
          BY <4>3, <4>4, <4>5
      <3>2. CASE ~linkUp
        BY Zenon, <1>11, <3>2 DEF WriteRequest
      <3> QED
        BY Zenon, <3>1, <3>2
    <2> QED
      BY Zenon, <1>3, <1>11, <2>1 DEF WriteRequest
  <1>12. ASSUME NEW c \in Caller,
                \/ \E kind \in {"rpc", "wait", "history"} : Begin(c, kind)
                \/ DrainWait(c) \/ DrainWoken(c) \/ LockRpc(c) \/ RequestTimeout(c)
                \/ CloseHistory(c)
         PROVE  UNCHANGED <<toDaemon, waits, toClient, reader, responses, history>>
    BY Zenon, <1>12 DEF Begin, DrainWait, DrainWoken, LockRpc, RequestTimeout, CloseHistory
  <1>13. ASSUME CloseClient \/ LoseLink
         PROVE  UNCHANGED <<toDaemon, waits, toClient, reader, responses, history>>
    BY Zenon, <1>13 DEF CloseClient, LoseLink
  <1> QED
    BY Zenon, <1>3, <1>5, <1>6, <1>7, <1>8, <1>9, <1>10, <1>11, <1>12, <1>13
       DEF RpcNext, Proceed, ReaderStep

(* Only a write makes a call outstanding; nothing takes a mark back.       *)
LEMMA Outstanding ==
    ASSUME RpcTypeOK, RpcNext
    PROVE  /\ Orderly' => Orderly
           /\ ~overtaken' => ~overtaken
           /\ linkUp' => linkUp
           /\ \/ \E c \in Caller : WriteRequest(c) /\ linkUp
              \/ /\ toDaemon' = toDaemon \/ (toDaemon # <<>> /\ toDaemon' = Tail(toDaemon))
                 /\ \A c \in Caller : AwaitsReply(c)' =>
                      /\ AwaitsReply(c) /\ (Streaming(c) <=> Streaming(c)')
                      /\ call'[c] = call[c]
  <1> USE DEF RpcTypeOK, Orderly, AwaitsReply, Streaming, CallAt, wireVars, chanVars, pastVars
  <1> DEFINE Stays ==
          /\ toDaemon' = toDaemon \/ (toDaemon # <<>> /\ toDaemon' = Tail(toDaemon))
          /\ \A c \in Caller : AwaitsReply(c)' =>
                /\ AwaitsReply(c) /\ (Streaming(c) <=> Streaming(c)')
                /\ call'[c] = call[c]
             Marks == (Orderly' => Orderly) /\ (~overtaken' => ~overtaken) /\ (linkUp' => linkUp)
  <1>1. ASSUME NEW c \in Caller, NEW kind \in {"rpc", "wait", "history"}, Begin(c, kind)
        PROVE  Stays /\ Marks
    BY Zenon, <1>1 DEF Begin
  <1>2. ASSUME NEW c \in Caller, DrainWait(c) \/ DrainWoken(c) PROVE Stays /\ Marks
    BY SMTT(30), <1>2 DEF DrainWait, DrainWoken
  <1>3. ASSUME NEW c \in Caller, LockRpc(c) \/ CloseHistory(c) PROVE Stays /\ Marks
    BY SMTT(30), <1>3 DEF LockRpc, CloseHistory
  <1>4. ASSUME NEW c \in Caller, WriteRequest(c) PROVE Marks /\ (linkUp \/ Stays)
    <2>1. Marks
      BY <1>4 DEF WriteRequest
    <2>2. ~linkUp => Stays
      BY Zenon, <1>4 DEF WriteRequest
    <2> QED
      BY Zenon, <2>1, <2>2
  <1>5. ASSUME NEW c \in Caller, ReceiveReply(c) PROVE Stays /\ Marks
    BY Zenon, <1>5 DEF ReceiveReply
  <1>6. ASSUME NEW c \in Caller, RequestTimeout(c) PROVE Stays /\ Marks
    BY Zenon, <1>6 DEF RequestTimeout
  <1>7. ASSUME NEW c \in Caller, PickHistory(c) \/ ReadHistory(c) PROVE Stays /\ Marks
    <2>1. UNCHANGED <<toDaemon, call, linkUp, mixed, leftOver, overtaken>>
      BY Zenon, <1>7 DEF PickHistory, ReadHistory
    <2>2. PICK s \in {"idle", "stream"} : at' = [at EXCEPT ![c] = s]
      BY Zenon, <1>7 DEF PickHistory, ReadHistory
    <2>3. at[c] \in {"pick", "stream"}
      BY Zenon, <1>7 DEF PickHistory, ReadHistory
    <2> QED
      BY Zenon, <2>1, <2>2, <2>3
  <1>8. ASSUME ReadControl \/ Demux PROVE Stays /\ Marks
    <2>1. UNCHANGED <<toDaemon, at, asks, call, linkUp, mixed, leftOver, overtaken>>
      BY <1>8, Zenon DEF ReadControl, Demux
    <2> QED
      BY Zenon, <2>1
  <1>9. ASSUME DrainOne PROVE Stays /\ Marks
    <2>1. UNCHANGED <<toDaemon, call, linkUp, mixed, leftOver, overtaken>>
      BY Zenon, <1>9 DEF DrainOne
    <2>2. \A c \in Caller : at'[c] = at[c] \/ at'[c] = "woken"
      BY Zenon, <1>9 DEF DrainOne
    <2> QED
      BY Zenon, <2>1, <2>2
  <1>10. ASSUME CloseClient \/ LoseLink PROVE Stays /\ Marks
    BY Zenon, <1>10 DEF CloseClient, LoseLink
  <1>11. ASSUME dispatch PROVE Stays /\ Marks
    BY Zenon, <1>11 DEF dispatch
  <1>12. ASSUME NEW n \in 1..MaxCalls, answerWait(n) PROVE Stays /\ Marks
    BY Zenon, <1>12 DEF answerWait
  <1> HIDE DEF Stays, Marks
  <1>13. Marks /\ (Stays \/ \E c \in Caller : WriteRequest(c) /\ linkUp)
    BY Zenon, <1>1, <1>2, <1>3, <1>4, <1>5, <1>6, <1>7, <1>8, <1>9, <1>10, <1>11, <1>12
       DEF RpcNext, Proceed, ReaderStep
  <1> QED
    BY Zenon, <1>13 DEF Stays, Marks

(* What a write leaves on the connection, when it was empty: the frame.    *)
LEMMA WriteOne ==
    ASSUME RpcInv, NEW c \in Caller, WriteRequest(c), linkUp, Orderly',
           asks[c] = "history" \/ ~overtaken
    PROVE  /\ toDaemon' = <<[kind |-> asks[c], of |-> call[c]]>>
           /\ toClient' = <<>> /\ waits' = {} /\ responses' = <<>> /\ history' = <<>>
           /\ reader' \notin Answer /\ UNCHANGED <<reader, call, drains, linkUp>>
           /\ AllOf(call[c])'
  <1>1. /\ toDaemon = <<>> /\ waits = {} /\ toClient = <<>> /\ reader \notin Answer
        /\ responses = <<>> /\ history = <<>>
    BY Zenon, WriteAlone, NoneInFlight DEF RpcInv
  <1>2. /\ UNCHANGED <<waits, toClient, reader, responses, history, call, drains, linkUp>>
        /\ toDaemon' = Append(toDaemon, [kind |-> asks[c], of |-> call[c]])
    BY Zenon DEF WriteRequest, chanVars
  <1> DEFINE f == [kind |-> asks[c], of |-> call[c]]
  <1>3. f.of = call[c] /\ toDaemon' = Append(<<>>, f)
    BY Zenon, <1>1, <1>2
  <1> HIDE DEF f
  <1>4. toDaemon' = <<f>>
    BY <1>3
  <1>5. \A i \in 1..Len(toDaemon') : toDaemon'[i].of = call[c]
    BY <1>3, <1>4
  <1>6. AllOf(call[c])'
    <2>1. toClient' = <<>> /\ responses' = <<>> /\ history' = <<>>
      BY Zenon, <1>1, <1>2
    <2>2. waits' \subseteq {call'[c]} /\ reader' \notin Answer /\ call'[c] = call[c]
      BY Zenon, <1>1, <1>2
    <2>3. \A q : q = <<>> => \A i \in 1..Len(q) : q[i].of = call[c]
      OBVIOUS
    <2> QED
      BY <1>5, <2>1, <2>2, <2>3, Zenon DEF AllOf
  <1> QED
    BY Zenon, <1>1, <1>2, <1>4, <1>6 DEF f

(* A call that waits for its answer keeps the connection for itself.       *)
LEMMA OnlyOwnStep ==
    ASSUME RpcInv, RpcNext
    PROVE  OnlyOwn'
  <1>1. SUFFICES ASSUME Orderly', NEW c \in Caller,
                        Streaming(c)' \/ (at'[c] = "select" /\ ~overtaken')
                 PROVE  AllOf(call[c])'
    BY Zenon DEF OnlyOwn
  <1>2. AwaitsReply(c)' /\ RpcTypeOK /\ OnlyOwn
    BY Zenon, <1>1 DEF AwaitsReply, Streaming, RpcInv
  <1>3. CASE \E o \in Caller : WriteRequest(o) /\ linkUp
    <2>1. PICK o \in Caller : WriteRequest(o) /\ linkUp
      BY Zenon, <1>3
    <2>2. \A d \in Caller : ~AwaitsReply(d)
      BY Zenon, <1>1, <2>1, WriteAlone
    <2>3. o = c
      BY Zenon, <1>2, <2>1, <2>2 DEF WriteRequest, CallAt, AwaitsReply, RpcTypeOK
    <2>4. asks[c] = "history" \/ ~overtaken
      BY Zenon, <1>1, <1>2, <2>1, <2>3 DEF WriteRequest, CallAt, Streaming, RpcTypeOK
    <2> QED
      BY <1>1, <2>1, <2>3, <2>4, WriteOne, Zenon
  <1>4. CASE ~\E o \in Caller : WriteRequest(o) /\ linkUp
    <2>1. /\ Orderly /\ (~overtaken' => ~overtaken)
          /\ toDaemon' = toDaemon \/ (toDaemon # <<>> /\ toDaemon' = Tail(toDaemon))
          /\ AwaitsReply(c) /\ (Streaming(c) <=> Streaming(c)') /\ call'[c] = call[c]
      BY <1>1, <1>2, <1>4, Outstanding, Zenon
    <2>2. Streaming(c) \/ (at[c] = "select" /\ ~overtaken)
      BY Zenon, <1>1, <2>1 DEF AwaitsReply, Streaming
    <2>3. AllOf(call[c])
      BY Zenon, <1>2, <2>1, <2>2 DEF OnlyOwn
    <2>4. \A n : AllOf(n) => AllOf(n)'
      BY Zenon, <1>2, <2>1, AllOfStep
    <2> QED
      BY <2>1, <2>3, <2>4, Zenon DEF AllOf
  <1> QED
    BY Zenon, <1>3, <1>4

(* What a call takes off a channel is its own.                             *)
LEMMA AnswerIsOwnStep ==
    ASSUME RpcInv, RpcNext
    PROVE  AnswerIsOwn'
  <1> DEFINE Claim(c) == \/ got[c] = 0 \/ ~(at[c] = "idle" \/ asks[c] = "history")
                         \/ got[c] = call[c] \/ ~Orderly \/ (overtaken /\ asks[c] # "history")
  <1>1. RpcTypeOK /\ CallInStep /\ OnlyOwn /\ \A c \in Caller : Claim(c)
    BY Zenon DEF RpcInv, AnswerIsOwn, Orderly
  <1>2. SUFFICES ASSUME NEW c \in Caller PROVE Claim(c)'
    BY Zenon DEF AnswerIsOwn, Orderly
  <1>3. (Orderly' => Orderly) /\ (~overtaken' => ~overtaken)
    BY Zenon, <1>1, Outstanding
  <1>4. ASSUME got'[c] = got[c], call'[c] = call[c], asks'[c] = asks[c],
               at'[c] = "idle" => at[c] = "idle" \/ got[c] = 0 \/ asks[c] = "history"
        PROVE  Claim(c)'
    BY Zenon, <1>1, <1>3, <1>4
  <1>5. ASSUME NEW q \in Seq(Answer), q # <<>>, \A i \in 1..Len(q) : q[i].of = call[c]
        PROVE  Head(q).of = call[c]
    BY SMTT(30), <1>5, QueueTypes
  <1> USE DEF RpcTypeOK, CallAt, wireVars, chanVars, pastVars
  <1>6. ASSUME NEW o \in Caller, NEW kind \in {"rpc", "wait", "history"}, Begin(o, kind)
        PROVE  Claim(c)'
    <2>1. CASE o = c
      BY Zenon, <1>1, <1>6, <2>1 DEF Begin
    <2>2. CASE o # c
      BY SMTT(30), <1>4, <1>6, <2>2 DEF Begin
    <2> QED
      BY Zenon, <2>1, <2>2
  <1> HIDE DEF Claim
  <1>7. ASSUME NEW o \in Caller, ReceiveReply(o) PROVE Claim(c)'
    <2>1. UNCHANGED <<call, asks>> /\ at[o] = "select" /\ at' = [at EXCEPT ![o] = "idle"]
      BY Zenon, <1>7 DEF ReceiveReply
    <2>2. asks[o] # "history" /\ got[o] = 0
      BY Zenon, <1>1, <2>1 DEF CallInStep
    <2>3. CASE o # c
      BY Zenon, <1>1, <1>4, <1>7, <2>1, <2>3 DEF ReceiveReply
    <2>4. CASE o = c /\ responses # <<>>
      <3>1. got'[c] = Head(responses).of
        BY Zenon, <1>1, <1>7, <2>4 DEF ReceiveReply
      <3>2. Orderly /\ ~overtaken => \A i \in 1..Len(responses) : responses[i].of = call[c]
        BY Zenon, <1>1, <2>1, <2>4 DEF OnlyOwn, AllOf
      <3>3. Orderly /\ ~overtaken => got'[c] = call[c]
        BY Zenon, <1>1, <1>5, <2>4, <3>1, <3>2
      <3> QED
        BY Zenon, <1>3, <2>1, <2>2, <2>4, <3>3 DEF Claim
    <2>5. CASE o = c /\ responses = <<>>
      BY Zenon, <1>1, <1>4, <1>7, <2>1, <2>2, <2>5 DEF ReceiveReply
    <2> QED
      BY Zenon, <2>3, <2>4, <2>5
  <1>8. ASSUME NEW o \in Caller, PickHistory(o) \/ ReadHistory(o) PROVE Claim(c)'
    <2>1. /\ UNCHANGED <<call, asks>> /\ at[o] \in {"pick", "stream"}
          /\ \A d \in Caller \ {o} : got'[d] = got[d] /\ at'[d] = at[d]
      BY Zenon, <1>1, <1>8 DEF PickHistory, ReadHistory
    <2>2. CASE o # c
      BY Zenon, <1>1, <1>4, <2>1, <2>2
    <2>3. CASE o = c
      <3>1. asks[c] = "history" /\ Streaming(c)
        BY Zenon, <1>1, <2>1, <2>3 DEF CallInStep, Streaming
      <3>2. \/ got'[c] = got[c]
            \/ history # <<>> /\ got'[c] = Head(history).of
            \/ responses # <<>> /\ got'[c] = Head(responses).of
        BY Zenon, <1>1, <1>8, <2>3 DEF PickHistory, ReadHistory
      <3>3. Orderly => AllOf(call[c])
        BY Zenon, <1>1, <3>1 DEF OnlyOwn
      <3>4. Orderly /\ history # <<>> => Head(history).of = call[c]
        BY Zenon, <1>1, <1>5, <3>3 DEF AllOf
      <3>5. Orderly /\ responses # <<>> => Head(responses).of = call[c]
        BY Zenon, <1>1, <1>5, <3>3 DEF AllOf
      <3>6. CASE got'[c] = got[c]
        BY Zenon, <1>4, <2>1, <3>1, <3>6
      <3>7. CASE got'[c] # got[c]
        <4>1. Orderly => got'[c] = call[c]
          BY Zenon, <3>2, <3>4, <3>5, <3>7
        <4> QED
          BY Zenon, <1>3, <2>1, <4>1 DEF Claim
      <3> QED
        BY Zenon, <3>6, <3>7
    <2> QED
      BY Zenon, <2>2, <2>3
  <1>9. ASSUME NEW o \in Caller, WriteRequest(o) PROVE Claim(c)'
    <2>1. /\ UNCHANGED <<call, asks, got>> /\ at[o] = "write"
          /\ \A d \in Caller \ {o} : at'[d] = at[d]
      BY Zenon, <1>1, <1>9 DEF WriteRequest
    <2>2. got[o] = 0
      BY <1>1, <2>1, Zenon DEF CallInStep
    <2> QED
      BY Zenon, <1>4, <2>1, <2>2
  <1>10. ASSUME NEW o \in Caller, RequestTimeout(o) PROVE Claim(c)'
    <2>1. got[o] = 0
      BY Zenon, <1>1, <1>10 DEF RequestTimeout, CallInStep
    <2> QED
      BY Zenon, <1>1, <1>4, <1>10, <2>1 DEF RequestTimeout
  <1>11. ASSUME NEW o \in Caller, CloseHistory(o) PROVE Claim(c)'
    <2>1. asks[o] = "history"
      BY Zenon, <1>1, <1>11 DEF CloseHistory, CallInStep
    <2> QED
      BY Zenon, <1>1, <1>4, <1>11, <2>1 DEF CloseHistory
  <1>12. ASSUME NEW o \in Caller, DrainWait(o) \/ DrainWoken(o) \/ LockRpc(o)
         PROVE  Claim(c)'
    BY Zenon, <1>1, <1>4, <1>12 DEF DrainWait, DrainWoken, LockRpc
  <1>13. CASE DrainOne
    <2>1. UNCHANGED <<call, asks, got>> /\ (at'[c] = "idle" => at[c] = "idle")
      BY Zenon, <1>1, <1>13 DEF DrainOne
    <2> QED
      BY Zenon, <1>4, <2>1
  <1>14. CASE UNCHANGED <<call, asks, got, at>>
    BY Zenon, <1>4, <1>14
  <1>15. ASSUME ReaderStep \/ CloseClient \/ LoseLink \/ dispatch
                \/ \E n \in 1..MaxCalls : answerWait(n)
         PROVE  UNCHANGED <<call, asks, got, at>>
    BY <1>15, Zenon DEF ReaderStep, ReadControl, Demux, CloseClient, LoseLink, dispatch, answerWait
  <1> QED
    BY Zenon, <1>6, <1>7, <1>8, <1>9, <1>10, <1>11, <1>12, <1>13, <1>14, <1>15
       DEF RpcNext, Proceed

(* Sequences of one and two elements.                                      *)
LEMMA ShortSequences ==
    ASSUME NEW a, NEW b
    PROVE  /\ Head(<<a>>) = a /\ Tail(<<a>>) = <<>> /\ <<a>> # <<>>
           /\ Head(<<a, b>>) = a /\ Tail(<<a, b>>) = <<b>> /\ <<a, b>> # <<>>
           /\ Append(<<>>, a) = <<a>> /\ Append(<<a>>, b) = <<a, b>>
           /\ <<>> \o <<a>> = <<a>> /\ <<>> \o <<a, b>> = <<a, b>>
  <1>1. <<a>> \in Seq({a, b}) /\ <<a, b>> \in Seq({a, b})
    OBVIOUS
  <1>2. <<>> \o <<a>> = <<a>> /\ <<>> \o <<a, b>> = <<a, b>>
    BY Zenon, <1>1, ConcatEmptySeq
  <1>3. Append(<<>>, a) = <<a>> /\ Append(<<a>>, b) = <<a, b>>
    <2>1. Append(<<>>, a) = <<a>>
      OBVIOUS
    <2> DEFINE s == Append(<<a>>, b)
               t == <<a, b>>
    <2>2. s \in Seq({a, b}) /\ Len(s) = 2 /\ s[1] = a /\ s[2] = b
      BY <1>1, AppendProperties
    <2>3. t \in Seq({a, b}) /\ Len(t) = 2 /\ t[1] = a /\ t[2] = b
      BY Zenon, <1>1
    <2> HIDE DEF s, t
    <2>4. \A i \in 1..2 : s[i] = t[i]
      BY <2>2, <2>3
    <2>5. s = t
      BY Zenon, <2>2, <2>3, <2>4, SeqEqual
    <2> USE DEF s, t
    <2> QED
      BY Zenon, <2>1, <2>5
  <1>4. Head(<<a>>) = a /\ Tail(<<a>>) = <<>> /\ <<a>> # <<>>
    OBVIOUS
  <1>5. Head(<<a, b>>) = a /\ Tail(<<a, b>>) = <<b>> /\ <<a, b>> # <<>>
    OBVIOUS
  <1> QED
    BY Zenon, <1>2, <1>3, <1>4, <1>5

(* The flow of a History's answer with its frames named.                   *)
LEMMA HistoryIsAloneStep ==
    ASSUME RpcInv, RpcNext
    PROVE  HistoryIsAlone'
  <1>1. SUFFICES ASSUME linkUp', Orderly', NEW c \in Caller, Streaming(c)'
                 PROVE  /\ drains' = 0 /\ waits' = {} /\ HistoryFlow(call[c])'
                        /\ \A o \in Caller \ {c} : ~AwaitsReply(o)'
    BY Zenon DEF HistoryIsAlone
  <1>2. RpcTypeOK /\ CallInStep /\ HistoryIsAlone /\ AwaitsReply(c)'
    BY Zenon, <1>1 DEF RpcInv, AwaitsReply, Streaming
  <1>3. Orderly /\ linkUp
    BY Zenon, <1>1, <1>2, Outstanding
  <1>4. CASE \E o \in Caller : WriteRequest(o)
    <2>1. PICK o \in Caller : WriteRequest(o)
      BY Zenon, <1>4
    <2>2. \A d \in Caller : ~AwaitsReply(d)
      BY <1>1, <1>3, <2>1, WriteAlone, Zenon
    <2>3. o = c /\ \A d \in Caller \ {c} : ~AwaitsReply(d)'
      BY Zenon, <1>2, <2>1, <2>2 DEF WriteRequest, CallAt, AwaitsReply, RpcTypeOK
    <2>4. asks[c] = "history"
      BY Zenon, <1>1, <1>2, <1>3, <2>1, <2>3 DEF WriteRequest, CallAt, Streaming, RpcTypeOK
    <2>5. /\ toDaemon' = <<[kind |-> "history", of |-> call[c]]>>
          /\ toClient' = <<>> /\ waits' = {} /\ responses' = <<>> /\ history' = <<>>
          /\ reader' \notin Answer /\ UNCHANGED <<reader, call, drains>>
      BY <1>1, <1>3, <2>1, <2>3, <2>4, WriteOne, Zenon
    <2>6. reader' = Idle
      <3>1. reader.kind # "ended"
        BY Zenon, <1>2, <1>3 DEF CallInStep, ReaderEnded
      <3>2. reader \in NoAnswer
        BY Zenon, <1>2, <2>5 DEF RpcTypeOK
      <3> QED
        BY Zenon, <2>5, <3>1, <3>2 DEF NoAnswer, Idle
    <2>7. drains = 0
      BY <1>1, <1>3, <2>1, <2>3, <2>4, WriteAlone, Zenon
    <2> QED
      BY Zenon, <2>3, <2>5, <2>6, <2>7 DEF HistoryFlow
  <1>5. CASE ~\E o \in Caller : WriteRequest(o)
    <2>1. /\ AwaitsReply(c) /\ Streaming(c) /\ call'[c] = call[c]
          /\ \A o \in Caller : AwaitsReply(o)' => AwaitsReply(o)
      BY <1>1, <1>2, <1>5, Outstanding, Zenon
    <2>2. /\ drains = 0 /\ waits = {} /\ HistoryFlow(call[c])
          /\ \A o \in Caller \ {c} : ~AwaitsReply(o)
      BY Zenon, <1>2, <1>3, <2>1 DEF HistoryIsAlone
    <2>3. SUFFICES drains' = 0 /\ waits' = {} /\ HistoryFlow(call[c])'
      BY Zenon, <2>1, <2>2
    <2> DEFINE n == call[c]
               re == [kind |-> "reply", of |-> n]
               ch == [kind |-> "chunk", of |-> n]
               en == [kind |-> "end", of |-> n]
               Flow(d, t, r, p, h) ==
                  \/ /\ d = <<[kind |-> "history", of |-> n]>>
                     /\ t = <<>> /\ r = Idle /\ p = <<>> /\ h = <<>>
                  \/ /\ d = <<>>
                     /\ \/ t \in {<<re>>, <<en>>, <<ch, en>>} /\ r = Idle /\ p = <<>> /\ h = <<>>
                        \/ t = <<>> /\ r \in {re, en} /\ p = <<>> /\ h = <<>>
                        \/ t = <<>> /\ r = Idle /\ p = <<re>> /\ h = <<>>
                        \/ t = <<>> /\ r = Idle /\ p = <<>> /\ h \in {<<en>>, <<ch, en>>}
                        \/ t = <<en>> /\ r = ch /\ p = <<>> /\ h = <<>>
                        \/ t = <<en>> /\ r = Idle /\ p = <<>> /\ h = <<ch>>
                        \/ t = <<>> /\ r = en /\ p = <<>> /\ h = <<ch>>
    <2>4. Flow(toDaemon, toClient, reader, responses, history)
      BY Zenon, <2>2 DEF HistoryFlow
    <2>5. Flow(toDaemon', toClient', reader', responses', history') => HistoryFlow(call[c])'
      BY <2>1, Zenon DEF HistoryFlow
    <2>6. /\ re.kind = "reply" /\ ch.kind = "chunk" /\ en.kind = "end" /\ Idle.kind = "none"
          /\ Idle # re /\ Idle # ch /\ Idle # en
      BY Zenon DEF Idle
    <2> HIDE DEF re, ch, en
    <2>7. CASE UNCHANGED <<drains, waits, toDaemon, toClient, reader, responses, history>>
      BY Zenon, <2>2, <2>4, <2>5, <2>7
    <2>8. ASSUME NEW o \in Caller, PickHistory(o) \/ ReadHistory(o)
          PROVE  drains' = 0 /\ waits' = {} /\ HistoryFlow(call[c])'
      <3>1. o = c
        BY <2>2, <2>8, Zenon DEF PickHistory, ReadHistory, AwaitsReply
      <3>2. UNCHANGED <<drains, toDaemon, waits, toClient, reader>>
        BY <2>8, Zenon DEF PickHistory, ReadHistory, wireVars
      <3>3. reader.kind # "ended"
        BY Zenon, <1>2, <1>3 DEF CallInStep, ReaderEnded
      <3>4. /\ history # <<>> /\ history' = Tail(history) /\ UNCHANGED responses
            /\ Head(history).kind # "end"
        BY <1>1, <1>2, <2>8, <3>1, <3>3, Zenon
           DEF PickHistory, ReadHistory, Streaming, CallAt, RpcTypeOK, ReaderEnded
      <3>5. history \in {<<ch>>, <<ch, en>>}
        BY Zenon, <2>4, <2>6, <3>4, ShortSequences
      <3>6. CASE history = <<ch>>
        BY Zenon, <2>2, <2>4, <2>5, <2>6, <3>2, <3>4, <3>6, ShortSequences
      <3>7. CASE history = <<ch, en>>
        BY Zenon, <2>2, <2>4, <2>5, <2>6, <3>2, <3>4, <3>7, ShortSequences
      <3> QED
        BY Zenon, <3>5, <3>6, <3>7
    <2>9. CASE ReadControl
      <3>1. /\ reader.kind = "none" /\ toClient # <<>> /\ reader' = Head(toClient)
            /\ toClient' = Tail(toClient)
            /\ UNCHANGED <<drains, toDaemon, waits, responses, history>>
        BY Zenon, <1>3, <2>9 DEF ReadControl
      <3>2. reader \notin {re, ch, en}
        BY Zenon, <2>6, <3>1
      <3>3. CASE toClient = <<re>>
        BY Zenon, <2>2, <2>4, <2>5, <2>6, <3>1, <3>2, <3>3, ShortSequences
      <3>4. CASE toClient = <<en>>
        BY Zenon, <2>2, <2>4, <2>5, <2>6, <3>1, <3>2, <3>4, ShortSequences
      <3>5. CASE toClient = <<ch, en>>
        BY SMTT(30), <2>2, <2>4, <2>5, <2>6, <3>1, <3>2, <3>5, ShortSequences
      <3> QED
        BY <2>4, <3>1, <3>3, <3>4, <3>5, Zenon
    <2>10. CASE Demux
      <3>1. /\ reader' = Idle /\ UNCHANGED <<drains, toDaemon, waits, toClient>>
            /\ \/ reader.kind \in {"chunk", "end"} /\ history' = Append(history, reader)
                  /\ UNCHANGED responses
               \/ reader.kind = "reply" /\ responses' = Append(responses, reader)
                  /\ UNCHANGED history
        BY Zenon, <2>10 DEF Demux, wireVars, Idle
      <3>2. CASE reader = re
        <4>1. /\ toDaemon = <<>> /\ toClient = <<>> /\ responses' = <<re>> /\ history' = <<>>
          BY <2>4, <2>6, <3>1, <3>2, ShortSequences, Zenon
        <4> QED
          BY Zenon, <2>2, <2>5, <3>1, <4>1
      <3>3. CASE reader = en
        <4>1. /\ toDaemon = <<>> /\ toClient = <<>> /\ responses = <<>>
              /\ history \in {<<>>, <<ch>>}
          BY Zenon, <2>4, <2>6, <3>3
        <4>2. history' = Append(history, en) /\ responses' = <<>>
          BY Zenon, <2>6, <3>1, <3>3, <4>1
        <4>3. history' \in {<<en>>, <<ch, en>>}
          <5>1. CASE history = <<>>
            BY Zenon, <4>2, <5>1, ShortSequences
          <5>2. CASE history = <<ch>>
            BY <4>2, <5>2, ShortSequences, Zenon
          <5> QED
            BY Zenon, <4>1, <5>1, <5>2
        <4> QED
          BY Zenon, <2>2, <2>5, <3>1, <4>3, <4>1, <4>2
      <3>4. CASE reader = ch
        <4>1. /\ toDaemon = <<>> /\ toClient = <<en>> /\ responses' = <<>> /\ history' = <<ch>>
          BY Zenon, <2>4, <2>6, <3>1, <3>4, ShortSequences
        <4> QED
          BY Zenon, <2>2, <2>5, <3>1, <4>1
      <3> QED
        BY <2>4, <2>6, <3>1, <3>2, <3>3, <3>4, Zenon
    <2>11. CASE dispatch
      <3> DEFINE f == [kind |-> "history", of |-> n]
      <3>1. toDaemon # <<>>
        BY <2>11, Zenon DEF dispatch
      <3>2. /\ toDaemon = <<f>> /\ toClient = <<>> /\ reader = Idle /\ responses = <<>>
            /\ history = <<>>
        BY Zenon, <2>4, <3>1
      <3>3. Head(toDaemon) = f /\ Tail(toDaemon) = <<>> /\ f.kind = "history" /\ f.of = n
        BY Zenon, <3>2, ShortSequences
      <3>4. /\ toDaemon' = <<>> /\ waits' = waits
            /\ UNCHANGED <<drains, reader, responses, history>>
            /\ toClient' \in {<<>> \o <<re>>, <<>> \o <<en>>, <<>> \o <<ch, en>>}
        BY <2>11, <3>2, <3>3, Zenon DEF dispatch, chanVars, re, ch, en
      <3>5. toClient' \in {<<re>>, <<en>>, <<ch, en>>}
        BY Zenon, <3>4, ShortSequences
      <3> QED
        BY Zenon, <2>2, <2>5, <3>2, <3>4, <3>5
    <2>12. ASSUME NEW o \in Caller, ReceiveReply(o) \/ RequestTimeout(o) PROVE FALSE
      BY Zenon, <2>1, <2>2, <2>12 DEF ReceiveReply, RequestTimeout, AwaitsReply, Streaming
    <2>13. ASSUME DrainOne \/ \E m \in 1..MaxCalls : answerWait(m) PROVE FALSE
      BY SMTT(30), <2>2, <2>13 DEF DrainOne, answerWait
    <2>14. ASSUME NEW o \in Caller,
                  \/ \E kind \in {"rpc", "wait", "history"} : Begin(o, kind)
                  \/ DrainWait(o) \/ DrainWoken(o) \/ LockRpc(o) \/ CloseHistory(o)
           PROVE  UNCHANGED <<drains, waits, toDaemon, toClient, reader, responses, history>>
      BY Zenon, <2>14 DEF Begin, DrainWait, DrainWoken, LockRpc, CloseHistory, wireVars, chanVars
    <2>15. ASSUME CloseClient \/ LoseLink PROVE FALSE
      BY Zenon, <1>1, <2>15 DEF CloseClient, LoseLink
    <2> HIDE DEF Flow
    <2> QED
      BY Zenon, <1>5, <2>7, <2>8, <2>9, <2>10, <2>11, <2>12, <2>13, <2>14, <2>15
         DEF RpcNext, Proceed, ReaderStep
  <1> QED
    BY Zenon, <1>4, <1>5

(* A request adds one taker and one answer; a timeout turns the caller     *)
(* into a drain.                                                           *)
LEMMA EachIsTakenStep ==
    ASSUME RpcInv, RpcNext
    PROVE  EachIsTaken'
  <1> DEFINE Replies == /\ history = <<>>
                        /\ \A i \in 1..Len(toDaemon) : toDaemon[i].kind # "history"
                        /\ \A i \in 1..Len(toClient) : toClient[i].kind = "reply"
                        /\ reader.kind \notin {"chunk", "end"}
             r == IF reader \in Answer THEN 1 ELSE 0
  <1>1. SUFFICES ASSUME linkUp', Orderly', \A c \in Caller : ~Streaming(c)'
                 PROVE  Replies' /\ InFlight' <= drains' + Selecting'
    BY Zenon DEF EachIsTaken
  <1>2. RpcTypeOK /\ CallInStep /\ EachIsTaken /\ HistoryIsAlone
    BY Zenon DEF RpcInv
  <1>3. Orderly /\ linkUp
    BY Zenon, <1>1, <1>2, Outstanding
  <1>4. /\ Len(toDaemon) \in Nat /\ Len(toClient) \in Nat /\ Len(responses) \in Nat
        /\ Cardinality(waits) \in Nat /\ r \in {0, 1} /\ Selecting \in {0, 1} /\ drains \in Nat
    BY Zenon, <1>2, LenProperties, FS_CardinalityType DEF RpcTypeOK, Selecting
  <1>5. InFlight = Len(toDaemon) + Cardinality(waits) + Len(toClient) + r + Len(responses)
    BY Zenon DEF InFlight
  <1>6. InFlight' = Len(toDaemon') + Cardinality(waits') + Len(toClient') + r' + Len(responses')
    BY Zenon DEF InFlight
  <1>7. Selecting' \in {0, 1}
    BY Zenon DEF Selecting
  <1>8. reader.kind # "ended"
    BY Zenon, <1>2, <1>3 DEF CallInStep, ReaderEnded
  <1> HIDE DEF r
  <1>9. ASSUME \A c \in Caller : Streaming(c) => Streaming(c)'
        PROVE  Replies /\ InFlight <= drains + Selecting
    BY Zenon, <1>1, <1>2, <1>3, <1>9 DEF EachIsTaken
  <1>10. ASSUME NEW o \in Caller, NEW s, at' = [at EXCEPT ![o] = s], ~Streaming(o)
         PROVE  /\ Replies /\ InFlight <= drains + Selecting
                /\ at[o] # "select" /\ s # "select" => Selecting' = Selecting
    <2>1. /\ \A c \in Caller : Streaming(c) => Streaming(c)'
          /\ \A c \in Caller \ {o} : at'[c] = at[c]
          /\ at'[o] = s
      BY Zenon, <1>2, <1>10 DEF Streaming, RpcTypeOK
    <2> QED
      BY Zenon, <1>9, <2>1 DEF Selecting
  <1> HIDE DEF Replies
  <1>11. ASSUME UNCHANGED <<toDaemon, waits, toClient, reader, responses, history, drains>>,
                Replies, InFlight <= drains + Selecting, Selecting' = Selecting
         PROVE  Replies' /\ InFlight' <= drains' + Selecting'
    BY Zenon, <1>11 DEF Replies, InFlight
  <1>12. ASSUME NEW o \in Caller, NEW kind \in {"rpc", "wait", "history"}, Begin(o, kind)
         PROVE  Replies' /\ InFlight' <= drains' + Selecting'
    <2>1. UNCHANGED <<toDaemon, waits, toClient, reader, responses, history, drains>>
      BY Zenon, <1>12 DEF Begin, wireVars, chanVars
    <2>2. PICK s \in {"lock", "wait"} : at' = [at EXCEPT ![o] = s]
      BY <1>12, Zenon DEF Begin, CallAt
    <2>3. at[o] = "idle" /\ ~Streaming(o)
      BY Zenon, <1>12 DEF Begin, Streaming
    <2> QED
      BY <1>10, <1>11, <2>1, <2>2, <2>3, Zenon
  <1>13. ASSUME NEW o \in Caller, DrainWait(o) \/ DrainWoken(o) \/ LockRpc(o)
         PROVE  Replies' /\ InFlight' <= drains' + Selecting'
    <2>1. UNCHANGED <<toDaemon, waits, toClient, reader, responses, history, drains>>
      BY Zenon, <1>13 DEF DrainWait, DrainWoken, LockRpc, wireVars, chanVars
    <2>2. at[o] \in {"wait", "woken", "lock"} /\ ~Streaming(o)
      BY Zenon, <1>13 DEF DrainWait, DrainWoken, LockRpc, Streaming
    <2>3. PICK s \in {"lock", "parked", "write", "woken"} : at' = [at EXCEPT ![o] = s]
      BY Zenon, <1>2, <1>13, <2>2 DEF DrainWait, DrainWoken, LockRpc, CallAt, RpcTypeOK
    <2> QED
      BY <1>10, <1>11, <2>1, <2>2, <2>3, Zenon
  <1>14. ASSUME NEW o \in Caller, CloseHistory(o) PROVE FALSE
    BY Zenon, <1>1, <1>14 DEF CloseHistory, Orderly
  <1>15. ASSUME NEW o \in Caller, WriteRequest(o)
         PROVE  Replies' /\ InFlight' <= drains' + Selecting'
    <2> DEFINE f == [kind |-> asks[o], of |-> call[o]]
    <2>1. /\ at[o] = "write" /\ Selecting = 0 /\ \A c \in Caller : ~Streaming(c)
      BY Zenon, <1>1, <1>3, <1>15, WriteAlone
    <2>2. Replies /\ InFlight <= drains
      BY SMTT(30), <1>2, <1>3, <1>4, <2>1 DEF EachIsTaken, Replies
    <2>3. asks[o] # "history" /\ at' = [at EXCEPT ![o] = "select"]
      BY Zenon, <1>1, <1>2, <1>3, <1>15 DEF WriteRequest, CallAt, Streaming, RpcTypeOK
    <2>4. Selecting' = 1
      BY Zenon, <1>2, <2>3 DEF Selecting, RpcTypeOK
    <2>5. /\ toDaemon' = Append(toDaemon, f)
          /\ UNCHANGED <<waits, toClient, reader, responses, history, drains>>
      BY <1>3, <1>15, Zenon DEF WriteRequest, chanVars
    <2>6. f \in Request /\ f.kind # "history"
      BY Zenon, <1>2, <2>3 DEF Request, RpcTypeOK
    <2> HIDE DEF f
    <2>7. toDaemon \in Seq(Request)
      BY Zenon, <1>2 DEF RpcTypeOK
    <2>8. /\ Len(toDaemon') = Len(toDaemon) + 1
          /\ \A i \in 1..Len(toDaemon) : toDaemon'[i] = toDaemon[i]
          /\ toDaemon'[Len(toDaemon) + 1] = f
      BY SMTT(30), <2>5, <2>6, <2>7, AppendProperties
    <2>9. Replies'
      <3>1. Len(toDaemon) \in Nat /\ toDaemon \in Seq(Request)
        BY <2>7
      <3>2. \A i \in 1..(Len(toDaemon) + 1) : toDaemon'[i].kind # "history"
        <4>1. SUFFICES ASSUME NEW i \in 1..(Len(toDaemon) + 1)
                       PROVE  toDaemon'[i].kind # "history"
          BY Zenon
        <4>2. i \in 1..Len(toDaemon) \/ i = Len(toDaemon) + 1
          BY <3>1
        <4> QED
          BY <2>2, <2>6, <2>8, <4>2, Zenon DEF Replies
      <3> QED
        BY <2>2, <2>5, <2>8, <3>2, Zenon DEF Replies
    <2>10. r' = r
      BY Zenon, <2>5 DEF r
    <2>11. InFlight' = InFlight + 1
      <3>1. /\ Len(toClient') = Len(toClient) /\ Len(responses') = Len(responses)
            /\ Cardinality(waits') = Cardinality(waits)
        BY <2>5, Zenon
      <3> QED
        BY ONLY SMTT(30), <1>4, <1>5, <1>6, <2>8, <2>10, <3>1
    <2>12. InFlight \in Nat /\ drains' = drains
      BY Zenon, <1>2, <2>5, NoneInFlight
    <2> QED
      BY SMTT(30), <1>4, <2>2, <2>4, <2>9, <2>11, <2>12
  <1>16. ASSUME NEW o \in Caller, ReceiveReply(o) \/ RequestTimeout(o)
         PROVE  Replies' /\ InFlight' <= drains' + Selecting'
    <2>1. /\ UNCHANGED <<toDaemon, waits, toClient, reader, history>>
          /\ at' = [at EXCEPT ![o] = "idle"] /\ at[o] = "select" /\ ~Streaming(o)
      BY Zenon, <1>16 DEF ReceiveReply, RequestTimeout, wireVars, chanVars, CallAt, Streaming
    <2>2. Replies /\ InFlight <= drains + Selecting
      BY <1>10, <2>1, Zenon
    <2>3. Replies' /\ r' = r
      BY Zenon, <2>1, <2>2 DEF Replies, r
    <2>4. \/ Len(responses') = Len(responses) - 1 /\ drains' = drains
          \/ responses' = responses /\ drains' = drains + 1
      <3>1. responses # <<>> => Len(Tail(responses)) = Len(responses) - 1
        BY Zenon, <1>2, QueueTypes DEF RpcTypeOK
      <3> QED
        BY Zenon, <1>8, <1>16, <3>1 DEF ReceiveReply, RequestTimeout, ReaderEnded, chanVars
    <2>5. \/ InFlight' = InFlight - 1 /\ drains' = drains
          \/ InFlight' = InFlight /\ drains' = drains + 1
      <3>1. CASE Len(responses') = Len(responses) - 1 /\ drains' = drains
        BY <1>4, <1>5, <1>6, <2>1, <2>3, <3>1
      <3>2. CASE responses' = responses /\ drains' = drains + 1
        BY Zenon, <1>4, <1>5, <1>6, <2>1, <2>3, <3>2
      <3> QED
        BY Zenon, <2>4, <3>1, <3>2
    <2>6. InFlight \in Nat
      BY Zenon, <1>2, NoneInFlight
    <2> QED
      BY SMTT(30), <1>4, <1>7, <2>2, <2>3, <2>5, <2>6
  <1>17. ASSUME NEW o \in Caller, PickHistory(o) \/ ReadHistory(o)
         PROVE  Replies' /\ InFlight' <= drains' + Selecting'
    <2>1. Streaming(o) /\ UNCHANGED <<toDaemon, waits, toClient, reader, drains>>
      BY <1>17, Zenon DEF PickHistory, ReadHistory, wireVars, Streaming
    <2>2. HistoryFlow(call[o]) /\ waits = {} /\ drains = 0
      BY Zenon, <1>2, <1>3, <2>1 DEF HistoryIsAlone
    <2>3. at'[o] = "idle"
      <3>1. ~Streaming(o)'
        BY Zenon, <1>1
      <3> QED
        BY Zenon, <1>2, <1>17, <3>1 DEF PickHistory, ReadHistory, CallAt, Streaming, RpcTypeOK
    <2>4. \/ /\ history # <<>> /\ Head(history).kind = "end"
             /\ history' = Tail(history) /\ UNCHANGED responses
          \/ responses # <<>> /\ responses' = Tail(responses) /\ UNCHANGED history
      BY Zenon, <1>2, <1>8, <1>17, <2>3
         DEF PickHistory, ReadHistory, CallAt, RpcTypeOK, ReaderEnded
    <2>5. /\ toDaemon = <<>> /\ toClient = <<>> /\ reader = Idle
          /\ history' = <<>> /\ responses' = <<>>
      <3> DEFINE n == call[o]
                 re == [kind |-> "reply", of |-> n]
                 ch == [kind |-> "chunk", of |-> n]
                 en == [kind |-> "end", of |-> n]
      <3>1. CASE responses # <<>>
        <4>1. /\ toDaemon = <<>> /\ toClient = <<>> /\ reader = Idle /\ responses = <<re>>
              /\ history = <<>>
          BY Zenon, <2>2, <3>1 DEF HistoryFlow
        <4> HIDE DEF re
        <4> QED
          BY Zenon, <2>4, <4>1, ShortSequences
      <3>2. CASE responses = <<>>
        <4>1. ch.kind # "end"
          BY Zenon
        <4>2. history # <<>> /\ Head(history).kind = "end" /\ history' = Tail(history)
          BY Zenon, <2>4, <3>2
        <4>3. /\ toDaemon = <<>>
              /\ \/ toClient = <<>> /\ reader = Idle /\ history = <<en>>
                 \/ history \in {<<ch>>, <<ch, en>>}
          BY Zenon, <2>2, <4>2 DEF HistoryFlow
        <4> HIDE DEF ch, en
        <4>4. history \notin {<<ch>>, <<ch, en>>}
          BY Zenon, <4>1, <4>2, ShortSequences
        <4> QED
          BY Zenon, <2>4, <3>2, <4>2, <4>3, <4>4, ShortSequences
      <3> QED
        BY Zenon, <3>1, <3>2
    <2>6. Replies' /\ r' = 0
      BY <2>1, <2>5 DEF Replies, r, Idle, Answer
    <2>7. Cardinality(waits') = 0 /\ Len(toDaemon') = 0 /\ Len(toClient') = 0
          /\ Len(responses') = 0
      BY Zenon, <2>1, <2>2, <2>5, FS_EmptySet
    <2>8. InFlight' = 0 /\ drains' = 0
      BY SMTT(30), <1>6, <2>1, <2>2, <2>6, <2>7
    <2>9. Selecting' \in Nat /\ drains' \in Nat /\ InFlight' \in Nat
      BY <1>7, <2>8
    <2>10. \A x, y, z \in Nat : x = 0 /\ y = 0 => x <= y + z
      OBVIOUS
    <2>11. InFlight' <= drains' + Selecting'
      BY <2>8, <2>9, <2>10, Zenon
    <2> QED
      BY Zenon, <2>6, <2>11
  <1>18. CASE DrainOne
    <2>1. /\ UNCHANGED <<toDaemon, waits, toClient, reader, history, done, linkUp>>
          /\ drains > 0 /\ drains' = drains - 1
          /\ \A c \in Caller : at'[c] = at[c] \/ (at[c] = "parked" /\ at'[c] = "woken")
      BY Zenon, <1>2, <1>18 DEF DrainOne, wireVars, RpcTypeOK
    <2>2. /\ \A c \in Caller : Streaming(c) => Streaming(c)'
          /\ Selecting' = Selecting
      BY <2>1, Zenon DEF Streaming, Selecting
    <2>3. Replies /\ InFlight <= drains + Selecting
      BY Zenon, <1>9, <2>2
    <2>4. ~done
      BY Zenon, <1>2, <1>3 DEF CallInStep
    <2>5. Len(responses') = Len(responses) - 1
      <3>1. responses # <<>> /\ responses' = Tail(responses)
        BY Zenon, <1>8, <1>18, <2>4 DEF DrainOne, ReaderEnded
      <3> QED
        BY Zenon, <1>2, <3>1, QueueTypes DEF RpcTypeOK
    <2>6. Replies' /\ r' = r
      BY Zenon, <2>1, <2>3 DEF Replies, r
    <2>7. InFlight' = InFlight - 1
      BY SMTT(30), <1>4, <1>5, <1>6, <2>1, <2>5, <2>6
    <2>8. InFlight \in Nat
      BY Zenon, <1>2, NoneInFlight
    <2> QED
      BY SMTT(30), <1>4, <2>1, <2>2, <2>3, <2>6, <2>7, <2>8
  <1>19. ASSUME UNCHANGED <<at, drains>>, Replies', InFlight' <= InFlight, InFlight' \in Nat
         PROVE  Replies' /\ InFlight' <= drains' + Selecting'
    <2>1. InFlight <= drains + Selecting /\ Selecting' = Selecting
      BY Zenon, <1>9, <1>19 DEF Streaming, Selecting
    <2>2. InFlight \in Nat
      BY Zenon, <1>2, NoneInFlight
    <2> QED
      BY SMTT(30), <1>4, <1>19, <2>1, <2>2
  <1>20. InFlight' \in Nat /\ InFlight \in Nat
    <2>1. RpcTypeOK'
      BY Zenon, <1>2, RpcTypeStep
    <2> QED
      BY Zenon, <1>2, <2>1, InFlightType, InFlightTypeNext
  <1>21. ASSUME UNCHANGED at PROVE Replies
    BY Zenon, <1>9, <1>21 DEF Streaming
  <1>22. CASE ReadControl
    <2>1. /\ reader.kind = "none" /\ toClient # <<>> /\ reader' = Head(toClient)
          /\ toClient' = Tail(toClient)
          /\ UNCHANGED <<at, drains, toDaemon, waits, responses, history>>
      BY Zenon, <1>3, <1>22 DEF ReadControl
    <2>2. toClient \in Seq(Answer)
      BY Zenon, <1>2 DEF RpcTypeOK
    <2>3. /\ reader' \in Answer /\ reader' = toClient[1] /\ Len(toClient') = Len(toClient) - 1
          /\ 1 \in 1..Len(toClient)
          /\ \A i \in 1..Len(toClient') : toClient'[i] = toClient[i + 1] /\ i + 1 \in 1..Len(toClient)
      BY <2>1, <2>2, QueueTypes
    <2>4. Replies'
      BY Zenon, <1>21, <2>1, <2>3 DEF Replies
    <2>5. r = 0 /\ r' = 1
      BY Zenon, <2>1, <2>3 DEF r, Answer
    <2>6. InFlight' = InFlight
      BY SMTT(30), <1>4, <1>5, <1>6, <2>1, <2>3, <2>5
    <2> QED
      BY SMTT(30), <1>19, <1>20, <2>1, <2>4, <2>6
  <1>23. CASE Demux
    <2>1. /\ reader' = Idle /\ UNCHANGED <<at, drains, toDaemon, waits, toClient>>
          /\ reader.kind \in {"chunk", "end", "reply"}
          /\ reader.kind = "reply" => responses' = Append(responses, reader) /\ UNCHANGED history
      BY Zenon, <1>23 DEF Demux, wireVars, Idle
    <2>2. reader \in Answer /\ reader' \notin Answer
      BY Zenon, <1>2, <2>1 DEF RpcTypeOK, NoAnswer, Answer, Idle
    <2>3. reader.kind = "reply"
      BY Zenon, <1>21, <2>1 DEF Replies
    <2>4. Len(responses') = Len(responses) + 1
      BY SMTT(30), <1>2, <2>1, <2>2, <2>3, AppendProperties DEF RpcTypeOK
    <2>5. Replies'
      BY Zenon, <1>21, <2>1, <2>3 DEF Replies, Idle
    <2>6. r = 1 /\ r' = 0
      BY Zenon, <2>2 DEF r
    <2>7. InFlight' = InFlight
      BY SMTT(30), <1>4, <1>5, <1>6, <2>1, <2>4, <2>6
    <2> QED
      BY SMTT(30), <1>19, <1>20, <2>1, <2>5, <2>7
  <1>24. CASE dispatch
    <2> DEFINE f == Head(toDaemon)
               re == [kind |-> "reply", of |-> f.of]
    <2>1. /\ toDaemon # <<>> /\ toDaemon' = Tail(toDaemon)
          /\ UNCHANGED <<at, drains, reader, responses, history>>
      BY Zenon, <1>24 DEF dispatch, chanVars
    <2>2. toDaemon \in Seq(Request) /\ toClient \in Seq(Answer) /\ IsFiniteSet(waits)
      BY Zenon, <1>2 DEF RpcTypeOK
    <2>3. /\ f \in Request /\ f = toDaemon[1] /\ Len(toDaemon') = Len(toDaemon) - 1
          /\ 1 \in 1..Len(toDaemon)
          /\ \A i \in 1..Len(toDaemon') : toDaemon'[i] = toDaemon[i + 1] /\ i + 1 \in 1..Len(toDaemon)
      BY <2>1, <2>2, QueueTypes
    <2>4. f.kind # "history"
      BY Zenon, <1>21, <2>1, <2>3 DEF Replies
    <2>5. \/ toClient' = Append(toClient, re) /\ waits' = waits
          \/ waits' = waits \cup {f.of} /\ toClient' = toClient
      BY Zenon, <1>24, <2>4 DEF dispatch
    <2>6. re \in Answer /\ re.kind = "reply"
      BY Zenon, <2>3 DEF Request, Answer
    <2>7. r' = r
      BY Zenon, <2>1 DEF r
    <2> HIDE DEF f, re
    <2>8. /\ Len(Append(toClient, re)) = Len(toClient) + 1
          /\ \A i \in 1..Len(toClient) : Append(toClient, re)[i] = toClient[i]
          /\ Append(toClient, re)[Len(toClient) + 1] = re
      BY SMTT(30), <2>2, <2>6, AppendProperties
    <2>9. Replies'
      <3>1. \A i \in 1..Len(toClient') : toClient'[i].kind = "reply"
        <4>1. \A i \in 1..Len(toClient) : toClient[i].kind = "reply"
          BY Zenon, <1>21, <2>1 DEF Replies
        <4>2. CASE toClient' = Append(toClient, re)
          BY SMTT(30), <1>4, <2>6, <2>8, <4>1, <4>2
        <4> QED
          BY Zenon, <2>5, <4>1, <4>2
      <3> QED
        BY Zenon, <1>21, <2>1, <2>3, <3>1 DEF Replies
    <2>10. Cardinality(waits \cup {f.of}) \in {Cardinality(waits), Cardinality(waits) + 1}
      BY <2>2, FS_AddElement, Zenon
    <2>11. InFlight' <= InFlight
      <3>1. CASE toClient' = Append(toClient, re) /\ waits' = waits
        BY SMTT(30), <1>4, <1>5, <1>6, <2>1, <2>3, <2>7, <2>8, <3>1
      <3>2. CASE waits' = waits \cup {f.of} /\ toClient' = toClient
        BY SMTT(30), <1>4, <1>5, <1>6, <2>1, <2>3, <2>7, <2>10, <3>2
      <3> QED
        BY Zenon, <2>5, <3>1, <3>2
    <2> QED
      BY Zenon, <1>19, <1>20, <2>1, <2>9, <2>11
  <1>25. ASSUME NEW m \in 1..MaxCalls, answerWait(m)
         PROVE  Replies' /\ InFlight' <= drains' + Selecting'
    <2> DEFINE e == [kind |-> "reply", of |-> m]
    <2>1. /\ m \in waits /\ waits' = waits \ {m} /\ toClient' = Append(toClient, e)
          /\ UNCHANGED <<at, drains, toDaemon, reader, responses, history>>
      BY Zenon, <1>25 DEF answerWait, chanVars
    <2>2. toClient \in Seq(Answer) /\ IsFiniteSet(waits) /\ m \in Nat
      BY Zenon, <1>2, <2>1 DEF RpcTypeOK
    <2>3. e \in Answer /\ e.kind = "reply"
      BY Zenon, <2>2 DEF Answer
    <2> HIDE DEF e
    <2>4. /\ Len(toClient') = Len(toClient) + 1
          /\ \A i \in 1..Len(toClient) : toClient'[i] = toClient[i]
          /\ toClient'[Len(toClient) + 1] = e
      BY <2>1, <2>2, <2>3, AppendProperties
    <2>5. Cardinality(waits') = Cardinality(waits) - 1
      BY <2>1, <2>2, FS_RemoveElement, Zenon
    <2>6. Replies'
      BY SMTT(30), <1>4, <1>21, <2>1, <2>3, <2>4 DEF Replies
    <2>7. r' = r
      BY Zenon, <2>1 DEF r
    <2>8. InFlight' = InFlight
      <3>1. Len(toDaemon') = Len(toDaemon) /\ Len(responses') = Len(responses)
        BY <2>1, Zenon
      <3>2. InFlight' = Len(toDaemon) + (Cardinality(waits) - 1) + (Len(toClient) + 1)
                        + r + Len(responses)
        BY <1>6, <2>4, <2>5, <2>7, <3>1, Zenon
      <3>3. \A d, w, t, x, p \in Nat : d + (w - 1) + (t + 1) + x + p = d + w + t + x + p
        OBVIOUS
      <3>4. r \in Nat
        BY SMTT(30), <1>4
      <3>5. Len(toDaemon) + (Cardinality(waits) - 1) + (Len(toClient) + 1) + r + Len(responses)
            = Len(toDaemon) + Cardinality(waits) + Len(toClient) + r + Len(responses)
        BY SMTT(30), <1>4, <3>3, <3>4
      <3> QED
        BY <1>5, <3>2, <3>5, Zenon
    <2> QED
      BY <1>19, <1>20, <2>1, <2>6, <2>8
  <1>26. ASSUME CloseClient \/ LoseLink PROVE FALSE
    BY Zenon, <1>1, <1>26 DEF CloseClient, LoseLink
  <1> QED
    BY Zenon, <1>12, <1>13, <1>14, <1>15, <1>16, <1>17, <1>18, <1>22, <1>23, <1>24, <1>25, <1>26
       DEF RpcNext, Proceed, ReaderStep

(* The invariant holds whatever is scheduled.                              *)
LEMMA RpcInvariance == RpcInit /\ [][RpcNext]_clientVars => []RpcInv
  <1>1. RpcInv /\ [RpcNext]_clientVars => RpcInv'
    <2> SUFFICES ASSUME RpcInv, [RpcNext]_clientVars PROVE RpcInv'
      BY Zenon
    <2>1. CASE RpcNext
      <3>1. RpcTypeOK' /\ CallInStep' /\ NoneToDrain'
        BY Zenon, <2>1, RpcTypeStep, CallInStepStep, NoneToDrainStep DEF RpcInv
      <3> QED
        BY Zenon, <2>1, <3>1, EachIsTakenStep, HistoryIsAloneStep, OnlyOwnStep, AnswerIsOwnStep
           DEF RpcInv
    <2>2. CASE UNCHANGED clientVars
      <3>1. RpcTypeOK' /\ CallInStep' /\ NoneToDrain' /\ AnswerIsOwn'
        BY Zenon, <2>2 DEF RpcInv, RpcTypeOK, CallInStep, NoneToDrain, AnswerIsOwn, LetThrough,
           ReaderEnded, clientVars
      <3>2. EachIsTaken'
        BY <2>2, Zenon DEF RpcInv, EachIsTaken, InFlight, Selecting, Streaming, Orderly, clientVars
      <3>3. HistoryIsAlone'
        BY <2>2, Zenon DEF RpcInv, HistoryIsAlone, HistoryFlow, Streaming, AwaitsReply, Orderly, clientVars
      <3>4. OnlyOwn'
        BY <2>2, Zenon DEF RpcInv, OnlyOwn, AllOf, Streaming, Orderly, clientVars
      <3> QED
        BY Zenon, <3>1, <3>2, <3>3, <3>4 DEF RpcInv
    <2> QED
      BY Zenon, <2>1, <2>2
  <1> QED
    BY RpcInitHolds, <1>1, PTL

(* For any number of callers, calls and drains, and any capacity of the    *)
(* history channel: the answer a call of pkg/client returns is its own,    *)
(* whatever timed out before it, but for the three cases the property      *)
(* names.                                                                  *)
THEOREM AnswerIsOwnCorrect == RpcSpec => []AnswerIsOwn
  <1>1. RpcInv => AnswerIsOwn
    BY Zenon DEF RpcInv
  <1> QED
    BY RpcInvariance, <1>1, PTL DEF RpcSpec
====
