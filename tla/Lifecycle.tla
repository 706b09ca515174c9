----------------------------- MODULE Lifecycle ------------------------------
(***************************************************************************)
(* How a daemon is started, found and stopped: client.New and startDaemon  *)
(* (pkg/client/client.go), Daemon.Serve (pkg/client/daemon.go), the token  *)
(* file (internal/platform/auth), the socket file (internal/platform/ipc)  *)
(* and the PID file (internal/daemon/pidfile.go).  Nothing locks the three *)
(* files: each is read, removed and written by path.  os.WriteFile         *)
(* truncates a file and then writes it, so a crash can leave it torn.      *)
(*                                                                         *)
(* A token is named after the process that generated it.                   *)
(***************************************************************************)
EXTENDS Naturals, FiniteSets

CONSTANTS Process,   \* daemon processes
          Starter,   \* programs that call client.New
          Absent,    \* no such file
          Torn       \* a token file that was truncated and not yet written

ASSUME LifeAssumption ==
    /\ Process \cap Starter = {}
    /\ {Absent, Torn} \cap (Process \cup Starter) = {}
    /\ Absent # Torn

VARIABLES tokenFile,  \* Absent, Torn, or the token in it
          socketFile, \* the daemon whose listener was bound to the path, or Absent
          pidFile,    \* the daemon it names, or Absent
          life,       \* where each daemon is in Serve
          token,      \* the token each daemon verifies
          new,        \* where each starter is in New
          tries,      \* number of connects it has begun
          carries,    \* the token it loaded
          peer,       \* the daemon it dialled
          excused,    \* history: starters whose poll ran into its deadline, or
                      \* under whose call of New a daemon stopped or crashed
          overlap     \* history: a daemon was to be started while another one was
                      \* starting or running

lifeVars == <<tokenFile, socketFile, pidFile, life, token, new, tries, carries, peer,
              excused, overlap>>
fileVars == <<tokenFile, socketFile, pidFile>>
starterVars == <<new, tries, carries, peer>>
eventVars == <<excused, overlap>>

LifeInit ==
    /\ tokenFile = Absent /\ socketFile = Absent /\ pidFile = Absent
    /\ life = [d \in Process |-> "unborn"]
    /\ token = [d \in Process |-> Absent]
    /\ new = [s \in Starter |-> "off"]
    /\ tries = [s \in Starter |-> 0]
    /\ carries = [s \in Starter |-> Absent]
    /\ peer = [s \in Starter |-> Absent]
    /\ excused = {} /\ overlap = FALSE

\* LoadFromFile succeeds: the file exists and has the size of a token.
Loadable == tokenFile \notin {Absent, Torn}

Over == {"unborn", "ended", "dead"}
Running == {d \in Process : life[d] \notin Over}
InNew == {s \in Starter : new[s] \notin {"off", "connected", "failed", "dead"}}
Starting == {s \in Starter : new[s] \in {"ensure", "create", "save", "spawn", "poll"}}
Unready == {d \in Process : life[d] \in {"ensure", "create", "save"}}

Listening(d) == d \in Process /\ life[d] \in {"pid", "serve"}

LifeTo(d, where) == life' = [life EXCEPT ![d] = where]
NewTo(s, where) == new' = [new EXCEPT ![s] = where]

-----------------------------------------------------------------------------
(* Daemon.Serve.                                                           *)

\* A process begins: somebody runs the daemon by hand, ...
Spawn ==
    \E d \in Process :
       /\ life[d] = "unborn"
       /\ d = CHOOSE u \in Process : life[u] = "unborn"
       /\ LifeTo(d, "ensure")

Launch ==
    /\ Spawn
    /\ overlap' = (overlap \/ Running # {} \/ Starting # {})
    /\ UNCHANGED <<fileVars, token, starterVars, excused>>

\* auth.Ensure: a token that can be loaded is used; otherwise one is
\* generated, ...
DaemonEnsure(d) ==
    /\ life[d] = "ensure"
    /\ \/ Loadable /\ token' = [token EXCEPT ![d] = tokenFile] /\ LifeTo(d, "listen")
       \/ ~Loadable /\ LifeTo(d, "create") /\ UNCHANGED token
    /\ UNCHANGED <<fileVars, starterVars, eventVars>>

\* ... SaveToFile truncates the file ...
DaemonCreate(d) ==
    /\ life[d] = "create"
    /\ tokenFile' = Torn
    /\ LifeTo(d, "save")
    /\ UNCHANGED <<socketFile, pidFile, token, starterVars, eventVars>>

\* ... and writes it.
DaemonSave(d) ==
    /\ life[d] = "save"
    /\ tokenFile' = d
    /\ token' = [token EXCEPT ![d] = d]
    /\ LifeTo(d, "listen")
    /\ UNCHANGED <<socketFile, pidFile, starterVars, eventVars>>

\* ipc.Listen removes whatever is at the path ...
Listen(d) ==
    /\ life[d] = "listen"
    /\ socketFile' = Absent
    /\ LifeTo(d, "bind")
    /\ UNCHANGED <<tokenFile, pidFile, token, starterVars, eventVars>>

\* ... and binds, which fails when another daemon was faster.
Bind(d) ==
    /\ life[d] = "bind"
    /\ \/ socketFile = Absent /\ socketFile' = d /\ LifeTo(d, "pid")
       \/ socketFile # Absent /\ LifeTo(d, "ended") /\ UNCHANGED socketFile
    /\ UNCHANGED <<tokenFile, pidFile, token, starterVars, eventVars>>

\* Mutation: a PID file that is there is kept.
WritePIDFileOnce(d) ==
    /\ life[d] = "pid"
    /\ pidFile' = IF pidFile = Absent THEN d ELSE pidFile
    /\ LifeTo(d, "serve")
    /\ UNCHANGED <<tokenFile, socketFile, token, starterVars, eventVars>>

\* Daemon.Start writes the PID file and serves.
WritePIDFile(d) ==
    /\ life[d] = "pid"
    /\ pidFile' = d
    /\ LifeTo(d, "serve")
    /\ UNCHANGED <<tokenFile, socketFile, token, starterVars, eventVars>>

\* A signal, a shutdown request or the caller cancels the context, and the
\* listener is closed: the library unlinks the path it was bound to.
CloseListener(d) ==
    /\ life[d] = "serve"
    /\ socketFile' = Absent
    /\ LifeTo(d, "closing")
    /\ excused' = excused \cup InNew
    /\ UNCHANGED <<tokenFile, pidFile, token, starterVars, overlap>>

\* Listener.Close removes the path once more, in its own goroutine.
RemoveSocket(d) ==
    /\ life[d] = "closing"
    /\ socketFile' = Absent
    /\ LifeTo(d, "removed")
    /\ UNCHANGED <<tokenFile, pidFile, token, starterVars, eventVars>>

\* Start removes the PID file and the process ends.
RemovePIDFile(d) ==
    /\ life[d] \in {"closing", "removed"}
    /\ pidFile' = Absent
    /\ LifeTo(d, "ended")
    /\ UNCHANGED <<tokenFile, socketFile, token, starterVars, eventVars>>

Crash(d) ==
    /\ d \in Running
    /\ LifeTo(d, "dead")
    /\ excused' = excused \cup InNew
    /\ UNCHANGED <<fileVars, token, starterVars, overlap>>

-----------------------------------------------------------------------------
(* client.New: connect; on any error startDaemon and connect once more.    *)

BeginNew(s) ==
    /\ new[s] = "off"
    /\ NewTo(s, "load")
    /\ tries' = [tries EXCEPT ![s] = 1]
    /\ UNCHANGED <<fileVars, life, token, carries, peer, eventVars>>

\* connect returns.
Returned(s) ==
    /\ carries' = [carries EXCEPT ![s] = Absent]
    /\ peer' = [peer EXCEPT ![s] = Absent]

\* connect failed: the first time a daemon is started, the second time New
\* returns the error.
Fail(s) ==
    /\ Returned(s)
    /\ NewTo(s, IF tries[s] = 1 THEN "ensure" ELSE "failed")
    /\ overlap' = (overlap \/ (tries[s] = 1 /\ (Starting # {} \/ Unready # {})))

ConnectLoad(s) ==
    /\ new[s] = "load"
    /\ \/ /\ Loadable
          /\ carries' = [carries EXCEPT ![s] = tokenFile]
          /\ NewTo(s, "dial")
          /\ UNCHANGED <<peer, overlap>>
       \/ ~Loadable /\ Fail(s)
    /\ UNCHANGED <<fileVars, life, token, tries, excused>>

ConnectDial(s) ==
    /\ new[s] = "dial"
    /\ \/ /\ Listening(socketFile)
          /\ peer' = [peer EXCEPT ![s] = socketFile]
          /\ NewTo(s, "auth")
          /\ UNCHANGED <<carries, overlap>>
       \/ ~Listening(socketFile) /\ Fail(s)
    /\ UNCHANGED <<fileVars, life, token, tries, excused>>

\* The handshake, and the stream and the subscription after it: they succeed
\* once the daemon serves, when the token is the one it verifies; a daemon
\* that ends closes the connection.
ConnectAuth(s) ==
    /\ new[s] = "auth"
    /\ \/ life[peer[s]] = "serve" /\ token[peer[s]] = carries[s]
          /\ Returned(s) /\ NewTo(s, "connected") /\ UNCHANGED overlap
       \/ life[peer[s]] = "serve" /\ token[peer[s]] # carries[s] /\ Fail(s)
       \/ life[peer[s]] \notin {"pid", "serve"} /\ Fail(s)
    /\ UNCHANGED <<fileVars, life, token, tries, excused>>

\* startDaemon: auth.Ensure in the starter ...
StartEnsure(s) ==
    /\ new[s] = "ensure"
    /\ NewTo(s, IF Loadable THEN "spawn" ELSE "create")
    /\ UNCHANGED <<fileVars, life, token, tries, carries, peer, eventVars>>

StartCreate(s) ==
    /\ new[s] = "create"
    /\ tokenFile' = Torn
    /\ NewTo(s, "save")
    /\ UNCHANGED <<socketFile, pidFile, life, token, tries, carries, peer, eventVars>>

StartSave(s) ==
    /\ new[s] = "save"
    /\ tokenFile' = s
    /\ NewTo(s, "spawn")
    /\ UNCHANGED <<socketFile, pidFile, life, token, tries, carries, peer, eventVars>>

\* ... the new process ...
StartSpawn(s) ==
    /\ new[s] = "spawn"
    /\ Spawn
    /\ NewTo(s, "poll")
    /\ overlap' = (overlap \/ Running # {})
    /\ UNCHANGED <<fileVars, token, tries, carries, peer, excused>>

\* Mutation: the path is enough, nobody has to listen there.
StartPollPath(s) ==
    /\ new[s] = "poll"
    /\ socketFile # Absent
    /\ NewTo(s, "load")
    /\ tries' = [tries EXCEPT ![s] = 2]
    /\ UNCHANGED <<fileVars, life, token, carries, peer, eventVars>>

\* ... and the poll of the socket until somebody listens there.
StartPoll(s) ==
    /\ new[s] = "poll"
    /\ Listening(socketFile)
    /\ NewTo(s, "load")
    /\ tries' = [tries EXCEPT ![s] = 2]
    /\ UNCHANGED <<fileVars, life, token, carries, peer, eventVars>>

\* "daemon did not start within 3s"
StartDeadline(s) ==
    /\ new[s] = "poll"
    /\ NewTo(s, "failed")
    /\ excused' = excused \cup {s}
    /\ UNCHANGED <<fileVars, life, token, tries, carries, peer, overlap>>

\* The starting program dies with its token half written.
StarterCrash(s) ==
    /\ s \in Starting
    /\ NewTo(s, "dead")
    /\ UNCHANGED <<fileVars, life, token, tries, carries, peer, eventVars>>

-----------------------------------------------------------------------------
ServeStep(d) ==
    DaemonEnsure(d) \/ DaemonCreate(d) \/ DaemonSave(d) \/ Listen(d) \/ Bind(d) \/ WritePIDFile(d)

NewStep(s) ==
    \/ ConnectLoad(s) \/ ConnectDial(s) \/ ConnectAuth(s)
    \/ StartEnsure(s) \/ StartCreate(s) \/ StartSave(s) \/ StartSpawn(s)
    \/ StartPoll(s) \/ StartDeadline(s)

StartNext ==
    \/ \E d \in Process :
          ServeStep(d) \/ CloseListener(d) \/ RemoveSocket(d) \/ RemovePIDFile(d) \/ Crash(d)
    \/ \E s \in Starter : BeginNew(s) \/ NewStep(s) \/ StarterCrash(s)

LifeNext == StartNext \/ Launch

LifeSpec == LifeInit /\ [][LifeNext]_lifeVars

-----------------------------------------------------------------------------
\* A daemon that serves can be found: the socket file is its own, the token
\* file holds the token it verifies and the PID file names it, whatever
\* crashed or stopped before it at any step, as long as no two starts or
\* daemons ever overlapped.
ServingIsReachable ==
    overlap \/ \A d \in Process : life[d] = "serve" =>
                  socketFile = d /\ pidFile = d /\ tokenFile = token[d]

\* New gives up only for a reason: its poll ran out, a daemon stopped or
\* crashed under it, or starts overlapped.  A token file torn by an earlier
\* crash and the socket and PID files a crash left are got over.
NewFailsForReason ==
    \A s \in Starter : new[s] = "failed" => s \in excused \/ overlap
=============================================================================
