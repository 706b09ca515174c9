-------------------------------- MODULE Cli ---------------------------------
(***************************************************************************)
(* Programs that use the daemon: the commands of cmd/wmux and              *)
(* cmd/wmux-tmux and programs that call one method of pkg/client, one      *)
(* process and one control connection each.  A command dials, sends one    *)
(* request, reads the reply and turns it into its exit code; attach and    *)
(* history go on reading, and capture-pane detaches after its attach.      *)
(* Printing and the parsing of arguments are left out; wait, record and    *)
(* events send requests that have modules of their own.                    *)
(***************************************************************************)
EXTENDS Requests

CONSTANTS Runs   \* the commands the processes are started with: functions on Client

VARIABLES cmd,   \* the command of each process
          at,    \* where it is: "dial", "read", "leave", "dump", "stream", "ended"
          code,  \* its exit code
          cut    \* history: it ended without a reply to go by

progVars == <<cmd, at, code, cut>>
cliVars == <<vars, requestVars, progVars>>

CliInit ==
    /\ RequestInit
    /\ cmd \in Runs
    /\ at = [c \in Client |-> "dial"]
    /\ code = [c \in Client |-> 0]
    /\ cut = {}

To(c, where) == at' = [at EXCEPT ![c] = where]

\* The process ends with an exit code; its connections close with it.
Quit(c, n) == To(c, "ended") /\ code' = [code EXCEPT ![c] = n]

\* dialDaemon, and dialStream for attach: the handshake needs a daemon.
dialDaemon(c) == at[c] = "dial" /\ up

\* The frame is written, with one of the given sets of IDs.
sendRequest(c, op, targets) ==
    /\ dialDaemon(c)
    /\ \E ids \in targets : ask' = [ask EXCEPT ![c] = [op |-> op, ids |-> ids]]
    /\ To(c, "read")
    /\ UNCHANGED <<vars, out, workVars, size, meta, up, stopping, tellVars, cmd, code, cut>>

\* The daemon is gone before the dial or before the write.
dialFails(c) ==
    /\ at[c] = "dial" /\ ~up
    /\ Quit(c, 1)
    /\ cut' = cut \cup {c}
    /\ UNCHANGED <<vars, requestVars, cmd>>

AnId == {{i} : i \in Id}
NoIds == {{}}

\* The next frame for c, which is at where.
Reads(c, where) ==
    /\ at[c] = where
    /\ out[c] # <<>>
    /\ out' = [out EXCEPT ![c] = Tail(@)]
    /\ UNCHANGED <<vars, workVars, size, meta, up, stopping, tellVars, cmd, cut>>

Reply(c) == Head(out[c])

checkError(f) == f.type = "error"

\* An error among the results is an error of the command.
printExecSyncResults(f) == f.bad

\* The reply of a single request decides the exit code.
readReply(c) ==
    /\ Reads(c, "read")
    /\ Quit(c, IF checkError(Reply(c)) THEN 1 ELSE 0)
    /\ UNCHANGED ask

readResults(c) ==
    /\ Reads(c, "read")
    /\ Quit(c, IF checkError(Reply(c)) \/ printExecSyncResults(Reply(c)) THEN 1 ELSE 0)
    /\ UNCHANGED ask

(* pkg/client: a method is one request and its reply.                      *)

ClientCreate(c) == sendRequest(c, "create", AnId) \/ readReply(c)
ClientKill(c) == sendRequest(c, "kill", AnId) \/ readReply(c)
ClientWrite(c) == sendRequest(c, "input", AnId) \/ readReply(c)
ClientResize(c) == sendRequest(c, "resize", AnId) \/ readReply(c)
ClientUpdateEmulatorScrollback(c) == sendRequest(c, "scrollback", AnId) \/ readReply(c)
ClientList(c) == sendRequest(c, "list", NoIds) \/ readReply(c)
ClientInfo(c) == sendRequest(c, "info", AnId) \/ readReply(c)
ClientExec(c) == sendRequest(c, "exec", AnId) \/ readReply(c)
ClientMetaSet(c) == sendRequest(c, "metaSet", AnId) \/ readReply(c)
ClientMetaGet(c) == sendRequest(c, "metaGet", AnId) \/ readReply(c)

(* cmd/wmux                                                                *)

cmdCreate(c) == cmd[c] = "create" /\ (sendRequest(c, "create", AnId) \/ readReply(c))
cmdDetach(c) == cmd[c] = "detach" /\ (sendRequest(c, "detach", AnId) \/ readReply(c))
cmdKill(c) == cmd[c] = "kill" /\ (sendRequest(c, "kill", AnId) \/ readReply(c))
cmdKillPrefix(c) == cmd[c] = "killPrefix" /\ (sendRequest(c, "killPrefix", NoIds) \/ readResults(c))
cmdList(c) == cmd[c] = "list" /\ (sendRequest(c, "list", NoIds) \/ readReply(c))
cmdInfo(c) == cmd[c] = "info" /\ (sendRequest(c, "info", AnId) \/ readReply(c))
cmdStatus(c) == cmd[c] = "status" /\ (sendRequest(c, "status", NoIds) \/ readReply(c))

execSingle(c) == cmd[c] = "exec" /\ (sendRequest(c, "exec", AnId) \/ readReply(c))
execSync(c) == cmd[c] = "execSync" /\ (sendRequest(c, "execSync", {Id}) \/ readResults(c))
execPrefix(c) == cmd[c] = "execPrefix" /\ (sendRequest(c, "execPrefix", NoIds) \/ readResults(c))

\* The flags of exec choose one of three requests.
cmdExec(c) == execSingle(c) \/ execSync(c) \/ execPrefix(c)

\* cmdAttach: once attached, the goroutine that forwards stdin waits for the
\* reply to each frame.
cmdAttach(c) ==
    /\ cmd[c] = "attach"
    /\ \/ sendRequest(c, "attach", AnId)
       \/ /\ Reads(c, "read")
          /\ IF checkError(Reply(c)) THEN Quit(c, 1) ELSE To(c, "stream") /\ UNCHANGED code
          /\ UNCHANGED ask

typeInput(c) ==
    \/ /\ at[c] = "stream" /\ ask[c] = Nothing /\ out[c] = <<>> /\ up
       /\ ask' = [ask EXCEPT ![c] = [op |-> "input", ids |-> {clientSession[c]}]]
       /\ UNCHANGED <<vars, out, workVars, size, meta, up, stopping, tellVars, progVars>>
    \/ Reads(c, "stream") /\ UNCHANGED <<ask, at, code>>

\* cmdHistory looks for an error in the first frame only, and then reads on
\* until an end comes.
cmdHistory(c) ==
    /\ cmd[c] = "history"
    /\ \/ sendRequest(c, "history", AnId)
       \/ /\ Reads(c, "read")
          /\ IF checkError(Reply(c)) THEN Quit(c, 1) ELSE To(c, "dump") /\ UNCHANGED code
          /\ UNCHANGED ask
       \/ /\ Reads(c, "dump")
          /\ IF Reply(c).type = "end" THEN Quit(c, 0) ELSE UNCHANGED <<at, code>>
          /\ UNCHANGED ask

(* cmd/wmux-tmux                                                           *)

cmdNewSession(c) == cmd[c] = "new-session" /\ ClientCreate(c)
cmdSendKeys(c) == cmd[c] = "send-keys" /\ ClientExec(c)
cmdKillSession(c) == cmd[c] = "kill-session" /\ ClientKill(c)
cmdListSessions(c) == cmd[c] = "list-sessions" /\ ClientList(c)
cmdHasSession(c) == cmd[c] = "has-session" /\ ClientInfo(c)

\* cmdCapturePane: Attach for its snapshot, then Detach, whose error is
\* ignored.
cmdCapturePane(c) ==
    /\ cmd[c] = "capture-pane"
    /\ \/ sendRequest(c, "attach", AnId)
       \/ /\ Reads(c, "read")
          /\ IF checkError(Reply(c))
             THEN Quit(c, 1) /\ UNCHANGED ask
             ELSE /\ To(c, "leave")
                  /\ ask' = [ask EXCEPT ![c] = [op |-> "detach", ids |-> {clientSession[c]}]]
                  /\ UNCHANGED code
       \/ Reads(c, "leave") /\ Quit(c, 0) /\ UNCHANGED ask

(* Other programs                                                          *)

callMethod(c) ==
    \/ cmd[c] = "write" /\ ClientWrite(c)
    \/ cmd[c] = "resize" /\ ClientResize(c)
    \/ cmd[c] = "scrollback" /\ ClientUpdateEmulatorScrollback(c)
    \/ cmd[c] = "metaSet" /\ ClientMetaSet(c)
    \/ cmd[c] = "metaGet" /\ ClientMetaGet(c)
    \/ cmd[c] = "shutdown" /\ (sendRequest(c, "shutdown", NoIds) \/ readReply(c))

main(c) ==
    \/ cmdCreate(c) \/ cmdAttach(c) \/ cmdDetach(c) \/ cmdKill(c) \/ cmdKillPrefix(c)
    \/ cmdList(c) \/ cmdInfo(c) \/ cmdStatus(c) \/ cmdExec(c) \/ cmdHistory(c)
    \/ cmdNewSession(c) \/ cmdSendKeys(c) \/ cmdCapturePane(c) \/ cmdKillSession(c)
    \/ cmdListSessions(c) \/ cmdHasSession(c)
    \/ callMethod(c)

\* The programs whose requests go through pkg/client, which gives up on a
\* reply after rpcTimeout.
Impatient == {"new-session", "send-keys", "capture-pane", "kill-session", "list-sessions",
              "has-session", "write", "resize", "scrollback", "metaSet", "metaGet"}

-----------------------------------------------------------------------------
\* A connection that ends: attach and history end well, the others fail.
connectionEnds(c) ==
    /\ ~up
    /\ at[c] \in {"read", "dump", "leave", "stream"}
    /\ out[c] = <<>>
    /\ Quit(c, IF at[c] = "read" THEN 1 ELSE 0)
    /\ cut' = cut \cup {c}
    /\ UNCHANGED <<vars, requestVars, cmd>>

\* sendRequest of pkg/client times out; the daemon may act on the frame yet.
giveUp(c) ==
    /\ cmd[c] \in Impatient
    /\ at[c] \in {"read", "leave"}
    /\ Quit(c, IF at[c] = "read" THEN 1 ELSE 0)
    /\ cut' = cut \cup {c}
    /\ UNCHANGED <<vars, requestVars, cmd>>

\* The user interrupts a process that goes on reading.
interrupt(c) ==
    /\ at[c] \in {"dump", "stream"}
    /\ Quit(c, 2)
    /\ cut' = cut \cup {c}
    /\ UNCHANGED <<vars, requestVars, cmd>>

\* readControl meets the end of the connection after the frames before it.
hangUp(c) ==
    /\ up
    /\ at[c] = "ended"
    /\ ask[c] = Nothing
    /\ Disconnect(c)
    /\ UNCHANGED <<requestVars, progVars>>

-----------------------------------------------------------------------------
Program(c) == main(c) \/ dialFails(c) \/ connectionEnds(c)

Serve(c) == dispatch(c) /\ UNCHANGED progVars

CliNext ==
    \/ \E c \in Client :
          \/ Program(c) \/ typeInput(c) \/ giveUp(c) \/ interrupt(c)
          \/ Serve(c) \/ hangUp(c)
    \/ (SessionsMove \/ StopDaemon) /\ UNCHANGED progVars

\* A process, or the goroutine that serves it, goes on while it can.  Nobody
\* promises a keystroke, a timeout, an interrupt, a session's exit or a shutdown.
CliFairness ==
    /\ \A c \in Client : WF_cliVars(Program(c) \/ Serve(c) \/ hangUp(c))
    /\ WF_cliVars(StopDaemon /\ UNCHANGED progVars)

CliSpec == CliInit /\ [][CliNext]_cliVars /\ CliFairness

-----------------------------------------------------------------------------
Acting == {"create", "new-session", "kill", "kill-session", "killPrefix", "exec", "send-keys",
           "execSync", "execPrefix", "info", "has-session", "write", "metaSet", "metaGet"}

\* Each target was acted on under its ID, once.
AllReached(c) ==
    /\ goals[c] # {}
    /\ \A i \in goals[c] : \E h \in reached[c] : {k \in reached[c] : Sid[k] = i} = {h}

\* An exit code is true: a command that acts on sessions ends with 0 exactly
\* when it acted once on every session it named or its prefix matched, also
\* when sessions exit, are killed or are replaced while the daemon works; a
\* command that asks after a session ends with 0 exactly when there is one.
ExitCodeIsTrue ==
    \A c \in Client \ cut :
        (at[c] = "ended" /\ cmd[c] \in Acting) => (code[c] = 0 <=> AllReached(c))

\* The dump of a history command was empty.
EmptyDump(c) == at[c] = "dump" /\ out[c] = <<>> /\ cmd[c] = "history" /\ up

\* Every command ends, whatever sessions and daemon do, but for two: attach
\* goes on after its session has exited, and a history command whose dump has
\* no chunk takes the end of the dump for its first frame and waits for
\* another one.
CommandsEnd ==
    \A c \in Client :
        <>(at[c] \in {"ended", "stream"} \/ EmptyDump(c))

\* The maps of Attachments when a handler that has nothing to do with them
\* counts as reading.
Watching ==
    INSTANCE Attachments WITH
        handler <- [c \in Client |-> IF handler[c].pc \in HandlerPc THEN handler[c] ELSE Ready]

\* Whatever requests clients mix and whatever ends programs and daemon, the
\* attachment maps, the control goroutines and the session states take the
\* steps of Attachments only: what is proved of it holds here.
ImplementsAttachments == Watching!Spec
=============================================================================
