------------------------------ MODULE Requests ------------------------------
(***************************************************************************)
(* The requests a daemon handles (internal/daemon/service.go), on top of   *)
(* Attachments: readControl of a client takes one frame at a time, runs    *)
(* its handler on the sessions of session.Service and writes the reply.    *)
(* A handler looks a session up under Service.mu and acts on what it found *)
(* after the unlock, so the session may have exited, or been killed and    *)
(* replaced under its ID, by then.  The handlers of the wait, record and   *)
(* event requests have modules of their own.                               *)
(*                                                                         *)
(* A request is an operation and the IDs it names; a reply is its type and *)
(* whether a result in it is an error.  The onExit callback changes        *)
(* nothing here, so Notify is left out.                                    *)
(***************************************************************************)
EXTENDS Attachments, Sequences

CONSTANTS Prefixed,   \* the IDs under the prefix that requests name
          SizeOf,     \* the terminal size each client asks for
          Configurable \* the emulators can change their scrollback

VARIABLES
    ask,        \* the frame each client has sent and the daemon not answered
    out,        \* the frames written for each client and not read
    left,       \* targets the handler has still to visit
    found,      \* the handle its last lookup found
    bad,        \* one of its results is an error
    size,       \* size of a handle's PTY and emulator and as recorded
    meta,       \* Session.Metadata: who set the key last
    up,         \* the daemon runs
    stopping,   \* a shutdown was asked for
    goals,      \* history: the sessions a request was to act on
    reached,    \* history: the handles it acted on
    overlapped  \* history: handles two resizes worked on at once

mapVars == <<attachments, clientSession, gone, historyVars>>
workVars == <<left, found, bad>>
tellVars == <<goals, reached, overlapped>>
requestVars == <<ask, out, workVars, size, meta, up, stopping, tellVars>>

Nothing == [op |-> "none", ids |-> {}]

\* Requests with one target are answered by an error when it fails; the others
\* tell of errors in their results.
OneId == {"attach", "detach", "kill", "resize", "input", "exec", "info", "metaSet",
          "metaGet", "scrollback", "history", "create"}

RequestInit ==
    /\ Init
    /\ ask = [c \in Client |-> Nothing]
    /\ out = [c \in Client |-> <<>>]
    /\ left = [c \in Client |-> {}]
    /\ found = [c \in Client |-> NoHandle]
    /\ bad = [c \in Client |-> FALSE]
    /\ size = [h \in Handle |-> [pty |-> 0, emu |-> 0, rec |-> 0]]
    /\ meta = [h \in Handle |-> {}]
    /\ up = TRUE
    /\ stopping = FALSE
    /\ goals = [c \in Client |-> {}]
    /\ reached = [c \in Client |-> {}]
    /\ overlapped = {}

The(S) == CHOOSE x \in S : TRUE

\* readControl has the frame of c and its handler starts.
Asked(c, op) == up /\ Reading(c) /\ ask[c].op = op

Named(c) == The(ask[c].ids)

Frame(type, isBad) == [type |-> type, bad |-> isBad]

Write(c, frames) ==
    /\ out' = [out EXCEPT ![c] = @ \o frames]
    /\ ask' = [ask EXCEPT ![c] = Nothing]

ok(c) == Write(c, <<Frame("ok", FALSE)>>)
errorFrame(c) == Write(c, <<Frame("error", FALSE)>>)

Known(i) == sessions[i] # NoHandle

Aim(c, ids) == goals' = [goals EXCEPT ![c] = ids]
Hit(c, h) == reached' = [reached EXCEPT ![c] = @ \cup {h}]

-----------------------------------------------------------------------------
(* Handlers with one critical section.                                     *)

\* Create of a free ID under the cap, or its error: a spawn may always fail.
handleCreate(c) ==
    /\ Asked(c, "create")
    /\ Aim(c, ask[c].ids)
    /\ \/ \E h \in Handle :
             Sid[h] = Named(c) /\ Create(h) /\ Hit(c, h) /\ ok(c)
       \/ errorFrame(c) /\ UNCHANGED <<regVars, reached>>
    /\ UNCHANGED <<daemonVars, workVars, size, meta, up, stopping, overlapped>>

handleList(c) ==
    /\ Asked(c, "list")
    /\ ok(c)
    /\ UNCHANGED <<vars, workVars, size, meta, up, stopping, tellVars>>

handleStatus(c) ==
    /\ Asked(c, "status")
    /\ ok(c)
    /\ UNCHANGED <<vars, workVars, size, meta, up, stopping, tellVars>>

\* The answer of a handler that only looks its session up.
Tell(c) ==
    /\ Aim(c, ask[c].ids)
    /\ \/ Known(Named(c)) /\ Hit(c, sessions[Named(c)]) /\ ok(c)
       \/ ~Known(Named(c)) /\ errorFrame(c) /\ UNCHANGED reached

handleInfo(c) ==
    /\ Asked(c, "info")
    /\ Tell(c)
    /\ UNCHANGED <<vars, workVars, size, meta, up, stopping, overlapped>>

\* Mutation: the watchers of the session are forgotten.
handleKillForgetting(c) ==
    /\ Asked(c, "kill")
    /\ Aim(c, ask[c].ids)
    /\ \/ /\ Kill(Named(c)) /\ Hit(c, sessions[Named(c)]) /\ ok(c)
          /\ attachments' = [attachments EXCEPT ![Named(c)] = {}]
       \/ /\ ~Known(Named(c)) /\ errorFrame(c)
          /\ UNCHANGED <<regVars, reached, attachments>>
    /\ UNCHANGED <<clientSession, handler, gone, historyVars, workVars, size, meta, up, stopping,
                   overlapped>>

handleKill(c) ==
    /\ Asked(c, "kill")
    /\ Aim(c, ask[c].ids)
    /\ \/ Kill(Named(c)) /\ Hit(c, sessions[Named(c)]) /\ ok(c)
       \/ ~Known(Named(c)) /\ errorFrame(c) /\ UNCHANGED <<regVars, reached>>
    /\ UNCHANGED <<daemonVars, workVars, size, meta, up, stopping, overlapped>>

MetaSet(i, who) ==
    /\ Known(i)
    /\ meta' = [meta EXCEPT ![sessions[i]] = {who}]

handleMetaSet(c) ==
    /\ Asked(c, "metaSet")
    /\ Aim(c, ask[c].ids)
    /\ \/ MetaSet(Named(c), c) /\ Hit(c, sessions[Named(c)]) /\ ok(c)
       \/ ~Known(Named(c)) /\ errorFrame(c) /\ UNCHANGED <<meta, reached>>
    /\ UNCHANGED <<vars, workVars, size, up, stopping, overlapped>>

handleMetaGet(c) ==
    /\ Asked(c, "metaGet")
    /\ Tell(c)
    /\ UNCHANGED <<vars, workVars, size, meta, up, stopping, overlapped>>

\* The emulator is asked after the lookup; what it does is its own affair.
UpdateEmulatorScrollback(i) == Known(i) /\ Configurable

handleUpdateEmulatorScrollback(c) ==
    /\ Asked(c, "scrollback")
    /\ IF UpdateEmulatorScrollback(Named(c)) THEN ok(c) ELSE errorFrame(c)
    /\ UNCHANGED <<vars, workVars, size, meta, up, stopping, tellVars>>

\* The dump of a session without an emulator is empty: its end comes first.
handleHistory(c) ==
    /\ Asked(c, "history")
    /\ \/ /\ Known(Named(c))
          /\ \E n \in 0..2 :
                Write(c, Append([k \in 1..n |-> Frame("chunk", FALSE)], Frame("end", FALSE)))
       \/ ~Known(Named(c)) /\ errorFrame(c)
    /\ UNCHANGED <<vars, workVars, size, meta, up, stopping, tellVars>>

handleShutdown(c) ==
    /\ Asked(c, "shutdown")
    /\ ok(c)
    /\ stopping' = TRUE
    /\ UNCHANGED <<vars, workVars, size, meta, up, tellVars>>

\* Stop after shutdownDelay; Serve returns and the process ends, and with it
\* every connection.
StopDaemon ==
    /\ up /\ stopping
    /\ up' = FALSE
    /\ UNCHANGED <<vars, ask, out, workVars, size, meta, stopping, tellVars>>

-----------------------------------------------------------------------------
(* handleAttach and handleDetach: the steps of Attachments and the reply.  *)

Replied(c) == IF handler'[c] = Ready THEN ok(c) ELSE UNCHANGED <<ask, out>>

handleAttach(c) ==
    /\ up
    /\ \/ /\ Asked(c, "attach")
          /\ \/ AttachGet(c, Named(c)) /\ UNCHANGED <<ask, out>>
             \/ ~Known(Named(c)) /\ errorFrame(c) /\ UNCHANGED vars
       \/ /\ AttachState(c)
          /\ IF handler'[c] = Ready THEN errorFrame(c) ELSE UNCHANGED <<ask, out>>
       \/ AttachRecord(c) /\ ok(c)
    /\ UNCHANGED <<workVars, size, meta, up, stopping, tellVars>>

handleDetach(c) ==
    /\ up
    /\ \/ Asked(c, "detach") /\ DetachLocked(c, Named(c)) /\ Replied(c)
       \/ c \notin gone /\ DetachState(c) /\ Replied(c)
       \/ c \in gone /\ DetachState(c) /\ UNCHANGED <<ask, out>>
    /\ UNCHANGED <<workVars, size, meta, up, stopping, tellVars>>

-----------------------------------------------------------------------------
(* handleInput, handleExec, handleExecSync, handleKillPrefix: a loop over  *)
(* targets, each looked up and acted on in turn.                           *)

sessionsByPrefix == Registered \cap Prefixed

\* Mutation: no targets, no reply.
TargetsSilent(c, ids, pc) ==
    /\ Aim(c, ids)
    /\ IF ids = {}
       THEN Write(c, <<>>) /\ UNCHANGED <<handler, left, bad>>
       ELSE /\ \E i \in ids : Continue(c, pc, i) /\ left' = [left EXCEPT ![c] = ids \ {i}]
            /\ bad' = [bad EXCEPT ![c] = FALSE]
            /\ UNCHANGED <<ask, out>>
    /\ UNCHANGED <<regVars, mapVars, found, size, meta, up,
                   stopping, reached, overlapped>>

\* The handler starts its loop on ids, or answers that there are none.
Targets(c, ids, pc) ==
    /\ Aim(c, ids)
    /\ IF ids = {}
       THEN errorFrame(c) /\ UNCHANGED <<handler, left, bad>>
       ELSE /\ \E i \in ids : Continue(c, pc, i) /\ left' = [left EXCEPT ![c] = ids \ {i}]
            /\ bad' = [bad EXCEPT ![c] = FALSE]
            /\ UNCHANGED <<ask, out>>
    /\ UNCHANGED <<regVars, mapVars, found, size, meta, up,
                   stopping, reached, overlapped>>

\* One target is done; the next one, or the reply.
NextTarget(c, failed, pc) ==
    IF left[c] = {}
    THEN /\ Finish(c)
         /\ IF ask[c].op \in OneId
            THEN IF failed THEN errorFrame(c) ELSE ok(c)
            ELSE Write(c, <<Frame("ok", bad[c] \/ failed)>>)
         /\ UNCHANGED <<left, bad>>
    ELSE /\ \E i \in left[c] : Continue(c, pc, i) /\ left' = [left EXCEPT ![c] = @ \ {i}]
         /\ bad' = [bad EXCEPT ![c] = @ \/ failed]
         /\ UNCHANGED <<ask, out>>

handleInput(c) == Asked(c, "input") /\ Targets(c, ask[c].ids, "lookup")
handleExec(c) == Asked(c, "exec") /\ Targets(c, ask[c].ids, "lookup")
handleExecSync(c) ==
    \/ Asked(c, "execSync") /\ Targets(c, ask[c].ids, "lookup")
    \/ Asked(c, "execPrefix") /\ Targets(c, sessionsByPrefix, "lookup")
handleKillPrefix(c) == Asked(c, "killPrefix") /\ Targets(c, sessionsByPrefix, "kill")

\* WriteInput: the lookup under mu ...
WriteLookup(c) ==
    /\ up
    /\ handler[c].pc = "lookup"
    /\ LET h == sessions[handler[c].id] IN
       \/ /\ h = NoHandle
          /\ NextTarget(c, TRUE, "lookup")
          /\ UNCHANGED found
       \/ /\ h # NoHandle
          /\ found' = [found EXCEPT ![c] = h]
          /\ Continue(c, "write", handler[c].id)
          /\ UNCHANGED <<ask, out, left, bad>>
    /\ UNCHANGED <<regVars, mapVars, size, meta, up,
                   stopping, tellVars>>

\* Mutation: the error of the write is dropped.
WritePtyBlind(c) ==
    /\ up
    /\ handler[c].pc = "write"
    /\ IF state[found[c]] \in Live THEN Hit(c, found[c]) ELSE UNCHANGED reached
    /\ NextTarget(c, FALSE, "lookup")
    /\ UNCHANGED <<regVars, mapVars, found, size, meta, up,
                   stopping, goals, overlapped>>

\* ... and the write to the PTY, which fails once the process was reaped.
WritePty(c) ==
    /\ up
    /\ handler[c].pc = "write"
    /\ IF state[found[c]] \in Live THEN Hit(c, found[c]) ELSE UNCHANGED reached
    /\ NextTarget(c, state[found[c]] \notin Live, "lookup")
    /\ UNCHANGED <<regVars, mapVars, found, size, meta, up,
                   stopping, goals, overlapped>>

\* One Kill of handleKillPrefix.
KillTarget(c) ==
    /\ up
    /\ handler[c].pc = "kill"
    /\ LET i == handler[c].id IN
       \/ Kill(i) /\ Hit(c, sessions[i]) /\ NextTarget(c, FALSE, "kill")
       \/ ~Known(i) /\ NextTarget(c, TRUE, "kill") /\ UNCHANGED <<regVars, reached>>
    /\ UNCHANGED <<mapVars, found, size, meta, up,
                   stopping, goals, overlapped>>

-----------------------------------------------------------------------------
(* handleResize: the lookup, the PTY, the emulator, the record.            *)

resizing(c) == handler[c].pc \in {"resizePty", "resizeEmu", "resizeRec"}

handleResize(c) ==
    /\ Asked(c, "resize")
    /\ LET h == sessions[Named(c)] IN
       \/ h = NoHandle /\ errorFrame(c) /\ UNCHANGED <<handler, found, overlapped>>
       \/ /\ h # NoHandle
          /\ found' = [found EXCEPT ![c] = h]
          /\ Continue(c, "resizePty", Named(c))
          /\ overlapped' = IF \E d \in Client : resizing(d) /\ found[d] = h
                           THEN overlapped \cup {h} ELSE overlapped
          /\ UNCHANGED <<ask, out>>
    /\ UNCHANGED <<regVars, mapVars, left, bad, size, meta,
                   up, stopping, goals, reached>>

ResizePty(c) ==
    /\ up
    /\ handler[c].pc = "resizePty"
    /\ \/ /\ state[found[c]] \in Live
          /\ size' = [size EXCEPT ![found[c]].pty = SizeOf[c]]
          /\ Continue(c, "resizeEmu", handler[c].id)
          /\ UNCHANGED <<ask, out>>
       \/ /\ state[found[c]] \notin Live
          /\ errorFrame(c)
          /\ Finish(c)
          /\ UNCHANGED size
    /\ UNCHANGED <<regVars, mapVars, workVars, meta, up,
                   stopping, tellVars>>

\* Mutation: the emulator keeps its size.
ResizeEmuNot(c) ==
    /\ up
    /\ handler[c].pc = "resizeEmu"
    /\ Continue(c, "resizeRec", handler[c].id)
    /\ UNCHANGED <<regVars, mapVars, ask, out, workVars, size, meta, up, stopping, tellVars>>

ResizeEmu(c) ==
    /\ up
    /\ handler[c].pc = "resizeEmu"
    /\ size' = [size EXCEPT ![found[c]].emu = SizeOf[c]]
    /\ Continue(c, "resizeRec", handler[c].id)
    /\ UNCHANGED <<regVars, mapVars, ask, out, workVars, meta, up, stopping, tellVars>>

ResizeRec(c) ==
    /\ up
    /\ handler[c].pc = "resizeRec"
    /\ size' = [size EXCEPT ![found[c]].rec = SizeOf[c]]
    /\ Finish(c)
    /\ ok(c)
    /\ UNCHANGED <<regVars, mapVars, workVars, meta, up, stopping, tellVars>>

-----------------------------------------------------------------------------
\* One step of the control goroutine of c.
dispatch(c) ==
    \/ handleCreate(c) \/ handleList(c) \/ handleStatus(c) \/ handleInfo(c) \/ handleKill(c)
    \/ handleMetaSet(c) \/ handleMetaGet(c) \/ handleUpdateEmulatorScrollback(c)
    \/ handleHistory(c) \/ handleShutdown(c) \/ handleAttach(c) \/ handleDetach(c)
    \/ handleInput(c) \/ handleExec(c) \/ handleExecSync(c) \/ handleKillPrefix(c)
    \/ WriteLookup(c) \/ WritePty(c) \/ KillTarget(c)
    \/ handleResize(c) \/ ResizePty(c) \/ ResizeEmu(c) \/ ResizeRec(c)

\* Sessions are created by others and exit on their own.
SessionsMove ==
    /\ up
    /\ \E h \in Handle : Create(h) \/ Exit(h)
    /\ UNCHANGED <<daemonVars, requestVars>>

-----------------------------------------------------------------------------
\* A session has one size: PTY, emulator and record agree whenever no resize
\* is at work on it, unless two resizes of it overlapped (Resize takes its
\* three steps without a lock).
SizesAgree ==
    \A h \in Handle \ overlapped :
        \/ size[h].pty = size[h].emu /\ size[h].emu = size[h].rec
        \/ \E c \in Client : resizing(c) /\ found[c] = h
=============================================================================
