----------------------------- MODULE CmdTracker -----------------------------
(***************************************************************************)
(* The per-session state machine of internal/cmdlifecycle: what one OSC    *)
(* 133 marker does to a tracker, as operators on the tracker's fields.     *)
(* Timestamps and exit codes are left out; a command has a serial number   *)
(* in place of StartedAt, and end is 0 while it runs.                      *)
(***************************************************************************)
EXTENDS Naturals, Sequences

CONSTANTS
    MaxHistory,   \* Service.maxHistory
    NoCommand     \* a nil *Command

Command ==
    [n: Nat, start: Nat, end: Nat, orphan: {"", "missing_d_marker", "daemon_restart"}]

ASSUME HistoryAssumption == MaxHistory \in Nat \ {0} /\ NoCommand \notin Command

TrackerState == {"idle", "prompt_shown", "user_typing", "command_running"}

Tracker ==
    [state: TrackerState, current: Command \cup {NoCommand}, history: Seq(Command)]

Snapshot == [history: Seq(Command), inFlight: Command \cup {NoCommand}]

newTracker == [state |-> "idle", current |-> NoCommand, history |-> <<>>]

(* Mutation: the copy that makes room is missing.                          *)
appendHistoryOver(history, c) ==
    IF Len(history) = MaxHistory
    THEN [history EXCEPT ![MaxHistory] = c]
    ELSE Append(history, c)

appendHistory(history, c) ==
    IF Len(history) = MaxHistory THEN Append(Tail(history), c) ELSE Append(history, c)

openCommand(n, row) == [n |-> n, start |-> row, end |-> 0, orphan |-> ""]

(* The running command is closed, by its D marker or as an orphan.         *)
close(t, row, reason) ==
    [state |-> "idle", current |-> NoCommand,
     history |-> appendHistory(t.history,
                               [t.current EXCEPT !.end = row, !.orphan = reason])]

(* A marker other than D that meets a running command closes it first.     *)
orphaned(t, row) ==
    IF t.state = "command_running" THEN close(t, row, "missing_d_marker") ELSE t

(* handle: the tracker after marker code at a row; n numbers a command it  *)
(* may open.                                                               *)
handle(t, code, row, n) ==
    CASE code = "A" -> [orphaned(t, row) EXCEPT !.state = "prompt_shown"]
      [] code = "B" -> [orphaned(t, row) EXCEPT !.state = "user_typing"]
      [] code = "C" -> [orphaned(t, row) EXCEPT !.state = "command_running",
                                                !.current = openCommand(n, row)]
      [] code = "D" -> IF t.state = "command_running" THEN close(t, row, "") ELSE t
      [] OTHER -> t

(* Whether handle returns an EventCommandFinished.                         *)
finishes(t, code) ==
    t.state = "command_running" /\ code \in {"A", "B", "C", "D"}

snapshot(t) == [history |-> t.history, inFlight |-> t.current]

(* restore: what was in flight is closed as an orphan of the restart.      *)
restore(s) ==
    [newTracker EXCEPT !.history =
        IF s.inFlight = NoCommand THEN s.history
        ELSE appendHistory(s.history, [s.inFlight EXCEPT !.end = s.inFlight.start,
                                                         !.orphan = "daemon_restart"])]
=============================================================================
