------------------------------ MODULE Commands ------------------------------
(***************************************************************************)
(* Command history of one session ID, from the OSC 133 markers in its      *)
(* output to commands.json and back: the broadcaster's scanOSC with the    *)
(* line counter, cmdlifecycle.Service, the repository and the Writer       *)
(* goroutine with its temporary file, an orderly stop, a crash at any      *)
(* moment and the restore at the next start.                               *)
(*                                                                         *)
(* The sessions of the ID follow one another here; SessionResources is     *)
(* about sessions that overlap.                                            *)
(***************************************************************************)
EXTENDS CmdTracker, FiniteSets

CONSTANTS
    Chunk,        \* what a scanned chunk may hold, see ScanStart
    SharedRepo,   \* the Service saves to the daemon's own repository
    MaxCommands,  \* bound: commands opened
    MaxScans,     \* bound: chunks with markers scanned
    MaxStarts,    \* bound: starts of the daemon
    MaxCounters,  \* bound: line counters made, so also sessions
    NoTracker, NoFile, Torn

(* A sequence of ParseOSC: an OSC 133 marker or another code, and the      *)
(* newlines before it.                                                     *)
Segment == [nl: Nat, code: {"A", "B", "C", "D", "other"}]

ASSUME CommandsAssumption ==
    /\ Chunk \subseteq [segs: Seq(Segment), tail: Nat]
    /\ SharedRepo \in BOOLEAN
    /\ MaxCommands \in Nat /\ MaxScans \in Nat /\ MaxStarts \in Nat
    /\ MaxCounters \in Nat
    /\ NoTracker \notin Tracker
    /\ NoFile \notin Snapshot /\ Torn \notin Snapshot /\ Torn # NoFile

VARIABLES
    daemon,     \* "up", "stopping" or "down"
    life,       \* the session: which step of handleCreate or of OnExit is next
    tracker,    \* Service.trackers
    counter,    \* lineCounters: which object, 0 for none, and its value
    scan,       \* scanOSC of the broadcaster
    writer,     \* cmdRepository.writers and the Writer's goroutine
    file,       \* commands.json
    tmp,        \* commands.json.tmp
    dir,        \* the session has a directory
    closedLog,  \* history: the commands closed on this tracker
    swapped,    \* history: a scan or a command outlived its line counter
    dropped,    \* history: the last Save came before handleCreate had opened a Writer
    foreign,    \* history: the tracker met a file or a scan of another session
    next,       \* the next command's number
    scans, starts, objects   \* how many so far

ghostVars == <<closedLog, dropped, swapped, foreign>>
memVars == <<tracker, counter, scan, writer, life, ghostVars>>
diskVars == <<file, tmp, dir>>
boundVars == <<next, scans, starts, objects>>
vars == <<daemon, memVars, diskVars, boundVars>>

NoCounter == [object |-> 0, n |-> 0]
NewCounter == [object |-> objects + 1, n |-> 0]

NotScanning ==
    [pc |-> "idle", segs |-> <<>>, tail |-> 0, counter |-> NoCounter, save |-> NoFile]

NoWriter ==
    [listed |-> FALSE, closed |-> FALSE, pending |-> NoFile, notify |-> FALSE,
     armed |-> FALSE, data |-> NoFile, pc |-> "none", last |-> FALSE, awaited |-> FALSE,
     failed |-> FALSE]

NewWriter == [NoWriter EXCEPT !.listed = TRUE, !.pc = "select"]

Init ==
    /\ daemon = "up" /\ life = "none"
    /\ tracker = NoTracker /\ counter = NoCounter
    /\ scan = NotScanning /\ writer = NoWriter
    /\ file = NoFile /\ tmp = NoFile /\ dir = FALSE
    /\ closedLog = <<>> /\ dropped = FALSE /\ swapped = FALSE /\ foreign = FALSE
    /\ next = 1 /\ scans = 0 /\ starts = 1 /\ objects = 0

Running == daemon # "down"

-----------------------------------------------------------------------------
(* scanOSC, on the broadcaster's goroutine                                 *)

(* The commands a chunk may open; only for the bound.                      *)
opens(chunk) == Cardinality({i \in 1..Len(chunk.segs) : chunk.segs[i].code = "C"})

(* A chunk is what ParseOSC makes of it: its sequences in order, each with *)
(* the newlines between it and the one before, and the newlines after the  *)
(* last.  Without any sequence the function returns at once.               *)
ScanStart(chunk) ==
    /\ daemon = "up" /\ scan.pc = "idle"
    /\ life # "none"
    /\ scans < MaxScans /\ next + opens(chunk) <= MaxCommands + 1
    /\ IF chunk.segs = <<>> THEN UNCHANGED <<scan, scans>>
       ELSE /\ scan' = [NotScanning EXCEPT !.pc = "next", !.segs = chunk.segs,
                                           !.tail = chunk.tail, !.counter = counter]
            /\ scans' = scans + 1
    /\ UNCHANGED <<daemon, tracker, counter, writer, life, ghostVars, diskVars,
                   next, starts, objects>>

(* Newlines before a 133 marker are counted when the counter exists; those *)
(* before any other sequence go to the next one that counts.               *)
Advance(c, k) == IF c.object = 0 THEN c ELSE [c EXCEPT !.n = @ + k]

(* Mutation: the lines are counted for this chunk only.                    *)
SharedNot(c) == counter' = counter

(* The counter is shared with later scans unless it was replaced.          *)
Shared(c) == counter' = IF counter.object = c.object THEN c ELSE counter

(* A 133 marker: HandleOSC finds a tracker and advances it, or none.       *)
ScanMarker ==
    /\ Running /\ scan.pc = "next" /\ scan.segs # <<>>
    /\ LET seg == Head(scan.segs)
           c   == Advance(scan.counter, seg.nl)
           t   == IF tracker = NoTracker THEN tracker
                  ELSE handle(tracker, seg.code, c.n, next)
       IN  /\ seg.code # "other"
           /\ next' = IF seg.code = "C" THEN next + 1 ELSE next
           /\ tracker' = t
           /\ Shared(c)
           /\ IF tracker # NoTracker /\ finishes(tracker, seg.code)
              THEN /\ closedLog' = Append(closedLog, t.history[Len(t.history)])
                   /\ scan' = [scan EXCEPT !.counter = c, !.segs = Tail(@),
                                           !.pc = "save", !.save = snapshot(t)]
              ELSE /\ scan' = [scan EXCEPT !.counter = c, !.segs = Tail(@)]
                   /\ UNCHANGED closedLog
    /\ UNCHANGED <<daemon, writer, life, dropped, swapped, foreign, diskVars, scans, starts, objects>>

(* OSC 7, 9, 99 and 777 do not move the cursor.                            *)
ScanOther ==
    /\ Running /\ scan.pc = "next" /\ scan.segs # <<>>
    /\ Head(scan.segs).code = "other"
    /\ scan' = IF Len(scan.segs) = 1
               THEN [scan EXCEPT !.segs = <<>>, !.tail = @ + Head(scan.segs).nl]
               ELSE LET rest == Tail(scan.segs)
                    IN  [scan EXCEPT !.segs = [rest EXCEPT ![1].nl = @ + Head(scan.segs).nl]]
    /\ UNCHANGED <<daemon, tracker, counter, writer, life, ghostVars, diskVars, boundVars>>

(* Mutation: the state is kept but the goroutine is not told.              *)
UpdateQuiet(s) ==
    writer' = IF SharedRepo /\ writer.listed /\ ~writer.closed
              THEN [writer EXCEPT !.pending = s] ELSE writer

(* cmdRepository.Save and Writer.Update.                                   *)
Update(s) ==
    writer' = IF SharedRepo /\ writer.listed /\ ~writer.closed
              THEN [writer EXCEPT !.pending = s, !.notify = TRUE] ELSE writer

ScanSave ==
    /\ Running /\ scan.pc = "save"
    /\ Update(scan.save)
    /\ scan' = [scan EXCEPT !.pc = "next", !.save = NoFile]
    /\ dropped' = (life # "running")
    /\ UNCHANGED <<daemon, tracker, counter, life, closedLog, swapped, foreign, diskVars,
                   boundVars>>

ScanTail ==
    /\ Running /\ scan.pc = "next" /\ scan.segs = <<>>
    /\ Shared(Advance(scan.counter, scan.tail))
    /\ scan' = NotScanning
    /\ UNCHANGED <<daemon, tracker, writer, life, ghostVars, diskVars, boundVars>>

Scan == ScanMarker \/ ScanOther \/ ScanSave \/ ScanTail

-----------------------------------------------------------------------------
(* handleCreate and OnExit                                                 *)

(* Create and persistSessionCreate, which makes the directory.             *)
Create ==
    /\ daemon = "up" /\ life = "none"
    /\ objects < MaxCounters
    /\ life' = "register" /\ dir' = TRUE
    /\ UNCHANGED <<daemon, tracker, counter, scan, writer, ghostVars, file, tmp, boundVars>>

(* Register; ErrSessionExists is ignored, so that a restored history stays. *)
Register ==
    /\ daemon = "up" /\ life = "register" /\ life' = "counter"
    /\ IF tracker = NoTracker
       THEN /\ tracker' = newTracker /\ closedLog' = <<>> /\ dropped' = FALSE
            /\ foreign' = (file # NoFile \/ scan.pc # "idle")
            /\ swapped' = (swapped \/ scan.counter.object # 0)
       ELSE UNCHANGED <<tracker, ghostVars>>
    /\ UNCHANGED <<daemon, counter, scan, writer, diskVars, boundVars>>

AddCounter ==
    /\ daemon = "up" /\ life = "counter" /\ life' = "open"
    /\ counter' = NewCounter /\ objects' = objects + 1
    /\ swapped' = \/ swapped
                  \/ scan.counter.object # 0
                  \/ tracker.current # NoCommand /\ tracker.current.start > 0
    /\ UNCHANGED <<daemon, tracker, scan, writer, closedLog, dropped, foreign, diskVars,
                   next, scans, starts>>

(* cmdRepository.Open                                                      *)
OpenWriter ==
    /\ daemon = "up" /\ life = "open" /\ life' = "running"
    /\ writer' = IF writer.listed THEN writer ELSE NewWriter
    /\ UNCHANGED <<daemon, tracker, counter, scan, ghostVars, diskVars, boundVars>>

(* The process exits and OnExit begins.                                    *)
Exit ==
    /\ Running /\ life = "running" /\ life' = "unregister"
    /\ UNCHANGED <<daemon, tracker, counter, scan, writer, ghostVars, diskVars, boundVars>>

Unregister ==
    /\ Running /\ life = "unregister" /\ life' = "uncount"
    /\ tracker' = NoTracker
    /\ closedLog' = <<>> /\ dropped' = FALSE /\ foreign' = FALSE
    /\ UNCHANGED <<daemon, counter, scan, writer, swapped, diskVars, boundVars>>

DeleteCounter ==
    /\ Running /\ life = "uncount" /\ life' = "close"
    /\ counter' = NoCounter
    /\ UNCHANGED <<daemon, tracker, scan, writer, ghostVars, diskVars, boundVars>>

(* Writer.Close up to its wait for doneCh.                                 *)
Closing == [writer EXCEPT !.listed = FALSE, !.closed = TRUE]

(* cmdRepository.Close; nothing to do when the entry is gone.              *)
CloseWriter ==
    /\ Running /\ life = "close"
    /\ IF writer.listed THEN writer' = Closing /\ life' = "closing"
                        ELSE life' = "none" /\ UNCHANGED writer
    /\ UNCHANGED <<daemon, tracker, counter, scan, ghostVars, diskVars, boundVars>>

CloseDone ==
    /\ Running /\ life = "closing" /\ writer.pc = "done"
    /\ life' = "none"
    /\ writer' = NoWriter
    /\ UNCHANGED <<daemon, tracker, counter, scan, ghostVars, diskVars, boundVars>>

OnExit == Unregister \/ DeleteCounter \/ CloseWriter \/ CloseDone

-----------------------------------------------------------------------------
(* Writer.run and flushOnce                                                *)

WriterStep == Running /\ UNCHANGED <<daemon, life, tracker, counter, scan, ghostVars, dir, boundVars>>

(* A signal arms the debounce timer, unless it is armed.                   *)
RunNotify ==
    /\ WriterStep /\ UNCHANGED <<file, tmp>>
    /\ writer.pc = "select" /\ writer.notify
    /\ writer' = [writer EXCEPT !.notify = FALSE, !.armed = TRUE]

(* flushOnce: copy the state and open the temporary file, truncating it;   *)
(* nothing at all while there is no state.  w is the writer as the select  *)
(* left it.                                                                *)
FlushBegin(w) ==
    IF w.pending = NoFile
    THEN /\ writer' = [w EXCEPT !.pc = IF w.last THEN "done" ELSE "select"]
         /\ UNCHANGED <<file, tmp>>
    ELSE /\ writer' = [w EXCEPT !.data = w.pending, !.pc = "write"]
         /\ tmp' = Torn
         /\ UNCHANGED file

RunTimer ==
    /\ WriterStep
    /\ writer.pc = "select" /\ writer.armed
    /\ FlushBegin([writer EXCEPT !.armed = FALSE])

(* Mutation: the goroutine ends without a last flush.                      *)
RunCloseQuick ==
    /\ WriterStep /\ UNCHANGED <<file, tmp>>
    /\ writer.pc = "select" /\ writer.closed
    /\ writer' = [writer EXCEPT !.pc = "done"]

RunClose ==
    /\ WriterStep
    /\ writer.pc = "select" /\ writer.closed
    /\ FlushBegin([writer EXCEPT !.armed = FALSE, !.last = TRUE])

Flushed(w) ==
    [w EXCEPT !.data = NoFile, !.pc = IF w.last THEN "done" ELSE "select"]

(* os.WriteFile ends.                                                      *)
FlushWrite ==
    /\ WriterStep /\ UNCHANGED file
    /\ writer.pc = "write"
    /\ tmp' = writer.data
    /\ writer' = [writer EXCEPT !.pc = "rename"]

FlushRename ==
    /\ WriterStep
    /\ writer.pc = "rename"
    /\ file' = tmp /\ tmp' = NoFile
    /\ writer' = [Flushed(writer) EXCEPT !.failed = FALSE]

(* An error of WriteFile leaves the temporary file as it is, one of Rename *)
(* removes it; the goroutine goes on.                                      *)
FlushFails ==
    /\ WriterStep /\ UNCHANGED file
    /\ writer.pc \in {"write", "rename"}
    /\ tmp' = IF writer.pc = "rename" THEN NoFile ELSE tmp
    /\ writer' = [Flushed(writer) EXCEPT !.failed = TRUE]

WriterRun ==
    \/ RunNotify \/ RunTimer \/ RunClose \/ FlushWrite \/ FlushRename \/ FlushFails

-----------------------------------------------------------------------------
(* The end of the daemon, and the next start                               *)

(* Serve has returned: the context is cancelled, then CloseAll.            *)
Stop ==
    /\ daemon = "up" /\ daemon' = "stopping"
    /\ writer' = IF writer.listed THEN [Closing EXCEPT !.awaited = TRUE] ELSE writer
    /\ UNCHANGED <<tracker, counter, scan, life, ghostVars, diskVars, boundVars>>

(* All that is in memory is lost, and with the PTYs the sessions.          *)
Vanish ==
    /\ daemon' = "down"
    /\ tracker' = NoTracker /\ counter' = NoCounter /\ scan' = NotScanning
    /\ writer' = NoWriter /\ life' = "none"
    /\ closedLog' = <<>> /\ dropped' = FALSE /\ foreign' = FALSE
    /\ UNCHANGED <<swapped, diskVars, boundVars>>

(* Start returns once CloseAll has waited for the Writers it found; one    *)
(* that OnExit is closing is no longer among them.                         *)
Halt == daemon = "stopping" /\ (writer.awaited => writer.pc = "done") /\ Vanish

Crash == Running /\ Vanish

(* Mutation: what was in flight is forgotten.                              *)
LoadDropping == restore([file EXCEPT !.inFlight = NoCommand])

(* RestoreCommandsForSession on a file that parses.                        *)
Load == restore(file)

(* restoreCommandHistoriesAtStartup: a file that does not parse is skipped *)
(* with everything else of its session.                                    *)
Start ==
    /\ daemon = "down" /\ starts < MaxStarts
    /\ daemon' = "up" /\ starts' = starts + 1
    /\ IF ~dir \/ file = Torn
       THEN UNCHANGED <<tracker, counter, writer, objects, closedLog>>
       ELSE /\ counter' = NewCounter /\ objects' = objects + 1
            /\ writer' = NewWriter
            /\ IF file = NoFile
               THEN UNCHANGED <<tracker, closedLog>>
               ELSE tracker' = Load /\ closedLog' = Load.history
    /\ UNCHANGED <<scan, life, dropped, swapped, foreign, diskVars, next, scans>>

Next ==
    \/ \E chunk \in Chunk : ScanStart(chunk)
    \/ Scan
    \/ Create \/ Register \/ AddCounter \/ OpenWriter \/ Exit \/ OnExit
    \/ WriterRun
    \/ Stop \/ Halt \/ Crash \/ Start

Spec == Init /\ [][Next]_vars

(* The broadcaster and the Writer are goroutines that the runtime runs;    *)
(* disk errors, commands and the end of the daemon are not promised.       *)
FairSpec ==
    /\ Spec
    /\ WF_vars(Scan)
    /\ WF_vars(RunNotify \/ RunTimer \/ RunClose \/ FlushWrite \/ FlushRename)

-----------------------------------------------------------------------------
(* appendHistoryLocked keeps exactly the last maxHistory closed commands,  *)
(* in the order in which they were closed, through every restore.          *)
HistoryIsLatest ==
    tracker # NoTracker =>
        LET h == tracker.history
        IN  /\ Len(h) <= Len(closedLog)
            /\ Len(h) <= MaxHistory
            /\ Len(h) < MaxHistory => Len(h) = Len(closedLog)
            /\ \A i \in 1..Len(h) : h[i] = closedLog[Len(closedLog) - Len(h) + i]

(* A command never ends on a row before the one it started on, unless      *)
(* handleCreate replaced the line counter under it: the counter that       *)
(* restoreCommandHistoriesAtStartup made, or the one a scan still holds.   *)
RowsAdvance ==
    tracker # NoTracker /\ ~swapped =>
        \A i \in 1..Len(closedLog) :
            closedLog[i].orphan # "daemon_restart" => closedLog[i].end >= closedLog[i].start

Numbers(h) == {h[i].n : i \in 1..Len(h)}

InFlightNumber(c) == IF c = NoCommand THEN {} ELSE {c.n}

(* The commands a file speaks of.                                          *)
OnDisk ==
    IF file \in {NoFile, Torn} THEN {}
    ELSE Numbers(file.history) \cup InFlightNumber(file.inFlight)

(* Whenever the daemon dies, commands.json is absent or whole, and what it *)
(* lists the tracker knows, as long as its history has not evicted it: a   *)
(* restart forgets no command that reached the disk, the one in flight     *)
(* included.  Not so for a tracker that Register made new over the file,   *)
(* or under the late scan, of an earlier session of the ID.                *)
DiskIsKnown ==
    /\ file # Torn
    /\ tracker # NoTracker /\ ~foreign =>
          \A n \in OnDisk :
              \/ n \in Numbers(tracker.history) \cup InFlightNumber(tracker.current)
              \/ Len(tracker.history) = MaxHistory /\ n < tracker.history[1].n

(* A Writer that was closed has written the last state it accepted before  *)
(* Close returns: Update refuses what comes later, and the last flush      *)
(* takes what came before.                                                 *)
ClosedIsFlushed ==
    writer.pc = "done" /\ writer.pending # NoFile /\ ~writer.failed => file = writer.pending

(* The newest command the tracker closed is not in commands.json, though   *)
(* the Writer could still bring it there.                                  *)
Behind ==
    /\ daemon = "up" /\ life = "running" /\ ~writer.failed /\ ~dropped
    /\ tracker.history # <<>>
    /\ \A n \in OnDisk : n < tracker.history[Len(tracker.history)].n

(* A command that finishes reaches commands.json, with or before the ones  *)
(* after it, unless its session ends, the disk fails or the daemon stops   *)
(* first, or it finished before handleCreate opened the Writer.            *)
FinishedIsPersisted == Behind ~> ~Behind
=============================================================================
