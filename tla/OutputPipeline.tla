--------------------------- MODULE OutputPipeline ---------------------------
(***************************************************************************)
(* The way of one session's output from the PTY to the broadcaster:        *)
(*   child -> tty -> readLoop -> Batcher -> Buffer -> broadcastOutput      *)
(* and the two goroutines that tear it down, Kill and waitLoop.            *)
(* One action per critical section or channel operation of each goroutine. *)
(***************************************************************************)
EXTENDS Backpressure

CONSTANTS
    ReadChunk,       \* readChunkSize: bytes one PTY read can return
    FlushThreshold,  \* Batcher.flushThreshold
    EmuCap,          \* emulatorChanSize: capacity of the emulator channel
    DataReadyCap,    \* capacity of Daemon.dataReady
    MaxOutput        \* bound: bytes the child writes

ASSUME SizesPositive ==
    /\ ReadChunk \in Nat \ {0}
    /\ FlushThreshold \in Nat \ {0}
    /\ EmuCap \in Nat \ {0}
    /\ DataReadyCap \in Nat \ {0}
    /\ MaxOutput \in Nat

VARIABLES
    child,       \* "running" or "exited"
    tty,         \* bytes in the kernel's PTY; byte k is the k-th written
    ptyOpen,     \* process.Close has not run
    readPc,      \* readLoop: at the Paused check, in Read, or returned
    batch,       \* Batcher.buf
    flushSig,    \* Batcher.flush holds a signal (capacity 1)
    stopped,     \* Batcher.done is closed
    batchPc,     \* Batcher.loop: at the select, in onFlush, or returned
    flushing,    \* the bytes doFlush took, passed to onFlush
    buf,         \* Buffer.data, as module Buffer shows it to be
    dataReady,   \* signals for this session in Daemon.dataReady
    watched,     \* a client is attached or a waiter is listed
    castPc,      \* broadcastOutput: at the select, or about to ReadOutput
    registered,  \* the session is in Service.sessions
    drained,     \* history: bytes ReadOutput gave to the broadcaster
    emuCh,       \* chunks in emulatorCh
    emuClosed,   \* emulatorCh is closed
    screen,      \* the chunk Process got last
    waitPc,      \* waitLoop
    killPc,      \* Kill
    late         \* history: reads that returned since the buffer became paused

readVars == <<readPc, emuClosed, late>>
batchVars == <<batch, flushSig, batchPc, flushing>>
bufVars == <<buf, paused, dataReady>>
emuVars == <<emuCh, screen>>
downVars == <<ptyOpen, stopped, registered, waitPc, killPc>>
castVars == <<castPc, drained>>
vars == <<child, tty, readVars, batchVars, bufVars, watched, castVars,
          emuVars, downVars>>

Produced == Len(drained) + Len(buf) + Len(flushing) + Len(batch) + Len(tty)

Init ==
    /\ child = "running" /\ tty = <<>> /\ ptyOpen = TRUE
    /\ readPc = "check"
    /\ batch = <<>> /\ flushSig = FALSE /\ stopped = FALSE
    /\ batchPc = "select" /\ flushing = <<>>
    /\ buf = <<>> /\ paused = FALSE /\ dataReady = 0
    /\ watched = FALSE /\ registered = TRUE /\ castPc = "select" /\ drained = <<>>
    /\ emuCh = <<>> /\ emuClosed = FALSE /\ screen = <<>>
    /\ waitPc = "wait" /\ killPc = "idle"
    /\ late = 0

-----------------------------------------------------------------------------
(* The child process and the daemon's clients.                             *)

(* The child writes one byte to the PTY.                                   *)
ChildWrite ==
    /\ child = "running"
    /\ ptyOpen
    /\ Produced < MaxOutput
    /\ tty' = Append(tty, Produced + 1)
    /\ UNCHANGED <<child, readVars, batchVars, bufVars, watched, castVars,
                   emuVars, downVars>>

ChildExit ==
    /\ child = "running"
    /\ child' = "exited"
    /\ UNCHANGED <<tty, readVars, batchVars, bufVars, watched, castVars,
                   emuVars, downVars>>

(* Clients attach and detach, wait requests come and go.                   *)
AudienceChange ==
    /\ watched' = ~watched
    /\ UNCHANGED <<child, tty, readVars, batchVars, bufVars, castVars,
                   emuVars, downVars>>

-----------------------------------------------------------------------------
(* readLoop                                                                *)

(* The loop head: sleep and look again while the buffer is paused.         *)
LoopHead ==
    /\ readPc = "check"
    /\ ~paused
    /\ readPc' = "read"
    /\ UNCHANGED <<child, tty, emuClosed, late, batchVars, bufVars, watched,
                   castVars, emuVars, downVars>>

(* Batcher.Add(chunk), by the reader.                                      *)
Add(chunk) ==
    /\ batch' = batch \o chunk
    /\ flushSig' = (flushSig \/ Len(batch) + Len(chunk) >= FlushThreshold)
    /\ UNCHANGED <<batchPc, flushing>>

(* The non-blocking send on emulatorCh: a full channel drops the chunk.    *)
SendEmulator(chunk) ==
    /\ emuCh' = IF Len(emuCh) < EmuCap THEN Append(emuCh, chunk) ELSE emuCh
    /\ UNCHANGED screen

(* Mutation: after a read the loop reads again without looking at Paused.  *)
LoopReadAgain ==
    /\ readPc = "read"
    /\ ptyOpen
    /\ \E n \in 1..ReadChunk :
          /\ n <= Len(tty)
          /\ tty' = SubSeq(tty, n + 1, Len(tty))
          /\ Add(SubSeq(tty, 1, n))
          /\ SendEmulator(SubSeq(tty, 1, n))
    /\ readPc' = "read"
    /\ late' = IF paused THEN late + 1 ELSE late
    /\ UNCHANGED <<child, emuClosed, bufVars, watched, castVars, downVars>>

(* process.Read returned n > 0 bytes.                                      *)
LoopRead ==
    /\ readPc = "read"
    /\ ptyOpen
    /\ \E n \in 1..ReadChunk :
          /\ n <= Len(tty)
          /\ tty' = SubSeq(tty, n + 1, Len(tty))
          /\ Add(SubSeq(tty, 1, n))
          /\ SendEmulator(SubSeq(tty, 1, n))
    /\ readPc' = "check"
    /\ late' = IF paused THEN late + 1 ELSE late
    /\ UNCHANGED <<child, emuClosed, bufVars, watched, castVars, downVars>>

(* Mutation: the loop ends at end of file only, not on a closed master.    *)
LoopEndAtEof ==
    /\ readPc = "read"
    /\ child = "exited" /\ tty = <<>>
    /\ readPc' = "done"
    /\ emuClosed' = TRUE
    /\ UNCHANGED <<late, child, tty, batchVars, bufVars, watched, castVars,
                   emuVars, downVars>>

(* process.Read failed: the master is closed, or the child is gone and the *)
(* kernel has no more bytes.                                               *)
LoopEnd ==
    /\ readPc = "read"
    /\ ~ptyOpen \/ (child = "exited" /\ tty = <<>>)
    /\ readPc' = "done"
    /\ emuClosed' = TRUE
    /\ UNCHANGED <<late, child, tty, batchVars, bufVars, watched, castVars,
                   emuVars, downVars>>

(* Mutation: the newest chunk is processed first.                          *)
EmulatorNewest ==
    /\ emuCh # <<>>
    /\ screen' = emuCh[Len(emuCh)]
    /\ emuCh' = SubSeq(emuCh, 1, Len(emuCh) - 1)
    /\ UNCHANGED <<child, tty, readVars, batchVars, bufVars, watched,
                   castVars, downVars>>

(* emulatorLoop takes a chunk and processes it.                            *)
EmulatorLoop ==
    /\ emuCh # <<>>
    /\ screen' = Head(emuCh)
    /\ emuCh' = Tail(emuCh)
    /\ UNCHANGED <<child, tty, readVars, batchVars, bufVars, watched,
                   castVars, downVars>>

-----------------------------------------------------------------------------
(* Batcher.loop                                                            *)

(* The critical section of doFlush, with bytes to flush.                   *)
TakeBatch ==
    /\ flushing' = batch
    /\ batch' = <<>>
    /\ batchPc' = "flush"

(* case <-b.flush, or case <-ticker.C: doFlush returns at once when empty. *)
BatchSignal ==
    /\ batchPc = "select"
    /\ flushSig
    /\ flushSig' = FALSE
    /\ IF batch = <<>> THEN UNCHANGED <<batch, flushing, batchPc>> ELSE TakeBatch
    /\ UNCHANGED <<child, tty, readVars, bufVars, watched, castVars, emuVars,
                   downVars>>

BatchTick ==
    /\ batchPc = "select"
    /\ batch # <<>>
    /\ TakeBatch
    /\ UNCHANGED <<child, tty, readVars, flushSig, bufVars, watched,
                   castVars, emuVars, downVars>>

(* Mutation: newer bytes go in front of the older ones.                    *)
OnFlushInFront ==
    /\ batchPc = "flush"
    /\ buf' = flushing \o buf
    /\ paused' = PauseAt(Len(buf) + Len(flushing))
    /\ dataReady' = IF dataReady < DataReadyCap THEN dataReady + 1 ELSE dataReady
    /\ flushing' = <<>>
    /\ batchPc' = "select"
    /\ UNCHANGED <<child, tty, readVars, batch, flushSig, watched, castVars,
                   emuVars, downVars>>

(* onFlush: Buffer.Write, then the non-blocking send on dataReady.         *)
OnFlush ==
    /\ batchPc = "flush"
    /\ buf' = buf \o flushing
    /\ paused' = PauseAt(Len(buf) + Len(flushing))
    /\ dataReady' = IF dataReady < DataReadyCap THEN dataReady + 1 ELSE dataReady
    /\ flushing' = <<>>
    /\ batchPc' = "select"
    /\ UNCHANGED <<child, tty, readVars, batch, flushSig, watched, castVars,
                   emuVars, downVars>>

(* case <-b.done: what is left in the batch stays there for ever.          *)
BatchDone ==
    /\ batchPc = "select"
    /\ stopped
    /\ batchPc' = "done"
    /\ UNCHANGED <<child, tty, readVars, batch, flushSig, flushing, bufVars,
                   watched, castVars, emuVars, downVars>>

-----------------------------------------------------------------------------
(* broadcastOutput.  flushSessionOutput and flushOutput note under mu who  *)
(* watches the session, and then drain it for them through ReadOutput,     *)
(* which fails once the session has left the map.                          *)

FlushOnSignal ==
    /\ castPc = "select"
    /\ dataReady > 0
    /\ dataReady' = dataReady - 1
    /\ castPc' = IF watched THEN "read" ELSE "select"
    /\ UNCHANGED <<child, tty, readVars, batchVars, buf, paused, watched,
                   drained, emuVars, downVars>>

FlushOnTick ==
    /\ castPc = "select"
    /\ watched
    /\ castPc' = "read"
    /\ UNCHANGED <<child, tty, readVars, batchVars, bufVars, watched,
                   drained, emuVars, downVars>>

ReadOutput ==
    /\ castPc = "read"
    /\ castPc' = "select"
    /\ IF registered /\ buf # <<>>
       THEN /\ drained' = drained \o buf
            /\ buf' = <<>>
            /\ paused' = checkResume(0)
            /\ late' = IF paused' THEN late ELSE 0
       ELSE UNCHANGED <<drained, buf, paused, late>>
    /\ UNCHANGED <<child, tty, readPc, emuClosed, batchVars, dataReady,
                   watched, emuVars, downVars>>

-----------------------------------------------------------------------------
(* waitLoop and Kill.  Each leaves the map, stops the batcher and closes   *)
(* the PTY, in this order.  Kill also hangs up the process group before    *)
(* the close; whether the child then exits is up to the child.             *)

WaitExited ==
    /\ waitPc = "wait"
    /\ child = "exited"
    /\ registered' = FALSE
    /\ waitPc' = "stop"
    /\ UNCHANGED <<child, tty, readVars, batchVars, bufVars, watched,
                   castVars, emuVars, ptyOpen, stopped, killPc>>

WaitStop ==
    /\ waitPc = "stop"
    /\ stopped' = TRUE
    /\ waitPc' = "close"
    /\ UNCHANGED <<child, tty, readVars, batchVars, bufVars, watched,
                   castVars, emuVars, ptyOpen, registered, killPc>>

WaitClose ==
    /\ waitPc = "close"
    /\ ptyOpen' = FALSE
    /\ waitPc' = "done"
    /\ UNCHANGED <<child, tty, readVars, batchVars, bufVars, watched,
                   castVars, emuVars, stopped, registered, killPc>>

Kill ==
    /\ killPc = "idle"
    /\ registered
    /\ registered' = FALSE
    /\ killPc' = "stop"
    /\ UNCHANGED <<child, tty, readVars, batchVars, bufVars, watched,
                   castVars, emuVars, ptyOpen, stopped, waitPc>>

KillStop ==
    /\ killPc = "stop"
    /\ stopped' = TRUE
    /\ killPc' = "close"
    /\ UNCHANGED <<child, tty, readVars, batchVars, bufVars, watched,
                   castVars, emuVars, ptyOpen, registered, waitPc>>

KillClose ==
    /\ killPc = "close"
    /\ ptyOpen' = FALSE
    /\ killPc' = "done"
    /\ UNCHANGED <<child, tty, readVars, batchVars, bufVars, watched, castVars,
                   emuVars, stopped, registered, waitPc>>

-----------------------------------------------------------------------------
ReadLoop == LoopHead \/ LoopRead \/ LoopEnd
BatchLoop == BatchSignal \/ BatchTick \/ OnFlush \/ BatchDone
Broadcaster == FlushOnSignal \/ FlushOnTick \/ ReadOutput
WaitLoop == WaitExited \/ WaitStop \/ WaitClose

Next ==
    \/ ChildWrite \/ ChildExit \/ AudienceChange
    \/ ReadLoop \/ EmulatorLoop \/ BatchLoop \/ Broadcaster \/ WaitLoop
    \/ Kill \/ KillStop \/ KillClose

Spec == Init /\ [][Next]_vars

(* Go schedules every runnable goroutine and both tickers keep firing; the *)
(* child and the clients owe nothing.                                      *)
FairSpec ==
    /\ Spec
    /\ WF_vars(ReadLoop) /\ WF_vars(EmulatorLoop) /\ WF_vars(BatchLoop)
    /\ WF_vars(Broadcaster) /\ WF_vars(WaitLoop)
    /\ WF_vars(KillStop) /\ WF_vars(KillClose)

-----------------------------------------------------------------------------
Bytes == Nat \ {0}

(* Every variable has its type, and a channel holds at most its capacity.  *)
TypeOK ==
    /\ child \in {"running", "exited"}
    /\ {tty, batch, flushing, buf, drained, screen} \subseteq Seq(Bytes)
    /\ {ptyOpen, flushSig, stopped, paused, watched, registered, emuClosed} \subseteq BOOLEAN
    /\ readPc \in {"check", "read", "done"}
    /\ batchPc \in {"select", "flush", "done"}
    /\ dataReady \in 0..DataReadyCap
    /\ castPc \in {"select", "read"}
    /\ emuCh \in Seq(Seq(Bytes)) /\ Len(emuCh) <= EmuCap
    /\ waitPc \in {"wait", "stop", "close", "done"}
    /\ killPc \in {"idle", "stop", "close", "done"}
    /\ late \in Nat

(* ADR 0006, on the path from the PTY to the broadcaster: no byte the      *)
(* child wrote is skipped, repeated or moved, wherever the five goroutines *)
(* are and also after Kill or exit.  What a teardown loses is always a     *)
(* suffix of the output, still sitting in one of the stages.               *)
InOrder ==
    drained \o (buf \o (flushing \o (batch \o tty))) = [i \in 1..Produced |-> i]

(* Backpressure overshoots by at most one read: readLoop tests Paused      *)
(* before it blocks in Read, so one read that was already under way may    *)
(* return after the buffer became paused, and no second one.               *)
OneLateRead == late <= 1

(* The bytes of s rise; all of them come before those of t.                *)
Rising(s) == \A i, j \in 1..Len(s) : i < j => s[i] < s[j]
Before(s, t) == \A i \in 1..Len(s), j \in 1..Len(t) : s[i] < t[j]

(* The chunk the emulator got last and those it will still get.            *)
Chunks == <<screen>> \o emuCh

(* The emulator may miss chunks when emulatorCh is full, but it never sees *)
(* a byte twice or out of order (ADR 0024, "Ordered processing").          *)
ScreenInOrder ==
    \A k \in 1..Len(Chunks) :
        /\ Rising(Chunks[k])
        /\ \A l \in 1..Len(Chunks) : k < l => Before(Chunks[k], Chunks[l])

(* The goroutines together implement a FIFO stream that ends when the      *)
(* session leaves the map.                                                 *)
Stream == INSTANCE ByteStream
    WITH pending <- buf \o (flushing \o (batch \o tty)),
         received <- drained, open <- registered
ImplementsByteStream == Stream!Spec

(* Backpressure never wedges a watched session: whatever the child writes  *)
(* while a client or waiter stays is drained, unless the session goes.     *)
WatchedOutputDrains ==
    \A k \in 1..MaxOutput :
        Produced >= k ~> Len(drained) >= k \/ ~registered \/ ~watched

(* decisions/0006: "zero data loss - all PTY output is eventually          *)
(* delivered", to a session that stays watched and is not killed.          *)
AllOutputDelivered ==
    \A k \in 1..MaxOutput :
        Produced >= k ~> Len(drained) >= k \/ ~watched \/ killPc # "idle"

(* The comment on readLoop: "The loop exits when the PTY read returns an   *)
(* error (e.g. EOF after process exit)".  It does, once waitLoop has closed *)
(* the PTY, unless the buffer is paused: then nobody is left to drain it.  *)
ReadLoopEnds == waitPc = "done" ~> readPc = "done" \/ paused
=============================================================================
