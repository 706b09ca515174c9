# wmux in TLA+

wmux is a daemon that owns pseudo-terminals. A client asks it over a Unix socket
to create a session (a child process behind a PTY), attaches to it, detaches,
and finds it running when it comes back. The hard part is concurrency: every
session has four goroutines, every client and every wait request has one, a
broadcaster serves all of them, and they meet in maps that are keyed by session
ID, while IDs may be reused. Around it programs start daemons, share a
connection, subscribe to events, and turn replies into exit codes. This
directory models all of that, checks it with TLC on small instances and proves
the central facts with TLAPS.

## The system and its parts

| part | code | what it does | here |
|---|---|---|---|
| output buffer | `internal/session/backpressure.go` | byte buffer with watermarks that recycles its arrays | `Buffer`, `Backpressure` |
| output pipeline | `session/service.go` (`readLoop`, `emulatorLoop`, `waitLoop`), `session/batcher.go`, `daemon/service.go` (`broadcastOutput`) | brings PTY output to the broadcaster and to the screen emulator | `OutputPipeline`, `ByteStream` |
| session service | `session/service.go`, `reaper.go`, `watchdog.go` | the session map; Create, Kill, Attach, Detach, exit | `SessionRegistry`, `SessionService` |
| attachments | `daemon/service.go` | who watches which session | `Attachments` |
| waiters | `daemon/service.go` | `wmux wait`: exit, idle, match | `Waiters` |
| command lifecycle | `internal/cmdlifecycle`, `platform/commands`, `daemon/cmdrepository.go`, `reconcile.go`, `scanOSC` | commands recognised from OSC 133 markers, kept and persisted | `CmdTracker`, `Commands` |
| session resources | `handleCreate`, the `OnExit` callback, `platform/history` | what the daemon keeps per session, metadata on disk | `SessionResources` |
| recordings | `recordStart` ... `closeRecording`, `platform/recording` | asciinema files with a size limit | `Recordings` |
| request handlers | `daemon/service.go`, `session/service.go` | create, attach, input, resize, list, info, kill, exec, metadata, history, shutdown | `Requests` |
| command line tools | `cmd/wmux`, `cmd/wmux-tmux` | commands as requests and exit codes | `Cli` |
| transport | `internal/transport` | handshake, control and stream channel of a client, kick, broadcast | `Transport` |
| event bus | `platform/event`, `handleSubscribe` | subscriptions with bounded channels, forwarded to clients | `EventBus`, `Events` |
| client library | `pkg/client` | requests with timeouts on a shared connection | `ClientRpc` |
| daemon lifecycle | `client.New`, `Serve`, `platform/auth`, `platform/ipc`, `pidfile.go` | token, socket and PID file; start, stop, crash | `Lifecycle` |
| wire protocol, PTY, emulator, ANSI, config, logging | `platform/*`, `addons/charmvt` | codecs, system calls, text, setup | not modelled |

`PROJECT.json` has the same list with files, the hazards of the code at the lines
where they bite, and the source lines every definition stands for.

How the parts meet: `readLoop` fills the Batcher, which flushes into the Buffer
and signals the broadcaster; the broadcaster drains the Buffer for attached
clients and waiters, scans what it drained for markers and tees it into a
recording. When the child exits, `waitLoop` takes the session out of the map,
releases batcher and PTY, and calls `OnExit`, in which the daemon answers
waiters and takes away tracker, counter, writers and recording. A client gets to
all this over two connections, which the transport server pairs; the daemon runs
one goroutine per control connection, which reads a request, handles it and
replies. Events go from the bus through one more goroutine per subscriber to the
same control connection.

## Modules

**Backpressure** has the watermark rule as two operators. **Buffer** models memory
explicitly: a slice is an array, an offset and a length, and `append` may write
in place or move, since capacity is up to the allocator. Its actions are Write,
Read and ReadN.

**OutputPipeline** has one action per critical section or channel operation of
each goroutine of one session; a byte is the position at which the child wrote
it. What Buffer shows (the contents are a FIFO queue) is used here as a sequence.
**ByteStream** is the abstract specification: a FIFO stream that may be cut when
the session leaves the map.

**SessionRegistry** is the session map and nothing else: what each critical
section of `session.Service` does. A *handle* stands for a `*managedSession`;
several handles may have the same ID, one after another in the map but
overlapping in their goroutines. **SessionService** adds the child, the batcher's
`done` channel, the PTY, the callers, Reaper and Watchdog; it implements
SessionRegistry. All daemon modules extend SessionRegistry, so that they meet
every order of create, kill, exit and ID reuse:

- **Attachments**: `handleAttach` in three steps (Get, Attach, the maps),
  `handleDetach` and `detachClient` in two.
- **Waiters**: `handleWait` with its three modes; exit and output notifications
  and timeouts race for the one-slot channel of a waiter.
- **SessionResources**: the steps of `handleCreate` after Create and those of
  `OnExit`, each by ID, disk errors, a crash at any step, `ReconcileOrphans`.
  Metadata is truncated and written in two steps, as `os.WriteFile` does it.
- **Recordings**: start, stop, tee, limit and exit. Sizes are in units; the
  header counts towards the limit, and a write may fail part-way.

**CmdTracker** has the command state machine as operators on a tracker; **Commands**
has everything from a chunk's markers to `commands.json` and back, for one
session ID. A chunk is what `ParseOSC` makes of it: markers with the newlines
between them.

**Requests** extends Attachments with every other request of the control
connection, over the same registry: a handler looks a session up, unlocks, and
acts on what it found, one target after the other. **Cli** extends it with the
programs at the other end: what each command of `wmux` and `wmux-tmux` sends,
when it stops reading, and the code it exits with. That the composition still
implements Attachments is checked and proved (`ImplementsAttachments`), so what
is proved of Attachments holds under all requests.

**Transport** has one `handleConn` per connection and the table of clients; a
client's process and its ancestors are constants, so that the automation modes
are decided by the code's own walk. **EventBus** has the bus down to its read and
write lock, the `Once` of a subscription and its bounded channel; **Events** adds
`readControl`, the forwarding goroutines and the deferred Close of `Serve`.

**ClientRpc** has the goroutines that share one `Client`: `sendRequest` with its
timeout and the drain after it, the reader, `History`, and a daemon that answers
in order. **Lifecycle** has `New`, `startDaemon` and `Serve` as processes that
meet in three files only. A token is named after the process that generated it;
a token file is truncated and written in two steps, and any process may crash
between any two steps.

Definitions carry the names of the code where TLA+ allows it. A variable called
"history" in a comment does not exist in the code: it records that a named race
happened, so that a property can say "holds unless". Definitions marked
"Mutation" are not part of any specification: each is a plausible bug in the
definition after it, used to confirm that a property can fail.

`MC*.tla` and `*.cfg` instantiate the modules; `*_proofs.tla` hold the proofs.

## Runs

Each run uses the `.cfg` named; `tlc -config X.cfg M` repeats it.

| run | instance | shows |
|---|---|---|
| `buffer` (MCBuffer) | 2 byte values, 5 arrays of 4, at most 4 bytes held, watermarks 3 and 2 | bytes a reader holds are never overwritten by recycling; the buffer is a FIFO queue |
| `pipeline` (MCOutputPipeline) | 3 bytes, chunks of 2, an emulator channel of 2 | one late read at most, the screen sees no byte twice or out of order, ByteStream is implemented, a watched session drains, `readLoop` ends or is left paused |
| `pipeline_loss` | 2 bytes | **violated**: output that is on its way when the child exits is dropped |
| `session` (MCSessionService) | 2 handles of 1 ID, 2 callers, Reaper, Watchdog, 1 spawn slot | the map holds usable sessions; resources are released before the report; every killed session is reported; a double close and a lost entry need the races they name; SessionRegistry is implemented |
| `waiters` (MCWaiters) | 2 waiters, 2 handles of 1 ID | answers are true; who is listed in time is answered |
| `commands` (MCCommands) | history of 2, 3 commands, 2 scans, 2 starts, 2 sessions | tracker, history and file agree through missing markers, crashes and restarts; a finished command reaches the disk |
| `commands_serve` | the repository as `client.Serve` wires it | **violated**: nothing reaches the disk |
| `resources` (MCSessionResources) | 2 handles of 1 ID, 1 with disk errors | what handleCreate and OnExit guarantee, and exactly when ID reuse or an instant exit breaks it |
| `recordings` (MCRecordings) | 3 handles, 2 IDs, 3 recordings, limit 3 with a header of 1 | no recording outlives its session; open files and listed recordings agree but for the cases named |
| `connections` (MCConnections) | 2 clients, one of them not admitted, each once; or 2 subscribers, channels of 1, 2 publishers of 2 events | a client is refused only for a reason and never waits for ever; events stay in order; nothing panics but for a late subscription; a closing bus is left by everybody |
| `client` (MCClient) | 2 callers, 3 calls; or 2 daemons and 2 starters; or 2 daemons, one of them started by hand, and 1 starter | calls get their own answers and return; after any crash or stop a serving daemon is reachable and New gets over what was left, unless starts overlap |
| `requests` (MCRequests) | 23 pairs of commands, 3 handles, 2 IDs under one prefix | exit codes are true, sizes agree, every command ends but for two; the attachment properties hold under all requests |

Components that share no state are two parts of one run (`connections`, `client`):
a behaviour explores one of them.

Why the bounds are enough. The races are between the goroutines of one session,
between two sessions that share an ID, or between two clients; two of each reach
them. Channels and histories have the smallest capacity at which they can be
empty, full and overfull. Three bytes let a chunk be split, joined and left
behind. Two starts are a crash with a restore after it, and two daemon processes
are one that left its files and one that finds them. Three calls of two callers
let a call time out, its answer come late, and a third call meet the drain. In
`pipeline` the two watermarks coincide; `buffer` has them apart. Liveness runs
use no symmetry.

Deadlock checking is on for `buffer`, `pipeline`, `pipeline_loss` and
`resources`. It is off where the instance runs out of what its bounds supply
(handles, waiters, recordings, starts, calls, commands), after which a real
daemon would just be idle, and, in `session`, where a panic ends the process.

### Fairness

Weak fairness is given to goroutines that the Go runtime schedules and to
started timers and tickers: `readLoop`, `emulatorLoop`, Batcher, broadcaster,
`waitLoop`, the rest of a Kill, `handleWait`, `OnExit`, the scan and the Writer
of commands.json. Nothing is asked of children, clients, disk or operator, with
one exception: a child that got SIGHUP is assumed to exit in the end
(`KilledIsNotified`). Kill itself sends nothing stronger, so for a child that
ignores SIGHUP the report does wait.

The same holds around the daemon: `handleConn` and its deadline, forwarding
goroutines, publishers that hold the lock, the loop in `Close`, callers, readers
and drains of the client, programs and the handlers that serve them. Clients
that wait for a reply read it; nobody has to connect, leave, press a key or stop
the daemon, and no answer to a wait request is promised. The mutex of `sendRequest`
gets strong fairness, since Go's mutex hands itself to a waiter that starves. The
file steps of `Lifecycle` need none: only safety is claimed of them.

## What the runs say about the code

Two promises made by comments or documents are refuted by runs (the `findings`
of `PROJECT.json` quote them):

1. ADR 0006 says "zero data loss"; `waitLoop` unregisters the session as soon as
   the child exits, and what is in the PTY, the batch or the buffer is lost.
2. `client.Serve` gives the command service a repository of its own, whose map of
   Writers stays empty, so Save drops every state.

Other properties hold only with the exception they name:

- `waitLoop` deletes by ID: after Kill and Create of the same ID, the old session's
  exit removes the new one, whose process runs on unreachable
  (`LostOnlyToPredecessor`);
- "Calling Stop more than once is safe" (`batcher.go`): test and close are two
  steps, and a Kill and the exit of its session can both get to the close
  (`PanicNeedsKillAndExit`);
- a client that attaches to a second session without detaching stays in the
  first one's watchers after it disconnects (`DisconnectedIsForgotten`);
- a late Detach can mark a newly attached session detached (`AttachedIsAlive`);
- a waiter that registers after its session's exit report is answered by its
  timeout only; the exit of an earlier session of the ID answers the waiters of
  a later one; a pattern split over two chunks is not found;
- `readLoop` stays asleep when its session ends while the buffer is paused;
- the Reaper kills by ID from an earlier list, so it may hit a session that was
  attached or replaced meanwhile;
- a command's rows can go backwards when handleCreate replaces the line counter
  (`RowsAdvance`); a command that ends before the Writer is open, or after it is
  closed, is not saved;
- OnExit of one session takes away what a new session of the ID has registered,
  and a session that exits at once leaves entries behind (`RunningIsTracked`,
  `ExitedIsReleased`, `EndIsRecorded`);
- a recording that is exactly full, and one that a late deletion takes for
  another, stay open with nobody to close them (`RecordingsAgree`);
- unsubscribing a subscription that was made on a closed bus closes its channel
  twice (`PanicNeedsLateSubscribe`), which `handleSubscribe` does when a request
  comes while the daemon stops;
- a call that times out while another one has passed `drainWg.Wait` can leave its
  answer to that one, although the comment at `client.go:41-44` has the drain keep
  answers apart; a History outstanding together with another call can mix up both
  and block the reader for good (`AnswerIsOwn`, `CallsReturn`);
- nothing keeps starts from overlapping: two programs that find no daemon can
  leave one whose token is not the one in the file, `Listen` removes the socket of
  a live daemon, and a daemon on its way out removes socket and PID file of the
  next (`ServingIsReachable`, `NewFailsForReason`);
- two resizes of one session can leave PTY, emulator and record with different
  sizes (`SizesAgree`);
- `wmux attach` goes on after its session has exited, although
  `docs/cli/wmux.md:65` says it blocks "until detached or the session exits", and
  `wmux history` waits for ever for an empty dump (`CommandsEnd`).

## Proofs

All theorems hold for every value of the constants that meets the named
assumptions (sizes are positive, `Sid` maps handles to IDs, "no" values are not
members); there is no bound on sessions, clients, daemons, events or output.

- **Output_proofs** (OutputPipeline, Buffer). Types; `OneLateRead`, whose inductive
  invariant adds that a reader inside Read has seen no late read and that nothing
  is late while the buffer is not paused; ByteStream is implemented, each step
  being a step or a stutter of the stream; `InOrder`, which every step of the stream
  keeps; `ScreenInOrder`, because what the emulator was given is among the bytes
  taken from the PTY (`SeenIsTaken`). For the buffer, `HeldIntact` and
  `ContentsAreQueue`: recycling is safe because its three slices never share an
  array and the slice a reader holds shares one with `inFlight` at most (`Separate`).
- **SessionRegistry_proofs**: types, `RegisteredIsLive`, `LostOnlyToPredecessor`.
  Step lemmas are reused everywhere.
- **SessionService_proofs**: `RegisteredIsUsable` and `NotifiedIsReleased` need
  `Teardown`: where Kill and `waitLoop` of a handle are says what is released and
  that the handle is out of the map. `PanicNeedsKillAndExit` adds that a handle
  has one killer at most. The service implements the registry, whose
  `CapRespected` is proved here too (by finite cardinalities).
- **Requests_proofs** (Attachments, Requests, Cli). For Attachments: types,
  `CurrentIsAttached`, `DisconnectedIsForgotten`, `AttachedIsAlive`; the handlers use
  the registry only by its operations.
  - Cli: `ExitCodeIsTrue`. The request of a waiting process is the one its command
    sends, and its reply says whether all targets were reached (`Stage`); a loop over
    targets has acted on none of those to come, and on each of the others once
    unless it met an error (`InLoop`).
  - Sizes: `SizesAgree`. A resize that is alone on its session has brought exactly
    the sizes before its step to the new one (`Resized`).
  - Cli implements Attachments, each step of a request or a program being a step
    or a stutter of it; so `DisconnectedIsForgotten` and `AttachedIsAlive` hold under
    all requests, programs and hang-ups.
- **Daemon_proofs** (Waiters, Recordings, SessionResources).
  - Waiters: types, `ListedIffWaiting`, `RepliesAreTrue`. The invariant adds that what
    lies in a waiter's channel is as true as what it may answer (`DoneIsTrue`), and
    that a handler not yet listed has been told nothing (`Begun`).
  - Recordings: types and size limit, `RecordingEndsWithSession`, `RecordingsAgree`.
    An entry records a session of its ID that closeRecording has not passed
    (`Filed`), and what the broadcaster is about to delete is closed or full
    (`TeeHolds`). A start cannot slip in behind closeRecording because whoever is in
    the map is live, and whoever was reported has exited.
  - SessionResources: `RunningIsTracked`, `ExitedIsReleased`, `EndIsRecorded`. Of the
    sessions of an ID that overlapped no other, at most one is between its Create and
    the end of its OnExit (`Alone`), so what it has filed is still its own (`Own`), and
    no file says that a session runs once its end was written (`EndWritten`).
- **Connections_proofs** (Events, Transport).
  - Events: `PanicNeedsLateSubscribe` and `EventsInOrder`. For the first, the list holds
    open channels only, each once (`ListedIsOpen`); whom a Publish still aims at is
    listed, which is what the read lock is for (`AimedIsListed`); and the `Once` of a
    subscription keeps its channel open while it lasts (`OnceGuards`). For the
    second, what a client was sent, what its goroutine holds and what its channel
    holds are each in order and each before the next (`PiecesInOrder`), and nothing
    in them is newer than what its publisher has offered to this client
    (`SentIsNewest`).
  - Transport: `RefusedForReason`. The steps of the two sides of a handshake match
    (`Paired`), and a client with no excuse that waits for a reply has an open
    connection with no refusal on it and stays entered once it was (`Welcome`).
- **Client_proofs** (Lifecycle, ClientRpc).
  - Lifecycle: `ServingIsReachable` and `NewFailsForReason`. Until starts overlap,
    daemons and starts take turns (`TakeTurns`), so nobody else touches the files a
    daemon has made (`FilesAreOwn`), and the second connect of a starter meets the
    daemon it polled (`Attempts`).
  - ClientRpc: `AnswerIsOwn`. While calls were not mixed, each answer under way has a
    caller or a drain to take it (`EachIsTaken`, by counting), a History that is
    outstanding alone has the connection for itself (`HistoryIsAlone`), and so what
    is under way to a waiting caller is its own (`OnlyOwn`).
- **Commands_proofs** (Commands, CmdTracker): `HistoryIsLatest`, `RowsAdvance`,
  `DiskIsKnown`, `ClosedIsFlushed`. The invariant follows every copy of the state on
  its way to the disk: each is ordered by command number (`AllRising`), none goes
  backwards in rows unless a counter was swapped (`AllForward`, `BelowCounters`), and
  the tracker knows each command of each copy or has passed it (`CopiesKnown`).

A leaf names its prover or a longer timeout where the default, SMT for five
seconds, is spent on translating a long context.

The type invariants of these modules are left to the proofs, and so are
`RegisteredIsLive`, `CapRespected`, `InOrder`, `CurrentIsAttached`, `ListedIffWaiting`
and `ListedIsOpen`, which the properties of the runs rest on.

Only model-checked: all liveness (`WatchedOutputDrains`, `ReadLoopEnds`,
`KilledIsNotified`, `WaitersAreAnswered`, `FinishedIsPersisted`, `HandshakeEnds`,
`ClosedBusIsLeft`, `CallsReturn`, `CommandsEnd`), which needs fairness and ENABLED.

## Not modelled

Payloads and their formats; the contents of screen and scrollback; tracing and
logging; system calls beyond what the modules use of them (PTY read and close,
process exit, file write and rename, socket bind and unlink).

- The frame codec (`platform/protocol`), the payload codecs, `ParseOSC`, `ParseDA`
  and the ANSI conversions are functions of their input with no state; the models
  start from what they yield.
- The screen emulator of `addons/charmvt` is an external library behind a drain
  goroutine; what it is fed and its size are modelled.
- A socket write that blocks because its client does not read: replies are
  written at once here, also the ones written under `Daemon.mu`.
- `handleEnvForward` and `environment.go` write a link and a file from a request and
  touch nothing else.
- `HeartbeatManager`, `SubscribeTypes`, `Autodaemonize`, `GracefulShutdown`,
  `Writer.Flush` of commands.json and the eviction of old history have no caller
  in the daemon, although `docs/architecture/domains.md:89-91` promises heartbeats.
  Reaper and Watchdog have none either and are modelled all the same, since the
  service must bear them.
- Argument parsing and printing of the command line tools.

Chunks without any OSC sequence are scanned in Commands but, as in the code, not
counted. `LoadFromFile` reads the token in one step, since `os.ReadFile` gets so
short a file at once.
