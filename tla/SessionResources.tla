-------------------------- MODULE SessionResources --------------------------
(***************************************************************************)
(* What the daemon keeps for a session beside the session itself: command  *)
(* tracker, line counter, Writer of commands.json, scrollback writer,      *)
(* and metadata file.  handleCreate puts them in place after Create has    *)
(* returned and the OnExit callback takes them away, both step by step and *)
(* by session ID, on goroutines of their own.                              *)
(*                                                                         *)
(* An entry of a table is the handle whose handleCreate made it.           *)
(***************************************************************************)
EXTENDS SessionRegistry

CONSTANTS
    Faulty,   \* handles whose metadata or scrollback may meet a disk error
    NoMeta, Torn

ASSUME ResourceAssumption ==
    /\ Faulty \subseteq Handle
    /\ NoMeta # Torn
    /\ {NoMeta, Torn} \cap [of: Handle, ended: BOOLEAN] = {}

VARIABLES
    up,          \* the daemon runs
    make,        \* the next step of handleCreate for a handle
    exit,        \* the next step of the OnExit callback for a handle
    copy,        \* the metadata UpdateMetadataExit has read
    table,       \* cmdSvc.trackers, lineCounters and cmdRepo.writers
    scroll,      \* scrollbackWriters
    scrollOpen,  \* handles whose history.Writer is open
    meta,        \* meta.json of an ID
    overlapped,  \* history: handles that met an unsettled one of their ID
    fast         \* history: handles that exited before handleCreate was done

metaVars == <<meta, copy>>
tableVars == <<table, scroll, scrollOpen>>
resVars == <<regVars, up, make, exit, tableVars, metaVars, overlapped, fast>>

Table == {"tracker", "counter", "writer"}

ResInit ==
    /\ RegInit
    /\ up = TRUE
    /\ make = [h \in Handle |-> "none"]
    /\ exit = [h \in Handle |-> "none"]
    /\ copy = [h \in Handle |-> NoMeta]
    /\ table = [t \in Table |-> [i \in Id |-> NoHandle]]
    /\ scroll = [i \in Id |-> NoHandle]
    /\ scrollOpen = {}
    /\ meta = [i \in Id |-> NoMeta]
    /\ overlapped = {} /\ fast = {}

Peers(h) == {g \in Handle \ {h} : Sid[g] = Sid[h]}

(* Both handleCreate and OnExit are done with h, in this order.            *)
Settled(h) == exit[h] = "dead" \/ (exit[h] = "done" /\ h \notin fast)

-----------------------------------------------------------------------------
(* handleCreate                                                            *)

(* sessionSvc.Create has returned a session.                               *)
CreateSession(h) ==
    /\ up /\ Create(h)
    /\ make' = [make EXCEPT ![h] = "meta"]
    /\ LET met == {g \in Peers(h) : state[g] # "unborn" /\ ~Settled(g)}
       IN  overlapped' = overlapped \cup met \cup (IF met = {} THEN {} ELSE {h})
    /\ UNCHANGED <<up, exit, tableVars, metaVars, fast>>

MakeStep(h, from, to) ==
    /\ up /\ make[h] = from
    /\ make' = [make EXCEPT ![h] = to]
    /\ UNCHANGED <<regVars, up, exit, overlapped, fast>>

(* WriteMetadata of persistSessionCreate: os.WriteFile truncates, then     *)
(* writes.                                                                 *)
MakeMetaOpen(h) ==
    /\ MakeStep(h, "meta", "metaWrite")
    /\ meta' = [meta EXCEPT ![Sid[h]] = Torn]
    /\ UNCHANGED <<tableVars, copy>>

MakeMetaWrite(h) ==
    /\ MakeStep(h, "metaWrite", "scroll")
    /\ meta' = [meta EXCEPT ![Sid[h]] = [of |-> h, ended |-> FALSE]]
    /\ UNCHANGED <<tableVars, copy>>

(* The early returns of persistSessionCreate.                              *)
MakeFails(h) ==
    /\ \E from \in {"meta", "metaWrite", "scroll"} : MakeStep(h, from, "tracker")
    /\ h \in Faulty
    /\ UNCHANGED <<tableVars, meta, copy>>

(* Mutation: the writer is opened but not entered.                         *)
MakeScrollUnlisted(h) ==
    /\ MakeStep(h, "scroll", "tracker")
    /\ scrollOpen' = scrollOpen \cup {h}
    /\ UNCHANGED <<table, scroll, metaVars>>

(* history.NewWriter and its entry; one already there is replaced.         *)
MakeScroll(h) ==
    /\ MakeStep(h, "scroll", "tracker")
    /\ scroll' = [scroll EXCEPT ![Sid[h]] = h]
    /\ scrollOpen' = scrollOpen \cup {h}
    /\ UNCHANGED <<table, metaVars>>

After == [tracker |-> "counter", counter |-> "writer", writer |-> "done"]

(* Register and cmdRepo.Open leave an entry alone, the line counter is     *)
(* always new.                                                             *)
MakeEntry(h, t) ==
    /\ MakeStep(h, t, After[t])
    /\ table' = IF t # "counter" /\ table[t][Sid[h]] # NoHandle THEN table
                ELSE [table EXCEPT ![t][Sid[h]] = h]
    /\ UNCHANGED <<scroll, scrollOpen, metaVars>>

-----------------------------------------------------------------------------
(* Kill, the exit and the OnExit callback                                  *)

KillSession(i) ==
    /\ up /\ Kill(i)
    /\ UNCHANGED <<up, make, exit, tableVars, metaVars, overlapped, fast>>

ExitSession(h) ==
    /\ up /\ Exit(h)
    /\ UNCHANGED <<up, make, exit, tableVars, metaVars, overlapped, fast>>

(* onExit is called; the waiters it answers first are in Waiters.          *)
ExitBegin(h) ==
    /\ up /\ Notify(h)
    /\ exit' = [exit EXCEPT ![h] = "scroll"]
    /\ fast' = IF make[h] = "done" THEN fast ELSE fast \cup {h}
    /\ UNCHANGED <<up, make, tableVars, metaVars, overlapped>>

ExitStep(h, from, to) ==
    /\ up /\ exit[h] = from
    /\ exit' = [exit EXCEPT ![h] = to]
    /\ UNCHANGED <<regVars, up, make, overlapped, fast>>

(* persistSessionExit takes the scrollback writer of the ID and closes it. *)
ExitScroll(h) ==
    /\ ExitStep(h, "scroll", "metaRead")
    /\ scroll' = [scroll EXCEPT ![Sid[h]] = NoHandle]
    /\ scrollOpen' = scrollOpen \ {scroll[Sid[h]]}
    /\ UNCHANGED <<table, metaVars>>

(* UpdateMetadataExit reads the file and writes it back with endedAt; a    *)
(* file that does not parse, or a disk error, ends it.                     *)
ExitMetaRead(h) ==
    /\ meta[Sid[h]] \notin {NoMeta, Torn}
    /\ ExitStep(h, "metaRead", "metaOpen")
    /\ copy' = [copy EXCEPT ![h] = meta[Sid[h]]]
    /\ UNCHANGED <<tableVars, meta>>

ExitMetaNone(h) ==
    /\ meta[Sid[h]] \in {NoMeta, Torn}
    /\ ExitStep(h, "metaRead", "tracker")
    /\ UNCHANGED <<tableVars, metaVars>>

ExitMetaOpen(h) ==
    /\ ExitStep(h, "metaOpen", "metaWrite")
    /\ meta' = [meta EXCEPT ![Sid[h]] = Torn]
    /\ UNCHANGED <<tableVars, copy>>

ExitMetaWrite(h) ==
    /\ ExitStep(h, "metaWrite", "tracker")
    /\ meta' = [meta EXCEPT ![Sid[h]] = [copy[h] EXCEPT !.ended = TRUE]]
    /\ copy' = [copy EXCEPT ![h] = NoMeta]
    /\ UNCHANGED tableVars

ExitMetaFails(h) ==
    /\ \E from \in {"metaRead", "metaOpen", "metaWrite"} : ExitStep(h, from, "tracker")
    /\ h \in Faulty
    /\ copy' = [copy EXCEPT ![h] = NoMeta]
    /\ UNCHANGED <<tableVars, meta>>

(* Mutation: only the tracker is removed.                                  *)
ExitEntryTracker(h, t) ==
    /\ ExitStep(h, t, After[t])
    /\ table' = [table EXCEPT !["tracker"][Sid[h]] = NoHandle]
    /\ UNCHANGED <<scroll, scrollOpen, metaVars>>

(* Unregister, the deletion of the counter, and cmdRepo.Close.             *)
ExitEntry(h, t) ==
    /\ ExitStep(h, t, After[t])
    /\ table' = [table EXCEPT ![t][Sid[h]] = NoHandle]
    /\ UNCHANGED <<scroll, scrollOpen, metaVars>>

-----------------------------------------------------------------------------
(* A crash, and ReconcileOrphans at the next start                         *)

Crash ==
    /\ up /\ up' = FALSE
    /\ sessions' = [i \in Id |-> NoHandle]
    /\ state' = [h \in Handle |-> IF state[h] = "unborn" THEN "unborn" ELSE "exited"]
    /\ notified' = {h \in Handle : state[h] # "unborn"}
    /\ make' = [h \in Handle |-> IF state[h] = "unborn" THEN "none" ELSE "dead"]
    /\ exit' = [h \in Handle |-> IF state[h] = "unborn" THEN "none" ELSE "dead"]
    /\ copy' = [h \in Handle |-> NoMeta]
    /\ table' = [t \in Table |-> [i \in Id |-> NoHandle]]
    /\ scroll' = [i \in Id |-> NoHandle] /\ scrollOpen' = {}
    /\ UNCHANGED <<killed, meta, overlapped, fast>>

(* Mutation: sessions are left as the crash left them.                     *)
ReconcileNothing == UNCHANGED meta

(* Every file that parses and has no endedAt gets one.                     *)
ReconcileOrphans ==
    meta' = [i \in Id |-> IF meta[i] \in {NoMeta, Torn} THEN meta[i]
                          ELSE [meta[i] EXCEPT !.ended = TRUE]]

Restart ==
    /\ ~up /\ up' = TRUE
    /\ ReconcileOrphans
    /\ UNCHANGED <<regVars, make, exit, tableVars, copy, overlapped, fast>>

Maker(h) ==
    \/ CreateSession(h) \/ MakeMetaOpen(h) \/ MakeMetaWrite(h) \/ MakeFails(h)
    \/ MakeScroll(h) \/ \E t \in Table : MakeEntry(h, t)

OnExit(h) ==
    \/ ExitBegin(h) \/ ExitScroll(h) \/ ExitMetaRead(h) \/ ExitMetaNone(h)
    \/ ExitMetaOpen(h) \/ ExitMetaWrite(h) \/ ExitMetaFails(h)
    \/ \E t \in Table : ExitEntry(h, t)

ResNext ==
    \/ \E h \in Handle : Maker(h) \/ ExitSession(h) \/ OnExit(h)
    \/ \E i \in Id : KillSession(i)
    \/ Crash \/ Restart

ResSpec == ResInit /\ [][ResNext]_resVars

-----------------------------------------------------------------------------
(* A session that handleCreate has finished with and whose exit was not    *)
(* reported has its own tracker, counter and Writers, and its metadata     *)
(* says that it runs; unless the ID was created again before handleCreate  *)
(* and then OnExit of the previous session were done, since all go by ID.  *)
RunningIsTracked ==
    \A h \in Handle \ overlapped :
        up /\ make[h] = "done" /\ exit[h] = "none" =>
            /\ \A t \in Table : table[t][Sid[h]] = h
            /\ h \in scrollOpen => scroll[Sid[h]] = h
            /\ h \notin Faulty => h \in scrollOpen /\ meta[Sid[h]] = [of |-> h, ended |-> FALSE]

(* OnExit leaves nothing of its session in the daemon's tables, even when  *)
(* the next session of the ID is made meanwhile, unless the process ended  *)
(* before handleCreate was done.  Nor does it leave its scrollback open;   *)
(* there an overlap does harm, since persistSessionCreate replaces a       *)
(* writer without closing it.                                              *)
ExitedIsReleased ==
    \A h \in Handle \ fast :
        exit[h] = "done" =>
            /\ \A t \in Table, i \in Id : table[t][i] # h
            /\ h \notin overlapped => h \notin scrollOpen

(* Metadata without endedAt belongs to a session that is not over: OnExit, *)
(* or ReconcileOrphans after a crash, has seen to it, except for a session *)
(* that ended before its metadata was written or whose disk failed.        *)
EndIsRecorded ==
    \A i \in Id :
        up /\ meta[i] \notin {NoMeta, Torn} /\ ~meta[i].ended =>
            \/ exit[meta[i].of] \notin {"done", "dead"}
            \/ meta[i].of \in fast \cup Faulty
=============================================================================
