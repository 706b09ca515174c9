----------------------------- MODULE Recordings -----------------------------
(***************************************************************************)
(* The recordings of the daemon: clients start and stop them by session    *)
(* ID, the broadcaster tees output into them until the size limit, and     *)
(* OnExit closes what its ID still has.  Daemon.recordings is guarded by   *)
(* Daemon.mu, each recording.Writer by its own mutex.                      *)
(***************************************************************************)
EXTENDS SessionRegistry

CONSTANTS
    Rec,       \* recording.Writers, one per successful recordStart
    NoRec,     \* no entry in Daemon.recordings
    Header,    \* the size of the header NewWriter writes
    MaxSize    \* recordingMaxSize, in the same units; 0 means no limit

ASSUME RecordingAssumption == NoRec \notin Rec /\ MaxSize \in Nat /\ Header \in Nat

VARIABLES
    recordings,  \* Daemon.recordings
    rec,         \* the Writers: session recorded, file open, units written
    tee,         \* teeRecording of the broadcaster
    closed,      \* handles whose OnExit has passed closeRecording
    displaced    \* history: recordings deleted in place of another

recVars == <<regVars, recordings, rec, tee, closed, displaced>>

NoTee == [pc |-> "idle", id |-> NoHandle, rec |-> NoRec]
NoWriter == [of |-> NoHandle, open |-> FALSE, written |-> 0]
NewWriter(h) == [of |-> h, open |-> TRUE, written |-> Header]

RecInit ==
    /\ RegInit
    /\ recordings = [i \in Id |-> NoRec]
    /\ rec = [r \in Rec |-> NoWriter]
    /\ tee = NoTee
    /\ closed = {} /\ displaced = {}

Forget(i) == recordings' = [recordings EXCEPT ![i] = NoRec]
Close(r) == rec' = [rec EXCEPT ![r].open = FALSE]

-----------------------------------------------------------------------------
(* Mutation: the session is looked up before Daemon.mu is taken, so that   *)
(* it may be gone.                                                         *)
recordStartStale(i, r) ==
    /\ rec[r].of = NoHandle /\ recordings[i] = NoRec
    /\ \E h \in Handle : /\ Sid[h] = i /\ state[h] # "unborn"
                         /\ rec' = [rec EXCEPT ![r] = NewWriter(h)]
    /\ recordings' = [recordings EXCEPT ![i] = r]
    /\ UNCHANGED <<regVars, tee, closed, displaced>>

(* recordStart holds Daemon.mu from the first test to the new entry, the   *)
(* lookup of the session included.                                         *)
recordStart(i, r) ==
    /\ rec[r].of = NoHandle /\ recordings[i] = NoRec
    /\ sessions[i] # NoHandle
    /\ rec' = [rec EXCEPT ![r] = NewWriter(sessions[i])]
    /\ recordings' = [recordings EXCEPT ![i] = r]
    /\ UNCHANGED <<regVars, tee, closed, displaced>>

recordStop(i) ==
    /\ recordings[i] # NoRec
    /\ Close(recordings[i]) /\ Forget(i)
    /\ UNCHANGED <<regVars, tee, closed, displaced>>

(* teeRecording: the lookup, Writer.Write of n units and, at the limit,    *)
(* the deletion are three critical sections.                               *)
TeeLookup(i) ==
    /\ tee.pc = "idle" /\ recordings[i] # NoRec
    /\ tee' = [pc |-> "write", id |-> i, rec |-> recordings[i]]
    /\ UNCHANGED <<regVars, recordings, rec, closed, displaced>>

Capped == MaxSize > 0

(* A closed Writer refuses; the error is dropped.                          *)
WriteClosed ==
    /\ tee.pc = "write" /\ ~rec[tee.rec].open
    /\ tee' = NoTee
    /\ UNCHANGED <<regVars, recordings, rec, closed, displaced>>

(* A full file is reported as it is.                                       *)
WriteFull ==
    /\ tee.pc = "write" /\ rec[tee.rec].open
    /\ Capped /\ rec[tee.rec].written >= MaxSize
    /\ tee' = [tee EXCEPT !.pc = "delete"]
    /\ UNCHANGED <<regVars, recordings, rec, closed, displaced>>

(* Mutation: the file that would overflow stays open.                      *)
WriteOverOpen(n) ==
    /\ tee.pc = "write" /\ rec[tee.rec].open
    /\ Capped /\ rec[tee.rec].written < MaxSize /\ rec[tee.rec].written + n > MaxSize
    /\ tee' = [tee EXCEPT !.pc = "delete"]
    /\ UNCHANGED <<regVars, recordings, rec, closed, displaced>>

(* A file that would overflow is closed.                                   *)
WriteOver(n) ==
    /\ tee.pc = "write" /\ rec[tee.rec].open
    /\ Capped /\ rec[tee.rec].written < MaxSize /\ rec[tee.rec].written + n > MaxSize
    /\ Close(tee.rec)
    /\ tee' = [tee EXCEPT !.pc = "delete"]
    /\ UNCHANGED <<regVars, recordings, closed, displaced>>

WriteFits(n) ==
    /\ tee.pc = "write" /\ rec[tee.rec].open
    /\ Capped => rec[tee.rec].written + n <= MaxSize
    /\ rec' = [rec EXCEPT ![tee.rec].written = @ + n]
    /\ tee' = NoTee
    /\ UNCHANGED <<regVars, recordings, closed, displaced>>

(* An error of the file, after m units at most: it is dropped too, and the *)
(* recording stays.                                                        *)
WriteFails(m) ==
    /\ tee.pc = "write" /\ rec[tee.rec].open
    /\ Capped => rec[tee.rec].written < MaxSize /\ rec[tee.rec].written + m <= MaxSize
    /\ rec' = [rec EXCEPT ![tee.rec].written = @ + m]
    /\ tee' = NoTee
    /\ UNCHANGED <<regVars, recordings, closed, displaced>>

(* The entry of the ID goes, and recording.limit_reached is published.     *)
TeeDelete ==
    /\ tee.pc = "delete"
    /\ displaced' = displaced \cup ({recordings[tee.id]} \ {tee.rec, NoRec})
    /\ Forget(tee.id)
    /\ tee' = NoTee
    /\ UNCHANGED <<regVars, rec, closed>>

(* OnExit of h reaches closeRecording.                                     *)
closeRecording(h) ==
    /\ h \in notified \ closed
    /\ closed' = closed \cup {h}
    /\ IF recordings[Sid[h]] = NoRec THEN UNCHANGED <<recordings, rec>>
       ELSE Close(recordings[Sid[h]]) /\ Forget(Sid[h])
    /\ UNCHANGED <<regVars, tee, displaced>>

(* The sessions come and go as the registry lets them.                     *)
Session ==
    /\ \/ \E h \in Handle : Create(h) \/ Exit(h) \/ Notify(h)
       \/ \E i \in Id : Kill(i)
    /\ UNCHANGED <<recordings, rec, tee, closed, displaced>>

RecNext ==
    \/ \E i \in Id : \/ recordStop(i) \/ TeeLookup(i)
                     \/ \E r \in Rec : recordStart(i, r)
    \/ \E n \in 1..MaxSize + 1 : WriteOver(n) \/ WriteFits(n)
    \/ \E m \in 0..MaxSize : WriteFails(m)
    \/ WriteClosed \/ WriteFull \/ TeeDelete
    \/ \E h \in Handle : closeRecording(h)
    \/ Session

RecSpec == RecInit /\ [][RecNext]_recVars

-----------------------------------------------------------------------------
(* Every variable has its type, and no file outgrows recordingMaxSize,     *)
(* unless its header alone does.                                           *)
RecTypeOK ==
    /\ RegTypeOK
    /\ recordings \in [Id -> Rec \cup {NoRec}]
    /\ rec \in [Rec -> [of : Handle \cup {NoHandle}, open : BOOLEAN, written : Nat]]
    /\ Capped => \A r \in Rec : rec[r].written <= MaxSize \/ rec[r].written = Header
    /\ tee \in [pc : {"idle", "write", "delete"}, id : Id \cup {NoHandle}, rec : Rec \cup {NoRec}]
    /\ closed \subseteq notified /\ displaced \subseteq Rec

(* No recording goes on for a session whose OnExit has passed              *)
(* closeRecording, however a recordStart interleaves with the exit and     *)
(* with the next session of the ID.                                        *)
RecordingEndsWithSession ==
    \A i \in Id : recordings[i] # NoRec => rec[recordings[i]].of \notin closed

(* An open recording can still be stopped: it is in Daemon.recordings.     *)
(* Two cases escape: a file that is full to the byte, which Write reports  *)
(* without closing it, and a recording that a late deletion in             *)
(* teeRecording took for the full one it replaced.                         *)
OpenRecordingIsListed ==
    \A r \in Rec :
        rec[r].open =>
            \/ \E i \in Id : recordings[i] = r
            \/ Capped /\ rec[r].written >= MaxSize
            \/ r \in displaced

(* A listed recording is open, or full and about to be deleted by the      *)
(* teeRecording that filled it: no client sees "already being recorded"    *)
(* for a file nobody writes to.                                            *)
ListedRecordingIsOpen ==
    \A i \in Id :
        recordings[i] # NoRec =>
            \/ rec[recordings[i]].open
            \/ tee = [pc |-> "delete", id |-> i, rec |-> recordings[i]]

(* What clients see of Daemon.recordings and what is on disk agree, up to  *)
(* the cases above: recordStop closes, and teeRecording forgets, the       *)
(* recording whose file it is.                                             *)
RecordingsAgree == OpenRecordingIsListed /\ ListedRecordingIsOpen
=============================================================================
