--------------------------- MODULE Daemon_proofs ----------------------------
(***************************************************************************)
(* The daemon's tables of waiters, recordings and session resources, for   *)
(* any number of sessions, IDs, requests and recordings: types, and what   *)
(* each table promises however its handlers interleave with exits.         *)
(***************************************************************************)
EXTENDS Waiters, Recordings, SessionResources, SessionRegistry_proofs

(* Waiters: handleWait and the notifications.                              *)

(* A handler that got past Get has a session, and one that has not been    *)
(* listed yet has been told nothing.                                       *)
Begun ==
    \A w \in Waiter :
        /\ pc[w] \in {"add", "wait", "remove"} => on[w] \in Handle
        /\ pc[w] \in {"new", "add"} => done[w] = "empty" /\ reply[w] = "none"

ReportedHasExited == \A h \in notified : state[h] = "exited"

(* An "exit" for w is the exit of its session or of an earlier report.     *)
ExitKnown(w) ==
    \/ state[on[w]] = "exited"
    \/ \E h \in notified \ {on[w]} : Sid[h] = Sid[on[w]]

(* What lies in the channel of a waiter is as true as what it answers.     *)
DoneIsTrue ==
    \A w \in Waiter :
        /\ done[w] = "match" => w \in seen
        /\ done[w] = "exit" => on[w] \in Handle /\ ExitKnown(w)

(* RepliesAreTrue, about a waiter that has a session.                      *)
ReplyIsTrue ==
    \A w \in Waiter :
        /\ reply[w] = "match" => w \in seen
        /\ reply[w] = "exit" => on[w] \in Handle /\ ExitKnown(w)

WaitInv ==
    /\ WaitTypeOK /\ ReportedHasExited
    /\ Begun /\ ListedIffWaiting /\ DoneIsTrue /\ ReplyIsTrue

(* Nobody waits at first.                                                  *)
LEMMA WaitInitHolds == WaitInit => WaitInv
BY HandleAssumption DEF WaitInit, RegInit, WaitInv, WaitTypeOK, RegTypeOK, ReportedHasExited, Begun,
   ListedIffWaiting, DoneIsTrue, ReplyIsTrue, SessionState

(* The steps of handleWait touch its own waiter only.                      *)
LEMMA WaitHandlerStep ==
    ASSUME WaitInv, NEW w \in Waiter,
           HandleWait(w) \/ IdleTimer(w) \/ \E i \in Id, m \in Asks[w] : WaitGet(w, i, m)
    PROVE  WaitInv'
<1> USE HandleAssumption, WaiterAssumption
    DEF WaitInv, WaitTypeOK, RegTypeOK, ReportedHasExited, Begun, ListedIffWaiting, DoneIsTrue,
        ReplyIsTrue, ExitKnown, regVars, Mode, Respond
<1>1. ASSUME NEW i \in Id, NEW m \in Asks[w], WaitGet(w, i, m) PROVE WaitInv'
  <2>1. m \in Mode /\ mode' \in [Waiter -> Mode \cup {"none"}]
    BY SMTT(30), <1>1 DEF WaitGet
  <2>2. CASE sessions[i] = NoHandle
    <3>1. WaitTypeOK'
      <4>1. pc' \in [Waiter -> {"new", "add", "wait", "remove", "done"}]
        BY <1>1, <2>2 DEF WaitGet
      <4>2. reply' \in [Waiter -> {"none", "error", "exit", "match", "idle", "timeout"}]
        BY SMTT(30), <1>1, <2>2 DEF WaitGet
      <4>3. UNCHANGED <<sessions, state, killed, notified, on, waiters, done, read, seen, told>>
        BY Zenon, <1>1, <2>2 DEF WaitGet
      <4> QED
        BY Zenon, <2>1, <4>1, <4>2, <4>3
    <3> QED
      BY <1>1, <2>2, <3>1 DEF WaitGet
  <2>3. CASE sessions[i] # NoHandle
    <3>1. WaitTypeOK'
      BY SMTT(30), <1>1, <2>1, <2>3 DEF WaitGet
    <3>2. ListedIffWaiting'
      BY SMTT(30), <1>1, <2>3 DEF WaitGet
    <3>3. DoneIsTrue' /\ ReplyIsTrue'
      BY SMTT(30), <1>1, <2>3 DEF WaitGet
    <3> QED
      BY <1>1, <2>3, <3>1, <3>2, <3>3 DEF WaitGet
  <2> QED
    BY Zenon, <2>2, <2>3
<1>2. CASE AddWaiter(w)
  BY <1>2 DEF AddWaiter
<1>3. CASE Receive(w)
  BY <1>3 DEF Receive
<1>4. CASE TimeOut(w)
  BY <1>4 DEF TimeOut
<1>5. CASE IdleTimer(w)
  BY <1>5 DEF IdleTimer
<1>6. CASE RemoveWaiter(w)
  BY SMTT(30), <1>6 DEF RemoveWaiter
<1> QED
  BY Zenon, <1>1, <1>2, <1>3, <1>4, <1>5, <1>6 DEF HandleWait

(* The broadcaster shows a chunk to those on the list.                     *)
LEMMA WaitOutputStep ==
    ASSUME WaitInv, NotifyOutput \/ \E i \in Id, found \in BOOLEAN : ReadOutput(i, found)
    PROVE  WaitInv'
<1> USE HandleAssumption, WaiterAssumption
    DEF WaitInv, WaitTypeOK, RegTypeOK, ReportedHasExited, Begun, ListedIffWaiting, DoneIsTrue,
        ReplyIsTrue, ExitKnown, regVars, waitVars
<1>1. ASSUME NEW i \in Id, NEW found \in BOOLEAN, ReadOutput(i, found) PROVE WaitInv'
  BY <1>1 DEF ReadOutput
<1>2. CASE NotifyOutput
  <2>1. Shown \subseteq Waiter /\ \A w \in Shown : pc[w] \in {"wait", "remove"}
    BY Zenon, <1>2 DEF NotifyOutput, Shown
  <2> QED
    BY <1>2, <2>1 DEF NotifyOutput, Send
<1> QED
  BY <1>1, <1>2

(* NotifyWaiters reaches the waiters of its ID, whose session is its own or a     *)
(* later one.                                                              *)
LEMMA WaitExitStep ==
    ASSUME WaitInv, NEW h \in Handle, NotifyWaiters(h)
    PROVE  WaitInv'
<1> USE HandleAssumption, WaiterAssumption
    DEF WaitInv, WaitTypeOK, RegTypeOK, ReportedHasExited, Begun, ListedIffWaiting, DoneIsTrue,
        ReplyIsTrue, ExitKnown, regVars
<1>1. CASE NotifyExit(h)
  BY <1>1 DEF NotifyExit, Notify, Send
<1>2. CASE NotifyNonExit(h)
  BY SMTT(30), <1>2 DEF NotifyNonExit, Send
<1> QED
  BY Zenon, <1>1, <1>2 DEF NotifyWaiters

(* A session that is created, killed or exits leaves every waiter as it is *)
(* and un-exits no session.                                                *)
LEMMA WaitRegistryStep ==
    ASSUME WaitInv, SessionStep
    PROVE  WaitInv'
<1> USE HandleAssumption, WaiterAssumption
    DEF WaitInv, WaitTypeOK, RegTypeOK, ReportedHasExited, Begun, ListedIffWaiting, DoneIsTrue,
        ReplyIsTrue, ExitKnown, waitVars, SessionState, Live
<1>1. ASSUME NEW h \in Handle, Create(h), UNCHANGED <<waitVars, read, told>> PROVE WaitInv'
  BY <1>1 DEF Create
<1>2. ASSUME NEW h \in Handle, Exit(h), UNCHANGED <<waitVars, read, told>> PROVE WaitInv'
  BY <1>2 DEF Exit
<1>3. ASSUME NEW i \in Id, Kill(i), UNCHANGED <<waitVars, read, told>> PROVE WaitInv'
  BY <1>3 DEF Kill
<1> QED
  BY Zenon, <1>1, <1>2, <1>3 DEF SessionStep

(* The inductive invariant holds throughout.                               *)
LEMMA WaitInvariance == WaitSpec => []WaitInv
<1>1. WaitInv /\ [WaitNext]_daemonVars => WaitInv'
  <2> SUFFICES ASSUME WaitInv, [WaitNext]_daemonVars PROVE WaitInv'
    BY Zenon
  <2>1. CASE UNCHANGED daemonVars
    BY <2>1 DEF daemonVars, regVars, waitVars, WaitInv, WaitTypeOK, RegTypeOK, ReportedHasExited, Begun,
       ListedIffWaiting, DoneIsTrue, ReplyIsTrue, ExitKnown
  <2> QED
    BY Zenon, <2>1, WaitHandlerStep, WaitOutputStep, WaitExitStep, WaitRegistryStep DEF WaitNext
<1> QED
  BY WaitInitHolds, <1>1, PTL DEF WaitSpec

(* The waiters and their handlers are well typed.                          *)
THEOREM WaitTypeCorrect == WaitSpec => []WaitTypeOK
<1>1. WaitInv => WaitTypeOK
  BY Zenon DEF WaitInv
<1> QED
  BY WaitInvariance, <1>1, PTL

(* No waiter stays in Daemon.waiters behind its handler, and none is       *)
(* missing there while its handler waits.                                  *)
THEOREM ListedCorrect == WaitSpec => []ListedIffWaiting
<1>1. WaitInv => ListedIffWaiting
  BY Zenon DEF WaitInv
<1> QED
  BY WaitInvariance, <1>1, PTL

(* handleWait answers "match" only after a match and "exit" only after an  *)
(* exit under its ID, whichever of exit, output and timeout comes first.   *)
THEOREM RepliesCorrect == WaitSpec => []RepliesAreTrue
<1>1. WaitInv => RepliesAreTrue
  BY Zenon DEF WaitInv, ReplyIsTrue, RepliesAreTrue, ExitKnown
<1> QED
  BY WaitInvariance, <1>1, PTL

-----------------------------------------------------------------------------
(* Recordings: start, stop, tee and closeRecording.                        *)

(* The entry of an ID records a session of this ID, one whose OnExit has   *)
(* not passed closeRecording.                                              *)
Filed ==
    \A i \in Id : recordings[i] # NoRec =>
        /\ rec[recordings[i]].of \in Handle \ closed
        /\ Sid[rec[recordings[i]].of] = i

(* What the broadcaster holds between its critical sections: a recording   *)
(* of the ID it looked up, which is closed or full when it is to be        *)
(* deleted.                                                                *)
TeeHolds ==
    tee.pc # "idle" =>
        /\ tee.rec \in Rec /\ tee.id \in Id
        /\ rec[tee.rec].of \in Handle
        /\ Sid[rec[tee.rec].of] = tee.id
        /\ tee.pc = "delete" =>
              ~rec[tee.rec].open \/ (Capped /\ rec[tee.rec].written >= MaxSize)

NotifiedIsExited == \A h \in notified : state[h] = "exited"

RecInv ==
    /\ RecTypeOK /\ RegisteredIsLive /\ NotifiedIsExited
    /\ Filed /\ TeeHolds /\ ListedRecordingIsOpen /\ OpenRecordingIsListed

(* The actions of RecNext, by what they do to the recordings.                 *)
LEMMA RecStepCases ==
    ASSUME [RecNext]_recVars
    PROVE  \/ \E i \in Id, r \in Rec : recordStart(i, r)
           \/ \E i \in Id : recordStop(i)
           \/ \E i \in Id : TeeLookup(i)
           \/ \E n \in 1..MaxSize + 1 : WriteOver(n)
           \/ \E n \in 1..MaxSize + 1 : WriteFits(n)
           \/ \E m \in 0..MaxSize : WriteFails(m)
           \/ WriteClosed \/ WriteFull \/ TeeDelete
           \/ \E h \in Handle : closeRecording(h)
           \/ Session
           \/ UNCHANGED recVars
BY Zenon DEF RecNext

(* Sessions are touched only through the operations of the registry.       *)
LEMMA RecStepIsRegStep == [RecNext]_recVars => [RegNext]_regVars
BY Zenon, RecStepCases DEF recordStart, recordStop, TeeLookup, WriteOver, WriteFits,
   WriteFails, WriteClosed, WriteFull, TeeDelete, closeRecording, Session, recVars, RegNext

(* Whoever was reported has exited: Notify says so, and an exited session  *)
(* changes no more.                                                        *)
LEMMA NotifiedStep ==
    RegTypeOK /\ RegisteredIsLive /\ NotifiedIsExited /\ [RegNext]_regVars => NotifiedIsExited'
<1> SUFFICES ASSUME RegTypeOK, RegisteredIsLive, NotifiedIsExited, [RegNext]_regVars
             PROVE  NotifiedIsExited'
  BY Zenon
<1> USE HandleAssumption DEF RegTypeOK, RegisteredIsLive, Registered, NotifiedIsExited, Live
<1>1. ASSUME NEW h \in Handle, Create(h) PROVE NotifiedIsExited'
  BY Zenon, <1>1 DEF Create
<1>2. ASSUME NEW h \in Handle, Exit(h) PROVE NotifiedIsExited'
  BY Zenon, <1>2 DEF Exit
<1>3. ASSUME NEW h \in Handle, Notify(h) PROVE NotifiedIsExited'
  BY Zenon, <1>3 DEF Notify
<1>4. ASSUME NEW i \in Id, Kill(i) PROVE NotifiedIsExited'
  BY Zenon, <1>4 DEF Kill
<1>5. ASSUME NEW i \in Id, Attach(i) PROVE NotifiedIsExited'
  BY Zenon, <1>5 DEF Attach
<1>6. ASSUME NEW i \in Id, Detach(i) PROVE NotifiedIsExited'
  BY Zenon, <1>6 DEF Detach
<1>7. CASE UNCHANGED regVars
  BY Zenon, <1>7 DEF regVars
<1> QED
  BY Zenon, <1>1, <1>2, <1>3, <1>4, <1>5, <1>6, <1>7 DEF RegNext

(* Closing a file changes neither its session nor its size.                *)
LEMMA CloseType ==
    ASSUME RecTypeOK, NEW r \in Rec, Close(r)
    PROVE  /\ rec' \in [Rec -> [of : Handle \cup {NoHandle}, open : BOOLEAN, written : Nat]]
           /\ \A q \in Rec : rec'[q].of = rec[q].of /\ rec'[q].written = rec[q].written
BY Zenon DEF RecTypeOK, Close

(* Each step keeps what is known of the recordings.  A start adds an entry *)
(* for a live session, which no OnExit has closed; a stop, a deletion and  *)
(* closeRecording empty the one entry that lists their recording.          *)
LEMMA RecStep == RecInv /\ RegTypeOK' /\ [RecNext]_recVars =>
    (RecTypeOK /\ Filed /\ TeeHolds /\ ListedRecordingIsOpen /\ OpenRecordingIsListed)'
<1> DEFINE Goal == (RecTypeOK /\ Filed /\ TeeHolds /\ ListedRecordingIsOpen /\ OpenRecordingIsListed)'
<1> SUFFICES ASSUME RecInv, RegTypeOK', [RecNext]_recVars PROVE Goal
  BY Zenon
<1> USE HandleAssumption, RecordingAssumption
    DEF RecInv, RecTypeOK, RegTypeOK, Filed, TeeHolds, ListedRecordingIsOpen,
        OpenRecordingIsListed, Capped, Forget, Close, NoTee
<1>1. ASSUME NEW i \in Id, NEW r \in Rec, recordStart(i, r) PROVE Goal
  BY <1>1 DEF recordStart, NewWriter, RegisteredIsLive, Registered, NotifiedIsExited, Live, regVars
<1>2. ASSUME NEW i \in Id, recordStop(i) PROVE Goal
  <2>1. RecTypeOK'
    BY Zenon, <1>2, CloseType DEF recordStop, regVars
  <2>2. Filed'
    BY <1>2 DEF recordStop, regVars
  <2>3. TeeHolds'
    BY <1>2 DEF recordStop, regVars
  <2>4. ListedRecordingIsOpen'
    BY <1>2 DEF recordStop, regVars
  <2>5. OpenRecordingIsListed'
    BY SMTT(30), <1>2 DEF recordStop, regVars
  <2> QED
    BY Zenon, <2>1, <2>2, <2>3, <2>4, <2>5
<1>3. ASSUME NEW i \in Id, TeeLookup(i) PROVE Goal
  BY <1>3 DEF TeeLookup, regVars
<1>4. ASSUME NEW n \in 1..MaxSize + 1, WriteOver(n) PROVE Goal
  <2>1. RecTypeOK'
    BY Zenon, <1>4, CloseType DEF WriteOver, regVars
  <2>2. Filed'
    BY <1>4 DEF WriteOver, regVars
  <2>3. TeeHolds'
    BY <1>4 DEF WriteOver, regVars
  <2>4. ListedRecordingIsOpen'
    BY <1>4 DEF WriteOver, regVars
  <2>5. OpenRecordingIsListed'
    BY <1>4 DEF WriteOver, regVars
  <2> QED
    BY Zenon, <2>1, <2>2, <2>3, <2>4, <2>5
<1>5. ASSUME NEW n \in 1..MaxSize + 1, WriteFits(n) PROVE Goal
  BY SMTT(30), <1>5 DEF WriteFits, regVars
<1>6. CASE WriteClosed
  BY <1>6 DEF WriteClosed, regVars
<1>7. CASE WriteFull
  <2>0. Capped /\ rec[tee.rec].written >= MaxSize
    BY Zenon, <1>7 DEF WriteFull
  <2>1. RecTypeOK'
    BY Zenon, <2>0, <1>7 DEF WriteFull, regVars
  <2>2. Filed'
    BY Zenon, <2>0, <1>7 DEF WriteFull, regVars
  <2>3. TeeHolds'
    BY Zenon, <2>0, <1>7 DEF WriteFull, regVars
  <2>4. ListedRecordingIsOpen'
    BY <2>0, <1>7 DEF WriteFull, regVars
  <2>5. OpenRecordingIsListed'
    BY Zenon, <2>0, <1>7 DEF WriteFull, regVars
  <2> QED
    BY Zenon, <2>1, <2>2, <2>3, <2>4, <2>5
<1>8. CASE TeeDelete
  BY <1>8 DEF TeeDelete, regVars
<1>9. ASSUME NEW h \in Handle, closeRecording(h) PROVE Goal
  <2>0. recordings[Sid[h]] = NoRec \/ recordings[Sid[h]] # NoRec
    BY Zenon
  <2>1. RecTypeOK'
    BY <2>0, <1>9, CloseType DEF closeRecording, regVars
  <2>2. Filed'
    BY <2>0, <1>9 DEF closeRecording, regVars
  <2>3. TeeHolds'
    BY <2>0, <1>9 DEF closeRecording, regVars
  <2>4. ListedRecordingIsOpen'
    BY SMTT(30), <2>0, <1>9 DEF closeRecording, regVars
  <2>5. OpenRecordingIsListed'
    BY <2>0, <1>9 DEF closeRecording, regVars
  <2> QED
    BY Zenon, <2>1, <2>2, <2>3, <2>4, <2>5
<1>10. CASE Session
  BY Zenon, <1>10 DEF Session, Create, Exit, Notify, Kill
<1>11. CASE UNCHANGED recVars
  BY Zenon, <1>11 DEF recVars, regVars
<1>12. ASSUME NEW m \in 0..MaxSize, WriteFails(m) PROVE Goal
  BY <1>12 DEF WriteFails, regVars
<1> QED
  BY Zenon, <1>1, <1>2, <1>3, <1>4, <1>5, <1>6, <1>7, <1>8, <1>9, <1>10, <1>11, <1>12, RecStepCases

(* Nothing is recorded at first.                                           *)
LEMMA RecInitHolds == RecInit => RecInv
<1> SUFFICES ASSUME RecInit PROVE RecInv
  BY Zenon
<1>1. RegTypeOK /\ RegisteredIsLive
  BY Zenon, RegInitHolds DEF RecInit
<1> QED
  BY <1>1, HandleAssumption, RecordingAssumption
  DEF RecInit, RegInit, RecInv, RecTypeOK, NotifiedIsExited, Filed, TeeHolds, ListedRecordingIsOpen,
      OpenRecordingIsListed, NoTee, NoWriter, Capped

(* The inductive invariant holds throughout.                               *)
LEMMA RecInvariance == RecSpec => []RecInv
<1>1. RecInv /\ [RecNext]_recVars => RecInv'
  <2> SUFFICES ASSUME RecInv, [RecNext]_recVars PROVE RecInv'
    BY Zenon
  <2>1. [RegNext]_regVars /\ RegTypeOK
    BY Zenon, RecStepIsRegStep DEF RecInv, RecTypeOK
  <2>2. RegTypeOK' /\ RegisteredIsLive' /\ NotifiedIsExited'
    BY Zenon, <2>1, RegTypeStep, RegLiveStep, NotifiedStep DEF RecInv
  <2> QED
    BY Zenon, <2>2, RecStep DEF RecInv
<1> QED
  BY RecInitHolds, <1>1, PTL DEF RecSpec

(* The recordings are well typed and no file outgrows recordingMaxSize,    *)
(* unless its header alone does.                                           *)
THEOREM RecTypeCorrect == RecSpec => []RecTypeOK
<1>1. RecInv => RecTypeOK
  BY Zenon DEF RecInv
<1> QED
  BY RecInvariance, <1>1, PTL

(* closeRecording in OnExit is final: no recordStart can slip in behind it *)
(* and record a session that is over.                                      *)
THEOREM EndsCorrect == RecSpec => []RecordingEndsWithSession
<1>1. RecInv => RecordingEndsWithSession
  BY Zenon DEF RecInv, Filed, RecordingEndsWithSession
<1> QED
  BY RecInvariance, <1>1, PTL

(* Files and Daemon.recordings agree: the two ways in which teeRecording   *)
(* leaves a file open that nobody can stop any more are the only ones, and *)
(* a recording that clients see as running has an open file, up to the     *)
(* moment between the closing of a full file and its deletion.             *)
THEOREM AgreeCorrect == RecSpec => []RecordingsAgree
<1>1. RecInv => RecordingsAgree
  BY Zenon DEF RecInv, RecordingsAgree
<1> QED
  BY RecInvariance, <1>1, PTL

-----------------------------------------------------------------------------
(* SessionResources                                                        *)

(* A metadata file that parses.                                            *)
Metadata == [of: Handle, ended: BOOLEAN]

(* The steps of handleCreate and of OnExit that follow a given one.        *)
Beyond ==
    [scroll |-> {"tracker", "counter", "writer", "done"},
     tracker |-> {"counter", "writer", "done"},
     counter |-> {"writer", "done"},
     writer |-> {"done"}]

ResTypeOK ==
    /\ state \in [Handle -> SessionState \cup {"unborn"}]
    /\ make \in [Handle -> {"none", "meta", "metaWrite", "scroll", "dead"} \cup Beyond.scroll]
    /\ exit \in [Handle -> {"none", "scroll", "metaRead", "metaOpen", "metaWrite", "dead"}
                             \cup Beyond.scroll]
    /\ copy \in [Handle -> Metadata \cup {NoMeta}]
    /\ table \in [Table -> [Id -> Handle \cup {NoHandle}]]
    /\ scroll \in [Id -> Handle \cup {NoHandle}]
    /\ meta \in [Id -> Metadata \cup {NoMeta, Torn}]

(* How far a session, its handleCreate and its OnExit are together.        *)
InStep ==
    \A h \in Handle :
        /\ state[h] = "unborn" <=> make[h] = "none"
        /\ make[h] = "dead" <=> exit[h] = "dead"
        /\ exit[h] # "none" <=> h \in notified
        /\ exit[h] # "none" => state[h] = "exited"
        /\ exit[h] \notin {"none", "dead"} /\ h \notin fast => make[h] = "done"
        /\ exit[h] \in {"metaOpen", "metaWrite"} => copy[h] \in Metadata
        /\ ~up => exit[h] \in {"none", "dead"} /\ make[h] \in {"none", "dead"}

(* Unless they overlapped, of the sessions of one ID at most one is        *)
(* between its Create and the end of its OnExit.                           *)
Alone ==
    \A h \in Handle \ overlapped : \A g \in Peers(h) :
        /\ state[h] # "unborn" /\ ~Settled(h)
        /\ state[g] # "unborn"
        => Settled(g)

(* An entry of a table is filed under its ID by a handleCreate that is     *)
(* past that step, and OnExit has not been past it unless it came first.   *)
EntriesAreOwn ==
    \A h \in Handle :
        /\ \A i \in Id, t \in Table :
              table[t][i] = h =>
                 /\ Sid[h] = i /\ make[h] \in Beyond[t]
                 /\ exit[h] \in Beyond[t] => h \in fast
        /\ \A i \in Id : scroll[i] = h => Sid[h] = i
        /\ h \in scrollOpen => make[h] \in Beyond.scroll

(* What a session that overlapped no other has of its own at each step.    *)
Own(h) ==
    /\ exit[h] = "none" => \A t \in Table : make[h] \in Beyond[t] => table[t][Sid[h]] = h
    /\ exit[h] \in {"none", "scroll"} /\ h \in scrollOpen => scroll[Sid[h]] = h
    /\ exit[h] \notin {"none", "scroll"} /\ h \notin fast => h \notin scrollOpen
    /\ exit[h] = "none" /\ h \notin Faulty =>
          /\ make[h] \in Beyond.scroll => h \in scrollOpen
          /\ make[h] \in {"scroll"} \cup Beyond.scroll =>
                meta[Sid[h]] = [of |-> h, ended |-> FALSE]

OwnAlone == \A h \in Handle \ overlapped : Own(h)

(* A metadata file, and the copy UpdateMetadataExit made of one, is about  *)
(* a session of the ID it is filed under.                                  *)
MetaFiled ==
    /\ \A i \in Id : meta[i] \in Metadata => Sid[meta[i].of] = i
    /\ \A h \in Handle : copy[h] \in Metadata => Sid[copy[h].of] = Sid[h]

(* Once OnExit has rewritten the metadata, or a restart has, no file says  *)
(* that the session runs.                                                  *)
EndWritten ==
    \A h \in Handle, i \in Id :
        \/ up /\ exit[h] = "dead"
        \/ exit[h] \in {"metaWrite"} \cup Beyond.scroll /\ h \notin fast \cup Faulty
        => meta[i] # [of |-> h, ended |-> FALSE]

ResInv ==
    /\ ResTypeOK /\ InStep /\ Alone /\ EntriesAreOwn /\ OwnAlone
    /\ MetaFiled /\ EndWritten

(* The records of a metadata file are told apart from no file.             *)
LEMMA MetadataIsFile ==
    /\ NoMeta \notin Metadata /\ Torn \notin Metadata
    /\ \A h \in Handle, e \in BOOLEAN : [of |-> h, ended |-> e] \in Metadata
    /\ \A m \in Metadata : /\ [m EXCEPT !.ended = TRUE] \in Metadata
                           /\ [m EXCEPT !.ended = TRUE].ended = TRUE
                           /\ m.of \in Handle /\ m.ended \in BOOLEAN
                           /\ ~m.ended => m = [of |-> m.of, ended |-> FALSE]
<1>1. NoMeta \notin Metadata /\ Torn \notin Metadata
  BY Zenon, ResourceAssumption DEF Metadata
<1>2. \A h \in Handle, e \in BOOLEAN : [of |-> h, ended |-> e] \in Metadata
  BY Zenon DEF Metadata
<1>3. ASSUME NEW m \in Metadata
      PROVE  /\ [m EXCEPT !.ended = TRUE] \in Metadata
             /\ [m EXCEPT !.ended = TRUE].ended = TRUE
             /\ m.of \in Handle /\ m.ended \in BOOLEAN
             /\ ~m.ended => m = [of |-> m.of, ended |-> FALSE]
  BY Zenon DEF Metadata
<1> QED
  BY Zenon, <1>1, <1>2, <1>3

(* A step of the program is a step of one of these actions.                *)
LEMMA ResCases ==
    ASSUME ResNext
    PROVE  \/ \E h \in Handle : \/ CreateSession(h) \/ MakeMetaOpen(h)
                                \/ MakeMetaWrite(h) \/ MakeFails(h) \/ MakeScroll(h)
                                \/ \E t \in Table : MakeEntry(h, t)
           \/ \E h \in Handle : \/ ExitSession(h) \/ ExitBegin(h) \/ ExitScroll(h)
                                \/ ExitMetaRead(h) \/ ExitMetaNone(h) \/ ExitMetaOpen(h)
                                \/ ExitMetaWrite(h) \/ ExitMetaFails(h)
                                \/ \E t \in Table : ExitEntry(h, t)
           \/ \E i \in Id : KillSession(i)
           \/ Crash \/ Restart
BY Zenon DEF ResNext, Maker, OnExit

(* Every step keeps the types.                                             *)
LEMMA ResTypeStep ==
    ASSUME ResTypeOK, InStep, [ResNext]_resVars
    PROVE  ResTypeOK'
<1> USE HandleAssumption DEF ResTypeOK, Beyond
<1>1. ASSUME NEW h \in Handle, CreateSession(h) PROVE ResTypeOK'
  BY Zenon, <1>1 DEF CreateSession, Create, tableVars, metaVars, SessionState
<1>2. ASSUME NEW h \in Handle, MakeMetaOpen(h) PROVE ResTypeOK'
  BY Zenon, <1>2 DEF MakeMetaOpen, MakeStep, tableVars, regVars
<1>3. ASSUME NEW h \in Handle, MakeMetaWrite(h) PROVE ResTypeOK'
  BY Zenon, <1>3 DEF MakeMetaWrite, MakeStep, tableVars, regVars, Metadata
<1>4. ASSUME NEW h \in Handle, MakeFails(h) PROVE ResTypeOK'
  BY Zenon, <1>4 DEF MakeFails, MakeStep, tableVars, regVars
<1>5. ASSUME NEW h \in Handle, MakeScroll(h) PROVE ResTypeOK'
  BY Zenon, <1>5 DEF MakeScroll, MakeStep, metaVars, regVars
<1>6. ASSUME NEW h \in Handle, NEW t \in Table, MakeEntry(h, t) PROVE ResTypeOK'
  <2>1. make' = [make EXCEPT ![h] = After[t]] /\ After[t] \in Beyond.scroll
        /\ UNCHANGED <<state, exit, copy, scroll, meta>>
    BY <1>6 DEF MakeEntry, MakeStep, metaVars, regVars, After, Table
  <2>2. table' \in [Table -> [Id -> Handle \cup {NoHandle}]]
    BY Zenon, <1>6 DEF MakeEntry
  <2> QED
    BY Zenon, <2>1, <2>2
<1>7. ASSUME NEW i \in Id, KillSession(i) PROVE ResTypeOK'
  BY Zenon, <1>7 DEF KillSession, Kill, tableVars, metaVars
<1>8. ASSUME NEW h \in Handle, ExitSession(h) PROVE ResTypeOK'
  BY Zenon, <1>8 DEF ExitSession, Exit, tableVars, metaVars, SessionState
<1>9. ASSUME NEW h \in Handle, ExitBegin(h) PROVE ResTypeOK'
  BY Zenon, <1>9 DEF ExitBegin, Notify, tableVars, metaVars
<1>10. ASSUME NEW h \in Handle, ExitScroll(h) PROVE ResTypeOK'
  BY Zenon, <1>10 DEF ExitScroll, ExitStep, metaVars, regVars
<1>11. ASSUME NEW h \in Handle, ExitMetaRead(h) PROVE ResTypeOK'
  BY Zenon, <1>11 DEF ExitMetaRead, ExitStep, tableVars, regVars
<1>12. ASSUME NEW h \in Handle, ExitMetaNone(h) PROVE ResTypeOK'
  BY Zenon, <1>12 DEF ExitMetaNone, ExitStep, tableVars, metaVars, regVars
<1>13. ASSUME NEW h \in Handle, ExitMetaOpen(h) PROVE ResTypeOK'
  BY Zenon, <1>13 DEF ExitMetaOpen, ExitStep, tableVars, regVars
<1>14. ASSUME NEW h \in Handle, ExitMetaWrite(h) PROVE ResTypeOK'
  <2>1. copy[h] \in Metadata
    BY Zenon, <1>14 DEF ExitMetaWrite, ExitStep, InStep
  <2>2. [copy[h] EXCEPT !.ended = TRUE] \in Metadata
    BY Zenon, <2>1, MetadataIsFile
  <2> QED
    BY Zenon, <1>14, <2>2 DEF ExitMetaWrite, ExitStep, tableVars, regVars
<1>15. ASSUME NEW h \in Handle, ExitMetaFails(h) PROVE ResTypeOK'
  BY Zenon, <1>15 DEF ExitMetaFails, ExitStep, tableVars, regVars
<1>16. ASSUME NEW h \in Handle, NEW t \in Table, ExitEntry(h, t) PROVE ResTypeOK'
  <2>1. exit' = [exit EXCEPT ![h] = After[t]] /\ After[t] \in Beyond.scroll
        /\ UNCHANGED <<state, make, copy, scroll, meta>>
    BY <1>16 DEF ExitEntry, ExitStep, metaVars, regVars, After, Table
  <2>2. table' \in [Table -> [Id -> Handle \cup {NoHandle}]]
    BY Zenon, <1>16 DEF ExitEntry
  <2> QED
    BY Zenon, <2>1, <2>2
<1>17. CASE Crash
  BY Zenon, <1>17 DEF Crash, SessionState
<1>18. CASE Restart
  <2>1. meta' \in [Id -> Metadata \cup {NoMeta, Torn}]
    BY Zenon, <1>18, MetadataIsFile DEF Restart, ReconcileOrphans
  <2> QED
    BY Zenon, <1>18, <2>1 DEF Restart, tableVars, regVars
<1>19. CASE UNCHANGED resVars
  BY Zenon, <1>19 DEF resVars, regVars, tableVars, metaVars
<1> QED
  BY Zenon, <1>1, <1>2, <1>3, <1>4, <1>5, <1>6, <1>7, <1>8, <1>9, <1>10, <1>11, <1>12,
     <1>13, <1>14, <1>15, <1>16, <1>17, <1>18, <1>19, ResCases

(* Every step keeps handleCreate and OnExit in step.                       *)
LEMMA InStepStep ==
    ASSUME ResTypeOK, InStep, [ResNext]_resVars
    PROVE  InStep'
<1> USE DEF ResTypeOK, InStep
<1>1. ASSUME NEW h \in Handle, CreateSession(h) PROVE InStep'
  BY Zenon, <1>1 DEF CreateSession, Create, tableVars, metaVars
<1>2. ASSUME NEW h \in Handle, MakeMetaOpen(h) PROVE InStep'
  BY Zenon, <1>2 DEF MakeMetaOpen, MakeStep, tableVars, regVars
<1>3. ASSUME NEW h \in Handle, MakeMetaWrite(h) PROVE InStep'
  BY Zenon, <1>3 DEF MakeMetaWrite, MakeStep, tableVars, regVars
<1>4. ASSUME NEW h \in Handle, MakeFails(h) PROVE InStep'
  BY <1>4 DEF MakeFails, MakeStep, tableVars, regVars
<1>5. ASSUME NEW h \in Handle, MakeScroll(h) PROVE InStep'
  BY Zenon, <1>5 DEF MakeScroll, MakeStep, metaVars, regVars
<1>6. ASSUME NEW h \in Handle, NEW t \in Table, MakeEntry(h, t) PROVE InStep'
  BY <1>6 DEF MakeEntry, MakeStep, metaVars, regVars, After, Table
<1>7. ASSUME NEW i \in Id, KillSession(i) PROVE InStep'
  BY Zenon, <1>7 DEF KillSession, Kill, tableVars, metaVars
<1>8. ASSUME NEW h \in Handle, ExitSession(h) PROVE InStep'
  BY Zenon, <1>8 DEF ExitSession, Exit, Live, tableVars, metaVars
<1>9. ASSUME NEW h \in Handle, ExitBegin(h) PROVE InStep'
  BY Zenon, <1>9 DEF ExitBegin, Notify, tableVars, metaVars
<1>10. ASSUME NEW h \in Handle, ExitScroll(h) PROVE InStep'
  BY Zenon, <1>10 DEF ExitScroll, ExitStep, metaVars, regVars
<1>11. ASSUME NEW h \in Handle, ExitMetaRead(h) PROVE InStep'
  <2>1. meta[Sid[h]] \in Metadata
    BY Zenon, <1>11, HandleAssumption DEF ExitMetaRead
  <2> QED
    BY Zenon, <1>11, <2>1 DEF ExitMetaRead, ExitStep, tableVars, regVars
<1>12. ASSUME NEW h \in Handle, ExitMetaNone(h) PROVE InStep'
  BY Zenon, <1>12 DEF ExitMetaNone, ExitStep, tableVars, metaVars, regVars
<1>13. ASSUME NEW h \in Handle, ExitMetaOpen(h) PROVE InStep'
  BY Zenon, <1>13 DEF ExitMetaOpen, ExitStep, tableVars, regVars
<1>14. ASSUME NEW h \in Handle, ExitMetaWrite(h) PROVE InStep'
  BY Zenon, <1>14 DEF ExitMetaWrite, ExitStep, tableVars, regVars
<1>15. ASSUME NEW h \in Handle, ExitMetaFails(h) PROVE InStep'
  BY SMTT(30), <1>15 DEF ExitMetaFails, ExitStep, tableVars, regVars
<1>16. ASSUME NEW h \in Handle, NEW t \in Table, ExitEntry(h, t) PROVE InStep'
  BY <1>16 DEF ExitEntry, ExitStep, metaVars, regVars, After, Table
<1>17. CASE Crash
  BY Zenon, <1>17 DEF Crash
<1>18. CASE Restart
  BY Zenon, <1>18 DEF Restart, tableVars, regVars
<1>19. CASE UNCHANGED resVars
  BY Zenon, <1>19 DEF resVars, regVars, tableVars, metaVars
<1> QED
  BY Zenon, <1>1, <1>2, <1>3, <1>4, <1>5, <1>6, <1>7, <1>8, <1>9, <1>10, <1>11, <1>12,
     <1>13, <1>14, <1>15, <1>16, <1>17, <1>18, <1>19, ResCases

(* A settled session stays settled; only Create makes a session, and only  *)
(* Create changes overlapped.                                              *)
LEMMA SettledStays ==
    ASSUME ResTypeOK, InStep, [ResNext]_resVars, NEW h \in Handle
    PROVE  /\ Settled(h) => Settled(h)'
           /\ \/ \E g \in Handle : CreateSession(g)
              \/ /\ overlapped' = overlapped
                 /\ (state[h] = "unborn")' = (state[h] = "unborn")
<1> USE DEF ResTypeOK, InStep, Settled
<1>1. ASSUME NEW g \in Handle, CreateSession(g) PROVE Settled(h) => Settled(h)'
  BY Zenon, <1>1 DEF CreateSession
<1>2. ASSUME NEW g \in Handle,
             \/ MakeMetaOpen(g) \/ MakeMetaWrite(g) \/ MakeFails(g) \/ MakeScroll(g)
             \/ \E t \in Table : MakeEntry(g, t)
      PROVE  UNCHANGED <<exit, fast, overlapped, state>>
  BY Zenon, <1>2 DEF MakeMetaOpen, MakeMetaWrite, MakeFails, MakeScroll, MakeEntry, MakeStep,
     regVars
<1>3. ASSUME NEW i \in Id, KillSession(i)
      PROVE  UNCHANGED <<exit, fast, overlapped, state>>
  BY Zenon, <1>3 DEF KillSession, Kill
<1>4. ASSUME NEW g \in Handle, ExitSession(g)
      PROVE  /\ UNCHANGED <<exit, fast, overlapped>>
             /\ state'[h] = "unborn" <=> state[h] = "unborn"
  BY Zenon, <1>4 DEF ExitSession, Exit, Live
<1>5. ASSUME NEW g \in Handle, ExitBegin(g)
      PROVE  /\ Settled(h) => Settled(h)'
             /\ UNCHANGED <<overlapped, state>>
  BY Zenon, <1>5 DEF ExitBegin, Notify
<1>6. ASSUME NEW g \in Handle,
             \/ ExitScroll(g) \/ ExitMetaRead(g) \/ ExitMetaNone(g) \/ ExitMetaOpen(g)
             \/ ExitMetaWrite(g) \/ ExitMetaFails(g) \/ \E t \in Table : ExitEntry(g, t)
      PROVE  /\ Settled(h) => Settled(h)'
             /\ UNCHANGED <<overlapped, state>>
  <2>1. PICK from, to : ExitStep(g, from, to) /\ from \notin {"none", "done", "dead"}
    BY <1>6 DEF ExitScroll, ExitMetaRead, ExitMetaNone, ExitMetaOpen, ExitMetaWrite,
       ExitMetaFails, ExitEntry, Table
  <2> QED
    BY Zenon, <2>1 DEF ExitStep, regVars
<1>7. CASE Crash
  BY Zenon, <1>7 DEF Crash
<1>8. CASE Restart
  BY Zenon, <1>8 DEF Restart, regVars
<1>9. CASE UNCHANGED resVars
  BY Zenon, <1>9 DEF resVars, regVars
<1>10. CASE UNCHANGED <<exit, fast, overlapped, state>>
  BY Zenon, <1>10
<1> QED
  BY Zenon, <1>1, <1>2, <1>3, <1>4, <1>5, <1>6, <1>7, <1>8, <1>9, <1>10, ResCases

(* Every step keeps sessions that did not overlap alone under their ID.    *)
LEMMA AloneStep ==
    ASSUME ResTypeOK, InStep, Alone, [ResNext]_resVars
    PROVE  Alone'
<1> SUFFICES ASSUME NEW h \in Handle, h \notin overlapped', NEW g \in Handle, g # h,
                    Sid[g] = Sid[h], state'[h] # "unborn", ~Settled(h)',
                    state'[g] # "unborn"
             PROVE  Settled(g)'
  BY Zenon DEF Alone, Peers
<1>1. ~Settled(h) /\ (Settled(g) => Settled(g)')
  BY Zenon, SettledStays
<1>2. ASSUME NEW c \in Handle, CreateSession(c) PROVE Settled(g)
  <2> DEFINE met == {x \in Peers(c) : state[x] # "unborn" /\ ~Settled(x)}
  <2>1. /\ overlapped' = overlapped \cup met \cup (IF met = {} THEN {} ELSE {c})
        /\ state' = [state EXCEPT ![c] = "alive"]
    BY Zenon, <1>2 DEF CreateSession, Create
  <2>2. h \notin overlapped /\ h \notin met
    BY Zenon, <2>1
  <2>3. CASE h = c
    BY Zenon, <2>1, <2>3 DEF Peers, ResTypeOK
  <2>4. CASE g = c
    BY Zenon, <1>1, <2>1, <2>2, <2>4 DEF Peers, ResTypeOK
  <2>5. CASE h # c /\ g # c
    BY Zenon, <1>1, <2>1, <2>2, <2>5 DEF Alone, Peers, ResTypeOK
  <2> QED
    BY Zenon, <2>3, <2>4, <2>5
<1>3. CASE ~\E c \in Handle : CreateSession(c)
  <2>1. overlapped' = overlapped /\ state[h] # "unborn" /\ state[g] # "unborn"
    BY Zenon, <1>3, SettledStays
  <2> QED
    BY Zenon, <1>1, <2>1 DEF Alone, Peers
<1> QED
  BY Zenon, <1>1, <1>2, <1>3

(* While a session that overlapped no other is between its Create and the  *)
(* end of its OnExit, no other session of its ID takes a step.             *)
LEMMA NoRival ==
    ASSUME ResTypeOK, InStep, Alone, NEW h \in Handle, h \notin overlapped,
           state[h] # "unborn", ~Settled(h),
           NEW g \in Handle, g # h, Sid[g] = Sid[h]
    PROVE  \/ make[g] = "none" /\ exit[g] = "none"
           \/ make[g] = "dead" /\ exit[g] = "dead"
           \/ make[g] = "done" /\ exit[g] = "done" /\ g \notin fast
<1>1. CASE state[g] = "unborn"
  BY Zenon, <1>1 DEF InStep
<1>2. CASE state[g] # "unborn"
  <2>1. Settled(g)
    BY Zenon, <1>2 DEF Alone, Peers
  <2> QED
    BY Zenon, <2>1 DEF Settled, InStep
<1> QED
  BY Zenon, <1>1, <1>2

(* Which steps lie beyond which.                                           *)
LEMMA BeyondSteps ==
    /\ \A p \in {"none", "meta", "metaRead", "metaOpen", "metaWrite", "scroll", "dead"} :
          p \notin Beyond.scroll /\ \A t \in Table : p \notin Beyond[t]
    /\ "tracker" \in Beyond.scroll /\ "done" \in Beyond.scroll
    /\ \A t \in Table :
          /\ "tracker" \notin Beyond[t] /\ "done" \in Beyond[t]
          /\ t \notin Beyond[t] /\ After[t] \in Beyond[t]
          /\ t \in Beyond.scroll /\ After[t] \in Beyond.scroll
          /\ t \notin {"none", "scroll", "done", "dead"}
          /\ After[t] \notin {"none", "scroll", "dead"}
    /\ \A t, u \in Table :
          /\ t \in Beyond[u] => After[t] \in Beyond[u]
          /\ u # t /\ After[t] \in Beyond[u] => t \in Beyond[u]
<1>1. /\ Beyond.scroll = {"tracker", "counter", "writer", "done"}
      /\ Beyond["tracker"] = {"counter", "writer", "done"}
      /\ Beyond["counter"] = {"writer", "done"}
      /\ Beyond["writer"] = {"done"}
  BY Zenon DEF Beyond
<1>2. /\ After["tracker"] = "counter" /\ After["counter"] = "writer"
      /\ After["writer"] = "done" /\ Table = {"tracker", "counter", "writer"}
  BY Zenon DEF After, Table
<1> QED
  BY Zenon, <1>1, <1>2

(* A step that enters nothing new and takes no session back.               *)
LEMMA EntriesKept ==
    ASSUME EntriesAreOwn, fast \subseteq fast', scrollOpen' \subseteq scrollOpen,
           \A h \in Handle, i \in Id : scroll'[i] = h => scroll[i] = h,
           \A h \in Handle, i \in Id, t \in Table : table'[t][i] = h => table[t][i] = h,
           \A h \in Handle : make[h] \in Beyond.scroll => make'[h] \in Beyond.scroll,
           \A h \in Handle, t \in Table : make[h] \in Beyond[t] => make'[h] \in Beyond[t],
           \A h \in Handle, t \in Table :
              exit'[h] \in Beyond[t] => exit[h] \in Beyond[t] \/ h \in fast'
    PROVE  EntriesAreOwn'
BY DEF EntriesAreOwn

(* The steps of handleCreate before its tables.                            *)
LEMMA EntriesMake ==
    ASSUME EntriesAreOwn, UNCHANGED <<exit, fast, table, scroll, scrollOpen>>,
           \A h \in Handle :
              make'[h] = make[h] \/ make[h] \in {"none", "meta", "metaWrite", "scroll"}
    PROVE  EntriesAreOwn'
<1>1. \A h \in Handle :
         \/ make'[h] = make[h]
         \/ make[h] \notin Beyond.scroll /\ \A t \in Table : make[h] \notin Beyond[t]
  BY BeyondSteps
<1> QED
  BY Zenon, <1>1, EntriesKept

(* The steps of OnExit before its tables.                                  *)
LEMMA EntriesExit ==
    ASSUME EntriesAreOwn, UNCHANGED <<make, table>>,
           fast \subseteq fast', scrollOpen' \subseteq scrollOpen,
           \A h \in Handle, i \in Id : scroll'[i] = h => scroll[i] = h,
           \A h \in Handle :
              \/ exit'[h] = exit[h]
              \/ exit'[h] \in {"scroll", "metaRead", "metaOpen", "metaWrite", "tracker"}
    PROVE  EntriesAreOwn'
<1>1. \A h \in Handle : exit'[h] = exit[h] \/ \A t \in Table : exit'[h] \notin Beyond[t]
  BY BeyondSteps
<1> QED
  BY Zenon, <1>1, EntriesKept

(* Every step keeps the entries of the tables in their place.              *)
LEMMA EntriesStep ==
    ASSUME ResTypeOK, InStep, EntriesAreOwn, [ResNext]_resVars
    PROVE  EntriesAreOwn'
<1>1. ASSUME NEW h \in Handle, CreateSession(h) PROVE EntriesAreOwn'
  <2>1. /\ state[h] = "unborn" /\ make' = [make EXCEPT ![h] = "meta"]
        /\ UNCHANGED <<exit, fast, table, scroll, scrollOpen>>
    BY Zenon, <1>1 DEF CreateSession, Create, tableVars
  <2>2. make[h] = "none"
    BY Zenon, <2>1 DEF InStep
  <2>3. \A g \in Handle : make'[g] = make[g] \/ make[g] \in {"none", "meta", "metaWrite", "scroll"}
    BY Zenon, <2>1, <2>2 DEF ResTypeOK
  <2> QED
    BY Zenon, <2>1, <2>3, EntriesMake
<1>2. ASSUME NEW h \in Handle, MakeMetaOpen(h) \/ MakeMetaWrite(h) \/ MakeFails(h)
      PROVE  EntriesAreOwn'
  <2>1. PICK from \in {"meta", "metaWrite", "scroll"} : \E to : MakeStep(h, from, to)
    BY Zenon, <1>2 DEF MakeMetaOpen, MakeMetaWrite, MakeFails
  <2>2. UNCHANGED <<table, scroll, scrollOpen>>
    BY Zenon, <1>2 DEF MakeMetaOpen, MakeMetaWrite, MakeFails, tableVars
  <2>3. \A g \in Handle : make'[g] = make[g] \/ make[g] \in {"none", "meta", "metaWrite", "scroll"}
    BY Zenon, <2>1 DEF MakeStep, ResTypeOK
  <2>4. UNCHANGED <<exit, fast>>
    BY Zenon, <2>1 DEF MakeStep
  <2> QED
    BY Zenon, <2>2, <2>3, <2>4, EntriesMake
<1>3. ASSUME NEW g \in Handle, MakeScroll(g) PROVE EntriesAreOwn'
  <2>1. /\ make[g] = "scroll" /\ make' = [make EXCEPT ![g] = "tracker"]
        /\ scroll' = [scroll EXCEPT ![Sid[g]] = g] /\ scrollOpen' = scrollOpen \cup {g}
        /\ UNCHANGED <<exit, fast, table>>
    BY Zenon, <1>3 DEF MakeScroll, MakeStep
  <2>2. /\ make'[g] \in Beyond.scroll /\ make[g] \notin Beyond.scroll
        /\ \A t \in Table : make[g] \notin Beyond[t]
    BY <2>1, BeyondSteps DEF ResTypeOK
  <2>3. \A h \in Handle \ {g} : make'[h] = make[h]
    BY Zenon, <2>1 DEF ResTypeOK
  <2>4. \A h \in Handle, i \in Id : scroll'[i] = h => scroll[i] = h \/ (h = g /\ i = Sid[g])
    BY Zenon, <2>1 DEF ResTypeOK
  <2> QED
    BY <2>1, <2>2, <2>3, <2>4 DEF EntriesAreOwn
<1>4. ASSUME NEW g \in Handle, NEW t \in Table, MakeEntry(g, t) PROVE EntriesAreOwn'
  <2>1. /\ make[g] = t /\ make' = [make EXCEPT ![g] = After[t]]
        /\ table' \in {table, [table EXCEPT ![t][Sid[g]] = g]}
        /\ UNCHANGED <<exit, scroll, scrollOpen, fast>>
    BY Zenon, <1>4 DEF MakeEntry, MakeStep
  <2>2. /\ make'[g] = After[t] /\ After[t] \in Beyond[t] /\ After[t] \in Beyond.scroll
        /\ \A u \in Table : make[g] \in Beyond[u] => make'[g] \in Beyond[u]
    BY <2>1, BeyondSteps DEF ResTypeOK
  <2>3. \A h \in Handle \ {g} : make'[h] = make[h]
    BY Zenon, <2>1 DEF ResTypeOK
  <2>4. exit[g] \in Beyond[t] => g \in fast
    <3>1. make[g] # "done" /\ make[g] # "dead"
      BY Zenon, <2>1, BeyondSteps
    <3>2. exit[g] \notin {"none", "dead"} => g \in fast
      BY Zenon, <3>1 DEF InStep
    <3> QED
      BY <3>2, BeyondSteps
  <2>5. \A h \in Handle, i \in Id, u \in Table :
           table'[u][i] = h => table[u][i] = h \/ (h = g /\ u = t /\ i = Sid[g])
    BY <2>1, HandleAssumption DEF ResTypeOK
  <2> QED
    BY <2>1, <2>2, <2>3, <2>4, <2>5 DEF EntriesAreOwn
<1>5. ASSUME NEW i \in Id, KillSession(i) PROVE EntriesAreOwn'
  BY Zenon, <1>5, EntriesKept DEF KillSession, tableVars
<1>6. ASSUME NEW h \in Handle, ExitSession(h) PROVE EntriesAreOwn'
  BY Zenon, <1>6, EntriesKept DEF ExitSession, tableVars
<1>7. ASSUME NEW h \in Handle, ExitBegin(h) PROVE EntriesAreOwn'
  <2>1. /\ exit' = [exit EXCEPT ![h] = "scroll"] /\ fast \subseteq fast'
        /\ UNCHANGED <<make, table, scroll, scrollOpen>>
    BY Zenon, <1>7 DEF ExitBegin, tableVars
  <2>2. \A g \in Handle :
           \/ exit'[g] = exit[g]
           \/ exit'[g] \in {"scroll", "metaRead", "metaOpen", "metaWrite", "tracker"}
    BY Zenon, <2>1 DEF ResTypeOK
  <2> QED
    BY Zenon, <2>1, <2>2, EntriesExit
<1>8. ASSUME NEW g \in Handle, ExitScroll(g) PROVE EntriesAreOwn'
  <2>1. /\ exit' = [exit EXCEPT ![g] = "metaRead"] /\ UNCHANGED <<fast, make, table>>
        /\ scroll' = [scroll EXCEPT ![Sid[g]] = NoHandle] /\ scrollOpen' \subseteq scrollOpen
    BY Zenon, <1>8 DEF ExitScroll, ExitStep
  <2>2. \A h \in Handle, i \in Id : scroll'[i] = h => scroll[i] = h
    BY Zenon, <2>1, HandleAssumption DEF ResTypeOK
  <2>3. \A h \in Handle :
           \/ exit'[h] = exit[h]
           \/ exit'[h] \in {"scroll", "metaRead", "metaOpen", "metaWrite", "tracker"}
    BY Zenon, <2>1 DEF ResTypeOK
  <2> QED
    BY Zenon, <2>1, <2>2, <2>3, EntriesExit
<1>9. ASSUME NEW h \in Handle, \/ ExitMetaRead(h) \/ ExitMetaNone(h) \/ ExitMetaOpen(h)
                               \/ ExitMetaWrite(h) \/ ExitMetaFails(h)
      PROVE  EntriesAreOwn'
  <2>1. PICK from, to \in {"scroll", "metaRead", "metaOpen", "metaWrite", "tracker"} :
                ExitStep(h, from, to)
    BY Zenon, <1>9 DEF ExitMetaRead, ExitMetaNone, ExitMetaOpen, ExitMetaWrite, ExitMetaFails
  <2>2. UNCHANGED <<table, scroll, scrollOpen>>
    BY Zenon, <1>9 DEF ExitMetaRead, ExitMetaNone, ExitMetaOpen, ExitMetaWrite, ExitMetaFails,
       tableVars
  <2>3. exit' = [exit EXCEPT ![h] = to] /\ UNCHANGED <<make, fast>>
    BY Zenon, <2>1 DEF ExitStep
  <2>4. \A g \in Handle :
           \/ exit'[g] = exit[g]
           \/ exit'[g] \in {"scroll", "metaRead", "metaOpen", "metaWrite", "tracker"}
    BY Zenon, <2>3 DEF ResTypeOK
  <2> QED
    BY Zenon, <2>2, <2>3, <2>4, EntriesExit
<1>10. ASSUME NEW g \in Handle, NEW t \in Table, ExitEntry(g, t) PROVE EntriesAreOwn'
  <2>1. /\ exit[g] = t /\ exit' = [exit EXCEPT ![g] = After[t]]
        /\ table' = [table EXCEPT ![t][Sid[g]] = NoHandle]
        /\ UNCHANGED <<make, scroll, scrollOpen, fast>>
    BY Zenon, <1>10 DEF ExitEntry, ExitStep
  <2>2. /\ exit'[g] = After[t] /\ \A h \in Handle \ {g} : exit'[h] = exit[h]
        /\ \A u \in Table \ {t} : exit'[g] \in Beyond[u] => exit[g] \in Beyond[u]
    BY <2>1, BeyondSteps DEF ResTypeOK
  <2>3. /\ \A h \in Handle, i \in Id, u \in Table : table'[u][i] = h => table[u][i] = h
        /\ table'[t][Sid[g]] = NoHandle /\ NoHandle \notin Handle /\ Sid[g] \in Id
    <3>1. table \in [Table -> [Id -> Handle \cup {NoHandle}]] /\ Sid[g] \in Id
      BY Zenon, HandleAssumption DEF ResTypeOK
    <3>2. table'[t] = [table[t] EXCEPT ![Sid[g]] = NoHandle]
          /\ \A u \in Table \ {t} : table'[u] = table[u]
      BY Zenon, <2>1, <3>1
    <3>3. NoHandle \notin Handle
      BY Zenon, HandleAssumption
    <3> QED
      BY <3>1, <3>2, <3>3
  <2>4. \A i \in Id : table'[t][i] # g
    BY SMTT(30), <2>3 DEF EntriesAreOwn
  <2> QED
    BY <2>1, <2>2, <2>3, <2>4 DEF EntriesAreOwn
<1>11. CASE Crash
  <2>1. /\ \A t \in Table, i \in Id : table'[t][i] = NoHandle
        /\ \A i \in Id : scroll'[i] = NoHandle
        /\ scrollOpen' = {}
    BY Zenon, <1>11 DEF Crash
  <2> QED
    BY <2>1, HandleAssumption DEF EntriesAreOwn
<1>12. CASE Restart
  BY Zenon, <1>12, EntriesKept DEF Restart, tableVars
<1>13. CASE UNCHANGED resVars
  BY Zenon, <1>13, EntriesKept DEF resVars, tableVars
<1> QED
  BY Zenon, <1>1, <1>2, <1>3, <1>4, <1>5, <1>6, <1>7, <1>8, <1>9, <1>10, <1>11, <1>12, <1>13,
     ResCases

(* What a step of another session's handleCreate or OnExit leaves alone.   *)
LEMMA OtherStep ==
    ASSUME ResTypeOK, InStep, EntriesAreOwn, NEW h \in Handle, NEW g \in Handle, g # h,
           \/ MakeMetaOpen(g) \/ MakeMetaWrite(g) \/ MakeFails(g) \/ MakeScroll(g)
           \/ \E t \in Table : MakeEntry(g, t)
           \/ ExitScroll(g) \/ ExitMetaRead(g) \/ ExitMetaNone(g) \/ ExitMetaOpen(g)
           \/ ExitMetaWrite(g) \/ ExitMetaFails(g) \/ \E t \in Table : ExitEntry(g, t)
    PROVE  /\ exit'[h] = exit[h] /\ make'[h] = make[h] /\ fast' = fast
           /\ h \in scrollOpen' => h \in scrollOpen
           /\ make[g] \in {"none", "done", "dead"} => exit[g] \notin {"none", "done", "dead"}
           /\ Sid[g] # Sid[h] =>
                 /\ \A t \in Table : table'[t][Sid[h]] = table[t][Sid[h]]
                 /\ scroll'[Sid[h]] = scroll[Sid[h]] /\ meta'[Sid[h]] = meta[Sid[h]]
                 /\ h \in scrollOpen => h \in scrollOpen'
<1> USE HandleAssumption DEF ResTypeOK, tableVars, metaVars
<1>1. CASE MakeMetaOpen(g) \/ MakeMetaWrite(g) \/ MakeFails(g) \/ MakeScroll(g)
  BY Zenon, <1>1 DEF MakeMetaOpen, MakeMetaWrite, MakeFails, MakeScroll, MakeStep
<1>2. ASSUME NEW t \in Table, MakeEntry(g, t)
      PROVE  /\ exit'[h] = exit[h] /\ make'[h] = make[h] /\ UNCHANGED <<fast, scroll, scrollOpen, meta>>
             /\ make[g] \notin {"none", "done", "dead"}
             /\ Sid[g] # Sid[h] => \A u \in Table : table'[u][Sid[h]] = table[u][Sid[h]]
  BY Zenon, <1>2 DEF MakeEntry, MakeStep, Table
<1>3. CASE ExitScroll(g)
  <2>1. Sid[g] # Sid[h] => scroll[Sid[g]] # h
    BY Zenon DEF EntriesAreOwn
  <2> QED
    BY Zenon, <1>3, <2>1 DEF ExitScroll, ExitStep
<1>4. CASE ExitMetaRead(g) \/ ExitMetaNone(g) \/ ExitMetaOpen(g) \/ ExitMetaWrite(g) \/ ExitMetaFails(g)
  BY Zenon, <1>4 DEF ExitMetaRead, ExitMetaNone, ExitMetaOpen, ExitMetaWrite, ExitMetaFails,
     ExitStep
<1>5. ASSUME NEW t \in Table, ExitEntry(g, t)
      PROVE  /\ exit'[h] = exit[h] /\ make'[h] = make[h] /\ UNCHANGED <<fast, scroll, scrollOpen, meta>>
             /\ exit[g] \notin {"none", "done", "dead"}
             /\ Sid[g] # Sid[h] => \A u \in Table : table'[u][Sid[h]] = table[u][Sid[h]]
  BY Zenon, <1>5 DEF ExitEntry, ExitStep, Table
<1> HIDE DEF ResTypeOK, tableVars, metaVars
<1> QED
  BY Zenon, <1>1, <1>2, <1>3, <1>4, <1>5

(* Every step keeps what a session that overlapped no other has.           *)
LEMMA OwnStep ==
    ASSUME ResTypeOK, InStep, Alone, EntriesAreOwn, OwnAlone, [ResNext]_resVars
    PROVE  OwnAlone'
<1>0. overlapped \subseteq overlapped'
  <2>1. ASSUME NEW c \in Handle, CreateSession(c) PROVE overlapped \subseteq overlapped'
    BY Zenon, <2>1 DEF CreateSession
  <2>2. ASSUME NEW c \in Handle, ~\E g \in Handle : CreateSession(g) PROVE overlapped' = overlapped
    BY Zenon, <2>2, SettledStays
  <2>3. CASE Handle = {}
    BY Zenon, <2>3, ResCases DEF KillSession, Crash, Restart, resVars
  <2> QED
    BY Zenon, <2>1, <2>2, <2>3
<1> SUFFICES ASSUME NEW h \in Handle, h \notin overlapped, Own(h) PROVE Own(h)'
  BY Zenon, <1>0 DEF OwnAlone
<1>1. ASSUME exit'[h] = exit[h], make'[h] = make[h], h \in fast' <=> h \in fast,
             \A t \in Table : table'[t][Sid[h]] = table[t][Sid[h]],
             scroll'[Sid[h]] = scroll[Sid[h]], meta'[Sid[h]] = meta[Sid[h]],
             h \in scrollOpen' <=> h \in scrollOpen
      PROVE  Own(h)'
  BY Zenon, <1>1 DEF Own
<1>2. ASSUME NEW g \in Handle, CreateSession(g) PROVE Own(h)'
  <2>1. UNCHANGED <<exit, fast, table, scroll, scrollOpen, meta>> /\ state[g] = "unborn"
        /\ make' = [make EXCEPT ![g] = "meta"]
    BY Zenon, <1>2 DEF CreateSession, Create, tableVars, metaVars
  <2>2. CASE g # h
    BY Zenon, <1>1, <2>1, <2>2 DEF ResTypeOK
  <2>3. CASE g = h
    <3>1. make[h] = "none" /\ exit[h] = "none" /\ h \notin scrollOpen /\ make'[h] = "meta"
      BY Zenon, <2>1, <2>3 DEF InStep, ResTypeOK, EntriesAreOwn, Beyond
    <3> QED
      BY <2>1, <3>1 DEF Own, Beyond, Table
  <2> QED
    BY Zenon, <2>2, <2>3
<1>3. ASSUME NEW g \in Handle, g # h,
             \/ MakeMetaOpen(g) \/ MakeMetaWrite(g) \/ MakeFails(g) \/ MakeScroll(g)
             \/ \E t \in Table : MakeEntry(g, t)
             \/ ExitScroll(g) \/ ExitMetaRead(g) \/ ExitMetaNone(g) \/ ExitMetaOpen(g)
             \/ ExitMetaWrite(g) \/ ExitMetaFails(g) \/ \E t \in Table : ExitEntry(g, t)
      PROVE  Own(h)'
  <2>1. /\ exit'[h] = exit[h] /\ make'[h] = make[h] /\ fast' = fast
        /\ h \in scrollOpen' => h \in scrollOpen
        /\ make[g] \in {"none", "done", "dead"} => exit[g] \notin {"none", "done", "dead"}
        /\ Sid[g] # Sid[h] =>
              /\ \A t \in Table : table'[t][Sid[h]] = table[t][Sid[h]]
              /\ scroll'[Sid[h]] = scroll[Sid[h]] /\ meta'[Sid[h]] = meta[Sid[h]]
              /\ h \in scrollOpen => h \in scrollOpen'
    BY Zenon, <1>3, OtherStep
  <2>2. CASE exit[h] \notin {"none", "scroll"}
    BY Zenon, <2>1, <2>2 DEF Own
  <2>3. CASE exit[h] \in {"none", "scroll"} /\ make[h] = "none"
    <3>1. h \notin scrollOpen
      BY Zenon, <2>3 DEF EntriesAreOwn, Beyond
    <3> QED
      BY <2>1, <2>3, <3>1 DEF Own, Beyond, Table
  <2>4. CASE exit[h] \in {"none", "scroll"} /\ make[h] # "none"
    <3>1. state[h] # "unborn" /\ ~Settled(h)
      BY Zenon, <2>4 DEF InStep, Settled
    <3>2. Sid[g] # Sid[h]
      BY Zenon, <1>3, <2>1, <3>1, NoRival
    <3> QED
      BY Zenon, <1>1, <2>1, <3>2
  <2> QED
    BY Zenon, <2>2, <2>3, <2>4
<1> USE HandleAssumption DEF ResTypeOK, tableVars, metaVars
<1>4. CASE MakeMetaOpen(h)
  BY SMTT(30), <1>4 DEF MakeMetaOpen, MakeStep, Own, Beyond, Table, EntriesAreOwn
<1>5. CASE MakeMetaWrite(h)
  <2>1. /\ make[h] = "metaWrite" /\ make' = [make EXCEPT ![h] = "scroll"]
        /\ meta' = [meta EXCEPT ![Sid[h]] = [of |-> h, ended |-> FALSE]]
        /\ UNCHANGED <<exit, fast, scroll, scrollOpen>>
    BY Zenon, <1>5 DEF MakeMetaWrite, MakeStep
  <2>2. h \notin scrollOpen /\ make'[h] = "scroll" /\ meta'[Sid[h]] = [of |-> h, ended |-> FALSE]
    BY ZenonT(30), <2>1 DEF EntriesAreOwn, Beyond
  <2> QED
    BY <2>1, <2>2 DEF Own, Beyond, Table
<1>6. CASE MakeFails(h)
  BY <1>6 DEF MakeFails, MakeStep, Own, Beyond, Table, EntriesAreOwn
<1>7. CASE MakeScroll(h)
  <2>1. /\ make[h] = "scroll" /\ make' = [make EXCEPT ![h] = "tracker"]
        /\ scroll' = [scroll EXCEPT ![Sid[h]] = h] /\ scrollOpen' = scrollOpen \cup {h}
        /\ UNCHANGED <<exit, fast, meta, table>>
    BY Zenon, <1>7 DEF MakeScroll, MakeStep
  <2>2. make'[h] = "tracker" /\ scroll'[Sid[h]] = h
    BY Zenon, <2>1
  <2>3. exit[h] \notin {"none", "scroll"} => h \in fast
    BY Zenon, <2>1 DEF InStep
  <2> QED
    BY <2>1, <2>2, <2>3 DEF Own, Beyond, Table
<1>8. ASSUME NEW t \in Table, MakeEntry(h, t) PROVE Own(h)'
  <2>1. /\ make[h] = t /\ make' = [make EXCEPT ![h] = After[t]]
        /\ table' = IF t # "counter" /\ table[t][Sid[h]] # NoHandle THEN table
                    ELSE [table EXCEPT ![t][Sid[h]] = h]
        /\ UNCHANGED <<exit, fast, scroll, scrollOpen, meta>>
    BY Zenon, <1>8 DEF MakeEntry, MakeStep
  <2>2. ASSUME exit[h] = "none" PROVE table[t][Sid[h]] = NoHandle
    <3>1. SUFFICES ASSUME table[t][Sid[h]] # NoHandle PROVE FALSE
      BY Zenon
    <3>2. PICK g \in Handle : g = table[t][Sid[h]]
      BY <3>1
    <3>3. Sid[g] = Sid[h] /\ make[g] \in Beyond[t] /\ (exit[g] \in Beyond[t] => g \in fast)
      BY SMTT(30), <3>2 DEF EntriesAreOwn
    <3>4. g # h
      BY <2>1, <3>3 DEF Beyond, Table
    <3>5. state[h] # "unborn" /\ ~Settled(h)
      BY Zenon, <2>1, <2>2 DEF InStep, Settled, Table
    <3> QED
      BY <3>3, <3>4, <3>5, NoRival DEF Beyond, Table
  <2>3. ASSUME exit[h] = "none", NEW u \in Table, After[t] \in Beyond[u]
        PROVE  table'[u][Sid[h]] = h
    <3>1. table' = [table EXCEPT ![t][Sid[h]] = h]
      BY Zenon, <2>1, <2>2, <2>3
    <3>2. CASE u = t
      BY Zenon, <3>1, <3>2
    <3>3. CASE u # t
      BY SMTT(30), <2>1, <2>3, <3>1, <3>3 DEF Own, Beyond, Table, After
    <3> QED
      BY Zenon, <3>2, <3>3
  <2>4. make'[h] = After[t] /\ make[h] \in Beyond.scroll /\ After[t] \in Beyond.scroll
    BY <2>1 DEF Beyond, After, Table
  <2> QED
    BY Zenon, <2>1, <2>3, <2>4 DEF Own
<1>9. ASSUME NEW i \in Id, KillSession(i) PROVE Own(h)'
  BY Zenon, <1>1, <1>9 DEF KillSession
<1>10. ASSUME NEW g \in Handle, ExitSession(g) PROVE Own(h)'
  BY Zenon, <1>1, <1>10 DEF ExitSession
<1>11. ASSUME NEW g \in Handle, ExitBegin(g) PROVE Own(h)'
  <2>1. /\ exit' = [exit EXCEPT ![g] = "scroll"] /\ g \notin notified
        /\ fast' \in {fast, fast \cup {g}}
        /\ UNCHANGED <<make, table, scroll, scrollOpen, meta>>
    BY Zenon, <1>11 DEF ExitBegin, Notify
  <2>2. CASE g # h
    BY Zenon, <1>1, <2>1, <2>2
  <2>3. CASE g = h
    <3>1. exit[h] = "none" /\ exit'[h] = "scroll"
      BY Zenon, <2>1, <2>3 DEF InStep
    <3> QED
      BY Zenon, <2>1, <3>1 DEF Own
  <2> QED
    BY Zenon, <2>2, <2>3
<1>12. CASE ExitScroll(h)
  <2>1. /\ exit[h] = "scroll" /\ exit' = [exit EXCEPT ![h] = "metaRead"]
        /\ scrollOpen' = scrollOpen \ {scroll[Sid[h]]}
    BY Zenon, <1>12 DEF ExitScroll, ExitStep
  <2> QED
    BY Zenon, <2>1 DEF Own
<1>13. CASE ExitMetaRead(h) \/ ExitMetaNone(h) \/ ExitMetaOpen(h) \/ ExitMetaWrite(h) \/ ExitMetaFails(h)
  <2>1. PICK from, to : /\ ExitStep(h, from, to) /\ UNCHANGED scrollOpen
                        /\ from \notin {"none", "scroll"} /\ to \notin {"none", "scroll"}
    BY SMTT(30), <1>13 DEF ExitMetaRead, ExitMetaNone, ExitMetaOpen, ExitMetaWrite, ExitMetaFails
  <2> QED
    BY Zenon, <2>1 DEF ExitStep, Own
<1>14. ASSUME NEW t \in Table, ExitEntry(h, t) PROVE Own(h)'
  <2>1. /\ exit[h] \notin {"none", "scroll"} /\ exit'[h] \notin {"none", "scroll"}
        /\ UNCHANGED <<scrollOpen, fast>>
    BY SMTT(30), <1>14 DEF ExitEntry, ExitStep, After, Table
  <2> QED
    BY Zenon, <2>1 DEF Own
<1>15. CASE Crash
  BY <1>15 DEF Crash, Own, Beyond, Table
<1>16. CASE Restart
  <2>1. ~up /\ UNCHANGED <<exit, make, fast, table, scroll, scrollOpen>>
    BY Zenon, <1>16 DEF Restart
  <2> QED
    BY Zenon, <2>1 DEF Own, InStep, Beyond, Table
<1>17. CASE UNCHANGED resVars
  BY Zenon, <1>1, <1>17 DEF resVars
<1> HIDE DEF ResTypeOK, tableVars, metaVars
<1> QED
  BY Zenon, <1>2, <1>3, <1>4, <1>5, <1>6, <1>7, <1>8, <1>9, <1>10, <1>11, <1>12,
     <1>13, <1>14, <1>15, <1>16, <1>17, ResCases

(* Every step files metadata under the ID it is about.                     *)
LEMMA FiledStep ==
    ASSUME ResTypeOK, InStep, MetaFiled, [ResNext]_resVars
    PROVE  MetaFiled'
<1> USE HandleAssumption, MetadataIsFile DEF ResTypeOK, MetaFiled
<1>1. CASE UNCHANGED <<meta, copy>>
  BY Zenon, <1>1
<1>2. ASSUME NEW g \in Handle, MakeMetaOpen(g) \/ ExitMetaOpen(g) PROVE MetaFiled'
  <2>1. meta' = [meta EXCEPT ![Sid[g]] = Torn] /\ copy' = copy
    BY Zenon, <1>2 DEF MakeMetaOpen, ExitMetaOpen
  <2> QED
    BY <2>1
<1>3. ASSUME NEW g \in Handle, MakeMetaWrite(g) PROVE MetaFiled'
  <2>1. meta' = [meta EXCEPT ![Sid[g]] = [of |-> g, ended |-> FALSE]] /\ copy' = copy
    BY Zenon, <1>3 DEF MakeMetaWrite
  <2> QED
    BY <2>1
<1>4. ASSUME NEW g \in Handle, ExitMetaRead(g) PROVE MetaFiled'
  <2>1. copy' = [copy EXCEPT ![g] = meta[Sid[g]]] /\ meta' = meta
    BY Zenon, <1>4 DEF ExitMetaRead
  <2> QED
    BY <2>1
<1>5. ASSUME NEW g \in Handle, ExitMetaWrite(g) PROVE MetaFiled'
  <2>1. /\ meta' = [meta EXCEPT ![Sid[g]] = [copy[g] EXCEPT !.ended = TRUE]]
        /\ copy' = [copy EXCEPT ![g] = NoMeta] /\ copy[g] \in Metadata
    BY Zenon, <1>5 DEF ExitMetaWrite, ExitStep, InStep
  <2>2. [copy[g] EXCEPT !.ended = TRUE].of = copy[g].of
    BY Zenon, <2>1 DEF Metadata
  <2> QED
    BY <2>1, <2>2
<1>6. ASSUME NEW g \in Handle, ExitMetaFails(g) PROVE MetaFiled'
  <2>1. copy' = [copy EXCEPT ![g] = NoMeta] /\ meta' = meta
    BY Zenon, <1>6 DEF ExitMetaFails
  <2> QED
    BY <2>1
<1>7. CASE Crash
  BY Zenon, <1>7 DEF Crash
<1>8. CASE Restart
  <2>1. \A m \in Metadata : [m EXCEPT !.ended = TRUE].of = m.of
    BY Zenon DEF Metadata
  <2>2. /\ meta' = [i \in Id |-> IF meta[i] \in {NoMeta, Torn} THEN meta[i]
                                ELSE [meta[i] EXCEPT !.ended = TRUE]]
        /\ copy' = copy
    BY Zenon, <1>8 DEF Restart, ReconcileOrphans
  <2> QED
    BY Zenon, <2>1, <2>2
<1>9. ASSUME NEW g \in Handle,
             \/ CreateSession(g) \/ MakeFails(g) \/ MakeScroll(g)
             \/ \E t \in Table : MakeEntry(g, t)
             \/ ExitSession(g) \/ ExitBegin(g) \/ ExitScroll(g) \/ ExitMetaNone(g)
             \/ \E t \in Table : ExitEntry(g, t)
      PROVE  UNCHANGED <<meta, copy>>
  BY Zenon, <1>9 DEF CreateSession, MakeFails, MakeScroll, MakeEntry, ExitSession,
     ExitBegin, ExitScroll, ExitMetaNone, ExitEntry, metaVars
<1>10. ASSUME NEW i \in Id, KillSession(i) PROVE UNCHANGED <<meta, copy>>
  BY Zenon, <1>10 DEF KillSession, metaVars
<1>11. CASE UNCHANGED resVars
  BY Zenon, <1>1, <1>11 DEF resVars, metaVars
<1> HIDE DEF ResTypeOK, MetaFiled
<1> QED
  BY Zenon, <1>1, <1>2, <1>3, <1>4, <1>5, <1>6, <1>7, <1>8, <1>9, <1>10, <1>11, ResCases

(* Every step keeps the end of a session on disk.                          *)
LEMMA EndStep ==
    ASSUME ResTypeOK, InStep, MetaFiled, EndWritten, [ResNext]_resVars
    PROVE  EndWritten'
<1> DEFINE over(h) == \/ up /\ exit[h] = "dead"
                      \/ exit[h] \in {"metaWrite"} \cup Beyond.scroll /\ h \notin fast \cup Faulty
           runs(h) == [of |-> h, ended |-> FALSE]
<1> SUFFICES ASSUME NEW h \in Handle, NEW i \in Id, over(h)' PROVE meta'[i] # runs(h)
  BY Zenon DEF EndWritten
<1>0. over(h) => meta[i] # runs(h)
  BY Zenon DEF EndWritten
<1>file. runs(h) \notin {NoMeta, Torn} /\ (meta[i] = runs(h) => Sid[h] = i)
  <2>1. runs(h) \in Metadata /\ runs(h).of = h
    BY Zenon DEF Metadata
  <2>2. NoMeta \notin Metadata /\ Torn \notin Metadata
    BY Zenon, MetadataIsFile
  <2> HIDE DEF runs
  <2> QED
    BY Zenon, <2>1, <2>2 DEF MetaFiled
<1> USE HandleAssumption DEF ResTypeOK, tableVars, metaVars
<1>1. ASSUME NEW g \in Handle, CreateSession(g) PROVE meta'[i] # runs(h)
  BY Zenon, <1>0, <1>1 DEF CreateSession
<1>2. ASSUME NEW g \in Handle,
             MakeFails(g) \/ MakeScroll(g) \/ \E t \in Table : MakeEntry(g, t)
      PROVE  meta'[i] # runs(h)
  BY Zenon, <1>0, <1>2 DEF MakeFails, MakeScroll, MakeEntry, MakeStep
<1>3. ASSUME NEW g \in Handle, MakeMetaOpen(g) PROVE meta'[i] # runs(h)
  <2>1. meta' = [meta EXCEPT ![Sid[g]] = Torn] /\ UNCHANGED <<exit, fast, up>>
    BY Zenon, <1>3 DEF MakeMetaOpen, MakeStep
  <2>2. Torn # runs(h)
    BY Zenon, <1>file
  <2>3. meta[i] # runs(h)
    BY Zenon, <1>0, <2>1
  <2> QED
    BY Zenon, <2>1, <2>2, <2>3
<1>4. ASSUME NEW g \in Handle, MakeMetaWrite(g) PROVE meta'[i] # runs(h)
  <2>1. /\ make[g] = "metaWrite" /\ UNCHANGED <<exit, fast, up>>
        /\ meta' = [meta EXCEPT ![Sid[g]] = runs(g)]
    BY Zenon, <1>4 DEF MakeMetaWrite, MakeStep
  <2>2. g # h
    BY Zenon, <2>1 DEF InStep, Beyond
  <2> QED
    BY Zenon, <1>0, <2>1, <2>2
<1>5. ASSUME NEW j \in Id, KillSession(j) PROVE meta'[i] # runs(h)
  BY Zenon, <1>0, <1>5 DEF KillSession
<1>6. ASSUME NEW g \in Handle, ExitSession(g) PROVE meta'[i] # runs(h)
  BY Zenon, <1>0, <1>6 DEF ExitSession
<1>7. ASSUME NEW g \in Handle, ExitBegin(g) PROVE meta'[i] # runs(h)
  BY Zenon, <1>0, <1>7 DEF ExitBegin, Beyond
<1>8. ASSUME NEW g \in Handle, ExitScroll(g) \/ ExitMetaRead(g) PROVE meta'[i] # runs(h)
  BY <1>0, <1>8 DEF ExitScroll, ExitMetaRead, ExitStep, Beyond
<1>9. ASSUME NEW g \in Handle, ExitMetaNone(g) PROVE meta'[i] # runs(h)
  <2>1. /\ meta[Sid[g]] \in {NoMeta, Torn} /\ exit' = [exit EXCEPT ![g] = "tracker"]
        /\ UNCHANGED <<meta, fast, up>>
    BY Zenon, <1>9 DEF ExitMetaNone, ExitStep
  <2>2. CASE h # g
    BY Zenon, <1>0, <2>1, <2>2
  <2>3. CASE h = g
    BY Zenon, <1>file, <2>1, <2>3
  <2> QED
    BY Zenon, <2>2, <2>3
<1>10. ASSUME NEW g \in Handle, ExitMetaOpen(g) PROVE meta'[i] # runs(h)
  <2>1. /\ meta' = [meta EXCEPT ![Sid[g]] = Torn] /\ UNCHANGED <<fast, up>>
        /\ exit' = [exit EXCEPT ![g] = "metaWrite"]
    BY Zenon, <1>10 DEF ExitMetaOpen, ExitStep
  <2>2. Torn # runs(h) /\ (meta[i] = runs(h) => Sid[h] = i)
    BY Zenon, <1>file
  <2>3. CASE h # g
    <3>1. meta[i] # runs(h)
      BY Zenon, <1>0, <2>1, <2>3
    <3> QED
      BY Zenon, <2>1, <2>2, <3>1
  <2>4. CASE h = g
    BY Zenon, <2>1, <2>2, <2>4
  <2> QED
    BY Zenon, <2>3, <2>4
<1>11. ASSUME NEW g \in Handle, ExitMetaWrite(g) PROVE meta'[i] # runs(h)
  <2>1. /\ meta' = [meta EXCEPT ![Sid[g]] = [copy[g] EXCEPT !.ended = TRUE]]
        /\ exit[g] = "metaWrite" /\ exit' = [exit EXCEPT ![g] = "tracker"]
        /\ UNCHANGED <<fast, up>>
    BY Zenon, <1>11 DEF ExitMetaWrite, ExitStep
  <2>2. copy[g] \in Metadata
    BY Zenon, <2>1 DEF InStep
  <2>3. [copy[g] EXCEPT !.ended = TRUE] # runs(h)
    BY Zenon, <2>2, MetadataIsFile
  <2>4. meta[i] # runs(h)
    BY Zenon, <1>0, <2>1 DEF Beyond
  <2> QED
    BY Zenon, <2>1, <2>3, <2>4
<1>12. ASSUME NEW g \in Handle, ExitMetaFails(g) PROVE meta'[i] # runs(h)
  <2>1. /\ UNCHANGED <<meta, fast, up>> /\ g \in Faulty
        /\ exit' = [exit EXCEPT ![g] = "tracker"]
    BY Zenon, <1>12 DEF ExitMetaFails, ExitStep
  <2> QED
    BY Zenon, <1>0, <2>1
<1>13. ASSUME NEW g \in Handle, NEW t \in Table, ExitEntry(g, t) PROVE meta'[i] # runs(h)
  <2>1. /\ UNCHANGED <<meta, fast, up>> /\ exit[g] = t /\ exit' = [exit EXCEPT ![g] = After[t]]
    BY Zenon, <1>13 DEF ExitEntry, ExitStep
  <2>2. exit[g] \in Beyond.scroll /\ exit'[g] \in Beyond.scroll
    BY <2>1 DEF Beyond, Table, After
  <2>3. over(h)
    BY Zenon, <2>1, <2>2 DEF Beyond
  <2> QED
    BY Zenon, <1>0, <2>1, <2>3
<1>14. CASE Crash
  BY Zenon, <1>14 DEF Crash, Beyond
<1>15. CASE Restart
  <2>1. meta' = [j \in Id |-> IF meta[j] \in {NoMeta, Torn} THEN meta[j]
                              ELSE [meta[j] EXCEPT !.ended = TRUE]]
    BY Zenon, <1>15 DEF Restart, ReconcileOrphans
  <2>2. CASE meta[i] \in {NoMeta, Torn}
    BY Zenon, <1>file, <2>1, <2>2
  <2>3. CASE meta[i] \notin {NoMeta, Torn}
    <3>1. meta[i] \in Metadata /\ meta'[i] = [meta[i] EXCEPT !.ended = TRUE]
      BY Zenon, <2>1, <2>3
    <3>2. meta'[i].ended = TRUE
      BY Zenon, <3>1, MetadataIsFile
    <3> QED
      BY <3>2
  <2> QED
    BY Zenon, <2>2, <2>3
<1>16. CASE UNCHANGED resVars
  BY Zenon, <1>0, <1>16 DEF resVars
<1> HIDE DEF ResTypeOK, tableVars, metaVars
<1> QED
  BY Zenon, <1>1, <1>2, <1>3, <1>4, <1>5, <1>6, <1>7, <1>8, <1>9, <1>10, <1>11, <1>12,
     <1>13, <1>14, <1>15, <1>16, ResCases

(* The invariant of the resources holds of every reachable state.          *)
LEMMA ResInvariance == ResSpec => []ResInv
<1>1. ResInit => ResInv
  <2> SUFFICES ASSUME ResInit PROVE ResInv
    BY Zenon
  <2> USE HandleAssumption DEF ResInit, RegInit, Table
  <2>1. ResTypeOK /\ InStep /\ EntriesAreOwn
    BY Zenon DEF ResTypeOK, InStep, EntriesAreOwn, Beyond, SessionState
  <2>2. Alone
    BY Zenon DEF Alone
  <2>3. OwnAlone
    BY DEF OwnAlone, Own, Beyond
  <2>4. MetaFiled /\ EndWritten
    BY Zenon, MetadataIsFile DEF MetaFiled, EndWritten, Beyond
  <2> QED
    BY Zenon, <2>1, <2>2, <2>3, <2>4 DEF ResInv
<1>2. ResInv /\ [ResNext]_resVars => ResInv'
  BY Zenon, ResTypeStep, InStepStep, AloneStep, EntriesStep, OwnStep, FiledStep, EndStep DEF ResInv
<1> QED
  BY <1>1, <1>2, PTL DEF ResSpec

(* For any sessions, IDs and disk errors, and across crashes: a session    *)
(* that overlapped no other of its ID, that handleCreate has finished with *)
(* and that has not exited is in every table of the daemon under its ID,   *)
(* and its metadata says that it runs.                                     *)
THEOREM RunningIsTrackedCorrect == ResSpec => []RunningIsTracked
<1>1. ResInv => RunningIsTracked
  BY Zenon DEF ResInv, OwnAlone, Own, RunningIsTracked, Beyond, Table
<1> QED
  BY <1>1, ResInvariance, PTL

(* For any sessions, IDs and disk errors, and across crashes: once OnExit  *)
(* is done with a session that handleCreate had finished with, no table of *)
(* the daemon holds it, and its scrollback writer is closed unless its ID  *)
(* was created again too early.                                            *)
THEOREM ExitedIsReleasedCorrect == ResSpec => []ExitedIsReleased
<1>1. ResInv => ExitedIsReleased
  <2> SUFFICES ASSUME ResInv, NEW h \in Handle \ fast, exit[h] = "done"
               PROVE  /\ \A t \in Table, i \in Id : table[t][i] # h
                      /\ h \notin overlapped => h \notin scrollOpen
    BY Zenon DEF ExitedIsReleased
  <2>1. \A t \in Table : exit[h] \in Beyond[t]
    BY DEF Beyond, Table
  <2> QED
    BY Zenon, <2>1 DEF ResInv, EntriesAreOwn, OwnAlone, Own
<1> QED
  BY <1>1, ResInvariance, PTL

(* For any sessions and IDs, and across crashes: no metadata on disk says  *)
(* that a session runs whose OnExit is done or that a crash ended, unless  *)
(* its disk failed or it exited before its metadata was written.           *)
THEOREM EndIsRecordedCorrect == ResSpec => []EndIsRecorded
<1>1. ResInv => EndIsRecorded
  <2> SUFFICES ASSUME ResInv, NEW i \in Id, up, meta[i] \notin {NoMeta, Torn},
                      ~meta[i].ended, exit[meta[i].of] \in {"done", "dead"},
                      meta[i].of \notin fast \cup Faulty
               PROVE  FALSE
    BY Zenon DEF EndIsRecorded
  <2>1. meta[i] \in Metadata
    BY Zenon DEF ResInv, ResTypeOK
  <2>2. meta[i].of \in Handle /\ meta[i] = [of |-> meta[i].of, ended |-> FALSE]
    BY Zenon, <2>1, MetadataIsFile
  <2> QED
    BY Zenon, <2>2 DEF ResInv, EndWritten, Beyond
<1> QED
  BY <1>1, ResInvariance, PTL
=============================================================================
