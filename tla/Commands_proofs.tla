-------------------------- MODULE Commands_proofs ---------------------------
(***************************************************************************)
(* Proofs about Commands, for any chunks, any history limit and any number *)
(* of commands, sessions and starts of the daemon: the history is the      *)
(* newest part of what was closed, rows do not go back while the line      *)
(* counter is the same, what is on the disk the tracker knows, and a       *)
(* closed Writer has written what it accepted.                             *)
(*                                                                         *)
(* The same few states travel from the tracker to the disk and back: the   *)
(* snapshot a scan is about to save, what the Writer holds and what it is  *)
(* writing, and the file (Copies).  CmdInv says of all of them what the    *)
(* properties say of one.                                                  *)
(***************************************************************************)
EXTENDS Commands, SequenceTheorems, TLAPS

Counter == [object: Nat, n: Nat]

(* A snapshot of a tracker that respects the limit.                        *)
Kept == {s \in Snapshot : Len(s.history) <= MaxHistory}

Scanning ==
    [pc: {"idle", "next", "save"}, segs: Seq(Segment), tail: Nat, counter: Counter,
     save: Kept \cup {NoFile}]

Writing ==
    [listed: BOOLEAN, closed: BOOLEAN, pending: Kept \cup {NoFile}, notify: BOOLEAN,
     armed: BOOLEAN, data: Kept \cup {NoFile},
     pc: {"none", "select", "write", "rename", "done"}, last: BOOLEAN, awaited: BOOLEAN,
     failed: BOOLEAN]

LifeStep ==
    {"none", "register", "counter", "open", "running", "unregister", "uncount", "close",
     "closing"}

CmdTypeOK ==
    /\ daemon \in {"up", "stopping", "down"}
    /\ life \in LifeStep
    /\ tracker \in Tracker \cup {NoTracker}
    /\ tracker # NoTracker => Len(tracker.history) <= MaxHistory
    /\ counter \in Counter /\ scan \in Scanning /\ writer \in Writing
    /\ file \in Kept \cup {NoFile}
    /\ closedLog \in Seq(Command)
    /\ next \in Nat /\ objects \in Nat

(* What the order of the steps gives: OnExit unregisters before it deletes *)
(* the counter, and a daemon that is down has nothing in memory.           *)
InStep ==
    /\ daemon = "down" => /\ tracker = NoTracker /\ scan = NotScanning
                          /\ writer = NoWriter /\ life = "none"
    /\ life = "uncount" => tracker = NoTracker
    /\ scan.pc # "save" => scan.save = NoFile

(* A flush writes what it copied, the last one what there is.              *)
FlushInStep ==
    /\ writer.pc \in {"write", "rename"} => writer.data # NoFile
    /\ writer.pc = "rename" => tmp = writer.data
    /\ writer.last \/ writer.pc = "done" => writer.closed
    /\ writer.last /\ writer.pc \in {"write", "rename"} => writer.data = writer.pending

(* A Writer that a new tracker meets holds nothing.                        *)
Fresh ==
    daemon = "up" =>
        /\ ~writer.listed /\ life # "closing" => writer = NoWriter
        /\ life \in {"none", "register"} /\ tracker = NoTracker /\ writer.listed =>
               writer.pending = NoFile /\ writer.data = NoFile /\ scan.pc # "save"

(* A tracker has a command exactly while one runs.                         *)
Paired(t) == t.state = "command_running" <=> t.current # NoCommand

TrackerInStep == tracker # NoTracker => Paired(tracker)

(* Counters with the same number are the same, and no counter counts       *)
(* nothing.                                                                *)
Counted ==
    /\ scan.counter.object <= objects /\ counter.object <= objects
    /\ scan.counter.object = 0 => scan.counter.n = 0
    /\ counter.object = 0 => counter.n = 0
    /\ scan.counter.object = counter.object => scan.counter.n = counter.n

(* The running command started at or above the cursor, by every counter    *)
(* that may close it.                                                      *)
BelowCounters ==
    tracker # NoTracker /\ ~swapped =>
        /\ scan.counter.object # 0 => scan.counter.object = counter.object
        /\ tracker.current # NoCommand =>
               /\ tracker.current.start <= counter.n
               /\ scan.pc # "idle" => tracker.current.start <= scan.counter.n

(* The states on their way to the disk and on it.                          *)
Copies == {file, scan.save, writer.pending, writer.data}

Forward(h) ==
    \A i \in 1..Len(h) : h[i].orphan # "daemon_restart" => h[i].end >= h[i].start

AllForward ==
    ~swapped =>
        /\ \A s \in Copies : s # NoFile => Forward(s.history)
        /\ tracker # NoTracker => Forward(tracker.history)

(* Commands are numbered in the order in which they were opened, below m.  *)
Rising(h, c, m) ==
    /\ \A i \in 1..Len(h) : h[i].n < m
    /\ \A i, j \in 1..Len(h) : i < j => h[i].n < h[j].n
    /\ c # NoCommand => c.n < m /\ \A i \in 1..Len(h) : h[i].n < c.n

AllRising ==
    /\ \A s \in Copies : s # NoFile => Rising(s.history, s.inFlight, next)
    /\ tracker # NoTracker => Rising(tracker.history, tracker.current, next)

(* Command k is listed, or the full history has passed it.                 *)
KnownBy(h, c, k) ==
    \/ k \in Numbers(h) \cup InFlightNumber(c)
    \/ Len(h) = MaxHistory /\ k < h[1].n

AllKnown(s, t) ==
    \A k \in Numbers(s.history) \cup InFlightNumber(s.inFlight) :
        KnownBy(t.history, t.current, k)

CopiesKnown ==
    tracker # NoTracker /\ ~foreign =>
        \A s \in Copies : s # NoFile => AllKnown(s, tracker)

CmdInv ==
    /\ CmdTypeOK /\ InStep /\ FlushInStep /\ Fresh
    /\ TrackerInStep /\ Counted /\ BelowCounters
    /\ AllForward /\ AllRising /\ CopiesKnown
    /\ HistoryIsLatest /\ RowsAdvance /\ ClosedIsFlushed

-----------------------------------------------------------------------------
(* The operators of the tracker.                                           *)

(* A command is not nil, and its fields are numbers.                       *)
LEMMA CommandFields ==
    ASSUME NEW c \in Command
    PROVE  c # NoCommand /\ c.n \in Nat /\ c.start \in Nat /\ c.end \in Nat
  <1>1. c # NoCommand
    BY Zenon, HistoryAssumption
  <1> QED
    BY Zenon, <1>1 DEF Command

(* appendHistory adds at the end; a full history loses its first element.  *)
LEMMA AppendHistory ==
    ASSUME NEW h \in Seq(Command), Len(h) <= MaxHistory, NEW c \in Command
    PROVE  LET g == appendHistory(h, c)
               d == IF Len(h) = MaxHistory THEN 1 ELSE 0
           IN  /\ g \in Seq(Command) /\ Len(g) = Len(h) + 1 - d
               /\ Len(g) \in 1..MaxHistory
               /\ \A i \in 1..(Len(g) - 1) : i + d \in 1..Len(h) /\ g[i] = h[i + d]
               /\ g[Len(g)] = c
  <1> DEFINE g == appendHistory(h, c)
             d == IF Len(h) = MaxHistory THEN 1 ELSE 0
  <1>1. MaxHistory \in Nat /\ MaxHistory # 0 /\ Len(h) \in Nat
    BY HistoryAssumption
  <1>2. CASE Len(h) = MaxHistory
    <2>1. h # <<>>
      BY Zenon, <1>1, <1>2, EmptySeq
    <2>2. /\ Tail(h) \in Seq(Command) /\ Len(Tail(h)) = Len(h) - 1
          /\ \A i \in 1..Len(Tail(h)) : Tail(h)[i] = h[i + 1]
      BY Zenon, <2>1, HeadTailProperties
    <2> DEFINE s == Tail(h)
    <2>3. g = Append(s, c) /\ d = 1
      BY Zenon, <1>2 DEF appendHistory
    <2> HIDE DEF s, g, d
    <2>4. /\ g \in Seq(Command) /\ Len(g) = Len(s) + 1
          /\ \A i \in 1..Len(s) : g[i] = s[i]
          /\ g[Len(s) + 1] = c
      BY <2>2, <2>3, AppendProperties DEF s
    <2>5. Len(s) = Len(h) - 1 /\ \A i \in 1..Len(s) : s[i] = h[i + 1]
      BY Zenon, <2>2 DEF s
    <2>6. Len(g) = Len(h)
      BY <1>1, <2>4, <2>5
    <2> QED
      BY <1>1, <1>2, <2>3, <2>4, <2>5, <2>6 DEF g, d
  <1>3. CASE Len(h) # MaxHistory
    <2>1. g = Append(h, c) /\ d = 0
      BY Zenon, <1>3 DEF appendHistory
    <2> HIDE DEF g, d
    <2>2. /\ g \in Seq(Command) /\ Len(g) = Len(h) + 1
          /\ \A i \in 1..Len(h) : g[i] = h[i]
          /\ g[Len(h) + 1] = c
      BY <2>1, AppendProperties
    <2> QED
      BY <1>1, <1>3, <2>1, <2>2 DEF g, d
  <1> QED
    BY Zenon, <1>2, <1>3

(* The same without the names.                                             *)
LEMMA AppendHistoryType ==
    ASSUME NEW h \in Seq(Command), Len(h) <= MaxHistory, NEW c \in Command,
           NEW g, g = appendHistory(h, c)
    PROVE  g \in Seq(Command) /\ Len(g) <= MaxHistory /\ g[Len(g)] = c
  <1> DEFINE k == appendHistory(h, c)
  <1>1. k \in Seq(Command) /\ Len(k) \in 1..MaxHistory /\ k[Len(k)] = c
    BY Zenon, AppendHistory
  <1> HIDE DEF k
  <1>2. Len(k) <= MaxHistory
    BY <1>1, HistoryAssumption
  <1>3. g = k
    BY Zenon DEF k
  <1> QED
    BY <1>1, <1>2, <1>3, Zenon

(* A command closed at or below its first row keeps the history forward;   *)
(* one closed by a restart does too.                                       *)
LEMMA ForwardAppend ==
    ASSUME NEW h \in Seq(Command), Len(h) <= MaxHistory, NEW c \in Command,
           Forward(h), c.orphan = "daemon_restart" \/ c.end >= c.start
    PROVE  Forward(appendHistory(h, c))
  <1> DEFINE g == appendHistory(h, c)
             d == IF Len(h) = MaxHistory THEN 1 ELSE 0
  <1>1. /\ g \in Seq(Command) /\ g[Len(g)] = c
        /\ \A i \in 1..(Len(g) - 1) : i + d \in 1..Len(h) /\ g[i] = h[i + d]
    BY Zenon, AppendHistory
  <1> HIDE DEF g, d
  <1>2. SUFFICES ASSUME NEW i \in 1..Len(g), g[i].orphan # "daemon_restart"
                 PROVE  g[i].end >= g[i].start
    BY Zenon DEF Forward, g
  <1>3. i = Len(g) \/ i \in 1..(Len(g) - 1)
    BY <1>1
  <1> QED
    BY Zenon, <1>1, <1>2, <1>3 DEF Forward

(* Closing the running command keeps the numbers rising.                   *)
LEMMA RisingAppend ==
    ASSUME NEW h \in Seq(Command), Len(h) <= MaxHistory, NEW c \in Command, NEW x \in Command,
           NEW m \in Nat, Rising(h, c, m), x.n = c.n
    PROVE  Rising(appendHistory(h, x), NoCommand, m)
           /\ \A i \in 1..Len(appendHistory(h, x)) : appendHistory(h, x)[i].n <= c.n
  <1> DEFINE g == appendHistory(h, x)
             d == IF Len(h) = MaxHistory THEN 1 ELSE 0
  <1>1. /\ g \in Seq(Command) /\ g[Len(g)] = x
        /\ \A i \in 1..(Len(g) - 1) : i + d \in 1..Len(h) /\ g[i] = h[i + d]
    BY Zenon, AppendHistory
  <1>2. d \in Nat
    BY Zenon
  <1> HIDE DEF g, d
  <1>3. /\ c # NoCommand /\ c.n \in Nat
        /\ \A i \in 1..Len(h) : h[i] \in Command /\ h[i].n \in Nat
    BY CommandFields
  <1>4. /\ \A i \in 1..Len(h) : h[i].n < m /\ h[i].n < c.n
        /\ \A i, j \in 1..Len(h) : i < j => h[i].n < h[j].n
        /\ c.n < m
    BY Zenon, <1>3 DEF Rising
  <1>5. \A i \in 1..Len(g) : i = Len(g) \/ i \in 1..(Len(g) - 1)
    BY <1>1
  <1>6. \A i \in 1..Len(g) : g[i].n < m /\ g[i].n <= c.n
    <2>1. ASSUME NEW i \in 1..(Len(g) - 1) PROVE g[i].n < m /\ g[i].n <= c.n
      <3>1. i + d \in 1..Len(h) /\ g[i] = h[i + d]
        BY Zenon, <1>1
      <3>2. g[i].n \in Nat /\ g[i].n < m /\ g[i].n < c.n
        BY Zenon, <1>3, <1>4, <3>1
      <3> QED
        BY ONLY SMTT(30), <1>3, <3>2
    <2>2. g[Len(g)].n = c.n /\ c.n < m
      BY Zenon, <1>1, <1>4
    <2>3. c.n <= c.n
      BY SMTT(30), <1>3
    <2> QED
      BY Zenon, <1>5, <2>1, <2>2, <2>3
  <1>7. ASSUME NEW i \in 1..Len(g), NEW j \in 1..Len(g), i < j
        PROVE  g[i].n < g[j].n
    <2>1. i \in 1..(Len(g) - 1)
      BY <1>1, <1>7
    <2>2. CASE j = Len(g)
      BY Zenon, <1>1, <1>4, <2>1, <2>2
    <2>3. CASE j \in 1..(Len(g) - 1)
      <3>1. i + d < j + d
        BY <1>2, <1>7
      <3> QED
        BY Zenon, <1>1, <1>4, <2>1, <2>3, <3>1
    <2> QED
      BY Zenon, <1>5, <2>2, <2>3
  <1> QED
    BY Zenon, <1>6, <1>7 DEF Rising, g

(* Closing the running command forgets none: an evicted one is below the   *)
(* first that is left.                                                     *)
LEMMA KnownAppend ==
    ASSUME NEW h \in Seq(Command), Len(h) <= MaxHistory, NEW c \in Command, NEW x \in Command,
           NEW m \in Nat, Rising(h, c, m), x.n = c.n, NEW k, KnownBy(h, c, k), k \in Nat
    PROVE  /\ KnownBy(appendHistory(h, x), NoCommand, k)
           /\ \A b : KnownBy(appendHistory(h, x), b, k)
  <1> DEFINE g == appendHistory(h, x)
             d == IF Len(h) = MaxHistory THEN 1 ELSE 0
  <1>1. /\ g \in Seq(Command) /\ Len(g) \in 1..MaxHistory /\ Len(g) = Len(h) + 1 - d
        /\ g[Len(g)] = x
        /\ \A i \in 1..(Len(g) - 1) : i + d \in 1..Len(h) /\ g[i] = h[i + d]
    BY Zenon, AppendHistory
  <1>2. d = IF Len(h) = MaxHistory THEN 1 ELSE 0
    BY Zenon
  <1> HIDE DEF g, d
  <1>3. /\ c # NoCommand /\ c.n \in Nat
        /\ MaxHistory \in Nat /\ MaxHistory # 0 /\ Len(h) \in Nat
    BY HistoryAssumption, CommandFields
  <1>4. /\ \A i \in 1..Len(h) : h[i].n < c.n /\ h[i].n \in Nat
        /\ \A i, j \in 1..Len(h) : i < j => h[i].n < h[j].n
    BY <1>3, CommandFields DEF Rising
  <1>5. k \in Numbers(g) \/ (Len(g) = MaxHistory /\ k < g[1].n)
    <2>1. CASE k = c.n
      BY <1>1, <2>1 DEF Numbers
    <2>2. CASE k \in Numbers(h)
      <3>1. PICK i \in 1..Len(h) : k = h[i].n
        BY Zenon, <2>2 DEF Numbers
      <3>2. CASE i - d \in 1..(Len(g) - 1)
        <4>1. (i - d) + d = i /\ i - d \in 1..Len(g)
          BY <1>1, <1>2, <1>3, <3>2
        <4>2. g[i - d] = h[i]
          BY Zenon, <1>1, <3>2, <4>1
        <4> QED
          BY Zenon, <3>1, <4>1, <4>2 DEF Numbers
      <3>3. CASE i - d \notin 1..(Len(g) - 1)
        <4>1. d = 1 /\ i = 1 /\ Len(h) = MaxHistory /\ Len(g) = MaxHistory
          BY <1>1, <1>2, <1>3, <3>3
        <4>2. h[1].n < g[1].n
          <5>1. CASE Len(g) = 1
            BY Zenon, <1>1, <1>4, <4>1, <5>1
          <5>2. CASE Len(g) # 1
            <6>1. 1 \in 1..(Len(g) - 1)
              BY <1>1, <1>3, <5>2
            <6>2. g[1] = h[2] /\ 2 \in 1..Len(h) /\ 1 \in 1..Len(h)
              BY <1>1, <1>3, <4>1, <6>1
            <6> QED
              BY <1>4, <6>2
          <5> QED
            BY Zenon, <5>1, <5>2
        <4> QED
          BY Zenon, <3>1, <4>1, <4>2
      <3> QED
        BY Zenon, <3>2, <3>3
    <2>3. CASE Len(h) = MaxHistory /\ k < h[1].n
      <3>1. d = 1 /\ Len(g) = MaxHistory /\ 1 \in 1..Len(h)
        BY <1>1, <1>2, <1>3, <2>3
      <3>2. h[1].n < g[1].n /\ g[1].n \in Nat
        <4>1. CASE Len(g) = 1
          BY Zenon, <1>1, <1>3, <1>4, <3>1, <4>1
        <4>2. CASE Len(g) # 1
          <5>1. 1 \in 1..(Len(g) - 1)
            BY <1>1, <1>3, <4>2
          <5>2. g[1] = h[2] /\ 2 \in 1..Len(h)
            BY <1>1, <1>3, <3>1, <5>1
          <5> QED
            BY <1>4, <3>1, <5>2
        <4> QED
          BY Zenon, <4>1, <4>2
      <3> QED
        BY <1>4, <2>3, <3>1, <3>2
    <2> QED
      BY Zenon, <1>3, <2>1, <2>2, <2>3 DEF KnownBy, InFlightNumber
  <1> QED
    BY Zenon, <1>5 DEF KnownBy, g

(* The history is the end of the log.                                      *)
Latest(h, log) ==
    /\ Len(h) <= Len(log)
    /\ Len(h) <= MaxHistory
    /\ Len(h) < MaxHistory => Len(h) = Len(log)
    /\ \A i \in 1..Len(h) : h[i] = log[Len(log) - Len(h) + i]

(* It stays so when both grow by the same command.                         *)
LEMMA LatestAppend ==
    ASSUME NEW h \in Seq(Command), Len(h) <= MaxHistory, NEW c \in Command,
           NEW log \in Seq(Command), Latest(h, log)
    PROVE  Latest(appendHistory(h, c), Append(log, c))
  <1> DEFINE g == appendHistory(h, c)
             d == IF Len(h) = MaxHistory THEN 1 ELSE 0
             l == Append(log, c)
  <1>1. /\ Len(g) \in 1..MaxHistory /\ Len(g) = Len(h) + 1 - d /\ g[Len(g)] = c
        /\ \A i \in 1..(Len(g) - 1) : i + d \in 1..Len(h) /\ g[i] = h[i + d]
    BY Zenon, AppendHistory
  <1>2. d = IF Len(h) = MaxHistory THEN 1 ELSE 0
    BY Zenon
  <1>3. /\ Len(l) = Len(log) + 1 /\ l[Len(log) + 1] = c
        /\ \A i \in 1..Len(log) : l[i] = log[i]
    BY AppendProperties
  <1> HIDE DEF g, d, l
  <1>4. Len(h) \in Nat /\ Len(log) \in Nat /\ MaxHistory \in Nat
    BY HistoryAssumption
  <1>5. /\ Len(g) <= Len(l) /\ Len(g) <= MaxHistory
        /\ Len(g) < MaxHistory => Len(g) = Len(l)
    BY SMTT(30), <1>1, <1>2, <1>3, <1>4 DEF Latest
  <1>6. ASSUME NEW i \in 1..Len(g)
        PROVE  g[i] = l[Len(l) - Len(g) + i]
    <2>1. CASE i = Len(g)
      BY <1>1, <1>3, <1>4, <2>1
    <2>2. CASE i # Len(g)
      <3>1. i \in 1..(Len(g) - 1) /\ i + d \in 1..Len(h) /\ g[i] = h[i + d]
        BY <1>1, <2>2
      <3>2. h[i + d] = log[Len(log) - Len(h) + (i + d)]
        BY Zenon, <3>1 DEF Latest
      <3>3. Len(log) - Len(h) + (i + d) = Len(l) - Len(g) + i
        <4>1. \A a, b, k, e \in Nat : a - b + (k + e) = (a + 1) - (b + 1 - e) + k
          OBVIOUS
        <4>2. d \in Nat /\ i \in Nat
          BY <1>2
        <4> QED
          BY <1>1, <1>3, <1>4, <4>1, <4>2
      <3>4. Len(log) - Len(h) + (i + d) \in 1..Len(log)
        <4>1. Len(h) <= Len(log)
          BY Zenon DEF Latest
        <4> QED
          BY <1>4, <3>1, <4>1
      <3> QED
        BY Zenon, <1>3, <3>1, <3>2, <3>3, <3>4
    <2> QED
      BY Zenon, <2>1, <2>2
  <1> QED
    BY Zenon, <1>5, <1>6 DEF Latest, g, l

Ended(c, row, reason) == [c EXCEPT !.end = row, !.orphan = reason]

(* What a 133 marker does to a tracker: a running command is closed, and   *)
(* only C opens one.                                                       *)
Handled(t, code, row, n, u) ==
    /\ u \in Tracker /\ Paired(u) /\ Len(u.history) <= MaxHistory
    /\ u.current = NoCommand \/ (code = "C" /\ u.current = openCommand(n, row))
    /\ \/ /\ finishes(t, code) /\ t.current \in Command
          /\ \E r \in {"", "missing_d_marker"} :
                /\ Ended(t.current, row, r) \in Command
                /\ u.history = appendHistory(t.history, Ended(t.current, row, r))
       \/ /\ ~finishes(t, code) /\ t.current = NoCommand /\ u.history = t.history

(* handle does that.                                                       *)
LEMMA HandleShape ==
    ASSUME NEW t \in Tracker, Paired(t), Len(t.history) <= MaxHistory,
           NEW code \in {"A", "B", "C", "D"}, NEW row \in Nat, NEW n \in Nat,
           NEW u, u = handle(t, code, row, n)
    PROVE  Handled(t, code, row, n, u)
  <1> USE DEF Handled
  <1> DEFINE new == openCommand(n, row)
             x(r) == Ended(t.current, row, r)
             g(r) == appendHistory(t.history, x(r))
  <1>1. /\ t.history \in Seq(Command) /\ t.current \in Command \cup {NoCommand}
        /\ t.state \in TrackerState
        /\ t = [state |-> t.state, current |-> t.current, history |-> t.history]
    BY Zenon DEF Tracker
  <1>2. new \in Command /\ new # NoCommand
    <2>1. new \in Command
      BY Zenon DEF openCommand, Command
    <2> QED
      BY Zenon, <2>1, CommandFields
  <1>3. CASE t.state = "command_running"
    <2>1. t.current \in Command
      BY Zenon, <1>1, <1>3 DEF Paired
    <2>2. \A r \in {"", "missing_d_marker"} : x(r) \in Command
      BY Zenon, <2>1 DEF Ended, Command
    <2> HIDE DEF x
    <2>3. \A r \in {"", "missing_d_marker"} : g(r) \in Seq(Command) /\ Len(g(r)) <= MaxHistory
      BY ZenonT(30), <1>1, <2>2, AppendHistoryType
    <2>4. \A r : close(t, row, r) = [state |-> "idle", current |-> NoCommand, history |-> g(r)]
      BY Zenon DEF close, g, x, Ended
    <2> HIDE DEF g
    <2>5. finishes(t, code)
      BY Zenon, <1>3 DEF finishes
    <2>6. orphaned(t, row) = [state |-> "idle", current |-> NoCommand,
                              history |-> g("missing_d_marker")]
      BY Zenon, <1>3, <2>4 DEF orphaned
    <2> HIDE DEF new
    <2> DEFINE o == orphaned(t, row)
    <2>7. o \in Tracker /\ o.history = g("missing_d_marker") /\ o.current = NoCommand
      <3> DEFINE q == g("missing_d_marker")
      <3>1. q \in Seq(Command) /\ o = [state |-> "idle", current |-> NoCommand, history |-> q]
        BY Zenon, <2>3, <2>6
      <3> HIDE DEF q, o
      <3>2. o \in Tracker /\ o.history = q /\ o.current = NoCommand
        BY Zenon, <3>1 DEF Tracker, TrackerState
      <3> QED
        BY Zenon, <3>2 DEF q
    <2> HIDE DEF o
    <2>8. ASSUME NEW r \in {"", "missing_d_marker"}, u \in Tracker, u.history = g(r),
                 \/ u.state # "command_running" /\ u.current = NoCommand
                 \/ u.state = "command_running" /\ u.current = new /\ code = "C"
          PROVE  /\ u \in Tracker /\ Paired(u) /\ Len(u.history) <= MaxHistory
                 /\ u.current = NoCommand \/ (code = "C" /\ u.current = new)
                 /\ u.history = appendHistory(t.history, Ended(t.current, row, r))
                 /\ Ended(t.current, row, r) \in Command
      <3>1. Paired(u)
        BY Zenon, <1>2, <2>8 DEF Paired
      <3>2. g(r) = appendHistory(t.history, Ended(t.current, row, r))
        BY Zenon DEF g, x
      <3>3. Ended(t.current, row, r) \in Command
        BY Zenon, <2>2 DEF x
      <3>4. Len(u.history) <= MaxHistory
        BY Zenon, <2>3, <2>8
      <3> QED
        BY Zenon, <2>8, <3>1, <3>2, <3>3, <3>4
    <2>9. CASE code \in {"A", "B"}
      <3>1. \E s \in {"prompt_shown", "user_typing"} : u = [o EXCEPT !.state = s]
        BY Zenon, <2>9 DEF handle, o
      <3>2. /\ u \in Tracker /\ u.history = g("missing_d_marker")
            /\ u.state # "command_running" /\ u.current = NoCommand
        BY Zenon, <2>7, <3>1 DEF Tracker, TrackerState
      <3> QED
        BY Zenon, <2>1, <2>5, <2>8, <3>2 DEF new
    <2>10. CASE code = "C"
      <3>1. u = [o EXCEPT !.state = "command_running", !.current = new]
        BY Zenon, <2>10 DEF handle, new, o
      <3>2. /\ u \in Tracker /\ u.history = g("missing_d_marker")
            /\ u.state = "command_running" /\ u.current = new
        BY Zenon, <1>2, <2>7, <3>1 DEF Tracker, TrackerState
      <3> QED
        BY Zenon, <2>1, <2>5, <2>8, <2>10, <3>2 DEF new
    <2>11. CASE code = "D"
      <3>1. u = [state |-> "idle", current |-> NoCommand, history |-> g("")]
        BY Zenon, <1>3, <2>4, <2>11 DEF handle
      <3> DEFINE q == g("")
      <3>2. q \in Seq(Command)
        BY Zenon, <2>3
      <3> HIDE DEF q
      <3>3. u = [state |-> "idle", current |-> NoCommand, history |-> q]
        BY Zenon, <3>1 DEF q
      <3>4. /\ u \in Tracker /\ u.history = q
            /\ u.state # "command_running" /\ u.current = NoCommand
        BY <3>2, <3>3 DEF Tracker, TrackerState
      <3> QED
        BY Zenon, <2>1, <2>5, <2>8, <3>4 DEF new, q
    <2> QED
      BY Zenon, <2>9, <2>10, <2>11
  <1>4. CASE t.state # "command_running"
    <2>1. t.current = NoCommand /\ ~finishes(t, code) /\ orphaned(t, row) = t
      BY Zenon, <1>4 DEF Paired, finishes, orphaned
    <2> HIDE DEF new
    <2>2. u = CASE code = "A" -> [t EXCEPT !.state = "prompt_shown"]
                [] code = "B" -> [t EXCEPT !.state = "user_typing"]
                [] code = "C" -> [t EXCEPT !.state = "command_running", !.current = new]
                [] code = "D" -> t
      BY Zenon, <1>4, <2>1 DEF handle, new
    <2>3. u.history = t.history /\ (u.current = NoCommand \/ (code = "C" /\ u.current = new))
      BY Zenon, <1>1, <2>1, <2>2
    <2>4. u \in Tracker /\ Paired(u)
      BY Zenon, <1>1, <1>2, <1>4, <2>1, <2>2 DEF Tracker, TrackerState, Paired
    <2> QED
      BY Zenon, <2>1, <2>3, <2>4 DEF new
  <1> QED
    BY Zenon, <1>3, <1>4

(* Counting lines.                                                         *)
LEMMA AdvanceShape ==
    ASSUME NEW c \in Counter, NEW k \in Nat, c.object = 0 => c.n = 0
    PROVE  /\ Advance(c, k) \in Counter /\ Advance(c, k).object = c.object
           /\ c.n <= Advance(c, k).n
           /\ c.object = 0 => Advance(c, k).n = 0
  BY DEF Advance, Counter

(* A file's tracker: what was in flight is closed as if by a marker.       *)
LEMMA RestoreShape ==
    ASSUME NEW s \in Kept
    PROVE  /\ restore(s) \in Tracker /\ Paired(restore(s))
           /\ Len(restore(s).history) <= MaxHistory
           /\ restore(s).current = NoCommand
           /\ \/ s.inFlight = NoCommand /\ restore(s).history = s.history
              \/ /\ s.inFlight \in Command
                 /\ Ended(s.inFlight, s.inFlight.start, "daemon_restart") \in Command
                 /\ restore(s).history =
                       appendHistory(s.history,
                                     Ended(s.inFlight, s.inFlight.start, "daemon_restart"))
  <1> DEFINE x == Ended(s.inFlight, s.inFlight.start, "daemon_restart")
             g == appendHistory(s.history, x)
  <1>1. /\ s.history \in Seq(Command) /\ Len(s.history) <= MaxHistory
        /\ s.inFlight \in Command \cup {NoCommand}
    BY Zenon DEF Kept, Snapshot
  <1>2. restore(s) = [state |-> "idle", current |-> NoCommand,
                      history |-> IF s.inFlight = NoCommand THEN s.history ELSE g]
    BY DEF restore, newTracker, g, x, Ended
  <1>3. s.inFlight # NoCommand => x \in Command
    BY Zenon, <1>1 DEF Ended, Command
  <1> HIDE DEF x
  <1>4. s.inFlight # NoCommand => g \in Seq(Command) /\ Len(g) <= MaxHistory
    BY ZenonT(30), <1>1, <1>3, AppendHistoryType
  <1> HIDE DEF g
  <1> QED
    BY <1>1, <1>2, <1>3, <1>4 DEF Tracker, TrackerState, Paired, g, x

-----------------------------------------------------------------------------
(* The steps.                                                              *)

(* What ScanMarker does, with the counter c it leaves.                     *)
Closes(c) ==
    /\ tracker.current \in Command
    /\ \E r \in {"", "missing_d_marker"} :
          /\ Ended(tracker.current, c.n, r) \in Command
          /\ tracker'.history = appendHistory(tracker.history, Ended(tracker.current, c.n, r))
          /\ closedLog' = Append(closedLog, Ended(tracker.current, c.n, r))
    /\ scan'.pc = "save" /\ scan'.save = snapshot(tracker')

Passes ==
    /\ tracker.current = NoCommand /\ tracker'.history = tracker.history
    /\ UNCHANGED closedLog /\ scan'.pc = "next" /\ scan'.save = scan.save

MarkerStep(c) ==
    /\ scan.pc = "next" /\ scan' \in Scanning
    /\ c.object = scan.counter.object /\ scan.counter.n <= c.n
    /\ c.object = 0 => c.n = 0
    /\ Shared(c) /\ scan'.counter = c
    /\ next' \in Nat /\ next <= next'
    /\ UNCHANGED <<daemon, writer, life, dropped, swapped, foreign, diskVars, objects>>
    /\ \/ /\ tracker = NoTracker /\ tracker' = NoTracker
          /\ UNCHANGED closedLog /\ scan'.pc = "next" /\ scan'.save = scan.save
       \/ /\ tracker \in Tracker /\ tracker # NoTracker
          /\ tracker' \in Tracker /\ tracker' # NoTracker /\ Paired(tracker')
          /\ Len(tracker'.history) <= MaxHistory
          /\ \/ tracker'.current = NoCommand
             \/ tracker'.current = openCommand(next, c.n) /\ next' = next + 1
          /\ Closes(c) \/ Passes

(* ScanMarker does that.                                                   *)
LEMMA MarkerShape ==
    ASSUME CmdInv, ScanMarker
    PROVE  \E c \in Counter : MarkerStep(c)
  <1> DEFINE seg == Head(scan.segs)
             to == Advance(scan.counter, seg.nl)
             after == handle(tracker, seg.code, to.n, next)
  <1>1. CmdTypeOK /\ InStep /\ TrackerInStep /\ Counted
    BY Zenon DEF CmdInv
  <1>2. /\ scan.segs \in Seq(Segment) /\ scan.segs # <<>> /\ scan.counter \in Counter
        /\ scan \in Scanning /\ scan.pc = "next" /\ next \in Nat
    BY Zenon, <1>1 DEF CmdTypeOK, Scanning, ScanMarker
  <1>3. seg \in Segment /\ Tail(scan.segs) \in Seq(Segment)
    BY Zenon, <1>2, HeadTailProperties
  <1>4. seg.nl \in Nat /\ seg.code \in {"A", "B", "C", "D"}
    BY Zenon, <1>3 DEF Segment, ScanMarker
  <1>5. /\ to \in Counter /\ to.object = scan.counter.object /\ scan.counter.n <= to.n
        /\ to.object = 0 => to.n = 0
    BY <1>1, <1>2, <1>4, AdvanceShape DEF Counted
  <1>6. /\ next' = IF seg.code = "C" THEN next + 1 ELSE next
        /\ tracker' = IF tracker = NoTracker THEN tracker ELSE after
        /\ Shared(to)
        /\ UNCHANGED <<daemon, writer, life, dropped, swapped, foreign, diskVars, objects>>
    BY Zenon DEF ScanMarker
  <1>7. IF tracker # NoTracker /\ finishes(tracker, seg.code)
        THEN /\ closedLog' = Append(closedLog, tracker'.history[Len(tracker'.history)])
             /\ scan' = [scan EXCEPT !.counter = to, !.segs = Tail(@),
                                     !.pc = "save", !.save = snapshot(tracker')]
        ELSE /\ scan' = [scan EXCEPT !.counter = to, !.segs = Tail(@)]
             /\ UNCHANGED closedLog
    BY Zenon DEF ScanMarker
  <1>8. to.n \in Nat
    BY Zenon, <1>5 DEF Counter
  <1> HIDE DEF to, seg
  <1>9. next' \in Nat /\ next <= next'
    BY <1>2, <1>6
  <1>10. CASE tracker = NoTracker
    <2>1. scan' = [scan EXCEPT !.counter = to, !.segs = Tail(@)] /\ UNCHANGED closedLog
      BY Zenon, <1>7, <1>10
    <2>2. /\ scan' \in Scanning /\ scan'.pc = "next" /\ scan'.counter = to
          /\ scan'.save = scan.save
      BY Zenon, <1>2, <1>3, <1>5, <2>1 DEF Scanning
    <2> QED
      BY Zenon, <1>2, <1>5, <1>6, <1>9, <1>10, <2>1, <2>2 DEF MarkerStep
  <1>11. CASE tracker # NoTracker
    <2>1. tracker \in Tracker /\ Paired(tracker) /\ Len(tracker.history) <= MaxHistory
      BY Zenon, <1>1, <1>11 DEF CmdTypeOK, TrackerInStep
    <2>2. after = handle(tracker, seg.code, to.n, next) /\ next \in Nat
      BY Zenon, <1>2
    <2> HIDE DEF after
    <2>3. \A t, code, row, n, u :
             t \in Tracker /\ Paired(t) /\ Len(t.history) <= MaxHistory
             /\ code \in {"A", "B", "C", "D"} /\ row \in Nat /\ n \in Nat
             /\ u = handle(t, code, row, n) => Handled(t, code, row, n, u)
      BY HandleShape
    <2>4. Handled(tracker, seg.code, to.n, next, after)
      BY Zenon, <1>4, <1>8, <2>2, <2>1, <2>3
    <2>5. /\ after \in Tracker /\ Paired(after) /\ Len(after.history) <= MaxHistory
          /\ after.current = NoCommand \/ (seg.code = "C" /\ after.current = openCommand(next, to.n))
          /\ \/ /\ finishes(tracker, seg.code) /\ tracker.current \in Command
                /\ \E r \in {"", "missing_d_marker"} :
                      /\ Ended(tracker.current, to.n, r) \in Command
                      /\ after.history = appendHistory(tracker.history, Ended(tracker.current, to.n, r))
             \/ /\ ~finishes(tracker, seg.code) /\ tracker.current = NoCommand
                /\ after.history = tracker.history
      BY <2>4, Zenon DEF Handled
    <2>6. tracker' = after
      BY Zenon, <1>6, <1>11 DEF after
    <2>7. after # NoTracker
      BY Zenon, <2>5, CommandsAssumption
    <2>8. after.current = NoCommand \/ (after.current = openCommand(next, to.n) /\ next' = next + 1)
      BY Zenon, <1>6, <2>5
    <2>9. CASE finishes(tracker, seg.code)
      <3>1. PICK r \in {"", "missing_d_marker"} :
               /\ Ended(tracker.current, to.n, r) \in Command
               /\ after.history = appendHistory(tracker.history, Ended(tracker.current, to.n, r))
        BY Zenon, <2>5, <2>9
      <3>2. tracker.history \in Seq(Command)
        BY Zenon, <2>1 DEF Tracker
      <3>3. after.history[Len(after.history)] = Ended(tracker.current, to.n, r)
        <4>1. \A g, h, x : h \in Seq(Command) /\ Len(h) <= MaxHistory /\ x \in Command
                           /\ g = appendHistory(h, x) => g[Len(g)] = x
          BY Zenon, AppendHistoryType
        <4>2. Len(tracker.history) <= MaxHistory
          BY Zenon, <2>1
        <4>3. Ended(tracker.current, to.n, r) \in Command
          BY Zenon, <3>1
        <4>4. after.history = appendHistory(tracker.history, Ended(tracker.current, to.n, r))
          BY Zenon, <3>1
        <4> QED
          BY Zenon, <3>2, <4>1, <4>2, <4>3, <4>4
      <3>4. /\ closedLog' = Append(closedLog, after.history[Len(after.history)])
            /\ scan' = [scan EXCEPT !.counter = to, !.segs = Tail(@),
                                    !.pc = "save", !.save = snapshot(after)]
        BY Zenon, <1>7, <1>11, <2>6, <2>9
      <3>5. snapshot(after) \in Kept
        BY Zenon, <2>5 DEF snapshot, Kept, Snapshot, Tracker
      <3>6. /\ scan' \in Scanning /\ scan'.pc = "save" /\ scan'.counter = to
            /\ scan'.save = snapshot(after)
        BY Zenon, <1>2, <1>3, <1>5, <3>4, <3>5 DEF Scanning
      <3>7. Closes(to)
        BY Zenon, <2>5, <2>6, <2>9, <3>1, <3>3, <3>4, <3>6 DEF Closes
      <3> QED
        BY Zenon, <1>2, <1>5, <1>6, <1>9, <1>11, <2>1, <2>5, <2>6, <2>7, <2>8, <3>6, <3>7
           DEF MarkerStep
    <2>10. CASE ~finishes(tracker, seg.code)
      <3>1. scan' = [scan EXCEPT !.counter = to, !.segs = Tail(@)] /\ UNCHANGED closedLog
        BY Zenon, <1>7, <2>10
      <3>2. /\ scan' \in Scanning /\ scan'.pc = "next" /\ scan'.counter = to
            /\ scan'.save = scan.save
        BY Zenon, <1>2, <1>3, <1>5, <3>1 DEF Scanning
      <3>3. Passes
        BY Zenon, <2>5, <2>6, <2>10, <3>1, <3>2 DEF Passes
      <3> QED
        BY Zenon, <1>2, <1>5, <1>6, <1>9, <1>11, <2>1, <2>5, <2>6, <2>7, <2>8, <3>2, <3>3
           DEF MarkerStep
    <2> QED
      BY Zenon, <2>9, <2>10
  <1> QED
    BY Zenon, <1>10, <1>11

(* The initial values of the records have their types.                     *)
LEMMA BlankTypes ==
    /\ NoCounter \in Counter /\ NotScanning \in Scanning
    /\ NoWriter \in Writing /\ NewWriter \in Writing
    /\ newTracker \in Tracker /\ Paired(newTracker) /\ newTracker.history = <<>>
    /\ newTracker # NoTracker
  <1>1. NoCounter \in Counter /\ <<>> \in Seq(Segment) /\ <<>> \in Seq(Command)
    BY Zenon, EmptySeq DEF NoCounter, Counter
  <1>2. NotScanning \in Scanning
    BY Zenon, <1>1 DEF NotScanning, Scanning
  <1>3. NoWriter \in Writing
    BY Zenon DEF NoWriter, Writing
  <1>4. NewWriter \in Writing
    BY Zenon, <1>3 DEF NewWriter, Writing
  <1>5. newTracker \in Tracker /\ Paired(newTracker) /\ newTracker.history = <<>>
    BY Zenon, <1>1 DEF newTracker, Tracker, TrackerState, Paired
  <1> QED
    BY Zenon, <1>1, <1>2, <1>3, <1>4, <1>5, CommandsAssumption

(* A Writer that has just been made.                                       *)
LEMMA BlankWriters ==
    \A w \in {NoWriter, NewWriter} :
        /\ ~w.closed /\ ~w.last /\ ~w.failed /\ w.pc \in {"none", "select"}
        /\ w.pending = NoFile /\ w.data = NoFile
  <1>1. /\ ~NoWriter.closed /\ ~NoWriter.last /\ ~NoWriter.failed /\ NoWriter.pc = "none"
        /\ NoWriter.pending = NoFile /\ NoWriter.data = NoFile
    BY Zenon DEF NoWriter
  <1>2. /\ NewWriter.closed = NoWriter.closed /\ NewWriter.last = NoWriter.last
        /\ NewWriter.failed = NoWriter.failed /\ NewWriter.pc = "select"
        /\ NewWriter.pending = NoWriter.pending /\ NewWriter.data = NoWriter.data
    BY Zenon DEF NewWriter, NoWriter
  <1> QED
    BY Zenon, <1>1, <1>2

(* What the steps of the Writer's goroutine leave of it, and where its     *)
(* states come from.                                                       *)
WriterMoves ==
    /\ writer' \in Writing
    /\ UNCHANGED <<daemon, life, tracker, counter, scan, ghostVars, dir, boundVars>>
    /\ writer'.listed = writer.listed /\ writer'.closed = writer.closed
    /\ writer'.pending = writer.pending
    /\ writer'.data \in {writer.data, writer.pending, NoFile}
    /\ file' \in {file, writer.data}
    /\ file' # file => writer.pc = "rename" /\ writer'.failed = FALSE
    /\ writer.pc # "none" /\ writer.pc # "done"

(* The goroutine moves like that.                                          *)
LEMMA WriterShape ==
    ASSUME CmdInv, WriterRun
    PROVE  WriterMoves /\ file' \in Kept \cup {NoFile} /\ FlushInStep' /\ ClosedIsFlushed'
  <1> DEFINE Rest == UNCHANGED <<daemon, life, tracker, counter, scan, ghostVars, dir, boundVars>>
             Goal == WriterMoves /\ file' \in Kept \cup {NoFile} /\ FlushInStep' /\ ClosedIsFlushed'
  <1>1. writer \in Writing /\ file \in Kept \cup {NoFile} /\ FlushInStep /\ ClosedIsFlushed
    BY Zenon DEF CmdInv, CmdTypeOK
  <1>2. Rest
    BY Zenon DEF WriterRun, RunNotify, RunTimer, RunClose, FlushWrite, FlushRename, FlushFails,
           WriterStep
  <1>3. CASE RunNotify
    <2>1. /\ writer' = [writer EXCEPT !.notify = FALSE, !.armed = TRUE] /\ UNCHANGED <<file, tmp>>
          /\ writer.pc = "select"
      BY Zenon, <1>3 DEF RunNotify
    <2> QED
      BY Zenon, <1>1, <1>2, <2>1 DEF WriterMoves, Writing, FlushInStep, ClosedIsFlushed
  <1>4. ASSUME NEW w \in Writing, FlushBegin(w), w.pending = writer.pending, w.data = writer.data,
               w.pc = writer.pc, w.closed = writer.closed, w.listed = writer.listed,
               w.failed = writer.failed, writer.pc = "select", w.last => w.closed
        PROVE  Goal
    <2>1. CASE w.pending = NoFile
      <3>1. /\ writer' = [w EXCEPT !.pc = IF w.last THEN "done" ELSE "select"]
            /\ UNCHANGED <<file, tmp>>
        BY Zenon, <1>4, <2>1 DEF FlushBegin
      <3> QED
        BY <1>1, <1>2, <1>4, <2>1, <3>1 DEF WriterMoves, Writing, FlushInStep, ClosedIsFlushed
    <2>2. CASE w.pending # NoFile
      <3>1. writer' = [w EXCEPT !.data = w.pending, !.pc = "write"] /\ UNCHANGED file
        BY Zenon, <1>4, <2>2 DEF FlushBegin
      <3> QED
        BY Zenon, <1>1, <1>2, <1>4, <2>2, <3>1 DEF WriterMoves, Writing, FlushInStep,
           ClosedIsFlushed
    <2> QED
      BY Zenon, <2>1, <2>2
  <1>5. CASE RunTimer
    <2> DEFINE w == [writer EXCEPT !.armed = FALSE]
    <2>1. FlushBegin(w) /\ writer.pc = "select"
      BY Zenon, <1>5 DEF RunTimer
    <2>2. /\ w \in Writing /\ w.pending = writer.pending /\ w.data = writer.data
          /\ w.pc = writer.pc /\ w.closed = writer.closed /\ w.listed = writer.listed
          /\ w.failed = writer.failed /\ (w.last => w.closed)
      BY Zenon, <1>1 DEF Writing, FlushInStep
    <2> HIDE DEF w
    <2> QED
      BY Zenon, <1>4, <2>1, <2>2
  <1>6. CASE RunClose
    <2> DEFINE w == [writer EXCEPT !.armed = FALSE, !.last = TRUE]
    <2>1. FlushBegin(w) /\ writer.pc = "select" /\ writer.closed
      BY Zenon, <1>6 DEF RunClose
    <2>2. /\ w \in Writing /\ w.pending = writer.pending /\ w.data = writer.data
          /\ w.pc = writer.pc /\ w.closed = writer.closed /\ w.listed = writer.listed
          /\ w.failed = writer.failed /\ (w.last => w.closed)
      BY Zenon, <1>1, <2>1 DEF Writing
    <2> HIDE DEF w
    <2> QED
      BY Zenon, <1>4, <2>1, <2>2
  <1>7. CASE FlushWrite
    <2>1. /\ writer' = [writer EXCEPT !.pc = "rename"] /\ UNCHANGED file
          /\ tmp' = writer.data /\ writer.pc = "write"
      BY Zenon, <1>7 DEF FlushWrite
    <2> QED
      BY Zenon, <1>1, <1>2, <2>1 DEF WriterMoves, Writing, FlushInStep, ClosedIsFlushed
  <1>8. CASE FlushRename
    <2>1. /\ writer' = [writer EXCEPT !.data = NoFile, !.failed = FALSE,
                                      !.pc = IF writer.last THEN "done" ELSE "select"]
          /\ file' = writer.data /\ writer.pc = "rename"
      BY Zenon, <1>1, <1>8 DEF FlushRename, Flushed, FlushInStep, Writing
    <2> QED
      BY Zenon, <1>1, <1>2, <2>1 DEF WriterMoves, Writing, FlushInStep, ClosedIsFlushed
  <1>9. CASE FlushFails
    <2>1. /\ writer' = [writer EXCEPT !.data = NoFile, !.failed = TRUE,
                                      !.pc = IF writer.last THEN "done" ELSE "select"]
          /\ UNCHANGED file /\ writer.pc \in {"write", "rename"}
      BY Zenon, <1>1, <1>9 DEF FlushFails, Flushed, Writing
    <2> QED
      BY Zenon, <1>1, <1>2, <2>1 DEF WriterMoves, Writing, FlushInStep, ClosedIsFlushed
  <1> QED
    BY Zenon, <1>3, <1>5, <1>6, <1>7, <1>8, <1>9 DEF WriterRun

(* What the other steps do to the Writer.                                  *)
WriterGiven ==
    /\ UNCHANGED <<file, tmp>>
    /\ \/ UNCHANGED writer
       \/ writer' = NoWriter \/ writer' = NewWriter
       \/ /\ ~writer.closed /\ writer.listed /\ scan.pc = "save"
          /\ writer' = [writer EXCEPT !.pending = scan.save, !.notify = TRUE]
       \/ writer' = Closing
       \/ writer' = [Closing EXCEPT !.awaited = TRUE]

(* Every step is one or the other.                                         *)
LEMMA WriterSteps ==
    ASSUME Next
    PROVE  WriterRun \/ WriterGiven
  <1> USE DEF diskVars, WriterGiven
  <1>1. ASSUME NEW chunk \in Chunk, ScanStart(chunk) PROVE WriterGiven
    BY Zenon, <1>1 DEF ScanStart
  <1>2. CASE Scan
    <2>1. CASE ScanMarker
      BY Zenon, <2>1 DEF ScanMarker
    <2>2. CASE ScanOther
      BY Zenon, <2>2 DEF ScanOther
    <2>3. CASE ScanSave
      BY Zenon, <2>3 DEF ScanSave, Update
    <2>4. CASE ScanTail
      BY Zenon, <2>4 DEF ScanTail
    <2> QED
      BY Zenon, <1>2, <2>1, <2>2, <2>3, <2>4 DEF Scan
  <1>3. CASE Create \/ Register \/ AddCounter \/ OpenWriter \/ Exit
    BY Zenon, <1>3 DEF Create, Register, AddCounter, OpenWriter, Exit
  <1>4. CASE OnExit
    BY Zenon, <1>4 DEF OnExit, Unregister, DeleteCounter, CloseWriter, CloseDone
  <1>5. CASE Stop \/ Halt \/ Crash \/ Start
    BY Zenon, <1>5 DEF Stop, Halt, Crash, Vanish, Start
  <1> QED
    BY Zenon, <1>1, <1>2, <1>3, <1>4, <1>5 DEF Next

(* The Writer's own conditions hold after every step.                      *)
LEMMA FlushStep ==
    ASSUME CmdInv, Next
    PROVE  /\ writer' \in Writing /\ file' \in Kept \cup {NoFile}
           /\ FlushInStep' /\ ClosedIsFlushed'
  <1>1. /\ writer \in Writing /\ file \in Kept \cup {NoFile} /\ scan \in Scanning
        /\ FlushInStep /\ ClosedIsFlushed
    BY Zenon DEF CmdInv, CmdTypeOK
  <1>2. CASE WriterRun
    BY Zenon, <1>2, WriterShape DEF WriterMoves
  <1>3. ASSUME UNCHANGED <<file, tmp>>, writer' \in Writing,
               \/ UNCHANGED writer
               \/ writer' \in {NoWriter, NewWriter}
               \/ /\ writer'.pc = writer.pc /\ writer'.data = writer.data
                  /\ writer'.last = writer.last /\ writer'.failed = writer.failed
                  /\ \/ writer'.closed /\ writer'.pending = writer.pending
                     \/ ~writer.closed /\ ~writer'.closed
        PROVE  FlushInStep' /\ ClosedIsFlushed'
    <2>1. CASE writer' \in {NoWriter, NewWriter}
      BY Zenon, <2>1, BlankWriters DEF FlushInStep, ClosedIsFlushed
    <2> QED
      BY Zenon, <1>1, <1>3, <2>1 DEF FlushInStep, ClosedIsFlushed
  <1>4. CASE WriterGiven
    <2>1. CASE UNCHANGED writer \/ writer' \in {NoWriter, NewWriter}
      BY Zenon, <1>1, <1>3, <1>4, <2>1, BlankTypes DEF WriterGiven
    <2>2. CASE /\ ~writer.closed
               /\ writer' = [writer EXCEPT !.pending = scan.save, !.notify = TRUE]
      <3>1. scan.save \in Kept \cup {NoFile}
        BY Zenon, <1>1 DEF Scanning
      <3>2. /\ writer' \in Writing /\ writer'.pc = writer.pc /\ writer'.data = writer.data
            /\ writer'.last = writer.last /\ writer'.failed = writer.failed
            /\ ~writer'.closed
        BY Zenon, <1>1, <2>2, <3>1 DEF Writing
      <3> QED
        BY Zenon, <1>1, <1>3, <1>4, <2>2, <3>2 DEF WriterGiven
    <2>3. CASE writer' = Closing \/ writer' = [Closing EXCEPT !.awaited = TRUE]
      <3>1. /\ writer' \in Writing /\ writer'.pc = writer.pc /\ writer'.data = writer.data
            /\ writer'.last = writer.last /\ writer'.failed = writer.failed
            /\ writer'.closed /\ writer'.pending = writer.pending
        BY Zenon, <1>1, <2>3 DEF Writing, Closing
      <3> QED
        BY Zenon, <1>1, <1>3, <1>4, <3>1 DEF WriterGiven
    <2> QED
      BY Zenon, <1>4, <2>1, <2>2, <2>3 DEF WriterGiven
  <1> QED
    BY Zenon, <1>2, <1>4, WriterSteps

(* No step invents a state: but for a marker that closes a command, what   *)
(* is on its way to the disk was so before.                                *)
LEMMA CopiesStep ==
    ASSUME CmdInv, Next, ~ScanMarker
    PROVE  /\ Copies' \subseteq Copies \cup {NoFile}
           /\ scan'.save \in {scan.save, NoFile}
  <1>1. /\ writer \in Writing /\ scan \in Scanning /\ InStep /\ FlushInStep
    BY Zenon DEF CmdInv, CmdTypeOK
  <1>2. scan'.save \in {scan.save, NoFile}
    <2> USE DEF memVars
    <2>1. ASSUME NEW chunk \in Chunk, ScanStart(chunk) PROVE scan'.save \in {scan.save, NoFile}
      BY Zenon, <2>1 DEF ScanStart, NotScanning
    <2>2. CASE Scan
      <3>1. CASE ScanOther
        BY Zenon, <1>1, <3>1 DEF ScanOther, Scanning
      <3>2. CASE ScanSave
        BY Zenon, <1>1, <3>2 DEF ScanSave, Scanning
      <3>3. CASE ScanTail
        BY Zenon, <3>3 DEF ScanTail, NotScanning
      <3> QED
        BY Zenon, <2>2, <3>1, <3>2, <3>3 DEF Scan
    <2>3. CASE Create \/ Register \/ AddCounter \/ OpenWriter \/ Exit
      BY Zenon, <2>3 DEF Create, Register, AddCounter, OpenWriter, Exit
    <2>4. CASE OnExit
      BY Zenon, <2>4 DEF OnExit, Unregister, DeleteCounter, CloseWriter, CloseDone
    <2>5. CASE WriterRun
      BY Zenon, <2>5, WriterShape DEF WriterMoves
    <2>6. CASE Stop \/ Halt \/ Crash \/ Start
      BY <2>6 DEF Stop, Halt, Crash, Vanish, Start, NotScanning
    <2> QED
      BY Zenon, <2>1, <2>2, <2>3, <2>4, <2>5, <2>6 DEF Next
  <1>3. /\ file' \in Copies \cup {NoFile}
        /\ writer'.pending \in Copies \cup {NoFile} /\ writer'.data \in Copies \cup {NoFile}
    <2>1. CASE WriterRun
      BY Zenon, <2>1, WriterShape DEF WriterMoves, Copies
    <2>2. CASE WriterGiven
      <3>1. CASE UNCHANGED writer \/ writer' \in {NoWriter, NewWriter}
        BY Zenon, <2>2, <3>1, BlankWriters DEF WriterGiven, Copies
      <3>2. CASE writer' = [writer EXCEPT !.pending = scan.save, !.notify = TRUE]
        BY Zenon, <1>1, <2>2, <3>2 DEF WriterGiven, Copies, Writing
      <3>3. CASE writer' = Closing \/ writer' = [Closing EXCEPT !.awaited = TRUE]
        BY Zenon, <1>1, <2>2, <3>3 DEF WriterGiven, Copies, Writing, Closing
      <3> QED
        BY Zenon, <2>2, <3>1, <3>2, <3>3 DEF WriterGiven
    <2> QED
      BY Zenon, <2>1, <2>2, WriterSteps
  <1> QED
    BY <1>2, <1>3 DEF Copies

(* A tracker goes, stays, is new over nothing that its ID left, or is that *)
(* of the file.                                                            *)
Starts ==
    \/ /\ tracker' = newTracker /\ closedLog' = <<>>
       /\ ~foreign' => Copies' \subseteq {NoFile}
    \/ /\ file \in Kept /\ file # NoFile
       /\ tracker' = restore(file) /\ closedLog' = restore(file).history
       /\ Copies' \subseteq {file, NoFile}

(* No other step touches it.                                               *)
LEMMA TrackerSteps ==
    ASSUME CmdInv, Next, ~ScanMarker
    PROVE  /\ next' = next /\ (swapped => swapped')
           /\ tracker' = NoTracker \/ UNCHANGED <<tracker, closedLog, foreign>> \/ Starts
  <1> DEFINE Stays == /\ UNCHANGED <<tracker, closedLog, foreign>>
                      /\ next' = next /\ (swapped => swapped')
             Goes == tracker' = NoTracker /\ next' = next /\ (swapped => swapped')
  <1> USE DEF ghostVars, boundVars, memVars
  <1>1. ASSUME NEW chunk \in Chunk, ScanStart(chunk) PROVE Stays
    BY Zenon, <1>1 DEF ScanStart
  <1>2. CASE Scan
    <2>1. Stays
      BY <1>2 DEF Scan, ScanOther, ScanSave, ScanTail
    <2> QED
      BY Zenon, <2>1
  <1>3. CASE Create \/ AddCounter \/ OpenWriter \/ Exit
    <2>1. Stays
      <3>1. CASE AddCounter
        BY <3>1, Zenon DEF AddCounter
      <3> QED
        BY <1>3, <3>1 DEF Create, OpenWriter, Exit
    <2> QED
      BY Zenon, <2>1
  <1>4. CASE Register
    <2>1. CASE tracker # NoTracker
      <3>1. Stays
        BY Zenon, <1>4, <2>1 DEF Register
      <3> QED
        BY Zenon, <3>1
    <2>2. CASE tracker = NoTracker
      <3>1. /\ tracker' = newTracker /\ closedLog' = <<>> /\ next' = next
            /\ foreign' = (file # NoFile \/ scan.pc # "idle") /\ (swapped => swapped')
            /\ UNCHANGED <<file, scan, writer>>
        BY Zenon, <1>4, <2>2 DEF Register, diskVars
      <3>2. writer.pending = NoFile /\ writer.data = NoFile
        BY <1>4, <2>2 DEF Register, CmdInv, Fresh, NoWriter
      <3>3. scan.pc = "idle" => scan.save = NoFile
        BY Zenon DEF CmdInv, InStep
      <3>4. ~foreign' => Copies' \subseteq {NoFile}
        BY Zenon, <3>1, <3>2, <3>3 DEF Copies
      <3> QED
        BY Zenon, <3>1, <3>4 DEF Starts
    <2> QED
      BY Zenon, <2>1, <2>2
  <1>5. CASE OnExit
    <2>1. Stays \/ Goes
      BY Zenon, <1>5 DEF OnExit, Unregister, DeleteCounter, CloseWriter, CloseDone
    <2> QED
      BY Zenon, <2>1
  <1>6. CASE WriterRun
    <2>1. Stays
      BY <1>6, WriterShape DEF WriterMoves
    <2> QED
      BY Zenon, <2>1
  <1>7. CASE Stop
    <2>1. Stays
      BY Zenon, <1>7 DEF Stop
    <2> QED
      BY Zenon, <2>1
  <1>8. CASE Halt \/ Crash
    <2>1. Goes
      BY <1>8 DEF Halt, Crash, Vanish
    <2> QED
      BY Zenon, <2>1
  <1>9. CASE Start
    <2>1. next' = next /\ swapped' = swapped /\ foreign' = foreign /\ UNCHANGED <<file, scan>>
      BY Zenon, <1>9 DEF Start, diskVars
    <2>2. CASE UNCHANGED <<tracker, closedLog>>
      BY Zenon, <2>1, <2>2
    <2>3. CASE ~UNCHANGED <<tracker, closedLog>>
      <3>1. /\ writer' = NewWriter /\ file # NoFile
            /\ tracker' = restore(file) /\ closedLog' = restore(file).history
        BY Zenon, <1>9, <2>3 DEF Start, Load
      <3>2. file \in Kept
        BY Zenon, <3>1 DEF CmdInv, CmdTypeOK
      <3>3. scan = NotScanning
        BY Zenon, <1>9 DEF Start, CmdInv, InStep
      <3>4. Copies' \subseteq {file, NoFile}
        BY Zenon, <2>1, <3>1, <3>3 DEF Copies, NewWriter, NoWriter, NotScanning
      <3> QED
        BY Zenon, <2>1, <3>1, <3>2, <3>4 DEF Starts
    <2> QED
      BY Zenon, <2>2, <2>3
  <1> QED
    BY Zenon, <1>1, <1>2, <1>3, <1>4, <1>5, <1>6, <1>7, <1>8, <1>9 DEF Next

(* The types of what the daemon holds.                                     *)
LEMMA CmdTypeStep ==
    ASSUME CmdInv, Next
    PROVE  CmdTypeOK' /\ TrackerInStep'
  <1>1. /\ CmdTypeOK /\ TrackerInStep /\ Counted
    BY Zenon DEF CmdInv
  <1>2. writer' \in Writing /\ file' \in Kept \cup {NoFile}
    BY Zenon, FlushStep
  <1> DEFINE Minds == /\ tracker' \in Tracker \cup {NoTracker}
                      /\ tracker' # NoTracker => /\ Len(tracker'.history) <= MaxHistory
                                                 /\ Paired(tracker')
                      /\ closedLog' \in Seq(Command) /\ next' \in Nat
             Ends == daemon' \in {"up", "stopping", "down"} /\ life' \in LifeStep
             Lines == counter' \in Counter /\ scan' \in Scanning /\ objects' \in Nat
  <1>3. CASE ScanMarker
    <2>1. PICK c \in Counter : MarkerStep(c)
      BY Zenon, <1>3, MarkerShape
    <2>2. Minds
      <3>1. CASE tracker = NoTracker
        BY Zenon, <1>1, <2>1, <3>1 DEF MarkerStep, CmdTypeOK
      <3>2. CASE tracker # NoTracker
        <4>1. closedLog' \in Seq(Command)
          <5>1. closedLog \in Seq(Command)
            BY Zenon, <1>1 DEF CmdTypeOK
          <5>2. closedLog' = closedLog \/ \E x \in Command : closedLog' = Append(closedLog, x)
            BY <2>1, <3>2, Zenon DEF MarkerStep, Closes, Passes
          <5> QED
            BY <5>1, <5>2, AppendProperties
        <4> QED
          BY Zenon, <2>1, <3>2, <4>1 DEF MarkerStep
      <3> QED
        BY Zenon, <3>1, <3>2
    <2>3. Ends /\ Lines
      BY Zenon, <1>1, <2>1 DEF MarkerStep, Shared, CmdTypeOK
    <2> QED
      BY Zenon, <1>2, <2>2, <2>3 DEF CmdTypeOK, TrackerInStep
  <1>4. CASE ~ScanMarker
    <2>1. Minds
      <3>1. next' = next /\ next \in Nat
        BY Zenon, <1>1, <1>4, TrackerSteps DEF CmdTypeOK
      <3>2. CASE UNCHANGED <<tracker, closedLog, foreign>>
        BY Zenon, <1>1, <3>1, <3>2 DEF CmdTypeOK, TrackerInStep
      <3>3. CASE Starts
        <4>1. CASE tracker' = newTracker /\ closedLog' = <<>>
          BY <3>1, <4>1, BlankTypes, EmptySeq, HistoryAssumption
        <4>2. CASE /\ file \in Kept /\ tracker' = restore(file)
                   /\ closedLog' = restore(file).history
          <5>1. /\ restore(file) \in Tracker /\ Paired(restore(file))
                /\ Len(restore(file).history) <= MaxHistory
            BY Zenon, <4>2, RestoreShape
          <5> QED
            BY Zenon, <3>1, <4>2, <5>1 DEF Tracker
        <4> QED
          BY Zenon, <3>3, <4>1, <4>2 DEF Starts
      <3>4. CASE tracker' = NoTracker
        <4>1. closedLog' = closedLog \/ closedLog' = <<>> \/ Starts
          <5> USE DEF ghostVars, memVars
          <5>1. ASSUME NEW chunk \in Chunk, ScanStart(chunk) PROVE closedLog' = closedLog
            BY Zenon, <5>1 DEF ScanStart
          <5>2. CASE Scan
            BY Zenon, <1>4, <5>2 DEF Scan, ScanOther, ScanSave, ScanTail
          <5>3. CASE Create \/ Register \/ AddCounter \/ OpenWriter \/ Exit
            BY Zenon, <5>3 DEF Create, Register, AddCounter, OpenWriter, Exit
          <5>4. CASE OnExit
            BY Zenon, <5>4 DEF OnExit, Unregister, DeleteCounter, CloseWriter, CloseDone
          <5>5. CASE WriterRun
            BY Zenon, <5>5, WriterShape DEF WriterMoves
          <5>6. CASE Stop \/ Halt \/ Crash
            BY Zenon, <5>6 DEF Stop, Halt, Crash, Vanish
          <5>7. CASE Start
            <6>1. CASE closedLog' # closedLog
              <7>1. tracker' = restore(file) /\ file # NoFile
                BY Zenon, <5>7, <6>1 DEF Start, Load
              <7>2. file \in Kept
                BY Zenon, <1>1, <7>1 DEF CmdTypeOK
              <7>3. restore(file) # NoTracker
                BY Zenon, <7>2, RestoreShape, CommandsAssumption
              <7> QED
                BY Zenon, <3>4, <7>1, <7>3
            <6> QED
              BY Zenon, <6>1
          <5> QED
            BY Zenon, <5>1, <5>2, <5>3, <5>4, <5>5, <5>6, <5>7 DEF Next
        <4> QED
          BY Zenon, <1>1, <3>1, <3>3, <3>4, <4>1, EmptySeq DEF CmdTypeOK
      <3> QED
        BY Zenon, <1>4, <3>2, <3>3, <3>4, TrackerSteps
    <2>2. Ends
      <3> USE <1>1 DEF CmdTypeOK, LifeStep
      <3>1. ASSUME NEW chunk \in Chunk, ScanStart(chunk) PROVE Ends
        BY Zenon, <3>1 DEF ScanStart
      <3>2. CASE Scan
        BY Zenon, <1>4, <3>2 DEF Scan, ScanOther, ScanSave, ScanTail
      <3>3. CASE Create \/ Register \/ AddCounter \/ OpenWriter \/ Exit
        BY Zenon, <3>3 DEF Create, Register, AddCounter, OpenWriter, Exit
      <3>4. CASE OnExit
        BY Zenon, <3>4 DEF OnExit, Unregister, DeleteCounter, CloseWriter, CloseDone
      <3>5. CASE WriterRun
        BY Zenon, <3>5, WriterShape DEF WriterMoves
      <3>6. CASE Stop \/ Halt \/ Crash \/ Start
        BY Zenon, <3>6 DEF Stop, Halt, Crash, Vanish, Start
      <3> QED
        BY Zenon, <3>1, <3>2, <3>3, <3>4, <3>5, <3>6 DEF Next
    <2>3. Lines
      <3>1. counter \in Counter /\ scan \in Scanning /\ objects \in Nat /\ scan.counter \in Counter
        BY Zenon, <1>1 DEF CmdTypeOK, Scanning
      <3> USE <3>1 DEF boundVars
      <3>2. ASSUME NEW chunk \in Chunk, ScanStart(chunk) PROVE Lines
        <4>1. chunk.segs \in Seq(Segment) /\ chunk.tail \in Nat
          BY Zenon, CommandsAssumption
        <4>2. NotScanning \in Scanning
          BY Zenon, BlankTypes
        <4>3. \/ scan' = scan
              \/ scan' = [NotScanning EXCEPT !.pc = "next", !.segs = chunk.segs,
                                             !.tail = chunk.tail, !.counter = counter]
          BY Zenon, <3>2 DEF ScanStart
        <4>4. scan' \in Scanning
          BY Zenon, <4>1, <4>2, <4>3 DEF Scanning
        <4> QED
          BY Zenon, <3>2, <4>4 DEF ScanStart
      <3>3. CASE ScanOther
        <4> DEFINE seg == Head(scan.segs)
                   rest == Tail(scan.segs)
        <4>1. scan.segs \in Seq(Segment) /\ scan.segs # <<>> /\ scan.tail \in Nat
          BY Zenon, <3>3 DEF ScanOther, Scanning
        <4>2. /\ seg \in Segment /\ rest \in Seq(Segment)
              /\ Len(rest) = Len(scan.segs) - 1 /\ Len(scan.segs) \in Nat
              /\ Len(scan.segs) # 0
          BY Zenon, <4>1, HeadTailProperties, EmptySeq
        <4>3. seg.nl \in Nat
          BY Zenon, <4>2 DEF Segment
        <4> HIDE DEF seg, rest
        <4>4. CASE Len(scan.segs) = 1
          <5>1. scan' = [scan EXCEPT !.segs = <<>>, !.tail = @ + seg.nl]
            BY Zenon, <3>3, <4>4 DEF ScanOther, seg
          <5>2. scan' \in Scanning
            <6>1. <<>> \in Seq(Segment) /\ scan.tail + seg.nl \in Nat
              BY <4>1, <4>3, EmptySeq
            <6> QED
              BY Zenon, <5>1, <6>1 DEF Scanning
          <5> QED
            BY Zenon, <3>3, <5>2 DEF ScanOther
        <4>5. CASE Len(scan.segs) # 1
          <5> DEFINE head == [rest[1] EXCEPT !.nl = @ + seg.nl]
                     more == [rest EXCEPT ![1] = head]
          <5>1. 1 \in 1..Len(rest)
            <6>1. \A a, b \in Nat : a # 0 /\ a # 1 /\ b = a - 1 => 1 \in 1..b
              OBVIOUS
            <6>2. Len(rest) \in Nat
              BY <4>2
            <6> QED
              BY Zenon, <4>2, <4>5, <6>1, <6>2
          <5>2. rest[1] \in Segment
            BY <4>2, <5>1
          <5>3. head \in Segment
            BY <4>3, <5>2 DEF Segment
          <5>4. scan' = [scan EXCEPT !.segs = more]
            <6>1. scan' = [scan EXCEPT !.segs = [rest EXCEPT ![1].nl = @ + seg.nl]]
              BY <3>3, <4>5, Zenon DEF ScanOther, seg, rest
            <6> QED
              BY Zenon, <6>1
          <5> HIDE DEF head
          <5>5. more \in Seq(Segment)
            BY Zenon, <4>2, <5>1, <5>3, ExceptSeq
          <5> HIDE DEF more
          <5>6. scan' \in Scanning
            BY Zenon, <5>4, <5>5 DEF Scanning
          <5> QED
            BY Zenon, <3>3, <5>6 DEF ScanOther
        <4> QED
          BY Zenon, <4>4, <4>5
      <3>4. CASE ScanSave
        <4>1. scan' = [scan EXCEPT !.pc = "next", !.save = NoFile] /\ UNCHANGED <<counter, objects>>
          BY Zenon, <3>4 DEF ScanSave
        <4> QED
          BY Zenon, <4>1 DEF Scanning
      <3>5. CASE ScanTail
        <4>1. scan.tail \in Nat /\ scan.counter.object = 0 => scan.counter.n = 0
          BY Zenon, <1>1 DEF Counted
        <4>2. Advance(scan.counter, scan.tail) \in Counter
          BY Zenon, <1>1, AdvanceShape DEF Counted, Scanning
        <4>3. Shared(Advance(scan.counter, scan.tail)) /\ scan' = NotScanning /\ objects' = objects
          BY Zenon, <3>5 DEF ScanTail
        <4> QED
          BY Zenon, <4>2, <4>3, BlankTypes DEF Shared
      <3>6. CASE Create \/ Register \/ OpenWriter \/ Exit
        BY Zenon, <3>6 DEF Create, Register, OpenWriter, Exit
      <3>7. CASE AddCounter
        BY <3>7 DEF AddCounter, NewCounter, Counter
      <3>8. CASE OnExit
        BY Zenon, <3>8, BlankTypes DEF OnExit, Unregister, DeleteCounter, CloseWriter, CloseDone
      <3>9. CASE WriterRun
        BY Zenon, <3>9, WriterShape DEF WriterMoves
      <3>10. CASE Stop \/ Halt \/ Crash
        BY Zenon, <3>10, BlankTypes DEF Stop, Halt, Crash, Vanish
      <3>11. CASE Start
        <4>1. UNCHANGED scan /\ (UNCHANGED <<counter, objects>>
                                \/ (counter' = NewCounter /\ objects' = objects + 1))
          BY Zenon, <3>11 DEF Start
        <4>2. NewCounter \in Counter /\ objects + 1 \in Nat
          BY DEF NewCounter, Counter
        <4> QED
          BY Zenon, <4>1, <4>2
      <3> QED
        BY Zenon, <1>4, <3>2, <3>3, <3>4, <3>5, <3>6, <3>7, <3>8, <3>9, <3>10, <3>11 DEF Next, Scan
    <2> QED
      BY Zenon, <1>2, <2>1, <2>2, <2>3 DEF CmdTypeOK, TrackerInStep
  <1> QED
    BY Zenon, <1>3, <1>4

(* The order of the steps.                                                 *)
LEMMA InStepStep ==
    ASSUME CmdInv, Next
    PROVE  InStep'
  <1>1. CmdTypeOK /\ InStep /\ scan \in Scanning
    BY Zenon DEF CmdInv, CmdTypeOK
  <1> DEFINE Down == daemon' = "down" => /\ tracker' = NoTracker /\ scan' = NotScanning
                                         /\ writer' = NoWriter /\ life' = "none"
             Gone == life' = "uncount" => tracker' = NoTracker
             Save == scan'.pc # "save" => scan'.save = NoFile
  <1>2. CASE ScanMarker
    <2>1. PICK c \in Counter : MarkerStep(c)
      BY Zenon, <1>2, MarkerShape
    <2>2. Down
      BY Zenon, <1>1, <1>2 DEF ScanMarker, Running, InStep
    <2>3. life' = life /\ (tracker = NoTracker => tracker' = NoTracker)
      BY Zenon, <2>1 DEF MarkerStep
    <2>4. Save
      BY Zenon, <1>1, <2>1 DEF MarkerStep, Closes, Passes, InStep
    <2> QED
      BY Zenon, <1>1, <2>2, <2>3, <2>4 DEF InStep
  <1>3. ASSUME NEW chunk \in Chunk, ScanStart(chunk) PROVE InStep'
    <2>1. \/ UNCHANGED scan
          \/ scan' = [NotScanning EXCEPT !.pc = "next", !.segs = chunk.segs,
                                         !.tail = chunk.tail, !.counter = counter]
      BY Zenon, <1>3 DEF ScanStart
    <2>2. Save
      BY Zenon, <1>1, <2>1 DEF InStep, NotScanning
    <2> QED
      BY Zenon, <1>1, <1>3, <2>2 DEF ScanStart, InStep
  <1>4. CASE ScanOther
    <2>1. scan'.pc = scan.pc /\ scan'.save = scan.save
      BY Zenon, <1>1, <1>4 DEF ScanOther, Scanning
    <2> QED
      BY Zenon, <1>1, <1>4, <2>1 DEF ScanOther, Running, InStep
  <1>5. CASE ScanSave
    <2>1. scan'.save = NoFile
      BY Zenon, <1>1, <1>5 DEF ScanSave, Scanning
    <2> QED
      BY Zenon, <1>1, <1>5, <2>1 DEF ScanSave, Running, InStep
  <1>6. CASE ScanTail
    <2>1. scan'.save = NoFile
      BY Zenon, <1>6 DEF ScanTail, NotScanning
    <2> QED
      BY Zenon, <1>1, <1>6, <2>1 DEF ScanTail, Running, InStep
  <1>7. CASE Create \/ Register \/ AddCounter \/ OpenWriter \/ Exit
    <2>1. daemon' # "down" /\ UNCHANGED scan /\ life' # "uncount"
      BY Zenon, <1>7 DEF Create, Register, AddCounter, OpenWriter, Exit, Running
    <2> QED
      BY Zenon, <1>1, <2>1 DEF InStep
  <1>8. CASE OnExit
    <2>1. daemon' # "down" /\ UNCHANGED scan /\ (life' = "uncount" => tracker' = NoTracker)
      BY Zenon, <1>8 DEF OnExit, Unregister, DeleteCounter, CloseWriter, CloseDone, Running
    <2> QED
      BY Zenon, <1>1, <2>1 DEF InStep
  <1>9. CASE WriterRun
    <2>1. UNCHANGED <<daemon, life, tracker, scan>>
      BY Zenon, <1>9, WriterShape DEF WriterMoves
    <2>2. daemon # "down"
      BY Zenon, <1>9 DEF WriterRun, RunNotify, RunTimer, RunClose, FlushWrite, FlushRename,
                  FlushFails, WriterStep, Running
    <2> QED
      BY Zenon, <1>1, <2>1, <2>2 DEF InStep
  <1>10. CASE Stop
    BY Zenon, <1>1, <1>10 DEF Stop, InStep
  <1>11. CASE Halt \/ Crash
    BY <1>11 DEF Halt, Crash, Vanish, InStep, NotScanning
  <1>12. CASE Start
    <2>1. daemon' # "down" /\ UNCHANGED <<scan, life>> /\ life = "none"
      BY Zenon, <1>1, <1>12 DEF Start, InStep
    <2> QED
      BY Zenon, <1>1, <2>1 DEF InStep
  <1> QED
    BY Zenon, <1>2, <1>3, <1>4, <1>5, <1>6, <1>7, <1>8, <1>9, <1>10, <1>11, <1>12 DEF Next, Scan

(* A Writer is gone before the next session of the ID begins.              *)
LEMMA FreshStep ==
    ASSUME CmdInv, Next
    PROVE  Fresh'
  <1> DEFINE Unlisted == ~writer.listed /\ life # "closing" => writer = NoWriter
             Empty == life \in {"none", "register"} /\ tracker = NoTracker /\ writer.listed =>
                          writer.pending = NoFile /\ writer.data = NoFile /\ scan.pc # "save"
  <1>1. CmdTypeOK /\ InStep /\ Fresh /\ writer \in Writing /\ scan \in Scanning
    BY Zenon DEF CmdInv, CmdTypeOK
  <1>2. daemon = "up" => Unlisted /\ Empty
    BY Zenon, <1>1 DEF Fresh
  <1>3. SUFFICES ASSUME daemon' = "up" PROVE Unlisted' /\ Empty'
    BY Zenon DEF Fresh
  <1>4. NoWriter.pc = "none" /\ NoWriter.listed = FALSE /\ NewWriter.listed = TRUE
        /\ NewWriter.pending = NoFile /\ NewWriter.data = NoFile
    BY Zenon DEF NoWriter, NewWriter
  <1>5. CASE ScanMarker
    <2>1. PICK c \in Counter : MarkerStep(c)
      BY Zenon, <1>5, MarkerShape
    <2>2. UNCHANGED <<daemon, life, writer>>
      BY Zenon, <2>1 DEF MarkerStep
    <2>3. tracker' = NoTracker => tracker = NoTracker /\ scan'.pc = "next"
      BY Zenon, <2>1 DEF MarkerStep
    <2> QED
      BY Zenon, <1>2, <1>3, <2>2, <2>3
  <1>6. ASSUME NEW chunk \in Chunk, ScanStart(chunk) PROVE Unlisted' /\ Empty'
    <2>1. UNCHANGED <<daemon, life, writer, tracker>> /\ (scan' = scan \/ scan'.pc = "next")
      BY Zenon, <1>6 DEF ScanStart, NotScanning
    <2> QED
      BY Zenon, <1>2, <1>3, <2>1
  <1>7. CASE ScanOther \/ ScanTail
    <2>1. UNCHANGED <<daemon, life, writer, tracker>> /\ scan'.pc # "save"
      <3>1. CASE ScanOther
        BY Zenon, <1>1, <3>1 DEF ScanOther, Scanning
      <3>2. CASE ScanTail
        BY Zenon, <3>2 DEF ScanTail, NotScanning
      <3> QED
        BY Zenon, <1>7, <3>1, <3>2
    <2> QED
      BY Zenon, <1>2, <1>3, <2>1
  <1>8. CASE ScanSave
    <2>1. UNCHANGED <<daemon, life, tracker>> /\ scan'.pc = "next" /\ scan.pc = "save"
      BY Zenon, <1>1, <1>8 DEF ScanSave, Scanning
    <2>2. \/ UNCHANGED writer
          \/ writer.listed /\ writer' = [writer EXCEPT !.pending = scan.save, !.notify = TRUE]
      BY Zenon, <1>8 DEF ScanSave, Update
    <2>3. writer'.listed = writer.listed /\ (~writer.listed => UNCHANGED writer)
      BY Zenon, <1>1, <2>2 DEF Writing
    <2> QED
      BY Zenon, <1>2, <1>3, <2>1, <2>3
  <1>9. CASE Create \/ Register \/ AddCounter \/ Exit
    <2>1. UNCHANGED <<daemon, writer, scan>> /\ life # "closing"
      BY Zenon, <1>9 DEF Create, Register, AddCounter, Exit
    <2>2. \/ life' \notin {"none", "register"}
          \/ life = "none" /\ UNCHANGED tracker
      BY Zenon, <1>9 DEF Create, Register, AddCounter, Exit
    <2> QED
      BY Zenon, <1>2, <1>3, <2>1, <2>2
  <1>10. CASE OpenWriter
    <2>1. UNCHANGED daemon /\ life' = "running" /\ writer'.listed
      BY Zenon, <1>4, <1>10 DEF OpenWriter
    <2> QED
      BY Zenon, <2>1
  <1>11. CASE Unregister \/ DeleteCounter
    <2>1. UNCHANGED <<daemon, writer>> /\ life' \in {"uncount", "close"} /\ life # "closing"
      BY Zenon, <1>11 DEF Unregister, DeleteCounter
    <2> QED
      BY Zenon, <1>2, <1>3, <2>1
  <1>12. CASE CloseWriter
    <2>1. UNCHANGED daemon /\ life = "close"
      BY Zenon, <1>12 DEF CloseWriter
    <2>2. \/ life' = "closing"
          \/ ~writer.listed /\ life' = "none" /\ UNCHANGED writer
      BY Zenon, <1>12 DEF CloseWriter
    <2> QED
      BY Zenon, <1>2, <1>3, <1>4, <2>1, <2>2
  <1>13. CASE CloseDone
    <2>1. writer' = NoWriter
      BY Zenon, <1>13 DEF CloseDone
    <2> QED
      BY Zenon, <1>4, <2>1
  <1>14. CASE WriterRun
    <2>1. /\ UNCHANGED <<daemon, life, tracker, scan>> /\ writer'.listed = writer.listed
          /\ writer'.pending = writer.pending
          /\ writer'.data \in {writer.data, writer.pending, NoFile}
          /\ writer.pc # "none"
      BY Zenon, <1>14, WriterShape DEF WriterMoves
    <2>2. ~Unlisted' => FALSE
      BY Zenon, <1>2, <1>3, <1>4, <2>1
    <2>3. Empty'
      BY Zenon, <1>2, <1>3, <2>1
    <2> QED
      BY Zenon, <2>2, <2>3
  <1>15. CASE Stop \/ Halt \/ Crash
    BY Zenon, <1>3, <1>15 DEF Stop, Halt, Crash, Vanish
  <1>16. CASE Start
    <2>1. writer = NoWriter /\ scan = NotScanning /\ UNCHANGED scan
      BY Zenon, <1>1, <1>16 DEF Start, InStep
    <2>2. writer' = writer \/ writer' = NewWriter
      BY Zenon, <1>16 DEF Start
    <2>3. scan'.pc = "idle"
      BY Zenon, <2>1 DEF NotScanning
    <2> QED
      BY Zenon, <1>4, <2>1, <2>2, <2>3
  <1> QED
    BY Zenon, <1>5, <1>6, <1>7, <1>8, <1>9, <1>10, <1>11, <1>12, <1>13, <1>14, <1>15, <1>16
       DEF Next, Scan, OnExit

(* Lines only go forward under the running command, and a counter that is  *)
(* replaced under it or under a scan is marked.                            *)
LEMMA CountersStep ==
    ASSUME CmdInv, Next
    PROVE  Counted' /\ BelowCounters'
  <1>1. CmdTypeOK /\ InStep /\ Counted /\ BelowCounters
    BY Zenon DEF CmdInv
  <1>2. /\ counter \in Counter /\ scan \in Scanning /\ scan.counter \in Counter /\ objects \in Nat
        /\ tracker \in Tracker \cup {NoTracker}
    BY Zenon, <1>1 DEF CmdTypeOK, Scanning
  <1>3. /\ counter.n \in Nat /\ counter.object \in Nat
        /\ scan.counter.n \in Nat /\ scan.counter.object \in Nat
    BY Zenon, <1>2 DEF Counter
  <1>4. ASSUME UNCHANGED <<tracker, counter, objects, swapped>>, scan'.counter = scan.counter,
               scan'.pc = "idle" \/ scan.pc # "idle"
        PROVE  Counted' /\ BelowCounters'
    BY Zenon, <1>1, <1>4 DEF Counted, BelowCounters
  <1>5. ASSUME NEW chunk \in Chunk, ScanStart(chunk) PROVE Counted' /\ BelowCounters'
    <2>1. UNCHANGED <<tracker, counter, objects, swapped>>
      BY Zenon, <1>5 DEF ScanStart, ghostVars
    <2>2. scan' = scan \/ scan'.counter = counter
      BY Zenon, <1>5 DEF ScanStart, NotScanning
    <2>3. CASE scan'.counter = counter
      BY Zenon, <1>1, <2>1, <2>3 DEF Counted, BelowCounters
    <2>4. CASE scan' = scan
      BY Zenon, <1>1, <2>1, <2>4 DEF Counted, BelowCounters
    <2> QED
      BY Zenon, <2>2, <2>3, <2>4
  <1>6. CASE ScanMarker
    <2>1. PICK c \in Counter : MarkerStep(c)
      BY Zenon, <1>6, MarkerShape
    <2>2. /\ c.n \in Nat /\ c.object = scan.counter.object /\ scan.counter.n <= c.n
          /\ c.object = 0 => c.n = 0
          /\ scan'.counter = c /\ scan.pc = "next" /\ UNCHANGED <<objects, swapped>>
          /\ counter' = IF counter.object = c.object THEN c ELSE counter
      BY Zenon, <2>1 DEF MarkerStep, Shared, Counter
    <2>3. Counted'
      BY Zenon, <1>1, <1>3, <2>2 DEF Counted
    <2>4. ASSUME tracker' # NoTracker, ~swapped'
          PROVE  /\ c.object # 0 => c.object = counter'.object
                 /\ tracker'.current # NoCommand =>
                       tracker'.current.start <= counter'.n /\ tracker'.current.start <= c.n
      <3>1. /\ tracker # NoTracker /\ ~swapped
            /\ tracker'.current = NoCommand \/ tracker'.current = openCommand(next, c.n)
        BY Zenon, <2>1, <2>4 DEF MarkerStep
      <3>2. c.object # 0 => c.object = counter.object
        BY Zenon, <1>1, <2>2, <3>1 DEF BelowCounters
      <3>3. counter'.n >= c.n /\ (c.object # 0 => c.object = counter'.object)
        BY <1>3, <2>2, <3>2
      <3>4. tracker'.current # NoCommand => tracker'.current.start = c.n
        <4>1. openCommand(next, c.n).start = c.n
          BY Zenon DEF openCommand
        <4> QED
          BY <3>1, <4>1, Zenon
      <3> QED
        BY <2>2, <3>3, <3>4
    <2> QED
      BY Zenon, <2>2, <2>3, <2>4 DEF BelowCounters
  <1>7. CASE ScanOther
    <2>1. /\ UNCHANGED <<tracker, counter, objects, swapped>> /\ scan'.counter = scan.counter
          /\ scan.pc # "idle"
      BY Zenon, <1>2, <1>7 DEF ScanOther, ghostVars, boundVars, Scanning
    <2> QED
      BY Zenon, <1>4, <2>1
  <1>8. CASE ScanSave
    <2>1. /\ UNCHANGED <<tracker, counter, objects, swapped>> /\ scan'.counter = scan.counter
          /\ scan.pc # "idle"
      BY Zenon, <1>2, <1>8 DEF ScanSave, boundVars, Scanning
    <2> QED
      BY Zenon, <1>4, <2>1
  <1>9. CASE ScanTail
    <2> DEFINE c == Advance(scan.counter, scan.tail)
    <2>1. /\ c \in Counter /\ c.object = scan.counter.object /\ scan.counter.n <= c.n
          /\ c.object = 0 => c.n = 0
      BY Zenon, <1>1, <1>2, AdvanceShape DEF Counted, Scanning
    <2>2. Shared(c) /\ scan' = NotScanning /\ UNCHANGED <<tracker, objects, swapped>>
          /\ scan.pc = "next"
      BY Zenon, <1>9 DEF ScanTail, ghostVars, boundVars
    <2> HIDE DEF c
    <2>3. c.n \in Nat /\ scan'.counter.object = 0 /\ scan'.counter.n = 0 /\ scan'.pc = "idle"
      BY Zenon, <2>1, <2>2 DEF Counter, NotScanning, NoCounter
    <2>4. counter' = IF counter.object = c.object THEN c ELSE counter
      BY Zenon, <2>2 DEF Shared
    <2>5. Counted'
      <3>1. /\ counter'.object = counter.object /\ counter'.n \in Nat
            /\ counter.object = 0 => counter'.n = 0
        BY Zenon, <1>1, <1>3, <2>1, <2>3, <2>4 DEF Counted
      <3>2. counter.object <= objects /\ UNCHANGED objects
        BY Zenon, <1>1, <2>2 DEF Counted
      <3> QED
        BY SMTT(30), <1>2, <1>3, <2>3, <3>1, <3>2 DEF Counted
    <2>6. ASSUME tracker # NoTracker, ~swapped, tracker.current # NoCommand
          PROVE  tracker.current.start <= counter'.n
      <3>1. tracker.current.start <= counter.n /\ tracker.current.start <= scan.counter.n
        BY Zenon, <1>1, <2>2, <2>6 DEF BelowCounters
      <3>2. tracker.current \in Command
        BY Zenon, <1>2, <2>6 DEF Tracker
      <3> QED
        BY <1>3, <2>1, <2>3, <2>4, <3>1, <3>2, CommandFields
    <2> QED
      BY Zenon, <2>2, <2>3, <2>5, <2>6 DEF BelowCounters
  <1>10. CASE Create \/ OpenWriter \/ Exit \/ CloseWriter \/ CloseDone \/ Stop
    <2>1. UNCHANGED <<tracker, counter, scan, objects, swapped>>
      BY Zenon, <1>10 DEF Create, OpenWriter, Exit, CloseWriter, CloseDone, Stop, ghostVars,
         boundVars
    <2> QED
      BY Zenon, <1>1, <2>1 DEF Counted, BelowCounters
  <1>11. CASE WriterRun
    <2>1. UNCHANGED <<tracker, counter, scan, objects, swapped>>
      BY Zenon, <1>11, WriterShape DEF WriterMoves, ghostVars, boundVars
    <2> QED
      BY Zenon, <1>1, <2>1 DEF Counted, BelowCounters
  <1>12. CASE Register
    <2>1. UNCHANGED <<counter, scan, objects>>
      BY Zenon, <1>12 DEF Register, boundVars
    <2>2. \/ UNCHANGED <<tracker, swapped>>
          \/ tracker' = newTracker /\ (~swapped' => scan.counter.object = 0)
      BY <1>12, Zenon DEF Register, ghostVars
    <2>3. newTracker.current = NoCommand
      BY Zenon DEF newTracker
    <2> QED
      BY Zenon, <1>1, <2>1, <2>2, <2>3 DEF Counted, BelowCounters
  <1>13. CASE AddCounter
    <2>1. counter' = NewCounter /\ objects' = objects + 1 /\ UNCHANGED <<scan, tracker>>
      BY Zenon, <1>13 DEF AddCounter
    <2>2. ~swapped' => /\ scan.counter.object = 0
                       /\ tracker.current = NoCommand \/ ~(tracker.current.start > 0)
      BY <1>13, Zenon DEF AddCounter
    <2>3. counter'.object = objects + 1 /\ counter'.n = 0
      BY Zenon, <2>1 DEF NewCounter
    <2>4. Counted'
      BY <1>1, <1>2, <1>3, <2>1, <2>3 DEF Counted
    <2>5. ASSUME tracker # NoTracker, tracker.current # NoCommand, ~(tracker.current.start > 0)
          PROVE  tracker.current.start = 0
      BY <1>2, <2>5, CommandFields DEF Tracker
    <2>6. scan.counter.object = 0 => scan.counter.n = 0
      BY Zenon, <1>1 DEF Counted
    <2> QED
      BY <2>1, <2>2, <2>3, <2>4, <2>5, <2>6 DEF BelowCounters
  <1>14. CASE Unregister
    <2>1. tracker' = NoTracker /\ UNCHANGED <<counter, scan, objects>>
      BY Zenon, <1>14 DEF Unregister, boundVars
    <2> QED
      BY Zenon, <1>1, <2>1 DEF Counted, BelowCounters
  <1>15. CASE DeleteCounter
    <2>1. /\ tracker' = NoTracker /\ UNCHANGED <<scan, objects>>
          /\ counter'.object = 0 /\ counter'.n = 0
      BY Zenon, <1>1, <1>15 DEF DeleteCounter, boundVars, InStep, NoCounter
    <2> QED
      BY <1>1, <1>2, <2>1 DEF Counted, BelowCounters
  <1>16. CASE Halt \/ Crash
    <2>1. /\ tracker' = NoTracker /\ UNCHANGED objects
          /\ counter'.object = 0 /\ counter'.n = 0
          /\ scan'.counter.object = 0 /\ scan'.counter.n = 0
      BY <1>16 DEF Halt, Crash, Vanish, boundVars, NoCounter, NotScanning
    <2> QED
      BY <1>2, <2>1 DEF Counted, BelowCounters
  <1>17. CASE Start
    <2>1. tracker = NoTracker /\ scan = NotScanning /\ UNCHANGED <<scan, swapped>>
      BY Zenon, <1>1, <1>17 DEF Start, InStep
    <2>2. scan'.counter.object = 0 /\ scan'.counter.n = 0 /\ scan'.pc = "idle"
      BY Zenon, <2>1 DEF NotScanning, NoCounter
    <2>3. \/ UNCHANGED <<counter, objects>>
          \/ counter'.object = objects + 1 /\ counter'.n = 0 /\ objects' = objects + 1
      BY <1>17 DEF Start, NewCounter
    <2>4. Counted'
      BY <1>1, <1>2, <1>3, <2>2, <2>3 DEF Counted
    <2>5. tracker' = NoTracker \/ (file # NoFile /\ tracker' = restore(file))
      BY Zenon, <1>17, <2>1 DEF Start, Load
    <2>6. file # NoFile => restore(file).current = NoCommand
      BY Zenon, <1>1, RestoreShape DEF CmdTypeOK
    <2> QED
      BY Zenon, <2>2, <2>4, <2>5, <2>6 DEF BelowCounters
  <1> QED
    BY Zenon, <1>5, <1>6, <1>7, <1>8, <1>9, <1>10, <1>11, <1>12, <1>13, <1>14, <1>15, <1>16, <1>17
       DEF Next, Scan, OnExit

(* The command that a marker closes: its number and first row stay, its    *)
(* last row is the counter's.                                              *)
ClosedAs(c, x) ==
    /\ x \in Command /\ tracker.current \in Command
    /\ x.n = tracker.current.n /\ x.start = tracker.current.start /\ x.end = c.n
    /\ tracker'.history = appendHistory(tracker.history, x)
    /\ closedLog' = Append(closedLog, x)
    /\ scan'.save.history = tracker'.history
    /\ scan'.save.inFlight = tracker'.current

(* A marker that closes a command closes one like that.                    *)
LEMMA ClosedShape ==
    ASSUME NEW c \in Counter, Closes(c)
    PROVE  \E x \in Command : ClosedAs(c, x)
  <1>1. PICK r \in {"", "missing_d_marker"} :
           /\ Ended(tracker.current, c.n, r) \in Command
           /\ tracker'.history = appendHistory(tracker.history, Ended(tracker.current, c.n, r))
           /\ closedLog' = Append(closedLog, Ended(tracker.current, c.n, r))
    BY Zenon DEF Closes
  <1> DEFINE x == Ended(tracker.current, c.n, r)
  <1>2. tracker.current \in Command
    BY Zenon DEF Closes
  <1>3. x.n = tracker.current.n /\ x.start = tracker.current.start /\ x.end = c.n
    BY Zenon, <1>2 DEF Ended, Command
  <1>4. scan'.save = snapshot(tracker')
    BY Zenon DEF Closes
  <1>5. scan'.save.history = tracker'.history /\ scan'.save.inFlight = tracker'.current
    <2>1. \A t : snapshot(t).history = t.history /\ snapshot(t).inFlight = t.current
      BY Zenon DEF snapshot
    <2> QED
      BY <1>4, <2>1, Zenon
  <1>6. /\ x \in Command /\ tracker'.history = appendHistory(tracker.history, x)
        /\ closedLog' = Append(closedLog, x)
    BY Zenon, <1>1
  <1> HIDE DEF x
  <1>7. ClosedAs(c, x)
    BY Zenon, <1>2, <1>3, <1>5, <1>6 DEF ClosedAs
  <1> QED
    BY Zenon, <1>6, <1>7

(* Rows go forward in every copy, and in the log.                          *)
LEMMA ForwardStep ==
    ASSUME CmdInv, Next
    PROVE  AllForward' /\ RowsAdvance'
  <1>1. CmdTypeOK /\ AllForward /\ RowsAdvance /\ BelowCounters
    BY Zenon DEF CmdInv
  <1>2. RowsAdvance <=> (tracker # NoTracker /\ ~swapped => Forward(closedLog))
    BY Zenon DEF RowsAdvance, Forward
  <1>3. RowsAdvance' <=> (tracker' # NoTracker /\ ~swapped' => Forward(closedLog'))
    BY Zenon DEF RowsAdvance, Forward
  <1>4. SUFFICES ASSUME ~swapped'
                 PROVE  /\ \A s \in Copies' : s # NoFile => Forward(s.history)
                        /\ tracker' # NoTracker => Forward(tracker'.history) /\ Forward(closedLog')
    BY Zenon, <1>3 DEF AllForward
  <1>5. CASE ScanMarker
    <2>1. PICK c \in Counter : MarkerStep(c)
      BY Zenon, <1>5, MarkerShape
    <2>2. ~swapped /\ UNCHANGED <<file, writer>>
      BY Zenon, <1>4, <2>1 DEF MarkerStep, diskVars
    <2>3. \A s \in Copies : s # NoFile => Forward(s.history)
      BY Zenon, <1>1, <2>2 DEF AllForward
    <2>4. CASE tracker = NoTracker
      <3>1. tracker' = NoTracker /\ scan'.save = scan.save
        BY Zenon, <2>1, <2>4 DEF MarkerStep
      <3> QED
        BY Zenon, <2>2, <2>3, <3>1 DEF Copies
    <2>5. CASE tracker # NoTracker
      <3>1. Forward(tracker.history) /\ Forward(closedLog)
        BY Zenon, <1>1, <1>2, <2>2, <2>5 DEF AllForward
      <3>2. CASE Passes
        <4>1. tracker'.history = tracker.history /\ closedLog' = closedLog /\ scan'.save = scan.save
          BY Zenon, <3>2 DEF Passes
        <4> QED
          BY Zenon, <2>2, <2>3, <3>1, <4>1 DEF Copies
      <3>3. CASE Closes(c)
        <4>1. PICK x \in Command : ClosedAs(c, x)
          BY Zenon, <3>3, ClosedShape
        <4>2. /\ tracker.current # NoCommand /\ tracker.current.start \in Nat
              /\ c.n \in Nat /\ scan.counter.n \in Nat /\ scan.pc # "idle"
          BY Zenon, <1>1, <2>1, <4>1, CommandFields
             DEF ClosedAs, MarkerStep, CmdTypeOK, Scanning, Counter
        <4>3. tracker.current.start <= scan.counter.n /\ scan.counter.n <= c.n
          BY Zenon, <1>1, <2>1, <2>2, <2>5, <4>2 DEF BelowCounters, MarkerStep
        <4>4. x.end >= x.start
          <5>1. x.end = c.n /\ x.start = tracker.current.start
            BY Zenon, <4>1 DEF ClosedAs
          <5>2. tracker.current.start <= c.n
            BY <4>2, <4>3
          <5> QED
            BY Zenon, <4>2, <5>1, <5>2
        <4>5. /\ tracker.history \in Seq(Command) /\ Len(tracker.history) <= MaxHistory
              /\ closedLog \in Seq(Command)
          BY Zenon, <1>1, <2>5 DEF CmdTypeOK, Tracker
        <4>6. /\ tracker'.history = appendHistory(tracker.history, x)
              /\ closedLog' = Append(closedLog, x) /\ scan'.save.history = tracker'.history
          BY Zenon, <4>1 DEF ClosedAs
        <4>7. Forward(tracker'.history)
          <5>1. \A h, e : /\ h \in Seq(Command) /\ Len(h) <= MaxHistory /\ e \in Command
                          /\ Forward(h) /\ e.end >= e.start
                          => Forward(appendHistory(h, e))
            BY Zenon, ForwardAppend
          <5> QED
            BY Zenon, <3>1, <4>4, <4>5, <4>6, <5>1
        <4>8. Forward(closedLog')
          <5>1. /\ Len(closedLog') = Len(closedLog) + 1 /\ closedLog'[Len(closedLog) + 1] = x
                /\ \A i \in 1..Len(closedLog) : closedLog'[i] = closedLog[i]
                /\ Len(closedLog) \in Nat
            <6>1. \A h, e : h \in Seq(Command) /\ e \in Command =>
                     /\ Len(Append(h, e)) = Len(h) + 1 /\ Append(h, e)[Len(h) + 1] = e
                     /\ \A i \in 1..Len(h) : Append(h, e)[i] = h[i]
                     /\ Len(h) \in Nat
              BY AppendProperties
            <6> QED
              BY SMTT(30), <4>5, <4>6, <6>1
          <5>2. \A i \in 1..Len(closedLog') : i \in 1..Len(closedLog) \/ i = Len(closedLog) + 1
            BY <5>1
          <5> QED
            BY Zenon, <3>1, <4>4, <5>1, <5>2 DEF Forward
        <4> QED
          BY Zenon, <2>2, <2>3, <4>6, <4>7, <4>8 DEF Copies
      <3> QED
        BY Zenon, <2>1, <2>5, <3>2, <3>3 DEF MarkerStep
    <2> QED
      BY Zenon, <2>4, <2>5
  <1>6. CASE ~ScanMarker
    <2>1. ~swapped /\ Copies' \subseteq Copies \cup {NoFile}
      BY Zenon, <1>4, <1>6, TrackerSteps, CopiesStep
    <2>2. \A s \in Copies' : s # NoFile => Forward(s.history)
      BY Zenon, <1>1, <2>1 DEF AllForward
    <2>3. CASE tracker' = NoTracker
      BY Zenon, <2>2, <2>3
    <2>4. CASE UNCHANGED <<tracker, closedLog, foreign>>
      BY Zenon, <1>1, <1>2, <2>1, <2>2, <2>4 DEF AllForward
    <2>5. CASE Starts
      <3>1. CASE tracker' = newTracker /\ closedLog' = <<>>
        <4>1. tracker'.history = <<>> /\ Forward(<<>>)
          BY <3>1, BlankTypes DEF Forward
        <4> QED
          BY Zenon, <2>2, <3>1, <4>1
      <3>2. CASE /\ file \in Kept /\ file # NoFile /\ tracker' = restore(file)
                 /\ closedLog' = restore(file).history
        <4>1. Forward(file.history)
          BY Zenon, <1>1, <2>1, <3>2 DEF AllForward, Copies
        <4>2. Forward(restore(file).history)
          <5>1. CASE restore(file).history = file.history
            BY Zenon, <4>1, <5>1
          <5>2. CASE restore(file).history # file.history
            <6> DEFINE x == Ended(file.inFlight, file.inFlight.start, "daemon_restart")
            <6>1. x \in Command /\ restore(file).history = appendHistory(file.history, x)
              BY Zenon, <3>2, <5>2, RestoreShape
            <6>2. file.inFlight \in Command
              BY Zenon, <3>2, <5>2, RestoreShape
            <6>3. x.orphan = "daemon_restart"
              BY Zenon, <6>2 DEF Ended, Command
            <6>4. file.history \in Seq(Command) /\ Len(file.history) <= MaxHistory
              BY Zenon, <3>2 DEF Kept, Snapshot
            <6> HIDE DEF x
            <6> QED
              BY Zenon, <4>1, <6>1, <6>3, <6>4, ForwardAppend
          <5> QED
            BY Zenon, <5>1, <5>2
        <4> QED
          BY Zenon, <2>2, <3>2, <4>2
      <3> QED
        BY Zenon, <2>5, <3>1, <3>2 DEF Starts
    <2> QED
      BY Zenon, <1>6, <2>3, <2>4, <2>5, TrackerSteps
  <1> QED
    BY Zenon, <1>5, <1>6

(* A copy has a history and perhaps a command in flight.                   *)
LEMMA CopiesType ==
    ASSUME CmdTypeOK
    PROVE  \A s \in Copies : s # NoFile => /\ s.history \in Seq(Command)
                                           /\ s.inFlight \in Command \cup {NoCommand}
  <1>1. Copies \subseteq Kept \cup {NoFile}
    BY Zenon DEF Copies, CmdTypeOK, Scanning, Writing
  <1>2. \A s \in Kept : s.history \in Seq(Command) /\ s.inFlight \in Command \cup {NoCommand}
    BY Zenon DEF Kept, Snapshot
  <1> QED
    BY Zenon, <1>1, <1>2

(* Commands are numbered in order everywhere.                              *)
LEMMA RisingStep ==
    ASSUME CmdInv, Next
    PROVE  AllRising'
  <1>1. CmdTypeOK /\ AllRising /\ next \in Nat
    BY Zenon DEF CmdInv, CmdTypeOK
  <1>2. ASSUME NEW h \in Seq(Command), NEW c \in Command \cup {NoCommand}, NEW m \in Nat, m >= next,
               Rising(h, c, next)
        PROVE  Rising(h, c, m)
    <2>1. \A i \in 1..Len(h) : h[i].n \in Nat
      BY CommandFields
    <2>2. c # NoCommand => c.n \in Nat
      BY Zenon, CommandFields
    <2> QED
      BY <1>1, <1>2, <2>1, <2>2 DEF Rising
  <1>3. CASE ScanMarker
    <2>1. PICK c \in Counter : MarkerStep(c)
      BY Zenon, <1>3, MarkerShape
    <2>2. next' \in Nat /\ next' >= next /\ UNCHANGED <<file, writer>>
      BY Zenon, <1>1, <2>1 DEF MarkerStep, diskVars
    <2>3. \A s \in Copies : s # NoFile => Rising(s.history, s.inFlight, next')
      <3>1. \A s \in Copies : s # NoFile => /\ s.history \in Seq(Command)
                                            /\ s.inFlight \in Command \cup {NoCommand}
        BY Zenon, <1>1, CopiesType
      <3> QED
        BY Zenon, <1>1, <1>2, <2>2, <3>1 DEF AllRising
    <2>4. CASE tracker = NoTracker
      <3>1. tracker' = NoTracker /\ scan'.save = scan.save
        BY Zenon, <2>1, <2>4 DEF MarkerStep
      <3> QED
        BY Zenon, <2>2, <2>3, <3>1 DEF AllRising, Copies
    <2>5. CASE tracker # NoTracker
      <3>1. /\ Rising(tracker.history, tracker.current, next)
            /\ tracker.history \in Seq(Command) /\ Len(tracker.history) <= MaxHistory
            /\ tracker.current \in Command \cup {NoCommand}
        BY Zenon, <1>1, <2>5 DEF AllRising, CmdTypeOK, Tracker
      <3>2. tracker'.history \in Seq(Command)
        BY Zenon, <2>1, <2>5 DEF MarkerStep, Tracker
      <3>3. Rising(tracker'.history, NoCommand, next)
        <4>1. CASE Passes
          BY Zenon, <3>1, <4>1 DEF Passes, Rising
        <4>2. CASE Closes(c)
          <5>1. PICK x \in Command : ClosedAs(c, x)
            BY Zenon, <4>2, ClosedShape
          <5>2. \A h, b, e : /\ h \in Seq(Command) /\ Len(h) <= MaxHistory /\ e \in Command
                             /\ b \in Command /\ Rising(h, b, next) /\ e.n = b.n
                             => Rising(appendHistory(h, e), NoCommand, next)
            BY Zenon, <1>1, RisingAppend
          <5> QED
            BY Zenon, <3>1, <5>1, <5>2 DEF ClosedAs
        <4> QED
          BY Zenon, <2>1, <2>5, <4>1, <4>2 DEF MarkerStep
      <3>4. Rising(tracker'.history, tracker'.current, next')
        <4>1. CASE tracker'.current = NoCommand
          BY Zenon, <1>2, <2>2, <3>2, <3>3, <4>1
        <4>2. CASE tracker'.current = openCommand(next, c.n) /\ next' = next + 1
          <5>1. tracker'.current.n = next
            <6>1. openCommand(next, c.n).n = next
              BY Zenon DEF openCommand
            <6> QED
              BY <4>2, <6>1, Zenon
          <5>2. Rising(tracker'.history, NoCommand, next')
            BY Zenon, <1>2, <2>2, <3>2, <3>3
          <5> QED
            <6>1. \A i \in 1..Len(tracker'.history) : tracker'.history[i].n < next
              BY Zenon, <3>3 DEF Rising
            <6>2. next < next'
              BY <1>1, <4>2
            <6> QED
              BY Zenon, <5>1, <5>2, <6>1, <6>2 DEF Rising
        <4> QED
          BY Zenon, <2>1, <2>5, <4>1, <4>2 DEF MarkerStep
      <3>5. \/ scan'.save = scan.save
            \/ scan'.save.history = tracker'.history /\ scan'.save.inFlight = tracker'.current
        <4>1. CASE Passes
          BY Zenon, <4>1 DEF Passes
        <4>2. CASE Closes(c)
          <5>1. PICK x \in Command : ClosedAs(c, x)
            BY Zenon, <4>2, ClosedShape
          <5> QED
            BY Zenon, <5>1 DEF ClosedAs
        <4> QED
          BY Zenon, <2>1, <2>5, <4>1, <4>2 DEF MarkerStep
      <3> QED
        BY Zenon, <2>2, <2>3, <3>4, <3>5 DEF AllRising, Copies
    <2> QED
      BY Zenon, <2>4, <2>5
  <1>4. CASE ~ScanMarker
    <2>1. next' = next /\ Copies' \subseteq Copies \cup {NoFile}
      BY Zenon, <1>4, TrackerSteps, CopiesStep
    <2>2. \A s \in Copies' : s # NoFile => Rising(s.history, s.inFlight, next')
      BY Zenon, <1>1, <2>1 DEF AllRising
    <2>3. CASE tracker' = NoTracker
      BY Zenon, <2>2, <2>3 DEF AllRising
    <2>4. CASE UNCHANGED <<tracker, closedLog, foreign>>
      BY Zenon, <1>1, <2>1, <2>2, <2>4 DEF AllRising
    <2>5. CASE Starts
      <3>1. CASE tracker' = newTracker
        <4>1. /\ Rising(<<>>, NoCommand, next)
              /\ newTracker.history = <<>> /\ newTracker.current = NoCommand
          BY DEF Rising, newTracker
        <4> QED
          BY Zenon, <2>1, <2>2, <3>1, <4>1 DEF AllRising
      <3>2. CASE file \in Kept /\ file # NoFile /\ tracker' = restore(file)
        <4>1. /\ Rising(file.history, file.inFlight, next) /\ restore(file).current = NoCommand
              /\ file.history \in Seq(Command) /\ Len(file.history) <= MaxHistory
          BY Zenon, <1>1, <3>2, RestoreShape DEF AllRising, Copies, Kept, Snapshot
        <4>2. Rising(restore(file).history, NoCommand, next)
          <5>1. CASE file.inFlight = NoCommand /\ restore(file).history = file.history
            BY Zenon, <4>1, <5>1
          <5>2. CASE ~(file.inFlight = NoCommand /\ restore(file).history = file.history)
            <6> DEFINE x == Ended(file.inFlight, file.inFlight.start, "daemon_restart")
            <6>1. /\ x \in Command /\ restore(file).history = appendHistory(file.history, x)
                  /\ file.inFlight \in Command
              BY Zenon, <3>2, <5>2, RestoreShape
            <6>2. x.n = file.inFlight.n
              BY Zenon, <6>1 DEF Ended, Command
            <6> HIDE DEF x
            <6>3. \A h, b, e : /\ h \in Seq(Command) /\ Len(h) <= MaxHistory /\ e \in Command
                               /\ b \in Command /\ Rising(h, b, next) /\ e.n = b.n
                               => Rising(appendHistory(h, e), NoCommand, next)
              BY Zenon, <1>1, RisingAppend
            <6> QED
              BY Zenon, <4>1, <6>1, <6>2, <6>3
          <5> QED
            BY Zenon, <5>1, <5>2
        <4> QED
          BY Zenon, <2>1, <2>2, <3>2, <4>1, <4>2 DEF AllRising
      <3> QED
        BY Zenon, <2>5, <3>1, <3>2 DEF Starts
    <2> QED
      BY Zenon, <1>4, <2>3, <2>4, <2>5, TrackerSteps
  <1> QED
    BY Zenon, <1>3, <1>4
(* What is on its way to the disk, and on it, the tracker knows.           *)
LEMMA KnownStep ==
    ASSUME CmdInv, Next
    PROVE  CopiesKnown'
  <1>1. CmdTypeOK /\ AllRising /\ CopiesKnown /\ next \in Nat
    BY Zenon DEF CmdInv, CmdTypeOK
  <1>2. SUFFICES ASSUME tracker' # NoTracker, ~foreign', NEW s \in Copies', s # NoFile
                 PROVE  AllKnown(s, tracker')
    BY Zenon DEF CopiesKnown
  <1> DEFINE K(h, c) == Numbers(h) \cup InFlightNumber(c)
  <1>3. ASSUME NEW h \in Seq(Command), NEW c \in Command \cup {NoCommand}
        PROVE  K(h, c) \subseteq Nat
    BY CommandFields DEF Numbers, InFlightNumber
  <1>4. \A h, b, e, k : /\ h \in Seq(Command) /\ Len(h) <= MaxHistory /\ e \in Command
                        /\ b \in Command /\ Rising(h, b, next) /\ e.n = b.n /\ k \in Nat
                        /\ KnownBy(h, b, k)
                        => \A a : KnownBy(appendHistory(h, e), a, k)
    BY <1>1, KnownAppend
  <1>5. \A q \in Copies : q # NoFile => /\ q.history \in Seq(Command)
                                        /\ q.inFlight \in Command \cup {NoCommand}
    BY Zenon, <1>1, CopiesType
  <1>6. CASE ScanMarker
    <2>1. PICK c \in Counter : MarkerStep(c)
      BY Zenon, <1>6, MarkerShape
    <2>2. /\ tracker # NoTracker /\ ~foreign /\ UNCHANGED <<file, writer>>
          /\ Closes(c) \/ Passes
      BY Zenon, <1>2, <2>1 DEF MarkerStep, diskVars
    <2>3. /\ Rising(tracker.history, tracker.current, next)
          /\ tracker.history \in Seq(Command) /\ Len(tracker.history) <= MaxHistory
      BY Zenon, <1>1, <2>2 DEF AllRising, CmdTypeOK, Tracker
    <2>4. ASSUME NEW q \in Copies, q # NoFile
          PROVE  AllKnown(q, tracker')
      <3>1. AllKnown(q, tracker)
        BY Zenon, <1>1, <2>2, <2>4 DEF CopiesKnown
      <3>2. SUFFICES ASSUME NEW k \in K(q.history, q.inFlight)
                     PROVE  KnownBy(tracker'.history, tracker'.current, k)
        BY Zenon DEF AllKnown
      <3>3. k \in Nat /\ KnownBy(tracker.history, tracker.current, k)
        BY Zenon, <1>3, <1>5, <2>4, <3>1 DEF AllKnown
      <3>4. CASE Passes
        <4>1. tracker'.history = tracker.history /\ tracker.current = NoCommand
          BY Zenon, <3>4 DEF Passes
        <4> QED
          BY Zenon, <3>3, <4>1 DEF KnownBy, InFlightNumber
      <3>5. CASE Closes(c)
        <4>1. PICK x \in Command : ClosedAs(c, x)
          BY Zenon, <3>5, ClosedShape
        <4> QED
          BY Zenon, <1>4, <2>3, <3>3, <4>1 DEF ClosedAs
      <3> QED
        BY Zenon, <2>2, <3>4, <3>5
    <2>5. CASE s \in Copies
      BY Zenon, <1>2, <2>4, <2>5
    <2>6. CASE s \notin Copies
      <3>1. s = scan'.save /\ s # scan.save
        BY Zenon, <2>2, <2>6 DEF Copies
      <3>2. Closes(c)
        BY Zenon, <2>2, <3>1 DEF Passes
      <3>3. PICK x \in Command : ClosedAs(c, x)
        BY Zenon, <3>2, ClosedShape
      <3>4. s.history = tracker'.history /\ s.inFlight = tracker'.current
        BY Zenon, <3>1, <3>3 DEF ClosedAs
      <3> QED
        BY Zenon, <3>4 DEF AllKnown, KnownBy
    <2> QED
      BY Zenon, <2>5, <2>6
  <1>7. CASE ~ScanMarker
    <2>1. Copies' \subseteq Copies \cup {NoFile}
      BY Zenon, <1>7, CopiesStep
    <2>2. CASE UNCHANGED <<tracker, closedLog, foreign>>
      BY Zenon, <1>1, <1>2, <2>1, <2>2 DEF CopiesKnown
    <2>3. CASE Starts
      <3>1. /\ file \in Kept /\ s = file /\ tracker' = restore(file)
        BY Zenon, <1>2, <2>3 DEF Starts
      <3>2. Rising(file.history, file.inFlight, next)
        BY Zenon, <1>1, <1>2, <3>1 DEF AllRising, Copies
      <3>3. file.history \in Seq(Command) /\ Len(file.history) <= MaxHistory
        BY Zenon, <3>1 DEF Kept, Snapshot
      <3>4. SUFFICES ASSUME NEW k \in K(file.history, file.inFlight)
                     PROVE  KnownBy(restore(file).history, restore(file).current, k)
        BY Zenon, <3>1 DEF AllKnown
      <3>5. CASE file.inFlight = NoCommand /\ restore(file).history = file.history
        BY Zenon, <3>5 DEF KnownBy, InFlightNumber
      <3>6. CASE ~(file.inFlight = NoCommand /\ restore(file).history = file.history)
        <4> DEFINE x == Ended(file.inFlight, file.inFlight.start, "daemon_restart")
        <4>1. /\ x \in Command /\ restore(file).history = appendHistory(file.history, x)
              /\ file.inFlight \in Command
          BY Zenon, <3>1, <3>6, RestoreShape
        <4>2. x.n = file.inFlight.n
          BY Zenon, <4>1 DEF Ended, Command
        <4> HIDE DEF x
        <4>3. k \in Nat /\ KnownBy(file.history, file.inFlight, k)
          BY Zenon, <1>3, <3>3, <4>1 DEF KnownBy
        <4> QED
          BY Zenon, <1>4, <3>2, <3>3, <4>1, <4>2, <4>3
      <3> QED
        BY Zenon, <3>5, <3>6
    <2> QED
      BY Zenon, <1>2, <1>7, <2>2, <2>3, TrackerSteps
  <1> QED
    BY Zenon, <1>6, <1>7

(* The history stays the end of the log.                                   *)
LEMMA LatestStep ==
    ASSUME CmdInv, Next
    PROVE  HistoryIsLatest'
  <1>1. CmdTypeOK /\ HistoryIsLatest
    BY Zenon DEF CmdInv
  <1>2. tracker # NoTracker => Latest(tracker.history, closedLog)
    BY Zenon, <1>1 DEF HistoryIsLatest, Latest
  <1>3. SUFFICES ASSUME tracker' # NoTracker
                 PROVE  Latest(tracker'.history, closedLog')
    BY Zenon DEF HistoryIsLatest, Latest
  <1>4. ASSUME NEW h \in Seq(Command), Len(h) <= MaxHistory
        PROVE  Latest(h, h)
    <2>1. \A n, i \in Nat : n <= n /\ n - n + i = i
      OBVIOUS
    <2>2. Len(h) \in Nat
      OBVIOUS
    <2> QED
      BY <1>4, <2>1, <2>2 DEF Latest
  <1>5. CASE ScanMarker
    <2>1. PICK c \in Counter : MarkerStep(c)
      BY Zenon, <1>5, MarkerShape
    <2>2. tracker # NoTracker /\ (Closes(c) \/ Passes)
      BY Zenon, <1>3, <2>1 DEF MarkerStep
    <2>3. CASE Passes
      BY Zenon, <1>2, <2>2, <2>3 DEF Passes
    <2>4. CASE Closes(c)
      <3>1. PICK x \in Command : ClosedAs(c, x)
        BY Zenon, <2>4, ClosedShape
      <3>2. /\ tracker.history \in Seq(Command) /\ Len(tracker.history) <= MaxHistory
            /\ closedLog \in Seq(Command) /\ Latest(tracker.history, closedLog)
        BY Zenon, <1>1, <1>2, <2>2 DEF CmdTypeOK, Tracker
      <3>3. \A h, l, e : /\ h \in Seq(Command) /\ Len(h) <= MaxHistory /\ l \in Seq(Command)
                         /\ e \in Command /\ Latest(h, l)
                         => Latest(appendHistory(h, e), Append(l, e))
        BY Zenon, LatestAppend
      <3> QED
        BY Zenon, <3>1, <3>2, <3>3 DEF ClosedAs
    <2> QED
      BY Zenon, <2>2, <2>3, <2>4
  <1>6. CASE ~ScanMarker
    <2>1. CASE UNCHANGED <<tracker, closedLog, foreign>>
      BY Zenon, <1>2, <1>3, <2>1
    <2>2. CASE Starts
      <3>1. CASE tracker' = newTracker /\ closedLog' = <<>>
        <4>1. newTracker.history = <<>> /\ <<>> \in Seq(Command) /\ Len(<<>>) = 0 /\ 0 <= MaxHistory
          BY HistoryAssumption DEF newTracker
        <4> QED
          BY Zenon, <1>4, <3>1, <4>1
      <3>2. CASE /\ file \in Kept /\ tracker' = restore(file)
                 /\ closedLog' = restore(file).history
        <4>1. restore(file).history \in Seq(Command) /\ Len(restore(file).history) <= MaxHistory
          BY Zenon, <3>2, RestoreShape DEF Tracker
        <4> QED
          BY Zenon, <1>4, <3>2, <4>1
      <3> QED
        BY Zenon, <2>2, <3>1, <3>2 DEF Starts
    <2> QED
      BY Zenon, <1>3, <1>6, <2>1, <2>2, TrackerSteps
  <1> QED
    BY Zenon, <1>5, <1>6

-----------------------------------------------------------------------------
(* The theorems.                                                           *)

(* The invariant holds initially.                                          *)
LEMMA CmdInitHolds ==
    ASSUME Init
    PROVE  CmdInv
  <1>1. /\ tracker = NoTracker /\ daemon = "up" /\ life = "none" /\ scan = NotScanning
        /\ writer = NoWriter /\ file = NoFile /\ counter = NoCounter /\ closedLog = <<>>
        /\ next = 1 /\ objects = 0
    BY Zenon DEF Init
  <1>2. /\ scan \in Scanning /\ writer \in Writing /\ counter \in Counter
    BY Zenon, <1>1, BlankTypes, BlankWriters
  <1>3. CmdTypeOK
    BY <1>1, <1>2 DEF CmdTypeOK, LifeStep
  <1>4. /\ scan.pc = "idle" /\ scan.save = NoFile /\ scan.counter.object = 0 /\ scan.counter.n = 0
        /\ writer.pending = NoFile /\ writer.data = NoFile /\ writer.pc = "none" /\ ~writer.last
        /\ counter.object = 0 /\ counter.n = 0
    BY Zenon, <1>1 DEF NotScanning, NoWriter, NoCounter
  <1>5. InStep /\ FlushInStep /\ Fresh
    BY Zenon, <1>1, <1>4 DEF InStep, FlushInStep, Fresh
  <1>6. TrackerInStep /\ Counted /\ BelowCounters
    BY <1>1, <1>4 DEF TrackerInStep, Counted, BelowCounters
  <1>7. AllForward /\ AllRising /\ CopiesKnown
    BY Zenon, <1>1, <1>4 DEF AllForward, AllRising, CopiesKnown, Copies
  <1>8. HistoryIsLatest /\ RowsAdvance /\ ClosedIsFlushed
    BY Zenon, <1>1, <1>4 DEF HistoryIsLatest, RowsAdvance, ClosedIsFlushed
  <1> QED
    BY Zenon, <1>3, <1>5, <1>6, <1>7, <1>8 DEF CmdInv

(* Every step keeps it.                                                    *)
LEMMA CmdNextHolds ==
    ASSUME CmdInv, [Next]_vars
    PROVE  CmdInv'
  <1>1. CASE Next
    BY Zenon, <1>1, CmdTypeStep, InStepStep, FlushStep, FreshStep, CountersStep, ForwardStep,
       RisingStep, KnownStep, LatestStep DEF CmdInv
  <1>2. CASE UNCHANGED vars
    <2>1. UNCHANGED <<daemon, life, tracker, counter, scan, writer, file, tmp, closedLog,
                      swapped, foreign, next, objects>>
      BY Zenon, <1>2 DEF vars, memVars, ghostVars, diskVars, boundVars
    <2>2. CmdTypeOK' /\ InStep' /\ FlushInStep' /\ Fresh'
      BY <2>1 DEF CmdInv, CmdTypeOK, InStep, FlushInStep, Fresh
    <2>3. TrackerInStep' /\ Counted' /\ BelowCounters'
      BY Zenon, <2>1 DEF CmdInv, TrackerInStep, Counted, BelowCounters
    <2>4. Copies' = Copies
      BY Zenon, <2>1 DEF Copies
    <2>5. AllForward' /\ AllRising' /\ CopiesKnown'
      BY Zenon, <2>1, <2>4 DEF CmdInv, AllForward, AllRising, CopiesKnown
    <2>6. HistoryIsLatest' /\ RowsAdvance' /\ ClosedIsFlushed'
      BY Zenon, <2>1 DEF CmdInv, HistoryIsLatest, RowsAdvance, ClosedIsFlushed
    <2> QED
      BY Zenon, <2>2, <2>3, <2>5, <2>6 DEF CmdInv
  <1> QED
    BY Zenon, <1>1, <1>2

(* CmdInv is an invariant of the command history.                          *)
THEOREM CmdInvariance == Spec => []CmdInv
  BY CmdInitHolds, CmdNextHolds, PTL DEF Spec

(* HistoryIsLatest for every history limit, stream of markers and number   *)
(* of restarts: the history that handle and restore keep is the newest     *)
(* part of the commands closed, in order.                                  *)
THEOREM HistoryIsLatestCorrect == Spec => []HistoryIsLatest
  <1>1. CmdInv => HistoryIsLatest
    BY Zenon DEF CmdInv
  <1> QED
    BY <1>1, CmdInvariance, PTL

(* RowsAdvance for all of them: no command ends above the row it started   *)
(* on, as long as no scan and no command outlives its line counter.        *)
THEOREM RowsAdvanceCorrect == Spec => []RowsAdvance
  <1>1. CmdInv => RowsAdvance
    BY Zenon DEF CmdInv
  <1> QED
    BY <1>1, CmdInvariance, PTL

(* DiskIsKnown for all of them, crashes between any two steps included:    *)
(* commands.json is never torn, and the tracker knows what it lists.       *)
THEOREM DiskIsKnownCorrect == Spec => []DiskIsKnown
  <1>1. CmdInv => DiskIsKnown
    <2>1. SUFFICES ASSUME CmdInv PROVE DiskIsKnown
      BY Zenon
    <2>2. file # Torn
      BY Zenon, <2>1, CommandsAssumption DEF CmdInv, CmdTypeOK, Kept
    <2>3. ASSUME tracker # NoTracker, ~foreign, NEW n \in OnDisk
          PROVE  KnownBy(tracker.history, tracker.current, n)
      <3>1. file # NoFile /\ n \in Numbers(file.history) \cup InFlightNumber(file.inFlight)
        BY Zenon, <2>3 DEF OnDisk
      <3> QED
        BY Zenon, <2>1, <2>3, <3>1 DEF CmdInv, CopiesKnown, Copies, AllKnown
    <2> QED
      BY Zenon, <2>2, <2>3 DEF DiskIsKnown, KnownBy
  <1> QED
    BY <1>1, CmdInvariance, PTL

(* ClosedIsFlushed for all of them: when the Writer's goroutine has ended, *)
(* and its disk did not fail, the file holds the last state it accepted.   *)
THEOREM ClosedIsFlushedCorrect == Spec => []ClosedIsFlushed
  <1>1. CmdInv => ClosedIsFlushed
    BY Zenon DEF CmdInv
  <1> QED
    BY <1>1, CmdInvariance, PTL
=============================================================================
