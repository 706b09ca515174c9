----------------------------- MODULE ClientRpc -----------------------------
(***************************************************************************)
(* The request path of pkg/client: goroutines of one program share one     *)
(* Client.  sendRequest waits for the drains of timed-out calls, takes     *)
(* rpcMu, writes its frame and takes whatever arrives next on the          *)
(* responses channel; nothing in a frame says which call it answers.       *)
(* History takes rpcMu only for its write and then reads two channels.     *)
(* readControl sorts the frames the daemon sends into those channels; the  *)
(* daemon dispatches the frames of a connection one at a time, except that *)
(* a wait is answered by a goroutine of its own.  Event frames go to the   *)
(* program's handler and leave nothing behind, so they are left out.       *)
(*                                                                         *)
(* A frame is the number of the call it belongs to and its kind.           *)
(***************************************************************************)
EXTENDS Naturals, Sequences

CONSTANTS Caller,     \* goroutines that use the client
          NoCaller,   \* nobody holds rpcMu
          MaxCalls,   \* bound: calls made
          HistoryCap  \* capacity of the history channel (4 in the code)

ASSUME RpcAssumption ==
    /\ NoCaller \notin Caller
    /\ MaxCalls \in Nat
    /\ HistoryCap \in Nat \ {0}

VARIABLES calls,      \* number of calls started
          at,         \* where each caller is in its call
          call,       \* the number of its current or last call
          asks,       \* the kind of request of that call
          rpcMu,      \* the caller that holds rpcMu
          drains,     \* drainWg's counter: drain goroutines that still run
          toDaemon,   \* frames written and not yet dispatched
          waits,      \* calls whose wait the daemon has still to answer
          toClient,   \* frames sent and not yet read
          reader,     \* "read", "ended", or the frame readControl is passing on
          responses,  \* the responses channel, of capacity 1
          history,    \* the history channel
          done,       \* Close was called
          linkUp,     \* the control connection is open
          got,        \* the call whose frame each caller took last; 0: none
          misused,    \* WaitGroup's misuse panic ended the process
          overtaken,  \* history: a call timed out while another was past Wait
          mixed,      \* history: History and another call were outstanding at once
          leftOver    \* history: a History reader was closed before its end

clientVars == <<calls, at, call, asks, rpcMu, drains, toDaemon, waits, toClient, reader,
                responses, history, done, linkUp, got, misused, overtaken, mixed, leftOver>>

wireVars == <<toDaemon, waits, toClient>>
chanVars == <<reader, responses, history, done, linkUp>>
pastVars == <<misused, overtaken, mixed, leftOver>>

RpcInit ==
    /\ calls = 0
    /\ at = [c \in Caller |-> "idle"]
    /\ call = [c \in Caller |-> 0]
    /\ asks = [c \in Caller |-> "rpc"]
    /\ rpcMu = NoCaller
    /\ drains = 0
    /\ toDaemon = <<>>
    /\ waits = {}
    /\ toClient = <<>>
    /\ reader = [kind |-> "none", of |-> 0]
    /\ responses = <<>>
    /\ history = <<>>
    /\ done = FALSE
    /\ linkUp = TRUE
    /\ got = [c \in Caller |-> 0]
    /\ misused = FALSE
    /\ overtaken = FALSE
    /\ mixed = FALSE
    /\ leftOver = FALSE

CallAt(c, s) == at' = [at EXCEPT ![c] = s]

ReaderEnded == reader.kind = "ended"

\* Calls whose frame is written and whose answer nobody has taken.
AwaitsReply(c) == at[c] \in {"select", "pick", "stream"}

\* drainWg.Wait has let the call through, and its frame is not written yet.
LetThrough(c) == at[c] \in {"woken", "lock"} /\ asks[c] # "history"

-----------------------------------------------------------------------------
(* sendRequest: drainWg.Wait, rpcMu, the write, the select.                *)

\* Every method that is one request and its reply starts like this; a wait
\* (UntilExit, UntilIdle, UntilMatch) is one whose answer may take for ever.
Begin(c, kind) ==
    /\ ~misused
    /\ at[c] = "idle"
    /\ calls < MaxCalls
    /\ calls' = calls + 1
    /\ call' = [call EXCEPT ![c] = calls + 1]
    /\ asks' = [asks EXCEPT ![c] = kind]
    /\ got' = [got EXCEPT ![c] = 0]
    /\ CallAt(c, IF kind = "history" THEN "lock" ELSE "wait")
    /\ UNCHANGED <<rpcMu, drains, wireVars, chanVars, pastVars>>

\* drainWg.Wait returns at once on a zero counter and parks otherwise.
DrainWait(c) ==
    /\ ~misused
    /\ at[c] = "wait"
    /\ CallAt(c, IF drains = 0 THEN "lock" ELSE "parked")
    /\ UNCHANGED <<calls, call, asks, rpcMu, drains, wireVars, chanVars, got, pastVars>>

\* A waiter released by Done looks at the counter again and panics when it
\* is in use again ("WaitGroup is reused before previous Wait has returned").
DrainWoken(c) ==
    /\ ~misused
    /\ at[c] = "woken"
    /\ \/ drains = 0 /\ CallAt(c, "lock") /\ UNCHANGED misused
       \/ drains # 0 /\ misused' = TRUE /\ UNCHANGED at
    /\ UNCHANGED <<calls, call, asks, rpcMu, drains, wireVars, chanVars, got,
                   overtaken, mixed, leftOver>>

LockRpc(c) ==
    /\ ~misused
    /\ at[c] = "lock"
    /\ rpcMu = NoCaller
    /\ rpcMu' = c
    /\ CallAt(c, "write")
    /\ UNCHANGED <<calls, call, asks, drains, wireVars, chanVars, got, pastVars>>

\* The write; History releases rpcMu after it, sendRequest keeps it.  A
\* closed connection refuses the frame and the call returns.
WriteRequest(c) ==
    /\ ~misused
    /\ at[c] = "write"
    /\ LET hist == asks[c] = "history" IN
       /\ rpcMu' = IF hist \/ ~linkUp THEN NoCaller ELSE c
       /\ \/ /\ linkUp
             /\ toDaemon' = Append(toDaemon, [kind |-> asks[c], of |-> call[c]])
             /\ CallAt(c, IF hist THEN "pick" ELSE "select")
             /\ mixed' = (mixed \/ (\E o \in Caller \ {c} :
                                       AwaitsReply(o) /\ (hist \/ asks[o] = "history"))
                                \/ (hist /\ drains > 0))
          \/ /\ ~linkUp
             /\ CallAt(c, "idle")
             /\ UNCHANGED <<toDaemon, mixed>>
    /\ UNCHANGED <<calls, call, asks, drains, waits, toClient, chanVars, got,
                   misused, overtaken, leftOver>>

\* case resp, ok := <-c.responses
ReceiveReply(c) ==
    /\ ~misused
    /\ at[c] = "select"
    /\ \/ /\ responses # <<>>
          /\ got' = [got EXCEPT ![c] = Head(responses).of]
          /\ responses' = Tail(responses)
       \/ /\ responses = <<>> /\ ReaderEnded
          /\ UNCHANGED <<got, responses>>
    /\ rpcMu' = NoCaller
    /\ CallAt(c, "idle")
    /\ UNCHANGED <<calls, call, asks, drains, wireVars, reader, history, done, linkUp, pastVars>>

\* Mutation: a timed-out call leaves its late answer to the next one.
RequestTimeoutNoDrain(c) ==
    /\ ~misused
    /\ at[c] = "select"
    /\ rpcMu' = NoCaller
    /\ CallAt(c, "idle")
    /\ overtaken' = (overtaken \/ \E o \in Caller \ {c} : LetThrough(o))
    /\ UNCHANGED <<calls, call, asks, drains, wireVars, chanVars, got, misused, mixed, leftOver>>

\* case <-time.After(c.rpcTimeout): the drain is counted and started.
RequestTimeout(c) ==
    /\ ~misused
    /\ at[c] = "select"
    /\ drains' = drains + 1
    /\ rpcMu' = NoCaller
    /\ CallAt(c, "idle")
    /\ overtaken' = (overtaken \/ \E o \in Caller \ {c} : LetThrough(o))
    /\ mixed' = (mixed \/ \E o \in Caller : at[o] \in {"write", "pick"} /\ asks[o] = "history")
    /\ UNCHANGED <<calls, call, asks, wireVars, chanVars, got, misused, leftOver>>

\* Mutation: the drain does not watch c.done.
DrainNeedsReply ==
    /\ ~misused
    /\ drains > 0
    /\ responses # <<>>
    /\ responses' = Tail(responses)
    /\ drains' = drains - 1
    /\ at' = [c \in Caller |-> IF drains = 1 /\ at[c] = "parked" THEN "woken" ELSE at[c]]
    /\ UNCHANGED <<calls, call, asks, rpcMu, wireVars, reader, history, done, linkUp, got, pastVars>>

\* A drain goroutine takes one frame, or sees the channel or c.done closed;
\* the Done that reaches zero releases every parked caller.
DrainOne ==
    /\ ~misused
    /\ drains > 0
    /\ \/ responses # <<>> /\ responses' = Tail(responses)
       \/ responses = <<>> /\ ReaderEnded /\ UNCHANGED responses
       \/ done /\ UNCHANGED responses
    /\ drains' = drains - 1
    /\ at' = [c \in Caller |-> IF drains = 1 /\ at[c] = "parked" THEN "woken" ELSE at[c]]
    /\ UNCHANGED <<calls, call, asks, rpcMu, wireVars, reader, history, done, linkUp, got, pastVars>>

-----------------------------------------------------------------------------
(* History and its reader.                                                 *)

\* The select of History: the first frame of either channel, whose ever.
PickHistory(c) ==
    /\ ~misused
    /\ at[c] = "pick"
    /\ \/ /\ history # <<>>
          /\ got' = [got EXCEPT ![c] = Head(history).of]
          /\ history' = Tail(history)
          /\ CallAt(c, IF Head(history).kind = "end" THEN "idle" ELSE "stream")
          /\ UNCHANGED responses
       \/ /\ responses # <<>>
          /\ got' = [got EXCEPT ![c] = Head(responses).of]
          /\ responses' = Tail(responses)
          /\ CallAt(c, "idle")
          /\ UNCHANGED history
       \/ /\ history = <<>> \/ responses = <<>>
          /\ ReaderEnded
          /\ CallAt(c, "idle")
          /\ UNCHANGED <<got, history, responses>>
    /\ UNCHANGED <<calls, call, asks, rpcMu, drains, wireVars, reader, done, linkUp, pastVars>>

\* historyReader.Read.
ReadHistory(c) ==
    /\ ~misused
    /\ at[c] = "stream"
    /\ \/ /\ history # <<>>
          /\ got' = [got EXCEPT ![c] = IF @ = call[c] THEN Head(history).of ELSE @]
          /\ history' = Tail(history)
          /\ CallAt(c, IF Head(history).kind = "end" THEN "idle" ELSE "stream")
       \/ /\ history = <<>> /\ ReaderEnded
          /\ CallAt(c, "idle")
          /\ UNCHANGED <<got, history>>
    /\ UNCHANGED <<calls, call, asks, rpcMu, drains, wireVars, reader, responses, done, linkUp,
                   pastVars>>

\* historyReader.Close only marks the reader; its frames keep coming.
CloseHistory(c) ==
    /\ ~misused
    /\ at[c] = "stream"
    /\ CallAt(c, "idle")
    /\ leftOver' = TRUE
    /\ UNCHANGED <<calls, call, asks, rpcMu, drains, wireVars, chanVars, got,
                   misused, overtaken, mixed>>

-----------------------------------------------------------------------------
(* readControl, Close, and the daemon's side of the connection.            *)

\* ReadFrame: the next frame, or the error of a closed connection, on which
\* readControl closes both channels.
ReadControl ==
    /\ ~misused
    /\ reader.kind = "none"
    /\ \/ /\ toClient # <<>> /\ ~done
          /\ reader' = Head(toClient)
          /\ toClient' = Tail(toClient)
       \/ /\ ~linkUp
          /\ reader' = [kind |-> "ended", of |-> 0]
          /\ UNCHANGED toClient
    /\ UNCHANGED <<calls, at, call, asks, rpcMu, drains, toDaemon, waits, responses, history,
                   done, linkUp, got, pastVars>>

\* The send to the channel of the frame's kind, which waits for room.
Demux ==
    /\ ~misused
    /\ \/ /\ reader.kind \in {"chunk", "end"}
          /\ Len(history) < HistoryCap
          /\ history' = Append(history, reader)
          /\ UNCHANGED responses
       \/ /\ reader.kind = "reply"
          /\ Len(responses) < 1
          /\ responses' = Append(responses, reader)
          /\ UNCHANGED history
    /\ reader' = [kind |-> "none", of |-> 0]
    /\ UNCHANGED <<calls, at, call, asks, rpcMu, drains, wireVars, done, linkUp, got, pastVars>>

\* Client.Close, once.
CloseClient ==
    /\ ~misused
    /\ ~done
    /\ done' = TRUE
    /\ linkUp' = FALSE
    /\ UNCHANGED <<calls, at, call, asks, rpcMu, drains, wireVars, reader, responses, history,
                   got, pastVars>>

\* The daemon or its connection goes away.
LoseLink ==
    /\ ~misused
    /\ linkUp
    /\ linkUp' = FALSE
    /\ UNCHANGED <<calls, at, call, asks, rpcMu, drains, wireVars, reader, responses, history,
                   done, got, pastVars>>

\* The daemon's dispatch of one frame.  A history request is answered by an
\* error, or by the chunks of the dump and its end.
dispatch ==
    /\ ~misused
    /\ linkUp
    /\ toDaemon # <<>>
    /\ toDaemon' = Tail(toDaemon)
    /\ LET f == Head(toDaemon)
           frame(kind) == [kind |-> kind, of |-> f.of] IN
       \/ /\ f.kind = "rpc"
          /\ toClient' = Append(toClient, frame("reply"))
          /\ UNCHANGED waits
       \/ /\ f.kind = "wait"
          /\ waits' = waits \union {f.of}
          /\ UNCHANGED toClient
       \/ /\ f.kind = "history"
          /\ \E answer \in {<<frame("reply")>>, <<frame("end")>>, <<frame("chunk"), frame("end")>>} :
                toClient' = toClient \o answer
          /\ UNCHANGED waits
    /\ UNCHANGED <<calls, at, call, asks, rpcMu, drains, chanVars, got, pastVars>>

\* A wait is answered by the goroutine it runs in, whenever it ends.
answerWait(n) ==
    /\ ~misused
    /\ linkUp
    /\ n \in waits
    /\ waits' = waits \ {n}
    /\ toClient' = Append(toClient, [kind |-> "reply", of |-> n])
    /\ UNCHANGED <<calls, at, call, asks, rpcMu, drains, toDaemon, chanVars, got, pastVars>>

-----------------------------------------------------------------------------
Proceed(c) ==
    \/ DrainWait(c) \/ DrainWoken(c) \/ WriteRequest(c)
    \/ ReceiveReply(c) \/ RequestTimeout(c) \/ PickHistory(c) \/ ReadHistory(c)

ReaderStep == ReadControl \/ Demux

RpcNext ==
    \/ \E c \in Caller : \/ \E kind \in {"rpc", "wait", "history"} : Begin(c, kind)
                         \/ LockRpc(c) \/ Proceed(c) \/ CloseHistory(c)
    \/ ReaderStep
    \/ DrainOne
    \/ CloseClient
    \/ LoseLink
    \/ dispatch
    \/ \E n \in 1..MaxCalls : answerWait(n)

\* A goroutine that can go on does; a timer that is not overtaken by an
\* answer fires; the daemon keeps dispatching.  Nobody promises the answer
\* of a wait, the end of the connection, or another call.
RpcFairness ==
    /\ \A c \in Caller : WF_clientVars(Proceed(c)) /\ SF_clientVars(LockRpc(c))
    /\ WF_clientVars(ReaderStep)
    /\ WF_clientVars(DrainOne)
    /\ WF_clientVars(dispatch)

RpcSpec == RpcInit /\ [][RpcNext]_clientVars /\ RpcFairness

-----------------------------------------------------------------------------
(* What callers may rely on.                                               *)

\* The answer a call returns, and every frame a History reader hands out, is
\* its own, whatever timed out before it, as long as no call timed out while
\* another had passed drainWg.Wait, no History was outstanding together with
\* another call or an undrained answer, and every earlier History reader was
\* read to its end.
AnswerIsOwn ==
    \A c \in Caller :
        (got[c] # 0 /\ (at[c] = "idle" \/ asks[c] = "history"))
            => got[c] = call[c] \/ mixed \/ leftOver \/ (overtaken /\ asks[c] # "history")

\* A call is not left hanging: every caller is idle again and again, unless a
\* wait stays unanswered on an open connection, the frames of an abandoned or
\* overlapping History block readControl, or the process died of the panic.
CallsReturn ==
    \A c \in Caller :
        []<>(at[c] = "idle" \/ (waits # {} /\ linkUp) \/ mixed \/ leftOver \/ misused)
=============================================================================
