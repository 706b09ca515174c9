----------------------------- MODULE ByteStream -----------------------------
(***************************************************************************)
(* What a session's output path promises, without its goroutines: a FIFO   *)
(* stream from the child process to the broadcaster.  The broadcaster      *)
(* receives the child's bytes in order, none twice and none skipped, for   *)
(* as long as the session is registered; when the session goes away the    *)
(* bytes still on the way are dropped, and nothing else ever is.           *)
(***************************************************************************)
EXTENDS Naturals, Sequences

VARIABLES
    pending,    \* bytes the child wrote that the broadcaster has not taken
    received,   \* bytes the broadcaster has taken
    open        \* the session is registered

streamVars == <<pending, received, open>>

(* Each byte is the position at which the child wrote it.                  *)
Init == pending = <<>> /\ received = <<>> /\ open = TRUE

Produce ==
    /\ pending' = Append(pending, Len(received) + Len(pending) + 1)
    /\ UNCHANGED <<received, open>>

Deliver ==
    /\ open
    /\ \E n \in 1..Len(pending) :
          /\ received' = received \o SubSeq(pending, 1, n)
          /\ pending' = SubSeq(pending, n + 1, Len(pending))
    /\ UNCHANGED open

Close == open' = FALSE /\ UNCHANGED <<pending, received>>

Next == Produce \/ Deliver \/ Close

Spec == Init /\ [][Next]_streamVars
=============================================================================
