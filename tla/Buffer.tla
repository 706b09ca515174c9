------------------------------- MODULE Buffer -------------------------------
(***************************************************************************)
(* session.Buffer (internal/session/backpressure.go): the byte buffer      *)
(* between the batcher goroutine, which calls Write, and the broadcaster,  *)
(* which calls Read.  Both take Buffer.mu, so each call is one action.     *)
(*                                                                         *)
(* The buffer recycles backing arrays: Read hands its array to the caller  *)
(* and keeps it as inFlight, the next Read demotes it to spare, and a      *)
(* Write that finds the buffer empty appends into spare.  Memory is        *)
(* therefore explicit here: a slice names an array, an offset and a        *)
(* length, and appending overwrites the array the slice points into.       *)
(***************************************************************************)
EXTENDS Backpressure

CONSTANTS
    Byte,       \* byte values
    Array,      \* backing arrays the allocator can hand out
    NilSlice,   \* Go's nil slice
    MaxWrite,   \* bound: bytes per Write
    MaxLen,     \* bound: bytes held by the buffer
    Capacity    \* bound: bytes a backing array can hold

ASSUME NilIsNoSlice == NilSlice \notin [arr: Array, off: Nat, len: Nat]

ASSUME BoundsAreNat == MaxWrite \in Nat /\ MaxLen \in Nat /\ Capacity \in Nat

VARIABLES
    mem,        \* contents of every backing array
    data,       \* Buffer.data
    inFlight,   \* Buffer.inFlight
    spare,      \* Buffer.spare
    held,       \* the slice the last Read or ReadN returned to its caller
    heldBytes,  \* the bytes that slice had when it was returned
    queue       \* history: bytes written and not yet returned by a read

memVars == <<mem, data, inFlight, spare, paused, held, heldBytes, queue>>

Slice == [arr: Array, off: Nat, len: Nat]

(* What Write can be called with.                                          *)
Payload == UNION {[1..n -> Byte] : n \in 0..MaxWrite}

SliceLen(s) == IF s = NilSlice THEN 0 ELSE s.len

(* The bytes a slice denotes: the part of its array it covers.             *)
Denoted(m, s) ==
    IF s = NilSlice THEN <<>> ELSE SubSeq(m[s.arr], s.off + 1, s.off + s.len)

(* Mutation: the recycled slice keeps its old length.                      *)
NotTruncated(s) == s

(* s[:0]                                                                   *)
Truncated(s) == [s EXCEPT !.len = 0]

Arrays(slices) == {s.arr : s \in slices \ {NilSlice}}

(* Writing p over the contents c of an array, from offset off on.          *)
Overwrite(c, off, p) ==
    SubSeq(c, 1, off) \o p \o SubSeq(c, off + Len(p) + 1, Len(c))

(* The contents of memory once arrays no slice points into are collected.  *)
Collected(m) ==
    [a \in Array |->
        IF a \in Arrays({data', inFlight', spare', held'}) THEN m[a] ELSE <<>>]

(* append(s, p...): in place when the array has the capacity, else into a  *)
(* fresh array.  Capacities follow the allocator's size classes; both      *)
(* outcomes are allowed for a non-nil slice.                               *)
AppendInPlace(s, p) ==
    /\ s # NilSlice
    /\ s.off + s.len + Len(p) <= Capacity
    /\ data' = [s EXCEPT !.len = s.len + Len(p)]
    /\ mem' = Collected([mem EXCEPT ![s.arr] = Overwrite(@, s.off + s.len, p)])

AppendFresh(s, p) ==
    \E a \in Array \ Arrays({data, inFlight, spare, held}) :
        /\ data' = [arr |-> a, off |-> 0, len |-> SliceLen(s) + Len(p)]
        /\ mem' = Collected([mem EXCEPT ![a] = Denoted(mem, s) \o p])

(* Buffer.Write(p)                                                         *)
Write(p) ==
    LET reclaim == SliceLen(data) = 0 /\ spare # NilSlice
        target  == IF reclaim THEN Truncated(spare) ELSE data
    IN  /\ spare' = IF reclaim THEN NilSlice ELSE spare
        /\ UNCHANGED <<inFlight, held, heldBytes>>
        /\ \/ /\ p = <<>>
              /\ data' = target
              /\ UNCHANGED mem
           \/ /\ p # <<>>
              /\ \/ AppendInPlace(target, p)
                 \/ AppendFresh(target, p)
        /\ paused' = PauseAt(SliceLen(target) + Len(p))
        /\ queue' = queue \o p

(* Mutation: the array just handed out is made spare at once.              *)
DrainToSpare ==
    /\ spare' = data
    /\ inFlight' = data
    /\ held' = data
    /\ heldBytes' = Denoted(mem, data)
    /\ data' = NilSlice
    /\ mem' = Collected(mem)
    /\ queue' = <<>>

(* The full drain of Buffer.Read, and of Buffer.ReadN when n covers all.   *)
Drain ==
    /\ spare' = inFlight
    /\ inFlight' = data
    /\ held' = data
    /\ heldBytes' = Denoted(mem, data)
    /\ data' = NilSlice
    /\ mem' = Collected(mem)
    /\ queue' = <<>>

(* Buffer.Read().  The empty buffer returns nil and changes nothing.       *)
Read ==
    /\ SliceLen(data) > 0
    /\ Drain
    /\ paused' = checkResume(0)

(* Buffer.ReadN(n): a partial read copies its bytes into a new array.      *)
ReadN(n) ==
    /\ SliceLen(data) > 0
    /\ \/ /\ n >= data.len
          /\ Drain
          /\ paused' = checkResume(0)
       \/ /\ n < data.len
          /\ data' = [data EXCEPT !.off = data.off + n, !.len = data.len - n]
          /\ UNCHANGED <<inFlight, spare>>
          /\ heldBytes' = SubSeq(Denoted(mem, data), 1, n)
          /\ \E a \in Array \ Arrays({data, inFlight, spare, held}) :
                /\ held' = [arr |-> a, off |-> 0, len |-> n]
                /\ mem' = Collected([mem EXCEPT ![a] = heldBytes'])
          /\ paused' = checkResume(data.len - n)
          /\ queue' = SubSeq(queue, n + 1, Len(queue))

BufInit ==
    /\ mem = [a \in Array |-> <<>>]
    /\ data = NilSlice
    /\ inFlight = NilSlice
    /\ spare = NilSlice
    /\ paused = FALSE
    /\ held = NilSlice
    /\ heldBytes = <<>>
    /\ queue = <<>>

BufNext ==
    \/ \E p \in Payload :
          /\ Len(queue) + Len(p) <= MaxLen
          /\ Write(p)
    \/ Read
    \/ \E n \in 0..MaxLen : ReadN(n)

BufSpec == BufInit /\ [][BufNext]_memVars

-----------------------------------------------------------------------------
(* The comment on Buffer.spare: "safe to recycle".  The bytes handed to    *)
(* the broadcaster by its last read are never overwritten by the writes    *)
(* that follow, although those writes reuse the arrays of earlier reads.   *)
HeldIntact == Denoted(mem, held) = heldBytes

(* FIFO: through all the recycling, the slice data denotes exactly the     *)
(* bytes written and not yet read, in order.                               *)
ContentsAreQueue == Denoted(mem, data) = queue
=============================================================================
