---------------------------- MODULE Output_proofs ----------------------------
(***************************************************************************)
(* The output path of a session, for any watermarks, chunk sizes, flush    *)
(* threshold and channel capacities, and any set of bytes and arrays:      *)
(*   - the Buffer that recycles its arrays is a FIFO queue, and what it    *)
(*     has handed out is not overwritten;                                  *)
(*   - the goroutines around it keep the bytes in order, implement the     *)
(*     abstract byte stream, and let at most one read through a pause;     *)
(*   - what the emulator is given is in order, whatever it misses.         *)
(***************************************************************************)
EXTENDS Buffer, OutputPipeline, SequenceTheorems, TLAPS

(* The values of a slice variable: a slice or nil.                         *)
SliceOrNil == Slice \cup {NilSlice}

(* A slice that is not nil lies within the contents of its array.          *)
Within(m, s) == s # NilSlice => s.off + s.len <= Len(m[s.arr])

(* Two slices that are not nil have arrays of their own.                   *)
Apart(s, t) == s # NilSlice /\ t # NilSlice => s.arr # t.arr

BufTypeOK ==
    /\ mem \in [Array -> Seq(Byte)]
    /\ data \in SliceOrNil /\ inFlight \in SliceOrNil
    /\ spare \in SliceOrNil /\ held \in SliceOrNil
    /\ heldBytes \in Seq(Byte) /\ queue \in Seq(Byte)

(* What makes recycling safe: the buffer's own three slices never share an *)
(* array, and the slice a reader holds shares one with inFlight at most.   *)
Separate ==
    /\ Apart(data, inFlight) /\ Apart(data, spare) /\ Apart(inFlight, spare)
    /\ Apart(held, data) /\ Apart(held, spare)

AllWithin ==
    /\ Within(mem, data) /\ Within(mem, inFlight)
    /\ Within(mem, spare) /\ Within(mem, held)

(* The inductive invariant behind HeldIntact and ContentsAreQueue.         *)
BufInv == BufTypeOK /\ Separate /\ AllWithin /\ HeldIntact /\ ContentsAreQueue

(* What Write is called with is a sequence of bytes.                       *)
LEMMA WrittenIsSeq ==
    ASSUME NEW p \in Payload
    PROVE  p \in Seq(Byte)
<1>1. PICK m \in 0..MaxWrite : p \in [1..m -> Byte]
  BY Zenon, BoundsAreNat DEF Payload
<1>2. m \in Nat
  BY BoundsAreNat
<1> QED
  BY Zenon, <1>1, <1>2, SeqDef

(* A slice within its array denotes as many bytes as its length says.      *)
LEMMA DenotedIsSeq ==
    ASSUME NEW m \in [Array -> Seq(Byte)], NEW s \in SliceOrNil, Within(m, s)
    PROVE  Denoted(m, s) \in Seq(Byte) /\ Len(Denoted(m, s)) = SliceLen(s)
<1>1. CASE s = NilSlice
  BY <1>1 DEF Denoted, SliceLen
<1>2. CASE s # NilSlice
  <2>1. s.arr \in Array /\ s.off \in Nat /\ s.len \in Nat
    BY Zenon, <1>2 DEF SliceOrNil, Slice
  <2> DEFINE c == m[s.arr]
  <2>2. c \in Seq(Byte) /\ s.off + s.len <= Len(c)
    BY Zenon, <2>1, <1>2 DEF Within
  <2> HIDE DEF c
  <2>3. \A i \in s.off + 1 .. s.off + s.len : c[i] \in Byte
    BY <2>1, <2>2, ElementOfSeq
  <2>4. /\ SubSeq(c, s.off + 1, s.off + s.len) \in Seq(Byte)
        /\ Len(SubSeq(c, s.off + 1, s.off + s.len)) = s.len
    BY <2>1, <2>3, SubSeqProperties
  <2> QED
    BY Zenon, <2>4, <1>2 DEF Denoted, SliceLen, c
<1> QED
  BY Zenon, <1>1, <1>2

(* Appending in place extends what the slice denotes by the bytes written, *)
(* and leaves the bytes before its end alone.                              *)
LEMMA OverwriteExtends ==
    ASSUME NEW c \in Seq(Byte), NEW p \in Seq(Byte),
           NEW off \in Nat, NEW len \in Nat, off + len <= Len(c)
    PROVE  LET d == Overwrite(c, off + len, p)
           IN  /\ d \in Seq(Byte)
               /\ off + len + Len(p) <= Len(d)
               /\ SubSeq(d, off + 1, off + (len + Len(p)))
                    = SubSeq(c, off + 1, off + len) \o p
<1> DEFINE k == off + len
           pre == SubSeq(c, 1, k)
           post == SubSeq(c, k + Len(p) + 1, Len(c))
           d == (pre \o p) \o post
           old == SubSeq(c, off + 1, k)
           new == SubSeq(d, off + 1, off + (len + Len(p)))
<1>0. k \in Nat /\ k <= Len(c) /\ Len(c) \in Nat /\ Len(p) \in Nat
  BY LenProperties
<1>1. \A i \in 1..Len(c) : c[i] \in Byte
  BY Zenon, ElementOfSeq
<1>2. pre \in Seq(Byte) /\ Len(pre) = k /\ \A i \in 1..k : pre[i] = c[i]
  BY <1>0, <1>1, SubSeqProperties
<1>3. post \in Seq(Byte)
  BY <1>0, <1>1, SubSeqProperties
<1>4. old \in Seq(Byte) /\ Len(old) = len /\ \A i \in 1..len : old[i] = c[off + i]
  <2>1. \A i \in off + 1 .. k : c[i] \in Byte
    BY <1>0, <1>1
  <2>2. /\ old \in Seq(Byte)
        /\ Len(old) = IF off + 1 <= k THEN k - (off + 1) + 1 ELSE 0
        /\ \A i \in 1 .. k - (off + 1) + 1 : old[i] = c[off + 1 + i - 1]
    BY <1>0, <2>1, SubSeqProperties
  <2> QED
    BY <2>2
<1> HIDE DEF pre, post, old
<1>5. /\ pre \o p \in Seq(Byte) /\ Len(pre \o p) = k + Len(p)
      /\ \A i \in 1 .. k + Len(p) :
            (pre \o p)[i] = IF i <= k THEN pre[i] ELSE p[i - k]
  <2>1. pre \in Seq(Byte) /\ Len(pre) = k
    BY Zenon, <1>2
  <2>2. /\ pre \o p \in Seq(Byte) /\ Len(pre \o p) = Len(pre) + Len(p)
        /\ \A i \in 1 .. Len(pre) + Len(p) :
              (pre \o p)[i] = IF i <= Len(pre) THEN pre[i] ELSE p[i - Len(pre)]
    BY <2>1, ConcatProperties, Zenon
  <2> QED
    BY Zenon, <2>1, <2>2
<1>6. /\ d \in Seq(Byte) /\ Len(d) = k + Len(p) + Len(post)
      /\ \A i \in 1 .. k + Len(p) : d[i] = (pre \o p)[i]
  <2> DEFINE q == pre \o p
  <2>1. q \in Seq(Byte) /\ Len(q) = k + Len(p)
    BY Zenon, <1>5
  <2>2. Len(post) \in Nat
    BY Zenon, <1>3, LenProperties
  <2> HIDE DEF q
  <2>3. /\ q \o post \in Seq(Byte) /\ Len(q \o post) = Len(q) + Len(post)
        /\ \A i \in 1 .. Len(q) + Len(post) :
            (q \o post)[i] = IF i <= Len(q) THEN q[i] ELSE post[i - Len(q)]
    <3>1. q \in Seq(Byte)
      BY Zenon, <2>1
    <3> QED
      BY ONLY Zenon, <1>3, <3>1, ConcatProperties
  <2>4. \A i \in 1 .. k + Len(p) : (q \o post)[i] = q[i]
    BY <1>0, <2>1, <2>2, <2>3
  <2> QED
    BY Zenon, <2>1, <2>3, <2>4 DEF q
<1>7. Len(post) \in Nat
  BY Zenon, <1>3, LenProperties
<1>8. \A i \in 1 .. k + Len(p) : d[i] = IF i <= k THEN c[i] ELSE p[i - k]
  BY SMTT(30), <1>0, <1>2, <1>5, <1>6
<1> HIDE DEF d
<1>9. /\ new \in Seq(Byte) /\ Len(new) = len + Len(p)
      /\ \A i \in 1 .. len + Len(p) : new[i] = d[off + i]
  <2>1. \A i \in off + 1 .. off + (len + Len(p)) : d[i] \in Byte
    BY <1>0, <1>6, <1>7, ElementOfSeq
  <2>2. /\ new \in Seq(Byte)
        /\ Len(new) = IF off + 1 <= off + (len + Len(p))
                      THEN off + (len + Len(p)) - (off + 1) + 1 ELSE 0
        /\ \A i \in 1 .. off + (len + Len(p)) - (off + 1) + 1 :
              new[i] = d[off + 1 + i - 1]
    BY <1>0, <2>1, SubSeqProperties
  <2>3. /\ off + (len + Len(p)) - (off + 1) + 1 = len + Len(p)
        /\ off + 1 <= off + (len + Len(p)) \/ len + Len(p) = 0
        /\ \A i \in 1 .. len + Len(p) : off + 1 + i - 1 = off + i
    BY <1>0
  <2> HIDE DEF new
  <2>4. Len(new) = len + Len(p)
    BY Zenon, <1>0, <2>2, <2>3
  <2>5. \A i \in 1 .. len + Len(p) : new[i] = d[off + i]
    BY ONLY Zenon, <2>2, <2>3
  <2> QED
    BY Zenon, <2>2, <2>4, <2>5
<1> HIDE DEF new
<1>10. /\ old \o p \in Seq(Byte) /\ Len(old \o p) = len + Len(p)
       /\ \A i \in 1 .. len + Len(p) :
            (old \o p)[i] = IF i <= len THEN old[i] ELSE p[i - len]
  <2>1. old \in Seq(Byte) /\ Len(old) = len
    BY Zenon, <1>4
  <2>2. /\ old \o p \in Seq(Byte) /\ Len(old \o p) = Len(old) + Len(p)
        /\ \A i \in 1 .. Len(old) + Len(p) :
              (old \o p)[i] = IF i <= Len(old) THEN old[i] ELSE p[i - Len(old)]
    BY ONLY Zenon, <2>1, p \in Seq(Byte), ConcatProperties
  <2> QED
    BY Zenon, <2>1, <2>2
<1>11. ASSUME NEW i \in 1 .. len + Len(p)
       PROVE  new[i] = (old \o p)[i]
  <2>1. off + i \in 1 .. k + Len(p)
    BY <1>0
  <2>2. new[i] = IF off + i <= k THEN c[off + i] ELSE p[off + i - k]
    <3>1. new[i] = d[off + i]
      BY Zenon, <1>9
    <3> QED
      BY <1>8, <2>1, <3>1
  <2>3. CASE i <= len
    BY SMTT(30), <1>0, <1>4, <1>10, <2>2, <2>3
  <2>4. CASE ~(i <= len)
    <3>1. off + i - k = i - len /\ ~(off + i <= k)
      BY <2>4
    <3> QED
      BY Zenon, <1>10, <2>2, <2>4, <3>1
  <2> QED
    BY Zenon, <2>3, <2>4
<1>12. new = old \o p
  <2> DEFINE q == old \o p
  <2>1. q \in Seq(Byte) /\ Len(q) = len + Len(p) /\ \A i \in 1..Len(new) : new[i] = q[i]
    BY Zenon, <1>9, <1>10, <1>11
  <2> HIDE DEF q
  <2>2. new = q
    BY Zenon, <1>9, <2>1, SeqEqual
  <2> QED
    BY Zenon, <2>2 DEF q
<1>13. Overwrite(c, off + len, p) = d
  BY Zenon DEF Overwrite, d, pre, post
<1>14. off + len + Len(p) <= Len(d)
  BY <1>0, <1>6, <1>7
<1> QED
  BY Zenon, <1>6, <1>12, <1>13, <1>14 DEF old, new

(* Collecting the arrays no slice points into leaves every slice that the  *)
(* step ends with alone.                                                   *)
LEMMA CollectedKeeps ==
    ASSUME NEW m \in [Array -> Seq(Byte)], mem' = Collected(m),
           data' \in SliceOrNil, inFlight' \in SliceOrNil,
           spare' \in SliceOrNil, held' \in SliceOrNil
    PROVE  /\ mem' \in [Array -> Seq(Byte)]
           /\ \A s \in {data', inFlight', spare', held'} :
                /\ Denoted(mem', s) = Denoted(m, s)
                /\ Within(m, s) => Within(mem', s)
<1>1. mem' \in [Array -> Seq(Byte)]
  <2>1. <<>> \in Seq(Byte)
    BY Zenon, EmptySeq
  <2> QED
    BY Zenon, <2>1 DEF Collected
<1>2. ASSUME NEW s \in {data', inFlight', spare', held'}, s # NilSlice
      PROVE  mem'[s.arr] = m[s.arr]
  <2>1. s \in Slice
    BY Zenon, <1>2 DEF SliceOrNil
  <2>2. s.arr \in Array
    BY Zenon, <2>1 DEF Slice
  <2>3. s.arr \in Arrays({data', inFlight', spare', held'})
    BY Zenon, <1>2 DEF Arrays
  <2> QED
    BY Zenon, <2>2, <2>3 DEF Collected
<1> QED
  BY Zenon, <1>1, <1>2 DEF Denoted, Within

(* The slice Buffer.Write appends to: data, or the spare array cut to zero *)
(* when data is empty.  It denotes what data denotes, and no slice that is *)
(* still in use afterwards shares its array.                               *)
LEMMA WriteTarget ==
    ASSUME BufInv, NEW reclaim, NEW target, NEW rest,
           reclaim = (SliceLen(data) = 0 /\ spare # NilSlice),
           target = IF reclaim THEN Truncated(spare) ELSE data,
           rest = IF reclaim THEN NilSlice ELSE spare
    PROVE  /\ target \in SliceOrNil /\ rest \in SliceOrNil
           /\ Within(mem, target) /\ Within(mem, rest)
           /\ Apart(target, inFlight) /\ Apart(target, rest)
           /\ Apart(held, target) /\ Apart(held, rest) /\ Apart(inFlight, rest)
           /\ Denoted(mem, target) = queue
           /\ target # NilSlice => target.arr \in Arrays({data, spare})
<1> USE DEF BufInv, BufTypeOK, Separate, AllWithin
<1>1. CASE ~reclaim
  BY Zenon, <1>1 DEF ContentsAreQueue, Arrays
<1>2. CASE reclaim
  <2>1. spare \in Slice /\ SliceLen(data) = 0 /\ target = Truncated(spare)
        /\ rest = NilSlice /\ spare # NilSlice
    BY Zenon, <1>2 DEF SliceOrNil
  <2>2. /\ target \in Slice /\ target.arr = spare.arr
        /\ target.off = spare.off /\ target.len = 0
    BY SMTT(30), <2>1 DEF Truncated, Slice
  <2>3. spare.off \in Nat /\ spare.len \in Nat /\ spare.arr \in Array
    BY Zenon, <2>1 DEF Slice
  <2>4. Len(mem[spare.arr]) \in Nat
    BY Zenon, <2>3, LenProperties
  <2>5. Within(mem, target)
    BY SMTT(30), <2>1, <2>2, <2>3, <2>4 DEF Within
  <2>6. Denoted(mem, target) = <<>>
    <3>1. target # NilSlice
      BY Zenon, <2>2, NilIsNoSlice DEF Slice
    <3>2. SubSeq(mem[target.arr], target.off + 1, target.off + target.len) = <<>>
      <4>1. target.off + target.len < target.off + 1
            /\ target.off + 1 \in Int /\ target.off + target.len \in Int
        BY SMTT(30), <2>2, <2>3
      <4> QED
        BY <4>1, SubSeqEmpty
    <3> QED
      BY Zenon, <3>1, <3>2 DEF Denoted
  <2>7. queue = <<>>
    <3>1. Len(queue) = 0
      BY Zenon, <2>1, DenotedIsSeq DEF ContentsAreQueue
    <3> QED
      BY Zenon, <3>1, EmptySeq
  <2>8. Apart(target, inFlight) /\ Apart(held, target)
    BY Zenon, <2>1, <2>2 DEF Apart
  <2>9. target.arr \in Arrays({data, spare})
    BY Zenon, <2>1, <2>2 DEF Arrays
  <2> QED
    BY Zenon, <2>1, <2>2, <2>5, <2>6, <2>7, <2>8, <2>9 DEF Apart, Within, SliceOrNil
<1> QED
  BY Zenon, <1>1, <1>2

(* Buffer.Write preserves the invariant, whether it appends in place or    *)
(* into a fresh array.                                                     *)
LEMMA WriteStep ==
    ASSUME BufInv, NEW p \in Seq(Byte), Write(p)
    PROVE  BufInv'
<1> DEFINE reclaim == SliceLen(data) = 0 /\ spare # NilSlice
           target == IF reclaim THEN Truncated(spare) ELSE data
           rest == IF reclaim THEN NilSlice ELSE spare
<1>1. /\ target \in SliceOrNil /\ rest \in SliceOrNil
      /\ Within(mem, target) /\ Within(mem, rest)
      /\ Apart(target, inFlight) /\ Apart(target, rest)
      /\ Apart(held, target) /\ Apart(held, rest) /\ Apart(inFlight, rest)
      /\ Denoted(mem, target) = queue
      /\ target # NilSlice => target.arr \in Arrays({data, spare})
  <2>1. /\ reclaim = (SliceLen(data) = 0 /\ spare # NilSlice)
        /\ target = IF reclaim THEN Truncated(spare) ELSE data
        /\ rest = IF reclaim THEN NilSlice ELSE spare
    BY Zenon
  <2> HIDE DEF reclaim, target, rest
  <2> QED
    BY Zenon, <2>1, WriteTarget
<1>2. /\ spare' = rest
      /\ inFlight' = inFlight /\ held' = held /\ heldBytes' = heldBytes
      /\ \/ p = <<>> /\ data' = target /\ mem' = mem
         \/ AppendInPlace(target, p)
         \/ AppendFresh(target, p)
      /\ queue' = queue \o p
  BY Zenon DEF Write
<1> HIDE DEF reclaim, target, rest
<1>3. /\ BufTypeOK /\ Separate /\ AllWithin /\ HeldIntact /\ ContentsAreQueue
  BY Zenon DEF BufInv
<1>4. queue \o p \in Seq(Byte)
  BY Zenon, <1>3, ConcatProperties DEF BufTypeOK
<1>5. Len(p) \in Nat
  BY Zenon, LenProperties
<1>6. CASE p = <<>> /\ data' = target /\ mem' = mem
  <2>1. queue' = queue
    BY Zenon, <1>2, <1>3, <1>6, ConcatEmptySeq DEF BufTypeOK
  <2> QED
    BY Zenon, <1>1, <1>2, <1>3, <1>6, <2>1
    DEF BufInv, BufTypeOK, Separate, AllWithin, Apart, Within, HeldIntact,
        ContentsAreQueue, Denoted
<1>7. ASSUME NEW m \in [Array -> Seq(Byte)], mem' = Collected(m),
             data' \in Slice,
             \A s \in {inFlight, rest, held} : Apart(data', s),
             \A s \in {inFlight, rest, held} : s # NilSlice => m[s.arr] = mem[s.arr],
             Within(m, data'), Denoted(m, data') = queue \o p
      PROVE  BufInv'
  <2>1. /\ data' \in SliceOrNil /\ inFlight' \in SliceOrNil
        /\ spare' \in SliceOrNil /\ held' \in SliceOrNil
    BY Zenon, <1>1, <1>2, <1>3, <1>7 DEF BufTypeOK, SliceOrNil
  <2>2. /\ mem' \in [Array -> Seq(Byte)]
        /\ \A s \in {data', inFlight', spare', held'} :
                /\ Denoted(mem', s) = Denoted(m, s)
                /\ Within(m, s) => Within(mem', s)
    BY Zenon, <1>7, <2>1, CollectedKeeps
  <2>3. BufTypeOK'
    BY Zenon, <1>2, <1>3, <1>4, <2>1, <2>2 DEF BufTypeOK
  <2>4. Separate'
    BY Zenon, <1>1, <1>2, <1>7 DEF Separate, Apart
  <2>5. Within(m, inFlight) /\ Within(m, rest) /\ Within(m, held)
    BY Zenon, <1>1, <1>3, <1>7 DEF AllWithin, Within
  <2>6. AllWithin'
    <3>1. /\ Within(mem', data') /\ Within(mem', inFlight')
          /\ Within(mem', spare') /\ Within(mem', held')
      BY Zenon, <1>2, <1>7, <2>2, <2>5
    <3> QED
      BY Zenon, <3>1 DEF AllWithin, Within
  <2>7. HeldIntact'
    <3>1. Denoted(mem', held') = Denoted(m, held)
      BY Zenon, <1>2, <2>2
    <3>2. Denoted(m, held) = Denoted(mem, held)
      BY Zenon, <1>7 DEF Denoted
    <3>3. Denoted(mem', held') = heldBytes'
      BY Zenon, <1>2, <1>3, <3>1, <3>2 DEF HeldIntact
    <3> QED
      BY Zenon, <3>3 DEF HeldIntact, Denoted
  <2>8. ContentsAreQueue'
    <3>1. Denoted(mem', data') = queue'
      BY Zenon, <1>2, <1>7, <2>2
    <3> QED
      BY Zenon, <3>1 DEF ContentsAreQueue, Denoted
  <2> QED
    BY Zenon, <2>3, <2>4, <2>6, <2>7, <2>8 DEF BufInv
<1>8. CASE AppendInPlace(target, p)
  <2> DEFINE c == mem[target.arr]
             d == Overwrite(c, target.off + target.len, p)
             m == [mem EXCEPT ![target.arr] = d]
  <2>1. /\ target # NilSlice
        /\ data' = [target EXCEPT !.len = target.len + Len(p)]
        /\ mem' = Collected(m)
    BY Zenon, <1>8 DEF AppendInPlace
  <2>2. /\ target \in Slice /\ target.arr \in Array
        /\ target.off \in Nat /\ target.len \in Nat
    BY Zenon, <1>1, <2>1 DEF SliceOrNil, Slice
  <2>3. /\ data' \in Slice /\ data'.arr = target.arr
        /\ data'.off = target.off /\ data'.len = target.len + Len(p)
    BY <1>5, <2>1, <2>2 DEF Slice
  <2>4. c \in Seq(Byte) /\ target.off + target.len <= Len(c)
    BY Zenon, <1>1, <1>3, <2>1, <2>2 DEF Within, BufTypeOK
  <2>5. /\ d \in Seq(Byte)
        /\ target.off + target.len + Len(p) <= Len(d)
        /\ SubSeq(d, target.off + 1, target.off + (target.len + Len(p)))
             = SubSeq(c, target.off + 1, target.off + target.len) \o p
    BY Zenon, <2>2, <2>4, OverwriteExtends
  <2>6. m \in [Array -> Seq(Byte)] /\ m[target.arr] = d
    BY Zenon, <1>3, <2>2, <2>5 DEF BufTypeOK
  <2>7. \A s \in {inFlight, rest, held} : Apart(data', s)
    BY Zenon, <1>1, <2>1, <2>3 DEF Apart
  <2>8. \A s \in {inFlight, rest, held} : s # NilSlice => m[s.arr] = mem[s.arr]
    <3>1. \A s \in {inFlight, rest, held} : s # NilSlice => s.arr # target.arr /\ s.arr \in Array
      BY Zenon, <1>1, <1>3, <2>1 DEF Apart, SliceOrNil, Slice, BufTypeOK
    <3> QED
      BY Zenon, <1>3, <3>1 DEF BufTypeOK
  <2>9. data' # NilSlice
    BY Zenon, <2>3, NilIsNoSlice DEF Slice
  <2>10. Denoted(mem, target) = SubSeq(c, target.off + 1, target.off + target.len)
    BY Zenon, <2>1 DEF Denoted
  <2> HIDE DEF c, d, m
  <2>11. Within(m, data')
    <3>1. Len(d) \in Nat
      BY Zenon, <2>5, LenProperties
    <3> QED
      BY SMTT(30), <1>5, <2>2, <2>3, <2>5, <2>6, <3>1 DEF Within
  <2>12. Denoted(m, data') = queue \o p
    BY Zenon, <1>1, <2>3, <2>5, <2>6, <2>9, <2>10 DEF Denoted
  <2> QED
    BY Zenon, <1>7, <2>1, <2>3, <2>6, <2>7, <2>8, <2>11, <2>12
<1>9. CASE AppendFresh(target, p)
  <2>1. PICK a \in Array \ Arrays({data, inFlight, spare, held}) :
        /\ data' = [arr |-> a, off |-> 0, len |-> SliceLen(target) + Len(p)]
        /\ mem' = Collected([mem EXCEPT ![a] = Denoted(mem, target) \o p])
    BY Zenon, <1>9 DEF AppendFresh
  <2> DEFINE d == queue \o p
             m == [mem EXCEPT ![a] = d]
  <2>2. mem' = Collected(m)
    BY Zenon, <1>1, <2>1
  <2>3. /\ queue \in Seq(Byte) /\ Len(queue) = SliceLen(target)
    BY Zenon, <1>1, <1>3, DenotedIsSeq DEF BufTypeOK
  <2>4. d \in Seq(Byte) /\ Len(d) = SliceLen(target) + Len(p)
    BY Zenon, <2>3, ConcatProperties
  <2>5. SubSeq(d, 1, Len(d)) = d /\ Len(d) \in Nat
    BY Zenon, <2>4, SubSeqFull, LenProperties
  <2>6. data' \in Slice /\ data'.arr = a /\ data'.off = 0 /\ data'.len = Len(d)
    BY Zenon, <2>1, <2>4, <2>5 DEF Slice
  <2>7. data' # NilSlice
    BY Zenon, <2>6, NilIsNoSlice DEF Slice
  <2>8. \A s \in {inFlight, spare, held} : s # NilSlice => s.arr # a
    BY Zenon, <2>1 DEF Arrays
  <2>9. \A s \in {inFlight, rest, held} : s # NilSlice => s.arr # a
    BY Zenon, <2>8 DEF rest
  <2>10. \A s \in {inFlight, rest, held} : Apart(data', s)
    BY Zenon, <2>6, <2>9 DEF Apart
  <2>11. \A s \in {inFlight, rest, held} : s # NilSlice => m[s.arr] = mem[s.arr]
    BY <1>1, <1>3, <2>9 DEF BufTypeOK, SliceOrNil, Slice
  <2>12. m \in [Array -> Seq(Byte)] /\ m[a] = d
    BY Zenon, <1>3, <2>4 DEF BufTypeOK
  <2> HIDE DEF m, d
  <2>13. Within(m, data')
    BY <2>5, <2>6, <2>12 DEF Within
  <2>14. Denoted(m, data') = d
    BY <2>5, <2>6, <2>7, <2>12 DEF Denoted
  <2> QED
    BY Zenon, <1>7, <2>2, <2>6, <2>10, <2>11, <2>12, <2>13, <2>14 DEF d
<1> QED
  BY Zenon, <1>2, <1>6, <1>8, <1>9

(* The full drain hands data out, and demotes inFlight, which its reader   *)
(* has given up by calling again, to spare.                                *)
LEMMA DrainStep ==
    ASSUME BufInv, Drain
    PROVE  BufInv'
<1> USE DEF BufInv, BufTypeOK
<1>1. /\ data' \in SliceOrNil /\ inFlight' \in SliceOrNil
      /\ spare' \in SliceOrNil /\ held' \in SliceOrNil
  BY Zenon DEF Drain, SliceOrNil
<1>2. /\ mem' \in [Array -> Seq(Byte)]
      /\ \A s \in {data', inFlight', spare', held'} :
              /\ Denoted(mem', s) = Denoted(mem, s)
              /\ Within(mem, s) => Within(mem', s)
  BY Zenon, <1>1, CollectedKeeps DEF Drain
<1>3. /\ spare' = inFlight /\ inFlight' = data /\ held' = data
      /\ data' = NilSlice /\ queue' = <<>> /\ heldBytes' = Denoted(mem, data)
  BY Zenon DEF Drain
<1>4. BufTypeOK'
  <2>1. heldBytes' \in Seq(Byte) /\ queue' \in Seq(Byte)
    BY Zenon, <1>3, DenotedIsSeq, EmptySeq DEF AllWithin
  <2> QED
    BY Zenon, <1>1, <1>2, <2>1
<1>5. Separate'
  BY Zenon, <1>3 DEF Separate, Apart
<1>6. AllWithin'
  <2>1. /\ Within(mem', data') /\ Within(mem', inFlight')
        /\ Within(mem', spare') /\ Within(mem', held')
    BY Zenon, <1>2, <1>3 DEF AllWithin, Within
  <2> QED
    BY Zenon, <2>1 DEF AllWithin, Within
<1>7. HeldIntact' /\ ContentsAreQueue'
  <2>1. Denoted(mem', held') = heldBytes' /\ Denoted(mem', data') = queue'
    BY Zenon, <1>2, <1>3 DEF Denoted
  <2> QED
    BY Zenon, <2>1 DEF HeldIntact, ContentsAreQueue, Denoted
<1> QED
  BY Zenon, <1>4, <1>5, <1>6, <1>7

(* Cutting a slice in two: its first n bytes, and the slice past them.     *)
LEMMA SliceSplit ==
    ASSUME NEW c \in Seq(Byte), NEW off \in Nat, NEW len \in Nat,
           NEW n \in Nat, n < len, off + len <= Len(c),
           NEW q, q = SubSeq(c, off + 1, off + len)
    PROVE  /\ SubSeq(q, 1, n) \in Seq(Byte) /\ Len(SubSeq(q, 1, n)) = n
           /\ SubSeq(q, n + 1, Len(q)) \in Seq(Byte)
           /\ SubSeq(q, n + 1, Len(q))
                = SubSeq(c, off + n + 1, off + n + (len - n))
<1>0. Len(c) \in Nat /\ \A i \in 1..Len(c) : c[i] \in Byte
  BY Zenon, LenProperties, ElementOfSeq
<1>1. q \in Seq(Byte) /\ Len(q) = len /\ \A i \in 1..len : q[i] = c[off + i]
  <2>1. \A i \in off + 1 .. off + len : c[i] \in Byte
    BY <1>0
  <2>2. /\ q \in Seq(Byte)
        /\ Len(q) = IF off + 1 <= off + len THEN off + len - (off + 1) + 1 ELSE 0
        /\ \A i \in 1 .. off + len - (off + 1) + 1 : q[i] = c[off + 1 + i - 1]
    <3>1. off + 1 \in Int /\ off + len \in Int
      OBVIOUS
    <3> QED
      BY ONLY SMTT(30), <2>1, <3>1, SubSeqProperties, q = SubSeq(c, off + 1, off + len)
  <2>3. off + len - (off + 1) + 1 = len /\ (off + 1 <= off + len <=> 1 <= len)
    OBVIOUS
  <2>4. Len(q) = len
    <3>1. Len(q) = IF 1 <= len THEN len ELSE 0
      BY Zenon, <2>2, <2>3
    <3> QED
      BY ONLY SMTT(30), <3>1, len \in Nat
  <2>5. ASSUME NEW i \in 1..len PROVE q[i] = c[off + i]
    <3>1. off + 1 + i - 1 = off + i
      OBVIOUS
    <3>2. q[i] = c[off + 1 + i - 1]
      BY Zenon, <2>2, <2>3
    <3> QED
      BY Zenon, <3>1, <3>2
  <2> QED
    BY Zenon, <2>2, <2>4, <2>5
<1>2. \A i \in 1..len : q[i] \in Byte
  BY Zenon, <1>1, ElementOfSeq
<1>3. SubSeq(q, 1, n) \in Seq(Byte) /\ Len(SubSeq(q, 1, n)) = n
  BY <1>2, SubSeqProperties
<1> DEFINE t == SubSeq(q, n + 1, len)
           u == SubSeq(c, off + n + 1, off + n + (len - n))
<1>4. /\ t \in Seq(Byte) /\ Len(t) = len - n
      /\ \A i \in 1 .. len - n : t[i] = q[n + i]
  <2>1. \A i \in n + 1 .. len : q[i] \in Byte
    BY <1>2
  <2>2. /\ t \in Seq(Byte)
        /\ Len(t) = IF n + 1 <= len THEN len - (n + 1) + 1 ELSE 0
        /\ \A i \in 1 .. len - (n + 1) + 1 : t[i] = q[n + 1 + i - 1]
    <3>1. n + 1 \in Int /\ len \in Int
      OBVIOUS
    <3> QED
      BY ONLY SMTT(30), <2>1, <3>1, SubSeqProperties
  <2>3. /\ len - (n + 1) + 1 = len - n /\ n + 1 <= len
        /\ \A i \in 1 .. len - n : n + 1 + i - 1 = n + i
    OBVIOUS
  <2> HIDE DEF t
  <2> QED
    BY ONLY Zenon, <2>2, <2>3
<1>5. /\ u \in Seq(Byte) /\ Len(u) = len - n
      /\ \A i \in 1 .. len - n : u[i] = c[off + n + i]
  <2>1. \A i \in off + n + 1 .. off + n + (len - n) : c[i] \in Byte
    BY <1>0
  <2>2. /\ u \in Seq(Byte)
        /\ Len(u) = IF off + n + 1 <= off + n + (len - n)
                    THEN off + n + (len - n) - (off + n + 1) + 1 ELSE 0
        /\ \A i \in 1 .. off + n + (len - n) - (off + n + 1) + 1 :
              u[i] = c[off + n + 1 + i - 1]
    <3>1. off + n + 1 \in Int /\ off + n + (len - n) \in Int
      OBVIOUS
    <3> QED
      BY ONLY SMTT(30), <2>1, <3>1, SubSeqProperties
  <2>3. /\ off + n + (len - n) - (off + n + 1) + 1 = len - n
        /\ off + n + 1 <= off + n + (len - n)
        /\ \A i \in 1 .. len - n : off + n + 1 + i - 1 = off + n + i
    OBVIOUS
  <2> HIDE DEF u
  <2>4. Len(u) = len - n
    BY Zenon, <2>2, <2>3
  <2>5. \A i \in 1 .. len - n : u[i] = c[off + n + i]
    BY ONLY Zenon, <2>2, <2>3
  <2> QED
    BY Zenon, <2>2, <2>4, <2>5
<1> HIDE DEF t, u
<1>6. \A i \in 1 .. Len(t) : t[i] = u[i]
  <2> SUFFICES ASSUME NEW i \in 1 .. len - n PROVE t[i] = u[i]
    BY Zenon, <1>4
  <2>1. n + i \in 1..len /\ off + (n + i) = off + n + i
    OBVIOUS
  <2> QED
    BY Zenon, <1>1, <1>4, <1>5, <2>1
<1>7. t = u
  BY Zenon, <1>4, <1>5, <1>6, SeqEqual
<1> QED
  BY Zenon, <1>1, <1>3, <1>4, <1>7 DEF t, u

(* Buffer.ReadN preserves the invariant when it returns only part of data: *)
(* the bytes it copies out are the first of the queue.                     *)
LEMMA ReadNStep ==
    ASSUME BufInv, NEW n \in Nat, ReadN(n)
    PROVE  BufInv'
<1>1. CASE n >= data.len
  BY <1>1, DrainStep DEF ReadN, BufInv, BufTypeOK, SliceOrNil, Slice, SliceLen
<1>2. CASE ~(n >= data.len)
  <2>1. data # NilSlice /\ data \in Slice
    BY DEF ReadN, SliceLen, BufInv, BufTypeOK, SliceOrNil
  <2>2. data.arr \in Array /\ data.off \in Nat /\ data.len \in Nat /\ n < data.len
    BY <1>2, <2>1 DEF Slice
  <2> DEFINE first == SubSeq(queue, 1, n)
  <2>3. /\ data' = [data EXCEPT !.off = data.off + n, !.len = data.len - n]
        /\ inFlight' = inFlight /\ spare' = spare
        /\ heldBytes' = first
        /\ queue' = SubSeq(queue, n + 1, Len(queue))
    BY Zenon, <1>2 DEF ReadN, BufInv, ContentsAreQueue
  <2>4. PICK a \in Array \ Arrays({data, inFlight, spare, held}) :
        /\ held' = [arr |-> a, off |-> 0, len |-> n]
        /\ mem' = Collected([mem EXCEPT ![a] = heldBytes'])
    BY Zenon, <1>2 DEF ReadN
  <2> DEFINE m == [mem EXCEPT ![a] = first]
             c == mem[data.arr]
  <2>5. c \in Seq(Byte) /\ data.off + data.len <= Len(c)
    BY Zenon, <2>1, <2>2 DEF BufInv, BufTypeOK, AllWithin, Within
  <2>6. queue = SubSeq(c, data.off + 1, data.off + data.len)
    BY Zenon, <2>1 DEF BufInv, ContentsAreQueue, Denoted
  <2>7. /\ first \in Seq(Byte) /\ Len(first) = n
        /\ queue' \in Seq(Byte)
        /\ queue' = SubSeq(c, data.off + n + 1, data.off + n + (data.len - n))
    <3>1. /\ SubSeq(queue, 1, n) \in Seq(Byte) /\ Len(SubSeq(queue, 1, n)) = n
          /\ SubSeq(queue, n + 1, Len(queue)) \in Seq(Byte)
          /\ SubSeq(queue, n + 1, Len(queue))
                = SubSeq(c, data.off + n + 1, data.off + n + (data.len - n))
      <4> HIDE DEF c, m, first
      <4>1. PICK off \in Nat, len \in Nat : off = data.off /\ len = data.len
        BY Zenon, <2>2
      <4>2. n < len /\ off + len <= Len(c)
        BY Zenon, <2>2, <2>5, <4>1
      <4>3. queue = SubSeq(c, off + 1, off + len)
        BY Zenon, <2>6, <4>1
      <4>4. /\ SubSeq(queue, 1, n) \in Seq(Byte) /\ Len(SubSeq(queue, 1, n)) = n
            /\ SubSeq(queue, n + 1, Len(queue)) \in Seq(Byte)
            /\ SubSeq(queue, n + 1, Len(queue))
                  = SubSeq(c, off + n + 1, off + n + (len - n))
        BY ONLY <2>5, <4>2, <4>3, SliceSplit
      <4> QED
        BY Zenon, <4>1, <4>4
    <3> QED
      BY Zenon, <2>3, <3>1
  <2>8. /\ data' \in Slice /\ data'.arr = data.arr
        /\ data'.off = data.off + n /\ data'.len = data.len - n
    <3>1. data.off + n \in Nat /\ data.len - n \in Nat
      BY <2>2
    <3> QED
      BY Zenon, <2>1, <2>3, <3>1 DEF Slice
  <2>9. held' \in Slice /\ held'.arr = a /\ held'.off = 0 /\ held'.len = n
    BY Zenon, <2>4 DEF Slice
  <2>10. data' # NilSlice /\ held' # NilSlice
    BY Zenon, <2>8, <2>9, NilIsNoSlice DEF Slice
  <2>11. \A s \in {data, inFlight, spare} : s # NilSlice => s.arr # a
    BY Zenon, <2>4 DEF Arrays
  <2>12. \A s \in {data, inFlight, spare} : s # NilSlice => m[s.arr] = mem[s.arr]
    BY <2>11 DEF BufInv, BufTypeOK, SliceOrNil, Slice
  <2>13. m \in [Array -> Seq(Byte)] /\ m[a] = first /\ mem' = Collected(m)
    BY Zenon, <2>3, <2>4, <2>7 DEF BufInv, BufTypeOK
  <2> HIDE DEF m, c, first
  <2>14. /\ data' \in SliceOrNil /\ inFlight' \in SliceOrNil
         /\ spare' \in SliceOrNil /\ held' \in SliceOrNil
    BY Zenon, <2>3, <2>8, <2>9 DEF BufInv, BufTypeOK, SliceOrNil
  <2>15. /\ mem' \in [Array -> Seq(Byte)]
         /\ \A s \in {data', inFlight', spare', held'} :
                /\ Denoted(mem', s) = Denoted(m, s)
                /\ Within(m, s) => Within(mem', s)
    BY Zenon, <2>13, <2>14, CollectedKeeps
  <2>16. BufTypeOK'
    BY Zenon, <2>3, <2>7, <2>14, <2>15 DEF BufTypeOK
  <2>17. Separate'
    BY Zenon, <2>1, <2>3, <2>8, <2>9, <2>11 DEF BufInv, Separate, Apart
  <2>18. m[data.arr] = c
    BY Zenon, <2>1, <2>12 DEF c
  <2>19. Within(m, data') /\ Within(m, held')
    <3>1. Len(c) \in Nat
      BY Zenon, <2>5, LenProperties
    <3>2. data'.off + data'.len <= Len(m[data'.arr])
      <4>1. data'.off + data'.len = data.off + data.len
        BY <2>2, <2>8
      <4> QED
        BY Zenon, <2>5, <2>8, <2>18, <4>1
    <3>3. held'.off + held'.len <= Len(m[held'.arr])
      BY <2>7, <2>9, <2>13
    <3> QED
      BY Zenon, <3>2, <3>3 DEF Within
  <2>20. Within(m, inFlight') /\ Within(m, spare')
    BY Zenon, <2>3, <2>12 DEF Within, BufInv, AllWithin
  <2>21. AllWithin'
    <3>1. /\ Within(mem', data') /\ Within(mem', inFlight')
          /\ Within(mem', spare') /\ Within(mem', held')
      BY Zenon, <2>15, <2>19, <2>20
    <3> QED
      BY Zenon, <3>1 DEF AllWithin, Within
  <2>22. Denoted(m, data') = queue'
    BY Zenon, <2>7, <2>8, <2>10, <2>18 DEF Denoted
  <2>23. Denoted(m, held') = first
    <3>1. SubSeq(first, 0 + 1, 0 + n) = first
      BY <2>7, SubSeqFull
    <3> QED
      BY Zenon, <2>9, <2>10, <2>13, <3>1 DEF Denoted
  <2>24. HeldIntact' /\ ContentsAreQueue'
    <3>1. Denoted(mem', held') = heldBytes' /\ Denoted(mem', data') = queue'
      BY Zenon, <2>3, <2>15, <2>22, <2>23
    <3> QED
      BY Zenon, <3>1 DEF HeldIntact, ContentsAreQueue, Denoted
  <2> QED
    BY Zenon, <2>16, <2>17, <2>21, <2>24 DEF BufInv
<1> QED
  BY Zenon, <1>1, <1>2

(* The invariant holds of every reachable state of the buffer.             *)
LEMMA BufInvariance == BufSpec => []BufInv
<1>1. BufInit => BufInv
  BY Zenon, EmptySeq DEF BufInit, BufInv, BufTypeOK, Separate, AllWithin, Apart, Within,
     HeldIntact, ContentsAreQueue, Denoted, SliceOrNil
<1>2. BufInv /\ [BufNext]_memVars => BufInv'
  <2> SUFFICES ASSUME BufInv, [BufNext]_memVars PROVE BufInv'
    BY Zenon
  <2>1. ASSUME NEW p \in Payload, Write(p) PROVE BufInv'
    BY Zenon, <2>1, WrittenIsSeq, WriteStep
  <2>2. CASE Read
    BY Zenon, <2>2, DrainStep DEF Read
  <2>3. ASSUME NEW n \in 0..MaxLen, ReadN(n) PROVE BufInv'
    BY <2>3, ReadNStep, BoundsAreNat
  <2>4. CASE UNCHANGED memVars
    BY Zenon, <2>4 DEF memVars, BufInv, BufTypeOK, Separate, AllWithin, Apart, Within,
       HeldIntact, ContentsAreQueue, Denoted
  <2> QED
    BY Zenon, <2>1, <2>2, <2>3, <2>4 DEF BufNext
<1> QED
  BY <1>1, <1>2, PTL DEF BufSpec

(* However the writer and the reader interleave, whatever the sizes of the *)
(* writes and reads, and however append grows the arrays: the bytes the    *)
(* last Read or ReadN handed out are never overwritten by later writes.    *)
THEOREM HeldIntactCorrect == BufSpec => []HeldIntact
<1>1. BufInv => HeldIntact
  BY Zenon DEF BufInv
<1> QED
  BY <1>1, BufInvariance, PTL

(* The buffer is a first-in first-out queue of bytes for any sequence of   *)
(* Write, Read and ReadN: data denotes the bytes written and not yet read. *)
THEOREM ContentsAreQueueCorrect == BufSpec => []ContentsAreQueue
<1>1. BufInv => ContentsAreQueue
  BY Zenon DEF BufInv
<1> QED
  BY <1>1, BufInvariance, PTL

-----------------------------------------------------------------------------
(* A read takes n bytes off the front of a sequence and leaves the rest.   *)
LEMMA Cut ==
    ASSUME NEW S, NEW s \in Seq(S), NEW n \in 1..Len(s)
    PROVE  /\ SubSeq(s, 1, n) \in Seq(S)
           /\ SubSeq(s, n + 1, Len(s)) \in Seq(S)
           /\ SubSeq(s, 1, n) \o SubSeq(s, n + 1, Len(s)) = s
<1>1. SubSeq(s, 1, n) \in Seq(S) /\ SubSeq(s, n + 1, Len(s)) \in Seq(S)
  OBVIOUS
<1>2. SubSeq(s, 1, n) \o SubSeq(s, n + 1, Len(s)) = SubSeq(s, 1, Len(s))
  <2>1. 1 \in 1..Len(s) + 1 /\ n \in 1 - 1..Len(s) /\ Len(s) \in n..Len(s)
    OBVIOUS
  <2> QED
    BY Zenon, <2>1, ConcatAdjacentSubSeq
<1>3. SubSeq(s, 1, Len(s)) = s
  BY Zenon, SubSeqFull
<1> QED
  BY Zenon, <1>1, <1>2, <1>3

(* Cutting a concatenation at the seam gives back its parts.               *)
LEMMA Seam ==
    ASSUME NEW S, NEW s \in Seq(S), NEW t \in Seq(S)
    PROVE  /\ s \o t \in Seq(S)
           /\ Len(s \o t) = Len(s) + Len(t)
           /\ SubSeq(s \o t, 1, Len(s)) = s
           /\ SubSeq(s \o t, Len(s) + 1, Len(s \o t)) = t
OBVIOUS

(* Appending to the last part of a concatenation appends to the whole.     *)
LEMMA AppendLast ==
    ASSUME NEW S, NEW s \in Seq(S), NEW t \in Seq(S), NEW e \in S
    PROVE  s \o Append(t, e) = Append(s \o t, e)
<1>1. Append(t, e) = t \o <<e>> /\ <<e>> \in Seq(S)
  BY AppendIsConcat
<1>2. s \o t \in Seq(S) /\ Append(s \o t, e) = (s \o t) \o <<e>>
  BY Zenon, Seam, AppendIsConcat
<1> QED
  BY <1>1, <1>2, ConcatAssociative

(* Counting one further.                                                   *)
LEMMA CountOn ==
    ASSUME NEW n \in Nat
    PROVE  Append([i \in 1..n |-> i], n + 1) = [i \in 1..n + 1 |-> i]
OBVIOUS

-----------------------------------------------------------------------------
(* Every step keeps the types and the channel capacities.                  *)
LEMMA TypeStep == TypeOK /\ [Next]_vars => TypeOK'
<1> SUFFICES ASSUME TypeOK, [Next]_vars PROVE TypeOK'
  BY Zenon
<1> USE SizesPositive, WatermarksPositive DEF TypeOK, Bytes,
        readVars, batchVars, bufVars, castVars, emuVars, downVars
<1>1. CASE ChildWrite
  <2>1. Produced + 1 \in Bytes
    BY DEF Produced
  <2>2. tty' \in Seq(Bytes)
    BY <1>1, <2>1 DEF ChildWrite
  <2> QED
    BY <1>1, <2>2 DEF ChildWrite
<1>2. CASE ChildExit
  BY Zenon, <1>2 DEF ChildExit
<1>3. CASE AudienceChange
  BY <1>3 DEF AudienceChange
<1>4. CASE LoopHead
  BY Zenon, <1>4 DEF LoopHead
<1>5. CASE LoopRead
  <2>1. PICK n \in 1..ReadChunk :
             /\ n <= Len(tty)
             /\ tty' = SubSeq(tty, n + 1, Len(tty))
             /\ Add(SubSeq(tty, 1, n))
             /\ SendEmulator(SubSeq(tty, 1, n))
    BY Zenon, <1>5 DEF LoopRead
  <2>2. SubSeq(tty, 1, n) \in Seq(Bytes) /\ tty' \in Seq(Bytes)
    <3>1. tty \in Seq(Bytes) /\ n \in 1..Len(tty)
      BY <2>1
    <3> HIDE DEF Bytes, TypeOK
    <3> QED
      BY Zenon, <2>1, <3>1, Cut
  <2>3. batch' \in Seq(Bytes) /\ flushSig' \in BOOLEAN
    BY <2>1, <2>2 DEF Add
  <2>4. emuCh' \in Seq(Seq(Bytes)) /\ Len(emuCh') <= EmuCap
    BY SMTT(30), <2>1, <2>2 DEF SendEmulator
  <2>5. late' \in Nat /\ readPc' = "check"
    <3>1. late' = (IF paused THEN late + 1 ELSE late) /\ readPc' = "check"
      BY Zenon, <1>5 DEF LoopRead
    <3> QED
      BY <3>1
  <2> QED
    BY Zenon, <1>5, <2>1, <2>2, <2>3, <2>4, <2>5 DEF LoopRead, Add, SendEmulator
<1>6. CASE LoopEnd
  BY Zenon, <1>6 DEF LoopEnd
<1>7. CASE EmulatorLoop
  <2>1. Head(emuCh) \in Seq(Bytes) /\ Tail(emuCh) \in Seq(Seq(Bytes))
        /\ Len(Tail(emuCh)) <= EmuCap
    BY <1>7 DEF EmulatorLoop
  <2>2. screen' \in Seq(Bytes)
    BY Zenon, <1>7, <2>1 DEF EmulatorLoop
  <2> QED
    BY <1>7, <2>1, <2>2 DEF EmulatorLoop
<1>8. CASE BatchSignal
  <2>1. CASE batch = <<>>
    BY Zenon, <1>8, <2>1 DEF BatchSignal
  <2>2. CASE batch # <<>>
    <3>1. flushing' = batch /\ batch' = <<>> /\ batchPc' = "flush" /\ flushSig' = FALSE
      BY Zenon, <1>8, <2>2 DEF BatchSignal, TakeBatch
    <3>2. flushing' \in Seq(Bytes) /\ batch' \in Seq(Bytes)
      BY <3>1
    <3> QED
      BY Zenon, <1>8, <3>1, <3>2 DEF BatchSignal
  <2> QED
    BY Zenon, <2>1, <2>2
<1>9. CASE BatchTick
  BY <1>9 DEF BatchTick, TakeBatch
<1>10. CASE OnFlush
  <2>1. buf' \in Seq(Bytes) /\ paused' \in BOOLEAN /\ dataReady' \in 0..DataReadyCap
    BY <1>10 DEF OnFlush, PauseAt
  <2> QED
    BY SMTT(30), <1>10, <2>1 DEF OnFlush
<1>11. CASE BatchDone
  BY <1>11 DEF BatchDone
<1>12. CASE FlushOnSignal
  BY SMTT(30), <1>12 DEF FlushOnSignal
<1>13. CASE FlushOnTick
  BY <1>13 DEF FlushOnTick
<1>14. CASE ReadOutput
  <2>1. CASE registered /\ buf # <<>>
    <3>1. drained' = drained \o buf /\ buf' = <<>>
      BY Zenon, <1>14, <2>1 DEF ReadOutput
    <3>2. paused' \in BOOLEAN
      BY Zenon, <1>14, <2>1 DEF ReadOutput, checkResume
    <3>3. late' \in Nat
      BY SMTT(30), <1>14, <2>1 DEF ReadOutput
    <3>4. drained' \in Seq(Bytes) /\ buf' \in Seq(Bytes)
      BY <3>1
    <3> QED
      BY <1>14, <3>2, <3>3, <3>4 DEF ReadOutput
  <2>2. CASE ~(registered /\ buf # <<>>)
    BY SMTT(30), <1>14, <2>2 DEF ReadOutput
  <2> QED
    BY Zenon, <2>1, <2>2
<1>15. CASE WaitExited
  BY Zenon, <1>15 DEF WaitExited
<1>16. CASE WaitStop
  BY <1>16 DEF WaitStop
<1>17. CASE WaitClose
  BY Zenon, <1>17 DEF WaitClose
<1>18. CASE Kill
  BY Zenon, <1>18 DEF Kill
<1>19. CASE KillStop
  BY Zenon, <1>19 DEF KillStop
<1>20. CASE KillClose
  BY Zenon, <1>20 DEF KillClose
<1>21. CASE UNCHANGED vars
  BY <1>21 DEF vars
<1> QED
  BY Zenon, <1>1, <1>2, <1>3, <1>4, <1>5, <1>6, <1>7, <1>8, <1>9, <1>10, <1>11,
     <1>12, <1>13, <1>14, <1>15, <1>16, <1>17, <1>18, <1>19, <1>20, <1>21
     DEF Next, ReadLoop, BatchLoop, Broadcaster, WaitLoop

(* Only onFlush holds bytes outside the batch and the buffer, and a read   *)
(* that returned after the pause leaves readLoop before the Paused check.  *)
IInv ==
    /\ TypeOK
    /\ batchPc # "flush" => flushing = <<>>
    /\ ~paused => late = 0
    /\ readPc = "read" => late = 0
    /\ OneLateRead

(* Every step keeps the inductive invariant.                               *)
LEMMA IInvStep == IInv /\ [Next]_vars => IInv'
<1> SUFFICES ASSUME IInv, [Next]_vars PROVE IInv'
  BY Zenon
<1>0. TypeOK'
  BY Zenon, TypeStep DEF IInv
<1> USE <1>0 DEF IInv, OneLateRead,
        readVars, batchVars, bufVars, castVars, emuVars, downVars
<1>1. CASE ChildWrite
  BY Zenon, <1>1 DEF ChildWrite
<1>2. CASE ChildExit
  BY Zenon, <1>2 DEF ChildExit
<1>3. CASE AudienceChange
  BY Zenon, <1>3 DEF AudienceChange
<1>4. CASE LoopHead
  BY Zenon, <1>4 DEF LoopHead
<1>5. CASE LoopRead
  BY SMTT(30), <1>5 DEF LoopRead, TypeOK, Add
<1>6. CASE LoopEnd
  BY Zenon, <1>6 DEF LoopEnd
<1>7. CASE EmulatorLoop
  BY Zenon, <1>7 DEF EmulatorLoop
<1>8. CASE BatchSignal
  BY Zenon, <1>8 DEF BatchSignal, TakeBatch
<1>9. CASE BatchTick
  BY Zenon, <1>9 DEF BatchTick, TakeBatch
<1>10. CASE OnFlush
  BY Zenon, <1>10 DEF OnFlush, PauseAt
<1>11. CASE BatchDone
  BY Zenon, <1>11 DEF BatchDone
<1>12. CASE FlushOnSignal
  BY Zenon, <1>12 DEF FlushOnSignal
<1>13. CASE FlushOnTick
  BY Zenon, <1>13 DEF FlushOnTick
<1>14. CASE ReadOutput
  BY SMTT(30), <1>14 DEF ReadOutput, checkResume, TypeOK
<1>15. CASE WaitExited
  BY Zenon, <1>15 DEF WaitExited
<1>16. CASE WaitStop
  BY Zenon, <1>16 DEF WaitStop
<1>17. CASE WaitClose
  BY Zenon, <1>17 DEF WaitClose
<1>18. CASE Kill
  BY Zenon, <1>18 DEF Kill
<1>19. CASE KillStop
  BY Zenon, <1>19 DEF KillStop
<1>20. CASE KillClose
  BY Zenon, <1>20 DEF KillClose
<1>21. CASE UNCHANGED vars
  BY Zenon, <1>21 DEF vars
<1> QED
  BY Zenon, <1>1, <1>2, <1>3, <1>4, <1>5, <1>6, <1>7, <1>8, <1>9, <1>10, <1>11,
     <1>12, <1>13, <1>14, <1>15, <1>16, <1>17, <1>18, <1>19, <1>20, <1>21
     DEF Next, ReadLoop, BatchLoop, Broadcaster, WaitLoop

(* Nothing is on the way at the start.                                     *)
LEMMA InitHolds == Init => IInv
<1> SUFFICES ASSUME Init PROVE IInv
  BY Zenon
<1>1. TypeOK
  <2>1. <<>> \in Seq(Bytes) /\ <<>> \in Seq(Seq(Bytes)) /\ Len(<<>>) = 0
    BY Zenon, EmptySeq
  <2>2. {ptyOpen, flushSig, stopped, paused, registered, emuClosed} \subseteq BOOLEAN
    BY Zenon DEF Init
  <2>3. {tty, batch, flushing, buf, drained, screen} \subseteq Seq(Bytes)
    BY Zenon, <2>1 DEF Init
  <2>4. dataReady \in 0..DataReadyCap /\ emuCh \in Seq(Seq(Bytes)) /\ Len(emuCh) <= EmuCap
    BY <2>1, SizesPositive DEF Init
  <2> QED
    BY Zenon, <2>2, <2>3, <2>4 DEF Init, TypeOK
<1> QED
  BY <1>1 DEF Init, IInv, OneLateRead

(* The inductive invariant holds throughout.                               *)
LEMMA Invariance == Spec => []IInv
BY InitHolds, IInvStep, PTL DEF Spec

(* The pipeline is always well typed and no channel exceeds its capacity.  *)
THEOREM TypeCorrect == Spec => []TypeOK
BY Invariance, PTL DEF IInv

(* Backpressure lets at most one PTY read through after the buffer became  *)
(* paused, for any watermarks and sizes.                                   *)
THEOREM OneLateReadCorrect == Spec => []OneLateRead
BY Invariance, PTL DEF IInv
-----------------------------------------------------------------------------
(* What is on the way, oldest byte first.                                  *)
Pending == buf \o (flushing \o (batch \o tty))

(* Concatenation of byte sequences: type and length.                       *)
LEMMA Concat ==
    \A s, t \in Seq(Bytes) : s \o t \in Seq(Bytes) /\ Len(s \o t) = Len(s) + Len(t)
BY Zenon, ConcatProperties

(* Concatenation of byte sequences: brackets do not matter.                *)
LEMMA Assoc == \A s, t, u \in Seq(Bytes) : (s \o t) \o u = s \o (t \o u)
BY SMTT(30), ConcatAssociative

PartsAreSeqs ==
    /\ tty \in Seq(Bytes) /\ batch \in Seq(Bytes) /\ flushing \in Seq(Bytes)
    /\ buf \in Seq(Bytes) /\ drained \in Seq(Bytes)
    /\ batch \o tty \in Seq(Bytes) /\ flushing \o (batch \o tty) \in Seq(Bytes)
    /\ Pending \in Seq(Bytes)
    /\ Produced = Len(drained) + Len(Pending)

(* The parts of the pipeline are sequences of bytes, and so is the whole.  *)
LEMMA PendingType == TypeOK => PartsAreSeqs
<1> SUFFICES ASSUME TypeOK PROVE PartsAreSeqs
  BY Zenon
<1>1. /\ tty \in Seq(Bytes) /\ batch \in Seq(Bytes) /\ flushing \in Seq(Bytes)
      /\ buf \in Seq(Bytes) /\ drained \in Seq(Bytes)
  BY Zenon DEF TypeOK
<1>2. batch \o tty \in Seq(Bytes) /\ Len(batch \o tty) = Len(batch) + Len(tty)
  BY Zenon, <1>1, Concat
<1>3. /\ flushing \o (batch \o tty) \in Seq(Bytes)
      /\ Len(flushing \o (batch \o tty)) = Len(flushing) + Len(batch \o tty)
  BY Zenon, <1>1, <1>2, Concat
<1>4. Pending \in Seq(Bytes) /\ Len(Pending) = Len(buf) + Len(flushing \o (batch \o tty))
  BY Zenon, <1>1, <1>3, Concat DEF Pending
<1>5. /\ Len(drained) \in Nat /\ Len(buf) \in Nat /\ Len(flushing) \in Nat
      /\ Len(batch) \in Nat /\ Len(tty) \in Nat
  BY Zenon, <1>1, LenProperties
<1> QED
  BY <1>1, <1>2, <1>3, <1>4, <1>5 DEF Produced, PartsAreSeqs

(* readLoop moves bytes from the PTY to the batch.                         *)
LEMMA ReadMoves == TypeOK /\ LoopRead => Pending' = Pending /\ UNCHANGED <<drained, registered>>
<1> SUFFICES ASSUME TypeOK, LoopRead
             PROVE  Pending' = Pending /\ UNCHANGED <<drained, registered>>
  BY Zenon
<1>1. PICK n \in 1..ReadChunk :
           /\ n <= Len(tty)
           /\ tty' = SubSeq(tty, n + 1, Len(tty))
           /\ Add(SubSeq(tty, 1, n))
  BY Zenon DEF LoopRead
<1> DEFINE x == SubSeq(tty, 1, n)
<1>2. tty \in Seq(Bytes) /\ batch \in Seq(Bytes)
  BY Zenon, PendingType DEF PartsAreSeqs
<1>3. n \in 1..Len(tty)
  BY <1>1, <1>2
<1>4. x \in Seq(Bytes) /\ tty' \in Seq(Bytes) /\ x \o tty' = tty
  BY Zenon, <1>1, <1>2, <1>3, Cut
<1>5. batch' = batch \o x /\ UNCHANGED <<flushing, buf, drained, registered>>
  BY Zenon, <1>1 DEF LoopRead, Add, bufVars, castVars, downVars
<1> HIDE DEF x
<1>6. (batch \o x) \o tty' = batch \o (x \o tty')
  BY <1>2, <1>4, Assoc, Zenon
<1>7. batch' \o tty' = batch \o tty
  BY Zenon, <1>4, <1>5, <1>6
<1> QED
  BY Zenon, <1>5, <1>7 DEF Pending

(* doFlush moves the batch to onFlush.                                     *)
LEMMA TakeMoves ==
    IInv /\ (BatchSignal \/ BatchTick) => Pending' = Pending /\ UNCHANGED <<drained, registered>>
<1> SUFFICES ASSUME IInv, BatchSignal \/ BatchTick
             PROVE  Pending' = Pending /\ UNCHANGED <<drained, registered>>
  BY Zenon
<1>1. UNCHANGED <<buf, tty, drained, registered>> /\ flushing = <<>>
  BY Zenon DEF BatchSignal, BatchTick, IInv, bufVars, castVars, downVars
<1>2. CASE UNCHANGED <<batch, flushing>>
  BY Zenon, <1>1, <1>2 DEF Pending
<1>3. CASE flushing' = batch /\ batch' = <<>>
  <2>1. tty \in Seq(Bytes) /\ batch \o tty \in Seq(Bytes)
    BY Zenon, PendingType DEF IInv, PartsAreSeqs
  <2>2. <<>> \o tty = tty /\ <<>> \o (batch \o tty) = batch \o tty
    BY Zenon, <2>1, ConcatEmptySeq
  <2> QED
    BY Zenon, <1>1, <1>3, <2>2 DEF Pending
<1> QED
  BY Zenon, <1>2, <1>3 DEF BatchSignal, BatchTick, TakeBatch

(* onFlush moves its bytes to the end of the buffer.                       *)
LEMMA FlushMoves == TypeOK /\ OnFlush => Pending' = Pending /\ UNCHANGED <<drained, registered>>
<1> SUFFICES ASSUME TypeOK, OnFlush
             PROVE  Pending' = Pending /\ UNCHANGED <<drained, registered>>
  BY Zenon
<1>1. UNCHANGED <<batch, tty, drained, registered>> /\ buf' = buf \o flushing /\ flushing' = <<>>
  BY Zenon DEF OnFlush, castVars, downVars
<1> DEFINE rest == batch \o tty
<1>2. buf \in Seq(Bytes) /\ flushing \in Seq(Bytes) /\ rest \in Seq(Bytes)
  BY Zenon, PendingType DEF PartsAreSeqs
<1>3. Pending = buf \o (flushing \o rest) /\ Pending' = buf' \o (flushing' \o rest)
  BY Zenon, <1>1 DEF Pending
<1> HIDE DEF rest
<1>4. <<>> \o rest = rest
  BY Zenon, <1>2, ConcatEmptySeq
<1>5. (buf \o flushing) \o rest = buf \o (flushing \o rest)
  BY <1>2, Assoc, Zenon
<1> QED
  BY Zenon, <1>1, <1>3, <1>4, <1>5

(* What the child writes goes to the end.                                  *)
LEMMA WriteAppends ==
    TypeOK /\ ChildWrite =>
        /\ Pending' = Append(Pending, Len(drained) + Len(Pending) + 1)
        /\ UNCHANGED <<drained, registered>>
<1> SUFFICES ASSUME TypeOK, ChildWrite
             PROVE  /\ Pending' = Append(Pending, Len(drained) + Len(Pending) + 1)
                    /\ UNCHANGED <<drained, registered>>
  BY Zenon
<1>1. tty' = Append(tty, Produced + 1) /\ UNCHANGED <<buf, flushing, batch, drained, registered>>
  BY Zenon DEF ChildWrite, batchVars, bufVars, castVars, downVars
<1>2. PartsAreSeqs
  BY Zenon, PendingType
<1> DEFINE n == Produced + 1
<1>3. n \in Bytes
  BY LenProperties, <1>2 DEF Bytes, PartsAreSeqs
<1> HIDE DEF n
<1>4. batch \o Append(tty, n) = Append(batch \o tty, n)
  BY SMTT(30), <1>2, <1>3, AppendLast DEF PartsAreSeqs
<1>5. flushing \o Append(batch \o tty, n) = Append(flushing \o (batch \o tty), n)
  <2> DEFINE rest == batch \o tty
  <2>1. flushing \in Seq(Bytes) /\ rest \in Seq(Bytes)
    BY Zenon, <1>2 DEF PartsAreSeqs
  <2> HIDE DEF rest
  <2>2. flushing \o Append(rest, n) = Append(flushing \o rest, n)
    BY <1>3, <2>1, AppendLast
  <2> QED
    BY Zenon, <2>2 DEF rest
<1>6. buf \o Append(flushing \o (batch \o tty), n) = Append(Pending, n)
  <2> DEFINE rest == flushing \o (batch \o tty)
  <2>1. buf \in Seq(Bytes) /\ rest \in Seq(Bytes)
    BY Zenon, <1>2 DEF PartsAreSeqs
  <2> HIDE DEF rest
  <2>2. buf \o Append(rest, n) = Append(buf \o rest, n)
    BY <1>3, <2>1, AppendLast
  <2> QED
    BY Zenon, <2>2 DEF Pending, rest
<1> QED
  BY Zenon, <1>1, <1>2, <1>4, <1>5, <1>6 DEF Pending, PartsAreSeqs, n

(* ReadOutput takes the buffer, the oldest part of what is on the way.     *)
LEMMA ReadTakes ==
    TypeOK /\ ReadOutput =>
        \/ Pending' = Pending /\ UNCHANGED <<drained, registered>>
        \/ /\ registered /\ UNCHANGED registered
           /\ Len(buf) \in 1..Len(Pending)
           /\ drained' = drained \o SubSeq(Pending, 1, Len(buf))
           /\ Pending' = SubSeq(Pending, Len(buf) + 1, Len(Pending))
<1> SUFFICES ASSUME TypeOK, ReadOutput
             PROVE  \/ Pending' = Pending /\ UNCHANGED <<drained, registered>>
                    \/ /\ registered /\ UNCHANGED registered
                       /\ Len(buf) \in 1..Len(Pending)
                       /\ drained' = drained \o SubSeq(Pending, 1, Len(buf))
                       /\ Pending' = SubSeq(Pending, Len(buf) + 1, Len(Pending))
  BY Zenon
<1>1. UNCHANGED <<flushing, batch, tty, registered>>
  BY Zenon DEF ReadOutput, batchVars, downVars
<1>2. CASE registered /\ buf # <<>>
  <2>1. drained' = drained \o buf /\ buf' = <<>>
    BY Zenon, <1>2 DEF ReadOutput
  <2> DEFINE rest == flushing \o (batch \o tty)
  <2>2. buf \in Seq(Bytes) /\ rest \in Seq(Bytes)
    BY Zenon, PendingType DEF PartsAreSeqs
  <2>3. Pending = buf \o rest
    BY Zenon DEF Pending
  <2>4. Pending' = rest
    BY Zenon, <1>1, <2>1, <2>2, ConcatEmptySeq DEF Pending
  <2> HIDE DEF rest
  <2>5. /\ Len(Pending) = Len(buf) + Len(rest) /\ SubSeq(Pending, 1, Len(buf)) = buf
        /\ SubSeq(Pending, Len(buf) + 1, Len(Pending)) = rest
    BY <2>2, <2>3, Seam
  <2>6. Len(buf) \in 1..Len(Pending)
    BY <1>2, <2>2, <2>5, LenProperties, EmptySeq
  <2> QED
    BY Zenon, <1>1, <1>2, <2>1, <2>4, <2>5, <2>6
<1>3. CASE ~(registered /\ buf # <<>>)
  BY Zenon, <1>1, <1>3 DEF ReadOutput, Pending
<1> QED
  BY Zenon, <1>2, <1>3

(* Every step of the goroutines is a step of the abstract stream, or none. *)
LEMMA StepIsStreamStep == IInv /\ [Next]_vars => [Stream!Next]_(Stream!streamVars)
<1> SUFFICES ASSUME IInv, [Next]_vars PROVE [Stream!Next]_(Stream!streamVars)
  BY Zenon
<1> USE DEF Pending, Stream!streamVars
<1>1. CASE ChildWrite
  BY Zenon, <1>1, WriteAppends DEF IInv, Stream!Next, Stream!Produce
<1>2. CASE LoopRead
  BY Zenon, <1>2, ReadMoves DEF IInv
<1>3. CASE BatchSignal \/ BatchTick
  BY Zenon, <1>3, TakeMoves
<1>4. CASE OnFlush
  BY Zenon, <1>4, FlushMoves DEF IInv
<1>5. CASE ReadOutput
  <2>1. CASE Pending' = Pending /\ UNCHANGED <<drained, registered>>
    BY Zenon, <2>1
  <2>2. CASE /\ registered /\ UNCHANGED registered
             /\ Len(buf) \in 1..Len(Pending)
             /\ drained' = drained \o SubSeq(Pending, 1, Len(buf))
             /\ Pending' = SubSeq(Pending, Len(buf) + 1, Len(Pending))
    BY Zenon, <2>2 DEF Stream!Next, Stream!Deliver
  <2> QED
    BY Zenon, <1>5, <2>1, <2>2, ReadTakes DEF IInv
<1>6. CASE WaitExited \/ Kill
  BY Zenon, <1>6 DEF WaitExited, Kill, batchVars, bufVars, castVars, Stream!Next, Stream!Close
<1> USE DEF readVars, batchVars, bufVars, castVars, emuVars, downVars
<1>7. CASE ChildExit
  BY Zenon, <1>7 DEF ChildExit
<1>8. CASE AudienceChange
  BY Zenon, <1>8 DEF AudienceChange
<1>9. CASE LoopHead
  BY Zenon, <1>9 DEF LoopHead
<1>10. CASE LoopEnd
  BY Zenon, <1>10 DEF LoopEnd
<1>11. CASE EmulatorLoop
  BY Zenon, <1>11 DEF EmulatorLoop
<1>12. CASE BatchDone
  BY Zenon, <1>12 DEF BatchDone
<1>13. CASE FlushOnSignal
  BY Zenon, <1>13 DEF FlushOnSignal
<1>14. CASE FlushOnTick
  BY Zenon, <1>14 DEF FlushOnTick
<1>15. CASE WaitStop
  BY Zenon, <1>15 DEF WaitStop
<1>16. CASE WaitClose
  BY Zenon, <1>16 DEF WaitClose
<1>17. CASE KillStop
  BY Zenon, <1>17 DEF KillStop
<1>18. CASE KillClose
  BY Zenon, <1>18 DEF KillClose
<1>19. CASE UNCHANGED vars
  BY Zenon, <1>19 DEF vars
<1> QED
  BY Zenon, <1>1, <1>2, <1>3, <1>4, <1>5, <1>6, <1>7, <1>8, <1>9, <1>10,
     <1>11, <1>12, <1>13, <1>14, <1>15, <1>16, <1>17, <1>18, <1>19
     DEF Next, ReadLoop, BatchLoop, Broadcaster, WaitLoop

(* The five goroutines of a session implement a FIFO stream from the child *)
(* to the broadcaster that ends when the session leaves the map.           *)
THEOREM StreamImplemented == Spec => ImplementsByteStream
<1>1. Init => Stream!Init
  <2>1. <<>> \o <<>> = <<>>
    BY Zenon, EmptySeq, ConcatEmptySeq
  <2> QED
    BY Zenon, <2>1 DEF Init, Stream!Init
<1> QED
  BY <1>1, Invariance, StepIsStreamStep, PTL DEF Spec, ImplementsByteStream, Stream!Spec

(* A step of the stream keeps the count.                                   *)
LEMMA InOrderStep == IInv /\ IInv' /\ InOrder /\ [Next]_vars => InOrder'
<1> SUFFICES ASSUME IInv, IInv', InOrder, [Next]_vars PROVE InOrder'
  BY Zenon
<1>1. [Stream!Next]_(Stream!streamVars)
  BY Zenon, StepIsStreamStep
<1>2. /\ drained \in Seq(Bytes) /\ Pending \in Seq(Bytes)
      /\ Produced = Len(drained) + Len(Pending) /\ Produced \in Nat
  BY PendingType, LenProperties DEF IInv, PartsAreSeqs
<1>3. Produced' = Len(drained') + Len(Pending')
  <2>1. TypeOK'
    BY Zenon DEF IInv
  <2>2. PartsAreSeqs'
    BY <2>1, PendingType, PTL
  <2> QED
    BY Zenon, <2>2 DEF PartsAreSeqs
<1>4. CASE UNCHANGED <<drained, Pending>>
  BY Zenon, <1>2, <1>3, <1>4 DEF InOrder, Pending
<1>5. CASE Stream!Produce
  <2>1. drained' = drained /\ Pending' = Append(Pending, Produced + 1)
    BY Zenon, <1>2, <1>5 DEF Stream!Produce, Pending
  <2>2. Produced + 1 \in Bytes
    BY <1>2 DEF Bytes
  <2>3. drained \o Pending' = Append(drained \o Pending, Produced + 1)
    BY SMTT(30), <1>2, <2>1, <2>2, AppendLast
  <2>4. Produced' = Produced + 1
    BY <1>2, <1>3, <2>1, <2>2, AppendProperties, LenProperties
  <2> QED
    BY Zenon, <1>2, <2>1, <2>3, <2>4, CountOn DEF InOrder, Pending
<1>6. CASE Stream!Deliver
  <2>1. PICK n \in 1..Len(Pending) :
             /\ drained' = drained \o SubSeq(Pending, 1, n)
             /\ Pending' = SubSeq(Pending, n + 1, Len(Pending))
    BY Zenon, <1>6 DEF Stream!Deliver, Pending
  <2> DEFINE x == SubSeq(Pending, 1, n)
  <2>2. x \in Seq(Bytes) /\ Pending' \in Seq(Bytes) /\ x \o Pending' = Pending
    BY Zenon, <1>2, <2>1, Cut
  <2> HIDE DEF x
  <2>3. drained' = drained \o x
    BY Zenon, <2>1 DEF x
  <2>4. drained' \o Pending' = drained \o Pending
    <3>1. (drained \o x) \o Pending' = drained \o (x \o Pending')
      BY ZenonT(30), <1>2, <2>2, Assoc
    <3> QED
      BY Zenon, <2>2, <2>3, <3>1
  <2>5. Produced' = Produced
    <3>1. Len(drained') = Len(drained) + Len(x) /\ Len(Pending) = Len(x) + Len(Pending')
      BY <1>2, <2>2, <2>3, Concat, Zenon
    <3>2. Len(drained) \in Nat /\ Len(x) \in Nat /\ Len(Pending') \in Nat
      BY Zenon, <1>2, <2>2, LenProperties
    <3> QED
      BY <1>2, <1>3, <3>1, <3>2
  <2> QED
    BY Zenon, <2>4, <2>5 DEF InOrder, Pending
<1>7. CASE Stream!Close
  BY Zenon, <1>4, <1>7 DEF Stream!Close, Pending
<1> QED
  BY Zenon, <1>1, <1>4, <1>5, <1>6, <1>7 DEF Stream!Next, Stream!streamVars, Pending

(* No byte of a session's output is skipped, repeated or moved on its way, *)
(* whatever the sizes and however the goroutines interleave.               *)
THEOREM InOrderCorrect == Spec => []InOrder
<1>1. Init => InOrder
  BY DEF Init, InOrder, Produced
<1> QED
  BY <1>1, Invariance, InOrderStep, PTL DEF Spec

-----------------------------------------------------------------------------
(* The bytes readLoop has taken from the PTY.                              *)
Taken == Len(drained) + Len(buf) + Len(flushing) + Len(batch)

(* What the emulator was given is among the bytes taken from the PTY.      *)
SeenIsTaken ==
    \A k \in 1..Len(Chunks) : \A i \in 1..Len(Chunks[k]) : Chunks[k][i] <= Taken

(* The last part of a concatenation starts where the first ends.           *)
LEMMA SecondPart ==
    ASSUME NEW s \in Seq(Bytes), NEW t \in Seq(Bytes)
    PROVE  \A j \in 1..Len(t) :
              /\ Len(s) + j \in 1..Len(s \o t)
              /\ (s \o t)[Len(s) + j] = t[j]
<1>1. Len(s) \in Nat /\ Len(t) \in Nat
  BY Zenon, LenProperties
<1>2. /\ Len(s \o t) = Len(s) + Len(t)
      /\ \A i \in 1 .. Len(s) + Len(t) : (s \o t)[i] =
                     IF i <= Len(s) THEN s[i] ELSE t[i - Len(s)]
  BY Zenon, ConcatProperties
<1> SUFFICES ASSUME NEW j \in 1..Len(t)
             PROVE  /\ Len(s) + j \in 1..Len(s \o t)
                    /\ (s \o t)[Len(s) + j] = t[j]
  BY Zenon
<1>3. Len(s) + j \in 1 .. Len(s) + Len(t) /\ ~(Len(s) + j <= Len(s))
      /\ Len(s) + j - Len(s) = j
  BY <1>1
<1> QED
  BY <1>2, <1>3

(* The bytes still in the PTY follow the ones taken, one by one.           *)
LEMMA TtyCounts ==
    ASSUME IInv, InOrder
    PROVE  Taken \in Nat /\ \A i \in 1..Len(tty) : tty[i] = Taken + i
<1>1. PartsAreSeqs
  BY Zenon, PendingType DEF IInv
<1> DEFINE t1 == batch \o tty
           t2 == flushing \o t1
           t3 == buf \o t2
<1>2. /\ tty \in Seq(Bytes) /\ batch \in Seq(Bytes) /\ flushing \in Seq(Bytes)
      /\ buf \in Seq(Bytes) /\ drained \in Seq(Bytes)
      /\ t1 \in Seq(Bytes) /\ t2 \in Seq(Bytes) /\ t3 \in Seq(Bytes)
  BY Zenon, <1>1 DEF PartsAreSeqs, Pending
<1>3. /\ Len(drained) \in Nat /\ Len(buf) \in Nat /\ Len(flushing) \in Nat
      /\ Len(batch) \in Nat /\ Len(tty) \in Nat
  BY Zenon, <1>2, LenProperties
<1>4. drained \o t3 = [i \in 1..Produced |-> i]
  BY Zenon DEF InOrder
<1>5. \A j \in 1..Len(tty) : Len(batch) + j \in 1..Len(t1) /\ t1[Len(batch) + j] = tty[j]
  BY <1>2, SecondPart
<1>6. \A j \in 1..Len(t1) : Len(flushing) + j \in 1..Len(t2) /\ t2[Len(flushing) + j] = t1[j]
  <2> HIDE DEF t1
  <2> QED
    BY SMTT(30), <1>2, SecondPart
<1>7. \A j \in 1..Len(t2) : Len(buf) + j \in 1..Len(t3) /\ t3[Len(buf) + j] = t2[j]
  <2> HIDE DEF t2
  <2> QED
    BY <1>2, SecondPart
<1>8. \A j \in 1..Len(t3) : /\ Len(drained) + j \in 1..Len(drained \o t3)
                            /\ (drained \o t3)[Len(drained) + j] = t3[j]
  <2> HIDE DEF t3
  <2> QED
    BY <1>2, SecondPart
<1>9. Len(drained \o t3) = Produced
  <2>1. Len(drained \o t3) = Len(drained) + Len(t3)
    BY <1>2, Concat, Zenon
  <2> QED
    BY Zenon, <1>1, <2>1 DEF PartsAreSeqs, Pending
<1> DEFINE w == drained \o t3
<1> HIDE DEF t1, t2, t3, w
<1>10. \A i \in 1..Produced : w[i] = i
  BY Zenon, <1>4 DEF w
<1> SUFFICES ASSUME NEW i \in 1..Len(tty) PROVE tty[i] = Taken + i
  BY <1>3 DEF Taken
<1>11. Len(batch) + i \in 1..Len(t1) /\ t1[Len(batch) + i] = tty[i]
  BY Zenon, <1>5
<1>12. /\ Len(flushing) + (Len(batch) + i) \in 1..Len(t2)
       /\ t2[Len(flushing) + (Len(batch) + i)] = tty[i]
  BY Zenon, <1>6, <1>11
<1>13. /\ Len(buf) + (Len(flushing) + (Len(batch) + i)) \in 1..Len(t3)
       /\ t3[Len(buf) + (Len(flushing) + (Len(batch) + i))] = tty[i]
  BY Zenon, <1>7, <1>12
<1>14. /\ Len(drained) + (Len(buf) + (Len(flushing) + (Len(batch) + i))) \in 1..Produced
       /\ w[Len(drained) + (Len(buf) + (Len(flushing) + (Len(batch) + i)))] = tty[i]
  BY Zenon, <1>8, <1>9, <1>13 DEF w
<1>15. tty[i] = Len(drained) + (Len(buf) + (Len(flushing) + (Len(batch) + i)))
  BY Zenon, <1>10, <1>14
<1> QED
  BY <1>3, <1>15 DEF Taken

(* No step but a read of the PTY changes how much was taken from it.       *)
LEMMA TakenStep ==
    ASSUME IInv, [Next]_vars, ~LoopRead
    PROVE  Taken' = Taken
<1>1. PartsAreSeqs
  BY Zenon, PendingType DEF IInv
<1>2. /\ batch \in Seq(Bytes) /\ flushing \in Seq(Bytes)
      /\ buf \in Seq(Bytes) /\ drained \in Seq(Bytes) /\ Len(<<>>) = 0
      /\ Len(drained) \in Nat /\ Len(buf) \in Nat /\ Len(flushing) \in Nat
      /\ Len(batch) \in Nat
  BY Zenon, <1>1, LenProperties, EmptySeq DEF PartsAreSeqs
<1>3. CASE UNCHANGED <<drained, buf, flushing, batch>>
  BY Zenon, <1>3 DEF Taken
<1>4. CASE BatchSignal \/ BatchTick
  <2>1. flushing = <<>> /\ buf' = buf /\ drained' = drained
    BY Zenon, <1>4 DEF BatchSignal, BatchTick, IInv, bufVars, castVars
  <2>2. CASE batch' = batch /\ flushing' = flushing
    BY Zenon, <1>3, <2>1, <2>2
  <2>3. CASE flushing' = batch /\ batch' = <<>>
    BY <1>2, <2>1, <2>3 DEF Taken
  <2> QED
    BY Zenon, <1>4, <2>2, <2>3 DEF BatchSignal, BatchTick, TakeBatch
<1>5. CASE OnFlush
  <2>1. buf' = buf \o flushing /\ flushing' = <<>> /\ batch' = batch /\ drained' = drained
    BY Zenon, <1>5 DEF OnFlush, castVars
  <2>2. Len(buf \o flushing) = Len(buf) + Len(flushing)
    BY <1>2, Concat, Zenon
  <2> QED
    BY <1>2, <2>1, <2>2 DEF Taken
<1>6. CASE ReadOutput
  <2>1. batch' = batch /\ flushing' = flushing
    BY Zenon, <1>6 DEF ReadOutput, batchVars
  <2>2. CASE registered /\ buf # <<>>
    <3>1. drained' = drained \o buf /\ buf' = <<>>
      BY Zenon, <1>6, <2>2 DEF ReadOutput
    <3>2. Len(drained \o buf) = Len(drained) + Len(buf)
      BY <1>2, Concat, Zenon
    <3> QED
      BY <1>2, <2>1, <3>1, <3>2 DEF Taken
  <2>3. CASE ~(registered /\ buf # <<>>)
    BY Zenon, <1>3, <1>6, <2>1, <2>3 DEF ReadOutput
  <2> QED
    BY Zenon, <2>2, <2>3
<1>7. ASSUME ~(BatchSignal \/ BatchTick), ~OnFlush, ~ReadOutput
      PROVE  UNCHANGED <<drained, buf, flushing, batch>>
  BY Zenon, <1>7 DEF Next, ReadLoop, BatchLoop, Broadcaster, WaitLoop, vars,
     readVars, batchVars, bufVars, castVars, emuVars, downVars, ChildWrite,
     ChildExit, AudienceChange, LoopHead, LoopEnd, EmulatorLoop, BatchDone,
     FlushOnSignal, FlushOnTick, WaitExited, WaitStop, WaitClose, Kill,
     KillStop, KillClose
<1> QED
  BY Zenon, <1>3, <1>4, <1>5, <1>6, <1>7

(* The chunks the emulator has and will get change in two ways: a read     *)
(* adds one at the end, and emulatorLoop drops the first.                  *)
LEMMA ChunksType ==
    ASSUME TypeOK
    PROVE  /\ Chunks \in Seq(Seq(Bytes)) /\ Len(Chunks) = Len(emuCh) + 1
           /\ Chunks[1] = screen
           /\ \A k \in 1..Len(emuCh) : Chunks[k + 1] = emuCh[k]
<1>1. screen \in Seq(Bytes) /\ emuCh \in Seq(Seq(Bytes))
  BY Zenon DEF TypeOK
<1>2. <<screen>> \in Seq(Seq(Bytes)) /\ Len(<<screen>>) = 1 /\ <<screen>>[1] = screen
  BY <1>1
<1> DEFINE one == <<screen>>
           B == Seq(Bytes)
<1>3. one \in Seq(B) /\ Len(one) = 1 /\ one[1] = screen /\ emuCh \in Seq(B)
  BY Zenon, <1>1, <1>2
<1> HIDE DEF one, B
<1>4. /\ one \o emuCh \in Seq(B)
      /\ Len(one \o emuCh) = Len(one) + Len(emuCh)
      /\ \A i \in 1 .. Len(one) + Len(emuCh) : (one \o emuCh)[i] =
                     IF i <= Len(one) THEN one[i] ELSE emuCh[i - Len(one)]
  BY Zenon, <1>3, ConcatProperties
<1>5. Len(emuCh) \in Nat
  BY Zenon, <1>3, LenProperties
<1>6. Chunks = one \o emuCh
  BY Zenon DEF Chunks, one
<1>7. /\ Len(Chunks) = Len(emuCh) + 1 /\ Chunks[1] = screen
      /\ \A k \in 1..Len(emuCh) : Chunks[k + 1] = emuCh[k]
  BY <1>3, <1>4, <1>5, <1>6
<1> QED
  BY Zenon, <1>4, <1>6, <1>7 DEF B

(* Every step keeps what the emulator is given in order.                   *)
LEMMA ScreenStep ==
    ASSUME IInv, IInv', InOrder, ScreenInOrder, SeenIsTaken, [Next]_vars
    PROVE  ScreenInOrder' /\ SeenIsTaken'
<1>1. /\ Chunks \in Seq(Seq(Bytes)) /\ Len(Chunks) = Len(emuCh) + 1
      /\ Chunks[1] = screen
      /\ \A k \in 1..Len(emuCh) : Chunks[k + 1] = emuCh[k]
      /\ Len(emuCh) \in Nat /\ emuCh \in Seq(Seq(Bytes))
  BY Zenon, ChunksType, LenProperties DEF IInv, TypeOK
<1>2. /\ Chunks' \in Seq(Seq(Bytes)) /\ Len(Chunks') = Len(emuCh') + 1
      /\ Chunks'[1] = screen'
      /\ \A k \in 1..Len(emuCh') : Chunks'[k + 1] = emuCh'[k]
  <2>1. TypeOK'
    BY Zenon DEF IInv
  <2>2. (/\ Chunks \in Seq(Seq(Bytes)) /\ Len(Chunks) = Len(emuCh) + 1
         /\ Chunks[1] = screen
         /\ \A k \in 1..Len(emuCh) : Chunks[k + 1] = emuCh[k])'
    BY <2>1, ChunksType, PTL
  <2> QED
    BY Zenon, <2>2
<1>3. Taken \in Nat /\ \A i \in 1..Len(tty) : tty[i] = Taken + i
  BY Zenon, TtyCounts
<1>4. CASE UNCHANGED <<screen, emuCh>> /\ ~LoopRead
  <2>1. Chunks' = Chunks /\ Taken' = Taken
    BY Zenon, <1>4, TakenStep DEF Chunks
  <2>2. ScreenInOrder'
    BY <2>1 DEF ScreenInOrder, Rising, Before
  <2>3. SeenIsTaken'
    BY Zenon, <2>1 DEF SeenIsTaken
  <2> QED
    BY Zenon, <2>2, <2>3
<1>5. CASE EmulatorLoop
  <2>1. emuCh # <<>> /\ screen' = Head(emuCh) /\ emuCh' = Tail(emuCh)
    BY Zenon, <1>5 DEF EmulatorLoop
  <2>2. Taken' = Taken
    BY Zenon, <1>5 DEF EmulatorLoop, Taken, batchVars, bufVars, castVars
  <2>3. Len(emuCh') = Len(emuCh) - 1 /\ \A i \in 1..Len(emuCh') : emuCh'[i] = emuCh[i + 1]
    BY Zenon, <1>1, <2>1, HeadTailProperties
  <2>4. Len(emuCh) \in Nat \ {0} /\ screen' = emuCh[1]
    BY SMTT(30), <1>1, <2>1, EmptySeq
  <2>5. Len(Chunks') = Len(Chunks) - 1
    BY <1>1, <1>2, <2>3, <2>4
  <2>6. ASSUME NEW k \in 1..Len(Chunks') PROVE Chunks'[k] = Chunks[k + 1]
    <3>1. CASE k = 1
      <4>1. 1 \in 1..Len(emuCh)
        BY <2>4
      <4>2. Chunks[1 + 1] = emuCh[1]
        BY Zenon, <1>1, <4>1
      <4> QED
        BY Zenon, <1>2, <2>4, <3>1, <4>2
    <3>2. CASE k # 1
      <4>1. k - 1 \in 1..Len(emuCh') /\ k \in 1..Len(emuCh) /\ (k - 1) + 1 = k
        BY <1>2, <2>3, <2>4, <3>2
      <4>2. Chunks'[k] = emuCh'[k - 1]
        BY Zenon, <1>2, <4>1
      <4>3. emuCh'[k - 1] = emuCh[k]
        BY Zenon, <2>3, <4>1
      <4> QED
        BY Zenon, <1>1, <4>1, <4>2, <4>3
    <3> QED
      BY Zenon, <3>1, <3>2
  <2>7. \A k \in 1..Len(Chunks') : k + 1 \in 1..Len(Chunks)
    BY <1>1, <2>5
  <2>8. \A k, l \in 1..Len(Chunks') : k < l => k + 1 < l + 1
    BY <1>1, <2>5
  <2>9. ScreenInOrder'
    <3>1. \A k \in 1..Len(Chunks') : Rising(Chunks'[k])
      BY Zenon, <2>6, <2>7 DEF ScreenInOrder
    <3>2. \A k, l \in 1..Len(Chunks') : k < l => Before(Chunks'[k], Chunks'[l])
      BY Zenon, <2>6, <2>7, <2>8 DEF ScreenInOrder
    <3> QED
      BY Zenon, <3>1, <3>2 DEF ScreenInOrder, Rising, Before
  <2>10. SeenIsTaken'
    <3>1. \A k \in 1..Len(Chunks') : \A i \in 1..Len(Chunks'[k]) : Chunks'[k][i] <= Taken
      BY Zenon, <2>6, <2>7 DEF SeenIsTaken
    <3> QED
      BY Zenon, <2>2, <3>1 DEF SeenIsTaken
  <2> QED
    BY Zenon, <2>9, <2>10
<1>6. CASE LoopRead
  <2>1. PICK n \in 1..ReadChunk :
             /\ n <= Len(tty)
             /\ Add(SubSeq(tty, 1, n))
             /\ SendEmulator(SubSeq(tty, 1, n))
    BY Zenon, <1>6 DEF LoopRead
  <2> DEFINE x == SubSeq(tty, 1, n)
  <2>2. tty \in Seq(Bytes) /\ batch \in Seq(Bytes) /\ n \in Nat /\ Len(tty) \in Nat
    BY LenProperties, SizesPositive DEF IInv, TypeOK
  <2>3. x \in Seq(Bytes) /\ Len(x) = n /\ \A i \in 1..n : x[i] = Taken + i
    <3>1. \A i \in 1..n : tty[i] \in Bytes /\ tty[i] = Taken + i
      BY SMTT(30), <1>3, <2>1, <2>2, ElementOfSeq
    <3>2. /\ x \in Seq(Bytes) /\ Len(x) = IF 1 <= n THEN n - 1 + 1 ELSE 0
          /\ \A i \in 1 .. n - 1 + 1 : x[i] = tty[1 + i - 1]
      BY <2>2, <3>1, SubSeqProperties
    <3> HIDE DEF x
    <3> QED
      BY <2>2, <3>1, <3>2
  <2>4. /\ batch' = batch \o x /\ UNCHANGED <<drained, buf, flushing, screen>>
        /\ emuCh' = IF Len(emuCh) < EmuCap THEN Append(emuCh, x) ELSE emuCh
    BY Zenon, <1>6, <2>1 DEF LoopRead, Add, SendEmulator, bufVars, castVars
  <2> HIDE DEF x
  <2>5. Taken' = Taken + n
    <3>1. Len(batch \o x) = Len(batch) + Len(x)
      BY <2>2, <2>3, Concat, Zenon
    <3>2. /\ Len(drained) \in Nat /\ Len(buf) \in Nat /\ Len(flushing) \in Nat
          /\ Len(batch) \in Nat
      BY Zenon, LenProperties DEF IInv, TypeOK
    <3> QED
      BY <2>2, <2>3, <2>4, <3>1, <3>2 DEF Taken
  <2>6. ASSUME NEW k \in 1..Len(Chunks), NEW i \in 1..Len(Chunks[k])
        PROVE  Chunks[k][i] \in Nat /\ Chunks[k][i] <= Taken
    <3>1. Chunks[k] \in Seq(Bytes)
      BY Zenon, <1>1, ElementOfSeq
    <3>2. Chunks[k][i] \in Bytes
      BY Zenon, <3>1, ElementOfSeq
    <3> QED
      BY Zenon, <3>2 DEF SeenIsTaken, Bytes
  <2>7. CASE emuCh' = emuCh
    <3>1. Chunks' = Chunks
      BY Zenon, <2>4, <2>7 DEF Chunks
    <3>2. ScreenInOrder'
      BY <3>1 DEF ScreenInOrder, Rising, Before
    <3>3. \A k \in 1..Len(Chunks) : \A i \in 1..Len(Chunks[k]) : Chunks[k][i] <= Taken + n
      BY <1>3, <2>2, <2>6
    <3> QED
      BY Zenon, <2>5, <3>1, <3>2, <3>3 DEF SeenIsTaken
  <2>8. CASE emuCh' = Append(emuCh, x)
    <3>1. /\ Len(emuCh') = Len(emuCh) + 1
          /\ \A i \in 1..Len(emuCh) : emuCh'[i] = emuCh[i]
          /\ emuCh'[Len(emuCh) + 1] = x
      BY <1>1, <2>3, <2>8, AppendProperties
    <3>2. Len(Chunks') = Len(Chunks) + 1 /\ Chunks'[Len(Chunks) + 1] = x
      <4>1. Len(emuCh) + 1 \in 1..Len(emuCh')
        BY <1>1, <3>1
      <4>2. Chunks'[(Len(emuCh) + 1) + 1] = emuCh'[Len(emuCh) + 1]
        BY Zenon, <1>2, <4>1
      <4> QED
        BY Zenon, <1>1, <1>2, <3>1, <4>2
    <3>3. ASSUME NEW k \in 1..Len(Chunks) PROVE Chunks'[k] = Chunks[k]
      <4>1. CASE k = 1
        BY Zenon, <1>1, <1>2, <2>4, <4>1
      <4>2. CASE k # 1
        <5>1. k - 1 \in 1..Len(emuCh) /\ k - 1 \in 1..Len(emuCh') /\ (k - 1) + 1 = k
          BY SMTT(30), <1>1, <3>1, <4>2
        <5> QED
          BY <1>1, <1>2, <3>1, <5>1
      <4> QED
        BY Zenon, <4>1, <4>2
    <3>4. \A k \in 1..Len(Chunks') : k \in 1..Len(Chunks) \/ (k = Len(Chunks) + 1 /\ Chunks'[k] = x)
      BY <1>1, <3>2
    <3>5. Rising(x)
      BY SMTT(30), <1>3, <2>2, <2>3 DEF Rising
    <3>6. \A k \in 1..Len(Chunks) : Before(Chunks[k], x)
      <4> SUFFICES ASSUME NEW k \in 1..Len(Chunks),
                          NEW i \in 1..Len(Chunks[k]), NEW j \in 1..Len(x)
                   PROVE  Chunks[k][i] < x[j]
        BY Zenon DEF Before
      <4>1. Chunks[k][i] \in Nat /\ Chunks[k][i] <= Taken
        BY Zenon, <2>6
      <4>2. x[j] = Taken + j /\ j \in Nat /\ j > 0
        BY <2>2, <2>3
      <4> QED
        BY <1>3, <4>1, <4>2
    <3>7. \A k \in 1..Len(Chunks') : Rising(Chunks'[k])
      BY Zenon, <3>3, <3>4, <3>5 DEF ScreenInOrder
    <3>8. ASSUME NEW k \in 1..Len(Chunks'), NEW l \in 1..Len(Chunks'), k < l
          PROVE  Before(Chunks'[k], Chunks'[l])
      <4>1. k \in 1..Len(Chunks)
        BY <1>1, <3>2, <3>8
      <4>2. CASE l \in 1..Len(Chunks)
        BY Zenon, <3>3, <3>8, <4>1, <4>2 DEF ScreenInOrder
      <4>3. CASE Chunks'[l] = x
        BY Zenon, <3>3, <3>6, <4>1, <4>3
      <4> QED
        BY Zenon, <3>4, <4>2, <4>3
    <3>9. ScreenInOrder'
      BY Zenon, <3>7, <3>8 DEF ScreenInOrder, Rising, Before
    <3>10. \A k \in 1..Len(Chunks) : \A i \in 1..Len(Chunks[k]) : Chunks[k][i] <= Taken + n
      BY <1>3, <2>2, <2>6
    <3>11. \A i \in 1..Len(x) : x[i] <= Taken + n
      BY <1>3, <2>2, <2>3
    <3>12. \A k \in 1..Len(Chunks') : \A i \in 1..Len(Chunks'[k]) : Chunks'[k][i] <= Taken + n
      BY Zenon, <3>3, <3>4, <3>10, <3>11
    <3> QED
      BY Zenon, <2>5, <3>9, <3>12 DEF SeenIsTaken
  <2> QED
    BY Zenon, <2>4, <2>7, <2>8
<1>7. ASSUME ~LoopRead, ~EmulatorLoop PROVE UNCHANGED <<screen, emuCh>>
  BY Zenon, <1>7 DEF Next, ReadLoop, BatchLoop, Broadcaster, WaitLoop, vars, emuVars,
     ChildWrite, ChildExit, AudienceChange, LoopHead, LoopEnd, BatchSignal,
     BatchTick, OnFlush, BatchDone, FlushOnSignal, FlushOnTick, ReadOutput,
     WaitExited, WaitStop, WaitClose, Kill, KillStop, KillClose
<1> QED
  BY Zenon, <1>4, <1>5, <1>6, <1>7

(* Whatever the chunk size and the capacity of emulatorCh, and whichever   *)
(* chunks a full channel drops: the emulator is given the bytes that reach *)
(* it in the order in which the child wrote them, none of them twice.      *)
THEOREM ScreenInOrderCorrect == Spec => []ScreenInOrder
<1>1. Init => ScreenInOrder /\ SeenIsTaken
  <2> SUFFICES ASSUME Init PROVE ScreenInOrder /\ SeenIsTaken
    BY Zenon
  <2>1. Len(Chunks) = 1 /\ Chunks[1] = <<>> /\ Len(<<>>) = 0
    BY InitHolds, ChunksType, EmptySeq DEF Init, IInv
  <2> QED
    BY <2>1 DEF ScreenInOrder, SeenIsTaken, Rising, Before
<1> QED
  BY <1>1, Invariance, InOrderCorrect, ScreenStep, PTL DEF Spec
=============================================================================
