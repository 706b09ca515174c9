----------------------------- MODULE MCCommands -----------------------------
(* Commands with a chunk that leaves a command in flight, one that finds   *)
(* it there and closes its own, and one with nothing but a line; the       *)
(* first two also close enough commands for the history to evict one.      *)
EXTENDS Commands

Seg(nl, code) == [nl |-> nl, code |-> code]
Piece(segs, tail) == [segs |-> segs, tail |-> tail]

MCChunk ==
    {Piece(<<>>, 1),
     Piece(<<Seg(0, "B"), Seg(0, "C"), Seg(2, "C")>>, 0),
     Piece(<<Seg(1, "other"), Seg(0, "C"), Seg(1, "D"), Seg(0, "A")>>, 1)}
=============================================================================
