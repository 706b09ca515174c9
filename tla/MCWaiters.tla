----------------------------- MODULE MCWaiters ------------------------------
(* A small instance of Waiters: two waiters, any two modes, on one ID that   *)
(* two sessions use in turn.                                               *)
EXTENDS Waiters, TLC

CONSTANTS a, h1, h2, w1, w2

MCSid == h1 :> a @@ h2 :> a

MCAsks == w1 :> {"idle", "match"} @@ w2 :> {"exit", "match"}
=============================================================================
