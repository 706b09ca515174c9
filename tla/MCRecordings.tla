---------------------------- MODULE MCRecordings ----------------------------
(* Recordings of two sessions that share an ID and of one beside them.     *)
EXTENDS Recordings, TLC

CONSTANTS a, b, h1, h2, h3

MCSid == h1 :> a @@ h2 :> a @@ h3 :> b

MCSymmetry == Permutations(Rec)
=============================================================================
