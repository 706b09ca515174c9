------------------------------ MODULE MCBuffer ------------------------------
(* A small instance of Buffer: arrays and byte values are interchangeable. *)
EXTENDS Buffer, TLC

Interchangeable == Permutations(Array) \cup Permutations(Byte)
=============================================================================
