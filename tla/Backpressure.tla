---------------------------- MODULE Backpressure ----------------------------
(***************************************************************************)
(* The watermark rule of internal/session/backpressure.go, shared by the   *)
(* module of the byte buffer itself (Buffer) and by the modules of the     *)
(* goroutines around it (OutputPipeline).  Sizes are numbers of bytes.     *)
(***************************************************************************)
EXTENDS Naturals, Sequences

CONSTANTS
    HighWatermark,  \* Buffer.highWatermark: the size that pauses the reader
    LowWatermark    \* Buffer.lowWatermark: the size below which it resumes

(* Service.Create replaces watermarks that are not positive by defaults.   *)
ASSUME WatermarksPositive ==
    /\ HighWatermark \in Nat \ {0}
    /\ LowWatermark \in Nat \ {0}

VARIABLE paused     \* Buffer.paused

(* The paused flag after Buffer.Write left size bytes in the buffer.       *)
PauseAt(size) == paused \/ size >= HighWatermark

(* Mutation: a drained buffer never resumes the reader.                    *)
NeverResume(remaining) == paused

(* The paused flag after checkResume(remaining).                           *)
checkResume(remaining) == paused /\ ~(remaining < LowWatermark)
=============================================================================
