-------------------------- MODULE MCOutputPipeline --------------------------
(* Instances of OutputPipeline; the .cfg files give the sizes.             *)
EXTENDS OutputPipeline
=============================================================================
