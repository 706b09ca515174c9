------------------------- MODULE MCSessionResources -------------------------
(* SessionResources with two sessions that follow or overlap each other    *)
(* under one ID.                                                           *)
EXTENDS SessionResources, TLC

CONSTANTS h1, h2, a

MCSid == h1 :> a @@ h2 :> a
=============================================================================
