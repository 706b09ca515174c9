-------------------------- MODULE MCSessionService --------------------------
(* A small instance of SessionService: two handles of one ID, so that a    *)
(* session can be killed and created again while the first one winds down. *)
EXTENDS SessionService, TLC

CONSTANTS a, h1, h2, c1, c2

MCSid == h1 :> a @@ h2 :> a
=============================================================================
