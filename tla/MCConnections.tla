--------------------------- MODULE MCConnections ----------------------------
(* Small instances of Transport and of Events.  They share no state, so a  *)
(* behaviour explores one of them.  The second client is not among the     *)
(* processes the daemon admits.                                            *)
EXTENDS Transport, Events, TLC

CONSTANTS c1, c2, p1, shell

VARIABLE part

vars == <<netVars, evVars, part>>

MCParent == c1 :> shell @@ shell :> Daemon @@ Daemon :> NoProc @@ c2 :> NoProc
MCWants == c1 :> {p1} @@ c2 :> {}

Init == NetInit /\ EvInit /\ part \in {"transport", "events"}

Next ==
    /\ \/ part = "transport" /\ NetNext /\ UNCHANGED evVars
       \/ part = "events" /\ EvNext /\ UNCHANGED netVars
    /\ UNCHANGED part

(* No fair action is enabled in the initial state of the part that rests.  *)
Spec == Init /\ [][Next]_vars /\ NetFairness /\ EvFairness
=============================================================================
