----------------------------- MODULE MCClient ------------------------------
(* Small instances of the two halves of pkg/client: calls on a connection  *)
(* (ClientRpc) and the way to one (Lifecycle).  They share no state, so a  *)
(* behaviour explores one of them; a daemon run by hand meets one starter. *)
EXTENDS ClientRpc, Lifecycle

VARIABLE part

Other == CHOOSE s \in Starter : TRUE

vars == <<clientVars, lifeVars, part>>

Init == RpcInit /\ LifeInit /\ part \in {"calls", "start", "launch"}

Next ==
    /\ \/ part = "calls" /\ RpcNext /\ UNCHANGED lifeVars
       \/ part = "start" /\ StartNext /\ UNCHANGED clientVars
       \/ part = "launch" /\ LifeNext /\ UNCHANGED <<new[Other], clientVars>>
    /\ UNCHANGED part

(* No fair action is enabled in the initial state of ClientRpc.            *)
Spec == Init /\ [][Next]_vars /\ RpcFairness
=============================================================================
