----------------------------- MODULE MCRequests -----------------------------
(* Two processes and the sessions of two IDs under one prefix; the first   *)
(* ID has two handles, so that a session can be replaced under its watcher *)
(* or between a lookup and its use.                                        *)
EXTENDS Cli, TLC

CONSTANTS a, b, h1, h2, h3, c1, c2

MCSid == h1 :> a @@ h2 :> a @@ h3 :> b

MCSizeOf == c1 :> 1 @@ c2 :> 2

MCRuns ==
    {c1 :> k @@ c2 :> "attach" : k \in {"detach", "shutdown"}}
    \cup {c1 :> k @@ c2 :> "kill" :
             k \in {"create", "kill", "execSync", "write", "resize", "capture-pane"}}
    \cup {c1 :> k @@ c2 :> "status" :
             k \in {"exec", "list", "info", "history", "scrollback", "metaSet", "metaGet",
                    "new-session", "send-keys", "kill-session", "list-sessions", "has-session"}}
    \cup {c1 :> k @@ c2 :> k : k \in {"resize", "capture-pane"}}
    \cup {c1 :> "execPrefix" @@ c2 :> "killPrefix"}
=============================================================================
