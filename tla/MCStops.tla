------------------------------ MODULE MCStops ------------------------------
(* Stops for TLC: the callers that wait for one on a link (LinkRpc without *)
(* calls), an agent that is stopped and launched again over its links      *)
(* (Relaunch), and a script's run by an agent (ScriptRuns).  A behaviour   *)
(* is one of them, the others stay as they began.  ScriptRuns' are of      *)
(* three kinds: a service that is stopped and cancelled on one link; one   *)
(* that is stopped over two links, the first of which is lost; and an      *)
(* agent that is ended for good while a script runs, over two links, whose *)
(* run nobody stops or cancels.                                            *)
EXTENDS MCLinkRpc, Relaunch, ScriptRuns

VARIABLE part

StopsInit ==
    /\ Init /\ RelaunchInit /\ ScriptInit
    /\ part \in {"callers", "relaunch", "service", "stopped", "final"}
    /\ part = "callers" \/ \A w, v \in Waiters : stopOf[w] = stopOf[v]

LastLinkHolds ==
    serving.link = MaxLinks => serving.stage = "up" /\ MaxLinks \in sessions

Dismissed == entry.here /\ ~entry'.here

ScriptPart ==
    \/ part = "service" /\ serving'.link <= 1 /\ ~ending' /\ (entry'.here => entry'.service)
    \/ part = "stopped" /\ LastLinkHolds' /\ ~ending' /\ (entry'.here => entry'.service)
       /\ (Dismissed => ~Live)
    \/ part = "final" /\ LastLinkHolds' /\ stopper' = NoStop
       /\ (Dismissed => over.stage = "dropping")

StopsNext ==
    /\ \/ part = "callers" /\ Next /\ UNCHANGED <<relaunchVars, scriptVars>>
       \/ part = "relaunch" /\ RelaunchNext /\ UNCHANGED <<vars, scriptVars>>
       \/ /\ part \in {"service", "stopped", "final"}
          /\ ScriptNext /\ ScriptPart /\ UNCHANGED <<vars, relaunchVars>>
    /\ UNCHANGED part

StopsSpec == StopsInit /\ [][StopsNext]_<<vars, relaunchVars, scriptVars, part>>
=============================================================================
