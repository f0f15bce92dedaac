------------------------------ MODULE MCLinks ------------------------------
(* ExecutorLinks, and one call over a link (LinkRpc), for TLC.  A          *)
(* behaviour is one of either, the other stays as it began, where no step  *)
(* that is fair is enabled.                                                *)
EXTENDS ExecutorLinks, LinkRpc

VARIABLE part

LinksInit == ExecutorInit /\ Init /\ part \in {"executor", "call"}

LinksNext ==
    /\ \/ part = "executor" /\ ExecutorNext /\ UNCHANGED vars
       \/ part = "call" /\ Next /\ UNCHANGED executorVars
    /\ UNCHANGED part

LinksSpec == LinksInit /\ [][LinksNext]_<<vars, executorVars, part>>
                       /\ ExecutorFairness /\ Fairness
=============================================================================
