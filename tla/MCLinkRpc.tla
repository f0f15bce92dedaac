----------------------------- MODULE MCLinkRpc -----------------------------
(* LinkRpc for TLC: queues of one frame, so that every queue fills.  Calls,*)
(* stop callers and stop ids are interchangeable where only safety is      *)
(* checked.                                                                *)
EXTENDS LinkRpc, TLC

Alike == Permutations(Calls) \cup Permutations(Waiters) \cup Permutations(Stops)

(* The connection breaks, or its owners close it, one or both: not both of *)
(* these in one behaviour.                                                 *)
OwnerCloses(e) == "owner" \in shutting'[e] /\ "owner" \notin shutting[e]

CallsNext ==
    /\ Next
    /\ \A e \in Ends : OwnerCloses(e) => ~broken
    /\ broken' => (broken \/ \A e \in Ends : ~closed[e])

CallsSpec == Init /\ [][CallsNext]_vars
=============================================================================
