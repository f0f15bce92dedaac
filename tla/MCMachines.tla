----------------------------- MODULE MCMachines -----------------------------
(* The two ends for TLC: Journal and Runner on the machine, FinalStop in   *)
(* the backend.  A behaviour is one of any of them, the others stay as     *)
(* they began.  FinalStop's are of two kinds: two stop ids on one link,    *)
(* nothing failing; or one stop id over two links, with a write or request *)
(* that fails or a restart.  While a request is between two of its own     *)
(* steps the timer's load, and while a plain one is, another request too,  *)
(* rest where they can still spoil it: before their look, or before they   *)
(* queue.  The runner's third launch meets no pushWip, and a final stop    *)
(* that begins before the last one has notified meets a single launch.     *)
EXTENDS MCJournal, FinalStop, Runner

VARIABLE part

AllInit ==
    /\ MCInit /\ FinalInit /\ RunnerInit
    /\ part \in {"journal", "runner", "ids", "faults"}
    /\ kills => part = "journal"
    /\ there => part = "runner"

Stage(a, stages) == actor'[a].stage \in stages
Launches == runs'[Owner] + runs'[Sharer]

AllNext ==
    /\ \/ /\ part = "journal" /\ MCNext
          /\ UNCHANGED <<finalVars, runnerVars>>
       \/ /\ part = "runner" /\ RunnerNext
          /\ request' # "none" => Launches <= 2 /\ notices' = 0
          /\ final'.stage # "none" /\ notices' > 0 => Launches <= 1
          /\ UNCHANGED <<vars, kills, finalVars>>
       \/ /\ part = "ids" /\ FinalNext
          /\ linkGen' <= 1 /\ faults' = 0 /\ restarts' = 0
          /\ Stage("plain", {"looking"}) => Stage("timer", {"idle", "queuing"})
                                              /\ Stage("request", {"idle", "queuing"})
          /\ Stage("request", {"recording"}) => Stage("timer", {"idle", "listed"})
          /\ UNCHANGED <<vars, kills, runnerVars>>
       \/ /\ part = "faults" /\ FinalNext
          /\ next' <= 2 /\ faults' + restarts' <= 1
          /\ Stage("plain", {"looking"}) => Stage("timer", {"idle"})
          /\ UNCHANGED <<vars, kills, runnerVars>>
    /\ UNCHANGED part

AllSpec == AllInit /\ [][AllNext]_<<vars, kills, finalVars, runnerVars, part>>
=============================================================================
