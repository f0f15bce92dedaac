------------------------------- MODULE Runner -------------------------------
(***************************************************************************)
(* The machine's runner and one checkout (crates/intentd/src/executor/     *)
(* runner.rs, called from session.rs): its owner and another agent that    *)
(* shares it are launched and stopped, a final stop pushes and removes it, *)
(* and so does the sweep after a bind, without the push; a pushWip request *)
(* pushes it in between.                                                   *)
(*                                                                         *)
(* A step is what happens under the runner's lock or between two awaits.   *)
(* A frame is applied while the link gate is held, a launch from its claim *)
(* of the checkout to its admission.  Turns, scripts and the pushes at a   *)
(* turn's end are left out, except that a script may not be reaped; so are *)
(* final stops of the agent that shares, which remove nothing here, and    *)
(* shutdown, which refuses launches and stops agents.  One pushWip is at   *)
(* work at a time; others only wait for the same lock.  That a provider    *)
(* was told to stop is not kept: it may end at any time.  The machine has  *)
(* just started; a checkout may be left from before.                       *)
(***************************************************************************)
EXTENDS Integers

CONSTANTS Owner, Sharer,   \* the two agents
          MaxLaunches,     \* bound: launches of both
          MaxSweeps,       \* bound: binds
          MaxNotices       \* bound: final stops that have still to notify

ASSUME RunnerAssumption ==
    Owner # Sharer /\ MaxLaunches \in Nat /\ MaxSweeps \in Nat /\ MaxNotices \in Nat

Agents == {Owner, Sharer}
Runs   == 1..MaxLaunches
Sweeps == 1..MaxSweeps

VARIABLES
  there,      \* the checkout is on disk
  dirty,      \* it has work done since the last push of it began
  lock,       \* the task that holds its push lock, or "free"
  run,        \* every agent's place in `agents', and how far its run got
  runs,       \* launches admitted so far: the number of the newest run
  lastPush,   \* the owner's Agent::final_push
  finalFlag,  \* its Agent::final_stop
  leaving,    \* State::exiting: the run whose exit record is awaited, or 0
  unsettled,  \* the runs whose ExitRecord is pending
  shared,     \* the sharer is in State::shares
  claimed,    \* State::launched
  sweeping,   \* the owner is in State::sweeping
  launch,     \* the launch that holds the link gate
  final,      \* the owner's final stop: its entry in State::finalizing
  notices,    \* guards of final stops that freed theirs and have still to notify
  request,    \* how far a pushWip is
  sweep,      \* every bind's sweep
  lostWork,   \* history: such work was removed by a stop that reports a push
  crossed     \* history: two sweeps crossed, or a list came late

checkoutVars == <<there, dirty, lock>>
agentVars    == <<run, runs, lastPush, finalFlag, leaving, unsettled, shared>>
claimVars    == <<claimed, sweeping>>
taskVars     == <<request, notices>>
runnerHist   == <<lostWork, crossed>>
runnerVars   == <<checkoutVars, agentVars, claimVars, launch, final, sweep, taskVars, runnerHist>>

NoLaunch == [agent |-> "none", stage |-> "none", woken |-> FALSE]
NoExit   == [agent |-> Owner, run |-> 0]
NoFinal  == [stage |-> "none", mine |-> FALSE, wait |-> NoExit, exit |-> "none", push |-> "none"]

RunnerInit ==
    /\ there \in BOOLEAN /\ dirty = FALSE /\ lock = "free"
    /\ run = [a \in Agents |-> "none"] /\ runs = [a \in Agents |-> 0]
    /\ lastPush = "none" /\ finalFlag = FALSE
    /\ leaving = [a \in Agents |-> 0]
    /\ unsettled = [a \in Agents |-> {}]
    /\ shared = FALSE /\ claimed = {} /\ sweeping = FALSE
    /\ launch = NoLaunch
    /\ final = NoFinal /\ notices = 0 /\ request = "none"
    /\ sweep = [i \in Sweeps |-> "none"]
    /\ lostWork = FALSE /\ crossed = FALSE

GateFree == launch = NoLaunch
Running(a) == run[a] # "none"
Finalizing == final.stage # "none"
Removing(a) == a = Owner /\ (Finalizing \/ sweeping)

(* live_sharers of the owner.                                              *)
LiveSharer == shared /\ (Running(Sharer) \/ leaving[Sharer] # 0)

(* swept.notify_waiters: a claim that has enabled its wait is woken.       *)
Woken == [launch EXCEPT !.woken = @ \/ launch.stage \in {"claiming", "waiting"}]

TakeLock(task) == lock = "free" /\ lock' = task
Release == lock' = "free"

-----------------------------------------------------------------------------
(***************************************************************************)
(* launch: claim_checkout, then begin_launch.                              *)
(***************************************************************************)
Launch(a) ==
    /\ GateFree
    /\ runs[Owner] + runs[Sharer] < MaxLaunches
    /\ launch' = [agent |-> a, stage |-> "claiming", woken |-> FALSE]
    /\ UNCHANGED <<checkoutVars, agentVars, claimVars, final, sweep, runnerHist, taskVars>>

ClaimCheckout ==
    /\ launch.stage = "claiming"
    /\ claimed' = claimed \cup {launch.agent}
    /\ launch' = [launch EXCEPT !.stage = IF Removing(launch.agent) THEN "waiting" ELSE "resolving"]
    /\ UNCHANGED <<checkoutVars, agentVars, sweeping, final, sweep, runnerHist, taskVars>>

ClaimAgain ==
    /\ launch.stage = "waiting" /\ launch.woken
    /\ launch' = [launch EXCEPT !.stage = "claiming", !.woken = FALSE]
    /\ UNCHANGED <<checkoutVars, agentVars, claimVars, final, sweep, runnerHist, taskVars>>

(* Refused (shutting down, unknown provider, no capacity), ignored because *)
(* the agent runs, or admitted.                                            *)
LaunchRefused ==
    /\ launch.stage = "resolving"
    /\ launch' = NoLaunch
    /\ UNCHANGED <<checkoutVars, agentVars, claimVars, final, sweep, runnerHist, taskVars>>

LaunchAdmitted ==
    /\ launch.stage = "resolving"
    /\ LET a == launch.agent IN
         /\ ~Running(a)
         /\ run' = [run EXCEPT ![a] = "starting"]
         /\ runs' = [runs EXCEPT ![a] = @ + 1]
         /\ lastPush' = IF a = Owner THEN "none" ELSE lastPush
         /\ finalFlag' = (finalFlag /\ a # Owner)
         /\ unsettled' = [unsettled EXCEPT ![a] = @ \cup {runs'[a]}]
         /\ shared' = (shared \/ a = Sharer)
    /\ launch' = NoLaunch
    /\ UNCHANGED <<checkoutVars, leaving, claimVars, final, sweep, runnerHist, taskVars>>

-----------------------------------------------------------------------------
(***************************************************************************)
(* run_agent.                                                              *)
(***************************************************************************)
Goes(a, stage) == run' = [run EXCEPT ![a] = stage]

(* The checkout is prepared, or found by the agent that shares it ...      *)
Started(a) ==
    /\ run[a] = "starting"
    /\ IF a = Owner
       THEN there' = TRUE
       ELSE there /\ ~Removing(Owner) /\ UNCHANGED there
    /\ Goes(a, "working")
    /\ UNCHANGED <<dirty, lock, runs, lastPush, finalFlag, leaving, unsettled,
                   shared, claimVars, launch, final, sweep, runnerHist, taskVars>>

(* ... or it fails, or the stop comes first: then nothing is pushed, and   *)
(* what was prepared may stay.                                             *)
StartFails(a) ==
    /\ run[a] = "starting"
    /\ there' \in IF a = Owner THEN {there, TRUE} ELSE {there}
    /\ Goes(a, "ended")
    /\ UNCHANGED <<dirty, lock, runs, lastPush, finalFlag, leaving, unsettled,
                   shared, claimVars, launch, final, sweep, runnerHist, taskVars>>

Works(a) ==
    /\ run[a] = "working" /\ there /\ ~dirty
    /\ dirty' = TRUE
    /\ UNCHANGED <<there, lock, agentVars, claimVars, launch, final, sweep, runnerHist, taskVars>>

(* The provider exits or is killed; the exit push waits for its turn.      *)
ProviderEnds(a) ==
    /\ run[a] = "working"
    /\ Goes(a, "unpushed")
    /\ UNCHANGED <<checkoutVars, runs, lastPush, finalFlag, leaving, unsettled,
                   shared, claimVars, launch, final, sweep, runnerHist, taskVars>>

(* A push sends what is there when it begins, or fails.                    *)
Pushes == dirty' = FALSE

ExitPushBegins(a) ==
    /\ run[a] = "unpushed"
    /\ TakeLock("agent")
    /\ Pushes
    /\ Goes(a, IF a = Owner /\ finalFlag THEN "lastPush" ELSE "pushing")
    /\ UNCHANGED <<there, runs, lastPush, finalFlag, leaving, unsettled,
                   shared, claimVars, launch, final, sweep, runnerHist, taskVars>>

Pushed(how) == how = "pushed" => there

ExitPushEnds(a) ==
    /\ run[a] \in {"pushing", "lastPush"}
    /\ \E how \in {"pushed", "failed"} :
         /\ Pushed(how)
         /\ lastPush' = IF run[a] = "lastPush" THEN how ELSE lastPush
    /\ Goes(a, "ended")
    /\ Release
    /\ UNCHANGED <<there, dirty, runs, finalFlag, leaving, unsettled, shared, claimVars,
                   launch, final, sweep, runnerHist, taskVars>>

(* The agent leaves `agents' and gives its slot back.                      *)
Leave(a) ==
    /\ run[a] = "ended"
    /\ Goes(a, "none")
    /\ leaving' = [leaving EXCEPT ![a] = runs[a]]
    /\ UNCHANGED <<checkoutVars, runs, lastPush, finalFlag, unsettled, shared,
                   claimVars, launch, final, sweep, runnerHist, taskVars>>

(* The pump: exit_settled, of the newest run or of one before it.          *)
ExitSettled(a, n) ==
    /\ n \in unsettled[a] /\ ~(n = runs[a] /\ Running(a))
    /\ unsettled' = [unsettled EXCEPT ![a] = @ \ {n}]
    /\ leaving' = [leaving EXCEPT ![a] = IF @ = n THEN 0 ELSE @]
    /\ \/ final.wait # [agent |-> a, run |-> n] /\ UNCHANGED final
       \/ /\ final.wait = [agent |-> a, run |-> n]
          /\ \E how \in {"journaled", "lost"} : final' = [final EXCEPT !.wait = NoExit, !.exit = how]
    /\ UNCHANGED <<checkoutVars, run, runs, lastPush, finalFlag, shared,
                   claimVars, launch, sweep, runnerHist, taskVars>>

-----------------------------------------------------------------------------
(***************************************************************************)
(* final_stop of the owner: one cleanup at a time, which repeats join.     *)
(***************************************************************************)
Final(stage) == final' = [final EXCEPT !.stage = stage]

FinalStopBegins ==
    /\ GateFree
    /\ final.stage = "none" /\ notices < MaxNotices
    /\ final' = [NoFinal EXCEPT !.stage = "flagging", !.mine = Running(Owner)]
    /\ UNCHANGED <<checkoutVars, agentVars, claimVars, launch, sweep, runnerHist, taskVars>>

(* The run that was found is told that its push is the last.               *)
FinalFlagged ==
    /\ final.stage = "flagging"
    /\ finalFlag' = final.mine
    /\ Final("scripts")
    /\ UNCHANGED <<checkoutVars, run, runs, lastPush, leaving, unsettled, shared,
                   claimVars, launch, sweep, runnerHist, taskVars>>

(* stop: wait for the exit record of agent a's run, if there is one.       *)
StopAnd(stage, a) ==
    LET n == IF Running(a) THEN runs[a] ELSE leaving[a] IN
    final' = [final EXCEPT !.stage = stage,
                           !.wait = IF n = 0 THEN NoExit ELSE [agent |-> a, run |-> n],
                           !.exit = IF n = 0 THEN "journaled" ELSE "pending"]

(* Error to rule out: the agents that share the checkout are not stopped *)
FinalScriptsAlone ==
    /\ final.stage = "scripts"
    /\ Final("ending") \/ StopAnd("stopping", Owner)
    /\ UNCHANGED <<checkoutVars, agentVars, claimVars, launch, sweep, runnerHist, taskVars>>

(* Its scripts end, or one is not reaped and nothing more is done.         *)
FinalScripts ==
    /\ final.stage = "scripts"
    /\ \/ Final("ending")
       \/ LiveSharer /\ StopAnd("sharers", Sharer)
       \/ ~LiveSharer /\ StopAnd("stopping", Owner)
    /\ UNCHANGED <<checkoutVars, agentVars, claimVars, launch, sweep, runnerHist, taskVars>>

(* stop_sharers is over; the agent itself is stopped, unless the other or  *)
(* one of its scripts did not stop.                                        *)
FinalSharers ==
    /\ final.stage = "sharers"
    /\ \/ final.exit = "journaled" /\ StopAnd("stopping", Owner)
       \/ final.exit # "pending" /\ Final("ending")
    /\ UNCHANGED <<checkoutVars, agentVars, claimVars, launch, sweep, runnerHist, taskVars>>

(* finish_final_stop: the exit is journaled; the agent's own last push     *)
(* counts, without one the checkout is pushed now ...                      *)
FinalStopped ==
    /\ final.stage = "stopping"
    /\ \/ final.exit = "lost" /\ Final("ending")
       \/ /\ final.exit = "journaled"
          /\ IF final.mine /\ lastPush # "none"
             THEN final' = [final EXCEPT !.stage = "unlocked", !.push = lastPush]
             ELSE Final("unpushed")
    /\ UNCHANGED <<checkoutVars, agentVars, claimVars, launch, sweep, runnerHist, taskVars>>

(* ... unless it is not there, or was left by an earlier process ...       *)
FinalPushSkipped ==
    /\ final.stage = "unpushed"
    /\ ~there \/ runs[Owner] = 0
    /\ final' = [final EXCEPT !.stage = "unlocked", !.push = "skipped"]
    /\ UNCHANGED <<checkoutVars, agentVars, claimVars, launch, sweep, runnerHist, taskVars>>

FinalPushBegins ==
    /\ final.stage = "unpushed"
    /\ there /\ runs[Owner] # 0
    /\ Final("pushlock")
    /\ UNCHANGED <<checkoutVars, agentVars, claimVars, launch, sweep, runnerHist, taskVars>>

FinalPushLocked ==
    /\ final.stage = "pushlock"
    /\ TakeLock("final")
    /\ Pushes
    /\ Final("pushing")
    /\ UNCHANGED <<there, agentVars, claimVars, launch, sweep, runnerHist, taskVars>>

FinalPushEnds ==
    /\ final.stage = "pushing"
    /\ \E how \in {"pushed", "failed"} :
         Pushed(how) /\ final' = [final EXCEPT !.stage = "unlocked", !.push = how]
    /\ Release
    /\ UNCHANGED <<there, dirty, agentVars, claimVars, launch, sweep, runnerHist, taskVars>>

(* Then it is removed under the push lock, or could not be.                *)
FinalLocked ==
    /\ final.stage = "unlocked"
    /\ TakeLock("final")
    /\ Final("removing")
    /\ UNCHANGED <<there, dirty, agentVars, claimVars, launch, sweep, runnerHist, taskVars>>

Removed == there' = FALSE /\ dirty' = FALSE

FinalRemoved ==
    /\ final.stage = "removing"
    /\ \/ UNCHANGED <<there, dirty, lostWork>>
       \/ Removed /\ lostWork' = (lostWork \/ (dirty /\ final.push # "skipped"))
    /\ Final("ending")
    /\ Release
    /\ UNCHANGED <<agentVars, claimVars, launch, sweep, crossed, taskVars>>

(* FinalizingGuard::drop: the entry goes, so that another final stop may   *)
(* begin; then waiting launches are woken.                                 *)
FinalEnds ==
    /\ final.stage = "ending"
    /\ final' = NoFinal
    /\ notices' = notices + 1
    /\ UNCHANGED <<checkoutVars, agentVars, claimVars, launch, sweep, request, runnerHist>>

(* Error to rule out: the guard wakes no launch *)
FinalNotifiesNobody ==
    /\ notices > 0
    /\ notices' = notices - 1
    /\ UNCHANGED <<checkoutVars, agentVars, claimVars, launch, final, sweep, request, runnerHist>>

FinalNotifies ==
    /\ notices > 0
    /\ notices' = notices - 1
    /\ launch' = Woken
    /\ UNCHANGED <<checkoutVars, agentVars, claimVars, final, sweep, request, runnerHist>>

-----------------------------------------------------------------------------
(***************************************************************************)
(* push_now of either agent: a task of its own, which looks again once it  *)
(* has the lock.  Without a checkout or a workspace it is skipped.         *)
(***************************************************************************)
PushNow ==
    /\ request = "none"
    /\ there /\ runs[Owner] # 0
    /\ request' = "waiting"
    /\ UNCHANGED <<checkoutVars, agentVars, claimVars, launch, final, sweep, notices, runnerHist>>

PushNowLocked ==
    /\ request = "waiting"
    /\ TakeLock("request")
    /\ request' = "locked"
    /\ UNCHANGED <<there, dirty, agentVars, claimVars, launch, final, sweep, notices, runnerHist>>

PushNowLooks ==
    /\ request = "locked"
    /\ \/ /\ Removing(Owner) \/ ~there
          /\ request' = "none"
          /\ Release /\ UNCHANGED dirty
       \/ /\ ~Removing(Owner) /\ there
          /\ request' = "pushing"
          /\ Pushes /\ UNCHANGED lock
    /\ UNCHANGED <<there, agentVars, claimVars, launch, final, sweep, notices, runnerHist>>

PushNowEnds ==
    /\ request = "pushing"
    /\ request' = "none"
    /\ Release
    /\ UNCHANGED <<there, dirty, agentVars, claimVars, launch, final, sweep, notices, runnerHist>>

-----------------------------------------------------------------------------
(***************************************************************************)
(* The sweep of bind i.                                                    *)
(***************************************************************************)
Sweep(i, stage) == sweep' = [sweep EXCEPT ![i] = stage]

(* serve_link: once adopted under the gate ...                             *)
Adopted(i) ==
    /\ GateFree
    /\ sweep[i] = "none" /\ \A j \in Sweeps : j < i => sweep[j] # "none"
    /\ Sweep(i, "adopted")
    /\ UNCHANGED <<checkoutVars, agentVars, claimVars, launch, final, runnerHist, taskVars>>

(* ... sweep_candidates takes the list, for any agents on the lease ...    *)
InUse == Running(Owner) \/ leaving[Owner] # 0 \/ Finalizing \/ LiveSharer

SweepList(i) ==
    /\ sweep[i] = "adopted"
    /\ claimed' = {}
    /\ crossed' = (crossed \/ launch # NoLaunch)
    /\ \E onLease \in BOOLEAN : Sweep(i, IF there /\ ~InUse /\ ~onLease THEN "listed" ELSE "over")
    /\ UNCHANGED <<checkoutVars, agentVars, sweeping, launch, final, lostWork, taskVars>>

(* Error to rule out: the sweep does not look again at what it listed *)
SweepTrustsList(i) ==
    /\ sweep[i] = "listed"
    /\ Sweep(i, "unlocked")
    /\ sweeping' = TRUE
    /\ crossed' = (crossed \/ sweeping)
    /\ UNCHANGED <<checkoutVars, agentVars, claimed, launch, final, lostWork, taskVars>>

(* ... and sweep_checkouts looks again before it removes anything.         *)
SweepLooks(i) ==
    /\ sweep[i] = "listed"
    /\ IF Owner \in claimed \/ InUse
       THEN Sweep(i, "over") /\ UNCHANGED <<sweeping, crossed>>
       ELSE /\ Sweep(i, "unlocked")
            /\ sweeping' = TRUE
            /\ crossed' = (crossed \/ sweeping)
    /\ UNCHANGED <<checkoutVars, agentVars, claimed, launch, final, lostWork, taskVars>>

SweepLocked(i) ==
    /\ sweep[i] = "unlocked"
    /\ TakeLock("sweep")
    /\ Sweep(i, "removing")
    /\ UNCHANGED <<there, dirty, agentVars, claimVars, launch, final, runnerHist, taskVars>>

SweepRemoved(i) ==
    /\ sweep[i] = "removing"
    /\ Removed \/ UNCHANGED <<there, dirty>>
    /\ Release
    /\ Sweep(i, "ending")
    /\ UNCHANGED <<agentVars, claimVars, launch, final, runnerHist, taskVars>>

SweepEnds(i) ==
    /\ sweep[i] = "ending"
    /\ sweeping' = FALSE
    /\ Sweep(i, "notify")
    /\ UNCHANGED <<checkoutVars, agentVars, claimed, launch, final, runnerHist, taskVars>>

SweepNotifies(i) ==
    /\ sweep[i] = "notify"
    /\ Sweep(i, "over")
    /\ launch' = Woken
    /\ UNCHANGED <<checkoutVars, agentVars, claimVars, final, runnerHist, taskVars>>

-----------------------------------------------------------------------------
AgentStep(a) ==
    \/ Started(a) \/ StartFails(a) \/ Works(a) \/ ProviderEnds(a)
    \/ ExitPushBegins(a) \/ ExitPushEnds(a) \/ Leave(a)
    \/ \E n \in Runs : ExitSettled(a, n)

FinalStep ==
    \/ FinalFlagged \/ FinalScripts \/ FinalSharers \/ FinalStopped
    \/ FinalPushSkipped \/ FinalPushBegins \/ FinalPushLocked \/ FinalPushEnds
    \/ FinalLocked \/ FinalRemoved \/ FinalEnds \/ FinalNotifies

SweepStep(i) ==
    \/ SweepList(i) \/ SweepLooks(i) \/ SweepLocked(i) \/ SweepRemoved(i)
    \/ SweepEnds(i) \/ SweepNotifies(i)

RunnerNext ==
    \/ \E a \in Agents : Launch(a) \/ AgentStep(a)
    \/ FinalStopBegins \/ FinalStep
    \/ PushNow \/ PushNowLocked \/ PushNowLooks \/ PushNowEnds
    \/ ClaimCheckout \/ ClaimAgain \/ LaunchRefused \/ LaunchAdmitted
    \/ \E i \in Sweeps : Adopted(i) \/ SweepStep(i)

RunnerSpec == RunnerInit /\ [][RunnerNext]_runnerVars

-----------------------------------------------------------------------------
LaunchRecords == [agent : Agents \cup {"none"}, woken : BOOLEAN,
                  stage : {"none", "claiming", "waiting", "resolving"}]
FinalRecords  == [stage : {"none", "flagging", "scripts", "sharers", "stopping", "unpushed",
                           "pushlock", "pushing", "unlocked", "removing", "ending"},
                  mine : BOOLEAN, wait : [agent : Agents, run : {0} \cup Runs],
                  exit : {"none", "pending", "journaled", "lost"},
                  push : {"none", "skipped", "pushed", "failed"}]
RunStages     == {"none", "starting", "working", "unpushed", "pushing", "lastPush", "ended"}
SweepStages   == {"none", "adopted", "listed", "unlocked", "removing", "ending", "notify", "over"}

(* Every variable has its shape.                                           *)
RunnerTypeOK ==
    /\ there \in BOOLEAN /\ dirty \in BOOLEAN /\ finalFlag \in BOOLEAN /\ shared \in BOOLEAN
    /\ sweeping \in BOOLEAN /\ lostWork \in BOOLEAN /\ crossed \in BOOLEAN
    /\ run \in [Agents -> RunStages]
    /\ runs \in [Agents -> {0} \cup Runs] /\ leaving \in [Agents -> {0} \cup Runs]
    /\ unsettled \in [Agents -> SUBSET Runs]
    /\ lastPush \in {"none", "pushed", "failed"}
    /\ claimed \subseteq Agents
    /\ launch \in LaunchRecords /\ final \in FinalRecords
    /\ sweep \in [Sweeps -> SweepStages]
    /\ lock \in {"free", "agent", "final", "sweep", "request"}
    /\ request \in {"none", "waiting", "locked", "pushing"} /\ notices \in Nat

(* Nobody removes the checkout while an agent is started or works in it:   *)
(* not a final stop while an agent that shares it comes and goes, nor a    *)
(* sweep while the owner is launched again, as long as two sweeps do not   *)
(* cross.  Nor while anybody pushes from it: the push lock is with the one *)
(* task that pushes or removes, and the checkout a pushWip sends is there  *)
(* until it is done.                                                       *)
RemovesAlone ==
    /\ final.stage = "removing" \/ (\E i \in Sweeps : sweep[i] = "removing") =>
         \/ crossed
         \/ run[Owner] \in {"none", "ended"} /\ run[Sharer] \in {"none", "starting", "ended"}
    /\ lock = "agent" <=> (\E a \in Agents : run[a] \in {"pushing", "lastPush"})
    /\ lock = "final" <=> (final.stage \in {"pushing", "removing"})
    /\ lock = "sweep" <=> (\E i \in Sweeps : sweep[i] = "removing")
    /\ lock = "request" <=> (request \in {"locked", "pushing"})
    /\ request = "pushing" => there

(* Nobody waits for what is already past.  A launch that waits for a       *)
(* removal is woken by whoever removes: the wait is enabled before the     *)
(* look, so no notification falls in between.  And a stop waits only for   *)
(* an exit record the pump has still to settle, never for one that was     *)
(* settled before it came.                                                 *)
WaitsAreAnswered ==
    /\ launch.stage = "waiting" /\ ~launch.woken =>
         \/ Finalizing \/ notices > 0
         \/ \E i \in Sweeps : sweep[i] \in {"unlocked", "removing", "ending", "notify"}
    /\ final.wait # NoExit => final.wait.run \in unsettled[final.wait.agent]

(* A final stop that reports a push, done or failed, removes nothing that  *)
(* no push tried to send: whoever else worked in the checkout has stopped, *)
(* and began its push after its last work, before it is removed.           *)
PushedBeforeRemoval == ~lostWork

(* What makes these inductive.  An agent is busy from the time it works    *)
(* until its exit push is over.                                            *)
Busy(a) == run[a] \in {"working", "unpushed", "pushing", "lastPush"}

(* The owner's launch is past its claim only while nothing is removed, and *)
(* its claim stands as long as no list came late.                          *)
LaunchOrder ==
    /\ runs[Owner] + runs[Sharer] <= MaxLaunches
    /\ launch.stage # "none" =>
         launch.agent \in Agents /\ runs[Owner] + runs[Sharer] < MaxLaunches
    /\ launch.stage = "resolving" /\ launch.agent = Owner =>
         /\ ~Finalizing
         /\ crossed \/ (Owner \in claimed /\ \A i \in Sweeps : sweep[i] \notin {"unlocked", "removing"})

(* The exit of a run that is up or leaving is still to be settled.         *)
ExitOrder ==
    /\ \A a \in Agents : /\ Running(a) => runs[a] \in unsettled[a]
                         /\ leaving[a] # 0 => leaving[a] \in unsettled[a]
    /\ Running(Sharer) => shared

(* A final stop goes on once the exit it waits for is settled: then the    *)
(* sharer can only be started, and is kept waiting; the owner is gone.     *)
FinalAlone ==
    /\ final.stage = "sharers" =>
         IF final.exit = "pending"
         THEN final.wait.agent = Sharer /\ (Busy(Sharer) => runs[Sharer] = final.wait.run)
         ELSE ~Busy(Sharer)
    /\ final.stage = "stopping" =>
         IF final.exit = "pending"
         THEN final.wait.agent = Owner /\ (Running(Owner) => runs[Owner] = final.wait.run)
         ELSE ~Running(Owner)
    /\ final.stage \in {"stopping", "unpushed", "pushlock", "pushing", "unlocked", "removing"} => ~Busy(Sharer)
    /\ final.stage \in {"unpushed", "pushlock", "pushing", "unlocked", "removing"} => ~Running(Owner)

(* One sweep removes at a time, and `sweeping' says so, unless two cross.  *)
SweepHolds(i) == sweep[i] \in {"unlocked", "removing", "ending"}

SweepAlone ==
    /\ sweeping => \E i \in Sweeps : SweepHolds(i)
    /\ ~crossed =>
         /\ \A i \in Sweeps : SweepHolds(i) => sweeping
         /\ \A i, j \in Sweeps : SweepHolds(i) /\ SweepHolds(j) => i = j
         /\ \A i \in Sweeps : sweep[i] \in {"unlocked", "removing"} => ~Running(Owner) /\ ~Busy(Sharer)

(* Whoever has the push lock is alone with it.                             *)
LockAlone ==
    /\ \A a, b \in Agents :
         run[a] \in {"pushing", "lastPush"} /\ run[b] \in {"pushing", "lastPush"} => a = b
    /\ \A i, j \in Sweeps : sweep[i] = "removing" /\ sweep[j] = "removing" => i = j

(* Work that no push tried to send is of an agent that has still to begin  *)
(* its push.                                                               *)
WorkIsPushed == dirty => \E a \in Agents : run[a] \in {"working", "unpushed"}

RunnerOrder ==
    /\ LaunchOrder /\ ExitOrder /\ FinalAlone /\ SweepAlone /\ LockAlone /\ WorkIsPushed
    /\ RemovesAlone /\ WaitsAreAnswered /\ PushedBeforeRemoval

RunnerInv == RunnerTypeOK /\ RunnerOrder
=============================================================================
