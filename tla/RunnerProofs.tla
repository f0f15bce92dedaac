---------------------------- MODULE RunnerProofs ----------------------------
(***************************************************************************)
(* Proofs about the machine's runner and a checkout, for any number of     *)
(* launches and sweeps.                                                    *)
(***************************************************************************)
EXTENDS Runner, TLAPS

-----------------------------------------------------------------------------
(* What each part of the invariant is about: the launch,                   *)
LEMMA LaunchOrderFrame ==
    ASSUME LaunchOrder, UNCHANGED <<runs, launch, final, claimed, sweep, crossed>>
    PROVE  LaunchOrder'
  BY DEF LaunchOrder, Finalizing

(* the exits,                                                              *)
LEMMA ExitOrderFrame ==
    ASSUME ExitOrder, UNCHANGED <<run, runs, unsettled, leaving, shared>>
    PROVE  ExitOrder'
  BY DEF ExitOrder, Running

(* the final stop,                                                         *)
LEMMA FinalAloneFrame ==
    ASSUME FinalAlone, UNCHANGED <<final, run, runs>>
    PROVE  FinalAlone'
  BY DEF FinalAlone, Running, Busy

(* the sweeps,                                                             *)
LEMMA SweepAloneFrame ==
    ASSUME SweepAlone, UNCHANGED <<sweeping, sweep, crossed, run>>
    PROVE  SweepAlone'
  BY DEF SweepAlone, Running, Busy, SweepHolds

(* the push lock,                                                          *)
LEMMA LockAloneFrame ==
    ASSUME LockAlone, UNCHANGED <<run, sweep>>
    PROVE  LockAlone'
  BY DEF LockAlone

(* what is not pushed,                                                     *)
LEMMA WorkIsPushedFrame ==
    ASSUME WorkIsPushed, UNCHANGED <<dirty, run>>
    PROVE  WorkIsPushed'
  BY DEF WorkIsPushed, Busy

(* who removes,                                                            *)
LEMMA RemovesAloneFrame ==
    ASSUME RemovesAlone, UNCHANGED <<final, sweep, crossed, run, lock, request, there>>
    PROVE  RemovesAlone'
  BY DEF RemovesAlone

(* who waits,                                                              *)
LEMMA WaitsAreAnsweredFrame ==
    ASSUME WaitsAreAnswered, UNCHANGED <<launch, final, notices, sweep, unsettled>>
    PROVE  WaitsAreAnswered'
  BY DEF WaitsAreAnswered, Finalizing

(* and what was lost.                                                      *)
LEMMA PushedBeforeRemovalFrame ==
    ASSUME PushedBeforeRemoval, UNCHANGED <<lostWork>>
    PROVE  PushedBeforeRemoval'
  BY DEF PushedBeforeRemoval

(* A stop waits for an exit that is still to be settled, if there is one.  *)
LEMMA StopAndIs ==
    ASSUME RunnerTypeOK, ExitOrder, NEW a \in Agents, NEW x \in {"sharers", "stopping"}, StopAnd(x, a)
    PROVE  /\ final' \in FinalRecords /\ final'.stage = x
           /\ \/ /\ final'.exit = "pending" /\ final'.wait.agent = a /\ final'.wait.run \in unsettled[a]
                 /\ Running(a) => final'.wait.run = runs[a]
              \/ final'.exit = "journaled" /\ final'.wait = NoExit /\ ~Running(a)
<1> DEFINE n == IF Running(a) THEN runs[a] ELSE leaving[a]
<1>1. final \in FinalRecords /\ n \in {0} \cup Runs /\ NoExit \in [agent : Agents, run : {0} \cup Runs]
  BY DEF RunnerTypeOK, NoExit, Agents
<1>2. n # 0 => n \in unsettled[a]
  BY DEF ExitOrder
<1>3. n = 0 => ~Running(a)
  BY DEF ExitOrder, RunnerTypeOK, Runs
<1>4. final' = [final EXCEPT !.stage = x,
                            !.wait = IF n = 0 THEN NoExit ELSE [agent |-> a, run |-> n],
                            !.exit = IF n = 0 THEN "journaled" ELSE "pending"]
  BY DEF StopAnd
<1>5. Running(a) => n = runs[a]
  OBVIOUS
<1> HIDE DEF n
<1>6. CASE n = 0
  BY <1>1, <1>3, <1>4, <1>6 DEF FinalRecords
<1>7. CASE n # 0
  BY <1>1, <1>2, <1>4, <1>5, <1>7 DEF FinalRecords
<1> QED
  BY <1>6, <1>7

(* Launch: one at a time.                                                  *)
LEMMA LaunchStep ==
    ASSUME RunnerInv, NEW a \in Agents, Launch(a)
    PROVE  RunnerInv'
<1>i. /\ RunnerTypeOK /\ LaunchOrder /\ ExitOrder /\ FinalAlone /\ SweepAlone /\ LockAlone
      /\ WorkIsPushed /\ RemovesAlone /\ WaitsAreAnswered /\ PushedBeforeRemoval
  BY DEF RunnerInv, RunnerOrder
<1>a. Owner \in Agents /\ Sharer \in Agents /\ Owner # Sharer /\ (\A c \in Agents : c \in {Owner, Sharer})
  BY RunnerAssumption DEF Agents
<1>u. UNCHANGED <<there, dirty, lock, run, runs, lastPush, finalFlag, leaving,
                  unsettled, shared, claimed, sweeping, final, sweep, lostWork,
                  crossed, request, notices>>
  BY DEF Launch, checkoutVars, agentVars, claimVars, taskVars, runnerHist
<1>t1. launch' \in LaunchRecords
  BY <1>i, <1>a DEF Launch, GateFree, NoLaunch, LaunchRecords, RunnerTypeOK
<1>t. RunnerTypeOK'
  BY <1>i, <1>u, <1>t1 DEF RunnerTypeOK
<1>e. /\ launch'.stage = "claiming" /\ launch'.agent = a
      /\ runs[Owner] + runs[Sharer] < MaxLaunches
      /\ launch.stage = "none"
  BY <1>i, <1>a DEF Launch, GateFree, NoLaunch, LaunchRecords, RunnerTypeOK
<1>1. LaunchOrder'
  BY <1>i, <1>a, <1>u, <1>e DEF LaunchOrder, Finalizing, SweepAlone, SweepHolds
<1>2. WaitsAreAnswered'
  BY <1>i, <1>a, <1>u, <1>e DEF WaitsAreAnswered, Finalizing, ExitOrder, SweepAlone, SweepHolds, Running
<1> QED
  BY <1>i, <1>t, <1>u, <1>1, <1>2, ExitOrderFrame, FinalAloneFrame, SweepAloneFrame,
     LockAloneFrame, WorkIsPushedFrame, RemovesAloneFrame, PushedBeforeRemovalFrame
     DEF RunnerInv, RunnerOrder

(* ClaimCheckout: the wait is enabled before the look.                     *)
LEMMA ClaimCheckoutStep ==
    ASSUME RunnerInv, ClaimCheckout
    PROVE  RunnerInv'
<1>i. /\ RunnerTypeOK /\ LaunchOrder /\ ExitOrder /\ FinalAlone /\ SweepAlone /\ LockAlone
      /\ WorkIsPushed /\ RemovesAlone /\ WaitsAreAnswered /\ PushedBeforeRemoval
  BY DEF RunnerInv, RunnerOrder
<1>a. Owner \in Agents /\ Sharer \in Agents /\ Owner # Sharer /\ (\A c \in Agents : c \in {Owner, Sharer})
  BY RunnerAssumption DEF Agents
<1>u. UNCHANGED <<there, dirty, lock, run, runs, lastPush, finalFlag, leaving,
                  unsettled, shared, sweeping, final, sweep, lostWork, crossed, request, notices>>
  BY DEF ClaimCheckout, checkoutVars, agentVars, claimVars, taskVars, runnerHist
<1>t1. claimed' \subseteq Agents
  BY <1>i DEF ClaimCheckout, RunnerTypeOK, LaunchOrder
<1>t2. launch' \in LaunchRecords
  BY <1>i, <1>a DEF ClaimCheckout, Removing, LaunchRecords, RunnerTypeOK
<1>t. RunnerTypeOK'
  BY <1>i, <1>u, <1>t1, <1>t2 DEF RunnerTypeOK
<1>e. /\ launch.stage = "claiming" /\ launch'.agent = launch.agent /\ launch'.woken = launch.woken
      /\ claimed' = claimed \cup {launch.agent}
      /\ \/ launch'.stage = "waiting" /\ launch.agent = Owner /\ (Finalizing \/ sweeping)
         \/ launch'.stage = "resolving" /\ (launch.agent = Owner => ~Finalizing /\ ~sweeping)
  BY <1>i, <1>a DEF ClaimCheckout, Removing, LaunchRecords, RunnerTypeOK
<1>1. LaunchOrder'
  BY <1>i, <1>a, <1>u, <1>e DEF LaunchOrder, Finalizing, SweepAlone, SweepHolds
<1>2. WaitsAreAnswered'
  BY <1>i, <1>a, <1>u, <1>e DEF WaitsAreAnswered, ExitOrder, SweepAlone, SweepHolds, Running,
                                Finalizing
<1> QED
  BY <1>i, <1>t, <1>u, <1>1, <1>2, ExitOrderFrame, FinalAloneFrame, SweepAloneFrame,
     LockAloneFrame, WorkIsPushedFrame, RemovesAloneFrame, PushedBeforeRemovalFrame
     DEF RunnerInv, RunnerOrder

(* ClaimAgain: it looks again once woken.                                  *)
LEMMA ClaimAgainStep ==
    ASSUME RunnerInv, ClaimAgain
    PROVE  RunnerInv'
<1>i. /\ RunnerTypeOK /\ LaunchOrder /\ ExitOrder /\ FinalAlone /\ SweepAlone /\ LockAlone
      /\ WorkIsPushed /\ RemovesAlone /\ WaitsAreAnswered /\ PushedBeforeRemoval
  BY DEF RunnerInv, RunnerOrder
<1>a. Owner \in Agents /\ Sharer \in Agents /\ Owner # Sharer /\ (\A c \in Agents : c \in {Owner, Sharer})
  BY RunnerAssumption DEF Agents
<1>u. UNCHANGED <<there, dirty, lock, run, runs, lastPush, finalFlag, leaving,
                  unsettled, shared, claimed, sweeping, final, sweep, lostWork,
                  crossed, request, notices>>
  BY DEF ClaimAgain, checkoutVars, agentVars, claimVars, taskVars, runnerHist
<1>t1. launch' \in LaunchRecords
  BY <1>i, <1>a DEF ClaimAgain, LaunchRecords, RunnerTypeOK
<1>t. RunnerTypeOK'
  BY <1>i, <1>u, <1>t1 DEF RunnerTypeOK
<1>e. /\ launch.stage = "waiting" /\ launch'.stage = "claiming" /\ launch'.agent = launch.agent
  BY <1>i, <1>a DEF ClaimAgain, LaunchRecords, RunnerTypeOK
<1>1. LaunchOrder'
  BY <1>i, <1>a, <1>u, <1>e DEF LaunchOrder, Finalizing, SweepAlone, SweepHolds
<1>2. WaitsAreAnswered'
  BY <1>i, <1>a, <1>u, <1>e DEF WaitsAreAnswered, Finalizing, ExitOrder, SweepAlone, SweepHolds, Running
<1> QED
  BY <1>i, <1>t, <1>u, <1>1, <1>2, ExitOrderFrame, FinalAloneFrame, SweepAloneFrame,
     LockAloneFrame, WorkIsPushedFrame, RemovesAloneFrame, PushedBeforeRemovalFrame
     DEF RunnerInv, RunnerOrder

(* LaunchRefused: nothing is launched.                                     *)
LEMMA LaunchRefusedStep ==
    ASSUME RunnerInv, LaunchRefused
    PROVE  RunnerInv'
<1>i. /\ RunnerTypeOK /\ LaunchOrder /\ ExitOrder /\ FinalAlone /\ SweepAlone /\ LockAlone
      /\ WorkIsPushed /\ RemovesAlone /\ WaitsAreAnswered /\ PushedBeforeRemoval
  BY DEF RunnerInv, RunnerOrder
<1>a. Owner \in Agents /\ Sharer \in Agents /\ Owner # Sharer /\ (\A c \in Agents : c \in {Owner, Sharer})
  BY RunnerAssumption DEF Agents
<1>u. UNCHANGED <<there, dirty, lock, run, runs, lastPush, finalFlag, leaving,
                  unsettled, shared, claimed, sweeping, final, sweep, lostWork,
                  crossed, request, notices>>
  BY DEF LaunchRefused, checkoutVars, agentVars, claimVars, taskVars, runnerHist
<1>t1. launch' \in LaunchRecords
  BY <1>i, <1>a DEF LaunchRefused, NoLaunch, LaunchRecords, RunnerTypeOK
<1>t. RunnerTypeOK'
  BY <1>i, <1>u, <1>t1 DEF RunnerTypeOK
<1>e. /\ launch'.stage = "none"
  BY <1>i, <1>a DEF LaunchRefused, NoLaunch, LaunchRecords, RunnerTypeOK
<1>1. LaunchOrder'
  BY <1>i, <1>a, <1>u, <1>e DEF LaunchOrder, Finalizing, SweepAlone, SweepHolds
<1>2. WaitsAreAnswered'
  BY <1>i, <1>a, <1>u, <1>e DEF WaitsAreAnswered, Finalizing, ExitOrder, SweepAlone, SweepHolds, Running
<1> QED
  BY <1>i, <1>t, <1>u, <1>1, <1>2, ExitOrderFrame, FinalAloneFrame, SweepAloneFrame,
     LockAloneFrame, WorkIsPushedFrame, RemovesAloneFrame, PushedBeforeRemovalFrame
     DEF RunnerInv, RunnerOrder

(* LaunchAdmitted: the run's exit is to be settled.                        *)
LEMMA LaunchAdmittedStep ==
    ASSUME RunnerInv, LaunchAdmitted
    PROVE  RunnerInv'
<1>i. /\ RunnerTypeOK /\ LaunchOrder /\ ExitOrder /\ FinalAlone /\ SweepAlone /\ LockAlone
      /\ WorkIsPushed /\ RemovesAlone /\ WaitsAreAnswered /\ PushedBeforeRemoval
  BY DEF RunnerInv, RunnerOrder
<1>a. Owner \in Agents /\ Sharer \in Agents /\ Owner # Sharer /\ (\A c \in Agents : c \in {Owner, Sharer})
  BY RunnerAssumption DEF Agents
<1>u. UNCHANGED <<there, dirty, lock, leaving, claimed, sweeping, final, sweep,
                  lostWork, crossed, request, notices>>
  BY DEF LaunchAdmitted, checkoutVars, agentVars, claimVars, taskVars, runnerHist
<1>p. /\ launch.stage = "resolving" /\ launch.agent \in Agents /\ run[launch.agent] = "none"
      /\ \A b \in Agents : runs[b] \in Nat
      /\ runs[Owner] + runs[Sharer] < MaxLaunches
  BY <1>i, RunnerAssumption DEF LaunchAdmitted, LaunchOrder, RunnerTypeOK, Running, Runs
<1>q. runs[launch.agent] + 1 \in Runs
  BY <1>a, <1>p, RunnerAssumption DEF Runs
<1>r. /\ run' = [run EXCEPT ![launch.agent] = "starting"]
      /\ runs' = [runs EXCEPT ![launch.agent] = runs[launch.agent] + 1]
      /\ unsettled' = [unsettled EXCEPT ![launch.agent] = unsettled[launch.agent] \cup {runs'[launch.agent]}]
      /\ launch'.stage = "none" /\ ((shared \/ launch.agent = Sharer) => shared')
  BY DEF LaunchAdmitted, NoLaunch
<1>t1. run' \in [Agents -> RunStages]
  BY <1>i, <1>p, <1>r DEF RunnerTypeOK, RunStages
<1>t2. runs' \in [Agents -> {0} \cup Runs]
  BY <1>i, <1>q, <1>r DEF RunnerTypeOK
<1>t3. lastPush' \in {"none", "pushed", "failed"}
  BY <1>i, <1>a DEF LaunchAdmitted, Running, NoLaunch, LaunchRecords, RunnerTypeOK
<1>t4. finalFlag' \in BOOLEAN
  BY <1>i, <1>a, Zenon DEF LaunchAdmitted, Running, NoLaunch, LaunchRecords, RunnerTypeOK
<1>t5. unsettled' \in [Agents -> SUBSET Runs]
  BY <1>i, <1>p, <1>q, <1>r DEF RunnerTypeOK
<1>t6. shared' \in BOOLEAN
  BY <1>i, <1>a, Zenon DEF LaunchAdmitted, Running, NoLaunch, LaunchRecords, RunnerTypeOK
<1>t7. launch' \in LaunchRecords
  BY <1>i, <1>a DEF LaunchAdmitted, Running, NoLaunch, LaunchRecords, RunnerTypeOK
<1>t. RunnerTypeOK'
  BY <1>i, <1>u, <1>t1, <1>t2, <1>t3, <1>t4, <1>t5, <1>t6, <1>t7
     DEF RunnerTypeOK
<1>e. /\ launch.stage = "resolving" /\ launch'.stage = "none" /\ launch.agent \in Agents
      /\ run[launch.agent] = "none" /\ run'[launch.agent] = "starting" /\ runs'[launch.agent] = runs[launch.agent] + 1
      /\ \A b \in Agents : b # launch.agent => run'[b] = run[b] /\ runs'[b] = runs[b] /\ unsettled'[b] = unsettled[b]
      /\ unsettled'[launch.agent] = unsettled[launch.agent] \cup {runs'[launch.agent]}
      /\ (shared \/ launch.agent = Sharer) => shared'
      /\ \A b \in Agents : runs[b] \in Nat
  BY <1>i, <1>p, <1>r DEF RunnerTypeOK
<1>1. LaunchOrder'
  <2>1. runs'[Owner] + runs'[Sharer] <= MaxLaunches
    BY <1>a, <1>p, <1>e, RunnerAssumption
  <2> QED
    BY <1>e, <2>1 DEF LaunchOrder
<1>2. ExitOrder'
  BY <1>i, <1>a, <1>u, <1>e DEF ExitOrder, Running
<1>3. FinalAlone'
  BY <1>i, <1>a, <1>u, <1>e DEF FinalAlone, Running, Busy, LaunchOrder, Finalizing, ExitOrder
<1>4. SweepAlone'
  BY <1>i, <1>a, <1>u, <1>e DEF SweepAlone, Running, Busy, SweepHolds, LaunchOrder, ExitOrder
<1>5. LockAlone'
  BY <1>i, <1>a, <1>u, <1>e DEF LockAlone, RemovesAlone
<1>6. WorkIsPushed'
  BY <1>i, <1>a, <1>u, <1>e DEF WorkIsPushed, Busy
<1>7. RemovesAlone'
  <2>1. final'.stage = "removing" \/ (\E j \in Sweeps : sweep'[j] = "removing") =>
          \/ crossed'
          \/ run'[Owner] \in {"none", "ended"} /\ run'[Sharer] \in {"none", "starting", "ended"}
    BY <1>i, <1>a, <1>t, <1>u, <1>e DEF RemovesAlone, FinalAlone, SweepAlone, SweepHolds,
                                        LaunchOrder, Finalizing, Running, Busy, RunnerTypeOK,
                                        RunStages
  <2>2. lock' = "agent" <=> (\E b \in Agents : run'[b] \in {"pushing", "lastPush"})
    BY <1>i, <1>u, <1>e DEF RemovesAlone
  <2>3. lock' = "final" <=> (final'.stage \in {"pushing", "removing"})
    BY <1>i, <1>u, <1>e DEF RemovesAlone
  <2>4. lock' = "sweep" <=> (\E j \in Sweeps : sweep'[j] = "removing")
    BY <1>i, <1>u, <1>e DEF RemovesAlone
  <2>5. /\ lock' = "request" <=> (request' \in {"locked", "pushing"})
        /\ request' = "pushing" => there'
    BY <1>i, <1>u, <1>e DEF RemovesAlone
  <2> QED
    BY <2>1, <2>2, <2>3, <2>4, <2>5 DEF RemovesAlone
<1>8. WaitsAreAnswered'
  <2>1. \A b \in Agents : unsettled[b] \subseteq unsettled'[b]
    BY <1>e
  <2>2. final.wait.agent \in Agents
    BY <1>i DEF RunnerTypeOK, FinalRecords
  <2> QED
    BY <1>i, <1>u, <1>e, <2>1, <2>2 DEF WaitsAreAnswered
<1> QED
  BY <1>i, <1>t, <1>u, <1>1, <1>2, <1>3, <1>4, <1>5, <1>6, <1>7, <1>8,
     PushedBeforeRemovalFrame DEF RunnerInv, RunnerOrder

(* Started: an agent that shares the checkout waits for its removal.       *)
LEMMA StartedStep ==
    ASSUME RunnerInv, NEW a \in Agents, Started(a)
    PROVE  RunnerInv'
<1>i. /\ RunnerTypeOK /\ LaunchOrder /\ ExitOrder /\ FinalAlone /\ SweepAlone /\ LockAlone
      /\ WorkIsPushed /\ RemovesAlone /\ WaitsAreAnswered /\ PushedBeforeRemoval
  BY DEF RunnerInv, RunnerOrder
<1>a. Owner \in Agents /\ Sharer \in Agents /\ Owner # Sharer /\ (\A c \in Agents : c \in {Owner, Sharer})
  BY RunnerAssumption DEF Agents
<1>u. UNCHANGED <<dirty, lock, runs, lastPush, finalFlag, leaving, unsettled,
                  shared, claimed, sweeping, launch, final, sweep, lostWork,
                  crossed, request, notices>>
  BY DEF Started, checkoutVars, agentVars, claimVars, taskVars, runnerHist
<1>t1. there' \in BOOLEAN
  BY <1>i, <1>a, Zenon DEF Started, Goes, Removing, RunStages, RunnerTypeOK
<1>t2. run' \in [Agents -> RunStages]
  BY <1>i, <1>a DEF Started, Goes, Removing, RunStages, RunnerTypeOK
<1>t. RunnerTypeOK'
  BY <1>i, <1>u, <1>t1, <1>t2 DEF RunnerTypeOK
<1>e. /\ run[a] = "starting" /\ (there => there')
      /\ run'[a] = "working" /\ \A b \in Agents : b # a => run'[b] = run[b]
      /\ a = Sharer => ~Finalizing /\ ~sweeping
  BY <1>i, <1>a DEF Started, Goes, Removing, RunStages, RunnerTypeOK
<1>1. ExitOrder'
  BY <1>i, <1>a, <1>u, <1>e DEF ExitOrder, Running
<1>2. FinalAlone'
  BY <1>i, <1>a, <1>u, <1>e DEF FinalAlone, Running, Busy, LaunchOrder, Finalizing, ExitOrder
<1>3. SweepAlone'
  BY <1>i, <1>a, <1>u, <1>e DEF SweepAlone, Running, Busy, SweepHolds, LaunchOrder, ExitOrder
<1>4. LockAlone'
  BY <1>i, <1>a, <1>u, <1>e DEF LockAlone, RemovesAlone
<1>5. WorkIsPushed'
  BY <1>i, <1>a, <1>u, <1>e DEF WorkIsPushed, Busy
<1>6. RemovesAlone'
  <2>1. final'.stage = "removing" \/ (\E j \in Sweeps : sweep'[j] = "removing") =>
          \/ crossed'
          \/ run'[Owner] \in {"none", "ended"} /\ run'[Sharer] \in {"none", "starting", "ended"}
    BY <1>i, <1>a, <1>t, <1>u, <1>e DEF RemovesAlone, FinalAlone, SweepAlone, SweepHolds,
                                        LaunchOrder, Finalizing, Running, Busy, RunnerTypeOK,
                                        RunStages
  <2>2. lock' = "agent" <=> (\E b \in Agents : run'[b] \in {"pushing", "lastPush"})
    BY <1>i, <1>u, <1>e DEF RemovesAlone
  <2>3. lock' = "final" <=> (final'.stage \in {"pushing", "removing"})
    BY <1>i, <1>u, <1>e DEF RemovesAlone
  <2>4. lock' = "sweep" <=> (\E j \in Sweeps : sweep'[j] = "removing")
    BY <1>i, <1>u, <1>e DEF RemovesAlone
  <2>5. /\ lock' = "request" <=> (request' \in {"locked", "pushing"})
        /\ request' = "pushing" => there'
    BY <1>i, <1>u, <1>e DEF RemovesAlone
  <2> QED
    BY <2>1, <2>2, <2>3, <2>4, <2>5 DEF RemovesAlone
<1> QED
  BY <1>i, <1>t, <1>u, <1>1, <1>2, <1>3, <1>4, <1>5, <1>6, LaunchOrderFrame,
     WaitsAreAnsweredFrame, PushedBeforeRemovalFrame DEF RunnerInv, RunnerOrder

(* StartFails: nothing is pushed.                                          *)
LEMMA StartFailsStep ==
    ASSUME RunnerInv, NEW a \in Agents, StartFails(a)
    PROVE  RunnerInv'
<1>i. /\ RunnerTypeOK /\ LaunchOrder /\ ExitOrder /\ FinalAlone /\ SweepAlone /\ LockAlone
      /\ WorkIsPushed /\ RemovesAlone /\ WaitsAreAnswered /\ PushedBeforeRemoval
  BY DEF RunnerInv, RunnerOrder
<1>a. Owner \in Agents /\ Sharer \in Agents /\ Owner # Sharer /\ (\A c \in Agents : c \in {Owner, Sharer})
  BY RunnerAssumption DEF Agents
<1>u. UNCHANGED <<dirty, lock, runs, lastPush, finalFlag, leaving, unsettled,
                  shared, claimed, sweeping, launch, final, sweep, lostWork,
                  crossed, request, notices>>
  BY DEF StartFails, checkoutVars, agentVars, claimVars, taskVars, runnerHist
<1>t1. there' \in BOOLEAN
  BY <1>i, <1>a, Zenon DEF StartFails, Goes, RunStages, RunnerTypeOK
<1>t2. run' \in [Agents -> RunStages]
  BY <1>i, <1>a DEF StartFails, Goes, RunStages, RunnerTypeOK
<1>t. RunnerTypeOK'
  BY <1>i, <1>u, <1>t1, <1>t2 DEF RunnerTypeOK
<1>e. /\ run[a] = "starting" /\ (there => there')
      /\ run'[a] = "ended" /\ \A b \in Agents : b # a => run'[b] = run[b]
  BY <1>i, <1>a DEF StartFails, Goes, RunStages, RunnerTypeOK
<1>1. ExitOrder'
  BY <1>i, <1>a, <1>u, <1>e DEF ExitOrder, Running
<1>2. FinalAlone'
  BY <1>i, <1>a, <1>u, <1>e DEF FinalAlone, Running, Busy, LaunchOrder, Finalizing, ExitOrder
<1>3. SweepAlone'
  BY <1>i, <1>a, <1>u, <1>e DEF SweepAlone, Running, Busy, SweepHolds, LaunchOrder, ExitOrder
<1>4. LockAlone'
  BY <1>i, <1>a, <1>u, <1>e DEF LockAlone, RemovesAlone
<1>5. WorkIsPushed'
  BY <1>i, <1>a, <1>u, <1>e DEF WorkIsPushed, Busy
<1>6. RemovesAlone'
  BY <1>i, <1>a, <1>u, <1>e DEF RemovesAlone, Agents, LockAlone, FinalAlone, SweepAlone, SweepHolds,
                                Running, Busy
<1> QED
  BY <1>i, <1>t, <1>u, <1>1, <1>2, <1>3, <1>4, <1>5, <1>6, LaunchOrderFrame,
     WaitsAreAnsweredFrame, PushedBeforeRemovalFrame DEF RunnerInv, RunnerOrder

(* Works: it has something to push.                                        *)
LEMMA WorksStep ==
    ASSUME RunnerInv, NEW a \in Agents, Works(a)
    PROVE  RunnerInv'
<1>i. /\ RunnerTypeOK /\ LaunchOrder /\ ExitOrder /\ FinalAlone /\ SweepAlone /\ LockAlone
      /\ WorkIsPushed /\ RemovesAlone /\ WaitsAreAnswered /\ PushedBeforeRemoval
  BY DEF RunnerInv, RunnerOrder
<1>a. Owner \in Agents /\ Sharer \in Agents /\ Owner # Sharer /\ (\A c \in Agents : c \in {Owner, Sharer})
  BY RunnerAssumption DEF Agents
<1>u. UNCHANGED <<there, lock, run, runs, lastPush, finalFlag, leaving,
                  unsettled, shared, claimed, sweeping, launch, final, sweep,
                  lostWork, crossed, request, notices>>
  BY DEF Works, checkoutVars, agentVars, claimVars, taskVars, runnerHist
<1>t1. dirty' \in BOOLEAN
  BY <1>i, <1>a, Zenon DEF Works, RunnerTypeOK
<1>t. RunnerTypeOK'
  BY <1>i, <1>u, <1>t1 DEF RunnerTypeOK
<1>e. /\ run[a] = "working"
  BY <1>i, <1>a DEF Works, RunnerTypeOK
<1>1. WorkIsPushed'
  BY <1>i, <1>a, <1>u, <1>e DEF WorkIsPushed, Busy
<1> QED
  BY <1>i, <1>t, <1>u, <1>1, LaunchOrderFrame, ExitOrderFrame, FinalAloneFrame,
     SweepAloneFrame, LockAloneFrame, RemovesAloneFrame, WaitsAreAnsweredFrame,
     PushedBeforeRemovalFrame DEF RunnerInv, RunnerOrder

(* ProviderEnds: the exit push is to come.                                 *)
LEMMA ProviderEndsStep ==
    ASSUME RunnerInv, NEW a \in Agents, ProviderEnds(a)
    PROVE  RunnerInv'
<1>i. /\ RunnerTypeOK /\ LaunchOrder /\ ExitOrder /\ FinalAlone /\ SweepAlone /\ LockAlone
      /\ WorkIsPushed /\ RemovesAlone /\ WaitsAreAnswered /\ PushedBeforeRemoval
  BY DEF RunnerInv, RunnerOrder
<1>a. Owner \in Agents /\ Sharer \in Agents /\ Owner # Sharer /\ (\A c \in Agents : c \in {Owner, Sharer})
  BY RunnerAssumption DEF Agents
<1>u. UNCHANGED <<there, dirty, lock, runs, lastPush, finalFlag, leaving,
                  unsettled, shared, claimed, sweeping, launch, final, sweep,
                  lostWork, crossed, request, notices>>
  BY DEF ProviderEnds, checkoutVars, agentVars, claimVars, taskVars, runnerHist
<1>t1. run' \in [Agents -> RunStages]
  BY <1>i, <1>a DEF ProviderEnds, Goes, RunStages, RunnerTypeOK
<1>t. RunnerTypeOK'
  BY <1>i, <1>u, <1>t1 DEF RunnerTypeOK
<1>e. /\ run[a] = "working"
      /\ run'[a] = "unpushed" /\ \A b \in Agents : b # a => run'[b] = run[b]
  BY <1>i, <1>a DEF ProviderEnds, Goes, RunStages, RunnerTypeOK
<1>1. ExitOrder'
  BY <1>i, <1>a, <1>u, <1>e DEF ExitOrder, Running
<1>2. FinalAlone'
  BY <1>i, <1>a, <1>u, <1>e DEF FinalAlone, Running, Busy, LaunchOrder, Finalizing, ExitOrder
<1>3. SweepAlone'
  BY <1>i, <1>a, <1>u, <1>e DEF SweepAlone, Running, Busy, SweepHolds, LaunchOrder, ExitOrder
<1>4. LockAlone'
  BY <1>i, <1>a, <1>u, <1>e DEF LockAlone, RemovesAlone
<1>5. WorkIsPushed'
  BY <1>i, <1>a, <1>u, <1>e DEF WorkIsPushed, Busy
<1>6. RemovesAlone'
  BY <1>i, <1>a, <1>u, <1>e DEF RemovesAlone, Agents, LockAlone, FinalAlone, SweepAlone, SweepHolds,
                                Running, Busy
<1> QED
  BY <1>i, <1>t, <1>u, <1>1, <1>2, <1>3, <1>4, <1>5, <1>6, LaunchOrderFrame,
     WaitsAreAnsweredFrame, PushedBeforeRemovalFrame DEF RunnerInv, RunnerOrder

(* ExitPushBegins: with the lock.                                          *)
LEMMA ExitPushBeginsStep ==
    ASSUME RunnerInv, NEW a \in Agents, ExitPushBegins(a)
    PROVE  RunnerInv'
<1>i. /\ RunnerTypeOK /\ LaunchOrder /\ ExitOrder /\ FinalAlone /\ SweepAlone /\ LockAlone
      /\ WorkIsPushed /\ RemovesAlone /\ WaitsAreAnswered /\ PushedBeforeRemoval
  BY DEF RunnerInv, RunnerOrder
<1>a. Owner \in Agents /\ Sharer \in Agents /\ Owner # Sharer /\ (\A c \in Agents : c \in {Owner, Sharer})
  BY RunnerAssumption DEF Agents
<1>u. UNCHANGED <<there, runs, lastPush, finalFlag, leaving, unsettled,
                  shared, claimed, sweeping, launch, final, sweep, lostWork,
                  crossed, request, notices>>
  BY DEF ExitPushBegins, checkoutVars, agentVars, claimVars, taskVars, runnerHist
<1>t0. dirty' \in BOOLEAN
  BY Zenon DEF ExitPushBegins, Pushes
<1>t1. lock' \in {"free", "agent", "final", "sweep", "request"}
  BY <1>i, <1>a DEF ExitPushBegins, TakeLock, Pushes, Goes, RunStages, RunnerTypeOK
<1>t2. run' \in [Agents -> RunStages]
  BY <1>i, <1>a DEF ExitPushBegins, TakeLock, Pushes, Goes, RunStages, RunnerTypeOK
<1>t. RunnerTypeOK'
  BY <1>i, <1>u, <1>t0, <1>t1, <1>t2 DEF RunnerTypeOK
<1>e. /\ run[a] = "unpushed" /\ lock = "free" /\ lock' = "agent" /\ ~dirty'
      /\ run'[a] \in {"pushing", "lastPush"} /\ \A b \in Agents : b # a => run'[b] = run[b]
  BY <1>i, <1>a DEF ExitPushBegins, TakeLock, Pushes, Goes, RunStages, RunnerTypeOK
<1>1. ExitOrder'
  BY <1>i, <1>a, <1>u, <1>e DEF ExitOrder, Running
<1>2. FinalAlone'
  BY <1>i, <1>a, <1>u, <1>e DEF FinalAlone, Running, Busy, LaunchOrder, Finalizing, ExitOrder
<1>3. SweepAlone'
  BY <1>i, <1>a, <1>u, <1>e DEF SweepAlone, Running, Busy, SweepHolds, LaunchOrder, ExitOrder
<1>4. LockAlone'
  BY <1>i, <1>a, <1>u, <1>e DEF LockAlone, RemovesAlone
<1>5. WorkIsPushed'
  BY <1>i, <1>a, <1>u, <1>e DEF WorkIsPushed, Busy
<1>6. RemovesAlone'
  BY <1>i, <1>a, <1>u, <1>e DEF RemovesAlone, Agents, LockAlone, FinalAlone, SweepAlone, SweepHolds,
                                Running, Busy
<1> QED
  BY <1>i, <1>t, <1>u, <1>1, <1>2, <1>3, <1>4, <1>5, <1>6, LaunchOrderFrame,
     WaitsAreAnsweredFrame, PushedBeforeRemovalFrame DEF RunnerInv, RunnerOrder

(* ExitPushEnds: what was there was sent, or was tried to.                 *)
LEMMA ExitPushEndsStep ==
    ASSUME RunnerInv, NEW a \in Agents, ExitPushEnds(a)
    PROVE  RunnerInv'
<1>i. /\ RunnerTypeOK /\ LaunchOrder /\ ExitOrder /\ FinalAlone /\ SweepAlone /\ LockAlone
      /\ WorkIsPushed /\ RemovesAlone /\ WaitsAreAnswered /\ PushedBeforeRemoval
  BY DEF RunnerInv, RunnerOrder
<1>a. Owner \in Agents /\ Sharer \in Agents /\ Owner # Sharer /\ (\A c \in Agents : c \in {Owner, Sharer})
  BY RunnerAssumption DEF Agents
<1>u. UNCHANGED <<there, dirty, runs, finalFlag, leaving, unsettled, shared, claimed,
                  sweeping, launch, final, sweep, lostWork, crossed, request, notices>>
  BY DEF ExitPushEnds, checkoutVars, agentVars, claimVars, taskVars, runnerHist
<1>t2. lock' \in {"free", "agent", "final", "sweep", "request"}
  BY <1>i, <1>a DEF ExitPushEnds, Pushed, Release, Goes, RunStages, RunnerTypeOK
<1>t3. run' \in [Agents -> RunStages]
  BY <1>i, <1>a DEF ExitPushEnds, Pushed, Release, Goes, RunStages, RunnerTypeOK
<1>t4. lastPush' \in {"none", "pushed", "failed"}
  BY <1>i, <1>a DEF ExitPushEnds, Pushed, Release, Goes, RunStages, RunnerTypeOK
<1>t. RunnerTypeOK'
  BY <1>i, <1>u, <1>t2, <1>t3, <1>t4 DEF RunnerTypeOK
<1>e. /\ run[a] \in {"pushing", "lastPush"} /\ lock' = "free"
      /\ run'[a] = "ended" /\ \A b \in Agents : b # a => run'[b] = run[b]
  BY <1>i, <1>a DEF ExitPushEnds, Pushed, Release, Goes, RunStages, RunnerTypeOK
<1>1. ExitOrder'
  BY <1>i, <1>a, <1>u, <1>e DEF ExitOrder, Running
<1>2. FinalAlone'
  BY <1>i, <1>a, <1>u, <1>e DEF FinalAlone, Running, Busy, LaunchOrder, Finalizing, ExitOrder
<1>3. SweepAlone'
  BY <1>i, <1>a, <1>u, <1>e DEF SweepAlone, Running, Busy, SweepHolds, LaunchOrder, ExitOrder
<1>4. LockAlone'
  BY <1>i, <1>a, <1>u, <1>e DEF LockAlone, RemovesAlone
<1>5. WorkIsPushed'
  BY <1>i, <1>a, <1>u, <1>e DEF WorkIsPushed, Busy
<1>6. RemovesAlone'
  BY <1>i, <1>a, <1>u, <1>e DEF RemovesAlone, Agents, LockAlone, FinalAlone, SweepAlone, SweepHolds,
                                Running, Busy
<1> QED
  BY <1>i, <1>t, <1>u, <1>1, <1>2, <1>3, <1>4, <1>5, <1>6, LaunchOrderFrame,
     WaitsAreAnsweredFrame, PushedBeforeRemovalFrame DEF RunnerInv, RunnerOrder

(* Leave: its exit is still to be settled.                                 *)
LEMMA LeaveStep ==
    ASSUME RunnerInv, NEW a \in Agents, Leave(a)
    PROVE  RunnerInv'
<1>i. /\ RunnerTypeOK /\ LaunchOrder /\ ExitOrder /\ FinalAlone /\ SweepAlone /\ LockAlone
      /\ WorkIsPushed /\ RemovesAlone /\ WaitsAreAnswered /\ PushedBeforeRemoval
  BY DEF RunnerInv, RunnerOrder
<1>a. Owner \in Agents /\ Sharer \in Agents /\ Owner # Sharer /\ (\A c \in Agents : c \in {Owner, Sharer})
  BY RunnerAssumption DEF Agents
<1>u. UNCHANGED <<there, dirty, lock, runs, lastPush, finalFlag, unsettled,
                  shared, claimed, sweeping, launch, final, sweep, lostWork,
                  crossed, request, notices>>
  BY DEF Leave, checkoutVars, agentVars, claimVars, taskVars, runnerHist
<1>t1. run' \in [Agents -> RunStages]
  BY <1>i, <1>a DEF Leave, Goes, RunStages, RunnerTypeOK
<1>t2. leaving' \in [Agents -> {0} \cup Runs]
  BY <1>i, <1>a DEF Leave, Goes, RunStages, RunnerTypeOK
<1>t. RunnerTypeOK'
  BY <1>i, <1>u, <1>t1, <1>t2 DEF RunnerTypeOK
<1>e. /\ run[a] = "ended"
      /\ run'[a] = "none" /\ \A b \in Agents : b # a => run'[b] = run[b]
      /\ leaving'[a] = runs[a] /\ \A b \in Agents : b # a => leaving'[b] = leaving[b]
  BY <1>i, <1>a DEF Leave, Goes, RunStages, RunnerTypeOK
<1>1. ExitOrder'
  BY <1>i, <1>a, <1>u, <1>e DEF ExitOrder, Running
<1>2. FinalAlone'
  BY <1>i, <1>a, <1>u, <1>e DEF FinalAlone, Running, Busy, LaunchOrder, Finalizing, ExitOrder
<1>3. SweepAlone'
  BY <1>i, <1>a, <1>u, <1>e DEF SweepAlone, Running, Busy, SweepHolds, LaunchOrder, ExitOrder
<1>4. LockAlone'
  BY <1>i, <1>a, <1>u, <1>e DEF LockAlone, RemovesAlone
<1>5. WorkIsPushed'
  BY <1>i, <1>a, <1>u, <1>e DEF WorkIsPushed, Busy
<1>6. RemovesAlone'
  BY <1>i, <1>a, <1>u, <1>e DEF RemovesAlone, Agents, LockAlone, FinalAlone, SweepAlone, SweepHolds,
                                Running, Busy
<1> QED
  BY <1>i, <1>t, <1>u, <1>1, <1>2, <1>3, <1>4, <1>5, <1>6, LaunchOrderFrame,
     WaitsAreAnsweredFrame, PushedBeforeRemovalFrame DEF RunnerInv, RunnerOrder

(* ExitSettled: who waits for it is told.                                  *)
LEMMA ExitSettledStep ==
    ASSUME RunnerInv, NEW a \in Agents, NEW n \in Runs, ExitSettled(a, n)
    PROVE  RunnerInv'
<1>i. /\ RunnerTypeOK /\ LaunchOrder /\ ExitOrder /\ FinalAlone /\ SweepAlone /\ LockAlone
      /\ WorkIsPushed /\ RemovesAlone /\ WaitsAreAnswered /\ PushedBeforeRemoval
  BY DEF RunnerInv, RunnerOrder
<1>a. Owner \in Agents /\ Sharer \in Agents /\ Owner # Sharer /\ (\A c \in Agents : c \in {Owner, Sharer})
  BY RunnerAssumption DEF Agents
<1>u. UNCHANGED <<there, dirty, lock, run, runs, lastPush, finalFlag, shared,
                  claimed, sweeping, launch, sweep, lostWork, crossed, request, notices>>
  BY DEF ExitSettled, checkoutVars, agentVars, claimVars, taskVars, runnerHist
<1>p. \/ final.wait # [agent |-> a, run |-> n] /\ final' = final
      \/ /\ final.wait = [agent |-> a, run |-> n]
         /\ \E how \in {"journaled", "lost"} : final' = [final EXCEPT !.wait = NoExit, !.exit = how]
  BY DEF ExitSettled
<1>q. final \in FinalRecords /\ NoExit \in [agent : Agents, run : {0} \cup Runs]
  BY <1>i, <1>a DEF RunnerTypeOK, NoExit
<1>r. /\ n \in unsettled[a] /\ ~(n = runs[a] /\ Running(a))
      /\ unsettled'[a] = unsettled[a] \ {n} /\ leaving'[a] = (IF leaving[a] = n THEN 0 ELSE leaving[a])
      /\ \A b \in Agents : b # a => leaving'[b] = leaving[b] /\ unsettled'[b] = unsettled[b]
  BY <1>i DEF ExitSettled, RunnerTypeOK
<1>t1. leaving' \in [Agents -> {0} \cup Runs]
  BY <1>i, <1>a DEF ExitSettled, NoExit, FinalRecords, RunnerTypeOK
<1>t2. unsettled' \in [Agents -> SUBSET Runs]
  BY <1>i, <1>a DEF ExitSettled, NoExit, FinalRecords, RunnerTypeOK
<1>t3. final' \in FinalRecords
  BY <1>p, <1>q, ZenonT(60) DEF FinalRecords
<1>t. RunnerTypeOK'
  BY <1>i, <1>u, <1>t1, <1>t2, <1>t3 DEF RunnerTypeOK
<1>e. /\ n \in unsettled[a] /\ ~(n = runs[a] /\ Running(a))
      /\ unsettled'[a] = unsettled[a] \ {n} /\ leaving'[a] = (IF leaving[a] = n THEN 0 ELSE leaving[a])
      /\ \A b \in Agents : b # a => leaving'[b] = leaving[b] /\ unsettled'[b] = unsettled[b]
      /\ final'.stage = final.stage /\ final'.push = final.push
      /\ \/ /\ final.wait # [agent |-> a, run |-> n] /\ final' = final /\ (final.wait.agent # a \/ final.wait.run # n)
         \/ /\ final.wait.agent = a /\ final.wait.run = n /\ final'.wait = NoExit
            /\ final'.exit \in {"journaled", "lost"}
  <2>1. CASE final.wait # [agent |-> a, run |-> n] /\ final' = final
    <3>1. final.wait.agent # a \/ final.wait.run # n
      BY <1>q, <2>1 DEF FinalRecords
    <3> QED
      BY <1>r, <2>1, <3>1
  <2>2. ASSUME NEW how \in {"journaled", "lost"}, final.wait = [agent |-> a, run |-> n],
               final' = [final EXCEPT !.wait = NoExit, !.exit = how]
        PROVE  /\ final.wait.agent = a /\ final.wait.run = n /\ final'.wait = NoExit /\ final'.exit = how
               /\ final'.stage = final.stage /\ final'.push = final.push
    BY <1>q, <2>2 DEF FinalRecords
  <2> QED
    BY <1>p, <1>r, <2>1, <2>2
<1>1. LaunchOrder'
  BY <1>i, <1>a, <1>u, <1>e DEF LaunchOrder, Finalizing, SweepAlone, SweepHolds
<1>2. ExitOrder'
  BY <1>i, <1>a, <1>u, <1>e DEF ExitOrder, Running
<1>3. FinalAlone'
  BY <1>i, <1>a, <1>u, <1>e DEF FinalAlone, Running, Busy, LaunchOrder, Finalizing, ExitOrder
<1>4. RemovesAlone'
  BY <1>i, <1>a, <1>u, <1>e DEF RemovesAlone, Agents, LockAlone, FinalAlone, SweepAlone, SweepHolds,
                                Running, Busy
<1>5. WaitsAreAnswered'
  <2>1. final'.wait # NoExit => final'.wait.run \in unsettled'[final'.wait.agent]
    <3>1. final.wait.agent \in Agents
      BY <1>q DEF FinalRecords
    <3> QED
      BY <1>i, <1>e, <3>1 DEF WaitsAreAnswered
  <2> QED
    BY <1>i, <1>u, <1>e, <2>1 DEF WaitsAreAnswered, Finalizing
<1> QED
  BY <1>i, <1>t, <1>u, <1>1, <1>2, <1>3, <1>4, <1>5, SweepAloneFrame, LockAloneFrame,
     WorkIsPushedFrame, PushedBeforeRemovalFrame DEF RunnerInv, RunnerOrder

(* FinalStopBegins: no launch is under way.                                *)
LEMMA FinalStopBeginsStep ==
    ASSUME RunnerInv, FinalStopBegins
    PROVE  RunnerInv'
<1>i. /\ RunnerTypeOK /\ LaunchOrder /\ ExitOrder /\ FinalAlone /\ SweepAlone /\ LockAlone
      /\ WorkIsPushed /\ RemovesAlone /\ WaitsAreAnswered /\ PushedBeforeRemoval
  BY DEF RunnerInv, RunnerOrder
<1>a. Owner \in Agents /\ Sharer \in Agents /\ Owner # Sharer /\ (\A c \in Agents : c \in {Owner, Sharer})
  BY RunnerAssumption DEF Agents
<1>u. UNCHANGED <<there, dirty, lock, run, runs, lastPush, finalFlag, leaving,
                  unsettled, shared, claimed, sweeping, launch, sweep,
                  lostWork, crossed, request, notices>>
  BY DEF FinalStopBegins, checkoutVars, agentVars, claimVars, taskVars, runnerHist
<1>t1. final' \in FinalRecords
  BY <1>i, <1>a DEF FinalStopBegins, GateFree, NoLaunch, NoFinal, NoExit, Running, FinalRecords,
                    RunnerTypeOK
<1>t. RunnerTypeOK'
  BY <1>i, <1>u, <1>t1 DEF RunnerTypeOK
<1>e. /\ final.stage = "none" /\ final'.stage = "flagging" /\ final'.wait = NoExit /\ launch.stage = "none"
  BY <1>i, <1>a DEF FinalStopBegins, GateFree, NoLaunch, NoFinal, NoExit, Running, FinalRecords,
                    RunnerTypeOK
<1>1. LaunchOrder'
  BY <1>i, <1>a, <1>u, <1>e DEF LaunchOrder, Finalizing, SweepAlone, SweepHolds
<1>2. FinalAlone'
  BY <1>i, <1>a, <1>u, <1>e DEF FinalAlone, Running, Busy, LaunchOrder, Finalizing, ExitOrder
<1>3. RemovesAlone'
  BY <1>i, <1>a, <1>u, <1>e DEF RemovesAlone, Agents, LockAlone, FinalAlone, SweepAlone, SweepHolds,
                                Running, Busy
<1>4. WaitsAreAnswered'
  BY <1>i, <1>a, <1>u, <1>e DEF WaitsAreAnswered, Finalizing, ExitOrder, SweepAlone, SweepHolds, Running
<1> QED
  BY <1>i, <1>t, <1>u, <1>1, <1>2, <1>3, <1>4, ExitOrderFrame, SweepAloneFrame,
     LockAloneFrame, WorkIsPushedFrame, PushedBeforeRemovalFrame
     DEF RunnerInv, RunnerOrder

(* FinalFlagged: the run is told that its push is the last.                *)
LEMMA FinalFlaggedStep ==
    ASSUME RunnerInv, FinalFlagged
    PROVE  RunnerInv'
<1>i. /\ RunnerTypeOK /\ LaunchOrder /\ ExitOrder /\ FinalAlone /\ SweepAlone /\ LockAlone
      /\ WorkIsPushed /\ RemovesAlone /\ WaitsAreAnswered /\ PushedBeforeRemoval
  BY DEF RunnerInv, RunnerOrder
<1>a. Owner \in Agents /\ Sharer \in Agents /\ Owner # Sharer /\ (\A c \in Agents : c \in {Owner, Sharer})
  BY RunnerAssumption DEF Agents
<1>u. UNCHANGED <<there, dirty, lock, run, runs, lastPush, leaving, unsettled,
                  shared, claimed, sweeping, launch, sweep, lostWork, crossed, request, notices>>
  BY DEF FinalFlagged, checkoutVars, agentVars, claimVars, taskVars, runnerHist
<1>t1. finalFlag' \in BOOLEAN
  BY <1>i, <1>a, Zenon DEF FinalFlagged, Final, FinalRecords, RunnerTypeOK
<1>t2. final' \in FinalRecords
  BY <1>i, <1>a DEF FinalFlagged, Final, FinalRecords, RunnerTypeOK
<1>t. RunnerTypeOK'
  BY <1>i, <1>u, <1>t1, <1>t2 DEF RunnerTypeOK
<1>e. /\ final.stage = "flagging"
      /\ final'.stage = "scripts" /\ final'.wait = final.wait /\ final'.exit = final.exit /\ final'.push = final.push
  BY <1>i, <1>a DEF FinalFlagged, Final, FinalRecords, RunnerTypeOK
<1>1. LaunchOrder'
  BY <1>i, <1>a, <1>u, <1>e DEF LaunchOrder, Finalizing, SweepAlone, SweepHolds
<1>2. FinalAlone'
  BY <1>i, <1>a, <1>u, <1>e DEF FinalAlone, Running, Busy, LaunchOrder, Finalizing, ExitOrder
<1>3. RemovesAlone'
  BY <1>i, <1>a, <1>u, <1>e DEF RemovesAlone, Agents, LockAlone, FinalAlone, SweepAlone, SweepHolds,
                                Running, Busy
<1>4. WaitsAreAnswered'
  BY <1>i, <1>a, <1>u, <1>e DEF WaitsAreAnswered, Finalizing, ExitOrder, SweepAlone, SweepHolds, Running
<1> QED
  BY <1>i, <1>t, <1>u, <1>1, <1>2, <1>3, <1>4, ExitOrderFrame, SweepAloneFrame,
     LockAloneFrame, WorkIsPushedFrame, PushedBeforeRemovalFrame
     DEF RunnerInv, RunnerOrder

(* FinalScripts: the sharer is stopped first, if it is there.              *)
LEMMA FinalScriptsStep ==
    ASSUME RunnerInv, FinalScripts
    PROVE  RunnerInv'
<1>i. /\ RunnerTypeOK /\ LaunchOrder /\ ExitOrder /\ FinalAlone /\ SweepAlone /\ LockAlone
      /\ WorkIsPushed /\ RemovesAlone /\ WaitsAreAnswered /\ PushedBeforeRemoval
  BY DEF RunnerInv, RunnerOrder
<1>a. Owner \in Agents /\ Sharer \in Agents /\ Owner # Sharer /\ (\A c \in Agents : c \in {Owner, Sharer})
  BY RunnerAssumption DEF Agents
<1>u. UNCHANGED <<there, dirty, lock, run, runs, lastPush, finalFlag, leaving,
                  unsettled, shared, claimed, sweeping, launch, sweep,
                  lostWork, crossed, request, notices>>
  BY DEF FinalScripts, checkoutVars, agentVars, claimVars, taskVars, runnerHist
<1>t1. final' \in FinalRecords
  BY <1>i, <1>a, StopAndIs DEF FinalScripts, Final, RunnerTypeOK, FinalRecords
<1>t. RunnerTypeOK'
  BY <1>i, <1>u, <1>t1 DEF RunnerTypeOK
<1>e. /\ final.stage = "scripts"
      /\ \/ final'.stage = "ending" /\ final'.wait = final.wait /\ final'.exit = final.exit /\ final'.push = final.push
         \/ /\ final'.stage = "sharers"
            /\ \/ /\ final'.exit = "pending" /\ final'.wait.agent = Sharer /\ final'.wait.run \in unsettled[Sharer]
                  /\ Running(Sharer) => final'.wait.run = runs[Sharer]
               \/ final'.exit = "journaled" /\ final'.wait = NoExit /\ ~Running(Sharer)
         \/ /\ final'.stage = "stopping"
            /\ \/ /\ final'.exit = "pending" /\ final'.wait.agent = Owner /\ final'.wait.run \in unsettled[Owner]
                  /\ Running(Owner) => final'.wait.run = runs[Owner]
               \/ final'.exit = "journaled" /\ final'.wait = NoExit /\ ~Running(Owner)
            /\ ~Running(Sharer)
  BY <1>i, <1>a, StopAndIs DEF FinalScripts, Final, LiveSharer, ExitOrder, RunnerTypeOK,
                               FinalRecords
<1>1. LaunchOrder'
  BY <1>i, <1>a, <1>u, <1>e DEF LaunchOrder, Finalizing, SweepAlone, SweepHolds
<1>2. FinalAlone'
  BY <1>i, <1>a, <1>u, <1>e DEF FinalAlone, Running, Busy, LaunchOrder, Finalizing, ExitOrder
<1>3. RemovesAlone'
  BY <1>i, <1>a, <1>u, <1>e DEF RemovesAlone, Agents, LockAlone, FinalAlone, SweepAlone, SweepHolds,
                                Running, Busy
<1>4. WaitsAreAnswered'
  BY <1>i, <1>a, <1>u, <1>e DEF WaitsAreAnswered, Finalizing, ExitOrder, SweepAlone, SweepHolds, Running
<1> QED
  BY <1>i, <1>t, <1>u, <1>1, <1>2, <1>3, <1>4, ExitOrderFrame, SweepAloneFrame,
     LockAloneFrame, WorkIsPushedFrame, PushedBeforeRemovalFrame
     DEF RunnerInv, RunnerOrder

(* FinalSharers: then the owner.                                           *)
LEMMA FinalSharersStep ==
    ASSUME RunnerInv, FinalSharers
    PROVE  RunnerInv'
<1>i. /\ RunnerTypeOK /\ LaunchOrder /\ ExitOrder /\ FinalAlone /\ SweepAlone /\ LockAlone
      /\ WorkIsPushed /\ RemovesAlone /\ WaitsAreAnswered /\ PushedBeforeRemoval
  BY DEF RunnerInv, RunnerOrder
<1>a. Owner \in Agents /\ Sharer \in Agents /\ Owner # Sharer /\ (\A c \in Agents : c \in {Owner, Sharer})
  BY RunnerAssumption DEF Agents
<1>u. UNCHANGED <<there, dirty, lock, run, runs, lastPush, finalFlag, leaving,
                  unsettled, shared, claimed, sweeping, launch, sweep,
                  lostWork, crossed, request, notices>>
  BY DEF FinalSharers, checkoutVars, agentVars, claimVars, taskVars, runnerHist
<1>t1. final' \in FinalRecords
  BY <1>i, <1>a, StopAndIs DEF FinalSharers, Final, RunnerTypeOK, FinalRecords
<1>t. RunnerTypeOK'
  BY <1>i, <1>u, <1>t1 DEF RunnerTypeOK
<1>e. /\ final.stage = "sharers" /\ final.exit # "pending"
      /\ \/ final'.stage = "ending" /\ final'.wait = final.wait /\ final'.exit = final.exit /\ final'.push = final.push
         \/ /\ final'.stage = "stopping"
            /\ \/ /\ final'.exit = "pending" /\ final'.wait.agent = Owner /\ final'.wait.run \in unsettled[Owner]
                  /\ Running(Owner) => final'.wait.run = runs[Owner]
               \/ final'.exit = "journaled" /\ final'.wait = NoExit /\ ~Running(Owner)
  BY <1>i, <1>a, StopAndIs DEF FinalSharers, Final, RunnerTypeOK, FinalRecords
<1>1. LaunchOrder'
  BY <1>i, <1>a, <1>u, <1>e DEF LaunchOrder, Finalizing, SweepAlone, SweepHolds
<1>2. FinalAlone'
  BY <1>i, <1>a, <1>u, <1>e DEF FinalAlone, Running, Busy, LaunchOrder, Finalizing, ExitOrder
<1>3. RemovesAlone'
  BY <1>i, <1>a, <1>u, <1>e DEF RemovesAlone, Agents, LockAlone, FinalAlone, SweepAlone, SweepHolds,
                                Running, Busy
<1>4. WaitsAreAnswered'
  BY <1>i, <1>a, <1>u, <1>e DEF WaitsAreAnswered, Finalizing, ExitOrder, SweepAlone, SweepHolds, Running
<1> QED
  BY <1>i, <1>t, <1>u, <1>1, <1>2, <1>3, <1>4, ExitOrderFrame, SweepAloneFrame,
     LockAloneFrame, WorkIsPushedFrame, PushedBeforeRemovalFrame
     DEF RunnerInv, RunnerOrder

(* FinalStopped: the exit is journaled.                                    *)
LEMMA FinalStoppedStep ==
    ASSUME RunnerInv, FinalStopped
    PROVE  RunnerInv'
<1>i. /\ RunnerTypeOK /\ LaunchOrder /\ ExitOrder /\ FinalAlone /\ SweepAlone /\ LockAlone
      /\ WorkIsPushed /\ RemovesAlone /\ WaitsAreAnswered /\ PushedBeforeRemoval
  BY DEF RunnerInv, RunnerOrder
<1>a. Owner \in Agents /\ Sharer \in Agents /\ Owner # Sharer /\ (\A c \in Agents : c \in {Owner, Sharer})
  BY RunnerAssumption DEF Agents
<1>u. UNCHANGED <<there, dirty, lock, run, runs, lastPush, finalFlag, leaving,
                  unsettled, shared, claimed, sweeping, launch, sweep,
                  lostWork, crossed, request, notices>>
  BY DEF FinalStopped, checkoutVars, agentVars, claimVars, taskVars, runnerHist
<1>t1. final' \in FinalRecords
  BY <1>i, <1>a, ZenonT(60) DEF FinalStopped, Final, FinalRecords, RunnerTypeOK
<1>t. RunnerTypeOK'
  BY <1>i, <1>u, <1>t1 DEF RunnerTypeOK
<1>e. /\ final.stage = "stopping" /\ final.exit # "pending" /\ final'.stage \in {"ending", "unlocked", "unpushed"}
      /\ final'.wait = final.wait
  BY <1>i, <1>a, ZenonT(60) DEF FinalStopped, Final, FinalRecords, RunnerTypeOK
<1>1. LaunchOrder'
  BY <1>i, <1>a, <1>u, <1>e DEF LaunchOrder, Finalizing, SweepAlone, SweepHolds
<1>2. FinalAlone'
  BY <1>i, <1>a, <1>u, <1>e DEF FinalAlone, Running, Busy, LaunchOrder, Finalizing, ExitOrder
<1>3. RemovesAlone'
  BY <1>i, <1>a, <1>u, <1>e DEF RemovesAlone, Agents, LockAlone, FinalAlone, SweepAlone, SweepHolds,
                                Running, Busy
<1>4. WaitsAreAnswered'
  BY <1>i, <1>a, <1>u, <1>e DEF WaitsAreAnswered, Finalizing, ExitOrder, SweepAlone, SweepHolds, Running
<1> QED
  BY <1>i, <1>t, <1>u, <1>1, <1>2, <1>3, <1>4, ExitOrderFrame, SweepAloneFrame,
     LockAloneFrame, WorkIsPushedFrame, PushedBeforeRemovalFrame
     DEF RunnerInv, RunnerOrder

(* FinalPushSkipped: nothing to push.                                      *)
LEMMA FinalPushSkippedStep ==
    ASSUME RunnerInv, FinalPushSkipped
    PROVE  RunnerInv'
<1>i. /\ RunnerTypeOK /\ LaunchOrder /\ ExitOrder /\ FinalAlone /\ SweepAlone /\ LockAlone
      /\ WorkIsPushed /\ RemovesAlone /\ WaitsAreAnswered /\ PushedBeforeRemoval
  BY DEF RunnerInv, RunnerOrder
<1>a. Owner \in Agents /\ Sharer \in Agents /\ Owner # Sharer /\ (\A c \in Agents : c \in {Owner, Sharer})
  BY RunnerAssumption DEF Agents
<1>u. UNCHANGED <<there, dirty, lock, run, runs, lastPush, finalFlag, leaving,
                  unsettled, shared, claimed, sweeping, launch, sweep,
                  lostWork, crossed, request, notices>>
  BY DEF FinalPushSkipped, checkoutVars, agentVars, claimVars, taskVars, runnerHist
<1>t1. final' \in FinalRecords
  BY <1>i, <1>a DEF FinalPushSkipped, FinalRecords, RunnerTypeOK
<1>t. RunnerTypeOK'
  BY <1>i, <1>u, <1>t1 DEF RunnerTypeOK
<1>e. /\ final.stage = "unpushed" /\ final'.stage = "unlocked" /\ final'.wait = final.wait
  BY <1>i, <1>a DEF FinalPushSkipped, FinalRecords, RunnerTypeOK
<1>1. LaunchOrder'
  BY <1>i, <1>a, <1>u, <1>e DEF LaunchOrder, Finalizing, SweepAlone, SweepHolds
<1>2. FinalAlone'
  BY <1>i, <1>a, <1>u, <1>e DEF FinalAlone, Running, Busy, LaunchOrder, Finalizing, ExitOrder
<1>3. RemovesAlone'
  BY <1>i, <1>a, <1>u, <1>e DEF RemovesAlone, Agents, LockAlone, FinalAlone, SweepAlone, SweepHolds,
                                Running, Busy
<1>4. WaitsAreAnswered'
  BY <1>i, <1>a, <1>u, <1>e DEF WaitsAreAnswered, Finalizing, ExitOrder, SweepAlone, SweepHolds, Running
<1> QED
  BY <1>i, <1>t, <1>u, <1>1, <1>2, <1>3, <1>4, ExitOrderFrame, SweepAloneFrame,
     LockAloneFrame, WorkIsPushedFrame, PushedBeforeRemovalFrame
     DEF RunnerInv, RunnerOrder

(* FinalPushBegins: it found the checkout.                                 *)
LEMMA FinalPushBeginsStep ==
    ASSUME RunnerInv, FinalPushBegins
    PROVE  RunnerInv'
<1>i. /\ RunnerTypeOK /\ LaunchOrder /\ ExitOrder /\ FinalAlone /\ SweepAlone /\ LockAlone
      /\ WorkIsPushed /\ RemovesAlone /\ WaitsAreAnswered /\ PushedBeforeRemoval
  BY DEF RunnerInv, RunnerOrder
<1>a. Owner \in Agents /\ Sharer \in Agents /\ Owner # Sharer /\ (\A c \in Agents : c \in {Owner, Sharer})
  BY RunnerAssumption DEF Agents
<1>u. UNCHANGED <<there, dirty, lock, run, runs, lastPush, finalFlag, leaving,
                  unsettled, shared, claimed, sweeping, launch, sweep,
                  lostWork, crossed, request, notices>>
  BY DEF FinalPushBegins, checkoutVars, agentVars, claimVars, taskVars, runnerHist
<1>t2. final' \in FinalRecords
  BY <1>i, <1>a DEF FinalPushBegins, Final, FinalRecords, RunnerTypeOK
<1>t. RunnerTypeOK'
  BY <1>i, <1>u, <1>t2 DEF RunnerTypeOK
<1>e. /\ final.stage = "unpushed"
      /\ final'.stage = "pushlock" /\ final'.wait = final.wait /\ final'.exit = final.exit /\ final'.push = final.push
  BY <1>i, <1>a DEF FinalPushBegins, Final, FinalRecords, RunnerTypeOK
<1>1. LaunchOrder'
  BY <1>i, <1>a, <1>u, <1>e DEF LaunchOrder, Finalizing, SweepAlone, SweepHolds
<1>2. FinalAlone'
  BY <1>i, <1>a, <1>u, <1>e DEF FinalAlone, Running, Busy, LaunchOrder, Finalizing, ExitOrder
<1>3. RemovesAlone'
  BY <1>i, <1>a, <1>u, <1>e DEF RemovesAlone, Agents, LockAlone, FinalAlone, SweepAlone, SweepHolds,
                                Running, Busy
<1>4. WaitsAreAnswered'
  BY <1>i, <1>a, <1>u, <1>e DEF WaitsAreAnswered, Finalizing, ExitOrder, SweepAlone, SweepHolds, Running
<1> QED
  BY <1>i, <1>t, <1>u, <1>1, <1>2, <1>3, <1>4, ExitOrderFrame, SweepAloneFrame,
     LockAloneFrame, WorkIsPushedFrame, PushedBeforeRemovalFrame
     DEF RunnerInv, RunnerOrder

(* FinalPushLocked: it pushes with the lock.                               *)
LEMMA FinalPushLockedStep ==
    ASSUME RunnerInv, FinalPushLocked
    PROVE  RunnerInv'
<1>i. /\ RunnerTypeOK /\ LaunchOrder /\ ExitOrder /\ FinalAlone /\ SweepAlone /\ LockAlone
      /\ WorkIsPushed /\ RemovesAlone /\ WaitsAreAnswered /\ PushedBeforeRemoval
  BY DEF RunnerInv, RunnerOrder
<1>a. Owner \in Agents /\ Sharer \in Agents /\ Owner # Sharer /\ (\A c \in Agents : c \in {Owner, Sharer})
  BY RunnerAssumption DEF Agents
<1>u. UNCHANGED <<there, run, runs, lastPush, finalFlag, leaving,
                  unsettled, shared, claimed, sweeping, launch, sweep,
                  lostWork, crossed, request, notices>>
  BY DEF FinalPushLocked, checkoutVars, agentVars, claimVars, taskVars, runnerHist
<1>t0. dirty' \in BOOLEAN
  BY Zenon DEF FinalPushLocked, Pushes
<1>t1. lock' \in {"free", "agent", "final", "sweep", "request"}
  BY <1>i, <1>a DEF FinalPushLocked, TakeLock, Pushes, Final, FinalRecords, RunnerTypeOK
<1>t2. final' \in FinalRecords
  BY <1>i, <1>a DEF FinalPushLocked, TakeLock, Pushes, Final, FinalRecords, RunnerTypeOK
<1>t. RunnerTypeOK'
  BY <1>i, <1>u, <1>t0, <1>t1, <1>t2 DEF RunnerTypeOK
<1>e. /\ final.stage = "pushlock" /\ lock = "free" /\ lock' = "final" /\ ~dirty'
      /\ final'.stage = "pushing" /\ final'.wait = final.wait /\ final'.exit = final.exit /\ final'.push = final.push
  BY <1>i, <1>a DEF FinalPushLocked, TakeLock, Pushes, Final, FinalRecords, RunnerTypeOK
<1>1. LaunchOrder'
  BY <1>i, <1>a, <1>u, <1>e DEF LaunchOrder, Finalizing, SweepAlone, SweepHolds
<1>2. FinalAlone'
  BY <1>i, <1>a, <1>u, <1>e DEF FinalAlone, Running, Busy, LaunchOrder, Finalizing, ExitOrder
<1>3. RemovesAlone'
  BY <1>i, <1>a, <1>u, <1>e DEF RemovesAlone, Agents, LockAlone, FinalAlone, SweepAlone, SweepHolds,
                                Running, Busy
<1>4. WorkIsPushed'
  BY <1>e DEF WorkIsPushed
<1>5. WaitsAreAnswered'
  BY <1>i, <1>a, <1>u, <1>e DEF WaitsAreAnswered, Finalizing, ExitOrder, SweepAlone, SweepHolds, Running
<1> QED
  BY <1>i, <1>t, <1>u, <1>1, <1>2, <1>3, <1>4, <1>5, ExitOrderFrame, SweepAloneFrame,
     LockAloneFrame, PushedBeforeRemovalFrame
     DEF RunnerInv, RunnerOrder

(* FinalPushEnds: the lock is given back.                                  *)
LEMMA FinalPushEndsStep ==
    ASSUME RunnerInv, FinalPushEnds
    PROVE  RunnerInv'
<1>i. /\ RunnerTypeOK /\ LaunchOrder /\ ExitOrder /\ FinalAlone /\ SweepAlone /\ LockAlone
      /\ WorkIsPushed /\ RemovesAlone /\ WaitsAreAnswered /\ PushedBeforeRemoval
  BY DEF RunnerInv, RunnerOrder
<1>a. Owner \in Agents /\ Sharer \in Agents /\ Owner # Sharer /\ (\A c \in Agents : c \in {Owner, Sharer})
  BY RunnerAssumption DEF Agents
<1>u. UNCHANGED <<there, dirty, run, runs, lastPush, finalFlag, leaving, unsettled,
                  shared, claimed, sweeping, launch, sweep, lostWork, crossed, request, notices>>
  BY DEF FinalPushEnds, checkoutVars, agentVars, claimVars, taskVars, runnerHist
<1>t2. lock' \in {"free", "agent", "final", "sweep", "request"}
  BY <1>i, <1>a DEF FinalPushEnds, Pushed, Release, FinalRecords, RunnerTypeOK
<1>t3. final' \in FinalRecords
  BY <1>i, <1>a DEF FinalPushEnds, Pushed, Release, FinalRecords, RunnerTypeOK
<1>t. RunnerTypeOK'
  BY <1>i, <1>u, <1>t2, <1>t3 DEF RunnerTypeOK
<1>e. /\ final.stage = "pushing" /\ final'.stage = "unlocked" /\ lock' = "free" /\ final'.wait = final.wait
  BY <1>i, <1>a DEF FinalPushEnds, Pushed, Release, FinalRecords, RunnerTypeOK
<1>1. LaunchOrder'
  BY <1>i, <1>a, <1>u, <1>e DEF LaunchOrder, Finalizing, SweepAlone, SweepHolds
<1>2. FinalAlone'
  BY <1>i, <1>a, <1>u, <1>e DEF FinalAlone, Running, Busy, LaunchOrder, Finalizing, ExitOrder
<1>3. WorkIsPushed'
  BY <1>i, <1>a, <1>u, <1>e DEF WorkIsPushed, Busy
<1>4. RemovesAlone'
  BY <1>i, <1>a, <1>u, <1>e DEF RemovesAlone, Agents, LockAlone, FinalAlone, SweepAlone, SweepHolds,
                                Running, Busy
<1>5. WaitsAreAnswered'
  BY <1>i, <1>a, <1>u, <1>e DEF WaitsAreAnswered, Finalizing, ExitOrder, SweepAlone, SweepHolds, Running
<1> QED
  BY <1>i, <1>t, <1>u, <1>1, <1>2, <1>3, <1>4, <1>5, ExitOrderFrame, SweepAloneFrame,
     LockAloneFrame, PushedBeforeRemovalFrame DEF RunnerInv, RunnerOrder

(* FinalLocked: it removes with the lock.                                  *)
LEMMA FinalLockedStep ==
    ASSUME RunnerInv, FinalLocked
    PROVE  RunnerInv'
<1>i. /\ RunnerTypeOK /\ LaunchOrder /\ ExitOrder /\ FinalAlone /\ SweepAlone /\ LockAlone
      /\ WorkIsPushed /\ RemovesAlone /\ WaitsAreAnswered /\ PushedBeforeRemoval
  BY DEF RunnerInv, RunnerOrder
<1>a. Owner \in Agents /\ Sharer \in Agents /\ Owner # Sharer /\ (\A c \in Agents : c \in {Owner, Sharer})
  BY RunnerAssumption DEF Agents
<1>u. UNCHANGED <<there, dirty, run, runs, lastPush, finalFlag, leaving,
                  unsettled, shared, claimed, sweeping, launch, sweep,
                  lostWork, crossed, request, notices>>
  BY DEF FinalLocked, checkoutVars, agentVars, claimVars, taskVars, runnerHist
<1>t1. lock' \in {"free", "agent", "final", "sweep", "request"}
  BY <1>i, <1>a DEF FinalLocked, TakeLock, Final, FinalRecords, RunnerTypeOK
<1>t2. final' \in FinalRecords
  BY <1>i, <1>a DEF FinalLocked, TakeLock, Final, FinalRecords, RunnerTypeOK
<1>t. RunnerTypeOK'
  BY <1>i, <1>u, <1>t1, <1>t2 DEF RunnerTypeOK
<1>e. /\ final.stage = "unlocked" /\ lock = "free" /\ lock' = "final"
      /\ final'.stage = "removing" /\ final'.wait = final.wait /\ final'.exit = final.exit /\ final'.push = final.push
  BY <1>i, <1>a DEF FinalLocked, TakeLock, Final, FinalRecords, RunnerTypeOK
<1>1. LaunchOrder'
  BY <1>i, <1>a, <1>u, <1>e DEF LaunchOrder, Finalizing, SweepAlone, SweepHolds
<1>2. FinalAlone'
  BY <1>i, <1>a, <1>u, <1>e DEF FinalAlone, Running, Busy, LaunchOrder, Finalizing, ExitOrder
<1>3. RemovesAlone'
  <2>1. final'.stage = "removing" \/ (\E j \in Sweeps : sweep'[j] = "removing") =>
          \/ crossed'
          \/ run'[Owner] \in {"none", "ended"} /\ run'[Sharer] \in {"none", "starting", "ended"}
    BY <1>i, <1>a, <1>t, <1>u, <1>e DEF RemovesAlone, FinalAlone, SweepAlone, SweepHolds,
                                        LaunchOrder, Finalizing, Running, Busy, RunnerTypeOK,
                                        RunStages
  <2>2. lock' = "agent" <=> (\E b \in Agents : run'[b] \in {"pushing", "lastPush"})
    BY <1>i, <1>u, <1>e DEF RemovesAlone
  <2>3. lock' = "final" <=> (final'.stage \in {"pushing", "removing"})
    BY <1>i, <1>u, <1>e DEF RemovesAlone
  <2>4. lock' = "sweep" <=> (\E j \in Sweeps : sweep'[j] = "removing")
    BY <1>i, <1>u, <1>e DEF RemovesAlone
  <2>5. /\ lock' = "request" <=> (request' \in {"locked", "pushing"})
        /\ request' = "pushing" => there'
    BY <1>i, <1>u, <1>e DEF RemovesAlone
  <2> QED
    BY <2>1, <2>2, <2>3, <2>4, <2>5 DEF RemovesAlone
<1>4. WaitsAreAnswered'
  BY <1>i, <1>a, <1>u, <1>e DEF WaitsAreAnswered, Finalizing, ExitOrder, SweepAlone, SweepHolds, Running
<1> QED
  BY <1>i, <1>t, <1>u, <1>1, <1>2, <1>3, <1>4, ExitOrderFrame, SweepAloneFrame,
     LockAloneFrame, WorkIsPushedFrame, PushedBeforeRemovalFrame
     DEF RunnerInv, RunnerOrder

(* FinalRemoved: nobody else is busy, so nothing is lost.                  *)
LEMMA FinalRemovedStep ==
    ASSUME RunnerInv, FinalRemoved
    PROVE  RunnerInv'
<1>i. /\ RunnerTypeOK /\ LaunchOrder /\ ExitOrder /\ FinalAlone /\ SweepAlone /\ LockAlone
      /\ WorkIsPushed /\ RemovesAlone /\ WaitsAreAnswered /\ PushedBeforeRemoval
  BY DEF RunnerInv, RunnerOrder
<1>a. Owner \in Agents /\ Sharer \in Agents /\ Owner # Sharer /\ (\A c \in Agents : c \in {Owner, Sharer})
  BY RunnerAssumption DEF Agents
<1>u. UNCHANGED <<run, runs, lastPush, finalFlag, leaving, unsettled, shared,
                  claimed, sweeping, launch, sweep, crossed, request, notices>>
  BY DEF FinalRemoved, checkoutVars, agentVars, claimVars, taskVars, runnerHist
<1>t1. there' \in BOOLEAN
  BY <1>i, <1>a, Zenon DEF FinalRemoved, Removed, Release, Final, FinalRecords, RunnerTypeOK
<1>t2. dirty' \in BOOLEAN
  BY <1>i, <1>a, Zenon DEF FinalRemoved, Removed, Release, Final, FinalRecords, RunnerTypeOK
<1>t3. lock' \in {"free", "agent", "final", "sweep", "request"}
  BY <1>i, <1>a DEF FinalRemoved, Removed, Release, Final, FinalRecords, RunnerTypeOK
<1>t4. final' \in FinalRecords
  BY <1>i, <1>a DEF FinalRemoved, Removed, Release, Final, FinalRecords, RunnerTypeOK
<1>t5. lostWork' \in BOOLEAN
  BY <1>i, <1>a, Zenon DEF FinalRemoved, Removed, Release, Final, FinalRecords, RunnerTypeOK
<1>t. RunnerTypeOK'
  BY <1>i, <1>u, <1>t1, <1>t2, <1>t3, <1>t4, <1>t5 DEF RunnerTypeOK
<1>e. /\ final.stage = "removing" /\ lock' = "free" /\ (dirty' => dirty) /\ (lostWork' => lostWork \/ dirty)
      /\ final'.stage = "ending" /\ final'.wait = final.wait /\ final'.exit = final.exit /\ final'.push = final.push
  BY <1>i, <1>a DEF FinalRemoved, Removed, Release, Final, FinalRecords, RunnerTypeOK
<1>1. LaunchOrder'
  BY <1>i, <1>a, <1>u, <1>e DEF LaunchOrder, Finalizing, SweepAlone, SweepHolds
<1>2. FinalAlone'
  BY <1>i, <1>a, <1>u, <1>e DEF FinalAlone, Running, Busy, LaunchOrder, Finalizing, ExitOrder
<1>3. WorkIsPushed'
  BY <1>i, <1>a, <1>u, <1>e DEF WorkIsPushed, Busy
<1>4. RemovesAlone'
  BY <1>i, <1>a, <1>u, <1>e DEF RemovesAlone, Agents, LockAlone, FinalAlone, SweepAlone, SweepHolds,
                                Running, Busy
<1>5. WaitsAreAnswered'
  BY <1>i, <1>a, <1>u, <1>e DEF WaitsAreAnswered, Finalizing, ExitOrder, SweepAlone, SweepHolds, Running
<1>6. PushedBeforeRemoval'
  BY <1>i, <1>a, <1>u, <1>e DEF PushedBeforeRemoval, WorkIsPushed, FinalAlone, Running, Busy, Agents
<1> QED
  BY <1>i, <1>t, <1>u, <1>1, <1>2, <1>3, <1>4, <1>5, <1>6, ExitOrderFrame,
     SweepAloneFrame, LockAloneFrame DEF RunnerInv, RunnerOrder

(* FinalEnds: a launch may look again.                                     *)
LEMMA FinalEndsStep ==
    ASSUME RunnerInv, FinalEnds
    PROVE  RunnerInv'
<1>i. /\ RunnerTypeOK /\ LaunchOrder /\ ExitOrder /\ FinalAlone /\ SweepAlone /\ LockAlone
      /\ WorkIsPushed /\ RemovesAlone /\ WaitsAreAnswered /\ PushedBeforeRemoval
  BY DEF RunnerInv, RunnerOrder
<1>a. Owner \in Agents /\ Sharer \in Agents /\ Owner # Sharer /\ (\A c \in Agents : c \in {Owner, Sharer})
  BY RunnerAssumption DEF Agents
<1>u. UNCHANGED <<there, dirty, lock, run, runs, lastPush, finalFlag, leaving,
                  unsettled, shared, claimed, sweeping, launch, sweep,
                  lostWork, crossed, request>>
  BY DEF FinalEnds, checkoutVars, agentVars, claimVars, taskVars, runnerHist
<1>t1. final' \in FinalRecords
  BY <1>i, <1>a DEF FinalEnds, NoFinal, NoExit, FinalRecords, RunnerTypeOK
<1>t2. notices' \in Nat /\ notices' > 0
  BY <1>i DEF FinalEnds, RunnerTypeOK
<1>t. RunnerTypeOK'
  BY <1>i, <1>u, <1>t1, <1>t2 DEF RunnerTypeOK
<1>e. /\ final.stage = "ending"
      /\ final'.stage = "none" /\ final'.wait = NoExit
  BY <1>i, <1>a DEF FinalEnds, NoFinal, NoExit, FinalRecords, RunnerTypeOK
<1>1. LaunchOrder'
  BY <1>i, <1>a, <1>u, <1>e DEF LaunchOrder, Finalizing, SweepAlone, SweepHolds
<1>2. FinalAlone'
  BY <1>i, <1>a, <1>u, <1>e DEF FinalAlone, Running, Busy, LaunchOrder, Finalizing, ExitOrder
<1>3. RemovesAlone'
  BY <1>i, <1>a, <1>u, <1>e DEF RemovesAlone, Agents, LockAlone, FinalAlone, SweepAlone, SweepHolds,
                                Running, Busy
<1>4. WaitsAreAnswered'
  BY <1>i, <1>a, <1>u, <1>e, <1>t2 DEF WaitsAreAnswered, Finalizing, ExitOrder, SweepAlone, SweepHolds, Running
<1> QED
  BY <1>i, <1>t, <1>u, <1>1, <1>2, <1>3, <1>4, ExitOrderFrame, SweepAloneFrame,
     LockAloneFrame, WorkIsPushedFrame, PushedBeforeRemovalFrame
     DEF RunnerInv, RunnerOrder

(* FinalNotifies: a launch that waits is woken.                            *)
LEMMA FinalNotifiesStep ==
    ASSUME RunnerInv, FinalNotifies
    PROVE  RunnerInv'
<1>i. /\ RunnerTypeOK /\ LaunchOrder /\ ExitOrder /\ FinalAlone /\ SweepAlone /\ LockAlone
      /\ WorkIsPushed /\ RemovesAlone /\ WaitsAreAnswered /\ PushedBeforeRemoval
  BY DEF RunnerInv, RunnerOrder
<1>u. UNCHANGED <<there, dirty, lock, run, runs, lastPush, finalFlag, leaving,
                  unsettled, shared, claimed, sweeping, final, sweep, lostWork,
                  crossed, request>>
  BY DEF FinalNotifies, checkoutVars, agentVars, claimVars, runnerHist
<1>t1. launch' \in LaunchRecords
  BY <1>i DEF FinalNotifies, Woken, LaunchRecords, RunnerTypeOK
<1>t2. notices' \in Nat
  BY <1>i DEF FinalNotifies, RunnerTypeOK
<1>t. RunnerTypeOK'
  BY <1>i, <1>u, <1>t1, <1>t2 DEF RunnerTypeOK
<1>e. /\ launch'.stage = launch.stage /\ launch'.agent = launch.agent
      /\ launch.stage = "waiting" => launch'.woken
  BY <1>i DEF FinalNotifies, Woken, LaunchRecords, RunnerTypeOK
<1>1. LaunchOrder'
  BY <1>i, <1>u, <1>e DEF LaunchOrder, Finalizing
<1>2. WaitsAreAnswered'
  BY <1>i, <1>u, <1>e DEF WaitsAreAnswered
<1> QED
  BY <1>i, <1>t, <1>u, <1>1, <1>2, ExitOrderFrame, FinalAloneFrame, SweepAloneFrame,
     LockAloneFrame, WorkIsPushedFrame, RemovesAloneFrame, PushedBeforeRemovalFrame
     DEF RunnerInv, RunnerOrder

(* PushNow: it waits for the lock.                                          *)
LEMMA PushNowStep ==
    ASSUME RunnerInv, PushNow
    PROVE  RunnerInv'
<1>i. /\ RunnerTypeOK /\ LaunchOrder /\ ExitOrder /\ FinalAlone /\ SweepAlone /\ LockAlone
      /\ WorkIsPushed /\ RemovesAlone /\ WaitsAreAnswered /\ PushedBeforeRemoval
  BY DEF RunnerInv, RunnerOrder
<1>u. UNCHANGED <<there, dirty, lock, run, runs, lastPush, finalFlag, leaving,
                  unsettled, shared, claimed, sweeping, launch, final, sweep,
                  lostWork, crossed, notices>>
  BY DEF PushNow, checkoutVars, agentVars, claimVars, runnerHist
<1>t1. request' \in {"none", "waiting", "locked", "pushing"}
  BY DEF PushNow
<1>t. RunnerTypeOK'
  BY <1>i, <1>u, <1>t1 DEF RunnerTypeOK
<1>e. request = "none" /\ request' = "waiting"
  BY DEF PushNow
<1>1. RemovesAlone'
  BY <1>i, <1>u, <1>e DEF RemovesAlone
<1> QED
  BY <1>i, <1>t, <1>u, <1>1, LaunchOrderFrame, ExitOrderFrame, FinalAloneFrame, SweepAloneFrame,
     LockAloneFrame, WorkIsPushedFrame, WaitsAreAnsweredFrame, PushedBeforeRemovalFrame
     DEF RunnerInv, RunnerOrder

(* PushNowLocked: it has the lock.                                          *)
LEMMA PushNowLockedStep ==
    ASSUME RunnerInv, PushNowLocked
    PROVE  RunnerInv'
<1>i. /\ RunnerTypeOK /\ LaunchOrder /\ ExitOrder /\ FinalAlone /\ SweepAlone /\ LockAlone
      /\ WorkIsPushed /\ RemovesAlone /\ WaitsAreAnswered /\ PushedBeforeRemoval
  BY DEF RunnerInv, RunnerOrder
<1>u. UNCHANGED <<there, dirty, run, runs, lastPush, finalFlag, leaving,
                  unsettled, shared, claimed, sweeping, launch, final, sweep,
                  lostWork, crossed, notices>>
  BY DEF PushNowLocked, checkoutVars, agentVars, claimVars, runnerHist
<1>t1. /\ lock' \in {"free", "agent", "final", "sweep", "request"}
      /\ request' \in {"none", "waiting", "locked", "pushing"}
  BY DEF PushNowLocked, TakeLock
<1>t. RunnerTypeOK'
  BY <1>i, <1>u, <1>t1 DEF RunnerTypeOK
<1>e. request = "waiting" /\ request' = "locked" /\ lock = "free" /\ lock' = "request"
  BY DEF PushNowLocked, TakeLock
<1>1. RemovesAlone'
  BY <1>i, <1>u, <1>e DEF RemovesAlone
<1> QED
  BY <1>i, <1>t, <1>u, <1>1, LaunchOrderFrame, ExitOrderFrame, FinalAloneFrame, SweepAloneFrame,
     LockAloneFrame, WorkIsPushedFrame, WaitsAreAnsweredFrame, PushedBeforeRemovalFrame
     DEF RunnerInv, RunnerOrder

(* PushNowLooks: with the lock, the checkout stays.                         *)
LEMMA PushNowLooksStep ==
    ASSUME RunnerInv, PushNowLooks
    PROVE  RunnerInv'
<1>i. /\ RunnerTypeOK /\ LaunchOrder /\ ExitOrder /\ FinalAlone /\ SweepAlone /\ LockAlone
      /\ WorkIsPushed /\ RemovesAlone /\ WaitsAreAnswered /\ PushedBeforeRemoval
  BY DEF RunnerInv, RunnerOrder
<1>u. UNCHANGED <<there, run, runs, lastPush, finalFlag, leaving, unsettled,
                  shared, claimed, sweeping, launch, final, sweep, lostWork,
                  crossed, notices>>
  BY DEF PushNowLooks, checkoutVars, agentVars, claimVars, runnerHist
<1>t1. /\ lock' \in {"free", "agent", "final", "sweep", "request"}
      /\ request' \in {"none", "waiting", "locked", "pushing"}
  BY <1>i DEF PushNowLooks, Release, RunnerTypeOK
<1>t2. dirty' \in BOOLEAN
  BY <1>i, Zenon DEF PushNowLooks, Pushes, RunnerTypeOK
<1>t. RunnerTypeOK'
  BY <1>i, <1>u, <1>t1, <1>t2 DEF RunnerTypeOK
<1>e. /\ request = "locked"
      /\ \/ request' = "none" /\ lock' = "free"
         \/ request' = "pushing" /\ lock' = lock /\ there
      /\ dirty' => dirty
  BY DEF PushNowLooks, Release, Pushes
<1>1. RemovesAlone'
  BY <1>i, <1>u, <1>e DEF RemovesAlone
<1>2. WorkIsPushed'
  BY <1>i, <1>u, <1>e DEF WorkIsPushed
<1> QED
  BY <1>i, <1>t, <1>u, <1>1, <1>2, LaunchOrderFrame, ExitOrderFrame, FinalAloneFrame, SweepAloneFrame,
     LockAloneFrame, WaitsAreAnsweredFrame, PushedBeforeRemovalFrame
     DEF RunnerInv, RunnerOrder

(* PushNowEnds: the lock is given back.                                     *)
LEMMA PushNowEndsStep ==
    ASSUME RunnerInv, PushNowEnds
    PROVE  RunnerInv'
<1>i. /\ RunnerTypeOK /\ LaunchOrder /\ ExitOrder /\ FinalAlone /\ SweepAlone /\ LockAlone
      /\ WorkIsPushed /\ RemovesAlone /\ WaitsAreAnswered /\ PushedBeforeRemoval
  BY DEF RunnerInv, RunnerOrder
<1>u. UNCHANGED <<there, dirty, run, runs, lastPush, finalFlag, leaving,
                  unsettled, shared, claimed, sweeping, launch, final, sweep,
                  lostWork, crossed, notices>>
  BY DEF PushNowEnds, checkoutVars, agentVars, claimVars, runnerHist
<1>t1. /\ lock' \in {"free", "agent", "final", "sweep", "request"}
      /\ request' \in {"none", "waiting", "locked", "pushing"}
  BY DEF PushNowEnds, Release
<1>t. RunnerTypeOK'
  BY <1>i, <1>u, <1>t1 DEF RunnerTypeOK
<1>e. request = "pushing" /\ request' = "none" /\ lock' = "free"
  BY DEF PushNowEnds, Release
<1>1. RemovesAlone'
  BY <1>i, <1>u, <1>e DEF RemovesAlone
<1> QED
  BY <1>i, <1>t, <1>u, <1>1, LaunchOrderFrame, ExitOrderFrame, FinalAloneFrame, SweepAloneFrame,
     LockAloneFrame, WorkIsPushedFrame, WaitsAreAnsweredFrame, PushedBeforeRemovalFrame
     DEF RunnerInv, RunnerOrder

(* Adopted: the sweep is to come.                                          *)
LEMMA AdoptedStep ==
    ASSUME RunnerInv, NEW i \in Sweeps, Adopted(i)
    PROVE  RunnerInv'
<1>i. /\ RunnerTypeOK /\ LaunchOrder /\ ExitOrder /\ FinalAlone /\ SweepAlone /\ LockAlone
      /\ WorkIsPushed /\ RemovesAlone /\ WaitsAreAnswered /\ PushedBeforeRemoval
  BY DEF RunnerInv, RunnerOrder
<1>a. Owner \in Agents /\ Sharer \in Agents /\ Owner # Sharer /\ (\A c \in Agents : c \in {Owner, Sharer})
  BY RunnerAssumption DEF Agents
<1>u. UNCHANGED <<there, dirty, lock, run, runs, lastPush, finalFlag, leaving,
                  unsettled, shared, claimed, sweeping, launch, final,
                  lostWork, crossed, request, notices>>
  BY DEF Adopted, checkoutVars, agentVars, claimVars, taskVars, runnerHist
<1>t1. sweep' \in [Sweeps -> SweepStages]
  BY <1>i, <1>a DEF Adopted, Sweep, SweepStages, RunnerTypeOK
<1>t. RunnerTypeOK'
  BY <1>i, <1>u, <1>t1 DEF RunnerTypeOK
<1>e. /\ sweep[i] = "none"
      /\ sweep'[i] = "adopted" /\ \A j \in Sweeps : j # i => sweep'[j] = sweep[j]
  BY <1>i, <1>a DEF Adopted, Sweep, SweepStages, RunnerTypeOK
<1>1. LaunchOrder'
  BY <1>i, <1>a, <1>u, <1>e DEF LaunchOrder, Finalizing, SweepAlone, SweepHolds
<1>2. SweepAlone'
  BY <1>i, <1>a, <1>u, <1>e DEF SweepAlone, Running, Busy, SweepHolds, LaunchOrder, ExitOrder
<1>3. LockAlone'
  BY <1>i, <1>a, <1>u, <1>e DEF LockAlone, RemovesAlone
<1>4. RemovesAlone'
  BY <1>i, <1>a, <1>u, <1>e DEF RemovesAlone, Agents, LockAlone, FinalAlone, SweepAlone, SweepHolds,
                                Running, Busy
<1>5. WaitsAreAnswered'
  BY <1>i, <1>a, <1>u, <1>e DEF WaitsAreAnswered, Finalizing, ExitOrder, SweepAlone, SweepHolds, Running
<1> QED
  BY <1>i, <1>t, <1>u, <1>1, <1>2, <1>3, <1>4, <1>5, ExitOrderFrame, FinalAloneFrame,
     WorkIsPushedFrame, PushedBeforeRemovalFrame DEF RunnerInv, RunnerOrder

(* SweepList: a claim made since the last list is forgotten.               *)
LEMMA SweepListStep ==
    ASSUME RunnerInv, NEW i \in Sweeps, SweepList(i)
    PROVE  RunnerInv'
<1>i. /\ RunnerTypeOK /\ LaunchOrder /\ ExitOrder /\ FinalAlone /\ SweepAlone /\ LockAlone
      /\ WorkIsPushed /\ RemovesAlone /\ WaitsAreAnswered /\ PushedBeforeRemoval
  BY DEF RunnerInv, RunnerOrder
<1>a. Owner \in Agents /\ Sharer \in Agents /\ Owner # Sharer /\ (\A c \in Agents : c \in {Owner, Sharer})
  BY RunnerAssumption DEF Agents
<1>u. UNCHANGED <<there, dirty, lock, run, runs, lastPush, finalFlag, leaving,
                  unsettled, shared, sweeping, launch, final, lostWork, request, notices>>
  BY DEF SweepList, checkoutVars, agentVars, claimVars, taskVars, runnerHist
<1>t1. claimed' \subseteq Agents
  BY <1>i, <1>a DEF SweepList, Sweep, SweepStages, RunnerTypeOK
<1>t2. crossed' \in BOOLEAN
  BY <1>i, <1>a, Zenon DEF SweepList, Sweep, SweepStages, RunnerTypeOK
<1>t3. sweep' \in [Sweeps -> SweepStages]
  BY <1>i, <1>a DEF SweepList, Sweep, SweepStages, RunnerTypeOK
<1>t. RunnerTypeOK'
  BY <1>i, <1>u, <1>t1, <1>t2, <1>t3 DEF RunnerTypeOK
<1>e. /\ sweep[i] = "adopted" /\ (crossed => crossed') /\ (launch.stage # "none" => crossed')
      /\ sweep'[i] \in {"listed", "over"} /\ \A j \in Sweeps : j # i => sweep'[j] = sweep[j]
  <2>1. crossed' = (crossed \/ launch # NoLaunch)
    BY DEF SweepList
  <2>2. launch.stage # "none" => launch # NoLaunch
    BY DEF NoLaunch
  <2>3. (crossed => crossed') /\ (launch.stage # "none" => crossed')
    BY <2>1, <2>2, Zenon
  <2> QED
    BY <1>i, <2>3 DEF SweepList, Sweep, RunnerTypeOK
<1>1. LaunchOrder'
  BY <1>i, <1>a, <1>u, <1>e DEF LaunchOrder, Finalizing, SweepAlone, SweepHolds
<1>2. SweepAlone'
  BY <1>i, <1>a, <1>u, <1>e DEF SweepAlone, Running, Busy, SweepHolds, LaunchOrder, ExitOrder
<1>3. LockAlone'
  BY <1>i, <1>a, <1>u, <1>e DEF LockAlone, RemovesAlone
<1>4. RemovesAlone'
  BY <1>i, <1>a, <1>u, <1>e DEF RemovesAlone, Agents, LockAlone, FinalAlone, SweepAlone, SweepHolds,
                                Running, Busy
<1>5. WaitsAreAnswered'
  BY <1>i, <1>a, <1>u, <1>e DEF WaitsAreAnswered, Finalizing, ExitOrder, SweepAlone, SweepHolds, Running
<1> QED
  BY <1>i, <1>t, <1>u, <1>1, <1>2, <1>3, <1>4, <1>5, ExitOrderFrame, FinalAloneFrame,
     WorkIsPushedFrame, PushedBeforeRemovalFrame DEF RunnerInv, RunnerOrder

(* SweepLooks: nobody uses it, and nobody claimed it since.                *)
LEMMA SweepLooksStep ==
    ASSUME RunnerInv, NEW i \in Sweeps, SweepLooks(i)
    PROVE  RunnerInv'
<1>i. /\ RunnerTypeOK /\ LaunchOrder /\ ExitOrder /\ FinalAlone /\ SweepAlone /\ LockAlone
      /\ WorkIsPushed /\ RemovesAlone /\ WaitsAreAnswered /\ PushedBeforeRemoval
  BY DEF RunnerInv, RunnerOrder
<1>a. Owner \in Agents /\ Sharer \in Agents /\ Owner # Sharer /\ (\A c \in Agents : c \in {Owner, Sharer})
  BY RunnerAssumption DEF Agents
<1>u. UNCHANGED <<there, dirty, lock, run, runs, lastPush, finalFlag, leaving,
                  unsettled, shared, claimed, launch, final, lostWork, request, notices>>
  BY DEF SweepLooks, checkoutVars, agentVars, claimVars, taskVars, runnerHist
<1>t1. sweeping' \in BOOLEAN
  BY <1>i, <1>a, Zenon DEF SweepLooks, InUse, LiveSharer, Sweep, SweepStages, ExitOrder,
                           RunnerTypeOK
<1>t2. crossed' \in BOOLEAN
  BY <1>i, <1>a, Zenon DEF SweepLooks, InUse, LiveSharer, Sweep, SweepStages, ExitOrder,
                           RunnerTypeOK
<1>t3. sweep' \in [Sweeps -> SweepStages]
  BY <1>i, <1>a DEF SweepLooks, InUse, LiveSharer, Sweep, SweepStages, ExitOrder, RunnerTypeOK
<1>t. RunnerTypeOK'
  BY <1>i, <1>u, <1>t1, <1>t2, <1>t3 DEF RunnerTypeOK
<1>e. /\ sweep[i] = "listed" /\ \A j \in Sweeps : j # i => sweep'[j] = sweep[j]
      /\ \/ sweep'[i] = "over" /\ sweeping' = sweeping /\ crossed' = crossed
         \/ /\ sweep'[i] = "unlocked" /\ sweeping' /\ Owner \notin claimed /\ ~Running(Owner) /\ ~Running(Sharer)
            /\ crossed' <=> (crossed \/ sweeping)
  BY <1>i, <1>a DEF SweepLooks, InUse, LiveSharer, Sweep, SweepStages, ExitOrder, RunnerTypeOK
<1>1. LaunchOrder'
  BY <1>i, <1>a, <1>u, <1>e DEF LaunchOrder, Finalizing, SweepAlone, SweepHolds
<1>2. SweepAlone'
  BY <1>i, <1>a, <1>u, <1>e DEF SweepAlone, Running, Busy, SweepHolds, LaunchOrder, ExitOrder
<1>3. LockAlone'
  BY <1>i, <1>a, <1>u, <1>e DEF LockAlone, RemovesAlone
<1>4. RemovesAlone'
  BY <1>i, <1>a, <1>u, <1>e DEF RemovesAlone, Agents, LockAlone, FinalAlone, SweepAlone, SweepHolds,
                                Running, Busy
<1>5. WaitsAreAnswered'
  BY <1>i, <1>a, <1>u, <1>e DEF WaitsAreAnswered, Finalizing, ExitOrder, SweepAlone, SweepHolds, Running
<1> QED
  BY <1>i, <1>t, <1>u, <1>1, <1>2, <1>3, <1>4, <1>5, ExitOrderFrame, FinalAloneFrame,
     WorkIsPushedFrame, PushedBeforeRemovalFrame DEF RunnerInv, RunnerOrder

(* SweepLocked: it removes with the lock.                                  *)
LEMMA SweepLockedStep ==
    ASSUME RunnerInv, NEW i \in Sweeps, SweepLocked(i)
    PROVE  RunnerInv'
<1>i. /\ RunnerTypeOK /\ LaunchOrder /\ ExitOrder /\ FinalAlone /\ SweepAlone /\ LockAlone
      /\ WorkIsPushed /\ RemovesAlone /\ WaitsAreAnswered /\ PushedBeforeRemoval
  BY DEF RunnerInv, RunnerOrder
<1>a. Owner \in Agents /\ Sharer \in Agents /\ Owner # Sharer /\ (\A c \in Agents : c \in {Owner, Sharer})
  BY RunnerAssumption DEF Agents
<1>u. UNCHANGED <<there, dirty, run, runs, lastPush, finalFlag, leaving,
                  unsettled, shared, claimed, sweeping, launch, final,
                  lostWork, crossed, request, notices>>
  BY DEF SweepLocked, checkoutVars, agentVars, claimVars, taskVars, runnerHist
<1>t1. lock' \in {"free", "agent", "final", "sweep", "request"}
  BY <1>i, <1>a DEF SweepLocked, TakeLock, Sweep, SweepStages, RunnerTypeOK
<1>t2. sweep' \in [Sweeps -> SweepStages]
  BY <1>i, <1>a DEF SweepLocked, TakeLock, Sweep, SweepStages, RunnerTypeOK
<1>t. RunnerTypeOK'
  BY <1>i, <1>u, <1>t1, <1>t2 DEF RunnerTypeOK
<1>e. /\ sweep[i] = "unlocked" /\ lock = "free" /\ lock' = "sweep"
      /\ sweep'[i] = "removing" /\ \A j \in Sweeps : j # i => sweep'[j] = sweep[j]
  BY <1>i, <1>a DEF SweepLocked, TakeLock, Sweep, SweepStages, RunnerTypeOK
<1>1. LaunchOrder'
  BY <1>i, <1>a, <1>u, <1>e DEF LaunchOrder, Finalizing, SweepAlone, SweepHolds
<1>2. SweepAlone'
  BY <1>i, <1>a, <1>u, <1>e DEF SweepAlone, Running, Busy, SweepHolds, LaunchOrder, ExitOrder
<1>3. LockAlone'
  BY <1>i, <1>a, <1>u, <1>e DEF LockAlone, RemovesAlone
<1>4. RemovesAlone'
  <2>1. final'.stage = "removing" \/ (\E j \in Sweeps : sweep'[j] = "removing") =>
          \/ crossed'
          \/ run'[Owner] \in {"none", "ended"} /\ run'[Sharer] \in {"none", "starting", "ended"}
    BY <1>i, <1>a, <1>t, <1>u, <1>e DEF RemovesAlone, FinalAlone, SweepAlone, SweepHolds,
                                        LaunchOrder, Finalizing, Running, Busy, RunnerTypeOK,
                                        RunStages
  <2>2. lock' = "agent" <=> (\E b \in Agents : run'[b] \in {"pushing", "lastPush"})
    BY <1>i, <1>u, <1>e DEF RemovesAlone
  <2>3. lock' = "final" <=> (final'.stage \in {"pushing", "removing"})
    BY <1>i, <1>u, <1>e DEF RemovesAlone
  <2>4. lock' = "sweep" <=> (\E j \in Sweeps : sweep'[j] = "removing")
    BY <1>i, <1>u, <1>e DEF RemovesAlone
  <2>5. /\ lock' = "request" <=> (request' \in {"locked", "pushing"})
        /\ request' = "pushing" => there'
    BY <1>i, <1>u, <1>e DEF RemovesAlone
  <2> QED
    BY <2>1, <2>2, <2>3, <2>4, <2>5 DEF RemovesAlone
<1>5. WaitsAreAnswered'
  BY <1>i, <1>a, <1>u, <1>e DEF WaitsAreAnswered, Finalizing, ExitOrder, SweepAlone, SweepHolds, Running
<1> QED
  BY <1>i, <1>t, <1>u, <1>1, <1>2, <1>3, <1>4, <1>5, ExitOrderFrame, FinalAloneFrame,
     WorkIsPushedFrame, PushedBeforeRemovalFrame DEF RunnerInv, RunnerOrder

(* SweepRemoved: the lock is given back.                                   *)
LEMMA SweepRemovedStep ==
    ASSUME RunnerInv, NEW i \in Sweeps, SweepRemoved(i)
    PROVE  RunnerInv'
<1>i. /\ RunnerTypeOK /\ LaunchOrder /\ ExitOrder /\ FinalAlone /\ SweepAlone /\ LockAlone
      /\ WorkIsPushed /\ RemovesAlone /\ WaitsAreAnswered /\ PushedBeforeRemoval
  BY DEF RunnerInv, RunnerOrder
<1>a. Owner \in Agents /\ Sharer \in Agents /\ Owner # Sharer /\ (\A c \in Agents : c \in {Owner, Sharer})
  BY RunnerAssumption DEF Agents
<1>u. UNCHANGED <<run, runs, lastPush, finalFlag, leaving, unsettled, shared,
                  claimed, sweeping, launch, final, lostWork, crossed, request, notices>>
  BY DEF SweepRemoved, checkoutVars, agentVars, claimVars, taskVars, runnerHist
<1>t1. there' \in BOOLEAN
  BY <1>i, <1>a, Zenon DEF SweepRemoved, Removed, Release, Sweep, SweepStages, RunnerTypeOK
<1>t2. dirty' \in BOOLEAN
  BY <1>i, <1>a, Zenon DEF SweepRemoved, Removed, Release, Sweep, SweepStages, RunnerTypeOK
<1>t3. lock' \in {"free", "agent", "final", "sweep", "request"}
  BY <1>i, <1>a DEF SweepRemoved, Removed, Release, Sweep, SweepStages, RunnerTypeOK
<1>t4. sweep' \in [Sweeps -> SweepStages]
  BY <1>i, <1>a DEF SweepRemoved, Removed, Release, Sweep, SweepStages, RunnerTypeOK
<1>t. RunnerTypeOK'
  BY <1>i, <1>u, <1>t1, <1>t2, <1>t3, <1>t4 DEF RunnerTypeOK
<1>e. /\ sweep[i] = "removing" /\ lock' = "free" /\ (dirty' => dirty)
      /\ sweep'[i] = "ending" /\ \A j \in Sweeps : j # i => sweep'[j] = sweep[j]
  BY <1>i, <1>a DEF SweepRemoved, Removed, Release, Sweep, SweepStages, RunnerTypeOK
<1>1. LaunchOrder'
  BY <1>i, <1>a, <1>u, <1>e DEF LaunchOrder, Finalizing, SweepAlone, SweepHolds
<1>2. SweepAlone'
  BY <1>i, <1>a, <1>u, <1>e DEF SweepAlone, Running, Busy, SweepHolds, LaunchOrder, ExitOrder
<1>3. LockAlone'
  BY <1>i, <1>a, <1>u, <1>e DEF LockAlone, RemovesAlone
<1>4. WorkIsPushed'
  BY <1>i, <1>a, <1>u, <1>e DEF WorkIsPushed, Busy
<1>5. RemovesAlone'
  BY <1>i, <1>a, <1>u, <1>e DEF RemovesAlone, Agents, LockAlone, FinalAlone, SweepAlone, SweepHolds,
                                Running, Busy
<1>6. WaitsAreAnswered'
  BY <1>i, <1>a, <1>u, <1>e DEF WaitsAreAnswered, Finalizing, ExitOrder, SweepAlone, SweepHolds, Running
<1> QED
  BY <1>i, <1>t, <1>u, <1>1, <1>2, <1>3, <1>4, <1>5, <1>6, ExitOrderFrame,
     FinalAloneFrame, PushedBeforeRemovalFrame DEF RunnerInv, RunnerOrder

(* SweepEnds: a launch may look again.                                     *)
LEMMA SweepEndsStep ==
    ASSUME RunnerInv, NEW i \in Sweeps, SweepEnds(i)
    PROVE  RunnerInv'
<1>i. /\ RunnerTypeOK /\ LaunchOrder /\ ExitOrder /\ FinalAlone /\ SweepAlone /\ LockAlone
      /\ WorkIsPushed /\ RemovesAlone /\ WaitsAreAnswered /\ PushedBeforeRemoval
  BY DEF RunnerInv, RunnerOrder
<1>a. Owner \in Agents /\ Sharer \in Agents /\ Owner # Sharer /\ (\A c \in Agents : c \in {Owner, Sharer})
  BY RunnerAssumption DEF Agents
<1>u. UNCHANGED <<there, dirty, lock, run, runs, lastPush, finalFlag, leaving,
                  unsettled, shared, claimed, launch, final, lostWork, crossed, request, notices>>
  BY DEF SweepEnds, checkoutVars, agentVars, claimVars, taskVars, runnerHist
<1>t1. sweeping' \in BOOLEAN
  BY <1>i, <1>a, Zenon DEF SweepEnds, Sweep, SweepStages, RunnerTypeOK
<1>t2. sweep' \in [Sweeps -> SweepStages]
  BY <1>i, <1>a DEF SweepEnds, Sweep, SweepStages, RunnerTypeOK
<1>t. RunnerTypeOK'
  BY <1>i, <1>u, <1>t1, <1>t2 DEF RunnerTypeOK
<1>e. /\ sweep[i] = "ending" /\ ~sweeping'
      /\ sweep'[i] = "notify" /\ \A j \in Sweeps : j # i => sweep'[j] = sweep[j]
  BY <1>i, <1>a DEF SweepEnds, Sweep, SweepStages, RunnerTypeOK
<1>1. LaunchOrder'
  BY <1>i, <1>a, <1>u, <1>e DEF LaunchOrder, Finalizing, SweepAlone, SweepHolds
<1>2. SweepAlone'
  BY <1>i, <1>a, <1>u, <1>e DEF SweepAlone, Running, Busy, SweepHolds, LaunchOrder, ExitOrder
<1>3. LockAlone'
  BY <1>i, <1>a, <1>u, <1>e DEF LockAlone, RemovesAlone
<1>4. RemovesAlone'
  BY <1>i, <1>a, <1>u, <1>e DEF RemovesAlone, Agents, LockAlone, FinalAlone, SweepAlone, SweepHolds,
                                Running, Busy
<1>5. WaitsAreAnswered'
  BY <1>i, <1>a, <1>u, <1>e DEF WaitsAreAnswered, Finalizing, ExitOrder, SweepAlone, SweepHolds, Running
<1> QED
  BY <1>i, <1>t, <1>u, <1>1, <1>2, <1>3, <1>4, <1>5, ExitOrderFrame, FinalAloneFrame,
     WorkIsPushedFrame, PushedBeforeRemovalFrame DEF RunnerInv, RunnerOrder

(* SweepNotifies: a launch that waits is woken.                            *)
LEMMA SweepNotifiesStep ==
    ASSUME RunnerInv, NEW i \in Sweeps, SweepNotifies(i)
    PROVE  RunnerInv'
<1>i. /\ RunnerTypeOK /\ LaunchOrder /\ ExitOrder /\ FinalAlone /\ SweepAlone /\ LockAlone
      /\ WorkIsPushed /\ RemovesAlone /\ WaitsAreAnswered /\ PushedBeforeRemoval
  BY DEF RunnerInv, RunnerOrder
<1>a. Owner \in Agents /\ Sharer \in Agents /\ Owner # Sharer /\ (\A c \in Agents : c \in {Owner, Sharer})
  BY RunnerAssumption DEF Agents
<1>u. UNCHANGED <<there, dirty, lock, run, runs, lastPush, finalFlag, leaving,
                  unsettled, shared, claimed, sweeping, final, lostWork,
                  crossed, request, notices>>
  BY DEF SweepNotifies, checkoutVars, agentVars, claimVars, taskVars, runnerHist
<1>t1. launch' \in LaunchRecords
  BY <1>i, <1>a DEF SweepNotifies, Woken, Sweep, SweepStages, LaunchRecords, RunnerTypeOK
<1>t2. sweep' \in [Sweeps -> SweepStages]
  BY <1>i, <1>a DEF SweepNotifies, Woken, Sweep, SweepStages, LaunchRecords, RunnerTypeOK
<1>t. RunnerTypeOK'
  BY <1>i, <1>u, <1>t1, <1>t2 DEF RunnerTypeOK
<1>e. /\ sweep[i] = "notify"
      /\ sweep'[i] = "over" /\ \A j \in Sweeps : j # i => sweep'[j] = sweep[j]
      /\ launch'.stage = launch.stage /\ launch'.agent = launch.agent
      /\ launch.stage = "waiting" => launch'.woken
  BY <1>i, <1>a DEF SweepNotifies, Woken, Sweep, SweepStages, LaunchRecords, RunnerTypeOK
<1>1. LaunchOrder'
  BY <1>i, <1>a, <1>u, <1>e DEF LaunchOrder, Finalizing, SweepAlone, SweepHolds
<1>2. SweepAlone'
  BY <1>i, <1>a, <1>u, <1>e DEF SweepAlone, Running, Busy, SweepHolds, LaunchOrder, ExitOrder
<1>3. LockAlone'
  BY <1>i, <1>a, <1>u, <1>e DEF LockAlone, RemovesAlone
<1>4. RemovesAlone'
  BY <1>i, <1>a, <1>u, <1>e DEF RemovesAlone, Agents, LockAlone, FinalAlone, SweepAlone, SweepHolds,
                                Running, Busy
<1>5. WaitsAreAnswered'
  BY <1>i, <1>a, <1>u, <1>e DEF WaitsAreAnswered, Finalizing, ExitOrder, SweepAlone, SweepHolds, Running
<1> QED
  BY <1>i, <1>t, <1>u, <1>1, <1>2, <1>3, <1>4, <1>5, ExitOrderFrame, FinalAloneFrame,
     WorkIsPushedFrame, PushedBeforeRemovalFrame DEF RunnerInv, RunnerOrder

-----------------------------------------------------------------------------
(* The invariant holds at the start, ...                                   *)
LEMMA InitRunnerInv == RunnerInit => RunnerInv
<1> SUFFICES ASSUME RunnerInit PROVE RunnerInv
  OBVIOUS
<1>a. /\ Owner \in Agents /\ Sharer \in Agents /\ MaxLaunches \in Nat /\ NoExit.run = 0
      /\ NoExit \in [agent : Agents, run : {0} \cup Runs]
  BY RunnerAssumption DEF Agents, NoExit
<1>b. /\ there \in BOOLEAN /\ dirty \in BOOLEAN /\ finalFlag \in BOOLEAN /\ shared \in BOOLEAN
      /\ sweeping \in BOOLEAN /\ lostWork \in BOOLEAN /\ crossed \in BOOLEAN
  BY Zenon DEF RunnerInit
<1>c. launch \in LaunchRecords /\ final \in FinalRecords
  BY <1>a DEF RunnerInit, NoLaunch, NoFinal, LaunchRecords, FinalRecords
<1>d. /\ run \in [Agents -> RunStages] /\ runs \in [Agents -> {0} \cup Runs]
      /\ leaving \in [Agents -> {0} \cup Runs] /\ unsettled \in [Agents -> SUBSET Runs]
      /\ sweep \in [Sweeps -> SweepStages] /\ lastPush = "none" /\ lock = "free" /\ claimed = {}
      /\ request = "none" /\ notices = 0
  BY DEF RunnerInit, RunStages, SweepStages
<1>1. RunnerTypeOK
  BY <1>b, <1>c, <1>d DEF RunnerTypeOK
<1>e. /\ \A a \in Agents : run[a] = "none" /\ runs[a] = 0 /\ leaving[a] = 0
      /\ launch.stage = "none" /\ final.stage = "none" /\ final.wait = NoExit
      /\ \A i \in Sweeps : sweep[i] = "none"
      /\ ~dirty /\ ~sweeping /\ ~lostWork /\ lock = "free" /\ request = "none"
  BY DEF RunnerInit, NoLaunch, NoFinal
<1>2. LaunchOrder /\ ExitOrder /\ FinalAlone
  BY <1>a, <1>e DEF LaunchOrder, ExitOrder, FinalAlone, Running
<1>3. SweepAlone /\ LockAlone /\ WorkIsPushed
  BY <1>e DEF SweepAlone, SweepHolds, LockAlone, WorkIsPushed
<1>4. RemovesAlone /\ WaitsAreAnswered /\ PushedBeforeRemoval
  BY <1>e DEF RemovesAlone, WaitsAreAnswered, PushedBeforeRemoval
<1> QED
  BY <1>1, <1>2, <1>3, <1>4 DEF RunnerInv, RunnerOrder

(* ... and every step keeps it.                                            *)
LEMMA RunnerInvNext == RunnerInv /\ [RunnerNext]_runnerVars => RunnerInv'
<1> SUFFICES ASSUME RunnerInv, [RunnerNext]_runnerVars PROVE RunnerInv'
  OBVIOUS
<1>1. ASSUME NEW a \in Agents, Launch(a) \/ AgentStep(a) PROVE RunnerInv'
  BY <1>1, LaunchStep, StartedStep, StartFailsStep, WorksStep, ProviderEndsStep, ExitPushBeginsStep,
     ExitPushEndsStep, LeaveStep, ExitSettledStep DEF AgentStep
<1>2. CASE FinalStopBegins \/ FinalStep
  BY <1>2, FinalStopBeginsStep, FinalFlaggedStep, FinalScriptsStep, FinalSharersStep, FinalStoppedStep,
     FinalPushSkippedStep, FinalPushBeginsStep, FinalPushLockedStep, FinalPushEndsStep, FinalLockedStep,
     FinalRemovedStep, FinalEndsStep, FinalNotifiesStep DEF FinalStep
<1>3. CASE ClaimCheckout \/ ClaimAgain \/ LaunchRefused \/ LaunchAdmitted
  BY <1>3, ClaimCheckoutStep, ClaimAgainStep, LaunchRefusedStep, LaunchAdmittedStep
<1>4. ASSUME NEW i \in Sweeps, Adopted(i) \/ SweepStep(i) PROVE RunnerInv'
  BY <1>4, AdoptedStep, SweepListStep, SweepLooksStep, SweepLockedStep, SweepRemovedStep, SweepEndsStep,
     SweepNotifiesStep DEF SweepStep
<1>5. CASE UNCHANGED runnerVars
  <2>1. UNCHANGED <<there, dirty, lock, run, runs, lastPush, finalFlag, leaving, unsettled, shared,
                    claimed, sweeping, launch, final, sweep, lostWork, crossed, request, notices>>
    BY <1>5 DEF runnerVars, checkoutVars, agentVars, claimVars, taskVars, runnerHist
  <2>2. RunnerTypeOK'
    BY <2>1 DEF RunnerInv, RunnerTypeOK
  <2> QED
    BY <2>1, <2>2, LaunchOrderFrame, ExitOrderFrame, FinalAloneFrame, SweepAloneFrame, LockAloneFrame,
       WorkIsPushedFrame, RemovesAloneFrame, WaitsAreAnsweredFrame, PushedBeforeRemovalFrame
       DEF RunnerInv, RunnerOrder
<1>6. CASE PushNow \/ PushNowLocked \/ PushNowLooks \/ PushNowEnds
  BY <1>6, PushNowStep, PushNowLockedStep, PushNowLooksStep, PushNowEndsStep
<1> QED
  BY <1>1, <1>2, <1>3, <1>4, <1>5, <1>6 DEF RunnerNext

(* The runner keeps its order, for any number of launches and sweeps: the  *)
(* inductive invariant.                                                    *)
THEOREM RunnerInvariant == RunnerSpec => []RunnerInv
<1>1. RunnerInit => RunnerInv
  BY InitRunnerInv
<1>2. RunnerInv /\ [RunnerNext]_runnerVars => RunnerInv'
  BY RunnerInvNext
<1> QED
  BY <1>1, <1>2, PTL DEF RunnerSpec

(* A checkout is removed by one task, under its push lock, and while no    *)
(* agent is started, works or pushes in it, unless two sweeps crossed; nor *)
(* while a requested push reads it.                                        *)
THEOREM RemovalIsAlone == RunnerSpec => []RemovesAlone
<1>1. RunnerInv => RemovesAlone
  BY DEF RunnerInv, RunnerOrder
<1> QED
  BY <1>1, RunnerInvariant, PTL

(* A launch that waits for a removal is woken by it, and a stop waits for  *)
(* an exit record that is still to be settled.                             *)
THEOREM NoWaitIsLost == RunnerSpec => []WaitsAreAnswered
<1>1. RunnerInv => WaitsAreAnswered
  BY DEF RunnerInv, RunnerOrder
<1> QED
  BY <1>1, RunnerInvariant, PTL

(* A final stop that reports a push removes nothing that no push tried to  *)
(* send, crossed sweeps or not.                                            *)
THEOREM NoWorkIsLost == RunnerSpec => []PushedBeforeRemoval
<1>1. RunnerInv => PushedBeforeRemoval
  BY DEF RunnerInv, RunnerOrder
<1> QED
  BY <1>1, RunnerInvariant, PTL

=============================================================================
