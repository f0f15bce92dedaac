------------------------------ MODULE Relaunch ------------------------------
(***************************************************************************)
(* Stopping and relaunching one agent on a machine: the backend's wait for *)
(* the stopped process's exit record (StopExit in crates/intent-svc-       *)
(* remote/src/connector.rs, with runtime.rs and agents.rs) and the         *)
(* machine's answer to a stop (crates/intentd/src/executor/runner.rs,      *)
(* session.rs).                                                            *)
(*                                                                         *)
(* Runs are numbered by the launch that started them.  Frames to the       *)
(* machine keep their order.  Exit records reach the backend in order, and *)
(* survive a lost link, whenever the journal's session and the backend's   *)
(* ingestion get to them: an acknowledgement, which a waiting task takes   *)
(* from the link itself, may overtake them.  Final stops, parked runtimes  *)
(* and restarts are left out.  One request_stop is between its two steps   *)
(* at a time.                                                              *)
(***************************************************************************)
EXTENDS Integers, Sequences

CONSTANTS MaxRuns,    \* bound: launches
          MaxStopIds, \* bound: stop ids
          MaxBinds,   \* bound: links after the first
          MaxSends    \* bound: stop frames the resender sends

ASSUME RelaunchAssumption ==
    MaxRuns \in Nat \ {0} /\ MaxStopIds \in Nat /\ MaxBinds \in Nat /\ MaxSends \in Nat

RunIds  == 1..MaxRuns
StopIds == 1..MaxStopIds

VARIABLES
  \* the machine: the process in `agents' (0: none), whether it was told to
  \* stop, those in `exiting', the exit records journaled, and the stops
  \* whose acknowledgement waits for an exit record
  running, told, exiting, exitLog, waits,
  \* the link: up or not, frames to the machine, acknowledgements
  up, frames, acks,
  \* the backend: the attached runtime (0: none), launches so far, the queued
  \* stop (0: none), ids used, the stop request_stop has queued and not yet
  \* looked for a link for (0: none), StopExit, the resender, the launch under
  \* way, records ingested, and the one delivered whose stop is not settled yet
  sink, launched, stopQueued, stopsUsed, looking, exit, resender, launcher, ingested, delivered,
  \* bounds
  binds, sends,
  \* history: the run each stop is for, runs that ended untold, exit
  \* records that ended another run's runtime, runs a stop for an earlier
  \* run hit, stops acknowledged, and whether a launch gave up waiting
  stopFor, ownEnd, misled, hit, confirmed, gaveUp

nodeSide == <<running, told, exiting, exitLog, waits>>
wires    == <<up, frames, acks>>
runHist  == <<stopFor, ownEnd, misled, hit, confirmed, gaveUp>>
relaunchVars == <<nodeSide, wires, sink, launched, stopQueued, stopsUsed, looking, exit,
                  resender, launcher, ingested, delivered, binds, sends, runHist>>

StopFrame(s)   == [kind |-> "stop", id |-> s]
LaunchFrame(r) == [kind |-> "launch", id |-> r]
Resting    == [stage |-> "idle", stop |-> 0, resent |-> FALSE]
Resends(s) == [stage |-> "loop", stop |-> s, resent |-> FALSE]

RelaunchInit ==
    /\ running = 1 /\ told = FALSE /\ exiting = {} /\ exitLog = <<>> /\ waits = {}
    /\ up = TRUE /\ frames = <<>> /\ acks = {}
    /\ sink = 1 /\ launched = 1 /\ stopQueued = 0 /\ stopsUsed = 0 /\ looking = 0
    /\ exit = "none" /\ resender = Resting /\ launcher = "idle"
    /\ ingested = 0 /\ delivered = 0 /\ binds = 0 /\ sends = 0
    /\ stopFor = [s \in StopIds |-> 0]
    /\ ownEnd = {} /\ misled = {} /\ hit = {} /\ confirmed = {} /\ gaveUp = FALSE

-----------------------------------------------------------------------------
(***************************************************************************)
(* The backend stops the agent.                                            *)
(***************************************************************************)
(* RemoteAgentRuntime::begin_stop: detach, then request_stop queues ...    *)
BeginStop ==
    /\ sink # 0 /\ launcher = "idle" /\ looking = 0 /\ stopsUsed < MaxStopIds
    /\ sink' = 0
    /\ exit' = IF exit = "none" THEN "pending" ELSE exit
    /\ IF stopQueued = 0
       THEN /\ stopsUsed' = stopsUsed + 1
            /\ stopQueued' = stopsUsed'
            /\ stopFor' = [stopFor EXCEPT ![stopsUsed'] = sink]
       ELSE UNCHANGED <<stopsUsed, stopQueued, stopFor>>
    /\ looking' = stopQueued'
    /\ UNCHANGED <<nodeSide, wires, launched, resender, launcher, ingested, delivered, binds,
                   sends, ownEnd, misled, hit, confirmed, gaveUp>>

(* ... and resends on the link it then finds, unless a bind began to; of a *)
(* stop that a bind sent and that was acknowledged meanwhile, resend sends *)
(* nothing.                                                                *)
StopLooks ==
    /\ looking # 0
    /\ looking' = 0
    /\ resender' = IF up /\ resender = Resting /\ stopQueued = looking
                   THEN Resends(looking) ELSE resender
    /\ UNCHANGED <<nodeSide, wires, sink, launched, stopQueued, stopsUsed, exit, launcher,
                   ingested, delivered, binds, sends, runHist>>

(* stop_exit_sending marks the stop as sent.                               *)
Sent == IF exit = "pending" THEN "sent" ELSE exit

(* resend: while its stop is queued and the link is open.                  *)
SendStop ==
    /\ resender.stage = "loop"
    /\ IF stopQueued = resender.stop
       THEN /\ sends < MaxSends
            /\ sends' = sends + 1
            /\ frames' = Append(frames, StopFrame(stopQueued))
            /\ resender' = [resender EXCEPT !.stage = "sent", !.resent = (exit = "sent")]
            /\ exit' = Sent
       ELSE resender' = Resting /\ UNCHANGED <<frames, exit, sends>>
    /\ UNCHANGED <<nodeSide, up, acks, sink, launched, stopQueued, stopsUsed, looking, launcher,
                   ingested, delivered, binds, runHist>>

StopTimesOut ==
    /\ resender.stage = "sent" /\ sends < MaxSends
    /\ resender' = [resender EXCEPT !.stage = "loop"]
    /\ UNCHANGED <<nodeSide, wires, sink, launched, stopQueued, stopsUsed, looking, exit,
                   launcher, ingested, delivered, binds, sends, runHist>>

(* Error to rule out: a resent stop answered not-running owes nothing *)
OwedAfterStopped(outcome, resent) ==
    IF outcome = "stopped" /\ exit \in {"pending", "sent"} THEN "owed"
    ELSE IF exit = "owed" THEN exit ELSE "none"

(* stop_exit_acked: whether an exit record is still to come.               *)
Owed(outcome, resent) ==
    IF (outcome = "stopped" \/ resent) /\ exit \in {"pending", "sent"} THEN "owed"
    ELSE IF exit = "owed" THEN exit ELSE "none"

(* An acknowledgement finds its waiting resender, or is dropped.           *)
Ack(a) ==
    /\ a \in acks
    /\ acks' = acks \ {a}
    /\ IF resender.stage = "sent" /\ resender.stop = a.stop
       THEN /\ resender' = Resting
            /\ IF stopQueued = a.stop
               THEN /\ exit' = Owed(a.outcome, resender.resent)
                    /\ stopQueued' = 0
                    /\ confirmed' = confirmed \cup {a.stop}
               ELSE UNCHANGED <<exit, stopQueued, confirmed>>
       ELSE UNCHANGED <<resender, exit, stopQueued, confirmed>>
    /\ UNCHANGED <<nodeSide, up, frames, sink, launched, stopsUsed, looking, launcher, ingested,
                   delivered, binds, sends, stopFor, ownEnd, misled, hit, gaveUp>>

-----------------------------------------------------------------------------
(***************************************************************************)
(* ... and launches it again.                                              *)
(***************************************************************************)
(* The agent manager has stopped the runtime it held, which detaches it    *)
(* and leaves its Drop nothing to do, before it asks for another           *)
(* (ensure_remote_started in intent-services/src/agent_manager.rs).        *)
LaunchBegins ==
    /\ sink = 0 /\ launcher = "idle" /\ launched < MaxRuns
    /\ launcher' = "stop"
    /\ UNCHANGED <<nodeSide, wires, sink, launched, stopQueued, stopsUsed, looking, exit,
                   resender, ingested, delivered, binds, sends, runHist>>

(* no_stop_pending: the stop is acknowledged, or the launch fails ...      *)
StopAwaited ==
    /\ launcher = "stop"
    /\ launcher' = IF stopQueued = 0 THEN "exit" ELSE "idle"
    /\ UNCHANGED <<nodeSide, wires, sink, launched, stopQueued, stopsUsed, looking, exit,
                   resender, ingested, delivered, binds, sends, runHist>>

Attach ==
    /\ launched' = launched + 1
    /\ sink' = launched'
    /\ launcher' = "sending"

(* ... the exit record is in, or none is owed: the runtime is attached ... *)
ExitAwaited ==
    /\ launcher = "exit"
    /\ exit # "owed"
    /\ Attach
    /\ UNCHANGED <<nodeSide, wires, stopQueued, stopsUsed, looking, exit, resender, ingested,
                   delivered, binds, sends, runHist>>

(* ... or it did not come in time.                                         *)
ExitGivenUp ==
    /\ launcher = "exit"
    /\ exit = "owed"
    /\ exit' = "none"
    /\ gaveUp' = TRUE
    /\ Attach
    /\ UNCHANGED <<nodeSide, wires, stopQueued, stopsUsed, looking, resender, ingested,
                   delivered, binds, sends, stopFor, ownEnd, misled, hit, confirmed>>

SendLaunch ==
    /\ launcher = "sending"
    /\ launcher' = "idle"
    /\ \/ up /\ frames' = Append(frames, LaunchFrame(launched))
       \/ ~up /\ UNCHANGED frames
    /\ UNCHANGED <<nodeSide, up, acks, sink, launched, stopQueued, stopsUsed, looking, exit,
                   resender, ingested, delivered, binds, sends, runHist>>

-----------------------------------------------------------------------------
(***************************************************************************)
(* The link.                                                               *)
(***************************************************************************)
LinkDown ==
    /\ up
    /\ up' = FALSE /\ frames' = <<>> /\ acks' = {} /\ waits' = {}
    /\ resender' = Resting
    /\ UNCHANGED <<running, told, exiting, exitLog, sink, launched, stopQueued, stopsUsed,
                   looking, exit, launcher, ingested, delivered, binds, sends, runHist>>

(* A bind: the queued stop is sent before anything else, then resent.      *)
LinkBound ==
    /\ ~up /\ binds < MaxBinds
    /\ up' = TRUE /\ binds' = binds + 1
    /\ IF stopQueued # 0
       THEN /\ frames' = <<StopFrame(stopQueued)>>
            /\ exit' = Sent
            /\ resender' = Resends(stopQueued)
       ELSE UNCHANGED <<frames, exit, resender>>
    /\ UNCHANGED <<nodeSide, acks, sink, launched, stopQueued, stopsUsed, looking, launcher,
                   ingested, delivered, sends, runHist>>

(* The backend ingests an exit record: Agents::deliver ends the attached   *)
(* runtime, whichever it is ...                                            *)
DeliverExit ==
    /\ up /\ delivered = 0
    /\ ingested < Len(exitLog)
    /\ ingested' = ingested + 1
    /\ LET run == exitLog[ingested'] IN
         /\ delivered' = run
         /\ misled' = IF sink \notin {0, run} THEN misled \cup {run} ELSE misled
    /\ UNCHANGED <<nodeSide, wires, sink, launched, stopQueued, stopsUsed, looking, exit,
                   resender, launcher, binds, sends, stopFor, ownEnd, hit, confirmed, gaveUp>>

(* ... and only then stop_exit_ingested releases a launch that waits.      *)
ExitIngested ==
    /\ delivered # 0
    /\ delivered' = 0
    /\ exit' = CASE exit \in {"pending", "sent"} -> "seen"
                 [] exit = "owed" -> "none"
                 [] OTHER -> exit
    /\ UNCHANGED <<nodeSide, wires, sink, launched, stopQueued, stopsUsed, looking, resender,
                   launcher, ingested, binds, sends, runHist>>

-----------------------------------------------------------------------------
(***************************************************************************)
(* The machine.                                                            *)
(***************************************************************************)
(* A launch is ignored while the agent runs, admitted, or refused: the     *)
(* refusal is an exit record, unless it could not be journaled.            *)
TakesLaunch ==
    /\ frames # <<>> /\ Head(frames).kind = "launch"
    /\ frames' = Tail(frames)
    /\ LET run == Head(frames).id IN
       IF running # 0
       THEN UNCHANGED <<running, exitLog, ownEnd>>
       ELSE \/ running' = run /\ UNCHANGED <<exitLog, ownEnd>>
            \/ /\ exitLog' = Append(exitLog, run)
               /\ ownEnd' = ownEnd \cup {run}
               /\ UNCHANGED running
            \/ UNCHANGED <<running, exitLog, ownEnd>>
    /\ UNCHANGED <<told, exiting, waits, up, acks, sink, launched, stopQueued, stopsUsed,
                   looking, exit, resender, launcher, ingested, delivered, binds, sends,
                   stopFor, misled, hit, confirmed, gaveUp>>

Wait(s, run, outcome) == waits' = waits \cup {[stop |-> s, run |-> run, outcome |-> outcome]}

(* Error to rule out: an agent that is exiting counts as gone *)
TakesStopAtOnce ==
    /\ frames # <<>> /\ Head(frames).kind = "stop"
    /\ frames' = Tail(frames)
    /\ LET s == Head(frames).id IN
       IF running # 0
       THEN /\ told' = TRUE /\ Wait(s, running, "stopped")
            /\ hit' = IF running > stopFor[s] THEN hit \cup {running} ELSE hit
            /\ UNCHANGED acks
       ELSE acks' = acks \cup {[stop |-> s, outcome |-> "not-running"]}
            /\ UNCHANGED <<told, waits, hit>>
    /\ UNCHANGED <<running, exiting, exitLog, up, sink, launched, stopQueued, stopsUsed,
                   looking, exit, resender, launcher, ingested, delivered, binds, sends,
                   stopFor, ownEnd, misled, confirmed, gaveUp>>

(* Runner::stop.                                                           *)
TakesStop ==
    /\ frames # <<>> /\ Head(frames).kind = "stop"
    /\ frames' = Tail(frames)
    /\ LET s == Head(frames).id IN
       \/ /\ running # 0
          /\ told' = TRUE /\ Wait(s, running, "stopped")
          /\ hit' = IF running > stopFor[s] THEN hit \cup {running} ELSE hit
          /\ UNCHANGED acks
       \/ /\ running = 0
          /\ \E run \in exiting :
               (\A other \in exiting : other <= run) /\ Wait(s, run, "not-running")
          /\ UNCHANGED <<told, acks, hit>>
       \/ /\ running = 0 /\ exiting = {}
          /\ acks' = acks \cup {[stop |-> s, outcome |-> "not-running"]}
          /\ UNCHANGED <<told, waits, hit>>
    /\ UNCHANGED <<running, exiting, exitLog, up, sink, launched, stopQueued, stopsUsed,
                   looking, exit, resender, launcher, ingested, delivered, binds, sends,
                   stopFor, ownEnd, misled, confirmed, gaveUp>>

(* The process ends, by itself or because it was told: run_agent's end.    *)
ProcessEnds ==
    /\ running # 0
    /\ running' = 0 /\ told' = FALSE
    /\ exiting' = exiting \cup {running}
    /\ ownEnd' = IF told THEN ownEnd ELSE ownEnd \cup {running}
    /\ UNCHANGED <<exitLog, waits, wires, sink, launched, stopQueued, stopsUsed, looking, exit,
                   resender, launcher, ingested, delivered, binds, sends, stopFor, misled, hit,
                   confirmed, gaveUp>>

(* pump: the exit record is journaled, or could not be: then a stop that   *)
(* waits for it is never acknowledged.                                     *)
ExitJournaled(run) ==
    /\ run \in exiting
    /\ exiting' = exiting \ {run}
    /\ exitLog' = Append(exitLog, run)
    /\ UNCHANGED <<running, told, waits, wires, sink, launched, stopQueued, stopsUsed, looking,
                   exit, resender, launcher, ingested, delivered, binds, sends, runHist>>

ExitLost(run) ==
    /\ run \in exiting
    /\ exiting' = exiting \ {run}
    /\ waits' = {w \in waits : w.run # run}
    /\ UNCHANGED <<running, told, exitLog, wires, sink, launched, stopQueued, stopsUsed,
                   looking, exit, resender, launcher, ingested, delivered, binds, sends,
                   runHist>>

(* StopWait::wait is over: the stop is acknowledged.                       *)
StopAcknowledged(w) ==
    /\ w \in waits
    /\ w.run # running /\ w.run \notin exiting
    /\ waits' = waits \ {w}
    /\ acks' = acks \cup {[stop |-> w.stop, outcome |-> w.outcome]}
    /\ UNCHANGED <<running, told, exiting, exitLog, up, frames, sink, launched, stopQueued,
                   stopsUsed, looking, exit, resender, launcher, ingested, delivered, binds,
                   sends, runHist>>

-----------------------------------------------------------------------------
RelaunchNext ==
    \/ BeginStop \/ StopLooks \/ SendStop \/ StopTimesOut \/ (\E a \in acks : Ack(a))
    \/ LaunchBegins \/ StopAwaited \/ ExitAwaited \/ ExitGivenUp \/ SendLaunch
    \/ LinkDown \/ LinkBound \/ DeliverExit \/ ExitIngested
    \/ TakesLaunch \/ TakesStop \/ ProcessEnds
    \/ \E run \in exiting : ExitJournaled(run) \/ ExitLost(run)
    \/ \E w \in waits : StopAcknowledged(w)

RelaunchSpec == RelaunchInit /\ [][RelaunchNext]_relaunchVars

-----------------------------------------------------------------------------
Outcomes == {"stopped", "not-running"}
ExitStates == {"none", "pending", "sent", "seen", "owed"}

StopWaits   == [stop : StopIds, run : RunIds, outcome : Outcomes]
StopAnswers == [stop : StopIds, outcome : Outcomes]
LinkFrames  == [kind : {"stop"}, id : StopIds] \cup [kind : {"launch"}, id : RunIds]
Resenders   == [stage : {"idle", "loop", "sent"}, stop : 0..MaxStopIds, resent : BOOLEAN]

RelaunchTypeOK ==
    /\ running \in 0..MaxRuns /\ told \in BOOLEAN /\ exiting \subseteq RunIds
    /\ exitLog \in Seq(RunIds) /\ waits \subseteq StopWaits
    /\ up \in BOOLEAN /\ acks \subseteq StopAnswers /\ frames \in Seq(LinkFrames)
    /\ sink \in 0..MaxRuns /\ launched \in RunIds
    /\ stopQueued \in 0..MaxStopIds /\ stopsUsed \in 0..MaxStopIds
    /\ looking \in 0..MaxStopIds
    /\ exit \in ExitStates /\ launcher \in {"idle", "stop", "exit", "sending"}
    /\ resender \in Resenders
    /\ ingested \in Nat /\ delivered \in 0..MaxRuns
    /\ binds \in 0..MaxBinds /\ sends \in 0..MaxSends
    /\ stopFor \in [StopIds -> 0..MaxRuns] /\ confirmed \subseteq StopIds
    /\ ownEnd \subseteq RunIds /\ misled \subseteq RunIds /\ hit \subseteq RunIds
    /\ gaveUp \in BOOLEAN

(* "Attach only after the stopped process's exit record is in, so it never *)
(* ends the new runtime": no exit record ends the runtime of another run,  *)
(* as long as runs end by their stops alone and no launch gives up         *)
(* waiting: however often a stop is resent over lost links, and whether    *)
(* its acknowledgement overtakes the record or answers an earlier frame.   *)
StoppedExitEndsItsOwn == ~gaveUp /\ ownEnd = {} => misled = {}

(* A stop acts on the process it was for, however late a resent frame      *)
(* arrives: "a resent stop can never stop a newer process", and once it is *)
(* acknowledged that process neither runs nor has an exit record left to   *)
(* write, whatever was launched meanwhile.                                 *)
StopHitsItsOwn ==
    /\ hit = {}
    /\ \A s \in confirmed : stopFor[s] # running /\ stopFor[s] \notin exiting

(* What makes these inductive.  A run is coming until the machine takes    *)
(* its launch, and gone once it has neither come, nor runs, nor exits.     *)
LaunchAt(i) == frames[i].kind = "launch"
StopAt(i)   == frames[i].kind = "stop"
FrameIds    == 1..Len(frames)

Coming == launcher = "sending" \/ \E i \in FrameIds : LaunchAt(i)
Gone   == running = 0 /\ exiting = {} /\ ~Coming

(* One run at a time: a run is launched once the stop of the one before it *)
(* is acknowledged, and that is acknowledged once the run is gone.         *)
OneRun ==
    /\ sink \in {0, launched} /\ running \in {0, launched} /\ exiting \subseteq {launched}
    /\ running = 0 => ~told
    /\ told => sink = 0
    /\ launcher = "sending" => sink = launched
    /\ launcher \in {"stop", "exit"} => sink = 0 /\ launched < MaxRuns
    /\ sink # 0 \/ launcher = "exit" => stopQueued = 0
    /\ sink = 0 /\ stopQueued = 0 => Gone
    /\ stopQueued <= stopsUsed /\ (stopQueued # 0 => stopFor[stopQueued] = launched)
    /\ \A s \in StopIds : s <= stopsUsed => stopFor[s] \in 1..launched
    /\ \A s \in StopIds : s <= stopsUsed /\ stopFor[s] = launched => sink = 0 /\ s = stopsUsed

(* The frames on their way: stops of earlier runs, the launch, its stops.  *)
FramesInOrder ==
    /\ \A i \in FrameIds : LaunchAt(i) => frames[i].id = launched
    /\ \A i \in FrameIds : StopAt(i) => frames[i].id <= stopsUsed
    /\ \A i, j \in FrameIds : LaunchAt(i) /\ LaunchAt(j) => i = j
    /\ \A i, j \in FrameIds : LaunchAt(i) /\ StopAt(j) => (i < j <=> stopFor[frames[j].id] = launched)
    /\ running # 0 => \A i \in FrameIds : StopAt(i) /\ stopFor[frames[i].id] = launched
    /\ launcher = "sending" => running = 0 /\ \A i \in FrameIds : StopAt(i)

(* A stop waits for the run it is for, and is acknowledged for good.       *)
AnsweredStops ==
    /\ \A w \in waits : /\ w.stop <= stopsUsed
                        /\ stopFor[w.stop] = launched => w.run = launched /\ ~Coming
    /\ \A a \in acks : a.stop <= stopsUsed /\ (stopFor[a.stop] = launched => Gone)
    /\ \A s \in confirmed : s <= stopsUsed /\ (stopFor[s] = launched => Gone)

(* What StopExit says of the stop, and of the task that sends it.          *)
StopStates ==
    /\ stopQueued # 0 <=> exit \in {"pending", "sent", "seen"}
    /\ sink # 0 => exit = "none"
    /\ resender.stage # "idle" => resender.stop = stopQueued /\ stopQueued # 0

(* As long as runs end by their stops alone and no launch gives up: every  *)
(* exit record is in, ...                                                  *)
Undisturbed == ~gaveUp /\ ownEnd = {}
RecordsIn   == ingested = Len(exitLog) /\ delivered = 0 /\ exiting = {}

(* ... a run has one exit record at most, which is in unless the stop was  *)
(* sent; ...                                                               *)
OneRecord ==
    /\ ingested <= Len(exitLog)
    /\ Undisturbed =>
         /\ Len(exitLog) <= ingested + 1
         /\ delivered # 0 => ingested = Len(exitLog)
         /\ delivered # 0 \/ ingested < Len(exitLog) => exiting = {}
         /\ Coming \/ running # 0 => RecordsIn
         /\ exit \in {"none", "pending", "seen"} => RecordsIn
         /\ exit = "seen" => running = 0 /\ ~Coming

NoFrames(s)  == \A i \in FrameIds : ~(StopAt(i) /\ frames[i].id = s)
NoWaits(s)   == \A w \in waits : w.stop # s
NoAnswers(s) == \A a \in acks : a.stop # s

(* ... and a stop that was sent once meets the run untold, or finds that   *)
(* there is none and no record to come.                                    *)
FirstSend ==
    Undisturbed =>
        /\ exit = "pending" => ~told /\ NoFrames(stopQueued) /\ NoWaits(stopQueued) /\ NoAnswers(stopQueued)
        /\ exit = "sent" /\ resender.stage = "sent" /\ ~resender.resent =>
             /\ NoFrames(stopQueued) \/ (RecordsIn /\ ~told /\ NoWaits(stopQueued) /\ NoAnswers(stopQueued))
             /\ \A i, j \in FrameIds : StopAt(i) /\ StopAt(j) /\ frames[i].id = stopQueued
                                          /\ frames[j].id = stopQueued => i = j
             /\ \A w \in waits : w.stop = stopQueued => w.outcome = "stopped"
             /\ \A a \in acks : a.stop = stopQueued /\ a.outcome = "not-running" => RecordsIn

RelaunchOrder ==
    /\ OneRun /\ FramesInOrder /\ AnsweredStops /\ StopStates /\ OneRecord /\ FirstSend
    /\ StoppedExitEndsItsOwn /\ StopHitsItsOwn

RelaunchInv == RelaunchTypeOK /\ RelaunchOrder
=============================================================================
