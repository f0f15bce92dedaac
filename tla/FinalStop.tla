----------------------------- MODULE FinalStop -----------------------------
(***************************************************************************)
(* The backend's stops of one agent on one machine: the plain stop and the *)
(* final stop that ends it for good (crates/intent-svc-remote/src/         *)
(* connector.rs and final_stop.rs, and the records of                      *)
(* crates/intent-store/src/node_repo.rs).                                  *)
(*                                                                         *)
(* A stop is queued by a request, by a load of the recorded final stops    *)
(* (the expiry timer's or the dial loop's) or by the claim of a bind; one  *)
(* task per link resends it until it is acknowledged.  A step is what      *)
(* happens under one lock or in one transaction.  The machine may          *)
(* acknowledge whatever reached it, at any time its link is up.  Exit      *)
(* records, setup outputs and what a final stop does to the agent's script *)
(* runs are left out; Relaunch has the first, ScriptRuns the last.         *)
(***************************************************************************)
EXTENDS Integers

CONSTANTS MaxStops,      \* bound: stop ids
          MaxLinks,      \* bound: links bound
          MaxFaults,     \* bound: store writes and requests that fail
          MaxRestarts    \* bound: restarts of the backend

ASSUME FinalStopAssumption ==
    MaxStops \in Nat /\ MaxLinks \in Nat /\ MaxFaults \in Nat /\ MaxRestarts \in Nat

Stops  == 1..MaxStops
Links  == 1..MaxLinks
NoStop == 0
Loads  == {"timer", "dial"}
Actors == Loads \cup {"request", "plain", "claim"}

VARIABLES
  record,     \* the store's final stop of the agent, or NoStop
  placed,     \* the store's placement record is there
  lapsed,     \* stops requested longer ago than FINAL_STOP_BOUND
  queued,     \* Shared::stops
  settled,    \* Shared::settled_finals
  inGrace,    \* Shared::in_grace
  graceTask,  \* the tasks that drop a record after the push grace
  linkUp,     \* a link is published and open
  linkGen,    \* links bound so far
  legacy,     \* its protocol is older than final stops
  actor,      \* who queues or expires a stop, and how far it got
  resend,     \* the resender of every stop on every link
  next,       \* the next fresh id
  overs,      \* history: calls of final_stop_over, per stop and process
  faults, restarts

stopStore  == <<record, placed, lapsed, next>>
stopLink   == <<linkUp, linkGen, legacy>>
stopCounts == <<faults, restarts>>
finalVars  == <<stopStore, queued, settled, inGrace, graceTask, stopLink,
                actor, resend, overs, stopCounts>>

NotQueued == [id |-> NoStop, final |-> FALSE, durable |-> FALSE]
Queued(i, final, durable) == [id |-> i, final |-> final, durable |-> durable]

Doing(stage, i, durable) == [stage |-> stage, id |-> i, durable |-> durable]
Idle == Doing("idle", NoStop, FALSE)
(* What an actor does once it is through: the dial loop goes on to dial.   *)
Through(a) == IF a = "dial" THEN Doing("loaded", NoStop, FALSE) ELSE Idle

Sending(stage) == [stage |-> stage, durable |-> FALSE, final |-> FALSE, asFinal |-> FALSE]
NotSending == Sending("idle")

FinalInit ==
    /\ record = NoStop /\ placed = TRUE /\ lapsed = {} /\ next = 1
    /\ queued = NotQueued /\ settled = {} /\ inGrace = {}
    /\ graceTask = [i \in Stops |-> "none"]
    /\ linkUp = FALSE /\ linkGen = 0 /\ legacy = FALSE
    /\ actor = [a \in Actors |-> Idle]
    /\ resend = [i \in Stops |-> [g \in Links |-> NotSending]]
    /\ overs = [i \in Stops |-> 0]
    /\ faults = 0 /\ restarts = 0

Act(a, what) == actor' = [actor EXCEPT ![a] = what]
Resend(i, g, stage) == resend' = [resend EXCEPT ![i][g] = Sending(stage)]

(* A resender starts unless one already resends that stop on that link.    *)
(* The code keeps the newest link on which a stop is resent, which is the  *)
(* same: a resender of an older link clears only its own entry, and starts *)
(* on no link but the published one.                                       *)
Spawned(i) ==
    IF linkUp /\ resend[i][linkGen].stage = "idle"
    THEN [resend EXCEPT ![i][linkGen] = Sending("loop")] ELSE resend

Fault == faults < MaxFaults /\ faults' = faults + 1

(* Store::finish_final_stop: whether it was recorded.  Whether the agent's *)
(* placement goes too depends on the reason of the stop.                   *)
Finish(i) ==
    IF record = i
    THEN record' = NoStop /\ placed' \in {placed, FALSE}
    ELSE UNCHANGED <<record, placed>>

Over(i) == overs' = [overs EXCEPT ![i] = @ + 1]

-----------------------------------------------------------------------------
(***************************************************************************)
(* Queuing.                                                                *)
(***************************************************************************)
(* request_stop: a queued stop keeps its id, a final one stays final; then *)
(* it looks at the link and starts a resender.                             *)
RequestStop ==
    /\ actor["plain"] = Idle
    /\ queued # NotQueued \/ next \in Stops
    /\ queued' = IF queued = NotQueued THEN Queued(next, FALSE, FALSE) ELSE queued
    /\ next' = IF queued = NotQueued THEN next + 1 ELSE next
    /\ Act("plain", Doing("looking", queued'.id, FALSE))
    /\ UNCHANGED <<record, placed, lapsed, settled, inGrace, graceTask, stopLink,
                   resend, overs, stopCounts>>

RequestLooks ==
    /\ actor["plain"].stage = "looking"
    /\ resend' = Spawned(actor["plain"].id)
    /\ Act("plain", Idle)
    /\ UNCHANGED <<stopStore, queued, settled, inGrace, graceTask, stopLink, overs, stopCounts>>

(* final_stop reads whether the agent is placed; unread, it is not ...     *)
FinalStop ==
    /\ actor["request"] = Idle
    /\ \/ Act("request", Doing("recording", NoStop, placed)) /\ UNCHANGED faults
       \/ Act("request", Doing("recording", NoStop, FALSE)) /\ Fault
    /\ UNCHANGED <<stopStore, queued, settled, inGrace, graceTask, stopLink,
                   resend, overs, restarts>>

(* ... and records the stop of a placed agent, keeping one already         *)
(* recorded; without a record it is held in memory.                        *)
FinalRecorded ==
    /\ actor["request"].stage = "recording"
    /\ LET read == actor["request"].durable IN
       \/ /\ read /\ record # NoStop
          /\ Act("request", Doing("queuing", record, TRUE))
          /\ UNCHANGED <<record, next, faults>>
       \/ /\ read /\ record = NoStop /\ next \in Stops
          /\ record' = next /\ next' = next + 1
          /\ Act("request", Doing("queuing", next, TRUE))
          /\ UNCHANGED faults
       \/ /\ next \in Stops
          /\ IF read THEN Fault ELSE UNCHANGED faults
          /\ Act("request", Doing("queuing", next, FALSE))
          /\ next' = next + 1
          /\ UNCHANGED record
    /\ UNCHANGED <<placed, lapsed, queued, settled, inGrace, graceTask, stopLink,
                   resend, overs, restarts>>

(* The caller goes away while it reads or writes the store, the stop       *)
(* recorded or not.                                                        *)
RequestDropped ==
    /\ actor["request"].stage \in {"recording", "queuing"}
    /\ Fault
    /\ Act("request", Idle)
    /\ UNCHANGED <<stopStore, queued, settled, inGrace, graceTask, stopLink,
                   resend, overs, restarts>>

(* queue_final_stop_unless, under the queue's lock: only a claim queues a  *)
(* stop this process already settled, and it begins nothing then.          *)
QueueFinal(a) ==
    /\ actor[a].stage = "queuing"
    /\ LET i == actor[a].id IN
       IF i \in settled /\ a # "claim"
       THEN Act(a, Through(a)) /\ UNCHANGED queued
       ELSE /\ queued' = Queued(i, TRUE, actor[a].durable)
            /\ Act(a, IF i \in settled THEN Idle ELSE Doing("beginning", i, actor[a].durable))
    /\ UNCHANGED <<stopStore, settled, inGrace, graceTask, stopLink, resend, overs, stopCounts>>

(* machine_runs_final_stop_begun; a request then starts a resender.        *)
Begin(a) ==
    /\ actor[a].stage = "beginning"
    /\ resend' = IF a = "request" THEN Spawned(actor[a].id) ELSE resend
    /\ Act(a, Through(a))
    /\ UNCHANGED <<stopStore, queued, settled, inGrace, graceTask, stopLink, overs, stopCounts>>

-----------------------------------------------------------------------------
(***************************************************************************)
(* load_final_stops, by the expiry timer and before every dial.            *)
(***************************************************************************)
LoadList(a) ==
    /\ actor[a] = Idle
    /\ a = "dial" => ~linkUp
    /\ Act(a, IF record = NoStop THEN Through(a) ELSE Doing("listed", record, TRUE))
    /\ UNCHANGED <<stopStore, queued, settled, inGrace, graceTask, stopLink,
                   resend, overs, stopCounts>>

(* The records cannot be read: the next load tries again.                  *)
LoadFails(a) ==
    /\ actor[a] = Idle
    /\ a = "dial" => ~linkUp
    /\ Fault
    /\ Act(a, Through(a))
    /\ UNCHANGED <<stopStore, queued, settled, inGrace, graceTask, stopLink,
                   resend, overs, restarts>>

(* One look under the queue's lock decides what becomes of the record; its *)
(* age is taken right after.                                               *)
LoadLook(a) ==
    /\ actor[a].stage = "listed"
    /\ LET i == actor[a].id IN
       Act(a, CASE i \in inGrace -> Through(a)
                [] i \in settled \ inGrace -> Doing("dropping", i, TRUE)
                [] i \in lapsed \ (settled \cup inGrace) -> Doing("expiring", i, TRUE)
                [] OTHER -> Doing("queuing", i, TRUE))
    /\ UNCHANGED <<stopStore, queued, settled, inGrace, graceTask, stopLink,
                   resend, overs, stopCounts>>

LoadDrops(a) ==
    /\ actor[a].stage = "dropping"
    /\ \/ Finish(actor[a].id) /\ UNCHANGED faults
       \/ Fault /\ UNCHANGED <<record, placed>>
    /\ Act(a, Through(a))
    /\ UNCHANGED <<lapsed, next, queued, settled, inGrace, graceTask, stopLink,
                   resend, overs, restarts>>

(* Only the load whose transaction removed the record goes on.             *)
LoadExpires(a) ==
    /\ actor[a].stage = "expiring"
    /\ \/ /\ Finish(actor[a].id)
          /\ Act(a, IF record = actor[a].id THEN Doing("claiming", actor[a].id, TRUE) ELSE Through(a))
          /\ UNCHANGED faults
       \/ Fault /\ Act(a, Through(a)) /\ UNCHANGED <<record, placed>>
    /\ UNCHANGED <<lapsed, next, queued, settled, inGrace, graceTask, stopLink,
                   resend, overs, restarts>>

(* claim_final_settle with `dequeue'.                                      *)
LoadClaims(a) ==
    /\ actor[a].stage = "claiming"
    /\ LET i == actor[a].id IN
       IF i \in settled
       THEN Act(a, Through(a)) /\ UNCHANGED <<settled, queued>>
       ELSE /\ settled' = settled \cup {i}
            /\ queued' = IF queued.id = i THEN NotQueued ELSE queued
            /\ Act(a, Doing("over", i, TRUE))
    /\ UNCHANGED <<stopStore, inGrace, graceTask, stopLink, resend, overs, stopCounts>>

LoadOver(a) ==
    /\ actor[a].stage = "over"
    /\ Over(actor[a].id)
    /\ Act(a, Through(a))
    /\ UNCHANGED <<stopStore, queued, settled, inGrace, graceTask, stopLink, resend, stopCounts>>

-----------------------------------------------------------------------------
(***************************************************************************)
(* Binding.  The machine may report the agent as running.                  *)
(***************************************************************************)
(* claim: what it read of the store decides; `placed' as it was read.      *)
Claim ==
    /\ actor["dial"].stage = "loaded" /\ actor["claim"] = Idle
    /\ linkGen < MaxLinks
    /\ Act("claim", Doing("reading", record, placed))
    /\ UNCHANGED <<stopStore, queued, settled, inGrace, graceTask, stopLink,
                   resend, overs, stopCounts>>

(* An agent whose record says it should run is left alone; one whose       *)
(* session has ended gets a recorded stop, an unknown one, or one whose    *)
(* stop could not be recorded, a stop in memory.                           *)
ClaimActs ==
    /\ actor["claim"].stage = "reading"
    /\ LET read == actor["claim"] IN
       \/ /\ read.id # NoStop
          /\ Act("claim", Doing("queuing", read.id, TRUE))
          /\ UNCHANGED <<record, next, faults>>
       \/ /\ read.id = NoStop /\ (queued.final \/ read.durable)
          /\ Act("claim", Idle)
          /\ UNCHANGED <<record, next, faults>>
       \/ /\ read.id = NoStop /\ ~queued.final /\ read.durable
          /\ record # NoStop \/ next \in Stops
          /\ record' = IF record = NoStop THEN next ELSE record
          /\ next' = IF record = NoStop THEN next + 1 ELSE next
          /\ Act("claim", Doing("queuing", record', TRUE))
          /\ UNCHANGED faults
       \/ /\ read.id = NoStop /\ ~queued.final
          /\ next \in Stops
          /\ IF read.durable THEN Fault ELSE UNCHANGED faults
          /\ next' = next + 1
          /\ Act("claim", Doing("queuing", next, FALSE))
          /\ UNCHANGED record
    /\ UNCHANGED <<placed, lapsed, queued, settled, inGrace, graceTask, stopLink,
                   resend, overs, restarts>>

(* The link is published; what was queued until then goes out on it ...    *)
Publish ==
    /\ actor["dial"].stage = "loaded" /\ actor["claim"] = Idle
    /\ linkGen < MaxLinks
    /\ linkUp' = TRUE /\ linkGen' = linkGen + 1 /\ legacy' \in BOOLEAN
    /\ actor' = [actor EXCEPT !["dial"] = Idle, !["claim"] = Doing("publishing", NoStop, FALSE)]
    /\ UNCHANGED <<stopStore, queued, settled, inGrace, graceTask, resend, overs, stopCounts>>

(* Error to rule out: only recorded stops are resent after a bind *)
ResendRecorded ==
    /\ actor["claim"].stage = "publishing"
    /\ resend' = IF queued.durable THEN Spawned(queued.id) ELSE resend
    /\ Act("claim", Idle)
    /\ UNCHANGED <<stopStore, queued, settled, inGrace, graceTask, stopLink, overs, stopCounts>>

(* ... resend_queued, which looks at the queue once the link is published. *)
ResendQueued ==
    /\ actor["claim"].stage = "publishing"
    /\ resend' = IF queued # NotQueued THEN Spawned(queued.id) ELSE resend
    /\ Act("claim", Idle)
    /\ UNCHANGED <<stopStore, queued, settled, inGrace, graceTask, stopLink, overs, stopCounts>>

(* The link closes: who sends on it, or waits for an answer, ends.         *)
LinkLost ==
    /\ linkUp
    /\ linkUp' = FALSE /\ legacy' = FALSE
    /\ resend' = [i \in Stops |-> [g \in Links |->
                     IF resend[i][g].stage \in {"loop", "sent"} THEN NotSending ELSE resend[i][g]]]
    /\ UNCHANGED <<stopStore, queued, settled, inGrace, graceTask, linkGen,
                   actor, overs, stopCounts>>

(* A dial fails, because the credential was revoked (drop_stops), the      *)
(* machine is not reached or its claim could not read the store: a link is *)
(* published after a claim that succeeded only, so none is ever retried.   *)
DialFails ==
    /\ actor["dial"].stage = "loaded" /\ actor["claim"] = Idle
    /\ Act("dial", Idle)
    /\ \/ UNCHANGED queued
       \/ queued' = IF queued.durable THEN queued ELSE NotQueued
    /\ UNCHANGED <<stopStore, settled, inGrace, graceTask, stopLink, resend,
                   overs, stopCounts>>

-----------------------------------------------------------------------------
(***************************************************************************)
(* resend, of stop i on link g.                                            *)
(***************************************************************************)
Open(g) == linkUp /\ linkGen = g

Send(i, g) ==
    /\ resend[i][g].stage = "loop"
    /\ resend' = [resend EXCEPT ![i][g] =
         IF queued.id = i /\ Open(g)
         THEN [stage |-> "sent", durable |-> queued.durable, final |-> queued.final,
               asFinal |-> queued.final /\ ~legacy]
         ELSE NotSending]
    /\ UNCHANGED <<stopStore, queued, settled, inGrace, graceTask, stopLink, actor,
                   overs, stopCounts>>

SendTimesOut(i, g) ==
    /\ resend[i][g].stage = "sent" /\ Open(g)
    /\ Resend(i, g, "loop")
    /\ UNCHANGED <<stopStore, queued, settled, inGrace, graceTask, stopLink, actor,
                   overs, stopCounts>>

(* Error to rule out: an acknowledgement settles without claiming *)
SettleUnclaimed(i, g, grace) ==
    /\ settled' = settled \cup {i}
    /\ inGrace' = IF grace THEN inGrace \cup {i} ELSE inGrace
    /\ graceTask' = IF grace THEN [graceTask EXCEPT ![i] = "sleeping"] ELSE graceTask
    /\ Resend(i, g, "over")

(* Error to rule out: the grace is entered by its task, not with the claim *)
SettleBeforeGrace(i, g, grace) ==
    IF i \in settled
    THEN Resend(i, g, "confirm") /\ UNCHANGED <<settled, inGrace, graceTask>>
    ELSE /\ settled' = settled \cup {i}
         /\ graceTask' = IF grace THEN [graceTask EXCEPT ![i] = "sleeping"] ELSE graceTask
         /\ Resend(i, g, "over")
         /\ UNCHANGED inGrace

(* claim_final_settle_with: the first claim settles; below nodeProtocol 9  *)
(* the stop enters its grace in the same step.                             *)
Settle(i, g, grace) ==
    IF i \in settled
    THEN Resend(i, g, "confirm") /\ UNCHANGED <<settled, inGrace, graceTask>>
    ELSE /\ settled' = settled \cup {i}
         /\ inGrace' = IF grace THEN inGrace \cup {i} ELSE inGrace
         /\ graceTask' = IF grace THEN [graceTask EXCEPT ![i] = "sleeping"] ELSE graceTask
         /\ Resend(i, g, "over")

(* The machine acknowledges the stop.                                      *)
Acked(i, g) ==
    /\ resend[i][g].stage = "sent" /\ Open(g)
    /\ LET sent == resend[i][g] IN
       \/ /\ sent.durable /\ sent.asFinal
          /\ Resend(i, g, "dropping")
          /\ UNCHANGED <<settled, inGrace, graceTask>>
       \/ sent.durable /\ ~sent.asFinal /\ Settle(i, g, TRUE)
       \/ ~sent.durable /\ sent.final /\ Settle(i, g, FALSE)
       \/ /\ ~sent.durable /\ ~sent.final
          /\ Resend(i, g, "confirm")
          /\ UNCHANGED <<settled, inGrace, graceTask>>
    /\ UNCHANGED <<stopStore, queued, stopLink, actor, overs, stopCounts>>

AckDrops(i, g) ==
    /\ resend[i][g].stage = "dropping"
    /\ \/ /\ Finish(i)
          /\ Resend(i, g, IF record = i THEN "claiming" ELSE "confirm")
          /\ UNCHANGED faults
       \/ Fault /\ Resend(i, g, "confirm") /\ UNCHANGED <<record, placed>>
    /\ UNCHANGED <<lapsed, next, queued, settled, inGrace, graceTask, stopLink,
                   actor, overs, restarts>>

AckClaims(i, g) ==
    /\ resend[i][g].stage = "claiming"
    /\ Settle(i, g, FALSE)
    /\ UNCHANGED <<stopStore, queued, stopLink, actor, overs, stopCounts>>

AckOver(i, g) ==
    /\ resend[i][g].stage = "over"
    /\ Over(i)
    /\ Resend(i, g, "confirm")
    /\ UNCHANGED <<stopStore, queued, settled, inGrace, graceTask, stopLink, actor, stopCounts>>

(* confirm_stop: "an ack never confirms another stop of the same agent".   *)
Confirm(i, g) ==
    /\ resend[i][g].stage = "confirm"
    /\ queued' = IF queued.id = i THEN NotQueued ELSE queued
    /\ Resend(i, g, "loop")
    /\ UNCHANGED <<stopStore, settled, inGrace, graceTask, stopLink, actor, overs, stopCounts>>

(* The push grace is over: the record is dropped, then the grace left.     *)
GraceDrops(i) ==
    /\ graceTask[i] = "sleeping"
    /\ \/ Finish(i) /\ UNCHANGED faults
       \/ Fault /\ UNCHANGED <<record, placed>>
    /\ graceTask' = [graceTask EXCEPT ![i] = "leaving"]
    /\ UNCHANGED <<lapsed, next, queued, settled, inGrace, stopLink, actor, resend,
                   overs, restarts>>

GraceLeft(i) ==
    /\ graceTask[i] = "leaving"
    /\ inGrace' = inGrace \ {i}
    /\ graceTask' = [graceTask EXCEPT ![i] = "none"]
    /\ UNCHANGED <<stopStore, queued, settled, stopLink, actor, resend, overs, stopCounts>>

-----------------------------------------------------------------------------
(* Time passes: the recorded stop is past its bound, which is far longer   *)
(* than a request or a claim takes to queue what it recorded.              *)
Lapse ==
    /\ record # NoStop /\ record \notin lapsed
    /\ actor["request"].id # record /\ actor["claim"].id # record
    /\ lapsed' = lapsed \cup {record}
    /\ UNCHANGED <<record, placed, next, queued, settled, inGrace, graceTask, stopLink,
                   actor, resend, overs, stopCounts>>

(* The backend restarts: the store and the links bound so far stay.        *)
Restart ==
    /\ restarts < MaxRestarts
    /\ restarts' = restarts + 1
    /\ queued' = NotQueued /\ settled' = {} /\ inGrace' = {}
    /\ graceTask' = [i \in Stops |-> "none"]
    /\ linkUp' = FALSE /\ legacy' = FALSE
    /\ actor' = [a \in Actors |-> Idle]
    /\ resend' = [i \in Stops |-> [g \in Links |-> NotSending]]
    /\ overs' = [i \in Stops |-> 0]
    /\ UNCHANGED <<stopStore, linkGen, faults>>

-----------------------------------------------------------------------------
ActorStep(a) ==
    \/ QueueFinal(a) \/ Begin(a)
    \/ a \in Loads /\ (LoadList(a) \/ LoadLook(a) \/ LoadDrops(a) \/ LoadExpires(a)
                         \/ LoadClaims(a) \/ LoadOver(a))
    \/ a = "claim" /\ (ClaimActs \/ ResendQueued)

ResendStep(i, g) ==
    \/ Send(i, g) \/ AckDrops(i, g) \/ AckClaims(i, g)
    \/ AckOver(i, g) \/ Confirm(i, g)

GraceStep(i) == GraceDrops(i) \/ GraceLeft(i)

FinalNext ==
    \/ RequestStop \/ RequestLooks \/ FinalStop \/ FinalRecorded \/ RequestDropped
    \/ \E a \in Actors : ActorStep(a)
    \/ \E a \in Loads : LoadFails(a)
    \/ Claim \/ Publish \/ LinkLost \/ DialFails
    \/ \E i \in Stops, g \in Links :
         ResendStep(i, g) \/ SendTimesOut(i, g) \/ Acked(i, g)
    \/ \E i \in Stops : GraceStep(i)
    \/ Lapse \/ Restart

FinalSpec == FinalInit /\ [][FinalNext]_finalVars

-----------------------------------------------------------------------------
StopRecords == {s \in [id : Stops, final : BOOLEAN, durable : BOOLEAN] : s.durable => s.final}
ActorStages == {"idle", "queuing", "beginning", "listed", "dropping", "expiring",
                "claiming", "over", "loaded", "reading", "publishing", "looking", "recording"}
ResendStages == {"idle", "loop", "sent", "dropping", "claiming", "over", "confirm"}

FinalTypeOK ==
    /\ record \in Stops \cup {NoStop} /\ placed \in BOOLEAN
    /\ lapsed \subseteq Stops /\ settled \subseteq Stops /\ inGrace \subseteq Stops
    /\ next \in 1..(MaxStops + 1)
    /\ queued \in StopRecords \cup {NotQueued}
    /\ graceTask \in [Stops -> {"none", "sleeping", "leaving"}]
    /\ linkUp \in BOOLEAN /\ legacy \in BOOLEAN
    /\ linkGen \in 0..MaxLinks
    /\ actor \in [Actors -> [stage : ActorStages, id : Stops \cup {NoStop}, durable : BOOLEAN]]
    /\ resend \in [Stops -> [Links -> [stage : ResendStages, durable : BOOLEAN,
                                       final : BOOLEAN, asFinal : BOOLEAN]]]
    /\ overs \in [Stops -> Nat]
    /\ faults \in 0..MaxFaults /\ restarts \in 0..MaxRestarts

(* A final stop is over once, however its acknowledgements on several      *)
(* links, the loads that find it expired and its second queuing interleave *)
(* (intent#8610): its machine runs are not settled again.                  *)
SettlesOnce == \A i \in Stops : overs[i] <= 1

(* A stop acknowledged on an old link keeps its record, and so the push it *)
(* admits, until its grace is over or a newer link acknowledges it too: no *)
(* load drops it, as long as it is not past its bound.                     *)
GraceKeepsRecord ==
    [][\A i \in Stops :
         graceTask[i] = "sleeping" /\ record = i /\ record' # i /\ i \notin lapsed =>
            \/ graceTask'[i] = "leaving"
            \/ \E g \in Links : resend[i][g].stage = "dropping"
                                  /\ resend'[i][g].stage = "claiming"]_finalVars

(* A queued stop is being resent on the link that is up, or is about to    *)
(* be, whether it was queued before the link was bound, while it was being *)
(* bound, or since ("a stop queued later starts its own resender").  That  *)
(* is so until a write or request fails, or a final stop of the agent ends *)
(* or expires: a load may then queue one, which waits for the next link;   *)
(* so it may for a record that was made as the placement was dropped.      *)
NothingEnded ==
    /\ faults = 0 /\ lapsed = {} /\ settled = {}
    /\ record = NoStop \/ placed
    /\ \A i \in Stops, g \in Links : resend[i][g].stage # "claiming"

QueuedIsResent ==
    linkUp /\ queued # NotQueued /\ NothingEnded =>
        \/ resend[queued.id][linkGen].stage # "idle"
        \/ actor["claim"].stage = "publishing"
        \/ \E a \in {"request", "plain"} : actor[a].id = queued.id

(* What makes these inductive.  The dial loop binds one link at a time,    *)
(* and reads and claims only while none is up.                             *)
BindOrder ==
    /\ linkUp => linkGen \in Links /\ actor["dial"].stage = "idle"
    /\ actor["claim"].stage \in {"reading", "queuing", "beginning"} =>
         actor["dial"].stage = "loaded"

(* A stop enters its grace as it is settled, and never again.  A load      *)
(* drops what was settled and left it, and expires what is past its bound. *)
GraceOrder ==
    /\ inGrace \subseteq settled
    /\ \A i \in Stops : graceTask[i] # "none" => i \in inGrace
    /\ \A a \in Actors :
         /\ actor[a].stage = "dropping" => actor[a].id \in settled \ inGrace
         /\ actor[a].stage \in {"expiring", "claiming"} => actor[a].id \in lapsed

(* Who claimed a stop's end is the only one to say it is over.             *)
LoadIsOver(a, i) == actor[a].stage = "over" /\ actor[a].id = i
AckIsOver(g, i)  == resend[i][g].stage = "over"

OverOnce ==
    \A i \in Stops :
        /\ \A a \in Actors : LoadIsOver(a, i) => i \in settled /\ overs[i] = 0
        /\ \A g \in Links : AckIsOver(g, i) => i \in settled /\ overs[i] = 0
        /\ \A a, b \in Actors : LoadIsOver(a, i) /\ LoadIsOver(b, i) => a = b
        /\ \A g, h \in Links : AckIsOver(g, i) /\ AckIsOver(h, i) => g = h
        /\ \A a \in Actors, g \in Links : ~(LoadIsOver(a, i) /\ AckIsOver(g, i))
        /\ i \notin settled => overs[i] = 0

(* Ids are fresh, and the recorded one is only ever queued as recorded; a  *)
(* request has none before it has recorded its stop.                       *)
FreshIds ==
    /\ record < next /\ queued.id < next
    /\ actor["request"].stage = "recording" => actor["request"].id = NoStop
    /\ actor["plain"].stage \in {"idle", "looking"}
    /\ \A a \in Actors :
         /\ actor[a].id < next
         /\ actor[a].stage \in {"listed", "queuing", "beginning", "over", "looking"} =>
              actor[a].id # NoStop
    /\ \A i \in Stops :
         /\ i \in settled \/ (\E g \in Links : resend[i][g].stage # "idle") => i < next
         /\ i = record => /\ queued.id = i => queued.final
                          /\ \A g \in Links : resend[i][g].stage = "sent" => resend[i][g].final

(* Before anything of the agent has expired, what a claim did not find     *)
(* recorded has not been sent since, and the agent is placed as it was.    *)
PlacedFirst ==
    lapsed = {} /\ actor["claim"].stage = "reading" /\ actor["claim"].id = NoStop =>
        /\ actor["claim"].durable => placed
        /\ record # NoStop => /\ record \notin settled
                             /\ \A g \in Links : resend[record][g].stage = "idle"

(* Until a final stop of the agent has ended, whoever is to queue a stop   *)
(* has the one that is recorded, which an acknowledgement never confirms,  *)
(* and it is queued before a link is bound.                                *)
RecordIsQueued ==
    NothingEnded =>
        /\ \A a \in Actors : actor[a].stage \in {"listed", "queuing", "beginning"} =>
             IF actor[a].durable THEN actor[a].id = record ELSE ~placed /\ a \notin Loads
        /\ actor["request"].stage = "recording" => actor["request"].durable \/ ~placed
        /\ actor["claim"].stage = "reading" =>
             /\ actor["claim"].durable = placed
             /\ actor["claim"].id \in {NoStop, record}
        /\ \A i \in Stops, g \in Links : resend[i][g].stage = "confirm" => i # record
        /\ record # NoStop /\ (linkUp \/ actor["dial"].stage \in {"beginning", "loaded"}) =>
             \/ queued.id = record
             \/ \E a \in {"request", "claim"} : actor[a].stage = "queuing" /\ actor[a].id = record

FinalOrder ==
    /\ BindOrder /\ GraceOrder /\ OverOnce /\ FreshIds
    /\ PlacedFirst /\ RecordIsQueued /\ SettlesOnce /\ QueuedIsResent

FinalInv == FinalTypeOK /\ FinalOrder
=============================================================================
