# Verification of intentd's remote agent execution

intentd is a daemon that runs coding agents for a workspace application. Since
it gained *remote machines*, an agent of one intentd (the **backend**, called
*head* in the code) may run on another intentd (the **machine**, called *node*
or *executor*). The two share nothing but a WebSocket link that may drop at any
moment, and either side may be killed or restarted while the other goes on.
This directory models that protocol in TLA+, checks it with TLC and proves its
core with TLAPS.

## Inventory

The repository holds about 1.5 million lines of Rust in some twenty crates, tests
included. Most of it is the product itself (workspaces, notes, pull
requests, providers, the agents' own protocol) over a SQLite store. The part whose
correctness is hardest to test is the remote execution protocol, and it is what the
project models first; two concurrent structures of the daemon itself follow.
`PROJECT.json` lists every part with its sources, including those left out.

| Part | State | Operations | What is hard |
| --- | --- | --- | --- |
| machine journal (`intent-nodes/src/journal.rs`) | one file per record, a state file (lease, acknowledged sequence), the last sequence in memory | open, use_lease, append, acknowledge, records_after | a crash, a power failure or an IO error between any two file operations |
| machine session (`intentd/src/executor/session.rs`) | the link gate (the newest binding), the stream's cursor | adopt, apply a frame, stream the journal | a replaced session that still holds frames; an append racing the first read |
| backend ingest (`intent-svc-remote/src/ingest.rs`, `connector.rs`) | ingested sequence, replaying flag, pending acknowledgement | accept, start_link, replay_complete, flush | lost, duplicated and replayed records; a restart between ingesting and saving the acknowledgement |
| backend lease (`intent-svc-remote/src/lease.rs`, `intent-store/src/node_repo.rs`) | durable lease state, link generation, acknowledged sequence | next_hello, persist_ack, renew, end | a dial that fails after the generation was advanced; a failed save |
| machine listener (`intent-transport/src/ws/executor.rs`, `node_link/executor.rs`, `intent-store/src/executor_repo.rs`) | bound connection per credential, bound generation, listener epoch | upgrade, bind, hand over, revoke, close_all | two dials in flight; a listener stopped between authorising and binding |
| executor service (`intentd/src/executor.rs`) | the open backends, their sessions and runners | take a link, open and stop a backend, revoked, reconcile | a link and the revocation of its credential arriving in either order |
| link multiplexer (`intent-transport/src/node_link/link.rs`) | pending calls, stop waiters, bounded queues | call, cancel, stop, route, shut | cancel racing the writer; close racing a registration |
| stops (`intent-svc-remote/src/connector.rs`, `final_stop.rs`, `intent-store/src/node_repo.rs`) | queued stops, durable final stops, settled and grace sets, exits owed | request, resend, confirm, load, expire, claim, settle | resend against acknowledgement against expiry; relaunch before the old exit arrived |
| machine runner (`intentd/src/executor/runner.rs`) | agents running and exiting, checkouts being finalised, claimed and swept | launch, exit, stop, final stop, sweep | stop during a launch; checkout removal against relaunch and against an agent that shares it |
| script runs (`intent-svc-runtime/src/script_ops/machine_runs.rs`, `intentd/src/executor/scripts.rs`) | one run per script and agent, the agents being ended; the machine's processes and kills | start, stop, restart, cancel, frames, link lost, final stop; start, stop, reap | every frame is sent after the lock was released; the script lane is overtaken by the control lane |
| sitter (`intentd-sitter/src/supervisor.rs`) | child process, backoff, failure count, installed version | spawn, check, update, restart, give up | an update found while the child fails, signals during a backoff |
| caches and grace windows (`intent-services/src/*singleflight.rs`, `delete_grace.rs`) | flights in progress, pending deletions | join, finish, retire; schedule, claim, cancel | a result older than the question; a timer claiming a newer deletion |

How they interact. The backend's connector builds a hello from the lease
(acknowledged sequence, a generation one higher than ever before), dials the
machine's listener and waits for a welcome. The listener resolves the credential
at the HTTP upgrade, reads the hello, claims the generation durably
(`bind_executor`), closes the link of the older generation and hands the new one
to the executor service under its lock. The service's worker takes links and
revocations from two queues, opens the backend's runner on the first link and
spawns a session per link. The session adopts the binding under the link gate,
acknowledges the journal up to the hello, and then streams: the backlog, a
*replay complete*, and every later record as it is appended. The connector
classifies each record (duplicate, next, gap), gives it to the agent, and
acknowledges in batches or after a delay, saving the acknowledgement before it
sends it. The machine deletes what is acknowledged.

What makes each part correct: a record an agent produced on the machine reaches
the backend once and in order, and is deleted only when the backend no longer
needs it (journal, session, ingest, lease); only the newest link of a binding has
an effect, and no link or agent survives a revocation or a stop (listener,
service, session); a stop is delivered, confirmed once and never confirms another
(stops, link); a checkout is removed only when no agent uses it
and its work was sent (runner); a script's process belongs to a run, and a live run
has a process or will be settled (script runs). In the daemon: a status that is
served was scanned since it was last called stale, and a deletion under its grace
window is carried out or cancelled by exactly one of those who may claim it.

## Modules

### Journal: `Journal.tla`, `JournalProofs.tla`, `MCJournal.tla`

One process using the directory of `journal.rs`. `dir` is the directory as the
process sees it, `images` the directories a power failure may leave: every
rename or deletion adds one, a directory sync leaves only the current one. `pc`
says which operation is under way and which of its file operations comes next;
`mem` is the `Journal` value. Each function of the source is the chain of
actions that starts with its name (`UseLease`, `DropNewest`, `DropSync`,
`RenewInstall`, `RenewDone` for `use_lease`, and so on). Faults are named in the
constant `Faults`: `kill` (memory is lost), `power` (and any image may be left),
and an IO error at a named file operation. `sent` and `abandoned` are history:
what was streamed under each lease, and the leases moved away from.

### Replication: `RecordLog.tla`, `Replication.tla`, `ReplicationProofs.tla`, `MCReplication.tla`

`RecordLog` is the promise: per backend process, every record once and in order
from the sequence saved when the process started; a record is trimmed only once
saved. `Replication` is the protocol that implements it, for one lease: the
connector and its lease (`SaveForHello`, `Dial`, `Welcomed`, `DialFailed`,
`ReceiveRecord`, `ReceiveReplayComplete`, `AckDue`, `LinkLost`), the listener
(`Bind`, `HandOff`, and `BindCutShort` for a bind whose handshake timed out), the
session (`Adopt`, `ApplyAck`, the steps of `stream_journal`: `StreamRead`,
`StreamSend`, `StreamRest`, `StreamWake`), the probe of `remoteMachines.add`
(`ProbeDial`, `ProbeEnd`), restarts of either process and a network that gives up
a link and loses any suffix of what is under way. The journal's operations are
atomic here; `Journal` is where their steps are.

### ExecutorLinks: `ExecutorLinks.tla`, `ExecutorLinksProofs.tla`, in `MCLinks.tla`

The machine's side of one credential: upgrade (`Subscribe`, `Resolve`), `Bind`,
`HandOff`, the watch on revocations (`WatchRevoked`, `WatchEnd`), the operator's
revocation in its two halves (`Revoke` commits, `NotifyRevoked` broadcasts), the
stop of the listener (`CloseAll`), the service's worker (`Take`, `TakeFailed`,
`WorkerRevoked`, `Reconcile` after an overrun feed), the stop of a backend
(`StopLinks`, `StopAgents`) and the sessions with their gate (`Adopt`,
`ApplyBegin`, `ApplyEnd`, `SessionEnd`). Broadcast receivers see a value only if
they subscribed before it was sent, and may be overrun (`FeedLags`), after which
they know only that they missed something. `MCExecutorLinks` is the instance of the
violation run.

### LinkRpc: `LinkRpc.tla`, `LinkRpcProofs.tla`, `MCLinkRpc.tla`, in `MCLinks.tla` and `MCStops.tla`

One established link of `link.rs`, both ends. Per end: the close flag, the tasks
that are inside `shut` (the flag is raised first, the tables are cleared later),
the write and read loops, the outbound, urgent and event queues, and the frames
on the wire. A call (`CallStart` to `CallAnswered`, `GiveUp`, `Abandon`) and its
request's atomic state on the machine; its handler (`TakeRequest`, `Respond`,
`HandlerDrops`) on the backend; stop callers (`StopBegin` to `StopConfirmed`,
`StopGivesUp`) on the backend and the machine's acknowledgements; the loops
(`TakeUrgent`, `TakeOut`, `WriteFrame`, `Route...`, `Deliver` and their ends).

### FinalStop: `FinalStop.tla`, `FinalStopProofs.tla`, in `MCMachines.tla`

The backend's stops of one agent: `queued` (`Shared::stops`), the store's `record`
and `placed`, `settled`, `inGrace` with its tasks, and one resender per stop and
link. Four actors queue or expire a stop, each in the steps its locks and
transactions allow: a plain request (`RequestStop` queues, `RequestLooks` looks for the
link), a final one (`FinalStop` reads the placement, `FinalRecorded` records,
`QueueFinal`, `Begin`), the loads of the recorded stops by the expiry timer and the dial loop (`LoadList`,
`LoadLook`, `LoadDrops`, `LoadExpires`, `LoadClaims`, `LoadOver`), and the claim of a
bind (`Claim` reads, `ClaimActs` records, or keeps the stop in memory when that fails,
then `Publish`, `ResendQueued`). A link is published only after its claim succeeded, and
`reclaim` is called only once a link is, so the claim it would make again is never
reached. An acknowledgement is
`Acked`, `AckDrops`, `AckClaims`, `AckOver`, `Confirm`; the push grace `GraceDrops`,
`GraceLeft`. Links are lost, dials fail, writes fail, the backend restarts.

### Relaunch: `Relaunch.tla`, `StopsProofs.tla`, in `MCStops.tla`

A plain stop and the next launch of an agent, on both ends: `BeginStop` detaches the
runtime and queues the stop, `StopLooks` looks for the link; the backend's `StopExit`
(`Sent`, `Owed`, `ExitAwaited`, `ExitGivenUp`) and resender, the machine's `TakesLaunch`,
`TakesStop`, `ProcessEnds`, `ExitJournaled`, `ExitLost`, `StopAcknowledged`. Exit
records come in order and survive the link; acknowledgements may overtake them, and a
record, a refusal's too, may fail to be journaled. A launch begins when no runtime is
attached: the agent manager has then stopped the one it held
(`agent_manager.rs:12461`), whose `Drop` finds it stopped and asks for nothing. A
runtime that launch itself drops is `BeginStop` before `LaunchBegins`.

### Runner: `Runner.tla`, `RunnerProofs.tla`, in `MCMachines.tla`

One checkout, its owner and an agent that shares it: launches through
`ClaimCheckout` to `LaunchAdmitted`, exits with their push, the owner's final stop
(`FinalStopBegins` to `FinalNotifies`), the push a session is asked for (`PushNow` to
`PushNowEnds`) and the sweep after a bind (`SweepList` to `SweepNotifies`). `lock` is the
checkout's push lock, which a push or a removal takes in a step after its look for the
checkout; a launch holds the link gate. `FinalizingGuard` frees its entry first and
notifies later (`notices`): another final stop may begin in between.

### ScriptRuns: `ScriptRuns.tla`, `StopsProofs.tla`, in `MCStops.tla`

One script's run by one agent. In the backend `entry` is its place in `runs`, and
`orders` are frames whose task has released the lock and not queued them yet:
`StartLooksUp`, `StartRegisters`, `Respawn`, `StopRun`, `CancelScript`, then
`QueueFrame` or `StartUnsent`, `StopUnsent`. Frames of the machine are `StartedTaken`,
`StartedApplied`, `ExitApplied`; the end of a link is `ServeEnds`, `LinkLost`,
`LostSettled`; the agent's final stop `FinalBegun`, `FinalSent`, and `FinalAcked` or
`FinalExpires`, whose four locks are a step each (`over`: drained, losing, dropping,
leaving). On the machine, sessions adopt, apply the script lane and end
(`SessionAdopts`, `ProcessSpawned`, `ProcessStarts`, `StartRefused`, `StopArrives`,
`SessionOver`), processes are reaped with or without an error (`Reap`), and a final
stop's cleanup kills, waits and removes (`CleanupKills`, `CleanupReaped`, `CleanupDone`,
`CleanupFails`). A start runs in its session under the link gate, so of all else only the
cleanup, a task of its own, comes between a process and its record (`unlisted`).
`FinalStop` abstracts from what a final stop does to scripts, `Runner` from which script
was not reaped: this is where the two ends meet.

### StatusCache: `StatusCache.tla`, `DaemonProofs.tla`, in `MCDaemon.tla`

The git status cache of one worktree and its single flight: readers that serve the
cached status, lead a scan or follow one (`Lead`, `Follow`, `ScanEnds`, `Finish`,
`Retire`, `TakeResult`, `Rescans`), invalidations, evictions, and leaders and followers
that are dropped wherever they await.

### DeleteGrace: `DeleteGrace.tla`, `DaemonProofs.tla`, in `MCDaemon.tla`

The pending deletion of one entity: `window` is the map's entry, and every request
schedules, cancels or deletes. An attempt is prepared (`ScheduleEnters`, `Begin`, `Arm`,
`Publish`), abandoned (`AbandonAttempt`), and claimed by its timer (`Fire`), a cancel
or a delete (`Find`, `TakeArmed`, `AbortTimer`, `Settle`). Of `agent_delete_with_claim`
the model has the row (`TimerDeletes`, `Delete`), which the deletion may fail before, and
the settled claim (`TimerConfirms`, `Confirm`); the agent's other rows and processes are
left out, and a delete that finds no row is over.

### Compositions

`MCMachines`, `MCLinks`, `MCStops` and `MCDaemon` each run several modules in one model. The
modules of one do not share variables: the variable `part`, chosen initially, says
which of them a behaviour is about, so their state spaces add up instead of
multiplying, and each part may have bounds of its own.

## Runs

| Run | Bounds | Shows |
| --- | --- | --- |
| `machines` | journal: two leases, three sequence numbers; final stops: two ids on one link, or one id over two links with one failure or restart; runner: three launches, one sweep, two notices | no crash or harmless IO error leaves a journal that `open` refuses, that replays another lease's record, or that lost a record memory counts; where no process is killed a streamed record survives power failures. A final stop is over once, a queued one is being resent, and a grace keeps its record. A checkout is removed only when nobody uses it and its work was sent, and nobody waits for a removal that is over |
| `journal_io_error` (violation) | three sequence numbers | finding 1 |
| `journal_kill_power` (violation) | three sequence numbers | finding 2 |
| `replication` | two records, six links, three faults | the five properties of the protocol, the refinement of `RecordLog` among them |
| `replication_live` | two records, five links, two faults | every record is acknowledged in the end |
| `links` | two connections, one stop, one overrun; one call | only the newest link is open, none outlives the stop, no stale frame takes effect, no agent starts behind a stop; a revoked credential's links close for good. A call returns before its time limit once the link closed or its handler is done; a handler learns that nobody waits |
| `executor_revoked_agents` (violation) | two connections | finding 3 |
| `link_calls` | two calls, queues of one frame; the connection breaks or its owners close it, not both | no cancellation overtakes its request, a caller that gave up leaves no work behind, nobody waits without a slot, nor on a slot of a link that was shut |
| `stops` | two stop callers, two stop ids; three runs, two stop ids, one new link, three stop frames; two processes, two links, one fast restart | no caller of a stop loses its place because another gave up; a stop acts on its own run and its acknowledgement means that run is gone; a stopped run's exit ends no other; no script process is left that nothing will stop, no live script run that nothing will settle |
| `script_late_start` (violation) | as `stops` | finding 5 |
| `link_big_answer` (violation) | one call | finding 4 |
| `daemon` | two readers, one change, two invalidations; three requests | nothing stale is cached or returned to a forced read, and every read returns; an attempt has one taker, no guard or entry is forgotten, and every grace window ends |

Why the bounds are enough. In `Journal` three sequence numbers tell the first
record from the last and from one between, and give a deletion loop several iterations; the second lease
is the first to be reached from a bound one (`NoLease` precedes both). In
`Replication` two records let a duplicate and a new record share a link; each
fault costs at most one link more, and six links leave room after three faults
for the protocol to finish, and an `AckBatch` of two keeps both the immediate and
the delayed acknowledgement reachable. In `ExecutorLinks` the races are between
an older and a newer connection, and the theorems cover any number.
In `LinkRpc` two calls fill queues of one frame, so every queue is met empty and
full; a connection that breaks after an owner closed it is left to the run with one
call; calls are interchangeable, as are stop callers, and the safety runs use that
symmetry. In `FinalStop` a second id is what a later stop of the same agent needs, a
second link what an acknowledgement of an old link needs; the two are explored apart.
In `Relaunch` three runs let a stop of the second race what is left of the first.
In `Runner` three launches let the owner and the sharer run at once and either come
back; the requested push meets two of them, and a final stop that begins while another's
notification is due meets one. In `FinalStop` a request's two steps are told apart where
the others can still do something about it (`Stage` in `MCMachines`). In `ScriptRuns` two processes are an old one and its successor, two links a lost
one and the next; its three parts are a service stopped and cancelled on one link, one
stopped across a lost link, and an agent ended for good across a lost link. In
`DeleteGrace` three requests are a schedule, its rival and one who comes back. The
theorems below remove the bounds, and the restrictions of the MC modules with them, for
the safety properties they name.

Every run allows deadlock: sequence numbers, links and connections are bounded,
and a run that has used them up rests.

### Fairness

`replication_live` assumes weak fairness of the connector, of each session's task,
of each link's acknowledgements, of the probe's end, and of the arrival of a hello
on a link that is not cut; nothing of appends or faults. The tasks are tokio
tasks that run when they can, the transport delivers until it breaks, and a broken
link is noticed because both ends have heartbeats with a time limit. Failed saves
are left out of that run, because the code does not retry one on a quiet link (a
hazard in `PROJECT.json`). `links` and `executor_revoked_agents`
assume that each connection's task, watch and session, the service's worker and
each backend's stop run when they can, and that a committed revocation is
broadcast, which is the next statement of the same operation. The liveness runs of
`LinkRpc` assume that each loop, each caller and each `shut` proceeds when it can and
that an owner takes its link's events (`links`, `link_big_answer`); nothing of time
limits, of the handlers' work or of acknowledgements, so that a call that returns does so
without its time limit. An owner that takes no events, which a full event queue makes the
read loop wait for, is therefore outside `CallsReturn`: a hazard without a property. `daemon` assumes that a reader's task goes on whenever it can and its scan
ends, that a preparation ends one way or the other, that a deadline passes and that a
deletion once begun ends; nothing of requests, changes, invalidations or drops.

## Findings

1. **A lease change after an IO error can leave a journal that no longer opens**
   (`journal_io_error`). `use_lease` deletes the files memory knows, `acked+1..last`.
   When an earlier IO error left a file outside that range, the file survives the
   lease change, and the next `open` finds a gap.
2. **A streamed record may still be undone** (`journal_kill_power`). `open` lists
   the directory without syncing it. A process killed between the rename and the
   sync of an append restarts on that record and streams it while a power failure
   can still undo it.
3. **A revoked backend may keep its agents** (`executor_revoked_agents`). The
   worker may take the revocation before a link that was bound ahead of it; it
   then opens a backend for the revoked credential, and nothing stops an agent
   launched before the link's watch closes it.
4. **A call whose outcome does not fit a frame waits for its time limit**
   (`link_big_answer`). `respond` marks the request answered before its frame is
   encoded, so when encoding fails neither the reply nor the error of a dropped
   request is sent.
5. **A script may start in a checkout that is being removed** (`script_late_start`). A
   final stop kills the agent's scripts once, before it pushes and removes the checkout,
   and leaves no mark that would keep the session from starting another. A start that it
   overtook, being on the lower script lane, or one that is between `pty.spawn` and its
   record in `running` (`scripts.rs:251`, `:259`), is not seen, and its process writes to
   the checkout and outlives the acknowledgement until its link ends. `runner.rs:1962`
   says "so nothing still writes to its checkout while it is pushed and removed".

## Known gaps

Orders of events in which the code does not do what the properties say. The
properties exclude each of them by a condition or a history variable, named here, so
that what holds otherwise stays checked.

- *Eviction* (`evicted`). `evict` drops a status slot and with it the generation
  (`git_status_cache.rs:114`). A forced read in flight keeps the old minimum and rescans
  until as many invalidations have happened again, and an old scan may match the new
  slot's generation and be stored.
- *Relaunch after a run's own end* (`ownEnd`, `gaveUp`). When the process ended by itself
  and its exit record is not ingested yet, the first stop is answered not-running and
  owes no exit (`connector.rs:1202`); the record may then end the next runtime. The same
  after `wait_stop_exit` gave up.
- *Overlapping sweeps* (`crossed`). `sweeping` is a set: of two sweeps of one agent the
  first to end clears the mark of both (`runner.rs:2199`), and a late list of an older
  bind clears `launched` (`:2158`).
- *A shared checkout's last push* (`dirty`). The owner's exit push counts for the
  checkout even when the sharer worked on and its own push failed (`runner.rs:2000`).
- *Final stops* (`NothingEnded`, `lapsed`). A stop that a load queues while a link is up
  has no resender until the next bind (`connector.rs:758`), and so has a record that was
  made as the placement was dropped; a load that looked before an acknowledgement entered
  its grace may drop an expired record during it; `begun` is called outside the lock, and
  `drop_stops` leaves the agent in `ending` (`machine_runs.rs:956`).
- *A script's process that comes late* (`late`). (a) The start is registered under the
  lock and queued after it (`machine_runs.rs:289`, `:814`): a stop or a cancellation queued
  in between is answered not-running, and the process then starts. (b) The starts of
  finding 5. (c) The stop of a service between two processes may mark idle a run that a
  new start has just registered (`machine_runs.rs:357`). (d) A final stop that expired
  gives its run up without a word to a machine that may still have the process. In each
  case the process lives until its link ends.
- *A frame applied late* (`revived`). `on_frame` looks a process up under one lock and
  marks the run running under another (`machine_runs.rs:538`, `:551`): a run that was
  settled in between is running with no process, until its link is lost.

## Proofs

The theorems hold for every value of the constants under the named assumptions of
the modules (`JournalAssumption`, `ReplicationAssumption` and so on), which say only
that bounds are naturals, that model values differ and that `Faults` names known
faults. A bound in a guard (`MaxSeq`, `MaxGen`, `MaxRuns`) is then any natural
number. Each `...Proofs` module shows that an inductive invariant, itself checked with
TLC first, holds initially and is kept by every action, and derives the properties
from it. The invariants are conjunctions of named parts, kept beside the properties
in the component's module; a proof has one lemma or step per action, and the effect
of an action on each variable is stated first, then each part is shown from it.

- `JournalProofs`: `TypeCorrect`, `AlwaysReopens` (NeverCorrupt), `ReplaysOwnLease`
  (OnlyOwnRecords), `BacklogKept` (BacklogReadable), `StreamedSurvives`
  (StreamedIsDurable, of `UnkilledSpec`), `DurableUnlessKilled` (DurableWithoutKills, of
  the run's `MCSpec`). They assume in addition that the faults of finding 1 do not
  strike (`SafeErrors`); the last two are about behaviours in which no process is killed
  (finding 2).
  NeverCorrupt is not inductive: that the next open finds no gap depends on what
  every directory a crash may leave holds. `IInv` says that each is contiguous
  and of one lease (`Sound`), and, per program point, exactly which files the
  directory has compared with memory (`MemoryMatches`). For streaming, `SInv` adds
  that each possible directory keeps the last record memory counts.
- `ReplicationProofs`: `TypeCorrect`, `DeletesOnlySaved` (KeptUntilSaved),
  `AcksNeverAhead` (NeverAhead), `NeverAGap` (NoGap), `KeepsThePromise`
  (ImplementsRecordLog). An acknowledgement reaches the machine by a
  hello, by a frame of a link long replaced, or through a session that took it
  up earlier, so `IInv` bounds every one of them by the saved acknowledgement
  (`Within`, `SessionsWithin`), and in the other direction everything sent or
  saved by the journal's last record. `NoGap` speaks of the first frame of one link;
  what keeps it is the whole lane. `ChainInv` adds to `IInv` that a link is fresh when
  dialed and is not the probe's (`FreshLinks`), that its first frame is the welcome
  (`WelcomeFirst`), that each record on the lane follows what was ingested or an
  earlier record of the lane, and so does the stream's cursor (`RecordsFollow`: a
  session may skip what the machine has deleted, because that was ingested), and that
  what was ingested is what was delivered (`DeliveredAll`). Every action then leaves
  the lane, appends to it, takes its first frame or gives the link up, with one lemma
  for each. The refinement follows step by step: `ReceiveRecord` is `Deliver`, or
  `Save` for a duplicate; every flush is `Save`, `Adopt` and `ApplyAck` are `Trim`,
  restarts of the backend are `Restart`, and all else leaves the log alone.
- `ExecutorLinksProofs`: `TypeCorrect`, `NewestOpen` (OnlyNewestOpen),
  `StopClosesAll` (NothingOutlivesStop), `GateHolds` (NoStaleEffect),
  `StoppedForGood` (StopIsFinal). `IInv` ties the open link to the listener's entry
  and epoch (`ListenerInv`), says that a link is handed over and taken once
  (`QueueInv`), that a stopped backend's sessions have ended and it is never
  opened again (`BackendInv`; the number of backends is bounded by the number of
  links taken, which is why the types hold), and that a session that applies a
  frame holds the gate (`GateInv`).

- `LinkRpcProofs`: `LinkTypes` (TypeOK), `CancelsFollowRequests`
  (CancelFollowsRequest), `NothingOrphaned` (NoOrphans), `EverySlotMatches`
  (SlotsMatch). Whether a cancellation may overtake its request depends on where the
  request is: `LinkInv` follows it from the queue through the writer and the wire to
  its handler and says that it is in one place (`WrittenOnce`, `DeliveredOnce`), that
  only what was written is cancelled (`AnswersFollow`), and that an end whose tables
  are to be cleared is closed (`EndsShut`).
- `FinalStopProofs`: `OverAtMostOnce` (SettlesOnce), `QueuedStopsAreResent`
  (QueuedIsResent), `RecordKeptInGrace` (GraceKeepsRecord, an action property).
  Acknowledgements on several links and loads of the records may end a stop: `OverOnce`
  says that only one of them claimed it. A queued stop has a resender because ids are
  fresh (`FreshIds`), whoever is to queue a stop has the recorded one
  (`RecordIsQueued`; a request has none until it has recorded it), what a claim did not
  find recorded was not sent since (`PlacedFirst`), and the dial loop reads and claims
  only while no link is up (`BindOrder`).
- `RunnerProofs`: `RemovalIsAlone` (RemovesAlone), `NoWaitIsLost` (WaitsAreAnswered),
  `NoWorkIsLost` (PushedBeforeRemoval). `RunnerInv` says which agent may be up at each
  stage of a final stop, given the exit it waits for (`FinalAlone`), that one sweep
  removes at a time (`SweepAlone`), that an admitted launch excludes both
  (`LaunchOrder`), that one task has the push lock (`LockAlone`), and that work no push
  tried to send is of an agent that has still to begin its own (`WorkIsPushed`).
- `StopsProofs`, of `Relaunch`: `ExitsEndTheirOwn` (StoppedExitEndsItsOwn), `StopsHitTheirOwn`
  (StopHitsItsOwn). One run is there at a time (`OneRun`); the frames on a link are the
  stops of earlier runs, then the launch, then its own stops (`FramesInOrder`); a stop
  that is acknowledged leaves nothing of its run (`AnsweredStops`). For the exit
  records, `OneRecord` bounds how far ingestion is behind, and `FirstSend` says that a
  stop that was sent once is answered for the run it found.
- `StopsProofs`, of `ScriptRuns`: `NoProcessStrays` (NoStrayProcess), `LiveRunsGoOn`
  (LiveRunGoesOn), for any number of processes, links and fast restarts. A stop cannot
  miss its process because of where the start is: a process is asked for once, by a
  task that has not queued its frame, by a frame on a lane or by having been started
  (`OneStart`), and what names the run's process is on the run's link (`OnOneLink`).
  Once the backend has let a spawn go (`LetGo`: the run has another, or a stop or an
  exit names it) a stop follows its start, behind it on the same lane or still with a
  task, unless the link is given up or the process is in `late` (`StopsFollow`). A link
  that is given up takes its processes with its session (`SessionsServe`), and a
  cleanup reaches every process that is not in `late` (`CleanupReaches`). For
  `LiveRunGoesOn` the two cases are a link that is up, where the process is asked for,
  runs or has reported, and one that is gone, where a start is still to be given up or
  a stop waits; that also needs the spawn `link_lost` drained but has not settled yet
  (`RunGoesOn`). `Fresh` and `EntryShape` keep a new spawn and a new link apart from
  everything on its way. TLC checked `ScriptInv` with every action, two
  processes over one link and one process with a restart over two, before the proof.
- `DaemonProofs`: `TakenOnce` (OneTaker), `GuardsAndEntriesOwned` (NothingForgotten) of
  `DeleteGrace`: nobody took an attempt that is still armed (`WindowInv`, `TakenInv`), and
  who took one holds its guard (`ClaimInv`). `CachedIsSince` (CachedSinceInvalidation),
  `ForcedReadsAreFresh` (FreshReads) of `StatusCache`: a scan of the slot's generation
  began after the last invalidation, and one of the generation a forced read asked for
  began after it was asked (`FlightsOrdered`), as long as the slot was not dropped.

The conditions by which the properties leave out the orders of Known gaps are part of
the properties that are proved, not assumptions of the theorems.

Only model-checked: liveness (`EveryRecordAcknowledged`, `RevokedLinksClose`,
`CallsReturn`, `HandlersLearn`, `ReadsReturnUnlessEvicted`, `GraceEnds`), which is out of
the prover's reach; and the five violations. Every invariant of the passing runs is
proved.

## Plan

1. *Done.* `Journal`, `Replication` with `RecordLog`, `ExecutorLinks`, `LinkRpc`,
   `FinalStop`, `Relaunch`, `Runner`, `ScriptRuns`, `StatusCache` and `DeleteGrace` with
   their runs; the proofs of all their safety properties, and of the refinement
   `Replication => RecordLog`.
2. `ScriptLane`: the byte bound of the script lane of `link.rs`, with several
   senders and the writer. Property: the count is what is queued or reserved, and
   returns to zero.
3. `NodeLease`: assignment, renewal and end of leases in `node_repo.rs`, the change of
   lease in `Replication` (whose journal drops the old lease's records), and the end of
   an agent's scripts with its lease (`end_agents`).
4. Git connections of a binding, in `ExecutorLinks`.
5. `Conflate`, `Sitter`, the event bus: independent of the protocol and of each other.

## Not modelled

Within the modelled components: the output and monitors of scripts, secrets, skills,
capability reports of a session, idle timeouts and placement in
the connector, the daemon's own shutdown, certificates and the handshake's version
negotiation. A committed
store transaction is one atomic step. Sequence numbers and generations are
bounded naturals: the code uses 64-bit counters with checked addition, whose end
no execution reaches. Outside them: everything `PROJECT.json` lists as
`not_modelled`, with the reason.

By lines, that is most of the repository. The services (`intent-services`), their
repositories (`intent-store`), providers, the command line and the transport's routes
are operations that read rows, call git or an external service and write rows; what
makes them right is the content of those rows and calls, which a model of their control
would leave out. What they share that a model can reach, locks, flights, caches, queues
and timers, is where the plan goes on.
