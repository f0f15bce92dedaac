----------------------------- MODULE ScriptRuns -----------------------------
(***************************************************************************)
(* One saved script's run by one remote agent: the backend's entry for it  *)
(* (crates/intent-svc-runtime/src/script_ops/machine_runs.rs), the script  *)
(* lane of each link, and the processes of the machine                     *)
(* (crates/intentd/src/executor/scripts.rs, session.rs, runner.rs).        *)
(*                                                                         *)
(* A step of the backend is what one lock of `runs' covers: a task that    *)
(* sends a frame queues it on its link later, in a step of its own.        *)
(* Script frames of a link keep their order among themselves; a final stop *)
(* travels on the control lane and overtakes them.  Output and monitors,   *)
(* the end of a lease and the shutdown of either daemon are left out.      *)
(***************************************************************************)
EXTENDS Naturals, Sequences

CONSTANTS MaxSpawns, \* bound: processes the backend asks for
          MaxLinks,  \* bound: links
          MaxFast    \* MAX_FAST_RESTARTS

ASSUME ScriptRunsAssumption ==
    MaxSpawns \in Nat \ {0} /\ MaxLinks \in Nat \ {0} /\ MaxFast \in Nat

Spawns  == 1..MaxSpawns
Links   == 1..MaxLinks
Phantom == MaxSpawns + 1 \* the ids drawn for no process, not told apart

VARIABLES
  \* the backend: the entry in `runs', whether the agent is in `ending', how
  \* far the end of its final stop got, the link a start has looked up
  \* (0: none), the stop that waits, frames whose task has not queued them
  \* yet, restarts in their backoff
  entry, ending, over, starter, stopper, orders, sleepers,
  \* the connector: its link, and the spawn on_frame is about to mark running
  serving, taken,
  \* each link's script lanes; links that carry a final stop or its answer
  toMachine, toBackend, finals, finalAcks,
  \* the machine: the newest binding, the sessions that serve their links,
  \* the processes, the one that is spawned and not recorded yet, the final
  \* stop's cleanup, and whether the agent has its checkout
  gate, sessions, procs, unlisted, cleanup, checkout,
  \* spawn ids used; history: processes asked for after they were to stop,
  \* and whether a frame was applied to a run that no longer had its spawn
  spawned, late, revived

callerVars  == <<entry, ending, over, starter, stopper, orders, sleepers>>
laneVars    == <<toMachine, toBackend, finals, finalAcks>>
processVars == <<gate, sessions, procs, unlisted, cleanup, checkout>>
scriptVars  == <<callerVars, serving, taken, laneVars, processVars, spawned, late, revived>>

NoRun   == [here |-> FALSE, service |-> FALSE, status |-> "idle", spawn |-> 0, link |-> 0,
            stopping |-> FALSE, fast |-> 0]
NoStop  == [stage |-> "idle", spawn |-> 0]
NotOver == [stage |-> "none", spawn |-> 0]
Nothing == [kind |-> "none", spawn |-> 0, error |-> FALSE]
NoCleanup == [stage |-> "none", victims |-> {}, askers |-> {}]

ScriptInit ==
    /\ entry = NoRun /\ ending = FALSE /\ over = NotOver
    /\ starter = 0 /\ stopper = NoStop /\ orders = {} /\ sleepers = 0
    /\ serving = [link |-> 0, stage |-> "down", spawn |-> 0] /\ taken = 0
    /\ toMachine = [l \in Links |-> <<>>] /\ toBackend = [l \in Links |-> <<>>]
    /\ finals = {} /\ finalAcks = {}
    /\ gate = 0 /\ sessions = {} /\ procs = {} /\ unlisted = {}
    /\ cleanup = NoCleanup /\ checkout = TRUE
    /\ spawned = 0 /\ late = {} /\ revived = FALSE

-----------------------------------------------------------------------------
(***************************************************************************)
(* The backend's entry.                                                    *)
(***************************************************************************)
Live == entry.status \in {"starting", "running", "restarting"}

LinkUp(l) == serving.stage = "up" /\ serving.link = l

Order(kind, spawn, link) == [kind |-> kind, spawn |-> spawn, link |-> link]

(* A stop or a command ends the run; a service that ended on its own is    *)
(* started again, unless it has not stayed up MaxFast times in a row       *)
(* (having stayed up clears the count).                                    *)
Settle(spawn, error) ==
    IF entry.spawn # spawn
    THEN UNCHANGED <<entry, sleepers>>
    ELSE IF entry.stopping
    THEN /\ entry' = [entry EXCEPT !.spawn = 0, !.stopping = FALSE, !.status = "idle"]
         /\ UNCHANGED sleepers
    ELSE \E fast \in {0, entry.fast} :
           IF ~error /\ entry.service /\ fast < MaxFast
           THEN /\ entry' = [entry EXCEPT !.spawn = 0, !.fast = fast + 1, !.status = "restarting"]
                /\ sleepers' = sleepers + 1
           ELSE /\ entry' = [entry EXCEPT !.spawn = 0, !.fast = fast, !.status = "exited"]
                /\ UNCHANGED sleepers

(* start, up to where it has its link.                                     *)
StartLooksUp ==
    /\ starter = 0 /\ ~ending /\ ~Live /\ serving.stage = "up"
    /\ starter' = serving.link
    /\ UNCHANGED <<entry, ending, over, stopper, orders, sleepers, serving, taken, laneVars,
                   processVars, spawned, late, revived>>

(* start under the lock: refused for an agent that ends, and a run that    *)
(* another start has won is left as it is.                                 *)
StartRegisters ==
    /\ starter # 0 /\ starter' = 0
    /\ IF ending \/ Live
       THEN UNCHANGED <<entry, orders, spawned>>
       ELSE /\ spawned < MaxSpawns /\ spawned' = spawned + 1
            /\ \E service \in BOOLEAN :
                 entry' = [NoRun EXCEPT !.here = TRUE, !.service = service, !.link = starter,
                                        !.spawn = spawned', !.status = "starting"]
            /\ orders' = orders \cup {Order("start", spawned', starter)}
    /\ UNCHANGED <<ending, over, stopper, sleepers, serving, taken, laneVars, processVars,
                   late, revived>>

(* respawn_now, a restart whose backoff is over.                           *)
Respawn ==
    /\ sleepers > 0 /\ sleepers' = sleepers - 1
    /\ IF entry.status # "restarting" \/ entry.spawn # 0
       THEN UNCHANGED <<entry, orders, spawned>>
       ELSE IF entry.stopping
       THEN /\ entry' = [entry EXCEPT !.stopping = FALSE, !.status = "idle"]
            /\ UNCHANGED <<orders, spawned>>
       ELSE /\ spawned < MaxSpawns /\ spawned' = spawned + 1
            /\ entry' = [entry EXCEPT !.spawn = spawned', !.status = "starting"]
            /\ orders' = orders \cup {Order("start", spawned', entry.link)}
    /\ UNCHANGED <<ending, over, starter, stopper, serving, taken, laneVars, processVars,
                   late, revived>>

(* A task queues its frame on its link.  A start that cannot be queued     *)
(* settles its process as lost; a stop that cannot is forgotten.           *)
StartForgotten(o) ==
    /\ o \in orders /\ o.kind = "start" /\ ~LinkUp(o.link)
    /\ orders' = orders \ {o}
    /\ UNCHANGED <<entry, ending, over, starter, stopper, sleepers, serving, taken, laneVars,
                   processVars, spawned, late, revived>>

StartUnsent(o) ==
    /\ o \in orders /\ o.kind = "start" /\ ~LinkUp(o.link)
    /\ orders' = orders \ {o}
    /\ Settle(o.spawn, TRUE)
    /\ UNCHANGED <<ending, over, starter, stopper, serving, taken, laneVars, processVars, spawned,
                   late, revived>>

StopUnsent(o) ==
    /\ o \in orders /\ o.kind = "stop" /\ ~LinkUp(o.link)
    /\ orders' = orders \ {o}
    /\ UNCHANGED <<entry, ending, over, starter, stopper, sleepers, serving, taken, laneVars,
                   processVars, spawned, late, revived>>

QueueFrame(o) ==
    /\ o \in orders /\ LinkUp(o.link)
    /\ orders' = orders \ {o}
    /\ toMachine' = IF o.link \in sessions
                    THEN [toMachine EXCEPT ![o.link] = Append(@, [kind |-> o.kind, spawn |-> o.spawn])]
                    ELSE toMachine
    /\ late' = IF o.kind = "stop" \/ (entry.spawn = o.spawn /\ ~entry.stopping)
               THEN late ELSE late \cup {o.spawn}
    /\ UNCHANGED <<entry, ending, over, starter, stopper, sleepers, serving, taken, toBackend, finals,
                   finalAcks, processVars, spawned, revived>>

(* stop, which dismisses a run that is over; restart is a stop and then a  *)
(* start.                                                                  *)
StopRun ==
    /\ entry.here /\ stopper = NoStop
    /\ IF ~Live
       THEN entry' = NoRun /\ UNCHANGED <<stopper, orders>>
       ELSE /\ entry' = [entry EXCEPT !.stopping = TRUE]
            /\ IF entry.spawn = 0
               THEN /\ stopper' = [stage |-> "between", spawn |-> 0]
                    /\ UNCHANGED orders
               ELSE /\ stopper' = [stage |-> "waiting", spawn |-> entry.spawn]
                    /\ orders' = orders \cup {Order("stop", entry.spawn, entry.link)}
    /\ UNCHANGED <<ending, over, starter, sleepers, serving, taken, laneVars, processVars, spawned,
                   late, revived>>

(* It met a service between two processes.                                 *)
StopBetween ==
    /\ stopper.stage = "between" /\ stopper' = NoStop
    /\ entry' = IF entry.here THEN [entry EXCEPT !.stopping = FALSE, !.status = "idle"] ELSE entry
    /\ late' = late \cup ({entry.spawn} \ {0})
    /\ UNCHANGED <<ending, over, starter, orders, sleepers, serving, taken, laneVars, processVars,
                   spawned, revived>>

StopSent == stopper.stage = "waiting"
            /\ \A o \in orders : o.kind = "start" \/ o.spawn # stopper.spawn

StopSettled ==
    /\ StopSent /\ entry.spawn # stopper.spawn
    /\ stopper' = NoStop
    /\ UNCHANGED <<entry, ending, over, starter, orders, sleepers, serving, taken, laneVars,
                   processVars, spawned, late, revived>>

(* Not acknowledged within stop_wait: settled here.                        *)
StopUnanswered ==
    /\ StopSent /\ entry.spawn = stopper.spawn
    /\ Settle(stopper.spawn, FALSE)
    /\ stopper' = NoStop
    /\ UNCHANGED <<ending, over, starter, orders, serving, taken, laneVars, processVars, spawned,
                   late, revived>>

(* cancel_script: the definition changed or went.                          *)
CancelForgets ==
    /\ entry.here /\ entry' = NoRun
    /\ UNCHANGED <<ending, over, starter, stopper, orders, sleepers, serving, taken, laneVars,
                   processVars, spawned, late, revived>>

CancelScript ==
    /\ entry.here /\ entry' = NoRun
    /\ orders' = IF entry.spawn = 0 THEN orders
                 ELSE orders \cup {Order("stop", entry.spawn, entry.link)}
    /\ UNCHANGED <<ending, over, starter, stopper, sleepers, serving, taken, laneVars, processVars,
                   spawned, late, revived>>

-----------------------------------------------------------------------------
(***************************************************************************)
(* The connector: frames from the machine, links, and final stops.         *)
(***************************************************************************)
(* on_frame finds the place whose spawn the frame names and applies the    *)
(* frame under another lock, where an exit is looked up once more.         *)
Incoming == IF serving.stage = "up" /\ toBackend[serving.link] # <<>>
           THEN Head(toBackend[serving.link]) ELSE Nothing
Received == toBackend' = [toBackend EXCEPT ![serving.link] = Tail(@)]

StartedTaken ==
    /\ Incoming.kind = "started" /\ Received /\ taken = 0
    /\ taken' = IF entry.spawn = Incoming.spawn THEN entry.spawn ELSE 0
    /\ UNCHANGED <<callerVars, serving, toMachine, finals, finalAcks, processVars, spawned,
                   late, revived>>

StartedApplied ==
    /\ taken # 0 /\ taken' = 0
    /\ entry' = IF entry.here THEN [entry EXCEPT !.status = "running"] ELSE entry
    /\ revived' = (revived \/ (entry.here /\ entry.spawn # taken))
    /\ UNCHANGED <<ending, over, starter, stopper, orders, sleepers, serving, laneVars, processVars,
                   spawned, late>>

ExitApplied ==
    /\ Incoming.kind = "exited" /\ Received /\ taken = 0
    /\ Settle(Incoming.spawn, Incoming.error)
    /\ UNCHANGED <<ending, over, starter, stopper, orders, serving, taken, toMachine, finals,
                   finalAcks, processVars, spawned, late, revived>>

LinkBinds ==
    /\ serving.stage = "down" /\ serving.link < MaxLinks
    /\ serving' = [link |-> serving.link + 1, stage |-> "up", spawn |-> 0]
    /\ sessions' = sessions \cup {serving.link + 1}
    /\ UNCHANGED <<callerVars, taken, laneVars, gate, procs, unlisted, cleanup, checkout,
                   spawned, late, revived>>

(* serve ends and the link is closed.  link_lost then collects the live    *)
(* run, a service between two processes too, and settles it as lost before *)
(* the next link is dialled.                                               *)
ServeEnds ==
    /\ serving.stage = "up" /\ taken = 0
    /\ serving' = [serving EXCEPT !.stage = "closed"]
    /\ toBackend' = [toBackend EXCEPT ![serving.link] = <<>>]
    /\ finalAcks' = finalAcks \ {serving.link}
    /\ UNCHANGED <<callerVars, taken, toMachine, finals, processVars, spawned, late, revived>>

LinkLost ==
    /\ serving.stage = "closed"
    /\ LET spawn == IF entry.spawn = 0 THEN Phantom ELSE entry.spawn
       IN IF Live
          THEN /\ entry' = [entry EXCEPT !.stopping = FALSE, !.spawn = spawn]
               /\ serving' = [serving EXCEPT !.stage = "losing", !.spawn = spawn]
          ELSE /\ serving' = [serving EXCEPT !.stage = "down"]
               /\ UNCHANGED entry
    /\ UNCHANGED <<ending, over, starter, stopper, orders, sleepers, taken, laneVars, processVars,
                   spawned, late, revived>>

LostSettled ==
    /\ serving.stage = "losing"
    /\ Settle(serving.spawn, TRUE)
    /\ serving' = [serving EXCEPT !.stage = "down", !.spawn = 0]
    /\ UNCHANGED <<ending, over, starter, stopper, orders, taken, laneVars, processVars, spawned,
                   late, revived>>

(* final_stop_begun: no start from now on, and an exit ends the run.  The  *)
(* queue calls it again whenever the stop is queued again.                 *)
FinalBegun ==
    /\ over.stage # "done" /\ checkout
    /\ ending' = TRUE
    /\ entry' = [entry EXCEPT !.stopping = entry.stopping \/ Live]
    /\ UNCHANGED <<over, starter, stopper, orders, sleepers, serving, taken, laneVars,
                   processVars, spawned, late, revived>>

(* A final stop is sent, and resent until it is acknowledged.              *)
FinalSent ==
    /\ ending /\ over = NotOver /\ serving.stage = "up" /\ serving.link \in sessions
    /\ finals' = finals \cup {serving.link}
    /\ UNCHANGED <<callerVars, serving, taken, toMachine, toBackend, finalAcks, processVars,
                   spawned, late, revived>>

(* final_stop_acked, under one lock after the other: the live run is       *)
(* drained, a service between two processes too, settled as lost whether   *)
(* it was to stop or not, and its entry dropped; then the agent may start  *)
(* scripts again.                                                          *)
Drained ==
    LET spawn == IF entry.spawn = 0 THEN Phantom ELSE entry.spawn
    IN IF Live
       THEN /\ entry' = [entry EXCEPT !.spawn = spawn]
            /\ over' = [stage |-> "drained", spawn |-> spawn]
       ELSE /\ over' = [stage |-> "dropping", spawn |-> 0]
            /\ UNCHANGED entry

(* The machine acknowledged the stop ...                                   *)
FinalAcked ==
    /\ over = NotOver /\ serving.stage = "up" /\ serving.link \in finalAcks
    /\ finalAcks' = finalAcks \ {serving.link}
    /\ Drained
    /\ UNCHANGED <<ending, starter, stopper, orders, sleepers, serving, taken, toMachine,
                   toBackend, finals, processVars, spawned, late, revived>>

(* ... or did not within FINAL_STOP_BOUND.                                 *)
FinalExpires ==
    /\ over = NotOver /\ ending
    /\ Drained
    /\ UNCHANGED <<ending, starter, stopper, orders, sleepers, serving, taken, laneVars,
                   processVars, spawned, late, revived>>

(* What an expired stop gives up, nobody tells the machine to stop.        *)
GivenUp == IF checkout THEN late \cup ({entry.spawn} \ {0}) ELSE late

FinalLoses ==
    /\ over.stage = "drained" /\ over' = [over EXCEPT !.stage = "losing"]
    /\ entry' = [entry EXCEPT !.stopping = FALSE]
    /\ late' = GivenUp
    /\ UNCHANGED <<ending, starter, stopper, orders, sleepers, serving, taken, laneVars,
                   processVars, spawned, revived>>

FinalSettles ==
    /\ over.stage = "losing" /\ over' = [stage |-> "dropping", spawn |-> 0]
    /\ Settle(over.spawn, TRUE)
    /\ late' = GivenUp
    /\ UNCHANGED <<ending, starter, stopper, orders, serving, taken, laneVars, processVars,
                   spawned, revived>>

FinalDrops ==
    /\ over.stage = "dropping" /\ over' = [over EXCEPT !.stage = "leaving"]
    /\ entry' = NoRun
    /\ late' = GivenUp
    /\ UNCHANGED <<ending, starter, stopper, orders, sleepers, serving, taken, laneVars,
                   processVars, spawned, revived>>

FinalLeft ==
    /\ over.stage = "leaving" /\ over' = [over EXCEPT !.stage = "done"]
    /\ ending' = FALSE
    /\ UNCHANGED <<entry, starter, stopper, orders, sleepers, serving, taken, laneVars,
                   processVars, spawned, late, revived>>

-----------------------------------------------------------------------------
(***************************************************************************)
(* The machine.                                                            *)
(***************************************************************************)
SessionAdopts(l) ==
    /\ unlisted = {} /\ l \in sessions /\ l > gate /\ gate' = l
    /\ UNCHANGED <<callerVars, serving, taken, laneVars, sessions, procs, unlisted, cleanup,
                   checkout, spawned, late, revived>>

(* The session's loop is over, which applies one frame at a time: the      *)
(* processes it started are killed.                                        *)
SessionOver(l) ==
    /\ l \in sessions /\ sessions' = sessions \ {l}
    /\ \A p \in procs : p.link = l => p.spawn \notin unlisted
    /\ procs' = {[p EXCEPT !.killed = p.killed \/ p.link = l] : p \in procs}
    /\ toMachine' = [toMachine EXCEPT ![l] = <<>>]
    /\ finals' = finals \ {l}
    /\ UNCHANGED <<callerVars, serving, taken, toBackend, finalAcks, gate, unlisted, cleanup,
                   checkout, spawned, late, revived>>

(* The head of a link's script lane, which only the newest binding's       *)
(* session applies, under the link gate until the frame is done with.      *)
Arrives(l, kind) == /\ unlisted = {} /\ l \in sessions /\ l = gate
                    /\ toMachine[l] # <<>> /\ Head(toMachine[l]).kind = kind
Consume(l)       == toMachine' = [toMachine EXCEPT ![l] = Tail(@)]
Exited(spawn, error) == [kind |-> "exited", spawn |-> spawn, error |-> error]
Started(spawn)       == [kind |-> "started", spawn |-> spawn, error |-> FALSE]

Tells(l, frame)  == toBackend' = IF LinkUp(l) THEN [toBackend EXCEPT ![l] = Append(@, frame)]
                                 ELSE toBackend

(* ScriptProcesses::start refuses an agent without a checkout and a        *)
(* process that could not be spawned.                                      *)
StartRefused(l) ==
    /\ Arrives(l, "start") /\ Consume(l)
    /\ Tells(l, Exited(Head(toMachine[l]).spawn, TRUE))
    /\ UNCHANGED <<callerVars, serving, taken, finals, finalAcks, processVars, spawned, late,
                   revived>>

(* A process is spawned, and then recorded in `running', where the kills   *)
(* of a final stop find it.  Its reaper starts once it was reported.       *)
ProcessSpawned(l) ==
    /\ Arrives(l, "start") /\ Consume(l) /\ checkout
    /\ LET spawn == Head(toMachine[l]).spawn
       IN /\ procs' = procs \cup {[spawn |-> spawn, link |-> l, killed |-> FALSE]}
          /\ unlisted' = {spawn}
          /\ late' = IF cleanup.stage \in {"none", "begun"} THEN late ELSE late \cup {spawn}
    /\ UNCHANGED <<callerVars, serving, taken, toBackend, finals, finalAcks, gate, sessions,
                   cleanup, checkout, spawned, revived>>

ProcessStarts(l) ==
    /\ \E p \in procs : /\ p.link = l /\ p.spawn \in unlisted
                        /\ Tells(l, Started(p.spawn))
    /\ unlisted' = {}
    /\ UNCHANGED <<callerVars, serving, taken, toMachine, finals, finalAcks, gate, sessions,
                   procs, cleanup, checkout, spawned, late, revived>>

(* ScriptProcesses::stop: the process is killed, and its reaper will       *)
(* report its exit; or there is none, which is answered.                   *)
StopArrives(l) ==
    /\ Arrives(l, "stop") /\ Consume(l)
    /\ LET spawn == Head(toMachine[l]).spawn
       IN /\ procs' = {[p EXCEPT !.killed = p.killed \/ p.spawn = spawn] : p \in procs}
          /\ IF \E p \in procs : p.spawn = spawn
             THEN UNCHANGED toBackend ELSE Tells(l, Exited(spawn, TRUE))
    /\ UNCHANGED <<callerVars, serving, taken, finals, finalAcks, gate, sessions, unlisted,
                   cleanup, checkout, spawned, late, revived>>

(* reap: the process has ended, on its own or killed; it is forgotten and  *)
(* its exit reported on the link that started it, if the session still     *)
(* serves it, as an error when its status could not be observed.  A kill   *)
(* may take its time.                                                      *)
Reap(p) ==
    /\ p \in procs /\ p.spawn \notin unlisted
    /\ procs' = procs \ {p}
    /\ \E error \in BOOLEAN :
         IF p.link \in sessions THEN Tells(p.link, Exited(p.spawn, error)) ELSE UNCHANGED toBackend
    /\ UNCHANGED <<callerVars, serving, taken, toMachine, finals, finalAcks, gate, sessions,
                   unlisted, cleanup, checkout, spawned, late, revived>>

(* Runner::final_stop.  A repeat joins the cleanup under way.              *)
FinalArrives(l) ==
    /\ unlisted = {} /\ l \in finals /\ l = gate
    /\ finals' = finals \ {l}
    /\ cleanup' = [cleanup EXCEPT !.askers = @ \cup {l},
                                  !.stage = IF @ = "none" THEN "begun" ELSE @]
    /\ UNCHANGED <<callerVars, serving, taken, toMachine, toBackend, finalAcks, gate, sessions,
                   procs, unlisted, checkout, spawned, late, revived>>

(* stop_agent: every recorded process of the agent is killed, and waited   *)
(* for; one that is spawned and not recorded yet is missed.                *)
CleanupKills ==
    /\ cleanup.stage = "begun"
    /\ procs' = {[p EXCEPT !.killed = p.killed \/ p.spawn \notin unlisted] : p \in procs}
    /\ cleanup' = [cleanup EXCEPT !.stage = "reaping",
                                  !.victims = {p.spawn : p \in procs} \ unlisted]
    /\ late' = late \cup unlisted
    /\ UNCHANGED <<callerVars, serving, taken, laneVars, gate, sessions, unlisted, checkout,
                   spawned, revived>>

CleanupReaped ==
    /\ cleanup.stage = "reaping" /\ \A p \in procs : p.spawn \notin cleanup.victims
    /\ cleanup' = [cleanup EXCEPT !.stage = "removing", !.victims = {}]
    /\ UNCHANGED <<callerVars, serving, taken, laneVars, gate, sessions, procs,
                   unlisted, checkout, spawned, late, revived>>

(* The agent is stopped, its checkout pushed and removed.                  *)
CleanupDone ==
    /\ cleanup.stage = "removing" /\ cleanup' = NoCleanup
    /\ checkout' = FALSE
    /\ finalAcks' = finalAcks \cup {l \in cleanup.askers \cap sessions : LinkUp(l)}
    /\ UNCHANGED <<callerVars, serving, taken, toMachine, toBackend, finals, gate, sessions,
                   procs, unlisted, spawned, late, revived>>

(* A process is not reaped in time, or a later step fails: no answer.      *)
CleanupFails ==
    /\ cleanup.stage \in {"reaping", "removing"} /\ cleanup' = NoCleanup
    /\ UNCHANGED <<callerVars, serving, taken, laneVars, gate, sessions, procs,
                   unlisted, checkout, spawned, late, revived>>

-----------------------------------------------------------------------------
ScriptNext ==
    \/ StartLooksUp \/ StartRegisters \/ Respawn
    \/ \E o \in orders : StartUnsent(o) \/ StopUnsent(o) \/ QueueFrame(o)
    \/ StopRun \/ StopBetween \/ StopSettled \/ StopUnanswered \/ CancelScript
    \/ StartedTaken \/ StartedApplied \/ ExitApplied
    \/ LinkBinds \/ ServeEnds \/ LinkLost \/ LostSettled
    \/ FinalBegun \/ FinalSent \/ FinalAcked \/ FinalExpires
    \/ FinalLoses \/ FinalSettles \/ FinalDrops \/ FinalLeft
    \/ \E l \in Links : \/ SessionAdopts(l) \/ SessionOver(l)
                        \/ StartRefused(l) \/ ProcessSpawned(l) \/ ProcessStarts(l)
                        \/ StopArrives(l) \/ FinalArrives(l)
    \/ \E p \in procs : Reap(p)
    \/ CleanupKills \/ CleanupReaped \/ CleanupDone \/ CleanupFails

ScriptSpec == ScriptInit /\ [][ScriptNext]_scriptVars

-----------------------------------------------------------------------------
InLane(lane, kind, spawn) ==
    \E i \in 1..Len(lane) : lane[i].kind = kind /\ lane[i].spawn = spawn

(* A process of the machine is the run's, or is told to stop: it was       *)
(* killed, a stop for it is on its way, or the backend gave its link up    *)
(* and the session of that link has still to end.  Not so for the          *)
(* processes in `late': their start was queued once they were to stop, a   *)
(* final stop's cleanup did not see them, or their final stop expired.     *)
NoStrayProcess ==
    \A p \in procs :
        \/ p.spawn \in late \/ p.killed \/ entry.spawn = p.spawn
        \/ p.link \in sessions
           /\ \/ ~LinkUp(p.link)
              \/ Order("stop", p.spawn, p.link) \in orders
              \/ InLane(toMachine[p.link], "stop", p.spawn)

(* No process runs where a final stop pushes and removes the checkout:     *)
(* "The agent's script runs end first, so nothing still writes to its      *)
(* checkout while it is pushed and removed" (runner.rs:1962).              *)
NothingWritesInRemoval == cleanup.stage = "removing" => procs = {}

(* A live run goes on: a restart is due, or its process has still to be    *)
(* asked for, started or reported, or a stop, a lost link or the end of a  *)
(* final stop will settle it.  Left out are behaviours where a frame was   *)
(* applied to a run that no longer had its spawn.                          *)
LiveRunGoesOn ==
    entry.here /\ Live /\ ~revived =>
        IF entry.spawn = 0
        THEN sleepers > 0 \/ stopper.stage = "between"
        ELSE \/ Order("start", entry.spawn, entry.link) \in orders
             \/ InLane(toMachine[entry.link], "start", entry.spawn)
             \/ \E p \in procs : p.spawn = entry.spawn
             \/ InLane(toBackend[entry.link], "exited", entry.spawn)
             \/ stopper.stage = "waiting" /\ stopper.spawn = entry.spawn
             \/ over.stage \in {"drained", "losing"} /\ over.spawn = entry.spawn
             \/ serving.stage \in {"closed", "losing"}
             \/ serving.stage = "up" /\ serving.link \notin sessions

(* What makes these inductive.                                             *)
LaneIds(l) == 1..Len(toMachine[l])

Entries   == [here : BOOLEAN, service : BOOLEAN, spawn : 0..Phantom, link : 0..MaxLinks,
              status : {"idle", "starting", "running", "restarting", "exited"},
              stopping : BOOLEAN, fast : Nat]
Stoppers  == [stage : {"idle", "between", "waiting"}, spawn : 0..Phantom]
Overs     == [stage : {"none", "drained", "losing", "dropping", "leaving", "done"},
              spawn : 0..Phantom]
Orders    == [kind : {"start", "stop"}, spawn : 1..Phantom, link : Links]
Servings  == [link : 0..MaxLinks, stage : {"down", "up", "closed", "losing"}, spawn : 0..Phantom]
Frames    == [kind : {"start", "stop"}, spawn : 1..Phantom]
Reports   == {r \in [kind : {"started", "exited"}, spawn : 1..Phantom, error : BOOLEAN] :
                r.kind = "started" => r.spawn \in Spawns}
Processes == [spawn : Spawns, link : Links, killed : BOOLEAN]
Cleanups  == [stage : {"none", "begun", "reaping", "removing"}, victims : SUBSET Spawns,
              askers : SUBSET Links]

ScriptTypeOK ==
    /\ entry \in Entries /\ ending \in BOOLEAN /\ over \in Overs
    /\ starter \in 0..MaxLinks /\ stopper \in Stoppers
    /\ orders \subseteq Orders /\ sleepers \in Nat /\ serving \in Servings /\ taken \in 0..Phantom
    /\ toMachine \in [Links -> Seq(Frames)] /\ toBackend \in [Links -> Seq(Reports)]
    /\ finals \subseteq Links /\ finalAcks \subseteq Links
    /\ gate \in 0..MaxLinks /\ sessions \subseteq Links /\ procs \subseteq Processes
    /\ unlisted \subseteq Spawns /\ cleanup \in Cleanups /\ checkout \in BOOLEAN
    /\ spawned \in 0..MaxSpawns /\ late \subseteq 1..Phantom /\ revived \in BOOLEAN

(* A process is asked for on a link while its start has still to be sent   *)
(* or to be applied there, and while it runs.  Other frames name it too.   *)
Asked(spawn, l) ==
    \/ Order("start", spawn, l) \in orders \/ InLane(toMachine[l], "start", spawn)
    \/ \E p \in procs : p.spawn = spawn /\ p.link = l

Named(spawn, l) ==
    \/ Asked(spawn, l)
    \/ Order("stop", spawn, l) \in orders \/ InLane(toMachine[l], "stop", spawn)
    \/ InLane(toBackend[l], "started", spawn) \/ InLane(toBackend[l], "exited", spawn)

(* Spawn ids and links are handed out upwards.                             *)
Known(spawn) == spawn <= spawned \/ spawn = Phantom

Fresh ==
    /\ Known(entry.spawn) /\ Known(stopper.spawn) /\ taken <= spawned
    /\ entry.link <= serving.link /\ starter <= serving.link
    /\ \A l \in sessions : l <= serving.link
    /\ \A x \in 1..Phantom, l \in Links : /\ Named(x, l) => Known(x) /\ l <= serving.link
                                          /\ Asked(x, l) => x <= spawned

(* The entry, the stop that waits, the end of a final stop and the link    *)
(* that is lost.                                                           *)
OverPends == over.stage \in {"drained", "losing"} /\ over.spawn = entry.spawn

EntryShape ==
    /\ ~entry.here => entry.spawn = 0 /\ entry.status = "idle"
    /\ entry.here => entry.link \in Links
    /\ entry.spawn = Phantom => \/ serving.stage = "losing" /\ serving.spawn = Phantom
                                \/ OverPends
    /\ over.stage \in {"drained", "losing"} => over.spawn # 0
    /\ stopper.stage = "waiting" => stopper.spawn # 0
    /\ serving.stage = "losing" => serving.spawn # 0
    /\ serving.stage # "down" => serving.link \in Links
    /\ ~Live /\ entry.spawn # 0 => entry.spawn \in late

(* A process is asked for once: by a task, by a frame, or it was started.  *)
OneStart ==
    /\ \A o, q \in orders : o.kind = "start" /\ q.kind = "start" /\ o.spawn = q.spawn => o = q
    /\ \A o \in orders : o.kind = "start" =>
         /\ \A l \in Links : ~InLane(toMachine[l], "start", o.spawn)
         /\ \A p \in procs : p.spawn # o.spawn
    /\ \A l, k \in Links : \A i \in LaneIds(l), j \in LaneIds(k) :
         toMachine[l][i].kind = "start" /\ toMachine[k][j].kind = "start"
           /\ toMachine[l][i].spawn = toMachine[k][j].spawn => l = k /\ i = j
    /\ \A p \in procs : \A l \in Links : ~InLane(toMachine[l], "start", p.spawn)
    /\ \A p, q \in procs : p.spawn = q.spawn => p = q

(* What concerns the run's process is on the run's link.                   *)
OnItsLink(spawn, link) == spawn = entry.spawn /\ spawn # Phantom => link = entry.link

OnOneLink ==
    /\ \A x \in 1..Phantom, l \in Links : Named(x, l) => OnItsLink(x, l)
    /\ taken # 0 => serving.stage = "up" /\ OnItsLink(taken, serving.link)

(* A session that is over leaves no frame and no process alive, and a      *)
(* cleanup no process but the ones in `late'.                              *)
SessionsServe ==
    /\ \A l \in Links \ sessions : toMachine[l] = <<>>
    /\ \A p \in procs : p.killed \/ p.link \in sessions

CleanupReaches ==
    /\ cleanup.stage = "reaping" => \A p \in procs : p.spawn \in late \cup cleanup.victims
    /\ cleanup.stage = "removing" \/ ~checkout => \A p \in procs : p.spawn \in late
    /\ finalAcks # {} => ~checkout

(* The backend is done with a spawn once the run has another, or a stop or *)
(* an exit names it.  From then on a stop follows its start, wherever that *)
(* is.                                                                     *)
Told(spawn) ==
    \/ stopper.stage = "waiting" /\ stopper.spawn = spawn
    \/ \E l \in Links : \/ Order("stop", spawn, l) \in orders
                        \/ InLane(toMachine[l], "stop", spawn)
                        \/ InLane(toBackend[l], "exited", spawn)

LetGo(spawn) == entry.spawn # spawn \/ Told(spawn)

Stopped(spawn, link) ==
    spawn \in late \/ ~LinkUp(link) \/ Order("stop", spawn, link) \in orders

StopsFollow ==
    /\ checkout => \A o \in orders :
         o.kind = "start" /\ entry.spawn = o.spawn /\ Told(o.spawn) =>
             entry.stopping \/ ~LinkUp(o.link) \/ o.spawn \in late
    /\ checkout => \A l \in Links : \A i \in LaneIds(l) :
         toMachine[l][i].kind = "start" /\ LetGo(toMachine[l][i].spawn) =>
             \/ Stopped(toMachine[l][i].spawn, l)
             \/ \E j \in LaneIds(l) : j > i /\ toMachine[l][j].kind = "stop"
                                        /\ toMachine[l][j].spawn = toMachine[l][i].spawn
    /\ \A p \in procs :
         ~p.killed /\ LetGo(p.spawn) =>
             Stopped(p.spawn, p.link) \/ InLane(toMachine[p.link], "stop", p.spawn)

(* A run on a link that is up is being asked for, runs, or is about to be  *)
(* settled; one whose link is gone has no process that will report, so its *)
(* start is still to be given up, or a stop waits for it.                  *)
StartPends == Order("start", entry.spawn, entry.link) \in orders
StopPends  == OverPends \/ (stopper.stage = "waiting" /\ stopper.spawn = entry.spawn)

RunGoesOn ==
    /\ ~revived /\ Live /\ entry.spawn = 0 => entry.status = "restarting" /\ sleepers > 0
    /\ ~revived /\ entry.spawn # 0 /\ LinkUp(entry.link) =>
         \/ Asked(entry.spawn, entry.link) \/ InLane(toBackend[entry.link], "exited", entry.spawn)
         \/ StopPends \/ serving.link \notin sessions
    /\ ~revived /\ entry.spawn # 0 /\ Live /\ ~LinkUp(entry.link)
       /\ serving.stage \in {"down", "up"} => StartPends \/ StopPends
    /\ serving.stage = "losing" /\ entry.spawn \notin {0, serving.spawn} => StartPends \/ StopPends

ScriptOrder ==
    /\ Fresh /\ EntryShape /\ OneStart /\ OnOneLink /\ SessionsServe /\ CleanupReaches
    /\ StopsFollow /\ RunGoesOn

ScriptInv == ScriptTypeOK /\ ScriptOrder
=============================================================================
