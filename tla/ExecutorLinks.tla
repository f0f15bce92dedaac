--------------------------- MODULE ExecutorLinks ---------------------------
(***************************************************************************)
(* The machine's side of one backend credential: the listener that admits, *)
(* binds and hands over links (intent-transport ws/executor.rs and         *)
(* node_link/executor.rs, intent-store executor_repo.rs), the service that *)
(* opens the backend's runner and stops it on revocation (intentd          *)
(* executor.rs), and the link sessions with their gate (session.rs).       *)
(*                                                                         *)
(* A connection is named by the generation its hello offers; the backend   *)
(* dials them in order and they reach the machine in any order.  Every     *)
(* credential has its own entry, runner and gate, and the epoch only ever  *)
(* closes links, so one credential stands for all.                         *)
(*                                                                         *)
(* What is abstracted: frames other than a launch, which stands for every  *)
(* frame with a side effect; the journal (module Replication); git         *)
(* connections; the machine's own shutdown.                                *)
(***************************************************************************)
EXTENDS Integers, Sequences, FiniteSets

CONSTANTS MaxGen,       \* connections dialed
          MaxEpoch,     \* times the listener stops
          MaxLags       \* times other revocations overrun a receiver

ASSUME ExecutorLinksAssumption ==
    MaxGen \in Nat /\ MaxEpoch \in Nat /\ MaxLags \in Nat

Gens     == 1..MaxGen
Backends == 1..MaxGen   \* each backend opened is opened for one connection

VARIABLES
  revoked,    \* durable: the credential is revoked
  bound,      \* durable: the bound generation
  epoch,      \* the listener's epoch
  entry,      \* `current': the binding held in memory (0: none)
  registered, \* whether that entry holds its link
  conn,       \* where each connection's upgrade and bind stand
  at,         \* the epoch each connection was accepted in
  open,       \* the links that are not closed
  feed,       \* each connection's receiver of revocations
  watching,   \* connections whose watch_revocation task runs
  queue,      \* links handed to the service, not yet taken
  wfeed,      \* the service's receiver of revocations
  announced,  \* the revocation was broadcast
  lags,       \* receivers overrun so far
  backend,    \* the open backend (0: none); they are numbered
  opened,     \* backends opened so far
  stopping,   \* backends being stopped
  stopped,    \* backends whose stop has finished
  agents,     \* backends with an agent running
  sess,       \* each link's session
  of,         \* the backend of each session
  gate,       \* each backend's link gate: the newest adopted generation
  holder      \* the session holding that gate (0: none)

listener == <<revoked, bound, epoch, entry, registered, conn, at, feed, watching, announced>>
service  == <<queue, wfeed, backend, opened, stopping, stopped>>
sessions == <<sess, of, gate, holder, agents>>
executorVars == <<listener, open, service, sessions, lags>>

ExecutorInit ==
    /\ revoked = FALSE /\ announced = FALSE /\ bound = 0 /\ epoch = 0 /\ lags = 0
    /\ entry = 0 /\ registered = FALSE
    /\ conn = [g \in Gens |-> "none"]
    /\ at = [g \in Gens |-> 0]
    /\ open = {} /\ watching = {}
    /\ feed = [g \in Gens |-> "quiet"]
    /\ queue = <<>> /\ wfeed = "quiet"
    /\ backend = 0 /\ opened = 0 /\ stopping = {} /\ stopped = {} /\ agents = {}
    /\ sess = [g \in Gens |-> "none"]
    /\ of = [g \in Gens |-> 0]
    /\ gate = [b \in Backends |-> 0]
    /\ holder = [b \in Backends |-> 0]

-----------------------------------------------------------------------------
(***************************************************************************)
(* The listener.                                                           *)
(***************************************************************************)

(* executor_upgrade: subscribe to revocations, then resolve the credential *)
(* and check that the listener did not stop meanwhile.                     *)
Subscribe(g) ==
    /\ conn[g] = "none"
    /\ conn' = [conn EXCEPT ![g] = "resolving"]
    /\ at' = [at EXCEPT ![g] = epoch]
    /\ UNCHANGED <<revoked, bound, epoch, entry, registered, feed, watching, announced,
                   open, service, sessions, lags>>

Resolve(g) ==
    /\ conn[g] = "resolving"
    /\ conn' = [conn EXCEPT ![g] = IF revoked \/ at[g] # epoch THEN "gone" ELSE "upgraded"]
    /\ UNCHANGED <<revoked, bound, epoch, entry, registered, at, feed, watching, announced,
                   open, service, sessions, lags>>

(* Close the current entry's link, when it holds one.                      *)
CloseEntry == open' = open \ (IF registered THEN {entry} ELSE {})

(* bind: under the lock, refuse an older epoch, a revoked credential and a *)
(* generation that is not newer; otherwise bind durably and replace the    *)
(* entry, closing its link.                                                *)
Bind(g) ==
    /\ conn[g] = "upgraded"
    /\ \/ /\ at[g] = epoch /\ ~revoked /\ g > bound
          /\ bound' = g
          /\ entry' = g
          /\ registered' = FALSE
          /\ CloseEntry
          /\ conn' = [conn EXCEPT ![g] = "bound"]
       \/ /\ at[g] # epoch \/ revoked \/ g <= bound
          /\ conn' = [conn EXCEPT ![g] = "gone"]
          /\ UNCHANGED <<bound, entry, registered, open>>
    /\ UNCHANGED <<revoked, epoch, at, feed, watching, announced, service, sessions, lags>>

(* A connection that is not handed over yet ends: refused, broken, over    *)
(* the handshake's time limit, or dropped because the listener stops.  A   *)
(* bind cut short may have been committed, and one whose welcome cannot be *)
(* sent stays the entry.                                                   *)
ConnFails(g) ==
    /\ conn[g] \in {"resolving", "upgraded", "bound"}
    /\ conn' = [conn EXCEPT ![g] = "gone"]
    /\ \/ UNCHANGED bound
       \/ /\ conn[g] = "upgraded" /\ at[g] = epoch /\ ~revoked /\ g > bound
          /\ bound' = g
    /\ UNCHANGED <<revoked, epoch, entry, registered, at, feed, watching, announced, open,
                   service, sessions, lags>>

(* Error to rule out: the hand-off checks the epoch and not the binding *)
CurrentAnyBinding(g) == at[g] = epoch

(* Still the credential's binding, and the listener did not stop.          *)
Current(g) == entry = g /\ at[g] = epoch

(* The end of serve: under the lock, register the link and hand it to the  *)
(* service, or close it if a newer bind, a revocation or a stop won.       *)
HandOff(g) ==
    /\ conn[g] = "bound"
    /\ \/ /\ Current(g)
          /\ registered' = TRUE
          /\ open' = open \cup {g}
          /\ queue' = Append(queue, g)
          /\ watching' = watching \cup {g}
          /\ conn' = [conn EXCEPT ![g] = "handed"]
       \/ /\ ~Current(g)
          /\ conn' = [conn EXCEPT ![g] = "gone"]
          /\ UNCHANGED <<registered, open, queue, watching>>
    /\ UNCHANGED <<revoked, bound, epoch, entry, at, feed, announced, wfeed, backend,
                   opened, stopping, stopped, sessions, lags>>

(* drop_credential: forget the entry, whichever link it holds by now.      *)
DropCredential ==
    /\ entry' = 0
    /\ registered' = FALSE
    /\ CloseEntry

(* watch_revocation: the credential was revoked, or the feed lagged.       *)
WatchRevoked(g) ==
    /\ g \in watching
    /\ feed[g] # "quiet"
    /\ DropCredential
    /\ watching' = watching \ {g}
    /\ UNCHANGED <<revoked, bound, epoch, conn, at, feed, announced, service, sessions, lags>>

(* watch_revocation: the link closed.                                      *)
WatchEnd(g) ==
    /\ g \in watching
    /\ g \notin open
    /\ watching' = watching \ {g}
    /\ UNCHANGED <<revoked, bound, epoch, entry, registered, conn, at, feed, announced,
                   open, service, sessions, lags>>

(* Error to rule out: only connections not bound yet are fenced out *)
CloseAllEpochOnly ==
    /\ epoch < MaxEpoch
    /\ epoch' = epoch + 1
    /\ UNCHANGED <<revoked, bound, entry, registered, conn, at, feed, watching, announced,
                   open, service, sessions, lags>>

(* close_all: the listener stops.                                          *)
CloseAll ==
    /\ epoch < MaxEpoch
    /\ epoch' = epoch + 1
    /\ DropCredential
    /\ UNCHANGED <<revoked, bound, conn, at, feed, watching, announced, service, sessions, lags>>

(* The backend closes a link, or it breaks.                                *)
LinkCloses(g) ==
    /\ g \in open
    /\ open' = open \ {g}
    /\ UNCHANGED <<listener, service, sessions, lags>>

-----------------------------------------------------------------------------
(***************************************************************************)
(* Revocation: the credential row first, then the feed every subscribed    *)
(* connection and the service hold.  A receiver that fell behind learns    *)
(* only that it lagged.                                                    *)
(***************************************************************************)
Revoke ==
    /\ ~revoked
    /\ revoked' = TRUE
    /\ UNCHANGED <<bound, epoch, entry, registered, conn, at, feed, watching, announced,
                   open, service, sessions, lags>>

(* Error to rule out: the feed is subscribed only once the link is handed over *)
SubscribedLate == {g \in Gens : conn[g] = "handed"}

Subscribed == {g \in Gens : conn[g] \notin {"none", "gone"}}

NotifyRevoked ==
    /\ revoked /\ ~announced
    /\ announced' = TRUE
    /\ feed' = [g \in Gens |-> IF g \in Subscribed THEN "revoked" ELSE feed[g]]
    /\ wfeed' \in {"revoked", "lagged"}
    /\ UNCHANGED <<revoked, bound, epoch, entry, registered, conn, at, watching, open,
                   queue, backend, opened, stopping, stopped, sessions, lags>>

(* Revocations of other credentials overrun the receivers.                 *)
FeedLags ==
    /\ lags < MaxLags
    /\ lags' = lags + 1
    /\ \/ /\ wfeed' = "lagged"
          /\ UNCHANGED feed
       \/ /\ \E g \in Subscribed : feed' = [feed EXCEPT ![g] = "lagged"]
          /\ UNCHANGED wfeed
    /\ UNCHANGED <<revoked, bound, epoch, entry, registered, conn, at, watching, announced,
                   open, queue, backend, opened, stopping, stopped, sessions>>

-----------------------------------------------------------------------------
(***************************************************************************)
(* The service: one worker takes the links handed over and the revocations *)
(* in whichever order its select picks them.                               *)
(***************************************************************************)

(* Error to rule out: the session starts although no backend is open *)
TakeUnopened ==
    /\ queue # <<>>
    /\ queue' = Tail(queue)
    /\ of' = [of EXCEPT ![Head(queue)] = backend]
    /\ sess' = [sess EXCEPT ![Head(queue)] = "serving"]
    /\ agents' = agents \cup {backend}
    /\ UNCHANGED <<listener, open, wfeed, backend, opened, stopping, stopped, gate, holder,
                   lags>>

(* take: open the backend if it is not, and start the link's session.      *)
Take ==
    /\ queue # <<>>
    /\ queue' = Tail(queue)
    /\ LET g == Head(queue)
           b == IF backend = 0 THEN opened + 1 ELSE backend
       IN /\ backend' = b
          /\ opened' = IF backend = 0 THEN opened + 1 ELSE opened
          /\ of' = [of EXCEPT ![g] = b]
          /\ sess' = [sess EXCEPT ![g] = "adopting"]
    /\ UNCHANGED <<listener, open, wfeed, stopping, stopped, gate, holder, agents, lags>>

(* open_backend failed: the link is closed.                                *)
TakeFailed ==
    /\ queue # <<>>
    /\ backend = 0
    /\ open' = open \ {Head(queue)}
    /\ queue' = Tail(queue)
    /\ UNCHANGED <<listener, wfeed, backend, opened, stopping, stopped, sessions, lags>>

(* revoked: take the backend out, to be stopped in a task of its own.      *)
WorkerRevoked ==
    /\ wfeed = "revoked"
    /\ wfeed' = "quiet"
    /\ stopping' = stopping \cup ({backend} \ {0})
    /\ backend' = 0
    /\ UNCHANGED <<listener, open, queue, opened, stopped, sessions, lags>>

(* reconcile, after a lagged feed: take the backend out unless the store   *)
(* says that its credential is active; it may be unable to say.            *)
Reconcile ==
    /\ wfeed = "lagged"
    /\ wfeed' = "quiet"
    /\ \/ /\ stopping' = stopping \cup ({backend} \ {0})
          /\ backend' = 0
       \/ /\ ~revoked
          /\ UNCHANGED <<stopping, backend>>
    /\ UNCHANGED <<listener, open, queue, opened, stopped, sessions, lags>>

(* stop_backend: close its links, wait for its sessions, stop its agents.  *)
StopLinks(b) ==
    /\ b \in stopping
    /\ open' = open \ {g \in Gens : of[g] = b}
    /\ open' # open
    /\ UNCHANGED <<listener, service, sessions, lags>>

(* Error to rule out: the agents are stopped before the sessions ended *)
StopAgentsEarly(b) ==
    /\ b \in stopping
    /\ open \cap {g \in Gens : of[g] = b} = {}
    /\ agents' = agents \ {b}
    /\ stopping' = stopping \ {b}
    /\ stopped' = stopped \cup {b}
    /\ UNCHANGED <<listener, open, queue, wfeed, backend, opened, sess, of, gate, holder, lags>>

StopAgents(b) ==
    /\ b \in stopping
    /\ open \cap {g \in Gens : of[g] = b} = {}
    /\ \A g \in Gens : of[g] = b => sess[g] = "ended"
    /\ agents' = agents \ {b}
    /\ stopping' = stopping \ {b}
    /\ stopped' = stopped \cup {b}
    /\ UNCHANGED <<listener, open, queue, wfeed, backend, opened, sess, of, gate, holder, lags>>

-----------------------------------------------------------------------------
(***************************************************************************)
(* The sessions of the backend's links.                                    *)
(***************************************************************************)

admit(g) == g \in open /\ gate[of[g]] <= g

(* adopt: under the gate, become the newest session or end.                *)
Adopt(g) ==
    /\ sess[g] = "adopting"
    /\ holder[of[g]] = 0
    /\ IF admit(g)
       THEN /\ gate' = [gate EXCEPT ![of[g]] = g]
            /\ sess' = [sess EXCEPT ![g] = "serving"]
            /\ UNCHANGED open
       ELSE /\ sess' = [sess EXCEPT ![g] = "ended"]
            /\ open' = open \ {g}
            /\ UNCHANGED gate
    /\ UNCHANGED <<listener, service, of, holder, agents, lags>>

(* Error to rule out: the gate is released between the check and the effect *)
ApplyBeginUngated(g) ==
    /\ sess[g] = "serving"
    /\ holder[of[g]] = 0
    /\ admit(g)
    /\ sess' = [sess EXCEPT ![g] = "applying"]
    /\ UNCHANGED <<listener, open, service, of, gate, holder, agents, lags>>

(* apply: take the gate and check; a replaced session's frame is dropped.  *)
ApplyBegin(g) ==
    /\ sess[g] = "serving"
    /\ holder[of[g]] = 0
    /\ admit(g)
    /\ holder' = [holder EXCEPT ![of[g]] = g]
    /\ sess' = [sess EXCEPT ![g] = "applying"]
    /\ UNCHANGED <<listener, open, service, of, gate, agents, lags>>

(* apply: the frame's effect, a launch, then release the gate.             *)
ApplyEnd(g) ==
    /\ sess[g] = "applying"
    /\ agents' = agents \cup {of[g]}
    /\ holder' = [holder EXCEPT ![of[g]] = 0]
    /\ sess' = [sess EXCEPT ![g] = "serving"]
    /\ UNCHANGED <<listener, open, service, of, gate, lags>>

SessionEnd(g) ==
    /\ sess[g] = "serving"
    /\ g \notin open
    /\ sess' = [sess EXCEPT ![g] = "ended"]
    /\ UNCHANGED <<listener, open, service, of, gate, holder, agents, lags>>

-----------------------------------------------------------------------------
ConnStep(g) == Resolve(g) \/ Bind(g) \/ HandOff(g) \/ ConnFails(g)
WatchStep(g) == WatchRevoked(g) \/ WatchEnd(g)
SessionStep(g) == Adopt(g) \/ ApplyEnd(g) \/ SessionEnd(g)
WorkerStep == Take \/ TakeFailed \/ WorkerRevoked \/ Reconcile
BackendStopStep(b) == StopLinks(b) \/ StopAgents(b)

ExecutorNext ==
    \/ \E g \in Gens :
        \/ Subscribe(g) \/ ConnStep(g) \/ WatchStep(g)
        \/ SessionStep(g) \/ ApplyBegin(g) \/ LinkCloses(g)
    \/ CloseAll \/ Revoke \/ NotifyRevoked \/ FeedLags
    \/ WorkerStep
    \/ \E b \in Backends : BackendStopStep(b)

ExecutorSpec == ExecutorInit /\ [][ExecutorNext]_executorVars

(* Every task that can run does; a revocation that was committed is        *)
(* broadcast.  Nothing is assumed of the backend, the operator or frames.  *)
ExecutorFairness ==
    /\ WF_executorVars(NotifyRevoked)
    /\ WF_executorVars(WorkerStep)
    /\ \A g \in Gens : /\ WF_executorVars(ConnStep(g)) /\ WF_executorVars(WatchStep(g))
                       /\ WF_executorVars(SessionStep(g))
    /\ \A b \in Backends : WF_executorVars(BackendStopStep(b))

ExecutorFairSpec == ExecutorSpec /\ ExecutorFairness

-----------------------------------------------------------------------------
ExecutorTypeOK ==
    /\ revoked \in BOOLEAN /\ announced \in BOOLEAN /\ registered \in BOOLEAN
    /\ bound \in 0..MaxGen /\ entry \in 0..MaxGen /\ epoch \in 0..MaxEpoch
    /\ lags \in 0..MaxLags
    /\ conn \in [Gens -> {"none", "resolving", "upgraded", "bound", "handed", "gone"}]
    /\ at \in [Gens -> 0..MaxEpoch]
    /\ open \subseteq Gens /\ watching \subseteq Gens
    /\ feed \in [Gens -> {"quiet", "revoked", "lagged"}]
    /\ wfeed \in {"quiet", "revoked", "lagged"}
    /\ queue \in Seq(Gens)
    /\ backend \in 0..MaxGen /\ opened \in 0..MaxGen
    /\ stopping \subseteq Backends /\ stopped \subseteq Backends /\ agents \subseteq Backends
    /\ sess \in [Gens -> {"none", "adopting", "serving", "applying", "ended"}]
    /\ of \in [Gens -> 0..MaxGen]
    /\ gate \in [Backends -> 0..MaxGen] /\ holder \in [Backends -> 0..MaxGen]

(* Binding a generation closes every older link: whatever order hellos,    *)
(* hand-offs, revocations and stops come in, a link is open only if no     *)
(* newer bind completed, be it handed over or on its way to be.            *)
OnlyNewestOpen ==
    \A g \in open, f \in Gens : conn[f] \in {"bound", "handed"} => f <= g

(* Nothing outlives the listener's stop: an open link was accepted in the  *)
(* listener's current epoch, also when the stop came between its upgrade,  *)
(* its bind and its hand-off.                                              *)
NothingOutlivesStop == \A g \in open : at[g] = epoch

(* A session acts only while it is the newest: between the check and the   *)
(* effect of a frame no newer session adopts the backend.                  *)
NoStaleEffect == \A g \in Gens : sess[g] = "applying" => gate[of[g]] = g

(* No agent is launched behind the stop of a revoked backend.              *)
StopIsFinal == agents \cap stopped = {}

(* What those rest on.  Only the entry's link is open, and the entry is    *)
(* the newest completed bind, of the current epoch once it holds its link; *)
ListenerInv ==
    /\ entry <= bound
    /\ entry # 0 => conn[entry] # "none"
    /\ registered => entry # 0 /\ at[entry] = epoch
    /\ open \subseteq (IF registered THEN {entry} ELSE {})
    /\ \A f \in Gens : conn[f] \in {"bound", "handed"} =>
                         f <= bound /\ (entry # 0 => f <= entry)

(* a link is handed over once and taken once;                              *)
QueueInv ==
    /\ \A i \in 1..Len(queue) : conn[queue[i]] = "handed" /\ sess[queue[i]] = "none"
    /\ \A i, j \in 1..Len(queue) : queue[i] = queue[j] => i = j
    /\ \A g \in Gens : sess[g] # "none" => conn[g] = "handed"

(* a backend is opened once, for a link of its own, and never again once   *)
(* it is being stopped; when it is, its sessions have ended;               *)
Taken == {g \in Gens : sess[g] # "none"}

BackendInv ==
    /\ opened <= Cardinality(Taken)
    /\ backend <= opened /\ backend \notin stopping \cup stopped
    /\ \A b \in stopping \cup stopped : b <= opened
    /\ \A g \in Gens : of[g] <= opened /\ (sess[g] # "none" => of[g] # 0)
    /\ \A g \in Gens : of[g] # 0 => sess[g] # "none"
    /\ \A g \in Gens : of[g] \in stopped => sess[g] = "ended"

(* and a session that serves was adopted, one that applies holds the gate. *)
GateInv ==
    /\ \A g \in Gens : sess[g] \in {"serving", "applying"} => gate[of[g]] >= g
    /\ \A g \in Gens : sess[g] = "applying" => gate[of[g]] = g /\ holder[of[g]] = g

IInv == ExecutorTypeOK /\ ListenerInv /\ QueueInv /\ BackendInv /\ GateInv /\ StopIsFinal

(* A revoked credential's links close, and none opens again.               *)
RevokedLinksClose == revoked ~> [](open = {})

(* A revoked backend's agents stop: the service, told of the revocation,   *)
(* leaves none running.                                                    *)
RevokedAgentsStop == revoked ~> [](agents = {})
=============================================================================
