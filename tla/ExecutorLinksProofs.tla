------------------------ MODULE ExecutorLinksProofs ------------------------
(***************************************************************************)
(* Proofs about the machine's side of a credential, for any number of      *)
(* connections, listener stops and overrun receivers.                      *)
(***************************************************************************)
EXTENDS ExecutorLinks, FiniteSetTheorems, TLAPS

(* The initial state satisfies the inductive invariant.                    *)
LEMMA InitIInv == ExecutorInit => IInv
<1> SUFFICES ASSUME ExecutorInit PROVE IInv
  OBVIOUS
<1> USE ExecutorLinksAssumption
<1>1. ExecutorTypeOK
  <2>1. revoked \in BOOLEAN /\ announced \in BOOLEAN /\ registered \in BOOLEAN
    BY Zenon DEF ExecutorInit
  <2>2. queue \in Seq(Gens)
    BY DEF ExecutorInit
  <2> QED
    BY <2>1, <2>2 DEF ExecutorInit, ExecutorTypeOK
<1>2. ListenerInv /\ QueueInv /\ GateInv /\ StopIsFinal
  BY DEF ExecutorInit, ListenerInv, QueueInv, GateInv, StopIsFinal
<1>3. BackendInv
  <2>1. Taken = {}
    BY DEF ExecutorInit, Taken
  <2>2. Cardinality(Taken) = 0
    BY <2>1, FS_EmptySet
  <2> QED
    BY <2>1, <2>2 DEF ExecutorInit, BackendInv
<1> QED
  BY <1>1, <1>2, <1>3 DEF IInv

-----------------------------------------------------------------------------
(* A step of the specification is a step of one of these.                  *)
LEMMA Steps ==
    ASSUME ExecutorNext
    PROVE  \/ \E g \in Gens :
               \/ Subscribe(g) \/ Resolve(g) \/ Bind(g) \/ HandOff(g) \/ ConnFails(g)
               \/ WatchRevoked(g) \/ WatchEnd(g) \/ LinkCloses(g)
               \/ Adopt(g) \/ ApplyBegin(g) \/ ApplyEnd(g) \/ SessionEnd(g)
           \/ CloseAll \/ Revoke \/ NotifyRevoked \/ FeedLags
           \/ Take \/ TakeFailed \/ WorkerRevoked \/ Reconcile
           \/ \E b \in Backends : StopLinks(b) \/ StopAgents(b)
  BY DEF ExecutorNext, ConnStep, WatchStep, SessionStep, WorkerStep, BackendStopStep

(***************************************************************************)
(* The listener.                                                           *)
(***************************************************************************)

(* Steps that leave bindings alone and open no link.                       *)
LEMMA ListenerSame ==
    ASSUME ListenerInv, open' \subseteq open,
           UNCHANGED <<bound, epoch, entry, registered, conn, at>>
    PROVE  ListenerInv'
  BY DEF ListenerInv

LEMMA ListenerNext ==
    ASSUME IInv, ExecutorNext
    PROVE  ListenerInv'
<1> USE ExecutorLinksAssumption
<1>0. ExecutorTypeOK /\ ListenerInv
  BY DEF IInv
<1>t. /\ bound \in 0..MaxGen /\ entry \in 0..MaxGen /\ epoch \in 0..MaxEpoch
      /\ conn \in [Gens -> {"none", "resolving", "upgraded", "bound", "handed", "gone"}]
      /\ at \in [Gens -> 0..MaxEpoch]
  BY <1>0 DEF ExecutorTypeOK
<1>1. ASSUME NEW g \in Gens, Subscribe(g) PROVE ListenerInv'
  BY <1>0, <1>1, <1>t DEF Subscribe, ListenerInv, Gens
<1>2. ASSUME NEW g \in Gens, Resolve(g) PROVE ListenerInv'
  BY <1>0, <1>2, <1>t DEF Resolve, ListenerInv
<1>3. ASSUME NEW g \in Gens, Bind(g) PROVE ListenerInv'
  <2>1. CASE /\ g > bound /\ bound' = g /\ entry' = g /\ registered' = FALSE
             /\ CloseEntry /\ conn' = [conn EXCEPT ![g] = "bound"]
    <3>1. open' = {}
      BY <1>0, <2>1 DEF CloseEntry, ListenerInv
    <3>2. \A f \in Gens : conn'[f] \in {"bound", "handed"} => f <= g
      BY <1>0, <1>t, <2>1 DEF ListenerInv, Gens
    <3>3. conn'[g] # "none"
      BY <1>t, <2>1
    <3> QED
      BY <3>1, <3>2, <3>3, <2>1 DEF ListenerInv, Gens
  <2>2. CASE conn' = [conn EXCEPT ![g] = "gone"] /\ UNCHANGED <<bound, entry, registered, open>>
    <3>1. UNCHANGED <<epoch, at>>
      BY <1>3 DEF Bind
    <3> QED
      BY <1>0, <1>t, <2>2, <3>1 DEF ListenerInv, Gens
  <2> QED
    BY <1>3, <2>1, <2>2 DEF Bind
<1>4. ASSUME NEW g \in Gens, ConnFails(g) PROVE ListenerInv'
  <2>1. /\ conn' = [conn EXCEPT ![g] = "gone"] /\ (bound' = bound \/ (g > bound /\ bound' = g))
        /\ UNCHANGED <<epoch, entry, registered, at, open>>
    BY <1>4 DEF ConnFails
  <2>2. bound' \in Nat /\ bound' >= bound
    BY <1>t, <2>1 DEF Gens
  <2> QED
    BY <1>0, <1>t, <2>1, <2>2 DEF ListenerInv, Gens
<1>5. ASSUME NEW g \in Gens, HandOff(g) PROVE ListenerInv'
  <2>1. CASE /\ Current(g) /\ registered' = TRUE /\ open' = open \cup {g}
             /\ conn' = [conn EXCEPT ![g] = "handed"]
    <3>1. UNCHANGED <<bound, epoch, entry, at>> /\ conn[g] = "bound"
      BY <1>5 DEF HandOff
    <3>2. open' \subseteq {entry}
      BY <1>0, <2>1 DEF Current, ListenerInv
    <3> QED
      BY <1>0, <1>t, <2>1, <3>1, <3>2 DEF ListenerInv, Current, Gens
  <2>2. CASE conn' = [conn EXCEPT ![g] = "gone"] /\ UNCHANGED <<registered, open>>
    <3>1. UNCHANGED <<bound, epoch, entry, at>>
      BY <1>5 DEF HandOff
    <3> QED
      BY <1>0, <1>t, <2>2, <3>1 DEF ListenerInv, Gens
  <2> QED
    BY <1>5, <2>1, <2>2 DEF HandOff
<1>6. ASSUME DropCredential, UNCHANGED <<bound, conn, at>> PROVE ListenerInv'
  <2>1. open' = {}
    BY <1>0, <1>6 DEF DropCredential, CloseEntry, ListenerInv
  <2> QED
    BY <1>0, <1>t, <1>6, <2>1 DEF DropCredential, ListenerInv
<1>7. ASSUME NEW g \in Gens, WatchRevoked(g) PROVE ListenerInv'
  BY <1>6, <1>7 DEF WatchRevoked
<1>8. CASE CloseAll
  BY <1>6, <1>8 DEF CloseAll
<1>9. ASSUME NEW g \in Gens,
             \/ WatchEnd(g) \/ LinkCloses(g)
             \/ Adopt(g) \/ ApplyBegin(g) \/ ApplyEnd(g) \/ SessionEnd(g)
      PROVE  ListenerInv'
  <2>1. open' \subseteq open /\ UNCHANGED <<bound, epoch, entry, registered, conn, at>>
    BY <1>9 DEF WatchEnd, LinkCloses, Adopt, ApplyBegin, ApplyEnd, SessionEnd, listener
  <2> QED
    BY <1>0, <2>1, ListenerSame
<1>10. CASE \/ Revoke \/ NotifyRevoked \/ FeedLags
            \/ Take \/ TakeFailed \/ WorkerRevoked \/ Reconcile
  <2>1. open' \subseteq open /\ UNCHANGED <<bound, epoch, entry, registered, conn, at>>
    BY <1>10 DEF Revoke, NotifyRevoked, FeedLags, Take, TakeFailed, WorkerRevoked, Reconcile, listener
  <2> QED
    BY <1>0, <2>1, ListenerSame
<1>11. ASSUME NEW b \in Backends, StopLinks(b) \/ StopAgents(b) PROVE ListenerInv'
  <2>1. open' \subseteq open /\ UNCHANGED <<bound, epoch, entry, registered, conn, at>>
    BY <1>11 DEF StopLinks, StopAgents, listener
  <2> QED
    BY <1>0, <2>1, ListenerSame
<1> QED
  BY Steps, <1>1, <1>2, <1>3, <1>4, <1>5, <1>7, <1>8, <1>9, <1>10, <1>11

(***************************************************************************)
(* The links handed over and taken.                                        *)
(***************************************************************************)

(* Steps that hand over no link and start no session.                      *)
LEMMA QueueSame ==
    ASSUME QueueInv, UNCHANGED queue, queue \in Seq(Gens),
           \A g \in Gens : /\ conn[g] = "handed" => conn'[g] = "handed"
                           /\ sess'[g] = "none" <=> sess[g] = "none"
    PROVE  QueueInv'
<1>1. \A i \in 1..Len(queue) : queue[i] \in Gens
  OBVIOUS
<1> QED
  BY <1>1 DEF QueueInv

LEMMA QueueNext ==
    ASSUME IInv, ExecutorNext
    PROVE  QueueInv'
<1> USE ExecutorLinksAssumption
<1>0. ExecutorTypeOK /\ QueueInv
  BY DEF IInv
<1>t. /\ queue \in Seq(Gens)
      /\ conn \in [Gens -> {"none", "resolving", "upgraded", "bound", "handed", "gone"}]
      /\ sess \in [Gens -> {"none", "adopting", "serving", "applying", "ended"}]
  BY <1>0 DEF ExecutorTypeOK
<1>q. \A i \in 1..Len(queue) : queue[i] \in Gens
  BY <1>t
<1>1. ASSUME NEW g \in Gens,
             Subscribe(g) \/ Resolve(g) \/ Bind(g) \/ ConnFails(g)
      PROVE  QueueInv'
  <2>1. /\ \E c : conn' = [conn EXCEPT ![g] = c]
        /\ conn[g] # "handed" /\ UNCHANGED <<queue, sess>>
    <3>1. CASE Subscribe(g)
      BY <3>1 DEF Subscribe, service, sessions
    <3>2. CASE Resolve(g)
      BY <3>2 DEF Resolve, service, sessions
    <3>3. CASE Bind(g)
      BY <3>3 DEF Bind, service, sessions
    <3>4. CASE ConnFails(g)
      BY <3>4 DEF ConnFails, service, sessions
    <3> QED
      BY <1>1, <3>1, <3>2, <3>3, <3>4
  <2>2. \A f \in Gens : /\ conn[f] = "handed" => conn'[f] = "handed"
                        /\ sess'[f] = "none" <=> sess[f] = "none"
    BY <1>t, <2>1
  <2> QED
    BY <1>0, <1>t, <2>1, <2>2, QueueSame
<1>2. ASSUME NEW g \in Gens, HandOff(g) PROVE QueueInv'
  <2>0. conn[g] = "bound" /\ UNCHANGED sess
    BY <1>2 DEF HandOff, sessions
  <2>1. CASE queue' = Append(queue, g) /\ conn' = [conn EXCEPT ![g] = "handed"]
    <3>1. sess[g] = "none" /\ \A i \in 1..Len(queue) : queue[i] # g
      BY <1>0, <2>0 DEF QueueInv
    <3>2. /\ Len(queue') = Len(queue) + 1
          /\ \A i \in 1..Len(queue') : queue'[i] = IF i = Len(queue) + 1 THEN g ELSE queue[i]
      BY <1>t, <2>1
    <3>3. \A i \in 1..Len(queue') : conn'[queue'[i]] = "handed" /\ sess'[queue'[i]] = "none"
      BY <1>0, <1>t, <1>q, <2>0, <2>1, <3>1, <3>2 DEF QueueInv
    <3>4. \A i, j \in 1..Len(queue') : queue'[i] = queue'[j] => i = j
      BY <1>0, <1>t, <3>1, <3>2 DEF QueueInv
    <3>5. \A f \in Gens : sess'[f] # "none" => conn'[f] = "handed"
      BY <1>0, <1>t, <2>0, <2>1 DEF QueueInv
    <3> QED
      BY <3>3, <3>4, <3>5 DEF QueueInv
  <2>2. CASE conn' = [conn EXCEPT ![g] = "gone"] /\ UNCHANGED queue
    <3>1. \A f \in Gens : /\ conn[f] = "handed" => conn'[f] = "handed"
                          /\ sess'[f] = "none" <=> sess[f] = "none"
      BY <1>t, <2>0, <2>2
    <3> QED
      BY <1>0, <1>t, <2>2, <3>1, QueueSame
  <2> QED
    BY <1>2, <2>1, <2>2 DEF HandOff
<1>3. CASE Take \/ TakeFailed
  <2>1. queue # <<>> /\ queue' = Tail(queue) /\ UNCHANGED conn
    BY <1>3 DEF Take, TakeFailed, listener
  <2>2. /\ Len(queue') = Len(queue) - 1
        /\ \A i \in 1..Len(queue') : queue'[i] = queue[i + 1] /\ i + 1 \in 1..Len(queue)
    BY <1>t, <2>1
  <2>3. \A i, j \in 1..Len(queue') : queue'[i] = queue'[j] => i = j
    BY <1>0, <1>t, <2>1, <2>2 DEF QueueInv
  <2>4. CASE UNCHANGED sess
    BY <1>0, <1>t, <2>1, <2>2, <2>3, <2>4 DEF QueueInv
  <2>5. CASE sess' = [sess EXCEPT ![Head(queue)] = "adopting"]
    <3>1. Head(queue) = queue[1] /\ Len(queue) >= 1 /\ queue[1] \in Gens
      BY <1>t, <2>1
    <3>2. \A i \in 1..Len(queue') : queue'[i] # queue[1]
      BY <1>0, <1>t, <2>2, <3>1 DEF QueueInv
    <3>3. \A i \in 1..Len(queue') : conn'[queue'[i]] = "handed" /\ sess'[queue'[i]] = "none"
      BY <1>0, <1>t, <1>q, <2>1, <2>2, <2>5, <3>1, <3>2 DEF QueueInv
    <3>4. \A f \in Gens : sess'[f] # "none" => conn'[f] = "handed"
      BY <1>0, <1>t, <2>1, <2>5, <3>1 DEF QueueInv
    <3> QED
      BY <2>3, <3>3, <3>4 DEF QueueInv
  <2> QED
    BY <1>3, <2>4, <2>5 DEF Take, TakeFailed, sessions
<1>4. ASSUME NEW g \in Gens,
             Adopt(g) \/ ApplyBegin(g) \/ ApplyEnd(g) \/ SessionEnd(g)
      PROVE  QueueInv'
  <2>1. /\ \E x \in {"serving", "applying", "ended"} : sess' = [sess EXCEPT ![g] = x]
        /\ sess[g] # "none" /\ UNCHANGED <<queue, conn>>
    BY <1>4 DEF Adopt, ApplyBegin, ApplyEnd, SessionEnd, service, listener
  <2>2. \A f \in Gens : /\ conn[f] = "handed" => conn'[f] = "handed"
                        /\ sess'[f] = "none" <=> sess[f] = "none"
    BY <1>t, <2>1
  <2> QED
    BY <1>0, <1>t, <2>1, <2>2, QueueSame
<1>5. ASSUME UNCHANGED <<queue, conn, sess>> PROVE QueueInv'
  BY <1>0, <1>t, <1>5, QueueSame
<1>6. ASSUME NEW g \in Gens, WatchRevoked(g) \/ WatchEnd(g) \/ LinkCloses(g) PROVE QueueInv'
  BY <1>5, <1>6 DEF WatchRevoked, WatchEnd, LinkCloses, service, sessions, listener
<1>7. CASE CloseAll \/ Revoke \/ NotifyRevoked \/ FeedLags \/ WorkerRevoked \/ Reconcile
  BY <1>5, <1>7 DEF CloseAll, Revoke, NotifyRevoked, FeedLags, WorkerRevoked, Reconcile,
                    service, sessions, listener
<1>8. ASSUME NEW b \in Backends, StopLinks(b) \/ StopAgents(b) PROVE QueueInv'
  BY <1>5, <1>8 DEF StopLinks, StopAgents, service, sessions, listener
<1> QED
  BY Steps, <1>1, <1>2, <1>3, <1>4, <1>6, <1>7, <1>8

(***************************************************************************)
(* Backends.                                                               *)
(***************************************************************************)

(* There are at most as many taken links as connections.                   *)
LEMMA TakenBound ==
    ASSUME NEW T, T \subseteq Gens
    PROVE  IsFiniteSet(T) /\ Cardinality(T) \in Nat /\ Cardinality(T) <= MaxGen
<1>1. IsFiniteSet(Gens) /\ Cardinality(Gens) = MaxGen
  BY FS_Interval, ExecutorLinksAssumption DEF Gens
<1> QED
  BY <1>1, FS_Subset, FS_CardinalityType, ExecutorLinksAssumption

(* The link at the head of the queue is one more.                          *)
LEMMA TakeFacts ==
    ASSUME IInv, queue # <<>>, sess' = [sess EXCEPT ![Head(queue)] = "adopting"]
    PROVE  /\ Head(queue) \in Gens /\ sess[Head(queue)] = "none"
           /\ Cardinality(Taken') = Cardinality(Taken) + 1
           /\ Cardinality(Taken') <= MaxGen
<1>1. queue \in Seq(Gens) /\ sess \in [Gens -> {"none", "adopting", "serving", "applying", "ended"}]
  BY DEF IInv, ExecutorTypeOK
<1>2. PICK g : g = Head(queue)
  OBVIOUS
<1>3. g \in Gens /\ g = queue[1] /\ 1 \in 1..Len(queue)
  BY <1>1, <1>2
<1>4. sess[g] = "none"
  BY <1>3 DEF IInv, QueueInv
<1>5. Taken' = Taken \cup {g} /\ g \notin Taken /\ Taken' \subseteq Gens /\ Taken \subseteq Gens
  BY <1>1, <1>2, <1>3, <1>4 DEF Taken
<1>6. Cardinality(Taken') = Cardinality(Taken) + 1
  BY <1>5, TakenBound, FS_AddElement
<1> QED
  BY <1>2, <1>3, <1>4, <1>5, <1>6, TakenBound

(* Steps that open, take out and stop no backend.                          *)
LEMMA BackendSame ==
    ASSUME BackendInv, ExecutorTypeOK, UNCHANGED <<opened, backend, stopping, stopped, of>>,
           \A g \in Gens : /\ sess'[g] = "none" <=> sess[g] = "none"
                           /\ sess[g] = "ended" => sess'[g] = "ended"
    PROVE  BackendInv'
<1>1. Taken' = Taken
  BY DEF Taken
<1> QED
  BY <1>1 DEF BackendInv

LEMMA BackendNext ==
    ASSUME IInv, ExecutorNext
    PROVE  BackendInv'
<1> USE ExecutorLinksAssumption
<1>0. ExecutorTypeOK /\ BackendInv /\ QueueInv
  BY DEF IInv
<1>t. /\ queue \in Seq(Gens)
      /\ backend \in 0..MaxGen /\ opened \in 0..MaxGen
      /\ stopping \subseteq Backends /\ stopped \subseteq Backends
      /\ sess \in [Gens -> {"none", "adopting", "serving", "applying", "ended"}]
      /\ of \in [Gens -> 0..MaxGen]
  BY <1>0 DEF ExecutorTypeOK
<1>c. Cardinality(Taken) \in Nat
  BY TakenBound DEF Taken
<1>1. CASE Take
  <2>1. PICK g : g = Head(queue)
    OBVIOUS
  <2>2. PICK b : b = IF backend = 0 THEN opened + 1 ELSE backend
    OBVIOUS
  <2>3. /\ queue # <<>> /\ backend' = b
        /\ opened' = IF backend = 0 THEN opened + 1 ELSE opened
        /\ of' = [of EXCEPT ![g] = b] /\ sess' = [sess EXCEPT ![g] = "adopting"]
        /\ UNCHANGED <<stopping, stopped>>
    BY <1>1, <2>1, <2>2 DEF Take
  <2>4. /\ g \in Gens /\ sess[g] = "none"
        /\ Cardinality(Taken') = Cardinality(Taken) + 1
    BY <2>1, <2>3, TakeFacts
  <2>5. opened' \in Nat /\ opened' >= opened /\ b # 0 /\ b <= opened' /\ b \in Nat
    BY <1>0, <1>t, <2>2, <2>3 DEF BackendInv
  <2>6. opened' <= Cardinality(Taken')
    BY <1>0, <1>t, <1>c, <2>3, <2>4 DEF BackendInv
  <2>7. b \notin stopping \cup stopped
    BY <1>0, <1>t, <2>2 DEF BackendInv, Backends
  <2>8. \A f \in Gens : /\ of'[f] <= opened' /\ (sess'[f] # "none" => of'[f] # 0)
                        /\ of'[f] # 0 => sess'[f] # "none"
    BY <1>0, <1>t, <2>3, <2>4, <2>5 DEF BackendInv
  <2>9. \A f \in Gens : of'[f] \in stopped => sess'[f] = "ended"
    BY <1>0, <1>t, <2>3, <2>4, <2>7 DEF BackendInv
  <2>10. \A c \in stopping \cup stopped : c <= opened'
    BY <1>0, <1>t, <2>5 DEF BackendInv, Backends
  <2> QED
    BY <2>3, <2>5, <2>6, <2>7, <2>8, <2>9, <2>10 DEF BackendInv
<1>2. CASE WorkerRevoked \/ Reconcile
  <2>1. /\ \/ stopping' = stopping \cup ({backend} \ {0}) /\ backend' = 0
           \/ UNCHANGED <<stopping, backend>>
        /\ UNCHANGED <<opened, stopped, of, sess>>
    BY <1>2 DEF WorkerRevoked, Reconcile, sessions
  <2>2. Taken' = Taken
    BY <2>1 DEF Taken
  <2>3. 0 \notin stopping \cup ({backend} \ {0}) \cup stopped
    BY <1>t DEF Backends
  <2> QED
    BY <1>0, <1>t, <2>1, <2>2, <2>3 DEF BackendInv
<1>3. ASSUME NEW b \in Backends, StopAgents(b) PROVE BackendInv'
  <2>1. /\ b \in stopping /\ \A g \in Gens : of[g] = b => sess[g] = "ended"
        /\ stopping' = stopping \ {b} /\ stopped' = stopped \cup {b}
        /\ UNCHANGED <<opened, backend, of, sess>>
    BY <1>3 DEF StopAgents
  <2>2. Taken' = Taken
    BY <2>1 DEF Taken
  <2> QED
    BY <1>0, <1>t, <2>1, <2>2 DEF BackendInv
<1>4. ASSUME NEW g \in Gens,
             Adopt(g) \/ ApplyBegin(g) \/ ApplyEnd(g) \/ SessionEnd(g)
      PROVE  BackendInv'
  <2>1. /\ \E x \in {"serving", "applying", "ended"} : sess' = [sess EXCEPT ![g] = x]
        /\ sess[g] \notin {"none", "ended"}
        /\ UNCHANGED <<opened, backend, stopping, stopped, of>>
    BY <1>4 DEF Adopt, ApplyBegin, ApplyEnd, SessionEnd, service
  <2>2. \A f \in Gens : /\ sess'[f] = "none" <=> sess[f] = "none"
                        /\ sess[f] = "ended" => sess'[f] = "ended"
    BY <1>t, <2>1
  <2> QED
    BY <1>0, <2>1, <2>2, BackendSame
<1>5. ASSUME UNCHANGED <<opened, backend, stopping, stopped, of, sess>> PROVE BackendInv'
  BY <1>0, <1>5, BackendSame
<1>6. ASSUME NEW g \in Gens,
             \/ Subscribe(g) \/ Resolve(g) \/ Bind(g) \/ HandOff(g) \/ ConnFails(g)
             \/ WatchRevoked(g) \/ WatchEnd(g) \/ LinkCloses(g)
      PROVE  BackendInv'
  BY <1>5, <1>6 DEF Subscribe, Resolve, Bind, HandOff, ConnFails, WatchRevoked, WatchEnd,
                    LinkCloses, service, sessions
<1>7. CASE CloseAll \/ Revoke \/ NotifyRevoked \/ FeedLags \/ TakeFailed
  BY <1>5, <1>7 DEF CloseAll, Revoke, NotifyRevoked, FeedLags, TakeFailed, service, sessions
<1>8. ASSUME NEW b \in Backends, StopLinks(b) PROVE BackendInv'
  BY <1>5, <1>8 DEF StopLinks, service, sessions
<1> QED
  BY Steps, <1>1, <1>2, <1>3, <1>4, <1>6, <1>7, <1>8

(***************************************************************************)
(* The gate and the stop.                                                  *)
(***************************************************************************)

(* Steps of no session.                                                    *)
LEMMA GateSame ==
    ASSUME GateInv, UNCHANGED <<sess, of, gate, holder>>
    PROVE  GateInv'
  BY DEF GateInv

LEMMA GateNext ==
    ASSUME IInv, ExecutorNext
    PROVE  GateInv'
<1> USE ExecutorLinksAssumption
<1>0. ExecutorTypeOK /\ GateInv /\ BackendInv
  BY DEF IInv
<1>t. /\ sess \in [Gens -> {"none", "adopting", "serving", "applying", "ended"}]
      /\ of \in [Gens -> 0..MaxGen]
      /\ gate \in [Backends -> 0..MaxGen] /\ holder \in [Backends -> 0..MaxGen]
  BY <1>0 DEF ExecutorTypeOK
<1>b. \A g \in Gens : sess[g] # "none" => of[g] \in Backends
  BY <1>0, <1>t DEF BackendInv, Backends
<1>1. ASSUME NEW g \in Gens, Adopt(g) PROVE GateInv'
  <2>0. /\ sess[g] = "adopting" /\ holder[of[g]] = 0 /\ UNCHANGED <<of, holder>>
        /\ of[g] \in Backends
    BY <1>1, <1>b DEF Adopt
  <2>1. \A f \in Gens : of[f] = of[g] => sess[f] # "applying"
    BY <1>0, <2>0 DEF GateInv, Gens
  <2>2. CASE /\ gate[of[g]] <= g /\ gate' = [gate EXCEPT ![of[g]] = g]
             /\ sess' = [sess EXCEPT ![g] = "serving"]
    <3>1. ASSUME NEW f \in Gens, sess'[f] \in {"serving", "applying"}
          PROVE  gate'[of[f]] >= f
      <4>1. CASE f = g
        BY <1>t, <2>0, <2>2, <4>1 DEF Gens
      <4>2. CASE f # g /\ of[f] = of[g]
        <5>1. gate[of[g]] >= f
          BY <1>0, <1>t, <2>2, <3>1, <4>2 DEF GateInv
        <5>2. gate'[of[f]] = g /\ gate[of[g]] \in 0..MaxGen
          BY <1>t, <2>0, <2>2, <4>2
        <5> QED
          BY <2>2, <5>1, <5>2 DEF Gens
      <4>3. CASE f # g /\ of[f] # of[g]
        <5>1. sess[f] = sess'[f] /\ of[f] \in Backends
          BY <1>t, <1>b, <2>2, <3>1, <4>3
        <5> QED
          BY <1>0, <1>t, <2>2, <3>1, <4>3, <5>1 DEF GateInv
      <4> QED
        BY <4>1, <4>2, <4>3
    <3>2. ASSUME NEW f \in Gens, sess'[f] = "applying"
          PROVE  gate'[of[f]] = f /\ holder[of[f]] = f
      <4>1. sess[f] = "applying" /\ of[f] # of[g] /\ of[f] \in Backends
        BY <1>t, <1>b, <2>1, <2>2, <3>2
      <4> QED
        BY <1>0, <1>t, <2>2, <4>1 DEF GateInv
    <3> QED
      BY <2>0, <3>1, <3>2 DEF GateInv
  <2>3. CASE sess' = [sess EXCEPT ![g] = "ended"] /\ UNCHANGED gate
    BY <1>0, <1>t, <2>0, <2>3 DEF GateInv
  <2> QED
    BY <1>1, <2>2, <2>3 DEF Adopt, admit
<1>2. ASSUME NEW g \in Gens, ApplyBegin(g) PROVE GateInv'
  <2>0. /\ sess[g] = "serving" /\ holder[of[g]] = 0 /\ gate[of[g]] <= g
        /\ holder' = [holder EXCEPT ![of[g]] = g]
        /\ sess' = [sess EXCEPT ![g] = "applying"]
        /\ UNCHANGED <<of, gate>> /\ of[g] \in Backends
    BY <1>2, <1>b DEF ApplyBegin, admit
  <2>1. gate[of[g]] = g
    BY <1>0, <1>t, <2>0 DEF GateInv, Gens
  <2>2. \A f \in Gens : sess[f] = "applying" => of[f] # of[g] /\ of[f] \in Backends
    BY <1>0, <1>b, <2>0 DEF GateInv, Gens
  <2> QED
    BY <1>0, <1>t, <2>0, <2>1, <2>2 DEF GateInv
<1>3. ASSUME NEW g \in Gens, ApplyEnd(g) PROVE GateInv'
  <2>0. /\ sess[g] = "applying" /\ holder' = [holder EXCEPT ![of[g]] = 0]
        /\ sess' = [sess EXCEPT ![g] = "serving"]
        /\ UNCHANGED <<of, gate>> /\ of[g] \in Backends
    BY <1>3, <1>b DEF ApplyEnd
  <2>1. \A f \in Gens : sess[f] = "applying" /\ f # g => of[f] # of[g] /\ of[f] \in Backends
    BY <1>0, <1>b, <2>0 DEF GateInv
  <2> QED
    BY <1>0, <1>t, <2>0, <2>1 DEF GateInv
<1>4. ASSUME NEW g \in Gens, SessionEnd(g) PROVE GateInv'
  BY <1>0, <1>t, <1>4 DEF SessionEnd, GateInv
<1>5. CASE Take
  <2>1. PICK g : g = Head(queue)
    OBVIOUS
  <2>2. /\ sess' = [sess EXCEPT ![g] = "adopting"] /\ queue # <<>>
        /\ \E b : of' = [of EXCEPT ![g] = b]
        /\ UNCHANGED <<gate, holder>>
    BY <1>5, <2>1 DEF Take
  <2>3. g \in Gens
    BY <2>1, <2>2, TakeFacts
  <2> QED
    BY <1>0, <1>t, <2>2, <2>3 DEF GateInv
<1>6. ASSUME NEW g \in Gens,
             \/ Subscribe(g) \/ Resolve(g) \/ Bind(g) \/ HandOff(g) \/ ConnFails(g)
             \/ WatchRevoked(g) \/ WatchEnd(g) \/ LinkCloses(g)
      PROVE  GateInv'
  BY <1>0, <1>6, GateSame DEF Subscribe, Resolve, Bind, HandOff, ConnFails, WatchRevoked,
                              WatchEnd, LinkCloses, sessions
<1>7. CASE \/ CloseAll \/ Revoke \/ NotifyRevoked \/ FeedLags \/ TakeFailed
           \/ WorkerRevoked \/ Reconcile
  BY <1>0, <1>7, GateSame DEF CloseAll, Revoke, NotifyRevoked, FeedLags, TakeFailed,
                              WorkerRevoked, Reconcile, sessions
<1>8. ASSUME NEW b \in Backends, StopLinks(b) \/ StopAgents(b) PROVE GateInv'
  BY <1>0, <1>8, GateSame DEF StopLinks, StopAgents, sessions
<1> QED
  BY Steps, <1>1, <1>2, <1>3, <1>4, <1>5, <1>6, <1>7, <1>8

LEMMA StopNext ==
    ASSUME IInv, ExecutorNext
    PROVE  StopIsFinal'
<1>0. StopIsFinal /\ BackendInv
  BY DEF IInv
<1>1. ASSUME NEW g \in Gens, ApplyEnd(g) PROVE StopIsFinal'
  <2>1. sess[g] = "applying" /\ agents' = agents \cup {of[g]} /\ UNCHANGED stopped
    BY <1>1 DEF ApplyEnd, service
  <2>2. of[g] \notin stopped
    BY <1>0, <2>1 DEF BackendInv
  <2> QED
    BY <1>0, <2>1, <2>2 DEF StopIsFinal
<1>2. ASSUME NEW b \in Backends, StopLinks(b) \/ StopAgents(b) PROVE StopIsFinal'
  BY <1>0, <1>2 DEF StopLinks, StopAgents, StopIsFinal, service, sessions
<1>3. ASSUME UNCHANGED <<agents, stopped>> PROVE StopIsFinal'
  BY <1>0, <1>3 DEF StopIsFinal
<1>4. ASSUME NEW g \in Gens,
             \/ Subscribe(g) \/ Resolve(g) \/ Bind(g) \/ HandOff(g) \/ ConnFails(g)
             \/ WatchRevoked(g) \/ WatchEnd(g) \/ LinkCloses(g)
             \/ Adopt(g) \/ ApplyBegin(g) \/ SessionEnd(g)
      PROVE  StopIsFinal'
  BY <1>3, <1>4 DEF Subscribe, Resolve, Bind, HandOff, ConnFails, WatchRevoked, WatchEnd,
                    LinkCloses, Adopt, ApplyBegin, SessionEnd, service, sessions
<1>5. CASE \/ CloseAll \/ Revoke \/ NotifyRevoked \/ FeedLags
           \/ Take \/ TakeFailed \/ WorkerRevoked \/ Reconcile
  BY <1>3, <1>5 DEF CloseAll, Revoke, NotifyRevoked, FeedLags, Take, TakeFailed,
                    WorkerRevoked, Reconcile, service, sessions
<1> QED
  BY Steps, <1>1, <1>2, <1>4, <1>5

(***************************************************************************)
(* Types: only Take and ConnFails need more than the types themselves.     *)
(***************************************************************************)
ListenerTypes ==
    /\ revoked \in BOOLEAN /\ announced \in BOOLEAN /\ registered \in BOOLEAN
    /\ bound \in 0..MaxGen /\ entry \in 0..MaxGen /\ epoch \in 0..MaxEpoch
    /\ lags \in 0..MaxLags
    /\ conn \in [Gens -> {"none", "resolving", "upgraded", "bound", "handed", "gone"}]
    /\ at \in [Gens -> 0..MaxEpoch]
    /\ open \subseteq Gens /\ watching \subseteq Gens
    /\ feed \in [Gens -> {"quiet", "revoked", "lagged"}]

ServiceTypes ==
    /\ wfeed \in {"quiet", "revoked", "lagged"}
    /\ queue \in Seq(Gens)
    /\ backend \in 0..MaxGen /\ opened \in 0..MaxGen
    /\ stopping \subseteq Backends /\ stopped \subseteq Backends /\ agents \subseteq Backends
    /\ sess \in [Gens -> {"none", "adopting", "serving", "applying", "ended"}]
    /\ of \in [Gens -> 0..MaxGen]
    /\ gate \in [Backends -> 0..MaxGen] /\ holder \in [Backends -> 0..MaxGen]

LEMMA ListenerTypesNext ==
    ASSUME IInv, ExecutorNext
    PROVE  ListenerTypes'
<1> USE ExecutorLinksAssumption
<1>0. ListenerTypes
  BY DEF IInv, ExecutorTypeOK, ListenerTypes
<1>g. \A g \in Gens : g \in 0..MaxGen
  BY DEF Gens
<1>1. ASSUME NEW g \in Gens, Subscribe(g) PROVE ListenerTypes'
  BY <1>0, <1>1 DEF Subscribe, ListenerTypes
<1>2. ASSUME NEW g \in Gens, Resolve(g) PROVE ListenerTypes'
  BY <1>0, <1>2 DEF Resolve, ListenerTypes
<1>3. ASSUME NEW g \in Gens, Bind(g) PROVE ListenerTypes'
  BY <1>0, <1>3, <1>g DEF Bind, CloseEntry, ListenerTypes
<1>4. ASSUME NEW g \in Gens, ConnFails(g) PROVE ListenerTypes'
  BY <1>0, <1>4, <1>g DEF ConnFails, ListenerTypes
<1>5. ASSUME NEW g \in Gens, HandOff(g) PROVE ListenerTypes'
  BY <1>0, <1>5 DEF HandOff, ListenerTypes
<1>6. ASSUME NEW g \in Gens, WatchRevoked(g) \/ WatchEnd(g) PROVE ListenerTypes'
  <2>1. /\ registered' = FALSE \/ registered' = registered
        /\ entry' \in {0, entry} /\ open' \subseteq open /\ watching' \subseteq watching
        /\ UNCHANGED <<revoked, bound, epoch, conn, at, feed, announced, lags>>
    BY <1>6 DEF WatchRevoked, WatchEnd, DropCredential, CloseEntry
  <2>2. registered' \in BOOLEAN
    BY <1>0, <2>1, Zenon DEF ListenerTypes
  <2> QED
    BY <1>0, <2>1, <2>2 DEF ListenerTypes
<1>7. CASE CloseAll
  <2>1. /\ registered' = FALSE /\ entry' = 0 /\ open' \subseteq open
        /\ epoch < MaxEpoch /\ epoch' = epoch + 1
        /\ UNCHANGED <<revoked, bound, conn, at, feed, watching, announced, lags>>
    BY <1>7 DEF CloseAll, DropCredential, CloseEntry
  <2>2. registered' \in BOOLEAN
    BY <2>1, Zenon
  <2> QED
    BY <1>0, <2>1, <2>2 DEF ListenerTypes
<1>8. CASE Revoke
  BY <1>0, <1>8 DEF Revoke, ListenerTypes
<1>9. CASE NotifyRevoked
  BY <1>0, <1>9 DEF NotifyRevoked, ListenerTypes
<1>10. CASE FeedLags
  <2>1. lags' \in 0..MaxLags
    BY <1>0, <1>10 DEF FeedLags, ListenerTypes
  <2>2. feed' \in [Gens -> {"quiet", "revoked", "lagged"}]
    BY <1>0, <1>10 DEF FeedLags, Subscribed, ListenerTypes
  <2> QED
    BY <1>0, <1>10, <2>1, <2>2, Zenon DEF FeedLags, ListenerTypes
<1>11. ASSUME UNCHANGED <<listener, lags>>, open' \subseteq open PROVE ListenerTypes'
  BY <1>0, <1>11 DEF listener, ListenerTypes
<1>12. ASSUME NEW g \in Gens,
              \/ LinkCloses(g) \/ Adopt(g) \/ ApplyBegin(g) \/ ApplyEnd(g) \/ SessionEnd(g)
       PROVE  ListenerTypes'
  BY <1>11, <1>12 DEF LinkCloses, Adopt, ApplyBegin, ApplyEnd, SessionEnd
<1>13. CASE Take \/ TakeFailed \/ WorkerRevoked \/ Reconcile
  BY <1>11, <1>13 DEF Take, TakeFailed, WorkerRevoked, Reconcile
<1>14. ASSUME NEW b \in Backends, StopLinks(b) \/ StopAgents(b) PROVE ListenerTypes'
  BY <1>11, <1>14 DEF StopLinks, StopAgents
<1> QED
  BY Steps, <1>1, <1>2, <1>3, <1>4, <1>5, <1>6, <1>7, <1>8, <1>9, <1>10, <1>12, <1>13, <1>14

LEMMA ServiceTypesNext ==
    ASSUME IInv, ExecutorNext
    PROVE  ServiceTypes'
<1> USE ExecutorLinksAssumption
<1>0. ServiceTypes
  BY DEF IInv, ExecutorTypeOK, ServiceTypes
<1>b. \A g \in Gens : g \in 0..MaxGen /\ (sess[g] # "none" => of[g] \in Backends)
  BY <1>0 DEF IInv, BackendInv, ServiceTypes, Backends, Gens
<1>1. ASSUME NEW g \in Gens, HandOff(g) PROVE ServiceTypes'
  <2>1. queue' \in Seq(Gens)
    <3>1. queue \in Seq(Gens) /\ (queue' = queue \/ queue' = Append(queue, g))
      BY <1>0, <1>1 DEF HandOff, ServiceTypes
    <3> QED
      BY <3>1
  <2> QED
    BY <1>0, <1>1, <2>1 DEF HandOff, ServiceTypes, sessions
<1>2. CASE NotifyRevoked \/ FeedLags
  <2>1. /\ wfeed' \in {"quiet", "revoked", "lagged"}
        /\ UNCHANGED <<queue, backend, opened, stopping, stopped, sessions>>
    BY <1>0, <1>2 DEF NotifyRevoked, FeedLags, ServiceTypes
  <2> QED
    BY <1>0, <2>1 DEF ServiceTypes, sessions
<1>3. CASE Take
  <2>1. PICK g : g = Head(queue)
    OBVIOUS
  <2>2. PICK b : b = IF backend = 0 THEN opened + 1 ELSE backend
    OBVIOUS
  <2>3. /\ queue # <<>> /\ queue' = Tail(queue) /\ backend' = b
        /\ opened' = IF backend = 0 THEN opened + 1 ELSE opened
        /\ of' = [of EXCEPT ![g] = b] /\ sess' = [sess EXCEPT ![g] = "adopting"]
        /\ UNCHANGED <<wfeed, stopping, stopped, gate, holder, agents>>
    BY <1>3, <2>1, <2>2 DEF Take
  <2>4. /\ g \in Gens /\ Cardinality(Taken') = Cardinality(Taken) + 1
        /\ Cardinality(Taken') <= MaxGen
    BY <2>1, <2>3, TakeFacts
  <2>5. opened <= Cardinality(Taken) /\ Cardinality(Taken) \in Nat
    BY TakenBound DEF IInv, BackendInv, Taken
  <2>6. opened + 1 \in 0..MaxGen
    BY <1>0, <2>4, <2>5 DEF ServiceTypes
  <2>7. b \in 0..MaxGen /\ opened' \in 0..MaxGen
    BY <1>0, <2>2, <2>3, <2>6 DEF ServiceTypes
  <2>8. queue' \in Seq(Gens)
    BY <1>0, <2>3 DEF ServiceTypes
  <2> QED
    BY <1>0, <2>3, <2>4, <2>7, <2>8 DEF ServiceTypes
<1>4. CASE TakeFailed
  <2>1. queue' \in Seq(Gens) /\ UNCHANGED <<wfeed, backend, opened, stopping, stopped, sessions>>
    BY <1>0, <1>4 DEF TakeFailed, ServiceTypes
  <2> QED
    BY <1>0, <2>1 DEF ServiceTypes, sessions
<1>5. CASE WorkerRevoked \/ Reconcile
  <2>1. /\ wfeed' = "quiet" /\ backend' \in {0, backend}
        /\ stopping' \subseteq stopping \cup ({backend} \ {0})
        /\ UNCHANGED <<queue, opened, stopped, sessions>>
    BY <1>5 DEF WorkerRevoked, Reconcile
  <2>2. {backend} \ {0} \subseteq Backends
    BY <1>0 DEF ServiceTypes, Backends
  <2> QED
    BY <1>0, <2>1, <2>2 DEF ServiceTypes, sessions
<1>6. ASSUME NEW b \in Backends, StopLinks(b) \/ StopAgents(b) PROVE ServiceTypes'
  <2>1. /\ agents' \subseteq agents /\ stopping' \subseteq stopping
        /\ stopped' \subseteq stopped \cup {b}
        /\ UNCHANGED <<wfeed, queue, backend, opened, sess, of, gate, holder>>
    BY <1>6 DEF StopLinks, StopAgents, service, sessions
  <2> QED
    BY <1>0, <2>1 DEF ServiceTypes
<1>7. ASSUME NEW g \in Gens, Adopt(g) PROVE ServiceTypes'
  BY <1>0, <1>7, <1>b DEF Adopt, ServiceTypes, service
<1>8. ASSUME NEW g \in Gens, ApplyBegin(g) \/ ApplyEnd(g) \/ SessionEnd(g)
      PROVE  ServiceTypes'
  <2>1. CASE ApplyBegin(g)
    BY <1>0, <1>b, <2>1 DEF ApplyBegin, ServiceTypes, service
  <2>2. CASE ApplyEnd(g)
    BY <1>0, <1>b, <2>2 DEF ApplyEnd, ServiceTypes, service
  <2>3. CASE SessionEnd(g)
    BY <1>0, <2>3 DEF SessionEnd, ServiceTypes, service
  <2> QED
    BY <1>8, <2>1, <2>2, <2>3
<1>9. ASSUME UNCHANGED <<service, sessions>> PROVE ServiceTypes'
  BY <1>0, <1>9 DEF service, sessions, ServiceTypes
<1>10. ASSUME NEW g \in Gens,
              \/ Subscribe(g) \/ Resolve(g) \/ Bind(g) \/ ConnFails(g)
              \/ WatchRevoked(g) \/ WatchEnd(g) \/ LinkCloses(g)
       PROVE  ServiceTypes'
  BY <1>9, <1>10 DEF Subscribe, Resolve, Bind, ConnFails, WatchRevoked, WatchEnd, LinkCloses
<1>11. CASE CloseAll \/ Revoke
  BY <1>9, <1>11 DEF CloseAll, Revoke
<1> QED
  BY Steps, <1>1, <1>2, <1>3, <1>4, <1>5, <1>6, <1>7, <1>8, <1>10, <1>11

-----------------------------------------------------------------------------
(* Every step preserves the inductive invariant.                           *)
LEMMA NextIInv ==
    ASSUME IInv, [ExecutorNext]_executorVars
    PROVE  IInv'
<1>1. CASE ExecutorNext
  <2>1. ExecutorTypeOK'
    BY <1>1, ListenerTypesNext, ServiceTypesNext, Zenon DEF ExecutorTypeOK, ListenerTypes, ServiceTypes
  <2> QED
    BY <1>1, <2>1, ListenerNext, QueueNext, BackendNext, GateNext, StopNext DEF IInv
<1>2. CASE UNCHANGED executorVars
  <2>1. ExecutorTypeOK' /\ StopIsFinal'
    BY <1>2 DEF IInv, ExecutorTypeOK, StopIsFinal, executorVars, listener, service, sessions
  <2>2. ListenerInv' /\ GateInv'
    BY <1>2, ListenerSame, GateSame DEF IInv, executorVars, listener, service, sessions
  <2>3. QueueInv' /\ BackendInv'
    BY <1>2 DEF IInv, QueueInv, BackendInv, Taken, executorVars, listener, service, sessions
  <2> QED
    BY <2>1, <2>2, <2>3 DEF IInv
<1> QED
  BY <1>1, <1>2

(* Every reachable state satisfies the inductive invariant.                *)
THEOREM Invariant == ExecutorSpec => []IInv
<1>1. IInv /\ [ExecutorNext]_executorVars => IInv'
  BY NextIInv
<1> QED
  BY <1>1, InitIInv, PTL DEF ExecutorSpec

(* The listener's, the service's and the sessions' variables keep their    *)
(* types; in particular no more backends are opened than links were taken. *)
THEOREM TypeCorrect == ExecutorSpec => []ExecutorTypeOK
<1>1. IInv => ExecutorTypeOK
  BY DEF IInv
<1> QED
  BY <1>1, Invariant, PTL

(* ExecutorLinks::bind and the hand-off in serve: an open link is never    *)
(* older than a bind that completed.                                       *)
THEOREM NewestOpen == ExecutorSpec => []OnlyNewestOpen
<1>1. IInv => OnlyNewestOpen
  BY DEF IInv, ListenerInv, OnlyNewestOpen, ExecutorTypeOK
<1> QED
  BY <1>1, Invariant, PTL

(* ExecutorLinks::close_all: no link accepted before the listener stopped  *)
(* is open after it.                                                       *)
THEOREM StopClosesAll == ExecutorSpec => []NothingOutlivesStop
<1>1. IInv => NothingOutlivesStop
  BY DEF IInv, ListenerInv, NothingOutlivesStop
<1> QED
  BY <1>1, Invariant, PTL

(* session.rs admit, adopt and apply: a frame takes effect only while its  *)
(* session is the newest one adopted.                                      *)
THEOREM GateHolds == ExecutorSpec => []NoStaleEffect
<1>1. IInv => NoStaleEffect
  BY DEF IInv, GateInv, NoStaleEffect
<1> QED
  BY <1>1, Invariant, PTL

(* stop_backend: once a backend's agents were stopped, none runs again.    *)
THEOREM StoppedForGood == ExecutorSpec => []StopIsFinal
<1>1. IInv => StopIsFinal
  BY DEF IInv
<1> QED
  BY <1>1, Invariant, PTL
=============================================================================
