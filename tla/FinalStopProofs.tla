-------------------------- MODULE FinalStopProofs --------------------------
(***************************************************************************)
(* Proofs about the backend's stops of an agent, for any number of stops,  *)
(* links, faults and restarts.                                             *)
(***************************************************************************)
EXTENDS FinalStop, TLAPS

-----------------------------------------------------------------------------
(* No stop is queued under no id, ...                                      *)
LEMMA QueuedIs == FinalTypeOK => (queued # NotQueued <=> queued.id # NoStop)
  BY DEF FinalTypeOK, StopRecords, NotQueued, NoStop, Stops

(* ... nor after a step.                                                   *)
LEMMA QueuedIsNext == FinalTypeOK' => (queued' # NotQueued <=> queued'.id # NoStop)
  BY DEF FinalTypeOK, StopRecords, NotQueued, NoStop, Stops

(* The ids are numbers, NoStop the least.                                  *)
LEMMA Shapes ==
    ASSUME FinalTypeOK
    PROVE  /\ NoStop = 0 /\ next \in Nat /\ next > 0 /\ (\A n \in Stops : n \in Nat /\ n > 0)
           /\ record \in Stops \cup {NoStop} /\ queued.id \in Stops \cup {NoStop}
           /\ (\A b \in Actors : actor[b].id \in Stops \cup {NoStop})
           /\ settled \subseteq Stops /\ lapsed \subseteq Stops /\ faults \in Nat
  BY FinalStopAssumption DEF FinalTypeOK, StopRecords, NotQueued, NoStop, Stops

(* What Spawned does: a resender starts on the link that is up, if none    *)
(* was there.                                                              *)
LEMMA SpawnedIs ==
    ASSUME FinalTypeOK, BindOrder, NEW i \in Stops, resend' = Spawned(i)
    PROVE  /\ \A j \in Stops, h \in Links :
                \/ resend'[j][h] = resend[j][h]
                \/ /\ j = i /\ h = linkGen /\ linkUp
                   /\ resend[j][h].stage = "idle" /\ resend'[j][h].stage = "loop"
           /\ linkUp => resend'[i][linkGen].stage # "idle"
  BY DEF FinalTypeOK, BindOrder, Spawned, Sending

(* What each part of the invariant is about: the links and who binds them, *)
LEMMA BindOrderFrame ==
    ASSUME BindOrder, UNCHANGED <<linkUp, linkGen, actor>>
    PROVE  BindOrder'
  BY DEF BindOrder

(* the graces and what is dropped or expired,                              *)
LEMMA GraceOrderFrame ==
    ASSUME GraceOrder, UNCHANGED <<inGrace, settled, graceTask, actor, lapsed>>
    PROVE  GraceOrder'
  BY DEF GraceOrder

(* the ends of final stops,                                                *)
LEMMA OverOnceFrame ==
    ASSUME OverOnce, UNCHANGED <<actor, resend, settled, overs>>
    PROVE  OverOnce'
  BY DEF OverOnce, LoadIsOver, AckIsOver

(* their ids,                                                              *)
LEMMA FreshIdsFrame ==
    ASSUME FreshIds, UNCHANGED <<record, next, queued, actor, settled, resend>>
    PROVE  FreshIds'
  BY DEF FreshIds

(* the placement,                                                          *)
LEMMA PlacedFirstFrame ==
    ASSUME PlacedFirst, UNCHANGED <<lapsed, placed, record, actor, settled, resend>>
    PROVE  PlacedFirst'
  BY DEF PlacedFirst

(* the queue as long as nothing has ended,                                 *)
LEMMA RecordIsQueuedFrame ==
    ASSUME RecordIsQueued, UNCHANGED <<faults, lapsed, settled, resend, actor, placed, record, queued, linkUp>>
    PROVE  RecordIsQueued'
  BY DEF RecordIsQueued, NothingEnded

(* the calls of final_stop_over,                                           *)
LEMMA SettlesOnceFrame ==
    ASSUME SettlesOnce, UNCHANGED <<overs>>
    PROVE  SettlesOnce'
  BY DEF SettlesOnce

(* and the resenders.                                                      *)
LEMMA QueuedIsResentFrame ==
    ASSUME QueuedIsResent, UNCHANGED <<faults, lapsed, settled, record, placed, resend, actor, queued,
                                           linkUp, linkGen>>
    PROVE  QueuedIsResent'
  BY DEF QueuedIsResent, NothingEnded

(* RequestStop: a queued stop keeps its id, a fresh one will be resent.    *)
LEMMA RequestStopInv ==
    ASSUME FinalInv, FinalTypeOK', RequestStop
    PROVE  FinalOrder'
<1>i. /\ FinalTypeOK /\ BindOrder /\ GraceOrder /\ OverOnce /\ FreshIds
      /\ PlacedFirst /\ RecordIsQueued /\ SettlesOnce /\ QueuedIsResent
  BY DEF FinalInv, FinalOrder
<1>a. /\ "request" \in Actors /\ "claim" \in Actors /\ "dial" \in Actors /\ "timer" \in Actors
      /\ "dial" \in Loads /\ "timer" \in Loads /\ NoStop \notin Stops
      /\ "request" \notin Loads /\ "claim" \notin Loads
      /\ "plain" \in Actors /\ "plain" \notin Loads
  BY DEF Actors, Loads, NoStop, Stops
<1>s. /\ NoStop = 0 /\ next \in Nat /\ next > 0 /\ (\A n \in Stops : n \in Nat /\ n > 0)
      /\ record \in Stops \cup {NoStop} /\ queued.id \in Stops \cup {NoStop}
      /\ (\A b \in Actors : actor[b].id \in Stops \cup {NoStop})
      /\ settled \subseteq Stops /\ lapsed \subseteq Stops /\ faults \in Nat
  BY <1>i, Shapes
<1>e. /\ \/ queued.id # NoStop /\ queued' = queued /\ next' = next
         \/ /\ queued.id = NoStop /\ next \in Stops /\ next' = next + 1 /\ queued'.id = next
            /\ queued'.final = FALSE /\ queued'.durable = FALSE
      /\ queued'.id \in Stops
      /\ actor["plain"].stage = "idle"
      /\ actor'["plain"].stage = "looking" /\ actor'["plain"].id = queued'.id
      /\ \A b \in Actors : b # "plain" => actor'[b] = actor[b]
      /\ UNCHANGED <<record, placed, lapsed, settled, inGrace, graceTask, linkUp,
                     linkGen, legacy, resend, overs, faults, restarts>>
  <2>1. /\ \/ queued.id # NoStop /\ queued' = queued /\ next' = next
           \/ /\ queued.id = NoStop /\ next \in Stops /\ next' = next + 1 /\ queued'.id = next
              /\ queued'.final = FALSE /\ queued'.durable = FALSE
    BY <1>i, QueuedIs DEF RequestStop, Queued
  <2>2. queued'.id \in Stops
    BY <1>i, <2>1 DEF FinalTypeOK, StopRecords, NotQueued
  <2>3. PICK q : q = queued'.id
    OBVIOUS
  <2>4. actor["plain"] = Idle /\ actor' = [actor EXCEPT !["plain"] = Doing("looking", q, FALSE)]
    BY <2>3 DEF RequestStop, Act
  <2>5. /\ actor["plain"].stage = "idle"
        /\ actor'["plain"].stage = "looking" /\ actor'["plain"].id = queued'.id
        /\ \A b \in Actors : b # "plain" => actor'[b] = actor[b]
    BY <1>i, <1>a, <2>3, <2>4 DEF FinalTypeOK, Idle, Doing
  <2> QED
    BY <2>1, <2>2, <2>5 DEF RequestStop, stopStore, stopLink, stopCounts
<1>n. NothingEnded' => /\ NothingEnded /\ settled = {} /\ lapsed = {} /\ settled' = {}
                         /\ lapsed' = {} /\ faults' = faults
                         /\ \A j \in Stops, h \in Links : resend'[j][h].stage # "claiming"
  BY <1>i, <1>s, <1>e DEF NothingEnded, GraceOrder, OverOnce, AckIsOver, LoadIsOver
<1>1. BindOrder'
  BY <1>i, <1>a, <1>s, <1>e DEF BindOrder
<1>2. GraceOrder'
  BY <1>i, <1>a, <1>s, <1>e DEF GraceOrder
<1>3. OverOnce'
  BY <1>i, <1>a, <1>s, <1>e DEF OverOnce, LoadIsOver, AckIsOver
<1>4. FreshIds'
  BY <1>i, <1>a, <1>s, <1>e DEF FreshIds, GraceOrder
<1>5. PlacedFirst'
  BY <1>i, <1>a, <1>s, <1>e DEF PlacedFirst, BindOrder, FreshIds, GraceOrder
<1>6. RecordIsQueued'
  BY <1>i, <1>a, <1>s, <1>e, <1>n DEF RecordIsQueued, BindOrder, FreshIds, PlacedFirst, GraceOrder, OverOnce, AckIsOver, LoadIsOver
<1>7. QueuedIsResent'
  BY <1>i, <1>a, <1>s, <1>e, <1>n, QueuedIs, QueuedIsNext DEF QueuedIsResent, BindOrder, RecordIsQueued, FreshIds, GraceOrder
<1> QED
  BY <1>i, <1>e, <1>1, <1>2, <1>3, <1>4, <1>5, <1>6, <1>7, SettlesOnceFrame DEF FinalOrder

(* RequestLooks: a resender starts, if a link is up.                       *)
LEMMA RequestLooksInv ==
    ASSUME FinalInv, FinalTypeOK', RequestLooks
    PROVE  FinalOrder'
<1>i. /\ FinalTypeOK /\ BindOrder /\ GraceOrder /\ OverOnce /\ FreshIds
      /\ PlacedFirst /\ RecordIsQueued /\ SettlesOnce /\ QueuedIsResent
  BY DEF FinalInv, FinalOrder
<1>a. /\ "request" \in Actors /\ "claim" \in Actors /\ "dial" \in Actors /\ "timer" \in Actors
      /\ "dial" \in Loads /\ "timer" \in Loads /\ NoStop \notin Stops
      /\ "request" \notin Loads /\ "claim" \notin Loads
      /\ "plain" \in Actors /\ "plain" \notin Loads
  BY DEF Actors, Loads, NoStop, Stops
<1>s. /\ NoStop = 0 /\ next \in Nat /\ next > 0 /\ (\A n \in Stops : n \in Nat /\ n > 0)
      /\ record \in Stops \cup {NoStop} /\ queued.id \in Stops \cup {NoStop}
      /\ (\A b \in Actors : actor[b].id \in Stops \cup {NoStop})
      /\ settled \subseteq Stops /\ lapsed \subseteq Stops /\ faults \in Nat
  BY <1>i, Shapes
<1>e. /\ actor["plain"].stage = "looking" /\ actor["plain"].id \in Stops
      /\ actor'["plain"].stage = "idle" /\ actor'["plain"].id = NoStop
      /\ \A b \in Actors : b # "plain" => actor'[b] = actor[b]
      /\ \A j \in Stops, h \in Links :
           \/ resend'[j][h] = resend[j][h]
           \/ /\ j = actor["plain"].id /\ h = linkGen /\ linkUp
              /\ resend[j][h].stage = "idle" /\ resend'[j][h].stage = "loop"
      /\ linkUp => resend'[actor["plain"].id][linkGen].stage # "idle"
      /\ UNCHANGED <<record, placed, lapsed, next, queued, settled, inGrace, graceTask, linkUp,
                     linkGen, legacy, overs, faults, restarts>>
  <2>1. actor["plain"].stage = "looking" /\ actor["plain"].id \in Stops
    BY <1>i, <1>a, <1>s DEF RequestLooks, FreshIds
  <2>2. /\ actor'["plain"].stage = "idle" /\ actor'["plain"].id = NoStop
        /\ \A b \in Actors : b # "plain" => actor'[b] = actor[b]
    BY <1>i, <1>a DEF RequestLooks, Act, Idle, Doing, FinalTypeOK
  <2> QED
    BY <1>i, <2>1, <2>2, SpawnedIs DEF RequestLooks, stopStore, stopLink, stopCounts
<1>n. NothingEnded' => /\ NothingEnded /\ settled = {} /\ lapsed = {} /\ settled' = {}
                         /\ lapsed' = {} /\ faults' = faults
                         /\ \A j \in Stops, h \in Links : resend'[j][h].stage # "claiming"
  BY <1>i, <1>s, <1>e DEF NothingEnded, GraceOrder, OverOnce, AckIsOver, LoadIsOver
<1>1. BindOrder'
  BY <1>i, <1>a, <1>s, <1>e DEF BindOrder
<1>2. GraceOrder'
  BY <1>i, <1>a, <1>s, <1>e DEF GraceOrder
<1>3. OverOnce'
  BY <1>i, <1>a, <1>s, <1>e DEF OverOnce, LoadIsOver, AckIsOver
<1>4. FreshIds'
  BY <1>i, <1>a, <1>s, <1>e DEF FreshIds, GraceOrder
<1>5. PlacedFirst'
  BY <1>i, <1>a, <1>s, <1>e DEF PlacedFirst, BindOrder, FreshIds, GraceOrder
<1>6. RecordIsQueued'
  BY <1>i, <1>a, <1>s, <1>e, <1>n DEF RecordIsQueued, BindOrder, FreshIds, PlacedFirst, GraceOrder, OverOnce, AckIsOver, LoadIsOver
<1>7. QueuedIsResent'
  BY <1>i, <1>a, <1>s, <1>e, <1>n, QueuedIs, QueuedIsNext DEF QueuedIsResent, BindOrder, RecordIsQueued, FreshIds, GraceOrder
<1> QED
  BY <1>i, <1>e, <1>1, <1>2, <1>3, <1>4, <1>5, <1>6, <1>7, SettlesOnceFrame DEF FinalOrder

(* FinalStop: the request reads whether the agent is placed.               *)
LEMMA FinalStopInv ==
    ASSUME FinalInv, FinalTypeOK', FinalStop
    PROVE  FinalOrder'
<1>i. /\ FinalTypeOK /\ BindOrder /\ GraceOrder /\ OverOnce /\ FreshIds
      /\ PlacedFirst /\ RecordIsQueued /\ SettlesOnce /\ QueuedIsResent
  BY DEF FinalInv, FinalOrder
<1>a. /\ "request" \in Actors /\ "claim" \in Actors /\ "dial" \in Actors /\ "timer" \in Actors
      /\ "dial" \in Loads /\ "timer" \in Loads /\ NoStop \notin Stops
      /\ "request" \notin Loads /\ "claim" \notin Loads
      /\ "plain" \in Actors /\ "plain" \notin Loads
  BY DEF Actors, Loads, NoStop, Stops
<1>s. /\ NoStop = 0 /\ next \in Nat /\ next > 0 /\ (\A n \in Stops : n \in Nat /\ n > 0)
      /\ record \in Stops \cup {NoStop} /\ queued.id \in Stops \cup {NoStop}
      /\ (\A b \in Actors : actor[b].id \in Stops \cup {NoStop})
      /\ settled \subseteq Stops /\ lapsed \subseteq Stops /\ faults \in Nat
  BY <1>i, Shapes
<1>e. /\ actor["request"].stage = "idle" /\ actor["request"].id = NoStop
      /\ actor'["request"].stage = "recording" /\ actor'["request"].id = NoStop
      /\ \A b \in Actors : b # "request" => actor'[b] = actor[b]
      /\ \/ actor'["request"].durable = placed /\ faults' = faults
         \/ faults' = faults + 1
      /\ UNCHANGED <<record, next, placed, lapsed, queued, settled, inGrace, graceTask, linkUp,
                     linkGen, legacy, resend, overs, restarts>>
  BY <1>i, <1>a, <1>s DEF FinalStop, Act, Doing, Idle, Fault, FinalTypeOK, stopStore, stopLink, stopCounts
<1>n. NothingEnded' => /\ NothingEnded /\ settled = {} /\ lapsed = {} /\ settled' = {}
                         /\ lapsed' = {} /\ faults' = faults
                         /\ \A j \in Stops, h \in Links : resend'[j][h].stage # "claiming"
  BY <1>i, <1>s, <1>e DEF NothingEnded, GraceOrder, OverOnce, AckIsOver, LoadIsOver
<1>1. BindOrder'
  BY <1>i, <1>a, <1>s, <1>e DEF BindOrder
<1>2. GraceOrder'
  BY <1>i, <1>a, <1>s, <1>e DEF GraceOrder
<1>3. OverOnce'
  BY <1>i, <1>a, <1>s, <1>e DEF OverOnce, LoadIsOver, AckIsOver
<1>4. FreshIds'
  BY <1>i, <1>a, <1>s, <1>e DEF FreshIds, GraceOrder
<1>5. PlacedFirst'
  BY <1>i, <1>a, <1>s, <1>e DEF PlacedFirst, BindOrder, FreshIds, GraceOrder
<1>6. RecordIsQueued'
  BY <1>i, <1>a, <1>s, <1>e, <1>n DEF RecordIsQueued, BindOrder, FreshIds, PlacedFirst, GraceOrder, OverOnce, AckIsOver, LoadIsOver
<1>7. QueuedIsResent'
  BY <1>i, <1>a, <1>s, <1>e, <1>n, QueuedIs, QueuedIsNext DEF QueuedIsResent, BindOrder, RecordIsQueued, FreshIds, GraceOrder
<1> QED
  BY <1>i, <1>e, <1>1, <1>2, <1>3, <1>4, <1>5, <1>6, <1>7, SettlesOnceFrame DEF FinalOrder

(* FinalRecorded: the stop is recorded, or held in memory.                 *)
LEMMA FinalRecordedInv ==
    ASSUME FinalInv, FinalTypeOK', FinalRecorded
    PROVE  FinalOrder'
<1>i. /\ FinalTypeOK /\ BindOrder /\ GraceOrder /\ OverOnce /\ FreshIds
      /\ PlacedFirst /\ RecordIsQueued /\ SettlesOnce /\ QueuedIsResent
  BY DEF FinalInv, FinalOrder
<1>a. /\ "request" \in Actors /\ "claim" \in Actors /\ "dial" \in Actors /\ "timer" \in Actors
      /\ "dial" \in Loads /\ "timer" \in Loads /\ NoStop \notin Stops
      /\ "request" \notin Loads /\ "claim" \notin Loads
      /\ "plain" \in Actors /\ "plain" \notin Loads
  BY DEF Actors, Loads, NoStop, Stops
<1>s. /\ NoStop = 0 /\ next \in Nat /\ next > 0 /\ (\A n \in Stops : n \in Nat /\ n > 0)
      /\ record \in Stops \cup {NoStop} /\ queued.id \in Stops \cup {NoStop}
      /\ (\A b \in Actors : actor[b].id \in Stops \cup {NoStop})
      /\ settled \subseteq Stops /\ lapsed \subseteq Stops /\ faults \in Nat
  BY <1>i, Shapes
<1>e. /\ actor["request"].stage = "recording"
      /\ actor'["request"].stage = "queuing" /\ \A b \in Actors : b # "request" => actor'[b] = actor[b]
      /\ \/ /\ actor["request"].durable /\ record # NoStop /\ actor'["request"].id = record
            /\ actor'["request"].durable = TRUE /\ record' = record /\ next' = next /\ faults' = faults
         \/ /\ actor["request"].durable /\ record = NoStop /\ next \in Stops /\ actor'["request"].id = next
            /\ actor'["request"].durable = TRUE /\ record' = next /\ next' = next + 1 /\ faults' = faults
         \/ /\ next \in Stops /\ actor'["request"].id = next /\ actor'["request"].durable = FALSE
            /\ record' = record /\ next' = next + 1
            /\ (~actor["request"].durable /\ faults' = faults) \/ faults' = faults + 1
      /\ UNCHANGED <<placed, lapsed, queued, settled, inGrace, graceTask, linkUp,
                     linkGen, legacy, resend, overs, restarts>>
  BY <1>i, <1>a, <1>s DEF FinalRecorded, Act, Doing, Idle, Fault, FinalTypeOK, stopStore, stopLink, stopCounts
<1>n. NothingEnded' => /\ NothingEnded /\ settled = {} /\ lapsed = {} /\ settled' = {}
                         /\ lapsed' = {} /\ faults' = faults
                         /\ \A j \in Stops, h \in Links : resend'[j][h].stage # "claiming"
  BY <1>i, <1>s, <1>e DEF NothingEnded, GraceOrder, OverOnce, AckIsOver, LoadIsOver
<1>1. BindOrder'
  BY <1>i, <1>a, <1>s, <1>e DEF BindOrder
<1>2. GraceOrder'
  BY <1>i, <1>a, <1>s, <1>e DEF GraceOrder
<1>3. OverOnce'
  BY <1>i, <1>a, <1>s, <1>e DEF OverOnce, LoadIsOver, AckIsOver
<1>4. FreshIds'
  BY <1>i, <1>a, <1>s, <1>e DEF FreshIds, GraceOrder
<1>5. PlacedFirst'
  BY <1>i, <1>a, <1>s, <1>e DEF PlacedFirst, BindOrder, FreshIds, GraceOrder
<1>6. RecordIsQueued'
  <2> SUFFICES ASSUME NothingEnded' PROVE RecordIsQueued'
    BY DEF RecordIsQueued
  <2>1. \A b \in Actors : actor'[b].stage \in {"listed", "queuing", "beginning"} =>
          IF actor'[b].durable THEN actor'[b].id = record' ELSE ~placed' /\ b \notin Loads
    BY <1>i, <1>a, <1>s, <1>e, <1>n DEF RecordIsQueued, FreshIds, GraceOrder, PlacedFirst, OverOnce, LoadIsOver
  <2>5. actor'["request"].stage = "recording" => actor'["request"].durable \/ ~placed'
    BY <1>i, <1>a, <1>s, <1>e, <1>n DEF RecordIsQueued, GraceOrder
  <2>2. actor'["claim"].stage = "reading" =>
          actor'["claim"].durable = placed' /\ actor'["claim"].id \in {NoStop, record'}
    BY <1>i, <1>a, <1>s, <1>e, <1>n DEF RecordIsQueued, GraceOrder
  <2>3. \A j \in Stops, h \in Links : resend'[j][h].stage = "confirm" => j # record'
    BY <1>i, <1>a, <1>s, <1>e, <1>n DEF RecordIsQueued, FreshIds, GraceOrder, OverOnce, AckIsOver
  <2>4. record' # NoStop /\ (linkUp' \/ actor'["dial"].stage \in {"beginning", "loaded"}) =>
          \/ queued'.id = record'
          \/ \E b \in {"request", "claim"} : actor'[b].stage = "queuing" /\ actor'[b].id = record'
    BY <1>i, <1>a, <1>s, <1>e, <1>n DEF RecordIsQueued, BindOrder, FreshIds, PlacedFirst, GraceOrder, OverOnce, LoadIsOver
  <2> QED
    BY <2>1, <2>2, <2>3, <2>4, <2>5 DEF RecordIsQueued
<1>7. QueuedIsResent'
  BY <1>i, <1>a, <1>s, <1>e, <1>n, QueuedIs, QueuedIsNext DEF QueuedIsResent, BindOrder, RecordIsQueued, FreshIds, GraceOrder
<1> QED
  BY <1>i, <1>e, <1>1, <1>2, <1>3, <1>4, <1>5, <1>6, <1>7, SettlesOnceFrame DEF FinalOrder

(* RequestDropped: the caller goes away, which is a fault.                 *)
LEMMA RequestDroppedInv ==
    ASSUME FinalInv, FinalTypeOK', RequestDropped
    PROVE  FinalOrder'
<1>i. /\ FinalTypeOK /\ BindOrder /\ GraceOrder /\ OverOnce /\ FreshIds
      /\ PlacedFirst /\ RecordIsQueued /\ SettlesOnce /\ QueuedIsResent
  BY DEF FinalInv, FinalOrder
<1>a. /\ "request" \in Actors /\ "claim" \in Actors /\ "dial" \in Actors /\ "timer" \in Actors
      /\ "dial" \in Loads /\ "timer" \in Loads /\ NoStop \notin Stops
      /\ "request" \notin Loads /\ "claim" \notin Loads
      /\ "plain" \in Actors /\ "plain" \notin Loads
  BY DEF Actors, Loads, NoStop, Stops
<1>s. /\ NoStop = 0 /\ next \in Nat /\ next > 0 /\ (\A n \in Stops : n \in Nat /\ n > 0)
      /\ record \in Stops \cup {NoStop} /\ queued.id \in Stops \cup {NoStop}
      /\ (\A b \in Actors : actor[b].id \in Stops \cup {NoStop})
      /\ settled \subseteq Stops /\ lapsed \subseteq Stops /\ faults \in Nat
  BY <1>i, Shapes
<1>e. /\ faults' = faults + 1
      /\ actor'["request"].stage = "idle" /\ actor'["request"].id = NoStop /\ actor'["request"].durable = FALSE
      /\ \A b \in Actors : b # "request" => actor'[b] = actor[b]
      /\ UNCHANGED <<record, placed, lapsed, next, queued, settled, inGrace, graceTask,
                     linkUp, linkGen, legacy, resend, overs, restarts>>
  BY <1>i, <1>a, <1>s DEF RequestDropped, Act, Doing, Idle, Fault, FinalTypeOK, stopStore, stopLink, stopCounts
<1>n. NothingEnded' => /\ NothingEnded /\ settled = {} /\ lapsed = {} /\ settled' = {}
                         /\ lapsed' = {} /\ faults' = faults
                         /\ \A j \in Stops, h \in Links : resend'[j][h].stage # "claiming"
  BY <1>i, <1>s, <1>e DEF NothingEnded, GraceOrder, OverOnce, AckIsOver, LoadIsOver
<1>1. BindOrder'
  BY <1>i, <1>a, <1>s, <1>e DEF BindOrder
<1>2. GraceOrder'
  BY <1>i, <1>a, <1>s, <1>e DEF GraceOrder
<1>3. OverOnce'
  BY <1>i, <1>a, <1>s, <1>e DEF OverOnce, LoadIsOver, AckIsOver
<1>4. FreshIds'
  BY <1>i, <1>a, <1>s, <1>e DEF FreshIds, GraceOrder
<1>5. PlacedFirst'
  BY <1>i, <1>a, <1>s, <1>e DEF PlacedFirst, BindOrder, FreshIds, GraceOrder
<1>6. RecordIsQueued'
  BY <1>i, <1>a, <1>s, <1>e, <1>n DEF RecordIsQueued, BindOrder, FreshIds, PlacedFirst, GraceOrder, OverOnce, AckIsOver, LoadIsOver
<1>7. QueuedIsResent'
  BY <1>i, <1>a, <1>s, <1>e, <1>n, QueuedIs, QueuedIsNext DEF QueuedIsResent, BindOrder, RecordIsQueued, FreshIds, GraceOrder
<1> QED
  BY <1>i, <1>e, <1>1, <1>2, <1>3, <1>4, <1>5, <1>6, <1>7, SettlesOnceFrame DEF FinalOrder

(* QueueFinal: only a claim queues a stop that was settled.                *)
LEMMA QueueFinalInv ==
    ASSUME FinalInv, FinalTypeOK', NEW a \in Actors, QueueFinal(a)
    PROVE  FinalOrder'
<1>i. /\ FinalTypeOK /\ BindOrder /\ GraceOrder /\ OverOnce /\ FreshIds
      /\ PlacedFirst /\ RecordIsQueued /\ SettlesOnce /\ QueuedIsResent
  BY DEF FinalInv, FinalOrder
<1>a. /\ "request" \in Actors /\ "claim" \in Actors /\ "dial" \in Actors /\ "timer" \in Actors
      /\ "dial" \in Loads /\ "timer" \in Loads /\ NoStop \notin Stops
      /\ "request" \notin Loads /\ "claim" \notin Loads
      /\ "plain" \in Actors /\ "plain" \notin Loads
  BY DEF Actors, Loads, NoStop, Stops
<1>s. /\ NoStop = 0 /\ next \in Nat /\ next > 0 /\ (\A n \in Stops : n \in Nat /\ n > 0)
      /\ record \in Stops \cup {NoStop} /\ queued.id \in Stops \cup {NoStop}
      /\ (\A b \in Actors : actor[b].id \in Stops \cup {NoStop})
      /\ settled \subseteq Stops /\ lapsed \subseteq Stops /\ faults \in Nat
  BY <1>i, Shapes
<1>e. /\ actor[a].stage = "queuing" /\ \A b \in Actors : b # a => actor'[b] = actor[b]
      /\ \/ /\ actor[a].id \in settled /\ queued' = queued /\ actor'[a].id = NoStop
            /\ actor'[a].stage = (IF a = "dial" THEN "loaded" ELSE "idle")
         \/ /\ actor[a].id \in settled /\ a = "claim" /\ actor'[a].id = NoStop /\ actor'[a].stage = "idle"
            /\ queued'.id = actor[a].id /\ queued'.final = TRUE
         \/ /\ actor[a].id \notin settled /\ queued'.id = actor[a].id /\ queued'.final = TRUE
            /\ actor'[a].stage = "beginning" /\ actor'[a].id = actor[a].id
            /\ actor'[a].durable = actor[a].durable
      /\ UNCHANGED <<record, placed, lapsed, next, settled, inGrace, graceTask, linkUp,
                     linkGen, legacy, resend, overs, faults, restarts>>
  BY <1>i, <1>a, <1>s DEF QueueFinal, Act, Through, Doing, Idle, Queued, FinalTypeOK, stopStore, stopLink, stopCounts
<1>n. NothingEnded' => /\ NothingEnded /\ settled = {} /\ lapsed = {} /\ settled' = {}
                         /\ lapsed' = {} /\ faults' = faults
                         /\ \A j \in Stops, h \in Links : resend'[j][h].stage # "claiming"
  BY <1>i, <1>s, <1>e DEF NothingEnded, GraceOrder, OverOnce, AckIsOver, LoadIsOver
<1>1. BindOrder'
  BY <1>i, <1>a, <1>s, <1>e DEF BindOrder
<1>2. GraceOrder'
  BY <1>i, <1>a, <1>s, <1>e DEF GraceOrder
<1>3. OverOnce'
  BY <1>i, <1>a, <1>s, <1>e DEF OverOnce, LoadIsOver, AckIsOver
<1>4. FreshIds'
  BY <1>i, <1>a, <1>s, <1>e DEF FreshIds, GraceOrder
<1>5. PlacedFirst'
  BY <1>i, <1>a, <1>s, <1>e DEF PlacedFirst, BindOrder, FreshIds, GraceOrder
<1>6. RecordIsQueued'
  <2> SUFFICES ASSUME NothingEnded' PROVE RecordIsQueued'
    BY DEF RecordIsQueued
  <2>1. \A b \in Actors : actor'[b].stage \in {"listed", "queuing", "beginning"} =>
          IF actor'[b].durable THEN actor'[b].id = record' ELSE ~placed' /\ b \notin Loads
    BY <1>i, <1>a, <1>s, <1>e, <1>n DEF RecordIsQueued, FreshIds, GraceOrder, PlacedFirst, OverOnce, LoadIsOver
  <2>5. actor'["request"].stage = "recording" => actor'["request"].durable \/ ~placed'
    BY <1>i, <1>a, <1>s, <1>e, <1>n DEF RecordIsQueued, GraceOrder
  <2>2. actor'["claim"].stage = "reading" =>
          actor'["claim"].durable = placed' /\ actor'["claim"].id \in {NoStop, record'}
    BY <1>i, <1>a, <1>s, <1>e, <1>n DEF RecordIsQueued, GraceOrder
  <2>3. \A j \in Stops, h \in Links : resend'[j][h].stage = "confirm" => j # record'
    BY <1>i, <1>a, <1>s, <1>e, <1>n DEF RecordIsQueued, FreshIds, GraceOrder, OverOnce, AckIsOver
  <2>4. record' # NoStop /\ (linkUp' \/ actor'["dial"].stage \in {"beginning", "loaded"}) =>
          \/ queued'.id = record'
          \/ \E b \in {"request", "claim"} : actor'[b].stage = "queuing" /\ actor'[b].id = record'
    <3>1. NothingEnded /\ settled = {}
      BY <1>n
    <3>2. record # NoStop => placed
      BY <3>1 DEF NothingEnded
    <3>3. IF actor[a].durable THEN actor[a].id = record ELSE ~placed
      BY <1>i, <1>e, <3>1 DEF RecordIsQueued
    <3>4. record # NoStop => queued'.id = record
      BY <1>e, <3>1, <3>2, <3>3
    <3> QED
      BY <1>e, <3>4
  <2> QED
    BY <2>1, <2>2, <2>3, <2>4, <2>5 DEF RecordIsQueued
<1>7. QueuedIsResent'
  <2> SUFFICES ASSUME NothingEnded', linkUp, queued'.id # NoStop PROVE QueuedIsResent'
    BY <1>e, QueuedIsNext DEF QueuedIsResent
  <2>1. NothingEnded /\ settled = {} /\ actor[a].id # NoStop
    BY <1>i, <1>n, <1>e DEF FreshIds
  <2>2. queued'.id = actor[a].id /\ actor'[a].id = actor[a].id /\ a \notin {"dial", "claim", "plain"}
    BY <1>i, <1>a, <1>e, <2>1 DEF BindOrder, FreshIds
  <2>3. CASE a = "request"
    BY <1>e, <2>2, <2>3 DEF QueuedIsResent
  <2>4. CASE a = "timer"
    <3>1. actor[a].id = record /\ record # NoStop
      BY <1>i, <1>a, <1>e, <2>1, <2>4 DEF RecordIsQueued
    <3>2. queued.id = record \/ actor["request"].id = record
      BY <1>i, <1>a, <2>1, <3>1 DEF RecordIsQueued, BindOrder
    <3>3. queued.id = record => \/ resend[record][linkGen].stage # "idle"
                               \/ actor["claim"].stage = "publishing"
                               \/ \E b \in {"request", "plain"} : actor[b].id = record
      BY <1>i, <2>1, <3>1, QueuedIs DEF QueuedIsResent
    <3> QED
      BY <1>a, <1>e, <2>2, <2>4, <3>1, <3>2, <3>3 DEF QueuedIsResent
  <2> QED
    BY <2>2, <2>3, <2>4 DEF Actors, Loads
<1> QED
  BY <1>i, <1>e, <1>1, <1>2, <1>3, <1>4, <1>5, <1>6, <1>7, SettlesOnceFrame DEF FinalOrder

(* Begin: a request starts its resender.                                   *)
LEMMA BeginInv ==
    ASSUME FinalInv, FinalTypeOK', NEW a \in Actors, Begin(a)
    PROVE  FinalOrder'
<1>i. /\ FinalTypeOK /\ BindOrder /\ GraceOrder /\ OverOnce /\ FreshIds
      /\ PlacedFirst /\ RecordIsQueued /\ SettlesOnce /\ QueuedIsResent
  BY DEF FinalInv, FinalOrder
<1>a. /\ "request" \in Actors /\ "claim" \in Actors /\ "dial" \in Actors /\ "timer" \in Actors
      /\ "dial" \in Loads /\ "timer" \in Loads /\ NoStop \notin Stops
      /\ "request" \notin Loads /\ "claim" \notin Loads
      /\ "plain" \in Actors /\ "plain" \notin Loads
  BY DEF Actors, Loads, NoStop, Stops
<1>s. /\ NoStop = 0 /\ next \in Nat /\ next > 0 /\ (\A n \in Stops : n \in Nat /\ n > 0)
      /\ record \in Stops \cup {NoStop} /\ queued.id \in Stops \cup {NoStop}
      /\ (\A b \in Actors : actor[b].id \in Stops \cup {NoStop})
      /\ settled \subseteq Stops /\ lapsed \subseteq Stops /\ faults \in Nat
  BY <1>i, Shapes
<1>e. /\ actor[a].stage = "beginning" /\ \A b \in Actors : b # a => actor'[b] = actor[b]
      /\ actor'[a].id = NoStop /\ actor'[a].stage = (IF a = "dial" THEN "loaded" ELSE "idle")
      /\ a # "request" => resend' = resend
      /\ \A j \in Stops, h \in Links :
           \/ resend'[j][h] = resend[j][h]
           \/ /\ j = actor[a].id /\ h = linkGen /\ linkUp
              /\ resend[j][h].stage = "idle" /\ resend'[j][h].stage = "loop"
      /\ a = "request" /\ linkUp => resend'[actor[a].id][linkGen].stage # "idle"
      /\ UNCHANGED <<record, placed, lapsed, next, queued, settled, inGrace, graceTask,
                     linkUp, linkGen, legacy, overs, faults, restarts>>
  <2>1. actor[a].stage = "beginning" /\ actor[a].id \in Stops
    BY <1>i DEF Begin, FreshIds, FinalTypeOK
  <2>2. CASE a = "request"
    <3>1. resend' = Spawned(actor[a].id)
      BY <2>2 DEF Begin
    <3> QED
      BY <1>i, <2>1, <2>2, <3>1, SpawnedIs DEF Begin, Act, Through, Doing, Idle, FinalTypeOK, stopStore, stopLink, stopCounts
  <2>3. CASE a # "request"
    BY <1>i, <2>1, <2>3 DEF Begin, Act, Through, Doing, Idle, FinalTypeOK, stopStore, stopLink, stopCounts
  <2> QED
    BY <2>2, <2>3
<1>n. NothingEnded' => /\ NothingEnded /\ settled = {} /\ lapsed = {} /\ settled' = {}
                         /\ lapsed' = {} /\ faults' = faults
                         /\ \A j \in Stops, h \in Links : resend'[j][h].stage # "claiming"
  BY <1>i, <1>s, <1>e DEF NothingEnded, GraceOrder, OverOnce, AckIsOver, LoadIsOver
<1>1. BindOrder'
  BY <1>i, <1>a, <1>s, <1>e DEF BindOrder
<1>2. GraceOrder'
  BY <1>i, <1>a, <1>s, <1>e DEF GraceOrder
<1>3. OverOnce'
  BY <1>i, <1>a, <1>s, <1>e DEF OverOnce, LoadIsOver, AckIsOver
<1>4. FreshIds'
  BY <1>i, <1>a, <1>s, <1>e DEF FreshIds, GraceOrder
<1>5. PlacedFirst'
  BY <1>i, <1>a, <1>s, <1>e DEF PlacedFirst, BindOrder, FreshIds, GraceOrder
<1>6. RecordIsQueued'
  <2> SUFFICES ASSUME NothingEnded' PROVE RecordIsQueued'
    BY DEF RecordIsQueued
  <2>1. \A b \in Actors : actor'[b].stage \in {"listed", "queuing", "beginning"} =>
          IF actor'[b].durable THEN actor'[b].id = record' ELSE ~placed' /\ b \notin Loads
    BY <1>i, <1>a, <1>s, <1>e, <1>n DEF RecordIsQueued, FreshIds, GraceOrder, PlacedFirst, OverOnce, LoadIsOver
  <2>5. actor'["request"].stage = "recording" => actor'["request"].durable \/ ~placed'
    BY <1>i, <1>a, <1>s, <1>e, <1>n DEF RecordIsQueued, GraceOrder
  <2>2. actor'["claim"].stage = "reading" =>
          actor'["claim"].durable = placed' /\ actor'["claim"].id \in {NoStop, record'}
    BY <1>i, <1>a, <1>s, <1>e, <1>n DEF RecordIsQueued, GraceOrder
  <2>3. \A j \in Stops, h \in Links : resend'[j][h].stage = "confirm" => j # record'
    BY <1>i, <1>a, <1>s, <1>e, <1>n DEF RecordIsQueued, FreshIds, GraceOrder, OverOnce, AckIsOver
  <2>4. record' # NoStop /\ (linkUp' \/ actor'["dial"].stage \in {"beginning", "loaded"}) =>
          \/ queued'.id = record'
          \/ \E b \in {"request", "claim"} : actor'[b].stage = "queuing" /\ actor'[b].id = record'
    BY <1>i, <1>a, <1>s, <1>e, <1>n DEF RecordIsQueued, BindOrder, FreshIds, PlacedFirst, GraceOrder, OverOnce, LoadIsOver
  <2> QED
    BY <2>1, <2>2, <2>3, <2>4, <2>5 DEF RecordIsQueued
<1>7. QueuedIsResent'
  BY <1>i, <1>a, <1>s, <1>e, <1>n, QueuedIs, QueuedIsNext DEF QueuedIsResent, BindOrder, RecordIsQueued, FreshIds, GraceOrder
<1> QED
  BY <1>i, <1>e, <1>1, <1>2, <1>3, <1>4, <1>5, <1>6, <1>7, SettlesOnceFrame DEF FinalOrder

(* LoadList: a load has what is recorded.                                  *)
LEMMA LoadListInv ==
    ASSUME FinalInv, FinalTypeOK', NEW a \in Loads, LoadList(a)
    PROVE  FinalOrder'
<1>i. /\ FinalTypeOK /\ BindOrder /\ GraceOrder /\ OverOnce /\ FreshIds
      /\ PlacedFirst /\ RecordIsQueued /\ SettlesOnce /\ QueuedIsResent
  BY DEF FinalInv, FinalOrder
<1>a. /\ "request" \in Actors /\ "claim" \in Actors /\ "dial" \in Actors /\ "timer" \in Actors
      /\ "dial" \in Loads /\ "timer" \in Loads /\ NoStop \notin Stops
      /\ "request" \notin Loads /\ "claim" \notin Loads
      /\ "plain" \in Actors /\ "plain" \notin Loads
  BY DEF Actors, Loads, NoStop, Stops
<1>l. a \in Actors /\ a # "claim" /\ a # "request"
  BY DEF Actors, Loads
<1>s. /\ NoStop = 0 /\ next \in Nat /\ next > 0 /\ (\A n \in Stops : n \in Nat /\ n > 0)
      /\ record \in Stops \cup {NoStop} /\ queued.id \in Stops \cup {NoStop}
      /\ (\A b \in Actors : actor[b].id \in Stops \cup {NoStop})
      /\ settled \subseteq Stops /\ lapsed \subseteq Stops /\ faults \in Nat
  BY <1>i, Shapes
<1>e. /\ actor[a].stage = "idle" /\ (a = "dial" => ~linkUp)
      /\ \A b \in Actors : b # a => actor'[b] = actor[b]
      /\ \/ record = NoStop /\ actor'[a].id = NoStop /\ actor'[a].stage = (IF a = "dial" THEN "loaded" ELSE "idle")
         \/ /\ record # NoStop /\ actor'[a].stage = "listed" /\ actor'[a].id = record
            /\ actor'[a].durable = TRUE
      /\ UNCHANGED <<record, placed, lapsed, next, queued, settled, inGrace, graceTask,
                     linkUp, linkGen, legacy, resend, overs, faults, restarts>>
  BY <1>i, <1>l, <1>a, <1>s DEF LoadList, Act, Through, Doing, Idle, FinalTypeOK, stopStore, stopLink, stopCounts
<1>n. NothingEnded' => /\ NothingEnded /\ settled = {} /\ lapsed = {} /\ settled' = {}
                         /\ lapsed' = {} /\ faults' = faults
                         /\ \A j \in Stops, h \in Links : resend'[j][h].stage # "claiming"
  BY <1>i, <1>s, <1>e, <1>l DEF NothingEnded, GraceOrder, OverOnce, AckIsOver, LoadIsOver
<1>1. BindOrder'
  BY <1>i, <1>a, <1>s, <1>e, <1>l DEF BindOrder
<1>2. GraceOrder'
  BY <1>i, <1>a, <1>s, <1>e, <1>l DEF GraceOrder
<1>3. OverOnce'
  BY <1>i, <1>a, <1>s, <1>e, <1>l DEF OverOnce, LoadIsOver, AckIsOver
<1>4. FreshIds'
  BY <1>i, <1>a, <1>s, <1>e, <1>l DEF FreshIds, GraceOrder
<1>5. PlacedFirst'
  BY <1>i, <1>a, <1>s, <1>e, <1>l DEF PlacedFirst, BindOrder, FreshIds, GraceOrder
<1>6. RecordIsQueued'
  BY <1>i, <1>a, <1>s, <1>e, <1>l, <1>n DEF RecordIsQueued, BindOrder, FreshIds, PlacedFirst, GraceOrder, OverOnce, AckIsOver, LoadIsOver
<1>7. QueuedIsResent'
  BY <1>i, <1>a, <1>s, <1>e, <1>l, <1>n, QueuedIs, QueuedIsNext DEF QueuedIsResent, BindOrder, RecordIsQueued, FreshIds, GraceOrder
<1> QED
  BY <1>i, <1>e, <1>1, <1>2, <1>3, <1>4, <1>5, <1>6, <1>7, SettlesOnceFrame DEF FinalOrder

(* LoadFails: it could not read the records, which is a fault.             *)
LEMMA LoadFailsInv ==
    ASSUME FinalInv, FinalTypeOK', NEW a \in Loads, LoadFails(a)
    PROVE  FinalOrder'
<1>i. /\ FinalTypeOK /\ BindOrder /\ GraceOrder /\ OverOnce /\ FreshIds
      /\ PlacedFirst /\ RecordIsQueued /\ SettlesOnce /\ QueuedIsResent
  BY DEF FinalInv, FinalOrder
<1>a. /\ "request" \in Actors /\ "claim" \in Actors /\ "dial" \in Actors /\ "timer" \in Actors
      /\ "dial" \in Loads /\ "timer" \in Loads /\ NoStop \notin Stops
      /\ "request" \notin Loads /\ "claim" \notin Loads
      /\ "plain" \in Actors /\ "plain" \notin Loads
  BY DEF Actors, Loads, NoStop, Stops
<1>l. a \in Actors /\ a # "claim" /\ a # "request"
  BY DEF Actors, Loads
<1>s. /\ NoStop = 0 /\ next \in Nat /\ next > 0 /\ (\A n \in Stops : n \in Nat /\ n > 0)
      /\ record \in Stops \cup {NoStop} /\ queued.id \in Stops \cup {NoStop}
      /\ (\A b \in Actors : actor[b].id \in Stops \cup {NoStop})
      /\ settled \subseteq Stops /\ lapsed \subseteq Stops /\ faults \in Nat
  BY <1>i, Shapes
<1>e. /\ actor[a].stage = "idle" /\ (a = "dial" => ~linkUp)
      /\ \A b \in Actors : b # a => actor'[b] = actor[b]
      /\ actor'[a].id = NoStop /\ actor'[a].stage = (IF a = "dial" THEN "loaded" ELSE "idle")
      /\ faults' = faults + 1
      /\ UNCHANGED <<record, placed, lapsed, next, queued, settled, inGrace, graceTask,
                     linkUp, linkGen, legacy, resend, overs, restarts>>
  BY <1>i, <1>l, <1>a, <1>s DEF LoadFails, Act, Through, Doing, Idle, Fault, FinalTypeOK, stopStore, stopLink, stopCounts
<1>n. NothingEnded' => /\ NothingEnded /\ settled = {} /\ lapsed = {} /\ settled' = {}
                         /\ lapsed' = {} /\ faults' = faults
                         /\ \A j \in Stops, h \in Links : resend'[j][h].stage # "claiming"
  BY <1>i, <1>s, <1>e, <1>l DEF NothingEnded, GraceOrder, OverOnce, AckIsOver, LoadIsOver
<1>1. BindOrder'
  BY <1>i, <1>a, <1>s, <1>e, <1>l DEF BindOrder
<1>2. GraceOrder'
  BY <1>i, <1>a, <1>s, <1>e, <1>l DEF GraceOrder
<1>3. OverOnce'
  BY <1>i, <1>a, <1>s, <1>e, <1>l DEF OverOnce, LoadIsOver, AckIsOver
<1>4. FreshIds'
  BY <1>i, <1>a, <1>s, <1>e, <1>l DEF FreshIds, GraceOrder
<1>5. PlacedFirst'
  BY <1>i, <1>a, <1>s, <1>e, <1>l DEF PlacedFirst, BindOrder, FreshIds, GraceOrder
<1>6. RecordIsQueued'
  BY <1>i, <1>a, <1>s, <1>e, <1>l, <1>n DEF RecordIsQueued, BindOrder, FreshIds, PlacedFirst, GraceOrder, OverOnce, AckIsOver, LoadIsOver
<1>7. QueuedIsResent'
  BY <1>i, <1>a, <1>s, <1>e, <1>l, <1>n, QueuedIs, QueuedIsNext DEF QueuedIsResent, BindOrder, RecordIsQueued, FreshIds, GraceOrder
<1> QED
  BY <1>i, <1>e, <1>1, <1>2, <1>3, <1>4, <1>5, <1>6, <1>7, SettlesOnceFrame DEF FinalOrder

(* LoadLook: what it found decides what becomes of it.                     *)
LEMMA LoadLookInv ==
    ASSUME FinalInv, FinalTypeOK', NEW a \in Loads, LoadLook(a)
    PROVE  FinalOrder'
<1>i. /\ FinalTypeOK /\ BindOrder /\ GraceOrder /\ OverOnce /\ FreshIds
      /\ PlacedFirst /\ RecordIsQueued /\ SettlesOnce /\ QueuedIsResent
  BY DEF FinalInv, FinalOrder
<1>a. /\ "request" \in Actors /\ "claim" \in Actors /\ "dial" \in Actors /\ "timer" \in Actors
      /\ "dial" \in Loads /\ "timer" \in Loads /\ NoStop \notin Stops
      /\ "request" \notin Loads /\ "claim" \notin Loads
      /\ "plain" \in Actors /\ "plain" \notin Loads
  BY DEF Actors, Loads, NoStop, Stops
<1>l. a \in Actors /\ a # "claim" /\ a # "request"
  BY DEF Actors, Loads
<1>s. /\ NoStop = 0 /\ next \in Nat /\ next > 0 /\ (\A n \in Stops : n \in Nat /\ n > 0)
      /\ record \in Stops \cup {NoStop} /\ queued.id \in Stops \cup {NoStop}
      /\ (\A b \in Actors : actor[b].id \in Stops \cup {NoStop})
      /\ settled \subseteq Stops /\ lapsed \subseteq Stops /\ faults \in Nat
  BY <1>i, Shapes
<1>e. /\ actor[a].stage = "listed"
      /\ \A b \in Actors : b # a => actor'[b] = actor[b]
      /\ \/ actor[a].id \in settled /\ actor'[a].id = NoStop /\ actor'[a].stage = (IF a = "dial" THEN "loaded" ELSE "idle")
         \/ /\ actor'[a].id = actor[a].id /\ actor'[a].durable = TRUE
            /\ \/ actor'[a].stage = "dropping" /\ actor[a].id \in settled \ inGrace
               \/ actor'[a].stage = "expiring" /\ actor[a].id \in lapsed
               \/ actor'[a].stage = "queuing" /\ actor[a].id \notin lapsed
      /\ UNCHANGED <<record, placed, lapsed, next, queued, settled, inGrace, graceTask,
                     linkUp, linkGen, legacy, resend, overs, faults, restarts>>
  <2>1. actor[a].stage = "listed" /\ actor[a].id \in Stops
    BY <1>i, <1>l DEF LoadLook, FreshIds, FinalTypeOK
  <2>2. inGrace \subseteq settled
    BY <1>i DEF GraceOrder
  <2> QED
    BY <1>i, <1>l, <2>1, <2>2 DEF LoadLook, Act, Through, Doing, Idle, FinalTypeOK, stopStore, stopLink, stopCounts
<1>n. NothingEnded' => /\ NothingEnded /\ settled = {} /\ lapsed = {} /\ settled' = {}
                         /\ lapsed' = {} /\ faults' = faults
                         /\ \A j \in Stops, h \in Links : resend'[j][h].stage # "claiming"
  BY <1>i, <1>s, <1>e, <1>l DEF NothingEnded, GraceOrder, OverOnce, AckIsOver, LoadIsOver
<1>1. BindOrder'
  BY <1>i, <1>a, <1>s, <1>e, <1>l DEF BindOrder
<1>2. GraceOrder'
  BY <1>i, <1>a, <1>s, <1>e, <1>l DEF GraceOrder
<1>3. OverOnce'
  BY <1>i, <1>a, <1>s, <1>e, <1>l DEF OverOnce, LoadIsOver, AckIsOver
<1>4. FreshIds'
  BY <1>i, <1>a, <1>s, <1>e, <1>l DEF FreshIds, GraceOrder
<1>5. PlacedFirst'
  BY <1>i, <1>a, <1>s, <1>e, <1>l DEF PlacedFirst, BindOrder, FreshIds, GraceOrder
<1>6. RecordIsQueued'
  BY <1>i, <1>a, <1>s, <1>e, <1>l, <1>n DEF RecordIsQueued, BindOrder, FreshIds, PlacedFirst, GraceOrder, OverOnce, AckIsOver, LoadIsOver
<1>7. QueuedIsResent'
  BY <1>i, <1>a, <1>s, <1>e, <1>l, <1>n, QueuedIs, QueuedIsNext DEF QueuedIsResent, BindOrder, RecordIsQueued, FreshIds, GraceOrder
<1> QED
  BY <1>i, <1>e, <1>1, <1>2, <1>3, <1>4, <1>5, <1>6, <1>7, SettlesOnceFrame DEF FinalOrder

(* LoadDrops: the record of a settled stop goes.                           *)
LEMMA LoadDropsInv ==
    ASSUME FinalInv, FinalTypeOK', NEW a \in Loads, LoadDrops(a)
    PROVE  FinalOrder'
<1>i. /\ FinalTypeOK /\ BindOrder /\ GraceOrder /\ OverOnce /\ FreshIds
      /\ PlacedFirst /\ RecordIsQueued /\ SettlesOnce /\ QueuedIsResent
  BY DEF FinalInv, FinalOrder
<1>a. /\ "request" \in Actors /\ "claim" \in Actors /\ "dial" \in Actors /\ "timer" \in Actors
      /\ "dial" \in Loads /\ "timer" \in Loads /\ NoStop \notin Stops
      /\ "request" \notin Loads /\ "claim" \notin Loads
      /\ "plain" \in Actors /\ "plain" \notin Loads
  BY DEF Actors, Loads, NoStop, Stops
<1>l. a \in Actors /\ a # "claim" /\ a # "request"
  BY DEF Actors, Loads
<1>s. /\ NoStop = 0 /\ next \in Nat /\ next > 0 /\ (\A n \in Stops : n \in Nat /\ n > 0)
      /\ record \in Stops \cup {NoStop} /\ queued.id \in Stops \cup {NoStop}
      /\ (\A b \in Actors : actor[b].id \in Stops \cup {NoStop})
      /\ settled \subseteq Stops /\ lapsed \subseteq Stops /\ faults \in Nat
  BY <1>i, Shapes
<1>e. /\ actor[a].stage = "dropping"
      /\ \A b \in Actors : b # a => actor'[b] = actor[b]
      /\ actor'[a].id = NoStop /\ actor'[a].stage = (IF a = "dial" THEN "loaded" ELSE "idle")
      /\ \/ record = actor[a].id /\ record' = NoStop /\ faults' = faults
         \/ record' = record /\ placed' = placed /\ faults' \in {faults, faults + 1}
      /\ UNCHANGED <<lapsed, next, queued, settled, inGrace, graceTask, linkUp, linkGen,
                     legacy, resend, overs, restarts>>
  BY <1>i, <1>l, <1>a, <1>s DEF LoadDrops, Finish, Act, Through, Doing, Idle, Fault, FinalTypeOK, stopStore, stopLink, stopCounts
<1>n. NothingEnded' => /\ NothingEnded /\ settled = {} /\ lapsed = {} /\ settled' = {}
                         /\ lapsed' = {} /\ faults' = faults
                         /\ \A j \in Stops, h \in Links : resend'[j][h].stage # "claiming"
  BY <1>i, <1>s, <1>e, <1>l DEF NothingEnded, GraceOrder, OverOnce, AckIsOver, LoadIsOver
<1>1. BindOrder'
  BY <1>i, <1>a, <1>s, <1>e, <1>l DEF BindOrder
<1>2. GraceOrder'
  BY <1>i, <1>a, <1>s, <1>e, <1>l DEF GraceOrder
<1>3. OverOnce'
  BY <1>i, <1>a, <1>s, <1>e, <1>l DEF OverOnce, LoadIsOver, AckIsOver
<1>4. FreshIds'
  BY <1>i, <1>a, <1>s, <1>e, <1>l DEF FreshIds, GraceOrder
<1>5. PlacedFirst'
  BY <1>i, <1>a, <1>s, <1>e, <1>l DEF PlacedFirst, BindOrder, FreshIds, GraceOrder
<1>6. RecordIsQueued'
  BY <1>i, <1>a, <1>s, <1>e, <1>l, <1>n DEF RecordIsQueued, BindOrder, FreshIds, PlacedFirst, GraceOrder, OverOnce, AckIsOver, LoadIsOver
<1>7. QueuedIsResent'
  BY <1>i, <1>a, <1>s, <1>e, <1>l, <1>n, QueuedIs, QueuedIsNext DEF QueuedIsResent, BindOrder, RecordIsQueued, FreshIds, GraceOrder
<1> QED
  BY <1>i, <1>e, <1>1, <1>2, <1>3, <1>4, <1>5, <1>6, <1>7, SettlesOnceFrame DEF FinalOrder

(* LoadExpires: the record of an expired stop goes.                        *)
LEMMA LoadExpiresInv ==
    ASSUME FinalInv, FinalTypeOK', NEW a \in Loads, LoadExpires(a)
    PROVE  FinalOrder'
<1>i. /\ FinalTypeOK /\ BindOrder /\ GraceOrder /\ OverOnce /\ FreshIds
      /\ PlacedFirst /\ RecordIsQueued /\ SettlesOnce /\ QueuedIsResent
  BY DEF FinalInv, FinalOrder
<1>a. /\ "request" \in Actors /\ "claim" \in Actors /\ "dial" \in Actors /\ "timer" \in Actors
      /\ "dial" \in Loads /\ "timer" \in Loads /\ NoStop \notin Stops
      /\ "request" \notin Loads /\ "claim" \notin Loads
      /\ "plain" \in Actors /\ "plain" \notin Loads
  BY DEF Actors, Loads, NoStop, Stops
<1>l. a \in Actors /\ a # "claim" /\ a # "request"
  BY DEF Actors, Loads
<1>s. /\ NoStop = 0 /\ next \in Nat /\ next > 0 /\ (\A n \in Stops : n \in Nat /\ n > 0)
      /\ record \in Stops \cup {NoStop} /\ queued.id \in Stops \cup {NoStop}
      /\ (\A b \in Actors : actor[b].id \in Stops \cup {NoStop})
      /\ settled \subseteq Stops /\ lapsed \subseteq Stops /\ faults \in Nat
  BY <1>i, Shapes
<1>e. /\ actor[a].stage = "expiring"
      /\ \A b \in Actors : b # a => actor'[b] = actor[b]
      /\ \/ /\ record = actor[a].id /\ record' = NoStop /\ faults' = faults
            /\ actor'[a].stage = "claiming" /\ actor'[a].id = actor[a].id
         \/ /\ record' = record /\ placed' = placed /\ faults' \in {faults, faults + 1}
            /\ actor'[a].id = NoStop /\ actor'[a].stage = (IF a = "dial" THEN "loaded" ELSE "idle")
      /\ UNCHANGED <<lapsed, next, queued, settled, inGrace, graceTask, linkUp, linkGen,
                     legacy, resend, overs, restarts>>
  <2>1. actor[a].stage = "expiring" /\ \A b \in Actors : b # a => actor'[b] = actor[b]
    BY <1>i, <1>l DEF LoadExpires, Act, FinalTypeOK
  <2>2. \/ /\ record = actor[a].id /\ record' = NoStop /\ faults' = faults
           /\ actor'[a] = Doing("claiming", actor[a].id, TRUE)
        \/ /\ record' = record /\ placed' = placed /\ faults' \in {faults, faults + 1}
           /\ actor'[a] = Through(a)
    <3>1. CASE record = actor[a].id
      BY <1>i, <1>l, <3>1 DEF LoadExpires, Finish, Act, Fault, FinalTypeOK
    <3>2. CASE record # actor[a].id
      BY <1>i, <1>l, <3>2 DEF LoadExpires, Finish, Act, Fault, FinalTypeOK
    <3> QED
      BY <3>1, <3>2
  <2> QED
    BY <2>1, <2>2 DEF LoadExpires, Doing, Through, Idle, stopStore, stopLink, stopCounts
<1>n. NothingEnded' => /\ NothingEnded /\ settled = {} /\ lapsed = {} /\ settled' = {}
                         /\ lapsed' = {} /\ faults' = faults
                         /\ \A j \in Stops, h \in Links : resend'[j][h].stage # "claiming"
  BY <1>i, <1>s, <1>e, <1>l DEF NothingEnded, GraceOrder, OverOnce, AckIsOver, LoadIsOver
<1>1. BindOrder'
  BY <1>i, <1>a, <1>s, <1>e, <1>l DEF BindOrder
<1>2. GraceOrder'
  BY <1>i, <1>a, <1>s, <1>e, <1>l DEF GraceOrder
<1>3. OverOnce'
  BY <1>i, <1>a, <1>s, <1>e, <1>l DEF OverOnce, LoadIsOver, AckIsOver
<1>4. FreshIds'
  BY <1>i, <1>a, <1>s, <1>e, <1>l DEF FreshIds, GraceOrder
<1>5. PlacedFirst'
  BY <1>i, <1>a, <1>s, <1>e, <1>l DEF PlacedFirst, BindOrder, FreshIds, GraceOrder
<1>6. RecordIsQueued'
  BY <1>i, <1>a, <1>s, <1>e, <1>l, <1>n DEF RecordIsQueued, BindOrder, FreshIds, PlacedFirst, GraceOrder, OverOnce, AckIsOver, LoadIsOver
<1>7. QueuedIsResent'
  BY <1>i, <1>a, <1>s, <1>e, <1>l, <1>n, QueuedIs, QueuedIsNext DEF QueuedIsResent, BindOrder, RecordIsQueued, FreshIds, GraceOrder
<1> QED
  BY <1>i, <1>e, <1>1, <1>2, <1>3, <1>4, <1>5, <1>6, <1>7, SettlesOnceFrame DEF FinalOrder

(* LoadClaims: the first to claim its end says it is over.                 *)
LEMMA LoadClaimsInv ==
    ASSUME FinalInv, FinalTypeOK', NEW a \in Loads, LoadClaims(a)
    PROVE  FinalOrder'
<1>i. /\ FinalTypeOK /\ BindOrder /\ GraceOrder /\ OverOnce /\ FreshIds
      /\ PlacedFirst /\ RecordIsQueued /\ SettlesOnce /\ QueuedIsResent
  BY DEF FinalInv, FinalOrder
<1>a. /\ "request" \in Actors /\ "claim" \in Actors /\ "dial" \in Actors /\ "timer" \in Actors
      /\ "dial" \in Loads /\ "timer" \in Loads /\ NoStop \notin Stops
      /\ "request" \notin Loads /\ "claim" \notin Loads
      /\ "plain" \in Actors /\ "plain" \notin Loads
  BY DEF Actors, Loads, NoStop, Stops
<1>l. a \in Actors /\ a # "claim" /\ a # "request"
  BY DEF Actors, Loads
<1>s. /\ NoStop = 0 /\ next \in Nat /\ next > 0 /\ (\A n \in Stops : n \in Nat /\ n > 0)
      /\ record \in Stops \cup {NoStop} /\ queued.id \in Stops \cup {NoStop}
      /\ (\A b \in Actors : actor[b].id \in Stops \cup {NoStop})
      /\ settled \subseteq Stops /\ lapsed \subseteq Stops /\ faults \in Nat
  BY <1>i, Shapes
<1>e. /\ actor[a].stage = "claiming"
      /\ \A b \in Actors : b # a => actor'[b] = actor[b]
      /\ \/ actor[a].id \in settled /\ settled' = settled /\ queued' = queued /\ actor'[a].id = NoStop /\ actor'[a].stage = (IF a = "dial" THEN "loaded" ELSE "idle")
         \/ /\ actor[a].id \notin settled /\ settled' = settled \cup {actor[a].id}
            /\ queued' = queued \/ (queued'.id = NoStop /\ queued'.final = FALSE)
            /\ actor'[a].stage = "over" /\ actor'[a].id = actor[a].id
      /\ UNCHANGED <<record, placed, lapsed, next, inGrace, graceTask, linkUp, linkGen,
                     legacy, resend, overs, faults, restarts>>
  BY <1>i, <1>l, <1>a, <1>s DEF LoadClaims, NotQueued, Act, Through, Doing, Idle, FinalTypeOK, stopStore, stopLink, stopCounts
<1>n. NothingEnded' => /\ NothingEnded /\ settled = {} /\ lapsed = {} /\ settled' = {}
                         /\ lapsed' = {} /\ faults' = faults
                         /\ \A j \in Stops, h \in Links : resend'[j][h].stage # "claiming"
  BY <1>i, <1>s, <1>e, <1>l DEF NothingEnded, GraceOrder, OverOnce, AckIsOver, LoadIsOver
<1>1. BindOrder'
  BY <1>i, <1>a, <1>s, <1>e, <1>l DEF BindOrder
<1>2. GraceOrder'
  BY <1>i, <1>a, <1>s, <1>e, <1>l DEF GraceOrder
<1>3. OverOnce'
  BY <1>i, <1>a, <1>s, <1>e, <1>l DEF OverOnce, LoadIsOver, AckIsOver
<1>4. FreshIds'
  BY <1>i, <1>a, <1>s, <1>e, <1>l DEF FreshIds, GraceOrder
<1>5. PlacedFirst'
  BY <1>i, <1>a, <1>s, <1>e, <1>l DEF PlacedFirst, BindOrder, FreshIds, GraceOrder
<1>6. RecordIsQueued'
  BY <1>i, <1>a, <1>s, <1>e, <1>l, <1>n DEF RecordIsQueued, BindOrder, FreshIds, PlacedFirst, GraceOrder, OverOnce, AckIsOver, LoadIsOver
<1>7. QueuedIsResent'
  BY <1>i, <1>a, <1>s, <1>e, <1>l, <1>n, QueuedIs, QueuedIsNext DEF QueuedIsResent, BindOrder, RecordIsQueued, FreshIds, GraceOrder
<1> QED
  BY <1>i, <1>e, <1>1, <1>2, <1>3, <1>4, <1>5, <1>6, <1>7, SettlesOnceFrame DEF FinalOrder

(* LoadOver: it is over.                                                   *)
LEMMA LoadOverInv ==
    ASSUME FinalInv, FinalTypeOK', NEW a \in Loads, LoadOver(a)
    PROVE  FinalOrder'
<1>i. /\ FinalTypeOK /\ BindOrder /\ GraceOrder /\ OverOnce /\ FreshIds
      /\ PlacedFirst /\ RecordIsQueued /\ SettlesOnce /\ QueuedIsResent
  BY DEF FinalInv, FinalOrder
<1>a. /\ "request" \in Actors /\ "claim" \in Actors /\ "dial" \in Actors /\ "timer" \in Actors
      /\ "dial" \in Loads /\ "timer" \in Loads /\ NoStop \notin Stops
      /\ "request" \notin Loads /\ "claim" \notin Loads
      /\ "plain" \in Actors /\ "plain" \notin Loads
  BY DEF Actors, Loads, NoStop, Stops
<1>l. a \in Actors /\ a # "claim" /\ a # "request"
  BY DEF Actors, Loads
<1>s. /\ NoStop = 0 /\ next \in Nat /\ next > 0 /\ (\A n \in Stops : n \in Nat /\ n > 0)
      /\ record \in Stops \cup {NoStop} /\ queued.id \in Stops \cup {NoStop}
      /\ (\A b \in Actors : actor[b].id \in Stops \cup {NoStop})
      /\ settled \subseteq Stops /\ lapsed \subseteq Stops /\ faults \in Nat
  BY <1>i, Shapes
<1>e. /\ actor[a].stage = "over"
      /\ \A b \in Actors : b # a => actor'[b] = actor[b]
      /\ actor'[a].id = NoStop /\ actor'[a].stage = (IF a = "dial" THEN "loaded" ELSE "idle")
      /\ \A i \in Stops : overs'[i] = (IF i = actor[a].id THEN overs[i] + 1 ELSE overs[i])
      /\ UNCHANGED <<record, placed, lapsed, next, queued, settled, inGrace, graceTask,
                     linkUp, linkGen, legacy, resend, faults, restarts>>
  BY <1>i, <1>l, <1>a, <1>s DEF LoadOver, Over, Act, Through, Doing, Idle, FinalTypeOK, stopStore, stopLink, stopCounts
<1>n. NothingEnded' => /\ NothingEnded /\ settled = {} /\ lapsed = {} /\ settled' = {}
                         /\ lapsed' = {} /\ faults' = faults
                         /\ \A j \in Stops, h \in Links : resend'[j][h].stage # "claiming"
  BY <1>i, <1>s, <1>e, <1>l DEF NothingEnded, GraceOrder, OverOnce, AckIsOver, LoadIsOver
<1>1. BindOrder'
  BY <1>i, <1>a, <1>s, <1>e, <1>l DEF BindOrder
<1>2. GraceOrder'
  BY <1>i, <1>a, <1>s, <1>e, <1>l DEF GraceOrder
<1>3. OverOnce'
  BY <1>i, <1>a, <1>s, <1>e, <1>l DEF OverOnce, LoadIsOver, AckIsOver
<1>4. FreshIds'
  BY <1>i, <1>a, <1>s, <1>e, <1>l DEF FreshIds, GraceOrder
<1>5. PlacedFirst'
  BY <1>i, <1>a, <1>s, <1>e, <1>l DEF PlacedFirst, BindOrder, FreshIds, GraceOrder
<1>6. RecordIsQueued'
  <2> SUFFICES ASSUME NothingEnded' PROVE RecordIsQueued'
    BY DEF RecordIsQueued
  <2>1. \A b \in Actors : actor'[b].stage \in {"listed", "queuing", "beginning"} =>
          IF actor'[b].durable THEN actor'[b].id = record' ELSE ~placed' /\ b \notin Loads
    BY <1>i, <1>a, <1>s, <1>e, <1>l, <1>n DEF RecordIsQueued, FreshIds, GraceOrder, PlacedFirst, OverOnce, LoadIsOver
  <2>5. actor'["request"].stage = "recording" => actor'["request"].durable \/ ~placed'
    BY <1>i, <1>a, <1>s, <1>e, <1>n DEF RecordIsQueued, GraceOrder
  <2>2. actor'["claim"].stage = "reading" =>
          actor'["claim"].durable = placed' /\ actor'["claim"].id \in {NoStop, record'}
    BY <1>i, <1>a, <1>s, <1>e, <1>l, <1>n DEF RecordIsQueued, GraceOrder
  <2>3. \A j \in Stops, h \in Links : resend'[j][h].stage = "confirm" => j # record'
    BY <1>i, <1>a, <1>s, <1>e, <1>l, <1>n DEF RecordIsQueued, FreshIds, GraceOrder, OverOnce, AckIsOver
  <2>4. record' # NoStop /\ (linkUp' \/ actor'["dial"].stage \in {"beginning", "loaded"}) =>
          \/ queued'.id = record'
          \/ \E b \in {"request", "claim"} : actor'[b].stage = "queuing" /\ actor'[b].id = record'
    BY <1>i, <1>a, <1>s, <1>e, <1>l, <1>n DEF RecordIsQueued, BindOrder, FreshIds, PlacedFirst, GraceOrder, OverOnce, LoadIsOver
  <2> QED
    BY <2>1, <2>2, <2>3, <2>4, <2>5 DEF RecordIsQueued
<1>7. SettlesOnce'
  BY <1>i, <1>a, <1>s, <1>e, <1>l DEF SettlesOnce, OverOnce, LoadIsOver
<1>8. QueuedIsResent'
  BY <1>i, <1>a, <1>s, <1>e, <1>l, <1>n, QueuedIs, QueuedIsNext DEF QueuedIsResent, BindOrder, RecordIsQueued, FreshIds, GraceOrder
<1> QED
  BY <1>i, <1>e, <1>1, <1>2, <1>3, <1>4, <1>5, <1>6, <1>7, <1>8 DEF FinalOrder

(* Claim: it reads the store while no link is up.                          *)
LEMMA ClaimInv ==
    ASSUME FinalInv, FinalTypeOK', Claim
    PROVE  FinalOrder'
<1>i. /\ FinalTypeOK /\ BindOrder /\ GraceOrder /\ OverOnce /\ FreshIds
      /\ PlacedFirst /\ RecordIsQueued /\ SettlesOnce /\ QueuedIsResent
  BY DEF FinalInv, FinalOrder
<1>a. /\ "request" \in Actors /\ "claim" \in Actors /\ "dial" \in Actors /\ "timer" \in Actors
      /\ "dial" \in Loads /\ "timer" \in Loads /\ NoStop \notin Stops
      /\ "request" \notin Loads /\ "claim" \notin Loads
      /\ "plain" \in Actors /\ "plain" \notin Loads
  BY DEF Actors, Loads, NoStop, Stops
<1>s. /\ NoStop = 0 /\ next \in Nat /\ next > 0 /\ (\A n \in Stops : n \in Nat /\ n > 0)
      /\ record \in Stops \cup {NoStop} /\ queued.id \in Stops \cup {NoStop}
      /\ (\A b \in Actors : actor[b].id \in Stops \cup {NoStop})
      /\ settled \subseteq Stops /\ lapsed \subseteq Stops /\ faults \in Nat
  BY <1>i, Shapes
<1>e. /\ actor["dial"].stage = "loaded" /\ actor["claim"].stage = "idle"
      /\ \A b \in Actors : b # "claim" => actor'[b] = actor[b]
      /\ actor'["claim"].stage = "reading" /\ actor'["claim"].id = record /\ actor'["claim"].durable = placed
      /\ UNCHANGED <<record, placed, lapsed, next, queued, settled, inGrace, graceTask,
                     linkUp, linkGen, legacy, resend, overs, faults, restarts>>
  BY <1>i, <1>a, <1>s DEF Claim, Act, Doing, Idle, FinalTypeOK, stopStore, stopLink, stopCounts
<1>n. NothingEnded' => /\ NothingEnded /\ settled = {} /\ lapsed = {} /\ settled' = {}
                         /\ lapsed' = {} /\ faults' = faults
                         /\ \A j \in Stops, h \in Links : resend'[j][h].stage # "claiming"
  BY <1>i, <1>s, <1>e DEF NothingEnded, GraceOrder, OverOnce, AckIsOver, LoadIsOver
<1>1. BindOrder'
  BY <1>i, <1>a, <1>s, <1>e DEF BindOrder
<1>2. GraceOrder'
  BY <1>i, <1>a, <1>s, <1>e DEF GraceOrder
<1>3. OverOnce'
  BY <1>i, <1>a, <1>s, <1>e DEF OverOnce, LoadIsOver, AckIsOver
<1>4. FreshIds'
  BY <1>i, <1>a, <1>s, <1>e DEF FreshIds, GraceOrder
<1>5. PlacedFirst'
  BY <1>i, <1>a, <1>s, <1>e DEF PlacedFirst, BindOrder, FreshIds, GraceOrder
<1>6. RecordIsQueued'
  BY <1>i, <1>a, <1>s, <1>e, <1>n DEF RecordIsQueued, BindOrder, FreshIds, PlacedFirst, GraceOrder, OverOnce, AckIsOver, LoadIsOver
<1>7. QueuedIsResent'
  BY <1>i, <1>a, <1>s, <1>e, <1>n, QueuedIs, QueuedIsNext DEF QueuedIsResent, BindOrder, RecordIsQueued, FreshIds, GraceOrder
<1> QED
  BY <1>i, <1>e, <1>1, <1>2, <1>3, <1>4, <1>5, <1>6, <1>7, SettlesOnceFrame DEF FinalOrder

(* ClaimActs: what it read decides.                                        *)
LEMMA ClaimActsInv ==
    ASSUME FinalInv, FinalTypeOK', ClaimActs
    PROVE  FinalOrder'
<1>i. /\ FinalTypeOK /\ BindOrder /\ GraceOrder /\ OverOnce /\ FreshIds
      /\ PlacedFirst /\ RecordIsQueued /\ SettlesOnce /\ QueuedIsResent
  BY DEF FinalInv, FinalOrder
<1>a. /\ "request" \in Actors /\ "claim" \in Actors /\ "dial" \in Actors /\ "timer" \in Actors
      /\ "dial" \in Loads /\ "timer" \in Loads /\ NoStop \notin Stops
      /\ "request" \notin Loads /\ "claim" \notin Loads
      /\ "plain" \in Actors /\ "plain" \notin Loads
  BY DEF Actors, Loads, NoStop, Stops
<1>s. /\ NoStop = 0 /\ next \in Nat /\ next > 0 /\ (\A n \in Stops : n \in Nat /\ n > 0)
      /\ record \in Stops \cup {NoStop} /\ queued.id \in Stops \cup {NoStop}
      /\ (\A b \in Actors : actor[b].id \in Stops \cup {NoStop})
      /\ settled \subseteq Stops /\ lapsed \subseteq Stops /\ faults \in Nat
  BY <1>i, Shapes
<1>e. /\ actor["claim"].stage = "reading"
      /\ \A b \in Actors : b # "claim" => actor'[b] = actor[b]
      /\ \/ /\ actor["claim"].id # NoStop /\ record' = record /\ next' = next /\ faults' = faults
            /\ actor'["claim"].stage = "queuing" /\ actor'["claim"].id = actor["claim"].id
            /\ actor'["claim"].durable = TRUE
         \/ /\ actor'["claim"].stage = "idle" /\ actor'["claim"].id = NoStop
            /\ record' = record /\ next' = next /\ faults' = faults
         \/ /\ actor["claim"].id = NoStop /\ actor["claim"].durable = TRUE
            /\ actor'["claim"].stage = "queuing" /\ actor'["claim"].durable = TRUE
            /\ actor'["claim"].id = record' /\ faults' = faults
            /\ \/ record # NoStop /\ record' = record /\ next' = next
               \/ record = NoStop /\ next \in Stops /\ record' = next /\ next' = next + 1
         \/ /\ actor["claim"].id = NoStop
            /\ (actor["claim"].durable = FALSE /\ faults' = faults) \/ faults' = faults + 1
            /\ next \in Stops /\ next' = next + 1 /\ record' = record
            /\ actor'["claim"].stage = "queuing" /\ actor'["claim"].durable = FALSE
            /\ actor'["claim"].id = next
      /\ UNCHANGED <<placed, lapsed, queued, settled, inGrace, graceTask, linkUp,
                     linkGen, legacy, resend, overs, restarts>>
  BY <1>i, <1>a, <1>s DEF ClaimActs, Act, Doing, Idle, Fault, FinalTypeOK, stopStore, stopLink, stopCounts
<1>n. NothingEnded' => /\ NothingEnded /\ settled = {} /\ lapsed = {} /\ settled' = {}
                         /\ lapsed' = {} /\ faults' = faults
                         /\ \A j \in Stops, h \in Links : resend'[j][h].stage # "claiming"
  BY <1>i, <1>s, <1>e DEF NothingEnded, GraceOrder, OverOnce, AckIsOver, LoadIsOver
<1>1. BindOrder'
  BY <1>i, <1>a, <1>s, <1>e DEF BindOrder
<1>2. GraceOrder'
  BY <1>i, <1>a, <1>s, <1>e DEF GraceOrder
<1>3. OverOnce'
  BY <1>i, <1>a, <1>s, <1>e DEF OverOnce, LoadIsOver, AckIsOver
<1>4. FreshIds'
  BY <1>i, <1>a, <1>s, <1>e DEF FreshIds, GraceOrder
<1>5. PlacedFirst'
  BY <1>i, <1>a, <1>s, <1>e DEF PlacedFirst, BindOrder, FreshIds, GraceOrder
<1>6. RecordIsQueued'
  <2> SUFFICES ASSUME NothingEnded' PROVE RecordIsQueued'
    BY DEF RecordIsQueued
  <2>1. \A b \in Actors : actor'[b].stage \in {"listed", "queuing", "beginning"} =>
          IF actor'[b].durable THEN actor'[b].id = record' ELSE ~placed' /\ b \notin Loads
    BY <1>i, <1>a, <1>s, <1>e, <1>n DEF RecordIsQueued, FreshIds, GraceOrder, PlacedFirst, OverOnce, LoadIsOver
  <2>5. actor'["request"].stage = "recording" => actor'["request"].durable \/ ~placed'
    BY <1>i, <1>a, <1>s, <1>e, <1>n DEF RecordIsQueued, GraceOrder
  <2>2. actor'["claim"].stage = "reading" =>
          actor'["claim"].durable = placed' /\ actor'["claim"].id \in {NoStop, record'}
    BY <1>i, <1>a, <1>s, <1>e, <1>n DEF RecordIsQueued, GraceOrder
  <2>3. \A j \in Stops, h \in Links : resend'[j][h].stage = "confirm" => j # record'
    BY <1>i, <1>a, <1>s, <1>e, <1>n DEF RecordIsQueued, FreshIds, GraceOrder, OverOnce, AckIsOver
  <2>4. record' # NoStop /\ (linkUp' \/ actor'["dial"].stage \in {"beginning", "loaded"}) =>
          \/ queued'.id = record'
          \/ \E b \in {"request", "claim"} : actor'[b].stage = "queuing" /\ actor'[b].id = record'
    BY <1>i, <1>a, <1>s, <1>e, <1>n DEF RecordIsQueued, BindOrder, FreshIds, PlacedFirst, GraceOrder, OverOnce, LoadIsOver
  <2> QED
    BY <2>1, <2>2, <2>3, <2>4, <2>5 DEF RecordIsQueued
<1>7. QueuedIsResent'
  BY <1>i, <1>a, <1>s, <1>e, <1>n, QueuedIs, QueuedIsNext DEF QueuedIsResent, BindOrder, RecordIsQueued, FreshIds, GraceOrder
<1> QED
  BY <1>i, <1>e, <1>1, <1>2, <1>3, <1>4, <1>5, <1>6, <1>7, SettlesOnceFrame DEF FinalOrder

(* Publish: a link is up.                                                  *)
LEMMA PublishInv ==
    ASSUME FinalInv, FinalTypeOK', Publish
    PROVE  FinalOrder'
<1>i. /\ FinalTypeOK /\ BindOrder /\ GraceOrder /\ OverOnce /\ FreshIds
      /\ PlacedFirst /\ RecordIsQueued /\ SettlesOnce /\ QueuedIsResent
  BY DEF FinalInv, FinalOrder
<1>a. /\ "request" \in Actors /\ "claim" \in Actors /\ "dial" \in Actors /\ "timer" \in Actors
      /\ "dial" \in Loads /\ "timer" \in Loads /\ NoStop \notin Stops
      /\ "request" \notin Loads /\ "claim" \notin Loads
      /\ "plain" \in Actors /\ "plain" \notin Loads
  BY DEF Actors, Loads, NoStop, Stops
<1>s. /\ NoStop = 0 /\ next \in Nat /\ next > 0 /\ (\A n \in Stops : n \in Nat /\ n > 0)
      /\ record \in Stops \cup {NoStop} /\ queued.id \in Stops \cup {NoStop}
      /\ (\A b \in Actors : actor[b].id \in Stops \cup {NoStop})
      /\ settled \subseteq Stops /\ lapsed \subseteq Stops /\ faults \in Nat
  BY <1>i, Shapes
<1>e. /\ actor["dial"].stage = "loaded" /\ actor["claim"].stage = "idle" /\ linkUp' /\ linkGen' \in Links
      /\ actor'["dial"].stage = "idle" /\ actor'["dial"].id = NoStop
      /\ actor'["claim"].stage = "publishing" /\ actor'["claim"].id = NoStop
      /\ \A b \in Actors : b \notin {"dial", "claim"} => actor'[b] = actor[b]
      /\ UNCHANGED <<record, placed, lapsed, next, queued, settled, inGrace, graceTask,
                     resend, overs, faults, restarts>>
  BY <1>i, <1>a, <1>s DEF Publish, Doing, Idle, Links, FinalTypeOK, stopStore, stopLink, stopCounts
<1>n. NothingEnded' => /\ NothingEnded /\ settled = {} /\ lapsed = {} /\ settled' = {}
                         /\ lapsed' = {} /\ faults' = faults
                         /\ \A j \in Stops, h \in Links : resend'[j][h].stage # "claiming"
  BY <1>i, <1>s, <1>e DEF NothingEnded, GraceOrder, OverOnce, AckIsOver, LoadIsOver
<1>1. BindOrder'
  BY <1>i, <1>a, <1>s, <1>e DEF BindOrder
<1>2. GraceOrder'
  BY <1>i, <1>a, <1>s, <1>e DEF GraceOrder
<1>3. OverOnce'
  BY <1>i, <1>a, <1>s, <1>e DEF OverOnce, LoadIsOver, AckIsOver
<1>4. FreshIds'
  BY <1>i, <1>a, <1>s, <1>e DEF FreshIds, GraceOrder
<1>5. PlacedFirst'
  BY <1>i, <1>a, <1>s, <1>e DEF PlacedFirst, BindOrder, FreshIds, GraceOrder
<1>6. RecordIsQueued'
  BY <1>i, <1>a, <1>s, <1>e, <1>n DEF RecordIsQueued, BindOrder, FreshIds, PlacedFirst, GraceOrder, OverOnce, AckIsOver, LoadIsOver
<1>7. QueuedIsResent'
  BY <1>i, <1>a, <1>s, <1>e, <1>n, QueuedIs, QueuedIsNext DEF QueuedIsResent, BindOrder, RecordIsQueued, FreshIds, GraceOrder
<1> QED
  BY <1>i, <1>e, <1>1, <1>2, <1>3, <1>4, <1>5, <1>6, <1>7, SettlesOnceFrame DEF FinalOrder

(* ResendQueued: what is queued is resent on it.                           *)
LEMMA ResendQueuedInv ==
    ASSUME FinalInv, FinalTypeOK', ResendQueued
    PROVE  FinalOrder'
<1>i. /\ FinalTypeOK /\ BindOrder /\ GraceOrder /\ OverOnce /\ FreshIds
      /\ PlacedFirst /\ RecordIsQueued /\ SettlesOnce /\ QueuedIsResent
  BY DEF FinalInv, FinalOrder
<1>a. /\ "request" \in Actors /\ "claim" \in Actors /\ "dial" \in Actors /\ "timer" \in Actors
      /\ "dial" \in Loads /\ "timer" \in Loads /\ NoStop \notin Stops
      /\ "request" \notin Loads /\ "claim" \notin Loads
      /\ "plain" \in Actors /\ "plain" \notin Loads
  BY DEF Actors, Loads, NoStop, Stops
<1>s. /\ NoStop = 0 /\ next \in Nat /\ next > 0 /\ (\A n \in Stops : n \in Nat /\ n > 0)
      /\ record \in Stops \cup {NoStop} /\ queued.id \in Stops \cup {NoStop}
      /\ (\A b \in Actors : actor[b].id \in Stops \cup {NoStop})
      /\ settled \subseteq Stops /\ lapsed \subseteq Stops /\ faults \in Nat
  BY <1>i, Shapes
<1>e. /\ actor["claim"].stage = "publishing" /\ actor'["claim"].stage = "idle" /\ actor'["claim"].id = NoStop
      /\ \A b \in Actors : b # "claim" => actor'[b] = actor[b]
      /\ \A j \in Stops, h \in Links :
           \/ resend'[j][h] = resend[j][h]
           \/ /\ j = queued.id /\ h = linkGen /\ linkUp
              /\ resend[j][h].stage = "idle" /\ resend'[j][h].stage = "loop"
      /\ queued.id # NoStop /\ linkUp => resend'[queued.id][linkGen].stage # "idle"
      /\ UNCHANGED <<record, placed, lapsed, next, queued, settled, inGrace, graceTask,
                     linkUp, linkGen, legacy, overs, faults, restarts>>
  <2>1. CASE queued = NotQueued
    BY <1>i, <1>a, <2>1, QueuedIs DEF ResendQueued, Act, Doing, Idle, FinalTypeOK, stopStore, stopLink, stopCounts
  <2>2. CASE queued # NotQueued
    <3>1. queued.id \in Stops /\ resend' = Spawned(queued.id)
      BY <1>i, <2>2 DEF ResendQueued, FinalTypeOK, StopRecords
    <3> QED
      BY <1>i, <1>a, <3>1, SpawnedIs DEF ResendQueued, Act, Doing, Idle, FinalTypeOK, stopStore, stopLink, stopCounts
  <2> QED
    BY <2>1, <2>2
<1>n. NothingEnded' => /\ NothingEnded /\ settled = {} /\ lapsed = {} /\ settled' = {}
                         /\ lapsed' = {} /\ faults' = faults
                         /\ \A j \in Stops, h \in Links : resend'[j][h].stage # "claiming"
  BY <1>i, <1>s, <1>e DEF NothingEnded, GraceOrder, OverOnce, AckIsOver, LoadIsOver
<1>1. BindOrder'
  BY <1>i, <1>a, <1>s, <1>e DEF BindOrder
<1>2. GraceOrder'
  BY <1>i, <1>a, <1>s, <1>e DEF GraceOrder
<1>3. OverOnce'
  BY <1>i, <1>a, <1>s, <1>e DEF OverOnce, LoadIsOver, AckIsOver
<1>4. FreshIds'
  BY <1>i, <1>a, <1>s, <1>e DEF FreshIds, GraceOrder
<1>5. PlacedFirst'
  BY <1>i, <1>a, <1>s, <1>e DEF PlacedFirst, BindOrder, FreshIds, GraceOrder
<1>6. RecordIsQueued'
  BY <1>i, <1>a, <1>s, <1>e, <1>n DEF RecordIsQueued, BindOrder, FreshIds, PlacedFirst, GraceOrder, OverOnce, AckIsOver, LoadIsOver
<1>7. QueuedIsResent'
  BY <1>i, <1>a, <1>s, <1>e, <1>n, QueuedIs, QueuedIsNext DEF QueuedIsResent, BindOrder, RecordIsQueued, FreshIds, GraceOrder
<1> QED
  BY <1>i, <1>e, <1>1, <1>2, <1>3, <1>4, <1>5, <1>6, <1>7, SettlesOnceFrame DEF FinalOrder

(* LinkLost: who sends on it, or waits for an answer, ends.                *)
LEMMA LinkLostInv ==
    ASSUME FinalInv, FinalTypeOK', LinkLost
    PROVE  FinalOrder'
<1>i. /\ FinalTypeOK /\ BindOrder /\ GraceOrder /\ OverOnce /\ FreshIds
      /\ PlacedFirst /\ RecordIsQueued /\ SettlesOnce /\ QueuedIsResent
  BY DEF FinalInv, FinalOrder
<1>a. /\ "request" \in Actors /\ "claim" \in Actors /\ "dial" \in Actors /\ "timer" \in Actors
      /\ "dial" \in Loads /\ "timer" \in Loads /\ NoStop \notin Stops
      /\ "request" \notin Loads /\ "claim" \notin Loads
      /\ "plain" \in Actors /\ "plain" \notin Loads
  BY DEF Actors, Loads, NoStop, Stops
<1>s. /\ NoStop = 0 /\ next \in Nat /\ next > 0 /\ (\A n \in Stops : n \in Nat /\ n > 0)
      /\ record \in Stops \cup {NoStop} /\ queued.id \in Stops \cup {NoStop}
      /\ (\A b \in Actors : actor[b].id \in Stops \cup {NoStop})
      /\ settled \subseteq Stops /\ lapsed \subseteq Stops /\ faults \in Nat
  BY <1>i, Shapes
<1>e. /\ ~linkUp'
      /\ \A j \in Stops, h \in Links : \/ resend'[j][h] = resend[j][h]
                                       \/ /\ resend[j][h].stage \in {"loop", "sent"}
                                          /\ resend'[j][h].stage = "idle"
      /\ UNCHANGED <<record, placed, lapsed, next, queued, settled, inGrace, graceTask,
                     linkGen, actor, overs, faults, restarts>>
  BY <1>i, <1>a, <1>s DEF LinkLost, NotSending, Sending, FinalTypeOK, stopStore, stopLink, stopCounts
<1>n. NothingEnded' => /\ NothingEnded /\ settled = {} /\ lapsed = {} /\ settled' = {}
                         /\ lapsed' = {} /\ faults' = faults
                         /\ \A j \in Stops, h \in Links : resend'[j][h].stage # "claiming"
  BY <1>i, <1>s, <1>e DEF NothingEnded, GraceOrder, OverOnce, AckIsOver, LoadIsOver
<1>1. BindOrder'
  BY <1>i, <1>a, <1>s, <1>e DEF BindOrder
<1>2. OverOnce'
  BY <1>i, <1>a, <1>s, <1>e DEF OverOnce, LoadIsOver, AckIsOver
<1>3. FreshIds'
  BY <1>i, <1>a, <1>s, <1>e DEF FreshIds, GraceOrder
<1>4. PlacedFirst'
  BY <1>i, <1>a, <1>s, <1>e DEF PlacedFirst, BindOrder, FreshIds, GraceOrder
<1>5. RecordIsQueued'
  BY <1>i, <1>a, <1>s, <1>e, <1>n DEF RecordIsQueued, BindOrder, FreshIds, PlacedFirst, GraceOrder, OverOnce, AckIsOver, LoadIsOver
<1>6. QueuedIsResent'
  BY <1>i, <1>a, <1>s, <1>e, <1>n, QueuedIs, QueuedIsNext DEF QueuedIsResent, BindOrder, RecordIsQueued, FreshIds, GraceOrder
<1> QED
  BY <1>i, <1>e, <1>1, <1>2, <1>3, <1>4, <1>5, <1>6, GraceOrderFrame, SettlesOnceFrame DEF FinalOrder

(* DialFails: stops held in memory may go.                                 *)
LEMMA DialFailsInv ==
    ASSUME FinalInv, FinalTypeOK', DialFails
    PROVE  FinalOrder'
<1>i. /\ FinalTypeOK /\ BindOrder /\ GraceOrder /\ OverOnce /\ FreshIds
      /\ PlacedFirst /\ RecordIsQueued /\ SettlesOnce /\ QueuedIsResent
  BY DEF FinalInv, FinalOrder
<1>a. /\ "request" \in Actors /\ "claim" \in Actors /\ "dial" \in Actors /\ "timer" \in Actors
      /\ "dial" \in Loads /\ "timer" \in Loads /\ NoStop \notin Stops
      /\ "request" \notin Loads /\ "claim" \notin Loads
      /\ "plain" \in Actors /\ "plain" \notin Loads
  BY DEF Actors, Loads, NoStop, Stops
<1>s. /\ NoStop = 0 /\ next \in Nat /\ next > 0 /\ (\A n \in Stops : n \in Nat /\ n > 0)
      /\ record \in Stops \cup {NoStop} /\ queued.id \in Stops \cup {NoStop}
      /\ (\A b \in Actors : actor[b].id \in Stops \cup {NoStop})
      /\ settled \subseteq Stops /\ lapsed \subseteq Stops /\ faults \in Nat
  BY <1>i, Shapes
<1>e. /\ actor["dial"].stage = "loaded" /\ actor["claim"].stage = "idle"
      /\ actor'["dial"].stage = "idle" /\ actor'["dial"].id = NoStop /\ actor'["dial"].durable = FALSE
      /\ \A b \in Actors : b # "dial" => actor'[b] = actor[b]
      /\ queued' = queued \/ (queued'.id = NoStop /\ queued'.final = FALSE)
      /\ UNCHANGED <<record, placed, lapsed, next, settled, inGrace, graceTask, linkUp,
                     linkGen, legacy, resend, overs, faults, restarts>>
  BY <1>i, <1>a, <1>s DEF DialFails, Act, Doing, Idle, NotQueued, FinalTypeOK, stopStore, stopLink, stopCounts
<1>n. NothingEnded' => /\ NothingEnded /\ settled = {} /\ lapsed = {} /\ settled' = {}
                         /\ lapsed' = {} /\ faults' = faults
                         /\ \A j \in Stops, h \in Links : resend'[j][h].stage # "claiming"
  BY <1>i, <1>s, <1>e DEF NothingEnded, GraceOrder, OverOnce, AckIsOver, LoadIsOver
<1>1. BindOrder'
  BY <1>i, <1>a, <1>s, <1>e DEF BindOrder
<1>2. GraceOrder'
  BY <1>i, <1>a, <1>s, <1>e DEF GraceOrder
<1>3. OverOnce'
  BY <1>i, <1>a, <1>s, <1>e DEF OverOnce, LoadIsOver, AckIsOver
<1>4. FreshIds'
  BY <1>i, <1>a, <1>s, <1>e DEF FreshIds, GraceOrder
<1>5. PlacedFirst'
  BY <1>i, <1>a, <1>s, <1>e DEF PlacedFirst, BindOrder, FreshIds, GraceOrder
<1>6. RecordIsQueued'
  BY <1>i, <1>a, <1>s, <1>e, <1>n DEF RecordIsQueued, BindOrder, FreshIds, PlacedFirst, GraceOrder, OverOnce, AckIsOver, LoadIsOver
<1>7. QueuedIsResent'
  BY <1>i, <1>a, <1>s, <1>e, <1>n, QueuedIs, QueuedIsNext DEF QueuedIsResent, BindOrder, RecordIsQueued, FreshIds, GraceOrder
<1> QED
  BY <1>i, <1>e, <1>1, <1>2, <1>3, <1>4, <1>5, <1>6, <1>7, SettlesOnceFrame DEF FinalOrder

-----------------------------------------------------------------------------
(* Send: the stop goes out, or its resender ends.                          *)
LEMMA SendInv ==
    ASSUME FinalInv, FinalTypeOK', NEW i \in Stops, NEW g \in Links, Send(i, g)
    PROVE  FinalOrder'
<1>i. /\ FinalTypeOK /\ BindOrder /\ GraceOrder /\ OverOnce /\ FreshIds
      /\ PlacedFirst /\ RecordIsQueued /\ SettlesOnce /\ QueuedIsResent
  BY DEF FinalInv, FinalOrder
<1>a. /\ "request" \in Actors /\ "claim" \in Actors /\ "dial" \in Actors /\ "timer" \in Actors
      /\ "dial" \in Loads /\ "timer" \in Loads /\ NoStop \notin Stops
      /\ "request" \notin Loads /\ "claim" \notin Loads
      /\ "plain" \in Actors /\ "plain" \notin Loads
  BY DEF Actors, Loads, NoStop, Stops
<1>s. /\ NoStop = 0 /\ next \in Nat /\ next > 0 /\ (\A n \in Stops : n \in Nat /\ n > 0)
      /\ record \in Stops \cup {NoStop} /\ queued.id \in Stops \cup {NoStop}
      /\ (\A b \in Actors : actor[b].id \in Stops \cup {NoStop})
      /\ settled \subseteq Stops /\ lapsed \subseteq Stops /\ faults \in Nat
  BY <1>i, Shapes
<1>e. /\ resend[i][g].stage = "loop"
      /\ \A j \in Stops, h \in Links : j # i \/ h # g => resend'[j][h] = resend[j][h]
      /\ \/ /\ resend'[i][g].stage = "sent" /\ queued.id = i
            /\ resend'[i][g].final = queued.final
         \/ resend'[i][g].stage = "idle" /\ (queued.id # i \/ ~linkUp \/ linkGen # g)
      /\ UNCHANGED <<record, placed, lapsed, next, queued, settled, inGrace, graceTask,
                     linkUp, linkGen, legacy, actor, overs, faults, restarts>>
  BY <1>i, <1>a, <1>s, ZenonT(60) DEF Send, Open, NotSending, Sending, FinalTypeOK, stopStore, stopLink, stopCounts
<1>n. NothingEnded' => /\ NothingEnded /\ settled = {} /\ lapsed = {} /\ settled' = {}
                         /\ lapsed' = {} /\ faults' = faults
                         /\ \A j \in Stops, h \in Links : resend'[j][h].stage # "claiming"
  BY <1>i, <1>s, <1>e DEF NothingEnded, GraceOrder, OverOnce, AckIsOver, LoadIsOver
<1>1. OverOnce'
  BY <1>i, <1>a, <1>s, <1>e DEF OverOnce, LoadIsOver, AckIsOver
<1>2. FreshIds'
  BY <1>i, <1>a, <1>s, <1>e DEF FreshIds, GraceOrder
<1>3. PlacedFirst'
  BY <1>i, <1>a, <1>s, <1>e DEF PlacedFirst, BindOrder, FreshIds, GraceOrder
<1>4. RecordIsQueued'
  BY <1>i, <1>a, <1>s, <1>e, <1>n DEF RecordIsQueued, BindOrder, FreshIds, PlacedFirst, GraceOrder, OverOnce, AckIsOver, LoadIsOver
<1>5. QueuedIsResent'
  BY <1>i, <1>a, <1>s, <1>e, <1>n, QueuedIs, QueuedIsNext DEF QueuedIsResent, BindOrder, RecordIsQueued, FreshIds, GraceOrder
<1> QED
  BY <1>i, <1>e, <1>1, <1>2, <1>3, <1>4, <1>5, BindOrderFrame, GraceOrderFrame,
     SettlesOnceFrame DEF FinalOrder

(* SendTimesOut: it is sent again.                                         *)
LEMMA SendTimesOutInv ==
    ASSUME FinalInv, FinalTypeOK', NEW i \in Stops, NEW g \in Links, SendTimesOut(i, g)
    PROVE  FinalOrder'
<1>i. /\ FinalTypeOK /\ BindOrder /\ GraceOrder /\ OverOnce /\ FreshIds
      /\ PlacedFirst /\ RecordIsQueued /\ SettlesOnce /\ QueuedIsResent
  BY DEF FinalInv, FinalOrder
<1>a. /\ "request" \in Actors /\ "claim" \in Actors /\ "dial" \in Actors /\ "timer" \in Actors
      /\ "dial" \in Loads /\ "timer" \in Loads /\ NoStop \notin Stops
      /\ "request" \notin Loads /\ "claim" \notin Loads
      /\ "plain" \in Actors /\ "plain" \notin Loads
  BY DEF Actors, Loads, NoStop, Stops
<1>s. /\ NoStop = 0 /\ next \in Nat /\ next > 0 /\ (\A n \in Stops : n \in Nat /\ n > 0)
      /\ record \in Stops \cup {NoStop} /\ queued.id \in Stops \cup {NoStop}
      /\ (\A b \in Actors : actor[b].id \in Stops \cup {NoStop})
      /\ settled \subseteq Stops /\ lapsed \subseteq Stops /\ faults \in Nat
  BY <1>i, Shapes
<1>e. /\ resend[i][g].stage = "sent"
      /\ \A j \in Stops, h \in Links : j # i \/ h # g => resend'[j][h] = resend[j][h]
      /\ resend'[i][g].stage = "loop"
      /\ UNCHANGED <<record, placed, lapsed, next, queued, settled, inGrace, graceTask,
                     linkUp, linkGen, legacy, actor, overs, faults, restarts>>
  BY <1>i, <1>a, <1>s DEF SendTimesOut, Resend, Sending, FinalTypeOK, stopStore, stopLink, stopCounts
<1>n. NothingEnded' => /\ NothingEnded /\ settled = {} /\ lapsed = {} /\ settled' = {}
                         /\ lapsed' = {} /\ faults' = faults
                         /\ \A j \in Stops, h \in Links : resend'[j][h].stage # "claiming"
  BY <1>i, <1>s, <1>e DEF NothingEnded, GraceOrder, OverOnce, AckIsOver, LoadIsOver
<1>1. OverOnce'
  BY <1>i, <1>a, <1>s, <1>e DEF OverOnce, LoadIsOver, AckIsOver
<1>2. FreshIds'
  BY <1>i, <1>a, <1>s, <1>e DEF FreshIds, GraceOrder
<1>3. PlacedFirst'
  BY <1>i, <1>a, <1>s, <1>e DEF PlacedFirst, BindOrder, FreshIds, GraceOrder
<1>4. RecordIsQueued'
  BY <1>i, <1>a, <1>s, <1>e, <1>n DEF RecordIsQueued, BindOrder, FreshIds, PlacedFirst, GraceOrder, OverOnce, AckIsOver, LoadIsOver
<1>5. QueuedIsResent'
  BY <1>i, <1>a, <1>s, <1>e, <1>n, QueuedIs, QueuedIsNext DEF QueuedIsResent, BindOrder, RecordIsQueued, FreshIds, GraceOrder
<1> QED
  BY <1>i, <1>e, <1>1, <1>2, <1>3, <1>4, <1>5, BindOrderFrame, GraceOrderFrame,
     SettlesOnceFrame DEF FinalOrder

(* Acked: the first to claim the stop settles it.                          *)
LEMMA AckedInv ==
    ASSUME FinalInv, FinalTypeOK', NEW i \in Stops, NEW g \in Links, Acked(i, g)
    PROVE  FinalOrder'
<1>i. /\ FinalTypeOK /\ BindOrder /\ GraceOrder /\ OverOnce /\ FreshIds
      /\ PlacedFirst /\ RecordIsQueued /\ SettlesOnce /\ QueuedIsResent
  BY DEF FinalInv, FinalOrder
<1>a. /\ "request" \in Actors /\ "claim" \in Actors /\ "dial" \in Actors /\ "timer" \in Actors
      /\ "dial" \in Loads /\ "timer" \in Loads /\ NoStop \notin Stops
      /\ "request" \notin Loads /\ "claim" \notin Loads
      /\ "plain" \in Actors /\ "plain" \notin Loads
  BY DEF Actors, Loads, NoStop, Stops
<1>s. /\ NoStop = 0 /\ next \in Nat /\ next > 0 /\ (\A n \in Stops : n \in Nat /\ n > 0)
      /\ record \in Stops \cup {NoStop} /\ queued.id \in Stops \cup {NoStop}
      /\ (\A b \in Actors : actor[b].id \in Stops \cup {NoStop})
      /\ settled \subseteq Stops /\ lapsed \subseteq Stops /\ faults \in Nat
  BY <1>i, Shapes
<1>e. /\ resend[i][g].stage = "sent"
      /\ \A j \in Stops, h \in Links : j # i \/ h # g => resend'[j][h] = resend[j][h]
      /\ \/ /\ resend'[i][g].stage = "dropping" /\ settled' = settled /\ inGrace' = inGrace
            /\ graceTask' = graceTask
         \/ /\ resend'[i][g].stage = "confirm" /\ settled' = settled /\ inGrace' = inGrace
            /\ graceTask' = graceTask /\ (~resend[i][g].final \/ i \in settled)
         \/ /\ resend'[i][g].stage = "over" /\ i \notin settled /\ settled' = settled \cup {i}
            /\ \/ inGrace' = inGrace /\ graceTask' = graceTask
               \/ /\ inGrace' = inGrace \cup {i} /\ graceTask'[i] = "sleeping"
                  /\ \A j \in Stops : j # i => graceTask'[j] = graceTask[j]
      /\ UNCHANGED <<record, placed, lapsed, next, queued, linkUp, linkGen, legacy,
                     actor, overs, faults, restarts>>
  BY <1>i, <1>a, <1>s DEF Acked, Settle, Resend, Sending, FinalTypeOK, stopStore, stopLink, stopCounts
<1>n. NothingEnded' => /\ NothingEnded /\ settled = {} /\ lapsed = {} /\ settled' = {}
                         /\ lapsed' = {} /\ faults' = faults
                         /\ \A j \in Stops, h \in Links : resend'[j][h].stage # "claiming"
  BY <1>i, <1>s, <1>e DEF NothingEnded, GraceOrder, OverOnce, AckIsOver, LoadIsOver
<1>1. GraceOrder'
  BY <1>i, <1>a, <1>s, <1>e DEF GraceOrder
<1>2. OverOnce'
  BY <1>i, <1>a, <1>s, <1>e DEF OverOnce, LoadIsOver, AckIsOver
<1>3. FreshIds'
  BY <1>i, <1>a, <1>s, <1>e DEF FreshIds, GraceOrder
<1>4. PlacedFirst'
  BY <1>i, <1>a, <1>s, <1>e DEF PlacedFirst, BindOrder, FreshIds, GraceOrder
<1>5. RecordIsQueued'
  BY <1>i, <1>a, <1>s, <1>e, <1>n DEF RecordIsQueued, BindOrder, FreshIds, PlacedFirst, GraceOrder, OverOnce, AckIsOver, LoadIsOver
<1>6. QueuedIsResent'
  BY <1>i, <1>a, <1>s, <1>e, <1>n, QueuedIs, QueuedIsNext DEF QueuedIsResent, BindOrder, RecordIsQueued, FreshIds, GraceOrder
<1> QED
  BY <1>i, <1>e, <1>1, <1>2, <1>3, <1>4, <1>5, <1>6, BindOrderFrame, SettlesOnceFrame DEF FinalOrder

(* AckDrops: its record goes, if it was there.                             *)
LEMMA AckDropsInv ==
    ASSUME FinalInv, FinalTypeOK', NEW i \in Stops, NEW g \in Links, AckDrops(i, g)
    PROVE  FinalOrder'
<1>i. /\ FinalTypeOK /\ BindOrder /\ GraceOrder /\ OverOnce /\ FreshIds
      /\ PlacedFirst /\ RecordIsQueued /\ SettlesOnce /\ QueuedIsResent
  BY DEF FinalInv, FinalOrder
<1>a. /\ "request" \in Actors /\ "claim" \in Actors /\ "dial" \in Actors /\ "timer" \in Actors
      /\ "dial" \in Loads /\ "timer" \in Loads /\ NoStop \notin Stops
      /\ "request" \notin Loads /\ "claim" \notin Loads
      /\ "plain" \in Actors /\ "plain" \notin Loads
  BY DEF Actors, Loads, NoStop, Stops
<1>s. /\ NoStop = 0 /\ next \in Nat /\ next > 0 /\ (\A n \in Stops : n \in Nat /\ n > 0)
      /\ record \in Stops \cup {NoStop} /\ queued.id \in Stops \cup {NoStop}
      /\ (\A b \in Actors : actor[b].id \in Stops \cup {NoStop})
      /\ settled \subseteq Stops /\ lapsed \subseteq Stops /\ faults \in Nat
  BY <1>i, Shapes
<1>e. /\ resend[i][g].stage = "dropping"
      /\ \A j \in Stops, h \in Links : j # i \/ h # g => resend'[j][h] = resend[j][h]
      /\ \/ record = i /\ record' = NoStop /\ faults' = faults /\ resend'[i][g].stage = "claiming"
         \/ /\ record' = record /\ placed' = placed /\ resend'[i][g].stage = "confirm"
            /\ (faults' = faults /\ record # i) \/ faults' = faults + 1
      /\ UNCHANGED <<lapsed, next, queued, settled, inGrace, graceTask, linkUp, linkGen,
                     legacy, actor, overs, restarts>>
  <2>1. PICK x \in {"claiming", "confirm"} :
          /\ resend' = [resend EXCEPT ![i][g] = Sending(x)]
          /\ \/ record = i /\ record' = NoStop /\ faults' = faults /\ x = "claiming"
             \/ /\ record' = record /\ placed' = placed /\ x = "confirm"
                /\ (faults' = faults /\ record # i) \/ faults' = faults + 1
    <3>1. CASE record = i
      BY <3>1 DEF AckDrops, Finish, Fault, Resend
    <3>2. CASE record # i
      BY <3>2 DEF AckDrops, Finish, Fault, Resend
    <3> QED
      BY <3>1, <3>2
  <2>2. resend'[i][g].stage = x /\ \A j \in Stops, h \in Links : j # i \/ h # g => resend'[j][h] = resend[j][h]
    BY <1>i, <2>1 DEF FinalTypeOK, Sending
  <2> QED
    BY <2>1, <2>2 DEF AckDrops, stopStore, stopLink, stopCounts
<1>n. NothingEnded' => /\ NothingEnded /\ settled = {} /\ lapsed = {} /\ settled' = {}
                         /\ lapsed' = {} /\ faults' = faults
                         /\ \A j \in Stops, h \in Links : resend'[j][h].stage # "claiming"
  BY <1>i, <1>s, <1>e DEF NothingEnded, GraceOrder, OverOnce, AckIsOver, LoadIsOver
<1>1. OverOnce'
  BY <1>i, <1>a, <1>s, <1>e DEF OverOnce, LoadIsOver, AckIsOver
<1>2. FreshIds'
  BY <1>i, <1>a, <1>s, <1>e DEF FreshIds, GraceOrder
<1>3. PlacedFirst'
  BY <1>i, <1>a, <1>s, <1>e DEF PlacedFirst, BindOrder, FreshIds, GraceOrder
<1>4. RecordIsQueued'
  <2> SUFFICES ASSUME NothingEnded' PROVE RecordIsQueued'
    BY DEF RecordIsQueued
  <2>1. \A b \in Actors : actor'[b].stage \in {"listed", "queuing", "beginning"} =>
          IF actor'[b].durable THEN actor'[b].id = record' ELSE ~placed' /\ b \notin Loads
    BY <1>i, <1>a, <1>s, <1>e, <1>n DEF RecordIsQueued, FreshIds, GraceOrder, PlacedFirst, OverOnce, LoadIsOver
  <2>5. actor'["request"].stage = "recording" => actor'["request"].durable \/ ~placed'
    BY <1>i, <1>a, <1>s, <1>e, <1>n DEF RecordIsQueued, GraceOrder
  <2>2. actor'["claim"].stage = "reading" =>
          actor'["claim"].durable = placed' /\ actor'["claim"].id \in {NoStop, record'}
    BY <1>i, <1>a, <1>s, <1>e, <1>n DEF RecordIsQueued, GraceOrder
  <2>3. \A j \in Stops, h \in Links : resend'[j][h].stage = "confirm" => j # record'
    BY <1>i, <1>a, <1>s, <1>e, <1>n DEF RecordIsQueued, FreshIds, GraceOrder, OverOnce, AckIsOver
  <2>4. record' # NoStop /\ (linkUp' \/ actor'["dial"].stage \in {"beginning", "loaded"}) =>
          \/ queued'.id = record'
          \/ \E b \in {"request", "claim"} : actor'[b].stage = "queuing" /\ actor'[b].id = record'
    BY <1>i, <1>a, <1>s, <1>e, <1>n DEF RecordIsQueued, BindOrder, FreshIds, PlacedFirst, GraceOrder, OverOnce, LoadIsOver
  <2> QED
    BY <2>1, <2>2, <2>3, <2>4, <2>5 DEF RecordIsQueued
<1>5. QueuedIsResent'
  BY <1>i, <1>a, <1>s, <1>e, <1>n, QueuedIs, QueuedIsNext DEF QueuedIsResent, BindOrder, RecordIsQueued, FreshIds, GraceOrder
<1> QED
  BY <1>i, <1>e, <1>1, <1>2, <1>3, <1>4, <1>5, BindOrderFrame, GraceOrderFrame,
     SettlesOnceFrame DEF FinalOrder

(* AckClaims: the first to claim its end says it is over.                  *)
LEMMA AckClaimsInv ==
    ASSUME FinalInv, FinalTypeOK', NEW i \in Stops, NEW g \in Links, AckClaims(i, g)
    PROVE  FinalOrder'
<1>i. /\ FinalTypeOK /\ BindOrder /\ GraceOrder /\ OverOnce /\ FreshIds
      /\ PlacedFirst /\ RecordIsQueued /\ SettlesOnce /\ QueuedIsResent
  BY DEF FinalInv, FinalOrder
<1>a. /\ "request" \in Actors /\ "claim" \in Actors /\ "dial" \in Actors /\ "timer" \in Actors
      /\ "dial" \in Loads /\ "timer" \in Loads /\ NoStop \notin Stops
      /\ "request" \notin Loads /\ "claim" \notin Loads
      /\ "plain" \in Actors /\ "plain" \notin Loads
  BY DEF Actors, Loads, NoStop, Stops
<1>s. /\ NoStop = 0 /\ next \in Nat /\ next > 0 /\ (\A n \in Stops : n \in Nat /\ n > 0)
      /\ record \in Stops \cup {NoStop} /\ queued.id \in Stops \cup {NoStop}
      /\ (\A b \in Actors : actor[b].id \in Stops \cup {NoStop})
      /\ settled \subseteq Stops /\ lapsed \subseteq Stops /\ faults \in Nat
  BY <1>i, Shapes
<1>e. /\ resend[i][g].stage = "claiming"
      /\ \A j \in Stops, h \in Links : j # i \/ h # g => resend'[j][h] = resend[j][h]
      /\ \/ resend'[i][g].stage = "confirm" /\ i \in settled /\ settled' = settled
         \/ resend'[i][g].stage = "over" /\ i \notin settled /\ settled' = settled \cup {i}
      /\ UNCHANGED <<record, placed, lapsed, next, queued, inGrace, graceTask, linkUp,
                     linkGen, legacy, actor, overs, faults, restarts>>
  BY <1>i, <1>a, <1>s DEF AckClaims, Settle, Resend, Sending, FinalTypeOK, stopStore, stopLink, stopCounts
<1>n. NothingEnded' => /\ NothingEnded /\ settled = {} /\ lapsed = {} /\ settled' = {}
                         /\ lapsed' = {} /\ faults' = faults
                         /\ \A j \in Stops, h \in Links : resend'[j][h].stage # "claiming"
  BY <1>i, <1>s, <1>e DEF NothingEnded, GraceOrder, OverOnce, AckIsOver, LoadIsOver
<1>1. GraceOrder'
  BY <1>i, <1>a, <1>s, <1>e DEF GraceOrder
<1>2. OverOnce'
  BY <1>i, <1>a, <1>s, <1>e DEF OverOnce, LoadIsOver, AckIsOver
<1>3. FreshIds'
  BY <1>i, <1>a, <1>s, <1>e DEF FreshIds, GraceOrder
<1>4. PlacedFirst'
  BY <1>i, <1>a, <1>s, <1>e DEF PlacedFirst, BindOrder, FreshIds, GraceOrder
<1>5. RecordIsQueued'
  BY <1>i, <1>a, <1>s, <1>e, <1>n DEF RecordIsQueued, BindOrder, FreshIds, PlacedFirst, GraceOrder, OverOnce, AckIsOver, LoadIsOver
<1>6. QueuedIsResent'
  BY <1>i, <1>a, <1>s, <1>e, <1>n, QueuedIs, QueuedIsNext DEF QueuedIsResent, BindOrder, RecordIsQueued, FreshIds, GraceOrder
<1> QED
  BY <1>i, <1>e, <1>1, <1>2, <1>3, <1>4, <1>5, <1>6, BindOrderFrame, SettlesOnceFrame DEF FinalOrder

(* AckOver: it is over.                                                    *)
LEMMA AckOverInv ==
    ASSUME FinalInv, FinalTypeOK', NEW i \in Stops, NEW g \in Links, AckOver(i, g)
    PROVE  FinalOrder'
<1>i. /\ FinalTypeOK /\ BindOrder /\ GraceOrder /\ OverOnce /\ FreshIds
      /\ PlacedFirst /\ RecordIsQueued /\ SettlesOnce /\ QueuedIsResent
  BY DEF FinalInv, FinalOrder
<1>a. /\ "request" \in Actors /\ "claim" \in Actors /\ "dial" \in Actors /\ "timer" \in Actors
      /\ "dial" \in Loads /\ "timer" \in Loads /\ NoStop \notin Stops
      /\ "request" \notin Loads /\ "claim" \notin Loads
      /\ "plain" \in Actors /\ "plain" \notin Loads
  BY DEF Actors, Loads, NoStop, Stops
<1>s. /\ NoStop = 0 /\ next \in Nat /\ next > 0 /\ (\A n \in Stops : n \in Nat /\ n > 0)
      /\ record \in Stops \cup {NoStop} /\ queued.id \in Stops \cup {NoStop}
      /\ (\A b \in Actors : actor[b].id \in Stops \cup {NoStop})
      /\ settled \subseteq Stops /\ lapsed \subseteq Stops /\ faults \in Nat
  BY <1>i, Shapes
<1>e. /\ resend[i][g].stage = "over" /\ resend'[i][g].stage = "confirm"
      /\ \A j \in Stops, h \in Links : j # i \/ h # g => resend'[j][h] = resend[j][h]
      /\ overs'[i] = overs[i] + 1 /\ \A j \in Stops : j # i => overs'[j] = overs[j]
      /\ UNCHANGED <<record, placed, lapsed, next, queued, settled, inGrace, graceTask,
                     linkUp, linkGen, legacy, actor, faults, restarts>>
  BY <1>i, <1>a, <1>s DEF AckOver, Over, Resend, Sending, FinalTypeOK, stopStore, stopLink, stopCounts
<1>n. NothingEnded' => /\ NothingEnded /\ settled = {} /\ lapsed = {} /\ settled' = {}
                         /\ lapsed' = {} /\ faults' = faults
                         /\ \A j \in Stops, h \in Links : resend'[j][h].stage # "claiming"
  BY <1>i, <1>s, <1>e DEF NothingEnded, GraceOrder, OverOnce, AckIsOver, LoadIsOver
<1>1. OverOnce'
  BY <1>i, <1>a, <1>s, <1>e DEF OverOnce, LoadIsOver, AckIsOver
<1>2. FreshIds'
  BY <1>i, <1>a, <1>s, <1>e DEF FreshIds, GraceOrder
<1>3. PlacedFirst'
  BY <1>i, <1>a, <1>s, <1>e DEF PlacedFirst, BindOrder, FreshIds, GraceOrder
<1>4. RecordIsQueued'
  BY <1>i, <1>a, <1>s, <1>e, <1>n DEF RecordIsQueued, BindOrder, FreshIds, PlacedFirst, GraceOrder, OverOnce, AckIsOver, LoadIsOver
<1>5. SettlesOnce'
  BY <1>i, <1>a, <1>s, <1>e DEF SettlesOnce, OverOnce, AckIsOver
<1>6. QueuedIsResent'
  BY <1>i, <1>a, <1>s, <1>e, <1>n, QueuedIs, QueuedIsNext DEF QueuedIsResent, BindOrder, RecordIsQueued, FreshIds, GraceOrder
<1> QED
  BY <1>i, <1>e, <1>1, <1>2, <1>3, <1>4, <1>5, <1>6, BindOrderFrame, GraceOrderFrame DEF FinalOrder

(* Confirm: the stop leaves the queue, and no other.                       *)
LEMMA ConfirmInv ==
    ASSUME FinalInv, FinalTypeOK', NEW i \in Stops, NEW g \in Links, Confirm(i, g)
    PROVE  FinalOrder'
<1>i. /\ FinalTypeOK /\ BindOrder /\ GraceOrder /\ OverOnce /\ FreshIds
      /\ PlacedFirst /\ RecordIsQueued /\ SettlesOnce /\ QueuedIsResent
  BY DEF FinalInv, FinalOrder
<1>a. /\ "request" \in Actors /\ "claim" \in Actors /\ "dial" \in Actors /\ "timer" \in Actors
      /\ "dial" \in Loads /\ "timer" \in Loads /\ NoStop \notin Stops
      /\ "request" \notin Loads /\ "claim" \notin Loads
      /\ "plain" \in Actors /\ "plain" \notin Loads
  BY DEF Actors, Loads, NoStop, Stops
<1>s. /\ NoStop = 0 /\ next \in Nat /\ next > 0 /\ (\A n \in Stops : n \in Nat /\ n > 0)
      /\ record \in Stops \cup {NoStop} /\ queued.id \in Stops \cup {NoStop}
      /\ (\A b \in Actors : actor[b].id \in Stops \cup {NoStop})
      /\ settled \subseteq Stops /\ lapsed \subseteq Stops /\ faults \in Nat
  BY <1>i, Shapes
<1>e. /\ resend[i][g].stage = "confirm" /\ resend'[i][g].stage = "loop"
      /\ \A j \in Stops, h \in Links : j # i \/ h # g => resend'[j][h] = resend[j][h]
      /\ \/ queued.id = i /\ queued'.id = NoStop /\ queued'.final = FALSE
         \/ queued.id # i /\ queued' = queued
      /\ UNCHANGED <<record, placed, lapsed, next, settled, inGrace, graceTask, linkUp,
                     linkGen, legacy, actor, overs, faults, restarts>>
  BY <1>i, <1>a, <1>s DEF Confirm, NotQueued, Resend, Sending, FinalTypeOK, stopStore, stopLink, stopCounts
<1>n. NothingEnded' => /\ NothingEnded /\ settled = {} /\ lapsed = {} /\ settled' = {}
                         /\ lapsed' = {} /\ faults' = faults
                         /\ \A j \in Stops, h \in Links : resend'[j][h].stage # "claiming"
  BY <1>i, <1>s, <1>e DEF NothingEnded, GraceOrder, OverOnce, AckIsOver, LoadIsOver
<1>1. OverOnce'
  BY <1>i, <1>a, <1>s, <1>e DEF OverOnce, LoadIsOver, AckIsOver
<1>2. FreshIds'
  BY <1>i, <1>a, <1>s, <1>e DEF FreshIds, GraceOrder
<1>3. PlacedFirst'
  BY <1>i, <1>a, <1>s, <1>e DEF PlacedFirst, BindOrder, FreshIds, GraceOrder
<1>4. RecordIsQueued'
  BY <1>i, <1>a, <1>s, <1>e, <1>n DEF RecordIsQueued, BindOrder, FreshIds, PlacedFirst, GraceOrder, OverOnce, AckIsOver, LoadIsOver
<1>5. QueuedIsResent'
  BY <1>i, <1>a, <1>s, <1>e, <1>n, QueuedIs, QueuedIsNext DEF QueuedIsResent, BindOrder, RecordIsQueued, FreshIds, GraceOrder
<1> QED
  BY <1>i, <1>e, <1>1, <1>2, <1>3, <1>4, <1>5, BindOrderFrame, GraceOrderFrame,
     SettlesOnceFrame DEF FinalOrder

(* GraceDrops: the record goes when the grace is over.                     *)
LEMMA GraceDropsInv ==
    ASSUME FinalInv, FinalTypeOK', NEW i \in Stops, GraceDrops(i)
    PROVE  FinalOrder'
<1>i. /\ FinalTypeOK /\ BindOrder /\ GraceOrder /\ OverOnce /\ FreshIds
      /\ PlacedFirst /\ RecordIsQueued /\ SettlesOnce /\ QueuedIsResent
  BY DEF FinalInv, FinalOrder
<1>a. /\ "request" \in Actors /\ "claim" \in Actors /\ "dial" \in Actors /\ "timer" \in Actors
      /\ "dial" \in Loads /\ "timer" \in Loads /\ NoStop \notin Stops
      /\ "request" \notin Loads /\ "claim" \notin Loads
      /\ "plain" \in Actors /\ "plain" \notin Loads
  BY DEF Actors, Loads, NoStop, Stops
<1>s. /\ NoStop = 0 /\ next \in Nat /\ next > 0 /\ (\A n \in Stops : n \in Nat /\ n > 0)
      /\ record \in Stops \cup {NoStop} /\ queued.id \in Stops \cup {NoStop}
      /\ (\A b \in Actors : actor[b].id \in Stops \cup {NoStop})
      /\ settled \subseteq Stops /\ lapsed \subseteq Stops /\ faults \in Nat
  BY <1>i, Shapes
<1>e. /\ graceTask[i] = "sleeping" /\ graceTask'[i] = "leaving"
      /\ \A j \in Stops : j # i => graceTask'[j] = graceTask[j]
      /\ \/ record = i /\ record' = NoStop /\ faults' = faults
         \/ record' = record /\ placed' = placed /\ faults' \in {faults, faults + 1}
      /\ UNCHANGED <<lapsed, next, queued, settled, inGrace, linkUp, linkGen, legacy,
                     actor, resend, overs, restarts>>
  BY <1>i, <1>a, <1>s DEF GraceDrops, Finish, Fault, FinalTypeOK, stopStore, stopLink, stopCounts
<1>n. NothingEnded' => /\ NothingEnded /\ settled = {} /\ lapsed = {} /\ settled' = {}
                         /\ lapsed' = {} /\ faults' = faults
                         /\ \A j \in Stops, h \in Links : resend'[j][h].stage # "claiming"
  BY <1>i, <1>s, <1>e DEF NothingEnded, GraceOrder, OverOnce, AckIsOver, LoadIsOver
<1>1. GraceOrder'
  BY <1>i, <1>a, <1>s, <1>e DEF GraceOrder
<1>2. FreshIds'
  BY <1>i, <1>a, <1>s, <1>e DEF FreshIds, GraceOrder
<1>3. PlacedFirst'
  BY <1>i, <1>a, <1>s, <1>e DEF PlacedFirst, BindOrder, FreshIds, GraceOrder
<1>4. RecordIsQueued'
  BY <1>i, <1>a, <1>s, <1>e, <1>n DEF RecordIsQueued, BindOrder, FreshIds, PlacedFirst, GraceOrder, OverOnce, AckIsOver, LoadIsOver
<1>5. QueuedIsResent'
  BY <1>i, <1>a, <1>s, <1>e, <1>n, QueuedIs, QueuedIsNext DEF QueuedIsResent, BindOrder, RecordIsQueued, FreshIds, GraceOrder
<1> QED
  BY <1>i, <1>e, <1>1, <1>2, <1>3, <1>4, <1>5, BindOrderFrame, OverOnceFrame,
     SettlesOnceFrame DEF FinalOrder

(* GraceLeft: the grace is left.                                           *)
LEMMA GraceLeftInv ==
    ASSUME FinalInv, FinalTypeOK', NEW i \in Stops, GraceLeft(i)
    PROVE  FinalOrder'
<1>i. /\ FinalTypeOK /\ BindOrder /\ GraceOrder /\ OverOnce /\ FreshIds
      /\ PlacedFirst /\ RecordIsQueued /\ SettlesOnce /\ QueuedIsResent
  BY DEF FinalInv, FinalOrder
<1>a. /\ "request" \in Actors /\ "claim" \in Actors /\ "dial" \in Actors /\ "timer" \in Actors
      /\ "dial" \in Loads /\ "timer" \in Loads /\ NoStop \notin Stops
      /\ "request" \notin Loads /\ "claim" \notin Loads
      /\ "plain" \in Actors /\ "plain" \notin Loads
  BY DEF Actors, Loads, NoStop, Stops
<1>s. /\ NoStop = 0 /\ next \in Nat /\ next > 0 /\ (\A n \in Stops : n \in Nat /\ n > 0)
      /\ record \in Stops \cup {NoStop} /\ queued.id \in Stops \cup {NoStop}
      /\ (\A b \in Actors : actor[b].id \in Stops \cup {NoStop})
      /\ settled \subseteq Stops /\ lapsed \subseteq Stops /\ faults \in Nat
  BY <1>i, Shapes
<1>e. /\ graceTask[i] = "leaving" /\ graceTask'[i] = "none" /\ inGrace' = inGrace \ {i}
      /\ \A j \in Stops : j # i => graceTask'[j] = graceTask[j]
      /\ UNCHANGED <<record, placed, lapsed, next, queued, settled, linkUp, linkGen,
                     legacy, actor, resend, overs, faults, restarts>>
  BY <1>i, <1>a, <1>s DEF GraceLeft, FinalTypeOK, stopStore, stopLink, stopCounts
<1>1. GraceOrder'
  BY <1>i, <1>a, <1>s, <1>e DEF GraceOrder
<1> QED
  BY <1>i, <1>e, <1>1, BindOrderFrame, OverOnceFrame, FreshIdsFrame, PlacedFirstFrame,
     RecordIsQueuedFrame, SettlesOnceFrame, QueuedIsResentFrame DEF FinalOrder

(* Lapse: the recorded stop is past its bound.                             *)
LEMMA LapseInv ==
    ASSUME FinalInv, FinalTypeOK', Lapse
    PROVE  FinalOrder'
<1>i. /\ FinalTypeOK /\ BindOrder /\ GraceOrder /\ OverOnce /\ FreshIds
      /\ PlacedFirst /\ RecordIsQueued /\ SettlesOnce /\ QueuedIsResent
  BY DEF FinalInv, FinalOrder
<1>a. /\ "request" \in Actors /\ "claim" \in Actors /\ "dial" \in Actors /\ "timer" \in Actors
      /\ "dial" \in Loads /\ "timer" \in Loads /\ NoStop \notin Stops
      /\ "request" \notin Loads /\ "claim" \notin Loads
      /\ "plain" \in Actors /\ "plain" \notin Loads
  BY DEF Actors, Loads, NoStop, Stops
<1>s. /\ NoStop = 0 /\ next \in Nat /\ next > 0 /\ (\A n \in Stops : n \in Nat /\ n > 0)
      /\ record \in Stops \cup {NoStop} /\ queued.id \in Stops \cup {NoStop}
      /\ (\A b \in Actors : actor[b].id \in Stops \cup {NoStop})
      /\ settled \subseteq Stops /\ lapsed \subseteq Stops /\ faults \in Nat
  BY <1>i, Shapes
<1>e. /\ lapsed' = lapsed \cup {record}
      /\ UNCHANGED <<record, placed, next, queued, settled, inGrace, graceTask, linkUp,
                     linkGen, legacy, actor, resend, overs, faults, restarts>>
  BY <1>i, <1>a, <1>s DEF Lapse, FinalTypeOK, stopStore, stopLink, stopCounts
<1>n. NothingEnded' => /\ NothingEnded /\ settled = {} /\ lapsed = {} /\ settled' = {}
                         /\ lapsed' = {} /\ faults' = faults
                         /\ \A j \in Stops, h \in Links : resend'[j][h].stage # "claiming"
  BY <1>i, <1>s, <1>e DEF NothingEnded, GraceOrder, OverOnce, AckIsOver, LoadIsOver
<1>1. GraceOrder'
  BY <1>i, <1>a, <1>s, <1>e DEF GraceOrder
<1>2. PlacedFirst'
  BY <1>i, <1>a, <1>s, <1>e DEF PlacedFirst, BindOrder, FreshIds, GraceOrder
<1>3. RecordIsQueued'
  BY <1>i, <1>a, <1>s, <1>e, <1>n DEF RecordIsQueued, BindOrder, FreshIds, PlacedFirst, GraceOrder, OverOnce, AckIsOver, LoadIsOver
<1>4. QueuedIsResent'
  BY <1>i, <1>a, <1>s, <1>e, <1>n, QueuedIs, QueuedIsNext DEF QueuedIsResent, BindOrder, RecordIsQueued, FreshIds, GraceOrder
<1> QED
  BY <1>i, <1>e, <1>1, <1>2, <1>3, <1>4, BindOrderFrame, OverOnceFrame, FreshIdsFrame,
     SettlesOnceFrame DEF FinalOrder

(* Restart: the store and the links bound so far stay.                     *)
LEMMA RestartInv ==
    ASSUME FinalInv, FinalTypeOK', Restart
    PROVE  FinalOrder'
<1>i. /\ FinalTypeOK /\ BindOrder /\ GraceOrder /\ OverOnce /\ FreshIds
      /\ PlacedFirst /\ RecordIsQueued /\ SettlesOnce /\ QueuedIsResent
  BY DEF FinalInv, FinalOrder
<1>a. /\ "request" \in Actors /\ "claim" \in Actors /\ "dial" \in Actors /\ "timer" \in Actors
      /\ "dial" \in Loads /\ "timer" \in Loads /\ NoStop \notin Stops
      /\ "request" \notin Loads /\ "claim" \notin Loads
      /\ "plain" \in Actors /\ "plain" \notin Loads
  BY DEF Actors, Loads, NoStop, Stops
<1>s. /\ NoStop = 0 /\ next \in Nat /\ next > 0 /\ (\A n \in Stops : n \in Nat /\ n > 0)
      /\ record \in Stops \cup {NoStop} /\ queued.id \in Stops \cup {NoStop}
      /\ (\A b \in Actors : actor[b].id \in Stops \cup {NoStop})
      /\ settled \subseteq Stops /\ lapsed \subseteq Stops /\ faults \in Nat
  BY <1>i, Shapes
<1>e. /\ queued'.id = NoStop /\ queued'.final = FALSE /\ settled' = {} /\ inGrace' = {} /\ ~linkUp'
      /\ \A i \in Stops : graceTask'[i] = "none" /\ overs'[i] = 0
      /\ \A a \in Actors : actor'[a].stage = "idle" /\ actor'[a].id = NoStop
      /\ \A i \in Stops, g \in Links : resend'[i][g].stage = "idle"
      /\ UNCHANGED <<record, placed, lapsed, next, linkGen, faults>>
  BY <1>i, <1>a, <1>s DEF Restart, NotQueued, Idle, Doing, NotSending, Sending, FinalTypeOK, stopStore, stopLink, stopCounts
<1>1. BindOrder'
  BY <1>i, <1>a, <1>s, <1>e DEF BindOrder
<1>2. GraceOrder'
  BY <1>i, <1>a, <1>s, <1>e DEF GraceOrder
<1>3. OverOnce'
  BY <1>i, <1>a, <1>s, <1>e DEF OverOnce, LoadIsOver, AckIsOver
<1>4. FreshIds'
  BY <1>i, <1>a, <1>s, <1>e DEF FreshIds, GraceOrder
<1>5. PlacedFirst'
  BY <1>i, <1>a, <1>s, <1>e DEF PlacedFirst, BindOrder, FreshIds, GraceOrder
<1>6. RecordIsQueued'
  BY <1>i, <1>a, <1>s, <1>e DEF RecordIsQueued, BindOrder, FreshIds, PlacedFirst, GraceOrder, OverOnce, AckIsOver, LoadIsOver
<1>7. SettlesOnce'
  BY <1>i, <1>a, <1>s, <1>e DEF SettlesOnce
<1>8. QueuedIsResent'
  BY <1>i, <1>a, <1>s, <1>e, QueuedIs, QueuedIsNext DEF QueuedIsResent, BindOrder, RecordIsQueued, FreshIds, GraceOrder
<1> QED
  BY <1>i, <1>e, <1>1, <1>2, <1>3, <1>4, <1>5, <1>6, <1>7, <1>8 DEF FinalOrder

-----------------------------------------------------------------------------
(* A resender's state has its shape, whoever changes it, ...               *)
LEMMA ResendTyped ==
    ASSUME FinalTypeOK, NEW i \in Stops, NEW g \in Links, NEW s,
           s \in [stage : ResendStages, durable : BOOLEAN, final : BOOLEAN, asFinal : BOOLEAN],
           resend' = [resend EXCEPT ![i][g] = s]
    PROVE  resend' \in [Stops -> [Links -> [stage : ResendStages, durable : BOOLEAN,
                                            final : BOOLEAN, asFinal : BOOLEAN]]]
<1> DEFINE R == [stage : ResendStages, durable : BOOLEAN, final : BOOLEAN, asFinal : BOOLEAN]
<1>1. resend \in [Stops -> [Links -> R]] /\ s \in R
  BY DEF FinalTypeOK
<1> HIDE DEF R
<1>2. resend' \in [Stops -> [Links -> R]]
  BY <1>1
<1> QED
  BY <1>2 DEF R

(* ... and so has one that starts.                                         *)
LEMMA SpawnedTyped ==
    ASSUME FinalTypeOK, BindOrder, NEW i \in Stops, resend' = Spawned(i)
    PROVE  resend' \in [Stops -> [Links -> [stage : ResendStages, durable : BOOLEAN,
                                            final : BOOLEAN, asFinal : BOOLEAN]]]
<1>1. CASE resend' = resend
  BY <1>1 DEF FinalTypeOK
<1>2. CASE linkUp /\ resend' = [resend EXCEPT ![i][linkGen] = Sending("loop")]
  <2>1. linkGen \in Links
    BY <1>2 DEF BindOrder
  <2>2. Sending("loop") \in [stage : ResendStages, durable : BOOLEAN, final : BOOLEAN, asFinal : BOOLEAN]
    BY DEF Sending, ResendStages
  <2> QED
    BY <1>2, <2>1, <2>2, ResendTyped
<1> QED
  BY <1>1, <1>2 DEF Spawned

(* An actor's state has its shape.                                         *)
LEMMA ActTyped ==
    ASSUME FinalTypeOK, NEW a \in Actors, NEW w,
           w \in [stage : ActorStages, id : Stops \cup {NoStop}, durable : BOOLEAN], Act(a, w)
    PROVE  actor' \in [Actors -> [stage : ActorStages, id : Stops \cup {NoStop}, durable : BOOLEAN]]
<1> DEFINE A == [stage : ActorStages, id : Stops \cup {NoStop}, durable : BOOLEAN]
<1>1. actor \in [Actors -> A] /\ w \in A
  BY DEF FinalTypeOK
<1> HIDE DEF A
<1>2. actor' \in [Actors -> A]
  BY <1>1 DEF Act
<1> QED
  BY <1>2 DEF A

(* Every step keeps the types: RequestStop, ...                            *)
LEMMA RequestStopType ==
    ASSUME FinalInv, RequestStop
    PROVE  FinalTypeOK'
<1>i. FinalTypeOK /\ BindOrder /\ FreshIds
  BY DEF FinalInv, FinalOrder
<1>m. "plain" \in Actors
  BY DEF Actors, Loads
<1>u. UNCHANGED <<record, placed, lapsed, settled, inGrace, graceTask, linkUp, legacy, linkGen, resend, overs, faults, restarts>>
  BY DEF RequestStop, stopStore, stopLink, stopCounts
<1>1. queued' \in StopRecords \cup {NotQueued}
  BY <1>i DEF RequestStop, FinalTypeOK, Queued, StopRecords
<1>2. next' \in 1..(MaxStops + 1)
  BY <1>i, FinalStopAssumption DEF RequestStop, FinalTypeOK, Stops
<1>3. actor' \in [Actors -> [stage : ActorStages, id : Stops \cup {NoStop}, durable : BOOLEAN]]
  <2>1. PICK q : q = queued'.id
    OBVIOUS
  <2>2. q \in Stops \cup {NoStop}
    BY <1>1, <2>1 DEF StopRecords, NotQueued
  <2>3. Act("plain", Doing("looking", q, FALSE))
    BY <2>1 DEF RequestStop, Act
  <2>4. Doing("looking", q, FALSE) \in [stage : ActorStages, id : Stops \cup {NoStop}, durable : BOOLEAN]
    BY <2>2 DEF Doing, ActorStages
  <2> QED
    BY <1>i, <1>m, <2>3, <2>4, ActTyped
<1> QED
  BY <1>i, <1>u, <1>1, <1>2, <1>3 DEF FinalTypeOK

(* ... RequestLooks, ...                                                   *)
LEMMA RequestLooksType ==
    ASSUME FinalInv, RequestLooks
    PROVE  FinalTypeOK'
<1>i. FinalTypeOK /\ BindOrder /\ FreshIds
  BY DEF FinalInv, FinalOrder
<1>m. "plain" \in Actors
  BY DEF Actors, Loads
<1>u. UNCHANGED <<record, placed, lapsed, next, queued, settled, inGrace, graceTask, linkUp, legacy, linkGen, overs, faults, restarts>>
  BY DEF RequestLooks, stopStore, stopLink, stopCounts
<1>1. actor' \in [Actors -> [stage : ActorStages, id : Stops \cup {NoStop}, durable : BOOLEAN]]
  <2>1. Idle \in [stage : ActorStages, id : Stops \cup {NoStop}, durable : BOOLEAN]
    BY DEF Idle, Doing, ActorStages
  <2> QED
    BY <1>i, <1>m, <2>1, ActTyped DEF RequestLooks
<1>2. resend' \in [Stops -> [Links -> [stage : ResendStages, durable : BOOLEAN,
                                             final : BOOLEAN, asFinal : BOOLEAN]]]
  <2>1. actor["plain"].id \in Stops
    BY <1>i, <1>m DEF RequestLooks, FreshIds, FinalTypeOK
  <2> QED
    BY <1>i, <2>1, SpawnedTyped DEF RequestLooks
<1> QED
  BY <1>i, <1>u, <1>1, <1>2 DEF FinalTypeOK

(* ... FinalStop, ...                                                      *)
LEMMA FinalStopType ==
    ASSUME FinalInv, FinalStop
    PROVE  FinalTypeOK'
<1>i. FinalTypeOK /\ BindOrder /\ FreshIds
  BY DEF FinalInv, FinalOrder
<1>m. "request" \in Actors
  BY DEF Actors, Loads
<1>u. UNCHANGED <<record, next, placed, lapsed, settled, inGrace, queued, graceTask, linkUp, legacy, linkGen, resend, overs, restarts>>
  BY DEF FinalStop, stopStore, stopLink, stopCounts
<1>1. actor' \in [Actors -> [stage : ActorStages, id : Stops \cup {NoStop}, durable : BOOLEAN]]
  <2>1. PICK d \in BOOLEAN : Act("request", Doing("recording", NoStop, d))
    BY <1>i, Zenon DEF FinalStop, FinalTypeOK
  <2>2. Doing("recording", NoStop, d) \in [stage : ActorStages, id : Stops \cup {NoStop}, durable : BOOLEAN]
    BY DEF Doing, ActorStages
  <2> QED
    BY <1>i, <1>m, <2>1, <2>2, ActTyped
<1>2. faults' \in 0..MaxFaults
  <2>1. faults' = faults \/ (faults < MaxFaults /\ faults' = faults + 1)
    BY DEF FinalStop, Fault
  <2> QED
    BY <1>i, <2>1, FinalStopAssumption DEF FinalTypeOK
<1> QED
  BY <1>i, <1>u, <1>1, <1>2 DEF FinalTypeOK

(* ... FinalRecorded, ...                                                  *)
LEMMA FinalRecordedType ==
    ASSUME FinalInv, FinalRecorded
    PROVE  FinalTypeOK'
<1>i. FinalTypeOK /\ BindOrder /\ FreshIds
  BY DEF FinalInv, FinalOrder
<1>m. "request" \in Actors
  BY DEF Actors, Loads
<1>u. UNCHANGED <<placed, lapsed, settled, inGrace, queued, graceTask, linkUp, legacy, linkGen, resend, overs, restarts>>
  BY DEF FinalRecorded, stopStore, stopLink, stopCounts
<1>1. record' \in Stops \cup {NoStop}
  BY <1>i DEF FinalRecorded, FinalTypeOK
<1>2. next' \in 1..(MaxStops + 1)
  <2>1. next' = next \/ (next \in Stops /\ next' = next + 1)
    BY DEF FinalRecorded
  <2> QED
    BY <1>i, <2>1, FinalStopAssumption DEF FinalTypeOK, Stops
<1>3. actor' \in [Actors -> [stage : ActorStages, id : Stops \cup {NoStop}, durable : BOOLEAN]]
  <2>1. PICK w : w \in [stage : ActorStages, id : Stops \cup {NoStop}, durable : BOOLEAN] /\ Act("request", w)
    <3>1. CASE Act("request", Doing("queuing", record, TRUE))
      BY <1>i, <3>1 DEF FinalTypeOK, ActorStages, Doing
    <3>2. CASE next \in Stops /\ Act("request", Doing("queuing", next, TRUE))
      BY <3>2 DEF ActorStages, Doing
    <3>3. CASE next \in Stops /\ Act("request", Doing("queuing", next, FALSE))
      BY <3>3 DEF ActorStages, Doing
    <3> QED
      BY <3>1, <3>2, <3>3 DEF FinalRecorded
  <2> QED
    BY <1>i, <1>m, <2>1, ActTyped
<1>4. faults' \in 0..MaxFaults
  <2>1. faults' = faults \/ (faults < MaxFaults /\ faults' = faults + 1)
    BY DEF FinalRecorded, Fault
  <2> QED
    BY <1>i, <2>1, FinalStopAssumption DEF FinalTypeOK
<1> QED
  BY <1>i, <1>u, <1>1, <1>2, <1>3, <1>4 DEF FinalTypeOK

(* ... RequestDropped, ...                                                 *)
LEMMA RequestDroppedType ==
    ASSUME FinalInv, RequestDropped
    PROVE  FinalTypeOK'
<1>i. FinalTypeOK /\ BindOrder /\ FreshIds
  BY DEF FinalInv, FinalOrder
<1>m. "request" \in Actors
  BY DEF Actors, Loads
<1>u. UNCHANGED <<record, placed, lapsed, settled, inGrace, next, queued, graceTask, linkUp, legacy, linkGen, resend, overs, restarts>>
  BY DEF RequestDropped, stopStore, stopLink, stopCounts
<1>1. actor' \in [Actors -> [stage : ActorStages, id : Stops \cup {NoStop}, durable : BOOLEAN]]
  <2>1. PICK w : w \in [stage : ActorStages, id : Stops \cup {NoStop}, durable : BOOLEAN] /\ Act("request", w)
    BY DEF RequestDropped, ActorStages, Doing, Idle
  <2> QED
    BY <1>i, <1>m, <2>1, ActTyped
<1>2. faults' \in 0..MaxFaults
  <2>1. faults' = faults \/ (faults < MaxFaults /\ faults' = faults + 1)
    BY DEF RequestDropped, Fault
  <2> QED
    BY <1>i, <2>1, FinalStopAssumption DEF FinalTypeOK
<1> QED
  BY <1>i, <1>u, <1>1, <1>2 DEF FinalTypeOK

(* ... and an actor that is through, ...                                   *)
LEMMA ThroughTyped ==
    ASSUME NEW a \in Actors
    PROVE  Through(a) \in [stage : ActorStages, id : Stops \cup {NoStop}, durable : BOOLEAN]
  BY DEF Through, Doing, Idle, ActorStages

(* ... QueueFinal, ...                                                     *)
LEMMA QueueFinalType ==
    ASSUME FinalInv, NEW a \in Actors, QueueFinal(a)
    PROVE  FinalTypeOK'
<1>i. FinalTypeOK /\ BindOrder /\ FreshIds
  BY DEF FinalInv, FinalOrder
<1>m. a \in Actors
  BY DEF Actors, Loads
<1>u. UNCHANGED <<record, placed, lapsed, settled, inGrace, next, graceTask, linkUp, legacy, linkGen, resend, overs, faults, restarts>>
  BY DEF QueueFinal, stopStore, stopLink, stopCounts
<1>1. queued' \in StopRecords \cup {NotQueued}
  <2>1. actor[a].id \in Stops /\ actor[a].durable \in BOOLEAN
    BY <1>i DEF QueueFinal, FreshIds, FinalTypeOK
  <2>2. Queued(actor[a].id, TRUE, actor[a].durable) \in StopRecords
    BY <2>1 DEF Queued, StopRecords
  <2>3. queued \in StopRecords \cup {NotQueued}
    BY <1>i DEF FinalTypeOK
  <2> QED
    BY <2>2, <2>3 DEF QueueFinal
<1>2. actor' \in [Actors -> [stage : ActorStages, id : Stops \cup {NoStop}, durable : BOOLEAN]]
  <2>1. PICK w : w \in [stage : ActorStages, id : Stops \cup {NoStop}, durable : BOOLEAN] /\ Act(a, w)
    <3>1. actor[a].id \in Stops \cup {NoStop} /\ actor[a].durable \in BOOLEAN
      BY <1>i DEF FinalTypeOK
    <3>2. Doing("beginning", actor[a].id, actor[a].durable) \in [stage : ActorStages, id : Stops \cup {NoStop}, durable : BOOLEAN] /\ Idle \in [stage : ActorStages, id : Stops \cup {NoStop}, durable : BOOLEAN]
      BY <3>1 DEF Doing, Idle, ActorStages
    <3> QED
      BY <3>2, ThroughTyped DEF QueueFinal
  <2> QED
    BY <1>i, <1>m, <2>1, ActTyped
<1> QED
  BY <1>i, <1>u, <1>1, <1>2 DEF FinalTypeOK

(* ... Begin, ...                                                          *)
LEMMA BeginType ==
    ASSUME FinalInv, NEW a \in Actors, Begin(a)
    PROVE  FinalTypeOK'
<1>i. FinalTypeOK /\ BindOrder /\ FreshIds
  BY DEF FinalInv, FinalOrder
<1>m. a \in Actors
  BY DEF Actors, Loads
<1>u. UNCHANGED <<record, placed, lapsed, settled, inGrace, next, queued, graceTask, linkUp, legacy, linkGen, overs, faults, restarts>>
  BY DEF Begin, stopStore, stopLink, stopCounts
<1>1. actor' \in [Actors -> [stage : ActorStages, id : Stops \cup {NoStop}, durable : BOOLEAN]]
  <2>1. PICK w : w \in [stage : ActorStages, id : Stops \cup {NoStop}, durable : BOOLEAN] /\ Act(a, w)
    BY ThroughTyped DEF Begin
  <2> QED
    BY <1>i, <1>m, <2>1, ActTyped
<1>2. resend' \in [Stops -> [Links -> [stage : ResendStages, durable : BOOLEAN,
                                             final : BOOLEAN, asFinal : BOOLEAN]]]
  <2>1. actor[a].id \in Stops
    BY <1>i DEF Begin, FreshIds, FinalTypeOK
  <2>2. CASE resend' = resend
    BY <1>i, <2>2 DEF FinalTypeOK
  <2>3. CASE resend' = Spawned(actor[a].id)
    BY <1>i, <2>1, <2>3, SpawnedTyped
  <2> QED
    BY <2>2, <2>3 DEF Begin
<1> QED
  BY <1>i, <1>u, <1>1, <1>2 DEF FinalTypeOK

(* ... LoadList, ...                                                       *)
LEMMA LoadListType ==
    ASSUME FinalInv, NEW a \in Loads, LoadList(a)
    PROVE  FinalTypeOK'
<1>i. FinalTypeOK /\ BindOrder /\ FreshIds
  BY DEF FinalInv, FinalOrder
<1>m. a \in Actors
  BY DEF Actors, Loads
<1>u. UNCHANGED <<record, placed, lapsed, settled, inGrace, next, queued, graceTask, linkUp, legacy, linkGen, resend, overs, faults, restarts>>
  BY DEF LoadList, stopStore, stopLink, stopCounts
<1>1. actor' \in [Actors -> [stage : ActorStages, id : Stops \cup {NoStop}, durable : BOOLEAN]]
  <2>1. PICK w : w \in [stage : ActorStages, id : Stops \cup {NoStop}, durable : BOOLEAN] /\ Act(a, w)
    <3>1. Doing("listed", record, TRUE) \in [stage : ActorStages, id : Stops \cup {NoStop}, durable : BOOLEAN]
      BY <1>i DEF FinalTypeOK, Doing, ActorStages
    <3> QED
      BY <1>m, <3>1, ThroughTyped DEF LoadList
  <2> QED
    BY <1>i, <1>m, <2>1, ActTyped
<1> QED
  BY <1>i, <1>u, <1>1 DEF FinalTypeOK

(* ... LoadFails, ...                                                      *)
LEMMA LoadFailsType ==
    ASSUME FinalInv, NEW a \in Loads, LoadFails(a)
    PROVE  FinalTypeOK'
<1>i. FinalTypeOK /\ BindOrder /\ FreshIds
  BY DEF FinalInv, FinalOrder
<1>m. a \in Actors
  BY DEF Actors, Loads
<1>u. UNCHANGED <<record, placed, lapsed, settled, inGrace, next, queued, graceTask, linkUp, legacy, linkGen, resend, overs, restarts>>
  BY DEF LoadFails, stopStore, stopLink, stopCounts
<1>1. actor' \in [Actors -> [stage : ActorStages, id : Stops \cup {NoStop}, durable : BOOLEAN]]
  <2>1. PICK w : w \in [stage : ActorStages, id : Stops \cup {NoStop}, durable : BOOLEAN] /\ Act(a, w)
    BY <1>m, ThroughTyped DEF LoadFails
  <2> QED
    BY <1>i, <1>m, <2>1, ActTyped
<1>2. faults' \in 0..MaxFaults
  <2>1. faults' = faults \/ (faults < MaxFaults /\ faults' = faults + 1)
    BY DEF LoadFails, Fault
  <2> QED
    BY <1>i, <2>1, FinalStopAssumption DEF FinalTypeOK
<1> QED
  BY <1>i, <1>u, <1>1, <1>2 DEF FinalTypeOK

(* ... LoadLook, ...                                                       *)
LEMMA LoadLookType ==
    ASSUME FinalInv, NEW a \in Loads, LoadLook(a)
    PROVE  FinalTypeOK'
<1>i. FinalTypeOK /\ BindOrder /\ FreshIds
  BY DEF FinalInv, FinalOrder
<1>m. a \in Actors
  BY DEF Actors, Loads
<1>u. UNCHANGED <<record, placed, lapsed, settled, inGrace, next, queued, graceTask, linkUp, legacy, linkGen, resend, overs, faults, restarts>>
  BY DEF LoadLook, stopStore, stopLink, stopCounts
<1>1. actor' \in [Actors -> [stage : ActorStages, id : Stops \cup {NoStop}, durable : BOOLEAN]]
  <2>1. PICK w : w \in [stage : ActorStages, id : Stops \cup {NoStop}, durable : BOOLEAN] /\ Act(a, w)
    <3>1. actor[a].id \in Stops \cup {NoStop}
      BY <1>i, <1>m DEF FinalTypeOK
    <3>2. \A x \in {"dropping", "expiring", "queuing"} : Doing(x, actor[a].id, TRUE) \in [stage : ActorStages, id : Stops \cup {NoStop}, durable : BOOLEAN]
      BY <3>1 DEF Doing, ActorStages
    <3>3. Through(a) \in [stage : ActorStages, id : Stops \cup {NoStop}, durable : BOOLEAN]
      BY <1>m, ThroughTyped
    <3>4. \/ Act(a, Through(a)) \/ Act(a, Doing("dropping", actor[a].id, TRUE))
          \/ Act(a, Doing("expiring", actor[a].id, TRUE)) \/ Act(a, Doing("queuing", actor[a].id, TRUE))
      BY DEF LoadLook
    <3> QED
      BY <3>2, <3>3, <3>4
  <2> QED
    BY <1>i, <1>m, <2>1, ActTyped
<1> QED
  BY <1>i, <1>u, <1>1 DEF FinalTypeOK

(* ... LoadDrops, ...                                                      *)
LEMMA LoadDropsType ==
    ASSUME FinalInv, NEW a \in Loads, LoadDrops(a)
    PROVE  FinalTypeOK'
<1>i. FinalTypeOK /\ BindOrder /\ FreshIds
  BY DEF FinalInv, FinalOrder
<1>m. a \in Actors
  BY DEF Actors, Loads
<1>u. UNCHANGED <<lapsed, settled, inGrace, next, queued, graceTask, linkUp, legacy, linkGen, resend, overs, restarts>>
  BY DEF LoadDrops, stopStore, stopLink, stopCounts
<1>1. actor' \in [Actors -> [stage : ActorStages, id : Stops \cup {NoStop}, durable : BOOLEAN]]
  <2>1. PICK w : w \in [stage : ActorStages, id : Stops \cup {NoStop}, durable : BOOLEAN] /\ Act(a, w)
    BY <1>m, ThroughTyped DEF LoadDrops
  <2> QED
    BY <1>i, <1>m, <2>1, ActTyped
<1>2. record' \in Stops \cup {NoStop}
  BY <1>i DEF LoadDrops, Finish, FinalTypeOK
<1>3. placed' \in BOOLEAN
  BY <1>i, Zenon DEF LoadDrops, Finish, FinalTypeOK
<1>4. faults' \in 0..MaxFaults
  <2>1. faults' = faults \/ (faults < MaxFaults /\ faults' = faults + 1)
    BY DEF LoadDrops, Fault
  <2> QED
    BY <1>i, <2>1, FinalStopAssumption DEF FinalTypeOK
<1> QED
  BY <1>i, <1>u, <1>1, <1>2, <1>3, <1>4 DEF FinalTypeOK

(* ... LoadExpires, ...                                                    *)
LEMMA LoadExpiresType ==
    ASSUME FinalInv, NEW a \in Loads, LoadExpires(a)
    PROVE  FinalTypeOK'
<1>i. FinalTypeOK /\ BindOrder /\ FreshIds
  BY DEF FinalInv, FinalOrder
<1>m. a \in Actors
  BY DEF Actors, Loads
<1>u. UNCHANGED <<lapsed, settled, inGrace, next, queued, graceTask, linkUp, legacy, linkGen, resend, overs, restarts>>
  BY DEF LoadExpires, stopStore, stopLink, stopCounts
<1>1. actor' \in [Actors -> [stage : ActorStages, id : Stops \cup {NoStop}, durable : BOOLEAN]]
  <2>1. PICK w : w \in [stage : ActorStages, id : Stops \cup {NoStop}, durable : BOOLEAN] /\ Act(a, w)
    <3>1. actor[a].id \in Stops \cup {NoStop}
      BY <1>i, <1>m DEF FinalTypeOK
    <3>2. Doing("claiming", actor[a].id, TRUE) \in [stage : ActorStages, id : Stops \cup {NoStop}, durable : BOOLEAN]
      BY <3>1 DEF Doing, ActorStages
    <3> QED
      BY <1>m, <3>2, ThroughTyped DEF LoadExpires
  <2> QED
    BY <1>i, <1>m, <2>1, ActTyped
<1>2. record' \in Stops \cup {NoStop}
  BY <1>i DEF LoadExpires, Finish, FinalTypeOK
<1>3. placed' \in BOOLEAN
  BY <1>i, Zenon DEF LoadExpires, Finish, FinalTypeOK
<1>4. faults' \in 0..MaxFaults
  <2>1. faults' = faults \/ (faults < MaxFaults /\ faults' = faults + 1)
    BY DEF LoadExpires, Fault
  <2> QED
    BY <1>i, <2>1, FinalStopAssumption DEF FinalTypeOK
<1> QED
  BY <1>i, <1>u, <1>1, <1>2, <1>3, <1>4 DEF FinalTypeOK

(* ... LoadClaims, ...                                                     *)
LEMMA LoadClaimsType ==
    ASSUME FinalInv, NEW a \in Loads, LoadClaims(a)
    PROVE  FinalTypeOK'
<1>i. FinalTypeOK /\ BindOrder /\ FreshIds
  BY DEF FinalInv, FinalOrder
<1>m. a \in Actors
  BY DEF Actors, Loads
<1>u. UNCHANGED <<record, placed, lapsed, inGrace, next, graceTask, linkUp, legacy, linkGen, resend, overs, faults, restarts>>
  BY DEF LoadClaims, stopStore, stopLink, stopCounts
<1>1. actor' \in [Actors -> [stage : ActorStages, id : Stops \cup {NoStop}, durable : BOOLEAN]]
  <2>1. PICK w : w \in [stage : ActorStages, id : Stops \cup {NoStop}, durable : BOOLEAN] /\ Act(a, w)
    <3>1. actor[a].id \in Stops \cup {NoStop}
      BY <1>i, <1>m DEF FinalTypeOK
    <3>2. Doing("over", actor[a].id, TRUE) \in [stage : ActorStages, id : Stops \cup {NoStop}, durable : BOOLEAN]
      BY <3>1 DEF Doing, ActorStages
    <3> QED
      BY <1>m, <3>2, ThroughTyped DEF LoadClaims
  <2> QED
    BY <1>i, <1>m, <2>1, ActTyped
<1>2. settled' \subseteq Stops
  <2>1. actor[a].id \in Stops
    BY <1>i, <1>m DEF LoadClaims, FinalTypeOK, FinalInv, FinalOrder, GraceOrder
  <2> QED
    BY <1>i, <2>1 DEF LoadClaims, FinalTypeOK
<1>3. queued' \in StopRecords \cup {NotQueued}
  BY <1>i DEF LoadClaims, FinalTypeOK
<1> QED
  BY <1>i, <1>u, <1>1, <1>2, <1>3 DEF FinalTypeOK

(* ... LoadOver, ...                                                       *)
LEMMA LoadOverType ==
    ASSUME FinalInv, NEW a \in Loads, LoadOver(a)
    PROVE  FinalTypeOK'
<1>i. FinalTypeOK /\ BindOrder /\ FreshIds
  BY DEF FinalInv, FinalOrder
<1>m. a \in Actors
  BY DEF Actors, Loads
<1>u. UNCHANGED <<record, placed, lapsed, settled, inGrace, next, queued, graceTask, linkUp, legacy, linkGen, resend, faults, restarts>>
  BY DEF LoadOver, stopStore, stopLink, stopCounts
<1>1. actor' \in [Actors -> [stage : ActorStages, id : Stops \cup {NoStop}, durable : BOOLEAN]]
  <2>1. PICK w : w \in [stage : ActorStages, id : Stops \cup {NoStop}, durable : BOOLEAN] /\ Act(a, w)
    BY <1>m, ThroughTyped DEF LoadOver
  <2> QED
    BY <1>i, <1>m, <2>1, ActTyped
<1>2. overs' \in [Stops -> Nat]
  <2>1. actor[a].id \in Stops
    BY <1>i, <1>m DEF LoadOver, FinalTypeOK, FreshIds
  <2>2. overs \in [Stops -> Nat]
    BY <1>i DEF FinalTypeOK
  <2> QED
    BY <2>1, <2>2 DEF LoadOver, Over
<1> QED
  BY <1>i, <1>u, <1>1, <1>2 DEF FinalTypeOK

(* ... Claim, ...                                                          *)
LEMMA ClaimType ==
    ASSUME FinalInv, Claim
    PROVE  FinalTypeOK'
<1>i. FinalTypeOK /\ BindOrder /\ FreshIds
  BY DEF FinalInv, FinalOrder
<1>m. "claim" \in Actors /\ "dial" \in Actors
  BY DEF Actors, Loads
<1>u. UNCHANGED <<record, placed, lapsed, settled, inGrace, next, queued, graceTask, linkUp, legacy, linkGen, resend, overs, faults, restarts>>
  BY DEF Claim, stopStore, stopLink, stopCounts
<1>1. actor' \in [Actors -> [stage : ActorStages, id : Stops \cup {NoStop}, durable : BOOLEAN]]
  <2>1. PICK w : w \in [stage : ActorStages, id : Stops \cup {NoStop}, durable : BOOLEAN] /\ Act("claim", w)
    <3>1. Doing("reading", record, placed) \in [stage : ActorStages, id : Stops \cup {NoStop}, durable : BOOLEAN]
      BY <1>i DEF FinalTypeOK, Doing, ActorStages
    <3> QED
      BY <3>1 DEF Claim
  <2> QED
    BY <1>i, <1>m, <2>1, ActTyped
<1> QED
  BY <1>i, <1>u, <1>1 DEF FinalTypeOK

(* ... ClaimActs, ...                                                      *)
LEMMA ClaimActsType ==
    ASSUME FinalInv, ClaimActs
    PROVE  FinalTypeOK'
<1>i. FinalTypeOK /\ BindOrder /\ FreshIds
  BY DEF FinalInv, FinalOrder
<1>m. "claim" \in Actors /\ "dial" \in Actors
  BY DEF Actors, Loads
<1>u. UNCHANGED <<placed, lapsed, settled, inGrace, queued, graceTask, linkUp, legacy, linkGen, resend, overs, restarts>>
  BY DEF ClaimActs, stopStore, stopLink, stopCounts
<1>1. record' \in Stops \cup {NoStop}
  BY <1>i DEF ClaimActs, FinalTypeOK
<1>2. next' \in 1..(MaxStops + 1)
  <2>1. next' = next \/ (next \in Stops /\ next' = next + 1)
    BY DEF ClaimActs
  <2> QED
    BY <1>i, <2>1, FinalStopAssumption DEF FinalTypeOK, Stops
<1>3. actor' \in [Actors -> [stage : ActorStages, id : Stops \cup {NoStop}, durable : BOOLEAN]]
  <2>1. PICK w : w \in [stage : ActorStages, id : Stops \cup {NoStop}, durable : BOOLEAN] /\ Act("claim", w)
    <3>1. /\ record \in Stops \cup {NoStop} /\ record' \in Stops \cup {NoStop}
          /\ actor["claim"].id \in Stops \cup {NoStop}
      BY <1>i, <1>m, <1>1 DEF FinalTypeOK
    <3>2. \/ Act("claim", Doing("queuing", actor["claim"].id, TRUE)) \/ Act("claim", Idle)
          \/ Act("claim", Doing("queuing", record', TRUE))
          \/ next \in Stops /\ Act("claim", Doing("queuing", next, FALSE))
      BY DEF ClaimActs
    <3>3. \A j \in Stops \cup {NoStop} : \A d \in BOOLEAN : Doing("queuing", j, d) \in [stage : ActorStages, id : Stops \cup {NoStop}, durable : BOOLEAN]
      BY DEF Doing, ActorStages
    <3>4. Idle \in [stage : ActorStages, id : Stops \cup {NoStop}, durable : BOOLEAN]
      BY DEF Idle, Doing, ActorStages
    <3> QED
      BY <3>1, <3>2, <3>3, <3>4
  <2> QED
    BY <1>i, <1>m, <2>1, ActTyped
<1>4. faults' \in 0..MaxFaults
  <2>1. faults' = faults \/ (faults < MaxFaults /\ faults' = faults + 1)
    BY DEF ClaimActs, Fault
  <2> QED
    BY <1>i, <2>1, FinalStopAssumption DEF FinalTypeOK
<1> QED
  BY <1>i, <1>u, <1>1, <1>2, <1>3, <1>4 DEF FinalTypeOK

(* ... Publish, ...                                                        *)
LEMMA PublishType ==
    ASSUME FinalInv, Publish
    PROVE  FinalTypeOK'
<1>i. FinalTypeOK /\ BindOrder /\ FreshIds
  BY DEF FinalInv, FinalOrder
<1>m. "claim" \in Actors /\ "dial" \in Actors
  BY DEF Actors, Loads
<1>u. UNCHANGED <<record, placed, lapsed, settled, inGrace, next, queued, graceTask, resend, overs, faults, restarts>>
  BY DEF Publish, stopStore, stopLink, stopCounts
<1>1. linkUp' \in BOOLEAN
  BY Zenon DEF Publish
<1>2. legacy' \in BOOLEAN
  BY Zenon DEF Publish
<1>3. linkGen' \in 0..MaxLinks
  BY <1>i, FinalStopAssumption DEF Publish, FinalTypeOK
<1>4. actor' \in [Actors -> [stage : ActorStages, id : Stops \cup {NoStop}, durable : BOOLEAN]]
  <2> DEFINE A == [stage : ActorStages, id : Stops \cup {NoStop}, durable : BOOLEAN]
  <2>1. actor \in [Actors -> A]
    BY <1>i DEF FinalTypeOK
  <2>2. Idle \in A /\ Doing("publishing", NoStop, FALSE) \in A
    BY DEF Idle, Doing, ActorStages
  <2> HIDE DEF A
  <2>3. actor' \in [Actors -> A]
    BY <2>1, <2>2 DEF Publish
  <2> QED
    BY <2>3 DEF A
<1> QED
  BY <1>i, <1>u, <1>1, <1>2, <1>3, <1>4 DEF FinalTypeOK

(* ... ResendQueued, ...                                                   *)
LEMMA ResendQueuedType ==
    ASSUME FinalInv, ResendQueued
    PROVE  FinalTypeOK'
<1>i. FinalTypeOK /\ BindOrder /\ FreshIds
  BY DEF FinalInv, FinalOrder
<1>m. "claim" \in Actors /\ "dial" \in Actors
  BY DEF Actors, Loads
<1>u. UNCHANGED <<record, placed, lapsed, settled, inGrace, next, queued, graceTask, linkUp, legacy, linkGen, overs, faults, restarts>>
  BY DEF ResendQueued, stopStore, stopLink, stopCounts
<1>1. actor' \in [Actors -> [stage : ActorStages, id : Stops \cup {NoStop}, durable : BOOLEAN]]
  <2>1. PICK w : w \in [stage : ActorStages, id : Stops \cup {NoStop}, durable : BOOLEAN] /\ Act("claim", w)
    BY DEF ResendQueued, ActorStages, Doing, Idle
  <2> QED
    BY <1>i, <1>m, <2>1, ActTyped
<1>2. resend' \in [Stops -> [Links -> [stage : ResendStages, durable : BOOLEAN,
                                             final : BOOLEAN, asFinal : BOOLEAN]]]
  <2>2. CASE resend' = resend
    BY <1>i, <2>2 DEF FinalTypeOK
  <2>3. CASE queued # NotQueued /\ resend' = Spawned(queued.id)
    <3>1. queued.id \in Stops
      BY <1>i, <2>3 DEF FinalTypeOK, StopRecords
    <3> QED
      BY <1>i, <2>3, <3>1, SpawnedTyped
  <2> QED
    BY <2>2, <2>3 DEF ResendQueued
<1> QED
  BY <1>i, <1>u, <1>1, <1>2 DEF FinalTypeOK

(* ... LinkLost, ...                                                       *)
LEMMA LinkLostType ==
    ASSUME FinalInv, LinkLost
    PROVE  FinalTypeOK'
<1>i. FinalTypeOK /\ BindOrder /\ FreshIds
  BY DEF FinalInv, FinalOrder
<1>u. UNCHANGED <<record, placed, lapsed, settled, inGrace, next, queued, graceTask, linkGen, actor, overs, faults, restarts>>
  BY DEF LinkLost, stopStore, stopLink, stopCounts
<1>1. linkUp' \in BOOLEAN
  BY Zenon DEF LinkLost
<1>2. legacy' \in BOOLEAN
  BY Zenon DEF LinkLost
<1>3. resend' \in [Stops -> [Links -> [stage : ResendStages, durable : BOOLEAN,
                                             final : BOOLEAN, asFinal : BOOLEAN]]]
  <2> DEFINE R == [stage : ResendStages, durable : BOOLEAN, final : BOOLEAN, asFinal : BOOLEAN]
  <2>1. resend \in [Stops -> [Links -> R]]
    BY <1>i DEF FinalTypeOK
  <2>2. NotSending \in R
    BY DEF NotSending, Sending, ResendStages
  <2> HIDE DEF R
  <2>3. resend' \in [Stops -> [Links -> R]]
    BY <2>1, <2>2 DEF LinkLost
  <2> QED
    BY <2>3 DEF R
<1> QED
  BY <1>i, <1>u, <1>1, <1>2, <1>3 DEF FinalTypeOK

(* ... DialFails, ...                                                      *)
LEMMA DialFailsType ==
    ASSUME FinalInv, DialFails
    PROVE  FinalTypeOK'
<1>i. FinalTypeOK /\ BindOrder /\ FreshIds
  BY DEF FinalInv, FinalOrder
<1>m. "claim" \in Actors /\ "dial" \in Actors
  BY DEF Actors, Loads
<1>u. UNCHANGED <<record, placed, lapsed, settled, inGrace, next, graceTask, linkUp, legacy, linkGen, resend, overs, faults, restarts>>
  BY DEF DialFails, stopStore, stopLink, stopCounts
<1>1. actor' \in [Actors -> [stage : ActorStages, id : Stops \cup {NoStop}, durable : BOOLEAN]]
  <2>1. PICK w : w \in [stage : ActorStages, id : Stops \cup {NoStop}, durable : BOOLEAN] /\ Act("dial", w)
    BY DEF DialFails, ActorStages, Doing, Idle
  <2> QED
    BY <1>i, <1>m, <2>1, ActTyped
<1>2. queued' \in StopRecords \cup {NotQueued}
  BY <1>i DEF DialFails, FinalTypeOK
<1> QED
  BY <1>i, <1>u, <1>1, <1>2 DEF FinalTypeOK

(* ... and a resender that goes to another stage, ...                      *)
LEMMA SendingTyped ==
    ASSUME NEW s \in ResendStages
    PROVE  Sending(s) \in [stage : ResendStages, durable : BOOLEAN, final : BOOLEAN, asFinal : BOOLEAN]
  BY DEF Sending

(* ... Send, ...                                                           *)
LEMMA SendType ==
    ASSUME FinalInv, NEW i \in Stops, NEW g \in Links, Send(i, g)
    PROVE  FinalTypeOK'
<1>i. FinalTypeOK /\ BindOrder /\ FreshIds
  BY DEF FinalInv, FinalOrder
<1>u. UNCHANGED <<record, placed, lapsed, settled, inGrace, next, queued, graceTask, linkUp, legacy, linkGen, actor, overs, faults, restarts>>
  BY DEF Send, stopStore, stopLink, stopCounts
<1>1. resend' \in [Stops -> [Links -> [stage : ResendStages, durable : BOOLEAN,
                                             final : BOOLEAN, asFinal : BOOLEAN]]]
  <2>1. PICK s : s \in [stage : ResendStages, durable : BOOLEAN, final : BOOLEAN, asFinal : BOOLEAN] /\ resend' = [resend EXCEPT ![i][g] = s]
    <3>1. NotSending \in [stage : ResendStages, durable : BOOLEAN, final : BOOLEAN, asFinal : BOOLEAN]
      BY SendingTyped DEF NotSending, ResendStages
    <3>2. queued.durable \in BOOLEAN /\ queued.final \in BOOLEAN
      <4>1. CASE queued = NotQueued
        BY <4>1, Zenon DEF NotQueued
      <4>2. CASE queued \in StopRecords
        BY <4>2 DEF StopRecords
      <4> QED
        BY <1>i, <4>1, <4>2 DEF FinalTypeOK
    <3>3. (queued.final /\ ~legacy) \in BOOLEAN
      OBVIOUS
    <3>4. [stage |-> "sent", durable |-> queued.durable, final |-> queued.final,
           asFinal |-> queued.final /\ ~legacy] \in [stage : ResendStages, durable : BOOLEAN, final : BOOLEAN, asFinal : BOOLEAN]
      BY <3>2, <3>3 DEF ResendStages
    <3> QED
      BY <3>1, <3>4 DEF Send
  <2> QED
    BY <1>i, <2>1, ResendTyped
<1> QED
  BY <1>i, <1>u, <1>1 DEF FinalTypeOK

(* ... SendTimesOut, ...                                                   *)
LEMMA SendTimesOutType ==
    ASSUME FinalInv, NEW i \in Stops, NEW g \in Links, SendTimesOut(i, g)
    PROVE  FinalTypeOK'
<1>i. FinalTypeOK /\ BindOrder /\ FreshIds
  BY DEF FinalInv, FinalOrder
<1>u. UNCHANGED <<record, placed, lapsed, settled, inGrace, next, queued, graceTask, linkUp, legacy, linkGen, actor, overs, faults, restarts>>
  BY DEF SendTimesOut, stopStore, stopLink, stopCounts
<1>1. resend' \in [Stops -> [Links -> [stage : ResendStages, durable : BOOLEAN,
                                             final : BOOLEAN, asFinal : BOOLEAN]]]
  <2>1. PICK s : s \in [stage : ResendStages, durable : BOOLEAN, final : BOOLEAN, asFinal : BOOLEAN] /\ resend' = [resend EXCEPT ![i][g] = s]
    <3>1. "loop" \in ResendStages
      BY DEF ResendStages
    <3> QED
      BY <3>1, SendingTyped DEF SendTimesOut, Resend
  <2> QED
    BY <1>i, <2>1, ResendTyped
<1> QED
  BY <1>i, <1>u, <1>1 DEF FinalTypeOK

(* ... Acked, ...                                                          *)
LEMMA AckedType ==
    ASSUME FinalInv, NEW i \in Stops, NEW g \in Links, Acked(i, g)
    PROVE  FinalTypeOK'
<1>i. FinalTypeOK /\ BindOrder /\ FreshIds
  BY DEF FinalInv, FinalOrder
<1>u. UNCHANGED <<record, placed, lapsed, next, queued, linkUp, legacy, linkGen, actor, overs, faults, restarts>>
  BY DEF Acked, stopStore, stopLink, stopCounts
<1>1. resend' \in [Stops -> [Links -> [stage : ResendStages, durable : BOOLEAN,
                                             final : BOOLEAN, asFinal : BOOLEAN]]]
  <2>1. PICK s : s \in [stage : ResendStages, durable : BOOLEAN, final : BOOLEAN, asFinal : BOOLEAN] /\ resend' = [resend EXCEPT ![i][g] = s]
    <3>1. "dropping" \in ResendStages /\ "over" \in ResendStages /\ "confirm" \in ResendStages
      BY DEF ResendStages
    <3> QED
      BY <3>1, SendingTyped DEF Acked, Settle, Resend
  <2> QED
    BY <1>i, <2>1, ResendTyped
<1>2. settled' \subseteq Stops
  BY <1>i DEF Acked, Settle, FinalTypeOK
<1>3. inGrace' \subseteq Stops
  BY <1>i DEF Acked, Settle, FinalTypeOK
<1>4. graceTask' \in [Stops -> {"none", "sleeping", "leaving"}]
  BY <1>i DEF Acked, Settle, FinalTypeOK
<1> QED
  BY <1>i, <1>u, <1>1, <1>2, <1>3, <1>4 DEF FinalTypeOK

(* ... AckDrops, ...                                                       *)
LEMMA AckDropsType ==
    ASSUME FinalInv, NEW i \in Stops, NEW g \in Links, AckDrops(i, g)
    PROVE  FinalTypeOK'
<1>i. FinalTypeOK /\ BindOrder /\ FreshIds
  BY DEF FinalInv, FinalOrder
<1>u. UNCHANGED <<lapsed, settled, inGrace, next, queued, graceTask, linkUp, legacy, linkGen, actor, overs, restarts>>
  BY DEF AckDrops, stopStore, stopLink, stopCounts
<1>1. resend' \in [Stops -> [Links -> [stage : ResendStages, durable : BOOLEAN,
                                             final : BOOLEAN, asFinal : BOOLEAN]]]
  <2>1. PICK s : s \in [stage : ResendStages, durable : BOOLEAN, final : BOOLEAN, asFinal : BOOLEAN] /\ resend' = [resend EXCEPT ![i][g] = s]
    <3>1. "claiming" \in ResendStages /\ "confirm" \in ResendStages
      BY DEF ResendStages
    <3> QED
      BY <3>1, SendingTyped DEF AckDrops, Resend
  <2> QED
    BY <1>i, <2>1, ResendTyped
<1>2. record' \in Stops \cup {NoStop}
  BY <1>i DEF AckDrops, Finish, FinalTypeOK
<1>3. placed' \in BOOLEAN
  BY <1>i, Zenon DEF AckDrops, Finish, FinalTypeOK
<1>4. faults' \in 0..MaxFaults
  <2>1. faults' = faults \/ (faults < MaxFaults /\ faults' = faults + 1)
    BY DEF AckDrops, Fault
  <2> QED
    BY <1>i, <2>1, FinalStopAssumption DEF FinalTypeOK
<1> QED
  BY <1>i, <1>u, <1>1, <1>2, <1>3, <1>4 DEF FinalTypeOK

(* ... AckClaims, ...                                                      *)
LEMMA AckClaimsType ==
    ASSUME FinalInv, NEW i \in Stops, NEW g \in Links, AckClaims(i, g)
    PROVE  FinalTypeOK'
<1>i. FinalTypeOK /\ BindOrder /\ FreshIds
  BY DEF FinalInv, FinalOrder
<1>u. UNCHANGED <<record, placed, lapsed, next, queued, linkUp, legacy, linkGen, actor, overs, faults, restarts>>
  BY DEF AckClaims, stopStore, stopLink, stopCounts
<1>1. resend' \in [Stops -> [Links -> [stage : ResendStages, durable : BOOLEAN,
                                             final : BOOLEAN, asFinal : BOOLEAN]]]
  <2>1. PICK s : s \in [stage : ResendStages, durable : BOOLEAN, final : BOOLEAN, asFinal : BOOLEAN] /\ resend' = [resend EXCEPT ![i][g] = s]
    <3>1. "over" \in ResendStages /\ "confirm" \in ResendStages
      BY DEF ResendStages
    <3> QED
      BY <3>1, SendingTyped DEF AckClaims, Settle, Resend
  <2> QED
    BY <1>i, <2>1, ResendTyped
<1>2. settled' \subseteq Stops
  BY <1>i DEF AckClaims, Settle, FinalTypeOK
<1>3. inGrace' \subseteq Stops
  BY <1>i DEF AckClaims, Settle, FinalTypeOK
<1>4. graceTask' \in [Stops -> {"none", "sleeping", "leaving"}]
  BY <1>i DEF AckClaims, Settle, FinalTypeOK
<1> QED
  BY <1>i, <1>u, <1>1, <1>2, <1>3, <1>4 DEF FinalTypeOK

(* ... AckOver, ...                                                        *)
LEMMA AckOverType ==
    ASSUME FinalInv, NEW i \in Stops, NEW g \in Links, AckOver(i, g)
    PROVE  FinalTypeOK'
<1>i. FinalTypeOK /\ BindOrder /\ FreshIds
  BY DEF FinalInv, FinalOrder
<1>u. UNCHANGED <<record, placed, lapsed, settled, inGrace, next, queued, graceTask, linkUp, legacy, linkGen, actor, faults, restarts>>
  BY DEF AckOver, stopStore, stopLink, stopCounts
<1>1. resend' \in [Stops -> [Links -> [stage : ResendStages, durable : BOOLEAN,
                                             final : BOOLEAN, asFinal : BOOLEAN]]]
  <2>1. PICK s : s \in [stage : ResendStages, durable : BOOLEAN, final : BOOLEAN, asFinal : BOOLEAN] /\ resend' = [resend EXCEPT ![i][g] = s]
    <3>1. "confirm" \in ResendStages
      BY DEF ResendStages
    <3> QED
      BY <3>1, SendingTyped DEF AckOver, Resend
  <2> QED
    BY <1>i, <2>1, ResendTyped
<1>2. overs' \in [Stops -> Nat]
  BY <1>i DEF AckOver, Over, FinalTypeOK
<1> QED
  BY <1>i, <1>u, <1>1, <1>2 DEF FinalTypeOK

(* ... Confirm, ...                                                        *)
LEMMA ConfirmType ==
    ASSUME FinalInv, NEW i \in Stops, NEW g \in Links, Confirm(i, g)
    PROVE  FinalTypeOK'
<1>i. FinalTypeOK /\ BindOrder /\ FreshIds
  BY DEF FinalInv, FinalOrder
<1>u. UNCHANGED <<record, placed, lapsed, settled, inGrace, next, graceTask, linkUp, legacy, linkGen, actor, overs, faults, restarts>>
  BY DEF Confirm, stopStore, stopLink, stopCounts
<1>1. resend' \in [Stops -> [Links -> [stage : ResendStages, durable : BOOLEAN,
                                             final : BOOLEAN, asFinal : BOOLEAN]]]
  <2>1. PICK s : s \in [stage : ResendStages, durable : BOOLEAN, final : BOOLEAN, asFinal : BOOLEAN] /\ resend' = [resend EXCEPT ![i][g] = s]
    <3>1. "loop" \in ResendStages
      BY DEF ResendStages
    <3> QED
      BY <3>1, SendingTyped DEF Confirm, Resend
  <2> QED
    BY <1>i, <2>1, ResendTyped
<1>2. queued' \in StopRecords \cup {NotQueued}
  BY <1>i DEF Confirm, FinalTypeOK
<1> QED
  BY <1>i, <1>u, <1>1, <1>2 DEF FinalTypeOK

(* ... GraceDrops, ...                                                     *)
LEMMA GraceDropsType ==
    ASSUME FinalInv, NEW i \in Stops, GraceDrops(i)
    PROVE  FinalTypeOK'
<1>i. FinalTypeOK /\ BindOrder /\ FreshIds
  BY DEF FinalInv, FinalOrder
<1>u. UNCHANGED <<lapsed, settled, inGrace, next, queued, linkUp, legacy, linkGen, actor, resend, overs, restarts>>
  BY DEF GraceDrops, stopStore, stopLink, stopCounts
<1>1. record' \in Stops \cup {NoStop}
  BY <1>i DEF GraceDrops, Finish, FinalTypeOK
<1>2. placed' \in BOOLEAN
  BY <1>i, Zenon DEF GraceDrops, Finish, FinalTypeOK
<1>3. graceTask' \in [Stops -> {"none", "sleeping", "leaving"}]
  BY <1>i DEF GraceDrops, FinalTypeOK
<1>4. faults' \in 0..MaxFaults
  <2>1. faults' = faults \/ (faults < MaxFaults /\ faults' = faults + 1)
    BY DEF GraceDrops, Fault
  <2> QED
    BY <1>i, <2>1, FinalStopAssumption DEF FinalTypeOK
<1> QED
  BY <1>i, <1>u, <1>1, <1>2, <1>3, <1>4 DEF FinalTypeOK

(* ... GraceLeft, ...                                                      *)
LEMMA GraceLeftType ==
    ASSUME FinalInv, NEW i \in Stops, GraceLeft(i)
    PROVE  FinalTypeOK'
<1>i. FinalTypeOK /\ BindOrder /\ FreshIds
  BY DEF FinalInv, FinalOrder
<1>u. UNCHANGED <<record, placed, lapsed, settled, next, queued, linkUp, legacy, linkGen, actor, resend, overs, faults, restarts>>
  BY DEF GraceLeft, stopStore, stopLink, stopCounts
<1>1. inGrace' \subseteq Stops
  BY <1>i DEF GraceLeft, FinalTypeOK
<1>2. graceTask' \in [Stops -> {"none", "sleeping", "leaving"}]
  BY <1>i DEF GraceLeft, FinalTypeOK
<1> QED
  BY <1>i, <1>u, <1>1, <1>2 DEF FinalTypeOK

(* ... Lapse ...                                                           *)
LEMMA LapseType ==
    ASSUME FinalInv, Lapse
    PROVE  FinalTypeOK'
<1>i. FinalTypeOK /\ BindOrder /\ FreshIds
  BY DEF FinalInv, FinalOrder
<1>u. UNCHANGED <<record, placed, settled, inGrace, next, queued, graceTask, linkUp, legacy, linkGen, actor, resend, overs, faults, restarts>>
  BY DEF Lapse, stopStore, stopLink, stopCounts
<1>1. lapsed' \subseteq Stops
  BY <1>i DEF Lapse, FinalTypeOK
<1> QED
  BY <1>i, <1>u, <1>1 DEF FinalTypeOK

(* ... and Restart.                                                        *)
LEMMA RestartType ==
    ASSUME FinalInv, Restart
    PROVE  FinalTypeOK'
<1>i. FinalTypeOK /\ BindOrder /\ FreshIds
  BY DEF FinalInv, FinalOrder
<1>u. UNCHANGED <<record, placed, lapsed, next, linkGen, faults>>
  BY DEF Restart, stopStore, stopLink, stopCounts
<1>1. queued' \in StopRecords \cup {NotQueued}
  BY DEF Restart
<1>2. settled' \subseteq Stops
  BY DEF Restart
<1>3. inGrace' \subseteq Stops
  BY DEF Restart
<1>4. graceTask' \in [Stops -> {"none", "sleeping", "leaving"}]
  BY DEF Restart
<1>5. linkUp' \in BOOLEAN
  BY Zenon DEF Restart
<1>6. legacy' \in BOOLEAN
  BY Zenon DEF Restart
<1>7. actor' \in [Actors -> [stage : ActorStages, id : Stops \cup {NoStop}, durable : BOOLEAN]]
  <2>1. Idle \in [stage : ActorStages, id : Stops \cup {NoStop}, durable : BOOLEAN]
    BY DEF Idle, Doing, ActorStages
  <2> QED
    BY <2>1 DEF Restart
<1>8. resend' \in [Stops -> [Links -> [stage : ResendStages, durable : BOOLEAN,
                                             final : BOOLEAN, asFinal : BOOLEAN]]]
  <2>1. NotSending \in [stage : ResendStages, durable : BOOLEAN, final : BOOLEAN, asFinal : BOOLEAN]
    BY DEF NotSending, Sending, ResendStages
  <2> QED
    BY <2>1 DEF Restart
<1>9. overs' \in [Stops -> Nat]
  BY DEF Restart
<1>10. restarts' \in 0..MaxRestarts
  BY <1>i, FinalStopAssumption DEF Restart, FinalTypeOK
<1> QED
  BY <1>i, <1>u, <1>1, <1>2, <1>3, <1>4, <1>5, <1>6, <1>7, <1>8, <1>9, <1>10 DEF FinalTypeOK

-----------------------------------------------------------------------------
(* The invariant holds at the start, ...                                   *)
LEMMA InitFinalInv == FinalInit => FinalInv
<1> SUFFICES ASSUME FinalInit PROVE FinalInv
  OBVIOUS
<1>a. /\ "request" \in Actors /\ "plain" \in Actors /\ "claim" \in Actors /\ "dial" \in Actors
      /\ NoStop = 0 /\ \A i \in Stops : i \in Nat /\ i > 0
  BY FinalStopAssumption DEF Actors, Loads, NoStop, Stops
<1>1. actor \in [Actors -> [stage : ActorStages, id : Stops \cup {NoStop}, durable : BOOLEAN]]
  <2>1. Idle \in [stage : ActorStages, id : Stops \cup {NoStop}, durable : BOOLEAN]
    BY DEF Idle, Doing, ActorStages
  <2> QED
    BY <2>1 DEF FinalInit
<1>2. resend \in [Stops -> [Links -> [stage : ResendStages, durable : BOOLEAN,
                                             final : BOOLEAN, asFinal : BOOLEAN]]]
  <2>1. NotSending \in [stage : ResendStages, durable : BOOLEAN, final : BOOLEAN, asFinal : BOOLEAN]
    BY DEF NotSending, Sending, ResendStages
  <2> QED
    BY <2>1 DEF FinalInit
<1>3. placed \in BOOLEAN /\ linkUp \in BOOLEAN /\ legacy \in BOOLEAN
  BY Zenon DEF FinalInit
<1>4. /\ record = NoStop /\ lapsed = {} /\ settled = {} /\ inGrace = {} /\ next = 1
      /\ queued = NotQueued /\ linkGen = 0 /\ faults = 0 /\ restarts = 0
      /\ graceTask = [i \in Stops |-> "none"] /\ overs = [i \in Stops |-> 0]
  BY DEF FinalInit
<1>5. FinalTypeOK
  BY <1>1, <1>2, <1>3, <1>4, FinalStopAssumption DEF FinalTypeOK
<1>6. /\ ~linkUp /\ placed /\ queued.id = NoStop
      /\ \A a \in Actors : actor[a].stage = "idle" /\ actor[a].id = NoStop
      /\ \A i \in Stops, g \in Links : resend[i][g].stage = "idle"
      /\ \A i \in Stops : overs[i] = 0 /\ graceTask[i] = "none"
  BY DEF FinalInit, Idle, Doing, NotSending, Sending, NotQueued
<1>7. BindOrder /\ GraceOrder /\ SettlesOnce /\ QueuedIsResent
  BY <1>a, <1>4, <1>6 DEF BindOrder, GraceOrder, SettlesOnce, QueuedIsResent
<1>8. OverOnce
  BY <1>6 DEF OverOnce, LoadIsOver, AckIsOver
<1>9. FreshIds
  BY <1>a, <1>4, <1>6 DEF FreshIds
<1>10. PlacedFirst
  BY <1>a, <1>4, <1>6 DEF PlacedFirst
<1>11. RecordIsQueued
  BY <1>a, <1>4, <1>6 DEF RecordIsQueued
<1> QED
  BY <1>5, <1>7, <1>8, <1>9, <1>10, <1>11 DEF FinalInv, FinalOrder

(* ... and every step keeps it.                                            *)
LEMMA FinalInvNext == FinalInv /\ [FinalNext]_finalVars => FinalInv'
<1> SUFFICES ASSUME FinalInv, [FinalNext]_finalVars PROVE FinalInv'
  OBVIOUS
<1> USE DEF FinalInv
<1>1. CASE RequestStop
  BY <1>1, RequestStopType, RequestStopInv
<1>31. CASE RequestLooks
  BY <1>31, RequestLooksType, RequestLooksInv
<1>2. CASE FinalStop
  BY <1>2, FinalStopType, FinalStopInv
<1>32. CASE FinalRecorded
  BY <1>32, FinalRecordedType, FinalRecordedInv
<1>3. CASE RequestDropped
  BY <1>3, RequestDroppedType, RequestDroppedInv
<1>4. CASE Claim
  BY <1>4, ClaimType, ClaimInv
<1>5. CASE Publish
  BY <1>5, PublishType, PublishInv
<1>6. CASE LinkLost
  BY <1>6, LinkLostType, LinkLostInv
<1>7. CASE DialFails
  BY <1>7, DialFailsType, DialFailsInv
<1>8. CASE Lapse
  BY <1>8, LapseType, LapseInv
<1>9. CASE Restart
  BY <1>9, RestartType, RestartInv
<1>10. CASE ClaimActs
  BY <1>10, ClaimActsType, ClaimActsInv
<1>11. CASE ResendQueued
  BY <1>11, ResendQueuedType, ResendQueuedInv
<1>12. ASSUME NEW a \in Actors, QueueFinal(a) PROVE FinalInv'
  BY <1>12, QueueFinalType, QueueFinalInv
<1>13. ASSUME NEW a \in Actors, Begin(a) PROVE FinalInv'
  BY <1>13, BeginType, BeginInv
<1>14. ASSUME NEW a \in Loads, LoadList(a) PROVE FinalInv'
  BY <1>14, LoadListType, LoadListInv
<1>15. ASSUME NEW a \in Loads, LoadFails(a) PROVE FinalInv'
  BY <1>15, LoadFailsType, LoadFailsInv
<1>16. ASSUME NEW a \in Loads, LoadLook(a) PROVE FinalInv'
  BY <1>16, LoadLookType, LoadLookInv
<1>17. ASSUME NEW a \in Loads, LoadDrops(a) PROVE FinalInv'
  BY <1>17, LoadDropsType, LoadDropsInv
<1>18. ASSUME NEW a \in Loads, LoadExpires(a) PROVE FinalInv'
  BY <1>18, LoadExpiresType, LoadExpiresInv
<1>19. ASSUME NEW a \in Loads, LoadClaims(a) PROVE FinalInv'
  BY <1>19, LoadClaimsType, LoadClaimsInv
<1>20. ASSUME NEW a \in Loads, LoadOver(a) PROVE FinalInv'
  BY <1>20, LoadOverType, LoadOverInv
<1>21. ASSUME NEW i \in Stops, NEW g \in Links, Send(i, g) PROVE FinalInv'
  BY <1>21, SendType, SendInv
<1>22. ASSUME NEW i \in Stops, NEW g \in Links, SendTimesOut(i, g) PROVE FinalInv'
  BY <1>22, SendTimesOutType, SendTimesOutInv
<1>23. ASSUME NEW i \in Stops, NEW g \in Links, Acked(i, g) PROVE FinalInv'
  BY <1>23, AckedType, AckedInv
<1>24. ASSUME NEW i \in Stops, NEW g \in Links, AckDrops(i, g) PROVE FinalInv'
  BY <1>24, AckDropsType, AckDropsInv
<1>25. ASSUME NEW i \in Stops, NEW g \in Links, AckClaims(i, g) PROVE FinalInv'
  BY <1>25, AckClaimsType, AckClaimsInv
<1>26. ASSUME NEW i \in Stops, NEW g \in Links, AckOver(i, g) PROVE FinalInv'
  BY <1>26, AckOverType, AckOverInv
<1>27. ASSUME NEW i \in Stops, NEW g \in Links, Confirm(i, g) PROVE FinalInv'
  BY <1>27, ConfirmType, ConfirmInv
<1>28. ASSUME NEW i \in Stops, GraceDrops(i) PROVE FinalInv'
  BY <1>28, GraceDropsType, GraceDropsInv
<1>29. ASSUME NEW i \in Stops, GraceLeft(i) PROVE FinalInv'
  BY <1>29, GraceLeftType, GraceLeftInv
<1>30. CASE UNCHANGED finalVars
  <2>1. UNCHANGED <<record, placed, lapsed, next, queued, settled, inGrace, graceTask, linkUp, linkGen,
                    legacy, actor, resend, overs, faults, restarts>>
    BY <1>30 DEF finalVars, stopStore, stopLink, stopCounts
  <2>2. FinalTypeOK'
    BY <2>1 DEF FinalTypeOK
  <2> QED
    BY <2>1, <2>2, BindOrderFrame, GraceOrderFrame, OverOnceFrame, FreshIdsFrame, PlacedFirstFrame,
       RecordIsQueuedFrame, SettlesOnceFrame, QueuedIsResentFrame DEF FinalOrder
<1> QED
  BY <1>1, <1>2, <1>3, <1>4, <1>5, <1>6, <1>7, <1>8, <1>9, <1>10, <1>11, <1>12, <1>13,
     <1>14, <1>15, <1>16, <1>17, <1>18, <1>19, <1>20, <1>21, <1>22, <1>23, <1>24, <1>25,
     <1>26, <1>27, <1>28, <1>29, <1>30, <1>31, <1>32
     DEF FinalNext, ActorStep, ResendStep, GraceStep

(* The stops keep their order, for any number of stops, links, faults and  *)
(* restarts: the inductive invariant.                                      *)
THEOREM FinalInvariant == FinalSpec => []FinalInv
<1>1. FinalInit => FinalInv
  BY InitFinalInv
<1>2. FinalInv /\ [FinalNext]_finalVars => FinalInv'
  BY FinalInvNext
<1> QED
  BY <1>1, <1>2, PTL DEF FinalSpec

(* final_stop_over runs at most once for a stop in a process, however the  *)
(* acknowledgements of several links and the loads that find it expired    *)
(* interleave: whoever claims its end first is the only one to say so.     *)
THEOREM OverAtMostOnce == FinalSpec => []SettlesOnce
<1>1. FinalInv => SettlesOnce
  BY DEF FinalInv, FinalOrder
<1> QED
  BY <1>1, FinalInvariant, PTL

(* A stop that is queued is being resent on the link that is up, or is     *)
(* about to be, whichever of the request, the claim and the publication    *)
(* came first.                                                             *)
THEOREM QueuedStopsAreResent == FinalSpec => []QueuedIsResent
<1>1. FinalInv => QueuedIsResent
  BY DEF FinalInv, FinalOrder
<1> QED
  BY <1>1, FinalInvariant, PTL

(* A stop in its push grace is in inGrace, so no load drops its record.    *)
LEMMA GraceStepKeepsRecord ==
    ASSUME FinalInv, [FinalNext]_finalVars, NEW i \in Stops,
           graceTask[i] = "sleeping", record = i, record' # i, i \notin lapsed
    PROVE  \/ graceTask'[i] = "leaving"
           \/ \E g \in Links : resend[i][g].stage = "dropping" /\ resend'[i][g].stage = "claiming"
<1>i. FinalTypeOK /\ GraceOrder /\ i \in inGrace /\ i \in Nat /\ i > 0
  BY Shapes DEF FinalInv, FinalOrder, GraceOrder
<1>1. ASSUME NEW j \in Stops, GraceDrops(j) PROVE graceTask'[i] = "leaving"
  <2>1. j = i
    BY <1>1 DEF GraceDrops, Finish
  <2> QED
    BY <1>i, <1>1, <2>1 DEF GraceDrops, FinalTypeOK
<1>2. ASSUME NEW j \in Stops, NEW g \in Links, AckDrops(j, g)
      PROVE  resend[i][g].stage = "dropping" /\ resend'[i][g].stage = "claiming"
  <2>1. j = i
    BY <1>2 DEF AckDrops, Finish
  <2>2. resend[i][g].stage = "dropping" /\ resend' = [resend EXCEPT ![i][g] = Sending("claiming")]
    BY <1>2, <2>1 DEF AckDrops, Finish, Resend
  <2> QED
    BY <1>i, <2>2 DEF FinalTypeOK, Sending
<1>3. ASSUME NEW a \in Loads, LoadDrops(a) PROVE FALSE
  <2>1. actor[a].id = i /\ actor[a].stage = "dropping" /\ a \in Actors
    BY <1>3 DEF LoadDrops, Finish, Actors
  <2> QED
    BY <1>i, <2>1 DEF GraceOrder
<1>4. ASSUME NEW a \in Loads, LoadExpires(a) PROVE FALSE
  <2>1. actor[a].id = i /\ actor[a].stage = "expiring" /\ a \in Actors
    BY <1>4 DEF LoadExpires, Finish, Actors
  <2> QED
    BY <1>i, <2>1 DEF GraceOrder
<1>5. CASE record' = record
  BY <1>5
<1>6. NoStop = 0
  BY DEF NoStop
<1>7. ASSUME NEW a \in Actors, ActorStep(a), record' # record
      PROVE  a \in Loads /\ (LoadDrops(a) \/ LoadExpires(a))
  <2>1. record # NoStop
    BY <1>i, <1>6
  <2>2. ~(QueueFinal(a) \/ Begin(a) \/ LoadList(a) \/ LoadLook(a) \/ LoadClaims(a) \/ LoadOver(a))
    BY <1>7 DEF QueueFinal, Begin, LoadList, LoadLook, LoadClaims, LoadOver, stopStore
  <2>3. ~(ClaimActs \/ ResendQueued)
    BY <1>7, <2>1 DEF ClaimActs, ResendQueued, stopStore
  <2> QED
    BY <1>7, <2>2, <2>3 DEF ActorStep
<1>8. ASSUME NEW j \in Stops, NEW g \in Links, record' # record,
             ResendStep(j, g) \/ SendTimesOut(j, g) \/ Acked(j, g)
      PROVE  AckDrops(j, g)
  BY <1>8 DEF ResendStep, Send, SendTimesOut, Acked, AckClaims, AckOver, Confirm, stopStore
<1>9. ASSUME NEW j \in Stops, record' # record, GraceStep(j) PROVE GraceDrops(j)
  BY <1>9 DEF GraceStep, GraceLeft, stopStore
<1>10. ASSUME record' # record,
              \/ RequestStop \/ RequestLooks \/ FinalStop \/ FinalRecorded \/ RequestDropped
              \/ (\E a \in Loads : LoadFails(a))
              \/ Claim \/ Publish \/ LinkLost \/ DialFails \/ Lapse \/ Restart
              \/ UNCHANGED finalVars
       PROVE  FALSE
  <2>1. record # NoStop
    BY <1>i, <1>6
  <2>2. FinalRecorded => FALSE
    BY <1>10, <2>1 DEF FinalRecorded
  <2>3. RequestStop \/ RequestLooks \/ FinalStop \/ RequestDropped \/ (\E a \in Loads : LoadFails(a)) \/ Claim => FALSE
    BY <1>10 DEF RequestStop, RequestLooks, FinalStop, RequestDropped, LoadFails, Claim, stopStore
  <2>4. Publish \/ LinkLost \/ DialFails \/ Lapse \/ Restart \/ UNCHANGED finalVars => FALSE
    BY <1>10 DEF Publish, LinkLost, DialFails, Lapse, Restart, finalVars, stopStore
  <2> QED
    BY <1>10, <2>2, <2>3, <2>4
<1> QED
  BY <1>1, <1>2, <1>3, <1>4, <1>7, <1>8, <1>9, <1>10 DEF FinalNext

(* The record of a stop acknowledged on an old link, and with it the push  *)
(* it admits, stays until the grace ends, a newer link acknowledges the    *)
(* stop or it is past its bound.                                           *)
THEOREM RecordKeptInGrace == FinalSpec => GraceKeepsRecord
<1>1. FinalInv /\ [FinalNext]_finalVars =>
        [\A i \in Stops :
           graceTask[i] = "sleeping" /\ record = i /\ record' # i /\ i \notin lapsed =>
              \/ graceTask'[i] = "leaving"
              \/ \E g \in Links : resend[i][g].stage = "dropping"
                                    /\ resend'[i][g].stage = "claiming"]_finalVars
  BY GraceStepKeepsRecord
<1> QED
  BY <1>1, FinalInvariant, PTL DEF FinalSpec, GraceKeepsRecord

=============================================================================
