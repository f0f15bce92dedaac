---------------------------- MODULE Replication ----------------------------
(***************************************************************************)
(* The journal of one lease carried from a machine to its backend over     *)
(* links that break: the backend's connector, ingestion and durable        *)
(* acknowledgement (intent-svc-remote: connector.rs, ingest.rs, lease.rs), *)
(* the machine's listener and link sessions (intent-transport executor.rs, *)
(* intentd session.rs) and the frames between them.                        *)
(*                                                                         *)
(* A link is named by the generation its hello offers.  Frames on a link   *)
(* keep their order; a link that is cut, by the network or by one end,     *)
(* loses any suffix of what is still under way in either direction.        *)
(*                                                                         *)
(* What is abstracted:                                                     *)
(*  - the journal's operations are atomic and durable (module Journal      *)
(*    models their file steps); a record is its sequence number;           *)
(*  - a process that dies is started again in the same step: the time it   *)
(*    is away shows as links that are cut before they are bound;           *)
(*  - an agent runs on the machine throughout, so the connector wants the  *)
(*    link (wants_link) and redials whenever it has none;                  *)
(*  - the other frames of the link are not told apart here.                *)
(***************************************************************************)
EXTENDS Integers, Sequences

CONSTANTS MaxSeq,      \* records the machine appends
          MaxGen,      \* links dialed
          MaxFaults,   \* cuts, restarts, failed writes and extra dials
          AckBatch,    \* Tuning::ack_batch: records acknowledged at once
          Faults       \* which faults may strike

FaultKinds == {"cut", "headRestart", "machineRestart", "failedSave",
               "failedClaim", "failedBind", "probe"}

ASSUME ReplicationAssumption ==
    /\ MaxSeq \in Nat
    /\ MaxGen \in Nat
    /\ MaxFaults \in Nat
    /\ AckBatch \in Nat \ {0}
    /\ Faults \subseteq FaultKinds

Gens == 1..MaxGen
Seqs == 1..MaxSeq

VARIABLES
  \* the backend, durable: the lease's ack_seq and link_generation
  hAck, hGen,
  \* the backend process: its connector, the hello it is building, its
  \* link (0: none), its Ingest, the records not yet acknowledged, and a
  \* dial of remoteMachines.add for the same lease (0: none)
  hStage, offer, hLink, ingested, replaying, pending, probe,
  \* history: the acknowledgement this process started from, what it delivered
  base, log,
  \* the machine, durable: the journal and the bound generation
  jAcked, jLast, bound,
  \* the machine process: the binding the listener holds (0: none), the
  \* newest adopted session, and each link's session
  entry, gate, sess,
  \* the links: frames under way, links one end or the network gave up, and
  \* those the machine still holds open
  toHead, toNode, cut, nodeOpen,
  faults

durable  == <<hAck, hGen, jAcked, jLast, bound>>
headVars == <<hStage, offer, hLink, ingested, replaying, pending, probe, base, log>>
nodeVars == <<entry, gate, sess>>
netVars  == <<toHead, toNode, cut, nodeOpen>>
vars == <<durable, headVars, nodeVars, netVars, faults>>

Hello(n)          == [kind |-> "hello", seq |-> n]
Ack(n)            == [kind |-> "ack", seq |-> n]
Welcome           == [kind |-> "welcome", seq |-> 0]
Journal(n)        == [kind |-> "journal", seq |-> n]
ReplayComplete(n) == [kind |-> "replayComplete", seq |-> n]

Max(a, b) == IF a >= b THEN a ELSE b

NoSession == [stage |-> "none", acked |-> 0, cursor |-> 0, last |-> 0,
              replaying |-> TRUE, woken |-> FALSE]
Over == [NoSession EXCEPT !.stage = "over"]

Init ==
    /\ hAck = 0 /\ hGen = 0
    /\ hStage = "idle" /\ offer = 0 /\ hLink = 0 /\ probe = 0
    /\ ingested = 0 /\ replaying = FALSE /\ pending = 0
    /\ base = 0 /\ log = <<>>
    /\ jAcked = 0 /\ jLast = 0 /\ bound = 0 /\ entry = 0 /\ gate = 0
    /\ sess = [g \in Gens |-> NoSession]
    /\ toHead = [g \in Gens |-> <<>>]
    /\ toNode = [g \in Gens |-> <<>>]
    /\ cut = {} /\ nodeOpen = {}
    /\ faults = 0

Fault(kind) ==
    /\ kind \in Faults
    /\ faults < MaxFaults
    /\ faults' = faults + 1

-----------------------------------------------------------------------------
(***************************************************************************)
(* The backend.                                                            *)
(***************************************************************************)

(* persist_ack(n), which never moves the ack backwards, or its failure.    *)
persist_ack(n) == hAck' = Max(hAck, n) /\ UNCHANGED faults
FailedSave == Fault("failedSave") /\ UNCHANGED hAck

(* next_hello, first half: save what was ingested; when that fails, offer  *)
(* the acknowledgement saved earlier.                                      *)
SaveForHello ==
    /\ hStage = "idle"
    /\ hGen < MaxGen
    /\ persist_ack(ingested) \/ FailedSave
    /\ offer' = hAck'
    /\ hStage' = "offering"
    /\ UNCHANGED <<hGen, jAcked, jLast, bound, hLink, ingested, replaying, pending,
                   probe, base, log, nodeVars, netVars>>

(* next_hello, second half: advance the generation durably, then dial.     *)
Dial ==
    /\ hStage = "offering"
    /\ hGen < MaxGen
    /\ hGen' = hGen + 1
    /\ hLink' = hGen + 1
    /\ hStage' = "dialing"
    /\ toNode' = [toNode EXCEPT ![hGen + 1] = <<Hello(offer)>>]
    /\ UNCHANGED <<hAck, jAcked, jLast, bound, offer, ingested, replaying, pending,
                   probe, base, log, nodeVars, toHead, cut, nodeOpen, faults>>

(* remoteMachines.add of the known credential: a dial on the same lease,   *)
(* beside the connector's, closed as soon as it is answered.               *)
ProbeDial ==
    /\ probe = 0
    /\ hGen < MaxGen
    /\ Fault("probe")
    /\ hGen' = hGen + 1
    /\ probe' = hGen + 1
    /\ toNode' = [toNode EXCEPT ![hGen + 1] = <<Hello(hAck)>>]
    /\ UNCHANGED <<hAck, jAcked, jLast, bound, hStage, offer, hLink, ingested,
                   replaying, pending, base, log, nodeVars, toHead, cut, nodeOpen>>

ProbeEnd ==
    /\ probe # 0
    /\ toHead[probe] # <<>> \/ probe \in cut
    /\ cut' = cut \cup {probe}
    /\ toHead' = [toHead EXCEPT ![probe] = <<>>]
    /\ probe' = 0
    /\ UNCHANGED <<durable, hStage, offer, hLink, ingested, replaying, pending, base,
                   log, nodeVars, toNode, nodeOpen, faults>>

(* The link the connector gave up, what arrived on it, and the state it    *)
(* dials again from.                                                       *)
Disconnect ==
    /\ cut' = cut \cup {hLink}
    /\ toHead' = [toHead EXCEPT ![hLink] = <<>>]
    /\ hLink' = 0
    /\ hStage' = "idle"

(* The welcome arrived: claim the survivors, then serve the link; a claim  *)
(* that fails closes it with nothing acknowledged.                         *)
Welcomed ==
    /\ hStage = "dialing"
    /\ toHead[hLink] # <<>>
    /\ \/ /\ hStage' = "serving"
          /\ toHead' = [toHead EXCEPT ![hLink] = Tail(@)]
          /\ replaying' = TRUE
          /\ pending' = 0
          /\ UNCHANGED <<hLink, cut, faults>>
       \/ /\ Fault("failedClaim")
          /\ Disconnect
          /\ UNCHANGED <<replaying, pending>>
    /\ UNCHANGED <<durable, offer, ingested, probe, base, log, nodeVars, toNode, nodeOpen>>

(* The dial was refused, or timed out on a link that is gone.              *)
DialFailed ==
    /\ hStage = "dialing"
    /\ hLink \in cut
    /\ Disconnect
    /\ UNCHANGED <<durable, offer, ingested, replaying, pending, probe, base, log,
                   nodeVars, toNode, nodeOpen, faults>>

(* Error to rule out: the record ingested last is not a duplicate *)
classifyAgain(n) == CASE n < ingested -> "duplicate"
                      [] n \in {ingested, ingested + 1} -> "next"
                      [] OTHER -> "gap"

(* Ingest::accept: what to do with record n.                               *)
classify(n) == CASE n <= ingested -> "duplicate"
                 [] n = ingested + 1 -> "next"
                 [] OTHER -> "gap"

(* Error to rule out: a batch is full one record late *)
RecordedLate == pending + 1 > AckBatch

(* Acks::record: with this record, is the batch full?                      *)
Recorded == pending + 1 >= AckBatch

(* Error to rule out: the acknowledgement goes out although it was not saved *)
flushUnsaved(n) ==
    /\ pending' = 0
    /\ persist_ack(n) \/ FailedSave
    /\ toNode' = IF hLink \in cut THEN toNode
                 ELSE [toNode EXCEPT ![hLink] = Append(@, Ack(n))]

(* Acks::flush of n: save it, then acknowledge it unless the link closed;  *)
(* after a failed save nothing is.  (The code skips a save this link has   *)
(* already made; the model may still let it fail.)                         *)
flush(n) ==
    /\ pending' = 0
    /\ \/ /\ persist_ack(n)
          /\ toNode' = IF hLink \in cut THEN toNode
                       ELSE [toNode EXCEPT ![hLink] = Append(@, Ack(n))]
       \/ /\ FailedSave
          /\ UNCHANGED toNode

NextFrame(kind) ==
    /\ hStage = "serving"
    /\ toHead[hLink] # <<>>
    /\ Head(toHead[hLink]).kind = kind

(* A journal record: deliver the next one, skip a duplicate; a gap while   *)
(* the machine replays is a loss, on the live stream it ends the link,     *)
(* after a last acknowledgement.  A full batch is acknowledged at once.    *)
ReceiveRecord ==
    /\ NextFrame("journal")
    /\ LET n      == Head(toHead[hLink]).seq
           order  == classify(n)
           taken  == order = "next" \/ (order = "gap" /\ replaying)
           resync == order = "gap" /\ ~replaying
       IN /\ ingested' = IF taken THEN n ELSE ingested
          /\ log' = IF taken THEN Append(log, n) ELSE log
          /\ IF resync
             THEN flush(ingested) /\ Disconnect
             ELSE /\ IF Recorded
                     THEN flush(ingested')
                     ELSE /\ pending' = pending + 1
                          /\ UNCHANGED <<hAck, toNode, faults>>
                  /\ toHead' = [toHead EXCEPT ![hLink] = Tail(@)]
                  /\ UNCHANGED <<hStage, hLink, cut>>
    /\ UNCHANGED <<hGen, jAcked, jLast, bound, offer, replaying, probe, base, nodeVars,
                   nodeOpen>>

ReceiveReplayComplete ==
    /\ NextFrame("replayComplete")
    /\ toHead' = [toHead EXCEPT ![hLink] = Tail(@)]
    /\ replaying' = FALSE
    /\ flush(ingested)
    /\ UNCHANGED <<hGen, jAcked, jLast, bound, hStage, offer, hLink, ingested, probe,
                   base, log, nodeVars, cut, nodeOpen>>

(* The acknowledgement timer (Tuning::ack_interval) ran out.               *)
AckDue ==
    /\ hStage = "serving"
    /\ pending > 0
    /\ flush(ingested)
    /\ UNCHANGED <<hGen, jAcked, jLast, bound, hStage, offer, hLink, ingested,
                   replaying, probe, base, log, nodeVars, toHead, cut, nodeOpen>>

(* The link closed: save what was ingested, forget the link, dial again.   *)
LinkLost ==
    /\ hStage = "serving"
    /\ hLink \in cut
    /\ flush(ingested)
    /\ Disconnect
    /\ UNCHANGED <<hGen, jAcked, jLast, bound, offer, ingested, replaying, probe, base,
                   log, nodeVars, nodeOpen>>

(* Error to rule out: ingestion starts over instead of from the saved ack *)
HeadRestartAtZero ==
    /\ Fault("headRestart")
    /\ cut' = cut \cup ({hLink, probe} \ {0})
    /\ toHead' = [g \in Gens |-> <<>>]
    /\ hStage' = "idle" /\ hLink' = 0 /\ probe' = 0 /\ offer' = 0
    /\ ingested' = 0 /\ replaying' = FALSE /\ pending' = 0
    /\ base' = 0 /\ log' = <<>>
    /\ UNCHANGED <<durable, nodeVars, toNode, nodeOpen>>

(* RemoteNode::start after a restart: ingestion resumes from the saved     *)
(* acknowledgement.                                                        *)
HeadRestart ==
    /\ Fault("headRestart")
    /\ cut' = cut \cup ({hLink, probe} \ {0})
    /\ toHead' = [g \in Gens |-> <<>>]
    /\ hStage' = "idle" /\ hLink' = 0 /\ probe' = 0 /\ offer' = 0
    /\ ingested' = hAck /\ replaying' = FALSE /\ pending' = 0
    /\ base' = hAck /\ log' = <<>>
    /\ UNCHANGED <<durable, nodeVars, toNode, nodeOpen>>

-----------------------------------------------------------------------------
(***************************************************************************)
(* The machine.                                                            *)
(***************************************************************************)
(* A frame sent on a cut link is lost.                                     *)
Send(g, frame) ==
    toHead' = IF g \in cut THEN toHead ELSE [toHead EXCEPT ![g] = Append(@, frame)]

(* The machine's end of a link closes, its session with it.                *)
CloseLink(g) ==
    /\ cut' = cut \cup {g}
    /\ nodeOpen' = nodeOpen \ {g}
    /\ sess' = [sess EXCEPT ![g] = Over]
    /\ toNode' = [toNode EXCEPT ![g] = <<>>]

Streaming(g) == sess[g].stage \in {"reading", "sending", "waiting"}

(* Runner::append: write the record, wake every session's stream.          *)
AppendRecord ==
    /\ jLast < MaxSeq
    /\ jLast' = jLast + 1
    /\ sess' = [g \in Gens |-> [sess[g] EXCEPT !.woken = @ \/ Streaming(g)]]
    /\ UNCHANGED <<hAck, hGen, jAcked, bound, headVars, entry, gate, netVars, faults>>

(* ExecutorLinks::bind: a hello with a newer generation is bound durably   *)
(* and closes the older link; any other is refused.  The hello may arrive  *)
(* after the backend gave up the dial.                                     *)
Bind(g) ==
    /\ sess[g].stage = "none"
    /\ toNode[g] # <<>>
    /\ \/ /\ g > bound
          /\ bound' = g
          /\ entry' = g
          /\ sess' = [f \in Gens |->
                        IF f = g THEN [sess[f] EXCEPT !.stage = "bound",
                                                      !.acked = Head(toNode[g]).seq]
                        ELSE IF f \in nodeOpen THEN Over ELSE sess[f]]
          /\ Send(g, Welcome)
          /\ cut' = cut \cup nodeOpen
          /\ nodeOpen' = {}
          /\ toNode' = [f \in Gens |-> IF f = g THEN Tail(toNode[g])
                                       ELSE IF f \in nodeOpen THEN <<>> ELSE toNode[f]]
       \/ /\ g <= bound
          /\ CloseLink(g)
          /\ UNCHANGED <<bound, entry, toHead>>
    /\ UNCHANGED <<hAck, hGen, jAcked, jLast, headVars, gate, faults>>

(* The handshake's time limit cuts a bind short after it was committed:    *)
(* the older link, and the binding the listener holds, are left alone.     *)
BindCutShort(g) ==
    /\ Fault("failedBind")
    /\ sess[g].stage = "none"
    /\ toNode[g] # <<>>
    /\ g > bound
    /\ bound' = g
    /\ CloseLink(g)
    /\ UNCHANGED <<hAck, hGen, jAcked, jLast, headVars, entry, gate, toHead>>

(* The end of ExecutorLinks::serve: the link is handed to a session unless *)
(* a newer one was bound meanwhile.                                        *)
HandOff(g) ==
    /\ sess[g].stage = "bound"
    /\ \/ /\ entry = g
          /\ nodeOpen' = nodeOpen \cup {g}
          /\ sess' = [sess EXCEPT ![g].stage = "accepted"]
          /\ UNCHANGED <<cut, toNode>>
       \/ /\ entry # g
          /\ CloseLink(g)
    /\ UNCHANGED <<durable, headVars, entry, gate, toHead, faults>>

(* admit: the session's link is open and no newer session took the gate.   *)
admit(g) == g \in nodeOpen /\ gate <= g

(* Journal::acknowledge: an old acknowledgement changes nothing.           *)
acknowledge(n) == jAcked' = Max(jAcked, n)

(* adopt: take the gate and bring the journal to the hello's               *)
(* acknowledgement; refuse one past the last record.                       *)
Adopt(g) ==
    /\ sess[g].stage = "accepted"
    /\ \/ /\ admit(g)
          /\ sess[g].acked <= jLast
          /\ gate' = g
          /\ acknowledge(sess[g].acked)
          /\ sess' = [sess EXCEPT ![g] = [@ EXCEPT !.stage = "reading", !.cursor = sess[g].acked]]
          /\ UNCHANGED <<cut, nodeOpen, toNode>>
       \/ /\ ~admit(g) \/ sess[g].acked > jLast
          /\ gate' = IF admit(g) THEN g ELSE gate
          /\ CloseLink(g)
          /\ UNCHANGED jAcked
    /\ UNCHANGED <<hAck, hGen, jLast, bound, headVars, entry, toHead, faults>>

(* apply, for an acknowledgement; a replaced session's frames are dropped. *)
ApplyAck(g) ==
    /\ Streaming(g)
    /\ admit(g)
    /\ toNode[g] # <<>>
    /\ LET n == Head(toNode[g]).seq IN
       IF n > jLast
       THEN CloseLink(g) /\ UNCHANGED jAcked
       ELSE /\ acknowledge(n)
            /\ toNode' = [toNode EXCEPT ![g] = Tail(@)]
            /\ UNCHANGED <<cut, nodeOpen, sess>>
    /\ UNCHANGED <<hAck, hGen, jLast, bound, headVars, entry, gate, toHead, faults>>

(* stream_journal: read what follows the cursor ...  (A stream that goes   *)
(* on while its link is already cut has no effect, and is left out.)       *)
StreamRead(g) ==
    /\ sess[g].stage = "reading"
    /\ g \in nodeOpen \ cut
    /\ sess' = [sess EXCEPT ![g] = [@ EXCEPT !.stage = "sending",
                                             !.cursor = Max(sess[g].cursor, jAcked),
                                             !.last = jLast]]
    /\ UNCHANGED <<durable, headVars, entry, gate, netVars, faults>>

(* ... send it record by record ...                                        *)
StreamSend(g) ==
    /\ sess[g].stage = "sending"
    /\ sess[g].cursor < sess[g].last
    /\ g \in nodeOpen \ cut
    /\ sess' = [sess EXCEPT ![g].cursor = @ + 1]
    /\ Send(g, Journal(sess[g].cursor + 1))
    /\ UNCHANGED <<durable, headVars, entry, gate, toNode, cut, nodeOpen, faults>>

(* Error to rule out: the stream subscribes to appends after its first read *)
StreamRestDeaf(g) ==
    /\ sess[g].stage = "sending"
    /\ sess[g].cursor >= sess[g].last
    /\ g \in nodeOpen \ cut
    /\ sess' = [sess EXCEPT ![g] = [@ EXCEPT !.stage = "waiting", !.replaying = FALSE,
                                             !.woken = FALSE]]
    /\ IF sess[g].replaying
       THEN Send(g, ReplayComplete(Max(sess[g].last, sess[g].acked)))
       ELSE UNCHANGED toHead
    /\ UNCHANGED <<durable, headVars, entry, gate, toNode, cut, nodeOpen, faults>>

(* ... tell the backend, once, that the replay is over ...                 *)
StreamRest(g) ==
    /\ sess[g].stage = "sending"
    /\ sess[g].cursor >= sess[g].last
    /\ g \in nodeOpen \ cut
    /\ sess' = [sess EXCEPT ![g] = [@ EXCEPT !.stage = "waiting", !.replaying = FALSE]]
    /\ IF sess[g].replaying
       THEN Send(g, ReplayComplete(Max(sess[g].last, sess[g].acked)))
       ELSE UNCHANGED toHead
    /\ UNCHANGED <<durable, headVars, entry, gate, toNode, cut, nodeOpen, faults>>

(* ... and wait for an append.                                             *)
StreamWake(g) ==
    /\ sess[g].stage = "waiting"
    /\ sess[g].woken
    /\ g \in nodeOpen \ cut
    /\ sess' = [sess EXCEPT ![g] = [@ EXCEPT !.stage = "reading", !.woken = FALSE]]
    /\ UNCHANGED <<durable, headVars, entry, gate, netVars, faults>>

(* The machine notices that the link is gone.                              *)
NodeLost(g) ==
    /\ g \in nodeOpen \cap cut
    /\ CloseLink(g)
    /\ UNCHANGED <<durable, headVars, entry, gate, toHead, faults>>

(* Error to rule out: the reopened journal counts only what was acknowledged *)
MachineRestartForgets ==
    /\ Fault("machineRestart")
    /\ jLast' = jAcked
    /\ entry' = 0 /\ gate' = 0
    /\ sess' = [g \in Gens |-> IF g <= hGen THEN Over ELSE NoSession]
    /\ cut' = cut \cup {g \in Gens : g <= hGen}
    /\ nodeOpen' = {}
    /\ toNode' = [g \in Gens |-> <<>>]
    /\ UNCHANGED <<hAck, hGen, jAcked, bound, headVars, toHead>>

(* The journal and the bound generation outlive the process; sessions, the *)
(* gate and every connection do not.                                       *)
MachineRestart ==
    /\ Fault("machineRestart")
    /\ entry' = 0 /\ gate' = 0
    /\ sess' = [g \in Gens |-> IF g <= hGen THEN Over ELSE NoSession]
    /\ cut' = cut \cup {g \in Gens : g <= hGen}
    /\ nodeOpen' = {}
    /\ toNode' = [g \in Gens |-> <<>>]
    /\ UNCHANGED <<durable, headVars, toHead>>

-----------------------------------------------------------------------------
(* The network gives up a link, at any point of its life.                  *)
Cut(g) ==
    /\ Fault("cut")
    /\ g <= hGen
    /\ g \notin cut
    /\ cut' = cut \cup {g}
    /\ UNCHANGED <<durable, headVars, nodeVars, toHead, toNode, nodeOpen>>

-----------------------------------------------------------------------------
HeadStep ==
    \/ SaveForHello \/ Dial \/ Welcomed \/ DialFailed
    \/ ReceiveRecord \/ ReceiveReplayComplete \/ AckDue \/ LinkLost

SessionStep(g) ==
    \/ HandOff(g) \/ Adopt(g) \/ NodeLost(g)
    \/ StreamRead(g) \/ StreamSend(g) \/ StreamRest(g) \/ StreamWake(g)

LinkStep(g) == Bind(g) \/ ApplyAck(g) \/ SessionStep(g)

Next ==
    \/ HeadStep
    \/ AppendRecord
    \/ \E g \in Gens : LinkStep(g) \/ BindCutShort(g) \/ Cut(g)
    \/ ProbeDial \/ ProbeEnd
    \/ HeadRestart \/ MachineRestart

Spec == Init /\ [][Next]_vars

(* Tasks that can run do; a hello or a frame on a link that is not cut     *)
(* arrives; an end of a cut link notices (heartbeats time out).  Nothing   *)
(* is assumed of appends or of faults.                                     *)
Fairness ==
    /\ WF_vars(HeadStep)
    /\ WF_vars(ProbeEnd)
    /\ \A g \in Gens :
        /\ WF_vars(SessionStep(g))
        /\ WF_vars(ApplyAck(g))
        /\ WF_vars(g \notin cut /\ Bind(g))

FairSpec == Spec /\ Fairness

-----------------------------------------------------------------------------
Sessions == [stage : {"none", "bound", "over", "accepted",
                      "reading", "sending", "waiting"},
             acked : 0..MaxSeq, cursor : 0..MaxSeq, last : 0..MaxSeq,
             replaying : BOOLEAN, woken : BOOLEAN]

Frames(kinds) == [kind : kinds, seq : 0..MaxSeq]
FromNode == {"welcome", "journal", "replayComplete"}
FromHead == {"hello", "ack"}

TypeOK ==
    /\ hAck \in 0..MaxSeq /\ hGen \in 0..MaxGen
    /\ hStage \in {"idle", "offering", "dialing", "serving"}
    /\ offer \in 0..MaxSeq /\ hLink \in 0..MaxGen /\ probe \in 0..MaxGen
    /\ ingested \in 0..MaxSeq /\ replaying \in BOOLEAN /\ pending \in 0..AckBatch - 1
    /\ base \in 0..MaxSeq /\ log \in Seq(Seqs)
    /\ jAcked \in 0..MaxSeq /\ jLast \in 0..MaxSeq
    /\ bound \in 0..MaxGen /\ entry \in 0..MaxGen /\ gate \in 0..MaxGen
    /\ sess \in [Gens -> Sessions]
    /\ toHead \in [Gens -> Seq(Frames(FromNode))]
    /\ toNode \in [Gens -> Seq(Frames(FromHead))]
    /\ cut \subseteq Gens /\ nodeOpen \subseteq Gens
    /\ faults \in 0..MaxFaults

(* The machine deletes a record only after the backend has durably saved   *)
(* that it ingested it: neither a hello, a live acknowledgement, nor one   *)
(* left on an old link runs ahead of the saved ack_seq.                    *)
KeptUntilSaved == jAcked <= hAck

(* What KeptUntilSaved rests on: every acknowledgement offered, under way  *)
(* or taken up by a session is at or below the saved one, and everything   *)
(* the backend saved or was sent is at or below the last record.           *)
Within(net, kinds, n) ==
    /\ net \in [Gens -> Seq(Frames(kinds))]
    /\ \A g \in Gens : \A i \in 1..Len(net[g]) : net[g][i].seq <= n

SessionsWithin(ss, a, n) ==
    /\ ss \in [Gens -> Sessions]
    /\ \A g \in Gens : ss[g].acked <= a /\ ss[g].last <= n

IInv ==
    /\ TypeOK
    /\ hStage \in {"dialing", "serving"} => hLink \in Gens
    /\ jAcked <= hAck /\ offer <= hAck
    /\ hAck <= jLast /\ ingested <= jLast
    /\ Within(toHead, FromNode, jLast)
    /\ Within(toNode, FromHead, hAck)
    /\ SessionsWithin(sess, hAck, jLast)

(* The backend never meets a gap: the next record on the link it serves is *)
(* a duplicate or the one after its last, whatever was replayed, skipped,  *)
(* deleted or restarted meanwhile.                                         *)
NoGap ==
    hStage = "serving" /\ toHead[hLink] # <<>> /\ Head(toHead[hLink]).kind = "journal"
        => Head(toHead[hLink]).seq <= ingested + 1

(* What NoGap rests on.  A link is fresh when it is dialed, its lane is    *)
(* empty until it is bound, and it is not the probe's; ...                 *)
FreshLinks ==
    /\ hLink <= hGen /\ probe <= hGen /\ (hLink # 0 => probe # hLink)
    /\ hLink # 0 <=> hStage \in {"dialing", "serving"}
    /\ \A g \in Gens : g > hGen => sess[g].stage = "none" /\ toNode[g] = <<>>
    /\ \A g \in Gens : sess[g].stage = "none" => toHead[g] = <<>> /\ sess[g].cursor = 0
    /\ \A g \in nodeOpen : sess[g].stage # "none"

(* ... its first frame is the welcome, not a record; ...                   *)
Lane(g)        == 1..Len(toHead[g])
RecordAt(g, i) == toHead[g][i].kind = "journal"

WelcomeFirst ==
    hStage = "dialing" =>
        /\ toHead[hLink] # <<>> => ~RecordAt(hLink, 1)
        /\ sess[hLink].stage # "none" /\ hLink \notin cut => toHead[hLink] # <<>>

(* ... a record on the lane follows what was ingested or another one       *)
(* before it, and so does what the stream sends next; ...                  *)
RecordsFollow ==
    hLink # 0 =>
        /\ \A i \in Lane(hLink) : RecordAt(hLink, i) =>
             \/ toHead[hLink][i].seq <= ingested + 1
             \/ \E j \in Lane(hLink) : /\ j < i /\ RecordAt(hLink, j)
                                       /\ toHead[hLink][i].seq = toHead[hLink][j].seq + 1
        /\ \/ sess[hLink].cursor <= ingested
           \/ \E j \in Lane(hLink) : RecordAt(hLink, j) /\ toHead[hLink][j].seq = sess[hLink].cursor

(* ... and what was saved was ingested, which is what was delivered.       *)
DeliveredAll == hAck <= ingested /\ ingested = base + Len(log)

ChainInv == IInv /\ FreshLinks /\ WelcomeFirst /\ RecordsFollow /\ DeliveredAll

(* The machine never refuses a link it bound: no acknowledgement is past   *)
(* its last record (node-journal-ack-ahead), so no session is turned away  *)
(* at resync unless a newer one replaced it.                               *)
NeverAhead ==
    \A g \in Gens :
        /\ sess[g].stage = "accepted" => sess[g].acked <= jLast
        /\ \A i \in 1..Len(toNode[g]) : toNode[g][i].seq <= jLast

(* The protocol keeps the promise of RecordLog.                            *)
Promise == INSTANCE RecordLog WITH
    appended <- jLast, trimmed <- jAcked, saved <- hAck
ImplementsRecordLog == Promise!Spec

(* Once faults stop, every record reaches the backend, its acknowledgement *)
(* is saved, and the machine deletes it: no stream sleeps on an appended   *)
(* record and no end waits for a link the other gave up.                   *)
EveryRecordAcknowledged == \A n \in Seqs : jLast >= n ~> jAcked >= n
=============================================================================
