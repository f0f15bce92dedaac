------------------------- MODULE ReplicationProofs -------------------------
(***************************************************************************)
(* Proofs about the replication of a lease's journal, for any number of    *)
(* records, links and faults, and any acknowledgement batch.               *)
(***************************************************************************)
EXTENDS Replication, TLAPS

-----------------------------------------------------------------------------
(***************************************************************************)
(* What the operations on the frames under way preserve.                   *)
(***************************************************************************)

(* A bound on the sequences under way may be raised.                       *)
LEMMA WithinMono ==
    ASSUME NEW net, NEW kinds, NEW n \in Nat, NEW m \in Nat, n <= m,
           Within(net, kinds, n)
    PROVE  Within(net, kinds, m)
<1> SUFFICES ASSUME NEW g \in Gens, NEW i \in 1..Len(net[g])
             PROVE  net[g][i].seq <= m
  BY DEF Within
<1>1. net[g] \in Seq(Frames(kinds))
  BY DEF Within
<1>2. net[g][i] \in Frames(kinds)
  BY <1>1
<1>3. net[g][i].seq \in Nat
  BY <1>2, ReplicationAssumption DEF Frames
<1> QED
  BY <1>3 DEF Within

(* Replacing what is under way on one link.                                *)
LEMMA WithinSet ==
    ASSUME NEW net, NEW kinds, NEW n \in Nat, NEW g \in Gens,
           NEW q \in Seq(Frames(kinds)),
           \A i \in 1..Len(q) : q[i].seq <= n,
           Within(net, kinds, n)
    PROVE  Within([net EXCEPT ![g] = q], kinds, n)
  BY DEF Within

(* Nothing under way.                                                      *)
LEMMA WithinClear ==
    ASSUME NEW net, NEW kinds, NEW n \in Nat, NEW g \in Gens,
           Within(net, kinds, n)
    PROVE  Within([net EXCEPT ![g] = <<>>], kinds, n)
<1>1. <<>> \in Seq(Frames(kinds)) /\ \A i \in 1..Len(<<>>) : <<>>[i].seq <= n
  OBVIOUS
<1> QED
  BY <1>1, WithinSet

(* The oldest frame of a link.                                             *)
LEMMA WithinHead ==
    ASSUME NEW net, NEW kinds, NEW n \in Nat, NEW g \in Gens, net[g] # <<>>,
           Within(net, kinds, n)
    PROVE  Head(net[g]) \in Frames(kinds) /\ Head(net[g]).seq <= n
<1>1. net[g] \in Seq(Frames(kinds)) /\ Len(net[g]) >= 1
  BY DEF Within
<1>2. Head(net[g]) = net[g][1]
  BY <1>1
<1> QED
  BY <1>1, <1>2 DEF Within

(* A frame is taken from a link.                                           *)
LEMMA WithinTail ==
    ASSUME NEW net, NEW kinds, NEW n \in Nat, NEW g \in Gens, net[g] # <<>>,
           Within(net, kinds, n)
    PROVE  Within([net EXCEPT ![g] = Tail(@)], kinds, n)
<1>1. net[g] \in Seq(Frames(kinds)) /\ net[g] # <<>>
  BY DEF Within
<1>2. PICK q : q = Tail(net[g])
  OBVIOUS
<1>3. q \in Seq(Frames(kinds)) /\ Len(q) = Len(net[g]) - 1
  BY <1>1, <1>2
<1>4. ASSUME NEW i \in 1..Len(q) PROVE q[i].seq <= n
  <2>1. q[i] = net[g][i + 1] /\ i + 1 \in 1..Len(net[g])
    BY <1>1, <1>2, <1>3
  <2> QED
    BY <2>1 DEF Within
<1> QED
  BY <1>2, <1>3, <1>4, WithinSet

(* A frame is put on a link.                                               *)
LEMMA WithinAppend ==
    ASSUME NEW net, NEW kinds, NEW n \in Nat, NEW g \in Gens,
           NEW x \in Frames(kinds), x.seq <= n,
           Within(net, kinds, n)
    PROVE  Within([net EXCEPT ![g] = Append(@, x)], kinds, n)
<1>1. net[g] \in Seq(Frames(kinds))
  BY DEF Within
<1>2. PICK q : q = Append(net[g], x)
  OBVIOUS
<1>3. q \in Seq(Frames(kinds)) /\ Len(q) = Len(net[g]) + 1
  BY <1>1, <1>2
<1>4. ASSUME NEW i \in 1..Len(q) PROVE q[i].seq <= n
  <2>1. CASE i \in 1..Len(net[g])
    BY <1>1, <1>2, <2>1 DEF Within
  <2>2. CASE i = Len(net[g]) + 1
    BY <1>1, <1>2, <2>2
  <2> QED
    BY <1>1, <1>3, <2>1, <2>2
<1> QED
  BY <1>2, <1>3, <1>4, WithinSet

(* One session changes.                                                    *)
LEMMA SessionSet ==
    ASSUME NEW ss, NEW a \in Nat, NEW n \in Nat, NEW g \in Gens,
           NEW x \in Sessions, x.acked <= a, x.last <= n,
           SessionsWithin(ss, a, n)
    PROVE  SessionsWithin([ss EXCEPT ![g] = x], a, n)
  BY DEF SessionsWithin

(* The bounds of the sessions may be raised.                               *)
LEMMA SessionsMono ==
    ASSUME NEW ss, NEW a \in Nat, NEW b \in Nat, NEW n \in Nat, NEW m \in Nat,
           a <= b, n <= m, SessionsWithin(ss, a, n)
    PROVE  SessionsWithin(ss, b, m)
<1> SUFFICES ASSUME NEW g \in Gens PROVE ss[g].acked <= b /\ ss[g].last <= m
  BY DEF SessionsWithin
<1>1. ss[g].acked \in Nat /\ ss[g].last \in Nat
  BY ReplicationAssumption DEF SessionsWithin, Sessions
<1> QED
  BY <1>1 DEF SessionsWithin

-----------------------------------------------------------------------------
(***************************************************************************)
(* The inductive invariant.                                                *)
(***************************************************************************)
LEMMA InitIInv == Init => IInv
<1> SUFFICES ASSUME Init PROVE IInv
  OBVIOUS
<1> USE ReplicationAssumption
<1>1. NoSession \in Sessions /\ NoSession.acked = 0 /\ NoSession.last = 0
  BY DEF NoSession, Sessions
<1>2. TypeOK
  <2>1. /\ sess \in [Gens -> Sessions]
        /\ toHead \in [Gens -> Seq(Frames(FromNode))]
        /\ toNode \in [Gens -> Seq(Frames(FromHead))]
        /\ log \in Seq(Seqs)
    BY <1>1 DEF Init
  <2>2. hStage \in {"idle", "offering", "dialing", "serving"} /\ replaying \in BOOLEAN
    BY DEF Init
  <2>3. 0 \in 0..AckBatch - 1 /\ 0 \in 0..MaxSeq /\ 0 \in 0..MaxGen /\ 0 \in 0..MaxFaults
    OBVIOUS
  <2> QED
    BY <2>1, <2>2, <2>3 DEF Init, TypeOK
<1>3. Within(toHead, FromNode, jLast) /\ Within(toNode, FromHead, hAck)
  BY DEF Init, Within
<1>4. SessionsWithin(sess, hAck, jLast)
  BY <1>1 DEF Init, SessionsWithin
<1> QED
  BY <1>2, <1>3, <1>4 DEF Init, IInv

(* The saved acknowledgement grows, at most to the last record: what was   *)
(* under way stays within it.                                              *)
LEMMA Grown ==
    ASSUME IInv, hAck' \in hAck..jLast, UNCHANGED jLast
    PROVE  /\ Within(toNode, FromHead, hAck')
           /\ SessionsWithin(sess, hAck', jLast')
<1>1. hAck \in Nat /\ hAck' \in Nat /\ jLast \in Nat /\ hAck <= hAck' /\ jLast <= jLast
  BY ReplicationAssumption DEF IInv, TypeOK
<1> QED
  BY <1>1, WithinMono, SessionsMono DEF IInv

(* A save of something ingested, or its failure.                           *)
LEMMA Saved ==
    ASSUME IInv, NEW n \in 0..jLast, persist_ack(n) \/ FailedSave
    PROVE  hAck' \in hAck..jLast /\ faults' \in 0..MaxFaults
  BY ReplicationAssumption DEF IInv, TypeOK, persist_ack, FailedSave, Fault, Max

(* flush keeps everything within the saved acknowledgement.                *)
LEMMA Flushed ==
    ASSUME IInv, NEW n \in 0..jLast, flush(n), hLink \in Gens, UNCHANGED jLast
    PROVE  /\ hAck' \in hAck..jLast /\ faults' \in 0..MaxFaults
           /\ pending' = 0
           /\ Within(toNode', FromHead, hAck')
           /\ SessionsWithin(sess, hAck', jLast')
<1> USE ReplicationAssumption
<1>1. hAck' \in hAck..jLast /\ faults' \in 0..MaxFaults /\ pending' = 0
  BY Saved DEF flush
<1>2. Within(toNode, FromHead, hAck') /\ SessionsWithin(sess, hAck', jLast')
  BY <1>1, Grown
<1>3. CASE UNCHANGED toNode
  BY <1>1, <1>2, <1>3
<1>4. CASE /\ persist_ack(n)
           /\ toNode' = [toNode EXCEPT ![hLink] = Append(@, Ack(n))]
  <2>1. n \in 0..MaxSeq /\ n <= hAck' /\ hAck' \in Nat
    BY <1>1, <1>4 DEF persist_ack, Max, IInv, TypeOK
  <2>2. Ack(n) \in Frames(FromHead) /\ Ack(n).seq <= hAck'
    BY <2>1 DEF Ack, Frames, FromHead
  <2>3. Within(toNode', FromHead, hAck')
    BY <2>1, <2>2, <1>2, <1>4, WithinAppend
  <2> QED
    BY <1>1, <1>2, <2>3
<1> QED
  BY <1>3, <1>4 DEF flush

(* The end of a link closes it, and its session, without touching others.  *)
LEMMA Closed ==
    ASSUME IInv, NEW g \in Gens, CloseLink(g)
    PROVE  /\ cut' \subseteq Gens /\ nodeOpen' \subseteq Gens
           /\ Within(toNode', FromHead, hAck)
           /\ SessionsWithin(sess', hAck, jLast)
<1> USE ReplicationAssumption
<1>0. NoSession \in Sessions /\ NoSession.acked = 0 /\ NoSession.last = 0
  BY DEF NoSession, Sessions
<1>1. Over \in Sessions /\ Over.acked = 0 /\ Over.last = 0
  BY <1>0 DEF Over, Sessions
<1>2. hAck \in Nat /\ jLast \in Nat /\ 0 <= hAck /\ 0 <= jLast
  BY DEF IInv, TypeOK
<1> QED
  BY <1>1, <1>2, WithinClear, SessionSet DEF CloseLink, IInv, TypeOK

(* A frame sent to the backend, or lost on a cut link.                     *)
LEMMA Sent ==
    ASSUME IInv, NEW g \in Gens, NEW x \in Frames(FromNode), x.seq <= jLast,
           Send(g, x)
    PROVE  Within(toHead', FromNode, jLast)
<1>1. jLast \in Nat /\ Within(toHead, FromNode, jLast)
  BY ReplicationAssumption DEF IInv, TypeOK
<1> QED
  BY <1>1, WithinAppend DEF Send

(* The connector gives its link up.                                        *)
LEMMA Disconnected ==
    ASSUME IInv, hLink \in Gens, Disconnect
    PROVE  /\ cut' \subseteq Gens /\ hLink' = 0 /\ hStage' = "idle"
           /\ Within(toHead', FromNode, jLast)
<1>1. jLast \in Nat /\ Within(toHead, FromNode, jLast)
  BY ReplicationAssumption DEF IInv, TypeOK
<1> QED
  BY <1>1, WithinClear DEF Disconnect, IInv, TypeOK

(* The part of the invariant that is not about sessions and frames.        *)
Scalars ==
    /\ hAck \in 0..MaxSeq /\ hGen \in 0..MaxGen
    /\ hStage \in {"idle", "offering", "dialing", "serving"}
    /\ offer \in 0..MaxSeq /\ hLink \in 0..MaxGen /\ probe \in 0..MaxGen
    /\ ingested \in 0..MaxSeq /\ replaying \in BOOLEAN /\ pending \in 0..AckBatch - 1
    /\ base \in 0..MaxSeq /\ log \in Seq(Seqs)
    /\ jAcked \in 0..MaxSeq /\ jLast \in 0..MaxSeq
    /\ bound \in 0..MaxGen /\ entry \in 0..MaxGen /\ gate \in 0..MaxGen
    /\ cut \subseteq Gens /\ nodeOpen \subseteq Gens
    /\ faults \in 0..MaxFaults
    /\ hStage \in {"dialing", "serving"} => hLink \in Gens
    /\ jAcked <= hAck /\ offer <= hAck
    /\ hAck <= jLast /\ ingested <= jLast

LEMMA Parts ==
    IInv <=> /\ Scalars
             /\ Within(toHead, FromNode, jLast)
             /\ Within(toNode, FromHead, hAck)
             /\ SessionsWithin(sess, hAck, jLast)
<1>1. Within(toHead, FromNode, jLast) => toHead \in [Gens -> Seq(Frames(FromNode))]
  BY DEF Within
<1>2. Within(toNode, FromHead, hAck) => toNode \in [Gens -> Seq(Frames(FromHead))]
  BY DEF Within
<1>3. SessionsWithin(sess, hAck, jLast) => sess \in [Gens -> Sessions]
  BY DEF SessionsWithin
<1> QED
  BY <1>1, <1>2, <1>3, Zenon DEF IInv, TypeOK, Scalars

LEMMA PartsNext ==
    ASSUME Scalars', Within(toHead', FromNode, jLast'), Within(toNode', FromHead, hAck'),
           SessionsWithin(sess', hAck', jLast')
    PROVE  IInv'
<1>1. toHead' \in [Gens -> Seq(Frames(FromNode))]
  BY DEF Within
<1>2. toNode' \in [Gens -> Seq(Frames(FromHead))]
  BY DEF Within
<1>3. sess' \in [Gens -> Sessions]
  BY DEF SessionsWithin
<1> QED
  BY <1>1, <1>2, <1>3, Zenon DEF IInv, TypeOK, Scalars

(* A record that is not a duplicate is newer than what was ingested.       *)
LEMMA Newer ==
    ASSUME NEW n \in Nat, ingested \in Nat, classify(n) \in {"next", "gap"}
    PROVE  n > ingested
  BY DEF classify

(* The backend's steps.                                                    *)
LEMMA HeadIInv ==
    ASSUME IInv, HeadStep \/ ProbeDial \/ ProbeEnd \/ HeadRestart
    PROVE  IInv'
<1> USE ReplicationAssumption
<1>a. /\ Scalars
      /\ Within(toHead, FromNode, jLast) /\ Within(toNode, FromHead, hAck)
      /\ SessionsWithin(sess, hAck, jLast)
  BY Parts, ZenonT(60)
<1>b. hAck \in Nat /\ jLast \in Nat /\ ingested \in 0..jLast
  BY <1>a, SMTT(60) DEF Scalars
<1>0. /\ Scalars
      /\ Within(toHead, FromNode, jLast) /\ Within(toNode, FromHead, hAck)
      /\ SessionsWithin(sess, hAck, jLast)
      /\ hAck \in Nat /\ jLast \in Nat /\ ingested \in 0..jLast
  BY <1>a, <1>b, ZenonT(60)
<1>1. CASE SaveForHello
  <2>1. /\ hAck' \in hAck..jLast /\ faults' \in 0..MaxFaults
    BY <1>0, <1>1, Saved DEF SaveForHello
  <2>2. Scalars'
    BY <1>0, <1>1, <2>1 DEF SaveForHello, Scalars, nodeVars, netVars
  <2>3. Within(toNode, FromHead, hAck') /\ SessionsWithin(sess, hAck', jLast')
    BY <1>1, <2>1, Grown DEF SaveForHello
  <2> QED
    BY <1>0, <1>1, <2>2, <2>3, PartsNext DEF SaveForHello, nodeVars, netVars
<1>2. CASE Dial
  <2>1. Scalars'
    BY <1>0, <1>2 DEF Dial, Scalars, Gens, nodeVars
  <2>2. Within(toNode', FromHead, hAck)
    <3>1. hGen + 1 \in Gens /\ offer \in 0..MaxSeq /\ offer <= hAck
      BY <1>0, <1>2 DEF Dial, Scalars, Gens
    <3>2. PICK q : q = <<Hello(offer)>>
      OBVIOUS
    <3>3. q \in Seq(Frames(FromHead)) /\ \A i \in 1..Len(q) : q[i].seq <= hAck
      BY <3>1, <3>2 DEF Hello, Frames, FromHead
    <3> QED
      BY <3>1, <3>2, <3>3, <1>0, <1>2, WithinSet DEF Dial
  <2> QED
    BY <1>0, <1>2, <2>1, <2>2, PartsNext DEF Dial, nodeVars
<1>3. CASE ProbeDial
  <2>1. Scalars'
    BY <1>0, <1>3 DEF ProbeDial, Fault, Scalars, Gens, nodeVars
  <2>2. Within(toNode', FromHead, hAck)
    <3>1. hGen + 1 \in Gens /\ hAck \in 0..MaxSeq
      BY <1>0, <1>3 DEF ProbeDial, Scalars, Gens
    <3>2. PICK q : q = <<Hello(hAck)>>
      OBVIOUS
    <3>3. q \in Seq(Frames(FromHead)) /\ \A i \in 1..Len(q) : q[i].seq <= hAck
      BY <3>1, <3>2 DEF Hello, Frames, FromHead
    <3> QED
      BY <3>1, <3>2, <3>3, <1>0, <1>3, WithinSet DEF ProbeDial
  <2> QED
    BY <1>0, <1>3, <2>1, <2>2, PartsNext DEF ProbeDial, nodeVars
<1>4. CASE ProbeEnd
  <2>1. probe \in Gens
    BY <1>0, <1>4 DEF ProbeEnd, Scalars, Gens
  <2>2. Scalars'
    BY <1>0, <1>4, <2>1 DEF ProbeEnd, Scalars, durable, nodeVars
  <2>3. Within(toHead', FromNode, jLast)
    BY <1>0, <1>4, <2>1, WithinClear DEF ProbeEnd
  <2> QED
    BY <1>0, <1>4, <2>2, <2>3, PartsNext DEF ProbeEnd, durable, nodeVars
<1>5. CASE Welcomed
  <2>0. hLink \in Gens /\ toHead[hLink] # <<>>
    BY <1>0, <1>5 DEF Welcomed, Scalars
  <2>1. CASE /\ hStage' = "serving" /\ toHead' = [toHead EXCEPT ![hLink] = Tail(@)]
             /\ replaying' = TRUE /\ pending' = 0 /\ UNCHANGED <<hLink, cut, faults>>
    <3>1. Scalars'
      BY <1>0, <1>5, <2>0, <2>1 DEF Welcomed, Scalars, durable, nodeVars
    <3>2. Within(toHead', FromNode, jLast)
      BY <1>0, <2>0, <2>1, WithinTail
    <3> QED
      BY <1>0, <1>5, <3>1, <3>2, PartsNext DEF Welcomed, durable, nodeVars
  <2>2. CASE Fault("failedClaim") /\ Disconnect /\ UNCHANGED <<replaying, pending>>
    <3>1. /\ cut' \subseteq Gens /\ hLink' = 0 /\ hStage' = "idle"
          /\ Within(toHead', FromNode, jLast)
      BY <2>0, <2>2, Disconnected
    <3>2. Scalars'
      BY <1>0, <1>5, <2>2, <3>1 DEF Welcomed, Scalars, Fault, durable, nodeVars
    <3> QED
      BY <1>0, <1>5, <3>1, <3>2, PartsNext DEF Welcomed, durable, nodeVars
  <2> QED
    BY <1>5, <2>1, <2>2 DEF Welcomed
<1>6. CASE DialFailed
  <2>1. /\ cut' \subseteq Gens /\ hLink' = 0 /\ hStage' = "idle"
        /\ Within(toHead', FromNode, jLast)
    BY <1>0, <1>6, Disconnected DEF DialFailed, Scalars
  <2>2. Scalars'
    BY <1>0, <1>6, <2>1 DEF DialFailed, Scalars, durable, nodeVars
  <2> QED
    BY <1>0, <1>6, <2>1, <2>2, PartsNext DEF DialFailed, durable, nodeVars
<1>7. CASE ReceiveRecord
  <2>0. hLink \in Gens /\ toHead[hLink] # <<>>
    BY <1>0, <1>7 DEF ReceiveRecord, NextFrame, Scalars
  <2> DEFINE n      == Head(toHead[hLink]).seq
             order  == classify(n)
             taken  == order = "next" \/ (order = "gap" /\ replaying)
             resync == order = "gap" /\ ~replaying
  <2>1. n \in 0..MaxSeq /\ n <= jLast
    BY <1>0, <2>0, WithinHead DEF Frames
  <2>2. taken => n > ingested
    BY <1>0, <2>1, Newer
  <2>3. /\ ingested' = IF taken THEN n ELSE ingested
        /\ log' = IF taken THEN Append(log, n) ELSE log
    BY <1>7 DEF ReceiveRecord
  <2>r. resync => flush(ingested) /\ Disconnect
    BY <1>7 DEF ReceiveRecord
  <2>s. ~resync =>
          /\ \/ Recorded /\ flush(ingested')
             \/ ~Recorded /\ pending' = pending + 1 /\ UNCHANGED <<hAck, toNode, faults>>
          /\ toHead' = [toHead EXCEPT ![hLink] = Tail(@)]
          /\ UNCHANGED <<hStage, hLink, cut>>
    BY <1>7 DEF ReceiveRecord
  <2> HIDE DEF n, taken, resync
  <2>4. ingested' \in 0..jLast /\ ingested' \in 0..MaxSeq /\ log' \in Seq(Seqs)
    <3>1. CASE taken
      <4>1. n \in Seqs
        BY <1>0, <2>1, <2>2, <3>1 DEF Scalars, Seqs
      <4> QED
        BY <1>0, <2>1, <2>3, <3>1, <4>1 DEF Scalars
    <3>2. CASE ~taken
      BY <1>0, <2>3, <3>2 DEF Scalars
    <3> QED
      BY <3>1, <3>2
  <2>5. CASE resync
    <3>1. flush(ingested) /\ Disconnect
      BY <2>r, <2>5
    <3>2. /\ hAck' \in hAck..jLast /\ faults' \in 0..MaxFaults /\ pending' = 0
          /\ Within(toNode', FromHead, hAck')
          /\ SessionsWithin(sess, hAck', jLast')
      BY <1>0, <1>7, <2>0, <3>1, Flushed DEF ReceiveRecord
    <3>3. /\ cut' \subseteq Gens /\ hLink' = 0 /\ hStage' = "idle"
          /\ Within(toHead', FromNode, jLast)
      BY <2>0, <3>1, Disconnected
    <3>5. Scalars'
      BY <1>0, <1>7, <2>4, <3>2, <3>3 DEF ReceiveRecord, Scalars, nodeVars
    <3> QED
      BY <1>7, <3>2, <3>3, <3>5, PartsNext DEF ReceiveRecord, nodeVars
  <2>6. CASE ~resync
    <3>1. /\ \/ Recorded /\ flush(ingested')
             \/ ~Recorded /\ pending' = pending + 1 /\ UNCHANGED <<hAck, toNode, faults>>
          /\ toHead' = [toHead EXCEPT ![hLink] = Tail(@)]
          /\ UNCHANGED <<hStage, hLink, cut>>
      BY <2>s, <2>6
    <3>2. /\ hAck' \in hAck..jLast /\ faults' \in 0..MaxFaults
          /\ pending' \in 0..AckBatch - 1
          /\ Within(toNode', FromHead, hAck')
          /\ SessionsWithin(sess, hAck', jLast')
      <4>1. CASE Recorded /\ flush(ingested')
        BY <1>7, <2>0, <2>4, <4>1, Flushed DEF ReceiveRecord
      <4>2. CASE ~Recorded /\ pending' = pending + 1 /\ UNCHANGED <<hAck, toNode, faults>>
        BY <1>0, <1>7, <4>2 DEF ReceiveRecord, Recorded, Scalars
      <4> QED
        BY <3>1, <4>1, <4>2
    <3>3. Within(toHead', FromNode, jLast)
      BY <1>0, <2>0, <3>1, WithinTail
    <3>4. Scalars'
      BY <1>0, <1>7, <2>4, <3>1, <3>2 DEF ReceiveRecord, Scalars, nodeVars
    <3> QED
      BY <1>7, <3>2, <3>3, <3>4, PartsNext DEF ReceiveRecord, nodeVars
  <2> QED
    BY <2>5, <2>6
<1>8. CASE ReceiveReplayComplete
  <2>0. hLink \in Gens /\ toHead[hLink] # <<>>
    BY <1>0, <1>8 DEF ReceiveReplayComplete, NextFrame, Scalars
  <2>1. /\ hAck' \in hAck..jLast /\ faults' \in 0..MaxFaults /\ pending' = 0
        /\ Within(toNode', FromHead, hAck')
        /\ SessionsWithin(sess, hAck', jLast')
    BY <1>0, <1>8, <2>0, Flushed DEF ReceiveReplayComplete
  <2>2. Within(toHead', FromNode, jLast)
    BY <1>0, <1>8, <2>0, WithinTail DEF ReceiveReplayComplete
  <2>b. replaying' \in BOOLEAN
    BY <1>8 DEF ReceiveReplayComplete
  <2>3. Scalars'
    BY <1>0, <1>8, <2>1, <2>b DEF ReceiveReplayComplete, Scalars, nodeVars
  <2> QED
    BY <1>8, <2>1, <2>2, <2>3, PartsNext DEF ReceiveReplayComplete, nodeVars
<1>9. CASE AckDue
  <2>1. /\ hAck' \in hAck..jLast /\ faults' \in 0..MaxFaults /\ pending' = 0
        /\ Within(toNode', FromHead, hAck')
        /\ SessionsWithin(sess, hAck', jLast')
    BY <1>0, <1>9, Flushed DEF AckDue, Scalars
  <2>2. Scalars'
    BY <1>0, <1>9, <2>1 DEF AckDue, Scalars, nodeVars
  <2> QED
    BY <1>0, <1>9, <2>1, <2>2, PartsNext DEF AckDue, nodeVars
<1>10. CASE LinkLost
  <2>1. /\ hAck' \in hAck..jLast /\ faults' \in 0..MaxFaults /\ pending' = 0
        /\ Within(toNode', FromHead, hAck')
        /\ SessionsWithin(sess, hAck', jLast')
    BY <1>0, <1>10, Flushed DEF LinkLost, Scalars
  <2>3. /\ cut' \subseteq Gens /\ hLink' = 0 /\ hStage' = "idle"
        /\ Within(toHead', FromNode, jLast)
    BY <1>0, <1>10, Disconnected DEF LinkLost, Scalars
  <2>4. Scalars'
    BY <1>0, <1>10, <2>1, <2>3 DEF LinkLost, Scalars, nodeVars
  <2> QED
    BY <1>10, <2>1, <2>3, <2>4, PartsNext DEF LinkLost, nodeVars
<1>11. CASE HeadRestart
  <2>1. Within(toHead', FromNode, jLast)
    BY <1>11 DEF HeadRestart, Within
  <2>2. {hLink, probe} \ {0} \subseteq Gens
    BY <1>0 DEF Scalars, Gens
  <2>b. replaying' \in BOOLEAN
    BY <1>11 DEF HeadRestart
  <2>c. log' \in Seq(Seqs)
    BY <1>11 DEF HeadRestart
  <2>3. Scalars'
    BY <1>0, <1>11, <2>2, <2>b, <2>c DEF HeadRestart, Fault, Scalars, durable, nodeVars
  <2> QED
    BY <1>0, <1>11, <2>1, <2>3, PartsNext DEF HeadRestart, durable, nodeVars
<1> QED
  BY <1>1, <1>2, <1>3, <1>4, <1>5, <1>6, <1>7, <1>8, <1>9, <1>10, <1>11 DEF HeadStep

(* A session of a link the machine holds, as read from the invariant.      *)
LEMMA SessionOf ==
    ASSUME IInv, NEW g \in Gens
    PROVE  /\ sess[g] \in Sessions
           /\ sess[g].acked \in 0..MaxSeq /\ sess[g].acked <= hAck
           /\ sess[g].last \in 0..MaxSeq /\ sess[g].last <= jLast
           /\ sess[g].cursor \in 0..MaxSeq
  BY DEF IInv, SessionsWithin, Sessions

(* The machine's steps.                                                    *)
LEMMA NodeIInv ==
    ASSUME IInv, NEW g \in Gens, LinkStep(g) \/ BindCutShort(g) \/ Cut(g)
    PROVE  IInv'
<1> USE ReplicationAssumption
<1>0. /\ Scalars
      /\ Within(toHead, FromNode, jLast) /\ Within(toNode, FromHead, hAck)
      /\ SessionsWithin(sess, hAck, jLast)
  BY Parts
<1>n. /\ hAck \in Nat /\ jLast \in Nat /\ hAck <= jLast /\ bound \in Nat
      /\ jLast \in 0..MaxSeq /\ jAcked \in 0..MaxSeq /\ 0 <= hAck
  BY <1>0 DEF Scalars
<1>s. /\ sess[g] \in Sessions
      /\ sess[g].acked \in 0..MaxSeq /\ sess[g].acked <= hAck
      /\ sess[g].last \in 0..MaxSeq /\ sess[g].last <= jLast
      /\ sess[g].cursor \in 0..MaxSeq
  BY SessionOf
<1>c. ASSUME CloseLink(g) PROVE /\ cut' \subseteq Gens /\ nodeOpen' \subseteq Gens
                                /\ Within(toNode', FromHead, hAck)
                                /\ SessionsWithin(sess', hAck, jLast)
  BY <1>c, Closed
<1>g. g \in 1..MaxGen
  BY DEF Gens
<1>1. CASE Bind(g)
  <2>1. CASE g <= bound /\ CloseLink(g) /\ UNCHANGED <<bound, entry, toHead>>
    <3>1. Scalars'
      BY <1>0, <1>n, <1>1, <2>1, <1>c DEF Bind, Scalars, headVars
    <3> QED
      BY <1>0, <1>n, <1>1, <2>1, <3>1, <1>c, PartsNext DEF Bind, headVars
  <2>2. CASE ~(g <= bound)
    <3>1. /\ bound' = g /\ entry' = g /\ cut' = cut \cup nodeOpen /\ nodeOpen' = {}
          /\ sess' = [f \in Gens |->
                        IF f = g THEN [sess[f] EXCEPT !.stage = "bound",
                                                      !.acked = Head(toNode[g]).seq]
                        ELSE IF f \in nodeOpen THEN Over ELSE sess[f]]
          /\ Send(g, Welcome)
          /\ toNode' = [f \in Gens |-> IF f = g THEN Tail(toNode[g])
                                       ELSE IF f \in nodeOpen THEN <<>> ELSE toNode[f]]
      BY <1>0, <1>n, <1>1, <2>2 DEF Bind
    <3>u. UNCHANGED <<hAck, hGen, jAcked, jLast, headVars, gate, faults>>
      BY <1>1 DEF Bind
    <3>2. Scalars'
      <4>1. bound' = g /\ entry' = g /\ cut' \subseteq Gens /\ nodeOpen' \subseteq Gens
        BY <1>0, <3>1 DEF Scalars
      <4> QED
        BY <1>0, <1>g, <4>1, <3>u DEF Scalars, headVars
    <3>3. Within(toHead', FromNode, jLast)
      <4>1. Welcome \in Frames(FromNode) /\ Welcome.seq <= jLast
        BY <1>n DEF Welcome, Frames, FromNode, Scalars
      <4> QED
        BY <3>1, <4>1, Sent
    <3>4. Within(toNode', FromHead, hAck)
      <4>1. PICK net : net = [toNode EXCEPT ![g] = Tail(@)]
        OBVIOUS
      <4>2. Within(net, FromHead, hAck)
        BY <1>0, <1>n, <1>1, <4>1, WithinTail DEF Bind
      <4>3. toNode \in [Gens -> Seq(Frames(FromHead))]
        BY <1>0 DEF Within
      <4>4. \A f \in Gens : toNode'[f] = IF f # g /\ f \in nodeOpen THEN <<>> ELSE net[f]
        BY <3>1, <4>1, <4>3
      <4>5. toNode' \in [Gens -> Seq(Frames(FromHead))]
        <5>1. \A f \in Gens : net[f] \in Seq(Frames(FromHead))
          BY <4>2 DEF Within
        <5>2. ASSUME NEW f \in Gens PROVE toNode'[f] \in Seq(Frames(FromHead))
          <6>1. CASE f # g /\ f \in nodeOpen
            <7>1. toNode'[f] = <<>> /\ <<>> \in Seq(Frames(FromHead))
              BY <4>4, <6>1
            <7> QED
              BY <7>1
          <6>2. CASE ~(f # g /\ f \in nodeOpen)
            BY <4>4, <5>1, <6>2
          <6> QED
            BY <6>1, <6>2
        <5> QED
          BY <3>1, <5>2
      <4> QED
        BY <4>2, <4>4, <4>5 DEF Within
    <3>5. SessionsWithin(sess', hAck, jLast)
      <4>1. Head(toNode[g]) \in Frames(FromHead) /\ Head(toNode[g]).seq <= hAck
        BY <1>0, <1>n, <1>1, WithinHead DEF Bind
      <4>2. PICK n : n = Head(toNode[g]).seq
        OBVIOUS
      <4>3. n \in 0..MaxSeq /\ n <= hAck
        BY <4>1, <4>2 DEF Frames
      <4>4. PICK x : x = [sess[g] EXCEPT !.stage = "bound", !.acked = n]
        OBVIOUS
      <4>5. x \in Sessions /\ x.acked <= hAck /\ x.last <= jLast
        BY <1>s, <4>3, <4>4 DEF Sessions
      <4>6. Over \in Sessions /\ Over.acked <= hAck /\ Over.last <= jLast
        <5>1. NoSession \in Sessions /\ NoSession.acked = 0 /\ NoSession.last = 0
          BY DEF NoSession, Sessions
        <5> QED
          BY <5>1, <1>n DEF Over, Sessions
      <4>7. \A f \in Gens : sess'[f] = IF f = g THEN x ELSE IF f \in nodeOpen THEN Over ELSE sess[f]
        BY <3>1, <4>2, <4>4
      <4>8. \A f \in Gens : sess'[f] \in Sessions /\ sess'[f].acked <= hAck /\ sess'[f].last <= jLast
        BY <1>0, <1>n, <4>5, <4>6, <4>7, SMTT(60) DEF SessionsWithin
      <4>9. sess' \in [Gens -> Sessions]
        BY <3>1, <4>8
      <4> QED
        BY <4>8, <4>9 DEF SessionsWithin
    <3> QED
      BY <1>1, <3>2, <3>3, <3>4, <3>5, PartsNext DEF Bind, headVars
  <2>3. g > bound \/ (g <= bound /\ CloseLink(g) /\ UNCHANGED <<bound, entry, toHead>>)
    BY <1>1, Zenon DEF Bind
  <2> QED
    BY <1>n, <1>g, <2>1, <2>2, <2>3
<1>2. CASE BindCutShort(g)
  <2>0. /\ bound' = g /\ faults' = faults + 1 /\ faults < MaxFaults
        /\ UNCHANGED <<hAck, hGen, jAcked, jLast, headVars, entry, gate>>
        /\ CloseLink(g)
    BY <1>2 DEF BindCutShort, Fault
  <2>1. Scalars'
    BY <1>0, <1>c, <1>g, <2>0 DEF Scalars, headVars
  <2> QED
    BY <1>0, <1>n, <1>2, <2>1, <1>c, PartsNext DEF BindCutShort, headVars
<1>3. CASE Cut(g)
  <2>1. Scalars'
    BY <1>0, <1>n, <1>3 DEF Cut, Fault, Scalars, durable, headVars, nodeVars
  <2> QED
    BY <1>0, <1>n, <1>3, <2>1, PartsNext DEF Cut, durable, headVars, nodeVars
<1>4. CASE HandOff(g)
  <2>1. CASE entry = g
    <3>1. /\ nodeOpen' = nodeOpen \cup {g} /\ sess' = [sess EXCEPT ![g].stage = "accepted"]
          /\ UNCHANGED <<cut, toNode>>
      BY <1>4, <2>1 DEF HandOff
    <3>2. Scalars'
      BY <1>0, <1>n, <1>4, <3>1 DEF HandOff, Scalars, durable, headVars
    <3>3. PICK x : x = [sess[g] EXCEPT !.stage = "accepted"]
      OBVIOUS
    <3>4. x \in Sessions /\ x.acked <= hAck /\ x.last <= jLast
      BY <1>s, <3>3 DEF Sessions
    <3>5. SessionsWithin(sess', hAck, jLast)
      BY <1>0, <1>n, <3>1, <3>3, <3>4, SessionSet
    <3> QED
      BY <1>0, <1>n, <1>4, <3>1, <3>2, <3>5, PartsNext DEF HandOff, durable, headVars
  <2>2. CASE entry # g
    <3>1. CloseLink(g)
      BY <1>4, <2>2 DEF HandOff
    <3>2. Scalars'
      BY <1>0, <1>n, <1>4, <3>1, <1>c DEF HandOff, Scalars, durable, headVars
    <3> QED
      BY <1>0, <1>n, <1>4, <3>1, <3>2, <1>c, PartsNext DEF HandOff, durable, headVars
  <2> QED
    BY <2>1, <2>2
<1>5. CASE Adopt(g)
  <2>1. CASE admit(g) /\ sess[g].acked <= jLast
    <3>1. /\ gate' = g /\ acknowledge(sess[g].acked)
          /\ sess' = [sess EXCEPT ![g] = [@ EXCEPT !.stage = "reading", !.cursor = sess[g].acked]]
          /\ UNCHANGED <<cut, nodeOpen, toNode>>
      BY <1>5, <1>s, <1>n, <2>1 DEF Adopt
    <3>u. UNCHANGED <<hAck, hGen, jLast, bound, headVars, entry, faults>>
      BY <1>5 DEF Adopt
    <3>j. jAcked' \in 0..MaxSeq /\ jAcked' <= hAck
      BY <1>0, <1>n, <1>s, <3>1 DEF acknowledge, Max, Scalars
    <3>2. Scalars'
      <4>1. gate' = g /\ UNCHANGED <<cut, nodeOpen>>
        BY <3>1
      <4> QED
        BY <1>0, <1>g, <4>1, <3>u, <3>j DEF Scalars, headVars
    <3>3. PICK x : x = [sess[g] EXCEPT !.stage = "reading", !.cursor = sess[g].acked]
      OBVIOUS
    <3>4. x \in Sessions /\ x.acked <= hAck /\ x.last <= jLast
      BY <1>s, <3>3 DEF Sessions
    <3>5. SessionsWithin(sess', hAck, jLast)
      BY <1>0, <1>n, <3>1, <3>3, <3>4, SessionSet
    <3> QED
      BY <1>0, <1>n, <1>5, <3>1, <3>2, <3>5, PartsNext DEF Adopt, headVars
  <2>2. CASE ~admit(g) \/ sess[g].acked > jLast
    <3>1. CloseLink(g) /\ UNCHANGED jAcked /\ gate' = IF admit(g) THEN g ELSE gate
      BY <1>0, <1>n, <1>5, <1>s, <2>2 DEF Adopt
    <3>u. UNCHANGED <<hAck, hGen, jLast, bound, headVars, entry, faults>>
      BY <1>5 DEF Adopt
    <3>g. gate' \in 0..MaxGen
      BY <1>0, <1>g, <3>1 DEF Scalars
    <3>2. Scalars'
      BY <1>0, <3>1, <3>u, <3>g, <1>c DEF Scalars, headVars
    <3> QED
      BY <1>0, <1>n, <1>5, <3>1, <3>2, <1>c, PartsNext DEF Adopt, headVars
  <2> QED
    BY <1>5, <2>1, <2>2 DEF Adopt
<1>6. CASE ApplyAck(g)
  <2>0. Head(toNode[g]) \in Frames(FromHead) /\ Head(toNode[g]).seq <= hAck /\ toNode[g] # <<>>
    BY <1>0, <1>n, <1>6, WithinHead DEF ApplyAck
  <2>1. PICK n : n = Head(toNode[g]).seq
    OBVIOUS
  <2>2. n \in 0..MaxSeq /\ n <= hAck /\ ~(n > jLast)
    BY <1>0, <1>n, <2>0, <2>1 DEF Frames
  <2>3. /\ acknowledge(n) /\ toNode' = [toNode EXCEPT ![g] = Tail(@)]
        /\ UNCHANGED <<cut, nodeOpen, sess>>
    BY <1>6, <2>1, <2>2 DEF ApplyAck
  <2>4. Scalars'
    BY <1>0, <1>n, <1>6, <2>2, <2>3 DEF ApplyAck, acknowledge, Max, Scalars, headVars
  <2>5. Within(toNode', FromHead, hAck)
    BY <1>0, <1>n, <2>0, <2>3, WithinTail
  <2> QED
    BY <1>0, <1>n, <1>6, <2>3, <2>4, <2>5, PartsNext DEF ApplyAck, headVars
<1>7. CASE StreamRead(g)
  <2>0. jAcked \in 0..MaxSeq /\ jLast \in 0..MaxSeq
    BY <1>0 DEF Scalars
  <2>1. Scalars'
    BY <1>0, <1>n, <1>7 DEF StreamRead, Scalars, durable, headVars, netVars
  <2>2. PICK x : x = [sess[g] EXCEPT !.stage = "sending", !.cursor = Max(sess[g].cursor, jAcked),
                              !.last = jLast]
    OBVIOUS
  <2>3. PICK c : c = Max(sess[g].cursor, jAcked)
    OBVIOUS
  <2>4. c \in 0..MaxSeq
    BY <1>s, <2>0, <2>3 DEF Max
  <2>5. x = [sess[g] EXCEPT !.stage = "sending", !.cursor = c, !.last = jLast]
    BY <2>2, <2>3
  <2>6. x \in Sessions /\ x.acked <= hAck /\ x.last <= jLast
    <3>1. PICK y : y = [sess[g] EXCEPT !.stage = "sending", !.cursor = c]
      OBVIOUS
    <3>2. y \in Sessions /\ y.acked = sess[g].acked
      BY <1>s, <2>4, <3>1 DEF Sessions
    <3>3. x = [y EXCEPT !.last = jLast]
      BY <2>5, <3>1
    <3> QED
      BY <1>s, <2>0, <3>2, <3>3 DEF Sessions
  <2>7. SessionsWithin(sess', hAck, jLast)
    BY <1>0, <1>n, <1>7, <2>2, <2>6, SessionSet DEF StreamRead
  <2> QED
    BY <1>0, <1>n, <1>7, <2>1, <2>7, PartsNext DEF StreamRead, durable, headVars, netVars
<1>8. CASE StreamSend(g)
  <2>0. PICK c : c = sess[g].cursor + 1
    OBVIOUS
  <2>a. sess[g].cursor < sess[g].last
    BY <1>8 DEF StreamSend
  <2>1. c \in 0..MaxSeq /\ c <= jLast
    BY <1>n, <1>s, <2>0, <2>a
  <2>2. Scalars'
    BY <1>0, <1>n, <1>8 DEF StreamSend, Scalars, durable, headVars
  <2>3. PICK x : x = [sess[g] EXCEPT !.cursor = c]
    OBVIOUS
  <2>4. x \in Sessions /\ x.acked <= hAck /\ x.last <= jLast
    BY <1>s, <2>1, <2>3 DEF Sessions
  <2>5. sess' = [sess EXCEPT ![g] = x]
    BY <1>0, <1>n, <1>8, <2>0, <2>3 DEF StreamSend, SessionsWithin
  <2>6. SessionsWithin(sess', hAck, jLast)
    BY <1>0, <1>n, <2>4, <2>5, SessionSet
  <2>7. Within(toHead', FromNode, jLast)
    <3>1. Journal(c) \in Frames(FromNode) /\ Journal(c).seq <= jLast
      BY <2>1 DEF Journal, Frames, FromNode
    <3>2. Send(g, Journal(c))
      BY <1>8, <2>0 DEF StreamSend
    <3> QED
      BY <3>1, <3>2, Sent
  <2> QED
    BY <1>0, <1>n, <1>8, <2>2, <2>6, <2>7, PartsNext DEF StreamSend, durable, headVars
<1>9. CASE StreamRest(g)
  <2>0. PICK c : c = Max(sess[g].last, sess[g].acked)
    OBVIOUS
  <2>1. c \in 0..MaxSeq /\ c <= jLast
    BY <1>0, <1>n, <1>s, <2>0 DEF Max, Scalars
  <2>2. Scalars'
    BY <1>0, <1>n, <1>9 DEF StreamRest, Scalars, durable, headVars
  <2>3. PICK x : x = [sess[g] EXCEPT !.stage = "waiting", !.replaying = FALSE]
    OBVIOUS
  <2>4. x \in Sessions /\ x.acked <= hAck /\ x.last <= jLast
    BY <1>s, <2>3 DEF Sessions
  <2>5. SessionsWithin(sess', hAck, jLast)
    BY <1>0, <1>n, <1>9, <2>3, <2>4, SessionSet DEF StreamRest
  <2>6. Within(toHead', FromNode, jLast)
    <3>1. ReplayComplete(c) \in Frames(FromNode) /\ ReplayComplete(c).seq <= jLast
      BY <2>1 DEF ReplayComplete, Frames, FromNode
    <3>2. Send(g, ReplayComplete(c)) \/ UNCHANGED toHead
      BY <1>9, <2>0 DEF StreamRest
    <3> QED
      BY <1>0, <1>n, <3>1, <3>2, Sent
  <2> QED
    BY <1>0, <1>n, <1>9, <2>2, <2>5, <2>6, PartsNext DEF StreamRest, durable, headVars
<1>10. CASE StreamWake(g)
  <2>1. Scalars'
    BY <1>0, <1>n, <1>10 DEF StreamWake, Scalars, durable, headVars, netVars
  <2>2. PICK x : x = [sess[g] EXCEPT !.stage = "reading", !.woken = FALSE]
    OBVIOUS
  <2>3. x \in Sessions /\ x.acked <= hAck /\ x.last <= jLast
    BY <1>s, <2>2 DEF Sessions
  <2>4. SessionsWithin(sess', hAck, jLast)
    BY <1>0, <1>n, <1>10, <2>2, <2>3, SessionSet DEF StreamWake
  <2> QED
    BY <1>0, <1>n, <1>10, <2>1, <2>4, PartsNext DEF StreamWake, durable, headVars, netVars
<1>11. CASE NodeLost(g)
  <2>1. Scalars'
    BY <1>0, <1>n, <1>11, <1>c DEF NodeLost, Scalars, durable, headVars
  <2> QED
    BY <1>0, <1>n, <1>11, <2>1, <1>c, PartsNext DEF NodeLost, durable, headVars
<1> QED
  BY <1>1, <1>2, <1>3, <1>4, <1>5, <1>6, <1>7, <1>8, <1>9, <1>10, <1>11
     DEF LinkStep, SessionStep

(* The steps of the machine that concern no link in particular.            *)
LEMMA MachineIInv ==
    ASSUME IInv, AppendRecord \/ MachineRestart
    PROVE  IInv'
<1> USE ReplicationAssumption
<1>0. /\ Scalars
      /\ Within(toHead, FromNode, jLast) /\ Within(toNode, FromHead, hAck)
      /\ SessionsWithin(sess, hAck, jLast)
  BY Parts
<1>n. hAck \in Nat /\ jLast \in Nat /\ jLast <= jLast + 1 /\ jLast + 1 \in Nat
  BY <1>0 DEF Scalars
<1>1. CASE AppendRecord
  <2>u. /\ jLast < MaxSeq /\ jLast' = jLast + 1
        /\ UNCHANGED <<hAck, hGen, jAcked, bound, headVars, entry, gate, netVars, faults>>
    BY <1>1 DEF AppendRecord
  <2>1. Scalars'
    BY <1>0, <2>u DEF Scalars, headVars, netVars
  <2>2. Within(toHead', FromNode, jLast') /\ Within(toNode', FromHead, hAck')
    BY <1>0, <1>n, <2>u, WithinMono DEF netVars
  <2>3. SessionsWithin(sess, hAck, jLast + 1)
    BY <1>0, <1>n, SessionsMono
  <2>4. SessionsWithin(sess', hAck, jLast + 1)
    <3>1. sess' = [g \in Gens |-> [sess[g] EXCEPT !.woken = @ \/ Streaming(g)]]
      BY <1>1 DEF AppendRecord
    <3>2. ASSUME NEW g \in Gens
          PROVE  /\ sess'[g] \in Sessions
                 /\ sess'[g].acked <= hAck /\ sess'[g].last <= jLast + 1
      <4>0. sess[g] \in Sessions /\ sess[g].acked <= hAck /\ sess[g].last <= jLast + 1
        BY <2>3 DEF SessionsWithin
      <4>1. PICK w : w = (sess[g].woken \/ Streaming(g))
        OBVIOUS
      <4>2. w \in BOOLEAN
        BY <4>1
      <4>3. sess'[g] = [sess[g] EXCEPT !.woken = w]
        BY <3>1, <4>1
      <4> QED
        BY <4>0, <4>2, <4>3 DEF Sessions
    <3>3. sess' \in [Gens -> Sessions]
      BY <3>1, <3>2
    <3> QED
      BY <3>2, <3>3 DEF SessionsWithin
  <2> QED
    BY <2>1, <2>2, <2>4, <2>u, PartsNext
<1>2. CASE MachineRestart
  <2>u. /\ faults < MaxFaults /\ faults' = faults + 1
        /\ entry' = 0 /\ gate' = 0 /\ cut' \subseteq Gens /\ nodeOpen' = {}
        /\ UNCHANGED <<durable, headVars, toHead>>
    BY <1>0, <1>2 DEF MachineRestart, Fault, Scalars
  <2>1. Scalars'
    BY <1>0, <2>u DEF Scalars, headVars, durable
  <2>2. Within(toNode', FromHead, hAck)
    BY <1>2 DEF MachineRestart, Within
  <2>3. SessionsWithin(sess', hAck, jLast)
    <3>1. /\ NoSession \in Sessions /\ NoSession.acked = 0 /\ NoSession.last = 0
      BY DEF NoSession, Sessions
    <3>2. /\ Over \in Sessions /\ Over.acked = 0 /\ Over.last = 0
      BY <3>1 DEF Over, Sessions
    <3>3. sess' = [g \in Gens |-> IF g <= hGen THEN Over ELSE NoSession]
      BY <1>2 DEF MachineRestart
    <3> QED
      BY <1>n, <3>1, <3>2, <3>3 DEF SessionsWithin
  <2> QED
    BY <1>0, <2>1, <2>2, <2>3, <2>u, PartsNext DEF durable
<1> QED
  BY <1>1, <1>2

(* Every step preserves the inductive invariant.                           *)
LEMMA NextIInv ==
    ASSUME IInv, [Next]_vars
    PROVE  IInv'
<1>1. CASE HeadStep \/ ProbeDial \/ ProbeEnd \/ HeadRestart
  BY <1>1, HeadIInv
<1>2. CASE \E g \in Gens : LinkStep(g) \/ BindCutShort(g) \/ Cut(g)
  BY <1>2, NodeIInv
<1>3. CASE AppendRecord \/ MachineRestart
  BY <1>3, MachineIInv
<1>4. CASE UNCHANGED vars
  BY <1>4 DEF vars, durable, headVars, nodeVars, netVars, IInv, TypeOK
<1> QED
  BY <1>1, <1>2, <1>3, <1>4 DEF Next

(* Every reachable state satisfies the inductive invariant.                *)
THEOREM Invariant == Spec => []IInv
<1>1. IInv /\ [Next]_vars => IInv'
  BY NextIInv
<1> QED
  BY <1>1, InitIInv, PTL DEF Spec

(* The variables of the backend, the machine and the links between them    *)
(* keep their types: no acknowledgement batch overruns, no frame carries a *)
(* sequence past the journal's.                                            *)
THEOREM TypeCorrect == Spec => []TypeOK
<1>1. IInv => TypeOK
  BY DEF IInv
<1> QED
  BY <1>1, Invariant, PTL

(* The machine deletes only records whose acknowledgement the backend has  *)
(* durably saved (Acks::flush and next_hello save before they offer;       *)
(* Journal::acknowledge deletes), whatever is cut, restarted or refused.   *)
THEOREM DeletesOnlySaved == Spec => []KeptUntilSaved
<1>1. IInv => KeptUntilSaved
  BY DEF IInv, KeptUntilSaved
<1> QED
  BY <1>1, Invariant, PTL

(* No acknowledgement under way or taken up by a session is past the       *)
(* machine's last record, so adopt and apply never refuse one.             *)
THEOREM AcksNeverAhead == Spec => []NeverAhead
<1>1. IInv => NeverAhead
  <2> SUFFICES ASSUME IInv, NEW g \in Gens
               PROVE  /\ sess[g].acked <= jLast
                      /\ \A i \in 1..Len(toNode[g]) : toNode[g][i].seq <= jLast
    BY DEF NeverAhead
  <2> USE ReplicationAssumption
  <2>1. hAck \in Nat /\ jLast \in Nat /\ hAck <= jLast
    BY DEF IInv, TypeOK
  <2>2. Within(toNode, FromHead, jLast)
    BY <2>1, WithinMono DEF IInv
  <2>3. sess[g].acked \in Nat /\ sess[g].acked <= hAck
    BY SessionOf
  <2> QED
    BY <2>1, <2>2, <2>3 DEF Within
<1> QED
  BY <1>1, Invariant, PTL

-----------------------------------------------------------------------------
(***************************************************************************)
(* No gap: ChainInv is inductive.  Every step either leaves the link the   *)
(* connector has, perhaps with one frame more on its lane (LinkKeeps), or  *)
(* takes the first frame of the lane (LaneTaken), or gives the link up     *)
(* (Unlinked), or dials a fresh one.                                       *)
(***************************************************************************)
(* Numbers and sequences, as read from the invariant.                      *)
LEMMA ChainShapes ==
    ASSUME IInv
    PROVE  /\ hGen \in Nat /\ hLink \in Nat /\ probe \in Nat /\ hAck \in Nat /\ ingested \in Nat
           /\ base \in Nat /\ Len(log) \in Nat /\ jAcked \in Nat /\ jAcked <= hAck
           /\ hLink # 0 => hLink \in Gens
           /\ \A g \in Gens : /\ g \in Nat /\ g # 0 /\ toHead[g] \in Seq(Frames(FromNode))
                              /\ sess[g].cursor \in Nat /\ sess[g].acked \in Nat /\ sess[g].acked <= hAck
                              /\ \A i \in Lane(g) : toHead[g][i].seq \in Nat
<1> USE ReplicationAssumption
<1>1. /\ hGen \in Nat /\ hLink \in Nat /\ probe \in Nat /\ hAck \in Nat /\ ingested \in Nat
      /\ base \in Nat /\ jAcked \in Nat /\ jAcked <= hAck
      /\ hLink # 0 => hLink \in Gens
  BY DEF IInv, TypeOK, Gens
<1>2. Len(log) \in Nat
  BY DEF IInv, TypeOK
<1>3. ASSUME NEW g \in Gens
      PROVE  /\ g \in Nat /\ g # 0 /\ toHead[g] \in Seq(Frames(FromNode))
             /\ sess[g].cursor \in Nat /\ sess[g].acked \in Nat /\ sess[g].acked <= hAck
             /\ \A i \in Lane(g) : toHead[g][i].seq \in Nat
  <2>1. g \in Nat /\ g # 0
    BY DEF Gens
  <2>2. toHead[g] \in Seq(Frames(FromNode))
    BY DEF IInv, TypeOK
  <2>3. sess[g].cursor \in Nat /\ sess[g].acked \in Nat /\ sess[g].acked <= hAck
    BY SessionOf
  <2>4. \A i \in Lane(g) : toHead[g][i] \in Frames(FromNode)
    BY <2>2 DEF Lane
  <2> QED
    BY <2>1, <2>2, <2>3, <2>4 DEF Frames
<1> QED
  BY <1>1, <1>2, <1>3

(* The link stays, with at most one frame more: a record follows the       *)
(* stream's cursor.                                                        *)
LEMMA LinkKeeps ==
    ASSUME ChainInv, IInv', DeliveredAll', UNCHANGED <<hLink, hStage, ingested>>,
           hGen' \in Nat, hGen <= hGen', probe' \in Nat, probe' <= hGen', hLink # 0 => probe' # hLink,
           cut \subseteq cut',
           \A g \in Gens : g > hGen' => sess'[g].stage = "none" /\ toNode'[g] = <<>>,
           \A g \in Gens : sess'[g].stage = "none" => toHead'[g] = <<>> /\ sess'[g].cursor = 0,
           \A g \in nodeOpen' : sess'[g].stage # "none",
           hLink # 0 =>
             \/ toHead'[hLink] = toHead[hLink]
             \/ \E x \in Frames(FromNode) :
                  /\ hLink \notin cut /\ toHead'[hLink] = Append(toHead[hLink], x)
                  /\ x.kind = "journal" => x.seq = sess[hLink].cursor + 1 /\ sess[hLink].stage # "none",
           hLink # 0 =>
             \/ sess'[hLink].cursor <= ingested \/ sess'[hLink].cursor = sess[hLink].cursor
             \/ \E i \in Lane(hLink)' : RecordAt(hLink, i)' /\ toHead'[hLink][i].seq = sess'[hLink].cursor,
           hLink # 0 /\ sess'[hLink].stage # "none" /\ hLink \notin cut' =>
             sess[hLink].stage # "none" \/ toHead'[hLink] # <<>>
    PROVE  ChainInv'
<1>i. IInv /\ FreshLinks /\ WelcomeFirst /\ RecordsFollow /\ DeliveredAll
  BY DEF ChainInv
<1>n. /\ hGen \in Nat /\ hLink \in Nat /\ ingested \in Nat
      /\ hLink # 0 => /\ hLink \in Gens /\ toHead[hLink] \in Seq(Frames(FromNode))
                      /\ \A i \in Lane(hLink) : toHead[hLink][i].seq \in Nat
                      /\ sess[hLink].cursor \in Nat
  BY <1>i, ChainShapes
<1>1. FreshLinks'
  BY <1>i, <1>n DEF FreshLinks
<1>2. CASE hLink = 0
  <2>1. hStage' \notin {"dialing", "serving"} /\ hLink' = 0
    BY <1>2, <1>i DEF FreshLinks
  <2>2. WelcomeFirst' /\ RecordsFollow'
    BY <2>1 DEF WelcomeFirst, RecordsFollow
  <2> QED
    BY <1>1, <2>2 DEF ChainInv
<1>3. CASE hLink # 0 /\ toHead'[hLink] = toHead[hLink]
  <2>1. Lane(hLink)' = Lane(hLink) /\ \A i : RecordAt(hLink, i)' <=> RecordAt(hLink, i)
    BY <1>3 DEF Lane, RecordAt
  <2>2. WelcomeFirst'
    BY <1>i, <1>3, <2>1 DEF WelcomeFirst
  <2>3. RecordsFollow'
    BY <1>i, <1>3, <2>1 DEF RecordsFollow
  <2> QED
    BY <1>1, <2>2, <2>3 DEF ChainInv
<1>4. CASE hLink # 0 /\ toHead'[hLink] # toHead[hLink]
  <2>1. PICK x \in Frames(FromNode) :
          /\ hLink \notin cut /\ toHead'[hLink] = Append(toHead[hLink], x)
          /\ x.kind = "journal" => x.seq = sess[hLink].cursor + 1 /\ sess[hLink].stage # "none"
    BY <1>4
  <2>2. PICK len \in Nat : len = Len(toHead[hLink])
    BY <1>n, <1>4
  <2>3. /\ Lane(hLink) = 1..len /\ Lane(hLink)' = 1..(len + 1)
        /\ \A i \in 1..len : toHead'[hLink][i] = toHead[hLink][i]
        /\ toHead'[hLink][len + 1] = x /\ toHead'[hLink] # <<>> /\ (toHead[hLink] = <<>> <=> len = 0)
    BY <1>n, <1>4, <2>1, <2>2, SMTT(60) DEF Lane
  <2>4. /\ \A i \in Lane(hLink) : i \in Lane(hLink)' /\ toHead'[hLink][i] = toHead[hLink][i] /\ i < len + 1
        /\ \A i \in Lane(hLink)' : i \in Lane(hLink) \/ i = len + 1
        /\ len + 1 \in Lane(hLink)'
    BY <2>2, <2>3
  <2>5. \A i \in Lane(hLink) : RecordAt(hLink, i)' <=> RecordAt(hLink, i)
    BY <2>4, <1>4 DEF RecordAt
  <2>6. RecordAt(hLink, len + 1)' <=> x.kind = "journal"
    BY <2>3 DEF RecordAt
  <2>7. WelcomeFirst'
    <3>1. CASE toHead[hLink] # <<>>
      <4>1. 1 \in Lane(hLink)
        BY <2>2, <2>3, <3>1
      <4> QED
        BY <1>i, <2>3, <2>5, <3>1, <4>1 DEF WelcomeFirst
    <3>2. CASE toHead[hLink] = <<>>
      <4>1. hStage = "dialing" => x.kind # "journal"
        BY <1>i, <2>1, <3>2 DEF WelcomeFirst
      <4>2. len + 1 = 1
        BY <2>2, <2>3, <3>2
      <4> QED
        BY <2>3, <2>6, <4>1, <4>2 DEF WelcomeFirst
    <3> QED
      BY <3>1, <3>2
  <2>8. RecordsFollow'
    <3>1. ASSUME NEW i \in Lane(hLink), RecordAt(hLink, i)
          PROVE  \/ toHead'[hLink][i].seq <= ingested + 1
                 \/ \E j \in Lane(hLink)' : /\ j < i /\ RecordAt(hLink, j)'
                                            /\ toHead'[hLink][i].seq = toHead'[hLink][j].seq + 1
      BY <1>i, <1>4, <2>4, <2>5, <3>1, SMTT(60) DEF RecordsFollow
    <3>2. ASSUME x.kind = "journal"
          PROVE  \/ x.seq <= ingested + 1
                 \/ \E j \in Lane(hLink)' : /\ j < len + 1 /\ RecordAt(hLink, j)'
                                            /\ x.seq = toHead'[hLink][j].seq + 1
      <4>1. CASE sess[hLink].cursor <= ingested
        BY <1>n, <1>4, <2>1, <3>2, <4>1
      <4>2. ASSUME NEW j \in Lane(hLink), RecordAt(hLink, j), toHead[hLink][j].seq = sess[hLink].cursor
            PROVE  /\ j \in Lane(hLink)' /\ j < len + 1 /\ RecordAt(hLink, j)'
                   /\ x.seq = toHead'[hLink][j].seq + 1
        BY <2>1, <2>4, <2>5, <3>2, <4>2
      <4> QED
        BY <1>i, <1>4, <4>1, <4>2 DEF RecordsFollow
    <3>3. \A i \in Lane(hLink)' : RecordAt(hLink, i)' =>
             \/ toHead'[hLink][i].seq <= ingested + 1
             \/ \E j \in Lane(hLink)' : /\ j < i /\ RecordAt(hLink, j)'
                                        /\ toHead'[hLink][i].seq = toHead'[hLink][j].seq + 1
      BY <2>3, <2>4, <2>5, <2>6, <3>1, <3>2, SMTT(60)
    <3>4. \/ sess'[hLink].cursor <= ingested
          \/ \E j \in Lane(hLink)' : RecordAt(hLink, j)' /\ toHead'[hLink][j].seq = sess'[hLink].cursor
      BY <1>i, <1>4, <2>4, <2>5, ZenonT(60) DEF RecordsFollow
    <3> QED
      BY <3>3, <3>4 DEF RecordsFollow
  <2> QED
    BY <1>1, <2>7, <2>8 DEF ChainInv
<1> QED
  BY <1>2, <1>3, <1>4

(* What is left of a lane whose first frame is taken, frame by frame.      *)
LEMMA LaneTail ==
    ASSUME IInv, NEW h \in Gens, hLink = h, hLink' = h, toHead[h] # <<>>,
           toHead' = [toHead EXCEPT ![h] = Tail(@)]
    PROVE  /\ 1 \in Lane(h)
           /\ \A i \in Lane(h)' : i \in Nat /\ i + 1 \in Lane(h) /\ toHead'[h][i] = toHead[h][i + 1]
           /\ \A i \in Lane(h) : i = 1 \/ \E k \in Lane(h)' : k \in Nat /\ i = k + 1
           /\ \A g \in Gens : g # h => toHead'[g] = toHead[g]
<1>1. toHead \in [Gens -> Seq(Frames(FromNode))] /\ toHead[h] \in Seq(Frames(FromNode))
  BY DEF IInv, TypeOK
<1>2. toHead'[h] = Tail(toHead[h]) /\ \A g \in Gens : g # h => toHead'[g] = toHead[g]
  BY <1>1
<1>3. PICK len \in Nat : len = Len(toHead[h])
  BY <1>1
<1>4. len # 0 /\ Len(toHead'[h]) = len - 1
  BY <1>1, <1>2, <1>3
<1>5. Lane(h) = 1..len /\ Lane(h)' = 1..(len - 1)
  BY <1>3, <1>4 DEF Lane
<1>6. \A i \in 1..(len - 1) : toHead'[h][i] = toHead[h][i + 1]
  BY <1>1, <1>2, <1>3
<1>7. 1 \in Lane(h) /\ \A i \in Lane(h)' : i \in Nat /\ i + 1 \in Lane(h) /\ toHead'[h][i] = toHead[h][i + 1]
  BY <1>4, <1>5, <1>6
<1>8. ASSUME NEW i \in Lane(h), i # 1 PROVE \E k \in Lane(h)' : k \in Nat /\ i = k + 1
  <2>1. i - 1 \in Lane(h)' /\ i - 1 \in Nat /\ i = (i - 1) + 1
    BY <1>4, <1>5, <1>8
  <2> QED
    BY <2>1
<1> QED
  BY <1>2, <1>7, <1>8

(* The first frame of the lane is taken; if it is a record, it is          *)
(* ingested by now.                                                        *)
LEMMA LaneTaken ==
    ASSUME ChainInv, IInv', DeliveredAll', UNCHANGED <<hGen, probe, sess, cut, nodeOpen>>,
           NEW h \in Gens, hLink = h, hLink' = h,
           hStage' = "serving", ingested' \in Nat, ingested <= ingested', toHead[h] # <<>>,
           1 \in Lane(h),
           \A i \in Lane(h)' : i \in Nat /\ i + 1 \in Lane(h) /\ toHead'[h][i] = toHead[h][i + 1],
           \A i \in Lane(h) : i = 1 \/ \E k \in Lane(h)' : k \in Nat /\ i = k + 1,
           \A g \in Gens : g # h => toHead'[g] = toHead[g],
           RecordAt(h, 1) => toHead[h][1].seq <= ingested',
           \A g \in Gens : g # h => toNode'[g] = toNode[g]
    PROVE  ChainInv'
<1>i. IInv /\ FreshLinks /\ WelcomeFirst /\ RecordsFollow /\ DeliveredAll
  BY DEF ChainInv
<1>n. /\ hGen \in Nat /\ h \in Nat /\ h # 0 /\ ingested \in Nat
      /\ \A i \in Lane(h) : toHead[h][i].seq \in Nat
      /\ sess[h].cursor \in Nat
  BY <1>i, ChainShapes
<1>1. FreshLinks'
  <2>1. sess[h].stage # "none"
    BY <1>i DEF FreshLinks
  <2>2. h <= hGen /\ \A g \in Gens : g > hGen => g # h
    BY <1>i, <1>n DEF FreshLinks
  <2> QED
    BY <1>i, <1>n, <2>1, <2>2 DEF FreshLinks
<1>2. WelcomeFirst'
  BY DEF WelcomeFirst
<1>4. \A i \in Lane(h)' : RecordAt(h, i)' <=> RecordAt(h, i + 1)
  BY DEF RecordAt
<1>6. RecordsFollow'
  <2>1. ASSUME NEW i \in Lane(h)', RecordAt(h, i)'
        PROVE  \/ toHead'[h][i].seq <= ingested' + 1
               \/ \E j \in Lane(h)' : /\ j < i /\ RecordAt(h, j)'
                                      /\ toHead'[h][i].seq = toHead'[h][j].seq + 1
    <3>1. i + 1 \in Lane(h) /\ RecordAt(h, i + 1) /\ toHead'[h][i] = toHead[h][i + 1] /\ i \in Nat
      BY <1>4, <2>1
    <3>2. toHead[h][i + 1].seq \in Nat /\ toHead'[h][i].seq = toHead[h][i + 1].seq
      BY <1>n, <3>1
    <3>3. CASE toHead[h][i + 1].seq <= ingested + 1
      BY <1>n, <3>2, <3>3
    <3>4. ASSUME NEW m \in Lane(h), m < i + 1, RecordAt(h, m),
                 toHead[h][i + 1].seq = toHead[h][m].seq + 1
          PROVE  \/ toHead'[h][i].seq <= ingested' + 1
                 \/ \E j \in Lane(h)' : /\ j < i /\ RecordAt(h, j)'
                                        /\ toHead'[h][i].seq = toHead'[h][j].seq + 1
      <4>1. CASE m = 1
        <5>1. toHead[h][m].seq \in Nat /\ toHead[h][m].seq <= ingested'
          BY <1>n, <3>4, <4>1
        <5> QED
          BY <3>2, <3>4, <5>1
      <4>2. CASE m # 1
        <5>1. PICK k \in Lane(h)' : k \in Nat /\ m = k + 1
          BY <4>2
        <5>2. k < i /\ RecordAt(h, k)' /\ toHead'[h][k] = toHead[h][m]
          BY <1>4, <3>1, <3>4, <5>1
        <5> QED
          BY <3>2, <3>4, <5>2
      <4> QED
        BY <4>1, <4>2
    <3> QED
      BY <1>i, <1>n, <3>1, <3>3, <3>4 DEF RecordsFollow
  <2>2. \/ sess'[h].cursor <= ingested'
        \/ \E j \in Lane(h)' : RecordAt(h, j)' /\ toHead'[h][j].seq = sess'[h].cursor
    <3>1. CASE sess[h].cursor <= ingested
      BY <1>n, <3>1
    <3>2. ASSUME NEW m \in Lane(h), RecordAt(h, m), toHead[h][m].seq = sess[h].cursor
          PROVE  \/ sess'[h].cursor <= ingested'
                 \/ \E j \in Lane(h)' : RecordAt(h, j)' /\ toHead'[h][j].seq = sess'[h].cursor
      <4>1. CASE m = 1
        BY <3>2, <4>1
      <4>2. CASE m # 1
        <5>1. PICK k \in Lane(h)' : k \in Nat /\ m = k + 1
          BY <4>2
        <5>2. RecordAt(h, k)' /\ toHead'[h][k] = toHead[h][m]
          BY <1>4, <3>2, <5>1
        <5> QED
          BY <3>2, <5>2
      <4> QED
        BY <4>1, <4>2
    <3> QED
      BY <1>i, <1>n, <3>1, <3>2 DEF RecordsFollow
  <2> QED
    BY <2>1, <2>2 DEF RecordsFollow
<1> QED
  BY <1>1, <1>2, <1>6 DEF ChainInv

(* The connector has no link, or gives up the one it has.                  *)
LEMMA Unlinked ==
    ASSUME ChainInv, IInv', DeliveredAll', UNCHANGED <<hGen, sess, nodeOpen>>,
           hLink' = 0, hStage' \in {"idle", "offering"}, probe' \in {0, probe},
           \A g \in Gens : toHead'[g] \in {toHead[g], <<>>},
           \A g \in Gens : toNode'[g] = toNode[g] \/ g = hLink
    PROVE  ChainInv'
<1>i. IInv /\ FreshLinks
  BY DEF ChainInv
<1>n. hGen \in Nat /\ hLink \in Nat /\ probe \in Nat
  BY <1>i, ChainShapes
<1>1. FreshLinks'
  <2>1. hLink' <= hGen' /\ probe' <= hGen' /\ (hLink' # 0 <=> hStage' \in {"dialing", "serving"})
    BY <1>i, <1>n DEF FreshLinks
  <2>2. \A g \in Gens : g > hGen => sess'[g].stage = "none" /\ toNode'[g] = <<>>
    BY <1>i, <1>n DEF FreshLinks
  <2>3. \A g \in Gens : sess'[g].stage = "none" => toHead'[g] = <<>> /\ sess'[g].cursor = 0
    BY <1>i DEF FreshLinks
  <2>4. \A g \in nodeOpen' : sess'[g].stage # "none"
    BY <1>i DEF FreshLinks
  <2> QED
    BY <2>1, <2>2, <2>3, <2>4 DEF FreshLinks
<1>2. WelcomeFirst' /\ RecordsFollow'
  BY DEF WelcomeFirst, RecordsFollow
<1> QED
  BY <1>1, <1>2 DEF ChainInv

(* The invariant holds at the start.                                       *)
LEMMA InitChain == Init => ChainInv
<1> SUFFICES ASSUME Init PROVE ChainInv
  OBVIOUS
<1>1. IInv
  BY InitIInv
<1>2. /\ \A g \in Gens : toHead[g] = <<>> /\ toNode[g] = <<>> /\ sess[g] = NoSession
      /\ NoSession.stage = "none" /\ NoSession.cursor = 0
      /\ hLink = 0 /\ hGen = 0 /\ probe = 0 /\ hStage = "idle" /\ nodeOpen = {}
  BY DEF Init, NoSession
<1>3. FreshLinks /\ WelcomeFirst /\ RecordsFollow
  BY <1>2 DEF FreshLinks, WelcomeFirst, RecordsFollow
<1>4. DeliveredAll
  BY DEF Init, DeliveredAll
<1> QED
  BY <1>1, <1>3, <1>4 DEF ChainInv

(* The next record is never past the one to come.                          *)
LEMMA ChainNoGap == ChainInv => NoGap
<1> SUFFICES ASSUME ChainInv, hStage = "serving", toHead[hLink] # <<>>, Head(toHead[hLink]).kind = "journal"
             PROVE  Head(toHead[hLink]).seq <= ingested + 1
  BY DEF NoGap
<1>i. IInv /\ FreshLinks /\ RecordsFollow
  BY DEF ChainInv
<1>1. hLink # 0 /\ hLink \in Gens /\ toHead[hLink] \in Seq(Frames(FromNode))
  BY <1>i, ChainShapes DEF FreshLinks
<1>2. 1 \in Lane(hLink) /\ Head(toHead[hLink]) = toHead[hLink][1] /\ \A j \in Lane(hLink) : ~(j < 1)
  BY <1>1 DEF Lane
<1>3. RecordAt(hLink, 1)
  BY <1>2 DEF RecordAt
<1> QED
  BY <1>i, <1>1, <1>2, <1>3 DEF RecordsFollow

(* flush saves what it is given or nothing, and sends on the link alone.   *)
LEMMA FlushOnly ==
    ASSUME IInv, NEW n, flush(n), hLink \in Gens
    PROVE  /\ hAck' \in {hAck, n}
           /\ \A g \in Gens : g # hLink => toNode'[g] = toNode[g]
<1>1. toNode \in [Gens -> Seq(Frames(FromHead))]
  BY DEF IInv, TypeOK
<1> QED
  BY <1>1 DEF flush, persist_ack, FailedSave, Max

(* Disconnect drops the link's lane alone.                                 *)
LEMMA DisconnectOnly ==
    ASSUME IInv, Disconnect, hLink \in Gens
    PROVE  /\ hLink' = 0 /\ hStage' = "idle"
           /\ \A g \in Gens : toHead'[g] \in {toHead[g], <<>>}
<1>1. toHead \in [Gens -> Seq(Frames(FromNode))]
  BY DEF IInv, TypeOK
<1> QED
  BY <1>1 DEF Disconnect

(* A record without a gap is a duplicate, or the next one.                 *)
LEMMA NextOrKnown ==
    ASSUME NEW n \in Nat, ingested \in Nat, n <= ingested + 1
    PROVE  /\ classify(n) # "gap"
           /\ classify(n) = "next" <=> n = ingested + 1
  BY DEF classify

(* Receiving a record: it is ingested by now, and delivered if it is new.  *)
LEMMA RecordReceived ==
    ASSUME ChainInv, ReceiveRecord
    PROVE  /\ hLink \in Gens /\ toHead[hLink] # <<>> /\ ingested \in Nat
           /\ \/ /\ ingested' = ingested + 1 /\ log' = Append(log, ingested + 1)
                 /\ ingested + 1 <= jLast
              \/ ingested' = ingested /\ log' = log
           /\ toHead[hLink][1].seq <= ingested'
           /\ hAck' \in {hAck, ingested'}
           /\ \A g \in Gens : g # hLink => toNode'[g] = toNode[g]
           /\ toHead' = [toHead EXCEPT ![hLink] = Tail(@)]
           /\ UNCHANGED <<hStage, hLink, cut, hGen, probe, base, jAcked, jLast, sess, nodeOpen>>
<1>i. IInv /\ FreshLinks
  BY DEF ChainInv
<1>1. NextFrame("journal") /\ hStage = "serving" /\ toHead[hLink] # <<>> /\ Head(toHead[hLink]).kind = "journal"
  BY DEF ReceiveRecord, NextFrame
<1>2. hLink # 0 /\ hLink \in Gens /\ ingested \in Nat /\ toHead[hLink] \in Seq(Frames(FromNode))
  BY <1>i, <1>1, ChainShapes DEF FreshLinks
<1>3. PICK n : n = Head(toHead[hLink]).seq
  OBVIOUS
<1>4. n = toHead[hLink][1].seq /\ n \in Nat /\ n <= jLast
  <2>1. Head(toHead[hLink]) = toHead[hLink][1] /\ 1 \in Lane(hLink)
    BY <1>1, <1>2 DEF Lane
  <2>2. jLast \in Nat /\ Within(toHead, FromNode, jLast)
    BY <1>i, ReplicationAssumption DEF IInv, TypeOK
  <2>3. Head(toHead[hLink]).seq <= jLast
    BY <1>1, <1>2, <2>2, WithinHead
  <2> QED
    BY <1>i, <1>2, <1>3, <2>1, <2>3, ChainShapes
<1>5. n <= ingested + 1
  BY <1>1, <1>3, ChainNoGap DEF NoGap
<1>6. classify(n) # "gap" /\ (classify(n) = "next" <=> n = ingested + 1)
  BY <1>2, <1>4, <1>5, NextOrKnown
<1>7. /\ ingested' = (IF n = ingested + 1 THEN n ELSE ingested)
      /\ log' = (IF n = ingested + 1 THEN Append(log, n) ELSE log)
      /\ flush(ingested') \/ UNCHANGED <<hAck, toNode, faults>>
      /\ toHead' = [toHead EXCEPT ![hLink] = Tail(@)]
      /\ UNCHANGED <<hStage, hLink, cut>>
  BY <1>3, <1>6 DEF ReceiveRecord
<1>8. hAck' \in {hAck, ingested'} /\ \A g \in Gens : g # hLink => toNode'[g] = toNode[g]
  BY <1>i, <1>2, <1>7, FlushOnly
<1>9. UNCHANGED <<hGen, probe, base, jAcked, jLast, sess, nodeOpen>>
  BY DEF ReceiveRecord, nodeVars
<1>10. n <= ingested'
  BY <1>2, <1>4, <1>5, <1>7
<1> QED
  BY <1>1, <1>2, <1>4, <1>7, <1>8, <1>9, <1>10

(* The backend's steps.                                                    *)
LEMMA HeadChain ==
    ASSUME ChainInv, HeadStep \/ ProbeDial \/ ProbeEnd \/ HeadRestart
    PROVE  ChainInv'
<1>i. IInv /\ FreshLinks /\ WelcomeFirst /\ RecordsFollow /\ DeliveredAll
  BY DEF ChainInv
<1>j. IInv'
  BY <1>i, HeadIInv
<1>n. /\ hGen \in Nat /\ hLink \in Nat /\ probe \in Nat /\ hAck \in Nat /\ ingested \in Nat
      /\ base \in Nat /\ Len(log) \in Nat /\ (hLink # 0 => hLink \in Gens)
      /\ hAck <= ingested /\ ingested = base + Len(log)
  BY <1>i, ChainShapes DEF DeliveredAll
<1>g. \A g \in Gens : g \in Nat /\ g # 0
  BY DEF Gens
<1>t. /\ toHead \in [Gens -> Seq(Frames(FromNode))] /\ toNode \in [Gens -> Seq(Frames(FromHead))]
  BY <1>i DEF IInv, TypeOK
<1>f. hLink <= hGen /\ probe <= hGen /\ (hLink # 0 <=> hStage \in {"dialing", "serving"})
  BY <1>i DEF FreshLinks
<1>1. CASE SaveForHello
  <2>1. /\ hAck' \in {hAck, ingested} /\ hLink = 0 /\ hStage' = "offering"
        /\ UNCHANGED <<hGen, hLink, ingested, probe, base, log, sess, nodeOpen, toHead, toNode>>
    BY <1>1, <1>f DEF SaveForHello, persist_ack, FailedSave, Max, nodeVars, netVars
  <2>2. DeliveredAll'
    BY <1>n, <2>1 DEF DeliveredAll
  <2> QED
    BY <1>j, <2>1, <2>2, Unlinked
<1>2. CASE Dial
  <2>1. /\ hGen + 1 \in Gens /\ hGen' = hGen + 1 /\ hLink' = hGen + 1 /\ hStage' = "dialing"
        /\ \A g \in Gens : g # hGen + 1 => toNode'[g] = toNode[g]
        /\ UNCHANGED <<hAck, ingested, probe, base, log, sess, nodeOpen, toHead, cut>>
    BY <1>2, <1>n, <1>t, ReplicationAssumption DEF Dial, Gens, nodeVars
  <2>2. sess[hGen + 1].stage = "none" /\ toHead[hGen + 1] = <<>> /\ sess[hGen + 1].cursor = 0
    BY <1>i, <1>n, <2>1 DEF FreshLinks
  <2>3. FreshLinks'
    BY <1>i, <1>n, <1>f, <1>g, <2>1 DEF FreshLinks
  <2>4. WelcomeFirst'
    BY <2>1, <2>2 DEF WelcomeFirst
  <2>5. Lane(hLink)' = {}
    BY <2>1, <2>2 DEF Lane
  <2>6. RecordsFollow'
    BY <1>n, <2>1, <2>2, <2>5 DEF RecordsFollow
  <2>7. DeliveredAll'
    BY <1>n, <2>1 DEF DeliveredAll
  <2> QED
    BY <1>j, <2>3, <2>4, <2>6, <2>7 DEF ChainInv
<1>3. CASE ProbeDial
  <2>1. /\ hGen + 1 \in Gens /\ hGen' = hGen + 1 /\ probe' = hGen + 1
        /\ \A g \in Gens : g # hGen + 1 => toNode'[g] = toNode[g]
        /\ UNCHANGED <<hAck, hLink, hStage, ingested, base, log, sess, nodeOpen, toHead, cut>>
    BY <1>3, <1>n, <1>t, ReplicationAssumption DEF ProbeDial, Gens, nodeVars
  <2>2. DeliveredAll'
    BY <1>n, <2>1 DEF DeliveredAll
  <2>3. /\ hGen' \in Nat /\ hGen <= hGen' /\ probe' \in Nat /\ probe' <= hGen' /\ probe' # hLink
    BY <1>n, <1>f, <2>1
  <2>4. \A g \in Gens : g > hGen' => sess'[g].stage = "none" /\ toNode'[g] = <<>>
    BY <1>i, <1>n, <1>g, <2>1, SMTT(60) DEF FreshLinks
  <2>5. /\ \A g \in Gens : sess'[g].stage = "none" => toHead'[g] = <<>> /\ sess'[g].cursor = 0
        /\ \A g \in nodeOpen' : sess'[g].stage # "none"
    BY <1>i, <2>1 DEF FreshLinks
  <2> QED
    BY <1>j, <2>1, <2>2, <2>3, <2>4, <2>5, LinkKeeps
<1>4. CASE ProbeEnd
  <2>1. /\ probe \in Gens /\ probe' = 0 /\ toHead'[probe] = <<>> /\ cut \subseteq cut'
        /\ \A g \in Gens : g # probe => toHead'[g] = toHead[g]
        /\ UNCHANGED <<hAck, hGen, hLink, hStage, ingested, base, log, sess, nodeOpen, toNode>>
    <3>1. probe \in Gens
      BY <1>4, <1>i DEF ProbeEnd, IInv, TypeOK, Gens
    <3> QED
      BY <1>4, <1>t, <3>1 DEF ProbeEnd, durable, nodeVars
  <2>2. DeliveredAll'
    BY <1>n, <2>1 DEF DeliveredAll
  <2>3. hLink # 0 => toHead'[hLink] = toHead[hLink]
    BY <1>i, <1>n, <2>1 DEF FreshLinks
  <2>4. \A g \in Gens : g > hGen' => sess'[g].stage = "none" /\ toNode'[g] = <<>>
    BY <1>i, <2>1 DEF FreshLinks
  <2>5. /\ \A g \in Gens : sess'[g].stage = "none" => toHead'[g] = <<>> /\ sess'[g].cursor = 0
        /\ \A g \in nodeOpen' : sess'[g].stage # "none"
    BY <1>i, <2>1 DEF FreshLinks
  <2>6. hGen' \in Nat /\ hGen <= hGen' /\ probe' \in Nat /\ probe' <= hGen' /\ (hLink # 0 => probe' # hLink)
    BY <1>n, <2>1
  <2> QED
    BY <1>j, <2>1, <2>2, <2>3, <2>4, <2>5, <2>6, LinkKeeps
<1>5. CASE Welcomed
  <2>0. /\ hStage = "dialing" /\ hLink \in Gens /\ toHead[hLink] # <<>>
        /\ UNCHANGED <<hAck, hGen, ingested, probe, base, log, sess, nodeOpen, toNode>>
    BY <1>5, <1>n, <1>f DEF Welcomed, durable, nodeVars
  <2>d. DeliveredAll'
    BY <1>n, <2>0 DEF DeliveredAll
  <2>1. CASE /\ hStage' = "serving" /\ toHead' = [toHead EXCEPT ![hLink] = Tail(@)]
             /\ UNCHANGED <<hLink, cut>>
    <3>1. PICK h \in Gens : h = hLink
      BY <2>0
    <3>2. /\ 1 \in Lane(h)
          /\ \A i \in Lane(h)' : i \in Nat /\ i + 1 \in Lane(h) /\ toHead'[h][i] = toHead[h][i + 1]
          /\ \A i \in Lane(h) : i = 1 \/ \E k \in Lane(h)' : k \in Nat /\ i = k + 1
          /\ \A g \in Gens : g # h => toHead'[g] = toHead[g]
      BY <1>i, <2>0, <2>1, <3>1, LaneTail
    <3>3. ~RecordAt(h, 1)
      BY <1>i, <2>0, <3>1 DEF WelcomeFirst
    <3>4. ingested' \in Nat /\ ingested <= ingested'
      BY <1>n, <2>0
    <3> QED
      BY <1>j, <2>0, <2>1, <2>d, <3>1, <3>2, <3>3, <3>4, LaneTaken
  <2>2. CASE Disconnect
    BY <1>i, <1>j, <2>0, <2>2, <2>d, DisconnectOnly, Unlinked
  <2> QED
    BY <1>5, <2>1, <2>2 DEF Welcomed
<1>6. CASE DialFailed
  <2>0. /\ hLink \in Gens /\ Disconnect
        /\ UNCHANGED <<hAck, hGen, ingested, probe, base, log, sess, nodeOpen, toNode>>
    BY <1>6, <1>n, <1>f DEF DialFailed, durable, nodeVars
  <2>d. DeliveredAll'
    BY <1>n, <2>0 DEF DeliveredAll
  <2> QED
    BY <1>i, <1>j, <2>0, <2>d, DisconnectOnly, Unlinked
<1>7. CASE ReceiveRecord
  <2>0. /\ hLink \in Gens /\ toHead[hLink] # <<>>
        /\ \/ ingested' = ingested + 1 /\ log' = Append(log, ingested + 1)
           \/ ingested' = ingested /\ log' = log
        /\ toHead[hLink][1].seq <= ingested'
        /\ hAck' \in {hAck, ingested'}
        /\ \A g \in Gens : g # hLink => toNode'[g] = toNode[g]
        /\ toHead' = [toHead EXCEPT ![hLink] = Tail(@)]
        /\ UNCHANGED <<hStage, hLink, cut, hGen, probe, base, sess, nodeOpen>>
    BY <1>7, RecordReceived
  <2>1. log \in Seq(Seqs) /\ Len(Append(log, ingested + 1)) = Len(log) + 1
    BY <1>i DEF IInv, TypeOK
  <2>d. DeliveredAll'
    <3>1. \/ ingested' = ingested + 1 /\ Len(log') = Len(log) + 1
          \/ ingested' = ingested /\ Len(log') = Len(log)
      BY <2>0, <2>1
    <3>2. hAck' \in {hAck, ingested'} /\ base' = base
      BY <2>0
    <3> QED
      BY <1>n, <3>1, <3>2 DEF DeliveredAll
  <2>2. PICK h \in Gens : h = hLink
    BY <2>0
  <2>3. /\ 1 \in Lane(h)
        /\ \A i \in Lane(h)' : i \in Nat /\ i + 1 \in Lane(h) /\ toHead'[h][i] = toHead[h][i + 1]
        /\ \A i \in Lane(h) : i = 1 \/ \E k \in Lane(h)' : k \in Nat /\ i = k + 1
        /\ \A g \in Gens : g # h => toHead'[g] = toHead[g]
    BY <1>i, <2>0, <2>2, LaneTail
  <2>4. ingested' \in Nat /\ ingested <= ingested' /\ hStage' = "serving"
    BY <1>n, <1>7, <2>0 DEF ReceiveRecord, NextFrame
  <2> QED
    BY <1>j, <2>0, <2>d, <2>2, <2>3, <2>4, LaneTaken
<1>8. CASE ReceiveReplayComplete
  <2>0. /\ hStage = "serving" /\ hLink \in Gens /\ toHead[hLink] # <<>> /\ flush(ingested)
        /\ Head(toHead[hLink]).kind = "replayComplete"
        /\ toHead' = [toHead EXCEPT ![hLink] = Tail(@)]
        /\ UNCHANGED <<hStage, hLink, cut, hGen, ingested, probe, base, log, sess, nodeOpen>>
    BY <1>8, <1>n, <1>f DEF ReceiveReplayComplete, NextFrame, nodeVars
  <2>1. hAck' \in {hAck, ingested} /\ \A g \in Gens : g # hLink => toNode'[g] = toNode[g]
    BY <1>i, <2>0, FlushOnly
  <2>d. DeliveredAll'
    BY <1>n, <2>0, <2>1 DEF DeliveredAll
  <2>2. PICK h \in Gens : h = hLink
    BY <2>0
  <2>3. /\ 1 \in Lane(h)
        /\ \A i \in Lane(h)' : i \in Nat /\ i + 1 \in Lane(h) /\ toHead'[h][i] = toHead[h][i + 1]
        /\ \A i \in Lane(h) : i = 1 \/ \E k \in Lane(h)' : k \in Nat /\ i = k + 1
        /\ \A g \in Gens : g # h => toHead'[g] = toHead[g]
    BY <1>i, <2>0, <2>2, LaneTail
  <2>4. toHead[h][1] = Head(toHead[h])
    BY <1>t, <2>0, <2>2
  <2>5. ~RecordAt(h, 1)
    BY <2>0, <2>2, <2>4 DEF RecordAt
  <2>6. ingested' \in Nat /\ ingested <= ingested' /\ hStage' = "serving"
    BY <1>n, <2>0
  <2> QED
    BY <1>j, <2>0, <2>1, <2>d, <2>2, <2>3, <2>5, <2>6, LaneTaken, ZenonT(60)
<1>9. CASE AckDue
  <2>0. /\ hLink \in Gens /\ flush(ingested)
        /\ UNCHANGED <<hStage, hLink, cut, hGen, ingested, probe, base, log, sess, nodeOpen, toHead>>
    BY <1>9, <1>n, <1>f DEF AckDue, nodeVars
  <2>1. hAck' \in {hAck, ingested} /\ \A g \in Gens : g # hLink => toNode'[g] = toNode[g]
    BY <1>i, <2>0, FlushOnly
  <2>d. DeliveredAll'
    BY <1>n, <2>0, <2>1 DEF DeliveredAll
  <2>4. \A g \in Gens : g > hGen' => sess'[g].stage = "none" /\ toNode'[g] = <<>>
    BY <1>i, <1>n, <1>f, <1>g, <2>0, <2>1 DEF FreshLinks
  <2>5. /\ \A g \in Gens : sess'[g].stage = "none" => toHead'[g] = <<>> /\ sess'[g].cursor = 0
        /\ \A g \in nodeOpen' : sess'[g].stage # "none"
    BY <1>i, <2>0 DEF FreshLinks
  <2>6. hGen' \in Nat /\ hGen <= hGen' /\ probe' \in Nat /\ probe' <= hGen' /\ (hLink # 0 => probe' # hLink)
    BY <1>i, <1>n, <2>0 DEF FreshLinks
  <2> QED
    BY <1>j, <2>0, <2>d, <2>4, <2>5, <2>6, LinkKeeps
<1>10. CASE LinkLost
  <2>0. /\ hLink \in Gens /\ flush(ingested) /\ Disconnect
        /\ UNCHANGED <<hGen, ingested, probe, base, log, sess, nodeOpen>>
    BY <1>10, <1>n, <1>f DEF LinkLost, nodeVars
  <2>1. hAck' \in {hAck, ingested} /\ \A g \in Gens : g # hLink => toNode'[g] = toNode[g]
    BY <1>i, <2>0, FlushOnly
  <2>d. DeliveredAll'
    BY <1>n, <2>0, <2>1 DEF DeliveredAll
  <2> QED
    BY <1>i, <1>j, <2>0, <2>1, <2>d, DisconnectOnly, Unlinked
<1>11. CASE HeadRestart
  <2>0. /\ hLink' = 0 /\ hStage' = "idle" /\ probe' = 0 /\ ingested' = hAck /\ base' = hAck /\ log' = <<>>
        /\ \A g \in Gens : toHead'[g] = <<>>
        /\ UNCHANGED <<hGen, hAck, sess, nodeOpen, toNode>>
    BY <1>11 DEF HeadRestart, durable, nodeVars
  <2>d. DeliveredAll'
    BY <1>n, <2>0 DEF DeliveredAll
  <2> QED
    BY <1>j, <2>0, <2>d, Unlinked
<1> QED
  BY <1>1, <1>2, <1>3, <1>4, <1>5, <1>6, <1>7, <1>8, <1>9, <1>10, <1>11 DEF HeadStep

(* A machine's step that sends nothing: a session is closed or goes on,    *)
(* its cursor where it was or at something ingested.                       *)
LEMMA SilentStep ==
    ASSUME ChainInv, IInv', UNCHANGED <<hAck, hGen, headVars, toHead>>, cut \subseteq cut',
           \A f \in nodeOpen' : sess'[f].stage # "none",
           \A f \in Gens : /\ sess[f].stage = "none" /\ f > hGen => sess'[f].stage = "none"
                           /\ sess'[f].stage = "none" => sess[f].stage = "none" /\ sess'[f].cursor = 0
                           /\ sess'[f].cursor = sess[f].cursor \/ sess'[f].cursor <= ingested
                           /\ sess'[f].stage # "none" /\ f \notin cut' => sess[f].stage # "none"
                           /\ toNode'[f] \in {toNode[f], <<>>} \/ f <= hGen
    PROVE  ChainInv'
<1>i. IInv /\ FreshLinks /\ DeliveredAll
  BY DEF ChainInv
<1>n. /\ hGen \in Nat /\ probe \in Nat /\ hLink \in Nat /\ (hLink # 0 => hLink \in Gens)
      /\ \A f \in Gens : f \in Nat
  BY <1>i, ChainShapes
<1>u. UNCHANGED <<hAck, hGen, hLink, hStage, probe, ingested, base, log, toHead>>
  BY DEF headVars
<1>1. DeliveredAll'
  BY <1>i, <1>u DEF DeliveredAll
<1>2. \A g \in Gens : g > hGen' => sess'[g].stage = "none" /\ toNode'[g] = <<>>
  BY <1>i, <1>n, <1>u DEF FreshLinks
<1>3. \A g \in Gens : sess'[g].stage = "none" => toHead'[g] = <<>> /\ sess'[g].cursor = 0
  BY <1>i, <1>u DEF FreshLinks
<1>4. hGen' \in Nat /\ hGen <= hGen' /\ probe' \in Nat /\ probe' <= hGen' /\ (hLink # 0 => probe' # hLink)
  BY <1>i, <1>n, <1>u DEF FreshLinks
<1>5. hLink # 0 /\ sess'[hLink].stage # "none" /\ hLink \notin cut' => sess[hLink].stage # "none"
  BY <1>n
<1> QED
  BY <1>n, <1>u, <1>1, <1>2, <1>3, <1>4, <1>5, LinkKeeps

(* Over, and sessions that have not begun.                                 *)
LEMMA Ended == /\ Over.stage = "over" /\ Over.cursor = 0
               /\ NoSession.stage = "none" /\ NoSession.cursor = 0
<1>1. NoSession.stage = "none" /\ NoSession.cursor = 0
  BY DEF NoSession
<1>2. Over.stage = "over" /\ Over.cursor = 0
  BY DEF NoSession, Over
<1> QED
  BY <1>1, <1>2

(* The machine's end of a link closes.                                     *)
LEMMA ClosedChain ==
    ASSUME ChainInv, IInv', NEW g \in Gens, g <= hGen, CloseLink(g),
           UNCHANGED <<hAck, hGen, headVars, toHead>>
    PROVE  ChainInv'
<1>i. IInv /\ FreshLinks
  BY DEF ChainInv
<1>n. hGen \in Nat /\ ingested \in Nat /\ \A f \in Gens : f \in Nat
  BY <1>i, ChainShapes
<1>1. /\ sess'[g] = Over /\ \A f \in Gens : f # g => sess'[f] = sess[f] /\ toNode'[f] = toNode[f]
      /\ g \in cut' /\ cut \subseteq cut' /\ nodeOpen' = nodeOpen \ {g} /\ nodeOpen \subseteq Gens
      /\ toNode'[g] = <<>>
  BY <1>i DEF CloseLink, IInv, TypeOK
<1>2. ASSUME NEW f \in Gens
      PROVE  /\ sess[f].stage = "none" /\ f > hGen => sess'[f].stage = "none"
             /\ sess'[f].stage = "none" => sess[f].stage = "none" /\ sess'[f].cursor = 0
             /\ sess'[f].cursor = sess[f].cursor \/ sess'[f].cursor <= ingested
             /\ sess'[f].stage # "none" /\ f \notin cut' => sess[f].stage # "none"
             /\ toNode'[f] \in {toNode[f], <<>>} \/ f <= hGen
  <2>1. CASE f = g
    BY <1>n, <1>1, <2>1, Ended
  <2>2. CASE f # g
    BY <1>i, <1>1, <2>2 DEF FreshLinks
  <2> QED
    BY <2>1, <2>2
<1>3. \A f \in nodeOpen' : sess'[f].stage # "none"
  BY <1>i, <1>1 DEF FreshLinks
<1> QED
  BY <1>1, <1>2, <1>3, SilentStep

(* A link with a session, or with frames to the machine, was dialed.       *)
LEMMA Dialed ==
    ASSUME ChainInv, NEW g \in Gens, sess[g].stage # "none" \/ toNode[g] # <<>>
    PROVE  g <= hGen
<1>1. IInv /\ FreshLinks
  BY DEF ChainInv
<1>2. g \in Nat /\ hGen \in Nat
  BY <1>1, ChainShapes
<1> QED
  BY <1>1, <1>2 DEF FreshLinks

(* A session that goes on.                                                 *)
LEMMA GoesOn ==
    ASSUME ChainInv, IInv', NEW g \in Gens, sess[g].stage # "none", UNCHANGED <<hAck, hGen, headVars, toHead, cut>>,
           \A f \in Gens : f # g => sess'[f] = sess[f] /\ toNode'[f] = toNode[f],
           sess'[g].stage # "none", sess'[g].cursor = sess[g].cursor \/ sess'[g].cursor <= ingested,
           nodeOpen' \subseteq nodeOpen \cup {g}
    PROVE  ChainInv'
<1>i. IInv /\ FreshLinks
  BY DEF ChainInv
<1>1. g <= hGen
  BY Dialed
<1>2. ASSUME NEW f \in Gens
      PROVE  /\ sess[f].stage = "none" /\ f > hGen => sess'[f].stage = "none"
             /\ sess'[f].stage = "none" => sess[f].stage = "none" /\ sess'[f].cursor = 0
             /\ sess'[f].cursor = sess[f].cursor \/ sess'[f].cursor <= ingested
             /\ sess'[f].stage # "none" /\ f \notin cut' => sess[f].stage # "none"
             /\ toNode'[f] \in {toNode[f], <<>>} \/ f <= hGen
  BY <1>i, <1>1 DEF FreshLinks
<1>3. \A f \in nodeOpen' : sess'[f].stage # "none"
  <2>1. nodeOpen \subseteq Gens
    BY <1>i DEF IInv, TypeOK
  <2> QED
    BY <1>i, <2>1 DEF FreshLinks
<1> QED
  BY <1>2, <1>3, SilentStep

(* A session that goes on and sends one frame: a record only after its     *)
(* cursor.                                                                 *)
LEMMA Sends ==
    ASSUME ChainInv, IInv', NEW g \in Gens, sess[g].stage # "none", NEW x \in Frames(FromNode),
           UNCHANGED <<hAck, hGen, headVars, toNode, cut, nodeOpen>>,
           \A f \in Gens : f # g => sess'[f] = sess[f] /\ toHead'[f] = toHead[f],
           g \notin cut, toHead'[g] = Append(toHead[g], x), sess'[g].stage # "none",
           IF x.kind = "journal" THEN x.seq = sess[g].cursor + 1 /\ sess'[g].cursor = x.seq
                                 ELSE sess'[g].cursor = sess[g].cursor
    PROVE  ChainInv'
<1>i. IInv /\ FreshLinks /\ DeliveredAll
  BY DEF ChainInv
<1>n. /\ hGen \in Nat /\ probe \in Nat /\ hLink \in Nat /\ (hLink # 0 => hLink \in Gens)
      /\ toHead[g] \in Seq(Frames(FromNode)) /\ \A f \in Gens : f \in Nat
  BY <1>i, ChainShapes
<1>u. UNCHANGED <<hAck, hGen, hLink, hStage, probe, ingested, base, log>>
  BY DEF headVars
<1>1. DeliveredAll'
  BY <1>i, <1>u DEF DeliveredAll
<1>2. g <= hGen
  BY Dialed
<1>3. \A f \in Gens : f > hGen' => sess'[f].stage = "none" /\ toNode'[f] = <<>>
  BY <1>i, <1>n, <1>u, <1>2 DEF FreshLinks
<1>4. \A f \in Gens : sess'[f].stage = "none" => toHead'[f] = <<>> /\ sess'[f].cursor = 0
  BY <1>i DEF FreshLinks
<1>5. \A f \in nodeOpen' : sess'[f].stage # "none"
  <2>1. nodeOpen \subseteq Gens
    BY <1>i DEF IInv, TypeOK
  <2> QED
    BY <1>i, <2>1 DEF FreshLinks
<1>6. hGen' \in Nat /\ hGen <= hGen' /\ probe' \in Nat /\ probe' <= hGen' /\ (hLink # 0 => probe' # hLink)
  BY <1>i, <1>n, <1>u DEF FreshLinks
<1>7. hLink # 0 => \/ toHead'[hLink] = toHead[hLink]
                   \/ /\ hLink \notin cut /\ toHead'[hLink] = Append(toHead[hLink], x)
                      /\ x.kind = "journal" => x.seq = sess[hLink].cursor + 1 /\ sess[hLink].stage # "none"
  BY <1>n
<1>8. ASSUME x.kind = "journal"
      PROVE  \E i \in Lane(g)' : RecordAt(g, i)' /\ toHead'[g][i].seq = sess'[g].cursor
  <2>1. PICK n \in Nat : n = Len(toHead[g])
    BY <1>n
  <2>2. n + 1 \in 1..Len(toHead'[g]) /\ toHead'[g][n + 1] = x
    BY <1>n, <2>1
  <2>3. n + 1 \in Lane(g)' /\ RecordAt(g, n + 1)' /\ toHead'[g][n + 1].seq = sess'[g].cursor
    BY <1>8, <2>2 DEF Lane, RecordAt
  <2> QED
    BY <2>3
<1>9. hLink # 0 => \/ sess'[hLink].cursor = sess[hLink].cursor
                   \/ \E i \in Lane(hLink)' : RecordAt(hLink, i)' /\ toHead'[hLink][i].seq = sess'[hLink].cursor
  <2>1. CASE hLink = g
    BY <1>8, <1>u, <2>1 DEF Lane, RecordAt
  <2>2. CASE hLink # g
    BY <1>n, <2>2
  <2> QED
    BY <2>1, <2>2
<1>10. hLink # 0 /\ sess'[hLink].stage # "none" => sess[hLink].stage # "none"
  BY <1>n
<1> QED
  BY <1>n, <1>u, <1>1, <1>3, <1>4, <1>5, <1>6, <1>7, <1>9, <1>10, LinkKeeps

(* A hello is bound: the welcome goes out, every older link is closed.     *)
LEMMA BoundChain ==
    ASSUME ChainInv, IInv', NEW g \in Gens, sess[g].stage = "none", toNode[g] # <<>>,
           UNCHANGED <<hAck, hGen, headVars>>, nodeOpen' = {}, cut' = cut \cup nodeOpen,
           sess'[g].stage = "bound", sess'[g].cursor = 0,
           \A f \in Gens : f # g => \/ f \in nodeOpen /\ sess'[f] = Over /\ toNode'[f] = <<>>
                                    \/ sess'[f] = sess[f] /\ toNode'[f] = toNode[f],
           \A f \in Gens : f # g => toHead'[f] = toHead[f],
           toHead'[g] = toHead[g] \/ toHead'[g] = Append(toHead[g], Welcome),
           g \in cut <=> toHead'[g] = toHead[g]
    PROVE  ChainInv'
<1>i. IInv /\ FreshLinks /\ DeliveredAll
  BY DEF ChainInv
<1>n. /\ hGen \in Nat /\ probe \in Nat /\ hLink \in Nat /\ (hLink # 0 => hLink \in Gens) /\ ingested \in Nat
      /\ toHead[g] \in Seq(Frames(FromNode)) /\ \A f \in Gens : f \in Nat
  BY <1>i, ChainShapes
<1>u. UNCHANGED <<hAck, hGen, hLink, hStage, probe, ingested, base, log>>
  BY DEF headVars
<1>1. DeliveredAll'
  BY <1>i, <1>u DEF DeliveredAll
<1>w. Welcome \in Frames(FromNode) /\ Welcome.kind # "journal"
  BY ReplicationAssumption DEF Welcome, Frames, FromNode
<1>x. Append(toHead[g], Welcome) # <<>>
  BY <1>n, <1>w
<1>2. g <= hGen
  BY Dialed
<1>o. \A f \in nodeOpen : sess[f].stage # "none"
  BY <1>i DEF FreshLinks
<1>3. \A f \in Gens : f > hGen' => sess'[f].stage = "none" /\ toNode'[f] = <<>>
  BY <1>i, <1>n, <1>u, <1>2, <1>o DEF FreshLinks
<1>4. \A f \in Gens : sess'[f].stage = "none" => toHead'[f] = <<>> /\ sess'[f].cursor = 0
  BY <1>i, Ended DEF FreshLinks
<1>6. hGen' \in Nat /\ hGen <= hGen' /\ probe' \in Nat /\ probe' <= hGen' /\ (hLink # 0 => probe' # hLink)
  BY <1>i, <1>n, <1>u DEF FreshLinks
<1>7. hLink # 0 => \/ toHead'[hLink] = toHead[hLink]
                   \/ hLink \notin cut /\ toHead'[hLink] = Append(toHead[hLink], Welcome)
  BY <1>n
<1>9. hLink # 0 => sess'[hLink].cursor <= ingested \/ sess'[hLink].cursor = sess[hLink].cursor
  <2>1. ASSUME NEW f \in Gens PROVE sess'[f].cursor <= ingested \/ sess'[f].cursor = sess[f].cursor
    <3>1. sess'[f].cursor = 0 \/ sess'[f].cursor = sess[f].cursor
      BY Ended
    <3> QED
      BY <1>n, <3>1
  <2> QED
    BY <1>n, <2>1
<1>10. hLink # 0 /\ sess'[hLink].stage # "none" /\ hLink \notin cut' =>
          sess[hLink].stage # "none" \/ toHead'[hLink] # <<>>
  <2>1. ASSUME NEW f \in Gens, sess'[f].stage # "none", f \notin cut'
        PROVE  sess[f].stage # "none" \/ toHead'[f] # <<>>
    <3>1. f \notin nodeOpen /\ f \notin cut
      BY <2>1
    <3>2. CASE f = g
      BY <1>x, <3>1, <3>2
    <3>3. CASE f # g
      BY <2>1, <3>1, <3>3
    <3> QED
      BY <3>2, <3>3
  <2> QED
    BY <1>n, <2>1
<1> QED
  BY <1>u, <1>w, <1>1, <1>3, <1>4, <1>6, <1>7, <1>9, <1>10, LinkKeeps

(* The steps of a link's session.                                          *)
LEMMA NodeChain ==
    ASSUME ChainInv, NEW g \in Gens, LinkStep(g) \/ BindCutShort(g) \/ Cut(g)
    PROVE  ChainInv'
<1>i. IInv /\ FreshLinks /\ DeliveredAll
  BY DEF ChainInv
<1>j. IInv'
  BY <1>i, NodeIInv
<1>n. /\ hGen \in Nat /\ ingested \in Nat /\ hAck \in Nat /\ hAck <= ingested /\ jAcked \in Nat /\ jAcked <= hAck
      /\ g \in Nat /\ sess[g].cursor \in Nat /\ sess[g].acked \in Nat /\ sess[g].acked <= hAck
  BY <1>i, ChainShapes DEF DeliveredAll
<1>t. /\ toHead \in [Gens -> Seq(Frames(FromNode))] /\ toNode \in [Gens -> Seq(Frames(FromHead))]
      /\ sess \in [Gens -> Sessions] /\ sess[g] \in Sessions
  BY <1>i DEF IInv, TypeOK
<1>c. ASSUME g <= hGen, CloseLink(g), UNCHANGED <<hAck, hGen, headVars, toHead>>
      PROVE  ChainInv'
  BY <1>c, <1>j, ClosedChain
<1>1. CASE Bind(g)
  <2>0. /\ sess[g].stage = "none" /\ toNode[g] # <<>> /\ g <= hGen /\ sess[g].cursor = 0
        /\ UNCHANGED <<hAck, hGen, headVars>>
    BY <1>i, <1>1, Dialed DEF Bind, FreshLinks
  <2>1. CASE CloseLink(g) /\ UNCHANGED toHead
    BY <1>c, <2>0, <2>1, SMTT(60)
  <2>2. CASE /\ sess' = [f \in Gens |->
                           IF f = g THEN [sess[f] EXCEPT !.stage = "bound", !.acked = Head(toNode[g]).seq]
                           ELSE IF f \in nodeOpen THEN Over ELSE sess[f]]
             /\ Send(g, Welcome) /\ cut' = cut \cup nodeOpen /\ nodeOpen' = {}
             /\ toNode' = [f \in Gens |-> IF f = g THEN Tail(toNode[g])
                                          ELSE IF f \in nodeOpen THEN <<>> ELSE toNode[f]]
    <3>1. sess'[g].stage = "bound" /\ sess'[g].cursor = 0
      BY <1>t, <2>0, <2>2 DEF Sessions
    <3>2. \A f \in Gens : f # g => \/ f \in nodeOpen /\ sess'[f] = Over /\ toNode'[f] = <<>>
                                   \/ sess'[f] = sess[f] /\ toNode'[f] = toNode[f]
      BY <2>2
    <3>3. /\ \A f \in Gens : f # g => toHead'[f] = toHead[f]
          /\ toHead'[g] = (IF g \in cut THEN toHead[g] ELSE Append(toHead[g], Welcome))
      BY <1>t, <2>2 DEF Send
    <3>4. toHead[g] # Append(toHead[g], Welcome)
      <4>1. PICK n \in Nat : n = Len(toHead[g])
        BY <1>t
      <4>2. Len(Append(toHead[g], Welcome)) = n + 1
        BY <1>t, <4>1, ReplicationAssumption DEF Welcome, Frames, FromNode
      <4> QED
        BY <4>1, <4>2
    <3> QED
      BY <1>j, <2>0, <2>2, <3>1, <3>2, <3>3, <3>4, BoundChain
  <2> QED
    BY <1>1, <2>1, <2>2 DEF Bind
<1>2. CASE BindCutShort(g)
  <2>1. toNode[g] # <<>> /\ CloseLink(g) /\ UNCHANGED <<hAck, hGen, headVars, toHead>>
    BY <1>2 DEF BindCutShort
  <2> QED
    BY <1>c, <2>1, Dialed
<1>3. CASE Cut(g)
  <2>1. cut \subseteq cut' /\ UNCHANGED <<hAck, hGen, headVars, toHead, sess, toNode, nodeOpen>>
    BY <1>3 DEF Cut, durable, nodeVars
  <2>2. ASSUME NEW f \in Gens
        PROVE  /\ sess[f].stage = "none" /\ f > hGen => sess'[f].stage = "none"
               /\ sess'[f].stage = "none" => sess[f].stage = "none" /\ sess'[f].cursor = 0
               /\ sess'[f].cursor = sess[f].cursor \/ sess'[f].cursor <= ingested
               /\ sess'[f].stage # "none" /\ f \notin cut' => sess[f].stage # "none"
               /\ toNode'[f] \in {toNode[f], <<>>} \/ f <= hGen
    BY <1>i, <2>1 DEF FreshLinks
  <2>3. \A f \in nodeOpen' : sess'[f].stage # "none"
    BY <1>i, <2>1 DEF FreshLinks
  <2> QED
    BY <1>j, <2>1, <2>2, <2>3, SilentStep
<1>4. CASE HandOff(g)
  <2>0. sess[g].stage = "bound" /\ UNCHANGED <<hAck, hGen, headVars, toHead>>
    BY <1>4 DEF HandOff, durable
  <2>1. CASE CloseLink(g)
    BY <1>c, <2>0, <2>1, Dialed
  <2>2. CASE /\ nodeOpen' = nodeOpen \cup {g} /\ sess' = [sess EXCEPT ![g].stage = "accepted"]
             /\ UNCHANGED <<cut, toNode>>
    <3>1. /\ sess'[g].stage = "accepted" /\ sess'[g].cursor = sess[g].cursor
          /\ \A f \in Gens : f # g => sess'[f] = sess[f]
      BY <1>t, <2>2 DEF Sessions
    <3> QED
      BY <1>j, <2>0, <2>2, <3>1, GoesOn
  <2> QED
    BY <1>4, <2>1, <2>2 DEF HandOff
<1>5. CASE Adopt(g)
  <2>0. sess[g].stage = "accepted" /\ UNCHANGED <<hAck, hGen, headVars, toHead>>
    BY <1>5 DEF Adopt
  <2>1. CASE CloseLink(g)
    BY <1>c, <2>0, <2>1, Dialed
  <2>2. CASE /\ sess' = [sess EXCEPT ![g] = [@ EXCEPT !.stage = "reading", !.cursor = sess[g].acked]]
             /\ UNCHANGED <<cut, nodeOpen, toNode>>
    <3>1. /\ sess'[g].stage = "reading" /\ sess'[g].cursor = sess[g].acked
          /\ \A f \in Gens : f # g => sess'[f] = sess[f]
      BY <1>t, <2>2 DEF Sessions
    <3>2. sess'[g].cursor <= ingested
      BY <1>n, <3>1
    <3> QED
      BY <1>j, <2>0, <2>2, <3>1, <3>2, GoesOn
  <2> QED
    BY <1>5, <2>1, <2>2 DEF Adopt
<1>6. CASE ApplyAck(g)
  <2>0. sess[g].stage # "none" /\ UNCHANGED <<hAck, hGen, headVars, toHead>>
    BY <1>6 DEF ApplyAck, Streaming
  <2>1. CASE CloseLink(g)
    BY <1>c, <2>0, <2>1, Dialed
  <2>2. CASE toNode' = [toNode EXCEPT ![g] = Tail(@)] /\ UNCHANGED <<cut, nodeOpen, sess>>
    <3>1. \A f \in Gens : f # g => sess'[f] = sess[f] /\ toNode'[f] = toNode[f]
      BY <1>t, <2>2
    <3> QED
      BY <1>j, <2>0, <2>2, <3>1, GoesOn
  <2> QED
    BY <1>6, <2>1, <2>2 DEF ApplyAck
<1>7. CASE NodeLost(g)
  <2>1. g \in nodeOpen /\ CloseLink(g) /\ UNCHANGED <<hAck, hGen, headVars, toHead>>
    BY <1>7 DEF NodeLost, durable
  <2>2. sess[g].stage # "none"
    BY <1>i, <2>1 DEF FreshLinks
  <2> QED
    BY <1>c, <2>1, <2>2, Dialed
<1>8. CASE StreamRead(g)
  <2>0. /\ sess[g].stage = "reading" /\ UNCHANGED <<hAck, hGen, headVars, toHead, cut, nodeOpen, toNode>>
        /\ sess' = [sess EXCEPT ![g] = [@ EXCEPT !.stage = "sending",
                                                 !.cursor = Max(sess[g].cursor, jAcked),
                                                 !.last = jLast]]
    BY <1>8 DEF StreamRead, durable, netVars
  <2>1. /\ sess'[g].stage = "sending" /\ sess'[g].cursor = Max(sess[g].cursor, jAcked)
        /\ \A f \in Gens : f # g => sess'[f] = sess[f]
    BY <1>t, <2>0 DEF Sessions
  <2>2. sess'[g].cursor = sess[g].cursor \/ sess'[g].cursor <= ingested
    BY <1>n, <2>1 DEF Max
  <2> QED
    BY <1>j, <2>0, <2>1, <2>2, GoesOn
<1>9. CASE StreamSend(g)
  <2>0. /\ sess[g].stage = "sending" /\ g \notin cut /\ UNCHANGED <<hAck, hGen, headVars, toNode, cut, nodeOpen>>
        /\ sess' = [sess EXCEPT ![g].cursor = @ + 1]
        /\ Send(g, Journal(sess[g].cursor + 1))
        /\ sess[g].cursor < sess[g].last
    BY <1>9 DEF StreamSend, durable
  <2>1. /\ sess'[g].stage = "sending" /\ sess'[g].cursor = sess[g].cursor + 1
        /\ \A f \in Gens : f # g => sess'[f] = sess[f]
    BY <1>t, <2>0 DEF Sessions
  <2>2. PICK x : x = Journal(sess[g].cursor + 1)
    OBVIOUS
  <2>3. x \in Frames(FromNode) /\ x.kind = "journal" /\ x.seq = sess[g].cursor + 1
    <3>1. sess[g].cursor + 1 \in 0..MaxSeq
      <4>1. sess[g].last \in 0..MaxSeq
        BY <1>t DEF Sessions
      <4> QED
        BY <1>n, <2>0, <4>1, ReplicationAssumption
    <3> QED
      BY <2>2, <3>1 DEF Journal, Frames, FromNode
  <2>4. toHead'[g] = Append(toHead[g], x) /\ \A f \in Gens : f # g => toHead'[f] = toHead[f]
    BY <1>t, <2>0, <2>2 DEF Send
  <2> QED
    BY <1>j, <2>0, <2>1, <2>3, <2>4, Sends
<1>10. CASE StreamRest(g)
  <2>0. /\ sess[g].stage = "sending" /\ g \notin cut /\ UNCHANGED <<hAck, hGen, headVars, toNode, cut, nodeOpen>>
        /\ sess' = [sess EXCEPT ![g] = [@ EXCEPT !.stage = "waiting", !.replaying = FALSE]]
        /\ \/ Send(g, ReplayComplete(Max(sess[g].last, sess[g].acked)))
           \/ UNCHANGED toHead
    BY <1>10 DEF StreamRest, durable
  <2>1. /\ sess'[g].stage = "waiting" /\ sess'[g].cursor = sess[g].cursor
        /\ \A f \in Gens : f # g => sess'[f] = sess[f]
    BY <1>t, <2>0 DEF Sessions
  <2>2. CASE UNCHANGED toHead
    BY <1>j, <2>0, <2>1, <2>2, GoesOn
  <2>3. CASE Send(g, ReplayComplete(Max(sess[g].last, sess[g].acked)))
    <3>1. PICK x : x = ReplayComplete(Max(sess[g].last, sess[g].acked))
      OBVIOUS
    <3>2. x \in Frames(FromNode) /\ x.kind # "journal"
      <4>1. Max(sess[g].last, sess[g].acked) \in 0..MaxSeq
        BY <1>t DEF Sessions, Max
      <4> QED
        BY <3>1, <4>1 DEF ReplayComplete, Frames, FromNode
    <3>3. toHead'[g] = Append(toHead[g], x) /\ \A f \in Gens : f # g => toHead'[f] = toHead[f]
      BY <1>t, <2>0, <2>3, <3>1 DEF Send
    <3> QED
      BY <1>j, <2>0, <2>1, <3>2, <3>3, Sends
  <2> QED
    BY <2>0, <2>2, <2>3
<1>11. CASE StreamWake(g)
  <2>0. /\ sess[g].stage = "waiting" /\ UNCHANGED <<hAck, hGen, headVars, toHead, cut, nodeOpen, toNode>>
        /\ sess' = [sess EXCEPT ![g] = [@ EXCEPT !.stage = "reading", !.woken = FALSE]]
    BY <1>11 DEF StreamWake, durable, netVars
  <2>1. /\ sess'[g].stage = "reading" /\ sess'[g].cursor = sess[g].cursor
        /\ \A f \in Gens : f # g => sess'[f] = sess[f]
    BY <1>t, <2>0 DEF Sessions
  <2> QED
    BY <1>j, <2>0, <2>1, GoesOn
<1> QED
  BY <1>1, <1>2, <1>3, <1>4, <1>5, <1>6, <1>7, <1>8, <1>9, <1>10, <1>11 DEF LinkStep, SessionStep

(* The machine's own steps: an append leaves every stream's place, a       *)
(* restart ends every session it had.                                      *)
LEMMA MachineChain ==
    ASSUME ChainInv, AppendRecord \/ MachineRestart
    PROVE  ChainInv'
<1>i. IInv /\ FreshLinks
  BY DEF ChainInv
<1>j. IInv'
  BY <1>i, MachineIInv
<1>n. hGen \in Nat /\ ingested \in Nat /\ \A f \in Gens : f \in Nat
  BY <1>i, ChainShapes
<1>t. sess \in [Gens -> Sessions] /\ nodeOpen \subseteq Gens
  BY <1>i DEF IInv, TypeOK
<1>1. CASE AppendRecord
  <2>1. /\ UNCHANGED <<hAck, hGen, headVars, toHead, toNode, cut, nodeOpen>>
        /\ sess' = [g \in Gens |-> [sess[g] EXCEPT !.woken = @ \/ Streaming(g)]]
    BY <1>1 DEF AppendRecord, netVars
  <2>2. ASSUME NEW f \in Gens
        PROVE  sess'[f].stage = sess[f].stage /\ sess'[f].cursor = sess[f].cursor
    BY <1>t, <2>1 DEF Sessions
  <2>3. ASSUME NEW f \in Gens
        PROVE  /\ sess[f].stage = "none" /\ f > hGen => sess'[f].stage = "none"
               /\ sess'[f].stage = "none" => sess[f].stage = "none" /\ sess'[f].cursor = 0
               /\ sess'[f].cursor = sess[f].cursor \/ sess'[f].cursor <= ingested
               /\ sess'[f].stage # "none" /\ f \notin cut' => sess[f].stage # "none"
               /\ toNode'[f] \in {toNode[f], <<>>} \/ f <= hGen
    BY <1>i, <2>1, <2>2 DEF FreshLinks
  <2>4. \A f \in nodeOpen' : sess'[f].stage # "none"
    BY <1>i, <1>t, <2>1, <2>2 DEF FreshLinks
  <2> QED
    BY <1>j, <2>1, <2>3, <2>4, SilentStep
<1>2. CASE MachineRestart
  <2>1. /\ UNCHANGED <<hAck, hGen, headVars, toHead>> /\ nodeOpen' = {} /\ cut \subseteq cut'
        /\ \A f \in Gens : f <= hGen => f \in cut'
        /\ \A f \in Gens : toNode'[f] = <<>> /\ sess'[f] = IF f <= hGen THEN Over ELSE NoSession
    BY <1>2 DEF MachineRestart, durable
  <2>2. ASSUME NEW f \in Gens
        PROVE  /\ sess[f].stage = "none" /\ f > hGen => sess'[f].stage = "none"
               /\ sess'[f].stage = "none" => sess[f].stage = "none" /\ sess'[f].cursor = 0
               /\ sess'[f].cursor = sess[f].cursor \/ sess'[f].cursor <= ingested
               /\ sess'[f].stage # "none" /\ f \notin cut' => sess[f].stage # "none"
               /\ toNode'[f] \in {toNode[f], <<>>} \/ f <= hGen
    <3>1. CASE f <= hGen
      BY <1>n, <2>1, <3>1, Ended
    <3>2. CASE ~(f <= hGen)
      <4>1. f > hGen /\ sess[f].stage = "none" /\ sess'[f] = NoSession /\ toNode'[f] = <<>>
        BY <1>i, <1>n, <2>1, <3>2 DEF FreshLinks
      <4> QED
        BY <1>n, <4>1, Ended
    <3> QED
      BY <3>1, <3>2
  <2> QED
    BY <1>j, <2>1, <2>2, SilentStep
<1> QED
  BY <1>1, <1>2

(* Every step preserves the chain.                                         *)
LEMMA NextChain ==
    ASSUME ChainInv, [Next]_vars
    PROVE  ChainInv'
<1>1. CASE HeadStep \/ ProbeDial \/ ProbeEnd \/ HeadRestart
  BY <1>1, HeadChain
<1>2. CASE \E g \in Gens : LinkStep(g) \/ BindCutShort(g) \/ Cut(g)
  BY <1>2, NodeChain
<1>3. CASE AppendRecord \/ MachineRestart
  BY <1>3, MachineChain
<1>4. CASE UNCHANGED vars
  <2>1. IInv'
    BY <1>4, NextIInv DEF ChainInv
  <2>2. UNCHANGED <<hGen, hLink, probe, hStage, sess, toNode, toHead, nodeOpen, cut, ingested, hAck, base, log>>
    BY <1>4 DEF vars, durable, headVars, nodeVars, netVars
  <2>3. FreshLinks' /\ DeliveredAll'
    BY <2>2 DEF ChainInv, FreshLinks, DeliveredAll
  <2>4. WelcomeFirst' /\ RecordsFollow'
    BY <2>2 DEF ChainInv, WelcomeFirst, RecordsFollow, Lane, RecordAt
  <2> QED
    BY <2>1, <2>3, <2>4 DEF ChainInv
<1> QED
  BY <1>1, <1>2, <1>3, <1>4 DEF Next

(* Every reachable state satisfies the chain invariant.                    *)
THEOREM ChainInvariant == Spec => []ChainInv
<1>1. ChainInv /\ [Next]_vars => ChainInv'
  BY NextChain
<1> QED
  BY <1>1, InitChain, PTL DEF Spec

(* The backend never meets a gap (Ingest::accept never answers Gap):       *)
(* whatever is replayed, acknowledged, deleted, cut or restarted, the next *)
(* record on the link it serves is one it has or the one after its last.   *)
THEOREM NeverAGap == Spec => []NoGap
  BY ChainInvariant, ChainNoGap, PTL

-----------------------------------------------------------------------------
(***************************************************************************)
(* The refinement: every step is a step of RecordLog or leaves the log as  *)
(* it was.  DeliveredAll ties the records delivered to what was ingested,  *)
(* NoGap makes the next one the one RecordLog delivers.                    *)
(***************************************************************************)
(* What the promise reads of the state.                                    *)
LEMMA PromiseShapes ==
    ASSUME ChainInv
    PROVE  /\ hAck \in Nat /\ ingested \in Nat /\ jAcked \in Nat /\ jLast \in Nat
           /\ base \in Nat /\ Len(log) \in Nat
           /\ jAcked <= hAck /\ hAck <= ingested /\ ingested = Promise!Delivered
           /\ Promise!Delivered \in Nat
<1>1. IInv /\ DeliveredAll
  BY DEF ChainInv
<1>2. /\ hAck \in Nat /\ ingested \in Nat /\ jAcked \in Nat /\ base \in Nat /\ Len(log) \in Nat /\ jAcked <= hAck
  BY <1>1, ChainShapes
<1>3. jLast \in Nat
  BY <1>1, ReplicationAssumption DEF IInv, TypeOK
<1> QED
  BY <1>1, <1>2, <1>3 DEF DeliveredAll, Promise!Delivered

(* A save within what was ingested.                                        *)
LEMMA SaveStep ==
    ASSUME ChainInv, hAck' \in {hAck, ingested}, UNCHANGED <<jLast, jAcked, base, log>>
    PROVE  [Promise!Next]_(Promise!vars)
<1>1. hAck' \in hAck..Promise!Delivered
  BY PromiseShapes
<1>2. Promise!Save
  BY <1>1 DEF Promise!Save
<1> QED
  BY <1>2 DEF Promise!Next

(* The backend's steps.                                                    *)
LEMMA HeadPromise ==
    ASSUME ChainInv, HeadStep \/ ProbeDial \/ ProbeEnd \/ HeadRestart
    PROVE  [Promise!Next]_(Promise!vars)
<1>i. IInv /\ FreshLinks
  BY DEF ChainInv
<1>f. hStage \in {"dialing", "serving"} => hLink \in Gens
  BY <1>i DEF IInv
<1>1. CASE SaveForHello
  <2>1. hAck' \in {hAck, ingested} /\ UNCHANGED <<jLast, jAcked, base, log>>
    BY <1>1 DEF SaveForHello, persist_ack, FailedSave, Max
  <2> QED
    BY <2>1, SaveStep
<1>2. CASE Dial \/ ProbeDial \/ ProbeEnd \/ Welcomed \/ DialFailed
  <2>1. UNCHANGED <<hAck, jLast, jAcked, base, log>>
    BY <1>2 DEF Dial, ProbeDial, ProbeEnd, Welcomed, DialFailed, durable
  <2> QED
    BY <2>1 DEF Promise!vars
<1>3. CASE ReceiveRecord
  <2>0. /\ \/ /\ ingested' = ingested + 1 /\ log' = Append(log, ingested + 1)
              /\ ingested + 1 <= jLast
           \/ ingested' = ingested /\ log' = log
        /\ hAck' \in {hAck, ingested'} /\ UNCHANGED <<base, jAcked, jLast>>
    BY <1>3, RecordReceived
  <2>1. CASE ingested' = ingested /\ log' = log
    BY <2>0, <2>1, SaveStep
  <2>2. CASE ingested' = ingested + 1 /\ log' = Append(log, ingested + 1) /\ ingested + 1 <= jLast
    <3>1. Promise!Delivered < jLast
      BY <2>2, PromiseShapes
    <3>2. log' = Append(log, Promise!Delivered + 1) /\ hAck' \in {hAck, Promise!Delivered + 1}
      BY <2>0, <2>2, PromiseShapes
    <3>3. Promise!Deliver
      BY <2>0, <3>1, <3>2 DEF Promise!Deliver
    <3> QED
      BY <3>3 DEF Promise!Next
  <2> QED
    BY <2>0, <2>1, <2>2
<1>4. CASE ReceiveReplayComplete \/ AckDue \/ LinkLost
  <2>1. hStage = "serving" /\ flush(ingested) /\ UNCHANGED <<jLast, jAcked, base, log>>
    BY <1>4 DEF ReceiveReplayComplete, NextFrame, AckDue, LinkLost
  <2>2. hAck' \in {hAck, ingested}
    BY <1>i, <1>f, <2>1, FlushOnly
  <2> QED
    BY <2>1, <2>2, SaveStep
<1>5. CASE HeadRestart
  <2>1. Promise!Restart
    BY <1>5 DEF HeadRestart, durable, Promise!Restart
  <2> QED
    BY <2>1 DEF Promise!Next
<1> QED
  BY <1>1, <1>2, <1>3, <1>4, <1>5 DEF HeadStep

(* The machine's steps: what a session acknowledges stays within the saved *)
(* acknowledgement.                                                        *)
LEMMA NodePromise ==
    ASSUME ChainInv, NEW g \in Gens, LinkStep(g) \/ BindCutShort(g) \/ Cut(g)
    PROVE  [Promise!Next]_(Promise!vars)
<1>i. IInv
  BY DEF ChainInv
<1>1. IInv'
  BY <1>i, NodeIInv
<1>2. CASE Adopt(g) \/ ApplyAck(g)
  <2>1. /\ UNCHANGED <<hAck, jLast, base, log>>
        /\ jAcked' = jAcked \/ \E n \in Nat : acknowledge(n)
    <3>1. sess[g].acked \in Nat
      BY <1>i, ChainShapes
    <3>2. ASSUME ApplyAck(g) PROVE Head(toNode[g]).seq \in Nat
      <4>1. hAck \in Nat /\ Within(toNode, FromHead, hAck) /\ toNode[g] # <<>>
        BY <1>i, <3>2, ChainShapes DEF IInv, ApplyAck
      <4>2. Head(toNode[g]) \in Frames(FromHead)
        BY <4>1, WithinHead
      <4> QED
        BY <4>2, ReplicationAssumption DEF Frames
    <3>3. ASSUME Adopt(g) PROVE acknowledge(sess[g].acked) \/ jAcked' = jAcked
      BY <3>3 DEF Adopt
    <3>4. ASSUME ApplyAck(g) PROVE acknowledge(Head(toNode[g]).seq) \/ jAcked' = jAcked
      BY <3>4 DEF ApplyAck
    <3>5. UNCHANGED <<hAck, jLast, base, log>>
      BY <1>2 DEF Adopt, ApplyAck, headVars
    <3> QED
      BY <1>2, <3>1, <3>2, <3>3, <3>4, <3>5
  <2>2. jAcked' \in Nat /\ jAcked <= jAcked' /\ jAcked' <= hAck
    <3>1. jAcked' \in Nat /\ jAcked <= jAcked'
      BY <2>1, PromiseShapes DEF acknowledge, Max
    <3> QED
      BY <1>1, <2>1, <3>1 DEF IInv
  <2>3. jAcked' \in jAcked..hAck
    BY <2>2, PromiseShapes
  <2>4. Promise!Trim
    BY <2>1, <2>3 DEF Promise!Trim
  <2> QED
    BY <2>4 DEF Promise!Next
<1>3. CASE ~(Adopt(g) \/ ApplyAck(g))
  <2>1. UNCHANGED <<hAck, jLast, jAcked, base, log>>
    BY <1>3 DEF LinkStep, SessionStep, Bind, BindCutShort, Cut, HandOff, NodeLost, StreamRead, StreamSend,
                StreamRest, StreamWake, durable, headVars
  <2> QED
    BY <2>1 DEF Promise!vars
<1> QED
  BY <1>2, <1>3

(* Every step keeps the promise.                                           *)
LEMMA NextPromise ==
    ASSUME ChainInv, [Next]_vars
    PROVE  [Promise!Next]_(Promise!vars)
<1>1. CASE HeadStep \/ ProbeDial \/ ProbeEnd \/ HeadRestart
  BY <1>1, HeadPromise
<1>2. CASE \E g \in Gens : LinkStep(g) \/ BindCutShort(g) \/ Cut(g)
  BY <1>2, NodePromise
<1>3. CASE AppendRecord
  <2>1. Promise!Append1
    BY <1>3 DEF AppendRecord, headVars, Promise!Append1
  <2> QED
    BY <2>1 DEF Promise!Next
<1>4. CASE MachineRestart
  <2>1. UNCHANGED <<hAck, jLast, jAcked, base, log>>
    BY <1>4 DEF MachineRestart, durable, headVars
  <2> QED
    BY <2>1 DEF Promise!vars
<1>5. CASE UNCHANGED vars
  <2>1. UNCHANGED <<hAck, jLast, jAcked, base, log>>
    BY <1>5 DEF vars, durable, headVars
  <2> QED
    BY <2>1 DEF Promise!vars
<1> QED
  BY <1>1, <1>2, <1>3, <1>4, <1>5 DEF Next

(* The link protocol implements the log both ends promise: the agents of a *)
(* backend process get every record once and in order from the one it had  *)
(* saved, and the machine deletes only what was saved, whatever is cut,    *)
(* restarted, lost or refused.                                             *)
THEOREM KeepsThePromise == Spec => ImplementsRecordLog
<1>1. Init => Promise!Init
  BY DEF Init, Promise!Init
<1>2. ChainInv /\ [Next]_vars => [Promise!Next]_(Promise!vars)
  BY NextPromise
<1> QED
  BY <1>1, <1>2, ChainInvariant, PTL DEF Spec, ImplementsRecordLog, Promise!Spec
=============================================================================
