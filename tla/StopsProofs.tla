----------------------------- MODULE StopsProofs -----------------------------
(***************************************************************************)
(* Proofs about stopping: an agent that is stopped and relaunched, for any *)
(* number of runs, stops and links, and a script's run, for any number of  *)
(* processes, links and restarts.                                          *)
(***************************************************************************)
EXTENDS Relaunch, ScriptRuns, TLAPS

-----------------------------------------------------------------------------
(* Shapes that the steps below use: numbers, ...                           *)
LEMMA Numbers ==
    ASSUME RelaunchTypeOK
    PROVE  /\ launched \in Nat /\ launched >= 1 /\ running \in Nat /\ sink \in Nat
           /\ stopQueued \in Nat /\ stopsUsed \in Nat /\ delivered \in Nat /\ ingested \in Nat
           /\ Len(exitLog) \in Nat /\ (stopQueued # 0 => stopQueued \in StopIds)
           /\ \A s \in StopIds : s \in Nat /\ s >= 1 /\ stopFor[s] \in Nat
           /\ \A w \in waits : w.stop \in StopIds
           /\ \A a \in acks : a.stop \in StopIds
           /\ confirmed \subseteq StopIds
  BY RelaunchAssumption DEF RelaunchTypeOK, RunIds, StopIds, StopWaits, StopAnswers

(* ... and frames.                                                         *)
LEMMA FrameShapes ==
    ASSUME RelaunchTypeOK
    PROVE  /\ Len(frames) \in Nat
           /\ \A i \in FrameIds : /\ i \in Nat /\ i >= 1 /\ i <= Len(frames)
                                  /\ LaunchAt(i) \/ StopAt(i)
                                  /\ ~(LaunchAt(i) /\ StopAt(i))
                                  /\ StopAt(i) => frames[i].id \in StopIds
                                  /\ LaunchAt(i) => frames[i].id \in RunIds
  BY DEF RelaunchTypeOK, FrameIds, LaunchAt, StopAt, LinkFrames

(* A frame goes to the end of the lane, ...                                *)
LEMMA Appended ==
    ASSUME NEW f \in LinkFrames, RelaunchTypeOK, frames' = Append(frames, f)
    PROVE  /\ frames' \in Seq(LinkFrames)
           /\ \A i \in FrameIds : i \in FrameIds' /\ frames'[i] = frames[i] /\ i < Len(frames) + 1
           /\ Len(frames) + 1 \in FrameIds' /\ frames'[Len(frames) + 1] = f
           /\ \A i \in FrameIds' : i \in FrameIds \/ i = Len(frames) + 1
<1>1. frames \in Seq(LinkFrames)
  BY DEF RelaunchTypeOK
<1> QED
  BY <1>1 DEF FrameIds

(* ... is the first of a new link, ...                                     *)
LEMMA OneFrame ==
    ASSUME NEW f \in LinkFrames
    PROVE  /\ <<f>> \in Seq(LinkFrames) /\ Len(<<f>>) = 1 /\ 1..Len(<<f>>) = {1} /\ <<f>>[1] = f
<1>1. <<f>> \in Seq(LinkFrames)
  OBVIOUS
<1>2. Len(<<f>>) = 1 /\ <<f>>[1] = f
  OBVIOUS
<1>3. 1..1 = {1}
  OBVIOUS
<1> QED
  BY <1>1, <1>2, <1>3

(* ... and is taken from its start.                                        *)
LEMMA Taken ==
    ASSUME RelaunchTypeOK, frames # <<>>, frames' = Tail(frames)
    PROVE  /\ frames' \in Seq(LinkFrames)
           /\ 1 \in FrameIds /\ Head(frames) = frames[1]
           /\ \A i \in FrameIds' : i \in Nat /\ i >= 1 /\ i + 1 \in FrameIds /\ frames'[i] = frames[i + 1]
<1>1. frames \in Seq(LinkFrames)
  BY DEF RelaunchTypeOK
<1> QED
  BY <1>1 DEF FrameIds

(* What each part of the invariant is about: the run,                      *)
LEMMA OneRunFrame ==
    ASSUME OneRun, UNCHANGED <<sink, launched, running, exiting, told, launcher,
                               stopQueued, stopsUsed, stopFor, frames>>
    PROVE  OneRun'
  BY DEF OneRun, Gone, Coming, LaunchAt, FrameIds

(* the frames,                                                             *)
LEMMA FramesInOrderFrame ==
    ASSUME FramesInOrder, UNCHANGED <<frames, launched, stopsUsed, stopFor, running,
                                      launcher>>
    PROVE  FramesInOrder'
  BY DEF FramesInOrder, LaunchAt, StopAt, FrameIds

(* the answers,                                                            *)
LEMMA AnsweredStopsFrame ==
    ASSUME AnsweredStops, UNCHANGED <<waits, acks, confirmed, stopsUsed, stopFor,
                                      launched, running, exiting, launcher, frames>>
    PROVE  AnsweredStops'
  BY DEF AnsweredStops, Gone, Coming, LaunchAt, FrameIds

(* the stop,                                                               *)
LEMMA StopStatesFrame ==
    ASSUME StopStates, UNCHANGED <<stopQueued, exit, sink, resender>>
    PROVE  StopStates'
  BY DEF StopStates

(* the exit records,                                                       *)
LEMMA OneRecordFrame ==
    ASSUME OneRecord, UNCHANGED <<ingested, exitLog, gaveUp, ownEnd, delivered, exiting,
                                  launcher, frames, running, exit>>
    PROVE  OneRecord'
  BY DEF OneRecord, Undisturbed, RecordsIn, Coming, LaunchAt, FrameIds

(* the first time a stop is sent,                                          *)
LEMMA FirstSendFrame ==
    ASSUME FirstSend, UNCHANGED <<gaveUp, ownEnd, exit, stopQueued, told, frames, waits,
                                  acks, resender, ingested, exitLog, delivered, exiting>>
    PROVE  FirstSend'
  BY DEF FirstSend, Undisturbed, RecordsIn, NoFrames, NoWaits, NoAnswers, StopAt, FrameIds

(* what an exit record ends,                                               *)
LEMMA StoppedExitEndsItsOwnFrame ==
    ASSUME StoppedExitEndsItsOwn, UNCHANGED <<gaveUp, ownEnd, misled>>
    PROVE  StoppedExitEndsItsOwn'
  BY DEF StoppedExitEndsItsOwn

(* and what a stop hits.                                                   *)
LEMMA StopHitsItsOwnFrame ==
    ASSUME StopHitsItsOwn, UNCHANGED <<hit, confirmed, stopFor, running, exiting>>
    PROVE  StopHitsItsOwn'
  BY DEF StopHitsItsOwn

(* BeginStop: the stop of the run that is attached is queued.              *)
LEMMA BeginStopStep ==
    ASSUME RelaunchInv, BeginStop
    PROVE  RelaunchInv'
<1>i. /\ RelaunchTypeOK /\ OneRun /\ FramesInOrder /\ AnsweredStops /\ StopStates
      /\ OneRecord /\ FirstSend /\ StoppedExitEndsItsOwn /\ StopHitsItsOwn
  BY DEF RelaunchInv, RelaunchOrder
<1>u. UNCHANGED <<running, told, exiting, exitLog, waits, up, frames, acks,
                  launched, resender, launcher, ingested, delivered, binds,
                  sends, ownEnd, misled, hit, confirmed, gaveUp>>
  BY DEF BeginStop, nodeSide, wires, runHist
<1>p. /\ sink # 0 /\ sink = launched /\ launcher = "idle" /\ stopQueued = 0 /\ exit = "none"
      /\ stopsUsed \in Nat /\ stopsUsed + 1 \in StopIds /\ resender.stage = "idle"
  BY <1>i, RelaunchAssumption DEF BeginStop, OneRun, StopStates, RelaunchTypeOK, StopIds, RunIds
<1>q. /\ sink' = 0 /\ exit' = "pending" /\ stopsUsed' = stopsUsed + 1 /\ stopQueued' = stopsUsed + 1
      /\ stopFor' = [stopFor EXCEPT ![stopsUsed + 1] = launched]
      /\ looking' = stopQueued'
  BY <1>p DEF BeginStop
<1>t1. sink' \in 0..MaxRuns
  BY <1>i, <1>q, RelaunchAssumption DEF RelaunchTypeOK
<1>t2. exit' \in ExitStates
  BY <1>q DEF ExitStates
<1>t3. stopsUsed' \in 0..MaxStopIds
  BY <1>p, <1>q, RelaunchAssumption DEF StopIds
<1>t4. stopQueued' \in 0..MaxStopIds
  BY <1>p, <1>q, RelaunchAssumption DEF StopIds
<1>t5. stopFor' \in [StopIds -> 0..MaxRuns]
  BY <1>i, <1>p, <1>q, RelaunchAssumption DEF RelaunchTypeOK, RunIds
<1>t6. looking' \in 0..MaxStopIds
  BY <1>q, <1>t4
<1>t. RelaunchTypeOK'
  BY <1>i, <1>u, <1>t1, <1>t2, <1>t3, <1>t4, <1>t5, <1>t6 DEF RelaunchTypeOK
<1>e. /\ sink = launched /\ sink # 0 /\ launcher = "idle" /\ stopQueued = 0 /\ exit = "none" /\ sink' = 0 /\ exit' = "pending"
      /\ stopsUsed' = stopsUsed + 1 /\ stopQueued' = stopsUsed + 1 /\ stopQueued' \in StopIds
      /\ stopFor'[stopQueued'] = launched /\ \A s \in StopIds : s # stopQueued' => stopFor'[s] = stopFor[s]
      /\ resender.stage = "idle"
  BY <1>i, <1>p, <1>q DEF RelaunchTypeOK
<1>f. FrameIds' = FrameIds
  BY <1>u DEF FrameIds
<1>g. \A s \in StopIds : s <= stopsUsed =>
          s <= stopsUsed' /\ s # stopQueued' /\ stopFor'[s] = stopFor[s] /\ stopFor[s] # launched
  BY <1>i, <1>e, Numbers DEF OneRun
<1>h. \A i \in FrameIds : StopAt(i) => frames[i].id \in StopIds /\ frames[i].id <= stopsUsed
  BY <1>i, FrameShapes DEF FramesInOrder
<1>1. OneRun'
  BY <1>i, <1>u, <1>e, Numbers, FrameShapes, <1>f, SMTT(60) DEF OneRun, Gone, Coming, LaunchAt, AnsweredStops
<1>2. FramesInOrder'
  <2>1. \A i \in FrameIds' : LaunchAt(i)' => frames'[i].id = launched'
    BY <1>i, <1>u, <1>f, <1>g, <1>h DEF FramesInOrder, LaunchAt, StopAt
  <2>2. \A i \in FrameIds' : StopAt(i)' => frames'[i].id <= stopsUsed'
    BY <1>i, <1>u, <1>f, <1>g, <1>h DEF FramesInOrder, LaunchAt, StopAt
  <2>3. \A i, j \in FrameIds' : LaunchAt(i)' /\ LaunchAt(j)' => i = j
    BY <1>i, <1>u, <1>f, <1>g, <1>h DEF FramesInOrder, LaunchAt, StopAt
  <2>4. \A i, j \in FrameIds' : LaunchAt(i)' /\ StopAt(j)' => (i < j <=> stopFor'[frames'[j].id] = launched')
    BY <1>i, <1>u, <1>f, <1>g, <1>h DEF FramesInOrder, LaunchAt, StopAt
  <2>5. running' # 0 => \A i \in FrameIds' : StopAt(i)' /\ stopFor'[frames'[i].id] = launched'
    BY <1>i, <1>u, <1>f, <1>g, <1>h DEF FramesInOrder, LaunchAt, StopAt
  <2>6. launcher' = "sending" => running' = 0 /\ \A i \in FrameIds' : StopAt(i)'
    BY <1>i, <1>u, <1>f, <1>g, <1>h DEF FramesInOrder, LaunchAt, StopAt
  <2> QED
    BY <2>1, <2>2, <2>3, <2>4, <2>5, <2>6 DEF FramesInOrder
<1>3. AnsweredStops'
  BY <1>i, <1>u, <1>f, <1>g, Numbers DEF AnsweredStops, Gone, Coming, LaunchAt
<1>4. StopStates'
  BY <1>i, <1>u, <1>e, Numbers, FrameShapes DEF StopStates, OneRun
<1>5. OneRecord'
  BY <1>i, <1>u, <1>e, Numbers, FrameShapes, <1>f DEF OneRecord, Undisturbed, RecordsIn, Coming,
                                                      LaunchAt, OneRun, StopStates, FramesInOrder,
                                                      FirstSend, StopAt
<1>6. FirstSend'
  BY <1>i, <1>u, <1>e, Numbers, FrameShapes, <1>f DEF FirstSend, Undisturbed, RecordsIn, NoFrames,
                                                      NoWaits, NoAnswers, StopAt, OneRun, StopStates,
                                                      FramesInOrder, AnsweredStops, OneRecord, Gone,
                                                      Coming, LaunchAt
<1>7. StopHitsItsOwn'
  BY <1>i, <1>u, <1>e, Numbers, FrameShapes DEF StopHitsItsOwn, OneRun, AnsweredStops, Gone, Coming
<1> QED
  BY <1>i, <1>t, <1>u, <1>1, <1>2, <1>3, <1>4, <1>5, <1>6, <1>7,
     StoppedExitEndsItsOwnFrame DEF RelaunchInv, RelaunchOrder

(* StopLooks: the link it finds, on which it is then sent.                 *)
LEMMA StopLooksStep ==
    ASSUME RelaunchInv, StopLooks
    PROVE  RelaunchInv'
<1>i. /\ RelaunchTypeOK /\ OneRun /\ FramesInOrder /\ AnsweredStops /\ StopStates
      /\ OneRecord /\ FirstSend /\ StoppedExitEndsItsOwn /\ StopHitsItsOwn
  BY DEF RelaunchInv, RelaunchOrder
<1>u. UNCHANGED <<running, told, exiting, exitLog, waits, up, frames, acks,
                  sink, launched, stopQueued, stopsUsed, exit, launcher,
                  ingested, delivered, binds, sends, stopFor, ownEnd, misled,
                  hit, confirmed, gaveUp>>
  BY DEF StopLooks, nodeSide, wires, runHist
<1>p. /\ looking' = 0
      /\ \/ resender' = resender
         \/ resender' = Resends(stopQueued) /\ stopQueued # 0
  BY DEF StopLooks
<1>q. looking' \in 0..MaxStopIds
  BY <1>p, RelaunchAssumption
<1>r. Resends(stopQueued) \in Resenders
  BY <1>i DEF Resends, Resenders, RelaunchTypeOK
<1>t1. resender' \in Resenders
  BY <1>i, <1>p, <1>r DEF RelaunchTypeOK
<1>t. RelaunchTypeOK'
  BY <1>i, <1>u, <1>q, <1>t1 DEF RelaunchTypeOK
<1>e. \/ resender' = resender
      \/ resender'.stage = "loop" /\ resender'.stop = stopQueued /\ stopQueued # 0
  BY <1>p DEF Resends
<1>1. StopStates'
  BY <1>i, <1>u, <1>e DEF StopStates
<1>2. FirstSend'
  <2>1. CASE resender' = resender
    BY <1>i, <1>u, <2>1, FirstSendFrame
  <2>2. CASE resender'.stage = "loop"
    <3>1. /\ Undisturbed' <=> Undisturbed
          /\ NoFrames(stopQueued)' <=> NoFrames(stopQueued)
          /\ NoWaits(stopQueued)' <=> NoWaits(stopQueued)
          /\ NoAnswers(stopQueued)' <=> NoAnswers(stopQueued)
      BY <1>u DEF Undisturbed, NoFrames, NoWaits, NoAnswers, FrameIds, StopAt
    <3> QED
      BY <1>i, <1>u, <2>2, <3>1 DEF FirstSend
  <2> QED
    BY <1>e, <2>1, <2>2
<1> QED
  BY <1>i, <1>t, <1>u, <1>1, <1>2, OneRunFrame, FramesInOrderFrame, AnsweredStopsFrame,
     OneRecordFrame, StoppedExitEndsItsOwnFrame, StopHitsItsOwnFrame
     DEF RelaunchInv, RelaunchOrder

(* SendStop: it is sent, again if it was before.                           *)
LEMMA SendStopStep ==
    ASSUME RelaunchInv, SendStop
    PROVE  RelaunchInv'
<1>i. /\ RelaunchTypeOK /\ OneRun /\ FramesInOrder /\ AnsweredStops /\ StopStates
      /\ OneRecord /\ FirstSend /\ StoppedExitEndsItsOwn /\ StopHitsItsOwn
  BY DEF RelaunchInv, RelaunchOrder
<1>u. UNCHANGED <<running, told, exiting, exitLog, waits, up, acks, sink,
                  launched, stopQueued, stopsUsed, looking, launcher,
                  ingested, delivered, binds, stopFor, ownEnd, misled, hit,
                  confirmed, gaveUp>>
  BY DEF SendStop, nodeSide, wires, runHist
<1>p. resender.stage = "loop" /\ stopQueued = resender.stop /\ stopQueued \in StopIds
  BY <1>i, Numbers DEF SendStop, StopStates
<1>q. /\ sends < MaxSends /\ sends' = sends + 1 /\ frames' = Append(frames, StopFrame(stopQueued))
      /\ exit' = (IF exit = "pending" THEN "sent" ELSE exit)
      /\ resender' = [resender EXCEPT !.stage = "sent", !.resent = (exit = "sent")]
  BY <1>p DEF SendStop, Sent
<1>r. StopFrame(stopQueued) \in LinkFrames /\ (exit = "sent") \in BOOLEAN
  BY <1>p DEF StopFrame, LinkFrames
<1>v. resender'.stage = "sent" /\ resender'.stop = stopQueued /\ (resender'.resent <=> exit = "sent")
  BY <1>i, <1>p, <1>q, <1>r DEF RelaunchTypeOK, Resenders
<1>t1. frames' \in Seq(LinkFrames)
  BY <1>i, <1>q, <1>r, Appended
<1>t2. exit' \in ExitStates
  BY <1>i, <1>q DEF RelaunchTypeOK, ExitStates
<1>t3. resender' \in Resenders
  BY <1>i, <1>q, <1>r DEF RelaunchTypeOK, Resenders
<1>t4. sends' \in 0..MaxSends
  BY <1>i, <1>q, RelaunchAssumption, SMTT(60) DEF RelaunchTypeOK
<1>t. RelaunchTypeOK'
  BY <1>i, <1>u, <1>t1, <1>t2, <1>t3, <1>t4 DEF RelaunchTypeOK
<1>e. /\ resender.stage = "loop" /\ resender'.stage = "sent" /\ resender'.stop = stopQueued /\ stopQueued \in StopIds
      /\ resender'.resent <=> exit = "sent"
      /\ exit' = (IF exit = "pending" THEN "sent" ELSE exit)
      /\ \A i \in FrameIds : i \in FrameIds' /\ frames'[i] = frames[i] /\ i < Len(frames) + 1
      /\ Len(frames) + 1 \in FrameIds' /\ frames'[Len(frames) + 1].kind = "stop" /\ frames'[Len(frames) + 1].id = stopQueued
      /\ \A i \in FrameIds' : i \in FrameIds \/ i = Len(frames) + 1
  <2>1. StopFrame(stopQueued).kind = "stop" /\ StopFrame(stopQueued).id = stopQueued
    BY DEF StopFrame
  <2>2. /\ \A i \in FrameIds : i \in FrameIds' /\ frames'[i] = frames[i] /\ i < Len(frames) + 1
        /\ Len(frames) + 1 \in FrameIds' /\ frames'[Len(frames) + 1] = StopFrame(stopQueued)
        /\ \A i \in FrameIds' : i \in FrameIds \/ i = Len(frames) + 1
    BY <1>i, <1>q, <1>r, Appended
  <2> QED
    BY <1>p, <1>q, <1>v, <2>1, <2>2
<1>g. \A i \in FrameIds' : \/ i \in FrameIds /\ frames'[i] = frames[i] /\ i < Len(frames) + 1
                           \/ i = Len(frames) + 1 /\ StopAt(i)' /\ ~LaunchAt(i)' /\ frames'[i].id = stopQueued
  <2> SUFFICES ASSUME NEW i \in FrameIds'
               PROVE  \/ i \in FrameIds /\ frames'[i] = frames[i] /\ i < Len(frames) + 1
                      \/ i = Len(frames) + 1 /\ StopAt(i)' /\ ~LaunchAt(i)' /\ frames'[i].id = stopQueued
    OBVIOUS
  <2>1. CASE i \in FrameIds
    BY <1>e, <2>1
  <2>2. CASE i = Len(frames) + 1
    <3>1. frames'[i].kind = "stop" /\ frames'[i].id = stopQueued
      BY <1>e, <2>2
    <3> QED
      BY <2>2, <3>1 DEF StopAt, LaunchAt
  <2> QED
    BY <1>e, <2>1, <2>2
<1>h. stopQueued <= stopsUsed /\ stopFor[stopQueued] = launched /\ sink = 0 /\ launcher # "sending"
  BY <1>i, <1>e, Numbers DEF OneRun
<1>1. OneRun'
  BY <1>i, <1>u, <1>e, Numbers, FrameShapes DEF OneRun, Gone, Coming, LaunchAt, AnsweredStops
<1>2. FramesInOrder'
  <2>1. \A i \in FrameIds' : LaunchAt(i)' => frames'[i].id = launched'
    BY <1>i, <1>u, <1>g, <1>h DEF FramesInOrder, LaunchAt, StopAt
  <2>2. \A i \in FrameIds' : StopAt(i)' => frames'[i].id <= stopsUsed'
    BY <1>i, <1>u, <1>g, <1>h DEF FramesInOrder, LaunchAt, StopAt
  <2>3. \A i, j \in FrameIds' : LaunchAt(i)' /\ LaunchAt(j)' => i = j
    BY <1>i, <1>u, <1>g, <1>h DEF FramesInOrder, LaunchAt, StopAt
  <2>4. \A i, j \in FrameIds' : LaunchAt(i)' /\ StopAt(j)' => (i < j <=> stopFor'[frames'[j].id] = launched')
    BY <1>i, <1>u, <1>g, <1>h DEF FramesInOrder, LaunchAt, StopAt
  <2>5. running' # 0 => \A i \in FrameIds' : StopAt(i)' /\ stopFor'[frames'[i].id] = launched'
    BY <1>i, <1>u, <1>g, <1>h DEF FramesInOrder, LaunchAt, StopAt
  <2>6. launcher' = "sending" => running' = 0 /\ \A i \in FrameIds' : StopAt(i)'
    BY <1>i, <1>u, <1>g, <1>h DEF FramesInOrder, LaunchAt, StopAt
  <2> QED
    BY <2>1, <2>2, <2>3, <2>4, <2>5, <2>6 DEF FramesInOrder
<1>3. AnsweredStops'
  BY <1>i, <1>u, <1>e, Numbers, FrameShapes DEF AnsweredStops, Gone, Coming, LaunchAt, OneRun,
                                                FramesInOrder, StopAt
<1>4. StopStates'
  BY <1>i, <1>u, <1>e, Numbers, FrameShapes DEF StopStates, OneRun
<1>5. OneRecord'
  BY <1>i, <1>u, <1>e, Numbers, FrameShapes DEF OneRecord, Undisturbed, RecordsIn, Coming, LaunchAt,
                                                OneRun, StopStates, FramesInOrder, FirstSend, StopAt
<1>6. FirstSend'
  BY <1>i, <1>u, <1>e, Numbers, FrameShapes, SMTT(60) DEF FirstSend, Undisturbed, RecordsIn, NoFrames, NoWaits,
                                                NoAnswers, StopAt, OneRun, StopStates, FramesInOrder,
                                                AnsweredStops, OneRecord, Gone, Coming, LaunchAt
<1> QED
  BY <1>i, <1>t, <1>u, <1>1, <1>2, <1>3, <1>4, <1>5, <1>6, StoppedExitEndsItsOwnFrame,
     StopHitsItsOwnFrame DEF RelaunchInv, RelaunchOrder

(* StopTimesOut: it is sent again.                                         *)
LEMMA StopTimesOutStep ==
    ASSUME RelaunchInv, StopTimesOut
    PROVE  RelaunchInv'
<1>i. /\ RelaunchTypeOK /\ OneRun /\ FramesInOrder /\ AnsweredStops /\ StopStates
      /\ OneRecord /\ FirstSend /\ StoppedExitEndsItsOwn /\ StopHitsItsOwn
  BY DEF RelaunchInv, RelaunchOrder
<1>u. UNCHANGED <<running, told, exiting, exitLog, waits, up, frames, acks,
                  sink, launched, stopQueued, stopsUsed, looking, exit,
                  launcher, ingested, delivered, binds, sends, stopFor,
                  ownEnd, misled, hit, confirmed, gaveUp>>
  BY DEF StopTimesOut, nodeSide, wires, runHist
<1>t1. resender' \in Resenders
  BY <1>i DEF StopTimesOut, Resenders, RelaunchTypeOK
<1>t. RelaunchTypeOK'
  BY <1>i, <1>u, <1>t1 DEF RelaunchTypeOK
<1>e. /\ resender.stage = "sent" /\ resender'.stage = "loop" /\ resender'.stop = resender.stop
  BY <1>i DEF StopTimesOut, Resenders, RelaunchTypeOK
<1>f. FrameIds' = FrameIds
  BY <1>u DEF FrameIds
<1>1. StopStates'
  BY <1>i, <1>u, <1>e, Numbers, FrameShapes DEF StopStates, OneRun
<1>2. FirstSend'
  BY <1>i, <1>u, <1>e, Numbers, FrameShapes, <1>f DEF FirstSend, Undisturbed, RecordsIn, NoFrames,
                                                      NoWaits, NoAnswers, StopAt, OneRun, StopStates,
                                                      FramesInOrder, AnsweredStops, OneRecord, Gone,
                                                      Coming, LaunchAt
<1> QED
  BY <1>i, <1>t, <1>u, <1>1, <1>2, OneRunFrame, FramesInOrderFrame, AnsweredStopsFrame,
     OneRecordFrame, StoppedExitEndsItsOwnFrame, StopHitsItsOwnFrame
     DEF RelaunchInv, RelaunchOrder

(* Ack: whether an exit record is still to come.                           *)
LEMMA AckStep ==
    ASSUME RelaunchInv, NEW a \in acks, Ack(a)
    PROVE  RelaunchInv'
<1>i. /\ RelaunchTypeOK /\ OneRun /\ FramesInOrder /\ AnsweredStops /\ StopStates
      /\ OneRecord /\ FirstSend /\ StoppedExitEndsItsOwn /\ StopHitsItsOwn
  BY DEF RelaunchInv, RelaunchOrder
<1>u. UNCHANGED <<running, told, exiting, exitLog, waits, up, frames, sink,
                  launched, stopsUsed, looking, launcher, ingested, delivered,
                  binds, sends, stopFor, ownEnd, misled, hit, gaveUp>>
  BY DEF Ack, nodeSide, wires, runHist
<1>p. a \in StopAnswers /\ (resender.stage = "sent" => exit \in {"pending", "sent", "seen"} /\ stopQueued = resender.stop)
  BY <1>i DEF RelaunchTypeOK, StopStates
<1>q. \/ acks' = acks \ {a} /\ UNCHANGED <<resender, exit, stopQueued, confirmed>>
      \/ /\ acks' = acks \ {a} /\ resender.stage = "sent" /\ resender.stop = a.stop /\ resender' = Resting
         /\ stopQueued = a.stop /\ exit' = Owed(a.outcome, resender.resent) /\ stopQueued' = 0
         /\ confirmed' = confirmed \cup {a.stop}
  BY <1>p DEF Ack
<1>r. resender.stage = "sent" =>
        \/ Owed(a.outcome, resender.resent) = "owed"
        \/ /\ Owed(a.outcome, resender.resent) = "none"
           /\ exit = "seen" \/ (a.outcome = "not-running" /\ ~resender.resent)
  BY <1>p DEF Owed, StopAnswers, Outcomes
<1>v. Resting \in Resenders /\ Resting.stage = "idle" /\ 0 \in 0..MaxStopIds
  BY RelaunchAssumption DEF Resting, Resenders
<1>t1. acks' \subseteq StopAnswers
  BY <1>i, <1>q DEF RelaunchTypeOK
<1>t2. resender' \in Resenders
  BY <1>i, <1>q, <1>v DEF RelaunchTypeOK
<1>t3. exit' \in ExitStates
  BY <1>i, <1>q, <1>r DEF RelaunchTypeOK, ExitStates
<1>t4. stopQueued' \in 0..MaxStopIds
  BY <1>i, <1>q, <1>v DEF RelaunchTypeOK
<1>t5. confirmed' \subseteq StopIds
  BY <1>i, <1>p, <1>q DEF RelaunchTypeOK, StopAnswers
<1>t. RelaunchTypeOK'
  BY <1>i, <1>u, <1>t1, <1>t2, <1>t3, <1>t4, <1>t5 DEF RelaunchTypeOK
<1>e. /\ acks' = acks \ {a}
      /\ \/ UNCHANGED <<resender, exit, stopQueued, confirmed>>
         \/ /\ resender.stage = "sent" /\ resender'.stage = "idle" /\ stopQueued = a.stop /\ stopQueued' = 0
            /\ confirmed' = confirmed \cup {a.stop}
            /\ \/ exit' = "owed"
               \/ exit' = "none" /\ (exit = "seen" \/ (a.outcome = "not-running" /\ ~resender.resent))
  BY <1>q, <1>r, <1>v
<1>f. FrameIds' = FrameIds
  BY <1>u DEF FrameIds
<1>1. OneRun'
  BY <1>i, <1>u, <1>e, Numbers, FrameShapes, <1>f DEF OneRun, Gone, Coming, LaunchAt, AnsweredStops
<1>2. AnsweredStops'
  BY <1>i, <1>u, <1>e, Numbers, FrameShapes, <1>f DEF AnsweredStops, Gone, Coming, LaunchAt, OneRun,
                                                      FramesInOrder, StopAt
<1>3. StopStates'
  BY <1>i, <1>u, <1>e, Numbers, FrameShapes DEF StopStates, OneRun
<1>4. OneRecord'
  BY <1>i, <1>u, <1>e, Numbers, FrameShapes, <1>f DEF OneRecord, Undisturbed, RecordsIn, Coming,
                                                      LaunchAt, OneRun, StopStates, FramesInOrder,
                                                      FirstSend, StopAt
<1>5. FirstSend'
  BY <1>i, <1>u, <1>e, Numbers, FrameShapes, <1>f DEF FirstSend, Undisturbed, RecordsIn, NoFrames,
                                                      NoWaits, NoAnswers, StopAt, OneRun, StopStates,
                                                      FramesInOrder, AnsweredStops, OneRecord, Gone,
                                                      Coming, LaunchAt
<1>6. StopHitsItsOwn'
  BY <1>i, <1>u, <1>e, Numbers, FrameShapes DEF StopHitsItsOwn, OneRun, AnsweredStops, Gone, Coming
<1> QED
  BY <1>i, <1>t, <1>u, <1>1, <1>2, <1>3, <1>4, <1>5, <1>6, FramesInOrderFrame,
     StoppedExitEndsItsOwnFrame DEF RelaunchInv, RelaunchOrder

(* LaunchBegins: no run is attached.                                       *)
LEMMA LaunchBeginsStep ==
    ASSUME RelaunchInv, LaunchBegins
    PROVE  RelaunchInv'
<1>i. /\ RelaunchTypeOK /\ OneRun /\ FramesInOrder /\ AnsweredStops /\ StopStates
      /\ OneRecord /\ FirstSend /\ StoppedExitEndsItsOwn /\ StopHitsItsOwn
  BY DEF RelaunchInv, RelaunchOrder
<1>u. UNCHANGED <<running, told, exiting, exitLog, waits, up, frames, acks,
                  sink, launched, stopQueued, stopsUsed, looking, exit,
                  resender, ingested, delivered, binds, sends, stopFor,
                  ownEnd, misled, hit, confirmed, gaveUp>>
  BY DEF LaunchBegins, nodeSide, wires, runHist
<1>t1. launcher' \in {"idle", "stop", "exit", "sending"}
  BY <1>i DEF LaunchBegins, RelaunchTypeOK
<1>t. RelaunchTypeOK'
  BY <1>i, <1>u, <1>t1 DEF RelaunchTypeOK
<1>e. /\ sink = 0 /\ launched < MaxRuns /\ launcher = "idle" /\ launcher' = "stop"
  BY <1>i DEF LaunchBegins, RelaunchTypeOK
<1>f. FrameIds' = FrameIds
  BY <1>u DEF FrameIds
<1>1. OneRun'
  BY <1>i, <1>u, <1>e, Numbers, FrameShapes, <1>f DEF OneRun, Gone, Coming, LaunchAt, AnsweredStops
<1>2. FramesInOrder'
  BY <1>i, <1>u, <1>e, Numbers, FrameShapes, <1>f DEF FramesInOrder, LaunchAt, StopAt, OneRun
<1>3. AnsweredStops'
  BY <1>i, <1>u, <1>e, Numbers, FrameShapes, <1>f DEF AnsweredStops, Gone, Coming, LaunchAt, OneRun,
                                                      FramesInOrder, StopAt
<1>4. OneRecord'
  BY <1>i, <1>u, <1>e, Numbers, FrameShapes, <1>f DEF OneRecord, Undisturbed, RecordsIn, Coming,
                                                      LaunchAt, OneRun, StopStates, FramesInOrder,
                                                      FirstSend, StopAt
<1> QED
  BY <1>i, <1>t, <1>u, <1>1, <1>2, <1>3, <1>4, StopStatesFrame, FirstSendFrame,
     StoppedExitEndsItsOwnFrame, StopHitsItsOwnFrame DEF RelaunchInv, RelaunchOrder

(* StopAwaited: the stop is acknowledged, or the launch fails.             *)
LEMMA StopAwaitedStep ==
    ASSUME RelaunchInv, StopAwaited
    PROVE  RelaunchInv'
<1>i. /\ RelaunchTypeOK /\ OneRun /\ FramesInOrder /\ AnsweredStops /\ StopStates
      /\ OneRecord /\ FirstSend /\ StoppedExitEndsItsOwn /\ StopHitsItsOwn
  BY DEF RelaunchInv, RelaunchOrder
<1>u. UNCHANGED <<running, told, exiting, exitLog, waits, up, frames, acks,
                  sink, launched, stopQueued, stopsUsed, looking, exit,
                  resender, ingested, delivered, binds, sends, stopFor,
                  ownEnd, misled, hit, confirmed, gaveUp>>
  BY DEF StopAwaited, nodeSide, wires, runHist
<1>t1. launcher' \in {"idle", "stop", "exit", "sending"}
  BY <1>i DEF StopAwaited, RelaunchTypeOK
<1>t. RelaunchTypeOK'
  BY <1>i, <1>u, <1>t1 DEF RelaunchTypeOK
<1>e. /\ launcher = "stop"
      /\ launcher' = (IF stopQueued = 0 THEN "exit" ELSE "idle")
  BY <1>i DEF StopAwaited, RelaunchTypeOK
<1>f. FrameIds' = FrameIds
  BY <1>u DEF FrameIds
<1>1. OneRun'
  BY <1>i, <1>u, <1>e, Numbers, FrameShapes, <1>f DEF OneRun, Gone, Coming, LaunchAt, AnsweredStops
<1>2. FramesInOrder'
  BY <1>i, <1>u, <1>e, Numbers, FrameShapes, <1>f DEF FramesInOrder, LaunchAt, StopAt, OneRun
<1>3. AnsweredStops'
  BY <1>i, <1>u, <1>e, Numbers, FrameShapes, <1>f DEF AnsweredStops, Gone, Coming, LaunchAt, OneRun,
                                                      FramesInOrder, StopAt
<1>4. OneRecord'
  BY <1>i, <1>u, <1>e, Numbers, FrameShapes, <1>f DEF OneRecord, Undisturbed, RecordsIn, Coming,
                                                      LaunchAt, OneRun, StopStates, FramesInOrder,
                                                      FirstSend, StopAt
<1> QED
  BY <1>i, <1>t, <1>u, <1>1, <1>2, <1>3, <1>4, StopStatesFrame, FirstSendFrame,
     StoppedExitEndsItsOwnFrame, StopHitsItsOwnFrame DEF RelaunchInv, RelaunchOrder

(* ExitAwaited: no exit record is owed, the next run is attached.          *)
LEMMA ExitAwaitedStep ==
    ASSUME RelaunchInv, ExitAwaited
    PROVE  RelaunchInv'
<1>i. /\ RelaunchTypeOK /\ OneRun /\ FramesInOrder /\ AnsweredStops /\ StopStates
      /\ OneRecord /\ FirstSend /\ StoppedExitEndsItsOwn /\ StopHitsItsOwn
  BY DEF RelaunchInv, RelaunchOrder
<1>u. UNCHANGED <<running, told, exiting, exitLog, waits, up, frames, acks,
                  stopQueued, stopsUsed, looking, exit, resender, ingested,
                  delivered, binds, sends, stopFor, ownEnd, misled, hit,
                  confirmed, gaveUp>>
  BY DEF ExitAwaited, nodeSide, wires, runHist
<1>p. /\ launcher = "exit" /\ launcher' = "sending" /\ launched' = launched + 1 /\ sink' = launched + 1
      /\ launched + 1 \in RunIds /\ launched + 1 \in 0..MaxRuns /\ stopQueued = 0 /\ sink = 0 /\ exit \in {"none", "owed"}
  BY <1>i, RelaunchAssumption DEF ExitAwaited, Attach, OneRun, StopStates, RelaunchTypeOK, RunIds, ExitStates
<1>t1. sink' \in 0..MaxRuns
  BY <1>p
<1>t2. launched' \in RunIds
  BY <1>p
<1>t3. launcher' \in {"idle", "stop", "exit", "sending"}
  BY <1>p
<1>t. RelaunchTypeOK'
  BY <1>i, <1>u, <1>t1, <1>t2, <1>t3 DEF RelaunchTypeOK
<1>e. /\ launcher = "exit" /\ launcher' = "sending" /\ launched' = launched + 1 /\ sink' = launched'
      /\ stopQueued = 0 /\ sink = 0
      /\ exit = "none"
  BY <1>p DEF ExitAwaited
<1>f. FrameIds' = FrameIds
  BY <1>u DEF FrameIds
<1>g. running = 0 /\ \A i \in FrameIds : ~LaunchAt(i) /\ StopAt(i)
  BY <1>i, <1>e, FrameShapes DEF OneRun, Gone, Coming
<1>1. OneRun'
  BY <1>i, <1>u, <1>e, Numbers, FrameShapes, <1>f DEF OneRun, Gone, Coming, LaunchAt, AnsweredStops
<1>2. FramesInOrder'
  <2>1. \A i \in FrameIds' : LaunchAt(i)' => frames'[i].id = launched'
    BY <1>i, <1>u, <1>e, <1>f, <1>g DEF FramesInOrder, LaunchAt, StopAt
  <2>2. \A i \in FrameIds' : StopAt(i)' => frames'[i].id <= stopsUsed'
    BY <1>i, <1>u, <1>e, <1>f, <1>g DEF FramesInOrder, LaunchAt, StopAt
  <2>3. \A i, j \in FrameIds' : LaunchAt(i)' /\ LaunchAt(j)' => i = j
    BY <1>i, <1>u, <1>e, <1>f, <1>g DEF FramesInOrder, LaunchAt, StopAt
  <2>4. \A i, j \in FrameIds' : LaunchAt(i)' /\ StopAt(j)' => (i < j <=> stopFor'[frames'[j].id] = launched')
    BY <1>i, <1>u, <1>e, <1>f, <1>g DEF FramesInOrder, LaunchAt, StopAt
  <2>5. running' # 0 => \A i \in FrameIds' : StopAt(i)' /\ stopFor'[frames'[i].id] = launched'
    BY <1>i, <1>u, <1>e, <1>f, <1>g DEF FramesInOrder, LaunchAt, StopAt
  <2>6. launcher' = "sending" => running' = 0 /\ \A i \in FrameIds' : StopAt(i)'
    BY <1>i, <1>u, <1>e, <1>f, <1>g DEF FramesInOrder, LaunchAt, StopAt
  <2> QED
    BY <2>1, <2>2, <2>3, <2>4, <2>5, <2>6 DEF FramesInOrder
<1>3. AnsweredStops'
  BY <1>i, <1>u, <1>e, Numbers, FrameShapes, <1>f DEF AnsweredStops, Gone, Coming, LaunchAt, OneRun,
                                                      FramesInOrder, StopAt
<1>4. StopStates'
  BY <1>i, <1>u, <1>e, Numbers, FrameShapes DEF StopStates, OneRun
<1>5. OneRecord'
  BY <1>i, <1>u, <1>e, Numbers, FrameShapes, <1>f DEF OneRecord, Undisturbed, RecordsIn, Coming,
                                                      LaunchAt, OneRun, StopStates, FramesInOrder,
                                                      FirstSend, StopAt
<1> QED
  BY <1>i, <1>t, <1>u, <1>1, <1>2, <1>3, <1>4, <1>5, FirstSendFrame,
     StoppedExitEndsItsOwnFrame, StopHitsItsOwnFrame DEF RelaunchInv, RelaunchOrder

(* ExitGivenUp: or it did not come in time.                                *)
LEMMA ExitGivenUpStep ==
    ASSUME RelaunchInv, ExitGivenUp
    PROVE  RelaunchInv'
<1>i. /\ RelaunchTypeOK /\ OneRun /\ FramesInOrder /\ AnsweredStops /\ StopStates
      /\ OneRecord /\ FirstSend /\ StoppedExitEndsItsOwn /\ StopHitsItsOwn
  BY DEF RelaunchInv, RelaunchOrder
<1>u. UNCHANGED <<running, told, exiting, exitLog, waits, up, frames, acks,
                  stopQueued, stopsUsed, looking, resender, ingested,
                  delivered, binds, sends, stopFor, ownEnd, misled, hit,
                  confirmed>>
  BY DEF ExitGivenUp, nodeSide, wires, runHist
<1>p. /\ launcher = "exit" /\ launcher' = "sending" /\ launched' = launched + 1 /\ sink' = launched + 1
      /\ launched + 1 \in RunIds /\ launched + 1 \in 0..MaxRuns /\ stopQueued = 0 /\ sink = 0 /\ exit \in {"none", "owed"}
  BY <1>i, RelaunchAssumption DEF ExitGivenUp, Attach, OneRun, StopStates, RelaunchTypeOK, RunIds, ExitStates
<1>t1. sink' \in 0..MaxRuns
  BY <1>p
<1>t2. launched' \in RunIds
  BY <1>p
<1>t3. launcher' \in {"idle", "stop", "exit", "sending"}
  BY <1>p
<1>t4. exit' \in ExitStates
  BY DEF ExitGivenUp, ExitStates
<1>t5. gaveUp' \in BOOLEAN
  BY Zenon DEF ExitGivenUp
<1>t. RelaunchTypeOK'
  BY <1>i, <1>u, <1>t1, <1>t2, <1>t3, <1>t4, <1>t5 DEF RelaunchTypeOK
<1>e. /\ launcher = "exit" /\ launcher' = "sending" /\ launched' = launched + 1 /\ sink' = launched'
      /\ stopQueued = 0 /\ sink = 0
      /\ exit' = "none" /\ gaveUp'
  BY <1>p DEF ExitGivenUp
<1>f. FrameIds' = FrameIds
  BY <1>u DEF FrameIds
<1>g. running = 0 /\ \A i \in FrameIds : ~LaunchAt(i) /\ StopAt(i)
  BY <1>i, <1>e, FrameShapes DEF OneRun, Gone, Coming
<1>1. OneRun'
  BY <1>i, <1>u, <1>e, Numbers, FrameShapes, <1>f DEF OneRun, Gone, Coming, LaunchAt, AnsweredStops
<1>2. FramesInOrder'
  <2>1. \A i \in FrameIds' : LaunchAt(i)' => frames'[i].id = launched'
    BY <1>i, <1>u, <1>e, <1>f, <1>g DEF FramesInOrder, LaunchAt, StopAt
  <2>2. \A i \in FrameIds' : StopAt(i)' => frames'[i].id <= stopsUsed'
    BY <1>i, <1>u, <1>e, <1>f, <1>g DEF FramesInOrder, LaunchAt, StopAt
  <2>3. \A i, j \in FrameIds' : LaunchAt(i)' /\ LaunchAt(j)' => i = j
    BY <1>i, <1>u, <1>e, <1>f, <1>g DEF FramesInOrder, LaunchAt, StopAt
  <2>4. \A i, j \in FrameIds' : LaunchAt(i)' /\ StopAt(j)' => (i < j <=> stopFor'[frames'[j].id] = launched')
    BY <1>i, <1>u, <1>e, <1>f, <1>g DEF FramesInOrder, LaunchAt, StopAt
  <2>5. running' # 0 => \A i \in FrameIds' : StopAt(i)' /\ stopFor'[frames'[i].id] = launched'
    BY <1>i, <1>u, <1>e, <1>f, <1>g DEF FramesInOrder, LaunchAt, StopAt
  <2>6. launcher' = "sending" => running' = 0 /\ \A i \in FrameIds' : StopAt(i)'
    BY <1>i, <1>u, <1>e, <1>f, <1>g DEF FramesInOrder, LaunchAt, StopAt
  <2> QED
    BY <2>1, <2>2, <2>3, <2>4, <2>5, <2>6 DEF FramesInOrder
<1>3. AnsweredStops'
  BY <1>i, <1>u, <1>e, Numbers, FrameShapes, <1>f DEF AnsweredStops, Gone, Coming, LaunchAt, OneRun,
                                                      FramesInOrder, StopAt
<1>4. StopStates'
  BY <1>i, <1>u, <1>e, Numbers, FrameShapes DEF StopStates, OneRun
<1>5. OneRecord'
  BY <1>i, <1>u, <1>e, Numbers, FrameShapes, <1>f DEF OneRecord, Undisturbed, RecordsIn, Coming,
                                                      LaunchAt, OneRun, StopStates, FramesInOrder,
                                                      FirstSend, StopAt
<1>6. FirstSend'
  BY <1>i, <1>u, <1>e, Numbers, FrameShapes, <1>f DEF FirstSend, Undisturbed, RecordsIn, NoFrames,
                                                      NoWaits, NoAnswers, StopAt, OneRun, StopStates,
                                                      FramesInOrder, AnsweredStops, OneRecord, Gone,
                                                      Coming, LaunchAt
<1>7. StoppedExitEndsItsOwn'
  BY <1>i, <1>u, <1>e, Numbers, FrameShapes DEF StoppedExitEndsItsOwn, OneRecord, StopStates,
                                                Undisturbed, RecordsIn
<1> QED
  BY <1>i, <1>t, <1>u, <1>1, <1>2, <1>3, <1>4, <1>5, <1>6, <1>7, StopHitsItsOwnFrame
     DEF RelaunchInv, RelaunchOrder

(* SendLaunch: the launch goes out, or is lost.                            *)
LEMMA SendLaunchStep ==
    ASSUME RelaunchInv, SendLaunch
    PROVE  RelaunchInv'
<1>i. /\ RelaunchTypeOK /\ OneRun /\ FramesInOrder /\ AnsweredStops /\ StopStates
      /\ OneRecord /\ FirstSend /\ StoppedExitEndsItsOwn /\ StopHitsItsOwn
  BY DEF RelaunchInv, RelaunchOrder
<1>u. UNCHANGED <<running, told, exiting, exitLog, waits, up, acks, sink,
                  launched, stopQueued, stopsUsed, looking, exit, resender,
                  ingested, delivered, binds, sends, stopFor, ownEnd, misled,
                  hit, confirmed, gaveUp>>
  BY DEF SendLaunch, nodeSide, wires, runHist
<1>p. LaunchFrame(launched) \in LinkFrames
  BY <1>i DEF RelaunchTypeOK, LaunchFrame, LinkFrames
<1>q. frames' = frames \/ frames' = Append(frames, LaunchFrame(launched))
  BY DEF SendLaunch
<1>t1. frames' \in Seq(LinkFrames)
  BY <1>i, <1>p, <1>q, Appended DEF RelaunchTypeOK
<1>t2. launcher' \in {"idle", "stop", "exit", "sending"}
  BY DEF SendLaunch
<1>t. RelaunchTypeOK'
  BY <1>i, <1>u, <1>t1, <1>t2 DEF RelaunchTypeOK
<1>e. /\ launcher = "sending" /\ launcher' = "idle"
      /\ \/ FrameIds' = FrameIds /\ frames' = frames
         \/ /\ \A i \in FrameIds : i \in FrameIds' /\ frames'[i] = frames[i] /\ i < Len(frames) + 1
            /\ Len(frames) + 1 \in FrameIds' /\ frames'[Len(frames) + 1].kind = "launch" /\ frames'[Len(frames) + 1].id = launched
            /\ \A i \in FrameIds' : i \in FrameIds \/ i = Len(frames) + 1
  <2>1. CASE frames' = frames
    BY <2>1 DEF SendLaunch, FrameIds
  <2>2. CASE frames' = Append(frames, LaunchFrame(launched))
    <3>1. LaunchFrame(launched).kind = "launch" /\ LaunchFrame(launched).id = launched
      BY DEF LaunchFrame
    <3>2. /\ \A i \in FrameIds : i \in FrameIds' /\ frames'[i] = frames[i] /\ i < Len(frames) + 1
          /\ Len(frames) + 1 \in FrameIds' /\ frames'[Len(frames) + 1] = LaunchFrame(launched)
          /\ \A i \in FrameIds' : i \in FrameIds \/ i = Len(frames) + 1
      BY <1>i, <1>p, <2>2, Appended
    <3> QED
      BY <3>1, <3>2 DEF SendLaunch
  <2> QED
    BY <1>q, <2>1, <2>2
<1>l. Len(frames) \in Nat /\ \A i \in FrameIds : i \in Nat /\ i < Len(frames) + 1
  BY <1>i, FrameShapes
<1>g. \A i \in FrameIds' : \/ i \in FrameIds /\ frames'[i] = frames[i] /\ i < Len(frames) + 1
                           \/ i = Len(frames) + 1 /\ LaunchAt(i)' /\ ~StopAt(i)' /\ frames'[i].id = launched
  <2> SUFFICES ASSUME NEW i \in FrameIds'
               PROVE  \/ i \in FrameIds /\ frames'[i] = frames[i] /\ i < Len(frames) + 1
                      \/ i = Len(frames) + 1 /\ LaunchAt(i)' /\ ~StopAt(i)' /\ frames'[i].id = launched
    OBVIOUS
  <2>1. CASE i \in FrameIds
    BY <1>e, <1>l, <2>1
  <2>2. CASE i \notin FrameIds
    <3>1. i = Len(frames) + 1 /\ frames'[i].kind = "launch" /\ frames'[i].id = launched
      BY <1>e, <2>2
    <3> QED
      BY <2>2, <3>1 DEF StopAt, LaunchAt
  <2> QED
    BY <1>e, <2>1, <2>2
<1>h. /\ running = 0 /\ sink = launched /\ launched # 0
      /\ \A i \in FrameIds : /\ StopAt(i) /\ ~LaunchAt(i) /\ frames[i].id \in StopIds
                             /\ frames[i].id <= stopsUsed /\ stopFor[frames[i].id] # launched
  BY <1>i, <1>e, Numbers, FrameShapes DEF OneRun, FramesInOrder
<1>1. OneRun'
  BY <1>i, <1>u, <1>e, Numbers, FrameShapes DEF OneRun, Gone, Coming, LaunchAt, AnsweredStops
<1>2. FramesInOrder'
  <2>1. \A i \in FrameIds' : LaunchAt(i)' => frames'[i].id = launched'
    BY <1>i, <1>u, <1>e, <1>g, <1>h, <1>l DEF FramesInOrder, LaunchAt, StopAt
  <2>2. \A i \in FrameIds' : StopAt(i)' => frames'[i].id <= stopsUsed'
    BY <1>i, <1>u, <1>e, <1>g, <1>h, <1>l DEF FramesInOrder, LaunchAt, StopAt
  <2>3. \A i, j \in FrameIds' : LaunchAt(i)' /\ LaunchAt(j)' => i = j
    BY <1>i, <1>u, <1>e, <1>g, <1>h, <1>l DEF FramesInOrder, LaunchAt, StopAt
  <2>4. \A i, j \in FrameIds' : LaunchAt(i)' /\ StopAt(j)' => (i < j <=> stopFor'[frames'[j].id] = launched')
    BY <1>i, <1>u, <1>e, <1>g, <1>h, <1>l DEF FramesInOrder, LaunchAt, StopAt
  <2>5. running' # 0 => \A i \in FrameIds' : StopAt(i)' /\ stopFor'[frames'[i].id] = launched'
    BY <1>i, <1>u, <1>e, <1>g, <1>h, <1>l DEF FramesInOrder, LaunchAt, StopAt
  <2>6. launcher' = "sending" => running' = 0 /\ \A i \in FrameIds' : StopAt(i)'
    BY <1>i, <1>u, <1>e, <1>g, <1>h, <1>l DEF FramesInOrder, LaunchAt, StopAt
  <2> QED
    BY <2>1, <2>2, <2>3, <2>4, <2>5, <2>6 DEF FramesInOrder
<1>3. AnsweredStops'
  BY <1>i, <1>u, <1>e, Numbers, FrameShapes DEF AnsweredStops, Gone, Coming, LaunchAt, OneRun,
                                                FramesInOrder, StopAt
<1>4. OneRecord'
  BY <1>i, <1>u, <1>e, Numbers, FrameShapes DEF OneRecord, Undisturbed, RecordsIn, Coming, LaunchAt,
                                                OneRun, StopStates, FramesInOrder, FirstSend, StopAt
<1>5. FirstSend'
  BY <1>i, <1>u, <1>e, Numbers, FrameShapes DEF FirstSend, Undisturbed, RecordsIn, NoFrames, NoWaits,
                                                NoAnswers, StopAt, OneRun, StopStates, FramesInOrder,
                                                AnsweredStops, OneRecord, Gone, Coming, LaunchAt
<1> QED
  BY <1>i, <1>t, <1>u, <1>1, <1>2, <1>3, <1>4, <1>5, StopStatesFrame,
     StoppedExitEndsItsOwnFrame, StopHitsItsOwnFrame DEF RelaunchInv, RelaunchOrder

(* LinkDown: frames, waits and acknowledgements are lost.                  *)
LEMMA LinkDownStep ==
    ASSUME RelaunchInv, LinkDown
    PROVE  RelaunchInv'
<1>i. /\ RelaunchTypeOK /\ OneRun /\ FramesInOrder /\ AnsweredStops /\ StopStates
      /\ OneRecord /\ FirstSend /\ StoppedExitEndsItsOwn /\ StopHitsItsOwn
  BY DEF RelaunchInv, RelaunchOrder
<1>u. UNCHANGED <<running, told, exiting, exitLog, sink, launched, stopQueued,
                  stopsUsed, looking, exit, launcher, ingested, delivered,
                  binds, sends, stopFor, ownEnd, misled, hit, confirmed,
                  gaveUp>>
  BY DEF LinkDown, nodeSide, wires, runHist
<1>t1. up' \in BOOLEAN
  BY Zenon DEF LinkDown
<1>t2. frames' \in Seq(LinkFrames)
  BY DEF LinkDown
<1>t3. acks' \subseteq StopAnswers
  BY DEF LinkDown
<1>t4. waits' \subseteq StopWaits
  BY DEF LinkDown
<1>t5. resender' \in Resenders
  BY RelaunchAssumption DEF LinkDown, Resting, Resenders
<1>t. RelaunchTypeOK'
  BY <1>i, <1>u, <1>t1, <1>t2, <1>t3, <1>t4, <1>t5 DEF RelaunchTypeOK
<1>e. /\ FrameIds' = {} /\ acks' = {} /\ waits' = {}
      /\ resender'.stage = "idle"
  BY DEF LinkDown, FrameIds, Resting
<1>1. OneRun'
  BY <1>i, <1>u, <1>e, Numbers, FrameShapes DEF OneRun, Gone, Coming, LaunchAt, AnsweredStops
<1>2. FramesInOrder'
  BY <1>i, <1>u, <1>e, Numbers, FrameShapes DEF FramesInOrder, LaunchAt, StopAt, OneRun
<1>3. AnsweredStops'
  BY <1>i, <1>u, <1>e, Numbers, FrameShapes DEF AnsweredStops, Gone, Coming, LaunchAt, OneRun,
                                                FramesInOrder, StopAt
<1>4. StopStates'
  BY <1>i, <1>u, <1>e, Numbers, FrameShapes DEF StopStates, OneRun
<1>5. OneRecord'
  BY <1>i, <1>u, <1>e, Numbers, FrameShapes DEF OneRecord, Undisturbed, RecordsIn, Coming, LaunchAt,
                                                OneRun, StopStates, FramesInOrder, FirstSend, StopAt
<1>6. FirstSend'
  BY <1>i, <1>u, <1>e, Numbers, FrameShapes DEF FirstSend, Undisturbed, RecordsIn, NoFrames, NoWaits,
                                                NoAnswers, StopAt, OneRun, StopStates, FramesInOrder,
                                                AnsweredStops, OneRecord, Gone, Coming, LaunchAt
<1> QED
  BY <1>i, <1>t, <1>u, <1>1, <1>2, <1>3, <1>4, <1>5, <1>6, StoppedExitEndsItsOwnFrame,
     StopHitsItsOwnFrame DEF RelaunchInv, RelaunchOrder

(* LinkBound: the queued stop goes first.                                  *)
LEMMA LinkBoundStep ==
    ASSUME RelaunchInv, LinkBound
    PROVE  RelaunchInv'
<1>i. /\ RelaunchTypeOK /\ OneRun /\ FramesInOrder /\ AnsweredStops /\ StopStates
      /\ OneRecord /\ FirstSend /\ StoppedExitEndsItsOwn /\ StopHitsItsOwn
  BY DEF RelaunchInv, RelaunchOrder
<1>u. UNCHANGED <<running, told, exiting, exitLog, waits, acks, sink,
                  launched, stopQueued, stopsUsed, looking, launcher,
                  ingested, delivered, sends, stopFor, ownEnd, misled, hit,
                  confirmed, gaveUp>>
  BY DEF LinkBound, nodeSide, wires, runHist
<1>p. \/ stopQueued = 0 /\ UNCHANGED <<frames, exit, resender>>
      \/ /\ stopQueued \in StopIds /\ frames' = <<StopFrame(stopQueued)>>
         /\ exit' = (IF exit = "pending" THEN "sent" ELSE exit)
         /\ resender' = Resends(stopQueued)
  BY <1>i, Numbers DEF LinkBound, Sent
<1>q. stopQueued \in StopIds => /\ StopFrame(stopQueued) \in LinkFrames
                               /\ Resends(stopQueued) \in Resenders
  BY RelaunchAssumption DEF StopFrame, LinkFrames, Resends, Resenders, StopIds
<1>r. stopQueued \in StopIds => /\ <<StopFrame(stopQueued)>> \in Seq(LinkFrames)
                               /\ 1..Len(<<StopFrame(stopQueued)>>) = {1}
                               /\ <<StopFrame(stopQueued)>>[1] = StopFrame(stopQueued)
  BY <1>q, OneFrame
<1>t1. up' \in BOOLEAN
  BY Zenon DEF LinkBound
<1>t2. binds' \in 0..MaxBinds
  BY <1>i, RelaunchAssumption DEF LinkBound, RelaunchTypeOK
<1>t3. frames' \in Seq(LinkFrames)
  BY <1>i, <1>p, <1>r DEF RelaunchTypeOK
<1>t4. exit' \in ExitStates
  BY <1>i, <1>p DEF RelaunchTypeOK, ExitStates
<1>t5. resender' \in Resenders
  BY <1>i, <1>p, <1>q DEF RelaunchTypeOK
<1>t. RelaunchTypeOK'
  BY <1>i, <1>u, <1>t1, <1>t2, <1>t3, <1>t4, <1>t5 DEF RelaunchTypeOK
<1>e. /\ \/ stopQueued = 0 /\ FrameIds' = FrameIds /\ UNCHANGED <<frames, exit, resender>>
         \/ /\ stopQueued \in StopIds /\ FrameIds' = {1} /\ frames'[1].kind = "stop" /\ frames'[1].id = stopQueued
            /\ exit' = (IF exit = "pending" THEN "sent" ELSE exit)
            /\ resender'.stage = "loop" /\ resender'.stop = stopQueued
  <2>1. CASE stopQueued = 0 /\ UNCHANGED <<frames, exit, resender>>
    BY <2>1 DEF FrameIds
  <2>2. CASE /\ stopQueued \in StopIds /\ frames' = <<StopFrame(stopQueued)>>
             /\ exit' = (IF exit = "pending" THEN "sent" ELSE exit) /\ resender' = Resends(stopQueued)
    <3>1. FrameIds' = {1} /\ frames'[1] = StopFrame(stopQueued)
      BY <1>r, <2>2 DEF FrameIds
    <3> QED
      BY <2>2, <3>1 DEF StopFrame, Resends
  <2> QED
    BY <1>p, <2>1, <2>2
<1>1. OneRun'
  BY <1>i, <1>u, <1>e, Numbers, FrameShapes DEF OneRun, Gone, Coming, LaunchAt, AnsweredStops
<1>2. FramesInOrder'
  BY <1>i, <1>u, <1>e, Numbers, FrameShapes, SMTT(60) DEF FramesInOrder, LaunchAt, StopAt, OneRun
<1>3. AnsweredStops'
  BY <1>i, <1>u, <1>e, Numbers, FrameShapes DEF AnsweredStops, Gone, Coming, LaunchAt, OneRun,
                                                FramesInOrder, StopAt
<1>4. StopStates'
  BY <1>i, <1>u, <1>e, Numbers, FrameShapes DEF StopStates, OneRun
<1>5. OneRecord'
  BY <1>i, <1>u, <1>e, Numbers, FrameShapes DEF OneRecord, Undisturbed, RecordsIn, Coming, LaunchAt,
                                                OneRun, StopStates, FramesInOrder, FirstSend, StopAt
<1>6. FirstSend'
  BY <1>i, <1>u, <1>e, Numbers, FrameShapes DEF FirstSend, Undisturbed, RecordsIn, NoFrames, NoWaits,
                                                NoAnswers, StopAt, OneRun, StopStates, FramesInOrder,
                                                AnsweredStops, OneRecord, Gone, Coming, LaunchAt
<1> QED
  BY <1>i, <1>t, <1>u, <1>1, <1>2, <1>3, <1>4, <1>5, <1>6, StoppedExitEndsItsOwnFrame,
     StopHitsItsOwnFrame DEF RelaunchInv, RelaunchOrder

(* DeliverExit: a record reaches the attached runtime.                     *)
LEMMA DeliverExitStep ==
    ASSUME RelaunchInv, DeliverExit
    PROVE  RelaunchInv'
<1>i. /\ RelaunchTypeOK /\ OneRun /\ FramesInOrder /\ AnsweredStops /\ StopStates
      /\ OneRecord /\ FirstSend /\ StoppedExitEndsItsOwn /\ StopHitsItsOwn
  BY DEF RelaunchInv, RelaunchOrder
<1>u. UNCHANGED <<running, told, exiting, exitLog, waits, up, frames, acks,
                  sink, launched, stopQueued, stopsUsed, looking, exit,
                  resender, launcher, binds, sends, stopFor, ownEnd, hit,
                  confirmed, gaveUp>>
  BY DEF DeliverExit, nodeSide, wires, runHist
<1>p. /\ ingested < Len(exitLog) /\ ingested \in Nat /\ Len(exitLog) \in Nat
      /\ delivered = 0 /\ ingested' = ingested + 1 /\ delivered' = exitLog[ingested + 1]
      /\ misled' = (IF sink \notin {0, exitLog[ingested + 1]} THEN misled \cup {exitLog[ingested + 1]} ELSE misled)
  BY <1>i DEF DeliverExit, RelaunchTypeOK
<1>q. exitLog[ingested + 1] \in RunIds
  BY <1>i, <1>p DEF RelaunchTypeOK
<1>t1. ingested' \in Nat
  BY <1>p
<1>t2. delivered' \in 0..MaxRuns
  BY <1>p, <1>q, RelaunchAssumption DEF RunIds
<1>t3. misled' \subseteq RunIds
  BY <1>i, <1>p, <1>q DEF RelaunchTypeOK
<1>t. RelaunchTypeOK'
  BY <1>i, <1>u, <1>t1, <1>t2, <1>t3 DEF RelaunchTypeOK
<1>e. /\ delivered = 0 /\ ingested < Len(exitLog) /\ ingested' = ingested + 1 /\ delivered' # 0
      /\ sink = 0 => misled' = misled
  BY <1>p, <1>q DEF RunIds
<1>f. FrameIds' = FrameIds
  BY <1>u DEF FrameIds
<1>1. OneRecord'
  BY <1>i, <1>u, <1>e, Numbers, FrameShapes, <1>f DEF OneRecord, Undisturbed, RecordsIn, Coming,
                                                      LaunchAt, OneRun, StopStates, FramesInOrder,
                                                      FirstSend, StopAt
<1>2. FirstSend'
  BY <1>i, <1>u, <1>e, Numbers, FrameShapes, <1>f DEF FirstSend, Undisturbed, RecordsIn, NoFrames,
                                                      NoWaits, NoAnswers, StopAt, OneRun, StopStates,
                                                      FramesInOrder, AnsweredStops, OneRecord, Gone,
                                                      Coming, LaunchAt
<1>3. StoppedExitEndsItsOwn'
  BY <1>i, <1>u, <1>e, Numbers, FrameShapes DEF StoppedExitEndsItsOwn, OneRecord, StopStates,
                                                Undisturbed, RecordsIn
<1> QED
  BY <1>i, <1>t, <1>u, <1>1, <1>2, <1>3, OneRunFrame, FramesInOrderFrame,
     AnsweredStopsFrame, StopStatesFrame, StopHitsItsOwnFrame
     DEF RelaunchInv, RelaunchOrder

(* ExitIngested: a launch that waits for it goes on.                       *)
LEMMA ExitIngestedStep ==
    ASSUME RelaunchInv, ExitIngested
    PROVE  RelaunchInv'
<1>i. /\ RelaunchTypeOK /\ OneRun /\ FramesInOrder /\ AnsweredStops /\ StopStates
      /\ OneRecord /\ FirstSend /\ StoppedExitEndsItsOwn /\ StopHitsItsOwn
  BY DEF RelaunchInv, RelaunchOrder
<1>u. UNCHANGED <<running, told, exiting, exitLog, waits, up, frames, acks,
                  sink, launched, stopQueued, stopsUsed, looking, resender,
                  launcher, ingested, binds, sends, stopFor, ownEnd, misled,
                  hit, confirmed, gaveUp>>
  BY DEF ExitIngested, nodeSide, wires, runHist
<1>t1. delivered' \in 0..MaxRuns
  BY RelaunchAssumption DEF ExitIngested
<1>t2. exit' \in ExitStates
  BY <1>i DEF ExitIngested, ExitStates, RelaunchTypeOK
<1>t. RelaunchTypeOK'
  BY <1>i, <1>u, <1>t1, <1>t2 DEF RelaunchTypeOK
<1>e. /\ delivered # 0 /\ delivered' = 0
      /\ exit' = (IF exit \in {"pending", "sent"} THEN "seen" ELSE IF exit = "owed" THEN "none" ELSE exit)
  BY DEF ExitIngested
<1>f. FrameIds' = FrameIds
  BY <1>u DEF FrameIds
<1>1. StopStates'
  BY <1>i, <1>u, <1>e, Numbers, FrameShapes DEF StopStates, OneRun
<1>2. OneRecord'
  BY <1>i, <1>u, <1>e, Numbers, FrameShapes, <1>f DEF OneRecord, Undisturbed, RecordsIn, Coming,
                                                      LaunchAt, OneRun, StopStates, FramesInOrder,
                                                      FirstSend, StopAt
<1>3. FirstSend'
  BY <1>i, <1>u, <1>e, Numbers, FrameShapes, <1>f DEF FirstSend, Undisturbed, RecordsIn, NoFrames,
                                                      NoWaits, NoAnswers, StopAt, OneRun, StopStates,
                                                      FramesInOrder, AnsweredStops, OneRecord, Gone,
                                                      Coming, LaunchAt
<1> QED
  BY <1>i, <1>t, <1>u, <1>1, <1>2, <1>3, OneRunFrame, FramesInOrderFrame,
     AnsweredStopsFrame, StoppedExitEndsItsOwnFrame, StopHitsItsOwnFrame
     DEF RelaunchInv, RelaunchOrder

(* TakesLaunch: the run starts, or fails at once.                          *)
LEMMA TakesLaunchStep ==
    ASSUME RelaunchInv, TakesLaunch
    PROVE  RelaunchInv'
<1>i. /\ RelaunchTypeOK /\ OneRun /\ FramesInOrder /\ AnsweredStops /\ StopStates
      /\ OneRecord /\ FirstSend /\ StoppedExitEndsItsOwn /\ StopHitsItsOwn
  BY DEF RelaunchInv, RelaunchOrder
<1>u. UNCHANGED <<told, exiting, waits, up, acks, sink, launched, stopQueued,
                  stopsUsed, looking, exit, resender, launcher, ingested,
                  delivered, binds, sends, stopFor, misled, hit, confirmed,
                  gaveUp>>
  BY DEF TakesLaunch, nodeSide, wires, runHist
<1>p. frames # <<>> /\ frames' = Tail(frames) /\ Head(frames).kind = "launch"
  BY DEF TakesLaunch
<1>q. frames[1].kind = "launch" /\ frames[1].id \in RunIds /\ Head(frames) = frames[1]
  BY <1>i, <1>p, Taken, FrameShapes DEF LaunchAt
<1>r. \/ UNCHANGED <<running, exitLog, ownEnd>>
      \/ running = 0 /\ running' = frames[1].id /\ UNCHANGED <<exitLog, ownEnd>>
      \/ /\ running = 0 /\ running' = 0 /\ exitLog' = Append(exitLog, frames[1].id)
         /\ ownEnd' = ownEnd \cup {frames[1].id}
  BY <1>q DEF TakesLaunch
<1>t1. frames' \in Seq(LinkFrames)
  BY <1>i, <1>p, Taken
<1>t2. running' \in 0..MaxRuns
  BY <1>i, <1>q, <1>r, SMTT(60) DEF RelaunchTypeOK, RunIds
<1>t3. exitLog' \in Seq(RunIds)
  <2>1. exitLog \in Seq(RunIds)
    BY <1>i DEF RelaunchTypeOK
  <2>2. Append(exitLog, frames[1].id) \in Seq(RunIds)
    BY <1>q, <2>1
  <2> QED
    BY <1>r, <2>1, <2>2
<1>t4. ownEnd' \subseteq RunIds
  BY <1>i, <1>q, <1>r DEF RelaunchTypeOK
<1>t. RelaunchTypeOK'
  BY <1>i, <1>u, <1>t1, <1>t2, <1>t3, <1>t4 DEF RelaunchTypeOK
<1>e. /\ frames[1].kind = "launch"
      /\ 1 \in FrameIds
      /\ \A i \in FrameIds' : i \in Nat /\ i >= 1 /\ i + 1 \in FrameIds /\ frames'[i] = frames[i + 1]
      /\ \/ UNCHANGED <<running, exitLog, ownEnd>>
         \/ running = 0 /\ running' = frames[1].id /\ UNCHANGED <<exitLog, ownEnd>>
         \/ running = 0 /\ running' = 0 /\ Len(exitLog') = Len(exitLog) + 1 /\ ownEnd' # {}
  <2>1. Len(Append(exitLog, frames[1].id)) = Len(exitLog) + 1
    BY <1>i, <1>q DEF RelaunchTypeOK
  <2> QED
    BY <1>i, <1>p, <1>q, <1>r, <2>1, Taken
<1>g. LaunchAt(1) /\ Coming /\ running = 0 /\ launcher # "sending" /\ frames[1].id = launched
  BY <1>i, <1>e, FrameShapes DEF FramesInOrder, LaunchAt, Coming
<1>h. \A i \in FrameIds' : /\ StopAt(i)' /\ ~LaunchAt(i)' /\ frames'[i].id \in StopIds
                           /\ frames'[i].id <= stopsUsed /\ stopFor[frames'[i].id] = launched
  <2> SUFFICES ASSUME NEW i \in FrameIds'
               PROVE  /\ StopAt(i)' /\ ~LaunchAt(i)' /\ frames'[i].id \in StopIds
                      /\ frames'[i].id <= stopsUsed /\ stopFor[frames'[i].id] = launched
    OBVIOUS
  <2>1. i \in Nat /\ i + 1 \in FrameIds /\ frames'[i] = frames[i + 1] /\ i + 1 # 1 /\ 1 < i + 1
    BY <1>e
  <2>2. ~LaunchAt(i + 1) /\ StopAt(i + 1) /\ frames[i + 1].id \in StopIds
    BY <1>i, <1>e, <1>g, <2>1, FrameShapes DEF FramesInOrder
  <2>3. frames[i + 1].id <= stopsUsed /\ stopFor[frames[i + 1].id] = launched
    BY <1>i, <1>e, <1>g, <2>1, <2>2 DEF FramesInOrder
  <2> QED
    BY <2>1, <2>2, <2>3 DEF StopAt, LaunchAt
<1>k. ~Coming' /\ ~Gone /\ running' \in {0, launched}
  BY <1>e, <1>g, <1>h, <1>u DEF Coming, Gone
<1>1. OneRun'
  BY <1>i, <1>u, <1>e, <1>g, <1>k, Numbers DEF OneRun
<1>2. FramesInOrder'
  <2>1. \A i \in FrameIds' : LaunchAt(i)' => frames'[i].id = launched'
    BY <1>u, <1>g, <1>h DEF FramesInOrder, LaunchAt, StopAt
  <2>2. \A i \in FrameIds' : StopAt(i)' => frames'[i].id <= stopsUsed'
    BY <1>u, <1>g, <1>h DEF FramesInOrder, LaunchAt, StopAt
  <2>3. \A i, j \in FrameIds' : LaunchAt(i)' /\ LaunchAt(j)' => i = j
    BY <1>u, <1>g, <1>h DEF FramesInOrder, LaunchAt, StopAt
  <2>4. \A i, j \in FrameIds' : LaunchAt(i)' /\ StopAt(j)' => (i < j <=> stopFor'[frames'[j].id] = launched')
    BY <1>u, <1>g, <1>h DEF FramesInOrder, LaunchAt, StopAt
  <2>5. running' # 0 => \A i \in FrameIds' : StopAt(i)' /\ stopFor'[frames'[i].id] = launched'
    BY <1>u, <1>g, <1>h DEF FramesInOrder, LaunchAt, StopAt
  <2>6. launcher' = "sending" => running' = 0 /\ \A i \in FrameIds' : StopAt(i)'
    BY <1>u, <1>g, <1>h DEF FramesInOrder, LaunchAt, StopAt
  <2> QED
    BY <2>1, <2>2, <2>3, <2>4, <2>5, <2>6 DEF FramesInOrder
<1>3. AnsweredStops'
  BY <1>i, <1>u, <1>k DEF AnsweredStops
<1>4. OneRecord'
  BY <1>i, <1>u, <1>e, Numbers, FrameShapes DEF OneRecord, Undisturbed, RecordsIn, Coming, LaunchAt,
                                                OneRun, StopStates, FramesInOrder, FirstSend, StopAt
<1>5. FirstSend'
  <2> SUFFICES ASSUME Undisturbed' PROVE FirstSend'
    BY DEF FirstSend
  <2>1. Undisturbed /\ UNCHANGED <<exitLog, ownEnd>>
    BY <1>u, <1>e DEF Undisturbed
  <2>2. (RecordsIn' <=> RecordsIn) /\ (NoWaits(stopQueued)' <=> NoWaits(stopQueued)) /\ (NoAnswers(stopQueued)' <=> NoAnswers(stopQueued))
    BY <1>u, <2>1 DEF RecordsIn, NoWaits, NoAnswers
  <2>3. NoFrames(stopQueued) => NoFrames(stopQueued)'
    BY <1>u, <1>e DEF NoFrames, StopAt
  <2>4. exit' = "sent" /\ resender'.stage = "sent" /\ ~resender'.resent =>
          \A i, j \in FrameIds' : StopAt(i)' /\ StopAt(j)' /\ frames'[i].id = stopQueued'
                                      /\ frames'[j].id = stopQueued' => i = j
    BY <1>i, <1>u, <1>e, <2>1 DEF FirstSend, StopAt
  <2> QED
    BY <1>i, <1>u, <2>1, <2>2, <2>3, <2>4 DEF FirstSend
<1>6. StoppedExitEndsItsOwn'
  BY <1>i, <1>u, <1>e, Numbers, FrameShapes DEF StoppedExitEndsItsOwn, OneRecord, StopStates,
                                                Undisturbed, RecordsIn
<1>7. StopHitsItsOwn'
  BY <1>i, <1>u, <1>e, <1>k DEF StopHitsItsOwn, AnsweredStops
<1> QED
  BY <1>i, <1>t, <1>u, <1>1, <1>2, <1>3, <1>4, <1>5, <1>6, <1>7, StopStatesFrame
     DEF RelaunchInv, RelaunchOrder

(* TakesStop: it waits for the run it is for, or is answered.              *)
LEMMA TakesStopStep ==
    ASSUME RelaunchInv, TakesStop
    PROVE  RelaunchInv'
<1>i. /\ RelaunchTypeOK /\ OneRun /\ FramesInOrder /\ AnsweredStops /\ StopStates
      /\ OneRecord /\ FirstSend /\ StoppedExitEndsItsOwn /\ StopHitsItsOwn
  BY DEF RelaunchInv, RelaunchOrder
<1>u. UNCHANGED <<running, exiting, exitLog, up, sink, launched, stopQueued,
                  stopsUsed, looking, exit, resender, launcher, ingested,
                  delivered, binds, sends, stopFor, ownEnd, misled, confirmed,
                  gaveUp>>
  BY DEF TakesStop, nodeSide, wires, runHist
<1>p. frames # <<>> /\ frames' = Tail(frames) /\ Head(frames).kind = "stop"
  BY DEF TakesStop
<1>q. frames[1].kind = "stop" /\ frames[1].id \in StopIds /\ Head(frames) = frames[1] /\ 1 \in FrameIds
  BY <1>i, <1>p, Taken, FrameShapes DEF StopAt
<1>n. launched \in RunIds /\ launched # 0 /\ ~(launched > launched)
  BY <1>i, Numbers DEF RelaunchTypeOK
<1>r. \/ /\ running = launched /\ told' = TRUE /\ hit' = hit /\ acks' = acks /\ stopFor[frames[1].id] = launched
         /\ waits' = waits \cup {[stop |-> frames[1].id, run |-> launched, outcome |-> "stopped"]}
      \/ /\ running = 0 /\ told' = told /\ hit' = hit /\ acks' = acks /\ exiting = {launched}
         /\ waits' = waits \cup {[stop |-> frames[1].id, run |-> launched, outcome |-> "not-running"]}
      \/ /\ running = 0 /\ told' = told /\ hit' = hit /\ waits' = waits /\ exiting = {}
         /\ acks' = acks \cup {[stop |-> frames[1].id, outcome |-> "not-running"]}
  <2>1. running # 0 => running = launched /\ stopFor[frames[1].id] = launched
    BY <1>i, <1>q DEF OneRun, FramesInOrder, StopAt
  <2>2. \A run \in exiting : run = launched
    BY <1>i DEF OneRun
  <2> QED
    BY <1>n, <1>q, <2>1, <2>2 DEF TakesStop, Wait
<1>t1. frames' \in Seq(LinkFrames)
  BY <1>i, <1>p, Taken
<1>t2. told' \in BOOLEAN
  BY <1>i, <1>r, Zenon DEF RelaunchTypeOK
<1>t3. waits' \subseteq StopWaits
  <2>1. \A x \in Outcomes : [stop |-> frames[1].id, run |-> launched, outcome |-> x] \in StopWaits
    BY <1>n, <1>q DEF StopWaits
  <2>2. "stopped" \in Outcomes /\ "not-running" \in Outcomes
    BY DEF Outcomes
  <2> QED
    BY <1>i, <1>r, <2>1, <2>2 DEF RelaunchTypeOK
<1>t4. hit' \subseteq RunIds
  BY <1>i, <1>r DEF RelaunchTypeOK
<1>t5. acks' \subseteq StopAnswers
  <2>1. [stop |-> frames[1].id, outcome |-> "not-running"] \in StopAnswers
    BY <1>q DEF StopAnswers, Outcomes
  <2> QED
    BY <1>i, <1>r, <2>1 DEF RelaunchTypeOK
<1>t. RelaunchTypeOK'
  BY <1>i, <1>u, <1>t1, <1>t2, <1>t3, <1>t4, <1>t5 DEF RelaunchTypeOK
<1>e. /\ frames[1].kind = "stop" /\ hit' = hit
      /\ 1 \in FrameIds
      /\ \A i \in FrameIds' : i \in Nat /\ i >= 1 /\ i + 1 \in FrameIds /\ frames'[i] = frames[i + 1]
      /\ waits \subseteq waits' /\ acks \subseteq acks'
      /\ \/ /\ running = launched /\ told' /\ acks' = acks /\ stopFor[frames[1].id] = launched
            /\ \A w \in waits' : w \in waits \/ (w.stop = frames[1].id /\ w.run = launched /\ w.outcome = "stopped")
         \/ /\ running = 0 /\ told' = told /\ acks' = acks /\ exiting = {launched}
            /\ \A w \in waits' : w \in waits \/ (w.stop = frames[1].id /\ w.run = launched)
         \/ /\ running = 0 /\ told' = told /\ waits' = waits /\ exiting = {}
            /\ \A a \in acks' : a \in acks \/ a.stop = frames[1].id
  <2>1. /\ \A i \in FrameIds' : i \in Nat /\ i >= 1 /\ i + 1 \in FrameIds /\ frames'[i] = frames[i + 1]
        /\ 1 \in FrameIds
    BY <1>i, <1>p, Taken
  <2> QED
    BY <1>q, <1>r, <2>1
<1>g. /\ StopAt(1) /\ ~LaunchAt(1) /\ frames[1].id \in StopIds /\ frames[1].id <= stopsUsed
      /\ \A i \in FrameIds' : i + 1 # 1 /\ (StopAt(i)' <=> StopAt(i + 1)) /\ (LaunchAt(i)' <=> LaunchAt(i + 1))
  BY <1>i, <1>e, FrameShapes DEF FramesInOrder, StopAt, LaunchAt
<1>h. Coming' => Coming
  BY <1>e, <1>g, <1>u DEF Coming
<1>j. Gone => Gone'
  BY <1>h, <1>u DEF Gone
<1>k. stopFor[frames[1].id] = launched => sink = 0 /\ frames[1].id = stopsUsed /\ ~Coming
  <2>1. stopFor[frames[1].id] = launched => sink = 0 /\ frames[1].id = stopsUsed
    BY <1>i, <1>g DEF OneRun
  <2>2. sink = 0 => launcher # "sending"
    BY <1>i, Numbers DEF OneRun
  <2>3. \A i \in FrameIds : LaunchAt(i) => stopFor[frames[1].id] # launched
    BY <1>i, <1>e, <1>g, FrameShapes DEF FramesInOrder
  <2> QED
    BY <2>1, <2>2, <2>3 DEF Coming
<1>1. OneRun'
  BY <1>i, <1>u, <1>e, <1>j, <1>k, Numbers DEF OneRun
<1>2. FramesInOrder'
  <2>1. \A i \in FrameIds' : LaunchAt(i)' => frames'[i].id = launched'
    BY <1>i, <1>u, <1>e, <1>g DEF FramesInOrder
  <2>2. \A i \in FrameIds' : StopAt(i)' => frames'[i].id <= stopsUsed'
    BY <1>i, <1>u, <1>e, <1>g DEF FramesInOrder
  <2>3. \A i, j \in FrameIds' : LaunchAt(i)' /\ LaunchAt(j)' => i = j
    BY <1>i, <1>u, <1>e, <1>g DEF FramesInOrder
  <2>4. \A i, j \in FrameIds' : LaunchAt(i)' /\ StopAt(j)' => (i < j <=> stopFor'[frames'[j].id] = launched')
    BY <1>i, <1>u, <1>e, <1>g DEF FramesInOrder
  <2>5. running' # 0 => \A i \in FrameIds' : StopAt(i)' /\ stopFor'[frames'[i].id] = launched'
    BY <1>i, <1>u, <1>e, <1>g DEF FramesInOrder
  <2>6. launcher' = "sending" => running' = 0 /\ \A i \in FrameIds' : StopAt(i)'
    BY <1>i, <1>u, <1>e, <1>g DEF FramesInOrder
  <2> QED
    BY <2>1, <2>2, <2>3, <2>4, <2>5, <2>6 DEF FramesInOrder
<1>3. AnsweredStops'
  <2>1. \A w \in waits' : w.stop <= stopsUsed' /\ (stopFor'[w.stop] = launched' => w.run = launched' /\ ~Coming')
    BY <1>i, <1>u, <1>e, <1>g, <1>h, <1>k DEF AnsweredStops
  <2>2. \A a \in acks' : a.stop <= stopsUsed' /\ (stopFor'[a.stop] = launched' => Gone')
    BY <1>i, <1>u, <1>e, <1>g, <1>j, <1>k DEF AnsweredStops, Gone
  <2>3. \A s \in confirmed' : s <= stopsUsed' /\ (stopFor'[s] = launched' => Gone')
    BY <1>i, <1>u, <1>j DEF AnsweredStops
  <2> QED
    BY <2>1, <2>2, <2>3 DEF AnsweredStops
<1>4. OneRecord'
  BY <1>i, <1>u, <1>e, Numbers, FrameShapes DEF OneRecord, Undisturbed, RecordsIn, Coming, LaunchAt,
                                                OneRun, StopStates, FramesInOrder, FirstSend, StopAt
<1>5. FirstSend'
  <2> SUFFICES ASSUME Undisturbed' PROVE FirstSend'
    BY DEF FirstSend
  <2>1. Undisturbed /\ (RecordsIn' <=> RecordsIn)
    BY <1>u DEF Undisturbed, RecordsIn
  <2>2. NoFrames(stopQueued) => NoFrames(stopQueued)' /\ frames[1].id # stopQueued
    BY <1>u, <1>e, <1>g DEF NoFrames
  <2>3. stopQueued # 0 => stopQueued = stopsUsed
    BY <1>i, Numbers DEF OneRun
  <2>4. CASE stopQueued # 0 /\ frames[1].id # stopQueued
    <3>1. told' = told /\ stopFor[frames[1].id] # launched
      BY <1>e, <1>k, <2>3, <2>4
    <3>2. (NoWaits(stopQueued) => NoWaits(stopQueued)') /\ (NoAnswers(stopQueued) => NoAnswers(stopQueued)')
      BY <1>u, <1>e, <2>4 DEF NoWaits, NoAnswers
    <3>3. (\A w \in waits' : w.stop = stopQueued => w \in waits) /\ (\A a \in acks' : a.stop = stopQueued => a \in acks)
      BY <1>e, <2>4
    <3>4. exit' = "sent" /\ resender'.stage = "sent" /\ ~resender'.resent =>
            \A i, j \in FrameIds' : StopAt(i)' /\ StopAt(j)' /\ frames'[i].id = stopQueued'
                                        /\ frames'[j].id = stopQueued' => i = j
      BY <1>i, <1>u, <1>e, <1>g, <2>1 DEF FirstSend
    <3> QED
      BY <1>i, <1>u, <2>1, <2>2, <3>1, <3>2, <3>3, <3>4 DEF FirstSend
  <2>5. CASE stopQueued # 0 /\ frames[1].id = stopQueued
    <3>1. ~NoFrames(stopQueued)
      BY <1>e, <1>g, <2>5 DEF NoFrames
    <3>2. exit # "pending"
      BY <1>i, <2>1, <3>1 DEF FirstSend
    <3> SUFFICES ASSUME exit = "sent", resender.stage = "sent", ~resender.resent PROVE FirstSend'
      BY <1>u, <3>2 DEF FirstSend
    <3>3. RecordsIn /\ ~told /\ NoWaits(stopQueued) /\ NoAnswers(stopQueued)
      BY <1>i, <2>1, <3>1 DEF FirstSend
    <3>4. NoFrames(stopQueued)'
      BY <1>i, <1>u, <1>e, <1>g, <2>1, <2>5 DEF FirstSend, NoFrames
    <3>5. \A w \in waits' : w.stop = stopQueued => w.outcome = "stopped"
      BY <1>e, <3>3, Numbers, <1>i DEF NoWaits, RecordsIn
    <3> QED
      BY <1>u, <2>1, <3>2, <3>3, <3>4, <3>5 DEF FirstSend, NoFrames
  <2>6. CASE stopQueued = 0
    <3>1. exit \notin {"pending", "sent"}
      BY <1>i, <2>6 DEF StopStates
    <3> QED
      BY <1>u, <3>1 DEF FirstSend
  <2> QED
    BY <2>4, <2>5, <2>6
<1>6. StopHitsItsOwn'
  BY <1>i, <1>u, <1>e, Numbers, FrameShapes DEF StopHitsItsOwn, OneRun, AnsweredStops, Gone, Coming
<1> QED
  BY <1>i, <1>t, <1>u, <1>1, <1>2, <1>3, <1>4, <1>5, <1>6, StopStatesFrame,
     StoppedExitEndsItsOwnFrame DEF RelaunchInv, RelaunchOrder

(* ProcessEnds: told, or on its own.                                       *)
LEMMA ProcessEndsStep ==
    ASSUME RelaunchInv, ProcessEnds
    PROVE  RelaunchInv'
<1>i. /\ RelaunchTypeOK /\ OneRun /\ FramesInOrder /\ AnsweredStops /\ StopStates
      /\ OneRecord /\ FirstSend /\ StoppedExitEndsItsOwn /\ StopHitsItsOwn
  BY DEF RelaunchInv, RelaunchOrder
<1>u. UNCHANGED <<exitLog, waits, up, frames, acks, sink, launched,
                  stopQueued, stopsUsed, looking, exit, resender, launcher,
                  ingested, delivered, binds, sends, stopFor, misled, hit,
                  confirmed, gaveUp>>
  BY DEF ProcessEnds, nodeSide, wires, runHist
<1>p. running # 0 /\ running = launched /\ launched \in RunIds
  BY <1>i DEF ProcessEnds, OneRun, RelaunchTypeOK
<1>t1. running' \in 0..MaxRuns
  BY RelaunchAssumption DEF ProcessEnds
<1>t2. told' \in BOOLEAN
  BY Zenon DEF ProcessEnds
<1>t3. exiting' \subseteq RunIds
  BY <1>i, <1>p DEF ProcessEnds, RelaunchTypeOK
<1>t4. ownEnd' \subseteq RunIds
  BY <1>i, <1>p DEF ProcessEnds, RelaunchTypeOK
<1>t. RelaunchTypeOK'
  BY <1>i, <1>u, <1>t1, <1>t2, <1>t3, <1>t4 DEF RelaunchTypeOK
<1>e. /\ running # 0 /\ running = launched /\ running' = 0 /\ told' = FALSE /\ exiting' = exiting \cup {launched}
      /\ (told /\ ownEnd' = ownEnd) \/ (~told /\ ownEnd' # {})
  BY <1>p DEF ProcessEnds
<1>f. FrameIds' = FrameIds
  BY <1>u DEF FrameIds
<1>g. ~Coming /\ ~Gone
  BY <1>i, <1>e, FrameShapes DEF Coming, Gone, FramesInOrder
<1>h. Undisturbed' => /\ Undisturbed /\ told /\ RecordsIn
                      /\ exit \notin {"none", "pending", "seen"}
  BY <1>i, <1>u, <1>e, <1>g DEF Undisturbed, OneRun, StopStates, OneRecord, FirstSend, ExitStates
<1>k. ~Coming'
  BY <1>u, <1>f, <1>g DEF Coming, LaunchAt
<1>1. OneRun'
  BY <1>i, <1>u, <1>e, Numbers, FrameShapes, <1>f DEF OneRun, Gone, Coming, LaunchAt, AnsweredStops
<1>2. FramesInOrder'
  BY <1>i, <1>u, <1>e, Numbers, FrameShapes, <1>f DEF FramesInOrder, LaunchAt, StopAt, OneRun
<1>3. AnsweredStops'
  BY <1>i, <1>u, <1>e, Numbers, FrameShapes, <1>f DEF AnsweredStops, Gone, Coming, LaunchAt, OneRun,
                                                      FramesInOrder, StopAt
<1>4. OneRecord'
  BY <1>i, <1>u, <1>e, <1>h, <1>k, Numbers DEF OneRecord, RecordsIn
<1>5. FirstSend'
  BY <1>i, <1>u, <1>e, Numbers, FrameShapes, <1>f DEF FirstSend, Undisturbed, RecordsIn, NoFrames,
                                                      NoWaits, NoAnswers, StopAt, OneRun, StopStates,
                                                      FramesInOrder, AnsweredStops, OneRecord, Gone,
                                                      Coming, LaunchAt
<1>6. StoppedExitEndsItsOwn'
  BY <1>i, <1>u, <1>e, Numbers, FrameShapes DEF StoppedExitEndsItsOwn, OneRecord, StopStates,
                                                Undisturbed, RecordsIn
<1>7. StopHitsItsOwn'
  BY <1>i, <1>u, <1>e, Numbers, FrameShapes DEF StopHitsItsOwn, OneRun, AnsweredStops, Gone, Coming
<1> QED
  BY <1>i, <1>t, <1>u, <1>1, <1>2, <1>3, <1>4, <1>5, <1>6, <1>7, StopStatesFrame
     DEF RelaunchInv, RelaunchOrder

(* ExitJournaled: the record is written.                                   *)
LEMMA ExitJournaledStep ==
    ASSUME RelaunchInv, NEW r \in exiting, ExitJournaled(r)
    PROVE  RelaunchInv'
<1>i. /\ RelaunchTypeOK /\ OneRun /\ FramesInOrder /\ AnsweredStops /\ StopStates
      /\ OneRecord /\ FirstSend /\ StoppedExitEndsItsOwn /\ StopHitsItsOwn
  BY DEF RelaunchInv, RelaunchOrder
<1>u. UNCHANGED <<running, told, waits, up, frames, acks, sink, launched,
                  stopQueued, stopsUsed, looking, exit, resender, launcher,
                  ingested, delivered, binds, sends, stopFor, ownEnd, misled,
                  hit, confirmed, gaveUp>>
  BY DEF ExitJournaled, nodeSide, wires, runHist
<1>p. r \in RunIds /\ exiting = {r} /\ r = launched
  BY <1>i DEF OneRun, RelaunchTypeOK
<1>t1. exiting' \subseteq RunIds
  BY <1>i DEF ExitJournaled, RelaunchTypeOK
<1>t2. exitLog' \in Seq(RunIds)
  BY <1>i, <1>p DEF ExitJournaled, RelaunchTypeOK
<1>t. RelaunchTypeOK'
  BY <1>i, <1>u, <1>t1, <1>t2 DEF RelaunchTypeOK
<1>e. /\ exiting = {launched} /\ exiting' = {} /\ Len(exitLog') = Len(exitLog) + 1
  BY <1>i, <1>p DEF ExitJournaled, RelaunchTypeOK
<1>f. FrameIds' = FrameIds
  BY <1>u DEF FrameIds
<1>1. OneRun'
  BY <1>i, <1>u, <1>e, Numbers, FrameShapes, <1>f DEF OneRun, Gone, Coming, LaunchAt, AnsweredStops
<1>2. AnsweredStops'
  BY <1>i, <1>u, <1>e, Numbers, FrameShapes, <1>f DEF AnsweredStops, Gone, Coming, LaunchAt, OneRun,
                                                      FramesInOrder, StopAt
<1>3. OneRecord'
  BY <1>i, <1>u, <1>e, Numbers, FrameShapes, <1>f DEF OneRecord, Undisturbed, RecordsIn, Coming,
                                                      LaunchAt, OneRun, StopStates, FramesInOrder,
                                                      FirstSend, StopAt
<1>4. FirstSend'
  BY <1>i, <1>u, <1>e, Numbers, FrameShapes, <1>f DEF FirstSend, Undisturbed, RecordsIn, NoFrames,
                                                      NoWaits, NoAnswers, StopAt, OneRun, StopStates,
                                                      FramesInOrder, AnsweredStops, OneRecord, Gone,
                                                      Coming, LaunchAt
<1>5. StopHitsItsOwn'
  BY <1>i, <1>u, <1>e, Numbers, FrameShapes DEF StopHitsItsOwn, OneRun, AnsweredStops, Gone, Coming
<1> QED
  BY <1>i, <1>t, <1>u, <1>1, <1>2, <1>3, <1>4, <1>5, FramesInOrderFrame, StopStatesFrame,
     StoppedExitEndsItsOwnFrame DEF RelaunchInv, RelaunchOrder

(* ExitLost: nobody is told.                                               *)
LEMMA ExitLostStep ==
    ASSUME RelaunchInv, NEW r \in exiting, ExitLost(r)
    PROVE  RelaunchInv'
<1>i. /\ RelaunchTypeOK /\ OneRun /\ FramesInOrder /\ AnsweredStops /\ StopStates
      /\ OneRecord /\ FirstSend /\ StoppedExitEndsItsOwn /\ StopHitsItsOwn
  BY DEF RelaunchInv, RelaunchOrder
<1>u. UNCHANGED <<running, told, exitLog, up, frames, acks, sink, launched,
                  stopQueued, stopsUsed, looking, exit, resender, launcher,
                  ingested, delivered, binds, sends, stopFor, ownEnd, misled,
                  hit, confirmed, gaveUp>>
  BY DEF ExitLost, nodeSide, wires, runHist
<1>p. r \in RunIds /\ exiting = {r}
  BY <1>i DEF OneRun, RelaunchTypeOK
<1>t1. exiting' \subseteq RunIds
  BY <1>i DEF ExitLost, RelaunchTypeOK
<1>t2. waits' \subseteq StopWaits
  BY <1>i DEF ExitLost, RelaunchTypeOK
<1>t. RelaunchTypeOK'
  BY <1>i, <1>u, <1>t1, <1>t2 DEF RelaunchTypeOK
<1>e. /\ exiting' = {} /\ waits' \subseteq waits
  BY <1>p DEF ExitLost
<1>f. FrameIds' = FrameIds
  BY <1>u DEF FrameIds
<1>1. OneRun'
  BY <1>i, <1>u, <1>e, Numbers, FrameShapes, <1>f DEF OneRun, Gone, Coming, LaunchAt, AnsweredStops
<1>2. AnsweredStops'
  BY <1>i, <1>u, <1>e, Numbers, FrameShapes, <1>f DEF AnsweredStops, Gone, Coming, LaunchAt, OneRun,
                                                      FramesInOrder, StopAt
<1>3. OneRecord'
  BY <1>i, <1>u, <1>e, Numbers, FrameShapes, <1>f DEF OneRecord, Undisturbed, RecordsIn, Coming,
                                                      LaunchAt, OneRun, StopStates, FramesInOrder,
                                                      FirstSend, StopAt
<1>4. FirstSend'
  BY <1>i, <1>u, <1>e, Numbers, FrameShapes, <1>f DEF FirstSend, Undisturbed, RecordsIn, NoFrames,
                                                      NoWaits, NoAnswers, StopAt, OneRun, StopStates,
                                                      FramesInOrder, AnsweredStops, OneRecord, Gone,
                                                      Coming, LaunchAt
<1>5. StopHitsItsOwn'
  BY <1>i, <1>u, <1>e, Numbers, FrameShapes DEF StopHitsItsOwn, OneRun, AnsweredStops, Gone, Coming
<1> QED
  BY <1>i, <1>t, <1>u, <1>1, <1>2, <1>3, <1>4, <1>5, FramesInOrderFrame, StopStatesFrame,
     StoppedExitEndsItsOwnFrame DEF RelaunchInv, RelaunchOrder

(* StopAcknowledged: once the run it waits for is gone.                    *)
LEMMA StopAcknowledgedStep ==
    ASSUME RelaunchInv, NEW w \in waits, StopAcknowledged(w)
    PROVE  RelaunchInv'
<1>i. /\ RelaunchTypeOK /\ OneRun /\ FramesInOrder /\ AnsweredStops /\ StopStates
      /\ OneRecord /\ FirstSend /\ StoppedExitEndsItsOwn /\ StopHitsItsOwn
  BY DEF RelaunchInv, RelaunchOrder
<1>u. UNCHANGED <<running, told, exiting, exitLog, up, frames, sink, launched,
                  stopQueued, stopsUsed, looking, exit, resender, launcher,
                  ingested, delivered, binds, sends, stopFor, ownEnd, misled,
                  hit, confirmed, gaveUp>>
  BY DEF StopAcknowledged, nodeSide, wires, runHist
<1>p. w \in StopWaits
  BY <1>i DEF RelaunchTypeOK
<1>t1. waits' \subseteq StopWaits
  BY <1>i DEF StopAcknowledged, RelaunchTypeOK
<1>t2. acks' \subseteq StopAnswers
  BY <1>i, <1>p DEF StopAcknowledged, StopAnswers, StopWaits, RelaunchTypeOK
<1>t. RelaunchTypeOK'
  BY <1>i, <1>u, <1>t1, <1>t2 DEF RelaunchTypeOK
<1>e. /\ w.run # running /\ w.run \notin exiting /\ waits' = waits \ {w}
      /\ \A a \in acks' : a \in acks \/ (a.stop = w.stop /\ a.outcome = w.outcome)
  BY <1>p DEF StopAcknowledged
<1>f. FrameIds' = FrameIds
  BY <1>u DEF FrameIds
<1>1. AnsweredStops'
  BY <1>i, <1>u, <1>e, Numbers, FrameShapes, <1>f DEF AnsweredStops, Gone, Coming, LaunchAt, OneRun,
                                                      FramesInOrder, StopAt
<1>2. FirstSend'
  BY <1>i, <1>u, <1>e, Numbers, FrameShapes, <1>f DEF FirstSend, Undisturbed, RecordsIn, NoFrames,
                                                      NoWaits, NoAnswers, StopAt, OneRun, StopStates,
                                                      FramesInOrder, AnsweredStops, OneRecord, Gone,
                                                      Coming, LaunchAt
<1> QED
  BY <1>i, <1>t, <1>u, <1>1, <1>2, OneRunFrame, FramesInOrderFrame, StopStatesFrame,
     OneRecordFrame, StoppedExitEndsItsOwnFrame, StopHitsItsOwnFrame
     DEF RelaunchInv, RelaunchOrder

-----------------------------------------------------------------------------
(* The invariant holds at the start, ...                                   *)
LEMMA InitRelaunchInv == RelaunchInit => RelaunchInv
<1> SUFFICES ASSUME RelaunchInit PROVE RelaunchInv
  OBVIOUS
<1>a. /\ 1 \in RunIds /\ 0 \in 0..MaxRuns /\ 1 \in 0..MaxRuns /\ 0 \in 0..MaxStopIds
      /\ 0 \in 0..MaxBinds /\ 0 \in 0..MaxSends
  BY RelaunchAssumption DEF RunIds
<1>b. told \in BOOLEAN /\ up \in BOOLEAN /\ gaveUp \in BOOLEAN
  BY Zenon DEF RelaunchInit
<1>c. resender \in Resenders /\ resender.stage = "idle" /\ stopFor \in [StopIds -> 0..MaxRuns]
  BY <1>a DEF RelaunchInit, Resting, Resenders
<1>d. frames \in Seq(LinkFrames) /\ exitLog \in Seq(RunIds) /\ Len(exitLog) = 0 /\ FrameIds = {}
  BY DEF RelaunchInit, FrameIds
<1>1. RelaunchTypeOK
  BY <1>a, <1>b, <1>c, <1>d DEF RelaunchTypeOK, RelaunchInit, ExitStates
<1>e. /\ running = 1 /\ ~told /\ exiting = {} /\ waits = {} /\ acks = {} /\ sink = 1 /\ launched = 1
      /\ stopQueued = 0 /\ stopsUsed = 0 /\ exit = "none" /\ launcher = "idle" /\ ingested = 0
      /\ delivered = 0 /\ misled = {} /\ hit = {} /\ confirmed = {}
      /\ \A s \in StopIds : ~(s <= 0)
  BY DEF RelaunchInit, StopIds
<1>2. OneRun /\ FramesInOrder /\ AnsweredStops /\ StopStates
  BY <1>c, <1>d, <1>e DEF OneRun, FramesInOrder, AnsweredStops, StopStates
<1>3. OneRecord /\ FirstSend
  BY <1>c, <1>d, <1>e DEF OneRecord, FirstSend, RecordsIn, NoFrames, NoWaits, NoAnswers
<1>4. StoppedExitEndsItsOwn /\ StopHitsItsOwn
  BY <1>e DEF StoppedExitEndsItsOwn, StopHitsItsOwn
<1> QED
  BY <1>1, <1>2, <1>3, <1>4 DEF RelaunchInv, RelaunchOrder

(* ... and every step keeps it.                                            *)
LEMMA RelaunchInvNext == RelaunchInv /\ [RelaunchNext]_relaunchVars => RelaunchInv'
<1> SUFFICES ASSUME RelaunchInv, [RelaunchNext]_relaunchVars PROVE RelaunchInv'
  OBVIOUS
<1>1. CASE BeginStop \/ StopLooks \/ SendStop \/ StopTimesOut
  BY <1>1, BeginStopStep, StopLooksStep, SendStopStep, StopTimesOutStep
<1>2. ASSUME NEW a \in acks, Ack(a) PROVE RelaunchInv'
  BY <1>2, AckStep
<1>3. CASE LaunchBegins \/ StopAwaited \/ ExitAwaited \/ ExitGivenUp \/ SendLaunch
  BY <1>3, LaunchBeginsStep, StopAwaitedStep, ExitAwaitedStep, ExitGivenUpStep, SendLaunchStep
<1>4. CASE LinkDown \/ LinkBound \/ DeliverExit \/ ExitIngested
  BY <1>4, LinkDownStep, LinkBoundStep, DeliverExitStep, ExitIngestedStep
<1>5. CASE TakesLaunch \/ TakesStop \/ ProcessEnds
  BY <1>5, TakesLaunchStep, TakesStopStep, ProcessEndsStep
<1>6. ASSUME NEW r \in exiting, ExitJournaled(r) \/ ExitLost(r) PROVE RelaunchInv'
  BY <1>6, ExitJournaledStep, ExitLostStep
<1>7. ASSUME NEW w \in waits, StopAcknowledged(w) PROVE RelaunchInv'
  BY <1>7, StopAcknowledgedStep
<1>8. CASE UNCHANGED relaunchVars
  <2>1. UNCHANGED <<running, told, exiting, exitLog, waits, up, frames, acks,
                    sink, launched, stopQueued, stopsUsed, looking, exit,
                    resender, launcher, ingested, delivered, binds, sends,
                    stopFor, ownEnd, misled, hit, confirmed, gaveUp>>
    BY <1>8 DEF relaunchVars, nodeSide, wires, runHist
  <2>2. RelaunchTypeOK'
    BY <2>1 DEF RelaunchInv, RelaunchTypeOK
  <2> QED
    BY <2>1, <2>2, OneRunFrame, FramesInOrderFrame, AnsweredStopsFrame, StopStatesFrame,
       OneRecordFrame, FirstSendFrame, StoppedExitEndsItsOwnFrame, StopHitsItsOwnFrame
       DEF RelaunchInv, RelaunchOrder
<1> QED
  BY <1>1, <1>2, <1>3, <1>4, <1>5, <1>6, <1>7, <1>8 DEF RelaunchNext

(* One run at a time, one exit record each: the inductive invariant, for   *)
(* any number of launches, stops, links and resent frames.                 *)
THEOREM RelaunchInvariant == RelaunchSpec => []RelaunchInv
<1>1. RelaunchInit => RelaunchInv
  BY InitRelaunchInv
<1>2. RelaunchInv /\ [RelaunchNext]_relaunchVars => RelaunchInv'
  BY RelaunchInvNext
<1> QED
  BY <1>1, <1>2, PTL DEF RelaunchSpec

(* A stopped process's exit record never ends the runtime of a later run,  *)
(* as long as runs end by their stops and no launch gives up waiting for   *)
(* the record: what the wait before Agents::attach is for.                 *)
THEOREM ExitsEndTheirOwn == RelaunchSpec => []StoppedExitEndsItsOwn
<1>1. RelaunchInv => StoppedExitEndsItsOwn
  BY DEF RelaunchInv, RelaunchOrder
<1> QED
  BY <1>1, RelaunchInvariant, PTL

(* A resent stop never stops a newer process, and the process of a stop    *)
(* that was acknowledged neither runs nor has an exit record to write.     *)
THEOREM StopsHitTheirOwn == RelaunchSpec => []StopHitsItsOwn
<1>1. RelaunchInv => StopHitsItsOwn
  BY DEF RelaunchInv, RelaunchOrder
<1> QED
  BY <1>1, RelaunchInvariant, PTL

-----------------------------------------------------------------------------
(***************************************************************************)
(* A script's run.                                                         *)
(***************************************************************************)
(* Shapes that the steps below use: the backend, ...                       *)
LEMMA EntryFields ==
    ASSUME ScriptTypeOK
    PROVE  /\ entry.here \in BOOLEAN /\ entry.service \in BOOLEAN /\ entry.stopping \in BOOLEAN
           /\ entry.spawn \in 0..Phantom /\ entry.spawn \in Nat /\ entry.fast \in Nat
           /\ entry.link \in 0..MaxLinks /\ entry.link \in Nat
           /\ entry.status \in {"idle", "starting", "running", "restarting", "exited"}
  BY ScriptRunsAssumption DEF ScriptTypeOK, Entries, Phantom

(* ... the stop, the end of a final stop and the link, ...                 *)
LEMMA ServingFields ==
    ASSUME ScriptTypeOK
    PROVE  /\ serving.stage \in {"down", "up", "closed", "losing"}
           /\ serving.link \in 0..MaxLinks /\ serving.link \in Nat
           /\ serving.spawn \in 0..Phantom /\ serving.spawn \in Nat
           /\ stopper.stage \in {"idle", "between", "waiting"}
           /\ stopper.spawn \in 0..Phantom /\ stopper.spawn \in Nat
           /\ over.stage \in {"none", "drained", "losing", "dropping", "leaving", "done"}
           /\ over.spawn \in 0..Phantom /\ over.spawn \in Nat
           /\ taken \in 0..Phantom /\ taken \in Nat
           /\ starter \in 0..MaxLinks /\ starter \in Nat
           /\ spawned \in Nat /\ spawned <= MaxSpawns /\ Phantom \in Nat /\ spawned < Phantom
           /\ MaxLinks \in Nat /\ MaxSpawns \in Nat /\ Phantom = MaxSpawns + 1
  BY ScriptRunsAssumption DEF ScriptTypeOK, Servings, Stoppers, Overs, Phantom

(* ... frames that tasks hold, ...                                         *)
LEMMA OrderFields ==
    ASSUME ScriptTypeOK, NEW o \in orders
    PROVE  /\ o \in Orders /\ o.kind \in {"start", "stop"} /\ o.spawn \in 1..Phantom /\ o.spawn \in Nat
           /\ o.spawn # 0 /\ o.link \in Links /\ o.link \in Nat /\ o.link # 0
           /\ o = Order(o.kind, o.spawn, o.link)
  BY ScriptRunsAssumption DEF ScriptTypeOK, Orders, Links, Order, Phantom

(* ... an order, ...                                                       *)
LEMMA OrderIs ==
    ASSUME NEW kind \in {"start", "stop"}, NEW x \in 1..Phantom, NEW l \in Links
    PROVE  /\ Order(kind, x, l) \in Orders
           /\ Order(kind, x, l).kind = kind /\ Order(kind, x, l).spawn = x
           /\ Order(kind, x, l).link = l
  BY DEF Order, Orders

(* ... processes, ...                                                      *)
LEMMA ProcessFields ==
    ASSUME ScriptTypeOK, NEW p \in procs
    PROVE  /\ p \in Processes /\ p.spawn \in Spawns /\ p.spawn \in Nat /\ p.spawn # 0
           /\ p.spawn # Phantom /\ p.spawn \in 1..Phantom
           /\ p.link \in Links /\ p.link \in Nat /\ p.link # 0
           /\ p.killed \in BOOLEAN
  BY ScriptRunsAssumption DEF ScriptTypeOK, Processes, Spawns, Links, Phantom

(* ... the lanes to the machine ...                                        *)
LEMMA LaneFields ==
    ASSUME ScriptTypeOK, NEW l \in Links
    PROVE  /\ toMachine[l] \in Seq(Frames) /\ Len(toMachine[l]) \in Nat
           /\ \A i \in LaneIds(l) : /\ i \in Nat /\ i >= 1 /\ i <= Len(toMachine[l])
                                    /\ toMachine[l][i] \in Frames
                                    /\ toMachine[l][i].kind \in {"start", "stop"}
                                    /\ toMachine[l][i].spawn \in 1..Phantom
                                    /\ toMachine[l][i].spawn # 0 /\ toMachine[l][i].spawn \in Nat
<1>1. toMachine[l] \in Seq(Frames)
  BY DEF ScriptTypeOK
<1>2. \A i \in LaneIds(l) : i \in Nat /\ i >= 1 /\ i <= Len(toMachine[l]) /\ toMachine[l][i] \in Frames
  BY <1>1 DEF LaneIds
<1>3. \A f \in Frames : f.kind \in {"start", "stop"} /\ f.spawn \in 1..Phantom /\ f.spawn # 0 /\ f.spawn \in Nat
  BY ScriptRunsAssumption DEF Frames, Phantom
<1> QED
  BY <1>1, <1>2, <1>3

(* ... and to the backend.                                                 *)
LEMMA ReportFields ==
    ASSUME ScriptTypeOK, NEW l \in Links
    PROVE  /\ toBackend[l] \in Seq(Reports) /\ Len(toBackend[l]) \in Nat
           /\ \A i \in 1..Len(toBackend[l]) :
                /\ i \in Nat /\ i >= 1 /\ i <= Len(toBackend[l])
                /\ toBackend[l][i] \in Reports
                /\ toBackend[l][i].kind \in {"started", "exited"}
                /\ toBackend[l][i].spawn \in 1..Phantom
                /\ toBackend[l][i].spawn # 0 /\ toBackend[l][i].spawn \in Nat
<1>1. toBackend[l] \in Seq(Reports)
  BY DEF ScriptTypeOK
<1>2. \A i \in 1..Len(toBackend[l]) : i \in Nat /\ i >= 1 /\ i <= Len(toBackend[l]) /\ toBackend[l][i] \in Reports
  BY <1>1
<1>3. \A f \in Reports : f.kind \in {"started", "exited"} /\ f.spawn \in 1..Phantom /\ f.spawn # 0 /\ f.spawn \in Nat
  BY ScriptRunsAssumption DEF Reports, Phantom
<1> QED
  BY <1>1, <1>2, <1>3

-----------------------------------------------------------------------------
(* Lanes.  A frame goes to the end of one, ...                             *)
LEMMA LaneAppend ==
    ASSUME NEW S, NEW s \in Seq(S), NEW f \in S
    PROVE  /\ Append(s, f) \in Seq(S) /\ Len(Append(s, f)) = Len(s) + 1 /\ Len(s) \in Nat
           /\ \A i \in 1..Len(s) : i \in 1..Len(Append(s, f)) /\ Append(s, f)[i] = s[i] /\ i < Len(s) + 1
           /\ Append(s, f)[Len(s) + 1] = f /\ Len(s) + 1 \in 1..Len(Append(s, f))
           /\ \A i \in 1..Len(Append(s, f)) : i \in 1..Len(s) \/ i = Len(s) + 1
           /\ \A kind, x : InLane(Append(s, f), kind, x)
                             <=> InLane(s, kind, x) \/ (f.kind = kind /\ f.spawn = x)
<1>1. /\ Append(s, f) \in Seq(S) /\ Len(Append(s, f)) = Len(s) + 1 /\ Len(s) \in Nat
      /\ \A i \in 1..Len(s) : i \in 1..Len(Append(s, f)) /\ Append(s, f)[i] = s[i] /\ i < Len(s) + 1
      /\ Append(s, f)[Len(s) + 1] = f /\ Len(s) + 1 \in 1..Len(Append(s, f))
      /\ \A i \in 1..Len(Append(s, f)) : i \in 1..Len(s) \/ i = Len(s) + 1
  OBVIOUS
<1>2. \A kind, x : InLane(Append(s, f), kind, x)
                     <=> InLane(s, kind, x) \/ (f.kind = kind /\ f.spawn = x)
  BY <1>1, Zenon DEF InLane
<1> QED
  BY <1>1, <1>2

(* ... and is taken from its start.                                        *)
LEMMA LaneTail ==
    ASSUME NEW S, NEW s \in Seq(S), s # <<>>
    PROVE  /\ Tail(s) \in Seq(S) /\ Head(s) = s[1] /\ 1 \in 1..Len(s) /\ Head(s) \in S
           /\ \A i \in 1..Len(Tail(s)) : /\ i \in Nat /\ i >= 1 /\ i + 1 \in 1..Len(s)
                                         /\ Tail(s)[i] = s[i + 1]
           /\ \A i \in 1..Len(s) : i = 1 \/ (i \in Nat /\ i - 1 \in 1..Len(Tail(s)) /\ Tail(s)[i - 1] = s[i])
           /\ \A kind, x : InLane(Tail(s), kind, x) => InLane(s, kind, x)
           /\ \A kind, x : InLane(s, kind, x) => \/ InLane(Tail(s), kind, x)
                                                 \/ Head(s).kind = kind /\ Head(s).spawn = x
           /\ InLane(s, Head(s).kind, Head(s).spawn)
<1>1. /\ Tail(s) \in Seq(S) /\ Head(s) = s[1] /\ 1 \in 1..Len(s) /\ Head(s) \in S
      /\ \A i \in 1..Len(Tail(s)) : /\ i \in Nat /\ i >= 1 /\ i + 1 \in 1..Len(s)
                                    /\ Tail(s)[i] = s[i + 1]
      /\ \A i \in 1..Len(s) : i = 1 \/ (i \in Nat /\ i - 1 \in 1..Len(Tail(s)) /\ Tail(s)[i - 1] = s[i])
  OBVIOUS
<1>2. ASSUME NEW kind, NEW x, InLane(Tail(s), kind, x) PROVE InLane(s, kind, x)
  <2>1. PICK i \in 1..Len(Tail(s)) : Tail(s)[i].kind = kind /\ Tail(s)[i].spawn = x
    BY <1>2, Zenon DEF InLane
  <2>2. i + 1 \in 1..Len(s) /\ s[i + 1].kind = kind /\ s[i + 1].spawn = x
    BY <1>1, <2>1, Zenon
  <2> QED
    BY <2>2, Zenon DEF InLane
<1>3. ASSUME NEW kind, NEW x, InLane(s, kind, x)
      PROVE  InLane(Tail(s), kind, x) \/ (Head(s).kind = kind /\ Head(s).spawn = x)
  <2>1. PICK i \in 1..Len(s) : s[i].kind = kind /\ s[i].spawn = x
    BY <1>3, Zenon DEF InLane
  <2>2. CASE i = 1
    BY <1>1, <2>1, <2>2, Zenon
  <2>3. CASE i - 1 \in 1..Len(Tail(s)) /\ Tail(s)[i - 1] = s[i]
    BY <2>1, <2>3, Zenon DEF InLane
  <2> QED
    BY <1>1, <2>2, <2>3, Zenon
<1>4. InLane(s, Head(s).kind, Head(s).spawn)
  BY <1>1, Zenon DEF InLane
<1> QED
  BY <1>1, <1>2, <1>3, <1>4

(* An empty lane holds no frame.                                           *)
LEMMA LaneEmpty ==
    ASSUME NEW kind, NEW x
    PROVE  ~InLane(<<>>, kind, x) /\ 1..Len(<<>>) = {}
<1>1. 1..Len(<<>>) = {}
  OBVIOUS
<1> QED
  BY <1>1, Zenon DEF InLane

(* A frame that is in a lane has a place there.                            *)
LEMMA LanePlace ==
    ASSUME NEW l \in Links, NEW i \in LaneIds(l)
    PROVE  InLane(toMachine[l], toMachine[l][i].kind, toMachine[l][i].spawn)
  BY Zenon DEF InLane, LaneIds

-----------------------------------------------------------------------------
(* A settled process is no longer the run's, which ends or starts again.   *)
LEMMA Settles ==
    ASSUME ScriptTypeOK, NEW spawn, NEW error, Settle(spawn, error)
    PROVE  /\ entry' \in Entries /\ sleepers' \in Nat /\ sleepers' >= sleepers
           /\ entry.spawn # spawn => entry' = entry /\ sleepers' = sleepers
           /\ entry.spawn = spawn =>
                /\ entry'.spawn = 0 /\ entry'.here = entry.here /\ entry'.link = entry.link
                /\ ~entry'.stopping /\ entry'.status \in {"idle", "restarting", "exited"}
                /\ entry'.status = "restarting" => sleepers' > 0
<1>1. entry \in Entries /\ sleepers \in Nat /\ MaxFast \in Nat
  BY ScriptRunsAssumption DEF ScriptTypeOK
<1>2. CASE entry.spawn # spawn
  BY <1>1, <1>2 DEF Settle
<1>3. CASE entry.spawn = spawn /\ entry.stopping
  <2>1. entry' = [entry EXCEPT !.spawn = 0, !.stopping = FALSE, !.status = "idle"] /\ sleepers' = sleepers
    BY <1>3, Zenon DEF Settle
  <2>2. 0 \in 0..Phantom
    BY ScriptRunsAssumption DEF Phantom
  <2>3. entry' \in Entries
    BY <1>1, <2>1, <2>2 DEF Entries
  <2>4. entry'.spawn = 0 /\ entry'.link = entry.link /\ entry'.status = "idle" /\ entry'.stopping = FALSE
    BY <1>1, <2>1 DEF Entries
  <2>5. entry'.here = entry.here
    BY <1>1, <2>1 DEF Entries
  <2> QED
    BY <1>1, <1>3, <2>1, <2>3, <2>4, <2>5
<1>4. CASE entry.spawn = spawn /\ ~entry.stopping
  <2>1. PICK fast \in {0, entry.fast} :
          IF ~error /\ entry.service /\ fast < MaxFast
          THEN /\ entry' = [entry EXCEPT !.spawn = 0, !.fast = fast + 1, !.status = "restarting"]
               /\ sleepers' = sleepers + 1
          ELSE /\ entry' = [entry EXCEPT !.spawn = 0, !.fast = fast, !.status = "exited"]
               /\ UNCHANGED sleepers
    BY <1>4, Zenon DEF Settle
  <2>2. fast \in Nat /\ fast + 1 \in Nat /\ 0 \in 0..Phantom
    BY <1>1, ScriptRunsAssumption DEF Entries, Phantom
  <2>3. CASE /\ entry' = [entry EXCEPT !.spawn = 0, !.fast = fast + 1, !.status = "restarting"]
             /\ sleepers' = sleepers + 1
    <3>1. entry' \in Entries
      BY <1>1, <2>2, <2>3 DEF Entries
    <3>2. entry'.spawn = 0 /\ entry'.link = entry.link /\ entry'.status = "restarting"
      BY <1>1, <2>3 DEF Entries
    <3>3. entry'.here = entry.here
      BY <1>1, <2>3 DEF Entries
    <3>4. entry'.stopping = entry.stopping
      BY <1>1, <2>3 DEF Entries
    <3> QED
      BY <1>1, <1>4, <2>3, <3>1, <3>2, <3>3, <3>4
  <2>4. CASE /\ entry' = [entry EXCEPT !.spawn = 0, !.fast = fast, !.status = "exited"]
             /\ sleepers' = sleepers
    <3>1. entry' \in Entries
      BY <1>1, <2>2, <2>4 DEF Entries
    <3>2. entry'.spawn = 0 /\ entry'.link = entry.link /\ entry'.status = "exited"
      BY <1>1, <2>4 DEF Entries
    <3>3. entry'.here = entry.here
      BY <1>1, <2>4 DEF Entries
    <3>4. entry'.stopping = entry.stopping
      BY <1>1, <2>4 DEF Entries
    <3> QED
      BY <1>1, <1>4, <2>4, <3>1, <3>2, <3>3, <3>4
  <2> QED
    BY <2>1, <2>3, <2>4
<1> QED
  BY <1>2, <1>3, <1>4, EntryFields

(* Nothing is run, ...                                                     *)
LEMMA NoRunIs ==
    /\ NoRun \in Entries /\ ~NoRun.here /\ NoRun.spawn = 0 /\ NoRun.status = "idle" /\ NoRun.link = 0
    /\ ~NoRun.stopping
  BY ScriptRunsAssumption DEF NoRun, Entries, Phantom

(* ... nothing waits and nothing is cleaned up.                            *)
LEMMA NothingIs ==
    /\ NoStop \in Stoppers /\ NoStop.stage = "idle" /\ NoStop.spawn = 0
    /\ NotOver \in Overs /\ NotOver.stage = "none" /\ NotOver.spawn = 0
    /\ NoCleanup \in Cleanups /\ NoCleanup.stage = "none"
    /\ Nothing.kind = "none"
  BY ScriptRunsAssumption DEF NoStop, Stoppers, NotOver, Overs, NoCleanup, Cleanups, Nothing, Phantom

(* The backend's link, while it is up.                                     *)
LEMMA UpLink ==
    ASSUME ScriptTypeOK, EntryShape, serving.stage # "down"
    PROVE  serving.link \in Links
  BY DEF EntryShape

(* A report is read from the link that is up.                              *)
LEMMA IncomingIs ==
    ASSUME ScriptTypeOK, EntryShape, Incoming.kind \in {"started", "exited"}, Received
    PROVE  /\ serving.stage = "up" /\ serving.link \in Links
           /\ toBackend[serving.link] # <<>> /\ Incoming = Head(toBackend[serving.link])
           /\ Incoming \in Reports /\ Incoming.spawn \in 1..Phantom /\ Incoming.spawn # 0
           /\ Incoming.kind = "started" => Incoming.spawn # Phantom
           /\ toBackend' = [toBackend EXCEPT ![serving.link] = Tail(toBackend[serving.link])]
           /\ toBackend' \in [Links -> Seq(Reports)]
<1>1. serving.stage = "up" /\ toBackend[serving.link] # <<>> /\ Incoming = Head(toBackend[serving.link])
  BY NothingIs DEF Incoming
<1>2. serving.link \in Links
  BY <1>1 DEF EntryShape
<1>3. toBackend[serving.link] \in Seq(Reports) /\ toBackend \in [Links -> Seq(Reports)]
  BY <1>2 DEF ScriptTypeOK
<1>4. Tail(toBackend[serving.link]) \in Seq(Reports) /\ Incoming \in Reports
  BY <1>1, <1>3, LaneTail
<1>5. toBackend' = [toBackend EXCEPT ![serving.link] = Tail(toBackend[serving.link])]
  BY DEF Received
<1>6. toBackend' \in [Links -> Seq(Reports)]
  BY <1>2, <1>3, <1>4, <1>5
<1>7. Incoming.spawn \in 1..Phantom /\ Incoming.spawn # 0
  BY <1>4, ScriptRunsAssumption DEF Reports, Phantom
<1>8. Incoming.kind = "started" => Incoming.spawn # Phantom
  BY <1>4, ScriptRunsAssumption DEF Reports, Spawns, Phantom
<1> QED
  BY <1>1, <1>2, <1>4, <1>5, <1>6, <1>7, <1>8

(* What a report that is read leaves behind.                               *)
LEMMA ReportRead ==
    ASSUME ScriptTypeOK, EntryShape, Incoming.kind \in {"started", "exited"}, Received
    PROVE  /\ InLane(toBackend[serving.link], Incoming.kind, Incoming.spawn)
           /\ \A l \in Links : \A kind, x :
                InLane(toBackend[l], kind, x)' => InLane(toBackend[l], kind, x)
           /\ \A l \in Links : \A kind, x :
                InLane(toBackend[l], kind, x) =>
                    \/ InLane(toBackend[l], kind, x)'
                    \/ l = serving.link /\ kind = Incoming.kind /\ x = Incoming.spawn
<1>1. /\ serving.link \in Links /\ toBackend[serving.link] # <<>>
      /\ Incoming = Head(toBackend[serving.link])
      /\ toBackend' = [toBackend EXCEPT ![serving.link] = Tail(toBackend[serving.link])]
  BY IncomingIs
<1>2. toBackend \in [Links -> Seq(Reports)] /\ toBackend[serving.link] \in Seq(Reports)
  BY <1>1 DEF ScriptTypeOK
<1>3. /\ \A kind, x : InLane(Tail(toBackend[serving.link]), kind, x) => InLane(toBackend[serving.link], kind, x)
      /\ \A kind, x : InLane(toBackend[serving.link], kind, x) =>
           \/ InLane(Tail(toBackend[serving.link]), kind, x)
           \/ Incoming.kind = kind /\ Incoming.spawn = x
      /\ InLane(toBackend[serving.link], Incoming.kind, Incoming.spawn)
  BY <1>1, <1>2, LaneTail
<1>4. toBackend'[serving.link] = Tail(toBackend[serving.link])
  BY <1>1, <1>2
<1>5. \A l \in Links : l # serving.link => toBackend'[l] = toBackend[l]
  BY <1>1, <1>2
<1>6. \A l \in Links : \A kind, x : InLane(toBackend'[l], kind, x) => InLane(toBackend[l], kind, x)
  BY <1>3, <1>4, <1>5, Zenon
<1>7. \A l \in Links : \A kind, x : InLane(toBackend[l], kind, x) =>
        \/ InLane(toBackend'[l], kind, x)
        \/ l = serving.link /\ kind = Incoming.kind /\ x = Incoming.spawn
  BY <1>3, <1>4, <1>5, Zenon
<1> QED
  BY <1>3, <1>6, <1>7, Zenon DEF InLane

(* A report is sent on a link that is up.                                  *)
LEMMA ReportSent ==
    ASSUME ScriptTypeOK, NEW l \in Links, NEW f \in Reports, Tells(l, f)
    PROVE  /\ toBackend' \in [Links -> Seq(Reports)]
           /\ \A k \in Links : \A kind, x :
                InLane(toBackend[k], kind, x) => InLane(toBackend[k], kind, x)'
           /\ \A k \in Links : \A kind, x :
                InLane(toBackend[k], kind, x)' =>
                    InLane(toBackend[k], kind, x) \/ (k = l /\ kind = f.kind /\ x = f.spawn)
           /\ LinkUp(l) => InLane(toBackend[l], f.kind, f.spawn)'
<1>1. toBackend \in [Links -> Seq(Reports)] /\ toBackend[l] \in Seq(Reports)
  BY DEF ScriptTypeOK
<1>2. CASE ~LinkUp(l)
  <2>1. toBackend' = toBackend
    BY <1>2 DEF Tells
  <2> QED
    BY <1>1, <1>2, <2>1, Zenon DEF InLane
<1>3. CASE LinkUp(l)
  <2>1. toBackend' = [toBackend EXCEPT ![l] = Append(toBackend[l], f)]
    BY <1>3 DEF Tells
  <2>2. /\ Append(toBackend[l], f) \in Seq(Reports)
        /\ \A kind, x : InLane(Append(toBackend[l], f), kind, x)
                          <=> InLane(toBackend[l], kind, x) \/ (f.kind = kind /\ f.spawn = x)
    BY <1>1, LaneAppend
  <2>3. toBackend' \in [Links -> Seq(Reports)] /\ toBackend'[l] = Append(toBackend[l], f)
    BY <1>1, <2>1, <2>2
  <2>4. \A k \in Links : k # l => toBackend'[k] = toBackend[k]
    BY <1>1, <2>1
  <2>5. \A k \in Links : \A kind, x : InLane(toBackend[k], kind, x) => InLane(toBackend'[k], kind, x)
    BY <2>2, <2>3, <2>4, Zenon
  <2>6. \A k \in Links : \A kind, x : InLane(toBackend'[k], kind, x) =>
          InLane(toBackend[k], kind, x) \/ (k = l /\ kind = f.kind /\ x = f.spawn)
    BY <2>2, <2>3, <2>4, Zenon
  <2>7. InLane(toBackend'[l], f.kind, f.spawn)
    BY <2>2, <2>3, Zenon
  <2> QED
    BY <2>3, <2>5, <2>6, <2>7, Zenon DEF InLane
<1> QED
  BY <1>2, <1>3

(* The reports there are.                                                  *)
LEMMA ReportsAre ==
    ASSUME NEW x \in 1..Phantom
    PROVE  /\ \A error \in BOOLEAN : /\ Exited(x, error) \in Reports
                                     /\ Exited(x, error).kind = "exited" /\ Exited(x, error).spawn = x
           /\ x \in Spawns => Started(x) \in Reports
           /\ Started(x).kind = "started" /\ Started(x).spawn = x
  BY DEF Reports, Exited, Started

(* The machine reads a frame of a lane.                                    *)
LEMMA FrameRead ==
    ASSUME ScriptTypeOK, NEW l \in Links, NEW kindRead, Arrives(l, kindRead), Consume(l)
    PROVE  /\ toMachine' \in [Links -> Seq(Frames)]
           /\ l \in sessions /\ toMachine[l] # <<>> /\ 1 \in LaneIds(l)
           /\ Head(toMachine[l]) = toMachine[l][1]
           /\ Head(toMachine[l]).kind = kindRead /\ Head(toMachine[l]).spawn \in 1..Phantom
           /\ InLane(toMachine[l], kindRead, Head(toMachine[l]).spawn)
           /\ \A k \in Links : k # l => toMachine'[k] = toMachine[k] /\ LaneIds(k)' = LaneIds(k)
           /\ \A i \in LaneIds(l)' : /\ i \in Nat /\ i >= 1 /\ i + 1 \in LaneIds(l)
                                     /\ toMachine'[l][i] = toMachine[l][i + 1]
           /\ \A i \in LaneIds(l) : i = 1 \/ (i \in Nat /\ i - 1 \in LaneIds(l)' /\ toMachine'[l][i - 1] = toMachine[l][i])
           /\ \A k \in Links : \A kind, x :
                InLane(toMachine[k], kind, x)' => InLane(toMachine[k], kind, x)
           /\ \A k \in Links : \A kind, x :
                InLane(toMachine[k], kind, x) =>
                    \/ InLane(toMachine[k], kind, x)'
                    \/ k = l /\ kind = kindRead /\ x = Head(toMachine[l]).spawn
<1>1. toMachine \in [Links -> Seq(Frames)] /\ toMachine[l] \in Seq(Frames)
  BY DEF ScriptTypeOK
<1>2. /\ l \in sessions /\ toMachine[l] # <<>> /\ Head(toMachine[l]).kind = kindRead
      /\ toMachine' = [toMachine EXCEPT ![l] = Tail(toMachine[l])]
  BY DEF Arrives, Consume
<1>3. /\ Tail(toMachine[l]) \in Seq(Frames) /\ Head(toMachine[l]) = toMachine[l][1]
      /\ 1 \in 1..Len(toMachine[l]) /\ Head(toMachine[l]) \in Frames
      /\ \A i \in 1..Len(Tail(toMachine[l])) : /\ i \in Nat /\ i >= 1 /\ i + 1 \in 1..Len(toMachine[l])
                                               /\ Tail(toMachine[l])[i] = toMachine[l][i + 1]
      /\ \A i \in 1..Len(toMachine[l]) : i = 1 \/ (i \in Nat /\ i - 1 \in 1..Len(Tail(toMachine[l]))
                                                   /\ Tail(toMachine[l])[i - 1] = toMachine[l][i])
  BY <1>1, <1>2, LaneTail
<1>a. /\ \A kind, x : InLane(Tail(toMachine[l]), kind, x) => InLane(toMachine[l], kind, x)
      /\ \A kind, x : InLane(toMachine[l], kind, x) => \/ InLane(Tail(toMachine[l]), kind, x)
                                                       \/ Head(toMachine[l]).kind = kind /\ Head(toMachine[l]).spawn = x
      /\ InLane(toMachine[l], Head(toMachine[l]).kind, Head(toMachine[l]).spawn)
  BY <1>1, <1>2, LaneTail
<1>4. toMachine' \in [Links -> Seq(Frames)] /\ toMachine'[l] = Tail(toMachine[l])
  BY <1>1, <1>2, <1>3
<1>5. \A k \in Links : k # l => toMachine'[k] = toMachine[k]
  BY <1>1, <1>2
<1>6. Head(toMachine[l]).spawn \in 1..Phantom
  BY <1>3 DEF Frames
<1>7. \A k \in Links : \A kind, x : InLane(toMachine'[k], kind, x) => InLane(toMachine[k], kind, x)
  BY <1>a, <1>4, <1>5, Zenon
<1>8. \A k \in Links : \A kind, x : InLane(toMachine[k], kind, x) =>
        \/ InLane(toMachine'[k], kind, x)
        \/ k = l /\ kind = kindRead /\ x = Head(toMachine[l]).spawn
  BY <1>2, <1>a, <1>4, <1>5, Zenon
<1>9. /\ \A k \in Links : k # l => LaneIds(k)' = LaneIds(k)
      /\ LaneIds(l)' = 1..Len(Tail(toMachine[l])) /\ LaneIds(l) = 1..Len(toMachine[l])
  BY <1>4, <1>5, Zenon DEF LaneIds
<1>10. /\ \A k \in Links : \A kind, x : InLane(toMachine[k], kind, x)' => InLane(toMachine[k], kind, x)
       /\ \A k \in Links : \A kind, x :
                InLane(toMachine[k], kind, x) =>
                    \/ InLane(toMachine[k], kind, x)'
                    \/ k = l /\ kind = kindRead /\ x = Head(toMachine[l]).spawn
  BY <1>7, <1>8, Zenon DEF InLane
<1>11. InLane(toMachine[l], kindRead, Head(toMachine[l]).spawn) /\ 1 \in LaneIds(l)
  BY <1>2, <1>3, <1>a, <1>9
<1>12. /\ \A i \in LaneIds(l)' : /\ i \in Nat /\ i >= 1 /\ i + 1 \in LaneIds(l)
                                 /\ toMachine'[l][i] = toMachine[l][i + 1]
       /\ \A i \in LaneIds(l) : i = 1 \/ (i \in Nat /\ i - 1 \in LaneIds(l)' /\ toMachine'[l][i - 1] = toMachine[l][i])
  BY <1>3, <1>4, <1>9, Zenon
<1> QED
  BY <1>2, <1>3, <1>4, <1>5, <1>6, <1>9, <1>10, <1>11, <1>12, Zenon

-----------------------------------------------------------------------------
(* The variables have their types after every step: the entry and its      *)
(* callers, ...                                                            *)
LEMMA CallerTypes ==
    ASSUME ScriptInv,
           \/ StartLooksUp \/ StartRegisters \/ Respawn
           \/ \E o \in orders : StartUnsent(o) \/ StopUnsent(o)
           \/ StopRun \/ StopBetween \/ StopSettled \/ StopUnanswered \/ CancelScript
    PROVE  ScriptTypeOK'
<1>i. ScriptTypeOK /\ EntryShape
  BY DEF ScriptInv, ScriptOrder
<1>e. /\ entry \in Entries /\ stopper \in Stoppers /\ orders \subseteq Orders /\ spawned \in 0..MaxSpawns
      /\ late \subseteq 1..Phantom
  BY <1>i DEF ScriptTypeOK
<1>f. /\ entry.spawn \in 0..Phantom /\ entry.link \in 0..MaxLinks
      /\ entry.spawn # 0 => entry.spawn \in 1..Phantom /\ entry.link \in Links
      /\ Live => entry.link \in Links
      /\ starter # 0 => starter \in Links
  <2>1. entry.spawn # 0 => entry.here
    BY <1>i DEF EntryShape
  <2>2. Live => entry.here
    BY <1>i DEF EntryShape, Live
  <2>3. entry.here => entry.link \in Links
    BY <1>i DEF EntryShape
  <2>4. starter # 0 => starter \in Links
    BY <1>i, ServingFields DEF Links
  <2> QED
    BY <1>i, <2>1, <2>2, <2>3, <2>4, EntryFields
<1>n. /\ spawned < MaxSpawns => spawned + 1 \in 1..Phantom /\ spawned + 1 \in 0..MaxSpawns /\ spawned + 1 \in 0..Phantom
      /\ 0 \in 0..Phantom
  BY <1>i, ServingFields, ScriptRunsAssumption DEF Phantom
<1>1. CASE StartLooksUp
  <2>1. starter' \in 0..MaxLinks
    BY <1>1, <1>i, ServingFields DEF StartLooksUp
  <2> QED
    BY <1>1, <1>i, <2>1 DEF StartLooksUp, ScriptTypeOK, laneVars, processVars
<1>2. CASE StartRegisters
  <2>1. starter' \in 0..MaxLinks
    <3>1. starter' = 0
      BY <1>2 DEF StartRegisters
    <3> QED
      BY <3>1, ScriptRunsAssumption
  <2>2. entry' \in Entries /\ orders' \subseteq Orders /\ spawned' \in 0..MaxSpawns
    <3>1. CASE ending \/ Live
      BY <1>2, <1>e, <3>1 DEF StartRegisters
    <3>2. CASE ~(ending \/ Live)
      <4>1. PICK service \in BOOLEAN :
              entry' = [NoRun EXCEPT !.here = TRUE, !.service = service, !.link = starter,
                                     !.spawn = spawned', !.status = "starting"]
        BY <1>2, <3>2 DEF StartRegisters
      <4>2. /\ spawned < MaxSpawns /\ spawned' = spawned + 1 /\ starter # 0
            /\ orders' = orders \cup {Order("start", spawned', starter)}
        BY <1>2, <3>2 DEF StartRegisters
      <4>3. spawned' \in 1..Phantom /\ spawned' \in 0..Phantom /\ starter \in Links /\ starter \in 0..MaxLinks
        BY <4>2, <1>n, <1>f, <1>i, ServingFields
      <4>4. entry' \in Entries
        BY <4>1, <4>3, NoRunIs DEF Entries
      <4>5. Order("start", spawned', starter) \in Orders
        BY <4>3, OrderIs
      <4> QED
        BY <1>e, <1>n, <4>2, <4>4, <4>5
    <3> QED
      BY <3>1, <3>2
  <2> QED
    BY <1>2, <1>i, <2>1, <2>2 DEF StartRegisters, ScriptTypeOK, laneVars, processVars
<1>3. CASE Respawn
  <2>1. sleepers' \in Nat
    BY <1>3, <1>i DEF Respawn, ScriptTypeOK
  <2>2. entry' \in Entries /\ orders' \subseteq Orders /\ spawned' \in 0..MaxSpawns
    <3>1. CASE entry.status # "restarting" \/ entry.spawn # 0
      BY <1>3, <1>e, <3>1 DEF Respawn
    <3>2. CASE ~(entry.status # "restarting" \/ entry.spawn # 0) /\ entry.stopping
      <4>1. entry' = [entry EXCEPT !.stopping = FALSE, !.status = "idle"] /\ orders' = orders /\ spawned' = spawned
        BY <1>3, <3>2, Zenon DEF Respawn
      <4> QED
        BY <1>e, <4>1 DEF Entries
    <3>3. CASE ~(entry.status # "restarting" \/ entry.spawn # 0) /\ ~entry.stopping
      <4>1. /\ spawned < MaxSpawns /\ spawned' = spawned + 1
            /\ entry' = [entry EXCEPT !.spawn = spawned', !.status = "starting"]
            /\ orders' = orders \cup {Order("start", spawned', entry.link)}
        BY <1>3, <3>3, Zenon DEF Respawn
      <4>2. entry' \in Entries
        BY <1>e, <1>n, <4>1 DEF Entries
      <4>3. Live
        BY <3>3 DEF Live
      <4>4. Order("start", spawned', entry.link) \in Orders
        BY <1>n, <1>f, <4>1, <4>3, OrderIs
      <4> QED
        BY <1>e, <1>n, <4>1, <4>2, <4>4
    <3> QED
      BY <3>1, <3>2, <3>3, Zenon
  <2> QED
    BY <1>3, <1>i, <2>1, <2>2 DEF Respawn, ScriptTypeOK, laneVars, processVars
<1>4. ASSUME NEW o \in orders, StartUnsent(o) \/ StopUnsent(o) PROVE ScriptTypeOK'
  <2>1. CASE StartUnsent(o)
    <3>1. entry' \in Entries /\ sleepers' \in Nat
      BY <1>i, <2>1, Settles DEF StartUnsent
    <3>2. orders' \subseteq Orders
      BY <1>e, <2>1 DEF StartUnsent
    <3> QED
      BY <1>i, <2>1, <3>1, <3>2 DEF StartUnsent, ScriptTypeOK, laneVars, processVars
  <2>2. CASE StopUnsent(o)
    <3>2. orders' \subseteq Orders
      BY <1>e, <2>2 DEF StopUnsent
    <3> QED
      BY <1>i, <2>2, <3>2 DEF StopUnsent, ScriptTypeOK, laneVars, processVars
  <2> QED
    BY <1>4, <2>1, <2>2
<1>5. CASE StopRun
  <2>1. entry' \in Entries /\ orders' \subseteq Orders /\ stopper' \in Stoppers
    <3>1. CASE ~Live
      BY <1>5, <1>e, <3>1, NoRunIs DEF StopRun
    <3>2. CASE Live
      <4>1. entry' = [entry EXCEPT !.stopping = TRUE]
        BY <1>5, <3>2 DEF StopRun
      <4>2. entry' \in Entries
        BY <1>e, <4>1 DEF Entries
      <4>3. CASE entry.spawn = 0
        <5>1. stopper' = [stage |-> "between", spawn |-> 0] /\ orders' = orders
          BY <1>5, <3>2, <4>3 DEF StopRun
        <5> QED
          BY <1>e, <1>n, <4>2, <5>1 DEF Stoppers
      <4>4. CASE entry.spawn # 0
        <5>1. /\ stopper' = [stage |-> "waiting", spawn |-> entry.spawn]
              /\ orders' = orders \cup {Order("stop", entry.spawn, entry.link)}
          BY <1>5, <3>2, <4>4 DEF StopRun
        <5>2. Order("stop", entry.spawn, entry.link) \in Orders
          BY <1>f, <4>4, OrderIs
        <5>3. stopper' \in Stoppers
          BY <1>f, <5>1 DEF Stoppers
        <5> QED
          BY <1>e, <4>2, <5>1, <5>2, <5>3
      <4> QED
        BY <4>3, <4>4
    <3> QED
      BY <3>1, <3>2
  <2> QED
    BY <1>5, <1>i, <2>1 DEF StopRun, ScriptTypeOK, laneVars, processVars
<1>6. CASE StopBetween
  <2>1. entry' \in Entries
    BY <1>6, <1>e DEF StopBetween, Entries
  <2>2. stopper' \in Stoppers /\ late' \subseteq 1..Phantom
    BY <1>6, <1>e, <1>f, NothingIs DEF StopBetween
  <2> QED
    BY <1>6, <1>i, <2>1, <2>2 DEF StopBetween, ScriptTypeOK, laneVars, processVars
<1>7. CASE StopSettled
  <2>1. stopper' \in Stoppers
    BY <1>7, NothingIs DEF StopSettled
  <2> QED
    BY <1>7, <1>i, <2>1 DEF StopSettled, ScriptTypeOK, laneVars, processVars
<1>8. CASE StopUnanswered
  <2>1. entry' \in Entries /\ sleepers' \in Nat
    BY <1>8, <1>i, Settles DEF StopUnanswered
  <2>2. stopper' \in Stoppers
    BY <1>8, NothingIs DEF StopUnanswered
  <2> QED
    BY <1>8, <1>i, <2>1, <2>2 DEF StopUnanswered, ScriptTypeOK, laneVars, processVars
<1>9. CASE CancelScript
  <2>1. entry' \in Entries
    BY <1>9, NoRunIs DEF CancelScript
  <2>2. entry.spawn # 0 => Order("stop", entry.spawn, entry.link) \in Orders
    BY <1>f, OrderIs
  <2>3. orders' \subseteq Orders
    BY <1>9, <1>e, <2>2 DEF CancelScript
  <2> QED
    BY <1>9, <1>i, <2>1, <2>3 DEF CancelScript, ScriptTypeOK, laneVars, processVars
<1> QED
  BY <1>1, <1>2, <1>3, <1>4, <1>5, <1>6, <1>7, <1>8, <1>9

(* ... the connector, ...                                                  *)
LEMMA ConnectorTypes ==
    ASSUME ScriptInv,
           \/ StartedTaken \/ StartedApplied \/ ExitApplied
           \/ LinkBinds \/ ServeEnds \/ LinkLost \/ LostSettled
           \/ FinalBegun \/ FinalSent \/ FinalAcked \/ FinalExpires
           \/ FinalLoses \/ FinalSettles \/ FinalDrops \/ FinalLeft
    PROVE  ScriptTypeOK'
<1>i. ScriptTypeOK /\ EntryShape
  BY DEF ScriptInv, ScriptOrder
<1>e. /\ entry \in Entries /\ serving \in Servings /\ sessions \subseteq Links
      /\ finals \subseteq Links /\ finalAcks \subseteq Links /\ toBackend \in [Links -> Seq(Reports)]
      /\ over \in Overs /\ late \subseteq 1..Phantom
  BY <1>i DEF ScriptTypeOK
<1>n. /\ 0 \in 0..Phantom /\ Phantom \in 0..Phantom /\ entry.spawn \in 0..Phantom
      /\ serving.link < MaxLinks => serving.link + 1 \in Links /\ serving.link + 1 \in 0..MaxLinks
  BY <1>i, ServingFields, EntryFields, ScriptRunsAssumption DEF Phantom, Links
<1>1. CASE StartedTaken
  <2>1. toBackend' \in [Links -> Seq(Reports)]
    BY <1>1, <1>i, IncomingIs DEF StartedTaken
  <2>2. taken' \in 0..Phantom
    BY <1>1, <1>n DEF StartedTaken
  <2> QED
    BY <1>1, <1>i, <2>1, <2>2 DEF StartedTaken, ScriptTypeOK, callerVars, processVars
<1>2. CASE StartedApplied
  <2>1. taken' \in 0..Phantom
    BY <1>2, <1>n DEF StartedApplied
  <2>2. entry' \in Entries
    BY <1>2, <1>e DEF StartedApplied, Entries
  <2>3. revived' \in BOOLEAN
    BY <1>2, Zenon DEF StartedApplied
  <2> QED
    BY <1>2, <1>i, <2>1, <2>2, <2>3 DEF StartedApplied, ScriptTypeOK, laneVars, processVars
<1>3. CASE ExitApplied
  <2>1. toBackend' \in [Links -> Seq(Reports)]
    BY <1>3, <1>i, IncomingIs DEF ExitApplied
  <2>2. entry' \in Entries /\ sleepers' \in Nat
    BY <1>3, <1>i, Settles DEF ExitApplied
  <2> QED
    BY <1>3, <1>i, <2>1, <2>2 DEF ExitApplied, ScriptTypeOK, processVars
<1>4. CASE LinkBinds
  <2>1. serving' \in Servings /\ sessions' \subseteq Links
    BY <1>4, <1>e, <1>n DEF LinkBinds, Servings
  <2> QED
    BY <1>4, <1>i, <2>1 DEF LinkBinds, ScriptTypeOK, callerVars, laneVars
<1>5. CASE ServeEnds
  <2>1. serving' \in Servings
    BY <1>5, <1>e DEF ServeEnds, Servings
  <2>2. serving.link \in Links
    BY <1>5, <1>i DEF EntryShape, ServeEnds
  <2>3. <<>> \in Seq(Reports)
    OBVIOUS
  <2>4. toBackend' \in [Links -> Seq(Reports)] /\ finalAcks' \subseteq Links
    BY <1>5, <1>e, <2>2, <2>3 DEF ServeEnds
  <2> QED
    BY <1>5, <1>i, <2>1, <2>4 DEF ServeEnds, ScriptTypeOK, callerVars, processVars
<1>6. CASE LinkLost
  <2> DEFINE spawn == IF entry.spawn = 0 THEN Phantom ELSE entry.spawn
  <2>1. spawn \in 0..Phantom
    BY <1>n
  <2> HIDE DEF spawn
  <2>2. CASE Live
    <3>1. /\ entry' = [entry EXCEPT !.stopping = FALSE, !.spawn = spawn]
          /\ serving' = [serving EXCEPT !.stage = "losing", !.spawn = spawn]
      BY <1>6, <2>2 DEF LinkLost, spawn
    <3>2. entry' \in Entries
      BY <1>e, <2>1, <3>1 DEF Entries
    <3>3. serving' \in Servings
      BY <1>e, <2>1, <3>1 DEF Servings
    <3> QED
      BY <1>6, <1>i, <3>2, <3>3 DEF LinkLost, ScriptTypeOK, laneVars, processVars
  <2>3. CASE ~Live
    <3>1. serving' = [serving EXCEPT !.stage = "down"] /\ entry' = entry
      BY <1>6, <2>3 DEF LinkLost
    <3>3. serving' \in Servings
      BY <1>e, <3>1 DEF Servings
    <3> QED
      BY <1>6, <1>i, <3>1, <3>3 DEF LinkLost, ScriptTypeOK, laneVars, processVars
  <2> QED
    BY <2>2, <2>3
<1>7. CASE LostSettled
  <2>1. entry' \in Entries /\ sleepers' \in Nat
    BY <1>7, <1>i, Settles DEF LostSettled
  <2>2. serving' \in Servings
    BY <1>7, <1>e, <1>n DEF LostSettled, Servings
  <2> QED
    BY <1>7, <1>i, <2>1, <2>2 DEF LostSettled, ScriptTypeOK, laneVars, processVars
<1>8. CASE FinalBegun
  <2>1. (entry.stopping \/ Live) \in BOOLEAN
    BY Zenon
  <2>2. entry' \in Entries
    BY <1>8, <1>e, <2>1 DEF FinalBegun, Entries
  <2> QED
    BY <1>8, <1>i, <2>2 DEF FinalBegun, ScriptTypeOK, laneVars, processVars
<1>9. CASE FinalSent
  <2>1. finals' \subseteq Links
    BY <1>9, <1>e DEF FinalSent
  <2> QED
    BY <1>9, <1>i, <2>1 DEF FinalSent, ScriptTypeOK, callerVars, processVars
<1>d. Drained => entry' \in Entries /\ over' \in Overs
  <2> DEFINE spawn == IF entry.spawn = 0 THEN Phantom ELSE entry.spawn
  <2>1. spawn \in 0..Phantom
    BY <1>n
  <2> HIDE DEF spawn
  <2>2. ASSUME Drained, Live PROVE entry' \in Entries /\ over' \in Overs
    <3>1. entry' = [entry EXCEPT !.spawn = spawn] /\ over' = [stage |-> "drained", spawn |-> spawn]
      BY <2>2 DEF Drained, spawn
    <3>2. entry' \in Entries
      BY <1>e, <2>1, <3>1 DEF Entries
    <3>3. over' \in Overs
      BY <2>1, <3>1 DEF Overs
    <3> QED
      BY <3>2, <3>3
  <2>3. ASSUME Drained, ~Live PROVE entry' \in Entries /\ over' \in Overs
    <3>1. entry' = entry /\ over' = [stage |-> "dropping", spawn |-> 0]
      BY <2>3 DEF Drained
    <3> QED
      BY <1>e, <1>n, <3>1 DEF Overs
  <2> QED
    BY <2>2, <2>3
<1>g. GivenUp \subseteq 1..Phantom
  <2>1. entry.spawn # 0 => entry.spawn \in 1..Phantom
    BY <1>i, EntryFields, ServingFields
  <2> QED
    BY <1>e, <2>1 DEF GivenUp
<1>10. CASE FinalAcked
  <2>1. finalAcks' \subseteq Links
    BY <1>10, <1>e DEF FinalAcked
  <2>2. entry' \in Entries /\ over' \in Overs
    BY <1>10, <1>d DEF FinalAcked
  <2> QED
    BY <1>10, <1>i, <2>1, <2>2 DEF FinalAcked, ScriptTypeOK, processVars
<1>11. CASE FinalExpires
  <2>2. entry' \in Entries /\ over' \in Overs
    BY <1>11, <1>d DEF FinalExpires
  <2> QED
    BY <1>11, <1>i, <2>2 DEF FinalExpires, ScriptTypeOK, laneVars, processVars
<1>12. CASE FinalLoses
  <2>1. entry' \in Entries
    BY <1>12, <1>e DEF FinalLoses, Entries
  <2>2. over' \in Overs
    BY <1>12, <1>e DEF FinalLoses, Overs
  <2>3. late' \subseteq 1..Phantom
    BY <1>12, <1>g DEF FinalLoses
  <2> QED
    BY <1>12, <1>i, <2>1, <2>2, <2>3 DEF FinalLoses, ScriptTypeOK, laneVars, processVars
<1>13. CASE FinalSettles
  <2>1. entry' \in Entries /\ sleepers' \in Nat
    BY <1>13, <1>i, Settles DEF FinalSettles
  <2>2. over' \in Overs
    BY <1>13, <1>n DEF FinalSettles, Overs
  <2>3. late' \subseteq 1..Phantom
    BY <1>13, <1>g DEF FinalSettles
  <2> QED
    BY <1>13, <1>i, <2>1, <2>2, <2>3 DEF FinalSettles, ScriptTypeOK, laneVars, processVars
<1>14. CASE FinalDrops
  <2>1. entry' \in Entries
    BY <1>14, NoRunIs DEF FinalDrops
  <2>2. over' \in Overs
    BY <1>14, <1>e DEF FinalDrops, Overs
  <2>3. late' \subseteq 1..Phantom
    BY <1>14, <1>g DEF FinalDrops
  <2> QED
    BY <1>14, <1>i, <2>1, <2>2, <2>3 DEF FinalDrops, ScriptTypeOK, laneVars, processVars
<1>15. CASE FinalLeft
  <2>2. over' \in Overs
    BY <1>15, <1>e DEF FinalLeft, Overs
  <2> QED
    BY <1>15, <1>i, <2>2 DEF FinalLeft, ScriptTypeOK, laneVars, processVars
<1> QED
  BY <1>1, <1>2, <1>3, <1>4, <1>5, <1>6, <1>7, <1>8, <1>9, <1>10, <1>11, <1>12, <1>13, <1>14, <1>15

(* Processes are killed: each stays what it is otherwise.                  *)
LEMMA Killing ==
    ASSUME ScriptTypeOK, OneStart, NEW K \in [Processes -> BOOLEAN],
           procs' = {[p EXCEPT !.killed = K[p]] : p \in procs}
    PROVE  /\ procs' \subseteq Processes
           /\ \A q \in procs' : \E p \in procs : q.spawn = p.spawn /\ q.link = p.link /\ (q.killed <=> K[p])
           /\ \A p \in procs : \E q \in procs' : q.spawn = p.spawn /\ q.link = p.link
           /\ \A q, r \in procs' : q.spawn = r.spawn => q = r
<1>1. procs \subseteq Processes
  BY DEF ScriptTypeOK
<1>2. \A p \in procs : [p EXCEPT !.killed = K[p]] \in Processes
  BY <1>1 DEF Processes
<1>3. \A p \in procs : /\ [p EXCEPT !.killed = K[p]].spawn = p.spawn
                       /\ [p EXCEPT !.killed = K[p]].link = p.link
                       /\ [p EXCEPT !.killed = K[p]].killed = K[p]
  BY <1>1 DEF Processes
<1>4. \A q \in procs' : \E p \in procs : q = [p EXCEPT !.killed = K[p]]
  BY Zenon
<1>5. \A p \in procs : [p EXCEPT !.killed = K[p]] \in procs'
  BY Zenon
<1>6. \A p, r \in procs : p.spawn = r.spawn => p = r
  BY Zenon DEF OneStart
<1>7. ASSUME NEW q \in procs', NEW r \in procs', q.spawn = r.spawn PROVE q = r
  <2>1. PICK p \in procs : q = [p EXCEPT !.killed = K[p]]
    BY <1>4
  <2>2. PICK s \in procs : r = [s EXCEPT !.killed = K[s]]
    BY <1>4
  <2>3. p.spawn = s.spawn
    BY <1>3, <1>7, <2>1, <2>2, Zenon
  <2>4. p = s
    BY <1>6, <2>3, Zenon
  <2> QED
    BY <2>1, <2>2, <2>4, Zenon
<1>8. ASSUME NEW q \in procs'
      PROVE  q \in Processes /\ \E p \in procs : q.spawn = p.spawn /\ q.link = p.link /\ (q.killed <=> K[p])
  <2>1. PICK p \in procs : q = [p EXCEPT !.killed = K[p]]
    BY <1>4
  <2>2. q.spawn = p.spawn /\ q.link = p.link /\ q.killed = K[p] /\ q \in Processes
    BY <1>2, <1>3, <2>1, Zenon
  <2> QED
    BY <2>2, Zenon
<1>9. \A p \in procs : \E q \in procs' : q.spawn = p.spawn /\ q.link = p.link
  BY <1>3, <1>5, Zenon
<1> QED
  BY <1>7, <1>8, <1>9, Zenon

(* The processes once a session that is over, a stop or a final stop has   *)
(* killed its own.                                                         *)
SessionKilled(l) == {[p EXCEPT !.killed = p.killed \/ p.link = l] : p \in procs}
StopKilled(x)    == {[p EXCEPT !.killed = p.killed \/ p.spawn = x] : p \in procs}
CleanupKilled    == {[p EXCEPT !.killed = p.killed \/ p.spawn \notin unlisted] : p \in procs}

(* A session that is over kills the processes it started, ...              *)
LEMMA SessionKills ==
    ASSUME ScriptTypeOK, OneStart, NEW l,
           procs' = SessionKilled(l)
    PROVE  /\ procs' \subseteq Processes
           /\ \A q \in procs' :
                /\ \E p \in procs : q.spawn = p.spawn /\ q.link = p.link /\ (~q.killed => ~p.killed /\ p.link # l)
                /\ \A r \in procs' : q.spawn = r.spawn => q = r
           /\ \A p \in procs : \E q \in procs' : q.spawn = p.spawn /\ q.link = p.link
<1>1. procs \subseteq Processes
  BY DEF ScriptTypeOK
<1> DEFINE K == [p \in Processes |-> p.killed \/ p.link = l]
<1>2. K \in [Processes -> BOOLEAN]
  BY Zenon
<1>3. \A p \in procs : K[p] = (p.killed \/ p.link = l)
  BY <1>1, Zenon
<1> HIDE DEF K
<1>4. procs' = {[p EXCEPT !.killed = K[p]] : p \in procs}
  BY <1>3, Zenon DEF SessionKilled
<1>5. /\ procs' \subseteq Processes
      /\ \A q \in procs' : \E p \in procs : q.spawn = p.spawn /\ q.link = p.link /\ (q.killed <=> K[p])
      /\ \A p \in procs : \E q \in procs' : q.spawn = p.spawn /\ q.link = p.link
      /\ \A q, r \in procs' : q.spawn = r.spawn => q = r
  BY <1>2, <1>4, Killing
<1>6. ASSUME NEW q \in procs'
      PROVE  \E p \in procs : q.spawn = p.spawn /\ q.link = p.link /\ (~q.killed => ~p.killed /\ p.link # l)
  <2>1. PICK p \in procs : q.spawn = p.spawn /\ q.link = p.link /\ (q.killed <=> K[p])
    BY <1>5
  <2>2. K[p] = (p.killed \/ p.link = l)
    BY <1>3
  <2>3. ~q.killed => ~p.killed /\ p.link # l
    BY <2>1, <2>2, Zenon
  <2> QED
    BY <2>1, <2>3, Zenon
<1>7. \A q \in procs' : \E p \in procs : q.spawn = p.spawn /\ q.link = p.link /\ (~q.killed => ~p.killed /\ p.link # l)
  BY <1>6
<1>8. /\ procs' \subseteq Processes
      /\ \A p \in procs : \E q \in procs' : q.spawn = p.spawn /\ q.link = p.link
      /\ \A q, r \in procs' : q.spawn = r.spawn => q = r
  BY <1>5
<1> QED
  BY <1>7, <1>8

(* ... a stop the process it names, ...                                    *)
LEMMA StopKills ==
    ASSUME ScriptTypeOK, OneStart, NEW x,
           procs' = StopKilled(x)
    PROVE  /\ procs' \subseteq Processes
           /\ \A q \in procs' :
                /\ \E p \in procs : q.spawn = p.spawn /\ q.link = p.link /\ (~q.killed => ~p.killed /\ p.spawn # x)
                /\ \A r \in procs' : q.spawn = r.spawn => q = r
           /\ \A p \in procs : \E q \in procs' : q.spawn = p.spawn /\ q.link = p.link
<1>1. procs \subseteq Processes
  BY DEF ScriptTypeOK
<1> DEFINE K == [p \in Processes |-> p.killed \/ p.spawn = x]
<1>2. K \in [Processes -> BOOLEAN]
  BY Zenon
<1>3. \A p \in procs : K[p] = (p.killed \/ p.spawn = x)
  BY <1>1, Zenon
<1> HIDE DEF K
<1>4. procs' = {[p EXCEPT !.killed = K[p]] : p \in procs}
  BY <1>3, Zenon DEF StopKilled
<1>5. /\ procs' \subseteq Processes
      /\ \A q \in procs' : \E p \in procs : q.spawn = p.spawn /\ q.link = p.link /\ (q.killed <=> K[p])
      /\ \A p \in procs : \E q \in procs' : q.spawn = p.spawn /\ q.link = p.link
      /\ \A q, r \in procs' : q.spawn = r.spawn => q = r
  BY <1>2, <1>4, Killing
<1>6. ASSUME NEW q \in procs'
      PROVE  \E p \in procs : q.spawn = p.spawn /\ q.link = p.link /\ (~q.killed => ~p.killed /\ p.spawn # x)
  <2>1. PICK p \in procs : q.spawn = p.spawn /\ q.link = p.link /\ (q.killed <=> K[p])
    BY <1>5
  <2>2. K[p] = (p.killed \/ p.spawn = x)
    BY <1>3
  <2>3. ~q.killed => ~p.killed /\ p.spawn # x
    BY <2>1, <2>2, Zenon
  <2> QED
    BY <2>1, <2>3, Zenon
<1>7. \A q \in procs' : \E p \in procs : q.spawn = p.spawn /\ q.link = p.link /\ (~q.killed => ~p.killed /\ p.spawn # x)
  BY <1>6
<1>8. /\ procs' \subseteq Processes
      /\ \A p \in procs : \E q \in procs' : q.spawn = p.spawn /\ q.link = p.link
      /\ \A q, r \in procs' : q.spawn = r.spawn => q = r
  BY <1>5
<1> QED
  BY <1>7, <1>8

(* ... and a final stop those that are recorded.                           *)
LEMMA CleanupKillsAll ==
    ASSUME ScriptTypeOK, OneStart,
           procs' = CleanupKilled
    PROVE  /\ procs' \subseteq Processes
           /\ \A q \in procs' :
                /\ \E p \in procs : q.spawn = p.spawn /\ q.link = p.link /\ (~q.killed => ~p.killed /\ p.spawn \in unlisted)
                /\ \A r \in procs' : q.spawn = r.spawn => q = r
           /\ \A p \in procs : \E q \in procs' : q.spawn = p.spawn /\ q.link = p.link
<1>1. procs \subseteq Processes
  BY DEF ScriptTypeOK
<1> DEFINE K == [p \in Processes |-> p.killed \/ p.spawn \notin unlisted]
<1>2. K \in [Processes -> BOOLEAN]
  BY Zenon
<1>3. \A p \in procs : K[p] = (p.killed \/ p.spawn \notin unlisted)
  BY <1>1, Zenon
<1> HIDE DEF K
<1>4. procs' = {[p EXCEPT !.killed = K[p]] : p \in procs}
  BY <1>3, Zenon DEF CleanupKilled
<1>5. /\ procs' \subseteq Processes
      /\ \A q \in procs' : \E p \in procs : q.spawn = p.spawn /\ q.link = p.link /\ (q.killed <=> K[p])
      /\ \A p \in procs : \E q \in procs' : q.spawn = p.spawn /\ q.link = p.link
      /\ \A q, r \in procs' : q.spawn = r.spawn => q = r
  BY <1>2, <1>4, Killing
<1>6. ASSUME NEW q \in procs'
      PROVE  \E p \in procs : q.spawn = p.spawn /\ q.link = p.link /\ (~q.killed => ~p.killed /\ p.spawn \in unlisted)
  <2>1. PICK p \in procs : q.spawn = p.spawn /\ q.link = p.link /\ (q.killed <=> K[p])
    BY <1>5
  <2>2. K[p] = (p.killed \/ p.spawn \notin unlisted)
    BY <1>3
  <2>3. ~q.killed => ~p.killed /\ p.spawn \in unlisted
    BY <2>1, <2>2, Zenon
  <2> QED
    BY <2>1, <2>3, Zenon
<1>7. \A q \in procs' : \E p \in procs : q.spawn = p.spawn /\ q.link = p.link /\ (~q.killed => ~p.killed /\ p.spawn \in unlisted)
  BY <1>6
<1>8. /\ procs' \subseteq Processes
      /\ \A p \in procs : \E q \in procs' : q.spawn = p.spawn /\ q.link = p.link
      /\ \A q, r \in procs' : q.spawn = r.spawn => q = r
  BY <1>5
<1> QED
  BY <1>7, <1>8

(* ... and the machine.                                                    *)
LEMMA MachineTypes ==
    ASSUME ScriptInv,
           \/ \E o \in orders : QueueFrame(o)
           \/ \E l \in Links : \/ SessionAdopts(l) \/ SessionOver(l) \/ StartRefused(l)
                               \/ ProcessSpawned(l) \/ ProcessStarts(l) \/ StopArrives(l) \/ FinalArrives(l)
           \/ \E p \in procs : Reap(p)
           \/ CleanupKills \/ CleanupReaped \/ CleanupDone \/ CleanupFails
    PROVE  ScriptTypeOK'
<1>i. ScriptTypeOK /\ Fresh /\ EntryShape /\ OneStart
  BY DEF ScriptInv, ScriptOrder
<1>e. /\ orders \subseteq Orders /\ procs \subseteq Processes /\ late \subseteq 1..Phantom
      /\ sessions \subseteq Links /\ finals \subseteq Links /\ finalAcks \subseteq Links
      /\ cleanup \in Cleanups /\ toMachine \in [Links -> Seq(Frames)] /\ gate \in 0..MaxLinks
      /\ toBackend \in [Links -> Seq(Reports)] /\ unlisted \subseteq Spawns /\ Spawns \subseteq 1..Phantom
  BY <1>i, ScriptRunsAssumption DEF ScriptTypeOK, Spawns, Phantom
<1>1. ASSUME NEW o \in orders, QueueFrame(o) PROVE ScriptTypeOK'
  <2>1. o.link \in Links /\ o.spawn \in 1..Phantom /\ o.kind \in {"start", "stop"}
    BY <1>i, OrderFields
  <2>2. [kind |-> o.kind, spawn |-> o.spawn] \in Frames
    BY <2>1 DEF Frames
  <2>3. toMachine[o.link] \in Seq(Frames)
    BY <1>e, <2>1
  <2>4. Append(toMachine[o.link], [kind |-> o.kind, spawn |-> o.spawn]) \in Seq(Frames)
    BY <2>2, <2>3, LaneAppend
  <2>5. toMachine' \in [Links -> Seq(Frames)]
    BY <1>e, <1>1, <2>1, <2>4 DEF QueueFrame
  <2>6. late' \subseteq 1..Phantom /\ orders' \subseteq Orders
    BY <1>e, <1>1, <2>1 DEF QueueFrame
  <2> QED
    BY <1>1, <1>i, <2>5, <2>6 DEF QueueFrame, ScriptTypeOK, processVars
<1>2. ASSUME NEW l \in Links, SessionAdopts(l) PROVE ScriptTypeOK'
  <2>1. gate' \in 0..MaxLinks
    BY <1>2, ScriptRunsAssumption DEF SessionAdopts, Links
  <2> QED
    BY <1>2, <1>i, <2>1 DEF SessionAdopts, ScriptTypeOK, callerVars, laneVars
<1>3. ASSUME NEW l \in Links, SessionOver(l) PROVE ScriptTypeOK'
  <2>1. procs' \subseteq Processes
    BY <1>3, <1>i, SessionKills DEF SessionOver, SessionKilled
  <2>2. sessions' \subseteq Links /\ finals' \subseteq Links
    BY <1>3, <1>e DEF SessionOver
  <2>3. <<>> \in Seq(Frames)
    OBVIOUS
  <2>4. toMachine' \in [Links -> Seq(Frames)]
    BY <1>3, <1>e, <2>3 DEF SessionOver
  <2> QED
    BY <1>3, <1>i, <2>1, <2>2, <2>4 DEF SessionOver, ScriptTypeOK, callerVars
<1>4. ASSUME NEW l \in Links, StartRefused(l) PROVE ScriptTypeOK'
  <2>1. toMachine' \in [Links -> Seq(Frames)] /\ Head(toMachine[l]).spawn \in 1..Phantom
    BY <1>4, <1>i, FrameRead DEF StartRefused
  <2>2. Exited(Head(toMachine[l]).spawn, TRUE) \in Reports
    BY <2>1, ReportsAre
  <2>3. toBackend' \in [Links -> Seq(Reports)]
    BY <1>4, <1>i, <2>2, ReportSent DEF StartRefused
  <2> QED
    BY <1>4, <1>i, <2>1, <2>3 DEF StartRefused, ScriptTypeOK, callerVars, processVars
<1>5. ASSUME NEW l \in Links, ProcessSpawned(l) PROVE ScriptTypeOK'
  <2> DEFINE x == Head(toMachine[l]).spawn
  <2>1. toMachine' \in [Links -> Seq(Frames)] /\ x \in 1..Phantom /\ InLane(toMachine[l], "start", x)
    BY <1>5, <1>i, FrameRead DEF ProcessSpawned
  <2>a. /\ procs' = procs \cup {[spawn |-> x, link |-> l, killed |-> FALSE]}
        /\ unlisted' = {x} /\ (late' = late \/ late' = late \cup {x})
    BY <1>5 DEF ProcessSpawned
  <2> HIDE DEF x
  <2>2. x \in Spawns
    <3>1. x <= spawned
      BY <1>i, <2>1 DEF Fresh, Asked
    <3> QED
      BY <1>i, <2>1, <3>1, ServingFields DEF Spawns
  <2>4. procs' \subseteq Processes
    <3>1. [spawn |-> x, link |-> l, killed |-> FALSE] \in Processes
      BY <2>2 DEF Processes
    <3> QED
      BY <1>e, <2>a, <3>1
  <2>5. late' \subseteq 1..Phantom /\ unlisted' \subseteq Spawns
    BY <1>e, <2>1, <2>2, <2>a
  <2> QED
    BY <1>5, <1>i, <2>1, <2>4, <2>5 DEF ProcessSpawned, ScriptTypeOK, callerVars
<1>s. ASSUME NEW l \in Links, ProcessStarts(l) PROVE ScriptTypeOK'
  <2>1. PICK p \in procs : Tells(l, Started(p.spawn))
    BY <1>s DEF ProcessStarts
  <2>2. Started(p.spawn) \in Reports
    BY <1>i, ProcessFields, ReportsAre
  <2>3. toBackend' \in [Links -> Seq(Reports)]
    BY <1>i, <2>1, <2>2, ReportSent
  <2>4. unlisted' \subseteq Spawns
    BY <1>s DEF ProcessStarts
  <2> QED
    BY <1>s, <1>i, <2>3, <2>4 DEF ProcessStarts, ScriptTypeOK, callerVars
<1>6. ASSUME NEW l \in Links, StopArrives(l) PROVE ScriptTypeOK'
  <2> DEFINE x == Head(toMachine[l]).spawn
  <2>1. toMachine' \in [Links -> Seq(Frames)] /\ x \in 1..Phantom
    BY <1>6, <1>i, FrameRead DEF StopArrives
  <2>a. /\ procs' = {[p EXCEPT !.killed = p.killed \/ p.spawn = x] : p \in procs}
        /\ toBackend' = toBackend \/ Tells(l, Exited(x, TRUE))
    BY <1>6 DEF StopArrives
  <2> HIDE DEF x
  <2>2. procs' \subseteq Processes
    BY <1>i, <2>a, StopKills DEF StopKilled
  <2>3. Tells(l, Exited(x, TRUE)) => toBackend' \in [Links -> Seq(Reports)]
    BY <1>i, <2>1, ReportSent, ReportsAre
  <2> QED
    BY <1>6, <1>i, <1>e, <2>1, <2>a, <2>2, <2>3 DEF StopArrives, ScriptTypeOK, callerVars
<1>7. ASSUME NEW l \in Links, FinalArrives(l) PROVE ScriptTypeOK'
  <2>1. cleanup' \in Cleanups /\ finals' \subseteq Links
    BY <1>7, <1>e DEF FinalArrives, Cleanups
  <2> QED
    BY <1>7, <1>i, <2>1 DEF FinalArrives, ScriptTypeOK, callerVars
<1>8. ASSUME NEW p \in procs, Reap(p) PROVE ScriptTypeOK'
  <2>1. p.link \in Links /\ p.spawn \in 1..Phantom
    BY <1>i, ProcessFields
  <2>2. ASSUME NEW error \in BOOLEAN, Tells(p.link, Exited(p.spawn, error))
        PROVE  toBackend' \in [Links -> Seq(Reports)]
    BY <1>i, <2>1, <2>2, ReportSent, ReportsAre
  <2>3. toBackend' \in [Links -> Seq(Reports)]
    BY <1>8, <1>e, <2>2 DEF Reap
  <2>4. procs' \subseteq Processes
    BY <1>8, <1>e DEF Reap
  <2> QED
    BY <1>8, <1>i, <2>3, <2>4 DEF Reap, ScriptTypeOK, callerVars
<1>9. CASE CleanupKills
  <2>1. procs' \subseteq Processes
    BY <1>9, <1>i, CleanupKillsAll DEF CleanupKills, CleanupKilled
  <2>2. {p.spawn : p \in procs} \ unlisted \subseteq Spawns
    BY <1>e DEF Processes
  <2>3. cleanup' \in Cleanups
    BY <1>9, <1>e, <2>2 DEF CleanupKills, Cleanups
  <2>4. late' \subseteq 1..Phantom
    BY <1>9, <1>e DEF CleanupKills
  <2> QED
    BY <1>9, <1>i, <2>1, <2>3, <2>4 DEF CleanupKills, ScriptTypeOK, callerVars, laneVars
<1>10. CASE CleanupReaped
  <2>1. cleanup' \in Cleanups
    BY <1>10, <1>e DEF CleanupReaped, Cleanups
  <2> QED
    BY <1>10, <1>i, <2>1 DEF CleanupReaped, ScriptTypeOK, callerVars, laneVars
<1>11. CASE CleanupDone
  <2>1. cleanup' \in Cleanups /\ finalAcks' \subseteq Links
    BY <1>11, <1>e, NothingIs DEF CleanupDone
  <2> QED
    BY <1>11, <1>i, <2>1 DEF CleanupDone, ScriptTypeOK, callerVars
<1>12. CASE CleanupFails
  <2> QED
    BY <1>12, <1>i, NothingIs DEF CleanupFails, ScriptTypeOK, callerVars, laneVars
<1> QED
  BY <1>1, <1>2, <1>3, <1>4, <1>5, <1>s, <1>6, <1>7, <1>8, <1>9, <1>10, <1>11, <1>12

-----------------------------------------------------------------------------
(* The parts of the invariant, and what keeps each.  A step names no new   *)
(* spawn on a link, or the run's on its own: ids and links stay known, ... *)
LEMMA FreshKept ==
    ASSUME ScriptTypeOK, ScriptTypeOK', Fresh, spawned' = spawned, serving'.link >= serving.link,
           \A x \in 1..Phantom, l \in Links :
               /\ Named(x, l)' => Named(x, l) \/ (x = entry.spawn /\ l = entry.link)
               /\ Asked(x, l)' => Asked(x, l),
           entry'.spawn \in {0, entry.spawn, Phantom}, entry'.link \in {0, entry.link},
           stopper'.spawn \in {0, entry.spawn, stopper.spawn}, taken' <= spawned,
           starter' \in {0, starter, serving.link},
           \A l \in sessions' : l \in sessions \/ l = serving'.link
    PROVE  Fresh'
<1>1. /\ spawned \in Nat /\ serving.link \in Nat /\ serving'.link \in Nat /\ Phantom \in Nat
      /\ entry.link \in Nat /\ starter \in Nat /\ entry.spawn \in Nat /\ stopper.spawn \in Nat
  <2>1. serving' \in Servings
    BY DEF ScriptTypeOK
  <2>2. serving'.link \in Nat
    BY <2>1, ScriptRunsAssumption DEF Servings
  <2> QED
    BY <2>2, ServingFields, EntryFields
<1>2. /\ Known(entry.spawn) /\ Known(stopper.spawn)
      /\ entry.link <= serving.link /\ starter <= serving.link
      /\ \A l \in sessions : l <= serving.link
      /\ \A x \in 1..Phantom, l \in Links : /\ Named(x, l) => Known(x) /\ l <= serving.link
                                            /\ Asked(x, l) => x <= spawned
  BY DEF Fresh
<1>3. \A x : Known(x)' <=> Known(x)
  BY DEF Known
<1>4. Known(0) /\ Known(Phantom)
  BY <1>1 DEF Known
<1>5. Known(entry.spawn)' /\ Known(stopper.spawn)' /\ taken' <= spawned'
  BY <1>2, <1>4 DEF Known
<1>6. \A l \in Links : l \in Nat
  BY DEF Links
<1>7. entry'.link <= serving'.link /\ starter' <= serving'.link
  BY <1>1, <1>2
<1>8. sessions \subseteq Links
  BY DEF ScriptTypeOK
<1>9. \A l \in sessions' : l <= serving'.link
  BY <1>1, <1>2, <1>6, <1>8
<1>10. \A x \in 1..Phantom, l \in Links : Named(x, l)' => Known(x) /\ l <= serving'.link
  BY <1>1, <1>2, <1>6
<1>11. \A x \in 1..Phantom, l \in Links : Asked(x, l)' => x <= spawned'
  BY <1>2
<1>12. \A x \in 1..Phantom, l \in Links : /\ Named(x, l)' => Known(x)' /\ l <= serving'.link
                                          /\ Asked(x, l)' => x <= spawned'
  BY <1>3, <1>10, <1>11
<1> QED
  BY <1>5, <1>7, <1>9, <1>12 DEF Fresh

(* ... and on one link.                                                    *)
LEMMA OnOneLinkKept ==
    ASSUME ScriptTypeOK, OnOneLink,
           \A x \in 1..Phantom, l \in Links :
               Named(x, l)' => Named(x, l) \/ (x = entry.spawn /\ l = entry.link),
           \/ entry'.spawn \in {0, Phantom}
           \/ entry'.spawn = entry.spawn /\ entry'.link = entry.link,
           taken' \in {0, taken}, taken' # 0 => serving' = serving
    PROVE  OnOneLink'
<1>1. \A x, l : OnItsLink(x, l) /\ x # 0 => OnItsLink(x, l)'
  BY DEF OnItsLink
<1>2. OnItsLink(entry.spawn, entry.link)
  BY DEF OnItsLink
<1>3. \A x \in 1..Phantom : x # 0
  BY ScriptRunsAssumption DEF Phantom
<1>4. \A x \in 1..Phantom, l \in Links : Named(x, l)' => OnItsLink(x, l)'
  BY <1>1, <1>2, <1>3 DEF OnOneLink
<1>5. taken' # 0 => serving'.stage = "up" /\ OnItsLink(taken, serving.link)'
  BY DEF OnOneLink, OnItsLink
<1> QED
  BY <1>4, <1>5 DEF OnOneLink

(* Nothing new is named where the lanes and the processes stay, ...        *)
LEMMA NothingNamed ==
    ASSUME UNCHANGED <<orders, toMachine, procs>>,
           \A l \in Links : \A kind, x : InLane(toBackend[l], kind, x)' => InLane(toBackend[l], kind, x)
    PROVE  \A x \in 1..Phantom, l \in Links :
               /\ Named(x, l)' => Named(x, l) \/ (x = entry.spawn /\ l = entry.link)
               /\ Asked(x, l)' => Asked(x, l)
<1>1. \A x, l : Asked(x, l)' <=> Asked(x, l)
  BY DEF Asked, InLane
<1>2. \A x, l : InLane(toMachine[l], "stop", x)' <=> InLane(toMachine[l], "stop", x)
  BY DEF InLane
<1>3. \A x \in 1..Phantom, l \in Links : Named(x, l)' => Named(x, l)
  BY <1>1, <1>2 DEF Named
<1> QED
  BY <1>1, <1>3

(* ... where an order is dropped, ...                                      *)
LEMMA DroppedNamed ==
    ASSUME UNCHANGED <<toMachine, toBackend, procs>>, orders' \subseteq orders
    PROVE  \A x \in 1..Phantom, l \in Links :
               /\ Named(x, l)' => Named(x, l) \/ (x = entry.spawn /\ l = entry.link)
               /\ Asked(x, l)' => Asked(x, l)
<1>1. \A x, l : Asked(x, l)' => Asked(x, l)
  BY DEF Asked, InLane
<1>2. \A kind, x, l : /\ InLane(toMachine[l], kind, x)' <=> InLane(toMachine[l], kind, x)
                      /\ InLane(toBackend[l], kind, x)' <=> InLane(toBackend[l], kind, x)
  BY DEF InLane
<1>3. \A x \in 1..Phantom, l \in Links : Named(x, l)' => Named(x, l)
  BY <1>1, <1>2 DEF Named
<1> QED
  BY <1>1, <1>3

(* ... and where the run's process is to be stopped.                       *)
LEMMA StopNamed ==
    ASSUME UNCHANGED <<toMachine, toBackend, procs>>,
           orders' = orders \cup {Order("stop", entry.spawn, entry.link)}
    PROVE  \A x \in 1..Phantom, l \in Links :
               /\ Named(x, l)' => Named(x, l) \/ (x = entry.spawn /\ l = entry.link)
               /\ Asked(x, l)' => Asked(x, l)
<1>1. \A x, l : /\ Order("start", x, l) \in orders' => Order("start", x, l) \in orders
                /\ Order("stop", x, l) \in orders' =>
                     Order("stop", x, l) \in orders \/ (x = entry.spawn /\ l = entry.link)
  BY DEF Order
<1>2. \A kind, x, l : /\ InLane(toMachine[l], kind, x)' <=> InLane(toMachine[l], kind, x)
                      /\ InLane(toBackend[l], kind, x)' <=> InLane(toBackend[l], kind, x)
  BY DEF InLane
<1>3. \A x, l : Asked(x, l)' => Asked(x, l)
  BY <1>1, <1>2 DEF Asked
<1>4. \A x \in 1..Phantom, l \in Links :
        Named(x, l)' => Named(x, l) \/ (x = entry.spawn /\ l = entry.link)
  BY <1>1, <1>2, <1>3 DEF Named
<1> QED
  BY <1>3, <1>4

(* A process is asked for once as long as no start is added.               *)
LEMMA OneStartKept ==
    ASSUME OneStart, toMachine' = toMachine,
           \A o \in orders' : o.kind = "start" => o \in orders,
           \A q \in procs' : \E p \in procs : q.spawn = p.spawn,
           \A q, r \in procs' : q.spawn = r.spawn => q = r
    PROVE  OneStart'
<1>1. \A o, q \in orders' : o.kind = "start" /\ q.kind = "start" /\ o.spawn = q.spawn => o = q
  BY Zenon DEF OneStart
<1>2. \A l : LaneIds(l)' = LaneIds(l) /\ \A kind, x : InLane(toMachine[l], kind, x)' <=> InLane(toMachine[l], kind, x)
  BY DEF LaneIds, InLane
<1>3. \A o \in orders' : o.kind = "start" =>
         /\ \A l \in Links : ~InLane(toMachine[l], "start", o.spawn)
         /\ \A p \in procs : p.spawn # o.spawn
  BY Zenon DEF OneStart
<1>4. \A o \in orders' : o.kind = "start" =>
         /\ \A l \in Links : ~InLane(toMachine'[l], "start", o.spawn)
         /\ \A p \in procs' : p.spawn # o.spawn
  BY <1>3
<1>5. \A l, k \in Links : \A i \in LaneIds(l), j \in LaneIds(k) :
         toMachine[l][i].kind = "start" /\ toMachine[k][j].kind = "start"
           /\ toMachine[l][i].spawn = toMachine[k][j].spawn => l = k /\ i = j
  BY Zenon DEF OneStart
<1>6. \A p \in procs : \A l \in Links : ~InLane(toMachine[l], "start", p.spawn)
  BY Zenon DEF OneStart
<1>7. \A p \in procs' : \A l \in Links : ~InLane(toMachine'[l], "start", p.spawn)
  BY <1>6
<1>8. \A l, k \in Links : \A i \in LaneIds(l)', j \in LaneIds(k)' :
         toMachine'[l][i].kind = "start" /\ toMachine'[k][j].kind = "start"
           /\ toMachine'[l][i].spawn = toMachine'[k][j].spawn => l = k /\ i = j
  BY <1>2, <1>5
<1> QED
  BY <1>1, <1>4, <1>7, <1>8, Zenon DEF OneStart, InLane

(* No frame is left to a session that is over.                             *)
LEMMA SessionsKept ==
    ASSUME SessionsServe, toMachine' = toMachine, sessions \subseteq sessions',
           \A q \in procs' : \E p \in procs : q.link = p.link /\ (~q.killed => ~p.killed)
    PROVE  SessionsServe'
  BY DEF SessionsServe

(* A cleanup reaches the processes there are.                              *)
LEMMA CleanupKept ==
    ASSUME CleanupReaches, UNCHANGED <<cleanup, checkout>>, late \subseteq late',
           finalAcks' \subseteq finalAcks,
           \A q \in procs' : \E p \in procs : q.spawn = p.spawn
    PROVE  CleanupReaches'
  BY DEF CleanupReaches

(* The processes stay.                                                     *)
LEMMA SameProcs ==
    ASSUME OneStart, procs' = procs
    PROVE  /\ \A q \in procs' : \E p \in procs : q.spawn = p.spawn
           /\ \A q, r \in procs' : q.spawn = r.spawn => q = r
           /\ \A q \in procs' : \E p \in procs : q.link = p.link /\ (~q.killed => ~p.killed)
  BY Zenon DEF OneStart

(* Nothing needs a stop while the backend has no link.                     *)
LEMMA StopsWhenDown ==
    ASSUME serving'.stage # "up"
    PROVE  StopsFollow'
<1>1. \A l : ~LinkUp(l)'
  BY DEF LinkUp
<1>2. \A x, l : Stopped(x, l)'
  BY <1>1, Zenon DEF Stopped, LinkUp
<1> QED
  BY <1>1, <1>2, Zenon DEF StopsFollow, Stopped, LinkUp

(* Stops follow as long as no spawn is let go of that has a start, no      *)
(* start is added and no stop forgotten.                                   *)
Unasked(x) ==
    /\ \A l \in Links : ~InLane(toMachine[l], "start", x)
    /\ \A p \in procs : p.spawn # x

LEMMA StopsKept ==
    ASSUME ScriptTypeOK, StopsFollow, UNCHANGED <<serving, toMachine>>, late \subseteq late',
           checkout' => checkout,
           \A p \in procs' : ~p.killed => p.spawn \in late' \/ p \in procs,
           \A o \in orders : o.kind = "stop" => o \in orders' \/ ~LinkUp(o.link),
           \A x \in 1..Phantom : LetGo(x)' =>
               \/ LetGo(x) \/ x \in late' \/ Unasked(x)
               \/ /\ checkout' => \A l \in Links : InLane(toMachine[l], "start", x) => Stopped(x, l)'
                  /\ \A p \in procs' : p.spawn = x => Stopped(x, p.link)',
           checkout' => \A o \in orders' : o.kind = "start" /\ entry'.spawn = o.spawn /\ Told(o.spawn)' =>
                                  entry'.stopping \/ ~LinkUp(o.link) \/ o.spawn \in late'
    PROVE  StopsFollow'
<1>1. /\ \A l : (LinkUp(l)' <=> LinkUp(l)) /\ LaneIds(l)' = LaneIds(l)
      /\ \A l, kind, x : InLane(toMachine[l], kind, x)' <=> InLane(toMachine[l], kind, x)
  BY DEF LinkUp, LaneIds, InLane
<1>2. \A x \in 1..Phantom, l \in Links : Stopped(x, l) => Stopped(x, l)'
  BY <1>1, OrderIs DEF Stopped
<1>3. ASSUME checkout', NEW o \in orders', o.kind = "start", entry'.spawn = o.spawn, Told(o.spawn)'
      PROVE  entry'.stopping \/ ~LinkUp(o.link)' \/ o.spawn \in late'
  BY <1>1, <1>3
<1>4. ASSUME checkout', NEW l \in Links, NEW i \in LaneIds(l)', toMachine'[l][i].kind = "start",
             LetGo(toMachine[l][i].spawn)'
      PROVE  \/ Stopped(toMachine[l][i].spawn, l)'
             \/ \E j \in LaneIds(l)' : j > i /\ toMachine'[l][j].kind = "stop"
                                         /\ toMachine'[l][j].spawn = toMachine'[l][i].spawn
  <2> DEFINE x == toMachine[l][i].spawn
  <2>1. i \in LaneIds(l) /\ toMachine[l][i].kind = "start" /\ x = toMachine'[l][i].spawn
    BY <1>1, <1>4
  <2>2. x \in 1..Phantom
    BY <2>1, LaneFields
  <2>3. InLane(toMachine[l], "start", x)
    BY <2>1, LanePlace
  <2>4. LetGo(x)'
    BY <1>4, <2>1, Zenon DEF LetGo, Told, InLane
  <2>5. LetGo(x) \/ x \in late' \/ Stopped(x, l)'
    BY <1>4, <2>2, <2>3, <2>4 DEF Unasked
  <2>6. x \in late' => Stopped(x, l)'
    BY DEF Stopped
  <2>7. LetGo(x) => \/ Stopped(x, l)
                    \/ \E j \in LaneIds(l) : j > i /\ toMachine[l][j].kind = "stop"
                                               /\ toMachine[l][j].spawn = x
    BY <1>4, <2>1 DEF StopsFollow
  <2>8. Stopped(toMachine[l][i].spawn, l)' <=> Stopped(x, l)'
    BY <2>1, Zenon DEF Stopped
  <2> HIDE DEF x
  <2> QED
    BY <1>1, <1>2, <2>1, <2>2, <2>5, <2>6, <2>7, <2>8
<1>5. ASSUME NEW p \in procs', ~p.killed, LetGo(p.spawn)'
      PROVE  Stopped(p.spawn, p.link)' \/ InLane(toMachine[p.link], "stop", p.spawn)'
  <2>4. p.spawn \in late' => Stopped(p.spawn, p.link)'
    BY DEF Stopped
  <2>1. CASE p \in procs
    <3>2. p.spawn \in 1..Phantom /\ p.link \in Links
      BY <2>1, ProcessFields
    <3>3. LetGo(p.spawn) \/ p.spawn \in late' \/ Stopped(p.spawn, p.link)'
      BY <1>5, <2>1, <3>2 DEF Unasked
    <3>5. LetGo(p.spawn) => Stopped(p.spawn, p.link) \/ InLane(toMachine[p.link], "stop", p.spawn)
      BY <1>5, <2>1 DEF StopsFollow
    <3> QED
      BY <1>1, <1>2, <2>4, <3>2, <3>3, <3>5
  <2> QED
    BY <1>5, <2>1, <2>4
<1> QED
  BY <1>3, <1>4, <1>5, Zenon DEF StopsFollow

(* A spawn is not told to stop by a step that adds no stop and no exit.    *)
LEMMA ToldKept ==
    ASSUME stopper' = stopper \/ stopper'.stage # "waiting", \A o \in orders' : o.kind = "stop" => o \in orders,
           \A l \in Links : \A x : /\ InLane(toMachine[l], "stop", x)' => InLane(toMachine[l], "stop", x)
                                   /\ InLane(toBackend[l], "exited", x)' => InLane(toBackend[l], "exited", x)
    PROVE  \A x \in 1..Phantom : Told(x)' => Told(x)
<1>1. \A x \in 1..Phantom, l \in Links : Order("stop", x, l) \in orders' => Order("stop", x, l) \in orders
  BY OrderIs
<1>2. \A x : stopper'.stage = "waiting" /\ stopper'.spawn = x => stopper.stage = "waiting" /\ stopper.spawn = x
  OBVIOUS
<1> QED
  BY <1>1, <1>2, Zenon DEF Told

(* What will settle a run on a link that is up, but for a stop.            *)
Answers == \/ Asked(entry.spawn, entry.link) \/ InLane(toBackend[entry.link], "exited", entry.spawn)
           \/ serving.link \notin sessions

(* A run goes on as long as what will settle it stays, ...                 *)
LEMMA RunKept ==
    ASSUME ScriptTypeOK, RunGoesOn, serving' = serving, entry'.spawn = entry.spawn, entry'.link = entry.link,
           Live' => Live /\ entry'.status = entry.status,
           revived => revived', sleepers' \in Nat, sleepers' >= sleepers,
           entry.spawn # 0 /\ ~LinkUp(entry.link) /\ StartPends => StartPends', entry.spawn # 0 /\ StopPends => StopPends',
           entry.spawn # 0 /\ LinkUp(entry.link) /\ Answers => Answers'
    PROVE  RunGoesOn'
<1>1. LinkUp(entry.link)' <=> LinkUp(entry.link)
  BY DEF LinkUp
<1>2. sleepers \in Nat
  BY DEF ScriptTypeOK
<1>3. ~revived' /\ Live' /\ entry'.spawn = 0 => entry'.status = "restarting" /\ sleepers' > 0
  BY <1>2 DEF RunGoesOn
<1>4. ~revived' /\ entry'.spawn # 0 /\ LinkUp(entry.link)' =>
         Answers' \/ StopPends'
  BY <1>1 DEF RunGoesOn, Answers
<1>5. ~revived' /\ entry'.spawn # 0 /\ Live' /\ ~LinkUp(entry.link)'
       /\ serving'.stage \in {"down", "up"} => StartPends' \/ StopPends'
  BY <1>1 DEF RunGoesOn
<1>6. serving'.stage = "losing" /\ entry'.spawn \notin {0, serving'.spawn} => StartPends' \/ StopPends'
  BY DEF RunGoesOn, LinkUp
<1>7. Answers' <=> \/ Asked(entry.spawn, entry.link)' \/ InLane(toBackend[entry.link], "exited", entry.spawn)'
                   \/ serving'.link \notin sessions'
  BY Zenon DEF Answers
<1> QED
  BY <1>3, <1>4, <1>5, <1>6, <1>7, Zenon DEF RunGoesOn

(* ... and a run without a process as long as its restart is due.          *)
LEMMA RunSettled ==
    ASSUME entry'.spawn = 0, Live' => entry'.status = "restarting" /\ sleepers' > 0
    PROVE  RunGoesOn'
  BY Zenon DEF RunGoesOn

(* A step leaves the end of a final stop alone, or settles no run.         *)
Settling == over.stage \in {"drained", "losing"}
OverKept == over' = over \/ (~Settling /\ ~Settling')

(* A run that nothing has touched.                                         *)
LEMMA SameRun ==
    ASSUME ScriptTypeOK, RunGoesOn, UNCHANGED <<serving, entry, sleepers, revived, stopper, orders, toMachine, procs>>,
           OverKept,
           sessions' \subseteq sessions, EntryShape,
           \A l \in Links : \A x : InLane(toBackend[l], "exited", x) => InLane(toBackend[l], "exited", x)'
    PROVE  RunGoesOn'
<1>1. sleepers \in Nat /\ sleepers' >= sleepers
  BY DEF ScriptTypeOK
<1>2. Live' => Live
  BY DEF Live
<1>3. (StartPends => StartPends') /\ (StopPends => StopPends')
  BY DEF StartPends, StopPends, OverPends, OverKept, Settling
<1>4. Asked(entry.spawn, entry.link)' <=> Asked(entry.spawn, entry.link)
  BY DEF Asked, InLane
<1>5. entry.spawn # 0 => entry.link \in Links
  BY DEF EntryShape
<1>6. entry.spawn # 0 /\ InLane(toBackend[entry.link], "exited", entry.spawn)
        => InLane(toBackend[entry.link], "exited", entry.spawn)'
  BY <1>5
<1>7. entry.spawn # 0 /\ Answers => Answers'
  BY <1>4, <1>6 DEF Answers
<1> QED
  BY <1>1, <1>2, <1>3, <1>7, RunKept

-----------------------------------------------------------------------------
(* Steps that touch neither the run nor what concerns its processes.       *)
LEMMA QuietStep ==
    ASSUME ScriptInv, ScriptTypeOK', CleanupReaches',
           UNCHANGED <<entry, stopper, taken, orders, toMachine, toBackend, procs, spawned, serving,
                       sessions, late, revived, sleepers>>, OverKept,
           starter' \in {0, starter, serving.link}, checkout' => checkout
    PROVE  ScriptInv'
<1>i. /\ ScriptTypeOK /\ Fresh /\ EntryShape /\ OneStart /\ OnOneLink /\ SessionsServe
      /\ StopsFollow /\ RunGoesOn
  BY DEF ScriptInv, ScriptOrder
<1>b. \A l \in Links : \A kind, x : InLane(toBackend[l], kind, x)' <=> InLane(toBackend[l], kind, x)
  BY DEF InLane
<1>m. \A l : \A kind, x : InLane(toMachine[l], kind, x)' <=> InLane(toMachine[l], kind, x)
  BY DEF InLane
<1>n. \A x \in 1..Phantom, l \in Links :
        /\ Named(x, l)' => Named(x, l) \/ (x = entry.spawn /\ l = entry.link)
        /\ Asked(x, l)' => Asked(x, l)
  BY <1>b, NothingNamed
<1>f. Fresh'
  <2>1. taken' <= spawned /\ serving'.link >= serving.link
    BY <1>i, ServingFields DEF Fresh
  <2> QED
    BY <1>i, <1>n, <2>1, FreshKept
<1>e. EntryShape'
  BY <1>i DEF EntryShape, OverPends, OverKept, Settling, Live
<1>o. OneStart' /\ SessionsServe'
  BY <1>i, SameProcs, OneStartKept, SessionsKept
<1>l. OnOneLink'
  BY <1>i, <1>n, OnOneLinkKept
<1>s. StopsFollow'
  <2>1. \A x \in 1..Phantom : Told(x)' => Told(x)
    BY <1>b, <1>m, ToldKept
  <2>2. \A x \in 1..Phantom : LetGo(x)' => LetGo(x)
    BY <2>1 DEF LetGo
  <2>3. checkout' => \A o \in orders : o.kind = "start" /\ entry.spawn = o.spawn /\ Told(o.spawn)' =>
                            entry.stopping \/ ~LinkUp(o.link) \/ o.spawn \in late
    BY <1>i, <2>1, OrderFields DEF StopsFollow
  <2> QED
    BY <1>i, <2>2, <2>3, StopsKept
<1>r. RunGoesOn'
  BY <1>i, <1>b, SameRun
<1> QED
  BY <1>f, <1>e, <1>o, <1>l, <1>s, <1>r DEF ScriptInv, ScriptOrder

(* A start looks its link up, a final stop goes out and is over, a session *)
(* adopts the link, and the cleanup goes on.                               *)
LEMMA QuietSteps ==
    ASSUME ScriptInv,
           \/ StartLooksUp \/ FinalSent \/ FinalLeft
           \/ \E l \in Links : SessionAdopts(l) \/ FinalArrives(l)
           \/ CleanupReaped \/ CleanupDone \/ CleanupFails
    PROVE  ScriptInv'
<1>i. ScriptTypeOK /\ CleanupReaches /\ OneStart /\ cleanup \in Cleanups
  BY DEF ScriptInv, ScriptOrder, ScriptTypeOK
<1>1. CASE StartLooksUp
  <2>1. ScriptTypeOK'
    BY <1>1, CallerTypes
  <2>2. CleanupReaches'
    BY <1>1, <1>i, SameProcs, CleanupKept DEF StartLooksUp, laneVars, processVars
  <2> QED
    BY <1>1, <2>1, <2>2, QuietStep DEF OverKept, StartLooksUp, laneVars, processVars
<1>2. CASE FinalSent
  <2>1. ScriptTypeOK'
    BY <1>2, ConnectorTypes
  <2>2. CleanupReaches'
    BY <1>2, <1>i, SameProcs, CleanupKept DEF FinalSent, callerVars, processVars
  <2> QED
    BY <1>2, <2>1, <2>2, QuietStep DEF OverKept, FinalSent, callerVars, processVars
<1>3. ASSUME NEW l \in Links, SessionAdopts(l) PROVE ScriptInv'
  <2>1. ScriptTypeOK'
    BY <1>3, MachineTypes
  <2>2. CleanupReaches'
    BY <1>3, <1>i, SameProcs, CleanupKept DEF SessionAdopts, callerVars, laneVars
  <2> QED
    BY <1>3, <2>1, <2>2, QuietStep DEF OverKept, SessionAdopts, callerVars, laneVars
<1>4. ASSUME NEW l \in Links, FinalArrives(l) PROVE ScriptInv'
  <2>1. ScriptTypeOK'
    BY <1>4, MachineTypes
  <2>2. /\ cleanup'.victims = cleanup.victims
        /\ cleanup'.stage = cleanup.stage \/ cleanup'.stage = "begun"
    BY <1>4, <1>i DEF FinalArrives, Cleanups
  <2>3. CleanupReaches'
    BY <1>4, <1>i, <2>2 DEF FinalArrives, CleanupReaches
  <2> QED
    BY <1>4, <2>1, <2>3, QuietStep DEF OverKept, FinalArrives, callerVars
<1>5. CASE CleanupReaped
  <2>1. ScriptTypeOK'
    BY <1>5, MachineTypes
  <2>2. cleanup'.stage = "removing" /\ cleanup.stage = "reaping" /\ \A p \in procs : p.spawn \in late
    BY <1>5, <1>i DEF CleanupReaped, Cleanups, CleanupReaches
  <2>3. CleanupReaches'
    BY <1>5, <1>i, <2>2 DEF CleanupReaped, CleanupReaches, laneVars
  <2> QED
    BY <1>5, <2>1, <2>3, QuietStep DEF OverKept, CleanupReaped, callerVars, laneVars
<1>6. CASE CleanupDone
  <2>1. ScriptTypeOK'
    BY <1>6, MachineTypes
  <2>2. cleanup'.stage = "none" /\ cleanup.stage = "removing" /\ checkout' = FALSE
    BY <1>6, NothingIs DEF CleanupDone
  <2>3. CleanupReaches'
    BY <1>6, <1>i, <2>2 DEF CleanupDone, CleanupReaches
  <2> QED
    BY <1>6, <2>1, <2>2, <2>3, QuietStep DEF OverKept, CleanupDone, callerVars
<1>7. CASE CleanupFails
  <2>1. ScriptTypeOK'
    BY <1>7, MachineTypes
  <2>2. cleanup'.stage = "none"
    BY <1>7, NothingIs DEF CleanupFails
  <2>3. CleanupReaches'
    BY <1>7, <1>i, <2>2 DEF CleanupFails, CleanupReaches, laneVars
  <2> QED
    BY <1>7, <2>1, <2>3, QuietStep DEF OverKept, CleanupFails, callerVars, laneVars
<1>8. CASE FinalLeft
  <2>1. ScriptTypeOK'
    BY <1>8, ConnectorTypes
  <2>2. CleanupReaches'
    BY <1>8, <1>i, SameProcs, CleanupKept DEF FinalLeft, laneVars, processVars
  <2>3. over.stage = "leaving" /\ over'.stage = "done"
    BY <1>8, <1>i DEF FinalLeft, ScriptTypeOK, Overs
  <2> QED
    BY <1>8, <2>1, <2>2, <2>3, QuietStep DEF OverKept, Settling, FinalLeft, laneVars, processVars
<1> QED
  BY <1>1, <1>2, <1>3, <1>4, <1>5, <1>6, <1>7, <1>8

-----------------------------------------------------------------------------
(* Steps of the backend that queue no frame and leave its link.            *)
LEMMA RunStep ==
    ASSUME ScriptInv, ScriptTypeOK', EntryShape', StopsFollow', RunGoesOn',
           UNCHANGED <<toMachine, procs, spawned, serving, sessions, cleanup, checkout>>,
           \A x \in 1..Phantom, l \in Links :
               /\ Named(x, l)' => Named(x, l) \/ (x = entry.spawn /\ l = entry.link)
               /\ Asked(x, l)' => Asked(x, l),
           \A o \in orders' : o.kind = "start" => o \in orders,
           taken' \in {0, taken}, starter' \in {0, starter},
           finalAcks' \subseteq finalAcks, late \subseteq late',
           \/ entry'.spawn \in {0, Phantom}
           \/ entry'.spawn = entry.spawn /\ entry'.link = entry.link,
           entry'.link \in {0, entry.link}, stopper'.spawn \in {0, entry.spawn, stopper.spawn}
    PROVE  ScriptInv'
<1>i. /\ ScriptTypeOK /\ Fresh /\ OneStart /\ OnOneLink /\ SessionsServe /\ CleanupReaches
  BY DEF ScriptInv, ScriptOrder
<1>f. Fresh'
  <2>1. taken' <= spawned /\ serving'.link >= serving.link
    BY <1>i, ServingFields DEF Fresh
  <2>2. /\ entry'.spawn \in {0, entry.spawn, Phantom} /\ starter' \in {0, starter, serving.link}
        /\ \A l \in sessions' : l \in sessions \/ l = serving'.link
    OBVIOUS
  <2> QED
    BY <1>i, <2>1, <2>2, FreshKept
<1>l. OnOneLink'
  BY <1>i, OnOneLinkKept
<1>o. OneStart'
  BY <1>i, SameProcs, OneStartKept
<1>c. SessionsServe' /\ CleanupReaches'
  BY <1>i, SameProcs, SessionsKept, CleanupKept
<1> QED
  BY <1>f, <1>l, <1>o, <1>c DEF ScriptInv, ScriptOrder

(* Steps of the backend that read no report.                               *)
LEMMA BackendStep ==
    ASSUME ScriptInv, ScriptTypeOK', EntryShape', StopsFollow', RunGoesOn',
           UNCHANGED <<toMachine, toBackend, procs, spawned, serving, sessions, cleanup, checkout>>,
           \/ orders' \subseteq orders
           \/ orders' = orders \cup {Order("stop", entry.spawn, entry.link)},
           taken' \in {0, taken}, starter' \in {0, starter},
           finalAcks' \subseteq finalAcks, late \subseteq late',
           \/ entry'.spawn \in {0, Phantom}
           \/ entry'.spawn = entry.spawn /\ entry'.link = entry.link,
           entry'.link \in {0, entry.link}, stopper'.spawn \in {0, entry.spawn, stopper.spawn}
    PROVE  ScriptInv'
<1>1. \A x \in 1..Phantom, l \in Links :
        /\ Named(x, l)' => Named(x, l) \/ (x = entry.spawn /\ l = entry.link)
        /\ Asked(x, l)' => Asked(x, l)
  BY DroppedNamed, StopNamed
<1>2. \A o \in orders' : o.kind = "start" => o \in orders
  BY DEF Order
<1> QED
  BY <1>1, <1>2, RunStep

(* The entry keeps its shape when its process is settled.                  *)
LEMMA SettledShape ==
    ASSUME ScriptTypeOK, EntryShape, NEW spawn \in 1..Phantom, NEW error, Settle(spawn, error),
           UNCHANGED <<serving, over, late>>, stopper' \in {stopper, NoStop}
    PROVE  EntryShape'
<1>1. /\ entry.spawn # spawn => entry' = entry
      /\ entry.spawn = spawn => /\ entry'.spawn = 0 /\ entry'.here = entry.here
                                /\ entry'.link = entry.link
  BY Settles
<1>2. spawn # 0 /\ Phantom # 0 /\ (stopper'.stage = "waiting" => stopper' = stopper)
  BY NothingIs, ScriptRunsAssumption DEF Phantom
<1>3. CASE entry.spawn # spawn
  BY <1>1, <1>2, <1>3 DEF EntryShape, OverPends, Live
<1>4. CASE entry.spawn = spawn
  <2>1. entry.here
    BY <1>2, <1>4 DEF EntryShape
  <2> QED
    BY <1>1, <1>2, <1>4, <2>1 DEF EntryShape, OverPends
<1> QED
  BY <1>3, <1>4

(* StartUnsent: a start that cannot be queued settles its process.         *)
LEMMA StartUnsentStep ==
    ASSUME ScriptInv, NEW o \in orders, StartUnsent(o)
    PROVE  ScriptInv'
<1>i. ScriptTypeOK /\ EntryShape /\ OneStart /\ StopsFollow /\ RunGoesOn
  BY DEF ScriptInv, ScriptOrder
<1>t. ScriptTypeOK'
  BY CallerTypes
<1>u. UNCHANGED <<ending, over, starter, stopper, serving, taken, toMachine, toBackend, finals, finalAcks,
                  gate, sessions, procs, cleanup, checkout, spawned, late, revived>>
  BY DEF StartUnsent, laneVars, processVars
<1>p. /\ o.kind = "start" /\ orders' = orders \ {o} /\ Settle(o.spawn, TRUE)
      /\ o.spawn \in 1..Phantom /\ o.spawn # 0 /\ o.link \in Links /\ o = Order("start", o.spawn, o.link)
  BY <1>i, OrderFields DEF StartUnsent
<1>q. /\ sleepers' \in Nat /\ sleepers' >= sleepers
      /\ entry.spawn # o.spawn => entry' = entry /\ sleepers' = sleepers
      /\ entry.spawn = o.spawn =>
           /\ entry'.spawn = 0 /\ entry'.here = entry.here /\ entry'.link = entry.link
           /\ entry'.status \in {"idle", "restarting", "exited"}
           /\ entry'.status = "restarting" => sleepers' > 0
  BY <1>i, <1>p, Settles
<1>e. EntryShape'
  BY <1>i, <1>p, <1>u, SettledShape
<1>x. Unasked(o.spawn)
  BY <1>i, <1>p DEF OneStart, Unasked
<1>s. StopsFollow'
  <2>1. \A x \in 1..Phantom : Told(x)' => Told(x)
    BY <1>p, <1>u, ToldKept DEF InLane
  <2>2. \A x \in 1..Phantom : LetGo(x)' => LetGo(x) \/ x \in late' \/ Unasked(x)
    BY <1>q, <1>x, <2>1 DEF LetGo
  <2>3. checkout' => \A r \in orders' : r.kind = "start" /\ entry'.spawn = r.spawn /\ Told(r.spawn)' =>
                            entry'.stopping \/ ~LinkUp(r.link) \/ r.spawn \in late'
    <3> SUFFICES ASSUME checkout', NEW r \in orders', r.kind = "start", entry'.spawn = r.spawn, Told(r.spawn)'
                 PROVE  entry'.stopping \/ ~LinkUp(r.link) \/ r.spawn \in late'
      OBVIOUS
    <3>1. r \in orders /\ r.spawn \in 1..Phantom /\ r.spawn # 0
      BY <1>i, <1>p, OrderFields
    <3>2. entry' = entry
      BY <1>q, <3>1
    <3> QED
      BY <1>i, <1>u, <2>1, <3>1, <3>2 DEF StopsFollow
  <2>4. \A r \in orders : r.kind = "stop" => r \in orders'
    BY <1>p
  <2> QED
    BY <1>i, <1>u, <2>2, <2>3, <2>4, StopsKept
<1>r. RunGoesOn'
  <2>1. CASE entry.spawn = o.spawn
    BY <1>q, <2>1, RunSettled DEF Live
  <2>2. CASE entry.spawn # o.spawn
    <3>1. entry' = entry /\ (Live' => Live)
      BY <1>q, <2>2 DEF Live
    <3>2. \A l : Order("start", entry.spawn, l) \in orders => Order("start", entry.spawn, l) \in orders'
      BY <1>p, <2>2 DEF Order
    <3>3. (StartPends => StartPends') /\ (StopPends => StopPends')
      BY <1>u, <3>1, <3>2 DEF StartPends, StopPends, OverPends
    <3>4. Asked(entry.spawn, entry.link) => Asked(entry.spawn, entry.link)'
      BY <1>u, <3>1, <3>2 DEF Asked, InLane
    <3>5. Answers => Answers'
      BY <1>u, <3>1, <3>4 DEF Answers, InLane
    <3> QED
      BY <1>i, <1>u, <1>q, <3>1, <3>3, <3>5, RunKept
  <2> QED
    BY <2>1, <2>2
<1>z. /\ orders' \subseteq orders
      /\ entry'.spawn = 0 \/ (entry'.spawn = entry.spawn /\ entry'.link = entry.link)
      /\ entry'.link \in {0, entry.link}
  BY <1>p, <1>q
<1> QED
  BY <1>t, <1>u, <1>e, <1>s, <1>r, <1>z, BackendStep

(* StopUnsent: a stop that cannot be queued is forgotten.                  *)
LEMMA StopUnsentStep ==
    ASSUME ScriptInv, NEW o \in orders, StopUnsent(o)
    PROVE  ScriptInv'
<1>i. ScriptTypeOK /\ EntryShape /\ OneStart /\ StopsFollow /\ RunGoesOn
  BY DEF ScriptInv, ScriptOrder
<1>t. ScriptTypeOK'
  BY CallerTypes
<1>u. UNCHANGED <<entry, ending, over, starter, stopper, sleepers, serving, taken, toMachine, toBackend, finals,
                  finalAcks, gate, sessions, procs, cleanup, checkout, spawned, late, revived>>
  BY DEF StopUnsent, laneVars, processVars
<1>p. o.kind = "stop" /\ orders' = orders \ {o} /\ ~LinkUp(o.link)
  BY DEF StopUnsent
<1>e. EntryShape'
  BY <1>i, <1>u DEF EntryShape, OverPends, Live
<1>s. StopsFollow'
  <2>1. \A x \in 1..Phantom : Told(x)' => Told(x)
    BY <1>p, <1>u, ToldKept DEF InLane
  <2>2. \A x \in 1..Phantom : LetGo(x)' => LetGo(x)
    BY <1>u, <2>1 DEF LetGo
  <2>3. checkout' => \A r \in orders' : r.kind = "start" /\ entry'.spawn = r.spawn /\ Told(r.spawn)' =>
                            entry'.stopping \/ ~LinkUp(r.link) \/ r.spawn \in late'
    BY <1>i, <1>p, <1>u, <2>1, OrderFields DEF StopsFollow
  <2>4. \A r \in orders : r.kind = "stop" => r \in orders' \/ ~LinkUp(r.link)
    BY <1>p
  <2> QED
    BY <1>i, <1>u, <2>2, <2>3, <2>4, StopsKept
<1>r. RunGoesOn'
  <2>1. \A x, l : Order("start", x, l) \in orders => Order("start", x, l) \in orders'
    BY <1>p DEF Order
  <2>2. (StartPends => StartPends') /\ (StopPends => StopPends') /\ (Live' => Live)
    BY <1>u, <2>1 DEF StartPends, StopPends, OverPends, Live
  <2>3. Asked(entry.spawn, entry.link) => Asked(entry.spawn, entry.link)'
    BY <1>u, <2>1 DEF Asked, InLane
  <2>4. Answers => Answers'
    BY <1>u, <2>3 DEF Answers, InLane
  <2>5. sleepers \in Nat /\ sleepers' >= sleepers
    BY <1>i, <1>u DEF ScriptTypeOK
  <2> QED
    BY <1>i, <1>u, <2>2, <2>4, <2>5, RunKept
<1>z. orders' \subseteq orders
  BY <1>p
<1> QED
  BY <1>t, <1>u, <1>e, <1>s, <1>r, <1>z, BackendStep

(* StopSettled, StopUnanswered: a stop no longer waits.                    *)
LEMMA StopEndsStep ==
    ASSUME ScriptInv, StopSettled \/ StopUnanswered
    PROVE  ScriptInv'
<1>i. ScriptTypeOK /\ EntryShape /\ OneStart /\ StopsFollow /\ RunGoesOn
  BY DEF ScriptInv, ScriptOrder
<1>t. ScriptTypeOK'
  BY CallerTypes
<1>u. UNCHANGED <<ending, over, starter, orders, serving, taken, toMachine, toBackend, finals,
                  finalAcks, gate, sessions, procs, cleanup, checkout, spawned, late, revived>>
  BY DEF StopSettled, StopUnanswered, laneVars, processVars
<1>p. /\ stopper.stage = "waiting" /\ stopper' = NoStop /\ stopper'.spawn = 0
      /\ stopper.spawn \in 1..Phantom /\ stopper.spawn # 0
  <2>1. stopper.stage = "waiting" /\ stopper' = NoStop
    BY DEF StopSettled, StopUnanswered, StopSent
  <2>2. stopper.spawn # 0 /\ stopper.spawn \in 0..Phantom
    BY <1>i, <2>1, ServingFields DEF EntryShape
  <2> QED
    BY <2>1, <2>2, NothingIs, ScriptRunsAssumption DEF Phantom
<1>q. /\ sleepers' \in Nat /\ sleepers' >= sleepers
      /\ entry.spawn # stopper.spawn => entry' = entry /\ sleepers' = sleepers
      /\ entry.spawn = stopper.spawn =>
           /\ entry'.spawn = 0 /\ entry'.here = entry.here /\ entry'.link = entry.link
           /\ entry'.status \in {"idle", "restarting", "exited"}
           /\ entry'.status = "restarting" => sleepers' > 0
  <2>1. CASE StopSettled
    BY <1>i, <2>1 DEF StopSettled, ScriptTypeOK
  <2>2. CASE StopUnanswered
    <3>1. Settle(stopper.spawn, FALSE)
      BY <2>2 DEF StopUnanswered
    <3> QED
      BY <1>i, <3>1, Settles
  <2> QED
    BY <2>1, <2>2
<1>e. EntryShape'
  <2>1. CASE StopSettled
    BY <1>i, <1>u, <1>p, <2>1, NothingIs DEF StopSettled, EntryShape, OverPends, Live
  <2>2. CASE StopUnanswered
    BY <1>i, <1>p, <1>u, <2>2, SettledShape DEF StopUnanswered
  <2> QED
    BY <2>1, <2>2
<1>s. StopsFollow'
  <2>1. \A x \in 1..Phantom : Told(x)' => Told(x)
    BY <1>p, <1>u, NothingIs, ToldKept DEF InLane
  <2>0. Told(stopper.spawn)
    BY <1>p DEF Told
  <2>2. \A x \in 1..Phantom : LetGo(x)' => LetGo(x)
    BY <1>q, <2>0, <2>1 DEF LetGo
  <2>3. checkout' => \A r \in orders' : r.kind = "start" /\ entry'.spawn = r.spawn /\ Told(r.spawn)' =>
                            entry'.stopping \/ ~LinkUp(r.link) \/ r.spawn \in late'
    <3> SUFFICES ASSUME checkout', NEW r \in orders', r.kind = "start", entry'.spawn = r.spawn, Told(r.spawn)'
                 PROVE  entry'.stopping \/ ~LinkUp(r.link) \/ r.spawn \in late'
      OBVIOUS
    <3>1. r \in orders /\ r.spawn \in 1..Phantom /\ r.spawn # 0
      BY <1>i, <1>u, OrderFields
    <3>2. entry' = entry
      BY <1>q, <3>1
    <3> QED
      BY <1>i, <1>u, <2>1, <3>1, <3>2 DEF StopsFollow
  <2>4. \A r \in orders : r.kind = "stop" => r \in orders'
    BY <1>u
  <2> QED
    BY <1>i, <1>u, <2>2, <2>3, <2>4, StopsKept
<1>r. RunGoesOn'
  <2>1. CASE entry.spawn = stopper.spawn
    BY <1>q, <2>1, RunSettled DEF Live
  <2>2. CASE entry.spawn # stopper.spawn
    <3>1. entry' = entry /\ (Live' => Live)
      BY <1>q, <2>2 DEF Live
    <3>3. (StartPends => StartPends') /\ (StopPends => StopPends')
      BY <1>u, <2>2, <3>1 DEF StartPends, StopPends, OverPends
    <3>5. Answers => Answers'
      BY <1>u, <3>1 DEF Answers, Asked, InLane
    <3> QED
      BY <1>i, <1>u, <1>q, <3>1, <3>3, <3>5, RunKept
  <2> QED
    BY <2>1, <2>2
<1>z. /\ orders' \subseteq orders
      /\ entry'.spawn = 0 \/ (entry'.spawn = entry.spawn /\ entry'.link = entry.link)
      /\ entry'.link \in {0, entry.link}
  BY <1>u, <1>q
<1> QED
  BY <1>t, <1>u, <1>p, <1>e, <1>s, <1>r, <1>z, BackendStep

-----------------------------------------------------------------------------
(* What is asked for of the run's process is on the run's link.            *)
LEMMA AskedThere ==
    ASSUME ScriptInv, entry.spawn # 0
    PROVE  /\ entry.spawn \in 1..Phantom /\ entry.link \in Links
           /\ \A l \in Links : Asked(entry.spawn, l) => l = entry.link
           /\ \A l \in Links : InLane(toMachine[l], "start", entry.spawn) => l = entry.link
           /\ \A p \in procs : p.spawn = entry.spawn => p.link = entry.link
<1>i. ScriptTypeOK /\ Fresh /\ EntryShape /\ OnOneLink
  BY DEF ScriptInv, ScriptOrder
<1>1. entry.spawn \in 1..Phantom /\ entry.link \in Links
  BY <1>i, EntryFields, ScriptRunsAssumption DEF EntryShape, Phantom
<1>0. \A l \in Links : Asked(entry.spawn, l) => entry.spawn # Phantom
  BY <1>i, <1>1, ServingFields DEF Fresh
<1>2. \A l \in Links : Asked(entry.spawn, l) => l = entry.link
  BY <1>i, <1>0, <1>1 DEF OnOneLink, OnItsLink, Named
<1>3. \A l \in Links : InLane(toMachine[l], "start", entry.spawn) => l = entry.link
  BY <1>2 DEF Asked
<1>4. \A p \in procs : p.spawn = entry.spawn => p.link = entry.link
  BY <1>i, <1>2, ProcessFields DEF Asked
<1> QED
  BY <1>1, <1>2, <1>3, <1>4

(* The run's process is let go of and told to stop.                        *)
LEMMA StopsToldOf ==
    ASSUME ScriptInv, ScriptTypeOK', entry.spawn # 0,
           orders' = orders \cup {Order("stop", entry.spawn, entry.link)},
           UNCHANGED <<serving, toMachine, toBackend, late, checkout, procs>>,
           \/ entry'.spawn = 0
           \/ entry'.spawn = entry.spawn /\ entry'.stopping,
           stopper' = stopper \/ (stopper.stage # "waiting" /\ stopper'.spawn = entry.spawn)
    PROVE  StopsFollow'
<1>i. ScriptTypeOK /\ StopsFollow
  BY DEF ScriptInv, ScriptOrder
<1>1. CASE serving.stage # "up"
  BY <1>1, StopsWhenDown
<1>2. CASE serving.stage = "up"
  <2>1. /\ entry.spawn \in 1..Phantom /\ entry.link \in Links
        /\ \A l \in Links : InLane(toMachine[l], "start", entry.spawn) => l = entry.link
        /\ \A p \in procs : p.spawn = entry.spawn => p.link = entry.link
    BY <1>2, AskedThere
  <2>2. \A x, l : x = entry.spawn /\ l = entry.link => Stopped(x, l)'
    BY DEF Stopped
  <2>3. \A x \in 1..Phantom : x # entry.spawn => (Told(x)' => Told(x))
    <3>1. \A x, l : Order("stop", x, l) \in orders' /\ x # entry.spawn => Order("stop", x, l) \in orders
      BY DEF Order
    <3>2. \A l : \A kind, x : /\ InLane(toMachine[l], kind, x)' <=> InLane(toMachine[l], kind, x)
                              /\ InLane(toBackend[l], kind, x)' <=> InLane(toBackend[l], kind, x)
      BY DEF InLane
    <3>3. \A x : x # entry.spawn /\ stopper'.stage = "waiting" /\ stopper'.spawn = x =>
                   stopper.stage = "waiting" /\ stopper.spawn = x
      OBVIOUS
    <3> QED
      BY <3>1, <3>2, <3>3, Zenon DEF Told
  <2>4. \A x \in 1..Phantom : LetGo(x)' => LetGo(x) \/ x = entry.spawn
    BY <2>3 DEF LetGo
  <2>5. \A x \in 1..Phantom : LetGo(x)' =>
               \/ LetGo(x) \/ x \in late' \/ Unasked(x)
               \/ /\ checkout' => \A l \in Links : InLane(toMachine[l], "start", x) => Stopped(x, l)'
                  /\ \A p \in procs : p.spawn = x => Stopped(x, p.link)'
    BY <2>1, <2>2, <2>4
  <2>6. checkout' => \A o \in orders' : o.kind = "start" /\ entry'.spawn = o.spawn /\ Told(o.spawn)' =>
                                  entry'.stopping \/ ~LinkUp(o.link) \/ o.spawn \in late'
    <3>1. \A o \in orders' : o.kind = "start" => o \in orders
      BY DEF Order
    <3>2. \A o \in orders' : o.kind = "start" => o.spawn # 0
      BY <1>i, <3>1, OrderFields
    <3> QED
      BY <3>2
  <2>7. \A o \in orders : o.kind = "stop" => o \in orders' \/ ~LinkUp(o.link)
    OBVIOUS
  <2> QED
    BY <1>i, <2>5, <2>6, <2>7, StopsKept
<1> QED
  BY <1>1, <1>2

(* The run has no process any more, and the one it had is late.            *)
LEMMA StopsLetGo ==
    ASSUME ScriptInv, entry'.spawn = 0, entry.spawn # 0 => entry.spawn \in late,
           UNCHANGED <<orders, serving, toMachine, toBackend, late, checkout, procs, stopper>>
    PROVE  StopsFollow'
<1>i. ScriptTypeOK /\ StopsFollow
  BY DEF ScriptInv, ScriptOrder
<1>1. \A x \in 1..Phantom : x # 0
  BY ScriptRunsAssumption DEF Phantom
<1>2. \A x \in 1..Phantom : Told(x)' => Told(x)
  BY ToldKept DEF InLane
<1>3. \A x \in 1..Phantom : LetGo(x)' => LetGo(x) \/ x \in late'
  BY <1>1, <1>2 DEF LetGo
<1>4. \A o \in orders' : o.kind = "start" => o.spawn # 0
  BY <1>i, OrderFields
<1> QED
  BY <1>i, <1>3, <1>4, StopsKept

(* StopRun: a run that is over is dismissed, a live one is to stop.        *)
LEMMA StopRunStep ==
    ASSUME ScriptInv, StopRun
    PROVE  ScriptInv'
<1>i. ScriptTypeOK /\ EntryShape /\ OneStart /\ StopsFollow /\ RunGoesOn /\ entry \in Entries /\ sleepers \in Nat
  BY DEF ScriptInv, ScriptOrder, ScriptTypeOK
<1>t. ScriptTypeOK'
  BY CallerTypes
<1>u. UNCHANGED <<ending, over, starter, sleepers, serving, taken, toMachine, toBackend, finals, finalAcks,
                  gate, sessions, procs, cleanup, checkout, spawned, late, revived>>
  BY DEF StopRun, laneVars, processVars
<1>h. entry.here /\ stopper = NoStop /\ stopper.stage = "idle" /\ stopper.spawn = 0
  BY NothingIs DEF StopRun
<1>1. CASE ~Live
  <2>1. entry' = NoRun /\ UNCHANGED <<stopper, orders>>
    BY <1>1 DEF StopRun
  <2>2. ~Live' /\ entry'.spawn = 0 /\ entry'.link = 0 /\ entry'.here = FALSE /\ entry'.status = "idle"
    BY <2>1, NoRunIs DEF Live
  <2>3. EntryShape'
    BY <1>i, <1>u, <1>h, <2>1, <2>2, ScriptRunsAssumption DEF EntryShape, OverPends, Phantom
  <2>4. entry.spawn # 0 => entry.spawn \in late
    BY <1>i, <1>1 DEF EntryShape
  <2>5. StopsFollow'
    BY <1>u, <2>1, <2>2, <2>4, StopsLetGo
  <2>6. RunGoesOn'
    BY <2>2, RunSettled
  <2> QED
    BY <1>t, <1>u, <2>1, <2>2, <2>3, <2>5, <2>6, BackendStep
<1>2. CASE Live
  <2>1. entry' = [entry EXCEPT !.stopping = TRUE]
    BY <1>2 DEF StopRun
  <2>2. /\ entry'.spawn = entry.spawn /\ entry'.link = entry.link /\ entry'.status = entry.status
        /\ entry'.stopping = TRUE
    BY <1>i, <2>1 DEF Entries
  <2>3. entry'.here = entry.here
    BY <1>i, <2>1 DEF Entries
  <2>4. Live' /\ (Live' => Live /\ entry'.status = entry.status)
    BY <1>2, <2>2 DEF Live
  <2>5. CASE entry.spawn = 0
    <3>1. stopper' = [stage |-> "between", spawn |-> 0] /\ orders' = orders
      BY <1>2, <2>5 DEF StopRun
    <3>2. stopper'.stage = "between" /\ stopper'.spawn = 0
      BY <3>1
    <3>3. EntryShape'
      BY <1>i, <1>u, <1>h, <2>2, <2>3, <2>4, <2>5, <3>2, ScriptRunsAssumption DEF EntryShape, OverPends, Phantom
    <3>4. \A x \in 1..Phantom : Told(x)' => Told(x)
      BY <1>u, <3>1, <3>2, ToldKept DEF InLane
    <3>5. \A x \in 1..Phantom : LetGo(x)' => LetGo(x)
      BY <2>2, <3>4 DEF LetGo
    <3>6. \A o \in orders' : o.kind = "start" => o.spawn # 0
      BY <1>i, <3>1, OrderFields
    <3>7. StopsFollow'
      BY <1>i, <1>u, <2>2, <2>5, <3>1, <3>5, <3>6, StopsKept
    <3>8. RunGoesOn'
      BY <1>i, <1>u, <2>2, <2>4, <2>5, RunKept
    <3>9. orders' \subseteq orders
      BY <3>1
    <3> QED
      BY <1>t, <1>u, <2>2, <3>2, <3>3, <3>7, <3>8, <3>9, BackendStep
  <2>6. CASE entry.spawn # 0
    <3>1. /\ stopper' = [stage |-> "waiting", spawn |-> entry.spawn]
          /\ orders' = orders \cup {Order("stop", entry.spawn, entry.link)}
      BY <1>2, <2>6 DEF StopRun
    <3>2. stopper'.stage = "waiting" /\ stopper'.spawn = entry.spawn
      BY <3>1
    <3>3. EntryShape'
      BY <1>i, <1>u, <1>h, <2>2, <2>3, <2>4, <2>6, <3>2 DEF EntryShape, OverPends
    <3>4. StopsFollow'
      BY <1>t, <1>u, <1>h, <2>2, <2>6, <3>1, <3>2, StopsToldOf
    <3>5. (StartPends => StartPends') /\ StopPends'
      BY <2>2, <3>1, <3>2 DEF StartPends, StopPends, OverPends
    <3>6. Asked(entry.spawn, entry.link) => Asked(entry.spawn, entry.link)'
      BY <1>u, <2>2, <3>1 DEF Asked, InLane
    <3>7. Answers => Answers'
      BY <1>u, <2>2, <3>6 DEF Answers, InLane
    <3>8. RunGoesOn'
      BY <1>i, <1>u, <2>2, <2>4, <3>5, <3>7, RunKept
    <3> QED
      BY <1>t, <1>u, <2>2, <3>1, <3>2, <3>3, <3>4, <3>8, BackendStep
  <2> QED
    BY <2>5, <2>6
<1> QED
  BY <1>1, <1>2

(* CancelScript: the run is forgotten, and its process told to stop.       *)
LEMMA CancelStep ==
    ASSUME ScriptInv, CancelScript
    PROVE  ScriptInv'
<1>i. ScriptTypeOK /\ EntryShape
  BY DEF ScriptInv, ScriptOrder
<1>t. ScriptTypeOK'
  BY CallerTypes
<1>u. UNCHANGED <<ending, over, starter, stopper, sleepers, serving, taken, toMachine, toBackend, finals, finalAcks,
                  gate, sessions, procs, cleanup, checkout, spawned, late, revived>>
  BY DEF CancelScript, laneVars, processVars
<1>2. ~Live' /\ entry'.spawn = 0 /\ entry'.link = 0 /\ entry'.here = FALSE /\ entry'.status = "idle"
  BY NoRunIs DEF Live, CancelScript
<1>3. EntryShape'
  BY <1>i, <1>u, <1>2, ScriptRunsAssumption DEF EntryShape, OverPends, Phantom
<1>4. RunGoesOn'
  BY <1>2, RunSettled
<1>5. CASE entry.spawn = 0
  <2>1. orders' = orders
    BY <1>5 DEF CancelScript
  <2>2. StopsFollow'
    BY <1>u, <1>2, <1>5, <2>1, StopsLetGo
  <2> QED
    BY <1>t, <1>u, <1>2, <1>3, <1>4, <2>1, <2>2, BackendStep
<1>6. CASE entry.spawn # 0
  <2>1. orders' = orders \cup {Order("stop", entry.spawn, entry.link)}
    BY <1>6 DEF CancelScript
  <2>2. StopsFollow'
    BY <1>t, <1>u, <1>2, <1>6, <2>1, StopsToldOf
  <2> QED
    BY <1>t, <1>u, <1>2, <1>3, <1>4, <2>1, <2>2, BackendStep
<1> QED
  BY <1>5, <1>6

(* StopBetween: the stop has met a service between two processes.          *)
LEMMA StopBetweenStep ==
    ASSUME ScriptInv, StopBetween
    PROVE  ScriptInv'
<1>i. ScriptTypeOK /\ EntryShape /\ StopsFollow /\ RunGoesOn /\ entry \in Entries /\ sleepers \in Nat
  BY DEF ScriptInv, ScriptOrder, ScriptTypeOK
<1>t. ScriptTypeOK'
  BY CallerTypes
<1>u. UNCHANGED <<ending, over, starter, orders, sleepers, serving, taken, toMachine, toBackend, finals, finalAcks,
                  gate, sessions, procs, cleanup, checkout, spawned, revived>>
  BY DEF StopBetween, laneVars, processVars
<1>1. /\ stopper' = NoStop /\ stopper'.stage = "idle" /\ stopper'.spawn = 0 /\ stopper.stage = "between"
      /\ late' = late \cup ({entry.spawn} \ {0})
  BY NothingIs DEF StopBetween
<1>2. /\ entry'.spawn = entry.spawn /\ entry'.link = entry.link
      /\ Live' => Live /\ entry'.status = entry.status
  <2>1. CASE entry.here
    <3>1. entry' = [entry EXCEPT !.stopping = FALSE, !.status = "idle"]
      BY <2>1 DEF StopBetween
    <3>2. entry'.spawn = entry.spawn /\ entry'.link = entry.link /\ entry'.status = "idle"
      BY <1>i, <3>1 DEF Entries
    <3> QED
      BY <3>2 DEF Live
  <2>2. CASE ~entry.here
    BY <2>2 DEF StopBetween, Live
  <2> QED
    BY <2>1, <2>2
<1>3. /\ entry'.here = entry.here
      /\ ~entry.here => entry' = entry
  BY <1>i DEF Entries, StopBetween
<1>4. EntryShape'
  BY <1>i, <1>u, <1>1, <1>2, <1>3 DEF EntryShape, OverPends
<1>5. StopsFollow'
  <2>1. \A x \in 1..Phantom : Told(x)' => Told(x)
    BY <1>u, <1>1, ToldKept DEF InLane
  <2>2. \A x \in 1..Phantom : LetGo(x)' => LetGo(x)
    BY <1>2, <2>1 DEF LetGo
  <2>3. checkout' => \A o \in orders' : o.kind = "start" /\ entry'.spawn = o.spawn /\ Told(o.spawn)' =>
                                  entry'.stopping \/ ~LinkUp(o.link) \/ o.spawn \in late'
    BY <1>i, <1>u, <1>1, <1>2, OrderFields
  <2>4. \A o \in orders : o.kind = "stop" => o \in orders'
    BY <1>u
  <2>5. late \subseteq late'
    BY <1>1
  <2> QED
    BY <1>i, <1>u, <2>2, <2>3, <2>4, <2>5, StopsKept
<1>6. RunGoesOn'
  <2>1. StartPends => StartPends'
    BY <1>u, <1>2 DEF StartPends
  <2>2. StopPends => StopPends'
    BY <1>u, <1>1, <1>2 DEF StopPends, OverPends
  <2>3. Answers => Answers'
    BY <1>u, <1>2 DEF Answers, Asked, InLane
  <2>4. sleepers' \in Nat /\ sleepers' >= sleepers
    BY <1>i, <1>u
  <2> QED
    BY <1>i, <1>u, <1>2, <2>1, <2>2, <2>3, <2>4, RunKept
<1>7. orders' \subseteq orders /\ late \subseteq late'
  BY <1>u, <1>1
<1> QED
  BY <1>t, <1>u, <1>1, <1>2, <1>4, <1>5, <1>6, <1>7, BackendStep

(* FinalBegun: an exit will end the run.                                   *)
LEMMA FinalBegunStep ==
    ASSUME ScriptInv, FinalBegun
    PROVE  ScriptInv'
<1>i. ScriptTypeOK /\ EntryShape /\ StopsFollow /\ RunGoesOn /\ entry \in Entries /\ sleepers \in Nat
  BY DEF ScriptInv, ScriptOrder, ScriptTypeOK
<1>t. ScriptTypeOK'
  BY ConnectorTypes
<1>u. UNCHANGED <<over, starter, stopper, orders, sleepers, serving, taken, toMachine, toBackend, finals, finalAcks,
                  gate, sessions, procs, cleanup, checkout, spawned, late, revived>>
  BY DEF FinalBegun, laneVars, processVars
<1>1. entry' = [entry EXCEPT !.stopping = entry.stopping \/ Live]
  BY DEF FinalBegun
<1>2. entry'.spawn = entry.spawn /\ entry'.link = entry.link /\ entry'.status = entry.status
  BY <1>i, <1>1 DEF Entries
<1>3. entry'.here = entry.here
  BY <1>i, <1>1 DEF Entries
<1>4. entry.stopping => entry'.stopping
  BY <1>i, <1>1 DEF Entries
<1>5. Live' <=> Live
  BY <1>2 DEF Live
<1>6. EntryShape'
  BY <1>i, <1>u, <1>2, <1>3, <1>5 DEF EntryShape, OverPends
<1>7. StopsFollow'
  <2>1. \A x \in 1..Phantom : Told(x)' => Told(x)
    BY <1>u, ToldKept DEF InLane
  <2>2. \A x \in 1..Phantom : LetGo(x)' => LetGo(x)
    BY <1>2, <2>1 DEF LetGo
  <2>3. checkout' => \A o \in orders' : o.kind = "start" /\ entry'.spawn = o.spawn /\ Told(o.spawn)' =>
                                  entry'.stopping \/ ~LinkUp(o.link) \/ o.spawn \in late'
    BY <1>i, <1>u, <1>2, <1>4, <2>1, OrderFields DEF StopsFollow
  <2>4. \A o \in orders : o.kind = "stop" => o \in orders'
    BY <1>u
  <2> QED
    BY <1>i, <1>u, <2>2, <2>3, <2>4, StopsKept
<1>8. RunGoesOn'
  <2>1. (StartPends => StartPends') /\ (StopPends => StopPends')
    BY <1>u, <1>2 DEF StartPends, StopPends, OverPends
  <2>3. Answers => Answers'
    BY <1>u, <1>2 DEF Answers, Asked, InLane
  <2>4. sleepers' \in Nat /\ sleepers' >= sleepers
    BY <1>i, <1>u
  <2> QED
    BY <1>i, <1>u, <1>2, <1>5, <2>1, <2>3, <2>4, RunKept
<1> QED
  BY <1>t, <1>u, <1>2, <1>6, <1>7, <1>8, BackendStep

(* FinalAcked, FinalExpires: the live run is drained, and will be settled. *)
LEMMA DrainedStep ==
    ASSUME ScriptInv, FinalAcked \/ FinalExpires
    PROVE  ScriptInv'
<1>i. /\ ScriptTypeOK /\ Fresh /\ EntryShape /\ StopsFollow /\ RunGoesOn /\ OneStart /\ CleanupReaches
      /\ entry \in Entries
  BY DEF ScriptInv, ScriptOrder, ScriptTypeOK
<1>t. ScriptTypeOK'
  BY ConnectorTypes
<1>u. UNCHANGED <<ending, starter, stopper, orders, sleepers, serving, taken, toMachine, toBackend, finals,
                  gate, sessions, procs, cleanup, checkout, spawned, late, revived>>
  BY DEF FinalAcked, FinalExpires, laneVars, processVars
<1>p. /\ finalAcks' \subseteq finalAcks /\ over = NotOver /\ over.stage = "none" /\ Drained
  BY NothingIs DEF FinalAcked, FinalExpires, laneVars
<1>1. CASE ~Live
  <2>1. entry' = entry /\ over' = [stage |-> "dropping", spawn |-> 0]
    BY <1>p, <1>1 DEF Drained
  <2>2. CleanupReaches'
    BY <1>i, <1>u, <1>p, SameProcs, CleanupKept
  <2> QED
    BY <1>t, <1>u, <1>p, <2>1, <2>2, QuietStep DEF OverKept, Settling
<1>2. CASE Live
  <2>1. PICK spawn : /\ spawn = IF entry.spawn = 0 THEN Phantom ELSE entry.spawn
                     /\ entry' = [entry EXCEPT !.spawn = spawn]
                     /\ over' = [stage |-> "drained", spawn |-> spawn]
    BY <1>p, <1>2 DEF Drained
  <2>2. entry'.spawn = spawn /\ entry'.link = entry.link /\ entry'.status = entry.status
    BY <1>i, <2>1 DEF Entries
  <2>3. entry'.here = entry.here
    BY <1>i, <2>1 DEF Entries
  <2>4. entry'.stopping = entry.stopping
    BY <1>i, <2>1 DEF Entries
  <2>5. /\ spawn # 0 /\ (entry.spawn # 0 => spawn = entry.spawn) /\ (entry.spawn = 0 => spawn = Phantom)
        /\ over'.stage = "drained" /\ over'.spawn = spawn
    BY <2>1, ScriptRunsAssumption DEF Phantom
  <2>6. Live' /\ entry.here /\ OverPends'
    BY <1>i, <1>2, <2>2, <2>5 DEF Live, EntryShape, OverPends
  <2>7. EntryShape'
    BY <1>i, <1>u, <2>2, <2>3, <2>5, <2>6 DEF EntryShape
  <2>8. RunGoesOn'
    <3>1. StopPends' /\ entry'.spawn # 0
      BY <2>2, <2>5, <2>6, Zenon DEF StopPends
    <3> QED
      BY <3>1, Zenon DEF RunGoesOn
  <2>9. StopsFollow'
    <3>1. \A x \in 1..Phantom : Told(x)' => Told(x)
      BY <1>u, ToldKept DEF InLane
    <3>2. \A x \in 1..Phantom : LetGo(x)' => LetGo(x)
      <4>1. \A x \in 1..Phantom : entry.spawn = x => entry'.spawn = x
        BY <2>2, <2>5
      <4> QED
        BY <3>1, <4>1 DEF LetGo
    <3>3. \A o \in orders : o.kind = "start" /\ entry'.spawn = o.spawn => entry.spawn = o.spawn
      <4>1. ASSUME NEW o \in orders, o.kind = "start" PROVE o.spawn # Phantom
        <5>1. o.spawn \in 1..Phantom /\ o.link \in Links /\ o = Order("start", o.spawn, o.link)
          BY <1>i, <4>1, OrderFields
        <5>2. o.spawn <= spawned
          BY <1>i, <4>1, <5>1 DEF Fresh, Asked
        <5> QED
          BY <1>i, <5>1, <5>2, ServingFields
      <4> QED
        BY <2>2, <2>5, <4>1
    <3>4. checkout' => \A o \in orders' : o.kind = "start" /\ entry'.spawn = o.spawn /\ Told(o.spawn)' =>
                                  entry'.stopping \/ ~LinkUp(o.link) \/ o.spawn \in late'
      BY <1>i, <1>u, <2>4, <3>1, <3>3, OrderFields DEF StopsFollow
    <3>5. \A o \in orders : o.kind = "stop" => o \in orders'
      BY <1>u
    <3> QED
      BY <1>i, <1>u, <3>2, <3>4, <3>5, StopsKept
  <2>10. entry'.spawn \in {0, Phantom} \/ (entry'.spawn = entry.spawn /\ entry'.link = entry.link)
    BY <2>2, <2>5
  <2> QED
    BY <1>t, <1>u, <1>p, <2>2, <2>7, <2>8, <2>9, <2>10, BackendStep
<1> QED
  BY <1>1, <1>2

(* What the end of a final stop gives up is late, or no process was left   *)
(* when it was acknowledged that is not.                                   *)
LEMMA StopsGivenUp ==
    ASSUME ScriptInv, late' = GivenUp, entry'.spawn \in {0, entry.spawn},
           UNCHANGED <<orders, serving, toMachine, toBackend, checkout, procs, stopper>>
    PROVE  StopsFollow' /\ late \subseteq late'
<1>i. ScriptTypeOK /\ StopsFollow /\ CleanupReaches
  BY DEF ScriptInv, ScriptOrder
<1>1. late \subseteq late' /\ (checkout /\ entry.spawn # 0 => entry.spawn \in late')
  BY DEF GivenUp
<1>2. ~checkout => \A p \in procs : p.spawn \in late'
  BY <1>i, <1>1 DEF CleanupReaches
<1>3. \A x \in 1..Phantom : x # 0
  BY ScriptRunsAssumption DEF Phantom
<1>4. \A x \in 1..Phantom : Told(x)' => Told(x)
  BY ToldKept DEF InLane
<1>5. \A x, l : x \in late' => Stopped(x, l)'
  BY DEF Stopped
<1>6. ASSUME NEW x \in 1..Phantom, LetGo(x)'
      PROVE  \/ LetGo(x) \/ x \in late'
             \/ /\ checkout' => \A l \in Links : InLane(toMachine[l], "start", x) => Stopped(x, l)'
                /\ \A p \in procs' : p.spawn = x => Stopped(x, p.link)'
  <2>1. CASE checkout
    BY <1>1, <1>3, <1>4, <1>6, <2>1 DEF LetGo
  <2>2. CASE ~checkout
    BY <1>2, <1>5, <2>2
  <2> QED
    BY <2>1, <2>2
<1>7. \A o \in orders : o.kind = "start" => o.spawn # 0
  BY <1>i, OrderFields
<1>8. checkout' => \A o \in orders' : o.kind = "start" /\ entry'.spawn = o.spawn => o.spawn \in late'
  BY <1>1, <1>7
<1> QED
  BY <1>i, <1>1, <1>6, <1>8, StopsKept

(* FinalLoses: an exit no longer ends the run.                             *)
LEMMA FinalLosesStep ==
    ASSUME ScriptInv, FinalLoses
    PROVE  ScriptInv'
<1>i. /\ ScriptTypeOK /\ EntryShape /\ RunGoesOn /\ entry \in Entries /\ over \in Overs /\ sleepers \in Nat
  BY DEF ScriptInv, ScriptOrder, ScriptTypeOK
<1>t. ScriptTypeOK'
  BY ConnectorTypes
<1>u. UNCHANGED <<ending, starter, stopper, orders, sleepers, serving, taken, toMachine, toBackend, finals, finalAcks,
                  gate, sessions, procs, cleanup, checkout, spawned, revived>>
  BY DEF FinalLoses, laneVars, processVars
<1>1. /\ over.stage = "drained" /\ over'.stage = "losing" /\ over'.spawn = over.spawn
  BY <1>i DEF FinalLoses, Overs
<1>2. entry'.spawn = entry.spawn /\ entry'.link = entry.link /\ entry'.status = entry.status
  BY <1>i DEF FinalLoses, Entries
<1>3. entry'.here = entry.here
  BY <1>i DEF FinalLoses, Entries
<1>4. (OverPends' <=> OverPends) /\ (Live' <=> Live)
  BY <1>1, <1>2 DEF OverPends, Live
<1>5. late' = GivenUp
  BY DEF FinalLoses
<1>6. StopsFollow' /\ late \subseteq late'
  BY <1>u, <1>2, <1>5, StopsGivenUp
<1>7. EntryShape'
  BY <1>i, <1>u, <1>1, <1>2, <1>3, <1>4, <1>6 DEF EntryShape
<1>8. RunGoesOn'
  <2>1. (StartPends => StartPends') /\ (StopPends => StopPends')
    BY <1>u, <1>2, <1>4 DEF StartPends, StopPends
  <2>3. Answers => Answers'
    BY <1>u, <1>2 DEF Answers, Asked, InLane
  <2>4. sleepers' \in Nat /\ sleepers' >= sleepers
    BY <1>i, <1>u
  <2> QED
    BY <1>i, <1>u, <1>2, <1>4, <2>1, <2>3, <2>4, RunKept
<1> QED
  BY <1>t, <1>u, <1>2, <1>6, <1>7, <1>8, BackendStep

(* FinalSettles: the run is settled as lost.                               *)
LEMMA FinalSettlesStep ==
    ASSUME ScriptInv, FinalSettles
    PROVE  ScriptInv'
<1>i. /\ ScriptTypeOK /\ EntryShape /\ RunGoesOn /\ sleepers \in Nat
  BY DEF ScriptInv, ScriptOrder, ScriptTypeOK
<1>t. ScriptTypeOK'
  BY ConnectorTypes
<1>u. UNCHANGED <<ending, starter, stopper, orders, serving, taken, toMachine, toBackend, finals, finalAcks,
                  gate, sessions, procs, cleanup, checkout, spawned, revived>>
  BY DEF FinalSettles, laneVars, processVars
<1>p. /\ over.stage = "losing" /\ over'.stage = "dropping" /\ Settle(over.spawn, TRUE) /\ late' = GivenUp
      /\ over.spawn # 0
  BY <1>i DEF FinalSettles, EntryShape
<1>q. /\ sleepers' \in Nat /\ sleepers' >= sleepers
      /\ entry.spawn # over.spawn => entry' = entry /\ sleepers' = sleepers
      /\ entry.spawn = over.spawn =>
           /\ entry'.spawn = 0 /\ entry'.here = entry.here /\ entry'.link = entry.link
           /\ entry'.status \in {"idle", "restarting", "exited"}
           /\ entry'.status = "restarting" => sleepers' > 0
  BY <1>i, <1>p, Settles
<1>6. StopsFollow' /\ late \subseteq late'
  BY <1>u, <1>p, <1>q, StopsGivenUp
<1>1. CASE entry.spawn = over.spawn
  <2>1. entry.here /\ Phantom # 0
    BY <1>i, <1>p, <1>1, ScriptRunsAssumption DEF EntryShape, Phantom
  <2>2. EntryShape'
    BY <1>i, <1>u, <1>p, <1>q, <1>1, <2>1 DEF EntryShape
  <2>3. RunGoesOn'
    BY <1>q, <1>1, RunSettled DEF Live
  <2>4. entry'.spawn = 0 /\ entry'.link = entry.link
    BY <1>q, <1>1
  <2> QED
    BY <1>t, <1>u, <1>6, <2>2, <2>3, <2>4, BackendStep
<1>2. CASE entry.spawn # over.spawn
  <2>1. entry' = entry /\ sleepers' = sleepers /\ (Live' => Live) /\ ~OverPends
    BY <1>q, <1>2 DEF Live, OverPends
  <2>2. EntryShape'
    BY <1>i, <1>u, <1>p, <1>6, <2>1 DEF EntryShape, Live
  <2>3. RunGoesOn'
    <3>1. (StartPends => StartPends') /\ (StopPends => StopPends')
      BY <1>u, <2>1 DEF StartPends, StopPends
    <3>2. Answers => Answers'
      BY <1>u, <2>1 DEF Answers, Asked, InLane
    <3> QED
      BY <1>i, <1>u, <1>q, <2>1, <3>1, <3>2, RunKept
  <2> QED
    BY <1>t, <1>u, <1>6, <2>1, <2>2, <2>3, BackendStep
<1> QED
  BY <1>1, <1>2

(* FinalDrops: the entry is dropped, whatever it has become.               *)
LEMMA FinalDropsStep ==
    ASSUME ScriptInv, FinalDrops
    PROVE  ScriptInv'
<1>i. ScriptTypeOK /\ EntryShape /\ over \in Overs
  BY DEF ScriptInv, ScriptOrder, ScriptTypeOK
<1>t. ScriptTypeOK'
  BY ConnectorTypes
<1>u. UNCHANGED <<ending, starter, stopper, orders, sleepers, serving, taken, toMachine, toBackend, finals, finalAcks,
                  gate, sessions, procs, cleanup, checkout, spawned, revived>>
  BY DEF FinalDrops, laneVars, processVars
<1>1. over'.stage = "leaving" /\ late' = GivenUp
  BY <1>i DEF FinalDrops, Overs
<1>2. ~Live' /\ entry'.spawn = 0 /\ entry'.link = 0 /\ entry'.here = FALSE /\ entry'.status = "idle"
  BY NoRunIs DEF Live, FinalDrops
<1>3. EntryShape'
  BY <1>i, <1>u, <1>1, <1>2, ScriptRunsAssumption DEF EntryShape, Phantom
<1>4. RunGoesOn'
  BY <1>2, RunSettled
<1>6. StopsFollow' /\ late \subseteq late'
  BY <1>u, <1>1, <1>2, StopsGivenUp
<1> QED
  BY <1>t, <1>u, <1>2, <1>3, <1>4, <1>6, BackendStep
-----------------------------------------------------------------------------
(* A process is asked for under an id that nothing names.                  *)
LEMMA NewSpawn ==
    ASSUME ScriptInv, ScriptTypeOK', NEW link \in Links, link <= serving.link,
           spawned < MaxSpawns, spawned' = spawned + 1, entry.spawn = 0 \/ entry.spawn \in late,
           entry'.spawn = spawned', entry'.link = link, entry'.here, entry'.status = "starting",
           orders' = orders \cup {Order("start", spawned', link)}, starter' \in {0, starter},
           UNCHANGED <<over, stopper, serving, taken, toMachine, toBackend, finalAcks, sessions, procs, cleanup,
                       checkout, late>>
    PROVE  ScriptInv'
<1>i. /\ ScriptTypeOK /\ Fresh /\ EntryShape /\ OneStart /\ OnOneLink /\ SessionsServe /\ CleanupReaches
      /\ StopsFollow /\ RunGoesOn
  BY DEF ScriptInv, ScriptOrder
<1>p. PICK n \in Nat : n = spawned + 1
  BY <1>i, ServingFields
<1>n. /\ n \in 1..Phantom /\ n # Phantom /\ n # 0 /\ n > spawned /\ spawned \in Nat /\ Phantom \in Nat
      /\ ~Known(n) /\ spawned' = n
  BY <1>i, <1>p, ServingFields DEF Known
<1>k. \A x \in 0..Phantom : (Known(x) => Known(x)' /\ x # n) /\ (x = n => Known(x)')
  BY <1>n DEF Known
<1>a. /\ Order("start", n, link) \in orders' /\ orders \subseteq orders'
      /\ \A o \in orders' : o.kind = "start" /\ o.spawn # n => o \in orders
      /\ \A o \in orders' : o.kind = "stop" => o \in orders
      /\ \A o \in orders' : o \in orders \/ o = Order("start", n, link)
      /\ \A x, l : Order("start", x, l) \in orders' =>
                     Order("start", x, l) \in orders \/ (x = n /\ l = link)
      /\ \A x, l : Order("stop", x, l) \in orders' => Order("stop", x, l) \in orders
  BY <1>n DEF Order
<1>b. \A l : \A kind, x : /\ InLane(toMachine[l], kind, x)' <=> InLane(toMachine[l], kind, x)
                          /\ InLane(toBackend[l], kind, x)' <=> InLane(toBackend[l], kind, x)
  BY DEF InLane
<1>c. /\ \A x, l : Asked(x, l)' => Asked(x, l) \/ (x = n /\ l = link)
      /\ \A l : l = link => Asked(n, l)'
  BY <1>a, <1>b DEF Asked
<1>d. \A x, l : Named(x, l)' => Named(x, l) \/ (x = n /\ l = link)
  BY <1>a, <1>b, <1>c DEF Named
<1>e. \A l \in Links : ~Named(n, l)
  BY <1>i, <1>n DEF Fresh
<1>g. /\ \A o \in orders : o.spawn # n
      /\ \A l \in Links : ~InLane(toMachine[l], "start", n)
      /\ \A p \in procs : p.spawn # n
  <2>1. ASSUME NEW o \in orders PROVE o.spawn # n
    <3>1. o.kind \in {"start", "stop"} /\ o.link \in Links /\ o = Order(o.kind, o.spawn, o.link)
      BY <1>i, OrderFields
    <3> QED
      BY <1>e, <3>1 DEF Named, Asked
  <2>2. \A l \in Links : ~InLane(toMachine[l], "start", n)
    BY <1>e DEF Named, Asked
  <2>3. ASSUME NEW p \in procs PROVE p.spawn # n
    BY <1>i, <1>e, ProcessFields DEF Named, Asked
  <2> QED
    BY <2>1, <2>2, <2>3
<1>1. Fresh'
  <2>1. /\ Known(entry.spawn)' /\ Known(stopper.spawn)' /\ taken' <= spawned'
        /\ entry'.link <= serving'.link /\ starter' <= serving'.link
        /\ \A l \in sessions' : l <= serving'.link
    <3>1. stopper.spawn \in 0..Phantom /\ taken \in Nat /\ starter \in Nat /\ serving.link \in Nat
      BY <1>i, ServingFields
    <3>2. Known(stopper.spawn) /\ taken <= spawned /\ starter <= serving.link /\ \A l \in sessions : l <= serving.link
      BY <1>i DEF Fresh
    <3>3. Known(stopper.spawn)'
      BY <1>k, <3>1, <3>2 DEF Known
    <3>4. Known(entry.spawn)'
      BY <1>n DEF Known
    <3> QED
      BY <1>n, <3>1, <3>2, <3>3, <3>4
  <2>2. ASSUME NEW x \in 1..Phantom, NEW l \in Links
        PROVE  /\ Named(x, l)' => Known(x)' /\ l <= serving'.link
               /\ Asked(x, l)' => x <= spawned'
    <3>1. x \in 0..Phantom /\ x \in Nat
      BY <1>n
    <3>2. /\ Named(x, l) => Known(x) /\ l <= serving.link
          /\ Asked(x, l) => x <= spawned
      BY <1>i DEF Fresh
    <3>3. Named(x, l)' => Known(x)' /\ l <= serving'.link
      BY <1>d, <1>k, <3>1, <3>2
    <3>4. Asked(x, l)' => x <= spawned'
      BY <1>c, <1>n, <3>1, <3>2
    <3> QED
      BY <3>3, <3>4
  <2> QED
    BY <2>1, <2>2, Zenon DEF Fresh
<1>2. EntryShape'
  <2>1. Live'
    BY DEF Live
  <2> QED
    BY <1>i, <1>n, <2>1 DEF EntryShape
<1>3. OneStart'
  <2>1. \A o, q \in orders' : o.kind = "start" /\ q.kind = "start" /\ o.spawn = q.spawn => o = q
    <3>1. \A o, q \in orders : o.kind = "start" /\ q.kind = "start" /\ o.spawn = q.spawn => o = q
      BY <1>i, Zenon DEF OneStart
    <3>2. \A o \in orders' : o.kind = "start" /\ o.spawn = n => o = Order("start", n, link)
      BY <1>a, <1>g
    <3> QED
      BY <1>a, <3>1, <3>2
  <2>2. \A o \in orders' : o.kind = "start" =>
         /\ \A l \in Links : ~InLane(toMachine'[l], "start", o.spawn)
         /\ \A p \in procs' : p.spawn # o.spawn
    <3>1. \A o \in orders : o.kind = "start" =>
         /\ \A l \in Links : ~InLane(toMachine[l], "start", o.spawn)
         /\ \A p \in procs : p.spawn # o.spawn
      BY <1>i, Zenon DEF OneStart
    <3>2. \A o \in orders' : o.spawn = n \/ o \in orders
      BY <1>a DEF Order
    <3> QED
      BY <1>g, <3>1, <3>2
  <2>3. /\ \A l, k \in Links : \A i \in LaneIds(l)', j \in LaneIds(k)' :
             toMachine'[l][i].kind = "start" /\ toMachine'[k][j].kind = "start"
               /\ toMachine'[l][i].spawn = toMachine'[k][j].spawn => l = k /\ i = j
        /\ \A p \in procs' : \A l \in Links : ~InLane(toMachine'[l], "start", p.spawn)
        /\ \A p, q \in procs' : p.spawn = q.spawn => p = q
    BY <1>i DEF OneStart, LaneIds
  <2> QED
    BY <2>1, <2>2, <2>3, Zenon DEF OneStart, InLane
<1>4. OnOneLink'
  <2>1. \A x \in 1..Phantom, l \in Links : Named(x, l)' => OnItsLink(x, l)'
    BY <1>d, <1>e, <1>n DEF OnItsLink
  <2>2. taken' # 0 => serving'.stage = "up" /\ OnItsLink(taken, serving.link)'
    BY <1>i, <1>n, ServingFields DEF OnOneLink, OnItsLink, Fresh
  <2> QED
    BY <2>1, <2>2 DEF OnOneLink
<1>5. SessionsServe' /\ CleanupReaches'
  BY <1>i, SameProcs, SessionsKept, CleanupKept
<1>6. StopsFollow'
  <2>1. ~Told(n)'
    <3>1. ~(stopper.stage = "waiting" /\ stopper.spawn = n)
      BY <1>i, <1>n DEF Fresh
    <3> QED
      BY <1>a, <1>b, <1>e, <3>1, Zenon DEF Told, Named
  <2>2. \A o \in orders' : ~(o.kind = "start" /\ entry'.spawn = o.spawn /\ Told(o.spawn)')
    BY <1>n, <2>1
  <2>3. \A x \in 1..Phantom : LetGo(x) \/ x \in late'
    BY ScriptRunsAssumption DEF LetGo, Phantom
  <2> QED
    BY <1>i, <1>a, <2>2, <2>3, StopsKept
<1>7. RunGoesOn'
  <2>1. StartPends'
    BY <1>a, <1>n DEF StartPends
  <2>2. Asked(entry.spawn, entry.link)'
    BY <2>1, Zenon DEF StartPends, Asked
  <2> QED
    BY <1>n, <2>1, <2>2, Zenon DEF RunGoesOn
<1> QED
  BY <1>1, <1>2, <1>3, <1>4, <1>5, <1>6, <1>7, Zenon DEF ScriptInv, ScriptOrder

(* StartRegisters: a start is refused, or registers its process.           *)
LEMMA StartRegistersStep ==
    ASSUME ScriptInv, StartRegisters
    PROVE  ScriptInv'
<1>i. ScriptTypeOK /\ Fresh /\ EntryShape /\ OneStart /\ CleanupReaches
  BY DEF ScriptInv, ScriptOrder
<1>t. ScriptTypeOK'
  BY CallerTypes
<1>u. UNCHANGED <<ending, over, stopper, sleepers, serving, taken, toMachine, toBackend, finals, finalAcks,
                  gate, sessions, procs, cleanup, checkout, late, revived>>
  BY DEF StartRegisters, laneVars, processVars
<1>s. starter # 0 /\ starter' = 0
  BY DEF StartRegisters
<1>1. CASE ending \/ Live
  <2>1. UNCHANGED <<entry, orders, spawned>>
    BY <1>1 DEF StartRegisters
  <2>2. CleanupReaches'
    BY <1>i, <1>u, SameProcs, CleanupKept
  <2> QED
    BY <1>t, <1>u, <1>s, <2>1, <2>2, QuietStep DEF OverKept
<1>2. CASE ~(ending \/ Live)
  <2>1. /\ spawned < MaxSpawns /\ spawned' = spawned + 1
        /\ orders' = orders \cup {Order("start", spawned', starter)}
    BY <1>2 DEF StartRegisters
  <2>2. PICK service \in BOOLEAN :
          entry' = [NoRun EXCEPT !.here = TRUE, !.service = service, !.link = starter,
                                 !.spawn = spawned', !.status = "starting"]
    BY <1>2 DEF StartRegisters
  <2>3. entry'.spawn = spawned' /\ entry'.link = starter /\ entry'.status = "starting"
    BY <2>2 DEF NoRun
  <2>4. entry'.here
    BY <2>2 DEF NoRun
  <2>5. starter \in Links /\ starter <= serving.link
    BY <1>i, <1>s, ServingFields DEF Fresh, Links
  <2>6. entry.spawn = 0 \/ entry.spawn \in late
    BY <1>i, <1>2 DEF EntryShape
  <2> QED
    BY <1>t, <1>u, <1>s, <2>1, <2>3, <2>4, <2>5, <2>6, NewSpawn
<1> QED
  BY <1>1, <1>2

(* Respawn: a restart whose backoff is over finds the run as it left it,   *)
(* or leaves it alone.                                                     *)
LEMMA RespawnStep ==
    ASSUME ScriptInv, Respawn
    PROVE  ScriptInv'
<1>i. /\ ScriptTypeOK /\ Fresh /\ EntryShape /\ OneStart /\ CleanupReaches /\ StopsFollow /\ RunGoesOn
      /\ entry \in Entries
  BY DEF ScriptInv, ScriptOrder, ScriptTypeOK
<1>t. ScriptTypeOK'
  BY CallerTypes
<1>u. UNCHANGED <<ending, over, starter, stopper, serving, taken, toMachine, toBackend, finals, finalAcks,
                  gate, sessions, procs, cleanup, checkout, late, revived>>
  BY DEF Respawn, laneVars, processVars
<1>1. CASE entry.status # "restarting" \/ entry.spawn # 0
  <2>1. UNCHANGED <<entry, orders, spawned>>
    BY <1>1 DEF Respawn
  <2>2. EntryShape'
    BY <1>i, <1>u, <2>1 DEF EntryShape, OverPends, Live
  <2>3. StopsFollow'
    <3>1. \A x \in 1..Phantom : Told(x)' => Told(x)
      BY <1>u, <2>1, ToldKept DEF InLane
    <3>2. \A x \in 1..Phantom : LetGo(x)' => LetGo(x)
      BY <2>1, <3>1 DEF LetGo
    <3>3. checkout' => \A o \in orders : o.kind = "start" /\ entry.spawn = o.spawn /\ Told(o.spawn)' =>
                              entry.stopping \/ ~LinkUp(o.link) \/ o.spawn \in late
      BY <1>i, <1>u, <3>1, OrderFields DEF StopsFollow
    <3> QED
      BY <1>i, <1>u, <2>1, <3>2, <3>3, StopsKept
  <2>4. RunGoesOn'
    <3>1. /\ Asked(entry.spawn, entry.link)' <=> Asked(entry.spawn, entry.link)
          /\ InLane(toBackend[entry.link], "exited", entry.spawn)'
               <=> InLane(toBackend[entry.link], "exited", entry.spawn)
      BY <1>u, <2>1 DEF Asked, InLane
    <3>2. (StartPends' <=> StartPends) /\ (StopPends' <=> StopPends)
      BY <1>u, <2>1 DEF StartPends, StopPends, OverPends
    <3>3. (LinkUp(entry.link)' <=> LinkUp(entry.link)) /\ (Live' <=> Live)
      BY <1>u, <2>1 DEF LinkUp, Live
    <3>4. ~(~revived /\ Live /\ entry.spawn = 0)
      BY <1>i, <1>1 DEF RunGoesOn
    <3>5. /\ ~revived /\ entry.spawn # 0 /\ LinkUp(entry.link) =>
               \/ Asked(entry.spawn, entry.link) \/ InLane(toBackend[entry.link], "exited", entry.spawn)
               \/ StopPends \/ serving.link \notin sessions
          /\ ~revived /\ entry.spawn # 0 /\ Live /\ ~LinkUp(entry.link)
             /\ serving.stage \in {"down", "up"} => StartPends \/ StopPends
          /\ serving.stage = "losing" /\ entry.spawn \notin {0, serving.spawn} => StartPends \/ StopPends
      BY <1>i DEF RunGoesOn
    <3> QED
      BY <1>u, <2>1, <3>1, <3>2, <3>3, <3>4, <3>5 DEF RunGoesOn
  <2> QED
    BY <1>t, <1>u, <2>1, <2>2, <2>3, <2>4, BackendStep
<1>2. CASE entry.status = "restarting" /\ entry.spawn = 0 /\ entry.stopping
  <2>1. entry' = [entry EXCEPT !.stopping = FALSE, !.status = "idle"] /\ UNCHANGED <<orders, spawned>>
    BY <1>2 DEF Respawn
  <2>2. entry'.spawn = 0 /\ entry'.link = entry.link /\ entry'.status = "idle"
    BY <1>i, <1>2, <2>1 DEF Entries
  <2>3. entry'.here = entry.here
    BY <1>i, <2>1 DEF Entries
  <2>4. EntryShape'
    BY <1>i, <1>u, <2>2, <2>3, ScriptRunsAssumption DEF EntryShape, OverPends, Phantom
  <2>5. StopsFollow'
    BY <1>u, <1>2, <2>1, <2>2, StopsLetGo
  <2>6. RunGoesOn'
    BY <2>2, RunSettled DEF Live
  <2> QED
    BY <1>t, <1>u, <2>1, <2>2, <2>4, <2>5, <2>6, BackendStep
<1>3. CASE entry.status = "restarting" /\ entry.spawn = 0 /\ ~entry.stopping
  <2>1. /\ spawned < MaxSpawns /\ spawned' = spawned + 1
        /\ entry' = [entry EXCEPT !.spawn = spawned', !.status = "starting"]
        /\ orders' = orders \cup {Order("start", spawned', entry.link)}
    BY <1>3 DEF Respawn
  <2>2. entry'.spawn = spawned' /\ entry'.link = entry.link /\ entry'.status = "starting"
    BY <1>i, <2>1 DEF Entries
  <2>3. entry'.here = entry.here
    BY <1>i, <2>1 DEF Entries
  <2>4. entry.here /\ entry.link \in Links /\ entry.link <= serving.link
    BY <1>i, <1>3 DEF EntryShape, Fresh
  <2> QED
    BY <1>t, <1>u, <1>3, <2>1, <2>2, <2>3, <2>4, NewSpawn
<1> QED
  BY <1>1, <1>2, <1>3
-----------------------------------------------------------------------------
(* Stops follow where the entry, the orders and the processes stay and no  *)
(* exit is reported.                                                       *)
LEMMA StopsSame ==
    ASSUME ScriptInv,
           UNCHANGED <<orders, serving, toMachine, late, checkout, procs, stopper>>,
           entry'.spawn = entry.spawn, entry.stopping => entry'.stopping,
           \A l \in Links : \A kind, x : InLane(toBackend[l], kind, x)' => InLane(toBackend[l], kind, x)
    PROVE  StopsFollow'
<1>i. ScriptTypeOK /\ StopsFollow
  BY DEF ScriptInv, ScriptOrder
<1>1. \A l \in Links : \A x : InLane(toMachine[l], "stop", x)' <=> InLane(toMachine[l], "stop", x)
  BY DEF InLane
<1>2. \A x \in 1..Phantom : Told(x)' => Told(x)
  BY <1>1, ToldKept
<1>3. \A x \in 1..Phantom : LetGo(x)' => LetGo(x)
  BY <1>2 DEF LetGo
<1>4. checkout' => \A o \in orders : o.kind = "start" /\ entry.spawn = o.spawn /\ Told(o.spawn)' =>
                          entry.stopping \/ ~LinkUp(o.link) \/ o.spawn \in late
  BY <1>i, <1>2, OrderFields DEF StopsFollow
<1> QED
  BY <1>i, <1>3, <1>4, StopsKept

(* StartedTaken: on_frame finds the run whose process has started.         *)
LEMMA StartedTakenStep ==
    ASSUME ScriptInv, StartedTaken
    PROVE  ScriptInv'
<1>i. /\ ScriptTypeOK /\ Fresh /\ EntryShape /\ OneStart /\ OnOneLink /\ SessionsServe /\ CleanupReaches
      /\ StopsFollow /\ RunGoesOn
  BY DEF ScriptInv, ScriptOrder
<1>t. ScriptTypeOK'
  BY ConnectorTypes
<1>u. UNCHANGED <<entry, ending, over, starter, stopper, orders, sleepers, serving, toMachine, finals, finalAcks,
                  gate, sessions, procs, cleanup, checkout, spawned, late, revived>>
  BY DEF StartedTaken, callerVars, processVars
<1>p. /\ Incoming.kind = "started" /\ Received /\ taken = 0
      /\ taken' = IF entry.spawn = Incoming.spawn THEN entry.spawn ELSE 0
  BY DEF StartedTaken
<1>q. /\ serving.stage = "up" /\ serving.link \in Links /\ Incoming.spawn \in 1..Phantom
      /\ Incoming.spawn # Phantom
  BY <1>i, <1>p, IncomingIs
<1>b. /\ InLane(toBackend[serving.link], "started", Incoming.spawn)
      /\ \A l \in Links : \A kind, x :
           InLane(toBackend[l], kind, x)' => InLane(toBackend[l], kind, x)
      /\ \A l \in Links : \A kind, x :
           InLane(toBackend[l], kind, x) =>
               \/ InLane(toBackend[l], kind, x)'
               \/ l = serving.link /\ kind = "started" /\ x = Incoming.spawn
  BY <1>i, <1>p, ReportRead
<1>n. \A x \in 1..Phantom, l \in Links :
        /\ Named(x, l)' => Named(x, l) \/ (x = entry.spawn /\ l = entry.link)
        /\ Asked(x, l)' => Asked(x, l)
  BY <1>u, <1>b, NothingNamed
<1>1. Fresh'
  <2>2. taken' <= spawned
    BY <1>i, <1>p, <1>q, ServingFields, EntryFields DEF Fresh, Known
  <2>3. serving'.link >= serving.link
    BY <1>i, <1>u, ServingFields
  <2> QED
    BY <1>i, <1>t, <1>u, <1>n, <2>2, <2>3, FreshKept
<1>2. EntryShape'
  BY <1>i, <1>u DEF EntryShape, OverPends, Live
<1>3. OneStart' /\ SessionsServe' /\ CleanupReaches'
  BY <1>i, <1>u, SameProcs, OneStartKept, SessionsKept, CleanupKept
<1>4. OnOneLink'
  <2>1. \A x, l : OnItsLink(x, l) => OnItsLink(x, l)'
    BY <1>u DEF OnItsLink
  <2>2. OnItsLink(entry.spawn, entry.link)
    BY DEF OnItsLink
  <2>3. \A x \in 1..Phantom, l \in Links : Named(x, l)' => OnItsLink(x, l)'
    BY <1>i, <1>n, <2>1, <2>2 DEF OnOneLink
  <2>4. OnItsLink(Incoming.spawn, serving.link)
    BY <1>i, <1>q, <1>b DEF OnOneLink, Named
  <2>5. taken' # 0 => serving'.stage = "up" /\ OnItsLink(taken, serving.link)'
    BY <1>p, <1>q, <1>u, <2>4 DEF OnItsLink
  <2> QED
    BY <2>3, <2>5 DEF OnOneLink
<1>5. StopsFollow'
  BY <1>u, <1>b, StopsSame
<1>6. RunGoesOn'
  BY <1>i, <1>u, <1>b, SameRun DEF OverKept
<1> QED
  BY <1>t, <1>1, <1>2, <1>3, <1>4, <1>5, <1>6 DEF ScriptInv, ScriptOrder

(* StartedApplied: the run is running.                                     *)
LEMMA StartedAppliedStep ==
    ASSUME ScriptInv, StartedApplied
    PROVE  ScriptInv'
<1>i. /\ ScriptTypeOK /\ Fresh /\ EntryShape /\ OnOneLink /\ StopsFollow /\ RunGoesOn /\ entry \in Entries
  BY DEF ScriptInv, ScriptOrder, ScriptTypeOK
<1>t. ScriptTypeOK'
  BY ConnectorTypes
<1>u. UNCHANGED <<ending, over, starter, stopper, orders, sleepers, serving, toMachine, toBackend, finals, finalAcks,
                  gate, sessions, procs, cleanup, checkout, spawned, late>>
  BY DEF StartedApplied, laneVars, processVars
<1>p. /\ taken # 0 /\ taken' = 0 /\ serving.stage = "up" /\ OnItsLink(taken, serving.link)
      /\ entry' = IF entry.here THEN [entry EXCEPT !.status = "running"] ELSE entry
      /\ revived' = (revived \/ (entry.here /\ entry.spawn # taken))
  BY <1>i DEF StartedApplied, OnOneLink
<1>b. \A l : \A kind, x : InLane(toBackend[l], kind, x)' <=> InLane(toBackend[l], kind, x)
  BY <1>u DEF InLane
<1>1. CASE ~entry.here
  <2>1. entry' = entry /\ (revived => revived')
    BY <1>1, <1>p
  <2>2. EntryShape'
    BY <1>i, <1>u, <2>1 DEF EntryShape, OverPends, Live
  <2>3. StopsFollow'
    BY <1>u, <1>b, <2>1, StopsSame
  <2>4. RunGoesOn'
    <3>1. entry.spawn = 0 /\ ~Live
      BY <1>i, <1>1 DEF EntryShape, Live
    <3> QED
      BY <2>1, <3>1, RunSettled DEF Live
  <2> QED
    BY <1>t, <1>u, <1>p, <2>1, <2>2, <2>3, <2>4, BackendStep
<1>2. CASE entry.here
  <2>1. entry' = [entry EXCEPT !.status = "running"]
    BY <1>2, <1>p
  <2>2. entry'.spawn = entry.spawn /\ entry'.link = entry.link /\ entry'.status = "running"
    BY <1>i, <2>1 DEF Entries
  <2>3. entry'.here = entry.here
    BY <1>i, <2>1 DEF Entries
  <2>4. entry'.stopping = entry.stopping
    BY <1>i, <2>1 DEF Entries
  <2>5. EntryShape'
    BY <1>i, <1>u, <1>2, <2>2, <2>3 DEF EntryShape, OverPends, Live
  <2>6. StopsFollow'
    BY <1>u, <1>b, <2>2, <2>4, StopsSame
  <2>7. RunGoesOn'
    <3>1. serving'.stage # "losing"
      BY <1>p, <1>u
    <3>2. CASE entry.spawn # taken
      <4>1. revived'
        BY <1>2, <1>p, <3>2
      <4> QED
        BY <3>1, <4>1, Zenon DEF RunGoesOn
    <3>3. CASE entry.spawn = taken
      <4>1. entry.spawn # 0 /\ entry.link = serving.link
        BY <1>i, <1>p, <3>3, ServingFields DEF OnItsLink, Fresh
      <4>2. LinkUp(entry.link) /\ LinkUp(entry.link)'
        BY <1>p, <1>u, <2>2, <4>1 DEF LinkUp
      <4>3. revived => revived'
        BY <1>p
      <4>4. Asked(entry.spawn, entry.link) => Asked(entry.spawn, entry.link)'
        BY <1>u, <2>2 DEF Asked, InLane
      <4>5. ~revived' => \/ Asked(entry.spawn, entry.link)'
                         \/ InLane(toBackend[entry.link], "exited", entry.spawn)'
                         \/ StopPends' \/ serving'.link \notin sessions'
        BY <1>i, <1>u, <2>2, <4>1, <4>2, <4>3, <4>4 DEF RunGoesOn, StopPends, OverPends, InLane
      <4>6. entry'.spawn # 0
        BY <2>2, <4>1
      <4> QED
        BY <3>1, <4>2, <4>5, <4>6, Zenon DEF RunGoesOn
    <3> QED
      BY <3>2, <3>3
  <2> QED
    BY <1>t, <1>u, <1>p, <2>2, <2>5, <2>6, <2>7, BackendStep
<1> QED
  BY <1>1, <1>2

(* ExitApplied: the process that has ended is settled.                     *)
LEMMA ExitAppliedStep ==
    ASSUME ScriptInv, ExitApplied
    PROVE  ScriptInv'
<1>i. ScriptTypeOK /\ EntryShape /\ OneStart /\ StopsFollow /\ RunGoesOn
  BY DEF ScriptInv, ScriptOrder
<1>t. ScriptTypeOK'
  BY ConnectorTypes
<1>u. UNCHANGED <<ending, over, starter, stopper, orders, serving, taken, toMachine, finals, finalAcks,
                  gate, sessions, procs, cleanup, checkout, spawned, late, revived>>
  BY DEF ExitApplied, processVars
<1>p. Incoming.kind = "exited" /\ Received /\ Settle(Incoming.spawn, Incoming.error)
  BY DEF ExitApplied
<1>c. serving.stage = "up" /\ serving.link \in Links /\ Incoming.spawn \in 1..Phantom /\ Incoming.spawn # 0
  BY <1>i, <1>p, IncomingIs
<1>b. /\ InLane(toBackend[serving.link], "exited", Incoming.spawn)
      /\ \A l \in Links : \A kind, x :
           InLane(toBackend[l], kind, x)' => InLane(toBackend[l], kind, x)
      /\ \A l \in Links : \A kind, x :
           InLane(toBackend[l], kind, x) =>
               \/ InLane(toBackend[l], kind, x)'
               \/ l = serving.link /\ kind = "exited" /\ x = Incoming.spawn
  BY <1>i, <1>p, ReportRead
<1>n. \A x \in 1..Phantom, l \in Links :
        /\ Named(x, l)' => Named(x, l) \/ (x = entry.spawn /\ l = entry.link)
        /\ Asked(x, l)' => Asked(x, l)
  BY <1>u, <1>b, NothingNamed
<1>q. /\ sleepers' \in Nat /\ sleepers' >= sleepers
      /\ entry.spawn # Incoming.spawn => entry' = entry /\ sleepers' = sleepers
      /\ entry.spawn = Incoming.spawn =>
           /\ entry'.spawn = 0 /\ entry'.here = entry.here /\ entry'.link = entry.link
           /\ entry'.status \in {"idle", "restarting", "exited"}
           /\ entry'.status = "restarting" => sleepers' > 0
  BY <1>i, <1>p, Settles
<1>1. EntryShape'
  BY <1>i, <1>p, <1>c, <1>u, SettledShape
<1>2. StopsFollow'
  <2>1. \A l \in Links : \A x : InLane(toMachine[l], "stop", x)' <=> InLane(toMachine[l], "stop", x)
    BY <1>u DEF InLane
  <2>2. \A x \in 1..Phantom : Told(x)' => Told(x)
    BY <1>u, <1>b, <2>1, ToldKept
  <2>3. Told(Incoming.spawn)
    BY <1>b, <1>c DEF Told
  <2>4. \A x \in 1..Phantom : LetGo(x)' => LetGo(x)
    BY <1>q, <2>2, <2>3 DEF LetGo
  <2>5. checkout' => \A r \in orders' : r.kind = "start" /\ entry'.spawn = r.spawn /\ Told(r.spawn)' =>
                            entry'.stopping \/ ~LinkUp(r.link) \/ r.spawn \in late'
    <3> SUFFICES ASSUME checkout', NEW r \in orders', r.kind = "start", entry'.spawn = r.spawn, Told(r.spawn)'
                 PROVE  entry'.stopping \/ ~LinkUp(r.link) \/ r.spawn \in late'
      OBVIOUS
    <3>1. r \in orders /\ r.spawn \in 1..Phantom /\ r.spawn # 0
      BY <1>i, <1>u, OrderFields
    <3>2. entry' = entry
      BY <1>q, <3>1
    <3> QED
      BY <1>i, <1>u, <2>2, <3>1, <3>2 DEF StopsFollow
  <2>6. \A r \in orders : r.kind = "stop" => r \in orders'
    BY <1>u
  <2> QED
    BY <1>i, <1>u, <2>4, <2>5, <2>6, StopsKept
<1>3. RunGoesOn'
  <2>1. CASE entry.spawn = Incoming.spawn
    BY <1>q, <2>1, RunSettled DEF Live
  <2>2. CASE entry.spawn # Incoming.spawn
    <3>1. entry' = entry /\ (Live' => Live)
      BY <1>q, <2>2 DEF Live
    <3>2. (StartPends => StartPends') /\ (StopPends => StopPends')
      BY <1>u, <3>1 DEF StartPends, StopPends, OverPends
    <3>3. entry.spawn # 0 => entry.link \in Links
      BY <1>i DEF EntryShape
    <3>4. Asked(entry.spawn, entry.link)' <=> Asked(entry.spawn, entry.link)
      BY <1>u, <3>1 DEF Asked, InLane
    <3>5. entry.spawn # 0 /\ InLane(toBackend[entry.link], "exited", entry.spawn)
            => InLane(toBackend[entry.link], "exited", entry.spawn)'
      BY <1>b, <2>2, <3>1, <3>3
    <3>6. entry.spawn # 0 /\ Answers => Answers'
      BY <1>u, <3>1, <3>4, <3>5 DEF Answers
    <3> QED
      BY <1>i, <1>u, <1>q, <3>1, <3>2, <3>6, RunKept
  <2> QED
    BY <2>1, <2>2
<1>z. /\ \A o \in orders' : o.kind = "start" => o \in orders
      /\ entry'.spawn = 0 \/ (entry'.spawn = entry.spawn /\ entry'.link = entry.link)
      /\ entry'.link \in {0, entry.link}
  BY <1>u, <1>q
<1> QED
  BY <1>t, <1>u, <1>n, <1>1, <1>2, <1>3, <1>z, RunStep
-----------------------------------------------------------------------------
(* LinkBinds: nothing is on a new link.                                    *)
LEMMA LinkBindsStep ==
    ASSUME ScriptInv, LinkBinds
    PROVE  ScriptInv'
<1>i. /\ ScriptTypeOK /\ Fresh /\ EntryShape /\ OneStart /\ OnOneLink /\ SessionsServe /\ CleanupReaches
      /\ StopsFollow /\ RunGoesOn
  BY DEF ScriptInv, ScriptOrder
<1>t. ScriptTypeOK'
  BY ConnectorTypes
<1>u. UNCHANGED <<entry, ending, over, starter, stopper, orders, sleepers, taken, toMachine, toBackend, finals,
                  finalAcks, gate, procs, cleanup, checkout, spawned, late, revived>>
  BY DEF LinkBinds, callerVars, laneVars
<1>p. /\ serving.stage = "down" /\ serving.link < MaxLinks
      /\ serving'.link = serving.link + 1 /\ serving'.stage = "up" /\ serving'.spawn = 0
      /\ sessions' = sessions \cup {serving.link + 1}
  BY DEF LinkBinds
<1>q. serving.link \in Nat /\ serving.link + 1 \in Links /\ serving'.link > serving.link /\ serving'.link \in Nat
  BY <1>i, <1>p, ServingFields DEF Links
<1>d. taken = 0
  BY <1>i, <1>p DEF OnOneLink
<1>b. \A l : \A kind, x : /\ InLane(toMachine[l], kind, x)' <=> InLane(toMachine[l], kind, x)
                          /\ InLane(toBackend[l], kind, x)' <=> InLane(toBackend[l], kind, x)
  BY <1>u DEF InLane
<1>n. \A x \in 1..Phantom, l \in Links :
        /\ Named(x, l)' => Named(x, l) \/ (x = entry.spawn /\ l = entry.link)
        /\ Asked(x, l)' => Asked(x, l)
  BY <1>u, <1>b, NothingNamed
<1>l. \A x \in 1..Phantom, l \in Links : Named(x, l) => ~LinkUp(l)'
  <2>1. \A x \in 1..Phantom, l \in Links : Named(x, l) => l <= serving.link
    BY <1>i DEF Fresh
  <2>2. \A l \in Links : l <= serving.link => l # serving'.link
    BY <1>q DEF Links
  <2> QED
    BY <2>1, <2>2 DEF LinkUp
<1>1. Fresh'
  <2>1. taken' <= spawned /\ serving'.link >= serving.link
    BY <1>i, <1>u, <1>q DEF Fresh
  <2>2. \A l \in sessions' : l \in sessions \/ l = serving'.link
    BY <1>p
  <2> QED
    BY <1>i, <1>t, <1>u, <1>n, <2>1, <2>2, FreshKept
<1>2. EntryShape'
  BY <1>i, <1>u, <1>p, <1>q DEF EntryShape, OverPends, Live
<1>3. OneStart' /\ SessionsServe' /\ CleanupReaches'
  BY <1>i, <1>u, <1>p, SameProcs, OneStartKept, SessionsKept, CleanupKept
<1>4. OnOneLink'
  BY <1>i, <1>u, <1>d, <1>n, OnOneLinkKept
<1>5. StopsFollow'
  <2>1. ASSUME NEW o \in orders', o.kind = "start"
        PROVE  ~LinkUp(o.link)'
    <3>1. o \in orders /\ o.spawn \in 1..Phantom /\ o.link \in Links /\ o = Order("start", o.spawn, o.link)
      BY <1>i, <1>u, <2>1, OrderFields
    <3>2. Named(o.spawn, o.link)
      BY <3>1 DEF Named, Asked
    <3> QED
      BY <1>l, <3>1, <3>2
  <2>2. ASSUME NEW l \in Links, NEW i \in LaneIds(l)', toMachine'[l][i].kind = "start"
        PROVE  ~LinkUp(l)'
    <3>1. i \in LaneIds(l) /\ toMachine[l][i].kind = "start"
      BY <1>u, <2>2 DEF LaneIds
    <3>2. InLane(toMachine[l], "start", toMachine[l][i].spawn) /\ toMachine[l][i].spawn \in 1..Phantom
      BY <1>i, <3>1, LanePlace, LaneFields
    <3> QED
      BY <1>l, <3>2 DEF Named, Asked
  <2>3. ASSUME NEW p \in procs'
        PROVE  ~LinkUp(p.link)'
    <3>1. p \in procs /\ p.spawn \in 1..Phantom /\ p.link \in Links
      BY <1>i, <1>u, ProcessFields
    <3> QED
      BY <1>l, <3>1 DEF Named, Asked
  <2> QED
    BY <2>1, <2>2, <2>3, Zenon DEF StopsFollow, Stopped
<1>6. RunGoesOn'
  <2>1. entry.link <= serving.link /\ entry.link \in Nat
    BY <1>i, EntryFields DEF Fresh
  <2>2. ~LinkUp(entry.link)'
    BY <1>u, <1>q, <2>1 DEF LinkUp
  <2>3. ~LinkUp(entry.link)
    BY <1>p DEF LinkUp
  <2>4. (StartPends' <=> StartPends) /\ (StopPends' <=> StopPends) /\ (Live' <=> Live)
    BY <1>u DEF StartPends, StopPends, OverPends, Live
  <2>5. ~revived' /\ Live' /\ entry'.spawn = 0 => entry'.status = "restarting" /\ sleepers' > 0
    BY <1>i, <1>u, <2>4 DEF RunGoesOn
  <2>6. ~revived' /\ entry'.spawn # 0 /\ Live' => StartPends' \/ StopPends'
    BY <1>i, <1>u, <1>p, <2>3, <2>4 DEF RunGoesOn
  <2> QED
    BY <1>p, <2>2, <2>5, <2>6, Zenon DEF RunGoesOn
<1> QED
  BY <1>t, <1>1, <1>2, <1>3, <1>4, <1>5, <1>6 DEF ScriptInv, ScriptOrder

(* Steps that take the backend's link from it.                             *)
LEMMA UnlinkStep ==
    ASSUME ScriptInv, ScriptTypeOK', EntryShape', RunGoesOn',
           UNCHANGED <<starter, stopper, orders, taken, toMachine, sessions, procs, cleanup, checkout,
                       spawned, late>>,
           serving'.stage # "up", serving'.link = serving.link, taken = 0, finalAcks' \subseteq finalAcks,
           \A l \in Links : \A kind, x : InLane(toBackend[l], kind, x)' => InLane(toBackend[l], kind, x),
           entry'.spawn \in {0, entry.spawn, Phantom}, entry'.link = entry.link
    PROVE  ScriptInv'
<1>i. /\ ScriptTypeOK /\ Fresh /\ OneStart /\ OnOneLink /\ SessionsServe /\ CleanupReaches
  BY DEF ScriptInv, ScriptOrder
<1>n. \A x \in 1..Phantom, l \in Links :
        /\ Named(x, l)' => Named(x, l) \/ (x = entry.spawn /\ l = entry.link)
        /\ Asked(x, l)' => Asked(x, l)
  BY NothingNamed
<1>1. Fresh'
  <2>1. taken' <= spawned /\ serving'.link >= serving.link
    BY <1>i, ServingFields
  <2> QED
    BY <1>i, <1>n, <2>1, FreshKept
<1>2. OneStart' /\ SessionsServe' /\ CleanupReaches'
  BY <1>i, SameProcs, OneStartKept, SessionsKept, CleanupKept
<1>3. OnOneLink'
  BY <1>i, <1>n, OnOneLinkKept
<1>4. StopsFollow'
  BY StopsWhenDown
<1> QED
  BY <1>1, <1>2, <1>3, <1>4 DEF ScriptInv, ScriptOrder

(* ServeEnds: the link is closed.                                          *)
LEMMA ServeEndsStep ==
    ASSUME ScriptInv, ServeEnds
    PROVE  ScriptInv'
<1>i. /\ ScriptTypeOK /\ EntryShape /\ RunGoesOn /\ serving \in Servings
  BY DEF ScriptInv, ScriptOrder, ScriptTypeOK
<1>t. ScriptTypeOK'
  BY ConnectorTypes
<1>u. UNCHANGED <<entry, ending, over, starter, stopper, orders, sleepers, taken, toMachine, finals,
                  gate, sessions, procs, cleanup, checkout, spawned, late, revived>>
  BY DEF ServeEnds, callerVars, processVars
<1>p. /\ serving.stage = "up" /\ taken = 0 /\ finalAcks' \subseteq finalAcks
      /\ serving' = [serving EXCEPT !.stage = "closed"]
      /\ toBackend' = [toBackend EXCEPT ![serving.link] = <<>>]
  BY DEF ServeEnds
<1>q. serving'.stage = "closed" /\ serving'.link = serving.link
  BY <1>i, <1>p DEF Servings
<1>l. serving.link \in Links
  BY <1>i, <1>p, UpLink
<1>b. \A l \in Links : \A kind, x : InLane(toBackend[l], kind, x)' => InLane(toBackend[l], kind, x)
  <2>1. toBackend \in [Links -> Seq(Reports)]
    BY <1>i DEF ScriptTypeOK
  <2>2. \A l \in Links : toBackend'[l] = toBackend[l] \/ toBackend'[l] = <<>>
    BY <1>p, <2>1
  <2>3. \A kind, x : ~InLane(<<>>, kind, x)
    BY LaneEmpty
  <2>4. \A l \in Links : \A kind, x : InLane(toBackend'[l], kind, x) => InLane(toBackend[l], kind, x)
    BY <2>2, <2>3, Zenon
  <2> QED
    BY <2>4, Zenon DEF InLane
<1>1. EntryShape'
  BY <1>i, <1>u, <1>p, <1>q, <1>l DEF EntryShape, OverPends, Live
<1>2. RunGoesOn'
  <2>1. ~LinkUp(entry.link)'
    BY <1>q DEF LinkUp
  <2>2. ~revived' /\ Live' /\ entry'.spawn = 0 => entry'.status = "restarting" /\ sleepers' > 0
    BY <1>i, <1>u DEF RunGoesOn, Live
  <2>3. serving'.stage \notin {"up", "down", "losing"}
    BY <1>q
  <2> QED
    BY <2>1, <2>2, <2>3 DEF RunGoesOn
<1> QED
  BY <1>t, <1>u, <1>p, <1>q, <1>b, <1>1, <1>2, UnlinkStep

(* LinkLost: the live run is collected.                                    *)
LEMMA LinkLostStep ==
    ASSUME ScriptInv, LinkLost
    PROVE  ScriptInv'
<1>i. /\ ScriptTypeOK /\ EntryShape /\ RunGoesOn /\ OnOneLink /\ serving \in Servings /\ entry \in Entries
  BY DEF ScriptInv, ScriptOrder, ScriptTypeOK
<1>t. ScriptTypeOK'
  BY ConnectorTypes
<1>u. UNCHANGED <<ending, over, starter, stopper, orders, sleepers, taken, toMachine, toBackend, finals, finalAcks,
                  gate, sessions, procs, cleanup, checkout, spawned, late, revived>>
  BY DEF LinkLost, laneVars, processVars
<1>p. serving.stage = "closed"
  BY DEF LinkLost
<1>d. taken = 0 /\ Phantom # 0
  BY <1>i, <1>p, ScriptRunsAssumption DEF OnOneLink, Phantom
<1>b. \A l \in Links : \A kind, x : InLane(toBackend[l], kind, x)' => InLane(toBackend[l], kind, x)
  BY <1>u DEF InLane
<1>1. CASE Live
  <2>1. PICK spawn : /\ spawn = IF entry.spawn = 0 THEN Phantom ELSE entry.spawn
                     /\ entry' = [entry EXCEPT !.stopping = FALSE, !.spawn = spawn]
                     /\ serving' = [serving EXCEPT !.stage = "losing", !.spawn = spawn]
    BY <1>1 DEF LinkLost
  <2>2. entry'.spawn = spawn /\ entry'.link = entry.link /\ entry'.status = entry.status
    BY <1>i, <2>1 DEF Entries
  <2>3. entry'.here = entry.here
    BY <1>i, <2>1 DEF Entries
  <2>4. serving'.stage = "losing" /\ serving'.spawn = spawn /\ serving'.link = serving.link
    BY <1>i, <2>1 DEF Servings
  <2>5. spawn # 0 /\ spawn \in {entry.spawn, Phantom} /\ (spawn = Phantom => entry'.spawn = serving'.spawn)
    BY <1>d, <2>1, <2>2, <2>4
  <2>6. Live' /\ entry.here
    BY <1>i, <1>1, <2>2 DEF Live, EntryShape
  <2>7. EntryShape'
    BY <1>i, <1>u, <1>p, <2>2, <2>3, <2>4, <2>5, <2>6 DEF EntryShape, OverPends
  <2>8. RunGoesOn'
    <3>1. ~LinkUp(entry.link)'
      BY <2>4 DEF LinkUp
    <3>2. serving'.stage \notin {"up", "down"} /\ entry'.spawn # 0 /\ entry'.spawn \in {0, serving'.spawn}
      BY <2>2, <2>4, <2>5
    <3> QED
      BY <3>1, <3>2 DEF RunGoesOn
  <2> QED
    BY <1>t, <1>u, <1>b, <1>d, <2>2, <2>4, <2>5, <2>7, <2>8, UnlinkStep
<1>2. CASE ~Live
  <2>1. serving' = [serving EXCEPT !.stage = "down"] /\ entry' = entry
    BY <1>2 DEF LinkLost
  <2>2. serving'.stage = "down" /\ serving'.link = serving.link
    BY <1>i, <2>1 DEF Servings
  <2>3. ~Live'
    BY <1>2, <2>1 DEF Live
  <2>4. EntryShape'
    BY <1>i, <1>u, <1>p, <1>2, <2>1, <2>2, <2>3 DEF EntryShape, OverPends
  <2>5. RunGoesOn'
    <3>1. ~LinkUp(entry.link)'
      BY <2>2 DEF LinkUp
    <3>2. serving'.stage # "losing"
      BY <2>2
    <3> QED
      BY <2>3, <3>1, <3>2 DEF RunGoesOn
  <2> QED
    BY <1>t, <1>u, <1>b, <1>d, <2>1, <2>2, <2>4, <2>5, UnlinkStep
<1> QED
  BY <1>1, <1>2

(* LostSettled: it is settled as lost, and what has taken its place since  *)
(* has a start to be given up.                                             *)
LEMMA LostSettledStep ==
    ASSUME ScriptInv, LostSettled
    PROVE  ScriptInv'
<1>i. /\ ScriptTypeOK /\ EntryShape /\ RunGoesOn /\ OnOneLink /\ serving \in Servings
  BY DEF ScriptInv, ScriptOrder, ScriptTypeOK
<1>t. ScriptTypeOK'
  BY ConnectorTypes
<1>u. UNCHANGED <<ending, over, starter, stopper, orders, taken, toMachine, toBackend, finals, finalAcks,
                  gate, sessions, procs, cleanup, checkout, spawned, late, revived>>
  BY DEF LostSettled, laneVars, processVars
<1>p. /\ serving.stage = "losing" /\ Settle(serving.spawn, TRUE) /\ serving.spawn # 0
      /\ serving' = [serving EXCEPT !.stage = "down", !.spawn = 0]
  BY <1>i DEF LostSettled, EntryShape
<1>q. /\ entry.spawn # serving.spawn => entry' = entry /\ sleepers' = sleepers
      /\ entry.spawn = serving.spawn =>
           /\ entry'.spawn = 0 /\ entry'.here = entry.here /\ entry'.link = entry.link
           /\ entry'.status \in {"idle", "restarting", "exited"}
           /\ entry'.status = "restarting" => sleepers' > 0
  BY <1>i, <1>p, Settles
<1>s. serving'.stage = "down" /\ serving'.spawn = 0 /\ serving'.link = serving.link
  BY <1>i, <1>p DEF Servings
<1>d. taken = 0 /\ Phantom # 0
  BY <1>i, <1>p, ScriptRunsAssumption DEF OnOneLink, Phantom
<1>b. \A l \in Links : \A kind, x : InLane(toBackend[l], kind, x)' => InLane(toBackend[l], kind, x)
  BY <1>u DEF InLane
<1>1. CASE entry.spawn = serving.spawn
  <2>1. /\ entry'.spawn = 0 /\ entry'.here = entry.here /\ entry'.link = entry.link
        /\ Live' => entry'.status = "restarting" /\ sleepers' > 0
    BY <1>q, <1>1 DEF Live
  <2>2. entry.here
    BY <1>i, <1>p, <1>1 DEF EntryShape
  <2>3. EntryShape'
    BY <1>i, <1>u, <1>p, <1>s, <1>d, <2>1, <2>2 DEF EntryShape, OverPends
  <2>4. RunGoesOn'
    BY <2>1, RunSettled
  <2> QED
    BY <1>t, <1>u, <1>b, <1>d, <1>s, <2>1, <2>3, <2>4, UnlinkStep
<1>2. CASE entry.spawn # serving.spawn
  <2>1. entry' = entry /\ sleepers' = sleepers /\ (Live' <=> Live)
    BY <1>q, <1>2 DEF Live
  <2>2. EntryShape'
    BY <1>i, <1>u, <1>p, <1>s, <1>2, <2>1 DEF EntryShape, OverPends
  <2>3. RunGoesOn'
    <3>1. ~LinkUp(entry.link)'
      BY <1>s DEF LinkUp
    <3>2. ~revived' /\ Live' /\ entry'.spawn = 0 => entry'.status = "restarting" /\ sleepers' > 0
      BY <1>i, <1>u, <2>1 DEF RunGoesOn
    <3>3. entry'.spawn # 0 => StartPends' \/ StopPends'
      BY <1>i, <1>u, <1>p, <1>2, <2>1 DEF RunGoesOn, StartPends, StopPends, OverPends
    <3>4. serving'.stage # "losing"
      BY <1>s
    <3> QED
      BY <3>1, <3>2, <3>3, <3>4 DEF RunGoesOn
  <2> QED
    BY <1>t, <1>u, <1>b, <1>d, <1>s, <2>1, <2>2, <2>3, UnlinkStep
<1> QED
  BY <1>1, <1>2
-----------------------------------------------------------------------------
(* A process is asked for once as long as starts only go.                  *)
LEMMA OneStartFewer ==
    ASSUME OneStart, \A o \in orders' : o.kind = "start" => o \in orders,
           \A k \in Links : \A x : InLane(toMachine[k], "start", x)' => InLane(toMachine[k], "start", x),
           \A l, k \in Links : \A i \in LaneIds(l)', j \in LaneIds(k)' :
             toMachine'[l][i].kind = "start" /\ toMachine'[k][j].kind = "start"
               /\ toMachine'[l][i].spawn = toMachine'[k][j].spawn => l = k /\ i = j,
           \A q \in procs' : \E p \in procs : q.spawn = p.spawn,
           \A q, r \in procs' : q.spawn = r.spawn => q = r
    PROVE  OneStart'
<1>1. \A o, q \in orders' : o.kind = "start" /\ q.kind = "start" /\ o.spawn = q.spawn => o = q
  BY Zenon DEF OneStart
<1>2. \A o \in orders' : o.kind = "start" =>
         /\ \A l \in Links : ~InLane(toMachine[l], "start", o.spawn)
         /\ \A p \in procs : p.spawn # o.spawn
  BY Zenon DEF OneStart
<1>3. \A o \in orders' : o.kind = "start" =>
         /\ \A l \in Links : ~InLane(toMachine[l], "start", o.spawn)'
         /\ \A p \in procs' : p.spawn # o.spawn
  BY <1>2
<1>4. \A p \in procs : \A l \in Links : ~InLane(toMachine[l], "start", p.spawn)
  BY Zenon DEF OneStart
<1>5. \A p \in procs' : \A l \in Links : ~InLane(toMachine[l], "start", p.spawn)'
  BY <1>4
<1> QED
  BY <1>1, <1>3, <1>5, Zenon DEF OneStart

(* Steps that leave the backend's entry as it is.                          *)
LEMMA MachineStep ==
    ASSUME ScriptInv, ScriptTypeOK', OneStart', SessionsServe', CleanupReaches', StopsFollow',
           UNCHANGED <<entry, over, starter, stopper, sleepers, serving, taken, spawned, revived>>,
           sessions' \subseteq sessions, late \subseteq late',
           \A x \in 1..Phantom, l \in Links : /\ Named(x, l)' => Named(x, l)
                                              /\ Asked(x, l)' => Asked(x, l),
           entry.spawn # 0 /\ ~LinkUp(entry.link) /\ StartPends => StartPends',
           entry.spawn # 0 /\ LinkUp(entry.link) /\ Answers => Answers'
    PROVE  ScriptInv'
<1>i. /\ ScriptTypeOK /\ Fresh /\ EntryShape /\ OnOneLink /\ RunGoesOn
  BY DEF ScriptInv, ScriptOrder
<1>1. Fresh'
  <2>1. taken' <= spawned /\ serving'.link >= serving.link
    BY <1>i, ServingFields DEF Fresh
  <2>2. /\ entry'.spawn \in {0, entry.spawn, Phantom} /\ starter' \in {0, starter, serving.link}
        /\ \A l \in sessions' : l \in sessions \/ l = serving'.link
    OBVIOUS
  <2> QED
    BY <1>i, <2>1, <2>2, FreshKept
<1>2. EntryShape'
  BY <1>i DEF EntryShape, OverPends, Live
<1>3. OnOneLink'
  BY <1>i, OnOneLinkKept
<1>4. RunGoesOn'
  <2>1. sleepers' \in Nat /\ sleepers' >= sleepers
    BY <1>i DEF ScriptTypeOK
  <2>2. (Live' => Live) /\ (StopPends => StopPends')
    BY DEF Live, StopPends, OverPends
  <2> QED
    BY <1>i, <2>1, <2>2, RunKept
<1> QED
  BY <1>1, <1>2, <1>3, <1>4 DEF ScriptInv, ScriptOrder

(* What the run is answered by where its lanes to the backend and its      *)
(* starts stay.                                                            *)
LEMMA AnswersKept ==
    ASSUME ScriptInv, UNCHANGED <<entry, serving>>, sessions' \subseteq sessions,
           \A l \in Links : \A x : InLane(toBackend[l], "exited", x) => InLane(toBackend[l], "exited", x)',
           \A x \in 1..Phantom, l \in Links : Asked(x, l) =>
               Asked(x, l)' \/ InLane(toBackend[l], "exited", x)' \/ ~LinkUp(l) \/ l \notin sessions'
    PROVE  entry.spawn # 0 /\ LinkUp(entry.link) /\ Answers => Answers'
<1> SUFFICES ASSUME entry.spawn # 0, LinkUp(entry.link), Answers
             PROVE  Answers'
  OBVIOUS
<1>1. entry.spawn \in 1..Phantom /\ entry.link \in Links
  BY AskedThere DEF LinkUp
<1>2. serving.link = entry.link
  BY DEF LinkUp
<1>3. CASE Asked(entry.spawn, entry.link)
  BY <1>1, <1>2, <1>3 DEF Answers
<1>4. CASE InLane(toBackend[entry.link], "exited", entry.spawn)
  BY <1>1, <1>4 DEF Answers
<1>5. CASE serving.link \notin sessions
  BY <1>5 DEF Answers
<1> QED
  BY <1>3, <1>4, <1>5 DEF Answers

(* Reap: a process has ended.                                              *)
LEMMA ReapStep ==
    ASSUME ScriptInv, NEW p \in procs, Reap(p)
    PROVE  ScriptInv'
<1>i. /\ ScriptTypeOK /\ Fresh /\ EntryShape /\ OneStart /\ OnOneLink /\ SessionsServe /\ CleanupReaches
      /\ StopsFollow
  BY DEF ScriptInv, ScriptOrder
<1>t. ScriptTypeOK'
  BY MachineTypes
<1>u. UNCHANGED <<entry, ending, over, starter, stopper, orders, sleepers, serving, taken, toMachine, finals,
                  finalAcks, gate, sessions, cleanup, checkout, spawned, late, revived>>
  BY DEF Reap, callerVars
<1>p. procs' = procs \ {p}
  BY DEF Reap
<1>e. PICK error \in BOOLEAN :
        IF p.link \in sessions THEN Tells(p.link, Exited(p.spawn, error)) ELSE UNCHANGED toBackend
  BY DEF Reap
<1>f. p.spawn \in 1..Phantom /\ p.link \in Links /\ Asked(p.spawn, p.link) /\ Named(p.spawn, p.link)
  BY <1>i, ProcessFields DEF Asked, Named
<1>g. Exited(p.spawn, error) \in Reports /\ Exited(p.spawn, error).kind = "exited" /\ Exited(p.spawn, error).spawn = p.spawn
  BY <1>f, ReportsAre
<1>b. /\ \A k \in Links : \A kind, x : InLane(toBackend[k], kind, x) => InLane(toBackend[k], kind, x)'
      /\ \A k \in Links : \A kind, x : InLane(toBackend[k], kind, x)' =>
           InLane(toBackend[k], kind, x) \/ (k = p.link /\ kind = "exited" /\ x = p.spawn)
      /\ p.link \in sessions /\ LinkUp(p.link) => InLane(toBackend[p.link], "exited", p.spawn)'
  <2>1. CASE p.link \in sessions
    <3>1. Tells(p.link, Exited(p.spawn, error))
      BY <1>e, <2>1
    <3>2. PICK f \in Reports : f = Exited(p.spawn, error) /\ f.kind = "exited" /\ f.spawn = p.spawn
      BY <1>g
    <3>3. Tells(p.link, f)
      BY <3>1, <3>2
    <3>4. /\ \A k \in Links : \A kind, x : InLane(toBackend[k], kind, x) => InLane(toBackend[k], kind, x)'
          /\ \A k \in Links : \A kind, x : InLane(toBackend[k], kind, x)' =>
               InLane(toBackend[k], kind, x) \/ (k = p.link /\ kind = f.kind /\ x = f.spawn)
          /\ LinkUp(p.link) => InLane(toBackend[p.link], f.kind, f.spawn)'
      BY <1>i, <1>f, <3>3, ReportSent
    <3> QED
      BY <3>2, <3>4
  <2>2. CASE p.link \notin sessions
    <3>1. toBackend' = toBackend
      BY <1>e, <2>2
    <3> QED
      BY <2>2, <3>1 DEF InLane
  <2> QED
    BY <2>1, <2>2
<1>m. \A l : \A kind, x : InLane(toMachine[l], kind, x)' <=> InLane(toMachine[l], kind, x)
  BY <1>u DEF InLane
<1>o. /\ \A o \in orders : o.kind = "start" => o.spawn # p.spawn
      /\ \A l \in Links : ~InLane(toMachine[l], "start", p.spawn)
      /\ \A q \in procs' : q.spawn # p.spawn /\ q \in procs
  BY <1>i, <1>p DEF OneStart
<1>1. OneStart' /\ SessionsServe' /\ CleanupReaches'
  <2>1. /\ \A q \in procs' : \E r \in procs : q.spawn = r.spawn
        /\ \A q, r \in procs' : q.spawn = r.spawn => q = r
        /\ \A q \in procs' : \E r \in procs : q.link = r.link /\ (~q.killed => ~r.killed)
    BY <1>i, <1>p DEF OneStart
  <2> QED
    BY <1>i, <1>u, <2>1, OneStartKept, SessionsKept, CleanupKept
<1>2. StopsFollow'
  <2>1. \A x \in 1..Phantom : Told(x)' => Told(x) \/ x = p.spawn
    <3>1. \A l \in Links : \A x : InLane(toBackend[l], "exited", x)' => InLane(toBackend[l], "exited", x) \/ x = p.spawn
      BY <1>b
    <3> QED
      BY <1>u, <1>m, <3>1 DEF Told
  <2>2. \A x \in 1..Phantom : LetGo(x)' => LetGo(x) \/ x = p.spawn
    BY <1>u, <2>1 DEF LetGo
  <2>3. \A x \in 1..Phantom : LetGo(x)' =>
               \/ LetGo(x) \/ x \in late' \/ Unasked(x)
               \/ /\ checkout' => \A l \in Links : InLane(toMachine[l], "start", x) => Stopped(x, l)'
                  /\ \A q \in procs' : q.spawn = x => Stopped(x, q.link)'
    BY <1>o, <2>2
  <2>4. checkout' => \A o \in orders' : o.kind = "start" /\ entry'.spawn = o.spawn /\ Told(o.spawn)' =>
                                  entry'.stopping \/ ~LinkUp(o.link) \/ o.spawn \in late'
    BY <1>i, <1>u, <1>o, <2>1, OrderFields DEF StopsFollow
  <2>5. \A o \in orders : o.kind = "stop" => o \in orders'
    BY <1>u
  <2> QED
    BY <1>i, <1>u, <1>o, <2>3, <2>4, <2>5, StopsKept
<1>3. \A x, l : Asked(x, l) => Asked(x, l)' \/ (x = p.spawn /\ l = p.link)
  BY <1>u, <1>m, <1>p DEF Asked
<1>4. \A x, l : Asked(x, l)' => Asked(x, l)
  BY <1>u, <1>m, <1>p DEF Asked
<1>5. \A x \in 1..Phantom, l \in Links : Named(x, l)' => Named(x, l)
  BY <1>u, <1>m, <1>b, <1>f, <1>4 DEF Named
<1>6. entry.spawn # 0 /\ LinkUp(entry.link) /\ Answers => Answers'
  BY <1>u, <1>b, <1>3, AnswersKept
<1>7. StartPends => StartPends'
  BY <1>u DEF StartPends
<1> QED
  BY <1>t, <1>u, <1>1, <1>2, <1>4, <1>5, <1>6, <1>7, MachineStep

(* CleanupKills: every process that is recorded is killed.                 *)
LEMMA CleanupKillsStep ==
    ASSUME ScriptInv, CleanupKills
    PROVE  ScriptInv'
<1>i. /\ ScriptTypeOK /\ OneStart /\ SessionsServe /\ CleanupReaches /\ StopsFollow /\ cleanup \in Cleanups
  BY DEF ScriptInv, ScriptOrder, ScriptTypeOK
<1>t. ScriptTypeOK'
  BY MachineTypes
<1>u. UNCHANGED <<entry, ending, over, starter, stopper, orders, sleepers, serving, taken, toMachine, toBackend, finals,
                  finalAcks, gate, sessions, checkout, spawned, revived>>
  BY DEF CleanupKills, callerVars, laneVars
<1>p. /\ procs' = CleanupKilled /\ late' = late \cup unlisted
      /\ cleanup' = [cleanup EXCEPT !.stage = "reaping", !.victims = {p.spawn : p \in procs} \ unlisted]
  BY DEF CleanupKills, CleanupKilled
<1>q. /\ \A q \in procs' : \E p \in procs : q.spawn = p.spawn /\ q.link = p.link /\ (~q.killed => ~p.killed /\ p.spawn \in unlisted)
      /\ \A p \in procs : \E q \in procs' : q.spawn = p.spawn /\ q.link = p.link
      /\ \A q, r \in procs' : q.spawn = r.spawn => q = r
  BY <1>i, <1>p, CleanupKillsAll
<1>k. \A q \in procs' : ~q.killed => q.spawn \in late'
  BY <1>p, <1>q
<1>r. cleanup'.stage = "reaping" /\ cleanup'.victims = {p.spawn : p \in procs} \ unlisted
  BY <1>i, <1>p DEF Cleanups
<1>m. \A l : \A kind, x : /\ InLane(toMachine[l], kind, x)' <=> InLane(toMachine[l], kind, x)
                          /\ InLane(toBackend[l], kind, x)' <=> InLane(toBackend[l], kind, x)
  BY <1>u DEF InLane
<1>1. OneStart' /\ SessionsServe'
  <2>1. \A q \in procs' : \E p \in procs : q.link = p.link /\ (~q.killed => ~p.killed)
    BY <1>q
  <2> QED
    BY <1>i, <1>u, <1>q, <2>1, OneStartKept, SessionsKept
<1>2. CleanupReaches'
  <2>1. \A q \in procs' : \E p \in procs : q.spawn = p.spawn
    BY <1>q
  <2>2. \A q \in procs' : q.spawn \in late' \cup cleanup'.victims
    BY <1>p, <1>r, <2>1
  <2>3. ~checkout => \A q \in procs' : q.spawn \in late'
    BY <1>i, <1>p, <2>1 DEF CleanupReaches
  <2> QED
    BY <1>i, <1>u, <1>r, <2>2, <2>3 DEF CleanupReaches
<1>3. StopsFollow'
  <2>1. \A x \in 1..Phantom : Told(x)' => Told(x)
    BY <1>u, <1>m, ToldKept
  <2>2. \A x \in 1..Phantom : LetGo(x)' => LetGo(x)
    BY <1>u, <2>1 DEF LetGo
  <2>3. checkout' => \A o \in orders : o.kind = "start" /\ entry.spawn = o.spawn /\ Told(o.spawn)' =>
                            entry.stopping \/ ~LinkUp(o.link) \/ o.spawn \in late
    BY <1>i, <1>u, <2>1, OrderFields DEF StopsFollow
  <2>4. late \subseteq late'
    BY <1>p
  <2> QED
    BY <1>i, <1>u, <1>k, <2>2, <2>3, <2>4, StopsKept
<1>4. \A x, l : Asked(x, l)' <=> Asked(x, l)
  BY <1>u, <1>m, <1>q DEF Asked
<1>5. \A x, l : Named(x, l)' => Named(x, l)
  BY <1>u, <1>m, <1>4 DEF Named
<1>6. entry.spawn # 0 /\ LinkUp(entry.link) /\ Answers => Answers'
  BY <1>u, <1>m, <1>4, AnswersKept
<1>7. (StartPends => StartPends') /\ late \subseteq late'
  BY <1>u, <1>p DEF StartPends
<1> QED
  BY <1>t, <1>u, <1>1, <1>2, <1>3, <1>4, <1>5, <1>6, <1>7, MachineStep
-----------------------------------------------------------------------------
(* SessionOver: the session's frames are dropped and its processes killed. *)
LEMMA SessionOverStep ==
    ASSUME ScriptInv, NEW l \in Links, SessionOver(l)
    PROVE  ScriptInv'
<1>i. /\ ScriptTypeOK /\ OneStart /\ SessionsServe /\ CleanupReaches /\ StopsFollow
      /\ toMachine \in [Links -> Seq(Frames)]
  BY DEF ScriptInv, ScriptOrder, ScriptTypeOK
<1>t. ScriptTypeOK'
  BY MachineTypes
<1>u. UNCHANGED <<entry, ending, over, starter, stopper, orders, sleepers, serving, taken, toBackend,
                  finalAcks, gate, cleanup, checkout, spawned, late, revived>>
  BY DEF SessionOver, callerVars
<1>p. /\ sessions' = sessions \ {l} /\ toMachine' = [toMachine EXCEPT ![l] = <<>>]
      /\ procs' = {[p EXCEPT !.killed = p.killed \/ p.link = l] : p \in procs}
  BY DEF SessionOver
<1>q. /\ \A q \in procs' : \E p \in procs : q.spawn = p.spawn /\ q.link = p.link /\ (~q.killed => ~p.killed /\ p.link # l)
      /\ \A p \in procs : \E q \in procs' : q.spawn = p.spawn /\ q.link = p.link
      /\ \A q, r \in procs' : q.spawn = r.spawn => q = r
  <2>1. procs' = SessionKilled(l)
    BY <1>p DEF SessionKilled
  <2>2. ScriptTypeOK /\ OneStart
    BY <1>i
  <2> QED
    BY <2>1, <2>2, SessionKills
<1>l. toMachine'[l] = <<>> /\ \A k \in Links : k # l => toMachine'[k] = toMachine[k]
  BY <1>i, <1>p
<1>d. LaneIds(l)' = {} /\ \A k \in Links : k # l => LaneIds(k)' = LaneIds(k)
  <2>1. 1..Len(<<>>) = {}
    BY LaneEmpty
  <2> QED
    BY <1>l, <2>1 DEF LaneIds
<1>m. /\ \A k \in Links : \A kind, x : InLane(toMachine[k], kind, x)' => k # l /\ InLane(toMachine[k], kind, x)
      /\ \A k \in Links : \A kind, x : k # l /\ InLane(toMachine[k], kind, x) => InLane(toMachine[k], kind, x)'
  <2>1. \A kind, x : ~InLane(<<>>, kind, x)
    BY LaneEmpty
  <2>2. /\ \A k \in Links : \A kind, x : InLane(toMachine'[k], kind, x) => k # l /\ InLane(toMachine[k], kind, x)
        /\ \A k \in Links : \A kind, x : k # l /\ InLane(toMachine[k], kind, x) => InLane(toMachine'[k], kind, x)
    BY <1>l, <2>1, Zenon
  <2> QED
    BY <2>2, Zenon DEF InLane
<1>b. \A k : \A kind, x : InLane(toBackend[k], kind, x)' <=> InLane(toBackend[k], kind, x)
  BY <1>u DEF InLane
<1>1. OneStart'
  <2>1. \A h, k \in Links : \A i \in LaneIds(h)', j \in LaneIds(k)' :
             toMachine'[h][i].kind = "start" /\ toMachine'[k][j].kind = "start"
               /\ toMachine'[h][i].spawn = toMachine'[k][j].spawn => h = k /\ i = j
    <3>1. \A h, k \in Links : \A i \in LaneIds(h), j \in LaneIds(k) :
             toMachine[h][i].kind = "start" /\ toMachine[k][j].kind = "start"
               /\ toMachine[h][i].spawn = toMachine[k][j].spawn => h = k /\ i = j
      BY <1>i, Zenon DEF OneStart
    <3>2. \A k \in Links : \A i \in LaneIds(k)' : i \in LaneIds(k) /\ toMachine'[k] = toMachine[k]
      BY <1>l, <1>d
    <3> QED
      BY <3>1, <3>2
  <2>2. \A q \in procs' : \E p \in procs : q.spawn = p.spawn
    BY <1>q
  <2> QED
    BY <1>i, <1>u, <1>m, <1>q, <2>1, <2>2, OneStartFewer
<1>2. SessionsServe'
  <2>1. \A k \in Links \ sessions' : toMachine'[k] = <<>>
    BY <1>i, <1>p, <1>l DEF SessionsServe
  <2>2. ASSUME NEW q \in procs', ~q.killed PROVE q.link \in sessions'
    <3>1. PICK p \in procs : q.link = p.link /\ ~p.killed /\ p.link # l
      BY <1>q, <2>2
    <3>2. p.link \in sessions
      BY <1>i, <3>1 DEF SessionsServe
    <3>3. sessions' = sessions \ {l}
      BY <1>p
    <3> QED
      BY <3>1, <3>2, <3>3
  <2> QED
    BY <2>1, <2>2 DEF SessionsServe
<1>3. CleanupReaches'
  BY <1>i, <1>u, <1>q, CleanupKept
<1>4. StopsFollow'
  <2>1. \A x \in 1..Phantom : Told(x)' => Told(x)
    BY <1>u, <1>m, <1>b, ToldKept
  <2>2. \A x \in 1..Phantom : LetGo(x)' => LetGo(x)
    BY <1>u, <2>1 DEF LetGo
  <2>3. \A k : LinkUp(k)' <=> LinkUp(k)
    BY <1>u DEF LinkUp
  <2>4. \A x, k : Stopped(x, k) => Stopped(x, k)'
    BY <1>u, <2>3 DEF Stopped
  <2>5. checkout' => \A o \in orders' : o.kind = "start" /\ entry'.spawn = o.spawn /\ Told(o.spawn)' =>
                                  entry'.stopping \/ ~LinkUp(o.link)' \/ o.spawn \in late'
    BY <1>i, <1>u, <2>1, <2>3, OrderFields DEF StopsFollow
  <2>6. ASSUME checkout', NEW k \in Links, NEW i \in LaneIds(k)', toMachine'[k][i].kind = "start",
               LetGo(toMachine[k][i].spawn)'
        PROVE  \/ Stopped(toMachine[k][i].spawn, k)'
               \/ \E j \in LaneIds(k)' : j > i /\ toMachine'[k][j].kind = "stop"
                                           /\ toMachine'[k][j].spawn = toMachine'[k][i].spawn
    <3>1. k # l /\ i \in LaneIds(k) /\ toMachine'[k] = toMachine[k] /\ LaneIds(k)' = LaneIds(k)
      BY <1>l, <1>d
    <3>2. PICK x : x = toMachine[k][i].spawn
      OBVIOUS
    <3>3. x \in 1..Phantom /\ x = toMachine'[k][i].spawn /\ toMachine[k][i].kind = "start"
      BY <1>i, <2>6, <3>1, <3>2, LaneFields
    <3>4. LetGo(x)'
      BY <2>6, <3>3, Zenon DEF LetGo, Told, InLane
    <3>5. \/ Stopped(x, k)
          \/ \E j \in LaneIds(k) : j > i /\ toMachine[k][j].kind = "stop"
                                     /\ toMachine[k][j].spawn = x
      BY <1>i, <1>u, <2>2, <2>6, <3>1, <3>2, <3>3, <3>4 DEF StopsFollow
    <3>6. Stopped(x, k)' => Stopped(toMachine[k][i].spawn, k)'
      BY <3>3, Zenon DEF Stopped
    <3> QED
      BY <2>4, <3>1, <3>3, <3>5, <3>6
  <2>7. ASSUME NEW q \in procs', ~q.killed, LetGo(q.spawn)'
        PROVE  Stopped(q.spawn, q.link)' \/ InLane(toMachine[q.link], "stop", q.spawn)'
    <3>1. PICK p \in procs : q.spawn = p.spawn /\ q.link = p.link /\ ~p.killed /\ p.link # l
      BY <1>q, <2>7
    <3>2. p.spawn \in 1..Phantom /\ p.link \in Links
      BY <1>i, ProcessFields
    <3>3. LetGo(p.spawn)
      BY <2>2, <2>7, <3>1, <3>2
    <3>4. Stopped(p.spawn, p.link) \/ InLane(toMachine[p.link], "stop", p.spawn)
      BY <1>i, <3>1, <3>3 DEF StopsFollow
    <3> QED
      BY <1>m, <2>4, <3>1, <3>2, <3>4
  <2> QED
    BY <2>5, <2>6, <2>7, Zenon DEF StopsFollow
<1>5. \A x \in 1..Phantom, k \in Links : Asked(x, k)' => Asked(x, k)
  BY <1>u, <1>m, <1>q DEF Asked
<1>6. \A x \in 1..Phantom, k \in Links : Named(x, k)' => Named(x, k)
  BY <1>u, <1>m, <1>b, <1>5 DEF Named
<1>7. entry.spawn # 0 /\ LinkUp(entry.link) /\ Answers => Answers'
  <2>1. \A x \in 1..Phantom, k \in Links : Asked(x, k) => Asked(x, k)' \/ k \notin sessions'
    <3>1. \A x \in 1..Phantom, k \in Links : InLane(toMachine[k], "start", x) =>
            InLane(toMachine[k], "start", x)' \/ k \notin sessions'
      BY <1>m, <1>p
    <3>2. \A x, k : (\E p \in procs : p.spawn = x /\ p.link = k) =>
                   (\E q \in procs' : q.spawn = x /\ q.link = k)
      BY <1>q
    <3> QED
      BY <1>u, <3>1, <3>2 DEF Asked
  <2>2. sessions' \subseteq sessions
    BY <1>p
  <2> QED
    BY <1>u, <1>b, <2>1, <2>2, AnswersKept
<1>8. (StartPends => StartPends') /\ sessions' \subseteq sessions
  BY <1>u, <1>p DEF StartPends
<1> QED
  BY <1>t, <1>u, <1>1, <1>2, <1>3, <1>4, <1>5, <1>6, <1>7, <1>8, MachineStep
-----------------------------------------------------------------------------
(* The machine has read a frame: what is left of the lanes keeps its order *)
(* and is asked for once.                                                  *)
LEMMA ReadLanes ==
    ASSUME ScriptInv, NEW l \in Links, NEW kindRead, Arrives(l, kindRead), Consume(l),
           NEW x, x = Head(toMachine[l]).spawn
    PROVE  /\ \A h, k \in Links : \A i \in LaneIds(h)', j \in LaneIds(k)' :
                toMachine'[h][i].kind = "start" /\ toMachine'[k][j].kind = "start"
                  /\ toMachine'[h][i].spawn = toMachine'[k][j].spawn => h = k /\ i = j
           /\ kindRead = "start" =>
                /\ \A k \in Links : ~InLane(toMachine[k], "start", x)'
                /\ \A o \in orders : o.kind = "start" => o.spawn # x
                /\ \A p \in procs : p.spawn # x
<1>i. ScriptTypeOK /\ OneStart
  BY DEF ScriptInv, ScriptOrder
<1>f. /\ 1 \in LaneIds(l) /\ Head(toMachine[l]) = toMachine[l][1]
      /\ Head(toMachine[l]).kind = kindRead /\ x \in 1..Phantom
      /\ InLane(toMachine[l], kindRead, x)
      /\ \A k \in Links : k # l => toMachine'[k] = toMachine[k] /\ LaneIds(k)' = LaneIds(k)
      /\ \A i \in LaneIds(l)' : /\ i \in Nat /\ i >= 1 /\ i + 1 \in LaneIds(l)
                                /\ toMachine'[l][i] = toMachine[l][i + 1]
  BY <1>i, FrameRead
<1>o. \A h, k \in Links : \A i \in LaneIds(h), j \in LaneIds(k) :
         toMachine[h][i].kind = "start" /\ toMachine[k][j].kind = "start"
           /\ toMachine[h][i].spawn = toMachine[k][j].spawn => h = k /\ i = j
  BY <1>i, Zenon DEF OneStart
<1>2. ASSUME NEW h \in Links, NEW k \in Links, NEW i \in LaneIds(h)', NEW j \in LaneIds(k)',
             toMachine'[h][i].kind = "start", toMachine'[k][j].kind = "start",
             toMachine'[h][i].spawn = toMachine'[k][j].spawn
      PROVE  h = k /\ i = j
  <2>1. CASE h = l /\ k = l
    BY <1>f, <1>o, <1>2, <2>1
  <2>2. CASE h = l /\ k # l
    BY <1>f, <1>o, <1>2, <2>2
  <2>3. CASE h # l /\ k = l
    BY <1>f, <1>o, <1>2, <2>3
  <2>4. CASE h # l /\ k # l
    BY <1>f, <1>o, <1>2, <2>4
  <2> QED
    BY <2>1, <2>2, <2>3, <2>4
<1>3. ASSUME kindRead = "start"
      PROVE  /\ \A k \in Links : ~InLane(toMachine[k], "start", x)'
             /\ \A o \in orders : o.kind = "start" => o.spawn # x
             /\ \A p \in procs : p.spawn # x
  <2>1. \A o \in orders : o.kind = "start" => o.spawn # x
    BY <1>i, <1>f, <1>3 DEF OneStart
  <2>2. \A p \in procs : p.spawn # x
    BY <1>i, <1>f, <1>3 DEF OneStart
  <2>3. ASSUME NEW k \in Links, InLane(toMachine[k], "start", x)' PROVE FALSE
    <3>1. PICK i \in LaneIds(k)' : toMachine'[k][i].kind = "start" /\ toMachine'[k][i].spawn = x
      BY <2>3, Zenon DEF InLane, LaneIds
    <3>2. toMachine[l][1].kind = "start" /\ toMachine[l][1].spawn = x
      BY <1>f, <1>3
    <3>3. CASE k = l
      <4>1. i + 1 \in LaneIds(l) /\ i + 1 # 1 /\ toMachine[l][i + 1].kind = "start" /\ toMachine[l][i + 1].spawn = x
        BY <1>f, <3>1, <3>3
      <4> QED
        BY <1>f, <1>o, <3>2, <4>1
    <3>4. CASE k # l
      BY <1>f, <1>o, <3>1, <3>2, <3>4
    <3> QED
      BY <3>3, <3>4
  <2> QED
    BY <2>1, <2>2, <2>3
<1> QED
  BY <1>2, <1>3

(* Stops follow in what is left of the lanes.                              *)
LEMMA ReadStops ==
    ASSUME ScriptInv, NEW l \in Links, NEW kindRead, Arrives(l, kindRead), Consume(l),
           UNCHANGED <<entry, orders, serving, checkout>>, late \subseteq late',
           \A x \in 1..Phantom : LetGo(x)' => LetGo(x) \/ \A k \in Links : ~InLane(toMachine[k], "start", x)',
           checkout', NEW k \in Links, NEW i \in LaneIds(k)', toMachine'[k][i].kind = "start",
           LetGo(toMachine[k][i].spawn)'
    PROVE  \/ Stopped(toMachine[k][i].spawn, k)'
           \/ \E j \in LaneIds(k)' : j > i /\ toMachine'[k][j].kind = "stop"
                                       /\ toMachine'[k][j].spawn = toMachine'[k][i].spawn
<1>i. ScriptTypeOK /\ StopsFollow
  BY DEF ScriptInv, ScriptOrder
<1>f. /\ \A h \in Links : h # l => toMachine'[h] = toMachine[h] /\ LaneIds(h)' = LaneIds(h)
      /\ \A j \in LaneIds(l)' : /\ j \in Nat /\ j >= 1 /\ j + 1 \in LaneIds(l)
                                /\ toMachine'[l][j] = toMachine[l][j + 1]
      /\ \A j \in LaneIds(l) : j = 1 \/ (j \in Nat /\ j - 1 \in LaneIds(l)' /\ toMachine'[l][j - 1] = toMachine[l][j])
  BY <1>i, FrameRead
<1>1. PICK x : x = toMachine'[k][i].spawn
  OBVIOUS
<1>2. InLane(toMachine[k], "start", x)'
  BY <1>1, Zenon DEF InLane, LaneIds
<1>3. LetGo(x)'
  BY <1>1, Zenon DEF LetGo, Told, InLane
<1>4. Stopped(x, k)' => Stopped(toMachine[k][i].spawn, k)'
  BY <1>1, Zenon DEF Stopped
<1>5. \A h : LinkUp(h)' <=> LinkUp(h)
  BY DEF LinkUp
<1>6. Stopped(x, k) => Stopped(x, k)'
  BY <1>5 DEF Stopped
<1>7. CASE k = l
  <2>1. i \in Nat /\ i + 1 \in LaneIds(l) /\ toMachine[l][i + 1].kind = "start" /\ toMachine[l][i + 1].spawn = x
    BY <1>1, <1>f, <1>7
  <2>2. x \in 1..Phantom
    BY <1>i, <2>1, LaneFields
  <2>3. LetGo(x)
    BY <1>2, <1>3, <2>2
  <2>4. \/ Stopped(x, l)
        \/ \E j \in LaneIds(l) : j > i + 1 /\ toMachine[l][j].kind = "stop" /\ toMachine[l][j].spawn = x
    BY <1>i, <2>1, <2>3 DEF StopsFollow
  <2>5. CASE Stopped(x, l)
    BY <1>4, <1>6, <1>7, <2>5
  <2>6. CASE \E j \in LaneIds(l) : j > i + 1 /\ toMachine[l][j].kind = "stop" /\ toMachine[l][j].spawn = x
    <3>1. PICK j \in LaneIds(l) : j > i + 1 /\ toMachine[l][j].kind = "stop" /\ toMachine[l][j].spawn = x
      BY <2>6
    <3>2. j \in Nat /\ j # 1
      BY <1>i, <2>1, <3>1, LaneFields
    <3>3. j - 1 \in LaneIds(l)' /\ toMachine'[l][j - 1] = toMachine[l][j] /\ j - 1 > i
      BY <1>f, <2>1, <3>1, <3>2
    <3> QED
      BY <1>1, <1>7, <3>1, <3>3
  <2> QED
    BY <2>4, <2>5, <2>6
<1>8. CASE k # l
  <2>1. toMachine'[k] = toMachine[k] /\ LaneIds(k)' = LaneIds(k)
    BY <1>f, <1>8
  <2>2. x \in 1..Phantom /\ i \in LaneIds(k) /\ toMachine[k][i].kind = "start" /\ toMachine[k][i].spawn = x
    BY <1>i, <1>1, <2>1, LaneFields
  <2>3. LetGo(x)
    BY <1>2, <1>3, <2>2
  <2>4. \/ Stopped(x, k)
        \/ \E j \in LaneIds(k) : j > i /\ toMachine[k][j].kind = "stop" /\ toMachine[k][j].spawn = x
    BY <1>i, <2>2, <2>3 DEF StopsFollow
  <2> QED
    BY <1>1, <1>4, <1>6, <2>1, <2>4
<1> QED
  BY <1>7, <1>8

(* The frame is gone from its lane.                                        *)
LEMMA FrameGone ==
    ASSUME ScriptTypeOK, NEW l \in Links, NEW kindRead, Arrives(l, kindRead), Consume(l),
           NEW x, x = Head(toMachine[l]).spawn
    PROVE  /\ l \in sessions /\ x \in 1..Phantom /\ InLane(toMachine[l], kindRead, x)
           /\ \A k \in Links : k # l => toMachine'[k] = toMachine[k]
           /\ \A k \in Links : \A kind, y : InLane(toMachine[k], kind, y)' => InLane(toMachine[k], kind, y)
           /\ \A k \in Links : \A kind, y : InLane(toMachine[k], kind, y) =>
                InLane(toMachine[k], kind, y)' \/ (k = l /\ kind = kindRead /\ y = x)
<1>1. /\ l \in sessions /\ x \in 1..Phantom /\ InLane(toMachine[l], kindRead, x)
      /\ \A k \in Links : k # l => toMachine'[k] = toMachine[k]
  BY FrameRead
<1>2. \A k \in Links : \A kind, y : InLane(toMachine[k], kind, y)' => InLane(toMachine[k], kind, y)
  BY FrameRead
<1>3. \A k \in Links : \A kind, y : InLane(toMachine[k], kind, y) =>
        InLane(toMachine[k], kind, y)' \/ (k = l /\ kind = kindRead /\ y = Head(toMachine[l]).spawn)
  BY FrameRead
<1> QED
  BY <1>1, <1>2, <1>3

(* StartRefused: the machine answers that the process has ended.           *)
LEMMA StartRefusedStep ==
    ASSUME ScriptInv, NEW l \in Links, StartRefused(l)
    PROVE  ScriptInv'
<1>i. /\ ScriptTypeOK /\ OneStart /\ SessionsServe /\ CleanupReaches /\ StopsFollow
  BY DEF ScriptInv, ScriptOrder
<1>t. ScriptTypeOK'
  BY MachineTypes
<1>u. UNCHANGED <<entry, ending, over, starter, stopper, orders, sleepers, serving, taken, finals,
                  finalAcks, gate, sessions, procs, cleanup, checkout, spawned, late, revived>>
  BY DEF StartRefused, callerVars, processVars
<1>x. PICK x : x = Head(toMachine[l]).spawn
  OBVIOUS
<1>p. Arrives(l, "start") /\ Consume(l) /\ Tells(l, Exited(x, TRUE))
  BY <1>x DEF StartRefused
<1>f. /\ l \in sessions /\ x \in 1..Phantom /\ InLane(toMachine[l], "start", x)
      /\ \A k \in Links : k # l => toMachine'[k] = toMachine[k]
      /\ \A k \in Links : \A kind, y : InLane(toMachine[k], kind, y)' => InLane(toMachine[k], kind, y)
      /\ \A k \in Links : \A kind, y : InLane(toMachine[k], kind, y) =>
           InLane(toMachine[k], kind, y)' \/ (k = l /\ kind = "start" /\ y = x)
  BY <1>i, <1>x, <1>p, FrameGone
<1>o. /\ \A h, k \in Links : \A i \in LaneIds(h)', j \in LaneIds(k)' :
           toMachine'[h][i].kind = "start" /\ toMachine'[k][j].kind = "start"
             /\ toMachine'[h][i].spawn = toMachine'[k][j].spawn => h = k /\ i = j
      /\ \A k \in Links : ~InLane(toMachine[k], "start", x)'
      /\ \A o \in orders : o.kind = "start" => o.spawn # x
      /\ \A p \in procs : p.spawn # x
  BY <1>x, <1>p, ReadLanes
<1>b. /\ \A k \in Links : \A kind, y : InLane(toBackend[k], kind, y) => InLane(toBackend[k], kind, y)'
      /\ \A k \in Links : \A kind, y : InLane(toBackend[k], kind, y)' =>
           InLane(toBackend[k], kind, y) \/ (k = l /\ kind = "exited" /\ y = x)
      /\ LinkUp(l) => InLane(toBackend[l], "exited", x)'
  <2>1. PICK f \in Reports : f = Exited(x, TRUE) /\ f.kind = "exited" /\ f.spawn = x
    BY <1>f, ReportsAre
  <2>2. Tells(l, f)
    BY <1>p, <2>1
  <2>3. /\ \A k \in Links : \A kind, y : InLane(toBackend[k], kind, y) => InLane(toBackend[k], kind, y)'
        /\ \A k \in Links : \A kind, y : InLane(toBackend[k], kind, y)' =>
             InLane(toBackend[k], kind, y) \/ (k = l /\ kind = f.kind /\ y = f.spawn)
        /\ LinkUp(l) => InLane(toBackend[l], f.kind, f.spawn)'
    BY <1>i, <2>2, ReportSent
  <2> QED
    BY <2>1, <2>3
<1>1. OneStart'
  BY <1>i, <1>u, <1>f, <1>o, SameProcs, OneStartFewer
<1>2. SessionsServe'
  BY <1>i, <1>u, <1>f DEF SessionsServe
<1>3. CleanupReaches'
  BY <1>i, <1>u, SameProcs, CleanupKept
<1>4. StopsFollow'
  <2>1. \A y \in 1..Phantom : Told(y)' => Told(y) \/ y = x
    <3>1. \A k \in Links : \A y : InLane(toBackend[k], "exited", y)' => InLane(toBackend[k], "exited", y) \/ y = x
      BY <1>b
    <3> QED
      BY <1>u, <1>f, <3>1 DEF Told
  <2>2. \A y \in 1..Phantom : LetGo(y)' => LetGo(y) \/ y = x
    BY <1>u, <2>1 DEF LetGo
  <2>3. \A k : LinkUp(k)' <=> LinkUp(k)
    BY <1>u DEF LinkUp
  <2>4. checkout' => \A o \in orders' : o.kind = "start" /\ entry'.spawn = o.spawn /\ Told(o.spawn)' =>
                                  entry'.stopping \/ ~LinkUp(o.link)' \/ o.spawn \in late'
    BY <1>i, <1>u, <1>o, <2>1, <2>3, OrderFields DEF StopsFollow
  <2>5. ASSUME checkout', NEW k \in Links, NEW i \in LaneIds(k)', toMachine'[k][i].kind = "start",
               LetGo(toMachine[k][i].spawn)'
        PROVE  \/ Stopped(toMachine[k][i].spawn, k)'
               \/ \E j \in LaneIds(k)' : j > i /\ toMachine'[k][j].kind = "stop"
                                           /\ toMachine'[k][j].spawn = toMachine'[k][i].spawn
    <3>1. \A y \in 1..Phantom : LetGo(y)' => LetGo(y) \/ \A h \in Links : ~InLane(toMachine[h], "start", y)'
      BY <1>o, <2>2
    <3> QED
      BY <1>p, <1>u, <2>5, <3>1, ReadStops
  <2>6. ASSUME NEW p \in procs', ~p.killed, LetGo(p.spawn)'
        PROVE  Stopped(p.spawn, p.link)' \/ InLane(toMachine[p.link], "stop", p.spawn)'
    <3>1. p \in procs /\ p.spawn \in 1..Phantom /\ p.link \in Links /\ p.spawn # x
      BY <1>i, <1>u, <1>o, ProcessFields
    <3>2. LetGo(p.spawn)
      BY <2>2, <2>6, <3>1
    <3>3. Stopped(p.spawn, p.link) \/ InLane(toMachine[p.link], "stop", p.spawn)
      BY <1>i, <2>6, <3>1, <3>2 DEF StopsFollow
    <3>4. Stopped(p.spawn, p.link) => Stopped(p.spawn, p.link)'
      BY <1>u, <2>3 DEF Stopped
    <3> QED
      BY <1>f, <3>1, <3>3, <3>4
  <2> QED
    BY <2>4, <2>5, <2>6, Zenon DEF StopsFollow
<1>5. \A y \in 1..Phantom, k \in Links : Asked(y, k)' => Asked(y, k)
  BY <1>u, <1>f DEF Asked
<1>6. \A y \in 1..Phantom, k \in Links : Named(y, k)' => Named(y, k)
  BY <1>u, <1>f, <1>b, <1>5 DEF Named, Asked
<1>7. entry.spawn # 0 /\ LinkUp(entry.link) /\ Answers => Answers'
  <2>1. \A y \in 1..Phantom, k \in Links : Asked(y, k) => Asked(y, k)' \/ (k = l /\ y = x)
    BY <1>u, <1>f DEF Asked
  <2> QED
    BY <1>u, <1>b, <2>1, AnswersKept
<1>8. StartPends => StartPends'
  BY <1>u DEF StartPends
<1> QED
  BY <1>t, <1>u, <1>1, <1>2, <1>3, <1>4, <1>5, <1>6, <1>7, <1>8, MachineStep

(* ProcessSpawned: a process is spawned, and the stop that may follow its  *)
(* start is still to come.                                                 *)
LEMMA ProcessSpawnedStep ==
    ASSUME ScriptInv, NEW l \in Links, ProcessSpawned(l)
    PROVE  ScriptInv'
<1>i. /\ ScriptTypeOK /\ OneStart /\ SessionsServe /\ CleanupReaches /\ StopsFollow
  BY DEF ScriptInv, ScriptOrder
<1>t. ScriptTypeOK'
  BY MachineTypes
<1>u. UNCHANGED <<entry, ending, over, starter, stopper, orders, sleepers, serving, taken, toBackend,
                  finals, finalAcks, gate, sessions, cleanup, checkout, spawned, revived>>
  BY DEF ProcessSpawned, callerVars
<1>x. PICK x : x = Head(toMachine[l]).spawn
  OBVIOUS
<1>n. PICK new : new = [spawn |-> x, link |-> l, killed |-> FALSE]
  OBVIOUS
<1>p. /\ Arrives(l, "start") /\ Consume(l) /\ checkout
      /\ procs' = procs \cup {new}
      /\ late' = IF cleanup.stage \in {"none", "begun"} THEN late ELSE late \cup {x}
  BY <1>x, <1>n DEF ProcessSpawned
<1>w. new.spawn = x /\ new.link = l
  BY <1>n
<1>f. /\ l \in sessions /\ x \in 1..Phantom /\ InLane(toMachine[l], "start", x)
      /\ \A k \in Links : k # l => toMachine'[k] = toMachine[k]
      /\ \A k \in Links : \A kind, y : InLane(toMachine[k], kind, y)' => InLane(toMachine[k], kind, y)
      /\ \A k \in Links : \A kind, y : InLane(toMachine[k], kind, y) =>
           InLane(toMachine[k], kind, y)' \/ (k = l /\ kind = "start" /\ y = x)
  BY <1>i, <1>x, <1>p, FrameGone
<1>o. /\ \A h, k \in Links : \A i \in LaneIds(h)', j \in LaneIds(k)' :
           toMachine'[h][i].kind = "start" /\ toMachine'[k][j].kind = "start"
             /\ toMachine'[h][i].spawn = toMachine'[k][j].spawn => h = k /\ i = j
      /\ \A k \in Links : ~InLane(toMachine[k], "start", x)'
      /\ \A o \in orders : o.kind = "start" => o.spawn # x
      /\ \A p \in procs : p.spawn # x
  BY <1>x, <1>p, ReadLanes
<1>b. \A k : \A kind, y : InLane(toBackend[k], kind, y)' <=> InLane(toBackend[k], kind, y)
  BY <1>u DEF InLane
<1>q. late \subseteq late' /\ procs \subseteq procs' /\ \A p \in procs' : p \in procs \/ p = new
  BY <1>p
<1>1. OneStart'
  <2>1. \A o, q \in orders' : o.kind = "start" /\ q.kind = "start" /\ o.spawn = q.spawn => o = q
    BY <1>i, <1>u, Zenon DEF OneStart
  <2>2. \A o \in orders' : o.kind = "start" =>
         /\ \A k \in Links : ~InLane(toMachine[k], "start", o.spawn)'
         /\ \A p \in procs' : p.spawn # o.spawn
    <3>1. \A o \in orders : o.kind = "start" =>
           /\ \A k \in Links : ~InLane(toMachine[k], "start", o.spawn)
           /\ \A p \in procs : p.spawn # o.spawn
      BY <1>i, Zenon DEF OneStart
    <3> QED
      BY <1>u, <1>w, <1>f, <1>o, <1>q, <3>1
  <2>3. \A p \in procs' : \A k \in Links : ~InLane(toMachine[k], "start", p.spawn)'
    <3>1. \A p \in procs : \A k \in Links : ~InLane(toMachine[k], "start", p.spawn)
      BY <1>i, Zenon DEF OneStart
    <3> QED
      BY <1>w, <1>f, <1>o, <1>q, <3>1
  <2>4. \A p, q \in procs' : p.spawn = q.spawn => p = q
    <3>1. \A p, q \in procs : p.spawn = q.spawn => p = q
      BY <1>i, Zenon DEF OneStart
    <3> QED
      BY <1>w, <1>o, <1>q, <3>1
  <2> QED
    BY <1>o, <2>1, <2>2, <2>3, <2>4, Zenon DEF OneStart
<1>2. SessionsServe'
  <2>1. \A k \in Links \ sessions' : toMachine'[k] = <<>>
    BY <1>i, <1>u, <1>f DEF SessionsServe
  <2>2. \A p \in procs' : p.killed \/ p.link \in sessions'
    BY <1>i, <1>u, <1>w, <1>f, <1>q DEF SessionsServe
  <2> QED
    BY <2>1, <2>2 DEF SessionsServe
<1>3. CleanupReaches'
  <2>1. cleanup.stage \in {"reaping", "removing"} => x \in late'
    BY <1>p
  <2> QED
    BY <1>i, <1>u, <1>p, <1>w, <1>q, <2>1 DEF CleanupReaches
<1>4. StopsFollow'
  <2>1. \A y \in 1..Phantom : Told(y)' => Told(y)
    BY <1>u, <1>f, <1>b, ToldKept
  <2>2. \A y \in 1..Phantom : LetGo(y)' => LetGo(y)
    BY <1>u, <2>1 DEF LetGo
  <2>3. \A k : LinkUp(k)' <=> LinkUp(k)
    BY <1>u DEF LinkUp
  <2>s. \A y, k : Stopped(y, k) => Stopped(y, k)'
    BY <1>u, <1>q, <2>3 DEF Stopped
  <2>4. checkout' => \A o \in orders' : o.kind = "start" /\ entry'.spawn = o.spawn /\ Told(o.spawn)' =>
                                  entry'.stopping \/ ~LinkUp(o.link)' \/ o.spawn \in late'
    BY <1>i, <1>u, <1>q, <2>1, <2>3, OrderFields DEF StopsFollow
  <2>5. ASSUME checkout', NEW k \in Links, NEW i \in LaneIds(k)', toMachine'[k][i].kind = "start",
               LetGo(toMachine[k][i].spawn)'
        PROVE  \/ Stopped(toMachine[k][i].spawn, k)'
               \/ \E j \in LaneIds(k)' : j > i /\ toMachine'[k][j].kind = "stop"
                                           /\ toMachine'[k][j].spawn = toMachine'[k][i].spawn
    BY <1>p, <1>u, <1>q, <2>2, <2>5, ReadStops
  <2>6. ASSUME NEW p \in procs', ~p.killed, LetGo(p.spawn)'
        PROVE  Stopped(p.spawn, p.link)' \/ InLane(toMachine[p.link], "stop", p.spawn)'
    <3>1. CASE p \in procs
      <4>1. p.spawn \in 1..Phantom /\ p.link \in Links
        BY <1>i, <3>1, ProcessFields
      <4>2. Stopped(p.spawn, p.link) \/ InLane(toMachine[p.link], "stop", p.spawn)
        BY <1>i, <2>2, <2>6, <3>1, <4>1 DEF StopsFollow
      <4> QED
        BY <1>f, <2>s, <4>1, <4>2
    <3>2. CASE p = new
      <4>1. p.spawn = x /\ p.link = l /\ LetGo(x)
        BY <1>w, <1>f, <2>2, <2>6, <3>2
      <4>2. 1 \in LaneIds(l) /\ toMachine[l][1].kind = "start" /\ toMachine[l][1].spawn = x
        BY <1>i, <1>x, <1>p, FrameRead
      <4>3. \/ Stopped(x, l)
            \/ \E j \in LaneIds(l) : j > 1 /\ toMachine[l][j].kind = "stop" /\ toMachine[l][j].spawn = x
        BY <1>i, <1>p, <4>1, <4>2 DEF StopsFollow
      <4>4. (\E j \in LaneIds(l) : j > 1 /\ toMachine[l][j].kind = "stop" /\ toMachine[l][j].spawn = x)
              => InLane(toMachine[l], "stop", x)
        BY Zenon DEF InLane, LaneIds
      <4> QED
        BY <1>f, <2>s, <4>1, <4>3, <4>4
    <3> QED
      BY <1>q, <3>1, <3>2
  <2> QED
    BY <2>4, <2>5, <2>6, Zenon DEF StopsFollow
<1>a. \A y, k : (\E p \in procs' : p.spawn = y /\ p.link = k) <=>
                (\E p \in procs : p.spawn = y /\ p.link = k) \/ (y = x /\ k = l)
  BY <1>p, <1>w
<1>5. \A y \in 1..Phantom, k \in Links : Asked(y, k)' => Asked(y, k)
  BY <1>u, <1>f, <1>a DEF Asked
<1>6. \A y \in 1..Phantom, k \in Links : Named(y, k)' => Named(y, k)
  BY <1>u, <1>f, <1>b, <1>5 DEF Named, Asked
<1>7. entry.spawn # 0 /\ LinkUp(entry.link) /\ Answers => Answers'
  <2>1. \A y \in 1..Phantom, k \in Links : Asked(y, k) => Asked(y, k)'
    BY <1>u, <1>f, <1>a DEF Asked
  <2> QED
    BY <1>u, <1>b, <2>1, AnswersKept
<1>8. StartPends => StartPends'
  BY <1>u DEF StartPends
<1> QED
  BY <1>t, <1>u, <1>q, <1>1, <1>2, <1>3, <1>4, <1>5, <1>6, <1>7, <1>8, MachineStep

(* ProcessStarts: it is recorded and reported.                             *)
LEMMA ProcessStartsStep ==
    ASSUME ScriptInv, NEW l \in Links, ProcessStarts(l)
    PROVE  ScriptInv'
<1>i. /\ ScriptTypeOK /\ OneStart /\ SessionsServe /\ CleanupReaches /\ StopsFollow
  BY DEF ScriptInv, ScriptOrder
<1>t. ScriptTypeOK'
  BY MachineTypes
<1>u. UNCHANGED <<entry, ending, over, starter, stopper, orders, sleepers, serving, taken, toMachine, finals,
                  finalAcks, gate, sessions, procs, cleanup, checkout, spawned, late, revived>>
  BY DEF ProcessStarts, callerVars
<1>p. PICK p \in procs : p.link = l /\ Tells(l, Started(p.spawn))
  BY DEF ProcessStarts
<1>f. p.spawn \in 1..Phantom /\ p.spawn \in Spawns /\ Named(p.spawn, l)
  BY <1>i, <1>p, ProcessFields DEF Asked, Named
<1>b. /\ \A k \in Links : \A kind, y : InLane(toBackend[k], kind, y) => InLane(toBackend[k], kind, y)'
      /\ \A k \in Links : \A kind, y : InLane(toBackend[k], kind, y)' =>
           InLane(toBackend[k], kind, y) \/ (k = l /\ kind = "started" /\ y = p.spawn)
  <2>1. PICK f \in Reports : f = Started(p.spawn) /\ f.kind = "started" /\ f.spawn = p.spawn
    BY <1>f, ReportsAre
  <2>2. Tells(l, f)
    BY <1>p, <2>1
  <2>3. /\ \A k \in Links : \A kind, y : InLane(toBackend[k], kind, y) => InLane(toBackend[k], kind, y)'
        /\ \A k \in Links : \A kind, y : InLane(toBackend[k], kind, y)' =>
             InLane(toBackend[k], kind, y) \/ (k = l /\ kind = f.kind /\ y = f.spawn)
    BY <1>i, <2>2, ReportSent
  <2> QED
    BY <2>1, <2>3
<1>m. \A k : \A kind, x : InLane(toMachine[k], kind, x)' <=> InLane(toMachine[k], kind, x)
  BY <1>u DEF InLane
<1>1. OneStart' /\ SessionsServe' /\ CleanupReaches'
  BY <1>i, <1>u, SameProcs, OneStartKept, SessionsKept, CleanupKept
<1>2. StopsFollow'
  <2>1. \A x \in 1..Phantom : Told(x)' => Told(x)
    <3>1. \A k \in Links : \A x : InLane(toBackend[k], "exited", x)' => InLane(toBackend[k], "exited", x)
      BY <1>b
    <3> QED
      BY <1>u, <1>m, <3>1, ToldKept
  <2>2. \A x \in 1..Phantom : LetGo(x)' => LetGo(x)
    BY <1>u, <2>1 DEF LetGo
  <2>3. checkout' => \A o \in orders' : o.kind = "start" /\ entry'.spawn = o.spawn /\ Told(o.spawn)' =>
                            entry'.stopping \/ ~LinkUp(o.link) \/ o.spawn \in late'
    BY <1>i, <1>u, <2>1, OrderFields DEF StopsFollow
  <2> QED
    BY <1>i, <1>u, <2>2, <2>3, StopsKept
<1>3. \A x, k : Asked(x, k)' <=> Asked(x, k)
  BY <1>u, <1>m DEF Asked
<1>4. \A x \in 1..Phantom, k \in Links : Named(x, k)' => Named(x, k)
  BY <1>u, <1>m, <1>b, <1>f, <1>3 DEF Named
<1>5. entry.spawn # 0 /\ LinkUp(entry.link) /\ Answers => Answers'
  BY <1>u, <1>b, <1>3, AnswersKept
<1>6. StartPends => StartPends'
  BY <1>u DEF StartPends
<1> QED
  BY <1>t, <1>u, <1>1, <1>2, <1>3, <1>4, <1>5, <1>6, MachineStep

(* StopArrives: the process is killed, or there is none.                   *)
LEMMA StopArrivesStep ==
    ASSUME ScriptInv, NEW l \in Links, StopArrives(l)
    PROVE  ScriptInv'
<1>i. /\ ScriptTypeOK /\ OneStart /\ SessionsServe /\ CleanupReaches /\ StopsFollow
  BY DEF ScriptInv, ScriptOrder
<1>t. ScriptTypeOK'
  BY MachineTypes
<1>u. UNCHANGED <<entry, ending, over, starter, stopper, orders, sleepers, serving, taken, finals,
                  finalAcks, gate, sessions, cleanup, checkout, spawned, late, revived>>
  BY DEF StopArrives, callerVars
<1>x. PICK x : x = Head(toMachine[l]).spawn
  OBVIOUS
<1>p. /\ Arrives(l, "stop") /\ Consume(l) /\ procs' = StopKilled(x)
      /\ toBackend' = toBackend \/ Tells(l, Exited(x, TRUE))
  BY <1>x DEF StopArrives, StopKilled
<1>q. /\ \A q \in procs' : \E p \in procs : q.spawn = p.spawn /\ q.link = p.link /\ (~q.killed => ~p.killed /\ p.spawn # x)
      /\ \A p \in procs : \E q \in procs' : q.spawn = p.spawn /\ q.link = p.link
      /\ \A q, r \in procs' : q.spawn = r.spawn => q = r
  BY <1>i, <1>p, StopKills
<1>f. /\ l \in sessions /\ x \in 1..Phantom /\ InLane(toMachine[l], "stop", x)
      /\ \A k \in Links : k # l => toMachine'[k] = toMachine[k]
      /\ \A k \in Links : \A kind, y : InLane(toMachine[k], kind, y)' => InLane(toMachine[k], kind, y)
      /\ \A k \in Links : \A kind, y : InLane(toMachine[k], kind, y) =>
           InLane(toMachine[k], kind, y)' \/ (k = l /\ kind = "stop" /\ y = x)
  BY <1>i, <1>x, <1>p, FrameGone
<1>o. \A h, k \in Links : \A i \in LaneIds(h)', j \in LaneIds(k)' :
         toMachine'[h][i].kind = "start" /\ toMachine'[k][j].kind = "start"
           /\ toMachine'[h][i].spawn = toMachine'[k][j].spawn => h = k /\ i = j
  BY <1>x, <1>p, ReadLanes
<1>b. /\ \A k \in Links : \A kind, y : InLane(toBackend[k], kind, y) => InLane(toBackend[k], kind, y)'
      /\ \A k \in Links : \A kind, y : InLane(toBackend[k], kind, y)' =>
           InLane(toBackend[k], kind, y) \/ (k = l /\ kind = "exited" /\ y = x)
  <2>1. PICK f \in Reports : f = Exited(x, TRUE) /\ f.kind = "exited" /\ f.spawn = x
    BY <1>f, ReportsAre
  <2>2. CASE Tells(l, f)
    <3>1. /\ \A k \in Links : \A kind, y : InLane(toBackend[k], kind, y) => InLane(toBackend[k], kind, y)'
          /\ \A k \in Links : \A kind, y : InLane(toBackend[k], kind, y)' =>
               InLane(toBackend[k], kind, y) \/ (k = l /\ kind = f.kind /\ y = f.spawn)
      BY <1>i, <2>2, ReportSent
    <3> QED
      BY <2>1, <3>1
  <2>3. CASE toBackend' = toBackend
    BY <2>3, Zenon DEF InLane
  <2> QED
    BY <1>p, <2>1, <2>2, <2>3
<1>g. \A q \in procs' : \E p \in procs : q.spawn = p.spawn
  BY <1>q
<1>1. OneStart'
  BY <1>i, <1>u, <1>f, <1>o, <1>q, <1>g, OneStartFewer
<1>2. SessionsServe'
  <2>1. \A k \in Links \ sessions' : toMachine'[k] = <<>>
    BY <1>i, <1>u, <1>f DEF SessionsServe
  <2>2. \A q \in procs' : q.killed \/ q.link \in sessions'
    BY <1>i, <1>u, <1>q DEF SessionsServe
  <2> QED
    BY <2>1, <2>2 DEF SessionsServe
<1>3. CleanupReaches'
  BY <1>i, <1>u, <1>g, CleanupKept
<1>4. StopsFollow'
  <2>1. \A y \in 1..Phantom : Told(y)' => Told(y)
    <3>1. Told(x)
      BY <1>f DEF Told
    <3>2. \A k \in Links : \A y : InLane(toBackend[k], "exited", y)' => InLane(toBackend[k], "exited", y) \/ y = x
      BY <1>b
    <3>3. \A y : Told(y)' => Told(y) \/ y = x
      BY <1>u, <1>f, <3>2 DEF Told
    <3> QED
      BY <3>1, <3>3
  <2>2. \A y \in 1..Phantom : LetGo(y)' => LetGo(y)
    BY <1>u, <2>1 DEF LetGo
  <2>3. \A k : LinkUp(k)' <=> LinkUp(k)
    BY <1>u DEF LinkUp
  <2>s. \A y, k : Stopped(y, k) => Stopped(y, k)'
    BY <1>u, <2>3 DEF Stopped
  <2>4. checkout' => \A o \in orders' : o.kind = "start" /\ entry'.spawn = o.spawn /\ Told(o.spawn)' =>
                                  entry'.stopping \/ ~LinkUp(o.link)' \/ o.spawn \in late'
    BY <1>i, <1>u, <2>1, <2>3, OrderFields DEF StopsFollow
  <2>5. ASSUME checkout', NEW k \in Links, NEW i \in LaneIds(k)', toMachine'[k][i].kind = "start",
               LetGo(toMachine[k][i].spawn)'
        PROVE  \/ Stopped(toMachine[k][i].spawn, k)'
               \/ \E j \in LaneIds(k)' : j > i /\ toMachine'[k][j].kind = "stop"
                                           /\ toMachine'[k][j].spawn = toMachine'[k][i].spawn
    BY <1>p, <1>u, <2>2, <2>5, ReadStops
  <2>6. ASSUME NEW q \in procs', ~q.killed, LetGo(q.spawn)'
        PROVE  Stopped(q.spawn, q.link)' \/ InLane(toMachine[q.link], "stop", q.spawn)'
    <3>1. PICK p \in procs : q.spawn = p.spawn /\ q.link = p.link /\ ~p.killed /\ p.spawn # x
      BY <1>q, <2>6
    <3>2. p.spawn \in 1..Phantom /\ p.link \in Links
      BY <1>i, ProcessFields
    <3>3. LetGo(p.spawn)
      BY <2>2, <2>6, <3>1, <3>2
    <3>4. Stopped(p.spawn, p.link) \/ InLane(toMachine[p.link], "stop", p.spawn)
      BY <1>i, <3>1, <3>3 DEF StopsFollow
    <3> QED
      BY <1>f, <2>s, <3>1, <3>2, <3>4
  <2> QED
    BY <2>4, <2>5, <2>6, Zenon DEF StopsFollow
<1>a. \A y, k : (\E q \in procs' : q.spawn = y /\ q.link = k) <=> (\E p \in procs : p.spawn = y /\ p.link = k)
  BY <1>q
<1>5. \A y \in 1..Phantom, k \in Links : Asked(y, k)' <=> Asked(y, k)
  <2>1. \A k \in Links : \A y : InLane(toMachine[k], "start", y)' <=> InLane(toMachine[k], "start", y)
    BY <1>f
  <2>2. \A y, k : (Order("start", y, k) \in orders)' <=> Order("start", y, k) \in orders
    BY <1>u DEF Order
  <2> QED
    BY <1>a, <2>1, <2>2, Zenon DEF Asked
<1>6. \A y \in 1..Phantom, k \in Links : Named(y, k)' => Named(y, k)
  BY <1>u, <1>f, <1>b, <1>5 DEF Named
<1>7. entry.spawn # 0 /\ LinkUp(entry.link) /\ Answers => Answers'
  BY <1>u, <1>b, <1>5, AnswersKept
<1>8. StartPends => StartPends'
  BY <1>u DEF StartPends
<1> QED
  BY <1>t, <1>u, <1>1, <1>2, <1>3, <1>4, <1>5, <1>6, <1>7, <1>8, MachineStep
-----------------------------------------------------------------------------
(* A task queues its frame on a link that is up: it goes to the end of the *)
(* lane, or nowhere if the session has ended.                              *)
LEMMA FrameQueued ==
    ASSUME ScriptInv, NEW o \in orders, QueueFrame(o)
    PROVE  /\ o.link \in sessions =>
                /\ Len(toMachine[o.link]) + 1 \in LaneIds(o.link)'
                /\ toMachine'[o.link][Len(toMachine[o.link]) + 1].kind = o.kind
                /\ toMachine'[o.link][Len(toMachine[o.link]) + 1].spawn = o.spawn
                /\ \A i \in LaneIds(o.link) : i < Len(toMachine[o.link]) + 1
                /\ InLane(toMachine[o.link], o.kind, o.spawn)'
           /\ o.link \notin sessions => toMachine' = toMachine
           /\ \A k \in Links : \A i \in LaneIds(k)' :
                \/ i \in LaneIds(k) /\ toMachine'[k][i] = toMachine[k][i]
                \/ k = o.link /\ k \in sessions /\ i = Len(toMachine[k]) + 1
           /\ \A k \in Links : \A i \in LaneIds(k) : i \in LaneIds(k)' /\ toMachine'[k][i] = toMachine[k][i]
           /\ \A k \in Links : \A kind, x :
                InLane(toMachine[k], kind, x)' =>
                    InLane(toMachine[k], kind, x) \/ (k = o.link /\ kind = o.kind /\ x = o.spawn)
           /\ \A k \in Links : \A kind, x : InLane(toMachine[k], kind, x) => InLane(toMachine[k], kind, x)'
           /\ \A k \in Links : k # o.link => toMachine'[k] = toMachine[k]
<1>i. ScriptTypeOK /\ toMachine \in [Links -> Seq(Frames)]
  BY DEF ScriptInv, ScriptTypeOK
<1>o. o.kind \in {"start", "stop"} /\ o.spawn \in 1..Phantom /\ o.link \in Links
  BY <1>i, OrderFields
<1>1. CASE o.link \notin sessions
  <2>1. toMachine' = toMachine
    BY <1>1 DEF QueueFrame
  <2> QED
    BY <1>1, <2>1, Zenon DEF InLane, LaneIds
<1>2. CASE o.link \in sessions
  <2>1. PICK f : f = [kind |-> o.kind, spawn |-> o.spawn]
    OBVIOUS
  <2>2. f \in Frames /\ f.kind = o.kind /\ f.spawn = o.spawn
    BY <1>o, <2>1 DEF Frames
  <2>3. toMachine' = [toMachine EXCEPT ![o.link] = Append(toMachine[o.link], f)]
    BY <1>2, <2>1 DEF QueueFrame
  <2>4. toMachine[o.link] \in Seq(Frames)
    BY <1>i, <1>o
  <2>5. toMachine'[o.link] = Append(toMachine[o.link], f)
    BY <1>i, <1>o, <2>3
  <2>6. \A k \in Links : k # o.link => toMachine'[k] = toMachine[k]
    BY <1>i, <2>3
  <2>7. /\ Len(toMachine[o.link]) + 1 \in 1..Len(toMachine'[o.link])
        /\ toMachine'[o.link][Len(toMachine[o.link]) + 1] = f
        /\ \A i \in 1..Len(toMachine[o.link]) : /\ i \in 1..Len(toMachine'[o.link])
                                                /\ toMachine'[o.link][i] = toMachine[o.link][i]
                                                /\ i < Len(toMachine[o.link]) + 1
        /\ \A i \in 1..Len(toMachine'[o.link]) : i \in 1..Len(toMachine[o.link]) \/ i = Len(toMachine[o.link]) + 1
    BY <2>2, <2>4, <2>5, LaneAppend
  <2>8. \A kind, x : InLane(toMachine'[o.link], kind, x)
                       <=> InLane(toMachine[o.link], kind, x) \/ (o.kind = kind /\ o.spawn = x)
    <3>1. \A kind, x : InLane(Append(toMachine[o.link], f), kind, x)
                         <=> InLane(toMachine[o.link], kind, x) \/ (f.kind = kind /\ f.spawn = x)
      BY <2>2, <2>4, LaneAppend
    <3> QED
      BY <2>2, <2>5, <3>1
  <2>9. /\ \A k \in Links : \A kind, x : InLane(toMachine'[k], kind, x) =>
             InLane(toMachine[k], kind, x) \/ (k = o.link /\ kind = o.kind /\ x = o.spawn)
        /\ \A k \in Links : \A kind, x : InLane(toMachine[k], kind, x) => InLane(toMachine'[k], kind, x)
        /\ InLane(toMachine'[o.link], o.kind, o.spawn)
    BY <2>6, <2>8, Zenon
  <2>10. /\ \A k \in Links : \A kind, x : InLane(toMachine[k], kind, x)' =>
              InLane(toMachine[k], kind, x) \/ (k = o.link /\ kind = o.kind /\ x = o.spawn)
         /\ \A k \in Links : \A kind, x : InLane(toMachine[k], kind, x) => InLane(toMachine[k], kind, x)'
         /\ InLane(toMachine[o.link], o.kind, o.spawn)'
    BY <2>9, Zenon DEF InLane
  <2>11. ASSUME NEW k \in Links
         PROVE  /\ \A i \in LaneIds(k)' : \/ i \in LaneIds(k) /\ toMachine'[k][i] = toMachine[k][i]
                                          \/ k = o.link /\ k \in sessions /\ i = Len(toMachine[k]) + 1
                /\ \A i \in LaneIds(k) : i \in LaneIds(k)' /\ toMachine'[k][i] = toMachine[k][i]
    <3>1. CASE k = o.link
      BY <1>2, <2>7, <3>1 DEF LaneIds
    <3>2. CASE k # o.link
      <4>1. LaneIds(k)' = LaneIds(k) /\ toMachine'[k] = toMachine[k]
        BY <2>6, <3>2 DEF LaneIds
      <4> QED
        BY <4>1
    <3> QED
      BY <3>1, <3>2
  <2>12. /\ Len(toMachine[o.link]) + 1 \in LaneIds(o.link)'
         /\ toMachine'[o.link][Len(toMachine[o.link]) + 1].kind = o.kind
         /\ toMachine'[o.link][Len(toMachine[o.link]) + 1].spawn = o.spawn
         /\ \A i \in LaneIds(o.link) : i < Len(toMachine[o.link]) + 1
    BY <2>2, <2>7, Zenon DEF LaneIds
  <2> QED
    BY <1>2, <2>6, <2>10, <2>11, <2>12
<1> QED
  BY <1>1, <1>2

(* QueueFrame: the frame is on its way.                                    *)
LEMMA QueueFrameStep ==
    ASSUME ScriptInv, NEW o \in orders, QueueFrame(o)
    PROVE  ScriptInv'
<1>i. /\ ScriptTypeOK /\ EntryShape /\ OneStart /\ SessionsServe /\ CleanupReaches /\ StopsFollow
  BY DEF ScriptInv, ScriptOrder
<1>t. ScriptTypeOK'
  BY MachineTypes
<1>u. UNCHANGED <<entry, ending, over, starter, stopper, sleepers, serving, taken, toBackend, finals,
                  finalAcks, gate, sessions, procs, cleanup, checkout, spawned, revived>>
  BY DEF QueueFrame, processVars
<1>p. /\ LinkUp(o.link) /\ orders' = orders \ {o}
      /\ late' = IF o.kind = "stop" \/ (entry.spawn = o.spawn /\ ~entry.stopping)
                 THEN late ELSE late \cup {o.spawn}
  BY DEF QueueFrame
<1>o. /\ o.kind \in {"start", "stop"} /\ o.spawn \in 1..Phantom /\ o.link \in Links
      /\ o = Order(o.kind, o.spawn, o.link)
  BY <1>i, OrderFields
<1>l. late \subseteq late'
  BY <1>p
<1>e. /\ o.link \in sessions =>
           /\ Len(toMachine[o.link]) + 1 \in LaneIds(o.link)'
           /\ toMachine'[o.link][Len(toMachine[o.link]) + 1].kind = o.kind
           /\ toMachine'[o.link][Len(toMachine[o.link]) + 1].spawn = o.spawn
           /\ \A i \in LaneIds(o.link) : i < Len(toMachine[o.link]) + 1
           /\ InLane(toMachine[o.link], o.kind, o.spawn)'
      /\ o.link \notin sessions => toMachine' = toMachine
      /\ \A k \in Links : k # o.link => toMachine'[k] = toMachine[k]
  BY FrameQueued
<1>f. /\ \A k \in Links : \A i \in LaneIds(k)' :
           \/ i \in LaneIds(k) /\ toMachine'[k][i] = toMachine[k][i]
           \/ k = o.link /\ k \in sessions /\ i = Len(toMachine[k]) + 1
      /\ \A k \in Links : \A i \in LaneIds(k) : i \in LaneIds(k)' /\ toMachine'[k][i] = toMachine[k][i]
  BY FrameQueued
<1>m. /\ \A k \in Links : \A kind, x :
           InLane(toMachine[k], kind, x)' =>
               InLane(toMachine[k], kind, x) \/ (k = o.link /\ kind = o.kind /\ x = o.spawn)
      /\ \A k \in Links : \A kind, x : InLane(toMachine[k], kind, x) => InLane(toMachine[k], kind, x)'
  BY FrameQueued
<1>b. \A k : \A kind, x : InLane(toBackend[k], kind, x)' <=> InLane(toBackend[k], kind, x)
  BY <1>u DEF InLane
<1>r. /\ \A kind, x, k : Order(kind, x, k) \in orders' => Order(kind, x, k) \in orders
      /\ \A kind, x, k : Order(kind, x, k) \in orders =>
           Order(kind, x, k) \in orders' \/ (kind = o.kind /\ x = o.spawn /\ k = o.link)
  BY <1>p, <1>o DEF Order
<1>1. OneStart'
  <2>1. \A r, q \in orders' : r.kind = "start" /\ q.kind = "start" /\ r.spawn = q.spawn => r = q
    BY <1>i, <1>p DEF OneStart
  <2>2. ASSUME NEW r \in orders', r.kind = "start"
        PROVE  /\ \A k \in Links : ~InLane(toMachine[k], "start", r.spawn)'
               /\ \A q \in procs' : q.spawn # r.spawn
    <3>1. /\ r \in orders /\ r # o
          /\ \A k \in Links : ~InLane(toMachine[k], "start", r.spawn)
          /\ \A q \in procs : q.spawn # r.spawn
      BY <1>i, <1>p, <2>2 DEF OneStart
    <3>2. o.kind = "start" => o.spawn # r.spawn
      BY <1>i, <2>2, <3>1 DEF OneStart
    <3> QED
      BY <1>u, <1>m, <3>1, <3>2
  <2>3. ASSUME NEW h \in Links, NEW k \in Links, NEW i \in LaneIds(h)', NEW j \in LaneIds(k)',
               toMachine'[h][i].kind = "start", toMachine'[k][j].kind = "start",
               toMachine'[h][i].spawn = toMachine'[k][j].spawn
        PROVE  h = k /\ i = j
    <3>1. \A a, c \in Links : \A n \in LaneIds(a), w \in LaneIds(c) :
             toMachine[a][n].kind = "start" /\ toMachine[c][w].kind = "start"
               /\ toMachine[a][n].spawn = toMachine[c][w].spawn => a = c /\ n = w
      BY <1>i, Zenon DEF OneStart
    <3>2. o.kind = "start" => \A a \in Links : \A n \in LaneIds(a) :
                                ~(toMachine[a][n].kind = "start" /\ toMachine[a][n].spawn = o.spawn)
      <4>1. o.kind = "start" => \A a \in Links : ~InLane(toMachine[a], "start", o.spawn)
        BY <1>i, Zenon DEF OneStart
      <4> QED
        BY <4>1, Zenon DEF InLane, LaneIds
    <3>3. CASE /\ i \in LaneIds(h) /\ toMachine'[h][i] = toMachine[h][i]
               /\ j \in LaneIds(k) /\ toMachine'[k][j] = toMachine[k][j]
      BY <2>3, <3>1, <3>3, Zenon
    <3>4. CASE /\ h = o.link /\ h \in sessions /\ i = Len(toMachine[h]) + 1
               /\ k = o.link /\ k \in sessions /\ j = Len(toMachine[k]) + 1
      BY <3>4
    <3>5. CASE /\ h = o.link /\ h \in sessions /\ i = Len(toMachine[h]) + 1
               /\ j \in LaneIds(k) /\ toMachine'[k][j] = toMachine[k][j]
      BY <1>e, <2>3, <3>2, <3>5
    <3>6. CASE /\ i \in LaneIds(h) /\ toMachine'[h][i] = toMachine[h][i]
               /\ k = o.link /\ k \in sessions /\ j = Len(toMachine[k]) + 1
      BY <1>e, <2>3, <3>2, <3>6
    <3> QED
      BY <1>f, <3>3, <3>4, <3>5, <3>6
  <2>4. \A p \in procs' : \A k \in Links : ~InLane(toMachine[k], "start", p.spawn)'
    <3>1. \A p \in procs : \A k \in Links : ~InLane(toMachine[k], "start", p.spawn)
      BY <1>i, Zenon DEF OneStart
    <3>2. o.kind = "start" => \A p \in procs : p.spawn # o.spawn
      BY <1>i, Zenon DEF OneStart
    <3> QED
      BY <1>u, <1>m, <3>1, <3>2
  <2>5. \A p, q \in procs' : p.spawn = q.spawn => p = q
    BY <1>i, <1>u, Zenon DEF OneStart
  <2>6. \A r \in orders' : r.kind = "start" =>
          /\ \A k \in Links : ~InLane(toMachine[k], "start", r.spawn)'
          /\ \A q \in procs' : q.spawn # r.spawn
    BY <2>2, Zenon
  <2>7. \A h, k \in Links : \A i \in LaneIds(h)', j \in LaneIds(k)' :
          toMachine'[h][i].kind = "start" /\ toMachine'[k][j].kind = "start"
            /\ toMachine'[h][i].spawn = toMachine'[k][j].spawn => h = k /\ i = j
    BY <2>3, ZenonT(60)
  <2> QED
    BY <2>1, <2>4, <2>5, <2>6, <2>7, Zenon DEF OneStart
<1>2. SessionsServe'
  <2>1. \A k \in Links \ sessions' : toMachine'[k] = <<>>
    BY <1>i, <1>u, <1>e DEF SessionsServe
  <2> QED
    BY <1>i, <1>u, <2>1 DEF SessionsServe
<1>3. CleanupReaches'
  BY <1>i, <1>u, <1>l, SameProcs, CleanupKept
<1>4. StopsFollow'
  <2>1. \A x \in 1..Phantom : Told(x)' => Told(x)
    <3>1. o.kind = "stop" => Told(o.spawn)
      BY <1>o DEF Told
    <3>2. \A x \in 1..Phantom, k \in Links : InLane(toMachine[k], "stop", x)' => InLane(toMachine[k], "stop", x) \/ Told(x)
      BY <1>m, <3>1
    <3> QED
      BY <1>u, <1>b, <1>r, <3>2 DEF Told
  <2>2. \A x \in 1..Phantom : LetGo(x)' => LetGo(x)
    BY <1>u, <2>1 DEF LetGo
  <2>3. \A k : LinkUp(k)' <=> LinkUp(k)
    BY <1>u DEF LinkUp
  <2>s. \A x, k : Stopped(x, k) => Stopped(x, k)' \/ (o.kind = "stop" /\ x = o.spawn /\ k = o.link)
    BY <1>l, <1>r, <2>3 DEF Stopped
  <2>4. checkout' => \A r \in orders' : r.kind = "start" /\ entry'.spawn = r.spawn /\ Told(r.spawn)' =>
                                  entry'.stopping \/ ~LinkUp(r.link)' \/ r.spawn \in late'
    BY <1>i, <1>u, <1>p, <1>l, <2>1, <2>3, OrderFields DEF StopsFollow
  <2>5. ASSUME checkout', NEW k \in Links, NEW i \in LaneIds(k)', toMachine'[k][i].kind = "start",
               LetGo(toMachine[k][i].spawn)'
        PROVE  \/ Stopped(toMachine[k][i].spawn, k)'
               \/ \E j \in LaneIds(k)' : j > i /\ toMachine'[k][j].kind = "stop"
                                           /\ toMachine'[k][j].spawn = toMachine'[k][i].spawn
    <3>1. PICK x : x = toMachine'[k][i].spawn
      OBVIOUS
    <3>2. LetGo(x)'
      BY <2>5, <3>1, Zenon DEF LetGo, Told, InLane
    <3>3. Stopped(x, k)' => Stopped(toMachine[k][i].spawn, k)'
      BY <3>1, Zenon DEF Stopped
    <3>4. CASE i \in LaneIds(k) /\ toMachine'[k][i] = toMachine[k][i]
      <4>1. x \in 1..Phantom /\ toMachine[k][i].kind = "start" /\ toMachine[k][i].spawn = x
        BY <1>i, <2>5, <3>1, <3>4, LaneFields
      <4>2. \/ Stopped(x, k)
            \/ \E j \in LaneIds(k) : j > i /\ toMachine[k][j].kind = "stop" /\ toMachine[k][j].spawn = x
        BY <1>i, <1>u, <2>2, <2>5, <3>2, <3>4, <4>1 DEF StopsFollow
      <4>3. CASE \E j \in LaneIds(k) : j > i /\ toMachine[k][j].kind = "stop" /\ toMachine[k][j].spawn = x
        BY <1>f, <3>1, <4>3
      <4>4. CASE Stopped(x, k)'
        BY <3>3, <4>4
      <4>5. CASE o.kind = "stop" /\ x = o.spawn /\ k = o.link
        <5>1. toMachine[k] # <<>>
          <6>1. toMachine[k] = <<>> => LaneIds(k) = {}
            BY LaneEmpty DEF LaneIds
          <6> QED
            BY <3>4, <6>1
        <5>2. o.link \in sessions
          BY <1>i, <1>o, <4>5, <5>1 DEF SessionsServe
        <5>3. i < Len(toMachine[k]) + 1 /\ i \in Nat /\ Len(toMachine[k]) + 1 \in Nat
          BY <1>i, <1>e, <3>4, <4>5, <5>2, LaneFields
        <5>4. Len(toMachine[k]) + 1 > i
          BY <5>3
        <5> QED
          BY <1>e, <3>1, <4>5, <5>2, <5>4
      <4> QED
        BY <2>s, <4>2, <4>3, <4>4, <4>5
    <3>5. CASE k = o.link /\ k \in sessions /\ i = Len(toMachine[k]) + 1
      <4>1. x = o.spawn /\ o.kind = "start"
        BY <1>e, <2>5, <3>1, <3>5
      <4>2. LetGo(o.spawn)
        BY <1>o, <2>2, <3>2, <4>1
      <4>3. x \in late'
        <5>1. CASE entry.spawn = o.spawn /\ ~entry.stopping
          <6>1. Told(o.spawn)
            BY <4>2, <5>1 DEF LetGo
          <6>2. o.spawn \in late
            BY <1>i, <1>u, <1>p, <2>5, <4>1, <5>1, <6>1 DEF StopsFollow
          <6> QED
            BY <1>l, <4>1, <6>2
        <5>2. CASE ~(entry.spawn = o.spawn /\ ~entry.stopping)
          BY <1>p, <4>1, <5>2
        <5> QED
          BY <5>1, <5>2
      <4>4. x \in late' => Stopped(x, k)'
        BY Zenon DEF Stopped
      <4> QED
        BY <3>3, <4>3, <4>4
    <3> QED
      BY <1>f, <3>4, <3>5
  <2>6. ASSUME NEW q \in procs', ~q.killed, LetGo(q.spawn)'
        PROVE  Stopped(q.spawn, q.link)' \/ InLane(toMachine[q.link], "stop", q.spawn)'
    <3>1. q \in procs /\ q.spawn \in 1..Phantom /\ q.link \in Links
      BY <1>i, <1>u, ProcessFields
    <3>2. Stopped(q.spawn, q.link) \/ InLane(toMachine[q.link], "stop", q.spawn)
      BY <1>i, <2>2, <2>6, <3>1 DEF StopsFollow
    <3>3. CASE o.kind = "stop" /\ q.spawn = o.spawn /\ q.link = o.link
      <4>1. o.link \in sessions
        BY <1>i, <2>6, <3>1, <3>3 DEF SessionsServe
      <4> QED
        BY <1>e, <3>3, <4>1
    <3> QED
      BY <1>m, <2>s, <3>1, <3>2, <3>3
  <2> QED
    BY <2>4, <2>5, <2>6, Zenon DEF StopsFollow
<1>5. \A x \in 1..Phantom, k \in Links : Asked(x, k)' => Asked(x, k)
  BY <1>u, <1>o, <1>m, <1>r DEF Asked
<1>6. \A x \in 1..Phantom, k \in Links : Named(x, k)' => Named(x, k)
  BY <1>u, <1>o, <1>m, <1>b, <1>r, <1>5 DEF Named
<1>7. entry.spawn # 0 /\ LinkUp(entry.link) /\ Answers => Answers'
  <2>1. \A x \in 1..Phantom, k \in Links : Asked(x, k) => Asked(x, k)' \/ k \notin sessions'
    BY <1>u, <1>e, <1>m, <1>r DEF Asked
  <2> QED
    BY <1>u, <1>b, <2>1, AnswersKept
<1>8. ~LinkUp(entry.link) /\ StartPends => StartPends'
  BY <1>u, <1>p, <1>r DEF StartPends
<1> QED
  BY <1>t, <1>u, <1>l, <1>1, <1>2, <1>3, <1>4, <1>5, <1>6, <1>7, <1>8, MachineStep

-----------------------------------------------------------------------------
(* It holds at first, ...                                                  *)
LEMMA InitScriptInv == ScriptInit => ScriptInv
<1> SUFFICES ASSUME ScriptInit PROVE ScriptInv
  OBVIOUS
<1>n. MaxLinks \in Nat /\ MaxSpawns \in Nat
  BY ScriptRunsAssumption
<1>e. /\ entry \in Entries /\ ~entry.here /\ entry.spawn = 0 /\ entry.link = 0
      /\ entry.status = "idle" /\ ~Live
  BY <1>n DEF ScriptInit, NoRun, Entries, Phantom, Live
<1>s. stopper \in Stoppers /\ stopper.stage = "idle" /\ stopper.spawn = 0
  BY <1>n DEF ScriptInit, NoStop, Stoppers, Phantom
<1>v. serving \in Servings /\ serving.link = 0 /\ serving.stage = "down" /\ \A l : ~LinkUp(l)
  BY <1>n DEF ScriptInit, Servings, Phantom, LinkUp
<1>c. cleanup \in Cleanups /\ cleanup.stage = "none"
  BY DEF ScriptInit, NoCleanup, Cleanups
<1>o. over \in Overs /\ over.stage = "none"
  BY <1>n DEF ScriptInit, NotOver, Overs, Phantom
<1>q. /\ toMachine \in [Links -> Seq(Frames)] /\ toBackend \in [Links -> Seq(Reports)]
      /\ \A l \in Links : toMachine[l] = <<>> /\ toBackend[l] = <<>> /\ LaneIds(l) = {}
  BY DEF ScriptInit, LaneIds
<1>l. \A l \in Links : \A kind, x : ~InLane(toMachine[l], kind, x) /\ ~InLane(toBackend[l], kind, x)
  BY <1>q DEF InLane
<1>a. \A l \in Links : \A x : ~Asked(x, l) /\ ~Named(x, l)
  BY <1>l DEF Asked, Named, ScriptInit
<1>1. ScriptTypeOK
  <2>1. ending \in BOOLEAN /\ checkout \in BOOLEAN /\ revived \in BOOLEAN
    BY Zenon DEF ScriptInit
  <2>2. /\ starter \in 0..MaxLinks /\ sleepers \in Nat /\ taken \in 0..Phantom /\ gate \in 0..MaxLinks
        /\ spawned \in 0..MaxSpawns
    BY <1>n, SMT DEF ScriptInit, Phantom
  <2>3. /\ orders \subseteq Orders /\ finals \subseteq Links /\ finalAcks \subseteq Links
        /\ sessions \subseteq Links /\ procs \subseteq Processes /\ late \subseteq 1..Phantom
        /\ unlisted \subseteq Spawns
    BY DEF ScriptInit
  <2> QED
    BY <1>e, <1>s, <1>v, <1>c, <1>o, <1>q, <2>1, <2>2, <2>3, Zenon DEF ScriptTypeOK
<1>2. Fresh
  BY <1>n, <1>e, <1>s, <1>v, <1>a DEF ScriptInit, Fresh, Known
<1>3. EntryShape
  BY <1>n, <1>e, <1>s, <1>v, <1>o DEF EntryShape, Phantom
<1>4. OneStart
  BY <1>q DEF ScriptInit, OneStart
<1>5. OnOneLink
  BY <1>a DEF ScriptInit, OnOneLink
<1>6. SessionsServe /\ CleanupReaches
  BY <1>q, <1>c DEF ScriptInit, SessionsServe, CleanupReaches
<1>7. StopsFollow
  BY <1>q DEF ScriptInit, StopsFollow
<1>8. RunGoesOn
  BY <1>e, <1>v DEF RunGoesOn
<1> QED
  BY <1>1, <1>2, <1>3, <1>4, <1>5, <1>6, <1>7, <1>8 DEF ScriptInv, ScriptOrder

(* ... and every step keeps it.                                            *)
LEMMA ScriptInvNext == ScriptInv /\ [ScriptNext]_scriptVars => ScriptInv'
<1> SUFFICES ASSUME ScriptInv, [ScriptNext]_scriptVars PROVE ScriptInv'
  OBVIOUS
<1>1. CASE StartLooksUp \/ FinalSent \/ FinalLeft \/ CleanupReaped \/ CleanupDone \/ CleanupFails
  BY <1>1, QuietSteps
<1>2. CASE StartRegisters \/ Respawn
  BY <1>2, StartRegistersStep, RespawnStep
<1>3. ASSUME NEW o \in orders, StartUnsent(o) \/ StopUnsent(o) \/ QueueFrame(o) PROVE ScriptInv'
  BY <1>3, StartUnsentStep, StopUnsentStep, QueueFrameStep
<1>4. CASE StopRun \/ StopBetween \/ StopSettled \/ StopUnanswered \/ CancelScript
  BY <1>4, StopRunStep, StopBetweenStep, StopEndsStep, CancelStep
<1>5. CASE StartedTaken \/ StartedApplied \/ ExitApplied
  BY <1>5, StartedTakenStep, StartedAppliedStep, ExitAppliedStep
<1>6. CASE LinkBinds \/ ServeEnds \/ LinkLost \/ LostSettled
  BY <1>6, LinkBindsStep, ServeEndsStep, LinkLostStep, LostSettledStep
<1>7. CASE FinalBegun \/ FinalAcked \/ FinalExpires \/ FinalLoses \/ FinalSettles \/ FinalDrops \/ CleanupKills
  BY <1>7, FinalBegunStep, DrainedStep, FinalLosesStep, FinalSettlesStep, FinalDropsStep, CleanupKillsStep
<1>8. ASSUME NEW l \in Links, SessionAdopts(l) \/ FinalArrives(l) PROVE ScriptInv'
  BY <1>8, QuietSteps
<1>9. ASSUME NEW l \in Links,
             \/ SessionOver(l) \/ StartRefused(l) \/ ProcessSpawned(l) \/ ProcessStarts(l)
             \/ StopArrives(l)
      PROVE  ScriptInv'
  BY <1>9, SessionOverStep, StartRefusedStep, ProcessSpawnedStep, ProcessStartsStep, StopArrivesStep
<1>10. ASSUME NEW p \in procs, Reap(p) PROVE ScriptInv'
  BY <1>10, ReapStep
<1>11. CASE UNCHANGED scriptVars
  <2>1. UNCHANGED <<entry, ending, over, starter, stopper, orders, sleepers, serving, taken, toMachine,
                    toBackend, finals, finalAcks, gate, sessions, procs, unlisted, cleanup, checkout,
                    spawned, late, revived>>
    BY <1>11 DEF scriptVars, callerVars, laneVars, processVars
  <2>2. ScriptTypeOK' /\ CleanupReaches'
    BY <2>1 DEF ScriptInv, ScriptOrder, ScriptTypeOK, CleanupReaches
  <2> QED
    BY <2>1, <2>2, QuietStep DEF OverKept
<1> QED
  BY <1>1, <1>2, <1>3, <1>4, <1>5, <1>6, <1>7, <1>8, <1>9, <1>10, <1>11 DEF ScriptNext

(* Every process is asked for once, and a stop follows a start that the    *)
(* backend has let go of: the inductive invariant, for any number of       *)
(* processes, links and restarts.                                          *)
THEOREM ScriptInvariant == ScriptSpec => []ScriptInv
<1>1. ScriptInit => ScriptInv
  BY InitScriptInv
<1>2. ScriptInv /\ [ScriptNext]_scriptVars => ScriptInv'
  BY ScriptInvNext
<1> QED
  BY <1>1, <1>2, PTL DEF ScriptSpec

(* A process of the machine is the run's or is told to stop, apart from    *)
(* the ones that were asked for once they were to stop, that the kills of  *)
(* a final stop missed, or whose final stop expired: what stop and         *)
(* cancel_script of machine_runs.rs, and stop_binding and stop_agent of    *)
(* the machine's ScriptProcesses, are for.                                 *)
THEOREM NoProcessStrays == ScriptSpec => []NoStrayProcess
<1>1. ScriptInv => NoStrayProcess
  <2> SUFFICES ASSUME ScriptInv, NEW p \in procs, p.spawn \notin late, ~p.killed,
                      entry.spawn # p.spawn
               PROVE  /\ p.link \in sessions
                      /\ \/ ~LinkUp(p.link)
                         \/ Order("stop", p.spawn, p.link) \in orders
                         \/ InLane(toMachine[p.link], "stop", p.spawn)
    BY DEF NoStrayProcess
  <2>1. p.link \in sessions
    BY DEF ScriptInv, ScriptOrder, SessionsServe
  <2>2. Stopped(p.spawn, p.link) \/ InLane(toMachine[p.link], "stop", p.spawn)
    BY DEF ScriptInv, ScriptOrder, StopsFollow, LetGo
  <2> QED
    BY <2>1, <2>2 DEF Stopped
<1> QED
  BY <1>1, ScriptInvariant, PTL

(* A live run is never left waiting for something that nobody will send: a *)
(* restart is due, its process is asked for, runs or has reported, or a    *)
(* stop, the loss of the link or the end of a final stop will settle it.   *)
THEOREM LiveRunsGoOn == ScriptSpec => []LiveRunGoesOn
<1>1. ScriptInv => LiveRunGoesOn
  <2> SUFFICES ASSUME ScriptInv, entry.here, Live, ~revived PROVE LiveRunGoesOn
    BY DEF LiveRunGoesOn
  <2>i. RunGoesOn /\ serving \in Servings
    BY DEF ScriptInv, ScriptOrder, ScriptTypeOK
  <2>1. CASE entry.spawn = 0
    BY <2>i, <2>1 DEF RunGoesOn, LiveRunGoesOn
  <2>2. CASE entry.spawn # 0 /\ LinkUp(entry.link)
    <3>1. \/ Asked(entry.spawn, entry.link) \/ InLane(toBackend[entry.link], "exited", entry.spawn)
          \/ StopPends \/ serving.link \notin sessions
      BY <2>i, <2>2 DEF RunGoesOn
    <3> QED
      BY <2>2, <3>1 DEF LiveRunGoesOn, Asked, StopPends, OverPends, LinkUp
  <2>3. CASE entry.spawn # 0 /\ ~LinkUp(entry.link) /\ serving.stage \in {"down", "up"}
    <3>1. StartPends \/ StopPends
      BY <2>i, <2>3 DEF RunGoesOn
    <3> QED
      BY <2>3, <3>1 DEF LiveRunGoesOn, StartPends, StopPends, OverPends
  <2>4. CASE entry.spawn # 0 /\ serving.stage \in {"closed", "losing"}
    BY <2>4 DEF LiveRunGoesOn
  <2>5. serving.stage \in {"down", "up", "closed", "losing"}
    BY <2>i DEF Servings
  <2> QED
    BY <2>1, <2>2, <2>3, <2>4, <2>5
<1> QED
  BY <1>1, ScriptInvariant, PTL

=============================================================================
