--------------------------- MODULE LinkRpcProofs ---------------------------
(***************************************************************************)
(* Proofs about one established link, for any calls, stop callers and      *)
(* sizes of its queues.                                                    *)
(***************************************************************************)
EXTENDS LinkRpc, TLAPS

-----------------------------------------------------------------------------
(* What a queue holds once a frame is appended to it, ...                  *)
LEMMA AppendHolds ==
    ASSUME NEW S, NEW s \in Seq(S), NEW x \in S
    PROVE  /\ Append(s, x) \in Seq(S) /\ Len(Append(s, x)) = Len(s) + 1
           /\ \A y : Holds(Append(s, x), y) <=> (Holds(s, y) \/ x = y)
           /\ \A y : Once(s, y) /\ (~Holds(s, y) \/ x # y) => Once(Append(s, x), y)
  BY DEF Holds, Once

(* ... once its first frame is taken, ...                                  *)
LEMMA TailHolds ==
    ASSUME NEW S, NEW s \in Seq(S), s # <<>>
    PROVE  /\ Tail(s) \in Seq(S) /\ Head(s) \in S /\ Len(Tail(s)) = Len(s) - 1
           /\ \A y : Holds(s, y) <=> (Head(s) = y \/ Holds(Tail(s), y))
           /\ \A y : Once(s, y) => Once(Tail(s), y)
           /\ \A y : Once(s, y) /\ Head(s) = y => ~Holds(Tail(s), y)
  BY SMTT(60) DEF Holds, Once

(* ... and when it is empty.                                               *)
LEMMA EmptyHolds == \A y : ~Holds(<<>>, y) /\ Once(<<>>, y)
  BY DEF Holds, Once

(* Every x in the queue comes after a y.                                   *)
Follows(s, x, y) ==
    \A i \in 1..Len(s) : s[i] = x => \E j \in 1..(i - 1) : s[j] = y

(* Appending an x after a y keeps it so, ...                               *)
LEMMA AppendFollows ==
    ASSUME NEW S, NEW s \in Seq(S), NEW z \in S, NEW x, NEW y,
           Follows(s, x, y), z # x \/ Holds(s, y)
    PROVE  Follows(Append(s, z), x, y)
  BY DEF Holds, Follows

(* ... and so does taking a first frame that is not a y.                   *)
LEMMA TailFollows ==
    ASSUME NEW S, NEW s \in Seq(S), s # <<>>, NEW x, NEW y, Follows(s, x, y)
    PROVE  Head(s) # x /\ (Head(s) # y => Follows(Tail(s), x, y))
<1>1. Len(s) \in Nat /\ Len(s) >= 1 /\ Head(s) = s[1]
  OBVIOUS
<1>2. Head(s) # x
  BY <1>1 DEF Follows
<1>3. ASSUME Head(s) # y, NEW i \in 1..Len(Tail(s)), Tail(s)[i] = x
      PROVE  \E j \in 1..(i - 1) : Tail(s)[j] = y
  <2>1. i + 1 \in 1..Len(s) /\ s[i + 1] = x
    BY <1>1, <1>3
  <2>2. PICK j \in 1..i : s[j] = y
    BY <2>1 DEF Follows
  <2>3. j # 1
    BY <1>1, <1>3, <2>2
  <2>4. j - 1 \in 1..(i - 1) /\ Tail(s)[j - 1] = y
    BY <1>1, <1>3, <2>2, <2>3
  <2> QED
    BY <2>4
<1> QED
  BY <1>2, <1>3 DEF Follows

(* CancelFollowsRequest in these words.                                    *)
LEMMA CancelFollowsIs ==
    CancelFollowsRequest <=>
      \A c \in Calls : handler[c] = "none" => Follows(wire["machine"], Cancel(c), Request(c))
  BY DEF CancelFollowsRequest, Follows

(* Frames of different kinds or of different calls differ, and None is     *)
(* none of them.                                                           *)
LEMMA FramesDiffer ==
    /\ \A c \in Calls : /\ Request(c) \in Frame /\ Cancel(c) \in Frame /\ Response(c) \in Frame
                        /\ Request(c) # None /\ Cancel(c) # None /\ Response(c) # None
    /\ \A c, d \in Calls : /\ Request(c) = Request(d) => c = d
                           /\ Cancel(c) = Cancel(d) => c = d
                           /\ Response(c) = Response(d) => c = d
                           /\ Request(c) # Cancel(d) /\ Request(c) # Response(d)
                           /\ Cancel(c) # Response(d)
    /\ \A s \in Stops : Stop(s) \in Frame /\ StopAck(s) \in Frame
    /\ \A s \in Stops, c \in Calls :
         /\ Stop(s) # Request(c) /\ Stop(s) # Cancel(c) /\ Stop(s) # Response(c)
         /\ StopAck(s) # Request(c) /\ StopAck(s) # Cancel(c) /\ StopAck(s) # Response(c)
  BY NoneAssumption DEF Request, Cancel, Response, Stop, StopAck, Frame

-----------------------------------------------------------------------------
(* What each part of the invariant is about.                               *)
LEMMA EndsFrame ==
    ASSUME EndsShut, UNCHANGED <<closed, shutting, writer, writing>>
    PROVE  EndsShut'
  BY DEF EndsShut

(* The slots of calls, requests and stops.                                 *)
LEMMA SlotsFrame ==
    ASSUME SlotsMatch, SlotsFreed,
           UNCHANGED <<closed, shutting, call, pending, answered, handler, inbound>>,
           UNCHANGED <<waiter, stopOf, stops, acked>>
    PROVE  SlotsMatch' /\ SlotsFreed'
  BY DEF SlotsMatch, SlotsFreed, Listening

(* The frames of each lane.                                                *)
LEMMA LanesFrame ==
    ASSUME LanesKept, out'["machine"] = out["machine"], out'["backend"] = out["backend"],
           urgent'["machine"] = urgent["machine"]
    PROVE  LanesKept'
  BY DEF LanesKept

(* The way of a request to the backend, ...                                *)
LEMMA WrittenFrame ==
    ASSUME WrittenOnce, UNCHANGED <<request, handler>>,
           writing'["machine"] = writing["machine"], wire'["machine"] = wire["machine"],
           writer'["machine"] = writer["machine"]
    PROVE  WrittenOnce'
  BY DEF WrittenOnce

(* ... and to its handler.                                                 *)
LEMMA DeliveredFrame ==
    ASSUME DeliveredOnce, UNCHANGED <<handler, held>>,
           events'["backend"] = events["backend"]
    PROVE  DeliveredOnce'
  BY DEF DeliveredOnce

(* Cancellations and answers.                                              *)
LEMMA AnswersFrame ==
    ASSUME AnswersFollow, UNCHANGED <<call, request, handler, answered>>,
           closed'["machine"] = closed["machine"],
           urgent'["machine"] = urgent["machine"],
           writing'["machine"] = writing["machine"], wire'["machine"] = wire["machine"],
           out'["backend"] = out["backend"], urgent'["backend"] = urgent["backend"],
           writing'["backend"] = writing["backend"], wire'["backend"] = wire["backend"]
    PROVE  AnswersFollow'
  BY DEF AnswersFollow, CancelOnItsWay

(* The order of requests and cancellations on the wire.                    *)
LEMMA CancelFrame ==
    ASSUME CancelFollowsRequest, handler' = handler, wire'["machine"] = wire["machine"]
    PROVE  CancelFollowsRequest'
  BY DEF CancelFollowsRequest

(* The work of callers that gave up.                                       *)
LEMMA OrphansFrame ==
    ASSUME NoOrphans, UNCHANGED <<call, request, inbound>>,
           closed'["machine"] = closed["machine"],
           urgent'["machine"] = urgent["machine"],
           writing'["machine"] = writing["machine"], wire'["machine"] = wire["machine"],
           out'["machine"] = out["machine"]
    PROVE  NoOrphans'
  BY DEF NoOrphans, AtWork, CancelOnItsWay

(* CallStart: the call is registered.                                      *)
LEMMA CallStartInv ==
    ASSUME LinkInv, NEW c \in Calls, CallStart(c)
    PROVE  LinkOrder'
<1>i. /\ TypeOK /\ EndsShut /\ SlotsMatch /\ SlotsFreed /\ LanesKept /\ WrittenOnce
      /\ DeliveredOnce /\ AnswersFollow /\ CancelFollowsRequest /\ NoOrphans
  BY DEF LinkInv, LinkOrder
<1>e. /\ call[c] = "idle" /\ pending' = pending \cup {c}
      /\ call'[c] = "registered" /\ \A d \in Calls : d # c => call'[d] = call[d]
      /\ UNCHANGED <<closed, shutting, wire, broken, writer, writing, reader, held, out,
                     urgent, events, request, answered, handler, inbound, cancelled,
                     waiter, stopOf, stops, acked, owed>>
  BY <1>i DEF CallStart, TypeOK, linkVars, netVars, loopVars, callVars, handlerVars, stopVars
<1>1. SlotsMatch'
  BY <1>i, <1>e DEF SlotsMatch, SlotsFreed, Listening
<1>2. SlotsFreed'
  BY <1>i, <1>e DEF SlotsFreed
<1>3. AnswersFollow'
  BY <1>i, <1>e DEF AnswersFollow, CancelOnItsWay
<1>4. NoOrphans'
  BY <1>i, <1>e DEF NoOrphans, AtWork, CancelOnItsWay
<1> QED
  BY <1>i, <1>e, <1>1, <1>2, <1>3, <1>4, EndsFrame, LanesFrame, WrittenFrame,
     DeliveredFrame, CancelFrame DEF LinkOrder

(* CallCheck: a call that finds the link closed takes its slot back.       *)
LEMMA CallCheckInv ==
    ASSUME LinkInv, NEW c \in Calls, CallCheck(c)
    PROVE  LinkOrder'
<1>i. /\ TypeOK /\ EndsShut /\ SlotsMatch /\ SlotsFreed /\ LanesKept /\ WrittenOnce
      /\ DeliveredOnce /\ AnswersFollow /\ CancelFollowsRequest /\ NoOrphans
  BY DEF LinkInv, LinkOrder
<1>e. /\ call[c] = "registered"
      /\ \/ closed["machine"] /\ call'[c] = "failed" /\ pending' = pending \ {c}
         \/ ~closed["machine"] /\ call'[c] = "sending" /\ pending' = pending
      /\ \A d \in Calls : d # c => call'[d] = call[d]
      /\ UNCHANGED <<closed, shutting, wire, broken, writer, writing, reader, held, out,
                     urgent, events, request, answered, handler, inbound, cancelled,
                     waiter, stopOf, stops, acked, owed>>
  BY <1>i DEF CallCheck, TypeOK, linkVars, netVars, loopVars, callVars, handlerVars, stopVars
<1>1. SlotsMatch'
  BY <1>i, <1>e DEF SlotsMatch, SlotsFreed, Listening
<1>2. SlotsFreed'
  BY <1>i, <1>e DEF SlotsFreed
<1>3. AnswersFollow'
  BY <1>i, <1>e DEF AnswersFollow, CancelOnItsWay
<1>4. NoOrphans'
  BY <1>i, <1>e DEF NoOrphans, AtWork, CancelOnItsWay
<1> QED
  BY <1>i, <1>e, <1>1, <1>2, <1>3, <1>4, EndsFrame, LanesFrame, WrittenFrame,
     DeliveredFrame, CancelFrame DEF LinkOrder

(* CallFailed and CallRefused: it fails, and its slot is taken back.       *)
LEMMA CallFailedInv ==
    ASSUME LinkInv, NEW c \in Calls, CallFailed(c) \/ CallRefused(c)
    PROVE  LinkOrder'
<1>i. /\ TypeOK /\ EndsShut /\ SlotsMatch /\ SlotsFreed /\ LanesKept /\ WrittenOnce
      /\ DeliveredOnce /\ AnswersFollow /\ CancelFollowsRequest /\ NoOrphans
  BY DEF LinkInv, LinkOrder
<1>e. /\ call[c] \in {"sending", "waiting"} /\ pending' = pending \ {c}
      /\ call'[c] = "failed" /\ \A d \in Calls : d # c => call'[d] = call[d]
      /\ UNCHANGED <<closed, shutting, wire, broken, writer, writing, reader, held, out,
                     urgent, events, request, answered, handler, inbound, cancelled,
                     waiter, stopOf, stops, acked, owed>>
  BY <1>i DEF CallFailed, CallRefused, TypeOK, linkVars, netVars, loopVars, callVars, handlerVars, stopVars
<1>1. SlotsMatch'
  BY <1>i, <1>e DEF SlotsMatch, SlotsFreed, Listening
<1>2. SlotsFreed'
  BY <1>i, <1>e DEF SlotsFreed
<1>3. AnswersFollow'
  BY <1>i, <1>e DEF AnswersFollow, CancelOnItsWay
<1>4. NoOrphans'
  BY <1>i, <1>e DEF NoOrphans, AtWork, CancelOnItsWay
<1> QED
  BY <1>i, <1>e, <1>1, <1>2, <1>3, <1>4, EndsFrame, LanesFrame, WrittenFrame,
     DeliveredFrame, CancelFrame DEF LinkOrder

(* CallAnswered: it takes its answer.                                      *)
LEMMA CallAnsweredInv ==
    ASSUME LinkInv, NEW c \in Calls, CallAnswered(c)
    PROVE  LinkOrder'
<1>i. /\ TypeOK /\ EndsShut /\ SlotsMatch /\ SlotsFreed /\ LanesKept /\ WrittenOnce
      /\ DeliveredOnce /\ AnswersFollow /\ CancelFollowsRequest /\ NoOrphans
  BY DEF LinkInv, LinkOrder
<1>e. /\ call[c] = "waiting" /\ c \in answered /\ answered' = answered \ {c}
      /\ call'[c] = "done" /\ \A d \in Calls : d # c => call'[d] = call[d]
      /\ UNCHANGED <<closed, shutting, wire, broken, writer, writing, reader, held, out,
                     urgent, events, request, pending, handler, inbound, cancelled,
                     waiter, stopOf, stops, acked, owed>>
  BY <1>i DEF CallAnswered, TypeOK, linkVars, netVars, loopVars, callVars, handlerVars, stopVars
<1>1. SlotsMatch'
  BY <1>i, <1>e DEF SlotsMatch, SlotsFreed, Listening
<1>2. SlotsFreed'
  BY <1>i, <1>e DEF SlotsFreed
<1>3. AnswersFollow'
  BY <1>i, <1>e DEF AnswersFollow, CancelOnItsWay
<1>4. NoOrphans'
  BY <1>i, <1>e DEF NoOrphans, AtWork, CancelOnItsWay
<1> QED
  BY <1>i, <1>e, <1>1, <1>2, <1>3, <1>4, EndsFrame, LanesFrame, WrittenFrame,
     DeliveredFrame, CancelFrame DEF LinkOrder

(* GiveUp: the caller goes; one without a slot was answered or cut off.    *)
LEMMA GiveUpInv ==
    ASSUME LinkInv, NEW c \in Calls, GiveUp(c)
    PROVE  LinkOrder'
<1>i. /\ TypeOK /\ EndsShut /\ SlotsMatch /\ SlotsFreed /\ LanesKept /\ WrittenOnce
      /\ DeliveredOnce /\ AnswersFollow /\ CancelFollowsRequest /\ NoOrphans
  BY DEF LinkInv, LinkOrder
<1>e. /\ call[c] \in {"sending", "waiting"}
      /\ pending' = pending \ {c} /\ answered' = answered \ {c}
      /\ call'[c] = (IF c \in pending THEN "withdrawing" ELSE "dropping") /\ \A d \in Calls : d # c => call'[d] = call[d]
      /\ UNCHANGED <<closed, shutting, wire, broken, writer, writing, reader, held, out,
                     urgent, events, request, handler, inbound, cancelled, waiter,
                     stopOf, stops, acked, owed>>
  BY <1>i DEF GiveUp, TypeOK, linkVars, netVars, loopVars, callVars, handlerVars, stopVars
<1>1. SlotsMatch'
  BY <1>i, <1>e DEF SlotsMatch, SlotsFreed, Listening
<1>2. SlotsFreed'
  BY <1>i, <1>e DEF SlotsFreed
<1>3. AnswersFollow'
  BY <1>i, <1>e DEF AnswersFollow, CancelOnItsWay, SlotsMatch
<1>4. NoOrphans'
  BY <1>i, <1>e DEF NoOrphans, AtWork, CancelOnItsWay
<1> QED
  BY <1>i, <1>e, <1>1, <1>2, <1>3, <1>4, EndsFrame, LanesFrame, WrittenFrame,
     DeliveredFrame, CancelFrame DEF LinkOrder

-----------------------------------------------------------------------------
(* A frame is queued on the ordinary lane of an end, ...                   *)
LEMMA QueuedHolds ==
    ASSUME TypeOK, NEW e \in Ends, NEW f \in Frame, Queued(e, f)
    PROVE  /\ \A y : Holds(out'[e], y) <=> (Holds(out[e], y) \/ f = y)
           /\ \A d \in Ends : d # e => out'[d] = out[d]
<1>1. out[e] \in Seq(Frame) /\ out'[e] = Append(out[e], f)
  BY DEF TypeOK, Queued
<1> QED
  BY <1>1, AppendHolds DEF Queued, TypeOK

(* ... or on its urgent lane, unless the link is closed or closes.         *)
LEMMA UrgentHolds ==
    ASSUME TypeOK, NEW e \in Ends, NEW f \in Frame, send_urgent(e, f)
    PROVE  /\ \A y : Holds(urgent[e], y) => Holds(urgent'[e], y)
           /\ \A y : Holds(urgent'[e], y) => Holds(urgent[e], y) \/ f = y
           /\ Holds(urgent'[e], f) \/ closed'[e]
           /\ \A d \in Ends : d # e => /\ urgent'[d] = urgent[d] /\ closed'[d] = closed[d]
                                       /\ shutting'[d] = shutting[d]
           /\ \/ UNCHANGED <<closed, shutting>>
              \/ closed'[e] /\ shutting'[e] # {}
<1>1. urgent[e] \in Seq(Frame)
  BY DEF TypeOK
<1>2. CASE closed[e] /\ UNCHANGED <<linkVars, urgent>>
  BY <1>2 DEF linkVars
<1>3. CASE urgent' = [urgent EXCEPT ![e] = Append(@, f)] /\ UNCHANGED linkVars
  <2>1. urgent'[e] = Append(urgent[e], f) /\ \A d \in Ends : d # e => urgent'[d] = urgent[d]
    BY <1>3 DEF TypeOK
  <2> QED
    BY <1>1, <1>3, <2>1, AppendHolds DEF linkVars
<1>4. CASE ShutBegin(e, "owner") /\ UNCHANGED urgent
  BY <1>4 DEF ShutBegin, TypeOK
<1> QED
  BY <1>2, <1>3, <1>4 DEF send_urgent

(* The tables of an end are to be cleared.                                 *)
LEMMA ShutBegins ==
    ASSUME TypeOK, NEW e \in Ends, NEW task, ShutBegin(e, task)
    PROVE  /\ closed'[e] /\ shutting'[e] # {}
           /\ \A d \in Ends : d # e => closed'[d] = closed[d] /\ shutting'[d] = shutting[d]
  BY DEF ShutBegin, TypeOK

(* What a frame of a kind is.                                              *)
LEMMA FrameOfKind ==
    ASSUME NEW f \in Frame
    PROVE  /\ f.kind = "request" => f.id \in Calls /\ f = Request(f.id)
           /\ f.kind = "cancel" => f.id \in Calls /\ f = Cancel(f.id)
           /\ f.kind = "response" => f.id \in Calls /\ f = Response(f.id)
           /\ f.kind \in {"stop", "stopAck"} => f.id \in Stops
           /\ f.kind # "request" => \A c \in Calls : f # Request(c)
           /\ f.kind # "cancel" => \A c \in Calls : f # Cancel(c)
           /\ f.kind # "response" => \A c \in Calls : f # Response(c)
  BY DEF Frame, Request, Cancel, Response

(* CallSend: its request is queued.                                        *)
LEMMA CallSendInv ==
    ASSUME LinkInv, NEW c \in Calls, CallSend(c)
    PROVE  LinkOrder'
<1>i. /\ TypeOK /\ EndsShut /\ SlotsMatch /\ SlotsFreed /\ LanesKept /\ WrittenOnce
      /\ DeliveredOnce /\ AnswersFollow /\ CancelFollowsRequest /\ NoOrphans
  BY DEF LinkInv, LinkOrder
<1>d. "machine" \in Ends /\ "backend" \in Ends /\ "machine" # "backend"
  BY DEF Ends
<1>e. /\ call[c] = "sending"
      /\ call'[c] = "waiting" /\ \A d \in Calls : d # c => call'[d] = call[d]
      /\ \A y : Holds(out'["machine"], y) <=> (Holds(out["machine"], y) \/ Request(c) = y)
      /\ out'["backend"] = out["backend"]
      /\ UNCHANGED <<closed, shutting, wire, broken, writer, writing, reader, held,
                     urgent, events, request, pending, answered, handler, inbound,
                     cancelled, waiter, stopOf, stops, acked, owed>>
  BY <1>i, <1>d, FramesDiffer, QueuedHolds, SMTT(60) DEF CallSend, TypeOK, linkVars, netVars, loopVars, callVars, handlerVars, stopVars
<1>1. SlotsMatch'
  BY <1>i, <1>e DEF SlotsMatch, SlotsFreed, Listening
<1>2. SlotsFreed'
  BY <1>i, <1>e DEF SlotsFreed
<1>3. LanesKept'
  BY <1>i, <1>e, FramesDiffer DEF LanesKept
<1>4. AnswersFollow'
  BY <1>i, <1>e DEF AnswersFollow, CancelOnItsWay
<1>5. NoOrphans'
  BY <1>i, <1>e, FramesDiffer DEF NoOrphans, AtWork, CancelOnItsWay
<1> QED
  BY <1>i, <1>e, <1>1, <1>2, <1>3, <1>4, <1>5, EndsFrame, WrittenFrame, DeliveredFrame,
     CancelFrame DEF LinkOrder

(* Abandon: a queued request is kept back, a written one is cancelled.     *)
LEMMA AbandonInv ==
    ASSUME LinkInv, NEW c \in Calls, Abandon(c)
    PROVE  LinkOrder'
<1>i. /\ TypeOK /\ EndsShut /\ SlotsMatch /\ SlotsFreed /\ LanesKept /\ WrittenOnce
      /\ DeliveredOnce /\ AnswersFollow /\ CancelFollowsRequest /\ NoOrphans
  BY DEF LinkInv, LinkOrder
<1>d. "machine" \in Ends /\ "backend" \in Ends /\ "machine" # "backend"
  BY DEF Ends
<1>e. /\ call[c] \in {"withdrawing", "dropping"}
      /\ call'[c] = "gaveUp" /\ \A d \in Calls : d # c => call'[d] = call[d]
      /\ request'[c] = (IF request[c] = "queued" THEN "abandoned" ELSE request[c]) /\ \A d \in Calls : d # c => request'[d] = request[d]
      /\ \A y : Holds(urgent["machine"], y) => Holds(urgent'["machine"], y)
      /\ \A y : Holds(urgent'["machine"], y) =>
           Holds(urgent["machine"], y) \/ (Cancel(c) = y /\ request[c] = "written")
      /\ call[c] = "withdrawing" /\ request[c] = "written" =>
           closed'["machine"] \/ Holds(urgent'["machine"], Cancel(c))
      /\ urgent'["backend"] = urgent["backend"]
      /\ closed'["backend"] = closed["backend"] /\ shutting'["backend"] = shutting["backend"]
      /\ \/ closed'["machine"] = closed["machine"] /\ shutting'["machine"] = shutting["machine"]
         \/ closed'["machine"] /\ shutting'["machine"] # {}
      /\ UNCHANGED <<wire, broken, writer, writing, reader, held, out, events, pending,
                     answered, handler, inbound, cancelled, waiter, stopOf, stops, acked,
                     owed>>
  <2>1. CASE call[c] = "withdrawing" /\ request[c] = "written"
    <3>1. send_urgent("machine", Cancel(c))
      BY <2>1 DEF Abandon
    <3>2. Cancel(c) \in Frame
      BY FramesDiffer
    <3>3. /\ \A y : Holds(urgent["machine"], y) => Holds(urgent'["machine"], y)
          /\ \A y : Holds(urgent'["machine"], y) => Holds(urgent["machine"], y) \/ Cancel(c) = y
          /\ Holds(urgent'["machine"], Cancel(c)) \/ closed'["machine"]
          /\ urgent'["backend"] = urgent["backend"] /\ closed'["backend"] = closed["backend"]
          /\ shutting'["backend"] = shutting["backend"]
          /\ UNCHANGED <<closed, shutting>> \/ (closed'["machine"] /\ shutting'["machine"] # {})
      BY <1>i, <1>d, <3>1, <3>2, UrgentHolds
    <3> QED
      BY <1>i, <2>1, <3>3 DEF Abandon, TypeOK, linkVars, netVars, loopVars, callVars, handlerVars, stopVars
  <2>2. CASE ~(call[c] = "withdrawing" /\ request[c] = "written")
    BY <1>i, <2>2 DEF Abandon, TypeOK, linkVars, netVars, loopVars, callVars, handlerVars, stopVars
  <2> QED
    BY <2>1, <2>2
<1>1. EndsShut'
  BY <1>i, <1>e DEF EndsShut, Ends
<1>2. SlotsMatch'
  BY <1>i, <1>e DEF SlotsMatch, SlotsFreed, Listening
<1>3. SlotsFreed'
  BY <1>i, <1>e DEF SlotsFreed
<1>4. LanesKept'
  BY <1>i, <1>e, FramesDiffer DEF LanesKept
<1>5. WrittenOnce'
  BY <1>i, <1>e DEF WrittenOnce
<1>6. AnswersFollow'
  BY <1>i, <1>e, FramesDiffer DEF AnswersFollow, CancelOnItsWay
<1>7. NoOrphans'
  BY <1>i, <1>e, FramesDiffer DEF NoOrphans, AtWork, CancelOnItsWay, AnswersFollow, SlotsMatch, WrittenOnce
<1> QED
  BY <1>i, <1>e, <1>1, <1>2, <1>3, <1>4, <1>5, <1>6, <1>7, DeliveredFrame, CancelFrame DEF LinkOrder

-----------------------------------------------------------------------------
(* TakeRequest: the handler starts.                                        *)
LEMMA TakeRequestInv ==
    ASSUME LinkInv, NEW c \in Calls, TakeRequest(c)
    PROVE  LinkOrder'
<1>i. /\ TypeOK /\ EndsShut /\ SlotsMatch /\ SlotsFreed /\ LanesKept /\ WrittenOnce
      /\ DeliveredOnce /\ AnswersFollow /\ CancelFollowsRequest /\ NoOrphans
  BY DEF LinkInv, LinkOrder
<1>d. "machine" \in Ends /\ "backend" \in Ends /\ "machine" # "backend"
  BY DEF Ends
<1>e. /\ handler[c] = "queued"
      /\ handler'[c] = "handling" /\ \A d \in Calls : d # c => handler'[d] = handler[d]
      /\ \A y : Holds(events'["backend"], y) => Holds(events["backend"], y)
      /\ ~Holds(events'["backend"], Request(c)) /\ held["backend"] # Request(c)
      /\ \A y : Once(events["backend"], y) => Once(events'["backend"], y)
      /\ UNCHANGED <<closed, shutting, wire, broken, writer, writing, reader, held, out,
                     urgent, call, request, pending, answered, inbound, cancelled,
                     waiter, stopOf, stops, acked, owed>>
  <2>1. /\ events["backend"] \in Seq(Frame) /\ events["backend"] # <<>>
        /\ Head(events["backend"]) = Request(c) /\ events'["backend"] = Tail(events["backend"])
    BY <1>i, <1>d DEF TakeRequest, TypeOK
  <2>2. /\ \A y : Holds(events["backend"], y) <=>
               (Request(c) = y \/ Holds(events'["backend"], y))
        /\ \A y : Once(events["backend"], y) => Once(events'["backend"], y)
        /\ Once(events["backend"], Request(c)) => ~Holds(events'["backend"], Request(c))
    BY <2>1, TailHolds
  <2>3. /\ handler[c] = "queued" /\ held["backend"] # Request(c)
        /\ ~Holds(events'["backend"], Request(c))
    BY <1>i, <2>2 DEF DeliveredOnce
  <2> QED
    BY <1>i, <2>2, <2>3 DEF TakeRequest, TypeOK, linkVars, netVars, loopVars, callVars, handlerVars, stopVars
<1>1. SlotsMatch'
  BY <1>i, <1>e DEF SlotsMatch, SlotsFreed, Listening
<1>2. SlotsFreed'
  BY <1>i, <1>e DEF SlotsFreed
<1>3. WrittenOnce'
  BY <1>i, <1>e DEF WrittenOnce
<1>4. DeliveredOnce'
  BY <1>i, <1>e DEF DeliveredOnce
<1>5. AnswersFollow'
  BY <1>i, <1>e DEF AnswersFollow, CancelOnItsWay
<1>6. CancelFollowsRequest'
  BY <1>i, <1>e DEF CancelFollowsRequest
<1> QED
  BY <1>i, <1>e, <1>1, <1>2, <1>3, <1>4, <1>5, <1>6, EndsFrame, LanesFrame, OrphansFrame DEF LinkOrder

(* Respond: the request counts as answered.                                *)
LEMMA RespondInv ==
    ASSUME LinkInv, NEW c \in Calls, Respond(c)
    PROVE  LinkOrder'
<1>i. /\ TypeOK /\ EndsShut /\ SlotsMatch /\ SlotsFreed /\ LanesKept /\ WrittenOnce
      /\ DeliveredOnce /\ AnswersFollow /\ CancelFollowsRequest /\ NoOrphans
  BY DEF LinkInv, LinkOrder
<1>e. /\ handler[c] = "handling" /\ inbound' = inbound \ {c}
      /\ handler'[c] = "answering" /\ \A d \in Calls : d # c => handler'[d] = handler[d]
      /\ UNCHANGED <<closed, shutting, wire, broken, writer, writing, reader, held, out,
                     urgent, events, call, request, pending, answered, waiter, stopOf,
                     stops, acked, owed>>
  BY <1>i DEF Respond, TypeOK, linkVars, netVars, loopVars, callVars, handlerVars, stopVars
<1>1. SlotsMatch'
  BY <1>i, <1>e DEF SlotsMatch, SlotsFreed, Listening
<1>2. SlotsFreed'
  BY <1>i, <1>e DEF SlotsFreed
<1>3. WrittenOnce'
  BY <1>i, <1>e DEF WrittenOnce
<1>4. DeliveredOnce'
  BY <1>i, <1>e DEF DeliveredOnce
<1>5. AnswersFollow'
  BY <1>i, <1>e DEF AnswersFollow, CancelOnItsWay
<1>6. CancelFollowsRequest'
  BY <1>i, <1>e DEF CancelFollowsRequest
<1>7. NoOrphans'
  BY <1>i, <1>e DEF NoOrphans, AtWork, CancelOnItsWay
<1> QED
  BY <1>i, <1>e, <1>1, <1>2, <1>3, <1>4, <1>5, <1>6, <1>7, EndsFrame, LanesFrame DEF LinkOrder

(* RespondFailed: the outcome is lost.                                     *)
LEMMA RespondFailedInv ==
    ASSUME LinkInv, NEW c \in Calls, RespondFailed(c)
    PROVE  LinkOrder'
<1>i. /\ TypeOK /\ EndsShut /\ SlotsMatch /\ SlotsFreed /\ LanesKept /\ WrittenOnce
      /\ DeliveredOnce /\ AnswersFollow /\ CancelFollowsRequest /\ NoOrphans
  BY DEF LinkInv, LinkOrder
<1>e. /\ handler[c] = "answering"
      /\ handler'[c] = "over" /\ \A d \in Calls : d # c => handler'[d] = handler[d]
      /\ UNCHANGED <<closed, shutting, wire, broken, writer, writing, reader, held, out,
                     urgent, events, call, request, pending, answered, inbound,
                     cancelled, waiter, stopOf, stops, acked, owed>>
  BY <1>i DEF RespondFailed, TypeOK, linkVars, netVars, loopVars, callVars, handlerVars, stopVars
<1>1. SlotsMatch'
  BY <1>i, <1>e DEF SlotsMatch, SlotsFreed, Listening
<1>2. SlotsFreed'
  BY <1>i, <1>e DEF SlotsFreed
<1>3. WrittenOnce'
  BY <1>i, <1>e DEF WrittenOnce
<1>4. DeliveredOnce'
  BY <1>i, <1>e DEF DeliveredOnce
<1>5. AnswersFollow'
  BY <1>i, <1>e DEF AnswersFollow, CancelOnItsWay
<1>6. CancelFollowsRequest'
  BY <1>i, <1>e DEF CancelFollowsRequest
<1> QED
  BY <1>i, <1>e, <1>1, <1>2, <1>3, <1>4, <1>5, <1>6, EndsFrame, LanesFrame, OrphansFrame DEF LinkOrder

(* RespondSent: the outcome is queued.                                     *)
LEMMA RespondSentInv ==
    ASSUME LinkInv, NEW c \in Calls, RespondSent(c)
    PROVE  LinkOrder'
<1>i. /\ TypeOK /\ EndsShut /\ SlotsMatch /\ SlotsFreed /\ LanesKept /\ WrittenOnce
      /\ DeliveredOnce /\ AnswersFollow /\ CancelFollowsRequest /\ NoOrphans
  BY DEF LinkInv, LinkOrder
<1>d. "machine" \in Ends /\ "backend" \in Ends /\ "machine" # "backend"
  BY DEF Ends
<1>e. /\ handler[c] = "answering"
      /\ handler'[c] = "over" /\ \A d \in Calls : d # c => handler'[d] = handler[d]
      /\ \A y : Holds(out'["backend"], y) <=> (Holds(out["backend"], y) \/ Response(c) = y)
      /\ out'["machine"] = out["machine"]
      /\ UNCHANGED <<closed, shutting, wire, broken, writer, writing, reader, held,
                     urgent, events, call, request, pending, answered, inbound,
                     cancelled, waiter, stopOf, stops, acked, owed>>
  BY <1>i, <1>d, FramesDiffer, QueuedHolds, SMTT(60) DEF RespondSent, TypeOK, linkVars, netVars, loopVars, callVars, handlerVars, stopVars
<1>1. SlotsMatch'
  BY <1>i, <1>e DEF SlotsMatch, SlotsFreed, Listening
<1>2. SlotsFreed'
  BY <1>i, <1>e DEF SlotsFreed
<1>3. LanesKept'
  BY <1>i, <1>e, FramesDiffer DEF LanesKept
<1>4. WrittenOnce'
  BY <1>i, <1>e DEF WrittenOnce
<1>5. DeliveredOnce'
  BY <1>i, <1>e DEF DeliveredOnce
<1>6. AnswersFollow'
  BY <1>i, <1>e, FramesDiffer DEF AnswersFollow, CancelOnItsWay
<1>7. CancelFollowsRequest'
  BY <1>i, <1>e DEF CancelFollowsRequest
<1> QED
  BY <1>i, <1>e, <1>1, <1>2, <1>3, <1>4, <1>5, <1>6, <1>7, EndsFrame, OrphansFrame DEF LinkOrder

(* HandlerDrops: the request is answered with an error.                    *)
LEMMA HandlerDropsInv ==
    ASSUME LinkInv, NEW c \in Calls, HandlerDrops(c)
    PROVE  LinkOrder'
<1>i. /\ TypeOK /\ EndsShut /\ SlotsMatch /\ SlotsFreed /\ LanesKept /\ WrittenOnce
      /\ DeliveredOnce /\ AnswersFollow /\ CancelFollowsRequest /\ NoOrphans
  BY DEF LinkInv, LinkOrder
<1>d. "machine" \in Ends /\ "backend" \in Ends /\ "machine" # "backend"
  BY DEF Ends
<1>e. /\ handler[c] = "handling" /\ inbound' = inbound \ {c}
      /\ handler'[c] = "over" /\ \A d \in Calls : d # c => handler'[d] = handler[d]
      /\ \A y : Holds(urgent'["backend"], y) => Holds(urgent["backend"], y) \/ Response(c) = y
      /\ urgent'["machine"] = urgent["machine"]
      /\ closed'["machine"] = closed["machine"] /\ shutting'["machine"] = shutting["machine"]
      /\ \/ closed'["backend"] = closed["backend"] /\ shutting'["backend"] = shutting["backend"]
         \/ closed'["backend"] /\ shutting'["backend"] # {}
      /\ UNCHANGED <<wire, broken, writer, writing, reader, held, out, events, call,
                     request, pending, answered, waiter, stopOf, stops, acked, owed>>
  <2>1. send_urgent("backend", Response(c)) /\ Response(c) \in Frame
    BY FramesDiffer DEF HandlerDrops
  <2>2. /\ \A y : Holds(urgent'["backend"], y) => Holds(urgent["backend"], y) \/ Response(c) = y
        /\ urgent'["machine"] = urgent["machine"] /\ closed'["machine"] = closed["machine"]
        /\ shutting'["machine"] = shutting["machine"]
        /\ UNCHANGED <<closed, shutting>> \/ (closed'["backend"] /\ shutting'["backend"] # {})
    BY <1>i, <1>d, <2>1, UrgentHolds
  <2> QED
    BY <1>i, <2>2 DEF HandlerDrops, TypeOK, linkVars, netVars, loopVars, callVars, handlerVars, stopVars
<1>1. EndsShut'
  BY <1>i, <1>e DEF EndsShut, Ends
<1>2. SlotsMatch'
  BY <1>i, <1>e DEF SlotsMatch, SlotsFreed, Listening
<1>3. SlotsFreed'
  BY <1>i, <1>e DEF SlotsFreed
<1>4. WrittenOnce'
  BY <1>i, <1>e DEF WrittenOnce
<1>5. DeliveredOnce'
  BY <1>i, <1>e DEF DeliveredOnce
<1>6. AnswersFollow'
  BY <1>i, <1>e, FramesDiffer DEF AnswersFollow, CancelOnItsWay
<1>7. CancelFollowsRequest'
  BY <1>i, <1>e DEF CancelFollowsRequest
<1>8. NoOrphans'
  BY <1>i, <1>e DEF NoOrphans, AtWork, CancelOnItsWay
<1> QED
  BY <1>i, <1>e, <1>1, <1>2, <1>3, <1>4, <1>5, <1>6, <1>7, <1>8, LanesFrame DEF LinkOrder

-----------------------------------------------------------------------------
(* StopBegin and StopCheck: the link is looked at.                         *)
LEMMA StopChecksInv ==
    ASSUME LinkInv, NEW w \in Waiters, StopBegin(w) \/ StopCheck(w)
    PROVE  LinkOrder'
<1>i. /\ TypeOK /\ EndsShut /\ SlotsMatch /\ SlotsFreed /\ LanesKept /\ WrittenOnce
      /\ DeliveredOnce /\ AnswersFollow /\ CancelFollowsRequest /\ NoOrphans
  BY DEF LinkInv, LinkOrder
<1>e. /\ \A v \in Waiters : v # w => waiter'[v] = waiter[v]
      /\ \/ waiter'[w] \in {"checked", "failed"}
         \/ waiter[w] = "registered" /\ ~closed["backend"] /\ waiter'[w] = "sending"
      /\ UNCHANGED <<closed, shutting, wire, broken, writer, writing, reader, held, out,
                     urgent, events, call, request, pending, answered, handler, inbound,
                     cancelled, stopOf, stops, acked, owed>>
  BY <1>i DEF StopBegin, StopCheck, TypeOK, linkVars, netVars, loopVars, callVars, handlerVars, stopVars
<1>1. SlotsMatch'
  BY <1>i, <1>e DEF SlotsMatch, SlotsFreed, Listening
<1>2. SlotsFreed'
  BY <1>i, <1>e DEF SlotsFreed
<1> QED
  BY <1>i, <1>e, <1>1, <1>2, EndsFrame, LanesFrame, WrittenFrame, DeliveredFrame,
     AnswersFrame, CancelFrame, OrphansFrame DEF LinkOrder

(* StopRegister: the caller enters the table.                              *)
LEMMA StopRegisterInv ==
    ASSUME LinkInv, NEW w \in Waiters, StopRegister(w)
    PROVE  LinkOrder'
<1>i. /\ TypeOK /\ EndsShut /\ SlotsMatch /\ SlotsFreed /\ LanesKept /\ WrittenOnce
      /\ DeliveredOnce /\ AnswersFollow /\ CancelFollowsRequest /\ NoOrphans
  BY DEF LinkInv, LinkOrder
<1>e. /\ waiter'[w] = "registered" /\ \A v \in Waiters : v # w => waiter'[v] = waiter[v]
      /\ \A v \in Waiters : v # w =>
           (v \in stops'[stopOf[v]] <=> v \in stops[stopOf[v]])
      /\ w \in stops'[stopOf[w]]
      /\ UNCHANGED <<closed, shutting, wire, broken, writer, writing, reader, held, out,
                     urgent, events, call, request, pending, answered, handler, inbound,
                     cancelled, stopOf, acked, owed>>
  BY <1>i DEF StopRegister, TypeOK, linkVars, netVars, loopVars, callVars, handlerVars, stopVars
<1>1. SlotsMatch'
  BY <1>i, <1>e DEF SlotsMatch, SlotsFreed, Listening
<1>2. SlotsFreed'
  BY <1>i, <1>e DEF SlotsFreed
<1> QED
  BY <1>i, <1>e, <1>1, <1>2, EndsFrame, LanesFrame, WrittenFrame, DeliveredFrame,
     AnswersFrame, CancelFrame, OrphansFrame DEF LinkOrder

(* StopSend: the stop is queued.                                           *)
LEMMA StopSendInv ==
    ASSUME LinkInv, NEW w \in Waiters, StopSend(w)
    PROVE  LinkOrder'
<1>i. /\ TypeOK /\ EndsShut /\ SlotsMatch /\ SlotsFreed /\ LanesKept /\ WrittenOnce
      /\ DeliveredOnce /\ AnswersFollow /\ CancelFollowsRequest /\ NoOrphans
  BY DEF LinkInv, LinkOrder
<1>d. "machine" \in Ends /\ "backend" \in Ends /\ "machine" # "backend"
  BY DEF Ends
<1>e. /\ waiter[w] = "sending"
      /\ waiter'[w] = "waiting" /\ \A v \in Waiters : v # w => waiter'[v] = waiter[v]
      /\ \A y : Holds(out'["backend"], y) <=> (Holds(out["backend"], y) \/ Stop(stopOf[w]) = y)
      /\ out'["machine"] = out["machine"] /\ stopOf[w] \in Stops
      /\ UNCHANGED <<closed, shutting, wire, broken, writer, writing, reader, held,
                     urgent, events, call, request, pending, answered, handler, inbound,
                     cancelled, stopOf, stops, acked, owed>>
  <2>1. stopOf[w] \in Stops /\ Queued("backend", Stop(stopOf[w]))
    BY <1>i DEF StopSend, TypeOK
  <2>2. Stop(stopOf[w]) \in Frame
    BY <2>1, FramesDiffer
  <2>3. /\ out'["machine"] = out["machine"]
        /\ \A y : Holds(out'["backend"], y) <=> (Holds(out["backend"], y) \/ Stop(stopOf[w]) = y)
    BY <1>i, <1>d, <2>1, <2>2, QueuedHolds
  <2> QED
    BY <1>i, <2>1, <2>3 DEF StopSend, TypeOK, linkVars, netVars, loopVars, callVars, handlerVars, stopVars
<1>1. SlotsMatch'
  BY <1>i, <1>e DEF SlotsMatch, SlotsFreed, Listening
<1>2. SlotsFreed'
  BY <1>i, <1>e DEF SlotsFreed
<1>3. LanesKept'
  BY <1>i, <1>e, FramesDiffer DEF LanesKept
<1>4. AnswersFollow'
  BY <1>i, <1>e, FramesDiffer DEF AnswersFollow, CancelOnItsWay
<1> QED
  BY <1>i, <1>e, <1>1, <1>2, <1>3, <1>4, EndsFrame, WrittenFrame, DeliveredFrame,
     CancelFrame, OrphansFrame DEF LinkOrder

(* StopFailed, StopConfirmed and StopGivesUp: those who listen stay.       *)
LEMMA StopEndsInv ==
    ASSUME LinkInv, NEW w \in Waiters,
           StopFailed(w) \/ StopConfirmed(w) \/ StopGivesUp(w)
    PROVE  LinkOrder'
<1>i. /\ TypeOK /\ EndsShut /\ SlotsMatch /\ SlotsFreed /\ LanesKept /\ WrittenOnce
      /\ DeliveredOnce /\ AnswersFollow /\ CancelFollowsRequest /\ NoOrphans
  BY DEF LinkInv, LinkOrder
<1>e. /\ waiter'[w] \in {"failed", "done", "gaveUp"}
      /\ \A v \in Waiters : v # w => waiter'[v] = waiter[v]
      /\ \A v \in Waiters : v \in stops'[stopOf[v]] => v \in stops[stopOf[v]]
      /\ \A v \in Waiters : v # w /\ Listening(v) /\ v \in stops[stopOf[v]] =>
           v \in stops'[stopOf[v]]
      /\ UNCHANGED <<closed, shutting, wire, broken, writer, writing, reader, held, out,
                     urgent, events, call, request, pending, answered, handler, inbound,
                     cancelled, stopOf, acked, owed>>
  <2>1. PICK x \in {"failed", "done", "gaveUp"} : waiter' = [waiter EXCEPT ![w] = x]
    BY DEF StopFailed, StopConfirmed, StopGivesUp
  <2>2. StopGuard(w)
    BY DEF StopFailed, StopConfirmed, StopGivesUp
  <2>3. /\ \A v \in Waiters : v \in stops'[stopOf[v]] => v \in stops[stopOf[v]]
        /\ \A v \in Waiters : v # w /\ Listening(v) /\ v \in stops[stopOf[v]] =>
             v \in stops'[stopOf[v]]
    BY <1>i, <2>2 DEF StopGuard, TypeOK
  <2>4. /\ UNCHANGED <<closed, shutting, wire, broken, writer, writing, reader, held, out,
                     urgent, events, call, request, pending, answered, handler, inbound,
                     cancelled, stopOf, acked, owed>>
    BY DEF StopFailed, StopConfirmed, StopGivesUp, linkVars, netVars, loopVars, callVars, handlerVars, stopVars
  <2> QED
    BY <1>i, <2>1, <2>3, <2>4 DEF TypeOK
<1>1. SlotsMatch'
  BY <1>i, <1>e DEF SlotsMatch, SlotsFreed, Listening
<1>2. SlotsFreed'
  BY <1>i, <1>e DEF SlotsFreed
<1> QED
  BY <1>i, <1>e, <1>1, <1>2, EndsFrame, LanesFrame, WrittenFrame, DeliveredFrame,
     AnswersFrame, CancelFrame, OrphansFrame DEF LinkOrder

(* TakeStop and Break leave the requests alone.                            *)
LEMMA TakeStopInv ==
    ASSUME LinkInv, \/ \E s \in Stops : TakeStop(s)
           \/ Break
    PROVE  LinkOrder'
<1>i. /\ TypeOK /\ EndsShut /\ SlotsMatch /\ SlotsFreed /\ LanesKept /\ WrittenOnce
      /\ DeliveredOnce /\ AnswersFollow /\ CancelFollowsRequest /\ NoOrphans
  BY DEF LinkInv, LinkOrder
<1>d. "machine" \in Ends /\ "backend" \in Ends /\ "machine" # "backend"
  BY DEF Ends
<1>e. /\ events'["backend"] = events["backend"]
      /\ UNCHANGED <<closed, shutting, wire, writer, writing, reader, held, out, urgent,
                     call, request, pending, answered, handler, inbound, cancelled,
                     waiter, stopOf, stops, acked>>
  BY <1>i, <1>d DEF TakeStop, Break, TypeOK, linkVars, netVars, loopVars, callVars, handlerVars, stopVars
<1> QED
  BY <1>i, <1>e, EndsFrame, SlotsFrame, LanesFrame, WrittenFrame, DeliveredFrame,
     AnswersFrame, CancelFrame, OrphansFrame DEF LinkOrder

(* AckStop: an acknowledgement is queued, or nothing.                      *)
LEMMA AckStopInv ==
    ASSUME LinkInv, NEW s \in Stops, AckStop(s)
    PROVE  LinkOrder'
<1>i. /\ TypeOK /\ EndsShut /\ SlotsMatch /\ SlotsFreed /\ LanesKept /\ WrittenOnce
      /\ DeliveredOnce /\ AnswersFollow /\ CancelFollowsRequest /\ NoOrphans
  BY DEF LinkInv, LinkOrder
<1>d. "machine" \in Ends /\ "backend" \in Ends /\ "machine" # "backend"
  BY DEF Ends
<1>e. /\ \A y : Holds(out'["machine"], y) => Holds(out["machine"], y) \/ StopAck(s) = y
      /\ out'["backend"] = out["backend"]
      /\ UNCHANGED <<closed, shutting, wire, broken, writer, writing, reader, held,
                     urgent, events, call, request, pending, answered, handler, inbound,
                     cancelled, waiter, stopOf, stops, acked>>
  <2>1. CASE Queued("machine", StopAck(s))
    BY <1>i, <1>d, <2>1, FramesDiffer, QueuedHolds DEF AckStop, linkVars, netVars, loopVars, callVars, handlerVars, stopVars
  <2>2. CASE UNCHANGED out
    BY <2>2 DEF AckStop, linkVars, netVars, loopVars, callVars, handlerVars, stopVars
  <2> QED
    BY <2>1, <2>2 DEF AckStop
<1>1. LanesKept'
  BY <1>i, <1>e, FramesDiffer DEF LanesKept
<1>2. NoOrphans'
  BY <1>i, <1>e, FramesDiffer DEF NoOrphans, AtWork, CancelOnItsWay
<1> QED
  BY <1>i, <1>e, <1>1, <1>2, EndsFrame, SlotsFrame, WrittenFrame, DeliveredFrame,
     AnswersFrame, CancelFrame DEF LinkOrder

-----------------------------------------------------------------------------
(* TakeUrgent: the writer takes an urgent frame.                           *)
LEMMA TakeUrgentInv ==
    ASSUME LinkInv, NEW e \in Ends, TakeUrgent(e)
    PROVE  LinkOrder'
<1>i. /\ TypeOK /\ EndsShut /\ SlotsMatch /\ SlotsFreed /\ LanesKept /\ WrittenOnce
      /\ DeliveredOnce /\ AnswersFollow /\ CancelFollowsRequest /\ NoOrphans
  BY DEF LinkInv, LinkOrder
<1>e. /\ writer[e] = "loop" /\ writing[e] = None /\ ~closed[e]
      /\ \A y : Holds(urgent[e], y) <=> (writing'[e] = y \/ Holds(urgent'[e], y))
      /\ \A d \in Ends : d # e => writing'[d] = writing[d] /\ urgent'[d] = urgent[d]
      /\ UNCHANGED <<closed, shutting, wire, broken, writer, reader, held, out, events,
                     call, request, pending, answered, handler, inbound, cancelled,
                     waiter, stopOf, stops, acked, owed>>
  <2>1. /\ urgent[e] \in Seq(Frame) /\ urgent[e] # <<>>
        /\ writing'[e] = Head(urgent[e]) /\ urgent'[e] = Tail(urgent[e])
        /\ \A d \in Ends : d # e => writing'[d] = writing[d] /\ urgent'[d] = urgent[d]
    BY <1>i DEF TakeUrgent, TypeOK
  <2> QED
    BY <2>1, TailHolds DEF TakeUrgent, linkVars, netVars, loopVars, callVars, handlerVars, stopVars
<1>1. EndsShut'
  BY <1>i, <1>e DEF EndsShut, Ends
<1>2. LanesKept'
  BY <1>i, <1>e, FramesDiffer DEF LanesKept, Ends
<1>3. WrittenOnce'
  BY <1>i, <1>e, FramesDiffer DEF WrittenOnce, LanesKept, Ends
<1>4. AnswersFollow'
  BY <1>i, <1>e, FramesDiffer DEF AnswersFollow, CancelOnItsWay, Ends
<1>5. NoOrphans'
  BY <1>i, <1>e, FramesDiffer DEF NoOrphans, AtWork, CancelOnItsWay, LanesKept, Ends
<1> QED
  BY <1>i, <1>e, <1>1, <1>2, <1>3, <1>4, <1>5, SlotsFrame, DeliveredFrame, CancelFrame DEF LinkOrder

(* TakeOut: the writer takes a frame, and marks a request as written.      *)
LEMMA TakeOutInv ==
    ASSUME LinkInv, NEW e \in Ends, TakeOut(e)
    PROVE  LinkOrder'
<1>i. /\ TypeOK /\ EndsShut /\ SlotsMatch /\ SlotsFreed /\ LanesKept /\ WrittenOnce
      /\ DeliveredOnce /\ AnswersFollow /\ CancelFollowsRequest /\ NoOrphans
  BY DEF LinkInv, LinkOrder
<1>e. /\ writer[e] = "loop" /\ writing[e] = None /\ ~closed[e]
      /\ \A y : Holds(out'[e], y) => Holds(out[e], y)
      /\ \A d \in Ends : d # e => writing'[d] = writing[d] /\ out'[d] = out[d]
      /\ \/ /\ writing'[e] = writing[e] /\ request' = request
         \/ /\ Holds(out[e], writing'[e]) /\ request' = request
            /\ \A c \in Calls : writing'[e] # Request(c)
         \/ \E c \in Calls : /\ Holds(out[e], Request(c)) /\ writing'[e] = Request(c)
                            /\ request[c] = "queued" /\ request'[c] = "written"
                            /\ \A d \in Calls : d # c => request'[d] = request[d]
      /\ UNCHANGED <<closed, shutting, wire, broken, writer, reader, held, urgent,
                     events, call, pending, answered, handler, inbound, cancelled,
                     waiter, stopOf, stops, acked, owed>>
  <2> DEFINE f == Head(out[e])
  <2>1. /\ out[e] \in Seq(Frame) /\ out[e] # <<>> /\ out'[e] = Tail(out[e])
        /\ \A d \in Ends : d # e => out'[d] = out[d]
    BY <1>i DEF TakeOut, TypeOK
  <2>2. /\ f \in Frame /\ Holds(out[e], f)
        /\ \A y : Holds(out'[e], y) => Holds(out[e], y)
    BY <2>1, TailHolds
  <2>3. CASE f.kind = "request" /\ request[f.id] = "queued"
    <3>1. f.id \in Calls /\ f = Request(f.id)
      BY <2>2, <2>3, FrameOfKind
    <3>2. /\ request' = [request EXCEPT ![f.id] = "written"]
          /\ writing' = [writing EXCEPT ![e] = f]
      BY <2>3 DEF TakeOut
    <3>3. /\ request'[f.id] = "written" /\ writing'[e] = Request(f.id)
          /\ \A d \in Calls : d # f.id => request'[d] = request[d]
          /\ \A d \in Ends : d # e => writing'[d] = writing[d]
      BY <1>i, <3>1, <3>2 DEF TypeOK
    <3> QED
      BY <2>1, <2>2, <2>3, <3>1, <3>3 DEF TakeOut, linkVars, netVars, loopVars, callVars, handlerVars, stopVars
  <2>4. CASE f.kind = "request" /\ request[f.id] # "queued"
    BY <2>1, <2>2, <2>4 DEF TakeOut, linkVars, netVars, loopVars, callVars, handlerVars, stopVars
  <2>5. CASE f.kind # "request"
    <3>1. request' = request /\ writing' = [writing EXCEPT ![e] = f]
      BY <2>5 DEF TakeOut
    <3>2. /\ \A c \in Calls : f # Request(c)
          /\ writing'[e] = f /\ \A d \in Ends : d # e => writing'[d] = writing[d]
      BY <1>i, <2>2, <2>5, <3>1, FrameOfKind DEF TypeOK
    <3> QED
      BY <2>1, <2>2, <3>1, <3>2 DEF TakeOut, linkVars, netVars, loopVars, callVars, handlerVars, stopVars
  <2> QED
    BY <2>3, <2>4, <2>5
<1>1. EndsShut'
  BY <1>i, <1>e DEF EndsShut, Ends
<1>2. LanesKept'
  BY <1>i, <1>e, FramesDiffer DEF LanesKept, Ends
<1>3. WrittenOnce'
  BY <1>i, <1>e, FramesDiffer DEF WrittenOnce, LanesKept, Ends
<1>4. AnswersFollow'
  BY <1>i, <1>e, FramesDiffer DEF AnswersFollow, CancelOnItsWay, LanesKept, Ends
<1>5. NoOrphans'
  BY <1>i, <1>e, FramesDiffer DEF NoOrphans, AtWork, CancelOnItsWay, LanesKept, AnswersFollow, Ends
<1> QED
  BY <1>i, <1>e, <1>1, <1>2, <1>3, <1>4, <1>5, SlotsFrame, DeliveredFrame, CancelFrame DEF LinkOrder

(* WriteFrame: the frame goes out.                                         *)
LEMMA WriteFrameInv ==
    ASSUME LinkInv, NEW e \in Ends, WriteFrame(e)
    PROVE  LinkOrder'
<1>i. /\ TypeOK /\ EndsShut /\ SlotsMatch /\ SlotsFreed /\ LanesKept /\ WrittenOnce
      /\ DeliveredOnce /\ AnswersFollow /\ CancelFollowsRequest /\ NoOrphans
  BY DEF LinkInv, LinkOrder
<1>e. /\ writing[e] # None
      /\ writing'[e] = None /\ \A d \in Ends : d # e => writing'[d] = writing[d]
      /\ \A y : Holds(wire'[e], y) <=> (Holds(wire[e], y) \/ writing[e] = y)
      /\ \A y : Once(wire[e], y) /\ (~Holds(wire[e], y) \/ writing[e] # y) => Once(wire'[e], y)
      /\ \A x, y : Follows(wire[e], x, y) /\ (writing[e] # x \/ Holds(wire[e], y)) =>
           Follows(wire'[e], x, y)
      /\ \A d \in Ends : d # e => wire'[d] = wire[d]
      /\ UNCHANGED <<closed, shutting, broken, writer, reader, held, out, urgent, events,
                     call, request, pending, answered, handler, inbound, cancelled,
                     waiter, stopOf, stops, acked, owed>>
  <2>1. /\ wire[e] \in Seq(Frame) /\ writing[e] \in Frame
        /\ wire'[e] = Append(wire[e], writing[e])
        /\ \A d \in Ends : d # e => wire'[d] = wire[d]
        /\ writing'[e] = None /\ \A d \in Ends : d # e => writing'[d] = writing[d]
    BY <1>i DEF WriteFrame, TypeOK
  <2>2. /\ \A y : Holds(wire'[e], y) <=> (Holds(wire[e], y) \/ writing[e] = y)
        /\ \A y : Once(wire[e], y) /\ (~Holds(wire[e], y) \/ writing[e] # y) => Once(wire'[e], y)
    BY <2>1, AppendHolds
  <2>3. \A x, y : Follows(wire[e], x, y) /\ (writing[e] # x \/ Holds(wire[e], y)) =>
           Follows(wire'[e], x, y)
    BY <2>1, AppendFollows
  <2> QED
    BY <2>1, <2>2, <2>3 DEF WriteFrame, linkVars, netVars, loopVars, callVars, handlerVars, stopVars
<1>1. EndsShut'
  BY <1>i, <1>e DEF EndsShut, Ends
<1>2. WrittenOnce'
  BY <1>i, <1>e, FramesDiffer DEF WrittenOnce, Ends
<1>3. AnswersFollow'
  BY <1>i, <1>e, FramesDiffer DEF AnswersFollow, CancelOnItsWay, Ends
<1>4. CancelFollowsRequest'
  <2>1. CASE e = "machine"
    <3> SUFFICES ASSUME NEW c \in Calls, handler[c] = "none"
                 PROVE  Follows(wire'["machine"], Cancel(c), Request(c))
      BY <1>e DEF CancelFollowsRequest, Follows
    <3>1. Follows(wire["machine"], Cancel(c), Request(c))
      BY <1>i, CancelFollowsIs
    <3>2. writing["machine"] = Cancel(c) => Holds(wire["machine"], Request(c))
      BY <1>i, <1>e, <2>1, FramesDiffer DEF AnswersFollow, CancelOnItsWay, WrittenOnce, EndsShut
    <3> QED
      BY <1>e, <2>1, <3>1, <3>2
  <2>2. CASE e = "backend"
    BY <1>i, <1>e, <2>2, CancelFrame DEF Ends
  <2> QED
    BY <2>1, <2>2 DEF Ends
<1>5. NoOrphans'
  BY <1>i, <1>e, FramesDiffer DEF NoOrphans, AtWork, CancelOnItsWay, Ends
<1> QED
  BY <1>i, <1>e, <1>1, <1>2, <1>3, <1>4, <1>5, SlotsFrame, LanesFrame, DeliveredFrame DEF LinkOrder

(* WriterStops: the frame it was handing over is lost; the link closes.    *)
LEMMA WriterStopsInv ==
    ASSUME LinkInv, NEW e \in Ends, WriterStops(e)
    PROVE  LinkOrder'
<1>i. /\ TypeOK /\ EndsShut /\ SlotsMatch /\ SlotsFreed /\ LanesKept /\ WrittenOnce
      /\ DeliveredOnce /\ AnswersFollow /\ CancelFollowsRequest /\ NoOrphans
  BY DEF LinkInv, LinkOrder
<1>e. /\ closed'[e] /\ shutting'[e] # {}
      /\ \A d \in Ends : d # e => closed'[d] = closed[d] /\ shutting'[d] = shutting[d]
      /\ writer'[e] = "closing" /\ \A d \in Ends : d # e => writer'[d] = writer[d]
      /\ writing'[e] = None /\ \A d \in Ends : d # e => writing'[d] = writing[d]
      /\ UNCHANGED <<wire, broken, reader, held, out, urgent, events, call, request,
                     pending, answered, handler, inbound, cancelled, waiter, stopOf,
                     stops, acked, owed>>
  BY <1>i, ShutBegins, ZenonT(60) DEF WriterStops, TypeOK, linkVars, netVars, loopVars, callVars, handlerVars, stopVars
<1>1. EndsShut'
  BY <1>i, <1>e DEF EndsShut, Ends
<1>2. SlotsMatch'
  BY <1>i, <1>e DEF SlotsMatch, SlotsFreed, Listening, Ends
<1>3. SlotsFreed'
  BY <1>i, <1>e DEF SlotsFreed
<1>4. WrittenOnce'
  BY <1>i, <1>e, FramesDiffer DEF WrittenOnce, Ends
<1>5. AnswersFollow'
  BY <1>i, <1>e, FramesDiffer DEF AnswersFollow, CancelOnItsWay, Ends
<1>6. NoOrphans'
  BY <1>i, <1>e, FramesDiffer DEF NoOrphans, AtWork, CancelOnItsWay, Ends
<1> QED
  BY <1>i, <1>e, <1>1, <1>2, <1>3, <1>4, <1>5, <1>6, LanesFrame, DeliveredFrame,
     CancelFrame DEF LinkOrder

(* WriterEnds: the queues go with the writer.                              *)
LEMMA WriterEndsInv ==
    ASSUME LinkInv, NEW e \in Ends, WriterEnds(e)
    PROVE  LinkOrder'
<1>i. /\ TypeOK /\ EndsShut /\ SlotsMatch /\ SlotsFreed /\ LanesKept /\ WrittenOnce
      /\ DeliveredOnce /\ AnswersFollow /\ CancelFollowsRequest /\ NoOrphans
  BY DEF LinkInv, LinkOrder
<1>e. /\ closed[e]
      /\ writer'[e] = "ended" /\ \A d \in Ends : d # e => writer'[d] = writer[d]
      /\ \A y : ~Holds(out'[e], y) /\ ~Holds(urgent'[e], y)
      /\ \A d \in Ends : d # e => out'[d] = out[d] /\ urgent'[d] = urgent[d]
      /\ writing[e] = None /\ writer[e] # "loop"
      /\ UNCHANGED <<closed, shutting, wire, broken, writing, reader, held, events, call,
                     request, pending, answered, handler, inbound, cancelled, waiter,
                     stopOf, stops, acked, owed>>
  <2>1. writer[e] = "closing" /\ out'[e] = <<>> /\ urgent'[e] = <<>>
    BY <1>i DEF WriterEnds, TypeOK
  <2>2. closed[e] /\ writing[e] = None
    BY <1>i, <2>1 DEF EndsShut
  <2> QED
    BY <1>i, <2>1, <2>2, EmptyHolds DEF WriterEnds, TypeOK, linkVars, netVars, loopVars, callVars, handlerVars, stopVars
<1>1. EndsShut'
  BY <1>i, <1>e DEF EndsShut, Ends
<1>2. LanesKept'
  BY <1>i, <1>e, FramesDiffer DEF LanesKept, Ends
<1>3. WrittenOnce'
  BY <1>i, <1>e DEF WrittenOnce, Ends
<1>4. AnswersFollow'
  BY <1>i, <1>e, FramesDiffer DEF AnswersFollow, CancelOnItsWay, Ends
<1>5. NoOrphans'
  BY <1>i, <1>e, FramesDiffer DEF NoOrphans, AtWork, CancelOnItsWay, Ends
<1> QED
  BY <1>i, <1>e, <1>1, <1>2, <1>3, <1>4, <1>5, SlotsFrame, DeliveredFrame, CancelFrame DEF LinkOrder

-----------------------------------------------------------------------------
(* What the reader of an end reads from the other.                         *)
LEMMA ReadsHead ==
    ASSUME TypeOK, NEW e \in Ends, NEW p \in Ends, p = Peer(e), NEW kind, Reads(e, kind)
    PROVE  /\ Arrived(e) \in Frame /\ Arrived(e).kind = kind /\ p # e
           /\ \A y : Holds(wire[p], y) <=> (Arrived(e) = y \/ Holds(wire'[p], y))
           /\ \A y : Once(wire[p], y) => Once(wire'[p], y)
           /\ \A y : Once(wire[p], y) /\ Arrived(e) = y => ~Holds(wire'[p], y)
           /\ \A x, y : Follows(wire[p], x, y) =>
                Arrived(e) # x /\ (Arrived(e) # y => Follows(wire'[p], x, y))
           /\ wire'[e] = wire[e] /\ held[e] = None
<1>1. /\ wire[p] \in Seq(Frame) /\ wire[p] # <<>> /\ Arrived(e) = Head(wire[p])
      /\ Arrived(e).kind = kind /\ wire'[p] = Tail(wire[p])
      /\ wire'[e] = wire[e] /\ p # e /\ held[e] = None
  BY DEF TypeOK, Reads, Arrived, Peer, Ends
<1>2. /\ Arrived(e) \in Frame
      /\ \A y : Holds(wire[p], y) <=> (Arrived(e) = y \/ Holds(wire'[p], y))
      /\ \A y : Once(wire[p], y) => Once(wire'[p], y)
      /\ \A y : Once(wire[p], y) /\ Arrived(e) = y => ~Holds(wire'[p], y)
  BY <1>1, TailHolds
<1>3. \A x, y : Follows(wire[p], x, y) =>
        Arrived(e) # x /\ (Arrived(e) # y => Follows(wire'[p], x, y))
  BY <1>1, TailFollows
<1> QED
  BY <1>1, <1>2, <1>3

(* RouteResponse: the slot of the call receives the outcome.               *)
LEMMA RouteResponseInv ==
    ASSUME LinkInv, RouteResponse
    PROVE  LinkOrder'
<1>i. /\ TypeOK /\ EndsShut /\ SlotsMatch /\ SlotsFreed /\ LanesKept /\ WrittenOnce
      /\ DeliveredOnce /\ AnswersFollow /\ CancelFollowsRequest /\ NoOrphans
  BY DEF LinkInv, LinkOrder
<1>p. "machine" \in Ends /\ "backend" \in Ends /\ "backend" = Peer("machine")
      /\ "machine" = Peer("backend") /\ "machine" # "backend"
  BY DEF Ends, Peer
<1>r. /\ Arrived("machine") \in Frame /\ Arrived("machine").kind = "response"
      /\ \A y : Holds(wire["backend"], y) <=> (Arrived("machine") = y \/ Holds(wire'["backend"], y))
      /\ \A y : Once(wire["backend"], y) => Once(wire'["backend"], y)
      /\ \A y : Once(wire["backend"], y) /\ Arrived("machine") = y => ~Holds(wire'["backend"], y)
      /\ \A x, y : Follows(wire["backend"], x, y) =>
           Arrived("machine") # x /\ (Arrived("machine") # y => Follows(wire'["backend"], x, y))
      /\ wire'["machine"] = wire["machine"] /\ held["machine"] = None
  <2>1. Reads("machine", "response")
    BY DEF RouteResponse
  <2> QED
    BY <1>i, <1>p, <2>1, ReadsHead
<1> DEFINE c == Arrived("machine").id
<1>c. c \in Calls /\ Arrived("machine") = Response(c) /\ handler[c] = "over"
  BY <1>i, <1>r, FrameOfKind DEF AnswersFollow
<1> HIDE DEF c
<1>e. /\ pending' = pending \ {c} /\ answered' = answered \cup ({c} \cap pending)
      /\ \A y : Holds(wire'["backend"], y) => Holds(wire["backend"], y)
      /\ wire'["machine"] = wire["machine"]
      /\ UNCHANGED <<closed, shutting, broken, writer, writing, reader, held, out,
                     urgent, events, call, request, handler, inbound, cancelled, waiter,
                     stopOf, stops, acked, owed>>
  BY <1>r DEF RouteResponse, c, linkVars, netVars, loopVars, callVars, handlerVars, stopVars
<1>1. SlotsMatch'
  BY <1>i, <1>e DEF SlotsMatch, SlotsFreed, Listening
<1>2. SlotsFreed'
  BY <1>i, <1>e DEF SlotsFreed
<1>3. AnswersFollow'
  BY <1>i, <1>e, <1>c DEF AnswersFollow, CancelOnItsWay
<1> QED
  BY <1>i, <1>e, <1>1, <1>2, <1>3, EndsFrame, LanesFrame, WrittenFrame, DeliveredFrame,
     CancelFrame, OrphansFrame DEF LinkOrder

(* RouteStopAck: every caller waiting on the id resolves.                  *)
LEMMA RouteStopAckInv ==
    ASSUME LinkInv, RouteStopAck
    PROVE  LinkOrder'
<1>i. /\ TypeOK /\ EndsShut /\ SlotsMatch /\ SlotsFreed /\ LanesKept /\ WrittenOnce
      /\ DeliveredOnce /\ AnswersFollow /\ CancelFollowsRequest /\ NoOrphans
  BY DEF LinkInv, LinkOrder
<1>p. "machine" \in Ends /\ "backend" \in Ends /\ "backend" = Peer("machine")
      /\ "machine" = Peer("backend") /\ "machine" # "backend"
  BY DEF Ends, Peer
<1>r. /\ Arrived("backend") \in Frame /\ Arrived("backend").kind = "stopAck"
      /\ \A y : Holds(wire["machine"], y) <=> (Arrived("backend") = y \/ Holds(wire'["machine"], y))
      /\ \A y : Once(wire["machine"], y) => Once(wire'["machine"], y)
      /\ \A y : Once(wire["machine"], y) /\ Arrived("backend") = y => ~Holds(wire'["machine"], y)
      /\ \A x, y : Follows(wire["machine"], x, y) =>
           Arrived("backend") # x /\ (Arrived("backend") # y => Follows(wire'["machine"], x, y))
      /\ wire'["backend"] = wire["backend"] /\ held["backend"] = None
  <2>1. Reads("backend", "stopAck")
    BY DEF RouteStopAck
  <2> QED
    BY <1>i, <1>p, <2>1, ReadsHead
<1> DEFINE s == Arrived("backend").id
<1>c. /\ s \in Stops
      /\ \A c \in Calls : Arrived("backend") # Request(c) /\ Arrived("backend") # Cancel(c)
  BY <1>r, FrameOfKind
<1> HIDE DEF s
<1>e. /\ \A w \in Waiters : w \in stops'[stopOf[w]] => w \in stops[stopOf[w]]
      /\ \A w \in Waiters : w \in stops[stopOf[w]] => w \in stops'[stopOf[w]] \cup acked'
      /\ acked \subseteq acked'
      /\ wire'["backend"] = wire["backend"]
      /\ \A c \in Calls : /\ Holds(wire["machine"], Request(c)) <=> Holds(wire'["machine"], Request(c))
                          /\ Holds(wire["machine"], Cancel(c)) <=> Holds(wire'["machine"], Cancel(c))
      /\ \A y : Once(wire["machine"], y) => Once(wire'["machine"], y)
      /\ \A c \in Calls : Follows(wire["machine"], Cancel(c), Request(c)) =>
           Follows(wire'["machine"], Cancel(c), Request(c))
      /\ UNCHANGED <<closed, shutting, broken, writer, writing, reader, held, out,
                     urgent, events, call, request, pending, answered, handler, inbound,
                     cancelled, waiter, stopOf, owed>>
  <2>1. stops' = [stops EXCEPT ![s] = {}] /\ acked' = acked \cup stops[s]
    BY DEF RouteStopAck, s
  <2>2. /\ \A w \in Waiters : w \in stops'[stopOf[w]] => w \in stops[stopOf[w]]
        /\ \A w \in Waiters : w \in stops[stopOf[w]] => w \in stops'[stopOf[w]] \cup acked'
        /\ acked \subseteq acked'
    BY <1>i, <1>c, <2>1 DEF TypeOK
  <2> QED
    BY <1>r, <1>c, <2>2 DEF RouteStopAck, linkVars, netVars, loopVars, callVars, handlerVars, stopVars
<1>1. SlotsMatch'
  BY <1>i, <1>e DEF SlotsMatch, SlotsFreed, Listening
<1>2. SlotsFreed'
  BY <1>i, <1>e DEF SlotsFreed
<1>3. WrittenOnce'
  BY <1>i, <1>e DEF WrittenOnce
<1>4. AnswersFollow'
  BY <1>i, <1>e DEF AnswersFollow, CancelOnItsWay
<1>5. CancelFollowsRequest'
  BY <1>i, <1>e DEF CancelFollowsRequest, Follows
<1>6. NoOrphans'
  BY <1>i, <1>e DEF NoOrphans, AtWork, CancelOnItsWay
<1> QED
  BY <1>i, <1>e, <1>1, <1>2, <1>3, <1>4, <1>5, <1>6, EndsFrame, LanesFrame,
     DeliveredFrame DEF LinkOrder

(* RouteCancel: the handler may see the cancellation.                      *)
LEMMA RouteCancelInv ==
    ASSUME LinkInv, RouteCancel
    PROVE  LinkOrder'
<1>i. /\ TypeOK /\ EndsShut /\ SlotsMatch /\ SlotsFreed /\ LanesKept /\ WrittenOnce
      /\ DeliveredOnce /\ AnswersFollow /\ CancelFollowsRequest /\ NoOrphans
  BY DEF LinkInv, LinkOrder
<1>p. "machine" \in Ends /\ "backend" \in Ends /\ "backend" = Peer("machine")
      /\ "machine" = Peer("backend") /\ "machine" # "backend"
  BY DEF Ends, Peer
<1>r. /\ Arrived("backend") \in Frame /\ Arrived("backend").kind = "cancel"
      /\ \A y : Holds(wire["machine"], y) <=> (Arrived("backend") = y \/ Holds(wire'["machine"], y))
      /\ \A y : Once(wire["machine"], y) => Once(wire'["machine"], y)
      /\ \A y : Once(wire["machine"], y) /\ Arrived("backend") = y => ~Holds(wire'["machine"], y)
      /\ \A x, y : Follows(wire["machine"], x, y) =>
           Arrived("backend") # x /\ (Arrived("backend") # y => Follows(wire'["machine"], x, y))
      /\ wire'["backend"] = wire["backend"] /\ held["backend"] = None
  <2>1. Reads("backend", "cancel")
    BY DEF RouteCancel
  <2> QED
    BY <1>i, <1>p, <2>1, ReadsHead
<1> DEFINE c == Arrived("backend").id
<1>c. /\ c \in Calls /\ Arrived("backend") = Cancel(c)
      /\ handler[c] # "none" /\ request[c] = "written"
  <2>1. c \in Calls /\ Arrived("backend") = Cancel(c)
    BY <1>r, FrameOfKind
  <2>2. handler[c] = "none" => Follows(wire["machine"], Cancel(c), Request(c))
    BY <1>i, <2>1, CancelFollowsIs
  <2> QED
    BY <1>i, <1>r, <2>1, <2>2 DEF WrittenOnce
<1> HIDE DEF c
<1>e. /\ inbound' = inbound \ {c}
      /\ wire'["backend"] = wire["backend"]
      /\ \A d \in Calls : /\ Holds(wire["machine"], Request(d)) <=> Holds(wire'["machine"], Request(d))
                          /\ Holds(wire'["machine"], Cancel(d)) => Holds(wire["machine"], Cancel(d))
                          /\ d # c /\ Holds(wire["machine"], Cancel(d)) => Holds(wire'["machine"], Cancel(d))
      /\ \A y : Once(wire["machine"], y) => Once(wire'["machine"], y)
      /\ \A d \in Calls : Follows(wire["machine"], Cancel(d), Request(d)) =>
           Follows(wire'["machine"], Cancel(d), Request(d))
      /\ UNCHANGED <<closed, shutting, broken, writer, writing, reader, held, out,
                     urgent, events, call, request, pending, answered, handler, waiter,
                     stopOf, stops, acked, owed>>
  <2>1. inbound' = inbound \ {c}
    BY DEF RouteCancel, c
  <2> QED
    BY <1>r, <1>c, <2>1, FramesDiffer DEF RouteCancel, linkVars, netVars, loopVars, callVars, handlerVars, stopVars
<1>1. SlotsMatch'
  BY <1>i, <1>e DEF SlotsMatch, SlotsFreed, Listening
<1>2. SlotsFreed'
  BY <1>i, <1>e DEF SlotsFreed
<1>3. WrittenOnce'
  BY <1>i, <1>e DEF WrittenOnce
<1>4. AnswersFollow'
  BY <1>i, <1>e DEF AnswersFollow, CancelOnItsWay
<1>5. CancelFollowsRequest'
  BY <1>i, <1>e DEF CancelFollowsRequest, Follows
<1>6. NoOrphans'
  BY <1>i, <1>e, <1>c DEF NoOrphans, AtWork, CancelOnItsWay, WrittenOnce, AnswersFollow
<1> QED
  BY <1>i, <1>e, <1>1, <1>2, <1>3, <1>4, <1>5, <1>6, EndsFrame, LanesFrame,
     DeliveredFrame DEF LinkOrder

(* RouteRequest: the request waits to be handed to its handler.            *)
LEMMA RouteRequestInv ==
    ASSUME LinkInv, RouteRequest
    PROVE  LinkOrder'
<1>i. /\ TypeOK /\ EndsShut /\ SlotsMatch /\ SlotsFreed /\ LanesKept /\ WrittenOnce
      /\ DeliveredOnce /\ AnswersFollow /\ CancelFollowsRequest /\ NoOrphans
  BY DEF LinkInv, LinkOrder
<1>p. "machine" \in Ends /\ "backend" \in Ends /\ "backend" = Peer("machine")
      /\ "machine" = Peer("backend") /\ "machine" # "backend"
  BY DEF Ends, Peer
<1>r. /\ Arrived("backend") \in Frame /\ Arrived("backend").kind = "request"
      /\ \A y : Holds(wire["machine"], y) <=> (Arrived("backend") = y \/ Holds(wire'["machine"], y))
      /\ \A y : Once(wire["machine"], y) => Once(wire'["machine"], y)
      /\ \A y : Once(wire["machine"], y) /\ Arrived("backend") = y => ~Holds(wire'["machine"], y)
      /\ \A x, y : Follows(wire["machine"], x, y) =>
           Arrived("backend") # x /\ (Arrived("backend") # y => Follows(wire'["machine"], x, y))
      /\ wire'["backend"] = wire["backend"] /\ held["backend"] = None
  <2>1. Reads("backend", "request")
    BY DEF RouteRequest
  <2> QED
    BY <1>i, <1>p, <2>1, ReadsHead
<1> DEFINE c == Arrived("backend").id
<1>c. /\ c \in Calls /\ Arrived("backend") = Request(c) /\ Holds(wire["machine"], Request(c))
      /\ handler[c] = "none" /\ writing["machine"] # Request(c) /\ request[c] = "written"
      /\ Once(wire["machine"], Request(c))
  <2>1. c \in Calls /\ Arrived("backend") = Request(c)
    BY <1>r, FrameOfKind
  <2> QED
    BY <1>i, <1>r, <2>1 DEF WrittenOnce
<1> HIDE DEF c
<1>e. /\ inbound' = inbound \cup {c} /\ held'["backend"] = Request(c)
      /\ wire'["backend"] = wire["backend"]
      /\ held'["machine"] = held["machine"]
      /\ handler'[c] = "queued" /\ \A d \in Calls : d # c => handler'[d] = handler[d]
      /\ ~Holds(wire'["machine"], Request(c))
      /\ \A d \in Calls : /\ Holds(wire["machine"], Cancel(d)) <=> Holds(wire'["machine"], Cancel(d))
                          /\ Holds(wire'["machine"], Request(d)) => Holds(wire["machine"], Request(d))
                          /\ d # c /\ Holds(wire["machine"], Request(d)) => Holds(wire'["machine"], Request(d))
      /\ \A y : Once(wire["machine"], y) => Once(wire'["machine"], y)
      /\ \A d \in Calls : d # c /\ Follows(wire["machine"], Cancel(d), Request(d)) =>
           Follows(wire'["machine"], Cancel(d), Request(d))
      /\ UNCHANGED <<closed, shutting, broken, writer, writing, reader, out, urgent,
                     events, call, request, pending, answered, cancelled, waiter, stopOf,
                     stops, acked, owed>>
  <2>1. /\ inbound' = inbound \cup {c} /\ handler' = [handler EXCEPT ![c] = "queued"]
        /\ held' = [held EXCEPT !["backend"] = Arrived("backend")]
    BY DEF RouteRequest, c
  <2>2. /\ held'["backend"] = Request(c) /\ held'["machine"] = held["machine"]
        /\ handler'[c] = "queued" /\ \A d \in Calls : d # c => handler'[d] = handler[d]
    BY <1>i, <1>p, <1>c, <2>1 DEF TypeOK
  <2> QED
    BY <1>r, <1>c, <2>1, <2>2, FramesDiffer DEF RouteRequest, linkVars, netVars, loopVars, callVars, handlerVars, stopVars
<1>1. SlotsMatch'
  BY <1>i, <1>e DEF SlotsMatch, SlotsFreed, Listening
<1>2. SlotsFreed'
  BY <1>i, <1>e DEF SlotsFreed
<1>3. WrittenOnce'
  BY <1>i, <1>e, <1>c DEF WrittenOnce
<1>4. DeliveredOnce'
  BY <1>i, <1>e, <1>c, FramesDiffer DEF DeliveredOnce
<1>5. AnswersFollow'
  BY <1>i, <1>e, <1>c DEF AnswersFollow, CancelOnItsWay
<1>6. CancelFollowsRequest'
  BY <1>i, <1>e DEF CancelFollowsRequest, Follows
<1>7. NoOrphans'
  BY <1>i, <1>e, <1>c DEF NoOrphans, AtWork, CancelOnItsWay
<1> QED
  BY <1>i, <1>e, <1>1, <1>2, <1>3, <1>4, <1>5, <1>6, <1>7, EndsFrame, LanesFrame DEF LinkOrder

(* RouteStop: the stop waits to be handed to the owner.                    *)
LEMMA RouteStopInv ==
    ASSUME LinkInv, RouteStop
    PROVE  LinkOrder'
<1>i. /\ TypeOK /\ EndsShut /\ SlotsMatch /\ SlotsFreed /\ LanesKept /\ WrittenOnce
      /\ DeliveredOnce /\ AnswersFollow /\ CancelFollowsRequest /\ NoOrphans
  BY DEF LinkInv, LinkOrder
<1>p. "machine" \in Ends /\ "backend" \in Ends /\ "backend" = Peer("machine")
      /\ "machine" = Peer("backend") /\ "machine" # "backend"
  BY DEF Ends, Peer
<1>r. /\ Arrived("machine") \in Frame /\ Arrived("machine").kind = "stop"
      /\ \A y : Holds(wire["backend"], y) <=> (Arrived("machine") = y \/ Holds(wire'["backend"], y))
      /\ \A y : Once(wire["backend"], y) => Once(wire'["backend"], y)
      /\ \A y : Once(wire["backend"], y) /\ Arrived("machine") = y => ~Holds(wire'["backend"], y)
      /\ \A x, y : Follows(wire["backend"], x, y) =>
           Arrived("machine") # x /\ (Arrived("machine") # y => Follows(wire'["backend"], x, y))
      /\ wire'["machine"] = wire["machine"] /\ held["machine"] = None
  <2>1. Reads("machine", "stop")
    BY DEF RouteStop
  <2> QED
    BY <1>i, <1>p, <2>1, ReadsHead
<1>e. /\ \A c \in Calls : held'["machine"] # Request(c)
      /\ held'["backend"] = held["backend"]
      /\ \A y : Holds(wire'["backend"], y) => Holds(wire["backend"], y)
      /\ wire'["machine"] = wire["machine"]
      /\ UNCHANGED <<closed, shutting, broken, writer, writing, reader, out, urgent,
                     events, call, request, pending, answered, handler, inbound,
                     cancelled, waiter, stopOf, stops, acked, owed>>
  <2>1. /\ held'["machine"] = Arrived("machine") /\ held'["backend"] = held["backend"]
        /\ \A c \in Calls : Arrived("machine") # Request(c)
    <3>1. \A c \in Calls : Arrived("machine") # Request(c)
      BY <1>r, FrameOfKind
    <3>2. held' = [held EXCEPT !["machine"] = Arrived("machine")]
      BY DEF RouteStop
    <3> QED
      BY <1>i, <1>p, <3>1, <3>2 DEF TypeOK
  <2> QED
    BY <1>r, <2>1 DEF RouteStop, linkVars, netVars, loopVars, callVars, handlerVars, stopVars
<1>1. DeliveredOnce'
  BY <1>i, <1>e DEF DeliveredOnce
<1>2. AnswersFollow'
  BY <1>i, <1>e DEF AnswersFollow, CancelOnItsWay
<1> QED
  BY <1>i, <1>e, <1>1, <1>2, EndsFrame, SlotsFrame, LanesFrame, WrittenFrame,
     CancelFrame, OrphansFrame DEF LinkOrder

(* Deliver: the owner's events take the frame.                             *)
LEMMA DeliverInv ==
    ASSUME LinkInv, NEW e \in Ends, Deliver(e)
    PROVE  LinkOrder'
<1>i. /\ TypeOK /\ EndsShut /\ SlotsMatch /\ SlotsFreed /\ LanesKept /\ WrittenOnce
      /\ DeliveredOnce /\ AnswersFollow /\ CancelFollowsRequest /\ NoOrphans
  BY DEF LinkInv, LinkOrder
<1>e. /\ \A y : Holds(events'[e], y) <=> (Holds(events[e], y) \/ held[e] = y)
      /\ \A y : Once(events[e], y) /\ (~Holds(events[e], y) \/ held[e] # y) => Once(events'[e], y)
      /\ held'[e] = None /\ \A d \in Ends : d # e => held'[d] = held[d]
      /\ \A d \in Ends : d # e => events'[d] = events[d]
      /\ UNCHANGED <<closed, shutting, wire, broken, writer, writing, reader, out,
                     urgent, call, request, pending, answered, handler, inbound,
                     cancelled, waiter, stopOf, stops, acked, owed>>
  <2>1. /\ events[e] \in Seq(Frame) /\ held[e] \in Frame
        /\ events'[e] = Append(events[e], held[e]) /\ held'[e] = None
        /\ \A d \in Ends : d # e => events'[d] = events[d] /\ held'[d] = held[d]
    BY <1>i DEF Deliver, TypeOK
  <2> QED
    BY <2>1, AppendHolds DEF Deliver, linkVars, netVars, loopVars, callVars, handlerVars, stopVars
<1>1. DeliveredOnce'
  BY <1>i, <1>e, FramesDiffer DEF DeliveredOnce, Ends
<1> QED
  BY <1>i, <1>e, <1>1, EndsFrame, SlotsFrame, LanesFrame, WrittenFrame, AnswersFrame,
     CancelFrame, OrphansFrame DEF LinkOrder

(* ReaderStops: a request not yet delivered is dropped; the link closes.   *)
LEMMA ReaderStopsInv ==
    ASSUME LinkInv, NEW e \in Ends, ReaderStops(e)
    PROVE  LinkOrder'
<1>i. /\ TypeOK /\ EndsShut /\ SlotsMatch /\ SlotsFreed /\ LanesKept /\ WrittenOnce
      /\ DeliveredOnce /\ AnswersFollow /\ CancelFollowsRequest /\ NoOrphans
  BY DEF LinkInv, LinkOrder
<1>e. /\ closed'[e] /\ shutting'[e] # {}
      /\ \A d \in Ends : d # e => closed'[d] = closed[d] /\ shutting'[d] = shutting[d]
      /\ held'[e] = None /\ \A d \in Ends : d # e => held'[d] = held[d]
      /\ inbound' = {c \in inbound : held[e] # Request(c)}
      /\ \A c \in Calls : handler'[c] = (IF held[e] = Request(c) THEN "over" ELSE handler[c])
      /\ UNCHANGED <<wire, broken, writer, writing, out, urgent, events, call, request,
                     pending, answered, waiter, stopOf, stops, acked, owed>>
  <2>1. inbound' = inbound \ {c \in Calls : held[e] = Request(c)} /\ inbound \subseteq Calls
    BY <1>i DEF ReaderStops, TypeOK
  <2>2. inbound' = {c \in inbound : held[e] # Request(c)}
    BY <2>1
  <2>3. \A c \in Calls : handler'[c] = (IF held[e] = Request(c) THEN "over" ELSE handler[c])
    BY DEF ReaderStops
  <2>4. held'[e] = None /\ \A d \in Ends : d # e => held'[d] = held[d]
    BY <1>i DEF ReaderStops, TypeOK
  <2> QED
    BY <1>i, <2>2, <2>3, <2>4, ShutBegins DEF ReaderStops, linkVars, netVars, loopVars, callVars, handlerVars, stopVars
<1>1. EndsShut'
  BY <1>i, <1>e DEF EndsShut, Ends
<1>2. SlotsMatch'
  BY <1>i, <1>e DEF SlotsMatch, SlotsFreed, Listening, Ends
<1>3. SlotsFreed'
  BY <1>i, <1>e DEF SlotsFreed
<1>4. WrittenOnce'
  BY <1>i, <1>e DEF WrittenOnce, DeliveredOnce, Ends
<1>5. DeliveredOnce'
  BY <1>i, <1>e, FramesDiffer DEF DeliveredOnce, Ends
<1>6. AnswersFollow'
  BY <1>i, <1>e DEF AnswersFollow, CancelOnItsWay, Ends
<1>7. CancelFollowsRequest'
  BY <1>i, <1>e DEF CancelFollowsRequest, Ends
<1>8. NoOrphans'
  BY <1>i, <1>e DEF NoOrphans, AtWork, CancelOnItsWay, Ends
<1> QED
  BY <1>i, <1>e, <1>1, <1>2, <1>3, <1>4, <1>5, <1>6, <1>7, <1>8, LanesFrame DEF LinkOrder

(* Close: the tables are to be cleared.                                    *)
LEMMA CloseInv ==
    ASSUME LinkInv, NEW e \in Ends, Close(e)
    PROVE  LinkOrder'
<1>i. /\ TypeOK /\ EndsShut /\ SlotsMatch /\ SlotsFreed /\ LanesKept /\ WrittenOnce
      /\ DeliveredOnce /\ AnswersFollow /\ CancelFollowsRequest /\ NoOrphans
  BY DEF LinkInv, LinkOrder
<1>e. /\ closed'[e] /\ shutting'[e] # {}
      /\ \A d \in Ends : d # e => closed'[d] = closed[d] /\ shutting'[d] = shutting[d]
      /\ UNCHANGED <<wire, broken, writer, writing, reader, held, out, urgent, events,
                     call, request, pending, answered, handler, inbound, cancelled,
                     waiter, stopOf, stops, acked, owed>>
  BY <1>i, ShutBegins DEF Close, linkVars, netVars, loopVars, callVars, handlerVars, stopVars
<1>1. EndsShut'
  BY <1>i, <1>e DEF EndsShut, Ends
<1>2. SlotsMatch'
  BY <1>i, <1>e DEF SlotsMatch, SlotsFreed, Listening, Ends
<1>3. SlotsFreed'
  BY <1>i, <1>e DEF SlotsFreed
<1>4. AnswersFollow'
  BY <1>i, <1>e DEF AnswersFollow, CancelOnItsWay, Ends
<1>5. NoOrphans'
  BY <1>i, <1>e DEF NoOrphans, AtWork, CancelOnItsWay, Ends
<1> QED
  BY <1>i, <1>e, <1>1, <1>2, <1>3, <1>4, <1>5, LanesFrame, WrittenFrame, DeliveredFrame,
     CancelFrame DEF LinkOrder

(* ShutClear: the tables are cleared; the end is closed.                   *)
LEMMA ShutClearInv ==
    ASSUME LinkInv, NEW e \in Ends, NEW task, ShutClear(e, task)
    PROVE  LinkOrder'
<1>i. /\ TypeOK /\ EndsShut /\ SlotsMatch /\ SlotsFreed /\ LanesKept /\ WrittenOnce
      /\ DeliveredOnce /\ AnswersFollow /\ CancelFollowsRequest /\ NoOrphans
  BY DEF LinkInv, LinkOrder
<1>e. /\ closed[e] /\ shutting[e] # {}
      /\ \A d \in Ends : d # e => shutting'[d] = shutting[d]
      /\ pending' \subseteq pending /\ inbound' \subseteq inbound
      /\ e # "machine" => pending' = pending
      /\ e = "machine" => pending' = {}
      /\ e # "backend" => stops' = stops
      /\ e = "backend" => \A w \in Waiters : stops'[stopOf[w]] = {}
      /\ UNCHANGED <<closed, wire, broken, writer, writing, reader, held, out, urgent,
                     events, call, request, answered, handler, waiter, stopOf, acked,
                     owed>>
  <2>1. closed[e] /\ shutting[e] # {} /\ \A d \in Ends : d # e => shutting'[d] = shutting[d]
    BY <1>i DEF ShutClear, EndsShut, TypeOK
  <2>2. \A w \in Waiters : stopOf[w] \in Stops
    BY <1>i DEF TypeOK
  <2>3. CASE e = "machine"
    BY <2>1, <2>3 DEF ShutClear, linkVars, netVars, loopVars, callVars, handlerVars, stopVars
  <2>4. CASE e = "backend"
    BY <2>1, <2>2, <2>4 DEF ShutClear, linkVars, netVars, loopVars, callVars, handlerVars, stopVars
  <2> QED
    BY <2>3, <2>4 DEF Ends
<1>1. EndsShut'
  BY <1>i, <1>e DEF EndsShut, Ends
<1>2. SlotsMatch'
  BY <1>i, <1>e DEF SlotsMatch, SlotsFreed, Listening, Ends
<1>3. SlotsFreed'
  BY <1>i, <1>e DEF SlotsFreed
<1>4. NoOrphans'
  BY <1>i, <1>e DEF NoOrphans, AtWork, CancelOnItsWay, Ends
<1> QED
  BY <1>i, <1>e, <1>1, <1>2, <1>3, <1>4, LanesFrame, WrittenFrame, DeliveredFrame,
     AnswersFrame, CancelFrame DEF LinkOrder

-----------------------------------------------------------------------------
(* The urgent lane keeps its bound, and the close flags their type.        *)
LEMMA UrgentTyped ==
    ASSUME TypeOK, NEW e \in Ends, NEW f \in Frame, send_urgent(e, f)
    PROVE  /\ closed' \in [Ends -> BOOLEAN]
           /\ shutting' \in [Ends -> SUBSET {"owner", "writer", "reader"}]
           /\ urgent' \in [Ends -> Seq(Frame)]
           /\ \A d \in Ends : Len(urgent'[d]) <= UrgentQueue
<1>1. CASE closed[e] /\ UNCHANGED <<linkVars, urgent>>
  BY <1>1 DEF TypeOK, linkVars
<1>2. CASE /\ Len(urgent[e]) < UrgentQueue /\ UNCHANGED linkVars
           /\ urgent' = [urgent EXCEPT ![e] = Append(@, f)]
  <2>1. urgent[e] \in Seq(Frame) /\ Append(urgent[e], f) \in Seq(Frame)
        /\ Len(Append(urgent[e], f)) <= UrgentQueue
    BY <1>2, LinkRpcAssumption, AppendHolds DEF TypeOK
  <2> QED
    BY <1>2, <2>1 DEF TypeOK, linkVars
<1>3. CASE ShutBegin(e, "owner") /\ UNCHANGED urgent
  BY <1>3 DEF TypeOK, ShutBegin
<1> QED
  BY <1>1, <1>2, <1>3 DEF send_urgent

(* The steps of callers keep the types, ...                                *)
LEMMA CallTypes ==
    ASSUME TypeOK, NEW c \in Calls,
           \/ CallStart(c) \/ CallStep(c) \/ GiveUp(c) \/ CallRefused(c)
    PROVE  TypeOK'
<1> USE DEF TypeOK, linkVars, netVars, loopVars, callVars, handlerVars, stopVars
<1>1. CASE CallStart(c)
  BY <1>1 DEF CallStart
<1>2. CASE CallCheck(c)
  BY <1>2, ZenonT(60) DEF CallCheck
<1>3. CASE CallFailed(c)
  BY <1>3 DEF CallFailed
<1>4. CASE CallAnswered(c)
  BY <1>4 DEF CallAnswered
<1>5. CASE GiveUp(c)
  BY <1>5 DEF GiveUp
<1>6. CASE CallRefused(c)
  BY <1>6 DEF CallRefused
<1>7. CASE CallSend(c)
  BY <1>7, FramesDiffer DEF CallSend, Queued, Ends
<1>8. CASE Abandon(c)
  <2>1. CASE call[c] = "withdrawing" /\ request[c] = "written"
    <3>1. send_urgent("machine", Cancel(c)) /\ Cancel(c) \in Frame /\ "machine" \in Ends
      BY <1>8, <2>1, FramesDiffer DEF Abandon, Ends
    <3>2. /\ closed' \in [Ends -> BOOLEAN] /\ urgent' \in [Ends -> Seq(Frame)]
          /\ shutting' \in [Ends -> SUBSET {"owner", "writer", "reader"}]
          /\ \A d \in Ends : Len(urgent'[d]) <= UrgentQueue
      BY <3>1, UrgentTyped
    <3> QED
      BY <1>8, <3>2 DEF Abandon
  <2>2. CASE ~(call[c] = "withdrawing" /\ request[c] = "written")
    BY <1>8, <2>2 DEF Abandon
  <2> QED
    BY <2>1, <2>2
<1> QED
  BY <1>1, <1>2, <1>3, <1>4, <1>5, <1>6, <1>7, <1>8 DEF CallStep

(* ... those of handlers, ...                                              *)
LEMMA HandlerTypes ==
    ASSUME TypeOK, NEW c \in Calls,
           AnswerStep(c) \/ Respond(c) \/ HandlerDrops(c)
    PROVE  TypeOK'
<1> USE DEF TypeOK, linkVars, netVars, loopVars, callVars, handlerVars, stopVars
<1>1. CASE TakeRequest(c)
  BY <1>1 DEF TakeRequest, Ends
<1>2. CASE RespondSent(c)
  BY <1>2, FramesDiffer DEF RespondSent, Queued, Ends
<1>3. CASE RespondFailed(c)
  BY <1>3 DEF RespondFailed
<1>4. CASE Respond(c)
  BY <1>4 DEF Respond
<1>5. CASE HandlerDrops(c)
  <2>1. send_urgent("backend", Response(c)) /\ Response(c) \in Frame /\ "backend" \in Ends
    BY <1>5, FramesDiffer DEF HandlerDrops, Ends
  <2>2. /\ closed' \in [Ends -> BOOLEAN] /\ urgent' \in [Ends -> Seq(Frame)]
        /\ shutting' \in [Ends -> SUBSET {"owner", "writer", "reader"}]
        /\ \A d \in Ends : Len(urgent'[d]) <= UrgentQueue
    BY <2>1, UrgentTyped
  <2> QED
    BY <1>5, <2>2 DEF HandlerDrops
<1> QED
  BY <1>1, <1>2, <1>3, <1>4, <1>5 DEF AnswerStep

(* ... those of stop callers and of the machine's stops, ...               *)
LEMMA StopTypes ==
    ASSUME TypeOK, \/ \E w \in Waiters : StopStep(w) \/ StopGivesUp(w)
           \/ \E s \in Stops : TakeStop(s) \/ AckStop(s)
    PROVE  TypeOK'
<1> USE DEF TypeOK, linkVars, netVars, loopVars, callVars, handlerVars, stopVars
<1>1. ASSUME NEW w \in Waiters, StopBegin(w) PROVE TypeOK'
  BY <1>1, FramesDiffer DEF StopBegin, StopGuard, Queued, Ends
<1>2. ASSUME NEW w \in Waiters, StopRegister(w) PROVE TypeOK'
  BY <1>2, FramesDiffer DEF StopRegister, StopGuard, Queued, Ends
<1>3. ASSUME NEW w \in Waiters, StopCheck(w) PROVE TypeOK'
  BY <1>3, FramesDiffer DEF StopCheck, StopGuard, Queued, Ends
<1>4. ASSUME NEW w \in Waiters, StopSend(w) PROVE TypeOK'
  BY <1>4, FramesDiffer, SMTT(60) DEF StopSend, StopGuard, Queued, Ends
<1>5. ASSUME NEW w \in Waiters, StopFailed(w) PROVE TypeOK'
  BY <1>5, FramesDiffer DEF StopFailed, StopGuard, Queued, Ends
<1>6. ASSUME NEW w \in Waiters, StopConfirmed(w) PROVE TypeOK'
  BY <1>6, FramesDiffer DEF StopConfirmed, StopGuard, Queued, Ends
<1>7. ASSUME NEW w \in Waiters, StopGivesUp(w) PROVE TypeOK'
  BY <1>7, FramesDiffer DEF StopGivesUp, StopGuard, Queued, Ends
<1>8. ASSUME NEW s \in Stops, TakeStop(s) PROVE TypeOK'
  BY <1>8, SMTT(60) DEF TakeStop, Ends
<1>9. ASSUME NEW s \in Stops, AckStop(s) PROVE TypeOK'
  <2>1. owed' \in [Stops -> Nat]
    BY <1>9 DEF AckStop
  <2>2. out' \in [Ends -> Seq(Frame)]
    <3>1. CASE UNCHANGED out
      BY <3>1
    <3>2. CASE Queued("machine", StopAck(s))
      BY <3>2, FramesDiffer DEF Queued, Ends
    <3> QED
      BY <1>9, <3>1, <3>2 DEF AckStop
  <2> QED
    BY <1>9, <2>1, <2>2 DEF AckStop
<1> QED
  BY <1>1, <1>2, <1>3, <1>4, <1>5, <1>6, <1>7, <1>8, <1>9 DEF StopStep

(* ... those of the writers, ...                                           *)
LEMMA WriterTypes ==
    ASSUME TypeOK, NEW e \in Ends, WriterStep(e)
    PROVE  TypeOK'
<1> USE DEF TypeOK, linkVars, netVars, loopVars, callVars, handlerVars, stopVars
<1>1. CASE TakeUrgent(e)
  BY <1>1, LinkRpcAssumption DEF TakeUrgent
<1>2. CASE TakeOut(e)
  <2>1. out[e] \in Seq(Frame) /\ out[e] # <<>> /\ out' = [out EXCEPT ![e] = Tail(@)]
    BY <1>2 DEF TakeOut
  <2>2. Head(out[e]) \in Frame /\ out' \in [Ends -> Seq(Frame)]
    BY <2>1
  <2> DEFINE f == Head(out[e])
  <2>3. /\ writing' = [writing EXCEPT ![e] = f] \/ writing' = writing
        /\ request' = [request EXCEPT ![f.id] = "written"] \/ request' = request
    BY <1>2 DEF TakeOut
  <2>4. writing' \in [Ends -> Frame \cup {None}]
    BY <2>2, <2>3, ZenonT(60)
  <2>5. request' \in [Calls -> {"queued", "written", "abandoned"}]
    BY <2>3, ZenonT(60)
  <2> QED
    BY <1>2, <2>2, <2>4, <2>5 DEF TakeOut
<1>3. CASE WriteFrame(e)
  BY <1>3 DEF WriteFrame
<1>4. CASE WriterStops(e)
  BY <1>4 DEF WriterStops, ShutBegin
<1>5. CASE WriterEnds(e)
  BY <1>5, LinkRpcAssumption DEF WriterEnds
<1> QED
  BY <1>1, <1>2, <1>3, <1>4, <1>5 DEF WriterStep

(* ... and those of the readers.                                           *)
LEMMA ReaderTypes ==
    ASSUME TypeOK, NEW e \in Ends, ReaderStep(e)
    PROVE  TypeOK'
<1> USE DEF TypeOK, linkVars, netVars, loopVars, callVars, handlerVars, stopVars
<1>1. \A d \in Ends : \A kind : Reads(d, kind) => /\ Arrived(d) \in Frame /\ Arrived(d).kind = kind
                                                  /\ wire' \in [Ends -> Seq(Frame)]
  BY DEF Reads, Arrived, Peer, Ends
<1>2. "machine" \in Ends /\ "backend" \in Ends
  BY DEF Ends
<1>3. CASE RouteResponse
  BY <1>1, <1>2, <1>3 DEF RouteResponse
<1>4. CASE RouteStop
  BY <1>1, <1>2, <1>4 DEF RouteStop
<1>5. CASE RouteStopAck
  <2>1. Arrived("backend").id \in Stops /\ wire' \in [Ends -> Seq(Frame)]
    BY <1>1, <1>2, <1>5, FrameOfKind DEF RouteStopAck
  <2> QED
    BY <1>5, <2>1 DEF RouteStopAck
<1>6. CASE RouteCancel
  BY <1>1, <1>2, <1>6 DEF RouteCancel
<1>7. CASE RouteRequest
  <2>1. /\ Arrived("backend") \in Frame /\ Arrived("backend").id \in Calls
        /\ wire' \in [Ends -> Seq(Frame)]
    BY <1>1, <1>2, <1>7, FrameOfKind DEF RouteRequest
  <2> QED
    BY <1>2, <1>7, <2>1 DEF RouteRequest
<1>8. CASE Deliver(e)
  BY <1>8 DEF Deliver
<1>9. CASE ReaderStops(e)
  BY <1>9 DEF ReaderStops, ShutBegin
<1> QED
  BY <1>3, <1>4, <1>5, <1>6, <1>7, <1>8, <1>9 DEF ReaderStep, Route

(* Every step keeps the types, and a queue its bound.                      *)
LEMMA TypeNext == TypeOK /\ [Next]_vars => TypeOK'
<1> SUFFICES ASSUME TypeOK, [Next]_vars PROVE TypeOK'
  OBVIOUS
<1>1. ASSUME NEW e \in Ends, Close(e) PROVE TypeOK'
  BY <1>1 DEF Close, ShutBegin, TypeOK, linkVars, netVars, loopVars, callVars, handlerVars, stopVars
<1>2. ASSUME NEW e \in Ends, NEW task, ShutClear(e, task) PROVE TypeOK'
  BY <1>2 DEF ShutClear, TypeOK, linkVars, netVars, loopVars, callVars, handlerVars, stopVars
<1>3. CASE Break
  BY <1>3 DEF Break, TypeOK, linkVars, netVars, loopVars, callVars, handlerVars, stopVars
<1>4. CASE UNCHANGED vars
  BY <1>4 DEF vars, TypeOK, linkVars, netVars, loopVars, callVars, handlerVars, stopVars
<1> QED
  BY <1>1, <1>2, <1>3, <1>4, CallTypes, HandlerTypes, StopTypes, WriterTypes, ReaderTypes
     DEF Next

-----------------------------------------------------------------------------
(* The link starts in LinkInv, ...                                         *)
LEMMA InitLinkInv == Init => LinkInv
<1> SUFFICES ASSUME Init PROVE LinkInv
  OBVIOUS
<1>1. TypeOK
  <2>1. \A e \in Ends : urgent[e] = <<>>
    BY DEF Init
  <2>2. \A e \in Ends : Len(urgent[e]) <= UrgentQueue
    BY <2>1, LinkRpcAssumption
  <2>3. closed \in [Ends -> BOOLEAN] /\ broken \in BOOLEAN
    BY DEF Init
  <2>4. stops \in [Stops -> SUBSET Waiters] /\ owed \in [Stops -> Nat]
    BY DEF Init
  <2>5. /\ out \in [Ends -> Seq(Frame)] /\ urgent \in [Ends -> Seq(Frame)]
        /\ events \in [Ends -> Seq(Frame)] /\ wire \in [Ends -> Seq(Frame)]
    BY DEF Init
  <2>6. /\ shutting \in [Ends -> SUBSET {"owner", "writer", "reader"}]
        /\ writer \in [Ends -> {"loop", "closing", "ended"}]
        /\ reader \in [Ends -> {"loop", "ended"}]
        /\ writing \in [Ends -> Frame \cup {None}] /\ held \in [Ends -> Frame \cup {None}]
    BY DEF Init
  <2> QED
    BY <2>2, <2>3, <2>4, <2>5, <2>6 DEF Init, TypeOK
<1>2. /\ closed["machine"] = FALSE /\ closed["backend"] = FALSE
      /\ \A e \in Ends : /\ shutting[e] = {} /\ writer[e] = "loop" /\ writing[e] = None
                         /\ held[e] = None /\ out[e] = <<>> /\ urgent[e] = <<>>
                         /\ events[e] = <<>> /\ wire[e] = <<>>
      /\ pending = {} /\ answered = {} /\ inbound = {} /\ "machine" \in Ends
      /\ \A c \in Calls : call[c] = "idle" /\ request[c] = "queued" /\ handler[c] = "none"
      /\ \A w \in Waiters : waiter[w] = "idle"
      /\ "backend" \in Ends
  BY DEF Init, Ends
<1>3. EndsShut /\ SlotsFreed
  BY <1>2 DEF EndsShut, SlotsFreed
<1>4. SlotsMatch
  BY <1>2 DEF SlotsMatch, Listening
<1>5. LanesKept /\ WrittenOnce /\ DeliveredOnce
  BY <1>2, EmptyHolds, FramesDiffer DEF LanesKept, WrittenOnce, DeliveredOnce
<1>6. AnswersFollow /\ NoOrphans
  BY <1>2, EmptyHolds, FramesDiffer DEF AnswersFollow, NoOrphans, CancelOnItsWay
<1>7. CancelFollowsRequest
  BY <1>2 DEF CancelFollowsRequest
<1> QED
  BY <1>1, <1>3, <1>4, <1>5, <1>6, <1>7 DEF LinkInv, LinkOrder

(* ... and no step leaves it.                                              *)
LEMMA LinkInvNext == LinkInv /\ [Next]_vars => LinkInv'
<1> SUFFICES ASSUME LinkInv, [Next]_vars PROVE LinkInv'
  OBVIOUS
<1>1. TypeOK'
  BY TypeNext DEF LinkInv
<1>2. CASE UNCHANGED vars
  <2>1. /\ UNCHANGED <<closed, shutting, wire, broken, writer, writing, reader, held, out,
                     urgent, events, call, request, pending, answered, handler, inbound,
                     cancelled, waiter, stopOf, stops, acked, owed>>
    BY <1>2 DEF vars, linkVars, netVars, loopVars, callVars, handlerVars, stopVars
  <2> QED
    BY <1>1, <2>1, EndsFrame, SlotsFrame, LanesFrame, WrittenFrame, DeliveredFrame, AnswersFrame,
       CancelFrame, OrphansFrame DEF LinkInv, LinkOrder
<1>3. ASSUME NEW c \in Calls, CallStart(c) \/ CallStep(c) \/ GiveUp(c) \/ CallRefused(c)
      PROVE  LinkOrder'
  BY <1>3, CallStartInv, CallCheckInv, CallSendInv, CallFailedInv, CallAnsweredInv, GiveUpInv,
     AbandonInv DEF CallStep
<1>4. ASSUME NEW c \in Calls, AnswerStep(c) \/ Respond(c) \/ HandlerDrops(c)
      PROVE  LinkOrder'
  BY <1>4, TakeRequestInv, RespondSentInv, RespondFailedInv, RespondInv, HandlerDropsInv
     DEF AnswerStep
<1>5. ASSUME NEW w \in Waiters, StopStep(w) \/ StopGivesUp(w)
      PROVE  LinkOrder'
  BY <1>5, StopChecksInv, StopRegisterInv, StopSendInv, StopEndsInv DEF StopStep
<1>6. ASSUME NEW s \in Stops, TakeStop(s) \/ AckStop(s)
      PROVE  LinkOrder'
  BY <1>6, TakeStopInv, AckStopInv
<1>7. ASSUME NEW e \in Ends, WriterStep(e) \/ ReaderStep(e) \/ Close(e)
      PROVE  LinkOrder'
  BY <1>7, TakeUrgentInv, TakeOutInv, WriteFrameInv, WriterStopsInv, WriterEndsInv,
     RouteResponseInv, RouteStopInv, RouteStopAckInv, RouteCancelInv, RouteRequestInv,
     DeliverInv, ReaderStopsInv, CloseInv DEF WriterStep, ReaderStep, Route
<1>8. ASSUME NEW e \in Ends, NEW task, ShutClear(e, task)
      PROVE  LinkOrder'
  BY <1>8, ShutClearInv
<1> QED
  BY <1>1, <1>2, <1>3, <1>4, <1>5, <1>6, <1>7, <1>8, TakeStopInv DEF Next, LinkInv

-----------------------------------------------------------------------------
(* LinkInv holds in every reachable state, whatever the calls, the stops   *)
(* and the sizes of the queues.                                            *)
THEOREM LinkInvariant == Spec => []LinkInv
<1>1. Init => LinkInv
  BY InitLinkInv
<1>2. LinkInv /\ [Next]_vars => LinkInv'
  BY LinkInvNext
<1> QED
  BY <1>1, <1>2, PTL DEF Spec

(* No task finds a frame in its hands that it cannot route, and the urgent *)
(* lane never takes more than it has room for: a link that has no room for *)
(* a cancellation closes.                                                  *)
THEOREM LinkTypes == Spec => []TypeOK
<1>1. LinkInv => TypeOK
  BY DEF LinkInv
<1> QED
  BY <1>1, LinkInvariant, PTL

(* A cancellation reaches the backend after its request: although it takes *)
(* the lane that overtakes, nobody sends one before the request has left.  *)
THEOREM CancelsFollowRequests == Spec => []CancelFollowsRequest
<1>1. LinkInv => CancelFollowsRequest
  BY DEF LinkInv, LinkOrder
<1> QED
  BY <1>1, LinkInvariant, PTL

(* A caller that gave up leaves no work behind on an open link, whichever  *)
(* way it lost its slot.                                                   *)
THEOREM NothingOrphaned == Spec => []NoOrphans
<1>1. LinkInv => NoOrphans
  BY DEF LinkInv, LinkOrder
<1> QED
  BY <1>1, LinkInvariant, PTL

(* Nobody waits without a slot, an ended call leaves none behind, and a    *)
(* closed link whose tables were cleared strands nobody.                   *)
THEOREM EverySlotMatches == Spec => []SlotsMatch
<1>1. LinkInv => SlotsMatch
  BY DEF LinkInv, LinkOrder
<1> QED
  BY <1>1, LinkInvariant, PTL
=============================================================================
