------------------------------ MODULE LinkRpc ------------------------------
(***************************************************************************)
(* One established link between a machine and its backend                  *)
(* (crates/intent-transport/src/node_link/link.rs): its writer and reader  *)
(* tasks, the calls of the machine's agents, which the backend answers,    *)
(* and the backend's stops, which the machine acknowledges.                *)
(*                                                                         *)
(* Both ends run the same code.  Only the machine calls and only the       *)
(* backend stops, so `pending' is kept for the machine, `inbound' and      *)
(* `stops' for the backend.                                                *)
(*                                                                         *)
(* What is abstracted:                                                     *)
(*  - the other frames (journal, secrets, capabilities), which take the    *)
(*    same lanes, and the script lane, which comes last;                   *)
(*  - heartbeats: a link found silent is closed like one its owner closes; *)
(*  - request ids are fresh (UUIDs), and an acknowledgement names the      *)
(*    agent of the stop it answers;                                        *)
(*  - the owner of a link takes its events while the link is open.         *)
(***************************************************************************)
EXTENDS Integers, Sequences

CONSTANTS Calls,         \* calls the machine's agents make
          BigAnswers,    \* whether an outcome may not fit a frame
          Waiters,       \* callers of NodeLink::stop on the backend
          Stops,         \* their stop ids
          OutQueue,      \* Tuning::outbound_queue
          UrgentQueue,   \* URGENT_QUEUE
          EventQueue,    \* Tuning::event_queue
          WireRoom,      \* frames the network holds before a send blocks
          None           \* no frame

ASSUME LinkRpcAssumption ==
    /\ BigAnswers \in BOOLEAN
    /\ OutQueue \in Nat \ {0} /\ UrgentQueue \in Nat \ {0}
    /\ EventQueue \in Nat \ {0} /\ WireRoom \in Nat \ {0}

Ends == {"machine", "backend"}
Peer(e) == IF e = "machine" THEN "backend" ELSE "machine"

Request(c)  == [kind |-> "request",  id |-> c]
Cancel(c)   == [kind |-> "cancel",   id |-> c]
Response(c) == [kind |-> "response", id |-> c]
Stop(s)     == [kind |-> "stop",     id |-> s]
StopAck(s)  == [kind |-> "stopAck",  id |-> s]

Frame == [kind : {"request", "cancel", "response"}, id : Calls]
           \cup [kind : {"stop", "stopAck"}, id : Stops]

ASSUME NoneAssumption == None \notin Frame

VARIABLES
  closed,     \* each end's close flag
  shutting,   \* each end: tasks in `shut' that have not cleared the tables yet
  writer,     \* each end's write_loop: "loop", "closing" or "ended"
  writing,    \* the frame it is handing to the network
  reader,     \* each end's read_loop: "loop" or "ended"
  held,       \* the frame it waits to put in the owner's events
  out, urgent,  \* each end's outbound queues
  events,     \* each end's queue of events to its owner
  wire,       \* frames each end sent that the other has not read
  broken,     \* the network gave up the connection
  call,       \* where each call stands
  request,    \* its request: "queued", "written" or "abandoned"
  pending,    \* calls with a slot in `pending'
  answered,   \* calls whose slot received an outcome they have not read
  handler,    \* where the backend stands with each request
  inbound,    \* requests with a slot in `inbound'
  cancelled,  \* requests under way whose handler may see a cancellation
  waiter,     \* where each stop caller stands
  stopOf,     \* the stop id it waits for
  stops,      \* the waiters registered under each stop id
  acked,      \* waiters that received an acknowledgement
  owed        \* stops the machine took and has not acknowledged, per id

linkVars    == <<closed, shutting>>
netVars     == <<wire, broken>>
loopVars    == <<writer, writing, reader, held>>
callVars    == <<call, request, pending, answered>>
handlerVars == <<handler, inbound, cancelled>>
stopVars    == <<waiter, stopOf, stops, acked, owed>>
vars == <<linkVars, netVars, loopVars, out, urgent, events, callVars, handlerVars, stopVars>>

Init ==
    /\ closed = [e \in Ends |-> FALSE] /\ shutting = [e \in Ends |-> {}]
    /\ writer = [e \in Ends |-> "loop"] /\ writing = [e \in Ends |-> None]
    /\ reader = [e \in Ends |-> "loop"] /\ held = [e \in Ends |-> None]
    /\ out = [e \in Ends |-> <<>>] /\ urgent = [e \in Ends |-> <<>>]
    /\ events = [e \in Ends |-> <<>>]
    /\ wire = [e \in Ends |-> <<>>] /\ broken = FALSE
    /\ call = [c \in Calls |-> "idle"] /\ request = [c \in Calls |-> "queued"]
    /\ pending = {} /\ answered = {}
    /\ handler = [c \in Calls |-> "none"] /\ inbound = {} /\ cancelled = {}
    /\ waiter = [w \in Waiters |-> "idle"] /\ stopOf \in [Waiters -> Stops]
    /\ stops = [s \in Stops |-> {}] /\ acked = {} /\ owed = [s \in Stops |-> 0]

-----------------------------------------------------------------------------
(***************************************************************************)
(* Closing.  Inner::shut raises the flag, then clears the tables.          *)
(***************************************************************************)
ShutBegin(e, task) ==
    /\ closed' = [closed EXCEPT ![e] = TRUE]
    /\ shutting' = [shutting EXCEPT ![e] = @ \cup {task}]

ShutClear(e, task) ==
    /\ task \in shutting[e]
    /\ shutting' = [shutting EXCEPT ![e] = @ \ {task}]
    /\ IF e = "machine"
       THEN pending' = {} /\ UNCHANGED <<stops, inbound, cancelled>>
       ELSE /\ stops' = [s \in Stops |-> {}]
            /\ cancelled' = cancelled \cup inbound
            /\ inbound' = {}
            /\ UNCHANGED pending
    /\ UNCHANGED <<closed, netVars, loopVars, out, urgent, events, call, request, answered,
                   handler, waiter, stopOf, acked, owed>>

(* NodeLink::close, or the heartbeat task of a silent link.                *)
Close(e) ==
    /\ ~closed[e]
    /\ ShutBegin(e, "owner")
    /\ UNCHANGED <<netVars, loopVars, out, urgent, events, callVars, handlerVars, stopVars>>

Break ==
    /\ ~broken
    /\ broken' = TRUE
    /\ UNCHANGED <<linkVars, wire, loopVars, out, urgent, events, callVars, handlerVars, stopVars>>

(* Error to rule out: the urgent queue takes more than it has room for *)
send_urgentUnbounded(e, frame) ==
    \/ /\ closed[e]
       /\ UNCHANGED <<linkVars, urgent>>
    \/ /\ ~closed[e]
       /\ urgent' = [urgent EXCEPT ![e] = Append(@, frame)]
       /\ UNCHANGED linkVars

(* A cancellation or a dropped request's reply: lost on a closed link, and *)
(* closing the link when the urgent queue is full.                         *)
send_urgent(e, frame) ==
    \/ /\ closed[e]
       /\ UNCHANGED <<linkVars, urgent>>
    \/ /\ ~closed[e] /\ Len(urgent[e]) < UrgentQueue
       /\ urgent' = [urgent EXCEPT ![e] = Append(@, frame)]
       /\ UNCHANGED linkVars
    \/ /\ ~closed[e] /\ Len(urgent[e]) = UrgentQueue
       /\ ShutBegin(e, "owner")
       /\ UNCHANGED urgent

(* send_any once it has seen the link open: its frame is queued, on a link *)
(* that closes meanwhile perhaps too.                                      *)
Queued(e, frame) ==
    /\ writer[e] # "ended"
    /\ Len(out[e]) < OutQueue
    /\ out' = [out EXCEPT ![e] = Append(@, frame)]

-----------------------------------------------------------------------------
(***************************************************************************)
(* NodeLink::call, on the machine.                                         *)
(***************************************************************************)
CallStart(c) ==
    /\ call[c] = "idle"
    /\ call' = [call EXCEPT ![c] = "registered"]
    /\ pending' = pending \cup {c}
    /\ UNCHANGED <<linkVars, netVars, loopVars, out, urgent, events, request, answered, handlerVars, stopVars>>

(* Error to rule out: the link is not looked at again once registered *)
CallCheckSkipped(c) ==
    /\ call[c] = "registered"
    /\ call' = [call EXCEPT ![c] = "sending"]
    /\ UNCHANGED <<linkVars, netVars, loopVars, out, urgent, events, request, pending, answered, handlerVars, stopVars>>

(* Error to rule out: a call that finds the link closed leaves its slot *)
CallCheckLeaks(c) ==
    /\ call[c] = "registered"
    /\ call' = [call EXCEPT ![c] = IF closed["machine"] THEN "failed" ELSE "sending"]
    /\ UNCHANGED <<linkVars, netVars, loopVars, out, urgent, events, request, pending, answered, handlerVars, stopVars>>

CallCheck(c) ==
    /\ call[c] = "registered"
    /\ IF closed["machine"]
       THEN /\ call' = [call EXCEPT ![c] = "failed"]
            /\ pending' = pending \ {c}
       ELSE /\ call' = [call EXCEPT ![c] = "sending"]
            /\ UNCHANGED pending
    /\ UNCHANGED <<linkVars, netVars, loopVars, out, urgent, events, request, answered, handlerVars, stopVars>>

CallSend(c) ==
    /\ call[c] = "sending"
    /\ Queued("machine", Request(c))
    /\ call' = [call EXCEPT ![c] = "waiting"]
    /\ UNCHANGED <<linkVars, netVars, loopVars, urgent, events, request, pending, answered, handlerVars, stopVars>>

(* The link closed before the request was queued, or cleared its slot.     *)
CallFailed(c) ==
    /\ \/ call[c] = "sending" /\ closed["machine"]
       \/ call[c] = "waiting" /\ c \notin pending \cup answered
    /\ call' = [call EXCEPT ![c] = "failed"]
    /\ pending' = pending \ {c}
    /\ UNCHANGED <<linkVars, netVars, loopVars, out, urgent, events, request, answered, handlerVars, stopVars>>

CallAnswered(c) ==
    /\ call[c] = "waiting" /\ c \in answered
    /\ call' = [call EXCEPT ![c] = "done"]
    /\ answered' = answered \ {c}
    /\ UNCHANGED <<linkVars, netVars, loopVars, out, urgent, events, request, pending, handlerVars, stopVars>>

(* The caller times out or goes away: CallGuard::drop takes the slot,      *)
GiveUp(c) ==
    /\ call[c] \in {"sending", "waiting"}
    /\ call' = [call EXCEPT ![c] = IF c \in pending THEN "withdrawing" ELSE "dropping"]
    /\ pending' = pending \ {c}
    /\ answered' = answered \ {c}
    /\ UNCHANGED <<linkVars, netVars, loopVars, out, urgent, events, request, handlerVars, stopVars>>

(* Error to rule out: the cancellation does not ask whether the request was written *)
AbandonAlways(c) ==
    /\ call[c] \in {"withdrawing", "dropping"}
    /\ request' = [request EXCEPT ![c] = IF @ = "queued" THEN "abandoned" ELSE @]
    /\ call' = [call EXCEPT ![c] = "gaveUp"]
    /\ IF call[c] = "withdrawing"
       THEN send_urgent("machine", Cancel(c))
       ELSE UNCHANGED <<linkVars, urgent>>
    /\ UNCHANGED <<netVars, loopVars, out, events, pending, answered, handlerVars, stopVars>>

(* Error to rule out: a request given up in the queue is still written *)
AbandonUnmarked(c) ==
    /\ call[c] \in {"withdrawing", "dropping"}
    /\ call' = [call EXCEPT ![c] = "gaveUp"]
    /\ IF call[c] = "withdrawing" /\ request[c] = "written"
       THEN send_urgent("machine", Cancel(c))
       ELSE UNCHANGED <<linkVars, urgent>>
    /\ UNCHANGED <<netVars, loopVars, out, events, request, pending, answered, handlerVars, stopVars>>

(* then keeps a queued request from being written, or cancels one that was *)
(* written and not answered.                                               *)
Abandon(c) ==
    /\ call[c] \in {"withdrawing", "dropping"}
    /\ request' = [request EXCEPT ![c] = IF @ = "queued" THEN "abandoned" ELSE @]
    /\ call' = [call EXCEPT ![c] = "gaveUp"]
    /\ IF call[c] = "withdrawing" /\ request[c] = "written"
       THEN send_urgent("machine", Cancel(c))
       ELSE UNCHANGED <<linkVars, urgent>>
    /\ UNCHANGED <<netVars, loopVars, out, events, pending, answered, handlerVars, stopVars>>

(* A request too large for a frame fails at once.                          *)
CallRefused(c) ==
    /\ call[c] = "sending"
    /\ call' = [call EXCEPT ![c] = "failed"]
    /\ pending' = pending \ {c}
    /\ UNCHANGED <<linkVars, netVars, loopVars, out, urgent, events, request, answered, handlerVars, stopVars>>

-----------------------------------------------------------------------------
(***************************************************************************)
(* The backend's handler of a request.                                     *)
(***************************************************************************)
TakeRequest(c) ==
    /\ events["backend"] # <<>> /\ Head(events["backend"]) = Request(c)
    /\ events' = [events EXCEPT !["backend"] = Tail(@)]
    /\ handler' = [handler EXCEPT ![c] = "handling"]
    /\ UNCHANGED <<linkVars, netVars, loopVars, out, urgent, callVars, inbound, cancelled, stopVars>>

(* IncomingRequest::respond: from here the request counts as answered.     *)
Respond(c) ==
    /\ handler[c] = "handling"
    /\ handler' = [handler EXCEPT ![c] = "answering"]
    /\ inbound' = inbound \ {c}
    /\ cancelled' = cancelled \ {c}
    /\ UNCHANGED <<linkVars, netVars, loopVars, out, urgent, events, callVars, stopVars>>

RespondSent(c) ==
    /\ handler[c] = "answering"
    /\ Queued("backend", Response(c))
    /\ handler' = [handler EXCEPT ![c] = "over"]
    /\ UNCHANGED <<linkVars, netVars, loopVars, urgent, events, callVars, inbound, cancelled, stopVars>>

(* The outcome cannot be sent; the handler ignores the error.              *)
RespondFailed(c) ==
    /\ handler[c] = "answering"
    /\ closed["backend"] \/ BigAnswers
    /\ handler' = [handler EXCEPT ![c] = "over"]
    /\ UNCHANGED <<linkVars, netVars, loopVars, out, urgent, events, callVars, inbound, cancelled, stopVars>>

(* The handler ends without an outcome, because it saw the cancellation or *)
(* failed: the request is dropped, which answers it with an error.         *)
HandlerDrops(c) ==
    /\ handler[c] = "handling"
    /\ handler' = [handler EXCEPT ![c] = "over"]
    /\ inbound' = inbound \ {c}
    /\ cancelled' = cancelled \ {c}
    /\ send_urgent("backend", Response(c))
    /\ UNCHANGED <<netVars, loopVars, out, events, callVars, stopVars>>

-----------------------------------------------------------------------------
(***************************************************************************)
(* NodeLink::stop_with, on the backend, and the machine's answer.          *)
(***************************************************************************)
Listening(w) == waiter[w] \in {"registered", "sending", "waiting"}

(* Error to rule out: one caller that gives up takes the others with it *)
StopGuardAll(w) == stops' = [stops EXCEPT ![stopOf[w]] = {}]

(* StopGuard::drop: w and the callers that went away leave the table.      *)
StopGuard(w) ==
    stops' = [stops EXCEPT ![stopOf[w]] = {v \in @ : v # w /\ Listening(v)}]

StopBegin(w) ==
    /\ waiter[w] = "idle"
    /\ waiter' = [waiter EXCEPT ![w] = IF closed["backend"] THEN "failed" ELSE "checked"]
    /\ UNCHANGED <<linkVars, netVars, loopVars, out, urgent, events, callVars, handlerVars,
                   stopOf, stops, acked, owed>>

StopRegister(w) ==
    /\ waiter[w] = "checked"
    /\ waiter' = [waiter EXCEPT ![w] = "registered"]
    /\ stops' = [stops EXCEPT ![stopOf[w]] = @ \cup {w}]
    /\ UNCHANGED <<linkVars, netVars, loopVars, out, urgent, events, callVars, handlerVars,
                   stopOf, acked, owed>>

(* The link is looked at again, here and by send_any.  The guard then runs *)
(* while the receiver still lives, so the waiter stays in the table of the *)
(* closed link.                                                            *)
StopCheck(w) ==
    /\ waiter[w] = "registered"
    /\ waiter' = [waiter EXCEPT ![w] = IF closed["backend"] THEN "failed" ELSE "sending"]
    /\ UNCHANGED <<linkVars, netVars, loopVars, out, urgent, events, callVars, handlerVars,
                   stopOf, stops, acked, owed>>

StopSend(w) ==
    /\ waiter[w] = "sending"
    /\ Queued("backend", Stop(stopOf[w]))
    /\ waiter' = [waiter EXCEPT ![w] = "waiting"]
    /\ UNCHANGED <<linkVars, netVars, loopVars, urgent, events, callVars, handlerVars,
                   stopOf, stops, acked, owed>>

StopFailed(w) ==
    /\ \/ waiter[w] = "sending" /\ closed["backend"]
       \/ waiter[w] = "waiting" /\ w \notin stops[stopOf[w]] \cup acked
    /\ waiter' = [waiter EXCEPT ![w] = "failed"]
    /\ StopGuard(w)
    /\ UNCHANGED <<linkVars, netVars, loopVars, out, urgent, events, callVars, handlerVars,
                   stopOf, acked, owed>>

StopConfirmed(w) ==
    /\ waiter[w] = "waiting" /\ w \in acked
    /\ waiter' = [waiter EXCEPT ![w] = "done"]
    /\ StopGuard(w)
    /\ UNCHANGED <<linkVars, netVars, loopVars, out, urgent, events, callVars, handlerVars,
                   stopOf, acked, owed>>

StopGivesUp(w) ==
    /\ waiter[w] \in {"sending", "waiting"}
    /\ waiter' = [waiter EXCEPT ![w] = "gaveUp"]
    /\ StopGuard(w)
    /\ UNCHANGED <<linkVars, netVars, loopVars, out, urgent, events, callVars, handlerVars,
                   stopOf, acked, owed>>

(* The machine's session applies a stop; a task of its own acknowledges it *)
(* when the agent has stopped, unless it has nothing to say.               *)
TakeStop(s) ==
    /\ events["machine"] # <<>> /\ Head(events["machine"]) = Stop(s)
    /\ events' = [events EXCEPT !["machine"] = Tail(@)]
    /\ owed' = [owed EXCEPT ![s] = @ + 1]
    /\ UNCHANGED <<linkVars, netVars, loopVars, out, urgent, callVars, handlerVars,
                   waiter, stopOf, stops, acked>>

AckStop(s) ==
    /\ owed[s] > 0
    /\ owed' = [owed EXCEPT ![s] = @ - 1]
    /\ \/ Queued("machine", StopAck(s))
       \/ UNCHANGED out
    /\ UNCHANGED <<linkVars, netVars, loopVars, urgent, events, callVars, handlerVars,
                   waiter, stopOf, stops, acked>>

-----------------------------------------------------------------------------
(***************************************************************************)
(* write_loop.                                                             *)
(***************************************************************************)
TakeUrgent(e) ==
    /\ writer[e] = "loop" /\ writing[e] = None /\ ~closed[e]
    /\ urgent[e] # <<>>
    /\ writing' = [writing EXCEPT ![e] = Head(urgent[e])]
    /\ urgent' = [urgent EXCEPT ![e] = Tail(@)]
    /\ UNCHANGED <<linkVars, netVars, writer, reader, held, out, events, callVars, handlerVars, stopVars>>

(* A request is marked as written before it is, unless it was abandoned.   *)
TakeOut(e) ==
    /\ writer[e] = "loop" /\ writing[e] = None /\ ~closed[e]
    /\ urgent[e] = <<>> /\ out[e] # <<>>
    /\ out' = [out EXCEPT ![e] = Tail(@)]
    /\ LET frame == Head(out[e]) IN
         IF frame.kind = "request"
         THEN IF request[frame.id] = "queued"
              THEN /\ request' = [request EXCEPT ![frame.id] = "written"]
                   /\ writing' = [writing EXCEPT ![e] = frame]
              ELSE UNCHANGED <<request, writing>>
         ELSE writing' = [writing EXCEPT ![e] = frame] /\ UNCHANGED request
    /\ UNCHANGED <<linkVars, netVars, writer, reader, held, urgent, events,
                   call, pending, answered, handlerVars, stopVars>>

WriteFrame(e) ==
    /\ writing[e] # None /\ ~broken
    /\ Len(wire[e]) < WireRoom
    /\ wire' = [wire EXCEPT ![e] = Append(@, writing[e])]
    /\ writing' = [writing EXCEPT ![e] = None]
    /\ UNCHANGED <<linkVars, broken, writer, reader, held, out, urgent, events, callVars, handlerVars, stopVars>>

(* The link closed, also while a frame is being sent, or a send failed.    *)
WriterStops(e) ==
    /\ writer[e] = "loop"
    /\ closed[e] \/ (broken /\ writing[e] # None)
    /\ writer' = [writer EXCEPT ![e] = "closing"]
    /\ writing' = [writing EXCEPT ![e] = None]
    /\ ShutBegin(e, "writer")
    /\ UNCHANGED <<netVars, reader, held, out, urgent, events, callVars, handlerVars, stopVars>>

(* The close frame is sent, or given up after its time limit; the queues   *)
(* go with the task.                                                       *)
WriterEnds(e) ==
    /\ writer[e] = "closing" /\ "writer" \notin shutting[e]
    /\ writer' = [writer EXCEPT ![e] = "ended"]
    /\ out' = [out EXCEPT ![e] = <<>>]
    /\ urgent' = [urgent EXCEPT ![e] = <<>>]
    /\ UNCHANGED <<linkVars, netVars, writing, reader, held, events, callVars, handlerVars, stopVars>>

-----------------------------------------------------------------------------
(***************************************************************************)
(* read_loop and route.                                                    *)
(***************************************************************************)
Arrived(e) == IF wire[Peer(e)] = <<>> THEN None ELSE Head(wire[Peer(e)])

Reads(e, kind) ==
    /\ reader[e] = "loop" /\ held[e] = None /\ ~broken
    /\ Arrived(e) # None /\ Arrived(e).kind = kind
    /\ wire' = [wire EXCEPT ![Peer(e)] = Tail(@)]

RouteResponse ==
    /\ Reads("machine", "response")
    /\ LET c == Arrived("machine").id IN
         /\ pending' = pending \ {c}
         /\ answered' = answered \cup ({c} \cap pending)
    /\ UNCHANGED <<linkVars, broken, loopVars, out, urgent, events, call, request, handlerVars, stopVars>>

(* Every caller waiting on the id resolves.                                *)
RouteStopAck ==
    /\ Reads("backend", "stopAck")
    /\ LET s == Arrived("backend").id IN
         /\ acked' = acked \cup stops[s]
         /\ stops' = [stops EXCEPT ![s] = {}]
    /\ UNCHANGED <<linkVars, broken, loopVars, out, urgent, events, callVars, handlerVars,
                   waiter, stopOf, owed>>

RouteCancel ==
    /\ Reads("backend", "cancel")
    /\ LET c == Arrived("backend").id IN
         /\ inbound' = inbound \ {c}
         /\ cancelled' = cancelled \cup ({c} \cap inbound)
    /\ UNCHANGED <<linkVars, broken, loopVars, out, urgent, events, callVars, handler, stopVars>>

RouteRequest ==
    /\ Reads("backend", "request")
    /\ LET frame == Arrived("backend") IN
         /\ inbound' = inbound \cup {frame.id}
         /\ handler' = [handler EXCEPT ![frame.id] = "queued"]
         /\ held' = [held EXCEPT !["backend"] = frame]
    /\ UNCHANGED <<linkVars, broken, writer, writing, reader, out, urgent, events, callVars, cancelled, stopVars>>

RouteStop ==
    /\ Reads("machine", "stop")
    /\ held' = [held EXCEPT !["machine"] = Arrived("machine")]
    /\ UNCHANGED <<linkVars, broken, writer, writing, reader, out, urgent, events, callVars, handlerVars, stopVars>>

(* There is room in the owner's events.                                    *)
Deliver(e) ==
    /\ held[e] # None
    /\ Len(events[e]) < EventQueue
    /\ events' = [events EXCEPT ![e] = Append(@, held[e])]
    /\ held' = [held EXCEPT ![e] = None]
    /\ UNCHANGED <<linkVars, netVars, writer, writing, reader, out, urgent, callVars, handlerVars, stopVars>>

(* Error to rule out: the reader that ends leaves the tables to others *)
ReaderStopsQuietly(e) ==
    /\ reader[e] = "loop"
    /\ \/ closed[e]
       \/ held[e] = None /\ broken
       \/ held[e] = None /\ wire[Peer(e)] = <<>> /\ writer[Peer(e)] = "ended"
    /\ reader' = [reader EXCEPT ![e] = "ended"]
    /\ held' = [held EXCEPT ![e] = None]
    /\ LET gone == {c \in Calls : held[e] = Request(c)} IN
         /\ inbound' = inbound \ gone
         /\ cancelled' = cancelled \ gone
         /\ handler' = [c \in Calls |-> IF c \in gone THEN "over" ELSE handler[c]]
    /\ IF closed[e] THEN UNCHANGED linkVars ELSE ShutBegin(e, "reader")
    /\ UNCHANGED <<netVars, writer, writing, out, urgent, events, callVars, stopVars>>

(* The link closed, also while the owner's events are full, the connection *)
(* failed, or the peer's last frame was read.  A request not yet delivered *)
(* is dropped; the link being closed, its reply is not sent.               *)
ReaderStops(e) ==
    /\ reader[e] = "loop"
    /\ \/ closed[e]
       \/ held[e] = None /\ broken
       \/ held[e] = None /\ wire[Peer(e)] = <<>> /\ writer[Peer(e)] = "ended"
    /\ reader' = [reader EXCEPT ![e] = "ended"]
    /\ held' = [held EXCEPT ![e] = None]
    /\ LET gone == {c \in Calls : held[e] = Request(c)} IN
         /\ inbound' = inbound \ gone
         /\ cancelled' = cancelled \ gone
         /\ handler' = [c \in Calls |-> IF c \in gone THEN "over" ELSE handler[c]]
    /\ ShutBegin(e, "reader")
    /\ UNCHANGED <<netVars, writer, writing, out, urgent, events, callVars, stopVars>>

-----------------------------------------------------------------------------
CallStep(c) == CallCheck(c) \/ CallSend(c) \/ CallFailed(c) \/ CallAnswered(c) \/ Abandon(c)

AnswerStep(c) == TakeRequest(c) \/ RespondSent(c) \/ RespondFailed(c)

StopStep(w) ==
    \/ StopBegin(w) \/ StopRegister(w) \/ StopCheck(w) \/ StopSend(w)
    \/ StopFailed(w) \/ StopConfirmed(w)

WriterStep(e) == TakeUrgent(e) \/ TakeOut(e) \/ WriteFrame(e) \/ WriterStops(e) \/ WriterEnds(e)

Route(e) ==
    \/ e = "machine" /\ (RouteResponse \/ RouteStop)
    \/ e = "backend" /\ (RouteStopAck \/ RouteCancel \/ RouteRequest)

ReaderStep(e) == Route(e) \/ Deliver(e) \/ ReaderStops(e)

Next ==
    \/ \E c \in Calls :
         CallStart(c) \/ CallStep(c) \/ GiveUp(c) \/ CallRefused(c)
           \/ AnswerStep(c) \/ Respond(c) \/ HandlerDrops(c)
    \/ \E w \in Waiters : StopStep(w) \/ StopGivesUp(w)
    \/ \E s \in Stops : TakeStop(s) \/ AckStop(s)
    \/ \E e \in Ends : WriterStep(e) \/ ReaderStep(e) \/ Close(e)
    \/ \E e \in Ends, task \in {"owner", "writer", "reader"} : ShutClear(e, task)
    \/ Break

Spec == Init /\ [][Next]_vars

(* Tasks run when they can and an owner takes its events.  Nothing is      *)
(* assumed of time limits, of the handlers' work or of acknowledgements.   *)
Fairness ==
    /\ \A e \in Ends :
         /\ WF_vars(WriterStep(e)) /\ WF_vars(ReaderStep(e))
         /\ \A task \in {"owner", "writer", "reader"} : WF_vars(ShutClear(e, task))
    /\ \A c \in Calls : WF_vars(CallStep(c)) /\ WF_vars(AnswerStep(c))
    /\ \A w \in Waiters : WF_vars(StopStep(w))
    /\ \A s \in Stops : WF_vars(TakeStop(s))

FairSpec == Spec /\ Fairness

-----------------------------------------------------------------------------
TypeOK ==
    /\ closed \in [Ends -> BOOLEAN]
    /\ shutting \in [Ends -> SUBSET {"owner", "writer", "reader"}]
    /\ writer \in [Ends -> {"loop", "closing", "ended"}]
    /\ reader \in [Ends -> {"loop", "ended"}]
    /\ writing \in [Ends -> Frame \cup {None}] /\ held \in [Ends -> Frame \cup {None}]
    /\ out \in [Ends -> Seq(Frame)] /\ urgent \in [Ends -> Seq(Frame)]
    /\ events \in [Ends -> Seq(Frame)] /\ wire \in [Ends -> Seq(Frame)]
    /\ \A e \in Ends : Len(urgent[e]) <= UrgentQueue
    /\ broken \in BOOLEAN
    /\ call \in [Calls -> {"idle", "registered", "sending", "waiting", "withdrawing",
                           "dropping", "done", "failed", "gaveUp"}]
    /\ request \in [Calls -> {"queued", "written", "abandoned"}]
    /\ pending \subseteq Calls /\ answered \subseteq Calls
    /\ handler \in [Calls -> {"none", "queued", "handling", "answering", "over"}]
    /\ inbound \subseteq Calls /\ cancelled \subseteq Calls
    /\ waiter \in [Waiters -> {"idle", "checked", "registered", "sending", "waiting",
                               "done", "failed", "gaveUp"}]
    /\ stopOf \in [Waiters -> Stops]
    /\ stops \in [Stops -> SUBSET Waiters] /\ acked \subseteq Waiters
    /\ owed \in [Stops -> Nat]

Holds(queue, frame) == \E i \in 1..Len(queue) : queue[i] = frame

(* A cancellation never overtakes its own request: when the backend reads  *)
(* it, it has read the request.                                            *)
CancelFollowsRequest ==
    \A c \in Calls : \A i \in 1..Len(wire["machine"]) :
        wire["machine"][i] = Cancel(c) =>
            \/ handler[c] # "none"
            \/ \E j \in 1..(i - 1) : wire["machine"][j] = Request(c)

(* A caller that gave up leaves no work behind: as long as its link is     *)
(* open, its request is neither waiting to be sent, nor on its way, nor    *)
(* with the backend, unless its cancellation follows.                      *)
AtWork(c) ==
    \/ c \in inbound
    \/ Holds(wire["machine"], Request(c)) \/ writing["machine"] = Request(c)
    \/ Holds(out["machine"], Request(c)) /\ request[c] = "queued"

CancelOnItsWay(c) ==
    \/ Holds(urgent["machine"], Cancel(c)) \/ writing["machine"] = Cancel(c)
    \/ Holds(wire["machine"], Cancel(c))

NoOrphans ==
    \A c \in Calls : call[c] = "gaveUp" /\ AtWork(c) =>
        closed["machine"] \/ CancelOnItsWay(c)

(* Nobody waits without a slot: on an open link a call or stop that has    *)
(* not ended is in its table or has its answer, whoever else gave up on    *)
(* the same stop; and an ended call leaves no slot behind.  A closed link  *)
(* strands nobody: once no task has its tables left to clear, neither a    *)
(* call nor a stop waits on a slot in them, whenever it registered.        *)
SlotsMatch ==
    /\ \A c \in Calls :
         /\ call[c] \in {"registered", "sending", "waiting"} /\ ~closed["machine"] =>
              c \in pending \cup answered
         /\ call[c] \in {"idle", "done", "failed", "gaveUp"} => c \notin pending
         /\ handler[c] \in {"none", "answering", "over"} => c \notin inbound
         /\ call[c] \in {"sending", "waiting"} /\ closed["machine"] /\ shutting["machine"] = {} =>
              c \notin pending
    /\ \A w \in Waiters :
         /\ Listening(w) /\ ~closed["backend"] => w \in stops[stopOf[w]] \cup acked
         /\ waiter[w] \in {"sending", "waiting"} /\ closed["backend"] /\ shutting["backend"] = {} =>
              w \notin stops[stopOf[w]]

(* What makes these inductive.  An end whose tables are to be cleared, or  *)
(* whose writer stopped, is closed; only a running writer has a frame.     *)
EndsShut ==
    \A e \in Ends :
        /\ shutting[e] # {} \/ writer[e] # "loop" => closed[e]
        /\ writing[e] # None => writer[e] = "loop"

(* A call that is over or given up has no slot, and an answered one has    *)
(* none either.                                                            *)
SlotsFreed ==
    \A c \in Calls :
        /\ call[c] \notin {"registered", "sending", "waiting"} => c \notin pending
        /\ c \in answered => c \notin pending /\ call[c] # "idle"

(* Each lane has its own frames.                                           *)
LanesKept ==
    \A c \in Calls :
        /\ ~Holds(out["machine"], Cancel(c)) /\ ~Holds(urgent["machine"], Request(c))
        /\ ~Holds(out["backend"], Request(c))

Once(queue, frame) ==
    \A i, j \in 1..Len(queue) : queue[i] = frame /\ queue[j] = frame => i = j

(* A request is written once: it is in the writer's hands, on the wire,    *)
(* with the backend, or lost with the writer.                              *)
WrittenOnce ==
    \A c \in Calls :
        /\ request[c] # "written" \/ handler[c] # "none" =>
             writing["machine"] # Request(c) /\ ~Holds(wire["machine"], Request(c))
        /\ request[c] # "written" => handler[c] = "none"
        /\ request[c] = "written" =>
             \/ writing["machine"] = Request(c) \/ Holds(wire["machine"], Request(c))
             \/ handler[c] # "none" \/ writer["machine"] # "loop"
        /\ writing["machine"] = Request(c) => ~Holds(wire["machine"], Request(c))
        /\ Once(wire["machine"], Request(c))

(* It is handed to its handler once.                                       *)
DeliveredOnce ==
    \A c \in Calls :
        /\ held["backend"] = Request(c) \/ Holds(events["backend"], Request(c)) =>
             handler[c] = "queued"
        /\ held["backend"] = Request(c) => ~Holds(events["backend"], Request(c))
        /\ Once(events["backend"], Request(c))
        /\ held["machine"] # Request(c)

(* Only what was written is cancelled, only a handler that is over has     *)
(* answered, and only then does a caller that gave up say nothing.         *)
AnswersFollow ==
    \A c \in Calls :
        /\ CancelOnItsWay(c) => request[c] = "written"
        /\ \/ Holds(out["backend"], Response(c)) \/ Holds(urgent["backend"], Response(c))
           \/ writing["backend"] = Response(c) \/ Holds(wire["backend"], Response(c))
           \/ c \in answered
           => handler[c] = "over"
        /\ call[c] = "dropping" => closed["machine"] \/ handler[c] = "over"
        /\ call[c] = "gaveUp" => request[c] # "queued"

LinkOrder ==
    /\ EndsShut /\ SlotsMatch /\ SlotsFreed /\ LanesKept /\ WrittenOnce
    /\ DeliveredOnce /\ AnswersFollow /\ CancelFollowsRequest /\ NoOrphans

LinkInv == TypeOK /\ LinkOrder

(* Once the machine's end is closed, or the backend is done with the       *)
(* request, a call returns by itself, before its time limit.               *)
CallsReturn ==
    \A c \in Calls :
        call[c] \in {"registered", "sending", "waiting"}
          /\ (closed["machine"] \/ handler[c] = "over")
        ~> call[c] \in {"done", "failed", "gaveUp"}

(* The handler of a request learns that nobody waits for its outcome, be   *)
(* it that the caller gave up or that the link closed.                     *)
HandlersLearn ==
    \A c \in Calls :
        handler[c] \in {"queued", "handling"} /\ (call[c] = "gaveUp" \/ closed["backend"])
        ~> c \in cancelled \/ handler[c] \in {"answering", "over"}

(* A dropped request is answered, "so the caller never waits for its       *)
(* timeout".                                                               *)
NeverWaitsForTimeout ==
    \A c \in Calls :
        call[c] = "waiting" /\ handler[c] = "over" ~> call[c] # "waiting"
=============================================================================
