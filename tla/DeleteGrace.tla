---------------------------- MODULE DeleteGrace ----------------------------
(***************************************************************************)
(* The grace window of a deletion: the pending deletions of one agent or   *)
(* workspace (OwnedPendingDeletes in crates/intent-services/src/           *)
(* delete_grace.rs, with its callers in agent_ops.rs and lib.rs and the    *)
(* guard of crates/intent-store/src/repository_lifecycle.rs).              *)
(*                                                                         *)
(* A request schedules a deletion, cancels one or deletes at once.  An     *)
(* attempt is named by the request that prepared it.  Each hold of the     *)
(* map's lock is a step; a request may be dropped wherever it awaits.      *)
(* Nothing is persisted: a restart is the initial state.  Deadlines are    *)
(* left out, a timer may fire at any time; so are the events published.    *)
(* Of the deletion itself (agent_delete_with_claim) three things are kept: *)
(* the claim, the row, and the settling of the claim at the end.  What it  *)
(* stops and clears between them touches neither the window nor the claim; *)
(* an error on the way, or an answer that leaves the row in doubt, ends    *)
(* the attempt as failed.                                                  *)
(***************************************************************************)
EXTENDS Naturals, FiniteSets

CONSTANTS Requests,   \* the calls of schedule, cancelDelete and delete
          NoAttempt

ASSUME GraceAssumption == NoAttempt \notin Requests

VARIABLES row,        \* the entity is in the store
          window,     \* the map's entry: its stage and its attempt
          ready,      \* every attempt's PreparationStatus
          guard,      \* who holds the attempt's RepositoryPendingDeleteGuard
          timer,      \* every attempt's timer task
          caller,     \* every request: what it asks, how far it got, the
                      \* attempt it prepares, waits for or has claimed
          closing,    \* DeliveryTasks closed: the daemon stops
          taken,      \* history: who took the claim of an attempt
          outcome     \* history: what became of a claimed attempt

graceVars == <<row, window, ready, guard, timer, caller, closing, taken, outcome>>

NoEntry == [stage |-> "none", attempt |-> NoAttempt]
Asks == {"schedule", "cancel", "delete"}

GraceInit ==
    /\ row = TRUE /\ closing = FALSE
    /\ window = NoEntry
    /\ ready = [r \in Requests |-> "none"]
    /\ guard = [r \in Requests |-> "none"]
    /\ timer = [r \in Requests |-> "none"]
    /\ caller = [r \in Requests |-> [asks |-> "none", stage |-> "idle", of |-> NoAttempt]]
    /\ taken = [r \in Requests |-> {}]
    /\ outcome = [r \in Requests |-> "none"]

Is(r, asks, stage) == caller[r].asks = asks /\ caller[r].stage = stage

To(r, stage) == caller' = [caller EXCEPT ![r].stage = stage]
ToWith(r, stage, a) == caller' = [caller EXCEPT ![r] = [@ EXCEPT !.stage = stage, !.of = a]]

-----------------------------------------------------------------------------
(* Every caller first reads the session's row; it does not hold it.  With  *)
(* no row a schedule and a cancel return, and a delete clears what is left *)
(* of the agent without a claim: none of them touches the window.          *)
Look(r) ==
    /\ caller[r].stage = "idle"
    /\ \E asks \in Asks :
         caller' = [caller EXCEPT ![r] = [@ EXCEPT !.asks = asks,
                                                   !.stage = IF row THEN "looked" ELSE "over"]]
    /\ UNCHANGED <<row, window, ready, guard, timer, closing, taken, outcome>>

(* schedule_owned: join the pending attempt, or enter one of its own ...   *)
ScheduleJoins(r) ==
    /\ Is(r, "schedule", "looked")
    /\ window # NoEntry
    /\ ToWith(r, "joining", window.attempt)
    /\ UNCHANGED <<row, window, ready, guard, timer, closing, taken, outcome>>

ScheduleEnters(r) ==
    /\ Is(r, "schedule", "looked")
    /\ window = NoEntry
    /\ window' = [stage |-> "preparing", attempt |-> r]
    /\ ready' = [ready EXCEPT ![r] = "preparing"]
    /\ ToWith(r, "beginning", r)
    /\ UNCHANGED <<row, guard, timer, closing, taken, outcome>>

(* ... begin_repository_pending_delete ...                                 *)
Begin(r) ==
    /\ Is(r, "schedule", "beginning")
    /\ guard' = [guard EXCEPT ![r] = "owner"]
    /\ To(r, "arming")
    /\ UNCHANGED <<row, window, ready, timer, closing, taken, outcome>>

(* ... spawn the timer and arm the entry, which is one step: the timer     *)
(* waits to be started, and spawning fails only when the daemon stops ...  *)
Arm(r) ==
    /\ Is(r, "schedule", "arming")
    /\ ~closing
    /\ window' = [stage |-> "armed", attempt |-> r]
    /\ guard' = [guard EXCEPT ![r] = "entry"]
    /\ timer' = [timer EXCEPT ![r] = "waiting"]
    /\ To(r, "publishing")
    /\ UNCHANGED <<row, ready, closing, taken, outcome>>

(* ... tell those who wait, and start the timer.                           *)
Publish(r) ==
    /\ Is(r, "schedule", "publishing")
    /\ ready' = [ready EXCEPT ![r] = "armed"]
    /\ timer' = [timer EXCEPT ![r] = "sleeping"]
    /\ To(r, "over")
    /\ UNCHANGED <<row, window, guard, closing, taken, outcome>>

(* Error to rule out: those who wait for a failed preparation are not told *)
AbandonQuietly(r) ==
    /\ \/ Is(r, "schedule", "beginning")
       \/ Is(r, "schedule", "arming")
    /\ window' = IF window.attempt = r THEN NoEntry ELSE window
    /\ guard' = [guard EXCEPT ![r] = IF @ = "owner" THEN "unresolved" ELSE @]
    /\ To(r, "over")
    /\ UNCHANGED <<row, ready, timer, closing, taken, outcome>>

(* PreparationOwner::drop: the guard could not be had, the request was     *)
(* dropped, or no timer is admitted any more.                              *)
AbandonAttempt(r) ==
    /\ \/ Is(r, "schedule", "beginning")
       \/ Is(r, "schedule", "arming") /\ closing
    /\ window' = IF window.attempt = r THEN NoEntry ELSE window
    /\ ready' = [ready EXCEPT ![r] = "abandoned"]
    /\ guard' = [guard EXCEPT ![r] = IF @ = "owner" THEN "unresolved" ELSE @]
    /\ To(r, "over")
    /\ UNCHANGED <<row, timer, closing, taken, outcome>>

(* A second schedule returns the deadline of the first, or its failure.    *)
Joined(r) ==
    /\ Is(r, "schedule", "joining")
    /\ ready[caller[r].of] \in {"armed", "abandoned"}
    /\ To(r, "over")
    /\ UNCHANGED <<row, window, ready, guard, timer, closing, taken, outcome>>

-----------------------------------------------------------------------------
Armed(a) == window.stage = "armed" /\ window.attempt = a

(* take_armed: whoever finds the attempt in the map takes its guard along. *)
TakeEntry(a, who) ==
    /\ window' = NoEntry
    /\ guard' = [guard EXCEPT ![a] = "claim"]
    /\ taken' = [taken EXCEPT ![a] = @ \cup {who}]

(* Error to rule out: a timer takes whatever attempt is armed *)
FireUnchecked(a) ==
    /\ timer[a] = "sleeping"
    /\ ~closing
    /\ window.stage = "armed"
    /\ TakeEntry(window.attempt, a)
    /\ timer' = [timer EXCEPT ![a] = "deleting"]
    /\ UNCHANGED <<row, ready, caller, closing, outcome>>

(* Error to rule out: a timer that finds the row gone forgets the guard it took *)
FireForgetsGuard(a) ==
    /\ timer[a] = "sleeping"
    /\ ~closing
    /\ IF Armed(a)
       THEN TakeEntry(a, a) /\ timer' = [timer EXCEPT ![a] = IF row THEN "deleting" ELSE "ended"]
       ELSE timer' = [timer EXCEPT ![a] = "ended"] /\ UNCHANGED <<window, guard, taken>>
    /\ UNCHANGED <<row, ready, caller, closing, outcome>>

(* The timer of attempt a fires: it deletes, or finds its attempt gone.    *)
Fire(a) ==
    /\ timer[a] = "sleeping"
    /\ ~closing
    /\ IF Armed(a)
       THEN TakeEntry(a, a) /\ timer' = [timer EXCEPT ![a] = "deleting"]
       ELSE timer' = [timer EXCEPT ![a] = "ended"] /\ UNCHANGED <<window, guard, taken>>
    /\ UNCHANGED <<row, ready, caller, closing, outcome>>

TimerStops(a) ==
    /\ timer[a] = "sleeping"
    /\ closing
    /\ timer' = [timer EXCEPT ![a] = "ended"]
    /\ UNCHANGED <<row, window, ready, guard, caller, closing, taken, outcome>>

(* What the deletion comes to: all its work is known to be done, and the   *)
(* guard is settled, or the guard is dropped unresolved.                   *)
Ended(a, how) ==
    /\ outcome' = [outcome EXCEPT ![a] = how]
    /\ guard' = [guard EXCEPT ![a] = IF how = "failed" THEN "unresolved" ELSE "settled"]

(* agent_delete_with_claim deletes the row, if there still is one, or ends *)
(* with an error before that; the claim is then dropped ...                *)
TimerDeletes(a) ==
    /\ timer[a] = "deleting"
    /\ \/ /\ row' = FALSE
          /\ timer' = [timer EXCEPT ![a] = "confirming"]
          /\ UNCHANGED <<guard, outcome>>
       \/ /\ row' = row
          /\ timer' = [timer EXCEPT ![a] = "ended"]
          /\ Ended(a, "failed")
    /\ UNCHANGED <<window, ready, caller, closing, taken>>

(* ... and at last settles the claim, if the completion is known.          *)
TimerConfirms(a) ==
    /\ timer[a] = "confirming"
    /\ \/ Ended(a, "deleted")
       \/ Ended(a, "failed")
    /\ timer' = [timer EXCEPT ![a] = "ended"]
    /\ UNCHANGED <<row, window, ready, caller, closing, taken>>

-----------------------------------------------------------------------------
(* take_for_cascade, for cancel_owned and take_for_immediate_delete: find  *)
(* the attempt, wait until it is prepared, take it, abort its timer.       *)
Asked(r, stage) == Is(r, "cancel", stage) \/ Is(r, "delete", stage)

(* Where a cancel, and a delete, go on that found nothing to take.         *)
Nothing(r) == IF caller[r].asks = "cancel" THEN "over" ELSE "guarding"

Find(r) ==
    /\ Asked(r, "looked")
    /\ IF window = NoEntry
       THEN To(r, Nothing(r))
       ELSE ToWith(r, "awaiting", window.attempt)
    /\ UNCHANGED <<row, window, ready, guard, timer, closing, taken, outcome>>

FoundAbandoned(r) ==
    /\ Asked(r, "awaiting")
    /\ ready[caller[r].of] = "abandoned"
    /\ ToWith(r, Nothing(r), NoAttempt)
    /\ UNCHANGED <<row, window, ready, guard, timer, closing, taken, outcome>>

TakeArmed(r) ==
    /\ Asked(r, "awaiting")
    /\ LET a == caller[r].of IN
       /\ ready[a] = "armed"
       /\ IF Armed(a)
          THEN TakeEntry(a, r) /\ To(r, "aborting")
          ELSE ToWith(r, Nothing(r), NoAttempt) /\ UNCHANGED <<window, guard, taken>>
    /\ UNCHANGED <<row, ready, timer, closing, outcome>>

AbortTimer(r) ==
    /\ Asked(r, "aborting")
    /\ timer' = [timer EXCEPT ![caller[r].of] = "ended"]
    /\ To(r, IF caller[r].asks = "cancel" THEN "settling" ELSE "deleting")
    /\ UNCHANGED <<row, window, ready, guard, closing, taken, outcome>>

(* cancel_owned: settle the guard; answered true, or with the error.       *)
Settle(r) ==
    /\ Is(r, "cancel", "settling")
    /\ \/ Ended(caller[r].of, "cancelled")
       \/ Ended(caller[r].of, "failed")
    /\ To(r, "over")
    /\ UNCHANGED <<row, window, ready, timer, closing, taken>>

(* take_for_immediate_delete: no pending attempt, a guard of its own.      *)
OwnGuard(r) ==
    /\ Is(r, "delete", "guarding")
    /\ guard' = [guard EXCEPT ![r] = "claim"]
    /\ taken' = [taken EXCEPT ![r] = @ \cup {r}]
    /\ ToWith(r, "deleting", r)
    /\ UNCHANGED <<row, window, ready, timer, closing, outcome>>

(* The deletion at once: the same two steps.                               *)
Delete(r) ==
    /\ Is(r, "delete", "deleting")
    /\ \/ row' = FALSE /\ To(r, "confirming") /\ UNCHANGED <<guard, outcome>>
       \/ row' = row /\ To(r, "over") /\ Ended(caller[r].of, "failed")
    /\ UNCHANGED <<window, ready, timer, closing, taken>>

Confirm(r) ==
    /\ Is(r, "delete", "confirming")
    /\ \/ Ended(caller[r].of, "deleted")
       \/ Ended(caller[r].of, "failed")
    /\ To(r, "over")
    /\ UNCHANGED <<row, window, ready, timer, closing, taken>>

(* A request that waits is dropped, or its guard cannot be had.            *)
Dropped(r) ==
    /\ caller[r].stage \in {"looked", "joining", "awaiting", "guarding"}
    /\ To(r, "over")
    /\ UNCHANGED <<row, window, ready, guard, timer, closing, taken, outcome>>

DaemonStops ==
    /\ ~closing
    /\ closing' = TRUE
    /\ UNCHANGED <<row, window, ready, guard, timer, caller, taken, outcome>>

-----------------------------------------------------------------------------
RequestStep(r) ==
    \/ ScheduleJoins(r) \/ ScheduleEnters(r) \/ Begin(r) \/ Arm(r) \/ Publish(r)
    \/ Joined(r) \/ Find(r) \/ FoundAbandoned(r) \/ TakeArmed(r) \/ AbortTimer(r)
    \/ Settle(r) \/ OwnGuard(r) \/ Delete(r) \/ Confirm(r)

TimerStep(a) == Fire(a) \/ TimerStops(a) \/ TimerDeletes(a) \/ TimerConfirms(a)

GraceNext ==
    \/ \E r \in Requests :
         Look(r) \/ RequestStep(r) \/ AbandonAttempt(r) \/ Dropped(r) \/ TimerStep(r)
    \/ DaemonStops

GraceSpec == GraceInit /\ [][GraceNext]_graceVars

(* Tasks run when they can: a preparation ends one way or the other, a     *)
(* deadline passes, a deletion ends.                                       *)
GraceFairness ==
    \A r \in Requests :
        /\ WF_graceVars(RequestStep(r) \/ AbandonAttempt(r))
        /\ WF_graceVars(TimerStep(r))

-----------------------------------------------------------------------------
Attempts == Requests \cup {NoAttempt}
RequestStages == {"idle", "looked", "joining", "beginning", "arming", "publishing",
                  "awaiting", "aborting", "settling", "guarding", "deleting", "confirming", "over"}

GraceTypeOK ==
    /\ row \in BOOLEAN /\ closing \in BOOLEAN
    /\ window \in {NoEntry} \cup [stage : {"preparing", "armed"}, attempt : Requests]
    /\ ready \in [Requests -> {"none", "preparing", "armed", "abandoned"}]
    /\ guard \in [Requests -> {"none", "owner", "entry", "claim", "settled", "unresolved"}]
    /\ timer \in [Requests -> {"none", "waiting", "sleeping", "deleting", "confirming", "ended"}]
    /\ caller \in [Requests -> [asks : Asks \cup {"none"}, stage : RequestStages, of : Attempts]]
    /\ taken \in [Requests -> SUBSET Requests]
    /\ outcome \in [Requests -> {"none", "deleted", "cancelled", "failed"}]

(* Whoever takes an attempt takes it alone, be it the timer, a cancel or a *)
(* delete; and a timer takes only its own attempt, so an old timer never   *)
(* cuts the grace window of a newer deletion short.  An attempt that was   *)
(* cancelled, its caller answered true, is worked on by nobody after that. *)
OneTaker ==
    \A a \in Requests :
        /\ \A p, q \in taken[a] : p = q
        /\ \A p \in taken[a] : caller[p].asks = "schedule" => p = a
        /\ outcome[a] = "cancelled" =>
             /\ timer[a] \notin {"deleting", "confirming"}
             /\ \A r \in Requests :
                  Is(r, "delete", "deleting") \/ Is(r, "delete", "confirming") => caller[r].of # a

(* The variables keep their shapes, and nothing is left that nobody will   *)
(* remove.  A guard blocks the repository for good once it is forgotten:   *)
(* as long as it is neither settled nor unresolved, one task holds it.  An *)
(* entry makes every later schedule join its deletion: its preparation is  *)
(* under way, or its timer runs, until the daemon stops.                   *)
Claims(r) ==
    \/ Asked(r, "aborting") \/ Asked(r, "settling")
    \/ Asked(r, "deleting") \/ Asked(r, "confirming")

GuardsHeld ==
    \A a \in Requests :
        /\ guard[a] = "owner" => Is(a, "schedule", "arming")
        /\ guard[a] = "entry" => Armed(a)
        /\ guard[a] = "claim" =>
             \/ timer[a] \in {"deleting", "confirming"}
             \/ \E r \in Requests : Claims(r) /\ caller[r].of = a

EntryOwned ==
    /\ window.stage = "preparing" =>
         \/ Is(window.attempt, "schedule", "beginning")
         \/ Is(window.attempt, "schedule", "arming")
    /\ window.stage = "armed" =>
         \/ timer[window.attempt] \in {"waiting", "sleeping"}
         \/ closing

NothingForgotten == GraceTypeOK /\ GuardsHeld /\ EntryOwned

(* What makes them inductive.  The window is the attempt's that is being   *)
(* prepared; it is armed before anyone could take the attempt, and nobody  *)
(* took it as long as it is armed or its request has not armed it.  Who    *)
(* took an attempt and has not ended it holds its guard.                   *)
WindowInv ==
    \A a \in Requests :
        /\ Is(a, "schedule", "beginning") \/ Is(a, "schedule", "arming") =>
             window.stage = "preparing" /\ window.attempt = a
        /\ Armed(a) =>
             /\ Is(a, "schedule", "publishing") \/ Is(a, "schedule", "over")
             /\ taken[a] = {}
        /\ Is(a, "schedule", "publishing") => timer[a] = "waiting"
        /\ ready[a] = "armed" \/ timer[a] \in {"sleeping", "deleting", "confirming"} =>
             Is(a, "schedule", "over")

TakenInv ==
    \A a \in Requests :
        /\ taken[a] # {} =>
             \/ Is(a, "schedule", "over")
             \/ Is(a, "delete", "deleting") \/ Is(a, "delete", "confirming")
             \/ Is(a, "delete", "over")
        /\ \A p \in taken[a] : caller[p].stage # "idle"
        /\ timer[a] \in {"deleting", "confirming"} => a \in taken[a] /\ guard[a] = "claim"
        /\ outcome[a] # "none" => taken[a] # {} /\ guard[a] \in {"settled", "unresolved"}

ClaimInv ==
    \A r \in Requests :
        Claims(r) =>
            /\ caller[r].of \in Requests
            /\ r \in taken[caller[r].of]
            /\ guard[caller[r].of] = "claim"

GraceInv == NothingForgotten /\ OneTaker /\ WindowInv /\ TakenInv /\ ClaimInv

(* A pending deletion ends: it is carried out, cancelled or superseded,    *)
(* unless the daemon stops; and who waits for a preparation is told its    *)
(* end, whether it was armed, failed or was dropped.                       *)
GraceEnds ==
    \A a \in Requests :
        /\ Armed(a) ~> ~Armed(a) \/ closing
        /\ caller[a].stage \in {"joining", "awaiting"} ~>
               caller[a].stage \notin {"joining", "awaiting"}
=============================================================================
