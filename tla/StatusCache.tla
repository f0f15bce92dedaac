---------------------------- MODULE StatusCache ----------------------------
(***************************************************************************)
(* The cache of working-tree status scans and the single flight it scans   *)
(* through, for one worktree (crates/intent-services/src/                  *)
(* git_status_cache.rs and git_status_singleflight.rs).                    *)
(*                                                                         *)
(* A status is the version of the worktree when its scan was begun: a      *)
(* change that lands during a scan may be missing from it.  Readers are    *)
(* the callers of `get' and `get_fresh'; a step is what happens under one  *)
(* lock, and what a leader tells its followers right after it, with no     *)
(* await in between: the scan stored is published, the flight taken out of *)
(* the map is announced as retired.  A leader or follower may be dropped   *)
(* with its request wherever it awaits.                                    *)
(***************************************************************************)
EXTENDS Integers

CONSTANTS Readers,      \* the calls of get and get_fresh
          Flights,      \* the flights alive at a time, one per reader at most
          NoFlight,
          MaxVersion,         \* bound: changes of the worktree
          MaxInvalidations    \* bound: invalidations of the slot

ASSUME CacheAssumption ==
    NoFlight \notin Flights /\ MaxVersion \in Nat /\ MaxInvalidations \in Nat

VARIABLES tree,      \* the version of the files
          slot,      \* the cache entry: its generation and cached status
          leading,   \* the flight in the single-flight map, or NoFlight
          flight,    \* the flights that a reader or the map still refers to
          reading,   \* every reader's progress
          seen,      \* history: the version at the last invalidation
          evicted    \* history: the slot was dropped once

cacheVars == <<tree, slot, leading, flight, reading, seen, evicted>>

NoStatus == -1

NoSlot == [present |-> FALSE, gen |-> 0, cached |-> NoStatus]
(* entry(key).or_default()                                                 *)
Entry  == [slot EXCEPT !.present = TRUE]

NewFlight(g, v) == [gen |-> g, scanned |-> v, result |-> "none", retired |-> FALSE]
NewReader ==
    [stage |-> "idle", fresh |-> FALSE, min |-> 0, since |-> 0, gen |-> 0,
     fl |-> NoFlight, stored |-> FALSE, outcome |-> "none", got |-> NoStatus]

CacheInit ==
    /\ tree = 0 /\ seen = 0 /\ evicted = FALSE
    /\ slot = NoSlot
    /\ leading = NoFlight
    /\ flight = [f \in Flights |-> NewFlight(0, 0)]
    /\ reading = [r \in Readers |-> NewReader]

At(r, stage) == reading[r].stage = stage

(* The reader goes on to `stage'.                                          *)
Go(r, stage) == reading' = [reading EXCEPT ![r].stage = stage]

(* The call is over: what it returned, and since when it asked for it.     *)
Return(r, outcome, status) ==
    reading' = [reading EXCEPT ![r] =
        [NewReader EXCEPT !.stage = "done", !.fresh = reading[r].fresh,
                          !.since = reading[r].since, !.outcome = outcome, !.got = status]]

Again(r) ==
    reading' = [reading EXCEPT ![r] = [@ EXCEPT !.stage = "loop", !.fl = NoFlight, !.gen = 0,
                                                !.stored = FALSE, !.outcome = "none"]]

Own(r) == flight[reading[r].fl]

(* The flights once r lets go of its own: one that nobody refers to is     *)
(* freed.                                                                  *)
LetGo(r, fl) ==
    [f \in Flights |->
        IF f = reading[r].fl /\ \A q \in Readers \ {r} : reading[q].fl # f
        THEN NewFlight(0, 0) ELSE fl[f]]

-----------------------------------------------------------------------------
(* The files change: an edit, or one step of a git operation.              *)
Change ==
    /\ tree < MaxVersion
    /\ tree' = tree + 1
    /\ UNCHANGED <<slot, leading, flight, reading, seen, evicted>>

(* invalidate: a missing slot stays missing.                               *)
Invalidate ==
    /\ slot.gen < MaxInvalidations
    /\ slot' = IF slot.present
               THEN [slot EXCEPT !.gen = @ + 1, !.cached = NoStatus]
               ELSE slot
    /\ seen' = tree
    /\ UNCHANGED <<tree, leading, flight, reading, evicted>>

(* evict: the checkout was removed, or was made anew by a revival.  Bound: *)
(* once.                                                                   *)
Evict ==
    /\ ~evicted
    /\ slot.present
    /\ slot' = NoSlot
    /\ seen' = tree
    /\ evicted' = TRUE
    /\ UNCHANGED <<tree, leading, flight, reading>>

-----------------------------------------------------------------------------
(* get: a live cached status is returned; one past its time to live is     *)
(* dropped, and the reader scans.                                          *)
GetCached(r) ==
    /\ At(r, "idle")
    /\ slot.cached # NoStatus
    /\ Return(r, "ok", slot.cached)
    /\ UNCHANGED <<tree, slot, leading, flight, seen, evicted>>

GetScans(r) ==
    /\ At(r, "idle")
    /\ slot' = [Entry EXCEPT !.cached = NoStatus]
    /\ Go(r, "loop")
    /\ UNCHANGED <<tree, leading, flight, seen, evicted>>

(* get_fresh and refresh: invalidate, and ask for a scan that starts later.*)
GetFresh(r) ==
    /\ At(r, "idle")
    /\ slot.gen < MaxInvalidations
    /\ slot' = [present |-> TRUE, gen |-> slot.gen + 1, cached |-> NoStatus]
    /\ reading' = [reading EXCEPT ![r] = [@ EXCEPT !.stage = "loop", !.fresh = TRUE,
                                                   !.min = slot.gen + 1, !.since = tree]]
    /\ seen' = tree
    /\ UNCHANGED <<tree, leading, flight, evicted>>

-----------------------------------------------------------------------------
(* scan: the generation is read under the slots' lock, the flight joined   *)
(* under the map's.                                                        *)
Generation(r) ==
    /\ At(r, "loop")
    /\ slot' = Entry
    /\ reading' = [reading EXCEPT ![r] = [@ EXCEPT !.stage = "joining", !.gen = slot.gen]]
    /\ UNCHANGED <<tree, leading, flight, seen, evicted>>

Lead(r) ==
    /\ At(r, "joining")
    /\ leading = NoFlight
    /\ \E f \in Flights :
         /\ \A q \in Readers : reading[q].fl # f
         /\ leading' = f
         /\ flight' = [flight EXCEPT ![f] = NewFlight(reading[r].gen, tree)]
         /\ reading' = [reading EXCEPT ![r] = [@ EXCEPT !.stage = "scanning", !.fl = f]]
    /\ UNCHANGED <<tree, slot, seen, evicted>>

Follow(r) ==
    /\ At(r, "joining")
    /\ leading # NoFlight
    /\ reading' = [reading EXCEPT ![r] = [@ EXCEPT !.stage = "following", !.fl = leading]]
    /\ UNCHANGED <<tree, slot, leading, flight, seen, evicted>>

Finish(r, outcome, stored) ==
    /\ flight' = [flight EXCEPT ![reading[r].fl].result = outcome]
    /\ reading' = [reading EXCEPT ![r] = [@ EXCEPT !.stage = "retiring", !.outcome = outcome,
                                                   !.stored = stored]]

(* Error to rule out: the result is stored whatever happened meanwhile *)
ScanEndsStores(r) ==
    /\ At(r, "scanning")
    /\ slot' = [Entry EXCEPT !.cached = Own(r).scanned]
    /\ Finish(r, "ok", TRUE)
    /\ UNCHANGED <<tree, leading, seen, evicted>>

(* The leader stores its scan if the generation is still the flight's, and *)
(* publishes it to the followers; an error is only published.              *)
ScanEnds(r) ==
    /\ At(r, "scanning")
    /\ LET current == slot.gen = Own(r).gen IN
         /\ slot' = [Entry EXCEPT !.cached = IF current THEN Own(r).scanned ELSE @]
         /\ Finish(r, "ok", current)
    /\ UNCHANGED <<tree, leading, seen, evicted>>

ScanFails(r) ==
    /\ At(r, "scanning")
    /\ Finish(r, "failed", FALSE)
    /\ UNCHANGED <<tree, slot, leading, seen, evicted>>

Rescans(r) ==
    reading[r].outcome = "ok" /\ reading[r].fresh
      /\ (Own(r).gen < reading[r].min \/ ~reading[r].stored)

(* Error to rule out: the guard's drop leaves its flight in the map *)
RetireRegistered(r) ==
    /\ At(r, "retiring")
    /\ leading' = leading
    /\ flight' = [flight EXCEPT ![reading[r].fl].retired = TRUE]
    /\ IF Rescans(r) THEN Again(r) ELSE Return(r, reading[r].outcome, Own(r).scanned)
    /\ UNCHANGED <<tree, slot, seen, evicted>>

(* The leader's guard is dropped: the flight is unregistered and retired.  *)
(* A leader that must have a fresh scan goes round again if its own is too *)
(* old or was overtaken by an invalidation.  `retired' is what followers   *)
(* learn by either channel: the announcement, or the closing of both when  *)
(* the guard and the map, the only holders of the flight, have dropped it. *)
Retire(r) ==
    /\ At(r, "retiring")
    /\ leading' = IF leading = reading[r].fl THEN NoFlight ELSE leading
    /\ flight' = LetGo(r, [flight EXCEPT ![reading[r].fl].retired = TRUE])
    /\ IF Rescans(r) THEN Again(r) ELSE Return(r, reading[r].outcome, Own(r).scanned)
    /\ UNCHANGED <<tree, slot, seen, evicted>>

(* The leader's request is dropped, or the scan panics: its guard is       *)
(* dropped with nothing published.                                         *)
LeaderGone(r) ==
    /\ At(r, "scanning")
    /\ reading' = [reading EXCEPT ![r] = [@ EXCEPT !.stage = "retiring", !.outcome = "gone"]]
    /\ UNCHANGED <<tree, slot, leading, flight, seen, evicted>>

-----------------------------------------------------------------------------
(* A follower takes the published result ...                               *)
TooOld(r) ==
    reading[r].fresh /\ (Own(r).gen < reading[r].min \/ slot.gen # Own(r).gen)

(* Error to rule out: a fresh reader takes whatever the flight it joined brings *)
TakeResultUnchecked(r) ==
    /\ At(r, "following")
    /\ Own(r).result # "none"
    /\ Return(r, Own(r).result, Own(r).scanned)
    /\ flight' = LetGo(r, flight)
    /\ UNCHANGED <<tree, slot, leading, seen, evicted>>

TakeResult(r) ==
    /\ At(r, "following")
    /\ Own(r).result # "none"
    /\ slot' = IF reading[r].fresh /\ Own(r).gen >= reading[r].min THEN Entry ELSE slot
    /\ IF TooOld(r)
       THEN Go(r, "waiting") /\ UNCHANGED flight
       ELSE Return(r, Own(r).result, Own(r).scanned) /\ flight' = LetGo(r, flight)
    /\ UNCHANGED <<tree, leading, seen, evicted>>

(* ... goes round again when its leader vanished, or when the flight too   *)
(* old for it has retired ...                                              *)
LeaderVanished(r) ==
    /\ At(r, "following")
    /\ Own(r).result = "none" /\ Own(r).retired
    /\ Again(r)
    /\ flight' = LetGo(r, flight)
    /\ UNCHANGED <<tree, slot, leading, seen, evicted>>

Retired(r) ==
    /\ At(r, "waiting")
    /\ Own(r).retired
    /\ Again(r)
    /\ flight' = LetGo(r, flight)
    /\ UNCHANGED <<tree, slot, leading, seen, evicted>>

(* ... or is dropped with its request.                                     *)
FollowerGone(r) ==
    /\ At(r, "following") \/ At(r, "waiting")
    /\ Return(r, "gone", NoStatus)
    /\ flight' = LetGo(r, flight)
    /\ UNCHANGED <<tree, slot, leading, seen, evicted>>

-----------------------------------------------------------------------------
ReadStep(r) ==
    \/ Generation(r) \/ Lead(r) \/ Follow(r) \/ ScanEnds(r) \/ Retire(r)
    \/ TakeResult(r) \/ LeaderVanished(r) \/ Retired(r)

CacheNext ==
    \/ Change \/ Invalidate \/ Evict
    \/ \E r \in Readers :
         \/ GetCached(r) \/ GetScans(r) \/ GetFresh(r)
         \/ ReadStep(r) \/ ScanFails(r) \/ LeaderGone(r) \/ FollowerGone(r)

CacheSpec == CacheInit /\ [][CacheNext]_cacheVars

(* A reader that can go on does: its task is scheduled, its scan ends.     *)
CacheFairness == \A r \in Readers : WF_cacheVars(ReadStep(r))

-----------------------------------------------------------------------------
Versions == 0..MaxVersion
Statuses == Versions \cup {NoStatus}
Slots == {NoSlot} \cup [present : {TRUE}, gen : 0..MaxInvalidations, cached : Statuses]
Outcomes == {"none", "ok", "failed", "gone"}
Stages == {"idle", "loop", "joining", "scanning", "retiring",
           "following", "waiting", "done"}

FlightRecords == [gen : 0..MaxInvalidations, scanned : Versions, result : Outcomes, retired : BOOLEAN]
ReaderRecords == [stage : Stages, fresh : BOOLEAN, min : 0..MaxInvalidations, since : Versions,
                  gen : 0..MaxInvalidations, fl : Flights \cup {NoFlight}, stored : BOOLEAN,
                  outcome : Outcomes, got : Statuses]

CacheTypeOK ==
    /\ tree \in Versions /\ seen \in Versions /\ evicted \in BOOLEAN
    /\ slot \in Slots
    /\ leading \in Flights \cup {NoFlight}
    /\ flight \in [Flights -> FlightRecords]
    /\ reading \in [Readers -> ReaderRecords]

(* "A change landing mid-scan is never overwritten by the older snapshot": *)
(* what the cache serves was scanned after the last time the daemon called *)
(* the worktree's status stale, whatever scans were in flight then, as     *)
(* long as the slot was not dropped.                                       *)
CachedSinceInvalidation == ~evicted /\ slot.cached # NoStatus => slot.cached >= seen

(* A forced read returns a scan that began after it was asked for ("await  *)
(* and discard" an older one), whichever flight it led or joined and       *)
(* however often it went round, as long as the slot was not dropped.       *)
FreshReads ==
    ~evicted => \A r \in Readers :
        reading[r].fresh /\ At(r, "done") /\ reading[r].outcome = "ok" =>
            reading[r].got >= reading[r].since

(* What makes them inductive.  Whoever scans or follows refers to a        *)
(* flight, and the one in the map has its leader.  As long as the slot was *)
(* not dropped, a scan of its generation began after the last invalidation,*)
(* and one of the generation that a forced read asked for began after it   *)
(* was asked; no scan or reader is ahead of the slot.                      *)
FlightsHeld ==
    /\ \A r \in Readers :
         reading[r].fl # NoFlight <=>
           reading[r].stage \in {"scanning", "retiring", "following", "waiting"}
    /\ leading # NoFlight =>
         \E r \in Readers : (At(r, "scanning") \/ At(r, "retiring")) /\ reading[r].fl = leading

FlightsOrdered ==
    \A r \in Readers : reading[r].fl # NoFlight =>
        /\ Own(r).gen <= slot.gen
        /\ Own(r).gen = slot.gen => Own(r).scanned >= seen
        /\ \A q \in Readers : ~At(q, "done") /\ Own(r).gen >= reading[q].min =>
             Own(r).scanned >= reading[q].since

ReadersOrdered ==
    /\ seen <= tree
    /\ \A r \in Readers :
         /\ reading[r].since <= tree /\ reading[r].gen <= slot.gen
         /\ At(r, "idle") => ~reading[r].fresh
         /\ At(r, "idle") \/ slot.present

CacheInv ==
    /\ CacheTypeOK /\ FlightsHeld
    /\ ~evicted =>
         CachedSinceInvalidation /\ FreshReads /\ FlightsOrdered /\ ReadersOrdered

(* Every read returns: no follower is left on a flight whose leader is     *)
(* gone, and a forced read, which is to "await and discard" only an older  *)
(* scan, ends once the invalidations do, unless the slot was dropped.      *)
ReadsReturnUnlessEvicted == \A r \in Readers : ~At(r, "idle") ~> At(r, "done") \/ evicted
=============================================================================
