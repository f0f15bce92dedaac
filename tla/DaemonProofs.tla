---------------------------- MODULE DaemonProofs ----------------------------
(***************************************************************************)
(* Proofs about what the daemon keeps of its own.  The grace window of a   *)
(* deletion, for any set of requests: an attempt has one taker, and        *)
(* neither a guard nor an entry is ever forgotten.  And the status cache,  *)
(* for any readers, flights and bounds: it never serves a scan older than  *)
(* the last invalidation, and a forced read never returns one older than   *)
(* itself.  GraceInv and CacheInv are inductive, each on its own.          *)
(***************************************************************************)
EXTENDS DeleteGrace, StatusCache, TLAPS

-----------------------------------------------------------------------------
(***************************************************************************)
(* DeleteGrace.  Each lemma shows GraceInv for one action, from what the   *)
(* action does to each variable, request by request.                       *)
(***************************************************************************)
CallerRecords == [asks : Asks \cup {"none"}, stage : RequestStages, of : Attempts]

(* A request that goes on to another stage changes nothing else.           *)
LEMMA ToChanges ==
    ASSUME GraceTypeOK, NEW r \in Requests, NEW s \in RequestStages, To(r, s)
    PROVE  /\ caller' \in [Requests -> CallerRecords]
           /\ caller'[r].asks = caller[r].asks /\ caller'[r].stage = s
           /\ caller'[r].of = caller[r].of
           /\ \A q \in Requests : q # r => caller'[q] = caller[q]
  BY SMTT(60) DEF GraceTypeOK, To, CallerRecords

(* Nor does one that goes on with another attempt.                         *)
LEMMA ToWithChanges ==
    ASSUME GraceTypeOK, NEW r \in Requests, NEW s \in RequestStages, NEW a \in Attempts,
           ToWith(r, s, a)
    PROVE  /\ caller' \in [Requests -> CallerRecords]
           /\ caller'[r].asks = caller[r].asks /\ caller'[r].stage = s
           /\ caller'[r].of = a
           /\ \A q \in Requests : q # r => caller'[q] = caller[q]
  BY ZenonT(60) DEF GraceTypeOK, ToWith, CallerRecords

(* What the steps below need of the types.                                 *)
LEMMA Shapes ==
    ASSUME GraceInv
    PROVE  /\ GraceTypeOK /\ GuardsHeld /\ EntryOwned
           /\ OneTaker /\ WindowInv /\ TakenInv /\ ClaimInv
           /\ \A a \in Requests : taken[a] \subseteq Requests
           /\ window = NoEntry <=> window.stage = "none"
           /\ window.stage # "none" => window.attempt \in Requests
  BY DEF GraceInv, NothingForgotten, GraceTypeOK, NoEntry

(* The initial state satisfies the invariant.                              *)
LEMMA InitGraceInv == GraceInit => GraceInv
<1> SUFFICES ASSUME GraceInit PROVE GraceInv
  OBVIOUS
<1>1. GraceTypeOK
  <2>1. row \in BOOLEAN /\ closing \in BOOLEAN
    BY Zenon DEF GraceInit
  <2> QED
    BY <2>1 DEF GraceInit, GraceTypeOK, NoEntry, Asks, Attempts, RequestStages
<1>2. GuardsHeld /\ EntryOwned /\ WindowInv /\ TakenInv /\ ClaimInv /\ OneTaker
  BY DEF GraceInit, GuardsHeld, EntryOwned, OneTaker, WindowInv, TakenInv, ClaimInv,
         Is, Asked, Claims, Armed, NoEntry
<1> QED
  BY <1>1, <1>2 DEF GraceInv, NothingForgotten

-----------------------------------------------------------------------------
(* A request looks, joins, waits or gives up, and touches nothing else.    *)
LEMMA OnlyCaller ==
    ASSUME GraceInv, NEW r \in Requests,
           caller' \in [Requests -> CallerRecords],
           \A q \in Requests : q # r => caller'[q] = caller[q],
           caller[r].stage \in {"idle", "looked", "joining", "awaiting", "guarding"},
           caller'[r].stage \in {"looked", "joining", "awaiting", "guarding", "over"},
           caller'[r].asks = caller[r].asks \/ caller[r].stage = "idle",
           UNCHANGED <<row, window, ready, guard, timer, closing, taken, outcome>>
    PROVE  GraceInv'
<1>i. /\ GraceTypeOK /\ GuardsHeld /\ EntryOwned
      /\ OneTaker /\ WindowInv /\ TakenInv /\ ClaimInv
      /\ \A p \in Requests : taken[p] \subseteq Requests
      /\ window = NoEntry <=> window.stage = "none"
      /\ window.stage # "none" => window.attempt \in Requests
  BY Shapes
<1>u. \A p \in Requests : (\E a \in Requests : p \in taken[a]) =>
        caller'[p].asks = caller[p].asks /\ caller'[p].stage # "idle"
  BY <1>i DEF TakenInv
<1>t. GraceTypeOK'
  BY <1>i DEF GraceTypeOK, CallerRecords
<1> USE DEF Is, Asked, Claims, Armed
<1>1. GuardsHeld'
  BY <1>i, <1>u DEF GuardsHeld, WindowInv
<1>2. EntryOwned'
  BY <1>i, <1>u DEF EntryOwned, WindowInv
<1>3. OneTaker'
  BY <1>i, <1>u DEF OneTaker
<1>4. WindowInv'
  BY <1>i, <1>u DEF WindowInv, TakenInv
<1>5. TakenInv'
  BY <1>i, <1>u DEF TakenInv, WindowInv
<1>6. ClaimInv'
  BY <1>i, <1>u DEF ClaimInv, TakenInv
<1> QED
  BY <1>t, <1>1, <1>2, <1>3, <1>4, <1>5, <1>6 DEF GraceInv, NothingForgotten

(* ScheduleEnters: the request enters its attempt.                         *)
LEMMA EntersInv ==
    ASSUME GraceInv, NEW r \in Requests, ScheduleEnters(r)
    PROVE  GraceInv'
<1>i. /\ GraceTypeOK /\ GuardsHeld /\ EntryOwned
      /\ OneTaker /\ WindowInv /\ TakenInv /\ ClaimInv
      /\ \A p \in Requests : taken[p] \subseteq Requests
      /\ window = NoEntry <=> window.stage = "none"
      /\ window.stage # "none" => window.attempt \in Requests
  BY Shapes
<1>c. /\ caller' \in [Requests -> CallerRecords]
      /\ caller'[r].asks = caller[r].asks
      /\ caller'[r].stage = "beginning"
      /\ caller'[r].of = r
      /\ \A q \in Requests : q # r => caller'[q] = caller[q]
  BY <1>i, ToWithChanges DEF ScheduleEnters, RequestStages, Attempts
<1>e. /\ Is(r, "schedule", "looked") /\ window.stage = "none"
      /\ window'.stage = "preparing" /\ window'.attempt = r
      /\ ready'[r] = "preparing" /\ \A q \in Requests : q # r => ready'[q] = ready[q]
      /\ UNCHANGED <<row, guard, timer, closing, taken, outcome>>
  BY <1>i DEF ScheduleEnters, GraceTypeOK, NoEntry
<1>t. GraceTypeOK'
  BY <1>i, <1>c DEF ScheduleEnters, GraceTypeOK, CallerRecords
<1> USE DEF Is, Asked, Claims, Armed
<1>1. GuardsHeld'
  BY <1>i, <1>c, <1>e DEF GuardsHeld, WindowInv
<1>2. EntryOwned'
  BY <1>i, <1>c, <1>e DEF EntryOwned, WindowInv
<1>3. OneTaker'
  BY <1>i, <1>c, <1>e DEF OneTaker
<1>4. WindowInv'
  BY <1>i, <1>c, <1>e DEF WindowInv, TakenInv
<1>5. TakenInv'
  BY <1>i, <1>c, <1>e DEF TakenInv, WindowInv
<1>6. ClaimInv'
  BY <1>i, <1>c, <1>e DEF ClaimInv, TakenInv
<1> QED
  BY <1>t, <1>1, <1>2, <1>3, <1>4, <1>5, <1>6 DEF GraceInv, NothingForgotten

(* Begin: it takes the repository's guard.                                 *)
LEMMA BeginInv ==
    ASSUME GraceInv, NEW r \in Requests, Begin(r)
    PROVE  GraceInv'
<1>i. /\ GraceTypeOK /\ GuardsHeld /\ EntryOwned
      /\ OneTaker /\ WindowInv /\ TakenInv /\ ClaimInv
      /\ \A p \in Requests : taken[p] \subseteq Requests
      /\ window = NoEntry <=> window.stage = "none"
      /\ window.stage # "none" => window.attempt \in Requests
  BY Shapes
<1>c. /\ caller' \in [Requests -> CallerRecords]
      /\ caller'[r].asks = caller[r].asks
      /\ caller'[r].stage = "arming"
      /\ caller'[r].of = caller[r].of
      /\ \A q \in Requests : q # r => caller'[q] = caller[q]
  BY <1>i, ToChanges DEF Begin, RequestStages
<1>e. /\ Is(r, "schedule", "beginning")
      /\ guard'[r] = "owner" /\ \A q \in Requests : q # r => guard'[q] = guard[q]
      /\ UNCHANGED <<row, window, ready, timer, closing, taken, outcome>>
  BY <1>i DEF Begin, GraceTypeOK
<1>t. GraceTypeOK'
  BY <1>i, <1>c DEF Begin, GraceTypeOK, CallerRecords
<1> USE DEF Is, Asked, Claims, Armed
<1>1. GuardsHeld'
  BY <1>i, <1>c, <1>e DEF GuardsHeld, WindowInv
<1>2. EntryOwned'
  BY <1>i, <1>c, <1>e DEF EntryOwned, WindowInv
<1>3. OneTaker'
  BY <1>i, <1>c, <1>e DEF OneTaker
<1>4. WindowInv'
  BY <1>i, <1>c, <1>e DEF WindowInv, TakenInv
<1>5. TakenInv'
  BY <1>i, <1>c, <1>e DEF TakenInv, WindowInv
<1>6. ClaimInv'
  BY <1>i, <1>c, <1>e DEF ClaimInv, TakenInv
<1> QED
  BY <1>t, <1>1, <1>2, <1>3, <1>4, <1>5, <1>6 DEF GraceInv, NothingForgotten

(* Arm: the entry is armed and its timer spawned.                          *)
LEMMA ArmInv ==
    ASSUME GraceInv, NEW r \in Requests, Arm(r)
    PROVE  GraceInv'
<1>i. /\ GraceTypeOK /\ GuardsHeld /\ EntryOwned
      /\ OneTaker /\ WindowInv /\ TakenInv /\ ClaimInv
      /\ \A p \in Requests : taken[p] \subseteq Requests
      /\ window = NoEntry <=> window.stage = "none"
      /\ window.stage # "none" => window.attempt \in Requests
  BY Shapes
<1>c. /\ caller' \in [Requests -> CallerRecords]
      /\ caller'[r].asks = caller[r].asks
      /\ caller'[r].stage = "publishing"
      /\ caller'[r].of = caller[r].of
      /\ \A q \in Requests : q # r => caller'[q] = caller[q]
  BY <1>i, ToChanges DEF Arm, RequestStages
<1>e. /\ Is(r, "schedule", "arming")
      /\ window'.stage = "armed" /\ window'.attempt = r
      /\ guard'[r] = "entry" /\ \A q \in Requests : q # r => guard'[q] = guard[q]
      /\ timer'[r] = "waiting" /\ \A q \in Requests : q # r => timer'[q] = timer[q]
      /\ UNCHANGED <<row, ready, closing, taken, outcome>>
  BY <1>i DEF Arm, GraceTypeOK
<1>t. GraceTypeOK'
  BY <1>i, <1>c DEF Arm, GraceTypeOK, CallerRecords
<1> USE DEF Is, Asked, Claims, Armed
<1>1. GuardsHeld'
  BY <1>i, <1>c, <1>e DEF GuardsHeld, WindowInv
<1>2. EntryOwned'
  BY <1>i, <1>c, <1>e DEF EntryOwned, WindowInv
<1>3. OneTaker'
  BY <1>i, <1>c, <1>e DEF OneTaker
<1>4. WindowInv'
  BY <1>i, <1>c, <1>e DEF WindowInv, TakenInv
<1>5. TakenInv'
  BY <1>i, <1>c, <1>e DEF TakenInv, WindowInv
<1>6. ClaimInv'
  BY <1>i, <1>c, <1>e DEF ClaimInv, TakenInv
<1> QED
  BY <1>t, <1>1, <1>2, <1>3, <1>4, <1>5, <1>6 DEF GraceInv, NothingForgotten

(* Publish: those who wait are told and the timer starts.                  *)
LEMMA PublishInv ==
    ASSUME GraceInv, NEW r \in Requests, Publish(r)
    PROVE  GraceInv'
<1>i. /\ GraceTypeOK /\ GuardsHeld /\ EntryOwned
      /\ OneTaker /\ WindowInv /\ TakenInv /\ ClaimInv
      /\ \A p \in Requests : taken[p] \subseteq Requests
      /\ window = NoEntry <=> window.stage = "none"
      /\ window.stage # "none" => window.attempt \in Requests
  BY Shapes
<1>c. /\ caller' \in [Requests -> CallerRecords]
      /\ caller'[r].asks = caller[r].asks
      /\ caller'[r].stage = "over"
      /\ caller'[r].of = caller[r].of
      /\ \A q \in Requests : q # r => caller'[q] = caller[q]
  BY <1>i, ToChanges DEF Publish, RequestStages
<1>e. /\ Is(r, "schedule", "publishing")
      /\ ready'[r] = "armed" /\ \A q \in Requests : q # r => ready'[q] = ready[q]
      /\ timer'[r] = "sleeping" /\ \A q \in Requests : q # r => timer'[q] = timer[q]
      /\ UNCHANGED <<row, window, guard, closing, taken, outcome>>
  BY <1>i DEF Publish, GraceTypeOK
<1>t. GraceTypeOK'
  BY <1>i, <1>c DEF Publish, GraceTypeOK, CallerRecords
<1> USE DEF Is, Asked, Claims, Armed
<1>1. GuardsHeld'
  BY <1>i, <1>c, <1>e DEF GuardsHeld, WindowInv
<1>2. EntryOwned'
  BY <1>i, <1>c, <1>e DEF EntryOwned, WindowInv
<1>3. OneTaker'
  BY <1>i, <1>c, <1>e DEF OneTaker
<1>4. WindowInv'
  BY <1>i, <1>c, <1>e DEF WindowInv, TakenInv
<1>5. TakenInv'
  BY <1>i, <1>c, <1>e DEF TakenInv, WindowInv
<1>6. ClaimInv'
  BY <1>i, <1>c, <1>e DEF ClaimInv, TakenInv
<1> QED
  BY <1>t, <1>1, <1>2, <1>3, <1>4, <1>5, <1>6 DEF GraceInv, NothingForgotten

(* AbandonAttempt: the preparation ends without arming.                    *)
LEMMA AbandonInv ==
    ASSUME GraceInv, NEW r \in Requests, AbandonAttempt(r)
    PROVE  GraceInv'
<1>i. /\ GraceTypeOK /\ GuardsHeld /\ EntryOwned
      /\ OneTaker /\ WindowInv /\ TakenInv /\ ClaimInv
      /\ \A p \in Requests : taken[p] \subseteq Requests
      /\ window = NoEntry <=> window.stage = "none"
      /\ window.stage # "none" => window.attempt \in Requests
  BY Shapes
<1>c. /\ caller' \in [Requests -> CallerRecords]
      /\ caller'[r].asks = caller[r].asks
      /\ caller'[r].stage = "over"
      /\ caller'[r].of = caller[r].of
      /\ \A q \in Requests : q # r => caller'[q] = caller[q]
  BY <1>i, ToChanges DEF AbandonAttempt, RequestStages
<1>e. /\ Is(r, "schedule", "beginning") \/ Is(r, "schedule", "arming")
      /\ window'.stage = "none" /\ window'.attempt = NoAttempt
      /\ ready'[r] = "abandoned" /\ \A q \in Requests : q # r => ready'[q] = ready[q]
      /\ guard'[r] = (IF guard[r] = "owner" THEN "unresolved" ELSE guard[r])
      /\ \A q \in Requests : q # r => guard'[q] = guard[q]
      /\ UNCHANGED <<row, timer, closing, taken, outcome>>
  <2>1. window.attempt = r
    BY <1>i DEF AbandonAttempt, WindowInv, Is
  <2> QED
    BY <1>i, <2>1 DEF AbandonAttempt, GraceTypeOK, Is, NoEntry
<1>t. GraceTypeOK'
  BY <1>i, <1>c DEF AbandonAttempt, GraceTypeOK, CallerRecords
<1> USE DEF Is, Asked, Claims, Armed
<1>1. GuardsHeld'
  BY <1>i, <1>c, <1>e DEF GuardsHeld, WindowInv
<1>2. EntryOwned'
  BY <1>i, <1>c, <1>e DEF EntryOwned, WindowInv
<1>3. OneTaker'
  BY <1>i, <1>c, <1>e DEF OneTaker
<1>4. WindowInv'
  BY <1>i, <1>c, <1>e DEF WindowInv, TakenInv
<1>5. TakenInv'
  BY <1>i, <1>c, <1>e DEF TakenInv, WindowInv
<1>6. ClaimInv'
  BY <1>i, <1>c, <1>e DEF ClaimInv, TakenInv
<1> QED
  BY <1>t, <1>1, <1>2, <1>3, <1>4, <1>5, <1>6 DEF GraceInv, NothingForgotten

(* Fire, when the attempt is still armed: the timer takes it.              *)
LEMMA FireTakesInv ==
    ASSUME GraceInv, NEW a \in Requests, Fire(a), Armed(a)
    PROVE  GraceInv'
<1>i. /\ GraceTypeOK /\ GuardsHeld /\ EntryOwned
      /\ OneTaker /\ WindowInv /\ TakenInv /\ ClaimInv
      /\ \A p \in Requests : taken[p] \subseteq Requests
      /\ window = NoEntry <=> window.stage = "none"
      /\ window.stage # "none" => window.attempt \in Requests
  BY Shapes
<1>e. /\ timer[a] = "sleeping" /\ Armed(a) /\ taken[a] = {}
      /\ window'.stage = "none" /\ window'.attempt = NoAttempt
      /\ guard'[a] = "claim" /\ \A q \in Requests : q # a => guard'[q] = guard[q]
      /\ taken'[a] = {a} /\ \A q \in Requests : q # a => taken'[q] = taken[q]
      /\ timer'[a] = "deleting" /\ \A q \in Requests : q # a => timer'[q] = timer[q]
      /\ UNCHANGED <<row, ready, caller, closing, outcome>>
  <2>1. taken[a] = {}
    BY <1>i DEF WindowInv
  <2> QED
    BY <1>i, <2>1 DEF Fire, TakeEntry, GraceTypeOK, NoEntry
<1>t. GraceTypeOK'
  <2>1. taken' \in [Requests -> SUBSET Requests]
    BY <1>i DEF Fire, TakeEntry, GraceTypeOK
  <2>2. window' = NoEntry
    BY DEF Fire, TakeEntry
  <2> QED
    BY <1>i, <2>1, <2>2 DEF Fire, TakeEntry, GraceTypeOK
<1> USE DEF Is, Asked, Claims, Armed
<1>1. GuardsHeld'
  BY <1>i, <1>e DEF GuardsHeld, WindowInv
<1>2. EntryOwned'
  BY <1>i, <1>e DEF EntryOwned, WindowInv
<1>3. OneTaker'
  BY <1>i, <1>e DEF OneTaker, TakenInv
<1>4. WindowInv'
  BY <1>i, <1>e DEF WindowInv, TakenInv
<1>5. TakenInv'
  BY <1>i, <1>e DEF TakenInv, WindowInv
<1>6. ClaimInv'
  BY <1>i, <1>e DEF ClaimInv, TakenInv, WindowInv
<1> QED
  BY <1>t, <1>1, <1>2, <1>3, <1>4, <1>5, <1>6 DEF GraceInv, NothingForgotten

(* A timer ends that finds its attempt taken, or the daemon stopping.      *)
LEMMA OnlyTimer ==
    ASSUME GraceInv, NEW a \in Requests,
           timer[a] = "sleeping", ~Armed(a) \/ closing,
           timer' = [timer EXCEPT ![a] = "ended"],
           UNCHANGED <<row, window, ready, guard, caller, closing, taken, outcome>>
    PROVE  GraceInv'
<1>i. /\ GraceTypeOK /\ GuardsHeld /\ EntryOwned
      /\ OneTaker /\ WindowInv /\ TakenInv /\ ClaimInv
      /\ \A p \in Requests : taken[p] \subseteq Requests
      /\ window = NoEntry <=> window.stage = "none"
      /\ window.stage # "none" => window.attempt \in Requests
  BY Shapes
<1>e. /\ timer'[a] = "ended" /\ \A q \in Requests : q # a => timer'[q] = timer[q]
  BY <1>i DEF GraceTypeOK
<1>t. GraceTypeOK'
  BY <1>i DEF GraceTypeOK
<1> USE DEF Is, Asked, Claims, Armed
<1>1. GuardsHeld'
  BY <1>i, <1>e DEF GuardsHeld, WindowInv
<1>2. EntryOwned'
  BY <1>i, <1>e DEF EntryOwned, WindowInv
<1>3. OneTaker'
  BY <1>i, <1>e DEF OneTaker
<1>4. WindowInv'
  BY <1>i, <1>e DEF WindowInv, TakenInv
<1>5. TakenInv'
  BY <1>i, <1>e DEF TakenInv, WindowInv
<1>6. ClaimInv'
  BY <1>i, <1>e DEF ClaimInv, TakenInv
<1> QED
  BY <1>t, <1>1, <1>2, <1>3, <1>4, <1>5, <1>6 DEF GraceInv, NothingForgotten

(* TimerDeletes and TimerConfirms, when the timer's deletion ends: so does *)
(* its claim.                                                              *)
LEMMA TimerEndsInv ==
    ASSUME GraceInv, NEW a \in Requests, NEW how \in {"deleted", "failed"},
           timer[a] \in {"deleting", "confirming"},
           timer' = [timer EXCEPT ![a] = "ended"], Ended(a, how),
           row' = row, UNCHANGED <<window, ready, caller, closing, taken>>
    PROVE  GraceInv'
<1>i. /\ GraceTypeOK /\ GuardsHeld /\ EntryOwned
      /\ OneTaker /\ WindowInv /\ TakenInv /\ ClaimInv
      /\ \A p \in Requests : taken[p] \subseteq Requests
      /\ window = NoEntry <=> window.stage = "none"
      /\ window.stage # "none" => window.attempt \in Requests
  BY Shapes
<1>e. /\ timer[a] \in {"deleting", "confirming"}
      /\ timer'[a] = "ended" /\ \A q \in Requests : q # a => timer'[q] = timer[q]
      /\ guard'[a] \in {"settled", "unresolved"}
      /\ \A q \in Requests : q # a => guard'[q] = guard[q]
      /\ outcome'[a] \in {"deleted", "failed"}
      /\ \A q \in Requests : q # a => outcome'[q] = outcome[q]
      /\ UNCHANGED <<window, ready, caller, closing, taken>>
  BY <1>i DEF Ended, GraceTypeOK
<1>x. \A q \in Requests : Claims(q) => caller[q].of # a
  BY <1>i, <1>e DEF WindowInv, TakenInv, ClaimInv, OneTaker, Is, Asked, Claims
<1>t. GraceTypeOK'
  BY <1>i, ZenonT(60) DEF GraceTypeOK, CallerRecords, Ended
<1> USE DEF Is, Asked, Claims, Armed
<1>1. GuardsHeld'
  BY <1>i, <1>e, <1>x DEF GuardsHeld, WindowInv
<1>2. EntryOwned'
  BY <1>i, <1>e, <1>x DEF EntryOwned, WindowInv
<1>3. OneTaker'
  BY <1>i, <1>e, <1>x DEF OneTaker
<1>4. WindowInv'
  BY <1>i, <1>e, <1>x DEF WindowInv, TakenInv
<1>5. TakenInv'
  BY <1>i, <1>e, <1>x DEF TakenInv, WindowInv
<1>6. ClaimInv'
  BY <1>i, <1>e, <1>x DEF ClaimInv, TakenInv
<1> QED
  BY <1>t, <1>1, <1>2, <1>3, <1>4, <1>5, <1>6 DEF GraceInv, NothingForgotten

(* TimerDeletes, when the row is deleted: the timer keeps its claim.       *)
LEMMA TimerDeletedInv ==
    ASSUME GraceInv, NEW a \in Requests, timer[a] = "deleting",
           timer' = [timer EXCEPT ![a] = "confirming"], row' = FALSE,
           UNCHANGED <<window, ready, guard, caller, closing, taken, outcome>>
    PROVE  GraceInv'
<1>i. /\ GraceTypeOK /\ GuardsHeld /\ EntryOwned
      /\ OneTaker /\ WindowInv /\ TakenInv /\ ClaimInv
      /\ \A p \in Requests : taken[p] \subseteq Requests
      /\ window = NoEntry <=> window.stage = "none"
      /\ window.stage # "none" => window.attempt \in Requests
  BY Shapes
<1>e. /\ timer[a] = "deleting" /\ timer'[a] = "confirming"
      /\ \A q \in Requests : q # a => timer'[q] = timer[q]
      /\ UNCHANGED <<window, ready, guard, caller, closing, taken, outcome>>
  BY <1>i DEF GraceTypeOK
<1>t. GraceTypeOK'
  BY <1>i, ZenonT(60) DEF GraceTypeOK
<1> USE DEF Is, Asked, Claims, Armed
<1>1. GuardsHeld'
  BY <1>i, <1>e DEF GuardsHeld, WindowInv
<1>2. EntryOwned'
  BY <1>i, <1>e DEF EntryOwned, WindowInv
<1>3. OneTaker'
  BY <1>i, <1>e DEF OneTaker
<1>4. WindowInv'
  BY <1>i, <1>e DEF WindowInv, TakenInv
<1>5. TakenInv'
  BY <1>i, <1>e DEF TakenInv, WindowInv
<1>6. ClaimInv'
  BY <1>i, <1>e DEF ClaimInv, TakenInv
<1> QED
  BY <1>t, <1>1, <1>2, <1>3, <1>4, <1>5, <1>6 DEF GraceInv, NothingForgotten

(* TakeArmed, when the attempt is still armed: a cancel or a delete takes it. *)
LEMMA TakeArmedInv ==
    ASSUME GraceInv, NEW r \in Requests, TakeArmed(r), Armed(caller[r].of)
    PROVE  GraceInv'
<1>i. /\ GraceTypeOK /\ GuardsHeld /\ EntryOwned
      /\ OneTaker /\ WindowInv /\ TakenInv /\ ClaimInv
      /\ \A p \in Requests : taken[p] \subseteq Requests
      /\ window = NoEntry <=> window.stage = "none"
      /\ window.stage # "none" => window.attempt \in Requests
  BY Shapes
<1>c. /\ caller' \in [Requests -> CallerRecords]
      /\ caller'[r].asks = caller[r].asks
      /\ caller'[r].stage = "aborting"
      /\ caller'[r].of = caller[r].of
      /\ \A q \in Requests : q # r => caller'[q] = caller[q]
  BY <1>i, ToChanges DEF TakeArmed, RequestStages
<1>a. /\ caller[r].of \in Requests /\ taken[caller[r].of] = {}
  BY <1>i DEF WindowInv, Armed
<1>e. /\ Asked(r, "awaiting") /\ ready[caller[r].of] = "armed"
      /\ window'.stage = "none" /\ window'.attempt = NoAttempt
      /\ guard'[caller[r].of] = "claim"
      /\ \A q \in Requests : q # caller[r].of => guard'[q] = guard[q]
      /\ taken'[caller[r].of] = {r}
      /\ \A q \in Requests : q # caller[r].of => taken'[q] = taken[q]
      /\ UNCHANGED <<row, ready, timer, closing, outcome>>
  BY <1>i, <1>a DEF TakeArmed, TakeEntry, GraceTypeOK, NoEntry
<1>t. GraceTypeOK'
  <2>1. taken' \in [Requests -> SUBSET Requests]
    BY <1>i, <1>a DEF TakeArmed, TakeEntry, GraceTypeOK
  <2>2. window' = NoEntry /\ UNCHANGED <<row, ready, timer, closing, outcome>>
    BY DEF TakeArmed, TakeEntry
  <2>3. guard' = [guard EXCEPT ![caller[r].of] = "claim"]
    BY DEF TakeArmed, TakeEntry
  <2> QED
    BY <1>i, <1>a, <1>c, <2>1, <2>2, <2>3 DEF GraceTypeOK, CallerRecords
<1> USE DEF Is, Asked, Claims, Armed
<1>1. GuardsHeld'
  BY <1>i, <1>c, <1>a, <1>e DEF GuardsHeld, WindowInv
<1>2. EntryOwned'
  BY <1>i, <1>c, <1>a, <1>e DEF EntryOwned, WindowInv
<1>3. OneTaker'
  BY <1>i, <1>c, <1>a, <1>e DEF OneTaker, TakenInv
<1>4. WindowInv'
  BY <1>i, <1>c, <1>a, <1>e DEF WindowInv, TakenInv
<1>5. TakenInv'
  BY <1>i, <1>c, <1>a, <1>e DEF TakenInv, WindowInv
<1>6. ClaimInv'
  BY <1>i, <1>c, <1>a, <1>e DEF ClaimInv, TakenInv
<1> QED
  BY <1>t, <1>1, <1>2, <1>3, <1>4, <1>5, <1>6 DEF GraceInv, NothingForgotten

(* AbortTimer: its timer is stopped.                                       *)
LEMMA AbortTimerInv ==
    ASSUME GraceInv, NEW r \in Requests, AbortTimer(r)
    PROVE  GraceInv'
<1>i. /\ GraceTypeOK /\ GuardsHeld /\ EntryOwned
      /\ OneTaker /\ WindowInv /\ TakenInv /\ ClaimInv
      /\ \A p \in Requests : taken[p] \subseteq Requests
      /\ window = NoEntry <=> window.stage = "none"
      /\ window.stage # "none" => window.attempt \in Requests
  BY Shapes
<1>c. /\ caller' \in [Requests -> CallerRecords]
      /\ caller'[r].asks = caller[r].asks
      /\ caller'[r].stage = (IF caller[r].asks = "cancel" THEN "settling" ELSE "deleting")
      /\ caller'[r].of = caller[r].of
      /\ \A q \in Requests : q # r => caller'[q] = caller[q]
  BY <1>i, ToChanges DEF AbortTimer, RequestStages
<1>a. /\ caller[r].of \in Requests /\ r \in taken[caller[r].of]
  BY <1>i DEF ClaimInv, AbortTimer, Claims
<1>e. /\ Asked(r, "aborting")
      /\ timer'[caller[r].of] = "ended"
      /\ \A q \in Requests : q # caller[r].of => timer'[q] = timer[q]
      /\ UNCHANGED <<row, window, ready, guard, closing, taken, outcome>>
  BY <1>i, <1>a DEF AbortTimer, GraceTypeOK
<1>t. GraceTypeOK'
  BY <1>i, <1>a, <1>c DEF AbortTimer, GraceTypeOK, CallerRecords
<1> USE DEF Is, Asked, Claims, Armed
<1>1. GuardsHeld'
  BY <1>i, <1>c, <1>a, <1>e DEF GuardsHeld, WindowInv
<1>2. EntryOwned'
  BY <1>i, <1>c, <1>a, <1>e DEF EntryOwned, WindowInv
<1>3. OneTaker'
  BY <1>i, <1>c, <1>a, <1>e DEF OneTaker, TakenInv, ClaimInv
<1>4. WindowInv'
  BY <1>i, <1>c, <1>a, <1>e DEF WindowInv, TakenInv
<1>5. TakenInv'
  BY <1>i, <1>c, <1>a, <1>e DEF TakenInv, WindowInv
<1>6. ClaimInv'
  BY <1>i, <1>c, <1>a, <1>e DEF ClaimInv, TakenInv
<1> QED
  BY <1>t, <1>1, <1>2, <1>3, <1>4, <1>5, <1>6 DEF GraceInv, NothingForgotten

(* Settle: a cancel ends its attempt.                                      *)
LEMMA SettleInv ==
    ASSUME GraceInv, NEW r \in Requests, Settle(r)
    PROVE  GraceInv'
<1>i. /\ GraceTypeOK /\ GuardsHeld /\ EntryOwned
      /\ OneTaker /\ WindowInv /\ TakenInv /\ ClaimInv
      /\ \A p \in Requests : taken[p] \subseteq Requests
      /\ window = NoEntry <=> window.stage = "none"
      /\ window.stage # "none" => window.attempt \in Requests
  BY Shapes
<1>c. /\ caller' \in [Requests -> CallerRecords]
      /\ caller'[r].asks = caller[r].asks
      /\ caller'[r].stage = "over"
      /\ caller'[r].of = caller[r].of
      /\ \A q \in Requests : q # r => caller'[q] = caller[q]
  BY <1>i, ToChanges DEF Settle, RequestStages
<1>a. /\ caller[r].of \in Requests /\ r \in taken[caller[r].of]
  BY <1>i DEF ClaimInv, Settle, Is, Asked, Claims
<1>e. /\ Is(r, "cancel", "settling")
      /\ guard'[caller[r].of] \in {"settled", "unresolved"}
      /\ \A q \in Requests : q # caller[r].of => guard'[q] = guard[q]
      /\ outcome'[caller[r].of] \in {"cancelled", "failed"}
      /\ \A q \in Requests : q # caller[r].of => outcome'[q] = outcome[q]
      /\ UNCHANGED <<window, ready, timer, closing, taken>>
  <2>1. PICK how \in {"cancelled", "failed"} : Ended(caller[r].of, how)
    BY Zenon DEF Settle
  <2>2. /\ Is(r, "cancel", "settling")
        /\ UNCHANGED <<window, ready, timer, closing, taken>>
    BY DEF Settle
  <2> QED
    BY <1>i, <1>a, <2>1, <2>2 DEF Ended, GraceTypeOK
<1>x. /\ \A q \in Requests : Claims(q) => q = r \/ caller[q].of # caller[r].of
      /\ timer[caller[r].of] \notin {"deleting", "confirming"}
  BY <1>i, <1>a, <1>e DEF WindowInv, TakenInv, ClaimInv, OneTaker, Is, Asked, Claims
<1>t. GraceTypeOK'
  <2>1. row' \in BOOLEAN /\ closing' \in BOOLEAN
    BY <1>i, Zenon DEF Settle, GraceTypeOK, Ended
  <2>2. QED
    BY <1>i, <2>1, <1>a, <1>c, ZenonT(60) DEF Settle, GraceTypeOK, CallerRecords, Ended
<1> USE DEF Is, Asked, Claims, Armed
<1>1. GuardsHeld'
  BY <1>i, <1>c, <1>a, <1>e, <1>x DEF GuardsHeld, WindowInv
<1>2. EntryOwned'
  BY <1>i, <1>c, <1>a, <1>e, <1>x DEF EntryOwned, WindowInv
<1>3. OneTaker'
  BY <1>i, <1>c, <1>a, <1>e, <1>x DEF OneTaker
<1>4. WindowInv'
  BY <1>i, <1>c, <1>a, <1>e, <1>x DEF WindowInv, TakenInv
<1>5. TakenInv'
  BY <1>i, <1>c, <1>a, <1>e, <1>x DEF TakenInv, WindowInv
<1>6. ClaimInv'
  BY <1>i, <1>c, <1>a, <1>e, <1>x DEF ClaimInv, TakenInv
<1> QED
  BY <1>t, <1>1, <1>2, <1>3, <1>4, <1>5, <1>6 DEF GraceInv, NothingForgotten

(* Delete and Confirm, when a deletion ends: so does its claim.            *)
LEMMA DeleteEndsInv ==
    ASSUME GraceInv, NEW r \in Requests, NEW how \in {"deleted", "failed"},
           Is(r, "delete", "deleting") \/ Is(r, "delete", "confirming"),
           To(r, "over"), Ended(caller[r].of, how),
           row' = row, UNCHANGED <<window, ready, timer, closing, taken>>
    PROVE  GraceInv'
<1>i. /\ GraceTypeOK /\ GuardsHeld /\ EntryOwned
      /\ OneTaker /\ WindowInv /\ TakenInv /\ ClaimInv
      /\ \A p \in Requests : taken[p] \subseteq Requests
      /\ window = NoEntry <=> window.stage = "none"
      /\ window.stage # "none" => window.attempt \in Requests
  BY Shapes
<1>c. /\ caller' \in [Requests -> CallerRecords]
      /\ caller'[r].asks = caller[r].asks
      /\ caller'[r].stage = "over"
      /\ caller'[r].of = caller[r].of
      /\ \A q \in Requests : q # r => caller'[q] = caller[q]
  BY <1>i, ToChanges DEF RequestStages
<1>a. /\ caller[r].of \in Requests /\ r \in taken[caller[r].of]
  BY <1>i DEF ClaimInv, Is, Asked, Claims
<1>e. /\ Is(r, "delete", "deleting") \/ Is(r, "delete", "confirming")
      /\ guard'[caller[r].of] \in {"settled", "unresolved"}
      /\ \A q \in Requests : q # caller[r].of => guard'[q] = guard[q]
      /\ outcome'[caller[r].of] \in {"deleted", "failed"}
      /\ \A q \in Requests : q # caller[r].of => outcome'[q] = outcome[q]
      /\ UNCHANGED <<window, ready, timer, closing, taken>>
  BY <1>i, <1>a DEF Ended, GraceTypeOK
<1>x. /\ \A q \in Requests : Claims(q) => q = r \/ caller[q].of # caller[r].of
      /\ timer[caller[r].of] \notin {"deleting", "confirming"}
  BY <1>i, <1>a, <1>e DEF WindowInv, TakenInv, ClaimInv, OneTaker, Is, Asked, Claims
<1>t. GraceTypeOK'
  BY <1>i, <1>a, <1>c, ZenonT(60) DEF GraceTypeOK, CallerRecords, Ended
<1> USE DEF Is, Asked, Claims, Armed
<1>1. GuardsHeld'
  BY <1>i, <1>c, <1>a, <1>e, <1>x DEF GuardsHeld, WindowInv
<1>2. EntryOwned'
  BY <1>i, <1>c, <1>a, <1>e, <1>x DEF EntryOwned, WindowInv
<1>3. OneTaker'
  BY <1>i, <1>c, <1>a, <1>e, <1>x DEF OneTaker
<1>4. WindowInv'
  BY <1>i, <1>c, <1>a, <1>e, <1>x DEF WindowInv, TakenInv
<1>5. TakenInv'
  BY <1>i, <1>c, <1>a, <1>e, <1>x DEF TakenInv, WindowInv
<1>6. ClaimInv'
  BY <1>i, <1>c, <1>a, <1>e, <1>x DEF ClaimInv, TakenInv
<1> QED
  BY <1>t, <1>1, <1>2, <1>3, <1>4, <1>5, <1>6 DEF GraceInv, NothingForgotten

(* Delete, when the row is deleted: the request keeps its claim.           *)
LEMMA DeletedInv ==
    ASSUME GraceInv, NEW r \in Requests, Is(r, "delete", "deleting"),
           To(r, "confirming"), row' = FALSE,
           UNCHANGED <<window, ready, guard, timer, closing, taken, outcome>>
    PROVE  GraceInv'
<1>i. /\ GraceTypeOK /\ GuardsHeld /\ EntryOwned
      /\ OneTaker /\ WindowInv /\ TakenInv /\ ClaimInv
      /\ \A p \in Requests : taken[p] \subseteq Requests
      /\ window = NoEntry <=> window.stage = "none"
      /\ window.stage # "none" => window.attempt \in Requests
  BY Shapes
<1>c. /\ caller' \in [Requests -> CallerRecords]
      /\ caller'[r].asks = caller[r].asks
      /\ caller'[r].stage = "confirming"
      /\ caller'[r].of = caller[r].of
      /\ \A q \in Requests : q # r => caller'[q] = caller[q]
  BY <1>i, ToChanges DEF RequestStages
<1>e. /\ Is(r, "delete", "deleting")
      /\ UNCHANGED <<window, ready, guard, timer, closing, taken, outcome>>
  OBVIOUS
<1>t. GraceTypeOK'
  BY <1>i, <1>c, ZenonT(60) DEF GraceTypeOK, CallerRecords
<1> USE DEF Is, Asked, Claims, Armed
<1>1. GuardsHeld'
  BY <1>i, <1>c, <1>e DEF GuardsHeld, WindowInv
<1>2. EntryOwned'
  BY <1>i, <1>c, <1>e DEF EntryOwned, WindowInv
<1>3. OneTaker'
  BY <1>i, <1>c, <1>e DEF OneTaker
<1>4. WindowInv'
  BY <1>i, <1>c, <1>e DEF WindowInv, TakenInv
<1>5. TakenInv'
  BY <1>i, <1>c, <1>e DEF TakenInv, WindowInv
<1>6. ClaimInv'
  BY <1>i, <1>c, <1>e DEF ClaimInv, TakenInv
<1> QED
  BY <1>t, <1>1, <1>2, <1>3, <1>4, <1>5, <1>6 DEF GraceInv, NothingForgotten

(* OwnGuard: a delete with nothing pending has an attempt of its own.      *)
LEMMA OwnGuardInv ==
    ASSUME GraceInv, NEW r \in Requests, OwnGuard(r)
    PROVE  GraceInv'
<1>i. /\ GraceTypeOK /\ GuardsHeld /\ EntryOwned
      /\ OneTaker /\ WindowInv /\ TakenInv /\ ClaimInv
      /\ \A p \in Requests : taken[p] \subseteq Requests
      /\ window = NoEntry <=> window.stage = "none"
      /\ window.stage # "none" => window.attempt \in Requests
  BY Shapes
<1>c. /\ caller' \in [Requests -> CallerRecords]
      /\ caller'[r].asks = caller[r].asks
      /\ caller'[r].stage = "deleting"
      /\ caller'[r].of = r
      /\ \A q \in Requests : q # r => caller'[q] = caller[q]
  BY <1>i, ToWithChanges DEF OwnGuard, RequestStages, Attempts
<1>e. /\ Is(r, "delete", "guarding") /\ taken[r] = {}
      /\ guard'[r] = "claim" /\ \A q \in Requests : q # r => guard'[q] = guard[q]
      /\ taken'[r] = {r} /\ \A q \in Requests : q # r => taken'[q] = taken[q]
      /\ UNCHANGED <<row, window, ready, timer, closing, outcome>>
  <2>1. taken[r] = {}
    BY <1>i DEF OwnGuard, TakenInv, Is
  <2> QED
    BY <1>i, <2>1 DEF OwnGuard, GraceTypeOK
<1>t. GraceTypeOK'
  BY <1>i, <1>c DEF OwnGuard, GraceTypeOK, CallerRecords
<1> USE DEF Is, Asked, Claims, Armed
<1>1. GuardsHeld'
  BY <1>i, <1>c, <1>e DEF GuardsHeld, WindowInv
<1>2. EntryOwned'
  BY <1>i, <1>c, <1>e DEF EntryOwned, WindowInv
<1>3. OneTaker'
  BY <1>i, <1>c, <1>e DEF OneTaker, TakenInv
<1>4. WindowInv'
  BY <1>i, <1>c, <1>e DEF WindowInv, TakenInv
<1>5. TakenInv'
  BY <1>i, <1>c, <1>e DEF TakenInv, WindowInv
<1>6. ClaimInv'
  BY <1>i, <1>c, <1>e DEF ClaimInv, TakenInv
<1> QED
  BY <1>t, <1>1, <1>2, <1>3, <1>4, <1>5, <1>6 DEF GraceInv, NothingForgotten

(* DaemonStops: no timer is admitted any more.                             *)
LEMMA DaemonStopsInv ==
    ASSUME GraceInv, DaemonStops
    PROVE  GraceInv'
<1>i. /\ GraceTypeOK /\ GuardsHeld /\ EntryOwned
      /\ OneTaker /\ WindowInv /\ TakenInv /\ ClaimInv
      /\ \A p \in Requests : taken[p] \subseteq Requests
      /\ window = NoEntry <=> window.stage = "none"
      /\ window.stage # "none" => window.attempt \in Requests
  BY Shapes
<1>e. /\ closing' = TRUE
      /\ UNCHANGED <<row, window, ready, guard, timer, caller, taken, outcome>>
  BY DEF DaemonStops
<1>t. GraceTypeOK'
  <2>1. closing' \in BOOLEAN
    BY <1>e, Zenon
  <2> QED
    BY <1>i, <1>e, <2>1 DEF GraceTypeOK
<1> USE DEF Is, Asked, Claims, Armed
<1>1. GuardsHeld'
  BY <1>i, <1>e DEF GuardsHeld, WindowInv
<1>2. EntryOwned'
  BY <1>i, <1>e DEF EntryOwned, WindowInv
<1>3. OneTaker'
  BY <1>i, <1>e DEF OneTaker
<1>4. WindowInv'
  BY <1>i, <1>e DEF WindowInv, TakenInv
<1>5. TakenInv'
  BY <1>i, <1>e DEF TakenInv, WindowInv
<1>6. ClaimInv'
  BY <1>i, <1>e DEF ClaimInv, TakenInv
<1> QED
  BY <1>t, <1>1, <1>2, <1>3, <1>4, <1>5, <1>6 DEF GraceInv, NothingForgotten

-----------------------------------------------------------------------------
(* Every step keeps the invariant.                                         *)
LEMMA GraceInvNext == GraceInv /\ [GraceNext]_graceVars => GraceInv'
<1> SUFFICES ASSUME GraceInv, [GraceNext]_graceVars PROVE GraceInv'
  OBVIOUS
<1>i. GraceTypeOK /\ (window.stage # "none" => window.attempt \in Requests)
      /\ (window = NoEntry <=> window.stage = "none")
  BY Shapes
<1>1. ASSUME NEW r \in Requests, Look(r) PROVE GraceInv'
  <2>1. /\ caller[r].stage = "idle"
        /\ UNCHANGED <<row, window, ready, guard, timer, closing, taken, outcome>>
    BY <1>1 DEF Look
  <2>2. PICK asks \in Asks, s \in {"looked", "over"} :
          caller' = [caller EXCEPT ![r] = [@ EXCEPT !.asks = asks, !.stage = s]]
    BY <1>1 DEF Look
  <2>3. caller' \in [Requests -> CallerRecords] /\ caller'[r].stage = s
        /\ \A q \in Requests : q # r => caller'[q] = caller[q]
    <3>1. s \in RequestStages /\ asks \in Asks \cup {"none"}
      BY <2>2 DEF RequestStages
    <3> QED
      BY <1>i, <2>2, <3>1, ZenonT(60) DEF GraceTypeOK, CallerRecords
  <2> QED
    BY <2>1, <2>3, OnlyCaller
<1>2. ASSUME NEW r \in Requests, ScheduleJoins(r) PROVE GraceInv'
  <2>1. ToWith(r, "joining", window.attempt) /\ caller[r].stage = "looked"
        /\ window.attempt \in Attempts
        /\ UNCHANGED <<row, window, ready, guard, timer, closing, taken, outcome>>
    BY <1>2, <1>i DEF ScheduleJoins, Is, Attempts
  <2> QED
    BY <1>i, <2>1, ToWithChanges, OnlyCaller DEF RequestStages
<1>3. ASSUME NEW r \in Requests, Joined(r) \/ Dropped(r) PROVE GraceInv'
  <2>1. To(r, "over") /\ caller[r].stage \in {"looked", "joining", "awaiting", "guarding"}
        /\ UNCHANGED <<row, window, ready, guard, timer, closing, taken, outcome>>
    BY <1>3 DEF Joined, Dropped, Is
  <2> QED
    BY <1>i, <2>1, ToChanges, OnlyCaller DEF RequestStages
<1>4. ASSUME NEW r \in Requests, Find(r) PROVE GraceInv'
  <2>1. caller[r].stage = "looked" /\ Nothing(r) \in {"over", "guarding"}
        /\ UNCHANGED <<row, window, ready, guard, timer, closing, taken, outcome>>
    BY <1>4 DEF Find, Asked, Is, Nothing
  <2>2. CASE window = NoEntry
    <3>1. To(r, Nothing(r))
      BY <1>4, <2>2 DEF Find
    <3> QED
      BY <1>i, <2>1, <3>1, ToChanges, OnlyCaller DEF RequestStages
  <2>3. CASE window # NoEntry
    <3>1. ToWith(r, "awaiting", window.attempt) /\ window.attempt \in Attempts
      BY <1>4, <1>i, <2>3 DEF Find, Attempts
    <3> QED
      BY <1>i, <2>1, <3>1, ToWithChanges, OnlyCaller DEF RequestStages
  <2> QED
    BY <2>2, <2>3
<1>5. ASSUME NEW r \in Requests, FoundAbandoned(r) \/ (TakeArmed(r) /\ ~Armed(caller[r].of))
      PROVE  GraceInv'
  <2>1. caller[r].stage = "awaiting" /\ Nothing(r) \in {"over", "guarding"}
        /\ ToWith(r, Nothing(r), NoAttempt) /\ NoAttempt \in Attempts
        /\ UNCHANGED <<row, window, ready, guard, timer, closing, taken, outcome>>
    BY <1>5 DEF FoundAbandoned, TakeArmed, Asked, Is, Nothing, Attempts
  <2> QED
    BY <1>i, <2>1, ToWithChanges, OnlyCaller DEF RequestStages
<1>6. ASSUME NEW r \in Requests, TakeArmed(r) PROVE GraceInv'
  BY <1>5, <1>6, TakeArmedInv
<1>7. ASSUME NEW a \in Requests, Fire(a) PROVE GraceInv'
  <2>1. CASE ~Armed(a)
    BY <1>7, <2>1, OnlyTimer DEF Fire
  <2> QED
    BY <1>7, <2>1, FireTakesInv
<1>8. ASSUME NEW a \in Requests, TimerStops(a) PROVE GraceInv'
  BY <1>8, OnlyTimer DEF TimerStops
<1>10. ASSUME NEW a \in Requests, TimerDeletes(a) \/ TimerConfirms(a) PROVE GraceInv'
  <2>1. CASE TimerConfirms(a)
    BY <2>1, TimerEndsInv DEF TimerConfirms
  <2>2. CASE TimerDeletes(a)
    BY <2>2, TimerEndsInv, TimerDeletedInv DEF TimerDeletes
  <2> QED
    BY <1>10, <2>1, <2>2
<1>11. ASSUME NEW r \in Requests, Delete(r) \/ Confirm(r) PROVE GraceInv'
  <2>1. CASE Confirm(r)
    BY <2>1, DeleteEndsInv DEF Confirm
  <2>2. CASE Delete(r)
    BY <2>2, DeleteEndsInv, DeletedInv DEF Delete
  <2> QED
    BY <1>11, <2>1, <2>2
<1>9. CASE UNCHANGED graceVars
  BY <1>9 DEF graceVars, GraceInv, NothingForgotten, GraceTypeOK, GuardsHeld, EntryOwned,
              OneTaker, WindowInv, TakenInv, ClaimInv, Is, Asked, Claims, Armed
<1> QED
  BY <1>1, <1>2, <1>3, <1>4, <1>5, <1>6, <1>7, <1>8, <1>9, <1>10, <1>11, EntersInv, BeginInv, ArmInv,
     PublishInv, AbandonInv, AbortTimerInv, SettleInv,
     OwnGuardInv, DaemonStopsInv
     DEF GraceNext, RequestStep, TimerStep

(* GraceInv holds in every state of every behaviour.                       *)
THEOREM GraceInvariant == GraceSpec => []GraceInv
  BY InitGraceInv, GraceInvNext, PTL DEF GraceSpec

(* However timers, cancels and deletes race for a pending deletion, one of *)
(* them takes it, a timer takes only its own, and what was cancelled is    *)
(* worked on by nobody afterwards (take_armed and cancel_owned).           *)
THEOREM TakenOnce == GraceSpec => []OneTaker
  <1>1. GraceInv => OneTaker
    BY DEF GraceInv
  <1> QED
    BY <1>1, GraceInvariant, PTL

(* No guard and no entry is left that no task will settle or remove,       *)
(* whichever requests are dropped while they wait (PreparationOwner::drop).*)
THEOREM GuardsAndEntriesOwned == GraceSpec => []NothingForgotten
  <1>1. GraceInv => NothingForgotten
    BY DEF GraceInv
  <1> QED
    BY <1>1, GraceInvariant, PTL

-----------------------------------------------------------------------------
(***************************************************************************)
(* StatusCache.  A step that neither invalidates nor begins a scan keeps   *)
(* CacheInv by QuietStep.                                                  *)
(***************************************************************************)
(* A slot that is not in the map has no generation and caches nothing.     *)
LEMMA SlotShape ==
    ASSUME CacheTypeOK
    PROVE  /\ slot.gen \in 0..MaxInvalidations /\ slot.cached \in Statuses
           /\ slot.present \/ (slot.gen = 0 /\ slot.cached = NoStatus)
<1>1. slot = NoSlot \/ slot \in [present : {TRUE}, gen : 0..MaxInvalidations, cached : Statuses]
  BY DEF CacheTypeOK, Slots
<1>2. CASE slot = NoSlot
  BY <1>2, CacheAssumption DEF NoSlot, Statuses
<1>3. CASE slot \in [present : {TRUE}, gen : 0..MaxInvalidations, cached : Statuses]
  BY <1>3
<1> QED
  BY <1>1, <1>2, <1>3

(* What the steps below need of the types.                                 *)
LEMMA CacheShapes ==
    ASSUME CacheTypeOK
    PROVE  /\ tree \in Int /\ seen \in Int /\ slot.gen \in Nat /\ slot.cached \in Int
           /\ \A r \in Readers : /\ reading[r].since \in Int /\ reading[r].min \in Int
                                 /\ reading[r].gen \in Int /\ reading[r].got \in Int
                                 /\ reading[r].fl \in Flights \cup {NoFlight}
           /\ \A f \in Flights : flight[f].gen \in Int /\ flight[f].scanned \in Int
<1>1. tree \in Int /\ seen \in Int /\ slot.gen \in Nat /\ slot.cached \in Int
  <2>1. tree \in Int /\ seen \in Int
    BY CacheAssumption DEF CacheTypeOK, Versions
  <2>2. slot = NoSlot \/ slot \in [present : {TRUE}, gen : 0..MaxInvalidations, cached : Statuses]
    BY DEF CacheTypeOK, Slots
  <2>3. CASE slot = NoSlot
    BY <2>1, <2>3 DEF NoSlot, NoStatus
  <2>4. CASE slot \in [present : {TRUE}, gen : 0..MaxInvalidations, cached : Statuses]
    BY <2>1, <2>4, CacheAssumption DEF Statuses, Versions, NoStatus
  <2> QED
    BY <2>2, <2>3, <2>4
<1>2. ASSUME NEW r \in Readers
      PROVE  /\ reading[r].since \in Int /\ reading[r].min \in Int
             /\ reading[r].gen \in Int /\ reading[r].got \in Int
             /\ reading[r].fl \in Flights \cup {NoFlight}
  BY CacheAssumption DEF CacheTypeOK, Versions, Statuses, NoStatus, ReaderRecords
<1>3. ASSUME NEW f \in Flights PROVE flight[f].gen \in Int /\ flight[f].scanned \in Int
  BY CacheAssumption DEF CacheTypeOK, Versions, FlightRecords
<1> QED
  BY <1>1, <1>2, <1>3

(* A reader that goes on to another stage changes nothing else.            *)
LEMMA GoChanges ==
    ASSUME CacheTypeOK, NEW r \in Readers, NEW s \in Stages, Go(r, s)
    PROVE  /\ reading' \in [Readers -> ReaderRecords]
           /\ reading'[r].stage = s
           /\ \A q \in Readers : q # r => reading'[q] = reading[q]
           /\ reading'[r].fresh = reading[r].fresh /\ reading'[r].min = reading[r].min
           /\ reading'[r].since = reading[r].since /\ reading'[r].gen = reading[r].gen
           /\ reading'[r].fl = reading[r].fl
  BY DEF CacheTypeOK, Go, ReaderRecords

(* What a reader keeps that goes round again ...                           *)
LEMMA AgainChanges ==
    ASSUME CacheTypeOK, NEW r \in Readers, Again(r)
    PROVE  /\ reading' \in [Readers -> ReaderRecords]
           /\ reading'[r].stage = "loop"
           /\ \A q \in Readers : q # r => reading'[q] = reading[q]
           /\ reading'[r].fresh = reading[r].fresh /\ reading'[r].min = reading[r].min
           /\ reading'[r].since = reading[r].since /\ reading'[r].gen = 0
           /\ reading'[r].fl = NoFlight
<1>1. 0 \in 0..MaxInvalidations
  BY CacheAssumption
<1> QED
  BY <1>1, ZenonT(60) DEF CacheTypeOK, Again, ReaderRecords, Stages, Outcomes

(* ... and one that returns.                                               *)
LEMMA ReturnChanges ==
    ASSUME CacheTypeOK, NEW r \in Readers, NEW o \in Outcomes, NEW v \in Statuses, Return(r, o, v)
    PROVE  /\ reading' \in [Readers -> ReaderRecords]
           /\ reading'[r].stage = "done"
           /\ \A q \in Readers : q # r => reading'[q] = reading[q]
           /\ reading'[r].fresh = reading[r].fresh
           /\ reading'[r].since = reading[r].since /\ reading'[r].gen = 0
           /\ reading'[r].fl = NoFlight /\ reading'[r].outcome = o /\ reading'[r].got = v
<1>1. 0 \in 0..MaxInvalidations
  BY CacheAssumption
<1> QED
  BY <1>1 DEF CacheTypeOK, Return, NewReader, ReaderRecords, Stages, Outcomes

(* entry(key).or_default() keeps the generation and what is cached.        *)
LEMMA EntryKeeps ==
    ASSUME CacheTypeOK, NEW v \in Statuses
    PROVE  /\ Entry \in Slots /\ Entry.present
           /\ Entry.gen = slot.gen /\ Entry.cached = slot.cached
           /\ [Entry EXCEPT !.cached = v] \in Slots
           /\ [Entry EXCEPT !.cached = v].present
           /\ [Entry EXCEPT !.cached = v].gen = slot.gen
           /\ [Entry EXCEPT !.cached = v].cached = v
<1>1. slot = NoSlot \/ slot \in [present : {TRUE}, gen : 0..MaxInvalidations, cached : Statuses]
  BY DEF CacheTypeOK, Slots
<1>2. CASE slot = NoSlot
  <2>1. 0 \in 0..MaxInvalidations /\ NoStatus \in Statuses
    BY CacheAssumption DEF Statuses
  <2> QED
    BY <1>2, <2>1 DEF NoSlot, Entry, Slots
<1>3. CASE slot \in [present : {TRUE}, gen : 0..MaxInvalidations, cached : Statuses]
  BY <1>3 DEF Entry, Slots
<1> QED
  BY <1>1, <1>2, <1>3

(* Letting a flight go frees at most that one, and none that another       *)
(* reader refers to.                                                       *)
LEMMA LetGoKeeps ==
    ASSUME CacheTypeOK, NEW r \in Readers, NEW fl \in [Flights -> FlightRecords]
    PROVE  /\ LetGo(r, fl) \in [Flights -> FlightRecords]
           /\ \A q \in Readers : q # r /\ reading[q].fl \in Flights =>
                LetGo(r, fl)[reading[q].fl] = fl[reading[q].fl]
<1>1. NewFlight(0, 0) \in FlightRecords
  BY CacheAssumption DEF NewFlight, FlightRecords, Versions, Outcomes
<1> QED
  BY <1>1 DEF LetGo

(* A flight whose result or retirement is noted keeps its scan.            *)
LEMMA FlightNotes ==
    ASSUME CacheTypeOK, NEW g \in Flights, NEW o \in Outcomes
    PROVE  /\ [flight EXCEPT ![g].result = o] \in [Flights -> FlightRecords]
           /\ [flight EXCEPT ![g].retired = TRUE] \in [Flights -> FlightRecords]
           /\ \A f \in Flights :
                /\ [flight EXCEPT ![g].result = o][f].gen = flight[f].gen
                /\ [flight EXCEPT ![g].result = o][f].scanned = flight[f].scanned
                /\ [flight EXCEPT ![g].retired = TRUE][f].gen = flight[f].gen
                /\ [flight EXCEPT ![g].retired = TRUE][f].scanned = flight[f].scanned
  BY DEF CacheTypeOK, FlightRecords
-----------------------------------------------------------------------------
(* The step leaves the scan of flight f as it is.                          *)
Same(f) == flight'[f].gen = flight[f].gen /\ flight'[f].scanned = flight[f].scanned

(* A step of reader r that neither invalidates nor begins a scan: whatever *)
(* flight it goes on with is one that a reader referred to before.         *)
LEMMA QuietStep ==
    ASSUME CacheInv, ~evicted, NEW r \in Readers, CacheTypeOK', FlightsHeld',
           \A q \in Readers : q # r => reading'[q] = reading[q],
           \A q \in Readers : q # r /\ reading[q].fl # NoFlight => Same(reading[q].fl),
           reading'[r].fl # NoFlight =>
             Same(reading'[r].fl) /\ \E q \in Readers : reading[q].fl = reading'[r].fl,
           reading'[r].since = reading[r].since, reading'[r].gen <= slot.gen,
           reading'[r].stage = "done" \/ reading'[r].min = reading[r].min,
           reading[r].stage # "done", reading'[r].stage # "idle",
           slot'.gen = slot.gen, slot'.present, tree' = tree, seen' = seen,
           slot'.cached \in {slot.cached, NoStatus} \/ slot'.cached >= seen,
           reading'[r].stage = "done" /\ reading'[r].fresh /\ reading'[r].outcome = "ok" =>
             reading'[r].got >= reading[r].since,
           evicted' = evicted
    PROVE  CacheInv'
<1>s. /\ tree \in Int /\ seen \in Int /\ slot.gen \in Int
      /\ \A q \in Readers : /\ reading[q].since \in Int /\ reading[q].min \in Int
                            /\ reading[q].fl \in Flights \cup {NoFlight}
      /\ \A f \in Flights : flight[f].gen \in Int /\ flight[f].scanned \in Int
  BY CacheShapes DEF CacheInv
<1>o. FlightsOrdered /\ ReadersOrdered
  BY DEF CacheInv
<1>1. FlightsOrdered'
  <2> SUFFICES ASSUME NEW p \in Readers, reading'[p].fl # NoFlight
               PROVE  /\ flight'[reading'[p].fl].gen <= slot.gen
                      /\ flight'[reading'[p].fl].gen = slot.gen => flight'[reading'[p].fl].scanned >= seen
                      /\ \A q \in Readers : reading'[q].stage # "done" /\ flight'[reading'[p].fl].gen >= reading'[q].min =>
                            flight'[reading'[p].fl].scanned >= reading'[q].since
    BY DEF FlightsOrdered, Own, At
  <2>1. PICK o \in Readers : reading[o].fl = reading'[p].fl /\ Same(reading[o].fl)
    OBVIOUS
  <2>2. /\ flight[reading'[p].fl].gen <= slot.gen
        /\ flight[reading'[p].fl].gen = slot.gen => flight[reading'[p].fl].scanned >= seen
        /\ \A q \in Readers : reading[q].stage # "done" /\ flight[reading'[p].fl].gen >= reading[q].min =>
              flight[reading'[p].fl].scanned >= reading[q].since
    BY <1>o, <2>1 DEF FlightsOrdered, Own, At
  <2> QED
    BY <2>1, <2>2 DEF Same
<1>2. ReadersOrdered'
  BY <1>s, <1>o DEF ReadersOrdered, At
<1>3. CachedSinceInvalidation'
  BY <1>s DEF CacheInv, CachedSinceInvalidation
<1>4. FreshReads'
  BY <1>s DEF CacheInv, FreshReads, At
<1> QED
  BY <1>1, <1>2, <1>3, <1>4 DEF CacheInv

(* GetScans: the cached status is dropped and the reader scans.            *)
LEMMA GetScansInv ==
    ASSUME CacheInv, NEW r \in Readers, GetScans(r)
    PROVE  CacheInv'
<1>i. CacheTypeOK /\ FlightsHeld /\ evicted' = evicted
  BY DEF CacheInv, GetScans
<1>s. slot.gen \in Nat /\ \A q \in Readers : reading[q].fl \in Flights \cup {NoFlight}
  BY <1>i, CacheShapes
<1>1. /\ slot' \in Slots /\ slot'.present /\ slot'.gen = slot.gen /\ slot'.cached = NoStatus
  BY <1>i, EntryKeeps DEF GetScans, Statuses
<1>2. /\ reading' \in [Readers -> ReaderRecords] /\ reading'[r].stage = "loop"
      /\ \A q \in Readers : q # r => reading'[q] = reading[q]
      /\ reading'[r].min = reading[r].min /\ reading'[r].gen = reading[r].gen
      /\ reading'[r].since = reading[r].since /\ reading'[r].fl = reading[r].fl
  BY <1>i, GoChanges DEF GetScans, Stages
<1>t. CacheTypeOK'
  BY <1>i, <1>1, <1>2 DEF CacheTypeOK, GetScans
<1>h. FlightsHeld'
  BY <1>i, <1>2 DEF FlightsHeld, GetScans, At
<1> SUFFICES ASSUME ~evicted PROVE CacheInv'
  BY <1>i, <1>t, <1>h DEF CacheInv
<1>o. FlightsOrdered /\ ReadersOrdered
  BY DEF CacheInv
<1>3. /\ reading[r].stage = "idle" /\ reading[r].fl = NoFlight
      /\ UNCHANGED <<tree, leading, flight, seen>>
  BY <1>i DEF GetScans, At, FlightsHeld
<1>4. /\ reading'[r].gen <= slot.gen /\ \A f \in Flights : Same(f)
  BY <1>o, <1>2, <1>3 DEF ReadersOrdered, Same
<1> QED
  BY <1>i, <1>s, <1>t, <1>h, QuietStep, <1>1, <1>2, <1>3, <1>4

(* GetCached: a cached status is returned; the reader did not force it.    *)
LEMMA GetCachedInv ==
    ASSUME CacheInv, NEW r \in Readers, GetCached(r)
    PROVE  CacheInv'
<1>i. CacheTypeOK /\ FlightsHeld /\ evicted' = evicted
  BY DEF CacheInv, GetCached
<1>s. slot.gen \in Nat /\ \A q \in Readers : reading[q].fl \in Flights \cup {NoFlight}
  BY <1>i, CacheShapes
<1>1. slot.cached \in Statuses
  BY <1>i, SlotShape
<1>2. /\ reading' \in [Readers -> ReaderRecords] /\ reading'[r].stage = "done"
      /\ \A q \in Readers : q # r => reading'[q] = reading[q]
      /\ reading'[r].fresh = reading[r].fresh /\ reading'[r].since = reading[r].since
      /\ reading'[r].gen = 0 /\ reading'[r].fl = NoFlight
  BY <1>i, <1>1, ReturnChanges DEF GetCached, Outcomes
<1>t. CacheTypeOK'
  BY <1>i, <1>2 DEF CacheTypeOK, GetCached
<1>h. FlightsHeld'
  BY <1>i, <1>2 DEF FlightsHeld, GetCached, At
<1> SUFFICES ASSUME ~evicted PROVE CacheInv'
  BY <1>i, <1>t, <1>h DEF CacheInv
<1>o. FlightsOrdered /\ ReadersOrdered
  BY DEF CacheInv
<1>3. /\ reading[r].stage = "idle" /\ reading[r].fl = NoFlight /\ ~reading[r].fresh
      /\ UNCHANGED <<tree, slot, leading, flight, seen>> /\ slot.cached # NoStatus
  BY <1>i, <1>o DEF GetCached, At, ReadersOrdered, FlightsHeld
<1>4. slot.present
  BY <1>i, <1>3, SlotShape
<1>5. /\ \A f \in Flights : Same(f)
  BY <1>o, <1>2, <1>3 DEF ReadersOrdered, Same
<1> QED
  BY <1>i, <1>s, <1>t, <1>h, QuietStep, <1>1, <1>2, <1>3, <1>4, <1>5

(* Generation: the reader notes the slot's generation.                     *)
LEMMA GenerationInv ==
    ASSUME CacheInv, NEW r \in Readers, Generation(r)
    PROVE  CacheInv'
<1>i. CacheTypeOK /\ FlightsHeld /\ evicted' = evicted
  BY DEF CacheInv, Generation
<1>s. slot.gen \in Nat /\ \A q \in Readers : reading[q].fl \in Flights \cup {NoFlight}
  BY <1>i, CacheShapes
<1>1. /\ slot' \in Slots /\ slot'.present /\ slot'.gen = slot.gen /\ slot'.cached = slot.cached
  <2>1. NoStatus \in Statuses
    BY DEF Statuses
  <2> QED
    BY <1>i, <2>1, EntryKeeps DEF Generation
<1>2. /\ reading' \in [Readers -> ReaderRecords] /\ reading'[r].stage = "joining"
      /\ \A q \in Readers : q # r => reading'[q] = reading[q]
      /\ reading'[r].fresh = reading[r].fresh /\ reading'[r].min = reading[r].min
      /\ reading'[r].since = reading[r].since /\ reading'[r].fl = reading[r].fl
      /\ reading'[r].gen = slot.gen
  <2>1. slot.gen \in 0..MaxInvalidations
    BY <1>i, SlotShape
  <2> QED
    BY <1>i, <2>1, ZenonT(60) DEF Generation, CacheTypeOK, ReaderRecords, Stages
<1>t. CacheTypeOK'
  BY <1>i, <1>1, <1>2 DEF CacheTypeOK, Generation
<1>h. FlightsHeld'
  BY <1>i, <1>2 DEF FlightsHeld, Generation, At
<1> SUFFICES ASSUME ~evicted PROVE CacheInv'
  BY <1>i, <1>t, <1>h DEF CacheInv
<1>o. FlightsOrdered /\ ReadersOrdered
  BY DEF CacheInv
<1>3. /\ reading[r].stage = "loop" /\ reading[r].fl = NoFlight
      /\ UNCHANGED <<tree, leading, flight, seen>>
  BY <1>i DEF Generation, At, FlightsHeld
<1>4. /\ reading'[r].gen <= slot.gen /\ \A f \in Flights : Same(f)
  BY <1>s, <1>o, <1>2, <1>3 DEF ReadersOrdered, Same
<1> QED
  BY <1>i, <1>s, <1>t, <1>h, QuietStep, <1>1, <1>2, <1>3, <1>4

(* Follow: the reader joins the flight in the map.                         *)
LEMMA FollowInv ==
    ASSUME CacheInv, NEW r \in Readers, Follow(r)
    PROVE  CacheInv'
<1>i. CacheTypeOK /\ FlightsHeld /\ evicted' = evicted
  BY DEF CacheInv, Follow
<1>s. slot.gen \in Nat /\ \A q \in Readers : reading[q].fl \in Flights \cup {NoFlight}
  BY <1>i, CacheShapes
<1>1. leading \in Flights /\ UNCHANGED <<tree, slot, leading, flight, seen>>
  BY <1>i DEF Follow, CacheTypeOK
<1>2. /\ reading' \in [Readers -> ReaderRecords] /\ reading'[r].stage = "following"
      /\ \A q \in Readers : q # r => reading'[q] = reading[q]
      /\ reading'[r].fresh = reading[r].fresh /\ reading'[r].min = reading[r].min
      /\ reading'[r].since = reading[r].since /\ reading'[r].gen = reading[r].gen
      /\ reading'[r].fl = leading
  BY <1>i, <1>1, ZenonT(60) DEF Follow, CacheTypeOK, ReaderRecords, Stages
<1>t. CacheTypeOK'
  BY <1>i, <1>1, <1>2 DEF CacheTypeOK
<1>h. FlightsHeld'
  BY <1>i, <1>1, <1>2, CacheAssumption DEF FlightsHeld, Follow, At
<1> SUFFICES ASSUME ~evicted PROVE CacheInv'
  BY <1>i, <1>t, <1>h DEF CacheInv
<1>o. FlightsOrdered /\ ReadersOrdered
  BY DEF CacheInv
<1>3. reading[r].stage = "joining" /\ slot.present /\ leading # NoFlight
  BY <1>o DEF Follow, At, ReadersOrdered
<1>4. /\ reading'[r].gen <= slot.gen /\ \A f \in Flights : Same(f)
      /\ \E q \in Readers : reading[q].fl = leading
  BY <1>i, <1>o, <1>1, <1>2, <1>3 DEF ReadersOrdered, FlightsHeld, Same
<1> QED
  BY <1>i, <1>s, <1>t, <1>h, QuietStep, <1>1, <1>2, <1>3, <1>4

-----------------------------------------------------------------------------
(* LeaderGone: the leader is dropped, nothing is published.                *)
LEMMA LeaderGoneInv ==
    ASSUME CacheInv, NEW r \in Readers, LeaderGone(r)
    PROVE  CacheInv'
<1>i. CacheTypeOK /\ FlightsHeld /\ evicted' = evicted
  BY DEF CacheInv, LeaderGone
<1>s. slot.gen \in Nat /\ \A q \in Readers : reading[q].fl \in Flights \cup {NoFlight}
  BY <1>i, CacheShapes
<1>1. /\ reading[r].stage = "scanning" /\ UNCHANGED <<tree, leading, seen>>
  BY DEF LeaderGone, At
<1>f. reading[r].fl \in Flights /\ reading[r].fl # NoFlight
  BY <1>i, <1>s, <1>1, CacheAssumption DEF FlightsHeld
<1>2. slot' = slot /\ slot \in Slots
  BY <1>i DEF LeaderGone, CacheTypeOK
<1>3. /\ reading' \in [Readers -> ReaderRecords] /\ reading'[r].stage = "retiring"
      /\ \A q \in Readers : q # r => reading'[q] = reading[q]
      /\ reading'[r].fresh = reading[r].fresh /\ reading'[r].min = reading[r].min
      /\ reading'[r].since = reading[r].since /\ reading'[r].gen = reading[r].gen
      /\ reading'[r].fl = reading[r].fl
  BY <1>i, ZenonT(60) DEF LeaderGone, CacheTypeOK, ReaderRecords, Stages, Outcomes
<1>t. CacheTypeOK'
  <2>1. flight' \in [Flights -> FlightRecords]
    BY <1>i DEF LeaderGone, CacheTypeOK
  <2> QED
    BY <1>i, <1>1, <1>2, <1>3, <2>1 DEF CacheTypeOK
<1>h. FlightsHeld'
  BY <1>i, <1>1, <1>3 DEF FlightsHeld, At
<1> SUFFICES ASSUME ~evicted PROVE CacheInv'
  BY <1>i, <1>t, <1>h DEF CacheInv
<1>o. FlightsOrdered /\ ReadersOrdered
  BY DEF CacheInv
<1>4. /\ slot.present /\ reading'[r].gen <= slot.gen
  BY <1>o, <1>1, <1>3 DEF ReadersOrdered, At
<1>5. \A f \in Flights : Same(f)
  BY DEF LeaderGone, Same
<1> QED
  BY <1>i, <1>s, <1>t, <1>h, QuietStep, <1>1, <1>f, <1>2, <1>3, <1>4, <1>5

(* ScanFails: an error is published and nothing stored.                    *)
LEMMA ScanFailsInv ==
    ASSUME CacheInv, NEW r \in Readers, ScanFails(r)
    PROVE  CacheInv'
<1>i. CacheTypeOK /\ FlightsHeld /\ evicted' = evicted
  BY DEF CacheInv, ScanFails
<1>s. slot.gen \in Nat /\ \A q \in Readers : reading[q].fl \in Flights \cup {NoFlight}
  BY <1>i, CacheShapes
<1>1. /\ reading[r].stage = "scanning" /\ UNCHANGED <<tree, leading, seen>>
  BY DEF ScanFails, At
<1>f. reading[r].fl \in Flights /\ reading[r].fl # NoFlight
  BY <1>i, <1>s, <1>1, CacheAssumption DEF FlightsHeld
<1>2. slot' = slot /\ slot \in Slots
  BY <1>i DEF ScanFails, CacheTypeOK
<1>3. /\ reading' \in [Readers -> ReaderRecords] /\ reading'[r].stage = "retiring"
      /\ \A q \in Readers : q # r => reading'[q] = reading[q]
      /\ reading'[r].fresh = reading[r].fresh /\ reading'[r].min = reading[r].min
      /\ reading'[r].since = reading[r].since /\ reading'[r].gen = reading[r].gen
      /\ reading'[r].fl = reading[r].fl
  BY <1>i, ZenonT(60) DEF ScanFails, Finish, CacheTypeOK, ReaderRecords, Stages, Outcomes
<1>t. CacheTypeOK'
  <2>1. flight' \in [Flights -> FlightRecords]
    BY <1>i, <1>f, FlightNotes DEF ScanFails, Finish, Outcomes
  <2> QED
    BY <1>i, <1>1, <1>2, <1>3, <2>1 DEF CacheTypeOK
<1>h. FlightsHeld'
  BY <1>i, <1>1, <1>3 DEF FlightsHeld, At
<1> SUFFICES ASSUME ~evicted PROVE CacheInv'
  BY <1>i, <1>t, <1>h DEF CacheInv
<1>o. FlightsOrdered /\ ReadersOrdered
  BY DEF CacheInv
<1>4. /\ slot.present /\ reading'[r].gen <= slot.gen
  BY <1>o, <1>1, <1>3 DEF ReadersOrdered, At
<1>5. \A f \in Flights : Same(f)
  BY <1>i, <1>f, FlightNotes DEF ScanFails, Finish, Outcomes, Same
<1> QED
  BY <1>i, <1>s, <1>t, <1>h, QuietStep, <1>1, <1>f, <1>2, <1>3, <1>4, <1>5

(* ScanEnds: stored only if the slot's generation is the flight's.         *)
LEMMA ScanEndsInv ==
    ASSUME CacheInv, NEW r \in Readers, ScanEnds(r)
    PROVE  CacheInv'
<1>i. CacheTypeOK /\ FlightsHeld /\ evicted' = evicted
  BY DEF CacheInv, ScanEnds
<1>s. slot.gen \in Nat /\ \A q \in Readers : reading[q].fl \in Flights \cup {NoFlight}
  BY <1>i, CacheShapes
<1>1. /\ reading[r].stage = "scanning" /\ UNCHANGED <<tree, leading, seen>>
  BY DEF ScanEnds, At
<1>f. reading[r].fl \in Flights /\ reading[r].fl # NoFlight
  BY <1>i, <1>s, <1>1, CacheAssumption DEF FlightsHeld
<1>2. /\ slot' \in Slots /\ slot'.present /\ slot'.gen = slot.gen
      /\ slot'.cached = slot.cached \/ (Own(r).gen = slot.gen /\ slot'.cached = Own(r).scanned)
  <2>1. Own(r).scanned \in Statuses /\ slot.cached \in Statuses
    BY <1>i, <1>f, SlotShape DEF Own, CacheTypeOK, FlightRecords, Statuses
  <2>2. PICK v \in Statuses : slot' = [Entry EXCEPT !.cached = v]
          /\ (v = Entry.cached \/ (Own(r).gen = slot.gen /\ v = Own(r).scanned))
    BY <1>i, <2>1, EntryKeeps DEF ScanEnds
  <2> QED
    BY <1>i, <2>2, EntryKeeps
<1>3. /\ reading' \in [Readers -> ReaderRecords] /\ reading'[r].stage = "retiring"
      /\ \A q \in Readers : q # r => reading'[q] = reading[q]
      /\ reading'[r].fresh = reading[r].fresh /\ reading'[r].min = reading[r].min
      /\ reading'[r].since = reading[r].since /\ reading'[r].gen = reading[r].gen
      /\ reading'[r].fl = reading[r].fl
  <2>1. PICK b \in BOOLEAN : Finish(r, "ok", b)
    BY Zenon DEF ScanEnds
  <2> QED
    BY <1>i, <2>1, ZenonT(60) DEF Finish, CacheTypeOK, ReaderRecords, Stages, Outcomes
<1>t. CacheTypeOK'
  <2>1. flight' \in [Flights -> FlightRecords]
    BY <1>i, <1>f, FlightNotes DEF ScanEnds, Finish, Outcomes
  <2> QED
    BY <1>i, <1>1, <1>2, <1>3, <2>1 DEF CacheTypeOK
<1>h. FlightsHeld'
  BY <1>i, <1>1, <1>3 DEF FlightsHeld, At
<1> SUFFICES ASSUME ~evicted PROVE CacheInv'
  BY <1>i, <1>t, <1>h DEF CacheInv
<1>o. FlightsOrdered /\ ReadersOrdered
  BY DEF CacheInv
<1>4. /\ slot.present /\ reading'[r].gen <= slot.gen
  BY <1>o, <1>1, <1>3 DEF ReadersOrdered, At
<1>5. \A f \in Flights : Same(f)
  BY <1>i, <1>f, FlightNotes DEF ScanEnds, Finish, Outcomes, Same
<1>6. slot'.cached = slot.cached \/ slot'.cached >= seen
  BY <1>o, <1>2, <1>f DEF FlightsOrdered
<1> QED
  BY <1>i, <1>s, <1>t, <1>h, QuietStep, <1>1, <1>f, <1>2, <1>3, <1>4, <1>5, <1>6

-----------------------------------------------------------------------------
(* What a reader that lets its flight go leaves to the others.             *)
LEMMA LettingGo ==
    ASSUME CacheTypeOK, FlightsHeld, NEW r \in Readers, NEW fl \in [Flights -> FlightRecords],
           \A f \in Flights : fl[f].gen = flight[f].gen /\ fl[f].scanned = flight[f].scanned,
           flight' = LetGo(r, fl)
    PROVE  /\ flight' \in [Flights -> FlightRecords]
           /\ \A q \in Readers : q # r /\ reading[q].fl # NoFlight => Same(reading[q].fl)
<1>1. \A q \in Readers : reading[q].fl \in Flights \cup {NoFlight}
  BY CacheShapes
<1> QED
  BY <1>1, LetGoKeeps DEF Same

(* A reader that referred to a flight has its slot in the map, unless the  *)
(* slot was dropped.                                                       *)
LEMMA Referring ==
    ASSUME CacheInv, NEW r \in Readers, reading[r].stage # "idle"
    PROVE  ~evicted => slot.present
  BY DEF CacheInv, ReadersOrdered, At

(* LeaderVanished: the follower goes round again.                          *)
LEMMA VanishedInv ==
    ASSUME CacheInv, NEW r \in Readers, LeaderVanished(r)
    PROVE  CacheInv'
<1>i. CacheTypeOK /\ FlightsHeld /\ evicted' = evicted
  BY DEF CacheInv, LeaderVanished
<1>s. slot.gen \in Nat /\ \A q \in Readers : reading[q].fl \in Flights \cup {NoFlight}
  BY <1>i, CacheShapes
<1>1. /\ reading[r].stage = "following" /\ UNCHANGED <<tree, slot, leading, seen>>
      /\ flight' = LetGo(r, flight)
  BY DEF LeaderVanished, At
<1>2. /\ reading' \in [Readers -> ReaderRecords] /\ reading'[r].stage = "loop"
      /\ \A q \in Readers : q # r => reading'[q] = reading[q]
      /\ reading'[r].fresh = reading[r].fresh /\ reading'[r].min = reading[r].min
      /\ reading'[r].since = reading[r].since /\ reading'[r].gen = 0
      /\ reading'[r].fl = NoFlight
  BY <1>i, AgainChanges DEF LeaderVanished
<1>3. /\ flight' \in [Flights -> FlightRecords]
      /\ \A q \in Readers : q # r /\ reading[q].fl # NoFlight => Same(reading[q].fl)
  BY <1>i, <1>1, LettingGo DEF CacheTypeOK
<1>t. CacheTypeOK'
  BY <1>i, <1>1, <1>2, <1>3 DEF CacheTypeOK
<1>h. FlightsHeld'
  BY <1>i, <1>1, <1>2 DEF FlightsHeld, At
<1> SUFFICES ASSUME ~evicted PROVE CacheInv'
  BY <1>i, <1>t, <1>h DEF CacheInv
<1>4. slot.present
  BY <1>1, Referring
<1> QED
  BY <1>i, <1>s, <1>t, <1>h, QuietStep, <1>1, <1>2, <1>3, <1>4

(* Retired: so does one whose flight was too old for it.                   *)
LEMMA RetiredInv ==
    ASSUME CacheInv, NEW r \in Readers, Retired(r)
    PROVE  CacheInv'
<1>i. CacheTypeOK /\ FlightsHeld /\ evicted' = evicted
  BY DEF CacheInv, Retired
<1>s. slot.gen \in Nat /\ \A q \in Readers : reading[q].fl \in Flights \cup {NoFlight}
  BY <1>i, CacheShapes
<1>1. /\ reading[r].stage = "waiting" /\ UNCHANGED <<tree, slot, leading, seen>>
      /\ flight' = LetGo(r, flight)
  BY DEF Retired, At
<1>2. /\ reading' \in [Readers -> ReaderRecords] /\ reading'[r].stage = "loop"
      /\ \A q \in Readers : q # r => reading'[q] = reading[q]
      /\ reading'[r].fresh = reading[r].fresh /\ reading'[r].min = reading[r].min
      /\ reading'[r].since = reading[r].since /\ reading'[r].gen = 0
      /\ reading'[r].fl = NoFlight
  BY <1>i, AgainChanges DEF Retired
<1>3. /\ flight' \in [Flights -> FlightRecords]
      /\ \A q \in Readers : q # r /\ reading[q].fl # NoFlight => Same(reading[q].fl)
  BY <1>i, <1>1, LettingGo DEF CacheTypeOK
<1>t. CacheTypeOK'
  BY <1>i, <1>1, <1>2, <1>3 DEF CacheTypeOK
<1>h. FlightsHeld'
  BY <1>i, <1>1, <1>2 DEF FlightsHeld, At
<1> SUFFICES ASSUME ~evicted PROVE CacheInv'
  BY <1>i, <1>t, <1>h DEF CacheInv
<1>4. slot.present
  BY <1>1, Referring
<1> QED
  BY <1>i, <1>s, <1>t, <1>h, QuietStep, <1>1, <1>2, <1>3, <1>4

(* FollowerGone: a follower is dropped with its request.                   *)
LEMMA FollowerGoneInv ==
    ASSUME CacheInv, NEW r \in Readers, FollowerGone(r)
    PROVE  CacheInv'
<1>i. CacheTypeOK /\ FlightsHeld /\ evicted' = evicted
  BY DEF CacheInv, FollowerGone
<1>s. slot.gen \in Nat /\ \A q \in Readers : reading[q].fl \in Flights \cup {NoFlight}
  BY <1>i, CacheShapes
<1>1. /\ reading[r].stage \in {"following", "waiting"} /\ UNCHANGED <<tree, slot, leading, seen>>
      /\ flight' = LetGo(r, flight)
  BY DEF FollowerGone, At
<1>2. /\ reading' \in [Readers -> ReaderRecords] /\ reading'[r].stage = "done"
      /\ \A q \in Readers : q # r => reading'[q] = reading[q]
      /\ reading'[r].fresh = reading[r].fresh /\ reading'[r].since = reading[r].since
      /\ reading'[r].gen = 0 /\ reading'[r].fl = NoFlight
      /\ reading'[r].outcome = "gone"
  BY <1>i, ReturnChanges DEF FollowerGone, Outcomes, Statuses
<1>3. /\ flight' \in [Flights -> FlightRecords]
      /\ \A q \in Readers : q # r /\ reading[q].fl # NoFlight => Same(reading[q].fl)
  BY <1>i, <1>1, LettingGo DEF CacheTypeOK
<1>t. CacheTypeOK'
  BY <1>i, <1>1, <1>2, <1>3 DEF CacheTypeOK
<1>h. FlightsHeld'
  BY <1>i, <1>1, <1>2 DEF FlightsHeld, At
<1> SUFFICES ASSUME ~evicted PROVE CacheInv'
  BY <1>i, <1>t, <1>h DEF CacheInv
<1>4. slot.present
  BY <1>1, Referring
<1> QED
  BY <1>i, <1>s, <1>t, <1>h, QuietStep, <1>1, <1>2, <1>3, <1>4

(* Retire: the leader's flight is unregistered; it rescans, or returns.    *)
LEMMA RetireInv ==
    ASSUME CacheInv, NEW r \in Readers, Retire(r)
    PROVE  CacheInv'
<1>i. CacheTypeOK /\ FlightsHeld /\ evicted' = evicted
  BY DEF CacheInv, Retire
<1>s. slot.gen \in Nat /\ \A q \in Readers : reading[q].fl \in Flights \cup {NoFlight}
  BY <1>i, CacheShapes
<1>1. /\ reading[r].stage = "retiring" /\ UNCHANGED <<tree, slot, seen>>
      /\ leading' = IF leading = reading[r].fl THEN NoFlight ELSE leading
      /\ flight' = LetGo(r, [flight EXCEPT ![reading[r].fl].retired = TRUE])
  BY DEF Retire, At
<1>f. reading[r].fl \in Flights
  BY <1>i, <1>s, <1>1 DEF FlightsHeld
<1>g. Own(r).scanned \in Statuses /\ reading[r].outcome \in Outcomes
  BY <1>i, <1>f DEF Own, CacheTypeOK, FlightRecords, ReaderRecords, Statuses
<1>2. /\ reading' \in [Readers -> ReaderRecords]
      /\ \A q \in Readers : q # r => reading'[q] = reading[q]
      /\ reading'[r].fresh = reading[r].fresh /\ reading'[r].since = reading[r].since
      /\ reading'[r].gen = 0 /\ reading'[r].fl = NoFlight
      /\ \/ reading'[r].stage = "loop" /\ reading'[r].min = reading[r].min
         \/ /\ reading'[r].stage = "done" /\ reading'[r].got = Own(r).scanned
            /\ reading'[r].outcome = reading[r].outcome /\ ~Rescans(r)
  BY <1>i, <1>g, AgainChanges, ReturnChanges DEF Retire
<1>3. /\ flight' \in [Flights -> FlightRecords]
      /\ \A q \in Readers : q # r /\ reading[q].fl # NoFlight => Same(reading[q].fl)
  BY <1>i, <1>f, <1>g, <1>1, FlightNotes, LettingGo, ZenonT(60)
<1>t. CacheTypeOK'
  BY <1>i, <1>1, <1>2, <1>3 DEF CacheTypeOK
<1>h. FlightsHeld'
  BY <1>i, <1>1, <1>2 DEF FlightsHeld, At
<1> SUFFICES ASSUME ~evicted PROVE CacheInv'
  BY <1>i, <1>t, <1>h DEF CacheInv
<1>4. slot.present
  BY <1>1, Referring
<1>5. reading'[r].stage = "done" /\ reading'[r].fresh /\ reading'[r].outcome = "ok" =>
        reading'[r].got >= reading[r].since
  <2>1. reading'[r].stage = "done" /\ reading'[r].fresh /\ reading'[r].outcome = "ok" =>
          ~(Own(r).gen < reading[r].min)
    BY <1>2 DEF Rescans
  <2>2. Own(r).gen \in Int /\ reading[r].min \in Int
    BY <1>i, <1>f, CacheShapes DEF Own
  <2> QED
    BY <1>i, <1>f, <1>1, <1>2, <2>1, <2>2, CacheAssumption DEF CacheInv, FlightsOrdered, At
<1> QED
  BY <1>i, <1>s, <1>t, <1>h, QuietStep, <1>1, <1>2, <1>3, <1>4, <1>5

(* TakeResult: a follower takes the result, unless it is too old for it.   *)
LEMMA TakeResultInv ==
    ASSUME CacheInv, NEW r \in Readers, TakeResult(r)
    PROVE  CacheInv'
<1>i. CacheTypeOK /\ FlightsHeld /\ evicted' = evicted
  BY DEF CacheInv, TakeResult
<1>s. slot.gen \in Nat /\ \A q \in Readers : reading[q].fl \in Flights \cup {NoFlight}
  BY <1>i, CacheShapes
<1>1. reading[r].stage = "following" /\ UNCHANGED <<tree, leading, seen>>
  BY DEF TakeResult, At
<1>f. reading[r].fl \in Flights
  BY <1>i, <1>s, <1>1 DEF FlightsHeld
<1>g. Own(r).scanned \in Statuses /\ Own(r).result \in Outcomes
  BY <1>i, <1>f DEF Own, CacheTypeOK, FlightRecords, Statuses
<1>2. /\ slot' \in Slots /\ slot'.gen = slot.gen /\ slot'.cached = slot.cached
      /\ slot.present => slot'.present
  <2>1. NoStatus \in Statuses /\ slot \in Slots
    BY <1>i DEF Statuses, CacheTypeOK
  <2> QED
    BY <1>i, <2>1, EntryKeeps DEF TakeResult
<1>3. /\ reading' \in [Readers -> ReaderRecords] /\ flight' \in [Flights -> FlightRecords]
      /\ \A q \in Readers : q # r => reading'[q] = reading[q]
      /\ \A q \in Readers : q # r /\ reading[q].fl # NoFlight => Same(reading[q].fl)
      /\ reading'[r].fresh = reading[r].fresh /\ reading'[r].since = reading[r].since
      /\ \/ /\ reading'[r].stage = "waiting" /\ reading'[r].min = reading[r].min
            /\ reading'[r].fl = reading[r].fl /\ reading'[r].gen = reading[r].gen
            /\ flight' = flight
         \/ /\ reading'[r].stage = "done" /\ reading'[r].fl = NoFlight /\ reading'[r].gen = 0
            /\ reading'[r].got = Own(r).scanned /\ ~TooOld(r)
  <2>1. CASE TooOld(r)
    <3>1. Go(r, "waiting") /\ flight' = flight
      BY <2>1 DEF TakeResult
    <3> QED
      BY <1>i, <3>1, GoChanges DEF Stages, CacheTypeOK, Same
  <2>2. CASE ~TooOld(r)
    <3>1. Return(r, Own(r).result, Own(r).scanned) /\ flight' = LetGo(r, flight)
      BY <2>2 DEF TakeResult
    <3> QED
      BY <1>i, <1>g, <2>2, <3>1, ReturnChanges, LettingGo DEF CacheTypeOK
  <2> QED
    BY <2>1, <2>2
<1>t. CacheTypeOK'
  BY <1>i, <1>1, <1>2, <1>3 DEF CacheTypeOK
<1>h. FlightsHeld'
  BY <1>i, <1>1, <1>3 DEF FlightsHeld, At
<1> SUFFICES ASSUME ~evicted PROVE CacheInv'
  BY <1>i, <1>t, <1>h DEF CacheInv
<1>4. slot.present /\ reading[r].gen <= slot.gen
  BY <1>1, Referring DEF CacheInv, ReadersOrdered
<1>5. reading'[r].stage = "done" /\ reading'[r].fresh => reading'[r].got >= reading[r].since
  <2>1. reading'[r].stage = "done" /\ reading'[r].fresh => ~(Own(r).gen < reading[r].min)
    BY <1>3 DEF TooOld
  <2>2. Own(r).gen \in Int /\ reading[r].min \in Int
    BY <1>i, <1>f, CacheShapes DEF Own
  <2> QED
    BY <1>i, <1>f, <1>1, <1>3, <2>1, <2>2, CacheAssumption DEF CacheInv, FlightsOrdered, At
<1>6. reading'[r].fl # NoFlight => Same(reading'[r].fl)
  BY <1>3 DEF Same
<1> QED
  BY <1>i, <1>s, <1>t, <1>h, QuietStep, <1>1, <1>2, <1>3, <1>4, <1>5, <1>6

-----------------------------------------------------------------------------
(* Lead: the reader begins a scan in a flight that nobody refers to; what  *)
(* it will see is no older than any invalidation so far.                   *)
LEMMA LeadInv ==
    ASSUME CacheInv, NEW r \in Readers, Lead(r)
    PROVE  CacheInv'
<1>i. CacheTypeOK /\ FlightsHeld /\ evicted' = evicted
  BY DEF CacheInv, Lead
<1>s. /\ tree \in Int /\ seen \in Int /\ slot.gen \in Int
      /\ \A q \in Readers : /\ reading[q].since \in Int /\ reading[q].min \in Int
                            /\ reading[q].fl \in Flights \cup {NoFlight}
                            /\ reading[q].gen \in Int
      /\ \A f \in Flights : flight[f].gen \in Int /\ flight[f].scanned \in Int
  BY <1>i, CacheShapes
<1>1. PICK f \in Flights :
        /\ \A q \in Readers : reading[q].fl # f
        /\ leading' = f
        /\ flight' = [flight EXCEPT ![f] = NewFlight(reading[r].gen, tree)]
        /\ reading' = [reading EXCEPT ![r] = [@ EXCEPT !.stage = "scanning", !.fl = f]]
  BY DEF Lead
<1>2. /\ reading[r].stage = "joining" /\ UNCHANGED <<tree, slot, seen>>
  BY DEF Lead, At
<1>3. /\ reading' \in [Readers -> ReaderRecords] /\ reading'[r].stage = "scanning"
      /\ \A q \in Readers : q # r => reading'[q] = reading[q]
      /\ reading'[r].fresh = reading[r].fresh /\ reading'[r].min = reading[r].min
      /\ reading'[r].since = reading[r].since /\ reading'[r].gen = reading[r].gen
      /\ reading'[r].fl = f
  BY <1>i, <1>1, ZenonT(60) DEF CacheTypeOK, ReaderRecords, Stages
<1>4. /\ flight' \in [Flights -> FlightRecords]
      /\ flight'[f].gen = reading[r].gen /\ flight'[f].scanned = tree
      /\ \A g \in Flights : g # f => flight'[g] = flight[g]
  <2>1. NewFlight(reading[r].gen, tree) \in FlightRecords
    BY <1>i DEF NewFlight, FlightRecords, CacheTypeOK, ReaderRecords, Outcomes
  <2> QED
    BY <1>i, <1>1, <2>1 DEF CacheTypeOK, NewFlight
<1>t. CacheTypeOK'
  BY <1>i, <1>1, <1>2, <1>3, <1>4 DEF CacheTypeOK
<1>h. FlightsHeld'
  BY <1>i, <1>1, <1>2, <1>3, CacheAssumption DEF FlightsHeld, At
<1> SUFFICES ASSUME ~evicted PROVE CacheInv'
  BY <1>i, <1>t, <1>h DEF CacheInv
<1>o. FlightsOrdered /\ ReadersOrdered /\ CachedSinceInvalidation /\ FreshReads
  BY DEF CacheInv
<1>5. ReadersOrdered'
  BY <1>o, <1>2, <1>3 DEF ReadersOrdered, At
<1>6. FlightsOrdered'
  <2> SUFFICES ASSUME NEW p \in Readers, reading'[p].fl # NoFlight
               PROVE  /\ flight'[reading'[p].fl].gen <= slot.gen
                      /\ flight'[reading'[p].fl].gen = slot.gen =>
                           flight'[reading'[p].fl].scanned >= seen
                      /\ \A q \in Readers :
                           reading'[q].stage # "done"
                             /\ flight'[reading'[p].fl].gen >= reading'[q].min =>
                           flight'[reading'[p].fl].scanned >= reading'[q].since
    BY <1>2 DEF FlightsOrdered, Own, At
  <2>1. CASE p = r
    BY <1>s, <1>o, <1>2, <1>3, <1>4, <2>1 DEF ReadersOrdered
  <2>2. CASE p # r
    <3>1. reading'[p].fl = reading[p].fl /\ flight'[reading[p].fl] = flight[reading[p].fl]
      BY <1>s, <1>1, <1>3, <1>4, <2>2
    <3>2. /\ flight[reading[p].fl].gen <= slot.gen
          /\ flight[reading[p].fl].gen = slot.gen => flight[reading[p].fl].scanned >= seen
          /\ \A q \in Readers :
               reading[q].stage # "done" /\ flight[reading[p].fl].gen >= reading[q].min =>
               flight[reading[p].fl].scanned >= reading[q].since
      BY <1>o, <3>1 DEF FlightsOrdered, Own, At
    <3> QED
      BY <1>2, <1>3, <3>1, <3>2
  <2> QED
    BY <2>1, <2>2
<1>7. CachedSinceInvalidation' /\ FreshReads'
  BY <1>o, <1>2, <1>3 DEF CachedSinceInvalidation, FreshReads, At
<1> QED
  BY <1>t, <1>h, <1>5, <1>6, <1>7 DEF CacheInv

(* GetFresh: the slot's next generation, which no scan has yet, is what    *)
(* the reader asks for.                                                    *)
LEMMA GetFreshInv ==
    ASSUME CacheInv, NEW r \in Readers, GetFresh(r)
    PROVE  CacheInv'
<1>i. CacheTypeOK /\ FlightsHeld /\ evicted' = evicted
  BY DEF CacheInv, GetFresh
<1>s. /\ tree \in Int /\ seen \in Int /\ slot.gen \in Int
      /\ \A q \in Readers : /\ reading[q].since \in Int /\ reading[q].min \in Int
                            /\ reading[q].fl \in Flights \cup {NoFlight}
                            /\ reading[q].gen \in Int
      /\ \A f \in Flights : flight[f].gen \in Int /\ flight[f].scanned \in Int
  BY <1>i, CacheShapes
<1>1. slot.gen + 1 \in 0..MaxInvalidations
  BY <1>i, SlotShape, CacheAssumption DEF GetFresh
<1>2. /\ slot' \in Slots /\ slot'.present /\ slot'.gen = slot.gen + 1
      /\ slot'.cached = NoStatus /\ seen' = tree /\ UNCHANGED <<tree, leading, flight>>
      /\ reading[r].stage = "idle"
  BY <1>1 DEF GetFresh, Slots, Statuses, At
<1>3. /\ reading' \in [Readers -> ReaderRecords] /\ reading'[r].stage = "loop"
      /\ \A q \in Readers : q # r => reading'[q] = reading[q]
      /\ reading'[r].min = slot.gen + 1 /\ reading'[r].since = tree
      /\ reading'[r].gen = reading[r].gen /\ reading'[r].fl = reading[r].fl
  BY <1>i, <1>1, ZenonT(60) DEF GetFresh, CacheTypeOK, ReaderRecords, Stages
<1>t. CacheTypeOK'
  BY <1>i, <1>2, <1>3 DEF CacheTypeOK
<1>h. FlightsHeld'
  BY <1>i, <1>2, <1>3 DEF FlightsHeld, At
<1> SUFFICES ASSUME ~evicted PROVE CacheInv'
  BY <1>i, <1>t, <1>h DEF CacheInv
<1>o. FlightsOrdered /\ ReadersOrdered /\ FreshReads
  BY DEF CacheInv
<1>4. ReadersOrdered'
  BY <1>s, <1>o, <1>2, <1>3 DEF ReadersOrdered, At
<1>5. FlightsOrdered'
  <2> SUFFICES ASSUME NEW p \in Readers, reading[p].fl # NoFlight
               PROVE  /\ flight[reading[p].fl].gen < slot.gen + 1
                      /\ \A q \in Readers :
                           reading'[q].stage # "done"
                             /\ flight[reading[p].fl].gen >= reading'[q].min =>
                           flight[reading[p].fl].scanned >= reading'[q].since
    BY <1>s, <1>2, <1>3 DEF FlightsOrdered, Own, At
  <2>1. /\ flight[reading[p].fl].gen <= slot.gen
        /\ \A q \in Readers :
             reading[q].stage # "done" /\ flight[reading[p].fl].gen >= reading[q].min =>
             flight[reading[p].fl].scanned >= reading[q].since
    BY <1>o DEF FlightsOrdered, Own, At
  <2> QED
    BY <1>s, <1>3, <2>1
<1>6. CachedSinceInvalidation' /\ FreshReads'
  BY <1>o, <1>2, <1>3 DEF CachedSinceInvalidation, FreshReads, At
<1> QED
  BY <1>t, <1>h, <1>4, <1>5, <1>6 DEF CacheInv

(* Invalidate: a slot moves on to a generation that no scan has yet; where *)
(* there is none, nobody is reading.                                       *)
LEMMA InvalidateInv ==
    ASSUME CacheInv, Invalidate
    PROVE  CacheInv'
<1>i. CacheTypeOK /\ FlightsHeld /\ evicted' = evicted
  BY DEF CacheInv, Invalidate
<1>s. /\ tree \in Int /\ seen \in Int /\ slot.gen \in Int
      /\ \A q \in Readers : /\ reading[q].since \in Int /\ reading[q].min \in Int
                            /\ reading[q].fl \in Flights \cup {NoFlight}
                            /\ reading[q].gen \in Int
      /\ \A f \in Flights : flight[f].gen \in Int /\ flight[f].scanned \in Int
  BY <1>i, CacheShapes
<1>1. seen' = tree /\ UNCHANGED <<tree, leading, flight, reading>>
  BY DEF Invalidate
<1>2. /\ slot' \in Slots /\ slot'.cached = NoStatus
      /\ slot.present => slot'.present /\ slot'.gen = slot.gen + 1
      /\ ~slot.present => slot' = slot
  <2>1. slot.gen + 1 \in 0..MaxInvalidations
    BY <1>i, SlotShape, CacheAssumption DEF Invalidate
  <2>2. CASE slot.present
    <3>1. slot \in [present : {TRUE}, gen : 0..MaxInvalidations, cached : Statuses]
      <4>1. slot # NoSlot
        BY <2>2 DEF NoSlot
      <4> QED
        BY <1>i, <4>1 DEF CacheTypeOK, Slots
    <3> QED
      BY <2>1, <2>2, <3>1 DEF Invalidate, Slots, Statuses
  <2>3. CASE ~slot.present
    BY <1>i, <2>3, SlotShape DEF Invalidate, CacheTypeOK
  <2> QED
    BY <2>2, <2>3
<1>t. CacheTypeOK'
  BY <1>i, <1>1, <1>2 DEF CacheTypeOK
<1>h. FlightsHeld'
  BY <1>i, <1>1 DEF FlightsHeld, At
<1> SUFFICES ASSUME ~evicted PROVE CacheInv'
  BY <1>i, <1>t, <1>h DEF CacheInv
<1>o. FlightsOrdered /\ ReadersOrdered /\ FreshReads
  BY DEF CacheInv
<1>3. ReadersOrdered'
  BY <1>s, <1>o, <1>1, <1>2 DEF ReadersOrdered, At
<1>4. FlightsOrdered'
  <2> SUFFICES ASSUME NEW p \in Readers, reading[p].fl # NoFlight
               PROVE  /\ flight[reading[p].fl].gen < slot'.gen
                      /\ \A q \in Readers :
                           reading[q].stage # "done"
                             /\ flight[reading[p].fl].gen >= reading[q].min =>
                           flight[reading[p].fl].scanned >= reading[q].since
    BY <1>s, <1>1, <1>2 DEF FlightsOrdered, Own, At
  <2>1. slot.present
    BY <1>i, <1>o DEF FlightsHeld, ReadersOrdered, At
  <2>2. /\ flight[reading[p].fl].gen <= slot.gen
        /\ \A q \in Readers :
             reading[q].stage # "done" /\ flight[reading[p].fl].gen >= reading[q].min =>
             flight[reading[p].fl].scanned >= reading[q].since
    BY <1>o DEF FlightsOrdered, Own, At
  <2> QED
    BY <1>s, <1>2, <2>1, <2>2
<1>5. CachedSinceInvalidation' /\ FreshReads'
  BY <1>o, <1>1, <1>2 DEF CachedSinceInvalidation, FreshReads, At
<1> QED
  BY <1>t, <1>h, <1>3, <1>4, <1>5 DEF CacheInv

(* Change: the files move on, which makes no scan newer or older.          *)
LEMMA ChangeInv ==
    ASSUME CacheInv, Change
    PROVE  CacheInv'
<1>i. CacheTypeOK /\ FlightsHeld
  BY DEF CacheInv
<1>s. tree \in Int /\ seen \in Int /\ \A q \in Readers : reading[q].since \in Int
  BY <1>i, CacheShapes
<1>1. tree' = tree + 1 /\ UNCHANGED <<slot, leading, flight, reading, seen, evicted>>
  BY DEF Change
<1>2. tree' \in Versions
  BY <1>i, <1>1, CacheAssumption DEF Change, CacheTypeOK, Versions
<1>t. CacheTypeOK'
  BY <1>i, <1>1, <1>2 DEF CacheTypeOK
<1>h. FlightsHeld'
  BY <1>i, <1>1 DEF FlightsHeld, At
<1>3. ReadersOrdered => ReadersOrdered'
  BY <1>s, <1>1 DEF ReadersOrdered, At
<1>4. /\ FlightsOrdered => FlightsOrdered'
      /\ CachedSinceInvalidation => CachedSinceInvalidation'
      /\ FreshReads => FreshReads'
  BY <1>1 DEF FlightsOrdered, Own, CachedSinceInvalidation, FreshReads, At
<1> QED
  BY <1>t, <1>h, <1>1, <1>3, <1>4 DEF CacheInv

(* Evict: nothing is claimed of the slot any more.                         *)
LEMMA EvictInv ==
    ASSUME CacheInv, Evict
    PROVE  CacheInv'
<1>i. CacheTypeOK /\ FlightsHeld
  BY DEF CacheInv
<1>1. /\ slot' = NoSlot /\ seen' = tree /\ evicted'
      /\ UNCHANGED <<tree, leading, flight, reading>>
  BY DEF Evict
<1>2. evicted' \in BOOLEAN
  BY Zenon DEF Evict
<1>t. CacheTypeOK'
  BY <1>i, <1>1, <1>2 DEF CacheTypeOK, Slots
<1>h. FlightsHeld'
  BY <1>i, <1>1 DEF FlightsHeld, At
<1> QED
  BY <1>t, <1>h, <1>1 DEF CacheInv

(* The initial state satisfies the invariant.                              *)
LEMMA InitCacheInv == CacheInit => CacheInv
<1> SUFFICES ASSUME CacheInit PROVE CacheInv
  OBVIOUS
<1>1. 0 \in Versions /\ 0 \in 0..MaxInvalidations /\ NoStatus \in Statuses
  BY CacheAssumption DEF Versions, Statuses
<1>2. NewFlight(0, 0) \in FlightRecords /\ NewReader \in ReaderRecords
  BY <1>1 DEF NewFlight, FlightRecords, NewReader, ReaderRecords, Outcomes, Stages
<1>3. evicted \in BOOLEAN
  BY Zenon DEF CacheInit
<1>t. CacheTypeOK
  BY <1>1, <1>2, <1>3 DEF CacheInit, CacheTypeOK, Slots
<1>h. FlightsHeld /\ FlightsOrdered
  BY DEF CacheInit, FlightsHeld, FlightsOrdered, NewReader, At
<1>o. ReadersOrdered /\ CachedSinceInvalidation /\ FreshReads
  BY DEF CacheInit, ReadersOrdered, CachedSinceInvalidation, FreshReads, NewReader, NoSlot, At
<1> QED
  BY <1>t, <1>h, <1>o DEF CacheInv

(* Every step keeps the invariant.                                         *)
LEMMA CacheInvNext == CacheInv /\ [CacheNext]_cacheVars => CacheInv'
<1> SUFFICES ASSUME CacheInv, [CacheNext]_cacheVars PROVE CacheInv'
  OBVIOUS
<1>1. CASE UNCHANGED cacheVars
  BY <1>1 DEF cacheVars, CacheInv, CacheTypeOK, FlightsHeld, FlightsOrdered, ReadersOrdered,
              CachedSinceInvalidation, FreshReads, Own, At
<1> QED
  BY <1>1, ChangeInv, InvalidateInv, EvictInv, GetCachedInv, GetScansInv, GetFreshInv,
     GenerationInv, LeadInv, FollowInv, ScanEndsInv, ScanFailsInv, LeaderGoneInv, RetireInv,
     TakeResultInv, VanishedInv, RetiredInv, FollowerGoneInv
     DEF CacheNext, ReadStep

(* CacheInv holds in every state of every behaviour.                       *)
THEOREM CacheInvariant == CacheSpec => []CacheInv
  BY InitCacheInv, CacheInvNext, PTL DEF CacheSpec

(* Whatever scans were in flight at an invalidation, none of them is       *)
(* stored after it: what the cache serves was scanned since (the store is  *)
(* conditional on the generation, git_status_cache.rs).                    *)
THEOREM CachedIsSince == CacheSpec => []CachedSinceInvalidation
  <1>1. CacheInv => CachedSinceInvalidation
    BY DEF CacheInv, CachedSinceInvalidation
  <1> QED
    BY <1>1, CacheInvariant, PTL

(* A forced read returns a scan that began after it was asked for, with    *)
(* any number of readers, flights, changes and invalidations (get_fresh).  *)
THEOREM ForcedReadsAreFresh == CacheSpec => []FreshReads
  <1>1. CacheInv => FreshReads
    BY DEF CacheInv, FreshReads
  <1> QED
    BY <1>1, CacheInvariant, PTL
=============================================================================
