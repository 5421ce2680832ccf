---------------------------- MODULE AppAutomation ----------------------------
(***************************************************************************)
(* App automations: definitions that fire once a local day, the ledger of  *)
(* their fires, the scanner that reconciles the schedule into the ledger   *)
(* and the job handlers that turn a fire into an App run.                  *)
(*                                                                         *)
(* Time is a count of ticks; a day of the schedule and a UTC day have      *)
(* DayLength ticks, and a definition's occurrence of day n is at Due(n).   *)
(* Every statement or transaction is one step. A claim token is the        *)
(* dispatcher that drew it: a dispatcher draws a new one only for a fire   *)
(* that is pending, hence after the last one is out of the row. Everything *)
(* a definition pins (App version, grant, binding, provider, resources and *)
(* the approver's membership) is one flag that is lost and never regained: *)
(* pins are versions. Of the queue only what JobQueue.tla promises of a    *)
(* deduplicated row is kept: until it is completed or has failed it may be *)
(* delivered at any time, also while a handler still works on it.          *)
(* A definition whose comment begins with "Fault:" is a wrong variant of   *)
(* the one after it.                                                       *)
(***************************************************************************)
EXTENDS Naturals, Sequences, FiniteSets

CONSTANTS Definitions, Days, Dispatchers, Nobody,
          DayLength,    \* ticks of a day
          TimeOfDay,    \* local_time
          CatchUp,      \* catch_up_window_minutes
          ClaimLease,   \* ticks from claimed_at to lease_expires_at
          MaxClaims,    \* the three orchestration attempts
          ValidUntil,   \* valid_until; valid_from is 0
          DailyLimit,   \* min(max_org_runs_per_utc_day, 100)
          PendingLimit, \* min(max_pending_org_fires, 25)
          MaxEpoch,     \* bound: definition epochs
          MaxTime       \* bound: the clock

ASSUME DayAssumption == DayLength \in Nat \ {0} /\ TimeOfDay \in 1..(DayLength - 1)
ASSUME DaysAssumption == Days \subseteq Nat
ASSUME LimitAssumption == MaxClaims \in Nat \ {0} /\ DailyLimit \in Nat /\ PendingLimit \in Nat
ASSUME TimeAssumption == {CatchUp, ClaimLease, ValidUntil, MaxTime} \subseteq Nat /\ MaxEpoch \in Nat \ {0}
ASSUME NobodyAssumption == Nobody \notin Dispatchers
\* The clock outlives every claim a definition may still give out.
ASSUME HorizonAssumption == ValidUntil + ClaimLease <= MaxTime

VARIABLES
  now,         \* the clock, of the database and of every process
  definition,  \* app_automation_definitions
  pinned,      \* definitions whose pinned facts all still hold
  fire,        \* app_automation_fires, by definition and logical day
  job,         \* the queue rows of a fire, by the attempt count in their key
  pc,          \* where each dispatcher is in dispatchAppAutomationFire
  cur,         \* its delivery: the fire and the attempt count in the key
  clock,       \* the clock reading it works with
  seen,        \* the claim token it loaded
  \* History, not read by any action:
  mine,        \* the number of the claim a dispatcher got
  runs         \* the App runs, as they were created

vars == <<now, definition, pinned, fire, job, pc, cur, clock, seen, mine, runs>>
locals == <<pc, cur, clock, seen, mine>>
world == <<now, definition, pinned>>

Fires == Definitions \X Days
Due(f) == f[2] * DayLength + TimeOfDay
UtcDay(t) == t \div DayLength
Time == 0..MaxTime
Active == {"pending", "claimed"}

NoFire == [state |-> "none", epoch |-> 0, attempts |-> 0, token |-> Nobody,
           lease |-> 0, stamp |-> 0, reason |-> "none"]

TypeOK ==
  /\ now \in Time
  /\ definition \in [Definitions -> [state : {"active", "paused", "ended"},
                                     epoch : 1..MaxEpoch, changed : Time]]
  /\ pinned \subseteq Definitions
  /\ fire \in [Fires ->
       [state : {"none", "run_created", "skipped", "dead_letter"} \cup Active,
        epoch : 0..MaxEpoch, attempts : 0..MaxClaims,
        token : Dispatchers \cup {Nobody}, lease : 0..(MaxTime + ClaimLease),
        stamp : Time, reason : {"none", "misfire_skipped", "definition_ineligible"}]]
  /\ job \in [Fires -> [0..MaxClaims ->
       {"none", "pending", "completed", "failed"}]]
  /\ pc \in [Dispatchers -> {"idle", "recover", "misfire", "preflight", "claim",
                             "terminalize", "invoke", "submit", "refused", "failed"}]
  /\ \A p \in Dispatchers : pc[p] # "idle" => cur[p] \in Fires \X (0..MaxClaims)
  /\ clock \in [Dispatchers -> Time]
  /\ seen \in [Dispatchers -> Dispatchers \cup {Nobody}]
  \* A claim in force carries its token; a fire that waits or was given up has none.
  /\ \A f \in Fires : fire[f].state \in {"claimed", "run_created"} <=> fire[f].token # Nobody

Init ==
  /\ now = 0
  /\ definition = [d \in Definitions |-> [state |-> "active", epoch |-> 1, changed |-> 0]]
  /\ pinned = Definitions
  /\ fire = [f \in Fires |-> NoFire]
  /\ job = [f \in Fires |-> [n \in 0..MaxClaims |-> "none"]]
  /\ pc = [p \in Dispatchers |-> "idle"]
  /\ cur = [p \in Dispatchers |-> <<>>]
  /\ clock = [p \in Dispatchers |-> 0]
  /\ seen = [p \in Dispatchers |-> Nobody]
  /\ mine = [p \in Dispatchers |-> 0]
  /\ runs = <<>>

-----------------------------------------------------------------------------
(* The rows, and the writes that every party shares. *)

\* The definition may act at time t.
Allows(d, t) == definition[d].state = "active" /\ t < ValidUntil
\* ... and is still the one the fire was made for.
Current(f, t) == Allows(f[1], t) /\ definition[f[1]].epoch = fire[f].epoch

\* Fault: the row keeps the token of the claim that ended.
ClearedButToken(f) == [fire[f] EXCEPT !.lease = 0, !.stamp = 0]
Cleared(f) == [fire[f] EXCEPT !.token = Nobody, !.lease = 0, !.stamp = 0]
Skipped(f, why) == [Cleared(f) EXCEPT !.state = "skipped", !.reason = why]

\* Fault: an occurrence that failed as often as it may waits for another claim.
ReleasedAgain(f) == [Cleared(f) EXCEPT !.state = "pending"]
\* settleFailedAppAutomationFireClaim: the last attempt is terminal.
Released(f) ==
  [Cleared(f) EXCEPT !.state = IF fire[f].attempts = MaxClaims THEN "dead_letter" ELSE "pending"]

\* The first claim must come within the catch-up window.
TooLate(f, t) == fire[f].attempts = 0 /\ t > Due(f) + CatchUp

ActiveFires == {f \in Fires : fire[f].state \in Active}
\* Claims and runs that count against the daily budget of a UTC day.
Reserved(day) == {f \in Fires : /\ fire[f].state \in {"claimed", "run_created"}
                                /\ UtcDay(fire[f].stamp) = day}

-----------------------------------------------------------------------------
(* The definition and the world around it. *)

Transition(d, from, to) ==
  /\ definition[d].state \in from
  /\ definition[d].epoch < MaxEpoch
  /\ definition' = [definition EXCEPT ![d] = [state |-> to, epoch |-> @.epoch + 1, changed |-> now]]
  /\ UNCHANGED <<now, pinned, fire, job, locals, runs>>
Pause(d) == Transition(d, {"active"}, "paused")
Resume(d) == Transition(d, {"paused"}, "active")
RevokeOrExpire(d) == Transition(d, {"active", "paused"}, "ended")

LosePin(d) ==
  /\ pinned' = pinned \ {d}
  /\ UNCHANGED <<now, definition, fire, job, locals, runs>>

Tick ==
  /\ now < MaxTime
  /\ now' = now + 1
  /\ UNCHANGED <<definition, pinned, fire, job, locals, runs>>

-----------------------------------------------------------------------------
(* The scanner. Both transactions lock the definition and read the clock   *)
(* after the lock.                                                         *)

\* Fault: a definition that is resumed catches up on what it missed.
EligibleFromStart(d) == 0
\* Occurrences after the last change of state, and after valid_from.
EligibleAfter(d) == definition[d].changed

\* persistAppAutomationFire. The unique indexes allow one fire of a day, and
\* one active fire of a definition; the insert trigger holds the pending
\* budget against skipped rows too.
EnsureFire(d, day) ==
  LET f == <<d, day>>
      new == [NoFire EXCEPT !.epoch = definition[d].epoch]
  IN  /\ Allows(d, now)
      /\ EligibleAfter(d) < Due(f) /\ Due(f) <= now /\ Due(f) < ValidUntil
      /\ \/ /\ fire[f].state = "none"
            /\ Cardinality(ActiveFires) < PendingLimit
            /\ now > Due(f) + CatchUp
            /\ fire' = [fire EXCEPT ![f] = [new EXCEPT !.state = "skipped",
                                                       !.reason = "misfire_skipped"]]
         \/ /\ fire[f].state = "none"
            /\ Cardinality(ActiveFires) < PendingLimit
            /\ now <= Due(f) + CatchUp
            /\ \A g \in ActiveFires : g[1] # d
            /\ fire' = [fire EXCEPT ![f] = [new EXCEPT !.state = "pending"]]
         \/ /\ fire[f].state = "pending" /\ fire[f].epoch = definition[d].epoch
            /\ TooLate(f, now)
            /\ fire' = [fire EXCEPT ![f] = Skipped(f, "misfire_skipped")]
      /\ UNCHANGED <<world, job, locals, runs>>

\* Fault: a claim whose holder is gone is left to its holder.
WaitsForScanner(f) == fire[f].state = "pending"
\* Fault: the scanner does not look at the lease.
UnsettledAtOnce(f) == fire[f].state \in Active
\* listUnsettledAppAutomationFires, and the state check under the row lock.
Unsettled(f) ==
  \/ fire[f].state = "pending"
  \/ fire[f].state = "claimed" /\ fire[f].lease <= now

\* enqueueOrRearmFailed and the charge that follows a re-arm. The fire's own
\* trigger lets attempt_count change on a claim only, so the charge raises and
\* the transaction, the re-arm with it, is rolled back: no step when the row
\* has failed.
Offer(f, n) ==
  /\ job[f][n] # "failed"
  /\ job' = [job EXCEPT ![f][n] = IF @ = "none" THEN "pending" ELSE @]

\* reconcileFire
Reconcile(f) ==
  /\ Unsettled(f)
  /\ \/ /\ ~Current(f, now)
        /\ fire' = [fire EXCEPT ![f] = Skipped(f, "definition_ineligible")]
        /\ UNCHANGED job
     \/ /\ Current(f, now) /\ TooLate(f, now)
        /\ fire' = [fire EXCEPT ![f] = Skipped(f, "misfire_skipped")]
        /\ UNCHANGED job
     \/ /\ Current(f, now) /\ ~TooLate(f, now)
        /\ fire' = [fire EXCEPT ![f] = IF @.state = "claimed" THEN Released(f) ELSE @]
        /\ IF fire'[f].state = "pending" THEN Offer(f, fire[f].attempts) ELSE UNCHANGED job
  /\ UNCHANGED <<world, locals, runs>>

-----------------------------------------------------------------------------
(* The queue's side of a delivery. *)

Rest(p) ==
  /\ pc' = [pc EXCEPT ![p] = "idle"]
  /\ cur' = [cur EXCEPT ![p] = <<>>]
  /\ clock' = [clock EXCEPT ![p] = 0]
  /\ seen' = [seen EXCEPT ![p] = Nobody]
  /\ mine' = [mine EXCEPT ![p] = 0]

\* The handler ends and its worker settles the row, or has lost it to another.
Ends(p, status) ==
  LET f == cur[p][1]
      n == cur[p][2]
  IN  /\ Rest(p)
      /\ \/ job[f][n] = "pending" /\ job' = [job EXCEPT ![f][n] = status]
         \/ UNCHANGED job
Returns(p) == Ends(p, "completed")
\* It is tried again, unless its attempts are spent.
Throws(p) == Ends(p, "failed")
AsksForLater(p) == Rest(p) /\ UNCHANGED job

\* The process dies, or a statement of the handler fails; the row is delivered again.
Crash(p) ==
  /\ pc[p] # "idle"
  /\ Rest(p)
  /\ UNCHANGED <<world, fire, job, runs>>

-----------------------------------------------------------------------------
(* dispatchAppAutomationFire, step by step. *)

\* What a later step does not read is forgotten.
Goto(p, step) ==
  /\ pc' = [pc EXCEPT ![p] = step]
  /\ clock' = [clock EXCEPT ![p] = IF step \in {"preflight", "claim"} THEN @ ELSE 0]
  /\ seen' = [seen EXCEPT ![p] = Nobody]
  /\ UNCHANGED <<cur, mine>>

\* The row is dequeued, the clock is read and the fire is loaded. A fire under a
\* live claim is asked for again later, which leaves everything as it was.
Deliver(p, f, n) ==
  /\ pc[p] = "idle"
  /\ job[f][n] = "pending"
  /\ \/ /\ fire[f].state \notin Active
        /\ job' = [job EXCEPT ![f][n] = "completed"]
        /\ UNCHANGED locals
     \/ /\ Unsettled(f)
        /\ pc' = [pc EXCEPT ![p] = IF fire[f].state = "claimed" THEN "recover"
                                   ELSE IF TooLate(f, now) THEN "misfire" ELSE "preflight"]
        /\ cur' = [cur EXCEPT ![p] = <<f, n>>]
        /\ clock' = [clock EXCEPT ![p] = now]
        /\ seen' = [seen EXCEPT ![p] = fire[f].token]
        /\ UNCHANGED <<job, mine>>
  /\ UNCHANGED <<world, fire, runs>>

\* recoverExpiredAppAutomationFireClaim
Recover(p) ==
  LET f == cur[p][1]
  IN  /\ pc[p] = "recover"
      /\ \/ /\ fire[f].state = "claimed" /\ fire[f].token = seen[p] /\ fire[f].lease <= clock[p]
            /\ fire' = [fire EXCEPT ![f] = Released(f)]
            /\ IF fire'[f].state = "pending" THEN Goto(p, "preflight") /\ UNCHANGED job ELSE Returns(p)
         \/ /\ ~(fire[f].state = "claimed" /\ fire[f].token = seen[p] /\ fire[f].lease <= clock[p])
            /\ UNCHANGED fire
            /\ Returns(p)
      /\ UNCHANGED <<world, runs>>

\* terminalizeUnclaimedAppAutomationFireMisfire
Misfire(p) ==
  LET f == cur[p][1]
      hit == fire[f].state = "pending" /\ fire[f].attempts = 0
  IN  /\ pc[p] = "misfire"
      /\ fire' = [fire EXCEPT ![f] = IF hit THEN Skipped(f, "misfire_skipped") ELSE @]
      /\ Returns(p)
      /\ UNCHANGED <<world, runs>>

\* preflightApprovedAutomation; the provider may be unavailable, the host may fail. Any
\* other AppError (an unhealthy dependency, an input that no longer resolves) is the
\* loss of something the definition pins.
Preflight(p) ==
  LET f == cur[p][1]
      eligible == Current(f, now) /\ fire[f].state = "pending" /\ f[1] \in pinned
  IN  /\ pc[p] = "preflight"
      /\ \/ eligible /\ Goto(p, "claim") /\ UNCHANGED job
         \/ ~eligible /\ Goto(p, "terminalize") /\ UNCHANGED job
         \/ AsksForLater(p)
         \/ Throws(p)
      /\ UNCHANGED <<world, fire, runs>>

\* claimAppAutomationFire, by the clock read at the start of the delivery.
MayClaim(p) ==
  LET f == cur[p][1]
      t == clock[p]
  IN  /\ fire[f].state = "pending"
      /\ fire[f].attempts < MaxClaims
      /\ Current(f, t)
      /\ fire[f].attempts > 0 \/ (Due(f) <= t /\ ~TooLate(f, t))
      /\ Cardinality(ActiveFires) <= PendingLimit
      /\ Cardinality(Reserved(UtcDay(t))) < DailyLimit
Claim(p) ==
  LET f == cur[p][1]
      n == fire[f].attempts + 1
  IN  /\ pc[p] = "claim"
      /\ \/ /\ MayClaim(p)
            /\ fire' = [fire EXCEPT ![f] = [@ EXCEPT !.state = "claimed", !.attempts = n,
                          !.token = p, !.stamp = clock[p], !.lease = clock[p] + ClaimLease]]
            /\ mine' = [mine EXCEPT ![p] = n]
            /\ pc' = [pc EXCEPT ![p] = "invoke"]
            /\ clock' = [clock EXCEPT ![p] = 0]
            /\ UNCHANGED <<job, cur, seen>>
         \/ ~MayClaim(p) /\ Goto(p, "terminalize") /\ UNCHANGED <<fire, job>>
         \* The trigger finds the approver's membership changed, or the host fails.
         \/ Throws(p) /\ UNCHANGED fire
      /\ UNCHANGED <<world, runs>>

\* terminalizeAppAutomationFireDefinitionIneligible, expecting a pending fire:
\* after a preflight that found it ineligible and after a claim that failed.
Terminalize(p) ==
  LET f == cur[p][1]
  IN  /\ pc[p] = "terminalize"
      /\ fire' = [fire EXCEPT ![f] =
                    IF @.state = "pending" THEN Skipped(f, "definition_ineligible") ELSE @]
      /\ Returns(p)
      /\ UNCHANGED <<world, runs>>

\* invokeApprovedAutomation up to the submission, which reads the clock anew.
Invoke(p) ==
  LET f == cur[p][1]
      valid == /\ Current(f, now) /\ f[1] \in pinned
               /\ fire[f].state = "claimed" /\ fire[f].token = p /\ fire[f].lease > now
  IN  /\ pc[p] = "invoke"
      /\ \/ /\ valid
            /\ pc' = [pc EXCEPT ![p] = "submit"]
            /\ clock' = [clock EXCEPT ![p] = now]
            /\ UNCHANGED <<cur, seen, mine>>
         \/ ~valid /\ Goto(p, "refused")
         \/ Goto(p, "failed")
      /\ UNCHANGED <<world, fire, job, runs>>

\* Fault: whoever claimed the fire, its run is bound.
BindsAnyClaim(p) == fire[cur[p][1]].state = "claimed"
\* bindAppAutomationFireRun, by the submission's clock.
Binds(p) ==
  LET f == cur[p][1]
  IN  fire[f].state = "claimed" /\ fire[f].token = p /\ fire[f].lease > clock[p]
\* The insert's lineage trigger, by the database's clock.
MayCreateRun(f) ==
  /\ Current(f, now)
  /\ f[1] \in pinned
  /\ fire[f].state = "claimed"
  /\ Cardinality({i \in DOMAIN runs : UtcDay(runs[i].at) = UtcDay(now)}) < DailyLimit

\* The submission's transaction. A fire without a run has no replay to find. The
\* reply may be lost after the commit.
Submit(p) ==
  LET f == cur[p][1]
  IN  /\ pc[p] = "submit"
      /\ \/ /\ MayCreateRun(f) /\ Binds(p)
            /\ runs' = Append(runs, [fire |-> f, claim |-> mine[p], at |-> clock[p],
                                     changed |-> definition[f[1]].changed])
            /\ fire' = [fire EXCEPT ![f] = [@ EXCEPT !.state = "run_created", !.stamp = clock[p]]]
            /\ Returns(p) \/ (Goto(p, "failed") /\ UNCHANGED job)
         \/ Goto(p, "failed") /\ UNCHANGED <<fire, job, runs>>
      /\ UNCHANGED world

\* Fault: the token alone finds the claim.
HoldsToken(p) == fire[cur[p][1]].token = p
\* The compare-and-set of a dispatcher's own claim.
Holds(p) == fire[cur[p][1]].state = "claimed" /\ fire[cur[p][1]].token = p

\* The claimed fire's definition is stale, denied or disabled.
Refuse(p) ==
  LET f == cur[p][1]
  IN  /\ pc[p] = "refused"
      /\ fire' = [fire EXCEPT ![f] = IF Holds(p) THEN Skipped(f, "definition_ineligible") ELSE @]
      /\ Returns(p)
      /\ UNCHANGED <<world, runs>>

\* settleFailedAppAutomationFireClaim after any other error, which is thrown on
\* to the queue unless the fire is dead.
SettleFailure(p) ==
  LET f == cur[p][1]
  IN  /\ pc[p] = "failed"
      /\ fire' = [fire EXCEPT ![f] = IF Holds(p) THEN Released(f) ELSE @]
      /\ IF Holds(p) /\ fire'[f].state = "dead_letter" THEN Returns(p) ELSE Throws(p)
      /\ UNCHANGED <<world, runs>>

Dispatch(p) ==
  \/ \E f \in Fires, n \in 0..MaxClaims : Deliver(p, f, n)
  \/ Recover(p) \/ Misfire(p) \/ Preflight(p) \/ Claim(p) \/ Terminalize(p)
  \/ Invoke(p) \/ Submit(p) \/ Refuse(p) \/ SettleFailure(p) \/ Crash(p)

Next ==
  \/ \E d \in Definitions : Pause(d) \/ Resume(d) \/ RevokeOrExpire(d) \/ LosePin(d)
  \/ \E d \in Definitions, day \in Days : EnsureFire(d, day)
  \/ \E f \in Fires : Reconcile(f)
  \/ \E p \in Dispatchers : Dispatch(p)
  \/ Tick

Spec == Init /\ [][Next]_vars
\* Time passes and the recurring scan reaches every unsettled fire. Nothing is
\* assumed of the handlers.
FairSpec == Spec /\ WF_vars(Tick) /\ \A f \in Fires : WF_vars(Reconcile(f))

-----------------------------------------------------------------------------
(* Properties. *)

Ended(f) == fire[f].state \in {"run_created", "skipped", "dead_letter"}

\* A fire is recorded as run exactly when one App run of it exists: no second
\* run for the same day, and no run that the ledger forgot, although a reply
\* may be lost after the commit, a lease may lapse and a delivery may repeat.
RunAndFireAgree ==
  \A f \in Fires :
    LET mineRuns == {i \in DOMAIN runs : runs[i].fire = f}
    IN  Cardinality(mineRuns) = IF fire[f].state = "run_created" THEN 1 ELSE 0

\* A run is created under the last claim of its fire. A dispatcher that was slow
\* enough for its claim to be recovered and given to another cannot create it.
LastClaimRuns == \A i \in DOMAIN runs : runs[i].claim = fire[runs[i].fire].attempts

\* A run belongs to an occurrence later than the last pause, resume or approval
\* of its definition: what was missed while paused is not caught up, and a fire
\* of before a pause does not outlive it.
NoCatchUpAcrossPause == \A i \in DOMAIN runs : runs[i].changed < Due(runs[i].fire)

\* A fire waits only while it has a claim left, and is a dead letter only when
\* it has none: counted over crashes, recoveries by the scanner and by another
\* delivery, and failures that a dispatcher reports late.
SpentFireIsDead ==
  \A f \in Fires : /\ fire[f].state = "pending" => fire[f].attempts < MaxClaims
                   /\ fire[f].state = "dead_letter" => fire[f].attempts = MaxClaims

\* A claim whose lease is running is ended by its holder alone: neither the
\* scanner, a second delivery nor a pause takes the fire from a dispatcher that
\* may be creating its run.
LiveClaimIsKept ==
  [][\A f \in Fires, p \in Dispatchers :
       fire[f].token = p /\ fire[f].lease > now /\ fire'[f].token # p => pc'[p] # pc[p]]_vars

\* Every fire comes to an end: a run, a skip or a dead letter, although its
\* dispatchers may hang or crash at every step and its deliveries may all fail.
FireEnds == \A f \in Fires : fire[f].state \in Active ~> Ended(f)

\* A fire skipped as ineligible was ineligible: its definition changed, ended or
\* lost something it pins. (The limits are out of play in the run.)
SkippedWasIneligible ==
  \A f \in Fires :
    fire[f].reason = "definition_ineligible" => ~(Current(f, now) /\ f[1] \in pinned)
=============================================================================
