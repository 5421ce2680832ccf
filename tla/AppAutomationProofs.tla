------------------------ MODULE AppAutomationProofs ------------------------
(***************************************************************************)
(* Machine-checked proofs about the automation ledger: one run of a fire,  *)
(* under its last claim and never across a pause, and a live claim that    *)
(* only its holder ends, for every set of definitions, days and            *)
(* dispatchers and every lease, limit and window.                          *)
(***************************************************************************)
EXTENDS AppAutomation, FiniteSetTheorems, TLAPS

FireStates == {"none", "run_created", "skipped", "dead_letter"} \cup Active
FireType == [state : FireStates, epoch : 0..MaxEpoch, attempts : 0..MaxClaims,
             token : Dispatchers \cup {Nobody}, lease : 0..(MaxTime + ClaimLease),
             stamp : Time, reason : {"none", "misfire_skipped", "definition_ineligible"}]
JobStates == {"none", "pending", "completed", "failed"}
Steps == {"idle", "recover", "misfire", "preflight", "claim",
          "terminalize", "invoke", "submit", "refused", "failed"}
Deliveries == Fires \X (0..MaxClaims)
RunType == [fire : Fires, claim : 0..MaxClaims, at : Time, changed : Time]
DefinitionType == [state : {"active", "paused", "ended"}, epoch : 1..MaxEpoch, changed : Time]

-----------------------------------------------------------------------------
(* The strengthening. *)

(* The types of what TypeOK leaves open.                                       *)
Shape == /\ cur \in [Dispatchers -> {<<>>} \cup Deliveries]
         /\ mine \in [Dispatchers -> 0..MaxClaims]
         /\ runs \in Seq(RunType)

(* A dispatcher works with a clock reading of the past.                        *)
ClockBehind == \A p \in Dispatchers : clock[p] <= now

(* On its way to a run a dispatcher knows the number of its claim, as long as  *)
(* the fire is under its token.                                                *)
Creating == {"invoke", "submit"}
MineIsLast ==
  \A p \in Dispatchers :
    pc[p] \in Creating /\ Holds(p) => mine[p] = fire[cur[p][1]].attempts

(* A run is recorded in its fire, with the claim that made it; a recorded run  *)
(* exists; and there are no two runs of a fire.                                *)
RunsRecorded ==
  \A i \in DOMAIN runs : /\ fire[runs[i].fire].state = "run_created"
                         /\ runs[i].claim = fire[runs[i].fire].attempts
RecordedRuns == \A f \in Fires : fire[f].state = "run_created" =>
                  \E i \in DOMAIN runs : runs[i].fire = f
OneRun == \A i, j \in DOMAIN runs : runs[i].fire = runs[j].fire => i = j

(* A fire is never ahead of its definition, and one of the present epoch is    *)
(* later than the change that began it.                                        *)
EpochOrder ==
  \A f \in Fires :
    /\ fire[f].epoch <= definition[f[1]].epoch
    /\ fire[f].state # "none" /\ fire[f].epoch = definition[f[1]].epoch =>
         definition[f[1]].changed < Due(f)

AutoInv == /\ TypeOK /\ Shape /\ ClockBehind /\ MineIsLast
           /\ RunsRecorded /\ RecordedRuns /\ OneRun
           /\ EpochOrder /\ NoCatchUpAcrossPause /\ SpentFireIsDead

-----------------------------------------------------------------------------
(* What a step may do to a fire, a dispatcher and the runs. *)

(* A fire is created for an occurrence after the last change of its definition. *)
Creates(f, r) ==
  /\ fire[f].state = "none" /\ r.state \in {"pending", "skipped"}
  /\ r.epoch = definition[f[1]].epoch /\ definition[f[1]].changed < Due(f)
  /\ r.attempts = 0 /\ r.token = Nobody

(* An active fire is skipped or released. A claim in force is ended by its     *)
(* holder, who goes on.                                                        *)
GivesUp(f, r) ==
  /\ fire[f].state \in Active /\ r.state \in {"skipped", "pending", "dead_letter"}
  /\ r.epoch = fire[f].epoch /\ r.attempts = fire[f].attempts /\ r.token = Nobody
  /\ r.state = "pending" => r.attempts < MaxClaims
  /\ r.state = "dead_letter" => r.attempts = MaxClaims
  /\ \/ fire[f].state = "pending"
     \/ fire[f].lease <= now
     \/ \E p \in Dispatchers : fire[f].token = p /\ pc'[p] # pc[p]

(* A dispatcher claims a pending fire.                                         *)
Takes(p, f, r) ==
  /\ f = cur[p][1] /\ fire[f].state = "pending" /\ fire[f].attempts < MaxClaims
  /\ r.state = "claimed" /\ r.epoch = fire[f].epoch
  /\ r.attempts = fire[f].attempts + 1 /\ r.token = p
  /\ pc[p] = "claim" /\ pc'[p] = "invoke" /\ cur'[p] = cur[p] /\ mine'[p] = r.attempts

(* A claimed fire gets its run, under the token of the dispatcher.             *)
MakesRun(p, f, r, new) ==
  /\ f = cur[p][1] /\ pc[p] = "submit" /\ Holds(p)
  /\ definition[f[1]].epoch = fire[f].epoch
  /\ r.state = "run_created" /\ r.epoch = fire[f].epoch
  /\ r.attempts = fire[f].attempts /\ r.token = fire[f].token
  /\ new.fire = f /\ new.claim = mine[p] /\ new.changed = definition[f[1]].changed

(* What the locals of the dispatchers may do: one is on its way to a run only  *)
(* if it was, with the same delivery and claim, those of S excepted.           *)
LocalsMove(S) ==
  /\ pc' \in [Dispatchers -> Steps]
  /\ cur' \in [Dispatchers -> {<<>>} \cup Deliveries]
  /\ \A p \in Dispatchers : pc'[p] # "idle" => cur'[p] \in Deliveries
  /\ clock' \in [Dispatchers -> Time]
  /\ \A p \in Dispatchers : clock'[p] <= now
  /\ seen' \in [Dispatchers -> Dispatchers \cup {Nobody}]
  /\ mine' \in [Dispatchers -> 0..MaxClaims]
  /\ \A p \in Dispatchers \ S : pc'[p] \in Creating =>
       pc[p] \in Creating /\ cur'[p] = cur[p] /\ mine'[p] = mine[p]

Writes(f, r) == fire' = [fire EXCEPT ![f] = r]
JobsTyped == job' \in [Fires -> [0..MaxClaims -> JobStates]]

(* The kinds of steps.                                                         *)
WorldMoves ==
  /\ now' \in Time /\ now <= now' /\ pinned' \subseteq Definitions
  /\ definition' \in [Definitions -> DefinitionType]
  /\ \A d \in Definitions : definition'[d] = definition[d]
                            \/ definition[d].epoch < definition'[d].epoch
  /\ UNCHANGED <<fire, job, locals, runs>>
LedgerMoves ==
  /\ UNCHANGED <<world, runs>> /\ JobsTyped /\ LocalsMove({})
  /\ \/ fire' = fire
     \/ \E f \in Fires, r \in FireType : Writes(f, r) /\ (Creates(f, r) \/ GivesUp(f, r))
ClaimMoves(p) ==
  /\ UNCHANGED <<world, runs>> /\ JobsTyped /\ LocalsMove({p})
  /\ \E f \in Fires, r \in FireType : Writes(f, r) /\ Takes(p, f, r)
RunMoves(p) ==
  /\ UNCHANGED world /\ JobsTyped /\ LocalsMove({})
  /\ \E f \in Fires, r \in FireType, new \in RunType :
       Writes(f, r) /\ MakesRun(p, f, r, new) /\ runs' = Append(runs, new)

Moves == \/ WorldMoves
         \/ LedgerMoves
         \/ \E p \in Dispatchers : ClaimMoves(p) \/ RunMoves(p)

-----------------------------------------------------------------------------
(* The types, and the pieces of the steps. *)

(* The types of the variables. *)
LEMMA Types ==
  ASSUME TypeOK, Shape
  PROVE  /\ now \in Time /\ pinned \subseteq Definitions
         /\ definition \in [Definitions -> DefinitionType]
         /\ fire \in [Fires -> FireType]
         /\ job \in [Fires -> [0..MaxClaims -> JobStates]]
         /\ pc \in [Dispatchers -> Steps]
         /\ cur \in [Dispatchers -> {<<>>} \cup Deliveries]
         /\ clock \in [Dispatchers -> Time]
         /\ seen \in [Dispatchers -> Dispatchers \cup {Nobody}]
         /\ mine \in [Dispatchers -> 0..MaxClaims]
         /\ runs \in Seq(RunType)
BY DEF TypeOK, Shape, DefinitionType, FireType, FireStates, JobStates, Steps, Deliveries, RunType

(* The numbers are numbers. *)
LEMMA Numbers ==
  /\ MaxTime \in Nat /\ MaxClaims \in Nat \ {0} /\ MaxEpoch \in Nat \ {0} /\ ClaimLease \in Nat
  /\ Time \subseteq Nat /\ 0 \in Time
  /\ \A f \in Fires : f[1] \in Definitions /\ f[2] \in Days /\ Due(f) \in Nat
<1>1. /\ MaxTime \in Nat /\ MaxClaims \in Nat \ {0} /\ MaxEpoch \in Nat \ {0} /\ ClaimLease \in Nat
      /\ Time \subseteq Nat /\ 0 \in Time
  BY TimeAssumption, LimitAssumption DEF Time
<1>2. ASSUME NEW f \in Fires
      PROVE  f[1] \in Definitions /\ f[2] \in Days /\ Due(f) \in Nat
  <2>1. f[1] \in Definitions /\ f[2] \in Days
    BY DEF Fires
  <2>2. f[2] \in Nat
    BY <2>1, DaysAssumption
  <2>3. DayLength \in Nat /\ TimeOfDay \in Nat
    BY DayAssumption
  <2> QED BY <2>1, <2>2, <2>3 DEF Due
<1> QED BY <1>1, <1>2

(* Dispatchers that all stay where they are. *)
LEMMA LocalsStay ==
  ASSUME TypeOK, Shape, ClockBehind, UNCHANGED locals
  PROVE  LocalsMove({})
BY Types DEF LocalsMove, TypeOK, ClockBehind, locals, Deliveries

(* A dispatcher that ends or is gone. *)
LEMMA RestMoves ==
  ASSUME TypeOK, Shape, ClockBehind, NEW p \in Dispatchers, Rest(p)
  PROVE  LocalsMove({}) /\ pc'[p] = "idle"
<1>0. /\ pc \in [Dispatchers -> Steps] /\ cur \in [Dispatchers -> {<<>>} \cup Deliveries]
      /\ clock \in [Dispatchers -> Time] /\ seen \in [Dispatchers -> Dispatchers \cup {Nobody}]
      /\ mine \in [Dispatchers -> 0..MaxClaims] /\ now \in Nat
      /\ \A q \in Dispatchers : pc[q] # "idle" => cur[q] \in Deliveries
  BY Types, Numbers DEF TypeOK, Deliveries
<1>1. pc' \in [Dispatchers -> Steps] /\ pc'[p] = "idle" /\ \A q \in Dispatchers \ {p} : pc'[q] = pc[q]
  BY <1>0 DEF Rest, Steps
<1>2. cur' \in [Dispatchers -> {<<>>} \cup Deliveries] /\ \A q \in Dispatchers \ {p} : cur'[q] = cur[q]
  BY <1>0 DEF Rest
<1>3. /\ clock' \in [Dispatchers -> Time] /\ seen' \in [Dispatchers -> Dispatchers \cup {Nobody}]
      /\ clock'[p] = 0 /\ \A q \in Dispatchers \ {p} : clock'[q] = clock[q]
  BY <1>0, Numbers DEF Rest
<1>4. mine' \in [Dispatchers -> 0..MaxClaims] /\ \A q \in Dispatchers \ {p} : mine'[q] = mine[q]
  BY <1>0, Numbers DEF Rest
<1>5. \A q \in Dispatchers : clock'[q] <= now
  BY <1>0, <1>3 DEF ClockBehind
<1>6. \A q \in Dispatchers : pc'[q] # "idle" => cur'[q] \in Deliveries
  BY <1>0, <1>1, <1>2
<1>7. \A q \in Dispatchers : pc'[q] \in Creating =>
        pc[q] \in Creating /\ cur'[q] = cur[q] /\ mine'[q] = mine[q]
  BY <1>1, <1>2, <1>4 DEF Creating
<1> QED BY <1>1, <1>2, <1>3, <1>4, <1>5, <1>6, <1>7 DEF LocalsMove

(* A dispatcher that goes on with its delivery, not towards a run. *)
LEMMA GotoMoves ==
  ASSUME TypeOK, Shape, ClockBehind, NEW p \in Dispatchers, pc[p] # "idle",
         NEW step \in Steps \ Creating, Goto(p, step)
  PROVE  LocalsMove({}) /\ pc'[p] = step
<1>0. /\ pc \in [Dispatchers -> Steps] /\ cur \in [Dispatchers -> {<<>>} \cup Deliveries]
      /\ clock \in [Dispatchers -> Time] /\ seen \in [Dispatchers -> Dispatchers \cup {Nobody}]
      /\ mine \in [Dispatchers -> 0..MaxClaims] /\ now \in Nat
      /\ \A q \in Dispatchers : pc[q] # "idle" => cur[q] \in Deliveries
  BY Types, Numbers DEF TypeOK, Deliveries
<1>1. pc' \in [Dispatchers -> Steps] /\ pc'[p] = step /\ \A q \in Dispatchers \ {p} : pc'[q] = pc[q]
  BY <1>0 DEF Goto
<1>2. cur' = cur /\ mine' = mine
  BY DEF Goto
<1>3. /\ clock' \in [Dispatchers -> Time] /\ seen' \in [Dispatchers -> Dispatchers \cup {Nobody}]
      /\ clock'[p] \in {0, clock[p]} /\ \A q \in Dispatchers \ {p} : clock'[q] = clock[q]
  BY <1>0, Numbers DEF Goto
<1>5. \A q \in Dispatchers : clock'[q] <= now
  BY <1>0, <1>3 DEF ClockBehind
<1>6. \A q \in Dispatchers : pc'[q] # "idle" => cur'[q] \in Deliveries
  BY <1>0, <1>1, <1>2
<1>7. \A q \in Dispatchers : pc'[q] \in Creating =>
        pc[q] \in Creating /\ cur'[q] = cur[q] /\ mine'[q] = mine[q]
  BY <1>1, <1>2
<1> QED BY <1>0, <1>1, <1>2, <1>3, <1>5, <1>6, <1>7 DEF LocalsMove

(* A row of the queue that is written. *)
LEMMA JobWritten ==
  ASSUME TypeOK, Shape, NEW f \in Fires, NEW n \in 0..MaxClaims, NEW s \in JobStates,
         job' = [job EXCEPT ![f][n] = s]
  PROVE  JobsTyped
BY Types DEF JobsTyped

(* Rows of the queue that stay. *)
LEMMA JobsStay ==
  ASSUME TypeOK, Shape, job' = job
  PROVE  JobsTyped
BY Types DEF JobsTyped

(* A dispatcher's delivery is one of the queue's. *)
LEMMA Delivery ==
  ASSUME TypeOK, Shape, NEW p \in Dispatchers, pc[p] # "idle"
  PROVE  cur[p] \in Deliveries /\ cur[p][1] \in Fires /\ cur[p][2] \in 0..MaxClaims
BY DEF TypeOK, Deliveries

(* The end of a delivery. *)
LEMMA EndsMoves ==
  ASSUME TypeOK, Shape, ClockBehind, NEW p \in Dispatchers, pc[p] # "idle",
         NEW s \in JobStates, Ends(p, s)
  PROVE  LocalsMove({}) /\ JobsTyped /\ pc'[p] = "idle"
<1>1. LocalsMove({}) /\ pc'[p] = "idle"
  BY RestMoves DEF Ends
<1>2. cur[p][1] \in Fires /\ cur[p][2] \in 0..MaxClaims
  BY Delivery
<1>3. JobsTyped
  BY <1>2, JobWritten, JobsStay DEF Ends
<1> QED BY <1>1, <1>3

(* Both ways in which a delivery settles its row. *)
LEMMA SettledMoves ==
  ASSUME TypeOK, Shape, ClockBehind, NEW p \in Dispatchers, pc[p] # "idle",
         Returns(p) \/ Throws(p)
  PROVE  LocalsMove({}) /\ JobsTyped /\ pc'[p] = "idle"
<1>1. PICK s \in JobStates : Ends(p, s)
  BY DEF Returns, Throws, JobStates
<1> QED BY <1>1, EndsMoves

-----------------------------------------------------------------------------
(* The rows that the steps write. *)

(* An active fire that is skipped, without a claim in force or by its holder. *)
LEMMA SkipGivesUp ==
  ASSUME TypeOK, Shape, NEW f \in Fires, NEW why \in {"misfire_skipped", "definition_ineligible"},
         fire[f].state \in Active,
         \/ fire[f].state = "pending"
         \/ fire[f].lease <= now
         \/ \E p \in Dispatchers : fire[f].token = p /\ pc'[p] # pc[p]
  PROVE  Skipped(f, why) \in FireType /\ GivesUp(f, Skipped(f, why))
<1>0. fire[f] \in FireType /\ 0 \in Time /\ 0 \in 0..(MaxTime + ClaimLease)
  BY Types, Numbers
<1> DEFINE r == Skipped(f, why)
<1>1. /\ r \in FireType /\ r.state = "skipped" /\ r.token = Nobody
      /\ r.epoch = fire[f].epoch /\ r.attempts = fire[f].attempts
  BY <1>0 DEF Skipped, Cleared, FireType, FireStates
<1> HIDE DEF r
<1>2. GivesUp(f, r)
  BY <1>1 DEF GivesUp
<1> QED BY <1>1, <1>2 DEF r

(* A claim that is released, after its lease or by its holder. *)
LEMMA ReleaseGivesUp ==
  ASSUME TypeOK, Shape, NEW f \in Fires, fire[f].state = "claimed",
         \/ fire[f].lease <= now
         \/ \E p \in Dispatchers : fire[f].token = p /\ pc'[p] # pc[p]
  PROVE  Released(f) \in FireType /\ GivesUp(f, Released(f))
<1>0. fire[f] \in FireType /\ 0 \in Time /\ 0 \in 0..(MaxTime + ClaimLease)
  BY Types, Numbers
<1> DEFINE r == Released(f)
<1>1. /\ r \in FireType /\ r.token = Nobody
      /\ r.epoch = fire[f].epoch /\ r.attempts = fire[f].attempts
      /\ r.state = IF fire[f].attempts = MaxClaims THEN "dead_letter" ELSE "pending"
  BY <1>0 DEF Released, Cleared, FireType, FireStates, Active
<1> HIDE DEF r
<1>2. fire[f].attempts \in Nat /\ fire[f].attempts <= MaxClaims
  BY <1>0, Numbers DEF FireType
<1>3. /\ r.state \in {"skipped", "pending", "dead_letter"}
      /\ r.state = "pending" => r.attempts < MaxClaims
      /\ r.state = "dead_letter" => r.attempts = MaxClaims
  BY <1>1, <1>2, Numbers
<1>4. GivesUp(f, r)
  BY <1>1, <1>3 DEF GivesUp, Active
<1> QED BY <1>1, <1>4 DEF r

-----------------------------------------------------------------------------
(* Every step is of one of the kinds. *)

(* The definition's changes of state. *)
LEMMA TransitionMoves ==
  ASSUME AutoInv, NEW d \in Definitions, NEW from, NEW to \in {"active", "paused", "ended"},
         Transition(d, from, to)
  PROVE  WorldMoves
<1>0. /\ definition \in [Definitions -> DefinitionType] /\ definition[d] \in DefinitionType
      /\ now \in Time /\ now \in Nat /\ MaxEpoch \in Nat /\ pinned \subseteq Definitions
  BY Types, Numbers DEF AutoInv
<1>1. PICK r : r = [state |-> to, epoch |-> definition[d].epoch + 1, changed |-> now]
  OBVIOUS
<1>2. r \in DefinitionType /\ definition[d].epoch < r.epoch
  BY <1>0, <1>1 DEF Transition, DefinitionType
<1>3. definition' = [definition EXCEPT ![d] = r]
  BY <1>0, <1>1 DEF Transition
<1>4. definition' \in [Definitions -> DefinitionType]
  BY <1>0, <1>2, <1>3
<1>5. \A e \in Definitions : definition'[e] = definition[e]
                             \/ definition[e].epoch < definition'[e].epoch
  BY <1>0, <1>2, <1>3
<1>6. now' = now /\ pinned' = pinned /\ UNCHANGED <<fire, job, locals, runs>>
  BY DEF Transition
<1> QED BY <1>0, <1>4, <1>5, <1>6 DEF WorldMoves

(* The lifecycle of the definition, its pins and the clock. *)
LEMMA WorldStep ==
  ASSUME AutoInv,
         \/ Tick
         \/ \E d \in Definitions : Pause(d) \/ Resume(d) \/ RevokeOrExpire(d) \/ LosePin(d)
  PROVE  Moves
<1>0. /\ definition \in [Definitions -> DefinitionType] /\ pinned \subseteq Definitions
      /\ now \in Time /\ now \in Nat /\ MaxTime \in Nat
  BY Types, Numbers DEF AutoInv
<1>1. CASE Tick
  <2>1. now' \in Time /\ now <= now'
    BY <1>0, <1>1 DEF Tick, Time
  <2> QED BY <1>0, <1>1, <2>1 DEF Tick, WorldMoves, Moves
<1>2. ASSUME NEW d \in Definitions, Pause(d) \/ Resume(d) \/ RevokeOrExpire(d)
      PROVE  Moves
  BY <1>2, TransitionMoves DEF Pause, Resume, RevokeOrExpire, Moves
<1>3. ASSUME NEW d \in Definitions, LosePin(d)
      PROVE  Moves
  BY <1>0, <1>3 DEF LosePin, WorldMoves, Moves
<1> QED BY <1>1, <1>2, <1>3

(* The scanner makes the fire of a day, or gives up one that is late. *)
LEMMA EnsureStep ==
  ASSUME AutoInv, NEW d \in Definitions, NEW day \in Days, EnsureFire(d, day)
  PROVE  Moves
<1> USE DEF AutoInv
<1> DEFINE f == <<d, day>>
<1>0. /\ f \in Fires /\ f[1] = d /\ definition[d] \in DefinitionType
      /\ JobsTyped /\ LocalsMove({}) /\ UNCHANGED <<world, runs>>
  BY Types, JobsStay, LocalsStay DEF EnsureFire, Fires
<1>1. PICK new : new = [NoFire EXCEPT !.epoch = definition[d].epoch]
  OBVIOUS
<1>2. definition[d].epoch \in 0..MaxEpoch /\ 0 \in Time /\ 0 \in 0..(MaxTime + ClaimLease)
      /\ 0 \in 0..MaxClaims
  BY <1>0, Numbers DEF DefinitionType
<1>3. definition[d].changed < Due(f)
  BY DEF EnsureFire, EligibleAfter
<1> HIDE DEF f
<1>4. ASSUME fire[f].state = "none",
             fire' = [fire EXCEPT ![f] = [new EXCEPT !.state = "skipped",
                                                     !.reason = "misfire_skipped"]]
      PROVE  Moves
  <2>1. PICK r : r = [new EXCEPT !.state = "skipped", !.reason = "misfire_skipped"]
    OBVIOUS
  <2>2. /\ r \in FireType /\ r.state = "skipped" /\ r.epoch = definition[d].epoch
        /\ r.attempts = 0 /\ r.token = Nobody
    BY <1>1, <1>2, <2>1 DEF NoFire, FireType, FireStates, Active
  <2>3. Creates(f, r) /\ Writes(f, r)
    BY <1>0, <1>3, <1>4, <2>1, <2>2 DEF Creates, Writes
  <2> QED BY <1>0, <2>2, <2>3 DEF LedgerMoves, Moves
<1>5. ASSUME fire[f].state = "none",
             fire' = [fire EXCEPT ![f] = [new EXCEPT !.state = "pending"]]
      PROVE  Moves
  <2>1. PICK r : r = [new EXCEPT !.state = "pending"]
    OBVIOUS
  <2>2. /\ r \in FireType /\ r.state = "pending" /\ r.epoch = definition[d].epoch
        /\ r.attempts = 0 /\ r.token = Nobody
    BY <1>1, <1>2, <2>1 DEF NoFire, FireType, FireStates, Active
  <2>3. Creates(f, r) /\ Writes(f, r)
    BY <1>0, <1>3, <1>5, <2>1, <2>2 DEF Creates, Writes
  <2> QED BY <1>0, <2>2, <2>3 DEF LedgerMoves, Moves
<1>6. ASSUME fire[f].state = "pending",
             fire' = [fire EXCEPT ![f] = Skipped(f, "misfire_skipped")]
      PROVE  Moves
  <2>1. /\ Skipped(f, "misfire_skipped") \in FireType
        /\ GivesUp(f, Skipped(f, "misfire_skipped"))
    BY <1>0, <1>6, SkipGivesUp DEF Active
  <2> QED BY <1>0, <1>6, <2>1 DEF LedgerMoves, Moves, Writes
<1> QED BY <1>1, <1>4, <1>5, <1>6 DEF EnsureFire, f

(* The scanner settles a fire, or offers it to the queue. *)
LEMMA ReconcileStep ==
  ASSUME AutoInv, NEW f \in Fires, Reconcile(f)
  PROVE  Moves
<1> USE DEF AutoInv
<1>0. /\ LocalsMove({}) /\ UNCHANGED <<world, runs>> /\ fire \in [Fires -> FireType]
  BY Types, LocalsStay DEF Reconcile
<1>1. fire[f].state \in Active /\ (fire[f].state = "pending" \/ fire[f].lease <= now)
  BY DEF Reconcile, Unsettled, Active
<1>2. JobsTyped
  <2>1. CASE job' = job
    BY <2>1, JobsStay
  <2>2. CASE Offer(f, fire[f].attempts)
    <3>1. fire[f].attempts \in 0..MaxClaims /\ job \in [Fires -> [0..MaxClaims -> JobStates]]
      BY <1>0, Types DEF FireType
    <3>2. PICK s : s = IF job[f][fire[f].attempts] = "none" THEN "pending"
                       ELSE job[f][fire[f].attempts]
      OBVIOUS
    <3>3. s \in JobStates
      BY <3>1, <3>2 DEF JobStates
    <3>4. job' = [job EXCEPT ![f][fire[f].attempts] = s]
      BY <2>2, <3>1, <3>2 DEF Offer
    <3> QED BY <3>1, <3>3, <3>4, JobWritten
  <2> QED BY <2>1, <2>2 DEF Reconcile
<1>3. ASSUME NEW why \in {"misfire_skipped", "definition_ineligible"},
             fire' = [fire EXCEPT ![f] = Skipped(f, why)]
      PROVE  Moves
  <2>1. Skipped(f, why) \in FireType /\ GivesUp(f, Skipped(f, why))
    BY <1>1, SkipGivesUp
  <2> QED BY <1>0, <1>2, <1>3, <2>1 DEF LedgerMoves, Moves, Writes
<1>4. ASSUME fire' = [fire EXCEPT ![f] = IF @.state = "claimed" THEN Released(f) ELSE @]
      PROVE  Moves
  <2>1. CASE fire[f].state = "claimed"
    <3>1. Released(f) \in FireType /\ GivesUp(f, Released(f))
      BY <1>1, <2>1, ReleaseGivesUp
    <3>2. Writes(f, Released(f))
      BY <1>4, <2>1 DEF Writes
    <3> QED BY <1>0, <1>2, <3>1, <3>2 DEF LedgerMoves, Moves
  <2>2. CASE fire[f].state # "claimed"
    <3>1. fire' = fire
      BY <1>0, <1>4, <2>2
    <3> QED BY <1>0, <1>2, <3>1 DEF LedgerMoves, Moves
  <2> QED BY <2>1, <2>2
<1> QED BY <1>3, <1>4 DEF Reconcile

(* A step of a dispatcher that ends its delivery and writes its fire or not. *)
LEMMA SkipOrNot ==
  ASSUME AutoInv, NEW p \in Dispatchers, pc[p] # "idle", NEW f \in Fires,
         NEW hit \in BOOLEAN, NEW why \in {"misfire_skipped", "definition_ineligible"},
         hit => \/ fire[f].state = "pending"
                \/ fire[f].state = "claimed" /\ fire[f].token = p,
         fire' = [fire EXCEPT ![f] = IF hit THEN Skipped(f, why) ELSE @],
         Returns(p), UNCHANGED <<world, runs>>
  PROVE  Moves
<1> USE DEF AutoInv
<1>0. LocalsMove({}) /\ JobsTyped /\ pc'[p] # pc[p] /\ fire \in [Fires -> FireType]
  BY SettledMoves, Types
<1>1. CASE hit
  <2>1. fire[f].state \in Active
    BY <1>1 DEF Active
  <2>2. Skipped(f, why) \in FireType /\ GivesUp(f, Skipped(f, why))
    BY <1>0, <1>1, <2>1, SkipGivesUp
  <2>3. Writes(f, Skipped(f, why))
    BY <1>1 DEF Writes
  <2> QED BY <1>0, <2>2, <2>3 DEF LedgerMoves, Moves
<1>2. CASE ~hit
  <2>1. fire' = fire
    BY <1>0, <1>2
  <2> QED BY <1>0, <2>1 DEF LedgerMoves, Moves
<1> QED BY <1>1, <1>2

(* A dispatcher is delivered a row. *)
LEMMA DeliverStep ==
  ASSUME AutoInv, NEW p \in Dispatchers, NEW f \in Fires, NEW n \in 0..MaxClaims, Deliver(p, f, n)
  PROVE  Moves
<1> USE DEF AutoInv
<1>0. /\ fire' = fire /\ UNCHANGED <<world, runs>>
      /\ pc \in [Dispatchers -> Steps] /\ cur \in [Dispatchers -> {<<>>} \cup Deliveries]
      /\ clock \in [Dispatchers -> Time] /\ seen \in [Dispatchers -> Dispatchers \cup {Nobody}]
      /\ mine \in [Dispatchers -> 0..MaxClaims] /\ now \in Nat /\ now \in Time
      /\ \A q \in Dispatchers : pc[q] # "idle" => cur[q] \in Deliveries
      /\ fire[f] \in FireType
  BY Types, Numbers DEF TypeOK, Deliveries, Deliver
<1>1. CASE job' = [job EXCEPT ![f][n] = "completed"] /\ UNCHANGED locals
  <2>1. JobsTyped
    BY <1>1, JobWritten DEF JobStates
  <2>2. LocalsMove({})
    BY <1>1, LocalsStay
  <2> QED BY <1>0, <2>1, <2>2 DEF LedgerMoves, Moves
<1>2. ASSUME NEW step \in {"recover", "misfire", "preflight"},
             pc' = [pc EXCEPT ![p] = step],
             cur' = [cur EXCEPT ![p] = <<f, n>>],
             clock' = [clock EXCEPT ![p] = now],
             seen' = [seen EXCEPT ![p] = fire[f].token],
             UNCHANGED <<job, mine>>
      PROVE  Moves
  <2>1. pc' \in [Dispatchers -> Steps] /\ pc'[p] = step /\ \A q \in Dispatchers \ {p} : pc'[q] = pc[q]
    BY <1>0, <1>2 DEF Steps
  <2>2. /\ cur' \in [Dispatchers -> {<<>>} \cup Deliveries] /\ cur'[p] \in Deliveries
        /\ \A q \in Dispatchers \ {p} : cur'[q] = cur[q]
    BY <1>0, <1>2 DEF Deliveries
  <2>3. /\ clock' \in [Dispatchers -> Time] /\ \A q \in Dispatchers : clock'[q] <= now
    BY <1>0, <1>2 DEF ClockBehind
  <2>4. seen' \in [Dispatchers -> Dispatchers \cup {Nobody}]
    BY <1>0, <1>2 DEF FireType
  <2>5. \A q \in Dispatchers : pc'[q] # "idle" => cur'[q] \in Deliveries
    BY <1>0, <2>1, <2>2
  <2>6. \A q \in Dispatchers : pc'[q] \in Creating =>
          pc[q] \in Creating /\ cur'[q] = cur[q] /\ mine'[q] = mine[q]
    BY <1>2, <2>1, <2>2 DEF Creating
  <2>7. LocalsMove({})
    BY <1>0, <1>2, <2>1, <2>2, <2>3, <2>4, <2>5, <2>6 DEF LocalsMove
  <2>8. JobsTyped
    BY <1>2, JobsStay
  <2> QED BY <1>0, <2>7, <2>8 DEF LedgerMoves, Moves
<1>3. PICK step : step = IF fire[f].state = "claimed" THEN "recover"
                         ELSE IF TooLate(f, now) THEN "misfire" ELSE "preflight"
  OBVIOUS
<1>4. step \in {"recover", "misfire", "preflight"}
  BY <1>3
<1> QED BY <1>1, <1>2, <1>3, <1>4 DEF Deliver

(* A dispatcher releases a claim whose lease has run out by its clock. *)
LEMMA RecoverStep ==
  ASSUME AutoInv, NEW p \in Dispatchers, Recover(p)
  PROVE  Moves
<1> USE DEF AutoInv
<1> DEFINE f == cur[p][1]
<1>0. /\ pc[p] = "recover" /\ f \in Fires /\ UNCHANGED <<world, runs>>
      /\ fire \in [Fires -> FireType] /\ clock[p] \in Nat /\ now \in Nat
  BY Delivery, Types, Numbers DEF Recover
<1>1. CASE fire' = fire /\ Returns(p)
  BY <1>0, <1>1, SettledMoves DEF LedgerMoves, Moves
<1>2. CASE /\ fire[f].state = "claimed" /\ fire[f].lease <= clock[p]
           /\ fire' = [fire EXCEPT ![f] = Released(f)]
           /\ (Goto(p, "preflight") /\ UNCHANGED job) \/ Returns(p)
  <2>1. fire[f].lease \in Nat
    BY <1>0, Numbers DEF FireType
  <2>2. fire[f].lease <= now
    BY <1>0, <1>2, <2>1 DEF ClockBehind
  <2>3. Released(f) \in FireType /\ GivesUp(f, Released(f))
    BY <1>0, <1>2, <2>2, ReleaseGivesUp
  <2>4. LocalsMove({}) /\ JobsTyped
    BY <1>0, <1>2, SettledMoves, GotoMoves, JobsStay DEF Steps, Creating
  <2> QED BY <1>0, <1>2, <2>3, <2>4 DEF LedgerMoves, Moves, Writes
<1> QED BY <1>1, <1>2 DEF Recover

(* A dispatcher that skips a late fire, or one that is ineligible. *)
LEMMA SkipStep ==
  ASSUME AutoInv, NEW p \in Dispatchers, Misfire(p) \/ Terminalize(p) \/ Refuse(p)
  PROVE  Moves
<1> USE DEF AutoInv
<1> DEFINE f == cur[p][1]
<1>0. pc[p] # "idle" /\ f \in Fires /\ Returns(p) /\ UNCHANGED <<world, runs>>
  BY Delivery DEF Misfire, Terminalize, Refuse
<1>1. CASE Misfire(p)
  <2>1. PICK hit \in BOOLEAN : hit = (fire[f].state = "pending" /\ fire[f].attempts = 0)
    OBVIOUS
  <2>2. fire' = [fire EXCEPT ![f] = IF hit THEN Skipped(f, "misfire_skipped") ELSE @]
    BY <1>1, <2>1 DEF Misfire
  <2> QED BY <1>0, <2>1, <2>2, SkipOrNot
<1>2. CASE Terminalize(p)
  <2>1. PICK hit \in BOOLEAN : hit = (fire[f].state = "pending")
    OBVIOUS
  <2>2. fire' = [fire EXCEPT ![f] = IF hit THEN Skipped(f, "definition_ineligible") ELSE @]
    BY <1>2, <2>1 DEF Terminalize
  <2> QED BY <1>0, <2>1, <2>2, SkipOrNot
<1>3. CASE Refuse(p)
  <2>1. PICK hit \in BOOLEAN : hit = Holds(p)
    BY DEF Holds
  <2>2. fire' = [fire EXCEPT ![f] = IF hit THEN Skipped(f, "definition_ineligible") ELSE @]
    BY <1>3, <2>1 DEF Refuse
  <2>3. hit => fire[f].state = "claimed" /\ fire[f].token = p
    BY <2>1 DEF Holds
  <2> QED BY <1>0, <2>2, <2>3, SkipOrNot
<1> QED BY <1>1, <1>2, <1>3

(* The preflight, and a process that dies. *)
LEMMA PreflightStep ==
  ASSUME AutoInv, NEW p \in Dispatchers, Preflight(p) \/ Crash(p)
  PROVE  Moves
<1> USE DEF AutoInv
<1>0. pc[p] # "idle" /\ fire' = fire /\ UNCHANGED <<world, runs>>
  BY DEF Preflight, Crash
<1>1. CASE Preflight(p)
  <2>1. LocalsMove({}) /\ JobsTyped
    BY <1>0, <1>1, GotoMoves, RestMoves, SettledMoves, JobsStay
    DEF Preflight, AsksForLater, Steps, Creating
  <2> QED BY <1>0, <2>1 DEF LedgerMoves, Moves
<1>2. CASE Crash(p)
  <2>1. LocalsMove({}) /\ JobsTyped
    BY <1>0, <1>2, RestMoves, JobsStay DEF Crash
  <2> QED BY <1>0, <2>1 DEF LedgerMoves, Moves
<1> QED BY <1>1, <1>2

(* The claim, or its refusal. *)
LEMMA ClaimStep ==
  ASSUME AutoInv, NEW p \in Dispatchers, Claim(p)
  PROVE  Moves
<1> USE DEF AutoInv
<1> DEFINE f == cur[p][1]
<1>0. /\ pc[p] = "claim" /\ f \in Fires /\ UNCHANGED <<world, runs>>
      /\ pc \in [Dispatchers -> Steps] /\ cur \in [Dispatchers -> {<<>>} \cup Deliveries]
      /\ clock \in [Dispatchers -> Time] /\ seen \in [Dispatchers -> Dispatchers \cup {Nobody}]
      /\ mine \in [Dispatchers -> 0..MaxClaims] /\ now \in Nat
      /\ \A q \in Dispatchers : pc[q] # "idle" => cur[q] \in Deliveries
      /\ fire \in [Fires -> FireType] /\ fire[f] \in FireType
  BY Delivery, Types, Numbers DEF TypeOK, Deliveries, Claim
<1>1. CASE Goto(p, "terminalize") /\ UNCHANGED <<fire, job>>
  <2>1. LocalsMove({}) /\ JobsTyped
    BY <1>0, <1>1, GotoMoves, JobsStay DEF Steps, Creating
  <2> QED BY <1>0, <1>1, <2>1 DEF LedgerMoves, Moves
<1>2. CASE Throws(p) /\ UNCHANGED fire
  BY <1>0, <1>2, SettledMoves DEF LedgerMoves, Moves
<1>3. PICK n : n = fire[f].attempts + 1
  OBVIOUS
<1>4. PICK r : r = [fire[f] EXCEPT !.state = "claimed", !.attempts = n, !.token = p,
                                   !.stamp = clock[p], !.lease = clock[p] + ClaimLease]
  OBVIOUS
<1>5. ASSUME MayClaim(p), fire' = [fire EXCEPT ![f] = r],
             mine' = [mine EXCEPT ![p] = n],
             pc' = [pc EXCEPT ![p] = "invoke"],
             clock' = [clock EXCEPT ![p] = 0],
             UNCHANGED <<job, cur, seen>>
      PROVE  Moves
  <2>1. fire[f].state = "pending" /\ fire[f].attempts < MaxClaims
    BY <1>5 DEF MayClaim
  <2>2. n \in 0..MaxClaims
    BY <1>0, <1>3, <2>1, Numbers DEF FireType
  <2>3. clock[p] \in Time /\ clock[p] + ClaimLease \in 0..(MaxTime + ClaimLease)
    BY <1>0, Numbers DEF Time
  <2>4. /\ r \in FireType /\ r.state = "claimed" /\ r.epoch = fire[f].epoch
        /\ r.attempts = n /\ r.token = p
    BY <1>0, <1>4, <2>2, <2>3 DEF FireType, FireStates, Active
  <2>5. /\ pc' \in [Dispatchers -> Steps] /\ pc'[p] = "invoke"
        /\ \A q \in Dispatchers \ {p} : pc'[q] = pc[q]
    BY <1>0, <1>5 DEF Steps
  <2>6. /\ mine' \in [Dispatchers -> 0..MaxClaims] /\ mine'[p] = n
        /\ \A q \in Dispatchers \ {p} : mine'[q] = mine[q]
    BY <1>0, <1>5, <2>2
  <2>7. clock' \in [Dispatchers -> Time] /\ \A q \in Dispatchers : clock'[q] <= now
    BY <1>0, <1>5, Numbers DEF ClockBehind
  <2>8. \A q \in Dispatchers : pc'[q] # "idle" => cur'[q] \in Deliveries
    BY <1>0, <1>5, <2>5
  <2>9. LocalsMove({p})
    BY <1>0, <1>5, <2>5, <2>6, <2>7, <2>8 DEF LocalsMove
  <2>10. Takes(p, f, r)
    BY <1>0, <1>3, <1>5, <2>1, <2>4, <2>5, <2>6 DEF Takes
  <2>11. Writes(f, r) /\ JobsTyped
    BY <1>5, JobsStay DEF Writes
  <2>12. ClaimMoves(p)
    BY <1>0, <2>4, <2>9, <2>10, <2>11 DEF ClaimMoves
  <2> QED BY <2>12 DEF Moves
<1> QED BY <1>1, <1>2, <1>3, <1>4, <1>5 DEF Claim

(* The invocation up to the submission. *)
LEMMA InvokeStep ==
  ASSUME AutoInv, NEW p \in Dispatchers, Invoke(p)
  PROVE  Moves
<1> USE DEF AutoInv
<1>0. /\ pc[p] = "invoke" /\ UNCHANGED <<world, fire, job, runs>>
      /\ pc \in [Dispatchers -> Steps] /\ cur \in [Dispatchers -> {<<>>} \cup Deliveries]
      /\ clock \in [Dispatchers -> Time] /\ seen \in [Dispatchers -> Dispatchers \cup {Nobody}]
      /\ mine \in [Dispatchers -> 0..MaxClaims] /\ now \in Nat /\ now \in Time
      /\ \A q \in Dispatchers : pc[q] # "idle" => cur[q] \in Deliveries
  BY Types, Numbers DEF TypeOK, Deliveries, Invoke
<1>1. JobsTyped
  BY <1>0, JobsStay
<1>2. CASE Goto(p, "refused") \/ Goto(p, "failed")
  <2>1. LocalsMove({})
    BY <1>0, <1>2, GotoMoves DEF Steps, Creating
  <2> QED BY <1>0, <1>1, <2>1 DEF LedgerMoves, Moves
<1>3. CASE /\ pc' = [pc EXCEPT ![p] = "submit"] /\ clock' = [clock EXCEPT ![p] = now]
           /\ UNCHANGED <<cur, seen, mine>>
  <2>1. pc' \in [Dispatchers -> Steps] /\ pc'[p] = "submit" /\ \A q \in Dispatchers \ {p} : pc'[q] = pc[q]
    BY <1>0, <1>3 DEF Steps
  <2>2. clock' \in [Dispatchers -> Time] /\ \A q \in Dispatchers : clock'[q] <= now
    BY <1>0, <1>3 DEF ClockBehind
  <2>3. \A q \in Dispatchers : pc'[q] # "idle" => cur'[q] \in Deliveries
    BY <1>0, <1>3, <2>1
  <2>4. \A q \in Dispatchers : pc'[q] \in Creating =>
          pc[q] \in Creating /\ cur'[q] = cur[q] /\ mine'[q] = mine[q]
    BY <1>0, <1>3, <2>1 DEF Creating
  <2>5. LocalsMove({})
    BY <1>0, <1>3, <2>1, <2>2, <2>3, <2>4 DEF LocalsMove
  <2> QED BY <1>0, <1>1, <2>5 DEF LedgerMoves, Moves
<1> QED BY <1>2, <1>3 DEF Invoke

(* The submission: the run and its fire in one transaction, or neither. *)
LEMMA SubmitStep ==
  ASSUME AutoInv, NEW p \in Dispatchers, Submit(p)
  PROVE  Moves
<1> USE DEF AutoInv
<1> DEFINE f == cur[p][1]
<1>0. /\ pc[p] = "submit" /\ f \in Fires /\ UNCHANGED world
      /\ fire \in [Fires -> FireType] /\ fire[f] \in FireType
      /\ clock[p] \in Time /\ mine[p] \in 0..MaxClaims
      /\ definition \in [Definitions -> DefinitionType] /\ f[1] \in Definitions
  BY Delivery, Types, Numbers DEF Submit
<1>1. CASE Goto(p, "failed") /\ UNCHANGED <<fire, job, runs>>
  <2>1. LocalsMove({}) /\ JobsTyped
    BY <1>0, <1>1, GotoMoves, JobsStay DEF Steps, Creating
  <2> QED BY <1>0, <1>1, <2>1 DEF LedgerMoves, Moves
<1>2. PICK new : new = [fire |-> f, claim |-> mine[p], at |-> clock[p],
                        changed |-> definition[f[1]].changed]
  OBVIOUS
<1>3. PICK r : r = [fire[f] EXCEPT !.state = "run_created", !.stamp = clock[p]]
  OBVIOUS
<1>4. ASSUME MayCreateRun(f), Binds(p), runs' = Append(runs, new),
             fire' = [fire EXCEPT ![f] = r],
             Returns(p) \/ (Goto(p, "failed") /\ UNCHANGED job)
      PROVE  Moves
  <2>1. LocalsMove({}) /\ JobsTyped
    BY <1>0, <1>4, GotoMoves, SettledMoves, JobsStay DEF Steps, Creating
  <2>2. definition[f[1]].changed \in Time
    BY <1>0 DEF DefinitionType
  <2>3. /\ new \in RunType /\ new.fire = f /\ new.claim = mine[p]
        /\ new.changed = definition[f[1]].changed
    BY <1>0, <1>2, <2>2 DEF RunType
  <2>4. /\ r \in FireType /\ r.state = "run_created" /\ r.epoch = fire[f].epoch
        /\ r.attempts = fire[f].attempts /\ r.token = fire[f].token
    BY <1>0, <1>3 DEF FireType, FireStates
  <2>5. Holds(p) /\ definition[f[1]].epoch = fire[f].epoch
    BY <1>4 DEF Holds, Binds, MayCreateRun, Current
  <2>6. MakesRun(p, f, r, new)
    BY <1>0, <2>3, <2>4, <2>5 DEF MakesRun
  <2>7. Writes(f, r)
    BY <1>4 DEF Writes
  <2>8. RunMoves(p)
    BY <1>0, <1>4, <2>1, <2>3, <2>4, <2>6, <2>7 DEF RunMoves
  <2> QED BY <2>8 DEF Moves
<1> QED BY <1>1, <1>2, <1>3, <1>4 DEF Submit

(* A dispatcher releases its own claim after a failure. *)
LEMMA SettleStep ==
  ASSUME AutoInv, NEW p \in Dispatchers, SettleFailure(p)
  PROVE  Moves
<1> USE DEF AutoInv
<1> DEFINE f == cur[p][1]
<1>0. /\ pc[p] = "failed" /\ f \in Fires /\ UNCHANGED <<world, runs>>
      /\ fire \in [Fires -> FireType]
  BY Delivery, Types DEF SettleFailure
<1>1. LocalsMove({}) /\ JobsTyped /\ pc'[p] # pc[p]
  BY <1>0, SettledMoves DEF SettleFailure
<1>2. CASE Holds(p)
  <2>1. fire[f].state = "claimed" /\ fire[f].token = p
    BY <1>2 DEF Holds
  <2>2. Released(f) \in FireType /\ GivesUp(f, Released(f))
    BY <1>0, <1>1, <2>1, ReleaseGivesUp
  <2>3. Writes(f, Released(f))
    BY <1>2 DEF Writes, SettleFailure
  <2> QED BY <1>0, <1>1, <2>2, <2>3 DEF LedgerMoves, Moves
<1>3. CASE ~Holds(p)
  <2>1. fire' = fire
    BY <1>0, <1>3 DEF SettleFailure
  <2> QED BY <1>0, <1>1, <2>1 DEF LedgerMoves, Moves
<1> QED BY <1>2, <1>3

(* Every step. *)
LEMMA NextMoves ==
  ASSUME AutoInv, Next
  PROVE  Moves
<1>1. ASSUME NEW p \in Dispatchers, Dispatch(p)
      PROVE  Moves
  BY <1>1, DeliverStep, RecoverStep, SkipStep, PreflightStep, ClaimStep, InvokeStep,
     SubmitStep, SettleStep DEF Dispatch
<1> QED BY <1>1, WorldStep, EnsureStep, ReconcileStep DEF Next

-----------------------------------------------------------------------------
(* The kinds of steps keep the invariant. *)

(* The invariant holds at the start. *)
LEMMA InvInit ==
  ASSUME Init
  PROVE  AutoInv
<1>1. /\ Time \subseteq Nat /\ 0 \in Time /\ 0 \in 0..MaxClaims /\ 0 \in 0..MaxEpoch
      /\ 1 \in 1..MaxEpoch /\ 0 \in 0..(MaxTime + ClaimLease) /\ 0 < MaxClaims
  BY Numbers
<1>2. definition \in [Definitions -> DefinitionType] /\ \A d \in Definitions : definition[d].epoch = 1
  BY <1>1 DEF Init, DefinitionType
<1>3. /\ fire \in [Fires -> FireType]
      /\ \A f \in Fires : fire[f].state = "none" /\ fire[f].token = Nobody /\ fire[f].epoch = 0
  BY <1>1 DEF Init, NoFire, FireType, FireStates
<1>4. TypeOK
  BY <1>1, <1>2, <1>3 DEF TypeOK, Init, DefinitionType, FireType, FireStates
<1>5. Shape /\ ClockBehind /\ MineIsLast
  BY <1>1 DEF Shape, ClockBehind, MineIsLast, Creating, Init
<1>6. RunsRecorded /\ OneRun /\ NoCatchUpAcrossPause
  BY DEF RunsRecorded, OneRun, NoCatchUpAcrossPause, Init
<1>7. RecordedRuns /\ SpentFireIsDead
  BY <1>3 DEF RecordedRuns, SpentFireIsDead
<1>8. EpochOrder
  BY <1>2, <1>3, Numbers DEF EpochOrder
<1> QED BY <1>4, <1>5, <1>6, <1>7, <1>8 DEF AutoInv

(* A fire that is written, and the others. *)
LEMMA Written ==
  ASSUME TypeOK, Shape, NEW f \in Fires, NEW r \in FireType, Writes(f, r)
  PROVE  fire' \in [Fires -> FireType] /\ fire'[f] = r /\ \A g \in Fires \ {f} : fire'[g] = fire[g]
BY Types DEF Writes

TokenTold(r) == r.state \in {"claimed", "run_created"} <=> r.token # Nobody

(* The types, from the moves of the dispatchers and of the fires. *)
LEMMA TypesKept ==
  ASSUME AutoInv, NEW S, UNCHANGED world, JobsTyped, LocalsMove(S), runs' \in Seq(RunType),
         fire' \in [Fires -> FireType], \A f \in Fires : TokenTold(fire'[f])
  PROVE  TypeOK' /\ Shape' /\ ClockBehind'
<1>1. now' = now /\ definition' = definition /\ pinned' = pinned
  BY DEF world
<1>2. TypeOK'
  BY <1>1 DEF AutoInv, TypeOK, JobsTyped, LocalsMove, FireType, FireStates, JobStates, Steps,
              Deliveries, TokenTold
<1>3. Shape' /\ ClockBehind'
  BY <1>1 DEF Shape, ClockBehind, LocalsMove
<1> QED BY <1>2, <1>3

(* What a step does to the fire it writes and the rest of the ledger keeps. *)
Settles(f) ==
  /\ fire[f].state # "run_created" /\ fire'[f].state # "none"
  /\ TokenTold(fire'[f])
  /\ fire'[f].state = "pending" => fire'[f].attempts < MaxClaims
  /\ fire'[f].state = "dead_letter" => fire'[f].attempts = MaxClaims
  /\ \/ fire'[f].epoch = fire[f].epoch /\ fire[f].state # "none"
     \/ fire'[f].epoch = definition[f[1]].epoch /\ definition[f[1]].changed < Due(f)

(* A fire that is created, given up, claimed or run is well settled. *)
LEMMA MovesSettle ==
  ASSUME AutoInv, NEW f \in Fires, NEW r \in FireType, Writes(f, r),
         \/ Creates(f, r) \/ GivesUp(f, r)
         \/ \E p \in Dispatchers : Takes(p, f, r)
         \/ \E p \in Dispatchers, new \in RunType : MakesRun(p, f, r, new)
  PROVE  Settles(f)
<1>0. /\ fire'[f] = r /\ fire[f] \in FireType /\ Nobody \notin Dispatchers
      /\ fire[f].attempts \in Nat /\ MaxClaims \in Nat \ {0}
  BY Written, Types, Numbers, NobodyAssumption DEF AutoInv, FireType
<1>1. CASE Creates(f, r)
  BY <1>0, <1>1 DEF Creates, Settles, TokenTold
<1>2. CASE GivesUp(f, r)
  BY <1>0, <1>2 DEF GivesUp, Settles, TokenTold, Active
<1>3. ASSUME NEW p \in Dispatchers, Takes(p, f, r)
      PROVE  Settles(f)
  BY <1>0, <1>3 DEF Takes, Settles, TokenTold
<1>4. ASSUME NEW p \in Dispatchers, NEW new \in RunType, MakesRun(p, f, r, new)
      PROVE  Settles(f)
  BY <1>0, <1>4 DEF MakesRun, Holds, Settles, TokenTold
<1> QED BY <1>1, <1>2, <1>3, <1>4

(* The part of the invariant about the fires alone. *)
LEMMA FiresKept ==
  ASSUME AutoInv, NEW f \in Fires, NEW r \in FireType, Writes(f, r), Settles(f), UNCHANGED world
  PROVE  /\ \A g \in Fires : TokenTold(fire'[g])
         /\ EpochOrder' /\ SpentFireIsDead'
<1>0. /\ fire' \in [Fires -> FireType] /\ \A g \in Fires \ {f} : fire'[g] = fire[g]
      /\ fire \in [Fires -> FireType] /\ definition' = definition
      /\ definition \in [Definitions -> DefinitionType]
  BY Written, Types DEF AutoInv, world
<1>1. \A g \in Fires : TokenTold(fire'[g])
  <2>1. \A g \in Fires : TokenTold(fire[g])
    BY DEF AutoInv, TypeOK, TokenTold
  <2> QED BY <1>0, <2>1 DEF Settles
<1>2. \A g \in Fires : fire'[g].epoch \in Nat /\ definition[g[1]].epoch \in Nat
  BY <1>0, Numbers DEF FireType, DefinitionType
<1>3. EpochOrder'
  <2> SUFFICES ASSUME NEW g \in Fires
               PROVE  /\ fire'[g].epoch <= definition[g[1]].epoch
                      /\ fire'[g].state # "none" /\ fire'[g].epoch = definition[g[1]].epoch =>
                           definition[g[1]].changed < Due(g)
    BY <1>0 DEF EpochOrder
  <2>1. CASE g # f
    BY <1>0, <2>1 DEF EpochOrder, AutoInv
  <2>2. CASE g = f
    BY <1>0, <1>2, <2>2 DEF EpochOrder, AutoInv, Settles
  <2> QED BY <2>1, <2>2
<1>4. SpentFireIsDead'
  BY <1>0 DEF SpentFireIsDead, AutoInv, Settles
<1> QED BY <1>1, <1>3, <1>4

(* The runs are a sequence of runs of fires. *)
LEMMA RunsTyped ==
  ASSUME Shape
  PROVE  /\ DOMAIN runs = 1..Len(runs) /\ Len(runs) \in Nat
         /\ \A i \in DOMAIN runs : runs[i] \in RunType /\ runs[i].fire \in Fires
<1>1. runs \in Seq(RunType)
  BY DEF Shape
<1>2. DOMAIN runs = 1..Len(runs) /\ Len(runs) \in Nat /\ \A i \in 1..Len(runs) : runs[i] \in RunType
  BY <1>1
<1>3. \A x \in RunType : x.fire \in Fires
  BY DEF RunType
<1> QED BY <1>2, <1>3

(* The runs of before a step that writes a fire without a run. *)
LEMMA RunsKept ==
  ASSUME AutoInv, NEW f \in Fires, NEW r \in FireType, Writes(f, r), Settles(f),
         r.state # "run_created", runs' = runs
  PROVE  /\ runs' \in Seq(RunType)
         /\ RunsRecorded' /\ RecordedRuns' /\ OneRun' /\ NoCatchUpAcrossPause'
<1>0. /\ runs \in Seq(RunType) /\ fire'[f] = r /\ \A g \in Fires \ {f} : fire'[g] = fire[g]
  BY Written, Types DEF AutoInv
<1>1. \A i \in DOMAIN runs : runs[i].fire \in Fires
  BY RunsTyped DEF AutoInv
<1>2. \A i \in DOMAIN runs : runs[i].fire # f
  BY DEF AutoInv, RunsRecorded, Settles
<1>3. RunsRecorded'
  BY <1>0, <1>1, <1>2 DEF AutoInv, RunsRecorded
<1>4. RecordedRuns'
  BY <1>0 DEF AutoInv, RecordedRuns
<1>5. OneRun' /\ NoCatchUpAcrossPause'
  BY DEF AutoInv, OneRun, NoCatchUpAcrossPause
<1> QED BY <1>0, <1>3, <1>4, <1>5

(* Changes of the definition, its pins and the clock. *)
LEMMA WorldKept ==
  ASSUME AutoInv, WorldMoves
  PROVE  AutoInv'
<1>0. /\ fire' = fire /\ job' = job /\ runs' = runs /\ pc' = pc /\ cur' = cur /\ clock' = clock
      /\ seen' = seen /\ mine' = mine /\ now \in Nat /\ now' \in Nat /\ now' \in Time /\ now <= now'
      /\ clock \in [Dispatchers -> Time] /\ definition \in [Definitions -> DefinitionType]
      /\ definition' \in [Definitions -> DefinitionType] /\ fire \in [Fires -> FireType]
  BY Types, Numbers DEF AutoInv, WorldMoves, locals
<1>1. TypeOK' /\ Shape'
  BY <1>0 DEF AutoInv, TypeOK, Shape, WorldMoves, DefinitionType
<1>2. ClockBehind'
  <2>1. \A p \in Dispatchers : clock[p] \in Nat /\ clock[p] <= now
    BY <1>0, Numbers DEF AutoInv, ClockBehind
  <2> QED BY <1>0, <2>1 DEF ClockBehind
<1>3. MineIsLast' /\ RunsRecorded' /\ RecordedRuns' /\ OneRun' /\ NoCatchUpAcrossPause'
      /\ SpentFireIsDead'
  BY <1>0 DEF AutoInv, MineIsLast, Holds, RunsRecorded, RecordedRuns, OneRun,
              NoCatchUpAcrossPause, SpentFireIsDead
<1>4. EpochOrder'
  <2> SUFFICES ASSUME NEW f \in Fires
               PROVE  /\ fire[f].epoch <= definition'[f[1]].epoch
                      /\ fire[f].state # "none" /\ fire[f].epoch = definition'[f[1]].epoch =>
                           definition'[f[1]].changed < Due(f)
    BY <1>0 DEF EpochOrder
  <2>1. f[1] \in Definitions
    BY Numbers
  <2>2. /\ fire[f].epoch \in Nat /\ definition[f[1]].epoch \in Nat /\ definition'[f[1]].epoch \in Nat
        /\ fire[f].epoch <= definition[f[1]].epoch
    BY <1>0, <2>1, Numbers DEF FireType, DefinitionType, AutoInv, EpochOrder
  <2>3. CASE definition'[f[1]] = definition[f[1]]
    BY <2>2, <2>3 DEF AutoInv, EpochOrder
  <2>4. CASE definition[f[1]].epoch < definition'[f[1]].epoch
    BY <2>2, <2>4
  <2> QED BY <2>1, <2>3, <2>4 DEF WorldMoves
<1> QED BY <1>1, <1>2, <1>3, <1>4 DEF AutoInv

(* A dispatcher on its way to a run, when no fire is claimed in the step. *)
LEMMA MineKept ==
  ASSUME AutoInv, NEW p \in Dispatchers,
         pc'[p] \in Creating =>
           pc[p] \in Creating /\ cur'[p] = cur[p] /\ mine'[p] = mine[p],
         \A f \in Fires : fire'[f].state = "claimed" /\ fire'[f].token = p =>
           fire[f].state = "claimed" /\ fire[f].token = p /\ fire'[f].attempts = fire[f].attempts
  PROVE  pc'[p] \in Creating /\ Holds(p)' => mine'[p] = fire'[cur'[p][1]].attempts
<1> SUFFICES ASSUME pc'[p] \in Creating, Holds(p)'
             PROVE  mine'[p] = fire'[cur'[p][1]].attempts
  OBVIOUS
<1>1. pc[p] \in Creating /\ cur'[p] = cur[p] /\ mine'[p] = mine[p] /\ cur[p][1] \in Fires
  BY Delivery DEF AutoInv, Creating
<1>2. fire'[cur[p][1]].state = "claimed" /\ fire'[cur[p][1]].token = p
  BY <1>1 DEF Holds
<1>3. Holds(p) /\ fire'[cur[p][1]].attempts = fire[cur[p][1]].attempts
  BY <1>1, <1>2 DEF Holds
<1> QED BY <1>1, <1>3 DEF AutoInv, MineIsLast

(* A step that creates a fire or gives one up. *)
LEMMA LedgerKept ==
  ASSUME AutoInv, LedgerMoves
  PROVE  AutoInv'
<1>0. UNCHANGED world /\ runs' = runs /\ JobsTyped /\ LocalsMove({})
      /\ runs \in Seq(RunType) /\ fire \in [Fires -> FireType] /\ definition' = definition
  BY Types DEF LedgerMoves, AutoInv, world
<1>1. \A p \in Dispatchers : pc'[p] \in Creating =>
        pc[p] \in Creating /\ cur'[p] = cur[p] /\ mine'[p] = mine[p]
  BY <1>0 DEF LocalsMove
<1>2. CASE fire' = fire
  <2>1. \A f \in Fires : TokenTold(fire'[f])
    BY <1>2 DEF AutoInv, TypeOK, TokenTold
  <2>2. TypeOK' /\ Shape' /\ ClockBehind'
    BY <1>0, <1>2, <2>1, TypesKept
  <2>3. MineIsLast'
    BY <1>1, <1>2, MineKept DEF MineIsLast
  <2>4. /\ RunsRecorded' /\ RecordedRuns' /\ OneRun' /\ NoCatchUpAcrossPause'
        /\ EpochOrder' /\ SpentFireIsDead'
    BY <1>0, <1>2 DEF AutoInv, RunsRecorded, RecordedRuns, OneRun, NoCatchUpAcrossPause,
                      EpochOrder, SpentFireIsDead
  <2> QED BY <2>2, <2>3, <2>4 DEF AutoInv
<1>3. ASSUME NEW f \in Fires, NEW r \in FireType, Writes(f, r), Creates(f, r) \/ GivesUp(f, r)
      PROVE  AutoInv'
  <2>1. Settles(f) /\ r.state # "run_created" /\ r.token = Nobody
    BY <1>3, MovesSettle DEF Creates, GivesUp
  <2>2. fire' \in [Fires -> FireType] /\ fire'[f] = r /\ \A g \in Fires \ {f} : fire'[g] = fire[g]
    BY <1>3, Written DEF AutoInv
  <2>3. (\A g \in Fires : TokenTold(fire'[g])) /\ EpochOrder' /\ SpentFireIsDead'
    BY <1>0, <1>3, <2>1, FiresKept
  <2>4. TypeOK' /\ Shape' /\ ClockBehind'
    BY <1>0, <2>2, <2>3, TypesKept
  <2>5. RunsRecorded' /\ RecordedRuns' /\ OneRun' /\ NoCatchUpAcrossPause'
    BY <1>0, <1>3, <2>1, RunsKept
  <2>6. ASSUME NEW p \in Dispatchers
        PROVE  \A g \in Fires : fire'[g].state = "claimed" /\ fire'[g].token = p =>
                 fire[g].state = "claimed" /\ fire[g].token = p /\ fire'[g].attempts = fire[g].attempts
    BY <2>1, <2>2, NobodyAssumption
  <2>7. MineIsLast'
    BY <1>1, <2>6, MineKept DEF MineIsLast
  <2> QED BY <2>3, <2>4, <2>5, <2>7 DEF AutoInv
<1> QED BY <1>2, <1>3 DEF LedgerMoves

(* A claim. *)
LEMMA ClaimKept ==
  ASSUME AutoInv, NEW p \in Dispatchers, ClaimMoves(p)
  PROVE  AutoInv'
<1>0. UNCHANGED world /\ runs' = runs /\ JobsTyped /\ LocalsMove({p})
      /\ runs \in Seq(RunType) /\ fire \in [Fires -> FireType]
  BY Types DEF ClaimMoves, AutoInv
<1>1. PICK f \in Fires, r \in FireType : Writes(f, r) /\ Takes(p, f, r)
  BY DEF ClaimMoves
<1>2. Settles(f) /\ r.state # "run_created"
  BY <1>1, MovesSettle DEF Takes
<1>3. fire' \in [Fires -> FireType] /\ fire'[f] = r /\ \A g \in Fires \ {f} : fire'[g] = fire[g]
  BY <1>1, Written DEF AutoInv
<1>4. (\A g \in Fires : TokenTold(fire'[g])) /\ EpochOrder' /\ SpentFireIsDead'
  BY <1>0, <1>1, <1>2, FiresKept
<1>5. TypeOK' /\ Shape' /\ ClockBehind'
  BY <1>0, <1>3, <1>4, TypesKept
<1>6. RunsRecorded' /\ RecordedRuns' /\ OneRun' /\ NoCatchUpAcrossPause'
  BY <1>0, <1>1, <1>2, RunsKept
<1>7. ASSUME NEW q \in Dispatchers \ {p}
      PROVE  pc'[q] \in Creating /\ Holds(q)' => mine'[q] = fire'[cur'[q][1]].attempts
  <2>1. pc'[q] \in Creating => pc[q] \in Creating /\ cur'[q] = cur[q] /\ mine'[q] = mine[q]
    BY <1>0 DEF LocalsMove
  <2>2. \A g \in Fires : fire'[g].state = "claimed" /\ fire'[g].token = q =>
          fire[g].state = "claimed" /\ fire[g].token = q /\ fire'[g].attempts = fire[g].attempts
    BY <1>1, <1>3 DEF Takes
  <2> QED BY <2>1, <2>2, MineKept
<1>8. mine'[p] = fire'[cur'[p][1]].attempts
  BY <1>1, <1>3 DEF Takes
<1>9. MineIsLast'
  BY <1>7, <1>8 DEF MineIsLast
<1> QED BY <1>4, <1>5, <1>6, <1>9 DEF AutoInv

(* A run. *)
LEMMA RunKept ==
  ASSUME AutoInv, NEW p \in Dispatchers, RunMoves(p)
  PROVE  AutoInv'
<1>0. UNCHANGED world /\ JobsTyped /\ LocalsMove({})
      /\ runs \in Seq(RunType) /\ fire \in [Fires -> FireType]
  BY Types DEF RunMoves, AutoInv
<1>1. PICK f \in Fires, r \in FireType, new \in RunType :
        Writes(f, r) /\ MakesRun(p, f, r, new) /\ runs' = Append(runs, new)
  BY DEF RunMoves
<1>2. Settles(f)
  BY <1>1, MovesSettle
<1>3. fire' \in [Fires -> FireType] /\ fire'[f] = r /\ \A g \in Fires \ {f} : fire'[g] = fire[g]
  BY <1>1, Written DEF AutoInv
<1>4. (\A g \in Fires : TokenTold(fire'[g])) /\ EpochOrder' /\ SpentFireIsDead'
  BY <1>0, <1>1, <1>2, FiresKept
<1>5. /\ runs' \in Seq(RunType) /\ Len(runs) \in Nat /\ DOMAIN runs = 1..Len(runs)
      /\ DOMAIN runs' = 1..(Len(runs) + 1) /\ runs'[Len(runs) + 1] = new
      /\ \A i \in 1..Len(runs) : runs'[i] = runs[i]
  BY <1>0, <1>1
<1>6. TypeOK' /\ Shape' /\ ClockBehind'
  BY <1>0, <1>3, <1>4, <1>5, TypesKept
<1>7. \A i \in 1..Len(runs) : runs[i].fire \in Fires /\ runs[i].fire # f
  BY <1>2, <1>5, RunsTyped DEF AutoInv, RunsRecorded, Settles
<1>8. \A i \in DOMAIN runs' : i \in 1..Len(runs) \/ i = Len(runs) + 1
  BY <1>5
<1>9. new.fire = f /\ r.state = "run_created" /\ new.claim = r.attempts
  BY <1>1 DEF MakesRun, AutoInv, MineIsLast, Creating
<1>10. RunsRecorded'
  <2>1. ASSUME NEW i \in 1..Len(runs)
        PROVE  /\ fire'[runs'[i].fire].state = "run_created"
               /\ runs'[i].claim = fire'[runs'[i].fire].attempts
    BY <1>3, <1>5, <1>7 DEF AutoInv, RunsRecorded
  <2> QED BY <1>3, <1>5, <1>8, <1>9, <2>1 DEF RunsRecorded
<1>11. RecordedRuns'
  <2> SUFFICES ASSUME NEW g \in Fires, fire'[g].state = "run_created"
               PROVE  \E i \in DOMAIN runs' : runs'[i].fire = g
    BY DEF RecordedRuns
  <2>1. CASE g = f
    BY <1>5, <1>9, <2>1
  <2>2. CASE g # f
    <3>1. PICK i \in 1..Len(runs) : runs[i].fire = g
      BY <1>3, <1>5, <2>2 DEF AutoInv, RecordedRuns
    <3> QED BY <1>5, <3>1
  <2> QED BY <2>1, <2>2
<1>12. OneRun'
  BY <1>5, <1>7, <1>8, <1>9 DEF AutoInv, OneRun
<1>13. NoCatchUpAcrossPause'
  <2>1. new.changed < Due(new.fire)
    BY <1>1 DEF MakesRun, Holds, AutoInv, EpochOrder
  <2>2. \A i \in 1..Len(runs) : runs'[i].changed < Due(runs'[i].fire)
    BY <1>5 DEF AutoInv, NoCatchUpAcrossPause
  <2> QED BY <1>5, <1>8, <2>1, <2>2 DEF NoCatchUpAcrossPause
<1>14. ASSUME NEW q \in Dispatchers
       PROVE  pc'[q] \in Creating /\ Holds(q)' => mine'[q] = fire'[cur'[q][1]].attempts
  <2>1. pc'[q] \in Creating => pc[q] \in Creating /\ cur'[q] = cur[q] /\ mine'[q] = mine[q]
    BY <1>0 DEF LocalsMove
  <2>2. \A g \in Fires : fire'[g].state = "claimed" /\ fire'[g].token = q =>
          fire[g].state = "claimed" /\ fire[g].token = q /\ fire'[g].attempts = fire[g].attempts
    BY <1>3, <1>9
  <2> QED BY <2>1, <2>2, MineKept
<1>15. MineIsLast'
  BY <1>14 DEF MineIsLast
<1> QED BY <1>4, <1>6, <1>10, <1>11, <1>12, <1>13, <1>15 DEF AutoInv

(* Every step keeps the invariant. *)
LEMMA InvNext ==
  ASSUME AutoInv, [Next]_vars
  PROVE  AutoInv'
<1>1. CASE Next
  BY <1>1, NextMoves, WorldKept, LedgerKept, ClaimKept, RunKept DEF Moves
<1>2. CASE UNCHANGED vars
  BY <1>2 DEF vars, AutoInv, TypeOK, Shape, ClockBehind, MineIsLast, Holds, RunsRecorded,
              RecordedRuns, OneRun, EpochOrder, NoCatchUpAcrossPause, SpentFireIsDead
<1> QED BY <1>1, <1>2

-----------------------------------------------------------------------------
(* The theorems. *)

(* The ledger, the dispatchers and the runs keep what they rely on between     *)
(* their transactions.                                                         *)
THEOREM AutoInvariance == Spec => []AutoInv
<1>1. Init => AutoInv
  BY InvInit
<1>2. AutoInv /\ [Next]_vars => AutoInv'
  BY InvNext
<1> QED BY <1>1, <1>2, PTL DEF Spec

(* Every state of the automations is well formed, and a claim in force carries *)
(* its token.                                                                  *)
THEOREM TypeCorrect == Spec => []TypeOK
<1>1. AutoInv => TypeOK
  BY DEF AutoInv
<1> QED BY <1>1, AutoInvariance, PTL

(* A fire that waits has a claim left, and a dead letter has none.             *)
THEOREM SpentIsDead == Spec => []SpentFireIsDead
<1>1. AutoInv => SpentFireIsDead
  BY DEF AutoInv
<1> QED BY <1>1, AutoInvariance, PTL

(* A run is created under the last claim of its fire.                          *)
THEOREM LastClaim == Spec => []LastClaimRuns
<1>1. AutoInv => LastClaimRuns
  BY DEF AutoInv, RunsRecorded, LastClaimRuns
<1> QED BY <1>1, AutoInvariance, PTL

(* A run belongs to an occurrence later than the last change of its definition. *)
THEOREM NoCatchUp == Spec => []NoCatchUpAcrossPause
<1>1. AutoInv => NoCatchUpAcrossPause
  BY DEF AutoInv
<1> QED BY <1>1, AutoInvariance, PTL

(* The runs of a fire: one when it is recorded as run, none otherwise.         *)
LEMMA InvAgrees ==
  ASSUME AutoInv
  PROVE  RunAndFireAgree
<1> SUFFICES ASSUME NEW f \in Fires
             PROVE  Cardinality({i \in DOMAIN runs : runs[i].fire = f})
                      = IF fire[f].state = "run_created" THEN 1 ELSE 0
  BY DEF RunAndFireAgree
<1> DEFINE R == {i \in DOMAIN runs : runs[i].fire = f}
<1>1. CASE fire[f].state = "run_created"
  <2>1. PICK i \in DOMAIN runs : runs[i].fire = f
    BY <1>1 DEF AutoInv, RecordedRuns
  <2>2. R = {i}
    BY <2>1 DEF AutoInv, OneRun
  <2> QED BY <1>1, <2>2, FS_Singleton
<1>2. CASE fire[f].state # "run_created"
  <2>1. R = {}
    BY <1>2 DEF AutoInv, RunsRecorded
  <2> QED BY <1>2, <2>1, FS_EmptySet
<1> QED BY <1>1, <1>2

(* A fire is recorded as run exactly when one App run of it exists.            *)
THEOREM OneRunPerFire == Spec => []RunAndFireAgree
<1>1. AutoInv => RunAndFireAgree
  BY InvAgrees
<1> QED BY <1>1, AutoInvariance, PTL

(* The step that takes a fire from a token whose lease runs is the holder's.   *)
LEMMA NextKeepsClaim ==
  ASSUME AutoInv, [Next]_vars, NEW f \in Fires, NEW p \in Dispatchers,
         fire[f].token = p, fire[f].lease > now, fire'[f].token # p
  PROVE  pc'[p] # pc[p]
<1>0. /\ fire[f] \in FireType /\ now \in Nat /\ fire[f].lease \in Nat /\ Nobody \notin Dispatchers
      /\ TypeOK /\ Shape
  <2>1. TypeOK /\ Shape
    BY DEF AutoInv
  <2>2. fire \in [Fires -> FireType] /\ now \in Time
    BY <2>1, Types
  <2>3. now \in Nat /\ MaxTime + ClaimLease \in Nat
    BY <2>2, Numbers
  <2> QED BY <2>1, <2>2, <2>3, NobodyAssumption DEF FireType
<1>1. fire[f].state \in {"claimed", "run_created"}
  BY <1>0 DEF TypeOK
<1>2. Next /\ fire' # fire
  BY DEF vars
<1>3. Moves
  BY <1>2, NextMoves
<1>4. ASSUME NEW g \in Fires, NEW r \in FireType, Writes(g, r), Creates(g, r) \/ GivesUp(g, r)
      PROVE  pc'[p] # pc[p]
  <2>1. g = f
    BY <1>0, <1>4, Written
  <2>2. GivesUp(f, r)
    BY <1>1, <1>4, <2>1 DEF Creates
  <2>3. \E q \in Dispatchers : fire[f].token = q /\ pc'[q] # pc[q]
    BY <1>0, <1>1, <2>2 DEF GivesUp
  <2> QED BY <2>3
<1>5. ASSUME NEW q \in Dispatchers, NEW g \in Fires, NEW r \in FireType, Writes(g, r), Takes(q, g, r)
      PROVE  FALSE
  BY <1>0, <1>1, <1>5, Written DEF Takes
<1>6. ASSUME NEW q \in Dispatchers, NEW g \in Fires, NEW r \in FireType, NEW new \in RunType,
             Writes(g, r), MakesRun(q, g, r, new)
      PROVE  FALSE
  BY <1>0, <1>6, Written DEF MakesRun
<1> QED BY <1>2, <1>3, <1>4, <1>5, <1>6 DEF Moves, WorldMoves, LedgerMoves, ClaimMoves, RunMoves

(* A claim whose lease is running is ended by its holder alone.                *)
THEOREM LiveClaim == Spec => LiveClaimIsKept
<1>1. AutoInv /\ [Next]_vars =>
        [\A f \in Fires, p \in Dispatchers :
           fire[f].token = p /\ fire[f].lease > now /\ fire'[f].token # p => pc'[p] # pc[p]]_vars
  BY NextKeepsClaim
<1> QED BY <1>1, AutoInvariance, PTL DEF Spec, LiveClaimIsKept

(* What may become of a fire in one step. *)
FireMoves(f) ==
  /\ Ended(f) => fire'[f] = fire[f]
  /\ fire[f].state # "none" =>
       /\ fire'[f].state # "none" /\ fire'[f].epoch = fire[f].epoch
       /\ \/ fire'[f].attempts = fire[f].attempts
          \/ /\ fire'[f].attempts = fire[f].attempts + 1
             /\ fire[f].state = "pending" /\ fire'[f].state = "claimed"
  /\ fire'[f].state = "run_created" =>
       fire[f].state \in {"claimed", "run_created"} /\ fire'[f].token = fire[f].token

(* A step moves a fire so. *)
LEMMA NextMovesFire ==
  ASSUME AutoInv, Next, NEW f \in Fires
  PROVE  FireMoves(f)
<1>0. fire \in [Fires -> FireType]
  BY Types DEF AutoInv
<1>1. CASE fire'[f] = fire[f]
  BY <1>1 DEF FireMoves
<1>2. ASSUME NEW g \in Fires, NEW r \in FireType, Writes(g, r)
      PROVE  g # f => fire'[f] = fire[f]
  BY <1>0, <1>2 DEF Writes
<1>3. ASSUME NEW r \in FireType, Writes(f, r)
      PROVE  fire'[f] = r
  BY <1>0, <1>3 DEF Writes
<1>4. ASSUME NEW g \in Fires, NEW r \in FireType, Writes(g, r), Creates(g, r) \/ GivesUp(g, r)
      PROVE  FireMoves(f)
  <2>1. CASE g # f
    BY <1>1, <1>2, <1>4, <2>1
  <2>2. CASE g = f /\ Creates(f, r)
    <3>1. fire'[f] = r /\ fire[f].state = "none" /\ r.state \in {"pending", "skipped"}
      BY <1>3, <1>4, <2>2 DEF Creates
    <3> QED BY <3>1 DEF FireMoves, Ended
  <2>3. CASE g = f /\ GivesUp(f, r)
    <3>1. /\ fire'[f] = r /\ fire[f].state \in {"pending", "claimed"}
          /\ r.state \in {"skipped", "pending", "dead_letter"}
          /\ r.epoch = fire[f].epoch /\ r.attempts = fire[f].attempts
      BY <1>3, <1>4, <2>3 DEF GivesUp, Active
    <3> QED BY <3>1 DEF FireMoves, Ended
  <2> QED BY <1>4, <2>1, <2>2, <2>3
<1>5. ASSUME NEW p \in Dispatchers, NEW g \in Fires, NEW r \in FireType, Writes(g, r), Takes(p, g, r)
      PROVE  FireMoves(f)
  <2>1. CASE g # f
    BY <1>1, <1>2, <1>5, <2>1
  <2>2. CASE g = f
    BY <1>3, <1>5, <2>2 DEF Takes, FireMoves, Ended
  <2> QED BY <2>1, <2>2
<1>6. ASSUME NEW p \in Dispatchers, NEW g \in Fires, NEW r \in FireType, NEW new \in RunType,
             Writes(g, r), MakesRun(p, g, r, new)
      PROVE  FireMoves(f)
  <2>1. CASE g # f
    BY <1>1, <1>2, <1>6, <2>1
  <2>2. CASE g = f
    <3>1. fire[f].state = "claimed"
      BY <1>6, <2>2 DEF MakesRun, Holds
    <3> QED BY <1>3, <1>6, <2>2, <3>1 DEF MakesRun, FireMoves, Ended
  <2> QED BY <2>1, <2>2
<1>7. Moves
  BY NextMoves
<1> QED BY <1>1, <1>4, <1>5, <1>6, <1>7 DEF Moves, WorldMoves, LedgerMoves, ClaimMoves, RunMoves

(* The end of a fire is final and its claims are counted: no late dispatcher,  *)
(* repeated delivery, scan or resumed definition writes a fire that has its    *)
(* run, was skipped or is a dead letter; a fire keeps the epoch it was made    *)
(* for; its count goes up with a claim and with nothing else; and only the     *)
(* claim in force turns it into a run.                                         *)
THEOREM FireIsFinal == Spec => [][\A f \in Fires : FireMoves(f)]_vars
<1>1. AutoInv /\ [Next]_vars => [\A f \in Fires : FireMoves(f)]_vars
  BY NextMovesFire
<1> QED BY <1>1, AutoInvariance, PTL DEF Spec
=============================================================================
