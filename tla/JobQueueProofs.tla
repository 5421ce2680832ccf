--------------------------- MODULE JobQueueProofs ---------------------------
(***************************************************************************)
(* The safety of the job queue, for any number of keys, slots, attempts,   *)
(* deferrals and lease ticks.                                              *)
(*                                                                         *)
(* Only Dequeue, the settlements and the producers write the status of a   *)
(* row, and each is fenced by the status and by the owner it expects. So   *)
(* the proof first says what the writes do to a row, then that no write of *)
(* another actor reaches the row of a worker whose lease is alive.         *)
(***************************************************************************)
EXTENDS JobQueue, TLAPS

Statuses == {"none", "pending", "running", "completed", "failed"}

(* A taken job has used an attempt: what deferJob gives back was spent. *)
RunningIsCounted == \A k \in Keys : row[k].status = "running" => row[k].attempts > 0

(* A completed row was completed by the worker whose handler returned. *)
CompletedReturned == \A k \in Keys : row[k].status = "completed" => k \in returned

Inv ==
  /\ TypeOK
  /\ AttemptsAreCounted
  /\ RunningIsCounted
  /\ LiveOwnerKeepsJob
  /\ CompletedReturned

-----------------------------------------------------------------------------
(* The rows that statements write are well typed. *)
LEMMA RowTypes ==
  /\ NoRow \in RowType
  /\ Armed \in RowType
  /\ NoRow.status = "none"
  /\ Armed.status = "pending" /\ Armed.attempts = 0
<1>1. 0 \in 0..MaxAttempts /\ 0 \in 0..LeaseTTL
  BY MaxAssumption, TTLAssumption
<1> QED BY <1>1 DEF NoRow, Armed, RowType

(* What a settlement writes. *)
LEMMA SettledRow ==
  ASSUME row \in [Keys -> RowType], NEW k \in Keys, NEW s \in Statuses,
         NEW n \in 0..MaxAttempts
  PROVE  /\ Settled(k, s, n) \in [Keys -> RowType]
         /\ Settled(k, s, n)[k].status = s
         /\ Settled(k, s, n)[k].attempts = n
         /\ \A j \in Keys \ {k} : Settled(k, s, n)[j] = row[j]
BY RowTypes DEF Settled, NoRow, RowType, Statuses

(* What arming a row does. *)
LEMMA ArmEffect ==
  ASSUME TypeOK, NEW k \in Keys, Arm(k)
  PROVE  /\ row' \in [Keys -> RowType]
         /\ row'[k].status = "pending" /\ row'[k].attempts = 0
         /\ starts' \in [Keys -> Nat] /\ starts'[k] = 0
         /\ defers' \in [Keys -> 0..MaxDefers] /\ defers'[k] = 0
         /\ returned' \in SUBSET Keys /\ returned' = returned \ {k}
         /\ \A j \in Keys \ {k} : /\ row'[j] = row[j]
                                  /\ starts'[j] = starts[j]
                                  /\ defers'[j] = defers[j]
         /\ lapsed' = lapsed
<1>1. 0 \in 0..MaxDefers /\ 0 \in Nat
  BY DefersAssumption
<1> QED BY <1>1, RowTypes DEF Arm, TypeOK
-----------------------------------------------------------------------------
(* The writes of the job_queue table, whoever makes them. *)

(* The worker whose claim the row carries, and who has not settled it. *)
HeldBy(w, k) == row[k].token = w /\ cur[w] = k /\ pc[w] \in Unsettled

ArmsFreeRow(k) == /\ Arm(k) /\ row[k].status \notin {"pending", "running"}
                  /\ row[k].status = "completed" => k \in CronKeys

MovesLease(k) ==
  /\ row[k].status = "running"
  /\ \E t \in 0..LeaseTTL : /\ row' = [row EXCEPT ![k].lease = t]
                            /\ t <= row[k].lease \/ \E w \in Slots : HeldBy(w, k)
  /\ UNCHANGED <<starts, defers, returned>>

Settles(w) ==
  /\ cur[w] \in Keys
  /\ Owned(w) /\ pc[w] \in Unsettled
  /\ \E s \in {"completed", "failed", "pending"} :
       /\ row' = Settled(cur[w], s, row[cur[w]].attempts)
       /\ s = "pending" => ~Spent(cur[w])
       /\ returned' = IF s = "completed" THEN returned \cup {cur[w]} ELSE returned
  /\ UNCHANGED <<starts, defers>>

GivesBack(w) ==
  LET k == cur[w]
      n == row[k].attempts
  IN  /\ k \in Keys
      /\ Owned(w) /\ pc[w] \in Unsettled
      /\ defers[k] < MaxDefers
      /\ row' = Settled(k, "pending", IF n = 0 THEN 0 ELSE n - 1)
      /\ defers' = [defers EXCEPT ![k] = @ + 1]
      /\ UNCHANGED <<starts, returned>>

NoWrite == UNCHANGED <<row, starts, defers, returned>>

SlotWrites(w) ==
  \/ NoWrite
  \/ \E k \in Keys : Dequeue(w, k) \/ ArmsFreeRow(k) \/ MovesLease(k)
  \/ Settles(w) \/ GivesBack(w)

(* Every step of a slot is one of these writes, or leaves the rows alone. *)
LEMMA SlotStepWrites ==
  ASSUME TypeOK, NEW w \in Slots, Step(w)
  PROVE  SlotWrites(w)
<1>0. pc[w] # "idle" => cur[w] \in Keys
  BY DEF TypeOK
<1>1. ASSUME NEW k \in Keys, Dequeue(w, k) PROVE SlotWrites(w)
  BY <1>1 DEF SlotWrites
<1>2. CASE Renew(w)
  <2>1. cur[w] \in Keys
    BY <1>0, <1>2 DEF Renew
  <2>2. LeaseTTL \in 0..LeaseTTL
    BY TTLAssumption
  <2>3. MovesLease(cur[w])
    BY <1>2, <2>2 DEF Renew, MovesLease, Owned, HeldBy, Unsettled, history
  <2> QED BY <2>1, <2>3 DEF SlotWrites
<1>3. CASE Work(w) \/ LateEnd(w) \/ Release(w) \/ Crash(w)
  BY <1>3 DEF Work, HandlerEnds, Abandon, LateEnd, Release, Crash, queue, history,
              SlotWrites, NoWrite
<1>4. CASE CompleteJob(w)
  <2>1. cur[w] \in Keys
    BY <1>0, <1>4 DEF CompleteJob
  <2>2. Settles(w) \/ NoWrite
    BY <1>4, <2>1 DEF CompleteJob, Settles, NoWrite, Unsettled, queue
  <2> QED BY <2>2 DEF SlotWrites
<1>5. CASE FailJob(w)
  <2>1. cur[w] \in Keys
    BY <1>0, <1>5 DEF FailJob
  <2>2. Settles(w) \/ NoWrite
    BY <1>5, <2>1 DEF FailJob, Settles, NoWrite, Unsettled, queue, history
  <2> QED BY <2>2 DEF SlotWrites
<1>6. CASE DeferJob(w)
  <2>1. cur[w] \in Keys
    BY <1>0, <1>6 DEF DeferJob
  <2>2. GivesBack(w) \/ NoWrite
    BY <1>6, <2>1 DEF DeferJob, GivesBack, NoWrite, Unsettled, queue
  <2> QED BY <2>2 DEF SlotWrites
<1>7. CASE Recur(w)
  <2>1. cur[w] \in Keys
    BY <1>0, <1>7 DEF Recur
  <2>2. ArmsFreeRow(cur[w]) \/ NoWrite
    BY <1>7, <2>1 DEF Recur, EnsureCronJob, CronFree, ArmsFreeRow, NoWrite, queue, history
  <2> QED BY <2>1, <2>2 DEF SlotWrites
<1> QED BY <1>1, <1>2, <1>3, <1>4, <1>5, <1>6, <1>7 DEF Step

KeyStep(k) ==
  \/ Enqueue(k) \/ RearmFailed(k) \/ ReconcileRecurringJobs(k)
  \/ PruneFinishedJobs(k) \/ LeaseTick(k)

(* Producers and maintenance arm rows that nobody works on, prune finished     *)
(* rows and let leases run down.                                               *)
LEMMA KeyStepWrites ==
  ASSUME TypeOK, NEW k \in Keys, KeyStep(k)
  PROVE  ArmsFreeRow(k) \/ PruneFinishedJobs(k) \/ MovesLease(k)
<1>1. CASE LeaseTick(k)
  <2>1. row[k].lease \in 0..LeaseTTL
    BY DEF TypeOK, RowType
  <2>2. row[k].lease - 1 \in 0..LeaseTTL
    BY <1>1, <2>1, TTLAssumption DEF LeaseTick
  <2>3. row' = [row EXCEPT ![k].lease = row[k].lease - 1] /\ row[k].lease - 1 <= row[k].lease
    BY <1>1, <2>1, TTLAssumption DEF LeaseTick, TypeOK, RowType
  <2> QED BY <1>1, <2>2, <2>3 DEF LeaseTick, MovesLease
<1>2. CASE Enqueue(k) \/ RearmFailed(k) \/ ReconcileRecurringJobs(k)
  BY <1>2 DEF Enqueue, RearmFailed, Rearms, ReconcileRecurringJobs, CronFree, ArmsFreeRow
<1> QED BY <1>1, <1>2 DEF KeyStep

-----------------------------------------------------------------------------
(* What the table promises, and what each write does to it. *)

TableTypeOK ==
  /\ row \in [Keys -> RowType]
  /\ starts \in [Keys -> Nat]
  /\ defers \in [Keys -> 0..MaxDefers]
  /\ returned \in SUBSET Keys

Counted(k) ==
  /\ row[k].status # "none" => row[k].attempts + defers[k] = starts[k]
  /\ row[k].status = "pending" => row[k].attempts < MaxAttempts
  /\ row[k].status = "running" => row[k].attempts > 0
  /\ row[k].status = "completed" => k \in returned

Table == TableTypeOK /\ \A k \in Keys : Counted(k)

(* Table is the part of the invariant that is about the table. *)
LEMMA TableIsInvariant ==
  ASSUME TableTypeOK
  PROVE  Table <=> AttemptsAreCounted /\ RunningIsCounted /\ CompletedReturned
BY DEF Table, Counted, AttemptsAreCounted, RunningIsCounted, CompletedReturned

(* A write that touches the row of k only keeps Table if it keeps it for k. *)
LEMMA OneRowWritten ==
  ASSUME Table, NEW k \in Keys, TableTypeOK', Counted(k)',
         \A j \in Keys \ {k} : /\ row'[j] = row[j]
                               /\ starts'[j] = starts[j]
                               /\ defers'[j] = defers[j]
                               /\ j \in returned => j \in returned'
  PROVE  Table'
<1>1. ASSUME NEW j \in Keys \ {k} PROVE Counted(j)'
  BY <1>1 DEF Table, Counted
<1> QED BY <1>1 DEF Table

(* dequeueJob: the claim is counted. *)
LEMMA DequeueKeepsTable ==
  ASSUME Table, NEW w \in Slots, NEW k \in Keys, Dequeue(w, k)
  PROVE  Table'
<1> DEFINE r == [status |-> "running", attempts |-> row[k].attempts + 1,
                 token |-> w, lease |-> LeaseTTL]
<1>0. TableTypeOK /\ Counted(k)
  BY DEF Table
<1>1. row' = [row EXCEPT ![k] = r]
  BY DEF Dequeue
<1>2. row[k].attempts \in 0..MaxAttempts /\ row[k].attempts < MaxAttempts
  BY <1>0 DEF TableTypeOK, RowType, Counted, Dequeue
<1>3. row[k].attempts + 1 \in 0..MaxAttempts /\ LeaseTTL \in 0..LeaseTTL
  BY <1>2, MaxAssumption, TTLAssumption
<1>4. r \in RowType
  BY <1>3 DEF RowType
<1>5. /\ starts' = [starts EXCEPT ![k] = starts[k] + 1]
      /\ defers' = defers
      /\ returned' = returned \ {k}
  BY DEF Dequeue
<1>6. TableTypeOK'
  BY <1>0, <1>1, <1>4, <1>5 DEF TableTypeOK
<1>7. row'[k] = r /\ starts'[k] = starts[k] + 1 /\ defers'[k] = defers[k]
  BY <1>0, <1>1, <1>5 DEF TableTypeOK
<1>8. Counted(k)'
  <2>1. row[k].attempts + defers[k] = starts[k]
    BY <1>0 DEF Counted, Dequeue
  <2>2. defers[k] \in Nat /\ starts[k] \in Nat /\ row[k].attempts \in Nat
    BY <1>0, <1>2, DefersAssumption, MaxAssumption DEF TableTypeOK
  <2> QED BY <1>7, <2>1, <2>2 DEF Counted
<1>9. \A j \in Keys \ {k} : /\ row'[j] = row[j]
                            /\ starts'[j] = starts[j]
                            /\ defers'[j] = defers[j]
                            /\ j \in returned => j \in returned'
  BY <1>0, <1>1, <1>5 DEF TableTypeOK
<1> QED BY <1>6, <1>8, <1>9, OneRowWritten

(* Arming starts the count again. *)
LEMMA ArmKeepsTable ==
  ASSUME TypeOK, Table, NEW k \in Keys, Arm(k)
  PROVE  Table'
<1>1. TableTypeOK'
  BY ArmEffect DEF TableTypeOK
<1>2. Counted(k)'
  BY ArmEffect, MaxAssumption DEF Counted
<1>3. \A j \in Keys \ {k} : /\ row'[j] = row[j]
                            /\ starts'[j] = starts[j]
                            /\ defers'[j] = defers[j]
                            /\ j \in returned => j \in returned'
  BY ArmEffect
<1> QED BY <1>1, <1>2, <1>3, OneRowWritten

(* A renewal and the passage of time change no count. *)
LEMMA LeaseKeepsTable ==
  ASSUME Table, NEW k \in Keys, MovesLease(k)
  PROVE  Table'
<1>1. PICK t \in 0..LeaseTTL : row' = [row EXCEPT ![k].lease = t]
  BY DEF MovesLease
<1>2. row'[k] \in RowType /\ row'[k].status = row[k].status /\ row'[k].attempts = row[k].attempts
  BY <1>1 DEF Table, TableTypeOK, RowType
<1>3. TableTypeOK'
  BY <1>1, <1>2 DEF Table, TableTypeOK, MovesLease
<1>4. Counted(k)'
  BY <1>2 DEF Table, Counted, MovesLease
<1>5. \A j \in Keys \ {k} : row'[j] = row[j]
  BY <1>1 DEF Table, TableTypeOK
<1> QED BY <1>3, <1>4, <1>5, OneRowWritten DEF MovesLease

(* completeJob and failJob keep the count, and retry only while some is left. *)
LEMMA SettleKeepsTable ==
  ASSUME Table, NEW w \in Slots, Settles(w)
  PROVE  Table'
<1>k. PICK k \in Keys : k = cur[w]
  BY DEF Settles
<1>0. TableTypeOK /\ Counted(k) /\ row[k].status = "running"
  BY <1>k DEF Table, Settles, Owned
<1>1. PICK s \in {"completed", "failed", "pending"} :
        /\ row' = Settled(k, s, row[k].attempts)
        /\ s = "pending" => ~Spent(k)
        /\ returned' = IF s = "completed" THEN returned \cup {k} ELSE returned
  BY <1>k DEF Settles
<1>2. row[k].attempts \in 0..MaxAttempts /\ s \in Statuses
  BY <1>0 DEF TableTypeOK, RowType, Statuses
<1>3. /\ row' \in [Keys -> RowType]
      /\ row'[k].status = s /\ row'[k].attempts = row[k].attempts
      /\ \A j \in Keys \ {k} : row'[j] = row[j]
  BY <1>0, <1>1, <1>2, SettledRow DEF TableTypeOK
<1>4. starts' = starts /\ defers' = defers
  BY DEF Settles
<1>5. TableTypeOK'
  BY <1>0, <1>1, <1>3, <1>4 DEF TableTypeOK
<1>6. s = "pending" => row[k].attempts < MaxAttempts
  BY <1>1, <1>2, MaxAssumption DEF Spent
<1>7. Counted(k)'
  BY <1>0, <1>1, <1>3, <1>4, <1>6 DEF Counted
<1> QED BY <1>0, <1>1, <1>3, <1>4, <1>5, <1>7, OneRowWritten

(* deferJob gives back the attempt that the claim took. *)
LEMMA DeferKeepsTable ==
  ASSUME Table, NEW w \in Slots, GivesBack(w)
  PROVE  Table'
<1>k. PICK k \in Keys : k = cur[w]
  BY DEF GivesBack
<1>n. PICK n : n = row[k].attempts
  OBVIOUS
<1>0. TableTypeOK /\ Counted(k) /\ row[k].status = "running"
  BY <1>k DEF Table, GivesBack, Owned
<1>1. n \in 0..MaxAttempts /\ n > 0 /\ n + defers[k] = starts[k]
  BY <1>0, <1>n DEF TableTypeOK, RowType, Counted
<1>2. row' = Settled(k, "pending", n - 1)
  BY <1>1, <1>k, <1>n DEF GivesBack
<1>3. n - 1 \in 0..MaxAttempts /\ n - 1 < MaxAttempts /\ "pending" \in Statuses
  BY <1>1, MaxAssumption DEF Statuses
<1>4. /\ row' \in [Keys -> RowType]
      /\ row'[k].status = "pending" /\ row'[k].attempts = n - 1
      /\ \A j \in Keys \ {k} : row'[j] = row[j]
  BY <1>0, <1>2, <1>3, SettledRow DEF TableTypeOK
<1>5. /\ defers' = [defers EXCEPT ![k] = defers[k] + 1]
      /\ defers[k] < MaxDefers
      /\ starts' = starts /\ returned' = returned
  BY <1>k DEF GivesBack
<1>6. defers[k] + 1 \in 0..MaxDefers
  BY <1>0, <1>5, DefersAssumption DEF TableTypeOK
<1>7. TableTypeOK'
  BY <1>0, <1>4, <1>5, <1>6 DEF TableTypeOK
<1>8. defers'[k] = defers[k] + 1
  BY <1>0, <1>5 DEF TableTypeOK
<1>9. (n - 1) + (defers[k] + 1) = starts[k]
  BY <1>0, <1>1, MaxAssumption, DefersAssumption DEF TableTypeOK
<1>10. Counted(k)'
  BY <1>3, <1>4, <1>5, <1>8, <1>9 DEF Counted
<1>11. \A j \in Keys \ {k} : defers'[j] = defers[j]
  BY <1>0, <1>5 DEF TableTypeOK
<1> QED BY <1>0, <1>4, <1>5, <1>7, <1>10, <1>11, OneRowWritten

(* pruneFinishedJobs leaves no row of the key to count. *)
LEMMA PruneKeepsTable ==
  ASSUME Table, NEW k \in Keys, PruneFinishedJobs(k)
  PROVE  Table'
<1>0. TableTypeOK
  BY DEF Table
<1>1. 0 \in 0..MaxDefers /\ 0 \in Nat
  BY DefersAssumption
<1>2. TableTypeOK' /\ row'[k].status = "none"
  BY <1>0, <1>1, RowTypes DEF TableTypeOK, PruneFinishedJobs
<1>3. \A j \in Keys \ {k} : /\ row'[j] = row[j]
                            /\ starts'[j] = starts[j]
                            /\ defers'[j] = defers[j]
                            /\ j \in returned => j \in returned'
  BY <1>0 DEF TableTypeOK, PruneFinishedJobs
<1>4. Counted(k)'
  BY <1>2 DEF Counted
<1> QED BY <1>2, <1>3, <1>4, OneRowWritten

(* What cleanupStaleJobs does to a row. *)
LEMMA CleanupEffect ==
  ASSUME row \in [Keys -> RowType], CleanupStaleJobs, NEW k \in Keys
  PROVE  /\ row'[k] \in RowType
         /\ row'[k].attempts = row[k].attempts
         /\ ~Stale(k) => row'[k] = row[k]
         /\ Stale(k) => \/ row'[k].status = "failed"
                        \/ row'[k].status = "pending" /\ ~Spent(k)
<1>1. row[k].attempts \in 0..MaxAttempts
  BY DEF RowType
<1>2. row'[k] = IF Stale(k)
                THEN [NoRow EXCEPT !.status = IF Spent(k) THEN "failed" ELSE "pending",
                                   !.attempts = row[k].attempts]
                ELSE row[k]
  BY DEF CleanupStaleJobs
<1>3. CASE Stale(k)
  <2>1. PICK s \in {"failed", "pending"} : /\ s = IF Spent(k) THEN "failed" ELSE "pending"
                                           /\ s = "pending" => ~Spent(k)
    OBVIOUS
  <2>2. row'[k] = [NoRow EXCEPT !.status = s, !.attempts = row[k].attempts]
    BY <1>2, <1>3, <2>1
  <2>3. row'[k] \in RowType /\ row'[k].status = s /\ row'[k].attempts = row[k].attempts
    BY <1>1, <2>2, RowTypes DEF RowType, NoRow
  <2> QED BY <1>3, <2>1, <2>3
<1>4. CASE ~Stale(k)
  BY <1>2, <1>4
<1> QED BY <1>3, <1>4

(* cleanupStaleJobs changes no count. *)
LEMMA CleanupKeepsTable ==
  ASSUME Table, CleanupStaleJobs
  PROVE  Table'
<1>0. TableTypeOK /\ UNCHANGED <<starts, defers, returned>>
  BY DEF Table, CleanupStaleJobs, history
<1>1. row \in [Keys -> RowType]
  BY <1>0 DEF TableTypeOK
<1>2. row' \in [Keys -> RowType]
  <2>1. \A k \in Keys : row'[k] \in RowType
    BY <1>1, CleanupEffect
  <2>2. DOMAIN row' = Keys /\ row' = [k \in Keys |-> row'[k]]
    BY DEF CleanupStaleJobs
  <2> QED BY <2>1, <2>2
<1>3. ASSUME NEW k \in Keys PROVE Counted(k)'
  <2>0. Counted(k)
    BY <1>3 DEF Table
  <2>1. CASE Stale(k)
    <3>1. row[k].attempts \in 0..MaxAttempts
      BY <1>1 DEF RowType
    <3>2. ~Spent(k) => row[k].attempts < MaxAttempts
      BY <3>1, MaxAssumption DEF Spent
    <3>3. row[k].status = "running"
      BY <2>1 DEF Stale
    <3> QED BY <1>0, <1>1, <2>0, <2>1, <3>2, <3>3, CleanupEffect DEF Counted
  <2>2. CASE ~Stale(k)
    BY <1>0, <1>1, <2>0, <2>2, CleanupEffect DEF Counted
  <2> QED BY <2>1, <2>2
<1> QED BY <1>0, <1>2, <1>3 DEF Table, TableTypeOK

(* Every step keeps what the table promises. *)
LEMMA NextKeepsTable ==
  ASSUME TypeOK, Table, [Next]_vars
  PROVE  Table'
<1>1. ASSUME NoWrite PROVE Table'
  BY <1>1 DEF NoWrite, Table, TableTypeOK, Counted
<1>2. CASE UNCHANGED vars
  BY <1>1, <1>2 DEF vars, slots, history, NoWrite
<1>3. ASSUME NEW w \in Slots, Step(w) PROVE Table'
  <2>1. SlotWrites(w)
    BY <1>3, SlotStepWrites
  <2> QED BY <1>1, <2>1, DequeueKeepsTable, ArmKeepsTable, LeaseKeepsTable,
             SettleKeepsTable, DeferKeepsTable DEF SlotWrites, ArmsFreeRow
<1>4. ASSUME NEW k \in Keys, KeyStep(k) PROVE Table'
  BY <1>4, KeyStepWrites, ArmKeepsTable, PruneKeepsTable, LeaseKeepsTable DEF ArmsFreeRow
<1>5. CASE CleanupStaleJobs
  BY <1>5, CleanupKeepsTable
<1> QED BY <1>2, <1>3, <1>4, <1>5 DEF Next, KeyStep

-----------------------------------------------------------------------------
(* Slots. *)

SlotTypeOK ==
  /\ pc \in [Slots -> SlotSteps]
  /\ cur \in [Slots -> Keys \cup {Nobody}]
  /\ \A w \in Slots : pc[w] # "idle" => cur[w] \in Keys
  /\ alive \in SUBSET Slots
  /\ lapsed \in SUBSET Slots

(* A slot moves on with the key it holds. *)
LEMMA GotoKeepsSlots ==
  ASSUME SlotTypeOK, NEW w \in Slots, NEW s \in SlotSteps, pc[w] # "idle", Goto(w, s),
         alive' \in SUBSET Slots, lapsed' = lapsed
  PROVE  SlotTypeOK'
BY DEF SlotTypeOK, Goto

(* Every step of a slot keeps the slots well typed. *)
LEMMA StepKeepsSlots ==
  ASSUME SlotTypeOK, NEW w \in Slots, Step(w)
  PROVE  SlotTypeOK'
<1>0. \A s \in {"idle", "working", "complete", "fail", "giveup", "defer", "recur", "settled"} :
         s \in SlotSteps
  BY DEF SlotSteps, Unsettled
<1>1. ASSUME NEW k \in Keys, Dequeue(w, k) PROVE SlotTypeOK'
  BY <1>0, <1>1 DEF Dequeue, SlotTypeOK
<1>2. CASE Renew(w)
  BY <1>2 DEF Renew, slots, history, SlotTypeOK
<1>3. CASE Work(w)
  <2>1. ASSUME NEW s \in {"complete", "fail", "giveup", "defer"}, HandlerEnds(w, s) \/ Abandon(w, s)
        PROVE  SlotTypeOK'
    <3>1. pc[w] # "idle" /\ Goto(w, s) /\ alive' \in SUBSET Slots /\ lapsed' = lapsed
      BY <2>1 DEF HandlerEnds, Abandon, history, SlotTypeOK
    <3> QED BY <1>0, <2>1, <3>1, GotoKeepsSlots
  <2> QED BY <1>3, <2>1 DEF Work
<1>4. CASE LateEnd(w)
  BY <1>4 DEF LateEnd, history, SlotTypeOK
<1>5. CASE CompleteJob(w)
  <2>1. /\ pc[w] # "idle" /\ alive' \in SUBSET Slots /\ lapsed' = lapsed
        /\ Goto(w, "recur") \/ Goto(w, "fail")
    BY <1>5 DEF CompleteJob, SlotTypeOK
  <2> QED BY <1>0, <2>1, GotoKeepsSlots
<1>6. CASE FailJob(w) \/ DeferJob(w)
  <2>1. pc[w] # "idle" /\ Goto(w, "recur") /\ alive' \in SUBSET Slots /\ lapsed' = lapsed
    BY <1>6 DEF FailJob, DeferJob, history, SlotTypeOK
  <2> QED BY <1>0, <2>1, GotoKeepsSlots
<1>7. CASE Recur(w)
  <2>1. pc[w] # "idle" /\ Goto(w, "settled") /\ alive' \in SUBSET Slots /\ lapsed' = lapsed
    BY <1>7 DEF Recur, EnsureCronJob, Arm, history, SlotTypeOK
  <2> QED BY <1>0, <2>1, GotoKeepsSlots
<1>8. CASE Release(w) \/ Crash(w)
  BY <1>0, <1>8 DEF Release, Crash, SlotTypeOK
<1> QED BY <1>1, <1>2, <1>3, <1>4, <1>5, <1>6, <1>7, <1>8 DEF Step

(* Every step keeps the slots well typed. *)
LEMMA NextKeepsSlots ==
  ASSUME SlotTypeOK, [Next]_vars
  PROVE  SlotTypeOK'
<1>1. CASE UNCHANGED vars
  BY <1>1 DEF vars, slots, history, SlotTypeOK
<1>2. ASSUME NEW k \in Keys, KeyStep(k) PROVE SlotTypeOK'
  BY <1>2 DEF KeyStep, Enqueue, RearmFailed, ReconcileRecurringJobs, PruneFinishedJobs,
              LeaseTick, Arm, slots, SlotTypeOK
<1>3. CASE CleanupStaleJobs
  BY <1>3 DEF CleanupStaleJobs, slots, history, SlotTypeOK
<1> QED BY <1>1, <1>2, <1>3, StepKeepsSlots DEF Next, KeyStep

-----------------------------------------------------------------------------
(* A worker with a live lease keeps its job. *)

Keeps(u) == pc[u] \in Unsettled /\ u \notin lapsed => Owned(u)

(* A step that moves neither the slot nor its row keeps the promise. *)
LEMMA UntouchedSlot ==
  ASSUME NEW u \in Slots, Keeps(u),
         pc'[u] = pc[u], cur'[u] = cur[u], u \in lapsed => u \in lapsed',
         Owned(u) => row'[cur[u]] = row[cur[u]]
  PROVE  Keeps(u)'
BY DEF Keeps, Owned

(* A statement of another slot does not reach a row that u owns. *)
LEMMA OthersRowUntouched ==
  ASSUME TypeOK, NEW w \in Slots, NEW u \in Slots, u # w, Step(w),
         Owned(u), cur[u] \in Keys
  PROVE  row'[cur[u]] = row[cur[u]]
<1>0. /\ row \in [Keys -> RowType]
      /\ row[cur[u]].status = "running" /\ row[cur[u]].token = u
      /\ pc[w] # "idle" => cur[w] \in Keys
  BY DEF TypeOK, Owned
<1>s. ASSUME Owned(w), cur[w] \in Keys PROVE cur[w] # cur[u]
  BY <1>0, <1>s DEF Owned
<1>1. ASSUME NEW k \in Keys, Dequeue(w, k) PROVE row'[cur[u]] = row[cur[u]]
  BY <1>0, <1>1 DEF Dequeue
<1>2. CASE Renew(w)
  BY <1>0, <1>s, <1>2 DEF Renew
<1>3. CASE Work(w) \/ LateEnd(w) \/ Release(w) \/ Crash(w)
  BY <1>3 DEF Work, HandlerEnds, Abandon, LateEnd, Release, Crash, queue
<1>4. CASE CompleteJob(w)
  BY <1>0, <1>s, <1>4 DEF CompleteJob, Settled, queue
<1>5. CASE FailJob(w)
  BY <1>0, <1>s, <1>5 DEF FailJob, Settled, queue
<1>6. CASE DeferJob(w)
  BY <1>0, <1>s, <1>6 DEF DeferJob, Settled, queue
<1>7. CASE Recur(w)
  <2>1. row' = row \/ (CronFree(cur[w]) /\ Arm(cur[w]) /\ cur[w] \in Keys)
    BY <1>0, <1>7 DEF Recur, EnsureCronJob, queue
  <2>2. row' = row \/ (row' = [row EXCEPT ![cur[w]] = Armed] /\ cur[w] # cur[u])
    BY <1>0, <2>1 DEF CronFree, Arm
  <2> QED BY <1>0, <2>2
<1> QED BY <1>1, <1>2, <1>3, <1>4, <1>5, <1>6, <1>7 DEF Step

(* A step of a slot moves no other slot. *)
LEMMA OthersSlotUntouched ==
  ASSUME TypeOK, NEW w \in Slots, NEW u \in Slots, u # w, Step(w)
  PROVE  pc'[u] = pc[u] /\ cur'[u] = cur[u] /\ (u \in lapsed => u \in lapsed')
<1>1. CASE Renew(w) \/ LateEnd(w)
  BY <1>1 DEF Renew, LateEnd, slots, history
<1>2. ASSUME NEW k \in Keys, Dequeue(w, k)
      PROVE  pc'[u] = pc[u] /\ cur'[u] = cur[u] /\ lapsed' = lapsed
  BY <1>2 DEF Dequeue, TypeOK
<1>3. CASE Work(w) \/ CompleteJob(w) \/ FailJob(w) \/ DeferJob(w) \/ Recur(w)
  <2>1. (\E s \in SlotSteps : Goto(w, s)) /\ lapsed' = lapsed
    BY <1>3 DEF Work, HandlerEnds, Abandon, CompleteJob, FailJob, DeferJob, Recur,
                EnsureCronJob, Arm, history, SlotSteps, Unsettled
  <2> QED BY <2>1 DEF Goto, TypeOK
<1>4. CASE Release(w) \/ Crash(w)
  BY <1>4 DEF Release, Crash, TypeOK
<1> QED BY <1>1, <1>2, <1>3, <1>4 DEF Step

(* The slot that takes the step keeps its own job until it settles it. *)
LEMMA OwnStepKeeps ==
  ASSUME TypeOK, NEW w \in Slots, Keeps(w), Step(w)
  PROVE  Keeps(w)'
<1>0. /\ row \in [Keys -> RowType] /\ pc \in [Slots -> SlotSteps]
      /\ cur \in [Slots -> Keys \cup {Nobody}]
      /\ pc[w] # "idle" => cur[w] \in Keys
  BY DEF TypeOK
<1>1. ASSUME NEW k \in Keys, Dequeue(w, k) PROVE Keeps(w)'
  <2>1. cur'[w] = k /\ row'[k].status = "running" /\ row'[k].token = w /\ row'[k].lease = LeaseTTL
    BY <1>0, <1>1 DEF Dequeue
  <2> QED BY <2>1, TTLAssumption DEF Keeps, Owned
<1>2. CASE Renew(w)
  <2>1. /\ cur[w] \in Keys /\ Owned(w) /\ cur' = cur
        /\ row' = [row EXCEPT ![cur[w]].lease = LeaseTTL]
    BY <1>0, <1>2 DEF Renew, slots
  <2>2. /\ row'[cur[w]].status = row[cur[w]].status
        /\ row'[cur[w]].token = row[cur[w]].token
        /\ row'[cur[w]].lease = LeaseTTL
    BY <1>0, <2>1 DEF RowType
  <2> QED BY <2>1, <2>2, TTLAssumption DEF Keeps, Owned
<1>3. CASE Work(w)
  <2>1. pc[w] = "working" /\ cur' = cur /\ row' = row /\ lapsed' = lapsed
    BY <1>3 DEF Work, HandlerEnds, Abandon, Goto, queue, history
  <2> QED BY <2>1 DEF Keeps, Owned, Unsettled
<1>4. CASE LateEnd(w)
  BY <1>4 DEF LateEnd, queue, history, Keeps, Owned
<1>5. CASE CompleteJob(w)
  <2>1. CASE Goto(w, "recur")
    BY <1>0, <2>1 DEF Goto, Keeps, Unsettled
  <2>2. CASE ~Goto(w, "recur")
    <3>1. pc[w] = "complete" /\ row' = row /\ cur' = cur /\ lapsed' = lapsed
      BY <1>5, <2>2 DEF CompleteJob, Goto, queue
    <3> QED BY <3>1 DEF Keeps, Owned, Unsettled
  <2> QED BY <2>1, <2>2
<1>6. CASE FailJob(w) \/ DeferJob(w)
  BY <1>0, <1>6 DEF FailJob, DeferJob, Goto, Keeps, Unsettled
<1>7. CASE Recur(w)
  BY <1>0, <1>7 DEF Recur, Goto, Keeps, Unsettled
<1>8. CASE Release(w) \/ Crash(w)
  BY <1>0, <1>8 DEF Release, Crash, Keeps, Unsettled
<1> QED BY <1>1, <1>2, <1>3, <1>4, <1>5, <1>6, <1>7, <1>8 DEF Step

(* Producers, maintenance and time take no job from a live owner: only the     *)
(* last tick of its lease makes it lapse.                                      *)
LEMMA KeyStepKeeps ==
  ASSUME TypeOK, NEW u \in Slots, Keeps(u), NEW k \in Keys, KeyStep(k)
  PROVE  Keeps(u)'
<1>0. /\ row \in [Keys -> RowType] /\ pc' = pc /\ cur' = cur
      /\ u \in lapsed => u \in lapsed'
      /\ pc[u] \in Unsettled => cur[u] \in Keys
  BY DEF TypeOK, KeyStep, Enqueue, RearmFailed, ReconcileRecurringJobs,
         PruneFinishedJobs, LeaseTick, Arm, slots, Unsettled
<1>1. CASE ~LeaseTick(k)
  <2>1. \E r : row' = [row EXCEPT ![k] = r]
    BY <1>1 DEF KeyStep, Enqueue, RearmFailed, ReconcileRecurringJobs, PruneFinishedJobs, Arm
  <2>2. row[k].status # "running"
    BY <1>1 DEF KeyStep, Enqueue, RearmFailed, Rearms, ReconcileRecurringJobs, CronFree,
                PruneFinishedJobs
  <2>3. Owned(u) => row'[cur[u]] = row[cur[u]]
    BY <1>0, <2>1, <2>2 DEF Owned
  <2> QED BY <1>0, <2>3, UntouchedSlot
<1>2. CASE LeaseTick(k)
  <2>1. CASE cur[u] # k
    <3>1. row'[cur[u]] = row[cur[u]]
      BY <1>0, <1>2, <2>1 DEF LeaseTick
    <3> QED BY <1>0, <3>1, UntouchedSlot
  <2>2. CASE cur[u] = k
    <3>1. SUFFICES ASSUME pc[u] \in Unsettled, u \notin lapsed'
                   PROVE  Owned(u)'
      BY <1>0 DEF Keeps
    <3>2. Owned(u)
      BY <1>0, <3>1 DEF Keeps
    <3>3. row[k].lease \in 0..LeaseTTL /\ row[k].lease > 0 /\ row[k].lease # 1
      BY <1>0, <1>2, <2>2, <3>1, <3>2 DEF LeaseTick, Owned, RowType
    <3>4. row[k].lease - 1 > 0
      BY <3>3, TTLAssumption
    <3>5. /\ row'[k].status = row[k].status /\ row'[k].token = row[k].token
          /\ row'[k].lease = row[k].lease - 1
      BY <1>0, <1>2 DEF LeaseTick, RowType
    <3> QED BY <1>0, <2>2, <3>2, <3>4, <3>5 DEF Owned
  <2> QED BY <2>1, <2>2
<1> QED BY <1>1, <1>2

(* cleanupStaleJobs takes expired leases only. *)
LEMMA CleanupKeeps ==
  ASSUME TypeOK, NEW u \in Slots, Keeps(u), CleanupStaleJobs
  PROVE  Keeps(u)'
<1>1. row \in [Keys -> RowType] /\ pc' = pc /\ cur' = cur /\ lapsed' = lapsed
  BY DEF TypeOK, CleanupStaleJobs, slots, history
<1>2. CASE pc[u] \in Unsettled
  <2>1. cur[u] \in Keys
    BY <1>2 DEF TypeOK, Unsettled
  <2>2. row[cur[u]].lease \in 0..LeaseTTL
    BY <1>1, <2>1 DEF RowType
  <2>3. Owned(u) => ~Stale(cur[u])
    BY <2>2 DEF Owned, Stale
  <2> QED BY <1>1, <2>1, <2>3, CleanupEffect, UntouchedSlot
<1>3. CASE pc[u] \notin Unsettled
  BY <1>1, <1>3 DEF Keeps
<1> QED BY <1>2, <1>3

(* Every step keeps LiveOwnerKeepsJob. *)
LEMMA NextKeepsOwners ==
  ASSUME TypeOK, LiveOwnerKeepsJob, [Next]_vars
  PROVE  LiveOwnerKeepsJob'
<1> SUFFICES ASSUME NEW u \in Slots PROVE Keeps(u)'
  BY DEF LiveOwnerKeepsJob, Keeps
<1>0. Keeps(u)
  BY DEF LiveOwnerKeepsJob, Keeps
<1>1. CASE UNCHANGED vars
  BY <1>0, <1>1, UntouchedSlot DEF vars, slots, history
<1>2. ASSUME NEW w \in Slots, Step(w) PROVE Keeps(u)'
  <2>1. CASE u = w
    BY <1>0, <1>2, <2>1, OwnStepKeeps
  <2>2. CASE u # w
    <3>1. pc'[u] = pc[u] /\ cur'[u] = cur[u] /\ (u \in lapsed => u \in lapsed')
      BY <1>2, <2>2, OthersSlotUntouched
    <3>2. CASE cur[u] \in Keys
      <4>1. Owned(u) => row'[cur[u]] = row[cur[u]]
        BY <1>2, <2>2, <3>2, OthersRowUntouched
      <4> QED BY <1>0, <3>1, <4>1, UntouchedSlot
    <3>3. CASE cur[u] \notin Keys
      BY <3>1, <3>3 DEF TypeOK, Keeps, Unsettled
    <3> QED BY <3>2, <3>3
  <2> QED BY <2>1, <2>2
<1>3. ASSUME NEW k \in Keys, KeyStep(k) PROVE Keeps(u)'
  BY <1>0, <1>3, KeyStepKeeps
<1>4. CASE CleanupStaleJobs
  BY <1>0, <1>4, CleanupKeeps
<1> QED BY <1>1, <1>2, <1>3, <1>4 DEF Next, KeyStep

-----------------------------------------------------------------------------
(* The theorems. *)

(* The type invariant is about the table and about the slots. *)
LEMMA TypeParts == TypeOK <=> TableTypeOK /\ SlotTypeOK
BY DEF TypeOK, TableTypeOK, SlotTypeOK

(* The queue starts empty, with idle slots. *)
LEMMA InitInv == Init => Inv
<1> SUFFICES ASSUME Init PROVE Inv
  OBVIOUS
<1>1. 0 \in 0..MaxDefers /\ 0 \in Nat /\ "idle" \in SlotSteps
  BY DefersAssumption DEF SlotSteps
<1>2. TypeOK
  BY <1>1, RowTypes DEF Init, TypeOK
<1>3. \A k \in Keys : row[k].status = "none"
  BY RowTypes DEF Init
<1>4. \A w \in Slots : pc[w] \notin Unsettled
  BY DEF Init, Unsettled
<1> QED BY <1>2, <1>3, <1>4 DEF Inv, AttemptsAreCounted, RunningIsCounted,
           LiveOwnerKeepsJob, CompletedReturned

(* Every step keeps the invariant. *)
LEMMA NextInv == Inv /\ [Next]_vars => Inv'
<1> SUFFICES ASSUME Inv, [Next]_vars PROVE Inv'
  OBVIOUS
<1>1. TypeOK /\ Table /\ SlotTypeOK
  BY TypeParts, TableIsInvariant DEF Inv
<1>2. Table' /\ SlotTypeOK'
  BY <1>1, NextKeepsTable, NextKeepsSlots
<1>3. TypeOK'
  BY <1>2 DEF Table, TableTypeOK, SlotTypeOK, TypeOK
<1>4. AttemptsAreCounted' /\ RunningIsCounted' /\ CompletedReturned'
  BY <1>2 DEF Table, Counted, AttemptsAreCounted, RunningIsCounted, CompletedReturned
<1>5. LiveOwnerKeepsJob'
  BY <1>1, NextKeepsOwners DEF Inv
<1> QED BY <1>3, <1>4, <1>5 DEF Inv

(* The inductive invariant of the job queue holds in every reachable state.    *)
THEOREM QueueInvariance == Spec => []Inv
BY InitInv, NextInv, PTL DEF Spec

(* The rows and the slots of the job queue are always well typed; a row never  *)
(* counts more than its max_attempts.                                          *)
THEOREM QueueTypeCorrect == Spec => []TypeOK
<1>1. Inv => TypeOK
  BY DEF Inv
<1> QED BY <1>1, QueueInvariance, PTL

(* dequeueJob, failJob, deferJob and cleanupStaleJobs count the attempts of a  *)
(* job exactly, and offer it again only while it has attempts left.            *)
THEOREM AttemptsCounted == Spec => []AttemptsAreCounted
<1>1. Inv => AttemptsAreCounted
  BY DEF Inv
<1> QED BY <1>1, QueueInvariance, PTL

(* Until a worker settles its job or lets its lease run out, no other worker,  *)
(* producer or maintenance statement changes the row of the job.               *)
THEOREM OwnerKeeps == Spec => []LiveOwnerKeepsJob
<1>1. Inv => LiveOwnerKeepsJob
  BY DEF Inv
<1> QED BY <1>1, QueueInvariance, PTL

(* A completed job had its handler return under its last claim, and nobody but *)
(* a worker that lost its lease still works on it (completeJob).               *)
THEOREM CompletionIsReal == Spec => []CompletedMeansReturned
<1>1. Inv => CompletedMeansReturned
  <2> SUFFICES ASSUME Inv, NEW k \in Keys, row[k].status = "completed"
               PROVE  /\ k \in returned
                      /\ \A w \in Slots : cur[w] = k /\ pc[w] \in Unsettled => w \in lapsed
    BY DEF CompletedMeansReturned
  <2>1. k \in returned
    BY DEF Inv, CompletedReturned
  <2>2. ASSUME NEW w \in Slots, cur[w] = k, pc[w] \in Unsettled PROVE w \in lapsed
    BY <2>2 DEF Inv, LiveOwnerKeepsJob, Owned
  <2> QED BY <2>1, <2>2
<1> QED BY <1>1, QueueInvariance, PTL

(* A job has one worker at a time: two slots that work on the same job, and    *)
(* whose leases have not run out, are the same (dequeueJob).                   *)
THEOREM OneLiveWorker ==
  Spec => [](\A v, w \in Slots :
               /\ cur[v] = cur[w] /\ v \notin lapsed /\ w \notin lapsed
               /\ pc[v] \in Unsettled /\ pc[w] \in Unsettled
               => v = w)
<1>1. Inv => \A v, w \in Slots :
               /\ cur[v] = cur[w] /\ v \notin lapsed /\ w \notin lapsed
               /\ pc[v] \in Unsettled /\ pc[w] \in Unsettled
               => v = w
  BY DEF Inv, LiveOwnerKeepsJob, Owned
<1> QED BY <1>1, QueueInvariance, PTL

-----------------------------------------------------------------------------
(* The life of a row. *)

JobMoves(k) ==
  /\ row[k].status = "pending" =>
       \/ row'[k] = row[k]
       \/ row'[k].status = "running" /\ row'[k].attempts = row[k].attempts + 1
  /\ row[k].status = "running" =>
       /\ row'[k].status # "none"
       /\ row'[k].status = "running" => /\ row'[k].token = row[k].token
                                        /\ row'[k].attempts = row[k].attempts
       /\ row[k].lease > 0 /\ (row'[k].status # "running" \/ row'[k].lease > row[k].lease)
            => \E w \in Slots : HeldBy(w, k)
  /\ row[k].status = "completed" /\ k \notin CronKeys => row'[k] \in {row[k], NoRow}
  /\ row[k].status = "failed" => row'[k] \in {row[k], NoRow, Armed}

(* A row that is not written does not move. *)
LEMMA JobStays ==
  ASSUME row \in [Keys -> RowType], NEW k \in Keys, row'[k] = row[k]
  PROVE  JobMoves(k)
<1>1. row[k].lease \in Nat
  BY TTLAssumption DEF RowType
<1> QED BY <1>1 DEF JobMoves

(* Arming moves a row that nobody waits for. *)
LEMMA ArmMovesJob ==
  ASSUME TypeOK, NEW j \in Keys, ArmsFreeRow(j), NEW k \in Keys
  PROVE  JobMoves(k)
<1>0. row \in [Keys -> RowType]
  BY DEF TypeOK
<1>1. CASE j # k
  BY <1>0, <1>1, JobStays DEF ArmsFreeRow, Arm
<1>2. CASE j = k
  BY <1>0, <1>2 DEF ArmsFreeRow, Arm, JobMoves
<1> QED BY <1>1, <1>2

(* A lease moves nothing else. *)
LEMMA LeaseMovesJob ==
  ASSUME TypeOK, NEW j \in Keys, MovesLease(j), NEW k \in Keys
  PROVE  JobMoves(k)
<1>0. row \in [Keys -> RowType] /\ row[k].lease \in Nat
  BY TTLAssumption DEF TypeOK, RowType
<1>1. CASE j # k
  BY <1>0, <1>1, JobStays DEF MovesLease
<1>2. CASE j = k
  <2>1. PICK t \in 0..LeaseTTL : /\ row' = [row EXCEPT ![k].lease = t]
                                 /\ t <= row[k].lease \/ \E v \in Slots : HeldBy(v, k)
    BY <1>2 DEF MovesLease
  <2>2. /\ row'[k].status = row[k].status /\ row'[k].token = row[k].token
        /\ row'[k].attempts = row[k].attempts /\ row'[k].lease = t
    BY <1>0, <2>1 DEF RowType
  <2>3. row[k].status = "running" /\ t \in Nat
    BY <1>2, TTLAssumption DEF MovesLease
  <2> QED BY <1>0, <2>1, <2>2, <2>3 DEF JobMoves
<1> QED BY <1>1, <1>2

(* What the writes of a slot do to a row. *)
LEMMA SlotMovesJob ==
  ASSUME TypeOK, NEW w \in Slots, SlotWrites(w), NEW k \in Keys
  PROVE  JobMoves(k)
<1>0. row \in [Keys -> RowType] /\ row[k].lease \in Nat /\ row[k].attempts \in 0..MaxAttempts
  BY TTLAssumption DEF TypeOK, RowType
<1>1. CASE row'[k] = row[k]
  BY <1>0, <1>1, JobStays
<1>2. ASSUME NEW j \in Keys, Dequeue(w, j)
      PROVE  JobMoves(k)
  <2>1. CASE j # k
    BY <1>0, <1>1, <1>2, <2>1 DEF Dequeue
  <2>2. CASE j = k
    BY <1>0, <1>2, <2>2 DEF Dequeue, JobMoves
  <2> QED BY <2>1, <2>2
<1>3. ASSUME cur[w] \in Keys, Owned(w), pc[w] \in Unsettled,
             NEW s \in {"completed", "failed", "pending"}, NEW n, row' = Settled(cur[w], s, n)
      PROVE  JobMoves(k)
  <2>1. CASE cur[w] # k
    BY <1>0, <1>1, <1>3, <2>1 DEF Settled
  <2>2. CASE cur[w] = k
    <3>1. HeldBy(w, k) /\ row[k].status = "running"
      BY <1>3, <2>2 DEF Owned, HeldBy
    <3>2. row'[k].status = s
      BY <1>0, <1>3, <2>2 DEF Settled, NoRow
    <3> QED BY <3>1, <3>2 DEF JobMoves
  <2> QED BY <2>1, <2>2
<1>4. CASE Settles(w) \/ GivesBack(w)
  BY <1>3, <1>4 DEF Settles, GivesBack
<1> QED BY <1>1, <1>2, <1>4, ArmMovesJob, LeaseMovesJob DEF SlotWrites, NoWrite

(* And those of the producers and of maintenance. *)
LEMMA KeyMovesJob ==
  ASSUME TypeOK, NEW j \in Keys, KeyStep(j), NEW k \in Keys
  PROVE  JobMoves(k)
<1>0. row \in [Keys -> RowType]
  BY DEF TypeOK
<1>1. CASE PruneFinishedJobs(j)
  <2>1. CASE j # k
    BY <1>0, <1>1, <2>1, JobStays DEF PruneFinishedJobs
  <2>2. CASE j = k
    BY <1>0, <1>1, <2>2 DEF PruneFinishedJobs, JobMoves
  <2> QED BY <2>1, <2>2
<1> QED BY <1>1, KeyStepWrites, ArmMovesJob, LeaseMovesJob

(* A job is neither lost nor taken away: an offered job stays as it is until   *)
(* a worker takes it and counts an attempt; a taken one is never dropped, its  *)
(* claim never changes hands, and while its lease runs only its own worker,    *)
(* with the job not yet settled, ends it or extends it; and a completed job    *)
(* of a dedupe key is not offered again while its row is kept.                 *)
THEOREM JobIsKept == Spec => [][\A k \in Keys : JobMoves(k)]_vars
<1>1. Inv /\ [Next]_vars => [\A k \in Keys : JobMoves(k)]_vars
  <2> SUFFICES ASSUME Inv, Next, NEW k \in Keys
               PROVE  JobMoves(k)
    OBVIOUS
  <2>0. TypeOK /\ row \in [Keys -> RowType]
    BY DEF Inv, TypeOK
  <2>1. CASE \E w \in Slots : Step(w)
    BY <2>0, <2>1, SlotStepWrites, SlotMovesJob
  <2>2. CASE \E j \in Keys : KeyStep(j)
    BY <2>0, <2>2, KeyMovesJob
  <2>3. CASE CleanupStaleJobs
    <3>1. CASE Stale(k)
      <4>1. row[k].status = "running" /\ row[k].lease = 0 /\ row'[k].status \in {"failed", "pending"}
        BY <2>0, <2>3, <3>1, CleanupEffect DEF Stale
      <4> QED BY <4>1 DEF JobMoves
    <3>2. CASE ~Stale(k)
      BY <2>0, <2>3, <3>2, CleanupEffect, JobStays
    <3> QED BY <3>1, <3>2
  <2> QED BY <2>1, <2>2, <2>3 DEF Next, KeyStep
<1> QED BY <1>1, QueueInvariance, PTL DEF Spec
=============================================================================
