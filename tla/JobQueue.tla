------------------------------ MODULE JobQueue ------------------------------
(***************************************************************************)
(* The PostgreSQL job queue and the worker slots that take jobs from it.   *)
(*                                                                         *)
(* A key is a dedupe key or a cron key. Unique indexes keep at most one    *)
(* row of a dedupe key, and at most one pending or running row of a cron   *)
(* key; of the finished rows of a cron key only the last one is kept here. *)
(* Every statement is one UPDATE or INSERT, hence one step. run_at and the *)
(* priorities are left out: a pending job may wait any time to be taken.   *)
(*                                                                         *)
(* A slot is one unit of a host's reserved capacity. Its claim token is    *)
(* the slot itself: a slot takes a new job only when it is through with    *)
(* the last one. A definition whose comment begins with "Fault:" is a      *)
(* wrong variant of the one after it.                                      *)
(***************************************************************************)
EXTENDS Naturals

CONSTANTS Keys, CronKeys, Slots, Nobody,
          MaxAttempts,  \* max_attempts of a row
          LeaseTTL,     \* ticks from a claim or renewal to lock_expires_at
          MaxDefers     \* bound: how often a job is deferred per arming

ASSUME CronAssumption == CronKeys \subseteq Keys
ASSUME MaxAssumption == MaxAttempts \in Nat \ {0}
ASSUME TTLAssumption == LeaseTTL \in Nat \ {0}
ASSUME DefersAssumption == MaxDefers \in Nat
ASSUME SlotAssumption == Nobody \notin Slots

VARIABLES
  row,       \* job_queue, by key
  pc,        \* where each slot is in processDequeuedJob
  cur,       \* the key it claimed
  alive,     \* slots whose handler still runs, perhaps after a timeout
  \* History, not read by any action:
  starts,    \* handlers started since the row was armed
  defers,    \* deferrals since then
  returned,  \* keys whose last claim ended with a handler that returned
  lapsed     \* slots whose lease ended before they settled

queue == <<row>>
slots == <<pc, cur, alive>>
history == <<starts, defers, returned, lapsed>>
vars == <<row, slots, history>>

RowType == [status : {"none", "pending", "running", "completed", "failed"},
            attempts : 0..MaxAttempts,
            token : Slots \cup {Nobody},
            lease : 0..LeaseTTL]
NoRow == [status |-> "none", attempts |-> 0, token |-> Nobody, lease |-> 0]
Armed == [NoRow EXCEPT !.status = "pending"]

\* processDequeuedJob: the handler works; then complete, fail, give up or defer;
\* then the recurrence; then the slot is held until the handler has ended.
Unsettled == {"working", "complete", "fail", "giveup", "defer"}
SlotSteps == Unsettled \cup {"idle", "recur", "settled"}

TypeOK ==
  /\ row \in [Keys -> RowType]
  /\ pc \in [Slots -> SlotSteps]
  /\ cur \in [Slots -> Keys \cup {Nobody}]
  /\ \A w \in Slots : pc[w] # "idle" => cur[w] \in Keys
  /\ alive \in SUBSET Slots
  /\ starts \in [Keys -> Nat]
  /\ defers \in [Keys -> 0..MaxDefers]
  /\ returned \in SUBSET Keys
  /\ lapsed \in SUBSET Slots

Init ==
  /\ row = [k \in Keys |-> NoRow]
  /\ pc = [w \in Slots |-> "idle"]
  /\ cur = [w \in Slots |-> Nobody]
  /\ alive = {}
  /\ starts = [k \in Keys |-> 0]
  /\ defers = [k \in Keys |-> 0]
  /\ returned = {}
  /\ lapsed = {}

-----------------------------------------------------------------------------
(* Producers. *)

\* A row of k is armed: inserted, or put back as if new.
Arm(k) ==
  /\ row' = [row EXCEPT ![k] = Armed]
  /\ starts' = [starts EXCEPT ![k] = 0]
  /\ defers' = [defers EXCEPT ![k] = 0]
  /\ returned' = returned \ {k}
  /\ UNCHANGED lapsed

\* Fault: a delivery that is being worked on is put back too.
RearmsActive(k) == row[k].status \in {"failed", "running"}
Rearms(k) == row[k].status = "failed"

\* enqueue: a reserved dedupe key makes it a no-op.
Enqueue(k) == k \notin CronKeys /\ row[k].status = "none" /\ Arm(k) /\ UNCHANGED slots
\* enqueueOrRearmFailed, when its insert was a no-op.
RearmFailed(k) == k \notin CronKeys /\ Rearms(k) /\ Arm(k) /\ UNCHANGED slots

\* Fault: a finished occurrence blocks the next one.
CronNew(k) == row[k].status = "none"
\* ensureCronJob: the index on active rows makes it a no-op.
CronFree(k) == row[k].status \notin {"pending", "running"}
EnsureCronJob(k) ==
  \/ k \in CronKeys /\ CronFree(k) /\ Arm(k)
  \/ ~(k \in CronKeys /\ CronFree(k)) /\ UNCHANGED <<queue, history>>

-----------------------------------------------------------------------------
(* A slot: claim, work, settle, schedule the next occurrence. *)

Goto(w, step) == pc' = [pc EXCEPT ![w] = step] /\ UNCHANGED cur

\* dequeueJob on a slot that pollQueueBatch found free.
Dequeue(w, k) ==
  /\ pc[w] = "idle"
  /\ row[k].status = "pending"
  /\ row' = [row EXCEPT ![k] = [status |-> "running", attempts |-> @.attempts + 1,
                                token |-> w, lease |-> LeaseTTL]]
  /\ pc' = [pc EXCEPT ![w] = "working"]
  /\ cur' = [cur EXCEPT ![w] = k]
  /\ alive' = alive \cup {w}
  /\ starts' = [starts EXCEPT ![k] = @ + 1]
  /\ returned' = returned \ {k}
  /\ UNCHANGED <<defers, lapsed>>

\* Fault: any worker of the job may settle it.
OwnedByAnyone(w) == row[cur[w]].status = "running" /\ row[cur[w]].lease > 0
\* The fence of every write of a claimed job.
Owned(w) == /\ row[cur[w]].status = "running"
            /\ row[cur[w]].token = w
            /\ row[cur[w]].lease > 0

\* renewJobLease, while the handler works.
Renew(w) ==
  /\ pc[w] = "working"
  /\ Owned(w)
  /\ row' = [row EXCEPT ![cur[w]].lease = LeaseTTL]
  /\ UNCHANGED <<slots, history>>

\* The handler ends in time, or there is none for the job. No handler of a
\* recurring job asks to be tried later (RetryLaterJobError).
HandlerEnds(w, step) ==
  /\ pc[w] = "working"
  /\ step = "defer" => cur[w] \notin CronKeys
  /\ Goto(w, step)
  /\ alive' = alive \ {w}
  /\ UNCHANGED <<queue, history>>
\* The worker stops waiting for it: it timed out, or a renewal found the lease
\* lost, or the workers shut down. The handler itself goes on.
Abandon(w, step) ==
  /\ pc[w] = "working"
  /\ Goto(w, step)
  /\ UNCHANGED <<queue, alive, history>>
Work(w) ==
  \/ \E step \in {"complete", "fail", "giveup", "defer"} : HandlerEnds(w, step)
  \/ \E step \in {"fail", "giveup"} : Abandon(w, step)

LateEnd(w) ==
  /\ pc[w] # "working"
  /\ w \in alive
  /\ alive' = alive \ {w}
  /\ UNCHANGED <<queue, pc, cur, history>>

Settled(k, s, n) == [row EXCEPT ![k] = [NoRow EXCEPT !.status = s, !.attempts = n]]

\* completeJob; when the database refuses, the job is failed instead. When it commits
\* and only the reply is lost, the failJob that follows finds no row of its token: the
\* same as going on to "recur".
CompleteJob(w) ==
  LET k == cur[w]
  IN  /\ pc[w] = "complete"
      /\ \/ /\ Owned(w)
            /\ row' = Settled(k, "completed", row[k].attempts)
            /\ returned' = returned \cup {k}
            /\ Goto(w, "recur")
         \/ ~Owned(w) /\ UNCHANGED <<queue, returned>> /\ Goto(w, "recur")
         \/ UNCHANGED <<queue, returned>> /\ Goto(w, "fail")
      /\ UNCHANGED <<alive, starts, defers, lapsed>>

\* Fault: one attempt more than allowed.
SpentLate(k) == row[k].attempts > MaxAttempts
Spent(k) == row[k].attempts >= MaxAttempts

\* failJob: retried until the attempts are spent, terminal at once after a
\* timeout or for an unknown job. If the database refuses, the row stays.
FailJob(w) ==
  LET k == cur[w]
      s == IF pc[w] = "giveup" \/ Spent(k) THEN "failed" ELSE "pending"
  IN  /\ pc[w] \in {"fail", "giveup"}
      /\ \/ Owned(w) /\ row' = Settled(k, s, row[k].attempts)
         \/ UNCHANGED queue
      /\ Goto(w, "recur")
      /\ UNCHANGED <<alive, history>>

\* deferJob gives the attempt back. The code does not bound how often; a handler that
\* defers for ever never settles its job.
DeferJob(w) ==
  LET k == cur[w]
      n == row[k].attempts
  IN  /\ pc[w] = "defer"
      /\ \/ /\ Owned(w)
            /\ defers[k] < MaxDefers
            /\ row' = Settled(k, "pending", IF n = 0 THEN 0 ELSE n - 1)
            /\ defers' = [defers EXCEPT ![k] = @ + 1]
         \/ UNCHANGED <<queue, defers>>
      /\ Goto(w, "recur")
      /\ UNCHANGED <<alive, starts, returned, lapsed>>

\* The finally block; an error in it is only logged.
Recur(w) ==
  /\ pc[w] = "recur"
  /\ EnsureCronJob(cur[w]) \/ UNCHANGED <<queue, history>>
  /\ Goto(w, "settled")
  /\ UNCHANGED alive

\* launchClaimedGroup releases the slot when settlement and handler have ended.
Release(w) ==
  /\ pc[w] = "settled"
  /\ w \notin alive
  /\ pc' = [pc EXCEPT ![w] = "idle"]
  /\ cur' = [cur EXCEPT ![w] = Nobody]
  /\ lapsed' = lapsed \ {w}
  /\ UNCHANGED <<queue, alive, starts, defers, returned>>

\* The host dies and starts again.
Crash(w) ==
  /\ pc[w] # "idle"
  /\ pc' = [pc EXCEPT ![w] = "idle"]
  /\ cur' = [cur EXCEPT ![w] = Nobody]
  /\ alive' = alive \ {w}
  /\ lapsed' = lapsed \ {w}
  /\ UNCHANGED <<queue, starts, defers, returned>>

-----------------------------------------------------------------------------
(* Maintenance and time. *)

\* Fault: a recurring job without attempts left is not recovered.
RetriableStale(k) == /\ row[k].status = "running" /\ row[k].lease = 0
                     /\ k \in CronKeys => ~Spent(k)
Stale(k) == row[k].status = "running" /\ row[k].lease = 0
\* cleanupStaleJobs: every expired lease in one statement.
CleanupStaleJobs ==
  /\ \E k \in Keys : Stale(k)
  /\ row' = [k \in Keys |->
               IF Stale(k)
               THEN [NoRow EXCEPT !.status = IF Spent(k) THEN "failed" ELSE "pending",
                                  !.attempts = row[k].attempts]
               ELSE row[k]]
  /\ UNCHANGED <<slots, history>>

\* reconcileRecurringJobs, after each cleanup.
ReconcileRecurringJobs(k) == k \in CronKeys /\ CronFree(k) /\ Arm(k) /\ UNCHANGED slots

\* pruneFinishedJobs, once the row is old enough.
PruneFinishedJobs(k) ==
  /\ row[k].status \in {"completed", "failed"}
  /\ row' = [row EXCEPT ![k] = NoRow]
  /\ starts' = [starts EXCEPT ![k] = 0]
  /\ defers' = [defers EXCEPT ![k] = 0]
  /\ returned' = returned \ {k}
  /\ UNCHANGED <<slots, lapsed>>

LeaseTick(k) ==
  /\ row[k].status = "running"
  /\ row[k].lease > 0
  /\ row' = [row EXCEPT ![k].lease = @ - 1]
  /\ lapsed' = lapsed \cup {w \in Slots : row[k].lease = 1 /\ row[k].token = w /\ cur[w] = k}
  /\ UNCHANGED <<slots, starts, defers, returned>>

Step(w) ==
  \/ \E k \in Keys : Dequeue(w, k)
  \/ Renew(w) \/ Work(w) \/ LateEnd(w)
  \/ CompleteJob(w) \/ FailJob(w) \/ DeferJob(w) \/ Recur(w) \/ Release(w) \/ Crash(w)

Next ==
  \/ \E w \in Slots : Step(w)
  \/ \E k \in Keys : \/ Enqueue(k) \/ RearmFailed(k) \/ ReconcileRecurringJobs(k)
                     \/ PruneFinishedJobs(k) \/ LeaseTick(k)
  \/ CleanupStaleJobs

Spec == Init /\ [][Next]_vars

\* Slots keep moving unless they crash, and a handler ends at last; leases of
\* dead owners run out, the maintenance pass runs again and again, and no job
\* is passed over for ever.
Fairness ==
  /\ \A w \in Slots : /\ WF_vars(Work(w))
                      /\ WF_vars(CompleteJob(w) \/ FailJob(w) \/ DeferJob(w))
                      /\ WF_vars(Recur(w) \/ Release(w))
                      /\ WF_vars(LateEnd(w))
  /\ \A k \in Keys : /\ WF_vars(LeaseTick(k))
                     /\ WF_vars(ReconcileRecurringJobs(k))
                     /\ SF_vars(\E w \in Slots : Dequeue(w, k))
  /\ WF_vars(CleanupStaleJobs)

FairSpec == Spec /\ Fairness

-----------------------------------------------------------------------------
(* Properties. *)

(* The attempts of a row count the handlers that were started for it, less the *)
(* deferrals, through retries, crashes and stale recoveries, and a job is only *)
(* offered again while it has attempts left (dequeueJob, failJob, deferJob,    *)
(* cleanupStaleJobs).                                                          *)
AttemptsAreCounted ==
  \A k \in Keys : row[k].status # "none" =>
    /\ row[k].attempts + defers[k] = starts[k]
    /\ row[k].status = "pending" => row[k].attempts < MaxAttempts

(* A completed job is one whose last claim ended with a handler that returned: *)
(* a late worker cannot complete the claim of its successor (completeJob).     *)
CompletedMeansReturned ==
  \A k \in Keys : row[k].status = "completed" =>
    /\ k \in returned
    /\ \A w \in Slots : cur[w] = k /\ pc[w] \in Unsettled => w \in lapsed

(* A job is not taken from its worker: until the worker settles it or lets its *)
(* lease run out, no rearming producer, cron repair, cleanup, pruning or late  *)
(* predecessor changes its row, and no second worker gets it.                  *)
LiveOwnerKeepsJob ==
  \A w \in Slots : pc[w] \in Unsettled /\ w \notin lapsed => Owned(w)

(* A job that is offered or taken comes to an end, completed or failed, though *)
(* workers crash, leases run out and settlements are refused.                  *)
JobSettles ==
  \A k \in Keys : row[k].status \in {"pending", "running"}
                    ~> row[k].status \in {"completed", "failed"}

(* A recurring job never stops recurring: if the worker dies between settling  *)
(* one occurrence and inserting the next, the maintenance pass inserts it.     *)
CronKeepsRunning == \A k \in CronKeys : []<>(row[k].status = "running")
=============================================================================
