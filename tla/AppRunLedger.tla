---------------------------- MODULE AppRunLedger ----------------------------
(***************************************************************************)
(* The durable rows of one governed App Run and the transactions that the  *)
(* engine commits on them: the run row, its attempts, its approval row,    *)
(* its secret payloads, its signed receipts and its queue jobs.            *)
(*                                                                         *)
(* Every transaction of the engine first locks the run row, so two         *)
(* transactions of one run never overlap and each is one atomic step.      *)
(* A transaction that a database trigger refuses commits nothing: the      *)
(* "...Commits" predicates say when the triggers let it through.           *)
(*                                                                         *)
(* A lease is a countdown, expired at 0; the retention deadlines of input  *)
(* and result pass once. The countdowns are independent, so a lease may    *)
(* end before or after the retention deadlines: a claim can be made at any *)
(* distance from them. A transaction compares a deadline with a reading of *)
(* its own host's clock, most often taken before it waits for the run      *)
(* lock: a deadline that has not passed always looks live, one that has    *)
(* passed may still look live.                                             *)
(*                                                                         *)
(* A definition whose comment begins with "Fault:" is a wrong variant of   *)
(* the one after it, with which the properties are shown to be breakable.  *)
(***************************************************************************)
EXTENDS Naturals

CONSTANTS
  AttemptLimit,   \* APP_RUN_DEFAULT_ATTEMPT_LIMIT
  LeaseTTL,       \* ticks an attempt's lease lasts when claimed or renewed
  Policies,       \* the policies a run may be submitted with
  Processes,      \* job workers and synchronous callers
  Approvers,      \* humans who may resolve the approval
  Nobody          \* an unset claim token or approver

Attempts == 1..AttemptLimit

RunStates == {"absent", "pending", "pending_approval", "running", "waiting_external",
              "succeeded", "failed", "cancelled", "expired", "unknown_outcome"}
Terminal == {"succeeded", "failed", "cancelled", "expired"}
Closed == Terminal \cup {"unknown_outcome"}
Waiting == {"pending", "pending_approval"}

AttemptStates == {"absent", "pending", "claimed", "provider_call_started",
                  "succeeded", "failed", "unknown_outcome"}
Active == {"pending", "claimed", "provider_call_started"}
Leased == {"claimed", "provider_call_started"}
Ended == {"succeeded", "failed", "unknown_outcome"}

\* The immutable policy columns of a run.
PolicyType == [provider : {"mcp", "native", "app_runtime"},
               retry    : {"safe", "idempotent_with_key", "unsafe"},
               review   : BOOLEAN,    \* review_requirement = 'always'
               budgeted : BOOLEAN]    \* an agent employee's daily budget is charged

ASSUME LimitAssumption == AttemptLimit \in Nat \ {0}
ASSUME LeaseAssumption == LeaseTTL \in Nat \ {0}
ASSUME PolicyAssumption == Policies \subseteq PolicyType
ASSUME NobodyAssumption == Nobody \notin Processes \cup Approvers

\* AppRunSafeOutcome: success, provider_call_attempted and result_status.
OutcomeType == [success : BOOLEAN, attempted : BOOLEAN,
                result : {"none", "unavailable", "retained", "expired"}]
NoOutcome == [success |-> FALSE, attempted |-> FALSE, result |-> "none"]
NotAttempted == [success |-> FALSE, attempted |-> FALSE, result |-> "unavailable"]
Returned(ok, kept) == [success |-> ok, attempted |-> TRUE,
                       result |-> IF kept THEN "retained" ELSE "unavailable"]
UnknownOutcome == Returned(FALSE, FALSE)

\* An attempt_terminal receipt: the attempt's state, the run's state, retry_scheduled.
ReceiptType == [attempt : Ended \cup {"none"}, run : RunStates, retry : BOOLEAN]
NoReceipt == [attempt |-> "none", run |-> "absent", retry |-> FALSE]
Receipt(a, r, again) == [attempt |-> a, run |-> r, retry |-> again]

\* An approval receipt: the decision, the run's state and the deciding human.
ApprovalReceiptType == [decision : {"none", "approved", "rejected", "expired"},
                        run : RunStates, actor : Approvers \cup {Nobody}]
NoApprovalReceipt == [decision |-> "none", run |-> "absent", actor |-> Nobody]

RunType == [state : RunStates,
            release : {"none", "policy_satisfied", "approved"},
            cancelRequested : BOOLEAN,
            outcome : OutcomeType,
            resultPurged : BOOLEAN,
            budget : BOOLEAN]
AttemptType == [state : AttemptStates,
                started : BOOLEAN,               \* provider_call_started_at
                token : Processes \cup {Nobody}, \* claim_token
                lease : 0..LeaseTTL,             \* lease_expires_at
                outcome : OutcomeType,           \* safe_outcome
                receipt : ReceiptType]
ApprovalType == [status : {"none", "pending", "approved", "rejected", "expired"},
                 by : Approvers \cup {Nobody},
                 receipt : ApprovalReceiptType]

VARIABLES
  policy,      \* immutable policy columns of app_runs
  run,         \* mutable columns of app_runs
  att,         \* app_run_attempts, by attempt_number
  approval,    \* the linked agent_actions row and its approval receipt
  recon,       \* resolution of the reconciliation receipt, or "none"
  input,       \* TRUE iff the encrypted input payload exists
  outputs,     \* attempts whose encrypted output payload exists
  jobs,        \* job_queue row of each attempt: none, queued, finished
  inputLive,   \* input_expires_at > now
  resultLive,  \* result_expires_at > now
  authority    \* TRUE iff the live authority versions still match the run's snapshot

rows == <<policy, run, att, approval, recon, input, outputs, jobs>>
clocks == <<inputLive, resultLive>>
ledger == <<policy, run, att, approval, recon, input, outputs, jobs,
            inputLive, resultLive, authority>>

LedgerTypeOK ==
  /\ policy \in PolicyType
  /\ run \in RunType
  /\ att \in [Attempts -> AttemptType]
  /\ approval \in ApprovalType
  /\ recon \in {"none", "succeeded", "failed"}
  /\ input \in BOOLEAN
  /\ outputs \in SUBSET Attempts
  /\ jobs \in [Attempts -> {"none", "queued", "finished"}]
  /\ inputLive \in BOOLEAN
  /\ resultLive \in BOOLEAN
  /\ authority \in BOOLEAN

NoRun == [state |-> "absent", release |-> "none", cancelRequested |-> FALSE,
          outcome |-> NoOutcome, resultPurged |-> FALSE, budget |-> FALSE]
NoAttempt == [state |-> "absent", started |-> FALSE, token |-> Nobody, lease |-> 0,
              outcome |-> NoOutcome, receipt |-> NoReceipt]
NoApproval == [status |-> "none", by |-> Nobody, receipt |-> NoApprovalReceipt]

LedgerInit ==
  /\ policy \in Policies
  /\ run = NoRun
  /\ att = [n \in Attempts |-> NoAttempt]
  /\ approval = NoApproval
  /\ recon = "none"
  /\ input = FALSE
  /\ outputs = {}
  /\ jobs = [n \in Attempts |-> "none"]
  /\ inputLive = TRUE
  /\ resultLive = TRUE
  /\ authority = TRUE

-----------------------------------------------------------------------------
(* The run's state graph, enforced by a trigger on app_runs. *)

StateTransitions ==
  [s \in RunStates |->
     CASE s = "pending"          -> {"pending_approval", "running", "cancelled", "expired"}
       [] s = "pending_approval" -> {"running", "cancelled", "expired"}
       [] s = "running"          -> {"waiting_external", "succeeded", "failed", "unknown_outcome"}
       [] s = "waiting_external" -> {"running", "succeeded", "failed", "cancelled", "unknown_outcome"}
       [] s = "unknown_outcome"  -> {"succeeded", "failed"}
       [] OTHER                  -> {}]

\* transition() returns early when the state does not change, and the trigger
\* refuses an edge that is not in the graph.
Legal(from, to) == from = to \/ to \in StateTransitions[from]
Transition(r, s, o) == IF r.state = s THEN r ELSE [r EXCEPT !.state = s, !.outcome = o]

-----------------------------------------------------------------------------
(* Attempts: creation and scheduling. *)

Limit == IF policy.provider = "native" THEN 1 ELSE AttemptLimit

\* attempt_number is one more than the last attempt's, up to the run's limit.
IsNext(a, n) == /\ a[n].state = "absent"
                /\ n <= Limit
                /\ \A m \in Attempts : m < n => a[m].state # "absent"
WithNewAttempt(a) ==
  [n \in Attempts |-> IF IsNext(a, n) THEN [NoAttempt EXCEPT !.state = "pending"] ELSE a[n]]

\* The dedupe key makes a second enqueue of the same attempt a no-op, whatever
\* became of the first job.
Enqueue(j, which) ==
  [n \in Attempts |-> IF n \in which /\ j[n] = "none" THEN "queued" ELSE j[n]]

\* Fault: only an attempt that waits counts, not one that is being executed.
HasPending(a) == \E n \in Attempts : a[n].state = "pending"
HasActive(a) == \E n \in Attempts : a[n].state \in Active

\* authorizeExecution at the 'claim' and 'provider_call' stages.
MayExecute == authority /\ (policy.budgeted => run.budget)

\* scheduleInTransaction, for the run row r the transaction has written so far.
\* The 'prepare' authorization reserves the agent's budget slot once, and may
\* find no slot free.
Schedule(r) ==
  LET open == r.release # "none" /\ r.state \notin Closed /\ authority
      b    == [r EXCEPT !.budget = policy.budgeted]
  IN  \/ /\ ~open \/ (policy.budgeted /\ ~r.budget)
         /\ run' = r
         /\ UNCHANGED <<att, jobs>>
      \/ /\ open
         /\ run' = b
         /\ \/ /\ ~inputLive
               /\ UNCHANGED <<att, jobs>>
            \/ /\ HasActive(att)
               /\ jobs' = Enqueue(jobs, {n \in Attempts : att[n].state \in Active})
               /\ UNCHANGED att
            \/ /\ ~HasActive(att)
               /\ att' = WithNewAttempt(att)
               /\ jobs' = Enqueue(jobs, {n \in Attempts : IsNext(att, n)})

-----------------------------------------------------------------------------
(* Intake and the human decisions. *)

\* Fault: every run is released when it is submitted.
ReleasedRun ==
  [NoRun EXCEPT !.state = IF policy.review THEN "pending_approval" ELSE "pending",
                !.release = "policy_satisfied"]
\* A run that needs no review is released by its policy.
SubmittedRun ==
  [NoRun EXCEPT !.state = IF policy.review THEN "pending_approval" ELSE "pending",
                !.release = IF policy.review THEN "none" ELSE "policy_satisfied"]

\* #submit: the run, its input, its approval row or its first attempt and job
\* commit together.
Submit ==
  /\ run.state = "absent"
  /\ Schedule(SubmittedRun)
  /\ input' = TRUE
  /\ approval' = [NoApproval EXCEPT !.status = IF policy.review THEN "pending" ELSE "none"]
  /\ UNCHANGED <<policy, recon, outputs, clocks, authority>>

\* A receipt is inserted once under its key; a second write must be identical,
\* or the whole transaction fails with APP_RUN_REPAIR_REQUIRED.
ApprovalReceipt(d, s, a) == [decision |-> d, run |-> s, actor |-> a]
ApprovalReceiptCommits(rec) == approval.receipt \in {NoApprovalReceipt, rec}

\* The run as its first approval releases it. authorizeApprovalInTransaction is the
\* 'prepare' authorization: it takes the budget slot before the release.
ApprovedRun == [run EXCEPT !.release = "approved", !.budget = policy.budgeted]

\* The first approval of a run that waits for one: budget slot, release, decision,
\* receipt and first attempt commit together.
ApproveFirst(a) ==
  LET rec == ApprovalReceipt("approved", run.state, a)
  IN  /\ run.state = "pending_approval"
      /\ run.release = "none"
      /\ approval.status = "pending"
      /\ inputLive /\ authority
      /\ ApprovalReceiptCommits(rec)
      /\ approval' = [status |-> "approved", by |-> a, receipt |-> rec]
      /\ Schedule(ApprovedRun)
      /\ UNCHANGED <<policy, recon, input, outputs, clocks, authority>>

\* Approving a released run again rewrites the decision and the receipt, in the
\* name of the first approver, and schedules again.
ApproveAgain(a) ==
  LET rec == ApprovalReceipt("approved", run.state,
                             IF approval.by = Nobody THEN a ELSE approval.by)
  IN  /\ run.release = "approved"
      /\ policy.provider = "native" => authority
      /\ ApprovalReceiptCommits(rec)
      /\ approval' = [status |-> "approved", by |-> a, receipt |-> rec]
      /\ Schedule(run)
      /\ UNCHANGED <<policy, recon, input, outputs, clocks, authority>>

\* Approving an unreleased run that can no longer be released: it has ended, its
\* input or authority has, or the agent's budget has no slot left today.
ApproveTooLate(a) ==
  /\ run.release = "none"
  /\ run.state # "absent"
  /\ policy.provider = "native" /\ run.state # "pending_approval" => authority
  /\ \/ /\ run.state = "cancelled"
        /\ approval' = [approval EXCEPT !.status = "rejected"]
        /\ UNCHANGED run
     \/ /\ run.state \in {"expired", "failed"}
        /\ approval' = [approval EXCEPT !.status = "expired"]
        /\ UNCHANGED run
     \/ /\ run.state = "pending_approval"
        /\ approval.status = "pending"
        /\ ~inputLive \/ ~authority \/ policy.budgeted
        /\ ApprovalReceiptCommits(ApprovalReceipt("expired", "expired", a))
        /\ run' = Transition(run, "expired", NotAttempted)
        /\ approval' = [approval EXCEPT !.status = "expired",
                                        !.receipt = ApprovalReceipt("expired", "expired", a)]
  /\ UNCHANGED <<policy, att, recon, input, outputs, jobs, clocks, authority>>

\* Fault: a rejection that comes after the release still rejects.
RejectReleasedAnyway(a) ==
  /\ run.release = "approved"
  /\ approval' = [approval EXCEPT !.status = "rejected"]
  /\ UNCHANGED run
\* Rejecting a released run leaves it approved.
RejectReleased(a) ==
  /\ run.release = "approved"
  /\ approval' = [approval EXCEPT !.status = "approved",
                                  !.by = IF @ = Nobody THEN a ELSE @]
  /\ UNCHANGED run

\* Rejecting an unreleased run that was rejected before, or that has ended.
RejectClosed ==
  /\ run.release = "none"
  /\ \/ /\ run.state = "cancelled" \/ approval.status = "rejected"
        /\ approval' = [approval EXCEPT !.status = "rejected"]
     \/ /\ run.state \notin {"cancelled", "pending_approval"}
        /\ approval.status # "rejected"
        /\ approval' = [approval EXCEPT !.status = "expired"]
  /\ UNCHANGED run

\* The first rejection: the decision, the run's cancellation and the receipt
\* commit together.
RejectFirst(a) ==
  LET rec == ApprovalReceipt("rejected", "cancelled", a)
  IN  /\ run.release = "none"
      /\ run.state = "pending_approval"
      /\ approval.status # "rejected"
      /\ ApprovalReceiptCommits(rec)
      /\ run' = Transition(run, "cancelled", NotAttempted)
      /\ approval' = [approval EXCEPT !.status = "rejected", !.receipt = rec]

\* reject.
Reject(a) ==
  /\ approval.status # "none"
  /\ RejectReleased(a) \/ RejectClosed \/ RejectFirst(a)
  /\ UNCHANGED <<policy, att, recon, input, outputs, jobs, clocks, authority>>

\* cancel: before execution the run is cancelled and its attempts are left as
\* they are; a running run only records the request.
Cancel ==
  /\ run.state \in Waiting \cup {"running", "waiting_external"}
  /\ run' = IF run.state \in Waiting
            THEN Transition(run, "cancelled", NotAttempted)
            ELSE [run EXCEPT !.cancelRequested = TRUE]
  /\ UNCHANGED <<policy, att, approval, recon, input, outputs, jobs, clocks, authority>>

\* reconcileUnknown: an operator resolves an unknown outcome, with a receipt.
ReconcileUnknown(resolution) ==
  /\ run.state = "unknown_outcome"
  /\ run' = Transition(run, resolution, Returned(resolution = "succeeded", FALSE))
  /\ recon' = resolution
  /\ UNCHANGED <<policy, att, approval, input, outputs, jobs, clocks, authority>>

-----------------------------------------------------------------------------
(* Recovery of an attempt whose lease has expired. *)

\* Fault: recovery overlooks calls that have started.
LapsedClaim(n) == att[n].state = "claimed" /\ att[n].lease = 0
Lapsed(n) == att[n].state \in Leased /\ att[n].lease = 0

\* Fault: the receipt does not say that the attempt is retried.
EndAttemptFinally(n, s, r, again) ==
  [att EXCEPT ![n].state = s, ![n].receipt = Receipt(s, r, FALSE)]
\* A receipt under the attempt's key is written once.
EndAttempt(n, s, r, again) ==
  [att EXCEPT ![n].state = s, ![n].receipt = Receipt(s, r, again)]

\* Fault: no special case for a claim whose run retention expired.
NeverAbandoned(n) == FALSE
\* Retention expired the run before its claim could be recovered.
AbandonedByExpiry(n) == run.state = "expired" /\ att[n].state = "claimed"
SettleAbandonedClaim(n) ==
  /\ att' = EndAttempt(n, "failed", "expired", FALSE)
  /\ UNCHANGED <<run, jobs>>

\* #finalizeKnownInTransaction: the attempt and the run take the state that the
\* persisted outcome names.
KnownState(o) == IF o.success THEN "succeeded" ELSE "failed"
FinalizeCommits(n) == Legal(run.state, KnownState(att[n].outcome))
FinalizeKnown(n) ==
  LET s == KnownState(att[n].outcome)
  IN  /\ FinalizeCommits(n)
      /\ att' = EndAttempt(n, s, s, FALSE)
      /\ run' = Transition(run, s, att[n].outcome)
      /\ UNCHANGED jobs

\* Fault: the retry class of the operation is not asked for.
MayRetryAnyCall(n) == att[n].outcome = NoOutcome
\* classifyAppRunCrashRecovery: a call that never started may be tried again,
\* a started one only if the provider tolerates a second call; an App runtime
\* is never sent a second one.
MayRetry(n) == /\ att[n].outcome = NoOutcome
               /\ policy.provider = "app_runtime" => att[n].state = "claimed"
               /\ \/ att[n].state = "claimed"
                  \/ policy.retry \in {"safe", "idempotent_with_key"}

\* A native claim whose effect rolled back is ended through a "running" bridge.
NativeUnstarted(n) ==
  /\ policy.provider = "native"
  /\ att[n].state = "claimed"
  /\ ~att[n].started
  /\ run.release # "none"
  /\ run.state \in Waiting

\* #recoverUnknownInTransaction: end the attempt and create its retry, or end
\* the run with it. Between the two the input's deadline decides last.
CanRetry(n) == ~NativeUnstarted(n) /\ MayRetry(n) /\ n < Limit
SkipsRetry(n) == ~CanRetry(n) \/ ~inputLive
\* Fault: a lost call is taken for a failed one.
LostMeansFailed(n) == "failed"
LostState(n) == IF att[n].state = "claimed" THEN "failed" ELSE "unknown_outcome"
LostCommits(n) == Legal(IF NativeUnstarted(n) THEN "running" ELSE run.state, LostState(n))
RetryLost(n) ==
  LET a == EndAttempt(n, LostState(n), run.state, TRUE)
  IN  /\ CanRetry(n)
      /\ att' = WithNewAttempt(a)
      /\ jobs' = Enqueue(jobs, {m \in Attempts : IsNext(a, m)})
      /\ UNCHANGED run
CloseLost(n) ==
  LET s == LostState(n)
  IN  /\ SkipsRetry(n)
      /\ LostCommits(n)
      /\ att' = EndAttempt(n, s, s, FALSE)
      /\ run' = Transition(run, s, IF s = "failed" THEN NotAttempted ELSE UnknownOutcome)
      /\ UNCHANGED jobs
RecoverUnknown(n) == RetryLost(n) \/ CloseLost(n)

\* Fault: recovery does not look for a persisted result.
NeverKnown(n) == FALSE
IsKnown(n) == att[n].state = "provider_call_started" /\ att[n].outcome # NoOutcome
\* recoverRun, for an attempt n whose lease has lapsed. The last transition may
\* be one that the trigger refuses, and then the recovery is rolled back.
RecoverFails(n) ==
  /\ Lapsed(n)
  /\ ~AbandonedByExpiry(n)
  /\ \/ IsKnown(n) /\ ~FinalizeCommits(n)
     \/ ~IsKnown(n) /\ SkipsRetry(n) /\ ~LostCommits(n)
RecoverRun(n) ==
  /\ Lapsed(n)
  /\ \/ AbandonedByExpiry(n) /\ SettleAbandonedClaim(n)
     \/ IsKnown(n) /\ FinalizeKnown(n)
     \/ ~AbandonedByExpiry(n) /\ ~IsKnown(n) /\ RecoverUnknown(n)
  /\ UNCHANGED <<policy, approval, recon, input, outputs, clocks, authority>>

-----------------------------------------------------------------------------
(* The transactions of one execution of an attempt. *)

\* #claim reads the run before the attempt: an expired input ends the run even
\* if another process holds the attempt.
ClaimOpen == run.release # "none" /\ run.state \notin Closed /\ MayExecute
ClaimExpiresRun ==
  /\ ClaimOpen
  /\ ~inputLive
  /\ Legal(run.state, "expired")
  /\ run' = Transition(run, "expired", NotAttempted)
  /\ UNCHANGED <<policy, att, approval, recon, input, outputs, jobs, clocks, authority>>
ClaimFails == ClaimOpen /\ ~inputLive /\ ~Legal(run.state, "expired")
ClaimRefused(n) == ~ClaimOpen \/ att[n].state # "pending"
Claim(w, n) ==
  /\ ClaimOpen
  /\ att[n].state = "pending"
  /\ att' = [att EXCEPT ![n].state = "claimed", ![n].token = w, ![n].lease = LeaseTTL]
  /\ UNCHANGED <<policy, run, approval, recon, input, outputs, jobs, clocks, authority>>

\* #settleBeforeCallFailure: the input was purged after the claim. The update is
\* by claim token only; a trigger refuses it once the attempt has ended, because
\* its error code or its receipt would change.
SettleBeforeCallCommits(n) == att[n].state = "claimed" /\ Legal(run.state, "expired")
SettleBeforeCallFailure(n) ==
  /\ SettleBeforeCallCommits(n)
  /\ att' = EndAttempt(n, "failed", "expired", FALSE)
  /\ run' = Transition(run, "expired", NotAttempted)
  /\ UNCHANGED <<policy, approval, recon, input, outputs, jobs, clocks, authority>>

\* Fault: the boundary does not look at the run's state.
MayStartCancelled(w, n) ==
  /\ run.release # "none"
  /\ MayExecute
  /\ att[n].state = "claimed"
  /\ att[n].token = w
\* #markProviderCallStarted: the committed boundary before the provider call,
\* refused when the claim is lost or its lease is seen to have ended.
MayStart(w, n) ==
  /\ run.release # "none"
  /\ run.state # "cancelled"
  /\ MayExecute
  /\ att[n].state = "claimed"
  /\ att[n].token = w
StartRefused(w, n) == ~MayStart(w, n) \/ att[n].lease = 0
MarkProviderCallStarted(w, n) ==
  /\ MayStart(w, n)
  /\ att' = [att EXCEPT ![n].state = "provider_call_started", ![n].started = TRUE]
  /\ run' = IF run.state \in Waiting THEN [run EXCEPT !.state = "running"] ELSE run
  /\ UNCHANGED <<policy, approval, recon, input, outputs, jobs, clocks, authority>>

\* Fault: the lease is extended from its end instead of from now.
RenewLeaseFromEnd(w, n) ==
  /\ att[n].token = w
  /\ att[n].state \in Leased
  /\ att' = [att EXCEPT ![n].lease = @ + LeaseTTL]
  /\ UNCHANGED <<policy, run, approval, recon, input, outputs, jobs, clocks, authority>>
\* renewLease for a provider call in flight. The clock is read before the run is
\* locked, so a lease that ends during the wait is renewed all the same.
RenewLease(w, n) ==
  /\ att[n].token = w
  /\ att[n].state \in Leased
  /\ att' = [att EXCEPT ![n].lease = LeaseTTL]
  /\ UNCHANGED <<policy, run, approval, recon, input, outputs, jobs, clocks, authority>>

\* Fault: the fence looks at the token only.
HoldsToken(w, n) == att[n].token = w
\* Every write after the call is fenced by the claim token.
Holds(w, n) == att[n].state = "provider_call_started" /\ att[n].token = w

\* #persistKnownResult: outcome and retained output, at most once per attempt.
PersistKnownResult(w, n, o) ==
  /\ Holds(w, n)
  /\ att[n].outcome = NoOutcome
  /\ att' = [att EXCEPT ![n].outcome = o]
  /\ outputs' = IF o.result = "retained" THEN outputs \cup {n} ELSE outputs
  /\ UNCHANGED <<policy, run, approval, recon, input, jobs, clocks, authority>>

\* #finalizeKnownResult.
FinalizeKnownResult(w, n) ==
  /\ Holds(w, n)
  /\ att[n].outcome # NoOutcome
  /\ FinalizeKnown(n)
  /\ UNCHANGED <<policy, approval, recon, input, outputs, clocks, authority>>

\* #settleIndeterminate.
SettleIndeterminate(w, n) ==
  /\ Holds(w, n)
  /\ RecoverUnknown(n)
  /\ UNCHANGED <<policy, approval, recon, input, outputs, clocks, authority>>

\* #executeNativeAtomic: start, effect, output, outcome and receipt in one
\* transaction.
NativeReady(w, n) ==
  /\ att[n].state = "claimed"
  /\ att[n].token = w
  /\ run.release # "none"
  /\ run.state \in Waiting
  /\ ~run.cancelRequested
NativeRefused(w, n) ==
  ~NativeReady(w, n) \/ att[n].lease = 0 \/ ~inputLive \/ ~resultLive
ExecuteNative(w, n) ==
  /\ NativeReady(w, n)
  /\ MayExecute
  /\ att' = [att EXCEPT ![n].state = "succeeded",
                        ![n].started = TRUE,
                        ![n].outcome = Returned(TRUE, TRUE),
                        ![n].receipt = Receipt("succeeded", "succeeded", FALSE)]
  /\ run' = [run EXCEPT !.state = "succeeded", !.outcome = Returned(TRUE, TRUE)]
  /\ outputs' = outputs \cup {n}
  /\ UNCHANGED <<policy, approval, recon, input, jobs, clocks, authority>>

-----------------------------------------------------------------------------
(* Retention and the environment. *)

\* purgeExpiredRunForMaintenance: expired payloads are deleted, and a run that
\* never started loses its input and expires.
InputDue == input /\ ~inputLive
OutputDue == outputs # {} /\ ~resultLive
\* Fault: the purge is recorded only for a result the run already offers.
PurgedOfferedRun ==
  [run EXCEPT !.state = IF InputDue /\ @ \in Waiting THEN "expired" ELSE @,
              !.outcome = IF OutputDue /\ @ # NoOutcome
                          THEN [@ EXCEPT !.result = "expired"] ELSE @,
              !.resultPurged = @ \/ (OutputDue /\ run.outcome # NoOutcome)]
\* Fault: a run that waits for approval is not expired.
PurgedPendingRun ==
  [run EXCEPT !.state = IF InputDue /\ @ = "pending" THEN "expired" ELSE @,
              !.outcome = IF OutputDue /\ @ # NoOutcome
                          THEN [@ EXCEPT !.result = "expired"] ELSE @,
              !.resultPurged = @ \/ OutputDue]
PurgedRun ==
  [run EXCEPT !.state = IF InputDue /\ @ \in Waiting THEN "expired" ELSE @,
              !.outcome = IF OutputDue /\ @ # NoOutcome
                          THEN [@ EXCEPT !.result = "expired"] ELSE @,
              !.resultPurged = @ \/ OutputDue]
Purge ==
  /\ InputDue \/ OutputDue
  /\ input' = (input /\ ~InputDue)
  /\ outputs' = IF OutputDue THEN {} ELSE outputs
  /\ run' = PurgedRun
  /\ UNCHANGED <<policy, att, approval, recon, jobs, clocks, authority>>

\* Time passes. The result is kept at least as long as the input.
LeaseTick(n) ==
  /\ att[n].state \in Leased
  /\ att[n].lease > 0
  /\ att' = [att EXCEPT ![n].lease = @ - 1]
  /\ UNCHANGED <<policy, run, approval, recon, input, outputs, jobs, clocks, authority>>
InputExpires ==
  /\ run.state # "absent"
  /\ inputLive
  /\ inputLive' = FALSE
  /\ UNCHANGED <<rows, resultLive, authority>>
ResultExpires ==
  /\ ~inputLive
  /\ resultLive
  /\ resultLive' = FALSE
  /\ UNCHANGED <<rows, inputLive, authority>>

\* A grant, membership, connector or schema changed: the versions captured in
\* the run's snapshot never match again.
Revoke ==
  /\ authority
  /\ authority' = FALSE
  /\ UNCHANGED <<rows, clocks>>

-----------------------------------------------------------------------------
(* What the rows of a run must always agree on, whoever writes them. *)

(* At most one attempt of a run is pending, claimed or started, so that        *)
(* schedule, recovery and retry never meet the one-active-attempt index; and   *)
(* a run with an unknown outcome has none: it is never retried.                *)
OneActiveAttempt ==
  /\ \A m, n \in Attempts : att[m].state \in Active /\ att[n].state \in Active => m = n
  /\ run.state \in {"succeeded", "failed", "unknown_outcome"} => ~HasActive(att)

(* The approval row never contradicts the run: it is approved exactly when the *)
(* run was released by approval, a rejected one belongs to a cancelled run,    *)
(* and its receipt agrees, under concurrent approve, reject and cancel.        *)
ApprovalAgrees ==
  /\ approval.status = "approved" <=> run.release = "approved"
  /\ approval.status = "rejected" => run.state = "cancelled"
  /\ approval.status = "expired" => run.state = "expired"
  /\ approval.receipt.decision # "none" => approval.receipt.decision = approval.status
=============================================================================
