------------------------ MODULE AppRunLedgerProofs -------------------------
(***************************************************************************)
(* What every transaction on the rows of an App Run preserves, whoever     *)
(* runs it: the workers of AppRunEngine or the sessions of                 *)
(* AppRuntimeChannel.                                                      *)
(***************************************************************************)
EXTENDS AppRunLedger, TLAPS

-----------------------------------------------------------------------------
(* The transactions, without the processes that run them. *)

PrepareRows ==
  /\ run.state # "absent"
  /\ Schedule(run)
  /\ UNCHANGED <<policy, approval, recon, input, outputs, clocks, authority>>

JobSettled ==
  /\ \E n \in Attempts : jobs' = [jobs EXCEPT ![n] = "finished"]
  /\ UNCHANGED <<policy, run, att, approval, recon, input, outputs, clocks, authority>>

HumanStep ==
  \/ Submit \/ Cancel
  \/ \E a \in Approvers : ApproveFirst(a) \/ ApproveAgain(a) \/ ApproveTooLate(a) \/ Reject(a)
  \/ \E s \in {"succeeded", "failed"} : ReconcileUnknown(s)

Execution(w, n) ==
  \/ Claim(w, n) \/ MarkProviderCallStarted(w, n) \/ RenewLease(w, n)
  \/ \E o \in OutcomeType : PersistKnownResult(w, n, o)
  \/ FinalizeKnownResult(w, n) \/ SettleIndeterminate(w, n)
ExecutionStep(w, n) == Execution(w, n) \/ ExecuteNative(w, n)

AttemptStep(n) == RecoverRun(n) \/ SettleBeforeCallFailure(n) \/ LeaseTick(n)

OtherStep ==
  \/ ClaimExpiresRun \/ PrepareRows \/ JobSettled
  \/ Purge \/ InputExpires \/ ResultExpires \/ Revoke

LedgerStep ==
  \/ HumanStep \/ OtherStep
  \/ \E n \in Attempts : AttemptStep(n)
  \/ \E w \in Processes, n \in Attempts : ExecutionStep(w, n)

-----------------------------------------------------------------------------
(* Types. *)

(* The outcomes that the transactions write are safe outcomes. *)
LEMMA OutcomeTypes ==
  /\ NoOutcome \in OutcomeType
  /\ NotAttempted \in OutcomeType
  /\ UnknownOutcome \in OutcomeType
  /\ \A ok, kept \in BOOLEAN : Returned(ok, kept) \in OutcomeType
BY DEF NoOutcome, NotAttempted, UnknownOutcome, Returned, OutcomeType

(* The attempt receipts that the transactions write are well typed. *)
LEMMA ReceiptTypes ==
  /\ NoReceipt \in ReceiptType
  /\ \A a \in Ended, r \in RunStates, again \in BOOLEAN : Receipt(a, r, again) \in ReceiptType
BY DEF NoReceipt, Receipt, ReceiptType, Ended, RunStates

(* A row that #createAttempt inserts is well typed. *)
LEMMA NewAttemptType ==
  /\ NoAttempt \in AttemptType
  /\ [NoAttempt EXCEPT !.state = "pending"] \in AttemptType
<1>1. 0 \in 0..LeaseTTL
  BY LeaseAssumption
<1>2. NoAttempt \in AttemptType
  BY <1>1, OutcomeTypes, ReceiptTypes DEF NoAttempt, AttemptType, AttemptStates
<1>3. [NoAttempt EXCEPT !.state = "pending"] \in AttemptType
  BY <1>2 DEF AttemptType, AttemptStates
<1> QED BY <1>2, <1>3

(* Creating an attempt keeps the attempts well typed. *)
LEMMA WithNewAttemptType ==
  ASSUME NEW a \in [Attempts -> AttemptType]
  PROVE  WithNewAttempt(a) \in [Attempts -> AttemptType]
BY NewAttemptType DEF WithNewAttempt

(* Ending an attempt keeps the attempts well typed. *)
LEMMA EndAttemptType ==
  ASSUME LedgerTypeOK, NEW n \in Attempts, NEW s \in Ended, NEW r \in RunStates,
         NEW again \in BOOLEAN
  PROVE  EndAttempt(n, s, r, again) \in [Attempts -> AttemptType]
<1>1. att[n] \in AttemptType
  BY DEF LedgerTypeOK
<1>2. [att[n] EXCEPT !.state = s, !.receipt = Receipt(s, r, again)] \in AttemptType
  BY <1>1, ReceiptTypes DEF AttemptType, Ended, AttemptStates
<1>3. EndAttempt(n, s, r, again)
        = [att EXCEPT ![n] = [att[n] EXCEPT !.state = s, !.receipt = Receipt(s, r, again)]]
  BY <1>1 DEF EndAttempt, LedgerTypeOK, AttemptType
<1> QED BY <1>2, <1>3 DEF LedgerTypeOK

(* transition() keeps the run row well typed. *)
LEMMA TransitionType ==
  ASSUME NEW r \in RunType, NEW s \in RunStates, NEW o \in OutcomeType
  PROVE  Transition(r, s, o) \in RunType
BY DEF Transition, RunType

(* Enqueueing attempt jobs keeps the job rows well typed. *)
LEMMA EnqueueType ==
  ASSUME NEW j \in [Attempts -> {"none", "queued", "finished"}], NEW which
  PROVE  Enqueue(j, which) \in [Attempts -> {"none", "queued", "finished"}]
BY DEF Enqueue

(* scheduleInTransaction writes well typed rows. *)
LEMMA ScheduleType ==
  ASSUME LedgerTypeOK, NEW r \in RunType, Schedule(r)
  PROVE  /\ run' \in RunType
         /\ att' \in [Attempts -> AttemptType]
         /\ jobs' \in [Attempts -> {"none", "queued", "finished"}]
<1>1. [r EXCEPT !.budget = policy.budgeted] \in RunType
  BY DEF RunType, LedgerTypeOK, PolicyType
<1> QED
  BY <1>1, WithNewAttemptType, EnqueueType DEF Schedule, LedgerTypeOK

(* The first approval releases the run with its budget slot, and changes no more of it. *)
LEMMA ApprovedRunFields ==
  ASSUME LedgerTypeOK
  PROVE  /\ ApprovedRun \in RunType
         /\ ApprovedRun.release = "approved" /\ ApprovedRun.budget = policy.budgeted
         /\ ApprovedRun.state = run.state /\ ApprovedRun.outcome = run.outcome
         /\ ApprovedRun.resultPurged = run.resultPurged
BY DEF ApprovedRun, LedgerTypeOK, RunType, PolicyType

(* Intake and the human decisions write well typed rows. *)
LEMMA HumanStepType ==
  ASSUME LedgerTypeOK, HumanStep
  PROVE  LedgerTypeOK'
<1> USE DEF LedgerTypeOK, clocks
<1>0. /\ "expired" \in RunStates /\ "cancelled" \in RunStates
      /\ "succeeded" \in RunStates /\ "failed" \in RunStates
  BY DEF RunStates
<1>1. CASE Submit
  <2>1. SubmittedRun \in RunType
    BY OutcomeTypes DEF SubmittedRun, NoRun, RunType, RunStates
  <2>2. [NoApproval EXCEPT !.status = IF policy.review THEN "pending" ELSE "none"] \in ApprovalType
    BY DEF NoApproval, NoApprovalReceipt, ApprovalType, ApprovalReceiptType, RunStates
  <2> QED BY <1>1, <2>1, <2>2, ScheduleType DEF Submit
<1>2. CASE Cancel
  <2>1. run' \in RunType
    <3>1. [run EXCEPT !.cancelRequested = TRUE] \in RunType
      BY DEF RunType
    <3> QED BY <1>0, <1>2, <3>1, TransitionType, OutcomeTypes DEF Cancel
  <2> QED BY <1>2, <2>1 DEF Cancel
<1>3. ASSUME NEW a \in Approvers, ApproveFirst(a)
      PROVE  LedgerTypeOK'
  <2>1. approval' \in ApprovalType
    BY <1>3 DEF ApproveFirst, ApprovalReceipt, ApprovalType, ApprovalReceiptType, RunType
  <2> QED BY <1>3, <2>1, ApprovedRunFields, ScheduleType DEF ApproveFirst
<1>4. ASSUME NEW a \in Approvers, ApproveAgain(a)
      PROVE  LedgerTypeOK'
  <2>1. approval' \in ApprovalType
    BY <1>4 DEF ApproveAgain, ApprovalReceipt, ApprovalType, ApprovalReceiptType, RunType
  <2> QED BY <1>4, <2>1, ScheduleType DEF ApproveAgain
<1>5. ASSUME NEW a \in Approvers, ApproveTooLate(a)
      PROVE  LedgerTypeOK'
  <2>1. ApprovalReceipt("expired", "expired", a) \in ApprovalReceiptType
    BY <1>0 DEF ApprovalReceipt, ApprovalReceiptType
  <2>2. approval' \in ApprovalType
    BY <1>5, <2>1 DEF ApproveTooLate, ApprovalType
  <2>3. run' \in RunType
    <3>1. Transition(run, "expired", NotAttempted) \in RunType
      BY <1>0, TransitionType, OutcomeTypes
    <3> QED BY <1>5, <3>1 DEF ApproveTooLate
  <2> QED BY <1>5, <2>2, <2>3 DEF ApproveTooLate
<1>6. ASSUME NEW a \in Approvers, Reject(a)
      PROVE  LedgerTypeOK'
  <2>1. ApprovalReceipt("rejected", "cancelled", a) \in ApprovalReceiptType
    BY <1>0 DEF ApprovalReceipt, ApprovalReceiptType
  <2>2. approval' \in ApprovalType
    BY <1>6, <2>1 DEF Reject, RejectReleased, RejectClosed, RejectFirst, ApprovalType
  <2>3. run' \in RunType
    <3>1. Transition(run, "cancelled", NotAttempted) \in RunType
      BY <1>0, TransitionType, OutcomeTypes
    <3> QED BY <1>6, <3>1 DEF Reject, RejectReleased, RejectClosed, RejectFirst
  <2> QED BY <1>6, <2>2, <2>3 DEF Reject
<1>7. ASSUME NEW s \in {"succeeded", "failed"}, ReconcileUnknown(s)
      PROVE  LedgerTypeOK'
  BY <1>0, <1>7, TransitionType, OutcomeTypes DEF ReconcileUnknown
<1> QED BY <1>1, <1>2, <1>3, <1>4, <1>5, <1>6, <1>7 DEF HumanStep

(* Retention, an expiring claim and the clocks write well typed rows. *)
LEMMA OtherStepType ==
  ASSUME LedgerTypeOK, OtherStep
  PROVE  LedgerTypeOK'
<1> USE DEF LedgerTypeOK, clocks
<1>1. CASE ClaimExpiresRun
  BY <1>1, TransitionType, OutcomeTypes DEF ClaimExpiresRun, RunStates
<1>2. CASE PrepareRows
  BY <1>2, ScheduleType DEF PrepareRows
<1>3. CASE JobSettled
  BY <1>3 DEF JobSettled
<1>4. CASE Purge
  <2>1. [run.outcome EXCEPT !.result = "expired"] \in OutcomeType
    BY DEF RunType, OutcomeType
  <2>2. PurgedRun \in RunType
    BY <2>1 DEF PurgedRun, RunType, RunStates, InputDue, OutputDue
  <2>3. outputs' \in SUBSET Attempts /\ input' \in BOOLEAN
    BY <1>4 DEF Purge
  <2> QED BY <1>4, <2>2, <2>3 DEF Purge
<1>5. CASE InputExpires \/ ResultExpires \/ Revoke
  BY <1>5 DEF InputExpires, ResultExpires, Revoke, rows
<1> QED BY <1>1, <1>2, <1>3, <1>4, <1>5 DEF OtherStep

(* Ending an attempt, with or without a retry (RecoverUnknown, FinalizeKnown). *)
LEMMA RecoverUnknownType ==
  ASSUME LedgerTypeOK, NEW n \in Attempts, RecoverUnknown(n)
  PROVE  /\ run' \in RunType
         /\ att' \in [Attempts -> AttemptType]
         /\ jobs' \in [Attempts -> {"none", "queued", "finished"}]
<1> DEFINE s == LostState(n)
<1>1. s \in Ended /\ s \in RunStates
  BY DEF LostState, Ended, RunStates
<1>2. run.state \in RunStates
  BY DEF LedgerTypeOK, RunType
<1>3. CASE RetryLost(n)
  <2> DEFINE a == EndAttempt(n, s, run.state, TRUE)
  <2>1. a \in [Attempts -> AttemptType]
    BY <1>1, <1>2, EndAttemptType
  <2>2. /\ att' = WithNewAttempt(a)
        /\ jobs' = Enqueue(jobs, {m \in Attempts : IsNext(a, m)})
        /\ run' = run
    BY <1>3 DEF RetryLost
  <2> HIDE DEF a
  <2>3. att' \in [Attempts -> AttemptType]
    BY <2>1, <2>2, WithNewAttemptType
  <2>4. jobs' \in [Attempts -> {"none", "queued", "finished"}]
    BY <2>2, EnqueueType DEF LedgerTypeOK
  <2> QED BY <2>2, <2>3, <2>4 DEF LedgerTypeOK
<1>4. CASE CloseLost(n)
  <2>1. EndAttempt(n, s, s, FALSE) \in [Attempts -> AttemptType]
    BY <1>1, EndAttemptType
  <2>2. run' \in RunType
    BY <1>1, <1>4, TransitionType, OutcomeTypes DEF CloseLost, LedgerTypeOK
  <2> QED BY <1>4, <2>1, <2>2 DEF CloseLost, LedgerTypeOK
<1> QED BY <1>3, <1>4 DEF RecoverUnknown

(* Finalizing a known result writes well typed rows. *)
LEMMA FinalizeKnownType ==
  ASSUME LedgerTypeOK, NEW n \in Attempts, FinalizeKnown(n)
  PROVE  /\ run' \in RunType
         /\ att' \in [Attempts -> AttemptType]
         /\ jobs' \in [Attempts -> {"none", "queued", "finished"}]
<1> DEFINE s == KnownState(att[n].outcome)
<1>1. s \in Ended /\ s \in RunStates
  BY DEF KnownState, Ended, RunStates
<1>2. att[n].outcome \in OutcomeType
  BY DEF LedgerTypeOK, AttemptType
<1> QED
  BY <1>1, <1>2, EndAttemptType, TransitionType DEF FinalizeKnown, LedgerTypeOK

(* Recovery, settling a missing input and a lease tick write well typed rows. *)
LEMMA AttemptStepType ==
  ASSUME LedgerTypeOK, NEW n \in Attempts, AttemptStep(n)
  PROVE  LedgerTypeOK'
<1> USE DEF LedgerTypeOK, clocks
<1>0. "failed" \in Ended /\ "expired" \in RunStates
  BY DEF Ended, RunStates
<1>1. CASE RecoverRun(n)
  <2>1. CASE SettleAbandonedClaim(n)
    BY <1>0, <1>1, <2>1, EndAttemptType DEF RecoverRun, SettleAbandonedClaim
  <2>2. CASE FinalizeKnown(n)
    BY <1>1, <2>2, FinalizeKnownType DEF RecoverRun
  <2>3. CASE RecoverUnknown(n)
    BY <1>1, <2>3, RecoverUnknownType DEF RecoverRun
  <2> QED BY <1>1, <2>1, <2>2, <2>3 DEF RecoverRun
<1>2. CASE SettleBeforeCallFailure(n)
  BY <1>0, <1>2, EndAttemptType, TransitionType, OutcomeTypes DEF SettleBeforeCallFailure
<1>3. CASE LeaseTick(n)
  <2>1. [att[n] EXCEPT !.lease = @ - 1] \in AttemptType
    BY <1>3, LeaseAssumption DEF LeaseTick, AttemptType
  <2>2. att' = [att EXCEPT ![n] = [att[n] EXCEPT !.lease = @ - 1]]
    BY <1>3 DEF LeaseTick, AttemptType
  <2> QED BY <1>3, <2>1, <2>2 DEF LeaseTick
<1> QED BY <1>1, <1>2, <1>3 DEF AttemptStep

(* The transactions of an execution write well typed rows. *)
LEMMA ExecutionStepType ==
  ASSUME LedgerTypeOK, NEW w \in Processes, NEW n \in Attempts, ExecutionStep(w, n)
  PROVE  LedgerTypeOK'
<1> USE DEF LedgerTypeOK, clocks
<1>0. att[n] \in AttemptType
  OBVIOUS
<1>1. CASE Claim(w, n)
  <2>1. [att[n] EXCEPT !.state = "claimed", !.token = w, !.lease = LeaseTTL] \in AttemptType
    <3>1. LeaseTTL \in 0..LeaseTTL
      BY LeaseAssumption
    <3> QED BY <1>0, <3>1 DEF AttemptType, AttemptStates
  <2>2. att' = [att EXCEPT ![n] = [att[n] EXCEPT !.state = "claimed", !.token = w, !.lease = LeaseTTL]]
    BY <1>0, <1>1 DEF Claim, AttemptType
  <2> QED BY <1>1, <2>1, <2>2 DEF Claim
<1>2. CASE MarkProviderCallStarted(w, n)
  <2>1. [att[n] EXCEPT !.state = "provider_call_started", !.started = TRUE] \in AttemptType
    BY <1>0 DEF AttemptType, AttemptStates
  <2>2. att' = [att EXCEPT ![n] = [att[n] EXCEPT !.state = "provider_call_started", !.started = TRUE]]
    BY <1>0, <1>2 DEF MarkProviderCallStarted, AttemptType
  <2>3. run' \in RunType
    BY <1>2 DEF MarkProviderCallStarted, RunType, RunStates
  <2> QED BY <1>2, <2>1, <2>2, <2>3 DEF MarkProviderCallStarted
<1>3. CASE RenewLease(w, n)
  <2>1. [att[n] EXCEPT !.lease = LeaseTTL] \in AttemptType
    BY <1>0, LeaseAssumption DEF AttemptType
  <2> QED BY <1>3, <2>1 DEF RenewLease
<1>4. ASSUME NEW o \in OutcomeType, PersistKnownResult(w, n, o)
      PROVE  LedgerTypeOK'
  <2>1. [att[n] EXCEPT !.outcome = o] \in AttemptType
    BY <1>0 DEF AttemptType
  <2> QED BY <1>4, <2>1 DEF PersistKnownResult
<1>5. CASE FinalizeKnownResult(w, n)
  BY <1>5, FinalizeKnownType DEF FinalizeKnownResult
<1>6. CASE SettleIndeterminate(w, n)
  BY <1>6, RecoverUnknownType DEF SettleIndeterminate
<1>7. CASE ExecuteNative(w, n)
  <2> DEFINE o == Returned(TRUE, TRUE)
             rec == Receipt("succeeded", "succeeded", FALSE)
  <2>0. o \in OutcomeType /\ rec \in ReceiptType
    BY OutcomeTypes, ReceiptTypes DEF Ended, RunStates
  <2> HIDE DEF o, rec
  <2>1. [att[n] EXCEPT !.state = "succeeded", !.started = TRUE, !.outcome = o, !.receipt = rec]
          \in AttemptType
    BY <1>0, <2>0 DEF AttemptType, AttemptStates
  <2>2. att' = [att EXCEPT ![n] = [att[n] EXCEPT !.state = "succeeded", !.started = TRUE,
                                                 !.outcome = o, !.receipt = rec]]
    BY <1>0, <1>7 DEF ExecuteNative, AttemptType, o, rec
  <2>3. run' \in RunType
    BY <1>7, <2>0 DEF ExecuteNative, RunType, RunStates, o
  <2>4. att' \in [Attempts -> AttemptType]
    BY <2>1, <2>2
  <2>5. outputs' \in SUBSET Attempts
    BY <1>7 DEF ExecuteNative
  <2> QED BY <1>7, <2>3, <2>4, <2>5 DEF ExecuteNative
<1> QED BY <1>1, <1>2, <1>3, <1>4, <1>5, <1>6, <1>7 DEF ExecutionStep, Execution

(* Every transaction on the rows keeps them well typed. *)
LEMMA LedgerStepType ==
  ASSUME LedgerTypeOK, LedgerStep \/ UNCHANGED ledger
  PROVE  LedgerTypeOK'
<1>1. CASE UNCHANGED ledger
  BY <1>1 DEF ledger, LedgerTypeOK
<1> QED
  BY <1>1, HumanStepType, OtherStepType, AttemptStepType, ExecutionStepType DEF LedgerStep

(* The rows of a run that has not been submitted are well typed. *)
LEMMA LedgerInitType ==
  ASSUME LedgerInit
  PROVE  LedgerTypeOK
<1>1. run \in RunType
  BY OutcomeTypes DEF LedgerInit, NoRun, RunType, RunStates
<1>2. approval \in ApprovalType
  BY DEF LedgerInit, NoApproval, NoApprovalReceipt, ApprovalType, ApprovalReceiptType, RunStates
<1>3. policy \in PolicyType
  BY PolicyAssumption DEF LedgerInit
<1>4. att \in [Attempts -> AttemptType]
  BY NewAttemptType DEF LedgerInit
<1> QED BY <1>1, <1>2, <1>3, <1>4 DEF LedgerInit, LedgerTypeOK

-----------------------------------------------------------------------------
(* Which rows can stand beside each other. *)

(* Which rows can stand beside each other: nothing before the run exists; an   *)
(* unreleased run has not been executed; a token is set by the claim and the   *)
(* start by the boundary; a started call takes the run out of its waiting      *)
(* states for good; and a one-shot operation, whose provider must not be       *)
(* called again, has no other attempt once it has started.                     *)
OneShot == policy.retry = "unsafe" \/ policy.provider = "app_runtime"
AbsentRun ==
  run.state = "absent" => /\ run.release = "none"
                          /\ approval.status = "none"
                          /\ approval.receipt.decision = "none"
                          /\ \A n \in Attempts : att[n].state = "absent"
UnreleasedRun ==
  run.release = "none" => run.state \in {"absent", "pending_approval", "cancelled", "expired"}
AttemptOrder ==
  \A n \in Attempts :
    /\ att[n].state \in {"absent", "pending"} => att[n].token = Nobody
    /\ att[n].state \in {"absent", "pending", "claimed"} => ~att[n].started
    /\ att[n].state = "provider_call_started" => att[n].started
StartedRun ==
  \A n \in Attempts :
    att[n].started => run.state \notin Waiting \cup {"absent", "cancelled"}
OneShotStartsOnce ==
  OneShot =>
    \A n \in Attempts : att[n].started =>
      /\ \A m \in Attempts \ {n} : ~att[m].started /\ att[m].state \notin Active
      /\ att[n].state \in Ended => run.state \in Closed

RowsInv == AbsentRun /\ UnreleasedRun /\ AttemptOrder /\ StartedRun /\ OneShotStartsOnce
           /\ OneActiveAttempt

(* What the two ways of writing attempts do to each row. *)
LEMMA EndAttemptEffect ==
  ASSUME LedgerTypeOK, NEW n \in Attempts, NEW s, NEW r, NEW again
  PROVE  LET a == EndAttempt(n, s, r, again)
         IN  /\ a[n].state = s
             /\ a[n].token = att[n].token
             /\ a[n].started = att[n].started
             /\ a[n].lease = att[n].lease
             /\ \A m \in Attempts \ {n} : a[m] = att[m]
<1>1. att \in [Attempts -> AttemptType] /\ att[n] \in AttemptType
  BY DEF LedgerTypeOK
<1> QED BY <1>1 DEF EndAttempt, AttemptType

(* There is one next attempt number. *)
LEMMA NextIsUnique ==
  ASSUME NEW a, NEW m \in Attempts, NEW n \in Attempts, IsNext(a, m), IsNext(a, n)
  PROVE  m = n
BY LimitAssumption DEF IsNext, Attempts

(* Creating an attempt changes the next attempt's row only, to a pending one. *)
LEMMA WithNewAttemptEffect ==
  ASSUME NEW a, NEW n \in Attempts
  PROVE  \/ ~IsNext(a, n) /\ WithNewAttempt(a)[n] = a[n]
         \/ /\ IsNext(a, n)
            /\ a[n].state = "absent"
            /\ WithNewAttempt(a)[n].state = "pending"
            /\ WithNewAttempt(a)[n].token = Nobody
            /\ WithNewAttempt(a)[n].started = FALSE
BY DEF WithNewAttempt, IsNext, NoAttempt

(* Where the state graph lets a run expire, become unknown, fail or succeed. *)
LEMMA LegalSources ==
  ASSUME NEW s \in RunStates
  PROVE  /\ Legal(s, "expired") => s \in Waiting \cup {"expired"}
         /\ Legal(s, "unknown_outcome") => s \in {"running", "waiting_external", "unknown_outcome"}
         /\ Legal(s, "succeeded") => s \in {"running", "waiting_external", "unknown_outcome", "succeeded"}
         /\ Legal(s, "failed") => s \in {"running", "waiting_external", "unknown_outcome", "failed"}
BY DEF Legal, StateTransitions, RunStates, Waiting

(* transition() writes the state it is asked for and leaves the release. *)
LEMMA TransitionEffect ==
  ASSUME NEW r \in RunType, NEW s, NEW o
  PROVE  Transition(r, s, o).state = s /\ Transition(r, s, o).release = r.release
BY DEF Transition, RunType

(* The run's state moves and the attempts stay. *)
LEMMA RunMovesRows ==
  ASSUME LedgerTypeOK, RowsInv,
         att' = att, policy' = policy, run'.release = run.release,
         \/ run'.state = run.state /\ (run.state # "absent" \/ approval' = approval)
         \/ run.state \in Waiting /\ run'.state \in {"cancelled", "expired"}
         \/ run.state = "unknown_outcome" /\ run'.state \in {"succeeded", "failed"}
  PROVE  RowsInv'
<1> USE DEF RowsInv
<1>1. AbsentRun'
  BY DEF AbsentRun
<1>2. UnreleasedRun'
  BY DEF UnreleasedRun
<1>3. AttemptOrder'
  BY DEF AttemptOrder
<1>4. StartedRun'
  BY DEF StartedRun, Waiting
<1>5. OneShotStartsOnce'
  BY DEF OneShot, OneShotStartsOnce, Closed, Terminal, Waiting
<1>6. OneActiveAttempt'
  BY DEF OneActiveAttempt, HasActive, Waiting
<1> QED BY <1>1, <1>2, <1>3, <1>4, <1>5, <1>6

(* Scheduling creates an attempt only beside ended ones, of an open run. *)
LEMMA ScheduleRows ==
  ASSUME LedgerTypeOK, RowsInv, NEW r \in RunType, Schedule(r), policy' = policy,
         r.state = run.state \/ (run.state = "absent" /\ r.state \in Waiting),
         r.state # "absent",
         r.release = "none" => r.state \in {"pending_approval", "cancelled", "expired"}
  PROVE  RowsInv'
<1> USE DEF RowsInv
<1>1. run'.state = r.state /\ run'.release = r.release
  BY DEF Schedule, RunType
<1>2. \/ att' = att
      \/ ~HasActive(att) /\ r.state \notin Closed /\ att' = WithNewAttempt(att)
  BY DEF Schedule
<1>3. ASSUME run.state = "absent", NEW n \in Attempts
      PROVE  ~att[n].started
  BY <1>3 DEF AbsentRun, AttemptOrder
<1>4. AbsentRun' /\ UnreleasedRun'
  BY <1>1 DEF AbsentRun, UnreleasedRun
<1>5. CASE att' = att
  <2>1. AttemptOrder'
    BY <1>5 DEF AttemptOrder
  <2>2. StartedRun'
    BY <1>1, <1>3, <1>5 DEF StartedRun
  <2>3. OneShotStartsOnce'
    BY <1>1, <1>3, <1>5 DEF OneShot, OneShotStartsOnce
  <2>4. OneActiveAttempt'
    BY <1>1, <1>5 DEF OneActiveAttempt, HasActive, Waiting
  <2> QED BY <1>4, <2>1, <2>2, <2>3, <2>4
<1>6. CASE ~HasActive(att) /\ r.state \notin Closed /\ att' = WithNewAttempt(att)
  <2>1. \A n \in Attempts :
          \/ ~IsNext(att, n) /\ att'[n] = att[n]
          \/ /\ IsNext(att, n)
             /\ att[n].state = "absent"
             /\ att'[n].state = "pending" /\ att'[n].token = Nobody /\ att'[n].started = FALSE
    BY <1>6, WithNewAttemptEffect
  <2>2. AttemptOrder'
    BY <2>1 DEF AttemptOrder
  <2>3. StartedRun'
    BY <1>1, <1>3, <2>1 DEF StartedRun
  <2>4. OneShot => \A n \in Attempts : ~att[n].started
    <3>1. SUFFICES ASSUME OneShot, NEW n \in Attempts, att[n].started PROVE FALSE
      OBVIOUS
    <3>2. att[n].state \notin Active
      BY <1>6 DEF HasActive
    <3>3. att[n].state \in Ended
      BY <3>1, <3>2 DEF AttemptOrder, LedgerTypeOK, AttemptType, AttemptStates, Active, Ended
    <3> QED BY <1>3, <1>6, <3>1, <3>3 DEF OneShot, OneShotStartsOnce
  <2>5. OneShotStartsOnce'
    BY <2>1, <2>4 DEF OneShot, OneShotStartsOnce
  <2>6. OneActiveAttempt'
    <3>1. \A n \in Attempts : att'[n].state \in Active => IsNext(att, n)
      BY <1>6, <2>1 DEF HasActive
    <3>2. \A m, n \in Attempts : att'[m].state \in Active /\ att'[n].state \in Active => m = n
      BY <3>1, NextIsUnique
    <3> QED BY <1>1, <1>6, <3>2 DEF OneActiveAttempt, Closed, Terminal
  <2> QED BY <1>4, <2>2, <2>3, <2>5, <2>6
<1> QED BY <1>2, <1>5, <1>6

(* An attempt ends and the run closes with it, whatever else is written. *)
LEMMA ClosedRows ==
  ASSUME LedgerTypeOK, RowsInv, NEW n \in Attempts, att[n].state \in Leased,
         att'[n].state \in Ended, att'[n].token = att[n].token, att'[n].started = att[n].started,
         \A m \in Attempts \ {n} : att'[m] = att[m],
         policy' = policy, run'.release = run.release,
         run'.state \in Closed \ {"cancelled"},
         run'.state = "expired" \/ run.release # "none"
  PROVE  RowsInv'
<1> USE DEF RowsInv
<1>2. AbsentRun' /\ UnreleasedRun'
  BY DEF AbsentRun, UnreleasedRun, Closed, Terminal
<1>3. AttemptOrder'
  BY DEF AttemptOrder, Ended
<1>4. StartedRun'
  BY DEF StartedRun, Closed, Terminal, Waiting
<1>5. \A m \in Attempts : att'[m].state \notin Active
  BY DEF OneActiveAttempt, Leased, Active, Ended
<1>6. OneShotStartsOnce'
  BY <1>5 DEF OneShot, OneShotStartsOnce
<1>7. OneActiveAttempt'
  BY <1>5 DEF OneActiveAttempt, HasActive
<1> QED BY <1>2, <1>3, <1>4, <1>6, <1>7

(* Ending an attempt with its receipt is one way of doing so. *)
LEMMA CloseRows ==
  ASSUME LedgerTypeOK, RowsInv, NEW n \in Attempts, att[n].state \in Leased,
         NEW s \in Ended, NEW r, NEW again, att' = EndAttempt(n, s, r, again),
         policy' = policy, run'.release = run.release,
         run'.state \in Closed \ {"cancelled"},
         run'.state = "expired" \/ run.release # "none"
  PROVE  RowsInv'
BY EndAttemptEffect, ClosedRows

(* An attempt ends and its retry is created. *)
LEMMA RetryRows ==
  ASSUME LedgerTypeOK, RowsInv, NEW n \in Attempts, att[n].state \in Leased, MayRetry(n),
         NEW s \in Ended, NEW r, NEW again, att' = WithNewAttempt(EndAttempt(n, s, r, again)),
         policy' = policy, run' = run
  PROVE  RowsInv'
<1> USE DEF RowsInv
<1> DEFINE a == EndAttempt(n, s, r, again)
<1>1. /\ a[n].state = s
      /\ a[n].token = att[n].token
      /\ a[n].started = att[n].started
      /\ \A m \in Attempts \ {n} : a[m] = att[m]
  BY EndAttemptEffect
<1>2. \A m \in Attempts :
        \/ ~IsNext(a, m) /\ att'[m] = a[m]
        \/ /\ IsNext(a, m)
           /\ a[m].state = "absent"
           /\ att'[m].state = "pending" /\ att'[m].token = Nobody /\ att'[m].started = FALSE
  BY WithNewAttemptEffect
<1> HIDE DEF a
<1>3. \A m \in Attempts : a[m].state \notin Active
  BY <1>1 DEF OneActiveAttempt, Leased, Active, Ended
<1>4. run.state \notin {"absent", "succeeded", "failed", "unknown_outcome"}
  BY DEF AbsentRun, OneActiveAttempt, HasActive, Leased, Active
<1>5. AbsentRun' /\ UnreleasedRun'
  BY <1>4 DEF AbsentRun, UnreleasedRun
<1>6. AttemptOrder'
  <2>1. ASSUME NEW m \in Attempts
        PROVE  /\ a[m].state \in {"absent", "pending"} => a[m].token = Nobody
               /\ a[m].state \in {"absent", "pending", "claimed"} => ~a[m].started
               /\ a[m].state = "provider_call_started" => a[m].started
    BY <1>1 DEF AttemptOrder, Ended
  <2> QED BY <1>2, <2>1 DEF AttemptOrder
<1>7. StartedRun'
  BY <1>1, <1>2 DEF StartedRun
<1>8. OneShotStartsOnce'
  <2>1. OneShot => \A m \in Attempts : ~att[m].started
    BY DEF MayRetry, AttemptOrder, OneShot, OneShotStartsOnce, Leased, Active
  <2> QED BY <1>1, <1>2, <2>1 DEF OneShot, OneShotStartsOnce
<1>9. OneActiveAttempt'
  <2>1. \A m \in Attempts : att'[m].state \in Active => IsNext(a, m)
    BY <1>2, <1>3
  <2>2. \A m, k \in Attempts : att'[m].state \in Active /\ att'[k].state \in Active => m = k
    BY <2>1, NextIsUnique
  <2> QED BY <1>4, <2>2 DEF OneActiveAttempt
<1> QED BY <1>5, <1>6, <1>7, <1>8, <1>9

(* Intake and the human decisions preserve the rows' invariant. *)
LEMMA HumanStepRows ==
  ASSUME LedgerTypeOK, RowsInv, HumanStep
  PROVE  RowsInv'
<1>0. run \in RunType
  BY DEF LedgerTypeOK
<1>1. CASE Submit
  <2>1. /\ SubmittedRun \in RunType
        /\ SubmittedRun.state \in Waiting
        /\ SubmittedRun.release = "none" => SubmittedRun.state = "pending_approval"
    BY OutcomeTypes DEF SubmittedRun, NoRun, RunType, RunStates, Waiting
  <2> QED BY <1>1, <2>1, ScheduleRows DEF Submit, Waiting
<1>2. CASE Cancel
  BY <1>0, <1>2, TransitionEffect, RunMovesRows DEF Cancel, RunType, Waiting
<1>3. ASSUME NEW a \in Approvers, ApproveFirst(a)
      PROVE  RowsInv'
  <2>1. Schedule(ApprovedRun) /\ policy' = policy /\ run.state = "pending_approval"
    BY <1>3 DEF ApproveFirst
  <2> QED BY <2>1, ApprovedRunFields, ScheduleRows
<1>4. ASSUME NEW a \in Approvers, ApproveAgain(a)
      PROVE  RowsInv'
  BY <1>0, <1>4, ScheduleRows DEF ApproveAgain, RowsInv, AbsentRun
<1>5. ASSUME NEW a \in Approvers, ApproveTooLate(a)
      PROVE  RowsInv'
  BY <1>0, <1>5, TransitionEffect, RunMovesRows DEF ApproveTooLate, Waiting
<1>6. ASSUME NEW a \in Approvers, Reject(a)
      PROVE  RowsInv'
  <2>1. run.state # "absent"
    BY <1>6 DEF Reject, RowsInv, AbsentRun
  <2> QED BY <1>0, <1>6, <2>1, TransitionEffect, RunMovesRows
          DEF Reject, RejectReleased, RejectClosed, RejectFirst, Waiting
<1>7. ASSUME NEW s \in {"succeeded", "failed"}, ReconcileUnknown(s)
      PROVE  RowsInv'
  <2> DEFINE o == Returned(s = "succeeded", FALSE)
  <2>1. /\ att' = att /\ policy' = policy /\ run.state = "unknown_outcome"
        /\ run' = Transition(run, s, o)
    BY <1>7 DEF ReconcileUnknown
  <2> HIDE DEF o
  <2>2. run'.state = s /\ run'.release = run.release
    BY <1>0, <2>1, TransitionEffect
  <2> QED BY <2>1, <2>2, RunMovesRows
<1> QED BY <1>1, <1>2, <1>3, <1>4, <1>5, <1>6, <1>7 DEF HumanStep

(* Retention, an expiring claim and the clocks preserve the rows' invariant. *)
LEMMA OtherStepRows ==
  ASSUME LedgerTypeOK, RowsInv, OtherStep
  PROVE  RowsInv'
<1>0. run \in RunType /\ run.state \in RunStates
  BY DEF LedgerTypeOK, RunType
<1>1. CASE ClaimExpiresRun
  <2>1. run.state \in Waiting
    BY <1>0, <1>1, LegalSources DEF ClaimExpiresRun, ClaimOpen, Closed, Terminal
  <2> QED BY <1>0, <1>1, <2>1, TransitionEffect, RunMovesRows DEF ClaimExpiresRun
<1>2. CASE JobSettled
  BY <1>2, RunMovesRows DEF JobSettled
<1>3. CASE Purge
  <2>1. /\ run'.release = run.release
        /\ \/ run'.state = run.state
           \/ run.state \in Waiting /\ run'.state = "expired"
    BY <1>0, <1>3 DEF Purge, PurgedRun, RunType
  <2> QED BY <1>3, <2>1, RunMovesRows DEF Purge
<1>4. CASE InputExpires \/ ResultExpires \/ Revoke
  BY <1>4, RunMovesRows DEF InputExpires, ResultExpires, Revoke, rows
<1>5. CASE PrepareRows
  BY <1>0, <1>5, ScheduleRows DEF PrepareRows, RowsInv, UnreleasedRun
<1> QED BY <1>1, <1>2, <1>3, <1>4, <1>5 DEF OtherStep

(* FinalizeKnown and RecoverUnknown, the two ways of ending a leased attempt. *)
LEMMA FinalizeKnownRows ==
  ASSUME LedgerTypeOK, RowsInv, NEW n \in Attempts, att[n].state \in Leased,
         FinalizeKnown(n), policy' = policy
  PROVE  RowsInv'
<1> DEFINE s == KnownState(att[n].outcome)
<1>1. s \in {"succeeded", "failed"}
  BY DEF KnownState
<1>2. run \in RunType /\ run.state \in RunStates
  BY DEF LedgerTypeOK, RunType
<1>3. /\ att' = EndAttempt(n, s, s, FALSE)
      /\ run' = Transition(run, s, att[n].outcome)
      /\ Legal(run.state, s)
  BY DEF FinalizeKnown, FinalizeCommits
<1> HIDE DEF s
<1>4. run'.state = s /\ run'.release = run.release
  BY <1>2, <1>3, TransitionEffect
<1>5. run.release # "none"
  BY <1>1, <1>2, <1>3, LegalSources DEF RowsInv, UnreleasedRun
<1>6. s \in Ended /\ s \in Closed \ {"cancelled"}
  BY <1>1 DEF Ended, Closed, Terminal
<1> QED BY <1>3, <1>4, <1>5, <1>6, CloseRows

(* Recovery without a known result preserves the rows' invariant. *)
LEMMA RecoverUnknownRows ==
  ASSUME LedgerTypeOK, RowsInv, NEW n \in Attempts, att[n].state \in Leased,
         RecoverUnknown(n), policy' = policy
  PROVE  RowsInv'
<1> DEFINE s == LostState(n)
<1>1. s \in {"failed", "unknown_outcome"}
  BY DEF LostState
<1>2. run \in RunType /\ run.state \in RunStates
  BY DEF LedgerTypeOK, RunType
<1>3. CASE RetryLost(n)
  <2>1. /\ att' = WithNewAttempt(EndAttempt(n, s, run.state, TRUE))
        /\ run' = run
        /\ MayRetry(n)
    BY <1>3 DEF RetryLost, CanRetry
  <2>2. s \in Ended
    BY <1>1 DEF Ended
  <2> HIDE DEF s
  <2> QED BY <2>1, <2>2, RetryRows
<1>4. CASE CloseLost(n)
  <2> DEFINE o == IF s = "failed" THEN NotAttempted ELSE UnknownOutcome
  <2>1. att' = EndAttempt(n, s, s, FALSE) /\ run' = Transition(run, s, o)
    BY <1>4 DEF CloseLost
  <2>2. run.release # "none"
    <3>1. CASE NativeUnstarted(n)
      BY <3>1 DEF NativeUnstarted
    <3>2. CASE ~NativeUnstarted(n)
      <4>1. Legal(run.state, s)
        BY <1>4, <3>2 DEF CloseLost, LostCommits
      <4> HIDE DEF s
      <4> QED BY <1>1, <1>2, <4>1, LegalSources DEF RowsInv, UnreleasedRun
    <3> QED BY <3>1, <3>2
  <2> HIDE DEF s, o
  <2>3. run'.state = s /\ run'.release = run.release
    BY <1>2, <2>1, TransitionEffect
  <2>4. s \in Ended /\ s \in Closed \ {"cancelled"}
    BY <1>1 DEF Ended, Closed, Terminal
  <2> QED BY <2>1, <2>2, <2>3, <2>4, CloseRows
<1> QED BY <1>3, <1>4 DEF RecoverUnknown

(* Lease, outcome and payload do not matter to the rows' invariant. *)
LEMMA SameAttemptsRows ==
  ASSUME LedgerTypeOK, RowsInv, policy' = policy, run' = run, approval' = approval,
         \A m \in Attempts : /\ att'[m].state = att[m].state
                             /\ att'[m].token = att[m].token
                             /\ att'[m].started = att[m].started
  PROVE  RowsInv'
<1> USE DEF RowsInv
<1>1. AbsentRun' /\ UnreleasedRun'
  BY DEF AbsentRun, UnreleasedRun
<1>2. AttemptOrder' /\ StartedRun'
  BY DEF AttemptOrder, StartedRun
<1>3. OneShotStartsOnce'
  BY DEF OneShot, OneShotStartsOnce
<1>4. OneActiveAttempt'
  BY DEF OneActiveAttempt, HasActive
<1> QED BY <1>1, <1>2, <1>3, <1>4

(* Recovery, settling and lease ticks preserve the rows' invariant. *)
LEMMA AttemptStepRows ==
  ASSUME LedgerTypeOK, RowsInv, NEW n \in Attempts, AttemptStep(n)
  PROVE  RowsInv'
<1>0. /\ run \in RunType /\ run.state \in RunStates
      /\ att \in [Attempts -> AttemptType] /\ att[n] \in AttemptType
  BY DEF LedgerTypeOK, RunType
<1>a. "failed" \in Ended /\ "expired" \in Closed \ {"cancelled"}
  BY DEF Ended, Closed, Terminal
<1>1. CASE RecoverRun(n)
  <2>0. att[n].state \in Leased /\ policy' = policy
    BY <1>1 DEF RecoverRun, Lapsed
  <2>1. CASE AbandonedByExpiry(n) /\ SettleAbandonedClaim(n)
    BY <1>a, <2>0, <2>1, CloseRows DEF AbandonedByExpiry, SettleAbandonedClaim
  <2>2. CASE ~AbandonedByExpiry(n) /\ IsKnown(n) /\ FinalizeKnown(n)
    BY <1>1, <2>0, <2>2, FinalizeKnownRows
  <2>3. CASE ~AbandonedByExpiry(n) /\ ~IsKnown(n) /\ RecoverUnknown(n)
    BY <1>1, <2>0, <2>3, RecoverUnknownRows
  <2>4. IsKnown(n) => ~AbandonedByExpiry(n)
    BY DEF IsKnown, AbandonedByExpiry
  <2> QED BY <1>1, <2>1, <2>2, <2>3, <2>4 DEF RecoverRun
<1>2. CASE SettleBeforeCallFailure(n)
  <2>1. /\ att' = EndAttempt(n, "failed", "expired", FALSE) /\ policy' = policy
        /\ run' = Transition(run, "expired", NotAttempted)
        /\ att[n].state \in Leased
    BY <1>2 DEF SettleBeforeCallFailure, SettleBeforeCallCommits, Leased
  <2>2. run'.state = "expired" /\ run'.release = run.release
    BY <1>0, <2>1, TransitionEffect
  <2> QED BY <1>a, <2>1, <2>2, CloseRows
<1>3. CASE LeaseTick(n)
  <2>1. \A m \in Attempts : /\ att'[m].state = att[m].state
                            /\ att'[m].token = att[m].token
                            /\ att'[m].started = att[m].started
    BY <1>0, <1>3 DEF LeaseTick, AttemptType
  <2> QED BY <1>3, <2>1, SameAttemptsRows DEF LeaseTick
<1> QED BY <1>1, <1>2, <1>3 DEF AttemptStep

(* Claim, start, persist, finalize and native preserve the rows' invariant. *)
LEMMA ExecutionStepRows ==
  ASSUME LedgerTypeOK, RowsInv, NEW w \in Processes, NEW n \in Attempts, ExecutionStep(w, n)
  PROVE  RowsInv'
<1>0. /\ run \in RunType /\ run.state \in RunStates
      /\ att \in [Attempts -> AttemptType] /\ att[n] \in AttemptType
  BY DEF LedgerTypeOK, RunType
<1>1. CASE Claim(w, n)
  <2>1. /\ att[n].state = "pending"
        /\ att'[n].state = "claimed" /\ att'[n].started = att[n].started
        /\ \A m \in Attempts \ {n} : att'[m] = att[m]
        /\ run' = run /\ policy' = policy /\ approval' = approval
    BY <1>0, <1>1 DEF Claim, AttemptType
  <2> USE DEF RowsInv
  <2>2. AbsentRun' /\ UnreleasedRun'
    BY <2>1 DEF AbsentRun, UnreleasedRun
  <2>3. AttemptOrder' /\ StartedRun'
    BY <2>1 DEF AttemptOrder, StartedRun
  <2>4. OneShotStartsOnce'
    BY <2>1 DEF OneShot, OneShotStartsOnce, AttemptOrder, Active, Ended
  <2>5. OneActiveAttempt'
    BY <2>1 DEF OneActiveAttempt, HasActive, Active
  <2> QED BY <2>2, <2>3, <2>4, <2>5
<1>2. CASE MarkProviderCallStarted(w, n)
  <2>1. /\ att[n].state = "claimed"
        /\ att'[n].state = "provider_call_started" /\ att'[n].started = TRUE
        /\ att'[n].token = att[n].token
        /\ \A m \in Attempts \ {n} : att'[m] = att[m]
        /\ policy' = policy /\ approval' = approval
        /\ run.release # "none" /\ run.state # "cancelled"
    BY <1>0, <1>2 DEF MarkProviderCallStarted, MayStart, AttemptType
  <2>2. /\ run'.release = run.release
        /\ run'.state = IF run.state \in Waiting THEN "running" ELSE run.state
    BY <1>0, <1>2 DEF MarkProviderCallStarted, RunType
  <2> USE DEF RowsInv
  <2>3. run.state \notin {"absent", "cancelled", "succeeded", "failed", "unknown_outcome"}
    BY <2>1 DEF AbsentRun, OneActiveAttempt, HasActive, Active
  <2>4. AbsentRun' /\ UnreleasedRun'
    BY <2>1, <2>2, <2>3 DEF AbsentRun, UnreleasedRun
  <2>5. AttemptOrder'
    BY <2>1 DEF AttemptOrder
  <2>6. StartedRun'
    BY <2>1, <2>2, <2>3 DEF StartedRun, Waiting
  <2>7. OneShotStartsOnce'
    <3>1. \A m \in Attempts \ {n} : att[m].state \notin Active
      BY <2>1 DEF OneActiveAttempt, Active
    <3>2. OneShot => \A m \in Attempts : ~att[m].started
      BY <2>1 DEF OneShot, OneShotStartsOnce, AttemptOrder, Active
    <3> QED BY <2>1, <3>1, <3>2 DEF OneShot, OneShotStartsOnce, Ended
  <2>8. OneActiveAttempt'
    BY <2>1, <2>2, <2>3 DEF OneActiveAttempt, HasActive, Active
  <2> QED BY <2>4, <2>5, <2>6, <2>7, <2>8
<1>3. CASE RenewLease(w, n)
  <2>1. \A m \in Attempts : /\ att'[m].state = att[m].state
                            /\ att'[m].token = att[m].token
                            /\ att'[m].started = att[m].started
    BY <1>0, <1>3 DEF RenewLease, AttemptType
  <2> QED BY <1>3, <2>1, SameAttemptsRows DEF RenewLease
<1>4. ASSUME NEW o \in OutcomeType, PersistKnownResult(w, n, o)
      PROVE  RowsInv'
  <2>1. \A m \in Attempts : /\ att'[m].state = att[m].state
                            /\ att'[m].token = att[m].token
                            /\ att'[m].started = att[m].started
    BY <1>0, <1>4 DEF PersistKnownResult, AttemptType
  <2> QED BY <1>4, <2>1, SameAttemptsRows DEF PersistKnownResult
<1>5. CASE FinalizeKnownResult(w, n)
  BY <1>5, FinalizeKnownRows DEF FinalizeKnownResult, Holds, Leased
<1>6. CASE SettleIndeterminate(w, n)
  BY <1>6, RecoverUnknownRows DEF SettleIndeterminate, Holds, Leased
<1>7. CASE ExecuteNative(w, n)
  <2>1. /\ att[n].state = "claimed"
        /\ att'[n].state = "succeeded" /\ att'[n].token = att[n].token
        /\ \A m \in Attempts \ {n} : att'[m] = att[m]
        /\ policy' = policy /\ run.release # "none" /\ run'.release = run.release
        /\ run'.state = "succeeded"
    BY <1>0, <1>7 DEF ExecuteNative, NativeReady, AttemptType, RunType
  <2> USE DEF RowsInv
  <2>2. AbsentRun' /\ UnreleasedRun'
    BY <2>1 DEF AbsentRun, UnreleasedRun
  <2>3. AttemptOrder' /\ StartedRun'
    BY <2>1 DEF AttemptOrder, StartedRun, Waiting
  <2>4. \A m \in Attempts : att'[m].state \notin Active
    BY <2>1 DEF OneActiveAttempt, Active
  <2>5. OneShotStartsOnce'
    <3>1. OneShot => \A m \in Attempts : ~att[m].started
      BY <2>1 DEF OneShot, OneShotStartsOnce, AttemptOrder, Active
    <3> QED BY <2>1, <2>4, <3>1 DEF OneShot, OneShotStartsOnce, Closed, Terminal
  <2>6. OneActiveAttempt'
    BY <2>4 DEF OneActiveAttempt, HasActive
  <2> QED BY <2>2, <2>3, <2>5, <2>6
<1> QED BY <1>1, <1>2, <1>3, <1>4, <1>5, <1>6, <1>7 DEF ExecutionStep, Execution

(* Every transaction preserves the rows' invariant. *)
LEMMA LedgerStepRows ==
  ASSUME LedgerTypeOK, RowsInv, LedgerStep \/ UNCHANGED ledger
  PROVE  RowsInv'
<1>1. CASE UNCHANGED ledger
  BY <1>1, SameAttemptsRows DEF ledger
<1> QED
  BY <1>1, HumanStepRows, OtherStepRows, AttemptStepRows, ExecutionStepRows DEF LedgerStep

(* ApprovalAgrees: only human steps write the approval row, and no other step  *)
(* releases a run or brings it back from a cancelled or expired state.         *)
LEMMA HumanStepApproval ==
  ASSUME LedgerTypeOK, RowsInv, ApprovalAgrees, HumanStep
  PROVE  ApprovalAgrees'
<1>0. run \in RunType /\ approval \in ApprovalType
  BY DEF LedgerTypeOK
<1> USE DEF ApprovalAgrees
<1>1. CASE Submit
  <2>1. run'.release \in {"none", "policy_satisfied"}
    BY <1>1 DEF Submit, Schedule, SubmittedRun, NoRun
  <2>2. approval'.status \in {"none", "pending"} /\ approval'.receipt.decision = "none"
    BY <1>1 DEF Submit, NoApproval, NoApprovalReceipt
  <2> QED BY <2>1, <2>2
<1>2. CASE Cancel
  BY <1>0, <1>2, TransitionEffect DEF Cancel, RunType, Waiting
<1>3. ASSUME NEW a \in Approvers, ApproveFirst(a)
      PROVE  ApprovalAgrees'
  <2>1. run'.release = "approved"
    BY <1>3, ApprovedRunFields DEF ApproveFirst, Schedule, RunType
  <2> QED BY <1>3, <2>1 DEF ApproveFirst, ApprovalReceipt
<1>4. ASSUME NEW a \in Approvers, ApproveAgain(a)
      PROVE  ApprovalAgrees'
  <2>1. run'.release = "approved"
    BY <1>0, <1>4 DEF ApproveAgain, Schedule, RunType
  <2> QED BY <1>4, <2>1 DEF ApproveAgain, ApprovalReceipt
<1>5. ASSUME NEW a \in Approvers, ApproveTooLate(a)
      PROVE  ApprovalAgrees'
  <2>0. run.release = "none" /\ run.state \in {"pending_approval", "cancelled", "expired"}
    BY <1>5 DEF ApproveTooLate, RowsInv, UnreleasedRun
  <2>a. approval.receipt.decision \in {"none", "approved", "rejected", "expired"}
    BY <1>0 DEF ApprovalType, ApprovalReceiptType
  <2>1. CASE run.state = "cancelled"
    <3>1. /\ approval'.status = "rejected" /\ approval'.receipt = approval.receipt
          /\ run' = run
      BY <1>0, <1>5, <2>1 DEF ApproveTooLate, ApprovalType
    <3> QED BY <2>0, <2>1, <2>a, <3>1
  <2>2. CASE run.state = "expired"
    <3>1. /\ approval'.status = "expired" /\ approval'.receipt = approval.receipt
          /\ run' = run
      BY <1>0, <1>5, <2>2 DEF ApproveTooLate, ApprovalType
    <3> QED BY <2>0, <2>2, <2>a, <3>1
  <2>3. CASE run.state = "pending_approval"
    <3> DEFINE rec == ApprovalReceipt("expired", "expired", a)
    <3>0. rec.decision = "expired"
      BY DEF ApprovalReceipt
    <3>a. /\ approval' = [approval EXCEPT !.status = "expired", !.receipt = rec]
          /\ run' = Transition(run, "expired", NotAttempted)
      BY <1>5, <2>3 DEF ApproveTooLate
    <3> HIDE DEF rec
    <3>1. /\ approval'.status = "expired" /\ approval'.receipt.decision = "expired"
          /\ run' = Transition(run, "expired", NotAttempted)
      BY <1>0, <3>0, <3>a DEF ApprovalType
    <3>2. run'.state = "expired" /\ run'.release = "none"
      BY <1>0, <2>0, <3>1, TransitionEffect
    <3> QED BY <3>1, <3>2
  <2> QED BY <2>0, <2>1, <2>2, <2>3
<1>6. ASSUME NEW a \in Approvers, Reject(a)
      PROVE  ApprovalAgrees'
  <2>1. CASE RejectReleased(a)
    BY <1>0, <2>1 DEF RejectReleased, ApprovalType
  <2>2. CASE RejectClosed
    <3>0. run.release = "none" /\ run.state \in {"pending_approval", "cancelled", "expired"}
      BY <1>6, <2>2 DEF Reject, RejectClosed, RowsInv, UnreleasedRun, AbsentRun
    <3>1. approval.receipt.decision \in {"none", "approved", "rejected", "expired"}
      BY <1>0 DEF ApprovalType, ApprovalReceiptType
    <3>2. /\ approval'.receipt = approval.receipt /\ run' = run
          /\ \/ run.state = "cancelled" /\ approval'.status = "rejected"
             \/ run.state = "expired" /\ approval'.status = "expired"
      BY <1>0, <2>2, <3>0 DEF RejectClosed, ApprovalType
    <3> QED BY <3>0, <3>1, <3>2
  <2>3. CASE RejectFirst(a)
    BY <1>0, <2>3, TransitionEffect DEF RejectFirst, ApprovalReceipt, ApprovalType
  <2> QED BY <1>6, <2>1, <2>2, <2>3 DEF Reject
<1>7. ASSUME NEW s \in {"succeeded", "failed"}, ReconcileUnknown(s)
      PROVE  ApprovalAgrees'
  <2> DEFINE o == Returned(s = "succeeded", FALSE)
  <2>1. approval' = approval /\ run.state = "unknown_outcome" /\ run' = Transition(run, s, o)
    BY <1>7 DEF ReconcileUnknown
  <2> HIDE DEF o
  <2>2. run'.release = run.release
    BY <1>0, <2>1, TransitionEffect
  <2> QED BY <2>1, <2>2
<1> QED BY <1>1, <1>2, <1>3, <1>4, <1>5, <1>6, <1>7 DEF HumanStep

(* The executor and maintenance never touch the approval or the release, and   *)
(* leave a cancelled or expired run as it is.                                  *)
LEMMA EndingKeepsRun ==
  ASSUME LedgerTypeOK, NEW n \in Attempts,
         FinalizeKnown(n) \/ RecoverUnknown(n)
  PROVE  /\ run'.release = run.release
         /\ run.state \in {"cancelled", "expired"} => run'.state = run.state
<1>0. run \in RunType /\ run.state \in RunStates
  BY DEF LedgerTypeOK, RunType
<1>1. CASE FinalizeKnown(n)
  <2> DEFINE s == KnownState(att[n].outcome)
  <2>1. s \in {"succeeded", "failed"}
    BY DEF KnownState
  <2>2. run' = Transition(run, s, att[n].outcome) /\ Legal(run.state, s)
    BY <1>1 DEF FinalizeKnown, FinalizeCommits
  <2> HIDE DEF s
  <2> QED BY <1>0, <2>1, <2>2, LegalSources, TransitionEffect
<1>2. CASE RetryLost(n)
  BY <1>2 DEF RetryLost
<1>3. CASE CloseLost(n)
  <2> DEFINE s == LostState(n)
             o == IF s = "failed" THEN NotAttempted ELSE UnknownOutcome
  <2>1. s \in {"failed", "unknown_outcome"}
    BY DEF LostState
  <2>2. run' = Transition(run, s, o)
    BY <1>3 DEF CloseLost
  <2>3. run.state \in Waiting \/ Legal(run.state, s)
    BY <1>3 DEF CloseLost, LostCommits, NativeUnstarted
  <2> HIDE DEF s, o
  <2> QED BY <1>0, <2>1, <2>2, <2>3, LegalSources, TransitionEffect DEF Waiting
<1> QED BY <1>1, <1>2, <1>3 DEF RecoverUnknown

(* No transaction but a human's touches approval, release or a cancelled run. *)
LEMMA OthersKeepApproval ==
  ASSUME LedgerTypeOK, LedgerStep, ~HumanStep
  PROVE  /\ approval' = approval
         /\ run'.release = run.release
         /\ run.state \in {"cancelled", "expired"} => run'.state = run.state
<1>0. run \in RunType /\ run.state \in RunStates
  BY DEF LedgerTypeOK, RunType
<1>1. CASE OtherStep
  <2>1. CASE ClaimExpiresRun
    BY <1>0, <2>1, TransitionEffect DEF ClaimExpiresRun, ClaimOpen, Closed, Terminal
  <2>2. CASE PrepareRows
    BY <1>0, <2>2 DEF PrepareRows, Schedule, RunType
  <2>3. CASE JobSettled
    BY <2>3 DEF JobSettled
  <2>4. CASE Purge
    BY <1>0, <2>4 DEF Purge, PurgedRun, RunType, Waiting
  <2>5. CASE InputExpires \/ ResultExpires \/ Revoke
    BY <2>5 DEF InputExpires, ResultExpires, Revoke, rows
  <2> QED BY <1>1, <2>1, <2>2, <2>3, <2>4, <2>5 DEF OtherStep
<1>2. ASSUME NEW n \in Attempts, AttemptStep(n)
      PROVE  /\ approval' = approval
             /\ run'.release = run.release
             /\ run.state \in {"cancelled", "expired"} => run'.state = run.state
  <2>1. CASE RecoverRun(n)
    <3>1. approval' = approval
      BY <2>1 DEF RecoverRun
    <3>2. run' = run \/ FinalizeKnown(n) \/ RecoverUnknown(n)
      BY <2>1 DEF RecoverRun, SettleAbandonedClaim
    <3> QED BY <3>1, <3>2, EndingKeepsRun
  <2>2. CASE SettleBeforeCallFailure(n)
    <3>1. /\ approval' = approval /\ run' = Transition(run, "expired", NotAttempted)
          /\ Legal(run.state, "expired")
      BY <2>2 DEF SettleBeforeCallFailure, SettleBeforeCallCommits
    <3> QED BY <1>0, <3>1, LegalSources, TransitionEffect DEF Waiting
  <2>3. CASE LeaseTick(n)
    BY <2>3 DEF LeaseTick
  <2> QED BY <1>2, <2>1, <2>2, <2>3 DEF AttemptStep
<1>3. ASSUME NEW w \in Processes, NEW n \in Attempts, ExecutionStep(w, n)
      PROVE  /\ approval' = approval
             /\ run'.release = run.release
             /\ run.state \in {"cancelled", "expired"} => run'.state = run.state
  <2>1. CASE Claim(w, n) \/ RenewLease(w, n) \/ \E o \in OutcomeType : PersistKnownResult(w, n, o)
    BY <2>1 DEF Claim, RenewLease, PersistKnownResult
  <2>2. CASE MarkProviderCallStarted(w, n)
    BY <1>0, <2>2 DEF MarkProviderCallStarted, RunType, Waiting
  <2>3. CASE FinalizeKnownResult(w, n)
    BY <2>3, EndingKeepsRun DEF FinalizeKnownResult
  <2>4. CASE SettleIndeterminate(w, n)
    BY <2>4, EndingKeepsRun DEF SettleIndeterminate
  <2>5. CASE ExecuteNative(w, n)
    BY <1>0, <2>5 DEF ExecuteNative, NativeReady, RunType, Waiting
  <2> QED BY <1>3, <2>1, <2>2, <2>3, <2>4, <2>5 DEF ExecutionStep, Execution
<1> QED BY <1>1, <1>2, <1>3 DEF LedgerStep

(* Every transaction keeps the approval row in agreement with the run. *)
LEMMA LedgerStepApproval ==
  ASSUME LedgerTypeOK, RowsInv, ApprovalAgrees, LedgerStep \/ UNCHANGED ledger
  PROVE  ApprovalAgrees'
<1>1. CASE UNCHANGED ledger
  BY <1>1 DEF ledger, ApprovalAgrees
<1>2. CASE HumanStep
  BY <1>2, HumanStepApproval
<1>3. CASE LedgerStep /\ ~HumanStep
  BY <1>3, OthersKeepApproval DEF ApprovalAgrees
<1> QED BY <1>1, <1>2, <1>3

(* A claim token, once set, and the start of a call are never taken back. *)
LEMMA TokensAndStartsPersist ==
  ASSUME LedgerTypeOK, RowsInv, LedgerStep \/ UNCHANGED ledger, NEW k \in Attempts
  PROVE  /\ att[k].token # Nobody => att'[k].token = att[k].token
         /\ att[k].started => att'[k].started
<1>0. att \in [Attempts -> AttemptType] /\ att[k] \in AttemptType
  BY DEF LedgerTypeOK
<1>a. att[k].state \in {"absent", "pending"} => att[k].token = Nobody /\ ~att[k].started
  BY DEF RowsInv, AttemptOrder
<1>1. ASSUME NEW r, Schedule(r)
      PROVE  /\ att[k].token # Nobody => att'[k].token = att[k].token
             /\ att[k].started => att'[k].started
  <2>1. att' = att \/ att' = WithNewAttempt(att)
    BY <1>1 DEF Schedule
  <2>2. \/ WithNewAttempt(att)[k] = att[k]
        \/ att[k].state = "absent"
    BY WithNewAttemptEffect
  <2> QED BY <1>a, <2>1, <2>2
<1>2. ASSUME NEW n \in Attempts, FinalizeKnown(n) \/ RecoverUnknown(n) \/ SettleAbandonedClaim(n)
                                 \/ SettleBeforeCallFailure(n)
      PROVE  /\ att[k].token # Nobody => att'[k].token = att[k].token
             /\ att[k].started => att'[k].started
  <2>1. PICK s, r, again : \/ att' = EndAttempt(n, s, r, again)
                           \/ att' = WithNewAttempt(EndAttempt(n, s, r, again)) /\ s \in Ended
    <3>1. LostState(n) \in Ended
      BY DEF LostState, Ended
    <3> QED BY <1>2, <3>1
            DEF FinalizeKnown, RecoverUnknown, RetryLost, CloseLost, SettleAbandonedClaim,
                SettleBeforeCallFailure
  <2> DEFINE a == EndAttempt(n, s, r, again)
  <2>2. /\ a[k].token = att[k].token
        /\ a[k].started = att[k].started
        /\ k # n => a[k] = att[k]
        /\ a[n].state = s
    BY EndAttemptEffect
  <2> HIDE DEF a
  <2>3. CASE att' = a
    BY <2>2, <2>3
  <2>4. CASE att' = WithNewAttempt(a) /\ s \in Ended
    <3>1. a[k].state = "absent" => k # n
      BY <2>2, <2>4 DEF Ended
    <3>2. \/ WithNewAttempt(a)[k] = a[k]
          \/ a[k].state = "absent"
      BY WithNewAttemptEffect
    <3>3. CASE WithNewAttempt(a)[k] = a[k]
      BY <2>2, <2>4, <3>3
    <3>4. CASE a[k].state = "absent"
      BY <1>a, <2>2, <3>1, <3>4
    <3> QED BY <3>2, <3>3, <3>4
  <2> QED BY <2>1, <2>3, <2>4 DEF a
<1>3. CASE att' = att
  BY <1>3
<1>4. CASE HumanStep
  BY <1>1, <1>3, <1>4 DEF HumanStep, Submit, Cancel, ApproveFirst, ApproveAgain, ApproveTooLate,
     Reject, ReconcileUnknown
<1>5. CASE OtherStep
  BY <1>1, <1>3, <1>5 DEF OtherStep, ClaimExpiresRun, PrepareRows, JobSettled, Purge,
     InputExpires, ResultExpires, Revoke, rows
<1>6. ASSUME NEW n \in Attempts, AttemptStep(n)
      PROVE  /\ att[k].token # Nobody => att'[k].token = att[k].token
             /\ att[k].started => att'[k].started
  <2>1. CASE LeaseTick(n)
    BY <1>0, <2>1 DEF LeaseTick, AttemptType
  <2> QED BY <1>2, <1>6, <2>1 DEF AttemptStep, RecoverRun
<1>7. ASSUME NEW w \in Processes, NEW n \in Attempts, ExecutionStep(w, n)
      PROVE  /\ att[k].token # Nobody => att'[k].token = att[k].token
             /\ att[k].started => att'[k].started
  <2>1. CASE Claim(w, n)
    BY <1>0, <1>a, <2>1 DEF Claim, AttemptType
  <2>2. CASE MarkProviderCallStarted(w, n)
    BY <1>0, <2>2 DEF MarkProviderCallStarted, AttemptType
  <2>3. CASE RenewLease(w, n) \/ \E o \in OutcomeType : PersistKnownResult(w, n, o)
    BY <1>0, <2>3 DEF RenewLease, PersistKnownResult, AttemptType
  <2>4. CASE ExecuteNative(w, n)
    BY <1>0, <2>4 DEF ExecuteNative, AttemptType
  <2> QED BY <1>2, <1>7, <2>1, <2>2, <2>3, <2>4
          DEF ExecutionStep, Execution, FinalizeKnownResult, SettleIndeterminate
<1>8. CASE UNCHANGED ledger
  BY <1>3, <1>8 DEF ledger
<1> QED BY <1>4, <1>5, <1>6, <1>7, <1>8 DEF LedgerStep

(* A transaction on the rows leaves ended attempts alone. *)
LEMMA TransactionsFreeze ==
  ASSUME LedgerTypeOK, LedgerStep \/ UNCHANGED ledger, NEW k \in Attempts
  PROVE  att[k].state \in Ended => att'[k] = att[k]
<1> DEFINE Kept == att[k].state \in Ended => att'[k] = att[k]
<1> USE DEF Leased, Ended
<1>0. att \in [Attempts -> AttemptType] /\ att[k] \in AttemptType
  BY DEF LedgerTypeOK
<1>1. CASE att' = att
  BY <1>1
<1>2. ASSUME NEW r, Schedule(r) PROVE Kept
  <2>1. att' = att \/ att' = WithNewAttempt(att)
    BY <1>2 DEF Schedule
  <2>2. WithNewAttempt(att)[k] = att[k] \/ att[k].state = "absent"
    BY WithNewAttemptEffect
  <2> QED BY <2>1, <2>2
<1>3. ASSUME NEW n \in Attempts, att[n].state \in Leased,
             FinalizeKnown(n) \/ RecoverUnknown(n) \/ SettleAbandonedClaim(n)
               \/ SettleBeforeCallFailure(n)
      PROVE  Kept
  <2>1. PICK s, r, again : \/ att' = EndAttempt(n, s, r, again)
                           \/ att' = WithNewAttempt(EndAttempt(n, s, r, again)) /\ s \in Ended
    <3>1. LostState(n) \in Ended
      BY DEF LostState
    <3> QED BY <1>3, <3>1
            DEF FinalizeKnown, RecoverUnknown, RetryLost, CloseLost, SettleAbandonedClaim,
                SettleBeforeCallFailure
  <2> DEFINE a == EndAttempt(n, s, r, again)
  <2>2. /\ k # n => a[k] = att[k]
        /\ a[n].state = s
    BY EndAttemptEffect
  <2>3. att' = a \/ (att' = WithNewAttempt(a) /\ s \in Ended)
    BY <2>1
  <2> HIDE DEF a
  <2>4. WithNewAttempt(a)[k] = a[k] \/ a[k].state = "absent"
    BY WithNewAttemptEffect
  <2>5. CASE k = n
    BY <1>3, <2>2, <2>3, <2>4, <2>5
  <2>6. CASE k # n
    BY <2>2, <2>3, <2>4, <2>6
  <2> QED BY <2>5, <2>6
<1>4. CASE HumanStep
  BY <1>1, <1>2, <1>4 DEF HumanStep, Submit, Cancel, ApproveFirst, ApproveAgain, ApproveTooLate,
     Reject, ReconcileUnknown
<1>5. CASE OtherStep
  BY <1>1, <1>2, <1>5 DEF OtherStep, ClaimExpiresRun, PrepareRows, JobSettled, Purge,
     InputExpires, ResultExpires, Revoke, rows
<1>6. ASSUME NEW n \in Attempts, AttemptStep(n) PROVE Kept
  <2>1. CASE LeaseTick(n)
    BY <1>0, <2>1 DEF LeaseTick, AttemptType
  <2>2. CASE RecoverRun(n)
    BY <1>3, <2>2 DEF RecoverRun, Lapsed
  <2>3. CASE SettleBeforeCallFailure(n)
    BY <1>3, <2>3 DEF SettleBeforeCallFailure, SettleBeforeCallCommits
  <2> QED BY <1>6, <2>1, <2>2, <2>3 DEF AttemptStep
<1>7. ASSUME NEW w \in Processes, NEW n \in Attempts, ExecutionStep(w, n) PROVE Kept
  <2>1. CASE Claim(w, n)
    BY <1>0, <2>1 DEF Claim, AttemptType
  <2>2. CASE MarkProviderCallStarted(w, n)
    BY <1>0, <2>2 DEF MarkProviderCallStarted, MayStart, AttemptType
  <2>3. CASE RenewLease(w, n)
    BY <1>0, <2>3 DEF RenewLease, AttemptType
  <2>4. CASE \E o \in OutcomeType : PersistKnownResult(w, n, o)
    BY <1>0, <2>4 DEF PersistKnownResult, Holds, AttemptType
  <2>5. CASE ExecuteNative(w, n)
    BY <1>0, <2>5 DEF ExecuteNative, NativeReady, AttemptType
  <2>6. CASE FinalizeKnownResult(w, n) \/ SettleIndeterminate(w, n)
    BY <1>3, <2>6 DEF FinalizeKnownResult, SettleIndeterminate, Holds
  <2> QED BY <1>7, <2>1, <2>2, <2>3, <2>4, <2>5, <2>6 DEF ExecutionStep, Execution
<1>8. CASE UNCHANGED ledger
  BY <1>1, <1>8 DEF ledger
<1> QED BY <1>4, <1>5, <1>6, <1>7, <1>8 DEF LedgerStep

-----------------------------------------------------------------------------
(* The run's state. *)

(* The state graph leaves no way out of a terminal state. *)
LEMMA LegalEnds ==
  ASSUME NEW s \in RunStates, NEW t, Legal(s, t), s \in Terminal
  PROVE  t = s
BY DEF Legal, StateTransitions, RunStates, Terminal

(* A closed run stays as it is; only an operator resolves an unknown outcome,  *)
(* with a receipt that names the state.                                        *)
RunMoves ==
  /\ run.state # "waiting_external" => run'.state # "waiting_external"
  /\ run.state \in Closed =>
       \/ run'.state = run.state /\ recon' = recon
       \/ run.state = "unknown_outcome" /\ run'.state = recon'

(* Ending a leased attempt leaves a closed run alone: an unknown outcome has   *)
(* no leased attempt.                                                          *)
LEMMA EndingMoves ==
  ASSUME LedgerTypeOK, RowsInv, NEW n \in Attempts, att[n].state \in Leased, recon' = recon,
         FinalizeKnown(n) \/ RecoverUnknown(n)
  PROVE  RunMoves
<1>0. run \in RunType /\ run.state \in RunStates
  BY DEF LedgerTypeOK, RunType
<1>1. run.state \notin {"succeeded", "failed", "unknown_outcome"}
  BY DEF RowsInv, OneActiveAttempt, HasActive, Leased, Active
<1>2. CASE run' = run
  BY <1>2 DEF RunMoves
<1>3. ASSUME NEW s \in {"succeeded", "failed", "unknown_outcome"}, NEW o,
             run' = Transition(run, s, o),
             Legal(run.state, s) \/ run.state \in Waiting
      PROVE  RunMoves
  <2>1. run'.state = s
    BY <1>0, <1>3, TransitionEffect
  <2>2. run.state \notin Closed
    BY <1>0, <1>1, <1>3, LegalEnds DEF Closed, Terminal, Waiting
  <2> QED BY <2>1, <2>2 DEF RunMoves
<1>4. CASE FinalizeKnown(n)
  <2>1. PICK s \in {"succeeded", "failed"} : s = KnownState(att[n].outcome)
    BY DEF KnownState
  <2> QED BY <1>3, <1>4, <2>1 DEF FinalizeKnown, FinalizeCommits
<1>5. CASE CloseLost(n)
  <2>1. PICK s \in {"failed", "unknown_outcome"} : s = LostState(n)
    BY DEF LostState
  <2>2. PICK o : run' = Transition(run, s, o)
    BY <1>5, <2>1 DEF CloseLost
  <2>3. Legal(run.state, s) \/ run.state \in Waiting
    BY <1>5, <2>1 DEF CloseLost, LostCommits, NativeUnstarted
  <2> QED BY <1>3, <2>2, <2>3
<1> QED BY <1>2, <1>4, <1>5 DEF RecoverUnknown, RetryLost

(* Every transaction moves the run by the rule. *)
LEMMA TransactionMoves ==
  ASSUME LedgerTypeOK, RowsInv, LedgerStep \/ UNCHANGED ledger
  PROVE  RunMoves
<1>0. run \in RunType /\ run.state \in RunStates
  BY DEF LedgerTypeOK, RunType
<1>1. CASE run' = run /\ recon' = recon
  BY <1>1 DEF RunMoves
<1>2. ASSUME run.state \notin Closed, run'.state # "waiting_external"
      PROVE  RunMoves
  BY <1>2 DEF RunMoves
<1>3. ASSUME NEW r \in RunType, Schedule(r)
      PROVE  run'.state = r.state
  BY <1>3 DEF Schedule, RunType
<1>4. ASSUME run.state \notin Closed, NEW o, NEW s \in {"cancelled", "expired"},
             run' = Transition(run, s, o)
      PROVE  RunMoves
  BY <1>0, <1>2, <1>4, TransitionEffect
<1>5. CASE HumanStep
  <2>1. CASE Submit
    <3>1. SubmittedRun \in RunType /\ SubmittedRun.state \in Waiting
      BY OutcomeTypes DEF SubmittedRun, NoRun, RunType, RunStates, Waiting
    <3> QED BY <1>2, <1>3, <2>1, <3>1 DEF Submit, Closed, Terminal, Waiting
  <2>2. CASE Cancel
    <3>1. run.state \notin Closed
      BY <2>2 DEF Cancel, Closed, Terminal, Waiting
    <3>2. CASE run.state \in Waiting
      BY <1>4, <2>2, <3>1, <3>2 DEF Cancel
    <3>3. CASE run.state \notin Waiting
      BY <1>0, <2>2, <3>1, <3>3 DEF Cancel, RunType, RunMoves
    <3> QED BY <3>2, <3>3
  <2>3. ASSUME NEW a \in Approvers, ApproveFirst(a)
        PROVE  RunMoves
    <3>1. PICK r : r = ApprovedRun
      OBVIOUS
    <3>2. r \in RunType /\ r.state = run.state
      BY <3>1, ApprovedRunFields
    <3>3. Schedule(r) /\ run.state = "pending_approval"
      BY <2>3, <3>1 DEF ApproveFirst
    <3>4. run'.state = "pending_approval"
      BY <1>3, <3>2, <3>3
    <3> QED BY <1>2, <3>3, <3>4 DEF Closed, Terminal
  <2>4. ASSUME NEW a \in Approvers, ApproveAgain(a)
        PROVE  RunMoves
    BY <1>0, <1>3, <2>4 DEF ApproveAgain, RunMoves
  <2>5. ASSUME NEW a \in Approvers, ApproveTooLate(a)
        PROVE  RunMoves
    BY <1>1, <1>4, <2>5 DEF ApproveTooLate, Closed, Terminal
  <2>6. ASSUME NEW a \in Approvers, Reject(a)
        PROVE  RunMoves
    BY <1>1, <1>4, <2>6
       DEF Reject, RejectReleased, RejectClosed, RejectFirst, Closed, Terminal
  <2>7. ASSUME NEW s \in {"succeeded", "failed"}, ReconcileUnknown(s)
        PROVE  RunMoves
    <3>1. PICK o : run' = Transition(run, s, o)
      BY <2>7 DEF ReconcileUnknown
    <3>2. run'.state = s
      BY <1>0, <3>1, TransitionEffect
    <3> QED BY <2>7, <3>2 DEF RunMoves, ReconcileUnknown
  <2> QED BY <1>5, <2>1, <2>2, <2>3, <2>4, <2>5, <2>6, <2>7 DEF HumanStep
<1>6. CASE OtherStep
  <2>1. CASE ClaimExpiresRun
    BY <1>4, <2>1 DEF ClaimExpiresRun, ClaimOpen
  <2>2. CASE PrepareRows
    BY <1>0, <1>3, <2>2 DEF PrepareRows, RunMoves
  <2>3. CASE Purge
    <3>1. recon' = recon /\ (run'.state = run.state \/ (run.state \in Waiting /\ run'.state = "expired"))
      BY <1>0, <2>3 DEF Purge, PurgedRun, RunType
    <3> QED BY <1>2, <3>1 DEF RunMoves, Waiting, Closed, Terminal
  <2> QED BY <1>1, <1>6, <2>1, <2>2, <2>3
          DEF OtherStep, JobSettled, InputExpires, ResultExpires, Revoke, rows
<1>7. ASSUME NEW n \in Attempts, AttemptStep(n)
      PROVE  RunMoves
  <2>1. CASE RecoverRun(n)
    BY <1>1, <2>1, EndingMoves DEF RecoverRun, SettleAbandonedClaim, Lapsed
  <2>2. CASE SettleBeforeCallFailure(n)
    <3>1. Legal(run.state, "expired") /\ run' = Transition(run, "expired", NotAttempted) /\ recon' = recon
      BY <2>2 DEF SettleBeforeCallFailure, SettleBeforeCallCommits
    <3>2. run'.state = "expired" /\ run.state \in Waiting \cup {"expired"}
      BY <1>0, <3>1, TransitionEffect, LegalSources
    <3> QED BY <3>1, <3>2 DEF RunMoves, Waiting, Closed, Terminal
  <2>3. CASE LeaseTick(n)
    BY <1>1, <2>3 DEF LeaseTick
  <2> QED BY <1>7, <2>1, <2>2, <2>3 DEF AttemptStep
<1>8. ASSUME NEW w \in Processes, NEW n \in Attempts, ExecutionStep(w, n)
      PROVE  RunMoves
  <2>1. CASE Claim(w, n) \/ RenewLease(w, n) \/ \E o \in OutcomeType : PersistKnownResult(w, n, o)
    BY <1>1, <2>1 DEF Claim, RenewLease, PersistKnownResult
  <2>2. CASE MarkProviderCallStarted(w, n)
    BY <1>0, <2>2 DEF MarkProviderCallStarted, RunType, RunMoves, Waiting, Closed, Terminal
  <2>3. CASE FinalizeKnownResult(w, n) \/ SettleIndeterminate(w, n)
    BY <2>3, EndingMoves DEF FinalizeKnownResult, SettleIndeterminate, Holds, Leased
  <2>4. CASE ExecuteNative(w, n)
    BY <1>0, <2>4 DEF ExecuteNative, NativeReady, RunType, RunMoves, Waiting, Closed, Terminal
  <2> QED BY <1>8, <2>1, <2>2, <2>3, <2>4 DEF ExecutionStep, Execution
<1>9. CASE UNCHANGED ledger
  BY <1>1, <1>9 DEF ledger
<1> QED BY <1>5, <1>6, <1>7, <1>8, <1>9 DEF LedgerStep

-----------------------------------------------------------------------------
(* Outcomes and authority. *)

(* An outcome is persisted behind the boundary. *)
OutcomeOrder ==
  \A n \in Attempts :
    att[n].state \in {"absent", "pending", "claimed"} => att[n].outcome = NoOutcome

(* The authority behind a started attempt, a release and an approval. *)
StartedIsAuthorized ==
  \A n \in Attempts : att[n].started =>
    run.release # "none" /\ (policy.budgeted => run.budget)
ReleaseIsDue == run.release = "policy_satisfied" => ~policy.review
ApprovalIsSigned == approval.status = "approved" => approval.receipt.decision = "approved"
AuthorityInv == StartedIsAuthorized /\ ReleaseIsDue /\ ApprovalIsSigned

(* A new attempt has neither outcome nor receipt. *)
LEMMA WithNewAttemptReceipt ==
  ASSUME NEW a, NEW n \in Attempts
  PROVE  \/ ~IsNext(a, n) /\ WithNewAttempt(a)[n] = a[n]
         \/ /\ IsNext(a, n)
            /\ a[n].state = "absent"
            /\ WithNewAttempt(a)[n].state = "pending"
            /\ WithNewAttempt(a)[n].outcome = NoOutcome
            /\ WithNewAttempt(a)[n].receipt = NoReceipt
BY DEF WithNewAttempt, IsNext, NoAttempt

(* transition() writes the outcome it is given, or nothing. *)
LEMMA TransitionOutcome ==
  ASSUME NEW r \in RunType, NEW s, NEW o
  PROVE  /\ Transition(r, s, o).resultPurged = r.resultPurged
         /\ Transition(r, s, o).budget = r.budget
         /\ Transition(r, s, o).outcome \in {r.outcome, o}
BY DEF Transition, RunType

(* Scheduling writes neither outcomes nor payloads. *)
LEMMA SchedulePayload ==
  ASSUME LedgerTypeOK, OutcomeOrder, NEW r \in RunType, Schedule(r)
  PROVE  /\ \A k \in Attempts : att'[k].outcome = att[k].outcome
         /\ run'.outcome = r.outcome
         /\ run'.resultPurged = r.resultPurged
<1>1. run'.outcome = r.outcome /\ run'.resultPurged = r.resultPurged
  BY DEF Schedule, RunType
<1>2. \A k \in Attempts : att'[k].outcome = att[k].outcome
  <2>1. att' = att \/ att' = WithNewAttempt(att)
    BY DEF Schedule
  <2> QED BY <2>1, WithNewAttemptReceipt DEF OutcomeOrder
<1> QED BY <1>1, <1>2

(* Ending an attempt, with or without a retry, writes no outcome. *)
LEMMA EndingOutcomes ==
  ASSUME LedgerTypeOK, OutcomeOrder, NEW n \in Attempts,
         FinalizeKnown(n) \/ RecoverUnknown(n) \/ SettleAbandonedClaim(n)
           \/ SettleBeforeCallFailure(n)
  PROVE  \A k \in Attempts : att'[k].outcome = att[k].outcome
<1>0. att \in [Attempts -> AttemptType] /\ att[n] \in AttemptType
  BY DEF LedgerTypeOK
<1>1. ASSUME NEW s, NEW r, att' = EndAttempt(n, s, r, FALSE)
      PROVE  \A k \in Attempts : att'[k].outcome = att[k].outcome
  BY <1>0, <1>1 DEF EndAttempt, AttemptType
<1>2. ASSUME NEW s \in Ended, NEW r, att' = WithNewAttempt(EndAttempt(n, s, r, TRUE))
      PROVE  \A k \in Attempts : att'[k].outcome = att[k].outcome
  <2>1. PICK b : b = EndAttempt(n, s, r, TRUE)
    OBVIOUS
  <2>2. /\ \A k \in Attempts : b[k].outcome = att[k].outcome
        /\ \A k \in Attempts \ {n} : b[k] = att[k]
        /\ b[n].state = s
    BY <1>0, <2>1 DEF EndAttempt, AttemptType
  <2>3. att' = WithNewAttempt(b)
    BY <1>2, <2>1
  <2> QED BY <2>2, <2>3, WithNewAttemptReceipt DEF OutcomeOrder, Ended
<1>3. LostState(n) \in Ended
  BY DEF LostState, Ended
<1> QED BY <1>1, <1>2, <1>3 DEF FinalizeKnown, RecoverUnknown, RetryLost, CloseLost,
           SettleAbandonedClaim, SettleBeforeCallFailure

(* Only the boundary and a native effect start an attempt, both under MayExecute; *)
(* a reserved budget slot and a release are kept.                                 *)
AuthorityMoves ==
  /\ policy' = policy
  /\ \A k \in Attempts : att'[k].started =>
       att[k].started \/ (run.release # "none" /\ (policy.budgeted => run.budget))
  /\ run.release # "none" => run'.release # "none"
  /\ policy.budgeted /\ run.budget => run'.budget \/ \A k \in Attempts : ~att'[k].started

(* A new attempt has not been started. *)
LEMMA WithNewAttemptStartsNothing ==
  ASSUME NEW a, NEW n \in Attempts, WithNewAttempt(a)[n].started
  PROVE  a[n].started
<1>1. IsNext(a, n) => WithNewAttempt(a)[n] = [NoAttempt EXCEPT !.state = "pending"]
  BY DEF WithNewAttempt, IsNext
<1>2. [NoAttempt EXCEPT !.state = "pending"].started = FALSE
  BY DEF NoAttempt
<1>3. ~IsNext(a, n) => WithNewAttempt(a)[n] = a[n]
  BY DEF WithNewAttempt, IsNext
<1> QED BY <1>1, <1>2, <1>3

(* Scheduling reserves the budget of a budgeted run and starts nothing. *)
LEMMA ScheduleAuthority ==
  ASSUME LedgerTypeOK, NEW r \in RunType, Schedule(r)
  PROVE  /\ \A k \in Attempts : att'[k].started => att[k].started
         /\ run'.release = r.release
         /\ policy.budgeted /\ r.budget => run'.budget
<1>1. run'.release = r.release /\ (policy.budgeted /\ r.budget => run'.budget)
  BY DEF Schedule, RunType
<1>2. \A k \in Attempts : att'[k].started => att[k].started
  <2>1. att' = att \/ att' = WithNewAttempt(att)
    BY DEF Schedule
  <2> QED BY <2>1, WithNewAttemptStartsNothing
<1> QED BY <1>1, <1>2

(* Ending an attempt, with or without a retry, starts nothing. *)
LEMMA EndingStartsNothing ==
  ASSUME LedgerTypeOK, NEW n \in Attempts,
         FinalizeKnown(n) \/ RecoverUnknown(n) \/ SettleAbandonedClaim(n)
           \/ SettleBeforeCallFailure(n)
  PROVE  \A k \in Attempts : att'[k].started => att[k].started
<1>0. att \in [Attempts -> AttemptType] /\ att[n] \in AttemptType
  BY DEF LedgerTypeOK
<1>1. ASSUME NEW s, NEW r, att' = EndAttempt(n, s, r, FALSE)
      PROVE  \A k \in Attempts : att'[k].started => att[k].started
  BY <1>0, <1>1 DEF EndAttempt, AttemptType
<1>2. ASSUME NEW s, NEW r, att' = WithNewAttempt(EndAttempt(n, s, r, TRUE))
      PROVE  \A k \in Attempts : att'[k].started => att[k].started
  <2>1. PICK b : b = EndAttempt(n, s, r, TRUE)
    OBVIOUS
  <2>2. \A k \in Attempts : b[k].started = att[k].started
    BY <1>0, <2>1 DEF EndAttempt, AttemptType
  <2>3. att' = WithNewAttempt(b)
    BY <1>2, <2>1
  <2> QED BY <2>2, <2>3, WithNewAttemptStartsNothing
<1> QED BY <1>1, <1>2 DEF FinalizeKnown, RecoverUnknown, RetryLost, CloseLost,
           SettleAbandonedClaim, SettleBeforeCallFailure

(* Ending an attempt keeps release and budget. *)
LEMMA EndingAuthority ==
  ASSUME LedgerTypeOK, NEW n \in Attempts, policy' = policy,
         FinalizeKnown(n) \/ RecoverUnknown(n) \/ SettleAbandonedClaim(n)
           \/ SettleBeforeCallFailure(n)
  PROVE  AuthorityMoves
<1>0. run \in RunType
  BY DEF LedgerTypeOK
<1>3. \A k \in Attempts : att'[k].started => att[k].started
  BY EndingStartsNothing
<1>4. PICK s, o : run' = run \/ run' = Transition(run, s, o)
  BY DEF FinalizeKnown, RecoverUnknown, RetryLost, CloseLost,
     SettleAbandonedClaim, SettleBeforeCallFailure
<1>5. run'.release = run.release /\ run'.budget = run.budget
  BY <1>0, <1>4, TransitionEffect, TransitionOutcome
<1> QED BY <1>3, <1>5 DEF AuthorityMoves

(* Every transaction starts attempts by the rule. *)
LEMMA TransactionAuthority ==
  ASSUME LedgerTypeOK, RowsInv, LedgerStep \/ UNCHANGED ledger
  PROVE  AuthorityMoves
<1>0. run \in RunType /\ att \in [Attempts -> AttemptType]
  BY DEF LedgerTypeOK
<1>1. ASSUME policy' = policy, \A k \in Attempts : att'[k].started => att[k].started,
             run'.release = run.release, run'.budget = run.budget
      PROVE  AuthorityMoves
  BY <1>1 DEF AuthorityMoves
<1>2. ASSUME policy' = policy, att' = att, NEW s, NEW o, run' = Transition(run, s, o)
      PROVE  AuthorityMoves
  BY <1>0, <1>1, <1>2, TransitionEffect, TransitionOutcome
<1>3. CASE policy' = policy /\ att' = att /\ run' = run
  BY <1>1, <1>3
<1>4. CASE HumanStep
  <2>1. CASE Submit
    <3>1. SubmittedRun \in RunType
      BY OutcomeTypes DEF SubmittedRun, NoRun, RunType, RunStates
    <3>2. \A k \in Attempts : att'[k].started => att[k].started
      BY <2>1, <3>1, ScheduleAuthority DEF Submit
    <3>3. run.release = "none" /\ \A k \in Attempts : ~att[k].started
      BY <2>1 DEF Submit, RowsInv, AbsentRun, AttemptOrder
    <3> QED BY <2>1, <3>2, <3>3 DEF AuthorityMoves, Submit
  <2>2. CASE Cancel
    <3>1. CASE run.state \in Waiting
      BY <1>2, <2>2, <3>1 DEF Cancel
    <3>2. CASE run.state \notin Waiting
      BY <1>0, <1>1, <2>2, <3>2 DEF Cancel, RunType
    <3> QED BY <3>1, <3>2
  <2>3. ASSUME NEW a \in Approvers, ApproveFirst(a)
        PROVE  AuthorityMoves
    <3>1. PICK r : r = ApprovedRun
      OBVIOUS
    <3>2. r \in RunType /\ r.release = "approved" /\ r.budget = policy.budgeted
      BY <3>1, ApprovedRunFields
    <3>3. Schedule(r) /\ policy' = policy
      BY <2>3, <3>1 DEF ApproveFirst
    <3>4. /\ \A k \in Attempts : att'[k].started => att[k].started
          /\ run'.release = "approved"
          /\ policy.budgeted /\ run.budget => run'.budget
      BY <3>2, <3>3, ScheduleAuthority
    <3> QED BY <3>3, <3>4 DEF AuthorityMoves
  <2>4. ASSUME NEW a \in Approvers, ApproveAgain(a)
        PROVE  AuthorityMoves
    BY <1>0, <2>4, ScheduleAuthority DEF ApproveAgain, AuthorityMoves
  <2>5. ASSUME NEW a \in Approvers, ApproveTooLate(a)
        PROVE  AuthorityMoves
    BY <1>2, <1>3, <2>5 DEF ApproveTooLate
  <2>6. ASSUME NEW a \in Approvers, Reject(a)
        PROVE  AuthorityMoves
    BY <1>2, <1>3, <2>6 DEF Reject, RejectReleased, RejectClosed, RejectFirst
  <2>7. ASSUME NEW s \in {"succeeded", "failed"}, ReconcileUnknown(s)
        PROVE  AuthorityMoves
    <3>1. PICK o : run' = Transition(run, s, o)
      BY <2>7 DEF ReconcileUnknown
    <3>2. att' = att /\ policy' = policy
      BY <2>7 DEF ReconcileUnknown
    <3> QED BY <1>2, <3>1, <3>2
  <2> QED BY <1>4, <2>1, <2>2, <2>3, <2>4, <2>5, <2>6, <2>7 DEF HumanStep
<1>5. CASE OtherStep
  <2>1. CASE ClaimExpiresRun
    BY <1>2, <2>1 DEF ClaimExpiresRun
  <2>2. CASE PrepareRows
    BY <1>0, <2>2, ScheduleAuthority DEF PrepareRows, AuthorityMoves
  <2>3. CASE Purge
    BY <1>0, <1>1, <2>3 DEF Purge, PurgedRun, RunType
  <2> QED BY <1>3, <1>5, <2>1, <2>2, <2>3
          DEF OtherStep, JobSettled, InputExpires, ResultExpires, Revoke, rows
<1>6. ASSUME NEW n \in Attempts, AttemptStep(n)
      PROVE  AuthorityMoves
  <2>1. CASE RecoverRun(n)
    BY <2>1, EndingAuthority DEF RecoverRun
  <2>2. CASE SettleBeforeCallFailure(n)
    BY <2>2, EndingAuthority DEF SettleBeforeCallFailure
  <2>3. CASE LeaseTick(n)
    BY <1>0, <1>1, <2>3 DEF LeaseTick, AttemptType
  <2> QED BY <1>6, <2>1, <2>2, <2>3 DEF AttemptStep
<1>7. ASSUME NEW w \in Processes, NEW n \in Attempts, ExecutionStep(w, n)
      PROVE  AuthorityMoves
  <2>1. CASE Claim(w, n) \/ RenewLease(w, n) \/ \E o \in OutcomeType : PersistKnownResult(w, n, o)
    BY <1>0, <1>1, <2>1 DEF Claim, RenewLease, PersistKnownResult, AttemptType
  <2>2. CASE MarkProviderCallStarted(w, n)
    <3>1. /\ \A k \in Attempts \ {n} : att'[k] = att[k]
          /\ run'.release = run.release /\ run'.budget = run.budget
      BY <1>0, <2>2 DEF MarkProviderCallStarted, AttemptType, RunType
    <3>2. /\ policy' = policy /\ run.release # "none" /\ (policy.budgeted => run.budget)
      BY <2>2 DEF MarkProviderCallStarted, MayStart, MayExecute
    <3> QED BY <3>1, <3>2 DEF AuthorityMoves
  <2>3. CASE FinalizeKnownResult(w, n) \/ SettleIndeterminate(w, n)
    BY <2>3, EndingAuthority DEF FinalizeKnownResult, SettleIndeterminate
  <2>4. CASE ExecuteNative(w, n)
    <3>1. /\ \A k \in Attempts \ {n} : att'[k] = att[k]
          /\ run'.release = run.release /\ run'.budget = run.budget
      BY <1>0, <2>4 DEF ExecuteNative, AttemptType, RunType
    <3>2. /\ policy' = policy /\ run.release # "none" /\ (policy.budgeted => run.budget)
      BY <2>4 DEF ExecuteNative, NativeReady, MayExecute
    <3> QED BY <3>1, <3>2 DEF AuthorityMoves
  <2> QED BY <1>7, <2>1, <2>2, <2>3, <2>4 DEF ExecutionStep, Execution
<1>8. CASE UNCHANGED ledger
  BY <1>3, <1>8 DEF ledger
<1> QED BY <1>4, <1>5, <1>6, <1>7, <1>8 DEF LedgerStep

(* A run is released by its policy only where the policy asks for no review,   *)
(* and an approval is written with its receipt.                                *)
LEMMA TransactionRelease ==
  ASSUME LedgerTypeOK, RowsInv, ApprovalAgrees, ReleaseIsDue, ApprovalIsSigned,
         LedgerStep \/ UNCHANGED ledger
  PROVE  ReleaseIsDue' /\ ApprovalIsSigned'
<1>0. run \in RunType /\ approval \in ApprovalType
  BY DEF LedgerTypeOK
<1>a. policy' = policy
  BY TransactionAuthority DEF AuthorityMoves
<1>1. CASE UNCHANGED ledger
  BY <1>1 DEF ledger, ReleaseIsDue, ApprovalIsSigned
<1>2. CASE LedgerStep /\ ~HumanStep
  BY <1>2, <1>a, OthersKeepApproval DEF ReleaseIsDue, ApprovalIsSigned
<1>3. CASE HumanStep
  <2>0. ASSUME NEW s, NEW o, run' = Transition(run, s, o)
        PROVE  run'.release = run.release
    BY <1>0, <2>0, TransitionEffect
  <2>1. CASE Submit
    <3>1. SubmittedRun \in RunType /\ (SubmittedRun.release = "policy_satisfied" => ~policy.review)
      BY OutcomeTypes DEF SubmittedRun, NoRun, RunType, RunStates
    <3>2. run'.release = SubmittedRun.release
      BY <2>1, <3>1, ScheduleAuthority DEF Submit
    <3>3. approval'.status # "approved"
      BY <2>1 DEF Submit, NoApproval
    <3> QED BY <1>a, <3>1, <3>2, <3>3 DEF ReleaseIsDue, ApprovalIsSigned
  <2>2. CASE Cancel
    <3>1. run'.release = run.release /\ approval' = approval
      BY <1>0, <2>0, <2>2 DEF Cancel, RunType
    <3> QED BY <1>a, <3>1 DEF ReleaseIsDue, ApprovalIsSigned
  <2>3. ASSUME NEW a \in Approvers, ApproveFirst(a) \/ ApproveAgain(a)
        PROVE  ReleaseIsDue' /\ ApprovalIsSigned'
    <3>1. approval'.receipt.decision = "approved"
      BY <2>3 DEF ApproveFirst, ApproveAgain, ApprovalReceipt
    <3>2. run'.release = "approved"
      <4>1. ASSUME NEW r \in RunType, Schedule(r), r.release = "approved"
            PROVE  run'.release = "approved"
        BY <4>1, ScheduleAuthority
      <4>2. CASE ApproveFirst(a)
        BY <4>1, <4>2, ApprovedRunFields DEF ApproveFirst
      <4>3. CASE ApproveAgain(a)
        BY <1>0, <4>1, <4>3 DEF ApproveAgain
      <4> QED BY <2>3, <4>2, <4>3
    <3> QED BY <3>1, <3>2 DEF ReleaseIsDue, ApprovalIsSigned
  <2>4. ASSUME NEW a \in Approvers, ApproveTooLate(a)
        PROVE  ReleaseIsDue' /\ ApprovalIsSigned'
    <3>1. run'.release = run.release
      BY <2>0, <2>4 DEF ApproveTooLate
    <3>2. approval'.status # "approved"
      BY <1>0, <2>4 DEF ApproveTooLate, ApprovalType
    <3> QED BY <1>a, <3>1, <3>2 DEF ReleaseIsDue, ApprovalIsSigned
  <2>5. ASSUME NEW a \in Approvers, Reject(a)
        PROVE  ReleaseIsDue' /\ ApprovalIsSigned'
    <3>1. run'.release = run.release
      BY <2>0, <2>5 DEF Reject, RejectReleased, RejectClosed, RejectFirst
    <3>2. CASE RejectReleased(a)
      BY <1>0, <1>a, <3>1, <3>2
         DEF RejectReleased, ReleaseIsDue, ApprovalIsSigned, ApprovalAgrees, ApprovalType
    <3>3. CASE RejectClosed \/ RejectFirst(a)
      <4>1. approval'.status # "approved"
        BY <1>0, <3>3 DEF RejectClosed, RejectFirst, ApprovalType
      <4> QED BY <1>a, <3>1, <4>1 DEF ReleaseIsDue, ApprovalIsSigned
    <3> QED BY <2>5, <3>2, <3>3 DEF Reject
  <2>6. ASSUME NEW s \in {"succeeded", "failed"}, ReconcileUnknown(s)
        PROVE  ReleaseIsDue' /\ ApprovalIsSigned'
    <3>1. run'.release = run.release /\ approval' = approval
      BY <2>0, <2>6 DEF ReconcileUnknown
    <3> QED BY <1>a, <3>1 DEF ReleaseIsDue, ApprovalIsSigned
  <2> QED BY <1>3, <2>1, <2>2, <2>3, <2>4, <2>5, <2>6 DEF HumanStep
<1> QED BY <1>1, <1>2, <1>3

(* A started attempt keeps the authority it was started under. *)
LEMMA TransactionAuthorized ==
  ASSUME LedgerTypeOK, RowsInv, ApprovalAgrees, AuthorityInv, LedgerStep \/ UNCHANGED ledger
  PROVE  AuthorityInv'
<1>1. AuthorityMoves
  BY TransactionAuthority
<1>2. StartedIsAuthorized'
  BY <1>1 DEF AuthorityMoves, AuthorityInv, StartedIsAuthorized
<1>3. ReleaseIsDue' /\ ApprovalIsSigned'
  BY TransactionRelease DEF AuthorityInv
<1> QED BY <1>2, <1>3 DEF AuthorityInv

-----------------------------------------------------------------------------
(* What a client may see of a transaction. *)

(* No run of this engine ever waits for an external completion. *)
NeverExternal == run.state # "waiting_external"

(* What a transaction does to the run's state, its release and the starts of *)
(* its attempts, in the engine's own terms.                                  *)

ReleaseKept == run'.release = "none" <=> run.release = "none"
StartsKept == \A k \in Attempts : att'[k].started <=> att[k].started

Stays == run'.state = run.state /\ ReleaseKept /\ StartsKept
Submits ==
  /\ run.state = "absent"
  /\ \/ run'.state = "pending" /\ run'.release # "none"
     \/ run'.state = "pending_approval" /\ run'.release = "none"
  /\ StartsKept
Releases ==
  /\ run.state = "pending_approval" /\ run'.state = run.state
  /\ run.release = "none" /\ run'.release # "none"
  /\ StartsKept
Abandons ==
  /\ run.state \in Waiting
  /\ \/ run'.state \in {"cancelled", "expired"}
     \/ run.release # "none" /\ run'.state = "failed"
  /\ ReleaseKept /\ StartsKept
Grants(n) ==
  /\ run.release # "none" /\ att[n].state = "claimed"
  /\ run.state \in Waiting \cup {"running", "expired"}
  /\ run'.state = IF run.state = "expired" THEN "expired" ELSE "running"
  /\ ReleaseKept
  /\ att'[n].started
  /\ \A k \in Attempts \ {n} : att'[k].started <=> att[k].started
Concludes ==
  /\ run.state = "running"
  /\ \/ run'.state = "succeeded" /\ \E n \in Attempts : att[n].outcome.success
     \/ run'.state \in {"failed", "unknown_outcome"}
  /\ ReleaseKept /\ StartsKept
Resolves ==
  /\ run.state = "unknown_outcome" /\ run'.state \in {"succeeded", "failed"}
  /\ ReleaseKept /\ StartsKept

Moves == \/ Stays \/ Submits \/ Releases \/ Abandons \/ Concludes \/ Resolves
         \/ \E n \in Attempts : Grants(n)

(* Starts are kept where none is made: none is ever taken back. *)
LEMMA NothingStarts ==
  ASSUME LedgerTypeOK, RowsInv, LedgerStep \/ UNCHANGED ledger,
         \A k \in Attempts : att'[k].started => att[k].started
  PROVE  StartsKept
BY TokensAndStartsPersist DEF StartsKept

(* The end of a leased attempt leaves the run, abandons it or concludes it. *)
LEMMA EndingContract ==
  ASSUME LedgerTypeOK, RowsInv, NeverExternal, NEW n \in Attempts, att[n].state \in Leased,
         FinalizeKnown(n) \/ RecoverUnknown(n) \/ SettleAbandonedClaim(n)
           \/ SettleBeforeCallFailure(n),
         LedgerStep
  PROVE  Moves
<1>0. run \in RunType /\ run.state \in RunStates
  BY DEF LedgerTypeOK, RunType
<1>1. StartsKept
  BY EndingStartsNothing, NothingStarts
<1>2. run.state \notin {"succeeded", "failed", "unknown_outcome", "waiting_external"}
  BY DEF RowsInv, OneActiveAttempt, HasActive, Leased, Active, NeverExternal
<1>3. CASE run' = run
  BY <1>1, <1>3 DEF Moves, Stays, ReleaseKept
<1>4. CASE FinalizeKnown(n)
  <2>1. PICK s \in {"succeeded", "failed"} : s = KnownState(att[n].outcome)
    BY DEF KnownState
  <2>2. run' = Transition(run, s, att[n].outcome) /\ Legal(run.state, s)
    BY <1>4, <2>1 DEF FinalizeKnown, FinalizeCommits
  <2>3. run'.state = s /\ run'.release = run.release
    BY <1>0, <2>2, TransitionEffect
  <2>4. run.state = "running"
    BY <1>0, <1>2, <2>1, <2>2, LegalSources
  <2>5. s = "succeeded" => att[n].outcome.success
    BY <2>1 DEF KnownState
  <2> QED BY <1>1, <2>1, <2>3, <2>4, <2>5 DEF Moves, Concludes, ReleaseKept
<1>5. CASE CloseLost(n)
  <2>1. PICK s \in {"failed", "unknown_outcome"} : s = LostState(n)
    BY DEF LostState
  <2>2. PICK o : run' = Transition(run, s, o)
    BY <1>5, <2>1 DEF CloseLost
  <2>3. run'.state = s /\ run'.release = run.release
    BY <1>0, <2>2, TransitionEffect
  <2>4. CASE NativeUnstarted(n)
    <3>1. run.state \in Waiting /\ run.release # "none" /\ s = "failed"
      BY <2>1, <2>4 DEF NativeUnstarted, LostState
    <3> QED BY <1>1, <2>3, <3>1 DEF Moves, Abandons, ReleaseKept
  <2>5. CASE ~NativeUnstarted(n)
    <3>1. Legal(run.state, s)
      BY <1>5, <2>1, <2>5 DEF CloseLost, LostCommits
    <3>2. run.state = "running"
      BY <1>0, <1>2, <2>1, <3>1, LegalSources
    <3> QED BY <1>1, <2>1, <2>3, <3>2 DEF Moves, Concludes, ReleaseKept
  <2> QED BY <2>4, <2>5
<1>6. CASE SettleBeforeCallFailure(n)
  <2>1. run' = Transition(run, "expired", NotAttempted) /\ Legal(run.state, "expired")
    BY <1>6 DEF SettleBeforeCallFailure, SettleBeforeCallCommits
  <2>2. run'.state = "expired" /\ run'.release = run.release
    BY <1>0, <2>1, TransitionEffect
  <2>3. run.state \in Waiting \/ run.state = "expired"
    BY <1>0, <2>1, LegalSources
  <2> QED BY <1>1, <2>2, <2>3 DEF Moves, Stays, Abandons, ReleaseKept
<1> QED BY <1>3, <1>4, <1>5, <1>6 DEF RecoverUnknown, RetryLost, SettleAbandonedClaim

(* A decision of a human, an operator or the submitter. *)
LEMMA HumanContract ==
  ASSUME LedgerTypeOK, RowsInv, HumanStep
  PROVE  Moves
<1>0. run \in RunType /\ run.state \in RunStates /\ LedgerStep
  BY DEF LedgerTypeOK, RunType, LedgerStep
<1>1. ASSUME att' = att PROVE StartsKept
  BY <1>1 DEF StartsKept
<1>2. ASSUME NEW r \in RunType, Schedule(r)
      PROVE  StartsKept /\ run'.release = r.release /\ run'.state = r.state
  <2>1. run'.state = r.state
    BY <1>2 DEF Schedule, RunType
  <2> QED BY <1>0, <1>2, <2>1, ScheduleAuthority, NothingStarts
<1>3. ASSUME NEW s, NEW o, run' = Transition(run, s, o)
      PROVE  run'.state = s /\ ReleaseKept
  BY <1>0, <1>3, TransitionEffect DEF ReleaseKept
<1>4. CASE Submit
  <2>1. PICK r : r = SubmittedRun
    OBVIOUS
  <2>2. /\ r \in RunType
        /\ \/ r.state = "pending" /\ r.release # "none"
           \/ r.state = "pending_approval" /\ r.release = "none"
    BY <2>1, OutcomeTypes DEF SubmittedRun, NoRun, RunType, RunStates
  <2>3. run.state = "absent" /\ Schedule(r)
    BY <1>4, <2>1 DEF Submit
  <2>4. StartsKept /\ run'.release = r.release /\ run'.state = r.state
    BY <1>2, <2>2, <2>3
  <2> QED BY <2>2, <2>3, <2>4 DEF Moves, Submits
<1>5. CASE Cancel
  <2>1. StartsKept
    BY <1>1, <1>5 DEF Cancel
  <2>2. CASE run.state \in Waiting
    <3>1. run' = Transition(run, "cancelled", NotAttempted)
      BY <1>5, <2>2 DEF Cancel
    <3> QED BY <1>3, <2>1, <2>2, <3>1 DEF Moves, Abandons
  <2>3. CASE run.state \notin Waiting
    <3>1. run'.state = run.state /\ run'.release = run.release
      BY <1>0, <1>5, <2>3 DEF Cancel, RunType
    <3> QED BY <2>1, <3>1 DEF Moves, Stays, ReleaseKept
  <2> QED BY <2>2, <2>3
<1>6. ASSUME NEW a \in Approvers, ApproveFirst(a)
      PROVE  Moves
  <2>1. PICK r : r = ApprovedRun
    OBVIOUS
  <2>2. r \in RunType /\ r.release = "approved" /\ r.state = run.state
    BY <2>1, ApprovedRunFields
  <2>3. Schedule(r) /\ run.state = "pending_approval" /\ run.release = "none"
    BY <1>6, <2>1 DEF ApproveFirst
  <2>4. StartsKept /\ run'.release = r.release /\ run'.state = r.state
    BY <1>2, <2>2, <2>3
  <2> QED BY <2>2, <2>3, <2>4 DEF Moves, Releases
<1>7. ASSUME NEW a \in Approvers, ApproveAgain(a)
      PROVE  Moves
  <2>1. Schedule(run)
    BY <1>7 DEF ApproveAgain
  <2> QED BY <1>0, <1>2, <2>1 DEF Moves, Stays, ReleaseKept
<1>8. ASSUME NEW a \in Approvers, ApproveTooLate(a)
      PROVE  Moves
  <2>1. StartsKept
    BY <1>1, <1>8 DEF ApproveTooLate
  <2>2. CASE run' = run
    BY <2>1, <2>2 DEF Moves, Stays, ReleaseKept
  <2>3. CASE run.state = "pending_approval" /\ run' = Transition(run, "expired", NotAttempted)
    BY <1>3, <2>1, <2>3 DEF Moves, Abandons, Waiting
  <2> QED BY <1>8, <2>2, <2>3 DEF ApproveTooLate
<1>9. ASSUME NEW a \in Approvers, Reject(a)
      PROVE  Moves
  <2>1. StartsKept
    BY <1>1, <1>9 DEF Reject
  <2>2. CASE run' = run
    BY <2>1, <2>2 DEF Moves, Stays, ReleaseKept
  <2>3. CASE run.state = "pending_approval" /\ run' = Transition(run, "cancelled", NotAttempted)
    BY <1>3, <2>1, <2>3 DEF Moves, Abandons, Waiting
  <2> QED BY <1>9, <2>2, <2>3 DEF Reject, RejectReleased, RejectClosed, RejectFirst
<1>10. ASSUME NEW s \in {"succeeded", "failed"}, ReconcileUnknown(s)
       PROVE  Moves
  <2>1. PICK o : run' = Transition(run, s, o)
    BY <1>10 DEF ReconcileUnknown
  <2>2. run'.state = s /\ ReleaseKept
    BY <1>3, <2>1
  <2>3. run.state = "unknown_outcome" /\ StartsKept
    BY <1>1, <1>10 DEF ReconcileUnknown
  <2> QED BY <2>2, <2>3 DEF Moves, Resolves
<1> QED BY <1>4, <1>5, <1>6, <1>7, <1>8, <1>9, <1>10 DEF HumanStep

(* A claimed attempt may start when its run is not cancelled: then the run     *)
(* waits, runs or was expired under the claim.                                 *)
LEMMA ClaimedRun ==
  ASSUME LedgerTypeOK, RowsInv, NeverExternal, NEW n \in Attempts, att[n].state = "claimed"
  PROVE  run.state \in Waiting \cup {"running", "expired", "cancelled"}
<1>1. run.state \in RunStates \ {"absent", "waiting_external"}
  BY DEF LedgerTypeOK, RunType, RowsInv, AbsentRun, NeverExternal
<1>2. run.state \notin {"succeeded", "failed", "unknown_outcome"}
  BY DEF RowsInv, OneActiveAttempt, HasActive, Active
<1> QED BY <1>1, <1>2 DEF RunStates, Waiting

(* A transaction of the clock, of maintenance or of a process that prepares,   *)
(* claims, starts, renews, persists or ends an attempt.                        *)
LEMMA OthersContract ==
  ASSUME LedgerTypeOK, RowsInv, NeverExternal,
         \/ OtherStep
         \/ \E n \in Attempts : AttemptStep(n)
         \/ \E w \in Processes, n \in Attempts : Execution(w, n)
  PROVE  Moves
<1>0. /\ run \in RunType /\ run.state \in RunStates /\ att \in [Attempts -> AttemptType]
      /\ LedgerStep
  BY DEF LedgerTypeOK, RunType, LedgerStep, ExecutionStep
<1>1. ASSUME run' = run, \A k \in Attempts : att'[k].started = att[k].started
      PROVE  Moves
  BY <1>1 DEF Moves, Stays, ReleaseKept, StartsKept
<1>2. CASE OtherStep
  <2>1. CASE ClaimExpiresRun
    <3>1. /\ run' = Transition(run, "expired", NotAttempted) /\ Legal(run.state, "expired")
          /\ run.state \notin Closed /\ att' = att
      BY <2>1 DEF ClaimExpiresRun, ClaimOpen
    <3>2. run'.state = "expired" /\ run'.release = run.release
      BY <1>0, <3>1, TransitionEffect
    <3>3. run.state \in Waiting
      BY <1>0, <3>1, LegalSources DEF Closed, Terminal
    <3> QED BY <3>1, <3>2, <3>3 DEF Moves, Abandons, ReleaseKept, StartsKept
  <2>2. CASE PrepareRows
    <3>1. run'.state = run.state
      BY <1>0, <2>2 DEF PrepareRows, Schedule, RunType
    <3>2. StartsKept /\ run'.release = run.release
      BY <1>0, <2>2, ScheduleAuthority, NothingStarts DEF PrepareRows
    <3> QED BY <3>1, <3>2 DEF Moves, Stays, ReleaseKept
  <2>3. CASE Purge
    <3>1. /\ att' = att /\ run'.release = run.release
          /\ run'.state = run.state \/ (run.state \in Waiting /\ run'.state = "expired")
      BY <1>0, <2>3 DEF Purge, PurgedRun, RunType
    <3> QED BY <3>1 DEF Moves, Stays, Abandons, ReleaseKept, StartsKept
  <2>4. CASE JobSettled \/ InputExpires \/ ResultExpires \/ Revoke
    BY <1>1, <2>4 DEF JobSettled, InputExpires, ResultExpires, Revoke, rows
  <2> QED BY <1>2, <2>1, <2>2, <2>3, <2>4 DEF OtherStep
<1>3. ASSUME NEW n \in Attempts, AttemptStep(n)
      PROVE  Moves
  <2>1. CASE RecoverRun(n)
    BY <1>0, <2>1, EndingContract DEF RecoverRun, Lapsed
  <2>2. CASE SettleBeforeCallFailure(n)
    BY <1>0, <2>2, EndingContract DEF SettleBeforeCallFailure, SettleBeforeCallCommits, Leased
  <2>3. CASE LeaseTick(n)
    BY <1>0, <1>1, <2>3 DEF LeaseTick, AttemptType
  <2> QED BY <1>3, <2>1, <2>2, <2>3 DEF AttemptStep
<1>4. ASSUME NEW w \in Processes, NEW n \in Attempts, Execution(w, n)
      PROVE  Moves
  <2>1. CASE Claim(w, n) \/ RenewLease(w, n) \/ \E o \in OutcomeType : PersistKnownResult(w, n, o)
    BY <1>0, <1>1, <2>1 DEF Claim, RenewLease, PersistKnownResult, AttemptType
  <2>2. CASE MarkProviderCallStarted(w, n)
    <3>1. /\ att'[n].started /\ \A k \in Attempts \ {n} : att'[k] = att[k]
          /\ run'.release = run.release
          /\ run'.state = IF run.state \in Waiting THEN "running" ELSE run.state
      BY <1>0, <2>2 DEF MarkProviderCallStarted, AttemptType, RunType
    <3>2. run.release # "none" /\ att[n].state = "claimed" /\ run.state # "cancelled"
      BY <2>2 DEF MarkProviderCallStarted, MayStart
    <3>3. run.state \in Waiting \cup {"running", "expired"}
      BY <3>2, ClaimedRun
    <3> QED BY <3>1, <3>2, <3>3 DEF Moves, Grants, ReleaseKept, Waiting
  <2>3. CASE FinalizeKnownResult(w, n) \/ SettleIndeterminate(w, n)
    BY <1>0, <2>3, EndingContract DEF FinalizeKnownResult, SettleIndeterminate, Holds, Leased
  <2> QED BY <1>4, <2>1, <2>2, <2>3 DEF Execution
<1> QED BY <1>2, <1>3, <1>4

(* A run that runs has started an attempt: the run's move to "running" and the *)
(* start of the attempt are one transaction.                                   *)
RunningStarted == run.state = "running" => \E n \in Attempts : att[n].started

(* No transaction makes a run run without a start. *)
LEMMA MovesKeepRunning ==
  ASSUME RunningStarted, Moves
  PROVE  RunningStarted'
BY DEF RunningStarted, Moves, Stays, Submits, Releases, Abandons, Grants, Concludes, Resolves,
   StartsKept
=============================================================================
