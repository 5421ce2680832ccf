-------------------------- MODULE AppRuntimeProofs --------------------------
(***************************************************************************)
(* Machine-checked proofs of the runtime channel's safety, for every limit *)
(* of attempts, lease length, set of sessions and number of contradicting  *)
(* results a runtime may send.                                             *)
(***************************************************************************)
EXTENDS AppRuntimeProperties, AppRunLedgerProofs

-----------------------------------------------------------------------------
(* The inductive invariant. *)

(* The operation is one-shot whatever its retry class, and the channel writes  *)
(* the outcome of a started attempt only together with its end.                *)
OneShotPolicy == policy.provider = "app_runtime"
OutcomesAreFinal ==
  \A n \in Attempts : att[n].outcome # NoOutcome => att[n].started /\ att[n].state \in Ended

(* A start request in progress and a released input belong to the claim of     *)
(* their session, and the attempt is started.                                  *)
InputsAreHeld ==
  \A x \in given \cup marked : att[x[2]].token = x[1] /\ att[x[2]].started

(* What the runtime knows of its own effect. *)
ReportsAreHonest ==
  \A n \in Attempts :
    /\ n \in done => (\E s \in Sessions : <<s, n>> \in given) /\ "not_attempted" \notin sent[n]
    /\ ("ok" \in sent[n] \/ "failed" \in sent[n]) => n \in done

(* A recorded result was sent, ended its attempt and closed the run by it, and *)
(* only a recorded result is acknowledged; a reconciliation decided the run.   *)
ResultStands(r) ==
  CASE r = "ok" -> run.state = "succeeded"
    [] r = "unknown" -> run.state = (IF recon = "none" THEN "unknown_outcome" ELSE recon)
    [] OTHER -> run.state = "failed"
ResultsAreRecorded ==
  \A n \in Attempts :
    /\ hmac[n] # "none" => hmac[n] \in sent[n] /\ att[n].state \in Ended /\ ResultStands(hmac[n])
    /\ \A r \in acked[n] : hmac[n] = r
ReconciliationStands == recon # "none" => run.state = recon

(* A run whose input was released runs on, or ended by the attempt that got    *)
(* it, or by an operator.                                                      *)
AnsweredRun(n) ==
  \/ run.state \in {"running", "succeeded", "unknown_outcome"}
  \/ run.state = "failed" /\ (hmac[n] \in {"failed", "not_attempted"} \/ recon = "failed")
ReleasedInputIsAnswered == \A x \in given : AnsweredRun(x[2])

RowsHold == /\ OneShotPolicy /\ RowsInv /\ ApprovalAgrees /\ NeverExternal /\ RunningStarted
            /\ OutcomesAreFinal /\ ReconciliationStands
ChannelHolds == /\ InputsAreHeld /\ ReportsAreHonest /\ ResultsAreRecorded
                /\ ReleasedInputIsAnswered
ChannelInv == TypeOK /\ RowsHold /\ ChannelHolds

-----------------------------------------------------------------------------
(* The transactions on the rows. *)

(* What the host does by itself, what a live session does before it reports,   *)
(* and the report that ends an attempt.                                        *)
HostStep == HumanStep \/ OtherStep \/ \E n \in Attempts : RecoverRun(n) \/ LeaseTick(n)
SessionStep(s, n) ==
  /\ sess[s] = "live"
  /\ Claim(s, n) \/ MarkProviderCallStarted(s, n) \/ RenewLease(s, n)
Reports(n, r) ==
  /\ SettleReported(n, r)
  /\ UNCHANGED <<policy, approval, recon, input, clocks, authority>>
Completes(s, n, r) ==
  /\ sess[s] = "live"
  /\ r \in sent[n]
  /\ hmac[n] = "none"
  /\ att[n].state = "provider_call_started" /\ att[n].token = s
  /\ Reports(n, r) \/ (r = "unknown" /\ SettleIndeterminate(s, n))
  /\ hmac' = [hmac EXCEPT ![n] = r]

(* A completion repeats the result on record, or it settles the attempt. *)
LEMMA Completion ==
  ASSUME NEW s \in Sessions, NEW n \in Attempts, NEW r \in Results,
         CompleteRuntimeAttempt(s, n, r)
  PROVE  \/ UNCHANGED ledger /\ hmac' = hmac /\ hmac[n] = r
         \/ Completes(s, n, r)
<1>1. sess[s] = "live" /\ r \in sent[n] /\ att[n].token = s
  BY DEF CompleteRuntimeAttempt, LiveAuthority
<1>2. CASE hmac[n] # "none"
  BY <1>2 DEF CompleteRuntimeAttempt, Replays
<1>3. CASE hmac[n] = "none"
  <2>1. /\ att[n].state = "provider_call_started"
        /\ SettleReported(n, r) \/ SettleUnknown(n, r)
        /\ hmac' = [hmac EXCEPT ![n] = r]
        /\ UNCHANGED <<policy, approval, recon, input, clocks, authority>>
    BY <1>3 DEF CompleteRuntimeAttempt
  <2>2. SettleReported(n, r) => Reports(n, r)
    BY <2>1 DEF Reports
  <2>3. SettleUnknown(n, r) => r = "unknown" /\ SettleIndeterminate(s, n)
    BY <1>1, <2>1 DEF SettleUnknown, SettleIndeterminate, Holds
  <2> QED BY <1>1, <1>3, <2>1, <2>2, <2>3 DEF Completes
<1> QED BY <1>2, <1>3

(* Every step of the channel is one of these, or leaves the rows. *)
LEMMA ChannelSteps ==
  ASSUME Next
  PROVE  \/ (UNCHANGED ledger \/ HostStep) /\ hmac' = hmac
         \/ \E s \in Sessions, n \in Attempts : SessionStep(s, n) /\ hmac' = hmac
         \/ \E s \in Sessions, n \in Attempts, r \in Results : Completes(s, n, r)
<1>1. ASSUME NEW s \in Sessions, IssueSession(s) \/ EndSession(s)
      PROVE  UNCHANGED ledger /\ hmac' = hmac
  BY <1>1 DEF IssueSession, EndSession
<1>2. ASSUME NEW s \in Sessions, ClaimFindsExpired(s)
      PROVE  HostStep /\ hmac' = hmac
  BY <1>2 DEF ClaimFindsExpired, HostStep, OtherStep
<1>3. ASSUME NEW s \in Sessions, NEW n \in Attempts,
             ClaimRuntimeAttempt(s, n) \/ HeartbeatRuntimeAttempt(s, n)
      PROVE  SessionStep(s, n) /\ hmac' = hmac
  BY <1>3 DEF ClaimRuntimeAttempt, HeartbeatRuntimeAttempt, SessionStep, LiveAuthority
<1>4. ASSUME NEW s \in Sessions, NEW n \in Attempts, StartRuntimeAttempt(s, n)
      PROVE  (UNCHANGED ledger \/ SessionStep(s, n)) /\ hmac' = hmac
  BY <1>4 DEF StartRuntimeAttempt, SessionStep, LiveAuthority
<1>5. ASSUME NEW s \in Sessions, NEW n \in Attempts,
             DeliverInput(s, n) \/ Perform(s, n) \/ \E r \in Results : Report(s, n, r)
      PROVE  UNCHANGED ledger /\ hmac' = hmac
  BY <1>5 DEF DeliverInput, Perform, Report
<1>6. ASSUME NEW s \in Sessions, NEW n \in Attempts, NEW r \in Results,
             CompleteRuntimeAttempt(s, n, r)
      PROVE  (UNCHANGED ledger /\ hmac' = hmac) \/ Completes(s, n, r)
  BY <1>6, Completion
<1>7. CASE RevokeBinding \/ Recover \/ PurgeRun \/ SubmitRun \/ Decide \/ CancelRun \/ Reconcile
           \/ (\E n \in Attempts : LeaseRunsDown(n)) \/ RetentionEnds
  BY <1>7 DEF RevokeBinding, Recover, PurgeRun, SubmitRun, Decide, CancelRun, Reconcile,
     LeaseRunsDown, RetentionEnds, HostStep, HumanStep, OtherStep
<1> QED
  <2>1. CASE \E s \in Sessions : Request(s)
    <3>1. PICK s \in Sessions : Request(s)
      BY <2>1
    <3> QED BY <1>1, <1>2, <1>3, <1>4, <1>5, <1>6, <3>1 DEF Request
  <2> QED BY <1>7, <2>1 DEF Next

(* What the channel does to the rows, a report apart, the workers' path does   *)
(* as well.                                                                    *)
LEMMA ChannelStepsAreLedgerSteps ==
  /\ HostStep => LedgerStep
  /\ \A s \in Sessions, n \in Attempts : SessionStep(s, n) => LedgerStep
  /\ \A s \in Sessions, n \in Attempts, r \in Results :
       Completes(s, n, r) /\ ~Reports(n, r) => LedgerStep
BY SessionAssumption
   DEF HostStep, SessionStep, Completes, LedgerStep, AttemptStep, ExecutionStep, Execution

(* A report ends its attempt with its outcome, and the run with it. *)
LEMMA ReportEffect ==
  ASSUME LedgerTypeOK, NEW n \in Attempts, NEW r \in Results, Reports(n, r)
  PROVE  /\ att'[n].state = (IF r = "ok" THEN "succeeded" ELSE "failed")
         /\ att'[n].token = att[n].token /\ att'[n].started = att[n].started
         /\ att'[n].lease = att[n].lease
         /\ \A m \in Attempts \ {n} : att'[m] = att[m]
         /\ att' \in [Attempts -> AttemptType]
         /\ run' \in RunType
         /\ run'.state = (IF r = "ok" THEN "succeeded" ELSE "failed")
         /\ run'.release = run.release
         /\ Legal(run.state, run'.state)
         /\ outputs' \in SUBSET Attempts
         /\ jobs' = jobs
         /\ r # "unknown"
<1>0. /\ run \in RunType /\ att \in [Attempts -> AttemptType] /\ att[n] \in AttemptType
      /\ resultLive \in BOOLEAN /\ outputs \in SUBSET Attempts
  BY DEF LedgerTypeOK
<1>1. PICK o : o = OutcomeOf(r)
  OBVIOUS
<1>2. o \in OutcomeType /\ (o.success <=> r = "ok")
  <2>1. CASE r = "not_attempted"
    BY <1>1, <2>1, OutcomeTypes DEF OutcomeOf, NotAttempted
  <2>2. CASE r # "not_attempted"
    <3>1. (r = "ok") \in BOOLEAN
      OBVIOUS
    <3>2. o = Returned(r = "ok", resultLive)
      BY <1>1, <2>2 DEF OutcomeOf
    <3> QED BY <1>0, <3>1, <3>2, OutcomeTypes DEF Returned
  <2> QED BY <2>1, <2>2
<1>3. PICK s : s = KnownState(o)
  OBVIOUS
<1>4. s = (IF r = "ok" THEN "succeeded" ELSE "failed")
  BY <1>2, <1>3 DEF KnownState
<1>5. s \in Ended /\ s \in RunStates
  BY <1>4 DEF Ended, RunStates
<1>6. /\ r # "unknown"
      /\ Legal(run.state, s)
      /\ att' = [EndAttempt(n, s, s, FALSE) EXCEPT ![n].outcome = o]
      /\ run' = Transition(run, s, o)
      /\ outputs' = IF o.result = "retained" THEN outputs \cup {n} ELSE outputs
      /\ jobs' = jobs
  BY <1>1, <1>3 DEF Reports, SettleReported
<1>7. run' \in RunType /\ run'.state = s /\ run'.release = run.release
  BY <1>0, <1>2, <1>5, <1>6, TransitionType, TransitionEffect
<1>8. PICK b : b = EndAttempt(n, s, s, FALSE)
  OBVIOUS
<1>9. /\ b \in [Attempts -> AttemptType]
      /\ b[n].state = s /\ b[n].token = att[n].token /\ b[n].started = att[n].started
      /\ b[n].lease = att[n].lease
      /\ \A m \in Attempts \ {n} : b[m] = att[m]
  <2>1. b \in [Attempts -> AttemptType]
    BY <1>5, <1>8, EndAttemptType
  <2> QED BY <1>0, <1>8, <2>1 DEF EndAttempt, AttemptType
<1>10. att' = [b EXCEPT ![n].outcome = o]
  BY <1>6, <1>8
<1>11. /\ [b[n] EXCEPT !.outcome = o] \in AttemptType
       /\ att' = [b EXCEPT ![n] = [b[n] EXCEPT !.outcome = o]]
  BY <1>2, <1>9, <1>10 DEF AttemptType
<1>12. att' \in [Attempts -> AttemptType]
  BY <1>9, <1>11
<1>13. /\ att'[n].state = s /\ att'[n].token = att[n].token /\ att'[n].started = att[n].started
       /\ att'[n].lease = att[n].lease
       /\ \A m \in Attempts \ {n} : att'[m] = att[m]
  BY <1>9, <1>11 DEF AttemptType
<1> QED BY <1>0, <1>4, <1>6, <1>7, <1>12, <1>13

-----------------------------------------------------------------------------
(* What every step of the channel does to the rows. *)

(* Tokens and starts stay, ended attempts are frozen, the run moves by the     *)
(* rule, and a reconciliation is recorded with the state it resolves to.       *)
RowsMove ==
  /\ policy' = policy
  /\ \A k \in Attempts : /\ att[k].token # Nobody => att'[k].token = att[k].token
                         /\ att[k].started => att'[k].started
                         /\ att[k].state \in Ended => att'[k] = att[k]
  /\ RunMoves
  /\ recon' = recon \/ run'.state = recon'

(* The steps that the channel shares with the workers' path. *)
LEMMA LedgerRowsMove ==
  ASSUME LedgerTypeOK, RowsInv, LedgerStep \/ UNCHANGED ledger
  PROVE  RowsMove
<1>1. policy' = policy
  BY TransactionAuthority DEF AuthorityMoves
<1>2. recon' = recon \/ run'.state = recon'
  <2>1. ASSUME NEW s \in {"succeeded", "failed"}, ReconcileUnknown(s)
        PROVE  run'.state = recon'
    <3>1. PICK o : run' = Transition(run, s, o) /\ recon' = s
      BY <2>1 DEF ReconcileUnknown
    <3> QED BY <3>1, TransitionEffect DEF LedgerTypeOK
  <2>2. CASE HumanStep
    BY <2>1, <2>2 DEF HumanStep, Submit, Cancel, ApproveFirst, ApproveAgain, ApproveTooLate, Reject
  <2>3. CASE OtherStep
    BY <2>3 DEF OtherStep, ClaimExpiresRun, PrepareRows, JobSettled, Purge, InputExpires,
       ResultExpires, Revoke, rows
  <2>4. ASSUME NEW n \in Attempts, AttemptStep(n)
        PROVE  recon' = recon
    BY <2>4 DEF AttemptStep, RecoverRun, SettleBeforeCallFailure, LeaseTick
  <2>5. ASSUME NEW w \in Processes, NEW n \in Attempts, ExecutionStep(w, n)
        PROVE  recon' = recon
    BY <2>5 DEF ExecutionStep, Execution, Claim, MarkProviderCallStarted, RenewLease,
       PersistKnownResult, FinalizeKnownResult, SettleIndeterminate, ExecuteNative
  <2> QED BY <2>2, <2>3, <2>4, <2>5 DEF LedgerStep, ledger
<1> QED BY <1>1, <1>2, TokensAndStartsPersist, TransactionsFreeze, TransactionMoves DEF RowsMove

(* A report. *)
LEMMA ReportRows ==
  ASSUME LedgerTypeOK, RowsInv, ApprovalAgrees, NeverExternal,
         NEW n \in Attempts, NEW r \in Results, att[n].state = "provider_call_started",
         Reports(n, r)
  PROVE  LedgerTypeOK' /\ RowsInv' /\ ApprovalAgrees' /\ RowsMove
         /\ run.state = "running"
<1>0. /\ att[n].state \in Leased
      /\ UNCHANGED <<policy, approval, recon, input, clocks, authority>>
  BY DEF Leased, Reports
<1>1. /\ att'[n].token = att[n].token /\ att'[n].started = att[n].started
      /\ \A m \in Attempts \ {n} : att'[m] = att[m]
      /\ att' \in [Attempts -> AttemptType] /\ run' \in RunType
      /\ run'.release = run.release
      /\ Legal(run.state, run'.state)
      /\ outputs' \in SUBSET Attempts
      /\ jobs' = jobs
  BY ReportEffect
<1>2. att'[n].state \in {"succeeded", "failed"} /\ run'.state \in {"succeeded", "failed"}
  BY ReportEffect
<1>3. LedgerTypeOK'
  BY <1>0, <1>1 DEF LedgerTypeOK, clocks
<1>4. run.state = "running"
  <2>1. run.state \in RunStates
    BY DEF LedgerTypeOK, RunType
  <2>2. run.state \notin {"succeeded", "failed", "unknown_outcome", "waiting_external"}
    BY DEF RowsInv, OneActiveAttempt, HasActive, Active, NeverExternal
  <2> QED BY <1>1, <1>2, <2>1, <2>2, LegalSources
<1>5. run.release # "none"
  BY <1>4 DEF RowsInv, UnreleasedRun
<1>6. RowsInv'
  <2>1. att'[n].state \in Ended /\ run'.state \in Closed \ {"cancelled"}
    BY <1>2 DEF Ended, Closed, Terminal
  <2> QED BY <1>0, <1>1, <1>5, <2>1, ClosedRows
<1>7. ApprovalAgrees'
  BY <1>0, <1>1, <1>2, <1>4 DEF ApprovalAgrees
<1>8. RunMoves
  BY <1>2, <1>4 DEF RunMoves, Closed, Terminal
<1>9. RowsMove
  BY <1>0, <1>1, <1>8 DEF RowsMove, Leased, Ended
<1> QED BY <1>3, <1>4, <1>6, <1>7, <1>9

(* Every step keeps the rows' invariants and moves the rows by the rule. *)
LEMMA NextRows ==
  ASSUME LedgerTypeOK, RowsInv, ApprovalAgrees, NeverExternal, ReconciliationStands, [Next]_vars
  PROVE  /\ LedgerTypeOK' /\ RowsInv' /\ ApprovalAgrees' /\ NeverExternal' /\ ReconciliationStands'
         /\ RowsMove
<1>1. LedgerTypeOK' /\ RowsInv' /\ ApprovalAgrees' /\ RowsMove
  <2>1. CASE LedgerStep \/ UNCHANGED ledger
    BY <2>1, LedgerStepType, LedgerStepRows, LedgerStepApproval, LedgerRowsMove
  <2>2. CASE \E s \in Sessions, n \in Attempts, r \in Results : Completes(s, n, r) /\ Reports(n, r)
    BY <2>2, ReportRows DEF Completes
  <2> QED BY <2>1, <2>2, ChannelSteps, ChannelStepsAreLedgerSteps DEF vars
<1>2. NeverExternal'
  BY <1>1 DEF RowsMove, RunMoves, NeverExternal
<1>3. ReconciliationStands'
  <2>1. CASE recon' = recon /\ recon # "none"
    <3>1. run.state = recon /\ recon \in {"succeeded", "failed"}
      BY <2>1 DEF ReconciliationStands, LedgerTypeOK
    <3> QED BY <1>1, <2>1, <3>1 DEF RowsMove, RunMoves, ReconciliationStands, Closed, Terminal
  <2> QED BY <1>1, <2>1 DEF RowsMove, ReconciliationStands
<1> QED BY <1>1, <1>2, <1>3

(* Nothing but a report writes an outcome. *)
LEMMA OnlyReportsWriteOutcomes ==
  ASSUME LedgerTypeOK, OutcomesAreFinal,
         \/ HostStep \/ UNCHANGED ledger
         \/ \E s \in Sessions, n \in Attempts : SessionStep(s, n) \/ SettleIndeterminate(s, n)
  PROVE  \A k \in Attempts : att'[k].outcome = att[k].outcome
<1>0. run \in RunType /\ att \in [Attempts -> AttemptType]
  BY DEF LedgerTypeOK
<1>1. OutcomeOrder
  BY DEF OutcomesAreFinal, OutcomeOrder, Ended
<1>2. CASE att' = att
  BY <1>2
<1>3. ASSUME NEW r \in RunType, Schedule(r)
      PROVE  \A k \in Attempts : att'[k].outcome = att[k].outcome
  BY <1>1, <1>3, SchedulePayload
<1>4. CASE HumanStep
  <2>1. CASE Submit
    <3>1. SubmittedRun \in RunType
      BY OutcomeTypes DEF SubmittedRun, NoRun, RunType, RunStates
    <3> QED BY <1>3, <2>1, <3>1 DEF Submit
  <2>2. ASSUME NEW a \in Approvers, ApproveFirst(a)
        PROVE  \A k \in Attempts : att'[k].outcome = att[k].outcome
    <3>1. PICK r : r = ApprovedRun
      OBVIOUS
    <3>2. r \in RunType
      BY <3>1, ApprovedRunFields
    <3>3. Schedule(r)
      BY <2>2, <3>1 DEF ApproveFirst
    <3> QED BY <1>3, <3>2, <3>3
  <2>3. ASSUME NEW a \in Approvers, ApproveAgain(a)
        PROVE  \A k \in Attempts : att'[k].outcome = att[k].outcome
    BY <1>0, <1>3, <2>3 DEF ApproveAgain
  <2> QED BY <1>2, <1>4, <2>1, <2>2, <2>3 DEF HumanStep, Cancel, ApproveTooLate, Reject, ReconcileUnknown
<1>5. CASE OtherStep
  BY <1>0, <1>2, <1>3, <1>5 DEF OtherStep, ClaimExpiresRun, PrepareRows, JobSettled, Purge,
     InputExpires, ResultExpires, Revoke, rows
<1>6. ASSUME NEW n \in Attempts, RecoverRun(n) \/ LeaseTick(n)
      PROVE  \A k \in Attempts : att'[k].outcome = att[k].outcome
  <2>1. CASE LeaseTick(n)
    BY <1>0, <2>1 DEF LeaseTick, AttemptType
  <2>2. CASE RecoverRun(n)
    BY <1>1, <2>2, EndingOutcomes DEF RecoverRun
  <2> QED BY <1>6, <2>1, <2>2
<1>7. ASSUME NEW s \in Sessions, NEW n \in Attempts, SessionStep(s, n)
      PROVE  \A k \in Attempts : att'[k].outcome = att[k].outcome
  <2>1. CASE Claim(s, n)
    BY <1>0, <2>1 DEF Claim, AttemptType
  <2>2. CASE MarkProviderCallStarted(s, n)
    BY <1>0, <2>2 DEF MarkProviderCallStarted, AttemptType
  <2>3. CASE RenewLease(s, n)
    BY <1>0, <2>3 DEF RenewLease, AttemptType
  <2> QED BY <1>7, <2>1, <2>2, <2>3 DEF SessionStep
<1>8. ASSUME NEW s \in Sessions, NEW n \in Attempts, SettleIndeterminate(s, n)
      PROVE  \A k \in Attempts : att'[k].outcome = att[k].outcome
  BY <1>1, <1>8, EndingOutcomes DEF SettleIndeterminate
<1>9. CASE UNCHANGED ledger
  BY <1>2, <1>9 DEF ledger
<1> QED BY <1>4, <1>5, <1>6, <1>7, <1>8, <1>9 DEF HostStep

(* An outcome and the end of its started attempt are one transaction. *)
LEMMA NextOutcomes ==
  ASSUME LedgerTypeOK, RowsInv, OutcomesAreFinal, RowsMove, [Next]_vars
  PROVE  OutcomesAreFinal'
<1>1. CASE \A k \in Attempts : att'[k].outcome = att[k].outcome
  BY <1>1 DEF RowsMove, OutcomesAreFinal
<1>2. ASSUME NEW s \in Sessions, NEW n \in Attempts, NEW r \in Results, Completes(s, n, r),
             Reports(n, r)
      PROVE  OutcomesAreFinal'
  <2>1. /\ att'[n].state \in {"succeeded", "failed"} /\ att'[n].started = att[n].started
        /\ \A m \in Attempts \ {n} : att'[m] = att[m]
    BY <1>2, ReportEffect
  <2>2. att[n].started
    BY <1>2 DEF Completes, RowsInv, AttemptOrder
  <2> QED BY <2>1, <2>2 DEF OutcomesAreFinal, Ended
<1> QED BY <1>1, <1>2, ChannelSteps, OnlyReportsWriteOutcomes DEF vars, Completes

-----------------------------------------------------------------------------
(* What a client may see of a step. *)

(* A report concludes a running run. *)
Concluded(n, r) ==
  /\ run.state = "running"
  /\ run'.state = (IF r = "ok" THEN "succeeded" ELSE "failed")
  /\ ReleaseKept /\ StartsKept

(* Every step moves the run as the workers' path does, or concludes it. *)
LEMMA NextMoves ==
  ASSUME LedgerTypeOK, RowsInv, ApprovalAgrees, NeverExternal, [Next]_vars
  PROVE  \/ Moves
         \/ \E s \in Sessions, n \in Attempts, r \in Results : Completes(s, n, r) /\ Concluded(n, r)
<1>1. CASE UNCHANGED ledger
  BY <1>1 DEF ledger, Moves, Stays, ReleaseKept, StartsKept
<1>2. CASE HostStep
  BY <1>2, HumanContract, OthersContract DEF HostStep, AttemptStep
<1>3. ASSUME NEW s \in Sessions, NEW n \in Attempts, SessionStep(s, n) \/ SettleIndeterminate(s, n)
      PROVE  Moves
  <2>1. s \in Processes /\ Execution(s, n)
    BY <1>3, SessionAssumption DEF SessionStep, Execution
  <2> QED BY <2>1, OthersContract
<1>4. ASSUME NEW s \in Sessions, NEW n \in Attempts, NEW r \in Results, Completes(s, n, r),
             Reports(n, r)
      PROVE  Concluded(n, r)
  <2>1. run.state = "running"
    BY <1>4, ReportRows DEF Completes
  <2>2. /\ run'.state = (IF r = "ok" THEN "succeeded" ELSE "failed")
        /\ run'.release = run.release
        /\ \A k \in Attempts : att'[k].started = att[k].started
    BY <1>4, ReportEffect
  <2> QED BY <2>1, <2>2 DEF Concluded, ReleaseKept, StartsKept
<1> QED BY <1>1, <1>2, <1>3, <1>4, ChannelSteps DEF vars, Completes

(* A run that runs has started an attempt. *)
LEMMA NextRunning ==
  ASSUME LedgerTypeOK, RowsInv, ApprovalAgrees, NeverExternal, RunningStarted, [Next]_vars
  PROVE  RunningStarted'
<1>1. CASE Moves
  BY <1>1, MovesKeepRunning
<1>2. CASE \E s \in Sessions, n \in Attempts, r \in Results : Completes(s, n, r) /\ Concluded(n, r)
  BY <1>2 DEF Concluded, RunningStarted
<1> QED BY <1>1, <1>2, NextMoves

-----------------------------------------------------------------------------
(* What the channel and the runtime remember. *)

(* A step is a start, a delivery, an effect, a report or a completion, or it   *)
(* leaves all that the channel and the runtime remember of an input.           *)
Elsewhere == UNCHANGED <<marked, given, done, sent, hmac, acked>>
LEMMA ChannelCases ==
  ASSUME [Next]_vars
  PROVE  \/ Elsewhere
         \/ \E s \in Sessions, n \in Attempts :
              \/ StartRuntimeAttempt(s, n) \/ DeliverInput(s, n) \/ Perform(s, n)
              \/ \E r \in Results : Report(s, n, r) \/ CompleteRuntimeAttempt(s, n, r)
<1>1. ASSUME NEW s \in Sessions, IssueSession(s) \/ EndSession(s) \/ ClaimFindsExpired(s)
      PROVE  Elsewhere
  BY <1>1 DEF IssueSession, EndSession, ClaimFindsExpired, Elsewhere, runtime
<1>2. ASSUME NEW s \in Sessions, NEW n \in Attempts,
             ClaimRuntimeAttempt(s, n) \/ HeartbeatRuntimeAttempt(s, n)
      PROVE  Elsewhere
  BY <1>2 DEF ClaimRuntimeAttempt, HeartbeatRuntimeAttempt, Elsewhere, runtime
<1>3. CASE RevokeBinding \/ Recover \/ PurgeRun \/ SubmitRun \/ Decide \/ CancelRun \/ Reconcile
           \/ (\E n \in Attempts : LeaseRunsDown(n)) \/ RetentionEnds
  BY <1>3 DEF RevokeBinding, Recover, PurgeRun, SubmitRun, Decide, CancelRun, Reconcile,
     LeaseRunsDown, RetentionEnds, Elsewhere, runtime
<1>4. CASE UNCHANGED vars
  BY <1>4 DEF vars, runtime, Elsewhere
<1>5. ASSUME NEW s \in Sessions, Request(s)
      PROVE  \/ Elsewhere
             \/ \E n \in Attempts :
                  \/ StartRuntimeAttempt(s, n) \/ DeliverInput(s, n) \/ Perform(s, n)
                  \/ \E r \in Results : Report(s, n, r) \/ CompleteRuntimeAttempt(s, n, r)
  BY <1>1, <1>2, <1>5 DEF Request
<1> QED BY <1>3, <1>4, <1>5 DEF Next

(* Inputs are given by deliveries, effects are the runtime's own, and only a   *)
(* completion acknowledges.                                                    *)
LEMMA WhoWrites ==
  ASSUME [Next]_vars
  PROVE  /\ given' = given \/ \E s \in Sessions, n \in Attempts : DeliverInput(s, n)
         /\ done' = done \/ \E s \in Sessions, n \in Attempts : Perform(s, n)
         /\ \/ acked' = acked
            \/ \E s \in Sessions, n \in Attempts, r \in Results : CompleteRuntimeAttempt(s, n, r)
<1>1. ASSUME NEW s \in Sessions, NEW n \in Attempts, StartRuntimeAttempt(s, n)
      PROVE  given' = given /\ done' = done /\ acked' = acked
  BY <1>1 DEF StartRuntimeAttempt, runtime
<1>2. ASSUME NEW s \in Sessions, NEW n \in Attempts, DeliverInput(s, n)
      PROVE  done' = done /\ acked' = acked
  BY <1>2 DEF DeliverInput
<1>3. ASSUME NEW s \in Sessions, NEW n \in Attempts, Perform(s, n)
      PROVE  given' = given /\ acked' = acked
  BY <1>3 DEF Perform
<1>4. ASSUME NEW s \in Sessions, NEW n \in Attempts, NEW r \in Results, Report(s, n, r)
      PROVE  given' = given /\ done' = done /\ acked' = acked
  BY <1>4 DEF Report
<1>5. ASSUME NEW s \in Sessions, NEW n \in Attempts, NEW r \in Results,
             CompleteRuntimeAttempt(s, n, r)
      PROVE  given' = given /\ done' = done
  BY <1>5 DEF CompleteRuntimeAttempt
<1>6. CASE Elsewhere
  BY <1>6 DEF Elsewhere
<1>7. CASE \E s \in Sessions, n \in Attempts :
              \/ StartRuntimeAttempt(s, n) \/ DeliverInput(s, n) \/ Perform(s, n)
              \/ \E r \in Results : Report(s, n, r) \/ CompleteRuntimeAttempt(s, n, r)
  BY <1>1, <1>2, <1>3, <1>4, <1>5, <1>7
<1> QED BY <1>6, <1>7, ChannelCases

(* The channel's variables stay well typed. *)
LEMMA ChannelType ==
  ASSUME TypeOK, LedgerTypeOK', [Next]_vars
  PROVE  TypeOK'
<1> USE DEF TypeOK
<1>1. sess' \in [Sessions -> {"none", "live", "ended"}]
  <2>1. ASSUME NEW s \in Sessions, IssueSession(s) \/ EndSession(s)
        PROVE  sess' \in [Sessions -> {"none", "live", "ended"}]
    BY <2>1 DEF IssueSession, EndSession
  <2>2. CASE RevokeBinding
    BY <2>2 DEF RevokeBinding
  <2>3. CASE sess' = sess
    BY <2>3
  <2>4. ASSUME NEW s \in Sessions, Request(s)
        PROVE  sess' = sess \/ IssueSession(s) \/ EndSession(s)
    BY <2>4 DEF Request, ClaimFindsExpired, ClaimRuntimeAttempt, StartRuntimeAttempt, DeliverInput,
       HeartbeatRuntimeAttempt, Perform, Report, CompleteRuntimeAttempt
  <2> QED BY <2>1, <2>2, <2>3, <2>4 DEF Next, vars, Recover, PurgeRun, SubmitRun, Decide, CancelRun,
          Reconcile, LeaseRunsDown, RetentionEnds
<1>2. known \subseteq known' /\ known' \subseteq Sessions \X Attempts
  <2>1. ASSUME NEW s \in Sessions, NEW n \in Attempts, ClaimRuntimeAttempt(s, n)
        PROVE  known \subseteq known' /\ known' \subseteq Sessions \X Attempts
    BY <2>1 DEF ClaimRuntimeAttempt
  <2>2. CASE known' = known
    BY <2>2
  <2>3. ASSUME NEW s \in Sessions, Request(s)
        PROVE  known' = known \/ \E n \in Attempts : ClaimRuntimeAttempt(s, n)
    BY <2>3 DEF Request, IssueSession, EndSession, ClaimFindsExpired, StartRuntimeAttempt,
       DeliverInput, HeartbeatRuntimeAttempt, Perform, Report, CompleteRuntimeAttempt, runtime
  <2> QED BY <2>1, <2>2, <2>3 DEF Next, vars, runtime, RevokeBinding, Recover, PurgeRun, SubmitRun,
          Decide, CancelRun, Reconcile, LeaseRunsDown, RetentionEnds
<1> DEFINE Typed == /\ marked' \subseteq known' /\ given' \subseteq known' /\ done' \subseteq Attempts
                    /\ sent' \in [Attempts -> SUBSET Results]
                    /\ hmac' \in [Attempts -> Results \cup {"none"}]
                    /\ acked' \in [Attempts -> SUBSET Results]
<1>3. Typed
  <2>1. CASE Elsewhere
    BY <1>2, <2>1 DEF Elsewhere
  <2>2. ASSUME NEW s \in Sessions, NEW n \in Attempts, StartRuntimeAttempt(s, n)
        PROVE  Typed
    BY <1>2, <2>2 DEF StartRuntimeAttempt, runtime
  <2>3. ASSUME NEW s \in Sessions, NEW n \in Attempts, DeliverInput(s, n)
        PROVE  Typed
    BY <1>2, <2>3 DEF DeliverInput
  <2>4. ASSUME NEW s \in Sessions, NEW n \in Attempts, Perform(s, n)
        PROVE  Typed
    BY <1>2, <2>4 DEF Perform
  <2>5. ASSUME NEW s \in Sessions, NEW n \in Attempts, NEW r \in Results, Report(s, n, r)
        PROVE  Typed
    BY <1>2, <2>5 DEF Report
  <2>6. ASSUME NEW s \in Sessions, NEW n \in Attempts, NEW r \in Results,
               CompleteRuntimeAttempt(s, n, r)
        PROVE  Typed
    <3>1. hmac' \in [Attempts -> Results \cup {"none"}]
      BY <2>6 DEF CompleteRuntimeAttempt
    <3> QED BY <1>2, <2>6, <3>1 DEF CompleteRuntimeAttempt
  <2> QED BY <2>1, <2>2, <2>3, <2>4, <2>5, <2>6, ChannelCases
<1> QED BY <1>1, <1>2, <1>3

-----------------------------------------------------------------------------
(* What becomes of a running run and of its input. *)

(* In a one-shot run the started attempt is the only one that can be active. *)
LEMMA OnlyStarted ==
  ASSUME OneShotPolicy, RowsInv, NEW n \in Attempts, NEW m \in Attempts, att[n].started,
         att[m].started \/ att[m].state \in Active
  PROVE  m = n
BY DEF OneShotPolicy, RowsInv, OneShotStartsOnce, OneShot

(* A call that may have been made is never retried: its attempt and its run    *)
(* end with an unknown outcome.                                                *)
LEMMA LostCallIsUnknown ==
  ASSUME LedgerTypeOK, OneShotPolicy, NEW n \in Attempts, att[n].state = "provider_call_started",
         RecoverUnknown(n)
  PROVE  run'.state = "unknown_outcome" /\ att'[n].state = "unknown_outcome"
<1>1. run \in RunType /\ att \in [Attempts -> AttemptType]
  BY DEF LedgerTypeOK
<1>2. ~MayRetry(n) /\ LostState(n) = "unknown_outcome"
  BY DEF MayRetry, OneShotPolicy, LostState
<1>3. CloseLost(n)
  BY <1>2 DEF RecoverUnknown, RetryLost, CanRetry
<1>4. /\ att' = EndAttempt(n, "unknown_outcome", "unknown_outcome", FALSE)
      /\ run' = Transition(run, "unknown_outcome", UnknownOutcome)
  BY <1>2, <1>3 DEF CloseLost
<1>5. att'[n].state = "unknown_outcome"
  BY <1>1, <1>4 DEF EndAttempt, AttemptType
<1> QED BY <1>1, <1>4, <1>5, TransitionEffect

(* Without a report a running run goes on or ends with an unknown outcome.     *)
LEMMA RunningGoesOn ==
  ASSUME LedgerTypeOK, RowsHold, run.state = "running", [Next]_vars
  PROVE  \/ run'.state \in {"running", "unknown_outcome"}
         \/ \E s \in Sessions, n \in Attempts, r \in Results : Completes(s, n, r) /\ Reports(n, r)
<1>0. /\ OneShotPolicy /\ RowsInv /\ ApprovalAgrees /\ NeverExternal /\ OutcomesAreFinal
      /\ run \in RunType /\ att \in [Attempts -> AttemptType]
  BY DEF RowsHold, LedgerTypeOK
<1>1. PICK k \in Attempts : att[k].started
  BY DEF RowsHold, RunningStarted
<1>2. ASSUME NEW m \in Attempts
      PROVE  att[m].outcome = NoOutcome
  BY <1>0, <1>2 DEF OutcomesAreFinal, RowsInv, OneShotStartsOnce, OneShot, OneShotPolicy, Closed, Terminal
<1>3. ASSUME Moves, run'.state # "failed"
      PROVE  run'.state \in {"running", "unknown_outcome"}
  <2>1. \A m \in Attempts : ~att[m].outcome.success
    BY <1>2 DEF NoOutcome
  <2> QED BY <1>3, <2>1 DEF Moves, Stays, Submits, Releases, Abandons, Grants, Concludes, Resolves, Waiting
<1>4. ASSUME NEW n \in Attempts, att[n].state \in Leased
      PROVE  att[n].state = "provider_call_started"
  <2>1. att[n].started
    BY <1>0, <1>1, <1>4, OnlyStarted DEF Leased, Active
  <2> QED BY <1>0, <1>4, <2>1 DEF RowsInv, AttemptOrder, Leased
<1>5. ASSUME UNCHANGED ledger PROVE run'.state = "running"
  BY <1>5 DEF ledger
<1>6. CASE HostStep
  <2>0. Moves
    BY <1>0, <1>6, HumanContract, OthersContract DEF HostStep, AttemptStep
  <2>1. CASE HumanStep
    <3>1. run.release # "none"
      BY <1>0 DEF RowsInv, UnreleasedRun
    <3>2. ASSUME Schedule(run) PROVE run'.state = "running"
      BY <1>0, <3>2 DEF Schedule, RunType
    <3>3. Cancel => run'.state = "running"
      BY <1>0 DEF Cancel, Waiting, RunType
    <3>4. ~Submit /\ \A a \in Approvers : ~ApproveFirst(a) /\ ~ApproveTooLate(a)
      BY <3>1 DEF Submit, ApproveFirst, ApproveTooLate
    <3>5. ASSUME NEW a \in Approvers, Reject(a) PROVE run' = run
      BY <3>1, <3>5 DEF Reject, RejectReleased, RejectClosed, RejectFirst
    <3>6. \A s \in {"succeeded", "failed"} : ~ReconcileUnknown(s)
      BY DEF ReconcileUnknown
    <3> QED BY <2>1, <3>2, <3>3, <3>4, <3>5, <3>6 DEF HumanStep, ApproveAgain
  <2>2. CASE OtherStep
    <3>1. ClaimExpiresRun => run'.state = "expired"
      BY <1>0, TransitionEffect DEF ClaimExpiresRun
    <3>2. PrepareRows \/ Purge => run'.state = "running"
      BY <1>0 DEF PrepareRows, Schedule, Purge, PurgedRun, RunType, Waiting
    <3>3. JobSettled \/ InputExpires \/ ResultExpires \/ Revoke => run' = run
      BY DEF JobSettled, InputExpires, ResultExpires, Revoke, rows
    <3> QED BY <1>3, <2>0, <2>2, <3>1, <3>2, <3>3 DEF OtherStep
  <2>3. ASSUME NEW n \in Attempts, RecoverRun(n)
        PROVE  run'.state = "unknown_outcome"
    <3>1. att[n].state = "provider_call_started"
      BY <1>4, <2>3 DEF RecoverRun, Lapsed
    <3>2. RecoverUnknown(n)
      BY <1>2, <2>3, <3>1 DEF RecoverRun, AbandonedByExpiry, IsKnown
    <3> QED BY <1>0, <3>1, <3>2, LostCallIsUnknown
  <2>4. ASSUME NEW n \in Attempts, LeaseTick(n) PROVE run' = run
    BY <2>4 DEF LeaseTick
  <2> QED BY <1>6, <2>1, <2>2, <2>3, <2>4 DEF HostStep
<1>7. ASSUME NEW s \in Sessions, NEW n \in Attempts, SessionStep(s, n)
      PROVE  run'.state = "running"
  BY <1>7 DEF SessionStep, Claim, MarkProviderCallStarted, RenewLease, Waiting
<1>8. ASSUME NEW s \in Sessions, NEW n \in Attempts, SettleIndeterminate(s, n)
      PROVE  run'.state = "unknown_outcome"
  BY <1>0, <1>8, LostCallIsUnknown DEF SettleIndeterminate, Holds
<1> QED BY <1>5, <1>6, <1>7, <1>8, ChannelSteps DEF vars, Completes

-----------------------------------------------------------------------------
(* The channel's invariants, one by one. *)

(* Inputs are given for good, results are sent for good, and the result on     *)
(* record is never replaced.                                                   *)
LEMMA MemoryGrows ==
  ASSUME TypeOK, [Next]_vars
  PROVE  /\ given \subseteq given' /\ done \subseteq done'
         /\ \A n \in Attempts : /\ sent[n] \subseteq sent'[n]
                                /\ hmac[n] # "none" => hmac'[n] = hmac[n]
<1>0. sent \in [Attempts -> SUBSET Results] /\ hmac \in [Attempts -> Results \cup {"none"}]
  BY DEF TypeOK
<1>1. CASE Elsewhere
  BY <1>1 DEF Elsewhere
<1>2. ASSUME NEW s \in Sessions, NEW n \in Attempts,
             StartRuntimeAttempt(s, n) \/ DeliverInput(s, n) \/ Perform(s, n)
      PROVE  given \subseteq given' /\ done \subseteq done' /\ sent' = sent /\ hmac' = hmac
  BY <1>2 DEF StartRuntimeAttempt, DeliverInput, Perform, runtime
<1>3. ASSUME NEW s \in Sessions, NEW n \in Attempts, NEW r \in Results, Report(s, n, r)
      PROVE  /\ given' = given /\ done' = done /\ hmac' = hmac
             /\ \A k \in Attempts : sent[k] \subseteq sent'[k]
  BY <1>0, <1>3 DEF Report
<1>4. ASSUME NEW s \in Sessions, NEW n \in Attempts, NEW r \in Results,
             CompleteRuntimeAttempt(s, n, r)
      PROVE  /\ given' = given /\ done' = done /\ sent' = sent
             /\ \A k \in Attempts : hmac[k] # "none" => hmac'[k] = hmac[k]
  <2>1. given' = given /\ done' = done /\ sent' = sent
    BY <1>4 DEF CompleteRuntimeAttempt
  <2>2. Completes(s, n, r) => \A k \in Attempts : hmac[k] # "none" => hmac'[k] = hmac[k]
    BY <1>0 DEF Completes
  <2> QED BY <1>4, <2>1, <2>2, Completion
<1> QED BY <1>1, <1>2, <1>3, <1>4, ChannelCases

(* An input stays with the claim it was released to. *)
LEMMA NextInputs ==
  ASSUME TypeOK, RowsInv, InputsAreHeld, RowsMove, [Next]_vars
  PROVE  InputsAreHeld'
<1>0. /\ given \subseteq Sessions \X Attempts /\ marked \subseteq Sessions \X Attempts
      /\ Nobody \notin Sessions /\ att \in [Attempts -> AttemptType]
  BY SessionAssumption, NobodyAssumption DEF TypeOK, LedgerTypeOK
<1>1. ASSUME NEW x \in given \cup marked
      PROVE  att'[x[2]].token = x[1] /\ att'[x[2]].started
  <2>1. x[1] # Nobody /\ x[2] \in Attempts
    BY <1>0
  <2> QED BY <2>1 DEF InputsAreHeld, RowsMove
<1>2. ASSUME NEW s \in Sessions, NEW n \in Attempts, StartRuntimeAttempt(s, n)
      PROVE  InputsAreHeld'
  <2>1. att'[n].token = s
    BY <1>0, <1>2 DEF StartRuntimeAttempt, Owns, RowsMove
  <2>2. att'[n].started
    <3>1. CASE MarkProviderCallStarted(s, n)
      BY <1>0, <3>1 DEF MarkProviderCallStarted, AttemptType
    <3>2. CASE att[n].state = "provider_call_started"
      BY <3>2 DEF RowsInv, AttemptOrder, RowsMove
    <3> QED BY <1>2, <3>1, <3>2 DEF StartRuntimeAttempt
  <2>3. given' = given /\ marked' = marked \cup {<<s, n>>}
    BY <1>2 DEF StartRuntimeAttempt, runtime
  <2> QED BY <1>1, <2>1, <2>2, <2>3 DEF InputsAreHeld
<1>3. ASSUME NEW s \in Sessions, NEW n \in Attempts, DeliverInput(s, n)
      PROVE  given' \cup marked' \subseteq given \cup marked
  BY <1>3 DEF DeliverInput
<1>4. ASSUME NEW s \in Sessions, NEW n \in Attempts,
             Perform(s, n) \/ \E r \in Results : Report(s, n, r) \/ CompleteRuntimeAttempt(s, n, r)
      PROVE  given' = given /\ marked' = marked
  BY <1>4 DEF Perform, Report, CompleteRuntimeAttempt
<1>5. Elsewhere => given' = given /\ marked' = marked
  BY DEF Elsewhere
<1>6. ASSUME given' \cup marked' \subseteq given \cup marked
      PROVE  InputsAreHeld'
  BY <1>1, <1>6 DEF InputsAreHeld
<1> QED BY <1>2, <1>3, <1>4, <1>5, <1>6, ChannelCases

(* The runtime's reports stay true of its effect. *)
LEMMA NextReports ==
  ASSUME TypeOK, ReportsAreHonest, [Next]_vars
  PROVE  ReportsAreHonest'
<1>0. sent \in [Attempts -> SUBSET Results] /\ done \subseteq Attempts
  BY DEF TypeOK
<1>1. given \subseteq given'
  BY MemoryGrows
<1>2. ASSUME done' = done, sent' = sent
      PROVE  ReportsAreHonest'
  BY <1>1, <1>2 DEF ReportsAreHonest
<1>3. ASSUME NEW s \in Sessions, NEW n \in Attempts, Perform(s, n)
      PROVE  ReportsAreHonest'
  <2>1. <<s, n>> \in given' /\ sent[n] = {} /\ done' = done \cup {n} /\ sent' = sent
    BY <1>1, <1>3 DEF Perform
  <2> QED BY <1>1, <2>1 DEF ReportsAreHonest
<1>4. ASSUME NEW s \in Sessions, NEW n \in Attempts, NEW r \in Results, Report(s, n, r)
      PROVE  ReportsAreHonest'
  <2>1. /\ done' = done
        /\ r \in (IF n \in done THEN {"ok", "failed", "unknown"} ELSE {"not_attempted", "unknown"})
        /\ sent'[n] = sent[n] \cup {r}
        /\ \A m \in Attempts \ {n} : sent'[m] = sent[m]
    BY <1>0, <1>4 DEF Report
  <2> QED BY <1>1, <2>1 DEF ReportsAreHonest
<1>5. ASSUME NEW s \in Sessions, NEW n \in Attempts,
             \/ StartRuntimeAttempt(s, n) \/ DeliverInput(s, n)
             \/ \E r \in Results : CompleteRuntimeAttempt(s, n, r)
      PROVE  done' = done /\ sent' = sent
  BY <1>5 DEF StartRuntimeAttempt, DeliverInput, CompleteRuntimeAttempt, runtime
<1> QED BY <1>2, <1>3, <1>4, <1>5, ChannelCases DEF Elsewhere

(* The end of an attempt by a result is one with the end of the run. *)
LEMMA CompletionStands ==
  ASSUME TypeOK, RowsHold, NEW s \in Sessions, NEW n \in Attempts, NEW r \in Results,
         Completes(s, n, r)
  PROVE  att'[n].state \in Ended /\ ResultStands(r)'
<1>0. LedgerTypeOK /\ OneShotPolicy /\ RowsInv /\ ReconciliationStands
  BY DEF TypeOK, RowsHold
<1>1. CASE Reports(n, r)
  <2>1. /\ att'[n].state \in {"succeeded", "failed"}
        /\ run'.state = (IF r = "ok" THEN "succeeded" ELSE "failed") /\ r # "unknown"
    BY <1>0, <1>1, ReportEffect
  <2> QED BY <2>1 DEF ResultStands, Ended
<1>2. CASE r = "unknown" /\ SettleIndeterminate(s, n)
  <2>1. att[n].state = "provider_call_started" /\ RecoverUnknown(n) /\ recon' = recon
    BY <1>2 DEF SettleIndeterminate, Holds
  <2>2. run'.state = "unknown_outcome" /\ att'[n].state = "unknown_outcome"
    BY <1>0, <2>1, LostCallIsUnknown
  <2>3. recon = "none"
    <3>1. run.state \notin {"succeeded", "failed"}
      BY <1>0, <2>1 DEF RowsInv, OneActiveAttempt, HasActive, Active
    <3> QED BY <1>0, <3>1 DEF ReconciliationStands, LedgerTypeOK
  <2> QED BY <1>2, <2>1, <2>2, <2>3 DEF ResultStands, Ended
<1> QED BY <1>1, <1>2 DEF Completes

(* A result that closed the run stays the reason it is closed. *)
LEMMA ResultKeepsStanding ==
  ASSUME LedgerTypeOK, LedgerTypeOK', RowsMove, NEW r \in Results, ResultStands(r),
         ReconciliationStands
  PROVE  ResultStands(r)'
<1>0. /\ recon \in {"none", "succeeded", "failed"} /\ recon' \in {"none", "succeeded", "failed"}
      /\ run'.state # "none"
  BY DEF LedgerTypeOK, RunType, RunStates
<1>1. run.state \in Closed
  BY <1>0 DEF ResultStands, Closed, Terminal
<1>2. \/ run'.state = run.state /\ recon' = recon
      \/ run.state = "unknown_outcome" /\ run'.state = recon'
  BY <1>1 DEF RowsMove, RunMoves
<1> QED BY <1>0, <1>2 DEF ResultStands, Results

(* The results on record stand, and nothing else is acknowledged. *)
LEMMA NextResults ==
  ASSUME TypeOK, RowsHold, ResultsAreRecorded, LedgerTypeOK', RowsMove, [Next]_vars
  PROVE  ResultsAreRecorded'
<1>0. /\ LedgerTypeOK /\ ReconciliationStands
      /\ hmac \in [Attempts -> Results \cup {"none"}] /\ acked \in [Attempts -> SUBSET Results]
  BY DEF TypeOK, RowsHold
<1>1. ASSUME NEW n \in Attempts, hmac'[n] # "none"
      PROVE  hmac'[n] \in sent'[n] /\ att'[n].state \in Ended /\ ResultStands(hmac[n])'
  <2>1. CASE hmac[n] # "none"
    <3>1. hmac'[n] = hmac[n] /\ sent[n] \subseteq sent'[n]
      BY <2>1, MemoryGrows
    <3>2. hmac[n] \in sent[n] /\ att[n].state \in Ended /\ ResultStands(hmac[n])
      BY <2>1 DEF ResultsAreRecorded
    <3>3. att'[n] = att[n]
      BY <3>2 DEF RowsMove
    <3>4. PICK r \in Results : r = hmac[n]
      BY <1>0, <2>1
    <3>5. ResultStands(r)'
      BY <1>0, <3>2, <3>4, ResultKeepsStanding
    <3> QED BY <3>1, <3>2, <3>3, <3>4, <3>5 DEF ResultStands
  <2>2. CASE hmac[n] = "none"
    <3>1. PICK s \in Sessions, m \in Attempts, r \in Results : Completes(s, m, r)
      BY <1>1, <2>2, ChannelSteps DEF vars
    <3>2. m = n /\ hmac'[n] = r /\ r \in sent[n]
      BY <1>0, <1>1, <2>2, <3>1 DEF Completes
    <3>3. att'[n].state \in Ended /\ ResultStands(r)'
      BY <3>1, <3>2, CompletionStands
    <3> QED BY <3>2, <3>3, MemoryGrows DEF ResultStands
  <2> QED BY <2>1, <2>2
<1>2. ASSUME NEW n \in Attempts, NEW r \in acked'[n]
      PROVE  hmac'[n] = r
  <2>1. CASE r \in acked[n]
    <3>1. hmac[n] = r /\ r # "none"
      BY <1>0, <2>1 DEF ResultsAreRecorded, Results
    <3> QED BY <3>1, MemoryGrows
  <2>2. CASE r \notin acked[n]
    <3>1. PICK s \in Sessions, m \in Attempts, q \in Results : CompleteRuntimeAttempt(s, m, q)
      BY <1>2, <2>2, WhoWrites
    <3>2. acked' = [acked EXCEPT ![m] = @ \cup {q}]
      BY <3>1 DEF CompleteRuntimeAttempt
    <3>3. m = n /\ q = r
      BY <1>0, <1>2, <2>2, <3>2
    <3>4. Completes(s, n, r) => hmac'[n] = r
      BY <1>0 DEF Completes
    <3> QED BY <3>1, <3>3, <3>4, Completion
  <2> QED BY <2>1, <2>2
<1> QED BY <1>1, <1>2 DEF ResultsAreRecorded

(* A run whose input was released is never cancelled, expired or failed        *)
(* without the runtime or an operator.                                         *)
LEMMA NextReleased ==
  ASSUME TypeOK, LedgerTypeOK', RowsHold, ChannelHolds, RowsMove, [Next]_vars
  PROVE  ReleasedInputIsAnswered'
<1>0. /\ LedgerTypeOK /\ OneShotPolicy /\ RowsInv /\ given \subseteq Sessions \X Attempts
      /\ hmac \in [Attempts -> Results \cup {"none"}]
      /\ recon' \in {"none", "succeeded", "failed"} /\ run'.state # "none"
  BY DEF TypeOK, RowsHold, LedgerTypeOK, RunType, RunStates
<1> SUFFICES ASSUME NEW x \in given'
             PROVE  AnsweredRun(x[2])'
  BY DEF ReleasedInputIsAnswered
<1>1. CASE x \notin given
  <2>1. PICK s \in Sessions, n \in Attempts : DeliverInput(s, n)
    BY <1>1, WhoWrites
  <2>2. run.state = "running" /\ run' = run
    BY <1>1, <2>1 DEF DeliverInput, Deliverable, ledger
  <2> QED BY <2>2 DEF AnsweredRun
<1>2. CASE x \in given
  <2>1. PICK n \in Attempts : n = x[2]
    BY <1>0, <1>2
  <2>2. att[n].started /\ AnsweredRun(n)
    BY <1>2, <2>1 DEF ChannelHolds, InputsAreHeld, ReleasedInputIsAnswered
  <2>3. CASE run.state = "running"
    <3>1. CASE run'.state \in {"running", "unknown_outcome"}
      BY <3>1 DEF AnsweredRun
    <3>2. ASSUME NEW s \in Sessions, NEW m \in Attempts, NEW r \in Results,
                 Completes(s, m, r), Reports(m, r)
          PROVE  AnsweredRun(x[2])'
      <4>1. /\ run'.state = (IF r = "ok" THEN "succeeded" ELSE "failed") /\ r # "unknown"
        BY <1>0, <3>2, ReportEffect
      <4>2. m = n
        BY <1>0, <2>2, <3>2, OnlyStarted DEF Completes, Active
      <4>3. hmac'[n] = r
        BY <1>0, <3>2, <4>2 DEF Completes
      <4> QED BY <2>1, <4>1, <4>3 DEF AnsweredRun, Results
    <3> QED BY <1>0, <2>3, <3>1, <3>2, RunningGoesOn
  <2>4. CASE run.state # "running"
    <3>1. run.state \in {"succeeded", "unknown_outcome", "failed"}
      BY <2>2, <2>4 DEF AnsweredRun
    <3>2. \/ run'.state = run.state /\ recon' = recon
          \/ run.state = "unknown_outcome" /\ run'.state = recon'
      BY <3>1 DEF RowsMove, RunMoves, Closed, Terminal
    <3>3. hmac[n] # "none" => hmac'[n] = hmac[n]
      BY MemoryGrows
    <3> QED BY <1>0, <2>1, <2>2, <3>1, <3>2, <3>3 DEF AnsweredRun
  <2> QED BY <2>3, <2>4
<1> QED BY <1>1, <1>2

-----------------------------------------------------------------------------
(* The channel's theorems. *)

(* Every step preserves the invariant. *)
LEMMA ChannelNext ==
  ASSUME ChannelInv, [Next]_vars
  PROVE  ChannelInv'
<1>0. TypeOK /\ LedgerTypeOK /\ RowsHold /\ ChannelHolds
  BY DEF ChannelInv, TypeOK
<1>1. /\ LedgerTypeOK' /\ RowsInv' /\ ApprovalAgrees' /\ NeverExternal' /\ ReconciliationStands'
      /\ RowsMove
  BY <1>0, NextRows DEF RowsHold
<1>2. TypeOK'
  BY <1>0, <1>1, ChannelType
<1>3. RowsHold'
  <2>1. OneShotPolicy'
    BY <1>0, <1>1 DEF RowsHold, OneShotPolicy, RowsMove
  <2>2. RunningStarted' /\ OutcomesAreFinal'
    BY <1>0, <1>1, NextRunning, NextOutcomes DEF RowsHold
  <2> QED BY <1>1, <2>1, <2>2 DEF RowsHold
<1>4. ChannelHolds'
  <2>1. InputsAreHeld' /\ ReportsAreHonest'
    BY <1>0, <1>1, NextInputs, NextReports DEF RowsHold, ChannelHolds
  <2>2. ResultsAreRecorded'
    BY <1>0, <1>1, NextResults DEF ChannelHolds
  <2>3. ReleasedInputIsAnswered'
    BY <1>0, <1>1, NextReleased
  <2> QED BY <2>1, <2>2, <2>3 DEF ChannelHolds
<1> QED BY <1>2, <1>3, <1>4 DEF ChannelInv

(* The invariant holds in every initial state. *)
LEMMA ChannelInit ==
  ASSUME Init
  PROVE  ChannelInv
<1>1. /\ LedgerInit /\ run = NoRun /\ approval = NoApproval /\ recon = "none"
      /\ \A n \in Attempts : att[n] = NoAttempt
  BY DEF Init, LedgerInit
<1>2. TypeOK
  BY <1>1, LedgerInitType DEF Init, TypeOK
<1>3. RowsHold
  <2>1. policy.provider = "app_runtime"
    BY <1>1, RuntimeAssumption DEF LedgerInit
  <2>2. RowsInv
    BY <1>1 DEF RowsInv, AbsentRun, UnreleasedRun, AttemptOrder, StartedRun, OneShotStartsOnce,
       OneActiveAttempt, HasActive, NoRun, NoApproval, NoApprovalReceipt, NoAttempt, Active
  <2>3. ApprovalAgrees /\ NeverExternal /\ RunningStarted /\ OutcomesAreFinal /\ ReconciliationStands
    BY <1>1 DEF ApprovalAgrees, NeverExternal, RunningStarted, OutcomesAreFinal,
       ReconciliationStands, NoRun, NoApproval, NoApprovalReceipt, NoAttempt
  <2> QED BY <2>1, <2>2, <2>3 DEF RowsHold, OneShotPolicy
<1>4. ChannelHolds
  BY DEF Init, ChannelHolds, InputsAreHeld, ReportsAreHonest, ResultsAreRecorded,
     ReleasedInputIsAnswered
<1> QED BY <1>2, <1>3, <1>4 DEF ChannelInv

(* The invariant holds in every reachable state of the channel. *)
THEOREM ChannelInvariance == Spec => []ChannelInv
<1>1. Init => ChannelInv
  BY ChannelInit
<1>2. ChannelInv /\ [Next]_vars => ChannelInv'
  BY ChannelNext
<1> QED BY <1>1, <1>2, PTL DEF Spec

(* Every variable of the channel keeps its type. *)
THEOREM ChannelTypeCorrect == Spec => []TypeOK
<1>1. ChannelInv => TypeOK
  BY DEF ChannelInv
<1> QED BY <1>1, ChannelInvariance, PTL

(* The input of a run reaches one claim of one session: the input is released  *)
(* to the attempt that started, and a run for a runtime starts one attempt     *)
(* whatever start requests are repeated and whatever sessions overlap          *)
(* (startRuntimeAttempt).                                                      *)
THEOREM OneClaim == Spec => []InputGoesToOneClaim
<1>1. ChannelInv => InputGoesToOneClaim
  <2> SUFFICES ASSUME ChannelInv, NEW x \in given
               PROVE  /\ \A y \in given \cup marked : x = y
                      /\ \A m \in Attempts : m # x[2] => att[m].state \notin Active
    BY DEF InputGoesToOneClaim
  <2>1. /\ OneShotPolicy /\ RowsInv
        /\ \A y \in given \cup marked : /\ att[y[2]].token = y[1] /\ att[y[2]].started
                                        /\ y \in Sessions \X Attempts
    BY DEF ChannelInv, TypeOK, RowsHold, ChannelHolds, InputsAreHeld
  <2>2. PICK n \in Attempts : n = x[2] /\ att[n].started
    BY <2>1
  <2>3. ASSUME NEW y \in given \cup marked PROVE x = y
    <3>1. x[2] = y[2]
      BY <2>1, <2>2, OnlyStarted
    <3> QED BY <2>1, <3>1
  <2>4. ASSUME NEW m \in Attempts, m # n PROVE att[m].state \notin Active
    BY <2>1, <2>2, <2>4, OnlyStarted
  <2> QED BY <2>2, <2>3, <2>4
<1> QED BY <1>1, ChannelInvariance, PTL

(* What was acknowledged stands: at most one result per attempt, and the run   *)
(* ended by it (completeRuntimeAttempt).                                       *)
THEOREM AcknowledgedStands == Spec => []AcknowledgedResultStands
<1>1. ChannelInv => AcknowledgedResultStands
  <2> SUFFICES ASSUME ChannelInv, NEW n \in Attempts, NEW r \in acked[n]
               PROVE  acked[n] = {r} /\ ResultStands(r)
    BY DEF AcknowledgedResultStands, ResultStands
  <2>1. /\ acked[n] \subseteq Results /\ \A q \in acked[n] : hmac[n] = q
        /\ hmac[n] # "none" => ResultStands(hmac[n])
    BY DEF ChannelInv, TypeOK, ChannelHolds, ResultsAreRecorded
  <2>2. hmac[n] = r /\ r # "none"
    BY <2>1 DEF Results
  <2> QED BY <2>1, <2>2
<1> QED BY <1>1, ChannelInvariance, PTL

(* An effect that the runtime performed is not denied by recovery, expiry,     *)
(* cancellation or a late result.                                              *)
THEOREM EffectStands == Spec => []EffectIsNotDenied
<1>1. ChannelInv => EffectIsNotDenied
  <2> SUFFICES ASSUME ChannelInv, NEW n \in done
               PROVE  \/ run.state \in {"running", "succeeded", "unknown_outcome"}
                      \/ run.state = "failed" /\ (hmac[n] = "failed" \/ recon = "failed")
    BY DEF EffectIsNotDenied
  <2>1. n \in Attempts /\ TypeOK /\ ChannelHolds
    BY DEF ChannelInv, TypeOK
  <2>2. PICK s \in Sessions : <<s, n>> \in given
    BY <2>1 DEF ChannelHolds, ReportsAreHonest
  <2>3. AnsweredRun(n)
    BY <2>1, <2>2 DEF ChannelHolds, ReleasedInputIsAnswered
  <2>4. hmac[n] # "not_attempted"
    BY <2>1 DEF ChannelHolds, ReportsAreHonest, ResultsAreRecorded
  <2> QED BY <2>3, <2>4 DEF AnsweredRun
<1> QED BY <1>1, ChannelInvariance, PTL

-----------------------------------------------------------------------------
(* A session that has ended. *)

(* What leaves a claim as it is: no new token, no longer lease, no start. *)
ClaimKept(n) ==
  \/ att'[n].token = Nobody
  \/ /\ att'[n].token = att[n].token
     /\ att'[n].lease <= att[n].lease
     /\ att'[n].started = att[n].started

(* The host on its own never renews a claim or starts its call. *)
LEMMA HostKeepsClaims ==
  ASSUME LedgerTypeOK, NEW n \in Attempts,
         \/ HostStep \/ UNCHANGED ledger
         \/ \E s \in Sessions, m \in Attempts : SettleIndeterminate(s, m)
  PROVE  ClaimKept(n)
<1>0. run \in RunType /\ att \in [Attempts -> AttemptType] /\ att[n].lease \in Nat
  BY LeaseAssumption DEF LedgerTypeOK, AttemptType
<1>1. ASSUME att'[n] = att[n] PROVE ClaimKept(n)
  BY <1>0, <1>1 DEF ClaimKept
<1>2. ASSUME NEW r, Schedule(r) PROVE ClaimKept(n)
  <2>1. CASE att' = WithNewAttempt(att)
    BY <1>1, <2>1, WithNewAttemptEffect DEF ClaimKept
  <2> QED BY <1>1, <1>2, <2>1 DEF Schedule
<1>3. CASE HumanStep
  BY <1>1, <1>2, <1>3 DEF HumanStep, Submit, Cancel, ApproveFirst, ApproveAgain, ApproveTooLate,
     Reject, ReconcileUnknown
<1>4. CASE OtherStep
  BY <1>1, <1>2, <1>4 DEF OtherStep, ClaimExpiresRun, PrepareRows, JobSettled, Purge,
     InputExpires, ResultExpires, Revoke, rows
<1>5. ASSUME NEW m \in Attempts, LeaseTick(m) PROVE ClaimKept(n)
  BY <1>0, <1>5 DEF LeaseTick, AttemptType, ClaimKept
<1>6. ASSUME NEW m \in Attempts,
             FinalizeKnown(m) \/ RecoverUnknown(m) \/ SettleAbandonedClaim(m)
      PROVE  ClaimKept(n)
  <2>1. ASSUME NEW s, NEW r, NEW again, NEW a, a = EndAttempt(m, s, r, again)
        PROVE  /\ a[n].token = att[n].token /\ a[n].lease <= att[n].lease
               /\ a[n].started = att[n].started
    BY <1>0, <2>1 DEF EndAttempt, AttemptType
  <2>2. CASE FinalizeKnown(m) \/ CloseLost(m) \/ SettleAbandonedClaim(m)
    BY <2>1, <2>2 DEF FinalizeKnown, CloseLost, SettleAbandonedClaim, ClaimKept
  <2>3. CASE RetryLost(m)
    <3>1. PICK a : a = EndAttempt(m, LostState(m), run.state, TRUE) /\ att' = WithNewAttempt(a)
      BY <2>3 DEF RetryLost
    <3>2. a[n].token = att[n].token /\ a[n].lease <= att[n].lease /\ a[n].started = att[n].started
      BY <2>1, <3>1
    <3>3. att'[n] = a[n] \/ att'[n].token = Nobody
      BY <3>1, WithNewAttemptEffect
    <3> QED BY <3>2, <3>3 DEF ClaimKept
  <2> QED BY <1>6, <2>2, <2>3 DEF RecoverUnknown
<1> QED BY <1>1, <1>3, <1>4, <1>5, <1>6 DEF HostStep, RecoverRun, SettleIndeterminate, ledger

(* A session that has ended is never live again. *)
LEMMA EndedStays ==
  ASSUME TypeOK, [Next]_vars, NEW s \in Sessions, sess[s] = "ended"
  PROVE  sess'[s] = "ended"
<1>0. sess \in [Sessions -> {"none", "live", "ended"}]
  BY DEF TypeOK
<1>1. ASSUME NEW q \in Sessions, Request(q) PROVE sess'[s] = "ended"
  <2>1. CASE IssueSession(q) \/ EndSession(q)
    BY <1>0, <2>1 DEF IssueSession, EndSession
  <2>2. CASE ~(IssueSession(q) \/ EndSession(q))
    BY <1>1, <2>2 DEF Request, ClaimFindsExpired, ClaimRuntimeAttempt, StartRuntimeAttempt,
       DeliverInput, HeartbeatRuntimeAttempt, Perform, Report, CompleteRuntimeAttempt
  <2> QED BY <2>1, <2>2
<1>2. CASE RevokeBinding
  BY <1>2 DEF RevokeBinding
<1> QED BY <1>1, <1>2 DEF Next, vars, Recover, PurgeRun, SubmitRun, Decide, CancelRun, Reconcile,
        LeaseRunsDown, RetentionEnds

(* No input goes out over a session that has ended. *)
LEMMA EndedGetsNoInput ==
  ASSUME [Next]_vars, NEW s \in Sessions, NEW n \in Attempts, sess[s] = "ended",
         <<s, n>> \in given'
  PROVE  <<s, n>> \in given
<1>1. CASE given' = given
  BY <1>1
<1>2. ASSUME NEW q \in Sessions, NEW m \in Attempts, DeliverInput(q, m)
      PROVE  <<s, n>> \in given
  BY <1>2 DEF DeliverInput, Deliverable, LiveAuthority
<1> QED BY <1>1, <1>2, WhoWrites

(* No claim, lease, start or result is written for a session that has ended. *)
LEMMA EndedHoldsNothingNew ==
  ASSUME TypeOK, [Next]_vars, NEW s \in Sessions, NEW n \in Attempts, sess[s] = "ended",
         att'[n].token = s
  PROVE  /\ att[n].token = s /\ att'[n].lease <= att[n].lease
         /\ att'[n].started = att[n].started /\ hmac'[n] = hmac[n]
<1>0. /\ LedgerTypeOK /\ run \in RunType /\ att \in [Attempts -> AttemptType] /\ s # Nobody
      /\ hmac \in [Attempts -> Results \cup {"none"}] /\ att[n].lease \in Nat
  BY SessionAssumption, NobodyAssumption, LeaseAssumption DEF TypeOK, LedgerTypeOK, AttemptType
<1>1. CASE (UNCHANGED ledger \/ HostStep) /\ hmac' = hmac
  BY <1>0, <1>1, HostKeepsClaims DEF ClaimKept
<1>2. ASSUME NEW q \in Sessions, NEW m \in Attempts, SessionStep(q, m), hmac' = hmac
      PROVE  /\ att[n].token = s /\ att'[n].lease <= att[n].lease
             /\ att'[n].started = att[n].started
  <2>1. q # s
    BY <1>2 DEF SessionStep
  <2>2. att'[m].token = q /\ \A k \in Attempts \ {m} : att'[k] = att[k]
    BY <1>0, <1>2 DEF SessionStep, Claim, MarkProviderCallStarted, MayStart, RenewLease, AttemptType
  <2> QED BY <1>0, <2>1, <2>2
<1>3. ASSUME NEW q \in Sessions, NEW m \in Attempts, NEW r \in Results, Completes(q, m, r)
      PROVE  /\ att[n].token = s /\ att'[n].lease <= att[n].lease
             /\ att'[n].started = att[n].started /\ hmac'[n] = hmac[n]
  <2>1. q # s /\ att[m].token = q /\ hmac' = [hmac EXCEPT ![m] = r]
    BY <1>3 DEF Completes
  <2>2. CASE Reports(m, r)
    <3>1. att'[m].token = att[m].token /\ \A k \in Attempts \ {m} : att'[k] = att[k]
      BY <1>0, <2>2, ReportEffect
    <3> QED BY <1>0, <2>1, <3>1
  <2>3. CASE SettleIndeterminate(q, m)
    <3>1. ClaimKept(n)
      BY <1>0, <2>3, HostKeepsClaims
    <3>2. att[n].token = s /\ n # m
      BY <1>0, <2>1, <3>1 DEF ClaimKept
    <3> QED BY <1>0, <2>1, <3>1, <3>2 DEF ClaimKept
  <2> QED BY <1>3, <2>2, <2>3 DEF Completes
<1> QED BY <1>1, <1>2, <1>3, ChannelSteps DEF vars

(* Ending a session, by expiry or by a human's revocation, cuts it off at      *)
(* once: whatever the runtime sends over it afterwards, or had in flight,      *)
(* takes no claim, extends no lease, obtains no input and records no result.   *)
THEOREM CutOff == Spec => EndedSessionIsCutOff
<1>1. TypeOK /\ [Next]_vars =>
        [\A s \in Sessions : sess[s] = "ended" =>
           /\ sess'[s] = "ended"
           /\ \A n \in Attempts :
                /\ <<s, n>> \in given' => <<s, n>> \in given
                /\ att'[n].token = s => /\ att[n].token = s
                                        /\ att'[n].lease <= att[n].lease
                                        /\ att'[n].started = att[n].started
                                        /\ hmac'[n] = hmac[n]]_vars
  BY EndedStays, EndedGetsNoInput, EndedHoldsNothingNew
<1> QED BY <1>1, ChannelTypeCorrect, PTL DEF Spec, EndedSessionIsCutOff

-----------------------------------------------------------------------------
(* The channel implements the contract of the App Run engine. *)

Started == {n \in Attempts : att[n].started}

(* A transaction that the channel shares with the workers' path maps to a step *)
(* of the contract for a one-shot operation, or to none.                       *)
LEMMA MovesSimulate ==
  ASSUME TypeOK, RowsHold, Moves, done' = done
  PROVE  Contract!Next \/ UNCHANGED Contract!vars
<1>0. /\ OneShotPolicy /\ RowsInv /\ OutcomesAreFinal /\ RunningStarted
  BY DEF RowsHold
<1>1. StartsKept => Started' = Started
  BY DEF StartsKept, Started
<1>2. ReleaseKept => UNCHANGED (run.release # "none")
  BY DEF ReleaseKept
<1>3. CASE Stays
  BY <1>1, <1>2, <1>3 DEF Stays, Contract!vars, Started
<1>4. CASE Submits
  BY <1>1, <1>4 DEF Submits, Contract!Next, Contract!Submit, Started
<1>5. CASE Releases
  BY <1>1, <1>5 DEF Releases, Contract!Next, Contract!Release, Started
<1>6. CASE Abandons
  <2>1. Started = {}
    BY <1>0, <1>6 DEF Abandons, RowsInv, StartedRun, Started
  <2> QED BY <1>1, <1>2, <1>6, <2>1
          DEF Abandons, Waiting, Contract!Next, Contract!Abandon, Contract!Before, Started
<1>7. ASSUME NEW n \in Attempts, Grants(n)
      PROVE  Contract!Next
  <2>1. Started' = Started \cup {n}
    BY <1>7 DEF Grants, Started
  <2>2. Started = {}
    <3>1. ~att[n].started
      BY <1>0, <1>7 DEF Grants, RowsInv, AttemptOrder
    <3>2. ASSUME NEW m \in Attempts, att[m].started PROVE FALSE
      BY <1>0, <1>7, <3>1, <3>2, OnlyStarted DEF Grants, Active
    <3> QED BY <3>2 DEF Started
  <2>3. Contract!MayGrant(n)
    BY <1>7, <2>2 DEF Grants, Waiting, Contract!MayGrant, Contract!Before, Started
  <2>4. Contract!Grant(n)
    BY <1>2, <1>7, <2>1, <2>3 DEF Grants, Contract!Grant, Started
  <2> QED BY <2>4 DEF Contract!Next
<1>8. CASE Concludes
  <2>1. Started # {}
    BY <1>0, <1>8 DEF Concludes, RunningStarted, Started
  <2>2. \A n \in Attempts : ~att[n].outcome.success
    <3> SUFFICES ASSUME NEW n \in Attempts, att[n].outcome.success
                 PROVE  FALSE
      OBVIOUS
    <3>1. att[n].started /\ att[n].state \in Ended
      BY <1>0 DEF OutcomesAreFinal, NoOutcome
    <3> QED BY <1>0, <1>8, <3>1 DEF Concludes, RowsInv, OneShotStartsOnce, OneShot, OneShotPolicy,
            Closed, Terminal
  <2> QED BY <1>1, <1>2, <1>8, <2>1, <2>2 DEF Concludes, Contract!Next, Contract!Conclude, Started
<1>9. CASE Resolves
  BY <1>1, <1>2, <1>9 DEF Resolves, Contract!Next, Contract!Resolve, Started
<1> QED BY <1>3, <1>4, <1>5, <1>6, <1>7, <1>8, <1>9 DEF Moves

(* An effect maps to a call that was granted, a recorded result to the end of  *)
(* the run: a success is recorded only of an effect that was performed.        *)
LEMMA NextSimulates ==
  ASSUME ChannelInv, [Next]_vars
  PROVE  Contract!Next \/ UNCHANGED Contract!vars
<1>0. /\ TypeOK /\ LedgerTypeOK /\ RowsHold /\ RowsInv /\ ApprovalAgrees /\ NeverExternal
      /\ RunningStarted /\ ReportsAreHonest /\ InputsAreHeld
  BY DEF ChannelInv, TypeOK, RowsHold, ChannelHolds
<1>1. ASSUME NEW s \in Sessions, NEW n \in Attempts, Perform(s, n)
      PROVE  Contract!Next
  <2>1. <<s, n>> \in given /\ n \notin done /\ done' = done \cup {n} /\ UNCHANGED <<run, att>>
    BY <1>1 DEF Perform, ledger
  <2>2. att[n].started
    BY <1>0, <2>1 DEF InputsAreHeld
  <2>3. n \in Started /\ Started' = Started
    BY <2>1, <2>2 DEF Started
  <2>4. Contract!Call(n)
    BY <2>1, <2>3 DEF Contract!Call, Started
  <2> QED BY <2>4 DEF Contract!Next
<1>2. ASSUME NEW s \in Sessions, NEW n \in Attempts, NEW r \in Results,
             Completes(s, n, r), Concluded(n, r), done' = done
      PROVE  Contract!Next
  <2>1. r = "ok" => done # {}
    BY <1>0, <1>2 DEF Completes, ReportsAreHonest
  <2>2. Started # {} /\ Started' = Started
    BY <1>0, <1>2 DEF Concluded, RunningStarted, StartsKept, Started
  <2>3. UNCHANGED (run.release # "none")
    BY <1>2 DEF Concluded, ReleaseKept
  <2> QED BY <1>2, <2>1, <2>2, <2>3
          DEF Concluded, Contract!Next, Contract!Conclude, Started
<1>3. ASSUME ~\E s \in Sessions, n \in Attempts : Perform(s, n)
      PROVE  done' = done
  BY <1>3, WhoWrites
<1> QED BY <1>0, <1>1, <1>2, <1>3, NextMoves, MovesSimulate

(* The channel implements the contract of the App Run engine, for an operation *)
(* that tolerates no second call: a run for a runtime starts one attempt, its  *)
(* effect is one granted call, and it succeeds only after that effect or by an *)
(* operator, whatever the runtime repeats, forgets or contradicts.             *)
THEOREM ChannelImplements == Spec => ImplementsContract
<1>1. Init => Contract!Init
  <2> SUFFICES ASSUME Init PROVE Contract!Init
    OBVIOUS
  <2>1. /\ run = NoRun /\ done = {} /\ \A n \in Attempts : att[n] = NoAttempt
    BY DEF Init, LedgerInit
  <2>2. Started = {}
    BY <2>1 DEF Started, NoAttempt
  <2> QED BY <2>1, <2>2 DEF Contract!Init, NoRun, Started
<1>2. ChannelInv /\ [Next]_vars => [Contract!Next]_(Contract!vars)
  BY NextSimulates
<1> QED BY <1>1, <1>2, ChannelInvariance, PTL DEF Spec, ImplementsContract, Contract!Spec

(* The contract's own steps keep its grants in order. *)
LEMMA ContractGrants ==
  ASSUME Contract!GrantsFitTheState, [Contract!Next]_(Contract!vars)
  PROVE  Contract!GrantsFitTheState'
<1> USE DEF Contract!GrantsFitTheState, Contract!Before, Contract!MayGrant
<1>1. CASE UNCHANGED Contract!vars
  BY <1>1 DEF Contract!vars
<1>2. CASE Contract!Submit \/ Contract!Release
  BY <1>2 DEF Contract!Submit, Contract!Release
<1>3. CASE Contract!Abandon
  BY <1>3 DEF Contract!Abandon
<1>4. CASE Contract!Conclude \/ Contract!Resolve
  BY <1>4 DEF Contract!Conclude, Contract!Resolve
<1>5. ASSUME NEW n \in Attempts, Contract!Grant(n)
      PROVE  Contract!GrantsFitTheState'
  BY <1>5 DEF Contract!Grant
<1>6. ASSUME NEW n \in Attempts, Contract!Call(n)
      PROVE  Contract!GrantsFitTheState'
  BY <1>6 DEF Contract!Call
<1>7. ASSUME NEW n \in Attempts, Contract!CallAtomically(n)
      PROVE  Contract!GrantsFitTheState'
  BY <1>7 DEF Contract!CallAtomically
<1> QED BY <1>1, <1>2, <1>3, <1>4, <1>5, <1>6, <1>7 DEF Contract!Next

(* The states of a run for a runtime and its attempts agree: an effect is of   *)
(* the one attempt that was started after the release, and a run that waits or *)
(* was cancelled started none.                                                 *)
THEOREM ChannelGrantsFit == Spec => []Contract!GrantsFitTheState
<1>1. Contract!Init => Contract!GrantsFitTheState
  BY DEF Contract!Init, Contract!GrantsFitTheState, Contract!Before
<1>2. Contract!GrantsFitTheState /\ [Contract!Next]_(Contract!vars) => Contract!GrantsFitTheState'
  BY ContractGrants
<1> QED BY <1>1, <1>2, ChannelImplements, PTL DEF ImplementsContract, Contract!Spec

(* A run for a runtime ends once: no late result, repeated start, recovery or  *)
(* heartbeat reopens it or changes its end, and a success is an effect of the  *)
(* runtime or an operator's reconciliation.                                    *)
THEOREM ChannelEndIsFinal == Spec => Contract!ClosedForGood
<1>1. [Contract!Next]_(Contract!vars) => [Contract!TakesNothingBack]_(Contract!vars)
  <2> SUFFICES ASSUME Contract!Next PROVE Contract!TakesNothingBack
    OBVIOUS
  <2> USE DEF Contract!Closed, Contract!Before, Contract!MayGrant, Contract!TakesNothingBack
  <2>1. CASE Contract!Submit \/ Contract!Release
    BY <2>1 DEF Contract!Submit, Contract!Release
  <2>2. CASE Contract!Abandon
    BY <2>2 DEF Contract!Abandon
  <2>3. CASE Contract!Conclude \/ Contract!Resolve
    BY <2>3 DEF Contract!Conclude, Contract!Resolve
  <2>4. ASSUME NEW n \in Attempts, Contract!Grant(n)
        PROVE  Contract!TakesNothingBack
    BY <2>4 DEF Contract!Grant
  <2>5. ASSUME NEW n \in Attempts, Contract!Call(n)
        PROVE  Contract!TakesNothingBack
    BY <2>5 DEF Contract!Call
  <2>6. ASSUME NEW n \in Attempts, Contract!CallAtomically(n)
        PROVE  Contract!TakesNothingBack
    BY <2>6 DEF Contract!CallAtomically
  <2> QED BY <2>1, <2>2, <2>3, <2>4, <2>5, <2>6 DEF Contract!Next
<1> QED BY <1>1, ChannelImplements, PTL DEF ImplementsContract, Contract!Spec, Contract!ClosedForGood
=============================================================================
