------------------------ MODULE AppRunOutcomeProofs -------------------------
(***************************************************************************)
(* Machine-checked proofs of what an App Run says about itself: its calls  *)
(* were authorized, a persisted result decides the run, receipts are true  *)
(* and an offered result can be read; and that a client cannot tell it     *)
(* from AppRunContract.                                                    *)
(***************************************************************************)
EXTENDS AppRunProofs

-----------------------------------------------------------------------------
(* The strengthening. *)

(* Attempts follow one another: only the last one has not ended.               *)
AttemptsInOrder ==
  \A m, n \in Attempts : m < n /\ att[n].state # "absent" => att[m].state \in Ended

(* When an attempt with a persisted outcome has ended, the run has ended with  *)
(* it, and there is no later attempt.                                          *)
OutcomeDecides ==
  \A n \in Attempts : att[n].outcome # NoOutcome =>
    /\ \A m \in Attempts : m > n => att[m].state = "absent"
    /\ \/ att[n].state = "provider_call_started"
       \/ /\ att[n].state = KnownState(att[n].outcome)
          /\ run.state = KnownState(att[n].outcome)

(* A receipt without a retry names a state in which the run is closed, and no  *)
(* run of this engine ever waits for an external completion.                   *)
FinalReceipts ==
  \A n \in Attempts : att[n].state \in Ended /\ ~att[n].receipt.retry =>
    att[n].receipt.run \in Closed

(* A retained outcome has its payload, or the purge was recorded on the run.   *)
ResultKept ==
  \A n \in Attempts : att[n].outcome.result = "retained" => n \in outputs \/ run.resultPurged

(* A process that has not persisted its result finds none on its attempt: the  *)
(* token that fences the write is its own.                                     *)
Unpersisted ==
  \A w \in Processes :
    pc[w] \in {"call", "wait", "lost", "persist"} => att[cur[w]].outcome = NoOutcome

(* Success is never invented: an outcome that names it, persisted or still in  *)
(* memory, is the answer to a call that was made.                              *)
SuccessWasCalled ==
  /\ \A n \in Attempts : att[n].outcome.success => calls[n] = 1
  /\ \A w \in Processes :
       /\ pc[w] = "wait" => calls[cur[w]] = 1
       /\ pc[w] = "persist" /\ result[w].success => calls[cur[w]] = 1

OutcomeInv == /\ AttemptsInOrder /\ OutcomeOrder /\ OutcomeDecides
              /\ ReceiptsAreTrue /\ FinalReceipts /\ NeverExternal
PayloadInv == ResultKept /\ RetainedResultIsReadable
AnswerInv == Unpersisted /\ SuccessWasCalled

ResultInv == Inv /\ OutcomeInv /\ PayloadInv /\ AuthorityInv /\ AnswerInv

-----------------------------------------------------------------------------
(* The four things a transaction may do to the attempts. *)

(* No attempt is created or ended; an outcome may be persisted. *)
KeepsAttempts ==
  \A k \in Attempts :
    /\ att'[k].receipt = att[k].receipt
    /\ att'[k].state = att[k].state \/ (att[k].state \in Active /\ att'[k].state \in Active)
    /\ \/ /\ att'[k].outcome = att[k].outcome
          /\ att[k].state = "provider_call_started" => att'[k].state = "provider_call_started"
       \/ /\ att[k].outcome = NoOutcome
          /\ att[k].state = "provider_call_started"
          /\ att'[k].state = "provider_call_started"

(* The next attempt is created, of a run that is open. *)
CreatesAttempt ==
  ~HasActive(att) /\ run.state \notin Closed /\ att' = WithNewAttempt(att)

(* Attempt n ends and its run is closed, as its receipt says. *)
EndsAttempt(n) ==
  /\ att[n].state \in Leased
  /\ att'[n].state \in Ended
  /\ att'[n].receipt.attempt = att'[n].state
  /\ att'[n].receipt.run = run'.state
  /\ ~att'[n].receipt.retry
  /\ run'.state \in Closed
  /\ \/ att'[n].outcome = NoOutcome
     \/ att'[n].state = KnownState(att'[n].outcome) /\ run'.state = KnownState(att'[n].outcome)
  /\ \A k \in Attempts \ {n} : att'[k] = att[k]

(* Attempt n ends without an outcome and is retried. *)
RetriesAttempt(n) ==
  /\ att[n].state \in Leased
  /\ att[n].outcome = NoOutcome
  /\ n < Limit
  /\ \E s \in Ended : att' = WithNewAttempt(EndAttempt(n, s, run.state, TRUE))
  /\ run' = run

TouchesAttempts ==
  \/ KeepsAttempts \/ CreatesAttempt
  \/ \E n \in Attempts : EndsAttempt(n) \/ RetriesAttempt(n)

(* A scheduling transaction creates an attempt of an open run, or none. *)
LEMMA ScheduleTouches ==
  ASSUME LedgerTypeOK, NEW r, Schedule(r), r.state = run.state \/ run.state = "absent"
  PROVE  TouchesAttempts
<1>1. CASE att' = att
  BY <1>1 DEF TouchesAttempts, KeepsAttempts
<1>2. CASE att' # att
  BY <1>2 DEF Schedule, TouchesAttempts, CreatesAttempt, Closed, Terminal
<1> QED BY <1>1, <1>2

(* A known result, or an unknown one without an outcome, ends the attempt. *)
LEMMA FinalizeTouches ==
  ASSUME LedgerTypeOK, NEW n \in Attempts, att[n].state \in Leased, FinalizeKnown(n)
  PROVE  EndsAttempt(n)
<1>0. att \in [Attempts -> AttemptType] /\ att[n] \in AttemptType
  BY DEF LedgerTypeOK
<1>1. PICK s \in {"succeeded", "failed"} : s = KnownState(att[n].outcome)
  BY DEF KnownState
<1>2. att' = EndAttempt(n, s, s, FALSE) /\ run' = Transition(run, s, att[n].outcome)
  BY <1>1 DEF FinalizeKnown
<1>3. run'.state = s
  BY <1>2, TransitionEffect DEF LedgerTypeOK
<1>4. /\ att'[n].state = s /\ att'[n].outcome = att[n].outcome
      /\ att'[n].receipt.attempt = s /\ att'[n].receipt.run = s /\ ~att'[n].receipt.retry
      /\ \A k \in Attempts \ {n} : att'[k] = att[k]
  BY <1>2, <1>0 DEF EndAttempt, AttemptType, Receipt
<1>5. s \in Ended /\ s \in Closed
  BY DEF Ended, Closed, Terminal
<1> QED BY <1>1, <1>3, <1>4, <1>5 DEF EndsAttempt

(* #recoverUnknownInTransaction, of an attempt without an outcome. *)
LEMMA RecoverUnknownTouches ==
  ASSUME LedgerTypeOK, NEW n \in Attempts, att[n].state \in Leased,
         att[n].outcome = NoOutcome, RecoverUnknown(n)
  PROVE  EndsAttempt(n) \/ RetriesAttempt(n)
<1>0. att \in [Attempts -> AttemptType] /\ att[n] \in AttemptType
  BY DEF LedgerTypeOK
<1>1. PICK s \in {"failed", "unknown_outcome"} : s = LostState(n)
  BY DEF LostState
<1>2. s \in Ended /\ s \in Closed
  BY DEF Ended, Closed, Terminal
<1>3. CASE RetryLost(n)
  BY <1>1, <1>2, <1>3 DEF RetryLost, CanRetry, RetriesAttempt
<1>4. CASE CloseLost(n)
  <2>1. PICK o : att' = EndAttempt(n, s, s, FALSE) /\ run' = Transition(run, s, o)
    BY <1>1, <1>4 DEF CloseLost
  <2>2. run'.state = s
    BY <2>1, TransitionEffect DEF LedgerTypeOK
  <2>3. /\ att'[n].state = s /\ att'[n].outcome = att[n].outcome
        /\ att'[n].receipt.attempt = s /\ att'[n].receipt.run = s /\ ~att'[n].receipt.retry
        /\ \A k \in Attempts \ {n} : att'[k] = att[k]
    BY <1>0, <2>1 DEF EndAttempt, AttemptType, Receipt
  <2> QED BY <1>2, <1>4, <2>2, <2>3 DEF EndsAttempt
<1> QED BY <1>3, <1>4 DEF RecoverUnknown

(* Intake and the human decisions create an attempt of an open run, or none. *)
LEMMA HumanStepTouches ==
  ASSUME LedgerTypeOK, HumanStep
  PROVE  TouchesAttempts
<1>0. run \in RunType
  BY DEF LedgerTypeOK
<1>1. CASE att' = att
  BY <1>1 DEF TouchesAttempts, KeepsAttempts
<1>2. CASE Submit
  BY <1>2, ScheduleTouches DEF Submit
<1>3. ASSUME NEW a \in Approvers, ApproveFirst(a)
      PROVE  TouchesAttempts
  <2>1. PICK r : r = ApprovedRun
    OBVIOUS
  <2>2. Schedule(r) /\ r.state = run.state
    BY <1>3, <2>1, ApprovedRunFields DEF ApproveFirst
  <2> QED BY <2>2, ScheduleTouches
<1>4. ASSUME NEW a \in Approvers, ApproveAgain(a)
      PROVE  TouchesAttempts
  BY <1>4, ScheduleTouches DEF ApproveAgain
<1> QED BY <1>1, <1>2, <1>3, <1>4
        DEF HumanStep, Cancel, ApproveTooLate, Reject, ReconcileUnknown

(* So do retention, an expiring claim and the clocks. *)
LEMMA OtherStepTouches ==
  ASSUME LedgerTypeOK, OtherStep
  PROVE  TouchesAttempts
<1>1. CASE att' = att
  BY <1>1 DEF TouchesAttempts, KeepsAttempts
<1>2. CASE PrepareRows
  BY <1>2, ScheduleTouches DEF PrepareRows
<1> QED BY <1>1, <1>2 DEF OtherStep, ClaimExpiresRun, JobSettled, Purge, InputExpires,
        ResultExpires, Revoke, rows

(* Recovery ends or retries an attempt; a claim has no outcome. *)
LEMMA AttemptStepTouches ==
  ASSUME LedgerTypeOK, OutcomeOrder, NEW n \in Attempts, AttemptStep(n)
  PROVE  TouchesAttempts
<1>0. /\ run \in RunType
      /\ att \in [Attempts -> AttemptType] /\ att[n] \in AttemptType
  BY DEF LedgerTypeOK
<1>1. ASSUME att[n].state = "claimed", att' = EndAttempt(n, "failed", "expired", FALSE),
             run'.state = "expired"
      PROVE  EndsAttempt(n)
  <2>1. /\ att'[n].state = "failed" /\ att'[n].outcome = att[n].outcome
        /\ att'[n].receipt.attempt = "failed" /\ att'[n].receipt.run = "expired"
        /\ ~att'[n].receipt.retry
        /\ \A k \in Attempts \ {n} : att'[k] = att[k]
    BY <1>0, <1>1 DEF EndAttempt, AttemptType, Receipt
  <2>2. att[n].outcome = NoOutcome
    BY <1>1 DEF OutcomeOrder
  <2> QED BY <1>1, <2>1, <2>2 DEF EndsAttempt, Leased, Ended, Closed, Terminal
<1>2. CASE RecoverRun(n)
  <2>1. att[n].state \in Leased
    BY <1>2 DEF RecoverRun, Lapsed
  <2>2. CASE AbandonedByExpiry(n) /\ SettleAbandonedClaim(n)
    BY <1>1, <2>2 DEF AbandonedByExpiry, SettleAbandonedClaim, TouchesAttempts
  <2>3. CASE IsKnown(n) /\ FinalizeKnown(n)
    BY <2>1, <2>3, FinalizeTouches DEF TouchesAttempts
  <2>4. CASE ~IsKnown(n) /\ RecoverUnknown(n)
    <3>1. att[n].outcome = NoOutcome
      BY <2>1, <2>4 DEF IsKnown, Leased, OutcomeOrder
    <3> QED BY <2>1, <2>4, <3>1, RecoverUnknownTouches DEF TouchesAttempts
  <2> QED BY <1>2, <2>2, <2>3, <2>4 DEF RecoverRun
<1>3. CASE SettleBeforeCallFailure(n)
  <2>1. run'.state = "expired"
    BY <1>0, <1>3, TransitionEffect DEF SettleBeforeCallFailure
  <2> QED BY <1>1, <1>3, <2>1
          DEF SettleBeforeCallFailure, SettleBeforeCallCommits, TouchesAttempts
<1>4. CASE LeaseTick(n)
  BY <1>0, <1>4 DEF LeaseTick, AttemptType, TouchesAttempts, KeepsAttempts
<1> QED BY <1>2, <1>3, <1>4 DEF AttemptStep

(* An execution persists, ends or retries; only a process that has persisted   *)
(* nothing settles its call as indeterminate.                                  *)
LEMMA ProcessStepTouches ==
  ASSUME TypeOK, OutcomeOrder, Unpersisted, NEW w \in Processes, NEW n \in Attempts,
         ProcessStep(w, n)
  PROVE  TouchesAttempts
<1>0. /\ LedgerTypeOK /\ run \in RunType
      /\ att \in [Attempts -> AttemptType] /\ att[n] \in AttemptType
  BY DEF TypeOK, LedgerTypeOK
<1>1. CASE Claim(w, n) \/ RenewLease(w, n) \/ MarkProviderCallStarted(w, n)
  <2>1. KeepsAttempts
    BY <1>0, <1>1 DEF Claim, RenewLease, MarkProviderCallStarted, MayStart, AttemptType,
       KeepsAttempts, Active
  <2> QED BY <2>1 DEF TouchesAttempts
<1>2. ASSUME NEW o \in OutcomeType, PersistKnownResult(w, n, o)
      PROVE  TouchesAttempts
  <2>1. KeepsAttempts
    BY <1>0, <1>2 DEF PersistKnownResult, Holds, AttemptType, KeepsAttempts
  <2> QED BY <2>1 DEF TouchesAttempts
<1>3. CASE FinalizeKnownResult(w, n)
  BY <1>0, <1>3, FinalizeTouches DEF FinalizeKnownResult, Holds, Leased, TouchesAttempts
<1>4. CASE SettleIndeterminate(w, n) /\ At(w, "lost") /\ cur[w] = n
  <2>1. att[n].outcome = NoOutcome /\ att[n].state \in Leased
    BY <1>4 DEF Unpersisted, SettleIndeterminate, Holds, Leased, At
  <2> QED BY <1>0, <1>4, <2>1, RecoverUnknownTouches DEF SettleIndeterminate, TouchesAttempts
<1>5. CASE ExecuteNative(w, n)
  <2>1. PICK o \in OutcomeType : o = Returned(TRUE, TRUE) /\ o.success
    BY OutcomeTypes DEF Returned
  <2>2. /\ att[n].state = "claimed"
        /\ att'[n].state = "succeeded" /\ att'[n].outcome = o
        /\ att'[n].receipt.attempt = "succeeded" /\ att'[n].receipt.run = "succeeded"
        /\ ~att'[n].receipt.retry
        /\ \A k \in Attempts \ {n} : att'[k] = att[k]
        /\ run'.state = "succeeded"
    BY <1>0, <1>5, <2>1 DEF ExecuteNative, NativeReady, AttemptType, RunType, Receipt
  <2>3. KnownState(att'[n].outcome) = "succeeded"
    BY <2>1, <2>2 DEF KnownState
  <2> QED BY <2>2, <2>3 DEF EndsAttempt, Leased, Ended, Closed, Terminal, TouchesAttempts
<1> QED BY <1>1, <1>2, <1>3, <1>4, <1>5 DEF ProcessStep

(* Every transaction does one of the four. *)
LEMMA TransactionTouches ==
  ASSUME TypeOK, OutcomeOrder, Unpersisted, EngineStep \/ UNCHANGED ledger
  PROVE  TouchesAttempts
<1>1. CASE UNCHANGED ledger
  BY <1>1 DEF ledger, TouchesAttempts, KeepsAttempts
<1> QED BY <1>1, HumanStepTouches, OtherStepTouches, AttemptStepTouches, ProcessStepTouches
        DEF EngineStep, TypeOK

-----------------------------------------------------------------------------
(* Outcomes and receipts. *)

(* An attempt other than a leased one has no outcome: the run would be closed, *)
(* or there would be two active attempts.                                      *)
LEMMA OthersHaveNoOutcome ==
  ASSUME LedgerTypeOK, RowsInv, OutcomeInv, NEW n \in Attempts, att[n].state \in Leased,
         NEW m \in Attempts \ {n}
  PROVE  att[m].outcome = NoOutcome
<1>1. att[m].state \notin Active
  BY DEF RowsInv, OneActiveAttempt, Leased, Active
<1>2. run.state \notin {"succeeded", "failed"}
  BY DEF RowsInv, OneActiveAttempt, HasActive, Leased, Active
<1> QED BY <1>1, <1>2 DEF OutcomeInv, OutcomeDecides, KnownState, Active

(* ReceiptsAreTrue and FinalReceipts, of one attempt. *)
ReceiptTrue(n) ==
  /\ att[n].receipt.attempt = (IF att[n].state \in Ended THEN att[n].state ELSE "none")
  /\ att[n].receipt.retry => n + 1 \in Attempts /\ att[n + 1].state # "absent"
  /\ (att[n].state \in Ended /\ ~att[n].receipt.retry) =>
       /\ att[n].receipt.run \in Closed
       /\ \/ run.state = att[n].receipt.run
          \/ att[n].receipt.run = "unknown_outcome" /\ run.state = recon

(* A final receipt stays true: it closed the run, and a closed run moves by    *)
(* the rule.                                                                   *)
LEMMA FinalReceiptStays ==
  ASSUME LedgerTypeOK, OutcomeInv, RunMoves, LedgerTypeOK',
         NEW k \in Attempts, att[k].state \in Ended, ~att[k].receipt.retry
  PROVE  /\ att[k].receipt.run \in Closed
         /\ \/ run'.state = att[k].receipt.run
            \/ att[k].receipt.run = "unknown_outcome" /\ run'.state = recon'
<1>1. att[k].receipt.run \in Closed
  BY DEF OutcomeInv, FinalReceipts
<1>2. \/ run.state = att[k].receipt.run
      \/ att[k].receipt.run = "unknown_outcome" /\ run.state = recon
  BY DEF OutcomeInv, ReceiptsAreTrue
<1>3. run.state \in Closed
  <2>1. CASE run.state = att[k].receipt.run
    BY <1>1, <2>1
  <2>2. CASE att[k].receipt.run = "unknown_outcome" /\ run.state = recon
    <3>1. run.state \in RunStates /\ recon \in {"none", "succeeded", "failed"}
      BY DEF LedgerTypeOK, RunType
    <3>2. recon # "none"
      BY <2>2, <3>1 DEF RunStates
    <3> QED BY <2>2, <3>1, <3>2 DEF Closed, Terminal
  <2> QED BY <1>2, <2>1, <2>2
<1>4. recon # "unknown_outcome"
  BY DEF LedgerTypeOK
<1> QED BY <1>1, <1>2, <1>3, <1>4 DEF RunMoves

(* A transaction that neither creates nor ends an attempt. *)
LEMMA KeepsOutcomes ==
  ASSUME LedgerTypeOK, LedgerTypeOK', RowsInv, OutcomeInv, RunMoves, KeepsAttempts
  PROVE  OutcomeInv'
<1>0. \A k \in Attempts :
        /\ att'[k].receipt = att[k].receipt
        /\ att'[k].state = att[k].state \/ (att[k].state \in Active /\ att'[k].state \in Active)
  BY DEF KeepsAttempts
<1> USE DEF OutcomeInv
<1>1. AttemptsInOrder'
  BY <1>0 DEF AttemptsInOrder, Active, Ended
<1>2. OutcomeOrder'
  BY DEF KeepsAttempts, OutcomeOrder, Active
<1>3. OutcomeDecides'
  <2> SUFFICES ASSUME NEW n \in Attempts, att'[n].outcome # NoOutcome
               PROVE  /\ \A m \in Attempts : m > n => att'[m].state = "absent"
                      /\ \/ att'[n].state = "provider_call_started"
                         \/ /\ att'[n].state = KnownState(att'[n].outcome)
                            /\ run'.state = KnownState(att'[n].outcome)
    BY DEF OutcomeDecides
  <2>1. CASE att[n].state = "provider_call_started"
    <3>1. \A m \in Attempts : m > n => att[m].state = "absent"
      BY <2>1 DEF AttemptsInOrder, Ended, Attempts
    <3> QED BY <1>0, <2>1, <3>1 DEF KeepsAttempts, Active
  <2>2. CASE att[n].state # "provider_call_started"
    <3>1. att'[n].outcome = att[n].outcome
      BY <2>2 DEF KeepsAttempts
    <3>2. /\ \A m \in Attempts : m > n => att[m].state = "absent"
          /\ att[n].state = KnownState(att[n].outcome)
          /\ run.state = KnownState(att[n].outcome)
      BY <2>2, <3>1 DEF OutcomeDecides
    <3>3. run'.state = run.state
      BY <3>2 DEF RunMoves, KnownState, Closed, Terminal
    <3>4. att'[n].state = att[n].state
      BY <1>0, <3>2 DEF KnownState, Active
    <3> QED BY <1>0, <3>1, <3>2, <3>3, <3>4 DEF Active
  <2> QED BY <2>1, <2>2
<1>4. ReceiptsAreTrue' /\ FinalReceipts'
  <2> SUFFICES ASSUME NEW n \in Attempts PROVE ReceiptTrue(n)'
    BY DEF ReceiptsAreTrue, FinalReceipts, ReceiptTrue
  <2>1. att[n].state \in Ended <=> att'[n].state \in Ended
    BY <1>0 DEF Active, Ended
  <2>2. att[n].state \in Ended => att'[n].state = att[n].state
    BY <1>0 DEF Active, Ended
  <2>3. att'[n].receipt.attempt = (IF att'[n].state \in Ended THEN att'[n].state ELSE "none")
    BY <1>0, <2>1, <2>2 DEF ReceiptsAreTrue
  <2>4. att'[n].receipt.retry => n + 1 \in Attempts /\ att'[n + 1].state # "absent"
    BY <1>0 DEF ReceiptsAreTrue, Active
  <2>5. (att'[n].state \in Ended /\ ~att'[n].receipt.retry) =>
          /\ att'[n].receipt.run \in Closed
          /\ \/ run'.state = att'[n].receipt.run
             \/ /\ att'[n].receipt.run = "unknown_outcome"
                /\ run'.state = recon'
    BY <1>0, <2>1, <2>2, FinalReceiptStays
  <2> QED BY <2>3, <2>4, <2>5 DEF ReceiptTrue
<1>5. NeverExternal'
  BY DEF NeverExternal, RunMoves
<1> QED BY <1>1, <1>2, <1>3, <1>4, <1>5

(* A transaction that ends an attempt and closes its run. *)
LEMMA EndsOutcomes ==
  ASSUME LedgerTypeOK, LedgerTypeOK', RowsInv, OutcomeInv, RunMoves,
         NEW n \in Attempts, EndsAttempt(n)
  PROVE  OutcomeInv'
<1>0. /\ att[n].state \in Leased /\ att'[n].state \in Ended
      /\ \A k \in Attempts \ {n} : att'[k] = att[k]
      /\ run'.state \in Closed
  BY DEF EndsAttempt
<1>1. \A k \in Attempts \ {n} : att[k].outcome = NoOutcome
  BY <1>0, OthersHaveNoOutcome
<1>2. \A m \in Attempts : m > n => att[m].state = "absent"
  BY <1>0 DEF OutcomeInv, AttemptsInOrder, Leased, Ended, Attempts
<1> USE DEF OutcomeInv
<1>3. AttemptsInOrder'
  BY <1>0 DEF AttemptsInOrder, Leased, Ended
<1>4. OutcomeOrder'
  BY <1>0 DEF OutcomeOrder, Ended
<1>5. OutcomeDecides'
  <2> SUFFICES ASSUME NEW k \in Attempts, att'[k].outcome # NoOutcome
               PROVE  /\ \A m \in Attempts : m > k => att'[m].state = "absent"
                      /\ att'[k].state = KnownState(att'[k].outcome)
                      /\ run'.state = KnownState(att'[k].outcome)
    BY DEF OutcomeDecides
  <2>1. k = n
    BY <1>0, <1>1
  <2>2. \A m \in Attempts : m > n => m # n
    BY LimitAssumption DEF Attempts
  <2> QED BY <1>0, <1>2, <2>1, <2>2 DEF EndsAttempt
<1>6. ReceiptsAreTrue' /\ FinalReceipts'
  <2> SUFFICES ASSUME NEW k \in Attempts PROVE ReceiptTrue(k)'
    BY DEF ReceiptsAreTrue, FinalReceipts, ReceiptTrue
  <2>1. CASE k = n
    BY <2>1 DEF EndsAttempt, ReceiptTrue
  <2>2. CASE k # n
    <3>1. att'[k] = att[k]
      BY <1>0, <2>2
    <3>2. att'[k].receipt.attempt = (IF att'[k].state \in Ended THEN att'[k].state ELSE "none")
      BY <3>1 DEF ReceiptsAreTrue
    <3>3. att'[k].receipt.retry => k + 1 \in Attempts /\ att'[k + 1].state # "absent"
      BY <1>0, <3>1 DEF ReceiptsAreTrue, Ended
    <3>4. (att'[k].state \in Ended /\ ~att'[k].receipt.retry) =>
            /\ att'[k].receipt.run \in Closed
            /\ \/ run'.state = att'[k].receipt.run
               \/ att'[k].receipt.run = "unknown_outcome" /\ run'.state = recon'
      BY <3>1, FinalReceiptStays
    <3> QED BY <3>2, <3>3, <3>4 DEF ReceiptTrue
  <2> QED BY <2>1, <2>2
<1>7. NeverExternal'
  BY DEF NeverExternal, RunMoves
<1> QED BY <1>3, <1>4, <1>5, <1>6, <1>7

(* A transaction that creates the next attempt, where all others have ended    *)
(* without an outcome. Here b are the attempts before the creation.            *)
LEMMA CreationOutcomes ==
  ASSUME LedgerTypeOK, LedgerTypeOK', RunMoves, NeverExternal,
         NEW b, att' = WithNewAttempt(b),
         \A k \in Attempts : b[k].state \notin Active /\ b[k].outcome = NoOutcome
                             /\ b[k].state \in AttemptStates,
         \A m, k \in Attempts : m < k /\ b[k].state # "absent" => b[m].state \in Ended,
         \A k \in Attempts : 
           /\ b[k].receipt.attempt = (IF b[k].state \in Ended THEN b[k].state ELSE "none")
           /\ b[k].receipt.retry => k + 1 \in Attempts /\ att'[k + 1].state # "absent"
           /\ (b[k].state \in Ended /\ ~b[k].receipt.retry) =>
                /\ b[k].receipt.run \in Closed
                /\ \/ run'.state = b[k].receipt.run
                   \/ b[k].receipt.run = "unknown_outcome" /\ run'.state = recon'
  PROVE  OutcomeInv'
<1>1. \A k \in Attempts :
        \/ ~IsNext(b, k) /\ att'[k] = b[k]
        \/ /\ IsNext(b, k)
           /\ b[k].state = "absent"
           /\ att'[k].state = "pending"
           /\ att'[k].outcome = NoOutcome
           /\ att'[k].receipt = NoReceipt
  BY WithNewAttemptReceipt
<1> USE DEF OutcomeInv
<1>2. AttemptsInOrder'
  <2> SUFFICES ASSUME NEW m \in Attempts, NEW k \in Attempts, m < k, att'[k].state # "absent"
               PROVE  att'[m].state \in Ended
    BY DEF AttemptsInOrder
  <2>1. b[m].state \in Ended
    <3>1. CASE IsNext(b, k)
      BY <3>1 DEF IsNext, Active, Ended, AttemptStates
    <3>2. CASE att'[k] = b[k]
      BY <3>2
    <3> QED BY <1>1, <3>1, <3>2
  <2> QED BY <1>1, <2>1 DEF Ended
<1>3. OutcomeOrder' /\ OutcomeDecides'
  BY <1>1 DEF OutcomeOrder, OutcomeDecides
<1>4. ReceiptsAreTrue' /\ FinalReceipts'
  <2> SUFFICES ASSUME NEW k \in Attempts PROVE ReceiptTrue(k)'
    BY DEF ReceiptsAreTrue, FinalReceipts, ReceiptTrue
  <2>1. CASE att'[k] = b[k]
    BY <2>1 DEF ReceiptTrue
  <2>2. CASE att'[k].state = "pending" /\ att'[k].receipt = NoReceipt
    BY <2>2 DEF ReceiptTrue, NoReceipt, Ended
  <2> QED BY <1>1, <2>1, <2>2
<1>5. NeverExternal'
  BY DEF NeverExternal, RunMoves
<1> QED BY <1>2, <1>3, <1>4, <1>5

(* scheduleInTransaction creates an attempt of an open run. *)
LEMMA CreatesOutcomes ==
  ASSUME LedgerTypeOK, LedgerTypeOK', OutcomeInv, RunMoves, CreatesAttempt
  PROVE  OutcomeInv'
<1>0. /\ \A k \in Attempts : att[k].state \notin Active
      /\ run.state \notin Closed
      /\ att' = WithNewAttempt(att)
  BY DEF CreatesAttempt, HasActive
<1>1. \A k \in Attempts : att[k].outcome = NoOutcome /\ att[k].state \in AttemptStates
  BY <1>0 DEF OutcomeInv, OutcomeDecides, KnownState, Active, Closed, Terminal, LedgerTypeOK,
     AttemptType
<1>2. \A m, k \in Attempts : m < k /\ att[k].state # "absent" => att[m].state \in Ended
  BY DEF OutcomeInv, AttemptsInOrder
<1>3. ASSUME NEW k \in Attempts
      PROVE  /\ att[k].receipt.attempt = (IF att[k].state \in Ended THEN att[k].state ELSE "none")
             /\ att[k].receipt.retry => k + 1 \in Attempts /\ att'[k + 1].state # "absent"
             /\ (att[k].state \in Ended /\ ~att[k].receipt.retry) =>
                  /\ att[k].receipt.run \in Closed
                  /\ \/ run'.state = att[k].receipt.run
                     \/ att[k].receipt.run = "unknown_outcome" /\ run'.state = recon'
  <2>1. att[k].receipt.attempt = (IF att[k].state \in Ended THEN att[k].state ELSE "none")
    BY DEF OutcomeInv, ReceiptsAreTrue
  <2>2. att[k].receipt.retry => k + 1 \in Attempts /\ att'[k + 1].state # "absent"
    <3>1. att[k].receipt.retry => k + 1 \in Attempts /\ att[k + 1].state # "absent"
      BY DEF OutcomeInv, ReceiptsAreTrue
    <3>2. k + 1 \in Attempts /\ att[k + 1].state # "absent" => att'[k + 1].state # "absent"
      BY <1>0, WithNewAttemptReceipt
    <3> QED BY <3>1, <3>2
  <2> QED BY <2>1, <2>2, FinalReceiptStays
<1>4. NeverExternal
  BY DEF OutcomeInv
<1> QED BY <1>0, <1>1, <1>2, <1>3, <1>4, CreationOutcomes

(* #recoverUnknownInTransaction ends an attempt and creates the next one: the  *)
(* receipt that reports the retry has one to point to.                         *)
LEMMA RetriesOutcomes ==
  ASSUME LedgerTypeOK, LedgerTypeOK', RowsInv, OutcomeInv, RunMoves,
         NEW n \in Attempts, RetriesAttempt(n)
  PROVE  OutcomeInv'
<1>0. att \in [Attempts -> AttemptType] /\ att[n] \in AttemptType
  BY DEF LedgerTypeOK
<1>1. PICK s \in Ended : att' = WithNewAttempt(EndAttempt(n, s, run.state, TRUE))
  BY DEF RetriesAttempt
<1>2. PICK b : b = EndAttempt(n, s, run.state, TRUE)
  OBVIOUS
<1>3. /\ b[n].state = s /\ b[n].outcome = att[n].outcome
      /\ b[n].receipt.attempt = s /\ b[n].receipt.retry
      /\ \A k \in Attempts \ {n} : b[k] = att[k]
  BY <1>0, <1>2 DEF EndAttempt, AttemptType, Receipt
<1>4. att[n].state \in Leased /\ att[n].outcome = NoOutcome /\ n < Limit /\ att' = WithNewAttempt(b)
  BY <1>1, <1>2 DEF RetriesAttempt
<1>5. ASSUME NEW k \in Attempts
      PROVE  b[k].state \notin Active /\ b[k].outcome = NoOutcome /\ b[k].state \in AttemptStates
  <2>1. CASE k = n
    BY <1>3, <1>4, <2>1 DEF Ended, Active, AttemptStates
  <2>2. CASE k # n
    <3>1. b[k] = att[k] /\ att[k].state \in AttemptStates
      BY <1>3, <2>2 DEF LedgerTypeOK, AttemptType
    <3>2. att[k].state \notin Active
      BY <1>4, <2>2 DEF RowsInv, OneActiveAttempt, Leased, Active
    <3>3. att[k].outcome = NoOutcome
      BY <1>4, <2>2, OthersHaveNoOutcome
    <3> QED BY <3>1, <3>2, <3>3
  <2> QED BY <2>1, <2>2
<1>6. \A m \in Attempts : m < n => att[m].state \in Ended
  BY <1>4 DEF OutcomeInv, AttemptsInOrder, Leased
<1>7. \A m, k \in Attempts : m < k /\ b[k].state # "absent" => b[m].state \in Ended
  BY <1>3, <1>4, <1>6 DEF OutcomeInv, AttemptsInOrder, Leased, Ended
<1>8. ASSUME NEW k \in Attempts, b[k].state # "absent"
      PROVE  att'[k].state # "absent"
  BY <1>4, <1>8, WithNewAttemptReceipt
<1>9. n + 1 \in Attempts /\ att'[n + 1].state # "absent"
  <2>1. n + 1 \in Attempts /\ n + 1 <= Limit
    BY <1>4, LimitAssumption DEF Limit, Attempts
  <2>2. CASE b[n + 1].state # "absent"
    BY <1>8, <2>1, <2>2
  <2>3. CASE b[n + 1].state = "absent"
    <3>1. ASSUME NEW m \in Attempts, m < n + 1
          PROVE  b[m].state # "absent"
      <4>1. m = n \/ m < n
        BY <3>1 DEF Attempts
      <4> QED BY <1>3, <1>6, <4>1 DEF Ended
    <3>2. IsNext(b, n + 1)
      BY <2>1, <2>3, <3>1 DEF IsNext
    <3> QED BY <1>4, <2>1, <3>2, WithNewAttemptReceipt
  <2> QED BY <2>2, <2>3
<1>10. ASSUME NEW k \in Attempts
      PROVE  /\ b[k].receipt.attempt = (IF b[k].state \in Ended THEN b[k].state ELSE "none")
             /\ b[k].receipt.retry => k + 1 \in Attempts /\ att'[k + 1].state # "absent"
             /\ (b[k].state \in Ended /\ ~b[k].receipt.retry) =>
                  /\ b[k].receipt.run \in Closed
                  /\ \/ run'.state = b[k].receipt.run
                     \/ b[k].receipt.run = "unknown_outcome" /\ run'.state = recon'
  <2>1. CASE k = n
    BY <1>3, <1>9, <2>1
  <2>2. CASE k # n
    <3>1. b[k] = att[k]
      BY <1>3, <2>2
    <3>2. att[k].receipt.attempt = (IF att[k].state \in Ended THEN att[k].state ELSE "none")
      BY DEF OutcomeInv, ReceiptsAreTrue
    <3>3. att[k].receipt.retry => k + 1 \in Attempts /\ att'[k + 1].state # "absent"
      <4>1. att[k].receipt.retry => k + 1 \in Attempts /\ att[k + 1].state # "absent"
        BY DEF OutcomeInv, ReceiptsAreTrue
      <4>2. k + 1 \in Attempts /\ att[k + 1].state # "absent" => b[k + 1].state # "absent"
        BY <1>3 DEF Ended
      <4> QED BY <1>8, <4>1, <4>2
    <3> QED BY <3>1, <3>2, <3>3, FinalReceiptStays
  <2> QED BY <2>1, <2>2
<1>11. NeverExternal
  BY DEF OutcomeInv
<1> QED BY <1>4, <1>5, <1>7, <1>10, <1>11, CreationOutcomes

(* Every transaction keeps outcomes and receipts in agreement with the run. *)
LEMMA TransactionOutcomes ==
  ASSUME TypeOK, RowsInv, OutcomeInv, Unpersisted,
         EngineStep \/ UNCHANGED ledger, LedgerStep \/ UNCHANGED ledger
  PROVE  OutcomeInv'
<1>1. LedgerTypeOK /\ LedgerTypeOK'
  BY LedgerStepType DEF TypeOK
<1>2. TouchesAttempts
  BY TransactionTouches DEF OutcomeInv
<1>3. RunMoves
  BY <1>1, TransactionMoves
<1> QED BY <1>1, <1>2, <1>3, KeepsOutcomes, CreatesOutcomes, EndsOutcomes, RetriesOutcomes
        DEF TouchesAttempts

-----------------------------------------------------------------------------
(* Retained results. *)

(* An outcome is written once; a payload is stored with it and leaves only     *)
(* with a record on the run; and the run takes its outcome from an attempt, or *)
(* one that retains nothing.                                                   *)
PayloadMoves ==
  /\ \A k \in Attempts :
       \/ att'[k].outcome = att[k].outcome
       \/ /\ att[k].outcome = NoOutcome
          /\ att'[k].outcome.result = "retained" => k \in outputs'
  /\ outputs \subseteq outputs' \/ run'.resultPurged
  /\ run.resultPurged => \/ run'.resultPurged
                         \/ /\ run'.outcome = NoOutcome
                            /\ \A k \in Attempts : att'[k].outcome = NoOutcome
  /\ \/ run'.outcome = run.outcome
     \/ run'.outcome.result # "retained"
     \/ \E k \in Attempts : run'.outcome = att'[k].outcome

(* The run takes the outcome of the attempt, or one that retains nothing. *)
LEMMA EndingPayload ==
  ASSUME LedgerTypeOK, OutcomeOrder, NEW n \in Attempts,
         FinalizeKnown(n) \/ RecoverUnknown(n) \/ SettleAbandonedClaim(n)
           \/ SettleBeforeCallFailure(n),
         outputs' = outputs
  PROVE  PayloadMoves
<1>0. run \in RunType
  BY DEF LedgerTypeOK
<1>4. \A k \in Attempts : att'[k].outcome = att[k].outcome
  BY EndingOutcomes
<1>5. /\ NotAttempted.result # "retained" /\ UnknownOutcome.result # "retained"
  BY DEF NotAttempted, UnknownOutcome, Returned
<1>6. PICK s, o : /\ run' = run \/ run' = Transition(run, s, o)
                  /\ o.result # "retained" \/ o = att[n].outcome
  BY <1>5 DEF FinalizeKnown, RecoverUnknown, RetryLost, CloseLost,
     SettleAbandonedClaim, SettleBeforeCallFailure
<1>7. run'.resultPurged = run.resultPurged /\ run'.outcome \in {run.outcome, o}
  BY <1>0, <1>6, TransitionOutcome
<1> QED BY <1>4, <1>6, <1>7 DEF PayloadMoves

(* Every transaction moves outcomes and payloads by the rule. *)
LEMMA TransactionPayload ==
  ASSUME LedgerTypeOK, RowsInv, OutcomeOrder, LedgerStep \/ UNCHANGED ledger
  PROVE  PayloadMoves
<1>0. run \in RunType /\ att \in [Attempts -> AttemptType]
  BY DEF LedgerTypeOK
<1>a. /\ NotAttempted.result # "retained" /\ NoOutcome.result # "retained"
      /\ \A ok \in BOOLEAN : Returned(ok, FALSE).result # "retained"
  BY DEF NotAttempted, NoOutcome, Returned
<1>1. ASSUME \A k \in Attempts : att'[k].outcome = att[k].outcome,
             outputs' = outputs, run'.resultPurged = run.resultPurged,
             run'.outcome = run.outcome \/ run'.outcome.result # "retained"
      PROVE  PayloadMoves
  BY <1>1 DEF PayloadMoves
<1>2. ASSUME att' = att, outputs' = outputs, NEW s, NEW o, o.result # "retained",
             run' = Transition(run, s, o)
      PROVE  PayloadMoves
  <2>1. run'.resultPurged = run.resultPurged /\ run'.outcome \in {run.outcome, o}
    BY <1>0, <1>2, TransitionOutcome
  <2> QED BY <1>1, <1>2, <2>1
<1>3. CASE att' = att /\ outputs' = outputs /\ run' = run
  BY <1>1, <1>3
<1>4. CASE HumanStep
  <2>1. CASE Submit
    <3>1. /\ SubmittedRun \in RunType /\ SubmittedRun.outcome = NoOutcome
      BY OutcomeTypes DEF SubmittedRun, NoRun, RunType, RunStates
    <3>2. /\ \A k \in Attempts : att'[k].outcome = att[k].outcome
          /\ run'.outcome = NoOutcome
          /\ outputs' = outputs
      BY <2>1, <3>1, SchedulePayload DEF Submit
    <3>3. \A k \in Attempts : att[k].outcome = NoOutcome
      BY <2>1 DEF Submit, RowsInv, AbsentRun, OutcomeOrder
    <3> QED BY <1>a, <3>2, <3>3 DEF PayloadMoves
  <2>2. CASE Cancel
    <3>1. CASE run.state \in Waiting
      BY <1>2, <1>a, <2>2, <3>1 DEF Cancel
    <3>2. CASE run.state \notin Waiting
      BY <1>0, <1>1, <2>2, <3>2 DEF Cancel, RunType
    <3> QED BY <3>1, <3>2
  <2>3. ASSUME NEW a \in Approvers, ApproveFirst(a)
        PROVE  PayloadMoves
    <3>1. PICK r : r = ApprovedRun
      OBVIOUS
    <3>2. r \in RunType /\ r.outcome = run.outcome /\ r.resultPurged = run.resultPurged
      BY <3>1, ApprovedRunFields
    <3>3. Schedule(r) /\ outputs' = outputs
      BY <2>3, <3>1 DEF ApproveFirst
    <3> QED BY <1>1, <3>2, <3>3, SchedulePayload
  <2>4. ASSUME NEW a \in Approvers, ApproveAgain(a)
        PROVE  PayloadMoves
    BY <1>0, <1>1, <2>4, SchedulePayload DEF ApproveAgain
  <2>5. ASSUME NEW a \in Approvers, ApproveTooLate(a)
        PROVE  PayloadMoves
    BY <1>2, <1>3, <1>a, <2>5 DEF ApproveTooLate
  <2>6. ASSUME NEW a \in Approvers, Reject(a)
        PROVE  PayloadMoves
    BY <1>2, <1>3, <1>a, <2>6 DEF Reject, RejectReleased, RejectClosed, RejectFirst
  <2>7. ASSUME NEW s \in {"succeeded", "failed"}, ReconcileUnknown(s)
        PROVE  PayloadMoves
    <3>1. PICK o : run' = Transition(run, s, o) /\ o.result # "retained"
      BY <1>a, <2>7 DEF ReconcileUnknown
    <3>2. att' = att /\ outputs' = outputs
      BY <2>7 DEF ReconcileUnknown
    <3> QED BY <1>2, <3>1, <3>2
  <2> QED BY <1>4, <2>1, <2>2, <2>3, <2>4, <2>5, <2>6, <2>7 DEF HumanStep
<1>5. CASE OtherStep
  <2>1. CASE ClaimExpiresRun
    BY <1>2, <1>a, <2>1 DEF ClaimExpiresRun
  <2>2. CASE PrepareRows
    BY <1>0, <1>1, <2>2, SchedulePayload DEF PrepareRows
  <2>3. CASE Purge
    <3>1. /\ att' = att
          /\ run.resultPurged => run'.resultPurged
          /\ run'.outcome = run.outcome \/ run'.outcome.result = "expired"
      BY <1>0, <2>3 DEF Purge, PurgedRun, RunType, OutcomeType
    <3>2. outputs' = outputs \/ run'.resultPurged
      BY <1>0, <2>3 DEF Purge, PurgedRun, RunType
    <3> QED BY <3>1, <3>2 DEF PayloadMoves
  <2> QED BY <1>3, <1>5, <2>1, <2>2, <2>3
          DEF OtherStep, JobSettled, InputExpires, ResultExpires, Revoke, rows
<1>6. ASSUME NEW n \in Attempts, AttemptStep(n)
      PROVE  PayloadMoves
  <2>1. CASE RecoverRun(n)
    BY <2>1, EndingPayload DEF RecoverRun
  <2>2. CASE SettleBeforeCallFailure(n)
    BY <2>2, EndingPayload DEF SettleBeforeCallFailure
  <2>3. CASE LeaseTick(n)
    BY <1>0, <1>1, <2>3 DEF LeaseTick, AttemptType
  <2> QED BY <1>6, <2>1, <2>2, <2>3 DEF AttemptStep
<1>7. ASSUME NEW w \in Processes, NEW n \in Attempts, ExecutionStep(w, n)
      PROVE  PayloadMoves
  <2>1. CASE Claim(w, n) \/ RenewLease(w, n)
    BY <1>0, <1>1, <2>1 DEF Claim, RenewLease, AttemptType
  <2>2. CASE MarkProviderCallStarted(w, n)
    BY <1>0, <1>1, <2>2 DEF MarkProviderCallStarted, AttemptType, RunType
  <2>3. ASSUME NEW o \in OutcomeType, PersistKnownResult(w, n, o)
        PROVE  PayloadMoves
    <3>1. /\ att[n].outcome = NoOutcome /\ att'[n].outcome = o
          /\ \A k \in Attempts \ {n} : att'[k].outcome = att[k].outcome
          /\ run' = run
      BY <1>0, <2>3 DEF PersistKnownResult, AttemptType
    <3>2. outputs \subseteq outputs' /\ (o.result = "retained" => n \in outputs')
      BY <2>3 DEF PersistKnownResult
    <3> QED BY <3>1, <3>2 DEF PayloadMoves
  <2>4. CASE FinalizeKnownResult(w, n) \/ SettleIndeterminate(w, n)
    BY <2>4, EndingPayload DEF FinalizeKnownResult, SettleIndeterminate
  <2>5. CASE ExecuteNative(w, n)
    <3>1. PICK o \in OutcomeType : o = Returned(TRUE, TRUE)
      BY OutcomeTypes
    <3>2. /\ att'[n].outcome = o /\ att[n].state = "claimed"
          /\ \A k \in Attempts \ {n} : att'[k] = att[k]
          /\ run'.resultPurged = run.resultPurged
          /\ run'.outcome = o
      BY <1>0, <2>5, <3>1 DEF ExecuteNative, NativeReady, AttemptType, RunType
    <3>3. att[n].outcome = NoOutcome /\ n \in outputs' /\ outputs \subseteq outputs'
      BY <2>5, <3>2 DEF OutcomeOrder, ExecuteNative
    <3> QED BY <3>2, <3>3 DEF PayloadMoves
  <2> QED BY <1>7, <2>1, <2>2, <2>3, <2>4, <2>5 DEF ExecutionStep, Execution
<1>8. CASE UNCHANGED ledger
  BY <1>3, <1>8 DEF ledger
<1> QED BY <1>4, <1>5, <1>6, <1>7, <1>8 DEF LedgerStep

(* The rule keeps a retained result readable. *)
LEMMA PayloadStays ==
  ASSUME LedgerTypeOK, PayloadInv, PayloadMoves
  PROVE  PayloadInv'
<1>0. NoOutcome.result # "retained"
  BY DEF NoOutcome
<1>1. ResultKept'
  BY <1>0 DEF PayloadInv, ResultKept, PayloadMoves
<1>2. RetainedResultIsReadable'
  <2> SUFFICES ASSUME run'.outcome.result = "retained", ~run'.resultPurged
               PROVE  \E n \in outputs' : att'[n].outcome = run'.outcome
    BY DEF RetainedResultIsReadable
  <2>1. CASE \E k \in Attempts : run'.outcome = att'[k].outcome
    BY <1>1, <2>1 DEF ResultKept
  <2>2. CASE run'.outcome = run.outcome
    <3>1. CASE run.resultPurged
      BY <1>0, <2>2, <3>1 DEF PayloadMoves
    <3>2. CASE ~run.resultPurged
      BY <1>0, <2>2, <3>2 DEF PayloadInv, RetainedResultIsReadable, PayloadMoves, LedgerTypeOK
    <3> QED BY <3>1, <3>2
  <2> QED BY <2>1, <2>2 DEF PayloadMoves
<1> QED BY <1>1, <1>2 DEF PayloadInv

-----------------------------------------------------------------------------
(* Answers. *)

(* Outside the processes nobody writes an outcome. *)
LEMMA EnvironmentOutcomes ==
  ASSUME LedgerTypeOK, OutcomeOrder, Next, ~\E w \in Processes : Step(w)
  PROVE  \A k \in Attempts : att'[k].outcome = att[k].outcome
<1>0. run \in RunType /\ att \in [Attempts -> AttemptType]
  BY DEF LedgerTypeOK
<1>1. CASE MaintenanceRecover
  BY <1>1, EndingOutcomes DEF MaintenanceRecover, RecoverRun
<1>2. CASE SubmitRun
  <2>1. SubmittedRun \in RunType
    BY OutcomeTypes DEF SubmittedRun, NoRun, RunType, RunStates
  <2> QED BY <1>2, <2>1, SchedulePayload DEF SubmitRun, Submit
<1>3. CASE Approve
  <2>1. ASSUME NEW a \in Approvers, ApproveFirst(a)
        PROVE  \A k \in Attempts : att'[k].outcome = att[k].outcome
    <3>1. PICK r : r = ApprovedRun
      OBVIOUS
    <3>2. r \in RunType
      BY <3>1, ApprovedRunFields
    <3>3. Schedule(r)
      BY <2>1, <3>1 DEF ApproveFirst
    <3> QED BY <3>2, <3>3, SchedulePayload
  <2>2. ASSUME NEW a \in Approvers, ApproveAgain(a) \/ ApproveTooLate(a)
        PROVE  \A k \in Attempts : att'[k].outcome = att[k].outcome
    BY <1>0, <2>2, SchedulePayload DEF ApproveAgain, ApproveTooLate
  <2> QED BY <1>3, <2>1, <2>2 DEF Approve
<1>4. CASE \E n \in Attempts : LeaseRunsDown(n)
  BY <1>0, <1>4 DEF LeaseRunsDown, LeaseTick, AttemptType
<1>5. CASE MaintenancePurge \/ RejectRun \/ CancelRun \/ Reconcile \/ RetentionEnds \/ AuthorityRevoked
  BY <1>5 DEF MaintenancePurge, Purge, RejectRun, Reject, CancelRun, Cancel, Reconcile,
     ReconcileUnknown, RetentionEnds, InputExpires, ResultExpires, AuthorityRevoked, Revoke, rows
<1> QED BY <1>1, <1>2, <1>3, <1>4, <1>5 DEF Next

(* A process writes an outcome on the attempt whose token it holds only: the   *)
(* answer it has in memory, or that of a native effect it makes.               *)
WritesAnswer(w, k) ==
  /\ k = cur[w] /\ att[k].token = w
  /\ \/ pc[w] = "persist" /\ pc'[w] = "finalize" /\ att'[k].outcome = result[w] /\ calls' = calls
     \/ /\ calls' = [calls EXCEPT ![k] = @ + 1]
        /\ pc'[w] \in {"idle", "returned"}
LEMMA StepOutcomes ==
  ASSUME TypeOK, OutcomeOrder, NEW w \in Processes, Step(w), NEW k \in Attempts
  PROVE  att'[k].outcome = att[k].outcome \/ WritesAnswer(w, k)
<1>0. /\ run \in RunType /\ att \in [Attempts -> AttemptType]
      /\ pc \in [Processes -> Steps]
      /\ pc[w] # "idle" => cur[w] \in Attempts
      /\ LedgerTypeOK
  BY DEF TypeOK, LedgerTypeOK
<1>1. CASE att' = att
  BY <1>1
<1>2. CASE PrepareAttempt(w)
  BY <1>0, <1>2, SchedulePayload DEF PrepareAttempt
<1>3. CASE Recover(w)
  BY <1>0, <1>1, <1>3, EndingOutcomes DEF Recover, At, RecoverRun, Nothing, ledger, Throw
<1>4. CASE ClaimAttempt(w)
  <2>1. CASE Claim(w, cur[w]) /\ pc[w] = "claim"
    BY <1>0, <2>1 DEF Claim, AttemptType
  <2> QED BY <1>1, <1>4, <2>1 DEF ClaimAttempt, At, ClaimExpiresRun, Nothing, ledger, Throw
<1>5. CASE SettleMissingInput(w)
  BY <1>0, <1>1, <1>5, EndingOutcomes DEF SettleMissingInput, At, Throw
<1>6. CASE MarkStarted(w)
  BY <1>0, <1>1, <1>6 DEF MarkStarted, At, MarkProviderCallStarted, AttemptType, Nothing, ledger
<1>7. CASE Heartbeat(w)
  BY <1>0, <1>7 DEF Heartbeat, RenewLease, AttemptType
<1>8. CASE SettleLost(w)
  BY <1>0, <1>1, <1>8, EndingOutcomes DEF SettleLost, At, SettleIndeterminate, Nothing, ledger, Throw
<1>9. CASE Persist(w)
  <2>1. CASE att' # att
    <3>1. /\ PersistKnownResult(w, cur[w], result[w])
          /\ pc[w] = "persist" /\ pc'[w] = "finalize" /\ calls' = calls /\ cur[w] \in Attempts
      BY <1>0, <1>9, <2>1 DEF Persist, At, Nothing, ledger
    <3>2. /\ att[cur[w]].token = w /\ att'[cur[w]].outcome = result[w]
          /\ k # cur[w] => att'[k] = att[k]
      BY <1>0, <3>1 DEF PersistKnownResult, Holds, AttemptType
    <3> QED BY <3>1, <3>2 DEF WritesAnswer
  <2> QED BY <1>1, <2>1
<1>10. CASE Finalize(w)
  BY <1>0, <1>1, <1>10, EndingOutcomes DEF Finalize, At, FinalizeKnownResult, Nothing, ledger, Throw
<1>11. CASE RunNative(w)
  <2>1. CASE att' # att
    <3>1. /\ ExecuteNative(w, cur[w]) /\ Return(w) /\ cur[w] \in Attempts
          /\ calls' = [calls EXCEPT ![cur[w]] = @ + 1]
      BY <1>0, <1>11, <2>1 DEF RunNative, At, Nothing, ledger, Throw
    <3>2. att[cur[w]].token = w /\ (k # cur[w] => att'[k] = att[k])
      BY <1>0, <3>1 DEF ExecuteNative, NativeReady
    <3>3. pc'[w] \in {"idle", "returned"}
      BY <1>0, <3>1 DEF Return, Leave, Goto
    <3> QED BY <3>1, <3>2, <3>3 DEF WritesAnswer
  <2> QED BY <1>1, <2>1
<1>12. CASE \/ \E n \in Attempts : TakeJob(w, n)
            \/ ReadInput(w) \/ Dispatch(w) \/ NotDispatched(w) \/ ProviderReturns(w)
            \/ Indeterminate(w) \/ CompleteJob(w) \/ Crash(w)
  BY <1>1, <1>12 DEF TakeJob, ReadInput, Dispatch, NotDispatched, ProviderReturns, Indeterminate,
     CompleteJob, Crash, Throw, Nothing, ledger
<1> QED BY <1>2, <1>3, <1>4, <1>5, <1>6, <1>7, <1>8, <1>9, <1>10, <1>11, <1>12 DEF Step

(* Only a process itself writes the answer it holds. *)
LEMMA StepHoldsOne ==
  ASSUME TypeOK, NEW w \in Processes, Step(w), NEW v \in Processes \ {w}
  PROVE  result'[v] = result[v]
<1>0. result \in [Processes -> OutcomeType]
  BY DEF TypeOK
<1>1. ASSUME NEW s, Goto(w, s) PROVE result'[v] = result[v]
  BY <1>1 DEF Goto
<1>2. CASE Leave(w)
  BY <1>0, <1>2 DEF Leave
<1>3. CASE Return(w) \/ Throw(w)
  BY <1>1, <1>2, <1>3 DEF Return, Throw
<1>4. CASE (\E n \in Attempts : TakeJob(w, n)) \/ PrepareAttempt(w) \/ Heartbeat(w)
  BY <1>4 DEF TakeJob, PrepareAttempt, Heartbeat, procs
<1>5. CASE NotDispatched(w) \/ ProviderReturns(w) \/ Persist(w)
  BY <1>0, <1>5 DEF NotDispatched, ProviderReturns, Persist
<1>6. CASE Recover(w) \/ ClaimAttempt(w) \/ ReadInput(w) \/ SettleMissingInput(w) \/ MarkStarted(w)
  BY <1>1, <1>3, <1>6 DEF Recover, ClaimAttempt, ReadInput, SettleMissingInput, MarkStarted
<1>7. CASE Dispatch(w) \/ Indeterminate(w) \/ SettleLost(w) \/ Finalize(w) \/ RunNative(w)
  BY <1>1, <1>3, <1>7 DEF Dispatch, Indeterminate, SettleLost, Finalize, RunNative
<1>8. CASE CompleteJob(w) \/ Crash(w)
  BY <1>2, <1>3, <1>8 DEF CompleteJob, Crash
<1> QED BY <1>4, <1>5, <1>6, <1>7, <1>8 DEF Step

(* A process awaits its answer from the boundary on; it waits after its        *)
(* dispatch, and brings a success back from its wait only.                     *)
Awaiting == {"call", "wait", "lost", "persist"}
LEMMA StepAwaits ==
  ASSUME TypeOK, NEW w \in Processes, Step(w), pc'[w] \in Awaiting
  PROVE  /\ pc[w] \in Awaiting \/ MarkProviderCallStarted(w, cur[w])
         /\ pc'[w] = "wait" => pc[w] = "wait" \/ Dispatch(w)
         /\ pc'[w] = "persist" => \/ pc[w] = "persist" /\ result'[w] = result[w]
                                  \/ pc[w] = "wait"
                                  \/ result'[w] = NotAttempted
<1> USE DEF Awaiting
<1>0. /\ pc \in [Processes -> Steps]
      /\ result \in [Processes -> OutcomeType]
  BY DEF TypeOK
<1>1. ~Leave(w) /\ ~Return(w) /\ ~Throw(w)
  BY <1>0 DEF Leave, Return, Goto, Throw
<1>2. ASSUME NEW s, Goto(w, s) PROVE pc'[w] = s
  BY <1>0, <1>2 DEF Goto
<1>3. CASE (\E n \in Attempts : TakeJob(w, n)) \/ PrepareAttempt(w)
  BY <1>0, <1>3 DEF TakeJob, PrepareAttempt, At
<1>4. CASE Recover(w) \/ SettleMissingInput(w) \/ SettleLost(w) \/ Finalize(w) \/ RunNative(w)
           \/ CompleteJob(w) \/ Crash(w) \/ ClaimAttempt(w)
  BY <1>1, <1>2, <1>4 DEF Recover, SettleMissingInput, SettleLost, Finalize, RunNative,
     CompleteJob, Crash, ClaimAttempt
<1>5. CASE ReadInput(w) \/ MarkStarted(w)
  BY <1>1, <1>2, <1>5 DEF ReadInput, MarkStarted
<1>6. CASE Heartbeat(w)
  BY <1>6 DEF Heartbeat, procs
<1>7. CASE Dispatch(w) \/ Indeterminate(w)
  BY <1>2, <1>7 DEF Dispatch, Indeterminate, At
<1>8. CASE NotDispatched(w) \/ ProviderReturns(w) \/ Persist(w)
  BY <1>0, <1>8 DEF NotDispatched, ProviderReturns, Persist, At
<1> QED BY <1>3, <1>4, <1>5, <1>6, <1>7, <1>8 DEF Step

(* A call that was counted stays counted, and counts once. *)
LEMMA CallsStay ==
  ASSUME Inv, NEW w \in Processes, Step(w), NEW k \in Attempts
  PROVE  /\ calls[k] = 1 => calls'[k] = 1
         /\ calls' = [calls EXCEPT ![k] = @ + 1] => calls'[k] = 1
<1>0. calls \in [Attempts -> Nat] /\ calls[k] \in Nat
  BY DEF Inv, TypeOK
<1>1. CASE calls' = calls
  BY <1>0, <1>1
<1>2. CASE calls' # calls
  BY <1>0, <1>2, CallEffect
<1> QED BY <1>1, <1>2

(* Every step keeps a process's answer its own and a success a call's. *)
LEMMA NextAnswers ==
  ASSUME Inv, OutcomeOrder, AnswerInv, Next
  PROVE  AnswerInv'
<1>0. /\ TypeOK /\ LedgerTypeOK /\ PcTypeOK
      /\ \A w \in Processes : pc[w] \in Awaiting => cur[w] \in Attempts /\ att[cur[w]].token = w
      /\ NoOutcome.success = FALSE /\ NotAttempted.success = FALSE
  BY DEF Inv, TypeOK, PcTypeOK, ProcessHolds, Awaiting, AfterClaim, NoOutcome, NotAttempted
<1>1. CASE ~\E w \in Processes : Step(w)
  <2>1. UNCHANGED <<pc, cur, result, calls>>
    BY <1>1, EnvironmentLeavesProcesses DEF procs
  <2>2. \A k \in Attempts : att'[k].outcome = att[k].outcome
    BY <1>0, <1>1, EnvironmentOutcomes
  <2> QED BY <1>0, <2>1, <2>2 DEF AnswerInv, Unpersisted, SuccessWasCalled, Awaiting
<1>2. ASSUME NEW w \in Processes, Step(w)
      PROVE  AnswerInv'
  <2>1. \A k \in Attempts : att'[k].outcome = att[k].outcome \/ WritesAnswer(w, k)
    BY <1>0, <1>2, StepOutcomes
  <2>2. \A k \in Attempts : /\ calls[k] = 1 => calls'[k] = 1
                            /\ calls' = [calls EXCEPT ![k] = @ + 1] => calls'[k] = 1
    BY <1>2, CallsStay
  <2>3. \A v \in Processes \ {w} : pc'[v] = pc[v] /\ cur'[v] = cur[v] /\ result'[v] = result[v]
    BY <1>0, <1>2, StepMovesOne, StepHoldsOne
  <2>4. pc'[w] \in Awaiting => /\ cur'[w] = cur[w] /\ cur[w] \in Attempts
    BY <1>0, <1>2, StepKeepsPlace DEF Awaiting, AfterClaim
  <2>5. pc'[w] \in Awaiting => ~WritesAnswer(w, cur[w])
    BY DEF WritesAnswer, Awaiting
  <2>6. Unpersisted'
    <3>1. ASSUME NEW v \in Processes \ {w}, pc'[v] \in Awaiting
          PROVE  att'[cur'[v]].outcome = NoOutcome
      <4>1. pc[v] \in Awaiting /\ cur'[v] = cur[v] /\ cur[v] \in Attempts /\ att[cur[v]].token = v
        BY <1>0, <2>3, <3>1
      <4>2. ~WritesAnswer(w, cur[v])
        BY <4>1 DEF WritesAnswer
      <4> QED BY <2>1, <4>1, <4>2 DEF AnswerInv, Unpersisted, Awaiting
    <3>2. ASSUME pc'[w] \in Awaiting
          PROVE  att'[cur'[w]].outcome = NoOutcome
      <4>1. pc[w] \in Awaiting \/ MarkProviderCallStarted(w, cur[w])
        BY <1>0, <1>2, <3>2, StepAwaits
      <4>2. att[cur[w]].outcome = NoOutcome
        BY <2>4, <3>2, <4>1 DEF AnswerInv, Unpersisted, Awaiting, MarkProviderCallStarted, MayStart,
           OutcomeOrder
      <4> QED BY <2>1, <2>4, <2>5, <3>2, <4>2
    <3> QED BY <3>1, <3>2 DEF Unpersisted, Awaiting
  <2>7. \A n \in Attempts : att'[n].outcome.success => calls'[n] = 1
    <3> SUFFICES ASSUME NEW n \in Attempts, att'[n].outcome.success
                 PROVE  calls'[n] = 1
      OBVIOUS
    <3>1. CASE att'[n].outcome = att[n].outcome
      BY <2>2, <3>1 DEF AnswerInv, SuccessWasCalled
    <3>2. CASE WritesAnswer(w, n)
      BY <2>2, <3>2 DEF WritesAnswer, AnswerInv, SuccessWasCalled
    <3> QED BY <2>1, <3>1, <3>2
  <2>8. ASSUME NEW v \in Processes \ {w}
        PROVE  /\ pc'[v] = "wait" => calls'[cur'[v]] = 1
               /\ pc'[v] = "persist" /\ result'[v].success => calls'[cur'[v]] = 1
    BY <1>0, <2>2, <2>3 DEF AnswerInv, SuccessWasCalled, Awaiting
  <2>9. pc'[w] = "wait" => calls'[cur'[w]] = 1
    <3> SUFFICES ASSUME pc'[w] = "wait" PROVE calls'[cur[w]] = 1
      BY <2>4 DEF Awaiting
    <3>1. pc[w] = "wait" \/ Dispatch(w)
      BY <1>0, <1>2, StepAwaits DEF Awaiting
    <3> QED BY <2>2, <2>4, <3>1 DEF AnswerInv, SuccessWasCalled, Awaiting, Dispatch
  <2>10. pc'[w] = "persist" /\ result'[w].success => calls'[cur'[w]] = 1
    <3> SUFFICES ASSUME pc'[w] = "persist", result'[w].success PROVE calls'[cur[w]] = 1
      BY <2>4 DEF Awaiting
    <3>1. \/ pc[w] = "persist" /\ result'[w] = result[w]
          \/ pc[w] = "wait"
          \/ result'[w] = NotAttempted
      BY <1>0, <1>2, StepAwaits DEF Awaiting
    <3> QED BY <1>0, <2>2, <2>4, <3>1 DEF AnswerInv, SuccessWasCalled, Awaiting
  <2> QED BY <2>6, <2>7, <2>8, <2>9, <2>10 DEF AnswerInv, SuccessWasCalled
<1> QED BY <1>1, <1>2

(* What an App Run says about itself rests on an inductive invariant. *)
THEOREM ResultInvariance == Spec => []ResultInv
<1>1. Init => ResultInv
  <2> SUFFICES ASSUME Init PROVE ResultInv
    OBVIOUS
  <2>1. /\ run = NoRun /\ approval = NoApproval /\ \A n \in Attempts : att[n] = NoAttempt
        /\ \A w \in Processes : pc[w] = "idle"
    BY DEF Init, LedgerInit
  <2>2. OutcomeInv
    BY <2>1 DEF OutcomeInv, AttemptsInOrder, OutcomeOrder, OutcomeDecides, ReceiptsAreTrue,
       FinalReceipts, NeverExternal, NoRun, NoAttempt, NoReceipt, Ended
  <2>3. PayloadInv
    BY <2>1 DEF PayloadInv, ResultKept, RetainedResultIsReadable, NoRun, NoAttempt, NoOutcome
  <2>4. AuthorityInv
    BY <2>1 DEF AuthorityInv, StartedIsAuthorized, ReleaseIsDue, ApprovalIsSigned, NoRun,
       NoApproval, NoAttempt
  <2>5. AnswerInv
    BY <2>1 DEF AnswerInv, Unpersisted, SuccessWasCalled, NoAttempt, NoOutcome
  <2> QED BY <2>2, <2>3, <2>4, <2>5, InvInit DEF ResultInv
<1>2. ResultInv /\ [Next]_vars => ResultInv'
  <2> SUFFICES ASSUME ResultInv, [Next]_vars PROVE ResultInv'
    OBVIOUS
  <2>0. /\ Inv /\ TypeOK /\ LedgerTypeOK /\ RowsInv /\ ApprovalAgrees /\ OutcomeInv /\ OutcomeOrder
        /\ PayloadInv /\ AuthorityInv /\ AnswerInv /\ Unpersisted
    BY DEF ResultInv, Inv, TypeOK, OutcomeInv, AnswerInv
  <2>1. (EngineStep \/ UNCHANGED ledger) /\ (LedgerStep \/ UNCHANGED ledger)
    BY <2>0, StepsAreTransactions, StepsAreLedgerSteps DEF vars
  <2>2. OutcomeInv'
    BY <2>0, <2>1, TransactionOutcomes
  <2>3. PayloadInv'
    BY <2>0, <2>1, TransactionPayload, PayloadStays
  <2>4. AuthorityInv'
    BY <2>0, <2>1, TransactionAuthorized
  <2>5. AnswerInv'
    <3>1. CASE UNCHANGED vars
      BY <2>0, <3>1 DEF vars, ledger, procs, AnswerInv, Unpersisted, SuccessWasCalled
    <3> QED BY <2>0, <3>1, NextAnswers
  <2> QED BY <2>0, <2>2, <2>3, <2>4, <2>5, InvNext DEF ResultInv
<1> QED BY <1>1, <1>2, PTL DEF Spec

-----------------------------------------------------------------------------
(* What follows. *)

(* No provider call without its authority: a release, the recorded approval of *)
(* a human where the policy asks for review, and a reserved budget slot        *)
(* (scheduleInTransaction, approveInTransaction, #markProviderCallStarted).    *)
THEOREM Authorized == Spec => []CallsAreAuthorized
<1>1. ResultInv => CallsAreAuthorized
  <2> SUFFICES ASSUME ResultInv, NEW n \in Called
               PROVE  /\ run.release # "none"
                      /\ policy.review => /\ approval.status = "approved"
                                          /\ approval.receipt.decision = "approved"
                      /\ policy.budgeted => run.budget
    BY DEF CallsAreAuthorized
  <2>1. n \in Attempts /\ calls[n] > 0 /\ calls[n] \in Nat /\ calls[n] <= 1
    BY DEF Called, ResultInv, Inv, TypeOK, CallsStarted
  <2>2. att[n].started
    BY <2>1 DEF ResultInv, Inv, CallsStarted
  <2>3. run.release # "none" /\ (policy.budgeted => run.budget)
    BY <2>1, <2>2 DEF ResultInv, AuthorityInv, StartedIsAuthorized
  <2>4. policy.review => run.release = "approved"
    BY <2>3 DEF ResultInv, Inv, TypeOK, LedgerTypeOK, RunType, AuthorityInv, ReleaseIsDue
  <2> QED BY <2>3, <2>4 DEF ResultInv, Inv, ApprovalAgrees, AuthorityInv, ApprovalIsSigned
<1> QED BY <1>1, ResultInvariance, PTL

(* A persisted provider result decides the run, whichever of its worker, a     *)
(* redelivered job and maintenance finalizes it (#finalizeKnownInTransaction,  *)
(* recoverRun).                                                                *)
THEOREM KnownDecides == Spec => []KnownResultDecides
<1>1. ResultInv => KnownResultDecides
  <2> SUFFICES ASSUME ResultInv, NEW n \in Attempts, att[n].outcome # NoOutcome
               PROVE  /\ \A m \in Attempts : m > n => att[m].state = "absent"
                      /\ run.state \in {"running", "expired", KnownState(att[n].outcome)}
                      /\ att[n].state \in {"provider_call_started", KnownState(att[n].outcome)}
    BY DEF KnownResultDecides
  <2>1. /\ \A m \in Attempts : m > n => att[m].state = "absent"
        /\ \/ att[n].state = "provider_call_started"
           \/ att[n].state = KnownState(att[n].outcome) /\ run.state = KnownState(att[n].outcome)
    BY DEF ResultInv, OutcomeInv, OutcomeDecides
  <2>2. att[n].state = "provider_call_started" => run.state \in {"running", "expired"}
    <3> SUFFICES ASSUME att[n].state = "provider_call_started"
                 PROVE  run.state \in {"running", "expired"}
      OBVIOUS
    <3>1. run.state \in RunStates /\ run.state # "waiting_external"
      BY DEF ResultInv, Inv, TypeOK, LedgerTypeOK, RunType, OutcomeInv, NeverExternal
    <3>2. run.state \notin Waiting \cup {"absent", "cancelled"}
      BY DEF ResultInv, Inv, RowsInv, AttemptOrder, StartedRun
    <3>3. run.state \notin {"succeeded", "failed", "unknown_outcome"}
      BY DEF ResultInv, Inv, RowsInv, OneActiveAttempt, HasActive, Active
    <3> QED BY <3>1, <3>2, <3>3 DEF RunStates, Waiting
  <2> QED BY <2>1, <2>2
<1> QED BY <1>1, ResultInvariance, PTL

(* Signed attempt receipts tell the truth about attempt, retry and run         *)
(* (#writeAttemptReceipt in finalize, recovery and retry; reconcileUnknown).   *)
THEOREM TrueReceipts == Spec => []ReceiptsAreTrue
<1>1. ResultInv => ReceiptsAreTrue
  BY DEF ResultInv, OutcomeInv
<1> QED BY <1>1, ResultInvariance, PTL

(* A run that offers a retained result still has the payload, until retention  *)
(* purged it and recorded that (#persistKnownResult,                           *)
(* purgeExpiredRunForMaintenance).                                             *)
THEOREM ReadableResult == Spec => []RetainedResultIsReadable
<1>1. ResultInv => RetainedResultIsReadable
  BY DEF ResultInv, PayloadInv
<1> QED BY <1>1, ResultInvariance, PTL

-----------------------------------------------------------------------------
(* The engine implements AppRunContract: every step of its rows, processes,    *)
(* leases, crashes and recovery is a step of the contract, or one the contract *)
(* does not see.                                                               *)

ContractInv == ResultInv /\ RunningStarted

(* A start that the rows allow is a grant that the contract allows. *)
LEMMA MayGrant ==
  ASSUME RowsInv, NEW n \in Attempts, att[n].state = "claimed"
  PROVE  n \notin Started /\ (policy.retry = "unsafe" => Started = {})
<1>1. ~att[n].started
  BY DEF RowsInv, AttemptOrder
<1>2. ASSUME policy.retry = "unsafe", NEW m \in Attempts, att[m].started
      PROVE  FALSE
  BY <1>1, <1>2 DEF RowsInv, OneShot, OneShotStartsOnce, Active
<1> QED BY <1>1, <1>2 DEF Started

(* A transaction without a call maps to a step of the contract, or to none. *)
LEMMA MovesSimulate ==
  ASSUME ContractInv, Moves, policy' = policy, Called' = Called
  PROVE  Contract!Next \/ UNCHANGED Contract!vars
<1>0. /\ RowsInv /\ CallsStarted /\ calls \in [Attempts -> Nat]
      /\ UNCHANGED (policy.retry = "unsafe")
  BY DEF ContractInv, ResultInv, Inv, TypeOK
<1>1. StartsKept => Started' = Started
  BY DEF StartsKept, Started
<1>2. ReleaseKept => UNCHANGED (run.release # "none")
  BY DEF ReleaseKept
<1>3. CASE Stays
  BY <1>0, <1>1, <1>2, <1>3 DEF Stays, Contract!vars
<1>4. CASE Submits
  BY <1>0, <1>1, <1>4 DEF Submits, Contract!Next, Contract!Submit
<1>5. CASE Releases
  BY <1>0, <1>1, <1>5 DEF Releases, Contract!Next, Contract!Release
<1>6. CASE Abandons
  <2>1. Started = {}
    BY <1>0, <1>6 DEF Abandons, RowsInv, StartedRun, Started
  <2> QED BY <1>0, <1>1, <1>2, <1>6, <2>1
          DEF Abandons, Waiting, Contract!Next, Contract!Abandon, Contract!Before
<1>7. ASSUME NEW n \in Attempts, Grants(n)
      PROVE  Contract!Next
  <2>1. Started' = Started \cup {n}
    BY <1>7 DEF Grants, Started
  <2>2. n \notin Started /\ (policy.retry = "unsafe" => Started = {})
    BY <1>0, <1>7, MayGrant DEF Grants
  <2>3. Contract!MayGrant(n)
    BY <1>7, <2>2 DEF Grants, Waiting, Contract!MayGrant, Contract!Before
  <2>4. Contract!Grant(n)
    BY <1>0, <1>2, <1>7, <2>1, <2>3 DEF Grants, Contract!Grant
  <2> QED BY <2>4 DEF Contract!Next
<1>8. CASE Concludes
  <2>1. Started # {}
    BY <1>8 DEF Concludes, ContractInv, RunningStarted, Started
  <2>2. (\E n \in Attempts : att[n].outcome.success) => Called # {}
    <3> SUFFICES ASSUME NEW n \in Attempts, att[n].outcome.success
                 PROVE  n \in Called
      OBVIOUS
    <3>1. calls[n] = 1
      BY DEF ContractInv, ResultInv, AnswerInv, SuccessWasCalled
    <3> QED BY <3>1 DEF Called
  <2> QED BY <1>0, <1>1, <1>2, <1>8, <2>1, <2>2 DEF Concludes, Contract!Next, Contract!Conclude
<1>9. CASE Resolves
  BY <1>0, <1>1, <1>2, <1>9 DEF Resolves, Contract!Next, Contract!Resolve
<1> QED BY <1>3, <1>4, <1>5, <1>6, <1>7, <1>8, <1>9 DEF Moves

(* A step that makes a call maps to a call that was granted before, or to a    *)
(* native effect: granted, made and recorded at once.                          *)
LEMMA CallSimulates ==
  ASSUME ContractInv, NEW w \in Processes, Step(w), calls' # calls
  PROVE  Contract!Next /\ RunningStarted'
<1> DEFINE n == cur[w]
<1>0. /\ Inv /\ RowsInv /\ run \in RunType /\ att \in [Attempts -> AttemptType]
      /\ calls \in [Attempts -> Nat] /\ (pc[w] # "idle" => n \in Attempts)
  BY DEF ContractInv, ResultInv, Inv, TypeOK, LedgerTypeOK
<1>1. /\ n \in Attempts /\ calls[n] = 0 /\ calls' = [calls EXCEPT ![n] = 1]
  BY <1>0, CallEffect
<1>2. n \notin Called /\ Called' = Called \cup {n}
  BY <1>0, <1>1 DEF Called
<1>3. CASE Dispatch(w)
  <2>1. UNCHANGED <<policy, run, att>> /\ pc[w] = "call"
    BY <1>3 DEF Dispatch, Nothing, ledger, At
  <2>2. att[n].started
    BY <1>0, <2>1 DEF Inv, ProcessHolds, AfterStart
  <2>3. n \in Started /\ Started' = Started
    BY <1>1, <2>1, <2>2 DEF Started
  <2>4. Contract!Call(n)
    BY <1>2, <2>1, <2>3 DEF Contract!Call
  <2>5. RunningStarted'
    BY <2>1 DEF ContractInv, RunningStarted
  <2> QED BY <1>1, <2>4, <2>5 DEF Contract!Next
<1>4. CASE RunNative(w)
  <2>1. ExecuteNative(w, n)
    BY <1>4 DEF RunNative
  <2>2. /\ att[n].state = "claimed" /\ run.release # "none" /\ run.state \in Waiting
        /\ policy' = policy
    BY <2>1 DEF ExecuteNative, NativeReady
  <2>3. /\ att'[n].started /\ \A k \in Attempts \ {n} : att'[k] = att[k]
        /\ run'.state = "succeeded" /\ run'.release = run.release
    <3>1. /\ att' = [att EXCEPT ![n].state = "succeeded",
                                ![n].started = TRUE,
                                ![n].outcome = Returned(TRUE, TRUE),
                                ![n].receipt = Receipt("succeeded", "succeeded", FALSE)]
          /\ run' = [run EXCEPT !.state = "succeeded", !.outcome = Returned(TRUE, TRUE)]
      BY <2>1 DEF ExecuteNative
    <3>2. att'[n].started /\ \A k \in Attempts \ {n} : att'[k] = att[k]
      BY <1>0, <1>1, <3>1 DEF AttemptType
    <3>3. run'.state = "succeeded" /\ run'.release = run.release
      BY <1>0, <3>1 DEF RunType
    <3> QED BY <3>2, <3>3
  <2>4. Started' = Started \cup {n}
    BY <1>1, <2>3 DEF Started
  <2>5. n \notin Started /\ (policy.retry = "unsafe" => Started = {})
    BY <1>0, <1>1, <2>2, MayGrant
  <2>6. Contract!MayGrant(n)
    BY <2>2, <2>5 DEF Waiting, Contract!MayGrant, Contract!Before
  <2>7. Contract!CallAtomically(n)
    BY <1>2, <2>2, <2>3, <2>4, <2>6 DEF Waiting, Contract!CallAtomically, Contract!Before
  <2>8. RunningStarted'
    BY <2>3 DEF RunningStarted
  <2> QED BY <1>1, <2>7, <2>8 DEF Contract!Next
<1> QED BY <1>3, <1>4, StepCalls

(* Every step of the engine is a step of the contract, or none. *)
LEMMA NextSimulates ==
  ASSUME ContractInv, [Next]_vars
  PROVE  (Contract!Next \/ UNCHANGED Contract!vars) /\ RunningStarted'
<1>0. /\ TypeOK /\ LedgerTypeOK /\ RowsInv /\ NeverExternal /\ calls \in [Attempts -> Nat]
  BY DEF ContractInv, ResultInv, Inv, TypeOK, OutcomeInv
<1>1. CASE calls' # calls
  <2>1. PICK w \in Processes : Step(w)
    BY <1>1, EnvironmentLeavesProcesses DEF vars
  <2> QED BY <1>1, <2>1, CallSimulates
<1>2. CASE calls' = calls
  <2>1. (EngineStep \/ UNCHANGED ledger) /\ (LedgerStep \/ UNCHANGED ledger)
    BY <1>0, StepsAreTransactions, StepsAreLedgerSteps DEF vars
  <2>2. Moves
    <3>1. CASE UNCHANGED ledger
      BY <3>1 DEF ledger, Moves, Stays, ReleaseKept, StartsKept
    <3>2. ASSUME NEW w \in Processes, NEW n \in Attempts, ProcessStep(w, n)
          PROVE  Execution(w, n)
      <4>1. calls[n] \in Nat /\ calls[n] + 1 # calls[n]
        BY <1>0
      <4>2. calls' # [calls EXCEPT ![n] = @ + 1]
        BY <1>0, <1>2, <4>1
      <4> QED BY <3>2, <4>2 DEF ProcessStep, Execution
    <3> QED BY <1>0, <2>1, <3>1, <3>2, HumanContract, OthersContract DEF EngineStep
  <2>3. policy' = policy
    BY <1>0, <2>1, TransactionAuthority DEF AuthorityMoves
  <2>4. Called' = Called
    BY <1>2 DEF Called
  <2>5. RunningStarted'
    BY <2>2, MovesKeepRunning DEF ContractInv
  <2> QED BY <2>2, <2>3, <2>4, <2>5, MovesSimulate
<1> QED BY <1>1, <1>2

(* The engine implements its contract: a client sees a run that is submitted,  *)
(* released and closed once, whose attempts call the provider at most once     *)
(* each and only as granted, whatever its processes, leases, crashes and       *)
(* recovery do.                                                                *)
THEOREM Implements == Spec => ImplementsContract
<1>1. Init => Contract!Init
  <2> SUFFICES ASSUME Init PROVE Contract!Init
    OBVIOUS
  <2>1. /\ run = NoRun /\ \A n \in Attempts : att[n] = NoAttempt /\ calls[n] = 0
    BY DEF Init, LedgerInit
  <2>2. Started = {} /\ Called = {}
    BY <2>1 DEF Started, Called, NoAttempt
  <2> QED BY <2>1, <2>2 DEF Contract!Init, NoRun
<1>2. Init => RunningStarted
  BY DEF Init, LedgerInit, NoRun, RunningStarted
<1>3. ResultInv /\ RunningStarted /\ [Next]_vars => RunningStarted' /\ [Contract!Next]_(Contract!vars)
  BY NextSimulates DEF ContractInv
<1> QED BY <1>1, <1>2, <1>3, ResultInvariance, PTL DEF Spec, ImplementsContract, Contract!Spec

(* The contract's own steps keep its grants in order. *)
LEMMA ContractGrants ==
  ASSUME Contract!GrantsFitTheState, [Contract!Next]_(Contract!vars)
  PROVE  Contract!GrantsFitTheState'
<1> USE DEF Contract!GrantsFitTheState, Contract!Before, Contract!MayGrant
<1>1. CASE UNCHANGED Contract!vars
  BY <1>1 DEF Contract!vars
<1>2. CASE Contract!Submit \/ Contract!Release
  BY <1>2 DEF Contract!Submit, Contract!Release
<1>3. CASE Contract!Abandon
  BY <1>3 DEF Contract!Abandon
<1>4. CASE Contract!Conclude \/ Contract!Resolve
  BY <1>4 DEF Contract!Conclude, Contract!Resolve
<1>5. ASSUME NEW n \in Attempts, Contract!Grant(n)
      PROVE  Contract!GrantsFitTheState'
  BY <1>5 DEF Contract!Grant
<1>6. ASSUME NEW n \in Attempts, Contract!Call(n)
      PROVE  Contract!GrantsFitTheState'
  BY <1>6 DEF Contract!Call
<1>7. ASSUME NEW n \in Attempts, Contract!CallAtomically(n)
      PROVE  Contract!GrantsFitTheState'
  BY <1>7 DEF Contract!CallAtomically
<1> QED BY <1>1, <1>2, <1>3, <1>4, <1>5, <1>6, <1>7 DEF Contract!Next

(* The states of a run and the calls that were granted agree, as the contract  *)
(* has it: nothing is granted before the release, to a waiting or a cancelled  *)
(* run, or twice to an unsafe operation.                                       *)
THEOREM GrantsFit == Spec => []Contract!GrantsFitTheState
<1>1. Contract!Init => Contract!GrantsFitTheState
  BY DEF Contract!Init, Contract!GrantsFitTheState, Contract!Before
<1>2. Contract!GrantsFitTheState /\ [Contract!Next]_(Contract!vars) => Contract!GrantsFitTheState'
  BY ContractGrants
<1> QED BY <1>1, <1>2, Implements, PTL DEF ImplementsContract, Contract!Spec

(* A client that polls a run never sees an end taken back: what has succeeded, *)
(* failed, been cancelled or expired stays so, and a success is a provider     *)
(* call that was made or an operator's reconciliation.                         *)
THEOREM EndIsFinal == Spec => Contract!ClosedForGood
<1>1. [Contract!Next]_(Contract!vars) => [Contract!TakesNothingBack]_(Contract!vars)
  <2> SUFFICES ASSUME Contract!Next PROVE Contract!TakesNothingBack
    OBVIOUS
  <2> USE DEF Contract!Closed, Contract!Before, Contract!MayGrant, Contract!TakesNothingBack
  <2>1. CASE Contract!Submit \/ Contract!Release
    BY <2>1 DEF Contract!Submit, Contract!Release
  <2>2. CASE Contract!Abandon
    BY <2>2 DEF Contract!Abandon
  <2>3. CASE Contract!Conclude \/ Contract!Resolve
    BY <2>3 DEF Contract!Conclude, Contract!Resolve
  <2>4. ASSUME NEW n \in Attempts, Contract!Grant(n)
        PROVE  Contract!TakesNothingBack
    BY <2>4 DEF Contract!Grant
  <2>5. ASSUME NEW n \in Attempts, Contract!Call(n)
        PROVE  Contract!TakesNothingBack
    BY <2>5 DEF Contract!Call
  <2>6. ASSUME NEW n \in Attempts, Contract!CallAtomically(n)
        PROVE  Contract!TakesNothingBack
    BY <2>6 DEF Contract!CallAtomically
  <2> QED BY <2>1, <2>2, <2>3, <2>4, <2>5, <2>6 DEF Contract!Next
<1> QED BY <1>1, Implements, PTL DEF ImplementsContract, Contract!Spec, Contract!ClosedForGood
=============================================================================
