-------------------------- MODULE AppRunProperties --------------------------
(***************************************************************************)
(* The correctness properties of the App Run engine, the fairness under    *)
(* which its work settles, and the refinement of AppRunContract.           *)
(***************************************************************************)
EXTENDS AppRunEngine

Called == {n \in Attempts : calls[n] > 0}
Started == {n \in Attempts : att[n].started}

(* The engine implements its contract: the rows, processes, leases, crashes  *)
(* and recovery of AppRunEngine never do what AppRunContract does not allow. *)
Contract == INSTANCE AppRunContract
  WITH state <- run.state, open <- run.release # "none",
       oneShot <- policy.retry = "unsafe", granted <- Started, called <- Called
ImplementsContract == Contract!Spec

-----------------------------------------------------------------------------
(* Safety. *)

(* Every provider call belongs to one started attempt and is made once, and a  *)
(* run whose operation is unsafe calls the provider at most once in all, with  *)
(* recovery, redelivered jobs and late workers (#markProviderCallStarted,      *)
(* #recoverUnknownInTransaction).                                              *)
CallsAreFenced ==
  /\ \A n \in Attempts : calls[n] <= 1 /\ (calls[n] = 1 => att[n].started)
  /\ policy.retry = "unsafe" => \A m, n \in Called : m = n

(* No provider call without its authority: the run was released, by a recorded *)
(* human approval when its policy asks for review, and an agent's budget slot  *)
(* was reserved (scheduleInTransaction, approveInTransaction).                 *)
CallsAreAuthorized ==
  Called # {} =>
    /\ run.release # "none"
    /\ policy.review => /\ approval.status = "approved"
                        /\ approval.receipt.decision = "approved"
    /\ policy.budgeted => run.budget

(* A run that was cancelled or rejected has made no provider call, and none of *)
(* its processes can still make one, whatever they had claimed before (cancel  *)
(* leaves the attempts as they are).                                           *)
CancelledNeverCalls ==
  run.state = "cancelled" =>
    /\ Called = {}
    /\ \A w \in Processes : pc[w] \notin {"call", "wait"}

(* A provider result that was persisted decides the run: no later attempt is   *)
(* created, the run does not become unknown, and it ends in the state that the *)
(* result names, whichever of worker, redelivery and maintenance finalizes it. *)
KnownResultDecides ==
  \A n \in Attempts : att[n].outcome # NoOutcome =>
    /\ \A m \in Attempts : m > n => att[m].state = "absent"
    /\ run.state \in {"running", "expired", KnownState(att[n].outcome)}
    /\ att[n].state \in {"provider_call_started", KnownState(att[n].outcome)}

(* Signed receipts tell the truth: an attempt has one exactly when it has      *)
(* ended, with its state; one that reports a retry has a next attempt; one     *)
(* that reports none names the state the run ended in, and a later change of   *)
(* that state is a receipted reconciliation.                                   *)
ReceiptsAreTrue ==
  \A n \in Attempts :
    /\ att[n].receipt.attempt = (IF att[n].state \in Ended THEN att[n].state ELSE "none")
    /\ att[n].receipt.retry => n + 1 \in Attempts /\ att[n + 1].state # "absent"
    /\ (att[n].state \in Ended /\ ~att[n].receipt.retry) =>
         \/ run.state = att[n].receipt.run
         \/ /\ att[n].receipt.run = "unknown_outcome"
            /\ run.state = recon

(* A run that offers a retained result has it, until retention purged it and   *)
(* said so (persist before finalize, purge between the two).                   *)
RetainedResultIsReadable ==
  run.outcome.result = "retained" /\ ~run.resultPurged =>
    \E n \in outputs : att[n].outcome = run.outcome

(* An attempt that has ended is never written again: a worker that comes back  *)
(* after its attempt was recovered, with a claim it believes to be its own,    *)
(* changes neither its outcome nor its receipt (the claim-token fences and the *)
(* attempt triggers).                                                          *)
EndedAttemptIsFrozen ==
  [][\A n \in Attempts : att[n].state \in Ended => att'[n] = att[n]]_vars

-----------------------------------------------------------------------------
(* Liveness. *)

(* Time passes, the recovery and retention passes run again and again, jobs    *)
(* are delivered, and a process that is neither crashed nor waiting for the    *)
(* network takes its next step; a provider call ends (by answer or timeout).   *)
Fairness ==
  /\ \A n \in Attempts : WF_vars(LeaseRunsDown(n))
  /\ WF_vars(RetentionEnds)
  /\ WF_vars(MaintenanceRecover)
  /\ WF_vars(MaintenancePurge)
  /\ \A w \in Processes :
       WF_vars(Recover(w) \/ ClaimAttempt(w) \/ ReadInput(w) \/ SettleMissingInput(w)
               \/ MarkStarted(w) \/ Dispatch(w) \/ NotDispatched(w) \/ ProviderReturns(w)
               \/ Indeterminate(w) \/ SettleLost(w) \/ Persist(w) \/ Finalize(w)
               \/ RunNative(w) \/ CompleteJob(w))
  /\ \A w \in JobWorkers : WF_vars(\E n \in Attempts : TakeJob(w, n))

FairSpec == Spec /\ Fairness

(* A started call of a running run does not stay in limbo: its worker settles  *)
(* it, or its lease ends and recovery does.                                    *)
StartedCallSettles ==
  \A n \in Attempts :
    (att[n].state = "provider_call_started" /\ run.state = "running")
      ~> att[n].state \in Ended

(* A claim that never reached the provider is given up, unless the run was     *)
(* cancelled under it: by recovery, or by recovery after retention.            *)
ClaimSettles ==
  \A n \in Attempts :
    att[n].state = "claimed" ~> (att[n].state # "claimed" \/ run.state = "cancelled")

(* No run waits for ever to be approved or executed: retention expires it.     *)
WaitingEnds == run.state \in Waiting ~> run.state \notin Waiting

-----------------------------------------------------------------------------
(* What the documentation says and the code does not do. *)

(* docs/decisions/2026-08-30-governed-app-runs-rollout.md: "Recovery of an      *)
(* expired lease with a started but unrecorded unsafe call becomes              *)
(* `unknown_outcome`" (recoverRun).                                            *)
LapsedUnsafeCallBecomesUnknown ==
  \A n \in Attempts :
    (/\ policy.retry = "unsafe"
     /\ Lapsed(n) /\ att[n].state = "provider_call_started"
     /\ att[n].outcome = NoOutcome)
      ~> run.state \in {"unknown_outcome", "succeeded", "failed"}
=============================================================================
