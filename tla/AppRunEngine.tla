---------------------------- MODULE AppRunEngine ----------------------------
(***************************************************************************)
(* The processes that drive one App Run: job workers that take the durable *)
(* attempt jobs, synchronous callers that prepare and run an attempt in    *)
(* the request, maintenance, and the humans who approve, cancel and        *)
(* reconcile. Between two transactions of a process anything may happen:   *)
(* the steps of other processes, a crash, the end of a lease, retention.   *)
(*                                                                         *)
(* pc follows #runInternal: recover, claim, read (the input), native or    *)
(* mark (the boundary), call, wait, persist, finalize; settle and lost are *)
(* its two exits for a missing input and an indeterminate call.            *)
(***************************************************************************)
EXTENDS AppRunLedger

CONSTANTS JobWorkers,  \* processes started by a queue job
          Callers      \* processes started by prepareAttempt + runImmediate

ASSUME ProcessAssumption == Processes = JobWorkers \cup Callers /\ JobWorkers \cap Callers = {}

VARIABLES
  pc,      \* where each process is in #runInternal
  cur,     \* the attempt it was started for (0: none)
  result,  \* the outcome of the provider call it holds in memory, until persisted
  calls    \* how often each attempt's call reached the provider

procs == <<pc, cur, result>>
vars == <<ledger, procs, calls>>

Steps == {"idle", "recover", "claim", "read", "settle", "native", "mark", "call", "wait",
          "lost", "persist", "finalize", "returned"}

TypeOK ==
  /\ LedgerTypeOK
  /\ pc \in [Processes -> Steps]
  /\ cur \in [Processes -> 0..AttemptLimit]
  /\ \A w \in Processes : pc[w] # "idle" => cur[w] \in Attempts
  /\ result \in [Processes -> OutcomeType]
  /\ calls \in [Attempts -> Nat]

Init ==
  /\ LedgerInit
  /\ pc = [w \in Processes |-> "idle"]
  /\ cur = [w \in Processes |-> 0]
  /\ result = [w \in Processes |-> NoOutcome]
  /\ calls = [n \in Attempts |-> 0]

Goto(w, step) == pc' = [pc EXCEPT ![w] = step] /\ UNCHANGED <<cur, result>>
At(w, step) == pc[w] = step
Nothing == UNCHANGED ledger

-----------------------------------------------------------------------------
(* Starting and ending. *)

\* A worker dequeues the job of attempt n. The job may already be with a worker
\* whose job lease ran out: delivery is at least once.
TakeJob(w, n) ==
  /\ w \in JobWorkers
  /\ At(w, "idle")
  /\ jobs[n] = "queued"
  /\ pc' = [pc EXCEPT ![w] = "recover"]
  /\ cur' = [cur EXCEPT ![w] = n]
  /\ UNCHANGED <<ledger, result, calls>>

\* A caller prepares an attempt and runs the one it is given, the active attempt
\* or a new one; given none, it reports the run as it is.
Prepared(n) ==
  /\ run.release # "none" /\ run.state \notin Closed /\ authority
  /\ policy.budgeted => run'.budget
  /\ att'[n].state \in Active
PrepareAttempt(w) ==
  /\ w \in Callers
  /\ At(w, "idle")
  /\ run.state # "absent"
  /\ Schedule(run)
  /\ \/ \E n \in Attempts : /\ Prepared(n)
                            /\ pc' = [pc EXCEPT ![w] = "recover"]
                            /\ cur' = [cur EXCEPT ![w] = n]
     \/ /\ ~inputLive \/ \A n \in Attempts : ~Prepared(n)
        /\ UNCHANGED <<pc, cur>>
  /\ UNCHANGED <<policy, approval, recon, input, outputs, clocks, authority, result, calls>>

\* A handler that returned still has to complete its job; a caller is done.
Leave(w) ==
  /\ pc' = [pc EXCEPT ![w] = "idle"]
  /\ cur' = [cur EXCEPT ![w] = 0]
  /\ result' = [result EXCEPT ![w] = NoOutcome]
Return(w) == IF w \in Callers THEN Leave(w) ELSE Goto(w, "returned")

CompleteJob(w) ==
  /\ At(w, "returned")
  /\ Leave(w)
  /\ jobs' = [jobs EXCEPT ![cur[w]] = "finished"]
  /\ UNCHANGED <<policy, run, att, approval, recon, input, outputs, clocks, authority, calls>>

\* The handler threw: its transaction is rolled back, and its job is queued
\* again until its queue retries are spent.
Throw(w) ==
  /\ Leave(w)
  /\ \/ UNCHANGED jobs
     \/ w \in JobWorkers /\ jobs' = [jobs EXCEPT ![cur[w]] = "finished"]
  /\ UNCHANGED <<policy, run, att, approval, recon, input, outputs, clocks, authority>>

\* The process dies anywhere; nothing uncommitted survives. Its job lease runs
\* out and the job is queued again, unless its queue retries are spent.
Crash(w) ==
  /\ ~At(w, "idle")
  /\ Throw(w)
  /\ UNCHANGED calls

-----------------------------------------------------------------------------
(* #runInternal. *)

\* Nothing to recover, or the end of the lease goes unnoticed.
Recover(w) ==
  /\ At(w, "recover")
  /\ \/ RecoverRun(cur[w]) /\ Goto(w, "claim")
     \/ Nothing /\ Goto(w, "claim")
     \/ RecoverFails(cur[w]) /\ Throw(w)
  /\ UNCHANGED calls

\* A worker executes mcp and native attempts; App runtimes pull their own.
Executable == policy.provider # "app_runtime"
ClaimAttempt(w) ==
  /\ At(w, "claim")
  /\ \/ /\ Executable
        /\ Claim(w, cur[w])
        /\ Goto(w, IF policy.provider = "native" THEN "native" ELSE "read")
     \/ Executable /\ ClaimExpiresRun /\ Return(w)
     \/ ~(Executable /\ ~ClaimRefused(cur[w])) /\ Nothing /\ Return(w)
     \/ Executable /\ ClaimFails /\ Throw(w)
  /\ UNCHANGED calls

\* The input is read outside any transaction.
ReadInput(w) ==
  /\ At(w, "read")
  /\ Goto(w, IF input THEN "mark" ELSE "settle")
  /\ Nothing /\ UNCHANGED calls

SettleMissingInput(w) ==
  /\ At(w, "settle")
  /\ \/ SettleBeforeCallFailure(cur[w]) /\ Return(w)
     \/ ~SettleBeforeCallCommits(cur[w]) /\ Throw(w)
  /\ UNCHANGED calls

MarkStarted(w) ==
  /\ At(w, "mark")
  /\ \/ MarkProviderCallStarted(w, cur[w]) /\ Goto(w, "call")
     \/ StartRefused(w, cur[w]) /\ Nothing /\ Return(w)
  /\ UNCHANGED calls

\* While the call is in flight a heartbeat renews the lease.
Heartbeat(w) ==
  /\ pc[w] \in {"call", "wait"}
  /\ RenewLease(w, cur[w])
  /\ UNCHANGED <<procs, calls>>

\* Fault: the executor repeats a call that is still unanswered.
DispatchAgain(w) ==
  /\ pc[w] \in {"call", "wait"}
  /\ Goto(w, "wait")
  /\ calls' = [calls EXCEPT ![cur[w]] = @ + 1]
  /\ Nothing
\* The call reaches the provider.
Dispatch(w) ==
  /\ At(w, "call")
  /\ Goto(w, "wait")
  /\ calls' = [calls EXCEPT ![cur[w]] = @ + 1]
  /\ Nothing

\* The executor reports that it made no call.
NotDispatched(w) ==
  /\ At(w, "call")
  /\ pc' = [pc EXCEPT ![w] = "persist"]
  /\ result' = [result EXCEPT ![w] = NotAttempted]
  /\ UNCHANGED <<ledger, cur, calls>>

\* The provider answered; #knownOutcome retains the output if it is within its
\* deadline and its size budget.
ProviderReturns(w) ==
  /\ At(w, "wait")
  /\ \E ok \in BOOLEAN, kept \in BOOLEAN :
       result' = [result EXCEPT ![w] = Returned(ok, kept)]
  /\ pc' = [pc EXCEPT ![w] = "persist"]
  /\ UNCHANGED <<ledger, cur, calls>>

\* The executor threw, or cannot tell what the provider did.
Indeterminate(w) ==
  /\ pc[w] \in {"call", "wait"}
  /\ Goto(w, "lost")
  /\ Nothing /\ UNCHANGED calls

SettleLost(w) ==
  /\ At(w, "lost")
  /\ \/ SettleIndeterminate(w, cur[w]) /\ Return(w)
     \/ ~Holds(w, cur[w]) /\ Nothing /\ Return(w)
     \/ Holds(w, cur[w]) /\ SkipsRetry(cur[w]) /\ ~LostCommits(cur[w]) /\ Throw(w)
  /\ UNCHANGED calls

Persist(w) ==
  /\ At(w, "persist")
  /\ \/ PersistKnownResult(w, cur[w], result[w])
     \/ ~(Holds(w, cur[w]) /\ att[cur[w]].outcome = NoOutcome) /\ Nothing
  /\ pc' = [pc EXCEPT ![w] = "finalize"]
  /\ result' = [result EXCEPT ![w] = NoOutcome]
  /\ UNCHANGED <<cur, calls>>

Finalize(w) ==
  LET n == cur[w]
      due == Holds(w, n) /\ att[n].outcome # NoOutcome
  IN  /\ At(w, "finalize")
      /\ \/ FinalizeKnownResult(w, n) /\ Return(w)
         \/ ~due /\ Nothing /\ Return(w)
         \/ due /\ ~FinalizeCommits(n) /\ Throw(w)
      /\ UNCHANGED calls

\* The native effect is part of the transaction: it happens iff it commits. A
\* failing effect or a late loss of authority rolls everything back.
RunNative(w) ==
  LET n == cur[w]
  IN  /\ At(w, "native")
      /\ \/ /\ ExecuteNative(w, n)
            /\ Return(w)
            /\ calls' = [calls EXCEPT ![n] = @ + 1]
         \/ NativeRefused(w, n) /\ Nothing /\ Return(w) /\ UNCHANGED calls
         \/ NativeReady(w, n) /\ Throw(w) /\ UNCHANGED calls

-----------------------------------------------------------------------------
(* Maintenance, humans and the environment. *)

MaintenanceRecover ==
  /\ \E n \in Attempts : RecoverRun(n)
  /\ UNCHANGED <<procs, calls>>
MaintenancePurge == Purge /\ UNCHANGED <<procs, calls>>

SubmitRun == Submit /\ UNCHANGED <<procs, calls>>
Approve == /\ \E a \in Approvers : ApproveFirst(a) \/ ApproveAgain(a) \/ ApproveTooLate(a)
           /\ UNCHANGED <<procs, calls>>
RejectRun == (\E a \in Approvers : Reject(a)) /\ UNCHANGED <<procs, calls>>
CancelRun == Cancel /\ UNCHANGED <<procs, calls>>
Reconcile == /\ \E s \in {"succeeded", "failed"} : ReconcileUnknown(s)
             /\ UNCHANGED <<procs, calls>>
LeaseRunsDown(n) == LeaseTick(n) /\ UNCHANGED <<procs, calls>>
RetentionEnds == (InputExpires \/ ResultExpires) /\ UNCHANGED <<procs, calls>>
AuthorityRevoked == run.state # "absent" /\ Revoke /\ UNCHANGED <<procs, calls>>

Step(w) ==
  \/ \E n \in Attempts : TakeJob(w, n)
  \/ PrepareAttempt(w)
  \/ Recover(w) \/ ClaimAttempt(w) \/ ReadInput(w) \/ SettleMissingInput(w)
  \/ MarkStarted(w) \/ Heartbeat(w) \/ Dispatch(w) \/ NotDispatched(w)
  \/ ProviderReturns(w) \/ Indeterminate(w) \/ SettleLost(w)
  \/ Persist(w) \/ Finalize(w) \/ RunNative(w)
  \/ CompleteJob(w) \/ Crash(w)

Next ==
  \/ \E w \in Processes : Step(w)
  \/ MaintenanceRecover \/ MaintenancePurge
  \/ SubmitRun \/ Approve \/ RejectRun \/ CancelRun \/ Reconcile
  \/ (\E n \in Attempts : LeaseRunsDown(n)) \/ RetentionEnds \/ AuthorityRevoked

Spec == Init /\ [][Next]_vars
=============================================================================
