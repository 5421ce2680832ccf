# A TLA+ verification of Deft's governed App Runs, automations, agent actions and job queue

Deft lets apps, agents and people ask for operations of external providers. Every
such operation is an *App Run*: a durable row with a policy, perhaps an approval,
a bounded number of attempts, signed receipts and a retention deadline. The work
is delivered by a job queue in PostgreSQL. What makes the system correct is not
any single function but what stays true while workers crash, leases run out, jobs
are delivered twice, humans approve and cancel, and retention deletes payloads.
That is what these modules model, check with TLC and, liveness apart,
prove with TLAPS.

Paths below are relative to the repository root; `lib/` is `apps/api/src/lib/`.

## Inventory

| Component | State | Operations | Hard behaviour | Correct when |
|---|---|---|---|---|
| Attempt engine (`lib/app-run-attempt-runner.ts`, `-provider-executor`, `-worker-handler`, `-scheduler`, `-capability-bridge`) | attempt rows, claim token, lease, result in memory | schedule, claim, mark started, call, heartbeat, persist, finalize, native execution, recover | crash at every step, redelivery, a late worker with a lost lease, a stale clock reading | a call belongs to one started attempt and is made once; unsafe operations are called once in all |
| Ledger (`lib/app-run-repository.ts`, `packages/shared/src/app-runs.ts`, triggers of the `0.3.0-preview.18` upgrade, `packages/db/src/schema.ts`) | run row, state graph, attempt uniqueness | transition, create attempt, end attempt | a transaction the triggers refuse | ended attempts are frozen, one active attempt |
| Intake (`lib/app-run-service.ts`, `lib/app-run-keyrings.ts`, `lib/agent-tool-policy.ts`) | idempotency fingerprints, lineage, daily counter, keyrings | submit, submitChild, rotate keys | races of equal submissions, a clock read before the lock, a rotation in progress | one remembered run per key; children narrow; a family pays once |
| Cancel, reconcile (`lib/app-run-service.ts`) | run | cancel, reconcileUnknown | cancel under a claim | a cancelled run never calls |
| Approval (`lib/app-run-approval-adapter.ts`) | agent action row, release column, receipt | approve, reject | approve, reject, cancel and retention race; replays | action row, run and receipt agree |
| Receipts (`lib/app-run-receipts.ts`) | receipts by key | write once | a second, different write | a receipt tells what happened |
| Secrets and retention (`lib/app-run-secret-repository.ts`) | input, outputs, deadlines | store, read, purge | purge between persist and finalize | an offered result is there |
| Live authorization (`lib/app-run-live-authorization.ts`) | principals, policies, daily budgets | check, reserve | revocation between claim and call | calls are authorized |
| Maintenance (`lib/app-run-maintenance.ts`) | cursor | recover, purge in batches | competes with the workers | started work settles |
| Job queue (`lib/queues.ts`) | `job_queue` rows | enqueue, re-arm, dequeue, renew, complete, fail, defer, clean up, prune | lease loss, two writers of one row | ownership, exact attempt counts |
| Job workers (`apps/api/src/workers/index.ts`) | slots, timers | poll, process, settle, recur, shut down | timeout against a late handler, crash before the recurrence | jobs settle, crons recur |
| Runtime channel (`lib/app-runtime-*.ts`, the pull entrance of the attempt runner) | sessions, epochs, sequence numbers, result digests | issue, revoke, claim, start, deliver, heartbeat, complete | lost replies, overlapping sessions, contradicting results | one claim holds the input; an acknowledged result stands |
| Automations (`lib/app-automation-*.ts`) | definitions, fires with claim and lease, deliveries | pause, resume, revoke, scan, reconcile, dispatch | two dispatchers of one fire, a reply lost after the commit, a lapsed claim | each occurrence runs at most once and ends |
| Resource sync (`lib/app-resource-sync-*.ts`) | cursors | pull, page, commit | results of an older cursor | the cursor never skips |
| Public cancellations, future record actions | linked runs | settle, undo | two rows that must end together | both ends agree |
| Agent actions (`lib/agent-approval-resolver.ts`, `lib/agent-actions.ts`, `lib/mcp-tools/modules.ts`) and module records (`lib/module-service.ts`) | action rows, mutation receipts, signed receipts | propose, approve, reject, execute, retry, recover, expire | a reviewer, the agent's retry and an administrator on one row under different locks; crash between write and stamp | rows and receipts tell what was written; one decision is signed |
| Plans, agent channel; outboxes and reminders | claim columns of their own | claim, send, finish | crash between send and mark | at most one send per claim |
| Tasks, attention, sessions, rate limits, sockets, routes, web, packages | | | little coordination | see `components` in PROJECT.json |

How they interact: intake and approval *schedule* an attempt and enqueue its job in
the same transaction; a job worker (or a synchronous caller in the request) runs
the attempt engine; the engine commits short transactions, each of which first
locks the run row, and calls the provider between two of them; maintenance and
retention work on the same rows whenever they like. `PROJECT.json` lists the
hazards of this code, each at its line with the properties that would show it.

## Modules

| Module | Models |
|---|---|
| `AppRunLedger` | the rows of one run and each transaction on them, with the conditions under which the database triggers refuse it |
| `AppRunEngine` | the processes that run the transactions: job workers, synchronous callers, maintenance, humans, time |
| `AppRunContract` | what the engine promises, without leases, jobs, processes or recovery |
| `AppRunProperties` | properties, fairness, the refinement mapping to the contract |
| `MCAppRun` | small instances |
| `AppRunLedgerProofs` | what every transaction on the rows preserves, whoever runs it: the lemmas shared by the next two and by `AppRuntimeProofs` |
| `AppRunProofs` | theorems about the engine's processes, calls and approvals |
| `AppRunOutcomeProofs` | theorems about authorization, results, receipts and payloads, and the refinement of `AppRunContract` |
| `AppRuntimeChannel` | the same rows pulled by an App runtime over sessions: claim, start and delivery, heartbeat, completion, revocation |
| `AppRuntimeProperties` | its properties, and its refinement of `AppRunContract` |
| `AppRuntimeProofs` | theorems about the channel, that refinement included |
| `AppRunIntake`, `AppRunIntakeProofs` | admission of runs by several API processes, keyrings, lineage and the daily budget, with their properties; theorems |
| `AppAutomation`, `AppAutomationProofs` | automation definitions, their fires, the scanner and the dispatchers, with their properties; theorems |
| `AgentAction`, `AgentActionProofs` | an agent's module writes under one idempotency key: proposal, review, execution by reviewer or agent, recovery, expiry, receipts, with their properties; theorems |
| `MCRuntime`, `MCIntake`, `MCLineage`, `MCAutomation`, `MCAgentAction` | small instances |
| `JobQueue` | the `job_queue` table and the worker slots, with their properties |
| `MCJobQueue` | small instances |
| `JobQueueProofs` | theorems about the queue |

### State and actions of the App Run model

`run`, `att`, `approval`, `recon` are the rows `app_runs`, `app_run_attempts`, the
agent action with its approval receipt, and the reconciliation receipt. `input`
and `outputs` say which payloads exist, `jobs` which attempt jobs the queue
holds, `authority` whether the principal may still execute. `pc`, `cur` and
`result` are a process's place in `#runInternal`, its attempt and the result it
holds in memory. `calls` counts the calls that reached the provider and is read
by no action.

One action is one transaction, or one step outside any transaction:

| Action | Code |
|---|---|
| `Submit`, `Cancel`, `ReconcileUnknown` | `AppRunService.submit`, `cancel`, `reconcileUnknown` |
| `ApproveFirst`, `ApproveAgain`, `ApproveTooLate`, `Reject` | `approveInTransaction`, `reject` |
| `Schedule` (inside submit, approve, prepare) | `scheduleInTransaction` |
| `TakeJob`, `PrepareAttempt`, `CompleteJob`, `Throw`, `Crash` | the worker handler, `prepareAttempt` with `runImmediate`, the end of a process |
| `Recover`, `MaintenanceRecover` | `recoverRun`, `#recoverUnknownInTransaction` |
| `ClaimAttempt` | `#claim`, with its run-expiring and refusing branches |
| `ReadInput`, `SettleMissingInput` | reading the secret input, `#settleBeforeCallFailure` |
| `MarkStarted`, `Dispatch`, `NotDispatched`, `ProviderReturns`, `Indeterminate` | `#markProviderCallStarted`, the provider executor |
| `Heartbeat` | `renewLease` |
| `Persist`, `Finalize`, `SettleLost` | `#persistKnownResult`, `#finalizeKnownResult`, the indeterminate exit |
| `RunNative` | native execution, whose effect is part of its transaction |
| `MaintenancePurge`, `RetentionEnds`, `LeaseRunsDown`, `AuthorityRevoked` | retention, time, revocation |

Abstractions. One run: transactions of different runs touch disjoint rows, apart
from intake limits, lineage and budgets, which are not modelled here (a budget
slot is granted or not, nondeterministically). A lease is a countdown; retention
deadlines pass once. Several functions sample `now` *before* they wait for the
run lock, so a deadline that has passed may still look live to them, while one
that has not never looks passed; a refusing branch therefore requires the
deadline to have passed, an accepting one does not require the opposite. (The first
approval samples it under the lock, and requires it.) The job
queue seen from the engine is at-least-once delivery; `JobQueue` models it in
detail. Signing, hashing, encryption and authorization checks are taken to
answer correctly. Event rows are not modelled.

### The runtime channel

An App runtime is a program outside the host. `sess` is its sessions, `known` the
claim envelopes that reached it, `marked` the start requests between their two
transactions (the committed marker, then the release of the input), `given` the
releases, `done` the effects it performed, `sent` and `acked` the results it sent
and saw accepted, `hmac` the digest on record. A request may be handled at any time
and again, once the runtime knows what it contains; every reply may be lost. The
transactions on the run are those of `AppRunLedger`: `Claim`,
`MarkProviderCallStarted`, `RenewLease`, `RecoverUnknown`, and so on, strengthened by
what `lib/app-run-attempt-runner.ts` asks of a runtime (`LiveAuthority`, `Owns`,
`Retained`, `Deliverable`). The ledger treats provider `app_runtime` apart: a run of
it has a queue job that only recovers, and a lost call of it is never retried.

### Intake

`runs` is the table in the order of insertion, `req` the submission each API process
is working on, `doc` the keyring document it was started with, `used` the agent's
daily counter. `Submit` reads the clock and checks the referenced keys before the
transaction; `AcquireSubmissionLock`, `FindReplay` and `InsertRun` are the
transaction, `Abort` everything that rolls it back. A fingerprint is a pair of key
version and value: a process can compare those of the versions it holds. `Schedule`,
`Start` and `Close` stand for the rest of a run's life, as far as lineage and budget
read it; `AppRunLedger` has the detail. `Restart` is the operator's rotation.

### Automations

`definition`, `fire` and `job` are rows, `pc`, `cur`, `clock`, `seen` the place and the
local variables of a dispatcher in `dispatchAppAutomationFire`. `EnsureFire` and
`Reconcile` are the scanner's two transactions, `Deliver` to `SettleFailure` the
dispatcher's statements in order, `Crash` the end of its process between any two.
What a definition pins is one flag that is lost for good; every `AppError` of `prepare`
that is not about the provider (a stale pin, an unhealthy dependency, an input that no
longer resolves) counts as its loss. `mine` and `runs` are
history; of `runs` only the daily count is read, by the lineage trigger.

### Agent actions

`rows` is the `agent_actions` of one employee, operation and idempotency key, `written`
the mutation receipt of the key with the action it names, `receipts` the signed
`action_receipts`. `Approve` to `ApprovalReceipt` are the statements of
`approveActionLocked` in order, under the session lock of the row; `Queue`, `Direct`,
`Record` those of the agent's call, under the lock of the key; `Check` and `Mutate` are
common to both. `CloseModule` is the administrator who disables the installation or
takes the agents' write access, with the reconciliation of unexecuted rows; `Lapse`,
`Reject` and `Expire` are the other endings. A receipt that follows an ending is a step
of its own (`Repair`), which every repeated request takes again. A row that the agent's
trust approves keeps digests instead of its input, so that a reviewer cannot resume it
(`Parses`). The preflight of an approval may fail for any reason, and expires the row
(`CheckPolicy`). The unique index on mutation receipts is part of `Mutate`: that a key
is not written twice is taken from it, not shown.

### The job queue

A row is a key's `status`, `attempts`, claim `token` and `lease`. A slot is one
unit of a host's capacity and follows `processDequeuedJob`: work, settle
(`CompleteJob`, `FailJob`, `DeferJob`), `Recur`, and `Release` only when the
handler itself has ended (`alive`), for a handler that timed out goes on in the
background. The claim token of the code is a fresh UUID; here it is the slot,
which is as good: a row that a dead claim of the slot still marks is running,
hence cannot be claimed again before cleanup has cleared it. `starts`, `defers`,
`returned` and `lapsed` are history, read by no guard except the bound
`MaxDefers`. The code lets a handler defer its job for ever; `JobSettles` is about jobs
that are deferred at most `MaxDefers` times. `run_at`, priorities, queue names and observation rows are left out.

## Model checking

`tlc -workers 2 -config <cfg> <module>` in this directory.

| Run | Instance | Distinct states | Shows |
|---|---|---|---|
| `engine` (`MCAppRun.cfg`) | a job worker, a caller, an approver, 2 attempts, lease 1, three policies | 2.10 million | `TypeOK`, eight safety invariants, `EndedAttemptIsFrozen`, `ImplementsContract` |
| `liveness` (`liveness.cfg`) | one job worker, 2 attempts, lease 2, three policies | 213 thousand | `StartedCallSettles`, `ClaimSettles`, `WaitingEnds` |
| `lapsed` (`lapsed.cfg`) | as `engine`, one policy | | disagreement 1 |
| `runtime` (`MCRuntime.cfg`) | two sessions, one approver, 2 attempts, lease 2, 2 different results per attempt | 502 thousand | `InputGoesToOneClaim`, `AcknowledgedResultStands`, `EffectIsNotDenied`, `EndedSessionIsCutOff`, `ImplementsContract`, `StartedAttemptEnds` |
| `intake` (`MCIntake.cfg`) | two processes, one key, two contents, 2 runs, 3 ticks, a rotation in four documents | 594 thousand | `TypeOK`, `OneRunPerKey`, `RepliesAreTrue`, no deadlock |
| `rotation` (`rotation.cfg`) | the same, with the documented two documents | | disagreement 2 |
| `lineage` (`MCLineage.cfg`) | one process, three operations, 3 runs, depth 2, a budget of 2 on two days | 3.05 million | `LineageNarrows`, `FamiliesPayOnce`, no deadlock |
| `automation` (`MCAutomation.cfg`) | one definition, one day, two dispatchers, 2 claims, 3 epochs | 774 thousand | `TypeOK`, `RunAndFireAgree`, `LastClaimRuns`, `NoCatchUpAcrossPause`, `SpentFireIsDead`, `LiveClaimIsKept`, `FireEnds` |
| `lateClaim` (`lateClaim.cfg`) | the same | | disagreement 3 |
| `approval` (`MCAgentAction.cfg`) | two reviewers, two calls of the agent, 2 rows | 522 thousand | `RowsTellTheTruth`, `OneDecisionIsSigned`, no deadlock |
| `expiredWrite` (`expiredWrite.cfg`) | the same | | disagreement 4 |
| `queue` (`MCJobQueue.cfg`) | two slots, a job and a cron key, 2 attempts, 1 deferral, lease 1 | 271 thousand | `TypeOK`, `AttemptsAreCounted`, `CompletedMeansReturned`, `LiveOwnerKeepsJob`, `JobSettles`, `CronKeepsRunning`, no deadlock |

The configurations of one run, and of the automations, do not check deadlock: a run
that has been settled and purged, or a fire that has ended, has nothing left to do.

Why the bounds are enough for the cases that matter. Two attempts (the code allows
three) give a first attempt, a retry, and the behaviour at the limit. Two processes
give a successor for every late worker; `TakeJob` redelivers a job that another
process still executes. A lease of one tick distinguishes live and lapsed; the
liveness run has two, so that a renewal makes a difference. The policies cover
safe, unsafe and key-idempotent operations, review and none, a budget and none, both
together (the approval takes the slot, or expires the run when there is none),
external and native providers. One approver meets himself: approval can be
replayed, and can race reject and cancel. In the queue, two slots give a late
predecessor and a successor of one row, two keys the two ways a row is born again
(re-arming and recurrence). Two sessions give a runtime its
restart and its overlap, two results a contradiction. In the intake, three ticks are
one more than a key is remembered, so that a key expires while a transaction still
works with its old clock reading; the operations of the lineage run give a child
every way of being refused but the depth limit, which three runs cannot exceed. In
the automation run the clock passes the catch-up window, the end of validity and
every lease; two dispatchers work on the same delivery or on successive ones. Two
reviewers and two calls give every executor of an action a rival and a successor, two
rows the key a new proposal after one has ended.
The proofs below remove the bounds for what they cover.

Every property is shown to be breakable: the definitions marked "Fault:" are
plausible mistakes in the code (a dropped guard, a missing case), and with the
mistake in place TLC finds the property violated. `PROJECT.json` lists the pairs.

### Fairness

The engine's liveness assumes: time passes (leases, retention); the recovery and
purge passes, which a cron job starts again and again, run again and again; a
process that has not crashed takes its next step, which includes the end of a
provider call: a worker's call races the abort signal of its job, which the job's
timeout fires (`capability-providers/mcp.ts`, `executePinned`; the liveness run
therefore has job workers only); a worker that is idle takes a queued job. Nothing is
assumed of crashes, heartbeats, humans or revocation: workers may crash for ever.

The runtime's and the automations' liveness assume only time and the recurring
recovery, retention and scanning passes: a runtime or a dispatcher may stop at any
step. The scan's fairness is that it reaches every unsettled fire again and again
(`lib/app-automation-scanner.ts` pages through them with a cursor); where it would
re-arm a delivery that has failed, the step is refused (see below), and the fire waits
for the end of its definition's validity.

The queue's liveness assumes: a slot goes on unless it crashes; handlers end at
last (the code cannot end one that ignores its abort signal); time and
maintenance go on; and no pending job is passed over for ever while slots come
free (strong fairness of taking it, as slots come and go). Priorities do not
guarantee the last: an endless supply of urgent jobs can starve the others.

## Proofs

`tlapm <module>.tla` for each of `AppRunLedgerProofs`, `AppRunProofs`,
`AppRunOutcomeProofs`, `AppRuntimeProofs`, `AppRunIntakeProofs`, `AppAutomationProofs`,
`AgentActionProofs` and `JobQueueProofs`. The theorems hold for every value of the
constants that satisfies the assumptions named in the modules; TLC evaluates these on
every run. They say that limits and durations are natural numbers (positive where zero
would mean no attempt, no lease, no row, no day or no epoch), that the parameters have
their types and that `Nobody` is no process, approver, dispatcher or slot; besides:
workers and callers, and reviewers and agents, are disjoint; cron keys are keys; a
session of the channel is a process of the ledger and a policy of the channel is for an
App runtime; a keyring document can read its own current key, and a key is remembered at
least as long as the input; a definition's validity and a last lease end within the modelled time. The
sets of processes, sessions, slots, keys, dispatchers and reviewers may be infinite.

Every inductive invariant below was first checked as an invariant of a run; none of the
safety invariants of the runs is inductive by itself.

| Property | Theorem | Inductive invariant |
|---|---|---|
| `TypeOK`, `OneActiveAttempt`, `ApprovalAgrees`, `CallsAreFenced`, `CancelledNeverCalls`, `EndedAttemptIsFrozen` | `AppRunProofs`: `TypeCorrect`, `OneActive`, `ApprovalConsistent`, `Fenced`, `CancelledIsQuiet`, `Frozen` | `Inv` |
| `CallsAreAuthorized`, `KnownResultDecides`, `ReceiptsAreTrue`, `RetainedResultIsReadable` | `AppRunOutcomeProofs`: `Authorized`, `KnownDecides`, `TrueReceipts`, `ReadableResult` | `ResultInv` |
| `ImplementsContract` (engine) | `AppRunOutcomeProofs`: `Implements` | `ContractInv` |
| `InputGoesToOneClaim`, `AcknowledgedResultStands`, `EffectIsNotDenied`, `EndedSessionIsCutOff`, `ImplementsContract` (channel) | `AppRuntimeProofs`: `OneClaim`, `AcknowledgedStands`, `EffectStands`, `CutOff`, `ChannelImplements` | `ChannelInv` |
| `TypeOK`, `RepliesAreTrue`, `FamiliesPayOnce` | `AppRunIntakeProofs`: `TypeCorrect`, `TrueReplies`, `PaidOnce` | `IntakeInv` |
| `LineageNarrows` | `AppRunIntakeProofs`: `LineageIsNarrow` (`Narrows` is its first half) | `IntakeInv /\ LineageInv` |
| `OneRunPerKey`, if `SafeRotation` | `AppRunIntakeProofs`: `OneRun` | `IntakeInv /\ KeyInv` |
| `TypeOK`, `RunAndFireAgree`, `LastClaimRuns`, `NoCatchUpAcrossPause`, `SpentFireIsDead`, `LiveClaimIsKept` | `AppAutomationProofs`: `TypeCorrect`, `OneRunPerFire`, `LastClaim`, `NoCatchUp`, `SpentIsDead`, `LiveClaim` | `AutoInv` |
| `RowsTellTheTruth`, `OneDecisionIsSigned` | `AgentActionProofs`: `Truthful`, `OneDecision` | `ActionInv` |
| `TypeOK`, `AttemptsAreCounted`, `LiveOwnerKeepsJob`, `CompletedMeansReturned` | `JobQueueProofs`: `QueueTypeCorrect`, `AttemptsCounted`, `OwnerKeeps`, `CompletionIsReal` | `Inv` |

Beyond the runs' properties these are proved, each from the invariant of its component:

- `GrantsFit`, `EndIsFinal` (engine), `ChannelGrantsFit`, `ChannelEndIsFinal` (channel):
  what a client may conclude from `AppRunContract` (`GrantsFitTheState`, `ClosedForGood`).
  Both are proved of the contract alone and reach the two detailed models through
  their refinements: a closed run is not opened again, a grant or a call is not taken
  back, success follows a call or an operator's word;
- `OriginIsFixed`, `SlotIsTakenOnce`: intake never removes a run or rewrites what replay
  and budget rest on; a reservation is taken once, by a root without children, for one
  action of the current day;
- `DecisionIsFinal`, `EndedUnreleasedIsSilent`: an ended decision on an agent's action is
  not changed; an action that was rejected, or expired when no executor was on its way
  with it, never writes. The second is the exact extent of disagreement 4 below;
- `FireIsFinal`: ended fires do not change, attempts are counted by claims alone, and
  only the claim in force turns a fire into a run;
- `OneLiveWorker`, `JobIsKept`: two unlapsed deliveries of one job are one, and what
  each step may do to a row, by the state it finds it in.

**The rows.** `AppRunLedgerProofs` speaks of the transactions alone (`LedgerStep`) and
proves `RowsInv`, which both the engine and the runtime channel rest on:

- `AbsentRun`, `UnreleasedRun`: an absent run has no approval and no attempts, and a
  run that was never released cannot have left its waiting states but by
  cancellation or expiry;
- `AttemptOrder`: an attempt passes through its states in order, so that it has no
  token before its claim and is not started before its boundary;
- `StartedRun`: a run with a started attempt is neither waiting nor cancelled,
  which is what keeps `Cancel` from meeting a call;
- `OneShotStartsOnce`: once a run that is unsafe, or that an App runtime executes, has a
  started attempt, no other attempt is started or active, and when that attempt has
  ended the run is closed: recovery creates the next attempt only for one that was
  claimed and not started;
- `OneActiveAttempt`.

It also proves what each transaction does to tokens, starts, ended attempts, outcomes,
authority and the run's state, and (`Moves`) what a client can see of it.

**The engine.** `StepsAreTransactions` shows that every step of a process is one
transaction on the rows or leaves them alone. `Inv` adds `ProcessHolds` (from its claim
on, a process's attempt carries its token; behind the boundary the attempt is started;
before it dispatches nobody has called) and `CallsStarted` (an attempt is called at most
once, and only if it was started).

`ResultInv` adds what a run says of itself. `AttemptsInOrder` and `OutcomeDecides`: only
the last attempt has not ended, and a persisted outcome is on the last attempt, which
has not ended, or has ended with the run as the outcome says; without it a retry could
follow a known result. `FinalReceipts`: a receipt without a retry names a closed state,
from which the run moves by reconciliation only. `ResultKept`: a retained outcome has
its payload or the purge is on record, also between persisting and finalizing.
`AuthorityInv`: a start was released, approved where review is due, and paid for, which
stays true when the authority is lost. `AnswerInv`: a process that has not persisted
finds no outcome, and a success is the answer to a call that was made.

The refinement maps `granted` to the started attempts and `called` to the attempts that
were called. `Moves` names the steps in the engine's own terms; `MovesSimulate` and
`CallSimulates` map each to a step of `AppRunContract` or to none. `ContractInv` adds
that a running run has a started attempt, so that what concludes it concludes a grant.

**The runtime channel.** Every step is a transaction of the ledger or the report that
ends an attempt (`ChannelSteps`). `ChannelInv` adds to the rows: outcomes are written
with the end of their attempt (`OutcomesAreFinal`, unlike on the workers' path);
released inputs and start requests in progress belong to the claim of their session and
to a started attempt (`InputsAreHeld`), so that one-shot starts give one claim; a result
on record was sent, ended its attempt and closed the run, which then moves by
reconciliation only (`ResultsAreRecorded`); the runtime's reports are true of its effect
(`ReportsAreHonest`, an assumption of the model about the runtime, made in `Report`);
and a run whose input was released runs, or ended by the attempt that got it or by an
operator (`ReleasedInputIsAnswered`). The last rests on `RunningGoesOn`: without a
report a running run goes on or ends with an unknown outcome, for recovery meets a
started attempt only, and never retries it. `CutOff` needs the types alone.

**Intake.** `IntakeInv`: requests and runs refer to runs that exist, a root is its own
root, and a child of an agent's run was admitted by a family that has paid, so that only
a root takes a slot. `LineageInv` is about chains of any length: the ancestors of a run
are the least set of runs that holds it and is closed under parents (`AncestorsOf`), so
that no induction over the depth is needed. A new child's chain is its parent's and
itself (`ChainOfChild`), every other chain is as it was (`ChainKept`), and the operation
that the child adds is not on the path by the check of `LineageAllows`. `KeyInv` is about processes with different keyrings: documents in
use are neighbours; what a process must still remember it can read; a lock has one
holder; and who found no run under its lock is right until it lets go. It is inductive
under `SafeRotation`, a condition on the rollout: neighbouring documents can read each
other's current key. The documents of the `intake` run satisfy it; the documented
rollout of the `rotation` run does not, and there the property fails.

**Automations.** `AutoInv`: a dispatcher on its way to a run knows the number of its
claim while the fire is under its token (`MineIsLast`); a run and the record of it in
its fire go together (`RunsRecorded`, `RecordedRuns`, `OneRun`); a fire is not ahead of
its definition's epoch, and one of the present epoch is due after the change that began
it (`EpochOrder`), which is why nothing is caught up across a pause.

**Agent actions.** `ActionInv`: what each process may rely on between its steps (`Place`:
an executor's row is approved, or was until it expired; what it calls done was
written), the row that wrote was released before, and only ended rows are signed. With
the ended rows frozen, two receipts of one row cannot disagree.

**Job queue.** The invariant adds that a running row has used an attempt, so that what
`deferJob` gives back was spent (the code's `GREATEST(attempts - 1, 0)` never bites), and
that a completed row's last handler returned. The argument for ownership: a claim
takes pending rows only; a settlement needs its own token; producers, cron repair
and pruning touch rows that are not running; cleanup touches expired leases; and
the tick that ends a lease marks its holder lapsed.

**Only model-checked.** Liveness under fairness is out of this prover's reach:
`StartedCallSettles`, `ClaimSettles`, `WaitingEnds`, `StartedAttemptEnds`, `FireEnds`,
`JobSettles`, `CronKeepsRunning`. Every safety property of a passing run is proved. That the
model is the code rests on reading: `map` in `PROJECT.json` names the lines of each
definition.

## Where the code and its documents disagree

The document of 1 and 2 is `docs/decisions/2026-08-30-governed-app-runs-rollout.md`.

1. Lines 117-118, "Recovery of an expired lease with a started but unrecorded
   unsafe call becomes `unknown_outcome`": if retention expired the run between
   claim and call, the call starts nevertheless and recovery has no legal
   transition left (`lapsed`). The contract allows for it: `Grant` may follow expiry.
2. Line 126, "Same replay key and same canonical input returns the original Run", under
   the rotation of `docs/app-run-operations.md` ("Rotate without losing reads", line 65),
   which adds a key and makes it current in one document: a process that still has
   the old document passes its check of referenced keys, then a process with the new
   one commits a run under the new key, and the old one cannot recognise it: a second
   run for the same key (`rotation`). When the key is rolled out for reading first and made current
   by a later document, the property holds (`intake`).
3. `lib/app-automation-repository.ts`, line 419, "Terminalizes one caller-verified
   ineligible fire", and lines 376-378, an expired claim with attempts left returns to
   pending: a claim whose lease lapses before it is used is answered like a stale
   definition, and the fire is skipped as `definition_ineligible`; so is a fire whose
   second delivery lost the race for it, once the winner has released it (`lateClaim`).
4. `lib/module-service.ts`, lines 1303-1307, under the installation's lock an approved
   and unexecuted action "is therefore unambiguous: either its transaction committed a
   durable mutation receipt, or it did not": it may not have committed yet. The executor
   that claimed it is refused while the module is closed, but its transaction asks for
   the module and the employee and not for the row: when the module is opened again it
   writes under an action that is expired, and signed as expired (`expiredWrite`). A
   reviewer who approves an action while the agent executes it has the same effect,
   when the employee's policy, the scrubbed params or a failed preflight make the approval
   expire it.

Smaller observations, modelled as the code has them:

- The document of 1, lines 109-110, "Unsafe or unknown effects get at most one attempt":
  an unsafe attempt whose claim expires before the call is followed by another one. The
  provider is called at most once (`CallsAreFenced`).
- The same, line 257, "Concurrent or replayed resolutions converge on the Run": a
  replayed approval of a run that has left its state rewrites the receipt with the new
  state, conflicts with the one on record and aborts.
- An approval writes its outcome on an action that is already executed (the stamp asks
  for `approved` only). If the agent's retry has written the record and the reviewer's
  execution is then refused by the daily budget, the row ends as failed, with a record.
- Lines 257-258 of that document also say that no attempt is created in the approval transaction;
  `approveInTransaction` schedules one there. No call is made in it.
- A running run whose retry is pending when its input expires stays running: the
  claim asks for running -> expired, which is illegal, so the job throws until its
  retries are spent (compare `docs/app-run-operations.md`, line 151, "let known
  work settle").
- Recovery of a claim of a cancelled run creates a pending attempt that is never
  claimed; at the attempt limit it asks for cancelled -> failed, which is illegal,
  and the claim stays. `ClaimSettles` exempts cancelled runs for this reason.
- A run's outcome says `provider_call_attempted: false` after its last attempt
  made no call, though an earlier one did.
- No code writes run state `waiting_external` or attempt state `cancelled`, and
  `AppRunService.expire` has no caller.
- A submission that waited for its lock looks for replays with its old clock reading:
  it may be answered with a run whose key has expired meanwhile, or with the successor
  of the run its key first named. Either way it is a run of its own content.
- Once a row is written under a new key, a process with the old keyring refuses every
  submission until it is restarted: the documented rotation is not free of downtime.
- A child of an agent's writing run that only reads inherits the reservation, and the
  check at `prepare` refuses a reservation on a run that is not charged: such a child
  is admitted and never scheduled.
- A failed delivery of a fire is never re-armed: the charge that goes with it sets
  `attempt_count` outside a claim, which the fire's trigger refuses, and the whole
  transaction rolls back. `FireEnds` holds because the definition's validity ends.
- No handler of a recurring job asks to be run later; the queue model allows it.
- `EmailOutboxStore` has no caller that sends: only history recovery uses it.
- A handler that ignores its abort signal keeps its slot; one that timed out or
  was aborted at shutdown may overlap with the retry or the next occurrence.

## Plan

Done: one run from submission to purge with every transaction of the attempt engine;
the same run pulled by an App runtime; admission, lineage and budget; automations up to
their run; an agent's module writes and their review; the job queue. Next, in this order:

1. The rest of agent actions: bulk creation, which has no mutation receipt of its own,
   task links, work intents, and multi-step plans.
2. Resource sync on top of `AppRuntimeChannel`, with its cursor.
3. Maintenance and scan batches: cursor and time budget over several runs or fires; no
   due row is passed over for ever.
4. Public cancellations (a run that cancels another one) and future record actions
   (a local change with a deferred run and an undo window): both sides end together.
5. Several automation definitions under one budget, across a UTC midnight.
6. The agent channel and reminders as users of `JobQueue`; an abstract at-least-once
   queue that `JobQueue` implements and that the engine's `jobs` variable uses.

Theorems to follow, with the models above: that an abstract queue is implemented by
`JobQueue`, and that the cursor of resource sync never skips.

Not modelled, and not planned: cryptography, authorization rules, projections for
the inbox, sockets, routes and tools, the web application, migrations. They hold
no coordination state of their own, or none that outlives a request.
