---------------------------- MODULE AppRunProofs ----------------------------
(***************************************************************************)
(* Machine-checked proofs of the App Run engine's safety, for every limit  *)
(* of attempts, lease length, set of policies, processes and approvers.    *)
(***************************************************************************)
EXTENDS AppRunProperties, AppRunLedgerProofs

-----------------------------------------------------------------------------
(* The transactions, with what the processes know of them. *)

ProcessStep(w, n) ==
  \/ Claim(w, n) \/ MarkProviderCallStarted(w, n) \/ RenewLease(w, n)
  \/ \E o \in OutcomeType : PersistKnownResult(w, n, o)
  \/ FinalizeKnownResult(w, n)
  \/ ExecuteNative(w, n) /\ calls' = [calls EXCEPT ![n] = @ + 1]
  \/ SettleIndeterminate(w, n) /\ At(w, "lost") /\ cur[w] = n

EngineStep ==
  \/ HumanStep \/ OtherStep
  \/ \E n \in Attempts : AttemptStep(n)
  \/ \E w \in Processes, n \in Attempts : ProcessStep(w, n)

(* Every step of the engine is one transaction on the rows, or leaves them. *)
LEMMA StepsAreTransactions ==
  ASSUME TypeOK, Next
  PROVE  EngineStep \/ UNCHANGED ledger
<1>1. ASSUME NEW w \in Processes, Step(w)
      PROVE  EngineStep \/ UNCHANGED ledger
  <2> DEFINE n == cur[w]
  <2> USE DEF EngineStep
  <2>0. ~At(w, "idle") => n \in Attempts
    BY DEF TypeOK, At
  <2>1. CASE \E m \in Attempts : TakeJob(w, m)
    BY <2>1 DEF TakeJob
  <2>2. CASE PrepareAttempt(w)
    BY <2>2 DEF PrepareAttempt, PrepareRows, OtherStep
  <2>3. ASSUME Throw(w), ~At(w, "idle") PROVE EngineStep \/ UNCHANGED ledger
    BY <2>0, <2>3 DEF Throw, JobSettled, OtherStep, ledger, clocks
  <2>4. CASE Recover(w)
    BY <2>0, <2>3, <2>4 DEF Recover, AttemptStep, Nothing, At
  <2>5. CASE ClaimAttempt(w)
    BY <2>0, <2>3, <2>5 DEF ClaimAttempt, ProcessStep, OtherStep, Nothing, At
  <2>6. CASE ReadInput(w)
    BY <2>6 DEF ReadInput, Nothing
  <2>7. CASE SettleMissingInput(w)
    BY <2>0, <2>3, <2>7 DEF SettleMissingInput, AttemptStep, At
  <2>8. CASE MarkStarted(w)
    BY <2>0, <2>8 DEF MarkStarted, ProcessStep, Nothing, At
  <2>9. CASE Heartbeat(w)
    BY <2>0, <2>9 DEF Heartbeat, ProcessStep, At
  <2>10. CASE Dispatch(w) \/ NotDispatched(w) \/ ProviderReturns(w) \/ Indeterminate(w)
    BY <2>10 DEF Dispatch, NotDispatched, ProviderReturns, Indeterminate, Nothing
  <2>11. CASE SettleLost(w)
    BY <2>0, <2>3, <2>11 DEF SettleLost, ProcessStep, Nothing, At
  <2>12. CASE Persist(w)
    <3>1. result[w] \in OutcomeType
      BY DEF TypeOK
    <3> QED BY <2>0, <2>12, <3>1 DEF Persist, ProcessStep, Nothing, At
  <2>13. CASE Finalize(w)
    BY <2>0, <2>3, <2>13 DEF Finalize, ProcessStep, Nothing, At
  <2>14. CASE RunNative(w)
    BY <2>0, <2>3, <2>14 DEF RunNative, ProcessStep, Nothing, At
  <2>15. CASE CompleteJob(w)
    BY <2>0, <2>15 DEF CompleteJob, JobSettled, OtherStep, At
  <2>16. CASE Crash(w)
    BY <2>3, <2>16 DEF Crash
  <2> QED
    BY <1>1, <2>1, <2>2, <2>4, <2>5, <2>6, <2>7, <2>8, <2>9, <2>10, <2>11, <2>12,
       <2>13, <2>14, <2>15, <2>16 DEF Step
<1>2. CASE ~\E w \in Processes : Step(w)
  BY <1>2 DEF Next, MaintenanceRecover, MaintenancePurge, SubmitRun, Approve, RejectRun,
    CancelRun, Reconcile, LeaseRunsDown, RetentionEnds, AuthorityRevoked,
    EngineStep, HumanStep, OtherStep, AttemptStep
<1> QED BY <1>1, <1>2

(* What holds of the transactions on the rows holds of the engine's steps. *)
LEMMA StepsAreLedgerSteps ==
  ASSUME TypeOK, Next
  PROVE  LedgerStep \/ UNCHANGED ledger
BY StepsAreTransactions DEF EngineStep, ProcessStep, LedgerStep, ExecutionStep, Execution

-----------------------------------------------------------------------------
(* Types. *)

PcTypeOK ==
  /\ pc \in [Processes -> Steps]
  /\ cur \in [Processes -> 0..AttemptLimit]
  /\ \A w \in Processes : pc[w] # "idle" => cur[w] \in Attempts
  /\ result \in [Processes -> OutcomeType]

(* A process that moves on stays well typed. *)
LEMMA GotoType ==
  ASSUME PcTypeOK, NEW w \in Processes, ~At(w, "idle"), NEW s \in Steps, Goto(w, s)
  PROVE  PcTypeOK'
BY DEF PcTypeOK, Goto, At

(* A process that becomes idle stays well typed. *)
LEMMA LeaveType ==
  ASSUME PcTypeOK, NEW w \in Processes, Leave(w)
  PROVE  PcTypeOK'
<1>1. 0 \in 0..AttemptLimit
  BY LimitAssumption
<1> QED BY <1>1, OutcomeTypes DEF PcTypeOK, Leave, Steps

(* A process that returns stays well typed. *)
LEMMA ReturnType ==
  ASSUME PcTypeOK, NEW w \in Processes, ~At(w, "idle"), Return(w)
  PROVE  PcTypeOK'
BY GotoType, LeaveType DEF Return, Steps

(* A process that throws stays well typed. *)
LEMMA ThrowType ==
  ASSUME PcTypeOK, NEW w \in Processes, Throw(w)
  PROVE  PcTypeOK'
BY LeaveType DEF Throw

(* The result a process remembers is an outcome. *)
LEMMA RememberType ==
  ASSUME PcTypeOK, NEW w \in Processes, ~At(w, "idle"), NEW s \in Steps, NEW o \in OutcomeType,
         pc' = [pc EXCEPT ![w] = s], result' = [result EXCEPT ![w] = o], cur' = cur
  PROVE  PcTypeOK'
BY DEF PcTypeOK, At

(* Every step of a process keeps the processes well typed. *)
LEMMA StepType ==
  ASSUME PcTypeOK, NEW w \in Processes, Step(w)
  PROVE  PcTypeOK'
<1>0. "recover" \in Steps /\ "claim" \in Steps /\ "read" \in Steps /\ "settle" \in Steps
      /\ "native" \in Steps /\ "mark" \in Steps /\ "call" \in Steps /\ "wait" \in Steps
      /\ "lost" \in Steps /\ "persist" \in Steps /\ "finalize" \in Steps
  BY DEF Steps
<1>a. Attempts \subseteq 0..AttemptLimit
  BY LimitAssumption DEF Attempts
<1>1. CASE \E n \in Attempts : TakeJob(w, n)
  BY <1>0, <1>1, <1>a DEF TakeJob, PcTypeOK
<1>2. CASE PrepareAttempt(w)
  BY <1>0, <1>2, <1>a DEF PrepareAttempt, PcTypeOK
<1>3. CASE Recover(w)
  BY <1>0, <1>3, GotoType, ThrowType DEF Recover, At
<1>4. CASE ClaimAttempt(w)
  BY <1>0, <1>4, GotoType, ThrowType, ReturnType DEF ClaimAttempt, At
<1>5. CASE ReadInput(w)
  BY <1>0, <1>5, GotoType DEF ReadInput, At
<1>6. CASE SettleMissingInput(w)
  BY <1>0, <1>6, ThrowType, ReturnType DEF SettleMissingInput, At
<1>7. CASE MarkStarted(w)
  BY <1>0, <1>7, GotoType, ReturnType DEF MarkStarted, At
<1>8. CASE Heartbeat(w)
  BY <1>8 DEF Heartbeat, procs, PcTypeOK
<1>9. CASE Dispatch(w) \/ Indeterminate(w)
  BY <1>0, <1>9, GotoType DEF Dispatch, Indeterminate, At
<1>10. CASE NotDispatched(w)
  BY <1>0, <1>10, RememberType, OutcomeTypes DEF NotDispatched, At
<1>11. CASE ProviderReturns(w)
  <2>1. PICK ok \in BOOLEAN, kept \in BOOLEAN :
          result' = [result EXCEPT ![w] = Returned(ok, kept)]
    BY <1>11 DEF ProviderReturns
  <2>2. Returned(ok, kept) \in OutcomeType
    BY DEF Returned, OutcomeType
  <2> QED BY <1>0, <1>11, <2>1, <2>2, RememberType DEF ProviderReturns, At
<1>12. CASE SettleLost(w)
  BY <1>0, <1>12, ThrowType, ReturnType DEF SettleLost, At
<1>13. CASE Persist(w)
  BY <1>0, <1>13, RememberType, OutcomeTypes DEF Persist, At
<1>14. CASE Finalize(w)
  BY <1>0, <1>14, ThrowType, ReturnType DEF Finalize, At
<1>15. CASE RunNative(w)
  BY <1>0, <1>15, ThrowType, ReturnType DEF RunNative, At
<1>16. CASE CompleteJob(w)
  BY <1>16, LeaveType DEF CompleteJob
<1>17. CASE Crash(w)
  BY <1>17, ThrowType DEF Crash
<1> QED
  BY <1>1, <1>2, <1>3, <1>4, <1>5, <1>6, <1>7, <1>8, <1>9, <1>10, <1>11, <1>12, <1>13,
     <1>14, <1>15, <1>16, <1>17 DEF Step

(* A step of the environment leaves every process where it is. *)
LEMMA EnvironmentLeavesProcesses ==
  ASSUME Next, ~\E w \in Processes : Step(w)
  PROVE  UNCHANGED <<procs, calls>>
BY DEF Next, MaintenanceRecover, MaintenancePurge, SubmitRun, Approve, RejectRun,
  CancelRun, Reconcile, LeaseRunsDown, RetentionEnds, AuthorityRevoked

(* Only the dispatch of a call and a native effect count as calls. *)
LEMMA StepCalls ==
  ASSUME NEW w \in Processes, Step(w)
  PROVE  \/ UNCHANGED calls
         \/ Dispatch(w)
         \/ RunNative(w)
BY DEF Step, TakeJob, PrepareAttempt, Recover, ClaimAttempt, ReadInput, SettleMissingInput,
  MarkStarted, Heartbeat, NotDispatched, ProviderReturns, Indeterminate, SettleLost,
  Persist, Finalize, CompleteJob, Crash

(* The call counts stay natural numbers. *)
LEMMA CallsType ==
  ASSUME TypeOK, Next
  PROVE  calls' \in [Attempts -> Nat]
<1>1. ASSUME NEW w \in Processes, Dispatch(w) \/ RunNative(w)
      PROVE  calls' \in [Attempts -> Nat]
  BY <1>1 DEF Dispatch, RunNative, TypeOK, At
<1> QED
  BY <1>1, StepCalls, EnvironmentLeavesProcesses DEF TypeOK, procs

(* The initial state is well typed. *)
LEMMA TypeCorrectInit ==
  ASSUME Init
  PROVE  TypeOK
<1>1. LedgerTypeOK
  BY LedgerInitType DEF Init
<1>2. 0 \in 0..AttemptLimit
  BY LimitAssumption
<1> QED BY <1>1, <1>2, OutcomeTypes DEF Init, TypeOK, Steps

(* Every step preserves the type invariant. *)
LEMMA TypeCorrectNext ==
  ASSUME TypeOK, [Next]_vars
  PROVE  TypeOK'
<1>1. ASSUME Next PROVE TypeOK'
  <2>1. LedgerTypeOK'
    BY <1>1, StepsAreLedgerSteps, LedgerStepType DEF TypeOK
  <2>2. PcTypeOK'
    <3>1. PcTypeOK
      BY DEF TypeOK, PcTypeOK
    <3>2. CASE UNCHANGED procs
      BY <3>1, <3>2 DEF procs, PcTypeOK
    <3> QED BY <1>1, <3>1, <3>2, StepType, EnvironmentLeavesProcesses
  <2> QED BY <1>1, <2>1, <2>2, CallsType DEF TypeOK, PcTypeOK
<1>2. ASSUME UNCHANGED vars PROVE TypeOK'
  BY <1>2 DEF TypeOK, LedgerTypeOK, vars, ledger, procs
<1> QED BY <1>1, <1>2

(* Every reachable state of the engine, its rows, its processes and its call   *)
(* counts, is well typed.                                                      *)
THEOREM TypeCorrect == Spec => []TypeOK
<1>1. Init => TypeOK
  BY TypeCorrectInit
<1>2. TypeOK /\ [Next]_vars => TypeOK'
  BY TypeCorrectNext
<1> QED BY <1>1, <1>2, PTL DEF Spec

-----------------------------------------------------------------------------
(* The inductive invariant. *)

(* What a process may rely on between its transactions: from its claim on, the *)
(* attempt carries its token; behind the boundary the attempt is started; and  *)
(* before it dispatches the call nobody else has.                              *)
AfterClaim == {"read", "settle", "native", "mark", "call", "wait", "lost", "persist", "finalize"}
AfterStart == {"call", "wait", "lost", "persist", "finalize"}
ProcessHolds ==
  \A w \in Processes :
    /\ pc[w] \in AfterClaim => att[cur[w]].token = w
    /\ pc[w] \in AfterStart => att[cur[w]].started
    /\ pc[w] = "call" => calls[cur[w]] = 0
CallsStarted ==
  \A n \in Attempts : calls[n] <= 1 /\ (calls[n] = 1 => att[n].started)

Inv == TypeOK /\ RowsInv /\ ApprovalAgrees /\ ProcessHolds /\ CallsStarted

(* A step moves one process. *)
LEMMA StepMovesOne ==
  ASSUME PcTypeOK, NEW w \in Processes, Step(w), NEW v \in Processes \ {w}
  PROVE  pc'[v] = pc[v] /\ cur'[v] = cur[v]
<1>1. ASSUME NEW s, Goto(w, s) PROVE pc'[v] = pc[v] /\ cur'[v] = cur[v]
  BY <1>1 DEF Goto, PcTypeOK
<1>2. CASE Leave(w)
  BY <1>2 DEF Leave, PcTypeOK
<1>3. CASE Return(w)
  BY <1>1, <1>2, <1>3 DEF Return
<1>4. CASE Throw(w)
  BY <1>2, <1>4 DEF Throw
<1>5. CASE \E n \in Attempts : TakeJob(w, n)
  BY <1>5 DEF TakeJob, PcTypeOK
<1>6. CASE PrepareAttempt(w)
  BY <1>6 DEF PrepareAttempt, PcTypeOK
<1>7. CASE Recover(w) \/ ClaimAttempt(w) \/ ReadInput(w) \/ SettleMissingInput(w) \/ MarkStarted(w)
  BY <1>1, <1>3, <1>4, <1>7 DEF Recover, ClaimAttempt, ReadInput, SettleMissingInput, MarkStarted
<1>8. CASE Heartbeat(w)
  BY <1>8 DEF Heartbeat, procs
<1>9. CASE NotDispatched(w) \/ ProviderReturns(w) \/ Persist(w)
  BY <1>9 DEF NotDispatched, ProviderReturns, Persist, PcTypeOK
<1>10. CASE Dispatch(w) \/ Indeterminate(w) \/ SettleLost(w) \/ Finalize(w) \/ RunNative(w)
  BY <1>1, <1>3, <1>4, <1>10 DEF Dispatch, Indeterminate, SettleLost, Finalize, RunNative
<1>11. CASE CompleteJob(w) \/ Crash(w)
  BY <1>2, <1>4, <1>11 DEF CompleteJob, Crash
<1> QED BY <1>5, <1>6, <1>7, <1>8, <1>9, <1>10, <1>11 DEF Step

(* Where a step takes its process: past the claim only by claiming, past the   *)
(* boundary only by starting the call, and to the call only from there.        *)
LEMMA StepKeepsPlace ==
  ASSUME TypeOK, NEW w \in Processes, Step(w), pc'[w] \in AfterClaim
  PROVE  /\ cur'[w] = cur[w] /\ cur[w] \in Attempts
         /\ pc[w] \in AfterClaim \/ Claim(w, cur[w])
         /\ pc'[w] \in AfterStart => pc[w] \in AfterStart \/ MarkProviderCallStarted(w, cur[w])
         /\ pc'[w] = "call" => pc[w] = "call" \/ MarkProviderCallStarted(w, cur[w])
<1> USE DEF AfterClaim, AfterStart
<1>0. /\ pc \in [Processes -> Steps]
      /\ cur \in [Processes -> 0..AttemptLimit]
      /\ pc[w] # "idle" => cur[w] \in Attempts
  BY DEF TypeOK
<1>1. ~Leave(w) /\ ~Return(w) /\ ~Throw(w)
  BY <1>0 DEF Leave, Return, Goto, Throw
<1>2. ASSUME NEW s, Goto(w, s) PROVE pc'[w] = s /\ cur'[w] = cur[w]
  BY <1>0, <1>2 DEF Goto
<1>3. CASE \E n \in Attempts : TakeJob(w, n)
  BY <1>0, <1>3 DEF TakeJob
<1>4. CASE PrepareAttempt(w)
  BY <1>0, <1>4 DEF PrepareAttempt, At
<1>5. CASE Recover(w) \/ SettleMissingInput(w) \/ SettleLost(w) \/ Finalize(w) \/ RunNative(w)
           \/ CompleteJob(w) \/ Crash(w)
  BY <1>1, <1>2, <1>5 DEF Recover, SettleMissingInput, SettleLost, Finalize, RunNative,
     CompleteJob, Crash
<1>6. CASE ClaimAttempt(w)
  BY <1>0, <1>1, <1>2, <1>6 DEF ClaimAttempt, At
<1>7. CASE ReadInput(w)
  BY <1>0, <1>2, <1>7 DEF ReadInput, At
<1>8. CASE MarkStarted(w)
  BY <1>0, <1>1, <1>2, <1>8 DEF MarkStarted, At
<1>9. CASE Heartbeat(w)
  BY <1>0, <1>9 DEF Heartbeat, procs
<1>10. CASE Dispatch(w) \/ Indeterminate(w)
  BY <1>0, <1>2, <1>10 DEF Dispatch, Indeterminate, At
<1>11. CASE NotDispatched(w) \/ ProviderReturns(w) \/ Persist(w)
  BY <1>0, <1>11 DEF NotDispatched, ProviderReturns, Persist, At
<1> QED BY <1>3, <1>4, <1>5, <1>6, <1>7, <1>8, <1>9, <1>10, <1>11 DEF Step

(* A step that counts a call is made by the holder of the attempt's token,     *)
(* for an attempt that had no call and is started afterwards.                  *)
LEMMA CallEffect ==
  ASSUME Inv, NEW w \in Processes, Step(w), calls' # calls
  PROVE  /\ cur[w] \in Attempts
         /\ att[cur[w]].token = w
         /\ calls[cur[w]] = 0
         /\ calls' = [calls EXCEPT ![cur[w]] = 1]
         /\ att'[cur[w]].started
         /\ pc'[w] # "call"
<1> USE DEF Inv
<1> DEFINE n == cur[w]
<1>0. /\ pc \in [Processes -> Steps]
      /\ pc[w] # "idle" => n \in Attempts
      /\ calls \in [Attempts -> Nat]
      /\ att \in [Attempts -> AttemptType]
  BY DEF TypeOK, LedgerTypeOK
<1>1. CASE Dispatch(w)
  <2>1. /\ pc[w] = "call" /\ n \in Attempts
        /\ calls' = [calls EXCEPT ![n] = @ + 1]
        /\ att' = att /\ pc'[w] = "wait"
    BY <1>0, <1>1 DEF Dispatch, At, Goto, Nothing, ledger
  <2>2. att[n].token = w /\ att[n].started /\ calls[n] = 0
    BY <2>1 DEF ProcessHolds, AfterClaim, AfterStart
  <2> QED BY <1>0, <2>1, <2>2
<1>2. CASE RunNative(w)
  <2>1. ExecuteNative(w, n) /\ Return(w) /\ calls' = [calls EXCEPT ![n] = @ + 1] /\ n \in Attempts
    BY <1>0, <1>2 DEF RunNative, At
  <2>2. att[n].token = w /\ att[n].state = "claimed" /\ att[n] \in AttemptType
    BY <1>0, <2>1 DEF ExecuteNative, NativeReady
  <2>3. att'[n].started
    BY <1>0, <2>1, <2>2 DEF ExecuteNative, AttemptType
  <2>4. calls[n] = 0
    <3>1. ~att[n].started
      BY <2>1, <2>2 DEF RowsInv, AttemptOrder
    <3>2. calls[n] \in Nat /\ calls[n] <= 1 /\ calls[n] # 1
      BY <1>0, <2>1, <3>1 DEF CallsStarted
    <3> QED BY <3>2
  <2>5. pc'[w] # "call"
    BY <1>0, <2>1 DEF Return, Leave, Goto
  <2> QED BY <1>0, <2>1, <2>2, <2>3, <2>4, <2>5
<1> QED BY <1>1, <1>2, StepCalls

(* Every step keeps the claims behind running processes, and calls started. *)
LEMMA NextProcesses ==
  ASSUME Inv, Next
  PROVE  ProcessHolds' /\ CallsStarted'
<1> USE DEF Inv
<1>0. /\ PcTypeOK
      /\ LedgerTypeOK
      /\ calls \in [Attempts -> Nat]
      /\ \A w \in Processes : pc[w] \in AfterClaim => cur[w] \in Attempts
      /\ AfterStart \subseteq AfterClaim /\ "call" \in AfterStart
  BY DEF TypeOK, PcTypeOK, AfterClaim, AfterStart
<1>1. \A n \in Attempts :
        /\ att[n].token # Nobody => att'[n].token = att[n].token
        /\ att[n].started => att'[n].started
  BY <1>0, StepsAreLedgerSteps, TokensAndStartsPersist
<1>2. \A w \in Processes : w # Nobody
  BY NobodyAssumption
<1>3. CASE ~\E w \in Processes : Step(w)
  <2>1. UNCHANGED <<pc, cur, calls>>
    BY <1>3, EnvironmentLeavesProcesses DEF procs
  <2> QED BY <1>0, <1>1, <1>2, <2>1 DEF ProcessHolds, CallsStarted
<1>4. ASSUME NEW w \in Processes, Step(w)
      PROVE  ProcessHolds' /\ CallsStarted'
  <2>1. CallsStarted'
    <3>1. CASE calls' = calls
      BY <1>1, <3>1 DEF CallsStarted
    <3>2. CASE calls' # calls
      BY <1>0, <1>1, <1>4, <3>2, CallEffect DEF CallsStarted
    <3> QED BY <3>1, <3>2
  <2>2. ASSUME NEW v \in Processes \ {w}
        PROVE  /\ pc'[v] \in AfterClaim => att'[cur'[v]].token = v
               /\ pc'[v] \in AfterStart => att'[cur'[v]].started
               /\ pc'[v] = "call" => calls'[cur'[v]] = 0
    <3>1. pc'[v] = pc[v] /\ cur'[v] = cur[v]
      BY <1>0, <1>4, StepMovesOne
    <3>2. /\ pc[v] \in AfterClaim => att'[cur[v]].token = v
          /\ pc[v] \in AfterStart => att'[cur[v]].started
      BY <1>0, <1>1, <1>2 DEF ProcessHolds
    <3>3. pc[v] = "call" => calls'[cur[v]] = 0
      <4>1. CASE calls' = calls
        BY <4>1 DEF ProcessHolds
      <4>2. CASE calls' # calls
        <5>1. att[cur[w]].token = w /\ calls' = [calls EXCEPT ![cur[w]] = 1]
          BY <1>4, <4>2, CallEffect
        <5> QED BY <1>0, <5>1 DEF ProcessHolds
      <4> QED BY <4>1, <4>2
    <3> QED BY <3>1, <3>2, <3>3
  <2>3. /\ pc'[w] \in AfterClaim => att'[cur'[w]].token = w
        /\ pc'[w] \in AfterStart => att'[cur'[w]].started
        /\ pc'[w] = "call" => calls'[cur'[w]] = 0
    <3> SUFFICES ASSUME pc'[w] \in AfterClaim
                 PROVE  /\ att'[cur'[w]].token = w
                        /\ pc'[w] \in AfterStart => att'[cur'[w]].started
                        /\ pc'[w] = "call" => calls'[cur'[w]] = 0
      BY <1>0
    <3> DEFINE n == cur[w]
    <3>1. /\ cur'[w] = n /\ n \in Attempts
          /\ pc[w] \in AfterClaim \/ Claim(w, n)
          /\ pc'[w] \in AfterStart => pc[w] \in AfterStart \/ MarkProviderCallStarted(w, n)
          /\ pc'[w] = "call" => pc[w] = "call" \/ MarkProviderCallStarted(w, n)
      BY <1>4, StepKeepsPlace
    <3>2. att \in [Attempts -> AttemptType] /\ att[n] \in AttemptType
      BY <1>0, <3>1 DEF LedgerTypeOK
    <3>3. att'[n].token = w
      <4>1. CASE pc[w] \in AfterClaim
        BY <1>1, <1>2, <3>1, <4>1 DEF ProcessHolds
      <4>2. CASE Claim(w, n)
        BY <3>1, <3>2, <4>2 DEF Claim, AttemptType
      <4> QED BY <3>1, <4>1, <4>2
    <3>4. ASSUME MarkProviderCallStarted(w, n)
          PROVE  att'[n].started /\ calls[n] = 0
      <4>1. att'[n].started
        BY <3>1, <3>2, <3>4 DEF MarkProviderCallStarted, AttemptType
      <4>2. ~att[n].started
        BY <3>1, <3>4 DEF MarkProviderCallStarted, MayStart, RowsInv, AttemptOrder
      <4>3. calls[n] \in Nat /\ calls[n] <= 1 /\ calls[n] # 1
        BY <1>0, <3>1, <4>2 DEF CallsStarted
      <4> QED BY <4>1, <4>3
    <3>5. pc'[w] \in AfterStart => att'[n].started
      BY <1>1, <3>1, <3>4 DEF ProcessHolds
    <3>6. pc'[w] = "call" => calls'[n] = 0
      <4>1. pc'[w] = "call" => calls' = calls
        BY <1>4, CallEffect
      <4> QED BY <3>1, <3>4, <4>1 DEF ProcessHolds
    <3> QED BY <3>1, <3>3, <3>5, <3>6
  <2> QED BY <2>1, <2>2, <2>3 DEF ProcessHolds
<1> QED BY <1>3, <1>4

(* The inductive invariant holds initially. *)
LEMMA InvInit ==
  ASSUME Init
  PROVE  Inv
<1>1. TypeOK
  BY TypeCorrectInit
<1>2. run = NoRun /\ approval = NoApproval /\ \A n \in Attempts : att[n] = NoAttempt
  BY DEF Init, LedgerInit
<1>3. RowsInv
  BY <1>2 DEF RowsInv, AbsentRun, UnreleasedRun, AttemptOrder, StartedRun, OneShotStartsOnce,
     OneActiveAttempt, HasActive, NoRun, NoApproval, NoApprovalReceipt, NoAttempt, Active
<1>4. ApprovalAgrees
  BY <1>2 DEF ApprovalAgrees, NoRun, NoApproval, NoApprovalReceipt
<1>5. ProcessHolds /\ CallsStarted
  BY DEF Init, ProcessHolds, CallsStarted, AfterClaim, AfterStart
<1> QED BY <1>1, <1>3, <1>4, <1>5 DEF Inv

(* Every step preserves the inductive invariant. *)
LEMMA InvNext ==
  ASSUME Inv, [Next]_vars
  PROVE  Inv'
<1>1. ASSUME Next PROVE Inv'
  <2>1. LedgerStep \/ UNCHANGED ledger
    BY <1>1, StepsAreLedgerSteps DEF Inv
  <2>2. RowsInv'
    BY <1>1, <2>1, LedgerStepRows DEF Inv, TypeOK
  <2>3. ApprovalAgrees'
    BY <1>1, <2>1, LedgerStepApproval DEF Inv, TypeOK
  <2> QED BY <1>1, <2>2, <2>3, TypeCorrectNext, NextProcesses DEF Inv
<1>2. ASSUME UNCHANGED vars PROVE Inv'
  <2>1. UNCHANGED ledger /\ UNCHANGED <<pc, cur, calls>>
    BY <1>2 DEF vars, procs
  <2>2. RowsInv' /\ ApprovalAgrees'
    BY <1>2, <2>1, LedgerStepRows, LedgerStepApproval DEF Inv, TypeOK
  <2>3. TypeOK'
    BY <1>2, TypeCorrectNext DEF Inv
  <2>4. ProcessHolds' /\ CallsStarted'
    BY <1>2, <2>1 DEF Inv, ProcessHolds, CallsStarted, ledger
  <2> QED BY <2>2, <2>3, <2>4 DEF Inv
<1> QED BY <1>1, <1>2

(* The inductive invariant holds in every reachable state. *)
THEOREM Invariance == Spec => []Inv
<1>1. Init => Inv
  BY InvInit
<1>2. Inv /\ [Next]_vars => Inv'
  BY InvNext
<1> QED BY <1>1, <1>2, PTL DEF Spec

-----------------------------------------------------------------------------
(* What follows from the invariant. *)

(* At most one attempt of a run is active, and a run that ended by a result or *)
(* by an unknown outcome has none (scheduleInTransaction, recoverRun).         *)
THEOREM OneActive == Spec => []OneActiveAttempt
<1>1. Inv => OneActiveAttempt
  BY DEF Inv, RowsInv
<1> QED BY <1>1, Invariance, PTL

(* The approval row never contradicts the run (approveInTransaction, reject,   *)
(* cancel).                                                                    *)
THEOREM ApprovalConsistent == Spec => []ApprovalAgrees
<1>1. Inv => ApprovalAgrees
  BY DEF Inv
<1> QED BY <1>1, Invariance, PTL

(* Every attempt calls the provider at most once, after its committed start,   *)
(* and an unsafe operation is called at most once in all its attempts          *)
(* (#markProviderCallStarted, #recoverUnknownInTransaction).                   *)
THEOREM Fenced == Spec => []CallsAreFenced
<1>1. Inv => CallsAreFenced
  <2> SUFFICES ASSUME Inv PROVE CallsAreFenced
    OBVIOUS
  <2>1. \A n \in Attempts : calls[n] \in Nat /\ calls[n] <= 1 /\ (calls[n] = 1 => att[n].started)
    BY DEF Inv, TypeOK, CallsStarted
  <2>2. \A n \in Called : n \in Attempts /\ att[n].started
    <3> SUFFICES ASSUME NEW n \in Called PROVE n \in Attempts /\ att[n].started
      OBVIOUS
    <3>1. n \in Attempts /\ calls[n] > 0
      BY DEF Called
    <3>2. calls[n] \in Nat /\ calls[n] <= 1 /\ (calls[n] = 1 => att[n].started)
      BY <2>1, <3>1
    <3> QED BY <3>1, <3>2
  <2>3. policy.retry = "unsafe" => \A m, n \in Called : m = n
    BY <2>2 DEF Inv, RowsInv, OneShot, OneShotStartsOnce
  <2> QED BY <2>1, <2>3 DEF CallsAreFenced
<1> QED BY <1>1, Invariance, PTL

(* A cancelled or rejected run has made no call and no process of it can still *)
(* make one (cancel, reject, #markProviderCallStarted).                        *)
THEOREM CancelledIsQuiet == Spec => []CancelledNeverCalls
<1>1. Inv => CancelledNeverCalls
  <2> SUFFICES ASSUME Inv, run.state = "cancelled" PROVE /\ Called = {}
                                                         /\ \A w \in Processes : pc[w] \notin {"call", "wait"}
    BY DEF CancelledNeverCalls
  <2>1. \A n \in Attempts : ~att[n].started
    BY DEF Inv, RowsInv, StartedRun
  <2>2. \A n \in Attempts : calls[n] = 0
    <3> SUFFICES ASSUME NEW n \in Attempts PROVE calls[n] = 0
      OBVIOUS
    <3>1. calls[n] \in Nat /\ calls[n] <= 1 /\ calls[n] # 1
      BY <2>1 DEF Inv, TypeOK, CallsStarted
    <3> QED BY <3>1
  <2>3. Called = {}
    BY <2>2 DEF Called
  <2>4. ASSUME NEW w \in Processes, pc[w] \in {"call", "wait"} PROVE FALSE
    <3>1. cur[w] \in Attempts
      BY <2>4 DEF Inv, TypeOK
    <3>2. att[cur[w]].started
      BY <2>4 DEF Inv, ProcessHolds, AfterStart
    <3> QED BY <2>1, <3>1, <3>2
  <2> QED BY <2>3, <2>4
<1> QED BY <1>1, Invariance, PTL

(* No step writes an attempt that has ended (the claim-token fences of         *)
(* #persistKnownResult, #finalizeKnownResult, #settleIndeterminate and         *)
(* renewLease).                                                                *)
THEOREM Frozen == Spec => EndedAttemptIsFrozen
<1> DEFINE A == \A n \in Attempts : att[n].state \in Ended => att'[n] = att[n]
<1>1. TypeOK /\ [Next]_vars => [A]_vars
  <2> SUFFICES ASSUME TypeOK, Next PROVE A
    OBVIOUS
  <2>1. LedgerStep \/ UNCHANGED ledger
    BY StepsAreLedgerSteps
  <2> QED BY <2>1, TransactionsFreeze DEF TypeOK
<1> QED BY <1>1, TypeCorrect, PTL DEF Spec, EndedAttemptIsFrozen
=============================================================================
