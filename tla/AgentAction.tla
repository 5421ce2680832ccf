----------------------------- MODULE AgentAction -----------------------------
(***************************************************************************)
(* A module write that an agent employee asks for under one idempotency    *)
(* key: the agent_actions rows of the key, their review, their execution   *)
(* and the mutation itself with its durable receipt.                       *)
(*                                                                         *)
(* Two parties may execute a row. The reviewer's approval works under a    *)
(* session lock on the row, the agent's own call under one on the key, so  *)
(* that the two overlap. Neither mutation asks for the state of the row.   *)
(* Meanwhile the row may be rejected, expire, or be ended by an            *)
(* administrator who closes the module to agents, and the employee may be  *)
(* paused. Every statement or transaction is one step; a process may die   *)
(* between any two, which releases its lock.                               *)
(*                                                                         *)
(* Inputs are equal: a key reused for another input is refused before any  *)
(* step below. Work intents, attention and the payload in params are left  *)
(* out, and so are bulk creation, task links and the calls of Defty.       *)
(***************************************************************************)
EXTENDS Naturals, Sequences, FiniteSets

CONSTANTS Reviewers,  \* requests that approve
          Agents,     \* calls of the employee's runtime
          MaxRows     \* bound: rows of the key

ASSUME ProcessAssumption == Reviewers \cap Agents = {}
ASSUME RowAssumption == MaxRows \in Nat \ {0}

Processes == Reviewers \cup Agents

VARIABLES
  rows,      \* agent_actions of the key, in the order of creation
  written,   \* the action in module_mutation_receipts of the key, or 0
  receipts,  \* action_receipts
  open,      \* the installation is enabled and agents may write
  fit,       \* the employee is active, healthy and may use the tool
  pc, cur,   \* where a process is, and its row
  resumes,   \* reviewers that found their row approved and not executed
  got        \* what the execution of a process came to

locals == <<pc, cur, resumes, got>>
vars == <<rows, written, receipts, open, fit, locals>>

Ids == 1..Len(rows)
Live == {"pending", "approved"}
Unexecuted(i) == rows[i].status = "approved" /\ ~rows[i].executed
\* The decision a receipt of the row carries.
Decision(r) == IF r.status # "approved" THEN r.status
               ELSE IF r.reviewed THEN "approved" ELSE "auto_executed"

TypeOK ==
  /\ rows \in Seq([status : Live \cup {"rejected", "expired"}, reviewed : BOOLEAN,
                   executed : BOOLEAN, outcome : {"none", "ok", "failed"}])
  /\ Len(rows) <= MaxRows
  /\ written \in 0..MaxRows
  /\ receipts \subseteq [row : 1..MaxRows, result : {"none", "ok", "failed"},
                         decision : {"approved", "auto_executed", "rejected", "expired"}]
  /\ open \in BOOLEAN /\ fit \in BOOLEAN
  /\ pc \in [Processes -> {"idle", "direct", "recover", "policy", "expire", "claim",
                           "check", "mutate", "fail", "persist", "stamp", "receipt"}]
  /\ cur \in [Processes -> 0..MaxRows]
  /\ resumes \subseteq Reviewers
  /\ got \in [Processes -> {"none", "ok", "failed"}]

Init ==
  /\ rows = <<>>
  /\ written = 0
  /\ receipts = {}
  /\ open = TRUE /\ fit = TRUE
  /\ pc = [p \in Processes |-> "idle"]
  /\ cur = [p \in Processes |-> 0]
  /\ resumes = {}
  /\ got = [p \in Processes |-> "none"]

-----------------------------------------------------------------------------
(* Locals, and the signed receipts. *)

Goto(p, step) == pc' = [pc EXCEPT ![p] = step] /\ UNCHANGED <<cur, resumes, got>>
Result(p, step, r) == /\ pc' = [pc EXCEPT ![p] = step]
                      /\ got' = [got EXCEPT ![p] = r]
                      /\ UNCHANGED <<cur, resumes>>
Rest(p) ==
  /\ pc' = [pc EXCEPT ![p] = "idle"]
  /\ cur' = [cur EXCEPT ![p] = 0]
  /\ resumes' = resumes \ {p}
  /\ got' = [got EXCEPT ![p] = "none"]

\* generateReceipt: one receipt for an action and decision, the first one stays.
\* Its failure is logged and forgotten.
GenerateReceipt(i, decision, result) ==
  \/ /\ \A x \in receipts : ~(x.row = i /\ x.decision = decision)
     /\ receipts' = receipts \cup {[row |-> i, decision |-> decision, result |-> result]}
  \/ UNCHANGED receipts

Ended(i, status) == [rows EXCEPT ![i].status = status, ![i].executed = TRUE]
Executed(i, r) == [rows EXCEPT ![i].executed = TRUE, ![i].outcome = r]

-----------------------------------------------------------------------------
(* The world around the action. *)

\* Fault: what was approved is taken for written.
CommittedAtAll(i) == TRUE
\* recoverModuleMutationByAgentActionId: the mutation of the row itself is found.
Committed(i) == written = i

\* updateModuleInstallation, which ends what agents have not written yet: under
\* the installation's lock an unexecuted row has its mutation or has none.
CloseModule ==
  /\ open
  /\ open' = FALSE
  /\ rows' = [i \in Ids |->
       IF Unexecuted(i) /\ Committed(i)
       THEN [rows[i] EXCEPT !.executed = TRUE, !.outcome = "ok"]
       ELSE IF rows[i].status = "pending" \/ Unexecuted(i)
            THEN [rows[i] EXCEPT !.status = "expired", !.executed = TRUE]
            ELSE rows[i]]
  /\ UNCHANGED <<written, receipts, fit, locals>>

OpenModule == ~open /\ open' = TRUE /\ UNCHANGED <<rows, written, receipts, fit, locals>>

\* The employee is paused, unhealthy or loses the tool, and may come back.
ChangeEmployee == fit' = ~fit /\ UNCHANGED <<rows, written, receipts, open, locals>>

\* terminalizePendingModuleActions: time to live, or the employee is deleted.
Lapse(i) ==
  /\ rows[i].status = "pending"
  /\ rows' = Ended(i, "expired")
  /\ UNCHANGED <<written, receipts, open, fit, locals>>

\* rejectActionOnce
Reject(i) ==
  /\ rows[i].status = "pending"
  /\ rows' = [rows EXCEPT ![i].status = "rejected"]
  /\ UNCHANGED <<written, receipts, open, fit, locals>>

\* The receipt that follows an ending, or that a repeated approve, reject or call
\* of the agent supplies when it is missing.
Repair(i) ==
  /\ rows[i].status \in {"rejected", "expired"} \/ (rows[i].status = "approved" /\ rows[i].executed)
  /\ GenerateReceipt(i, Decision(rows[i]), rows[i].outcome)
  /\ UNCHANGED <<rows, written, open, fit, locals>>

Crash(p) ==
  /\ pc[p] # "idle"
  /\ Rest(p)
  /\ UNCHANGED <<rows, written, receipts, open, fit>>

-----------------------------------------------------------------------------
(* The mutation, for whoever executes the row. *)

\* createModuleRecord under the lock of the key; a unique index on the key's receipts
\* stands behind it. findMutationReplay asks for the module, a new record for the
\* employee too. Anything else, the input or the database, may refuse.
Mutate(p) ==
  /\ pc[p] = "mutate"
  /\ \/ /\ open /\ written # 0
        /\ Result(p, "persist", "ok")
        /\ UNCHANGED written
     \/ /\ open /\ fit /\ written = 0
        /\ written' = cur[p]
        /\ Result(p, "persist", "ok")
     \/ /\ Result(p, "fail", "failed")
        /\ UNCHANGED written
  /\ UNCHANGED <<rows, receipts, open, fit>>

-----------------------------------------------------------------------------
(* approveActionLocked *)

\* The lock of the row is free; the row is read. A row that has ended is Repair's.
Approve(p, i) ==
  /\ pc[p] = "idle"
  /\ \A q \in Reviewers : cur[q] # i
  /\ rows[i].status = "pending" \/ Unexecuted(i)
  /\ pc' = [pc EXCEPT ![p] = IF Unexecuted(i) THEN "recover" ELSE "policy"]
  /\ cur' = [cur EXCEPT ![p] = i]
  /\ resumes' = IF Unexecuted(i) THEN resumes \cup {p} ELSE resumes
  /\ UNCHANGED <<rows, written, receipts, open, fit, got>>

\* An approval is resumed: what is already written is only recorded.
Recover(p) ==
  /\ pc[p] = "recover"
  /\ IF Committed(cur[p]) /\ Unexecuted(cur[p])
     THEN rows' = Executed(cur[p], "ok") /\ Rest(p)
     ELSE UNCHANGED rows /\ Goto(p, "policy")
  /\ UNCHANGED <<written, receipts, open, fit>>

\* The params of a row that was approved at once hold digests, not the input, and no
\* longer parse.
Parses(p) == p \in resumes => rows[cur[p]].reviewed

\* The employee is loaded and the module action preflighted. Whatever the preflight
\* throws (a stale manifest, a missing relation, a lost connection) expires the row.
CheckPolicy(p) ==
  /\ pc[p] = "policy"
  /\ \/ fit /\ open /\ Parses(p) /\ Goto(p, IF p \in resumes THEN "check" ELSE "claim")
     \/ Goto(p, "expire")
  /\ UNCHANGED <<rows, written, receipts, open, fit>>

\* expireModuleActionForEmployeePolicy
Expire(p) ==
  /\ pc[p] = "expire"
  /\ rows' = IF rows[cur[p]].status = "pending" \/ Unexecuted(cur[p])
             THEN Ended(cur[p], "expired") ELSE rows
  /\ Rest(p)
  /\ UNCHANGED <<written, receipts, open, fit>>

\* The compare-and-set that makes the row approved.
ClaimApproval(p) ==
  /\ pc[p] = "claim"
  /\ IF rows[cur[p]].status = "pending"
     THEN /\ rows' = [rows EXCEPT ![cur[p]].status = "approved", ![cur[p]].reviewed = TRUE]
          /\ Goto(p, "check")
     ELSE UNCHANGED rows /\ Rest(p)
  /\ UNCHANGED <<written, receipts, open, fit>>

\* Up to the mutation: tool policy (the reviewer's executeAction only) and daily budget.
Check(p) ==
  /\ pc[p] = "check"
  /\ \/ (fit \/ p \in Agents) /\ Goto(p, "mutate")
     \/ Result(p, "fail", "failed")
  /\ UNCHANGED <<rows, written, receipts, open, fit>>

\* terminalizeModuleActionFailure
Terminalize(p) ==
  /\ pc[p] = "fail" /\ p \in Reviewers
  /\ rows' = IF Unexecuted(cur[p]) THEN Executed(cur[p], "failed") ELSE rows
  /\ Goto(p, "stamp")
  /\ UNCHANGED <<written, receipts, open, fit>>

\* persistModuleMutationAction, whose failure is forgotten.
Persist(p) ==
  /\ pc[p] = "persist" /\ p \in Reviewers
  /\ \/ rows[cur[p]].status = "approved" /\ rows' = Executed(cur[p], "ok")
     \/ UNCHANGED rows
  /\ Goto(p, "stamp")
  /\ UNCHANGED <<written, receipts, open, fit>>

\* Fault: the decision of the reviewer stands, whatever became of the row.
StampsAny(i) == TRUE
Stamps(i) == rows[i].status = "approved"

\* The outcome on the row, unless a lifecycle decision has won.
Stamp(p) ==
  /\ pc[p] = "stamp"
  /\ IF Stamps(cur[p])
     THEN rows' = Executed(cur[p], got[p]) /\ Goto(p, "receipt")
     ELSE UNCHANGED rows /\ Rest(p)
  /\ UNCHANGED <<written, receipts, open, fit>>

ApprovalReceipt(p) ==
  /\ pc[p] = "receipt"
  /\ GenerateReceipt(cur[p], "approved", got[p])
  /\ Rest(p)
  /\ UNCHANGED <<rows, written, open, fit>>

-----------------------------------------------------------------------------
(* The employee's call. *)

\* priorEmployeeMutation: the newest row of the key that is neither rejected nor expired.
Prior(i) == rows[i].status \in Live /\ \A j \in Ids : rows[j].status \in Live => j <= i
NoPrior == \A i \in Ids : rows[i].status \notin Live

Insert(status) ==
  /\ NoPrior /\ fit /\ open
  /\ Len(rows) < MaxRows
  /\ rows' = Append(rows, [status |-> status, reviewed |-> FALSE,
                           executed |-> FALSE, outcome |-> "none"])

\* queueModuleMutation. A finished row is answered by Repair, a pending one as it is.
Queue(p) ==
  /\ pc[p] = "idle"
  /\ \/ Insert("pending") /\ UNCHANGED locals
     \/ /\ \E i \in Ids : Prior(i) /\ Unexecuted(i)
        /\ UNCHANGED rows
        /\ Goto(p, "direct")
  /\ UNCHANGED <<written, receipts, open, fit>>

\* executeDirectModuleMutation: the lock of the key, then the same claim. A row the
\* employee's trust allows is approved at once; a retry pays no second budget.
Direct(p) ==
  /\ pc[p] \in {"idle", "direct"}
  /\ \A q \in Agents \ {p} : pc[q] \in {"idle", "direct"}
  /\ \/ /\ Insert("approved")
        /\ pc' = [pc EXCEPT ![p] = "check"]
        /\ cur' = [cur EXCEPT ![p] = Len(rows) + 1]
        /\ UNCHANGED <<resumes, got>>
     \/ /\ pc[p] = "direct"
        /\ Insert("pending")
        /\ Rest(p)
     \/ /\ \E i \in Ids : /\ Prior(i) /\ Unexecuted(i)
                          /\ cur' = [cur EXCEPT ![p] = i]
        /\ pc' = [pc EXCEPT ![p] = "mutate"]
        /\ UNCHANGED <<rows, resumes, got>>
     \/ /\ pc[p] = "direct"
        /\ ~\E i \in Ids : Prior(i) /\ Unexecuted(i)
        /\ UNCHANGED rows
        /\ Rest(p)
  /\ UNCHANGED <<written, receipts, open, fit>>

\* The outcome of the agent's execution, unless the row has one: then the reply
\* is taken from the row (concurrentTerminalActionResult).
Record(p) ==
  /\ pc[p] \in {"persist", "fail"} /\ p \in Agents
  /\ IF Unexecuted(cur[p])
     THEN rows' = Executed(cur[p], got[p])
     ELSE UNCHANGED rows
  /\ Rest(p)
  /\ UNCHANGED <<written, receipts, open, fit>>

-----------------------------------------------------------------------------
Next ==
  \/ CloseModule \/ OpenModule \/ ChangeEmployee
  \/ \E i \in Ids : Lapse(i) \/ Reject(i) \/ Repair(i)
  \/ \E p \in Processes : Check(p) \/ Mutate(p) \/ Crash(p)
  \/ \E p \in Reviewers :
       \/ \E i \in Ids : Approve(p, i)
       \/ Recover(p) \/ CheckPolicy(p) \/ Expire(p) \/ ClaimApproval(p)
       \/ Terminalize(p) \/ Persist(p) \/ Stamp(p) \/ ApprovalReceipt(p)
  \/ \E p \in Agents : Queue(p) \/ Direct(p) \/ Record(p)

Spec == Init /\ [][Next]_vars

-----------------------------------------------------------------------------
(* Properties *)

\* The rows of a key tell the truth about its record: whoever executes, resumes,
\* recovers or reconciles a row, what waits for review or was rejected has written
\* nothing, and what is recorded or signed as done was done.
RowsTellTheTruth ==
  /\ \A i \in Ids : /\ rows[i].status \in {"pending", "rejected"} => written # i
                    /\ rows[i].outcome = "ok" => written # 0
  /\ \A x \in receipts : x.result = "ok" => written # 0

\* The signed receipts of an action agree with each other and with the row: a
\* reviewer, a rejection, an expiry, an administrator and the agent's own trust may
\* all decide at once, and one decision is signed.
OneDecisionIsSigned ==
  \A x \in receipts : x.decision = Decision(rows[x.row])

\* What expirePendingModuleActions says of an approved row that it finds unexecuted,
\* "either its transaction committed a durable mutation receipt, or it did not":
\* an action that was expired, because it had not written, has not written.
ExpiredNeverWrites == \A i \in Ids : rows[i].status = "expired" => written # i
=============================================================================
