-------------------------- MODULE AgentActionProofs --------------------------
(***************************************************************************)
(* Machine-checked proofs about the actions of one idempotency key: their  *)
(* rows tell the truth about the record, and one decision is signed, for   *)
(* every number of reviewers, calls of the agent and rows.                 *)
(***************************************************************************)
EXTENDS AgentAction, TLAPS

RowType == [status : Live \cup {"rejected", "expired"}, reviewed : BOOLEAN,
            executed : BOOLEAN, outcome : {"none", "ok", "failed"}]
Results == {"none", "ok", "failed"}

-----------------------------------------------------------------------------
(* The strengthening. *)

(* A row that has ended keeps its decision: nobody writes its status again.    *)
HasEnded(r) == r.status \in {"rejected", "expired"} \/ (r.status = "approved" /\ r.executed)
Released == {"approved", "expired"}

(* What a process may rely on between its steps: it has a row; one that        *)
(* executes or resumes finds it approved, now or until it was expired; a       *)
(* reviewer who executes finds it reviewed, one who signs finds it ended; and  *)
(* what it calls done was written.                                             *)
Executing == {"check", "mutate", "fail", "persist", "stamp", "receipt"}
HasRow(p) == /\ pc[p] \notin {"idle", "direct"} => cur[p] \in Ids
             /\ p \in resumes => pc[p] \notin {"idle", "direct"}
RowReleased(p) == pc[p] \in Executing \/ p \in resumes => rows[cur[p]].status \in Released
RowReviewed(p) == p \in Reviewers /\ pc[p] \in Executing => rows[cur[p]].reviewed
RowSigned(p) == pc[p] = "receipt" =>
                  /\ p \in Reviewers
                  /\ rows[cur[p]].status = "approved" /\ rows[cur[p]].executed
DoneIsWritten(p) == got[p] = "ok" \/ pc[p] = "persist" => written # 0
Place(p) == HasRow(p) /\ RowReleased(p) /\ RowReviewed(p) /\ RowSigned(p) /\ DoneIsWritten(p)

(* The row that wrote was released first, and only ended rows are signed.      *)
WrittenIsReleased == written # 0 => written \in Ids /\ rows[written].status \in Released
ReceiptsEnd == \A x \in receipts : x.row \in Ids /\ HasEnded(rows[x.row])

ActionInv == /\ TypeOK /\ \A p \in Processes : Place(p)
             /\ WrittenIsReleased /\ ReceiptsEnd
             /\ RowsTellTheTruth /\ OneDecisionIsSigned

-----------------------------------------------------------------------------
(* Rows as functions. *)

(* A sequence is a function on the numbers up to its length. *)
LEMMA SeqIsFunction ==
  ASSUME NEW S, NEW s \in Seq(S)
  PROVE  s \in [1..Len(s) -> S] /\ Len(s) \in Nat
OBVIOUS

(* And the other way round. *)
LEMMA FunctionIsSeq ==
  ASSUME NEW S, NEW n \in Nat, NEW s \in [1..n -> S]
  PROVE  s \in Seq(S) /\ Len(s) = n
OBVIOUS

(* The types of the variables, with the rows as a function. *)
LEMMA Types ==
  ASSUME TypeOK
  PROVE  /\ rows \in [Ids -> RowType] /\ Len(rows) \in Nat /\ Len(rows) <= MaxRows
         /\ rows \in Seq(RowType)
         /\ written \in Nat
         /\ pc \in [Processes -> {"idle", "direct", "recover", "policy", "expire", "claim",
                                  "check", "mutate", "fail", "persist", "stamp", "receipt"}]
         /\ cur \in [Processes -> 0..MaxRows]
         /\ resumes \subseteq Reviewers
         /\ got \in [Processes -> Results]
<1>1. rows \in Seq(RowType)
  BY DEF TypeOK, RowType
<1>2. rows \in [Ids -> RowType] /\ Len(rows) \in Nat
  BY <1>1, SeqIsFunction DEF Ids
<1> QED BY <1>1, <1>2, RowAssumption DEF TypeOK, Results

-----------------------------------------------------------------------------
(* What a step may do to the rows. *)

RowMoves(i) ==
  /\ rows[i].reviewed => rows'[i].reviewed
  /\ HasEnded(rows[i]) => /\ rows'[i].status = rows[i].status
                          /\ rows'[i].reviewed = rows[i].reviewed
                          /\ HasEnded(rows'[i])
  /\ rows[i].status \in Released => rows'[i].status \in Released
  /\ rows'[i].outcome = "ok" => rows[i].outcome = "ok" \/ written # 0

RowsMove ==
  /\ rows' \in Seq(RowType)
  /\ Len(rows) <= Len(rows') /\ Len(rows') <= MaxRows
  /\ \A i \in Ids : RowMoves(i)
  /\ \A i \in Ids' \ Ids : rows'[i].outcome = "none" /\ rows'[i].status \in Live

(* Rows that stay. *)
LEMMA RowsStay ==
  ASSUME TypeOK, rows' = rows
  PROVE  RowsMove
BY Types DEF RowsMove, RowMoves, Ids

(* A step that writes one row, or each of them, without a new one. *)
LEMMA RowsWritten ==
  ASSUME TypeOK, rows' \in [Ids -> RowType], \A i \in Ids : RowMoves(i)
  PROVE  RowsMove
<1>1. Len(rows) \in Nat /\ Len(rows) <= MaxRows
  BY Types
<1>2. rows' \in Seq(RowType) /\ Len(rows') = Len(rows)
  BY <1>1, FunctionIsSeq DEF Ids
<1>3. Ids' = Ids
  BY <1>2 DEF Ids
<1> QED BY <1>1, <1>2, <1>3 DEF RowsMove

(* A new row of the agent's call. *)
LEMMA RowsInserted ==
  ASSUME TypeOK, NEW s \in Live, Insert(s)
  PROVE  /\ RowsMove
         /\ Len(rows') = Len(rows) + 1
         /\ rows'[Len(rows) + 1].status = s
<1> DEFINE r == [status |-> s, reviewed |-> FALSE, executed |-> FALSE, outcome |-> "none"]
<1>1. /\ rows \in Seq(RowType) /\ Len(rows) \in Nat /\ Len(rows) < MaxRows
      /\ rows' = Append(rows, r) /\ MaxRows \in Nat
  BY Types, RowAssumption DEF Insert
<1>2. r \in RowType /\ r.outcome = "none" /\ r.status = s
  BY DEF RowType
<1> HIDE DEF r
<1>3. /\ rows' \in Seq(RowType) /\ Len(rows') = Len(rows) + 1
      /\ \A i \in 1..Len(rows) : rows'[i] = rows[i]
      /\ rows'[Len(rows) + 1] = r
  BY <1>1, <1>2
<1>4. \A i \in Ids : RowMoves(i)
  BY <1>3 DEF RowMoves, Ids
<1>5. Ids' \ Ids = {Len(rows) + 1}
  BY <1>1, <1>3 DEF Ids
<1> QED BY <1>1, <1>2, <1>3, <1>4, <1>5 DEF RowsMove

(* One row is ended while it waits or is approved and not executed. *)
LEMMA RowEnded ==
  ASSUME TypeOK, NEW i \in Ids, NEW s \in {"rejected", "expired"}, NEW e \in BOOLEAN,
         \/ rows[i].status = "pending"
         \/ Unexecuted(i) /\ s = "expired",
         rows' = [rows EXCEPT ![i].status = s, ![i].executed = e]
  PROVE  RowsMove
<1>0. rows \in [Ids -> RowType] /\ rows[i] \in RowType
  BY Types
<1>1. rows' \in [Ids -> RowType]
  BY <1>0 DEF RowType
<1>2. \A j \in Ids \ {i} : rows'[j] = rows[j]
  BY <1>0
<1>3. rows'[i].status = s /\ rows'[i].reviewed = rows[i].reviewed /\ rows'[i].outcome = rows[i].outcome
  BY <1>0 DEF RowType
<1>4. \A j \in Ids \ {i} : RowMoves(j)
  BY <1>2 DEF RowMoves
<1>5. ~HasEnded(rows[i])
  BY DEF HasEnded, Unexecuted
<1>6. rows[i].status \in Released => s \in Released
  BY DEF Released, Unexecuted
<1>7. RowMoves(i)
  BY <1>3, <1>5, <1>6 DEF RowMoves
<1> QED BY <1>1, <1>4, <1>7, RowsWritten

(* The outcome of an approved row is recorded. *)
LEMMA RowExecuted ==
  ASSUME TypeOK, NEW i \in Ids, rows[i].status = "approved", NEW r \in Results,
         r = "ok" => written # 0, rows' = Executed(i, r)
  PROVE  RowsMove /\ rows'[i].status = "approved" /\ rows'[i].executed
<1>0. rows \in [Ids -> RowType] /\ rows[i] \in RowType
  BY Types
<1>1. rows' \in [Ids -> RowType]
  BY <1>0 DEF Executed, RowType, Results
<1>2. \A j \in Ids \ {i} : rows'[j] = rows[j]
  BY <1>0 DEF Executed
<1>3. /\ rows'[i].status = "approved" /\ rows'[i].reviewed = rows[i].reviewed
      /\ rows'[i].outcome = r /\ rows'[i].executed
  BY <1>0 DEF Executed, RowType
<1>4. \A j \in Ids \ {i} : RowMoves(j)
  BY <1>2 DEF RowMoves
<1>5. RowMoves(i)
  BY <1>3 DEF RowMoves, HasEnded, Released
<1> QED BY <1>1, <1>3, <1>4, <1>5, RowsWritten

(* The reviewer's claim. *)
LEMMA RowApproved ==
  ASSUME TypeOK, NEW i \in Ids, rows[i].status = "pending",
         rows' = [rows EXCEPT ![i].status = "approved", ![i].reviewed = TRUE]
  PROVE  RowsMove /\ rows'[i].status = "approved" /\ rows'[i].reviewed
<1>0. rows \in [Ids -> RowType] /\ rows[i] \in RowType
  BY Types
<1>1. rows' \in [Ids -> RowType]
  BY <1>0 DEF RowType, Live
<1>2. \A j \in Ids \ {i} : rows'[j] = rows[j]
  BY <1>0
<1>3. /\ rows'[i].status = "approved" /\ rows'[i].reviewed /\ rows'[i].outcome = rows[i].outcome
  BY <1>0 DEF RowType
<1>4. \A j \in Ids \ {i} : RowMoves(j)
  BY <1>2 DEF RowMoves
<1>5. RowMoves(i)
  BY <1>3 DEF RowMoves, HasEnded, Released
<1> QED BY <1>1, <1>3, <1>4, <1>5, RowsWritten

(* Closing the module: what was written is recorded, the rest is expired. *)
LEMMA RowsClosed ==
  ASSUME TypeOK, CloseModule
  PROVE  RowsMove
<1>0. rows \in [Ids -> RowType] /\ Len(rows) \in Nat
  BY Types
<1>1. ASSUME NEW i \in Ids
      PROVE  rows'[i] \in RowType /\ RowMoves(i)
  <2>0. rows[i] \in RowType /\ i # 0
    BY <1>0 DEF Ids
  <2>1. CASE Unexecuted(i) /\ Committed(i)
    <3>1. rows'[i] = [rows[i] EXCEPT !.executed = TRUE, !.outcome = "ok"]
      BY <2>1 DEF CloseModule
    <3>2. /\ rows'[i] \in RowType
          /\ rows'[i].status = rows[i].status /\ rows'[i].reviewed = rows[i].reviewed
          /\ rows'[i].executed
      BY <2>0, <3>1 DEF RowType
    <3>3. written # 0 /\ rows[i].status = "approved"
      BY <2>0, <2>1 DEF Committed, Unexecuted
    <3> QED BY <3>2, <3>3 DEF RowMoves, HasEnded
  <2>2. CASE ~(Unexecuted(i) /\ Committed(i)) /\ (rows[i].status = "pending" \/ Unexecuted(i))
    <3>1. rows'[i] = [rows[i] EXCEPT !.status = "expired", !.executed = TRUE]
      BY <2>2 DEF CloseModule
    <3>2. /\ rows'[i] \in RowType
          /\ rows'[i].status = "expired" /\ rows'[i].reviewed = rows[i].reviewed
          /\ rows'[i].outcome = rows[i].outcome
      BY <2>0, <3>1 DEF RowType
    <3>3. ~HasEnded(rows[i])
      BY <2>2 DEF HasEnded, Unexecuted
    <3> QED BY <3>2, <3>3 DEF RowMoves, Released
  <2>3. CASE ~(rows[i].status = "pending" \/ Unexecuted(i))
    <3>1. rows'[i] = rows[i]
      BY <2>3 DEF CloseModule
    <3> QED BY <2>0, <3>1 DEF RowMoves
  <2> QED BY <2>1, <2>2, <2>3
<1>2. rows' \in [Ids -> RowType]
  BY <1>1 DEF CloseModule
<1> QED BY <1>1, <1>2, RowsWritten

-----------------------------------------------------------------------------
(* What a step does to the processes. *)

Places == {"idle", "direct", "recover", "policy", "expire", "claim",
           "check", "mutate", "fail", "persist", "stamp", "receipt"}
LocalsOK == /\ pc \in [Processes -> Places] /\ cur \in [Processes -> 0..MaxRows]
            /\ resumes \subseteq Reviewers /\ got \in [Processes -> Results]
Same(q) == /\ pc'[q] = pc[q] /\ cur'[q] = cur[q] /\ got'[q] = got[q]
           /\ q \in resumes' <=> q \in resumes
Moves(p) == LocalsOK' /\ \A q \in Processes \ {p} : Same(q)

(* The three ways in which a process moves on. *)
LEMMA GotoMoves ==
  ASSUME LocalsOK, NEW p \in Processes, NEW s \in Places, Goto(p, s)
  PROVE  /\ Moves(p) /\ pc'[p] = s /\ cur'[p] = cur[p] /\ got'[p] = got[p]
         /\ p \in resumes' <=> p \in resumes
BY DEF LocalsOK, Goto, Moves, Same

(* It has a result. *)
LEMMA ResultMoves ==
  ASSUME LocalsOK, NEW p \in Processes, NEW s \in Places, NEW r \in Results, Result(p, s, r)
  PROVE  /\ Moves(p) /\ pc'[p] = s /\ cur'[p] = cur[p] /\ got'[p] = r
         /\ p \in resumes' <=> p \in resumes
BY DEF LocalsOK, Result, Moves, Same

(* It is done, or dies. *)
LEMMA RestMoves ==
  ASSUME LocalsOK, NEW p \in Processes, Rest(p)
  PROVE  Moves(p) /\ Place(p)'
<1>1. Moves(p) /\ pc'[p] = "idle" /\ got'[p] = "none" /\ p \notin resumes'
  BY RowAssumption DEF LocalsOK, Rest, Moves, Same, Places, Results
<1> QED BY <1>1 DEF Place, HasRow, RowReleased, RowReviewed, RowSigned, DoneIsWritten, Executing

(* Whoever does not move keeps what it relies on, whatever another step does   *)
(* to its row.                                                                 *)
LEMMA BystanderKeeps ==
  ASSUME TypeOK, RowsMove, NEW q \in Processes, Place(q), Same(q), written # 0 => written' # 0
  PROVE  Place(q)'
<1>1. Ids \subseteq Ids' /\ Len(rows) \in Nat
  BY Types, SeqIsFunction DEF RowsMove, Ids
<1>2. HasRow(q)'
  BY <1>1 DEF Place, HasRow, Same
<1>3. ASSUME cur[q] \in Ids
      PROVE  RowMoves(cur[q])
  BY <1>3 DEF RowsMove
<1>4. RowReleased(q)'
  BY <1>3 DEF Place, HasRow, RowReleased, Same, RowMoves, Executing
<1>5. RowReviewed(q)'
  BY <1>3 DEF Place, HasRow, RowReviewed, Same, RowMoves, Executing
<1>6. RowSigned(q)'
  BY <1>3 DEF Place, HasRow, RowSigned, Same, RowMoves, HasEnded
<1>7. DoneIsWritten(q)'
  BY DEF Place, DoneIsWritten, Same
<1> QED BY <1>2, <1>4, <1>5, <1>6, <1>7 DEF Place

(* A process that stays with its row goes to a step that asks for no more than *)
(* it has.                                                                     *)
LEMMA MoverKeeps ==
  ASSUME TypeOK, RowsMove, NEW p \in Processes, Place(p), written # 0 => written' # 0,
         pc[p] \notin {"idle", "direct"}, cur'[p] = cur[p], p \in resumes' <=> p \in resumes,
         pc'[p] \in Places \ {"idle", "direct"},
         pc'[p] \in Executing => pc[p] \in Executing \/ /\ rows'[cur[p]].status \in Released
                                                        /\ rows'[cur[p]].reviewed,
         pc'[p] = "receipt" => /\ p \in Reviewers
                               /\ rows'[cur[p]].status = "approved" /\ rows'[cur[p]].executed,
         got'[p] = "ok" \/ pc'[p] = "persist" => written' # 0
  PROVE  Place(p)'
<1>1. Ids \subseteq Ids' /\ Len(rows) \in Nat
  BY Types, SeqIsFunction DEF RowsMove, Ids
<1>2. cur[p] \in Ids /\ RowMoves(cur[p])
  BY DEF Place, HasRow, RowsMove
<1>3. HasRow(p)'
  BY <1>1, <1>2 DEF HasRow
<1>4. RowReleased(p)'
  BY <1>2 DEF Place, RowReleased, RowMoves
<1>5. RowReviewed(p)'
  BY <1>2 DEF Place, RowReviewed, RowMoves
<1>6. RowSigned(p)'
  BY DEF RowSigned
<1>7. DoneIsWritten(p)'
  BY DEF DoneIsWritten
<1> QED BY <1>3, <1>4, <1>5, <1>6, <1>7 DEF Place

-----------------------------------------------------------------------------
(* What a step does to the record and the receipts. *)

WrittenMoves ==
  \/ written' = written
  \/ written = 0 /\ \E p \in Processes : pc[p] = "mutate" /\ written' = cur[p]
ReceiptsMove ==
  \/ receipts' = receipts
  \/ \E i \in Ids, r \in Results :
       /\ HasEnded(rows[i]) /\ (r = "ok" => written # 0)
       /\ receipts' = receipts \cup {[row |-> i, decision |-> Decision(rows[i]), result |-> r]}
StepKeeps == /\ RowsMove /\ WrittenMoves /\ ReceiptsMove
             /\ LocalsOK' /\ \A q \in Processes : Place(q)'

(* A record, once written, stays. *)
LEMMA WrittenStays ==
  ASSUME WrittenMoves
  PROVE  written # 0 => written' # 0
BY DEF WrittenMoves

(* A step of nobody's. *)
LEMMA EnvironmentKeeps ==
  ASSUME ActionInv, RowsMove, WrittenMoves, ReceiptsMove, UNCHANGED locals
  PROVE  StepKeeps
<1>1. TypeOK /\ LocalsOK /\ \A q \in Processes : Place(q)
  BY Types DEF ActionInv, LocalsOK, Places
<1>2. LocalsOK' /\ \A q \in Processes : Same(q)
  BY <1>1 DEF locals, LocalsOK, Same
<1> QED BY <1>1, <1>2, BystanderKeeps, WrittenStays DEF StepKeeps

(* A step of one process. *)
LEMMA ProcessKeeps ==
  ASSUME ActionInv, RowsMove, WrittenMoves, ReceiptsMove,
         NEW p \in Processes, Moves(p), Place(p)'
  PROVE  StepKeeps
<1>1. TypeOK /\ \A q \in Processes : Place(q)
  BY DEF ActionInv
<1> QED BY <1>1, BystanderKeeps, WrittenStays DEF StepKeeps, Moves

(* The facts every step of a process starts from. *)
LEMMA Facts ==
  ASSUME ActionInv, NEW p \in Processes
  PROVE  /\ TypeOK /\ LocalsOK /\ Place(p) /\ pc[p] \in Places /\ got[p] \in Results
         /\ rows \in [Ids -> RowType] /\ Len(rows) \in Nat
         /\ pc[p] \notin {"idle", "direct"} => cur[p] \in Ids /\ cur[p] # 0
BY Types DEF ActionInv, LocalsOK, Places, Place, HasRow, Ids

(* Module, employee, expiry, rejection and the repair of receipts. *)
LEMMA WorldKeeps ==
  ASSUME ActionInv,
         \/ CloseModule \/ OpenModule \/ ChangeEmployee
         \/ \E i \in Ids : Lapse(i) \/ Reject(i) \/ Repair(i)
  PROVE  StepKeeps
<1>0. TypeOK /\ rows \in [Ids -> RowType]
  BY Types DEF ActionInv
<1>1. CASE CloseModule
  <2>1. WrittenMoves /\ ReceiptsMove /\ UNCHANGED locals
    BY <1>1 DEF CloseModule, WrittenMoves, ReceiptsMove
  <2> QED BY <1>0, <1>1, <2>1, RowsClosed, EnvironmentKeeps
<1>2. CASE OpenModule \/ ChangeEmployee
  <2>1. WrittenMoves /\ ReceiptsMove /\ UNCHANGED locals /\ rows' = rows
    BY <1>2 DEF OpenModule, ChangeEmployee, WrittenMoves, ReceiptsMove
  <2> QED BY <1>0, <2>1, RowsStay, EnvironmentKeeps
<1>3. ASSUME NEW i \in Ids, Lapse(i)
      PROVE  StepKeeps
  <2>1. WrittenMoves /\ ReceiptsMove /\ UNCHANGED locals
    BY <1>3 DEF Lapse, WrittenMoves, ReceiptsMove
  <2>2. PICK e \in BOOLEAN : e = TRUE
    OBVIOUS
  <2>3. rows' = [rows EXCEPT ![i].status = "expired", ![i].executed = e] /\ rows[i].status = "pending"
    BY <1>3, <2>2 DEF Lapse, Ended
  <2>4. RowsMove
    BY <1>0, <2>3, RowEnded
  <2> QED BY <2>1, <2>4, EnvironmentKeeps
<1>4. ASSUME NEW i \in Ids, Reject(i)
      PROVE  StepKeeps
  <2>1. WrittenMoves /\ ReceiptsMove /\ UNCHANGED locals
    BY <1>4 DEF Reject, WrittenMoves, ReceiptsMove
  <2>2. PICK e \in BOOLEAN : e = rows[i].executed
    BY <1>0 DEF RowType
  <2>3. rows' = [rows EXCEPT ![i].status = "rejected", ![i].executed = e] /\ rows[i].status = "pending"
    BY <1>0, <1>4, <2>2 DEF Reject, RowType
  <2>4. RowsMove
    BY <1>0, <2>3, RowEnded
  <2> QED BY <2>1, <2>4, EnvironmentKeeps
<1>5. ASSUME NEW i \in Ids, Repair(i)
      PROVE  StepKeeps
  <2>1. WrittenMoves /\ UNCHANGED locals /\ rows' = rows
    BY <1>5 DEF Repair, WrittenMoves
  <2>2. HasEnded(rows[i]) /\ GenerateReceipt(i, Decision(rows[i]), rows[i].outcome)
    BY <1>5 DEF Repair, HasEnded
  <2>3. rows[i].outcome \in Results /\ (rows[i].outcome = "ok" => written # 0)
    BY <1>0 DEF RowType, Results, ActionInv, RowsTellTheTruth
  <2>4. ReceiptsMove
    BY <2>2, <2>3 DEF ReceiptsMove, GenerateReceipt
  <2> QED BY <1>0, <2>1, <2>4, RowsStay, EnvironmentKeeps
<1> QED BY <1>1, <1>2, <1>3, <1>4, <1>5

(* The execution of a row, by either party, and the death of a process. *)
LEMMA ExecutionKeeps ==
  ASSUME ActionInv, NEW p \in Processes, Check(p) \/ Mutate(p) \/ Crash(p)
  PROVE  StepKeeps
<1>0. /\ TypeOK /\ LocalsOK /\ Place(p) /\ pc[p] \in Places
      /\ pc[p] \notin {"idle", "direct"} => cur[p] \in Ids /\ cur[p] # 0
      /\ got[p] = "ok" => written # 0
  BY Facts DEF Place, DoneIsWritten
<1>1. rows' = rows /\ ReceiptsMove /\ RowsMove
  BY <1>0, RowsStay DEF Check, Mutate, Crash, ReceiptsMove
<1> USE DEF Places, Results, Executing
<1>2. CASE Crash(p)
  <2>1. Rest(p) /\ WrittenMoves
    BY <1>2 DEF Crash, WrittenMoves
  <2> QED BY <1>0, <1>1, <2>1, RestMoves, ProcessKeeps
<1>3. CASE Check(p)
  <2>1. pc[p] = "check" /\ WrittenMoves /\ written' = written
    BY <1>3 DEF Check, WrittenMoves
  <2>2. /\ Moves(p) /\ pc'[p] \in {"mutate", "fail"} /\ cur'[p] = cur[p]
        /\ got'[p] \in {got[p], "failed"}
        /\ p \in resumes' <=> p \in resumes
    BY <1>0, <1>3, GotoMoves, ResultMoves DEF Check
  <2>3. Place(p)'
    BY <1>0, <1>1, <2>1, <2>2, MoverKeeps
  <2> QED BY <1>1, <2>1, <2>2, <2>3, ProcessKeeps
<1>4. CASE Mutate(p)
  <2>1. pc[p] = "mutate" /\ WrittenMoves
    BY <1>4 DEF Mutate, WrittenMoves
  <2>2. /\ Moves(p) /\ cur'[p] = cur[p]
        /\ p \in resumes' <=> p \in resumes
        /\ \/ pc'[p] = "persist" /\ got'[p] = "ok" /\ written' # 0
           \/ pc'[p] = "fail" /\ got'[p] = "failed"
    BY <1>0, <1>4, <2>1, ResultMoves DEF Mutate
  <2>3. Place(p)'
    BY <1>0, <1>1, <2>1, <2>2, MoverKeeps, WrittenStays
  <2> QED BY <1>1, <2>1, <2>2, <2>3, ProcessKeeps
<1> QED BY <1>2, <1>3, <1>4

(* The reviewer, up to the claim. *)
LEMMA ReviewKeeps ==
  ASSUME ActionInv, NEW p \in Reviewers,
         \/ \E i \in Ids : Approve(p, i)
         \/ Recover(p) \/ CheckPolicy(p) \/ Expire(p) \/ ClaimApproval(p)
  PROVE  StepKeeps
<1>0. /\ p \in Processes
      /\ TypeOK /\ LocalsOK /\ Place(p) /\ pc[p] \in Places
      /\ rows \in [Ids -> RowType]
      /\ pc[p] \notin {"idle", "direct"} => cur[p] \in Ids /\ cur[p] # 0
      /\ got[p] = "ok" => written # 0
  BY Facts DEF Place, DoneIsWritten, Processes
<1>1. ReceiptsMove /\ WrittenMoves /\ written' = written
  BY DEF Approve, Recover, CheckPolicy, Expire, ClaimApproval, ReceiptsMove, WrittenMoves
<1> USE DEF Places, Results, Executing
<1>2. ASSUME NEW i \in Ids, Approve(p, i)
      PROVE  StepKeeps
  <2>1. rows' = rows /\ RowsMove
    BY <1>0, <1>2, RowsStay DEF Approve
  <2>2. i \in 1..MaxRows
    BY <1>0, Types, RowAssumption DEF Ids
  <2>3. /\ Moves(p) /\ cur'[p] = i /\ got'[p] = got[p]
        /\ pc'[p] \in {"recover", "policy"}
        /\ p \in resumes' => p \in resumes \/ Unexecuted(i)
    BY <1>0, <1>2, <2>2 DEF Approve, Moves, Same, LocalsOK
  <2>4. p \notin resumes
    BY <1>0, <1>2 DEF Approve, Place, HasRow
  <2>5. i \in Ids'
    BY <2>1 DEF Ids
  <2>6. Place(p)'
    BY <1>0, <1>1, <2>1, <2>3, <2>4, <2>5
       DEF Place, HasRow, RowReleased, RowReviewed, RowSigned, DoneIsWritten, Unexecuted, Released
  <2> QED BY <1>0, <1>1, <2>1, <2>3, <2>6, ProcessKeeps
<1>3. CASE Recover(p)
  <2>1. CASE rows' = Executed(cur[p], "ok") /\ Rest(p) /\ Committed(cur[p]) /\ Unexecuted(cur[p])
    <3>1. RowsMove
      BY <1>0, <1>3, <2>1, RowExecuted DEF Committed, Unexecuted, Recover
    <3> QED BY <1>0, <1>1, <2>1, <3>1, RestMoves, ProcessKeeps
  <2>2. CASE rows' = rows /\ Goto(p, "policy")
    <3>1. pc[p] = "recover" /\ RowsMove
      BY <1>0, <1>3, <2>2, RowsStay DEF Recover
    <3>2. /\ Moves(p) /\ pc'[p] = "policy" /\ cur'[p] = cur[p] /\ got'[p] = got[p]
          /\ p \in resumes' <=> p \in resumes
      BY <1>0, <2>2, GotoMoves
    <3>3. Place(p)'
      BY <1>0, <1>1, <3>1, <3>2, MoverKeeps
    <3> QED BY <1>0, <1>1, <3>1, <3>2, <3>3, ProcessKeeps
  <2> QED BY <1>3, <2>1, <2>2 DEF Recover
<1>4. CASE CheckPolicy(p)
  <2>1. rows' = rows /\ RowsMove /\ pc[p] = "policy"
    BY <1>0, <1>4, RowsStay DEF CheckPolicy
  <2>2. PICK s \in {"expire", "check", "claim"} :
          /\ Goto(p, s)
          /\ s = "check" => p \in resumes /\ Parses(p)
    BY <1>4 DEF CheckPolicy
  <2>3. /\ Moves(p) /\ pc'[p] = s /\ cur'[p] = cur[p] /\ got'[p] = got[p]
        /\ p \in resumes' <=> p \in resumes
    BY <1>0, <2>2, GotoMoves
  <2>4. s = "check" => rows'[cur[p]].reviewed /\ rows'[cur[p]].status \in Released
    BY <1>0, <2>1, <2>2 DEF Parses, Place, RowReleased
  <2>5. Place(p)'
    BY <1>0, <1>1, <2>1, <2>3, <2>4, MoverKeeps
  <2> QED BY <1>0, <1>1, <2>1, <2>3, <2>5, ProcessKeeps
<1>5. CASE Expire(p)
  <2>1. RowsMove
    <3>1. CASE rows' = rows
      BY <1>0, <3>1, RowsStay
    <3>2. CASE rows' # rows
      <4>1. PICK e \in BOOLEAN : e = TRUE
        OBVIOUS
      <4>2. /\ rows' = [rows EXCEPT ![cur[p]].status = "expired", ![cur[p]].executed = e]
            /\ rows[cur[p]].status = "pending" \/ Unexecuted(cur[p])
            /\ cur[p] \in Ids
        BY <1>0, <1>5, <3>2, <4>1 DEF Expire, Ended
      <4> QED BY <1>0, <4>2, RowEnded
    <3> QED BY <3>1, <3>2
  <2>2. Rest(p)
    BY <1>5 DEF Expire
  <2> QED BY <1>0, <1>1, <2>1, <2>2, RestMoves, ProcessKeeps
<1>6. CASE ClaimApproval(p)
  <2>0. pc[p] = "claim" /\ cur[p] \in Ids
    BY <1>0, <1>6 DEF ClaimApproval
  <2>1. CASE rows' = rows /\ Rest(p)
    BY <1>0, <1>1, <2>1, RowsStay, RestMoves, ProcessKeeps
  <2>2. CASE rows' # rows \/ ~Rest(p)
    <3>1. /\ rows[cur[p]].status = "pending"
          /\ rows' = [rows EXCEPT ![cur[p]].status = "approved", ![cur[p]].reviewed = TRUE]
          /\ Goto(p, "check")
      BY <1>6, <2>2 DEF ClaimApproval
    <3>2. RowsMove /\ rows'[cur[p]].status = "approved" /\ rows'[cur[p]].reviewed
      BY <1>0, <2>0, <3>1, RowApproved
    <3>3. /\ Moves(p) /\ pc'[p] = "check" /\ cur'[p] = cur[p] /\ got'[p] = got[p]
          /\ p \in resumes' <=> p \in resumes
      BY <1>0, <3>1, GotoMoves
    <3>4. Place(p)'
      BY <1>0, <1>1, <2>0, <3>2, <3>3, MoverKeeps DEF Released
    <3> QED BY <1>0, <1>1, <3>2, <3>3, <3>4, ProcessKeeps
  <2> QED BY <2>1, <2>2
<1> QED BY <1>2, <1>3, <1>4, <1>5, <1>6

(* The reviewer, after the mutation. *)
LEMMA OutcomeKeeps ==
  ASSUME ActionInv, NEW p \in Reviewers,
         Terminalize(p) \/ Persist(p) \/ Stamp(p) \/ ApprovalReceipt(p)
  PROVE  StepKeeps
<1>0. /\ p \in Processes
      /\ TypeOK /\ LocalsOK /\ Place(p) /\ pc[p] \in Places /\ got[p] \in Results
      /\ pc[p] \notin {"idle", "direct"} => cur[p] \in Ids /\ cur[p] # 0
      /\ got[p] = "ok" \/ pc[p] = "persist" => written # 0
  BY Facts DEF Place, DoneIsWritten, Processes
<1>1. WrittenMoves /\ written' = written
  BY DEF Terminalize, Persist, Stamp, ApprovalReceipt, WrittenMoves
<1> USE DEF Places, Executing
<1>2. CASE Terminalize(p) \/ Persist(p)
  <2>1. /\ pc[p] \in Executing /\ cur[p] \in Ids /\ ReceiptsMove /\ Goto(p, "stamp")
        /\ \/ rows' = rows
           \/ /\ rows[cur[p]].status = "approved"
              /\ \E r \in Results : rows' = Executed(cur[p], r) /\ (r = "ok" => written # 0)
    BY <1>0, <1>2 DEF Terminalize, Persist, ReceiptsMove, Unexecuted, Results
  <2>2. RowsMove
    BY <1>0, <2>1, RowsStay, RowExecuted
  <2>3. /\ Moves(p) /\ pc'[p] = "stamp" /\ cur'[p] = cur[p] /\ got'[p] = got[p]
        /\ p \in resumes' <=> p \in resumes
    BY <1>0, <2>1, GotoMoves
  <2>4. Place(p)'
    BY <1>0, <1>1, <2>1, <2>2, <2>3, MoverKeeps
  <2> QED BY <1>0, <1>1, <2>1, <2>2, <2>3, <2>4, ProcessKeeps
<1>3. CASE Stamp(p)
  <2>0. ReceiptsMove /\ pc[p] = "stamp" /\ cur[p] \in Ids
    BY <1>0, <1>3 DEF Stamp, ReceiptsMove
  <2>1. CASE rows' = rows /\ Rest(p)
    BY <1>0, <1>1, <2>0, <2>1, RowsStay, RestMoves, ProcessKeeps
  <2>2. CASE rows[cur[p]].status = "approved" /\ rows' = Executed(cur[p], got[p]) /\ Goto(p, "receipt")
    <3>1. RowsMove /\ rows'[cur[p]].status = "approved" /\ rows'[cur[p]].executed
      BY <1>0, <2>0, <2>2, RowExecuted
    <3>2. /\ Moves(p) /\ pc'[p] = "receipt" /\ cur'[p] = cur[p] /\ got'[p] = got[p]
          /\ p \in resumes' <=> p \in resumes
      BY <1>0, <2>2, GotoMoves
    <3>3. Place(p)'
      BY <1>0, <1>1, <2>0, <3>1, <3>2, MoverKeeps
    <3> QED BY <1>0, <1>1, <2>0, <3>1, <3>2, <3>3, ProcessKeeps
  <2> QED BY <1>3, <2>1, <2>2 DEF Stamp, Stamps
<1>4. CASE ApprovalReceipt(p)
  <2>1. pc[p] = "receipt" /\ cur[p] \in Ids /\ rows' = rows /\ Rest(p)
    BY <1>0, <1>4 DEF ApprovalReceipt
  <2>2. HasEnded(rows[cur[p]]) /\ Decision(rows[cur[p]]) = "approved"
    BY <1>0, <2>1 DEF Place, RowSigned, RowReviewed, HasEnded, Decision
  <2>3. GenerateReceipt(cur[p], "approved", got[p])
    BY <1>4 DEF ApprovalReceipt
  <2>4. ReceiptsMove
    BY <1>0, <2>1, <2>2, <2>3 DEF ReceiptsMove, GenerateReceipt
  <2> QED BY <1>0, <1>1, <2>1, <2>4, RowsStay, RestMoves, ProcessKeeps
<1> QED BY <1>2, <1>3, <1>4

(* The employee's own call. *)
LEMMA AgentKeeps ==
  ASSUME ActionInv, NEW p \in Agents, Queue(p) \/ Direct(p) \/ Record(p)
  PROVE  StepKeeps
<1>0. /\ p \in Processes /\ p \notin Reviewers
      /\ TypeOK /\ LocalsOK /\ Place(p) /\ pc[p] \in Places /\ got[p] \in Results
      /\ pc[p] \notin {"idle", "direct"} => cur[p] \in Ids /\ cur[p] # 0
      /\ got[p] = "ok" => written # 0
      /\ resumes \subseteq Reviewers
  BY Facts, ProcessAssumption DEF Place, DoneIsWritten, Processes, LocalsOK
<1>1. WrittenMoves /\ written' = written /\ ReceiptsMove
  BY DEF Queue, Direct, Record, WrittenMoves, ReceiptsMove
<1>2. "pending" \in Live /\ "approved" \in Live
  BY DEF Live
<1> USE DEF Places, Executing
<1>3. ASSUME NEW i \in Ids', RowsMove, Moves(p), pc'[p] \in {"check", "mutate"}, cur'[p] = i,
             rows'[i].status \in Released, got'[p] = got[p], resumes' = resumes
      PROVE  StepKeeps
  <2>1. Place(p)'
    BY <1>0, <1>1, <1>3 DEF Place, HasRow, RowReleased, RowReviewed, RowSigned, DoneIsWritten
  <2> QED BY <1>0, <1>1, <1>3, <2>1, ProcessKeeps
<1>4. CASE Queue(p)
  <2>1. CASE Insert("pending") /\ UNCHANGED locals
    BY <1>0, <1>1, <1>2, <2>1, RowsInserted, EnvironmentKeeps
  <2>2. CASE pc[p] = "idle" /\ rows' = rows /\ Goto(p, "direct")
    <3>1. /\ Moves(p) /\ pc'[p] = "direct" /\ cur'[p] = cur[p] /\ got'[p] = got[p]
          /\ p \in resumes' <=> p \in resumes
      BY <1>0, <2>2, GotoMoves
    <3>2. Place(p)'
      BY <1>0, <1>1, <3>1 DEF Place, HasRow, RowReleased, RowReviewed, RowSigned, DoneIsWritten
    <3> QED BY <1>0, <1>1, <2>2, <3>1, <3>2, RowsStay, ProcessKeeps
  <2> QED BY <1>4, <2>1, <2>2 DEF Queue
<1>5. CASE Direct(p)
  <2>1. CASE /\ Insert("approved")
             /\ pc' = [pc EXCEPT ![p] = "check"]
             /\ cur' = [cur EXCEPT ![p] = Len(rows) + 1]
             /\ UNCHANGED <<resumes, got>>
    <3>1. RowsMove /\ Len(rows') = Len(rows) + 1 /\ rows'[Len(rows) + 1].status = "approved"
      BY <1>0, <1>2, <2>1, RowsInserted
    <3>2. Len(rows) + 1 \in 1..MaxRows /\ Len(rows) + 1 \in Ids'
      BY <1>0, <3>1, Types, RowAssumption DEF RowsMove, Ids
    <3>3. /\ Moves(p) /\ pc'[p] = "check" /\ cur'[p] = Len(rows) + 1 /\ got'[p] = got[p]
      BY <1>0, <2>1, <3>2 DEF Moves, Same, LocalsOK
    <3> QED BY <1>3, <2>1, <3>1, <3>2, <3>3 DEF Released
  <2>2. CASE Insert("pending") /\ Rest(p)
    BY <1>0, <1>1, <1>2, <2>2, RowsInserted, RestMoves, ProcessKeeps
  <2>3. CASE /\ \E i \in Ids : Prior(i) /\ Unexecuted(i) /\ cur' = [cur EXCEPT ![p] = i]
             /\ pc' = [pc EXCEPT ![p] = "mutate"]
             /\ UNCHANGED <<rows, resumes, got>>
    <3>1. PICK i \in Ids : Unexecuted(i) /\ cur' = [cur EXCEPT ![p] = i]
      BY <2>3
    <3>2. i \in 1..MaxRows /\ i \in Ids' /\ RowsMove
      BY <1>0, <2>3, Types, RowAssumption, RowsStay DEF Ids
    <3>3. /\ Moves(p) /\ pc'[p] = "mutate" /\ cur'[p] = i /\ got'[p] = got[p]
      BY <1>0, <2>3, <3>1, <3>2 DEF Moves, Same, LocalsOK
    <3> QED BY <1>3, <2>3, <3>1, <3>2, <3>3 DEF Unexecuted, Released
  <2>4. CASE rows' = rows /\ Rest(p)
    BY <1>0, <1>1, <2>4, RowsStay, RestMoves, ProcessKeeps
  <2> QED BY <1>5, <2>1, <2>2, <2>3, <2>4 DEF Direct
<1>6. CASE Record(p)
  <2>1. cur[p] \in Ids /\ Rest(p)
    BY <1>0, <1>6 DEF Record
  <2>2. RowsMove
    BY <1>0, <1>6, <2>1, RowsStay, RowExecuted DEF Record, Unexecuted
  <2> QED BY <1>0, <1>1, <2>1, <2>2, RestMoves, ProcessKeeps
<1> QED BY <1>4, <1>5, <1>6

-----------------------------------------------------------------------------
(* The invariant. *)

(* Every step is one of the above. *)
LEMMA NextKeeps ==
  ASSUME ActionInv, Next
  PROVE  StepKeeps /\ open' \in BOOLEAN /\ fit' \in BOOLEAN
<1>1. open' \in BOOLEAN /\ fit' \in BOOLEAN
  <2>1. open \in BOOLEAN /\ fit \in BOOLEAN
    BY DEF ActionInv, TypeOK
  <2>2. open' \in {open, TRUE, FALSE} /\ fit' \in {fit, ~fit}
    BY DEF Next, CloseModule, OpenModule, ChangeEmployee, Lapse, Reject, Repair, Check, Mutate, Crash,
       Approve, Recover, CheckPolicy, Expire, ClaimApproval, Terminalize, Persist, Stamp,
       ApprovalReceipt, Queue, Direct, Record
  <2> QED BY <2>1, <2>2
<1> QED BY <1>1, WorldKeeps, ExecutionKeeps, ReviewKeeps, OutcomeKeeps, AgentKeeps DEF Next

(* What a step does keeps every part of the invariant. *)
LEMMA InvariantKept ==
  ASSUME ActionInv, StepKeeps, open' \in BOOLEAN, fit' \in BOOLEAN
  PROVE  ActionInv'
<1>0. /\ TypeOK /\ rows \in [Ids -> RowType] /\ Len(rows) \in Nat /\ written \in Nat
      /\ Len(rows) <= MaxRows /\ MaxRows \in Nat
      /\ \A p \in Processes : Place(p)
  BY Types, RowAssumption DEF ActionInv
<1>1. /\ RowsMove /\ WrittenMoves /\ ReceiptsMove /\ LocalsOK'
      /\ \A p \in Processes : Place(p)'
  BY DEF StepKeeps
<1>2. /\ rows' \in [Ids' -> RowType] /\ Len(rows') \in Nat /\ Len(rows') <= MaxRows
      /\ Ids \subseteq Ids'
  BY <1>0, <1>1, SeqIsFunction DEF RowsMove, Ids
<1>3. written # 0 => written' # 0
  BY <1>1, WrittenStays
<1>4. \A i \in Ids : RowMoves(i)
  BY <1>1 DEF RowsMove
<1>5. WrittenIsReleased'
  <2>1. CASE written' = written
    BY <1>2, <1>4, <2>1 DEF ActionInv, WrittenIsReleased, RowMoves
  <2>2. ASSUME NEW p \in Processes, pc[p] = "mutate", written' = cur[p]
        PROVE  WrittenIsReleased'
    <3>1. cur[p] \in Ids /\ rows[cur[p]].status \in Released
      BY <1>0, <2>2 DEF Place, HasRow, RowReleased, Executing
    <3> QED BY <1>2, <1>4, <2>2, <3>1 DEF WrittenIsReleased, RowMoves
  <2> QED BY <1>1, <2>1, <2>2 DEF WrittenMoves
<1>6. ASSUME NEW x \in receipts'
      PROVE  /\ x \in [row : 1..MaxRows, result : Results,
                       decision : {"approved", "auto_executed", "rejected", "expired"}]
             /\ x.row \in Ids' /\ HasEnded(rows'[x.row])
             /\ x.decision = Decision(rows'[x.row])
             /\ x.result = "ok" => written' # 0
  <2>1. CASE x \in receipts
    <3>1. /\ x \in [row : 1..MaxRows, result : Results,
                    decision : {"approved", "auto_executed", "rejected", "expired"}]
          /\ x.row \in Ids /\ HasEnded(rows[x.row])
          /\ x.decision = Decision(rows[x.row])
          /\ x.result = "ok" => written # 0
      BY <2>1 DEF ActionInv, TypeOK, ReceiptsEnd, OneDecisionIsSigned, RowsTellTheTruth, Results
    <3>2. RowMoves(x.row)
      BY <1>4, <3>1
    <3> QED BY <1>2, <1>3, <3>1, <3>2 DEF RowMoves, Decision
  <2>2. ASSUME NEW i \in Ids, NEW r \in Results, HasEnded(rows[i]), r = "ok" => written # 0,
               x = [row |-> i, decision |-> Decision(rows[i]), result |-> r]
        PROVE  /\ x \in [row : 1..MaxRows, result : Results,
                         decision : {"approved", "auto_executed", "rejected", "expired"}]
               /\ x.row \in Ids' /\ HasEnded(rows'[x.row])
               /\ x.decision = Decision(rows'[x.row])
               /\ x.result = "ok" => written' # 0
    <3>1. x.row = i /\ x.decision = Decision(rows[i]) /\ x.result = r
      BY <2>2
    <3>2. Decision(rows[i]) \in {"approved", "auto_executed", "rejected", "expired"}
      BY <1>0, <2>2 DEF Decision, HasEnded, RowType, Live
    <3>3. i \in 1..MaxRows
      BY <1>0 DEF Ids
    <3>4. RowMoves(i)
      BY <1>4
    <3>5. HasEnded(rows'[i]) /\ Decision(rows'[i]) = Decision(rows[i])
      BY <2>2, <3>4 DEF RowMoves, Decision
    <3> QED BY <1>2, <1>3, <2>2, <3>1, <3>2, <3>3, <3>5
  <2> QED BY <1>1, <2>1, <2>2 DEF ReceiptsMove
<1>7. ASSUME NEW i \in Ids'
      PROVE  /\ rows'[i].status \in {"pending", "rejected"} => written' # i
             /\ rows'[i].outcome = "ok" => written' # 0
  <2>1. i # 0
    BY <1>2 DEF Ids
  <2>2. rows'[i].status \in {"pending", "rejected"} => written' # i
    BY <1>5, <2>1 DEF WrittenIsReleased, Released
  <2>3. rows'[i].outcome = "ok" => written' # 0
    <3>1. CASE i \in Ids
      BY <1>3, <1>4, <3>1 DEF RowMoves, ActionInv, RowsTellTheTruth
    <3>2. CASE i \notin Ids
      BY <1>1, <3>2 DEF RowsMove
    <3> QED BY <3>1, <3>2
  <2> QED BY <2>2, <2>3
<1>8. RowsTellTheTruth'
  BY <1>6, <1>7 DEF RowsTellTheTruth
<1>9. OneDecisionIsSigned' /\ ReceiptsEnd'
  BY <1>6 DEF OneDecisionIsSigned, ReceiptsEnd
<1>10. TypeOK'
  <2>1. written' \in 0..MaxRows
    BY <1>0, <1>2, <1>5 DEF WrittenIsReleased, Ids
  <2>2. rows' \in Seq(RowType)
    BY <1>1 DEF RowsMove
  <2>3. receipts' \subseteq [row : 1..MaxRows, result : Results,
                             decision : {"approved", "auto_executed", "rejected", "expired"}]
    BY <1>6
  <2> QED BY <1>1, <1>2, <2>1, <2>2, <2>3 DEF TypeOK, LocalsOK, RowType, Places, Results
<1> QED BY <1>1, <1>5, <1>8, <1>9, <1>10 DEF ActionInv

(* The actions of a key satisfy their inductive invariant. *)
THEOREM ActionInvariance == Spec => []ActionInv
<1>1. Init => ActionInv
  <2> SUFFICES ASSUME Init PROVE ActionInv
    OBVIOUS
  <2>1. Ids = {}
    BY DEF Init, Ids
  <2>2. TypeOK
    BY RowAssumption DEF Init, TypeOK
  <2>3. \A p \in Processes : Place(p)
    BY DEF Init, Place, HasRow, RowReleased, RowReviewed, RowSigned, DoneIsWritten, Executing
  <2>4. WrittenIsReleased /\ ReceiptsEnd /\ OneDecisionIsSigned
    BY DEF Init, WrittenIsReleased, ReceiptsEnd, OneDecisionIsSigned
  <2>5. RowsTellTheTruth
    BY <2>1 DEF Init, RowsTellTheTruth
  <2> QED BY <2>2, <2>3, <2>4, <2>5 DEF ActionInv
<1>2. ActionInv /\ [Next]_vars => ActionInv'
  <2>1. ASSUME ActionInv, Next PROVE ActionInv'
    BY <2>1, NextKeeps, InvariantKept
  <2>2. ASSUME ActionInv, UNCHANGED vars PROVE ActionInv'
    <3>1. /\ rows' = rows /\ written' = written /\ receipts' = receipts /\ UNCHANGED locals
          /\ open' = open /\ fit' = fit
      BY <2>2 DEF vars
    <3>2. TypeOK /\ open \in BOOLEAN /\ fit \in BOOLEAN
      BY <2>2 DEF ActionInv, TypeOK
    <3>3. RowsMove /\ WrittenMoves /\ ReceiptsMove
      BY <3>1, <3>2, RowsStay DEF WrittenMoves, ReceiptsMove
    <3> QED BY <2>2, <3>1, <3>2, <3>3, EnvironmentKeeps, InvariantKept
  <2> QED BY <2>1, <2>2
<1> QED BY <1>1, <1>2, PTL DEF Spec

-----------------------------------------------------------------------------
(* What follows. *)

(* The rows, receipts and processes of a key are well typed. *)
THEOREM TypeCorrect == Spec => []TypeOK
<1>1. ActionInv => TypeOK
  BY DEF ActionInv
<1> QED BY <1>1, ActionInvariance, PTL

(* Whoever executes, resumes, recovers or reconciles an action, what waits for *)
(* review or was rejected has written nothing, and what is recorded or signed  *)
(* as done was done (approveActionLocked, executeDirectModuleMutation,         *)
(* updateModuleInstallation).                                                  *)
THEOREM Truthful == Spec => []RowsTellTheTruth
<1>1. ActionInv => RowsTellTheTruth
  BY DEF ActionInv
<1> QED BY <1>1, ActionInvariance, PTL

(* The signed receipts of an action agree with its row and with each other,    *)
(* whoever decides at once (generateReceipt and the compare-and-set updates of *)
(* approve, reject, expire and close).                                         *)
THEOREM OneDecision == Spec => []OneDecisionIsSigned
<1>1. ActionInv => OneDecisionIsSigned
  BY DEF ActionInv
<1> QED BY <1>1, ActionInvariance, PTL

(* A decision is final: no step changes the decision of a row that was         *)
(* rejected, has expired or was executed, not even one that records an outcome *)
(* late (persistModuleMutationAction, terminalizeModuleActionFailure).         *)
THEOREM DecisionIsFinal ==
  Spec => [][\A i \in Ids : HasEnded(rows[i]) =>
               HasEnded(rows'[i]) /\ Decision(rows'[i]) = Decision(rows[i])]_vars
<1> DEFINE A == \A i \in Ids : HasEnded(rows[i]) =>
                  HasEnded(rows'[i]) /\ Decision(rows'[i]) = Decision(rows[i])
<1>1. ActionInv /\ [Next]_vars => [A]_vars
  <2> SUFFICES ASSUME ActionInv, Next PROVE A
    OBVIOUS
  <2>1. \A i \in Ids : RowMoves(i)
    BY NextKeeps DEF StepKeeps, RowsMove
  <2> QED BY <2>1 DEF RowMoves, Decision
<1> QED BY <1>1, ActionInvariance, PTL DEF Spec

-----------------------------------------------------------------------------
(* Where an expired action may still write. *)

(* A process that will execute its row without another look at its state: past *)
(* the claim, or resuming an approval that it found before.                    *)
OnTheWay(p, i) == /\ cur[p] = i
                  /\ \/ pc[p] \in {"check", "mutate"}
                     \/ p \in resumes /\ pc[p] \in {"recover", "policy"}
Silent(i) == /\ rows[i].status \in {"rejected", "expired"}
             /\ written # i
             /\ \A p \in Processes : ~OnTheWay(p, i)

(* Who is on the way after a process has moved on was so before, or is the one *)
(* that moved, at its new step.                                                *)
LEMMA WayGoto ==
  ASSUME LocalsOK, NEW p \in Processes, NEW s \in Places, Goto(p, s),
         NEW q \in Processes, NEW i, OnTheWay(q, i)'
  PROVE  \/ OnTheWay(q, i)
         \/ /\ q = p /\ cur[p] = i
            /\ s \in {"check", "mutate"} \/ (p \in resumes /\ s \in {"recover", "policy"})
<1>1. Moves(p) /\ pc'[p] = s /\ cur'[p] = cur[p] /\ (p \in resumes' <=> p \in resumes)
  BY GotoMoves
<1> QED BY <1>1 DEF Moves, Same, OnTheWay

(* Nobody gets on the way by having a result or by ending. *)
LEMMA WayEnds ==
  ASSUME LocalsOK, NEW p \in Processes, NEW q \in Processes, NEW i, OnTheWay(q, i)',
         \/ Rest(p) \/ Result(p, "fail", "failed") \/ Result(p, "persist", "ok")
  PROVE  OnTheWay(q, i)
<1>1. pc'[p] \in {"idle", "fail", "persist"} /\ Moves(p)
  <2>1. CASE Rest(p)
    BY <2>1, RestMoves DEF Rest, LocalsOK
  <2>2. CASE Result(p, "fail", "failed") \/ Result(p, "persist", "ok")
    BY <2>2, ResultMoves DEF Places, Results
  <2> QED BY <2>1, <2>2
<1> QED BY <1>1 DEF Moves, Same, OnTheWay

(* A process gets on the way to a row only while the row is live.              *)
LEMMA WayBegins ==
  ASSUME ActionInv, Next, NEW q \in Processes, NEW i \in Ids, OnTheWay(q, i)'
  PROVE  OnTheWay(q, i) \/ rows'[i].status \in Live
<1>0. LocalsOK /\ rows \in [Ids -> RowType]
  BY Types DEF ActionInv, LocalsOK, Places
<1>1. CASE UNCHANGED locals
  BY <1>1 DEF locals, OnTheWay
<1>2. ASSUME NEW p \in Processes, Check(p) \/ Mutate(p) \/ Crash(p)
      PROVE  OnTheWay(q, i)
  <2>1. CASE Check(p)
    BY <1>0, <2>1, WayGoto, WayEnds DEF Check, OnTheWay, Places
  <2>2. CASE Mutate(p) \/ Crash(p)
    BY <1>0, <2>2, WayEnds DEF Mutate, Crash
  <2> QED BY <1>2, <2>1, <2>2
<1>3. ASSUME NEW p \in Reviewers, NEW j \in Ids, Approve(p, j)
      PROVE  OnTheWay(q, i) \/ rows'[i].status \in Live
  <2>0. p \in Processes /\ p \notin resumes
    BY <1>3 DEF Processes, ActionInv, Place, HasRow, Approve
  <2>1. CASE q # p
    BY <1>0, <1>3, <2>0, <2>1 DEF Approve, OnTheWay, LocalsOK
  <2>2. CASE q = p
    <3>1. cur'[p] = j /\ pc'[p] \in {"recover", "policy"} /\ rows' = rows
      BY <1>0, <1>3, <2>0 DEF Approve, LocalsOK
    <3>2. i = j /\ p \in resumes'
      BY <2>2, <3>1 DEF OnTheWay
    <3>3. Unexecuted(j)
      BY <1>3, <2>0, <3>2 DEF Approve
    <3> QED BY <3>1, <3>2, <3>3 DEF Unexecuted, Live
  <2> QED BY <2>1, <2>2
<1>4. ASSUME NEW p \in Reviewers, Recover(p) \/ CheckPolicy(p) \/ Expire(p) \/ ClaimApproval(p)
      PROVE  OnTheWay(q, i) \/ rows'[i].status \in Live
  <2>0. p \in Processes
    BY DEF Processes
  <2>1. CASE Recover(p)
    BY <1>0, <2>0, <2>1, WayGoto, WayEnds DEF Recover, OnTheWay, Places
  <2>2. CASE CheckPolicy(p)
    <3>1. PICK s \in {"expire", "check", "claim"} : Goto(p, s) /\ (s = "check" => p \in resumes)
      BY <2>2 DEF CheckPolicy
    <3> QED BY <1>0, <2>0, <2>2, <3>1, WayGoto DEF CheckPolicy, OnTheWay, Places
  <2>3. CASE Expire(p)
    BY <1>0, <2>0, <2>3, WayEnds DEF Expire
  <2>4. CASE ClaimApproval(p)
    <3>1. CASE Rest(p)
      BY <1>0, <2>0, <3>1, WayEnds
    <3>2. CASE /\ rows' = [rows EXCEPT ![cur[p]].status = "approved", ![cur[p]].reviewed = TRUE]
               /\ Goto(p, "check")
      <4>1. OnTheWay(q, i) \/ cur[p] = i
        BY <1>0, <2>0, <3>2, WayGoto DEF Places
      <4>2. cur[p] = i => rows'[i].status = "approved"
        BY <1>0, <3>2 DEF RowType
      <4> QED BY <4>1, <4>2 DEF Live
    <3> QED BY <2>4, <3>1, <3>2 DEF ClaimApproval
  <2> QED BY <1>4, <2>1, <2>2, <2>3, <2>4
<1>5. ASSUME NEW p \in Reviewers, Terminalize(p) \/ Persist(p) \/ Stamp(p) \/ ApprovalReceipt(p)
      PROVE  OnTheWay(q, i)
  <2>1. p \in Processes /\ (Goto(p, "stamp") \/ Goto(p, "receipt") \/ Rest(p))
    BY <1>5 DEF Processes, Terminalize, Persist, Stamp, ApprovalReceipt
  <2> QED BY <1>0, <2>1, WayGoto, WayEnds DEF Places
<1>6. ASSUME NEW p \in Agents, Queue(p) \/ Record(p)
      PROVE  OnTheWay(q, i)
  <2>1. p \in Processes /\ (UNCHANGED locals \/ Goto(p, "direct") \/ Rest(p))
    BY <1>6 DEF Processes, Queue, Record
  <2> QED BY <1>0, <1>1, <2>1, WayGoto, WayEnds DEF Places, locals, OnTheWay
<1>7. ASSUME NEW p \in Agents, Direct(p)
      PROVE  OnTheWay(q, i) \/ rows'[i].status \in Live
  <2>0. p \in Processes
    BY DEF Processes
  <2>1. CASE Rest(p)
    BY <1>0, <2>0, <2>1, WayEnds
  <2>2. CASE /\ pc' = [pc EXCEPT ![p] = "check"]
             /\ cur' = [cur EXCEPT ![p] = Len(rows) + 1] /\ resumes' = resumes
    <3>1. Len(rows) + 1 # i
      BY Types DEF ActionInv, Ids
    <3> QED BY <1>0, <2>0, <2>2, <3>1 DEF OnTheWay, LocalsOK
  <2>3. CASE /\ \E j \in Ids : Prior(j) /\ Unexecuted(j) /\ cur' = [cur EXCEPT ![p] = j]
             /\ pc' = [pc EXCEPT ![p] = "mutate"] /\ rows' = rows /\ resumes' = resumes
    BY <1>0, <2>0, <2>3 DEF OnTheWay, LocalsOK, Unexecuted, Live
  <2> QED BY <1>7, <2>1, <2>2, <2>3 DEF Direct
<1>8. CASE \/ CloseModule \/ OpenModule \/ ChangeEmployee
           \/ \E j \in Ids : Lapse(j) \/ Reject(j) \/ Repair(j)
  BY <1>1, <1>8 DEF CloseModule, OpenModule, ChangeEmployee, Lapse, Reject, Repair
<1> QED BY <1>2, <1>3, <1>4, <1>5, <1>6, <1>7, <1>8 DEF Next

(* What an action that has ended, with nobody on the way to it, may still do.  *)
LEMMA SilentStays ==
  ASSUME ActionInv, Next, NEW i \in Ids, rows'[i].status \in {"rejected", "expired"},
         written # i, \A p \in Processes : ~OnTheWay(p, i)
  PROVE  Silent(i)'
<1>1. \A p \in Processes : ~OnTheWay(p, i)'
  BY WayBegins DEF Live
<1>2. written' # i
  BY NextKeeps DEF StepKeeps, WrittenMoves, OnTheWay
<1> QED BY <1>1, <1>2 DEF Silent

(* An action that ended before anybody released it never writes, and one that  *)
(* is expired with nobody on the way to it does not either: only an executor   *)
(* that had taken the row while it was approved can write under an expired     *)
(* action (updateModuleInstallation, expireModuleActionForEmployeePolicy).     *)
THEOREM EndedUnreleasedIsSilent ==
  Spec => [][\A i \in Ids :
               /\ Silent(i) => Silent(i)'
               /\ (rows[i].status = "pending" /\ rows'[i].status \in {"rejected", "expired"})
                    => Silent(i)']_vars
<1> DEFINE A == \A i \in Ids :
                  /\ Silent(i) => Silent(i)'
                  /\ (rows[i].status = "pending" /\ rows'[i].status \in {"rejected", "expired"})
                       => Silent(i)'
<1>1. ActionInv /\ [Next]_vars => [A]_vars
  <2> SUFFICES ASSUME ActionInv, Next, NEW i \in Ids
               PROVE  /\ Silent(i) => Silent(i)'
                      /\ (rows[i].status = "pending" /\ rows'[i].status \in {"rejected", "expired"})
                           => Silent(i)'
    OBVIOUS
  <2>1. ASSUME Silent(i)
        PROVE  Silent(i)'
    <3>1. rows'[i].status = rows[i].status
      BY <2>1, NextKeeps DEF StepKeeps, RowsMove, RowMoves, HasEnded, Silent
    <3> QED BY <2>1, <3>1, SilentStays DEF Silent
  <2>2. ASSUME rows[i].status = "pending", rows'[i].status \in {"rejected", "expired"}
        PROVE  Silent(i)'
    <3>1. written # i
      BY <2>2 DEF ActionInv, RowsTellTheTruth
    <3>2. \A p \in Processes : ~OnTheWay(p, i)
      BY <2>2 DEF ActionInv, Place, RowReleased, Released, Executing, OnTheWay
    <3> QED BY <2>2, <3>1, <3>2, SilentStays
  <2> QED BY <2>1, <2>2
<1> QED BY <1>1, ActionInvariance, PTL DEF Spec
=============================================================================
