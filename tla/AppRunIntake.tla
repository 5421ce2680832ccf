---------------------------- MODULE AppRunIntake ----------------------------
(***************************************************************************)
(* Admission of governed App Runs: AppRunService.submit and submitChild as *)
(* concurrent API processes execute them, the fingerprint keyrings those   *)
(* processes were started with, the lineage of child Runs and the daily    *)
(* action budget of an agent employee.                                     *)
(*                                                                         *)
(* A submission reads its clock and checks the key references of the live  *)
(* rows BEFORE its transaction; the transaction then takes an advisory     *)
(* lock on the replay scope and the raw idempotency key, looks for a run   *)
(* under every fingerprint its keyring can compute, and inserts. There is  *)
(* no unique index: the lock and the keyrings alone keep a retried call    *)
(* from becoming a second run. A fingerprint is the pair of a key version  *)
(* and the value it hides; two versions of one value cannot be compared.   *)
(*                                                                         *)
(* Everything a transaction may throw for (a stale authority, a missing    *)
(* provider snapshot, a lost connection, the death of the process) is the  *)
(* one step Abort, which releases the lock and keeps no row.               *)
(***************************************************************************)
EXTENDS Naturals, Sequences, FiniteSets

CONSTANTS
  Processes,    \* API processes
  Submissions,  \* what callers ask for, apart from the parent run
  Documents,    \* the keyring documents the operator rolls out, in order
  Retention,    \* retention class -> ticks until the input expires
  Horizon,      \* retention class -> ticks the idempotency key is remembered
  MaxDepth,     \* max_child_depth
  DailyLimit,   \* max_daily_actions of the agent employee
  MaxRuns,      \* bound: runs inserted
  MaxTime,      \* bound: clock ticks
  MaxDays       \* bound: days with a budget of their own

Classes == DOMAIN Retention                      \* ephemeral, standard, extended
Ranked == [risk : Nat, retry : Nat, retention : Classes, review : {"policy", "always"}]

ASSUME DocumentAssumption ==
  /\ Documents \in Seq([keys : SUBSET Nat, current : Nat])
  /\ Len(Documents) > 0
  /\ \A i \in DOMAIN Documents : Documents[i].current \in Documents[i].keys
ASSUME HorizonAssumption ==
  /\ Classes \subseteq Nat
  /\ DOMAIN Horizon = Classes
  /\ \A c \in Classes : Retention[c] \in Nat /\ Horizon[c] \in Nat /\ Retention[c] <= Horizon[c]
ASSUME SubmissionAssumption ==
  /\ Submissions # {}
  /\ \A s \in Submissions : /\ DOMAIN s = {"actor", "op", "key", "content", "ambient", "policy"}
                            /\ s.actor \in {"human", "agent"}
                            /\ s.policy \in Ranked
ASSUME LimitAssumption == {MaxDepth, DailyLimit, MaxRuns, MaxTime, MaxDays} \subseteq Nat /\ MaxDays > 0

VARIABLES
  clock,  \* the hosts' clock
  runs,   \* app_runs, in the order of insertion
  req,    \* the submission each process is working on
  doc,    \* the keyring document each process was started with
  day,    \* days since the start
  used,   \* daily_action_count of the agent employee
  tools   \* of those, the ones its own tool calls took today

vars == <<clock, runs, req, doc, day, used, tools>>

Root == 0       \* parent_run_id IS NULL
NoRun == 0
Free == {"idle", "answered", "conflict"}  \* no submission under way
InTransaction == {"locked", "absent"}     \* holds the advisory lock

Ids == 1..Len(runs)
Parents == IF MaxDepth = 0 THEN {Root} ELSE 0..MaxRuns  \* no child is admitted at depth 0
RequestType == [stage : Free \cup InTransaction \cup {"ready"},
                sub : Submissions, parent : Parents, now : 0..MaxTime, run : 0..MaxRuns]
RunType == [sub : Submissions, parent : Parents, root : 1..MaxRuns, depth : 0..MaxDepth,
            version : Nat, created : 0..MaxTime, inputUntil : Nat, keyUntil : Nat,
            state : {"pending_approval", "pending", "running", "closed"},
            scheduled : BOOLEAN, reserved : 0..MaxDays]

NoRequest == [stage |-> "idle", sub |-> CHOOSE s \in Submissions : TRUE,
              parent |-> Root, now |-> 0, run |-> NoRun]

TypeOK ==
  /\ clock \in 0..MaxTime
  /\ runs \in Seq(RunType) /\ Len(runs) <= MaxRuns
  /\ req \in [Processes -> RequestType]
  /\ doc \in [Processes -> DOMAIN Documents]
  /\ day \in 1..MaxDays
  /\ used \in 0..DailyLimit
  /\ tools \in 0..DailyLimit

Init ==
  /\ clock = 0
  /\ runs = <<>>
  /\ req = [p \in Processes |-> NoRequest]
  /\ doc = [p \in Processes |-> 1]
  /\ day = 1 /\ used = 0 /\ tools = 0

-----------------------------------------------------------------------------
(* Keyrings *)

Keyring(p) == Documents[doc[p]].keys

\* assertAppRunReferencedKeysAvailable: every row whose key is remembered is readable.
KeysAvailable(keys) == \A i \in Ids : runs[i].keyUntil > clock => runs[i].version \in keys

\* The versions whose fingerprints findReplay compares (fingerprintTextCandidates).
Candidates(p) == Keyring(p)

\* A process restarts with the next document once every other process runs the
\* present one; its start-up inventory must find every referenced key.
Restart(p) ==
  /\ req[p].stage \in Free
  /\ doc[p] < Len(Documents)
  /\ \A q \in Processes : doc[q] >= doc[p]
  /\ KeysAvailable(Documents[doc[p] + 1].keys)
  /\ doc' = [doc EXCEPT ![p] = @ + 1]
  /\ req' = [req EXCEPT ![p] = NoRequest]
  /\ UNCHANGED <<clock, runs, day, used, tools>>

-----------------------------------------------------------------------------
(* Scheduling and the daily budget *)

Budgeted(s) == s.actor = "agent" /\ s.policy.risk > 0

\* authorizeExecution at the stage 'prepare': a run that is not charged must carry
\* no reservation; one that is charged keeps the reservation it has or takes a new one.
MayPrepare(r) == IF Budgeted(r.sub) THEN r.reserved > 0 \/ used < DailyLimit
                                    ELSE r.reserved = 0
\* Fault: a reservation is not recognised, and taken again.
TakesSlotAgain(r) == Budgeted(r.sub) /\ used < DailyLimit

TakesSlot(r) == Budgeted(r.sub) /\ r.reserved = 0 /\ used < DailyLimit

\* scheduleInTransaction: the reservation stands even when the input has expired.
Scheduled(r, now) ==
  [r EXCEPT !.reserved = IF TakesSlot(r) THEN day ELSE @,
            !.scheduled = @ \/ (MayPrepare(r) /\ r.inputUntil > now)]
Charge(r) == used' = IF TakesSlot(r) THEN used + 1 ELSE used

\* Fault: the limit is read before the counter is incremented, not with it.
ConsumeUnchecked ==
  /\ used <= DailyLimit
  /\ used' = used + 1
  /\ tools' = tools + 1
  /\ UNCHANGED <<clock, runs, req, doc, day>>

\* An agent's own write tools draw on the same counter (consumeAgentDailyActionBudget).
ConsumeDailyAction ==
  /\ used < DailyLimit
  /\ used' = used + 1
  /\ tools' = tools + 1
  /\ UNCHANGED <<clock, runs, req, doc, day>>

\* agent-daily-reset at midnight, or an administrator's reset.
DailyReset ==
  /\ day < MaxDays
  /\ day' = day + 1
  /\ used' = 0
  /\ tools' = 0
  /\ UNCHANGED <<clock, runs, req, doc>>

-----------------------------------------------------------------------------
(* Lineage *)

\* loadChildLineage: the rows met from a run, itself included, up to its root by
\* parent_run_id; the least set of runs with this one that has the parent of each.
AncestorsOf(i) == {a \in Ids : \A S \in SUBSET Ids :
  (i \in S /\ \A j \in S : runs[j].parent # Root => runs[j].parent \in S) => a \in S}

\* Fault: the review requirement of the parent is forgotten.
WithinRanksOnly(s, parent) ==
  /\ s.policy.risk <= parent.sub.policy.risk
  /\ s.policy.retry <= parent.sub.policy.retry
  /\ s.policy.retention <= parent.sub.policy.retention

\* No policy column of a child is wider than its parent's.
WithinCeiling(s, parent) ==
  /\ s.policy.risk <= parent.sub.policy.risk
  /\ parent.sub.policy.review = "always" => s.policy.review = "always"
  /\ s.policy.retry <= parent.sub.policy.retry
  /\ s.policy.retention <= parent.sub.policy.retention

\* childLineageInsert, with the ancestry trigger that repeats it in the database.
LineageAllows(s, i) ==
  LET parent == runs[i] IN
  /\ parent.state = "running"
  /\ parent.depth < MaxDepth
  /\ s.actor = parent.sub.actor
  /\ \A a \in AncestorsOf(i) : runs[a].sub.op # s.op
  /\ s.ambient \subseteq parent.sub.ambient
  /\ WithinCeiling(s, parent)
  /\ s.actor = "agent" => runs[parent.root].reserved > 0

Bounded(until, parent, limit) == IF parent = Root \/ until <= limit THEN until ELSE limit

-----------------------------------------------------------------------------
(* Submission *)

Set(p, stage, i) == req' = [req EXCEPT ![p].stage = stage, ![p].run = i]

\* The clock is read and the referenced keys are checked, outside the transaction.
Submit(p, s, parent) ==
  /\ req[p].stage \in Free
  /\ parent \in Ids \cup {Root}
  /\ req' = [req EXCEPT ![p] =
       IF KeysAvailable(Keyring(p))
       THEN [stage |-> "ready", sub |-> s, parent |-> parent, now |-> clock, run |-> NoRun]
       ELSE NoRequest]
  /\ UNCHANGED <<clock, runs, doc, day, used, tools>>

\* Fault: the transaction does not wait for the lock.
NoLock(p) == TRUE

\* derivedSubmissionLock: the replay scope and the raw key.
Scope(s, parent) == <<s.actor, s.op, s.key, parent>>
LockOf(p) == Scope(req[p].sub, req[p].parent)
LockIsFree(p) == \A q \in Processes \ {p} :
  req[q].stage \in InTransaction => LockOf(q) # LockOf(p)

AcquireSubmissionLock(p) ==
  /\ req[p].stage = "ready"
  /\ LockIsFree(p)
  /\ Set(p, "locked", NoRun)
  /\ UNCHANGED <<clock, runs, doc, day, used, tools>>

\* The rows findReplay may return.
Replays(p) ==
  {i \in Ids : /\ Scope(runs[i].sub, runs[i].parent) = LockOf(p)
               /\ runs[i].keyUntil > req[p].now
               /\ runs[i].version \in Candidates(p)}

\* Fault: any submission with the key is answered with the run.
AnyContent(s, r) == TRUE

\* The input, the execution actor and the authority of a replay must be the run's own.
SameContent(s, r) == s.content = r.sub.content

FindReplay(p) ==
  /\ req[p].stage = "locked"
  /\ \/ \E i \in Replays(p) :
          Set(p, IF SameContent(req[p].sub, runs[i]) THEN "answered" ELSE "conflict", i)
     \/ Replays(p) = {} /\ Set(p, "absent", NoRun)
  /\ UNCHANGED <<clock, runs, doc, day, used, tools>>

NewRun(p) ==
  LET s == req[p].sub
      up == req[p].parent
      now == req[p].now
      released == s.policy.review = "policy"
  IN [sub |-> s, parent |-> up,
      root |-> IF up = Root THEN Len(runs) + 1 ELSE runs[up].root,
      depth |-> IF up = Root THEN 0 ELSE runs[up].depth + 1,
      version |-> Documents[doc[p]].current,
      created |-> now,
      inputUntil |-> Bounded(now + Retention[s.policy.retention], up,
                             IF up = Root THEN 0 ELSE runs[up].inputUntil),
      keyUntil |-> Bounded(now + Horizon[s.policy.retention], up,
                           IF up = Root THEN 0 ELSE runs[up].keyUntil),
      state |-> IF released THEN "pending" ELSE "pending_approval",
      scheduled |-> FALSE,
      reserved |-> IF up = Root THEN 0 ELSE runs[runs[up].root].reserved]

\* A run with nothing left of its deadlines is not inserted (APP_RUN_EXPIRED).
Insertable(p) ==
  /\ req[p].parent # Root => LineageAllows(req[p].sub, req[p].parent)
  /\ NewRun(p).inputUntil > req[p].now
  /\ NewRun(p).keyUntil > req[p].now

\* The lineage is read under the locks of the whole parent chain; the row, its input
\* and its first schedule commit together.
InsertRun(p) ==
  LET r == NewRun(p) IN
  /\ req[p].stage = "absent"
  /\ Len(runs) < MaxRuns
  /\ IF ~Insertable(p)
     THEN req' = [req EXCEPT ![p] = NoRequest] /\ UNCHANGED <<runs, used>>
     ELSE /\ Set(p, "answered", Len(runs) + 1)
          /\ IF r.state = "pending"
             THEN runs' = Append(runs, Scheduled(r, r.created)) /\ Charge(r)
             ELSE runs' = Append(runs, r) /\ UNCHANGED used
  /\ UNCHANGED <<clock, doc, day, tools>>

Abort(p) ==
  /\ req[p].stage \notin Free
  /\ req' = [req EXCEPT ![p] = NoRequest]
  /\ UNCHANGED <<clock, runs, doc, day, used, tools>>

-----------------------------------------------------------------------------
(* The rest of a run's life, as far as admission depends on it *)

\* Approval releases the run and schedules it; a released run may be scheduled again.
Schedule(i) ==
  /\ runs[i].state # "closed"
  /\ LET r == IF runs[i].state = "pending_approval"
              THEN [runs[i] EXCEPT !.state = "pending"] ELSE runs[i]
     IN runs' = [runs EXCEPT ![i] = Scheduled(r, clock)] /\ Charge(r)
  /\ UNCHANGED <<clock, req, doc, day, tools>>

\* "running" stands for running and waiting_external, "closed" for every ended state.
Start(i) ==
  /\ runs[i].state = "pending" /\ runs[i].scheduled
  /\ runs' = [runs EXCEPT ![i].state = "running"]
  /\ UNCHANGED <<clock, req, doc, day, used, tools>>

Close(i) ==
  /\ runs[i].state # "closed"
  /\ runs' = [runs EXCEPT ![i].state = "closed"]
  /\ UNCHANGED <<clock, req, doc, day, used, tools>>

Tick ==
  /\ clock < MaxTime
  /\ clock' = clock + 1
  /\ UNCHANGED <<runs, req, doc, day, used, tools>>

Next ==
  \/ \E p \in Processes :
       \/ \E s \in Submissions, parent \in Parents : Submit(p, s, parent)
       \/ AcquireSubmissionLock(p) \/ FindReplay(p) \/ InsertRun(p) \/ Abort(p)
       \/ Restart(p)
  \/ \E i \in Ids : Schedule(i) \/ Start(i) \/ Close(i)
  \/ ConsumeDailyAction \/ DailyReset \/ Tick

Spec == Init /\ [][Next]_vars

-----------------------------------------------------------------------------
(* Properties *)

\* Two runs of one replay scope and key are never remembered at the same time: racing
\* submissions, retries after a lost answer, slow transactions that still use an old
\* reading of the clock, expired keys and a keyring rotation do not admit a second run.
OneRunPerKey == \A i, j \in Ids :
  (i < j /\ Scope(runs[i].sub, runs[i].parent) = Scope(runs[j].sub, runs[j].parent))
    => (runs[i].keyUntil <= runs[j].created \/ runs[j].keyUntil <= runs[i].created)

\* A caller is answered with a run of its own content, and refused for a conflict only
\* when the run that has its key really has another content.
RepliesAreTrue == \A p \in Processes :
  LET q == req[p] IN
  /\ q.stage \in {"answered", "conflict"} =>
       Scope(runs[q.run].sub, runs[q.run].parent) = Scope(q.sub, q.parent)
  /\ q.stage = "answered" => runs[q.run].sub.content = q.sub.content
  /\ q.stage = "conflict" => runs[q.run].sub.content # q.sub.content

\* No run has more than the root of its family: not a higher risk, a looser review, a
\* wider retry, more ambient authority or a later deadline.
WithinRoot(r, top) ==
  /\ r.sub.actor = top.sub.actor
  /\ r.sub.ambient \subseteq top.sub.ambient
  /\ r.sub.policy.risk <= top.sub.policy.risk
  /\ r.sub.policy.retry <= top.sub.policy.retry
  /\ top.sub.policy.review = "always" => r.sub.policy.review = "always"
  /\ r.inputUntil <= top.inputUntil /\ r.keyUntil <= top.keyUntil
FamiliesNarrow == \A i \in Ids : /\ runs[i].root \in Ids /\ runs[runs[i].root].parent = Root
                                 /\ WithinRoot(runs[i], runs[runs[i].root])

\* No operation occurs twice on the path to the root, and the depth is its length.
PathsAreSimple == \A i \in Ids :
  LET path == AncestorsOf(i) IN
  /\ runs[i].root \in path
  /\ Cardinality(path) = runs[i].depth + 1
  /\ \A a, b \in path : runs[a].sub.op = runs[b].sub.op => a = b

\* Down a lineage of any depth nothing grows, and no operation calls itself: each child
\* is compared with its parent alone, and with a parent that other steps may change.
LineageNarrows == FamiliesNarrow /\ PathsAreSimple

\* The counter of an agent's day is exactly its tool calls and the families of runs that
\* took their slot today: retries, re-scheduling and children never pay twice, and an
\* agent's writing run that is scheduled has been paid for by its family.
FamiliesPayOnce ==
  /\ used <= DailyLimit
  /\ used = tools + Cardinality({i \in Ids : runs[i].parent = Root /\ runs[i].reserved = day})
  /\ \A i \in Ids : /\ (runs[i].scheduled /\ Budgeted(runs[i].sub)) => runs[i].reserved > 0
                    /\ runs[i].reserved = runs[runs[i].root].reserved
=============================================================================
