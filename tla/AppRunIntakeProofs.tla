------------------------- MODULE AppRunIntakeProofs -------------------------
(***************************************************************************)
(* Machine-checked proofs about the admission of runs, for every set of    *)
(* processes and submissions, every keyring rollout and every limit: one   *)
(* run of a key, true replies, families of runs that never have more than  *)
(* their root and pay once.                                                *)
(***************************************************************************)
EXTENDS AppRunIntake, FiniteSetTheorems, TLAPS

RunStates == {"pending_approval", "pending", "running", "closed"}
Stages == Free \cup InTransaction \cup {"ready"}

-----------------------------------------------------------------------------
(* The strengthening. *)

(* A request speaks of runs that exist, and so does a run of its parent and root. *)
RequestsKnown ==
  \A p \in Processes : /\ req[p].parent \in Ids \cup {Root}
                       /\ req[p].stage \in {"answered", "conflict"} => req[p].run \in Ids
Rooted ==
  \A i \in Ids : /\ runs[i].root \in Ids
                 /\ runs[i].parent = Root <=> runs[i].root = i
                 /\ runs[runs[i].root].root = runs[i].root

(* A child of an agent's run was admitted by a family that has paid, so that   *)
(* only a root takes a slot.                                                   *)
ChildrenPaid == \A i \in Ids :
  runs[i].parent # Root /\ runs[i].sub.actor = "agent" => runs[i].reserved > 0
ReservedPast == \A i \in Ids : runs[i].reserved <= day

IntakeInv == /\ TypeOK /\ RequestsKnown /\ RepliesAreTrue /\ Rooted /\ FamiliesNarrow
             /\ ChildrenPaid /\ ReservedPast /\ FamiliesPayOnce

(* The keyrings: a version is made current only after the document before it   *)
(* made it readable, and stays readable in the next.                           *)
SafeRotation ==
  \A i \in DOMAIN Documents : i + 1 \in DOMAIN Documents =>
    /\ Documents[i].current \in Documents[i + 1].keys
    /\ Documents[i + 1].current \in Documents[i].keys

(* A rollout is one document apart at most; what is still remembered at the    *)
(* time a process read is readable to it; a lock has one holder; and a process *)
(* that found no run under its lock is right until it lets go of it.           *)
InFlight == {"ready"} \cup InTransaction
Adjacent == \A p, q \in Processes : doc[q] <= doc[p] + 1
Readable == \A p \in Processes : req[p].stage \in InFlight =>
  \A i \in Ids : runs[i].keyUntil > req[p].now => runs[i].version \in Keyring(p)
LockExclusive == \A p, q \in Processes :
  p # q /\ req[p].stage \in InTransaction /\ req[q].stage \in InTransaction => LockOf(p) # LockOf(q)
AbsentIsNew == \A p \in Processes : req[p].stage = "absent" =>
  \A i \in Ids : Scope(runs[i].sub, runs[i].parent) = LockOf(p) => runs[i].keyUntil <= req[p].now

KeyInv == Adjacent /\ Readable /\ LockExclusive /\ AbsentIsNew /\ OneRunPerKey

-----------------------------------------------------------------------------
(* What a step may do to the runs. *)

(* What a row says of its origin never changes.                                *)
SameOrigin(r, s) ==
  /\ r.sub = s.sub /\ r.parent = s.parent /\ r.root = s.root /\ r.depth = s.depth
  /\ r.version = s.version /\ r.created = s.created
  /\ r.inputUntil = s.inputUntil /\ r.keyUntil = s.keyUntil

(* A row keeps its reservation, or takes one of today for the whole day; and   *)
(* it is scheduled when it has what it needs.                                  *)
Pays(r, s) ==
  /\ \/ s.reserved = r.reserved /\ used' = used
     \/ /\ Budgeted(r.sub) /\ r.reserved = 0 /\ s.reserved = day
        /\ used < DailyLimit /\ used' = used + 1
  /\ s.scheduled /\ Budgeted(s.sub) => s.reserved > 0 \/ (r.scheduled /\ s.reserved = r.reserved)

Updates(i, r) ==
  /\ i \in Ids /\ r \in RunType /\ runs' = [runs EXCEPT ![i] = r]
  /\ SameOrigin(r, runs[i]) /\ Pays(runs[i], r)
  /\ UNCHANGED <<clock, req, doc, day, tools>>

Inserts(p, r) ==
  /\ p \in Processes /\ r \in RunType /\ runs' = Append(runs, r) /\ Len(runs) < MaxRuns
  /\ req[p].stage = "absent" /\ Insertable(p)
  /\ SameOrigin(r, NewRun(p)) /\ Pays(NewRun(p), r)
  /\ Set(p, "answered", Len(runs) + 1)
  /\ UNCHANGED <<clock, doc, day, tools>>

(* A step of one process that leaves the runs alone. *)
Asks(p, x) ==
  /\ p \in Processes /\ x \in RequestType /\ req' = [req EXCEPT ![p] = x]
  /\ x.parent \in Ids \cup {Root}
  /\ x.stage \in {"answered", "conflict"} =>
       /\ x.run \in Ids /\ Scope(runs[x.run].sub, runs[x.run].parent) = Scope(x.sub, x.parent)
       /\ x.stage = "answered" <=> runs[x.run].sub.content = x.sub.content
  /\ doc' \in [Processes -> DOMAIN Documents]
  /\ UNCHANGED <<clock, runs, day, used, tools>>

(* The days and the clock. *)
Passes ==
  /\ UNCHANGED <<runs, req, doc>> /\ clock' \in 0..MaxTime /\ clock <= clock'
  /\ \/ day' = day /\ used' = used /\ tools' = tools
     \/ day' = day /\ used < DailyLimit /\ used' = used + 1 /\ tools' = tools + 1
     \/ day < MaxDays /\ day' = day + 1 /\ used' = 0 /\ tools' = 0

-----------------------------------------------------------------------------
(* The types. *)

(* A sequence is a function on the numbers up to its length. *)
LEMMA SeqIsFunction ==
  ASSUME NEW S, NEW s \in Seq(S)
  PROVE  s \in [1..Len(s) -> S] /\ Len(s) \in Nat /\ DOMAIN s = 1..Len(s)
OBVIOUS

(* And the other way round. *)
LEMMA FunctionIsSeq ==
  ASSUME NEW S, NEW n \in Nat, NEW s \in [1..n -> S]
  PROVE  s \in Seq(S) /\ Len(s) = n
OBVIOUS

(* The limits are numbers. *)
LEMMA Limits ==
  MaxDepth \in Nat /\ DailyLimit \in Nat /\ MaxRuns \in Nat /\ MaxTime \in Nat /\ MaxDays \in Nat \ {0}
BY LimitAssumption

(* The types of the variables, with the runs as a function. *)
LEMMA Types ==
  ASSUME TypeOK
  PROVE  /\ clock \in 0..MaxTime
         /\ runs \in [Ids -> RunType] /\ Len(runs) \in Nat /\ Len(runs) <= MaxRuns
         /\ runs \in Seq(RunType)
         /\ req \in [Processes -> RequestType]
         /\ doc \in [Processes -> DOMAIN Documents]
         /\ day \in 1..MaxDays /\ used \in 0..DailyLimit /\ tools \in 0..DailyLimit
<1>1. runs \in Seq(RunType)
  BY DEF TypeOK
<1>2. runs \in [Ids -> RunType] /\ Len(runs) \in Nat
  BY <1>1, SeqIsFunction DEF Ids
<1> QED BY <1>1, <1>2 DEF TypeOK

(* The fields of a run. *)
LEMMA RunFields ==
  ASSUME NEW r \in RunType
  PROVE  /\ r.sub \in Submissions /\ r.parent \in Parents /\ r.root \in 1..MaxRuns
         /\ r.depth \in 0..MaxDepth /\ r.version \in Nat /\ r.created \in Nat
         /\ r.inputUntil \in Nat /\ r.keyUntil \in Nat /\ r.state \in RunStates
         /\ r.scheduled \in BOOLEAN /\ r.reserved \in 0..MaxDays /\ r.reserved \in Nat
<1>1. MaxTime \in Nat /\ MaxDays \in Nat
  BY Limits
<1> QED BY <1>1 DEF RunType, RunStates

(* The fields of a submission. *)
LEMMA SubFields ==
  ASSUME NEW s \in Submissions
  PROVE  /\ s.actor \in {"human", "agent"}
         /\ s.policy.risk \in Nat /\ s.policy.retry \in Nat /\ s.policy.retention \in Classes
         /\ s.policy.retention \in Nat
         /\ Retention[s.policy.retention] \in Nat /\ Horizon[s.policy.retention] \in Nat
<1>1. s.policy \in Ranked /\ s.actor \in {"human", "agent"}
  BY SubmissionAssumption
<1>2. s.policy.risk \in Nat /\ s.policy.retry \in Nat /\ s.policy.retention \in Classes
  BY <1>1 DEF Ranked
<1> QED BY <1>1, <1>2, HorizonAssumption

(* The keyrings. *)
LEMMA DocumentFields ==
  ASSUME NEW i \in DOMAIN Documents
  PROVE  /\ i \in Nat /\ Documents[i].current \in Nat /\ Documents[i].keys \subseteq Nat
         /\ Documents[i].current \in Documents[i].keys
<1>1. Documents \in Seq([keys : SUBSET Nat, current : Nat])
  BY DocumentAssumption
<1>2. /\ Documents \in [1..Len(Documents) -> [keys : SUBSET Nat, current : Nat]]
      /\ DOMAIN Documents = 1..Len(Documents) /\ Len(Documents) \in Nat
  BY <1>1, SeqIsFunction
<1>3. i \in Nat /\ Documents[i] \in [keys : SUBSET Nat, current : Nat]
  BY <1>2
<1> QED BY <1>3, DocumentAssumption

(* The request of a process that asks for nothing. *)
LEMMA NoRequestTyped ==
  /\ NoRequest \in RequestType /\ NoRequest.stage = "idle" /\ NoRequest.parent = Root
  /\ NoRequest.now = 0
<1>1. (CHOOSE s \in Submissions : TRUE) \in Submissions
  BY SubmissionAssumption
<1>2. Root \in Parents /\ 0 \in 0..MaxTime /\ NoRun \in 0..MaxRuns
  BY Limits DEF Parents, Root, NoRun
<1> QED BY <1>1, <1>2 DEF NoRequest, RequestType, Free

-----------------------------------------------------------------------------
(* The runs that are written. *)

(* A schedule keeps the row's origin and pays once. *)
LEMMA ScheduledPays ==
  ASSUME TypeOK, NEW r \in RunType, NEW now, Charge(r)
  PROVE  /\ Scheduled(r, now) \in RunType /\ SameOrigin(Scheduled(r, now), r)
         /\ Scheduled(r, now).state = r.state
         /\ Pays(r, Scheduled(r, now))
<1>0. day \in 0..MaxDays /\ day > 0 /\ used \in Nat /\ r.reserved \in Nat
  BY Types, RunFields, Limits
<1>1. PICK n : n = IF TakesSlot(r) THEN day ELSE r.reserved
  OBVIOUS
<1>2. PICK b \in BOOLEAN : b = (r.scheduled \/ (MayPrepare(r) /\ r.inputUntil > now))
  BY RunFields
<1>3. PICK s : s = [r EXCEPT !.reserved = n, !.scheduled = b]
  OBVIOUS
<1>4. s = Scheduled(r, now)
  BY <1>1, <1>2, <1>3 DEF Scheduled, RunType
<1>5. n \in 0..MaxDays
  BY <1>0, <1>1, RunFields
<1>6. /\ s \in RunType /\ SameOrigin(s, r) /\ s.state = r.state /\ s.sub = r.sub
      /\ s.reserved = n /\ s.scheduled = b
  BY <1>3, <1>5 DEF RunType, SameOrigin
<1>7. CASE TakesSlot(r)
  <2>1. n = day /\ used' = used + 1
    BY <1>1, <1>7 DEF Charge
  <2> QED BY <1>0, <1>4, <1>6, <1>7, <2>1 DEF Pays, TakesSlot
<1>8. CASE ~TakesSlot(r)
  <2>1. n = r.reserved /\ used' = used
    BY <1>1, <1>8 DEF Charge
  <2>2. s.scheduled /\ Budgeted(s.sub) => s.reserved > 0 \/ r.scheduled
    <3>1. b => r.scheduled \/ MayPrepare(r)
      BY <1>2
    <3>2. MayPrepare(r) /\ Budgeted(r.sub) => r.reserved > 0 \/ used < DailyLimit
      BY DEF MayPrepare
    <3>3. Budgeted(r.sub) /\ used < DailyLimit => r.reserved > 0
      BY <1>0, <1>8 DEF TakesSlot
    <3>4. MayPrepare(r) /\ Budgeted(r.sub) => s.reserved > 0
      BY <1>6, <2>1, <3>2, <3>3
    <3>5. s.scheduled = b /\ s.sub = r.sub
      BY <1>6
    <3> QED BY <3>1, <3>4, <3>5
  <2> QED BY <1>4, <1>6, <2>1, <2>2 DEF Pays
<1> QED BY <1>7, <1>8

(* What is known of a run that is about to be inserted. *)
LEMMA NewRunFacts ==
  ASSUME IntakeInv, NEW p \in Processes, Insertable(p), Len(runs) < MaxRuns
  PROVE  LET r == NewRun(p)
             up == req[p].parent
         IN  /\ r \in RunType
             /\ r.sub = req[p].sub /\ r.parent = up /\ r.created = req[p].now
             /\ r.version = Documents[doc[p]].current
             /\ r.keyUntil > r.created /\ ~r.scheduled
             /\ up = Root => r.root = Len(runs) + 1 /\ r.reserved = 0
             /\ up # Root => /\ up \in Ids /\ LineageAllows(r.sub, up)
                             /\ r.root = runs[up].root
                             /\ r.inputUntil <= runs[up].inputUntil
                             /\ r.keyUntil <= runs[up].keyUntil
                             /\ r.reserved = runs[runs[up].root].reserved
<1> DEFINE up == req[p].parent
           now == req[p].now
           s == req[p].sub
<1>0. /\ req[p] \in RequestType /\ runs \in [Ids -> RunType] /\ doc[p] \in DOMAIN Documents
      /\ Len(runs) \in Nat /\ MaxRuns \in Nat /\ MaxDays \in Nat /\ MaxDepth \in Nat /\ MaxTime \in Nat
  BY Types, Limits DEF IntakeInv
<1>1. /\ s \in Submissions /\ up \in Parents /\ now \in 0..MaxTime /\ now \in Nat
      /\ up # Root => up \in Ids
  BY <1>0 DEF RequestType, IntakeInv, RequestsKnown
<1>2. /\ Documents[doc[p]].current \in Nat
      /\ Retention[s.policy.retention] \in Nat /\ Horizon[s.policy.retention] \in Nat
  BY <1>0, <1>1, DocumentFields, SubFields
<1>3. up # Root => /\ runs[up] \in RunType /\ runs[up].root \in Ids /\ runs[runs[up].root] \in RunType
  BY <1>0, <1>1 DEF IntakeInv, Rooted
<1>4. up # Root => LineageAllows(s, up) /\ runs[up].depth < MaxDepth
  BY DEF Insertable, LineageAllows
<1>5. PICK root : root = IF up = Root THEN Len(runs) + 1 ELSE runs[up].root
  OBVIOUS
<1>6. root \in 1..MaxRuns
  BY <1>0, <1>3, <1>5, RunFields
<1>7. PICK depth : depth = IF up = Root THEN 0 ELSE runs[up].depth + 1
  OBVIOUS
<1>8. depth \in 0..MaxDepth
  BY <1>0, <1>3, <1>4, <1>7, RunFields
<1>9. PICK iu : iu = Bounded(now + Retention[s.policy.retention], up,
                             IF up = Root THEN 0 ELSE runs[up].inputUntil)
  OBVIOUS
<1>10. iu \in Nat /\ (up # Root => iu <= runs[up].inputUntil)
  BY <1>1, <1>2, <1>3, <1>9, RunFields DEF Bounded
<1>11. PICK ku : ku = Bounded(now + Horizon[s.policy.retention], up,
                              IF up = Root THEN 0 ELSE runs[up].keyUntil)
  OBVIOUS
<1>12. ku \in Nat /\ (up # Root => ku <= runs[up].keyUntil)
  BY <1>1, <1>2, <1>3, <1>11, RunFields DEF Bounded
<1>13. PICK reserved : reserved = IF up = Root THEN 0 ELSE runs[runs[up].root].reserved
  OBVIOUS
<1>14. reserved \in 0..MaxDays
  BY <1>0, <1>3, <1>13, RunFields
<1>15. PICK state \in RunStates :
         state = IF s.policy.review = "policy" THEN "pending" ELSE "pending_approval"
  BY DEF RunStates
<1>16. PICK r : r = [sub |-> s, parent |-> up, root |-> root, depth |-> depth,
                     version |-> Documents[doc[p]].current, created |-> now,
                     inputUntil |-> iu, keyUntil |-> ku, state |-> state,
                     scheduled |-> FALSE, reserved |-> reserved]
  OBVIOUS
<1>17. r = NewRun(p)
  BY <1>5, <1>7, <1>9, <1>11, <1>13, <1>15, <1>16 DEF NewRun
<1>18. r \in RunType
  BY <1>1, <1>2, <1>6, <1>8, <1>10, <1>12, <1>14, <1>16 DEF RunType, RunStates
<1>19. /\ r.sub = s /\ r.parent = up /\ r.created = now /\ r.version = Documents[doc[p]].current
       /\ ~r.scheduled /\ r.root = root /\ r.inputUntil = iu /\ r.keyUntil = ku /\ r.reserved = reserved
  BY <1>16
<1>20. r.keyUntil > r.created
  BY <1>17, <1>19 DEF Insertable
<1> HIDE DEF up, now, s
<1>21. /\ up = Root => r.root = Len(runs) + 1 /\ r.reserved = 0
       /\ up # Root => /\ up \in Ids /\ LineageAllows(r.sub, up) /\ r.root = runs[up].root
                       /\ r.inputUntil <= runs[up].inputUntil /\ r.keyUntil <= runs[up].keyUntil
                       /\ r.reserved = runs[runs[up].root].reserved
  BY <1>1, <1>4, <1>5, <1>10, <1>12, <1>13, <1>19
<1> QED BY <1>17, <1>18, <1>19, <1>20, <1>21 DEF up, now, s

-----------------------------------------------------------------------------
(* Every step is of one of the kinds. *)

Moves == \/ \E p \in Processes, x \in RequestType : Asks(p, x)
         \/ \E i \in Ids, r \in RunType : Updates(i, r)
         \/ \E p \in Processes, r \in RunType : Inserts(p, r)
         \/ Passes

(* A process that lets go of its submission. *)
LEMMA LetsGo ==
  ASSUME IntakeInv, NEW p \in Processes, req' = [req EXCEPT ![p] = NoRequest],
         doc' \in [Processes -> DOMAIN Documents], UNCHANGED <<clock, runs, day, used, tools>>
  PROVE  Asks(p, NoRequest)
BY NoRequestTyped DEF Asks

(* A process takes a submission up, or refuses it for a missing key. *)
LEMMA SubmitStep ==
  ASSUME IntakeInv, NEW p \in Processes, NEW s \in Submissions, NEW parent \in Parents,
         Submit(p, s, parent)
  PROVE  Moves
<1>1. CASE req' = [req EXCEPT ![p] = NoRequest]
  BY <1>1, LetsGo, NoRequestTyped, Types DEF Submit, Moves, IntakeInv
<1>2. PICK x : x = [stage |-> "ready", sub |-> s, parent |-> parent, now |-> clock, run |-> NoRun]
  OBVIOUS
<1>3. CASE req' = [req EXCEPT ![p] = x]
  <2>1. clock \in 0..MaxTime /\ NoRun \in 0..MaxRuns
    BY Types, Limits DEF IntakeInv, NoRun
  <2>2. x \in RequestType /\ x.stage = "ready" /\ x.parent = parent
    BY <1>2, <2>1 DEF RequestType
  <2>3. Asks(p, x)
    BY <1>3, <2>2, Types DEF Asks, Submit, IntakeInv
  <2> QED BY <2>2, <2>3 DEF Moves
<1> QED BY <1>1, <1>2, <1>3 DEF Submit

(* A request whose stage is set. *)
LEMMA SetRequest ==
  ASSUME IntakeInv, NEW p \in Processes, NEW stage \in Stages, NEW i \in 0..MaxRuns,
         Set(p, stage, i)
  PROVE  \E x \in RequestType :
           /\ req' = [req EXCEPT ![p] = x] /\ x.stage = stage /\ x.run = i
           /\ x.sub = req[p].sub /\ x.parent = req[p].parent /\ x.now = req[p].now
<1>0. req \in [Processes -> RequestType] /\ req[p] \in RequestType
  BY Types DEF IntakeInv
<1>1. PICK x : x = [req[p] EXCEPT !.stage = stage, !.run = i]
  OBVIOUS
<1>2. /\ x \in RequestType /\ x.stage = stage /\ x.run = i
      /\ x.sub = req[p].sub /\ x.parent = req[p].parent /\ x.now = req[p].now
  BY <1>0, <1>1 DEF RequestType, Stages
<1>3. req' = [req EXCEPT ![p] = x]
  BY <1>0, <1>1 DEF Set
<1> QED BY <1>2, <1>3

(* The lock is taken. *)
LEMMA LockStep ==
  ASSUME IntakeInv, NEW p \in Processes, AcquireSubmissionLock(p)
  PROVE  Moves
<1>1. NoRun \in 0..MaxRuns /\ "locked" \in Stages /\ req[p].parent \in Ids \cup {Root}
  BY Limits DEF NoRun, Stages, InTransaction, IntakeInv, RequestsKnown
<1>2. PICK x \in RequestType :
        /\ req' = [req EXCEPT ![p] = x] /\ x.stage = "locked" /\ x.parent = req[p].parent
  BY <1>1, SetRequest DEF AcquireSubmissionLock
<1>3. Asks(p, x)
  BY <1>1, <1>2, Types DEF Asks, AcquireSubmissionLock, IntakeInv
<1> QED BY <1>3 DEF Moves

(* The replay is found, conflicts, or is not there. *)
LEMMA FindStep ==
  ASSUME IntakeInv, NEW p \in Processes, FindReplay(p)
  PROVE  Moves
<1>0. req[p].parent \in Ids \cup {Root} /\ Ids \subseteq 0..MaxRuns /\ NoRun \in 0..MaxRuns
  BY Types, Limits DEF IntakeInv, RequestsKnown, Ids, NoRun
<1>1. CASE Set(p, "absent", NoRun)
  <2>1. "absent" \in Stages
    BY DEF Stages, InTransaction
  <2>2. PICK x \in RequestType :
          /\ req' = [req EXCEPT ![p] = x] /\ x.stage = "absent" /\ x.parent = req[p].parent
    BY <1>0, <1>1, <2>1, SetRequest
  <2>3. Asks(p, x)
    BY <1>0, <2>2, Types DEF Asks, FindReplay, IntakeInv
  <2> QED BY <2>3 DEF Moves
<1>2. ASSUME NEW i \in Replays(p),
             Set(p, IF SameContent(req[p].sub, runs[i]) THEN "answered" ELSE "conflict", i)
      PROVE  Moves
  <2>1. PICK stage : stage = IF SameContent(req[p].sub, runs[i]) THEN "answered" ELSE "conflict"
    OBVIOUS
  <2>2. stage \in Stages /\ i \in Ids /\ Scope(runs[i].sub, runs[i].parent) = Scope(req[p].sub, req[p].parent)
    BY <2>1 DEF Stages, Free, Replays, LockOf
  <2>3. stage = "answered" <=> runs[i].sub.content = req[p].sub.content
    BY <2>1 DEF SameContent
  <2>4. Set(p, stage, i) /\ i \in 0..MaxRuns
    BY <1>0, <1>2, <2>1, <2>2
  <2>5. PICK x \in RequestType :
          /\ req' = [req EXCEPT ![p] = x] /\ x.stage = stage /\ x.run = i
          /\ x.sub = req[p].sub /\ x.parent = req[p].parent
    BY <2>2, <2>4, SetRequest
  <2>6. Asks(p, x)
    BY <1>0, <2>2, <2>3, <2>5, Types DEF Asks, FindReplay, IntakeInv
  <2> QED BY <2>6 DEF Moves
<1> QED BY <1>1, <1>2 DEF FindReplay

(* The insert of a run that may be inserted. *)
LEMMA InsertInserts ==
  ASSUME IntakeInv, NEW p \in Processes, InsertRun(p), Insertable(p)
  PROVE  \E r \in RunType : Inserts(p, r)
<1>1. PICK n : n = NewRun(p)
  OBVIOUS
<1>2. n \in RunType /\ ~n.scheduled
  BY <1>1, NewRunFacts DEF InsertRun
<1>3. /\ req[p].stage = "absent" /\ Len(runs) < MaxRuns /\ Set(p, "answered", Len(runs) + 1)
      /\ UNCHANGED <<clock, doc, day, tools>>
  BY DEF InsertRun
<1>4. CASE runs' = Append(runs, Scheduled(n, n.created)) /\ Charge(n)
  <2>1. PICK r : r = Scheduled(n, n.created)
    OBVIOUS
  <2>2. r \in RunType /\ SameOrigin(r, n) /\ Pays(n, r)
    BY <1>2, <1>4, <2>1, ScheduledPays DEF IntakeInv
  <2>3. Inserts(p, r)
    BY <1>1, <1>3, <1>4, <2>1, <2>2 DEF Inserts
  <2> QED BY <2>2, <2>3
<1>5. CASE runs' = Append(runs, n) /\ used' = used
  <2>1. SameOrigin(n, n) /\ Pays(n, n)
    BY <1>2, <1>5 DEF SameOrigin, Pays
  <2>2. Inserts(p, n)
    BY <1>1, <1>2, <1>3, <1>5, <2>1 DEF Inserts
  <2> QED BY <1>2, <2>2
<1> QED BY <1>1, <1>4, <1>5 DEF InsertRun

(* The insert, or its refusal. *)
LEMMA InsertStep ==
  ASSUME IntakeInv, NEW p \in Processes, InsertRun(p)
  PROVE  Moves
<1>1. CASE ~Insertable(p)
  <2>1. req' = [req EXCEPT ![p] = NoRequest] /\ UNCHANGED <<clock, runs, day, used, tools>>
    BY <1>1 DEF InsertRun
  <2>2. doc' \in [Processes -> DOMAIN Documents]
    BY Types DEF InsertRun, IntakeInv
  <2> QED BY <2>1, <2>2, LetsGo, NoRequestTyped DEF Moves
<1>2. CASE Insertable(p)
  BY <1>2, InsertInserts DEF Moves
<1> QED BY <1>1, <1>2

(* A process that aborts or is restarted. *)
LEMMA AbortStep ==
  ASSUME IntakeInv, NEW p \in Processes, Abort(p) \/ Restart(p)
  PROVE  Moves
<1>0. doc \in [Processes -> DOMAIN Documents] /\ DOMAIN Documents = 1..Len(Documents)
      /\ Len(Documents) \in Nat
  BY Types, DocumentAssumption, SeqIsFunction DEF IntakeInv
<1>1. doc' \in [Processes -> DOMAIN Documents]
  BY <1>0 DEF Abort, Restart
<1> QED BY <1>1, LetsGo, NoRequestTyped DEF Abort, Restart, Moves

(* The life of a run after its admission. *)
LEMMA RunUpdates ==
  ASSUME IntakeInv, NEW i \in Ids, Schedule(i) \/ Start(i) \/ Close(i)
  PROVE  \E r \in RunType : Updates(i, r)
<1>0. runs \in [Ids -> RunType] /\ runs[i] \in RunType
  BY Types DEF IntakeInv
<1>1. ASSUME NEW st \in RunStates, NEW r, r = [runs[i] EXCEPT !.state = st]
      PROVE  /\ r \in RunType /\ SameOrigin(r, runs[i])
             /\ r.reserved = runs[i].reserved /\ r.scheduled = runs[i].scheduled
  BY <1>0, <1>1 DEF RunType, RunStates, SameOrigin
<1>2. CASE Start(i) \/ Close(i)
  <2>1. PICK st \in RunStates : runs' = [runs EXCEPT ![i].state = st]
    BY <1>2 DEF Start, Close, RunStates
  <2>2. PICK r : r = [runs[i] EXCEPT !.state = st]
    OBVIOUS
  <2>3. /\ r \in RunType /\ SameOrigin(r, runs[i])
        /\ r.reserved = runs[i].reserved /\ r.scheduled = runs[i].scheduled
    BY <1>1, <2>2
  <2>4. runs' = [runs EXCEPT ![i] = r]
    BY <1>0, <2>1, <2>2
  <2>5. UNCHANGED <<clock, req, doc, day, tools>> /\ used' = used
    BY <1>2 DEF Start, Close
  <2>6. Pays(runs[i], r)
    BY <2>3, <2>5 DEF Pays
  <2>7. Updates(i, r)
    BY <2>3, <2>4, <2>5, <2>6 DEF Updates
  <2> QED BY <2>3, <2>7
<1>3. CASE Schedule(i)
  <2>1. PICK r : r = IF runs[i].state = "pending_approval"
                     THEN [runs[i] EXCEPT !.state = "pending"] ELSE runs[i]
    OBVIOUS
  <2>2. /\ r \in RunType /\ SameOrigin(r, runs[i])
        /\ r.reserved = runs[i].reserved /\ r.scheduled = runs[i].scheduled
    <3>1. CASE r = runs[i]
      BY <1>0, <3>1 DEF SameOrigin
    <3>2. CASE r = [runs[i] EXCEPT !.state = "pending"]
      BY <1>1, <3>2 DEF RunStates
    <3> QED BY <2>1, <3>1, <3>2
  <2>3. runs' = [runs EXCEPT ![i] = Scheduled(r, clock)] /\ Charge(r)
        /\ UNCHANGED <<clock, req, doc, day, tools>>
    BY <1>3, <2>1 DEF Schedule
  <2>4. PICK s : s = Scheduled(r, clock)
    OBVIOUS
  <2>5. s \in RunType /\ SameOrigin(s, r) /\ Pays(r, s)
    BY <2>2, <2>3, <2>4, ScheduledPays DEF IntakeInv
  <2>6. SameOrigin(s, runs[i])
    BY <2>2, <2>5 DEF SameOrigin
  <2>7. Pays(runs[i], s)
    BY <2>2, <2>5 DEF Pays, SameOrigin
  <2>8. Updates(i, s)
    BY <2>3, <2>4, <2>5, <2>6, <2>7 DEF Updates
  <2> QED BY <2>5, <2>8
<1> QED BY <1>2, <1>3

(* The clock, the tools and the days. *)
LEMMA PassStep ==
  ASSUME IntakeInv, ConsumeDailyAction \/ DailyReset \/ Tick
  PROVE  Moves
<1>0. clock \in 0..MaxTime /\ MaxTime \in Nat
  BY Types, Limits DEF IntakeInv
<1>1. Passes
  BY <1>0 DEF ConsumeDailyAction, DailyReset, Tick, Passes
<1> QED BY <1>1 DEF Moves

(* Every step. *)
LEMMA NextMoves ==
  ASSUME IntakeInv, Next
  PROVE  Moves
BY SubmitStep, LockStep, FindStep, InsertStep, AbortStep, RunUpdates, PassStep DEF Next, Moves

-----------------------------------------------------------------------------
(* The kinds of steps keep the invariant. *)

Slots == {i \in Ids : runs[i].parent = Root /\ runs[i].reserved = day}

(* The slots that are taken today can be counted. *)
LEMMA SlotsFinite ==
  ASSUME TypeOK
  PROVE  IsFiniteSet(Slots) /\ Cardinality(Slots) \in Nat
<1>1. Len(runs) \in Nat
  BY Types
<1>2. IsFiniteSet(Ids)
  BY <1>1, FS_Interval DEF Ids
<1>3. IsFiniteSet(Slots)
  BY <1>2, FS_Subset DEF Slots
<1> QED BY <1>3, FS_CardinalityType

(* The invariant holds at the start. *)
LEMMA InvInit ==
  ASSUME Init
  PROVE  IntakeInv
<1>1. Ids = {} /\ runs \in Seq(RunType) /\ Len(runs) = 0
  BY DEF Init, Ids
<1>2. 1 \in DOMAIN Documents
  BY DocumentAssumption, SeqIsFunction
<1>3. TypeOK
  BY <1>1, <1>2, Limits, NoRequestTyped DEF TypeOK, Init
<1>4. RequestsKnown /\ RepliesAreTrue
  BY NoRequestTyped DEF RequestsKnown, RepliesAreTrue, Init
<1>5. Rooted /\ FamiliesNarrow /\ ChildrenPaid /\ ReservedPast
  BY <1>1 DEF Rooted, FamiliesNarrow, ChildrenPaid, ReservedPast
<1>6. {i \in Ids : runs[i].parent = Root /\ runs[i].reserved = day} = {}
  BY <1>1
<1>7. FamiliesPayOnce
  BY <1>1, <1>6, FS_EmptySet, Limits DEF FamiliesPayOnce, Init
<1> QED BY <1>3, <1>4, <1>5, <1>7 DEF IntakeInv

(* A process asks, finds or lets go. *)
LEMMA AsksKeeps ==
  ASSUME IntakeInv, NEW p \in Processes, NEW x \in RequestType, Asks(p, x)
  PROVE  IntakeInv'
<1>0. /\ runs' = runs /\ clock' = clock /\ day' = day /\ used' = used /\ tools' = tools
      /\ req \in [Processes -> RequestType] /\ doc' \in [Processes -> DOMAIN Documents]
  BY Types DEF Asks, IntakeInv
<1>1. /\ req' \in [Processes -> RequestType] /\ req'[p] = x
      /\ \A q \in Processes \ {p} : req'[q] = req[q]
  BY <1>0 DEF Asks
<1>2. TypeOK'
  BY <1>0, <1>1 DEF IntakeInv, TypeOK
<1>3. RequestsKnown'
  BY <1>0, <1>1 DEF IntakeInv, RequestsKnown, Asks, Ids
<1>4. RepliesAreTrue'
  <2> SUFFICES ASSUME NEW q \in Processes
               PROVE  LET y == req'[q] IN
                      /\ y.stage \in {"answered", "conflict"} =>
                           Scope(runs[y.run].sub, runs[y.run].parent) = Scope(y.sub, y.parent)
                      /\ y.stage = "answered" => runs[y.run].sub.content = y.sub.content
                      /\ y.stage = "conflict" => runs[y.run].sub.content # y.sub.content
    BY <1>0 DEF RepliesAreTrue, Scope
  <2>1. CASE q = p
    BY <1>1, <2>1 DEF Asks
  <2>2. CASE q # p
    BY <1>1, <2>2 DEF IntakeInv, RepliesAreTrue
  <2> QED BY <2>1, <2>2
<1>5. Rooted' /\ FamiliesNarrow' /\ ChildrenPaid' /\ ReservedPast' /\ FamiliesPayOnce'
  BY <1>0 DEF IntakeInv, Rooted, FamiliesNarrow, ChildrenPaid, ReservedPast, FamiliesPayOnce, Ids
<1> QED BY <1>2, <1>3, <1>4, <1>5 DEF IntakeInv

(* The clock, the tools and the days. *)
LEMMA PassesKeeps ==
  ASSUME IntakeInv, Passes
  PROVE  IntakeInv'
<1>0. /\ runs' = runs /\ req' = req /\ doc' = doc /\ Ids' = Ids
      /\ runs \in [Ids -> RunType] /\ day \in 1..MaxDays /\ used \in 0..DailyLimit
      /\ tools \in 0..DailyLimit /\ DailyLimit \in Nat /\ MaxDays \in Nat \ {0}
  BY Types, Limits DEF Passes, IntakeInv, Ids
<1>1. RequestsKnown' /\ RepliesAreTrue' /\ Rooted' /\ FamiliesNarrow' /\ ChildrenPaid'
  BY <1>0 DEF IntakeInv, RequestsKnown, RepliesAreTrue, Rooted, FamiliesNarrow, ChildrenPaid
<1>2. \A i \in Ids : runs[i].reserved \in Nat /\ runs[i].reserved <= day
  BY <1>0, RunFields DEF IntakeInv, ReservedPast
<1>3. day <= day' /\ day' \in 1..MaxDays
  BY <1>0 DEF Passes
<1>4. ReservedPast'
  BY <1>0, <1>2, <1>3 DEF ReservedPast
<1>5. used = tools + Cardinality(Slots) /\ Cardinality(Slots) \in Nat /\ used <= DailyLimit
  BY SlotsFinite DEF IntakeInv, FamiliesPayOnce, Slots
<1>6. \A i \in Ids : /\ (runs[i].scheduled /\ Budgeted(runs[i].sub)) => runs[i].reserved > 0
                     /\ runs[i].reserved = runs[runs[i].root].reserved
  BY DEF IntakeInv, FamiliesPayOnce
<1>7. used' \in 0..DailyLimit /\ tools' \in 0..DailyLimit /\ used' = tools' + Cardinality(Slots')
  <2>1. CASE day' = day
    <3>1. Slots' = Slots
      BY <1>0, <2>1 DEF Slots
    <3> QED BY <1>0, <1>5, <2>1, <3>1 DEF Passes
  <2>2. CASE day' = day + 1 /\ used' = 0 /\ tools' = 0
    <3>1. Slots' = {}
      BY <1>0, <1>2, <2>2 DEF Slots
    <3> QED BY <1>0, <2>2, <3>1, FS_EmptySet
  <2> QED BY <2>1, <2>2 DEF Passes
<1>8. FamiliesPayOnce'
  BY <1>0, <1>6, <1>7 DEF FamiliesPayOnce, Slots
<1>9. TypeOK'
  BY <1>0, <1>3, <1>7 DEF IntakeInv, TypeOK, Passes
<1> QED BY <1>1, <1>4, <1>8, <1>9 DEF IntakeInv

(* Runs that are written or added, with the old ones of the same origin. *)
Grows ==
  /\ runs' \in Seq(RunType) /\ runs' \in [Ids' -> RunType] /\ Len(runs') <= MaxRuns
  /\ Ids \subseteq Ids'
  /\ \A i \in Ids : SameOrigin(runs'[i], runs[i])

(* Old runs keep their family, and old requests their answer. *)
LEMMA GrowsKeeps ==
  ASSUME IntakeInv, Grows
  PROVE  /\ \A i \in Ids : /\ runs'[i].root \in Ids
                           /\ runs'[i].parent = Root <=> runs'[i].root = i
                           /\ runs'[runs'[i].root].root = runs'[i].root
                           /\ runs'[runs'[i].root].parent = Root
                           /\ WithinRoot(runs'[i], runs'[runs'[i].root])
         /\ \A p \in Processes : req'[p] = req[p] =>
              /\ req'[p].parent \in Ids' \cup {Root}
              /\ req'[p].stage \in {"answered", "conflict"} =>
                   /\ req'[p].run \in Ids'
                   /\ runs'[req'[p].run].sub = runs[req'[p].run].sub
                   /\ runs'[req'[p].run].parent = runs[req'[p].run].parent
<1>1. ASSUME NEW i \in Ids
      PROVE  /\ runs'[i].root \in Ids
             /\ runs'[i].parent = Root <=> runs'[i].root = i
             /\ runs'[runs'[i].root].root = runs'[i].root
             /\ runs'[runs'[i].root].parent = Root
             /\ WithinRoot(runs'[i], runs'[runs'[i].root])
  <2>1. /\ runs[i].root \in Ids /\ (runs[i].parent = Root <=> runs[i].root = i)
        /\ runs[runs[i].root].root = runs[i].root /\ runs[runs[i].root].parent = Root
        /\ WithinRoot(runs[i], runs[runs[i].root])
    BY DEF IntakeInv, Rooted, FamiliesNarrow
  <2>2. SameOrigin(runs'[i], runs[i]) /\ SameOrigin(runs'[runs[i].root], runs[runs[i].root])
    BY <2>1 DEF Grows
  <2> QED BY <2>1, <2>2 DEF SameOrigin, WithinRoot
<1>2. ASSUME NEW p \in Processes, req'[p] = req[p]
      PROVE  /\ req'[p].parent \in Ids' \cup {Root}
             /\ req'[p].stage \in {"answered", "conflict"} =>
                  /\ req'[p].run \in Ids'
                  /\ runs'[req'[p].run].sub = runs[req'[p].run].sub
                  /\ runs'[req'[p].run].parent = runs[req'[p].run].parent
  BY <1>2 DEF Grows, SameOrigin, IntakeInv, RequestsKnown
<1> QED BY <1>1, <1>2

(* A row that is written. *)
LEMMA UpdateGrows ==
  ASSUME IntakeInv, NEW i \in Ids, NEW r \in RunType, Updates(i, r)
  PROVE  Grows /\ Ids' = Ids /\ runs'[i] = r /\ \A j \in Ids \ {i} : runs'[j] = runs[j]
<1>0. runs \in [Ids -> RunType] /\ Len(runs) \in Nat /\ Len(runs) <= MaxRuns
  BY Types DEF IntakeInv
<1>1. runs' \in [Ids -> RunType] /\ runs'[i] = r /\ \A j \in Ids \ {i} : runs'[j] = runs[j]
  BY <1>0 DEF Updates
<1>2. runs' \in Seq(RunType) /\ Len(runs') = Len(runs)
  BY <1>0, <1>1, FunctionIsSeq DEF Ids
<1>3. Ids' = Ids
  BY <1>2 DEF Ids
<1>4. \A j \in Ids : SameOrigin(runs'[j], runs[j])
  BY <1>1 DEF Updates, SameOrigin
<1> QED BY <1>0, <1>1, <1>2, <1>3, <1>4 DEF Grows

(* A row that is added. *)
LEMMA InsertGrows ==
  ASSUME IntakeInv, NEW p \in Processes, NEW r \in RunType, Inserts(p, r)
  PROVE  LET n == Len(runs) + 1 IN
         /\ Grows /\ n \notin Ids /\ Ids' = Ids \cup {n} /\ runs'[n] = r
         /\ \A j \in Ids : runs'[j] = runs[j]
         /\ n \in 0..MaxRuns
<1>0. /\ runs \in Seq(RunType) /\ Len(runs) \in Nat /\ MaxRuns \in Nat
      /\ runs' = Append(runs, r) /\ Len(runs) < MaxRuns
  BY Types, Limits DEF IntakeInv, Inserts
<1>1. /\ runs' \in Seq(RunType) /\ Len(runs') = Len(runs) + 1
      /\ runs'[Len(runs) + 1] = r /\ \A j \in 1..Len(runs) : runs'[j] = runs[j]
  BY <1>0
<1>2. Ids' = Ids \cup {Len(runs) + 1} /\ Len(runs) + 1 \notin Ids
  BY <1>0, <1>1 DEF Ids
<1>3. runs' \in [Ids' -> RunType]
  BY <1>1, SeqIsFunction DEF Ids
<1>4. \A j \in Ids : runs'[j] = runs[j] /\ SameOrigin(runs'[j], runs[j])
  BY <1>1 DEF Ids, SameOrigin
<1> QED BY <1>0, <1>1, <1>2, <1>3, <1>4 DEF Grows

(* The row that pays: a root, and alone in its family so far. *)
LEMMA PayerIsRoot ==
  ASSUME IntakeInv, NEW i \in Ids, Budgeted(runs[i].sub), runs[i].reserved = 0
  PROVE  runs[i].parent = Root /\ \A j \in Ids : runs[j].root = i => j = i
<1>0. runs \in [Ids -> RunType]
  BY Types DEF IntakeInv
<1>1. runs[i].parent = Root
  BY DEF IntakeInv, ChildrenPaid, Budgeted
<1>2. ASSUME NEW j \in Ids, runs[j].root = i, j # i
      PROVE  FALSE
  <2>1. runs[j].parent # Root /\ runs[j].sub.actor = "agent"
    BY <1>2 DEF IntakeInv, Rooted, FamiliesNarrow, WithinRoot, Budgeted
  <2>2. runs[j].reserved > 0 /\ runs[j].reserved = 0
    BY <1>2, <2>1 DEF IntakeInv, ChildrenPaid, FamiliesPayOnce
  <2> QED BY <2>2
<1> QED BY <1>1, <1>2

(* Scheduling, starting or closing a run. *)
LEMMA UpdatesKeeps ==
  ASSUME IntakeInv, NEW i \in Ids, NEW r \in RunType, Updates(i, r)
  PROVE  IntakeInv'
<1>0. /\ Grows /\ Ids' = Ids /\ runs'[i] = r /\ \A j \in Ids \ {i} : runs'[j] = runs[j]
      /\ req' = req /\ clock' = clock /\ doc' = doc /\ day' = day /\ tools' = tools
      /\ runs \in [Ids -> RunType] /\ day \in 1..MaxDays /\ used \in 0..DailyLimit
      /\ DailyLimit \in Nat /\ MaxDays \in Nat
      /\ SameOrigin(r, runs[i]) /\ Pays(runs[i], r)
  BY UpdateGrows, Types, Limits DEF IntakeInv, Updates
<1>1. RequestsKnown'
  BY <1>0, GrowsKeeps DEF RequestsKnown
<1>2. RepliesAreTrue'
  <2> SUFFICES ASSUME NEW q \in Processes
               PROVE  LET y == req[q] IN
                      /\ y.stage \in {"answered", "conflict"} =>
                           Scope(runs'[y.run].sub, runs'[y.run].parent) = Scope(y.sub, y.parent)
                      /\ y.stage = "answered" => runs'[y.run].sub.content = y.sub.content
                      /\ y.stage = "conflict" => runs'[y.run].sub.content # y.sub.content
    BY <1>0 DEF RepliesAreTrue, Scope
  <2>1. req[q].stage \in {"answered", "conflict"} =>
          /\ runs'[req[q].run].sub = runs[req[q].run].sub
          /\ runs'[req[q].run].parent = runs[req[q].run].parent
    BY <1>0, GrowsKeeps
  <2> QED BY <2>1 DEF IntakeInv, RepliesAreTrue
<1>3. Rooted' /\ FamiliesNarrow'
  BY <1>0, GrowsKeeps DEF Rooted, FamiliesNarrow
<1>4. r.reserved \in Nat /\ runs[i].reserved \in Nat /\ used \in Nat /\ day > 0 /\ day \in Nat
  BY <1>0, RunFields
<1>5. /\ r.reserved = runs[i].reserved \/ r.reserved = day
      /\ runs[i].reserved > 0 => r.reserved > 0
  BY <1>0, <1>4 DEF Pays
<1>6. ChildrenPaid'
  BY <1>0, <1>5 DEF IntakeInv, ChildrenPaid, SameOrigin
<1>7. ReservedPast'
  BY <1>0, <1>4, <1>5 DEF IntakeInv, ReservedPast
<1>8. /\ used = tools + Cardinality(Slots) /\ IsFiniteSet(Slots) /\ Cardinality(Slots) \in Nat
      /\ tools \in Nat
  BY SlotsFinite, Types, Limits DEF IntakeInv, FamiliesPayOnce, Slots
<1>9. \A j \in Ids : runs'[j].sub = runs[j].sub /\ runs'[j].parent = runs[j].parent
                     /\ runs'[j].root = runs[j].root /\ runs[j].root \in Ids
  BY <1>0 DEF Grows, SameOrigin, IntakeInv, Rooted
<1>10. /\ used' \in 0..DailyLimit /\ used' = tools' + Cardinality(Slots')
       /\ \A j \in Ids : runs'[j].reserved = runs'[runs'[j].root].reserved
  <2>1. CASE r.reserved = runs[i].reserved /\ used' = used
    <3>1. \A j \in Ids : runs'[j].reserved = runs[j].reserved
      BY <1>0, <2>1
    <3>2. Slots' = Slots
      BY <1>0, <1>9, <3>1 DEF Slots
    <3> QED BY <1>0, <1>8, <1>9, <2>1, <3>1, <3>2 DEF IntakeInv, FamiliesPayOnce
  <2>2. CASE /\ Budgeted(runs[i].sub) /\ runs[i].reserved = 0 /\ r.reserved = day
             /\ used < DailyLimit /\ used' = used + 1
    <3>1. runs[i].parent = Root /\ \A j \in Ids : runs[j].root = i => j = i
      BY <2>2, PayerIsRoot
    <3>2. Slots' = Slots \cup {i} /\ i \notin Slots
      BY <1>0, <1>4, <1>9, <2>2, <3>1 DEF Slots
    <3>3. Cardinality(Slots') = Cardinality(Slots) + 1
      BY <1>8, <3>2, FS_AddElement
    <3>4. runs[i].root = i
      BY <3>1 DEF IntakeInv, Rooted
    <3>5. \A j \in Ids : runs'[j].reserved = runs'[runs'[j].root].reserved
      BY <1>0, <1>9, <3>1, <3>4 DEF IntakeInv, FamiliesPayOnce
    <3> QED BY <1>0, <1>4, <1>8, <2>2, <3>3, <3>5
  <2> QED BY <1>0, <2>1, <2>2 DEF Pays
<1>11. \A j \in Ids : runs'[j].scheduled /\ Budgeted(runs'[j].sub) => runs'[j].reserved > 0
  <2>1. \A j \in Ids : runs[j].scheduled /\ Budgeted(runs[j].sub) => runs[j].reserved > 0
    BY DEF IntakeInv, FamiliesPayOnce
  <2>2. r.scheduled /\ Budgeted(r.sub) => r.reserved > 0
    BY <1>0, <2>1 DEF Pays, SameOrigin
  <2> QED BY <1>0, <2>1, <2>2
<1>12. FamiliesPayOnce'
  BY <1>0, <1>10, <1>11, Limits DEF FamiliesPayOnce, Slots
<1>13. TypeOK'
  BY <1>0, <1>10 DEF IntakeInv, TypeOK, Grows
<1> QED BY <1>1, <1>2, <1>3, <1>6, <1>7, <1>12, <1>13 DEF IntakeInv

(* A child has no more than its parent, hence no more than its root. *)
LEMMA ChildWithinRoot ==
  ASSUME IntakeInv, NEW up \in Ids, NEW r \in RunType, LineageAllows(r.sub, up),
         r.inputUntil <= runs[up].inputUntil, r.keyUntil <= runs[up].keyUntil
  PROVE  WithinRoot(r, runs[runs[up].root])
<1> DEFINE top == runs[runs[up].root]
<1>1. runs[up] \in RunType /\ top \in RunType /\ WithinRoot(runs[up], top)
  BY Types DEF IntakeInv, Rooted, FamiliesNarrow
<1> HIDE DEF top
<1>2. /\ r.sub.policy.risk \in Nat /\ r.sub.policy.retry \in Nat
      /\ r.inputUntil \in Nat /\ r.keyUntil \in Nat
  BY RunFields, SubFields
<1>3. /\ runs[up].sub.policy.risk \in Nat /\ runs[up].sub.policy.retry \in Nat
      /\ runs[up].inputUntil \in Nat /\ runs[up].keyUntil \in Nat
  BY <1>1, RunFields, SubFields
<1>4. /\ top.sub.policy.risk \in Nat /\ top.sub.policy.retry \in Nat
      /\ top.inputUntil \in Nat /\ top.keyUntil \in Nat
  BY <1>1, RunFields, SubFields
<1>5. /\ r.sub.actor = runs[up].sub.actor /\ r.sub.ambient \subseteq runs[up].sub.ambient
      /\ WithinCeiling(r.sub, runs[up])
  BY DEF LineageAllows
<1>6. WithinRoot(r, top)
  BY <1>1, <1>2, <1>3, <1>4, <1>5 DEF WithinRoot, WithinCeiling
<1> QED BY <1>6 DEF top

(* The run that is inserted joins its family. *)
LEMMA InsertJoins ==
  ASSUME IntakeInv, NEW p \in Processes, NEW r \in RunType, Inserts(p, r)
  PROVE  LET n == Len(runs) + 1 IN
         /\ r.root \in Ids' /\ (r.parent = Root <=> r.root = n)
         /\ runs'[r.root].root = r.root /\ runs'[r.root].parent = Root
         /\ WithinRoot(r, runs'[r.root])
         /\ r.sub = req[p].sub /\ r.parent = req[p].parent
         /\ r.parent = Root => NewRun(p).reserved = 0
         /\ r.parent # Root => /\ NewRun(p).reserved = runs[r.root].reserved /\ r.root \in Ids
                               /\ r.sub.actor = "agent" => NewRun(p).reserved > 0
<1> DEFINE n == Len(runs) + 1
           up == req[p].parent
<1>0. /\ Ids' = Ids \cup {n} /\ n \notin Ids /\ runs'[n] = r /\ \A j \in Ids : runs'[j] = runs[j]
      /\ runs \in [Ids -> RunType]
  BY InsertGrows, Types DEF IntakeInv
<1>1. PICK x : x = NewRun(p)
  OBVIOUS
<1>2. /\ x \in RunType /\ x.sub = req[p].sub /\ x.parent = up
      /\ up = Root => x.root = n /\ x.reserved = 0
      /\ up # Root => /\ up \in Ids /\ LineageAllows(x.sub, up) /\ x.root = runs[up].root
                      /\ x.inputUntil <= runs[up].inputUntil /\ x.keyUntil <= runs[up].keyUntil
                      /\ x.reserved = runs[runs[up].root].reserved
  BY <1>1, NewRunFacts DEF Inserts
<1>3. /\ r.sub = x.sub /\ r.parent = x.parent /\ r.root = x.root
      /\ r.inputUntil = x.inputUntil /\ r.keyUntil = x.keyUntil
  BY <1>1 DEF Inserts, SameOrigin
<1> HIDE DEF n, up
<1>4. CASE up = Root
  <2>1. r.root = n /\ r.parent = Root /\ x.reserved = 0
    BY <1>2, <1>3, <1>4
  <2>2. r.inputUntil \in Nat /\ r.keyUntil \in Nat /\ r.sub.policy.risk \in Nat
        /\ r.sub.policy.retry \in Nat
    BY RunFields, SubFields
  <2>3. WithinRoot(r, r)
    BY <2>2 DEF WithinRoot
  <2> QED BY <1>0, <1>1, <1>2, <1>3, <2>1, <2>3 DEF n, up
<1>5. CASE up # Root
  <2>1. /\ up \in Ids /\ LineageAllows(r.sub, up) /\ r.root = runs[up].root /\ r.parent # Root
        /\ r.inputUntil <= runs[up].inputUntil /\ r.keyUntil <= runs[up].keyUntil
    BY <1>2, <1>3, <1>5
  <2>2. /\ r.root \in Ids /\ runs[r.root].root = r.root /\ runs[r.root].parent = Root
    BY <2>1 DEF IntakeInv, Rooted, FamiliesNarrow
  <2>3. WithinRoot(r, runs[r.root])
    BY <2>1, ChildWithinRoot
  <2>4. x.reserved = runs[r.root].reserved /\ (r.sub.actor = "agent" => x.reserved > 0)
    BY <1>2, <1>5, <2>1 DEF LineageAllows
  <2>5. runs'[r.root] = runs[r.root] /\ r.root # n /\ r.root \in Ids'
    BY <1>0, <2>2
  <2> QED BY <1>1, <1>2, <1>3, <2>1, <2>2, <2>3, <2>4, <2>5 DEF n, up
<1> QED BY <1>4, <1>5

(* The insert. *)
LEMMA InsertsKeeps ==
  ASSUME IntakeInv, NEW p \in Processes, NEW r \in RunType, Inserts(p, r)
  PROVE  IntakeInv'
<1> DEFINE n == Len(runs) + 1
<1>0. /\ Grows /\ n \notin Ids /\ Ids' = Ids \cup {n} /\ runs'[n] = r
      /\ \A j \in Ids : runs'[j] = runs[j]
      /\ n \in 0..MaxRuns
      /\ clock' = clock /\ doc' = doc /\ day' = day /\ tools' = tools
      /\ runs \in [Ids -> RunType] /\ day \in 1..MaxDays /\ used \in 0..DailyLimit
      /\ req \in [Processes -> RequestType] /\ tools \in Nat
      /\ DailyLimit \in Nat /\ MaxDays \in Nat
  BY InsertGrows, Types, Limits DEF IntakeInv, Inserts
<1>1. PICK x : x = NewRun(p)
  OBVIOUS
<1>2. /\ r.root \in Ids' /\ (r.parent = Root <=> r.root = n)
      /\ runs'[r.root].root = r.root /\ runs'[r.root].parent = Root
      /\ WithinRoot(r, runs'[r.root])
      /\ r.sub = req[p].sub /\ r.parent = req[p].parent
      /\ r.parent = Root => x.reserved = 0
      /\ r.parent # Root => /\ x.reserved = runs[r.root].reserved /\ r.root \in Ids
                            /\ r.sub.actor = "agent" => x.reserved > 0
  BY <1>1, InsertJoins
<1>3. x \in RunType /\ ~x.scheduled /\ Pays(x, r) /\ x.sub = r.sub /\ x.reserved \in Nat
  BY <1>1, NewRunFacts, RunFields DEF Inserts, SameOrigin
<1>4. PICK y \in RequestType :
        /\ req' = [req EXCEPT ![p] = y] /\ y.stage = "answered" /\ y.run = n
        /\ y.sub = req[p].sub /\ y.parent = req[p].parent
  <2>1. "answered" \in Stages
    BY DEF Stages, Free
  <2> QED BY <1>0, <2>1, SetRequest DEF Inserts
<1> HIDE DEF n
<1>5. /\ req' \in [Processes -> RequestType] /\ req'[p] = y
      /\ \A q \in Processes \ {p} : req'[q] = req[q]
  BY <1>0, <1>4
<1>6. RequestsKnown'
  <2>1. y.parent \in Ids' \cup {Root}
    BY <1>0, <1>4 DEF IntakeInv, RequestsKnown
  <2>2. y.run \in Ids'
    BY <1>0, <1>4
  <2> QED BY <1>0, <1>5, <2>1, <2>2, GrowsKeeps DEF RequestsKnown
<1>7. RepliesAreTrue'
  <2> SUFFICES ASSUME NEW q \in Processes
               PROVE  LET z == req'[q] IN
                      /\ z.stage \in {"answered", "conflict"} =>
                           Scope(runs'[z.run].sub, runs'[z.run].parent) = Scope(z.sub, z.parent)
                      /\ z.stage = "answered" => runs'[z.run].sub.content = z.sub.content
                      /\ z.stage = "conflict" => runs'[z.run].sub.content # z.sub.content
    BY DEF RepliesAreTrue, Scope
  <2>1. CASE q = p
    BY <1>0, <1>2, <1>4, <1>5, <2>1
  <2>2. CASE q # p
    <3>1. req'[q] = req[q]
      BY <1>5, <2>2
    <3>2. req[q].stage \in {"answered", "conflict"} => runs'[req[q].run] = runs[req[q].run]
      BY <1>0 DEF IntakeInv, RequestsKnown
    <3> QED BY <3>1, <3>2 DEF IntakeInv, RepliesAreTrue
  <2> QED BY <2>1, <2>2
<1>8. Rooted' /\ FamiliesNarrow'
  BY <1>0, <1>2, GrowsKeeps DEF Rooted, FamiliesNarrow
<1>9. r.reserved \in Nat /\ day > 0 /\ day \in Nat /\ used \in Nat
  BY <1>0, RunFields
<1>10. x.reserved > 0 => r.reserved > 0
  BY <1>3, <1>9 DEF Pays
<1>11. ChildrenPaid'
  BY <1>0, <1>2, <1>10 DEF IntakeInv, ChildrenPaid
<1>12. x.reserved <= day
  <2>1. \A j \in Ids : runs[j].reserved \in Nat /\ runs[j].reserved <= day
    BY <1>0, RunFields DEF IntakeInv, ReservedPast
  <2> QED BY <1>2, <1>9, <2>1
<1>13. r.reserved <= day
  BY <1>3, <1>9, <1>12 DEF Pays
<1>14. ReservedPast'
  BY <1>0, <1>13 DEF IntakeInv, ReservedPast
<1>15. used = tools + Cardinality(Slots) /\ IsFiniteSet(Slots) /\ Cardinality(Slots) \in Nat
  BY SlotsFinite DEF IntakeInv, FamiliesPayOnce, Slots
<1>16. \A j \in Ids : runs[j].reserved = runs[runs[j].root].reserved /\ runs[j].root \in Ids
  BY DEF IntakeInv, FamiliesPayOnce, Rooted
<1>17. /\ used' \in 0..DailyLimit /\ used' = tools' + Cardinality(Slots')
       /\ r.reserved = runs'[r.root].reserved
  <2>1. CASE r.reserved = x.reserved /\ used' = used
    <3>1. ~(r.parent = Root /\ r.reserved = day)
      BY <1>2, <1>9, <2>1
    <3>2. Slots' = Slots
      BY <1>0, <3>1 DEF Slots
    <3>3. r.reserved = runs'[r.root].reserved
      BY <1>0, <1>2, <2>1
    <3> QED BY <1>0, <1>15, <2>1, <3>2, <3>3
  <2>2. CASE /\ Budgeted(x.sub) /\ x.reserved = 0 /\ r.reserved = day
             /\ used < DailyLimit /\ used' = used + 1
    <3>1. r.parent = Root
      BY <1>2, <1>3, <2>2 DEF Budgeted
    <3>2. Slots' = Slots \cup {n} /\ n \notin Slots
      BY <1>0, <2>2, <3>1 DEF Slots
    <3>3. Cardinality(Slots') = Cardinality(Slots) + 1
      BY <1>15, <3>2, FS_AddElement
    <3>4. r.reserved = runs'[r.root].reserved
      BY <1>0, <1>2, <3>1
    <3> QED BY <1>0, <1>9, <1>15, <2>2, <3>3, <3>4
  <2> QED BY <1>3, <2>1, <2>2 DEF Pays
<1>18. r.scheduled /\ Budgeted(r.sub) => r.reserved > 0
  BY <1>3 DEF Pays
<1>19. FamiliesPayOnce'
  <2>1. \A j \in Ids' : /\ runs'[j].scheduled /\ Budgeted(runs'[j].sub) => runs'[j].reserved > 0
                        /\ runs'[j].reserved = runs'[runs'[j].root].reserved
    BY <1>0, <1>16, <1>17, <1>18 DEF IntakeInv, FamiliesPayOnce
  <2> QED BY <1>0, <1>17, <2>1 DEF FamiliesPayOnce, Slots
<1>20. TypeOK'
  BY <1>0, <1>5, <1>17 DEF IntakeInv, TypeOK, Grows
<1> QED BY <1>6, <1>7, <1>8, <1>11, <1>14, <1>19, <1>20 DEF IntakeInv

(* Every step keeps the invariant. *)
LEMMA InvNext ==
  ASSUME IntakeInv, [Next]_vars
  PROVE  IntakeInv'
<1>1. CASE Next
  BY <1>1, NextMoves, AsksKeeps, UpdatesKeeps, InsertsKeeps, PassesKeeps DEF Moves
<1>2. CASE UNCHANGED vars
  BY <1>2 DEF vars, IntakeInv, TypeOK, RequestsKnown, RepliesAreTrue, Rooted, FamiliesNarrow,
              ChildrenPaid, ReservedPast, FamiliesPayOnce, Ids
<1> QED BY <1>1, <1>2

-----------------------------------------------------------------------------
(* One run of a key. *)

(* Two neighbouring documents read what either writes. *)
LEMMA NeighboursRead ==
  ASSUME SafeRotation, NEW i \in DOMAIN Documents, NEW j \in DOMAIN Documents,
         i <= j + 1, j <= i + 1
  PROVE  Documents[i].current \in Documents[j].keys
<1>1. i \in Nat /\ j \in Nat
  BY DocumentFields
<1>2. CASE i = j
  BY <1>2, DocumentFields
<1>3. CASE i = j + 1
  BY <1>3 DEF SafeRotation
<1>4. CASE j = i + 1
  BY <1>4 DEF SafeRotation
<1> QED BY <1>1, <1>2, <1>3, <1>4

(* The locks at the start. *)
LEMMA KeyInit ==
  ASSUME Init
  PROVE  KeyInv
<1>1. /\ \A p \in Processes : req[p].stage = "idle" /\ doc[p] = 1
      /\ Ids = {}
  BY NoRequestTyped DEF Init, Ids
<1> QED BY <1>1 DEF KeyInv, Adjacent, Readable, LockExclusive, AbsentIsNew, OneRunPerKey,
                    InFlight, InTransaction

(* A step of one process that leaves the runs alone. *)
LEMMA RequestKeeps ==
  ASSUME IntakeInv, KeyInv, NEW p \in Processes, NEW x \in RequestType,
         req' = [req EXCEPT ![p] = x], runs' = runs, Adjacent',
         \A q \in Processes \ {p} : doc'[q] = doc[q],
         x.stage \in InFlight =>
           \A i \in Ids : runs[i].keyUntil > x.now => runs[i].version \in Documents[doc'[p]].keys,
         x.stage \in InTransaction =>
           \A q \in Processes \ {p} :
             req[q].stage \in InTransaction => LockOf(q) # Scope(x.sub, x.parent),
         x.stage = "absent" =>
           \A i \in Ids : Scope(runs[i].sub, runs[i].parent) = Scope(x.sub, x.parent) =>
             runs[i].keyUntil <= x.now
  PROVE  KeyInv'
<1>0. /\ req'[p] = x /\ \A q \in Processes \ {p} : req'[q] = req[q]
      /\ Ids' = Ids
  BY Types DEF IntakeInv, Ids
<1>1. Readable'
  BY <1>0 DEF KeyInv, Readable, Keyring
<1>2. LockExclusive'
  <2> SUFFICES ASSUME NEW q \in Processes, NEW o \in Processes, q # o,
                      req'[q].stage \in InTransaction, req'[o].stage \in InTransaction
               PROVE  LockOf(q)' # LockOf(o)'
    BY DEF LockExclusive
  <2>1. CASE q # p /\ o # p
    BY <1>0, <2>1 DEF KeyInv, LockExclusive, LockOf
  <2>2. CASE q = p
    BY <1>0, <2>2 DEF LockOf
  <2>3. CASE o = p
    BY <1>0, <2>3 DEF LockOf
  <2> QED BY <2>1, <2>2, <2>3
<1>3. AbsentIsNew'
  BY <1>0 DEF KeyInv, AbsentIsNew, LockOf
<1>4. OneRunPerKey'
  BY <1>0 DEF KeyInv, OneRunPerKey
<1> QED BY <1>1, <1>2, <1>3, <1>4 DEF KeyInv

(* A process that lets go keeps no lock. *)
LEMMA LetsGoKeeps ==
  ASSUME IntakeInv, KeyInv, NEW p \in Processes, req' = [req EXCEPT ![p] = NoRequest],
         runs' = runs, Adjacent', \A q \in Processes \ {p} : doc'[q] = doc[q]
  PROVE  KeyInv'
<1>1. NoRequest.stage \notin InFlight
  BY NoRequestTyped DEF InFlight, InTransaction
<1> QED BY <1>1, NoRequestTyped, RequestKeeps DEF InFlight, InTransaction

(* Submitting, locking, looking, letting go. *)
LEMMA KeysAsk ==
  ASSUME IntakeInv, KeyInv, NEW p \in Processes,
         \/ \E s \in Submissions, parent \in Parents : Submit(p, s, parent)
         \/ AcquireSubmissionLock(p) \/ FindReplay(p) \/ Abort(p)
         \/ InsertRun(p) /\ ~Insertable(p)
         \/ Restart(p)
  PROVE  KeyInv'
<1>0. /\ runs' = runs /\ req[p] \in RequestType /\ doc \in [Processes -> DOMAIN Documents]
  BY Types DEF IntakeInv, Submit, AcquireSubmissionLock, FindReplay, Abort, InsertRun, Restart
<1>1. Adjacent'
  <2>1. CASE doc' = doc
    BY <2>1 DEF KeyInv, Adjacent
  <2>2. CASE Restart(p)
    <3>1. \A q \in Processes : doc[q] \in Nat /\ doc[q] >= doc[p] /\ doc[q] <= doc[p] + 1
      BY <1>0, <2>2, DocumentFields DEF Restart, KeyInv, Adjacent
    <3>2. /\ doc'[p] = doc[p] + 1 /\ \A q \in Processes \ {p} : doc'[q] = doc[q]
      BY <1>0, <2>2 DEF Restart
    <3>3. \A q, o \in Processes : doc[q] <= doc[o] + 1
      BY DEF KeyInv, Adjacent
    <3> QED BY <3>1, <3>2, <3>3 DEF Adjacent
  <2> QED BY <2>1, <2>2 DEF Submit, AcquireSubmissionLock, FindReplay, Abort, InsertRun
<1>2. \A q \in Processes \ {p} : doc'[q] = doc[q]
  BY <1>0 DEF Submit, AcquireSubmissionLock, FindReplay, Abort, InsertRun, Restart
<1>3. CASE req' = [req EXCEPT ![p] = NoRequest]
  BY <1>0, <1>1, <1>2, <1>3, LetsGoKeeps
<1>4. ASSUME NEW s \in Submissions, NEW parent \in Parents, Submit(p, s, parent),
             KeysAvailable(Keyring(p))
      PROVE  KeyInv'
  <2>1. PICK x : x = [stage |-> "ready", sub |-> s, parent |-> parent, now |-> clock, run |-> NoRun]
    OBVIOUS
  <2>2. x \in RequestType /\ x.stage = "ready" /\ x.now = clock
    <3>1. clock \in 0..MaxTime /\ NoRun \in 0..MaxRuns
      BY Types, Limits DEF IntakeInv, NoRun
    <3> QED BY <2>1, <3>1 DEF RequestType
  <2>3. req' = [req EXCEPT ![p] = x] /\ doc' = doc
    BY <1>4, <2>1 DEF Submit
  <2>4. \A i \in Ids : runs[i].keyUntil > x.now => runs[i].version \in Documents[doc'[p]].keys
    BY <1>4, <2>2, <2>3 DEF KeysAvailable, Keyring
  <2>5. x.stage \notin InTransaction /\ x.stage # "absent"
    BY <2>2 DEF InTransaction
  <2> QED BY <1>0, <1>1, <1>2, <2>2, <2>3, <2>4, <2>5, RequestKeeps
<1>5. CASE AcquireSubmissionLock(p)
  <2>1. NoRun \in 0..MaxRuns /\ "locked" \in Stages /\ req[p].stage \in InFlight
    BY <1>5, Limits DEF NoRun, Stages, InTransaction, AcquireSubmissionLock, InFlight
  <2>2. PICK x \in RequestType :
          /\ req' = [req EXCEPT ![p] = x] /\ x.stage = "locked"
          /\ x.sub = req[p].sub /\ x.parent = req[p].parent /\ x.now = req[p].now
    BY <1>5, <2>1, SetRequest DEF AcquireSubmissionLock
  <2>3. doc' = doc /\ \A i \in Ids : runs[i].keyUntil > x.now => runs[i].version \in Documents[doc[p]].keys
    BY <1>5, <2>1, <2>2 DEF KeyInv, Readable, Keyring, AcquireSubmissionLock
  <2>4. \A q \in Processes \ {p} :
          req[q].stage \in InTransaction => LockOf(q) # Scope(x.sub, x.parent)
    BY <1>5, <2>2 DEF AcquireSubmissionLock, LockIsFree, LockOf
  <2> QED BY <1>0, <1>1, <1>2, <2>2, <2>3, <2>4, RequestKeeps
<1>6. CASE FindReplay(p)
  <2>1. /\ NoRun \in 0..MaxRuns /\ Ids \subseteq 0..MaxRuns
        /\ {"absent", "answered", "conflict"} \subseteq Stages
        /\ req[p].stage \in InFlight /\ req[p].stage \in InTransaction /\ doc' = doc
    BY <1>6, Types, Limits DEF NoRun, Ids, Stages, Free, InTransaction, InFlight, FindReplay, IntakeInv
  <2>2. \A i \in Ids : runs[i].keyUntil > req[p].now => runs[i].version \in Documents[doc[p]].keys
    BY <2>1 DEF KeyInv, Readable, Keyring
  <2>3. CASE Replays(p) = {} /\ Set(p, "absent", NoRun)
    <3>1. PICK x \in RequestType :
            /\ req' = [req EXCEPT ![p] = x] /\ x.stage = "absent"
            /\ x.sub = req[p].sub /\ x.parent = req[p].parent /\ x.now = req[p].now
      BY <2>1, <2>3, SetRequest
    <3>2. \A q \in Processes \ {p} :
            req[q].stage \in InTransaction => LockOf(q) # Scope(x.sub, x.parent)
      BY <2>1, <3>1 DEF KeyInv, LockExclusive, LockOf
    <3>3. req[p].now \in Nat
      BY <1>0, Limits DEF RequestType
    <3>4. \A i \in Ids : runs[i].keyUntil \in Nat
      BY Types, RunFields DEF IntakeInv
    <3>5. \A i \in Ids : Scope(runs[i].sub, runs[i].parent) = LockOf(p) =>
            ~(runs[i].keyUntil > req[p].now)
      BY <2>2, <2>3 DEF Replays, Candidates, Keyring
    <3>6. \A i \in Ids : Scope(runs[i].sub, runs[i].parent) = Scope(x.sub, x.parent) =>
            runs[i].keyUntil <= x.now
      BY <3>1, <3>3, <3>4, <3>5 DEF LockOf
    <3> QED BY <1>0, <1>1, <1>2, <2>1, <2>2, <3>1, <3>2, <3>6, RequestKeeps
  <2>4. ASSUME NEW i \in Ids, NEW stage \in {"answered", "conflict"}, Set(p, stage, i)
        PROVE  KeyInv'
    <3>1. PICK x \in RequestType : req' = [req EXCEPT ![p] = x] /\ x.stage = stage
      BY <2>1, <2>4, SetRequest
    <3>2. x.stage \notin InFlight /\ x.stage \notin InTransaction /\ x.stage # "absent"
      BY <3>1 DEF InFlight, InTransaction
    <3> QED BY <1>0, <1>1, <1>2, <3>1, <3>2, RequestKeeps
  <2> QED BY <1>6, <2>3, <2>4 DEF FindReplay, Replays
<1> QED BY <1>3, <1>4, <1>5, <1>6 DEF Submit, Abort, InsertRun, Restart

(* An update of a run, and the passing of time. *)
LEMMA KeysStay ==
  ASSUME IntakeInv, KeyInv, req' = req, doc' = doc, Ids' = Ids,
         \A i \in Ids : SameOrigin(runs'[i], runs[i])
  PROVE  KeyInv'
<1>1. Adjacent' /\ LockExclusive'
  BY DEF KeyInv, Adjacent, LockExclusive, LockOf
<1>2. Readable'
  BY DEF KeyInv, Readable, Keyring, SameOrigin
<1>3. AbsentIsNew'
  BY DEF KeyInv, AbsentIsNew, LockOf, SameOrigin
<1>4. OneRunPerKey'
  BY DEF KeyInv, OneRunPerKey, SameOrigin
<1> QED BY <1>1, <1>2, <1>3, <1>4 DEF KeyInv

(* The insert: under the lock, after a look that found nothing. *)
LEMMA KeysInsert ==
  ASSUME SafeRotation, IntakeInv, KeyInv, NEW p \in Processes, NEW r \in RunType, Inserts(p, r)
  PROVE  KeyInv'
<1> DEFINE n == Len(runs) + 1
<1>0. /\ n \notin Ids /\ Ids' = Ids \cup {n} /\ runs'[n] = r /\ \A j \in Ids : runs'[j] = runs[j]
      /\ n \in 0..MaxRuns /\ doc' = doc /\ req[p].stage = "absent"
      /\ req \in [Processes -> RequestType] /\ doc \in [Processes -> DOMAIN Documents]
  BY InsertGrows, Types DEF IntakeInv, Inserts
<1>1. n \in Nat /\ \A i \in Ids : i \in Nat /\ i < n
  BY Types DEF IntakeInv, Ids
<1>2. /\ r.sub = req[p].sub /\ r.parent = req[p].parent /\ r.created = req[p].now
      /\ r.version = Documents[doc[p]].current
  BY NewRunFacts DEF Inserts, SameOrigin
<1>3. PICK y \in RequestType : req' = [req EXCEPT ![p] = y] /\ y.stage = "answered"
  <2>1. "answered" \in Stages
    BY DEF Stages, Free
  <2> QED BY <1>0, <2>1, SetRequest DEF Inserts
<1> HIDE DEF n
<1>4. /\ req'[p].stage \notin InFlight /\ req'[p].stage \notin InTransaction /\ req'[p].stage # "absent"
      /\ \A q \in Processes \ {p} : req'[q] = req[q]
  BY <1>0, <1>3 DEF InFlight, InTransaction
<1>5. Adjacent'
  BY <1>0 DEF KeyInv, Adjacent
<1>6. Readable'
  <2> SUFFICES ASSUME NEW q \in Processes \ {p}, req[q].stage \in InFlight, NEW i \in Ids',
                      runs'[i].keyUntil > req[q].now
               PROVE  runs'[i].version \in Documents[doc[q]].keys
    BY <1>0, <1>4 DEF Readable, Keyring
  <2>1. CASE i = n
    <3>1. doc[p] <= doc[q] + 1 /\ doc[q] <= doc[p] + 1
      BY DEF KeyInv, Adjacent
    <3>2. Documents[doc[p]].current \in Documents[doc[q]].keys
      BY <1>0, <3>1, NeighboursRead
    <3> QED BY <1>0, <1>2, <2>1, <3>2
  <2>2. CASE i \in Ids
    BY <1>0, <2>2 DEF KeyInv, Readable, Keyring
  <2> QED BY <1>0, <2>1, <2>2
<1>7. LockExclusive'
  BY <1>4 DEF KeyInv, LockExclusive, LockOf
<1>8. AbsentIsNew'
  <2> SUFFICES ASSUME NEW q \in Processes \ {p}, req[q].stage = "absent", NEW i \in Ids',
                      Scope(runs'[i].sub, runs'[i].parent) = LockOf(q)
               PROVE  runs'[i].keyUntil <= req[q].now
    BY <1>4 DEF AbsentIsNew, LockOf
  <2>1. CASE i = n
    <3>1. LockOf(p) = LockOf(q)
      BY <1>0, <1>2, <2>1 DEF LockOf
    <3>2. LockOf(p) # LockOf(q)
      BY <1>0 DEF KeyInv, LockExclusive, InTransaction
    <3> QED BY <3>1, <3>2
  <2>2. CASE i \in Ids
    BY <1>0, <2>2 DEF KeyInv, AbsentIsNew
  <2> QED BY <1>0, <2>1, <2>2
<1>9. OneRunPerKey'
  <2> SUFFICES ASSUME NEW i \in Ids', NEW j \in Ids', i < j,
                      Scope(runs'[i].sub, runs'[i].parent) = Scope(runs'[j].sub, runs'[j].parent)
               PROVE  runs'[i].keyUntil <= runs'[j].created \/ runs'[j].keyUntil <= runs'[i].created
    BY DEF OneRunPerKey
  <2>1. i \in Ids
    BY <1>0, <1>1
  <2>2. CASE j \in Ids
    BY <1>0, <2>1, <2>2 DEF KeyInv, OneRunPerKey
  <2>3. CASE j = n
    <3>1. Scope(runs[i].sub, runs[i].parent) = LockOf(p)
      BY <1>0, <1>2, <2>1, <2>3 DEF LockOf
    <3>2. runs[i].keyUntil <= req[p].now
      BY <1>0, <2>1, <3>1 DEF KeyInv, AbsentIsNew
    <3> QED BY <1>0, <1>2, <2>1, <2>3, <3>2
  <2> QED BY <1>0, <2>2, <2>3
<1> QED BY <1>5, <1>6, <1>7, <1>8, <1>9 DEF KeyInv

(* Every step, under a safe rotation. *)
LEMMA KeyNext ==
  ASSUME SafeRotation, IntakeInv, KeyInv, [Next]_vars
  PROVE  KeyInv'
<1>1. ASSUME NEW p \in Processes, InsertRun(p), Insertable(p)
      PROVE  KeyInv'
  BY <1>1, InsertInserts, KeysInsert
<1>2. ASSUME NEW i \in Ids, Schedule(i) \/ Start(i) \/ Close(i)
      PROVE  KeyInv'
  <2>1. PICK r \in RunType : Updates(i, r)
    BY <1>2, RunUpdates
  <2>2. req' = req /\ doc' = doc /\ Ids' = Ids /\ \A j \in Ids : SameOrigin(runs'[j], runs[j])
    BY <2>1, UpdateGrows DEF Grows, Updates
  <2> QED BY <2>2, KeysStay
<1>3. CASE ConsumeDailyAction \/ DailyReset \/ Tick \/ UNCHANGED vars
  <2>1. req' = req /\ doc' = doc /\ runs' = runs
    BY <1>3 DEF ConsumeDailyAction, DailyReset, Tick, vars
  <2> QED BY <2>1, KeysStay DEF Ids, SameOrigin
<1> QED BY <1>1, <1>2, <1>3, KeysAsk DEF Next

-----------------------------------------------------------------------------
(* The theorems. *)

(* Requests, runs, families and the day's budget stay consistent.              *)
THEOREM IntakeInvariance == Spec => []IntakeInv
<1>1. Init => IntakeInv
  BY InvInit
<1>2. IntakeInv /\ [Next]_vars => IntakeInv'
  BY InvNext
<1> QED BY <1>1, <1>2, PTL DEF Spec

(* Every state of the admission is well formed: no deadline, depth, counter or *)
(* reservation leaves its range.                                               *)
THEOREM TypeCorrect == Spec => []TypeOK
<1>1. IntakeInv => TypeOK
  BY DEF IntakeInv
<1> QED BY <1>1, IntakeInvariance, PTL

(* A caller is answered with a run of its scope and content, and a conflict is *)
(* a real one.                                                                 *)
THEOREM TrueReplies == Spec => []RepliesAreTrue
<1>1. IntakeInv => RepliesAreTrue
  BY DEF IntakeInv
<1> QED BY <1>1, IntakeInvariance, PTL

(* No descendant has more than the root of its family.                         *)
THEOREM Narrows == Spec => []FamiliesNarrow
<1>1. IntakeInv => FamiliesNarrow
  BY DEF IntakeInv
<1> QED BY <1>1, IntakeInvariance, PTL

(* A family of an agent's runs takes one action of the daily budget.           *)
THEOREM PaidOnce == Spec => []FamiliesPayOnce
<1>1. IntakeInv => FamiliesPayOnce
  BY DEF IntakeInv
<1> QED BY <1>1, IntakeInvariance, PTL

(* Under a rotation in which a key becomes current only once the document      *)
(* before it can read it, two runs of a key are never remembered together.     *)
THEOREM OneRun ==
  ASSUME SafeRotation
  PROVE  Spec => []OneRunPerKey
<1>1. Init => KeyInv
  BY KeyInit
<1>2. IntakeInv /\ KeyInv /\ [Next]_vars => KeyInv'
  BY KeyNext
<1>3. KeyInv => OneRunPerKey
  BY DEF KeyInv
<1> QED BY <1>1, <1>2, <1>3, IntakeInvariance, PTL DEF Spec

OriginKept(i) == i \in Ids' /\ SameOrigin(runs'[i], runs[i])

(* No step removes a run or rewrites what the replay and the lineage rest on:  *)
(* its submission, parent, root, depth, key version, and deadlines.            *)
THEOREM OriginIsFixed == Spec => [][\A i \in Ids : OriginKept(i)]_vars
<1>1. IntakeInv /\ [Next]_vars => [\A i \in Ids : OriginKept(i)]_vars
  <2> SUFFICES ASSUME IntakeInv, Next, NEW i \in Ids
               PROVE  OriginKept(i)
    OBVIOUS
  <2>1. CASE runs' = runs
    BY <2>1 DEF OriginKept, Ids, SameOrigin
  <2>2. CASE Grows
    BY <2>2 DEF Grows, OriginKept
  <2>3. Moves
    BY NextMoves
  <2> QED BY <2>1, <2>2, <2>3, UpdateGrows, InsertGrows DEF Moves, Asks, Passes
<1> QED BY <1>1, IntakeInvariance, PTL DEF Spec
-----------------------------------------------------------------------------
(* The lineage. *)

(* The chain of a row in a table of rows, and the tables whose parents exist.  *)
Chain(rows, ids, i) == {a \in ids : \A S \in SUBSET ids :
  (i \in S /\ \A j \in S : rows[j].parent # Root => rows[j].parent \in S) => a \in S}
Linked(rows, ids) == \A i \in ids : rows[i].parent # Root => rows[i].parent \in ids

(* The lineage that is walked is the chain. *)
LEMMA ChainOf ==
  ASSUME NEW i
  PROVE  AncestorsOf(i) = Chain(runs, Ids, i) /\ AncestorsOf(i)' = Chain(runs', Ids', i)
BY DEF AncestorsOf, Chain, Ids

(* A chain has its row, and the parent of each row it has. *)
LEMMA ChainClosed ==
  ASSUME NEW rows, NEW ids, Linked(rows, ids), NEW i \in ids
  PROVE  /\ Chain(rows, ids, i) \in SUBSET ids /\ i \in Chain(rows, ids, i)
         /\ \A j \in Chain(rows, ids, i) :
              rows[j].parent # Root => rows[j].parent \in Chain(rows, ids, i)
<1>1. ASSUME NEW j \in Chain(rows, ids, i), rows[j].parent # Root
      PROVE  rows[j].parent \in Chain(rows, ids, i)
  <2>1. j \in ids /\ rows[j].parent \in ids
    BY <1>1 DEF Chain, Linked
  <2>2. ASSUME NEW S \in SUBSET ids, i \in S,
               \A k \in S : rows[k].parent # Root => rows[k].parent \in S
        PROVE  rows[j].parent \in S
    BY <1>1, <2>2 DEF Chain
  <2> QED BY <2>1, <2>2 DEF Chain
<1> QED BY <1>1 DEF Chain

(* And it is within every set that has these. *)
LEMMA ChainLeast ==
  ASSUME NEW rows, NEW ids, NEW i, NEW S \in SUBSET ids, i \in S,
         \A j \in S : rows[j].parent # Root => rows[j].parent \in S
  PROVE  Chain(rows, ids, i) \subseteq S
BY DEF Chain

(* A root is alone on its chain. *)
LEMMA ChainOfRoot ==
  ASSUME NEW rows, NEW ids, NEW i \in ids, rows[i].parent = Root
  PROVE  Chain(rows, ids, i) = {i}
<1>1. {i} \in SUBSET ids /\ \A j \in {i} : rows[j].parent # Root => rows[j].parent \in {i}
  OBVIOUS
<1>2. Chain(rows, ids, i) \subseteq {i}
  BY <1>1, ChainLeast
<1> QED BY <1>2 DEF Chain

(* The chain of a child is the chain of its parent and the child. *)
LEMMA ChainOfChild ==
  ASSUME NEW rows, NEW ids, Linked(rows, ids), NEW i \in ids, NEW up \in ids,
         rows[i].parent = up, up # Root
  PROVE  Chain(rows, ids, i) = Chain(rows, ids, up) \cup {i}
<1>1. PICK C : C = Chain(rows, ids, i)
  OBVIOUS
<1>2. PICK D : D = Chain(rows, ids, up)
  OBVIOUS
<1>3. C \in SUBSET ids /\ i \in C /\ \A j \in C : rows[j].parent # Root => rows[j].parent \in C
  BY <1>1, ChainClosed
<1>4. D \in SUBSET ids /\ up \in D /\ \A j \in D : rows[j].parent # Root => rows[j].parent \in D
  BY <1>2, ChainClosed
<1>5. up \in C
  BY <1>3
<1>6. D \subseteq C
  BY <1>2, <1>3, <1>5, ChainLeast
<1>7. /\ D \cup {i} \in SUBSET ids
      /\ \A j \in D \cup {i} : rows[j].parent # Root => rows[j].parent \in D \cup {i}
  BY <1>4
<1>8. C \subseteq D \cup {i}
  BY <1>1, <1>7, ChainLeast
<1>9. C = D \cup {i}
  BY <1>3, <1>6, <1>8
<1> QED BY <1>1, <1>2, <1>9

(* A row added to a table, or written without its parent, leaves the chains of *)
(* the others alone.                                                           *)
LEMMA ChainKept ==
  ASSUME NEW rows, NEW ids, NEW rows2, NEW ids2, Linked(rows, ids), ids \subseteq ids2,
         \A j \in ids : rows2[j].parent = rows[j].parent, NEW i \in ids
  PROVE  Chain(rows2, ids2, i) = Chain(rows, ids, i)
<1>1. PICK C : C = Chain(rows, ids, i)
  OBVIOUS
<1>2. PICK D : D = Chain(rows2, ids2, i)
  OBVIOUS
<1>3. C \in SUBSET ids /\ i \in C /\ \A j \in C : rows[j].parent # Root => rows[j].parent \in C
  BY <1>1, ChainClosed
<1>4. C \in SUBSET ids2 /\ \A j \in C : rows2[j].parent # Root => rows2[j].parent \in C
  BY <1>3
<1>5. D \subseteq C
  BY <1>2, <1>3, <1>4, ChainLeast
<1>6. ASSUME NEW S \in SUBSET ids2, i \in S,
             \A j \in S : rows2[j].parent # Root => rows2[j].parent \in S
      PROVE  C \subseteq S
  <2>1. PICK T : T = S \cap ids
    OBVIOUS
  <2>2. T \in SUBSET ids /\ i \in T /\ \A j \in T : rows[j].parent # Root => rows[j].parent \in T
    BY <1>6, <2>1 DEF Linked
  <2>3. C \subseteq T
    BY <1>1, <2>2, ChainLeast
  <2> QED BY <2>1, <2>3
<1>7. C \subseteq D
  BY <1>2, <1>4, <1>6 DEF Chain
<1> QED BY <1>1, <1>2, <1>5, <1>7

(* What a row must be with a chain: under its root, as deep as the chain is    *)
(* long, and no operation twice on it.                                         *)
SimplePath(rows, i, path) ==
  /\ rows[i].root \in path
  /\ Cardinality(path) = rows[i].depth + 1
  /\ \A a, b \in path : rows[a].sub.op = rows[b].sub.op => a = b

LineageInv == Linked(runs, Ids) /\ PathsAreSimple

(* The property, in those terms. *)
LEMMA PathsBySimple ==
  /\ PathsAreSimple <=> \A i \in Ids : SimplePath(runs, i, Chain(runs, Ids, i))
  /\ PathsAreSimple' <=> \A i \in Ids' : SimplePath(runs', i, Chain(runs', Ids', i))
BY ChainOf DEF PathsAreSimple, SimplePath

(* Runs that keep their origin keep their lineage. *)
LEMMA LineageKept ==
  ASSUME IntakeInv, LineageInv, Ids \subseteq Ids',
         \A i \in Ids : SameOrigin(runs'[i], runs[i])
  PROVE  /\ \A i \in Ids : SimplePath(runs', i, Chain(runs', Ids', i))
         /\ \A i \in Ids : Chain(runs', Ids', i) = Chain(runs, Ids, i)
         /\ \A i \in Ids : runs'[i].parent # Root => runs'[i].parent \in Ids
<1>1. \A i \in Ids : /\ runs'[i].parent = runs[i].parent /\ runs'[i].root = runs[i].root
                     /\ runs'[i].depth = runs[i].depth /\ runs'[i].sub = runs[i].sub
  BY DEF SameOrigin
<1>2. ASSUME NEW i \in Ids
      PROVE  Chain(runs', Ids', i) = Chain(runs, Ids, i)
  BY <1>1, ChainKept DEF LineageInv
<1>3. ASSUME NEW i \in Ids
      PROVE  SimplePath(runs', i, Chain(runs', Ids', i))
  <2>1. PICK C : C = Chain(runs, Ids, i)
    OBVIOUS
  <2>2. SimplePath(runs, i, C) /\ C \subseteq Ids
    BY <2>1, PathsBySimple, ChainClosed DEF LineageInv
  <2>3. SimplePath(runs', i, C)
    BY <1>1, <2>2 DEF SimplePath
  <2> QED BY <1>2, <2>1, <2>3
<1> QED BY <1>1, <1>2, <1>3 DEF LineageInv, Linked

(* The lineage of a run that is inserted: its parent's and itself, with an     *)
(* operation that the parent's lineage does not have.                          *)
LEMMA LineageInsert ==
  ASSUME IntakeInv, LineageInv, NEW p \in Processes, NEW r \in RunType, Inserts(p, r)
  PROVE  LineageInv'
<1>1. PICK n : n = Len(runs) + 1
  OBVIOUS
<1>2. /\ Ids' = Ids \cup {n} /\ n \notin Ids /\ runs'[n] = r /\ \A j \in Ids : runs'[j] = runs[j]
      /\ Ids \subseteq Ids' /\ n \in Ids' /\ \A j \in Ids : SameOrigin(runs'[j], runs[j])
  BY <1>1, InsertGrows DEF Grows
<1>3. PICK x : x = NewRun(p)
  OBVIOUS
<1>4. PICK up : up = req[p].parent
  OBVIOUS
<1>5. /\ x.sub = req[p].sub /\ x.parent = up
      /\ up = Root => x.root = n
      /\ up # Root => up \in Ids /\ LineageAllows(x.sub, up) /\ x.root = runs[up].root
  BY <1>1, <1>3, <1>4, NewRunFacts DEF Inserts
<1>6. x.depth = IF up = Root THEN 0 ELSE runs[up].depth + 1
  BY <1>3, <1>4 DEF NewRun
<1>7. /\ r.sub = x.sub /\ r.parent = up /\ r.root = x.root /\ r.depth = x.depth
  BY <1>3, <1>5 DEF Inserts, SameOrigin
<1>8. /\ \A i \in Ids : SimplePath(runs', i, Chain(runs', Ids', i))
      /\ \A i \in Ids : Chain(runs', Ids', i) = Chain(runs, Ids, i)
      /\ \A i \in Ids : runs'[i].parent # Root => runs'[i].parent \in Ids
  BY <1>2, LineageKept
<1>9. Linked(runs', Ids')
  BY <1>2, <1>5, <1>7, <1>8 DEF Linked
<1>10. SimplePath(runs', n, Chain(runs', Ids', n))
  <2>1. CASE up = Root
    <3>1. Chain(runs', Ids', n) = {n}
      BY <1>2, <1>7, <2>1, ChainOfRoot
    <3>2. Cardinality({n}) = 1
      BY FS_Singleton
    <3> QED BY <1>2, <1>5, <1>6, <1>7, <2>1, <3>1, <3>2 DEF SimplePath
  <2>2. CASE up # Root
    <3>1. PICK C : C = Chain(runs, Ids, up)
      OBVIOUS
    <3>2. up \in Ids /\ up \in Ids' /\ LineageAllows(r.sub, up) /\ r.root = runs[up].root
      BY <1>2, <1>5, <1>7, <2>2
    <3>3. Chain(runs', Ids', n) = C \cup {n}
      <4>1. Chain(runs', Ids', up) = C
        BY <1>8, <3>1, <3>2
      <4>2. runs'[n].parent = up /\ n \in Ids'
        BY <1>2, <1>7
      <4> QED BY <1>9, <2>2, <3>2, <4>1, <4>2, ChainOfChild
    <3>4. C \subseteq Ids /\ SimplePath(runs, up, C)
      BY <3>1, <3>2, PathsBySimple, ChainClosed DEF LineageInv
    <3>5. IsFiniteSet(C) /\ n \notin C
      <4>1. Len(runs) \in Nat
        BY Types DEF IntakeInv
      <4>2. IsFiniteSet(Ids)
        BY <4>1, FS_Interval DEF Ids
      <4> QED BY <1>2, <3>4, <4>2, FS_Subset
    <3>6. Cardinality(C \cup {n}) = Cardinality(C) + 1
      BY <3>5, FS_AddElement
    <3>7. r.depth = runs[up].depth + 1 /\ Cardinality(C) = runs[up].depth + 1
      BY <1>6, <1>7, <2>2, <3>4 DEF SimplePath
    <3>8. \A a \in C : runs[a].sub.op # r.sub.op
      BY <3>1, <3>2, ChainOf DEF LineageAllows
    <3>9. \A a, b \in C \cup {n} : runs'[a].sub.op = runs'[b].sub.op => a = b
      BY <1>2, <3>4, <3>8 DEF SimplePath
    <3>10. r.root \in C
      BY <3>2, <3>4 DEF SimplePath
    <3> QED BY <1>2, <3>3, <3>6, <3>7, <3>9, <3>10 DEF SimplePath
  <2> QED BY <2>1, <2>2
<1>11. PathsAreSimple'
  BY <1>2, <1>8, <1>10, PathsBySimple
<1> QED BY <1>9, <1>11 DEF LineageInv

(* Every step keeps the lineages. *)
LEMMA LineageNext ==
  ASSUME IntakeInv, LineageInv, [Next]_vars
  PROVE  LineageInv'
<1>1. ASSUME Ids' = Ids, \A i \in Ids : SameOrigin(runs'[i], runs[i])
      PROVE  LineageInv'
  <2>1. /\ \A i \in Ids' : SimplePath(runs', i, Chain(runs', Ids', i))
        /\ \A i \in Ids' : runs'[i].parent # Root => runs'[i].parent \in Ids'
    BY <1>1, LineageKept
  <2> QED BY <2>1, PathsBySimple DEF LineageInv, Linked
<1>2. CASE runs' = runs
  BY <1>1, <1>2 DEF Ids, SameOrigin
<1>3. CASE \E i \in Ids, r \in RunType : Updates(i, r)
  BY <1>1, <1>3, UpdateGrows DEF Grows
<1>4. CASE \E p \in Processes, r \in RunType : Inserts(p, r)
  BY <1>4, LineageInsert
<1>5. CASE Next
  BY <1>2, <1>3, <1>4, <1>5, NextMoves DEF Moves, Asks, Passes
<1> QED BY <1>2, <1>5 DEF vars

(* Down a lineage of any depth nothing grows, no operation calls itself, and   *)
(* the recorded depth is the length of the path to the root.                   *)
THEOREM LineageIsNarrow == Spec => []LineageNarrows
<1>1. Init => LineageInv
  BY PathsBySimple DEF Init, Ids, LineageInv, Linked
<1>2. IntakeInv /\ LineageInv /\ [Next]_vars => LineageInv'
  BY LineageNext
<1>3. IntakeInv /\ LineageInv => LineageNarrows
  BY DEF IntakeInv, LineageInv, LineageNarrows
<1> QED BY <1>1, <1>2, <1>3, IntakeInvariance, PTL DEF Spec

(* What a step may do to the reservation of a run. *)
SlotKept(i) ==
  /\ runs[i].reserved > 0 => runs'[i].reserved = runs[i].reserved
  /\ runs'[i].reserved # runs[i].reserved =>
       /\ runs[i].parent = Root /\ \A j \in Ids : runs[j].root = i => j = i
       /\ runs'[i].reserved = day /\ used' = used + 1

(* A reservation is taken once and for good: it survives the days, retries and *)
(* re-scheduling, and only a root takes one, while it is alone in its family   *)
(* and at the price of one action of the day that it records                   *)
(* (authorizeExecution, consumeAgentDailyActionBudget).                        *)
THEOREM SlotIsTakenOnce == Spec => [][\A i \in Ids : SlotKept(i)]_vars
<1>1. IntakeInv /\ [Next]_vars => [\A i \in Ids : SlotKept(i)]_vars
  <2> SUFFICES ASSUME IntakeInv, Next, NEW i \in Ids
               PROVE  SlotKept(i)
    OBVIOUS
  <2>0. runs[i] \in RunType
    BY Types DEF IntakeInv
  <2>1. CASE runs'[i] = runs[i]
    BY <2>1 DEF SlotKept
  <2>2. ASSUME NEW r \in RunType, Updates(i, r)
        PROVE  SlotKept(i)
    <3>1. runs'[i] = r
      BY <2>2, UpdateGrows
    <3>2. CASE r.reserved = runs[i].reserved
      BY <3>1, <3>2 DEF SlotKept
    <3>3. CASE /\ Budgeted(runs[i].sub) /\ runs[i].reserved = 0 /\ r.reserved = day
               /\ used' = used + 1
      BY <3>1, <3>3, PayerIsRoot DEF SlotKept
    <3> QED BY <2>2, <3>2, <3>3 DEF Updates, Pays
  <2>3. ASSUME NEW j \in Ids, NEW r \in RunType, Updates(j, r), j # i
        PROVE  SlotKept(i)
    BY <2>1, <2>3, UpdateGrows
  <2>4. ASSUME NEW p \in Processes, NEW r \in RunType, Inserts(p, r)
        PROVE  SlotKept(i)
    BY <2>1, <2>4, InsertGrows
  <2>5. Moves
    BY NextMoves
  <2> QED BY <2>1, <2>2, <2>3, <2>4, <2>5 DEF Moves, Asks, Passes
<1> QED BY <1>1, IntakeInvariance, PTL DEF Spec
=============================================================================
