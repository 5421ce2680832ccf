-------------------------- MODULE AppRuntimeChannel --------------------------
(***************************************************************************)
(* An App runtime is a program outside the host that pulls the attempts of *)
(* a run over a session: claim, start (which releases the exact input),    *)
(* heartbeat, complete. The rows are those of AppRunLedger; the claim      *)
(* token of an attempt is the session that claimed it, because an attempt  *)
(* is claimed at most once.                                                *)
(*                                                                         *)
(* Requests and replies are lost, repeated and delayed: a request may be   *)
(* handled at any time and any number of times once the runtime knows what *)
(* it contains, and every reply may be lost. Every transaction of the      *)
(* channel reads the clock after its locks, so a deadline that has passed  *)
(* is noticed here, unlike on the workers' path. A renewed lease is also   *)
(* cut at the retention deadlines; the model lets it run out after them.   *)
(*                                                                         *)
(* authorize, payload and resources only read; the queue job of a runtime  *)
(* attempt makes one recovery pass and cannot claim. The gate of future    *)
(* record actions is open here.                                            *)
(***************************************************************************)
EXTENDS AppRunLedger, FiniteSets

CONSTANTS Sessions,   \* app_runtime_sessions of the run's binding
          MaxReports  \* different results a runtime may send for one attempt

ASSUME SessionAssumption == Sessions = Processes
ASSUME RuntimeAssumption == \A p \in Policies : p.provider = "app_runtime"

\* What a runtime reports: returned with provider_succeeded or not, not_attempted,
\* and indeterminate or returned with an output that fails its schema.
Results == {"ok", "failed", "not_attempted", "unknown"}

VARIABLES
  sess,    \* none, live, ended (expired or revoked)
  known,   \* <<s, n>>: the runtime of session s holds the claim envelope of n
  marked,  \* <<s, n>>: a start request between its marker and its delivery
  given,   \* <<s, n>>: the exact input of n was released over session s
  done,    \* attempts whose external effect the runtime has performed
  sent,    \* results that the runtime has sent for each attempt
  hmac,    \* runtime_result_hmac: the result the host has recorded, or "none"
  acked    \* results of each attempt that the runtime saw accepted

runtime == <<known, given, done, sent, acked>>
vars == <<ledger, runtime, sess, marked, hmac>>

TypeOK ==
  /\ LedgerTypeOK
  /\ sess \in [Sessions -> {"none", "live", "ended"}]
  /\ known \subseteq Sessions \X Attempts
  /\ marked \subseteq known
  /\ given \subseteq known
  /\ done \subseteq Attempts
  /\ sent \in [Attempts -> SUBSET Results]
  /\ hmac \in [Attempts -> Results \cup {"none"}]
  /\ acked \in [Attempts -> SUBSET Results]

Init ==
  /\ LedgerInit
  /\ sess = [s \in Sessions |-> "none"]
  /\ known = {} /\ marked = {} /\ given = {} /\ done = {}
  /\ sent = [n \in Attempts |-> {}]
  /\ hmac = [n \in Attempts |-> "none"]
  /\ acked = [n \in Attempts |-> {}]

-----------------------------------------------------------------------------
(* Sessions and authority. *)

\* Fault: the session row is not read again.
AnySessionAuthority(s) == MayExecute
\* loadLiveRuntimeAuthority and runtimeRunMatchesAuthority: the session is
\* neither expired nor revoked, the epochs it pins are current, and the run
\* still matches the reviewed binding.
LiveAuthority(s) == sess[s] = "live" /\ MayExecute

\* issueAppRuntimeSession: older sessions of the binding stay valid.
IssueSession(s) ==
  /\ sess[s] = "none"
  /\ authority
  /\ sess' = [sess EXCEPT ![s] = "live"]
  /\ UNCHANGED <<ledger, runtime, marked, hmac>>

\* The session expires without renewal, or revokeRuntimeSession ends it.
EndSession(s) ==
  /\ sess[s] = "live"
  /\ sess' = [sess EXCEPT ![s] = "ended"]
  /\ UNCHANGED <<ledger, runtime, marked, hmac>>

\* revokeRuntimeBinding and revokeRuntimeRegistration end every session, and the
\* run can never match a binding again.
RevokeBinding ==
  /\ Revoke
  /\ sess' = [s \in Sessions |-> IF sess[s] = "live" THEN "ended" ELSE sess[s]]
  /\ UNCHANGED <<runtime, marked, hmac>>

-----------------------------------------------------------------------------
(* Claim. *)

\* claimRuntimeAttempt: #claim, then a second check of the authority before the
\* envelope is returned. The claim stands even if the runtime never hears of it.
ClaimRuntimeAttempt(s, n) ==
  /\ sess[s] = "live"
  /\ inputLive
  /\ Claim(s, n)
  /\ known' \in {known, known \cup {<<s, n>>}}
  /\ UNCHANGED <<sess, marked, given, done, sent, hmac, acked>>

\* The input expired between the candidate query and the claim.
ClaimFindsExpired(s) ==
  /\ sess[s] = "live"
  /\ ClaimExpiresRun
  /\ UNCHANGED <<runtime, sess, marked, hmac>>

-----------------------------------------------------------------------------
(* Start: a committed marker, then a second transaction that releases the input. *)

\* Fault: the lease is not compared with the clock.
OwnsLapsed(s, n) == att[n].token = s
\* The attempt's token, session, epochs and sequence are those of the request,
\* and its lease is live.
Owns(s, n) == att[n].token = s /\ att[n].lease > 0

Retained == input /\ inputLive /\ resultLive

\* #loadRuntimeClaim and #markProviderCallStarted. A repeated start of a started
\* attempt goes straight to delivery.
StartRuntimeAttempt(s, n) ==
  /\ <<s, n>> \in known
  /\ LiveAuthority(s)
  /\ Owns(s, n)
  /\ ~run.cancelRequested
  /\ inputLive
  /\ \/ Retained /\ MarkProviderCallStarted(s, n)
     \/ /\ att[n].state = "provider_call_started"
        /\ run.release # "none" /\ run.state # "cancelled"
        /\ UNCHANGED ledger
  /\ marked' = marked \cup {<<s, n>>}
  /\ UNCHANGED <<runtime, sess, hmac>>

\* Fault: the marker is taken for the authority to deliver.
DeliverableOnceMarked(s, n) == input
\* What the second transaction asks again before it reads the secret.
Deliverable(s, n) ==
  /\ LiveAuthority(s)
  /\ run.state = "running"
  /\ ~run.cancelRequested
  /\ att[n].state = "provider_call_started"
  /\ Owns(s, n)
  /\ Retained

\* A refused delivery, or a lost reply, leaves the marker as it is.
DeliverInput(s, n) ==
  /\ <<s, n>> \in marked
  /\ marked' = marked \ {<<s, n>>}
  /\ \/ Deliverable(s, n) /\ given' = given \cup {<<s, n>>}
     \/ UNCHANGED given
  /\ UNCHANGED <<ledger, sess, known, done, sent, hmac, acked>>

\* Fault: a runtime may keep its lease for as long as it likes.
RenewableLease == TRUE
\* heartbeatRuntimeAttempt, up to the retention of input and result.
RenewableRun == /\ ~run.cancelRequested
                /\ run.state \in Waiting \cup {"running"}
                /\ inputLive /\ resultLive
HeartbeatRuntimeAttempt(s, n) ==
  /\ <<s, n>> \in known
  /\ LiveAuthority(s)
  /\ RenewableRun
  /\ Owns(s, n)
  /\ RenewLease(s, n)
  /\ UNCHANGED <<runtime, sess, marked, hmac>>

-----------------------------------------------------------------------------
(* The runtime itself: it performs the effect of an attempt at most once, and *)
(* only before it has reported; after a restart it may report something else. *)

Perform(s, n) ==
  /\ <<s, n>> \in given
  /\ sent[n] = {}
  /\ n \notin done
  /\ done' = done \cup {n}
  /\ UNCHANGED <<ledger, known, given, sent, acked, sess, marked, hmac>>

\* A result is true of the effect; an effect is never reported as not attempted.
Report(s, n, r) ==
  /\ <<s, n>> \in known
  /\ r \in (IF n \in done THEN {"ok", "failed", "unknown"} ELSE {"not_attempted", "unknown"})
  /\ Cardinality(sent[n] \cup {r}) <= MaxReports
  /\ sent' = [sent EXCEPT ![n] = @ \cup {r}]
  /\ UNCHANGED <<ledger, known, given, done, acked, sess, marked, hmac>>

-----------------------------------------------------------------------------
(* Complete. *)

OutcomeOf(r) == IF r = "not_attempted" THEN NotAttempted ELSE Returned(r = "ok", resultLive)

\* A known result: output, outcome, digest, attempt, run and receipt commit
\* together. #finalizeKnownInTransaction.
SettleReported(n, r) ==
  LET o == OutcomeOf(r)
      s == KnownState(o)
  IN  /\ r # "unknown"
      /\ Legal(run.state, s)
      /\ att' = [EndAttempt(n, s, s, FALSE) EXCEPT ![n].outcome = o]
      /\ run' = Transition(run, s, o)
      /\ outputs' = IF o.result = "retained" THEN outputs \cup {n} ELSE outputs
      /\ UNCHANGED jobs
\* The runtime cannot tell, or its output is invalid: never a retry.
SettleUnknown(n, r) ==
  /\ r = "unknown"
  /\ RecoverUnknown(n)
  /\ UNCHANGED outputs

\* Fault: a second result is not compared with the one on record.
AcceptsAnything(n, r) == TRUE
\* A repeated result is acknowledged, a different one refused.
Replays(n, r) == hmac[n] = r

\* completeRuntimeAttempt. Every reply is recorded as seen, which is the harder
\* case for what has been promised.
CompleteRuntimeAttempt(s, n, r) ==
  /\ <<s, n>> \in known
  /\ r \in sent[n]
  /\ LiveAuthority(s)
  /\ att[n].token = s
  /\ \/ /\ hmac[n] # "none"
        /\ Replays(n, r)
        /\ UNCHANGED <<ledger, hmac>>
     \/ /\ hmac[n] = "none"
        /\ att[n].state = "provider_call_started"
        /\ Owns(s, n)
        /\ SettleReported(n, r) \/ SettleUnknown(n, r)
        /\ hmac' = [hmac EXCEPT ![n] = r]
        /\ UNCHANGED <<policy, approval, recon, input, clocks, authority>>
  /\ acked' = [acked EXCEPT ![n] = @ \cup {r}]
  /\ UNCHANGED <<known, given, done, sent, sess, marked>>

-----------------------------------------------------------------------------
(* The host's other transactions on the run. *)

Recover == (\E n \in Attempts : RecoverRun(n)) /\ UNCHANGED <<runtime, sess, marked, hmac>>
PurgeRun == Purge /\ UNCHANGED <<runtime, sess, marked, hmac>>
SubmitRun == Submit /\ UNCHANGED <<runtime, sess, marked, hmac>>
Decide == /\ \E a \in Approvers : ApproveFirst(a) \/ ApproveAgain(a) \/ ApproveTooLate(a) \/ Reject(a)
          /\ UNCHANGED <<runtime, sess, marked, hmac>>
CancelRun == Cancel /\ UNCHANGED <<runtime, sess, marked, hmac>>
Reconcile == /\ \E s \in {"succeeded", "failed"} : ReconcileUnknown(s)
             /\ UNCHANGED <<runtime, sess, marked, hmac>>
LeaseRunsDown(n) == LeaseTick(n) /\ UNCHANGED <<runtime, sess, marked, hmac>>
RetentionEnds == (InputExpires \/ ResultExpires) /\ UNCHANGED <<runtime, sess, marked, hmac>>

Request(s) ==
  \/ IssueSession(s) \/ EndSession(s) \/ ClaimFindsExpired(s)
  \/ \E n \in Attempts :
       \/ ClaimRuntimeAttempt(s, n) \/ StartRuntimeAttempt(s, n) \/ DeliverInput(s, n)
       \/ HeartbeatRuntimeAttempt(s, n) \/ Perform(s, n)
       \/ \E r \in Results : Report(s, n, r) \/ CompleteRuntimeAttempt(s, n, r)

Next ==
  \/ \E s \in Sessions : Request(s)
  \/ RevokeBinding
  \/ Recover \/ PurgeRun \/ SubmitRun \/ Decide \/ CancelRun \/ Reconcile
  \/ (\E n \in Attempts : LeaseRunsDown(n)) \/ RetentionEnds

Spec == Init /\ [][Next]_vars

\* Time passes and the recovery and retention passes run again and again. Nothing
\* is assumed of the runtime.
FairSpec ==
  /\ Spec
  /\ \A n \in Attempts : WF_vars(LeaseRunsDown(n))
  /\ WF_vars(RetentionEnds) /\ WF_vars(Recover) /\ WF_vars(PurgeRun)
=============================================================================
