------------------------ MODULE AppRuntimeProperties ------------------------
(***************************************************************************)
(* What the runtime channel guarantees to the runtime, to the host and to  *)
(* the human who revokes a session.                                        *)
(***************************************************************************)
EXTENDS AppRuntimeChannel

(* The channel implements the contract of the App Run engine for an operation  *)
(* that tolerates no second call, whatever its retry class: once an attempt    *)
(* has started, no other attempt of the run starts.                            *)
Contract == INSTANCE AppRunContract
  WITH state <- run.state, open <- run.release # "none", oneShot <- TRUE,
       granted <- {n \in Attempts : att[n].started}, called <- done
ImplementsContract == Contract!Spec

(* The exact input of a run is released to one claim of one session, however   *)
(* often start is repeated, sessions overlap and leases are recovered; nobody  *)
(* else can still be given it (startRuntimeAttempt).                           *)
InputGoesToOneClaim ==
  \A x \in given :
    /\ \A y \in given \cup marked : x = y
    /\ \A m \in Attempts : m # x[2] => att[m].state \notin Active

(* What the runtime was told stays true: of all results it sent, repeated and  *)
(* contradicting ones included, at most one is ever acknowledged, and the run  *)
(* ended by it (completeRuntimeAttempt).                                       *)
AcknowledgedResultStands ==
  \A n \in Attempts : \A r \in acked[n] :
    /\ acked[n] = {r}
    /\ CASE r = "ok" -> run.state = "succeeded"
         [] r = "unknown" -> run.state = (IF recon = "none" THEN "unknown_outcome" ELSE recon)
         [] OTHER -> run.state = "failed"

(* An effect that was performed is not denied: the run does not end cancelled  *)
(* or expired, and failed only if the runtime or an operator says so.          *)
EffectIsNotDenied ==
  \A n \in done :
    \/ run.state \in {"running", "succeeded", "unknown_outcome"}
    \/ run.state = "failed" /\ (hmac[n] = "failed" \/ recon = "failed")

(* A session that has ended is cut off at once, in the middle of a start too:  *)
(* no claim, lease, input or result goes through it any more.                  *)
EndedSessionIsCutOff ==
  [][\A s \in Sessions : sess[s] = "ended" =>
       /\ sess'[s] = "ended"
       /\ \A n \in Attempts :
            /\ <<s, n>> \in given' => <<s, n>> \in given
            /\ att'[n].token = s => /\ att[n].token = s
                                    /\ att'[n].lease <= att[n].lease
                                    /\ att'[n].started = att[n].started
                                    /\ hmac'[n] = hmac[n]]_vars

(* A runtime cannot hold an attempt for ever: with heartbeats for as long as   *)
(* the host grants them, a started attempt ends, by its result or by recovery. *)
StartedAttemptEnds ==
  \A n \in Attempts : att[n].state = "provider_call_started" ~> att[n].state \in Ended
=============================================================================
