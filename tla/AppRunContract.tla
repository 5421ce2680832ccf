--------------------------- MODULE AppRunContract ---------------------------
(***************************************************************************)
(* What the App Run engine promises, without leases, jobs, processes or    *)
(* recovery. A run is submitted, opened by its policy or by one human      *)
(* approval, and closed once. While it is open it may grant attempts the   *)
(* right to call the provider; an attempt calls at most once, and an       *)
(* operation that does not tolerate a second call gets one grant in all.   *)
(* A cancelled run never granted a call.                                   *)
(***************************************************************************)
EXTENDS Naturals

CONSTANT Attempts

VARIABLES state,    \* as a client sees it
          open,     \* execution has been released
          oneShot,  \* a second provider call is not tolerated
          granted,  \* attempts that were allowed to call the provider
          called    \* attempts whose call reached the provider

vars == <<state, open, oneShot, granted, called>>

Before == {"pending", "pending_approval"}

Init ==
  /\ state = "absent"
  /\ open = FALSE
  /\ oneShot \in BOOLEAN
  /\ granted = {}
  /\ called = {}

Submit ==
  /\ state = "absent"
  /\ \/ state' = "pending" /\ open' = TRUE
     \/ state' = "pending_approval" /\ open' = FALSE
  /\ UNCHANGED <<oneShot, granted, called>>

Release ==
  /\ state = "pending_approval"
  /\ ~open
  /\ open' = TRUE
  /\ UNCHANGED <<state, oneShot, granted, called>>

\* A run that ends before any attempt was granted a call.
Abandon ==
  /\ state \in Before
  /\ granted = {}
  /\ \/ state' \in {"cancelled", "expired"}
     \/ open /\ state' = "failed"
  /\ UNCHANGED <<open, oneShot, granted, called>>

\* A grant may still come just after the run expired.
MayGrant(n) ==
  /\ open
  /\ state \in Before \cup {"running", "expired"}
  /\ n \notin granted
  /\ oneShot => granted = {}
Grant(n) ==
  /\ MayGrant(n)
  /\ granted' = granted \cup {n}
  /\ state' = IF state = "expired" THEN "expired" ELSE "running"
  /\ UNCHANGED <<open, oneShot, called>>

\* A granted call may reach the provider late, even after the run has closed.
Call(n) ==
  /\ n \in granted \ called
  /\ called' = called \cup {n}
  /\ UNCHANGED <<state, open, oneShot, granted>>

\* A native effect is granted, made and recorded in one step.
CallAtomically(n) ==
  /\ MayGrant(n)
  /\ state \in Before
  /\ granted' = granted \cup {n}
  /\ called' = called \cup {n}
  /\ state' = "succeeded"
  /\ UNCHANGED <<open, oneShot>>

\* A running run has granted a call; it succeeds only if a call was made.
Conclude ==
  /\ state = "running"
  /\ granted # {}
  /\ \/ state' = "succeeded" /\ called # {}
     \/ state' \in {"failed", "unknown_outcome"}
  /\ UNCHANGED <<open, oneShot, granted, called>>

\* An operator resolves an unknown outcome.
Resolve ==
  /\ state = "unknown_outcome"
  /\ state' \in {"succeeded", "failed"}
  /\ UNCHANGED <<open, oneShot, granted, called>>

Next ==
  \/ Submit \/ Release \/ Abandon \/ Conclude \/ Resolve
  \/ \E n \in Attempts : Grant(n) \/ Call(n) \/ CallAtomically(n)

Spec == Init /\ [][Next]_vars

-----------------------------------------------------------------------------
(* What a client may conclude from the contract. *)

Closed == {"succeeded", "failed", "cancelled", "expired"}

(* Where a call was granted the run was released, once if it may be made only  *)
(* once; a run that waits or was cancelled has granted none, and one that runs *)
(* or ended by its outcome has.                                                *)
GrantsFitTheState ==
  /\ called \subseteq granted
  /\ granted # {} => open
  /\ oneShot => \A m, n \in granted : m = n
  /\ state \in Before \cup {"absent", "cancelled"} => granted = {}
  /\ state \in {"running", "succeeded", "unknown_outcome"} => granted # {}

(* What a client has read stays so: a closed run is not opened again or closed *)
(* otherwise, no grant or call is taken back, a run that closed by anything    *)
(* but expiry grants no more, and success is a call made or an operator's      *)
(* word.                                                                       *)
TakesNothingBack ==
  /\ state \in Closed => state' = state
  /\ state \in Closed \ {"expired"} => granted' = granted
  /\ granted \subseteq granted' /\ called \subseteq called'
  /\ state # state' /\ state' = "succeeded" => state = "unknown_outcome" \/ called' # {}
ClosedForGood == [][TakesNothingBack]_vars
=============================================================================
