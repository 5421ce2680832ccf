------------------------------ MODULE MCAppRun ------------------------------
(* Small instances of the App Run engine for TLC: a job worker and a         *)
(* synchronous caller compete for the attempts of one run.                   *)
EXTENDS AppRunProperties

CONSTANTS w1, c1, a1

MCJobWorkers == {w1}
MCCallers == {c1}
MCProcesses == {w1, c1}

P(p, r, v, b) == [provider |-> p, retry |-> r, review |-> v, budgeted |-> b]
SafeBudgeted == P("mcp", "safe", FALSE, TRUE)
SafeCall == P("mcp", "safe", FALSE, FALSE)
UnsafeReviewed == P("mcp", "unsafe", TRUE, TRUE)
UnsafeCall == P("mcp", "unsafe", FALSE, FALSE)
NativeReviewed == P("native", "idempotent_with_key", TRUE, FALSE)

MCPolicies == {SafeBudgeted, UnsafeReviewed, NativeReviewed}
LivePolicies == {SafeCall, UnsafeCall, NativeReviewed}
UnsafeOnly == {UnsafeCall}
=============================================================================
