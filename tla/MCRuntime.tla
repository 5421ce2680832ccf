----------------------------- MODULE MCRuntime -----------------------------
(* Two sessions of one App runtime and one run of its binding.              *)
EXTENDS AppRuntimeProperties

CONSTANTS s1, s2, a1

MCSessions == {s1, s2}
R(r, v) == [provider |-> "app_runtime", retry |-> r, review |-> v, budgeted |-> FALSE]
MCPolicies == {R("safe", TRUE)}
=============================================================================
