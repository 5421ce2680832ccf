--------------------------- MODULE MCAgentAction ---------------------------
(* Two reviewers, two calls of the agent and two rows of its key.           *)
EXTENDS AgentAction, TLC

CONSTANTS r1, r2, g1, g2

MCReviewers == {r1, r2}
MCAgents == {g1, g2}
MCSymmetry == Permutations(MCReviewers) \cup Permutations(MCAgents)
=============================================================================
