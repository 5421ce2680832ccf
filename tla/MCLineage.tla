----------------------------- MODULE MCLineage -----------------------------
(* Families of an agent's runs: two children deep, two days, a budget of two. *)
EXTENDS AppRunIntake

MCPolicy(risk, retention, review) ==
  [risk |-> risk, retry |-> 0, retention |-> retention, review |-> review]
MCSubmission(actor, op, ambient, policy) ==
  [actor |-> actor, op |-> op, key |-> "k", content |-> op, ambient |-> ambient, policy |-> policy]

\* A write without review, a reviewed write, and a reviewed read with less authority.
MCSubmissions ==
  {MCSubmission("agent", "plan", {"token"}, MCPolicy(1, 1, "policy")),
   MCSubmission("agent", "send", {"token"}, MCPolicy(1, 1, "always")),
   MCSubmission("agent", "look", {}, MCPolicy(0, 0, "always"))}
MCRetention == [c \in {0, 1} |-> c + 1]
MCHorizon == [c \in {0, 1} |-> c + 1]
MCDocuments == <<[keys |-> {1}, current |-> 1]>>
=============================================================================
