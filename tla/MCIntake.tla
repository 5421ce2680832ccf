------------------------------ MODULE MCIntake ------------------------------
(* Racing submissions of one key by two processes through a keyring rotation. *)
EXTENDS AppRunIntake, TLC

MCPolicy == [risk |-> 1, retry |-> 0, retention |-> 0, review |-> "policy"]
MCSubmissions == {[actor |-> "human", op |-> "send", key |-> "k", content |-> c,
                   ambient |-> {}, policy |-> MCPolicy] : c \in {"a", "b"}}
MCRetention == [c \in {0} |-> 1]
MCHorizon == [c \in {0} |-> 2]

Doc(keys, current) == [keys |-> keys, current |-> current]

\* A new key is added for reading, then made current, then the old one is retired.
MCDocuments == <<Doc({1}, 1), Doc({1, 2}, 1), Doc({1, 2}, 2), Doc({2}, 2)>>

\* docs/app-run-operations.md, "Rotate without losing reads": added and made current at once.
MCDocumented == <<Doc({1}, 1), Doc({1, 2}, 2)>>

MCSymmetry == Permutations(Processes)
=============================================================================
