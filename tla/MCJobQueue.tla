----------------------------- MODULE MCJobQueue -----------------------------
(* A small job queue for TLC: a deduplicated job and a recurring one compete *)
(* for two worker slots.                                                     *)
EXTENDS JobQueue

CONSTANTS w1, w2, job, cron

MCKeys == {job, cron}
MCCronKeys == {cron}
MCSlots == {w1, w2}
=============================================================================
