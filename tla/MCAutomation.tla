---------------------------- MODULE MCAutomation ----------------------------
(* A small automation for TLC: the occurrence of one day, two claims, and    *)
(* two dispatchers that may work on the same delivery.                       *)
EXTENDS AppAutomation

CONSTANTS d1, x, y

MCDefinitions == {d1}
MCDays == {0}
MCDispatchers == {x, y}
=============================================================================
