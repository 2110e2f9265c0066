-------------------------- MODULE MCCoreAlgorithms --------------------------
(* Two steps of two and five ticks on a clock of sixteen.                  *)
EXTENDS CoreAlgorithms

MCSteps == <<2, 5>>
=============================================================================
