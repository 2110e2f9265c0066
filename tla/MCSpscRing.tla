----------------------------- MODULE MCSpscRing -----------------------------
(* Small instances of SpscRing: two messages that fit and one that does  *)
(* not.                                                                    *)
EXTENDS SpscRing

CONSTANTS m1, m2, big
=============================================================================
