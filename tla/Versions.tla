------------------------------ MODULE Versions ------------------------------
(***************************************************************************)
(* The version comparison of core/OrderCodec.  A version is the sequence   *)
(* of the numbers that strtol finds in it, one per dotted component; at    *)
(* the first component without a number it stops moving, which is the end. *)
(***************************************************************************)
EXTENDS Integers, Sequences

(* nextComponent(): -1 when it has run out.                                *)
Component(v, i) == IF i <= Len(v) THEN v[i] ELSE -1

(* Mutant: a version that has run out is the older one.                    *)
ShorterIsOlder(v, i) == Component(v, i)

(* What counts: a missing component is 0.                                  *)
Number(v, i) == IF Component(v, i) < 0 THEN 0 ELSE Component(v, i)

CompareVersions(a, b) ==
    LET longest == IF Len(a) >= Len(b) THEN Len(a) ELSE Len(b)
        RunOut(i) == Component(a, i) < 0 /\ Component(b, i) < 0
        Decides(i) == RunOut(i) \/ Number(a, i) # Number(b, i)
        at == CHOOSE i \in 1..(longest + 1) :
                 Decides(i) /\ \A j \in 1..(i - 1) : ~Decides(j)
    IN IF RunOut(at) THEN 0 ELSE IF Number(a, at) < Number(b, at) THEN -1 ELSE 1
=============================================================================
