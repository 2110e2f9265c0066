---------------------------- MODULE BoundedFifo ----------------------------
(***************************************************************************)
(* What the inbound message ring promises to its two users: a queue of at  *)
(* most Cap items that hands them out whole and in order, drops an item    *)
(* only when it is full or the item does not fit, and counts every drop.   *)
(***************************************************************************)
EXTENDS Naturals, Sequences

CONSTANTS
    Items,      \* what can be queued
    Unfit,      \* what is too long to be queued
    Nothing,    \* no item taken, or refused, yet
    Cap,        \* most items queued at a time
    Wrap        \* the drop counter counts modulo Wrap

VARIABLES
    queue,
    taken,      \* last item handed out
    refused,    \* last item dropped
    dropped     \* how many were

vars == <<queue, taken, refused, dropped>>

Init ==
    /\ queue = << >>
    /\ taken = Nothing /\ refused = Nothing /\ dropped = 0

Put ==
    /\ Len(queue) < Cap
    /\ \E x \in Items : queue' = Append(queue, x)
    /\ UNCHANGED <<taken, refused, dropped>>

Drop ==
    /\ \E x \in Items \cup Unfit :
          /\ Len(queue) = Cap \/ x \in Unfit
          /\ refused' = x
    /\ dropped' = (dropped + 1) % Wrap
    /\ UNCHANGED <<queue, taken>>

Take ==
    /\ queue # << >>
    /\ taken' = Head(queue)
    /\ queue' = Tail(queue)
    /\ UNCHANGED <<refused, dropped>>

(* Clearing loses a prefix: what arrives meanwhile may stay.               *)
Clear ==
    /\ \E k \in 0..Len(queue) : queue' = SubSeq(queue, k + 1, Len(queue))
    /\ UNCHANGED <<taken, refused, dropped>>

Next == Put \/ Drop \/ Take \/ Clear

Spec == Init /\ [][Next]_vars
=============================================================================
