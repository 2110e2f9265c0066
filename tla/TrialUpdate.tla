---------------------------- MODULE TrialUpdate ----------------------------
(***************************************************************************)
(* What an update over two slots promises.  A unit always has an image     *)
(* that is known to work, and at most one other that is selected or on     *)
(* trial.  A selected image is started once; while it is on trial it       *)
(* becomes the known one if the server has answered it, or the unit goes   *)
(* back.  What runs is the image on trial, or else the known one.          *)
(***************************************************************************)
VARIABLES
    good,      \* version that is known to work
    trial,     \* version selected or on trial, or 0
    started,   \* the trial has begun
    answered,  \* the server has answered it
    runs       \* version that is running

trialVars == <<good, trial, started, answered, runs>>

Init ==
    /\ good # 0 /\ trial = 0 /\ runs = good
    /\ started = FALSE /\ answered = FALSE

Select ==
    /\ trial = 0 /\ trial' # 0
    /\ UNCHANGED <<good, started, answered, runs>>

Start ==
    /\ trial # 0 /\ ~started
    /\ started' = TRUE /\ runs' = trial
    /\ UNCHANGED <<good, trial, answered>>

Answer ==
    /\ started /\ answered' = TRUE
    /\ UNCHANGED <<good, trial, started, runs>>

Over == trial' = 0 /\ started' = FALSE /\ answered' = FALSE

Confirm == started /\ answered /\ good' = trial /\ UNCHANGED runs /\ Over

GoBack == started /\ runs' = good /\ UNCHANGED good /\ Over

Next == Select \/ Start \/ Answer \/ Confirm \/ GoBack

Spec == Init /\ [][Next]_trialVars
=============================================================================
