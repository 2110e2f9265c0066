---------------------------- MODULE ModemLease ----------------------------
(***************************************************************************)
(* What the cellular link promises to its two users.  One SIM800 modem     *)
(* carries either an HTTP exchange or an MQTT session, never both; only a  *)
(* link that is up carries anything; HTTP may take the modem away from     *)
(* MQTT, MQTT never from HTTP; and the link does not go down under an HTTP *)
(* exchange.  A restart of the whole unit is not a step of the lease.      *)
(***************************************************************************)
VARIABLES up, owner

leaseVars == <<up, owner>>

Init == up = FALSE /\ owner = "none"

LinkComesUp == ~up /\ up' = TRUE /\ UNCHANGED owner

(* The session goes with the link; an HTTP exchange keeps it up.           *)
LinkGoesDown == owner # "http" /\ up' = FALSE /\ owner' = "none"

TakeForHttp == up /\ owner # "http" /\ owner' = "http" /\ UNCHANGED up

GiveBack == owner = "http" /\ owner' = "none" /\ UNCHANGED up

OpenSession == up /\ owner = "none" /\ owner' = "mqtt" /\ UNCHANGED up

CloseSession == owner = "mqtt" /\ owner' = "none" /\ UNCHANGED up

Next == \/ LinkComesUp \/ LinkGoesDown
        \/ TakeForHttp \/ GiveBack
        \/ OpenSession \/ CloseSession

Spec == Init /\ [][Next]_leaseVars
=============================================================================
