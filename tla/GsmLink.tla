------------------------------ MODULE GsmLink ------------------------------
(***************************************************************************)
(* The cellular link (GsmLink): bringing the modem up, the lease HTTP      *)
(* takes on it, and the recovery ladder fed by the MQTT session.           *)
(*                                                                         *)
(* What the modem answers is a choice.  With modemWell it answers AT,      *)
(* registers, attaches and opens sockets within the time-outs; without it  *)
(* each of these may fail.  Timers, the length of a back-off and the kind  *)
(* of reset command are left out.                                          *)
(***************************************************************************)
EXTENDS GsmSession, Naturals

CONSTANTS
    RedoPdpAfter,     \* kFalhasRefazerPdp: consecutive failures that rebuild the PDP
    ResetModemAfter,  \* kFalhasResetModem: consecutive failures that reset the modem
    Ips,              \* addresses the operator may give
    NoIp              \* 0.0.0.0: the query for the address timed out

ASSUME LadderAssumption ==
    /\ RedoPdpAfter \in Nat /\ ResetModemAfter \in Nat
    /\ 0 < RedoPdpAfter /\ RedoPdpAfter < ResetModemAfter
    /\ ResetModemAfter <= 255

VARIABLES
    link,       \* the fields of GsmLink
    session,    \* the fields of GsmMqttClient
    modemWell,  \* environment: modem, network and broker do their part
    rebuilt     \* history: the PDP was rebuilt since MQTT last connected

linkVars == <<link, session, modemWell, rebuilt>>

LinkStates == {"Settling", "Init", "Network", "Attaching", "Ready", "Backoff"}

LinkType ==
    [state: LinkStates, leased: BOOLEAN, pausedByFail: BOOLEAN,
     mqttFailures: 0..255, redoPdp: BOOLEAN, compareIp: BOOLEAN,
     lastIp: Ips \cup {NoIp}]

(* begin() and setMqttGate(): powered on, the gates registered.            *)
NewLink ==
    [state |-> "Settling", leased |-> FALSE, pausedByFail |-> FALSE,
     mqttFailures |-> 0, redoPdp |-> FALSE, compareIp |-> FALSE,
     lastIp |-> NoIp]

Ready == link.state = "Ready"        \* up()
Usable == Ready /\ ~link.leased      \* up() and not httpBusy()

-----------------------------------------------------------------------------
(* The two ways down.  Both take the session off the modem first, and      *)
(* remember that they did.                                                 *)

Down(l, to) ==
    [l EXCEPT !.pausedByFail = TRUE, !.leased = FALSE, !.state = to]

Fail(l) == Down(l, "Backoff")

ResetModem(l) ==
    [Down(l, "Settling") EXCEPT !.mqttFailures = 0, !.redoPdp = FALSE,
                                !.compareIp = FALSE]

FailLink ==
    link' = Fail(link) /\ session' = Suspend(session) /\ UNCHANGED rebuilt

ResetLink ==
    link' = ResetModem(link) /\ session' = Suspend(session) /\ rebuilt' = FALSE

-----------------------------------------------------------------------------
(* loop(), one disjunct per outcome of a pass.                             *)

Enter(from, to) ==
    /\ link.state = from
    /\ link' = [link EXCEPT !.state = to]
    /\ UNCHANGED <<session, rebuilt>>

ModemAnswers == Enter("Settling", "Init")
ModemSilent  == link.state = "Settling" /\ ~modemWell /\ FailLink
ModemInit    == Enter("Init", "Network")
Registered   == Enter("Network", "Attaching")

(* Denied, stuck with a good signal, or not registered in time.            *)
NotRegistered == link.state = "Network" /\ ~modemWell /\ ResetLink

(* Everything of the old PDP is torn down and another one requested.       *)
RebuildPdp ==
    /\ link.state = "Attaching" /\ link.redoPdp
    /\ link' = [link EXCEPT !.redoPdp = FALSE, !.compareIp = TRUE]
    /\ rebuilt' = TRUE
    /\ UNCHANGED session

(* A PDP rebuilt on purpose that comes back with its old address was not   *)
(* rebuilt at all.                                                         *)
SameIp(ip) == link.compareIp /\ ip # NoIp /\ ip = link.lastIp

PdpUnchanged ==
    /\ link.state = "Attaching" /\ ~link.redoPdp
    /\ \E ip \in Ips \cup {NoIp} : SameIp(ip)
    /\ ResetLink

(* Mutant: the session a failure suspended is not given back.              *)
PausedStays(s) == s

(* What the link took away when it went down it gives back here.           *)
GiveBackAfterFail(s) == IF link.pausedByFail THEN Resume(s) ELSE s

PdpUp ==
    /\ link.state = "Attaching" /\ ~link.redoPdp
    /\ \E ip \in Ips \cup {NoIp} :
          /\ ~SameIp(ip)
          /\ link' = [link EXCEPT !.compareIp = FALSE, !.lastIp = ip,
                                  !.state = "Ready", !.pausedByFail = FALSE]
    /\ session' = GiveBackAfterFail(session)
    /\ UNCHANGED rebuilt

NotAttached ==
    /\ link.state = "Attaching" /\ ~link.redoPdp /\ ~modemWell
    /\ ResetLink

BackoffOver == Enter("Backoff", "Init")

(* No timer is due and no answer is there yet; a link that is up is left   *)
(* alone.                                                                  *)
LinkWaits ==
    /\ link.state \in {"Settling", "Network", "Attaching", "Backoff", "Ready"}
    /\ link.state = "Attaching" => ~link.redoPdp
    /\ UNCHANGED <<link, session, rebuilt>>

LinkProgress == \/ ModemAnswers \/ ModemInit \/ Registered
                \/ RebuildPdp \/ PdpUnchanged \/ PdpUp \/ BackoffOver

LinkLoop == \/ LinkProgress \/ LinkWaits
            \/ ModemSilent \/ NotRegistered \/ NotAttached

-----------------------------------------------------------------------------
(* The ladder.  reportMqttTransportFailure() called with the session s.    *)

Counted(l) == [l EXCEPT !.mqttFailures = IF @ < 255 THEN @ + 1 ELSE @]

(* Mutant: the modem is reset where the PDP should be rebuilt.             *)
ResetsAtOnce(l) == l.mqttFailures >= RedoPdpAfter

ResetsModem(l) == l.mqttFailures >= ResetModemAfter
RedoesPdp(l)   == l.mqttFailures >= RedoPdpAfter /\ ~ResetsModem(l)

ReportTransportFailure(s) ==
    LET l == Counted(link) IN
    \/ /\ Usable /\ ResetsModem(l)
       /\ link' = ResetModem(l) /\ session' = Suspend(s) /\ rebuilt' = FALSE
    \/ /\ Usable /\ RedoesPdp(l)
       /\ link' = [Fail(l) EXCEPT !.redoPdp = TRUE] /\ session' = Suspend(s)
       /\ UNCHANGED rebuilt
    \/ /\ Usable /\ ~ResetsModem(l) /\ ~RedoesPdp(l)
       /\ link' = l /\ session' = s /\ UNCHANGED rebuilt
    \/ /\ ~Usable
       /\ session' = s /\ UNCHANGED <<link, rebuilt>>

(* reportMqttConnected().                                                  *)
ReportConnected ==
    link' = [link EXCEPT !.mqttFailures = 0] /\ rebuilt' = FALSE
=============================================================================
