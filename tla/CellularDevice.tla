-------------------------- MODULE CellularDevice --------------------------
(***************************************************************************)
(* A provisioned, confirmed device with a modem.  One task calls loop();   *)
(* a pass runs GsmLink::loop, GsmMqttClient::loop, bindTransports,         *)
(* mqttStep, and ingestStep with otaStep, in that order.  WiFi may come    *)
(* and go between any two of them, and between two passes the application  *)
(* may make an HTTP request.  Within one step everything else waits: HTTP  *)
(* exchanges other than a download start and end inside one call.          *)
(*                                                                         *)
(* Of an update only what concerns the transports is kept: OtaUpdater has  *)
(* the rest.  Of WiFi, its HTTP and its MQTT client only up or down.       *)
(***************************************************************************)
EXTENDS GsmLink

CONSTANTS
    Both,      \* link_mode is Both rather than Gprs
    WifiOnly,  \* link_policy is WifiOnly rather than AnyLink with GPRS allowed
    PauseMqtt  \* pause_mqtt_during_download

ASSUME ModeAssumption ==
    Both \in BOOLEAN /\ WifiOnly \in BOOLEAN /\ PauseMqtt \in BOOLEAN

VARIABLES
    pc,            \* the step of loop() that runs next; "app" between passes
    bound,         \* d.http and d.mqtt: "wifi" or "gsm"
    started,       \* mqtt_started
    wasConnected,  \* was_connected
    paused,        \* mqtt_paused_for_ota
    ota,           \* the device state, as far as transports matter
    gsmOpen,       \* http_gsm._open: a download runs over the modem
    wifiOpen,      \* a download runs in http_wifi
    wifiUp,        \* environment: wifiUp()
    espConnected,  \* environment: the WiFi session is connected
    subscribed     \* history: the GSM session's topics: "asked" of the broker,
                   \* "none", or "missed": a drop for HTTP goes unnoticed

loopVars == <<bound, started, wasConnected, paused, ota>>
httpVars == <<gsmOpen, wifiOpen>>
envVars  == <<modemWell, wifiUp, espConnected>>
vars     == <<linkVars, pc, loopVars, httpVars, wifiUp, espConnected, subscribed>>

TypeOK ==
    /\ link \in LinkType /\ session \in SessionType
    /\ modemWell \in BOOLEAN /\ rebuilt \in BOOLEAN
    /\ pc \in {"app", "session", "bind", "mqtt", "ota"}
    /\ bound \in {"wifi", "gsm"}
    /\ ota \in {"none", "order", "downloading", "verifying"}
    /\ started \in BOOLEAN /\ wasConnected \in BOOLEAN /\ paused \in BOOLEAN
    /\ gsmOpen \in BOOLEAN /\ wifiOpen \in BOOLEAN
    /\ wifiUp \in BOOLEAN /\ espConnected \in BOOLEAN
    /\ subscribed \in {"none", "asked", "missed"}

(* After begin(): the transports point at WiFi until the first pass.       *)
Init ==
    /\ modemWell \in BOOLEAN /\ wifiUp \in BOOLEAN
    /\ link = NewLink /\ session = NewSession /\ rebuilt = FALSE
    /\ pc = "app" /\ bound = "wifi" /\ ota = "none"
    /\ started = FALSE /\ wasConnected = FALSE /\ paused = FALSE
    /\ gsmOpen = FALSE /\ wifiOpen = FALSE
    /\ espConnected = FALSE /\ subscribed = "none"

Step(from, to) == pc = from /\ pc' = to

LinkUp    == (Both /\ wifiUp) \/ Ready                \* linkUp()
Connected == IF bound = "gsm" THEN session.connected ELSE espConnected

-----------------------------------------------------------------------------
(* GsmLink::loop.                                                          *)

GsmLoop ==
    /\ Step("app", "session") /\ LinkLoop
    /\ UNCHANGED <<loopVars, httpVars, envVars, subscribed>>

-----------------------------------------------------------------------------
(* GsmMqttClient::loop.  PubSubClient::loop() says whether the session     *)
(* still stands; one that was closed stays closed.                         *)

Runs == session.configured /\ ~session.suspended

SessionIdle == ~Runs /\ UNCHANGED <<link, session, rebuilt, subscribed>>

SessionServes ==
    /\ Runs /\ session.connected
    /\ session' = [session EXCEPT !.had = TRUE]
    /\ UNCHANGED <<link, rebuilt, subscribed>>

(* The first pass after a drop only notes it and reports it to the link,   *)
(* which does nothing about it.                                            *)
SessionLost ==
    /\ Runs /\ session.had /\ (session.connected => ~modemWell)
    /\ session' = [session EXCEPT !.connected = FALSE, !.had = FALSE]
    /\ UNCHANGED <<link, rebuilt, subscribed>>

Closed == Runs /\ ~session.connected /\ ~session.had

(* An open that was under way does not survive the link.                   *)
SessionBlocked ==
    /\ Closed /\ ~Usable
    /\ session' = [session EXCEPT !.opening = FALSE]
    /\ UNCHANGED <<link, rebuilt, subscribed>>

SessionWaits ==
    /\ Closed /\ Usable
    /\ UNCHANGED <<link, session, rebuilt, subscribed>>

(* Mutant: a session connects while HTTP holds the modem.                  *)
ReadyIsEnough == Closed /\ Ready

(* conectar() is reached when the session runs, is closed, and nobody      *)
(* else holds the modem.                                                   *)
MayConnect == Closed /\ Usable

(* The socket opens, at once or late, and the broker accepts.  It opens a  *)
(* clean session: what was subscribed before is forgotten.                 *)
SessionConnects ==
    /\ MayConnect
    /\ session' = [session EXCEPT !.connected = TRUE, !.had = TRUE,
                                  !.opening = FALSE]
    /\ ReportConnected
    /\ subscribed' = IF subscribed = "missed" THEN subscribed ELSE "none"

(* avaliarAbertura(): the modem is still opening, the socket of an earlier *)
(* attempt or, on a new PDP, one that takes its place; look again later.   *)
SessionOpening ==
    /\ MayConnect
    /\ session' = [session EXCEPT !.opening = TRUE]
    /\ UNCHANGED <<link, rebuilt, subscribed>>

(* The socket did not open, or the connection was lost before the broker   *)
(* answered.                                                               *)
SessionFails ==
    /\ MayConnect /\ ~modemWell
    /\ ReportTransportFailure([session EXCEPT !.opening = FALSE])
    /\ UNCHANGED subscribed

(* The broker said no: not the modem's fault, and not reported.            *)
SessionRefused ==
    /\ MayConnect /\ ~modemWell
    /\ session' = [session EXCEPT !.opening = FALSE]
    /\ UNCHANGED <<link, rebuilt, subscribed>>

SessionLoop ==
    /\ Step("session", "bind")
    /\ \/ SessionIdle \/ SessionServes \/ SessionLost \/ SessionBlocked \/ SessionWaits
       \/ SessionConnects \/ SessionOpening \/ SessionFails \/ SessionRefused
    /\ UNCHANGED <<loopVars, httpVars, envVars>>

-----------------------------------------------------------------------------
(* bindTransports: a device with WiFi and modem uses the modem only        *)
(* without WiFi.                                                           *)

Wanted == IF ~Both \/ (~wifiUp /\ Ready) THEN "gsm" ELSE "wifi"

BindTransports ==
    /\ Step("bind", "mqtt")
    /\ bound' = Wanted
    /\ started' = (started /\ bound = Wanted)
    /\ session' = IF bound = "gsm" /\ Wanted = "wifi"
                  THEN EndSession(session) ELSE session
    /\ espConnected' = (espConnected /\ Wanted = "wifi")
    /\ UNCHANGED <<link, rebuilt, modemWell, wasConnected, paused, ota,
                   httpVars, wifiUp, subscribed>>

-----------------------------------------------------------------------------
(* mqttStep: subscriptions are made on the edge from down to up, and a     *)
(* session that was not started is.                                        *)

(* Mutant: the way down is not noted.                                      *)
DropNotNoted == wasConnected \/ Connected

Noted == Connected

MqttEdges ==
    /\ wasConnected' = Noted
    /\ subscribed' = IF bound = "gsm" /\ Connected /\ ~wasConnected THEN "asked"
                     ELSE IF ~Connected THEN "none" ELSE subscribed

MayStart == ~Connected /\ LinkUp /\ ~started

(* A failed begin() of the WiFi session puts the next one off.             *)
Starts == IF Both THEN {MayStart, FALSE} ELSE {MayStart}

MqttStep ==
    /\ Step("mqtt", "ota")
    /\ IF paused
       THEN UNCHANGED <<wasConnected, subscribed, started, session>>
       ELSE /\ MqttEdges
            /\ \E starts \in Starts :
                  /\ started' = (started \/ starts)
                  /\ session' = IF starts /\ bound = "gsm"
                                THEN BeginSession(session) ELSE session
    /\ UNCHANGED <<link, rebuilt, bound, paused, ota, httpVars, envVars>>

-----------------------------------------------------------------------------
(* GsmHttpClient and the lease.  acquireForHttp() and releaseHttp() on     *)
(* link l and session s.                                                   *)

(* Mutant: the lease is given out on a link that is down.                  *)
NotLeasedIsEnough(l) == ~l.leased

MayAcquire(l) == l.state = "Ready" /\ ~l.leased
Acquire(l)    == [l EXCEPT !.leased = TRUE]
Release(l)    == [l EXCEPT !.leased = FALSE]

ReleaseSession(s) == Resume(s)

(* Mutant: the end of a download keeps the lease.                          *)
LinkKept == link

(* endDownload() of the client in use.  Only the client that opened a      *)
(* download ends it.                                                       *)
LinkEnded == IF bound = "gsm" /\ gsmOpen THEN Release(link) ELSE link
Ended(s)  == IF bound = "gsm" /\ gsmOpen /\ link.leased
                THEN ReleaseSession(s) ELSE s

EndStream ==
    /\ gsmOpen' = (gsmOpen /\ bound # "gsm")
    /\ wifiOpen' = (wifiOpen /\ bound # "wifi")

EndDownload(s) == link' = LinkEnded /\ session' = Ended(s) /\ EndStream

(* An exchange that fits one call: whatever it ends like, the lease it     *)
(* took is given back.                                                     *)
AppHttp ==
    /\ pc = "app" /\ ota \in {"none", "order"} /\ bound = "gsm" /\ MayAcquire(link)
    /\ session' = ReleaseSession(Suspend(session))
    /\ subscribed' = IF session.connected THEN "missed" ELSE subscribed
    /\ UNCHANGED <<link, rebuilt, pc, loopVars, httpVars, envVars>>

-----------------------------------------------------------------------------
(* ingestStep and otaStep.                                                 *)

(* otaLinkReady().                                                         *)
OtaLinkReady == wifiUp \/ (~WifiOnly /\ LinkUp)

(* An order reaches the device over a session that delivers, in whatever   *)
(* state the device is; the link is looked at when it is evaluated, in the *)
(* pass it arrives in.  It starts a download, waits for the button, or is  *)
(* dropped.  A press of the button starts the download on any link.        *)
Hearing  == Connected /\ (bound = "gsm" => session.registered)
MayBegin == (Hearing /\ OtaLinkReady) \/ ota = "order"

OrderWaits ==
    /\ MayBegin /\ ota' = "order"
    /\ UNCHANGED <<link, session, bound, started, wasConnected, paused, httpVars>>

OrderDropped ==
    /\ (Hearing /\ ~OtaLinkReady) \/ ota = "order"
    /\ ota' = "none"
    /\ UNCHANGED <<link, session, bound, started, wasConnected, paused, httpVars>>

NothingToDo ==
    /\ ota = "none"
    /\ UNCHANGED <<link, session, loopVars, httpVars>>

(* pauseMqttForOta().                                                      *)
Pauses == PauseMqtt /\ started

PausedSession == IF Pauses /\ bound = "gsm" THEN EndSession(session) ELSE session

(* startDownload() that ends with an open download.                        *)
StartDownload ==
    /\ MayBegin
    /\ paused' = (paused \/ Pauses)
    /\ started' = (started /\ ~Pauses)
    /\ wasConnected' = (wasConnected /\ ~Pauses)
    /\ espConnected' = (espConnected /\ ~(Pauses /\ bound = "wifi"))
    /\ ota' = "downloading"
    /\ IF bound = "gsm"
       THEN /\ MayAcquire(LinkEnded)
            /\ link' = Acquire(LinkEnded)
            /\ session' = Suspend(Ended(PausedSession))
            /\ gsmOpen' = TRUE /\ UNCHANGED wifiOpen
       ELSE wifiOpen' = TRUE /\ UNCHANGED <<link, session, gsmOpen>>
    /\ UNCHANGED <<bound, subscribed>>

(* Mutant: a download that cannot be opened keeps its lease.               *)
KeepsLease(l, s) == link' = Acquire(l) /\ session' = Suspend(s) /\ UNCHANGED subscribed

(* abrir() and lerCabecalhos() on a way out other than success.            *)
OpenFails(l, s) ==
    /\ link' = l
    /\ session' = IF MayAcquire(l) THEN ReleaseSession(Suspend(s)) ELSE s
    /\ subscribed' = IF MayAcquire(l) /\ s.connected THEN "missed" ELSE subscribed

(* startDownload() that fails, at the sink or at the client: the session   *)
(* that was ended may be started again, and failOta() ends the download of *)
(* the client in use.                                                      *)
StartFails ==
    /\ MayBegin
    /\ ota' = "none" /\ paused' = FALSE
    /\ started' = (started /\ ~Pauses)
    /\ wasConnected' = (wasConnected /\ ~Pauses)
    /\ espConnected' = (espConnected /\ ~(Pauses /\ bound = "wifi"))
    /\ \/ /\ link' = LinkEnded /\ session' = Ended(PausedSession)
          /\ UNCHANGED subscribed
       \/ bound = "gsm" /\ OpenFails(LinkEnded, Ended(PausedSession))
    /\ EndStream
    /\ UNCHANGED bound

(* failOta() for an address this client cannot fetch: nothing was paused.  *)
NotFetchable ==
    /\ MayBegin
    /\ ota' = "none" /\ paused' = FALSE /\ EndDownload(session)
    /\ UNCHANGED <<bound, started, wasConnected>>

(* readChunk() of the client in use: only an open download yields bytes.   *)
ClientOpen == IF bound = "gsm" THEN gsmOpen ELSE wifiOpen

Chunk ==
    /\ ota = "downloading" /\ OtaLinkReady /\ ClientOpen
    /\ UNCHANGED <<link, session, loopVars, httpVars>>

EndOfFile ==
    /\ ota = "downloading" /\ OtaLinkReady /\ ClientOpen
    /\ ota' = "verifying" /\ EndDownload(session)
    /\ UNCHANGED <<bound, started, wasConnected, paused>>

(* failOta(): network, stall, flash or digest.                             *)
DownloadFails ==
    /\ ota \in {"downloading", "verifying"}
    /\ ota' = "none" /\ paused' = FALSE /\ EndDownload(session)
    /\ UNCHANGED <<bound, started, wasConnected>>

(* The image was applied: restart.  A reset at any other moment leads to   *)
(* the same state and is left out.                                         *)
Applied ==
    /\ pc = "ota" /\ ota = "verifying"
    /\ link' = NewLink /\ session' = NewSession /\ rebuilt' = FALSE
    /\ pc' = "app" /\ bound' = "wifi" /\ ota' = "none"
    /\ started' = FALSE /\ wasConnected' = FALSE /\ paused' = FALSE
    /\ gsmOpen' = FALSE /\ wifiOpen' = FALSE
    /\ espConnected' = FALSE /\ subscribed' = "none"
    /\ UNCHANGED <<modemWell, wifiUp>>

OtaStep ==
    /\ Step("ota", "app")
    /\ \/ /\ \/ NothingToDo \/ OrderWaits \/ OrderDropped \/ NotFetchable
             \/ Chunk \/ EndOfFile \/ DownloadFails
          /\ UNCHANGED <<espConnected, subscribed>>
       \/ StartDownload \/ StartFails
    /\ UNCHANGED <<rebuilt, modemWell, wifiUp>>

-----------------------------------------------------------------------------
(* The environment.                                                        *)

ModemChanges ==
    /\ modemWell' = ~modemWell
    /\ UNCHANGED <<link, session, rebuilt, pc, loopVars, httpVars,
                   wifiUp, espConnected, subscribed>>

WifiChanges ==
    /\ wifiUp' = ~wifiUp
    /\ UNCHANGED <<linkVars, pc, loopVars, httpVars, espConnected, subscribed>>

(* esp-mqtt connects and loses its session in a task of its own.           *)
EspChanges ==
    /\ bound = "wifi" /\ started
    /\ espConnected' = ~espConnected
    /\ UNCHANGED <<linkVars, pc, loopVars, httpVars, wifiUp, subscribed>>

Pass == GsmLoop \/ SessionLoop \/ BindTransports \/ MqttStep
           \/ OtaStep \/ Applied

Next == Pass \/ AppHttp \/ ModemChanges \/ WifiChanges \/ EspChanges

Spec == Init /\ [][Next]_vars

(* What the fairness stands for: loop() keeps being called; a timer that   *)
(* is waited for fires and a modem that is well answers in the end; a      *)
(* session that may connect to a broker that is well does; a download      *)
(* ends, as OtaUpdater shows.                                              *)
LinkMoves       == modemWell /\ pc = "app" /\ LinkProgress /\ GsmLoop
SessionOpens    == modemWell /\ SessionConnects /\ SessionLoop
DownloadLeaves  == ota = "downloading" /\ OtaStep /\ ota' # "downloading"

FairSpec ==
    /\ Spec
    /\ WF_vars(Pass) /\ SF_vars(LinkMoves)
    /\ SF_vars(SessionOpens) /\ SF_vars(DownloadLeaves)

-----------------------------------------------------------------------------
(* Properties.                                                             *)

(* HTTP and MQTT share the modem as ModemLease says: never together, MQTT  *)
(* is moved aside before HTTP touches the link, and a link does not go     *)
(* down under an exchange, from one restart of the device to the next.     *)
Lease == INSTANCE ModemLease WITH
    up    <- Ready,
    owner <- IF link.leased THEN "http"
             ELSE IF session.connected THEN "mqtt" ELSE "none"

ImplementsLease == Lease!Init /\ [][Lease!Next \/ Applied]_(Lease!leaseVars)

(* suspend() has two callers, the lease and the link going down, and one   *)
(* flag: whoever suspended the session is still there to resume it.        *)
SomeoneResumes == session.suspended => link.leased \/ link.pausedByFail

(* acquireForHttp() is matched by a release: between two passes only a     *)
(* download that is running in the client in use holds the modem.          *)
LeaseIsMatched ==
    pc = "app" /\ link.leased => ota = "downloading" /\ bound = "gsm"

(* The escalation ladder: MQTT failures reset the modem only if rebuilding *)
(* the PDP since the last connection did not help.                         *)
ResetIsLastResort ==
    [][pc = "session" /\ link.state = "Ready" /\ link'.state = "Settling"
         => rebuilt]_vars

(* On a device with only the modem, a connected session has asked the new  *)
(* broker session for its topics, whatever went down in between, unless an *)
(* HTTP exchange closed it between two looks of mqttStep: a request of the *)
(* application, or a download that could not be opened.                    *)
TopicsAskedAgain ==
    pc = "ota" /\ ~Both /\ session.connected => subscribed # "none"

(* The inductive invariant.  A lease is an open download and keeps the     *)
(* link up; what went down on purpose has a flag that says so; the ladder  *)
(* has not passed a rung without taking it.                                *)
LinkInv ==
    /\ link.leased => Ready
    /\ (link.leased <=> gsmOpen)
    /\ link.pausedByFail => ~Ready
    /\ link.redoPdp => ~Ready
    /\ link.mqttFailures < ResetModemAfter
    /\ link.mqttFailures >= RedoPdpAfter => rebuilt \/ link.redoPdp

(* A session that is connected, or about to be, has the modem to itself.   *)
SessionInv ==
    /\ (session.had <=> session.connected)
    /\ session.connected \/ session.opening => Runs /\ Usable
    /\ SomeoneResumes

(* Without WiFi the transports never change under a download.              *)
GprsInv == ~Both /\ gsmOpen => ota = "downloading" /\ bound = "gsm"

IInv == TypeOK /\ LinkInv /\ SessionInv /\ GprsInv

(* Without WiFi the transports are the modem's from the first pass on, and *)
(* the session that mqttStep starts is the one pauseMqttForOta() ends.     *)
BoundInv ==
    /\ bound = "wifi" => /\ pc \in {"app", "session", "bind"}
                         /\ ~session.configured /\ ~started /\ ~wasConnected
    /\ bound = "gsm" => (session.configured <=> started)
    /\ paused => ~started /\ ~wasConnected

(* was_connected lags behind the session: what it still takes for          *)
(* connected either is, or is suspended for as long as a download runs, or *)
(* has been missed.  A session without topics is one mqttStep has not seen.*)
EdgeInv ==
    /\ wasConnected /\ ~session.connected =>
          \/ subscribed = "missed"
          \/ pc \in {"app", "session"} /\ session.suspended /\ link.leased
          \/ pc \in {"bind", "mqtt"}
    /\ session.connected /\ subscribed = "none" =>
          pc \in {"bind", "mqtt"} /\ ~wasConnected

TopicsInv == ~Both => BoundInv /\ EdgeInv

(* A modem lent to HTTP comes back.                                        *)
LeaseReturned == link.leased ~> ~link.leased

(* With a modem that works from some moment on, the session comes back     *)
(* again and again, whatever suspended it, and whatever the application    *)
(* fetches in between.                                                     *)
Reconnects == <>[]modemWell => []<>session.connected
=============================================================================
