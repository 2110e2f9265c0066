---------------------------- MODULE MqttSession ----------------------------
(***************************************************************************)
(* The MQTT session of a provisioned WiFi device: EspMqttClient, whose     *)
(* esp-mqtt task connects, reconnects and receives on its own, and the     *)
(* loop task that starts and ends the client, notices its reconnects and   *)
(* drains the messages it queued.  The application subscribes and          *)
(* unsubscribes on the loop task.                                          *)
(*                                                                         *)
(* The two tasks meet in the flag _connected and in the ring, whose single *)
(* accesses are the business of SpscRing: a push or a pop is one step      *)
(* here.  The broker is external: sessions are clean, so it knows nothing  *)
(* of the subscriptions of an earlier connection.                          *)
(*                                                                         *)
(* A payload is its length in units of which one fits the network buffer   *)
(* and PollBytes, RingBytes and AssemblyBytes fit the other three; what is *)
(* received is kept as the sequence of pieces it was put together from.    *)
(*                                                                         *)
(* The topic of an event is bytes and a length (topic_len), but the client *)
(* reads it as a C string: what it takes for the topic may go on with the  *)
(* bytes behind it, and is cut wherever it is copied.                      *)
(***************************************************************************)
EXTENDS Integers, Sequences, FiniteSets

CONSTANTS
    OwnTopics,      \* <<topics.update(), topics.config()>>
    AppTopics,      \* topics the project may subscribe to
    Cut,            \* what is left of a topic in kMaxTopicLen bytes
    ReadAs,         \* C strings an event's topic may be read as
    Messages,       \* [topic, size] the broker may send
    NoMessage,      \* nothing is being received
    MaxSubs,        \* Impl::kMaxSubs
    InboxCap,       \* slots of the ring
    FragBytes,      \* buffer_bytes: longer messages come in fragments
    PollBytes,      \* the buffer of ingestStep()
    RingBytes,      \* payload of a ring slot
    AssemblyBytes,  \* kAssemblyBytes
    Async,          \* cfg.mqtt.dispatch
    PauseMqtt       \* cfg.ota.pause_mqtt_during_download

Own == {OwnTopics[1], OwnTopics[2]}
Topics == DOMAIN Cut

(* The library's topics fit (TopicResolver builds them in kMaxTopicLen     *)
(* bytes), and what was cut is not cut again.                              *)
ASSUME TopicsAssumption ==
    /\ OwnTopics \in Seq(Topics) /\ Len(OwnTopics) = 2
    /\ AppTopics \subseteq Topics /\ Own \cap AppTopics = {}
    /\ Cut \in [Topics -> Topics] /\ ReadAs \in [Topics -> SUBSET Topics]
    /\ \A t \in Own : Cut[t] = t
    /\ \A t \in Topics : Cut[Cut[t]] = Cut[t]
    /\ NoMessage \notin Messages
    /\ Messages \subseteq [topic: Topics, size: Nat \ {0}]

ASSUME SizesAssumption ==
    /\ MaxSubs \in Nat /\ InboxCap \in Nat \ {0} /\ FragBytes \in Nat \ {0}
    /\ PollBytes \in Nat /\ RingBytes \in Nat /\ AssemblyBytes \in Nat

ASSUME SwitchesAssumption == Async \in BOOLEAN /\ PauseMqtt \in BOOLEAN

VARIABLES
    \* EspMqttClient
    client,       \* _client # nullptr, and _started
    connected,    \* _connected: written by the esp-mqtt task, read by both
    reserved,     \* _reserved
    direct,       \* _direct # nullptr
    assembling, assembly, assembly_topic,
    ring,
    \* FirmwareUpdater::Impl
    pc,           \* where the loop task is
    todo,         \* subscriptions applySubscriptions() has still to make
    was_connected, mqtt_started, paused,
    subs,         \* subs[0 .. subs_count)
    \* environment
    link,         \* linkUp(): and while it is, no connection is lost
    session,      \* the broker and the client are connected
    granted,      \* the broker's subscriptions of this connection
    rx, rx_off,   \* message being received, and how much of it was
    \* observation only: never read by an action
    wanted,       \* what the project subscribed to and did not unsubscribe
    refused,      \* what was subscribed with the table full
    missed        \* connected again since the loop noticed the connection

clientVars == <<client, connected, reserved, direct>>
rxVars     == <<assembling, assembly, assembly_topic, rx, rx_off>>
netVars    == <<link, session, granted>>
edgeVars   == <<was_connected, missed>>
loopVars   == <<pc, todo, edgeVars, mqtt_started, paused>>
histVars   == <<wanted, refused>>
vars       == <<clientVars, rxVars, netVars, loopVars, ring, subs, histVars>>

-----------------------------------------------------------------------------
Pieces(m, n) == [i \in 1..n |-> <<m, i>>]
Item(t, p)   == [topic |-> t, pieces |-> p]
Elements(s)  == {s[i] : i \in DOMAIN s}
Places       == {"app", "subscribe", "ingest", "ota"}

TypeOK ==
    /\ client \in BOOLEAN /\ connected \in BOOLEAN /\ direct \in BOOLEAN
    /\ reserved \subseteq Own /\ assembling \in BOOLEAN
    /\ assembly_topic \in Topics /\ assembly \in Seq(Messages \X Nat)
    /\ ring \in Seq([topic: Topics, pieces: Seq(Messages \X Nat)])
    /\ Len(ring) <= InboxCap
    /\ pc \in Places /\ todo \in Seq(Topics)
    /\ was_connected \in BOOLEAN /\ mqtt_started \in BOOLEAN /\ paused \in BOOLEAN
    /\ subs \in Seq(Topics) /\ Len(subs) <= MaxSubs
    /\ link \in BOOLEAN /\ session \in BOOLEAN /\ granted \subseteq Topics
    /\ rx \in Messages \cup {NoMessage} /\ rx_off \in Nat
    /\ wanted \subseteq AppTopics /\ refused \subseteq AppTopics
    /\ missed \in BOOLEAN

Init ==
    /\ client = FALSE /\ connected = FALSE /\ reserved = {} /\ direct = FALSE
    /\ assembling = FALSE /\ assembly = << >> /\ assembly_topic = OwnTopics[1]
    /\ ring = << >>
    /\ pc = "app" /\ todo = << >> /\ was_connected = FALSE
    /\ mqtt_started = FALSE /\ paused = FALSE /\ subs = << >>
    /\ link \in BOOLEAN /\ session = FALSE /\ granted = {}
    /\ rx = NoMessage /\ rx_off = 0
    /\ wanted = {} /\ refused = {} /\ missed = FALSE

-----------------------------------------------------------------------------
(* EspMqttClient on the esp-mqtt task.                                     *)

(* CONNECTED.  A pass of the loop may last longer than esp-mqtt pauses     *)
(* before it reconnects, and then has not noticed that there was a drop.   *)
OnConnected ==
    /\ client /\ link /\ ~session /\ ~connected
    /\ session' = TRUE /\ granted' = {} /\ connected' = TRUE
    /\ missed' = was_connected
    /\ UNCHANGED <<client, reserved, direct, rxVars, link, pc, todo, was_connected,
                   mqtt_started, paused, ring, subs, histVars>>

(* The connection is lost; the event comes later.                          *)
Drop ==
    /\ session /\ ~link
    /\ session' = FALSE /\ granted' = {} /\ rx' = NoMessage /\ rx_off' = 0
    /\ UNCHANGED <<clientVars, assembling, assembly, assembly_topic, link,
                   loopVars, ring, subs, histVars>>

(* DISCONNECTED.                                                           *)
OnDisconnected ==
    /\ client /\ connected /\ ~session
    /\ connected' = FALSE /\ assembling' = FALSE
    /\ UNCHANGED <<client, reserved, direct, assembly, assembly_topic, rx, rx_off,
                   netVars, loopVars, ring, subs, histVars>>

(* The broker sends a message on a topic it was asked for.                 *)
BrokerSends ==
    /\ session /\ connected /\ rx = NoMessage
    /\ \E m \in Messages : m.topic \in granted /\ rx' = m
    /\ rx_off' = 0
    /\ UNCHANGED <<clientVars, assembling, assembly, assembly_topic, netVars,
                   loopVars, ring, subs, histVars>>

(* deliver(): to the project on this task, or into the ring, which drops   *)
(* what is too long and what finds it full, and cuts the topic to its slot.*)
Direct(t) == direct /\ t \notin reserved

Deliver(t, p) ==
    IF ~Direct(t) /\ Len(p) <= RingBytes /\ Len(ring) < InboxCap
    THEN ring' = Append(ring, Item(Cut[t], p))
    ELSE UNCHANGED ring

DataVars == <<clientVars, netVars, loopVars, subs, histVars>>

(* DATA, the whole message at once.                                        *)
OnWhole ==
    /\ rx # NoMessage /\ rx.size <= FragBytes
    /\ \E t \in ReadAs[rx.topic] : Deliver(t, Pieces(rx, rx.size))
    /\ rx' = NoMessage /\ rx_off' = 0
    /\ UNCHANGED <<assembling, assembly, assembly_topic, DataVars>>

(* Mutant: the first fragment does not empty the buffer.                   *)
BufferNotEmptied(first) == assembly

(* What the assembly buffer holds when a fragment arrives: the first one   *)
(* starts over, and carries the topic, which is cut to _assembly_topic.    *)
Assembled(first) == IF first THEN << >> ELSE assembly

Least(a, b) == IF a <= b THEN a ELSE b

(* DATA, one fragment: assembled, delivered when complete, and the message *)
(* given up when it does not fit.                                          *)
OnFragment ==
    /\ rx # NoMessage /\ rx.size > FragBytes
    /\ LET first == rx_off = 0
           next  == Least(rx_off + FragBytes, rx.size)
           text  == Assembled(first)
           fits  == Len(text) + (next - rx_off) <= AssemblyBytes
           whole == text \o [i \in 1..(next - rx_off) |-> <<rx, rx_off + i>>]
           takes == (first \/ assembling) /\ fits
           done  == takes /\ Len(whole) >= rx.size
       IN /\ IF first THEN \E t \in ReadAs[rx.topic] : assembly_topic' = Cut[t]
                      ELSE UNCHANGED assembly_topic
          /\ assembling' = (takes /\ ~done)
          /\ assembly' = IF done THEN << >> ELSE IF takes THEN whole ELSE text
          /\ IF done THEN Deliver(assembly_topic', whole) ELSE UNCHANGED ring
          /\ rx' = IF next = rx.size THEN NoMessage ELSE rx
          /\ rx_off' = IF next = rx.size THEN 0 ELSE next
    /\ UNCHANGED DataVars

EspTask == OnConnected \/ OnDisconnected \/ OnWhole \/ OnFragment

-----------------------------------------------------------------------------
(* EspMqttClient on the loop task.                                         *)

(* Mutant: what is left in the ring outlives the client.                   *)
RingKept == UNCHANGED ring

EmptyRing == ring' = << >>

(* end(): stops the esp-mqtt task, so nothing is received any more.        *)
EndClient ==
    IF ~client
    THEN UNCHANGED <<client, connected, assembling, rx, rx_off, session, granted, ring>>
    ELSE /\ client' = FALSE /\ connected' = FALSE /\ assembling' = FALSE
         /\ rx' = NoMessage /\ rx_off' = 0 /\ session' = FALSE /\ granted' = {}
         /\ EmptyRing

(* begin(): a client that still exists is ended first; the new one starts  *)
(* without a connection, or there is none.                                 *)
BeginClient(ok) ==
    /\ client' = ok /\ connected' = FALSE /\ assembling' = FALSE
    /\ rx' = NoMessage /\ rx_off' = 0 /\ session' = FALSE /\ granted' = {}
    /\ IF client THEN EmptyRing ELSE UNCHANGED ring

(* subscribe(): nothing is sent once the client knows it is disconnected,  *)
(* and nothing arrives once the connection is gone.                        *)
AskBroker(t) == granted' = IF connected /\ session THEN granted \cup {t} ELSE granted

-----------------------------------------------------------------------------
(* mqttStep.                                                               *)

StepVars == <<reserved, direct, paused, subs, link, assembly, assembly_topic, histVars>>

PausedStep ==
    /\ pc = "app" /\ paused
    /\ pc' = "ingest"
    /\ UNCHANGED <<client, connected, assembling, rx, rx_off, session, granted, ring,
                   todo, edgeVars, mqtt_started, StepVars>>

(* Mutant: only the library's own topics are subscribed again.             *)
OwnSubscriptions == OwnTopics

(* What applySubscriptions() asks for, in order.                           *)
Subscriptions == OwnTopics \o subs

(* The edge to connected.                                                  *)
NoticeConnect ==
    /\ pc = "app" /\ ~paused /\ connected /\ ~was_connected
    /\ was_connected' = TRUE /\ todo' = Subscriptions /\ pc' = "subscribe"
    /\ UNCHANGED <<client, connected, assembling, rx, rx_off, session, granted, ring,
                   missed, mqtt_started, StepVars>>

SubscribeNext ==
    /\ pc = "subscribe"
    /\ AskBroker(Head(todo))
    /\ todo' = Tail(todo)
    /\ pc' = IF Tail(todo) = << >> THEN "ingest" ELSE pc
    /\ UNCHANGED <<client, connected, assembling, rx, rx_off, session, ring,
                   edgeVars, mqtt_started, StepVars>>

(* Nothing to notice and nothing to start.                                 *)
StaySettled ==
    /\ pc = "app" /\ ~paused /\ connected /\ was_connected
    /\ pc' = "ingest"
    /\ UNCHANGED <<client, connected, assembling, rx, rx_off, session, granted, ring,
                   todo, edgeVars, mqtt_started, StepVars>>

(* Not connected: a drop is noted, and a client that is not started stays  *)
(* so without a link, or while its back-off runs.                          *)
StayDown ==
    /\ pc = "app" /\ ~paused /\ ~connected
    /\ was_connected' = FALSE /\ missed' = FALSE /\ pc' = "ingest"
    /\ UNCHANGED <<client, connected, assembling, rx, rx_off, session, granted, ring,
                   todo, mqtt_started, StepVars>>

(* Mutant: a client that could not be started counts as started.           *)
StartCounted(ok) == TRUE

(* A client that could not be started is tried again.                      *)
Counted(ok) == ok

(* The library's topics are reserved before the client can receive.        *)
Start(ok) ==
    /\ pc = "app" /\ ~paused /\ ~connected /\ link /\ ~mqtt_started
    /\ was_connected' = FALSE /\ missed' = FALSE /\ pc' = "ingest"
    /\ reserved' = reserved \cup Own /\ direct' = (direct \/ Async)
    /\ BeginClient(ok) /\ mqtt_started' = Counted(ok)
    /\ UNCHANGED <<todo, paused, subs, link, assembly, assembly_topic, histVars>>

MqttStep ==
    \/ PausedStep \/ NoticeConnect \/ StaySettled \/ StayDown
    \/ \E ok \in BOOLEAN : Start(ok)

-----------------------------------------------------------------------------
(* ingestStep: poll() until it answers false.                              *)

IngestVars == <<clientVars, rxVars, netVars, todo, edgeVars, mqtt_started,
                paused, subs, histVars>>

(* Mutant: a message too long for the caller stays at the head.            *)
PoppedIfFits == IF Len(Head(ring).pieces) > PollBytes THEN ring ELSE Tail(ring)

(* pop() has taken the message whether it fits or not.                     *)
Popped == Tail(ring)

Poll ==
    /\ pc = "ingest" /\ ring # << >>
    /\ ring' = Popped
    /\ pc' = IF Len(Head(ring).pieces) > PollBytes THEN "ota" ELSE "ingest"
    /\ UNCHANGED IngestVars

PollEmpty ==
    /\ pc = "ingest" /\ ring = << >>
    /\ pc' = "ota"
    /\ UNCHANGED <<ring, IngestVars>>

-----------------------------------------------------------------------------
(* otaStep, as far as it takes the session away and gives it back.         *)

OtaVars == <<reserved, direct, assembly, assembly_topic, link, todo, subs, histVars>>

OtaIdle ==
    /\ pc = "ota" /\ pc' = "app"
    /\ UNCHANGED <<client, connected, assembling, rx, rx_off, session, granted, ring,
                   edgeVars, mqtt_started, paused, OtaVars>>

PauseMqttForOta ==
    /\ pc = "ota" /\ PauseMqtt /\ mqtt_started
    /\ EndClient
    /\ mqtt_started' = FALSE /\ paused' = TRUE
    /\ was_connected' = FALSE /\ missed' = FALSE
    /\ pc' = "app"
    /\ UNCHANGED OtaVars

ResumeMqttAfterOta ==
    /\ pc = "ota" /\ paused
    /\ paused' = FALSE /\ pc' = "app"
    /\ UNCHANGED <<client, connected, assembling, rx, rx_off, session, granted, ring,
                   edgeVars, mqtt_started, OtaVars>>

-----------------------------------------------------------------------------
(* FirmwareUpdater::subscribe and unsubscribe, called by the project       *)
(* between two passes or from a callback of the drain.                     *)

AppMayCall == pc \in {"app", "ingest"}

AppSubscribe(t) ==
    /\ AppMayCall
    /\ LET known == Len(subs) < MaxSubs /\ t \in Elements(subs)
           kept  == Len(subs) < MaxSubs
       IN /\ subs' = IF kept /\ ~known THEN Append(subs, Cut[t]) ELSE subs
          /\ refused' = IF kept \/ t \in Elements(subs) THEN refused \ {t}
                        ELSE refused \cup {t}
    /\ AskBroker(t)
    /\ wanted' = wanted \cup {t}
    /\ UNCHANGED <<clientVars, rxVars, link, session, loopVars, ring>>

(* The entries behind k move up.                                           *)
Without(s, k) == [i \in 1..(Len(s) - 1) |-> IF i < k THEN s[i] ELSE s[i + 1]]

(* The broker is not told: it goes on sending until the connection ends.   *)
AppUnsubscribe(t) ==
    /\ AppMayCall
    /\ IF t \in Elements(subs)
       THEN LET k == CHOOSE i \in DOMAIN subs :
                        subs[i] = t /\ \A j \in DOMAIN subs : j < i => subs[j] # t
            IN subs' = Without(subs, k)
       ELSE UNCHANGED subs
    /\ wanted' = wanted \ {t} /\ refused' = refused \ {t}
    /\ UNCHANGED <<clientVars, rxVars, netVars, loopVars, ring>>

-----------------------------------------------------------------------------
LinkChange ==
    /\ link' = ~link
    /\ UNCHANGED <<clientVars, rxVars, session, granted, loopVars, ring, subs, histVars>>

LoopTask ==
    \/ MqttStep \/ SubscribeNext \/ Poll \/ PollEmpty
    \/ OtaIdle \/ PauseMqttForOta \/ ResumeMqttAfterOta

AppCalls == \E t \in AppTopics : AppSubscribe(t) \/ AppUnsubscribe(t)

Next == LoopTask \/ EspTask \/ BrokerSends \/ Drop \/ LinkChange \/ AppCalls

Spec == Init /\ [][Next]_vars

(* loop() is called for ever; a client that may be started is, once its    *)
(* back-off has run out; esp-mqtt goes on trying and handles its events.   *)
FairSpec ==
    /\ Spec
    /\ WF_vars(LoopTask) /\ WF_vars(OnDisconnected)
    /\ SF_vars(OnConnected) /\ SF_vars(Start(TRUE))

-----------------------------------------------------------------------------
(* What the project was promised: its subscriptions survive reconnects.    *)

Settled == session /\ connected /\ was_connected /\ pc # "subscribe"

(* A session whose connection the loop has noticed carries the library's   *)
(* topics and everything the project wants, whatever drops, pauses and     *)
(* calls came before, except what the table of eight did not take and      *)
(* what its 96 bytes per topic cut short (subscribe, applySubscriptions).  *)
(* A connection that fell and came back between two looks of the loop is   *)
(* not noticed, and its session carries nothing.                           *)
SubscriptionsSurvive ==
    Settled /\ ~missed =>
        /\ Own \subseteq granted
        /\ \A t \in wanted : t \in granted \/ t \in refused \/ Cut[t] # t

(* What the loop sees is one whole message, under what was read as the     *)
(* topic of this very message, although fragments stop coming at any point *)
(* and the next message follows (EspMqttClient.h: a half-delivered order   *)
(* must never be visible).                                                 *)
OnlyWholeMessages ==
    \A i \in DOMAIN ring : \E m \in Messages : \E t \in ReadAs[m.topic] :
        ring[i] = Item(Cut[t], Pieces(m, m.size))

(* Nothing of an ended session is handed to the loop later (end()).        *)
NothingOutlivesClient == ring # << >> => client

(* A full ring gets room again although messages keep coming and some do   *)
(* not fit the loop's buffer: none of them blocks the queue (poll()).      *)
FullRingGetsRoom == (Len(ring) = InboxCap) ~> (Len(ring) < InboxCap)

(* Once the network stays and no download takes the session, it comes back *)
(* and keeps the library's topics (mqttStep with esp-mqtt's own            *)
(* reconnects), unless the loop missed the last drop, or messages arrive   *)
(* so fast that it never gets to the end of the queue.                     *)
Resubscribes ==
    <>[](link /\ ~paused) =>
        \/ <>[](connected /\ (Own \subseteq granted \/ missed))
        \/ <>[](pc = "ingest")

-----------------------------------------------------------------------------
(* How the two tasks' views fit together.                                  *)
SessionInv ==
    /\ session => connected
    /\ connected => client
    /\ rx # NoMessage => session
    /\ mqtt_started <=> client
    /\ paused => ~client
    /\ ring # << >> => client
    /\ client => Own \subseteq reserved
    /\ missed => was_connected
    /\ pc = "subscribe" <=> todo # << >>

(* What the project wants is on the list, as far as the list can keep it.  *)
Kept(t) == t \notin refused /\ Cut[t] = t
RememberInv == \A t \in wanted : Kept(t) => t \in Elements(subs)

(* What a noticed session was not asked for yet, it is about to be.        *)
AskedInv ==
    session /\ was_connected /\ ~missed =>
        /\ Own \subseteq granted \cup Elements(todo)
        /\ \A t \in wanted : Kept(t) => t \in granted \cup Elements(todo)

(* What is being assembled is what was received of this message so far.    *)
AssemblyInv ==
    /\ rx = NoMessage => rx_off = 0
    /\ rx # NoMessage => rx_off < rx.size
    /\ rx # NoMessage /\ rx_off > 0 /\ assembling =>
          /\ assembly = Pieces(rx, rx_off)
          /\ \E t \in ReadAs[rx.topic] : assembly_topic = Cut[t]

(* The inductive invariant: types, the agreement of the two tasks, the     *)
(* list of subscriptions, the progress of making them again, the message   *)
(* being assembled and those assembled before.                             *)
IInv ==
    /\ TypeOK /\ SessionInv /\ RememberInv /\ AskedInv
    /\ AssemblyInv /\ OnlyWholeMessages
=============================================================================
