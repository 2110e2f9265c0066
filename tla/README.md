# Verification of the CampoData firmware updater

TLA+ models, TLC runs and TLAPS proofs for the library in `src/` (an ESP32
firmware updater: provisioning, MQTT orders, OTA download, confirmation and
rollback, over WiFi or a SIM800 modem). Paths below are relative to the
repository root.

## The system

| Component | State it keeps | Operations | Talks to |
|---|---|---|---|
| Life cycle, `src/FirmwareUpdater.cpp` | `state`, `ota_state`, the order, back-offs, MQTT flags | `begin`, `loop` = `confirmStep` / `provisionStep` / `mqttStep`, `ingestStep`, `otaStep`, `pingStep` | all others, by direct call from one task |
| OTA sink, `platform/esp32/Esp32OtaSink.cpp` | open handle, bytes written, running digest; the inactive slot and otadata | `begin`, `write`, `finish`, `abort`, `markValid`, `markInvalidAndReboot` | flash, bootloader |
| Rollback guard, `RollbackGuard.cpp` | none | `check` at boot | bootloader state |
| Device store, `core/DeviceStore.cpp` over `Esp32Nvs.cpp` | credentials, topics, firmware version, last order, pending record, OTA state, config version | one key written at a time, then commit | NVS |
| Order codec, `core/OrderCodec.cpp` | none | `parse`, `validate`, `compareVersions` | |
| Inbound ring, `core/SpscRing.h` | slots, two atomic indices, drop counter | `push` (esp-mqtt task), `pop`, `clear` (loop task) | WiFi MQTT client |
| WiFi MQTT, `EspMqttClient.cpp` | client handle, `_connected`, fragment being assembled | `begin`, `end`, `subscribe`, `publish`, `poll`, event handler on its own task | broker, ring |
| WiFi HTTP, `Esp32HttpClient.cpp` | open download, decoder | `postJson`, `get`, `beginDownload`, `readChunk`, `endDownload` | server |
| Cellular link, `platform/gprs/GsmLink.cpp` | bring-up state, failure counters, HTTP lease | `loop`, `acquireForHttp`, `releaseHttp`, `reportMqtt*` | modem, both clients below |
| Cellular MQTT, `GsmMqttClient.cpp` | session, suspended flag, one message slot | `loop`, `begin`, `end`, `suspend`, `resume` | link |
| Cellular HTTP, `GsmHttpClient.cpp` | lease held, open download | as WiFi HTTP | link |
| Pure algorithms | none | `Backoff`, `ChunkedDecoder`, `Iso8601`, `Url`, `TopicResolver`, `Hex`, codecs | |

The library is one task (whoever calls `loop()`) plus the esp-mqtt task, which
only fills the ring. Everything persistent is NVS keys and flash, and a reset
can fall between any two of those writes. Messages from the server are retained
and therefore redelivered at every reconnect. What is hard is: resets in the
middle of multi-key records and of the hand-over between two images; orders that
arrive at any moment; a session that is taken down and given back around a
download; timeouts measured by clocks that may not exist; two tasks sharing a
ring; and on cellular, HTTP and MQTT sharing one modem.

What each component has to get right, and where that stands:

- **Life cycle, sink, guard, pending record** (`OtaUpdater`): a unit is never
  bricked; only verified bytes of the order in force become bootable; a trial is
  ended only by the server's answer, the deadline, or a reset; the record agrees
  with the flash; what an update takes it gives back; downloads and trials end.
- **Ring** (`SpscRing`): it is a bounded queue.
- **WiFi MQTT session** (`MqttSession`): subscriptions survive the reconnects
  that the loop notices; only whole messages reach the loop, and none of an ended
  session; a full ring gets room again.
- **Cellular link, MQTT and HTTP** (`CellularDevice`): HTTP and MQTT never use
  the modem together; a lease is always given back; a suspended session is
  always resumed; the modem is reset only as a last resort.
- **Cellular HTTP client** (`GsmHttpClient`, `ChunkedDecoder`): a caller gets the
  body the server sent and nothing else, and an end of file is a whole body, if
  the headers were understood; every exchange ends.
- **Store, provisioning, remote configuration** (`Provisioning`): credentials
  are all or nothing; a restart does not change who the device is; a session
  speaks for the identity on record; no older configuration comes back.
- **Pure algorithms** (`Timers`, `Calendar`, `Versions`): waits, dates and
  versions against reference definitions.

## Modules

| Module | What it is |
|---|---|
| `OtaUpdater` | The update life cycle with sink, bootloader and pending record |
| `MCOtaUpdater` | Small sets of orders for its runs |
| `TrialUpdate` | Abstract specification: an image known to work, and one on trial |
| `OtaUpdaterProofs` | Inductive invariant and safety theorems |
| `OtaAgreementProofs` | The agreement of record, slots, pause and window, and the refinement to `TrialUpdate` |
| `BoundedFifo` | Abstract specification: a bounded queue that counts its drops |
| `SpscRing` | The lock-free ring, one step per atomic access or part of a slot copy |
| `MCSpscRing` | Its model values |
| `SpscRingProofs` | Inductive invariant, and the refinement to `BoundedFifo` |
| `ModemLease` | Abstract specification: a modem carries HTTP or MQTT, never both |
| `GsmSession` | What others do to the cellular MQTT session: begin, end, suspend, resume |
| `GsmLink` | The cellular link: bring-up, failure, reset, recovery ladder |
| `CellularDevice` | Link, session and HTTP lease composed with `loop()` and the transports it switches |
| `CellularDeviceProofs` | Inductive invariant, safety theorems, refinement to `ModemLease` |
| `MqttSession` | The WiFi MQTT client on its own task, and the loop task that uses it |
| `MCMqttSession` | Its topics and messages |
| `MqttSessionProofs` | Inductive invariant and safety theorems |
| `Provisioning` | Identity and configuration in NVS and RAM: provisioning, sessions, configurations, resets |
| `MCProvisioning` | Its topic sets and configurations |
| `ProvisioningProofs` | Inductive invariant and safety theorems |
| `ChunkedDecoder` | The decoder of chunked bodies as operators |
| `GsmHttpClient` | One HTTP exchange of the modem, byte by byte where it matters |
| `MCGsmHttpClient` | The replies a server may give |
| `GsmHttpClientProofs` | Inductive invariant, safety theorems, and that the decoder reads what HTTP encodes |
| `Timers` | Back-off and deadlines on a clock that wraps |
| `Calendar`, `Versions` | Dates and version comparison as operators |
| `CoreAlgorithms` | The three together, walked against reference definitions |
| `MCCoreAlgorithms` | Its table of delays, its widths and its components |
| `CoreAlgorithmsProofs` | Waits, dates and versions for every input |

### OtaUpdater

A provisioned WiFi device. `loop()` is split at `pc` into `MqttStep`,
`HandleOrder`* `IngestDone`, and one action per branch of `otaStep`; a device on
trial runs only the actions of `confirmStep`. The actions are cut exactly where
a reset makes a difference, that is after each persistent write:

- `verifyAndApply`: `OtaApply` (`finish()` verifies and selects the slot), then
  `SaveId`, `SaveVersion`, `SaveDeadline` (`savePending`, key by key; the
  repository, previous version and start time are written with the version and
  nothing reads them back into a decision), then `Restart`.
- `confirmStep`: `ConfirmAccepted` (the 200), `CommitFirmware`,
  `SetLastUpdateId`, `MarkValid`, `ConfirmClearId`, `ConfirmDone`; or
  `ConfirmExpired`, `ExpireClearRest`, `MarkInvalidAndReboot`.
- `begin`: `Begin`, and `BeginClearRest` when it discards a stale record.

`Reset` may happen in every state. It clears RAM, keeps flash and NVS and runs
the bootloader (external: `Bootloader` gives a `new` image its one trial and
abandons it for the other slot if it is still `pending_verify`). A power loss
also stops the clock, a panic does not. Each of those writes may instead fail
(`Write`): `Esp32Nvs` says so, nobody looks, and the program goes on with the next
one. Resets and failed writes share the bound `MaxFaults`. Two keys that are only
reported, the OTA state and the note of a bypassed guard, are taken to be written.

Correspondence of state: `img`, `st`, `boot`, `running` are the two OTA slots,
otadata and the slot of the running code; `fw_version`, `last_update_id`,
`pend_*`, `nvs_ota_state`, `guard_bypassed` are NVS keys; `state`, `ota_state`,
`order` (with `has_order`), `sink_open`, `written`, `content`, `dl`,
`mqtt_started`, `mqtt_paused`, `inbox`, `timer` are fields of `Impl` and of the
clients it owns. `acked`, `age`, `torn` are history, read by no action. `torn`
says that record and flash need not agree any more: a reset fell between the
writes of `savePending` or of the end of a trial, or one of them failed. What
`clearPending` leaves behind, cut short or failed, sets it only where it is the
identifier of a trial that is late.

Abstractions: a version is a number, an image is the version it implements (0:
bytes no digest vouches for), a chunk is one unit of size, a back-off that has not
elapsed is a stuttering pass, and a step that can fail for reasons outside the
model (allocation, network, flash, the project's veto) may fail at any time.
Payloads that do not parse are dropped by the code before any state changes and
are not modelled. The deadline is the number of ticks left; without a clock at
the time of `savePending` it is already 0, because `started_at_s` is 0 and the
deadline then lies in 1970.

`ImplementsTrial` maps the slots to `TrialUpdate`: while the selected slot is
`new` or on trial, the other slot's image is the one known to work, and the
selected one is the trial, started once it is `pending_verify`. A reset at any
place maps to the start of a trial, its end by going back, or a stutter.

### SpscRing and BoundedFifo

A push or pop is cut into its accesses: load and compare, topic, payload,
publish; and likewise for the copy out. The store of an index is a release and
the load of the other's an acquire, and the memory is the uncached internal SRAM
of the chip, so accesses are taken to interleave. `clear()` loads the head and
stores the tail in two steps, so messages pushed in between stay. A topic longer
than its 96 bytes is cut, not refused, which `TopicOf` keeps. The drop counter
wraps at `Wrap` (2^32 in the code). `ImplementsFifo` maps the slots from tail to
head to the abstract queue; the last refused message is part of the mapping, so
that a drop of a message that fits must happen at a full queue.

### GsmSession, GsmLink, CellularDevice and ModemLease

A provisioned device with a modem, `link_mode` `Gprs` or `Both`. One pass of
`loop()` is cut at `pc` into `GsmLoop` (`GsmLink::loop`), `SessionLoop`
(`GsmMqttClient::loop`), `BindTransports`, `MqttStep` and `OtaStep` (with the
order `ingestStep` hands it), because WiFi, read by several of them, may change
in between; `AppHttp` is `httpGet` or `httpPost` called by the application
between two passes. `link` is `GsmLink`'s fields, `session` those of
`GsmMqttClient`, `gsmOpen` and `wifiOpen` the clients' `_open`, `bound` the
client `d.http` and `d.mqtt` point at.

The gates tie link and session together: `acquireForHttp`, `fail` and
`resetModem` call `suspend`, `releaseHttp` and the PDP coming up call `resume`.
They are operators on a session (`Suspend`, `Resume`), because one handler may
make several of these calls: `failOta` during a download, for example, ends a
session, releases a lease and resumes.

What the modem, the network and the broker answer is a choice; with `modemWell`
they do not fail. Elapsed time is a choice, too: a back-off or a deadline is over
or not. Left out are the retry timers, the length of a back-off, the parity that
picks the reset command, the queue of inbound messages (`ota` says which part of
an update the device is in), and the HTTP of provisioning and confirmation,
which like `AppHttp` take and give back the lease within a call. The repeated
`gprsConnect` and the queries a project may make have no effect on this state.

`ImplementsLease` maps `leased` to an HTTP owner and `connected` to an MQTT
owner. A restart of the device is no step of the lease, hence the disjunct
`Applied`. `rebuilt` and `subscribed` are history; a session is `missed` when it
came back before `mqttStep` could see the edge.

### MqttSession

A provisioned WiFi device between two tasks. The esp-mqtt task runs
`OnConnected`, `OnDisconnected` and the two cases of a data event, `OnWhole` and
`OnFragment`; the loop task runs `MqttStep` (one action per branch),
`SubscribeNext` (one topic of `applySubscriptions` each, because a drop may fall
in between), `Poll`, and the two ends of a download that take the session away
and give it back. The project subscribes and unsubscribes where it may: between
passes and from the callbacks of `ingestStep`. The broker and the network
(`Drop`, `BrokerSends`, `LinkChange`) are external; sessions are clean.

`client`, `connected`, `reserved`, `direct`, `assembling`, `assembly`,
`assembly_topic` and `ring` are `EspMqttClient`'s fields; `was_connected`,
`mqtt_started`, `paused` and `subs` those of `Impl`. A message is a sequence of
numbered pieces, so that mixing two or losing the middle of one shows. A topic is
a value, with the two things the client does to it. It is read as a C string
although an event carries a pointer and a length, so it may be read together with
the bytes behind it (`ReadAs`, in `OnWhole` and in the first `OnFragment`), and
it is cut to 96 bytes in the assembly, in a slot of the ring and in the table of
subscriptions (`Cut`). Two simplifications: a push or a pop is one step
(`SpscRing` is about less), and a fragment is handled at once. A pass of the loop
may last longer than esp-mqtt takes to reconnect: `missed` notes a connection that
came back before the loop noticed that it was gone.

### Provisioning

NVS is a function from keys to the number of the grant a value came with, so
that a mixture shows. `provisionStep` ends in `Unreached`, `Denied` or
`Granted`; from there `SaveKey` writes one key after the other, `UndoFlag`,
`SetFlag`, `ForgetBootstrap` and `Commit` follow, and a restart may fall between
any two. `StartSession` is the part of `mqttStep` that reads the credentials and
starts the session; `TakeConfig` and `ApplyConfig` are `handleConfig`, cut where
it writes the address after the version. `FactoryReset`, `SeedBootstrapUrl` and
`Restart` may be called or happen at any time. The server locks a board after
its one grant; `Unlock` is the operator. A write may fail or report a failure,
each costing one unit of trouble. `BuildTopics` is `TopicResolver::build`: the
project's own topics (`OwnTopics`) when all three are named, else those made of
the device id, and without a scheme what was named; a device id that makes a topic
too long is left out. `mishaps` is history: which of these happened
in a way a property excuses.

### GsmHttpClient and ChunkedDecoder

One exchange: request, status line, header lines, body, for `postJson`,
`postStream` and a download. `lerCorpo` is one step per framing byte
(`FeedByte`) or block of payload (`TakeData`), since bytes arrive while it runs;
its callers are `Reply*` and the `Chunk*` outcomes of `readChunk`. The network
hands over any number of bytes and may close anywhere. A wait lasts as long as it
likes: that it ends is fairness.

A header line is what it says, its value and its size. One read
(`readBytesUntil`) ends with the line, with the buffer, or wherever no byte comes
for a while (the timeout of `Stream`), so it takes any number of bytes (`Reads`)
and leaves the others to be read as a line of their own (`RestOf`). Of a line read
in pieces a number may lose its last digits (`FirstDigits`), a header may be
missed, and a piece of a CR or of nothing ends the headers (`Blank`); what is left
of them then goes before the body (`Unread`). `cut` and `astray` are history: a
line was read in pieces, and the headers ended before the empty line did. Both
properties of the body have the premise `Understood`: no line was cut, or the
client knows the framing and the end of the headers all the same. `op` keeps
apart what the body is read by, a reply (`get`, `postJson`, `postStream`) or a
download.

### Timers, Calendar, Versions, CoreAlgorithms

`Timers` has the three rules by which the library waits: `Backoff` (elapsed time
modulo the width of the counter), `GsmLink` and `GsmMqttClient` (a moment
compared with `<`). A pass reads the clock once and may block afterwards, which
is where the rules differ. `Calendar` is the arithmetic of `Iso8601`; a moment
is a day and a second of it, because it does not fit TLC's integers otherwise.
`Versions` is `compareVersions` on sequences of numbers. `CoreAlgorithms` lets
time run, walks a calendar day by day with the rule of leap years everybody
knows, and grows two versions component by component.

## Runs

| Run | Shows |
|---|---|
| `ota_safety` | Two releases (one of two chunks), two resets or failed writes anywhere, a link that comes and goes: no bricked unit, record and flash agree, nothing is confirmed but by the server, the session and the sink are given back; the slots implement `TrialUpdate` |
| `ota_no_pause` | `pause_mqtt_during_download` off: orders arrive in the middle of a download, among them one that needs the button, a mandatory one that waives it and one whose URL cannot be fetched; what is written is the order in force |
| `ota_liveness` | Downloads and trials end |
| `ring` | Four slots, two messages that fit (one with a long topic), one too long: invariant and refinement |
| `gsm_only` | Modem only: the lease, the suspended session, subscriptions after a reconnect, the ladder; a leased modem comes back, MQTT comes back again and again |
| `gsm_both` | WiFi and modem, WiFi changing at any moment: one owner at a time (refinement to `ModemLease`). `LeaseIsMatched` does not hold here, see below |
| `mqtt` | Drops, fragments, pauses and calls of the project in any order: subscriptions, whole messages, ends and room in the ring; the session comes back with the library's topics |
| `provisioning` | Two failures or restarts anywhere: identity, topics, address and configuration; the device comes online |
| `http` | 11 replies, sound and broken, body and header lines in any portions: body and end of file when the headers are understood, and that an exchange ends |
| `core` | Waits over the wrap, 800 days from four points of the calendar with the modem's local time, versions of up to four components |
| `gsm_lease_claim`, `backoff_claim` | Each checks one statement of the repository that its code does not meet (below) |

Bounds. Two slots are the whole flash. Two successive releases give an update over
an update, a record over a record and, with redelivery, the same order again;
`InboxCap = 1` already allows an order to arrive in every state. Two faults
(`MaxFaults`) reach every pair of places, such as a write that fails in an update
and a reset in the trial after it; the deadline, stall timeout and button window
are one or two ticks, enough to be reached and to be missed. `Tick`, `timer` and
`age` saturate. Four slots let the ring be empty, full and wrapped; the producer
has at most three queued messages, and two distinct messages suffice to see a
duplicate, a loss or a swap.

The cellular runs use the thresholds of the code (3 and 5), so that the ladder
is climbed through both rungs, and two addresses, so that a rebuilt PDP can come
back with the old one or another. Nothing else needs a bound. `gsm_only` pauses
MQTT during a download, `gsm_both` does not, so that both ways of taking the
session down are run.

`mqtt` has one topic of the project that fits 96 bytes and one that does not, a
table of two entries, which the third call overflows, a ring of one slot, one
topic that is read with the bytes behind it, and messages of every class of
length: one network buffer, several and too long for the loop's buffer, too long
for the assembly. The proofs have none of these bounds. In `provisioning` two
troubles let a failed save be followed by a restart or by another failure; grants
are bounded by them, and two configurations, one with an address, let each
overtake the other. In `http` sizes have two binary digits, so that one more
overflows, and payload bytes look like framing; header lines are shorter than the
line buffer but one, and each may be cut at any byte. `core` has a clock of 16
ticks, which the waits cross, and starts its walks (`Starts`, in the module) at
the bounds of `plausible()` (2024, 2099), at the epoch and one period of 400 years
after 2000; 800 days from each hold the years 2400 and 2100.

Fairness. `FairSpec` of `OtaUpdater` assumes that `loop()` is called for ever
(`WF(LoopTask)`), that time passes and that SNTP answers a connected device.
Nothing is assumed of server, link and broker: `ConfirmAccepted`, `LinkChange`
and `Deliver` are unfair, and `TrialEnds` has the premise `<>[]link` because
`confirmStep` does nothing without a link. `FairSpec` of
`CellularDevice` assumes that `loop()` is called for ever (`WF(Pass)`), and three
times strong fairness, each standing for a timer or an answer that the model
leaves to choice: with a modem that is well, the link's waits end (`LinkMoves`)
and a session that may connect does (`SessionOpens`); a download ends
(`DownloadLeaves`), which `OtaUpdater` checks of its own stall timeout
(`DownloadEnds`). The fairness is strong because a request of the application or
an outage may disable these steps in between. WiFi, the modem, the orders and
the application are unfair; `Reconnects` has the premise `<>[]modemWell`.

In `MqttSession` the loop is called for ever and esp-mqtt handles its events;
strong fairness of `OnConnected` and `Start(TRUE)` stands for esp-mqtt's endless
attempts and for a back-off that runs out. The broker, the link and the project
are unfair. In `Provisioning` a denied device asks again when its back-off is
over and is answered in the end (`SF(Granted)`), and somebody releases a locked
board; trouble is bounded, resets are unfair. In `GsmHttpClient` a call runs
until it returns, its time limits end its waits (`SF(ChunkTimeout)`,
`SF(ReplyDone)`: bytes that keep arriving put them off, but only so often) and a
caller reads on and ends what is over; nothing is assumed of the network.
`SpscRing` and `CoreAlgorithms` need no fairness: what they promise is safety.

### Statements the code does not meet

| Run | Statement | What happens |
|---|---|---|
| `gsm_lease_claim` | `GsmLink.h:38` every acquire is matched by a release | with both links, a download over the modem abandoned because WiFi came back is ended at the WiFi client; the modem stays leased |
| `backoff_claim` | `Backoff.h:22` ready once the delay has elapsed since the failure | the delay counts from the start of the pass, before the request that failed (`FirmwareUpdater.cpp:517`, `672`, `1040`) |

The models also show the following, for which there is no run of its own:

- `RollbackGuard.h:36`, a Bypassed result means that the strong symbol was not
  linked: `check` raises it also after a reset between `markValid` and
  `clearPending`, and after the bootloader went back to a slot confirmed earlier
  (`RollbackGuard.cpp:40`, action `Begin`).
- `INvs.h:69`, the pending record survives the reboot: a reset between
  `finish()` and `savePending` boots the new image without a record
  (`FirmwareUpdater.cpp:958`, `OtaApply` then `SaveId`). `RecordsAgree`
  therefore has the premise that no reset fell between two writes of one record.
- `INvs.h:69` again: a write of `savePending` that fails is not noticed by
  `verifyAndApply`, which restarts all the same (`SaveId`, `SaveVersion`,
  `SaveDeadline`). The new image then runs without a record, or is confirmed with
  the version of an older one; `RecordsAgree` has the premise that none failed,
  while `AlwaysBootable`, `ImplementsTrial` and `RecordNeverGoesBack` hold without.
- `FirmwareUpdater.cpp:296`, without a pending image the update never applied:
  its version may already be the one on record (`CommitFirmware`).
- `Config.h:181`, without a button the order stays pending: it is downloaded.
- `Types.h:26`, `WifiOnly` downloads are pinned to WiFi: the policy is looked at
  when an order arrives; the press of the button starts the download on whatever
  client is bound by then (`FirmwareUpdater.cpp:971`, `MayBegin`).
- `Config.h:173`, the image has `rollback_deadline_s` to confirm: without a clock
  at apply time it is reverted at the first clock (`FirmwareUpdater.cpp:931`).
  `WindowIsGiven` has the premise that there was one.
- `Config.h:173`, the deadline covers an image that boots and hangs: it is looked
  at only with a link (`FirmwareUpdater.cpp:1001`), the premise of `TrialEnds`.
- `INvs.h:77`, the last handled order is remembered: only a confirmed one is, so a
  retained order whose image was rolled back is applied again
  (`FirmwareUpdater.cpp:1048`).
- `GsmMqttClient.cpp:361`, subscriptions are made again on the edge to connected:
  a session suspended for `httpGet` between two passes is back before the edge is
  looked for (`FirmwareUpdater.cpp:588`), and so is one suspended for a download
  that could not be opened, unless `pause_mqtt_during_download` ended it first;
  `TopicsAskedAgain` excuses `missed`.
- `GsmMqttClient.cpp:13`, the live instance is reachable: `end()` clears the
  pointer for good (`GsmMqttClient.cpp:273`).
- `FirmwareUpdater.h:151`, subscriptions are made again after a reconnect: not if
  a pass outlasted drop and reconnect (`FirmwareUpdater.cpp:588`), which a request
  of several seconds may. The session then carries nothing until the next drop;
  `SubscriptionsSurvive` and `Resubscribes` excuse `missed`, and fail without it.
- `EspMqttClient.h:67`, the library's own topics are always queued: one is
  recognised by `strcmp` on a topic that an event gives with its length and
  without an end (`EspMqttClient.cpp:135`, `:236`, `:246`). With other bytes
  behind it, an order is under no topic the library knows: it goes to the
  project, on the esp-mqtt task if delivery is direct. `OnlyWholeMessages` says
  under what was read as the topic, and no property says more.
- A message on a topic of more than 95 bytes is handed over under the cut one
  (`EspMqttClient.cpp:246`, `SpscRing.h:43`).
- A ninth subscription is made once and forgotten at the next reconnect, and a
  topic of more than 95 bytes is remembered cut (`FirmwareUpdater.cpp:1267`).
- `Config.h:5`, what the server configured comes before what was compiled in: the
  version is on record, the values are in RAM only, so after a restart they are
  gone and the same document is not applied again (`FirmwareUpdater.cpp:706`).
- `TopicResolver.h:10`, an explicit topic comes before the scheme's: it does when
  all three are given, otherwise none counts (`TopicResolver.cpp:28`), as in the
  run `provisioning`.
- `ProvisioningCodec.cpp:85`, topics are authoritative when present: one or two
  of the three are used until the restart, which takes them only all together.
- `FirmwareUpdater.h:221`, the seeded address is erased after provisioning: a
  reset between the flag and the erasure leaves it for ever
  (`DeviceStore.cpp:69`). A commit that fails at this place leaves a provisioned
  device without identity in RAM, which does nothing until it is restarted; hence
  `CHECK_DEADLOCK FALSE`.
- `FirmwareUpdater.h:226`, a factory reset forgets the identity: NVS does, RAM
  keeps the running session, its topics and a pause under way until a restart.
- `DeviceStore.h:49`, the address a configuration names is stored: a reset between
  version and address loses it, and the version says that it was applied.
- `readBytesUntil` (`GsmHttpClient.cpp:86`) returns part of a header line when its
  bytes stop coming for the timeout of `Stream`; line 84 asks for one byte only.
  A stall in `Content-Length: 12|34` makes 12 bytes a whole body, with `Eof`; one
  in `Transfer-Encoding: chu|nked` hands over the framing as body; one between the
  CR and the LF of the empty line makes that LF the first byte of the body, and
  one before the CR of another line ends the headers there, so that the others
  become the body. A line of 159 or 160 bytes does the last without a stall. In the
  model all of these are reachable: without the premise `Understood` TLC finds
  `BodyIsWhatWasSent` and `EofMeansWhole` violated.
- A reply that breaks off, or whose chunks are wrong, is returned as
  `Ok` with what there is, and one that declares a length of 0 counts as undeclared.
- Deadlines of `GsmLink` and `GsmMqttClient` compare moments: a wait with the wrap
  of the 49-day counter in it is skipped or lasts up to 49 days.
  `WaitIsItsDelay` is about the others, and about all waits of `Backoff`.
- A version's suffix counts for nothing ("1.2.0-rc1" is "1.2.0"), and neither does
  what follows a leading "v"; a negative component counts as 0.
- `GsmLink.h:54`, the PDP is rebuilt at once when a session falls: it is left as
  it is, on purpose, as `GsmLink.cpp:404` explains.

## Proofs

`OtaUpdaterProofs` proves, for all orders, sizes, timeouts and switches that
satisfy the assumptions of `OtaUpdater`:

- `Inductive`: `IInv` is invariant. `IInv` is the conjunction of types,
  `ControlInv` (which device state goes with which place of the loop task),
  `FlashInv` (between selecting a slot and restarting, the other slot is `new`
  and holds the order's version; at all other times the selected slot is the
  running one; a trial has a good slot to fall back to and no sink open),
  `SinkInv`, `AckInv` (the writes that end a trial follow the 200) and
  `RecordInv` (versions on record and in the pending record only grow).
  `AlwaysBootable` alone is not inductive: it needs to know that `OtaApply`
  never runs on trial and that the slot being written is never the selected one.
- `TypeCorrect`, `NeverBricked`, `SinkFollowsOrder`, `OnlyUpgrades`,
  `RecordMonotone`, `ServerDecides`: the properties `TypeOK`, `AlwaysBootable`,
  `SinkServesOrder`, `InstallsNewer`, `RecordNeverGoesBack`,
  `OnlyAfterTheServer` of the runs.

`OtaAgreementProofs` strengthens `IInv` to `Agreement` and proves from it
`PauseIsTheDownload`, `AllReleased`, `OneStory` and `WholeWindow`, that is
`QuietWhileFlashing`, `UpdateReleasesAll`, `RecordsAgree` and `WindowIsGiven`.
`PauseInv` relates the flags of the session to the part of an update; `StoryInv`
says what the record and the slots tell at every place between two writes, as long
as no reset and no failed write tore a record; `WindowInv` ties the time a trial
has left to the time it has had. `Refinement` is the implementation of
`TrialUpdate`: its steps are the selection (`OtaApply`), the 200
(`ConfirmAccepted`), `MarkValid`, `MarkInvalidAndReboot` and, in `RebootTrial`,
what the bootloader makes of a reset; all others leave the slots alone.

`SpscRingProofs` proves for every number of slots that the two tasks never touch
the same slot (`RingInv`) and that the ring implements the bounded queue
(`Refinement`); the argument is arithmetic on the distance between tail and
head, collected in the first lemmas.

`CellularDeviceProofs` proves, for every ladder, every set of addresses, both
link modes and both policies: `Inductive` (`IInv`), `SessionIsResumed`,
`LastResort`, `Refinement` (to `ModemLease`) and, for a device with only the
modem, `LeaseMatched`. `SomeoneResumes` alone is not inductive: that a release
may resume the session needs to know that a leased link is up and that its
client has a download open (`LinkInv`). Nor is `ResetIsLastResort`: a count
at the second rung must have rebuilt the PDP or be about to, and the latter only
with the link down. `Fits` and `Lent` say what a step leaves behind of session
and link; one lemma (`There`) turns that into the invariant for every step that
does not touch the ladder.

`ProvisioningProofs` proves, for every number of troubles and all sets of topics
and configurations, with and without topics of the project's own: `Inductive`,
`CredentialsWhole`, `IdentityLasts`, `OneIdentity`, `BootstrapGone`,
`NoOlderConfig`, `AddressKeptUp`. `AllOrNothing` alone is not inductive: that a
set flag means one grant needs to know what a save has written so far (`SaveInv`),
and that the flag is down meanwhile. That a restart finds the same identity needs
whose identity is in RAM at each step of the save (`IdentityInv`) and that grants
only grow, so that a topic with this grant's number came with it (`TopicsInv`).

`MqttSessionProofs` proves, for all topics and ways to read them, all messages,
table and buffer sizes, and passes of any length: `Inductive`,
`SubscriptionsKept`, `WholeMessages` and `RingEndsWithClient`.
`SubscriptionsSurvive` needs what the list holds (`RememberInv`) and that what a
noticed session was not asked for is still to be asked (`AskedInv`);
`OnlyWholeMessages` needs that the assembly is a prefix of the message being
received (`AssemblyInv`), which rests on two lemmas on pieces (`PiecesFact`,
`PiecesGrow`).

`TopicsAsked`, also in `CellularDeviceProofs`, needs more than `IInv`: that
without WiFi the bound client is the modem's from the first pass on (`BoundInv`),
and why a `wasConnected` that lags behind the session is not mistaken for a
session that was asked (`EdgeInv`): the session is still suspended, the pass has
not come to `mqttStep` yet, or the edge has been missed.

`CoreAlgorithmsProofs` proves, without the bounds of the run:

- `Waits` (`WaitIsItsDelay`), for every table of delays, every variation and every
  width of the counter. What has elapsed is known modulo the width only, so the
  invariant keeps the true time beside it and bounds it: a pass looks again before
  the counter has gone round, which is the assumption `LongestWait` (delay,
  request and gap together are shorter than a round; minutes against 49 days).
- `DaysRoundTrip` and `CalendarDays` (`DaysAreCalendarDays`), for all days.
  The proof splits an era of 400 years into its years and a year into its months;
  `YearOf` and `MonthOf` are shown to find both, from bounds on the divisions, and
  the next date is followed over the ends of months, years and the era.
  `LocalClock` is the modem's time in every offset.
- `VersionsCompare` (`VersionsAreNumbers`), for versions of any length. `Value`
  is recursive; the proof is an induction on how many components have been read.

`GsmHttpClientProofs` proves, for all replies, buffers, blocks and widths of a
size: `Types` (`TypeOK`, which includes that a chunk's size never passes 32 bits
and rests on `SizeFits`: the check before a digit refuses exactly the sizes that
do not fit), `BodyHanded` (`BodyIsWhatWasSent`) and `EofWhole`
(`EofMeansWhole`). The invariant `SentInv` ties the client to a trace of the
decoder over the bytes of the reply: what has been read of the headers and what
they declare (`HeadersInv`, `FramingInv`), where the decoder and the count stand
in the trace (`ReadInv`), which bytes the piece in hand is (`PieceInv`), and
what has been handed over (`HandedInv`, `EofInv`). The bytes of the body may arrive
in any portions because the trace does not depend on them. Those of the headers
may not: the theorems carry the premise `Understood` of the properties, which
`HeadersKnown` derives for headers whose lines were each read in one piece.

The last two have a hypothesis, `IsMeant`: the body of a reply is what the
framing it declares makes of its bytes, and the reply is sound if it ends where
the framing says. A reply that is not sound is allowed. For a chunked reply this
speaks of the decoder itself, which could be wrong; so `ChunksAreRead` proves it
of every encoding of RFC 9112: any number of chunks of any size that fits,
leading zeros, extensions, a trailer and whatever follows (`Encodes`, which does
not mention the decoder). `ServedByHttp` puts the two together. All replies of
the run satisfy `IsMeant`, and those that are sound and chunked satisfy
`Encodes`, so neither hypothesis is empty.

Assumptions on constants are named and evaluated by TLC on every run. Those that
say something of the code or its surroundings are: the orders of `OtaUpdater`
are what `validate` accepts; `LongestWait`; `DecoderAssumption` (a digit is
less than the radix and is no mark of the framing, and the largest size is all
digits at their largest, as `UINT32_MAX` is in base 16); `RepliesAssumption` (the
first empty line of a reply is the end of its headers); `VersionsAssumption`
(components are natural numbers with a largest one, `INT32_MAX`).

Induction over data is possible here although the provers cannot use the
library's theorems that take a predicate: the set of numbers for which a fact
holds is a set, and that a set of naturals that is not empty has a least element
follows from `NatLessThanWellFounded` and `WFMin`, which take sets. `LeastNumber`
and `Induct` state it; recursive functions are then unfolded by a lemma that
there is such a function (`TracesExist`, `JoinsExist`, `ReadsExists`).

The inductive invariants of all components were checked by TLC on the instances of
the runs as well (`TopicsInv` with and without the pause for a download); of them
only that of the ring is a property of a run.

Every invariant, action property and refinement of the runs is now a theorem,
`TopicsAskedAgain` and `LeaseIsMatched` for a device with only the modem. Only
model-checked is all liveness (`DownloadEnds`, `TrialEnds`, `LeaseReturned`,
`Reconnects`, `FullRingGetsRoom`, `Resubscribes`, `ComesOnline`, `ExchangeEnds`),
which is out of the prover's reach. What was found not to hold is stated by runs
or in the list above, not by theorems.

## Plan

What remains, in this order:

1. The one-slot queue of the cellular session, with its cut at 512 bytes; unlike
   the WiFi client's ring it is not emptied when a session ends.
2. The body handling of `Esp32HttpClient`, as far as it is not the library's.

## Not modelled

Wording and formatting (`Log`, `Types.cpp`, the text of the ping, URLs, the
parsing of dates and JSON), the digest and TLS (mbedTLS), the hardware probe, and
`publish`. `pingStep` publishes now and then and drives nothing else. Some things
read or parsed are used nowhere: `force_endpoints`, `max_attempts`, `server_time`
and the grant's `mqtt_tls`. The modem's network time and its identity queries are
I/O. The components in `PROJECT.json` carry the status of each part, and its
hazards name the properties that watch them or say why none does.
