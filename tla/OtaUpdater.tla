----------------------------- MODULE OtaUpdater -----------------------------
(***************************************************************************)
(* The firmware-update life cycle of one provisioned device: the device    *)
(* state machine of FirmwareUpdater::loop(), the OTA sink that writes the  *)
(* inactive flash slot, the update records kept in NVS, and the ESP32      *)
(* bootloader that starts a new image on trial and falls back to the old   *)
(* one when the trial is not confirmed.                                    *)
(*                                                                         *)
(* The device can be reset at any point, also between two of the           *)
(* persistent writes that verifyAndApply(), confirmStep() and              *)
(* clearPending() make one after the other, so each of those writes is a   *)
(* step of its own.  Each may also fail: the key then stays as it was, and *)
(* the program goes on, because nobody looks at the result.  (Left out is  *)
(* the failure of two keys that are only reported: the OTA state and the   *)
(* note that the guard was bypassed.)                                      *)
(*                                                                         *)
(* Data kept abstract: a version is a number (0 is the empty string), a    *)
(* firmware image is the version it implements (0 is bytes that no digest  *)
(* vouches for), and the confirmation deadline is the number of ticks left *)
(* until the wall clock has passed it.                                     *)
(***************************************************************************)
EXTENDS Naturals, Integers, Sequences

CONSTANTS
    Orders,           \* update orders the server may publish
    UpdateIds,        \* their identifiers
    NoId,             \* "no identifier": the NVS key is absent
    Corrupt,          \* written bytes that match no order's digest
    NoOrder,          \* no order held / nothing retained / no open download
    MaxVersion,       \* versions are 1..MaxVersion
    SlotSize,         \* OTA slot capacity, in chunks
    RollbackDeadline, \* cfg.ota.rollback_deadline_s, in ticks
    StallTimeout,     \* cfg.ota.stall_timeout_ms, in ticks
    ButtonWindow,     \* remote_cfg.ota_button_window_s, in ticks
    PauseMqtt,        \* cfg.ota.pause_mqtt_during_download
    RequireButton,    \* cfg.ota.require_button
    HasButton,        \* cfg.button.button_pin >= 0
    MandatoryWaives,  \* cfg.ota.mandatory_waives_button
    AllowDowngrade,   \* cfg.ota.allow_downgrade
    InboxCap,         \* capacity of the MQTT inbound ring
    MaxFaults         \* bound on resets, power losses and failed writes

Versions == 1..MaxVersion

(***************************************************************************)
(* An order as OrderCodec leaves it.  same_repo and fetchable stand for    *)
(* the two string comparisons the code makes on repo and url.              *)
(***************************************************************************)
OrderType ==
    [update_id: UpdateIds, target_version: Versions, size: Nat,
     same_repo: BOOLEAN, has_sha256: BOOLEAN, fetchable: BOOLEAN,
     mandatory: BOOLEAN, requires_button: BOOLEAN]

ASSUME OrdersAssumption ==
    /\ Orders \subseteq OrderType
    /\ NoOrder \notin Orders /\ Corrupt \notin Orders /\ Corrupt # NoOrder
    /\ NoId \notin UpdateIds

ASSUME BoundsAssumption ==
    /\ MaxVersion \in Nat \ {0}
    /\ SlotSize \in Nat /\ StallTimeout \in Nat /\ ButtonWindow \in Nat
    /\ RollbackDeadline \in Nat
    /\ InboxCap \in Nat /\ MaxFaults \in Nat

ASSUME SwitchesAssumption ==
    /\ PauseMqtt \in BOOLEAN /\ RequireButton \in BOOLEAN
    /\ HasButton \in BOOLEAN /\ MandatoryWaives \in BOOLEAN
    /\ AllowDowngrade \in BOOLEAN

VARIABLES
    \* flash and bootloader data: survive every reset
    img,              \* image in each slot: a version, or 0
    st,               \* otadata state of each slot
    boot,             \* slot the bootloader will try
    running,          \* slot the current code runs from
    \* NVS: survives every reset, one key written at a time
    fw_version, last_update_id,
    pend_id, pend_version, pend_deadline,
    nvs_ota_state, guard_bypassed,
    \* RAM of FirmwareUpdater::Impl: lost on reset
    pc,               \* where the loop task is
    state, ota_state,
    order,            \* d.order while d.has_order
    sink_open, written, content,
    dl,               \* order whose URL the HTTP client is downloading
    mqtt_started, mqtt_paused, inbox,
    timer,            \* ticks since the window opened / since last progress
    \* environment
    link, synced, retained, faults,
    \* observation only: never read by an action
    acked,            \* update id the server answered 200 for since boot
    age,              \* ticks since an image was selected by the clock,
                      \* up to RollbackDeadline + 1
    torn              \* a reset between two writes, or a failed write,
                      \* left record and flash apart

flashVars == <<img, st, boot, running>>
pendVars  == <<pend_id, pend_version, pend_deadline>>
firmVars  == <<fw_version, last_update_id>>
nvsVars   == <<firmVars, pendVars, nvs_ota_state, guard_bypassed>>
sinkVars  == <<sink_open, written, content>>
mqttVars  == <<mqtt_started, mqtt_paused>>
ramVars   == <<pc, state, ota_state, order, sinkVars, dl, mqttVars, inbox, timer>>
worldVars == <<link, synced, retained>>
envVars   == <<link, synced, retained, faults>>
histVars  == <<acked, age, torn>>
vars      == <<flashVars, nvsVars, ramVars, envVars, histVars>>

-----------------------------------------------------------------------------
(* Value sets.                                                             *)

Slots == {0, 1}
Other(s) == 1 - s

SlotStates ==
    {"undefined", "new", "pending_verify", "valid", "invalid", "aborted"}

(* The states a provisioned device can enter; no code assigns the others   *)
(* of the two enumerations (Provisioning apart).                           *)
DeviceStates ==
    {"Boot", "Operation", "EvaluatingOrder", "AwaitingButton",
     "Downloading", "Verifying", "Confirming"}

OtaStates ==
    {"Idle", "PendingUser", "Downloading", "Verifying", "PendingReboot",
     "Confirming", "Failed", "Aborted"}

(* Places of the loop task.  TornPcs: what is written so far of the        *)
(* pending record, or of the end of a trial, does not fit the flash.       *)
SavePcs == {"save_id", "save_version", "save_deadline", "restart"}
Pcs     == {"begin", "begin_rest", "loop", "ingest", "ota", "commit",
            "set_last", "mark_valid", "clear", "clear_rest",
            "expire_rest", "mark_invalid"} \cup SavePcs
TornPcs == {"save_id", "save_version", "save_deadline", "set_last",
            "mark_valid"}

NoDeadline == -1      \* the pend_deadl key is absent

OrderOpt  == Orders \cup {NoOrder}
IdOpt     == UpdateIds \cup {NoId}
MaxTimer  == StallTimeout + ButtonWindow

-----------------------------------------------------------------------------
(* Small predicates of the code.                                           *)

PendingVerify == st[running] = "pending_verify"

CurrentVersion == IF fw_version = 0 THEN img[running] ELSE fw_version

(* otaLinkReady() on a WiFi device: either policy asks for WiFi.           *)
OtaLinkReady == link

SetOtaState(s) == ota_state' = s /\ nvs_ota_state' = s

(* A write of NVS or of otadata, which may fail and leave the old value.   *)
Write(key, value) ==
    \/ key' = value /\ UNCHANGED faults
    \/ /\ faults < MaxFaults /\ key # value
       /\ faults' = faults + 1
       /\ UNCHANGED key

Duplicate(o)   == last_update_id # NoId /\ o.update_id = last_update_id
SameVersion(o) == o.same_repo /\ o.target_version = CurrentVersion

(* Mutant: the downgrade switch is read the wrong way round.               *)
DowngradeInverted(o) == o.target_version < CurrentVersion /\ AllowDowngrade

Downgrade(o) == o.target_version < CurrentVersion /\ ~AllowDowngrade

(* order::validate(): Duplicate and SameVersion are refused silently.      *)
SilentlyRefused(o) == Duplicate(o) \/ SameVersion(o)

Valid(o) ==
    /\ ~SilentlyRefused(o)
    /\ o.same_repo
    /\ ~Downgrade(o)
    /\ o.size <= SlotSize
    /\ o.has_sha256

NeedsButton ==
    /\ RequireButton /\ order.requires_button
    /\ ~(order.mandatory /\ MandatoryWaives)

-----------------------------------------------------------------------------
(* The bootloader (external), run by every reset.  otadata is as given by  *)
(* newSt and sel; an image started once without being confirmed is         *)
(* abandoned for the other slot.                                           *)

Bootloader(newSt, sel) ==
    LET giveUp == newSt[sel] = "pending_verify"
        chosen == IF giveUp THEN Other(sel) ELSE sel
    IN  /\ boot' = chosen
        /\ running' = chosen
        /\ st' = [newSt EXCEPT
                    ![sel] = IF @ = "new" THEN "pending_verify"
                             ELSE IF giveUp THEN "aborted" ELSE @]

(* What a reset leaves of RAM: the static initialisers of Impl.            *)
RamReset ==
    /\ pc' = "begin" /\ state' = "Boot" /\ ota_state' = "Idle"
    /\ order' = NoOrder /\ dl' = NoOrder
    /\ sink_open' = FALSE /\ written' = 0 /\ content' = NoOrder
    /\ mqtt_started' = FALSE /\ mqtt_paused' = FALSE /\ inbox' = << >>
    /\ timer' = 0
    /\ acked' = NoId

(* A panic, a watchdog or a power loss.  Only the power loss stops the     *)
(* real-time clock.                                                        *)
Reset ==
    /\ faults < MaxFaults
    /\ faults' = faults + 1
    /\ \E powerLoss \in BOOLEAN : synced' = (synced /\ ~powerLoss)
    /\ torn' = (torn \/ pc \in TornPcs)
    /\ RamReset
    /\ Bootloader(st, boot)
    /\ UNCHANGED <<img, nvsVars, link, retained, age>>

-----------------------------------------------------------------------------
(* begin(): restore what survived the reboot.                              *)

(* rollback::check(): a valid image with a pending record is reported as   *)
(* a window that something closed before us.                               *)
GuardBypassed == pend_id # NoId /\ st[running] = "valid"

(* clearPending() erases the identifier first, the other keys after it;    *)
(* each erasure may fail.                                                  *)
EraseId == Write(pend_id, NoId)

EraseRest ==
    \/ pend_version' = 0 /\ pend_deadline' = NoDeadline /\ UNCHANGED faults
    \/ /\ faults < MaxFaults
       /\ faults' = faults + 1
       /\ pend_version' \in {0, pend_version}
       /\ pend_deadline' \in {NoDeadline, pend_deadline}

Begin ==
    /\ pc = "begin"
    /\ guard_bypassed' = (guard_bypassed \/ GuardBypassed)
    /\ \/ /\ pend_id # NoId /\ PendingVerify
          /\ state' = "Confirming" /\ ota_state' = "Confirming"
          /\ pc' = "loop"
          /\ UNCHANGED <<pend_id, faults>>
       \/ /\ pend_id # NoId /\ ~PendingVerify
          /\ state' = "Operation" /\ ota_state' = nvs_ota_state
          /\ EraseId
          /\ pc' = "begin_rest"
       \/ /\ pend_id = NoId
          /\ state' = "Operation" /\ ota_state' = nvs_ota_state
          /\ pc' = "loop"
          /\ UNCHANGED <<pend_id, faults>>
    /\ UNCHANGED <<flashVars, firmVars, pend_version, pend_deadline,
                   nvs_ota_state, order, sinkVars, dl, mqttVars, inbox,
                   timer, worldVars, histVars>>

BeginClearRest ==
    /\ pc = "begin_rest"
    /\ EraseRest
    /\ pc' = "loop"
    /\ UNCHANGED <<flashVars, firmVars, pend_id, nvs_ota_state,
                   guard_bypassed, state, ota_state, order, sinkVars, dl,
                   mqttVars, inbox, timer, worldVars, histVars>>

-----------------------------------------------------------------------------
(* One pass of loop() in a provisioned device: mqttStep, ingestStep,       *)
(* otaStep.  A device that is confirming runs confirmStep and nothing else.*)

MqttStep ==
    /\ pc = "loop" /\ state # "Confirming"
    /\ pc' = "ingest"
    /\ \/ /\ ~mqtt_paused /\ ~mqtt_started /\ link
          /\ mqtt_started' = TRUE
       \/ UNCHANGED mqtt_started      \* nothing to do, or mqtt->begin failed
    /\ UNCHANGED <<flashVars, nvsVars, state, ota_state, order, sinkVars, dl,
                   mqtt_paused, inbox, timer, envVars, histVars>>

(* Mutant: an order accepted in the middle of a download lets it go on.    *)
AcceptOrderQuietly(o) ==
    /\ order' = o
    /\ state' = IF state = "Downloading" THEN state ELSE "EvaluatingOrder"

AcceptOrder(o) == order' = o /\ state' = "EvaluatingOrder"

(* handleOrder() on the oldest queued message.                             *)
HandleOrder ==
    LET o == Head(inbox) IN
    /\ pc = "ingest" /\ inbox # << >>
    /\ inbox' = Tail(inbox)
    /\ \/ /\ SilentlyRefused(o)
          /\ UNCHANGED <<state, ota_state, nvs_ota_state, order>>
       \/ /\ ~SilentlyRefused(o)      \* refused, or vetoed by the project
          /\ SetOtaState("Failed")
          /\ UNCHANGED <<state, order>>
       \/ /\ Valid(o)
          /\ AcceptOrder(o)
          /\ UNCHANGED <<ota_state, nvs_ota_state>>
    /\ UNCHANGED <<flashVars, firmVars, pendVars, guard_bypassed, pc,
                   sinkVars, dl, mqttVars, timer, envVars, histVars>>

IngestDone ==
    /\ pc = "ingest" /\ inbox = << >>
    /\ pc' = "ota"
    /\ UNCHANGED <<flashVars, nvsVars, state, ota_state, order, sinkVars, dl,
                   mqttVars, inbox, timer, envVars, histVars>>

-----------------------------------------------------------------------------
(* otaStep() and what it calls.                                            *)

(* Esp32OtaSink::abort().                                                  *)
SinkAbort == sink_open' = FALSE /\ written' = 0 /\ content' = NoOrder

(* Mutant: the MQTT session is not given back.                             *)
FailOtaNoResume ==
    /\ UNCHANGED mqtt_paused
    /\ SinkAbort
    /\ dl' = NoOrder
    /\ order' = NoOrder
    /\ state' = "Operation"
    /\ SetOtaState("Failed")

(* Mutant: the HTTP download is left open.                                 *)
FailOtaNoEndDownload ==
    /\ mqtt_paused' = FALSE
    /\ SinkAbort
    /\ UNCHANGED dl
    /\ order' = NoOrder
    /\ state' = "Operation"
    /\ SetOtaState("Failed")

(* failOta(): the session comes back, sink and download are closed.        *)
FailOta ==
    /\ mqtt_paused' = FALSE
    /\ SinkAbort
    /\ dl' = NoOrder
    /\ order' = NoOrder
    /\ state' = "Operation"
    /\ SetOtaState("Failed")

(* pauseMqttForOta(): mqtt->end() also empties the inbound ring.           *)
Pausing == PauseMqtt /\ mqtt_started

PauseMqttForOta ==
    /\ mqtt_started' = (mqtt_started /\ ~Pausing)
    /\ mqtt_paused' = (mqtt_paused \/ Pausing)
    /\ inbox' = IF Pausing THEN << >> ELSE inbox

(* failOta() called after pauseMqttForOta() in the same step.              *)
FailAfterPause ==
    /\ mqtt_started' = (mqtt_started /\ ~Pausing)
    /\ inbox' = IF Pausing THEN << >> ELSE inbox
    /\ FailOta

(* Mutant: the slot a trial would fall back to may be opened.              *)
SinkOpensOnTrial == ~sink_open /\ order.size <= SlotSize

(* Esp32OtaSink::begin(): esp_ota_begin refuses while the running image is *)
(* still on trial.                                                         *)
SinkCanOpen == ~sink_open /\ order.size <= SlotSize /\ ~PendingVerify

StartDownload ==
    \/ /\ ~order.fetchable
       /\ FailOta
       /\ UNCHANGED <<mqtt_started, inbox, timer>>
    \/ /\ order.fetchable              \* ota.begin or beginDownload failed
       /\ FailAfterPause
       /\ UNCHANGED timer
    \/ /\ order.fetchable /\ SinkCanOpen /\ dl = NoOrder
       /\ PauseMqttForOta
       /\ sink_open' = TRUE /\ written' = 0 /\ content' = NoOrder
       /\ dl' = order
       /\ timer' = 0
       /\ state' = "Downloading"
       /\ SetOtaState("Downloading")
       /\ UNCHANGED order

OtaEvaluate ==
    /\ pc = "ota" /\ state = "EvaluatingOrder"
    /\ pc' = "loop"
    /\ \/ /\ ~OtaLinkReady
          /\ SetOtaState("Aborted")
          /\ state' = "Operation"
          /\ UNCHANGED <<order, sinkVars, dl, mqttVars, inbox, timer>>
       \/ /\ OtaLinkReady /\ (~NeedsButton \/ ~HasButton)
          /\ StartDownload
       \/ /\ OtaLinkReady /\ NeedsButton /\ HasButton
          /\ timer' = 0
          /\ state' = "AwaitingButton"
          /\ SetOtaState("PendingUser")
          /\ UNCHANGED <<order, sinkVars, dl, mqttVars, inbox>>
    /\ UNCHANGED <<flashVars, firmVars, pendVars, guard_bypassed, envVars,
                   histVars>>

OtaAwaitButton ==
    /\ pc = "ota" /\ state = "AwaitingButton"
    /\ pc' = "loop"
    /\ \/ StartDownload                \* button pressed
       \/ /\ timer >= ButtonWindow     \* window expired
          /\ order' = NoOrder
          /\ state' = "Operation"
          /\ UNCHANGED <<ota_state, nvs_ota_state, sinkVars, dl, mqttVars,
                         inbox, timer>>
       \/ /\ timer < ButtonWindow
          /\ UNCHANGED <<state, ota_state, nvs_ota_state, order, sinkVars,
                         dl, mqttVars, inbox, timer>>
    /\ UNCHANGED <<flashVars, firmVars, pendVars, guard_bypassed, envVars,
                   histVars>>

(* What the slot holds after one more chunk.                               *)
Extended(good) ==
    IF good /\ (written = 0 \/ content = dl) THEN dl ELSE Corrupt

(* Mutant: off by one at the end of the slot.                              *)
FitsSlotOffByOne == written <= SlotSize

(* Esp32OtaSink::write(): one more chunk must fit the slot.                *)
FitsSlot == written < SlotSize

(* pumpDownload(), one chunk per pass.                                     *)
PumpChunk ==
    /\ FitsSlot
    /\ \E good \in BOOLEAN : content' = Extended(good)
    /\ written' = written + 1
    /\ img' = [img EXCEPT ![Other(running)] = 0]
    /\ timer' = 0
    /\ UNCHANGED <<state, ota_state, nvs_ota_state, order, sink_open, dl,
                   mqtt_paused>>

PumpEof ==
    /\ dl' = NoOrder
    /\ state' = "Verifying"
    /\ SetOtaState("Verifying")
    /\ UNCHANGED <<img, order, sinkVars, mqtt_paused, timer>>

(* Mutant: the stall timeout is never looked at.                           *)
NotStalledEver == TRUE

NotStalled == timer <= StallTimeout

PumpWouldBlock ==
    /\ NotStalled
    /\ UNCHANGED <<img, state, ota_state, nvs_ota_state, order, sinkVars, dl,
                   mqtt_paused, timer>>

(* The link went away, the transfer or a flash write failed, or nothing    *)
(* arrived for stall_timeout_ms.                                           *)
PumpFails ==
    /\ FailOta
    /\ UNCHANGED <<img, timer>>

OtaPump ==
    /\ pc = "ota" /\ state = "Downloading"
    /\ pc' = "loop"
    /\ \/ OtaLinkReady /\ (PumpChunk \/ PumpEof \/ PumpWouldBlock)
       \/ PumpFails
    /\ UNCHANGED <<st, boot, running, firmVars, pendVars, guard_bypassed,
                   mqtt_started, inbox, envVars, histVars>>

(* Mutant: only the size is verified.                                      *)
SizeMatches == written = order.size

(* Esp32OtaSink::finish(): size and digest before the slot can boot.       *)
DigestMatches == written = order.size /\ content = order

(* What the slot really holds once it is written.                          *)
FlashedVersion ==
    IF content \in Orders /\ written = content.size
    THEN content.target_version ELSE 0

(* verifyAndApply(): the verified image becomes the one to boot, then the  *)
(* pending record is saved key by key, then the chip restarts.             *)
OtaApply ==
    /\ pc = "ota" /\ state = "Verifying"
    /\ sink_open /\ DigestMatches
    /\ img'  = [img EXCEPT ![Other(running)] = FlashedVersion]
    /\ st'   = [st EXCEPT ![Other(running)] = "new"]
    /\ boot' = Other(running)
    /\ sink_open' = FALSE
    /\ pc' = "save_id"
    /\ age' = 0
    /\ UNCHANGED <<running, nvsVars, state, ota_state, order, written,
                   content, dl, mqttVars, inbox, timer, envVars, acked, torn>>

(* finish() failed: wrong size or digest, or esp_ota_end /                 *)
(* esp_ota_set_boot_partition returned an error.                           *)
OtaVerifyFails ==
    /\ pc = "ota" /\ state = "Verifying"
    /\ pc' = "loop"
    /\ FailOta
    /\ UNCHANGED <<flashVars, firmVars, pendVars, guard_bypassed,
                   mqtt_started, inbox, timer, envVars, histVars>>

OtaIdle ==
    /\ pc = "ota" /\ state = "Operation"
    /\ pc' = "loop"
    /\ UNCHANGED <<flashVars, nvsVars, state, ota_state, order, sinkVars, dl,
                   mqttVars, inbox, timer, envVars, histVars>>

-----------------------------------------------------------------------------
(* savePending(): identifier, version (with repo, previous version and     *)
(* start time, which nothing reads back), deadline.  It goes on behind a   *)
(* key that failed, and verifyAndApply() restarts whatever it answers.     *)

SaveId ==
    /\ pc = "save_id"
    /\ Write(pend_id, order.update_id)
    /\ torn' = (torn \/ pend_id' # order.update_id)
    /\ pc' = "save_version"
    /\ UNCHANGED <<flashVars, firmVars, pend_version, pend_deadline,
                   nvs_ota_state, guard_bypassed, state, ota_state, order,
                   sinkVars, dl, mqttVars, inbox, timer, worldVars, acked, age>>

(* Mutant: the record names the version being replaced.                    *)
PendingPrevious == CurrentVersion

PendingVersion == order.target_version

SaveVersion ==
    /\ pc = "save_version"
    /\ Write(pend_version, PendingVersion)
    /\ torn' = (torn \/ pend_version' # PendingVersion)
    /\ pc' = "save_deadline"
    /\ UNCHANGED <<flashVars, firmVars, pend_id, pend_deadline, nvs_ota_state,
                   guard_bypassed, state, ota_state, order, sinkVars, dl,
                   mqttVars, inbox, timer, worldVars, acked, age>>

(* Mutant: the deadline is never filled in.                                *)
DeadlineForgotten == NoDeadline

(* Mutant: the start is not added, and no time is left.                    *)
DeadlineWithoutStart == 0

(* Without a clock started_at_s is 0, and the deadline rollback_deadline_s *)
(* seconds after it lies in 1970: no time is left once a clock is there.   *)
DeadlineLeft == IF synced THEN RollbackDeadline + 1 ELSE 0

SaveDeadline ==
    /\ pc = "save_deadline"
    /\ Write(pend_deadline, DeadlineLeft)
    /\ torn' = (torn \/ pend_deadline' # DeadlineLeft)
    /\ SetOtaState("PendingReboot")
    /\ pc' = "restart"
    /\ age' = IF synced THEN age ELSE RollbackDeadline + 1
    /\ UNCHANGED <<flashVars, firmVars, pend_id, pend_version, guard_bypassed,
                   state, order, sinkVars, dl, mqttVars, inbox, timer,
                   worldVars, acked>>

(* esp_restart(): a deliberate reset, the clock keeps running.             *)
Restart ==
    /\ pc = "restart"
    /\ RamReset
    /\ Bootloader(st, boot)
    /\ UNCHANGED <<img, nvsVars, envVars, age, torn>>

-----------------------------------------------------------------------------
(* confirmStep().  It returns at once without a link or before its         *)
(* back-off has elapsed; a POST that fails only re-arms the back-off.      *)

Confirming == pc = "loop" /\ state = "Confirming"

DeadlinePassed == pend_deadline = 0 /\ synced

ConfirmNoPending ==
    /\ Confirming /\ link
    /\ pend_id = NoId
    /\ state' = "Operation"
    /\ UNCHANGED <<flashVars, nvsVars, pc, ota_state, order, sinkVars, dl,
                   mqttVars, inbox, timer, envVars, histVars>>

ConfirmExpired ==
    /\ Confirming /\ link
    /\ pend_id # NoId /\ DeadlinePassed
    /\ EraseId
    /\ torn' = (torn \/ pend_id' # NoId)
    /\ pc' = "expire_rest"
    /\ UNCHANGED <<flashVars, firmVars, pend_version, pend_deadline,
                   nvs_ota_state, guard_bypassed, state, ota_state, order,
                   sinkVars, dl, mqttVars, inbox, timer, worldVars, acked, age>>

ExpireClearRest ==
    /\ pc = "expire_rest"
    /\ EraseRest
    /\ pc' = "mark_invalid"
    /\ UNCHANGED <<flashVars, firmVars, pend_id, nvs_ota_state,
                   guard_bypassed, state, ota_state, order, sinkVars, dl,
                   mqttVars, inbox, timer, worldVars, histVars>>

(* markInvalidAndReboot() does not return when it succeeds.                *)
MarkInvalidAndReboot ==
    /\ pc = "mark_invalid"
    /\ RamReset
    /\ Bootloader([st EXCEPT ![running] = "invalid"], Other(running))
    /\ UNCHANGED <<img, nvsVars, envVars, age, torn>>

MarkInvalidFails ==
    /\ pc = "mark_invalid"
    /\ pc' = "loop"
    /\ UNCHANGED <<flashVars, nvsVars, state, ota_state, order, sinkVars, dl,
                   mqttVars, inbox, timer, envVars, histVars>>

(* Mutant: any answer of the server counts as a confirmation.              *)
ConfirmAnyAnswer ==
    /\ Confirming /\ link
    /\ pend_id # NoId /\ ~DeadlinePassed
    /\ pc' = "commit"
    /\ UNCHANGED <<flashVars, nvsVars, state, ota_state, order, sinkVars, dl,
                   mqttVars, inbox, timer, envVars, histVars>>

(* The POST was answered with 200.                                         *)
ConfirmAccepted ==
    /\ Confirming /\ link
    /\ pend_id # NoId /\ ~DeadlinePassed
    /\ acked' = pend_id
    /\ pc' = "commit"
    /\ UNCHANGED <<flashVars, nvsVars, state, ota_state, order, sinkVars, dl,
                   mqttVars, inbox, timer, envVars, age, torn>>

(* commitFirmware() refuses an empty version, and may fail; the result is  *)
(* not looked at.                                                          *)
Committed == IF pend_version # 0 THEN pend_version ELSE fw_version

CommitFirmware ==
    /\ pc = "commit"
    /\ Write(fw_version, Committed)
    /\ torn' = (torn \/ fw_version' # Committed)
    /\ pc' = "set_last"
    /\ UNCHANGED <<flashVars, last_update_id, pendVars, nvs_ota_state,
                   guard_bypassed, state, ota_state, order, sinkVars, dl,
                   mqttVars, inbox, timer, worldVars, acked, age>>

SetLastUpdateId ==
    /\ pc = "set_last"
    /\ Write(last_update_id, pend_id)
    /\ pc' = "mark_valid"
    /\ UNCHANGED <<flashVars, fw_version, pendVars, nvs_ota_state,
                   guard_bypassed, state, ota_state, order, sinkVars, dl,
                   mqttVars, inbox, timer, worldVars, histVars>>

(* The write of otadata may fail too.                                      *)
MarkValid ==
    /\ pc = "mark_valid"
    /\ Write(st, [st EXCEPT ![running] = "valid"])
    /\ torn' = (torn \/ st'[running] # "valid")
    /\ pc' = "clear"
    /\ UNCHANGED <<img, boot, running, nvsVars, state, ota_state, order,
                   sinkVars, dl, mqttVars, inbox, timer, worldVars, acked, age>>

ConfirmClearId ==
    /\ pc = "clear"
    /\ EraseId
    /\ pc' = "clear_rest"
    /\ UNCHANGED <<flashVars, firmVars, pend_version, pend_deadline,
                   nvs_ota_state, guard_bypassed, state, ota_state, order,
                   sinkVars, dl, mqttVars, inbox, timer, worldVars, histVars>>

ConfirmDone ==
    /\ pc = "clear_rest"
    /\ EraseRest
    /\ state' = "Operation"
    /\ SetOtaState("Idle")
    /\ pc' = "loop"
    /\ UNCHANGED <<flashVars, firmVars, pend_id, guard_bypassed, order,
                   sinkVars, dl, mqttVars, inbox, timer, worldVars, histVars>>

-----------------------------------------------------------------------------
(* The rest of the world.                                                  *)

(* The panel replaces the retained order.                                  *)
ServerPublish ==
    /\ \E o \in Orders \ {retained} : retained' = o
    /\ UNCHANGED <<flashVars, nvsVars, ramVars, link, synced, faults, histVars>>

(* The MQTT task hands a (re)delivered retained order to the ring; a full  *)
(* ring drops it.                                                          *)
Deliver ==
    /\ mqtt_started /\ link /\ retained # NoOrder
    /\ Len(inbox) < InboxCap
    /\ inbox' = Append(inbox, retained)
    /\ UNCHANGED <<flashVars, nvsVars, pc, state, ota_state, order, sinkVars,
                   dl, mqttVars, timer, envVars, histVars>>

LinkChange ==
    /\ link' = ~link
    /\ UNCHANGED <<flashVars, nvsVars, ramVars, synced, retained, faults,
                   histVars>>

ClockSync ==
    /\ link /\ ~synced
    /\ synced' = TRUE
    /\ UNCHANGED <<flashVars, nvsVars, ramVars, link, retained, faults,
                   histVars>>

(* One unit of time: the button window, the stall timer and the            *)
(* confirmation deadline all measure it.                                   *)
TimedState == state \in {"AwaitingButton", "Downloading"}

Tick ==
    /\ timer' = IF TimedState /\ timer < MaxTimer THEN timer + 1 ELSE timer
    /\ pend_deadline' = IF pend_deadline > 0 THEN pend_deadline - 1
                                             ELSE pend_deadline
    /\ age' = IF age <= RollbackDeadline THEN age + 1 ELSE age
    /\ UNCHANGED <<flashVars, firmVars, pend_id, pend_version, nvs_ota_state,
                   guard_bypassed, pc, state, ota_state, order, sinkVars, dl,
                   mqttVars, inbox, envVars, acked, torn>>

-----------------------------------------------------------------------------
(* A unit flashed over the cable: version 1 in slot 0, nothing in slot 1,  *)
(* provisioned, no update ever applied.                                    *)
Init ==
    /\ img = [s \in Slots |-> IF s = 0 THEN 1 ELSE 0]
    /\ st = [s \in Slots |-> "undefined"]
    /\ boot = 0 /\ running = 0
    /\ fw_version = 0 /\ last_update_id = NoId
    /\ pend_id = NoId /\ pend_version = 0 /\ pend_deadline = NoDeadline
    /\ nvs_ota_state = "Idle" /\ guard_bypassed = FALSE
    /\ pc = "begin" /\ state = "Boot" /\ ota_state = "Idle"
    /\ order = NoOrder /\ dl = NoOrder
    /\ sink_open = FALSE /\ written = 0 /\ content = NoOrder
    /\ mqtt_started = FALSE /\ mqtt_paused = FALSE /\ inbox = << >>
    /\ timer = 0
    /\ link = FALSE /\ synced = FALSE /\ retained = NoOrder /\ faults = 0
    /\ acked = NoId /\ age = RollbackDeadline + 1
    /\ torn = FALSE

OtaStep == OtaEvaluate \/ OtaAwaitButton \/ OtaPump \/ OtaApply
              \/ OtaVerifyFails \/ OtaIdle

SaveStep == SaveId \/ SaveVersion \/ SaveDeadline \/ Restart

ConfirmStep == ConfirmNoPending \/ ConfirmExpired \/ ExpireClearRest
                  \/ MarkInvalidAndReboot \/ MarkInvalidFails
                  \/ CommitFirmware \/ SetLastUpdateId
                  \/ MarkValid \/ ConfirmClearId \/ ConfirmDone

LoopTask == Begin \/ BeginClearRest \/ MqttStep \/ HandleOrder \/ IngestDone
               \/ OtaStep \/ SaveStep \/ ConfirmStep

Environment == ServerPublish \/ Deliver \/ LinkChange \/ ClockSync

Next == LoopTask \/ ConfirmAccepted \/ Environment \/ Tick \/ Reset

Spec == Init /\ [][Next]_vars

(***************************************************************************)
(* The sketch calls loop() for ever, time passes, and SNTP answers a       *)
(* connected device.  Nothing is assumed of the server, of the link or of  *)
(* the broker: ConfirmAccepted, LinkChange and Deliver have no fairness.   *)
(***************************************************************************)
FairSpec == Spec /\ WF_vars(LoopTask) /\ WF_vars(Tick) /\ WF_vars(ClockSync)

-----------------------------------------------------------------------------
(* Properties.                                                             *)

TypeOK ==
    /\ img \in [Slots -> 0..MaxVersion]
    /\ st \in [Slots -> SlotStates]
    /\ boot \in Slots /\ running \in Slots
    /\ fw_version \in 0..MaxVersion /\ last_update_id \in IdOpt
    /\ pend_id \in IdOpt /\ pend_version \in 0..MaxVersion
    /\ pend_deadline \in NoDeadline..(RollbackDeadline + 1)
    /\ nvs_ota_state \in OtaStates /\ guard_bypassed \in BOOLEAN
    /\ pc \in Pcs /\ state \in DeviceStates /\ ota_state \in OtaStates
    /\ order \in OrderOpt /\ dl \in OrderOpt
    /\ sink_open \in BOOLEAN /\ written \in 0..SlotSize
    /\ content \in OrderOpt \cup {Corrupt}
    /\ mqtt_started \in BOOLEAN /\ mqtt_paused \in BOOLEAN
    /\ inbox \in Seq(Orders)
    /\ timer \in 0..MaxTimer
    /\ link \in BOOLEAN /\ synced \in BOOLEAN
    /\ retained \in OrderOpt /\ faults \in 0..MaxFaults
    /\ acked \in IdOpt
    /\ age \in 0..(RollbackDeadline + 1) /\ torn \in BOOLEAN

(* The unit cannot be bricked: the slot the bootloader will try always     *)
(* holds an image whose digest was verified (or the one flashed over the   *)
(* cable), and while that image is new or on trial the other slot holds    *)
(* such an image too, in a state the bootloader accepts.  Esp32OtaSink     *)
(* verifies before it selects, and never opens the slot that a trial would *)
(* fall back to.                                                           *)
AlwaysBootable ==
    /\ img[boot] # 0
    /\ st[boot] \in {"new", "pending_verify"} =>
          img[Other(boot)] # 0 /\ st[Other(boot)] \in {"undefined", "valid"}

(* The stream being downloaded, and the one about to be verified, is that  *)
(* of the order in force, even when another order is accepted in the       *)
(* middle of a download: the digest compared in verifyAndApply() belongs   *)
(* to the bytes in the slot.                                               *)
SinkServesOrder ==
    /\ state = "Downloading" => sink_open /\ dl = order /\ order # NoOrder
    /\ state = "Verifying" /\ pc \notin SavePcs => sink_open /\ order # NoOrder
    /\ pc \in SavePcs => img[boot] = order.target_version

(* With downgrades refused, the image about to be booted is newer than the *)
(* version on record.                                                      *)
InstallsNewer ==
    pc \in SavePcs /\ ~AllowDowngrade => order.target_version > CurrentVersion

(* With downgrades refused, the version on record never goes back, not     *)
(* even by confirming from a record that a reset or a failed write left    *)
(* half written, with keys of an earlier one.                              *)
RecordNeverGoesBack ==
    [][~AllowDowngrade => fw_version' >= fw_version]_vars

(* Section 9.2: the version is recorded and the rollback cancelled only    *)
(* by an image on trial, after the server answered 200 to its own          *)
(* confirmation in this very boot.                                         *)
OnlyAfterTheServer ==
    [][ \/ fw_version' # fw_version
        \/ \E s \in Slots : st'[s] = "valid" /\ st[s] # "valid"
        => PendingVerify /\ pend_id # NoId /\ acked = pend_id ]_vars

(* As long as no reset fell between the writes of savePending() or of the  *)
(* end of a trial, and none of them failed, NVS and flash tell the same    *)
(* story: the pending record names the version on trial, and out of a      *)
(* trial the recorded version is the one running.  A clearPending() that   *)
(* was cut short or failed takes nothing from that, but for the identifier *)
(* of a trial that is late.  savePending()'s result is ignored, so a write *)
(* of it that fails does (verifyAndApply).                                 *)
RecordsAgree ==
    ~torn =>
      /\ pend_id # NoId /\ PendingVerify => pend_version = img[running]
      /\ state = "Operation" /\ ~PendingVerify /\ fw_version # 0
            => fw_version = img[running]

(* With pause_mqtt_during_download no MQTT session exists, and no order    *)
(* can be waiting, while firmware is downloaded or verified; and the pause *)
(* never outlives the update, whichever way the update ends.               *)
QuietWhileFlashing ==
    PauseMqtt =>
      (mqtt_paused <=> state \in {"Downloading", "Verifying"})
        /\ (mqtt_paused => ~mqtt_started /\ inbox = << >>)

(* With the session paused during downloads, the sink and the HTTP stream  *)
(* are closed whenever no update is running.                               *)
UpdateReleasesAll ==
    PauseMqtt /\ state \notin {"Downloading", "Verifying"} =>
      ~sink_open /\ dl = NoOrder

(* An image is reverted for being late only after the whole of its time,   *)
(* if there was a clock when it was selected and its record is whole       *)
(* (savePending, confirmStep).                                             *)
WindowIsGiven == pc = "expire_rest" /\ ~torn => age > RollbackDeadline

(* The two slots implement a trial update: through every failure and reset *)
(* the unit keeps one image that is known to work and tries at most one    *)
(* other, once, and only an answer of the server makes that one the known  *)
(* one (Esp32OtaSink, RollbackGuard, confirmStep with the bootloader).     *)
Selected == st[boot] \in {"new", "pending_verify"}

Trial == INSTANCE TrialUpdate WITH
    good     <- IF Selected THEN img[Other(boot)] ELSE img[boot],
    trial    <- IF Selected THEN img[boot] ELSE 0,
    started  <- PendingVerify,
    answered <- PendingVerify /\ acked # NoId,
    runs     <- img[running]

ImplementsTrial == Trial!Spec

(* A download ends: completed, failed or stalled, whatever the network     *)
(* does.                                                                   *)
DownloadEnds == state = "Downloading" ~> state # "Downloading"

(* If the link eventually stays up, a device does not go on confirming     *)
(* with a complete record for ever, even if the server never answers: the  *)
(* trial is confirmed, rolled back, or given up because the reversal       *)
(* itself failed.                                                          *)
TrialEnds ==
    <>[]link => (state = "Confirming" ~> state # "Confirming" \/ torn)

-----------------------------------------------------------------------------
(* The inductive invariant.                                                *)

Updating == {"EvaluatingOrder", "AwaitingButton", "Downloading", "Verifying"}

(* Which device states go with which places of the loop task, and the      *)
(* order is there while it is being worked on.                             *)
ControlInv ==
    /\ pc \in SavePcs => state = "Verifying"
    /\ pc \in {"commit", "set_last", "mark_valid", "clear", "clear_rest",
               "expire_rest", "mark_invalid"} => state = "Confirming"
    /\ pc = "begin_rest" => state = "Operation"
    /\ pc = "begin" => state = "Boot"
    /\ pc \in {"ingest", "ota"} => state # "Confirming"
    /\ state \in Updating => order \in Orders

(* Between OtaApply and the restart the other slot is selected and new;    *)
(* at all other times the selected slot is the running one.  A trial has   *)
(* a good slot to fall back to, and no sink open that could spoil it.      *)
FlashInv ==
    /\ img[running] # 0
    /\ st[running] \in {"undefined", "valid", "pending_verify"}
    /\ pc \notin SavePcs => boot = running
    /\ pc \in SavePcs =>
          /\ boot = Other(running) /\ st[boot] = "new" /\ ~PendingVerify
          /\ img[boot] = order.target_version
    /\ PendingVerify =>
          /\ img[Other(running)] # 0
          /\ st[Other(running)] \in {"undefined", "valid"}
          /\ ~sink_open
    /\ state = "Confirming" /\ pc \notin {"clear", "clear_rest"}
          => PendingVerify

(* The open sink and the open stream are those of the order in force.      *)
SinkInv ==
    /\ state = "Downloading" => sink_open /\ dl = order
    /\ state = "Verifying" /\ pc \notin SavePcs => sink_open

(* The writes that end a trial run only after the server's 200.            *)
AckInv ==
    pc \in {"commit", "set_last", "mark_valid"} =>
      pend_id # NoId /\ acked = pend_id

(* Versions on record only grow.                                           *)
RecordInv ==
    ~AllowDowngrade =>
      /\ state \in Updating => order.target_version > CurrentVersion
      /\ pend_version # 0 => pend_version >= fw_version

IInv == TypeOK /\ ControlInv /\ FlashInv /\ SinkInv /\ AckInv /\ RecordInv

(* With the session paused during downloads: a queue that is not empty has *)
(* a session, and so has an order that may still start a download; what is *)
(* open belongs to the download.                                           *)
PauseInv ==
    PauseMqtt =>
      /\ mqtt_paused <=> state \in {"Downloading", "Verifying"}
      /\ inbox # << >> => mqtt_started
      /\ mqtt_paused => ~mqtt_started
      /\ state \in {"EvaluatingOrder", "AwaitingButton"} => mqtt_started
      /\ state # "Downloading" => dl = NoOrder
      /\ state \notin {"Downloading", "Verifying"} => ~sink_open

(* Record and flash, as long as no record was torn: the version being      *)
(* saved is that of the selected slot, and the version on record is that   *)
(* of the slot a device on trial falls back to, until it is confirmed.     *)
Settled == IF PendingVerify THEN Other(running) ELSE running

StoryInv ==
    ~torn =>
          /\ pc = "expire_rest" => pend_id = NoId
          /\ pc \in {"begin_rest", "clear", "clear_rest"} => ~PendingVerify
          /\ pc \in {"save_deadline", "restart"} => pend_version = img[boot]
          /\ PendingVerify /\ pend_id # NoId => pend_version = img[running]
          /\ fw_version # 0 =>
                fw_version = img[IF pc \in {"set_last", "mark_valid"} THEN running
                                 ELSE Settled]

(* What is left of the deadline and what went by make up the whole time,   *)
(* once the deadline is written.                                           *)
WindowInv ==
    ~torn =>
      /\ pend_deadline >= 0 /\ pc \notin {"save_id", "save_version", "save_deadline"} =>
            age + pend_deadline > RollbackDeadline
      /\ pc = "expire_rest" => age > RollbackDeadline

Agreement == IInv /\ PauseInv /\ StoryInv /\ WindowInv
=============================================================================
