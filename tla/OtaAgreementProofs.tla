------------------------- MODULE OtaAgreementProofs -------------------------
(***************************************************************************)
(* What the parts of a device agree on, beyond the inductive invariant of  *)
(* OtaUpdaterProofs and resting on it: session, queue, sink and stream     *)
(* with the state of the update; NVS with the flash; the deadline with the *)
(* time that went by.                                                      *)
(***************************************************************************)
EXTENDS OtaUpdaterProofs

-----------------------------------------------------------------------------
(* The session is paused during a download, and only then.                 *)

(* Every step keeps what is known of the pause.                            *)
LEMMA PauseNext ==
    ASSUME IInv, PauseInv, [Next]_vars
    PROVE  PauseInv'
  <1> USE DEF flashVars, firmVars, pendVars, nvsVars, sinkVars, mqttVars,
              ramVars, envVars, worldVars, histVars, PauseInv
  <1>1. CASE Begin
    BY <1>1 DEF Begin, IInv, ControlInv
  <1>2. CASE MqttStep
    BY <1>2 DEF MqttStep
  <1>3. CASE HandleOrder
    BY <1>3 DEF HandleOrder, AcceptOrder
  <1>4. CASE OtaEvaluate \/ OtaAwaitButton
    <2>1. /\ UNCHANGED <<state, dl, sink_open, mqttVars, inbox>>
          \/ /\ state' = "Operation"
             /\ UNCHANGED <<dl, sink_open, mqttVars, inbox>>
          \/ /\ state' = "AwaitingButton"
             /\ UNCHANGED <<dl, sink_open, mqttVars, inbox>>
          \/ StartDownload
      BY <1>4 DEF OtaEvaluate, OtaAwaitButton
    <2>2. state \in {"EvaluatingOrder", "AwaitingButton"}
      BY <1>4 DEF OtaEvaluate, OtaAwaitButton
    <2>3. CASE StartDownload
      BY <2>2, <2>3 DEF StartDownload, FailOta, FailAfterPause, PauseMqttForOta, Pausing, SinkAbort
    <2>4. CASE ~StartDownload
      BY <2>1, <2>2, <2>4
    <2> QED
      BY <2>3, <2>4
  <1>5. CASE OtaPump
    BY <1>5 DEF OtaPump, PumpChunk, PumpEof, PumpWouldBlock, PumpFails, FailOta, SinkAbort
  <1>6. CASE OtaApply
    BY <1>6 DEF OtaApply
  <1>7. CASE OtaVerifyFails
    BY <1>7 DEF OtaVerifyFails, FailOta, SinkAbort
  <1>8. CASE Reset \/ Restart \/ MarkInvalidAndReboot
    BY <1>8 DEF Reset, Restart, MarkInvalidAndReboot, RamReset
  <1>9. CASE ConfirmNoPending \/ ConfirmDone
    BY <1>9 DEF ConfirmNoPending, Confirming, ConfirmDone, IInv, ControlInv
  <1>10. CASE Deliver
    BY <1>10 DEF Deliver
  <1>11. CASE \/ BeginClearRest \/ IngestDone \/ OtaIdle \/ SaveId \/ SaveVersion \/ SaveDeadline
              \/ ConfirmExpired \/ ExpireClearRest \/ MarkInvalidFails \/ ConfirmAccepted
              \/ CommitFirmware \/ SetLastUpdateId \/ MarkValid \/ ConfirmClearId
              \/ ServerPublish \/ LinkChange \/ ClockSync \/ Tick \/ UNCHANGED vars
    <2>1. UNCHANGED <<state, dl, sink_open, mqtt_started, mqtt_paused, inbox>>
      BY <1>11 DEF BeginClearRest, IngestDone, OtaIdle, SaveId, SaveVersion, SaveDeadline,
         ConfirmExpired, ExpireClearRest, MarkInvalidFails, ConfirmAccepted, CommitFirmware,
         SetLastUpdateId, MarkValid, ConfirmClearId, ServerPublish, LinkChange, ClockSync,
         Tick, vars
    <2> QED
      BY <2>1
  <1> QED
    BY <1>1, <1>2, <1>3, <1>4, <1>5, <1>6, <1>7, <1>8, <1>9, <1>10, <1>11
    DEF Next, LoopTask, OtaStep, SaveStep, ConfirmStep, Environment

-----------------------------------------------------------------------------
(* The deadline and the time that went by.                                 *)

(* Every step keeps what is known of the window: a tick takes from what is *)
(* left what it adds to the age.                                           *)
LEMMA WindowNext ==
    ASSUME IInv, WindowInv, [Next]_vars
    PROVE  WindowInv'
  <1> DEFINE Early == {"save_id", "save_version", "save_deadline"}
  <1> USE DEF flashVars, firmVars, pendVars, nvsVars, sinkVars, mqttVars,
              ramVars, envVars, worldVars, histVars
  <1>1. /\ age \in 0..(RollbackDeadline + 1) /\ RollbackDeadline \in Nat
        /\ pend_deadline \in -1..(RollbackDeadline + 1)
    BY BoundFacts DEF IInv, TypeOK, NoDeadline
  <1>2. CASE Tick
    <2>1. /\ pend_deadline' = IF pend_deadline > 0 THEN pend_deadline - 1 ELSE pend_deadline
          /\ age' = IF age <= RollbackDeadline THEN age + 1 ELSE age
          /\ pc' = pc /\ torn' = torn
      BY <1>2 DEF Tick
    <2> QED
      BY <1>1, <2>1 DEF WindowInv
  <1>3. CASE Reset
    <2>1. /\ pc' = "begin" /\ UNCHANGED <<pend_deadline, age>>
          /\ torn' = (torn \/ pc \in TornPcs)
      BY <1>3 DEF Reset, RamReset
    <2>2. ~torn' => ~torn /\ pc \notin Early
      BY <2>1 DEF TornPcs
    <2> QED
      BY <2>1, <2>2 DEF WindowInv
  <1>4. CASE OtaApply \/ SaveId \/ SaveVersion
    <2>1. pc' \in Early
      BY <1>4 DEF OtaApply, SaveId, SaveVersion
    <2> QED
      BY <2>1 DEF WindowInv
  <1>5. CASE SaveDeadline
    <2>1. /\ pc' = "restart"
          /\ age' = IF synced THEN age ELSE RollbackDeadline + 1
          /\ torn' = (torn \/ pend_deadline' # DeadlineLeft)
      BY <1>5 DEF SaveDeadline
    <2>2. ~torn' => pend_deadline' = IF synced THEN RollbackDeadline + 1 ELSE 0
      BY <2>1 DEF DeadlineLeft
    <2> QED
      BY <1>1, <2>1, <2>2 DEF WindowInv
  <1>6. CASE BeginClearRest \/ ConfirmDone \/ ExpireClearRest
    <2>1. /\ pc \notin Early /\ pc' # "expire_rest" /\ UNCHANGED <<age, torn>>
          /\ pend_deadline' \in {-1, pend_deadline}
      BY <1>6 DEF BeginClearRest, ConfirmDone, ExpireClearRest, EraseRest, NoDeadline
    <2> QED
      BY <2>1 DEF WindowInv
  <1>7. CASE ConfirmExpired
    <2>1. /\ pc = "loop" /\ pend_deadline = 0 /\ UNCHANGED <<pend_deadline, age>>
          /\ torn' = (torn \/ pend_id' # NoId)
      BY <1>7 DEF ConfirmExpired, Confirming, DeadlinePassed
    <2>2. ~torn' => ~torn
      BY <2>1
    <2> QED
      BY <1>1, <2>1, <2>2 DEF WindowInv
  <1>8. CASE \/ Begin \/ MqttStep \/ HandleOrder \/ IngestDone \/ OtaEvaluate \/ OtaAwaitButton
             \/ OtaPump \/ OtaVerifyFails \/ OtaIdle \/ Restart \/ ConfirmNoPending
             \/ ConfirmAccepted \/ MarkInvalidAndReboot \/ MarkInvalidFails
             \/ SetLastUpdateId \/ ConfirmClearId
    <2>1. pc' # "expire_rest" /\ pc \notin Early /\ UNCHANGED <<pend_deadline, age, torn>>
      BY <1>8 DEF Begin, MqttStep, HandleOrder, IngestDone, OtaEvaluate, OtaAwaitButton, OtaPump,
         OtaVerifyFails, OtaIdle, Restart, ConfirmNoPending, Confirming, ConfirmAccepted,
         MarkInvalidAndReboot, MarkInvalidFails, SetLastUpdateId, ConfirmClearId, RamReset
    <2> QED
      BY <2>1 DEF WindowInv
  <1>10. CASE CommitFirmware \/ MarkValid
    <2>1. /\ pc' # "expire_rest" /\ pc \notin Early /\ UNCHANGED <<pend_deadline, age>>
          /\ ~torn' => ~torn
      BY <1>10 DEF CommitFirmware, MarkValid
    <2> QED
      BY <2>1 DEF WindowInv
  <1>9. CASE ServerPublish \/ Deliver \/ LinkChange \/ ClockSync \/ UNCHANGED vars
    <2>1. UNCHANGED <<pc, pend_deadline, age, torn>>
      BY <1>9 DEF ServerPublish, Deliver, LinkChange, ClockSync, vars
    <2> QED
      BY <2>1 DEF WindowInv
  <1> QED
    BY <1>2, <1>3, <1>4, <1>5, <1>6, <1>7, <1>8, <1>9, <1>10
    DEF Next, LoopTask, OtaStep, SaveStep, ConfirmStep, Environment

-----------------------------------------------------------------------------
(* NVS and flash.                                                          *)

(* The two slots, and what is fixed about them while a device runs.        *)
LEMMA SlotFacts ==
    ASSUME IInv
    PROVE  /\ running \in Slots /\ boot \in Slots /\ Other(running) \in Slots
           /\ Other(running) # running /\ Other(Other(running)) = running
           /\ img \in [Slots -> 0..MaxVersion] /\ st \in [Slots -> SlotStates]
           /\ pc \in SavePcs => boot = Other(running) /\ st[boot] = "new" /\ ~PendingVerify
           /\ pc \notin SavePcs => boot = running /\ st[boot] # "new"
           /\ pc \notin SavePcs => st[boot] \in {"undefined", "valid", "pending_verify"}
  BY DEF IInv, TypeOK, FlashInv, Slots, Other

(* A restart whose record is whole: the image on trial is the one on       *)
(* record, and the version is that of the slot it would fall back to.      *)
LEMMA RebootStory ==
    ASSUME IInv, StoryInv, RamReset, Bootloader(st, boot),
           UNCHANGED <<img, pend_id, pend_version, fw_version>>,
           ~torn, pc \notin TornPcs
    PROVE  StoryInv'
  <1>1. pc' = "begin"
    BY DEF RamReset
  <1>2. pc \in SavePcs => pc = "restart"
    BY DEF SavePcs, TornPcs
  <1>3. pc \notin {"set_last", "mark_valid"}
    BY DEF TornPcs
  <1>4. fw_version # 0 => fw_version = img[Settled]
    BY <1>3 DEF StoryInv
  <1>5. CASE pc \in SavePcs
    <2>1. /\ boot = Other(running) /\ st[boot] = "new" /\ ~PendingVerify
          /\ pend_version = img[boot] /\ Settled = running
      BY <1>2, <1>5, SlotFacts DEF StoryInv, Settled
    <2>2. running' = boot /\ st'[boot] = "pending_verify"
      BY <2>1, SlotFacts DEF Bootloader
    <2>3. PendingVerify' /\ Settled' = running
      BY <2>1, <2>2, SlotFacts DEF PendingVerify, Settled, Other
    <2> QED
      BY <1>1, <1>4, <2>1, <2>2, <2>3 DEF StoryInv
  <1>6. CASE pc \notin SavePcs
    <2>1. boot = running /\ st[boot] \in {"undefined", "valid", "pending_verify"}
      BY <1>6, SlotFacts
    <2>2. CASE PendingVerify
      <3>1. st[Other(running)] \in {"undefined", "valid"}
        BY <2>2 DEF IInv, FlashInv
      <3>2. running' = Other(running) /\ st'[running'] # "pending_verify"
        BY <2>1, <2>2, <3>1, SlotFacts DEF Bootloader, PendingVerify
      <3>3. ~PendingVerify' /\ Settled' = Settled
        BY <2>2, <3>2 DEF PendingVerify, Settled
      <3> QED
        BY <1>1, <1>4, <3>3 DEF StoryInv
    <2>3. CASE ~PendingVerify
      <3>1. running' = running /\ st'[running] = st[running]
        BY <2>1, <2>3, SlotFacts DEF Bootloader, PendingVerify
      <3>2. ~PendingVerify' /\ Settled' = Settled
        BY <2>3, <3>1 DEF PendingVerify, Settled
      <3> QED
        BY <1>1, <1>4, <3>2 DEF StoryInv
    <2> QED
      BY <2>2, <2>3
  <1> QED
    BY <1>5, <1>6

(* Where neither slots nor record change, the place may, with care.        *)
LEMMA SameStory ==
    ASSUME IInv, StoryInv,
           UNCHANGED <<img, st, boot, running, pend_id, pend_version, fw_version, torn>>,
           \/ pc' = pc
           \/ /\ pc \notin {"set_last", "mark_valid"}
              /\ pc' \in {"loop", "ingest", "ota", "commit", "save_version", "mark_invalid"}
    PROVE  StoryInv'
  <1>1. PendingVerify' = PendingVerify /\ Settled' = Settled
    BY DEF PendingVerify, Settled
  <1> QED
    BY <1>1 DEF StoryInv

(* Every step keeps the story of record and slots.                         *)
LEMMA StoryNext ==
    ASSUME IInv, StoryInv, [Next]_vars
    PROVE  StoryInv'
  <1> USE DEF flashVars, firmVars, pendVars, nvsVars, sinkVars, mqttVars,
              ramVars, envVars, worldVars, histVars
  <1>1. CASE Begin
    <2>1. /\ UNCHANGED <<img, st, boot, running, pend_version, fw_version, torn>>
          /\ pc = "begin" /\ PendingVerify' = PendingVerify /\ Settled' = Settled
          /\ \/ pc' = "loop" /\ pend_id' = pend_id
             \/ pc' = "begin_rest" /\ ~PendingVerify
      BY <1>1 DEF Begin, PendingVerify, Settled
    <2> QED
      BY <2>1 DEF StoryInv
  <1>2. CASE BeginClearRest \/ ExpireClearRest \/ ConfirmDone
    <2>1. /\ UNCHANGED <<img, st, boot, running, pend_id, fw_version, torn>>
          /\ pc \in {"begin_rest", "expire_rest", "clear_rest"}
          /\ pc' \in {"loop", "mark_invalid"}
          /\ PendingVerify' = PendingVerify /\ Settled' = Settled
      BY <1>2 DEF BeginClearRest, ExpireClearRest, ConfirmDone, PendingVerify, Settled
    <2>2. ~torn => pend_id' = NoId \/ ~PendingVerify'
      BY <2>1 DEF StoryInv
    <2> QED
      BY <2>1, <2>2 DEF StoryInv
  <1>3. CASE \/ MqttStep \/ HandleOrder \/ IngestDone \/ OtaEvaluate \/ OtaAwaitButton
             \/ OtaVerifyFails \/ OtaIdle \/ ConfirmNoPending \/ ConfirmAccepted
             \/ MarkInvalidFails \/ ServerPublish \/ Deliver \/ LinkChange \/ ClockSync
             \/ Tick \/ UNCHANGED vars
    <2>1. /\ UNCHANGED <<img, st, boot, running, pend_id, pend_version, fw_version, torn>>
          /\ \/ pc' = pc
             \/ /\ pc \notin {"set_last", "mark_valid"}
                /\ pc' \in {"loop", "ingest", "ota", "commit"}
      BY <1>3 DEF MqttStep, HandleOrder, IngestDone, OtaEvaluate, OtaAwaitButton, OtaVerifyFails,
         OtaIdle, ConfirmNoPending, ConfirmAccepted, Confirming, MarkInvalidFails, ServerPublish,
         Deliver, LinkChange, ClockSync, Tick, vars
    <2> QED
      BY <2>1, SameStory
  <1>4. CASE OtaPump
    <2>1. /\ UNCHANGED <<st, boot, running, pend_id, pend_version, fw_version, torn>>
          /\ pc = "ota" /\ pc' = "loop" /\ state = "Downloading"
          /\ img' = img \/ img' = [img EXCEPT ![Other(running)] = 0]
      BY <1>4 DEF OtaPump, PumpChunk, PumpEof, PumpWouldBlock, PumpFails
    <2>2. ~PendingVerify
      BY <2>1 DEF IInv, SinkInv, FlashInv
    <2>3. /\ ~PendingVerify' /\ Settled' = Settled /\ Settled = running
          /\ img'[running] = img[running]
      BY <2>1, <2>2, SlotFacts DEF PendingVerify, Settled
    <2> QED
      BY <2>1, <2>2, <2>3 DEF StoryInv
  <1>5. CASE OtaApply
    <2>1. /\ UNCHANGED <<running, pend_id, pend_version, fw_version, torn>>
          /\ pc = "ota" /\ pc' = "save_id" /\ sink_open
          /\ img' = [img EXCEPT ![Other(running)] = FlashedVersion]
          /\ st' = [st EXCEPT ![Other(running)] = "new"]
      BY <1>5 DEF OtaApply
    <2>2. ~PendingVerify
      BY <2>1 DEF IInv, FlashInv
    <2>3. /\ ~PendingVerify' /\ Settled' = Settled /\ Settled = running
          /\ img'[running] = img[running]
      BY <2>1, <2>2, SlotFacts DEF PendingVerify, Settled
    <2> QED
      BY <2>1, <2>2, <2>3 DEF StoryInv
  <1>6. CASE SaveId
    <2>1. /\ UNCHANGED <<img, st, boot, running, pend_version, fw_version>>
          /\ pc = "save_id" /\ pc' = "save_version" /\ (~torn' => ~torn)
          /\ PendingVerify' = PendingVerify /\ Settled' = Settled
      BY <1>6 DEF SaveId, PendingVerify, Settled
    <2>2. ~PendingVerify
      BY <2>1, SlotFacts DEF SavePcs
    <2> QED
      BY <2>1, <2>2 DEF StoryInv
  <1>7. CASE SaveVersion \/ SaveDeadline
    <2>1. /\ UNCHANGED <<img, st, boot, running, pend_id, fw_version>>
          /\ pc \in SavePcs /\ pc' \in {"save_deadline", "restart"} /\ (~torn' => ~torn)
          /\ PendingVerify' = PendingVerify /\ Settled' = Settled
      BY <1>7 DEF SaveVersion, SaveDeadline, PendingVerify, Settled, SavePcs
    <2>2. ~PendingVerify /\ img[boot] = order.target_version
      BY <2>1, SlotFacts DEF IInv, FlashInv
    <2>3. ~torn' => pend_version' = img[boot]
      BY <1>7, <2>2 DEF SaveVersion, SaveDeadline, PendingVersion, StoryInv
    <2> QED
      BY <2>1, <2>2, <2>3 DEF StoryInv, SavePcs
  <1>8. CASE Reset
    <2>1. /\ RamReset /\ Bootloader(st, boot) /\ torn' = (torn \/ pc \in TornPcs)
          /\ UNCHANGED <<img, pend_id, pend_version, fw_version>>
      BY <1>8 DEF Reset
    <2>2. CASE torn'
      BY <2>1, <2>2 DEF StoryInv, RamReset
    <2>3. CASE ~torn'
      BY <2>1, <2>3, RebootStory
    <2> QED
      BY <2>2, <2>3
  <1>9. CASE Restart
    <2>1. /\ RamReset /\ Bootloader(st, boot) /\ torn' = torn /\ pc = "restart"
          /\ UNCHANGED <<img, pend_id, pend_version, fw_version>>
      BY <1>9 DEF Restart
    <2>2. CASE torn
      BY <2>1, <2>2 DEF StoryInv, RamReset
    <2>3. CASE ~torn
      BY <2>1, <2>3, RebootStory DEF TornPcs
    <2> QED
      BY <2>2, <2>3
  <1>10. CASE MarkInvalidAndReboot
    <2> DEFINE newSt == [st EXCEPT ![running] = "invalid"]
    <2>1. /\ pc = "mark_invalid" /\ pc' = "begin" /\ Bootloader(newSt, Other(running))
          /\ UNCHANGED <<img, pend_id, pend_version, fw_version, torn>>
      BY <1>10 DEF MarkInvalidAndReboot, RamReset
    <2>2. PendingVerify /\ st[Other(running)] \in {"undefined", "valid"}
      BY <2>1 DEF IInv, ControlInv, FlashInv
    <2>3. newSt[Other(running)] = st[Other(running)] /\ newSt \in [Slots -> SlotStates]
      BY SlotFacts DEF SlotStates
    <2>4. running' = Other(running) /\ st'[running'] = st[Other(running)]
      <3> HIDE DEF newSt
      <3> QED
        BY <2>1, <2>2, <2>3, SlotFacts DEF Bootloader
    <2>5. ~PendingVerify' /\ Settled' = Settled
      BY <2>2, <2>4 DEF PendingVerify, Settled
    <2> QED
      BY <2>1, <2>5 DEF StoryInv
  <1>11. CASE ConfirmExpired \/ ConfirmClearId
    <2>1. /\ UNCHANGED <<img, st, boot, running, pend_version, fw_version>>
          /\ pend_id' \in {NoId, pend_id}
          /\ PendingVerify' = PendingVerify /\ Settled' = Settled
      BY <1>11 DEF ConfirmExpired, Confirming, ConfirmClearId, EraseId, Write, PendingVerify,
         Settled
    <2>2. CASE ConfirmExpired
      <3>1. pc = "loop" /\ pc' = "expire_rest" /\ torn' = (torn \/ pend_id' # NoId)
        BY <2>2 DEF ConfirmExpired, Confirming
      <3> QED
        BY <2>1, <3>1 DEF StoryInv
    <2>3. CASE ConfirmClearId
      <3>1. pc = "clear" /\ pc' = "clear_rest" /\ torn' = torn
        BY <2>3 DEF ConfirmClearId
      <3> QED
        BY <2>1, <3>1 DEF StoryInv
    <2> QED
      BY <1>11, <2>2, <2>3
  <1>12. CASE CommitFirmware
    <2>1. /\ UNCHANGED <<img, st, boot, running, pend_id, pend_version>>
          /\ torn' = (torn \/ fw_version' # Committed)
          /\ pc = "commit" /\ pc' = "set_last"
          /\ PendingVerify' = PendingVerify /\ Settled' = Settled
      BY <1>12 DEF CommitFirmware, PendingVerify, Settled
    <2>2. PendingVerify /\ pend_id # NoId /\ img[running] # 0
      BY <2>1 DEF IInv, ControlInv, FlashInv, AckInv
    <2>3. ~torn' => ~torn /\ fw_version' = img[running]
      BY <2>1, <2>2 DEF StoryInv, Committed
    <2> QED
      BY <2>1, <2>2, <2>3 DEF StoryInv
  <1>13. CASE SetLastUpdateId
    <2>1. /\ UNCHANGED <<img, st, boot, running, pend_id, pend_version, fw_version, torn>>
          /\ pc = "set_last" /\ pc' = "mark_valid"
          /\ PendingVerify' = PendingVerify /\ Settled' = Settled
      BY <1>13 DEF SetLastUpdateId, PendingVerify, Settled
    <2> QED
      BY <2>1 DEF StoryInv
  <1>14. CASE MarkValid
    <2>1. /\ UNCHANGED <<img, boot, running, pend_id, pend_version, fw_version>>
          /\ pc = "mark_valid" /\ pc' = "clear" /\ torn' = (torn \/ st'[running] # "valid")
      BY <1>14 DEF MarkValid
    <2>2. ~torn' => ~torn /\ ~PendingVerify' /\ Settled' = running
      BY <2>1 DEF PendingVerify, Settled
    <2> QED
      BY <2>1, <2>2 DEF StoryInv
  <1> QED
    BY <1>1, <1>2, <1>3, <1>4, <1>5, <1>6, <1>7, <1>8, <1>9, <1>10, <1>11, <1>12, <1>13, <1>14
    DEF Next, LoopTask, OtaStep, SaveStep, ConfirmStep, Environment

-----------------------------------------------------------------------------
(* The four together, from the start of the unit on.                       *)
THEOREM PartsAgree == Spec => []Agreement
  <1>1. Init => PauseInv /\ StoryInv /\ WindowInv
    BY DEF Init, PauseInv, StoryInv, WindowInv, NoDeadline, SavePcs
  <1>2. Agreement /\ [Next]_vars => Agreement'
    BY IInvNext, PauseNext, StoryNext, WindowNext DEF Agreement
  <1>3. Init => Agreement
    BY <1>1, IInvInit DEF Agreement
  <1> QED
    BY <1>2, <1>3, PTL DEF Spec

(* With the pause switched on no session and no waiting order is there     *)
(* while firmware is downloaded or verified, and the pause ends with the   *)
(* update (pauseMqttForOta, resumeMqttAfterOta).                           *)
THEOREM PauseIsTheDownload == Spec => []QuietWhileFlashing
  <1>1. Agreement => QuietWhileFlashing
    BY DEF Agreement, PauseInv, QuietWhileFlashing
  <1> QED
    BY <1>1, PartsAgree, PTL

(* Sink and stream are closed when no update runs, whichever way the last  *)
(* one ended (failOta, verifyAndApply).                                    *)
THEOREM AllReleased == Spec => []UpdateReleasesAll
  <1>1. Agreement => UpdateReleasesAll
    BY DEF Agreement, PauseInv, UpdateReleasesAll
  <1> QED
    BY <1>1, PartsAgree, PTL

(* NVS and flash tell the same story unless a reset between its writes, or *)
(* one of them that failed, tore a record (savePending, confirmStep).      *)
THEOREM OneStory == Spec => []RecordsAgree
  <1>1. Agreement => RecordsAgree
    <2>1. SUFFICES ASSUME Agreement, ~torn
                   PROVE  /\ pend_id # NoId /\ PendingVerify => pend_version = img[running]
                          /\ state = "Operation" /\ ~PendingVerify /\ fw_version # 0
                                => fw_version = img[running]
      BY DEF RecordsAgree
    <2>2. state = "Operation" => pc \notin {"set_last", "mark_valid"}
      BY <2>1 DEF Agreement, IInv, ControlInv
    <2> QED
      BY <2>1, <2>2 DEF Agreement, StoryInv, Settled
  <1> QED
    BY <1>1, PartsAgree, PTL

(* No image is reverted before its time, if a clock was there when it was  *)
(* selected and its record is whole (savePending, confirmStep).            *)
THEOREM WholeWindow == Spec => []WindowIsGiven
  <1>1. Agreement => WindowIsGiven
    BY DEF Agreement, WindowInv, WindowIsGiven
  <1> QED
    BY <1>1, PartsAgree, PTL

-----------------------------------------------------------------------------
(* The two slots implement a trial update.                                 *)

(* A device starts without a trial.                                        *)
LEMMA TrialInit == Init => Trial!Init
  <1> SUFFICES ASSUME Init PROVE Trial!Init
    OBVIOUS
  <1>1. /\ img[boot] = 1 /\ img[running] = 1 /\ ~Selected /\ ~PendingVerify
    BY DEF Init, Slots, Selected, PendingVerify
  <1> QED
    BY <1>1 DEF Trial!Init

(* Where the device runs what is selected, Selected says that it is on     *)
(* trial.                                                                  *)
LEMMA SelectedFact ==
    ASSUME IInv
    PROVE  /\ pc \in SavePcs => Selected
           /\ pc \notin SavePcs => (Selected <=> PendingVerify)
  BY SlotFacts DEF Selected, PendingVerify

(* Off trial before and after, a step leaves the flags of the trial alone. *)
LEMMA NoTrial ==
    ASSUME ~PendingVerify, ~PendingVerify'
    PROVE  UNCHANGED <<PendingVerify, PendingVerify /\ acked # NoId>>
  BY DEF PendingVerify

(* A reset starts a selected image, gives up one on trial, or changes      *)
(* nothing the abstract update sees.                                       *)
LEMMA RebootTrial ==
    IInv /\ RamReset /\ Bootloader(st, boot) /\ img' = img
        => [Trial!Next]_(Trial!trialVars)
  <1>0. SUFFICES ASSUME IInv, RamReset, Bootloader(st, boot), img' = img
                 PROVE  [Trial!Next]_(Trial!trialVars)
    OBVIOUS
  <1>1. acked' = NoId
    BY <1>0 DEF RamReset
  <1>2. CASE pc \in SavePcs
    <2>1. /\ boot = Other(running) /\ st[boot] = "new" /\ ~PendingVerify /\ Selected
      BY <1>0, <1>2, SlotFacts, SelectedFact
    <2>2. img[boot] # 0
      BY <1>0, <1>2, OrderFields DEF IInv, FlashInv, ControlInv, Updating
    <2>3. running' = boot /\ boot' = boot /\ st'[boot] = "pending_verify"
      BY <1>0, <2>1, SlotFacts DEF Bootloader
    <2>4. Selected' /\ PendingVerify'
      BY <1>0, <2>3 DEF Selected, PendingVerify
    <2>5. /\ Other(boot) = running /\ Other(boot') = running /\ running' = boot /\ boot' = boot
          /\ img'[boot'] = img[boot] /\ img'[running'] = img[boot]
          /\ img'[Other(boot')] = img[Other(boot)]
      BY <1>0, <2>1, <2>3, SlotFacts
    <2>6. (PendingVerify /\ acked # NoId) = FALSE /\ (PendingVerify' /\ acked' # NoId) = FALSE
      BY <1>0, <1>1, <2>1
    <2> QED
      BY <2>1, <2>2, <2>4, <2>5, <2>6 DEF Trial!Next, Trial!Start
  <1>3. CASE pc \notin SavePcs /\ PendingVerify
    <2>1. boot = running /\ Selected /\ st[Other(running)] \in {"undefined", "valid"}
      BY <1>0, <1>3, SlotFacts, SelectedFact DEF IInv, FlashInv
    <2>2. /\ running' = Other(running) /\ boot' = Other(running)
          /\ st'[Other(running)] = st[Other(running)]
      BY <1>0, <1>3, <2>1, SlotFacts DEF Bootloader, PendingVerify
    <2>3. ~Selected' /\ ~PendingVerify'
      BY <1>0, <2>1, <2>2 DEF Selected, PendingVerify
    <2>4. /\ img'[boot'] = img[Other(boot)] /\ img'[running'] = img[Other(boot)]
          /\ (PendingVerify' /\ acked' # NoId) = FALSE
      BY <1>0, <2>1, <2>2, <2>3
    <2> QED
      BY <1>3, <2>1, <2>3, <2>4 DEF Trial!Next, Trial!GoBack, Trial!Over
  <1>4. CASE pc \notin SavePcs /\ ~PendingVerify
    <2>1. boot = running /\ ~Selected
      BY <1>0, <1>4, SlotFacts, SelectedFact
    <2>2. running' = running /\ boot' = boot /\ st'[boot] = st[boot]
      BY <1>0, <1>4, <2>1, SlotFacts DEF Bootloader, PendingVerify
    <2>3. ~Selected' /\ ~PendingVerify'
      BY <1>0, <1>4, <2>1, <2>2 DEF Selected, PendingVerify
    <2>4. img'[boot'] = img[boot] /\ img'[running'] = img[running]
      BY <1>0, <2>2
    <2>5. UNCHANGED <<PendingVerify, PendingVerify /\ acked # NoId>>
      BY <1>4, <2>3, NoTrial
    <2> QED
      BY <2>1, <2>3, <2>4, <2>5 DEF Trial!trialVars
  <1> QED
    BY <1>2, <1>3, <1>4

(* A step that leaves the slots alone is a stutter of the trial.           *)
LEMMA SameTrial ==
    ASSUME UNCHANGED <<img, st, boot, running, acked>>
    PROVE  UNCHANGED Trial!trialVars
  BY DEF Trial!trialVars, Selected, PendingVerify

(* Every step is a step of the trial, or a stutter.                        *)
LEMMA TrialStep ==
    ASSUME IInv, [Next]_vars
    PROVE  [Trial!Next]_(Trial!trialVars)
  <1> USE DEF flashVars, firmVars, pendVars, nvsVars, sinkVars, mqttVars,
              ramVars, envVars, worldVars, histVars
  <1>1. CASE OtaPump
    <2>1. /\ UNCHANGED <<st, boot, running, acked>> /\ pc = "ota" /\ state = "Downloading"
          /\ img' = img \/ img' = [img EXCEPT ![Other(running)] = 0]
      BY <1>1 DEF OtaPump, PumpChunk, PumpEof, PumpWouldBlock, PumpFails
    <2>2. ~PendingVerify /\ boot = running /\ ~Selected
      BY <2>1, SlotFacts, SelectedFact DEF IInv, SinkInv, FlashInv, SavePcs
    <2>3. img'[running] = img[running] /\ ~PendingVerify' /\ ~Selected'
      BY <2>1, <2>2, SlotFacts DEF PendingVerify, Selected
    <2>4. UNCHANGED <<PendingVerify, PendingVerify /\ acked # NoId>>
      BY <2>2, <2>3, NoTrial
    <2> QED
      BY <2>1, <2>2, <2>3, <2>4 DEF Trial!trialVars
  <1>2. CASE OtaApply
    <2>1. /\ UNCHANGED <<running, acked>> /\ boot' = Other(running)
          /\ pc = "ota" /\ state = "Verifying" /\ sink_open
          /\ img' = [img EXCEPT ![Other(running)] = FlashedVersion]
          /\ st' = [st EXCEPT ![Other(running)] = "new"]
      BY <1>2 DEF OtaApply
    <2>2. FlashedVersion # 0
      <3>1. content = order /\ order \in Orders /\ written = order.size
        BY <1>2 DEF OtaApply, DigestMatches, IInv, ControlInv, Updating
      <3> QED
        BY <3>1, OrderFields DEF FlashedVersion
    <2>3. ~PendingVerify /\ boot = running /\ ~Selected
      BY <2>1, SlotFacts, SelectedFact DEF IInv, FlashInv, SavePcs
    <2>4. /\ img'[running] = img[running] /\ img'[boot'] # 0
          /\ ~PendingVerify' /\ Selected' /\ Other(boot') = running
      BY <2>1, <2>2, <2>3, SlotFacts DEF PendingVerify, Selected
    <2>5. img'[Other(boot')] = img[boot]
      BY <2>3, <2>4
    <2>6. UNCHANGED <<PendingVerify, PendingVerify /\ acked # NoId>>
      BY <2>3, <2>4, NoTrial
    <2> QED
      BY <2>1, <2>3, <2>4, <2>5, <2>6 DEF Trial!Next, Trial!Select
  <1>3. CASE Reset \/ Restart
    <2>1. RamReset /\ Bootloader(st, boot) /\ img' = img
      BY <1>3 DEF Reset, Restart
    <2> QED
      BY <2>1, RebootTrial
  <1>4. CASE MarkInvalidAndReboot
    <2> DEFINE newSt == [st EXCEPT ![running] = "invalid"]
    <2>1. pc = "mark_invalid" /\ Bootloader(newSt, Other(running)) /\ img' = img
      BY <1>4 DEF MarkInvalidAndReboot
    <2>2. /\ PendingVerify /\ st[Other(running)] \in {"undefined", "valid"}
          /\ boot = running /\ Selected
      BY <2>1, SlotFacts, SelectedFact DEF IInv, ControlInv, FlashInv, SavePcs
    <2>3. newSt[Other(running)] = st[Other(running)] /\ newSt \in [Slots -> SlotStates]
      BY SlotFacts DEF SlotStates
    <2>4. /\ running' = Other(running) /\ boot' = Other(running)
          /\ st'[Other(running)] = st[Other(running)]
      <3> HIDE DEF newSt
      <3> QED
        BY <2>1, <2>2, <2>3, SlotFacts DEF Bootloader
    <2>5. ~Selected' /\ ~PendingVerify'
      BY <2>2, <2>4 DEF Selected, PendingVerify
    <2> QED
      BY <2>1, <2>2, <2>4, <2>5 DEF Trial!Next, Trial!GoBack, Trial!Over
  <1>5. CASE ConfirmAccepted
    <2>1. /\ UNCHANGED <<img, st, boot, running>> /\ acked' = pend_id /\ pend_id # NoId
          /\ pc = "loop" /\ state = "Confirming"
      BY <1>5 DEF ConfirmAccepted, Confirming
    <2>2. PendingVerify /\ PendingVerify' /\ Selected' = Selected
      BY <2>1 DEF IInv, FlashInv, PendingVerify, Selected
    <2> QED
      BY <2>1, <2>2 DEF Trial!Next, Trial!Answer
  <1>6. CASE MarkValid
    <2>1. /\ UNCHANGED <<img, boot, running, acked>> /\ pc = "mark_valid"
          /\ st' = st \/ st' = [st EXCEPT ![running] = "valid"]
      BY <1>6 DEF MarkValid, Write
    <2>2. PendingVerify /\ acked # NoId /\ boot = running /\ Selected
      BY <2>1, SlotFacts, SelectedFact DEF IInv, ControlInv, FlashInv, AckInv, SavePcs
    <2>3. CASE st' = st
      BY <2>1, <2>3, SameTrial
    <2>4. CASE st' # st
      <3>1. ~Selected' /\ ~PendingVerify'
        BY <2>1, <2>2, <2>4, SlotFacts DEF Selected, PendingVerify
      <3> QED
        BY <2>1, <2>2, <3>1 DEF Trial!Next, Trial!Confirm, Trial!Over
    <2> QED
      BY <2>3, <2>4
  <1>7. CASE \/ Begin \/ BeginClearRest \/ MqttStep \/ HandleOrder \/ IngestDone \/ OtaEvaluate
             \/ OtaAwaitButton \/ OtaVerifyFails \/ OtaIdle \/ SaveId \/ SaveVersion
             \/ SaveDeadline \/ ConfirmNoPending \/ ConfirmExpired \/ ExpireClearRest
             \/ MarkInvalidFails \/ CommitFirmware \/ SetLastUpdateId \/ ConfirmClearId
             \/ ConfirmDone \/ ServerPublish \/ Deliver \/ LinkChange \/ ClockSync \/ Tick
             \/ UNCHANGED vars
    <2>1. UNCHANGED <<img, st, boot, running, acked>>
      BY <1>7 DEF Begin, BeginClearRest, MqttStep, HandleOrder, IngestDone, OtaEvaluate,
         OtaAwaitButton, OtaVerifyFails, OtaIdle, SaveId, SaveVersion, SaveDeadline,
         ConfirmNoPending, ConfirmExpired, ExpireClearRest, MarkInvalidFails, CommitFirmware,
         SetLastUpdateId, ConfirmClearId, ConfirmDone, ServerPublish, Deliver, LinkChange,
         ClockSync, Tick, vars
    <2> QED
      BY <2>1, SameTrial
  <1> QED
    BY <1>1, <1>2, <1>3, <1>4, <1>5, <1>6, <1>7
    DEF Next, LoopTask, OtaStep, SaveStep, ConfirmStep, Environment

(* Through all failures and resets the slots hold one image known to work, *)
(* try at most one other, once, and only an answer of the server makes     *)
(* that one the known one (Esp32OtaSink, RollbackGuard, confirmStep).      *)
THEOREM Refinement == Spec => ImplementsTrial
  <1>1. Init => Trial!Init
    BY TrialInit
  <1>2. IInv /\ [Next]_vars => [Trial!Next]_(Trial!trialVars)
    BY TrialStep
  <1> QED
    BY <1>1, <1>2, Inductive, PTL DEF Spec, ImplementsTrial, Trial!Spec
=============================================================================
