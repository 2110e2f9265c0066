-------------------------- MODULE OtaUpdaterProofs --------------------------
(***************************************************************************)
(* Safety of the update life cycle for every set of orders, every bound    *)
(* and every setting of the switches.                                      *)
(***************************************************************************)
EXTENDS OtaUpdater, TLAPS

(* An accepted order is a well-typed one.                                  *)
LEMMA OrderFields ==
    ASSUME NEW o \in Orders
    PROVE  /\ o.update_id \in UpdateIds /\ o.target_version \in Versions
           /\ o.target_version \in 0..MaxVersion /\ o.target_version # 0
           /\ o.size \in Nat /\ o # NoOrder /\ o # Corrupt
           /\ o.update_id # NoId
  BY OrdersAssumption, BoundsAssumption DEF OrderType, Versions

(* Deadlines and timers stay within their bounds.                          *)
LEMMA BoundFacts ==
    /\ MaxTimer \in Nat /\ StallTimeout \in Nat /\ ButtonWindow \in Nat
    /\ RollbackDeadline \in Nat /\ 0 \in 0..MaxTimer /\ 0 \in 0..SlotSize
    /\ NoDeadline \in NoDeadline..(RollbackDeadline + 1)
    /\ 0 \in 0..(RollbackDeadline + 1)
    /\ DeadlineLeft \in NoDeadline..(RollbackDeadline + 1)
    /\ SlotSize \in Nat /\ MaxVersion \in Nat \ {0} /\ MaxFaults \in Nat
  BY BoundsAssumption DEF MaxTimer, NoDeadline, DeadlineLeft

-----------------------------------------------------------------------------
(* Type correctness.                                                       *)

(* The types hold at the start.                                            *)
LEMMA TypeInit == Init => TypeOK
  BY BoundFacts DEF Init, TypeOK, Slots, SlotStates, IdOpt, OrderOpt,
     OtaStates, Pcs, DeviceStates, NoDeadline

(* A reset clears RAM and lets the bootloader choose among the two slots.  *)
LEMMA ResetTypes ==
    ASSUME TypeOK, RamReset,
           NEW newSt \in [Slots -> SlotStates], NEW sel \in Slots,
           Bootloader(newSt, sel)
    PROVE  /\ boot' \in Slots /\ running' \in Slots
           /\ st' \in [Slots -> SlotStates]
           /\ pc' \in Pcs /\ state' \in DeviceStates /\ ota_state' \in OtaStates
           /\ order' \in OrderOpt /\ dl' \in OrderOpt
           /\ sink_open' \in BOOLEAN /\ written' \in 0..SlotSize
           /\ content' \in OrderOpt \cup {Corrupt}
           /\ mqtt_started' \in BOOLEAN /\ mqtt_paused' \in BOOLEAN
           /\ inbox' \in Seq(Orders) /\ timer' \in 0..MaxTimer
           /\ acked' \in IdOpt
  <1>1. Other(sel) \in Slots
    BY DEF Other, Slots
  <1>2. boot' \in Slots /\ running' \in Slots
    BY <1>1 DEF Bootloader
  <1>3. st' \in [Slots -> SlotStates]
    BY DEF Bootloader, SlotStates
  <1>4. pc' \in Pcs /\ state' \in DeviceStates /\ ota_state' \in OtaStates
    BY DEF RamReset, Pcs, DeviceStates, OtaStates
  <1>5. order' \in OrderOpt /\ dl' \in OrderOpt
    BY DEF RamReset, OrderOpt
  <1>6. content' \in OrderOpt \cup {Corrupt} /\ acked' \in IdOpt
    BY DEF RamReset, OrderOpt, IdOpt
  <1>7. sink_open' \in BOOLEAN /\ mqtt_started' \in BOOLEAN
           /\ mqtt_paused' \in BOOLEAN
    BY DEF RamReset
  <1>8. written' \in 0..SlotSize /\ timer' \in 0..MaxTimer
           /\ inbox' \in Seq(Orders)
    BY BoundFacts DEF RamReset
  <1>9. QED
    BY <1>2, <1>3, <1>4, <1>5, <1>6, <1>7, <1>8

(* failOta() leaves well-typed values behind.                              *)
LEMMA FailOtaTypes ==
    ASSUME TypeOK, FailOta
    PROVE  /\ state' \in DeviceStates /\ ota_state' \in OtaStates
           /\ nvs_ota_state' \in OtaStates
           /\ order' \in OrderOpt /\ dl' \in OrderOpt
           /\ sink_open' \in BOOLEAN /\ written' \in 0..SlotSize
           /\ content' \in OrderOpt \cup {Corrupt}
           /\ mqtt_paused' \in BOOLEAN
  <1>1. state' \in DeviceStates
    BY DEF FailOta, DeviceStates
  <1>2. ota_state' \in OtaStates /\ nvs_ota_state' \in OtaStates
    BY DEF FailOta, SetOtaState, OtaStates
  <1>3. order' \in OrderOpt /\ dl' \in OrderOpt
           /\ content' \in OrderOpt \cup {Corrupt}
    BY DEF FailOta, SinkAbort, OrderOpt
  <1>4. sink_open' \in BOOLEAN /\ written' \in 0..SlotSize
           /\ mqtt_paused' \in BOOLEAN
    BY BoundFacts DEF FailOta, SinkAbort
  <1>5. QED
    BY <1>1, <1>2, <1>3, <1>4

(* So does startDownload(), whichever way it ends.                         *)
LEMMA StartDownloadTypes ==
    ASSUME TypeOK, StartDownload
    PROVE  /\ state' \in DeviceStates /\ ota_state' \in OtaStates
           /\ nvs_ota_state' \in OtaStates
           /\ order' \in OrderOpt /\ dl' \in OrderOpt
           /\ sink_open' \in BOOLEAN /\ written' \in 0..SlotSize
           /\ content' \in OrderOpt \cup {Corrupt}
           /\ mqtt_paused' \in BOOLEAN /\ mqtt_started' \in BOOLEAN
           /\ inbox' \in Seq(Orders) /\ timer' \in 0..MaxTimer
  <1>1. Pausing \in BOOLEAN
    BY SwitchesAssumption DEF Pausing, TypeOK
  <1>2. CASE FailOta /\ UNCHANGED <<mqtt_started, inbox, timer>>
    BY <1>2, FailOtaTypes DEF TypeOK
  <1>3. CASE FailAfterPause /\ UNCHANGED timer
    <2>1. FailOta
      BY <1>3 DEF FailAfterPause
    <2>2. inbox' \in Seq(Orders) /\ mqtt_started' \in BOOLEAN
      BY <1>1, <1>3 DEF FailAfterPause, TypeOK
    <2>3. timer' \in 0..MaxTimer
      BY <1>3 DEF TypeOK
    <2>4. QED
      BY <2>1, <2>2, <2>3, FailOtaTypes
  <1>4. CASE /\ PauseMqttForOta
             /\ sink_open' = TRUE /\ written' = 0 /\ content' = NoOrder
             /\ dl' = order /\ timer' = 0
             /\ state' = "Downloading" /\ SetOtaState("Downloading")
             /\ UNCHANGED order
    <2>1. state' \in DeviceStates /\ ota_state' \in OtaStates
             /\ nvs_ota_state' \in OtaStates
      BY <1>4 DEF SetOtaState, DeviceStates, OtaStates
    <2>2. order' \in OrderOpt /\ dl' \in OrderOpt
      BY <1>4 DEF TypeOK
    <2>3. content' \in OrderOpt \cup {Corrupt}
      BY <1>4 DEF OrderOpt
    <2>4. sink_open' \in BOOLEAN /\ written' \in 0..SlotSize
             /\ timer' \in 0..MaxTimer
      BY <1>4, BoundFacts
    <2>5. mqtt_paused' \in BOOLEAN /\ mqtt_started' \in BOOLEAN
             /\ inbox' \in Seq(Orders)
      BY <1>1, <1>4 DEF PauseMqttForOta, TypeOK
    <2>6. QED
      BY <2>1, <2>2, <2>3, <2>4, <2>5
  <1>5. QED
    BY <1>2, <1>3, <1>4 DEF StartDownload

(* Writing one slot keeps the type of the flash.                           *)
LEMMA SlotWriteTypes ==
    ASSUME img \in [Slots -> 0..MaxVersion], NEW v \in 0..MaxVersion,
           img' = [img EXCEPT ![Other(running)] = v]
    PROVE  img' \in [Slots -> 0..MaxVersion]
  OBVIOUS

(* Every step of loop() that touches the update keeps the types.           *)
LEMMA OtaStepTypes ==
    ASSUME TypeOK, ControlInv, OtaStep
    PROVE  TypeOK'
  <1> USE DEF flashVars, firmVars, pendVars, nvsVars, sinkVars, mqttVars,
              ramVars, envVars, worldVars, histVars
  <1>0. "loop" \in Pcs /\ "save_id" \in Pcs
    BY DEF Pcs, SavePcs
  <1>1. CASE OtaEvaluate
    <2>1. CASE StartDownload
      BY <1>0, <1>1, <2>1, StartDownloadTypes DEF OtaEvaluate, TypeOK
    <2>2. CASE ~StartDownload
      <3>1. state' \in DeviceStates /\ ota_state' \in OtaStates
               /\ nvs_ota_state' \in OtaStates
        BY <1>1, <2>2 DEF OtaEvaluate, SetOtaState, DeviceStates, OtaStates
      <3>2. timer' \in 0..MaxTimer
        BY <1>1, <2>2, BoundFacts DEF OtaEvaluate, TypeOK
      <3>3. QED
        BY <1>0, <1>1, <2>2, <3>1, <3>2 DEF OtaEvaluate, TypeOK
    <2>3. QED
      BY <2>1, <2>2
  <1>2. CASE OtaAwaitButton
    <2>1. CASE StartDownload
      BY <1>0, <1>2, <2>1, StartDownloadTypes DEF OtaAwaitButton, TypeOK
    <2>2. CASE ~StartDownload
      <3>1. state' \in DeviceStates
        BY <1>2, <2>2 DEF OtaAwaitButton, DeviceStates
      <3>2. order' \in OrderOpt
        BY <1>2, <2>2 DEF OtaAwaitButton, OrderOpt, TypeOK
      <3>3. UNCHANGED <<ota_state, nvs_ota_state, sink_open, written,
                        content, dl, mqtt_started, mqtt_paused, inbox, timer,
                        flashVars, firmVars, pendVars, guard_bypassed,
                        envVars, histVars>>
        BY <1>2, <2>2 DEF OtaAwaitButton
      <3>4. QED
        BY <1>0, <1>2, <3>1, <3>2, <3>3 DEF OtaAwaitButton, TypeOK
    <2>3. QED
      BY <2>1, <2>2
  <1>3. CASE OtaPump
    <2>1. CASE PumpChunk
      <3>1. written' \in 0..SlotSize /\ timer' \in 0..MaxTimer
        BY <2>1, BoundFacts DEF PumpChunk, FitsSlot, TypeOK
      <3>2. content' \in OrderOpt \cup {Corrupt}
        BY <2>1 DEF PumpChunk, Extended, TypeOK
      <3>3. img' \in [Slots -> 0..MaxVersion]
        <4>1. 0 \in 0..MaxVersion
          BY BoundFacts
        <4>2. img' = [img EXCEPT ![Other(running)] = 0]
          BY <2>1 DEF PumpChunk
        <4>3. QED
          BY <4>1, <4>2, SlotWriteTypes DEF TypeOK
      <3>4. QED
        BY <1>0, <1>3, <2>1, <3>1, <3>2, <3>3 DEF OtaPump, PumpChunk, TypeOK
    <2>2. CASE PumpEof
      <3>1. state' \in DeviceStates /\ ota_state' \in OtaStates
               /\ nvs_ota_state' \in OtaStates
        BY <2>2 DEF PumpEof, SetOtaState, DeviceStates, OtaStates
      <3>2. dl' \in OrderOpt
        BY <2>2 DEF PumpEof, OrderOpt
      <3>3. UNCHANGED <<img, order, sink_open, written, content, mqtt_paused,
                        timer>>
        BY <2>2 DEF PumpEof
      <3>4. QED
        BY <1>0, <1>3, <3>1, <3>2, <3>3 DEF OtaPump, TypeOK
    <2>3. CASE PumpWouldBlock
      BY <1>0, <1>3, <2>3 DEF OtaPump, PumpWouldBlock, TypeOK
    <2>4. CASE PumpFails
      BY <1>0, <1>3, <2>4, FailOtaTypes DEF OtaPump, PumpFails, TypeOK
    <2>5. QED
      BY <1>3, <2>1, <2>2, <2>3, <2>4 DEF OtaPump
  <1>4. CASE OtaApply
    <2>1. FlashedVersion \in 0..MaxVersion
      BY OrderFields, BoundFacts DEF FlashedVersion
    <2>2. img' \in [Slots -> 0..MaxVersion]
      BY <1>4, <2>1, SlotWriteTypes DEF OtaApply, TypeOK
    <2>3. boot' \in Slots
      BY <1>4 DEF OtaApply, TypeOK, Slots, Other
    <2>4. st' \in [Slots -> SlotStates]
      BY <1>4 DEF OtaApply, TypeOK, SlotStates
    <2>5. age' \in 0..(RollbackDeadline + 1) /\ sink_open' \in BOOLEAN
      <3>1. age' = 0 /\ sink_open' = FALSE
        BY <1>4 DEF OtaApply
      <3>2. QED
        BY <3>1, BoundFacts
    <2>6. QED
      BY <1>0, <1>4, <2>2, <2>3, <2>4, <2>5 DEF OtaApply, TypeOK
  <1>5. CASE OtaVerifyFails
    BY <1>0, <1>5, FailOtaTypes DEF OtaVerifyFails, TypeOK
  <1>6. CASE OtaIdle
    BY <1>0, <1>6 DEF OtaIdle, TypeOK
  <1>7. QED
    BY <1>1, <1>2, <1>3, <1>4, <1>5, <1>6 DEF OtaStep

(* Erasing the record, completely or not, keeps its types.                 *)
LEMMA EraseTypes ==
    ASSUME TypeOK
    PROVE  /\ EraseId => pend_id' \in IdOpt /\ faults' \in 0..MaxFaults
           /\ EraseRest =>
                 /\ pend_version' \in 0..MaxVersion
                 /\ pend_deadline' \in NoDeadline..(RollbackDeadline + 1)
                 /\ faults' \in 0..MaxFaults
  <1>1. faults \in 0..MaxFaults /\ MaxFaults \in Nat
    BY BoundFacts DEF TypeOK
  <1>2. faults < MaxFaults => faults + 1 \in 0..MaxFaults
    BY <1>1
  <1>3. ASSUME EraseId PROVE pend_id' \in IdOpt /\ faults' \in 0..MaxFaults
    BY <1>1, <1>2, <1>3 DEF EraseId, Write, TypeOK, IdOpt
  <1>4. ASSUME EraseRest
        PROVE  /\ pend_version' \in 0..MaxVersion
               /\ pend_deadline' \in NoDeadline..(RollbackDeadline + 1)
               /\ faults' \in 0..MaxFaults
    BY <1>1, <1>2, <1>4, BoundFacts DEF EraseRest, TypeOK
  <1>5. QED
    BY <1>3, <1>4

(* The writes of savePending() and the restart keep the types.             *)
LEMMA SaveStepTypes ==
    ASSUME TypeOK, ControlInv, SaveStep
    PROVE  TypeOK'
  <1> USE DEF flashVars, firmVars, pendVars, nvsVars, sinkVars, mqttVars,
              ramVars, envVars, worldVars, histVars
  <1>0. pc \in SavePcs => order \in Orders
    BY DEF ControlInv, Updating
  <1>a. /\ faults \in 0..MaxFaults
        /\ faults < MaxFaults => faults + 1 \in 0..MaxFaults
    BY BoundFacts DEF TypeOK
  <1>1. CASE SaveId
    <2>1. pend_id' \in IdOpt /\ faults' \in 0..MaxFaults
      BY <1>0, <1>1, <1>a, OrderFields DEF SaveId, Write, SavePcs, IdOpt, TypeOK
    <2>2. pc' \in Pcs /\ torn' \in BOOLEAN
      BY <1>1 DEF SaveId, Pcs, SavePcs, TypeOK
    <2>3. QED
      BY <1>1, <2>1, <2>2 DEF SaveId, TypeOK
  <1>2. CASE SaveVersion
    <2>1. pend_version' \in 0..MaxVersion /\ faults' \in 0..MaxFaults
      BY <1>0, <1>2, <1>a, OrderFields DEF SaveVersion, Write, PendingVersion,
         SavePcs, TypeOK
    <2>2. pc' \in Pcs /\ torn' \in BOOLEAN
      BY <1>2 DEF SaveVersion, Pcs, SavePcs, TypeOK
    <2>3. QED
      BY <1>2, <2>1, <2>2 DEF SaveVersion, TypeOK
  <1>3. CASE SaveDeadline
    <2>1. ota_state' \in OtaStates /\ nvs_ota_state' \in OtaStates
      BY <1>3 DEF SaveDeadline, SetOtaState, OtaStates
    <2>2. pc' \in Pcs /\ torn' \in BOOLEAN
      BY <1>3 DEF SaveDeadline, Pcs, SavePcs, TypeOK
    <2>3. /\ pend_deadline' \in NoDeadline..(RollbackDeadline + 1)
          /\ faults' \in 0..MaxFaults
      BY <1>3, <1>a, BoundFacts DEF SaveDeadline, Write, TypeOK
    <2>4. QED
      BY <1>3, <2>1, <2>2, <2>3, BoundFacts DEF SaveDeadline, TypeOK
  <1>4. CASE Restart
    <2>1. st \in [Slots -> SlotStates] /\ boot \in Slots
      BY DEF TypeOK
    <2>2. RamReset /\ Bootloader(st, boot)
      BY <1>4 DEF Restart
    <2>3. QED
      BY <1>4, <2>1, <2>2, ResetTypes DEF Restart, TypeOK
  <1>5. QED
    BY <1>1, <1>2, <1>3, <1>4 DEF SaveStep

(* So do the writes that end a trial.                                      *)
LEMMA ConfirmStepTypes ==
    ASSUME TypeOK, ConfirmStep \/ ConfirmAccepted
    PROVE  TypeOK'
  <1> USE DEF flashVars, firmVars, pendVars, nvsVars, sinkVars, mqttVars,
              ramVars, envVars, worldVars, histVars
  <1>0. {"commit", "set_last", "mark_valid", "clear", "clear_rest", "loop",
         "expire_rest", "mark_invalid"} \subseteq Pcs
    BY DEF Pcs
  <1>a. /\ faults \in 0..MaxFaults
        /\ faults < MaxFaults => faults + 1 \in 0..MaxFaults
    BY BoundFacts DEF TypeOK
  <1>1. CASE ConfirmNoPending
    BY <1>1 DEF ConfirmNoPending, TypeOK, DeviceStates
  <1>2. CASE ConfirmExpired \/ ConfirmClearId
    <2>1. pend_id' \in IdOpt /\ faults' \in 0..MaxFaults
      BY <1>2, EraseTypes DEF ConfirmExpired, ConfirmClearId
    <2>2. pc' \in Pcs /\ torn' \in BOOLEAN
      BY <1>0, <1>2 DEF ConfirmExpired, ConfirmClearId, TypeOK
    <2>3. QED
      BY <1>2, <2>1, <2>2 DEF ConfirmExpired, ConfirmClearId, TypeOK
  <1>3. CASE ExpireClearRest
    BY <1>0, <1>3, EraseTypes DEF ExpireClearRest, TypeOK
  <1>4. CASE MarkInvalidAndReboot
    <2> DEFINE newSt == [st EXCEPT ![running] = "invalid"]
    <2>1. newSt \in [Slots -> SlotStates] /\ Other(running) \in Slots
      BY DEF TypeOK, SlotStates, Slots, Other
    <2>2. RamReset /\ Bootloader(newSt, Other(running))
      BY <1>4 DEF MarkInvalidAndReboot
    <2> HIDE DEF newSt
    <2>3. QED
      BY <1>4, <2>1, <2>2, ResetTypes DEF MarkInvalidAndReboot, TypeOK
  <1>5. CASE MarkInvalidFails
    BY <1>0, <1>5 DEF MarkInvalidFails, TypeOK
  <1>6. CASE ConfirmAccepted
    BY <1>0, <1>6 DEF ConfirmAccepted, TypeOK
  <1>7. CASE CommitFirmware
    <2>1. fw_version' \in 0..MaxVersion /\ faults' \in 0..MaxFaults
      BY <1>a, <1>7 DEF CommitFirmware, Committed, Write, TypeOK
    <2>2. torn' \in BOOLEAN
      BY <1>7 DEF CommitFirmware, TypeOK
    <2>3. QED
      BY <1>0, <1>7, <2>1, <2>2 DEF CommitFirmware, TypeOK
  <1>8. CASE SetLastUpdateId
    BY <1>0, <1>a, <1>8 DEF SetLastUpdateId, Write, TypeOK
  <1>9. CASE MarkValid
    <2>1. st' \in [Slots -> SlotStates] /\ faults' \in 0..MaxFaults
      BY <1>a, <1>9 DEF MarkValid, Write, TypeOK, SlotStates
    <2>2. torn' \in BOOLEAN
      BY <1>9 DEF MarkValid, TypeOK
    <2>3. QED
      BY <1>0, <1>9, <2>1, <2>2 DEF MarkValid, TypeOK
  <1>10. CASE ConfirmDone
    <2>1. ota_state' \in OtaStates /\ nvs_ota_state' \in OtaStates
             /\ state' \in DeviceStates
      BY <1>10 DEF ConfirmDone, SetOtaState, OtaStates, DeviceStates
    <2>2. QED
      BY <1>0, <1>10, <2>1, EraseTypes DEF ConfirmDone, TypeOK
  <1>11. QED
    BY <1>1, <1>2, <1>3, <1>4, <1>5, <1>6, <1>7, <1>8, <1>9, <1>10
    DEF ConfirmStep

(* Every step of the specification keeps the types.                        *)
LEMMA TypeNext ==
    ASSUME TypeOK, ControlInv, [Next]_vars
    PROVE  TypeOK'
  <1> USE DEF flashVars, firmVars, pendVars, nvsVars, sinkVars, mqttVars,
              ramVars, envVars, worldVars, histVars
  <1>0. {"loop", "begin_rest", "ingest", "ota"} \subseteq Pcs
    BY DEF Pcs
  <1>1. CASE Begin
    <2>1. state' \in DeviceStates /\ ota_state' \in OtaStates /\ pc' \in Pcs
      BY <1>0, <1>1 DEF Begin, DeviceStates, OtaStates, TypeOK
    <2>2. pend_id' \in IdOpt /\ faults' \in 0..MaxFaults
      BY <1>1, EraseTypes DEF Begin, TypeOK
    <2>3. guard_bypassed' \in BOOLEAN
      BY <1>1 DEF Begin, GuardBypassed, TypeOK
    <2>4. QED
      BY <1>1, <2>1, <2>2, <2>3 DEF Begin, TypeOK
  <1>2. CASE BeginClearRest
    BY <1>0, <1>2, EraseTypes DEF BeginClearRest, TypeOK
  <1>3. CASE MqttStep
    BY <1>0, <1>3 DEF MqttStep, TypeOK
  <1>4. CASE HandleOrder
    <2>1. Head(inbox) \in Orders /\ Tail(inbox) \in Seq(Orders)
      BY <1>4 DEF HandleOrder, TypeOK
    <2>2. order' \in OrderOpt /\ inbox' \in Seq(Orders)
      BY <1>4, <2>1 DEF HandleOrder, AcceptOrder, OrderOpt, TypeOK
    <2>3. state' \in DeviceStates
      BY <1>4 DEF HandleOrder, AcceptOrder, DeviceStates, TypeOK
    <2>4. ota_state' \in OtaStates /\ nvs_ota_state' \in OtaStates
      BY <1>4 DEF HandleOrder, SetOtaState, OtaStates, TypeOK
    <2>5. QED
      BY <1>4, <2>2, <2>3, <2>4 DEF HandleOrder, TypeOK
  <1>5. CASE IngestDone
    BY <1>0, <1>5 DEF IngestDone, TypeOK
  <1>6. CASE OtaStep
    BY <1>6, OtaStepTypes
  <1>7. CASE SaveStep
    BY <1>7, SaveStepTypes
  <1>8. CASE ConfirmStep \/ ConfirmAccepted
    BY <1>8, ConfirmStepTypes
  <1>9. CASE ServerPublish
    BY <1>9 DEF ServerPublish, TypeOK, OrderOpt
  <1>10. CASE Deliver
    <2>1. retained \in Orders
      BY <1>10 DEF Deliver, TypeOK, OrderOpt
    <2>2. inbox' \in Seq(Orders)
      BY <1>10, <2>1 DEF Deliver, TypeOK
    <2>3. QED
      BY <1>10, <2>2 DEF Deliver, TypeOK
  <1>11. CASE LinkChange \/ ClockSync
    BY ZenonT(60), <1>11 DEF LinkChange, ClockSync, TypeOK
  <1>12. CASE Tick
    <2>1. timer' \in 0..MaxTimer /\ age' \in 0..(RollbackDeadline + 1)
      BY <1>12, BoundFacts DEF Tick, TypeOK
    <2>2. pend_deadline' \in NoDeadline..(RollbackDeadline + 1)
      BY <1>12, BoundFacts DEF Tick, TypeOK, NoDeadline
    <2>3. QED
      BY <1>12, <2>1, <2>2 DEF Tick, TypeOK
  <1>13. CASE Reset
    <2>1. st \in [Slots -> SlotStates] /\ boot \in Slots
      BY DEF TypeOK
    <2>2. RamReset /\ Bootloader(st, boot)
      BY <1>13 DEF Reset
    <2>3. faults' \in 0..MaxFaults /\ synced' \in BOOLEAN /\ torn' \in BOOLEAN
      BY <1>13, BoundFacts DEF Reset, TypeOK
    <2>4. QED
      BY <1>13, <2>1, <2>2, <2>3, ResetTypes DEF Reset, TypeOK
  <1>14. CASE UNCHANGED vars
    BY <1>14 DEF vars, TypeOK
  <1>15. QED
    BY <1>1, <1>2, <1>3, <1>4, <1>5, <1>6, <1>7, <1>8, <1>9, <1>10, <1>11,
       <1>12, <1>13, <1>14 DEF Next, LoopTask, Environment

-----------------------------------------------------------------------------
(* The other parts of the inductive invariant.                             *)

(* Device states follow the places of the loop task.                       *)
LEMMA ControlNext ==
    ASSUME IInv, [Next]_vars
    PROVE  ControlInv'
  <1> USE DEF flashVars, firmVars, pendVars, nvsVars, sinkVars, mqttVars,
              ramVars, envVars, worldVars, histVars, IInv, ControlInv, Updating,
              SavePcs
  <1>1. CASE Begin
    BY <1>1 DEF Begin
  <1>2. CASE BeginClearRest
    BY <1>2 DEF BeginClearRest, EraseRest
  <1>3. CASE MqttStep \/ IngestDone \/ OtaIdle
    BY <1>3 DEF MqttStep, IngestDone, OtaIdle
  <1>4. CASE HandleOrder
    <2>1. Head(inbox) \in Orders
      BY <1>4 DEF HandleOrder, TypeOK
    <2>2. QED
      BY <1>4, <2>1 DEF HandleOrder, AcceptOrder
  <1>5. CASE OtaEvaluate \/ OtaAwaitButton
    BY <1>5 DEF OtaEvaluate, StartDownload, SinkCanOpen, FailOta,
       FailAfterPause, PauseMqttForOta, SinkAbort, SetOtaState,
       OtaAwaitButton
  <1>6. CASE OtaPump
    BY <1>6 DEF OtaPump, PumpChunk, PumpEof, PumpWouldBlock, PumpFails,
       FailOta, SinkAbort, SetOtaState
  <1>7. CASE OtaApply
    BY <1>7 DEF OtaApply
  <1>8. CASE OtaVerifyFails
    BY <1>8 DEF OtaVerifyFails, FailOta, SinkAbort, SetOtaState
  <1>9. CASE SaveId \/ SaveVersion \/ SaveDeadline
    BY <1>9 DEF SaveId, SaveVersion, SaveDeadline, SetOtaState
  <1>10. CASE Restart
    BY <1>10 DEF Restart, RamReset
  <1>11. CASE ConfirmNoPending \/ ConfirmExpired \/ ConfirmAccepted
    BY <1>11 DEF ConfirmNoPending, Confirming, ConfirmExpired,
       ConfirmAccepted
  <1>12. CASE ExpireClearRest \/ MarkInvalidFails
    BY <1>12 DEF ExpireClearRest, EraseRest, MarkInvalidFails
  <1>13. CASE MarkInvalidAndReboot
    BY <1>13 DEF MarkInvalidAndReboot, RamReset
  <1>14. CASE CommitFirmware \/ SetLastUpdateId \/ ConfirmClearId
    BY <1>14 DEF CommitFirmware, SetLastUpdateId, ConfirmClearId
  <1>15. CASE MarkValid
    BY <1>15 DEF MarkValid
  <1>16. CASE ConfirmDone
    BY <1>16 DEF ConfirmDone, EraseRest, SetOtaState
  <1>17. CASE ServerPublish \/ Deliver \/ LinkChange \/ ClockSync \/ Tick
    BY <1>17 DEF ServerPublish, Deliver, LinkChange, ClockSync, Tick
  <1>18. CASE Reset
    BY <1>18 DEF Reset, RamReset
  <1>19. CASE UNCHANGED vars
    BY <1>19 DEF vars
  <1>20. QED
    BY <1>1, <1>2, <1>3, <1>4, <1>5, <1>6, <1>7, <1>8, <1>9, <1>10, <1>11,
       <1>12, <1>13, <1>14, <1>15, <1>16, <1>17, <1>18, <1>19 DEF Next,
       LoopTask, OtaStep, SaveStep, ConfirmStep, Environment

(* The bootloader starts the selected slot, or gives up a trial that was   *)
(* reset and starts the other one.                                         *)
LEMMA BootloaderPicks ==
    ASSUME NEW newSt \in [Slots -> SlotStates], NEW sel \in Slots,
           Bootloader(newSt, sel),
           newSt[sel] \in {"undefined", "valid", "new", "pending_verify"},
           newSt[sel] \in {"new", "pending_verify"} =>
              newSt[Other(sel)] \in {"undefined", "valid"}
    PROVE  /\ boot' = running'
           /\ st'[running'] \in {"undefined", "valid", "pending_verify"}
           /\ st'[running'] = "pending_verify" =>
                 /\ running' = sel /\ newSt[sel] = "new"
                 /\ st'[Other(running')] \in {"undefined", "valid"}
           /\ running' = sel \/ (running' = Other(sel)
                                   /\ newSt[sel] = "pending_verify")
  <1>1. Other(sel) \in Slots /\ Other(sel) # sel
    BY DEF Other, Slots
  <1>2. QED
    BY <1>1 DEF Bootloader, SlotStates

(* A reset anywhere, with nothing written in between, finds FlashInv again.*)
LEMMA RebootKeepsFlashInv ==
    ASSUME IInv, RamReset, Bootloader(st, boot), img' = img
    PROVE  FlashInv'
  <1> USE DEF IInv
  <1>1. /\ running \in Slots /\ boot \in Slots
        /\ boot = running \/ boot = Other(running)
        /\ Other(Other(running)) = running
    BY DEF TypeOK, FlashInv, Slots, Other
  <1>2. st \in [Slots -> SlotStates]
    BY DEF TypeOK
  <1>3. /\ img[boot] # 0
        /\ st[boot] \in {"undefined", "valid", "new", "pending_verify"}
        /\ st[boot] \in {"new", "pending_verify"} =>
              /\ img[Other(boot)] # 0
              /\ st[Other(boot)] \in {"undefined", "valid"}
    <2>1. CASE pc \in SavePcs
      <3>1. order \in Orders
        BY <2>1 DEF ControlInv, Updating
      <3>2. QED
        BY <1>1, <2>1, <3>1, OrderFields DEF FlashInv, PendingVerify
    <2>2. CASE pc \notin SavePcs
      BY <1>1, <2>2 DEF FlashInv, PendingVerify
    <2>3. QED
      BY <2>1, <2>2
  <1>4. /\ boot' = running'
        /\ st'[running'] \in {"undefined", "valid", "pending_verify"}
        /\ st'[running'] = "pending_verify" =>
              /\ running' = boot /\ st[boot] = "new"
              /\ st'[Other(running')] \in {"undefined", "valid"}
        /\ running' = boot \/ (running' = Other(boot)
                                /\ st[boot] = "pending_verify")
    BY <1>1, <1>2, <1>3, BootloaderPicks
  <1>5. pc' \notin SavePcs /\ state' # "Confirming" /\ sink_open' = FALSE
    BY DEF RamReset, SavePcs
  <1>6. QED
    BY <1>3, <1>4, <1>5 DEF FlashInv, PendingVerify

(* Flash: every reset finds something to boot.                             *)
LEMMA FlashNext ==
    ASSUME IInv, [Next]_vars
    PROVE  FlashInv'
  <1> USE DEF flashVars, firmVars, pendVars, nvsVars, sinkVars, mqttVars,
              ramVars, envVars, worldVars, histVars, IInv, FlashInv
  <1>1. CASE Begin
    BY <1>1 DEF Begin, PendingVerify, SavePcs, ControlInv
  <1>2. CASE BeginClearRest
    BY <1>2 DEF BeginClearRest, EraseRest, PendingVerify, SavePcs,
       ControlInv
  <1>3. CASE MqttStep \/ IngestDone \/ OtaIdle
    BY <1>3 DEF MqttStep, PendingVerify, SavePcs, ControlInv, IngestDone,
       OtaIdle
  <1>4. CASE HandleOrder
    BY <1>4 DEF HandleOrder, AcceptOrder, SetOtaState, PendingVerify,
       SavePcs, ControlInv
  <1>5. CASE OtaEvaluate \/ OtaAwaitButton
    BY <1>5 DEF OtaEvaluate, StartDownload, SinkCanOpen, FailOta,
       FailAfterPause, PauseMqttForOta, SinkAbort, SetOtaState,
       PendingVerify, SavePcs, ControlInv, OtaAwaitButton
  <1>6. CASE OtaPump
    <2>1. pc # "save_id" /\ pc \notin SavePcs /\ pc' \notin SavePcs
      BY <1>6 DEF OtaPump, SavePcs
    <2>2. CASE PumpChunk
      <3>1. sink_open /\ ~PendingVerify
        BY <1>6 DEF OtaPump, SinkInv
      <3>2. img'[running] = img[running]
        BY <2>2 DEF PumpChunk, TypeOK, Slots, Other
      <3>3. QED
        BY <1>6, <2>1, <2>2, <3>1, <3>2 DEF OtaPump, PumpChunk, PendingVerify
    <2>3. CASE PumpEof \/ PumpWouldBlock \/ PumpFails
      BY <1>6, <2>1, <2>3 DEF OtaPump, PumpEof, PumpWouldBlock, PumpFails,
         FailOta, SinkAbort, PendingVerify
    <2>4. QED
      BY <1>6, <2>2, <2>3 DEF OtaPump
  <1>7. CASE OtaApply
    <2>1. order \in Orders /\ content = order /\ written = order.size
      BY <1>7 DEF OtaApply, DigestMatches, ControlInv, Updating
    <2>2. FlashedVersion = order.target_version
      BY <2>1 DEF FlashedVersion
    <2>3. pc \notin SavePcs /\ pc' \in SavePcs
      BY <1>7 DEF OtaApply, SavePcs
    <2>4. sink_open /\ ~PendingVerify
      BY <1>7, <2>3 DEF OtaApply, SinkInv
    <2>5. running \in Slots /\ Other(running) \in Slots
             /\ Other(running) # running
      BY DEF TypeOK, Slots, Other
    <2>6. /\ img'[Other(running)] = order.target_version
          /\ img'[running] = img[running]
          /\ st'[Other(running)] = "new" /\ st'[running] = st[running]
          /\ boot' = Other(running) /\ running' = running
          /\ state' = "Verifying" /\ order' = order
      BY <1>7, <2>2, <2>5 DEF OtaApply, TypeOK
    <2>7. QED
      BY <2>3, <2>4, <2>6 DEF PendingVerify
  <1>8. CASE OtaVerifyFails
    BY <1>8 DEF OtaVerifyFails, FailOta, SinkAbort, SetOtaState,
       PendingVerify, SavePcs, ControlInv
  <1>9. CASE SaveId \/ SaveVersion \/ SaveDeadline
    BY <1>9 DEF SaveId, PendingVerify, SavePcs, ControlInv, SaveVersion,
       SaveDeadline, SetOtaState
  <1>10. CASE Restart
    <2>1. RamReset /\ Bootloader(st, boot) /\ img' = img
      BY <1>10 DEF Restart
    <2>2. QED
      BY <2>1, RebootKeepsFlashInv
  <1>11. CASE ConfirmNoPending \/ ConfirmExpired \/ ConfirmAccepted
    BY <1>11 DEF ConfirmNoPending, Confirming, PendingVerify, SavePcs,
       ControlInv, ConfirmExpired, ConfirmAccepted
  <1>12. CASE ExpireClearRest \/ MarkInvalidFails
    BY <1>12 DEF ExpireClearRest, EraseRest, PendingVerify, SavePcs,
       ControlInv, MarkInvalidFails
  <1>13. CASE MarkInvalidAndReboot
    <2> DEFINE newSt == [st EXCEPT ![running] = "invalid"]
    <2>1. PendingVerify
      BY <1>13 DEF MarkInvalidAndReboot, ControlInv
    <2>2. newSt \in [Slots -> SlotStates] /\ Other(running) \in Slots
             /\ newSt[Other(running)] = st[Other(running)]
      BY DEF TypeOK, SlotStates, Slots, Other
    <2>3. Bootloader(newSt, Other(running)) /\ RamReset /\ img' = img
      BY <1>13 DEF MarkInvalidAndReboot
    <2> HIDE DEF newSt
    <2>4. /\ boot' = running' /\ running' = Other(running)
          /\ st'[running'] \in {"undefined", "valid"}
      BY <2>1, <2>2, <2>3, BootloaderPicks
    <2>5. pc' \notin SavePcs /\ state' # "Confirming"
      BY <2>3 DEF RamReset, SavePcs
    <2>6. QED
      BY <2>1, <2>3, <2>4, <2>5 DEF PendingVerify
  <1>14. CASE CommitFirmware \/ SetLastUpdateId \/ ConfirmClearId
    BY <1>14 DEF CommitFirmware, PendingVerify, SavePcs, ControlInv,
       SetLastUpdateId, ConfirmClearId
  <1>15. CASE MarkValid
    <2>1. /\ st'[running] = "valid" \/ st' = st
          /\ pc' = "clear" /\ pc \notin SavePcs
      BY <1>15 DEF MarkValid, Write, TypeOK, SavePcs
    <2>2. QED
      BY <1>15, <2>1 DEF MarkValid, PendingVerify, SavePcs
  <1>16. CASE ConfirmDone
    BY <1>16 DEF ConfirmDone, EraseRest, SetOtaState, PendingVerify,
       SavePcs, ControlInv
  <1>17. CASE ServerPublish \/ Deliver \/ LinkChange \/ ClockSync \/ Tick
    BY <1>17 DEF ServerPublish, PendingVerify, SavePcs, ControlInv,
       Deliver, LinkChange, ClockSync, Tick
  <1>18. CASE Reset
    <2>1. RamReset /\ Bootloader(st, boot) /\ img' = img
      BY <1>18 DEF Reset
    <2>2. QED
      BY <2>1, RebootKeepsFlashInv
  <1>19. CASE UNCHANGED vars
    BY <1>19 DEF vars, PendingVerify
  <1>20. QED
    BY <1>1, <1>2, <1>3, <1>4, <1>5, <1>6, <1>7, <1>8, <1>9, <1>10, <1>11,
       <1>12, <1>13, <1>14, <1>15, <1>16, <1>17, <1>18, <1>19 DEF Next,
       LoopTask, OtaStep, SaveStep, ConfirmStep, Environment

(* Sink and stream follow the order.                                       *)
LEMMA SinkNext ==
    ASSUME IInv, [Next]_vars
    PROVE  SinkInv'
  <1> USE DEF flashVars, firmVars, pendVars, nvsVars, sinkVars, mqttVars,
              ramVars, envVars, worldVars, histVars, IInv, SinkInv
  <1>1. CASE Begin
    BY <1>1 DEF Begin, SavePcs, ControlInv
  <1>2. CASE BeginClearRest
    BY <1>2 DEF BeginClearRest, EraseRest, SavePcs, ControlInv
  <1>3. CASE MqttStep \/ IngestDone \/ OtaIdle
    BY <1>3 DEF MqttStep, SavePcs, ControlInv, IngestDone, OtaIdle
  <1>4. CASE HandleOrder
    BY <1>4 DEF HandleOrder, AcceptOrder, SetOtaState, SavePcs, ControlInv
  <1>5. CASE OtaEvaluate \/ OtaAwaitButton
    BY <1>5 DEF OtaEvaluate, StartDownload, SinkCanOpen, FailOta,
       FailAfterPause, PauseMqttForOta, SinkAbort, SetOtaState, SavePcs,
       ControlInv, OtaAwaitButton
  <1>6. CASE OtaPump
    BY <1>6 DEF OtaPump, PumpChunk, PumpEof, PumpWouldBlock, PumpFails,
       FailOta, SinkAbort, SetOtaState, SavePcs, ControlInv
  <1>7. CASE OtaApply
    BY <1>7 DEF OtaApply, SavePcs, ControlInv
  <1>8. CASE OtaVerifyFails
    BY <1>8 DEF OtaVerifyFails, FailOta, SinkAbort, SetOtaState, SavePcs,
       ControlInv
  <1>9. CASE SaveId \/ SaveVersion \/ SaveDeadline
    BY <1>9 DEF SaveId, SavePcs, ControlInv, SaveVersion, SaveDeadline,
       SetOtaState
  <1>10. CASE Restart
    BY <1>10 DEF Restart, RamReset, SavePcs, ControlInv
  <1>11. CASE ConfirmNoPending \/ ConfirmExpired \/ ConfirmAccepted
    BY <1>11 DEF ConfirmNoPending, Confirming, SavePcs, ControlInv,
       ConfirmExpired, ConfirmAccepted
  <1>12. CASE ExpireClearRest \/ MarkInvalidFails
    BY <1>12 DEF ExpireClearRest, EraseRest, SavePcs, ControlInv,
       MarkInvalidFails
  <1>13. CASE MarkInvalidAndReboot
    BY <1>13 DEF MarkInvalidAndReboot, RamReset, SavePcs, ControlInv
  <1>14. CASE CommitFirmware \/ SetLastUpdateId \/ ConfirmClearId
    BY <1>14 DEF CommitFirmware, SavePcs, ControlInv, SetLastUpdateId,
       ConfirmClearId
  <1>15. CASE MarkValid
    BY <1>15 DEF MarkValid, SavePcs, ControlInv
  <1>16. CASE ConfirmDone
    BY <1>16 DEF ConfirmDone, EraseRest, SetOtaState, SavePcs, ControlInv
  <1>17. CASE ServerPublish \/ Deliver \/ LinkChange \/ ClockSync \/ Tick
    BY <1>17 DEF ServerPublish, SavePcs, ControlInv, Deliver, LinkChange,
       ClockSync, Tick
  <1>18. CASE Reset
    BY <1>18 DEF Reset, RamReset, SavePcs, ControlInv
  <1>19. CASE UNCHANGED vars
    BY <1>19 DEF vars
  <1>20. QED
    BY <1>1, <1>2, <1>3, <1>4, <1>5, <1>6, <1>7, <1>8, <1>9, <1>10, <1>11,
       <1>12, <1>13, <1>14, <1>15, <1>16, <1>17, <1>18, <1>19 DEF Next,
       LoopTask, OtaStep, SaveStep, ConfirmStep, Environment

(* Nothing ends a trial before the server's answer.                        *)
LEMMA AckNext ==
    ASSUME IInv, [Next]_vars
    PROVE  AckInv'
  <1> USE DEF flashVars, firmVars, pendVars, nvsVars, sinkVars, mqttVars,
              ramVars, envVars, worldVars, histVars, IInv, AckInv
  <1>1. CASE Begin
    BY <1>1 DEF Begin
  <1>2. CASE BeginClearRest
    BY <1>2 DEF BeginClearRest, EraseRest
  <1>3. CASE MqttStep \/ IngestDone \/ OtaIdle
    BY <1>3 DEF MqttStep, IngestDone, OtaIdle
  <1>4. CASE HandleOrder
    BY <1>4 DEF HandleOrder, AcceptOrder, SetOtaState
  <1>5. CASE OtaEvaluate \/ OtaAwaitButton
    BY <1>5 DEF OtaEvaluate, StartDownload, SinkCanOpen, FailOta,
       FailAfterPause, PauseMqttForOta, SinkAbort, SetOtaState,
       OtaAwaitButton
  <1>6. CASE OtaPump
    BY <1>6 DEF OtaPump, PumpChunk, PumpEof, PumpWouldBlock, PumpFails,
       FailOta, SinkAbort, SetOtaState
  <1>7. CASE OtaApply
    BY <1>7 DEF OtaApply
  <1>8. CASE OtaVerifyFails
    BY <1>8 DEF OtaVerifyFails, FailOta, SinkAbort, SetOtaState
  <1>9. CASE SaveId \/ SaveVersion \/ SaveDeadline
    BY <1>9 DEF SaveId, SaveVersion, SaveDeadline, SetOtaState
  <1>10. CASE Restart
    BY <1>10 DEF Restart, RamReset
  <1>11. CASE ConfirmNoPending \/ ConfirmExpired \/ ConfirmAccepted
    BY <1>11 DEF ConfirmNoPending, Confirming, ConfirmExpired,
       ConfirmAccepted
  <1>12. CASE ExpireClearRest \/ MarkInvalidFails
    BY <1>12 DEF ExpireClearRest, EraseRest, MarkInvalidFails
  <1>13. CASE MarkInvalidAndReboot
    BY <1>13 DEF MarkInvalidAndReboot, RamReset
  <1>14. CASE CommitFirmware \/ SetLastUpdateId \/ ConfirmClearId
    BY <1>14 DEF CommitFirmware, SetLastUpdateId, ConfirmClearId
  <1>15. CASE MarkValid
    BY <1>15 DEF MarkValid
  <1>16. CASE ConfirmDone
    BY <1>16 DEF ConfirmDone, EraseRest, SetOtaState
  <1>17. CASE ServerPublish \/ Deliver \/ LinkChange \/ ClockSync \/ Tick
    BY <1>17 DEF ServerPublish, Deliver, LinkChange, ClockSync, Tick
  <1>18. CASE Reset
    BY <1>18 DEF Reset, RamReset
  <1>19. CASE UNCHANGED vars
    BY <1>19 DEF vars
  <1>20. QED
    BY <1>1, <1>2, <1>3, <1>4, <1>5, <1>6, <1>7, <1>8, <1>9, <1>10, <1>11,
       <1>12, <1>13, <1>14, <1>15, <1>16, <1>17, <1>18, <1>19 DEF Next,
       LoopTask, OtaStep, SaveStep, ConfirmStep, Environment

(* Versions on record only grow.                                           *)
LEMMA RecordNext ==
    ASSUME IInv, [Next]_vars
    PROVE  RecordInv'
  <1> USE DEF flashVars, firmVars, pendVars, nvsVars, sinkVars, mqttVars,
              ramVars, envVars, worldVars, histVars, IInv, RecordInv
  <1>1. CASE Begin
    BY <1>1 DEF Begin, CurrentVersion, Updating, ControlInv
  <1>2. CASE BeginClearRest
    BY <1>2 DEF BeginClearRest, EraseRest, CurrentVersion, Updating,
       ControlInv
  <1>3. CASE MqttStep \/ IngestDone \/ OtaIdle
    BY <1>3 DEF MqttStep, CurrentVersion, Updating, ControlInv,
       IngestDone, OtaIdle
  <1>4. CASE HandleOrder
    <2>1. Head(inbox) \in Orders
      BY <1>4 DEF HandleOrder, TypeOK
    <2>2. Head(inbox).target_version \in Nat /\ CurrentVersion \in Nat
      BY <2>1, OrderFields, BoundFacts DEF Versions, TypeOK, CurrentVersion
    <2>3. Valid(Head(inbox)) /\ ~AllowDowngrade =>
             Head(inbox).target_version > CurrentVersion
      BY <2>2 DEF Valid, SilentlyRefused, SameVersion, Downgrade
    <2>4. CurrentVersion' = CurrentVersion /\ UNCHANGED <<pend_version, fw_version>>
      BY <1>4 DEF HandleOrder, CurrentVersion
    <2>5. QED
      BY <1>4, <2>3, <2>4 DEF HandleOrder, AcceptOrder, Updating
  <1>5. CASE OtaEvaluate \/ OtaAwaitButton
    BY <1>5 DEF OtaEvaluate, StartDownload, SinkCanOpen, FailOta,
       FailAfterPause, PauseMqttForOta, SinkAbort, SetOtaState,
       CurrentVersion, Updating, ControlInv, OtaAwaitButton
  <1>6. CASE OtaPump
    <2>1. img'[running] = img[running] /\ fw_version' = fw_version
             /\ running' = running
      BY <1>6 DEF OtaPump, PumpChunk, PumpEof, PumpWouldBlock, PumpFails,
         TypeOK, Slots, Other
    <2>2. CurrentVersion' = CurrentVersion
      BY <2>1 DEF CurrentVersion
    <2>3. QED
      BY <1>6, <2>2 DEF OtaPump, PumpChunk, PumpEof, PumpWouldBlock,
         PumpFails, FailOta, Updating
  <1>7. CASE OtaApply
    <2>1. img'[running] = img[running] /\ fw_version' = fw_version
             /\ running' = running
      BY <1>7 DEF OtaApply, TypeOK, Slots, Other
    <2>2. CurrentVersion' = CurrentVersion
      BY <2>1 DEF CurrentVersion
    <2>3. QED
      BY <1>7, <2>2 DEF OtaApply, Updating
  <1>8. CASE OtaVerifyFails
    BY <1>8 DEF OtaVerifyFails, FailOta, SinkAbort, SetOtaState,
       CurrentVersion, Updating, ControlInv
  <1>9. CASE SaveId \/ SaveDeadline
    BY <1>9 DEF SaveId, CurrentVersion, Updating, ControlInv,
       SaveDeadline, SetOtaState
  <1>10. CASE SaveVersion
    <2>1. state = "Verifying" /\ order \in Orders
      BY <1>10 DEF SaveVersion, SavePcs, ControlInv, Updating
    <2>2. order.target_version \in Nat /\ fw_version \in Nat
      BY <2>1, OrderFields, BoundFacts DEF Versions, TypeOK
    <2>3. ~AllowDowngrade => order.target_version >= fw_version
      BY <2>1, <2>2 DEF CurrentVersion, Updating
    <2>4. CurrentVersion' = CurrentVersion
      BY <1>10 DEF SaveVersion, CurrentVersion
    <2>5. QED
      BY <1>10, <2>1, <2>3, <2>4 DEF SaveVersion, Write, PendingVersion
  <1>11. CASE Restart
    BY <1>11 DEF Restart, RamReset, CurrentVersion, Updating, ControlInv
  <1>12. CASE ConfirmNoPending \/ ConfirmExpired \/ ConfirmAccepted
    BY <1>12 DEF ConfirmNoPending, Confirming, CurrentVersion, Updating,
       ControlInv, ConfirmExpired, ConfirmAccepted
  <1>13. CASE ExpireClearRest \/ MarkInvalidFails
    BY <1>13 DEF ExpireClearRest, EraseRest, CurrentVersion, Updating,
       ControlInv, MarkInvalidFails
  <1>14. CASE MarkInvalidAndReboot
    BY <1>14 DEF MarkInvalidAndReboot, RamReset, CurrentVersion, Updating,
       ControlInv
  <1>15. CASE CommitFirmware
    <2>1. state' = "Confirming" /\ pend_version \in Nat
             /\ fw_version \in Nat
      BY <1>15, BoundFacts DEF CommitFirmware, ControlInv, TypeOK
    <2>2. QED
      BY <1>15, <2>1 DEF CommitFirmware, Committed, Write, Updating
  <1>16. CASE SetLastUpdateId \/ ConfirmClearId
    BY <1>16 DEF SetLastUpdateId, CurrentVersion, Updating, ControlInv,
       ConfirmClearId
  <1>17. CASE MarkValid
    BY <1>17 DEF MarkValid, CurrentVersion, Updating, ControlInv
  <1>18. CASE ConfirmDone
    BY <1>18 DEF ConfirmDone, EraseRest, SetOtaState, CurrentVersion,
       Updating, ControlInv
  <1>19. CASE ServerPublish \/ Deliver \/ LinkChange \/ ClockSync \/ Tick
    BY <1>19 DEF ServerPublish, CurrentVersion, Updating, ControlInv,
       Deliver, LinkChange, ClockSync, Tick
  <1>20. CASE Reset
    BY <1>20 DEF Reset, RamReset, CurrentVersion, Updating, ControlInv
  <1>21. CASE UNCHANGED vars
    BY <1>21 DEF vars, CurrentVersion
  <1>22. QED
    BY <1>1, <1>2, <1>3, <1>4, <1>5, <1>6, <1>7, <1>8, <1>9, <1>10, <1>11,
       <1>12, <1>13, <1>14, <1>15, <1>16, <1>17, <1>18, <1>19, <1>20,
       <1>21 DEF Next, LoopTask, OtaStep, SaveStep, ConfirmStep,
       Environment

-----------------------------------------------------------------------------
(* The theorems.                                                           *)

(* So does the whole invariant.                                            *)
LEMMA IInvInit == Init => IInv
  <1> SUFFICES ASSUME Init PROVE IInv
    OBVIOUS
  <1>1. TypeOK
    BY TypeInit
  <1>2. ControlInv /\ SinkInv /\ AckInv
    BY DEF Init, ControlInv, SinkInv, AckInv, Updating, SavePcs
  <1>3. FlashInv
    BY DEF Init, FlashInv, PendingVerify, SavePcs, Slots
  <1>4. RecordInv
    BY DEF Init, RecordInv, Updating
  <1>5. QED
    BY <1>1, <1>2, <1>3, <1>4 DEF IInv

(* Every step keeps the inductive invariant.                               *)
LEMMA IInvNext == IInv /\ [Next]_vars => IInv'
  BY TypeNext, ControlNext, FlashNext, SinkNext, AckNext, RecordNext DEF IInv

(* IInv is an invariant.                                                   *)
THEOREM Inductive == Spec => []IInv
  BY IInvInit, IInvNext, PTL DEF Spec

(* Every variable keeps its type.                                          *)
THEOREM TypeCorrect == Spec => []TypeOK
  <1>1. IInv => TypeOK
    BY DEF IInv
  <1>2. QED
    BY <1>1, Inductive, PTL

(* The unit cannot be bricked: whatever the orders, the network, the       *)
(* resets and the failing writes, the bootloader finds a verified image to *)
(* start, and one to fall back to during a trial.                          *)
THEOREM NeverBricked == Spec => []AlwaysBootable
  <1>1. IInv => AlwaysBootable
    <2> SUFFICES ASSUME IInv PROVE AlwaysBootable
      OBVIOUS
    <2>1. Other(Other(running)) = running
      BY DEF IInv, TypeOK, Slots, Other
    <2>2. CASE pc \in SavePcs
      <3>1. order \in Orders
        BY <2>2 DEF IInv, ControlInv, Updating
      <3>2. QED
        BY <2>1, <2>2, <3>1, OrderFields
        DEF IInv, FlashInv, AlwaysBootable, PendingVerify
    <2>3. CASE pc \notin SavePcs
      BY <2>3 DEF IInv, FlashInv, AlwaysBootable, PendingVerify
    <2>4. QED
      BY <2>2, <2>3
  <1>2. QED
    BY <1>1, Inductive, PTL

(* The bytes in the slot, the open stream and the digest they are checked  *)
(* against always belong to the same order, also when another order is     *)
(* accepted in the middle of a download.                                   *)
THEOREM SinkFollowsOrder == Spec => []SinkServesOrder
  <1>1. IInv => SinkServesOrder
    <2> SUFFICES ASSUME IInv PROVE SinkServesOrder
      OBVIOUS
    <2>1. state \in Updating => order # NoOrder
      BY OrderFields DEF IInv, ControlInv
    <2>2. QED
      BY <2>1 DEF IInv, SinkInv, FlashInv, SinkServesOrder, Updating
  <1>2. QED
    BY <1>1, Inductive, PTL

(* With downgrades refused, what is about to be booted is newer than what  *)
(* is on record.                                                           *)
THEOREM OnlyUpgrades == Spec => []InstallsNewer
  <1>1. IInv => InstallsNewer
    BY DEF IInv, RecordInv, ControlInv, InstallsNewer, Updating
  <1>2. QED
    BY <1>1, Inductive, PTL

(* With downgrades refused, the recorded version never goes back, even     *)
(* when the record it is taken from was torn by a reset or a failed write. *)
THEOREM RecordMonotone == Spec => RecordNeverGoesBack
  <1>1. IInv /\ [Next]_vars =>
          [~AllowDowngrade => fw_version' >= fw_version]_vars
    <2> SUFFICES ASSUME IInv, Next, ~AllowDowngrade
                 PROVE  fw_version' >= fw_version
      OBVIOUS
    <2>1. fw_version \in Nat /\ pend_version \in Nat
      BY BoundFacts DEF IInv, TypeOK
    <2>2. CASE CommitFirmware
      BY <2>1, <2>2 DEF CommitFirmware, Committed, Write, IInv, RecordInv
    <2>3. CASE ~CommitFirmware
      <3>1. fw_version' = fw_version
        BY <2>3 DEF Next, LoopTask, OtaStep, SaveStep, ConfirmStep,
           Environment, Begin, BeginClearRest, MqttStep, HandleOrder,
           IngestDone, OtaEvaluate, OtaAwaitButton, OtaPump, OtaApply,
           OtaVerifyFails, OtaIdle, SaveId, SaveVersion, SaveDeadline,
           Restart, ConfirmNoPending, ConfirmExpired, ExpireClearRest,
           MarkInvalidAndReboot, MarkInvalidFails, SetLastUpdateId,
           MarkValid, ConfirmClearId, ConfirmDone, ConfirmAccepted,
           ServerPublish, Deliver, LinkChange, ClockSync, Tick, Reset,
           nvsVars, firmVars
      <3>2. QED
        BY <2>1, <3>1
    <2>4. QED
      BY <2>2, <2>3
  <1>2. QED
    BY <1>1, Inductive, PTL DEF Spec, RecordNeverGoesBack

(* Section 9.2: nothing records the version or cancels the rollback before *)
(* the server answered 200 to this very trial.                             *)
THEOREM ServerDecides == Spec => OnlyAfterTheServer
  <1> DEFINE Guarded == \/ fw_version' # fw_version
                        \/ \E s \in Slots : st'[s] = "valid" /\ st[s] # "valid"
                        => PendingVerify /\ pend_id # NoId /\ acked = pend_id
  <1>1. IInv /\ [Next]_vars => [Guarded]_vars
    <2> SUFFICES ASSUME IInv, Next PROVE Guarded
      OBVIOUS
    <2>1. CASE CommitFirmware \/ MarkValid
      BY <2>1 DEF CommitFirmware, MarkValid, IInv, ControlInv, FlashInv, AckInv
    <2>2. CASE ~(CommitFirmware \/ MarkValid)
      <3>1. fw_version' = fw_version
        BY <2>2 DEF Next, LoopTask, OtaStep, SaveStep, ConfirmStep,
           Environment, Begin, BeginClearRest, MqttStep, HandleOrder,
           IngestDone, OtaEvaluate, OtaAwaitButton, OtaPump, OtaApply,
           OtaVerifyFails, OtaIdle, SaveId, SaveVersion, SaveDeadline,
           Restart, ConfirmNoPending, ConfirmExpired, ExpireClearRest,
           MarkInvalidAndReboot, MarkInvalidFails, SetLastUpdateId,
           MarkValid, ConfirmClearId, ConfirmDone, ConfirmAccepted,
           ServerPublish, Deliver, LinkChange, ClockSync, Tick, Reset,
           nvsVars, firmVars
      <3>2. \A s \in Slots : st'[s] = "valid" => st[s] = "valid"
        <4>1. CASE OtaApply
          BY <4>1 DEF OtaApply, IInv, TypeOK
        <4>2. CASE MarkInvalidAndReboot
          BY <4>2 DEF MarkInvalidAndReboot, Bootloader, IInv, TypeOK
        <4>3. CASE Reset \/ Restart
          BY <4>3 DEF Reset, Restart, Bootloader, IInv, TypeOK
        <4>4. CASE ~(OtaApply \/ MarkInvalidAndReboot \/ Reset \/ Restart)
          BY <2>2, <4>4 DEF Next, LoopTask, OtaStep, SaveStep, ConfirmStep,
             Environment, Begin, BeginClearRest, MqttStep, HandleOrder,
             IngestDone, OtaEvaluate, OtaAwaitButton, OtaPump,
             OtaVerifyFails, OtaIdle, SaveId, SaveVersion, SaveDeadline,
             ConfirmNoPending, ConfirmExpired, ExpireClearRest,
             MarkInvalidFails, SetLastUpdateId, ConfirmClearId,
             ConfirmDone, ConfirmAccepted, ServerPublish, Deliver,
             LinkChange, ClockSync, Tick, flashVars
        <4>5. QED
          BY <4>1, <4>2, <4>3, <4>4
      <3>3. QED
        BY <3>1, <3>2
    <2>3. QED
      BY <2>1, <2>2
  <1>2. QED
    BY <1>1, Inductive, PTL DEF Spec, OnlyAfterTheServer
=============================================================================
