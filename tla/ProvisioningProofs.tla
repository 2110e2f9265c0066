-------------------------- MODULE ProvisioningProofs --------------------------
(***************************************************************************)
(* The inductive invariant of Provisioning, and what follows from it for   *)
(* every number of failures, every set of configurations and whichever     *)
(* topics the grants bring.                                                *)
(***************************************************************************)
EXTENDS Provisioning, TLAPS

(* The order of the keys, one by one.                                      *)
LEMMA SaveOrderFact ==
    /\ Len(SaveOrder) = 9
    /\ SaveOrder[1] = "device_id" /\ SaveOrder[2] = "mqtt_host"
    /\ SaveOrder[3] = "mqtt_port" /\ SaveOrder[4] = "mqtt_user"
    /\ SaveOrder[5] = "mqtt_pass" /\ SaveOrder[6] = "api_base_url"
    /\ SaveOrder[7] = "topic_ping" /\ SaveOrder[8] = "topic_update"
    /\ SaveOrder[9] = "topic_config"
  BY DEF SaveOrder

(* Every credential and every topic is among the keys written.             *)
LEMMA AllAreSaved ==
    /\ \A k \in CredKeys \cup TopicKeys : \E i \in 1..9 : SaveOrder[i] = k
    /\ \A i \in 1..9 : SaveOrder[i] \in CredKeys \cup TopicKeys \cup {"api_base_url"}
    /\ CredKeys \cap TopicKeys = {}
  BY SaveOrderFact DEF CredKeys, TopicKeys

(* The invariant holds on a new device.                                    *)
LEMMA InitKeeps == Init => IInv
  <1> SUFFICES ASSUME Init PROVE IInv
    OBVIOUS
  <1> USE DEF Init
  <1>1. TypeOK
    <2>1. nvs \in [Keys -> Nat]
      BY DEF Keys, Absent
    <2>2. NoTopics \in [TopicKeys -> Sources]
      BY DEF NoTopics, Sources
    <2>4. grant \in [n: Grants \cup {0}, topics: SUBSET TopicKeys]
      BY DEF NoGrant
    <2>5. /\ device_id \in Grants \cup {Absent} /\ cfg_version \in Versions /\ newest \in Versions
          /\ cfg_addr \in Versions /\ issued \in 0..(MaxTrouble + 1)
          /\ trouble \in 0..MaxTrouble /\ session \subseteq Grants
      BY GrantsAssumption DEF Versions
    <2>3. at \in 1..Len(SaveOrder)
      BY SaveOrderFact
    <2> QED
      BY <2>1, <2>2, <2>3, <2>4, <2>5 DEF TypeOK
  <1>2. SaveInv /\ IdentityInv /\ BootstrapInv /\ ConfigInv
    BY GrantsAssumption DEF SaveInv, IdentityInv, BootstrapInv, ConfigInv, IsProvisioned, Idle, Keys,
       CredKeys, TopicKeys, Absent
  <1>3. TopicsInv
    BY DEF TopicsInv, IsProvisioned, Idle, Keys, CredKeys, TopicKeys, Absent
  <1>4. AllOrNothing /\ SessionIsCurrent /\ NeverAnOlderConfig
    BY DEF AllOrNothing, SessionIsCurrent, NeverAnOlderConfig, IsProvisioned, Keys, Absent
  <1> QED
    BY <1>1, <1>2, <1>3, <1>4 DEF IInv

-----------------------------------------------------------------------------
(* What the parts of the invariant other than the types are about.         *)

(* A step that leaves NVS, the save under way, the identity and the        *)
(* configuration alone, and starts no session.                             *)
LEMMA NothingChanges ==
    ASSUME IInv, TypeOK',
           UNCHANGED <<nvs, pc, at, ok, grant, device_id, topics, cfg_version, cfg_addr,
                       doc, mishaps, newest, issued>>,
           session' \in {session, {}}
    PROVE  IInv'
  <1>1. SaveInv'
    BY DEF IInv, SaveInv, Idle
  <1>2. IdentityInv'
    BY DEF IInv, IdentityInv, Idle, IsProvisioned
  <1>3. TopicsInv'
    BY DEF IInv, TopicsInv, Idle, IsProvisioned, WholeTopics, StoredTopics, BuildTopics
  <1>4. BootstrapInv' /\ ConfigInv'
    BY DEF IInv, BootstrapInv, ConfigInv, Idle, IsProvisioned
  <1>5. AllOrNothing' /\ SessionIsCurrent' /\ NeverAnOlderConfig'
    BY DEF IInv, AllOrNothing, SessionIsCurrent, NeverAnOlderConfig, IsProvisioned
  <1> QED
    BY <1>1, <1>2, <1>3, <1>4, <1>5 DEF IInv

(* Steps of that kind.                                                     *)
LEMMA QuietSteps ==
    ASSUME IInv,
           Unreached \/ Denied \/ StartDownload \/ EndDownload \/ Unlock \/ UNCHANGED vars
    PROVE  IInv'
  <1>1. TypeOK
    BY DEF IInv
  <1>2. CASE Unreached
    <2>2. trouble' \in 0..MaxTrouble
      BY <1>1, <1>2, GrantsAssumption DEF Unreached, Trouble, TypeOK
    <2>3. locked' \in BOOLEAN
      BY <1>1, <1>2 DEF Unreached, TypeOK
    <2>1. TypeOK'
      BY <1>1, <1>2, <2>2, <2>3 DEF Unreached, Post, ProvisionVars, TypeOK
    <2> QED
      BY <1>2, <2>1, NothingChanges DEF Unreached, Post, ProvisionVars
  <1>3. CASE Denied
    <2>1. TypeOK'
      BY <1>1, <1>3 DEF Denied, Post, ProvisionVars, TypeOK
    <2> QED
      BY <1>3, <2>1, NothingChanges DEF Denied, Post, ProvisionVars
  <1>4. CASE StartDownload
    <2>1. TypeOK'
      BY <1>1, <1>4 DEF StartDownload, DownloadVars, TypeOK
    <2> QED
      BY <1>4, <2>1, NothingChanges DEF StartDownload, DownloadVars
  <1>5. CASE EndDownload
    <2>1. TypeOK'
      BY <1>1, <1>5 DEF EndDownload, DownloadVars, Resumed, TypeOK
    <2> QED
      BY <1>5, <2>1, NothingChanges DEF EndDownload, DownloadVars
  <1>6. CASE Unlock
    <2>1. TypeOK'
      BY <1>1, <1>6 DEF Unlock, ramVars, TypeOK
    <2> QED
      BY <1>6, <2>1, NothingChanges DEF Unlock, ramVars
  <1>7. CASE UNCHANGED vars
    <2>1. TypeOK'
      BY <1>1, <1>7 DEF vars, ramVars, TypeOK
    <2> QED
      BY <1>7, <2>1, NothingChanges DEF vars, ramVars
  <1> QED
    BY <1>2, <1>3, <1>4, <1>5, <1>6, <1>7

(* A grant keeps it: nothing has been saved yet.                           *)
LEMMA GrantedKeeps ==
    ASSUME IInv, Granted
    PROVE  IInv'
  <1>1. /\ pc = "loop" /\ pc' = "save" /\ ~IsProvisioned /\ at = 1 /\ nvs["provisioned"] = 0
        /\ UNCHANGED ProvisionVars /\ issued' = issued + 1 /\ issued \in 0..MaxTrouble
        /\ \A k \in TopicKeys : nvs[k] <= issued
        /\ grant'.n = issued' /\ issued' # 0
    <2>1. nvs["provisioned"] = 0
      BY DEF IInv, SaveInv, Granted, Post, IsProvisioned
    <2> QED
      BY <2>1, GrantsAssumption DEF IInv, SaveInv, TopicsInv, Granted, Post
  <1>2. TypeOK'
    <2>1. grant' \in [n: Grants \cup {0}, topics: SUBSET TopicKeys]
      BY <1>1, GrantsAssumption DEF Granted, Grants
    <2>2. issued' \in 0..(MaxTrouble + 1)
      BY <1>1, GrantsAssumption
    <2> QED
      BY <1>1, <2>1, <2>2 DEF IInv, Granted, Post, ProvisionVars, TypeOK
  <1>3. SaveInv'
    BY <1>1 DEF IInv, SaveInv, Idle, ProvisionVars, Absent
  <1>4. IdentityInv'
    BY <1>1 DEF IInv, IdentityInv, Idle, IsProvisioned, ProvisionVars
  <1>5. TopicsInv'
    <2>1. \A k \in TopicKeys : nvs[k] \in Nat
      BY DEF IInv, TypeOK, Keys
    <2> QED
      BY <1>1, <2>1 DEF TopicsInv, Idle, ProvisionVars
  <1>6. BootstrapInv' /\ ConfigInv'
    BY <1>1 DEF IInv, BootstrapInv, ConfigInv, Idle, IsProvisioned, ProvisionVars
  <1>7. AllOrNothing' /\ SessionIsCurrent' /\ NeverAnOlderConfig'
    BY <1>1 DEF IInv, AllOrNothing, SessionIsCurrent, NeverAnOlderConfig, IsProvisioned, ProvisionVars
  <1> QED
    BY <1>2, <1>3, <1>4, <1>5, <1>6, <1>7 DEF IInv

-----------------------------------------------------------------------------
(* The steps of saveProvisioning().                                        *)

(* What is common to the steps before the flag is set: the device has no   *)
(* identity and no session, and nothing but NVS and the save changes.      *)
LEMMA UnprovisionedStep ==
    ASSUME IInv, ~Idle, ~Idle', nvs["provisioned"] = 0, nvs'["provisioned"] = 0,
           pc' \notin {"forget", "commit"},
           nvs'["config_version"] = nvs["config_version"],
           UNCHANGED <<device_id, topics, mishaps, SaveVars>>
    PROVE  /\ IdentityInv' /\ BootstrapInv' /\ ConfigInv'
           /\ AllOrNothing' /\ SessionIsCurrent' /\ NeverAnOlderConfig'
  <1>1. ~IsProvisioned /\ ~IsProvisioned'
    BY DEF IsProvisioned
  <1>2. IdentityInv'
    BY <1>1 DEF IInv, IdentityInv, SaveVars
  <1>3. BootstrapInv' /\ ConfigInv'
    BY <1>1 DEF IInv, BootstrapInv, ConfigInv, SaveVars, Idle
  <1>4. AllOrNothing' /\ SessionIsCurrent' /\ NeverAnOlderConfig'
    BY <1>1 DEF IInv, AllOrNothing, SessionIsCurrent, NeverAnOlderConfig, IdentityInv, SaveVars
  <1> QED
    BY <1>2, <1>3, <1>4

(* One more key written keeps it, whether or not the write fails.          *)
LEMMA SaveKeyKeeps ==
    ASSUME IInv, SaveKey
    PROVE  IInv'
  <1> DEFINE key == SaveOrder[at]
  <1>1. /\ pc = "save" /\ ~Idle /\ at \in 1..9 /\ at \in Nat /\ key \in Keys
        /\ key \in CredKeys \cup TopicKeys \cup {"api_base_url"}
        /\ nvs \in [Keys -> Nat] /\ nvs["provisioned"] = 0
        /\ grant.n # Absent /\ grant.n \in Grants /\ grant.n \in Nat /\ grant.n = issued /\ ok \in BOOLEAN
        /\ grant.topics \subseteq TopicKeys
    <2>1. pc = "save" /\ at \in 1..9
      BY SaveOrderFact DEF IInv, TypeOK, SaveKey
    <2>2. key \in CredKeys \cup TopicKeys \cup {"api_base_url"} /\ key \in Keys
      BY <2>1, AllAreSaved DEF Keys
    <2> QED
      BY <2>1, <2>2, GrantsAssumption
         DEF IInv, TypeOK, SaveInv, TopicsInv, Idle, Grants, Absent
  <1>2. \/ nvs' = nvs /\ ok' = ok /\ key \in TopicKeys /\ key \notin grant.topics
        \/ nvs' = [nvs EXCEPT ![key] = grant.n] /\ (ok' <=> ok)
        \/ nvs' = nvs /\ ~ok'
    BY DEF SaveKey, WriteSeen, IInv, TypeOK
  <1>3. ok' \in BOOLEAN /\ trouble' \in 0..MaxTrouble
    BY GrantsAssumption DEF SaveKey, WriteSeen, Works, Trouble, IInv, TypeOK
  <1>4. \/ at = 9 /\ at' = 1 /\ pc' \in {"flag", "undo"} /\ (pc' = "flag" <=> ok')
        \/ at < 9 /\ at' = at + 1 /\ pc' = "save"
    <2>1. Len(SaveOrder) = 9 /\ at \in 1..9 /\ ok' \in BOOLEAN
      BY <1>1, <1>3, SaveOrderFact
    <2>2. /\ IF at = 9 THEN pc' = (IF ok' THEN "flag" ELSE "undo") ELSE pc' = pc
          /\ at' = IF at = 9 THEN 1 ELSE at + 1
      BY <2>1 DEF SaveKey
    <2>3. CASE at = 9
      BY <2>1, <2>2, <2>3
    <2>4. CASE at # 9
      <3>1. at < 9
        BY <2>1, <2>4
      <3> QED
        BY <1>1, <2>2, <2>4, <3>1
    <2> QED
      BY <2>3, <2>4
  <1>5. UNCHANGED <<grant, device_id, topics, mishaps, SaveVars>> /\ ~Idle'
    BY <1>4 DEF SaveKey, Idle
  <1>6. /\ nvs' \in [Keys -> Nat]
        /\ \A k \in Keys : nvs'[k] = nvs[k] \/ (k = key /\ nvs'[k] = grant.n)
        /\ ok' => /\ ok
                  /\ nvs'[key] = grant.n \/ key \in TopicKeys \ grant.topics
    <2> HIDE DEF key
    <2>1. CASE nvs' = nvs /\ ok' = ok /\ key \in TopicKeys /\ key \notin grant.topics
      BY <1>1, <2>1
    <2>2. CASE nvs' = [nvs EXCEPT ![key] = grant.n] /\ (ok' <=> ok)
      BY <1>1, <2>2
    <2>3. CASE nvs' = nvs /\ ~ok'
      BY <1>1, <2>3
    <2> QED
      BY <1>2, <2>1, <2>2, <2>3
  <1> HIDE DEF key
  <1>7. nvs'["provisioned"] = 0 /\ nvs'["config_version"] = nvs["config_version"]
    BY <1>1, <1>6 DEF Keys, CredKeys, TopicKeys
  <1>8. TypeOK'
    <2>1. at' \in 1..Len(SaveOrder)
      BY <1>1, <1>4, SaveOrderFact
    <2> QED
      BY <2>1, <1>3, <1>4, <1>5, <1>6 DEF IInv, TypeOK, SaveVars
  (* What has been written when the step is over.                          *)
  <1>9. ASSUME ok', NEW i \in 1..at
        PROVE  /\ SaveOrder[i] \in CredKeys => nvs'[SaveOrder[i]] = grant.n
               /\ SaveOrder[i] \in grant.topics => nvs'[SaveOrder[i]] = grant.n
    <2>1. SaveOrder[i] \in CredKeys \cup TopicKeys => SaveOrder[i] \in Keys
      BY DEF Keys
    <2>2. CASE i = at
      BY <1>6, <1>9, <2>2, AllAreSaved DEF key
    <2>3. CASE i # at
      <3>1. i \in 1..(at - 1)
        BY <1>1, <2>3
      <3>2. /\ SaveOrder[i] \in CredKeys => nvs[SaveOrder[i]] = grant.n
            /\ SaveOrder[i] \in grant.topics => nvs[SaveOrder[i]] = grant.n
        BY <1>1, <1>6, <1>9, <3>1 DEF IInv, SaveInv, TopicsInv
      <3> QED
        BY <1>1, <1>6, <2>1, <3>2
    <2> QED
      BY <2>2, <2>3
  <1>10. SaveInv'
    <2>1. \A k \in CredKeys \cup TopicKeys : nvs'[k] \in Grants \cup {Absent}
      BY <1>1, <1>6 DEF IInv, SaveInv, Keys
    <2>2. pc' = "save" /\ ok' =>
            \A i \in 1..(at' - 1) : SaveOrder[i] \in CredKeys => nvs'[SaveOrder[i]] = grant.n
      <3> SUFFICES ASSUME pc' = "save", ok', NEW i \in 1..(at' - 1)
                   PROVE  SaveOrder[i] \in CredKeys => nvs'[SaveOrder[i]] = grant.n
        OBVIOUS
      <3>1. i \in 1..at
        BY <1>1, <1>4
      <3> QED
        BY <1>9, <3>1
    <2>3. pc' = "flag" => \A k \in CredKeys : nvs'[k] = grant.n
      BY <1>4, <1>9, AllAreSaved
    <2> QED
      BY <1>1, <1>4, <1>5, <1>7, <2>1, <2>2, <2>3 DEF SaveInv
  <1>11. TopicsInv'
    <2>1. \A k \in TopicKeys : nvs'[k] <= issued
      BY <1>1, <1>6 DEF IInv, TopicsInv, Keys
    <2>2. \A k \in TopicKeys : nvs'[k] = issued => k \in grant.topics
      <3>1. \A k \in TopicKeys : nvs[k] = issued => k \in grant.topics
        BY <1>1 DEF IInv, TopicsInv
      <3>2. nvs' = nvs \/ key \notin TopicKeys \/ key \in grant.topics
        BY DEF SaveKey, key
      <3> QED
        BY <1>6, <3>1, <3>2 DEF Keys
    <2>3. pc' = "save" /\ ok' =>
            \A i \in 1..(at' - 1) : SaveOrder[i] \in grant.topics => nvs'[SaveOrder[i]] = grant.n
      <3> SUFFICES ASSUME pc' = "save", ok', NEW i \in 1..(at' - 1)
                   PROVE  SaveOrder[i] \in grant.topics => nvs'[SaveOrder[i]] = grant.n
        OBVIOUS
      <3>1. i \in 1..at
        BY <1>1, <1>4
      <3> QED
        BY <1>9, <3>1
    <2>4. pc' = "flag" => \A k \in TopicKeys : k \in grant.topics => nvs'[k] = grant.n
      BY <1>4, <1>9, AllAreSaved
    <2>5. pc' \notin {"forget", "commit"} /\ issued' = issued
      BY <1>4, <1>5 DEF SaveVars
    <2> QED
      BY <1>1, <1>5, <2>1, <2>2, <2>3, <2>4, <2>5 DEF TopicsInv
  <1> QED
    BY <1>1, <1>4, <1>5, <1>7, <1>8, <1>10, <1>11, UnprovisionedStep DEF IInv

(* A save that failed takes the flag down again, or fails to.              *)
LEMMA UndoFlagKeeps ==
    ASSUME IInv, UndoFlag
    PROVE  IInv'
  <1>1. /\ pc = "undo" /\ pc' = "loop" /\ at' = 1 /\ nvs["provisioned"] = 0 /\ ~Idle
        /\ UNCHANGED <<device_id, topics, mishaps, SaveVars>>
    BY DEF IInv, SaveInv, UndoFlag, Return, Idle
  <1>2. nvs' = nvs
    <2>1. nvs \in [Keys -> Nat]
      BY DEF IInv, TypeOK
    <2> QED
      BY <1>1, <2>1 DEF UndoFlag
  <1>3. TypeOK'
    <2>1. at' \in 1..Len(SaveOrder)
      BY <1>1, SaveOrderFact
    <2>2. trouble' \in 0..MaxTrouble
      BY GrantsAssumption DEF IInv, TypeOK, UndoFlag, Works, Trouble
    <2>3. grant' \in [n: Grants \cup {0}, topics: SUBSET TopicKeys] /\ ok' \in BOOLEAN
      BY DEF UndoFlag, Return, NoGrant
    <2> QED
      BY <1>1, <1>2, <2>1, <2>2, <2>3 DEF IInv, TypeOK, SaveVars
  <1>4. ~IsProvisioned /\ ~IsProvisioned'
    BY <1>1, <1>2 DEF IsProvisioned
  <1>5. SaveInv' /\ TopicsInv'
    BY <1>1, <1>2, <1>4 DEF IInv, SaveInv, TopicsInv, Idle, SaveVars
  <1>6. IdentityInv' /\ BootstrapInv' /\ ConfigInv'
    BY <1>1, <1>2, <1>4 DEF IInv, IdentityInv, BootstrapInv, ConfigInv, SaveVars
  <1>7. AllOrNothing' /\ SessionIsCurrent' /\ NeverAnOlderConfig'
    BY <1>1, <1>2, <1>4
       DEF IInv, AllOrNothing, SessionIsCurrent, NeverAnOlderConfig, IdentityInv, SaveVars
  <1> QED
    BY <1>3, <1>5, <1>6, <1>7 DEF IInv

(* A write of one key, or a failed one.                                    *)
LEMMA Written ==
    ASSUME nvs \in [Keys -> Nat], NEW k \in Keys, NEW v \in Nat,
           NEW w \in BOOLEAN, nvs' = IF w THEN [nvs EXCEPT ![k] = v] ELSE nvs
    PROVE  /\ nvs' \in [Keys -> Nat]
           /\ \A j \in Keys : j # k => nvs'[j] = nvs[j]
           /\ w => nvs'[k] = v
           /\ ~w => nvs'[k] = nvs[k]
  <1>1. CASE w
    BY <1>1
  <1>2. CASE ~w
    BY <1>2
  <1> QED
    BY <1>1, <1>2

(* Between the credentials and the end of the save nobody has a session.   *)
LEMMA NoSession ==
    ASSUME IInv, ~Idle
    PROVE  /\ session # {} => "wiped" \in mishaps
           /\ cfg_addr # 0 => "wiped" \in mishaps
  BY DEF IInv, IdentityInv, ConfigInv

(* The flag is set over a whole grant only.                                *)
LEMMA SetFlagKeeps ==
    ASSUME IInv, SetFlag
    PROVE  IInv'
  <1>1. PICK w \in BOOLEAN :
          /\ Works(w)
          /\ nvs' = IF w THEN [nvs EXCEPT !["provisioned"] = 1] ELSE nvs
          /\ ok' = w
          /\ mishaps' = IF w THEN mishaps \cup {"unfinished"} ELSE mishaps
    BY DEF SetFlag
  <1>2. /\ pc = "flag" /\ pc' = "forget" /\ ~Idle /\ ~Idle' /\ nvs["provisioned"] = 0
        /\ at = 1 /\ UNCHANGED <<at, grant, device_id, topics, SaveVars>>
        /\ nvs \in [Keys -> Nat] /\ grant.n # Absent
        /\ \A k \in CredKeys : nvs[k] = grant.n
    BY DEF IInv, TypeOK, SaveInv, SetFlag, Idle
  <1>3. /\ nvs' \in [Keys -> Nat]
        /\ \A j \in Keys : j # "provisioned" => nvs'[j] = nvs[j]
        /\ w => nvs'["provisioned"] = 1
        /\ ~w => nvs'["provisioned"] = 0
    BY <1>1, <1>2, Written DEF Keys
  <1>4. /\ \A k \in CredKeys \cup TopicKeys : nvs'[k] = nvs[k]
        /\ nvs'["device_id"] = grant.n /\ nvs'["config_version"] = nvs["config_version"]
        /\ nvs'["api_base_url"] = nvs["api_base_url"]
    BY <1>2, <1>3 DEF Keys, CredKeys, TopicKeys
  <1>5. TypeOK'
    <2>1. trouble' \in 0..MaxTrouble
      BY <1>1, GrantsAssumption DEF IInv, TypeOK, Works, Trouble
    <2>2. mishaps' \subseteq Mishaps /\ ok' \in BOOLEAN
      BY <1>1 DEF IInv, TypeOK, Mishaps
    <2> QED
      BY <1>2, <1>3, <2>1, <2>2 DEF IInv, TypeOK, SaveVars
  <1>6. SaveInv'
    BY <1>2, <1>4 DEF IInv, SaveInv
  <1>7. TopicsInv'
    BY <1>2, <1>4 DEF IInv, TopicsInv, SaveVars
  <1>8. IdentityInv'
    <2>1. session' # {} => "wiped" \in mishaps'
      BY <1>1, <1>2, NoSession DEF SaveVars
    <2>2. nvs'["provisioned"] # 0 <=> ok'
      BY <1>1, <1>3
    <2>3. ok' => "unfinished" \in mishaps'
      BY <1>1
    <2> QED
      BY <1>2, <2>1, <2>2, <2>3 DEF IdentityInv
  <1>9. ConfigInv' /\ NeverAnOlderConfig'
    <2>1. "wiped" \in mishaps' <=> "wiped" \in mishaps
      BY <1>1
    <2> QED
      BY <1>2, <1>4, <2>1, NoSession DEF IInv, ConfigInv, NeverAnOlderConfig, SaveVars
  <1>10. AllOrNothing' /\ SessionIsCurrent' /\ BootstrapInv'
    <2>1. session' # {} => "wiped" \in mishaps'
      BY <1>1, <1>2, NoSession DEF SaveVars
    <2> QED
      BY <1>2, <1>4, <2>1 DEF AllOrNothing, SessionIsCurrent, BootstrapInv
  <1> QED
    BY <1>5, <1>6, <1>7, <1>8, <1>9, <1>10 DEF IInv

(* The address the device was shipped with goes after that.                *)
LEMMA ForgetBootstrapKeeps ==
    ASSUME IInv, ForgetBootstrap
    PROVE  IInv'
  <1>1. PICK w \in BOOLEAN :
          /\ Works(w)
          /\ nvs' = IF w THEN [nvs EXCEPT !["bootstrap_url"] = Absent] ELSE nvs
          /\ mishaps' = IF w THEN mishaps \ {"kept"} ELSE mishaps \cup {"kept"}
    BY DEF ForgetBootstrap, WithoutBootstrap
  <1>2. /\ pc = "forget" /\ pc' = "commit" /\ ~Idle /\ ~Idle'
        /\ UNCHANGED <<at, ok, grant, device_id, topics, SaveVars>>
        /\ nvs \in [Keys -> Nat]
    BY DEF IInv, TypeOK, ForgetBootstrap, Idle
  <1>3. /\ nvs' \in [Keys -> Nat]
        /\ \A j \in Keys : j # "bootstrap_url" => nvs'[j] = nvs[j]
        /\ w => nvs'["bootstrap_url"] = Absent
    BY <1>1, <1>2, Written DEF Keys, Absent
  <1>4. /\ \A k \in CredKeys \cup TopicKeys : nvs'[k] = nvs[k]
        /\ nvs'["config_version"] = nvs["config_version"]
        /\ nvs'["api_base_url"] = nvs["api_base_url"]
        /\ nvs'["provisioned"] = nvs["provisioned"]
        /\ nvs'["device_id"] = nvs["device_id"]
    BY <1>3 DEF Keys, CredKeys, TopicKeys
  <1>5. /\ "wiped" \in mishaps' <=> "wiped" \in mishaps
        /\ "unfinished" \in mishaps' <=> "unfinished" \in mishaps
        /\ "kept" \notin mishaps' => w
    BY <1>1
  <1>6. TypeOK'
    <2>1. trouble' \in 0..MaxTrouble
      BY <1>1, GrantsAssumption DEF IInv, TypeOK, Works, Trouble
    <2>2. mishaps' \subseteq Mishaps
      BY <1>1 DEF IInv, TypeOK, Mishaps
    <2> QED
      BY <1>2, <1>3, <2>1, <2>2 DEF IInv, TypeOK, SaveVars
  <1>7. SaveInv' /\ TopicsInv'
    BY <1>2, <1>4 DEF IInv, SaveInv, TopicsInv, SaveVars
  <1>8. session' # {} => "wiped" \in mishaps'
    BY <1>2, <1>5, NoSession DEF SaveVars
  <1>9. IdentityInv'
    BY <1>2, <1>4, <1>5, <1>8 DEF IInv, IdentityInv
  <1>10. BootstrapInv'
    BY <1>2, <1>3, <1>5 DEF BootstrapInv
  <1>11. ConfigInv' /\ NeverAnOlderConfig'
    BY <1>2, <1>4, <1>5, NoSession DEF IInv, ConfigInv, NeverAnOlderConfig, SaveVars
  <1>12. AllOrNothing' /\ SessionIsCurrent'
    BY <1>2, <1>4, <1>8 DEF IInv, SaveInv, AllOrNothing, SessionIsCurrent
  <1> QED
    BY <1>6, <1>7, <1>9, <1>10, <1>11, <1>12 DEF IInv

(* What the answer brought is what NVS now yields, when NVS holds all      *)
(* topics of this grant or none.                                           *)
LEMMA TakenOver ==
    ASSUME IInv, pc = "commit", WholeTopics
    PROVE  ApplyProvisioned(BuildTopics(grant.n), grant) = StoredTopics
  <1>1. /\ grant.n # Absent /\ nvs["device_id"] = grant.n /\ grant.n = issued
        /\ \A k \in TopicKeys : nvs[k] = issued => k \in grant.topics
        /\ \A k \in TopicKeys : k \in grant.topics => nvs[k] = grant.n
    BY DEF IInv, SaveInv, TopicsInv, Idle, CredKeys
  <1>2. CASE \A k \in TopicKeys : nvs[k] = Absent
    <2>1. \A k \in TopicKeys : k \notin grant.topics
      BY <1>1, <1>2
    <2>2. StoredTopics = BuildTopics(grant.n)
      BY <1>1, <1>2 DEF StoredTopics, TopicKeys
    <2> QED
      BY <2>1, <2>2 DEF ApplyProvisioned, BuildTopics
  <1>3. CASE \A k \in TopicKeys : nvs[k] = nvs["device_id"]
    BY <1>1, <1>3 DEF StoredTopics, ApplyProvisioned
  <1> QED
    BY <1>2, <1>3 DEF WholeTopics

(* RAM takes the identity on record.                                       *)
LEMMA CommitKeeps ==
    ASSUME IInv, Commit
    PROVE  IInv'
  <1>1. PICK w \in BOOLEAN :
          /\ Works(w)
          /\ IF w /\ ok
             THEN /\ device_id' = grant.n
                  /\ topics' = ApplyProvisioned(BuildTopics(grant.n), grant)
                  /\ mishaps' = mishaps \ {"unfinished"}
             ELSE UNCHANGED <<device_id, topics, mishaps>>
    BY DEF Commit, NewIdentity
  <1>2. /\ pc = "commit" /\ pc' = "loop" /\ at' = 1 /\ ~Idle /\ Idle'
        /\ UNCHANGED <<nvs, SaveVars>>
        /\ nvs["device_id"] = grant.n /\ grant.n # Absent /\ grant.n \in Grants
        /\ (ok <=> nvs["provisioned"] # 0)
        /\ (nvs["provisioned"] # 0 => "unfinished" \in mishaps)
    BY DEF IInv, TypeOK, SaveInv, IdentityInv, Commit, Return, Idle, CredKeys
  <1>3. /\ "wiped" \in mishaps' <=> "wiped" \in mishaps
        /\ "kept" \in mishaps' <=> "kept" \in mishaps
        /\ "missed" \in mishaps' <=> "missed" \in mishaps
        /\ IsProvisioned' /\ "unfinished" \notin mishaps' =>
              /\ device_id' = grant.n
              /\ topics' = ApplyProvisioned(BuildTopics(grant.n), grant)
    BY <1>1, <1>2 DEF IsProvisioned
  <1>4. TypeOK'
    <2>1. trouble' \in 0..MaxTrouble
      BY <1>1, GrantsAssumption DEF IInv, TypeOK, Works, Trouble
    <2>2. mishaps' \subseteq Mishaps
      BY <1>1 DEF IInv, TypeOK
    <2>3. device_id' \in Grants \cup {Absent}
      BY <1>1, <1>2 DEF IInv, TypeOK
    <2>4. topics' \in [TopicKeys -> Sources]
      <3>1. ApplyProvisioned(BuildTopics(grant.n), grant) \in [TopicKeys -> Sources]
        BY <1>2 DEF ApplyProvisioned, BuildTopics, Sources
      <3> QED
        BY <1>1, <3>1 DEF IInv, TypeOK
    <2>5. /\ at' \in 1..Len(SaveOrder) /\ ok' \in BOOLEAN
          /\ grant' \in [n: Grants \cup {0}, topics: SUBSET TopicKeys]
      BY SaveOrderFact DEF Commit, Return, NoGrant
    <2> QED
      BY <1>2, <2>1, <2>2, <2>3, <2>4, <2>5 DEF IInv, TypeOK, SaveVars
  <1>5. SaveInv'
    BY <1>2 DEF IInv, SaveInv
  <1>6. session' # {} => "wiped" \in mishaps'
    BY <1>2, <1>3, NoSession DEF SaveVars
  <1>7. IdentityInv'
    BY <1>2, <1>3, <1>6 DEF IdentityInv
  <1>8. TopicsInv'
    <2>1. WholeTopics' => WholeTopics
      BY <1>2 DEF WholeTopics
    <2>2. StoredTopics' = StoredTopics
      BY <1>2 DEF StoredTopics, BuildTopics
    <2>3. \A k \in TopicKeys : nvs'[k] <= issued'
      BY <1>2 DEF IInv, TopicsInv, SaveVars
    <2> QED
      BY <1>2, <1>3, <2>1, <2>2, <2>3, TakenOver DEF TopicsInv
  <1>9. BootstrapInv'
    BY <1>2, <1>3 DEF IInv, BootstrapInv
  <1>10. ConfigInv' /\ NeverAnOlderConfig'
    BY <1>2, <1>3, NoSession DEF IInv, ConfigInv, NeverAnOlderConfig, SaveVars
  <1>11. AllOrNothing' /\ SessionIsCurrent'
    BY <1>2, <1>6 DEF IInv, SaveInv, AllOrNothing, SessionIsCurrent
  <1> QED
    BY <1>4, <1>5, <1>7, <1>8, <1>9, <1>10, <1>11 DEF IInv

-----------------------------------------------------------------------------
(* The steps of a provisioned device.                                      *)

(* A session begins with it.                                               *)
LEMMA StartSessionKeeps ==
    ASSUME IInv, StartSession
    PROVE  IInv'
  <1>1. /\ pc = "loop" /\ IsProvisioned /\ Idle
        /\ \A k \in CredKeys : nvs[k] \in Grants
        /\ device_id \in Grants
        /\ session' = {nvs[k] : k \in CredKeys} \cup {device_id}
        /\ UNCHANGED <<nvs, pc, at, ok, grant, device_id, topics, downloading, paused,
                       cfg_version, cfg_addr, doc, locked, issued, trouble, mishaps, newest>>
    BY DEF IInv, TypeOK, SaveInv, StartSession, Pass, Idle
  <1>2. TypeOK'
    <2>1. session' \subseteq Grants
      BY <1>1
    <2> QED
      BY <1>1, <2>1 DEF IInv, TypeOK
  <1>3. SaveInv'
    BY <1>1 DEF IInv, SaveInv, Idle
  <1>4. IdentityInv'
    BY <1>1 DEF IInv, IdentityInv, Idle, IsProvisioned
  <1>5. TopicsInv'
    BY <1>1 DEF IInv, TopicsInv, Idle, IsProvisioned, WholeTopics, StoredTopics, BuildTopics
  <1>6. BootstrapInv' /\ ConfigInv'
    BY <1>1 DEF IInv, BootstrapInv, ConfigInv, Idle, IsProvisioned
  <1>7. SessionIsCurrent'
    <2> SUFFICES ASSUME {"unfinished", "wiped"} \cap mishaps = {}
                 PROVE  session' = {nvs["device_id"]}
      BY <1>1 DEF SessionIsCurrent
    <2>1. device_id = nvs["device_id"]
      BY <1>1 DEF IInv, IdentityInv
    <2>2. \A k \in CredKeys : nvs[k] = nvs["device_id"]
      BY <1>1 DEF IInv, AllOrNothing, CredKeys
    <2> QED
      BY <1>1, <2>1, <2>2
  <1>8. AllOrNothing' /\ NeverAnOlderConfig'
    BY <1>1 DEF IInv, AllOrNothing, NeverAnOlderConfig, IsProvisioned
  <1> QED
    BY <1>2, <1>3, <1>4, <1>5, <1>6, <1>7, <1>8 DEF IInv

(* A step of an idle device that writes neither credentials nor topics,    *)
(* and leaves the identity alone, disturbs nothing but the configuration.  *)
LEMMA IdentityStays ==
    ASSUME IInv, TypeOK', Idle, Idle',
           \A k \in CredKeys \cup TopicKeys \cup {"provisioned", "bootstrap_url"} :
              nvs'[k] = nvs[k],
           "wiped" \in mishaps' <=> "wiped" \in mishaps,
           "unfinished" \in mishaps' <=> "unfinished" \in mishaps,
           "kept" \in mishaps' <=> "kept" \in mishaps,
           UNCHANGED <<at, ok, grant, device_id, topics, session, issued>>
    PROVE  /\ SaveInv' /\ IdentityInv' /\ TopicsInv' /\ BootstrapInv'
           /\ AllOrNothing' /\ SessionIsCurrent'
           /\ (IsProvisioned' <=> IsProvisioned)
  <1>1. nvs'["device_id"] = nvs["device_id"] /\ nvs'["provisioned"] = nvs["provisioned"]
    BY DEF CredKeys
  <1>2. IsProvisioned' <=> IsProvisioned
    BY <1>1 DEF IsProvisioned
  <1>3. SaveInv'
    BY <1>1 DEF IInv, SaveInv, Idle
  <1>4. IdentityInv'
    BY <1>1, <1>2 DEF IInv, IdentityInv, Idle
  <1>5. TopicsInv'
    <2>1. WholeTopics' <=> WholeTopics
      BY <1>1 DEF WholeTopics
    <2>2. StoredTopics' = StoredTopics
      BY <1>1 DEF StoredTopics, BuildTopics
    <2>3. pc' \notin {"save", "flag", "forget", "commit"}
      BY DEF Idle
    <2> QED
      BY <1>2, <2>1, <2>2, <2>3 DEF IInv, TopicsInv
  <1>6. BootstrapInv'
    BY <1>2 DEF IInv, BootstrapInv, Idle
  <1>7. AllOrNothing' /\ SessionIsCurrent'
    BY <1>1, <1>2 DEF IInv, AllOrNothing, SessionIsCurrent
  <1> QED
    BY <1>2, <1>3, <1>4, <1>5, <1>6, <1>7

(* A configuration is taken only if it is newer.                           *)
LEMMA TakeConfigKeeps ==
    ASSUME IInv, NEW c \in Configs, TakeConfig(c)
    PROVE  IInv'
  <1>1. /\ pc = "loop" /\ IsProvisioned /\ c.version \in Nat /\ c.version > nvs["config_version"]
        /\ UNCHANGED <<cfg_version, cfg_addr, mishaps, newest, ConfigVars>>
        /\ nvs \in [Keys -> Nat]
    BY ConfigsAssumption DEF IInv, TypeOK, TakeConfig, Pass, Newer
  <1>2. /\ nvs' = nvs \/ nvs' = [nvs EXCEPT !["config_version"] = c.version]
        /\ \/ nvs' = [nvs EXCEPT !["config_version"] = c.version] /\ doc' = c /\ pc' = "config"
           \/ doc' = doc /\ pc' = "loop"
    BY <1>1 DEF TakeConfig
  <1>3. /\ nvs' \in [Keys -> Nat]
        /\ \A k \in Keys : k # "config_version" => nvs'[k] = nvs[k]
        /\ nvs'["config_version"] \in {nvs["config_version"], c.version}
        /\ pc' = "config" => nvs'["config_version"] = c.version
    BY <1>1, <1>2 DEF Keys
  <1>4. /\ \A k \in CredKeys \cup TopicKeys \cup {"provisioned", "bootstrap_url"} :
              nvs'[k] = nvs[k]
        /\ nvs'["api_base_url"] = nvs["api_base_url"]
    BY <1>3 DEF Keys, CredKeys, TopicKeys
  <1>5. TypeOK'
    <2>1. trouble' \in 0..MaxTrouble
      BY GrantsAssumption DEF IInv, TypeOK, TakeConfig, Trouble
    <2>2. doc' \in Configs \cup {NoDoc} /\ pc' \in {"loop", "config"}
      BY <1>2 DEF IInv, TypeOK
    <2> QED
      BY <1>1, <1>3, <2>1, <2>2 DEF IInv, TypeOK, ConfigVars
  <1>6. /\ SaveInv' /\ IdentityInv' /\ TopicsInv' /\ BootstrapInv'
        /\ AllOrNothing' /\ SessionIsCurrent' /\ IsProvisioned'
    BY <1>1, <1>2, <1>4, <1>5, IdentityStays DEF ConfigVars, Idle
  <1>7. NeverAnOlderConfig'
    BY <1>1 DEF IInv, NeverAnOlderConfig
  <1>8. ConfigInv'
    <2>1. newest \in Nat /\ nvs["config_version"] \in Nat /\ newest <= nvs["config_version"]
      BY <1>1, ConfigsAssumption DEF IInv, TypeOK, ConfigInv, Versions, Keys
    <2>2. newest' <= nvs'["config_version"]
      BY <1>1, <1>3, <2>1
    <2>3. pc' = "config" =>
            doc'.version = nvs'["config_version"] /\ newest' < doc'.version
      BY <1>1, <1>2, <1>3, <2>1
    <2>4. Idle'
      BY <1>2 DEF Idle
    <2> QED
      BY <1>1, <1>4, <1>6, <2>2, <2>3, <2>4 DEF IInv, ConfigInv, Addr
  <1> QED
    BY <1>5, <1>6, <1>7, <1>8 DEF IInv

(* Its address is written after its version.                               *)
LEMMA ApplyConfigKeeps ==
    ASSUME IInv, ApplyConfig
    PROVE  IInv'
  <1> DEFINE named == NamedAddress(doc)
  <1>1. /\ pc = "config" /\ pc' = "loop" /\ doc' = NoDoc
        /\ cfg_version' = doc.version /\ cfg_addr' = named
        /\ newest' = (IF doc.version > newest THEN doc.version ELSE newest)
        /\ UNCHANGED ConfigVars /\ nvs \in [Keys -> Nat]
    BY DEF IInv, TypeOK, ApplyConfig
  <1>2. PICK w \in BOOLEAN :
          /\ \/ w /\ (named = 0 \/ nvs["api_base_url"] = Addr(named)) /\ UNCHANGED <<nvs, trouble>>
             \/ /\ Works(w)
                /\ nvs' = IF w THEN [nvs EXCEPT !["api_base_url"] = Addr(named)] ELSE nvs
          /\ mishaps' = IF named = 0 THEN mishaps
                        ELSE IF w THEN mishaps \ {"missed"} ELSE mishaps \cup {"missed"}
    BY DEF ApplyConfig, AddressToStore
  <1>3. /\ doc.version \in Versions /\ doc.version \in Nat /\ named \in Versions /\ named \in Nat
        /\ Addr(named) \in Nat /\ newest \in Nat /\ newest < doc.version
        /\ doc.version = nvs["config_version"] /\ IsProvisioned
    BY <1>1, ConfigsAssumption, GrantsAssumption
       DEF IInv, TypeOK, ConfigInv, Versions, NoDoc, NamedAddress, Addr
  <1> HIDE DEF named
  <1>4. newest' = doc.version
    BY <1>1, <1>3
  <1>5. /\ nvs' \in [Keys -> Nat]
        /\ \A k \in Keys : k # "api_base_url" => nvs'[k] = nvs[k]
        /\ w => named = 0 \/ nvs'["api_base_url"] = Addr(named)
    <2>1. CASE w /\ (named = 0 \/ nvs["api_base_url"] = Addr(named)) /\ nvs' = nvs
      BY <1>1, <2>1
    <2>2. CASE nvs' = IF w THEN [nvs EXCEPT !["api_base_url"] = Addr(named)] ELSE nvs
      BY <1>1, <1>3, <2>2, Written DEF Keys
    <2> QED
      BY <1>2, <2>1, <2>2
  <1>6. \A k \in CredKeys \cup TopicKeys \cup {"provisioned", "bootstrap_url", "config_version"} :
           nvs'[k] = nvs[k]
    BY <1>5 DEF Keys, CredKeys, TopicKeys
  <1>7. /\ "wiped" \in mishaps' <=> "wiped" \in mishaps
        /\ "unfinished" \in mishaps' <=> "unfinished" \in mishaps
        /\ "kept" \in mishaps' <=> "kept" \in mishaps
        /\ named # 0 /\ "missed" \notin mishaps' => w
        /\ mishaps' \subseteq Mishaps
    BY <1>2 DEF IInv, TypeOK, Mishaps
  <1>8. TypeOK'
    <2>1. trouble' \in 0..MaxTrouble
      BY <1>2, GrantsAssumption DEF IInv, TypeOK, Works, Trouble
    <2>2. newest' \in Versions
      BY <1>3, <1>4
    <2> QED
      BY <1>1, <1>3, <1>5, <1>7, <2>1, <2>2 DEF IInv, TypeOK, ConfigVars
  <1>9. /\ SaveInv' /\ IdentityInv' /\ TopicsInv' /\ BootstrapInv'
        /\ AllOrNothing' /\ SessionIsCurrent' /\ IsProvisioned'
    BY <1>1, <1>3, <1>6, <1>7, <1>8, IdentityStays DEF ConfigVars, Idle
  <1>10. NeverAnOlderConfig'
    BY <1>1, <1>4 DEF NeverAnOlderConfig
  <1>11. ConfigInv'
    BY <1>1, <1>3, <1>4, <1>5, <1>6, <1>7, <1>9 DEF ConfigInv, Idle, Addr
  <1> QED
    BY <1>8, <1>9, <1>10, <1>11 DEF IInv

-----------------------------------------------------------------------------
(* Steps from outside.                                                     *)

(* A factory reset forgets what is on record.                              *)
LEMMA FactoryResetKeeps ==
    ASSUME IInv, FactoryReset
    PROVE  IInv'
  <1>1. /\ pc = "loop" /\ nvs' = [k \in Keys |-> Absent] /\ newest' = 0
        /\ mishaps' = (mishaps \cup {"wiped"}) \ {"kept"} /\ "wiped" \in mishaps'
        /\ UNCHANGED <<pc, at, ok, grant, device_id, topics, session, downloading, paused,
                       cfg_version, cfg_addr, doc, locked, issued>>
    BY DEF FactoryReset, ramVars
  <1>2. \A k \in Keys : nvs'[k] = 0
    BY <1>1 DEF Absent
  <1>3. /\ \A k \in CredKeys \cup TopicKeys : nvs'[k] = Absent
        /\ nvs'["provisioned"] = 0 /\ nvs'["config_version"] = 0
    BY <1>2 DEF Keys, Absent
  <1>4. TypeOK'
    <2>1. trouble' \in 0..MaxTrouble
      BY GrantsAssumption DEF IInv, TypeOK, FactoryReset, Trouble
    <2>2. mishaps' \subseteq Mishaps
      BY <1>1 DEF IInv, TypeOK, Mishaps
    <2>3. nvs' \in [Keys -> Nat] /\ newest' \in Versions
      BY <1>1 DEF Absent, Versions
    <2> QED
      BY <1>1, <2>1, <2>2, <2>3 DEF IInv, TypeOK
  <1>5. ~IsProvisioned'
    BY <1>3 DEF IsProvisioned
  <1>6. SaveInv'
    BY <1>1, <1>3 DEF IInv, SaveInv, Idle
  <1>7. IdentityInv' /\ BootstrapInv'
    BY <1>1, <1>5 DEF IdentityInv, BootstrapInv, Idle
  <1>8. TopicsInv'
    <2>1. issued' \in Nat
      BY <1>1, GrantsAssumption DEF IInv, TypeOK
    <2>2. \A k \in TopicKeys : nvs'[k] <= issued'
      BY <1>3, <2>1 DEF Absent
    <2> QED
      BY <1>1, <1>5, <2>2 DEF TopicsInv, Idle
  <1>9. ConfigInv' /\ NeverAnOlderConfig' /\ AllOrNothing' /\ SessionIsCurrent'
    BY <1>1, <1>3, <1>5 DEF ConfigInv, NeverAnOlderConfig, AllOrNothing, SessionIsCurrent
  <1> QED
    BY <1>4, <1>6, <1>7, <1>8, <1>9 DEF IInv

(* An address is seeded on a device without a grant.                       *)
LEMMA SeedBootstrapUrlKeeps ==
    ASSUME IInv, SeedBootstrapUrl
    PROVE  IInv'
  <1>1. /\ pc = "loop" /\ ~IsProvisioned
        /\ nvs' = [nvs EXCEPT !["bootstrap_url"] = 1] /\ nvs \in [Keys -> Nat]
        /\ UNCHANGED <<pc, at, ok, grant, device_id, topics, session, downloading, paused,
                       cfg_version, cfg_addr, doc, locked, issued, trouble, mishaps, newest>>
    BY DEF IInv, TypeOK, SeedBootstrapUrl, ramVars
  <1>2. /\ nvs' \in [Keys -> Nat]
        /\ \A k \in Keys : k # "bootstrap_url" => nvs'[k] = nvs[k]
    BY <1>1 DEF Keys
  <1>3. /\ \A k \in CredKeys \cup TopicKeys \cup {"provisioned"} : nvs'[k] = nvs[k]
        /\ nvs'["config_version"] = nvs["config_version"]
        /\ nvs'["api_base_url"] = nvs["api_base_url"]
    BY <1>2 DEF Keys, CredKeys, TopicKeys
  <1>4. ~IsProvisioned'
    BY <1>1, <1>3 DEF IsProvisioned, CredKeys
  <1>5. TypeOK'
    BY <1>1, <1>2 DEF IInv, TypeOK
  <1>6. SaveInv' /\ TopicsInv'
    BY <1>1, <1>3, <1>4 DEF IInv, SaveInv, TopicsInv, Idle, CredKeys
  <1>7. IdentityInv' /\ BootstrapInv'
    BY <1>1, <1>4 DEF IInv, IdentityInv, BootstrapInv, Idle
  <1>8. ConfigInv' /\ NeverAnOlderConfig' /\ AllOrNothing' /\ SessionIsCurrent'
    BY <1>1, <1>3, <1>4
       DEF IInv, ConfigInv, IdentityInv, NeverAnOlderConfig, AllOrNothing, SessionIsCurrent
  <1> QED
    BY <1>5, <1>6, <1>7, <1>8 DEF IInv

(* A restart reads back what is on record.                                 *)
LEMMA RestartKeeps ==
    ASSUME IInv, Restart
    PROVE  IInv'
  <1>1. /\ pc' = "loop" /\ Idle' /\ at' = 1 /\ session' = {} /\ cfg_addr' = 0 /\ cfg_version' = 0
        /\ device_id' = nvs["device_id"] /\ topics' = StoredTopics
        /\ mishaps' = mishaps \ {"wiped", "missed"}
        /\ UNCHANGED <<nvs, locked, issued, newest>> /\ nvs \in [Keys -> Nat]
    BY DEF IInv, TypeOK, Restart, Return, Idle
  <1>2. /\ \A k \in CredKeys \cup TopicKeys : nvs[k] \in Grants \cup {Absent}
        /\ nvs["device_id"] \in Grants \cup {Absent}
    BY DEF IInv, SaveInv, CredKeys
  <1>3. TypeOK'
    <2>1. StoredTopics \in [TopicKeys -> Sources]
      <3>1. NoTopics \in [TopicKeys -> Sources]
        BY DEF NoTopics, Sources
      <3>2. ASSUME \A k \in TopicKeys : nvs[k] # Absent
            PROVE  [k \in TopicKeys |-> <<"given", nvs[k]>>] \in [TopicKeys -> Sources]
        BY <1>2, <3>2 DEF Sources
      <3>3. ASSUME nvs["device_id"] # Absent
            PROVE  BuildTopics(nvs["device_id"]) \in [TopicKeys -> Sources]
        <4>1. nvs["device_id"] \in Grants
          BY <1>2, <3>3
        <4> QED
          BY <4>1 DEF BuildTopics, Sources
      <3> QED
        BY <3>1, <3>2, <3>3 DEF StoredTopics
    <2>2. trouble' \in 0..MaxTrouble
      BY GrantsAssumption DEF IInv, TypeOK, Restart, Trouble
    <2>3. /\ at' \in 1..Len(SaveOrder) /\ ok' \in BOOLEAN
          /\ grant' \in [n: Grants \cup {0}, topics: SUBSET TopicKeys]
      BY SaveOrderFact DEF Restart, Return, NoGrant
    <2>4. /\ downloading' \in BOOLEAN /\ paused' \in BOOLEAN /\ doc' \in Configs \cup {NoDoc}
          /\ cfg_version' \in Versions /\ cfg_addr' \in Versions /\ mishaps' \subseteq Mishaps
      BY <1>1 DEF IInv, TypeOK, Restart, Versions
    <2> QED
      BY <1>1, <1>2, <2>1, <2>2, <2>3, <2>4 DEF IInv, TypeOK
  <1>4. /\ IsProvisioned' <=> IsProvisioned
        /\ "unfinished" \in mishaps' <=> "unfinished" \in mishaps
        /\ "kept" \in mishaps' <=> "kept" \in mishaps
    BY <1>1 DEF IsProvisioned
  <1>5. SaveInv'
    BY <1>1 DEF IInv, SaveInv
  <1>6. IdentityInv'
    BY <1>1 DEF IdentityInv
  <1>7. TopicsInv'
    <2>1. StoredTopics' = StoredTopics
      BY <1>1 DEF StoredTopics, BuildTopics
    <2>2. \A k \in TopicKeys : nvs'[k] <= issued'
      BY <1>1 DEF IInv, TopicsInv
    <2> QED
      BY <1>1, <2>1, <2>2 DEF TopicsInv
  <1>8. BootstrapInv'
    <2> SUFFICES ASSUME IsProvisioned, "unfinished" \notin mishaps, "kept" \notin mishaps
                 PROVE  nvs["bootstrap_url"] = Absent
      BY <1>1, <1>4 DEF BootstrapInv
    <2>1. Idle
      BY DEF IInv, TypeOK, SaveInv, IdentityInv, IsProvisioned, Idle
    <2> QED
      BY <2>1 DEF IInv, BootstrapInv
  <1>9. ConfigInv' /\ NeverAnOlderConfig'
    BY <1>1 DEF IInv, ConfigInv, NeverAnOlderConfig
  <1>10. AllOrNothing' /\ SessionIsCurrent'
    BY <1>1, <1>4 DEF IInv, AllOrNothing, SessionIsCurrent
  <1> QED
    BY <1>3, <1>5, <1>6, <1>7, <1>8, <1>9, <1>10 DEF IInv

-----------------------------------------------------------------------------
(* The invariant is inductive.                                             *)
LEMMA StepKeeps == IInv /\ [Next]_vars => IInv'
  <1> SUFFICES ASSUME IInv, [Next]_vars PROVE IInv'
    OBVIOUS
  <1>1. CASE Unreached \/ Denied \/ StartDownload \/ EndDownload \/ Unlock \/ UNCHANGED vars
    BY <1>1, QuietSteps
  <1>2. CASE Granted
    BY <1>2, GrantedKeeps
  <1>3. CASE Save
    BY <1>3, SaveKeyKeeps, UndoFlagKeeps, SetFlagKeeps, ForgetBootstrapKeeps, CommitKeeps DEF Save
  <1>4. CASE StartSession
    BY <1>4, StartSessionKeeps
  <1>5. CASE \E c \in Configs : TakeConfig(c)
    BY <1>5, TakeConfigKeeps
  <1>6. CASE ApplyConfig
    BY <1>6, ApplyConfigKeeps
  <1>7. CASE FactoryReset
    BY <1>7, FactoryResetKeeps
  <1>8. CASE SeedBootstrapUrl
    BY <1>8, SeedBootstrapUrlKeeps
  <1>9. CASE Restart
    BY <1>9, RestartKeeps
  <1> QED
    BY <1>1, <1>2, <1>3, <1>4, <1>5, <1>6, <1>7, <1>8, <1>9 DEF Next

(* The invariant of saveProvisioning, begin, mqttStep and handleConfig:    *)
(* types, progress of a save, whose identity is in RAM, where the topics   *)
(* come from, the seeded address and the configuration on record.          *)
THEOREM Inductive == Spec => []IInv
  <1>1. Init => IInv
    BY InitKeeps
  <1>2. IInv /\ [Next]_vars => IInv'
    BY StepKeeps
  <1> QED
    BY <1>1, <1>2, PTL DEF Spec

(* Never half a credential set, wherever a write fails or a reset falls    *)
(* (saveProvisioning).                                                     *)
THEOREM CredentialsWhole == Spec => []AllOrNothing
  <1>1. IInv => AllOrNothing
    BY DEF IInv
  <1> QED
    BY <1>1, Inductive, PTL

(* A restart changes neither the identity of a provisioned device nor its  *)
(* topics (Commit, StoredTopics), if it has all topics or none.            *)
THEOREM IdentityLasts == Spec => []RestartKeepsIdentity
  <1>1. IInv => RestartKeepsIdentity
    BY DEF IInv, IdentityInv, TopicsInv, RestartKeepsIdentity, Idle
  <1> QED
    BY <1>1, Inductive, PTL

(* A session speaks for the one identity on record (mqttStep).             *)
THEOREM OneIdentity == Spec => []SessionIsCurrent
  <1>1. IInv => SessionIsCurrent
    BY DEF IInv
  <1> QED
    BY <1>1, Inductive, PTL

(* A device whose save was seen through no longer carries the seeded       *)
(* address (saveProvisioning).                                             *)
THEOREM BootstrapGone == Spec => []BootstrapForgotten
  <1>1. IInv => BootstrapForgotten
    BY DEF IInv, BootstrapInv, BootstrapForgotten, Idle
  <1> QED
    BY <1>1, Inductive, PTL

(* Redelivery never brings back an older configuration (handleConfig).     *)
THEOREM NoOlderConfig == Spec => []NeverAnOlderConfig
  <1>1. IInv => NeverAnOlderConfig
    BY DEF IInv
  <1> QED
    BY <1>1, Inductive, PTL

(* The address a configuration named is the one on record (handleConfig).  *)
THEOREM AddressKeptUp == Spec => []AddressFollowsConfig
  <1>1. IInv => AddressFollowsConfig
    BY DEF IInv, ConfigInv, AddressFollowsConfig
  <1> QED
    BY <1>1, Inductive, PTL
=============================================================================
