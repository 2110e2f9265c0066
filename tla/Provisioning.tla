---------------------------- MODULE Provisioning ----------------------------
(***************************************************************************)
(* How a device gets its identity and its tunables, and what it keeps of   *)
(* them: provisionStep() and DeviceStore::saveProvisioning(), the identity *)
(* part of begin(), handleConfig(), the start of the MQTT session from the *)
(* stored credentials, and factoryReset().  The server hands out           *)
(* credentials once and then locks the board until somebody unlocks it.    *)
(*                                                                         *)
(* NVS is a function from keys to values, written one key at a time, and   *)
(* every write lasts (the flash library writes through; commit() only      *)
(* reports).  A value is the number of the grant it came with; an address  *)
(* that came with a configuration is that version, beyond the grants.      *)
(* eraseAll() is one step.  The device can be restarted between any two.   *)
(***************************************************************************)
EXTENDS Naturals, Sequences, FiniteSets

CONSTANTS
    MaxTrouble,   \* bound: how often a write, an answer or the device fails
    TopicSets,    \* which of the three topics a grant may bring
    Configs,      \* retained configurations: [version, api]
    HasFallback,  \* cfg.endpoints holds an address
    OwnTopics,    \* topics named in cfg.topics, up to the first that is not
    HasScheme     \* cfg.topics says how to make topics of a device id

(* Every failed attempt to get an identity costs some trouble, so no more  *)
(* grants than this are ever needed.                                       *)
Grants   == 1..(MaxTrouble + 1)
Absent   == 0
CredKeys == {"device_id", "mqtt_host", "mqtt_port", "mqtt_user", "mqtt_pass"}
TopicKeys == {"topic_ping", "topic_update", "topic_config"}
Keys     == CredKeys \cup TopicKeys
            \cup {"api_base_url", "provisioned", "bootstrap_url", "config_version"}

(* The order in which saveProvisioning() writes.                           *)
SaveOrder == <<"device_id", "mqtt_host", "mqtt_port", "mqtt_user", "mqtt_pass",
               "api_base_url", "topic_ping", "topic_update", "topic_config">>

ASSUME GrantsAssumption ==
    /\ MaxTrouble \in Nat /\ TopicSets \subseteq SUBSET TopicKeys
    /\ HasFallback \in BOOLEAN /\ HasScheme \in BOOLEAN
    /\ OwnTopics \subseteq TopicKeys

ASSUME ConfigsAssumption == Configs \subseteq [version: Nat \ {0}, api: BOOLEAN]

VARIABLES
    nvs,
    \* RAM
    pc,           \* where the loop task is
    at, ok,       \* next key of SaveOrder; no write has failed so far
    grant,        \* the decoded answer: [n, topics]
    device_id,    \* d.device_id: the grant it came with
    topics,       \* d.topics: where each topic comes from
    session,      \* what the running MQTT session was started with: {} if none
    downloading,  \* state is Downloading
    paused,       \* mqtt_paused_for_ota
    cfg_version,  \* remote_cfg.config_version
    cfg_addr,     \* remote_cfg.api_base_url: the version that named it
    doc,          \* configuration being applied
    \* environment
    locked,       \* the server has delivered and waits to be unlocked
    issued,       \* grants so far
    trouble,      \* how much may still go wrong
    \* observation only: never read by an action
    mishaps,      \* what went wrong and was not made up for
    newest        \* newest configuration applied since the last factory reset

ramVars  == <<pc, at, ok, grant, device_id, topics, session, downloading, paused,
              cfg_version, cfg_addr, doc>>
vars     == <<nvs, ramVars, locked, issued, trouble, mishaps, newest>>

(* wiped: factoryReset() since the last restart; unfinished: a save set    *)
(* the flag and was not seen through; kept: the seeded address was not     *)
(* erased; missed: the address in force was not written.                   *)
Mishaps == {"wiped", "unfinished", "kept", "missed"}

-----------------------------------------------------------------------------
NoSource  == <<"none", 0>>
OwnSource == <<"own", 0>>
Sources   == {NoSource, OwnSource} \cup ({"default", "given"} \X Grants)
NoTopics  == [k \in TopicKeys |-> NoSource]
Versions == {c.version : c \in Configs} \cup {0}
Addr(v)  == MaxTrouble + 1 + v     \* the address configuration v names
NoDoc    == [version |-> 0, api |-> FALSE]
NoGrant  == [n |-> 0, topics |-> {}]

IsProvisioned == nvs["provisioned"] # 0 /\ nvs["device_id"] # Absent

(* TopicResolver::build: the project's own topics count if all are named,  *)
(* else each is made of the device id.  Without a scheme, a slug that is   *)
(* missing, what was named stays.  No device id makes a topic too long.    *)
BuildTopics(id) ==
    [k \in TopicKeys |->
        IF HasScheme /\ OwnTopics # TopicKeys THEN <<"default", id>>
        ELSE IF k \in OwnTopics THEN OwnSource ELSE NoSource]

(* Mutant: the topics of the answer are left for the next restart.         *)
NoneApplied(t, g) == t

(* applyProvisioned(): those the answer brought replace the derived ones.  *)
ApplyProvisioned(t, g) ==
    [k \in TopicKeys |-> IF k \in g.topics THEN <<"given", g.n>> ELSE t[k]]

(* What begin() makes of NVS: the stored topics count only all together.   *)
StoredTopics ==
    IF nvs["device_id"] = Absent THEN NoTopics
    ELSE IF \A k \in TopicKeys : nvs[k] # Absent
    THEN [k \in TopicKeys |-> <<"given", nvs[k]>>]
    ELSE BuildTopics(nvs["device_id"])

TypeOK ==
    /\ nvs \in [Keys -> Nat]
    /\ pc \in {"loop", "save", "undo", "flag", "forget", "commit", "config"}
    /\ at \in 1..Len(SaveOrder) /\ ok \in BOOLEAN
    /\ grant \in [n: Grants \cup {0}, topics: SUBSET TopicKeys]
    /\ device_id \in Grants \cup {Absent} /\ topics \in [TopicKeys -> Sources]
    /\ session \subseteq Grants
    /\ downloading \in BOOLEAN /\ paused \in BOOLEAN
    /\ cfg_version \in Versions /\ cfg_addr \in Versions
    /\ doc \in Configs \cup {NoDoc}
    /\ locked \in BOOLEAN /\ issued \in 0..(MaxTrouble + 1)
    /\ trouble \in 0..MaxTrouble /\ mishaps \subseteq Mishaps
    /\ newest \in Versions

(* A unit as it leaves production, with or without a seeded address.       *)
Init ==
    /\ nvs \in {[[k \in Keys |-> Absent] EXCEPT !["bootstrap_url"] = b] : b \in {0, 1}}
    /\ pc = "loop" /\ at = 1 /\ ok = TRUE /\ grant = NoGrant
    /\ device_id = Absent /\ topics = NoTopics /\ session = {}
    /\ downloading = FALSE /\ paused = FALSE
    /\ cfg_version = 0 /\ cfg_addr = 0 /\ doc = NoDoc
    /\ locked \in BOOLEAN /\ issued = 0 /\ trouble = MaxTrouble /\ mishaps = {}
    /\ newest = 0

(* Something goes wrong: a restart, a write that does not reach the flash. *)
Trouble == trouble > 0 /\ trouble' = trouble - 1

Works(w) == IF w THEN UNCHANGED trouble ELSE Trouble

-----------------------------------------------------------------------------
(* provisionStep.  A pass that is not due, has no link or no DNS changes   *)
(* nothing.                                                                *)

ProvisionVars == <<nvs, at, ok, device_id, topics, session, paused, cfg_version,
                   cfg_addr, doc, mishaps, newest>>

(* apiBase(): the stored address, the seeded one, the compiled-in one.     *)
HasAddress ==
    nvs["api_base_url"] # Absent \/ nvs["bootstrap_url"] # Absent \/ HasFallback

(* The POST; from here on the device is in state Provisioning, whatever it *)
(* was doing.                                                              *)
Post == pc = "loop" /\ ~IsProvisioned /\ HasAddress /\ downloading' = FALSE

(* No answer, and the server may have delivered all the same.              *)
Unreached ==
    /\ Post /\ Trouble
    /\ locked' \in {locked, TRUE}
    /\ UNCHANGED <<pc, grant, issued, ProvisionVars>>

(* 403 for a board that is locked.                                         *)
Denied ==
    /\ Post /\ locked
    /\ UNCHANGED <<pc, grant, locked, issued, trouble, ProvisionVars>>

Granted ==
    /\ Post /\ ~locked /\ issued \in 0..MaxTrouble
    /\ locked' = TRUE /\ issued' = issued + 1
    /\ \E t \in TopicSets : grant' = [n |-> issued + 1, topics |-> t]
    /\ pc' = "save"
    /\ UNCHANGED <<trouble, ProvisionVars>>

-----------------------------------------------------------------------------
(* saveProvisioning.                                                       *)

SaveVars == <<session, downloading, paused, cfg_version, cfg_addr, doc, locked,
              issued, newest>>

(* Its local variables go out of scope.                                    *)
Return == pc' = "loop" /\ at' = 1 /\ ok' = TRUE /\ grant' = NoGrant

(* Mutant: a failed write is forgotten.                                    *)
WriteIgnored(w) == ok

(* ok = set(...) && ok.                                                    *)
WriteSeen(w) == ok /\ w

(* The next key, or the one after it if the answer does not have it.       *)
SaveKey ==
    /\ pc = "save"
    /\ LET key == SaveOrder[at]
       IN IF key \in TopicKeys /\ key \notin grant.topics
          THEN UNCHANGED <<nvs, ok, trouble>>
          ELSE \E w \in BOOLEAN :
                  /\ Works(w)
                  /\ nvs' = IF w THEN [nvs EXCEPT ![key] = grant.n] ELSE nvs
                  /\ ok' = WriteSeen(w)
    /\ IF at = Len(SaveOrder)
       THEN pc' = IF ok' THEN "flag" ELSE "undo"
       ELSE UNCHANGED pc
    /\ at' = IF at = Len(SaveOrder) THEN 1 ELSE at + 1
    /\ UNCHANGED <<grant, device_id, topics, mishaps, SaveVars>>

(* Never leave a half-written credential set behind.                       *)
UndoFlag ==
    /\ pc = "undo"
    /\ \E w \in BOOLEAN :
          /\ Works(w)
          /\ nvs' = IF w THEN [nvs EXCEPT !["provisioned"] = 0] ELSE nvs
    /\ Return
    /\ UNCHANGED <<device_id, topics, mishaps, SaveVars>>

SetFlag ==
    /\ pc = "flag"
    /\ \E w \in BOOLEAN :
          /\ Works(w)
          /\ nvs' = IF w THEN [nvs EXCEPT !["provisioned"] = 1] ELSE nvs
          /\ ok' = w
          /\ mishaps' = IF w THEN mishaps \cup {"unfinished"} ELSE mishaps
    /\ pc' = "forget"
    /\ UNCHANGED <<at, grant, device_id, topics, SaveVars>>

(* Mutant: the seeded address is kept.                                     *)
AddressKept == nvs

(* The endpoint is no longer needed, so stop carrying it.                  *)
WithoutBootstrap == [nvs EXCEPT !["bootstrap_url"] = Absent]

(* Its result is not looked at.                                            *)
ForgetBootstrap ==
    /\ pc = "forget"
    /\ \E w \in BOOLEAN :
          /\ Works(w)
          /\ nvs' = IF w THEN WithoutBootstrap ELSE nvs
          /\ mishaps' = IF w THEN mishaps \ {"kept"} ELSE mishaps \cup {"kept"}
    /\ pc' = "commit"
    /\ UNCHANGED <<at, ok, grant, device_id, topics, SaveVars>>

(* Mutant: an identity found at boot is not replaced.                      *)
FirstIdentity(n) == IF device_id = Absent THEN n ELSE device_id

NewIdentity(n) == n

(* The identity is taken over into RAM unless saveProvisioning() failed.   *)
Commit ==
    /\ pc = "commit"
    /\ \E w \in BOOLEAN :
          /\ Works(w)
          /\ IF w /\ ok
             THEN /\ device_id' = NewIdentity(grant.n)
                  /\ topics' = ApplyProvisioned(BuildTopics(grant.n), grant)
                  /\ mishaps' = mishaps \ {"unfinished"}
             ELSE UNCHANGED <<device_id, topics, mishaps>>
    /\ Return
    /\ UNCHANGED <<nvs, SaveVars>>

-----------------------------------------------------------------------------
(* A pass of a provisioned device.                                         *)

Pass == pc = "loop" /\ IsProvisioned

(* mqttStep: the credentials are read from NVS, the client id from RAM.    *)
StartSession ==
    /\ Pass /\ ~paused /\ session = {} /\ device_id # Absent
    /\ \A k \in CredKeys : nvs[k] # Absent
    /\ session' = {nvs[k] : k \in CredKeys} \cup {device_id}
    /\ UNCHANGED <<nvs, pc, at, ok, grant, device_id, topics, downloading, paused,
                   cfg_version, cfg_addr, doc, locked, issued, trouble, mishaps,
                   newest>>

(* Mutant: a retained document is applied again whatever its version.      *)
AnyVersion(v) == TRUE

(* applyConfigVersion(): retained, so only a strictly newer one counts.    *)
Newer(v) == v > nvs["config_version"]

ConfigVars == <<at, ok, grant, device_id, topics, session, downloading, paused,
                locked, issued>>

(* handleConfig: the version is persisted first, and has to be reported    *)
(* as persisted.                                                           *)
TakeConfig(c) ==
    /\ Pass /\ session # {} /\ Newer(c.version)
    /\ \/ /\ nvs' = [nvs EXCEPT !["config_version"] = c.version]
          /\ doc' = c /\ pc' = "config"
          /\ UNCHANGED trouble
       \/ /\ Trouble
          /\ nvs' \in {nvs, [nvs EXCEPT !["config_version"] = c.version]}
          /\ UNCHANGED <<doc, pc>>
    /\ UNCHANGED <<cfg_version, cfg_addr, mishaps, newest, ConfigVars>>

(* Mutant: only a document that names the address has it stored.           *)
OnlyNewAddress(named) == IF named = doc.version THEN named ELSE 0

(* Parsed onto a copy of the configuration in force, so an address stays   *)
(* and is stored again.                                                    *)
AddressToStore(named) == named

(* remoteconfig::parse: a value the document does not have stays.          *)
NamedAddress(c) == IF c.api THEN c.version ELSE cfg_addr

(* Then the values, in RAM, and the address, in NVS.                       *)
ApplyConfig ==
    /\ pc = "config"
    /\ LET named == NamedAddress(doc)
           store == AddressToStore(named)
       IN /\ cfg_version' = doc.version /\ cfg_addr' = named
          /\ \E w \in BOOLEAN :
                /\ IF store = 0 \/ nvs["api_base_url"] = Addr(store)
                   THEN w /\ UNCHANGED <<nvs, trouble>>
                   ELSE /\ Works(w)
                        /\ nvs' = IF w THEN [nvs EXCEPT !["api_base_url"] = Addr(store)]
                                  ELSE nvs
                /\ mishaps' = IF named = 0 THEN mishaps
                              ELSE IF w THEN mishaps \ {"missed"}
                              ELSE mishaps \cup {"missed"}
    /\ newest' = IF doc.version > newest THEN doc.version ELSE newest
    /\ doc' = NoDoc /\ pc' = "loop"
    /\ UNCHANGED ConfigVars

DownloadVars == <<nvs, pc, at, ok, grant, device_id, topics, cfg_version, cfg_addr,
                  doc, locked, issued, trouble, mishaps, newest>>

(* startDownload takes the session away for the time of a download.        *)
StartDownload ==
    /\ Pass /\ session # {} /\ ~downloading
    /\ downloading' = TRUE /\ paused' = TRUE /\ session' = {}
    /\ UNCHANGED DownloadVars

(* Mutant: the pause outlives the download.                                *)
StillPaused(p) == p

Resumed(p) == FALSE

(* However it ends, short of a restart, it gives the session back.         *)
EndDownload ==
    /\ Pass /\ downloading
    /\ downloading' = FALSE /\ paused' = Resumed(paused)
    /\ UNCHANGED <<session, DownloadVars>>

-----------------------------------------------------------------------------
(* factoryReset(), called between two passes: NVS, and nothing else.       *)
FactoryReset ==
    /\ pc = "loop" /\ Trouble
    /\ nvs' = [k \in Keys |-> Absent]
    /\ mishaps' = (mishaps \cup {"wiped"}) \ {"kept"} /\ newest' = 0
    /\ UNCHANGED <<ramVars, locked, issued>>

(* seedBootstrapUrl(), on a unit about to ship.                            *)
SeedBootstrapUrl ==
    /\ pc = "loop" /\ ~IsProvisioned
    /\ nvs' = [nvs EXCEPT !["bootstrap_url"] = 1]
    /\ UNCHANGED <<ramVars, locked, issued, trouble, mishaps, newest>>

(* A reset at any point, and the identity part of begin().                 *)
Restart ==
    /\ Trouble /\ Return
    /\ device_id' = nvs["device_id"] /\ topics' = StoredTopics
    /\ session' = {} /\ downloading' = FALSE /\ paused' = FALSE
    /\ cfg_version' = 0 /\ cfg_addr' = 0 /\ doc' = NoDoc
    /\ mishaps' = mishaps \ {"wiped", "missed"}
    /\ UNCHANGED <<nvs, locked, issued, newest>>

(* Somebody releases the board in the panel.                               *)
Unlock ==
    /\ locked /\ locked' = FALSE
    /\ UNCHANGED <<nvs, ramVars, issued, trouble, mishaps, newest>>

-----------------------------------------------------------------------------
Save == SaveKey \/ UndoFlag \/ SetFlag \/ ForgetBootstrap \/ Commit

Next ==
    \/ Unreached \/ Denied \/ Granted \/ Save
    \/ StartSession \/ (\E c \in Configs : TakeConfig(c)) \/ ApplyConfig
    \/ StartDownload \/ EndDownload
    \/ FactoryReset \/ SeedBootstrapUrl \/ Restart \/ Unlock

Spec == Init /\ [][Next]_vars

(* loop() is called for ever, a download ends, a denied device asks again  *)
(* when its back-off is over, a session that may start does, and somebody  *)
(* releases a board that was locked.                                       *)
FairSpec ==
    /\ Spec
    /\ WF_vars(Save \/ ApplyConfig) /\ WF_vars(EndDownload) /\ WF_vars(StartSession)
    /\ SF_vars(Granted) /\ WF_vars(Unlock)

-----------------------------------------------------------------------------
(* Never half a credential set: what a provisioned device connects with    *)
(* came with one answer, whatever write failed and wherever a reset fell   *)
(* (saveProvisioning).                                                     *)
AllOrNothing ==
    IsProvisioned => \A j, k \in CredKeys : nvs[j] = nvs[k]

(* All topics of one grant, or none.  The others are not looked at.        *)
WholeTopics ==
    \/ \A k \in TopicKeys : nvs[k] = Absent
    \/ \A k \in TopicKeys : nvs[k] = nvs["device_id"]

(* A restart does not change who a provisioned device is and where it      *)
(* listens, provided it has all topics or none, the save was seen through  *)
(* and nobody reset the device under way (Commit and begin).               *)
RestartKeepsIdentity ==
    pc = "loop" /\ IsProvisioned /\ WholeTopics /\ {"unfinished", "wiped"} \cap mishaps = {}
        => device_id = nvs["device_id"] /\ topics = StoredTopics

(* A session speaks for one identity: user, password and client id belong  *)
(* together and are those on record (mqttStep), unless a save reported a   *)
(* failure after the flag was set or the device was reset under way.       *)
SessionIsCurrent ==
    session # {} /\ {"unfinished", "wiped"} \cap mishaps = {} =>
        session = {nvs["device_id"]}

(* A provisioned unit does not carry the address it was shipped with,      *)
(* unless the save that made it so was cut short or could not erase it     *)
(* (saveProvisioning).                                                     *)
BootstrapForgotten ==
    pc = "loop" /\ IsProvisioned /\ {"unfinished", "kept"} \cap mishaps = {} =>
        nvs["bootstrap_url"] = Absent

(* What is in force is the newest configuration the device ever applied,   *)
(* or the project's own values after a restart: never an older one,        *)
(* whatever is redelivered, in which order and after which restart         *)
(* (handleConfig).                                                         *)
NeverAnOlderConfig == "wiped" \notin mishaps => cfg_version \in {0, newest}

(* The address a configuration named reaches NVS unless that very write    *)
(* failed, and the next configuration makes up for it (handleConfig).      *)
AddressFollowsConfig ==
    pc = "loop" /\ cfg_addr # 0 /\ {"wiped", "missed"} \cap mishaps = {} =>
        nvs["api_base_url"] = Addr(cfg_addr)

(* A device that has an address to ask gets its identity and its session,  *)
(* however its attempts were interrupted, and gets the session back after  *)
(* every download (provisionStep, mqttStep).                               *)
ComesOnline ==
    <>[](HasAddress /\ {"wiped", "unfinished"} \cap mishaps = {}) => []<>(session # {})

-----------------------------------------------------------------------------
(* What makes these inductive.                                             *)

Idle == pc \in {"loop", "config"}

(* The flag is down while credentials are written, and those written so    *)
(* far are of this grant unless a write has failed.                        *)
SaveInv ==
    /\ \A k \in CredKeys \cup TopicKeys : nvs[k] \in Grants \cup {Absent}
    /\ nvs["provisioned"] # 0 => nvs["device_id"] # Absent
    /\ pc \in {"save", "undo", "flag"} => nvs["provisioned"] = 0
    /\ ~Idle => grant.n # Absent
    /\ pc # "save" => at = 1
    /\ pc = "save" /\ ok =>
          \A i \in 1..(at - 1) : SaveOrder[i] \in CredKeys => nvs[SaveOrder[i]] = grant.n
    /\ pc \in {"flag", "forget", "commit"} => \A k \in CredKeys : nvs[k] = grant.n

(* Whose identity is in RAM, and that there is no session while it is      *)
(* being replaced.                                                         *)
IdentityInv ==
    /\ pc \in {"forget", "commit"} /\ nvs["provisioned"] # 0 => "unfinished" \in mishaps
    /\ pc \in {"forget", "commit"} => (ok <=> nvs["provisioned"] # 0)
    /\ Idle /\ IsProvisioned /\ {"unfinished", "wiped"} \cap mishaps = {} =>
          device_id = nvs["device_id"]
    /\ session # {} /\ "wiped" \notin mishaps => IsProvisioned /\ Idle

(* A grant is newer than all that is stored, so that a topic of its number *)
(* came with it.                                                           *)
TopicsInv ==
    /\ \A k \in TopicKeys : nvs[k] <= issued
    /\ ~Idle => grant.n = issued /\ \A k \in TopicKeys : nvs[k] = issued => k \in grant.topics
    /\ pc = "save" /\ ok =>
          \A i \in 1..(at - 1) : SaveOrder[i] \in grant.topics => nvs[SaveOrder[i]] = grant.n
    /\ pc \in {"flag", "forget", "commit"} =>
          \A k \in TopicKeys : k \in grant.topics => nvs[k] = grant.n
    /\ Idle /\ IsProvisioned /\ WholeTopics /\ {"unfinished", "wiped"} \cap mishaps = {} =>
          topics = StoredTopics

(* The seeded address is gone before its device counts as seen through.    *)
BootstrapInv ==
    /\ pc = "commit" /\ "kept" \notin mishaps => nvs["bootstrap_url"] = Absent
    /\ Idle /\ IsProvisioned /\ {"unfinished", "kept"} \cap mishaps = {} =>
          nvs["bootstrap_url"] = Absent

(* Record, configuration in force and configuration under way.             *)
ConfigInv ==
    /\ newest <= nvs["config_version"]
    /\ pc = "config" =>
          IsProvisioned /\ doc.version = nvs["config_version"] /\ newest < doc.version
    /\ cfg_addr # 0 /\ "wiped" \notin mishaps => IsProvisioned /\ Idle
    /\ cfg_addr # 0 /\ {"wiped", "missed"} \cap mishaps = {} =>
          nvs["api_base_url"] = Addr(cfg_addr)

IInv ==
    /\ TypeOK /\ SaveInv /\ IdentityInv /\ TopicsInv /\ BootstrapInv /\ ConfigInv
    /\ AllOrNothing /\ SessionIsCurrent /\ NeverAnOlderConfig
=============================================================================
