--------------------------- MODULE MCProvisioning ---------------------------
(* Small instances of Provisioning.                                        *)
EXTENDS Provisioning

MCTopicSets == {{}, {"topic_update"}, TopicKeys}
MCConfigs == {[version |-> 1, api |-> TRUE], [version |-> 2, api |-> FALSE]}
=============================================================================
