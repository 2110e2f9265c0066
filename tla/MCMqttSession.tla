--------------------------- MODULE MCMqttSession ---------------------------
(* Small instances of MqttSession: two project topics, one of which is     *)
(* longer than kMaxTopicLen, and messages of every class of length.        *)
(* One topic is read right, or with the bytes behind it (overrun).         *)
EXTENDS MqttSession

CONSTANTS update, config, power, long, stub, overrun

MCOwnTopics == <<update, config>>
MCAppTopics == {power, long}
MCCut == [t \in {update, config, power, long, stub, overrun} |->
             IF t = long THEN stub ELSE t]
MCReadAs == [t \in DOMAIN MCCut |-> IF t = update THEN {t, overrun} ELSE {t}]
\* Too long for the loop's buffer, for the assembly, and whole at once.
MCMessages == {[topic |-> update, size |-> 2], [topic |-> config, size |-> 3],
               [topic |-> long, size |-> 1]}
=============================================================================
