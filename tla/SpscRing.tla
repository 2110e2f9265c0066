------------------------------ MODULE SpscRing ------------------------------
(***************************************************************************)
(* The single-producer single-consumer ring between the esp-mqtt task,     *)
(* which pushes messages, and the task that calls loop(), which pops and   *)
(* clears.  There is no lock: a step is one access to an atomic index or   *)
(* one part of the copy into or out of a slot, so that a slot read while   *)
(* it is being written would show as a message whose parts differ.  Every  *)
(* store of an index is a release and every load of the other task's index *)
(* an acquire, so the accesses are taken to interleave.                    *)
(***************************************************************************)
EXTENDS Naturals, Sequences

CONSTANTS
    Slots,      \* slots of the ring; one of them is always free
    Messages,   \* messages that fit a slot
    TooLong,    \* messages longer than a slot
    LongTopics, \* messages that fit, but whose topic does not (96 bytes)
    Cut,        \* a topic cut short
    None,       \* an empty slot
    Wrap        \* 2^32: the width of the drop counter

ASSUME SlotsAssumption == Slots \in Nat /\ Slots >= 2
ASSUME WrapAssumption == Wrap \in Nat \ {0}
ASSUME MessagesAssumption == None \notin Messages /\ None \notin LongTopics

VARIABLES
    slots, head, tail, dropped,   \* the ring
    ppc, msg,                     \* producer: where it is, what it pushes
    cpc, copy, upto,              \* consumer: where it is, pop's out, clear's head
    taken,                        \* last message pop returned
    refused                       \* last message push refused

ringVars == <<slots, head, tail, dropped>>
prodVars == <<ppc, msg, refused>>
consVars == <<cpc, copy, upto, taken>>
vars     == <<ringVars, prodVars, consVars>>

Index == 0..(Slots - 1)

Empty    == [topic |-> None, payload |-> None]
SlotType == [topic: Messages \cup {None, Cut}, payload: Messages \cup {None}]

(* A topic that does not fit its field is cut, not refused.                *)
TopicOf(m) == IF m \in LongTopics THEN Cut ELSE m
Stored(m)  == [topic |-> TopicOf(m), payload |-> m]

(* (i + 1) % Slots.                                                        *)
After(i) == IF i = Slots - 1 THEN 0 ELSE i + 1

(* Steps from index a forward to index b.                                  *)
Dist(a, b) == IF a <= b THEN b - a ELSE b + Slots - a

-----------------------------------------------------------------------------
(* push(), called on the esp-mqtt task.                                    *)

(* Mutant: the ring is believed full one message too late.                 *)
NeverFull == FALSE

Full == After(head) = tail

Refuse(m) == refused' = m /\ dropped' = (dropped + 1) % Wrap

PushTooLong ==
    /\ ppc = "idle"
    /\ \E m \in TooLong : Refuse(m)
    /\ UNCHANGED <<slots, head, tail, ppc, msg, consVars>>

PushFull ==
    /\ ppc = "idle" /\ Full
    /\ \E m \in Messages : Refuse(m)
    /\ UNCHANGED <<slots, head, tail, ppc, msg, consVars>>

PushBegin ==
    /\ ppc = "idle" /\ ~Full
    /\ \E m \in Messages : msg' = m
    /\ ppc' = "topic"
    /\ UNCHANGED <<ringVars, refused, consVars>>

WriteTopic ==
    /\ ppc = "topic"
    /\ slots' = [slots EXCEPT ![head].topic = TopicOf(msg)]
    /\ ppc' = "payload"
    /\ UNCHANGED <<head, tail, dropped, msg, refused, consVars>>

WritePayload ==
    /\ ppc = "payload"
    /\ slots' = [slots EXCEPT ![head].payload = msg]
    /\ ppc' = "publish"
    /\ UNCHANGED <<head, tail, dropped, msg, refused, consVars>>

Publish ==
    /\ ppc = "publish"
    /\ head' = After(head)
    /\ ppc' = "idle"
    /\ UNCHANGED <<slots, tail, dropped, msg, refused, consVars>>

Producer == PushTooLong \/ PushFull \/ PushBegin \/ WriteTopic
               \/ WritePayload \/ Publish

-----------------------------------------------------------------------------
(* pop() and clear(), called on the loop task.  A pop that finds the ring  *)
(* empty changes nothing.                                                  *)

PopBegin ==
    /\ cpc = "idle" /\ tail # head
    /\ cpc' = "topic"
    /\ UNCHANGED <<ringVars, prodVars, copy, upto, taken>>

CopyTopic ==
    /\ cpc = "topic"
    /\ copy' = [copy EXCEPT !.topic = slots[tail].topic]
    /\ cpc' = "payload"
    /\ UNCHANGED <<ringVars, prodVars, upto, taken>>

CopyPayload ==
    /\ cpc = "payload"
    /\ copy' = [copy EXCEPT !.payload = slots[tail].payload]
    /\ cpc' = "release"
    /\ UNCHANGED <<ringVars, prodVars, upto, taken>>

(* Mutant: the slot is returned but not released.                          *)
ReleaseNothing ==
    /\ cpc = "release"
    /\ taken' = copy
    /\ cpc' = "idle"
    /\ UNCHANGED <<ringVars, prodVars, copy, upto>>

Release ==
    /\ cpc = "release"
    /\ tail' = After(tail)
    /\ taken' = copy
    /\ cpc' = "idle"
    /\ UNCHANGED <<slots, head, dropped, prodVars, copy, upto>>

ClearBegin ==
    /\ cpc = "idle"
    /\ upto' = head
    /\ cpc' = "clear"
    /\ UNCHANGED <<ringVars, prodVars, copy, taken>>

ClearEnd ==
    /\ cpc = "clear"
    /\ tail' = upto
    /\ cpc' = "idle"
    /\ UNCHANGED <<slots, head, dropped, prodVars, copy, upto, taken>>

Pop      == PopBegin \/ CopyTopic \/ CopyPayload \/ Release
Consumer == Pop \/ ClearBegin \/ ClearEnd

-----------------------------------------------------------------------------
Init ==
    /\ slots = [i \in Index |-> Empty]
    /\ head = 0 /\ tail = 0 /\ dropped = 0
    /\ ppc = "idle" /\ msg = None /\ refused = None
    /\ cpc = "idle" /\ copy = Empty /\ upto = 0 /\ taken = Empty

Next == Producer \/ Consumer

Spec == Init /\ [][Next]_vars

-----------------------------------------------------------------------------
(* Properties.                                                             *)

TypeOK ==
    /\ slots \in [Index -> SlotType]
    /\ head \in Index /\ tail \in Index /\ dropped \in 0..(Wrap - 1)
    /\ ppc \in {"idle", "topic", "payload", "publish"}
    /\ msg \in Messages \cup {None}
    /\ cpc \in {"idle", "topic", "payload", "release", "clear"}
    /\ copy \in SlotType /\ upto \in Index
    /\ taken \in SlotType /\ refused \in Messages \cup TooLong \cup {None}

(* The slot being written is free and the slot being read is filled, so    *)
(* the two tasks never touch the same slot.                                *)
NoRace ==
    /\ ppc # "idle" => ~Full /\ msg \in Messages
    /\ cpc \in {"topic", "payload", "release"} => tail # head

(* What the producer has written so far, and what the consumer has read.   *)
PartsInv ==
    /\ ppc \in {"payload", "publish"} => slots[head].topic = TopicOf(msg)
    /\ ppc = "publish" => slots[head].payload = msg
    /\ cpc \in {"payload", "release"} => copy.topic = slots[tail].topic
    /\ cpc = "release" => copy.payload = slots[tail].payload

(* clear() goes forward, and no further than what has been published.      *)
ClearInv == cpc = "clear" => Dist(tail, upto) <= Dist(tail, head)

(* Every queued slot holds all of one message.                             *)
QueuedInv ==
    \A i \in Index : Dist(tail, i) < Dist(tail, head) =>
        \E m \in Messages : slots[i] = Stored(m)

IInv == TypeOK /\ NoRace /\ PartsInv /\ ClearInv /\ QueuedInv

(* The queue the ring stands for.                                          *)
At(k) == IF tail + k < Slots THEN tail + k ELSE tail + k - Slots

Queue == [k \in 1..Dist(tail, head) |-> slots[At(k - 1)]]

Fifo == INSTANCE BoundedFifo WITH
            Items <- {Stored(m) : m \in Messages},
            Unfit <- {Stored(m) : m \in TooLong},
            Nothing <- Empty, Cap <- Slots - 1,
            queue <- Queue, refused <- Stored(refused)

(* The ring is a bounded queue: nothing torn, reordered, duplicated or     *)
(* lost without being counted.                                             *)
ImplementsFifo == Fifo!Spec
=============================================================================
