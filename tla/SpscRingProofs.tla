--------------------------- MODULE SpscRingProofs ---------------------------
(***************************************************************************)
(* Proofs about SpscRing: its inductive invariant, and that the ring       *)
(* implements BoundedFifo for every number of slots.                       *)
(***************************************************************************)
EXTENDS SpscRing, SequenceTheorems, TLAPS

(* The next index is an index.                                             *)
LEMMA AfterIndex == \A i \in Index : After(i) \in Index
  BY SlotsAssumption DEF Index, After

(* Distances are numbers below Slots, and zero only between equals.        *)
LEMMA DistFacts ==
  \A a, b \in Index :
      /\ Dist(a, b) \in Index
      /\ Dist(a, b) = 0 <=> a = b
      /\ After(b) = a <=> Dist(a, b) = Slots - 1
  BY SlotsAssumption DEF Index, After, Dist

(* Moving an end of the queue by one changes its length by one.            *)
LEMMA DistMoves ==
  \A a, b \in Index :
      /\ After(b) # a => Dist(a, After(b)) = Dist(a, b) + 1
      /\ a # b => Dist(After(a), b) = Dist(a, b) - 1
  BY SlotsAssumption DEF Index, After, Dist

(* Distances add up along the way.                                         *)
LEMMA DistAdds ==
  \A a, b, c \in Index :
      Dist(a, b) <= Dist(a, c) => Dist(a, c) = Dist(a, b) + Dist(b, c)
  BY SlotsAssumption DEF Index, Dist

(* Two slots at the same distance from a third are the same slot.          *)
LEMMA DistInjective ==
  \A a, b, c \in Index : Dist(a, b) = Dist(a, c) => b = c
  BY SlotsAssumption DEF Index, Dist

-----------------------------------------------------------------------------
(* The inductive invariant.                                                *)

(* The ring starts empty, with both tasks outside of it.                   *)
LEMMA InitInv == Init => IInv
  <1> SUFFICES ASSUME Init PROVE IInv
    OBVIOUS
  <1>1. TypeOK
    BY SlotsAssumption, WrapAssumption
    DEF Init, TypeOK, Index, SlotType, Empty
  <1>2. NoRace /\ PartsInv /\ ClearInv
    BY DEF Init, NoRace, PartsInv, ClearInv
  <1>3. QueuedInv
    BY SlotsAssumption DEF Init, QueuedInv, Index, Dist
  <1> QED BY <1>1, <1>2, <1>3 DEF IInv

(* Steps of the producer.                                                  *)
LEMMA ProducerInv == IInv /\ Producer => IInv'
  <1> SUFFICES ASSUME IInv, Producer PROVE IInv'
    OBVIOUS
  <1> USE DEF IInv
  <1>1. CASE PushTooLong \/ PushFull
    <2>1. PICK m \in Messages \cup TooLong : Refuse(m)
      BY <1>1 DEF PushTooLong, PushFull
    <2>2. (dropped + 1) % Wrap \in 0..(Wrap - 1)
      BY WrapAssumption DEF TypeOK
    <2>3. UNCHANGED <<slots, head, tail, ppc, msg, consVars>>
      BY <1>1 DEF PushTooLong, PushFull
    <2>4. TypeOK'
      BY <2>1, <2>2, <2>3 DEF TypeOK, Refuse, consVars
    <2>5. (NoRace /\ PartsInv /\ ClearInv /\ QueuedInv)'
      BY <2>3 DEF NoRace, PartsInv, ClearInv, QueuedInv, consVars, Full
    <2> QED BY <2>4, <2>5
  <1>2. CASE PushBegin
    <2> USE <1>2 DEF PushBegin, ringVars, consVars
    <2>1. TypeOK'
      BY DEF TypeOK
    <2>2. (NoRace /\ PartsInv /\ ClearInv /\ QueuedInv)'
      BY DEF NoRace, PartsInv, ClearInv, QueuedInv, Full
    <2> QED BY <2>1, <2>2
  <1>3. CASE WriteTopic \/ WritePayload
    <2>1. UNCHANGED <<head, tail, dropped, msg, refused, consVars>>
      BY <1>3 DEF WriteTopic, WritePayload
    <2>2. /\ ppc # "idle" /\ ppc' # "idle"
          /\ ppc' \in {"payload", "publish"}
      BY <1>3 DEF WriteTopic, WritePayload
    <2>3. \A i \in Index \ {head} : slots'[i] = slots[i]
      BY <1>3 DEF WriteTopic, WritePayload, TypeOK
    <2>4. TypeOK'
      <3>1. slots' \in [Index -> SlotType]
        BY <1>3, <2>2 DEF WriteTopic, WritePayload, TypeOK, SlotType, NoRace, Stored, TopicOf
      <3> QED BY <2>1, <2>2, <3>1 DEF TypeOK, consVars
    <2>5. NoRace'
      BY <2>1, <2>2 DEF NoRace, Full, consVars
    <2>6. /\ ppc' \in {"payload", "publish"} => slots'[head].topic = TopicOf(msg)
          /\ ppc' = "publish" => slots'[head].payload = msg
      BY <1>3 DEF WriteTopic, WritePayload, TypeOK, PartsInv, SlotType
    <2>7. cpc \in {"topic", "payload", "release"} => slots'[tail] = slots[tail]
      BY <2>3 DEF NoRace, TypeOK
    <2>8. PartsInv'
      BY <2>1, <2>6, <2>7 DEF PartsInv, consVars, TopicOf
    <2>9. ClearInv'
      BY <2>1 DEF ClearInv, consVars
    <2>10. QueuedInv'
      <3> SUFFICES ASSUME NEW i \in Index, Dist(tail, i) < Dist(tail, head)
                   PROVE  \E m \in Messages : slots'[i] = Stored(m)
        BY <2>1 DEF QueuedInv
      <3>1. i # head
        BY DistFacts DEF TypeOK, Index
      <3> QED BY <2>3, <3>1 DEF QueuedInv
    <2> QED BY <2>4, <2>5, <2>8, <2>9, <2>10
  <1>4. CASE Publish
    <2> USE <1>4 DEF Publish, consVars
    <2>1. TypeOK'
      BY AfterIndex DEF TypeOK
    <2>2. Dist(tail, head') = Dist(tail, head) + 1 /\ head' # tail
      BY DistMoves, DistFacts DEF NoRace, Full, TypeOK
    <2>3. NoRace' /\ PartsInv'
      BY <2>2 DEF NoRace, PartsInv
    <2>4. ClearInv'
      BY <2>2, DistFacts DEF ClearInv, TypeOK, Index
    <2>5. slots[head] = Stored(msg) /\ msg \in Messages
      BY DEF PartsInv, NoRace, TypeOK, SlotType, Stored, TopicOf
    <2>6. QueuedInv'
      <3> SUFFICES ASSUME NEW i \in Index, Dist(tail, i) < Dist(tail, head')
                   PROVE  \E m \in Messages : slots[i] = Stored(m)
        BY DEF QueuedInv
      <3>1. tail \in Index /\ head \in Index
        BY DEF TypeOK
      <3>2. Dist(tail, i) \in Nat /\ Dist(tail, head) \in Nat
        BY <3>1, DistFacts DEF Index
      <3>3. Dist(tail, i) < Dist(tail, head) \/ Dist(tail, i) = Dist(tail, head)
        BY <2>2, <3>2
      <3>4. Dist(tail, i) < Dist(tail, head) \/ i = head
        BY <3>1, <3>3, DistInjective
      <3> QED BY <2>5, <3>4 DEF QueuedInv
    <2> QED BY <2>1, <2>3, <2>4, <2>6
  <1> QED BY <1>1, <1>2, <1>3, <1>4 DEF Producer

(* Steps of the consumer.                                                  *)
LEMMA ConsumerInv == IInv /\ Consumer => IInv'
  <1> SUFFICES ASSUME IInv, Consumer PROVE IInv'
    OBVIOUS
  <1> USE DEF IInv
  <1>1. CASE PopBegin \/ CopyTopic \/ CopyPayload
    <2>1. UNCHANGED <<ringVars, prodVars, upto, taken>>
      BY <1>1 DEF PopBegin, CopyTopic, CopyPayload
    <2>2. TypeOK'
      <3>1. copy' \in SlotType
        BY <1>1 DEF PopBegin, CopyTopic, CopyPayload, TypeOK, SlotType
      <3>2. cpc' \in {"topic", "payload", "release"}
        BY <1>1 DEF PopBegin, CopyTopic, CopyPayload
      <3> QED BY <2>1, <3>1, <3>2 DEF TypeOK, ringVars, prodVars
    <2>3. NoRace'
      BY <1>1, <2>1 DEF PopBegin, CopyTopic, CopyPayload, NoRace, Full,
                        ringVars, prodVars
    <2>4. PartsInv'
      BY <1>1, <2>1 DEF PopBegin, CopyTopic, CopyPayload, PartsInv, TypeOK,
                        SlotType, ringVars, prodVars
    <2>5. ClearInv' /\ QueuedInv'
      BY <1>1, <2>1 DEF PopBegin, CopyTopic, CopyPayload, ClearInv, QueuedInv,
                        ringVars, prodVars
    <2> QED BY <2>2, <2>3, <2>4, <2>5
  <1>2. CASE Release
    <2> USE <1>2 DEF Release, prodVars
    <2>1. TypeOK'
      BY AfterIndex DEF TypeOK
    <2>2. tail # head /\ Dist(tail', head) = Dist(tail, head) - 1
      BY DistMoves DEF NoRace, TypeOK
    <2>3. ~Full' /\ (ppc # "idle" => msg \in Messages)
      <3>1. tail \in Index /\ tail' \in Index /\ head \in Index
        BY AfterIndex DEF TypeOK
      <3>2. Dist(tail, head) \in Index
        BY <3>1, DistFacts
      <3>3. Dist(tail', head) # Slots - 1
        BY <2>2, <3>2, SlotsAssumption DEF Index
      <3>4. After(head) # tail'
        BY <3>1, <3>3, DistFacts
      <3> QED BY <3>4 DEF Full, NoRace
    <2>4. NoRace' /\ PartsInv' /\ ClearInv'
      BY <2>3 DEF NoRace, PartsInv, ClearInv
    <2>5. QueuedInv'
      <3> SUFFICES ASSUME NEW i \in Index, Dist(tail', i) < Dist(tail', head)
                   PROVE  \E m \in Messages : slots[i] = Stored(m)
        BY DEF QueuedInv
      <3>1. Dist(tail, i) < Dist(tail, head)
        BY <2>2, AfterIndex, SlotsAssumption DEF TypeOK, Index, Dist, After
      <3> QED BY <3>1 DEF QueuedInv
    <2> QED BY <2>1, <2>4, <2>5
  <1>3. CASE ClearBegin
    <2> USE <1>3 DEF ClearBegin, ringVars, prodVars
    <2>1. TypeOK'
      BY DEF TypeOK
    <2>2. (NoRace /\ PartsInv /\ QueuedInv)'
      BY DEF NoRace, PartsInv, QueuedInv, Full
    <2>3. ClearInv'
      BY DistFacts DEF ClearInv, TypeOK, Index
    <2> QED BY <2>1, <2>2, <2>3
  <1>4. CASE ClearEnd
    <2> USE <1>4 DEF ClearEnd, prodVars
    <2>1. TypeOK'
      BY DEF TypeOK
    <2>2. Dist(tail, head) = Dist(tail, upto) + Dist(upto, head)
      BY DistAdds DEF ClearInv, TypeOK
    <2>3. ppc # "idle" => ~Full' /\ msg \in Messages
      BY SMTT(30), <2>1, <2>2, DistFacts DEF Full, NoRace, TypeOK, Index
    <2>4. NoRace' /\ PartsInv' /\ ClearInv'
      BY <2>3 DEF NoRace, PartsInv, ClearInv, Full
    <2>5. QueuedInv'
      <3> SUFFICES ASSUME NEW i \in Index, Dist(upto, i) < Dist(upto, head)
                   PROVE  \E m \in Messages : slots[i] = Stored(m)
        BY DEF QueuedInv
      <3>1. Dist(tail, i) < Dist(tail, head)
        BY <2>2, SlotsAssumption DEF TypeOK, Index, Dist
      <3> QED BY <3>1 DEF QueuedInv
    <2> QED BY <2>1, <2>4, <2>5
  <1> QED BY <1>1, <1>2, <1>3, <1>4 DEF Consumer, Pop

(* The two tasks never meet in a slot, and what is queued is whole.        *)
THEOREM RingInv == Spec => []IInv
  <1>1. Init => IInv
    BY InitInv
  <1>2. IInv /\ [Next]_vars => IInv'
    <2> SUFFICES ASSUME IInv, [Next]_vars PROVE IInv'
      OBVIOUS
    <2>1. CASE Next
      BY <2>1, ProducerInv, ConsumerInv DEF Next
    <2>2. CASE UNCHANGED vars
      BY <2>2 DEF vars, ringVars, prodVars, consVars, IInv, TypeOK, NoRace,
                  PartsInv, ClearInv, QueuedInv, Full
    <2> QED BY <2>1, <2>2
  <1> QED BY <1>1, <1>2, PTL DEF Spec

-----------------------------------------------------------------------------
(* The ring as a queue.                                                    *)

(* Wrapping around the end of the ring.                                    *)
LEMMA IndexSum ==
  \A t \in Index : \A j \in 0..(Slots - 1) :
      (IF t + j < Slots THEN t + j ELSE t + j - Slots) \in Index
  BY SlotsAssumption DEF Index

(* The k-th place of the queue is the slot k steps from the tail.          *)
LEMMA AtFacts ==
  ASSUME IInv
  PROVE  \A k \in 0..(Slots - 1) : At(k) \in Index /\ Dist(tail, At(k)) = k
  BY SlotsAssumption DEF IInv, TypeOK, Index, At, Dist

(* The queue is a sequence of whole messages.                              *)
LEMMA QueueFacts ==
  ASSUME IInv
  PROVE  /\ Queue \in Seq(SlotType)
         /\ Len(Queue) = Dist(tail, head)
         /\ Len(Queue) \in 0..(Slots - 1)
  <1>1. Dist(tail, head) \in 0..(Slots - 1) /\ Dist(tail, head) \in Nat
    BY DistFacts DEF IInv, TypeOK, Index
  <1>2. \A k \in 1..Dist(tail, head) : slots[At(k - 1)] \in SlotType
    <2> SUFFICES ASSUME NEW k \in 1..Dist(tail, head)
                 PROVE  slots[At(k - 1)] \in SlotType
      OBVIOUS
    <2>1. k - 1 \in 0..(Slots - 1)
      BY <1>1, SlotsAssumption
    <2> QED BY <2>1, AtFacts DEF IInv, TypeOK
  <1> QED BY <1>1, <1>2 DEF Queue

(* The same after a step.                                                  *)
LEMMA QueueAfter ==
  ASSUME IInv'
  PROVE  /\ Queue' \in Seq(SlotType)
         /\ Len(Queue') = Dist(tail', head')
  <1>1. Dist(tail', head') \in 0..(Slots - 1) /\ Dist(tail', head') \in Nat
    BY DistFacts DEF IInv, TypeOK, Index
  <1>2. \A k \in 1..Dist(tail', head') : slots'[At(k - 1)'] \in SlotType
    <2> SUFFICES ASSUME NEW k \in 1..Dist(tail', head')
                 PROVE  slots'[At(k - 1)'] \in SlotType
      OBVIOUS
    <2>1. k - 1 \in 0..(Slots - 1)
      BY <1>1, SlotsAssumption
    <2>2. tail' \in Index
      BY DEF IInv, TypeOK
    <2>3. PICK j \in 0..(Slots - 1) : j = k - 1
      BY <2>1
    <2>4. At(j)' = IF tail' + j < Slots THEN tail' + j ELSE tail' + j - Slots
      BY DEF At
    <2>5. At(j)' \in Index
      BY <2>2, <2>3, <2>4, IndexSum
    <2> QED BY <2>3, <2>5 DEF IInv, TypeOK
  <1> QED BY <1>1, <1>2 DEF Queue

(* Publishing appends the message.                                         *)
LEMMA PublishPuts ==
  ASSUME IInv, Publish
  PROVE  /\ Len(Queue) < Slots - 1
         /\ \E x \in {Stored(m) : m \in Messages} : Queue' = Append(Queue, x)
  <1> USE DEF Publish
  <1>1. tail \in Index /\ head \in Index
    BY DEF IInv, TypeOK
  <1>2. Dist(tail, head') = Dist(tail, head) + 1 /\ head' # tail
    BY <1>1, DistMoves DEF IInv, NoRace, Full
  <1>3. Dist(tail, head) # Slots - 1
    BY <1>1, DistFacts DEF IInv, NoRace, Full
  <1>4. Dist(tail, head) < Slots - 1 /\ Dist(tail, head) \in Nat
    BY <1>1, <1>3, DistFacts, SlotsAssumption DEF Index
  <1>5. slots[head] = Stored(msg) /\ msg \in Messages
    BY <1>1 DEF IInv, PartsInv, NoRace, TypeOK, SlotType, Stored, TopicOf
  <1>6. At(Dist(tail, head)) = head
    BY <1>1, SlotsAssumption DEF At, Dist, Index
  <1>7. Queue' = [k \in 1..(Dist(tail, head) + 1) |-> slots[At(k - 1)]]
    BY <1>2 DEF Queue, At
  <1>8. Queue' = Append(Queue, Stored(msg))
    <2> DEFINE n == Dist(tail, head)
               a == Append(Queue, Stored(msg))
    <2>1. Stored(msg) \in SlotType
      BY <1>5 DEF Stored, TopicOf, SlotType
    <2>2. /\ a \in Seq(SlotType) /\ Len(a) = n + 1
          /\ \A k \in 1..n : a[k] = Queue[k]
          /\ a[n + 1] = Stored(msg)
      BY <2>1, QueueFacts, AppendProperties
    <2>3. Queue' \in Seq(SlotType) /\ Len(Queue') = n + 1
      BY <1>2, QueueAfter, ProducerInv DEF Producer
    <2>4. ASSUME NEW k \in 1..(n + 1)
          PROVE  Queue'[k] = a[k]
      <3>1. Queue'[k] = slots[At(k - 1)]
        BY <1>7
      <3>2. CASE k = n + 1
        BY <1>4, <1>5, <1>6, <2>2, <3>1, <3>2
      <3>3. CASE k # n + 1
        <4>1. k \in 1..n
          BY <1>4, <3>3
        <4> QED BY <2>2, <3>1, <4>1 DEF Queue
      <3> QED BY <3>2, <3>3
    <2> QED BY <2>2, <2>3, <2>4, SeqEqual
  <1> QED BY <1>4, <1>5, <1>8, QueueFacts

(* Releasing the slot takes the oldest message.                            *)
LEMMA ReleaseTakes ==
  ASSUME IInv, Release
  PROVE  /\ Queue # << >>
         /\ taken' = Head(Queue)
         /\ Queue' = Tail(Queue)
  <1> USE DEF Release
  <1>1. tail \in Index /\ head \in Index /\ tail' \in Index
    BY AfterIndex DEF IInv, TypeOK
  <1>2. tail # head /\ Dist(tail', head) = Dist(tail, head) - 1
    BY <1>1, DistMoves DEF IInv, NoRace
  <1>3. Dist(tail, head) \in 1..(Slots - 1) /\ Dist(tail, head) \in Nat
    BY <1>1, <1>2, DistFacts, SlotsAssumption DEF Index
  <1>4. copy = slots[tail]
    BY <1>1 DEF IInv, PartsInv, TypeOK, SlotType
  <1>5. Queue[1] = slots[tail]
    <2>1. At(0) = tail
      BY <1>1, SlotsAssumption DEF At, Index
    <2> QED BY <1>3, <2>1 DEF Queue
  <1>6. Queue # << >> /\ Head(Queue) = Queue[1]
    BY <1>3, QueueFacts
  <1>7. Queue' = [k \in 1..(Dist(tail, head) - 1) |-> slots[At(k - 1)']]
    BY <1>2 DEF Queue
  <1>8. Queue' = Tail(Queue)
    <2> DEFINE n == Dist(tail, head)
    <2>1. /\ Tail(Queue) \in Seq(SlotType) /\ Len(Tail(Queue)) = n - 1
          /\ \A k \in 1..(n - 1) : Tail(Queue)[k] = Queue[k + 1]
      BY <1>3, <1>6, QueueFacts, HeadTailProperties
    <2>2. ASSUME NEW k \in 1..(n - 1)
          PROVE  slots[At(k - 1)'] = Queue[k + 1]
      <3>1. At(k - 1)' = At(k)
        BY <1>1, <1>3, SlotsAssumption DEF At, After, Index
      <3>2. k + 1 \in 1..n /\ (k + 1) - 1 = k
        BY <1>3
      <3>3. Queue[k + 1] = slots[At(k)]
        BY <3>2 DEF Queue
      <3> QED BY <3>1, <3>3
    <2>3. Queue' \in Seq(SlotType) /\ Len(Queue') = n - 1
      BY <1>2, QueueAfter, ConsumerInv DEF Consumer, Pop
    <2> QED BY <1>7, <2>1, <2>2, <2>3, SeqEqual
  <1> QED BY <1>4, <1>5, <1>6, <1>8

(* The end of clear() drops what was queued when it began.                 *)
LEMMA ClearDropsPrefix ==
  ASSUME IInv, ClearEnd
  PROVE  \E k \in 0..Len(Queue) : Queue' = SubSeq(Queue, k + 1, Len(Queue))
  <1> USE DEF ClearEnd
  <1>1. tail \in Index /\ head \in Index /\ upto \in Index
    BY DEF IInv, TypeOK
  <1> DEFINE n == Dist(tail, head)
             d == Dist(tail, upto)
  <1>2. n \in Nat /\ d \in Nat /\ n < Slots /\ d <= n
    BY <1>1, DistFacts, SlotsAssumption DEF IInv, ClearInv, Index
  <1>3. Dist(upto, head) = n - d
    BY <1>1, <1>2, DistAdds, DistFacts DEF Index
  <1>4. Queue' = [k \in 1..(n - d) |-> slots[At(k - 1)']]
    BY <1>3 DEF Queue
  <1> DEFINE rest == SubSeq(Queue, d + 1, n)
  <1>5. /\ rest \in Seq(SlotType) /\ Len(rest) = n - d
        /\ \A k \in 1..(n - d) : rest[k] = Queue[k + d]
    <2>1. \A i \in (d + 1)..n : Queue[i] \in SlotType
      <3>1. Queue \in Seq(SlotType) /\ Len(Queue) = n
        BY QueueFacts
      <3> QED BY <1>2, <3>1, ElementOfSeq
    <2>2. d + 1 \in Int /\ n \in Int
      BY <1>2
    <2>3. /\ rest \in Seq(SlotType)
          /\ Len(rest) = IF d + 1 <= n THEN n - (d + 1) + 1 ELSE 0
          /\ \A k \in 1..(n - (d + 1) + 1) : rest[k] = Queue[(d + 1) + k - 1]
      BY <2>1, <2>2, SubSeqProperties
    <2>4. n - (d + 1) + 1 = n - d /\ \A k \in Int : (d + 1) + k - 1 = k + d
      BY <1>2
    <2>5. Len(rest) = n - d
      BY <1>2, <2>3
    <2>6. ASSUME NEW k \in 1..(n - d)
          PROVE  rest[k] = Queue[k + d]
      BY <1>2, <2>3, <2>4
    <2> QED BY <2>3, <2>5, <2>6
  <1>6. ASSUME NEW k \in 1..(n - d)
        PROVE  slots[At(k - 1)'] = Queue[k + d]
    <2>1. PICK j \in 1..n : j = k + d
      BY <1>2
    <2>2. At(k - 1)' = At(j - 1)
      BY <1>1, <1>2, <2>1, SlotsAssumption DEF At, Dist, Index
    <2>3. Queue[j] = slots[At(j - 1)]
      BY <2>1 DEF Queue
    <2> QED BY <2>1, <2>2, <2>3
  <1>7. Queue' = rest
    <2>1. Queue' \in Seq(SlotType) /\ Len(Queue') = n - d
      BY <1>3, QueueAfter, ConsumerInv DEF Consumer
    <2> HIDE DEF n, d, rest
    <2>2. ASSUME NEW k \in 1..(n - d)
          PROVE  Queue'[k] = rest[k]
      BY <1>4, <1>5, <1>6
    <2> QED BY <1>5, <2>1, <2>2, SeqEqual
  <1>8. Len(Queue) = n /\ d \in 0..n
    BY <1>2, QueueFacts
  <1> HIDE DEF n, d
  <1> QED BY <1>7, <1>8

(* A full ring is a full queue.                                            *)
LEMMA FullIsFull ==
  ASSUME IInv, Full
  PROVE  Len(Queue) = Slots - 1
  BY DistFacts, QueueFacts DEF Full, IInv, TypeOK

(* Anything that moves neither end nor writes a queued slot leaves the     *)
(* queue alone.                                                            *)
LEMMA QueueStays ==
  ASSUME IInv, UNCHANGED <<head, tail>>,
         \A i \in Index \ {head} : slots'[i] = slots[i]
  PROVE  Queue' = Queue
  <1>1. tail \in Index /\ head \in Index
    BY DEF IInv, TypeOK
  <1>2. Dist(tail, head) \in Nat /\ Dist(tail, head) < Slots
    BY <1>1, DistFacts, SlotsAssumption DEF Index
  <1>3. ASSUME NEW k \in 1..Dist(tail, head)
        PROVE  slots'[At(k - 1)'] = slots[At(k - 1)]
    <2>1. k - 1 \in 0..(Slots - 1) /\ k - 1 < Dist(tail, head)
      BY <1>2, SlotsAssumption
    <2>2. At(k - 1) \in Index /\ Dist(tail, At(k - 1)) = k - 1
      BY <2>1, AtFacts
    <2>3. At(k - 1) # head
      BY <1>2, <2>1, <2>2
    <2>4. At(k - 1)' = At(k - 1)
      BY DEF At
    <2> QED BY <2>2, <2>3, <2>4
  <1>4. Queue' = [k \in 1..Dist(tail, head) |-> slots'[At(k - 1)']]
    BY DEF Queue
  <1> QED BY <1>3, <1>4 DEF Queue

(* The ring implements the bounded queue: whatever the interleaving, every *)
(* message that push accepted comes out of pop once, whole and in order,   *)
(* or falls to a clear, and drops happen only when the ring is full or the *)
(* message too long.                                                       *)
THEOREM Refinement == Spec => ImplementsFifo
  <1>1. Init => Fifo!Init
    <2> SUFFICES ASSUME Init PROVE Fifo!Init
      OBVIOUS
    <2>1. Queue = << >>
      BY DEF Init, Queue, Dist
    <2> QED BY <2>1, MessagesAssumption DEF Init, Fifo!Init, Empty, Stored, TopicOf
  <1>2. IInv /\ [Next]_vars => [Fifo!Next]_(Fifo!vars)
    <2> SUFFICES ASSUME IInv, [Next]_vars PROVE [Fifo!Next]_(Fifo!vars)
      OBVIOUS
    <2> USE DEF Fifo!vars
    <2>1. CASE PushTooLong
      <3>1. Queue' = Queue
        BY <2>1 DEF PushTooLong, Queue, At
      <3> QED BY <2>1, <3>1 DEF PushTooLong, Refuse, consVars, Fifo!Next, Fifo!Drop
    <2>2. CASE PushFull
      <3>1. Queue' = Queue
        BY <2>2 DEF PushFull, Queue, At
      <3>2. Len(Queue) = Slots - 1
        BY <2>2, FullIsFull DEF PushFull
      <3> QED BY <2>2, <3>1, <3>2 DEF PushFull, Refuse, consVars, Fifo!Next, Fifo!Drop
    <2>3. CASE PushBegin \/ PopBegin \/ CopyTopic \/ CopyPayload \/ ClearBegin
      <3>1. UNCHANGED <<slots, head, tail, taken, refused, dropped>>
        BY <2>3 DEF PushBegin, PopBegin, CopyTopic, CopyPayload, ClearBegin,
                    ringVars, prodVars, consVars
      <3> QED BY <3>1 DEF Queue, At
    <2>4. CASE WriteTopic \/ WritePayload
      <3>1. UNCHANGED <<head, tail, taken, refused, dropped>>
        BY <2>4 DEF WriteTopic, WritePayload, consVars
      <3>2. \A i \in Index \ {head} : slots'[i] = slots[i]
        BY <2>4 DEF WriteTopic, WritePayload, IInv, TypeOK
      <3>3. Queue' = Queue
        BY <3>1, <3>2, QueueStays
      <3> QED BY <3>1, <3>3
    <2>5. CASE Publish
      BY <2>5, PublishPuts DEF Publish, consVars, Fifo!Next, Fifo!Put
    <2>6. CASE Release
      BY <2>6, ReleaseTakes DEF Release, prodVars, Fifo!Next, Fifo!Take
    <2>7. CASE ClearEnd
      BY <2>7, ClearDropsPrefix DEF ClearEnd, prodVars, Fifo!Next, Fifo!Clear
    <2>8. CASE UNCHANGED vars
      BY <2>8 DEF vars, ringVars, prodVars, consVars, Queue, At
    <2> QED BY <2>1, <2>2, <2>3, <2>4, <2>5, <2>6, <2>7, <2>8
            DEF Next, Producer, Consumer, Pop
  <1> QED BY <1>1, <1>2, RingInv, PTL DEF Spec, ImplementsFifo, Fifo!Spec
=============================================================================
