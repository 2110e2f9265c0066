-------------------------- MODULE MqttSessionProofs --------------------------
(***************************************************************************)
(* The inductive invariant of MqttSession, and what follows from it for    *)
(* all sizes of buffers, ring and table, all topics and all messages.      *)
(***************************************************************************)
EXTENDS MqttSession, SequenceTheorems, WellFoundedInduction, TLAPS

Text == Messages \X Nat
Queued == [topic: Topics, pieces: Seq(Text)]

(* Sequences and what is in them.                                          *)
LEMMA ElementsAppend ==
    ASSUME NEW S, NEW s \in Seq(S), NEW x \in S
    PROVE  Elements(Append(s, x)) = Elements(s) \cup {x}
  <1>1. /\ Append(s, x) \in Seq(S) /\ Len(Append(s, x)) = Len(s) + 1 /\ Len(s) \in Nat
        /\ \A i \in 1..Len(s) : Append(s, x)[i] = s[i]
        /\ Append(s, x)[Len(s) + 1] = x
    OBVIOUS
  <1>2. DOMAIN s = 1..Len(s) /\ DOMAIN Append(s, x) = 1..(Len(s) + 1)
    BY <1>1
  <1>3. ASSUME NEW e \in Elements(Append(s, x)) PROVE e \in Elements(s) \cup {x}
    <2>1. PICK i \in 1..(Len(s) + 1) : e = Append(s, x)[i]
      BY <1>2 DEF Elements
    <2>2. i \in 1..Len(s) \/ i = Len(s) + 1
      BY <1>1
    <2> QED
      BY <1>1, <1>2, <2>1, <2>2 DEF Elements
  <1>4. ASSUME NEW e \in Elements(s) \cup {x} PROVE e \in Elements(Append(s, x))
    <2>1. (\E i \in 1..Len(s) : e = s[i]) \/ e = x
      BY <1>2 DEF Elements
    <2>2. \E i \in 1..(Len(s) + 1) : e = Append(s, x)[i]
      BY <1>1, <2>1
    <2> QED
      BY <1>2, <2>2 DEF Elements
  <1> QED
    BY <1>3, <1>4

(* The elements of two sequences are those of both put together.           *)
LEMMA ElementsConcat ==
    ASSUME NEW S, NEW s \in Seq(S), NEW t \in Seq(S)
    PROVE  /\ s \o t \in Seq(S)
           /\ Elements(s) \cup Elements(t) \subseteq Elements(s \o t)
  <1>1. /\ s \o t \in Seq(S) /\ Len(s \o t) = Len(s) + Len(t)
        /\ Len(s) \in Nat /\ Len(t) \in Nat
        /\ \A i \in 1..(Len(s) + Len(t)) :
              (s \o t)[i] = IF i <= Len(s) THEN s[i] ELSE t[i - Len(s)]
    BY ConcatProperties
  <1>2. /\ DOMAIN s = 1..Len(s) /\ DOMAIN t = 1..Len(t)
        /\ DOMAIN (s \o t) = 1..(Len(s) + Len(t))
    BY <1>1
  <1>3. ASSUME NEW i \in 1..Len(s) PROVE s[i] \in Elements(s \o t)
    BY <1>1, <1>2 DEF Elements
  <1>4. ASSUME NEW i \in 1..Len(t) PROVE t[i] \in Elements(s \o t)
    <2>1. /\ Len(s) + i \in 1..(Len(s) + Len(t)) /\ ~(Len(s) + i <= Len(s))
          /\ (Len(s) + i) - Len(s) = i
      BY <1>1
    <2>2. (s \o t)[Len(s) + i] = t[i]
      BY <1>1, <2>1
    <2> QED
      BY <1>2, <2>1, <2>2 DEF Elements
  <1> QED
    BY <1>1, <1>2, <1>3, <1>4 DEF Elements

(* A sequence is its head and its tail.                                    *)
LEMMA ElementsHeadTail ==
    ASSUME NEW S, NEW s \in Seq(S), s # << >>
    PROVE  /\ Head(s) \in S /\ Tail(s) \in Seq(S)
           /\ Elements(s) \subseteq {Head(s)} \cup Elements(Tail(s))
           /\ \A i \in DOMAIN Tail(s) : i + 1 \in DOMAIN s /\ Tail(s)[i] = s[i + 1]
           /\ Len(Tail(s)) = Len(s) - 1
  <1>1. /\ Head(s) \in S /\ Tail(s) \in Seq(S) /\ Head(s) = s[1]
        /\ Len(s) \in Nat /\ Len(s) >= 1 /\ Len(Tail(s)) = Len(s) - 1
        /\ \A i \in 1..(Len(s) - 1) : Tail(s)[i] = s[i + 1]
    BY HeadTailProperties
  <1>2. DOMAIN s = 1..Len(s) /\ DOMAIN Tail(s) = 1..(Len(s) - 1)
    BY <1>1
  <1>3. ASSUME NEW i \in 1..Len(s) PROVE s[i] \in {Head(s)} \cup Elements(Tail(s))
    <2>1. CASE i = 1
      BY <1>1, <2>1
    <2>2. CASE i # 1
      <3>1. i - 1 \in 1..(Len(s) - 1) /\ (i - 1) + 1 = i
        BY <1>1, <2>2
      <3>2. Tail(s)[i - 1] = s[i]
        BY <1>1, <3>1
      <3> QED
        BY <1>2, <3>1, <3>2 DEF Elements
    <2> QED
      BY <2>1, <2>2
  <1> QED
    BY <1>1, <1>2, <1>3 DEF Elements

(* Dropping an entry keeps all that differ from it.                        *)
LEMMA WithoutFact ==
    ASSUME NEW S, NEW s \in Seq(S), NEW k \in DOMAIN s
    PROVE  /\ Without(s, k) \in Seq(S) /\ Len(Without(s, k)) <= Len(s)
           /\ \A e \in Elements(s) : e # s[k] => e \in Elements(Without(s, k))
  <1> DEFINE w == Without(s, k)
  <1>1. /\ Len(s) \in Nat /\ DOMAIN s = 1..Len(s) /\ k \in 1..Len(s)
        /\ Len(s) - 1 \in Nat
        /\ \A i \in 1..Len(s) : s[i] \in S
    OBVIOUS
  <1>2. w = [i \in 1..(Len(s) - 1) |-> IF i < k THEN s[i] ELSE s[i + 1]]
    BY DEF Without
  <1>3. \A i \in 1..(Len(s) - 1) : w[i] \in S
    BY <1>1, <1>2
  <1>4. w \in Seq(S) /\ Len(w) = Len(s) - 1 /\ DOMAIN w = 1..(Len(s) - 1)
    <2>1. w \in [1..(Len(s) - 1) -> S]
      BY <1>1, <1>2
    <2>2. w \in Seq(S)
      BY <1>1, <2>1
    <2>3. DOMAIN w = 1..(Len(s) - 1)
      BY <1>2
    <2>4. Len(w) = Len(s) - 1
      BY <1>1, <1>2
    <2> QED
      BY <1>1, <2>2, <2>3, <2>4
  <1>5. ASSUME NEW e \in Elements(s), e # s[k] PROVE e \in Elements(w)
    <2>1. PICK i \in 1..Len(s) : e = s[i] /\ i # k
      BY <1>1, <1>5 DEF Elements
    <2>2. CASE i < k
      <3>1. i \in 1..(Len(s) - 1) /\ w[i] = e
        BY <1>1, <1>2, <2>1, <2>2
      <3> QED
        BY <1>4, <3>1 DEF Elements
    <2>3. CASE i > k
      <3>1. i - 1 \in 1..(Len(s) - 1) /\ ~(i - 1 < k) /\ (i - 1) + 1 = i
        BY <1>1, <2>1, <2>3
      <3>2. w[i - 1] = e
        BY <1>2, <2>1, <3>1
      <3> QED
        BY <1>4, <3>1, <3>2 DEF Elements
    <2> QED
      BY <1>1, <2>1, <2>2, <2>3
  <1> QED
    BY <1>1, <1>4, <1>5

(* What is in a sequence has a first place in it.                          *)
LEMMA FirstFact ==
    ASSUME NEW S, NEW s \in Seq(S), NEW e \in Elements(s)
    PROVE  \E k \in DOMAIN s : s[k] = e /\ \A j \in DOMAIN s : j < k => s[j] # e
  <1> DEFINE K == {k \in DOMAIN s : s[k] = e}
  <1>1. DOMAIN s = 1..Len(s) /\ Len(s) \in Nat
    OBVIOUS
  <1>2. K # {} /\ K \subseteq Nat
    BY <1>1 DEF Elements
  <1>3. PICK k \in K : \A j \in K : ~(<<j, k>> \in OpToRel(<, Nat))
    BY <1>2, NatLessThanWellFounded, WFMin
  <1>4. \A j \in K : ~(j < k)
    BY <1>2, <1>3 DEF OpToRel
  <1> QED
    BY <1>1, <1>4

(* A message up to one piece, and on to a later one.                       *)
LEMMA PiecesFact ==
    ASSUME NEW m \in Messages, NEW n \in Nat
    PROVE  Pieces(m, n) \in Seq(Text) /\ Len(Pieces(m, n)) = n
  <1>1. Pieces(m, n) \in [1..n -> Text]
    BY DEF Pieces, Text
  <1> QED
    BY <1>1 DEF Pieces

(* Pieces that follow on what has been received make a longer part of the  *)
(* same message.                                                           *)
LEMMA PiecesGrow ==
    ASSUME NEW m \in Messages, NEW a \in Nat, NEW b \in Nat, a <= b
    PROVE  Pieces(m, a) \o [i \in 1..(b - a) |-> <<m, a + i>>] = Pieces(m, b)
  <1> DEFINE s == Pieces(m, a)
             t == [i \in 1..(b - a) |-> <<m, a + i>>]
  <1>1. s \in Seq(Text) /\ Len(s) = a
    BY PiecesFact
  <1>2. t \in Seq(Text) /\ Len(t) = b - a /\ b - a \in Nat
    <2>1. t \in [1..(b - a) -> Text] /\ b - a \in Nat
      BY DEF Text
    <2> QED
      BY <2>1
  <1>3. /\ s \o t \in Seq(Text) /\ Len(s \o t) = b
        /\ \A i \in 1..b : (s \o t)[i] = IF i <= a THEN s[i] ELSE t[i - a]
    <2>1. /\ s \o t \in Seq(Text) /\ Len(s \o t) = Len(s) + Len(t)
          /\ \A i \in 1..(Len(s) + Len(t)) :
                (s \o t)[i] = IF i <= Len(s) THEN s[i] ELSE t[i - Len(s)]
      <3> HIDE DEF s, t
      <3> QED
        BY <1>1, <1>2, ConcatProperties
    <2>2. Len(s) + Len(t) = b
      BY <1>1, <1>2
    <2> HIDE DEF s, t
    <2> QED
      BY <1>1, <2>1, <2>2
  <1>4. ASSUME NEW i \in 1..b PROVE (s \o t)[i] = <<m, i>>
    <2>1. CASE i <= a
      BY <1>3, <2>1 DEF Pieces
    <2>2. CASE ~(i <= a)
      <3>1. i - a \in 1..(b - a) /\ a + (i - a) = i
        BY <2>2
      <3>2. t[i - a] = <<m, i>>
        BY <3>1
      <3> HIDE DEF s, t
      <3> QED
        BY <1>3, <2>2, <3>2
    <2> QED
      BY <2>1, <2>2
  <1>5. /\ Pieces(m, b) \in Seq(Text) /\ Len(Pieces(m, b)) = b
        /\ \A i \in 1..b : Pieces(m, b)[i] = <<m, i>>
    BY PiecesFact DEF Pieces
  <1>6. s \o t = Pieces(m, b)
    <2> HIDE DEF s, t
    <2> QED
      BY <1>3, <1>4, <1>5, SeqEqual
  <1> QED
    BY <1>6

-----------------------------------------------------------------------------
(* What a step leaves alone it does not disturb.                           *)

(* A step that leaves the list alone keeps what is known of it.            *)
LEMMA SameList ==
    ASSUME IInv, UNCHANGED <<subs, wanted, refused>>
    PROVE  RememberInv'
  BY DEF IInv, RememberInv, Kept, Elements

(* A step that asks for nothing and notices no session keeps what has been *)
(* asked.                                                                  *)
LEMMA SameAsked ==
    ASSUME IInv,
           session' /\ was_connected' /\ ~missed' => session /\ was_connected /\ ~missed,
           UNCHANGED <<granted, todo, wanted, refused>>
    PROVE  AskedInv'
  BY DEF IInv, AskedInv, Kept, Elements

(* Without a session that has been noticed there is nothing to keep.       *)
LEMMA NothingToAsk ==
    ASSUME ~(session' /\ was_connected' /\ ~missed')
    PROVE  AskedInv'
  BY DEF AskedInv

(* A step that takes no data keeps what is being assembled.                *)
LEMMA SameAssembly ==
    ASSUME IInv, assembling' => assembling,
           UNCHANGED <<rx, rx_off, assembly, assembly_topic>>
    PROVE  AssemblyInv'
  BY DEF IInv, AssemblyInv, Pieces

(* With no message under way there is nothing to keep.                     *)
LEMMA NothingReceived ==
    ASSUME rx' = NoMessage, rx_off' = 0
    PROVE  AssemblyInv'
  BY DEF AssemblyInv

(* A step that adds nothing to the ring keeps it whole.                    *)
LEMMA SameRing ==
    ASSUME IInv, ring' \in {ring, << >>}
    PROVE  OnlyWholeMessages'
  <1>1. CASE ring' = ring
    BY <1>1 DEF IInv, OnlyWholeMessages, Item, Pieces
  <1>2. CASE ring' = << >>
    BY <1>2 DEF OnlyWholeMessages
  <1> QED
    BY <1>1, <1>2

(* The empty sequence.                                                     *)
LEMMA EmptyFact ==
    ASSUME NEW S
    PROVE  << >> \in Seq(S) /\ Len(<< >>) = 0
  OBVIOUS

(* Steps that ask, send, receive and remember nothing.                     *)
LEMMA QuietKeeps ==
    ASSUME IInv,
           \/ PausedStep \/ StaySettled \/ StayDown \/ PollEmpty \/ OtaIdle
           \/ ResumeMqttAfterOta \/ LinkChange \/ OnDisconnected \/ UNCHANGED vars
    PROVE  IInv'
  <1> USE DEF PausedStep, StaySettled, StayDown, PollEmpty, OtaIdle, ResumeMqttAfterOta,
              LinkChange, OnDisconnected, vars, clientVars, rxVars, netVars, loopVars,
              edgeVars, histVars, StepVars, OtaVars, IngestVars
  <1>1. UNCHANGED <<client, session, granted, rx, rx_off, assembly, assembly_topic, ring,
                    reserved, direct, todo, subs, mqtt_started, wanted, refused>>
    OBVIOUS
  <1>2. pc' \in {pc, "ingest", "ota", "app"} /\ (pc' = pc \/ (pc # "subscribe" /\ pc' # "subscribe"))
    OBVIOUS
  <1>3. assembling' = assembling \/ assembling' = FALSE
    OBVIOUS
  <1>4. \/ was_connected' = was_connected /\ missed' = missed
        \/ was_connected' = FALSE /\ missed' = FALSE
    OBVIOUS
  <1>5. connected' = connected \/ (connected' = FALSE /\ ~session)
    OBVIOUS
  <1>6. paused' = paused \/ paused' = FALSE
    OBVIOUS
  <1>7. link' = link \/ link' = ~link
    OBVIOUS
  <1>8. /\ assembling' \in BOOLEAN /\ was_connected' \in BOOLEAN /\ connected' \in BOOLEAN
        /\ paused' \in BOOLEAN /\ link' \in BOOLEAN /\ missed' \in BOOLEAN
    BY <1>3, <1>4, <1>5, <1>6, <1>7 DEF IInv, TypeOK
  <1> USE DEF IInv
  <1>9. TypeOK'
    BY <1>1, <1>2, <1>8 DEF TypeOK, Places
  <1>10. SessionInv'
    BY <1>1, <1>2, <1>4, <1>5, <1>6 DEF SessionInv
  <1>11. AskedInv'
    BY <1>1, <1>4, SameAsked
  <1>12. AssemblyInv'
    BY <1>1, <1>3, SameAssembly
  <1> QED
    BY <1>1, <1>9, <1>10, <1>11, <1>12, SameList, SameRing

(* A connection that drops keeps the invariant.                            *)
LEMMA DropKeeps ==
    ASSUME IInv, Drop
    PROVE  IInv'
  <1>1. /\ session' = FALSE /\ granted' = {} /\ rx' = NoMessage /\ rx_off' = 0
        /\ UNCHANGED <<client, connected, reserved, direct, assembling, assembly,
                       assembly_topic, link, pc, todo, was_connected, mqtt_started, paused,
                       ring, subs, wanted, refused, missed>>
    BY DEF Drop, clientVars, loopVars, edgeVars, histVars
  <1>2. TypeOK' /\ SessionInv'
    BY <1>1 DEF IInv, TypeOK, SessionInv
  <1> QED
    BY <1>1, <1>2, SameList, NothingToAsk, NothingReceived, SameRing DEF IInv

(* A message that starts to arrive does.                                   *)
LEMMA BrokerSendsKeeps ==
    ASSUME IInv, BrokerSends
    PROVE  IInv'
  <1>1. /\ session /\ rx' \in Messages /\ rx_off' = 0
        /\ UNCHANGED <<client, connected, reserved, direct, assembling, assembly,
                       assembly_topic, link, session, granted, pc, todo, was_connected,
                       mqtt_started, paused, ring, subs, wanted, refused, missed>>
    BY DEF BrokerSends, clientVars, netVars, loopVars, edgeVars, histVars
  <1>2. TypeOK' /\ SessionInv'
    BY <1>1 DEF IInv, TypeOK, SessionInv
  <1>3. AssemblyInv'
    <2>1. rx'.size \in Nat /\ 0 < rx'.size /\ rx' # NoMessage
      BY <1>1, TopicsAssumption
    <2> QED
      BY <1>1, <2>1 DEF AssemblyInv
  <1> QED
    BY <1>1, <1>2, <1>3, SameList, SameAsked, SameRing DEF IInv

(* A new session does: the loop will notice it, or has missed the end of   *)
(* the last one.                                                           *)
LEMMA OnConnectedKeeps ==
    ASSUME IInv, OnConnected
    PROVE  IInv'
  <1>1. /\ client /\ ~session /\ session' = TRUE /\ granted' = {} /\ connected' = TRUE
        /\ missed' = was_connected
        /\ UNCHANGED <<client, reserved, direct, assembling, assembly, assembly_topic, rx, rx_off,
                       link, pc, todo, was_connected, mqtt_started, paused, ring, subs,
                       wanted, refused>>
    BY DEF OnConnected, rxVars, histVars
  <1>2. TypeOK' /\ SessionInv'
    BY <1>1 DEF IInv, TypeOK, SessionInv
  <1> QED
    BY <1>1, <1>2, SameList, NothingToAsk, SameAssembly, SameRing DEF IInv

(* start() of a client does.                                               *)
LEMMA StartKeeps ==
    ASSUME IInv, NEW ok \in BOOLEAN, Start(ok)
    PROVE  IInv'
  <1>1. /\ pc = "app" /\ ~paused /\ ~client /\ pc' = "ingest" /\ was_connected' = FALSE
        /\ missed' = FALSE
        /\ client' = ok /\ mqtt_started' = ok /\ connected' = FALSE /\ assembling' = FALSE
        /\ rx' = NoMessage /\ rx_off' = 0 /\ session' = FALSE /\ granted' = {}
        /\ reserved' = reserved \cup Own /\ direct' = (direct \/ Async) /\ ring' = ring
        /\ UNCHANGED <<todo, paused, subs, link, assembly, assembly_topic, wanted, refused>>
    BY DEF IInv, SessionInv, Start, BeginClient, Counted, histVars
  <1>2. direct' \in BOOLEAN
    BY <1>1, SwitchesAssumption
  <1>3. TypeOK' /\ SessionInv'
    BY <1>1, <1>2 DEF IInv, TypeOK, SessionInv, Places
  <1> QED
    BY <1>1, <1>3, SameList, NothingToAsk, NothingReceived, SameRing DEF IInv

(* The pause for a download does: nothing is left of the session.          *)
LEMMA PauseKeeps ==
    ASSUME IInv, PauseMqttForOta
    PROVE  IInv'
  <1>1. client
    BY DEF IInv, SessionInv, PauseMqttForOta
  <1>2. /\ pc = "ota" /\ pc' = "app" /\ mqtt_started' = FALSE /\ was_connected' = FALSE
        /\ missed' = FALSE
        /\ paused' = TRUE /\ client' = FALSE /\ connected' = FALSE /\ assembling' = FALSE
        /\ rx' = NoMessage /\ rx_off' = 0 /\ session' = FALSE /\ granted' = {} /\ ring' = << >>
        /\ UNCHANGED <<reserved, direct, assembly, assembly_topic, link, todo, subs,
                       wanted, refused>>
    BY <1>1 DEF PauseMqttForOta, EndClient, EmptyRing, OtaVars, histVars
  <1>3. ring' \in Seq([topic: Topics, pieces: Seq(Messages \X Nat)]) /\ Len(ring') <= InboxCap
    BY <1>2, EmptyFact, SizesAssumption
  <1>4. TypeOK' /\ SessionInv'
    BY <1>2, <1>3 DEF IInv, TypeOK, SessionInv, Places
  <1> QED
    BY <1>2, <1>4, SameList, NothingToAsk, NothingReceived, SameRing DEF IInv

-----------------------------------------------------------------------------
(* The loop makes its subscriptions again, and takes what was queued.      *)

(* The library's topics, in the order they are asked for.                  *)
LEMMA OwnTopicsFact ==
    OwnTopics \in Seq(Topics) /\ Own \subseteq Elements(OwnTopics) /\ Len(OwnTopics) = 2
  <1>1. OwnTopics \in Seq(Topics) /\ Len(OwnTopics) = 2 /\ DOMAIN OwnTopics = 1..2
    BY TopicsAssumption
  <1>2. OwnTopics[1] \in Elements(OwnTopics) /\ OwnTopics[2] \in Elements(OwnTopics)
    BY <1>1 DEF Elements
  <1> QED
    BY <1>1, <1>2 DEF Own

(* The edge to connected does: everything is to be asked for again.        *)
LEMMA NoticeConnectKeeps ==
    ASSUME IInv, NoticeConnect
    PROVE  IInv'
  <1>1. /\ pc = "app" /\ connected /\ was_connected' = TRUE /\ pc' = "subscribe"
        /\ todo' = OwnTopics \o subs
        /\ UNCHANGED <<client, connected, reserved, direct, assembling, assembly,
                       assembly_topic, rx, rx_off, link, session, granted, mqtt_started,
                       paused, ring, subs, wanted, refused, missed>>
    BY DEF NoticeConnect, Subscriptions, StepVars, histVars
  <1>2. /\ OwnTopics \in Seq(Topics) /\ subs \in Seq(Topics) /\ Own \subseteq Elements(OwnTopics)
        /\ Len(OwnTopics) = 2
    BY OwnTopicsFact DEF IInv, TypeOK
  <1>3. /\ todo' \in Seq(Topics) /\ Own \subseteq Elements(todo')
        /\ Elements(subs) \subseteq Elements(todo')
    BY <1>1, <1>2, ElementsConcat
  <1>4. todo' # << >>
    <2>1. \A e \in Own : e \in Elements(todo')
      BY <1>3
    <2>2. Own # {}
      BY DEF Own
    <2>3. Elements(<< >>) = {}
      BY DEF Elements
    <2> QED
      BY <2>1, <2>2, <2>3
  <1>5. TypeOK'
    BY <1>1, <1>3 DEF IInv, TypeOK, Places
  <1>6. SessionInv'
    BY <1>1, <1>4 DEF IInv, SessionInv
  <1>7. AskedInv'
    <2>1. Own \subseteq granted' \cup Elements(todo')
      BY <1>3
    <2>2. ASSUME NEW t \in wanted', Kept(t)'
          PROVE  t \in granted' \cup Elements(todo')
      <3>1. t \in wanted /\ Kept(t)
        BY <1>1, <2>2 DEF Kept
      <3>2. t \in Elements(subs)
        BY <3>1 DEF IInv, RememberInv
      <3> QED
        BY <1>3, <3>2
    <2> QED
      BY <2>1, <2>2 DEF AskedInv, Kept, Elements
  <1> QED
    BY <1>1, <1>5, <1>6, <1>7, SameList, SameAssembly, SameRing DEF IInv

(* One more topic asked for does.                                          *)
LEMMA SubscribeNextKeeps ==
    ASSUME IInv, SubscribeNext
    PROVE  IInv'
  <1>1. /\ pc = "subscribe" /\ todo' = Tail(todo)
        /\ granted' = (IF connected /\ session THEN granted \cup {Head(todo)} ELSE granted)
        /\ pc' = (IF Tail(todo) = << >> THEN "ingest" ELSE pc)
        /\ UNCHANGED <<client, connected, reserved, direct, assembling, assembly,
                       assembly_topic, rx, rx_off, link, session, was_connected, mqtt_started,
                       paused, ring, subs, wanted, refused, missed>>
    BY DEF SubscribeNext, AskBroker, StepVars, edgeVars, histVars
  <1>2. /\ todo \in Seq(Topics) /\ todo # << >>
        /\ session => connected
    BY <1>1 DEF IInv, TypeOK, SessionInv
  <1>3. /\ Head(todo) \in Topics /\ todo' \in Seq(Topics)
        /\ Elements(todo) \subseteq {Head(todo)} \cup Elements(todo')
    BY <1>1, <1>2, ElementsHeadTail
  <1>4. TypeOK'
    BY <1>1, <1>3 DEF IInv, TypeOK, Places
  <1>5. SessionInv'
    BY <1>1 DEF IInv, SessionInv
  <1>6. session => granted \cup Elements(todo) \subseteq granted' \cup Elements(todo')
    BY <1>1, <1>2, <1>3
  <1>7. AskedInv'
    <2>1. SUFFICES ASSUME session, was_connected, ~missed
                   PROVE  /\ Own \subseteq granted' \cup Elements(todo')
                          /\ \A t \in wanted : Kept(t) => t \in granted' \cup Elements(todo')
      BY <1>1 DEF AskedInv, Kept, Elements
    <2> QED
      BY <1>6, <2>1 DEF IInv, AskedInv
  <1> QED
    BY <1>1, <1>4, <1>5, <1>7, SameList, SameAssembly, SameRing DEF IInv

(* A message handed to the loop does.                                      *)
LEMMA PollKeeps ==
    ASSUME IInv, Poll
    PROVE  IInv'
  <1>1. /\ pc = "ingest" /\ ring # << >> /\ ring' = Tail(ring) /\ pc' \in {"ota", "ingest"}
        /\ UNCHANGED <<client, connected, reserved, direct, assembling, assembly,
                       assembly_topic, rx, rx_off, link, session, granted, todo, was_connected,
                       mqtt_started, paused, subs, wanted, refused, missed>>
    BY DEF Poll, Popped, IngestVars, clientVars, rxVars, netVars, edgeVars, histVars
  <1>2. /\ ring' \in Seq([topic: Topics, pieces: Seq(Messages \X Nat)])
        /\ Len(ring') = Len(ring) - 1 /\ Len(ring) \in Nat
        /\ \A i \in DOMAIN ring' : i + 1 \in DOMAIN ring /\ ring'[i] = ring[i + 1]
    <2>1. ring \in Seq([topic: Topics, pieces: Seq(Messages \X Nat)])
      BY DEF IInv, TypeOK
    <2> QED
      BY <1>1, <2>1, ElementsHeadTail
  <1>3. Len(ring') <= InboxCap
    BY <1>2, SizesAssumption DEF IInv, TypeOK
  <1>4. TypeOK'
    BY <1>1, <1>2, <1>3 DEF IInv, TypeOK, Places
  <1>5. SessionInv'
    BY <1>1 DEF IInv, SessionInv
  <1>6. OnlyWholeMessages'
    BY ZenonT(60), <1>2 DEF IInv, OnlyWholeMessages, Item, Pieces
  <1> QED
    BY <1>1, <1>4, <1>5, <1>6, SameList, SameAsked, SameAssembly DEF IInv

-----------------------------------------------------------------------------
(* The esp-mqtt task receives.                                             *)

(* A whole message is queued under what was read as its topic, dropped, or *)
(* handed to the project.                                                  *)
LEMMA DeliverFact ==
    ASSUME IInv, NEW m \in Messages, NEW u \in ReadAs[m.topic], NEW t, t = u \/ t = Cut[u],
           Deliver(t, Pieces(m, m.size))
    PROVE  ring' \in Seq(Queued) /\ Len(ring') <= InboxCap /\ OnlyWholeMessages'
  <1> DEFINE item == Item(Cut[t], Pieces(m, m.size))
  <1>1. m.topic \in Topics /\ m.size \in Nat
    BY TopicsAssumption
  <1>2. u \in Topics /\ Cut[u] \in Topics
    BY <1>1, TopicsAssumption
  <1>3. Cut[t] = Cut[u]
    BY <1>2, TopicsAssumption
  <1>4. item \in Queued
    BY <1>1, <1>2, <1>3, PiecesFact DEF Item, Queued
  <1>5. ring \in Seq(Queued) /\ Len(ring) <= InboxCap /\ Len(ring) \in Nat
    BY DEF IInv, TypeOK, Queued, Text
  <1>6. ring' = ring \/ (ring' = Append(ring, item) /\ Len(ring) < InboxCap)
    <2> HIDE DEF item
    <2>1. \/ ~Direct(t) /\ Len(Pieces(m, m.size)) <= RingBytes /\ Len(ring) < InboxCap
             /\ ring' = Append(ring, item)
          \/ ring' = ring
      BY DEF Deliver, item
    <2> QED
      BY <2>1
  <1>7. CASE ring' = ring
    BY <1>5, <1>7, SameRing
  <1>8. CASE ring' = Append(ring, item) /\ Len(ring) < InboxCap
    <2>1. item = Item(Cut[u], Pieces(m, m.size))
      BY <1>3
    <2> HIDE DEF item
    <2>2. /\ ring' \in Seq(Queued) /\ Len(ring') = Len(ring) + 1
          /\ DOMAIN ring' = 1..(Len(ring) + 1) /\ DOMAIN ring = 1..Len(ring)
          /\ \A i \in 1..Len(ring) : ring'[i] = ring[i]
          /\ ring'[Len(ring) + 1] = item
      BY <1>4, <1>5, <1>8
    <2>3. Len(ring') <= InboxCap
      BY <1>5, <1>8, <2>2, SizesAssumption
    <2>4. ASSUME NEW i \in DOMAIN ring'
          PROVE  \E n \in Messages : \E v \in ReadAs[n.topic] :
                     ring'[i] = Item(Cut[v], Pieces(n, n.size))
      <3>1. CASE i \in 1..Len(ring)
        BY <2>2, <3>1 DEF IInv, OnlyWholeMessages
      <3>2. CASE i = Len(ring) + 1
        BY <2>1, <2>2, <3>2
      <3> QED
        BY <1>5, <2>2, <3>1, <3>2
    <2>5. OnlyWholeMessages'
      BY <2>4 DEF OnlyWholeMessages, Item, Pieces
    <2> QED
      BY <2>2, <2>3, <2>5
  <1> QED
    BY <1>6, <1>7, <1>8

(* A message in one piece does.                                            *)
LEMMA OnWholeKeeps ==
    ASSUME IInv, OnWhole
    PROVE  IInv'
  <1>1. /\ rx # NoMessage /\ rx' = NoMessage /\ rx_off' = 0
        /\ \E t \in ReadAs[rx.topic] : Deliver(t, Pieces(rx, rx.size))
        /\ UNCHANGED <<client, connected, reserved, direct, assembling, assembly,
                       assembly_topic, link, session, granted, pc, todo, was_connected,
                       mqtt_started, paused, subs, wanted, refused, missed>>
    BY DEF OnWhole, DataVars, clientVars, netVars, loopVars, edgeVars, histVars
  <1>2. rx \in Messages /\ client
    BY <1>1 DEF IInv, TypeOK, SessionInv
  <1>3. ring' \in Seq(Queued) /\ Len(ring') <= InboxCap /\ OnlyWholeMessages'
    <2>1. PICK t \in ReadAs[rx.topic] : Deliver(t, Pieces(rx, rx.size))
      BY <1>1
    <2> QED
      BY <1>2, <2>1, DeliverFact
  <1>4. TypeOK'
    BY <1>1, <1>3 DEF IInv, TypeOK, Queued, Text
  <1>5. SessionInv'
    BY <1>1, <1>2, <1>3 DEF IInv, SessionInv
  <1> QED
    BY <1>1, <1>3, <1>4, <1>5, SameList, SameAsked, NothingReceived DEF IInv

(* A fragment does: it is the next of the message being assembled, or the  *)
(* message is given up.                                                    *)
LEMMA OnFragmentKeeps ==
    ASSUME IInv, OnFragment
    PROVE  IInv'
  <1> DEFINE first == rx_off = 0
             next  == Least(rx_off + FragBytes, rx.size)
             text  == Assembled(first)
             fits  == Len(text) + (next - rx_off) <= AssemblyBytes
             whole == text \o [i \in 1..(next - rx_off) |-> <<rx, rx_off + i>>]
             takes == (first \/ assembling) /\ fits
             done  == takes /\ Len(whole) >= rx.size
  <1>1. /\ rx # NoMessage
        /\ IF first THEN \E t \in ReadAs[rx.topic] : assembly_topic' = Cut[t]
                    ELSE assembly_topic' = assembly_topic
        /\ assembling' = (takes /\ ~done)
        /\ assembly' = (IF done THEN << >> ELSE IF takes THEN whole ELSE text)
        /\ IF done THEN Deliver(assembly_topic', whole) ELSE ring' = ring
        /\ rx' = (IF next = rx.size THEN NoMessage ELSE rx)
        /\ rx_off' = (IF next = rx.size THEN 0 ELSE next)
    BY DEF OnFragment
  <1>2. UNCHANGED <<client, connected, reserved, direct, link, session, granted, pc, todo,
                    was_connected, mqtt_started, paused, subs, wanted, refused, missed>>
    BY DEF OnFragment, DataVars, clientVars, netVars, loopVars, edgeVars, histVars
  <1>3. /\ rx \in Messages /\ client /\ rx_off \in Nat /\ rx_off < rx.size
        /\ assembly \in Seq(Text) /\ assembly_topic \in Topics
    BY <1>1 DEF IInv, TypeOK, SessionInv, AssemblyInv, Text
  <1>4. rx.size \in Nat /\ rx.topic \in Topics /\ rx # NoMessage
    BY <1>1, <1>3, TopicsAssumption
  <1>5. next \in Nat /\ rx_off < next /\ next <= rx.size
    BY <1>3, <1>4, SizesAssumption DEF Least
  <1>6. text \in Seq(Text) /\ assembly_topic' \in Topics
    <2>1. text \in Seq(Text)
      BY <1>3, EmptyFact DEF Assembled
    <2>2. assembly_topic' \in Topics
      BY <1>1, <1>3, <1>4, TopicsAssumption
    <2> QED
      BY <2>1, <2>2
  <1>7. first \/ assembling =>
            /\ whole = Pieces(rx, next) /\ Len(whole) = next /\ whole \in Seq(Text)
            /\ \E t \in ReadAs[rx.topic] : assembly_topic' = Cut[t]
    <2> SUFFICES ASSUME first \/ assembling
                 PROVE  /\ whole = Pieces(rx, next) /\ Len(whole) = next /\ whole \in Seq(Text)
                        /\ \E t \in ReadAs[rx.topic] : assembly_topic' = Cut[t]
      OBVIOUS
    <2>1. first \/ assembling
      OBVIOUS
    <2>2. /\ text = Pieces(rx, rx_off)
          /\ \E t \in ReadAs[rx.topic] : assembly_topic' = Cut[t]
      <3>1. CASE first
        <4>1. text = << >>
          BY <3>1 DEF Assembled
        <4>2. Pieces(rx, 0) = << >>
          <5>1. Pieces(rx, 0) \in Seq(Text) /\ Len(Pieces(rx, 0)) = 0
            BY <1>3, PiecesFact
          <5> QED
            BY <5>1
        <4> QED
          BY <1>1, <3>1, <4>1, <4>2
      <3>2. CASE ~first
        <4>1. rx_off > 0 /\ assembling
          BY <1>3, <2>1, <3>2
        <4>2. /\ assembly = Pieces(rx, rx_off)
              /\ \E t \in ReadAs[rx.topic] : assembly_topic = Cut[t]
          BY <1>1, <4>1 DEF IInv, AssemblyInv
        <4> QED
          BY <1>1, <3>2, <4>2 DEF Assembled
      <3> QED
        BY <3>1, <3>2
    <2> HIDE DEF first, next, text
    <2>3. Pieces(rx, rx_off) \o [i \in 1..(next - rx_off) |-> <<rx, rx_off + i>>] = Pieces(rx, next)
      <3>1. rx_off <= next
        BY <1>3, <1>5
      <3> QED
        BY <1>3, <1>5, <3>1, PiecesGrow
    <2>4. whole = Pieces(rx, next)
      BY <2>2, <2>3
    <2> HIDE DEF whole
    <2> QED
      BY <1>3, <1>5, <2>2, <2>4, PiecesFact
  <1>8. takes => first \/ assembling
    OBVIOUS
  <1> HIDE DEF first, next, text, fits, whole, takes, done
  <1>9. done <=> takes /\ next = rx.size
    <2>1. CASE takes
      BY <1>4, <1>5, <1>7, <1>8, <2>1 DEF done
    <2>2. CASE ~takes
      BY <2>2 DEF done
    <2> QED
      BY <2>1, <2>2
  <1>10. ring' \in Seq(Queued) /\ Len(ring') <= InboxCap /\ OnlyWholeMessages'
    <2>1. CASE done
      <3>1. Deliver(assembly_topic', Pieces(rx, rx.size))
        BY <1>1, <1>7, <1>8, <1>9, <2>1
      <3>2. PICK u \in ReadAs[rx.topic] : assembly_topic' = Cut[u]
        BY <1>7, <1>8, <1>9, <2>1
      <3> QED
        BY <1>3, <3>1, <3>2, DeliverFact
    <2>2. CASE ~done
      <3>1. ring' = ring
        BY <1>1, <2>2
      <3>2. ring' \in Seq(Queued) /\ Len(ring') <= InboxCap
        BY <3>1 DEF IInv, TypeOK, Queued, Text
      <3> QED
        BY <3>1, <3>2, SameRing
    <2> QED
      BY <2>1, <2>2
  <1>11. /\ assembling' \in BOOLEAN /\ assembly_topic' \in Topics
         /\ assembly' \in Seq(Text) /\ rx' \in Messages \cup {NoMessage} /\ rx_off' \in Nat
    <2>1. assembling' \in BOOLEAN
      BY <1>1
    <2>2. assembly' \in Seq(Text)
      BY <1>1, <1>6, <1>7, <1>8, EmptyFact
    <2> QED
      BY <1>1, <1>3, <1>5, <1>6, <2>1, <2>2
  <1>12. TypeOK'
    BY <1>2, <1>10, <1>11 DEF IInv, TypeOK, Queued, Text
  <1>13. SessionInv'
    <2>1. rx' # NoMessage => session
      BY <1>1 DEF IInv, SessionInv
    <2> QED
      BY <1>2, <1>3, <2>1 DEF IInv, SessionInv
  <1>14. AssemblyInv'
    <2>1. rx' = NoMessage => rx_off' = 0
      BY <1>1, <1>4
    <2>2. ASSUME rx' # NoMessage
          PROVE  rx' = rx /\ rx_off' = next /\ next # rx.size
      BY <1>1, <2>2
    <2>3. rx' # NoMessage => rx_off' < rx'.size
      BY <1>4, <1>5, <2>2
    <2>4. ASSUME rx' # NoMessage, assembling'
          PROVE  /\ assembly' = Pieces(rx', rx_off')
                 /\ \E t \in ReadAs[rx'.topic] : assembly_topic' = Cut[t]
      <3>1. takes /\ ~done
        BY <1>1, <2>4
      <3> QED
        BY <1>1, <1>7, <1>8, <2>2, <2>4, <3>1
    <2> QED
      BY <2>1, <2>3, <2>4 DEF AssemblyInv, Pieces
  <1> QED
    BY <1>2, <1>10, <1>12, <1>13, <1>14, SameList, SameAsked DEF IInv

-----------------------------------------------------------------------------
(* The project subscribes and unsubscribes.                                *)

(* A subscription of the project does, with room in the table or without.  *)
LEMMA AppSubscribeKeeps ==
    ASSUME IInv, NEW t \in AppTopics, AppSubscribe(t)
    PROVE  IInv'
  <1> DEFINE known == Len(subs) < MaxSubs /\ t \in Elements(subs)
             kept  == Len(subs) < MaxSubs
  <1>1. /\ pc \in {"app", "ingest"} /\ wanted' = wanted \cup {t}
        /\ subs' = (IF kept /\ ~known THEN Append(subs, Cut[t]) ELSE subs)
        /\ refused' = (IF kept \/ t \in Elements(subs) THEN refused \ {t}
                       ELSE refused \cup {t})
        /\ granted' = (IF connected /\ session THEN granted \cup {t} ELSE granted)
        /\ UNCHANGED <<client, connected, reserved, direct, assembling, assembly,
                       assembly_topic, rx, rx_off, link, session, pc, todo, was_connected,
                       mqtt_started, paused, ring, missed>>
    BY DEF AppSubscribe, AppMayCall, AskBroker, clientVars, rxVars, loopVars, edgeVars
  <1>2. /\ subs \in Seq(Topics) /\ Len(subs) <= MaxSubs /\ Len(subs) \in Nat
        /\ t \in Topics /\ Cut[t] \in Topics /\ MaxSubs \in Nat
    BY SizesAssumption, TopicsAssumption DEF IInv, TypeOK
  <1>3. /\ subs' \in Seq(Topics) /\ Len(subs') <= MaxSubs
        /\ Elements(subs) \subseteq Elements(subs')
        /\ kept /\ ~known => Cut[t] \in Elements(subs')
    <2>1. CASE kept /\ ~known
      <3>1. subs' = Append(subs, Cut[t])
        BY <1>1, <2>1
      <3>2. subs' \in Seq(Topics) /\ Len(subs') = Len(subs) + 1
        BY <1>2, <3>1
      <3>3. Elements(subs') = Elements(subs) \cup {Cut[t]}
        BY <1>2, <3>1, ElementsAppend
      <3> QED
        BY <1>2, <2>1, <3>2, <3>3
    <2>2. CASE ~(kept /\ ~known)
      BY <1>1, <1>2, <2>2
    <2> QED
      BY <2>1, <2>2
  <1>4. TypeOK'
    BY <1>1, <1>2, <1>3 DEF IInv, TypeOK
  <1>5. SessionInv'
    BY <1>1 DEF IInv, SessionInv
  <1>6. RememberInv'
    <2>1. SUFFICES ASSUME NEW a \in wanted', a \notin refused', Cut[a] = a
                   PROVE  a \in Elements(subs')
      BY DEF RememberInv, Kept, Elements
    <2>2. CASE a = t
      <3>1. kept \/ t \in Elements(subs)
        BY <1>1, <2>1, <2>2
      <3> QED
        BY <1>3, <2>1, <2>2, <3>1
    <2>3. CASE a # t
      <3>1. a \in wanted /\ a \notin refused
        BY <1>1, <2>1, <2>3
      <3> QED
        BY <1>3, <2>1, <3>1 DEF IInv, RememberInv, Kept
    <2> QED
      BY <2>2, <2>3
  <1>7. AskedInv'
    <2>1. SUFFICES ASSUME session, was_connected, ~missed
                   PROVE  /\ Own \subseteq granted' \cup Elements(todo)
                          /\ \A a \in wanted' : a \notin refused' /\ Cut[a] = a =>
                                a \in granted' \cup Elements(todo)
      BY <1>1 DEF AskedInv, Kept, Elements
    <2>2. granted' = granted \cup {t}
      BY <1>1, <2>1 DEF IInv, SessionInv
    <2>3. Own \subseteq granted' \cup Elements(todo)
      BY <2>1, <2>2 DEF IInv, AskedInv
    <2>4. ASSUME NEW a \in wanted', a \notin refused', Cut[a] = a
          PROVE  a \in granted' \cup Elements(todo)
      <3>1. CASE a = t
        BY <2>2, <3>1
      <3>2. CASE a # t
        <4>1. a \in wanted /\ a \notin refused
          BY <1>1, <2>4, <3>2
        <4> QED
          BY <2>1, <2>2, <2>4, <4>1 DEF IInv, AskedInv, Kept
      <3> QED
        BY <3>1, <3>2
    <2> QED
      BY <2>3, <2>4
  <1> QED
    BY <1>1, <1>4, <1>5, <1>6, <1>7, SameAssembly, SameRing DEF IInv

(* So does its end.                                                        *)
LEMMA AppUnsubscribeKeeps ==
    ASSUME IInv, NEW t \in AppTopics, AppUnsubscribe(t)
    PROVE  IInv'
  <1>1. /\ wanted' = wanted \ {t} /\ refused' = refused \ {t}
        /\ UNCHANGED <<client, connected, reserved, direct, assembling, assembly,
                       assembly_topic, rx, rx_off, link, session, granted, pc, todo,
                       was_connected, mqtt_started, paused, ring, missed>>
    BY DEF AppUnsubscribe, clientVars, rxVars, netVars, loopVars, edgeVars
  <1>2. subs \in Seq(Topics) /\ Len(subs) <= MaxSubs /\ Len(subs) \in Nat
    BY DEF IInv, TypeOK
  <1>3. /\ subs' \in Seq(Topics) /\ Len(subs') <= Len(subs) /\ Len(subs') \in Nat
        /\ \A e \in Elements(subs) : e # t => e \in Elements(subs')
    <2>1. CASE t \in Elements(subs)
      <3> DEFINE First(k) == subs[k] = t /\ \A j \in DOMAIN subs : j < k => subs[j] # t
                 k == CHOOSE i \in DOMAIN subs : First(i)
      <3>1. \E i \in DOMAIN subs : First(i)
        BY <1>2, <2>1, FirstFact
      <3>2. k \in DOMAIN subs /\ subs[k] = t
        BY <3>1
      <3>3. subs' = Without(subs, k)
        BY <2>1 DEF AppUnsubscribe
      <3> HIDE DEF k, First
      <3>4. /\ subs' \in Seq(Topics) /\ Len(subs') <= Len(subs)
            /\ \A e \in Elements(subs) : e # subs[k] => e \in Elements(subs')
        BY <1>2, <3>2, <3>3, WithoutFact
      <3> QED
        BY <3>2, <3>4
    <2>2. CASE t \notin Elements(subs)
      <3>1. subs' = subs
        BY <2>2 DEF AppUnsubscribe
      <3> QED
        BY <1>2, <3>1
    <2> QED
      BY <2>1, <2>2
  <1>4. TypeOK'
    <2>1. Len(subs') <= MaxSubs
      BY <1>2, <1>3, SizesAssumption
    <2> QED
      BY <1>1, <1>3, <2>1 DEF IInv, TypeOK
  <1>5. SessionInv'
    BY <1>1 DEF IInv, SessionInv
  <1>6. RememberInv'
    <2>1. SUFFICES ASSUME NEW a \in wanted', a \notin refused', Cut[a] = a
                   PROVE  a \in Elements(subs')
      BY DEF RememberInv, Kept, Elements
    <2>2. a \in wanted /\ a # t /\ a \notin refused
      BY <1>1, <2>1
    <2> QED
      BY <1>3, <2>1, <2>2 DEF IInv, RememberInv, Kept
  <1>7. AskedInv'
    <2>1. SUFFICES ASSUME session, was_connected, ~missed
                   PROVE  /\ Own \subseteq granted \cup Elements(todo)
                          /\ \A a \in wanted' : a \notin refused' /\ Cut[a] = a =>
                                a \in granted \cup Elements(todo)
      BY <1>1 DEF AskedInv, Kept, Elements
    <2>2. \A a \in wanted' : a \in wanted /\ (a \notin refused' => a \notin refused)
      BY <1>1
    <2> QED
      BY <2>1, <2>2 DEF IInv, AskedInv, Kept
  <1> QED
    BY <1>1, <1>4, <1>5, <1>6, <1>7, SameAssembly, SameRing DEF IInv

-----------------------------------------------------------------------------
(* The invariant holds at the start.                                       *)
LEMMA InitKeeps ==
    ASSUME Init
    PROVE  IInv
  <1>1. /\ << >> \in Seq(Text) /\ << >> \in Seq(Topics) /\ << >> \in Seq(Queued)
        /\ Len(<< >>) = 0 /\ OwnTopics[1] \in Topics
    BY EmptyFact, TopicsAssumption
  <1>2. TypeOK
    <2>1. 0 <= InboxCap /\ 0 <= MaxSubs
      BY SizesAssumption
    <2>2. /\ ring \in Seq(Queued) /\ Len(ring) <= InboxCap
          /\ subs \in Seq(Topics) /\ Len(subs) <= MaxSubs
          /\ todo \in Seq(Topics) /\ assembly \in Seq(Text) /\ assembly_topic \in Topics
      BY <1>1, <2>1 DEF Init
    <2>3. /\ link \in BOOLEAN /\ pc \in Places /\ rx \in Messages \cup {NoMessage} /\ rx_off \in Nat
          /\ reserved \subseteq Own /\ granted \subseteq Topics
          /\ wanted \subseteq AppTopics /\ refused \subseteq AppTopics
      BY DEF Init, Places
    <2>4. /\ client \in BOOLEAN /\ connected \in BOOLEAN /\ direct \in BOOLEAN
          /\ assembling \in BOOLEAN /\ was_connected \in BOOLEAN /\ mqtt_started \in BOOLEAN
          /\ paused \in BOOLEAN /\ session \in BOOLEAN /\ missed \in BOOLEAN
      BY DEF Init
    <2> QED
      BY <2>2, <2>3, <2>4 DEF TypeOK, Queued, Text
  <1>3. SessionInv /\ RememberInv /\ AskedInv /\ AssemblyInv
    BY DEF Init, SessionInv, RememberInv, AskedInv, AssemblyInv
  <1>4. OnlyWholeMessages
    BY DEF Init, OnlyWholeMessages
  <1> QED
    BY <1>2, <1>3, <1>4 DEF IInv

(* It is inductive.                                                        *)
LEMMA StepKeeps ==
    ASSUME IInv, [Next]_vars
    PROVE  IInv'
  <1>1. CASE MqttStep
    BY <1>1, QuietKeeps, NoticeConnectKeeps, StartKeeps DEF MqttStep
  <1>2. CASE SubscribeNext
    BY <1>2, SubscribeNextKeeps
  <1>3. CASE Poll
    BY <1>3, PollKeeps
  <1>4. CASE PollEmpty \/ OtaIdle \/ ResumeMqttAfterOta \/ LinkChange \/ UNCHANGED vars
    BY <1>4, QuietKeeps
  <1>5. CASE PauseMqttForOta
    BY <1>5, PauseKeeps
  <1>6. CASE EspTask
    BY <1>6, OnConnectedKeeps, QuietKeeps, OnWholeKeeps, OnFragmentKeeps DEF EspTask
  <1>7. CASE BrokerSends
    BY <1>7, BrokerSendsKeeps
  <1>8. CASE Drop
    BY <1>8, DropKeeps
  <1>9. CASE AppCalls
    BY <1>9, AppSubscribeKeeps, AppUnsubscribeKeeps DEF AppCalls
  <1> QED
    BY <1>1, <1>2, <1>3, <1>4, <1>5, <1>6, <1>7, <1>8, <1>9 DEF Next, LoopTask

(* The invariant of mqttStep, deliver, poll and subscribe: types, the      *)
(* agreement of the two tasks, the list of subscriptions, the progress of  *)
(* making them again, the message being assembled and those queued.        *)
THEOREM Inductive ==
    Spec => []IInv
  <1>1. Init => IInv
    BY InitKeeps
  <1>2. IInv /\ [Next]_vars => IInv'
    BY StepKeeps
  <1> QED
    BY <1>1, <1>2, PTL DEF Spec

(* A noticed session carries the library's topics and the project's, after *)
(* any drops, pauses and calls, unless the loop missed the last drop       *)
(* (applySubscriptions, subscribe).                                        *)
THEOREM SubscriptionsKept ==
    Spec => []SubscriptionsSurvive
  <1>1. IInv => SubscriptionsSurvive
    <2>1. SUFFICES ASSUME IInv, Settled, ~missed
                   PROVE  /\ Own \subseteq granted
                          /\ \A t \in wanted : Kept(t) => t \in granted
      BY DEF SubscriptionsSurvive, Kept
    <2>2. todo = << >>
      BY <2>1 DEF Settled, IInv, SessionInv
    <2>3. Elements(todo) = {}
      BY <2>2 DEF Elements
    <2> QED
      BY <2>1, <2>3 DEF Settled, IInv, AskedInv
  <1> QED
    BY <1>1, Inductive, PTL

(* Every message the loop takes is a whole one, under what was read as its *)
(* own topic (handleEvent's assembly of fragments, deliver).               *)
THEOREM WholeMessages ==
    Spec => []OnlyWholeMessages
  <1>1. IInv => OnlyWholeMessages
    BY DEF IInv
  <1> QED
    BY <1>1, Inductive, PTL

(* The ring is empty when there is no client (end).                        *)
THEOREM RingEndsWithClient ==
    Spec => []NothingOutlivesClient
  <1>1. IInv => NothingOutlivesClient
    BY DEF IInv, SessionInv, NothingOutlivesClient
  <1> QED
    BY <1>1, Inductive, PTL
=============================================================================
