------------------------ MODULE GsmHttpClientProofs ------------------------
(***************************************************************************)
(* Proofs about GsmHttpClient, for every set of replies, every size of its *)
(* buffers and every width of a chunk's size.                              *)
(***************************************************************************)
EXTENDS GsmHttpClient, SequenceTheorems, WellFoundedInduction, TLAPS

-----------------------------------------------------------------------------
(* Induction, on sets of naturals.                                         *)
Below == OpToRel(<, Nat)

(* The order of the naturals has no endless descent.                       *)
LEMMA BelowWellFounded == IsWellFoundedOn(Below, Nat)
  BY NatLessThanWellFounded DEF Below

(* What that order says.                                                   *)
LEMMA BelowFact == \A x, y \in Nat : <<x, y>> \in Below <=> x < y
  BY DEF Below, OpToRel

(* The least number principle.                                             *)
LEMMA LeastNumber ==
    ASSUME NEW T \in SUBSET Nat, T # {}
    PROVE  \E x \in T : \A y \in T : x <= y
  <1>1. \E x \in T : \A y \in T : ~ (<<y, x>> \in Below)
    BY BelowWellFounded, WFMin
  <1>2. PICK x \in T : \A y \in T : ~ (<<y, x>> \in Below)
    BY <1>1
  <1>3. ASSUME NEW y \in T PROVE x <= y
    <2>1. x \in Nat /\ y \in Nat /\ ~(y < x)
      BY <1>2, BelowFact
    <2> QED
      BY <2>1
  <1> QED
    BY <1>2, <1>3

(* The least of some numbers is one of them.                               *)
LEMMA LeastFact ==
    ASSUME NEW T \in SUBSET Nat, T # {}
    PROVE  Least(T) \in T /\ \A y \in T : Least(T) <= y
  BY LeastNumber DEF Least

(* Induction on the naturals.                                              *)
LEMMA Induct ==
    ASSUME NEW T \in SUBSET Nat, 0 \in T, \A n \in T : n + 1 \in T
    PROVE  T = Nat
  <1>1. SUFFICES ASSUME Nat \ T # {} PROVE FALSE
    OBVIOUS
  <1>2. PICK x \in Nat \ T : \A y \in Nat \ T : x <= y
    BY <1>1, LeastNumber
  <1>3. x # 0 /\ x - 1 \in Nat
    BY <1>2
  <1>4. x - 1 \in T
    BY <1>2, <1>3
  <1> QED
    BY <1>2, <1>3, <1>4

-----------------------------------------------------------------------------
(* The decoder, one byte at a time.                                        *)

(* A decoder that expects payload expects some.                            *)
Sane(d) == d \in Decoders /\ (d.phase = "Data" => d.remaining > 0)

(* No size is a size.                                                      *)
LEMMA NoSize == 0 \in 0..MaxSize
  BY DecoderAssumption

(* reset() makes one.                                                      *)
LEMMA FreshSane == Sane(Fresh)
  BY NoSize DEF Fresh, Sane, Decoders, Phases

(* A size that passes the check fits, another digit with it; and the check *)
(* stops none that does.                                                   *)
LEMMA SizeFits ==
    ASSUME NEW a \in Nat, NEW e \in 0..(Radix - 1)
    PROVE  a > MaxSize \div Radix <=> a * Radix + e > MaxSize
  <1> DEFINE q == MaxSize \div Radix
  <1>1. /\ Radix \in Nat /\ Radix > 0 /\ MaxSize \in Nat
        /\ e \in Nat /\ e <= Radix - 1
    BY DecoderAssumption
  <1>2. q \in Nat /\ MaxSize = q * Radix + (Radix - 1)
    BY <1>1, DecoderAssumption
  <1> HIDE DEF q
  <1>3. (q + 1) * Radix = q * Radix + Radix /\ q * Radix \in Nat /\ a * Radix \in Nat
    BY <1>1, <1>2
  <1>4. CASE a > q
    <2>1. a * Radix >= (q + 1) * Radix
      BY <1>1, <1>2, <1>4
    <2>2. a * Radix + e > MaxSize
      BY <1>1, <1>2, <1>3, <2>1
    <2> QED
      BY <1>4, <2>2 DEF q
  <1>5. CASE ~(a > q)
    <2>1. a * Radix <= q * Radix
      BY <1>1, <1>2, <1>5
    <2>2. ~(a * Radix + e > MaxSize)
      BY <1>1, <1>2, <1>3, <2>1
    <2> QED
      BY <1>5, <2>2 DEF q
  <1> QED
    BY <1>4, <1>5

(* feed() keeps a decoder sane, whatever the byte.                         *)
LEMMA FeedSane ==
    ASSUME NEW d, Sane(d), NEW c
    PROVE  Sane(Feed(d, c))
  <1>1. d.phase \in Phases /\ d.remaining \in Nat
    BY DEF Sane, Decoders
  <1>2. Sane(EndSizeLine(d))
    <2>1. CASE ~d.digit
      BY <2>1 DEF Sane, Decoders, Phases, EndSizeLine
    <2>2. CASE d.digit /\ d.remaining = 0
      BY <2>2 DEF Sane, Decoders, Phases, EndSizeLine
    <2>3. CASE d.digit /\ d.remaining # 0
      <3>1. EndSizeLine(d) = [d EXCEPT !.phase = "Data"] /\ d.remaining > 0
        BY <1>1, <2>3 DEF EndSizeLine
      <3> QED
        BY <3>1 DEF Sane, Decoders, Phases
    <2> QED
      BY <2>1, <2>2, <2>3
  <1>3. CASE d.phase = "Size"
    <2>1. Sane(SizeDigit(d, c))
      <3>1. CASE c \in DOMAIN Digits
        <4>1. Digits[c] \in Nat /\ Radix \in Nat
          BY <3>1, DecoderAssumption
        <4>2. d.remaining * Radix + Digits[c] \in Nat
          <5>1. ASSUME NEW a \in Nat, NEW b \in Nat, NEW e \in Nat PROVE a * b + e \in Nat
            BY <5>1
          <5> QED
            BY <1>1, <4>1, <5>1
        <4> DEFINE size == d.remaining * Radix + Digits[c]
        <4>3. SizeDigit(d, c) = [d EXCEPT !.phase = "Invalid"]
              \/ /\ ~(d.remaining > MaxSize \div Radix)
                 /\ SizeDigit(d, c) = [d EXCEPT !.remaining = size, !.digit = TRUE]
          BY DEF SizeDigit
        <4>4. ~(d.remaining > MaxSize \div Radix) => size \in 0..MaxSize
          <5>1. Digits[c] \in 0..(Radix - 1)
            BY <3>1, DecoderAssumption
          <5>2. d.remaining > MaxSize \div Radix <=> size > MaxSize
            BY <1>1, <5>1, SizeFits
          <5>3. size \in Nat /\ MaxSize \in Nat
            BY <4>2, DecoderAssumption
          <5> HIDE DEF size
          <5> QED
            BY <5>2, <5>3
        <4> HIDE DEF size
        <4> QED
          BY <1>3, <4>3, <4>4 DEF Sane, Decoders, Phases
      <3>2. CASE c \notin DOMAIN Digits
        BY <3>2 DEF SizeDigit, Sane, Decoders, Phases
      <3> QED
        BY <3>1, <3>2
    <2>2. FeedSize(d, c) \in {d, EndSizeLine(d), SizeDigit(d, c),
                              [d EXCEPT !.phase = IF d.digit THEN "Extension" ELSE "Invalid"]}
      BY DEF FeedSize
    <2>3. Sane([d EXCEPT !.phase = IF d.digit THEN "Extension" ELSE "Invalid"])
      BY DEF Sane, Decoders, Phases
    <2> QED
      BY <1>2, <1>3, <2>1, <2>2, <2>3 DEF Feed
  <1>4. CASE d.phase = "Extension"
    BY <1>2, <1>4 DEF Feed
  <1>5. CASE d.phase = "DataEnd"
    BY <1>5, NoSize DEF Feed, FeedDataEnd, Sane, Decoders, Phases
  <1>6. CASE d.phase = "Trailer"
    BY <1>6 DEF Feed, FeedTrailer, Sane, Decoders, Phases
  <1>7. CASE d.phase \notin {"Size", "Extension", "DataEnd", "Trailer"}
    BY <1>7 DEF Feed
  <1> QED
    BY <1>3, <1>4, <1>5, <1>6, <1>7

(* consumeData() too.                                                      *)
LEMMA ConsumeSane ==
    ASSUME NEW d, Sane(d), NEW n \in Nat
    PROVE  Sane(ConsumeData(d, n))
  <1>1. CASE d.phase # "Data"
    BY <1>1 DEF ConsumeData
  <1>2. CASE d.phase = "Data" /\ n < d.remaining
    <2> DEFINE left == d.remaining - n
    <2>1. left \in 0..MaxSize /\ left > 0
      BY <1>2, DecoderAssumption DEF Sane, Decoders
    <2>2. ConsumeData(d, n) = [d EXCEPT !.remaining = left]
      BY <1>2 DEF ConsumeData
    <2> HIDE DEF left
    <2> QED
      BY <2>1, <2>2 DEF Sane, Decoders
  <1>3. CASE d.phase = "Data" /\ ~(n < d.remaining)
    BY <1>3, NoSize DEF ConsumeData, Sane, Decoders, Phases
  <1> QED
    BY <1>1, <1>2, <1>3

(* The end of a body stays the end.                                        *)
LEMMA DoneStays ==
    ASSUME NEW d, d.phase = "Done", NEW c
    PROVE  Feed(d, c) = d
  BY DEF Feed

-----------------------------------------------------------------------------
(* A body in chunks, byte by byte: the decoder after each, and the bytes   *)
(* of payload so far.                                                      *)

Stepped(s, c) ==
    IF s.dec.phase = "Data" THEN [dec |-> ConsumeData(s.dec, 1), count |-> s.count + 1]
                            ELSE [dec |-> Feed(s.dec, c), count |-> s.count]

(* The recursion of Trace, up to the n-th byte.                            *)
Traces(w, n, at) ==
    at = [i \in 0..n |-> IF i = 0 THEN [dec |-> Fresh, count |-> 0]
                                  ELSE Stepped(at[i - 1], w[i])]

Trace(w) ==
    LET at[i \in 0..Len(w)] == IF i = 0 THEN [dec |-> Fresh, count |-> 0]
                                       ELSE Stepped(at[i - 1], w[i])
    IN at

(* There is such a function.                                               *)
LEMMA TracesExist ==
    ASSUME NEW w, NEW n \in Nat
    PROVE  \E at : Traces(w, n, at)
  <1> DEFINE T == {k \in Nat : \E at : Traces(w, k, at)}
  <1>1. 0 \in T
    <2>1. Traces(w, 0, [i \in 0..0 |-> [dec |-> Fresh, count |-> 0]])
      BY DEF Traces
    <2> QED
      BY <2>1
  <1>2. ASSUME NEW k \in T PROVE k + 1 \in T
    <2>1. PICK at : Traces(w, k, at)
      OBVIOUS
    <2> DEFINE x == Stepped(at[k], w[k + 1])
    <2> DEFINE to == [i \in 0..(k + 1) |-> IF i = k + 1 THEN x ELSE at[i]]
    <2>2. \A i \in 0..(k + 1) :
             to[i] = IF i = 0 THEN [dec |-> Fresh, count |-> 0] ELSE Stepped(to[i - 1], w[i])
      BY <2>1 DEF Traces
    <2>3. Traces(w, k + 1, to)
      BY <2>2 DEF Traces
    <2> QED
      BY <2>3
  <1> HIDE DEF T
  <1>3. T = Nat
    BY <1>1, <1>2, Induct DEF T
  <1> QED
    BY <1>3 DEF T

(* What is known of a trace.                                               *)
Follows(w, at) ==
    /\ at[0] = [dec |-> Fresh, count |-> 0]
    /\ \A i \in 1..Len(w) : at[i] = Stepped(at[i - 1], w[i])
    /\ \A i \in 0..Len(w) : Sane(at[i].dec) /\ at[i].count \in Nat

(* Trace does, by induction on the bytes.                                  *)
LEMMA TraceFact ==
    ASSUME NEW w, Len(w) \in Nat
    PROVE  Follows(w, Trace(w))
  <1> DEFINE at == Trace(w)
  <1>1. Traces(w, Len(w), at)
    BY TracesExist DEF Traces, Trace
  <1> HIDE DEF at
  <1>2. /\ at[0] = [dec |-> Fresh, count |-> 0]
        /\ \A i \in 1..Len(w) : at[i] = Stepped(at[i - 1], w[i])
    BY <1>1 DEF Traces
  <1> DEFINE T == {k \in Nat : k <= Len(w) => Sane(at[k].dec) /\ at[k].count \in Nat}
  <1>3. 0 \in T
    <2>1. at[0].dec = Fresh /\ at[0].count = 0
      BY <1>2
    <2> QED
      BY <2>1, FreshSane
  <1>4. ASSUME NEW k \in T PROVE k + 1 \in T
    <2> SUFFICES ASSUME k + 1 <= Len(w)
                 PROVE  Sane(at[k + 1].dec) /\ at[k + 1].count \in Nat
      OBVIOUS
    <2>1. k + 1 \in 1..Len(w) /\ Sane(at[k].dec) /\ at[k].count \in Nat
      OBVIOUS
    <2>2. at[k + 1] = Stepped(at[k], w[k + 1])
      BY <1>2, <2>1
    <2> QED
      BY <2>1, <2>2, FeedSane, ConsumeSane DEF Stepped
  <1> HIDE DEF T
  <1>5. T = Nat
    BY <1>3, <1>4, Induct DEF T
  <1> QED
    BY <1>2, <1>5 DEF T, Follows, at

(* The count never falls, and the end stays the end.                       *)
LEMMA TraceGoesOn ==
    ASSUME NEW w, Len(w) \in Nat, NEW at, Follows(w, at),
           NEW i \in 0..Len(w), NEW j \in 0..Len(w), i <= j
    PROVE  /\ at[i].count <= at[j].count
           /\ at[i].dec.phase = "Done" => /\ at[j].dec.phase = "Done"
                                          /\ at[j].count = at[i].count
  <1> DEFINE T == {k \in Nat : i + k <= Len(w) =>
                      /\ at[i].count <= at[i + k].count
                      /\ at[i].dec.phase = "Done" => /\ at[i + k].dec.phase = "Done"
                                                     /\ at[i + k].count = at[i].count}
  <1>1. 0 \in T
    BY DEF Follows
  <1>2. ASSUME NEW k \in T PROVE k + 1 \in T
    <2> SUFFICES ASSUME i + (k + 1) <= Len(w)
                 PROVE  /\ at[i].count <= at[i + (k + 1)].count
                        /\ at[i].dec.phase = "Done" => /\ at[i + (k + 1)].dec.phase = "Done"
                                                       /\ at[i + (k + 1)].count = at[i].count
      OBVIOUS
    <2> DEFINE m == i + k
    <2>1. m \in 0..Len(w) /\ m + 1 \in 1..Len(w) /\ i + (k + 1) = m + 1
      OBVIOUS
    <2>2. /\ at[i].count <= at[m].count
          /\ at[i].dec.phase = "Done" => /\ at[m].dec.phase = "Done"
                                         /\ at[m].count = at[i].count
      BY <2>1
    <2> HIDE DEF m
    <2>3. at[m + 1] = Stepped(at[m], w[m + 1]) /\ at[m].count \in Nat /\ at[i].count \in Nat
      BY SMTT(30), <2>1 DEF Follows
    <2> QED
      BY <2>1, <2>2, <2>3, DoneStays DEF Stepped
  <1> HIDE DEF T
  <1>3. T = Nat
    BY <1>1, <1>2, Induct DEF T
  <1>4. j - i \in T /\ i + (j - i) = j
    BY <1>3
  <1> QED
    BY <1>4 DEF T

(* Payload: a block of it at once leaves the decoder where one byte at a   *)
(* time would.                                                             *)
LEMMA TraceBlock ==
    ASSUME NEW w, Len(w) \in Nat, NEW at, Follows(w, at),
           NEW i \in 0..Len(w), at[i].dec.phase = "Data",
           NEW n \in Nat, i + n <= Len(w), n <= at[i].dec.remaining
    PROVE  /\ at[i + n].dec = ConsumeData(at[i].dec, n)
           /\ at[i + n].count = at[i].count + n
           /\ n > 0 => at[i + (n - 1)].dec.phase = "Data"
  <1> DEFINE d == at[i].dec
  <1>0. Sane(d) /\ d.phase = "Data" /\ d.remaining \in Nat /\ d.remaining > 0
        /\ at[i].count \in Nat
    BY DEF Follows, Sane, Decoders
  <1> HIDE DEF d
  <1> DEFINE T == {k \in Nat : k <= n =>
                      /\ at[i + k].dec = ConsumeData(d, k)
                      /\ at[i + k].count = at[i].count + k
                      /\ k > 0 => at[i + (k - 1)].dec.phase = "Data"}
  <1>1. 0 \in T
    <2>1. ConsumeData(d, 0) = d
      <3>1. d.remaining - 0 = d.remaining
        BY <1>0
      <3>2. ConsumeData(d, 0) = [d EXCEPT !.remaining = d.remaining]
        BY <1>0, <3>1 DEF ConsumeData
      <3> QED
        BY <1>0, <3>2 DEF Sane, Decoders
    <2> QED
      BY <1>0, <2>1 DEF d
  <1>2. ASSUME NEW k \in T PROVE k + 1 \in T
    <2> SUFFICES ASSUME k + 1 <= n
                 PROVE  /\ at[i + (k + 1)].dec = ConsumeData(d, k + 1)
                        /\ at[i + (k + 1)].count = at[i].count + (k + 1)
                        /\ at[i + k].dec.phase = "Data"
      BY SMTT(30)
    <2> DEFINE m == i + k
    <2>1. m \in 0..Len(w) /\ m + 1 \in 1..Len(w) /\ i + (k + 1) = m + 1 /\ k \in Nat
      OBVIOUS
    <2>2. at[m].dec = ConsumeData(d, k) /\ at[m].count = at[i].count + k
      BY <2>1
    <2> HIDE DEF m
    <2>3. k < d.remaining
      BY <1>0, <2>1 DEF d
    <2>4. at[m].dec = [d EXCEPT !.remaining = d.remaining - k]
      BY <1>0, <2>2, <2>3 DEF ConsumeData
    <2>5. at[m].dec.phase = "Data" /\ at[m].dec.remaining = d.remaining - k
      BY <1>0, <2>4 DEF Sane, Decoders
    <2>6. /\ at[m + 1].dec = ConsumeData(at[m].dec, 1)
          /\ at[m + 1].count = at[m].count + 1
      <3>1. (m + 1) - 1 = m
        BY <2>1
      <3>2. at[m + 1] = Stepped(at[m], w[m + 1])
        BY <2>1, <3>1 DEF Follows
      <3>3. at[m + 1] = [dec |-> ConsumeData(at[m].dec, 1), count |-> at[m].count + 1]
        BY <2>5, <3>2 DEF Stepped
      <3> QED
        BY <3>3
    <2>7. ConsumeData(at[m].dec, 1) = ConsumeData(d, k + 1)
      <3>1. CASE k + 1 < d.remaining
        <4>1. 1 < d.remaining - k /\ (d.remaining - k) - 1 = d.remaining - (k + 1)
          BY <1>0, <2>1, <3>1
        <4>2. ConsumeData(at[m].dec, 1) =
                  [at[m].dec EXCEPT !.remaining = d.remaining - (k + 1)]
          BY <2>5, <4>1 DEF ConsumeData
        <4>3. ConsumeData(d, k + 1) = [d EXCEPT !.remaining = d.remaining - (k + 1)]
          BY <1>0, <3>1 DEF ConsumeData
        <4> QED
          BY <2>4, <4>2, <4>3
      <3>2. CASE ~(k + 1 < d.remaining)
        <4>1. ~(1 < d.remaining - k)
          BY <1>0, <2>1, <3>2
        <4>2. ConsumeData(at[m].dec, 1) =
                  [at[m].dec EXCEPT !.remaining = 0, !.phase = "DataEnd"]
          BY <2>5, <4>1 DEF ConsumeData
        <4>3. ConsumeData(d, k + 1) = [d EXCEPT !.remaining = 0, !.phase = "DataEnd"]
          BY <1>0, <3>2 DEF ConsumeData
        <4> QED
          BY <2>4, <4>2, <4>3
      <3> QED
        BY <3>1, <3>2
    <2>8. i + k = m /\ i + (k + 1) = m + 1
      BY <2>1 DEF m
    <2>9. at[m + 1].dec = ConsumeData(d, k + 1)
      BY <2>6, <2>7
    <2>10. at[m + 1].count = at[i].count + (k + 1)
      <3>1. at[m].count = at[i].count + k /\ at[m + 1].count = at[m].count + 1
        BY <2>2, <2>6
      <3>2. at[i].count \in Nat /\ k \in Nat
        BY <1>0, <2>1
      <3> HIDE DEF T
      <3> QED
        BY SMTT(30), <3>1, <3>2
    <2> QED
      BY <2>5, <2>8, <2>9, <2>10
  <1> HIDE DEF T
  <1>3. T = Nat
    BY <1>1, <1>2, Induct DEF T
  <1> QED
    BY <1>3 DEF T, d

-----------------------------------------------------------------------------
(* What a server means by a reply: its body is what the framing it         *)
(* declares makes of its bytes, and it is sound if it ends where the       *)
(* framing says.                                                           *)
InChunksIs(r) ==
    LET at == Trace(r.wire)
        n  == Len(r.wire)
    IN /\ Len(r.body) = at[n].count
       /\ \A i \in 1..n : at[i - 1].dec.phase = "Data" => r.body[at[i].count] = r.wire[i]
       /\ r.sound <=> at[n].dec.phase = "Done"

WholeIs(r) ==
    LET n == IF Declared(r) \in 1..Len(r.wire) THEN Declared(r) ELSE Len(r.wire)
    IN /\ Len(r.body) = n /\ \A i \in 1..n : r.body[i] = r.wire[i]
       /\ r.sound <=> Declared(r) <= Len(r.wire)

IsMeant(r) == IF InChunks(r) THEN InChunksIs(r) ELSE WholeIs(r)

-----------------------------------------------------------------------------
(* The inductive invariant.                                                *)

TypesInv ==
    /\ TypeOK
    /\ lines \in Seq(Lines)
    /\ wire \in Seq(Bytes) /\ piece \in Seq(Bytes) /\ out \in Seq(Bytes)

(* Until the headers end nothing has been read of the body.                *)
StartInv ==
    pc \in {"send", "headers"} =>
        /\ wire = reply.wire /\ arrived = 0 /\ pos = 0
        /\ dec = Fresh /\ recebido = 0 /\ piece = <<>> /\ out = <<>>
        /\ result = "none" /\ ~astray

(* The first k lines of a reply have been read.                            *)
LeftAfter(k) ==
    /\ Len(lines) = Len(reply.lines) - k
    /\ \A i \in 1..(Len(reply.lines) - k) : lines[i] = reply.lines[k + i]

(* What those lines declare.                                               *)
LengthAfter(ls, k, n) ==
    \/ n = 0 /\ \A i \in 1..k : ls[i].is # "length"
    \/ \E i \in 1..k : /\ ls[i].is = "length" /\ ls[i].n = n
                       /\ \A j \in (i + 1)..k : ls[j].is # "length"

(* While each was read in one piece, what they declare is known.           *)
HeadersInv ==
    pc \in {"send", "headers"} /\ ~cut =>
        \E k \in 0..Len(reply.lines) :
           /\ LeftAfter(k)
           /\ first => k = 0
           /\ chunked <=> \E i \in 1..k : reply.lines[i].is = "chunked"
           /\ LengthAfter(reply.lines, k, length)

Body == pc \in {"open", "body"} /\ Understood

(* The headers were read to their end.                                     *)
FramingInv ==
    Body => /\ wire = reply.wire
            /\ chunked <=> InChunks(reply)
            /\ length = Declared(reply)

(* The decoder, and the bytes of payload counted, are where the bytes read *)
(* have brought them.                                                      *)
ReadInv ==
    Body => IF chunked
            THEN dec = Trace(wire)[pos].dec /\ recebido = Trace(wire)[pos].count
            ELSE recebido = pos /\ (length > 0 => pos <= length)

(* The piece in hand ends where the count is; what was handed over ends    *)
(* where the piece begins, unless it did not fit.                          *)
PieceInv ==
    Body /\ result = "none" =>
        /\ Len(out) + Len(piece) <= recebido
        /\ \A j \in 1..Len(piece) :
               piece[j] = reply.body[recebido - Len(piece) + j]
        /\ op = "download" \/ Len(out) < ReplyCap - 1 =>
               Len(out) + Len(piece) = recebido

Begins(s, t) == Len(s) <= Len(t) /\ \A j \in 1..Len(s) : s[j] = t[j]

HandedInv == Understood => Begins(out, reply.body)

PlaceInv ==
    /\ pc = "open" => piece = <<>> /\ op = "download"
    /\ pc = "body" => result = "none"

EofInv ==
    result = "Eof" /\ Understood =>
        \/ out = reply.body /\ reply.sound
        \/ ~Declares(reply) /\ closed /\ arrived # Len(wire)

HttpInv == /\ TypesInv /\ StartInv /\ HeadersInv /\ PlaceInv

-----------------------------------------------------------------------------
(* Types.                                                                  *)

(* The bytes of one more of the last lines.                                *)
Joined(ls, i, after) == BytesOf(ls[Len(ls) + 1 - i]) \o after

(* The recursion of Unread, up to the n-th line from the end.              *)
Joins(ls, n, last) ==
    last = [i \in 0..n |-> IF i = 0 THEN <<>> ELSE Joined(ls, i, last[i - 1])]

(* There is such a function.                                               *)
LEMMA JoinsExist ==
    ASSUME NEW ls, NEW n \in Nat
    PROVE  \E last : Joins(ls, n, last)
  <1> DEFINE T == {k \in Nat : \E last : Joins(ls, k, last)}
  <1>1. 0 \in T
    <2>1. Joins(ls, 0, [i \in 0..0 |-> <<>>])
      BY DEF Joins
    <2> QED
      BY <2>1
  <1>2. ASSUME NEW k \in T PROVE k + 1 \in T
    <2>1. PICK last : Joins(ls, k, last)
      OBVIOUS
    <2> DEFINE x == Joined(ls, k + 1, last[k])
    <2> DEFINE to == [i \in 0..(k + 1) |-> IF i = k + 1 THEN x ELSE last[i]]
    <2>2. \A i \in 0..(k + 1) : to[i] = IF i = 0 THEN <<>> ELSE Joined(ls, i, to[i - 1])
      BY <2>1 DEF Joins
    <2>3. Joins(ls, k + 1, to)
      BY <2>2 DEF Joins
    <2> QED
      BY <2>3
  <1> HIDE DEF T
  <1>3. T = Nat
    BY <1>1, <1>2, Induct DEF T
  <1> QED
    BY <1>3 DEF T

(* What is left unread of the header lines is bytes.                       *)
LEMMA UnreadFact ==
    ASSUME NEW ls \in Seq(Lines)
    PROVE  Unread(ls) \in Seq(Bytes)
  <1>0. Len(ls) \in Nat /\ \A i \in 1..Len(ls) : ls[i] \in Lines
    OBVIOUS
  <1> DEFINE last == CHOOSE last :
               last = [i \in 0..Len(ls) |->
                         IF i = 0 THEN <<>>
                         ELSE BytesOf(ls[Len(ls) + 1 - i]) \o last[i - 1]]
  <1>1. Unread(ls) = last[Len(ls)]
    BY DEF Unread
  <1>2. last = CHOOSE g : Joins(ls, Len(ls), g)
    BY DEF Joins, Joined
  <1> HIDE DEF last
  <1>3. Joins(ls, Len(ls), last)
    BY <1>0, <1>2, JoinsExist
  <1>4. /\ last[0] = <<>>
        /\ \A i \in 1..Len(ls) : last[i] = Joined(ls, i, last[i - 1])
    BY <1>0, <1>3 DEF Joins
  <1> DEFINE T == {k \in Nat : k <= Len(ls) => last[k] \in Seq(Bytes)}
  <1>5. 0 \in T
    <2>1. <<>> \in Seq(Bytes)
      OBVIOUS
    <2> QED
      BY <1>4, <2>1
  <1>6. ASSUME NEW k \in T PROVE k + 1 \in T
    <2> SUFFICES ASSUME k + 1 <= Len(ls) PROVE last[k + 1] \in Seq(Bytes)
      OBVIOUS
    <2>1. k + 1 \in 1..Len(ls) /\ last[k] \in Seq(Bytes) /\ (k + 1) - 1 = k
          /\ Len(ls) + 1 - (k + 1) \in 1..Len(ls)
      BY <1>0
    <2> DEFINE l == ls[Len(ls) + 1 - (k + 1)]
    <2>2. last[k + 1] = BytesOf(l) \o last[k]
      BY <1>4, <2>1 DEF Joined
    <2>3. l.size + 1 \in Nat
      <3>1. l \in Lines
        BY <1>0, <2>1
      <3> HIDE DEF l
      <3> QED
        BY <3>1 DEF Lines
    <2> HIDE DEF l
    <2>4. BytesOf(l) \in [1..(l.size + 1) -> Bytes]
      BY DEF BytesOf, Bytes, Marks
    <2>5. BytesOf(l) \in Seq(Bytes)
      BY <2>3, <2>4
    <2> QED
      BY <2>1, <2>2, <2>5
  <1> HIDE DEF T
  <1>7. T = Nat
    BY <1>5, <1>6, Induct DEF T
  <1> QED
    BY <1>0, <1>1, <1>7 DEF T

(* What a read leaves of a line is a line, or nothing when it took it all. *)
LEMMA RestFact ==
    ASSUME NEW l \in Lines, NEW k \in Reads(l)
    PROVE  /\ RestOf(l, k) \in Seq(Lines)
           /\ Whole(l, k) => RestOf(l, k) = <<>>
           /\ k \in 1..(l.size + 1)
  <1>1. l.size \in Nat /\ LineCap \in Nat
    BY SizesAssumption DEF Lines
  <1>2. k \in 1..(l.size + 1)
    BY <1>1 DEF Reads
  <1>3. CASE Whole(l, k)
    BY <1>2, <1>3 DEF RestOf
  <1>4. CASE ~Whole(l, k)
    <2>1. l.size - k \in Nat
      BY <1>1, <1>2, <1>4 DEF Whole
    <2> DEFINE rest == [is |-> "rest", n |-> 0, size |-> l.size - k]
    <2>2. rest \in Lines
      BY <2>1 DEF Lines
    <2>3. RestOf(l, k) = <<rest>>
      BY <1>4 DEF RestOf
    <2> HIDE DEF rest
    <2> QED
      BY <1>2, <1>4, <2>2, <2>3
  <1> QED
    BY <1>3, <1>4

(* A reply, field by field.                                                *)
LEMMA ReplyFact ==
    ASSUME NEW r \in Replies
    PROVE  /\ r.lines \in Seq(Lines) /\ r.sound \in BOOLEAN
           /\ r.wire \in Seq(Bytes) /\ r.body \in Seq(Bytes)
           /\ \A i \in 1..Len(r.lines) :
                 r.lines[i].size <= 1 => r.lines[i].is = "blank" /\ i = Len(r.lines)
  BY RepliesAssumption

(* At the start all parts of the invariant but those on the body hold.     *)
LEMMA InitTypes == Init => HttpInv
  <1> SUFFICES ASSUME Init PROVE HttpInv
    OBVIOUS
  <1>1. reply \in Replies
    BY RepliesAssumption DEF Init
  <1>2. dec \in Decoders
    BY FreshSane DEF Init, Sane
  <1>3. TypeOK
    <2>1. /\ pc = "idle" /\ op = "reply" /\ sent = 0 /\ first = TRUE
          /\ status = 0 /\ length = 0 /\ chunked = FALSE /\ recebido = 0
          /\ wire = <<>> /\ arrived = 0 /\ pos = 0 /\ closed = FALSE
          /\ block = ReplyBlock /\ piece = <<>> /\ result = "none"
          /\ cut = FALSE /\ astray = FALSE
      BY DEF Init
    <2>2. arrived \in 0..Len(wire) /\ pos \in 0..arrived
      BY <2>1
    <2>3. Len(piece) <= block
      BY <2>1, SizesAssumption
    <2> QED
      BY <1>1, <1>2, <2>1, <2>2, <2>3 DEF TypeOK, Results
  <1>4. lines \in Seq(Lines) /\ wire \in Seq(Bytes) /\ piece \in Seq(Bytes)
        /\ out \in Seq(Bytes)
    BY DEF Init
  <1> QED
    BY <1>3, <1>4 DEF Init, HttpInv, TypesInv, StartInv, HeadersInv, PlaceInv

(* begin() of an exchange keeps the types.                                 *)
LEMMA TypesBegin ==
    ASSUME TypesInv, Begin
    PROVE  TypesInv'
  <1>1. reply' \in Replies /\ lines' = reply'.lines /\ wire' = reply'.wire
    BY DEF Begin
  <1>2. lines' \in Seq(Lines) /\ wire' \in Seq(Bytes)
    BY <1>1, ReplyFact
  <1>3. dec' \in Decoders
    BY FreshSane DEF Begin, Sane
  <1>4. piece' \in Seq(Bytes) /\ out' \in Seq(Bytes) /\ Len(piece') <= block'
    BY SizesAssumption DEF Begin
  <1>5. /\ pc' \in {"send", "headers"} /\ op' \in {"reply", "download"}
        /\ first' \in BOOLEAN /\ sent' = 0 /\ status' = 0 /\ length' = 0
        /\ chunked' \in BOOLEAN /\ recebido' = 0 /\ arrived' = 0 /\ pos' = 0
        /\ closed' \in BOOLEAN /\ block' = ReplyBlock /\ result' = "none"
        /\ cut' \in BOOLEAN /\ astray' \in BOOLEAN
    BY DEF Begin
  <1>6. arrived' \in 0..Len(wire')
    BY <1>2, <1>5
  <1>7. /\ pos' \in 0..arrived' /\ result' \in Results
        /\ pc' \in {"idle", "send", "headers", "open", "body"}
    BY <1>5 DEF Results
  <1> QED
    BY <1>1, <1>2, <1>3, <1>4, <1>5, <1>6, <1>7 DEF TypesInv, TypeOK

(* So do the request, the headers and the network.                         *)
LEMMA TypesHead ==
    ASSUME TypesInv,
           SendBlock \/ SendFails \/ SendDone \/ Headers \/ HeadersFail \/ Arrive \/ Close
    PROVE  TypesInv'
  <1> USE DEF TypesInv, TypeOK, httpVars, netVars
  <1>1. CASE SendBlock
    BY <1>1 DEF SendBlock
  <1>2. CASE SendFails
    BY <1>2 DEF SendFails, Finish, Results
  <1>3. CASE SendDone
    BY <1>3 DEF SendDone
  <1>4. CASE StatusLine
    <2>1. Head(lines) \in Lines /\ Tail(lines) \in Seq(Lines)
      BY <1>4 DEF StatusLine
    <2>2. PICK k \in Reads(Head(lines)) :
             /\ status' \in IF Whole(Head(lines), k) THEN {Head(lines).n}
                                                   ELSE FirstDigits(Head(lines).n)
             /\ lines' = RestOf(Head(lines), k) \o Tail(lines)
             /\ cut' = (cut \/ ~Whole(Head(lines), k))
      BY <1>4 DEF StatusLine
    <2>3. /\ first' = FALSE
          /\ UNCHANGED <<pc, op, sent, length, chunked, dec, recebido, block, piece, out,
                         result, reply, astray, netVars>>
      BY <1>4 DEF StatusLine
    <2>4. lines' \in Seq(Lines) /\ cut' \in BOOLEAN
      <3>1. RestOf(Head(lines), k) \in Seq(Lines)
        BY <2>1, RestFact
      <3> QED
        BY <2>1, <2>2, <3>1
    <2>5. status' \in Nat
      BY <2>1, <2>2 DEF Lines, FirstDigits
    <2> QED
      BY <2>3, <2>4, <2>5
  <1>5. CASE HeaderLine
    <2>1. Head(lines) \in Lines /\ Tail(lines) \in Seq(Lines)
      BY <1>5 DEF HeaderLine
    <2>2. PICK k \in Reads(Head(lines)) :
             /\ length' \in LengthRead(Head(lines), k)
             /\ chunked' \in ChunkedRead(Head(lines), k)
             /\ lines' = RestOf(Head(lines), k) \o Tail(lines)
             /\ cut' = (cut \/ ~Whole(Head(lines), k))
      BY <1>5 DEF HeaderLine
    <2>3. UNCHANGED <<pc, op, sent, first, status, dec, recebido, netVars, block, piece,
                      out, result, reply, astray>>
      BY <1>5 DEF HeaderLine
    <2>4. lines' \in Seq(Lines) /\ cut' \in BOOLEAN
      <3>1. RestOf(Head(lines), k) \in Seq(Lines)
        BY <2>1, RestFact
      <3> QED
        BY <2>1, <2>2, <3>1
    <2>5. length' \in Nat
      <3>1. Head(lines).n \in Nat /\ length \in Nat
        BY <2>1 DEF Lines
      <3> QED
        BY <2>2, <3>1 DEF LengthRead, FirstDigits
    <2>6. chunked' \in BOOLEAN
      BY <2>2 DEF ChunkedRead
    <2> QED
      BY <2>3, <2>4, <2>5, <2>6
  <1>6. CASE EndOfHeaders
    <2>1. Head(lines) \in Lines /\ Tail(lines) \in Seq(Lines)
      BY <1>6 DEF EndOfHeaders
    <2>2. PICK k \in Reads(Head(lines)) :
             LET left == RestOf(Head(lines), k) \o Tail(lines)
             IN /\ astray' = (left # <<>>) /\ wire' = Unread(left) \o wire
                /\ cut' = (cut \/ ~Whole(Head(lines), k))
      BY <1>6 DEF EndOfHeaders
    <2>3. wire' \in Seq(Bytes) /\ Len(wire') >= Len(wire)
      <3> DEFINE left == RestOf(Head(lines), k) \o Tail(lines)
      <3>1. left \in Seq(Lines)
        <4>1. RestOf(Head(lines), k) \in Seq(Lines)
          BY <2>1, RestFact
        <4> QED
          BY <2>1, <4>1
      <3>2. wire' = Unread(left) \o wire
        BY <2>2
      <3> HIDE DEF left
      <3>3. Unread(left) \in Seq(Bytes)
        BY <3>1, UnreadFact
      <3> QED
        BY <3>2, <3>3
    <2>4. arrived' \in 0..Len(wire') /\ pos' \in 0..arrived'
      BY <1>6, <2>3 DEF EndOfHeaders
    <2>5. /\ pc' \in {"open", "body"} /\ lines' = <<>> /\ lines' \in Seq(Lines)
          /\ UNCHANGED <<op, sent, first, httpVars, closed, block, piece, out, result, reply>>
      BY <1>6 DEF EndOfHeaders
    <2>6. astray' \in BOOLEAN /\ cut' \in BOOLEAN
      BY <2>2
    <2> QED
      BY <2>3, <2>4, <2>5, <2>6
  <1>7. CASE NoStatus \/ Refused
    BY <1>7 DEF NoStatus, Refused, Finish, Results
  <1>8. CASE HeadersFail
    BY <1>8 DEF HeadersFail, Finish, Results
  <1>9. CASE Arrive
    BY <1>9 DEF Arrive
  <1>10. CASE Close
    BY <1>10 DEF Close
  <1> QED
    BY <1>1, <1>2, <1>3, <1>4, <1>5, <1>6, <1>7, <1>8, <1>9, <1>10 DEF Headers

(* lerCorpo's block is no longer than what bounds it.                      *)
LEMMA TakeFact ==
    ASSUME TypesInv, TakeData
    PROVE  /\ Least(Limits) \in Nat
           /\ Least(Limits) <= block - Len(piece)
           /\ Least(Limits) <= arrived - pos
           /\ chunked => Least(Limits) <= dec.remaining
           /\ ~chunked /\ length > 0 => Least(Limits) <= length - recebido
  <1>1. /\ block \in Nat /\ Len(piece) \in Nat /\ arrived \in Nat /\ pos \in Nat
        /\ dec.remaining \in Nat /\ length \in Nat /\ recebido \in Nat
    BY SizesAssumption DEF TypesInv, TypeOK, Decoders
  <1>2. Len(piece) < block /\ ~Ended /\ arrived - pos > 0
    BY DEF TakeData, Reading, Available
  <1>3. block - Len(piece) \in Nat /\ arrived - pos \in Nat
    BY <1>1, <1>2
  <1>4. ~chunked /\ length > 0 => length - recebido \in Nat
    BY <1>1, <1>2 DEF Ended
  <1>5. Limits \in SUBSET Nat
    BY <1>1, <1>3, <1>4 DEF Limits, Available
  <1>6. block - Len(piece) \in Limits /\ arrived - pos \in Limits
    BY DEF Limits, Available
  <1>7. Least(Limits) \in Limits /\ \A y \in Limits : Least(Limits) <= y
    BY <1>5, <1>6, LeastFact
  <1>8. chunked => dec.remaining \in Limits
    BY DEF Limits
  <1>9. ~chunked /\ length > 0 => length - recebido \in Limits
    BY DEF Limits
  <1> QED
    BY <1>5, <1>6, <1>7, <1>8, <1>9

(* What is kept of a reply is as much of it as there is room for.          *)
LEMMA KeptFact ==
    ASSUME TypesInv
    PROVE  /\ Kept \in Seq(Bytes)
           /\ Len(Kept) = IF Len(out) + Len(piece) <= ReplyCap - 1
                          THEN Len(out) + Len(piece) ELSE ReplyCap - 1
           /\ \A j \in 1..Len(Kept) :
                 Kept[j] = IF j <= Len(out) THEN out[j] ELSE piece[j - Len(out)]
  <1> DEFINE all == out \o piece
  <1>1. /\ all \in Seq(Bytes) /\ Len(all) = Len(out) + Len(piece)
        /\ \A j \in 1..Len(all) : all[j] = IF j <= Len(out) THEN out[j]
                                           ELSE piece[j - Len(out)]
    BY DEF TypesInv
  <1> DEFINE room == {ReplyCap - 1, Len(all)}
  <1>2. /\ room \in SUBSET Nat /\ ReplyCap - 1 \in room /\ Len(all) \in room
        /\ Len(out) \in Nat /\ Len(piece) \in Nat /\ ReplyCap - 1 \in Nat
    BY <1>1, SizesAssumption DEF TypesInv
  <1>3. PICK n \in Nat : /\ n = Least(room) /\ n <= Len(all)
                         /\ n = IF Len(all) <= ReplyCap - 1 THEN Len(all) ELSE ReplyCap - 1
    <2>1. Least(room) \in room /\ \A y \in room : Least(room) <= y
      BY <1>2, LeastFact
    <2> QED
      BY <1>2, <2>1
  <1>4. Kept = SubSeq(all, 1, n)
    BY <1>3 DEF Kept
  <1> HIDE DEF all, room
  <1>5. /\ Kept \in Seq(Bytes) /\ Len(Kept) = n
        /\ \A j \in 1..n : Kept[j] = all[j]
    BY <1>1, <1>2, <1>3, <1>4
  <1>6. n <= Len(all) /\ Len(all) \in Nat
    BY <1>1, <1>3
  <1> QED
    BY <1>1, <1>2, <1>3, <1>5, <1>6

(* So do lerCorpo() and its callers.                                       *)
LEMMA TypesBody ==
    ASSUME TypesInv,
           Corpo \/ ReplyGoesOn \/ ReplyDone \/ ReadChunk \/ Chunk \/ ChunkTimeout
           \/ EndDownload
    PROVE  TypesInv'
  <1>0. Len(<<>>) = 0 /\ <<>> \in Seq(Bytes) /\ \A b \in Blocks \cup {ReplyBlock} : 0 <= b
    BY SizesAssumption
  <1>1. CASE FeedByte
    <2>1. dec' = Feed(dec, wire[pos + 1]) /\ pos' = pos + 1 /\ arrived - pos > 0
          /\ UNCHANGED <<recebido, piece, LoopVars>>
      BY <1>1 DEF FeedByte, Reading, Available
    <2>2. dec' \in Decoders
      BY <1>1, <2>1, FeedSane DEF FeedByte, Sane, TypesInv, TypeOK
    <2>3. pos' \in 0..arrived'
      BY <2>1 DEF TypesInv, TypeOK, LoopVars
    <2> QED
      BY <2>1, <2>2, <2>3 DEF TypesInv, TypeOK, LoopVars
  <1>2. CASE TakeData
    <2> DEFINE n == Least(Limits)
    <2>1. /\ piece' = piece \o SubSeq(wire, pos + 1, pos + n)
          /\ pos' = pos + n /\ recebido' = recebido + n
          /\ dec' = IF chunked THEN ConsumeData(dec, n) ELSE dec
          /\ UNCHANGED LoopVars
      BY <1>2 DEF TakeData
    <2>2. n \in Nat /\ n <= block - Len(piece) /\ n <= arrived - pos
      BY <1>2, TakeFact
    <2> HIDE DEF n
    <2>3. dec' \in Decoders
      <3>1. dec \in Decoders /\ dec.remaining \in 0..MaxSize /\ MaxSize \in Nat
        BY DecoderAssumption DEF TypesInv, TypeOK, Decoders
      <3>2. CASE dec.phase = "Data" /\ n < dec.remaining
        <4> DEFINE left == dec.remaining - n
        <4>1. left \in 0..MaxSize
          BY <2>2, <3>1, <3>2
        <4>2. ConsumeData(dec, n) = [dec EXCEPT !.remaining = left]
          BY <3>2 DEF ConsumeData
        <4> HIDE DEF left
        <4> QED
          BY <2>1, <3>1, <4>1, <4>2 DEF Decoders
      <3>3. CASE ~(dec.phase = "Data" /\ n < dec.remaining)
        BY <2>1, <3>1, <3>3, NoSize DEF ConsumeData, Decoders, Phases
      <3> QED
        BY <3>2, <3>3
    <2>4. pos' \in 0..arrived' /\ recebido' \in Nat
      BY <2>1, <2>2 DEF TypesInv, TypeOK, LoopVars
    <2>5. piece' \in Seq(Bytes) /\ Len(piece') <= block'
      <3>1. /\ pos \in Nat /\ pos + n <= Len(wire) /\ Len(wire) \in Nat
            /\ wire \in Seq(Bytes) /\ piece \in Seq(Bytes) /\ block \in Nat
        BY <2>2, SizesAssumption DEF TypesInv, TypeOK
      <3>2. /\ SubSeq(wire, pos + 1, pos + n) \in Seq(Bytes)
            /\ Len(SubSeq(wire, pos + 1, pos + n)) = n
        BY <2>2, <3>1
      <3> QED
        BY <2>1, <2>2, <3>1, <3>2 DEF LoopVars
    <2> QED
      BY <2>1, <2>3, <2>4, <2>5 DEF TypesInv, TypeOK, LoopVars
  <1>3. CASE ReplyGoesOn
    BY <1>0, <1>3, KeptFact DEF ReplyGoesOn, TypesInv, TypeOK, httpVars, netVars
  <1>4. CASE ReplyDone
    BY <1>0, <1>4, KeptFact DEF ReplyDone, Finish, TypesInv, TypeOK, Results, httpVars, netVars
  <1>5. CASE ReadChunk
    BY <1>0, <1>5 DEF ReadChunk, TypesInv, TypeOK, httpVars, netVars
  <1>6. ASSUME NEW r \in Results, NEW o \in Seq(Bytes), Answer(r, o)
        PROVE  TypesInv'
    BY <1>0, <1>6 DEF Answer, TypesInv, TypeOK, Results, httpVars, netVars
  <1>7. CASE Chunk \/ ChunkTimeout
    <2>1. out \in Seq(Bytes) /\ out \o piece \in Seq(Bytes)
      BY DEF TypesInv
    <2> QED
      BY <1>6, <1>7, <2>1 DEF Chunk, ChunkBroken, ChunkRead, ChunkEof, ChunkClosed,
                             ChunkWouldBlock, ChunkTimeout, Results
  <1>8. CASE EndDownload
    BY <1>8 DEF EndDownload, TypesInv, TypeOK, httpVars, netVars
  <1> QED
    BY <1>1, <1>2, <1>3, <1>4, <1>5, <1>7, <1>8 DEF Corpo

(* So does every step.                                                     *)
LEMMA TypesKeep ==
    ASSUME TypesInv, [Next]_vars
    PROVE  TypesInv'
  <1>1. CASE UNCHANGED vars
    BY <1>1 DEF vars, httpVars, netVars, TypesInv, TypeOK
  <1> QED
    BY <1>1, TypesBegin, TypesHead, TypesBody DEF Next

(* Everything has its type, whatever a server answers and however its      *)
(* bytes arrive: no read goes past what is there, no block past its end.   *)
THEOREM Types == Spec => []TypeOK
  <1>1. Init => TypesInv
    BY InitTypes DEF HttpInv
  <1>2. TypesInv /\ [Next]_vars => TypesInv'
    BY TypesKeep
  <1>3. TypesInv => TypeOK
    BY DEF TypesInv
  <1> QED
    BY <1>1, <1>2, <1>3, PTL DEF Spec

-----------------------------------------------------------------------------
(* The headers.                                                            *)

(* Where a call is: what StartInv and PlaceInv say.                        *)
LEMMA PlaceKeeps ==
    ASSUME TypesInv, StartInv, PlaceInv, [Next]_vars
    PROVE  StartInv' /\ PlaceInv'
  <1> USE DEF StartInv, PlaceInv, httpVars, netVars
  <1>1. CASE UNCHANGED vars
    BY <1>1 DEF vars
  <1>2. CASE Begin
    BY <1>2 DEF Begin
  <1>3. CASE SendBlock \/ SendFails \/ SendDone
    BY <1>3 DEF SendBlock, SendFails, SendDone, Finish
  <1>4. CASE StatusLine
    BY <1>4 DEF StatusLine, Finish
  <1>5. CASE HeaderLine
    BY <1>5 DEF HeaderLine
  <1>6. CASE EndOfHeaders
    BY <1>6 DEF EndOfHeaders
  <1>7. CASE NoStatus \/ Refused \/ HeadersFail
    BY <1>7 DEF NoStatus, Refused, HeadersFail, Finish
  <1>8. CASE Arrive \/ Close
    BY <1>8 DEF Arrive, Close
  <1>9. CASE FeedByte \/ TakeData
    BY <1>9 DEF FeedByte, TakeData, Reading, LoopVars
  <1>10. CASE ReplyGoesOn \/ ReplyDone
    BY <1>10 DEF ReplyGoesOn, ReplyDone, Returns, Finish
  <1>11. CASE ReadChunk
    BY <1>11 DEF ReadChunk
  <1>12. CASE Chunk \/ ChunkTimeout
    <2>1. /\ pc' = "open" /\ piece' = <<>> /\ op = "download" /\ op' = op
      BY <1>12 DEF Chunk, ChunkBroken, ChunkRead, ChunkEof, ChunkClosed, ChunkWouldBlock,
                   ChunkTimeout, Answer
    <2> QED
      BY <2>1
  <1>13. CASE EndDownload
    BY <1>13 DEF EndDownload
  <1> QED
    BY <1>1, <1>2, <1>3, <1>4, <1>5, <1>6, <1>7, <1>8, <1>9, <1>10, <1>11, <1>12, <1>13
    DEF Next, Headers, Corpo

(* One line more: the length it names counts from then on.                 *)
LEMMA LengthOn ==
    ASSUME NEW ls, NEW k \in Nat, NEW n, LengthAfter(ls, k, n)
    PROVE  LengthAfter(ls, k + 1, IF ls[k + 1].is = "length" THEN ls[k + 1].n ELSE n)
  <1>1. CASE ls[k + 1].is = "length"
    BY <1>1 DEF LengthAfter
  <1>2. CASE ls[k + 1].is # "length"
    <2>1. \A j \in 1..(k + 1) : j \in 1..k \/ j = k + 1
      OBVIOUS
    <2>2. CASE n = 0 /\ \A i \in 1..k : ls[i].is # "length"
      BY <1>2, <2>1, <2>2 DEF LengthAfter
    <2>3. CASE \E i \in 1..k : /\ ls[i].is = "length" /\ ls[i].n = n
                               /\ \A j \in (i + 1)..k : ls[j].is # "length"
      <3>1. PICK i \in 1..k : /\ ls[i].is = "length" /\ ls[i].n = n
                              /\ \A j \in (i + 1)..k : ls[j].is # "length"
        BY <2>3
      <3>2. i \in 1..(k + 1)
        OBVIOUS
      <3>3. \A j \in (i + 1)..(k + 1) : ls[j].is # "length"
        BY <1>2, <3>1
      <3> QED
        BY <1>2, <3>1, <3>2, <3>3 DEF LengthAfter
    <2> QED
      BY <2>2, <2>3 DEF LengthAfter
  <1> QED
    BY <1>1, <1>2

(* The head and the tail of a sequence.                                    *)
LEMMA HeadTail ==
    ASSUME NEW S, NEW s \in Seq(S), s # <<>>
    PROVE  /\ Len(s) \in Nat /\ Len(s) > 0 /\ Head(s) = s[1] /\ Head(s) \in S
           /\ Tail(s) \in Seq(S) /\ Len(Tail(s)) = Len(s) - 1
           /\ \A i \in 1..Len(Tail(s)) : Tail(s)[i] = s[i + 1]
           /\ Tail(s) = <<>> => Len(s) = 1
  <1>1. /\ Len(s) \in Nat /\ Len(s) > 0 /\ Head(s) = s[1] /\ Head(s) \in S
    OBVIOUS
  <1>2. Tail(s) \in Seq(S) /\ Len(Tail(s)) = Len(s) - 1
    OBVIOUS
  <1>3. \A i \in 1..Len(Tail(s)) : Tail(s)[i] = s[i + 1]
    OBVIOUS
  <1>4. Tail(s) = <<>> => Len(Tail(s)) = 0
    <2>1. Len(<<>>) = 0
      OBVIOUS
    <2> QED
      BY <2>1, Zenon
  <1> QED
    BY <1>1, <1>2, <1>3, <1>4

(* One sequence after another.                                             *)
LEMMA Joining ==
    ASSUME NEW S, NEW s \in Seq(S), NEW t \in Seq(S)
    PROVE  /\ s \o t \in Seq(S) /\ Len(s \o t) = Len(s) + Len(t)
           /\ \A i \in 1..(Len(s) + Len(t)) :
                 (s \o t)[i] = IF i <= Len(s) THEN s[i] ELSE t[i - Len(s)]
  <1>1. s \o t \in Seq(S)
    OBVIOUS
  <1>2. Len(s \o t) = Len(s) + Len(t)
    OBVIOUS
  <1>3. \A i \in 1..(Len(s) + Len(t)) :
           (s \o t)[i] = IF i <= Len(s) THEN s[i] ELSE t[i - Len(s)]
    OBVIOUS
  <1> QED
    BY <1>1, <1>2, <1>3

(* The line at the head is the next of the reply.                          *)
LEMMA NextLine ==
    ASSUME TypesInv, lines # <<>>, NEW k \in 0..Len(reply.lines), LeftAfter(k)
    PROVE  /\ k + 1 \in 1..Len(reply.lines) /\ Head(lines) = reply.lines[k + 1]
           /\ k + 1 = Len(reply.lines) => Tail(lines) = <<>>
  <1>1. /\ Len(lines) \in Nat /\ Len(lines) > 0 /\ Head(lines) = lines[1]
        /\ Tail(lines) \in Seq(Lines) /\ Len(Tail(lines)) = Len(lines) - 1
    BY HeadTail DEF TypesInv
  <1>2. Len(reply.lines) \in Nat
    BY ReplyFact DEF TypesInv, TypeOK
  <1>3. 1 \in 1..(Len(reply.lines) - k)
    BY <1>1, <1>2 DEF LeftAfter
  <1>4. lines[1] = reply.lines[k + 1]
    BY <1>3 DEF LeftAfter
  <1>5. k + 1 \in 1..Len(reply.lines)
    BY <1>2, <1>3
  <1>6. ASSUME k + 1 = Len(reply.lines) PROVE Tail(lines) = <<>>
    <2>1. Len(lines) = 1
      <3>1. Len(lines) = Len(reply.lines) - k
        BY DEF LeftAfter
      <3>2. ASSUME NEW a \in Int, NEW b \in Int, a = b - k, k + 1 = b PROVE a = 1
        BY <3>2
      <3> QED
        BY <1>1, <1>2, <1>6, <3>1, <3>2
    <2>2. Tail(lines) \in Seq(Lines) /\ Len(Tail(lines)) = 0
      BY <1>1, <2>1
    <2> DEFINE tail == Tail(lines)
    <2> HIDE DEF tail
    <2>3. tail \in Seq(Lines) /\ Len(tail) = 0
      BY <2>2 DEF tail
    <2>4. tail = <<>>
      BY <2>3
    <2> QED
      BY <2>4 DEF tail
  <1> QED
    BY <1>1, <1>4, <1>5, <1>6

(* And what is left when all of it has been read.                          *)
LEMMA LeftOn ==
    ASSUME TypesInv, lines # <<>>, NEW k \in 0..Len(reply.lines), LeftAfter(k),
           lines' = Tail(lines), reply' = reply
    PROVE  LeftAfter(k + 1)'
  <1>1. /\ Len(lines) \in Nat /\ Len(lines) > 0
        /\ Len(Tail(lines)) = Len(lines) - 1
        /\ \A i \in 1..Len(Tail(lines)) : Tail(lines)[i] = lines[i + 1]
    BY HeadTail DEF TypesInv
  <1>2. Len(reply.lines) \in Nat /\ k \in Nat
    BY ReplyFact DEF TypesInv, TypeOK
  <1>3. Len(lines') = Len(reply.lines) - (k + 1)
    BY <1>1, <1>2 DEF LeftAfter
  <1>4. ASSUME NEW i \in 1..(Len(reply.lines) - (k + 1))
        PROVE  lines'[i] = reply.lines[(k + 1) + i]
    <2>1. /\ i \in 1..Len(Tail(lines)) /\ i + 1 \in 1..(Len(reply.lines) - k)
          /\ k + (i + 1) = (k + 1) + i
      BY <1>1, <1>2, <1>3
    <2>2. lines[i + 1] = reply.lines[k + (i + 1)]
      BY <2>1 DEF LeftAfter
    <2> QED
      BY <1>1, <2>1, <2>2
  <1> QED
    BY <1>3, <1>4 DEF LeftAfter

(* The lines are read one after another, none twice and none passed over.  *)
LEMMA HeadersKeep ==
    ASSUME TypesInv, HeadersInv, [Next]_vars
    PROVE  HeadersInv'
  <1> USE DEF httpVars, netVars
  <1>1. CASE pc' \notin {"send", "headers"} \/ cut'
    BY <1>1 DEF HeadersInv
  <1>2. CASE /\ UNCHANGED <<lines, first, chunked, length, reply, cut>>
             /\ pc \in {"send", "headers"}
    BY ZenonT(60), <1>2 DEF HeadersInv, LeftAfter, LengthAfter
  <1>3. CASE Begin
    <2>1. reply' \in Replies /\ lines' = reply'.lines /\ length' = 0 /\ ~chunked'
      BY <1>3 DEF Begin
    <2>2. Len(reply'.lines) \in Nat
      BY <2>1, ReplyFact
    <2>3. LeftAfter(0)'
      BY <2>1, <2>2 DEF LeftAfter
    <2>4. LengthAfter(reply'.lines, 0, length')
      BY <2>1 DEF LengthAfter
    <2>5. chunked' <=> \E i \in 1..0 : reply'.lines[i].is = "chunked"
      BY <2>1
    <2>6. 0 \in 0..Len(reply'.lines)
      BY <2>2
    <2> QED
      BY <2>3, <2>4, <2>5, <2>6 DEF HeadersInv
  <1>4. CASE (StatusLine \/ HeaderLine) /\ ~cut'
    <2> DEFINE l == Head(lines)
    <2>0. pc = "headers" /\ lines # <<>> /\ ~first' /\ reply' = reply
      <3>1. CASE StatusLine
        <4>1. pc = "headers" /\ lines # <<>> /\ first' = FALSE /\ reply' = reply
          BY <3>1 DEF StatusLine
        <4> QED
          BY <4>1
      <3>2. CASE HeaderLine
        <4>1. pc = "headers" /\ lines # <<>> /\ ~first /\ first' = first /\ reply' = reply
          BY <3>2 DEF HeaderLine
        <4> QED
          BY <4>1
      <3> QED
        BY <1>4, <3>1, <3>2
    <2>1. /\ pc = "headers" /\ lines # <<>> /\ l \in Lines /\ Tail(lines) \in Seq(Lines)
          /\ ~first' /\ reply' = reply
      BY <2>0, HeadTail DEF TypesInv
    <2>2. PICK r \in Reads(l) :
             /\ lines' = RestOf(l, r) \o Tail(lines) /\ cut' = (cut \/ ~Whole(l, r))
             /\ \/ l.is = "status" /\ UNCHANGED <<length, chunked>>
                \/ length' \in LengthRead(l, r) /\ chunked' \in ChunkedRead(l, r)
      BY <1>4 DEF StatusLine, HeaderLine
    <2> HIDE DEF l
    <2>3. ~cut /\ Whole(l, r) /\ RestOf(l, r) = <<>>
      BY <1>4, <2>1, <2>2, RestFact
    <2>4. lines' = Tail(lines)
      BY <2>1, <2>2, <2>3
    <2>5. /\ length' = IF l.is = "length" THEN l.n ELSE length
          /\ chunked' <=> (chunked \/ l.is = "chunked")
      BY <2>2, <2>3 DEF LengthRead, ChunkedRead
    <2>6. PICK k \in 0..Len(reply.lines) :
             /\ LeftAfter(k)
             /\ chunked <=> \E i \in 1..k : reply.lines[i].is = "chunked"
             /\ LengthAfter(reply.lines, k, length)
      BY <2>1, <2>3 DEF HeadersInv
    <2>7. k + 1 \in 1..Len(reply.lines) /\ l = reply.lines[k + 1]
      BY <2>1, <2>6, NextLine DEF l
    <2>8. Len(reply.lines) \in Nat /\ k \in Nat
      BY ReplyFact DEF TypesInv, TypeOK
    <2>9. LeftAfter(k + 1)'
      BY <2>1, <2>4, <2>6, LeftOn
    <2>10. chunked' <=> \E i \in 1..(k + 1) : reply.lines[i].is = "chunked"
      <3>1. \A i : i \in 1..(k + 1) <=> i \in 1..k \/ i = k + 1
        BY <2>8
      <3> QED
        BY <2>5, <2>6, <2>7, <3>1
    <2>11. LengthAfter(reply.lines, k + 1, length')
      <3>1. LengthAfter(reply.lines, k + 1,
               IF reply.lines[k + 1].is = "length" THEN reply.lines[k + 1].n ELSE length)
        BY <2>6, <2>8, LengthOn
      <3> QED
        BY <2>5, <2>7, <3>1
    <2>12. k + 1 \in 0..Len(reply.lines)
      BY <2>7, <2>8
    <2> QED
      BY <2>1, <2>9, <2>10, <2>11, <2>12 DEF HeadersInv
  <1> QED
    <2>1. CASE UNCHANGED vars
      BY <1>1, <1>2, <2>1 DEF vars
    <2>2. CASE SendBlock \/ SendDone
      BY <1>2, <2>2 DEF SendBlock, SendDone
    <2>3. CASE SendFails \/ NoStatus \/ Refused \/ HeadersFail \/ EndOfHeaders
      BY <1>1, <2>3 DEF SendFails, NoStatus, Refused, HeadersFail, Finish, EndOfHeaders
    <2>4. CASE StatusLine \/ HeaderLine
      BY <1>1, <1>4, <2>4
    <2>5. CASE Arrive \/ Close \/ FeedByte \/ TakeData \/ ReadChunk \/ EndDownload
      BY <1>1, <2>5 DEF Arrive, Close, FeedByte, TakeData, Reading, LoopVars, ReadChunk,
                        EndDownload
    <2>6. CASE ReplyGoesOn \/ ReplyDone
      BY <1>1, <2>6 DEF ReplyGoesOn, ReplyDone, Returns, Finish
    <2>7. CASE Chunk \/ ChunkTimeout
      <3>1. pc' = "open"
        BY <2>7 DEF Chunk, ChunkBroken, ChunkRead, ChunkEof, ChunkClosed, ChunkWouldBlock,
                    ChunkTimeout, Answer
      <3> QED
        BY <1>1, <3>1
    <2> QED
      BY <1>3, <2>1, <2>2, <2>3, <2>4, <2>5, <2>6, <2>7 DEF Next, Headers, Corpo

(* The length that counts is the one a reply declares.                     *)
LEMMA DeclaredFact ==
    ASSUME NEW r \in Replies, NEW n, LengthAfter(r.lines, Len(r.lines), n)
    PROVE  Declared(r) = n
  <1> DEFINE named == {i \in DOMAIN r.lines : r.lines[i].is = "length"}
  <1>1. DOMAIN r.lines = 1..Len(r.lines) /\ Len(r.lines) \in Nat
    BY ReplyFact
  <1>2. Declared(r) = IF named = {} THEN 0 ELSE r.lines[Max(named)].n
    BY DEF Declared
  <1>3. CASE n = 0 /\ \A i \in 1..Len(r.lines) : r.lines[i].is # "length"
    BY <1>1, <1>2, <1>3
  <1>4. CASE \E i \in 1..Len(r.lines) :
               /\ r.lines[i].is = "length" /\ r.lines[i].n = n
               /\ \A j \in (i + 1)..Len(r.lines) : r.lines[j].is # "length"
    <2>1. PICK i \in 1..Len(r.lines) :
               /\ r.lines[i].is = "length" /\ r.lines[i].n = n
               /\ \A j \in (i + 1)..Len(r.lines) : r.lines[j].is # "length"
      BY <1>4
    <2>2. i \in named
      BY <1>1, <2>1
    <2>3. \A y \in named : i >= y
      BY <1>1, <2>1
    <2>4. \A x \in named : (\A y \in named : x >= y) => x = i
      BY <1>1, <2>2, <2>3
    <2>5. Max(named) \in named /\ \A y \in named : Max(named) >= y
      BY <2>2, <2>3 DEF Max
    <2>6. Max(named) = i
      BY <2>4, <2>5
    <2> QED
      BY <1>2, <2>1, <2>2, <2>6
  <1> QED
    BY <1>3, <1>4 DEF LengthAfter

(* Nothing is left of nothing.                                             *)
LEMMA UnreadNone == Unread(<<>>) = <<>>
  <1> DEFINE last == CHOOSE last :
               last = [i \in 0..Len(<<>>) |->
                         IF i = 0 THEN <<>>
                         ELSE BytesOf(<<>>[Len(<<>>) + 1 - i]) \o last[i - 1]]
  <1>1. Unread(<<>>) = last[Len(<<>>)]
    BY DEF Unread
  <1>2. last = CHOOSE g : Joins(<<>>, Len(<<>>), g)
    BY DEF Joins, Joined
  <1> HIDE DEF last
  <1>3. Len(<<>>) = 0
    OBVIOUS
  <1>4. Joins(<<>>, Len(<<>>), last)
    BY <1>2, <1>3, JoinsExist
  <1>5. last[0] = <<>>
    BY <1>3, <1>4 DEF Joins
  <1> QED
    BY <1>1, <1>3, <1>5

(* When the headers are understood, they end where they should, and all    *)
(* they declare is known.                                                  *)
LEMMA HeadersKnown ==
    ASSUME TypesInv, StartInv, HeadersInv, EndOfHeaders, Understood'
    PROVE  /\ chunked <=> InChunks(reply)
           /\ length = Declared(reply)
           /\ wire' = reply.wire
  <1> DEFINE l == Head(lines)
  <1>1. /\ pc = "headers" /\ lines # <<>> /\ l.size <= 1 /\ l \in Lines
        /\ UNCHANGED <<length, chunked, reply>>
    BY HeadTail DEF EndOfHeaders, Blank, httpVars, TypesInv
  <1>2. PICK r \in Reads(l) :
           LET left == RestOf(l, r) \o Tail(lines)
           IN /\ astray' = (left # <<>>) /\ wire' = Unread(left) \o wire
              /\ cut' = (cut \/ ~Whole(l, r))
    BY DEF EndOfHeaders
  <1> DEFINE left == RestOf(l, r) \o Tail(lines)
  <1>3. ASSUME left = <<>> PROVE wire' = reply.wire
    <2>1. wire' = <<>> \o wire
      BY <1>2, <1>3, UnreadNone
    <2>2. wire \in Seq(Bytes) /\ wire = reply.wire
      BY <1>1 DEF StartInv, TypesInv
    <2> QED
      BY <2>1, <2>2
  <1>4. CASE cut'
    <2>1. ~astray' /\ chunked = InChunks(reply) /\ length = Declared(reply)
      BY <1>1, <1>4 DEF Understood, InChunks, Declared
    <2>2. left = <<>>
      BY <1>2, <2>1
    <2> QED
      BY <1>3, <2>1, <2>2
  <1>5. CASE ~cut'
    <2>1. ~cut /\ Whole(l, r) /\ RestOf(l, r) = <<>>
      BY <1>1, <1>2, <1>5, RestFact
    <2>2. PICK k \in 0..Len(reply.lines) :
             /\ LeftAfter(k)
             /\ chunked <=> \E i \in 1..k : reply.lines[i].is = "chunked"
             /\ LengthAfter(reply.lines, k, length)
      BY <1>1, <2>1 DEF HeadersInv
    <2>3. /\ reply \in Replies /\ Len(reply.lines) \in Nat /\ k \in Nat
          /\ DOMAIN reply.lines = 1..Len(reply.lines)
      BY ReplyFact DEF TypesInv, TypeOK
    <2>4. /\ k + 1 \in 1..Len(reply.lines) /\ l = reply.lines[k + 1]
          /\ k + 1 = Len(reply.lines) => Tail(lines) = <<>>
      BY <1>1, <2>2, NextLine
    <2>5. reply.lines[k + 1].is = "blank" /\ k + 1 = Len(reply.lines)
      BY <1>1, <2>3, <2>4, ReplyFact
    <2>6. left = <<>>
      BY <2>1, <2>4, <2>5
    <2>7. LengthAfter(reply.lines, k + 1, length)
      <3>1. LengthAfter(reply.lines, k + 1,
               IF reply.lines[k + 1].is = "length" THEN reply.lines[k + 1].n ELSE length)
        BY <2>2, <2>3, LengthOn
      <3> QED
        BY <2>5, <3>1
    <2>8. chunked <=> \E i \in 1..Len(reply.lines) : reply.lines[i].is = "chunked"
      <3>1. \A i : i \in 1..(k + 1) <=> i \in 1..k \/ i = k + 1
        BY <2>3
      <3> QED
        BY <2>2, <2>5, <3>1
    <2> HIDE DEF left
    <2> QED
      BY <1>3, <2>3, <2>5, <2>6, <2>7, <2>8, DeclaredFact DEF InChunks
  <1> QED
    BY <1>4, <1>5

-----------------------------------------------------------------------------
(* The body.                                                               *)

(* A block cut out of a sequence.                                          *)
LEMMA CutFact ==
    ASSUME NEW S, NEW s \in Seq(S), NEW p \in Nat, NEW n \in Nat, p + n <= Len(s)
    PROVE  /\ SubSeq(s, p + 1, p + n) \in Seq(S)
           /\ Len(SubSeq(s, p + 1, p + n)) = n
           /\ \A j \in 1..n : SubSeq(s, p + 1, p + n)[j] = s[p + j]
  <1>1. Len(s) \in Nat
    OBVIOUS
  <1>2. \A i \in (p + 1)..(p + n) : s[i] \in S
    BY <1>1
  <1>3. SubSeq(s, p + 1, p + n) = [i \in 1..n |-> s[p + i]]
    <2>1. (p + n) - (p + 1) + 1 = n
      OBVIOUS
    <2> QED
      BY <2>1
  <1>4. \A i \in 1..n : p + i \in (p + 1)..(p + n)
    OBVIOUS
  <1> QED
    BY <1>1, <1>2, <1>3, <1>4

(* What the proofs about a step start from.                                *)
BodyBefore ==
    /\ TypesInv /\ StartInv /\ HeadersInv /\ PlaceInv
    /\ FramingInv /\ ReadInv /\ PieceInv /\ HandedInv /\ EofInv
    /\ \A r \in Replies : IsMeant(r)

(* The types that the arithmetic of the body needs.                        *)
LEMMA BodyTypes ==
    ASSUME BodyBefore
    PROVE  /\ reply \in Replies /\ IsMeant(reply)
           /\ Len(wire) \in Nat /\ arrived \in Nat /\ arrived <= Len(wire)
           /\ pos \in Nat /\ pos <= arrived /\ length \in Nat /\ recebido \in Nat
           /\ Len(reply.body) \in Nat /\ Len(out) \in Nat /\ Len(piece) \in Nat
           /\ chunked \in BOOLEAN /\ reply.sound \in BOOLEAN
  <1>1. reply \in Replies /\ IsMeant(reply)
    BY DEF BodyBefore, TypesInv, TypeOK
  <1>2. Len(reply.body) \in Nat /\ reply.sound \in BOOLEAN
    BY <1>1, ReplyFact
  <1>3. Len(wire) \in Nat /\ Len(out) \in Nat /\ Len(piece) \in Nat
    BY DEF BodyBefore, TypesInv
  <1>4. /\ arrived \in 0..Len(wire) /\ pos \in 0..arrived /\ length \in Nat
        /\ recebido \in Nat /\ chunked \in BOOLEAN
    BY DEF BodyBefore, TypesInv, TypeOK
  <1> QED
    BY <1>1, <1>2, <1>3, <1>4

(* The body of a reply that is not in chunks.                              *)
LEMMA WholeFact ==
    ASSUME BodyBefore, Body, ~chunked
    PROVE  /\ wire = reply.wire /\ length = Declared(reply) /\ ~InChunks(reply)
           /\ Len(reply.body) = IF length > 0 /\ length <= Len(wire) THEN length
                                                                   ELSE Len(wire)
           /\ \A i \in 1..Len(reply.body) : reply.body[i] = wire[i]
           /\ reply.sound <=> length <= Len(wire)
           /\ recebido = pos /\ (length > 0 => pos <= length)
  <1>1. wire = reply.wire /\ length = Declared(reply) /\ ~InChunks(reply)
    BY DEF BodyBefore, FramingInv
  <1>2. WholeIs(reply)
    BY <1>1, BodyTypes DEF IsMeant
  <1>3. recebido = pos /\ (length > 0 => pos <= length)
    BY DEF BodyBefore, ReadInv
  <1>4. length \in 1..Len(wire) <=> length > 0 /\ length <= Len(wire)
    BY BodyTypes
  <1> QED
    BY <1>1, <1>2, <1>3, <1>4 DEF WholeIs

(* The body of one that is.                                                *)
LEMMA ChunksFact ==
    ASSUME BodyBefore, Body, chunked
    PROVE  LET at == Trace(wire)
               n  == Len(wire)
           IN /\ Follows(wire, at)
              /\ Len(reply.body) = at[n].count
              /\ \A i \in 1..n :
                    at[i - 1].dec.phase = "Data" => reply.body[at[i].count] = wire[i]
              /\ reply.sound <=> at[n].dec.phase = "Done"
              /\ dec = at[pos].dec /\ recebido = at[pos].count
              /\ InChunks(reply)
  <1>1. wire = reply.wire /\ InChunks(reply)
    BY DEF BodyBefore, FramingInv
  <1>2. InChunksIs(reply)
    BY <1>1, BodyTypes DEF IsMeant
  <1>3. dec = Trace(wire)[pos].dec /\ recebido = Trace(wire)[pos].count
    BY DEF BodyBefore, ReadInv
  <1>4. Follows(wire, Trace(wire))
    BY BodyTypes, TraceFact
  <1> QED
    BY <1>1, <1>2, <1>3, <1>4 DEF InChunksIs

(* No more is counted than there is, and at the end of the framing all of  *)
(* it has been.                                                            *)
LEMMA CountFact ==
    ASSUME BodyBefore, Body
    PROVE  /\ recebido <= Len(reply.body)
           /\ Ended /\ (chunked => dec.phase # "Invalid") =>
                 recebido = Len(reply.body) /\ reply.sound
           /\ Undeclared /\ pos = Len(wire) => recebido = Len(reply.body) /\ reply.sound
  <1>1. CASE chunked
    <2> DEFINE at == Trace(wire)
    <2>1. /\ Follows(wire, at) /\ Len(reply.body) = at[Len(wire)].count
          /\ reply.sound <=> at[Len(wire)].dec.phase = "Done"
          /\ dec = at[pos].dec /\ recebido = at[pos].count
      BY <1>1, ChunksFact
    <2>2. pos \in 0..Len(wire) /\ Len(wire) \in 0..Len(wire) /\ pos <= Len(wire)
          /\ Len(wire) \in Nat
      BY BodyTypes
    <2> HIDE DEF at
    <2>3. /\ at[pos].count <= at[Len(wire)].count
          /\ at[pos].dec.phase = "Done" => /\ at[Len(wire)].dec.phase = "Done"
                                           /\ at[Len(wire)].count = at[pos].count
      BY <2>1, <2>2, TraceGoesOn
    <2> QED
      BY <1>1, <2>1, <2>3 DEF Ended, Undeclared
  <1>2. CASE ~chunked
    <2>1. /\ Len(reply.body) = IF length > 0 /\ length <= Len(wire) THEN length
                                                                   ELSE Len(wire)
          /\ reply.sound <=> length <= Len(wire)
          /\ recebido = pos /\ (length > 0 => pos <= length)
      BY <1>2, WholeFact
    <2>2. /\ Len(wire) \in Nat /\ pos \in Nat /\ pos <= Len(wire) /\ length \in Nat
      BY BodyTypes
    <2> QED
      BY <1>2, <2>1, <2>2 DEF Ended, Undeclared
  <1> QED
    BY <1>1, <1>2, BodyTypes

(* A block of payload: what is copied is the body's next bytes.            *)
LEMMA PayloadFact ==
    ASSUME BodyBefore, Body, TakeData, NEW n, n = Least(Limits)
    PROVE  /\ \A j \in 1..n : reply.body[recebido + j] = wire[pos + j]
           /\ n \in Nat /\ pos + n <= Len(wire)
           /\ ReadInv'
  <1>1. /\ n \in Nat /\ n <= arrived - pos
        /\ chunked => n <= dec.remaining
        /\ ~chunked /\ length > 0 => n <= length - recebido
    BY TakeFact DEF BodyBefore
  <1>2. /\ pos' = pos + n /\ recebido' = recebido + n
        /\ dec' = IF chunked THEN ConsumeData(dec, n) ELSE dec
        /\ chunked' = chunked /\ wire' = wire /\ length' = length
        /\ chunked => dec.phase = "Data"
    BY DEF TakeData, LoopVars
  <1>3. pos + n <= Len(wire)
    BY <1>1, BodyTypes
  <1>4. CASE chunked
    <2> DEFINE at == Trace(wire)
    <2>1. /\ Follows(wire, at)
          /\ \A i \in 1..Len(wire) :
                at[i - 1].dec.phase = "Data" => reply.body[at[i].count] = wire[i]
          /\ dec = at[pos].dec /\ recebido = at[pos].count
      BY <1>4, ChunksFact
    <2>2. pos \in 0..Len(wire) /\ Len(wire) \in Nat /\ pos \in Nat
      BY BodyTypes
    <2> HIDE DEF at
    <2>3. at[pos].dec.phase = "Data" /\ n <= at[pos].dec.remaining
      BY <1>1, <1>2, <1>4, <2>1
    <2>4. at[pos + n].dec = ConsumeData(dec, n) /\ at[pos + n].count = recebido + n
      BY <1>1, <1>3, <2>1, <2>2, <2>3, TraceBlock
    <2>5. ReadInv'
      BY <1>2, <1>4, <2>4 DEF ReadInv, at
    <2>6. ASSUME NEW j \in 1..n PROVE reply.body[recebido + j] = wire[pos + j]
      <3>1. j \in Nat /\ j > 0 /\ pos + j <= Len(wire) /\ pos + j \in 1..Len(wire)
            /\ (pos + j) - 1 = pos + (j - 1)
        BY <1>1, <1>3, <2>2
      <3>2. j <= at[pos].dec.remaining
        <4>1. at[pos].dec.remaining \in Nat
          BY <2>1, <2>2 DEF Follows, Sane, Decoders
        <4> QED
          BY <1>1, <2>3, <4>1
      <3>3. at[pos + j].count = at[pos].count + j /\ at[pos + (j - 1)].dec.phase = "Data"
        BY <2>1, <2>2, <2>3, <3>1, <3>2, TraceBlock
      <3>4. reply.body[at[pos + j].count] = wire[pos + j]
        BY <2>1, <3>1, <3>3
      <3> QED
        BY <2>1, <3>3, <3>4
    <2> QED
      BY <1>1, <1>3, <2>5, <2>6
  <1>5. CASE ~chunked
    <2>1. /\ Len(reply.body) = IF length > 0 /\ length <= Len(wire) THEN length
                                                                   ELSE Len(wire)
          /\ \A i \in 1..Len(reply.body) : reply.body[i] = wire[i]
          /\ recebido = pos /\ (length > 0 => pos <= length)
      BY <1>5, WholeFact
    <2>2. /\ Len(wire) \in Nat /\ pos \in Nat /\ length \in Nat
          /\ length > 0 => pos + n <= length
      BY <1>1, <1>5, <2>1, BodyTypes
    <2>3. \A j \in 1..n : pos + j \in 1..Len(reply.body)
      BY <1>1, <1>3, <2>1, <2>2
    <2>4. \A j \in 1..n : reply.body[recebido + j] = wire[pos + j]
      BY <2>1, <2>3
    <2>5. ReadInv'
      BY <1>2, <1>5, <2>1, <2>2 DEF ReadInv
    <2> QED
      BY <1>1, <1>3, <2>4, <2>5
  <1> QED
    BY <1>4, <1>5

(* The parts of the invariant that are about the body.                     *)
BodyInv == FramingInv /\ ReadInv /\ PieceInv /\ HandedInv /\ EofInv

(* The body says nothing of how the headers were understood.               *)
LEMMA SameUnderstood ==
    ASSUME UNCHANGED <<length, chunked, reply, cut, astray>>
    PROVE  Understood' <=> Understood
  BY DEF Understood, InChunks, Declared

(* A step of an exchange that does not reach its body.                     *)
LEMMA Elsewhere ==
    ASSUME BodyBefore, pc \in {"send", "headers"}, pc' \notin {"open", "body"},
           reply' = reply, out' = out, result' # "Eof"
    PROVE  BodyInv'
  <1>1. Len(out') = 0 /\ Len(reply'.body) \in Nat
    <2>1. out' = <<>>
      BY DEF BodyBefore, StartInv
    <2> QED
      BY <2>1, BodyTypes
  <1>2. HandedInv'
    BY <1>1 DEF HandedInv, Begins
  <1> QED
    BY <1>2 DEF BodyInv, Body, FramingInv, ReadInv, PieceInv, EofInv

(* Nothing changes that the body is about.                                 *)
LEMMA BodySame ==
    ASSUME BodyBefore, pc' = pc \/ (pc \in {"open", "body"} /\ pc' \in {"open", "body"}),
           UNCHANGED <<op, status, length, chunked, dec, recebido, wire, pos, piece, out, result,
                       reply, cut, astray>>,
           result = "Eof" => UNCHANGED <<arrived, closed>>
    PROVE  BodyInv'
  <1>0. Understood' <=> Understood
    BY SameUnderstood
  <1>1. Body' => Body
    BY <1>0 DEF Body
  <1>2. FramingInv' /\ ReadInv'
    BY <1>1 DEF BodyBefore, FramingInv, ReadInv, InChunks, Declared
  <1>3. PieceInv' /\ HandedInv'
    BY <1>0, <1>1 DEF BodyBefore, PieceInv, HandedInv, Begins
  <1>4. EofInv'
    BY <1>0 DEF BodyBefore, EofInv, Declares, InChunks, Declared
  <1> QED
    BY <1>2, <1>3, <1>4 DEF BodyInv

(* Up to the end of the headers.                                           *)
LEMMA BodyHead ==
    ASSUME BodyBefore,
           Begin \/ SendBlock \/ SendFails \/ SendDone \/ Headers \/ HeadersFail
    PROVE  BodyInv'
  <1>1. CASE Begin
    <2>1. /\ pc' \in {"send", "headers"} /\ out' = <<>> /\ result' = "none"
          /\ reply' \in Replies
      BY <1>1 DEF Begin
    <2>2. HandedInv'
      <3>1. Len(reply'.body) \in Nat /\ Len(out') = 0
        BY <2>1, ReplyFact
      <3> QED
        BY <3>1 DEF HandedInv, Begins
    <2> QED
      BY <2>1, <2>2 DEF BodyInv, Body, FramingInv, ReadInv, PieceInv, EofInv
  <1>2. CASE SendBlock \/ SendFails \/ SendDone \/ StatusLine \/ NoStatus \/ HeaderLine
             \/ Refused \/ HeadersFail
    <2>1. /\ pc \in {"send", "headers"} /\ pc' \notin {"open", "body"}
          /\ reply' = reply /\ out' = out /\ (result' = result \/ result' # "Eof")
      BY <1>2 DEF SendBlock, SendFails, SendDone, StatusLine, NoStatus, HeaderLine, Refused,
                  HeadersFail, Finish
    <2>2. result = "none"
      BY <2>1 DEF BodyBefore, StartInv
    <2> QED
      BY <2>1, <2>2, Elsewhere
  <1>4. CASE EndOfHeaders
    <2>1. /\ pc = "headers"
          /\ UNCHANGED <<op, first, status, length, chunked, dec, recebido, arrived, pos,
                         closed, block, piece, out, result, reply>>
      BY <1>4 DEF EndOfHeaders, httpVars
    <2>2. /\ wire = reply.wire /\ pos = 0 /\ dec = Fresh /\ recebido = 0
          /\ piece = <<>> /\ out = <<>> /\ result = "none"
      BY <2>1 DEF BodyBefore, StartInv
    <2>3. HandedInv'
      <3>1. Len(out') = 0 /\ Len(reply'.body) \in Nat
        <4>1. out' = <<>>
          BY <2>1, <2>2
        <4> QED
          BY <2>1, <4>1, BodyTypes
      <3> QED
        BY <3>1 DEF HandedInv, Begins
    <2>4. EofInv'
      BY <2>1, <2>2 DEF EofInv
    <2>5. CASE ~Understood'
      BY <2>3, <2>4, <2>5 DEF BodyInv, Body, FramingInv, ReadInv, PieceInv
    <2>6. CASE Understood'
      <3>1. /\ chunked <=> InChunks(reply)
            /\ length = Declared(reply) /\ wire' = reply.wire
        BY <1>4, <2>1, <2>6, HeadersKnown DEF BodyBefore
      <3>2. FramingInv'
        BY <2>1, <3>1 DEF FramingInv, InChunks, Declared
      <3>3. ReadInv'
        <4>1. Len(wire') \in Nat
          <5>1. wire' = wire
            BY <2>2, <3>1
          <5> QED
            BY <5>1, BodyTypes
        <4>2. Trace(wire')[0] = [dec |-> Fresh, count |-> 0]
          BY <4>1, TraceFact DEF Follows
        <4>3. length \in Nat
          BY BodyTypes
        <4> QED
          BY <2>1, <2>2, <4>2, <4>3 DEF ReadInv
      <3>4. PieceInv'
        <4>1. Len(<<>>) = 0
          OBVIOUS
        <4>2. Len(piece') = 0 /\ Len(out') = 0 /\ recebido' = 0
          BY <2>1, <2>2, <4>1
        <4> QED
          BY <4>2 DEF PieceInv
      <3> QED
        BY <2>3, <2>4, <3>2, <3>3, <3>4 DEF BodyInv
    <2> QED
      BY <2>5, <2>6
  <1> QED
    BY <1>1, <1>2, <1>4 DEF Headers

(* lerCorpo.                                                               *)
LEMMA BodyReads ==
    ASSUME BodyBefore, Corpo
    PROVE  BodyInv'
  <1>0. /\ pc = "body" /\ pc' = pc
        /\ UNCHANGED <<op, length, chunked, wire, arrived, closed, out, result, reply, cut,
                       astray>>
    BY DEF Corpo, FeedByte, TakeData, Reading, LoopVars
  <1>1. result = "none"
    BY <1>0 DEF BodyBefore, PlaceInv
  <1>6. Understood' <=> Understood
    BY <1>0, SameUnderstood
  <1>7. Body' <=> Body
    BY <1>0, <1>6 DEF Body
  <1>2. FramingInv' /\ HandedInv' /\ EofInv'
    BY <1>0, <1>1, <1>6, <1>7 DEF BodyBefore, FramingInv, HandedInv, EofInv, Begins,
                                  InChunks, Declared
  <1>3. CASE ~Understood
    BY <1>0, <1>2, <1>3, <1>7 DEF BodyInv, ReadInv, PieceInv, Body
  <1>4. CASE Understood /\ FeedByte
    <2>1. Body /\ chunked /\ dec.phase # "Data" /\ arrived - pos > 0
      BY <1>0, <1>4 DEF Body, FeedByte, Reading, Available
    <2>2. /\ dec' = Feed(dec, wire[pos + 1]) /\ pos' = pos + 1
          /\ UNCHANGED <<recebido, piece>>
      BY <1>4 DEF FeedByte
    <2> DEFINE at == Trace(wire)
    <2>3. Follows(wire, at) /\ dec = at[pos].dec /\ recebido = at[pos].count
      BY <2>1, ChunksFact
    <2> HIDE DEF at
    <2>4. pos + 1 \in 1..Len(wire) /\ (pos + 1) - 1 = pos
      BY <2>1, BodyTypes
    <2>5. at[pos + 1] = Stepped(at[pos], wire[pos + 1])
      BY <2>3, <2>4 DEF Follows
    <2>6. at[pos + 1].dec = dec' /\ at[pos + 1].count = recebido'
      BY <2>1, <2>2, <2>3, <2>5 DEF Stepped
    <2>7. ReadInv'
      BY <1>0, <2>1, <2>2, <2>6 DEF ReadInv, at
    <2>8. PieceInv'
      BY <1>0, <1>7, <2>2 DEF BodyBefore, PieceInv
    <2> QED
      BY <1>2, <2>7, <2>8 DEF BodyInv
  <1>5. CASE Understood /\ TakeData
    <2>0. Body
      BY <1>0, <1>5 DEF Body
    <2>1. PICK n : n = Least(Limits)
      OBVIOUS
    <2>2. /\ \A j \in 1..n : reply.body[recebido + j] = wire[pos + j]
          /\ n \in Nat /\ pos + n <= Len(wire) /\ ReadInv'
      BY <1>5, <2>0, <2>1, PayloadFact
    <2>3. /\ piece' = piece \o SubSeq(wire, pos + 1, pos + n)
          /\ recebido' = recebido + n
      BY <1>5, <2>1 DEF TakeData
    <2> DEFINE new == SubSeq(wire, pos + 1, pos + n)
    <2>4. /\ new \in Seq(Bytes) /\ Len(new) = n /\ \A j \in 1..n : new[j] = wire[pos + j]
      <3>1. wire \in Seq(Bytes) /\ pos \in Nat
        BY BodyTypes DEF BodyBefore, TypesInv
      <3>2. n \in Nat /\ pos + n <= Len(wire)
        BY <2>2
      <3> QED
        BY <3>1, <3>2, CutFact
    <2>5. piece \in Seq(Bytes)
      BY DEF BodyBefore, TypesInv
    <2> HIDE DEF new
    <2>6. /\ Len(piece \o new) = Len(piece) + Len(new)
          /\ \A j \in 1..(Len(piece) + Len(new)) :
                (piece \o new)[j] = IF j <= Len(piece) THEN piece[j]
                                    ELSE new[j - Len(piece)]
      BY <2>4, <2>5, Joining, Zenon
    <2>7. /\ Len(piece') = Len(piece) + n
          /\ \A j \in 1..(Len(piece) + n) :
                piece'[j] = IF j <= Len(piece) THEN piece[j] ELSE new[j - Len(piece)]
      <3>1. piece' = piece \o new
        BY <2>3 DEF new
      <3> DEFINE both == piece \o new
      <3>2. piece' = both /\ Len(both) = Len(piece) + Len(new)
            /\ \A j \in 1..(Len(piece) + Len(new)) :
                  both[j] = IF j <= Len(piece) THEN piece[j] ELSE new[j - Len(piece)]
        BY <2>6, <3>1
      <3> HIDE DEF both
      <3> QED
        BY <2>4, <3>2
    <2>8. /\ Len(piece) \in Nat /\ recebido \in Nat /\ Len(out) \in Nat
      BY BodyTypes
    <2>9. /\ Len(out) + Len(piece) <= recebido
          /\ \A j \in 1..Len(piece) : piece[j] = reply.body[recebido - Len(piece) + j]
          /\ op = "download" \/ Len(out) < ReplyCap - 1 =>
                 Len(out) + Len(piece) = recebido
      BY <1>1, <2>0 DEF BodyBefore, PieceInv
    <2>10. recebido' - Len(piece') = recebido - Len(piece)
      <3>1. recebido' = recebido + n /\ Len(piece') = Len(piece) + n /\ n \in Nat
        BY <2>2, <2>3, <2>7
      <3>2. recebido' - Len(piece') = (recebido + n) - (Len(piece) + n)
        BY <3>1
      <3>3. (recebido + n) - (Len(piece) + n) = recebido - Len(piece)
        BY <2>8, <3>1
      <3> QED
        BY <3>2, <3>3
    <2>11. ASSUME NEW j \in 1..Len(piece')
           PROVE  piece'[j] = reply.body[recebido - Len(piece) + j]
      <3>1. j \in Nat /\ j \in 1..(Len(piece) + n)
        BY <2>2, <2>7, <2>8
      <3>2. CASE j <= Len(piece)
        BY <2>7, <2>8, <2>9, <3>1, <3>2
      <3>3. CASE ~(j <= Len(piece))
        <4>1. /\ j - Len(piece) \in 1..n
              /\ recebido + (j - Len(piece)) = recebido - Len(piece) + j
          BY <2>2, <2>8, <3>1, <3>3
        <4>2. piece'[j] = wire[pos + (j - Len(piece))]
          BY <2>4, <2>7, <3>1, <3>3, <4>1
        <4>3. reply.body[recebido + (j - Len(piece))] = wire[pos + (j - Len(piece))]
          BY <2>2, <4>1
        <4> QED
          BY <4>1, <4>2, <4>3
      <3> QED
        BY <3>2, <3>3
    <2>12. /\ Len(out) + Len(piece') <= recebido'
           /\ op = "download" \/ Len(out) < ReplyCap - 1 =>
                  Len(out) + Len(piece') = recebido'
      <3>1. recebido' = recebido + n /\ Len(piece') = Len(piece) + n /\ n \in Nat
        BY <2>2, <2>3, <2>7
      <3>2. Len(out) + Len(piece) <= recebido
        BY <2>9
      <3>3. /\ Len(out) + (Len(piece) + n) <= recebido + n
            /\ Len(out) + Len(piece) = recebido =>
                   Len(out) + (Len(piece) + n) = recebido + n
        BY <2>8, <3>1, <3>2
      <3>4. Len(out) + Len(piece') <= recebido'
        BY <3>1, <3>3
      <3>5. Len(out) + Len(piece) = recebido => Len(out) + Len(piece') = recebido'
        BY <3>1, <3>3
      <3> QED
        BY <2>9, <3>4, <3>5
    <2>13. PieceInv'
      BY <1>0, <2>10, <2>11, <2>12 DEF PieceInv
    <2> QED
      BY <1>2, <2>2, <2>13 DEF BodyInv
  <1> QED
    BY <1>3, <1>4, <1>5 DEF Corpo
(* A place beyond a first part is a place in the second.                   *)
LEMMA Shifted ==
    ASSUME NEW a \in Nat, NEW b \in Nat, NEW c \in Nat, NEW i \in Nat,
           a < i, i <= a + b, a + b = c
    PROVE  i - a \in 1..b /\ c - b + (i - a) = i
  OBVIOUS

(* What is handed over: what was, and as much of the piece in hand as      *)
(* there is room for.                                                      *)
LEMMA HandFact ==
    ASSUME BodyBefore, Body, result = "none", NEW o,
           Len(o) \in Nat, Len(o) <= Len(out) + Len(piece),
           \A j \in 1..Len(o) : o[j] = IF j <= Len(out) THEN out[j]
                                       ELSE piece[j - Len(out)],
           Len(o) > Len(out) => Len(out) + Len(piece) = recebido
    PROVE  Begins(o, reply.body)
  <1>1. /\ Len(out) \in Nat /\ Len(piece) \in Nat /\ recebido \in Nat
        /\ Len(reply.body) \in Nat
    BY BodyTypes
  <1>2. /\ Len(out) <= Len(reply.body)
        /\ \A j \in 1..Len(out) : out[j] = reply.body[j]
    BY DEF BodyBefore, HandedInv, Begins, Body
  <1>3. \A j \in 1..Len(piece) : piece[j] = reply.body[recebido - Len(piece) + j]
    BY DEF BodyBefore, PieceInv
  <1>4. recebido <= Len(reply.body)
    BY CountFact
  <1>5. Len(o) <= Len(reply.body)
    BY <1>1, <1>2, <1>4
  <1>6. ASSUME NEW j \in 1..Len(o) PROVE o[j] = reply.body[j]
    <2>1. CASE j <= Len(out)
      BY <1>1, <1>2, <2>1
    <2>2. CASE ~(j <= Len(out))
      <3>1. j \in Nat /\ Len(out) < j /\ j <= Len(o)
        BY <1>1, <2>2
      <3>2. j <= Len(out) + Len(piece) /\ Len(out) + Len(piece) = recebido
        BY <1>1, <3>1
      <3>3. /\ j - Len(out) \in 1..Len(piece)
            /\ recebido - Len(piece) + (j - Len(out)) = j
        BY SMTT(30), <1>1, <3>1, <3>2, Shifted
      <3> QED
        BY <1>3, <2>2, <3>3
    <2> QED
      BY <2>1, <2>2
  <1> QED
    BY <1>5, <1>6 DEF Begins

(* When all that is counted is the body, all of it was handed over.        *)
LEMMA AllHanded ==
    ASSUME BodyBefore, Body, result = "none", op = "download", piece = <<>>,
           recebido = Len(reply.body)
    PROVE  out = reply.body
  <1>1. Len(piece) = 0
    OBVIOUS
  <1>2. Len(out) + Len(piece) = recebido
    BY DEF BodyBefore, PieceInv
  <1>3. Len(out) = Len(reply.body)
    BY <1>1, <1>2, BodyTypes
  <1>4. \A j \in 1..Len(out) : out[j] = reply.body[j]
    BY DEF BodyBefore, HandedInv, Begins, Body
  <1>5. out \in Seq(Bytes) /\ reply.body \in Seq(Bytes)
    BY BodyTypes, ReplyFact DEF BodyBefore, TypesInv
  <1> QED
    BY <1>3, <1>4, <1>5, SeqEqual

(* lerResposta.                                                            *)
LEMMA BodyKept ==
    ASSUME BodyBefore, ReplyGoesOn \/ ReplyDone
    PROVE  BodyInv'
  <1>1. /\ pc = "body" /\ op # "download" /\ out' = Kept /\ piece' = <<>>
        /\ UNCHANGED <<op, length, chunked, dec, recebido, wire, pos, reply, cut, astray>>
        /\ (result' = "Ok" /\ pc' = "idle") \/ UNCHANGED <<result, pc>>
    BY DEF ReplyGoesOn, ReplyDone, Returns, Finish, httpVars, netVars
  <1>2. result = "none"
    BY <1>1 DEF BodyBefore, PlaceInv
  <1>3. EofInv'
    BY <1>1, <1>2 DEF EofInv
  <1>7. Understood' <=> Understood
    BY <1>1, SameUnderstood
  <1>4. FramingInv' /\ ReadInv'
    BY <1>1, <1>7 DEF BodyBefore, FramingInv, ReadInv, Body, InChunks, Declared
  <1>5. CASE ~Understood
    BY <1>1, <1>3, <1>4, <1>5, <1>7 DEF BodyInv, PieceInv, HandedInv, Body
  <1>6. CASE Understood
    <2>0. Body
      BY <1>1, <1>6 DEF Body
    <2>1. /\ Len(Kept) = IF Len(out) + Len(piece) <= ReplyCap - 1
                         THEN Len(out) + Len(piece) ELSE ReplyCap - 1
          /\ \A j \in 1..Len(Kept) :
                Kept[j] = IF j <= Len(out) THEN out[j] ELSE piece[j - Len(out)]
      BY KeptFact DEF BodyBefore
    <2>2. /\ Len(out) \in Nat /\ Len(piece) \in Nat /\ recebido \in Nat
          /\ ReplyCap - 1 \in Nat
      BY BodyTypes, SizesAssumption
    <2>3. /\ Len(out) + Len(piece) <= recebido
          /\ Len(out) < ReplyCap - 1 => Len(out) + Len(piece) = recebido
      BY <1>2, <2>0 DEF BodyBefore, PieceInv
    <2> DEFINE m == Len(Kept)
    <2>4. m = IF Len(out) + Len(piece) <= ReplyCap - 1
              THEN Len(out) + Len(piece) ELSE ReplyCap - 1
      BY <2>1
    <2> HIDE DEF m
    <2>5. /\ m \in Nat /\ m <= Len(out) + Len(piece) /\ m <= recebido
          /\ m > Len(out) => Len(out) + Len(piece) = recebido
          /\ m < ReplyCap - 1 => m = recebido
      BY <2>2, <2>3, <2>4
    <2>6. Begins(Kept, reply.body)
      BY <1>2, <2>0, <2>1, <2>5, HandFact DEF m
    <2>7. HandedInv'
      BY <1>1, <2>6 DEF HandedInv, Begins
    <2>8. PieceInv'
      <3>1. Len(piece') = 0 /\ Len(out') = m /\ recebido' = recebido
        BY <1>1 DEF m
      <3>2. /\ m + 0 <= recebido /\ 1..0 = {}
            /\ m < ReplyCap - 1 => m + 0 = recebido
        BY <2>2, <2>5
      <3> QED
        BY <1>1, <3>1, <3>2 DEF PieceInv
    <2> QED
      BY <1>3, <1>4, <2>7, <2>8 DEF BodyInv
  <1> QED
    BY <1>5, <1>6
(* readChunk and what surrounds it: the network, the wait for the next     *)
(* call, the end of the download.                                          *)
LEMMA BodyWaits ==
    ASSUME BodyBefore, Arrive \/ Close \/ ReadChunk \/ EndDownload
    PROVE  BodyInv'
  <1>1. CASE Arrive
    <2>1. pc \in {"open", "body"} /\ pc' = pc /\ closed' = closed /\ ~closed
          /\ UNCHANGED <<op, status, length, chunked, dec, recebido, wire, pos, piece, out,
                         result, reply, cut, astray>>
      BY <1>1 DEF Arrive, httpVars
    <2>0. Understood' <=> Understood
      BY <2>1, SameUnderstood
    <2>2. EofInv'
      BY <2>0, <2>1 DEF BodyBefore, EofInv, Declares, InChunks, Declared
    <2>3. FramingInv' /\ ReadInv'
      BY <2>0, <2>1 DEF BodyBefore, FramingInv, ReadInv, Body, InChunks, Declared
    <2>4. PieceInv' /\ HandedInv'
      BY <2>0, <2>1 DEF BodyBefore, PieceInv, HandedInv, Begins, Body
    <2> QED
      BY <2>2, <2>3, <2>4 DEF BodyInv
  <1>2. CASE Close
    <2>1. pc \in {"open", "body"} /\ pc' = pc /\ arrived' = arrived /\ ~closed
          /\ UNCHANGED <<op, status, length, chunked, dec, recebido, wire, pos, piece, out,
                         result, reply, cut, astray>>
      BY <1>2 DEF Close, httpVars
    <2>0. Understood' <=> Understood
      BY <2>1, SameUnderstood
    <2>2. EofInv'
      BY <2>0, <2>1 DEF BodyBefore, EofInv, Declares, InChunks, Declared
    <2>3. FramingInv' /\ ReadInv'
      BY <2>0, <2>1 DEF BodyBefore, FramingInv, ReadInv, Body, InChunks, Declared
    <2>4. PieceInv' /\ HandedInv'
      BY <2>0, <2>1 DEF BodyBefore, PieceInv, HandedInv, Begins, Body
    <2> QED
      BY <2>2, <2>3, <2>4 DEF BodyInv
  <1>3. CASE ReadChunk
    <2>1. /\ pc = "open" /\ pc' = "body" /\ result = "none" /\ piece' = <<>>
          /\ UNCHANGED <<op, status, length, chunked, dec, recebido, wire, pos, out, result,
                         reply, cut, astray>>
      BY <1>3 DEF ReadChunk, httpVars, netVars
    <2>2. piece' = piece
      BY <2>1 DEF BodyBefore, PlaceInv
    <2> QED
      BY <2>1, <2>2, BodySame
  <1>4. CASE EndDownload
    <2>1. /\ pc' = "idle"
          /\ UNCHANGED <<reply, cut, astray, length, chunked, out, result, arrived, closed,
                         wire>>
      BY <1>4 DEF EndDownload, netVars, httpVars
    <2>0. Understood' <=> Understood
      BY <2>1, SameUnderstood
    <2>2. EofInv'
      BY <2>0, <2>1 DEF BodyBefore, EofInv, Declares, InChunks, Declared
    <2>3. HandedInv'
      BY <2>0, <2>1 DEF BodyBefore, HandedInv, Begins
    <2> QED
      BY <2>1, <2>2, <2>3 DEF BodyInv, Body, FramingInv, ReadInv, PieceInv
  <1> QED
    BY <1>1, <1>2, <1>3, <1>4

(* What a call of readChunk answers.                                       *)
LEMMA BodyAnswers ==
    ASSUME BodyBefore, Chunk \/ ChunkTimeout
    PROVE  BodyInv'
  <1>1. /\ pc = "body" /\ pc' = "open" /\ op = "download" /\ piece' = <<>>
        /\ UNCHANGED <<op, length, chunked, dec, recebido, wire, arrived, pos, closed,
                       reply, cut, astray>>
    BY DEF Chunk, ChunkTimeout, ChunkBroken, ChunkRead, ChunkEof, ChunkClosed,
           ChunkWouldBlock, Answer, Returns, httpVars, netVars
  <1>2. result = "none"
    BY <1>1 DEF BodyBefore, PlaceInv
  <1>9. Understood' <=> Understood
    BY <1>1, SameUnderstood
  <1>3. FramingInv' /\ ReadInv'
    BY <1>1, <1>9 DEF BodyBefore, FramingInv, ReadInv, Body, InChunks, Declared
  <1>4. /\ Len(out) \in Nat /\ Len(piece) \in Nat /\ recebido \in Nat
        /\ Len(<<>>) = 0 /\ 1..0 = {}
    BY BodyTypes
  <1>5. Understood => Body
    BY <1>1 DEF Body
  <1>6. Understood => Len(out) + Len(piece) = recebido /\ Begins(out, reply.body)
    BY <1>1, <1>2, <1>5 DEF BodyBefore, PieceInv, HandedInv
  <1>7. CASE ChunkRead
    <2>1. out' = out \o piece /\ result' = "none"
      BY <1>7 DEF ChunkRead, Answer
    <2> DEFINE o == out \o piece
    <2>2. out \in Seq(Bytes) /\ piece \in Seq(Bytes)
      BY DEF BodyBefore, TypesInv
    <2>3. /\ Len(o) = Len(out) + Len(piece)
          /\ \A j \in 1..(Len(out) + Len(piece)) :
                o[j] = IF j <= Len(out) THEN out[j] ELSE piece[j - Len(out)]
      BY <2>2, Joining, Zenon
    <2> HIDE DEF o
    <2>4. Understood => Begins(o, reply.body)
      <3> SUFFICES ASSUME Understood PROVE Begins(o, reply.body)
        OBVIOUS
      <3>1. Len(out) + Len(piece) = recebido /\ Body
        BY <1>5, <1>6
      <3>2. Len(o) \in Nat /\ Len(o) <= Len(out) + Len(piece)
        BY <1>4, <2>3
      <3> QED
        BY <1>2, <2>3, <3>1, <3>2, HandFact
    <2>5. out' = o
      BY <2>1 DEF o
    <2>6. HandedInv'
      BY <1>1, <1>9, <2>4, <2>5 DEF HandedInv, Begins
    <2>7. PieceInv'
      <3>1. Len(piece') = 0 /\ Len(out') = Len(out) + Len(piece) /\ recebido' = recebido
        BY <1>1, <1>4, <2>3, <2>5
      <3>2. Understood => Len(out') + Len(piece') = recebido'
        BY <1>4, <1>6, <3>1
      <3>3. Understood => Len(out') + Len(piece') <= recebido'
        BY <1>4, <1>6, <3>1
      <3> QED
        BY <1>1, <1>4, <1>9, <3>1, <3>2, <3>3 DEF PieceInv, Body
    <2>8. EofInv'
      BY <2>1 DEF EofInv
    <2> QED
      BY <1>3, <2>6, <2>7, <2>8 DEF BodyInv
  <1>8. CASE ~ChunkRead
    <2>1. out' = out /\ (result' = "none" => piece = <<>>)
      BY <1>8 DEF Chunk, ChunkTimeout, ChunkBroken, ChunkEof, ChunkClosed,
                  ChunkWouldBlock, IdleTooLong, Waiting, Over, Answer
    <2>2. HandedInv'
      BY <1>1, <1>9, <2>1 DEF BodyBefore, HandedInv, Begins
    <2>3. PieceInv'
      <3> SUFFICES ASSUME Body', result' = "none" PROVE PieceInv'
        BY DEF PieceInv
      <3>1. Understood /\ piece = <<>>
        BY <1>1, <1>9, <2>1 DEF Body
      <3>2. PieceInv /\ Body
        BY <1>5, <3>1 DEF BodyBefore
      <3> QED
        BY <1>1, <1>2, <2>1, <3>1, <3>2 DEF PieceInv
    <2>4. EofInv'
      <3> SUFFICES ASSUME result' = "Eof", Understood
                   PROVE  \/ out = reply.body /\ reply.sound
                          \/ ~Declares(reply) /\ closed /\ arrived # Len(wire)
        BY <1>1, <1>9, <2>1 DEF EofInv, Declares, InChunks, Declared
      <3>1. CASE ChunkEof
        <4>1. /\ Ended /\ (chunked => dec.phase # "Invalid") /\ piece = <<>>
          BY <3>1 DEF ChunkEof, Fim, Broken
        <4>2. recebido = Len(reply.body) /\ reply.sound
          BY <1>5, <4>1, CountFact
        <4> QED
          BY <1>1, <1>2, <1>5, <4>1, <4>2, AllHanded
      <3>2. CASE ChunkClosed
        <4>1. /\ Undeclared /\ closed /\ piece = <<>> /\ arrived - pos = 0
          BY <3>2 DEF ChunkClosed, Over, Answer, Available
        <4>2. ~Declares(reply)
          <5>1. ~InChunks(reply) /\ Declared(reply) = 0
            BY <1>5, <4>1 DEF BodyBefore, FramingInv, Undeclared
          <5> QED
            BY <5>1 DEF Declares
        <4>3. arrived = Len(wire) => pos = Len(wire)
          BY <4>1, BodyTypes
        <4>4. arrived = Len(wire) => recebido = Len(reply.body) /\ reply.sound
          BY <1>5, <4>1, <4>3, CountFact
        <4> QED
          BY <1>1, <1>2, <1>5, <4>1, <4>2, <4>4, AllHanded
      <3> QED
        BY <1>8, <3>1, <3>2 DEF Chunk, ChunkTimeout, ChunkBroken, ChunkWouldBlock, Answer
    <2> QED
      BY <1>3, <2>2, <2>3, <2>4 DEF BodyInv
  <1> QED
    BY <1>7, <1>8

-----------------------------------------------------------------------------
(* The whole invariant.                                                    *)

(* At the start nothing was handed over.                                   *)
LEMMA BodyInit == Init => BodyInv
  <1> SUFFICES ASSUME Init PROVE BodyInv
    OBVIOUS
  <1>1. pc = "idle" /\ out = <<>> /\ result = "none" /\ reply \in Replies
    <2>1. reply \in Replies
      BY RepliesAssumption DEF Init
    <2> QED
      BY <2>1 DEF Init
  <1>2. HandedInv
    <2>1. Len(reply.body) \in Nat /\ Len(out) = 0
      BY <1>1, ReplyFact
    <2> QED
      BY <2>1 DEF HandedInv, Begins
  <1> QED
    BY <1>1, <1>2 DEF BodyInv, Body, FramingInv, ReadInv, PieceInv, EofInv

(* And every step keeps what is known of the body.                         *)
LEMMA BodyKeeps ==
    ASSUME BodyBefore, [Next]_vars
    PROVE  BodyInv'
  <1>1. CASE Begin \/ SendBlock \/ SendFails \/ SendDone \/ Headers \/ HeadersFail
    BY <1>1, BodyHead
  <1>2. CASE Corpo
    BY <1>2, BodyReads
  <1>3. CASE ReplyGoesOn \/ ReplyDone
    BY <1>3, BodyKept
  <1>4. CASE Arrive \/ Close \/ ReadChunk \/ EndDownload
    BY <1>4, BodyWaits
  <1>5. CASE Chunk \/ ChunkTimeout
    BY <1>5, BodyAnswers
  <1>6. CASE UNCHANGED vars
    BY <1>6, BodySame DEF vars, httpVars, netVars
  <1> QED
    BY <1>1, <1>2, <1>3, <1>4, <1>5, <1>6 DEF Next
(* What holds in every state, of replies that are what they mean.          *)
SentInv == TypesInv /\ StartInv /\ HeadersInv /\ PlaceInv /\ BodyInv

(* It is inductive.                                                        *)
LEMMA SentInductive ==
    ASSUME \A r \in Replies : IsMeant(r)
    PROVE  Spec => []SentInv
  <1>1. Init => SentInv
    BY InitTypes, BodyInit DEF HttpInv, SentInv
  <1>2. SentInv /\ [Next]_vars => SentInv'
    <2> SUFFICES ASSUME SentInv, [Next]_vars PROVE SentInv'
      OBVIOUS
    <2>1. TypesInv'
      BY TypesKeep DEF SentInv
    <2>2. StartInv' /\ PlaceInv'
      BY PlaceKeeps DEF SentInv
    <2>3. HeadersInv'
      BY HeadersKeep DEF SentInv
    <2>4. BodyInv'
      BY BodyKeeps DEF SentInv, BodyInv, BodyBefore
    <2> QED
      BY <2>1, <2>2, <2>3, <2>4 DEF SentInv
  <1> QED
    BY <1>1, <1>2, PTL DEF Spec

(* A sequence that begins another is its prefix.                           *)
LEMMA BeginsPrefix ==
    ASSUME NEW S, NEW s \in Seq(S), NEW t \in Seq(S), Begins(s, t)
    PROVE  IsPrefix(s, t)
  <1>1. /\ Len(s) \in Nat /\ Len(t) \in Nat /\ Len(s) <= Len(t)
        /\ \A j \in 1..Len(s) : s[j] = t[j]
    BY DEF Begins
  <1> DEFINE front == SubSeq(t, 1, Len(s))
  <1>2. /\ front \in Seq(S) /\ Len(front) = Len(s)
        /\ \A j \in 1..Len(s) : front[j] = t[j]
    <2>1. 0 + Len(s) <= Len(t) /\ 0 + 1 = 1 /\ 0 + Len(s) = Len(s)
      BY <1>1
    <2>2. /\ SubSeq(t, 0 + 1, 0 + Len(s)) \in Seq(S)
          /\ Len(SubSeq(t, 0 + 1, 0 + Len(s))) = Len(s)
          /\ \A j \in 1..Len(s) : SubSeq(t, 0 + 1, 0 + Len(s))[j] = t[0 + j]
      BY <1>1, <2>1, CutFact
    <2> QED
      BY <2>1, <2>2
  <1> HIDE DEF front
  <1>3. s = front
    BY <1>1, <1>2, SeqEqual
  <1> QED
    BY <1>1, <1>3 DEF IsPrefix, front

(* What a caller is given begins the body the server sent, whatever the    *)
(* server answers, however the bytes of the body arrive, wherever the      *)
(* connection breaks off and whatever blocks are asked for; if the headers *)
(* were understood, as they are when each line was read in one piece.      *)
THEOREM BodyHanded ==
    ASSUME \A r \in Replies : IsMeant(r)
    PROVE  Spec => []BodyIsWhatWasSent
  <1>1. SentInv => BodyIsWhatWasSent
    <2> SUFFICES ASSUME SentInv, Understood PROVE IsPrefix(out, reply.body)
      BY DEF BodyIsWhatWasSent
    <2>1. out \in Seq(Bytes) /\ reply.body \in Seq(Bytes)
      BY ReplyFact DEF SentInv, TypesInv, TypeOK
    <2>2. Begins(out, reply.body)
      BY DEF SentInv, BodyInv, HandedInv
    <2> QED
      BY <2>1, <2>2, BeginsPrefix
  <1> QED
    BY <1>1, SentInductive, PTL

(* Eof is said of a whole body only, as far as the server declares where   *)
(* its body ends and this was understood.                                  *)
THEOREM EofWhole ==
    ASSUME \A r \in Replies : IsMeant(r)
    PROVE  Spec => []EofMeansWhole
  <1>1. SentInv => EofMeansWhole
    BY DEF SentInv, BodyInv, EofInv, EofMeansWhole
  <1> QED
    BY <1>1, SentInductive, PTL
-----------------------------------------------------------------------------
(* A body as HTTP encodes it in chunks, and that the decoder reads it.     *)

(* After place p a size line names n in m digits, v[k] by the first k of   *)
(* them, has e bytes of an extension, and ends at place q.                 *)
SizeLineIs(w, p, q, n, m, v, e) ==
    /\ m > 0 /\ v[0] = 0 /\ v[m] = n /\ q = p + m + e + 2 /\ q <= Len(w)
    /\ \A k \in 1..m : /\ w[p + k] \in DOMAIN Digits
                       /\ v[k] = v[k - 1] * Radix + Digits[w[p + k]]
    /\ e > 0 => w[p + m + 1] = "semi"
    /\ \A k \in 1..e : w[p + m + k] # "lf"
    /\ w[p + m + e + 1] = "cr" /\ w[p + m + e + 2] = "lf"

SizeLine(w, p, q, n) ==
    \E m, e \in Nat : \E v \in [0..m -> 0..MaxSize] : SizeLineIs(w, p, q, n, m, v, e)

(* After place p a chunk of n bytes: its size line ends at s, the chunk at *)
(* q, and its bytes are those of the body after place o.                   *)
ChunkIs(w, b, p, s, q, o, n) ==
    /\ SizeLine(w, p, s, n) /\ n > 0 /\ q = s + n + 2 /\ q <= Len(w)
    /\ \A j \in 1..n : w[s + j] = b[o + j]
    /\ w[s + n + 1] = "cr" /\ w[s + n + 2] = "lf"

(* After place s a trailer, which the first empty line ends at place e.    *)
TrailerIs(w, s, e) ==
    /\ w[e] = "lf" /\ w[e - 1] = "cr" /\ w[e - 2] = "lf"
    /\ \A f \in (s + 1)..(e - 1) :
          w[f] = "lf" => /\ f - 2 > s /\ w[f - 1] = "cr" /\ w[f - 2] \notin {"cr", "lf"}

(* After place p the last chunk, whose size line ends at s, and a trailer. *)
LastIs(w, p, s, e) ==
    SizeLine(w, p, s, 0) /\ e \in (s + 2)..Len(w) /\ TrailerIs(w, s, e)

(* Chunk i lies between places p[i - 1] and p[i], its bytes between o[i-1] *)
(* and o[i]; what comes after the last is not of the body.                 *)
Encodes(w, b) ==
    \E num \in Nat : \E p, o \in [0..num -> Nat] :
       /\ p[0] = 0 /\ o[0] = 0 /\ o[num] = Len(b)
       /\ \A i \in 1..num : \E s, n \in Nat :
             ChunkIs(w, b, p[i - 1], s, p[i], o[i - 1], n) /\ o[i] = o[i - 1] + n
       /\ \E s, e \in Nat : LastIs(w, p[num], s, e)

(* Where a decoder waits for a chunk, and o bytes were payload so far.     *)
AtChunk(s, o) ==
    /\ s.dec.phase = "Size" /\ s.dec.remaining = 0 /\ ~s.dec.digit
    /\ s.count = o

(* A byte of framing is fed.                                               *)
LEMMA OneByte ==
    ASSUME NEW w, Len(w) \in Nat, NEW at, Follows(w, at),
           NEW i \in Nat, i + 1 <= Len(w), at[i].dec.phase # "Data"
    PROVE  /\ at[i + 1].dec = Feed(at[i].dec, w[i + 1])
           /\ at[i + 1].count = at[i].count
           /\ at[i].dec \in Decoders /\ at[i].count \in Nat
  <1>1. i + 1 \in 1..Len(w) /\ i \in 0..Len(w) /\ (i + 1) - 1 = i
    OBVIOUS
  <1>2. at[i + 1] = Stepped(at[i], w[i + 1])
    BY <1>1 DEF Follows
  <1>3. at[i].dec \in Decoders /\ at[i].count \in Nat
    BY <1>1 DEF Follows, Sane
  <1> QED
    BY <1>2, <1>3 DEF Stepped

(* A digit counts, as long as the size fits.                               *)
LEMMA OneDigit ==
    ASSUME NEW d \in Decoders, d.phase = "Size", NEW c \in DOMAIN Digits,
           NEW y \in 0..MaxSize, y = d.remaining * Radix + Digits[c]
    PROVE  Feed(d, c) = [d EXCEPT !.remaining = y, !.digit = TRUE]
  <1>1. Digits[c] \in 0..(Radix - 1) /\ c \notin Marks
    BY DecoderAssumption
  <1>2. d.remaining \in Nat
    BY DEF Decoders
  <1>3. ~(d.remaining * Radix + Digits[c] > MaxSize)
    <2>1. \A x \in 0..MaxSize : ~(x > MaxSize)
      BY DecoderAssumption
    <2> QED
      BY <2>1
  <1>4. ~(d.remaining > MaxSize \div Radix)
    BY <1>1, <1>2, <1>3, SizeFits
  <1>5. FeedSize(d, c) = SizeDigit(d, c)
    BY <1>1 DEF FeedSize, Marks
  <1> QED
    BY <1>4, <1>5 DEF Feed, SizeDigit
(* After k digits of a size line, that name x so far.                      *)
AtDigit(s, x, k, o) ==
    /\ s.dec.phase = "Size" /\ s.dec.remaining = x /\ (s.dec.digit <=> k > 0)
    /\ s.count = o

(* After k bytes of its extension.                                         *)
InExtension(s, n, k, o) ==
    /\ s.dec.phase = IF k = 0 THEN "Size" ELSE "Extension"
    /\ s.dec.remaining = n /\ s.dec.digit
    /\ s.count = o

(* The digits of a size line.                                              *)
LEMMA DigitsRead ==
    ASSUME NEW w, Len(w) \in Nat, NEW at, Follows(w, at),
           NEW p \in Nat, NEW q, NEW n, NEW o, NEW m \in Nat, NEW e \in Nat,
           NEW v \in [0..m -> 0..MaxSize], SizeLineIs(w, p, q, n, m, v, e),
           AtChunk(at[p], o)
    PROVE  \A k \in 0..m : AtDigit(at[p + k], v[k], k, o)
  <1> DEFINE T == {i \in Nat : i <= m => AtDigit(at[p + i], v[i], i, o)}
  <1>0. p + m + e + 2 <= Len(w) /\ v[0] = 0
    BY DEF SizeLineIs
  <1>1. 0 \in T
    <2>1. p + 0 = p
      OBVIOUS
    <2> QED
      BY <1>0, <2>1 DEF AtChunk, AtDigit
  <1>2. ASSUME NEW i \in T PROVE i + 1 \in T
    <2> SUFFICES ASSUME i + 1 <= m PROVE AtDigit(at[p + (i + 1)], v[i + 1], i + 1, o)
      OBVIOUS
    <2>1. i \in Nat /\ i <= m
      OBVIOUS
    <2>2. AtDigit(at[p + i], v[i], i, o)
      BY <2>1
    <2> HIDE DEF T
    <2> DEFINE x == p + i
    <2>3. /\ i + 1 \in 1..m /\ i + 1 \in 0..m /\ (i + 1) - 1 = i /\ i + 1 > 0
          /\ x \in Nat /\ x + 1 <= Len(w) /\ p + (i + 1) = x + 1
      BY <1>0, <2>1
    <2> DEFINE d == at[x].dec
    <2> DEFINE c == w[x + 1]
    <2> DEFINE y == v[i + 1]
    <2>4. d.phase = "Size" /\ d.remaining = v[i] /\ at[x].count = o
      BY <2>2 DEF AtDigit
    <2> HIDE DEF x
    <2>5. c \in DOMAIN Digits /\ y = v[i] * Radix + Digits[c]
      BY <2>3 DEF SizeLineIs
    <2>6. /\ at[x + 1].dec = Feed(d, c) /\ at[x + 1].count = o
          /\ d \in Decoders
      <3>1. x \in Nat /\ x + 1 <= Len(w) /\ at[x].dec.phase # "Data"
        BY <2>3, <2>4
      <3> HIDE DEF d, c, y
      <3>2. /\ at[x + 1].dec = Feed(at[x].dec, w[x + 1]) /\ at[x + 1].count = at[x].count
            /\ at[x].dec \in Decoders
        BY <3>1, OneByte
      <3> QED
        BY <2>4, <3>2 DEF d, c
    <2>7. y \in 0..MaxSize
      BY <2>3
    <2> HIDE DEF d, c, y
    <2>8. y = d.remaining * Radix + Digits[c]
      BY <2>4, <2>5
    <2>9. Feed(d, c) = [d EXCEPT !.remaining = y, !.digit = TRUE]
      <3>1. c \in DOMAIN Digits /\ d.phase = "Size" /\ d \in Decoders
        BY <2>4, <2>5, <2>6
      <3> QED
        BY <2>7, <2>8, <3>1, OneDigit, ZenonT(60)
    <2>10. AtDigit(at[x + 1], y, i + 1, o)
      BY <2>3, <2>4, <2>6, <2>9 DEF AtDigit, Decoders
    <2> QED
      BY <2>3, <2>10 DEF y
  <1> HIDE DEF T
  <1>3. T = Nat
    BY <1>1, <1>2, Induct DEF T
  <1>4. ASSUME NEW k \in 0..m PROVE AtDigit(at[p + k], v[k], k, o)
    <2>1. k \in T /\ k <= m
      BY <1>3
    <2> QED
      BY <2>1 DEF T
  <1> QED
    BY <1>4

(* And its extension, to the end of the line.                              *)
LEMMA ExtensionRead ==
    ASSUME NEW w, Len(w) \in Nat, NEW at, Follows(w, at),
           NEW a \in Nat, NEW n, NEW o, NEW e \in Nat,
           a + e + 2 <= Len(w), e > 0 => w[a + 1] = "semi",
           \A i \in 1..e : w[a + i] # "lf",
           InExtension(at[a], n, 0, o)
    PROVE  \A k \in 0..e : InExtension(at[a + k], n, k, o)
  <1> DEFINE T == {i \in Nat : i <= e => InExtension(at[a + i], n, i, o)}
  <1>1. 0 \in T
    <2>1. a + 0 = a
      OBVIOUS
    <2> QED
      BY <2>1
  <1>2. ASSUME NEW i \in T PROVE i + 1 \in T
    <2> SUFFICES ASSUME i + 1 <= e PROVE InExtension(at[a + (i + 1)], n, i + 1, o)
      OBVIOUS
    <2>1. i \in Nat /\ i <= e
      OBVIOUS
    <2>2. InExtension(at[a + i], n, i, o)
      BY <2>1
    <2> HIDE DEF T
    <2> DEFINE x == a + i
    <2>3. /\ i + 1 \in 1..e /\ i + 1 # 0 /\ e > 0 /\ (i = 0 => x = a)
          /\ x \in Nat /\ x + 1 <= Len(w) /\ a + (i + 1) = x + 1
      BY <2>1
    <2> DEFINE d == at[x].dec
    <2> DEFINE c == w[x + 1]
    <2>4. /\ d.phase = IF i = 0 THEN "Size" ELSE "Extension"
          /\ d.remaining = n /\ d.digit /\ at[x].count = o
      BY <2>2 DEF InExtension
    <2> HIDE DEF x
    <2>5. /\ at[x + 1].dec = Feed(d, c) /\ at[x + 1].count = o
          /\ d \in Decoders
      BY <2>3, <2>4, OneByte
    <2>6. c # "lf" /\ (i = 0 => c = "semi")
      BY <2>3
    <2> HIDE DEF d, c
    <2>7. /\ Feed(d, c).phase = "Extension" /\ Feed(d, c).remaining = n
          /\ Feed(d, c).digit
      BY <2>4, <2>5, <2>6 DEF Feed, FeedSize, Decoders
    <2> QED
      BY <2>3, <2>5, <2>7 DEF InExtension
  <1> HIDE DEF T
  <1>3. T = Nat
    BY <1>1, <1>2, Induct DEF T
  <1>4. ASSUME NEW k \in 0..e PROVE InExtension(at[a + k], n, k, o)
    <2>1. k \in T /\ k <= e
      BY <1>3
    <2> QED
      BY <2>1 DEF T
  <1> QED
    BY <1>4

(* After a size line, which has no payload, what it names is expected.     *)
AfterSize(w, at, p, q, n, o) ==
    /\ q \in Nat /\ p < q /\ q <= Len(w) /\ n \in Nat /\ w[q] = "lf"
    /\ \A i \in p..(q - 1) : at[i].dec.phase # "Data"
    /\ at[q].count = o /\ at[q].dec.remaining = n
    /\ at[q].dec.phase = IF n = 0 THEN "Trailer" ELSE "Data"
    /\ n = 0 => at[q].dec.empty

(* A size line: what it names is expected, and nothing of it is payload.   *)
LEMMA SizeRead ==
    ASSUME NEW w, Len(w) \in Nat, NEW at, Follows(w, at),
           NEW p \in Nat, NEW q, NEW n, NEW o, SizeLine(w, p, q, n), AtChunk(at[p], o)
    PROVE  AfterSize(w, at, p, q, n, o)
  <1>1. PICK m, e \in Nat : \E v \in [0..m -> 0..MaxSize] : SizeLineIs(w, p, q, n, m, v, e)
    BY DEF SizeLine
  <1>2. PICK v \in [0..m -> 0..MaxSize] : SizeLineIs(w, p, q, n, m, v, e)
    BY <1>1
  <1>3. /\ m > 0 /\ v[m] = n /\ q = p + m + e + 2 /\ q <= Len(w)
        /\ w[p + m + e + 1] = "cr" /\ w[p + m + e + 2] = "lf"
    BY <1>2 DEF SizeLineIs
  <1>4. n \in 0..MaxSize /\ n \in Nat
    BY <1>3, DecoderAssumption
  <1>5. \A k \in 0..m : AtDigit(at[p + k], v[k], k, o)
    BY <1>2, DigitsRead
  <1> DEFINE b == p + m
  <1> DEFINE a == b + e
  <1>6. AtDigit(at[b], n, m, o)
    <2>1. m \in 0..m
      OBVIOUS
    <2> QED
      BY <1>3, <1>5, <2>1
  <1>7. InExtension(at[b], n, 0, o)
    BY <1>3, <1>6 DEF AtDigit, InExtension
  <1>8. \A k \in 0..e : InExtension(at[b + k], n, k, o)
    <2>1. b \in Nat /\ b + e + 2 <= Len(w)
      BY <1>3
    <2>2. /\ (e > 0 => w[b + 1] = "semi")
          /\ \A i \in 1..e : w[b + i] # "lf"
      BY <1>2, Zenon DEF SizeLineIs
    <2> HIDE DEF b
    <2> QED
      BY <1>7, <2>1, <2>2, ExtensionRead
  <1>9. /\ at[a].dec.phase \in {"Size", "Extension"} /\ at[a].dec.remaining = n
        /\ at[a].dec.digit /\ at[a].count = o
    <2>1. InExtension(at[a], n, e, o)
      <3>1. e \in 0..e
        OBVIOUS
      <3> QED
        BY <1>8, <3>1
    <2> QED
      BY <2>1 DEF InExtension
  <1>10. /\ a \in Nat /\ q = a + 2 /\ a + 1 \in Nat /\ (a + 1) + 1 = a + 2
         /\ a + 1 <= Len(w) /\ a + 2 <= Len(w) /\ w[a + 1] = "cr" /\ w[a + 2] = "lf"
    BY <1>3
  <1> HIDE DEF a
  <1>11. /\ at[a + 1].dec = at[a].dec /\ at[a + 1].count = o /\ at[a].dec \in Decoders
    <2>1. /\ at[a + 1].dec = Feed(at[a].dec, "cr") /\ at[a + 1].count = o
          /\ at[a].dec \in Decoders
      BY <1>9, <1>10, OneByte
    <2>2. Feed(at[a].dec, "cr") = at[a].dec
      BY <1>9 DEF Feed, FeedSize
    <2> QED
      BY <2>1, <2>2
  <1>12. /\ at[a + 2].dec = EndSizeLine(at[a].dec) /\ at[a + 2].count = o
    <2>1. /\ at[a + 2].dec = Feed(at[a].dec, "lf") /\ at[a + 2].count = o
      BY SMTT(30), <1>9, <1>10, <1>11, OneByte
    <2>2. Feed(at[a].dec, "lf") = EndSizeLine(at[a].dec)
      BY <1>9 DEF Feed, FeedSize
    <2> QED
      BY <2>1, <2>2
  <1>13. /\ at[q].count = o /\ at[q].dec.remaining = n
         /\ at[q].dec.phase = IF n = 0 THEN "Trailer" ELSE "Data"
         /\ n = 0 => at[q].dec.empty
    BY <1>9, <1>10, <1>11, <1>12 DEF EndSizeLine, Decoders
  <1>14. ASSUME NEW i \in p..(q - 1) PROVE at[i].dec.phase # "Data"
    <2>1. /\ i \in Nat /\ q \in Nat /\ b \in Nat /\ a = b + e
          /\ i <= b \/ (i > b /\ i <= a) \/ i = a + 1
      BY <1>10 DEF a
    <2>2. CASE i <= b
      <3>1. i - p \in 0..m /\ p + (i - p) = i
        BY <2>1, <2>2
      <3> QED
        BY <1>5, <3>1 DEF AtDigit
    <2>3. CASE i > b /\ i <= a
      <3> HIDE DEF b
      <3>1. i - b \in 0..e /\ b + (i - b) = i
        BY <2>1, <2>3
      <3> QED
        BY <1>8, <3>1 DEF InExtension
    <2>4. CASE i = a + 1
      BY <1>9, <1>11, <2>4
    <2> QED
      BY <2>1, <2>2, <2>3, <2>4
  <1>15. q \in Nat /\ p < q /\ w[q] = "lf"
    <2>1. q \in Nat /\ p < q
      BY <1>10 DEF a
    <2> QED
      BY <1>10, <2>1
  <1> QED
    BY <1>3, <1>4, <1>13, <1>14, <1>15 DEF AfterSize
(* After k bytes of a chunk from place i on.                               *)
InChunk(at, i, k) ==
    /\ at[i + k].dec = ConsumeData(at[i].dec, k)
    /\ at[i + k].count = at[i].count + k
    /\ k > 0 => at[i + (k - 1)].dec.phase = "Data"

(* TraceBlock, for each block of what is expected.                         *)
LEMMA BlocksOfChunk ==
    ASSUME NEW w, Len(w) \in Nat, NEW at, Follows(w, at),
           NEW i \in 0..Len(w), at[i].dec.phase = "Data",
           NEW n \in Nat, i + n <= Len(w), n = at[i].dec.remaining
    PROVE  \A k \in 0..n : InChunk(at, i, k)
  <1>1. ASSUME NEW k \in 0..n PROVE InChunk(at, i, k)
    <2>1. k \in Nat /\ i + k <= Len(w) /\ k <= at[i].dec.remaining
      BY <1>1
    <2> QED
      BY <2>1, TraceBlock DEF InChunk
  <1> QED
    BY <1>1

(* What is counted as payload up to place q is what the body holds.        *)
CountsRight(w, b, at, from, q) ==
    \A i \in (from + 1)..q : at[i - 1].dec.phase = "Data" => b[at[i].count] = w[i]

(* A chunk: its bytes are counted, and the next one is expected.           *)
LEMMA OneChunk ==
    ASSUME NEW w, Len(w) \in Nat, NEW at, Follows(w, at), NEW b,
           NEW p \in Nat, NEW s, NEW q, NEW o \in Nat, NEW n,
           ChunkIs(w, b, p, s, q, o, n), AtChunk(at[p], o)
    PROVE  /\ q \in Nat /\ p < q /\ q <= Len(w) /\ n \in Nat
           /\ AtChunk(at[q], o + n) /\ CountsRight(w, b, at, p, q)
  <1>1. /\ SizeLine(w, p, s, n) /\ n > 0 /\ q = s + n + 2 /\ q <= Len(w)
        /\ \A j \in 1..n : w[s + j] = b[o + j]
        /\ w[s + n + 1] = "cr" /\ w[s + n + 2] = "lf"
    BY DEF ChunkIs
  <1>2. /\ s \in Nat /\ p < s /\ s <= Len(w) /\ n \in Nat
        /\ \A i \in p..(s - 1) : at[i].dec.phase # "Data"
        /\ at[s].count = o /\ at[s].dec.remaining = n
        /\ at[s].dec.phase = IF n = 0 THEN "Trailer" ELSE "Data"
    <2>1. SizeLine(w, p, s, n)
      BY <1>1
    <2>2. AfterSize(w, at, p, s, n, o)
      BY <2>1, SizeRead, Zenon
    <2> QED
      BY <2>2 DEF AfterSize
  <1>3. /\ at[s].dec.phase = "Data" /\ s \in 0..Len(w)
        /\ at[s].dec \in Decoders
    <2>1. n # 0 /\ s \in 0..Len(w)
      BY <1>1, <1>2
    <2> QED
      BY <1>2, <2>1 DEF Follows, Sane
  <1>4. \A j \in 0..n : InChunk(at, s, j)
    <2>1. s + n <= Len(w)
      BY <1>1, <1>2
    <2> QED
      BY <1>2, <1>3, <2>1, BlocksOfChunk
  <1> DEFINE x == s + n
  <1>5. /\ at[x].dec = ConsumeData(at[s].dec, n) /\ at[x].count = o + n
    <2>1. n \in 0..n
      BY <1>2
    <2>2. InChunk(at, s, n)
      BY <1>4, <2>1
    <2> QED
      BY <1>2, <2>2 DEF InChunk
  <1>6. at[x].dec.phase = "DataEnd"
    <2>1. ~(n < at[s].dec.remaining)
      BY <1>2
    <2> QED
      BY <1>3, <1>5, <2>1 DEF ConsumeData, Decoders
  <1>7. /\ x \in Nat /\ q = x + 2 /\ x + 1 \in Nat /\ (x + 1) + 1 = x + 2
        /\ x + 1 <= Len(w) /\ x + 2 <= Len(w) /\ w[x + 1] = "cr" /\ w[x + 2] = "lf"
    BY <1>1, <1>2
  <1> HIDE DEF x
  <1>8. at[x + 1].dec.phase = "DataEnd" /\ at[x + 1].count = o + n
    <2>1. /\ at[x + 1].dec = Feed(at[x].dec, "cr") /\ at[x + 1].count = at[x].count
      BY <1>6, <1>7, OneByte
    <2>2. Feed(at[x].dec, "cr") = at[x].dec
      BY <1>6 DEF Feed, FeedDataEnd
    <2> QED
      BY <1>5, <1>6, <2>1, <2>2
  <1>9. AtChunk(at[x + 2], o + n)
    <2>1. /\ at[x + 2].dec = Feed(at[x + 1].dec, "lf") /\ at[x + 2].count = at[x + 1].count
          /\ at[x + 1].dec \in Decoders
      BY <1>7, <1>8, OneByte
    <2>2. /\ Feed(at[x + 1].dec, "lf").phase = "Size" /\ ~Feed(at[x + 1].dec, "lf").digit
          /\ Feed(at[x + 1].dec, "lf").remaining = 0
      BY <1>8, <2>1 DEF Feed, FeedDataEnd, Decoders
    <2> QED
      BY <1>8, <2>1, <2>2 DEF AtChunk
  <1>10. ASSUME NEW i \in (p + 1)..q, at[i - 1].dec.phase = "Data"
         PROVE  b[at[i].count] = w[i]
    <2>1. /\ i \in Nat /\ i - 1 \in Nat /\ q \in Nat /\ x = s + n
          /\ i <= s \/ (s < i /\ i <= x) \/ i = x + 1 \/ i = x + 2
      BY <1>2, <1>7 DEF x
    <2>2. CASE i <= s
      <3>1. i - 1 \in p..(s - 1)
        BY <1>2, <2>1, <2>2
      <3> QED
        BY <1>2, <1>10, <3>1
    <2>3. CASE s < i /\ i <= x
      <3>1. i - s \in 1..n /\ i - s \in 0..n /\ s + (i - s) = i
        BY <1>2, <2>1, <2>3
      <3>2. at[i].count = o + (i - s)
        BY <1>2, <1>4, <3>1 DEF InChunk
      <3>3. w[i] = b[o + (i - s)]
        BY <1>1, <3>1
      <3> QED
        BY <3>2, <3>3
    <2>4. CASE i = x + 1 \/ i = x + 2
      <3>1. i - 1 = x \/ i - 1 = x + 1
        BY <1>7, <2>4
      <3> QED
        BY <1>6, <1>8, <1>10, <3>1
    <2> QED
      BY <2>1, <2>2, <2>3, <2>4
  <1>11. CountsRight(w, b, at, p, q)
    BY <1>10 DEF CountsRight
  <1>12. q \in Nat /\ p < q
    BY <1>2, <1>7 DEF x
  <1> QED
    BY <1>1, <1>2, <1>7, <1>9, <1>11, <1>12

(* All the chunks, one after another.                                      *)
LEMMA AllChunks ==
    ASSUME NEW w, Len(w) \in Nat, NEW at, Follows(w, at), NEW b, NEW num \in Nat,
           NEW p \in [0..num -> Nat], NEW o \in [0..num -> Nat], p[0] = 0, o[0] = 0,
           \A i \in 1..num : \E s, n \in Nat :
               ChunkIs(w, b, p[i - 1], s, p[i], o[i - 1], n) /\ o[i] = o[i - 1] + n
    PROVE  p[num] <= Len(w) /\ AtChunk(at[p[num]], o[num]) /\ CountsRight(w, b, at, 0, p[num])
  <1> DEFINE Read(i) == /\ p[i] <= Len(w) /\ AtChunk(at[p[i]], o[i])
                        /\ CountsRight(w, b, at, 0, p[i])
  <1> DEFINE T == {i \in Nat : i <= num => Read(i)}
  <1>1. 0 \in T
    <2>1. at[0] = [dec |-> Fresh, count |-> 0]
      BY DEF Follows
    <2>2. AtChunk(at[0], 0)
      BY <2>1 DEF AtChunk, Fresh
    <2>3. CountsRight(w, b, at, 0, 0)
      BY DEF CountsRight
    <2> QED
      BY <2>2, <2>3
  <1>2. ASSUME NEW i \in T PROVE i + 1 \in T
    <2> SUFFICES ASSUME i + 1 <= num PROVE Read(i + 1)
      OBVIOUS
    <2>1. i \in Nat /\ i <= num
      OBVIOUS
    <2>2. Read(i)
      BY <2>1
    <2> HIDE DEF T
    <2> DEFINE pi == p[i]
    <2> DEFINE qi == p[i + 1]
    <2> DEFINE oi == o[i]
    <2>3. /\ i + 1 \in 1..num /\ (i + 1) - 1 = i /\ pi \in Nat /\ oi \in Nat
      BY <2>1
    <2>4. PICK s, n \in Nat : ChunkIs(w, b, pi, s, qi, oi, n) /\ o[i + 1] = oi + n
      BY <2>3
    <2>5. pi <= Len(w) /\ AtChunk(at[pi], oi) /\ CountsRight(w, b, at, 0, pi)
      BY <2>2
    <2> HIDE DEF pi, qi, oi, Read
    <2>6. /\ qi \in Nat /\ pi < qi /\ qi <= Len(w)
          /\ AtChunk(at[qi], oi + n) /\ CountsRight(w, b, at, pi, qi)
      BY <2>3, <2>4, <2>5, OneChunk
    <2>7. CountsRight(w, b, at, 0, qi)
      <3>1. \A j \in (0 + 1)..qi : j \in (0 + 1)..pi \/ j \in (pi + 1)..qi
        BY <2>3, <2>6
      <3> QED
        BY <2>5, <2>6, <3>1 DEF CountsRight
    <2> QED
      BY <2>4, <2>6, <2>7 DEF Read, qi
  <1> HIDE DEF T, Read
  <1>3. T = Nat
    BY <1>1, <1>2, Induct DEF T
  <1>4. Read(num)
    <2>1. num \in T /\ num <= num
      BY <1>3
    <2> QED
      BY <2>1 DEF T
  <1> QED
    BY <1>4 DEF Read
(* Within the trailer, after place s: whether its last line is empty so    *)
(* far.                                                                    *)
InTrailer(w, at, s, i, o) ==
    /\ at[i].dec.phase = "Trailer" /\ at[i].count = o
    /\ w[i] = "lf" => at[i].dec.empty
    /\ w[i] \notin {"cr", "lf"} => ~at[i].dec.empty
    /\ w[i] = "cr" /\ i > s => /\ w[i - 1] = "lf" => at[i].dec.empty
                               /\ w[i - 1] \notin {"cr", "lf"} => ~at[i].dec.empty

(* One byte more of the trailer.                                           *)
LEMMA OneOfTrailer ==
    ASSUME NEW w, Len(w) \in Nat, NEW at, Follows(w, at), NEW o,
           NEW s \in Nat, NEW i \in Nat, s <= i, i + 1 <= Len(w),
           InTrailer(w, at, s, i, o),
           w[i + 1] = "lf" => i > s /\ w[i] = "cr" /\ w[i - 1] \notin {"cr", "lf"}
    PROVE  InTrailer(w, at, s, i + 1, o)
  <1> DEFINE d == at[i].dec
  <1> DEFINE c == w[i + 1]
  <1> DEFINE x == at[i + 1]
  <1>1. /\ d.phase = "Trailer" /\ at[i].count = o
        /\ w[i] = "lf" => d.empty
        /\ w[i] \notin {"cr", "lf"} => ~d.empty
        /\ c = "lf" => ~d.empty
    BY DEF InTrailer
  <1>2. x.dec = Feed(d, c) /\ x.count = o /\ d \in Decoders
    <2>1. at[i].dec.phase # "Data" /\ at[i].count = o
      BY DEF InTrailer
    <2> HIDE DEF d, c, x
    <2>2. /\ at[i + 1].dec = Feed(at[i].dec, w[i + 1]) /\ at[i + 1].count = at[i].count
          /\ at[i].dec \in Decoders
      BY <2>1, OneByte
    <2> QED
      BY <2>1, <2>2 DEF d, c, x
  <1>3. i + 1 > s /\ (i + 1) - 1 = i
    OBVIOUS
  <1> HIDE DEF d, c, x
  <1>4. /\ x.dec.phase = "Trailer"
        /\ c = "lf" => x.dec.empty
        /\ c \notin {"cr", "lf"} => ~x.dec.empty
        /\ c = "cr" => x.dec = d
    BY <1>1, <1>2 DEF Feed, FeedTrailer, Decoders
  <1> QED
    BY <1>1, <1>2, <1>3, <1>4 DEF InTrailer, c, x

(* After all of it the body has ended.                                     *)
AfterTrailer(at, s, e, o) ==
    /\ at[e].dec.phase = "Done" /\ at[e].count = o
    /\ \A i \in s..(e - 1) : at[i].dec.phase = "Trailer"

(* The trailer, to the empty line that ends it.                            *)
LEMMA TrailerRead ==
    ASSUME NEW w, Len(w) \in Nat, NEW at, Follows(w, at), NEW o,
           NEW s \in Nat, NEW e \in Nat, s + 2 <= e, e <= Len(w),
           w[s] = "lf", at[s].dec.phase = "Trailer", at[s].dec.empty, at[s].count = o,
           TrailerIs(w, s, e)
    PROVE  AfterTrailer(at, s, e, o)
  <1>0. /\ w[e] = "lf" /\ w[e - 1] = "cr" /\ w[e - 2] = "lf"
        /\ \A f \in (s + 1)..(e - 1) :
              w[f] = "lf" => /\ f - 2 > s /\ w[f - 1] = "cr"
                             /\ w[f - 2] \notin {"cr", "lf"}
    BY DEF TrailerIs
  <1> DEFINE T == {k \in Nat : s + k <= e - 1 => InTrailer(w, at, s, s + k, o)}
  <1>1. 0 \in T
    <2>1. s + 0 = s /\ ~(s > s)
      OBVIOUS
    <2>2. InTrailer(w, at, s, s, o)
      BY <2>1 DEF InTrailer
    <2> QED
      BY <2>1, <2>2
  <1>2. ASSUME NEW k \in T PROVE k + 1 \in T
    <2> SUFFICES ASSUME s + (k + 1) <= e - 1 PROVE InTrailer(w, at, s, s + (k + 1), o)
      OBVIOUS
    <2>1. k \in Nat /\ s + k <= e - 1
      OBVIOUS
    <2>2. InTrailer(w, at, s, s + k, o)
      BY <2>1
    <2> HIDE DEF T
    <2> DEFINE i == s + k
    <2>3. /\ i \in Nat /\ s <= i /\ i + 1 <= Len(w) /\ s + (k + 1) = i + 1
          /\ i + 1 \in (s + 1)..(e - 1) /\ (i + 1) - 1 = i /\ (i + 1) - 2 = i - 1
          /\ (i + 1) - 2 > s => i > s
      BY <2>1
    <2>4. InTrailer(w, at, s, i, o)
      BY <2>2
    <2> HIDE DEF i
    <2>5. w[i + 1] = "lf" => i > s /\ w[i] = "cr" /\ w[i - 1] \notin {"cr", "lf"}
      BY <1>0, <2>3
    <2>6. InTrailer(w, at, s, i + 1, o)
      BY <2>3, <2>4, <2>5, OneOfTrailer
    <2> QED
      BY <2>3, <2>6
  <1> HIDE DEF T
  <1>3. T = Nat
    BY <1>1, <1>2, Induct DEF T
  <1>4. ASSUME NEW i \in s..(e - 1) PROVE InTrailer(w, at, s, i, o)
    <2>1. i - s \in T /\ s + (i - s) = i /\ i <= e - 1
      BY <1>3
    <2> QED
      BY <2>1 DEF T
  <1> DEFINE x == e - 1
  <1>5. /\ x \in s..(e - 1) /\ x \in Nat /\ x + 1 <= Len(w) /\ x + 1 = e /\ x > s
        /\ x - 1 = e - 2
    OBVIOUS
  <1>6. InTrailer(w, at, s, x, o)
    BY <1>4, <1>5
  <1>7. w[x] = "cr" /\ w[x - 1] = "lf" /\ w[x + 1] = "lf"
    BY <1>0, <1>5
  <1> HIDE DEF x
  <1>8. /\ at[x].dec.phase = "Trailer" /\ at[x].dec.empty /\ at[x].count = o
    BY <1>5, <1>6, <1>7 DEF InTrailer
  <1>9. /\ at[x + 1].dec = Feed(at[x].dec, "lf") /\ at[x + 1].count = o
        /\ at[x].dec \in Decoders
    <2>1. at[x].dec.phase # "Data"
      BY <1>8
    <2>2. /\ at[x + 1].dec = Feed(at[x].dec, w[x + 1]) /\ at[x + 1].count = at[x].count
          /\ at[x].dec \in Decoders
      BY <1>5, <2>1, OneByte
    <2> QED
      BY <1>7, <1>8, <2>2
  <1>10. at[x + 1].dec.phase = "Done"
    BY <1>8, <1>9 DEF Feed, FeedTrailer, Decoders
  <1>11. \A i \in s..(e - 1) : at[i].dec.phase = "Trailer"
    BY <1>4 DEF InTrailer
  <1> QED
    BY <1>5, <1>9, <1>10, <1>11 DEF AfterTrailer

(* A body encoded in chunks is what the decoder makes of its encoding.     *)
LEMMA EncodingRead ==
    ASSUME NEW w, Len(w) \in Nat, NEW at, Follows(w, at), NEW b, Encodes(w, b)
    PROVE  /\ Len(b) = at[Len(w)].count /\ at[Len(w)].dec.phase = "Done"
           /\ CountsRight(w, b, at, 0, Len(w))
  <1>1. PICK num \in Nat : \E p, o \in [0..num -> Nat] :
           /\ p[0] = 0 /\ o[0] = 0 /\ o[num] = Len(b)
           /\ \A i \in 1..num : \E s, n \in Nat :
                 ChunkIs(w, b, p[i - 1], s, p[i], o[i - 1], n) /\ o[i] = o[i - 1] + n
           /\ \E s, e \in Nat : LastIs(w, p[num], s, e)
    BY DEF Encodes
  <1>2. PICK p, o \in [0..num -> Nat] :
           /\ p[0] = 0 /\ o[0] = 0 /\ o[num] = Len(b)
           /\ \A i \in 1..num : \E s, n \in Nat :
                 ChunkIs(w, b, p[i - 1], s, p[i], o[i - 1], n) /\ o[i] = o[i - 1] + n
           /\ \E s, e \in Nat : LastIs(w, p[num], s, e)
    BY <1>1
  <1> DEFINE q == p[num]
  <1>3. q <= Len(w) /\ AtChunk(at[q], Len(b)) /\ CountsRight(w, b, at, 0, q)
    <2>1. /\ p[num] <= Len(w) /\ AtChunk(at[p[num]], o[num])
          /\ CountsRight(w, b, at, 0, p[num])
      BY <1>2, AllChunks
    <2> QED
      BY <1>2, <2>1
  <1>4. q \in Nat
    <2>1. num \in 0..num
      OBVIOUS
    <2> QED
      BY <2>1
  <1>5. PICK s, e \in Nat : LastIs(w, q, s, e)
    BY <1>2
  <1> HIDE DEF q
  <1>6. SizeLine(w, q, s, 0) /\ e \in (s + 2)..Len(w) /\ TrailerIs(w, s, e)
    BY <1>5 DEF LastIs
  <1>7. AfterSize(w, at, q, s, 0, Len(b))
    BY <1>3, <1>4, <1>6, SizeRead, Zenon
  <1>8. /\ q < s /\ s <= Len(w) /\ w[s] = "lf"
        /\ \A i \in q..(s - 1) : at[i].dec.phase # "Data"
        /\ at[s].count = Len(b) /\ at[s].dec.phase = "Trailer" /\ at[s].dec.empty
    BY <1>7 DEF AfterSize
  <1>9. s + 2 <= e /\ e <= Len(w)
    BY <1>6
  <1>10. /\ at[e].dec.phase = "Done" /\ at[e].count = Len(b)
         /\ \A i \in s..(e - 1) : at[i].dec.phase = "Trailer"
    <2>1. AfterTrailer(at, s, e, Len(b))
      BY <1>6, <1>8, <1>9, TrailerRead, Zenon
    <2> QED
      BY <2>1 DEF AfterTrailer
  <1>11. ASSUME NEW j \in 0..Len(w), e <= j
         PROVE  at[j].dec.phase = "Done" /\ at[j].count = Len(b)
    <2>1. e \in 0..Len(w)
      BY <1>9
    <2>2. at[e].dec.phase = "Done" => /\ at[j].dec.phase = "Done"
                                      /\ at[j].count = at[e].count
      BY <1>11, <2>1, TraceGoesOn
    <2> QED
      BY <1>10, <2>2
  <1>12. ASSUME NEW i \in (0 + 1)..Len(w), at[i - 1].dec.phase = "Data"
         PROVE  b[at[i].count] = w[i]
    <2>1. /\ i \in Nat /\ i - 1 \in 0..Len(w)
          /\ i <= q \/ (q < i /\ i <= s) \/ (s < i /\ i <= e) \/ e <= i - 1
      BY <1>4, <1>9
    <2>2. CASE i <= q
      <3>1. i \in (0 + 1)..q
        BY <1>4, <2>1, <2>2
      <3> QED
        BY <1>3, <1>12, <3>1 DEF CountsRight
    <2>3. CASE q < i /\ i <= s
      <3>1. i - 1 \in q..(s - 1)
        BY <1>4, <2>1, <2>3
      <3> QED
        BY <1>8, <1>12, <3>1
    <2>4. CASE s < i /\ i <= e
      <3>1. i - 1 \in s..(e - 1)
        BY <2>1, <2>4
      <3> QED
        BY <1>10, <1>12, <3>1
    <2>5. CASE e <= i - 1
      BY <1>11, <1>12, <2>1, <2>5
    <2> QED
      BY <2>1, <2>2, <2>3, <2>4, <2>5
  <1>13. CountsRight(w, b, at, 0, Len(w))
    BY <1>12 DEF CountsRight
  <1>14. Len(w) \in 0..Len(w)
    OBVIOUS
  <1> QED
    BY <1>9, <1>11, <1>13, <1>14

(* The decoder reads every body in chunks that HTTP can write: any number  *)
(* of chunks of any size that fits, with extensions, with a trailer, and   *)
(* whatever follows; so such a reply is what it is meant to be.            *)
THEOREM ChunksAreRead ==
    ASSUME NEW r \in Replies, InChunks(r), Encodes(r.wire, r.body), r.sound
    PROVE  IsMeant(r)
  <1>1. Len(r.wire) \in Nat
    BY ReplyFact
  <1> DEFINE at == Trace(r.wire)
  <1>2. Follows(r.wire, at)
    BY <1>1, TraceFact
  <1> HIDE DEF at
  <1>3. /\ Len(r.body) = at[Len(r.wire)].count /\ at[Len(r.wire)].dec.phase = "Done"
        /\ CountsRight(r.wire, r.body, at, 0, Len(r.wire))
    BY <1>1, <1>2, EncodingRead
  <1>4. \A i \in 1..Len(r.wire) :
           at[i - 1].dec.phase = "Data" => r.body[at[i].count] = r.wire[i]
    <2>1. 0 + 1 = 1
      OBVIOUS
    <2> QED
      BY <1>3, <2>1 DEF CountsRight
  <1>5. r.sound <=> at[Len(r.wire)].dec.phase = "Done"
    BY <1>3
  <1> QED
    BY <1>3, <1>4, <1>5 DEF IsMeant, InChunksIs, at

(* A reply HTTP allows: a whole encoding in chunks, or as many bytes as it *)
(* declares and maybe fewer.                                               *)
Allowed(r) == IF InChunks(r) THEN Encodes(r.wire, r.body) /\ r.sound
                             ELSE WholeIs(r)

(* To a server that keeps to HTTP, and whose headers were understood, both *)
(* promises are kept, and what they say of its replies does not mention    *)
(* the decoder: nothing but the body is handed over, and the end of the    *)
(* file is the end of the body.                                            *)
THEOREM ServedByHttp ==
    ASSUME \A r \in Replies : Allowed(r)
    PROVE  Spec => [](BodyIsWhatWasSent /\ EofMeansWhole)
  <1>1. ASSUME NEW r \in Replies PROVE IsMeant(r)
    <2>1. CASE InChunks(r)
      BY <2>1, ChunksAreRead DEF Allowed
    <2>2. CASE ~InChunks(r)
      BY <2>2 DEF Allowed, IsMeant
    <2> QED
      BY <2>1, <2>2
  <1>2. Spec => []BodyIsWhatWasSent
    BY <1>1, BodyHanded
  <1>3. Spec => []EofMeansWhole
    BY <1>1, EofWhole
  <1> QED
    BY <1>2, <1>3, PTL
=============================================================================
