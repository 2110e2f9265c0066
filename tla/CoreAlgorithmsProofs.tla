------------------------ MODULE CoreAlgorithmsProofs ------------------------
(***************************************************************************)
(* Proofs about CoreAlgorithms: the waits last as long as they should, for *)
(* every table of delays and every width of the counter; the dates are the *)
(* calendar's, for every day; and versions compare as numbers do, whatever *)
(* their length.  The last is by induction on the length.                  *)
(***************************************************************************)
EXTENDS CoreAlgorithms, WellFoundedInduction, TLAPS

-----------------------------------------------------------------------------
(* Time on a counter that wraps.                                           *)

Clock == 0..(Wrap - 1)

(* The counter has values.                                                 *)
LEMMA WrapFact == Wrap \in Int /\ Wrap > 0
  BY TimersAssumption

(* The remainder of what is less than a round off.                         *)
LEMMA Remainder ==
    ASSUME NEW w \in Int, w > 0, NEW r \in 0..(w - 1)
    PROVE  r % w = r /\ (r + w) % w = r /\ (r - w) % w = r
  <1>1. r % w = r
    OBVIOUS
  <1>2. (r + w) % w = r
    OBVIOUS
  <1>3. (r - w) % w = r
    OBVIOUS
  <1> QED
    BY <1>1, <1>2, <1>3

(* Adding less than a round.                                               *)
LEMMA Around ==
    ASSUME NEW t \in Clock, NEW d \in Clock
    PROVE  /\ (t + d) % Wrap \in Clock
           /\ (t + d) % Wrap = IF t + d < Wrap THEN t + d ELSE t + d - Wrap
  <1>1. CASE t + d < Wrap
    <2>1. t + d \in 0..(Wrap - 1)
      BY <1>1, WrapFact DEF Clock
    <2> QED
      BY <1>1, <2>1, WrapFact, Remainder DEF Clock
  <1>2. CASE t + d >= Wrap
    <2>1. PICK r \in 0..(Wrap - 1) : t + d = r + Wrap
      <3>1. t + d - Wrap \in 0..(Wrap - 1) /\ t + d = (t + d - Wrap) + Wrap
        BY <1>2, WrapFact DEF Clock
      <3> QED
        BY <3>1
    <2>2. (t + d) % Wrap = r
      BY <2>1, WrapFact, Remainder
    <2> QED
      BY <1>2, <2>1, <2>2, WrapFact DEF Clock
  <1> QED
    BY <1>1, <1>2, WrapFact DEF Clock

(* The difference of two moments is the time between them.                 *)
LEMMA Between ==
    ASSUME NEW t \in Clock, NEW d \in Clock
    PROVE  (((t + d) % Wrap) - t) % Wrap = d
  <1>1. ((t + d) % Wrap) - t = d \/ ((t + d) % Wrap) - t = d - Wrap
    BY Around, WrapFact DEF Clock
  <1> QED
    BY <1>1, WrapFact, Remainder DEF Clock

(* One tick later.                                                         *)
LEMMA TickFact ==
    ASSUME NEW t \in Clock, NEW d \in Nat, d + 1 < Wrap
    PROVE  (((t + d) % Wrap) + 1) % Wrap = (t + (d + 1)) % Wrap
  <1>1. d \in Clock /\ d + 1 \in Clock /\ 1 \in Clock
    BY WrapFact DEF Clock
  <1>2. PICK s \in Clock : s = (t + d) % Wrap
    BY <1>1, Around
  <1>3. s = IF t + d < Wrap THEN t + d ELSE t + d - Wrap
    BY <1>1, <1>2, Around
  <1>4. (t + (d + 1)) % Wrap =
            IF t + (d + 1) < Wrap THEN t + (d + 1) ELSE t + (d + 1) - Wrap
    BY <1>1, Around
  <1>5. (s + 1) % Wrap = IF s + 1 < Wrap THEN s + 1 ELSE s + 1 - Wrap
    BY <1>1, Around
  <1> QED
    BY <1>2, <1>3, <1>4, <1>5, WrapFact DEF Clock

(* What core/Backoff varies a delay by.                                    *)
LEMMA SpanFact ==
    ASSUME NEW i \in 1..Len(Steps)
    PROVE  Steps[i] \in Nat /\ (Steps[i] \div Parts) * Percent \in Nat
  <1>1. Steps[i] \in Nat /\ Parts \in Nat \ {0} /\ Percent \in Nat
    BY TimersAssumption
  <1>2. ASSUME NEW a \in Nat, NEW b \in Nat \ {0} PROVE a \div b \in Nat
    BY <1>2
  <1>3. ASSUME NEW a \in Nat, NEW b \in Nat PROVE a * b \in Nat
    BY <1>3
  <1> QED
    BY <1>1, <1>2, <1>3

(* A request, and a pause between passes, are shorter than a round.        *)
LEMMA BoundsFact ==
    MaxBlock \in Nat /\ MaxGap \in Nat /\ MaxBlock + MaxGap < Wrap
  <1>1. 1 \in 1..Len(Steps)
    BY TimersAssumption
  <1> DEFINE span == (Steps[1] \div Parts) * Percent
  <1>2. Steps[1] + span + MaxBlock + MaxGap < Wrap
    BY <1>1, LongestWait
  <1>3. Steps[1] \in Nat /\ span \in Nat
    BY <1>1, SpanFact
  <1>4. MaxBlock \in Nat /\ MaxGap \in Nat
    BY TimersAssumption
  <1> HIDE DEF span
  <1> QED
    BY <1>2, <1>3, <1>4, WrapFact

(* The delays a table allows.  Only core/Backoff varies them.              *)
LEMMA DelayFact ==
    ASSUME NEW n \in 0..Len(Steps), NEW d \in Delays(StepOf(n))
    PROVE  /\ d \in Int
           /\ rule = "backoff" => d + MaxBlock + MaxGap < Wrap
           /\ rule # "backoff" => d \in Clock
  <1>1. PICK i \in 1..Len(Steps) : StepOf(n) = Steps[i]
    BY TimersAssumption DEF StepOf
  <1> DEFINE span == (Steps[i] \div Parts) * Percent
  <1>2. Steps[i] \in Nat /\ span \in Nat
    BY SpanFact
  <1>3. Steps[i] + span + MaxBlock + MaxGap < Wrap
    BY LongestWait
  <1>4. d \in (Steps[i] - (IF rule = "backoff" THEN span ELSE 0))
                ..(Steps[i] + (IF rule = "backoff" THEN span ELSE 0))
    BY <1>1 DEF Delays
  <1> HIDE DEF span
  <1> QED
    BY <1>2, <1>3, <1>4, BoundsFact, WrapFact DEF Clock

-----------------------------------------------------------------------------
(* The waits.                                                              *)

(* The invariant of the waits holds at the start.                          *)
LEMMA TimersInitHolds ==
    ASSUME TimersInit
    PROVE  TimersInv
  <1>1. /\ 0 \in Clock /\ 0 \in Int /\ 0 \in 0..Len(Steps) /\ 0 \in Nat
        /\ 0 \in 0..MaxGap /\ 0 \in 0..MaxBlock
    <2>1. Len(Steps) \in Nat
      BY TimersAssumption
    <2> QED
      BY <2>1, WrapFact, BoundsFact DEF Clock
  <1>2. TimersTypeOK
    BY <1>1 DEF TimersInit, TimersTypeOK, Clock
  <1> QED
    BY <1>2 DEF TimersInit, TimersInv, PassInv, ElapsedInv, DeadlineInv

(* Time passes by less than the counter's round, so what has elapsed is    *)
(* known.                                                                  *)
LEMMA TickKeeps ==
    ASSUME TimersInv, Tick
    PROVE  TimersInv'
  <1>1. /\ UNCHANGED <<rule, now, pc, up, attempts, armed, from, until, delay>>
        /\ ms' = (ms + 1) % Wrap
        /\ waited' = IF armed /\ pc = "loop" /\ waited < Wrap THEN waited + 1 ELSE waited
        /\ crossed' = (crossed \/ (armed /\ ms' = 0))
    BY DEF Tick
  <1>a. TimersTypeOK /\ PassInv /\ ElapsedInv /\ DeadlineInv
    BY DEF TimersInv
  <1>2. \/ pc = "loop" /\ gap < MaxGap /\ gap' = gap + 1 /\ busy' = busy
        \/ pc = "request" /\ busy < MaxBlock /\ busy' = busy + 1 /\ gap' = gap
    BY DEF Tick
  <1>3. gap' \in 0..MaxGap /\ busy' \in 0..MaxBlock
    BY <1>a, <1>2, TimersAssumption DEF TimersTypeOK
  <1>4. ms' \in Clock /\ (ms + 1 < Wrap => ms' = ms + 1) /\ (ms + 1 = Wrap => ms' = 0)
    BY SMTT(30), <1>a, <1>1, TimersAssumption DEF TimersTypeOK, Clock
  <1>5. TimersTypeOK'
    BY <1>a, <1>1, <1>3, <1>4 DEF TimersTypeOK, Clock
  <1>6. PassInv'
    <2>1. CASE pc = "loop"
      BY <1>a, <1>1, <2>1 DEF PassInv
    <2>2. CASE pc = "request"
      <3>1. busy + 1 < Wrap /\ busy \in Nat /\ now \in Clock
        BY <1>2, <1>a, <2>2, BoundsFact, WrapFact DEF TimersTypeOK, Clock
      <3>2. (((now + busy) % Wrap) + 1) % Wrap = (now + (busy + 1)) % Wrap
        BY <3>1, TickFact
      <3> QED
        BY <1>a, <1>1, <1>2, <2>2, <3>2 DEF PassInv
    <2> QED
      BY <1>2, <2>1, <2>2
  <1>7. ElapsedInv'
    <2> SUFFICES ASSUME armed, pc = "loop", rule = "backoff"
                 PROVE  /\ ms' = (from + waited' + busy) % Wrap
                        /\ waited' <= gap' \/ waited' + busy < delay + gap'
                        /\ delay + MaxBlock + MaxGap < Wrap
      BY <1>1, <1>2 DEF ElapsedInv
    <2>1. /\ ms = (from + waited + busy) % Wrap
          /\ waited <= gap \/ waited + busy < delay + gap
          /\ delay + MaxBlock + MaxGap < Wrap
      BY <1>a DEF ElapsedInv
    <2>2. /\ from \in Clock /\ waited \in Nat /\ busy \in 0..MaxBlock
          /\ gap \in Nat /\ gap < MaxGap /\ gap' = gap + 1 /\ delay \in Int
      BY <1>a, <1>2, BoundsFact DEF TimersTypeOK, Clock
    <2>3. waited + busy + 1 < Wrap /\ waited < Wrap
      BY <2>1, <2>2, BoundsFact, WrapFact
    <2>4. waited' = waited + 1
      BY <1>1, <2>3
    <2>5. PICK d \in Nat : d = waited + busy
      BY <2>2, BoundsFact
    <2>6. (((from + d) % Wrap) + 1) % Wrap = (from + (d + 1)) % Wrap
      BY <2>2, <2>3, <2>5, TickFact
    <2>7. /\ from + waited + busy = from + d
          /\ from + (waited + 1) + busy = from + (d + 1)
      BY <2>2, <2>5, WrapFact, BoundsFact DEF Clock
    <2>8. ms' = (from + waited' + busy) % Wrap
      BY <1>1, <2>1, <2>4, <2>6, <2>7
    <2> QED
      BY <2>1, <2>2, <2>4, <2>8, BoundsFact
  <1>8. DeadlineInv'
    <2> SUFFICES ASSUME armed, pc = "loop", rule # "backoff", ~crossed'
                 PROVE  until >= delay /\ ms' + delay = until + Since'
      BY <1>1, <1>2 DEF DeadlineInv
    <2>1. ~crossed /\ ms' # 0 /\ until >= delay /\ ms + delay = until + Since
      BY <1>a, <1>1 DEF DeadlineInv
    <2>2. ms' = ms + 1
      BY <1>4, <2>1, <1>a, WrapFact DEF TimersTypeOK
    <2>3. /\ ms \in Clock /\ until \in Int /\ delay \in Int /\ waited \in Nat
          /\ busy \in Nat /\ busy' = busy
      BY <1>a, <1>2, BoundsFact DEF TimersTypeOK, Clock
    <2>4. Since \in Int /\ waited <= Since
      BY <2>3 DEF Since
    <2>5. waited < Wrap
      BY <2>1, <2>3, <2>4, WrapFact DEF Clock
    <2>6. waited' = waited + 1
      BY <1>1, <2>5
    <2>7. Since' = Since + 1
      BY <1>1, <2>3, <2>6 DEF Since
    <2> QED
      BY <2>1, <2>2, <2>3, <2>4, <2>7, WrapFact DEF Clock
  <1> QED
    BY <1>5, <1>6, <1>7, <1>8 DEF TimersInv

(* The unsigned subtraction gives the time since the failure.              *)
LEMMA SinceElapsed ==
    ASSUME TimersInv, pc = "pass", armed, rule = "backoff"
    PROVE  Due <=> waited + busy >= delay
  <1>1. /\ from \in Clock /\ waited \in Nat /\ busy \in 0..MaxBlock
        /\ delay \in Int /\ now = ms
    BY DEF TimersInv, TimersTypeOK, PassInv, Clock
  <1>2. /\ ms = (from + waited + busy) % Wrap
        /\ waited <= MaxGap \/ waited + busy < delay + MaxGap
        /\ delay + MaxBlock + MaxGap < Wrap
    BY DEF TimersInv, ElapsedInv
  <1>3. PICK d \in Clock : d = waited + busy
    BY <1>1, <1>2, BoundsFact, WrapFact DEF Clock
  <1>4. from + waited + busy = from + d
    BY <1>1, <1>3, BoundsFact DEF Clock
  <1>5. (now - from) % Wrap = d
    BY <1>1, <1>2, <1>4, Between
  <1> QED
    BY <1>3, <1>5 DEF Due, Elapsed

(* The pass looks at the clock, and is ready by the rule.                  *)
LEMMA PassKeeps ==
    ASSUME TimersInv, Pass
    PROVE  TimersInv'
  <1>a. TimersTypeOK /\ PassInv /\ ElapsedInv /\ DeadlineInv
    BY DEF TimersInv
  <1>1. CASE StartPass
    <2>1. /\ pc = "loop" /\ pc' = "pass" /\ now' = ms /\ gap' = 0
          /\ UNCHANGED <<up, until, rule, ms, attempts, armed, from, delay>>
          /\ UNCHANGED <<busy, waited, crossed>>
      BY <1>1 DEF StartPass, WaitVars
    <2>2. TimersTypeOK' /\ PassInv'
      BY <1>a, <2>1, BoundsFact DEF TimersTypeOK, PassInv
    <2>3. ElapsedInv'
      <3>1. gap \in 0..MaxGap /\ waited \in Nat /\ busy \in Int /\ delay \in Int
        BY <1>a, BoundsFact DEF TimersTypeOK
      <3> QED
        BY <1>a, <2>1, <3>1, BoundsFact DEF ElapsedInv
    <2>4. DeadlineInv'
      BY <1>a, <2>1 DEF DeadlineInv, Since
    <2> QED
      BY <2>2, <2>3, <2>4 DEF TimersInv
  <1>2. CASE Idle
    <2>1. /\ pc = "pass" /\ pc' = "loop" /\ (up \/ ~Due)
          /\ UNCHANGED <<now, gap, up, until, rule, ms, attempts, armed, from, delay>>
          /\ UNCHANGED <<busy, waited, crossed>>
      BY <1>2 DEF Idle, WaitVars
    <2>2. TimersTypeOK' /\ PassInv' /\ DeadlineInv'
      BY <1>a, <2>1 DEF TimersTypeOK, PassInv, DeadlineInv, Since
    <2>3. ElapsedInv'
      <3>1. ASSUME armed, rule = "backoff" PROVE waited + busy < delay
        <4>1. ~Due
          BY <1>a, <2>1, <3>1 DEF PassInv
        <4>2. waited + busy \in Int /\ delay \in Int
          BY <1>a, BoundsFact DEF TimersTypeOK
        <4> QED
          BY <2>1, <3>1, <4>1, <4>2, SinceElapsed
      <3>2. gap \in Nat /\ delay \in Int /\ waited + busy \in Int
        BY <1>a, BoundsFact DEF TimersTypeOK
      <3> QED
        BY <1>a, <2>1, <3>1, <3>2 DEF ElapsedInv
    <2> QED
      BY <2>2, <2>3 DEF TimersInv
  <1>3. CASE Request
    <2>1. /\ pc = "pass" /\ ~up /\ pc' = "request" /\ busy' = 0
          /\ UNCHANGED <<rule, ms, now, up, attempts, armed, from, until, delay, gap>>
          /\ UNCHANGED <<waited, crossed>>
      BY <1>3 DEF Request
    <2>2. TimersTypeOK'
      BY <1>a, <2>1, BoundsFact DEF TimersTypeOK
    <2>3. (now + 0) % Wrap = now
      BY <1>a, WrapFact, Remainder DEF TimersTypeOK
    <2>4. PassInv' /\ ElapsedInv' /\ DeadlineInv'
      BY <1>a, <2>1, <2>3 DEF PassInv, ElapsedInv, DeadlineInv
    <2> QED
      BY <2>2, <2>4 DEF TimersInv
  <1> QED
    BY <1>1, <1>2, <1>3 DEF Pass

(* A failure begins the next wait, at the moment its rule takes for it.    *)
LEMMA FailsKeeps ==
    ASSUME TimersInv, Fails
    PROVE  TimersInv'
  <1>a. TimersTypeOK /\ PassInv /\ ElapsedInv /\ DeadlineInv
    BY DEF TimersInv
  <1> DEFINE start == IF rule = "session" THEN ms ELSE now
  <1>1. /\ pc = "request" /\ pc' = "loop" /\ armed' = TRUE /\ waited' = 0
        /\ delay' \in Delays(StepOf(attempts))
        /\ rule = "backoff" => from' = now /\ until' = until
        /\ rule # "backoff" => until' = (start + delay') % Wrap /\ from' = from
        /\ crossed' \in BOOLEAN
        /\ ~crossed' => ~(start + delay' >= Wrap) /\ ~(ms < now)
        /\ attempts' = IF attempts < Len(Steps) THEN attempts + 1 ELSE attempts
        /\ UNCHANGED <<rule, ms, now, up, gap, busy>>
    BY DEF Fails
  <1>2. /\ ms \in Clock /\ now \in Clock /\ busy \in 0..MaxBlock /\ gap \in 0..MaxGap
        /\ start \in Clock /\ ms = (now + busy) % Wrap
    BY <1>a, <1>1 DEF TimersTypeOK, PassInv, Clock
  <1> HIDE DEF start
  <1>3. /\ delay' \in Int
        /\ rule = "backoff" => delay' + MaxBlock + MaxGap < Wrap
        /\ rule # "backoff" => delay' \in Clock
    <2>1. attempts \in 0..Len(Steps)
      BY <1>a DEF TimersTypeOK
    <2> QED
      BY <1>1, <2>1, DelayFact
  <1>4. until' \in Clock /\ from' \in Clock
    <2>1. until \in Clock /\ from \in Clock
      BY <1>a DEF TimersTypeOK, Clock
    <2>2. rule # "backoff" => (start + delay') % Wrap \in Clock
      BY <1>2, <1>3, Around
    <2> QED
      BY <1>1, <1>2, <2>1, <2>2
  <1>5. TimersTypeOK'
    <2>1. attempts' \in 0..Len(Steps)
      BY <1>a, <1>1, TimersAssumption DEF TimersTypeOK
    <2>2. crossed' \in BOOLEAN /\ armed' \in BOOLEAN /\ waited' \in Nat
      BY <1>1
    <2> QED
      BY <1>a, <1>1, <1>3, <1>4, <2>1, <2>2 DEF TimersTypeOK, Clock
  <1>6. PassInv'
    BY <1>a, <1>1 DEF PassInv
  <1>7. ElapsedInv'
    <2>1. CASE rule = "backoff"
      <3>1. now + 0 + busy = now + busy
        BY <1>2, BoundsFact DEF Clock
      <3>2. ms' = (from' + waited' + busy') % Wrap
        BY <1>1, <1>2, <2>1, <3>1
      <3>3. waited' <= gap'
        BY <1>1, <1>2, BoundsFact
      <3> QED
        BY <1>1, <1>3, <2>1, <3>2, <3>3 DEF ElapsedInv
    <2>2. CASE rule # "backoff"
      BY <1>1, <2>2 DEF ElapsedInv
    <2> QED
      BY <2>1, <2>2
  <1>8. DeadlineInv'
    <2> SUFFICES ASSUME rule # "backoff", ~crossed'
                 PROVE  until' >= delay' /\ ms + delay' = until' + Since'
      BY <1>1 DEF DeadlineInv
    <2>1. start + delay' < Wrap /\ ms >= now /\ delay' \in Clock
      <3>1. ~(start + delay' >= Wrap) /\ ~(ms < now) /\ delay' \in Clock
        BY <1>1, <1>3
      <3>2. /\ start \in Int /\ delay' \in Int /\ start + delay' \in Int
            /\ ms \in Int /\ now \in Int /\ Wrap \in Int
        BY <1>2, <3>1, WrapFact DEF Clock
      <3>3. start + delay' < Wrap
        <4>1. ASSUME NEW a \in Int, NEW b \in Int, ~(a >= b) PROVE a < b
          BY <4>1
        <4> QED
          BY <3>1, <3>2, <4>1
      <3>4. ms >= now
        BY <3>1, <3>2
      <3> QED
        BY <3>1, <3>3, <3>4
    <2>2. until' = start + delay'
      BY <1>1, <1>2, <2>1, Around
    <2>3. ms = now + busy
      <3>1. busy \in Clock
        BY <1>2, BoundsFact, WrapFact DEF Clock
      <3>2. ms = IF now + busy < Wrap THEN now + busy ELSE now + busy - Wrap
        BY <1>2, <3>1, Around
      <3> QED
        BY <1>2, <2>1, <3>1, <3>2, WrapFact DEF Clock
    <2>4. Since' = IF rule = "session" THEN 0 ELSE busy
      BY <1>1, <1>2, BoundsFact DEF Since
    <2>5. start = IF rule = "session" THEN ms ELSE now
      BY DEF start
    <2>6. ms \in Int /\ now \in Int /\ busy \in Int /\ start \in Int /\ start >= 0
          /\ delay' \in Int
      BY <1>2, <2>1, BoundsFact, WrapFact DEF Clock
    <2>7. until' >= delay'
      <3>1. ASSUME NEW a \in Int, NEW b \in Int, a >= 0 PROVE a + b >= b
        BY <3>1
      <3> QED
        BY <2>2, <2>6, <3>1
    <2>8. ms + delay' = until' + Since'
      BY <2>2, <2>3, <2>4, <2>5, <2>6
    <2> QED
      BY <2>7, <2>8
  <1> QED
    BY <1>5, <1>6, <1>7, <1>8 DEF TimersInv

(* A success and a loss begin none.                                        *)
LEMMA OtherwiseKeeps ==
    ASSUME TimersInv, Succeeds \/ Lost
    PROVE  TimersInv'
  <1>a. TimersTypeOK /\ PassInv
    BY DEF TimersInv
  <1>1. CASE Succeeds
    <2>1. 0 \in Clock /\ 0 \in Int /\ 0 \in 0..Len(Steps) /\ 0 \in Nat
      BY TimersAssumption, WrapFact DEF Clock
    <2>2. TimersTypeOK'
      BY <1>a, <1>1, <2>1 DEF Succeeds, TimersTypeOK, Clock
    <2> QED
      BY <1>a, <1>1, <2>2 DEF Succeeds, TimersInv, PassInv, ElapsedInv, DeadlineInv
  <1>2. CASE Lost
    <2>1. /\ pc = "pass" /\ up /\ up' = FALSE /\ pc' = "loop"
          /\ until' = IF rule = "session" THEN now ELSE until
          /\ UNCHANGED <<now, gap, rule, ms, attempts, armed, from, delay>>
          /\ UNCHANGED <<busy, waited, crossed>>
      BY <1>2 DEF Lost, WaitVars
    <2>2. ~armed
      BY <1>a, <2>1 DEF PassInv
    <2>3. TimersTypeOK'
      BY <1>a, <2>1 DEF TimersTypeOK
    <2> QED
      BY <2>1, <2>2, <2>3 DEF TimersInv, PassInv, ElapsedInv, DeadlineInv
  <1> QED
    BY <1>1, <1>2

(* Every step keeps the invariant.                                         *)
LEMMA TimersKeep ==
    ASSUME TimersInv, [Next]_vars
    PROVE  TimersInv'
  <1>1. TimersNext \/ UNCHANGED timerVars
    BY DEF Next, Run, Walk, Grow, vars
  <1>2. CASE UNCHANGED timerVars
    BY <1>2 DEF timerVars, TimersInv, TimersTypeOK, PassInv, ElapsedInv, DeadlineInv,
                Since
  <1> QED
    BY <1>1, <1>2, TickKeeps, PassKeeps, FailsKeeps, OtherwiseKeeps DEF TimersNext

(* A wait ends neither before its delay is over nor after, for every table *)
(* of delays, every variation and every width of the counter in which the  *)
(* longest wait fits: for core/Backoff wherever the wrap falls, for the    *)
(* deadlines of the modem when there is none in the wait.                  *)
THEOREM Waits == Spec => []WaitIsItsDelay
  <1>1. Init => TimersInv
    BY TimersInitHolds DEF Init
  <1>2. TimersInv /\ [Next]_vars => TimersInv'
    BY TimersKeep
  <1>3. TimersInv => WaitIsItsDelay
    <2> SUFFICES ASSUME TimersInv, pc = "pass", armed,
                        rule = "backoff" \/ ~crossed
                 PROVE  Due <=> Since >= delay
      BY DEF WaitIsItsDelay
    <2>1. CASE rule = "backoff"
      BY <2>1, SinceElapsed DEF Since
    <2>2. CASE rule # "backoff"
      <3>1. /\ now = ms /\ ms + delay = until + Since
            /\ ms \in Int /\ delay \in Int /\ until \in Int
            /\ waited \in Int /\ busy \in Int
            /\ rule \in {"link", "session"}
        BY <2>2, WrapFact, BoundsFact
        DEF TimersInv, TimersTypeOK, PassInv, DeadlineInv, Clock
      <3>2. Since \in Int
        BY <3>1 DEF Since
      <3>3. Due <=> now >= until
        BY <2>2, <3>1 DEF Due, DeadlineOver
      <3> QED
        BY <3>1, <3>2, <3>3
    <2> QED
      BY <2>1, <2>2
  <1> QED
    BY <1>1, <1>2, <1>3, PTL DEF Spec

-----------------------------------------------------------------------------
(* The calendar.  A day is named by the period of 400 years it is in, the   *)
(* year of the period and the day of that year, both from the first of     *)
(* March: era, yoe and doy of core/Iso8601.                                *)

(* Days of a period before year y, and whether a day ends y that other     *)
(* years do not have.                                                      *)
YearDays(y) == 365 * y + y \div 4 - y \div 100
LeapDay(y) == IF (y + 1) % 4 = 0 /\ ((y + 1) % 100 # 0 \/ y = 399) THEN 1 ELSE 0

(* civilFromDays finds the year a day of the period is in.                 *)
LEMMA YearOfEra ==
    ASSUME NEW doe \in Int, 0 <= doe, doe <= 146096
    PROVE  /\ YearOf(doe) \in Int /\ 0 <= YearOf(doe) /\ YearOf(doe) <= 399
           /\ YearDays(YearOf(doe)) <= doe
           /\ doe <= YearDays(YearOf(doe)) + 364 + LeapDay(YearOf(doe))
  BY SMTT(60) DEF YearDays, LeapDay, YearOf

(* A year ends before a later one begins.                                  *)
LEMMA YearsDiffer ==
    ASSUME NEW y \in Int, NEW z \in Int, 0 <= y, z <= 399, y < z
    PROVE  YearDays(y) + 364 + LeapDay(y) < YearDays(z)
  BY SMTT(60) DEF YearDays, LeapDay

(* The years of a period follow each other and fill it.                    *)
LEMMA YearsFit ==
    ASSUME NEW y \in Int, 0 <= y, y <= 399
    PROVE  /\ YearDays(y) \in Int /\ LeapDay(y) \in Int /\ 0 <= YearDays(y) 
           /\ LeapDay(y) \in {0, 1}
           /\ YearDays(y) + 364 + LeapDay(y) <= 146096
           /\ y < 399 => YearDays(y) + 365 + LeapDay(y) = YearDays(y + 1)
           /\ y = 399 => YearDays(y) + 364 + LeapDay(y) = 146096
  BY SMTT(60) DEF YearDays, LeapDay

(* The month and the day of the month of a day of the year.                *)
MonthOf(doy) ==
    LET mp == (5 * doy + 2) \div 153 IN mp + IF mp < 10 THEN 3 ELSE -9
DayOf(doy) == doy - (153 * ((5 * doy + 2) \div 153) + 2) \div 5 + 1

(* The three as a date and as a number.                                    *)
Civil(era, y, doy) ==
    [year  |-> y + era * 400 + (IF MonthOf(doy) <= 2 THEN 1 ELSE 0),
     month |-> MonthOf(doy), day |-> DayOf(doy)]

DayNumber(era, y, doy) == era * 146097 + YearDays(y) + doy - 719468

IsDay(era, y, doy) ==
    /\ era \in Int /\ y \in Int /\ doy \in Int
    /\ 0 <= y /\ y <= 399 /\ 0 <= doy /\ doy <= 364 + LeapDay(y)

(* A day of the period is in one year only.                                *)
LEMMA OneYear ==
    ASSUME NEW era, NEW y, NEW doy, IsDay(era, y, doy)
    PROVE  /\ YearDays(y) + doy \in Int /\ 0 <= YearDays(y) + doy
           /\ YearDays(y) + doy <= 146096
           /\ YearOf(YearDays(y) + doy) = y
  <1> DEFINE doe == YearDays(y) + doy
  <1>1. doe \in Int /\ 0 <= doe /\ doe <= 146096 /\ y \in Int /\ doy \in Int
    BY YearsFit DEF IsDay
  <1>2. PICK w \in Int : w = YearOf(doe)
    BY <1>1, YearOfEra
  <1>3. /\ 0 <= w /\ w <= 399 /\ YearDays(w) <= doe
        /\ doe <= YearDays(w) + 364 + LeapDay(w)
    BY <1>1, <1>2, YearOfEra
  <1>4. /\ YearDays(y) \in Int /\ YearDays(w) \in Int /\ LeapDay(w) \in Int /\ LeapDay(y) \in Int
    BY <1>3, YearsFit DEF IsDay
  <1>5. ~(w < y)
    <2> SUFFICES ASSUME w < y PROVE FALSE
      OBVIOUS
    <2>1. YearDays(w) + 364 + LeapDay(w) < YearDays(y)
      BY <1>3, YearsDiffer DEF IsDay
    <2> QED
      BY <1>3, <1>4, <2>1 DEF IsDay
  <1>6. ~(y < w)
    <2> SUFFICES ASSUME y < w PROVE FALSE
      OBVIOUS
    <2>1. YearDays(y) + 364 + LeapDay(y) < YearDays(w)
      BY <1>3, YearsDiffer DEF IsDay
    <2> QED
      BY <1>3, <1>4, <2>1 DEF IsDay
  <1> QED
    BY <1>1, <1>2, <1>5, <1>6

(* civilFromDays of the day that the three name.                           *)
LEMMA CivilIs ==
    ASSUME NEW era, NEW y, NEW doy, IsDay(era, y, doy)
    PROVE  CivilFromDays(DayNumber(era, y, doy)) = Civil(era, y, doy)
  <1>1. PICK doe \in Int : /\ doe = YearDays(y) + doy /\ 0 <= doe /\ doe <= 146096
                           /\ YearOf(doe) = y
    BY OneYear
  <1>2. era \in Int /\ y \in Int /\ doy \in Int /\ YearDays(y) \in Int
    BY YearsFit DEF IsDay
  <1> DEFINE z == DayNumber(era, y, doy) + 719468
  <1>3. z = era * 146097 + doe
    BY <1>1, <1>2 DEF DayNumber
  <1>4. z \div 146097 = era
    BY <1>1, <1>2, <1>3
  <1>5. z - era * 146097 = doe
    BY <1>1, <1>2, <1>3
  <1>6. doy = doe - (365 * y + y \div 4 - y \div 100)
    BY <1>1, <1>2 DEF YearDays
  <1> HIDE DEF z
  <1>7. CivilFromDays(DayNumber(era, y, doy)) =
          LET yoe == YearOf(z - (z \div 146097) * 146097)
              d   == (z - (z \div 146097) * 146097) - (365 * yoe + yoe \div 4 - yoe \div 100)
              mp  == (5 * d + 2) \div 153
              m   == mp + IF mp < 10 THEN 3 ELSE -9
          IN [year  |-> yoe + (z \div 146097) * 400 + (IF m <= 2 THEN 1 ELSE 0),
              month |-> m,
              day   |-> d - (153 * mp + 2) \div 5 + 1]
    BY SMTT(30) DEF z, CivilFromDays
  <1> QED
    BY <1>1, <1>4, <1>5, <1>6, <1>7 DEF Civil, MonthOf, DayOf

(* Every number is that of a day.                                          *)
LEMMA EveryDay ==
    ASSUME NEW z \in Int
    PROVE  \E era, y, doy : IsDay(era, y, doy) /\ z = DayNumber(era, y, doy)
  <1>1. PICK era \in Int, doe \in Int :
           0 <= doe /\ doe <= 146096 /\ z + 719468 = era * 146097 + doe
    <2> DEFINE era == (z + 719468) \div 146097
    <2> DEFINE doe == (z + 719468) - era * 146097
    <2>1. era \in Int /\ doe \in Int /\ 0 <= doe /\ doe <= 146096
      OBVIOUS
    <2>2. z + 719468 = era * 146097 + doe
      OBVIOUS
    <2> HIDE DEF era, doe
    <2> QED
      BY <2>1, <2>2
  <1>2. PICK y \in Int : /\ 0 <= y /\ y <= 399 /\ YearDays(y) <= doe
                         /\ doe <= YearDays(y) + 364 + LeapDay(y)
    BY <1>1, YearOfEra
  <1>3. YearDays(y) \in Int /\ LeapDay(y) \in Int
    BY <1>2, YearsFit
  <1>4. IsDay(era, y, doe - YearDays(y))
    BY <1>1, <1>2, <1>3 DEF IsDay
  <1>5. z = DayNumber(era, y, doe - YearDays(y))
    BY <1>1, <1>2, <1>3 DEF DayNumber
  <1> QED
    BY <1>4, <1>5

(* A month found from a day gives the day back.                            *)
LEMMA MonthFact ==
    ASSUME NEW doy \in Int, 0 <= doy, doy <= 365
    PROVE  /\ MonthOf(doy) \in Int /\ DayOf(doy) \in Int
           /\ 1 <= MonthOf(doy) /\ MonthOf(doy) <= 12 /\ 1 <= DayOf(doy)
           /\ MonthOf(doy) + (IF MonthOf(doy) > 2 THEN -3 ELSE 9)
                 = (5 * doy + 2) \div 153
  BY SMTT(60) DEF MonthOf, DayOf

(* daysFromCivil of the date that the three name.                          *)
LEMMA NumberIs ==
    ASSUME NEW era, NEW y, NEW doy, IsDay(era, y, doy)
    PROVE  LET c == Civil(era, y, doy)
           IN  DaysFromCivil(c.year, c.month, c.day) = DayNumber(era, y, doy)
  <1> DEFINE m == MonthOf(doy)
  <1>1. era \in Int /\ y \in Int /\ doy \in Int /\ 0 <= y /\ y <= 399
        /\ 0 <= doy /\ doy <= 365
    BY YearsFit DEF IsDay
  <1>2. /\ m \in Int /\ DayOf(doy) \in Int
        /\ m + (IF m > 2 THEN -3 ELSE 9) = (5 * doy + 2) \div 153
    BY <1>1, MonthFact
  <1> HIDE DEF m
  <1> DEFINE yy == y + era * 400
  <1>3. (IF m <= 2 THEN (yy + (IF m <= 2 THEN 1 ELSE 0)) - 1
                   ELSE yy + (IF m <= 2 THEN 1 ELSE 0)) = yy
    BY <1>1, <1>2
  <1>4. yy \div 400 = era /\ yy - era * 400 = y
    BY <1>1
  <1>5. (153 * (m + (IF m > 2 THEN -3 ELSE 9)) + 2) \div 5 + DayOf(doy) - 1 = doy
    <2>1. (153 * ((5 * doy + 2) \div 153) + 2) \div 5 + DayOf(doy) - 1 = doy
      BY <1>1, <1>2 DEF DayOf
    <2> QED
      BY <1>2, <2>1
  <1>6. /\ Civil(era, y, doy).year = yy + (IF m <= 2 THEN 1 ELSE 0)
        /\ Civil(era, y, doy).month = m
        /\ Civil(era, y, doy).day = DayOf(doy)
    BY DEF Civil, m
  <1> HIDE DEF yy
  <1>7. DaysFromCivil(yy + (IF m <= 2 THEN 1 ELSE 0), m, DayOf(doy)) =
           era * 146097 + (y * 365 + y \div 4 - y \div 100 + doy) - 719468
    BY <1>3, <1>4, <1>5 DEF DaysFromCivil
  <1> QED
    BY <1>1, <1>6, <1>7 DEF DayNumber, YearDays

(* Within a month and from one month to the next; doy counts from March.   *)
LEMMA NextInYear ==
    ASSUME NEW doy \in Int, 0 <= doy, doy <= 364
    PROVE  LET len == IF MonthOf(doy) = 2 THEN 29
                      ELSE IF MonthOf(doy) \in {4, 6, 9, 11} THEN 30 ELSE 31
           IN  /\ DayOf(doy) <= len
               /\ DayOf(doy) < len =>
                     MonthOf(doy + 1) = MonthOf(doy) /\ DayOf(doy + 1) = DayOf(doy) + 1
               /\ DayOf(doy) = len =>
                     /\ DayOf(doy + 1) = 1
                     /\ MonthOf(doy + 1) =
                           IF MonthOf(doy) = 12 THEN 1 ELSE MonthOf(doy) + 1
               /\ MonthOf(doy) = 2 => DayOf(doy) < 29
  BY SMTT(60) DEF MonthOf, DayOf

(* February ends the year, with 28 days or 29.                             *)
LEMMA LastDays ==
    /\ MonthOf(364) = 2 /\ DayOf(364) = 28
    /\ MonthOf(365) = 2 /\ DayOf(365) = 29
    /\ MonthOf(0) = 3 /\ DayOf(0) = 1
    /\ \A doy \in Int : 0 <= doy /\ doy <= 365 /\ MonthOf(doy) = 2 =>
          DayOf(doy) = doy - 336
  BY SMTT(60) DEF MonthOf, DayOf

(* The years that February ends with 29 days are the leap years.           *)
LEMMA LeapYears ==
    ASSUME NEW era \in Int, NEW y \in Int, 0 <= y, y <= 399
    PROVE  LeapDay(y) = IF Leap(y + era * 400 + 1) THEN 1 ELSE 0
  <1>1. (y + era * 400 + 1) % 4 = (y + 1) % 4
    OBVIOUS
  <1>2. (y + era * 400 + 1) % 100 = (y + 1) % 100
    OBVIOUS
  <1>3. (y + era * 400 + 1) % 400 = 0 <=> y = 399
    OBVIOUS
  <1>4. y = 399 => (y + 1) % 4 = 0
    OBVIOUS
  <1> QED
    BY <1>1, <1>2, <1>3, <1>4 DEF Leap, LeapDay

(* The next day has the next number and the next date of the calendar.     *)
LEMMA NextIs ==
    ASSUME NEW era, NEW y, NEW doy, IsDay(era, y, doy)
    PROVE  \E e, w, d : /\ IsDay(e, w, d)
                        /\ DayNumber(e, w, d) = DayNumber(era, y, doy) + 1
                        /\ Civil(e, w, d) = NextDay(Civil(era, y, doy))
  <1>1. /\ era \in Int /\ y \in Int /\ doy \in Int /\ 0 <= y /\ y <= 399
        /\ 0 <= doy /\ doy <= 364 + LeapDay(y) /\ LeapDay(y) \in {0, 1}
        /\ YearDays(y) \in Int
    BY YearsFit DEF IsDay
  <1>2. /\ MonthOf(doy) \in Int /\ DayOf(doy) \in Int
        /\ 1 <= MonthOf(doy) /\ MonthOf(doy) <= 12 /\ 1 <= DayOf(doy)
    BY <1>1, MonthFact
  <1> DEFINE c == Civil(era, y, doy)
  <1> DEFINE yy == y + era * 400
  <1>3. /\ c = [year |-> yy + (IF MonthOf(doy) <= 2 THEN 1 ELSE 0),
                month |-> MonthOf(doy), day |-> DayOf(doy)]
        /\ c.year = yy + (IF MonthOf(doy) <= 2 THEN 1 ELSE 0)
        /\ c.month = MonthOf(doy) /\ c.day = DayOf(doy)
    BY DEF Civil
  <1>4. yy \in Int /\ LeapDay(y) = IF Leap(yy + 1) THEN 1 ELSE 0
    BY <1>1, LeapYears
  <1>5. DaysIn(c.year, c.month) =
          IF MonthOf(doy) = 2 THEN 28 + LeapDay(y)
          ELSE IF MonthOf(doy) \in {4, 6, 9, 11} THEN 30 ELSE 31
    <2>1. MonthOf(doy) = 2 => c.year = yy + 1
      BY <1>2, <1>3
    <2>2. CASE MonthOf(doy) = 2
      BY <1>3, <1>4, <2>1, <2>2 DEF DaysIn
    <2>3. CASE MonthOf(doy) # 2
      BY <1>3, <2>3 DEF DaysIn
    <2> QED
      BY <2>2, <2>3
  <1>6. CASE doy < 364 + LeapDay(y)
    <2>0. doy <= 364
      BY <1>1, <1>6
    <2>1. IsDay(era, y, doy + 1) /\ DayNumber(era, y, doy + 1) = DayNumber(era, y, doy) + 1
      BY <1>1, <1>6 DEF IsDay, DayNumber
    <2>2. Civil(era, y, doy + 1) =
            [year |-> yy + (IF MonthOf(doy + 1) <= 2 THEN 1 ELSE 0),
             month |-> MonthOf(doy + 1), day |-> DayOf(doy + 1)]
      BY DEF Civil
    <2>3. CASE DayOf(doy) < DaysIn(c.year, c.month)
      <3>1. NextDay(c) = [year |-> c.year, month |-> c.month, day |-> c.day + 1]
        BY <1>3, <2>3 DEF NextDay
      <3>2. MonthOf(doy + 1) = MonthOf(doy) /\ DayOf(doy + 1) = DayOf(doy) + 1
        BY <1>1, <1>2, <1>5, <2>0, <2>3, NextInYear
      <3>3. Civil(era, y, doy + 1) = NextDay(c)
        BY <1>3, <2>2, <3>1, <3>2
      <3> QED
        BY <2>1, <3>3
    <2>4. CASE ~(DayOf(doy) < DaysIn(c.year, c.month))
      <3>1. MonthOf(doy) # 2
        BY <1>1, <1>2, <1>5, <1>6, <2>4, LastDays
      <3>2. /\ DayOf(doy + 1) = 1
            /\ MonthOf(doy + 1) = IF MonthOf(doy) = 12 THEN 1 ELSE MonthOf(doy) + 1
        BY <1>1, <1>2, <1>5, <2>0, <2>4, <3>1, NextInYear
      <3>3. CASE MonthOf(doy) < 12
        <4>1. NextDay(c) = [year |-> c.year, month |-> c.month + 1, day |-> 1]
          BY <1>3, <2>4, <3>3 DEF NextDay
        <4>2. (MonthOf(doy + 1) <= 2) <=> (MonthOf(doy) <= 2)
          BY <1>2, <3>1, <3>2, <3>3
        <4>3. Civil(era, y, doy + 1) = NextDay(c)
          BY <1>3, <2>2, <3>2, <3>3, <4>1, <4>2
        <4> QED
          BY <2>1, <4>3
      <3>4. CASE MonthOf(doy) = 12
        <4>1. NextDay(c) = [year |-> c.year + 1, month |-> 1, day |-> 1]
          BY <1>3, <2>4, <3>4 DEF NextDay
        <4>2. Civil(era, y, doy + 1) = NextDay(c)
          BY <1>3, <1>4, <2>2, <3>2, <3>4, <4>1
        <4> QED
          BY <2>1, <4>2
      <3> QED
        BY <1>2, <3>3, <3>4
    <2> QED
      BY <2>3, <2>4
  <1>7. CASE doy = 364 + LeapDay(y)
    <2>1. MonthOf(doy) = 2 /\ DayOf(doy) = 28 + LeapDay(y)
      BY <1>1, <1>7, LastDays
    <2>2. NextDay(c) = [year |-> c.year, month |-> c.month + 1, day |-> 1]
      BY <1>1, <1>3, <1>5, <2>1 DEF NextDay
    <2>3. NextDay(c) = [year |-> yy + 1, month |-> 3, day |-> 1]
      BY <1>3, <2>1, <2>2
    <2>4. CASE y < 399
      <3>1. IsDay(era, y + 1, 0)
        BY <1>1, <2>4, YearsFit DEF IsDay
      <3>2. DayNumber(era, y + 1, 0) = DayNumber(era, y, doy) + 1
        BY <1>1, <1>7, <2>4, YearsFit DEF DayNumber
      <3>3. Civil(era, y + 1, 0) = NextDay(c)
        BY <1>1, <2>3, LastDays DEF Civil
      <3> QED
        BY <3>1, <3>2, <3>3
    <2>5. CASE y = 399
      <3>1. YearDays(0) = 0 /\ LeapDay(0) = 0
        BY DEF YearDays, LeapDay
      <3>2. IsDay(era + 1, 0, 0)
        BY <1>1, <3>1 DEF IsDay
      <3>3. DayNumber(era + 1, 0, 0) = DayNumber(era, y, doy) + 1
        BY SMTT(30), <1>1, <1>7, <2>5, <3>1, YearsFit DEF DayNumber
      <3>4. Civil(era + 1, 0, 0) = NextDay(c)
        BY <1>1, <2>3, <2>5, LastDays DEF Civil
      <3> QED
        BY <3>2, <3>3, <3>4
    <2> QED
      BY <1>1, <2>4, <2>5
  <1> QED
    BY <1>1, <1>6, <1>7

(* Turning a number of days into a date and back changes nothing, whatever *)
(* the number (civilFromDays, daysFromCivil).                              *)
THEOREM DaysRoundTrip ==
    ASSUME NEW z \in Int
    PROVE  LET c == CivilFromDays(z)
           IN  DaysFromCivil(c.year, c.month, c.day) = z
  BY EveryDay, CivilIs, NumberIs

(* The date of the next number is the next date.                           *)
LEMMA OneDayOn ==
    ASSUME NEW z \in Int
    PROVE  CivilFromDays(z + 1) = NextDay(CivilFromDays(z))
  <1>1. PICK era, y, doy : IsDay(era, y, doy) /\ z = DayNumber(era, y, doy)
    BY EveryDay
  <1>2. PICK e, w, d : /\ IsDay(e, w, d)
                       /\ DayNumber(e, w, d) = DayNumber(era, y, doy) + 1
                       /\ Civil(e, w, d) = NextDay(Civil(era, y, doy))
    BY <1>1, NextIs
  <1> QED
    BY <1>1, <1>2, CivilIs

(* The days whose number everybody knows.                                  *)
LEMMA KnownDays ==
    ASSUME NEW s \in Starts
    PROVE  s.day \in Int /\ CivilFromDays(s.day) = s.date
  <1>1. CASE s = [date |-> NewYear(1970), day |-> 0]
    BY <1>1 DEF NewYear, CivilFromDays, YearOf
  <1>2. CASE s = [date |-> NewYear(2024), day |-> 19723]
    BY <1>2 DEF NewYear, CivilFromDays, YearOf
  <1>3. CASE s = [date |-> NewYear(2099), day |-> 47482 - 365]
    BY <1>3 DEF NewYear, CivilFromDays, YearOf
  <1>4. CASE s = [date |-> NewYear(2400), day |-> 10957 + 146097]
    BY <1>4 DEF NewYear, CivilFromDays, YearOf
  <1> QED
    BY <1>1, <1>2, <1>3, <1>4 DEF Starts

(* The modem's clock, in any of its offsets: what comes out is a moment,    *)
(* its second within the day, and it is the offset away from the local     *)
(* time it was made of (fromGsmLocal).                                     *)
THEOREM LocalClock ==
    ASSUME NEW z \in Int, NEW second \in Int, NEW quarters \in Int
    PROVE  LET utc == FromGsmLocal(CivilFromDays(z), second, quarters)
           IN  /\ utc.day \in Int /\ utc.second \in Int
               /\ 0 <= utc.second /\ utc.second < 86400
               /\ utc.day * 86400 + utc.second = z * 86400 + second - quarters * 900
  <1> DEFINE t == (second % 86400) - quarters * 15 * 60
             d == z + second \div 86400
  <1>1. ToEpoch(CivilFromDays(z), second) = [day |-> d, second |-> second % 86400]
    BY DaysRoundTrip DEF ToEpoch, Moment, SecondsOfDay
  <1>2. FromGsmLocal(CivilFromDays(z), second, quarters) =
            [day |-> d + t \div 86400, second |-> t % 86400]
    BY <1>1 DEF FromGsmLocal, Moment, SecondsOfDay
  <1>3. ASSUME NEW n \in Int
        PROVE  /\ n \div 86400 \in Int /\ n % 86400 \in Int
               /\ 0 <= n % 86400 /\ n % 86400 < 86400
               /\ (n \div 86400) * 86400 + (n % 86400) = n
    OBVIOUS
  <1>4. t \in Int /\ d \in Int
    OBVIOUS
  <1>5. t = (second % 86400) - quarters * 900
    OBVIOUS
  <1>6. d * 86400 + (second % 86400) = z * 86400 + second
    BY <1>3
  <1> HIDE DEF t, d
  <1>7. PICK q \in Int, r \in Int : /\ q = t \div 86400 /\ r = t % 86400
                                   /\ 0 <= r /\ r < 86400 /\ q * 86400 + r = t
    BY <1>3, <1>4
  <1>8. (d + q) * 86400 + r = z * 86400 + second - quarters * 900
    BY <1>3, <1>4, <1>5, <1>6, <1>7
  <1> QED
    BY <1>2, <1>4, <1>7, <1>8

(* The day it is in UTC, on a whole hour.                                  *)
LEMMA LocalIs ==
    ASSUME NEW z \in Int, NEW hour \in Int, 0 <= hour, hour <= 23,
           NEW quarters \in Int, -96 <= quarters, quarters <= 96
    PROVE  FromGsmLocal(CivilFromDays(z), hour * 3600, quarters).day =
              IF 4 * hour < quarters THEN z - 1
              ELSE IF 4 * hour - quarters >= 96 THEN z + 1
              ELSE z
  <1>1. ToEpoch(CivilFromDays(z), hour * 3600) =
            [day |-> z + (hour * 3600) \div 86400, second |-> (hour * 3600) % 86400]
    BY DaysRoundTrip DEF ToEpoch, Moment, SecondsOfDay
  <1>2. (hour * 3600) \div 86400 = 0 /\ (hour * 3600) % 86400 = hour * 3600
    OBVIOUS
  <1>3. ToEpoch(CivilFromDays(z), hour * 3600) = [day |-> z, second |-> hour * 3600]
    BY <1>1, <1>2
  <1>4. FromGsmLocal(CivilFromDays(z), hour * 3600, quarters).day =
            z + (hour * 3600 - quarters * 15 * 60) \div 86400
    BY <1>3 DEF FromGsmLocal, Moment, SecondsOfDay
  <1>5. (hour * 3600 - quarters * 15 * 60) \div 86400 =
            IF 4 * hour < quarters THEN -1
            ELSE IF 4 * hour - quarters >= 96 THEN 1 ELSE 0
    OBVIOUS
  <1> QED
    BY <1>4, <1>5

(* What a walk from a known day keeps.                                     *)
CalendarInv == day \in Int /\ CivilFromDays(day) = date

(* On every day of a walk of any length the date of the number is the date *)
(* the calendar has reached, and the modem's clock is turned into the day  *)
(* it is in UTC.                                                           *)
THEOREM CalendarDays == Spec => []DaysAreCalendarDays
  <1>1. Init => CalendarInv
    BY KnownDays DEF Init, CalendarInv
  <1>2. CalendarInv /\ [Next]_vars => CalendarInv'
    <2> SUFFICES ASSUME CalendarInv, [Next]_vars PROVE CalendarInv'
      OBVIOUS
    <2>1. CASE Walk
      BY <2>1, OneDayOn DEF Walk, CalendarInv
    <2>2. CASE UNCHANGED <<date, day>>
      BY <2>2 DEF CalendarInv
    <2> QED
      BY <2>1, <2>2 DEF Next, Grow, Run, vars, calendarVars
  <1>3. CalendarInv => DaysAreCalendarDays
    <2> SUFFICES ASSUME CalendarInv, NEW hour \in {0, 11, 23},
                        NEW quarters \in {-48, -12, 0, 23, 56}
                 PROVE  FromGsmLocal(date, hour * 3600, quarters).day =
                          IF 4 * hour < quarters THEN day - 1
                          ELSE IF 4 * hour - quarters >= 96 THEN day + 1
                          ELSE day
      BY DEF DaysAreCalendarDays, CalendarInv
    <2>1. /\ hour \in Int /\ 0 <= hour /\ hour <= 23
          /\ quarters \in Int /\ -96 <= quarters /\ quarters <= 96
      OBVIOUS
    <2> QED
      BY <2>1, LocalIs DEF CalendarInv
  <1> QED
    BY <1>1, <1>2, <1>3, PTL DEF Spec

-----------------------------------------------------------------------------
(* Induction.  A set of naturals that is not empty has a least element, so *)
(* one that holds 0 and n + 1 with every n holds them all: the principle   *)
(* is stated about sets, and about a property through the set of those     *)
(* that have it.                                                           *)
Below == OpToRel(<, Nat)

(* The order of the naturals has no endless descent.                       *)
LEMMA BelowWellFounded == IsWellFoundedOn(Below, Nat)
  BY NatLessThanWellFounded DEF Below

(* What that order says.                                                   *)
LEMMA BelowFact == \A x, y \in Nat : <<x, y>> \in Below <=> x < y
  BY DEF Below, OpToRel

(* The least number principle.                                             *)
LEMMA Least ==
    ASSUME NEW T \in SUBSET Nat, T # {}
    PROVE  \E x \in T : \A y \in T : x <= y
  <1>1. \E x \in T : \A y \in T : ~ (<<y, x>> \in Below)
    BY BelowWellFounded, WFMin
  <1>2. PICK x \in T : \A y \in T : ~ (<<y, x>> \in Below)
    BY <1>1
  <1>3. ASSUME NEW y \in T PROVE x <= y
    <2>1. x \in Nat /\ y \in Nat /\ ~(y < x)
      BY <1>2, BelowFact
    <2> QED
      BY <2>1
  <1> QED
    BY <1>2, <1>3

(* Induction on the naturals.                                              *)
LEMMA Induct ==
    ASSUME NEW T \in SUBSET Nat, 0 \in T, \A n \in T : n + 1 \in T
    PROVE  T = Nat
  <1>1. SUFFICES ASSUME Nat \ T # {} PROVE FALSE
    OBVIOUS
  <1>2. PICK x \in Nat \ T : \A y \in Nat \ T : x <= y
    BY <1>1, Least
  <1>3. x # 0 /\ x - 1 \in Nat
    BY <1>2
  <1>4. x - 1 \in T
    BY <1>2, <1>3
  <1> QED
    BY <1>2, <1>3, <1>4

-----------------------------------------------------------------------------
(* Versions.                                                               *)

(* The i-th component, 0 where there is none.                              *)
Digit(v, i) == IF i <= Len(v) THEN v[i] ELSE 0

(* The versions Grow makes.                                                *)
Version(v) == v \in Seq(Numbers) /\ Len(v) <= MaxLen

(* Every component is a digit of the base.                                 *)
LEMMA BaseFact == Base \in Nat /\ Base > 0 /\ \A n \in Numbers : n < Base
  <1>1. PICK top \in Numbers : \A k \in Numbers : k <= top
    BY VersionsAssumption
  <1> DEFINE most == CHOOSE n \in Numbers : \A k \in Numbers : k <= n
  <1>2. most \in Numbers /\ \A k \in Numbers : k <= most
    BY <1>1
  <1>3. Base = 1 + most
    BY DEF Base
  <1> HIDE DEF most
  <1> QED
    BY <1>2, <1>3, VersionsAssumption

(* And so is what is read past the end.                                    *)
LEMMA DigitFact ==
    ASSUME NEW v, Version(v), NEW i \in Nat, i > 0
    PROVE  Digit(v, i) \in Nat /\ Digit(v, i) < Base
  <1>1. CASE i <= Len(v)
    <2>1. v[i] \in Numbers
      BY <1>1 DEF Version
    <2> QED
      BY <1>1, <2>1, BaseFact, VersionsAssumption DEF Digit
  <1>2. CASE ~(i <= Len(v))
    BY <1>2, BaseFact DEF Digit
  <1> QED
    BY <1>1, <1>2

(* The numbers read so far: the function that Value names value.           *)
Reads(v, n, g) ==
    g = [i \in 0..n |-> IF i = 0 THEN 0 ELSE g[i - 1] * Base + Digit(v, i)]

(* There is such a function: value is one.                                 *)
LEMMA ReadsExists ==
   ASSUME NEW v, NEW n \in Nat
   PROVE  \E g : Reads(v, n, g)
  <1> DEFINE T == {k \in Nat : \E g : Reads(v, k, g)}
  <1>1. 0 \in T
    <2>1. Reads(v, 0, [i \in 0..0 |-> 0])
      BY DEF Reads
    <2> QED
      BY <2>1
  <1>2. ASSUME NEW k \in T PROVE k + 1 \in T
    <2>1. PICK g : Reads(v, k, g)
      OBVIOUS
    <2> DEFINE x == g[k] * Base + Digit(v, k + 1)
    <2> DEFINE h == [i \in 0..(k+1) |-> IF i = k + 1 THEN x ELSE g[i]]
    <2>2. \A i \in 0..(k+1) : h[i] = IF i = 0 THEN 0 ELSE h[i - 1] * Base + Digit(v, i)
      BY <2>1 DEF Reads
    <2>3. Reads(v, k + 1, h)
      BY <2>2 DEF Reads
    <2> QED
      BY <2>3
  <1> HIDE DEF T
  <1>3. T = Nat
    BY <1>1, <1>2, Induct DEF T
  <1> QED
    BY <1>3 DEF T

(* The numbers that the first components make, one after another.          *)
Prefixes(v, g) ==
    /\ g[0] = 0
    /\ \A i \in 0..MaxLen : g[i] \in Nat
    /\ \A i \in 1..MaxLen : g[i] = g[i - 1] * Base + Digit(v, i)

(* Value is the last of them.                                              *)
LEMMA ValueFact ==
   ASSUME NEW v, Version(v)
   PROVE  \E g : Value(v) = g[MaxLen] /\ Prefixes(v, g)
  <1> DEFINE g == CHOOSE g : g = [i \in 0..MaxLen |->
                     IF i = 0 THEN 0
                     ELSE g[i - 1] * Base + (IF i <= Len(v) THEN v[i] ELSE 0)]
  <1>1. Value(v) = g[MaxLen]
    BY DEF Value
  <1>2. Reads(v, MaxLen, g)
    BY ReadsExists, VersionsAssumption DEF Reads, Digit
  <1> HIDE DEF g
  <1>3. g[0] = 0 /\ \A i \in 1..MaxLen : g[i] = g[i - 1] * Base + Digit(v, i)
    BY <1>2, VersionsAssumption DEF Reads
  <1> DEFINE T == {k \in Nat : k <= MaxLen => g[k] \in Nat}
  <1>4. 0 \in T
    BY <1>3
  <1>5. ASSUME NEW k \in T PROVE k + 1 \in T
    <2> SUFFICES ASSUME k + 1 <= MaxLen PROVE g[k + 1] \in Nat
      OBVIOUS
    <2>1. k \in Nat /\ g[k] \in Nat /\ k + 1 \in 1..MaxLen
      BY VersionsAssumption
    <2>2. g[k + 1] = g[k] * Base + Digit(v, k + 1)
      BY <1>3, <2>1
    <2>3. Digit(v, k + 1) \in Nat /\ Base \in Nat
      BY <2>1, DigitFact, BaseFact
    <2>4. ASSUME NEW a \in Nat, NEW b \in Nat, NEW c \in Nat PROVE a * b + c \in Nat
      BY <2>4
    <2> QED
      BY <2>1, <2>2, <2>3, <2>4
  <1> HIDE DEF T
  <1>6. T = Nat
    BY <1>4, <1>5, Induct DEF T
  <1>7. \A i \in 0..MaxLen : g[i] \in Nat
    BY <1>6, VersionsAssumption DEF T
  <1> QED
    BY <1>1, <1>3, <1>7 DEF Prefixes

(* The first components agree.                                             *)
SameDigits(a, b, n) == \A i \in 1..n : Digit(a, i) = Digit(b, i)

(* Equal so far.                                                           *)
LEMMA SameSoFar ==
    ASSUME NEW g, NEW h, NEW a, NEW b, NEW n \in Nat, n <= MaxLen,
           Prefixes(a, g), Prefixes(b, h), SameDigits(a, b, n)
    PROVE  g[n] = h[n]
  <1> DEFINE T == {k \in Nat : k <= n => g[k] = h[k]}
  <1>1. 0 \in T
    BY DEF Prefixes
  <1>2. ASSUME NEW k \in T PROVE k + 1 \in T
    <2> SUFFICES ASSUME k + 1 <= n PROVE g[k + 1] = h[k + 1]
      OBVIOUS
    <2>1. k \in Nat /\ g[k] = h[k] /\ k + 1 \in 1..n /\ k + 1 \in 1..MaxLen
      BY VersionsAssumption
    <2>2. Digit(a, k + 1) = Digit(b, k + 1)
      BY <2>1 DEF SameDigits
    <2>3. g[k + 1] = g[k] * Base + Digit(a, k + 1) /\ h[k + 1] = h[k] * Base + Digit(b, k + 1)
      BY <2>1 DEF Prefixes
    <2> QED
      BY <2>1, <2>2, <2>3
  <1> HIDE DEF T
  <1>3. T = Nat
    BY <1>1, <1>2, Induct DEF T
  <1> QED
    BY <1>3 DEF T

(* What follows a smaller number never makes up for it.                    *)
LEMMA Carries ==
    ASSUME NEW x \in Nat, NEW y \in Nat, x < y,
           NEW d \in Nat, NEW e \in Nat, d < Base
    PROVE  x * Base + d < y * Base + e
  <1>1. Base \in Nat
    BY BaseFact
  <1>2. ASSUME NEW n \in Nat, d < n PROVE x * n + d < y * n + e
    <2>1. PICK k \in Nat : y = x + 1 + k
      <3>1. y - x - 1 \in Nat /\ y = x + 1 + (y - x - 1)
        OBVIOUS
      <3> QED
        BY <3>1
    <2>2. y * n = x * n + n + k * n
      BY <2>1
    <2>3. k * n \in Nat /\ x * n \in Nat
      OBVIOUS
    <2> QED
      BY <1>2, <2>2, <2>3
  <1> QED
    BY <1>1, <1>2

(* So a smaller number stays smaller to the end.                           *)
LEMMA StaysLess ==
    ASSUME NEW g, NEW h, NEW a, Version(a), NEW b, Version(b), NEW n \in Nat, n <= MaxLen,
           Prefixes(a, g), Prefixes(b, h), g[n] < h[n]
    PROVE  g[MaxLen] < h[MaxLen]
  <1> DEFINE T == {k \in Nat : n + k <= MaxLen => g[n + k] < h[n + k]}
  <1>1. 0 \in T
    OBVIOUS
  <1>2. ASSUME NEW k \in T PROVE k + 1 \in T
    <2> SUFFICES ASSUME n + (k + 1) <= MaxLen PROVE g[n + (k + 1)] < h[n + (k + 1)]
      OBVIOUS
    <2>1. /\ k \in Nat /\ g[n + k] < h[n + k]
          /\ n + k \in 0..MaxLen /\ n + (k + 1) \in 1..MaxLen
          /\ n + (k + 1) - 1 = n + k
      BY VersionsAssumption
    <2>2. /\ g[n + (k + 1)] = g[n + k] * Base + Digit(a, n + (k + 1))
          /\ h[n + (k + 1)] = h[n + k] * Base + Digit(b, n + (k + 1))
      BY <2>1 DEF Prefixes
    <2>3. /\ Digit(a, n + (k + 1)) \in Nat /\ Digit(a, n + (k + 1)) < Base
          /\ Digit(b, n + (k + 1)) \in Nat
      BY <2>1, DigitFact
    <2>4. g[n + k] \in Nat /\ h[n + k] \in Nat
      BY <2>1 DEF Prefixes
    <2> QED
      BY <2>1, <2>2, <2>3, <2>4, Carries
  <1> HIDE DEF T
  <1>3. T = Nat
    BY <1>1, <1>2, Induct DEF T
  <1>4. MaxLen - n \in T /\ n + (MaxLen - n) = MaxLen
    BY <1>3, VersionsAssumption
  <1> QED
    BY <1>4 DEF T

(* The parts of compareVersions: both have run out, the loop ends here, and *)
(* where it does.                                                          *)
Ends(a, b, i)    == Component(a, i) < 0 /\ Component(b, i) < 0
Decided(a, b, i) == Ends(a, b, i) \/ Number(a, i) # Number(b, i)
Longest(a, b)    == IF Len(a) >= Len(b) THEN Len(a) ELSE Len(b)
Deciding(a, b)   ==
    CHOOSE i \in 1..(Longest(a, b) + 1) :
       Decided(a, b, i) /\ \A j \in 1..(i - 1) : ~Decided(a, b, j)

(* A component that has run out counts as 0.                               *)
LEMMA ComponentFact ==
    ASSUME NEW v, Version(v), NEW i \in Nat, i > 0
    PROVE  /\ Number(v, i) = Digit(v, i)
           /\ Component(v, i) < 0 <=> Len(v) < i
           /\ Len(v) \in Nat /\ Len(v) <= MaxLen
  <1>1. Len(v) \in Nat /\ Len(v) <= MaxLen
    BY DEF Version
  <1>2. CASE i <= Len(v)
    <2>1. v[i] \in Numbers
      BY <1>2 DEF Version
    <2>2. v[i] \in Nat
      BY <2>1, VersionsAssumption
    <2>3. Component(v, i) = v[i]
      BY <1>2 DEF Component
    <2>4. Number(v, i) = v[i] /\ Digit(v, i) = v[i]
      BY <1>2, <2>2, <2>3 DEF Number, Digit
    <2>5. ~(Component(v, i) < 0) /\ ~(Len(v) < i)
      BY <1>1, <1>2, <2>2, <2>3
    <2> QED
      BY <1>1, <2>4, <2>5
  <1>3. CASE ~(i <= Len(v))
    BY <1>1, <1>3 DEF Number, Component, Digit
  <1> QED
    BY <1>1, <1>2, <1>3

(* The loop ends, at the latest when the longer version has run out.       *)
LEMMA DecidingFact ==
    ASSUME NEW a, Version(a), NEW b, Version(b)
    PROVE  /\ Deciding(a, b) \in 1..(Longest(a, b) + 1)
           /\ Decided(a, b, Deciding(a, b))
           /\ \A j \in 1..(Deciding(a, b) - 1) : ~Decided(a, b, j)
  <1>1. Len(a) \in Nat /\ Len(b) \in Nat /\ Longest(a, b) \in Nat
        /\ Len(a) <= Longest(a, b) /\ Len(b) <= Longest(a, b)
    BY DEF Version, Longest
  <1> DEFINE n == Longest(a, b)
  <1> HIDE DEF n
  <1> DEFINE T == {i \in Nat : i > 0 /\ Decided(a, b, i)}
  <1>2. n + 1 \in T
    BY <1>1, ComponentFact DEF Decided, Ends, n
  <1>3. PICK x \in T : \A y \in T : x <= y
    BY <1>2, Least
  <1>4. x \in 1..(n + 1)
    BY <1>1, <1>2, <1>3 DEF n
  <1>5. \A j \in 1..(x - 1) : ~Decided(a, b, j)
    <2> SUFFICES ASSUME NEW j \in 1..(x - 1), Decided(a, b, j) PROVE FALSE
      OBVIOUS
    <2>1. j \in Nat /\ j > 0 /\ j < x
      BY <1>4, <1>1 DEF n
    <2> QED
      BY <1>3, <2>1
  <1>6. \E i \in 1..(n + 1) :
           Decided(a, b, i) /\ \A j \in 1..(i - 1) : ~Decided(a, b, j)
    BY <1>3, <1>4, <1>5
  <1> HIDE DEF T
  <1> QED
    BY <1>6 DEF Deciding, n

(* Comparing the versions compares the numbers.                            *)
LEMMA ComparisonFact ==
    ASSUME NEW a, Version(a), NEW b, Version(b)
    PROVE  CompareVersions(a, b) =
             (IF Value(a) < Value(b) THEN -1 ELSE IF Value(a) > Value(b) THEN 1 ELSE 0)
  <1> DEFINE at == Deciding(a, b)
  <1>1. CompareVersions(a, b) =
            IF Ends(a, b, at) THEN 0
            ELSE IF Number(a, at) < Number(b, at) THEN -1 ELSE 1
    BY DEF CompareVersions, Ends, Decided, Longest, Deciding
  <1> HIDE DEF at
  <1>2. Len(a) \in Nat /\ Len(b) \in Nat /\ Len(a) <= MaxLen /\ Len(b) <= MaxLen
        /\ MaxLen \in Nat
    BY VersionsAssumption DEF Version
  <1>3. /\ at \in Nat /\ at > 0 /\ Decided(a, b, at)
        /\ \A j \in 1..(at - 1) : ~Decided(a, b, j)
    BY <1>2, DecidingFact DEF at, Longest
  <1>4. \A j \in 1..(at - 1) : Digit(a, j) = Digit(b, j)
    BY <1>3, ComponentFact DEF Decided
  <1>5. PICK g : Value(a) = g[MaxLen] /\ Prefixes(a, g)
    BY ValueFact
  <1>6. PICK h : Value(b) = h[MaxLen] /\ Prefixes(b, h)
    BY ValueFact
  <1>7. Value(a) \in Nat /\ Value(b) \in Nat
    BY <1>2, <1>5, <1>6 DEF Prefixes
  <1>8. CASE Ends(a, b, at)
    <2>1. Len(a) < at /\ Len(b) < at
      BY <1>3, <1>8, ComponentFact DEF Ends
    <2>2. ASSUME NEW i \in 1..MaxLen PROVE Digit(a, i) = Digit(b, i)
      <3>1. CASE i < at
        BY <1>2, <1>3, <1>4, <3>1
      <3>2. CASE i >= at
        BY <1>2, <1>3, <2>1, <3>2 DEF Digit
      <3> QED
        BY <1>2, <1>3, <3>1, <3>2
    <2>3. SameDigits(a, b, MaxLen)
      BY <2>2 DEF SameDigits
    <2>4. g[MaxLen] = h[MaxLen]
      BY <1>2, <1>5, <1>6, <2>3, SameSoFar
    <2> QED
      BY <1>1, <1>5, <1>6, <1>7, <1>8, <2>4
  <1>9. CASE ~Ends(a, b, at)
    <2>1. Number(a, at) # Number(b, at)
      BY <1>3, <1>9 DEF Decided
    <2>2. /\ Number(a, at) = Digit(a, at) /\ Number(b, at) = Digit(b, at)
          /\ Digit(a, at) \in Nat /\ Digit(b, at) \in Nat
      BY <1>3, ComponentFact, DigitFact
    <2>3. at \in 1..MaxLen /\ at - 1 \in Nat /\ at - 1 <= MaxLen /\ at - 1 \in 0..MaxLen
      <3>1. ~(Len(a) < at /\ Len(b) < at)
        BY <1>3, <1>9, ComponentFact DEF Ends
      <3> QED
        BY <1>2, <1>3, <3>1
    <2>4. g[at - 1] = h[at - 1]
      <3>1. SameDigits(a, b, at - 1)
        BY <1>4 DEF SameDigits
      <3> QED
        BY <1>5, <1>6, <2>3, <3>1, SameSoFar
    <2>5. PICK x \in Int : x = g[at - 1] * Base
      <3>1. g[at - 1] \in Nat /\ Base \in Nat
        BY <1>5, <2>3, BaseFact DEF Prefixes
      <3>2. g[at - 1] * Base \in Int
        BY <3>1
      <3> QED
        BY <3>2
    <2>6. g[at] = x + Digit(a, at) /\ h[at] = x + Digit(b, at)
      BY <1>5, <1>6, <2>3, <2>4, <2>5 DEF Prefixes
    <2>7. CASE Digit(a, at) < Digit(b, at)
      <3>1. g[at] < h[at]
        BY <2>2, <2>6, <2>7
      <3>2. g[MaxLen] < h[MaxLen]
        BY <1>3, <1>5, <1>6, <2>3, <3>1, StaysLess
      <3> QED
        BY <1>1, <1>5, <1>6, <1>9, <2>2, <2>7, <3>2
    <2>8. CASE Digit(b, at) < Digit(a, at)
      <3>1. h[at] < g[at]
        BY <2>2, <2>6, <2>8
      <3>2. h[MaxLen] < g[MaxLen]
        BY <1>3, <1>5, <1>6, <2>3, <3>1, StaysLess
      <3>3. Value(a) > Value(b) /\ ~(Value(a) < Value(b))
        BY <1>5, <1>6, <1>7, <3>2
      <3>4. ~(Number(a, at) < Number(b, at))
        BY <2>2, <2>8
      <3> QED
        BY <1>1, <1>9, <3>3, <3>4
    <2> QED
      BY <2>1, <2>2, <2>7, <2>8
  <1> QED
    BY <1>8, <1>9

(* The versions stay versions.                                             *)
VersionsInv == Version(left) /\ Version(right)

(* Comparing two versions compares the numbers whose digits they are, for  *)
(* versions of any length with components of any size (compareVersions).   *)
THEOREM VersionsCompare == Spec => []VersionsAreNumbers
  <1>1. Init => VersionsInv
    BY VersionsAssumption DEF Init, VersionsInv, Version
  <1>2. VersionsInv /\ [Next]_vars => VersionsInv'
    <2> SUFFICES ASSUME VersionsInv, [Next]_vars PROVE VersionsInv'
      OBVIOUS
    <2>1. CASE Grow
      <3>1. PICK n \in Numbers :
              \/ Len(left) < MaxLen /\ left' = Append(left, n) /\ UNCHANGED right
              \/ Len(right) < MaxLen /\ right' = Append(right, n) /\ UNCHANGED left
        BY <2>1 DEF Grow
      <3>2. ASSUME NEW v, Version(v), Len(v) < MaxLen PROVE Version(Append(v, n))
        <4>1. /\ Append(v, n) \in Seq(Numbers) /\ Len(Append(v, n)) = Len(v) + 1
              /\ Len(v) \in Nat
          BY <3>2 DEF Version
        <4> QED
          BY <3>2, <4>1, VersionsAssumption DEF Version
      <3> QED
        BY <3>1, <3>2 DEF VersionsInv
    <2>2. CASE UNCHANGED <<left, right>>
      BY <2>2 DEF VersionsInv
    <2> QED
      BY <2>1, <2>2 DEF Next, Walk, Run, vars, versionVars
  <1>3. VersionsInv => VersionsAreNumbers
    BY ComparisonFact DEF VersionsInv, VersionsAreNumbers
  <1> QED
    BY <1>1, <1>2, <1>3, PTL DEF Spec
=============================================================================
