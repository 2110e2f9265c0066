------------------------------- MODULE Timers -------------------------------
(***************************************************************************)
(* The waits of the library, on millis(), a counter of 32 bits that wraps  *)
(* after 49 days.  A pass of loop() reads it once (now) and may then block *)
(* in a request, so it can be old when the outcome is noted.  There are    *)
(* three rules, of which one is chosen at the start:                       *)
(*   backoff  core/Backoff: elapsed time, from the start of the pass       *)
(*   link     GsmLink::fail: a deadline, from the start of the pass        *)
(*   session  GsmMqttClient::loop: a deadline, from the failure            *)
(***************************************************************************)
EXTENDS Integers, Sequences

CONSTANTS
    Wrap,           \* 2^32 in the code
    Steps,          \* table of delays
    Parts, Percent, \* a delay is varied by Percent of its Parts (20, 100)
    MaxBlock,       \* bound: longest request
    MaxGap          \* bound: longest time between two passes

ASSUME TimersAssumption ==
    /\ Wrap \in Nat \ {0} /\ Steps \in Seq(Nat) /\ Len(Steps) > 0
    /\ Parts \in Nat \ {0} /\ Percent \in 0..Parts
    /\ MaxBlock \in Nat /\ MaxGap \in Nat

(* The longest wait, with whatever may delay its end, is minutes; the      *)
(* counter wraps after weeks.                                              *)
ASSUME LongestWait ==
    \A i \in 1..Len(Steps) :
        Steps[i] + (Steps[i] \div Parts) * Percent + MaxBlock + MaxGap < Wrap

VARIABLES
    rule,
    ms,         \* millis()
    now,        \* what the current pass has read
    pc,         \* loop, pass, request
    up,         \* the last request succeeded and nothing was lost since
    attempts,   \* failures in a row, as far as they are counted
    armed,      \* a failure is being waited for
    from,       \* backoff: _last_fail_ms
    until,      \* link, session: _next_try, _proxima_tentativa
    delay,      \* the current delay
    gap, busy,  \* time since the last pass, duration of the last request
    \* observation only: never read by an action
    waited,     \* time since the failure
    crossed     \* the wait has the wrap in it

timerVars == <<rule, ms, now, pc, up, attempts, armed, from, until, delay, gap, busy,
               waited, crossed>>

TimersInit ==
    /\ rule \in {"backoff", "link", "session"}
    /\ ms \in 0..(Wrap - 1) /\ now = ms /\ pc = "loop" /\ up = FALSE
    /\ attempts = 0 /\ armed = FALSE /\ from = 0 /\ until = 0 /\ delay = 0
    /\ gap = 0 /\ busy = 0 /\ waited = 0 /\ crossed = FALSE

-----------------------------------------------------------------------------
Tick ==
    /\ \/ pc = "loop" /\ gap < MaxGap /\ gap' = gap + 1 /\ UNCHANGED busy
       \/ pc = "request" /\ busy < MaxBlock /\ busy' = busy + 1 /\ UNCHANGED gap
    /\ ms' = (ms + 1) % Wrap
    /\ waited' = IF armed /\ pc = "loop" /\ waited < Wrap THEN waited + 1 ELSE waited
    /\ crossed' = (crossed \/ (armed /\ ms' = 0))
    /\ UNCHANGED <<rule, now, pc, up, attempts, armed, from, until, delay>>

WaitVars == <<rule, ms, attempts, armed, from, delay, busy, waited, crossed>>

StartPass ==
    /\ pc = "loop"
    /\ now' = ms /\ gap' = 0 /\ pc' = "pass"
    /\ UNCHANGED <<up, until, WaitVars>>

(* Mutant: a moment is computed and compared.                              *)
PastMoment == now >= (from + delay) % Wrap

(* Backoff::ready: unsigned subtraction.                                   *)
Elapsed == (now - from) % Wrap >= delay

(* GsmLink::loop and GsmMqttClient::loop: if (now < ...) return.           *)
DeadlineOver == now >= until

Due == CASE rule = "backoff" -> ~armed \/ Elapsed
         [] rule = "link"    -> ~armed \/ DeadlineOver
         [] rule = "session" -> DeadlineOver

Idle ==
    /\ pc = "pass" /\ (up \/ ~Due)
    /\ pc' = "loop"
    /\ UNCHANGED <<now, gap, up, until, WaitVars>>

(* The wait is over, if there was one.                                     *)
Request ==
    /\ pc = "pass" /\ ~up /\ Due
    /\ pc' = "request" /\ busy' = 0
    /\ UNCHANGED <<rule, ms, now, up, attempts, armed, from, until, delay, gap,
                   waited, crossed>>

(* The last step of the table is repeated.                                 *)
StepOf(n) == Steps[IF n < Len(Steps) THEN n + 1 ELSE Len(Steps)]

(* applyJitter: both ways, by whole percents.                              *)
Delays(base) ==
    LET span == IF rule = "backoff" THEN (base \div Parts) * Percent ELSE 0
    IN (base - span)..(base + span)

Fails ==
    /\ pc = "request"
    /\ delay' \in Delays(StepOf(attempts))
    /\ LET start == IF rule = "session" THEN ms ELSE now
       IN /\ IF rule = "backoff" THEN from' = now /\ UNCHANGED until
             ELSE until' = (start + delay') % Wrap /\ UNCHANGED from
          /\ crossed' = (start + delay' >= Wrap \/ ms < now)
    /\ attempts' = IF attempts < Len(Steps) THEN attempts + 1 ELSE attempts
    /\ armed' = TRUE /\ waited' = 0 /\ pc' = "loop"
    /\ UNCHANGED <<rule, ms, now, up, gap, busy>>

(* Backoff::reset, _failures = 0, _falhas = 0.                             *)
Succeeds ==
    /\ pc = "request"
    /\ up' = TRUE /\ attempts' = 0 /\ armed' = FALSE
    /\ waited' = 0 /\ crossed' = FALSE /\ pc' = "loop"
    /\ IF rule = "backoff" THEN from' = 0 /\ delay' = 0 ELSE UNCHANGED <<from, delay>>
    /\ UNCHANGED <<rule, ms, now, until, gap, busy>>

(* What was up is lost.  The cellular session is to be opened at once.     *)
Lost ==
    /\ pc = "pass" /\ up
    /\ up' = FALSE /\ pc' = "loop"
    /\ until' = IF rule = "session" THEN now ELSE until
    /\ UNCHANGED <<now, gap, WaitVars>>

Pass == StartPass \/ Idle \/ Request

TimersNext == Tick \/ Pass \/ Fails \/ Succeeds \/ Lost

-----------------------------------------------------------------------------
(* What a wait is measured from.                                           *)
Since == IF rule = "session" THEN waited ELSE waited + busy

(* A wait ends when its delay is over, neither earlier nor later, and the  *)
(* wrap of the counter does not matter where time is subtracted: for       *)
(* core/Backoff it may fall anywhere, also into the request.  The two      *)
(* rules of the modem compare moments and hold only outside of the wrap.   *)
WaitIsItsDelay ==
    pc = "pass" /\ armed /\ (rule = "backoff" \/ ~crossed) =>
        (Due <=> Since >= delay)

TimersTypeOK ==
    /\ rule \in {"backoff", "link", "session"} /\ pc \in {"loop", "pass", "request"}
    /\ ms \in 0..(Wrap - 1) /\ now \in 0..(Wrap - 1) /\ from \in 0..(Wrap - 1)
    /\ until \in 0..(Wrap - 1) /\ delay \in Int /\ attempts \in 0..Len(Steps)
    /\ gap \in 0..MaxGap /\ busy \in 0..MaxBlock /\ waited \in Nat
    /\ up \in BOOLEAN /\ armed \in BOOLEAN /\ crossed \in BOOLEAN

(* A pass sees the time at which it began; a request is made only when     *)
(* nothing is up, and only then can a failure be waited for.               *)
PassInv ==
    /\ pc = "pass" => now = ms
    /\ pc = "request" => ~up /\ ms = (now + busy) % Wrap
    /\ armed => ~up

(* Backoff: the counter is as far from the failure as time is, because the *)
(* wait is looked at before the counter can come round to it again.        *)
ElapsedInv ==
    armed /\ pc # "request" /\ rule = "backoff" =>
        LET pause == IF pc = "loop" THEN gap ELSE MaxGap IN
        /\ ms = (from + waited + busy) % Wrap
        /\ waited <= pause \/ waited + busy < delay + pause
        /\ delay + MaxBlock + MaxGap < Wrap

(* The modem's deadlines: outside of the wrap the moment waited for is the *)
(* failure's and its delay.                                                *)
DeadlineInv ==
    armed /\ pc # "request" /\ rule # "backoff" /\ ~crossed =>
        until >= delay /\ ms + delay = until + Since

TimersInv == TimersTypeOK /\ PassInv /\ ElapsedInv /\ DeadlineInv

(* Backoff.h: ready once the delay has elapsed since the last failure.     *)
WaitsAfterFailure == pc = "pass" /\ armed /\ rule = "backoff" /\ Due => waited >= delay
=============================================================================
