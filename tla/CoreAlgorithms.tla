--------------------------- MODULE CoreAlgorithms ---------------------------
(***************************************************************************)
(* Timers, Calendar and Versions in one specification that exercises one   *)
(* of them at a time: the timers run; a calendar is walked through, day by *)
(* day, as everybody counts days; two versions grow component by component.*)
(***************************************************************************)
EXTENDS Timers, Calendar, Versions

CONSTANTS
    Days,       \* bound: how many days are walked from each start
    Numbers,    \* components of versions
    MaxLen      \* bound: components of a version

(* Components are numbers, the code's being of 32 bits, and there is a     *)
(* largest one.                                                            *)
ASSUME VersionsAssumption ==
    /\ MaxLen \in Nat /\ Numbers \subseteq Nat
    /\ \E n \in Numbers : \A k \in Numbers : k <= n

VARIABLES
    subject,        \* timers, calendar, versions
    date, day,      \* the same day, as a date and as a number
    steps,          \* days walked
    left, right     \* two versions

calendarVars == <<date, day, steps>>
versionVars  == <<left, right>>
vars         == <<subject, timerVars, calendarVars, versionVars>>

-----------------------------------------------------------------------------
(* The calendar, as everybody knows it.                                    *)

Leap(y) == y % 4 = 0 /\ (y % 100 # 0 \/ y % 400 = 0)

DaysIn(y, m) == CASE m = 2 -> IF Leap(y) THEN 29 ELSE 28
                  [] m \in {4, 6, 9, 11} -> 30
                  [] OTHER -> 31

NextDay(d) ==
    IF d.day < DaysIn(d.year, d.month) THEN [year |-> d.year, month |-> d.month, day |-> d.day + 1]
    ELSE IF d.month < 12 THEN [year |-> d.year, month |-> d.month + 1, day |-> 1]
    ELSE [year |-> d.year + 1, month |-> 1, day |-> 1]

(* Days whose number is known: the first, the bounds of plausible(), and   *)
(* one of the period of 400 years.                                         *)
NewYear(y) == [year |-> y, month |-> 1, day |-> 1]
Starts == {[date |-> NewYear(1970), day |-> 0],
           [date |-> NewYear(2024), day |-> 19723],
           [date |-> NewYear(2099), day |-> 47482 - 365],
           [date |-> NewYear(2400), day |-> 10957 + 146097]}

-----------------------------------------------------------------------------
Quiet == rule = "backoff" /\ ms = 0

Init ==
    /\ subject \in {"timers", "calendar", "versions"}
    /\ TimersInit /\ (subject # "timers" => Quiet)
    /\ \E s \in Starts :
          /\ date = s.date /\ day = s.day
          /\ subject # "calendar" => s = CHOOSE t \in Starts : TRUE
    /\ steps = 0
    /\ left = <<>> /\ right = <<>>

Walk ==
    /\ subject = "calendar" /\ steps < Days
    /\ date' = NextDay(date) /\ day' = day + 1 /\ steps' = steps + 1
    /\ UNCHANGED <<subject, timerVars, versionVars>>

Grow ==
    /\ subject = "versions"
    /\ \E n \in Numbers :
          \/ Len(left) < MaxLen /\ left' = Append(left, n) /\ UNCHANGED right
          \/ Len(right) < MaxLen /\ right' = Append(right, n) /\ UNCHANGED left
    /\ UNCHANGED <<subject, timerVars, calendarVars>>

Run ==
    /\ subject = "timers" /\ TimersNext
    /\ UNCHANGED <<subject, calendarVars, versionVars>>

Next == Walk \/ Grow \/ Run

Spec == Init /\ [][Next]_vars

-----------------------------------------------------------------------------
(* The arithmetic of core/Iso8601 counts days as the calendar does, in     *)
(* both directions: month ends, leap days, a century without one and one   *)
(* with one.  The modem's clock, ahead of UTC or behind it, is turned into *)
(* the day it is in UTC, across midnight and all of these (daysFromCivil,  *)
(* civilFromDays, fromGsmLocal).                                           *)
DaysAreCalendarDays ==
    /\ CivilFromDays(day) = date
    /\ \A hour \in {0, 11, 23}, quarters \in {-48, -12, 0, 23, 56} :
          FromGsmLocal(date, hour * 3600, quarters).day =
              IF 4 * hour < quarters THEN day - 1
              ELSE IF 4 * hour - quarters >= 96 THEN day + 1
              ELSE day

(* A version is a number whose digits are its components, those it does    *)
(* not have being 0: comparing versions compares the numbers, whatever     *)
(* their lengths (compareVersions).                                        *)
Base == 1 + CHOOSE n \in Numbers : \A k \in Numbers : k <= n
Value(v) ==
    LET value[i \in 0..MaxLen] ==
            IF i = 0 THEN 0 ELSE value[i - 1] * Base + (IF i <= Len(v) THEN v[i] ELSE 0)
    IN value[MaxLen]

VersionsAreNumbers ==
    CompareVersions(left, right) =
        (IF Value(left) < Value(right) THEN -1
         ELSE IF Value(left) > Value(right) THEN 1 ELSE 0)
=============================================================================
