------------------------------ MODULE Calendar ------------------------------
(***************************************************************************)
(* core/Iso8601: civil dates and moments.  A moment, an int64 of seconds   *)
(* since 1970 in the code, is a day and a second of that day.              *)
(***************************************************************************)
EXTENDS Integers

SecondsOfDay == 86400

Moment(day, second) ==
    [day |-> day + second \div SecondsOfDay, second |-> second % SecondsOfDay]

(* Mutant: the year begins in January.                                     *)
JanuaryDays(y, m, d) ==
    LET yoe == y % 400
        doy == (153 * (m - 1) + 2) \div 5 + d - 1
    IN (y \div 400) * 146097 + yoe * 365 + yoe \div 4 - yoe \div 100 + doy - 719468

(* Days since 1970.  The year begins in March, so that a leap day ends it. *)
DaysFromCivil(y, m, d) ==
    LET yy  == IF m <= 2 THEN y - 1 ELSE y
        era == yy \div 400
        yoe == yy - era * 400
        doy == (153 * (m + IF m > 2 THEN -3 ELSE 9) + 2) \div 5 + d - 1
        doe == yoe * 365 + yoe \div 4 - yoe \div 100 + doy
    IN era * 146097 + doe - 719468

(* The year that a day of an era of 400 years is in: 365 days each, but    *)
(* for the leap days.                                                      *)
YearOf(doe) == (doe - doe \div 1460 + doe \div 36524 - doe \div 146096) \div 365

CivilFromDays(days) ==
    LET z   == days + 719468
        era == z \div 146097
        doe == z - era * 146097
        yoe == YearOf(doe)
        doy == doe - (365 * yoe + yoe \div 4 - yoe \div 100)
        mp  == (5 * doy + 2) \div 153
        m   == mp + IF mp < 10 THEN 3 ELSE -9
    IN [year  |-> yoe + era * 400 + (IF m <= 2 THEN 1 ELSE 0),
        month |-> m,
        day   |-> doy - (153 * mp + 2) \div 5 + 1]

ToEpoch(date, second) == Moment(DaysFromCivil(date.year, date.month, date.day), second)

(* The modem's clock and its offset from UTC, in quarters of an hour.      *)
FromGsmLocal(date, second, quarters) ==
    LET local == ToEpoch(date, second)
    IN Moment(local.day, local.second - quarters * 15 * 60)
=============================================================================
