------------------------------ MODULE Timestamps -----------------------------
(***************************************************************************)
(* The server reads ISO 8601 timestamps with two hand-written functions:   *)
(* parse_iso_to_epoch_secs (server/src/discovery/scanner.rs) for the times *)
(* of sessions, parse_iso_timestamp (server/src/parser/mod.rs) for those   *)
(* of messages.  Here a calendar is walked day by day from the epoch, and  *)
(* both are asked at every day.                                            *)
(*                                                                         *)
(* A timestamp is the tuple of its numbers, a number of seconds the pair   *)
(* of its days and the seconds of its last day (the sum of the two would   *)
(* not fit TLC's integers).  The walk produces real dates only; what the   *)
(* two do with month 13 or with a time zone is not asked.                  *)
(***************************************************************************)
EXTENDS Naturals, Sequences, FiniteSets

CONSTANT LastYear       \* bound on the walk

ASSUME TimestampsAssumption == LastYear \in Nat

VARIABLES
    day,        \* the day reached: year, month and day
    elapsed     \* days walked since the epoch

timestampVars == <<day, elapsed>>

(***************************************************************************)
(* parse_iso_timestamp.                                                    *)
(***************************************************************************)
\* Mutation: the rule of the Julian calendar.
IsLeapYear_Julian(y) == y % 4 = 0

IsLeapYear(y) == (y % 4 = 0 /\ y % 100 # 0) \/ y % 400 = 0

MonthDays == <<31, 28, 31, 30, 31, 30, 31, 31, 30, 31, 30, 31>>

DaysBeforeYear(year) ==
    LET years == 1970..(year - 1)
    IN  365 * Cardinality(years) + Cardinality({y \in years : IsLeapYear(y)})

\* The sum of the first n entries.
DaysOf(n) ==
    LET sum[i \in 0..n] == IF i = 0 THEN 0 ELSE sum[i - 1] + MonthDays[i]
    IN  sum[n]

ParseIsoTimestamp(d, time) ==
    LET days == DaysBeforeYear(d[1]) + DaysOf(d[2] - 1)
                + (IF d[2] > 2 /\ IsLeapYear(d[1]) THEN 1 ELSE 0) + d[3] - 1
    IN  <<days, time[1] * 3600 + time[2] * 60 + time[3]>>

(***************************************************************************)
(* parse_iso_to_epoch_secs: it rejects a month or day out of range, and    *)
(* adds the leap day as it passes over February.                           *)
(***************************************************************************)
ParseIsoToEpochSecs(d, time) ==
    LET months[m \in 0..11] ==
            IF m = 0 THEN 0
            ELSE months[m - 1] + MonthDays[m]
                 + (IF m - 1 = 1 /\ IsLeapYear(d[1]) THEN 1 ELSE 0)
    IN  IF d[2] \in 1..12 /\ d[3] \in 1..31
        THEN <<DaysBeforeYear(d[1]) + months[d[2] - 1] + d[3] - 1,
               time[1] * 3600 + time[2] * 60 + time[3]>>
        ELSE <<>>

-----------------------------------------------------------------------------
(* The walk: the calendar, independently of the above.                     *)

TimestampsInit == day = <<1970, 1, 1>> /\ elapsed = 0

IsLongFebruary(y) == IF y % 100 = 0 THEN y % 400 = 0 ELSE y % 4 = 0

MonthEnds(y, m) ==
    CASE m \in {4, 6, 9, 11} -> 30
      [] m = 2 -> IF IsLongFebruary(y) THEN 29 ELSE 28
      [] OTHER -> 31

NextDay ==
    /\ day[1] <= LastYear
    /\ day' = CASE day[3] < MonthEnds(day[1], day[2]) -> <<day[1], day[2], day[3] + 1>>
                [] day[2] < 12 -> <<day[1], day[2] + 1, 1>>
                [] OTHER -> <<day[1] + 1, 1, 1>>
    /\ elapsed' = elapsed + 1

TimestampsSpec == TimestampsInit /\ [][NextDay]_timestampVars

\* Both functions give the seconds since the epoch, for every day up to the
\* year 2100 and the first and the last second of it.
\* (parser/mod.rs:147-182, scanner.rs:524-568.)
CalendarsAgree ==
    \A time \in {<<0, 0, 0>>, <<23, 59, 59>>} :
        LET secs == <<elapsed, time[1] * 3600 + time[2] * 60 + time[3]>>
        IN  /\ ParseIsoTimestamp(day, time) = secs
            /\ ParseIsoToEpochSecs(day, time) = secs
=============================================================================
