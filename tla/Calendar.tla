------------------------------ MODULE Calendar ------------------------------
(***************************************************************************)
(* Dates.  The repository converts between calendar and epoch in three     *)
(* hand-written places: the recorder names a session after the moment it   *)
(* starts (crates/storage/src/lib.rs), the Gamma adapter reads the dates   *)
(* of a market (crates/market_registry/src/gamma.rs), and the replayer     *)
(* reads the same dates again from what was recorded                       *)
(* (crates/replayer/src/decode/polymarket.rs).                             *)
(*                                                                         *)
(* An epoch is the pair of its day and the second of that day, days *      *)
(* 86400 + sod in the code: TLC's integers have 32 bits.  A date string is *)
(* the record of its parts; `zone` is what follows the time of day.        *)
(***************************************************************************)
EXTENDS Integers, FiniteSets

NoTime == << >>     \* None

(* Mutant: the year still begins in January.                               *)
DaysFromJanuary(y, m, d) ==
  LET era == y \div 400
      yoe == y - era * 400
      doy == (153 * (IF m > 2 THEN m - 3 ELSE m + 9) + 2) \div 5 + d - 1
      doe == yoe * 365 + yoe \div 4 - yoe \div 100 + doy
  IN  era * 146097 + doe - 719468

(* Hinnant's days_from_civil, which both parsers use.                      *)
DaysFromCivil(y, m, d) ==
  LET y1  == IF m <= 2 THEN y - 1 ELSE y
      era == y1 \div 400
      yoe == y1 - era * 400
      doy == (153 * (IF m > 2 THEN m - 3 ELSE m + 9) + 2) \div 5 + d - 1
      doe == yoe * 365 + yoe \div 4 - yoe \div 100 + doy
  IN  era * 146097 + doe - 719468

SecondOfDay(t) == t.h * 3600 + t.mi * 60 + (IF t.secs THEN t.s ELSE 0)

InMonth(t) == t.mo \in 1 .. 12 /\ t.d \in 1 .. 31

(* parse_iso8601_to_epoch of the Gamma adapter: UTC only, every part there *)
(* and in its range.                                                       *)
GammaEpoch(t) ==
  IF /\ t.zone \in {"Z", "+00:00", "-00:00"}
     /\ t.secs
     /\ InMonth(t)
     /\ t.h <= 23 /\ t.mi <= 59 /\ t.s <= 59
  THEN <<DaysFromCivil(t.y, t.mo, t.d), SecondOfDay(t)>>
  ELSE NoTime

(* parse_iso8601_to_epoch of the decoder: any zone counts as UTC, seconds  *)
(* can be missing, and the time of day is not checked.                     *)
DecodedEpoch(t) ==
  IF InMonth(t)
  THEN <<DaysFromCivil(t.y, t.mo, t.d), SecondOfDay(t)>>
  ELSE NoTime

(* epoch_secs_to_utc: the date of a session's name.                        *)
CivilFromDays(days) ==
  LET z   == days + 719468
      era == z \div 146097
      doe == z - era * 146097
      yoe == (doe - doe \div 1460 + doe \div 36524 - doe \div 146096) \div 365
      doy == doe - (365 * yoe + yoe \div 4 - yoe \div 100)
      mp  == (5 * doy + 2) \div 153
      m   == IF mp < 10 THEN mp + 3 ELSE mp - 9
      y   == yoe + era * 400
  IN  [y  |-> IF m <= 2 THEN y + 1 ELSE y,
       mo |-> m,
       d  |-> doy - (153 * mp + 2) \div 5 + 1]

-----------------------------------------------------------------------------
(* The calendar itself, day by day.                                        *)

Leap(y) == y % 4 = 0 /\ (y % 100 # 0 \/ y % 400 = 0)

MonthLength(y, m) ==
  CASE m = 2 -> IF Leap(y) THEN 29 ELSE 28
    [] m \in {4, 6, 9, 11} -> 30
    [] OTHER -> 31

RealDate(t) == t.d <= MonthLength(t.y, t.mo)

(* Days before the first of month m of a year that is not a leap year.     *)
DaysBefore == <<0, 31, 59, 90, 120, 151, 181, 212, 243, 273, 304, 334>>

(* Days since 1970-01-01, counted; days before it are negative.            *)
DaysSince1970(y, m, d) ==
  365 * (y - 1970)
    + Cardinality({k \in 1970 .. y - 1 : Leap(k)}) - Cardinality({k \in y .. 1969 : Leap(k)})
    + DaysBefore[m] + (IF m > 2 /\ Leap(y) THEN 1 ELSE 0) + d - 1

(* The epoch of a date and a time of day.                                  *)
Counted(t) ==
  << DaysSince1970(t.y, t.mo, t.d), t.h * 3600 + t.mi * 60 + t.s >>
=============================================================================
