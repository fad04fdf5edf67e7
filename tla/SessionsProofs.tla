--------------------------- MODULE SessionsProofs ---------------------------
(***************************************************************************)
(* Sessions are named in the order of time, and whatever disk_guard does,  *)
(* every file can be read and a running recorder's session is left alone:  *)
(* for any streams, any first day, and any number of ticks, sessions,      *)
(* files and kills.                                                        *)
(***************************************************************************)
EXTENDS Sessions, WellFoundedInduction, TLAPS

(* Whole division, as bounds.                                              *)
LEMMA Floor ==
  ASSUME NEW x \in Nat, NEW s \in Nat, s > 0
  PROVE  x \div s \in Nat /\ s * (x \div s) <= x /\ x < s * (x \div s) + s
  OBVIOUS

(* Days before year y of an era of 400 years that begin in March.          *)
YearStart(y) == 365 * y + y \div 4 - y \div 100 + y \div 400

(* The year of an era in which a day lies, and the day's place in it.      *)
YearOf(doe)     == (doe - doe \div 1460 + doe \div 36524 - doe \div 146096) \div 365
DayOfYear(doe)  == doe - (365 * YearOf(doe) + YearOf(doe) \div 4 - YearOf(doe) \div 100)
MonthOf(doy)    == (5 * doy + 2) \div 153
MonthStart(mp)  == (153 * mp + 2) \div 5

(* The year that the code computes has begun on that day.                  *)
LEMMA YearHasBegun ==
  ASSUME NEW doe \in Nat, doe <= 146096,
         NEW a \in Nat, 1460 * a <= doe, doe < 1460 * a + 1460,
         NEW b \in Nat, 36524 * b <= doe, doe < 36524 * b + 36524,
         NEW c \in Nat, 146096 * c <= doe, doe < 146096 * c + 146096,
         NEW y \in Nat, 365 * y <= doe - a + b - c, doe - a + b - c < 365 * y + 365,
         NEW p \in Nat, 4 * p <= y, y < 4 * p + 4,
         NEW q \in Nat, 100 * q <= y, y < 100 * q + 100
  PROVE  y <= 399 /\ 365 * y + p - q <= doe
<1>1. b \in 0 .. 4 /\ c \in 0 .. 1
  OBVIOUS
<1>2. CASE b = 0
  BY <1>2
<1>3. CASE b = 1
  BY <1>3
<1>4. CASE b = 2
  BY <1>4
<1>5. CASE b = 3
  BY <1>5
<1>6. CASE b = 4
  BY <1>6
<1>7. QED
  BY <1>1, <1>2, <1>3, <1>4, <1>5, <1>6

(* And the next one has not.                                               *)
LEMMA YearHasNotEnded ==
  ASSUME NEW doe \in Nat, doe <= 146096,
         NEW a \in Nat, 1460 * a <= doe, doe < 1460 * a + 1460,
         NEW b \in Nat, 36524 * b <= doe, doe < 36524 * b + 36524,
         NEW c \in Nat, 146096 * c <= doe, doe < 146096 * c + 146096,
         NEW y \in Nat, 365 * y <= doe - a + b - c, doe - a + b - c < 365 * y + 365,
         NEW p \in Nat, 4 * p <= y + 1, y + 1 < 4 * p + 4,
         NEW q \in Nat, 100 * q <= y + 1, y + 1 < 100 * q + 100,
         NEW r \in Nat, 400 * r <= y + 1, y + 1 < 400 * r + 400
  PROVE  doe < 365 * (y + 1) + p - q + r
<1>1. b \in 0 .. 4 /\ c \in 0 .. 1
  OBVIOUS
<1>2. CASE b = 0
  BY <1>2
<1>3. CASE b = 1
  BY <1>3
<1>4. CASE b = 2
  BY <1>4
<1>5. CASE b = 3
  BY <1>5
<1>6. CASE b = 4
  BY <1>6
<1>7. QED
  BY <1>1, <1>2, <1>3, <1>4, <1>5, <1>6

(* Each day lies in the year that the code gives it.                       *)
LEMMA YearHoldsDay ==
  ASSUME NEW doe \in Nat, doe <= 146096
  PROVE  /\ YearOf(doe) \in Nat /\ YearOf(doe) <= 399 /\ DayOfYear(doe) \in Int
         /\ DayOfYear(doe) = doe - YearStart(YearOf(doe))
         /\ YearStart(YearOf(doe)) <= doe /\ doe < YearStart(YearOf(doe) + 1)
<1> DEFINE Fits(q, s, x) == q \in Nat /\ s * q <= x /\ x < s * q + s
<1>1. \A x \in Nat : /\ Fits(x \div 4, 4, x) /\ Fits(x \div 100, 100, x)
                    /\ Fits(x \div 365, 365, x) /\ Fits(x \div 400, 400, x)
                    /\ Fits(x \div 1460, 1460, x) /\ Fits(x \div 36524, 36524, x)
                    /\ Fits(x \div 146096, 146096, x)
  BY SMT
<1>2. PICK a \in Nat : a = doe \div 1460 /\ 1460 * a <= doe /\ doe < 1460 * a + 1460
  BY <1>1, SMT
<1>3. PICK b \in Nat : b = doe \div 36524 /\ 36524 * b <= doe /\ doe < 36524 * b + 36524
  BY <1>1, SMT
<1>4. PICK c \in Nat : c = doe \div 146096 /\ 146096 * c <= doe /\ doe < 146096 * c + 146096
  BY <1>1, SMT
<1>5. PICK x \in Nat : x = doe - a + b - c
  BY <1>2, <1>3, <1>4, SMT
<1>6. YearOf(doe) = x \div 365
  BY <1>2, <1>3, <1>4, <1>5, SMT DEF YearOf
<1>7. PICK y \in Nat : y = YearOf(doe) /\ 365 * y <= x /\ x < 365 * y + 365
  BY <1>1, <1>6, SMT
<1>8. PICK p \in Nat : p = y \div 4 /\ 4 * p <= y /\ y < 4 * p + 4
  BY <1>1, SMT
<1>9. PICK q \in Nat : q = y \div 100 /\ 100 * q <= y /\ y < 100 * q + 100
  BY <1>1, SMT
<1>10. y <= 399 /\ 365 * y + p - q <= doe
  BY <1>2, <1>3, <1>4, <1>5, <1>7, <1>8, <1>9, YearHasBegun, SMTT(60)
<1>11. YearStart(y) = 365 * y + p - q
  BY <1>8, <1>9, <1>10, SMT DEF YearStart
<1>12. PICK p1 \in Nat : p1 = (y + 1) \div 4 /\ 4 * p1 <= y + 1 /\ y + 1 < 4 * p1 + 4
  BY <1>1, SMT
<1>13. PICK q1 \in Nat : q1 = (y + 1) \div 100 /\ 100 * q1 <= y + 1 /\ y + 1 < 100 * q1 + 100
  BY <1>1, SMT
<1>14. PICK r1 \in Nat : r1 = (y + 1) \div 400 /\ 400 * r1 <= y + 1 /\ y + 1 < 400 * r1 + 400
  BY <1>1, SMT
<1>15. doe < 365 * (y + 1) + p1 - q1 + r1
  BY <1>2, <1>3, <1>4, <1>5, <1>7, <1>12, <1>13, <1>14, YearHasNotEnded, SMTT(60)
<1>16. doe < YearStart(y + 1)
  BY <1>12, <1>13, <1>14, <1>15, SMT DEF YearStart
<1>17. DayOfYear(doe) = doe - YearStart(y)
  BY <1>7, <1>8, <1>9, <1>11, SMT DEF DayOfYear
<1>18. YearStart(y) \in Int
  BY <1>11, SMT
<1>19. QED
  BY <1>7, <1>10, <1>11, <1>16, <1>17, <1>18, SMT

(* Years begin in the order of their numbers.                              *)
LEMMA YearsInOrder ==
  ASSUME NEW a \in Nat, NEW b \in Nat, a <= b
  PROVE  YearStart(a) \in Nat /\ YearStart(b) \in Nat /\ YearStart(a) <= YearStart(b)
  BY DEF YearStart

(* They have at most 366 days.                                             *)
LEMMA YearIsBounded ==
  ASSUME NEW y \in Nat, y <= 399
  PROVE  YearStart(y + 1) <= YearStart(y) + 366
  BY DEF YearStart

(* Each day of a year lies in the month that the code gives it.            *)
LEMMA MonthHoldsDay ==
  ASSUME NEW doy \in Nat, doy <= 365
  PROVE  /\ MonthOf(doy) \in 0 .. 11
         /\ MonthStart(MonthOf(doy)) \in Nat /\ MonthStart(MonthOf(doy) + 1) \in Nat
         /\ MonthStart(MonthOf(doy)) <= doy /\ doy < MonthStart(MonthOf(doy) + 1)
  BY DEF MonthOf, MonthStart

(* Months begin in the order of their numbers.                             *)
LEMMA MonthsInOrder ==
  ASSUME NEW a \in 0 .. 12, NEW b \in 0 .. 12, a <= b
  PROVE  MonthStart(a) <= MonthStart(b)
  BY DEF MonthStart

(* A date by the year that begins in March, its month and its day, as      *)
(* CivilFromDays computes them.                                            *)
EraOf(days)     == (days + 719468) \div 146097
DayOfEra(days)  == (days + 719468) - EraOf(days) * 146097
MarchYear(days) == YearOf(DayOfEra(days)) + EraOf(days) * 400
MarchMonth(days) == MonthOf(DayOfYear(DayOfEra(days)))
DayOf(days) == DayOfYear(DayOfEra(days)) - MonthStart(MarchMonth(days)) + 1

(* CivilFromDays is made of these parts.                                   *)
LEMMA CivilParts ==
  ASSUME NEW days
  PROVE  LET mp == MarchMonth(days)
             m  == IF mp < 10 THEN mp + 3 ELSE mp - 9
         IN  CivilFromDays(days) = [y  |-> IF m <= 2 THEN MarchYear(days) + 1
                                           ELSE MarchYear(days),
                                    mo |-> m,
                                    d  |-> DayOf(days)]
  BY SMT DEF CivilFromDays, MarchYear, MarchMonth, DayOf, EraOf, DayOfEra, YearOf,
         DayOfYear, MonthOf, MonthStart

(* The day of an era is one of its 146097.                                 *)
LEMMA EraHoldsDay ==
  ASSUME NEW days \in Nat
  PROVE  /\ EraOf(days) \in Nat /\ DayOfEra(days) \in Nat /\ DayOfEra(days) <= 146096
         /\ days + 719468 = 146097 * EraOf(days) + DayOfEra(days)
  BY SMT DEF EraOf, DayOfEra

(* The year, the month and the day of a day, all in their ranges.          *)
LEMMA PartsOfDay ==
  ASSUME NEW days \in Nat
  PROVE  LET doe == DayOfEra(days)
             y   == YearOf(doe)
             doy == DayOfYear(doe)
             mp  == MarchMonth(days)
         IN  /\ y \in Nat /\ y <= 399 /\ MarchYear(days) = y + EraOf(days) * 400
             /\ YearStart(y) \in Nat /\ YearStart(y + 1) \in Nat
             /\ YearStart(y) <= doe /\ doe < YearStart(y + 1)
             /\ doy \in Nat /\ doy <= 365 /\ doy = doe - YearStart(y)
             /\ mp \in 0 .. 11
             /\ MonthStart(mp) \in Nat /\ MonthStart(mp + 1) \in Nat
             /\ MonthStart(mp) <= doy /\ doy < MonthStart(mp + 1)
             /\ DayOf(days) = doy - MonthStart(mp) + 1
<1>1. PICK doe \in Nat : doe = DayOfEra(days) /\ doe <= 146096
  BY EraHoldsDay, SMT
<1>2. PICK y \in Nat : y = YearOf(doe) /\ y <= 399
  BY <1>1, YearHoldsDay, SMT
<1>3. YearStart(y) \in Nat /\ YearStart(y + 1) \in Nat
  BY <1>2, YearsInOrder, SMT
<1>4. /\ DayOfYear(doe) = doe - YearStart(y)
      /\ YearStart(y) <= doe /\ doe < YearStart(y + 1)
  BY <1>1, <1>2, YearHoldsDay, SMT
<1>5. PICK doy \in Nat : doy = DayOfYear(doe) /\ doy <= 365
  BY <1>1, <1>2, <1>3, <1>4, YearIsBounded, SMT
<1>6. PICK mp \in 0 .. 11 : mp = MonthOf(doy)
  BY <1>5, MonthHoldsDay, SMT
<1>7. /\ MonthStart(mp) \in Nat /\ MonthStart(mp + 1) \in Nat
      /\ MonthStart(mp) <= doy /\ doy < MonthStart(mp + 1)
  BY <1>5, <1>6, MonthHoldsDay, SMT
<1>8. MarchMonth(days) = mp
  BY <1>1, <1>5, <1>6, SMT DEF MarchMonth
<1>9. DayOf(days) = doy - MonthStart(mp) + 1
  BY <1>1, <1>5, <1>8, SMT DEF DayOf
<1>10. MarchYear(days) = y + EraOf(days) * 400
  BY <1>1, <1>2, SMT DEF MarchYear
<1>11. QED
  BY <1>1, <1>2, <1>3, <1>4, <1>5, <1>6, <1>7, <1>8, <1>9, <1>10, SMT

(* The month and the year are numbers.                                     *)
LEMMA PartsType ==
  ASSUME NEW days \in Nat
  PROVE  MarchMonth(days) \in 0 .. 11 /\ MarchYear(days) \in Nat
<1>1. MarchMonth(days) \in 0 .. 11
  BY PartsOfDay, SMT
<1>2. PICK e \in Nat : e = EraOf(days)
  BY EraHoldsDay, SMT
<1>3. PICK y \in Nat : MarchYear(days) = y + EraOf(days) * 400
  BY PartsOfDay, SMT
<1>4. QED
  BY <1>1, <1>2, <1>3, SMT

(* A later day has a later year, or a later month in the same year, or is  *)
(* a later day of the same month.                                          *)
LEMMA MarchDatesInOrder ==
  ASSUME NEW a \in Nat, NEW b \in Nat, a < b
  PROVE  \/ MarchYear(a) < MarchYear(b)
         \/ MarchYear(a) = MarchYear(b) /\ MarchMonth(a) < MarchMonth(b)
         \/ /\ MarchYear(a) = MarchYear(b) /\ MarchMonth(a) = MarchMonth(b)
            /\ DayOf(a) < DayOf(b)
<1>1. PICK ea \in Nat, eb \in Nat : ea = EraOf(a) /\ eb = EraOf(b)
  BY EraHoldsDay, SMT
<1>2. PICK da \in Nat, db \in Nat : da = DayOfEra(a) /\ db = DayOfEra(b)
  BY EraHoldsDay, SMT
<1>3. /\ da <= 146096 /\ db <= 146096
      /\ a + 719468 = 146097 * ea + da /\ b + 719468 = 146097 * eb + db
  BY <1>1, <1>2, EraHoldsDay, SMT
<1>4. ea < eb \/ (ea = eb /\ da < db)
  BY <1>3, SMT
<1>5. PICK ya \in Nat, yb \in Nat :
        /\ ya = YearOf(da) /\ yb = YearOf(db) /\ ya <= 399 /\ yb <= 399
        /\ MarchYear(a) = ya + ea * 400 /\ MarchYear(b) = yb + eb * 400
  BY <1>1, <1>2, PartsOfDay, SMT
<1>6. CASE ea < eb
  BY <1>5, <1>6, SMT
<1>7. CASE ea = eb /\ da < db
  <2>1. /\ YearStart(ya) \in Nat /\ YearStart(yb) \in Nat /\ YearStart(yb + 1) \in Nat
        /\ YearStart(ya) <= da /\ db < YearStart(yb + 1) /\ YearStart(yb) <= db
    BY <1>2, <1>5, PartsOfDay, SMT
  <2>2. ya <= yb
    <3>1. ASSUME yb + 1 <= ya PROVE FALSE
      <4>1. YearStart(yb + 1) <= YearStart(ya)
        BY <3>1, YearsInOrder, SMT
      <4>2. QED
        BY <1>7, <2>1, <4>1, SMT
    <3>2. QED
      BY <3>1, SMT
  <2>3. CASE ya < yb
    BY <1>5, <1>7, <2>3, SMT
  <2>4. CASE ya = yb
    <3>1. PICK xa \in Nat, xb \in Nat :
            /\ xa = DayOfYear(da) /\ xb = DayOfYear(db) /\ xa <= 365 /\ xb <= 365
            /\ xa = da - YearStart(ya) /\ xb = db - YearStart(yb)
      BY <1>2, <1>5, PartsOfDay, SMT
    <3>2. xa < xb
      BY <1>7, <2>1, <2>4, <3>1, SMT
    <3>3. PICK ma \in 0 .. 11, mb \in 0 .. 11 : ma = MarchMonth(a) /\ mb = MarchMonth(b)
      BY PartsType, SMT
    <3>4. /\ MonthStart(ma) \in Nat /\ MonthStart(mb) \in Nat /\ MonthStart(mb + 1) \in Nat
          /\ MonthStart(ma) <= xa /\ xb < MonthStart(mb + 1)
          /\ DayOf(a) = xa - MonthStart(ma) + 1 /\ DayOf(b) = xb - MonthStart(mb) + 1
      <4>1. xa = DayOfYear(DayOfEra(a)) /\ xb = DayOfYear(DayOfEra(b))
        BY <1>2, <3>1, SMT
      <4>2. MonthStart(ma) \in Nat /\ MonthStart(ma) <= xa /\ DayOf(a) = xa - MonthStart(ma) + 1
        BY <3>3, <4>1, PartsOfDay, SMT
      <4>3. /\ MonthStart(mb) \in Nat /\ MonthStart(mb + 1) \in Nat /\ xb < MonthStart(mb + 1)
            /\ DayOf(b) = xb - MonthStart(mb) + 1
        BY <3>3, <4>1, PartsOfDay, SMT
      <4>4. QED
        BY <4>2, <4>3
    <3>5. ma <= mb
      <4>1. ASSUME mb + 1 <= ma PROVE FALSE
        <5>1. MonthStart(mb + 1) <= MonthStart(ma)
          BY <3>3, <4>1, MonthsInOrder, SMT
        <5>2. QED
          BY <3>1, <3>2, <3>4, <5>1, SMT
      <4>2. QED
        BY <4>1, SMT
    <3>6. MarchYear(a) = MarchYear(b)
      BY <1>5, <1>7, <2>4, SMT
    <3>7. ma = mb => DayOf(a) < DayOf(b)
      BY <3>1, <3>2, <3>4, SMT
    <3>8. QED
      BY <3>3, <3>5, <3>6, <3>7, SMT
  <2>5. QED
    BY <2>2, <2>3, <2>4, SMT
<1>8. QED
  BY <1>4, <1>6, <1>7, SMT

(* A later day has a later date, over the ends of months and years and     *)
(* over all leap years.                                                    *)
LEMMA DatesInOrder ==
  ASSUME NEW a \in Nat, NEW b \in Nat, a < b
  PROVE  LET u == CivilFromDays(a)
             v == CivilFromDays(b)
         IN  \/ u.y < v.y
             \/ u.y = v.y /\ u.mo < v.mo
             \/ u.y = v.y /\ u.mo = v.mo /\ u.d < v.d
<1>1. PICK ma \in 0 .. 11, mb \in 0 .. 11 : ma = MarchMonth(a) /\ mb = MarchMonth(b)
  BY PartsType, SMT
<1>2. MarchYear(a) \in Nat /\ MarchYear(b) \in Nat
  BY PartsType, SMT
<1>3. \/ MarchYear(a) < MarchYear(b)
      \/ MarchYear(a) = MarchYear(b) /\ ma < mb
      \/ MarchYear(a) = MarchYear(b) /\ ma = mb /\ DayOf(a) < DayOf(b)
  BY <1>1, MarchDatesInOrder, SMT
<1> DEFINE M(mp) == IF mp < 10 THEN mp + 3 ELSE mp - 9
           Y(y, mp) == IF M(mp) <= 2 THEN y + 1 ELSE y
<1>4. /\ CivilFromDays(a) = [y |-> Y(MarchYear(a), ma), mo |-> M(ma), d |-> DayOf(a)]
      /\ CivilFromDays(b) = [y |-> Y(MarchYear(b), mb), mo |-> M(mb), d |-> DayOf(b)]
  BY <1>1, CivilParts, SMT
<1>5. /\ CivilFromDays(a).y = Y(MarchYear(a), ma) /\ CivilFromDays(a).mo = M(ma)
      /\ CivilFromDays(a).d = DayOf(a)
      /\ CivilFromDays(b).y = Y(MarchYear(b), mb) /\ CivilFromDays(b).mo = M(mb)
      /\ CivilFromDays(b).d = DayOf(b)
  BY <1>4, SMT
<1>6. \/ Y(MarchYear(a), ma) < Y(MarchYear(b), mb)
      \/ Y(MarchYear(a), ma) = Y(MarchYear(b), mb) /\ M(ma) < M(mb)
      \/ Y(MarchYear(a), ma) = Y(MarchYear(b), mb) /\ M(ma) = M(mb) /\ DayOf(a) < DayOf(b)
  BY <1>2, <1>3, SMT
<1>7. QED
  BY <1>5, <1>6, SMT

(* The parts of a date are numbers.                                        *)
LEMMA DateType ==
  ASSUME NEW a \in Nat
  PROVE  CivilFromDays(a).y \in Int /\ CivilFromDays(a).mo \in Int /\ CivilFromDays(a).d \in Int
<1>1. PICK ma \in 0 .. 11 : ma = MarchMonth(a)
  BY PartsType, SMT
<1>2. MarchYear(a) \in Int /\ DayOf(a) \in Int
  <2>1. MarchYear(a) \in Int
    BY PartsType, SMT
  <2>2. DayOf(a) \in Int
    BY PartsOfDay, SMT
  <2>3. QED
    BY <2>1, <2>2
<1> DEFINE M(mp) == IF mp < 10 THEN mp + 3 ELSE mp - 9
           Y(y, mp) == IF M(mp) <= 2 THEN y + 1 ELSE y
<1>3. CivilFromDays(a) = [y |-> Y(MarchYear(a), ma), mo |-> M(ma), d |-> DayOf(a)]
  BY <1>1, CivilParts, SMT
<1>4. QED
  BY <1>2, <1>3, SMT

-----------------------------------------------------------------------------
(* A directory that is named after a moment up to n.                       *)
OpenedBy(d, n) == \E t \in 0 .. n : d = NameAt(t)

Name   == Int \X Int \X Int \X Int
FileId == [dir : Name, stream : Streams, bucket : Nat]

StoreType ==
  /\ firstDay \in Nat /\ rotating \in BOOLEAN
  /\ mono \in Nat /\ back \in {0, 1} /\ back <= mono
  /\ run \in [up : BOOLEAN, dir : Name, start : Nat] /\ run.start <= mono
  /\ opened \in Seq(Name) /\ files \in Seq(FileId)
  /\ mtime \in [Range(files) -> Nat] /\ \A f \in Range(files) : mtime[f] <= mono

DiskType ==
  /\ plain \subseteq Range(files) /\ gz \subseteq Range(files) /\ whole \subseteq gz
  /\ guard = [at |-> guard.at, live |-> guard.live, sess |-> guard.sess, file |-> guard.file]
  /\ guard.at \in {"zipping", "zipped"} => guard.file \in gz
  /\ guard.at = "zipped" => guard.file \in whole

(* What is, or is to be, compressed is of a session whose moment is past   *)
(* even for a clock that is stepped back.                                  *)
GzipIsLate ==
  /\ \A f \in gz : OpenedBy(f.dir, mono - 2)
  /\ guard.at \in {"session", "zipping", "zipped"} => OpenedBy(guard.sess, mono - 2)

(* A file is not older than the moment its directory is named after.       *)
FilesFollowNames ==
  /\ \A f \in Range(files) : OpenedBy(f.dir, mtime[f] + back)
  /\ run.up => OpenedBy(run.dir, mono)

(* A running recorder has written of late, and all it wrote is plain.      *)
RunIsFresh ==
  run.up =>
    /\ \A f \in gz : f.dir # run.dir
    /\ (\E f \in Range(files) : f.dir = run.dir) =>
         \E f \in Range(files) : f.dir = run.dir /\ now - mtime[f] < Age

OpenedInTurn ==
  /\ \A i \in DOMAIN opened : OpenedBy(opened[i], mono)
  /\ back = 0 => \A i \in DOMAIN opened : OpenedBy(opened[i], run.start)
  /\ NamedInOrder

SessionsInv ==
  /\ StoreType /\ DiskType /\ OpenedInTurn /\ FilesFollowNames
  /\ GzipIsLate /\ RunIsFresh /\ AlwaysReadable /\ LiveUntouched

-----------------------------------------------------------------------------
(* Later moments have later names, and so no two have the same.            *)
LEMMA LaterName ==
  ASSUME firstDay \in Nat, NEW t \in Nat, NEW u \in Nat, t < u
  PROVE  Before(NameAt(t), NameAt(u)) /\ NameAt(t) # NameAt(u)
<1> DEFINE T == TicksPerDay
<1>1. T \in Nat /\ T > 0
  BY SessionsAssumption
<1>2. PICK a \in Nat, r \in Nat : /\ a = t \div T /\ r = t % T
                                 /\ t = T * a + r /\ r < T
  BY <1>1
<1>3. PICK b \in Nat, q \in Nat : /\ b = u \div T /\ q = u % T
                                 /\ u = T * b + q /\ q < T
  BY <1>1
<1>4. a < b \/ (a = b /\ r < q)
  <2>1. ASSUME b < a PROVE FALSE
    <3>1. T * b + T <= T * a
      BY <1>1, <2>1
    <3>2. QED
      BY <1>1, <1>2, <1>3, <3>1
  <2>2. a = b => r < q
    BY <1>1, <1>2, <1>3
  <2>3. QED
    BY <2>1, <2>2
<1> DEFINE u1 == CivilFromDays(firstDay + a)
           v1 == CivilFromDays(firstDay + b)
<1>5. /\ NameAt(t) = << u1.y, u1.mo, u1.d, r >>
      /\ NameAt(u) = << v1.y, v1.mo, v1.d, q >>
  BY <1>2, <1>3 DEF NameAt
<1>6. /\ NameAt(t)[1] = u1.y /\ NameAt(t)[2] = u1.mo /\ NameAt(t)[3] = u1.d /\ NameAt(t)[4] = r
      /\ NameAt(u)[1] = v1.y /\ NameAt(u)[2] = v1.mo /\ NameAt(u)[3] = v1.d /\ NameAt(u)[4] = q
  BY <1>5
<1>7. \/ u1.y < v1.y
      \/ u1.y = v1.y /\ u1.mo < v1.mo
      \/ u1.y = v1.y /\ u1.mo = v1.mo /\ u1.d < v1.d
      \/ u1.y = v1.y /\ u1.mo = v1.mo /\ u1.d = v1.d /\ r < q
  <2>1. CASE a < b
    <3>1. firstDay + a \in Nat /\ firstDay + b \in Nat /\ firstDay + a < firstDay + b
      BY <2>1
    <3>2. QED
      BY <3>1, DatesInOrder
  <2>2. CASE a = b /\ r < q
    BY <2>2
  <2>3. QED
    BY <1>4, <2>1, <2>2
<1>8. u1.y \in Int /\ u1.mo \in Int /\ u1.d \in Int
  BY DateType
<1> HIDE DEF u1, v1
<1>9. Before(NameAt(t), NameAt(u))
  <2>1. CASE u1.y < v1.y
    <3>1. NameAt(t)[1] < NameAt(u)[1] /\ \A i \in 1 .. 1 - 1 : NameAt(t)[i] = NameAt(u)[i]
      BY <1>6, <2>1
    <3>2. QED
      BY <3>1 DEF Before
  <2>2. CASE u1.y = v1.y /\ u1.mo < v1.mo
    <3>1. NameAt(t)[2] < NameAt(u)[2] /\ \A i \in 1 .. 2 - 1 : NameAt(t)[i] = NameAt(u)[i]
      BY <1>6, <2>2
    <3>2. QED
      BY <3>1 DEF Before
  <2>3. CASE u1.y = v1.y /\ u1.mo = v1.mo /\ u1.d < v1.d
    <3>1. NameAt(t)[3] < NameAt(u)[3] /\ \A i \in 1 .. 3 - 1 : NameAt(t)[i] = NameAt(u)[i]
      BY <1>6, <2>3
    <3>2. QED
      BY <3>1 DEF Before
  <2>4. CASE u1.y = v1.y /\ u1.mo = v1.mo /\ u1.d = v1.d /\ r < q
    <3>1. NameAt(t)[4] < NameAt(u)[4] /\ \A i \in 1 .. 4 - 1 : NameAt(t)[i] = NameAt(u)[i]
      BY <1>6, <2>4
    <3>2. QED
      BY <3>1 DEF Before
  <2>5. QED
    BY <1>7, <2>1, <2>2, <2>3, <2>4
<1>10. NameAt(t) # NameAt(u)
  <2>1. SUFFICES ASSUME NameAt(t) = NameAt(u) PROVE FALSE
    OBVIOUS
  <2>2. u1.y = v1.y /\ u1.mo = v1.mo /\ u1.d = v1.d /\ r = q
    BY <1>6, <2>1
  <2>3. QED
    BY <1>2, <1>7, <1>8, <2>2
<1>11. QED
  BY <1>9, <1>10

(* A directory tells the moment it is named after.                         *)
LEMMA OneMoment ==
  ASSUME firstDay \in Nat, NEW t \in Nat, NEW u \in Nat, NameAt(t) = NameAt(u)
  PROVE  t = u
<1>1. ~(t < u) /\ ~(u < t)
  BY LaterName
<1>2. QED
  BY <1>1

(* A set of numbers that is not empty has a least one.                     *)
LEMMA SmallestOf ==
  ASSUME NEW S \in SUBSET Nat, S # {}
  PROVE  \E x \in S : \A y \in S : x <= y
<1>1. PICK x \in S : \A y \in S : ~(<<y, x>> \in OpToRel(<, Nat))
  BY WFMin, NatLessThanWellFounded, Zenon
<1>2. \A y \in S : ~(y < x)
  BY <1>1 DEF OpToRel
<1>3. QED
  BY <1>2

(* The greatest number of a bounded set that is not empty.                 *)
LEMMA LargestOf ==
  ASSUME NEW n \in Nat, NEW S \in SUBSET (0 .. n), S # {}
  PROVE  MaxOf(S) \in S /\ \A y \in S : y <= MaxOf(S)
<1> DEFINE T == {n - k : k \in S}
<1>1. T \in SUBSET Nat /\ T # {}
  <2>1. \A k \in S : k \in Nat /\ n - k \in Nat
    OBVIOUS
  <2>2. QED
    BY <2>1
<1>2. PICK t \in T : \A u \in T : t <= u
  BY <1>1, SmallestOf
<1>3. PICK m \in S : t = n - m
  OBVIOUS
<1>4. \A k \in S : k <= m
  <2>1. \A k \in S : n - m <= n - k
    BY <1>2, <1>3
  <2>2. \A k \in S : k \in Nat
    OBVIOUS
  <2>3. QED
    BY <2>1, <2>2
<1>5. QED
  BY <1>4 DEF MaxOf

(* A moment's name is a name, and stays what it is while the first day     *)
(* does.                                                                   *)
LEMMA NameType ==
  ASSUME firstDay \in Nat, NEW t \in Nat
  PROVE  NameAt(t) \in Name
<1>1. t \div TicksPerDay \in Nat /\ t % TicksPerDay \in Int
  BY SessionsAssumption
<1>2. PICK a \in Nat : a = firstDay + t \div TicksPerDay
  BY <1>1
<1>3. CivilFromDays(a).y \in Int /\ CivilFromDays(a).mo \in Int /\ CivilFromDays(a).d \in Int
  BY DateType
<1>4. NameAt(t) = << CivilFromDays(a).y, CivilFromDays(a).mo, CivilFromDays(a).d, t % TicksPerDay >>
  BY <1>2 DEF NameAt
<1>5. QED
  BY <1>1, <1>3, <1>4 DEF Name

(* Names do not change.                                                    *)
LEMMA SameNames ==
  ASSUME firstDay' = firstDay
  PROVE  \A t : NameAt(t)' = NameAt(t)
  BY DEF NameAt

(* The next directory to be compressed is one of the candidates: no two    *)
(* have the same name.                                                     *)
LEMMA OldestIsOne ==
  ASSUME StoreType, plain \subseteq Range(files), FilesFollowNames,
         NEW ds, ds # {}, \A d \in ds : In(d, plain) # {}
  PROVE  Oldest(ds) \in ds
<1>1. \A d \in ds : AgeOf(d) \in Nat
  <2>1. TAKE d \in ds
  <2> DEFINE S == {mtime[f] : f \in In(d, plain)}
  <2>2. S \in SUBSET (0 .. mono) /\ S # {}
    BY DEF StoreType, In
  <2>3. MaxOf(S) \in S
    BY <2>2, LargestOf DEF StoreType
  <2>4. AgeOf(d) = MaxOf(S)
    BY DEF AgeOf
  <2>5. QED
    BY <2>2, <2>3, <2>4
<1>2. \A d \in ds : \E t \in Nat : d = NameAt(t)
  <2>1. TAKE d \in ds
  <2>2. PICK f \in Range(files) : f.dir = d
    BY DEF In
  <2>3. PICK n \in Nat : n = mtime[f] + back
    BY <2>2 DEF StoreType
  <2>4. OpenedBy(d, n)
    BY <2>2, <2>3 DEF FilesFollowNames
  <2>5. QED
    BY <2>4 DEF OpenedBy
<1> DEFINE Ages == {AgeOf(d) : d \in ds}
<1>3. PICK a \in Ages : \A b \in Ages : a <= b
  <2>1. Ages \in SUBSET Nat /\ Ages # {}
    BY <1>1
  <2>2. QED
    BY <2>1, SmallestOf
<1> DEFINE Moments == {t \in Nat : \E d \in ds : AgeOf(d) = a /\ d = NameAt(t)}
<1>4. PICK m \in Moments : \A t \in Moments : m <= t
  <2>1. PICK d \in ds : AgeOf(d) = a
    BY <1>3
  <2>2. Moments \in SUBSET Nat /\ Moments # {}
    BY <1>2, <2>1
  <2>3. QED
    BY <2>2, SmallestOf
<1>5. PICK d \in ds : AgeOf(d) = a /\ d = NameAt(m)
  BY <1>4
<1>6. \A e \in ds \ {d} : AgeOf(d) < AgeOf(e) \/ (AgeOf(d) = AgeOf(e) /\ Before(d, e))
  <2>1. TAKE e \in ds \ {d}
  <2>2. a <= AgeOf(e) /\ a \in Nat /\ AgeOf(e) \in Nat
    BY <1>1, <1>3
  <2>3. CASE a < AgeOf(e)
    BY <1>5, <2>3
  <2>4. CASE a = AgeOf(e)
    <3>1. PICK t \in Nat : e = NameAt(t)
      BY <1>2
    <3>2. t \in Moments
      BY <2>4, <3>1
    <3>3. m \in Nat /\ m <= t /\ m # t
      BY <1>4, <1>5, <3>1, <3>2
    <3>4. Before(d, e)
      BY <1>5, <3>1, <3>3, LaterName DEF StoreType
    <3>5. QED
      BY <1>5, <2>4, <3>4
  <2>5. QED
    BY <2>2, <2>3, <2>4
<1>7. QED
  BY <1>6 DEF Oldest

-----------------------------------------------------------------------------
(* disk_guard changes neither the store nor the time, and so leaves what    *)
(* is said of these alone; files of the session that it compresses are the  *)
(* only ones of which there comes to be a .gz.                              *)
LEMMA GuardStep ==
  ASSUME SessionsInv, UNCHANGED << time, store >>,
         \A f \in gz' : f \in gz \/ (guard.at = "session" /\ f.dir = guard.sess)
  PROVE  StoreType' /\ OpenedInTurn' /\ FilesFollowNames' /\ RunIsFresh'
         /\ \A f \in gz' : OpenedBy(f.dir, mono - 2)'
<1> USE DEF time, store
<1>1. StoreType'
  BY DEF SessionsInv, StoreType
<1>2. \A t : NameAt(t)' = NameAt(t)
  BY SameNames
<1>3. OpenedInTurn'
  BY <1>2 DEF SessionsInv, OpenedInTurn, OpenedBy, NamedInOrder, Before
<1>4. FilesFollowNames'
  BY <1>2 DEF SessionsInv, FilesFollowNames, OpenedBy
<1>5. RunIsFresh'
  <2>1. \A f \in gz' : run.up => f.dir # run.dir
    BY DEF SessionsInv, RunIsFresh, LiveUntouched
  <2>2. QED
    BY <2>1 DEF SessionsInv, RunIsFresh, now
<1>6. \A f \in gz' : OpenedBy(f.dir, mono - 2)'
  BY <1>2 DEF SessionsInv, GzipIsLate, OpenedBy
<1>7. QED
  BY <1>1, <1>3, <1>4, <1>5, <1>6

(* disk_guard looks for the live session, or ends a session.               *)
LEMMA LookStep ==
  ASSUME SessionsInv, Look \/ EndSession
  PROVE  SessionsInv'
<1>1. UNCHANGED << time, store >> /\ UNCHANGED disk
  BY DEF Look, EndSession
<1>2. /\ guard' = [at |-> guard'.at, live |-> guard'.live, sess |-> guard'.sess, file |-> guard'.file]
      /\ guard'.at \notin {"session", "zipping", "zipped"}
      /\ guard.at \notin {"zipping", "zipped"}
  BY DEF Look, EndSession, SessionsInv, DiskType
<1>3. StoreType' /\ OpenedInTurn' /\ FilesFollowNames' /\ RunIsFresh'
      /\ \A f \in gz' : OpenedBy(f.dir, mono - 2)'
  BY <1>1, GuardStep DEF disk
<1>4. DiskType'
  BY <1>1, <1>2 DEF SessionsInv, DiskType, disk, store
<1>5. GzipIsLate' /\ LiveUntouched'
  BY <1>2, <1>3 DEF GzipIsLate, LiveUntouched
<1>6. AlwaysReadable'
  BY <1>1, <1>2 DEF SessionsInv, AlwaysReadable, disk, store
<1>7. QED
  BY <1>3, <1>4, <1>5, <1>6 DEF SessionsInv

(* What is old enough was opened long ago, even for a clock that was       *)
(* stepped back, and is not the session of a running recorder.             *)
LEMMA CandidateIsLate ==
  ASSUME SessionsInv, NEW live, NEW d \in Candidates(live)
  PROVE  OpenedBy(d, mono - 2) /\ ~(run.up /\ run.dir = d)
<1>1. Age \in Nat /\ Age >= 2
  BY SessionsAssumption
<1>2. mono \in Nat /\ back \in {0, 1}
  BY DEF SessionsInv, StoreType
<1>3. \A f \in plain : f.dir = d => mtime[f] + Age <= mono - back
  BY <1>1, <1>2 DEF Candidates, In, now, SessionsInv, DiskType, StoreType
<1>4. PICK f \in plain : f.dir = d
  BY DEF Candidates, In
<1>5. OpenedBy(d, mono - 2)
  <2>1. PICK k \in Nat : k = mtime[f]
    BY <1>4 DEF SessionsInv, DiskType, StoreType
  <2>2. PICK t \in 0 .. k + back : d = NameAt(t)
    BY <1>4, <2>1 DEF SessionsInv, DiskType, FilesFollowNames, OpenedBy
  <2>3. t \in 0 .. mono - 2
    BY <1>1, <1>2, <1>3, <1>4, <2>1, <2>2
  <2>4. QED
    BY <2>2, <2>3 DEF OpenedBy
<1>6. ASSUME run.up, run.dir = d PROVE FALSE
  <2>1. PICK g \in Range(files) : g.dir = d /\ now - mtime[g] < Age
    BY <1>4, <1>6 DEF SessionsInv, DiskType, RunIsFresh
  <2>2. g \in plain
    BY <1>6, <2>1 DEF SessionsInv, DiskType, RunIsFresh, AlwaysReadable
  <2>3. mtime[g] \in Nat
    BY <2>1 DEF SessionsInv, StoreType
  <2>4. QED
    BY <1>1, <1>2, <1>3, <2>1, <2>2, <2>3 DEF now
<1>7. QED
  BY <1>5, <1>6

(* It chooses the oldest.                                                  *)
LEMMA ChooseStep ==
  ASSUME SessionsInv, Choose
  PROVE  SessionsInv'
<1>1. UNCHANGED << time, store >> /\ UNCHANGED disk
  BY DEF Choose
<1>2. /\ guard' = [at |-> guard'.at, live |-> guard'.live, sess |-> guard'.sess, file |-> guard'.file]
      /\ guard'.at \in {"idle", "session"} /\ guard.at = "looked"
      /\ guard'.at = "session" => /\ Candidates(guard.live) # {}
                                  /\ guard'.sess = Oldest(Candidates(guard.live))
  BY DEF Choose, SessionsInv, DiskType
<1>3. StoreType' /\ OpenedInTurn' /\ FilesFollowNames' /\ RunIsFresh'
      /\ \A f \in gz' : OpenedBy(f.dir, mono - 2)'
  BY <1>1, GuardStep DEF disk
<1>4. DiskType'
  BY <1>1, <1>2 DEF SessionsInv, DiskType, disk, store
<1>5. guard'.at = "session" =>
        OpenedBy(guard'.sess, mono - 2) /\ ~(run.up /\ run.dir = guard'.sess)
  <2>1. SUFFICES ASSUME guard'.at = "session"
                 PROVE  guard'.sess \in Candidates(guard.live)
    BY CandidateIsLate
  <2>2. PICK ds : ds = Candidates(guard.live)
    OBVIOUS
  <2>3. ds # {} /\ \A d \in ds : In(d, plain) # {}
    BY <1>2, <2>1, <2>2 DEF Candidates
  <2>4. Oldest(ds) \in ds
    BY <2>3, OldestIsOne DEF SessionsInv, DiskType
  <2>5. QED
    BY <1>2, <2>1, <2>2, <2>4
<1>6. guard'.at = "session" => OpenedBy(guard.sess, mono - 2)'
  <2>1. \A t : NameAt(t)' = NameAt(t)
    BY <1>1, SameNames DEF time
  <2>2. QED
    BY <1>1, <1>5, <2>1 DEF OpenedBy, time
<1>7. GzipIsLate' /\ LiveUntouched'
  BY <1>1, <1>2, <1>3, <1>5, <1>6 DEF GzipIsLate, LiveUntouched, store
<1>8. AlwaysReadable'
  BY <1>1, <1>2 DEF SessionsInv, AlwaysReadable, disk, store
<1>9. QED
  BY <1>3, <1>4, <1>7, <1>8 DEF SessionsInv

(* It goes through the files of a session: gzip starts on one, has written *)
(* it, removes it, is killed.                                              *)
LEMMA GzipStep ==
  ASSUME SessionsInv, (\E f \in Range(files) : NextFile(f)) \/ GzipWritten \/ GzipUnlinks \/ Kill
  PROVE  SessionsInv'
<1>1. UNCHANGED << time, store >>
  BY DEF NextFile, GzipWritten, GzipUnlinks, Kill
<1>2. /\ guard' = [at |-> guard'.at, live |-> guard'.live, sess |-> guard'.sess, file |-> guard'.file]
      /\ guard'.sess = guard.sess
      /\ guard.at \in {"session", "zipping", "zipped"}
  BY DEF NextFile, GzipWritten, GzipUnlinks, Kill, SessionsInv, DiskType
<1>3. \A f \in gz' : f \in gz \/ (guard.at = "session" /\ f.dir = guard.sess)
  BY DEF NextFile, GzipWritten, GzipUnlinks, Kill, In
<1>4. StoreType' /\ OpenedInTurn' /\ FilesFollowNames' /\ RunIsFresh'
      /\ \A f \in gz' : OpenedBy(f.dir, mono - 2)'
  BY <1>1, <1>3, GuardStep
<1>5. DiskType'
  <2>1. CASE \E f \in Range(files) : NextFile(f)
    <3>1. PICK f \in Range(files) : NextFile(f)
      BY <2>1
    <3>2. guard'.at = "zipping" /\ guard'.file = f
      BY <3>1 DEF NextFile, SessionsInv, DiskType
    <3>3. QED
      BY <1>1, <1>2, <3>1, <3>2 DEF NextFile, SessionsInv, DiskType, store
  <2>2. CASE GzipWritten
    <3>1. guard'.at = "zipped" /\ guard'.file = guard.file
      BY <2>2 DEF GzipWritten, SessionsInv, DiskType
    <3>2. QED
      BY <1>1, <1>2, <2>2, <3>1 DEF GzipWritten, SessionsInv, DiskType, store
  <2>3. CASE GzipUnlinks
    <3>1. guard'.at = "session"
      BY <2>3 DEF GzipUnlinks, SessionsInv, DiskType
    <3>2. QED
      BY <1>1, <1>2, <2>3, <3>1 DEF GzipUnlinks, SessionsInv, DiskType, store
  <2>4. CASE Kill
    <3>1. guard'.at = "idle"
      BY <2>4 DEF Kill, SessionsInv, DiskType
    <3>2. QED
      BY <1>1, <1>2, <2>4, <3>1 DEF Kill, SessionsInv, DiskType, store
  <2>5. QED
    BY <2>1, <2>2, <2>3, <2>4
<1>6. GzipIsLate'
  <2>1. \A t : NameAt(t)' = NameAt(t)
    BY <1>1, SameNames DEF time
  <2>2. OpenedBy(guard.sess, mono - 2)
    BY <1>2 DEF SessionsInv, GzipIsLate
  <2>3. OpenedBy(guard.sess, mono - 2)'
    BY <1>1, <1>2, <2>1, <2>2 DEF OpenedBy, time
  <2>4. QED
    BY <1>4, <2>3 DEF GzipIsLate
<1>7. LiveUntouched'
  BY <1>1, <1>2 DEF SessionsInv, LiveUntouched, store
<1>8. AlwaysReadable'
  <2>1. CASE \E f \in Range(files) : NextFile(f)
    BY <1>1, <2>1 DEF NextFile, SessionsInv, DiskType, AlwaysReadable, store
  <2>2. CASE GzipWritten
    BY <1>1, <2>2 DEF GzipWritten, SessionsInv, DiskType, AlwaysReadable, store
  <2>3. CASE GzipUnlinks
    BY <1>1, <2>3 DEF GzipUnlinks, SessionsInv, DiskType, AlwaysReadable, store
  <2>4. CASE Kill
    BY <1>1, <2>4 DEF Kill, SessionsInv, DiskType, AlwaysReadable, store
  <2>5. QED
    BY <2>1, <2>2, <2>3, <2>4
<1>9. QED
  BY <1>4, <1>5, <1>6, <1>7, <1>8 DEF SessionsInv

-----------------------------------------------------------------------------
(* The recorder stops: every promise about its session is off.             *)
LEMMA StopStep ==
  ASSUME SessionsInv, Stop
  PROVE  SessionsInv'
<1>1. UNCHANGED << opened, files, mtime, time, disk, guard >>
      /\ run' = [run EXCEPT !.up = FALSE]
  BY DEF Stop
<1>2. /\ run' \in [up : BOOLEAN, dir : Name, start : Nat]
      /\ ~run'.up /\ run'.dir = run.dir /\ run'.start = run.start
  BY <1>1 DEF SessionsInv, StoreType
<1>3. \A t : NameAt(t)' = NameAt(t)
  BY <1>1, SameNames DEF time
<1>4. StoreType'
  BY <1>1, <1>2 DEF SessionsInv, StoreType, time
<1>5. DiskType'
  BY <1>1 DEF SessionsInv, DiskType, disk
<1>6. OpenedInTurn'
  BY <1>1, <1>2, <1>3 DEF SessionsInv, OpenedInTurn, OpenedBy, NamedInOrder, Before, time
<1>7. FilesFollowNames'
  BY <1>1, <1>2, <1>3 DEF SessionsInv, FilesFollowNames, OpenedBy, time
<1>8. GzipIsLate'
  BY <1>1, <1>3 DEF SessionsInv, GzipIsLate, OpenedBy, time, disk
<1>9. RunIsFresh' /\ LiveUntouched'
  BY <1>2 DEF RunIsFresh, LiveUntouched
<1>10. AlwaysReadable'
  BY <1>1 DEF SessionsInv, AlwaysReadable, disk
<1>11. QED
  BY <1>4, <1>5, <1>6, <1>7, <1>8, <1>9, <1>10 DEF SessionsInv

(* It opens a session, whose moment is later than all that has been or is  *)
(* to be compressed.                                                       *)
LEMMA OpenStep ==
  ASSUME SessionsInv, Open
  PROVE  SessionsInv'
<1>1. PICK k \in Nat : k = mono - back /\ k <= mono
  BY DEF SessionsInv, StoreType
<1>2. PICK d \in Name : d = NameAt(k)
  BY NameType, <1>1 DEF SessionsInv, StoreType
<1>3. /\ UNCHANGED << files, mtime, time, disk, guard >>
      /\ run' = [up |-> TRUE, dir |-> d, start |-> mono]
      /\ opened' = Append(opened, d)
      /\ opened # << >> => mono > run.start
  BY <1>1, <1>2 DEF Open, now
<1>4. /\ run' \in [up : BOOLEAN, dir : Name, start : Nat]
      /\ run'.up /\ run'.dir = d /\ run'.start = mono
  BY <1>3 DEF SessionsInv, StoreType
<1>5. mono \in Nat /\ back \in {0, 1} /\ run.start \in Nat /\ run.start <= mono
  BY DEF SessionsInv, StoreType
<1>6. \A t : NameAt(t)' = NameAt(t)
  BY <1>3, SameNames DEF time
<1>7. StoreType'
  BY <1>3, <1>4 DEF SessionsInv, StoreType, time
<1>8. DiskType'
  BY <1>3 DEF SessionsInv, DiskType, disk
<1>9. ~OpenedBy(d, mono - 2)
  <2>1. SUFFICES ASSUME NEW t \in 0 .. mono - 2, d = NameAt(t) PROVE FALSE
    BY DEF OpenedBy
  <2>2. t \in Nat /\ t # k
    BY <1>1, <1>5
  <2>3. QED
    BY <1>1, <1>2, <2>1, <2>2, OneMoment DEF SessionsInv, StoreType
<1>10. RunIsFresh'
  <2>1. \A f \in gz : f.dir # d
    BY <1>9 DEF SessionsInv, GzipIsLate
  <2>2. \A f \in Range(files) : f.dir = d => now - mtime[f] < Age
    <3>1. TAKE f \in Range(files)
    <3>2. HAVE f.dir = d
    <3>3. PICK n \in Nat : n = mtime[f]
      BY DEF SessionsInv, StoreType
    <3>4. PICK t \in 0 .. n + back : d = NameAt(t)
      BY <3>2, <3>3 DEF SessionsInv, FilesFollowNames, OpenedBy
    <3>5. t = k
      BY <1>1, <1>2, <3>4, OneMoment DEF SessionsInv, StoreType
    <3>6. Age \in Nat /\ Age >= 2
      BY SessionsAssumption
    <3>7. QED
      BY <1>1, <1>5, <3>3, <3>4, <3>5, <3>6 DEF now
  <2>3. QED
    BY <1>3, <1>4, <2>1, <2>2 DEF RunIsFresh, now, time, disk
<1>11. LiveUntouched'
  <2>1. guard.at \in {"session", "zipping", "zipped"} => guard.sess # d
    BY <1>9 DEF SessionsInv, GzipIsLate
  <2>2. QED
    BY <1>3, <1>4, <2>1 DEF LiveUntouched
<1>12. FilesFollowNames'
  <2>1. \A f \in Range(files) : OpenedBy(f.dir, mtime[f] + back)'
    BY <1>3, <1>6 DEF SessionsInv, FilesFollowNames, OpenedBy, time
  <2>2. OpenedBy(run.dir, mono)'
    BY <1>1, <1>2, <1>3, <1>4, <1>5, <1>6 DEF OpenedBy, time
  <2>3. QED
    BY <1>3, <2>1, <2>2 DEF FilesFollowNames
<1>13. GzipIsLate' /\ AlwaysReadable'
  BY <1>3, <1>6 DEF SessionsInv, GzipIsLate, OpenedBy, AlwaysReadable, time, disk
<1>14. OpenedInTurn'
  <2>1. PICK n \in Nat : n = Len(opened) /\ DOMAIN opened = 1 .. n
    BY DEF SessionsInv, StoreType
  <2>2. /\ DOMAIN opened' = 1 .. n + 1 /\ opened'[n + 1] = d
        /\ \A i \in 1 .. n : opened'[i] = opened[i]
    BY <1>2, <1>3, <2>1 DEF SessionsInv, StoreType
  <2>3. \A i \in 1 .. n + 1 : \E t \in 0 .. mono : opened'[i] = NameAt(t)
    BY <1>1, <1>2, <1>5, <2>1, <2>2 DEF SessionsInv, OpenedInTurn, OpenedBy
  <2>4. ASSUME back = 0, NEW i \in 1 .. n PROVE Before(opened[i], d)
    <3>1. PICK t \in 0 .. run.start : opened[i] = NameAt(t)
      BY <2>1, <2>4 DEF SessionsInv, OpenedInTurn, OpenedBy
    <3>2. t \in Nat /\ t < k
      BY <1>1, <1>3, <1>5, <2>1, <2>4, <3>1 DEF SessionsInv, StoreType
    <3>3. QED
      BY <1>1, <1>2, <3>1, <3>2, LaterName DEF SessionsInv, StoreType
  <2>5. ASSUME back = 0, NEW i \in 1 .. n + 1, NEW j \in 1 .. n + 1, i < j
        PROVE  Before(opened'[i], opened'[j])
    <3>1. CASE j = n + 1
      BY <2>2, <2>4, <2>5, <3>1
    <3>2. CASE j \in 1 .. n
      <4>1. i \in 1 .. n
        BY <2>5, <3>2
      <4>2. QED
        BY <2>1, <2>2, <2>5, <3>2, <4>1 DEF SessionsInv, OpenedInTurn, NamedInOrder
    <3>3. QED
      BY <3>1, <3>2
  <2>6. NamedInOrder'
    BY <1>3, <2>2, <2>5 DEF NamedInOrder, Before, time
  <2>7. QED
    BY <1>3, <1>4, <1>6, <2>2, <2>3, <2>6 DEF OpenedInTurn, OpenedBy, time
<1>15. QED
  BY <1>7, <1>8, <1>10, <1>11, <1>12, <1>13, <1>14 DEF SessionsInv

(* The clock ticks on: the recorder has written of late, so its session is *)
(* not old yet.                                                            *)
LEMMA TickStep ==
  ASSUME SessionsInv, Tick
  PROVE  SessionsInv'
<1>1. /\ UNCHANGED << firstDay, rotating, back, store, disk, guard >>
      /\ mono' = mono + 1 /\ Busy
  BY DEF Tick
<1>2. mono \in Nat /\ back \in {0, 1} /\ run.start \in Nat /\ run.start <= mono
  BY DEF SessionsInv, StoreType
<1>3. \A t : NameAt(t)' = NameAt(t)
  BY <1>1, SameNames
<1>4. StoreType'
  BY <1>1 DEF SessionsInv, StoreType, store
<1>5. DiskType'
  BY <1>1 DEF SessionsInv, DiskType, disk, store
<1>6. OpenedInTurn'
  BY <1>1, <1>2, <1>3 DEF SessionsInv, OpenedInTurn, OpenedBy, NamedInOrder, Before, store
<1>7. FilesFollowNames'
  BY <1>1, <1>2, <1>3 DEF SessionsInv, FilesFollowNames, OpenedBy, store
<1>8. GzipIsLate'
  BY <1>1, <1>2, <1>3 DEF SessionsInv, GzipIsLate, OpenedBy, disk
<1>9. RunIsFresh'
  <2>1. SUFFICES ASSUME run.up, NEW g \in Range(files), g.dir = run.dir
                 PROVE  \E f \in Range(files) : f.dir = run.dir /\ now' - mtime[f] < Age
    BY <1>1 DEF SessionsInv, RunIsFresh, store, disk
  <2> DEFINE S == {mtime[f] : f \in In(run.dir, DOMAIN mtime)}
  <2>2. S # {} /\ S \in SUBSET (0 .. mono)
    BY <2>1 DEF In, SessionsInv, StoreType
  <2>3. MaxOf(S) \in S /\ now - MaxOf(S) < Age - 1
    BY <1>1, <1>2, <2>1, <2>2, LargestOf DEF Busy, In
  <2>4. PICK f \in Range(files) : f.dir = run.dir /\ MaxOf(S) = mtime[f]
    BY <2>3 DEF In, SessionsInv, StoreType
  <2>5. mtime[f] \in Nat /\ Age \in Nat
    BY SessionsAssumption DEF SessionsInv, StoreType
  <2>6. now' = now + 1 /\ now \in Int
    BY <1>1, <1>2 DEF now
  <2>7. now' - mtime[f] < Age
    BY <2>3, <2>4, <2>5, <2>6
  <2>8. QED
    BY <2>4, <2>7
<1>10. AlwaysReadable' /\ LiveUntouched'
  BY <1>1 DEF SessionsInv, AlwaysReadable, LiveUntouched, disk, store
<1>11. QED
  BY <1>4, <1>5, <1>6, <1>7, <1>8, <1>9, <1>10 DEF SessionsInv

(* The clock is stepped back: what a file's time says is an earlier        *)
(* moment from now on.                                                     *)
LEMMA StepBackStep ==
  ASSUME SessionsInv, StepBack
  PROVE  SessionsInv'
<1>1. /\ UNCHANGED << firstDay, rotating, mono, store, disk, guard >>
      /\ back = 0 /\ back' = 1 /\ mono > 0
  BY DEF StepBack, now, SessionsInv, StoreType
<1>2. mono \in Nat
  BY DEF SessionsInv, StoreType
<1>3. \A t : NameAt(t)' = NameAt(t)
  BY <1>1, SameNames
<1>4. StoreType'
  BY <1>1 DEF SessionsInv, StoreType, store
<1>5. DiskType'
  BY <1>1 DEF SessionsInv, DiskType, disk, store
<1>6. OpenedInTurn'
  BY <1>1, <1>2, <1>3 DEF SessionsInv, OpenedInTurn, OpenedBy, NamedInOrder, store
<1>7. FilesFollowNames'
  <2>1. \A f \in Range(files) : OpenedBy(f.dir, mtime[f] + back)'
    <3>1. TAKE f \in Range(files)
    <3>2. PICK n \in Nat : n = mtime[f]
      BY DEF SessionsInv, StoreType
    <3>3. PICK t \in 0 .. n + 0 : f.dir = NameAt(t)
      BY <1>1, <3>2 DEF SessionsInv, FilesFollowNames, OpenedBy
    <3>4. t \in 0 .. n + 1
      BY <3>3
    <3>5. QED
      BY <1>1, <1>3, <3>2, <3>3, <3>4 DEF OpenedBy, store
  <2>2. QED
    BY <1>1, <1>3, <2>1 DEF SessionsInv, FilesFollowNames, OpenedBy, store
<1>8. GzipIsLate'
  BY <1>1, <1>3 DEF SessionsInv, GzipIsLate, OpenedBy, disk
<1>9. RunIsFresh'
  <2>1. \A f \in Range(files) : mtime[f] \in Nat
    BY DEF SessionsInv, StoreType
  <2>2. Age \in Nat
    BY SessionsAssumption
  <2>3. \A f \in Range(files) : now - mtime[f] < Age => now' - mtime[f] < Age
    BY <1>1, <1>2, <2>1, <2>2 DEF now
  <2>4. QED
    BY <1>1, <2>3 DEF SessionsInv, RunIsFresh, store, disk
<1>10. AlwaysReadable' /\ LiveUntouched'
  BY <1>1 DEF SessionsInv, AlwaysReadable, LiveUntouched, disk, store
<1>11. QED
  BY <1>4, <1>5, <1>6, <1>7, <1>8, <1>9, <1>10 DEF SessionsInv

(* A writer's buffer reaches its file: a file that is made was never there *)
(* before, for none of this session has been compressed.                   *)
LEMMA WriteStep ==
  ASSUME SessionsInv, NEW s \in Streams, Write(s)
  PROVE  SessionsInv'
<1>1. PICK n \in Nat : n = now /\ n + back = mono /\ n <= mono
  BY DEF SessionsInv, StoreType, now
<1>2. Bucket \in Nat
  BY DEF Bucket, SessionsInv, StoreType
<1>3. PICK f \in FileId : f = [dir |-> run.dir, stream |-> s, bucket |-> Bucket]
  BY <1>2 DEF SessionsInv, StoreType, FileId
<1>4. /\ run.up /\ f.dir = run.dir
      /\ IF f \in plain THEN UNCHANGED << files, plain >>
         ELSE files' = Append(files, f) /\ plain' = plain \union {f}
      /\ mtime' = [g \in DOMAIN mtime \union {f} |-> IF g = f THEN n ELSE mtime[g]]
      /\ UNCHANGED << run, opened, gz, whole, torn, time, guard >>
  BY <1>1, <1>3 DEF Write, Touch
<1>5. f \notin gz /\ (f \in Range(files) <=> f \in plain)
  BY <1>4 DEF SessionsInv, DiskType, RunIsFresh, AlwaysReadable
<1>6. Range(files') = Range(files) \union {f} /\ plain' = plain \union {f} /\ files' \in Seq(FileId)
  <2>1. CASE f \in plain
    BY <1>4, <1>5, <2>1 DEF SessionsInv, StoreType
  <2>2. CASE f \notin plain
    <3>1. files \in Seq(FileId) /\ files' = Append(files, f)
      BY <1>4, <2>2 DEF SessionsInv, StoreType
    <3>2. PICK l \in Nat : l = Len(files) /\ DOMAIN files = 1 .. l
      BY <3>1
    <3>3. /\ files' \in Seq(FileId) /\ DOMAIN files' = 1 .. l + 1 /\ files'[l + 1] = f
          /\ \A i \in 1 .. l : files'[i] = files[i]
      BY <3>1, <3>2
    <3>4. Range(files') = Range(files) \union {f}
      BY <3>2, <3>3 DEF Range
    <3>5. QED
      BY <1>4, <2>2, <3>3, <3>4
  <2>3. QED
    BY <2>1, <2>2
<1>7. /\ DOMAIN mtime' = Range(files') /\ mtime'[f] = n
      /\ \A g \in Range(files) : g # f => mtime'[g] = mtime[g]
  BY <1>4, <1>6 DEF SessionsInv, StoreType
<1>8. \A t : NameAt(t)' = NameAt(t)
  BY <1>4, SameNames DEF time
<1>9. StoreType'
  <2>1. \A g \in Range(files') : mtime'[g] \in Nat /\ mtime'[g] <= mono
    BY <1>1, <1>6, <1>7 DEF SessionsInv, StoreType
  <2>2. mtime' \in [Range(files') -> Nat]
    BY <1>4, <1>7, <2>1
  <2>3. QED
    BY <1>4, <1>6, <2>1, <2>2 DEF SessionsInv, StoreType, time
<1>10. DiskType'
  BY <1>4, <1>6 DEF SessionsInv, DiskType
<1>11. OpenedInTurn'
  BY <1>4, <1>8 DEF SessionsInv, OpenedInTurn, OpenedBy, NamedInOrder, Before, time
<1>12. FilesFollowNames'
  <2>1. \E t \in 0 .. mono : run.dir = NameAt(t)
    BY <1>4 DEF SessionsInv, FilesFollowNames, OpenedBy
  <2>2. \A g \in Range(files') : OpenedBy(g.dir, mtime[g] + back)'
    <3>1. TAKE g \in Range(files')
    <3>2. CASE g = f
      BY <1>1, <1>4, <1>7, <1>8, <2>1, <3>2 DEF OpenedBy, time
    <3>3. CASE g # f
      <4>1. g \in Range(files) /\ mtime'[g] = mtime[g]
        BY <1>6, <1>7, <3>3
      <4>2. QED
        BY <1>4, <1>8, <4>1 DEF SessionsInv, FilesFollowNames, OpenedBy, time
    <3>4. QED
      BY <3>2, <3>3
  <2>3. QED
    BY <1>4, <1>8, <2>1, <2>2 DEF FilesFollowNames, OpenedBy, time
<1>13. GzipIsLate'
  BY <1>4, <1>8 DEF SessionsInv, GzipIsLate, OpenedBy, time
<1>14. RunIsFresh'
  <2>1. f \in Range(files') /\ now' = n /\ now' - mtime'[f] < Age
    BY <1>1, <1>4, <1>6, <1>7, SessionsAssumption DEF now, time
  <2>2. QED
    BY <1>4, <2>1 DEF SessionsInv, RunIsFresh
<1>15. LiveUntouched'
  BY <1>4 DEF SessionsInv, LiveUntouched
<1>16. AlwaysReadable'
  BY <1>4, <1>5, <1>6 DEF SessionsInv, AlwaysReadable
<1>17. QED
  BY <1>9, <1>10, <1>11, <1>12, <1>13, <1>14, <1>15, <1>16 DEF SessionsInv

-----------------------------------------------------------------------------
(* Every step keeps the invariant, one that does nothing as well.          *)
LEMMA SessionsStep ==
  ASSUME SessionsInv, [Next]_vars
  PROVE  SessionsInv'
<1>1. ASSUME UNCHANGED vars PROVE SessionsInv'
  <2>1. UNCHANGED << time, store >> /\ UNCHANGED disk /\ UNCHANGED guard
    BY <1>1 DEF vars
  <2>2. StoreType' /\ OpenedInTurn' /\ FilesFollowNames' /\ RunIsFresh'
        /\ \A f \in gz' : OpenedBy(f.dir, mono - 2)'
    BY <2>1, GuardStep DEF disk
  <2>3. \A t : NameAt(t)' = NameAt(t)
    BY <2>1, SameNames DEF time
  <2>4. QED
    BY <2>1, <2>2, <2>3 DEF SessionsInv, DiskType, GzipIsLate, AlwaysReadable,
       LiveUntouched, OpenedBy, time, store, disk
<1>2. CASE Next
  <2>1. CASE Open
    BY <2>1, OpenStep
  <2>2. CASE Stop
    BY <2>2, StopStep
  <2>3. CASE Tick
    BY <2>3, TickStep
  <2>4. CASE StepBack
    BY <2>4, StepBackStep
  <2>5. CASE \E s \in Streams : Write(s)
    BY <2>5, WriteStep
  <2>6. CASE Look \/ EndSession
    BY <2>6, LookStep
  <2>7. CASE Choose
    BY <2>7, ChooseStep
  <2>8. CASE (\E f \in Range(files) : NextFile(f)) \/ GzipWritten \/ GzipUnlinks \/ Kill
    BY <2>8, GzipStep
  <2>9. CASE \E f \in Range(files) : Refused(f)
    BY <1>1, <2>9 DEF Refused
  <2>10. QED
    BY <1>2, <2>1, <2>2, <2>3, <2>4, <2>5, <2>6, <2>7, <2>8, <2>9 DEF Next, Guard
<1>3. QED
  BY <1>1, <1>2

(* Nothing was opened or written yet.                                      *)
LEMMA SessionsInit ==
  ASSUME Init
  PROVE  SessionsInv
<1>1. firstDay \in Nat /\ rotating \in BOOLEAN
  BY SessionsAssumption DEF Init
<1>2. /\ mono = 0 /\ back = 0 /\ run = [up |-> FALSE, dir |-> NoDir, start |-> 0]
      /\ opened = << >> /\ files = << >> /\ mtime = << >>
      /\ plain = {} /\ gz = {} /\ whole = {}
      /\ guard = [at |-> "idle", live |-> NoDir, sess |-> NoDir, file |-> NoFileId]
  BY DEF Init
<1>3. Range(files) = {} /\ DOMAIN opened = {} /\ DOMAIN mtime = {}
  BY <1>2 DEF Range
<1>4. run \in [up : BOOLEAN, dir : Name, start : Nat]
  BY <1>2 DEF NoDir, Name
<1>5. mtime \in [Range(files) -> Nat]
  BY <1>2, <1>3
<1>6. StoreType
  BY <1>1, <1>2, <1>3, <1>4, <1>5 DEF StoreType
<1>7. DiskType
  BY <1>2 DEF DiskType
<1>8. OpenedInTurn /\ FilesFollowNames /\ GzipIsLate
  BY <1>2, <1>3 DEF OpenedInTurn, NamedInOrder, FilesFollowNames, GzipIsLate
<1>9. RunIsFresh /\ AlwaysReadable /\ LiveUntouched
  BY <1>2, <1>3 DEF RunIsFresh, AlwaysReadable, LiveUntouched
<1>10. QED
  BY <1>6, <1>7, <1>8, <1>9 DEF SessionsInv

(* The invariant holds in every state.                                     *)
THEOREM SessionsInvariant == Spec => []SessionsInv
<1>1. Init => SessionsInv
  BY SessionsInit
<1>2. SessionsInv /\ [Next]_vars => SessionsInv'
  BY SessionsStep
<1>3. QED
  BY <1>1, <1>2, PTL DEF Spec

(* The names of the sessions sort as the sessions were opened, over the    *)
(* ends of months and years, unless the clock was stepped back.            *)
THEOREM NamesInOrder == Spec => []NamedInOrder
<1>1. SessionsInv => NamedInOrder
  BY DEF SessionsInv, OpenedInTurn
<1>2. QED
  BY <1>1, SessionsInvariant, PTL

(* Each file can be read whole under one of its names, whatever disk_guard *)
(* does and wherever it is killed.                                         *)
THEOREM EveryFileReadable == Spec => []AlwaysReadable
<1>1. SessionsInv => AlwaysReadable
  BY DEF SessionsInv
<1>2. QED
  BY <1>1, SessionsInvariant, PTL

(* disk_guard never compresses the session of a running recorder.          *)
THEOREM LiveSessionUntouched == Spec => []LiveUntouched
<1>1. SessionsInv => LiveUntouched
  BY DEF SessionsInv
<1>2. QED
  BY <1>1, SessionsInvariant, PTL
=============================================================================
