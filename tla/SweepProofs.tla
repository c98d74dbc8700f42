---------------------------- MODULE SweepProofs ----------------------------
(***************************************************************************)
(* What the schedule arithmetic is for, proved for every length of the     *)
(* calendar's units, every job setting and every limit of u64 and i128:    *)
(* the first run of a calendar, the next slot of a grid, the ramp of a fee *)
(* and the release of unbonded stake.                                      *)
(***************************************************************************)
EXTENDS ScheduleSweep, ScheduleProofs

-----------------------------------------------------------------------------
(* Quotients and remainders. *)

\* A quotient and a remainder that fit are the ones of the division.
LEMMA DivisionUnique ==
  ASSUME NEW n \in Int, NEW d \in Nat \ {0}, NEW q \in Int, NEW r \in 0..(d - 1),
         n = d * q + r
  PROVE  n \div d = q /\ n % d = r
<1> DEFINE p == n \div d
           s == n % d
<1>1. p \in Int /\ s \in 0..(d - 1) /\ n = d * p + s
  OBVIOUS
<1> HIDE DEF p, s
<1>2. d * (p - q) = r - s
  BY <1>1
<1>3. CASE p - q >= 1
  <2>1. d * (p - q) >= d
    BY <1>1, <1>3
  <2> QED BY <1>1, <1>2, <2>1
<1>4. CASE p - q <= -1
  <2>1. d * (p - q) <= -d
    BY <1>1, <1>4
  <2> QED BY <1>1, <1>2, <2>1
<1>5. p = q
  BY <1>1, <1>3, <1>4
<1>6. s = r
  BY <1>1, <1>5
<1> QED BY <1>5, <1>6 DEF p, s

\* The remainder of a sum whose first part is a multiple of the divisor.
LEMMA PeriodRemainder ==
  ASSUME NEW t \in Nat, NEW p \in Nat \ {0}, NEW x \in 0..(p - 1)
  PROVE  /\ (t - (t % p) + x) % p = x
         /\ (t - (t % p) + p + x) % p = x
<1> DEFINE q == t \div p
           r == t % p
<1>1. q \in Nat /\ r \in 0..(p - 1) /\ t = p * q + r
  BY QuotientRemainder
<1> HIDE DEF q, r
<1>2. p * q \in Nat /\ p * (q + 1) = p * q + p
  BY <1>1
<1>3. t - r + x = p * q + x /\ t - r + p + x = p * (q + 1) + x
  BY <1>1, <1>2
<1>4. t - r + x \in Int /\ t - r + p + x \in Int /\ q + 1 \in Int /\ q \in Int
  BY <1>1
<1>5. (t - r + x) % p = x
  BY <1>3, <1>4, DivisionUnique
<1>6. (t - r + p + x) % p = x
  BY <1>3, <1>4, DivisionUnique
<1> QED BY <1>5, <1>6 DEF r

\* Numbers with the same remainder differ by a multiple, and conversely.
LEMMA SameRemainder ==
  ASSUME NEW x \in Int, NEW y \in Int, NEW d \in Nat \ {0}
  PROVE  x % d = y % d <=> \E k \in Int : x - y = d * k
<1> DEFINE p == x \div d
           q == y \div d
           r == x % d
           s == y % d
<1>1. p \in Int /\ q \in Int /\ r \in 0..(d - 1) /\ s \in 0..(d - 1)
      /\ x = d * p + r /\ y = d * q + s
  OBVIOUS
<1>2. ASSUME r = s PROVE \E k \in Int : x - y = d * k
  <2> HIDE DEF p, q, r, s
  <2>1. x - y = d * (p - q) /\ p - q \in Int
    BY <1>1, <1>2
  <2> QED BY <2>1
<1>3. ASSUME NEW k \in Int, x - y = d * k PROVE r = s
  <2>1. x = d * (q + k) + s /\ q + k \in Int
    <3> HIDE DEF p, q, r, s
    <3> QED BY <1>1, <1>3
  <2>2. s \in 0..(d - 1)
    BY <1>1
  <2> QED BY <2>1, <2>2, DivisionUnique
<1> QED BY <1>2, <1>3

-----------------------------------------------------------------------------
(* Calendars. *)

\* What a time of day adds up to.
TimeOfDay(hour, minute, second) == (hour * HOUR_MINUTES + minute) * MINUTE + second

\* Times of day are below the day's length, and each is given by one hour, minute
\* and second only.
LEMMA TimeOfDayUnique ==
  ASSUME NEW h \in 0..(DAY_HOURS - 1), NEW m \in 0..(HOUR_MINUTES - 1), NEW s \in 0..(MINUTE - 1)
  PROVE  /\ TimeOfDay(h, m, s) \in 0..(DAY - 1)
         /\ TimeOfDay(h, m, s) \div MINUTE = h * HOUR_MINUTES + m
         /\ TimeOfDay(h, m, s) % MINUTE = s
         /\ (h * HOUR_MINUTES + m) \div HOUR_MINUTES = h
         /\ (h * HOUR_MINUTES + m) % HOUR_MINUTES = m
<1>1. MINUTE \in Nat \ {0} /\ HOUR_MINUTES \in Nat \ {0} /\ DAY_HOURS \in Nat \ {0}
  BY ScheduleAssumption
<1> DEFINE minutes == h * HOUR_MINUTES + m
<1>2. minutes \in Nat /\ minutes = HOUR_MINUTES * h + m
  BY <1>1
<1>3. minutes + 1 <= DAY_HOURS * HOUR_MINUTES
  <2>1. (h + 1) * HOUR_MINUTES <= DAY_HOURS * HOUR_MINUTES
    BY <1>1, ProductMonotonic
  <2>2. (h + 1) * HOUR_MINUTES = h * HOUR_MINUTES + HOUR_MINUTES
    BY <1>1
  <2>3. h * HOUR_MINUTES \in Nat /\ DAY_HOURS * HOUR_MINUTES \in Nat
    BY <1>1
  <2> QED BY <1>1, <2>1, <2>2, <2>3
<1> HIDE DEF minutes
<1>4. (minutes + 1) * MINUTE <= DAY
  <2>1. DAY_HOURS * HOUR_MINUTES \in Nat /\ minutes + 1 \in Nat
    BY <1>1, <1>2
  <2> QED BY <1>1, <1>3, <2>1, ProductMonotonic DEF DAY
<1>5. minutes * MINUTE = MINUTE * minutes /\ (minutes + 1) * MINUTE = MINUTE * minutes + MINUTE
      /\ MINUTE * minutes \in Nat /\ DAY \in Nat
  BY <1>1, <1>2, CalendarUnits DEF U64
<1>6. TimeOfDay(h, m, s) = MINUTE * minutes + s
  BY <1>5 DEF TimeOfDay, minutes
<1>7. TimeOfDay(h, m, s) \in 0..(DAY - 1)
  BY <1>1, <1>4, <1>5, <1>6
<1>8. TimeOfDay(h, m, s) \div MINUTE = minutes /\ TimeOfDay(h, m, s) % MINUTE = s
  <2>1. TimeOfDay(h, m, s) \in Int /\ minutes \in Int
    BY <1>2, <1>7
  <2> QED BY <1>1, <1>6, <2>1, DivisionUnique
<1>9. minutes \div HOUR_MINUTES = h /\ minutes % HOUR_MINUTES = m
  <2>1. minutes \in Int /\ h \in Int
    BY <1>2
  <2> QED BY <1>1, <1>2, <2>1, DivisionUnique
<1> QED BY <1>7, <1>8, <1>9 DEF minutes

\* The day and the time of day that a wall clock shows.
LEMMA ClockReads ==
  ASSUME NEW t \in Nat
  PROVE  LET minutes == t \div MINUTE
             hours   == minutes \div HOUR_MINUTES
         IN  /\ hours % DAY_HOURS \in 0..(DAY_HOURS - 1)
             /\ minutes % HOUR_MINUTES \in 0..(HOUR_MINUTES - 1)
             /\ t % MINUTE \in 0..(MINUTE - 1)
             /\ t % DAY = TimeOfDay(hours % DAY_HOURS, minutes % HOUR_MINUTES, t % MINUTE)
<1>1. MINUTE \in Nat \ {0} /\ HOUR_MINUTES \in Nat \ {0} /\ DAY_HOURS \in Nat \ {0}
      /\ DAY \in Nat \ {0}
  BY ScheduleAssumption, CalendarUnits DEF U64
<1> DEFINE minutes == t \div MINUTE
           hours == minutes \div HOUR_MINUTES
           day == hours \div DAY_HOURS
           h == hours % DAY_HOURS
           m == minutes % HOUR_MINUTES
           s == t % MINUTE
<1>2. minutes \in Nat /\ s \in 0..(MINUTE - 1) /\ t = MINUTE * minutes + s
  BY <1>1, QuotientRemainder
<1> HIDE DEF minutes, s
<1>3. hours \in Nat /\ m \in 0..(HOUR_MINUTES - 1) /\ minutes = HOUR_MINUTES * hours + m
  BY <1>1, <1>2, QuotientRemainder
<1> HIDE DEF hours, m
<1>4. day \in Nat /\ h \in 0..(DAY_HOURS - 1) /\ hours = DAY_HOURS * day + h
  BY <1>1, <1>3, QuotientRemainder
<1> HIDE DEF day, h
<1>5. TimeOfDay(h, m, s) \in 0..(DAY - 1)
  BY <1>2, <1>3, <1>4, TimeOfDayUnique
<1>6. t = DAY * day + TimeOfDay(h, m, s)
  <2>1. minutes = (DAY_HOURS * HOUR_MINUTES) * day + (h * HOUR_MINUTES + m)
    BY <1>1, <1>3, <1>4
  <2>2. \A a, b \in Nat : MINUTE * (a * day + b) = (a * MINUTE) * day + b * MINUTE
    BY <1>1, <1>4
  <2>3. DAY_HOURS * HOUR_MINUTES \in Nat /\ h * HOUR_MINUTES + m \in Nat
    BY <1>1, <1>3, <1>4
  <2>4. MINUTE * minutes = DAY * day + (h * HOUR_MINUTES + m) * MINUTE
    BY <2>1, <2>2, <2>3 DEF DAY
  <2>5. DAY * day \in Nat /\ (h * HOUR_MINUTES + m) * MINUTE \in Nat
    BY <1>1, <1>4, <2>3
  <2> QED BY <1>2, <2>4, <2>5 DEF TimeOfDay
<1>7. t % DAY = TimeOfDay(h, m, s)
  <2>1. t \in Int /\ day \in Int
    BY <1>4
  <2> QED BY <1>1, <1>5, <1>6, <2>1, DivisionUnique
<1> QED BY <1>2, <1>3, <1>4, <1>7 DEF minutes, hours, h, m, s

\* The remainder of a time in the week.
LEMMA WeekRemainder ==
  ASSUME NEW t \in Nat
  PROVE  /\ (t \div DAY) % WEEK_DAYS \in 0..(WEEK_DAYS - 1)
         /\ t % WEEK = ((t \div DAY) % WEEK_DAYS) * DAY + (t % DAY)
<1>1. WEEK_DAYS \in Nat \ {0} /\ DAY \in Nat \ {0} /\ WEEK \in Nat \ {0}
  <2>1. WEEK_DAYS \in Nat \ {0}
    BY ScheduleAssumption
  <2> QED BY <2>1, CalendarUnits DEF U64
<1> DEFINE day == t \div DAY
           week == day \div WEEK_DAYS
           w == day % WEEK_DAYS
           s == t % DAY
<1>2. day \in Nat /\ s \in 0..(DAY - 1) /\ t = DAY * day + s
  BY <1>1, QuotientRemainder
<1> HIDE DEF day, s
<1>3. week \in Nat /\ w \in 0..(WEEK_DAYS - 1) /\ day = WEEK_DAYS * week + w
  BY <1>1, <1>2, QuotientRemainder
<1> HIDE DEF week, w
<1>4. DAY * day = WEEK * week + w * DAY
  BY <1>1, <1>2, <1>3 DEF WEEK
<1>5. w * DAY + s \in 0..(WEEK - 1)
  <2>1. (w + 1) * DAY <= WEEK_DAYS * DAY
    BY <1>1, <1>3, ProductMonotonic
  <2>2. (w + 1) * DAY = w * DAY + DAY /\ w * DAY \in Nat
    BY <1>1, <1>3
  <2>3. WEEK = WEEK_DAYS * DAY
    BY DEF WEEK
  <2> QED BY <1>1, <1>2, <2>1, <2>2, <2>3
<1>6. t = WEEK * week + (w * DAY + s)
  <2>1. WEEK * week \in Nat /\ w * DAY \in Nat
    BY <1>1, <1>3
  <2> QED BY <1>2, <1>3, <1>4, <2>1
<1>7. t % WEEK = w * DAY + s
  <2>1. t \in Int /\ week \in Int
    BY <1>3
  <2> QED BY <1>1, <1>5, <1>6, <2>1, DivisionUnique
<1> QED BY <1>3, <1>7 DEF day, w, s

\* A calendar's time of day, as Matches reads it and as calendar_offset adds it up.
LEMMA MatchesTime ==
  ASSUME NEW t \in Nat, NEW hour \in 0..(DAY_HOURS - 1), NEW minute \in 0..(HOUR_MINUTES - 1)
  PROVE  (/\ t % MINUTE = 0
          /\ (t \div MINUTE) % HOUR_MINUTES = minute
          /\ ((t \div MINUTE) \div HOUR_MINUTES) % DAY_HOURS = hour)
         <=> t % DAY = TimeOfDay(hour, minute, 0)
<1> DEFINE h == ((t \div MINUTE) \div HOUR_MINUTES) % DAY_HOURS
           m == (t \div MINUTE) % HOUR_MINUTES
           s == t % MINUTE
<1>1. h \in 0..(DAY_HOURS - 1) /\ m \in 0..(HOUR_MINUTES - 1) /\ s \in 0..(MINUTE - 1)
      /\ t % DAY = TimeOfDay(h, m, s)
  BY ClockReads
<1> HIDE DEF h, m, s
<1>2. 0 \in 0..(MINUTE - 1)
  BY ScheduleAssumption
<1>3. ASSUME TimeOfDay(h, m, s) = TimeOfDay(hour, minute, 0) PROVE h = hour /\ m = minute /\ s = 0
  <2>1. /\ TimeOfDay(h, m, s) \div MINUTE = h * HOUR_MINUTES + m
        /\ TimeOfDay(h, m, s) % MINUTE = s
        /\ (h * HOUR_MINUTES + m) \div HOUR_MINUTES = h
        /\ (h * HOUR_MINUTES + m) % HOUR_MINUTES = m
    BY <1>1, TimeOfDayUnique
  <2>2. /\ TimeOfDay(hour, minute, 0) \div MINUTE = hour * HOUR_MINUTES + minute
        /\ TimeOfDay(hour, minute, 0) % MINUTE = 0
        /\ (hour * HOUR_MINUTES + minute) \div HOUR_MINUTES = hour
        /\ (hour * HOUR_MINUTES + minute) % HOUR_MINUTES = minute
    BY <1>2, TimeOfDayUnique
  <2>3. h * HOUR_MINUTES + m = hour * HOUR_MINUTES + minute
    BY <1>3, <2>1, <2>2, Zenon
  <2> QED BY <1>3, <2>1, <2>2, <2>3, Zenon
<1>4. s = 0 /\ m = minute /\ h = hour <=> t % DAY = TimeOfDay(hour, minute, 0)
  BY <1>1, <1>3, Zenon
<1> QED BY <1>4 DEF h, m, s

\* The calendar's weekday, as Matches reads it and as calendar_offset counts it.
LEMMA MatchesWeekday ==
  ASSUME NEW day \in Nat, NEW weekday \in 0..(WEEK_DAYS - 1)
  PROVE  (day + WEEK_DAYS - FIRST_MONDAY_OFFSET_DAYS) % WEEK_DAYS = weekday
         <=> day % WEEK_DAYS = (weekday + FIRST_MONDAY_OFFSET_DAYS) % WEEK_DAYS
<1>1. WEEK_DAYS \in Nat \ {0} /\ FIRST_MONDAY_OFFSET_DAYS \in Nat
  BY ScheduleAssumption
<1> DEFINE x == day + WEEK_DAYS - FIRST_MONDAY_OFFSET_DAYS
           y == weekday + FIRST_MONDAY_OFFSET_DAYS
<1>2. x \in Int /\ y \in Int /\ weekday \in Int /\ day \in Int /\ 0 \in Int
      /\ x - weekday = (day - y) + WEEK_DAYS
  BY <1>1
<1>3. weekday % WEEK_DAYS = weekday
  <2>1. weekday = WEEK_DAYS * 0 + weekday
    BY <1>1
  <2> QED BY <1>1, <1>2, <2>1, DivisionUnique
<1> HIDE DEF x, y
<1>4. x % WEEK_DAYS = weekday % WEEK_DAYS <=> \E k \in Int : x - weekday = WEEK_DAYS * k
  BY <1>1, <1>2, SameRemainder
<1>5. day % WEEK_DAYS = y % WEEK_DAYS <=> \E k \in Int : day - y = WEEK_DAYS * k
  BY <1>1, <1>2, SameRemainder
<1>6. ASSUME NEW k \in Int, x - weekday = WEEK_DAYS * k
      PROVE  \E i \in Int : day - y = WEEK_DAYS * i
  <2>1. k - 1 \in Int /\ WEEK_DAYS * (k - 1) = WEEK_DAYS * k - WEEK_DAYS
    BY <1>1
  <2>2. WEEK_DAYS * k \in Int /\ day - y \in Int
    BY <1>1, <1>2
  <2>3. day - y = WEEK_DAYS * (k - 1)
    BY <1>1, <1>2, <1>6, <2>1, <2>2
  <2> QED BY <2>1, <2>3
<1>7. ASSUME NEW k \in Int, day - y = WEEK_DAYS * k
      PROVE  \E i \in Int : x - weekday = WEEK_DAYS * i
  <2>1. k + 1 \in Int /\ WEEK_DAYS * (k + 1) = WEEK_DAYS * k + WEEK_DAYS
    BY <1>1
  <2>2. x - weekday = WEEK_DAYS * (k + 1)
    BY <1>1, <1>2, <1>7, <2>1
  <2> QED BY <2>1, <2>2
<1>8. x % WEEK_DAYS = weekday <=> day % WEEK_DAYS = y % WEEK_DAYS
  BY <1>3, <1>4, <1>5, <1>6, <1>7
<1> QED BY <1>8 DEF x, y

\* A clock shows a calendar's day and time exactly where the calendar's offset
\* into its period says.
LEMMA MatchesAtOffset ==
  ASSUME NEW cal \in ScheduleType, cal # Interval, schedule_is_valid(cal), NEW t \in Nat
  PROVE  /\ calendar_offset(cal) \in 0..(calendar_period(cal) - 1)
         /\ Matches(cal, t) <=> t % calendar_period(cal) = calendar_offset(cal)
<1>1. /\ DAY \in Nat \ {0} /\ WEEK \in Nat \ {0}
  BY CalendarUnits DEF U64
<1>2. WEEK_DAYS \in Nat \ {0} /\ FIRST_MONDAY_OFFSET_DAYS \in Nat /\ 0 \in 0..(MINUTE - 1)
  <2>1. WEEK_DAYS \in Nat \ {0} /\ FIRST_MONDAY_OFFSET_DAYS \in Nat
    BY ScheduleAssumption
  <2>2. MINUTE \in Nat \ {0}
    BY ScheduleAssumption
  <2> QED BY <2>1, <2>2
<1>3. cal.hour \in 0..(DAY_HOURS - 1) /\ cal.minute \in 0..(HOUR_MINUTES - 1)
  <2>1. cal.hour \in Nat /\ cal.minute \in Nat
    BY DEF ScheduleType
  <2>2. cal.hour < DAY_HOURS /\ cal.minute < HOUR_MINUTES
    BY DEF schedule_is_valid
  <2>3. DAY_HOURS \in Nat /\ HOUR_MINUTES \in Nat
    BY ScheduleAssumption
  <2> QED BY <2>1, <2>2, <2>3
<1> DEFINE time == TimeOfDay(cal.hour, cal.minute, 0)
<1>4. /\ time \in 0..(DAY - 1)
      /\ time = (cal.hour * HOUR_MINUTES + cal.minute) * MINUTE
  <2>1. time \in 0..(DAY - 1)
    BY <1>2, <1>3, TimeOfDayUnique
  <2>2. cal.hour * HOUR_MINUTES + cal.minute \in Nat /\ MINUTE \in Nat
    BY <1>3, ScheduleAssumption
  <2>3. (cal.hour * HOUR_MINUTES + cal.minute) * MINUTE \in Nat
    BY <2>2, ProductNat
  <2> QED BY <2>1, <2>3 DEF TimeOfDay
<1>5. (/\ t % MINUTE = 0
       /\ (t \div MINUTE) % HOUR_MINUTES = cal.minute
       /\ ((t \div MINUTE) \div HOUR_MINUTES) % DAY_HOURS = cal.hour)
      <=> t % DAY = time
  BY <1>3, MatchesTime
<1> HIDE DEF time
<1>6. CASE cal.kind = "Daily"
  <2>1. calendar_period(cal) = DAY /\ calendar_offset(cal) = time
    BY <1>4, <1>6 DEF calendar_period, calendar_offset
  <2>2. Matches(cal, t) <=> t % DAY = time
    BY <1>5, <1>6 DEF Matches
  <2> QED BY <1>4, <2>1, <2>2
<1>7. CASE cal.kind = "Weekly"
  <2> DEFINE day == t \div DAY
             w == day % WEEK_DAYS
             o == (cal.weekday + FIRST_MONDAY_OFFSET_DAYS) % WEEK_DAYS
             r == t % DAY
  <2>1. cal.weekday \in 0..(WEEK_DAYS - 1)
    <3>1. cal.weekday \in Nat /\ cal.weekday < WEEK_DAYS
      BY <1>7 DEF ScheduleType, Interval, schedule_is_valid
    <3> QED BY <1>2, <3>1
  <2>2. o \in 0..(WEEK_DAYS - 1)
    <3>1. cal.weekday + FIRST_MONDAY_OFFSET_DAYS \in Nat
      BY <1>2, <2>1
    <3> QED BY <1>2, <3>1, QuotientRemainder
  <2>3. day \in Nat /\ r \in 0..(DAY - 1)
    BY <1>1, QuotientRemainder
  <2>4. w \in 0..(WEEK_DAYS - 1) /\ t % WEEK = w * DAY + r
    BY WeekRemainder
  <2>5. calendar_period(cal) = WEEK /\ calendar_offset(cal) = o * DAY + time
    BY <1>4, <1>7 DEF calendar_period, calendar_offset
  <2>6. Matches(cal, t) <=> r = time /\ w = o
    <3>1. (day + WEEK_DAYS - FIRST_MONDAY_OFFSET_DAYS) % WEEK_DAYS = cal.weekday <=> w = o
      BY <2>1, <2>3, MatchesWeekday
    <3> QED BY <1>5, <1>7, <3>1 DEF Matches
  <2> HIDE DEF day, w, o, r
  <2>7. w * DAY + r = o * DAY + time <=> r = time /\ w = o
    <3>1. ASSUME w * DAY + r = o * DAY + time PROVE r = time /\ w = o
      <4> DEFINE n == w * DAY + r
      <4>1. n \in Int /\ n = DAY * w + r /\ n = DAY * o + time /\ w \in Int /\ o \in Int
        BY <1>1, <1>4, <2>2, <2>3, <2>4, <3>1
      <4> HIDE DEF n
      <4>2. n \div DAY = w /\ n % DAY = r
        BY <1>1, <2>3, <4>1, DivisionUnique
      <4>3. n \div DAY = o /\ n % DAY = time
        <5>1. time \in 0..(DAY - 1)
          BY <1>4
        <5> QED BY <1>1, <4>1, <5>1, DivisionUnique
      <4> QED BY <4>2, <4>3
    <3> QED BY <3>1
  <2>8. o * DAY + time \in 0..(WEEK - 1)
    <3>1. (o + 1) * DAY <= WEEK_DAYS * DAY
      BY <1>1, <1>2, <2>2, ProductMonotonic
    <3>2. (o + 1) * DAY = o * DAY + DAY /\ o * DAY \in Nat
      BY <1>1, <2>2
    <3>3. WEEK = WEEK_DAYS * DAY
      BY DEF WEEK
    <3> QED BY <1>1, <1>4, <3>1, <3>2, <3>3
  <2> QED BY <2>4, <2>5, <2>6, <2>7, <2>8
<1> QED BY <1>6, <1>7 DEF ScheduleType

-----------------------------------------------------------------------------
(* The sweep. *)

\* The clock stays in the swept range, and the case is one of the given ones.
SweepType == now \in 0..MaxNow /\ in \in Cases

\* The sweep keeps its types.
LEMMA SweepStep == SweepType /\ [Next]_vars => SweepType'
  BY SweepAssumption DEF SweepType, Next, Tick, vars

\* It starts with them.
LEMMA SweepInit == Init => SweepType
  BY SweepAssumption DEF SweepType, Init

\* The first run of a calendar is its first match.
LEMMA FirstRun ==
  ASSUME NEW cal \in ScheduleType, cal # Interval, schedule_is_valid(cal),
         NEW from \in Nat, from + calendar_period(cal) <= U64Max
  PROVE  LET run == first_calendar_run(cal, from)
         IN  /\ run >= from
             /\ Matches(cal, run)
             /\ \A t \in from..(run - 1) : ~ Matches(cal, t)
<1> DEFINE p == calendar_period(cal)
           o == calendar_offset(cal)
           r == from % p
           start == from - r
           run == first_calendar_run(cal, from)
<1>1. p \in Nat \ {0} /\ U64Max \in Nat
  BY PeriodType, ScheduleAssumption DEF U64
<1>2. o \in 0..(p - 1) /\ \A t \in Nat : Matches(cal, t) <=> t % p = o
  BY MatchesAtOffset
<1>3. r \in 0..(p - 1) /\ start \in Nat
  BY <1>1, QuotientRemainder, FloorNat
<1>4. ASSUME NEW x \in 0..(p - 1) PROVE (start + x) % p = x /\ (start + p + x) % p = x
  BY <1>1, PeriodRemainder
<1>5. run = IF r <= o THEN SatAdd(start, o) ELSE SatAdd(SatAdd(start, p), o)
  BY DEF first_calendar_run
<1>6. from + p <= U64Max /\ from = start + r
  BY <1>1, <1>3
<1> HIDE DEF p, o, r, start, run
<1>7. CASE r <= o
  <2>1. run = start + o
    BY <1>1, <1>2, <1>3, <1>5, <1>6, <1>7 DEF SatAdd
  <2>2. run \in Nat /\ run >= from
    BY <1>2, <1>3, <1>6, <1>7, <2>1
  <2>3. Matches(cal, run)
    BY <1>2, <1>4, <2>1, <2>2
  <2>4. ASSUME NEW t \in from..(run - 1) PROVE ~ Matches(cal, t)
    <3> DEFINE x == t - start
    <3>1. x \in 0..(p - 1) /\ x # o /\ t = start + x /\ t \in Nat
      BY <1>1, <1>2, <1>3, <1>6, <2>1, <2>2
    <3> HIDE DEF x
    <3> QED BY <1>2, <1>4, <3>1
  <2> QED BY <2>2, <2>3, <2>4 DEF run
<1>8. CASE o < r
  <2>1. run = start + p + o
    BY <1>1, <1>2, <1>3, <1>5, <1>6, <1>8 DEF SatAdd
  <2>2. run \in Nat /\ run >= from
    BY <1>1, <1>2, <1>3, <1>6, <1>8, <2>1
  <2>3. Matches(cal, run)
    BY <1>2, <1>4, <2>1, <2>2
  <2>4. ASSUME NEW t \in from..(run - 1) PROVE ~ Matches(cal, t)
    <3> DEFINE x == t - start
    <3>1. x \in Nat /\ x >= r /\ x < p + o /\ t = start + x /\ t \in Nat
      BY <1>1, <1>2, <1>3, <1>6, <2>1, <2>2
    <3> HIDE DEF x
    <3>2. CASE x < p
      <4>1. x \in 0..(p - 1) /\ x # o
        BY <1>1, <1>2, <1>3, <1>8, <3>1, <3>2
      <4> QED BY <1>2, <1>4, <3>1, <4>1
    <3>3. CASE x >= p
      <4>1. x - p \in 0..(p - 1) /\ x - p # o /\ t = start + p + (x - p)
        BY <1>1, <1>2, <1>3, <3>1, <3>3
      <4>2. t % p = x - p
        BY <1>4, <4>1
      <4> QED BY <1>2, <3>1, <4>1, <4>2
    <3> QED BY <1>1, <3>1, <3>2, <3>3
  <2> QED BY <2>2, <2>3, <2>4 DEF run
<1> QED BY <1>1, <1>2, <1>3, <1>7, <1>8

\* first_calendar_run: the first run of a calendar is the first instant at which a
\* wall clock shows its weekday, hour and minute, for any calendar and any lengths
\* of the units, hours and minutes that wrap around a day or a week included.
THEOREM CalendarSafe == Spec => []FirstRunIsEarliestMatch
<1>1. SweepType => FirstRunIsEarliestMatch
  <2> SUFFICES ASSUME SweepType PROVE FirstRunIsEarliestMatch
    OBVIOUS
  <2>1. in.cal \in ScheduleType /\ in.cal # Interval /\ schedule_is_valid(in.cal)
    BY SweepAssumption DEF SweepType
  <2>2. now \in Nat /\ now + calendar_period(in.cal) <= U64Max
    BY SweepAssumption, CalendarUnits, ScheduleAssumption DEF SweepType, calendar_period, U64
  <2> QED BY <2>1, <2>2, FirstRun DEF FirstRunIsEarliestMatch
<1> QED BY <1>1, SweepInit, SweepStep, PTL DEF Spec

\* The next slot of a job is the least later one.
LEMMA NextSlot ==
  ASSUME NEW first \in U64, NEW interval \in U64 \ {0}, NEW time \in U64
  PROVE  LET slots == {s \in (time + 1)..U64Max :
                          s > first /\ (s - first) % interval = 0}
             run   == next_run_after(first, interval, time)
         IN  IF slots = {} THEN run = U64Max
             ELSE run \in slots /\ \A s \in slots : run <= s
<1> DEFINE slots == {s \in (time + 1)..U64Max : s > first /\ (s - first) % interval = 0}
           late == SatSub(time, first)
           q == late \div interval
           r == late % interval
           jump == (q + 1) * interval
           run == next_run_after(first, interval, time)
<1>1. interval \in Nat \ {0} /\ first \in Nat /\ time \in Nat /\ U64Max \in Nat /\ time <= U64Max
  BY ScheduleAssumption DEF U64
<1>2. late \in Nat /\ late = IF time < first THEN 0 ELSE time - first
  BY <1>1 DEF SatSub
<1>3. q \in Nat /\ r \in 0..(interval - 1) /\ late = interval * q + r
  BY <1>1, <1>2, QuotientRemainder
<1>4. jump \in Nat /\ jump = interval * q + interval /\ interval * q \in Nat
  BY <1>1, <1>3, ProductNat
<1>5. jump % interval = 0
  BY <1>1, <1>3, MultipleRemainder
<1>6. run = IF jump > U64Max THEN U64Max ELSE SatAdd(first, jump)
  BY <1>1 DEF next_run_after
<1> HIDE DEF late, q, r, jump, run
<1>7. run = IF first + jump > U64Max THEN U64Max ELSE first + jump
  BY <1>1, <1>4, <1>6 DEF SatAdd
<1>8. jump > late /\ jump > 0
  BY <1>1, <1>2, <1>3, <1>4
\* Every later slot is at least first + jump.
<1>9. ASSUME NEW s \in slots PROVE s >= first + jump
  <2> DEFINE d == s - first
             k == d \div interval
  <2>1. s \in Nat /\ s > time /\ s > first /\ d % interval = 0
    BY <1>1
  <2>2. d \in Nat /\ d > late
    BY <1>1, <1>2, <2>1
  <2>3. k \in Nat /\ d = interval * k + (d % interval)
    BY <1>1, <2>2, QuotientRemainder
  <2> HIDE DEF d, k
  <2>4. d = interval * k
    BY <1>1, <2>1, <2>3, ProductNat
  <2>5. k > q
    <3> SUFFICES ASSUME k <= q PROVE FALSE
      BY <1>3, <2>3
    <3>1. interval * k <= interval * q
      BY <1>1, <1>3, <2>3, ProductMonotonic
    <3> QED BY <1>1, <1>3, <1>4, <2>2, <2>4, <3>1
  <2>6. interval * (q + 1) <= interval * k /\ interval * (q + 1) = interval * q + interval
    BY <1>1, <1>3, <2>3, <2>5, ProductMonotonic
  <2>7. d >= jump
    BY <1>4, <2>2, <2>4, <2>6
  <2> QED BY <1>1, <1>4, <2>1, <2>7 DEF d
<1>10. CASE first + jump > U64Max
  <2>1. slots = {}
    BY <1>1, <1>4, <1>9, <1>10
  <2> QED BY <1>1, <1>4, <1>7, <1>10, <2>1 DEF run
<1>11. CASE first + jump <= U64Max
  <2>1. run = first + jump
    BY <1>1, <1>4, <1>7, <1>11
  <2>2. first + jump \in slots
    <3>1. (first + jump) - first = jump
      BY <1>1, <1>4
    <3>2. first + jump \in (time + 1)..U64Max /\ first + jump > first
      BY <1>1, <1>2, <1>4, <1>8, <1>11
    <3> QED BY <1>5, <3>1, <3>2
  <2> HIDE DEF slots
  <2>3. IF slots = {} THEN run = U64Max ELSE run \in slots /\ \A s \in slots : run <= s
    BY <1>9, <2>1, <2>2
  <2> QED BY <2>3 DEF slots, run
<1> QED BY <1>1, <1>4, <1>10, <1>11

\* next_run_after: missed slots are skipped and the grid never drifts, for every
\* interval and lateness, up to the last slot that fits in a u64.
THEOREM GridSafe == Spec => []NextRunIsLeastLaterSlot
<1>1. SweepType => NextRunIsLeastLaterSlot
  <2> SUFFICES ASSUME SweepType PROVE NextRunIsLeastLaterSlot
    OBVIOUS
  <2>1. in.job.next_run \in U64 /\ in.job.interval \in U64 \ {0}
    BY SweepAssumption DEF SweepType
  <2>2. now \in U64
    <3>1. MaxNow \in Nat /\ MaxNow + DAY <= U64Max
      BY SweepAssumption
    <3>2. DAY \in Nat /\ U64Max \in Nat
      BY CalendarUnits, ScheduleAssumption DEF U64
    <3> QED BY <3>1, <3>2 DEF SweepType, U64
  <2> QED BY <2>1, <2>2, NextSlot DEF NextRunIsLeastLaterSlot
<1> QED BY <1>1, SweepInit, SweepStep, PTL DEF Spec

\* unbonding_release without saturation: the end of the epoch, and then the period.
LEMMA Release ==
  ASSUME NEW t \in Nat, NEW e \in Nat \ {0}, NEW p \in Nat, t + p + e <= U64Max
  PROVE  unbonding_release(t, p, e) = e * (t \div e) + e + p
<1> DEFINE q == t \div e
<1>1. q \in Nat /\ q <= t /\ e * q <= t /\ e * q \in Nat
  <2>1. q \in Nat /\ q <= t /\ t % e \in 0..(e - 1) /\ t = e * q + (t % e)
    BY QuotientRemainder
  <2>2. e * q \in Nat
    BY <2>1, ProductNat
  <2> HIDE DEF q
  <2> QED BY <2>1, <2>2
<1>2. U64Max \in Nat /\ unbonding_release(t, p, e) = SatAdd(SatMul(SatAdd(q, 1), e), p)
  BY ScheduleAssumption DEF unbonding_release
<1> HIDE DEF q
<1>3. SatAdd(q, 1) = q + 1
  BY <1>1, <1>2 DEF SatAdd
<1>4. (q + 1) * e = e * q + e
  BY <1>1
<1>5. SatMul(q + 1, e) = e * q + e
  BY <1>1, <1>2, <1>4 DEF SatMul
<1>6. SatAdd(e * q + e, p) = e * q + e + p
  BY <1>1, <1>2 DEF SatAdd
<1> QED BY <1>2, <1>3, <1>5, <1>6 DEF q

\* unbonding_release: a keeper waits its whole period and at most one epoch more,
\* and all keepers of one epoch are released together, for any epoch and period.
THEOREM ReleaseSafe == Spec => []ReleaseWithinOneEpoch
<1>1. SweepType => ReleaseWithinOneEpoch
  <2> SUFFICES ASSUME SweepType PROVE ReleaseWithinOneEpoch
    OBVIOUS
  <2> DEFINE e == in.epoch
  <2>1. now \in Nat /\ e \in Nat /\ Period \in Nat /\ now + Period + e <= U64Max
        /\ U64Max \in Nat
    <3>1. e \in Nat /\ MaxNow + Period + e <= U64Max /\ MaxNow \in Nat /\ Period \in Nat
      BY SweepAssumption DEF SweepType
    <3>2. U64Max \in Nat
      BY ScheduleAssumption
    <3> QED BY <3>1, <3>2 DEF SweepType
  <2> HIDE DEF e
  <2>2. CASE e = 0
    <3>1. unbonding_release(now, Period, e) = now + Period
      BY <2>1, <2>2 DEF unbonding_release, SatAdd
    <3> QED BY <2>1, <2>2, <3>1 DEF ReleaseWithinOneEpoch, e
  <2>3. CASE e # 0
    <3> DEFINE q == now \div e
               r == now % e
    <3>1. q \in Nat /\ r \in 0..(e - 1) /\ now = e * q + r /\ e * q \in Nat
      BY <2>1, <2>3, QuotientRemainder, ProductNat
    <3>2. unbonding_release(now, Period, e) = e * q + e + Period
      BY <2>1, <2>3, Release
    <3> HIDE DEF q
    <3>3. ASSUME r # 0 PROVE unbonding_release(now - 1, Period, e) = e * q + e + Period
      <4>1. now - 1 \in Nat /\ r - 1 \in 0..(e - 1) /\ now - 1 = e * q + (r - 1)
        BY <2>1, <2>3, <3>1, <3>3
      <4>2. now - 1 \in Int /\ q \in Int /\ e \in Nat \ {0}
        BY <2>1, <2>3, <3>1
      <4>3. (now - 1) \div e = q
        BY <4>1, <4>2, DivisionUnique
      <4>4. (now - 1) + Period + e <= U64Max
        BY <2>1
      <4> QED BY <2>1, <4>1, <4>2, <4>3, <4>4, Release
    <3>4. unbonding_release(now, Period, e) >= now + Period
          /\ unbonding_release(now, Period, e) <= now + Period + e
      <4> HIDE DEF r
      <4> QED BY <2>1, <3>1, <3>2
    <3> QED BY <3>2, <3>3, <3>4 DEF ReleaseWithinOneEpoch, e
  <2> QED BY <2>2, <2>3
<1> QED BY <1>1, SweepInit, SweepStep, PTL DEF Spec

\* The fee of a later time is no lower.
LEMMA FeeGrows ==
  ASSUME NEW job, NEW t \in U64, NEW u \in U64, t <= u,
         job.fee_per_run \in Amount, job.max_fee_per_run \in Amount,
         job.balance \in Amount, job.interval \in U64 \ {0}, job.next_run \in U64
  PROVE  ramped_fee(job, job, u) >= ramped_fee(job, job, t)
<1> DEFINE base == job.fee_per_run
           cap == job.max_fee_per_run
           i == job.interval
           span == cap - base
           late(x) == SatSub(x, job.next_run)
           fee(x) == IF span <= 0 \/ i = 0 THEN base
                     ELSE IF late(x) >= i THEN cap
                     ELSE IF span * late(x) > I128Max THEN base + span
                     ELSE base + (span * late(x)) \div i
<1>1. base \in Nat /\ cap \in Nat /\ job.balance \in Nat /\ i \in Nat \ {0} /\ I128Max \in Nat
  BY ScheduleAssumption DEF Amount, U64
<1>2. late(t) \in Nat /\ late(u) \in Nat /\ late(t) <= late(u)
  BY ScheduleAssumption DEF SatSub, U64
<1>3. ramped_fee(job, job, t) = Smaller(fee(t), job.balance)
      /\ ramped_fee(job, job, u) = Smaller(fee(u), job.balance)
  BY DEF ramped_fee
<1>4. fee(t) \in Nat /\ fee(u) \in Nat /\ fee(t) <= fee(u)
  <2>1. CASE span <= 0
    BY <1>1, <2>1
  <2>2. CASE span > 0
    <3>1. span \in Nat
      BY <1>1, <2>2
    <3>2. span * late(t) \in Nat /\ span * late(u) \in Nat /\ span * late(t) <= span * late(u)
      BY <1>2, <3>1, ProductMonotonic
    <3>3. ASSUME NEW x \in Nat, x < i
          PROVE  (span * x) \div i \in Nat /\ (span * x) \div i <= span
      <4>1. span * x \in Nat /\ span * x <= span * i
        BY <1>1, <3>1, <3>3, ProductMonotonic
      <4> QED BY <1>1, <3>1, <4>1, QuotientBound
    <3>4. (span * late(t)) \div i <= (span * late(u)) \div i
      <4> DEFINE n == span * late(t)
                 m == span * late(u)
                 q == m \div i
      <4>1. n \in Nat /\ m \in Nat /\ n <= m
        BY <3>2
      <4> HIDE DEF n, m
      <4>2. q \in Nat /\ m % i \in 0..(i - 1) /\ m = i * q + (m % i)
        BY <1>1, <4>1, QuotientRemainder
      <4>3. n \div i \in Nat /\ n % i \in 0..(i - 1) /\ n = i * (n \div i) + (n % i)
        BY <1>1, <4>1, QuotientRemainder
      <4> DEFINE p == n \div i
                 s == n % i
                 r == m % i
      <4> HIDE DEF p, q, s, r
      <4>4. SUFFICES ASSUME p >= q + 1 PROVE FALSE
        BY <4>2, <4>3 DEF p, q, m, n
      <4>5. p \in Nat /\ q \in Nat /\ s \in 0..(i - 1) /\ r \in 0..(i - 1)
            /\ n = i * p + s /\ m = i * q + r
        BY <4>2, <4>3 DEF p, q, s, r
      <4>6. i * (q + 1) <= i * p /\ i * (q + 1) = i * q + i
        BY <1>1, <4>4, <4>5, ProductMonotonic
      <4>7. i * q \in Nat /\ i * p \in Nat
        BY <1>1, <4>5, ProductNat
      <4> QED BY <1>1, <4>1, <4>5, <4>6, <4>7
    <3>5. base + span = cap
      BY <1>1
    <3> DEFINE x == (span * late(t)) \div i
               y == (span * late(u)) \div i
    <3>6. late(t) < i => x \in Nat /\ x <= span
      BY <1>2, <3>3
    <3>7. late(u) < i => y \in Nat /\ y <= span
      BY <1>2, <3>3
    <3>8. x <= y
      BY <3>4
    <3>9. fee(t) = IF late(t) >= i THEN cap ELSE IF span * late(t) > I128Max THEN cap ELSE base + x
      BY <1>1, <2>2, <3>5
    <3>10. fee(u) = IF late(u) >= i THEN cap ELSE IF span * late(u) > I128Max THEN cap ELSE base + y
      BY <1>1, <2>2, <3>5
    <3> HIDE DEF x, y, fee, late
    <3> QED BY <1>1, <1>2, <2>2, <3>1, <3>2, <3>5, <3>6, <3>7, <3>8, <3>9, <3>10
  <2> QED BY <1>1, <2>1, <2>2
<1> HIDE DEF fee
<1> QED BY <1>1, <1>3, <1>4 DEF Smaller

\* ramped_fee: waiting never lowers the fee, for any base, cap, interval and
\* balance, also where the ramp's product exceeds i128.
THEOREM FeeMonotonic == Spec => FeeNeverFalls
<1>1. ASSUME SweepType, [Next]_vars
      PROVE  [ramped_fee(in.job, in.job, now') >= ramped_fee(in.job, in.job, now)]_vars
  <2> SUFFICES ASSUME Next PROVE ramped_fee(in.job, in.job, now') >= ramped_fee(in.job, in.job, now)
    BY <1>1
  <2>1. MaxNow \in Nat /\ MaxNow <= U64Max
    <3>1. MaxNow \in Nat /\ MaxNow + DAY <= U64Max
      BY SweepAssumption
    <3>2. DAY \in Nat /\ U64Max \in Nat
      BY CalendarUnits, ScheduleAssumption DEF U64
    <3> QED BY <3>1, <3>2
  <2>2. now \in U64 /\ now' \in U64 /\ now <= now'
    BY <1>1, <2>1, ScheduleAssumption DEF SweepType, Next, Tick, U64
  <2>3. /\ in.job.next_run \in U64 /\ in.job.interval \in U64 \ {0}
        /\ {in.job.fee_per_run, in.job.max_fee_per_run, in.job.balance} \subseteq Amount
    BY <1>1, SweepAssumption DEF SweepType
  <2> QED BY <2>2, <2>3, FeeGrows
<1> QED BY <1>1, SweepInit, SweepStep, PTL DEF Spec, FeeNeverFalls
=============================================================================
