--------------------------- MODULE ScheduleProofs ---------------------------
(***************************************************************************)
(* Facts about the arithmetic of Schedule.tla, for every value of the      *)
(* limits and of the calendar's units.                                     *)
(***************************************************************************)
EXTENDS Schedule, TLAPS

-----------------------------------------------------------------------------
(* Integer arithmetic. *)

\* A product of naturals is a natural.
LEMMA ProductNat == ASSUME NEW a \in Nat, NEW b \in Nat PROVE a * b \in Nat
  OBVIOUS

\* Multiplication by a natural is monotonic.
LEMMA ProductMonotonic ==
  ASSUME NEW a \in Nat, NEW b \in Nat, NEW c \in Nat, a <= b
  PROVE  /\ a * c \in Nat /\ b * c \in Nat /\ c * a \in Nat /\ c * b \in Nat
         /\ a * c <= b * c /\ c * a <= c * b
  OBVIOUS

\* Quotient and remainder of naturals.
LEMMA QuotientRemainder ==
  ASSUME NEW n \in Nat, NEW d \in Nat \ {0}
  PROVE  /\ n \div d \in Nat /\ n % d \in 0..(d - 1)
         /\ n = d * (n \div d) + (n % d)
         /\ n \div d <= n
  OBVIOUS

\* The start of the period a time lies in.
LEMMA FloorNat ==
  ASSUME NEW n \in Nat, NEW d \in Nat \ {0}
  PROVE  n - (n % d) \in Nat
  OBVIOUS

\* A quotient times its divisor does not exceed the dividend, and a bounded
\* dividend has a bounded quotient.
LEMMA QuotientBound ==
  ASSUME NEW n \in Nat, NEW d \in Nat \ {0}, NEW q \in Nat, n <= q * d
  PROVE  n \div d \in Nat /\ n \div d <= q
<1> DEFINE m == n \div d
<1>1. m \in Nat /\ d * m <= n /\ d * m \in Nat
  BY QuotientRemainder, ProductNat
<1>2. SUFFICES ASSUME m >= q + 1 PROVE FALSE
  BY <1>1
<1>3. d * (q + 1) <= d * m
  BY <1>1, <1>2, ProductMonotonic
<1>4. d * (q + 1) = q * d + d
  OBVIOUS
<1> QED
  BY <1>1, <1>3, <1>4

\* A multiple of a divisor leaves no remainder.
LEMMA MultipleRemainder ==
  ASSUME NEW n \in Nat, NEW d \in Nat \ {0}
  PROVE  (n * d) % d = 0
<1> DEFINE m == n * d
           q == m \div d
<1>1. m \in Nat
  BY ProductNat
<1>2. q \in Nat /\ m % d \in 0..(d - 1) /\ m = d * q + (m % d)
  BY <1>1, QuotientRemainder
<1>3. CASE q >= n + 1
  <2>1. (n + 1) * d <= q * d /\ q * d = d * q /\ (n + 1) * d = n * d + d
    BY <1>2, <1>3, ProductMonotonic
  <2> QED
    BY <1>1, <1>2, <2>1, ProductNat
<1>4. CASE n >= q + 1
  <2>1. (q + 1) * d <= n * d /\ (q + 1) * d = d * q + d
    BY <1>2, <1>4, ProductMonotonic
  <2> QED
    BY <1>1, <1>2, <2>1, ProductNat
<1>5. CASE q = n
  <2>1. d * q = n * d
    BY <1>5, <1>2
  <2> HIDE DEF q
  <2> QED
    BY <1>1, <1>2, <2>1, ProductNat
<1> QED
  BY <1>2, <1>3, <1>4, <1>5

-----------------------------------------------------------------------------
(* Saturating arithmetic stays in its type. *)

LEMMA SatAddType ==
  ASSUME NEW a \in Nat, NEW b \in Nat
  PROVE  SatAdd(a, b) \in U64
  BY ScheduleAssumption DEF SatAdd, U64

LEMMA SatSubType ==
  ASSUME NEW a \in U64, NEW b \in U64
  PROVE  SatSub(a, b) \in U64 /\ SatSub(a, b) <= a
  BY ScheduleAssumption DEF SatSub, U64

LEMMA SatMulType ==
  ASSUME NEW a \in Nat, NEW b \in Nat
  PROVE  SatMul(a, b) \in U64
  BY ScheduleAssumption, ProductNat DEF SatMul, U64

LEMMA SmoothType ==
  ASSUME NEW a \in U64, NEW b \in Nat
  PROVE  smooth(a, b) \in U64
<1>1. a - a \div 8 \in Nat
  BY ScheduleAssumption DEF U64
<1> QED
  BY <1>1, SatAddType DEF smooth

-----------------------------------------------------------------------------
(* Calendars. *)

LEMMA CalendarUnits == DAY \in U64 \ {0} /\ WEEK \in U64 \ {0}
<1>1. DAY_HOURS * HOUR_MINUTES \in Nat \ {0}
  BY ScheduleAssumption
<1>2. DAY \in Nat \ {0}
  BY <1>1, ScheduleAssumption DEF DAY
<1>3. WEEK \in Nat \ {0}
  <2>1. WEEK_DAYS \in Nat \ {0}
    BY ScheduleAssumption
  <2> QED
    BY <1>2, <2>1 DEF WEEK
<1> QED
  BY <1>2, <1>3, CalendarAssumption DEF U64

LEMMA PeriodType ==
  ASSUME NEW s \in ScheduleType
  PROVE  calendar_period(s) \in U64 \ {0}
  BY CalendarUnits DEF calendar_period

LEMMA OffsetType ==
  ASSUME NEW s \in ScheduleType, s # Interval
  PROVE  calendar_offset(s) \in Nat
<1>1. s.hour \in Nat /\ s.minute \in Nat
  BY DEF ScheduleType
<1>2. (s.hour * HOUR_MINUTES + s.minute) * MINUTE \in Nat
  BY <1>1, ProductNat, ScheduleAssumption
<1>3. CASE s.kind = "Daily"
  BY <1>2, <1>3 DEF calendar_offset
<1>4. CASE s.kind # "Daily"
  <2>1. s.weekday \in Nat
    BY <1>4 DEF ScheduleType, Interval
  <2>2. (s.weekday + FIRST_MONDAY_OFFSET_DAYS) % WEEK_DAYS \in Nat
    <3>1. s.weekday + FIRST_MONDAY_OFFSET_DAYS \in Nat /\ WEEK_DAYS \in Nat \ {0}
      BY <2>1, ScheduleAssumption
    <3> QED
      BY <3>1, QuotientRemainder
  <2>3. DAY \in Nat
    BY CalendarUnits DEF U64
  <2>4. ((s.weekday + FIRST_MONDAY_OFFSET_DAYS) % WEEK_DAYS) * DAY \in Nat
    BY <2>2, <2>3, ProductNat
  <2> QED
    BY <1>2, <1>4, <2>4 DEF calendar_offset
<1> QED
  BY <1>3, <1>4

LEMMA FirstRunType ==
  ASSUME NEW s \in ScheduleType, NEW from \in U64
  PROVE  first_calendar_run(s, from) \in U64
<1>1. CASE s = Interval
  BY <1>1 DEF first_calendar_run
<1>2. CASE s # Interval
  <2> DEFINE period == calendar_period(s)
  <2>1. period \in Nat \ {0} /\ calendar_offset(s) \in Nat
    BY <1>2, PeriodType, OffsetType DEF U64
  <2>2. from - (from % period) \in Nat
    <3>1. from \in Nat
      BY DEF U64
    <3> QED
      BY <2>1, <3>1, FloorNat
  <2>3. SatAdd(from - (from % period), period) \in Nat
    BY <2>1, <2>2, SatAddType DEF U64
  <2> QED
    BY <1>2, <2>1, <2>2, <2>3, SatAddType DEF first_calendar_run
<1> QED
  BY <1>1, <1>2

\* A run's next slot is a u64.
LEMMA NextRunType ==
  ASSUME NEW scheduled \in U64, NEW interval \in U64 \ {0}, NEW time \in U64
  PROVE  next_run_after(scheduled, interval, time) \in U64
<1> DEFINE late == SatSub(time, scheduled)
           steps == late \div interval + 1
<1>1. late \in Nat
  BY SatSubType DEF U64
<1>2. interval \in Nat \ {0}
  BY DEF U64
<1>3. steps \in Nat
  BY <1>1, <1>2, QuotientRemainder
<1>4. steps * interval \in Nat
  BY <1>2, <1>3, ProductNat
<1>5. SatAdd(scheduled, steps * interval) \in U64
  BY <1>4, SatAddType DEF U64
<1> QED
  BY <1>2, <1>5, ScheduleAssumption DEF next_run_after, U64

\* A run's next slot lies after the run, unless the run was at the last u64
\* second, and on the grid of the slot before, unless no later slot is a u64.
LEMMA NextRunSlot ==
  ASSUME NEW scheduled \in U64, NEW interval \in U64 \ {0}, NEW time \in U64,
         time < U64Max
  PROVE  LET next == next_run_after(scheduled, interval, time)
         IN  /\ next > time
             /\ next = U64Max \/ (next - scheduled) % interval = 0
<1> DEFINE late == SatSub(time, scheduled)
           q == late \div interval
           r == late % interval
           steps == q + 1
           jump == steps * interval
<1>1. late \in Nat /\ scheduled + late >= time
  BY DEF SatSub, U64
<1>2. interval \in Nat \ {0} /\ scheduled \in Nat /\ time \in Nat /\ U64Max \in Nat
  BY ScheduleAssumption DEF U64
<1>3. q \in Nat /\ r \in 0..(interval - 1) /\ late = interval * q + r
  BY <1>1, <1>2, QuotientRemainder
<1>4. jump \in Nat /\ jump = interval * q + interval /\ interval * q \in Nat
  BY <1>2, <1>3, ProductNat
<1>5. next_run_after(scheduled, interval, time) =
        IF jump > U64Max THEN U64Max ELSE SatAdd(scheduled, jump)
  BY <1>2 DEF next_run_after
<1>6. jump % interval = 0
  BY <1>2, <1>3, MultipleRemainder
<1>7. jump > late
  <2> HIDE DEF q, r, jump, late
  <2> QED
    BY <1>1, <1>2, <1>3, <1>4
<1> HIDE DEF jump, late
<1>8. CASE jump > U64Max \/ scheduled + jump > U64Max
  BY <1>2, <1>4, <1>5, <1>8 DEF SatAdd
<1>9. CASE ~ (jump > U64Max \/ scheduled + jump > U64Max)
  <2>1. next_run_after(scheduled, interval, time) = scheduled + jump
    BY <1>2, <1>4, <1>5, <1>9 DEF SatAdd
  <2>2. (scheduled + jump) - scheduled = jump
    BY <1>2, <1>4
  <2> QED
    BY <1>1, <1>2, <1>4, <1>6, <1>7, <2>1, <2>2
<1> QED
  BY <1>8, <1>9

-----------------------------------------------------------------------------
(* Fees. *)

\* A fee lies between the base fee and the larger of base and cap, unless the
\* job holds less; then it is what the job holds.
LEMMA FeeBounds ==
  ASSUME NEW spec, NEW state, NEW time \in U64,
         spec.fee_per_run \in Amount, spec.max_fee_per_run \in Amount,
         spec.interval \in U64 \ {0},
         state.next_run \in U64, state.balance \in Amount
  PROVE  LET fee == ramped_fee(spec, state, time)
         IN  /\ fee \in 0..state.balance
             /\ fee <= Larger(spec.fee_per_run, spec.max_fee_per_run)
             /\ state.balance >= spec.fee_per_run => fee >= spec.fee_per_run
<1> DEFINE base == spec.fee_per_run
           cap == spec.max_fee_per_run
           late == SatSub(time, state.next_run)
           span == cap - base
           extra == (span * late) \div spec.interval
           fee == IF span <= 0 \/ spec.interval = 0 THEN base
                  ELSE IF late >= spec.interval THEN cap
                  ELSE IF span * late > I128Max THEN base + span
                  ELSE base + extra
<1>1. late \in Nat
  BY ScheduleAssumption DEF SatSub, U64
<1>2. base \in Nat /\ cap \in Nat /\ state.balance \in Nat
  BY DEF Amount
<1>3. fee \in Nat /\ base <= fee /\ fee <= Larger(base, cap)
  <2>1. CASE span <= 0 \/ late >= spec.interval
    BY <2>1, <1>2, <1>1 DEF Larger, U64
  <2>2. CASE span > 0 /\ late < spec.interval
    <3>1. span \in Nat /\ spec.interval \in Nat \ {0}
      BY <1>2, <2>2 DEF U64
    <3>2. span * late \in Nat /\ span * late <= span * spec.interval
      BY <1>1, <2>2, <3>1, ProductMonotonic
    <3>3. extra \in Nat /\ extra <= span
      BY <3>1, <3>2, QuotientBound
    <3> HIDE DEF extra
    <3> QED
      BY <1>2, <2>2, <3>1, <3>3 DEF Larger
  <2> QED
    BY <1>1, <1>2, <2>1, <2>2 DEF U64
<1>4. ramped_fee(spec, state, time) = Smaller(fee, state.balance)
  BY DEF ramped_fee
<1>5. PICK f \in Nat : /\ ramped_fee(spec, state, time) = Smaller(f, state.balance)
                       /\ base <= f /\ f <= Larger(base, cap)
  BY <1>3, <1>4
<1>6. Larger(base, cap) \in Nat
  BY <1>2 DEF Larger
<1> QED
  BY <1>2, <1>5, <1>6 DEF Smaller

\* split_fee hands out exactly the amount, in two parts that are not negative:
\* the share cannot exceed the amount although it is rounded piecewise.
LEMMA SplitExact ==
  ASSUME NEW amount \in Nat, NEW bps \in 0..BPS_SCALE
  PROVE  LET parts == split_fee(amount, bps)
         IN  /\ parts.rest \in Nat /\ parts.share \in Nat
             /\ parts.rest + parts.share = amount
<1> DEFINE q == amount \div BPS_SCALE
           r == amount % BPS_SCALE
           share == q * bps + (r * bps) \div BPS_SCALE
<1>1. BPS_SCALE \in Nat \ {0} /\ bps \in Nat /\ bps <= BPS_SCALE
  BY ScheduleAssumption
<1>2. q \in Nat /\ r \in Nat /\ amount = BPS_SCALE * q + r
  BY <1>1, QuotientRemainder
<1>3. q * bps \in Nat /\ q * bps <= q * BPS_SCALE
  BY <1>1, <1>2, ProductMonotonic
<1>4. (r * bps) \div BPS_SCALE \in Nat /\ (r * bps) \div BPS_SCALE <= r
  <2>1. r * bps \in Nat /\ r * bps <= r * BPS_SCALE
    BY <1>1, <1>2, ProductMonotonic
  <2> QED
    BY <1>1, <1>2, <2>1, QuotientBound
<1>5. share \in Nat /\ share <= amount
  <2> HIDE DEF q, r
  <2>1. q * BPS_SCALE = BPS_SCALE * q /\ BPS_SCALE * q \in Nat
    BY <1>1, <1>2
  <2> QED
    BY <1>2, <1>3, <1>4, <2>1
<1>6. split_fee(amount, bps) = IF amount <= 0 \/ bps = 0
                               THEN [rest |-> amount, share |-> 0]
                               ELSE [rest |-> amount - share, share |-> share]
  BY DEF split_fee
<1> HIDE DEF share
<1> QED
  BY <1>5, <1>6
=============================================================================
