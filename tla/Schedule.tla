------------------------------ MODULE Schedule ------------------------------
(***************************************************************************)
(* The pure schedule and fee arithmetic of the registry                    *)
(* (contracts/registry/src/schedule.rs).  Times are unsigned and saturate  *)
(* at U64Max, amounts are signed and checked against I128Max, exactly as   *)
(* the Rust code does with u64 and i128.  The calendar's unit lengths are  *)
(* parameters so that TLC can sweep whole weeks: the program has           *)
(* MINUTE = 60, HOUR_MINUTES = 60, DAY_HOURS = 24, WEEK_DAYS = 7,          *)
(* FIRST_MONDAY_OFFSET_DAYS = 4 and BPS_SCALE = 10000.                     *)
(***************************************************************************)
EXTENDS Integers

CONSTANTS
    U64Max,                     \* largest u64
    I128Max,                    \* largest i128
    MINUTE,                     \* seconds in a minute
    HOUR_MINUTES,               \* minutes in an hour
    DAY_HOURS,                  \* hours in a day
    WEEK_DAYS,                  \* days in a week
    FIRST_MONDAY_OFFSET_DAYS,   \* days from the unix epoch to the first Monday
    BPS_SCALE                   \* 100% in basis points

ASSUME ScheduleAssumption ==
    /\ U64Max \in Nat /\ I128Max \in Nat
    /\ \A unit \in {MINUTE, HOUR_MINUTES, DAY_HOURS, WEEK_DAYS, BPS_SCALE} :
          unit \in Nat \ {0}
    /\ FIRST_MONDAY_OFFSET_DAYS \in Nat

U64 == 0..U64Max
I128 == (-I128Max - 1)..I128Max
Amount == 0..I128Max

DAY == DAY_HOURS * HOUR_MINUTES * MINUTE
WEEK == WEEK_DAYS * DAY

ASSUME CalendarAssumption == DAY <= U64Max /\ WEEK <= U64Max

-----------------------------------------------------------------------------
(* u64 arithmetic that stops at the limits instead of wrapping. *)

SatAdd(a, b) == IF a + b > U64Max THEN U64Max ELSE a + b

SatSub(a, b) == IF a < b THEN 0 ELSE a - b

SatMul(a, b) == IF a * b > U64Max THEN U64Max ELSE a * b

Larger(a, b) == IF a < b THEN b ELSE a

Smaller(a, b) == IF a < b THEN a ELSE b

-----------------------------------------------------------------------------
(* Calendars. *)

Interval == [kind |-> "Interval"]

Daily(hour, minute) == [kind |-> "Daily", hour |-> hour, minute |-> minute]

Weekly(weekday, hour, minute) ==
    [kind |-> "Weekly", weekday |-> weekday, hour |-> hour, minute |-> minute]

ScheduleType ==
    {Interval}
    \cup [kind : {"Daily"}, hour : Nat, minute : Nat]
    \cup [kind : {"Weekly"}, weekday : Nat, hour : Nat, minute : Nat]

schedule_is_valid(schedule) ==
    schedule # Interval =>
        /\ schedule.hour < DAY_HOURS
        /\ schedule.minute < HOUR_MINUTES
        /\ schedule.kind = "Weekly" => schedule.weekday < WEEK_DAYS

\* The fixed period of a calendar schedule (an Interval job has its own).
calendar_period(schedule) == IF schedule.kind = "Daily" THEN DAY ELSE WEEK

calendar_offset(schedule) ==
    LET time == (schedule.hour * HOUR_MINUTES + schedule.minute) * MINUTE
    IN  IF schedule.kind = "Daily" THEN time
        ELSE ((schedule.weekday + FIRST_MONDAY_OFFSET_DAYS) % WEEK_DAYS) * DAY + time

\* Mutated form: an exact hit on the calendar's time waits a whole period.
FirstCalendarRunSkipsExactHit(schedule, from) ==
    IF schedule = Interval THEN from
    ELSE LET period == calendar_period(schedule)
             start  == from - (from % period)
         IN  IF from % period < calendar_offset(schedule)
             THEN SatAdd(start, calendar_offset(schedule))
             ELSE SatAdd(SatAdd(start, period), calendar_offset(schedule))

\* The first time at or after `from` on the schedule.
first_calendar_run(schedule, from) ==
    IF schedule = Interval THEN from
    ELSE LET period == calendar_period(schedule)
             start  == from - (from % period)
         IN  IF from % period <= calendar_offset(schedule)
             THEN SatAdd(start, calendar_offset(schedule))
             ELSE SatAdd(SatAdd(start, period), calendar_offset(schedule))

\* Mutated form: reschedules from the time of the run, so the grid drifts.
NextRunDrifts(scheduled, interval, time) == SatAdd(Larger(scheduled, time), interval)

\* Mutated form: one step only, so a late run is due again at once.
NextRunCatchesUp(scheduled, interval, time) == SatAdd(scheduled, interval)

\* The next slot of the grid scheduled + k * interval that lies after `time`.
next_run_after(scheduled, interval, time) ==
    IF interval = 0 THEN Larger(scheduled, time)
    ELSE LET steps == SatSub(time, scheduled) \div interval + 1
         IN  IF steps * interval > U64Max THEN U64Max
             ELSE SatAdd(scheduled, steps * interval)

-----------------------------------------------------------------------------
(* Fees. *)

\* Mutated form: the ramp multiplies the whole maximum, not the span above the base.
RampedFeeOvershoots(spec, state, time) ==
    LET late == SatSub(time, state.next_run)
    IN  Smaller(IF spec.max_fee_per_run <= spec.fee_per_run \/ spec.interval = 0
                THEN spec.fee_per_run
                ELSE IF late >= spec.interval THEN spec.max_fee_per_run
                ELSE spec.fee_per_run + (spec.max_fee_per_run * late) \div spec.interval,
                state.balance)

\* Mutated form: what the job holds is no limit.
RampedFeeUncapped(spec, state, time) ==
    IF spec.max_fee_per_run > spec.fee_per_run /\ SatSub(time, state.next_run) >= spec.interval
    THEN spec.max_fee_per_run ELSE spec.fee_per_run

\* Flat, or rising linearly with lateness up to max_fee_per_run; never more
\* than the job holds.  A product beyond i128 counts as the whole span.
ramped_fee(spec, state, time) ==
    LET late == SatSub(time, state.next_run)
        span == spec.max_fee_per_run - spec.fee_per_run
        fee  == IF span <= 0 \/ spec.interval = 0 THEN spec.fee_per_run
                ELSE IF late >= spec.interval THEN spec.max_fee_per_run
                ELSE IF span * late > I128Max THEN spec.fee_per_run + span
                ELSE spec.fee_per_run + (span * late) \div spec.interval
    IN  Smaller(fee, state.balance)

\* `amount` split into the keeper's rest and the protocol's share.
split_fee(amount, bps) ==
    IF amount <= 0 \/ bps = 0 THEN [rest |-> amount, share |-> 0]
    ELSE LET share == (amount \div BPS_SCALE) * bps
                        + ((amount % BPS_SCALE) * bps) \div BPS_SCALE
         IN  [rest |-> amount - share, share |-> share]

-----------------------------------------------------------------------------
(* Keeper statistics and unbonding. *)

\* A moving average kept scaled by 8: each sample counts for 1/8.
smooth(scaled, sample) == SatAdd(scaled - scaled \div 8, sample)

\* Mutated form: the period starts one epoch too late.
UnbondingReleaseSkipsEpoch(time, period, epoch) ==
    SatAdd(IF epoch = 0 THEN time ELSE SatMul(SatAdd(time \div epoch, 2), epoch), period)

\* When stake is withdrawable: the period runs from the end of the current
\* epoch, or from now without epochs.
unbonding_release(time, period, epoch) ==
    SatAdd(IF epoch = 0 THEN time ELSE SatMul(SatAdd(time \div epoch, 1), epoch), period)
=============================================================================
