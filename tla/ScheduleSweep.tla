--------------------------- MODULE ScheduleSweep ---------------------------
(***************************************************************************)
(* Drives the arithmetic of Schedule.tla with a clock: one job setting,    *)
(* calendar and epoch is chosen at the start, and every second of the      *)
(* swept range is tried.  The properties compare each function with an     *)
(* independent definition of what it is for: the least instant of a        *)
(* calendar, the least later slot of a grid.  SweepProofs proves them for  *)
(* every case and time, ScheduleProofs what holds of a fee and its split.  *)
(***************************************************************************)
EXTENDS Schedule

CONSTANTS
    Cases,      \* records [cal, job, epoch] to try
    Period,     \* the unbonding period
    MaxNow      \* bound of the sweep

\* A job's interval is positive, and the sweep stops before the ends of u64 at
\* which a calendar or an unbonding period would saturate.
ASSUME SweepAssumption ==
    /\ Period \in Nat /\ MaxNow \in Nat /\ MaxNow + WEEK <= U64Max
    /\ MaxNow + DAY <= U64Max
    /\ \A c \in Cases :
          /\ c.cal \in ScheduleType /\ c.cal # Interval /\ schedule_is_valid(c.cal)
          /\ c.job.next_run \in U64 /\ c.job.interval \in U64 \ {0}
          /\ {c.job.fee_per_run, c.job.max_fee_per_run, c.job.balance} \subseteq Amount
          /\ c.epoch \in Nat /\ MaxNow + Period + c.epoch <= U64Max

VARIABLES
    now,        \* ledger time
    in          \* the chosen case, which never changes

vars == <<now, in>>

Init ==
    /\ now = 0
    /\ in \in Cases

Tick ==
    /\ now < MaxNow
    /\ now' = now + 1
    /\ UNCHANGED in

Next == Tick

Spec == Init /\ [][Next]_vars /\ WF_vars(Next)

-----------------------------------------------------------------------------

\* Whether a wall clock shows the calendar's weekday, hour and minute at t.
Matches(schedule, t) ==
    LET minutes == t \div MINUTE
        day     == t \div DAY
    IN  /\ t % MINUTE = 0
        /\ minutes % HOUR_MINUTES = schedule.minute
        /\ (minutes \div HOUR_MINUTES) % DAY_HOURS = schedule.hour
        /\ schedule.kind = "Weekly" =>
              (day + WEEK_DAYS - FIRST_MONDAY_OFFSET_DAYS) % WEEK_DAYS = schedule.weekday

\* first_calendar_run returns the first instant at or after `from` at which a
\* clock shows the calendar's day and time: no earlier match is skipped.
FirstRunIsEarliestMatch ==
    LET run == first_calendar_run(in.cal, now)
    IN  /\ run >= now
        /\ Matches(in.cal, run)
        /\ \A t \in now..(run - 1) : ~ Matches(in.cal, t)

\* next_run_after returns the least slot of the original grid after the time of
\* the run, so missed slots are skipped and the grid never drifts; once no slot
\* fits in a u64 it is the largest time.
NextRunIsLeastLaterSlot ==
    LET slots == {s \in (now + 1)..U64Max :
                    s > in.job.next_run /\ (s - in.job.next_run) % in.job.interval = 0}
        run   == next_run_after(in.job.next_run, in.job.interval, now)
    IN  IF slots = {} THEN run = U64Max
        ELSE run \in slots /\ \A s \in slots : run <= s

\* Waiting never lowers the fee of a run (ramped_fee rises with lateness).
FeeNeverFalls == [][ramped_fee(in.job, in.job, now') >= ramped_fee(in.job, in.job, now)]_vars

\* A keeper that starts unbonding waits the whole period and at most one epoch
\* more, and every keeper of one epoch is released at the same moment.
ReleaseWithinOneEpoch ==
    LET release == unbonding_release(now, Period, in.epoch)
    IN  /\ release >= now + Period
        /\ release <= now + Period + in.epoch
        /\ (in.epoch > 0 /\ now % in.epoch # 0) =>
              release = unbonding_release(now - 1, Period, in.epoch)
=============================================================================
