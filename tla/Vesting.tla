------------------------------ MODULE Vesting ------------------------------
(***************************************************************************)
(* Token vesting (contracts/examples/vesting): one schedule per            *)
(* beneficiary, released by anybody.  No function of the contract revokes  *)
(* a schedule, so `revocable` and `revoked` are left out.  What it answers *)
(* a keeper is should_run_for(beneficiary); it has no should_run(job_id).  *)
(***************************************************************************)
EXTENDS HostLedger

CONSTANTS
    Beneficiaries,
    Schedules,      \* arguments of create_schedule to try
    I128Max         \* the largest i128

VARIABLES
    deployed,
    schedules,      \* per beneficiary its VestingSchedule, or None
    pool,           \* the contract's tokens
    releases        \* history: releases made per beneficiary

vestingVars == <<deployed, schedules, pool, releases>>

VestingSchedule ==
    [total_amount : Nat \ {0}, released_amount : Nat, start_time : U64,
     cliff_duration : U64, total_duration : U64 \ {0}]

Init ==
    /\ deployed = FALSE
    /\ schedules = [b \in Beneficiaries |-> None]
    /\ pool = 0
    /\ releases = [b \in Beneficiaries |-> 0]

constructor ==
    /\ ~ deployed /\ deployed' = TRUE
    /\ UNCHANGED <<schedules, pool, releases>>

create_schedule(b, p) ==
    /\ deployed
    /\ p.total_amount > 0 /\ p.total_duration # 0 /\ p.cliff_duration <= p.total_duration
    /\ schedules[b] = None
    /\ pool' = pool + p.total_amount
    /\ schedules' = [schedules EXCEPT ![b] =
          [total_amount |-> p.total_amount, released_amount |-> 0,
           start_time |-> p.start_time, cliff_duration |-> p.cliff_duration,
           total_duration |-> p.total_duration]]
    /\ UNCHANGED <<deployed, releases>>

\* Mutated form: vesting starts over at the cliff.
VestedFromCliff(b) ==
    LET s     == schedules[b]
        cliff == s.start_time + s.cliff_duration
    IN  CASE s = None -> 0
          [] s # None /\ cliff + s.total_duration > U64Max -> None
          [] s # None /\ now < cliff -> 0
          [] s # None /\ now >= cliff + s.total_duration -> s.total_amount
          [] OTHER -> (s.total_amount * (now - cliff)) \div s.total_duration

\* What has vested by now, or None where the computation overflows and traps.
vested_amount(b) ==
    LET s       == schedules[b]
        elapsed == SatSub(now, s.start_time)
    IN  CASE s = None -> 0
          [] s # None /\ s.start_time + s.cliff_duration > U64Max -> None
          [] s # None /\ now < s.start_time + s.cliff_duration -> 0
          [] s # None /\ s.start_time + s.total_duration > U64Max -> None
          [] s # None /\ now >= s.start_time + s.total_duration -> s.total_amount
          [] OTHER -> IF s.total_amount * elapsed > I128Max THEN None
                      ELSE (s.total_amount * elapsed) \div s.total_duration

\* Never negative where it is computed: what has vested never falls.
releasable_amount(b) ==
    CASE schedules[b] = None -> 0
      [] vested_amount(b) = None -> None
      [] OTHER -> vested_amount(b) - schedules[b].released_amount

should_run_for(b) == releasable_amount(b) # None /\ releasable_amount(b) > 0

release_vested(b) ==
    /\ schedules[b] # None
    /\ should_run_for(b)
    /\ schedules' = [schedules EXCEPT ![b].released_amount = @ + releasable_amount(b)]
    /\ pool >= releasable_amount(b)
    /\ pool' = pool - releasable_amount(b)
    /\ releases' = [releases EXCEPT ![b] = @ + 1]
    /\ UNCHANGED deployed

Next ==
    \/ constructor
    \/ \E b \in Beneficiaries :
          \/ \E p \in Schedules : create_schedule(b, p)
          \/ release_vested(b)

-----------------------------------------------------------------------------

\* Everybody's tokens are paid out in full once keepers go on calling
\* release_vested, provided the schedule ends at a time a u64 can hold.  (One
\* that does not keeps its tokens for ever: vested_amount traps.)
VestingPaysOut ==
    \A b \in Beneficiaries :
        (schedules[b] # None /\ schedules[b].start_time + schedules[b].total_duration <= U64Max)
            ~> (schedules[b] # None /\ schedules[b].released_amount = schedules[b].total_amount)

Target == INSTANCE DueTarget WITH
    Tasks <- Beneficiaries, due <- [b \in Beneficiaries |-> should_run_for(b)],
    runs <- releases

\* Each beneficiary owns what was paid in for it and not released yet.
Money == INSTANCE Escrow WITH
    Holders <- Beneficiaries,
    account <- [b \in Beneficiaries |->
        IF schedules[b] = None THEN 0
        ELSE schedules[b].total_amount - schedules[b].released_amount]
=============================================================================
