--------------------------- MODULE RegistryState ---------------------------
(***************************************************************************)
(* Storage of the SoroCron registry contract                               *)
(* (contracts/registry/src/types.rs and storage.rs): its entries as        *)
(* variables, the records they hold, the constructor, and the helpers that *)
(* read and write them.                                                    *)
(*                                                                         *)
(* A contract call is one transaction: it either returns Ok and all its    *)
(* writes take effect, or it fails and has no effect.  A failing call is   *)
(* therefore no step here.  A call that loops (create_jobs, execute_batch, *)
(* withdraw_stakes) takes one step per iteration; `tx` holds its locals,   *)
(* and nothing else, not even the clock, moves until it returns.           *)
(*                                                                         *)
(* Abstractions: a job's function name is left out and its args are their  *)
(* length, since no decision depends on more; events and the always-zero   *)
(* slashing fields (slash_bps, slashed) are left out; signatures are left  *)
(* out, so each action stands for the call signed by the party it needs.   *)
(***************************************************************************)
EXTENDS Schedule, Sequences, SequencesExt

CONSTANTS
    Accounts,               \* job owners, admins and treasuries
    Keepers,                \* keeper addresses
    Contracts,              \* contract addresses a job can name as its target
    Resolvers,              \* contracts exposing should_run
    WasmHashes, FirstCode,  \* contract code: all of it, and what is deployed first
    None,                   \* the Rust None
    Self,                   \* this registry's address
    FeeToken, StakeToken,   \* possibly the same token
    FirstAdmin, FirstMinStake, UnbondingPeriod,     \* constructor arguments
    Digest,                 \* the head of sha256(job id, runs), as a number
    U32Max,                 \* largest u32
    MAX_BATCH, MAX_JOB_KEEPERS, MAX_ACTIVE_KEEPERS, MAX_BPS,
    MAX_GRACE_PERIOD, MAX_UNBONDING_EPOCH, DEFAULT_MAX_FAILURES,
    TEMPORARY_TTL,          \* seconds a temporary entry lives at least
    Worlds,                 \* the worlds to explore: arguments callers use, and bounds
    MaxJobs, MaxTime        \* bounds of all worlds: jobs ever created, last ledger time

VARIABLES
    world,              \* the world a behaviour is in; never changes
    now,                \* ledger timestamp
    config,             \* Config
    spec, state,        \* per job id its JobSpec and JobState, or None
    next_job_id,
    owner_jobs,         \* per account the ids it owns, in order
    pending_owner,      \* per job id the proposed owner, or None
    keepers,            \* per keeper its Keeper record, or None
    recent,             \* per keeper its KeeperRecent (zeros when absent)
    active_keepers,     \* the assigned-window rotation, in staking order
    halted,             \* targets the admin has halted
    job_touched,        \* temporary: last change that could stop a job's run
    target_resumed,     \* temporary: last un-halt per target
    windows_reset,      \* last restart of every assigned window
    pending_admin, upgrade_delay, pending_upgrade,
    code,               \* the contract code that is installed
    held,               \* the registry's balance per token
    tx                  \* locals of a looping call in progress

jobVars == <<spec, state, next_job_id, owner_jobs, pending_owner>>
keeperVars == <<keepers, recent, active_keepers>>
windowVars == <<halted, job_touched, target_resumed, windows_reset>>
adminVars == <<pending_admin, upgrade_delay, pending_upgrade, code>>
vars == <<now, world, config, jobVars, keeperVars, windowVars, adminVars, held, tx>>

-----------------------------------------------------------------------------
(* Types. *)

U32 == 0..U32Max
JobIds == 0..(MaxJobs - 1)
Option(S) == S \cup {None}
Tokens == {FeeToken, StakeToken}

JobParams ==
    [target : Contracts, args : Nat, interval : U64, schedule : ScheduleType,
     start_at : U64, fee_per_run : I128, max_fee_per_run : I128, max_runs : U32,
     end_at : U64, resolver : Option(Resolvers), keepers : Option(Seq(Keepers)),
     after : Option(JobIds)]

JobUpdate ==
    [args : Nat, interval : U64, schedule : ScheduleType, fee_per_run : I128,
     max_fee_per_run : I128, max_runs : U32, end_at : U64,
     resolver : Option(Resolvers), keepers : Option(Seq(Keepers)),
     after : Option(JobIds)]

JobSpec ==
    [owner : Accounts, target : Contracts, args : Nat, interval : U64 \ {0},
     schedule : ScheduleType, fee_per_run : Amount \ {0}, max_fee_per_run : Amount,
     max_runs : U32, end_at : U64, resolver : Option(Resolvers),
     keepers : Option(Seq(Keepers)), after : Option(JobIds)]

JobState ==
    [next_run : U64, balance : Amount, runs : U32, failures : U32,
     active : BOOLEAN, leader_runs : U32]

Keeper ==
    [stake : Amount, unbonding_at : Option(U64), executions : U32,
     total_lateness : U64, missed : U32]

KeeperRecent == [lateness : U64, misses : U64]

Config ==
    [admin : Accounts, min_stake : Amount, paused : BOOLEAN,
     executor : Option(Contracts), min_interval : U64, max_args : Nat,
     protocol_fee_bps : 0..MAX_BPS, treasury : Option(Accounts),
     max_failures : U32, grace_period : 0..MAX_GRACE_PERIOD,
     unbonding_epoch : 0..MAX_UNBONDING_EPOCH]

PendingUpgrade == [wasm_hash : WasmHashes, proposed_at : U64, available_at : U64]

NewJob == [params : JobParams, deposit : I128]

Idle == [call |-> "none"]

CreateJobsTx ==
    [call : {"create_jobs"}, owner : Accounts, batch : Seq(NewJob), i : Nat \ {0},
     total : Amount, paid : BOOLEAN]

ExecuteBatchTx ==
    [call : {"execute_batch"}, keeper : Keepers, todo : Seq(JobIds), info : Keeper,
     recent : KeeperRecent, keeper_fees : Amount, protocol_fees : Amount]

WithdrawStakesTx == [call : {"withdraw_stakes"}, todo : Seq(Keepers)]

\* Arguments, one set per parameter, and bounds: the last ledger time, jobs ever
\* created, and how much of each token there is.
WorldType ==
    [until : 1..MaxTime, jobs : 0..MaxJobs, supply : [Tokens -> Amount],
     owners : SUBSET Accounts, stakers : SUBSET Keepers,
     job_params : SUBSET JobParams, job_updates : SUBSET JobUpdate,
     amounts : SUBSET I128, job_batches : SUBSET Seq(NewJob),
     active_flags : SUBSET BOOLEAN, new_owners : SUBSET Accounts,
     run_batches : SUBSET Seq(JobIds), stakes : SUBSET I128,
     unbonders : SUBSET Keepers, stake_batches : SUBSET Seq(Keepers),
     executors : SUBSET Contracts, admins : SUBSET Accounts,
     paused_flags : SUBSET BOOLEAN, halts : SUBSET Contracts,
     min_stakes : SUBSET I128, min_intervals : SUBSET U64, max_args : SUBSET Nat,
     protocol_fees : SUBSET (U32 \X Option(Accounts)), max_failures : SUBSET U32,
     grace_periods : SUBSET U64, epochs : SUBSET U64, delays : SUBSET U64,
     wasm_hashes : SUBSET WasmHashes]

\* Nobody calls anything; a model overrides what it wants to explore.
Quiet ==
    [until |-> MaxTime, jobs |-> MaxJobs, supply |-> [t \in Tokens |-> I128Max],
     owners |-> {}, stakers |-> {},
     job_params |-> {}, job_updates |-> {}, amounts |-> {}, job_batches |-> {},
     active_flags |-> {}, new_owners |-> {}, run_batches |-> {}, stakes |-> {},
     unbonders |-> {}, stake_batches |-> {}, executors |-> {}, admins |-> {},
     paused_flags |-> {}, halts |-> {}, min_stakes |-> {}, min_intervals |-> {},
     max_args |-> {}, protocol_fees |-> {}, max_failures |-> {},
     grace_periods |-> {}, epochs |-> {}, delays |-> {}, wasm_hashes |-> {}]

\* Ledger time counts seconds from 1970, so it stays below the last u64.
ASSUME BoundsAssumption ==
    /\ MaxJobs \in Nat /\ MaxTime \in Nat \ {0}
    /\ MaxTime < U64Max /\ MAX_GRACE_PERIOD <= U64Max /\ MAX_UNBONDING_EPOCH <= U64Max
    /\ U32Max \in Nat /\ MAX_BATCH \in Nat /\ MAX_JOB_KEEPERS \in Nat
    /\ MAX_ACTIVE_KEEPERS \in Nat /\ MAX_BPS \in 0..BPS_SCALE
    /\ MAX_GRACE_PERIOD \in Nat /\ MAX_UNBONDING_EPOCH \in Nat
    /\ DEFAULT_MAX_FAILURES \in U32

\* A temporary entry (two days of ledgers) outlives the longest window (a day).
ASSUME TtlAssumption == TEMPORARY_TTL \in Nat /\ TEMPORARY_TTL >= MAX_GRACE_PERIOD

ASSUME AddressAssumption ==
    /\ {Self, FeeToken, StakeToken} \subseteq Contracts
    /\ FirstAdmin \in Accounts /\ FirstCode \in WasmHashes
    /\ FirstMinStake \in Amount /\ UnbondingPeriod \in U64
    /\ None \notin Accounts \cup Keepers \cup Contracts \cup Resolvers
    /\ None \notin U64 /\ None \notin JobIds
    /\ None \notin JobSpec /\ None \notin JobState /\ None \notin Keeper
    /\ None \notin PendingUpgrade /\ None \notin Seq(Keepers)
    /\ Digest \in [JobIds -> [U32 -> Nat]]

\* An address is a 32-byte string, so there are finitely many.
ASSUME KeepersAssumption == IsFiniteSet(Keepers)

ASSUME WorldsAssumption == Worlds \subseteq WorldType

TypeOK ==
    /\ world \in Worlds
    /\ now \in 0..MaxTime
    /\ config \in Config
    /\ spec \in [JobIds -> Option(JobSpec)]
    /\ state \in [JobIds -> Option(JobState)]
    /\ next_job_id \in 0..MaxJobs
    /\ owner_jobs \in [Accounts -> Seq(JobIds)]
    /\ pending_owner \in [JobIds -> Option(Accounts)]
    /\ keepers \in [Keepers -> Option(Keeper)]
    /\ recent \in [Keepers -> KeeperRecent]
    /\ active_keepers \in Seq(Keepers)
    /\ halted \in SUBSET Contracts
    /\ job_touched \in [JobIds -> U64]
    /\ target_resumed \in [Contracts -> U64]
    /\ windows_reset \in U64
    /\ pending_admin \in Option(Accounts)
    /\ upgrade_delay \in U64
    /\ pending_upgrade \in Option(PendingUpgrade)
    /\ code \in WasmHashes
    /\ held \in [Tokens -> Amount]
    /\ tx \in {Idle} \cup CreateJobsTx \cup ExecuteBatchTx \cup WithdrawStakesTx

-----------------------------------------------------------------------------
(* The constructor. *)

Init ==
    /\ world \in Worlds
    /\ now = 1
    /\ config = [admin |-> FirstAdmin, min_stake |-> FirstMinStake, paused |-> FALSE,
                 executor |-> None, min_interval |-> 0, max_args |-> 0,
                 protocol_fee_bps |-> 0, treasury |-> None,
                 max_failures |-> DEFAULT_MAX_FAILURES, grace_period |-> 0,
                 unbonding_epoch |-> 0]
    /\ spec = [j \in JobIds |-> None]
    /\ state = [j \in JobIds |-> None]
    /\ next_job_id = 0
    /\ owner_jobs = [a \in Accounts |-> <<>>]
    /\ pending_owner = [j \in JobIds |-> None]
    /\ keepers = [k \in Keepers |-> None]
    /\ recent = [k \in Keepers |-> [lateness |-> 0, misses |-> 0]]
    /\ active_keepers = <<>>
    /\ halted = {}
    /\ job_touched = [j \in JobIds |-> 0]
    /\ target_resumed = [t \in Contracts |-> 0]
    /\ windows_reset = 0
    /\ pending_admin = None
    /\ upgrade_delay = 0
    /\ pending_upgrade = None
    /\ code = FirstCode
    /\ held = [t \in Tokens |-> 0]
    /\ tx = Idle

-----------------------------------------------------------------------------
(* Storage helpers and checks shared by the calls. *)

Live(j) == j \in JobIds /\ state[j] # None

\* Mutated form: the emergency switch is not looked at.
EnsureNotPausedDropped == TRUE

ensure_not_paused == ~ config.paused

\* A keeper record that may execute: not unbonding and staked enough.
ensure_active_keeper(info) ==
    info.unbonding_at = None /\ info.stake >= config.min_stake

Eligible(k) == keepers[k] # None /\ ensure_active_keeper(keepers[k])

add_owner_job(jobs, owner, j) == [jobs EXCEPT ![owner] = Append(@, j)]

remove_owner_job(jobs, owner, j) ==
    [jobs EXCEPT ![owner] = RemoveFirst(@, j)]

\* Restarts the assigned windows of every job.
reset_windows == windows_reset' = now

\* Mutated form: a change of the job does not restart its window.
TouchForgotten(j) == job_touched' = job_touched

\* Restarts one job's assigned window, while windows are on.
touch(j) ==
    job_touched' = IF config.grace_period > 0 THEN [job_touched EXCEPT ![j] = now]
                   ELSE job_touched

\* SEP-41 transfers to and from the registry; a transfer that does not fit the
\* balances traps and the call fails.
TransferIn(token, amount) ==
    /\ held[token] + amount <= world.supply[token]
    /\ held' = [held EXCEPT ![token] = @ + amount]

TransferOut(token, amount) ==
    /\ amount <= held[token]
    /\ held' = [held EXCEPT ![token] = @ - amount]
=============================================================================
