------------------------------ MODULE Registry ------------------------------
(***************************************************************************)
(* The SoroCron registry contract: the calls of RegistryJobs,              *)
(* RegistryExecution, RegistryKeepers and RegistryAdmin, made by anybody   *)
(* in any order, and the ledger's clock and storage expiry.                *)
(***************************************************************************)
EXTENDS RegistryExecution, RegistryKeepers, RegistryAdmin

-----------------------------------------------------------------------------
(* The ledger. *)

Tick ==
    /\ tx = Idle
    /\ now < world.until
    /\ now' = now + 1
    /\ UNCHANGED <<world, config, jobVars, keeperVars, windowVars, adminVars, held, tx>>

\* Temporary entries disappear some time after their TTL and then read as 0.
ExpireJobTouched(j) ==
    /\ tx = Idle
    /\ job_touched[j] # 0 /\ now >= job_touched[j] + TEMPORARY_TTL
    /\ job_touched' = [job_touched EXCEPT ![j] = 0]
    /\ UNCHANGED <<now, world, config, jobVars, keeperVars, halted, target_resumed,
                   windows_reset, adminVars, held, tx>>

ExpireTargetResumed(t) ==
    /\ tx = Idle
    /\ target_resumed[t] # 0 /\ now >= target_resumed[t] + TEMPORARY_TTL
    /\ target_resumed' = [target_resumed EXCEPT ![t] = 0]
    /\ UNCHANGED <<now, world, config, jobVars, keeperVars, halted, job_touched,
                   windows_reset, adminVars, held, tx>>

-----------------------------------------------------------------------------

JobCall ==
    \/ \E o \in world.owners, p \in world.job_params, d \in world.amounts : create_job(o, p, d)
    \/ \E o \in world.owners, b \in world.job_batches : create_jobs(o, b)
    \/ create_jobs_validate
    \/ create_jobs_transfer
    \/ create_jobs_insert
    \/ \E j \in JobIds :
          \/ \E u \in world.job_updates : update_job(j, u)
          \/ \E a \in world.amounts : fund_job(j, a)
          \/ \E a \in world.amounts : withdraw_job_balance(j, a)
          \/ cancel_job(j)
          \/ \E f \in world.active_flags : set_job_active(j, f)
          \/ \E o \in world.new_owners : propose_job_owner(j, o)
          \/ accept_job_owner(j)

ExecuteCall ==
    \/ \E k \in Keepers, j \in JobIds, success \in BOOLEAN : execute(k, j, success)
    \/ \E k \in Keepers, ids \in world.run_batches : execute_batch(k, ids)
    \/ \E success \in BOOLEAN : execute_batch_run(success)
    \/ execute_batch_skip
    \/ execute_batch_settle

KeeperCall ==
    \/ \E k \in world.stakers, a \in world.stakes : stake(k, a)
    \/ \E k \in world.unbonders : begin_unbonding(k)
    \/ \E k \in Keepers : withdraw_stake(k)
    \/ \E list \in world.stake_batches : withdraw_stakes(list)
    \/ withdraw_stakes_next

AdminCall ==
    \/ \E e \in world.executors : set_executor(e)
    \/ \E a \in world.admins : propose_admin(a)
    \/ accept_admin
    \/ cancel_admin_proposal
    \/ \E p \in world.paused_flags : set_paused(p)
    \/ \E t \in world.halts, h \in BOOLEAN : set_target_halted(t, h)
    \/ \E s \in world.min_stakes : set_min_stake(s)
    \/ \E i \in world.min_intervals : set_min_interval(i)
    \/ \E n \in world.max_args : set_max_args(n)
    \/ \E f \in world.protocol_fees : set_protocol_fee(f[1], f[2])
    \/ \E n \in world.max_failures : set_max_failures(n)
    \/ \E g \in world.grace_periods : set_keeper_windows(g)
    \/ \E e \in world.epochs : set_unbonding_epoch(e)
    \/ \E d \in world.delays : set_upgrade_delay(d)
    \/ \E w \in world.wasm_hashes : propose_upgrade(w)
    \/ apply_upgrade
    \/ cancel_upgrade

\* The end of modelled time, where only the calls go on.  With this step TLC's
\* deadlock check still finds a looping call that cannot return.
Rest == tx = Idle /\ now = world.until /\ UNCHANGED vars

Ledger ==
    \/ Tick
    \/ Rest
    \/ \E j \in JobIds : ExpireJobTouched(j)
    \/ \E t \in Contracts : ExpireTargetResumed(t)

Next == JobCall \/ ExecuteCall \/ KeeperCall \/ AdminCall \/ Ledger

Spec == Init /\ [][Next]_vars

-----------------------------------------------------------------------------
(* Safety. *)

JobBalances == SumFunction([j \in {i \in JobIds : Live(i)} |-> state[j].balance])

Stakes == SumFunction([k \in {x \in Keepers : keepers[x] # None} |-> keepers[k].stake])

\* What a call in progress has moved but not yet booked, or booked but not yet
\* paid.
InFlight ==
    IF tx.call = "create_jobs" /\ tx.paid
    THEN SumFunction([n \in tx.i..Len(tx.batch) |-> tx.batch[n].deposit])
    ELSE IF tx.call = "execute_batch" THEN tx.keeper_fees + tx.protocol_fees
    ELSE 0

\* The registry holds exactly what it owes: every job's balance, every keeper's
\* stake and what the call in progress is moving.  Nothing is lost to rounding,
\* to a fee without a treasury or to a record that is dropped unpaid, so every
\* refund and every withdrawal can be paid (settle, cancel_job, release_stake).
BooksBalance ==
    \A t \in Tokens :
        held[t] = (IF t = FeeToken THEN JobBalances + InFlight ELSE 0)
                  + (IF t = StakeToken THEN Stakes ELSE 0)

\* jobs_by_owner lists exactly the live jobs of each owner, once each, through
\* creation, handover and cancellation, and a pending handover always belongs
\* to a live job and names somebody else than its owner.
OwnerIndexExact ==
    /\ \A a \in Accounts :
          /\ IsInjective(owner_jobs[a])
          /\ ToSet(owner_jobs[a]) = {j \in JobIds : Live(j) /\ spec[j].owner = a}
    /\ \A j \in JobIds :
          pending_owner[j] # None => Live(j) /\ pending_owner[j] # spec[j].owner

\* The rotation never lists a keeper twice, never outgrows its limit, and lists
\* only keepers with a record that are not leaving: add_active_keeper,
\* remove_active_keeper and release_stake keep the two entries in step.
RotationSound ==
    /\ IsInjective(active_keepers)
    /\ Len(active_keepers) <= MAX_ACTIVE_KEEPERS
    /\ \A k \in ToSet(active_keepers) :
          keepers[k] # None /\ keepers[k].unbonding_at = None

\* A follower never follows itself, and has never counted more runs of its
\* leader than the leader made: a follower cannot get ahead of its leader.
FollowersBehindLeaders ==
    \A j \in JobIds :
        Live(j) /\ spec[j].after # None =>
            /\ spec[j].after # j
            /\ Live(spec[j].after) => state[j].leader_runs <= state[spec[j].after].runs

\* The record a batch loaded at its start is still current when it is saved at
\* the end: no miss, stake or unbonding recorded meanwhile is overwritten.
BatchRecordCurrent ==
    tx.call = "execute_batch" =>
        LET stored == keepers[tx.keeper]
        IN  /\ stored # None
            /\ tx.info.missed = stored.missed
            /\ tx.info.stake = stored.stake
            /\ tx.info.unbonding_at = stored.unbonding_at

\* A keeper's share of missed windows never exceeds 100% (recent_miss_bps).
MissShareBounded ==
    \A k \in Keepers : recent[k].misses <= 8 * BPS_SCALE

\* A job runs at most once per slot of its grid and never before the slot: a run
\* happens at or after next_run, and leaves the next slot in the future on the
\* same grid.  It takes one fee, which is at least the base fee and at most the
\* cap, and never makes the balance negative.
OneRunPerSlot ==
    [][\A j \in JobIds :
          (Live(j) /\ state'[j] # None /\ state'[j].runs # state[j].runs) =>
              LET fee == state[j].balance - state'[j].balance
              IN  /\ now >= state[j].next_run
                  /\ state'[j].next_run > now
                  /\ \/ state'[j].next_run = U64Max
                     \/ (state'[j].next_run - state[j].next_run) % spec[j].interval = 0
                  /\ fee \in spec[j].fee_per_run..
                             Larger(spec[j].fee_per_run, spec[j].max_fee_per_run)
                  /\ state'[j].balance >= 0]_vars

\* A follower's run uses up a run of its leader: between two runs of the
\* follower the leader ran at least once.
FollowerWaitsForLeader ==
    [][\A j \in JobIds :
          (Live(j) /\ state'[j] # None /\ state'[j].runs # state[j].runs
             /\ spec[j].after # None) =>
              /\ Live(spec[j].after)
              /\ state'[j].leader_runs > state[j].leader_runs]_vars

\* A keeper that only polls is_due never overlooks a job: whatever run the
\* contract accepts, is_due reported it.
RunsWereReportedDue ==
    [][\A j \in JobIds :
          (Live(j) /\ state'[j] # None /\ state'[j].runs # state[j].runs) =>
              is_due(j, TRUE)]_vars

\* While the registry is paused no job runs and no funds enter; it only pays out.
PausedOnlyPaysOut ==
    [][(config.paused /\ config'.paused) =>
          /\ \A t \in Tokens : held'[t] <= held[t]
          /\ \A j \in JobIds : (Live(j) /\ state'[j] # None) =>
                                  state'[j].runs = state[j].runs
          /\ next_job_id' = next_job_id]_vars
=============================================================================
