------------------------- MODULE RegistryExecution -------------------------
(***************************************************************************)
(* Execution (contracts/registry/src/lib.rs: execute, execute_batch,       *)
(* is_due and the section "Execution").  run_job reads the job, checks     *)
(* everything that can refuse the run, calls the target through the        *)
(* executor, and then writes the job's state, the caller's record and      *)
(* possibly a miss of the assigned keeper.                                 *)
(*                                                                         *)
(* The target and the resolver are other contracts: `success` is whether   *)
(* the target's call returned, `verdict` what should_run answered.         *)
(***************************************************************************)
EXTENDS RegistryJobs

-----------------------------------------------------------------------------
(* Who may run what, and when. *)

\* The keeper reserved for the job's next run, or None when the run is open.
assigned_keeper(j) ==
    LET candidates == IF spec[j].keepers # None THEN spec[j].keepers ELSE active_keepers
        chosen     == candidates[(Digest[j][state[j].runs] % Len(candidates)) + 1]
    IN  IF config.grace_period = 0 \/ candidates = <<>> THEN None
        ELSE IF Eligible(chosen) THEN chosen ELSE None

\* The assigned keeper, when it is somebody else than k.
assigned_other(j, k) == IF assigned_keeper(j) = k THEN None ELSE assigned_keeper(j)

\* Whether the job's own settings allow a run now.
ensure_due(j) ==
    /\ state[j].active
    /\ spec[j].max_runs # 0 => state[j].runs < spec[j].max_runs
    /\ spec[j].end_at # 0 => now < spec[j].end_at
    /\ state[j].balance >= spec[j].fee_per_run
    /\ now >= state[j].next_run

\* Mutated form: any run of the leader, ever, is enough.
DependencyMetOnce(j) ==
    spec[j].after # None => Live(spec[j].after) /\ state[spec[j].after].runs > 0

\* A follower waits until its leader has run again since its own last run.
dependency_met(j) ==
    spec[j].after # None =>
        Live(spec[j].after) /\ state[spec[j].after].runs > state[j].leader_runs

\* What a resolver may answer; a job without one always passes.
Verdicts(j) == IF Live(j) /\ spec[j].resolver # None THEN BOOLEAN ELSE {TRUE}

\* Mutated form: a reservation restarts with every change of the rotation.
WindowRestartsForever(j, k) ==
    assigned_other(j, k) # None =>
        now >= SatAdd(Larger(state[j].next_run, windows_reset), config.grace_period)

\* The reservation of somebody else ends a grace period after the due time.
window_passed(j, k) ==
    assigned_other(j, k) # None => now >= SatAdd(state[j].next_run, config.grace_period)

\* Every check of run_job before the target is called.
can_run(k, j, verdict) ==
    /\ Live(j)
    /\ ensure_due(j)
    /\ ~ is_forbidden_target(spec[j].target)
    /\ spec[j].target \notin halted
    /\ spec[j].keepers # None => Contains(spec[j].keepers, k)
    /\ window_passed(j, k)
    /\ dependency_met(j)
    /\ verdict

\* Mutated form: reports a job one second late.
IsDueLate(j, verdict) ==
    /\ ~ config.paused /\ config.executor # None
    /\ Live(j) /\ ensure_due(j) /\ now > state[j].next_run
    /\ spec[j].target \notin halted /\ dependency_met(j) /\ verdict

\* The view keepers poll: whether some eligible keeper could run j now.
is_due(j, verdict) ==
    /\ ~ config.paused /\ config.executor # None
    /\ Live(j)
    /\ ensure_due(j)
    /\ spec[j].target \notin halted
    /\ dependency_met(j)
    /\ verdict

-----------------------------------------------------------------------------
(* Effects of a run. *)

SatAdd32(n, m) == IF n + m > U32Max THEN U32Max ELSE n + m

run_fee(j) == ramped_fee(spec[j], state[j], now)

\* The job after a run whose target call returned or failed.
state_after_run(j, success) ==
    LET failures == IF success THEN 0 ELSE SatAdd32(state[j].failures, 1)
    IN  [next_run |-> next_run_after(state[j].next_run, spec[j].interval, now),
         balance |-> state[j].balance - run_fee(j),
         runs |-> SatAdd32(state[j].runs, 1),
         failures |-> failures,
         active |-> state[j].active
                    /\ ~ (~ success /\ config.max_failures # 0
                          /\ failures >= config.max_failures),
         leader_runs |-> IF spec[j].after = None THEN state[j].leader_runs
                         ELSE state[spec[j].after].runs]

lateness(j) == SatSub(now, state[j].next_run)

info_after_run(info, j) ==
    [info EXCEPT !.executions = SatAdd32(@, 1),
                 !.total_lateness = SatAdd(@, lateness(j))]

recent_after_run(r, j) ==
    [lateness |-> smooth(r.lateness, lateness(j)), misses |-> smooth(r.misses, 0)]

\* Mutated form: the window always counts from the due time.
WholeWindowFromDueTime(j) ==
    /\ spec[j].resolver = None /\ spec[j].after = None
    /\ now >= SatAdd(state[j].next_run, config.grace_period)

\* Whether the assigned keeper had its whole window for this run.
had_whole_window(j) ==
    /\ spec[j].resolver = None /\ spec[j].after = None
    /\ LET opened == Larger(Larger(state[j].next_run, job_touched[j]),
                            Larger(windows_reset, target_resumed[spec[j].target]))
       IN  now >= SatAdd(opened, config.grace_period)

\* Mutated form: the running keeper can be charged with missing its own window.
MissedByAnyone(j, k) ==
    IF assigned_keeper(j) # None /\ had_whole_window(j) THEN assigned_keeper(j) ELSE None

\* The keeper that a run of j by k records a miss for, or None.
missed_by(j, k) ==
    IF assigned_other(j, k) # None /\ had_whole_window(j)
    THEN assigned_other(j, k) ELSE None

record_miss(m, ks) == [ks EXCEPT ![m].missed = SatAdd32(@, 1)]

\* Mutated form: the sample is as large as the scaled average.
RecentMissScaledTwice(m, rs) == [rs EXCEPT ![m].misses = smooth(@, 8 * BPS_SCALE)]

record_recent_miss(m, rs) == [rs EXCEPT ![m].misses = smooth(@, BPS_SCALE)]

\* Pays the keeper and, if there is a treasury, its share.
settle(keeper_fees, protocol_fees) ==
    TransferOut(FeeToken,
                keeper_fees + (IF config.treasury = None THEN 0 ELSE protocol_fees))

-----------------------------------------------------------------------------
(* The calls. *)

authorize_keeper(k) == ensure_not_paused /\ config.executor # None /\ Eligible(k)

execute(k, j, success) ==
    /\ tx = Idle
    /\ authorize_keeper(k)
    /\ \E verdict \in Verdicts(j) : can_run(k, j, verdict)
    /\ LET m == missed_by(j, k)
           fees == split_fee(run_fee(j), config.protocol_fee_bps)
       IN  /\ state' = [state EXCEPT ![j] = state_after_run(j, success)]
           /\ keepers' = [(IF m = None THEN keepers ELSE record_miss(m, keepers))
                             EXCEPT ![k] = info_after_run(keepers[k], j)]
           /\ recent' = [(IF m = None THEN recent ELSE record_recent_miss(m, recent))
                             EXCEPT ![k] = recent_after_run(recent[k], j)]
           /\ settle(fees.rest, fees.share)
    /\ UNCHANGED <<now, world, config, spec, next_job_id, owner_jobs, pending_owner,
                   active_keepers, windowVars, adminVars, tx>>

\* Loads the caller's record once for the whole batch.
execute_batch(k, ids) ==
    /\ tx = Idle
    /\ Len(ids) \in 1..MAX_BATCH
    /\ authorize_keeper(k)
    /\ tx' = [call |-> "execute_batch", keeper |-> k, todo |-> ids, info |-> keepers[k],
              recent |-> recent[k], keeper_fees |-> 0, protocol_fees |-> 0]
    /\ UNCHANGED <<now, world, config, jobVars, keeperVars, windowVars, adminVars, held>>

\* One turn of the loop that runs its job, updating the loaded record.  Sums
\* that do not fit an i128 trap.
execute_batch_run(success) ==
    /\ tx.call = "execute_batch" /\ tx.todo # <<>>
    /\ LET j == Head(tx.todo)
           m == missed_by(j, tx.keeper)
           fees == split_fee(run_fee(j), config.protocol_fee_bps)
       IN  /\ \E verdict \in Verdicts(j) : can_run(tx.keeper, j, verdict)
           /\ state' = [state EXCEPT ![j] = state_after_run(j, success)]
           /\ keepers' = IF m = None THEN keepers ELSE record_miss(m, keepers)
           /\ recent' = IF m = None THEN recent ELSE record_recent_miss(m, recent)
           /\ tx.keeper_fees + fees.rest <= I128Max
           /\ tx.protocol_fees + fees.share <= I128Max
           /\ tx' = [tx EXCEPT !.todo = Tail(@),
                               !.info = info_after_run(@, j),
                               !.recent = recent_after_run(@, j),
                               !.keeper_fees = @ + fees.rest,
                               !.protocol_fees = @ + fees.share]
    /\ UNCHANGED <<now, world, config, spec, next_job_id, owner_jobs, pending_owner,
                   active_keepers, windowVars, adminVars, held>>

\* One turn of the loop whose job is refused: it is skipped.
execute_batch_skip ==
    /\ tx.call = "execute_batch" /\ tx.todo # <<>>
    /\ \E verdict \in Verdicts(Head(tx.todo)) : ~ can_run(tx.keeper, Head(tx.todo), verdict)
    /\ tx' = [tx EXCEPT !.todo = Tail(@)]
    /\ UNCHANGED <<now, world, config, jobVars, keeperVars, windowVars, adminVars, held>>

\* Saves the record and pays out, once.
execute_batch_settle ==
    /\ tx.call = "execute_batch" /\ tx.todo = <<>>
    /\ keepers' = [keepers EXCEPT ![tx.keeper] = tx.info]
    /\ recent' = [recent EXCEPT ![tx.keeper] = tx.recent]
    /\ settle(tx.keeper_fees, tx.protocol_fees)
    /\ tx' = Idle
    /\ UNCHANGED <<now, world, config, jobVars, active_keepers, windowVars, adminVars>>
=============================================================================
