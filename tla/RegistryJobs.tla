---------------------------- MODULE RegistryJobs ----------------------------
(***************************************************************************)
(* The calls of job owners and funders (contracts/registry/src/lib.rs,     *)
(* section "Jobs" without execution, and "Job creation and validation"),   *)
(* one action per call.                                                    *)
(***************************************************************************)
EXTENDS RegistryState

-----------------------------------------------------------------------------
(* Validation. *)

\* The interval a validated job runs at.
effective_interval(job) ==
    IF job.schedule = Interval THEN job.interval ELSE calendar_period(job.schedule)

\* The settings create_job and update_job both check.
validate_schedule(job) ==
    /\ IF job.schedule = Interval THEN job.interval # 0
       ELSE job.interval = 0 /\ schedule_is_valid(job.schedule)
    /\ config.min_interval # 0 => effective_interval(job) >= config.min_interval
    /\ config.max_args # 0 => job.args <= config.max_args
    /\ job.fee_per_run > 0
    /\ job.max_fee_per_run # 0 => job.max_fee_per_run >= job.fee_per_run
    /\ job.keepers # None => Len(job.keepers) <= MAX_JOB_KEEPERS

\* SoroCron's own contracts and the tokens it custodies.
is_forbidden_target(target) ==
    target \in {Self, FeeToken, StakeToken, config.executor}

validate_job(params, deposit) ==
    /\ validate_schedule(params)
    /\ deposit >= params.fee_per_run
    /\ ~ is_forbidden_target(params.target)
    /\ params.after # None => Live(params.after)

\* Mutated form: a job may be told to follow itself.
LeaderAllowsSelf(j, after) == after = None \/ Live(after)

\* Whether a job may follow `after` from now on.
leader_allowed(j, after) == after = None \/ (after # j /\ Live(after))

\* The leader's run count, recorded when a job starts to follow it.
leader_runs(after) == IF after = None \/ ~ Live(after) THEN 0 ELSE state[after].runs

-----------------------------------------------------------------------------
(* Creation. *)

\* Stores a validated job whose deposit has been transferred in.
insert_job(owner, params, deposit) ==
    LET id == next_job_id
    IN  /\ next_job_id' = id + 1
        /\ spec' = [spec EXCEPT ![id] =
              [owner |-> owner, target |-> params.target, args |-> params.args,
               interval |-> effective_interval(params), schedule |-> params.schedule,
               fee_per_run |-> params.fee_per_run,
               max_fee_per_run |-> params.max_fee_per_run,
               max_runs |-> params.max_runs, end_at |-> params.end_at,
               resolver |-> params.resolver, keepers |-> params.keepers,
               after |-> params.after]]
        /\ state' = [state EXCEPT ![id] =
              [next_run |-> first_calendar_run(params.schedule, Larger(params.start_at, now)),
               balance |-> deposit, runs |-> 0, failures |-> 0, active |-> TRUE,
               leader_runs |-> leader_runs(params.after)]]
        /\ owner_jobs' = add_owner_job(owner_jobs, owner, id)

create_job(owner, params, deposit) ==
    /\ tx = Idle
    /\ ensure_not_paused
    /\ validate_job(params, deposit)
    /\ next_job_id < world.jobs
    /\ TransferIn(FeeToken, deposit)
    /\ insert_job(owner, params, deposit)
    /\ UNCHANGED <<now, world, config, pending_owner, keeperVars, windowVars, adminVars, tx>>

\* create_jobs validates every job first, then moves the total in one
\* transfer, then stores the jobs.
create_jobs(owner, batch) ==
    /\ tx = Idle
    /\ ensure_not_paused
    /\ Len(batch) \in 1..MAX_BATCH
    /\ next_job_id + Len(batch) <= world.jobs
    /\ tx' = [call |-> "create_jobs", owner |-> owner, batch |-> batch, i |-> 1,
              total |-> 0, paid |-> FALSE]
    /\ UNCHANGED <<now, world, config, jobVars, keeperVars, windowVars, adminVars, held>>

\* One turn of the validation loop; the first invalid job ends the call.
create_jobs_validate ==
    /\ tx.call = "create_jobs" /\ ~ tx.paid /\ tx.i <= Len(tx.batch)
    /\ LET new == tx.batch[tx.i]
       IN  tx' = IF validate_job(new.params, new.deposit)
                    /\ tx.total + new.deposit <= I128Max
                 THEN [tx EXCEPT !.i = @ + 1, !.total = @ + new.deposit]
                 ELSE Idle
    /\ UNCHANGED <<now, world, config, jobVars, keeperVars, windowVars, adminVars, held>>

\* The transfer of the total; a token that refuses it ends the call.
create_jobs_transfer ==
    /\ tx.call = "create_jobs" /\ ~ tx.paid /\ tx.i > Len(tx.batch)
    /\ IF held[FeeToken] + tx.total <= world.supply[FeeToken]
       THEN /\ TransferIn(FeeToken, tx.total)
            /\ tx' = [tx EXCEPT !.i = 1, !.paid = TRUE]
       ELSE /\ tx' = Idle
            /\ UNCHANGED held
    /\ UNCHANGED <<now, world, config, jobVars, keeperVars, windowVars, adminVars>>

create_jobs_insert ==
    /\ tx.call = "create_jobs" /\ tx.paid
    /\ insert_job(tx.owner, tx.batch[tx.i].params, tx.batch[tx.i].deposit)
    /\ tx' = IF tx.i = Len(tx.batch) THEN Idle ELSE [tx EXCEPT !.i = @ + 1]
    /\ UNCHANGED <<now, world, config, pending_owner, keeperVars, windowVars, adminVars, held>>

-----------------------------------------------------------------------------
(* Changes. *)

\* Replaces a job's settings.  A different calendar moves the next run; a
\* different leader restarts the count of its runs.
update_job(j, update) ==
    /\ tx = Idle
    /\ ensure_not_paused
    /\ Live(j)
    /\ validate_schedule(update)
    /\ update.after # spec[j].after => leader_allowed(j, update.after)
    /\ spec' = [spec EXCEPT ![j] =
          [owner |-> @.owner, target |-> @.target, args |-> update.args,
           interval |-> effective_interval(update), schedule |-> update.schedule,
           fee_per_run |-> update.fee_per_run,
           max_fee_per_run |-> update.max_fee_per_run,
           max_runs |-> update.max_runs, end_at |-> update.end_at,
           resolver |-> update.resolver, keepers |-> update.keepers,
           after |-> update.after]]
    /\ state' = [state EXCEPT
          ![j].next_run = IF update.schedule \notin {Interval, spec[j].schedule}
                          THEN first_calendar_run(update.schedule, now) ELSE @,
          ![j].leader_runs = IF update.after # spec[j].after
                             THEN leader_runs(update.after) ELSE @]
    /\ touch(j)
    /\ UNCHANGED <<now, world, config, next_job_id, owner_jobs, pending_owner, keeperVars,
                   halted, target_resumed, windows_reset, adminVars, held, tx>>

fund_job(j, amount) ==
    /\ tx = Idle
    /\ ensure_not_paused
    /\ amount > 0
    /\ Live(j)
    /\ state[j].balance + amount <= I128Max
    /\ TransferIn(FeeToken, amount)
    /\ state' = [state EXCEPT ![j].balance = @ + amount]
    /\ touch(j)
    /\ UNCHANGED <<now, world, config, spec, next_job_id, owner_jobs, pending_owner, keeperVars,
                   halted, target_resumed, windows_reset, adminVars, tx>>

\* Deletes a job with its pending handover and refunds it, paused or not.
cancel_job(j) ==
    /\ tx = Idle
    /\ Live(j)
    /\ spec' = [spec EXCEPT ![j] = None]
    /\ state' = [state EXCEPT ![j] = None]
    /\ pending_owner' = [pending_owner EXCEPT ![j] = None]
    /\ owner_jobs' = remove_owner_job(owner_jobs, spec[j].owner, j)
    /\ TransferOut(FeeToken, state[j].balance)
    /\ UNCHANGED <<now, world, config, next_job_id, keeperVars, windowVars, adminVars, tx>>

withdraw_job_balance(j, amount) ==
    /\ tx = Idle
    /\ Live(j)
    /\ amount > 0 /\ amount <= state[j].balance
    /\ state' = [state EXCEPT ![j].balance = @ - amount]
    /\ touch(j)
    /\ TransferOut(FeeToken, amount)
    /\ UNCHANGED <<now, world, config, spec, next_job_id, owner_jobs, pending_owner, keeperVars,
                   halted, target_resumed, windows_reset, adminVars, tx>>

set_job_active(j, active) ==
    /\ tx = Idle
    /\ Live(j)
    /\ state' = [state EXCEPT ![j].active = active,
                              ![j].failures = IF active THEN 0 ELSE @]
    /\ touch(j)
    /\ UNCHANGED <<now, world, config, spec, next_job_id, owner_jobs, pending_owner, keeperVars,
                   halted, target_resumed, windows_reset, adminVars, held, tx>>

-----------------------------------------------------------------------------
(* Handover. *)

\* Proposing the current owner withdraws the proposal.
propose_job_owner(j, new_owner) ==
    /\ tx = Idle
    /\ Live(j)
    /\ pending_owner' = [pending_owner EXCEPT
          ![j] = IF new_owner = spec[j].owner THEN None ELSE new_owner]
    /\ UNCHANGED <<now, world, config, spec, state, next_job_id, owner_jobs, keeperVars,
                   windowVars, adminVars, held, tx>>

\* Mutated form: leaves the job in the previous owner's list.
AcceptJobOwnerKeepsOldEntry(j) ==
    /\ tx = Idle /\ Live(j) /\ pending_owner[j] # None
    /\ pending_owner' = [pending_owner EXCEPT ![j] = None]
    /\ owner_jobs' = add_owner_job(owner_jobs, pending_owner[j], j)
    /\ spec' = [spec EXCEPT ![j].owner = pending_owner[j]]
    /\ UNCHANGED <<now, world, config, state, next_job_id, keeperVars, windowVars, adminVars,
                   held, tx>>

accept_job_owner(j) ==
    /\ tx = Idle
    /\ Live(j)
    /\ pending_owner[j] # None
    /\ pending_owner' = [pending_owner EXCEPT ![j] = None]
    /\ owner_jobs' = add_owner_job(remove_owner_job(owner_jobs, spec[j].owner, j),
                                   pending_owner[j], j)
    /\ spec' = [spec EXCEPT ![j].owner = pending_owner[j]]
    /\ UNCHANGED <<now, world, config, state, next_job_id, keeperVars, windowVars, adminVars,
                   held, tx>>
=============================================================================
