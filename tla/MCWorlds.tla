------------------------------ MODULE MCWorlds ------------------------------
(***************************************************************************)
(* The small worlds the registry is checked in.  A behaviour picks one at  *)
(* the start and stays in it.  Each asks another question of the registry, *)
(* with the callers and arguments for it and bounds of its own.            *)
(***************************************************************************)
EXTENDS RegistryState

CONSTANTS alice, bob, k1, k2, k3, registry, xlm, usd, executor, target, oracle, hash1, hash2

MCContracts == {registry, xlm, usd, executor, target}
\* The reservation alternates between two candidates, or stays for two runs.
MCDigest == [j \in JobIds |-> [n \in U32 |-> j + n]]
SlowDigest == [j \in JobIds |-> [n \in U32 |-> (j + n) \div 2]]

\* A job every second for a flat fee of 1, open to every keeper.
Job == [target |-> target, args |-> 0, interval |-> 1, schedule |-> Interval,
        start_at |-> 0, fee_per_run |-> 1, max_fee_per_run |-> 0, max_runs |-> 0,
        end_at |-> 0, resolver |-> None, keepers |-> None, after |-> None]

\* The settings of Job as an update.
Update == [args |-> 0, interval |-> 1, schedule |-> Interval, fee_per_run |-> 1,
           max_fee_per_run |-> 0, max_runs |-> 0, end_at |-> 0, resolver |-> None,
           keepers |-> None, after |-> None]

\* How much of the fee token and of the stake token there is; one token for both
\* where they are the same.
Supply(fees, stakes) == (FeeToken :> fees) @@ (StakeToken :> stakes)

New(params, deposit) == [params |-> params, deposit |-> deposit]

\* Escrow: every way money moves, with a ramped fee and a protocol fee of one
\* half, so that shares round, and one token for fees and stakes.
Ramped == [Job EXCEPT !.interval = 2, !.max_fee_per_run = 3]

EscrowWorld ==
    [Quiet EXCEPT
        !.until = 3, !.jobs = 2, !.supply = Supply(6, 6),
        !.owners = {alice}, !.stakers = {k1},
        !.job_params = {Ramped}, !.amounts = {3, 0},
        !.job_batches = {<<New(Ramped, 1), New(Ramped, 2)>>, <<New(Ramped, 1), New(Job, 0)>>},
        !.run_batches = {<<0, 1>>}, !.stakes = {1}, !.unbonders = {k1},
        !.stake_batches = {<<k1, k1>>}, !.executors = {executor},
        !.protocol_fees = {<<1, alice>>, <<1, None>>}]

\* Ownership: creation one by one and in batches, handover and cancellation.
OwnerWorld ==
    [Quiet EXCEPT
        !.until = 1, !.jobs = 3, !.supply = Supply(6, 6),
        !.owners = {alice, bob},
        !.job_params = {Job}, !.amounts = {1},
        !.job_batches = {<<New(Job, 1), New(Job, 1)>>, <<New(Job, 1), New(Job, 0)>>},
        !.new_owners = {alice, bob}]

\* Keepers come and go while the rotation is full.
RotationWorld ==
    [Quiet EXCEPT
        !.until = 4, !.jobs = 0, !.supply = Supply(4, 4),
        !.stakers = {k1, k2, k3},
        !.stakes = {1}, !.unbonders = {k1, k2, k3}, !.stake_batches = {<<k1, k2>>, <<k3, k1>>},
        !.epochs = {0, 2, 5}]

\* Jobs that follow other jobs, run alone and in one batch.
FollowerWorld ==
    [Quiet EXCEPT
        !.until = 4, !.jobs = 2, !.supply = Supply(13, 13),
        !.owners = {alice}, !.stakers = {k1},
        !.job_params = {Job, [Job EXCEPT !.after = 0]}, !.amounts = {4},
        !.job_updates = {Update, [Update EXCEPT !.after = 0], [Update EXCEPT !.after = 1]},
        !.run_batches = {<<0, 1>>, <<1, 0>>}, !.stakes = {5}, !.executors = {executor}]

\* The owner interrupts runs that are assigned to a keeper: pausing, draining,
\* refunding and changing the job.
OwnerInterruptWorld ==
    [Quiet EXCEPT
        !.until = 4, !.jobs = 1, !.supply = Supply(2, 4),
        !.owners = {alice}, !.stakers = {k1, k2},
        !.job_params = {[Job EXCEPT !.interval = 3]}, !.amounts = {1},
        !.job_updates = {[Update EXCEPT !.interval = 3, !.max_runs = 1],
                         [Update EXCEPT !.interval = 3, !.keepers = <<k2, k1>>]},
        !.active_flags = BOOLEAN, !.stakes = {2}, !.executors = {executor},
        !.grace_periods = {2}]

\* The admin interrupts them: pausing the registry and halting the target.
AdminInterruptWorld ==
    [Quiet EXCEPT
        !.until = 4, !.jobs = 1, !.supply = Supply(2, 4),
        !.owners = {alice}, !.stakers = {k1, k2},
        !.job_params = {[Job EXCEPT !.interval = 3]}, !.amounts = {2},
        !.stakes = {2}, !.executors = {executor}, !.paused_flags = BOOLEAN,
        !.halts = {target}, !.grace_periods = {2}]

\* The rotation, eligibility and the minimum stake change while runs are assigned.
ReassignWorld ==
    [Quiet EXCEPT
        !.until = 4, !.jobs = 1, !.supply = Supply(2, 3),
        !.owners = {alice}, !.stakers = {k1, k2},
        !.job_params = {[Job EXCEPT !.interval = 2]}, !.amounts = {2},
        !.stakes = {1}, !.unbonders = {k1}, !.executors = {executor},
        !.min_stakes = {2}, !.grace_periods = {2}]

\* A keeper misses one run after another, which others make in batches, with
\* windows of changing length.
BatchWorld ==
    [Quiet EXCEPT
        !.until = 4, !.jobs = 1, !.supply = Supply(4, 4),
        !.owners = {alice}, !.stakers = {k1, k2},
        !.job_params = {Job}, !.amounts = {4}, !.run_batches = {<<0, 0>>, <<0>>},
        !.stakes = {2}, !.executors = {executor}, !.grace_periods = {1, 2}]

\* A keeper is handed a run by staking for the first time, where no stake at all
\* is required and the rotation is full.
ZeroStakeWorld ==
    [Quiet EXCEPT
        !.until = 4, !.jobs = 1, !.supply = Supply(3, 3),
        !.owners = {alice}, !.stakers = {k1, k2},
        !.job_params = {[Job EXCEPT !.keepers = <<k2, k1>>]}, !.amounts = {2},
        !.stakes = {1}, !.executors = {executor}, !.grace_periods = {2}]

\* Upgrades are announced while the epoch and the delay change.
UpgradeWorld ==
    [Quiet EXCEPT
        !.until = 7, !.jobs = 0, !.supply = Supply(0, 1),
        !.stakers = {k1},
        !.stakes = {1}, !.unbonders = {k1}, !.epochs = {0, 2, 3, 5}, !.delays = {2, 5},
        !.wasm_hashes = {hash1, hash2}]

\* The emergency switch, the settings and the admin's handover, with calendar
\* jobs, jobs that end, a resolver and failing targets.
Nightly == [Job EXCEPT !.interval = 0, !.schedule = Daily(0, 1), !.end_at = 2]

SettingsWorld ==
    [Quiet EXCEPT
        !.until = 2, !.jobs = 1, !.supply = Supply(2, 2),
        !.owners = {alice}, !.stakers = {k1},
        !.job_params = {Nightly, [Job EXCEPT !.resolver = oracle, !.args = 1]}, !.amounts = {1},
        !.job_updates = {[Update EXCEPT !.interval = 0, !.schedule = Weekly(1, 0, 0)]},
        !.job_batches = {<<New(Nightly, 1)>>}, !.run_batches = {<<0>>},
        !.stakes = {1}, !.executors = {executor}, !.admins = {bob},
        !.paused_flags = BOOLEAN, !.min_intervals = {0, 2}, !.max_args = {1},
        !.max_failures = {0, 1}]

\* Progress: the assigned keeper may sleep for ever while keepers and windows
\* change.
LivenessWorld ==
    [Quiet EXCEPT
        !.until = 4, !.jobs = 1, !.supply = Supply(2, 2),
        !.owners = {alice}, !.stakers = {k1, k2},
        !.job_params = {[Job EXCEPT !.interval = 2]}, !.amounts = {1},
        !.active_flags = BOOLEAN, !.stakes = {1}, !.unbonders = {k1},
        !.executors = {executor}, !.grace_periods = {1, 2}]

\* Every call once: the ones the other worlds of the run leave out.
ControlWorld ==
    [Quiet EXCEPT
        !.until = 5, !.jobs = 1, !.supply = Supply(2, 2),
        !.owners = {alice}, !.job_params = {[Job EXCEPT !.interval = 2]}, !.amounts = {1},
        !.halts = {target}, !.active_flags = {FALSE}, !.grace_periods = {2},
        !.min_stakes = {2}, !.admins = {bob}]

RegistryWorlds ==
    {EscrowWorld, OwnerWorld, RotationWorld, FollowerWorld, SettingsWorld, ControlWorld,
     [UpgradeWorld EXCEPT !.until = 4, !.delays = {2}, !.epochs = {2}]}

KeeperWorlds ==
    {OwnerInterruptWorld, AdminInterruptWorld, ReassignWorld, BatchWorld, UpgradeWorld}

ZeroStakeWorlds == {ZeroStakeWorld}
LivenessWorlds == {LivenessWorld}
=============================================================================
