-------------------------- MODULE RegistryKeepers --------------------------
(***************************************************************************)
(* The calls of keepers about their stake (contracts/registry/src/lib.rs,  *)
(* section "Keepers", and release_stake).                                  *)
(***************************************************************************)
EXTENDS RegistryState

\* The record of a keeper that stakes for the first time.
NewKeeper ==
    [stake |-> 0, unbonding_at |-> None, executions |-> 0, total_lateness |-> 0,
     missed |-> 0]

\* The rotation with k added if it is not there and there is room.
add_active_keeper(k) ==
    IF Contains(active_keepers, k) \/ Len(active_keepers) >= MAX_ACTIVE_KEEPERS
    THEN active_keepers ELSE Append(active_keepers, k)

\* Mutated form: an unbonding keeper may stake again.
MayStakeAlways(info) == TRUE

may_stake(info) == info.unbonding_at = None

\* Mutated form: staking never counts as a change of who is assigned.
StakeNeverReassigns(k, info) == FALSE

\* Whether staking makes k join the rotation or become eligible.
stake_reassigns(k, info) ==
    add_active_keeper(k) # active_keepers \/ ~ ensure_active_keeper(info)

stake(k, amount) ==
    LET info == IF keepers[k] = None THEN NewKeeper ELSE keepers[k]
    IN  /\ tx = Idle
        /\ ensure_not_paused
        /\ amount > 0
        /\ may_stake(info)
        /\ info.stake + amount <= I128Max
        /\ TransferIn(StakeToken, amount)
        /\ keepers' = [keepers EXCEPT ![k] = [info EXCEPT !.stake = @ + amount]]
        /\ active_keepers' = add_active_keeper(k)
        /\ windows_reset' = IF stake_reassigns(k, info) THEN now ELSE windows_reset
        /\ UNCHANGED <<now, world, config, jobVars, recent, halted, job_touched, target_resumed,
                       adminVars, tx>>

begin_unbonding(k) ==
    /\ tx = Idle
    /\ keepers[k] # None
    /\ keepers[k].unbonding_at = None
    /\ keepers' = [keepers EXCEPT ![k].unbonding_at =
                      unbonding_release(now, UnbondingPeriod, config.unbonding_epoch)]
    /\ active_keepers' = RemoveFirst(active_keepers, k)
    /\ reset_windows
    /\ UNCHANGED <<now, world, config, jobVars, recent, halted, job_touched, target_resumed,
                   adminVars, held, tx>>

\* Whether k's unbonding has finished.
Withdrawable(k) ==
    keepers[k] # None /\ keepers[k].unbonding_at # None /\ now >= keepers[k].unbonding_at

\* Forgets the keeper and its recent stats and pays its stake back.
release_stake(k) ==
    /\ keepers' = [keepers EXCEPT ![k] = None]
    /\ recent' = [recent EXCEPT ![k] = [lateness |-> 0, misses |-> 0]]
    /\ TransferOut(StakeToken, keepers[k].stake)

withdraw_stake(k) ==
    /\ tx = Idle
    /\ Withdrawable(k)
    /\ release_stake(k)
    /\ UNCHANGED <<now, world, config, jobVars, active_keepers, windowVars, adminVars, tx>>

withdraw_stakes(list) ==
    /\ tx = Idle
    /\ Len(list) \in 1..MAX_BATCH
    /\ tx' = [call |-> "withdraw_stakes", todo |-> list]
    /\ UNCHANGED <<now, world, config, jobVars, keeperVars, windowVars, adminVars, held>>

\* One turn of the loop: a keeper that is not ready is passed over.
withdraw_stakes_next ==
    /\ tx.call = "withdraw_stakes"
    /\ LET k == Head(tx.todo)
       IN  IF Withdrawable(k) THEN release_stake(k) ELSE UNCHANGED <<keepers, recent, held>>
    /\ tx' = IF Len(tx.todo) = 1 THEN Idle ELSE [tx EXCEPT !.todo = Tail(@)]
    /\ UNCHANGED <<now, world, config, jobVars, active_keepers, windowVars, adminVars>>
=============================================================================
