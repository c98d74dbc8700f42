---------------------------- MODULE RegistryAdmin ----------------------------
(***************************************************************************)
(* The admin's calls (contracts/registry/src/lib.rs, section "Admin", and  *)
(* the upgrade helpers).                                                   *)
(***************************************************************************)
EXTENDS RegistryState

\* The executor can be connected only once.  Windows do not restart.
set_executor(executor) ==
    /\ tx = Idle
    /\ config.executor = None
    /\ config' = [config EXCEPT !.executor = executor]
    /\ UNCHANGED <<now, world, jobVars, keeperVars, windowVars, adminVars, held, tx>>

-----------------------------------------------------------------------------
(* Handover of the admin role. *)

propose_admin(new_admin) ==
    /\ tx = Idle
    /\ pending_admin' = new_admin
    /\ UNCHANGED <<now, world, config, jobVars, keeperVars, windowVars, upgrade_delay,
                   pending_upgrade, code, held, tx>>

accept_admin ==
    /\ tx = Idle
    /\ pending_admin # None
    /\ config' = [config EXCEPT !.admin = pending_admin]
    /\ pending_admin' = None
    /\ UNCHANGED <<now, world, jobVars, keeperVars, windowVars, upgrade_delay, pending_upgrade,
                   code, held, tx>>

cancel_admin_proposal ==
    /\ tx = Idle
    /\ pending_admin # None
    /\ pending_admin' = None
    /\ UNCHANGED <<now, world, config, jobVars, keeperVars, windowVars, upgrade_delay,
                   pending_upgrade, code, held, tx>>

-----------------------------------------------------------------------------
(* Switches. *)

\* Unpausing restarts every window.
set_paused(paused) ==
    /\ tx = Idle
    /\ config' = [config EXCEPT !.paused = paused]
    /\ windows_reset' = IF paused THEN windows_reset ELSE now
    /\ UNCHANGED <<now, world, jobVars, keeperVars, halted, job_touched, target_resumed,
                   adminVars, held, tx>>

\* Un-halting a target restarts the windows of the jobs that call it.
set_target_halted(target, is_halted) ==
    /\ tx = Idle
    /\ halted' = IF is_halted THEN halted \cup {target} ELSE halted \ {target}
    /\ target_resumed' = IF is_halted THEN target_resumed
                         ELSE [target_resumed EXCEPT ![target] = now]
    /\ UNCHANGED <<now, world, config, jobVars, keeperVars, job_touched, windows_reset,
                   adminVars, held, tx>>

-----------------------------------------------------------------------------
(* Settings. *)

set_min_stake(min_stake) ==
    /\ tx = Idle
    /\ min_stake >= 0
    /\ config' = [config EXCEPT !.min_stake = min_stake]
    /\ reset_windows
    /\ UNCHANGED <<now, world, jobVars, keeperVars, halted, job_touched, target_resumed,
                   adminVars, held, tx>>

set_min_interval(min_interval) ==
    /\ tx = Idle
    /\ config' = [config EXCEPT !.min_interval = min_interval]
    /\ UNCHANGED <<now, world, jobVars, keeperVars, windowVars, adminVars, held, tx>>

set_max_args(max_args) ==
    /\ tx = Idle
    /\ config' = [config EXCEPT !.max_args = max_args]
    /\ UNCHANGED <<now, world, jobVars, keeperVars, windowVars, adminVars, held, tx>>

\* Mutated form: a fee without a treasury is accepted.
ProtocolFeeWithoutTreasury(bps, treasury) == bps <= MAX_BPS

protocol_fee_valid(bps, treasury) ==
    bps <= MAX_BPS /\ (bps > 0 => treasury # None)

set_protocol_fee(bps, treasury) ==
    /\ tx = Idle
    /\ protocol_fee_valid(bps, treasury)
    /\ config' = [config EXCEPT !.protocol_fee_bps = bps, !.treasury = treasury]
    /\ UNCHANGED <<now, world, jobVars, keeperVars, windowVars, adminVars, held, tx>>

set_max_failures(max_failures) ==
    /\ tx = Idle
    /\ config' = [config EXCEPT !.max_failures = max_failures]
    /\ UNCHANGED <<now, world, jobVars, keeperVars, windowVars, adminVars, held, tx>>

set_keeper_windows(grace_period) ==
    /\ tx = Idle
    /\ grace_period <= MAX_GRACE_PERIOD
    /\ config' = [config EXCEPT !.grace_period = grace_period]
    /\ reset_windows
    /\ UNCHANGED <<now, world, jobVars, keeperVars, halted, job_touched, target_resumed,
                   adminVars, held, tx>>

-----------------------------------------------------------------------------
(* Upgrades wait at least as long as a keeper needs to leave. *)

\* The longest a keeper can need to unbond and withdraw.
min_upgrade_delay(epoch) == SatAdd(UnbondingPeriod, epoch)

upgrade_delay_for(delay, epoch) == Larger(delay, min_upgrade_delay(epoch))

\* Mutated form: a shorter delay brings a pending upgrade forward.
PushBackMovesBothWays(pending, delay, epoch) ==
    IF pending = None THEN None
    ELSE [pending EXCEPT !.available_at =
              SatAdd(pending.proposed_at, upgrade_delay_for(delay, epoch))]

\* Mutated form: a pending upgrade keeps its date whatever changes.
PushBackForgotten(pending, delay, epoch) == pending

\* A longer epoch or delay pushes a pending upgrade back; nothing moves it
\* forward.
push_back_pending_upgrade(pending, delay, epoch) ==
    IF pending = None THEN None
    ELSE [pending EXCEPT !.available_at =
              Larger(@, SatAdd(pending.proposed_at, upgrade_delay_for(delay, epoch)))]

set_unbonding_epoch(epoch) ==
    /\ tx = Idle
    /\ epoch <= MAX_UNBONDING_EPOCH
    /\ config' = [config EXCEPT !.unbonding_epoch = epoch]
    /\ pending_upgrade' = push_back_pending_upgrade(pending_upgrade, upgrade_delay, epoch)
    /\ UNCHANGED <<now, world, jobVars, keeperVars, windowVars, pending_admin, upgrade_delay,
                   code, held, tx>>

set_upgrade_delay(delay) ==
    /\ tx = Idle
    /\ delay >= min_upgrade_delay(config.unbonding_epoch)
    /\ upgrade_delay' = delay
    /\ pending_upgrade' = push_back_pending_upgrade(pending_upgrade, delay,
                                                    config.unbonding_epoch)
    /\ UNCHANGED <<now, world, config, jobVars, keeperVars, windowVars, pending_admin, code,
                   held, tx>>

propose_upgrade(wasm_hash) ==
    /\ tx = Idle
    /\ pending_upgrade' =
          [wasm_hash |-> wasm_hash, proposed_at |-> now,
           available_at |-> SatAdd(now, upgrade_delay_for(upgrade_delay,
                                                          config.unbonding_epoch))]
    /\ UNCHANGED <<now, world, config, jobVars, keeperVars, windowVars, pending_admin,
                   upgrade_delay, code, held, tx>>

\* Mutated form: the delay is not waited for.
UpgradeReadyAtOnce == TRUE

upgrade_ready == now >= pending_upgrade.available_at

\* Installs the new code, which this model takes to behave like the old.
apply_upgrade ==
    /\ tx = Idle
    /\ pending_upgrade # None
    /\ upgrade_ready
    /\ code' = pending_upgrade.wasm_hash
    /\ pending_upgrade' = None
    /\ UNCHANGED <<now, world, config, jobVars, keeperVars, windowVars, pending_admin,
                   upgrade_delay, held, tx>>

cancel_upgrade ==
    /\ tx = Idle
    /\ pending_upgrade # None
    /\ pending_upgrade' = None
    /\ UNCHANGED <<now, world, config, jobVars, keeperVars, windowVars, pending_admin,
                   upgrade_delay, code, held, tx>>
=============================================================================
