---------------------------- MODULE UpgradeNotice ----------------------------
(***************************************************************************)
(* The notice keepers get of an upgrade: the registry with a history       *)
(* variable that remembers which keepers started to unbond in reaction to  *)
(* the pending upgrade, and when.  A keeper that was already unbonding     *)
(* when the upgrade was announced is not covered (docs/security.md).       *)
(***************************************************************************)
EXTENDS Registry

VARIABLE reacted    \* per keeper: when it reacted to the pending upgrade, or None

noticeVars == <<vars, reacted>>

Unbonding(k) == keepers[k] # None /\ keepers[k].unbonding_at # None

\* A step that announces an upgrade, possibly in place of another one.
Announces == \E w \in WasmHashes : propose_upgrade(w)

InitNotice == Init /\ reacted = [k \in Keepers |-> None]

ObserveNotice ==
    reacted' = [k \in Keepers |->
        IF Announces \/ pending_upgrade = None \/ ~ Unbonding(k)' THEN None
        ELSE IF Unbonding(k) THEN reacted[k] ELSE now]

SpecNotice == InitNotice /\ [][Next /\ ObserveNotice]_noticeVars

-----------------------------------------------------------------------------

\* However the admin changes the epoch and the delay after announcing an
\* upgrade, every keeper that starts unbonding after the announcement needs no
\* longer to leave than the upgrade waits (min_upgrade_delay,
\* push_back_pending_upgrade).
LeaversFitNotice ==
    \A k \in Keepers :
        (pending_upgrade # None /\ reacted[k] # None) =>
            /\ Unbonding(k)
            /\ keepers[k].unbonding_at - reacted[k]
                  <= pending_upgrade.available_at - pending_upgrade.proposed_at

\* When new code is installed, every keeper that reacted to the announcement at
\* once can already withdraw: nobody has to trust code it had no time to leave.
LeaversOutBeforeUpgrade ==
    [][code' # code =>
          \A k \in Keepers :
              reacted[k] = pending_upgrade.proposed_at => Withdrawable(k)]_noticeVars

\* A pending upgrade never moves forward: until it is replaced or withdrawn its
\* date only moves later, and code changes only when a pending upgrade has
\* waited at least an unbonding period.
UpgradeNeverMovesForward ==
    [][/\ (pending_upgrade # None /\ pending_upgrade' # None /\ ~ Announces) =>
             pending_upgrade'.available_at >= pending_upgrade.available_at
       /\ code' # code =>
             /\ pending_upgrade # None
             /\ now >= SatAdd(pending_upgrade.proposed_at, UnbondingPeriod)]_noticeVars
=============================================================================
