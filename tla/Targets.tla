------------------------------ MODULE Targets ------------------------------
(***************************************************************************)
(* The job targets and resolvers of contracts/examples and                 *)
(* contracts/ttl-guardian on one ledger.  They share nothing but its       *)
(* clock, so a behaviour follows one of them, chosen at the start; the     *)
(* others stay undeployed.                                                 *)
(***************************************************************************)
EXTENDS HostLedger

CONSTANTS
    DcaPlans, PRICE_SCALE, Deposits, Outs, Supply,
    Orders, Quotes,
    Subscribers, SubscriptionPlans, Jobs, Allowances, FirstWallet,
    Beneficiaries, Schedules, I128Max,
    TimelockSettings, Etas, MAX_PER_RUN, MaxCalls,
    Proposals, Windows,
    Conditions, Triggers, Thresholds, RebalanceTargets, Reserves, RATIO_SCALE, BPS,
    Composites, Lists, MAX_RESOLVERS, Prices, Skew, MaxChanges,
    Keys, Contracts, THRESHOLD, EXTEND_TO, MAX_KEYS, MAX_EXTEND_MANY, Guards, MaxTtl,
    MIN_TTL, Gap

VARIABLES
    focus,                                                  \* the contract followed
    plan, balance, fills,                                   \* DcaVault
    order, escrow, market,                                  \* LimitOrder
    billing, subs, bound, allowance, wallet, charges,       \* Subscription
    deployed, schedules, pool, releases,                    \* Vesting
    settings, next_id, queue, calls, asked, ended,          \* Timelock
    governed, proposals, bindings,                          \* TimelockResolver
    condition, trigger, config, target, ready, composite,   \* Resolvers
    feed, heard, reserves, changes,
    kept, index, live_until, guard, last_run                \* Lifetimes

D == INSTANCE DcaVault WITH Plans <- DcaPlans
O == INSTANCE LimitOrder
S == INSTANCE Subscription WITH Plans <- SubscriptionPlans, plan <- billing
V == INSTANCE Vesting
T == INSTANCE Timelock WITH Settings <- TimelockSettings
P == INSTANCE TimelockResolver
R == INSTANCE Resolvers WITH Targets <- RebalanceTargets
L == INSTANCE Lifetimes

\* What the Rust types of the arguments say, and None is no stored value.
ASSUME TargetsAssumption ==
    /\ U64Max \in Nat /\ PRICE_SCALE \in Nat \ {0} /\ None \notin U64
    /\ None \notin D!DcaPlan \cup O!Order \cup S!Plan \cup S!SubscriptionRecord
               \cup V!VestingSchedule \cup P!Proposal
    /\ \A p \in DcaPlans :
          /\ {p.sell_token, p.buy_token} \subseteq {"A", "B"} /\ p.interval \in U64
          /\ {p.amount_per_swap, p.min_price} \subseteq Int /\ p.max_swaps \in Nat
    /\ \A o \in Orders :
          /\ {o.sell_token, o.buy_token} \subseteq {"A", "B"} /\ o.expires_at \in U64
          /\ {o.amount_in, o.min_amount_out} \subseteq Int
    /\ FirstWallet \in Nat /\ SubscriptionPlans \subseteq [price : Int, period : U64]
    /\ \A s \in Schedules :
          s.total_amount \in Int /\ {s.start_time, s.cliff_duration, s.total_duration} \subseteq U64
    /\ Deposits \cup Outs \cup Quotes \cup Allowances \subseteq Int
    /\ Etas \cup Windows \subseteq U64
    /\ Conditions \subseteq R!Condition /\ Triggers \subseteq R!Trigger
    /\ RebalanceTargets \subseteq R!Target

ASSUME TimelockAssumption ==
    /\ MaxCalls \in Nat /\ TimelockSettings \subseteq T!Setting
    /\ None \notin T!Setting \cup T!Request \cup T!Outcome

\* Finitely many composites are deployed, none at another resolver's address.
ASSUME ResolversAssumption ==
    /\ Skew \in Nat /\ IsFiniteSet(Composites)
    /\ "price" \notin Composites /\ "floor" \notin Composites

\* The entries of the self-extending contract and the contracts under guard are
\* different ones.  Keepers come at least as often as the thresholds ask, and as
\* a new entry lives (once a day, against a threshold of twenty days).
ASSUME LifetimesAssumption ==
    /\ {Gap, THRESHOLD, EXTEND_TO, MIN_TTL, MaxTtl} \subseteq Nat /\ None \notin Nat
    /\ Gap <= THRESHOLD /\ THRESHOLD <= EXTEND_TO /\ Gap <= MIN_TTL
    /\ Keys \cap Contracts = {} /\ "instance" \notin Keys \cup Contracts
    /\ \A g \in Guards : g.threshold \in Nat /\ g.extend_to \in Nat /\ Gap <= g.threshold
    /\ None \notin Guards

dca == <<plan, balance, fills>>
limit == <<order, escrow, market>>
subscription == <<billing, subs, bound, allowance, wallet, charges>>
vesting == <<deployed, schedules, pool, releases>>
timelock == <<settings, next_id, queue, calls, asked, ended>>
governor == <<governed, proposals, bindings>>
resolvers ==
    <<condition, trigger, config, target, ready, composite, feed, heard, reserves, changes>>
lifetimes == <<kept, index, live_until, guard, last_run>>
vars ==
    <<now, focus, dca, limit, subscription, vesting, timelock, governor, resolvers, lifetimes>>

Foci == {"dca", "order", "subscription", "vesting", "timelock", "timelock_resolver",
         "resolvers", "lifetimes"}

Init ==
    /\ now = 0 /\ focus \in Foci
    /\ D!Init /\ O!Init /\ S!Init /\ V!Init /\ T!Init /\ P!Init /\ R!Init /\ L!Init

OnlyDca ==
    /\ focus = "dca"
    /\ UNCHANGED <<now, focus, limit, subscription, vesting, timelock, governor, resolvers, lifetimes>>

OnlyOrder ==
    /\ focus = "order"
    /\ UNCHANGED <<now, focus, dca, subscription, vesting, timelock, governor, resolvers, lifetimes>>

OnlySubscription ==
    /\ focus = "subscription"
    /\ UNCHANGED <<now, focus, dca, limit, vesting, timelock, governor, resolvers, lifetimes>>

OnlyVesting ==
    /\ focus = "vesting"
    /\ UNCHANGED <<now, focus, dca, limit, subscription, timelock, governor, resolvers, lifetimes>>

OnlyTimelock ==
    /\ focus = "timelock"
    /\ UNCHANGED <<now, focus, dca, limit, subscription, vesting, governor, resolvers, lifetimes>>

OnlyGovernor ==
    /\ focus = "timelock_resolver"
    /\ UNCHANGED <<now, focus, dca, limit, subscription, vesting, timelock, resolvers, lifetimes>>

OnlyResolvers ==
    /\ focus = "resolvers"
    /\ UNCHANGED <<now, focus, dca, limit, subscription, vesting, timelock, governor, lifetimes>>

OnlyLifetimes ==
    /\ focus = "lifetimes"
    /\ UNCHANGED <<now, focus, dca, limit, subscription, vesting, timelock, governor, resolvers>>

Call ==
    \/ OnlyDca /\ D!Next
    \/ OnlyOrder /\ O!Next
    \/ OnlySubscription /\ S!Next
    \/ OnlyVesting /\ V!Next
    \/ OnlyTimelock /\ T!Next
    \/ OnlyGovernor /\ P!Next
    \/ OnlyResolvers /\ R!Next
    \/ OnlyLifetimes /\ L!Next

LedgerCloses ==
    /\ Tick
    /\ L!KeeperOnTime
    /\ UNCHANGED <<focus, dca, limit, subscription, vesting, timelock, governor, resolvers,
                   lifetimes>>

\* The end of modelled time.
Rest == now = U64Max /\ UNCHANGED vars

Next == Call \/ LedgerCloses \/ Rest

\* Ledgers go on closing, and keepers run the jobs whose resolver answers true:
\* release_vested for every beneficiary and execute_ready; of the latter the
\* least is assumed, that it is called though every target fails.
Fairness ==
    /\ WF_vars(LedgerCloses)
    /\ \A b \in Beneficiaries :
          WF_vars(OnlyVesting /\ V!release_vested(b))
    /\ WF_vars(OnlyTimelock /\ T!should_run /\ T!execute_ready({}))

Spec == Init /\ [][Next]_vars /\ Fairness

-----------------------------------------------------------------------------

\* DcaVault: the tranches swapped keep the owner's plan.
TranchesKeepThePlan == D!TranchesKeepThePlan

\* Subscription: at most one charge per billing period.
OneChargePerPeriod == S!OneChargePerPeriod

\* Timelock: calls run at most once and inside their window.
CallsRunInTheirWindow == T!CallsRunInTheirWindow

\* TimelockResolver: a proposal's window closes for good.
WindowClosesForGood == [][P!WindowClosesForGood]_vars

\* Resolvers: a stalled feed stops the jobs that depend on it.
StaleFeedsStaySilent == R!StaleFeedsStaySilent

\* Lifetimes: no entry looked after is archived.
NothingArchived == L!NothingArchived

\* Vesting: everything vested is paid out in the end.
VestingPaysOut == V!VestingPaysOut

\* Timelock: every queued call leaves the queue in the end.
QueueDrains == T!QueueDrains

\* The vault, the order, the subscriptions and the vesting contract implement
\* DueTarget: their work runs only when their own should_run says so, each run
\* uses up its answer and leaves the others alone, so a keeper that polls it
\* overlooks no run that would do something, and nothing is done twice for one answer.
RunsOnlyWhenDue == D!Target!Spec /\ O!Target!Spec /\ S!Target!Spec /\ V!Target!Spec

\* The order and the vesting contract implement Escrow: they hold exactly what
\* they owe and no call touches the money of anybody but its own party.
MoneyStaysWithItsOwner == O!Money!Spec /\ V!Money!Spec
=============================================================================
