---------------------------- MODULE Subscription ----------------------------
(***************************************************************************)
(* Subscriptions paid from an allowance (contracts/examples/subscription). *)
(* The token is external: an allowance the subscriber sets and a wallet    *)
(* that transfer_from draws on, failing when either is short.              *)
(***************************************************************************)
EXTENDS HostLedger

CONSTANTS
    Subscribers,
    Plans,          \* constructor arguments to try
    Jobs,           \* SoroCron job ids a subscriber may bind
    Allowances,     \* what a subscriber approves
    FirstWallet     \* tokens each subscriber starts with

VARIABLES
    plan,           \* Plan, or None before the constructor
    subs,           \* per subscriber its Subscription, or None
    bound,          \* per job id the subscriber it bills, or None
    allowance, wallet,
    charges         \* history: when the present subscription was charged

subVars == <<plan, subs, bound, allowance, wallet, charges>>

Plan == [price : Nat \ {0}, period : U64 \ {0}]
SubscriptionRecord == [start : U64, last_charged : U64 \cup {None}, payments : Nat]

Init ==
    /\ plan = None
    /\ subs = [s \in Subscribers |-> None]
    /\ bound = [j \in Jobs |-> None]
    /\ allowance = [s \in Subscribers |-> 0]
    /\ wallet = [s \in Subscribers |-> FirstWallet]
    /\ charges = [s \in Subscribers |-> <<>>]

constructor(p) ==
    /\ plan = None
    /\ p.price > 0 /\ p.period # 0
    /\ plan' = p
    /\ UNCHANGED <<subs, bound, allowance, wallet, charges>>

subscribe(s) ==
    /\ plan # None
    /\ subs[s] = None
    /\ subs' = [subs EXCEPT ![s] = [start |-> now, last_charged |-> None, payments |-> 0]]
    /\ UNCHANGED <<plan, bound, allowance, wallet, charges>>

\* The last subscriber to name a job is the one it bills.
bind_job(s, j) ==
    /\ plan # None
    /\ bound' = [bound EXCEPT ![j] = s]
    /\ UNCHANGED <<plan, subs, allowance, wallet, charges>>

period_at(sub, t) == SatSub(t, sub.start) \div plan.period

current_period(sub) == period_at(sub, now)

\* Mutated form: the period charged last may be charged again.
ChargedBefore(s) ==
    subs[s].last_charged # None => subs[s].last_charged <= current_period(subs[s])

NotCharged(s) ==
    subs[s].last_charged # None => subs[s].last_charged < current_period(subs[s])

charge(s) ==
    /\ plan # None /\ subs[s] # None
    /\ NotCharged(s)
    /\ allowance[s] >= plan.price
    /\ subs' = [subs EXCEPT ![s].last_charged = current_period(subs[s]), ![s].payments = @ + 1]
    /\ wallet[s] >= plan.price
    /\ wallet' = [wallet EXCEPT ![s] = @ - plan.price]
    /\ allowance' = [allowance EXCEPT ![s] = @ - plan.price]
    /\ charges' = [charges EXCEPT ![s] = Append(@, now)]
    /\ UNCHANGED <<plan, bound>>

cancel(s) ==
    /\ plan # None
    /\ subs' = [subs EXCEPT ![s] = None]
    /\ charges' = [charges EXCEPT ![s] = <<>>]
    /\ UNCHANGED <<plan, bound, allowance, wallet>>

is_billable(s) ==
    /\ plan # None /\ subs[s] # None
    /\ NotCharged(s)
    /\ allowance[s] >= plan.price

should_run(j) == bound[j] # None /\ is_billable(bound[j])

\* External: the subscriber sets the allowance on the token.
Approve(s, amount) ==
    /\ allowance' = [allowance EXCEPT ![s] = amount]
    /\ UNCHANGED <<plan, subs, bound, wallet, charges>>

Next ==
    \/ \E p \in Plans : constructor(p)
    \/ \E s \in Subscribers :
          \/ subscribe(s)
          \/ \E j \in Jobs : bind_job(s, j)
          \/ charge(s)
          \/ cancel(s)
          \/ \E a \in Allowances : Approve(s, a)

-----------------------------------------------------------------------------

\* One subscription is charged at most once per billing period, counted from its
\* start, however late or often charge is called, and its payment count is the
\* number of those charges.  Nor does a job bound to the subscriber look due again
\* in a period that was charged.
OneChargePerPeriod ==
    \A s \in Subscribers :
        subs[s] # None =>
            /\ subs[s].payments = Len(charges[s])
            /\ \A i, j \in 1..Len(charges[s]) :
                  i < j => period_at(subs[s], charges[s][i]) < period_at(subs[s], charges[s][j])
            /\ \A i \in 1..Len(charges[s]), j \in Jobs :
                  (period_at(subs[s], charges[s][i]) = current_period(subs[s]) /\ bound[j] = s)
                      => ~ should_run(j)

Target == INSTANCE DueTarget WITH
    Tasks <- Subscribers, due <- [s \in Subscribers |-> is_billable(s)],
    runs <- [s \in Subscribers |->
                IF plan = None THEN 0 ELSE (FirstWallet - wallet[s]) \div plan.price]
=============================================================================
