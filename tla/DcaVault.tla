------------------------------ MODULE DcaVault ------------------------------
(***************************************************************************)
(* The DCA vault (contracts/examples/dca): an owner's sell tokens, swapped *)
(* tranche by tranche through a router, each tranche once per interval.    *)
(*                                                                         *)
(* The router is external: swap_exact_tokens_for_tokens takes exactly the  *)
(* amount it was authorized for and pays `out`, or fails when out is below *)
(* the minimum the vault passes.  Signatures are left out: deposit is      *)
(* signed by the payer, cancel by the owner.                               *)
(***************************************************************************)
EXTENDS HostLedger

CONSTANTS
    Plans,          \* constructor arguments to try
    PRICE_SCALE, I128Max,
    Deposits,       \* amounts somebody deposits
    Outs,           \* what the router may pay for a tranche
    Supply          \* bound: sell tokens in the vault

VARIABLES
    plan,           \* DcaPlan, or None before the constructor
    balance,        \* the vault's sell tokens
    fills           \* history: when each tranche was swapped, and for how much

dcaVars == <<plan, balance, fills>>

DcaPlan ==
    [sell_token : {"A", "B"}, buy_token : {"A", "B"},
     amount_per_swap : Nat \ {0}, interval : U64 \ {0}, max_swaps : Nat \ {0},
     min_price : Nat, executed_swaps : Nat, next_swap_at : U64, active : BOOLEAN]

Init == plan = None /\ balance = 0 /\ fills = <<>>

constructor(p) ==
    /\ plan = None
    /\ p.amount_per_swap > 0 /\ p.interval # 0 /\ p.max_swaps # 0 /\ p.min_price >= 0
    /\ p.sell_token # p.buy_token
    /\ plan' = [sell_token |-> p.sell_token, buy_token |-> p.buy_token,
                amount_per_swap |-> p.amount_per_swap, interval |-> p.interval,
                max_swaps |-> p.max_swaps, min_price |-> p.min_price,
                executed_swaps |-> 0, next_swap_at |-> now, active |-> TRUE]
    /\ UNCHANGED <<balance, fills>>

\* Open to anybody, also once the plan has ended.
deposit(amount) ==
    /\ plan # None
    /\ amount > 0 /\ balance + amount <= Supply
    /\ balance' = balance + amount
    /\ UNCHANGED <<plan, fills>>

ensure_due(p) ==
    /\ p.executed_swaps < p.max_swaps
    /\ p.active
    /\ now >= p.next_swap_at

min_out(p) == (p.amount_per_swap * p.min_price) \div PRICE_SCALE

\* Mutated form: tranches keep to the first tranche's grid, so a late one is
\* followed too soon by the next.
TranchesOnGrid(out) ==
    /\ plan # None
    /\ ensure_due(plan)
    /\ balance >= plan.amount_per_swap
    /\ out >= min_out(plan)
    /\ plan' = [plan EXCEPT !.executed_swaps = @ + 1, !.next_swap_at = @ + plan.interval,
                            !.active = plan.executed_swaps + 1 < plan.max_swaps]
    /\ balance' = balance - plan.amount_per_swap
    /\ fills' = Append(fills, [at |-> now, out |-> out])

swap_tranche(out) ==
    /\ plan # None
    /\ ensure_due(plan)
    /\ balance >= plan.amount_per_swap
    /\ now + plan.interval <= U64Max /\ plan.amount_per_swap * plan.min_price <= I128Max
    /\ out >= min_out(plan)
    /\ plan' = [plan EXCEPT !.executed_swaps = @ + 1, !.next_swap_at = now + plan.interval,
                            !.active = plan.executed_swaps + 1 < plan.max_swaps]
    /\ balance' = balance - plan.amount_per_swap
    /\ fills' = Append(fills, [at |-> now, out |-> out])

should_run ==
    plan # None /\ ensure_due(plan) /\ balance >= plan.amount_per_swap

cancel ==
    /\ plan # None
    /\ plan' = [plan EXCEPT !.active = FALSE]
    /\ balance' = 0
    /\ UNCHANGED fills

Next ==
    \/ \E p \in Plans : constructor(p)
    \/ \E a \in Deposits : deposit(a)
    \/ \E out \in Outs : swap_tranche(out)
    \/ cancel

-----------------------------------------------------------------------------

\* However late, often or early keepers call: at most max_swaps tranches, any
\* two at least an interval apart, and none filled at a price that is a whole
\* unit of the buy token below the owner's minimum (swap_tranche computes the
\* minimum by a division that rounds down).
TranchesKeepThePlan ==
    plan # None =>
        /\ Len(fills) = plan.executed_swaps /\ Len(fills) <= plan.max_swaps
        /\ \A i, j \in 1..Len(fills) :
              i < j => fills[j].at - fills[i].at >= plan.interval
        /\ \A i \in 1..Len(fills) :
              (fills[i].out + 1) * PRICE_SCALE > plan.amount_per_swap * plan.min_price

Target == INSTANCE DueTarget WITH
    Tasks <- {"swap"}, due <- [t \in {"swap"} |-> should_run],
    runs <- [t \in {"swap"} |-> Len(fills)]
=============================================================================
