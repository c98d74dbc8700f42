---------------------------- MODULE TargetProofs ----------------------------
(***************************************************************************)
(* Proofs about the contracts of Targets.tla, for all arguments their      *)
(* callers may pass, any number of subscribers, beneficiaries, proposals   *)
(* and feeds, and every width of u64: the vault's tranches, the charges of *)
(* subscriptions, the windows of proposals and of timelocked calls, the    *)
(* resolvers' silence on stale feeds, the entries the TTL guardian keeps   *)
(* alive, and the refinement of Escrow by the limit order and the vesting  *)
(* contract.                                                               *)
(***************************************************************************)
EXTENDS Targets, FiniteSetTheorems, ListProofs

-----------------------------------------------------------------------------
(* Arithmetic. *)

\* A quotient is a natural no larger than the dividend.
LEMMA QuotientNat ==
  ASSUME NEW n \in Nat, NEW d \in Nat \ {0}
  PROVE  n \div d \in Nat /\ n \div d <= n
  OBVIOUS

\* An amount of at least n/d, rounded down, is less than one short of n/d.
LEMMA RoundedDown ==
  ASSUME NEW n \in Nat, NEW d \in Nat \ {0}, NEW out \in Int, out >= n \div d
  PROVE  (out + 1) * d > n
<1> DEFINE q == n \div d
<1>1. q \in Nat /\ n = d * q + (n % d) /\ n % d \in 0..(d - 1)
  OBVIOUS
<1>2. (q + 1) * d = d * q + d
  BY <1>1
<1>3. (q + 1) * d > n
  BY <1>1, <1>2
<1>4. out + 1 - (q + 1) \in Nat
  BY <1>1
<1>5. (out + 1 - (q + 1)) * d >= 0
  BY <1>4
<1>6. (out + 1) * d = (q + 1) * d + (out + 1 - (q + 1)) * d
  BY <1>1
<1> HIDE DEF q
<1> QED BY <1>1, <1>3, <1>5, <1>6

\* A part of the total in proportion to the time elapsed is no more than all.
LEMMA PartOfTotal ==
  ASSUME NEW t \in Nat, NEW e \in Nat, NEW d \in Nat \ {0}, e <= d
  PROVE  (t * e) \div d \in Nat /\ (t * e) \div d <= t
<1> DEFINE q == (t * e) \div d
<1>1. t * e \in Nat /\ t * e <= t * d
  OBVIOUS
<1>2. q \in Nat /\ d * q <= t * e
  BY <1>1
<1>3. d * q <= d * t
  BY <1>1, <1>2
<1>4. SUFFICES ASSUME q > t PROVE FALSE
  BY <1>2
<1>5. q - t \in Nat \ {0}
  BY <1>2, <1>4
<1>6. d * (q - t) > 0
  BY <1>5
<1>7. d * (q - t) = d * q - d * t
  BY <1>2
<1> HIDE DEF q
<1> QED BY <1>1, <1>2, <1>3, <1>6, <1>7

\* Dividing one divisor more.
LEMMA OneMore ==
  ASSUME NEW n \in Nat, NEW d \in Nat \ {0}
  PROVE  (n + d) \div d = n \div d + 1
<1> DEFINE q == n \div d
           r == n % d
<1>1. q \in Nat /\ r \in 0..(d - 1) /\ n = d * q + r
  OBVIOUS
<1>2. n + d = d * (q + 1) + r
  BY <1>1
<1> HIDE DEF q, r
<1>3. (d * (q + 1) + r) \div d = q + 1
  BY <1>1
<1> QED BY <1>2, <1>3 DEF q

\* What appending does.
LEMMA Appended ==
  ASSUME NEW Elems, NEW s \in Seq(Elems), NEW x \in Elems
  PROVE  /\ Append(s, x) \in Seq(Elems) /\ Len(Append(s, x)) = Len(s) + 1 /\ Len(s) \in Nat
         /\ Append(s, x)[Len(s) + 1] = x
         /\ \A i \in 1..Len(s) : Append(s, x)[i] = s[i] /\ s[i] \in Elems
  OBVIOUS

-----------------------------------------------------------------------------
(* The contracts share nothing: every step is a call of one of them, which   *)
(* leaves the clock and the others alone, or the clock's.                    *)

\* For each of the contracts below.
LEMMA OneContract ==
  ASSUME [Next]_vars
  PROVE  /\ UNCHANGED now \/ Tick
         /\ (D!Next /\ UNCHANGED now) \/ UNCHANGED dca
         /\ O!Next \/ UNCHANGED limit
         /\ (S!Next /\ UNCHANGED now) \/ UNCHANGED subscription
         /\ (V!Next /\ UNCHANGED now) \/ UNCHANGED vesting
         /\ (P!Next /\ UNCHANGED now) \/ UNCHANGED governor
         /\ (T!Next /\ UNCHANGED now) \/ UNCHANGED timelock
         /\ (R!Next /\ UNCHANGED now) \/ UNCHANGED resolvers
         /\ \/ L!Next /\ UNCHANGED now
            \/ UNCHANGED lifetimes /\ (UNCHANGED now \/ L!KeeperOnTime)
<1>1. CASE Call
  BY <1>1 DEF Call, OnlyDca, OnlyOrder, OnlySubscription, OnlyVesting, OnlyTimelock,
              OnlyGovernor, OnlyResolvers, OnlyLifetimes
<1>2. CASE LedgerCloses
  BY <1>2 DEF LedgerCloses
<1>3. CASE UNCHANGED vars
  BY <1>3 DEF vars
<1> QED BY <1>1, <1>2, <1>3 DEF Next, Rest

\* Time stays in u64.
LEMMA ClockStep ==
  ASSUME now \in U64, UNCHANGED now \/ Tick
  PROVE  now' \in U64 /\ now' >= now
  BY TargetsAssumption DEF U64, Tick
\* The constants of the instances are those of Targets.
LEMMA SameWidth ==
  D!U64 = U64 /\ O!U64 = U64 /\ S!U64 = U64 /\ V!U64 = U64 /\ P!U64 = U64
  BY DEF U64, D!U64, O!U64, S!U64, V!U64, P!U64

-----------------------------------------------------------------------------
(* The DCA vault.  TranchesKeepThePlan is not inductive: a new tranche is an *)
(* interval after all others because the plan's next date is.                *)

Tranche == [at : U64, out : Int]

\* Types, and the next date is an interval after every tranche.
DcaInv ==
    /\ now \in U64
    /\ plan = None => fills = <<>>
    /\ plan # None =>
          /\ plan \in D!DcaPlan
          /\ fills \in Seq(Tranche)
          /\ \A i \in 1..Len(fills) : fills[i].at + plan.interval <= plan.next_swap_at
    /\ D!TranchesKeepThePlan

\* The constructor.
LEMMA DcaConstructor ==
  ASSUME DcaInv, NEW p \in DcaPlans, D!constructor(p), UNCHANGED now
  PROVE  DcaInv'
<1>1. plan = None /\ fills' = <<>>
  BY DEF DcaInv, D!constructor
<1>2. /\ plan' \in D!DcaPlan /\ plan'.executed_swaps = 0
  <2>1. /\ p.sell_token \in {"A", "B"} /\ p.buy_token \in {"A", "B"}
        /\ p.amount_per_swap \in Nat \ {0} /\ p.interval \in U64 \ {0}
        /\ p.max_swaps \in Nat \ {0} /\ p.min_price \in Nat /\ now \in U64
    BY TargetsAssumption DEF D!constructor, DcaInv
  <2> QED BY <2>1, SameWidth DEF D!constructor, D!DcaPlan
<1>3. plan'.max_swaps \in Nat
  BY <1>2 DEF D!DcaPlan
<1>4. Len(fills') = 0 /\ fills' \in Seq(Tranche)
  BY <1>1
<1> QED BY <1>2, <1>3, <1>4 DEF DcaInv, D!TranchesKeepThePlan

\* A tranche.
LEMMA DcaTranche ==
  ASSUME DcaInv, NEW out \in Outs, D!swap_tranche(out), UNCHANGED now
  PROVE  DcaInv'
<1> DEFINE n == Len(fills)
           tranche == [at |-> now, out |-> out]
<1>1. /\ plan # None /\ plan \in D!DcaPlan /\ now \in U64
      /\ fills \in Seq(Tranche)
      /\ \A i \in 1..n : fills[i].at + plan.interval <= plan.next_swap_at
      /\ n = plan.executed_swaps /\ n <= plan.max_swaps
  BY DEF DcaInv, D!swap_tranche, D!TranchesKeepThePlan
<1>2. /\ plan.interval \in U64 \ {0} /\ plan.executed_swaps \in Nat /\ plan.max_swaps \in Nat
      /\ plan.amount_per_swap \in Nat /\ plan.min_price \in Nat /\ plan.next_swap_at \in U64
  BY <1>1, SameWidth DEF D!DcaPlan
<1>3. /\ n < plan.max_swaps /\ now >= plan.next_swap_at /\ now + plan.interval \in U64
  BY <1>1, <1>2, TargetsAssumption DEF D!swap_tranche, D!ensure_due, U64
<1>4. /\ plan' \in D!DcaPlan
      /\ plan'.executed_swaps = n + 1 /\ plan'.next_swap_at = now + plan.interval
      /\ plan'.max_swaps = plan.max_swaps /\ plan'.interval = plan.interval
      /\ plan'.amount_per_swap = plan.amount_per_swap /\ plan'.min_price = plan.min_price
  <2> DEFINE more == plan.executed_swaps + 1 < plan.max_swaps
             date == now + plan.interval
  <2>1. more \in BOOLEAN /\ date \in U64 /\ n + 1 \in Nat
    BY <1>1, <1>2, <1>3
  <2>2. plan' = [plan EXCEPT !.executed_swaps = n + 1, !.next_swap_at = date, !.active = more]
    BY <1>1 DEF D!swap_tranche
  <2> HIDE DEF n, date, more
  <2>3. /\ plan' \in D!DcaPlan
        /\ plan'.executed_swaps = n + 1 /\ plan'.next_swap_at = date
        /\ plan'.max_swaps = plan.max_swaps /\ plan'.interval = plan.interval
        /\ plan'.amount_per_swap = plan.amount_per_swap /\ plan'.min_price = plan.min_price
    BY <1>1, <2>1, <2>2, SameWidth DEF D!DcaPlan
  <2> QED BY <2>3 DEF date
<1>5. plan' # None
  BY <1>4, TargetsAssumption
<1>6. tranche \in Tranche /\ out \in Int
  BY <1>1, TargetsAssumption DEF Tranche
<1>7. /\ fills' \in Seq(Tranche) /\ Len(fills') = n + 1
      /\ fills'[n + 1] = tranche
      /\ \A i \in 1..n : fills'[i] = fills[i] /\ fills[i] \in Tranche
  <2>1. fills' = Append(fills, tranche)
    BY DEF D!swap_tranche
  <2> HIDE DEF tranche
  <2> QED BY <1>1, <1>6, <2>1, Appended
<1>8. (out + 1) * PRICE_SCALE > plan.amount_per_swap * plan.min_price
  <2>1. plan.amount_per_swap * plan.min_price \in Nat
    BY <1>2
  <2>2. out >= (plan.amount_per_swap * plan.min_price) \div PRICE_SCALE
    BY DEF D!swap_tranche, D!min_out
  <2> QED BY <1>6, <2>1, <2>2, RoundedDown, TargetsAssumption
<1>9. \A i \in 1..n : /\ fills'[i].at = fills[i].at /\ fills[i].at \in Nat
                      /\ fills'[i].out = fills[i].out
  BY <1>7 DEF U64, Tranche
<1>10. fills'[n + 1].at = now /\ fills'[n + 1].out = out
  BY <1>7
<1>11. now \in Nat /\ plan.interval \in Nat /\ plan.next_swap_at \in Nat /\ n \in Nat
  BY <1>1, <1>2 DEF U64
<1> HIDE DEF n, tranche
<1>12. \A i \in 1..n : fills[i].at + plan.interval <= now
  BY <1>1, <1>3, <1>9, <1>11
<1>13. \A i \in 1..(n + 1) : fills'[i].at + plan'.interval <= plan'.next_swap_at
  <2> SUFFICES ASSUME NEW i \in 1..(n + 1)
               PROVE  fills'[i].at + plan.interval <= now + plan.interval
    BY <1>4
  <2>1. CASE i = n + 1
    BY <1>10, <1>11, <2>1
  <2>2. CASE i \in 1..n
    BY <1>9, <1>11, <1>12, <2>2
  <2> QED BY <1>11, <2>1, <2>2
<1>14. \A i, j \in 1..(n + 1) : i < j => fills'[j].at - fills'[i].at >= plan'.interval
  <2> SUFFICES ASSUME NEW i \in 1..(n + 1), NEW j \in 1..(n + 1), i < j
               PROVE  fills'[j].at - fills'[i].at >= plan.interval
    BY <1>4
  <2>1. CASE j = n + 1
    BY <1>9, <1>10, <1>11, <1>12, <2>1
  <2>2. CASE j \in 1..n
    <3>1. fills[j].at - fills[i].at >= plan.interval
      BY <1>1, <1>11, <2>2 DEF DcaInv, D!TranchesKeepThePlan, n
    <3> QED BY <1>9, <1>11, <2>2, <3>1
  <2> QED BY <1>11, <2>1, <2>2
<1>15. \A i \in 1..(n + 1) :
          (fills'[i].out + 1) * PRICE_SCALE > plan'.amount_per_swap * plan'.min_price
  <2> SUFFICES ASSUME NEW i \in 1..(n + 1)
               PROVE (fills'[i].out + 1) * PRICE_SCALE > plan.amount_per_swap * plan.min_price
    BY <1>4
  <2>1. CASE i = n + 1
    BY <1>8, <1>10, <2>1
  <2>2. CASE i \in 1..n
    BY <1>1, <1>9, <2>2 DEF DcaInv, D!TranchesKeepThePlan, n
  <2> QED BY <1>11, <2>1, <2>2
<1>16. D!TranchesKeepThePlan'
  <2>1. Len(fills') = plan'.executed_swaps /\ Len(fills') <= plan'.max_swaps
    BY <1>2, <1>3, <1>4, <1>7, <1>11
  <2>2. 1..Len(fills') = 1..(n + 1)
    BY <1>7
  <2> QED BY <1>14, <1>15, <2>1, <2>2, Zenon DEF D!TranchesKeepThePlan
<1> QED BY <1>1, <1>4, <1>5, <1>7, <1>13, <1>16 DEF DcaInv

\* The owner ends the plan.
LEMMA DcaCancel ==
  ASSUME DcaInv, D!cancel, UNCHANGED now
  PROVE  DcaInv'
<1>1. /\ plan # None /\ plan \in D!DcaPlan
  BY DEF DcaInv, D!cancel
<1>2. /\ plan' \in D!DcaPlan
      /\ plan'.executed_swaps = plan.executed_swaps /\ plan'.next_swap_at = plan.next_swap_at
      /\ plan'.max_swaps = plan.max_swaps /\ plan'.interval = plan.interval
      /\ plan'.amount_per_swap = plan.amount_per_swap /\ plan'.min_price = plan.min_price
  BY <1>1 DEF D!cancel, D!DcaPlan
<1>3. plan' # None /\ fills' = fills
  BY <1>2, TargetsAssumption DEF D!cancel
<1> QED BY <1>1, <1>2, <1>3 DEF DcaInv, D!TranchesKeepThePlan

\* Every step of the system keeps the vault's invariant.
LEMMA DcaStep ==
  ASSUME DcaInv, [Next]_vars
  PROVE  DcaInv'
<1>1. CASE D!Next /\ UNCHANGED now
  <2>1. CASE \E a \in Deposits : D!deposit(a)
    BY <1>1, <2>1 DEF D!deposit, DcaInv, D!TranchesKeepThePlan
  <2> QED BY <1>1, <2>1, DcaConstructor, DcaTranche, DcaCancel DEF D!Next
<1>2. CASE UNCHANGED dca
  <2>1. now' \in U64
    BY OneContract, ClockStep DEF DcaInv
  <2> QED BY <1>2, <2>1 DEF dca, DcaInv, D!TranchesKeepThePlan
<1> QED BY <1>1, <1>2, OneContract

\* DcaVault: at most max_swaps tranches, any two an interval apart, none a whole
\* unit below the owner's price, whoever calls swap_tranche, and whenever.
THEOREM TranchesSafe == Spec => []TranchesKeepThePlan
<1>1. Init => DcaInv
  BY TargetsAssumption DEF Init, D!Init, DcaInv, U64, D!TranchesKeepThePlan
<1>2. DcaInv /\ [Next]_vars => DcaInv'
  BY DcaStep
<1>3. DcaInv => TranchesKeepThePlan
  BY DEF DcaInv, TranchesKeepThePlan
<1> QED BY <1>1, <1>2, <1>3, PTL DEF Spec

-----------------------------------------------------------------------------
(* The timelock resolver. *)

\* Types.
GovernorInv == now \in U64 /\ proposals \in [Proposals -> P!Proposal \cup {None}]

\* The window of a proposal is stored once; what a step can change about it.
LEMMA ProposalSteps ==
  ASSUME GovernorInv, [Next]_vars, NEW p \in Proposals
  PROVE  /\ GovernorInv' /\ now' >= now
         /\ proposals[p] # None =>
               /\ proposals[p] \in P!Proposal /\ proposals'[p] \in P!Proposal
               /\ proposals'[p].eta = proposals[p].eta
               /\ proposals'[p].window = proposals[p].window
               /\ proposals[p].executed => proposals'[p].executed
<1>1. now' \in U64 /\ now' >= now
  BY OneContract, ClockStep DEF GovernorInv
<1>2. CASE \/ P!constructor \/ UNCHANGED governor
           \/ \E j \in Jobs, q \in Proposals : P!bind(j, q)
  BY <1>1, <1>2 DEF GovernorInv, governor, P!constructor, P!bind
<1>3. ASSUME NEW q \in Proposals, NEW eta \in Etas, NEW w \in Windows, P!register(q, eta, w)
      PROVE  /\ GovernorInv'
             /\ proposals[p] # None => proposals'[p] = proposals[p] /\ proposals[p] \in P!Proposal
  <2>1. [eta |-> eta, window |-> w, executed |-> FALSE] \in P!Proposal
    BY TargetsAssumption, SameWidth DEF P!Proposal
  <2> QED BY <1>1, <1>3, <2>1 DEF GovernorInv, P!register
<1>4. ASSUME NEW q \in Proposals, P!mark_executed(q)
      PROVE  /\ GovernorInv'
             /\ proposals[p] # None =>
                   /\ proposals[p] \in P!Proposal /\ proposals'[p] \in P!Proposal
                   /\ proposals'[p].eta = proposals[p].eta
                   /\ proposals'[p].window = proposals[p].window
                   /\ proposals[p].executed => proposals'[p].executed
  <2> DEFINE r == [proposals[q] EXCEPT !.executed = TRUE]
  <2>1. proposals[q] \in P!Proposal
    BY <1>4 DEF GovernorInv, P!mark_executed
  <2>2. r \in P!Proposal /\ r.eta = proposals[q].eta /\ r.window = proposals[q].window /\ r.executed
    BY <2>1 DEF P!Proposal
  <2>3. proposals' = [proposals EXCEPT ![q] = r]
    BY <1>4 DEF P!mark_executed
  <2> HIDE DEF r
  <2> QED BY <1>1, <2>2, <2>3 DEF GovernorInv
<1> QED BY <1>1, <1>2, <1>3, <1>4, OneContract DEF P!Next

\* TimelockResolver: a proposal that was executed or has expired is never ready
\* again, for any windows, also those that reach the end of u64 time.
THEOREM WindowsSafe == Spec => WindowClosesForGood
<1>1. Init => GovernorInv
  BY TargetsAssumption DEF Init, P!Init, GovernorInv, U64
<1>2. GovernorInv /\ [Next]_vars => GovernorInv'
  <2> SUFFICES ASSUME GovernorInv, [Next]_vars PROVE GovernorInv'
    OBVIOUS
  <2>1. CASE Proposals # {}
    BY <2>1, ProposalSteps
  <2>2. CASE Proposals = {}
    <3>1. now' \in U64
      BY OneContract, ClockStep DEF GovernorInv
    <3>2. proposals' \in [Proposals -> P!Proposal \cup {None}]
      BY <2>2, OneContract DEF GovernorInv, P!Next, governor, P!constructor
    <3> QED BY <3>1, <3>2 DEF GovernorInv
  <2> QED BY <2>1, <2>2
<1>3. GovernorInv /\ [Next]_vars => [P!WindowClosesForGood]_vars
  <2> SUFFICES ASSUME GovernorInv, [Next]_vars PROVE P!WindowClosesForGood
    OBVIOUS
  <2> SUFFICES ASSUME NEW p \in Proposals
      PROVE  /\ P!state(p) \in {"Executed", "Expired"} => P!state(p)' \in {"Executed", "Expired"}
             /\ P!state(p) = "Ready" => P!state(p)' # "Queued"
             /\ \A j \in Jobs :
                   (bindings[j] = p /\ bindings'[j] = p /\ P!state(p) \in {"Executed", "Expired"})
                       => ~ P!should_run(j)'
    BY DEF P!WindowClosesForGood
  <2>1. CASE proposals[p] = None
    BY <2>1 DEF P!state
  <2>2. CASE proposals[p] # None
    <3>1. /\ proposals'[p] # None /\ proposals[p].eta \in U64 /\ proposals[p].window \in U64
          /\ now \in U64 /\ now' \in U64 /\ now' >= now
      BY <2>2, ProposalSteps, TargetsAssumption, SameWidth DEF P!Proposal, GovernorInv
    <3>2. P!SatAdd(proposals[p].eta, proposals[p].window) \in Nat
      BY <3>1, TargetsAssumption DEF P!SatAdd, U64
    <3>3. P!state(p) \in {"Executed", "Expired"} => P!state(p)' \in {"Executed", "Expired"}
      BY <2>2, <3>1, <3>2, ProposalSteps DEF P!state, U64
    <3>4. P!state(p) = "Ready" => P!state(p)' # "Queued"
      BY <2>2, <3>1, <3>2, ProposalSteps DEF P!state, U64
    <3> QED BY <3>3, <3>4 DEF P!should_run
  <2> QED BY <2>1, <2>2
<1> QED BY <1>1, <1>2, <1>3, PTL DEF Spec, WindowClosesForGood

-----------------------------------------------------------------------------
(* Subscriptions.  What is missing for induction: last_charged is at least   *)
(* the period of every charge, so the next charge, which is after it, is     *)
(* after them all.                                                           *)

\* S!period_at as a function of what it depends on.
PeriodOf(start, period, time) == SatSub(time, start) \div period

\* A subscription's charges, one per period, none after the period charged last.
ChargesOrdered(s) ==
    subs[s] # None =>
        /\ subs[s].payments = Len(charges[s])
        /\ \A i \in 1..Len(charges[s]) :
              /\ subs[s].last_charged # None
              /\ PeriodOf(subs[s].start, billing.period, charges[s][i]) <= subs[s].last_charged
        /\ \A i, j \in 1..Len(charges[s]) :
              i < j => PeriodOf(subs[s].start, billing.period, charges[s][i])
                           < PeriodOf(subs[s].start, billing.period, charges[s][j])

\* Types, and the above; without a plan nobody has subscribed.
BillingInv ==
    /\ now \in U64
    /\ billing \in S!Plan \cup {None}
    /\ subs \in [Subscribers -> S!SubscriptionRecord \cup {None}]
    /\ charges \in [Subscribers -> Seq(U64)]
    /\ billing = None => \A s \in Subscribers : subs[s] = None
    /\ \A s \in Subscribers : subs[s] = None => charges[s] = <<>>
    /\ \A s \in Subscribers : ChargesOrdered(s)

\* The two say the same.
LEMMA SamePeriod ==
  ASSUME NEW sub, NEW time
  PROVE  /\ S!period_at(sub, time) = PeriodOf(sub.start, billing.period, time)
         /\ S!current_period(sub) = PeriodOf(sub.start, billing.period, now)
  BY DEF S!period_at, S!current_period, PeriodOf, S!SatSub, SatSub

\* Periods are u64 values.
LEMMA PeriodType ==
  ASSUME NEW start \in U64, NEW period \in U64 \ {0}, NEW time \in U64
  PROVE  PeriodOf(start, period, time) \in U64
<1> DEFINE late == SatSub(time, start)
<1>1. late \in Nat /\ late <= time
  BY TargetsAssumption DEF SatSub, U64
<1>2. period \in Nat \ {0}
  BY TargetsAssumption DEF U64
<1> HIDE DEF late
<1>3. late \div period \in Nat /\ late \div period <= late
  BY <1>1, <1>2, QuotientNat
<1>4. late \div period \in U64
  BY <1>1, <1>3, TargetsAssumption DEF U64
<1> QED BY <1>4 DEF PeriodOf, late

\* What does not concern a subscriber leaves its charges in order.
LEMMA ChargesUntouched ==
  ASSUME NEW s \in Subscribers, ChargesOrdered(s),
         billing' = billing, subs'[s] = subs[s], charges'[s] = charges[s]
  PROVE  ChargesOrdered(s)'
  BY DEF ChargesOrdered

\* The list of charges with one more, in a later period than the one charged last.
LEMMA ChargeAppended ==
  ASSUME NEW list \in Seq(U64), NEW start \in U64, NEW period \in U64 \ {0}, NEW time \in U64,
         \A i \in 1..Len(list) :
            PeriodOf(start, period, list[i]) < PeriodOf(start, period, time),
         \A i, j \in 1..Len(list) :
            i < j => PeriodOf(start, period, list[i]) < PeriodOf(start, period, list[j])
  PROVE  LET more == Append(list, time)
         IN  /\ more \in Seq(U64) /\ Len(more) = Len(list) + 1
             /\ \A i \in 1..Len(more) :
                   PeriodOf(start, period, more[i]) <= PeriodOf(start, period, time)
             /\ \A i, j \in 1..Len(more) :
                   i < j => PeriodOf(start, period, more[i]) < PeriodOf(start, period, more[j])
<1> DEFINE more == Append(list, time)
           n == Len(list)
<1>1. /\ more \in Seq(U64) /\ Len(more) = n + 1 /\ n \in Nat /\ more[n + 1] = time
      /\ \A i \in 1..n : more[i] = list[i] /\ list[i] \in U64
  BY Appended
<1>2. /\ PeriodOf(start, period, time) \in Nat
      /\ \A i \in 1..n : PeriodOf(start, period, list[i]) \in Nat
  <2>1. /\ PeriodOf(start, period, time) \in U64
        /\ \A i \in 1..n : PeriodOf(start, period, list[i]) \in U64
    BY <1>1, PeriodType
  <2>2. \A x \in U64 : x \in Nat
    BY DEF U64
  <2> QED BY <2>1, <2>2
<1> HIDE DEF more, n
<1>3. ASSUME NEW i \in 1..(n + 1)
      PROVE  PeriodOf(start, period, more[i]) <= PeriodOf(start, period, time)
  <2>1. CASE i = n + 1
    BY <1>1, <1>2, <2>1
  <2>2. CASE i \in 1..n
    BY <1>1, <1>2, <2>2 DEF n
  <2> QED BY <1>1, <2>1, <2>2
<1>4. ASSUME NEW i \in 1..(n + 1), NEW j \in 1..(n + 1), i < j
      PROVE  PeriodOf(start, period, more[i]) < PeriodOf(start, period, more[j])
  <2>1. i \in 1..n
    BY <1>1, <1>4
  <2>2. CASE j = n + 1
    BY <1>1, <2>1, <2>2 DEF n
  <2>3. CASE j \in 1..n
    BY <1>1, <1>4, <2>1, <2>3 DEF n
  <2> QED BY <1>1, <2>2, <2>3
<1>5. 1..Len(more) = 1..(n + 1)
  BY <1>1
<1> QED BY <1>1, <1>3, <1>4, <1>5 DEF more, n

\* A charge.
LEMMA ChargeStep ==
  ASSUME BillingInv, NEW s \in Subscribers, S!charge(s), UNCHANGED now
  PROVE  BillingInv'
<1> DEFINE sub == subs[s]
           period == PeriodOf(sub.start, billing.period, now)
           count == sub.payments + 1
           new == [sub EXCEPT !.last_charged = period, !.payments = count]
<1>1. /\ billing \in S!Plan /\ billing' = billing /\ sub \in S!SubscriptionRecord
      /\ sub # None /\ now \in U64 /\ charges[s] \in Seq(U64)
  BY DEF BillingInv, S!charge
<1>2. sub.start \in U64 /\ billing.period \in U64 \ {0} /\ count \in Nat
  BY <1>1, SameWidth DEF S!SubscriptionRecord, S!Plan
<1>3. period \in U64
  BY <1>1, <1>2, PeriodType
<1>4. sub.last_charged # None => sub.last_charged \in U64 /\ sub.last_charged < period
  BY <1>1, SamePeriod, SameWidth DEF S!charge, S!NotCharged, S!SubscriptionRecord
<1>5. /\ subs' = [subs EXCEPT ![s] = new]
      /\ charges' = [charges EXCEPT ![s] = Append(charges[s], now)]
  BY <1>1, SamePeriod DEF S!charge, BillingInv
<1> HIDE DEF period, count
<1>6. /\ new \in S!SubscriptionRecord /\ new.start = sub.start
      /\ new.last_charged = period /\ new.payments = count
  BY <1>1, <1>2, <1>3, SameWidth DEF S!SubscriptionRecord
<1> HIDE DEF new
<1>7. /\ subs' \in [Subscribers -> S!SubscriptionRecord \cup {None}] /\ subs'[s] = new
      /\ new # None /\ \A x \in Subscribers \ {s} : subs'[x] = subs[x]
  BY <1>5, <1>6, TargetsAssumption DEF BillingInv
<1>8. ASSUME NEW i \in 1..Len(charges[s])
      PROVE  PeriodOf(sub.start, billing.period, charges[s][i]) < period
  <2>1. charges[s][i] \in U64
    BY <1>1
  <2>2. PeriodOf(sub.start, billing.period, charges[s][i]) \in U64
    BY <1>2, <2>1, PeriodType
  <2>3. /\ sub.last_charged # None
        /\ PeriodOf(sub.start, billing.period, charges[s][i]) <= sub.last_charged
    BY <1>1 DEF BillingInv, ChargesOrdered
  <2> QED BY <1>3, <1>4, <2>2, <2>3, TargetsAssumption DEF U64
<1> DEFINE more == Append(charges[s], now)
<1>9. \A i, j \in 1..Len(charges[s]) :
          i < j => PeriodOf(sub.start, billing.period, charges[s][i])
                       < PeriodOf(sub.start, billing.period, charges[s][j])
  BY <1>1 DEF BillingInv, ChargesOrdered
<1>10. /\ more \in Seq(U64) /\ Len(more) = Len(charges[s]) + 1
       /\ \A i \in 1..Len(more) : PeriodOf(sub.start, billing.period, more[i]) <= period
       /\ \A i, j \in 1..Len(more) :
             i < j => PeriodOf(sub.start, billing.period, more[i])
                          < PeriodOf(sub.start, billing.period, more[j])
  BY <1>1, <1>2, <1>8, <1>9, ChargeAppended DEF period
<1>11. count = Len(more)
  BY <1>1, <1>2, <1>10 DEF BillingInv, ChargesOrdered, count
<1> HIDE DEF more
<1>12. /\ charges' \in [Subscribers -> Seq(U64)] /\ charges'[s] = more
       /\ \A x \in Subscribers \ {s} : charges'[x] = charges[x]
  BY <1>5, <1>10 DEF BillingInv, more
<1>13. period # None
  BY <1>3, TargetsAssumption
<1> HIDE DEF sub
<1>14. ChargesOrdered(s)'
  BY <1>1, <1>6, <1>7, <1>10, <1>11, <1>12, <1>13 DEF ChargesOrdered
<1>15. \A x \in Subscribers \ {s} : ChargesOrdered(x)'
  BY <1>1, <1>7, <1>12, ChargesUntouched DEF BillingInv
<1>16. \A x \in Subscribers : subs'[x] = None => charges'[x] = <<>>
  BY <1>7, <1>12 DEF BillingInv
<1>17. billing' # None /\ billing' \in S!Plan /\ now' \in U64
  BY <1>1, TargetsAssumption
<1> QED BY <1>7, <1>12, <1>14, <1>15, <1>16, <1>17 DEF BillingInv

\* Every step of the system keeps the invariant of subscriptions.
LEMMA BillingStep ==
  ASSUME BillingInv, [Next]_vars
  PROVE  BillingInv'
<1>1. CASE UNCHANGED subscription
  <2>1. now' \in U64
    BY OneContract, ClockStep DEF BillingInv
  <2>2. \A s \in Subscribers : ChargesOrdered(s)'
    BY <1>1, ChargesUntouched DEF subscription, BillingInv
  <2> QED BY <1>1, <2>1, <2>2 DEF subscription, BillingInv
<1>2. ASSUME NEW p \in SubscriptionPlans, S!constructor(p), UNCHANGED now PROVE BillingInv'
  <2>1. p \in S!Plan
    BY <1>2, TargetsAssumption, SameWidth DEF S!constructor, S!Plan
  <2>2. \A s \in Subscribers : subs'[s] = None
    BY <1>2 DEF S!constructor, BillingInv
  <2> QED BY <1>2, <2>1, <2>2, TargetsAssumption DEF S!constructor, BillingInv, ChargesOrdered
<1>3. ASSUME NEW s \in Subscribers, S!subscribe(s), UNCHANGED now PROVE BillingInv'
  <2> DEFINE new == [start |-> now, last_charged |-> None, payments |-> 0]
  <2>1. /\ new \in S!SubscriptionRecord /\ new # None /\ new.payments = 0
    BY TargetsAssumption, SameWidth DEF S!SubscriptionRecord, BillingInv
  <2>2. /\ billing' = billing /\ charges' = charges /\ subs' = [subs EXCEPT ![s] = new]
        /\ charges[s] = <<>> /\ billing # None
    BY <1>3 DEF S!subscribe, BillingInv
  <2> HIDE DEF new
  <2>3. ChargesOrdered(s)'
    BY <2>1, <2>2 DEF ChargesOrdered, BillingInv
  <2>4. \A x \in Subscribers \ {s} : ChargesOrdered(x)'
    BY <2>2, ChargesUntouched DEF BillingInv
  <2> QED BY <1>3, <2>1, <2>2, <2>3, <2>4 DEF BillingInv
<1>4. ASSUME NEW s \in Subscribers, S!cancel(s), UNCHANGED now PROVE BillingInv'
  <2>1. /\ billing' = billing /\ charges' = [charges EXCEPT ![s] = <<>>]
        /\ subs' = [subs EXCEPT ![s] = None] /\ <<>> \in Seq(U64)
    BY <1>4 DEF S!cancel
  <2>2. ChargesOrdered(s)'
    BY <2>1 DEF ChargesOrdered, BillingInv
  <2>3. \A x \in Subscribers \ {s} : ChargesOrdered(x)'
    BY <2>1, ChargesUntouched DEF BillingInv
  <2> QED BY <1>4, <2>1, <2>2, <2>3 DEF BillingInv
<1>5. ASSUME NEW s \in Subscribers, UNCHANGED now,
             (\E j \in Jobs : S!bind_job(s, j)) \/ (\E a \in Allowances : S!Approve(s, a))
      PROVE  BillingInv'
  <2>1. billing' = billing /\ charges' = charges /\ subs' = subs
    BY <1>5 DEF S!bind_job, S!Approve
  <2>2. \A x \in Subscribers : ChargesOrdered(x)'
    BY <2>1, ChargesUntouched DEF BillingInv
  <2> QED BY <1>5, <2>1, <2>2 DEF BillingInv
<1> QED BY <1>1, <1>2, <1>3, <1>4, <1>5, ChargeStep, OneContract DEF S!Next

\* Subscription: one subscription is charged at most once per period, whoever
\* calls charge, and a job that bills it is not due in a period that was charged.
THEOREM ChargesSafe == Spec => []OneChargePerPeriod
<1>1. Init => BillingInv
  BY TargetsAssumption DEF Init, S!Init, BillingInv, ChargesOrdered, U64
<1>2. BillingInv /\ [Next]_vars => BillingInv'
  BY BillingStep
<1>3. BillingInv => OneChargePerPeriod
  <2> SUFFICES ASSUME BillingInv, NEW s \in Subscribers, subs[s] # None
      PROVE  /\ subs[s].payments = Len(charges[s])
             /\ \A i, j \in 1..Len(charges[s]) :
                   i < j => S!period_at(subs[s], charges[s][i]) < S!period_at(subs[s], charges[s][j])
             /\ \A i \in 1..Len(charges[s]), j \in Jobs :
                   (S!period_at(subs[s], charges[s][i]) = S!current_period(subs[s]) /\ bound[j] = s)
                       => ~ S!should_run(j)
    BY DEF OneChargePerPeriod, S!OneChargePerPeriod
  <2>1. ChargesOrdered(s) /\ subs[s] \in S!SubscriptionRecord /\ billing \in S!Plan /\ now \in U64
    BY DEF BillingInv
  <2>2. subs[s].start \in U64 /\ billing.period \in U64 \ {0}
    BY <2>1, SameWidth DEF S!SubscriptionRecord, S!Plan
  <2>3. ASSUME NEW i \in 1..Len(charges[s]), NEW j \in Jobs, bound[j] = s, S!should_run(j),
               S!period_at(subs[s], charges[s][i]) = S!current_period(subs[s])
        PROVE  FALSE
    <3>1. subs[s].last_charged \in U64 /\ S!current_period(subs[s]) \in U64
      BY <2>1, <2>2, PeriodType, SamePeriod, SameWidth DEF ChargesOrdered, S!SubscriptionRecord
    <3>2. S!current_period(subs[s]) <= subs[s].last_charged
      BY <2>1, <2>3, SamePeriod DEF ChargesOrdered
    <3>3. subs[s].last_charged < S!current_period(subs[s])
      BY <2>1, <2>3 DEF S!should_run, S!is_billable, S!NotCharged, ChargesOrdered
    <3> QED BY <3>1, <3>2, <3>3, TargetsAssumption DEF U64
  <2> QED BY <2>1, <2>3, SamePeriod DEF ChargesOrdered
<1> QED BY <1>1, <1>2, <1>3, PTL DEF Spec

-----------------------------------------------------------------------------
(* The limit order and the vesting contract implement Escrow.                *)

\* What the order owes, as LimitOrder maps it.
OrderAccount ==
    [h \in {"owner"} |-> IF order # None /\ order.open /\ order.funded THEN order.amount_in ELSE 0]

\* What the vesting contract owes, as Vesting maps it.
VestingAccount ==
    [b \in Beneficiaries |-> IF schedules[b] = None THEN 0
                             ELSE schedules[b].total_amount - schedules[b].released_amount]

\* Types.
OrderInv == escrow \in Int /\ order \in O!Order \cup {None}
VestingInv ==
    /\ now \in U64 /\ pool \in Int
    /\ schedules \in [Beneficiaries -> V!VestingSchedule \cup {None}]

\* A step of the order, as a step of its escrow.
LEMMA OrderStep ==
  ASSUME OrderInv, [Next]_vars
  PROVE  OrderInv' /\ (O!Money!Transfer("owner") \/ UNCHANGED <<escrow, OrderAccount>>)
<1>1. CASE UNCHANGED limit
  BY <1>1 DEF limit, OrderInv, OrderAccount
<1>2. ASSUME NEW m, O!MarketMoves(m)
      PROVE  OrderInv' /\ UNCHANGED <<escrow, OrderAccount>>
  BY <1>2 DEF O!MarketMoves, OrderInv, OrderAccount
<1>3. ASSUME NEW o \in Orders, O!constructor(o)
      PROVE  OrderInv' /\ UNCHANGED <<escrow, OrderAccount>>
  <2>1. /\ o.sell_token \in {"A", "B"} /\ o.buy_token \in {"A", "B"} /\ o.expires_at \in U64
        /\ o.amount_in \in Nat \ {0} /\ o.min_amount_out \in Nat \ {0}
    BY <1>3, TargetsAssumption DEF O!constructor
  <2>2. order' \in O!Order /\ order'.funded = FALSE /\ order = None /\ escrow' = escrow
    BY <1>3, <2>1, SameWidth DEF O!constructor, O!Order
  <2> QED BY <2>2 DEF OrderInv, OrderAccount
<1>4. ASSUME O!fund PROVE OrderInv' /\ O!Money!Transfer("owner")
  <2>1. order \in O!Order /\ order' = [order EXCEPT !.funded = TRUE]
    BY <1>4 DEF O!fund, OrderInv
  <2>2. /\ order' \in O!Order /\ order'.open = order.open /\ order'.funded = TRUE
        /\ order'.amount_in = order.amount_in /\ order.amount_in \in Nat
    BY <2>1 DEF O!Order
  <2>3. order # None /\ order' # None
    BY <2>1, <2>2, TargetsAssumption
  <2>4. order.open /\ ~ order.funded /\ escrow' = escrow + order.amount_in /\ escrow \in Int
    BY <1>4 DEF O!fund, OrderInv
  <2> QED BY <2>2, <2>3, <2>4 DEF OrderInv, O!Money!Transfer
<1>5. ASSUME NEW out \in Quotes, O!fill(out) PROVE OrderInv' /\ O!Money!Transfer("owner")
  <2>1. /\ order \in O!Order /\ order' = [order EXCEPT !.open = FALSE, !.filled_out = out]
        /\ out >= order.min_amount_out /\ out \in Int
    BY <1>5, TargetsAssumption DEF O!fill, OrderInv
  <2>2. out \in Nat
    BY <2>1 DEF O!Order
  <2>3. /\ order' \in O!Order /\ order'.open = FALSE /\ order.amount_in \in Nat
    BY <2>1, <2>2 DEF O!Order
  <2>4. order # None /\ order' # None
    BY <2>1, <2>3, TargetsAssumption
  <2>5. order.open /\ order.funded /\ escrow' = escrow - order.amount_in /\ escrow \in Int
    BY <1>5 DEF O!fill, O!ensure_fillable, OrderInv
  <2> QED BY <2>3, <2>4, <2>5 DEF OrderInv, O!Money!Transfer
<1>6. ASSUME O!cancel PROVE OrderInv' /\ O!Money!Transfer("owner")
  <2>1. order \in O!Order /\ order' = [order EXCEPT !.open = FALSE]
    BY <1>6 DEF O!cancel, OrderInv
  <2>2. /\ order' \in O!Order /\ order'.open = FALSE /\ order.amount_in \in Nat
        /\ order.funded \in BOOLEAN
    BY <2>1 DEF O!Order
  <2>3. order # None /\ order' # None
    BY <2>1, <2>2, TargetsAssumption
  <2>4. /\ order.open /\ escrow \in Int
        /\ escrow' = escrow - (IF order.funded THEN order.amount_in ELSE 0)
    BY <1>6 DEF O!cancel, OrderInv
  <2> QED BY <2>2, <2>3, <2>4 DEF OrderInv, O!Money!Transfer
<1> QED BY <1>1, <1>2, <1>3, <1>4, <1>5, <1>6, OneContract DEF O!Next

\* No more vests than the total.
LEMMA VestedBound ==
  ASSUME VestingInv, NEW b \in Beneficiaries, schedules[b] # None, V!vested_amount(b) # None
  PROVE  V!vested_amount(b) \in Nat /\ V!vested_amount(b) <= schedules[b].total_amount
<1> DEFINE s == schedules[b]
           elapsed == V!SatSub(now, s.start_time)
<1>1. /\ s.total_amount \in Nat /\ s.start_time \in Nat /\ s.cliff_duration \in Nat
      /\ s.total_duration \in Nat \ {0} /\ now \in Nat
  BY SameWidth, TargetsAssumption DEF VestingInv, V!VestingSchedule, U64
<1>2. CASE /\ ~ (s.start_time + s.cliff_duration > U64Max) /\ ~ (now < s.start_time + s.cliff_duration)
           /\ ~ (s.start_time + s.total_duration > U64Max) /\ ~ (now >= s.start_time + s.total_duration)
  <2>1. elapsed \in Nat /\ elapsed <= s.total_duration
    BY <1>1, <1>2 DEF V!SatSub
  <2>2. V!vested_amount(b) = (s.total_amount * elapsed) \div s.total_duration
    BY <1>2 DEF V!vested_amount
  <2> HIDE DEF s, elapsed
  <2>3. /\ (s.total_amount * elapsed) \div s.total_duration \in Nat
        /\ (s.total_amount * elapsed) \div s.total_duration <= s.total_amount
    BY <1>1, <2>1, PartOfTotal
  <2> QED BY <2>2, <2>3 DEF s
<1>3. CASE ~ /\ ~ (s.start_time + s.cliff_duration > U64Max) /\ ~ (now < s.start_time + s.cliff_duration)
             /\ ~ (s.start_time + s.total_duration > U64Max) /\ ~ (now >= s.start_time + s.total_duration)
  BY <1>1, <1>3 DEF V!vested_amount
<1> QED BY <1>2, <1>3

\* A schedule that changes with the pool is a transfer of its beneficiary.
LEMMA ScheduleTransfer ==
  ASSUME VestingInv, NEW b \in Beneficiaries, NEW new, new # None,
         schedules' = [schedules EXCEPT ![b] = new],
         new.total_amount - new.released_amount \in Nat,
         new.total_amount - new.released_amount = VestingAccount[b] + pool' - pool
  PROVE  V!Money!Transfer(b)
<1>1. VestingAccount' = [VestingAccount EXCEPT ![b] = new.total_amount - new.released_amount]
  BY DEF VestingAccount, VestingInv
<1>2. VestingAccount[b] + pool' - pool >= 0
  OBVIOUS
<1>3. VestingAccount' = [VestingAccount EXCEPT ![b] = @ + pool' - pool]
  BY <1>1
<1> QED BY <1>2, <1>3 DEF V!Money!Transfer, VestingAccount

\* A step of the vesting contract, as a step of its escrow.
LEMMA VestingStep ==
  ASSUME VestingInv, [Next]_vars
  PROVE  /\ VestingInv'
         /\ (\E b \in Beneficiaries : V!Money!Transfer(b)) \/ UNCHANGED <<pool, VestingAccount>>
<1>1. now' \in U64
  BY OneContract, ClockStep DEF VestingInv
<1>2. CASE UNCHANGED vesting
  BY <1>1, <1>2 DEF vesting, VestingInv, VestingAccount
<1>3. CASE V!constructor
  BY <1>1, <1>3 DEF V!constructor, VestingInv, VestingAccount
<1>4. ASSUME NEW b \in Beneficiaries, NEW p \in Schedules, V!create_schedule(b, p)
      PROVE  VestingInv' /\ V!Money!Transfer(b)
  <2> DEFINE new == [total_amount |-> p.total_amount, released_amount |-> 0,
                     start_time |-> p.start_time, cliff_duration |-> p.cliff_duration,
                     total_duration |-> p.total_duration]
  <2>1. /\ p.total_amount \in Nat \ {0} /\ p.start_time \in U64 /\ p.cliff_duration \in U64
        /\ p.total_duration \in U64 \ {0}
    BY <1>4, TargetsAssumption DEF V!create_schedule
  <2>2. /\ new \in V!VestingSchedule /\ new.total_amount = p.total_amount
        /\ new.released_amount = 0
    BY <2>1, SameWidth DEF V!VestingSchedule
  <2>3. /\ schedules[b] = None /\ schedules' = [schedules EXCEPT ![b] = new]
        /\ pool' = pool + p.total_amount
    BY <1>4 DEF V!create_schedule
  <2> HIDE DEF new
  <2>4. new # None
    BY <2>2, TargetsAssumption
  <2>5. VestingInv'
    BY <1>1, <2>1, <2>2, <2>3 DEF VestingInv
  <2>6. VestingAccount[b] = 0
    BY <2>3 DEF VestingAccount
  <2>7. new.total_amount - new.released_amount = p.total_amount /\ p.total_amount \in Nat
    BY <2>1, <2>2
  <2>8. p.total_amount = VestingAccount[b] + pool' - pool
    BY <2>1, <2>3, <2>6 DEF VestingInv
  <2>9. V!Money!Transfer(b)
    BY <2>3, <2>4, <2>7, <2>8, ScheduleTransfer, Zenon
  <2> QED BY <2>5, <2>9
<1>5. ASSUME NEW b \in Beneficiaries, V!release_vested(b)
      PROVE  VestingInv' /\ V!Money!Transfer(b)
  <2> DEFINE s == schedules[b]
             amount == V!releasable_amount(b)
             sum == s.released_amount + amount
             new == [s EXCEPT !.released_amount = sum]
  <2>1. s # None /\ s \in V!VestingSchedule
    BY <1>5 DEF V!release_vested, VestingInv
  <2>2. /\ V!vested_amount(b) # None /\ amount = V!vested_amount(b) - s.released_amount
    BY <1>5, <2>1 DEF V!release_vested, V!should_run_for, V!releasable_amount
  <2>3. /\ s.released_amount \in Nat /\ s.total_amount \in Nat
    BY <2>1 DEF V!VestingSchedule
  <2>4. amount \in Int /\ sum \in Nat /\ sum <= s.total_amount
    BY <2>1, <2>2, <2>3, VestedBound
  <2>5. schedules' = [schedules EXCEPT ![b] = new] /\ pool' = pool - amount
    BY <1>5 DEF V!release_vested
  <2> HIDE DEF amount, sum
  <2>6. new \in V!VestingSchedule /\ new.total_amount = s.total_amount /\ new.released_amount = sum
    BY <2>1, <2>4 DEF V!VestingSchedule
  <2> HIDE DEF new
  <2>7. new # None
    BY <2>6, TargetsAssumption
  <2>8. VestingInv'
    BY <1>1, <2>4, <2>5, <2>6 DEF VestingInv
  <2>9. VestingAccount[b] = s.total_amount - s.released_amount
    BY <2>1 DEF VestingAccount
  <2>10. /\ s.total_amount - sum \in Nat
         /\ s.total_amount - sum = VestingAccount[b] + pool' - pool
    BY <2>3, <2>4, <2>5, <2>9 DEF VestingInv, sum
  <2>11. /\ new.total_amount - new.released_amount \in Nat
         /\ new.total_amount - new.released_amount = VestingAccount[b] + pool' - pool
    BY <2>6, <2>10
  <2>12. V!Money!Transfer(b)
    BY <2>5, <2>7, <2>11, ScheduleTransfer, Zenon
  <2> QED BY <2>8, <2>12
<1> QED BY <1>1, <1>2, <1>3, <1>4, <1>5, OneContract DEF V!Next

\* LimitOrder and Vesting: they hold what they owe, and every call moves the money
\* of one party alone and no more than is theirs.
THEOREM MoneySafe == Spec => MoneyStaysWithItsOwner
<1>1. Init => O!Money!Init /\ V!Money!Init /\ OrderInv /\ VestingInv
  BY TargetsAssumption
     DEF Init, O!Init, V!Init, O!Money!Init, V!Money!Init, OrderInv, VestingInv, U64
<1>2. OrderInv /\ VestingInv /\ [Next]_vars => (OrderInv /\ VestingInv)'
  BY OrderStep, VestingStep
<1>3. OrderInv /\ [Next]_vars => [O!Money!Next]_<<escrow, OrderAccount>>
  BY OrderStep DEF O!Money!Next
<1>4. VestingInv /\ [Next]_vars => [V!Money!Next]_<<pool, VestingAccount>>
  BY VestingStep DEF V!Money!Next
<1> QED
  BY <1>1, <1>2, <1>3, <1>4, PTL
     DEF Spec, MoneyStaysWithItsOwner, O!Money!Spec, V!Money!Spec, OrderAccount, VestingAccount

-----------------------------------------------------------------------------
(* The vault, the order, the subscriptions and the vesting contract implement *)
(* DueTarget.                                                                 *)

\* Answers and counts, as the four modules map them.
DcaDue == [t \in {"swap"} |-> D!should_run]
DcaRuns == [t \in {"swap"} |-> Len(fills)]
OrderDue == [t \in {"fill"} |-> O!should_run]
OrderRuns == [t \in {"fill"} |-> IF O!Filled THEN 1 ELSE 0]

\* A step of the vault: a tranche that was due, after which none is, or no run.
LEMMA DcaRunStep ==
  ASSUME DcaInv, [Next]_vars
  PROVE  D!Target!Next \/ UNCHANGED <<DcaDue, DcaRuns>>
<1>1. CASE UNCHANGED fills
  <2>1. DcaRuns' = DcaRuns
    BY <1>1 DEF DcaRuns
  <2>2. DcaDue' \in [{"swap"} -> BOOLEAN]
    BY DEF DcaDue, D!should_run
  <2> QED BY <2>1, <2>2 DEF D!Target!Next, D!Target!Change, DcaDue, DcaRuns
<1>2. ASSUME NEW out \in Outs, D!swap_tranche(out), UNCHANGED now PROVE D!Target!Run("swap")
  <2>1. D!should_run
    BY <1>2 DEF D!swap_tranche, D!should_run
  <2>2. Len(fills') = Len(fills) + 1
    <3>1. fills \in Seq(Tranche) /\ [at |-> now, out |-> out] \in Tranche
      BY <1>2, TargetsAssumption DEF DcaInv, D!swap_tranche, Tranche
    <3> QED BY <1>2, <3>1 DEF D!swap_tranche
  <2>3. ~ D!should_run'
    <3>1. plan \in D!DcaPlan /\ now \in Nat
      BY <1>2 DEF D!swap_tranche, DcaInv, U64
    <3>2. plan'.next_swap_at = now + plan.interval /\ plan.interval \in Nat \ {0}
      BY <1>2, <3>1, SameWidth DEF D!swap_tranche, D!DcaPlan, U64
    <3> QED BY <1>2, <3>1, <3>2 DEF D!should_run, D!ensure_due
  <2>4. DcaDue["swap"] /\ DcaDue' = [DcaDue EXCEPT !["swap"] = FALSE]
    <3>1. D!should_run' = FALSE
      BY <2>3, Zenon DEF D!should_run
    <3> QED BY <2>1, <3>1 DEF DcaDue
  <2>5. DcaRuns' = [DcaRuns EXCEPT !["swap"] = @ + 1]
    BY <2>2 DEF DcaRuns
  <2> QED BY <2>4, <2>5 DEF D!Target!Run, DcaDue, DcaRuns
<1> QED
  BY <1>1, <1>2, OneContract
     DEF D!Next, dca, D!constructor, D!deposit, D!cancel, DcaInv, D!Target!Next

\* An order that is open has not been filled.
Unfilled == order # None /\ order.open => order.filled_out = 0

\* A step of the order: the one fill, which was due, or no run.
LEMMA OrderRunStep ==
  ASSUME OrderInv, Unfilled, [Next]_vars
  PROVE  Unfilled' /\ (O!Target!Next \/ UNCHANGED <<OrderDue, OrderRuns>>)
<1>1. ASSUME O!Filled' = O!Filled PROVE O!Target!Next
  <2>1. OrderRuns' = OrderRuns
    BY <1>1 DEF OrderRuns
  <2>2. OrderDue' \in [{"fill"} -> BOOLEAN]
    BY DEF OrderDue, O!should_run
  <2> QED BY <2>1, <2>2 DEF O!Target!Next, O!Target!Change, OrderDue, OrderRuns
<1>2. CASE order' = order
  BY <1>1, <1>2 DEF O!Filled, Unfilled
<1>3. ASSUME NEW o \in Orders, O!constructor(o) PROVE Unfilled' /\ O!Filled' = O!Filled
  BY <1>3 DEF O!constructor, Unfilled, O!Filled
<1>4. ASSUME O!fund \/ O!cancel PROVE Unfilled' /\ O!Filled' = O!Filled
  <2>1. /\ order \in O!Order
        /\ order' = [order EXCEPT !.funded = TRUE] \/ order' = [order EXCEPT !.open = FALSE]
    BY <1>4 DEF O!fund, O!cancel, OrderInv
  <2>2. /\ order' \in O!Order /\ order'.filled_out = order.filled_out
        /\ order'.open => order.open
    BY <2>1 DEF O!Order
  <2>3. order # None /\ order' # None
    BY <2>1, <2>2, TargetsAssumption
  <2> QED BY <2>2, <2>3 DEF Unfilled, O!Filled
<1>5. ASSUME NEW out \in Quotes, O!fill(out) PROVE Unfilled' /\ O!Target!Run("fill")
  <2>1. /\ order \in O!Order /\ order' = [order EXCEPT !.open = FALSE, !.filled_out = out]
        /\ out >= order.min_amount_out /\ out \in Int
    BY <1>5, TargetsAssumption DEF O!fill, OrderInv
  <2>2. out \in Nat \ {0}
    BY <2>1 DEF O!Order
  <2>3. order' \in O!Order /\ order'.open = FALSE /\ order'.filled_out = out
    BY <2>1, <2>2 DEF O!Order
  <2>4. order # None /\ order' # None /\ order.filled_out = 0
    BY <1>5, <2>1, <2>3, TargetsAssumption DEF Unfilled, O!fill, O!ensure_fillable
  <2>5. O!should_run /\ O!should_run' = FALSE
    BY <1>5, <2>3 DEF O!should_run, O!fill, O!ensure_fillable
  <2>6. O!Filled = FALSE /\ O!Filled' = TRUE
    BY <2>2, <2>3, <2>4 DEF O!Filled
  <2>7. OrderDue["fill"] /\ OrderDue' = [OrderDue EXCEPT !["fill"] = FALSE]
    BY <2>5 DEF OrderDue
  <2>8. OrderRuns' = [OrderRuns EXCEPT !["fill"] = @ + 1]
    BY <2>6 DEF OrderRuns
  <2>9. O!Target!Run("fill")
    BY <2>7, <2>8 DEF O!Target!Run, OrderDue, OrderRuns
  <2>10. Unfilled'
    BY <2>3 DEF Unfilled
  <2> QED BY <2>9, <2>10
<1> QED
  BY <1>1, <1>2, <1>3, <1>4, <1>5, OneContract
     DEF O!Next, limit, O!MarketMoves, O!Target!Next

\* Answers and counts of the subscriptions and of the vesting contract.
BillingDue == [s \in Subscribers |-> S!is_billable(s)]
BillingRuns ==
    [s \in Subscribers |->
        IF billing = None THEN 0 ELSE (FirstWallet - wallet[s]) \div billing.price]
VestingDue == [b \in Beneficiaries |-> V!should_run_for(b)]

\* Wallets only pay the plan's price, and nothing before there is a plan.
WalletInv ==
    /\ allowance \in [Subscribers -> Int]
    /\ wallet \in [Subscribers -> 0..FirstWallet]
    /\ billing = None => \A s \in Subscribers : wallet[s] = FirstWallet

\* What a charge does to the subscriber's answer and to the others'.
LEMMA ChargeUsesUp ==
  ASSUME BillingInv, WalletInv, NEW s \in Subscribers, S!charge(s), UNCHANGED now
  PROVE  BillingDue[s] /\ BillingDue' = [BillingDue EXCEPT ![s] = FALSE]
<1> DEFINE sub == subs[s]
           period == PeriodOf(sub.start, billing.period, now)
           count == sub.payments + 1
           new == [sub EXCEPT !.last_charged = period, !.payments = count]
<1>1. S!is_billable(s)
  BY DEF S!charge, S!is_billable
<1>2. /\ billing \in S!Plan /\ billing' = billing /\ sub \in S!SubscriptionRecord /\ now \in U64
      /\ sub.start \in U64 /\ billing.period \in U64 \ {0}
  BY SameWidth DEF BillingInv, S!charge, S!SubscriptionRecord, S!Plan
<1>3. period \in U64
  BY <1>2, PeriodType
<1>4. /\ subs' = [subs EXCEPT ![s] = new]
      /\ allowance' = [allowance EXCEPT ![s] = @ - billing.price]
  BY <1>2, SamePeriod DEF S!charge, BillingInv
<1> HIDE DEF period, count
<1>5. new.start = sub.start /\ new.last_charged = period
  BY <1>2 DEF S!SubscriptionRecord
<1> HIDE DEF new
<1>6. subs'[s] = new
  BY <1>4 DEF BillingInv
<1>7. S!is_billable(s)' = FALSE
  <2>1. S!current_period(subs[s])' = period
    BY <1>2, <1>5, <1>6 DEF S!current_period, S!period_at, S!SatSub, SatSub, PeriodOf, period
  <2>2. period # None /\ ~ (period < period)
    BY <1>3, TargetsAssumption DEF U64
  <2>3. ~ S!NotCharged(s)'
    BY <1>5, <1>6, <2>1, <2>2 DEF S!NotCharged
  <2> QED BY <2>3 DEF S!is_billable
<1>8. ASSUME NEW x \in Subscribers \ {s} PROVE S!is_billable(x)' = S!is_billable(x)
  <2>1. subs'[x] = subs[x] /\ allowance'[x] = allowance[x]
    BY <1>4 DEF BillingInv, WalletInv
  <2> QED
    BY <1>2, <2>1
       DEF S!is_billable, S!NotCharged, S!current_period, S!period_at, S!SatSub
<1> QED BY <1>1, <1>7, <1>8 DEF BillingDue

\* A step of the subscriptions: one charge that was due, or no run.
LEMMA BillingRunStep ==
  ASSUME BillingInv, WalletInv, [Next]_vars
  PROVE  WalletInv' /\ S!Target!Next
<1>1. ASSUME BillingRuns' = BillingRuns PROVE S!Target!Next
  <2>1. BillingDue' \in [Subscribers -> BOOLEAN]
    BY DEF BillingDue, S!is_billable
  <2> QED BY <1>1, <2>1 DEF S!Target!Next, S!Target!Change, BillingDue, BillingRuns
<1>2. CASE /\ billing' = billing /\ wallet' = wallet
           /\ allowance' = allowance \/ \E s \in Subscribers, a \in Allowances : S!Approve(s, a)
  <2>1. allowance' \in [Subscribers -> Int]
    BY <1>2, TargetsAssumption DEF WalletInv, S!Approve
  <2> QED BY <1>1, <1>2, <2>1 DEF WalletInv, BillingRuns
<1>3. ASSUME NEW p \in SubscriptionPlans, S!constructor(p)
      PROVE  WalletInv' /\ BillingRuns' = BillingRuns
  <2>1. /\ billing = None /\ billing' = p /\ wallet' = wallet /\ allowance' = allowance
        /\ p.price \in Nat \ {0} /\ p \in S!Plan
    BY <1>3, TargetsAssumption, SameWidth DEF S!constructor, S!Plan
  <2>2. billing' # None
    BY <2>1, TargetsAssumption
  <2>3. \A s \in Subscribers : (FirstWallet - wallet'[s]) \div billing'.price = 0
    BY <2>1, TargetsAssumption DEF WalletInv
  <2> QED BY <2>1, <2>2, <2>3 DEF WalletInv, BillingRuns
<1>4. ASSUME NEW s \in Subscribers, S!charge(s), UNCHANGED now
      PROVE  WalletInv' /\ S!Target!Run(s)
  <2> DEFINE paid == FirstWallet - wallet[s]
             price == billing.price
  <2>1. /\ billing # None /\ billing' = billing /\ price \in Nat \ {0}
        /\ wallet[s] \in Nat /\ paid \in Nat /\ wallet[s] >= price
        /\ wallet' = [wallet EXCEPT ![s] = @ - price]
        /\ allowance' = [allowance EXCEPT ![s] = @ - price]
    BY <1>4, TargetsAssumption DEF BillingInv, WalletInv, S!charge, S!Plan
  <2>2. WalletInv'
    BY <2>1, TargetsAssumption DEF WalletInv
  <2>3. FirstWallet - wallet'[s] = paid + price
    BY <2>1, TargetsAssumption DEF WalletInv
  <2> HIDE DEF paid, price
  <2>4. (FirstWallet - wallet'[s]) \div price = paid \div price + 1
    BY <2>1, <2>3, OneMore
  <2>5. \A x \in Subscribers \ {s} : wallet'[x] = wallet[x]
    BY <2>1 DEF WalletInv
  <2>6. BillingRuns' = [BillingRuns EXCEPT ![s] = @ + 1]
    <3>1. BillingRuns = [x \in Subscribers |-> (FirstWallet - wallet[x]) \div price]
      BY <2>1 DEF BillingRuns, price
    <3>2. BillingRuns' = [x \in Subscribers |-> (FirstWallet - wallet'[x]) \div price]
      BY <2>1 DEF BillingRuns, price
    <3>3. BillingRuns[s] = paid \div price
      BY <3>1 DEF paid
    <3> HIDE DEF BillingRuns
    <3> QED BY <2>4, <2>5, <3>1, <3>2, <3>3
  <2>7. S!Target!Run(s)
    BY <1>4, <2>6, ChargeUsesUp DEF S!Target!Run, BillingRuns, BillingDue
  <2> QED BY <2>2, <2>7
<1>5. CASE UNCHANGED subscription
  BY <1>2, <1>5 DEF subscription
<1>6. ASSUME NEW s \in Subscribers,
             \/ S!subscribe(s) \/ S!cancel(s) \/ \E j \in Jobs : S!bind_job(s, j)
             \/ \E a \in Allowances : S!Approve(s, a)
      PROVE  WalletInv' /\ S!Target!Next
  BY <1>2, <1>6 DEF S!subscribe, S!cancel, S!bind_job, S!Approve
<1> QED BY <1>1, <1>3, <1>4, <1>5, <1>6, OneContract DEF S!Next, S!Target!Next

\* A release leaves nothing to release, and what others can release alone.
LEMMA ReleaseUsesUp ==
  ASSUME VestingInv, NEW b \in Beneficiaries, V!release_vested(b), UNCHANGED now
  PROVE  VestingDue[b] /\ VestingDue' = [VestingDue EXCEPT ![b] = FALSE]
<1> DEFINE s == schedules[b]
           vested == V!vested_amount(b)
           sum == s.released_amount + V!releasable_amount(b)
           new == [s EXCEPT !.released_amount = sum]
<1>1. s # None /\ s \in V!VestingSchedule /\ V!should_run_for(b)
  BY DEF V!release_vested, VestingInv
<1>2. vested # None /\ V!releasable_amount(b) = vested - s.released_amount
  BY <1>1 DEF V!should_run_for, V!releasable_amount
<1>3. s.released_amount \in Nat /\ vested \in Nat
  BY <1>1, <1>2, VestedBound DEF V!VestingSchedule
<1>4. sum = vested
  BY <1>2, <1>3
<1>5. schedules' = [schedules EXCEPT ![b] = new]
  BY DEF V!release_vested
<1> HIDE DEF vested, sum
<1>6. /\ new \in V!VestingSchedule /\ new.released_amount = vested
      /\ new.total_amount = s.total_amount /\ new.start_time = s.start_time
      /\ new.cliff_duration = s.cliff_duration /\ new.total_duration = s.total_duration
  BY <1>1, <1>3, <1>4 DEF V!VestingSchedule
<1> HIDE DEF new
<1>7. schedules'[b] = new /\ new # None
  BY <1>5, <1>6, TargetsAssumption DEF VestingInv
<1>8. V!vested_amount(b)' = vested
  BY <1>1, <1>6, <1>7 DEF V!vested_amount, V!SatSub, vested
<1>9. V!releasable_amount(b)' = 0
  BY <1>2, <1>3, <1>6, <1>7, <1>8 DEF V!releasable_amount
<1>10. V!should_run_for(b)' = FALSE
  BY <1>9 DEF V!should_run_for
<1>11. ASSUME NEW x \in Beneficiaries \ {b} PROVE V!should_run_for(x)' = V!should_run_for(x)
  <2>1. schedules'[x] = schedules[x]
    BY <1>5 DEF VestingInv
  <2> QED BY <2>1 DEF V!should_run_for, V!releasable_amount, V!vested_amount, V!SatSub
<1> QED BY <1>1, <1>10, <1>11 DEF VestingDue

\* A step of the vesting contract: one release that was due, or no run.
LEMMA VestingRunStep ==
  ASSUME VestingInv, [Next]_vars
  PROVE  V!Target!Next
<1>1. CASE UNCHANGED releases
  <2>1. VestingDue' \in [Beneficiaries -> BOOLEAN]
    BY DEF VestingDue, V!should_run_for
  <2> QED BY <1>1, <2>1 DEF V!Target!Next, V!Target!Change, VestingDue
<1>2. ASSUME NEW b \in Beneficiaries, V!release_vested(b), UNCHANGED now
      PROVE  V!Target!Run(b)
  BY <1>2, ReleaseUsesUp DEF V!release_vested, V!Target!Run, VestingDue
<1> QED
  BY <1>1, <1>2, OneContract
     DEF V!Next, vesting, V!constructor, V!create_schedule, V!Target!Next

\* Each of the four contracts runs only what its should_run called due, and a
\* run uses up its own answer and nobody else's.
THEOREM DueSafe == Spec => RunsOnlyWhenDue
<1> DEFINE Inv == DcaInv /\ OrderInv /\ Unfilled /\ BillingInv /\ WalletInv /\ VestingInv
<1>1. Init => Inv
  <2>1. Init => DcaInv /\ BillingInv
    BY TargetsAssumption
       DEF Init, D!Init, S!Init, DcaInv, BillingInv, ChargesOrdered, U64, D!TranchesKeepThePlan
  <2>2. Init => OrderInv /\ Unfilled /\ VestingInv /\ WalletInv
    BY TargetsAssumption
       DEF Init, O!Init, V!Init, S!Init, OrderInv, Unfilled, VestingInv, WalletInv, U64
  <2> QED BY <2>1, <2>2
<1>2. Init => D!Target!Init /\ O!Target!Init /\ S!Target!Init /\ V!Target!Init
  <2>1. Init => D!Target!Init /\ O!Target!Init
    BY DEF Init, D!Init, O!Init, D!Target!Init, O!Target!Init, D!should_run, D!ensure_due,
           O!should_run, O!ensure_fillable, O!Filled
  <2>2. Init => S!Target!Init
    BY DEF Init, S!Init, S!Target!Init, S!is_billable
  <2>3. Init => V!Target!Init
    <3> SUFFICES ASSUME Init PROVE V!Target!Init
      OBVIOUS
    <3>1. \A b \in Beneficiaries : V!releasable_amount(b) = 0
      <4>1. 0 # None
        BY TargetsAssumption DEF U64
      <4>2. \A b \in Beneficiaries : schedules[b] = None /\ V!vested_amount(b) = 0
        BY DEF Init, V!Init, V!vested_amount
      <4> QED BY <4>1, <4>2 DEF V!releasable_amount
    <3>2. \A b \in Beneficiaries : V!should_run_for(b) = FALSE
      BY <3>1 DEF V!should_run_for
    <3> QED BY <3>2 DEF Init, V!Init, V!Target!Init
  <2> QED BY <2>1, <2>2, <2>3
<1>3. Inv /\ [Next]_vars => Inv'
  BY DcaStep, OrderStep, OrderRunStep, BillingStep, BillingRunStep, VestingStep
<1>4. Inv /\ [Next]_vars => /\ [D!Target!Next]_<<DcaDue, DcaRuns>>
                            /\ [O!Target!Next]_<<OrderDue, OrderRuns>>
                            /\ [S!Target!Next]_<<BillingDue, BillingRuns>>
                            /\ [V!Target!Next]_<<VestingDue, releases>>
  BY DcaRunStep, OrderRunStep, BillingRunStep, VestingRunStep
<1> QED
  BY <1>1, <1>2, <1>3, <1>4, PTL
     DEF Spec, RunsOnlyWhenDue, D!Target!Spec, O!Target!Spec, S!Target!Spec, V!Target!Spec,
         DcaDue, DcaRuns, OrderDue, OrderRuns, BillingDue, BillingRuns, VestingDue

-----------------------------------------------------------------------------
(* Entries kept alive.  NothingArchived is not inductive: an entry lives      *)
(* until the next run because it had a whole Gap left at the last one.        *)

\* An entry that lives a whole Gap beyond the last run.
Lasting(e) == live_until[e] \in Nat /\ live_until[e] >= last_run + Gap

\* Types; a stored key is in the index, and every entry looked after is lasting.
LifeInv ==
    /\ now \in Nat /\ last_run \in Nat /\ kept \in BOOLEAN
    /\ index \in Seq(Keys)
    /\ live_until \in [L!Entries -> Nat \cup {None}]
    /\ guard \in Guards \cup {None}
    /\ ~ (kept /\ guard # None)
    /\ kept \/ guard # None => last_run <= now /\ now <= last_run + Gap
    /\ \A e \in Keys : live_until[e] # None => kept /\ L!Indexed(e) /\ Lasting(e)
    /\ kept => Lasting("instance")
    /\ \A c \in Contracts : live_until[c] \in Nat
    /\ guard # None => \A c \in Contracts : Lasting(c)

\* extend_ttl never shortens a life.
LEMMA ExtendedLonger ==
  ASSUME NEW e, live_until[e] \in Nat, now \in Nat, NEW th \in Nat, NEW ext \in Nat
  PROVE  /\ L!Extended(e, th, ext) \in Nat
         /\ L!Extended(e, th, ext) >= live_until[e]
         /\ (Gap <= th /\ th <= ext) => L!Extended(e, th, ext) >= now + Gap
  BY LifetimesAssumption DEF L!Extended

\* The job's runs, and the calls of others in between.
LEMMA LifeStep ==
  ASSUME LifeInv, [Next]_vars
  PROVE  LifeInv'
<1> USE LifetimesAssumption
<1>0. /\ Gap \in Nat /\ THRESHOLD \in Nat /\ EXTEND_TO \in Nat /\ MIN_TTL \in Nat
      /\ MaxTtl \in Nat
  OBVIOUS
<1>1. CASE L!constructor /\ UNCHANGED now
  <2>1. /\ ~ kept /\ guard = None /\ kept' /\ last_run' = now /\ UNCHANGED <<index, guard>>
        /\ live_until' = [live_until EXCEPT !["instance"] = now + MIN_TTL]
    BY <1>1 DEF L!constructor
  <2>2. "instance" \in L!Entries /\ Keys \subseteq L!Entries /\ Contracts \subseteq L!Entries
    BY DEF L!Entries
  <2>3. \A e \in Keys : live_until'[e] = None
    BY <2>1, <2>2 DEF LifeInv
  <2>4. \A c \in Contracts : live_until'[c] \in Nat
    BY <2>1, <2>2 DEF LifeInv
  <2>5. live_until'["instance"] = now + MIN_TTL
    BY <2>1, <2>2 DEF LifeInv
  <2>6. live_until' \in [L!Entries -> Nat \cup {None}]
    BY <1>0, <2>1, <2>2 DEF LifeInv
  <2> QED BY <1>0, <1>1, <2>1, <2>3, <2>4, <2>5, <2>6 DEF LifeInv, Lasting
<1>2. ASSUME NEW key \in Keys, L!put(key), UNCHANGED now
      PROVE  LifeInv'
  <2> DEFINE start == IF live_until[key] = None THEN MIN_TTL ELSE live_until[key] - now
             life == now + (IF start <= THRESHOLD /\ EXTEND_TO > start THEN EXTEND_TO ELSE start)
  <2>1. /\ kept /\ UNCHANGED <<kept, guard, last_run>>
        /\ live_until[key] # None => live_until[key] >= now
        /\ index' = IF L!Indexed(key) THEN index ELSE Append(index, key)
        /\ live_until' = [live_until EXCEPT ![key] = life]
    BY <1>2 DEF L!put, L!Alive
  <2>2. key \in L!Entries /\ Keys \subseteq L!Entries /\ Contracts \subseteq L!Entries
        /\ key # "instance" /\ key \notin Contracts /\ "instance" \in L!Entries
    BY DEF L!Entries
  <2>3. /\ now \in Nat /\ last_run \in Nat /\ last_run <= now
        /\ live_until[key] # None => live_until[key] \in Nat /\ live_until[key] >= last_run + Gap
    BY <2>1 DEF LifeInv, Lasting
  <2>4. life \in Nat /\ life >= last_run + Gap
    BY <1>0, <2>1, <2>3
  <2> HIDE DEF life
  <2>5. index' \in Seq(Keys) /\ L!Indexed(key)' /\ \A e \in Keys : L!Indexed(e) => L!Indexed(e)'
    <3>1. CASE L!Indexed(key)
      BY <2>1, <3>1 DEF L!Indexed, LifeInv
    <3>2. CASE ~ L!Indexed(key)
      <4>1. /\ index' \in Seq(Keys) /\ Len(index') = Len(index) + 1 /\ Len(index) \in Nat
            /\ index'[Len(index) + 1] = key
            /\ \A i \in 1..Len(index) : index'[i] = index[i]
        BY <2>1, <3>2, Appended DEF LifeInv
      <4>2. 1..Len(index) \subseteq 1..Len(index') /\ Len(index) + 1 \in 1..Len(index')
        BY <4>1
      <4> QED BY <4>1, <4>2 DEF L!Indexed
    <3> QED BY <3>1, <3>2
  <2>6. /\ live_until'[key] = life
        /\ \A e \in L!Entries : e # key => live_until'[e] = live_until[e]
        /\ live_until' \in [L!Entries -> Nat \cup {None}]
    BY <2>1, <2>2, <2>4 DEF LifeInv
  <2>7. ASSUME NEW e \in Keys, live_until'[e] # None
        PROVE  kept' /\ L!Indexed(e)' /\ Lasting(e)'
    <3>1. CASE e = key
      BY <2>1, <2>4, <2>5, <2>6, <3>1 DEF Lasting
    <3>2. CASE e # key
      BY <2>1, <2>2, <2>5, <2>6, <2>7, <3>2 DEF Lasting, LifeInv
    <3> QED BY <3>1, <3>2
  <2>8. Lasting("instance")' /\ \A c \in Contracts : live_until'[c] \in Nat
    BY <2>1, <2>2, <2>6 DEF Lasting, LifeInv
  <2> QED BY <1>2, <2>1, <2>5, <2>6, <2>7, <2>8 DEF LifeInv
<1>3. CASE L!extend_ttl /\ UNCHANGED now
  <2>1. /\ kept /\ guard = None /\ UNCHANGED <<kept, index, guard>> /\ last_run' = now
        /\ live_until' = [e \in L!Entries |->
              IF e = "instance" \/ (L!Indexed(e) /\ live_until[e] # None)
              THEN L!Extended(e, THRESHOLD, EXTEND_TO) ELSE live_until[e]]
    BY <1>3 DEF L!extend_ttl, LifeInv
  <2>2. /\ Keys \subseteq L!Entries /\ Contracts \subseteq L!Entries /\ "instance" \in L!Entries
        /\ now \in Nat
    BY DEF L!Entries, LifeInv
  <2>3. ASSUME NEW e \in L!Entries, live_until[e] \in Nat
        PROVE  /\ live_until'[e] \in Nat /\ live_until'[e] >= live_until[e]
               /\ (e = "instance" \/ L!Indexed(e)) => live_until'[e] >= now + Gap
    <3> DEFINE x == L!Extended(e, THRESHOLD, EXTEND_TO)
    <3>1. x \in Nat /\ x >= live_until[e] /\ x >= now + Gap
      BY <1>0, <2>2, <2>3, ExtendedLonger
    <3>2. live_until'[e] = IF e = "instance" \/ (L!Indexed(e) /\ live_until[e] # None)
                           THEN x ELSE live_until[e]
      BY <2>1
    <3> HIDE DEF x
    <3> QED BY <2>3, <3>1, <3>2
  <2>4. ASSUME NEW e \in L!Entries, live_until[e] = None, e # "instance"
        PROVE  live_until'[e] = None
    BY <2>1, <2>4
  <2>5. live_until["instance"] \in Nat
    BY <2>1 DEF LifeInv, Lasting
  <2>6. ASSUME NEW e \in Keys, live_until'[e] # None
        PROVE  kept' /\ L!Indexed(e)' /\ Lasting(e)'
    <3>1. live_until[e] # None /\ e \in L!Entries
      BY <2>2, <2>4, <2>6
    <3>2. L!Indexed(e) /\ live_until[e] \in Nat
      BY <3>1 DEF LifeInv, Lasting
    <3> QED BY <2>1, <2>3, <3>1, <3>2 DEF Lasting, L!Indexed
  <2>7. live_until' \in [L!Entries -> Nat \cup {None}]
    <3>1. ASSUME NEW e \in L!Entries PROVE live_until'[e] \in Nat \cup {None}
      <4>1. live_until[e] \in Nat \cup {None}
        BY DEF LifeInv
      <4> QED BY <2>3, <2>4, <2>5, <4>1
    <3> QED BY <2>1, <3>1
  <2>8. Lasting("instance")' /\ \A c \in Contracts : live_until'[c] \in Nat
    BY <2>1, <2>2, <2>3, <2>5 DEF Lasting, LifeInv
  <2>9. /\ now' \in Nat /\ last_run' \in Nat /\ last_run' <= now' /\ now' <= last_run' + Gap
        /\ index' \in Seq(Keys) /\ kept' /\ kept' \in BOOLEAN /\ guard' = None
    BY <1>0, <1>3, <2>1, <2>2 DEF LifeInv
  <2> QED BY <2>6, <2>7, <2>8, <2>9 DEF LifeInv
<1>4. ASSUME NEW g \in Guards, L!Guarded(g), UNCHANGED now
      PROVE  LifeInv'
  <2>1. /\ ~ kept /\ guard' = g /\ g # None /\ last_run' = now
        /\ UNCHANGED <<kept, index, live_until>>
        /\ \A c \in Contracts : live_until[c] >= now + Gap
    BY <1>4 DEF L!Guarded
  <2>2. \A e \in Keys : live_until'[e] = None
    BY <2>1 DEF LifeInv
  <2>3. \A c \in Contracts : Lasting(c)'
    BY <2>1 DEF LifeInv, Lasting
  <2> QED BY <1>0, <1>4, <2>1, <2>2, <2>3 DEF LifeInv
<1>5. ASSUME NEW cs \in SUBSET Contracts, NEW th \in Nat, NEW ext \in Nat,
             L!extend_many(cs, th, ext), UNCHANGED now,
             \/ last_run' = last_run
             \/ last_run' = now /\ guard # None /\ cs = Contracts /\ Gap <= th
      PROVE  LifeInv'
  <2> DEFINE cap == L!Capped(ext)
  <2>1. /\ cs # {} => th <= cap
        /\ live_until' = [e \in L!Entries |->
              IF e \in cs THEN L!Extended(e, th, cap) ELSE live_until[e]]
        /\ UNCHANGED <<kept, index, guard>>
    BY <1>5 DEF L!extend_many
  <2>2. cap \in Nat
    BY <1>0 DEF L!Capped
  <2> HIDE DEF cap
  <2>3. /\ Keys \subseteq L!Entries /\ Contracts \subseteq L!Entries /\ "instance" \in L!Entries
        /\ now \in Nat /\ last_run \in Nat
    BY DEF L!Entries, LifeInv
  <2>4. \A e \in Keys \cup {"instance"} : live_until'[e] = live_until[e]
    BY <2>1, <2>3
  <2>5. ASSUME NEW c \in Contracts
        PROVE  /\ live_until'[c] \in Nat /\ live_until'[c] >= live_until[c]
               /\ (c \in cs /\ Gap <= th) => live_until'[c] >= now + Gap
    <3> DEFINE x == L!Extended(c, th, cap)
    <3>1. live_until[c] \in Nat
      BY DEF LifeInv
    <3>2. x \in Nat /\ x >= live_until[c] /\ ((Gap <= th /\ th <= cap) => x >= now + Gap)
      BY <2>2, <2>3, <3>1, ExtendedLonger
    <3>3. live_until'[c] = IF c \in cs THEN x ELSE live_until[c]
      BY <2>1, <2>3
    <3> HIDE DEF x
    <3> QED BY <2>1, <3>1, <3>2, <3>3
  <2>6. live_until' \in [L!Entries -> Nat \cup {None}]
    <3>1. ASSUME NEW e \in L!Entries PROVE live_until'[e] \in Nat \cup {None}
      BY <2>1, <2>5 DEF LifeInv
    <3> QED BY <2>1, <3>1
  <2>7. CASE last_run' = last_run
    <3>1. \A e \in Keys : L!Indexed(e)' <=> L!Indexed(e)
      BY <2>1 DEF L!Indexed
    <3>2. \A e \in Keys \cup {"instance"} : Lasting(e)' <=> Lasting(e)
      BY <2>4, <2>7 DEF Lasting
    <3>3. ASSUME NEW c \in Contracts, Lasting(c) PROVE Lasting(c)'
      BY <1>0, <2>3, <2>5, <2>7, <3>3 DEF Lasting
    <3> QED BY <1>5, <2>1, <2>4, <2>5, <2>6, <2>7, <3>1, <3>2, <3>3 DEF LifeInv
  <2>8. CASE last_run' = now /\ guard # None /\ cs = Contracts /\ Gap <= th
    <3>1. ~ kept
      BY <2>8 DEF LifeInv
    <3>2. \A e \in Keys : live_until'[e] = None
      BY <2>4, <3>1 DEF LifeInv
    <3>3. \A c \in Contracts : Lasting(c)'
      BY <2>5, <2>8 DEF Lasting
    <3>4. /\ now' \in Nat /\ last_run' \in Nat /\ last_run' <= now' /\ now' <= last_run' + Gap
          /\ index' \in Seq(Keys) /\ ~ kept' /\ kept' \in BOOLEAN
          /\ guard' \in Guards \cup {None}
      BY <1>0, <1>5, <2>1, <2>3, <2>8, <3>1 DEF LifeInv
    <3>5. \A c \in Contracts : live_until'[c] \in Nat
      BY <2>5
    <3> QED BY <2>6, <3>2, <3>3, <3>4, <3>5 DEF LifeInv
  <2> QED BY <1>5, <2>7, <2>8
<1>6. CASE L!GuardianRuns /\ UNCHANGED now
  <2>1. guard \in Guards /\ guard # None
    BY <1>6 DEF L!GuardianRuns, LifeInv
  <2> QED BY <1>5, <1>6, <2>1 DEF L!GuardianRuns
<1>7. ASSUME NEW c \in Contracts, NEW g \in Guards, L!AnybodyExtends(c, g), UNCHANGED now
      PROVE  LifeInv'
  BY <1>5, <1>7 DEF L!AnybodyExtends
<1>8. CASE UNCHANGED lifetimes /\ (UNCHANGED now \/ (Tick /\ L!KeeperOnTime))
  <2>1. now' \in Nat /\ now' >= now
    BY <1>8 DEF Tick, LifeInv
  <2>2. kept \/ guard # None => last_run' <= now' /\ now' <= last_run' + Gap
    BY <1>0, <1>8, <2>1 DEF lifetimes, LifeInv, Tick, L!KeeperOnTime
  <2>3. /\ \A e \in Keys : L!Indexed(e)' <=> L!Indexed(e)
        /\ \A e : Lasting(e)' <=> Lasting(e)
    BY <1>8 DEF lifetimes, L!Indexed, Lasting
  <2> QED BY <1>8, <2>1, <2>2, <2>3 DEF lifetimes, LifeInv
<1> QED BY <1>1, <1>2, <1>3, <1>4, <1>6, <1>7, <1>8, OneContract DEF L!Next

\* Lifetimes: whatever is stored between two runs, and whoever extends what,
\* nothing looked after is archived while keepers come once per Gap: with the
\* program's threshold and for every guardian's job whose threshold is a Gap.
THEOREM LivesSafe == Spec => []NothingArchived
<1>1. Init => LifeInv
  <2> SUFFICES ASSUME Init PROVE LifeInv
    OBVIOUS
  <2>1. /\ now = 0 /\ kept = FALSE /\ index = <<>> /\ guard = None /\ last_run = 0
        /\ live_until = [e \in L!Entries |-> IF e \in Contracts THEN EXTEND_TO ELSE None]
    BY DEF Init, L!Init
  <2>2. /\ live_until \in [L!Entries -> Nat \cup {None}]
        /\ \A c \in Contracts : live_until[c] \in Nat
        /\ \A e \in Keys : live_until[e] = None
    BY <2>1, LifetimesAssumption DEF L!Entries
  <2>3. index \in Seq(Keys)
    BY <2>1
  <2> QED BY <2>1, <2>2, <2>3 DEF LifeInv
<1>2. LifeInv /\ [Next]_vars => LifeInv'
  BY LifeStep
<1>3. LifeInv => NothingArchived
  BY LifetimesAssumption
  DEF LifeInv, Lasting, NothingArchived, L!NothingArchived, L!Alive
<1> QED BY <1>1, <1>2, <1>3, PTL DEF Spec

-----------------------------------------------------------------------------
(* Resolvers.  What a composite answers is a recursive function of the set    *)
(* of composites that wait; it is well defined since each turn adds one.      *)

\* The answer of r while the composites in `open` wait, given all answers g.
AnswerOf(g, open, r) ==
    IF r \notin Composites THEN R!Simple(r)
    ELSE /\ r \notin open /\ composite[r] # None
         /\ LET Asked(n) == g[open \cup {r}][composite[r].resolvers[n]]
                All == DOMAIN composite[r].resolvers
            IN  IF composite[r].mode = "All" THEN \A n \in All : Asked(n)
                ELSE \E n \in All : Asked(n)

AnswerRule(g, sets) == g = [open \in sets |-> [r \in R!Names |-> AnswerOf(g, open, r)]]

\* should_run chooses a function that satisfies the rule.
LEMMA ShouldRunUnfold ==
  R!should_run = (CHOOSE g : AnswerRule(g, SUBSET Composites))[{}]
  BY DEF R!should_run, AnswerRule, AnswerOf

\* The waiting sets that leave fewer than n composites to ask.
FewLeft(n) == {open \in SUBSET Composites : Cardinality(Composites \ open) < n}

\* One more waiting leaves one fewer to ask.
LEMMA OneWaitsMore ==
  ASSUME NEW n \in Nat, NEW open \in FewLeft(n + 1), NEW r \in Composites, r \notin open
  PROVE  open \cup {r} \in FewLeft(n)
<1> DEFINE left == Composites \ open
<1>1. IsFiniteSet(left) /\ left \in SUBSET Composites
  BY ResolversAssumption, FS_Subset
<1>2. Cardinality(left) < n + 1
  BY DEF FewLeft
<1>3. Cardinality(left \ {r}) = Cardinality(left) - 1
  BY <1>1, FS_RemoveElement
<1>4. Cardinality(left) \in Nat
  BY <1>1, FS_CardinalityType
<1>5. Composites \ (open \cup {r}) = left \ {r} /\ open \cup {r} \in SUBSET Composites
  BY DEF FewLeft
<1> HIDE DEF left
<1>6. Cardinality(left \ {r}) < n
  BY <1>2, <1>3, <1>4
<1>7. Cardinality(Composites \ (open \cup {r})) < n
  BY <1>5, <1>6, Zenon
<1> QED BY <1>5, <1>7 DEF FewLeft

\* A function that satisfies the rule exists.
LEMMA AnswersExist == \E g : AnswerRule(g, SUBSET Composites)
<1> DEFINE Solved == {n \in Nat : \E g : AnswerRule(g, FewLeft(n))}
<1>1. 0 \in Solved
  <2>1. FewLeft(0) = {}
    <3> SUFFICES ASSUME NEW open \in FewLeft(0) PROVE FALSE
      OBVIOUS
    <3>1. open \in SUBSET Composites /\ Cardinality(Composites \ open) < 0
      BY DEF FewLeft
    <3>2. Cardinality(Composites \ open) \in Nat
      BY ResolversAssumption, FS_Subset, FS_CardinalityType
    <3> QED BY <3>1, <3>2
  <2> DEFINE g == [open \in {} |-> 0]
  <2>2. AnswerRule(g, {})
    BY DEF AnswerRule
  <2> QED BY <2>1, <2>2
<1>2. ASSUME NEW n \in Solved PROVE n + 1 \in Solved
  <2>0. n \in Nat
    OBVIOUS
  <2>1. PICK g : AnswerRule(g, FewLeft(n))
    OBVIOUS
  <2> DEFINE h == [open \in FewLeft(n + 1) |-> [r \in R!Names |-> AnswerOf(g, open, r)]]
  <2>2. ASSUME NEW open \in FewLeft(n) PROVE open \in FewLeft(n + 1)
    <3>1. open \in SUBSET Composites /\ Cardinality(Composites \ open) < n
      BY DEF FewLeft
    <3>2. Cardinality(Composites \ open) \in Nat
      BY ResolversAssumption, FS_Subset, FS_CardinalityType
    <3>3. Cardinality(Composites \ open) < n + 1
      BY <2>0, <3>1, <3>2
    <3> QED BY <3>1, <3>3 DEF FewLeft
  <2>3. ASSUME NEW open \in FewLeft(n) PROVE h[open] = g[open]
    <3>1. g[open] = [r \in R!Names |-> AnswerOf(g, open, r)]
      BY <2>1 DEF AnswerRule
    <3>2. h[open] = [r \in R!Names |-> AnswerOf(g, open, r)]
      BY <2>2
    <3> QED BY <3>1, <3>2
  <2>4. ASSUME NEW open \in FewLeft(n + 1), NEW r \in R!Names
        PROVE  AnswerOf(h, open, r) = AnswerOf(g, open, r)
    <3>1. CASE r \notin Composites \/ r \in open
      BY <3>1 DEF AnswerOf
    <3>2. CASE r \in Composites /\ r \notin open
      <4>1. h[open \cup {r}] = g[open \cup {r}]
        BY <2>0, <2>3, <3>2, OneWaitsMore
      <4> HIDE DEF h
      <4> QED BY <4>1 DEF AnswerOf
    <3> QED BY <3>1, <3>2
  <2>5. h = [open \in FewLeft(n + 1) |-> [r \in R!Names |-> AnswerOf(h, open, r)]]
    <3> DEFINE k == [open \in FewLeft(n + 1) |-> [r \in R!Names |-> AnswerOf(h, open, r)]]
    <3>1. ASSUME NEW open \in FewLeft(n + 1) PROVE h[open] = k[open]
      <4>1. h[open] = [r \in R!Names |-> AnswerOf(g, open, r)]
        OBVIOUS
      <4>2. k[open] = [r \in R!Names |-> AnswerOf(h, open, r)]
        OBVIOUS
      <4> HIDE DEF h, k
      <4> QED BY <2>4, <4>1, <4>2
    <3> QED BY <3>1
  <2>6. AnswerRule(h, FewLeft(n + 1))
    BY <2>5, Zenon DEF AnswerRule
  <2> QED BY <2>0, <2>6
<1> HIDE DEF Solved
<1>3. Solved = Nat
  <2>1. Solved \subseteq Nat
    BY DEF Solved
  <2> QED BY <1>1, <1>2, <2>1, NatRule
<1> DEFINE N == Cardinality(Composites) + 1
<1>4. N \in Nat
  BY ResolversAssumption, FS_CardinalityType
<1>5. FewLeft(N) = SUBSET Composites
  <2> SUFFICES ASSUME NEW open \in SUBSET Composites PROVE Cardinality(Composites \ open) < N
    BY DEF FewLeft
  <2>1. Cardinality(Composites \ open) <= Cardinality(Composites)
        /\ Cardinality(Composites \ open) \in Nat /\ Cardinality(Composites) \in Nat
    BY ResolversAssumption, FS_Subset, FS_CardinalityType
  <2> QED BY <2>1
<1> HIDE DEF N
<1>6. \E g : AnswerRule(g, FewLeft(N))
  BY <1>3, <1>4 DEF Solved
<1> QED BY <1>5, <1>6, Zenon

\* What should_run answers: a simple resolver's own answer, and a composite's
\* from the answers of its parts, of which the simple ones answer for themselves.
LEMMA ShouldRunAnswers ==
  \E g : /\ \A open \in SUBSET Composites, r \in R!Names : g[open][r] = AnswerOf(g, open, r)
         /\ R!should_run = g[{}]
<1> DEFINE g == CHOOSE f : AnswerRule(f, SUBSET Composites)
<1>1. AnswerRule(g, SUBSET Composites)
  BY AnswersExist
<1>2. R!should_run = g[{}]
  BY ShouldRunUnfold
<1> HIDE DEF g
<1>3. ASSUME NEW open \in SUBSET Composites, NEW r \in R!Names
      PROVE  g[open][r] = AnswerOf(g, open, r)
  <2>1. g[open] = [x \in R!Names |-> AnswerOf(g, open, x)]
    BY <1>1 DEF AnswerRule
  <2> QED BY <2>1
<1> QED BY <1>2, <1>3

\* A price is stamped at most Skew ahead of the ledger that heard it.
FeedInv ==
    /\ now \in U64 /\ heard \in Nat /\ heard <= now
    /\ feed # None => feed.timestamp \in Nat /\ feed.timestamp <= heard + Skew

\* Every step keeps that.
LEMMA FeedStep ==
  ASSUME FeedInv, [Next]_vars
  PROVE  FeedInv'
<1>1. now' \in U64 /\ now' >= now /\ now \in Nat
  BY OneContract, ClockStep, TargetsAssumption DEF FeedInv, U64
<1>2. CASE UNCHANGED <<feed, heard>>
  BY <1>1, <1>2, ResolversAssumption DEF FeedInv, U64
<1>3. ASSUME UNCHANGED now, NEW p \in Prices,
             NEW stamp \in R!SatSub(now, Skew)..R!SatAdd(now, Skew), R!FeedAnswers(p, stamp)
      PROVE  FeedInv'
  <2>1. stamp \in Nat /\ stamp <= now + Skew
    BY <1>1, <1>3, ResolversAssumption, TargetsAssumption
    DEF R!SatSub, R!SatAdd, U64
  <2>2. feed'.timestamp = stamp /\ heard' = now
    BY <1>3 DEF R!FeedAnswers
  <2> QED BY <1>1, <1>3, <2>1, <2>2 DEF FeedInv
<1>4. CASE UNCHANGED now /\ R!FeedFails
  BY <1>1, <1>4 DEF FeedInv, R!FeedFails
<1>5. CASE UNCHANGED now /\ R!Settings
  <2>1. UNCHANGED <<feed, heard>>
    BY <1>5
    DEF R!Settings, R!set_condition, R!set_trigger, R!oracle_constructor, R!set_threshold,
        R!update_price, R!set_target, R!set_ready, R!set, R!store, R!PoolMoves
  <2> QED BY <1>2, <2>1
<1>6. CASE UNCHANGED resolvers
  BY <1>2, <1>6 DEF resolvers
<1> QED BY <1>3, <1>4, <1>5, <1>6, OneContract DEF R!Next, R!Feeds

\* A resolver that needs a stalled feed answers false.
LEMMA StalledAnswer ==
  ASSUME FeedInv, NEW age \in Nat, now > heard + age + Skew, NEW r, R!NeedsFeed(r, age)
  PROVE  r \in R!Names /\ r \notin Composites /\ R!Simple(r) = FALSE
<1>1. R!fresh_price(age) = None
  <2>1. CASE feed = None
    BY <2>1 DEF R!fresh_price
  <2>2. CASE feed # None
    <3>1. /\ feed.timestamp \in Nat /\ feed.timestamp <= heard + Skew
          /\ now \in Nat /\ heard \in Nat /\ Skew \in Nat
      BY <2>2, ResolversAssumption DEF FeedInv, U64
    <3>2. R!SatSub(now, feed.timestamp) > age
      BY <3>1 DEF R!SatSub
    <3> QED BY <3>2 DEF R!fresh_price
  <2> QED BY <2>1, <2>2
<1>2. CASE r = "price" /\ condition # None /\ condition.max_age = age
  <2>1. R!PriceAnswer = FALSE
    BY <1>1, <1>2 DEF R!PriceAnswer
  <2>2. R!Simple(r) = R!PriceAnswer
    BY <1>2 DEF R!Simple
  <2> QED BY <1>2, <2>1, <2>2, ResolversAssumption DEF R!Names
<1>3. CASE r = "floor" /\ trigger # None /\ trigger.max_age = age
  <2>1. R!FloorAnswer = FALSE
    BY <1>1, <1>3 DEF R!FloorAnswer
  <2>2. R!Simple(r) = R!FloorAnswer
    BY <1>3 DEF R!Simple
  <2> QED BY <1>3, <2>1, <2>2, ResolversAssumption DEF R!Names
<1> QED BY <1>2, <1>3 DEF R!NeedsFeed

\* Resolvers: a job that depends on a stalled feed stops, through any depth of
\* composites and whatever the feed's clock shows within its skew.
THEOREM FeedsSafe == Spec => []StaleFeedsStaySilent
<1>1. Init => FeedInv
  BY TargetsAssumption DEF Init, R!Init, FeedInv, U64
<1>2. FeedInv /\ [Next]_vars => FeedInv'
  BY FeedStep
<1>3. FeedInv => StaleFeedsStaySilent
  <2> SUFFICES ASSUME FeedInv,
                      NEW age \in {c.max_age : c \in Conditions} \cup {t.max_age : t \in Triggers},
                      now > heard + age + Skew, NEW r \in R!Names
               PROVE  /\ R!NeedsFeed(r, age) => ~ R!should_run[r]
                      /\ (r \in Composites /\ composite[r] # None) =>
                            LET parts == composite[r].resolvers
                                needy == {n \in DOMAIN parts : R!NeedsFeed(parts[n], age)}
                            IN  (IF composite[r].mode = "All" THEN needy # {}
                                 ELSE needy = DOMAIN parts) => ~ R!should_run[r]
    BY DEF StaleFeedsStaySilent, R!StaleFeedsStaySilent
  <2>0. age \in Nat
    BY TargetsAssumption DEF R!Condition, R!Trigger, R!U64
  <2>1. PICK g : /\ \A open \in SUBSET Composites, x \in R!Names :
                        g[open][x] = AnswerOf(g, open, x)
                 /\ R!should_run = g[{}]
    BY ShouldRunAnswers
  <2>2. ASSUME NEW open \in SUBSET Composites, NEW x, R!NeedsFeed(x, age)
        PROVE  g[open][x] = FALSE
    <3>1. x \in R!Names /\ x \notin Composites /\ R!Simple(x) = FALSE
      BY <2>0, <2>2, StalledAnswer
    <3> QED BY <2>1, <3>1 DEF AnswerOf
  <2>3. R!NeedsFeed(r, age) => ~ R!should_run[r]
    BY <2>1, <2>2
  <2>4. ASSUME r \in Composites, composite[r] # None,
               IF composite[r].mode = "All"
               THEN {n \in DOMAIN composite[r].resolvers :
                        R!NeedsFeed(composite[r].resolvers[n], age)} # {}
               ELSE {n \in DOMAIN composite[r].resolvers :
                        R!NeedsFeed(composite[r].resolvers[n], age)}
                    = DOMAIN composite[r].resolvers
        PROVE  ~ R!should_run[r]
    <3>1. R!should_run[r] = AnswerOf(g, {}, r)
      BY <2>1
    <3>2. {r} \in SUBSET Composites /\ {} \cup {r} = {r}
      BY <2>4
    <3>3. CASE composite[r].mode = "All"
      <4>1. PICK n \in DOMAIN composite[r].resolvers :
                    R!NeedsFeed(composite[r].resolvers[n], age)
        BY <2>4, <3>3
      <4>2. g[{} \cup {r}][composite[r].resolvers[n]] = FALSE
        BY <2>2, <3>2, <4>1
      <4>3. ~ AnswerOf(g, {}, r)
        BY <2>4, <3>3, <4>2 DEF AnswerOf
      <4> QED BY <3>1, <4>3
    <3>4. CASE composite[r].mode # "All"
      <4>1. \A n \in DOMAIN composite[r].resolvers :
                    R!NeedsFeed(composite[r].resolvers[n], age)
        BY <2>4, <3>4
      <4>2. \A n \in DOMAIN composite[r].resolvers :
                g[{} \cup {r}][composite[r].resolvers[n]] = FALSE
        BY <2>2, <3>2, <4>1
      <4>3. ~ AnswerOf(g, {}, r)
        BY <2>4, <3>4, <4>2 DEF AnswerOf
      <4> QED BY <3>1, <4>3
    <3> QED BY <3>3, <3>4
  <2> QED BY <2>3, <2>4
<1> QED BY <1>1, <1>2, <1>3, PTL DEF Spec

-----------------------------------------------------------------------------
(* The timelock.  CallsRunInTheirWindow is not inductive: a call that runs    *)
(* was queued with the ETA that is stored, and the ETA keeps the delay.       *)

\* Removing calls leaves the others in the queue.
LEMMA WithoutQueue ==
  ASSUME NEW ids, queue \in Seq(T!Ids)
  PROVE  /\ T!Without(ids) \in Seq(T!Ids)
         /\ \A x : (\E n \in 1..Len(T!Without(ids)) : T!Without(ids)[n] = x)
                 <=> (x \notin ids /\ \E n \in 1..Len(queue) : queue[n] = x)
<1> DEFINE N == Len(queue)
           Lists0 == Seq(T!Ids)
           Next1(n, s) == IF queue[n] \in ids THEN s ELSE Append(s, queue[n])
           step == [n \in 1..N |-> [s \in Lists0 |-> Next1(n, s)]]
           Rule(f) == f = [n \in 0..N |-> IF n = 0 THEN <<>>
                                           ELSE IF queue[n] \in ids THEN f[n - 1]
                                           ELSE Append(f[n - 1], queue[n])]
           left == CHOOSE f : Rule(f)
<1>0. N \in Nat /\ \A n \in 1..N : queue[n] \in T!Ids
  OBVIOUS
<1>1. step \in [1..N -> [Lists0 -> Lists0]]
  BY <1>0
<1>2. <<>> \in Lists0
  OBVIOUS
<1> HIDE DEF N, Lists0, step
<1>3. PICK f : RecursionOn(f, step, <<>>, N, Lists0)
  <2>1. N \in Nat /\ StepsOn(step, N, Lists0)
    BY <1>0, <1>1 DEF StepsOn
  <2> QED BY <1>2, <2>1, NatRecursion
<1>4. Rule(f)
  <2>0. /\ f \in [0..N -> Lists0] /\ f[0] = <<>>
        /\ \A n \in 1..N : f[n] = step[n][f[n - 1]]
    BY <1>3 DEF RecursionOn
  <2>1. ASSUME NEW n \in 1..N PROVE f[n] = Next1(n, f[n - 1])
    <3>1. n - 1 \in 0..N
      BY <1>0
    <3>2. f[n - 1] \in Lists0
      BY <2>0, <3>1
    <3>3. step[n][f[n - 1]] = Next1(n, f[n - 1])
      BY <3>2 DEF step
    <3> QED BY <2>0, <3>3
  <2>2. ASSUME NEW n \in 0..N
        PROVE  f[n] = IF n = 0 THEN <<>> ELSE IF queue[n] \in ids THEN f[n - 1]
                                         ELSE Append(f[n - 1], queue[n])
    <3>1. CASE n = 0
      BY <2>0, <3>1
    <3>2. CASE n # 0
      <4>1. n \in 1..N
        BY <1>0, <3>2
      <4> QED BY <2>1, <3>2, <4>1
    <3> QED BY <3>1, <3>2
  <2> QED BY <2>0, <2>2
<1>5. Rule(left)
  BY <1>4
<1>6. T!Without(ids) = left[N]
  BY DEF T!Without, N
<1> HIDE DEF left
<1>7. /\ left[0] = <<>>
      /\ \A n \in 1..N : left[n] = IF queue[n] \in ids THEN left[n - 1]
                                     ELSE Append(left[n - 1], queue[n])
  <2>1. ASSUME NEW n \in 0..N
        PROVE  left[n] = IF n = 0 THEN <<>> ELSE IF queue[n] \in ids THEN left[n - 1]
                                            ELSE Append(left[n - 1], queue[n])
    BY <1>5
  <2>2. 0 \in 0..N /\ \A n \in 1..N : n \in 0..N /\ n # 0
    BY <1>0
  <2> QED BY <2>1, <2>2
<1> DEFINE Sound == {n \in Nat : n <= N =>
              /\ left[n] \in Lists0
              /\ \A x : (\E i \in 1..Len(left[n]) : left[n][i] = x)
                      <=> (x \notin ids /\ \E i \in 1..n : queue[i] = x)}
<1>8. 0 \in Sound
  <2>1. left[0] = <<>> /\ left[0] \in Lists0 /\ Len(left[0]) = 0
    BY <1>2, <1>7
  <2>2. 1..0 = {}
    OBVIOUS
  <2> QED BY <2>1, <2>2
<1>9. ASSUME NEW m \in Sound PROVE m + 1 \in Sound
  <2> SUFFICES ASSUME m + 1 <= N
               PROVE  /\ left[m + 1] \in Lists0
                      /\ \A x : (\E i \in 1..Len(left[m + 1]) : left[m + 1][i] = x)
                              <=> (x \notin ids /\ \E i \in 1..(m + 1) : queue[i] = x)
    OBVIOUS
  <2>1. /\ m \in Nat /\ left[m] \in Lists0
        /\ \A x : (\E i \in 1..Len(left[m]) : left[m][i] = x)
                <=> (x \notin ids /\ \E i \in 1..m : queue[i] = x)
    BY <1>0
  <2>2. \A x : (\E i \in 1..(m + 1) : queue[i] = x)
             <=> (queue[m + 1] = x \/ \E i \in 1..m : queue[i] = x)
    <3>1. \A i : i \in 1..(m + 1) <=> (i = m + 1 \/ i \in 1..m)
      BY <2>1
    <3> QED BY <3>1
  <2>3. m + 1 \in 1..N /\ (m + 1) - 1 = m
    BY <1>0, <2>1
  <2>4. CASE queue[m + 1] \in ids
    <3>1. left[m + 1] = left[m]
      BY <1>7, <2>3, <2>4
    <3> QED BY <2>1, <2>2, <2>4, <3>1
  <2>5. CASE queue[m + 1] \notin ids
    <3>1. left[m + 1] = Append(left[m], queue[m + 1]) /\ queue[m + 1] \in T!Ids
      BY <1>0, <1>7, <2>3, <2>5
    <3> DEFINE s == left[m]
               t == left[m + 1]
    <3>2. /\ t \in Lists0 /\ Len(t) = Len(s) + 1 /\ Len(s) \in Nat
          /\ t[Len(s) + 1] = queue[m + 1] /\ \A i \in 1..Len(s) : t[i] = s[i]
      <4>1. s \in Seq(T!Ids) /\ t = Append(s, queue[m + 1])
        BY <2>1, <3>1 DEF Lists0
      <4> HIDE DEF s, t
      <4> QED BY <3>1, <4>1, Appended DEF Lists0
    <3>3. \A i : i \in 1..Len(t) <=> (i = Len(s) + 1 \/ i \in 1..Len(s))
      BY <3>2
    <3> HIDE DEF s, t
    <3>4. \A x : (\E i \in 1..Len(t) : t[i] = x)
               <=> (queue[m + 1] = x \/ \E i \in 1..Len(s) : s[i] = x)
      BY <3>2, <3>3
    <3>5. \A x : (\E i \in 1..Len(s) : s[i] = x)
               <=> (x \notin ids /\ \E i \in 1..m : queue[i] = x)
      BY <2>1 DEF s
    <3>6. \A x : (\E i \in 1..Len(t) : t[i] = x)
               <=> (x \notin ids /\ \E i \in 1..(m + 1) : queue[i] = x)
      BY <2>2, <2>5, <3>4, <3>5
    <3> QED BY <3>2, <3>6 DEF t
  <2> QED BY <2>4, <2>5
<1> HIDE DEF Sound
<1>10. Sound = Nat
  <2>1. Sound \subseteq Nat
    BY DEF Sound
  <2> QED BY <1>8, <1>9, <2>1, NatRule
<1>11. N \in Sound /\ N <= N
  BY <1>0, <1>10
<1>12. /\ left[N] \in Lists0
       /\ \A x : (\E i \in 1..Len(left[N]) : left[N][i] = x)
               <=> (x \notin ids /\ \E i \in 1..N : queue[i] = x)
  BY <1>11 DEF Sound
<1> QED BY <1>6, <1>12 DEF N, Lists0

\* Types; ids are given once; a stored call has the ETA it was queued with, which
\* keeps the delay.
TimelockInv ==
    /\ now \in U64 /\ next_id \in Nat /\ queue \in Seq(T!Ids)
    /\ settings \in T!Setting \cup {None}
    /\ calls \in [T!Ids -> U64 \cup {None}]
    /\ asked \in [T!Ids -> T!Request \cup {None}]
    /\ ended \in [T!Ids -> T!Outcome \cup {None}]
    /\ \A id \in T!Ids :
          /\ asked[id] # None =>
                /\ settings # None /\ id < next_id
                /\ asked[id].eta >= T!SatAdd(asked[id].at, settings.delay)
          /\ ended[id] # None => asked[id] # None
          /\ calls[id] # None => calls[id] = asked[id].eta
    /\ T!CallsRunInTheirWindow

\* The window of a call that has left the queue.
Kept(id) ==
    /\ ended[id] # None /\ ended[id].how = "executed" =>
          /\ ended[id].at >= asked[id].eta
          /\ ended[id].at >= T!SatAdd(asked[id].at, settings.delay)
          /\ ended[id].at < T!SatAdd(asked[id].eta, settings.grace)
    /\ ended[id] # None /\ ended[id].how = "expired" =>
          ended[id].at >= T!SatAdd(asked[id].eta, settings.grace)

Queued(id) == \E n \in 1..Len(queue) : queue[n] = id

\* CallsRunInTheirWindow, call by call.
LEMMA WindowParts ==
  T!CallsRunInTheirWindow <=>
      \A id \in T!Ids : /\ (calls[id] # None) = Queued(id)
                        /\ (calls[id] # None) = (asked[id] # None /\ ended[id] = None)
                        /\ Kept(id)
  BY DEF T!CallsRunInTheirWindow, Kept, Queued

\* Calls leave the queue: cancelled, or run or expired as their window says.
LEMMA RemoveCalls ==
  ASSUME TimelockInv, NEW gone \in SUBSET T!Ids, NEW how,
         \A id \in gone :
             /\ calls[id] # None
             /\ how[id] \in {"executed", "expired", "cancelled"}
             /\ how[id] = "executed" => T!Ready(id) /\ ~ T!Expired(id)
             /\ how[id] = "expired" => T!Expired(id),
         T!remove(gone, how), UNCHANGED <<now, settings, next_id, asked>>
  PROVE  TimelockInv'
<1>1. /\ queue' = T!Without(gone)
      /\ calls' = [i \in T!Ids |-> IF i \in gone THEN None ELSE calls[i]]
      /\ ended' = [i \in T!Ids |-> IF i \in gone THEN [how |-> how[i], at |-> now]
                                    ELSE ended[i]]
  BY DEF T!remove
<1>2. queue' \in Seq(T!Ids) /\ \A x : Queued(x)' <=> (x \notin gone /\ Queued(x))
  BY <1>1, WithoutQueue DEF Queued, TimelockInv
<1>3. calls' \in [T!Ids -> U64 \cup {None}]
  BY <1>1 DEF TimelockInv
<1>4. \A id \in gone : [how |-> how[id], at |-> now] \in T!Outcome
  BY DEF T!Outcome, TimelockInv, U64, T!U64
<1>5. ended' \in [T!Ids -> T!Outcome \cup {None}]
  BY <1>1, <1>4 DEF TimelockInv
<1>6. ASSUME NEW id \in T!Ids
      PROVE  /\ asked'[id] # None =>
                   /\ settings' # None /\ id < next_id'
                   /\ asked'[id].eta >= T!SatAdd(asked'[id].at, settings'.delay)
             /\ ended'[id] # None => asked'[id] # None
             /\ calls'[id] # None => calls'[id] = asked'[id].eta
             /\ (calls'[id] # None) = Queued(id)'
             /\ (calls'[id] # None) = (asked'[id] # None /\ ended'[id] = None)
             /\ Kept(id)'
  <2>1. /\ (calls[id] # None) = Queued(id)
        /\ (calls[id] # None) = (asked[id] # None /\ ended[id] = None)
        /\ Kept(id)
    BY WindowParts DEF TimelockInv
  <2>2. CASE id \notin gone
    <3>1. calls'[id] = calls[id] /\ ended'[id] = ended[id] /\ asked' = asked
          /\ settings' = settings /\ next_id' = next_id /\ Queued(id)' = Queued(id)
      BY <1>1, <1>2, <2>2 DEF Queued
    <3>2. Kept(id)'
      BY <2>1, <3>1 DEF Kept
    <3> QED BY <2>1, <3>1, <3>2 DEF TimelockInv
  <2>3. CASE id \in gone
    <3>1. /\ calls'[id] = None /\ ~ Queued(id)' /\ asked' = asked /\ settings' = settings
          /\ next_id' = next_id
          /\ ended'[id] = [how |-> how[id], at |-> now] /\ ended'[id] # None
      BY <1>1, <1>2, <1>4, <2>3, TimelockAssumption
    <3>2. /\ asked[id] # None /\ calls[id] = asked[id].eta
          /\ asked[id].eta >= T!SatAdd(asked[id].at, settings.delay)
          /\ asked[id] \in T!Request /\ settings \in T!Setting
      BY <2>1, <2>3 DEF TimelockInv
    <3>3. /\ how[id] = "executed" => now >= asked[id].eta
                                     /\ ~ (now >= T!SatAdd(asked[id].eta, settings.grace))
          /\ how[id] = "expired" => now >= T!SatAdd(asked[id].eta, settings.grace)
      BY <2>3, <3>2 DEF T!Ready, T!Expired
    <3>4. /\ now \in Nat /\ asked[id].eta \in Nat
          /\ T!SatAdd(asked[id].eta, settings.grace) \in Nat
          /\ T!SatAdd(asked[id].at, settings.delay) \in Nat
      <4>1. /\ asked[id].at \in Nat /\ asked[id].eta \in Nat
            /\ settings.delay \in Nat /\ settings.grace \in Nat /\ U64Max \in Nat
        BY <3>2, TargetsAssumption DEF T!Request, T!Setting, T!U64
      <4>2. now \in Nat
        BY DEF TimelockInv, U64
      <4>3. \A a, b \in Nat : T!SatAdd(a, b) \in Nat
        BY <4>1 DEF T!SatAdd
      <4> QED BY <4>1, <4>2, <4>3
    <3>5. Kept(id)'
      BY <3>1, <3>2, <3>3, <3>4 DEF Kept
    <3>6. /\ settings # None /\ id < next_id
      BY <3>2 DEF TimelockInv
    <3>7. (calls'[id] # None) = Queued(id)'
      BY <3>1 DEF Queued
    <3>8. (calls'[id] # None) = (asked'[id] # None /\ ended'[id] = None)
      BY <3>1
    <3> QED BY <3>1, <3>2, <3>5, <3>6, <3>7, <3>8
  <2> QED BY <2>2, <2>3
<1>7. T!CallsRunInTheirWindow'
  BY <1>6 DEF T!CallsRunInTheirWindow, Kept, Queued
<1> QED BY <1>2, <1>3, <1>5, <1>6, <1>7 DEF TimelockInv

\* A call enters the queue under a new id.
LEMMA QueueCall ==
  ASSUME TimelockInv, NEW eta \in Etas, T!queue_call(eta), UNCHANGED now
  PROVE  TimelockInv'
<1> DEFINE new == next_id
           request == [at |-> now, eta |-> eta]
<1>1. /\ settings # None /\ eta >= T!SatAdd(now, settings.delay) /\ new < MaxCalls
      /\ next_id' = new + 1 /\ UNCHANGED <<settings, ended>>
      /\ calls' = [calls EXCEPT ![new] = eta]
      /\ queue' = Append(queue, new)
      /\ asked' = [asked EXCEPT ![new] = request]
  BY DEF T!queue_call
<1>2. new \in T!Ids /\ new \in Nat
  BY <1>1, TimelockAssumption DEF TimelockInv, T!Ids
<1>3. eta \in U64 /\ eta # None /\ request \in T!Request /\ request # None
  <2>1. eta \in U64 /\ now \in U64 /\ None \notin U64
    BY TargetsAssumption DEF TimelockInv
  <2> QED BY <2>1, TimelockAssumption DEF T!Request, T!U64, U64
<1>4. asked[new] = None /\ ended[new] = None
  BY <1>2 DEF TimelockInv
<1> HIDE DEF new, request
<1>5. /\ queue' \in Seq(T!Ids) /\ \A id : Queued(id)' <=> (Queued(id) \/ id = new)
  <2>1. /\ queue' \in Seq(T!Ids) /\ Len(queue') = Len(queue) + 1 /\ Len(queue) \in Nat
        /\ queue'[Len(queue) + 1] = new /\ \A i \in 1..Len(queue) : queue'[i] = queue[i]
    BY <1>1, <1>2, Appended DEF TimelockInv
  <2>2. \A i : i \in 1..Len(queue') <=> (i = Len(queue) + 1 \/ i \in 1..Len(queue))
    BY <2>1
  <2> QED BY <2>1, <2>2 DEF Queued
<1>6. /\ calls' \in [T!Ids -> U64 \cup {None}] /\ asked' \in [T!Ids -> T!Request \cup {None}]
      /\ calls'[new] = eta /\ asked'[new] = request
      /\ \A id \in T!Ids : id # new => calls'[id] = calls[id] /\ asked'[id] = asked[id]
  BY <1>1, <1>2, <1>3 DEF TimelockInv
<1>7. ASSUME NEW id \in T!Ids
      PROVE  /\ asked'[id] # None =>
                   /\ settings' # None /\ id < next_id'
                   /\ asked'[id].eta >= T!SatAdd(asked'[id].at, settings'.delay)
             /\ ended'[id] # None => asked'[id] # None
             /\ calls'[id] # None => calls'[id] = asked'[id].eta
             /\ (calls'[id] # None) = Queued(id)'
             /\ (calls'[id] # None) = (asked'[id] # None /\ ended'[id] = None)
             /\ Kept(id)'
  <2>1. CASE id = new
    <3>1. request.eta = eta /\ request.at = now
      BY DEF request
    <3>2. Kept(id)'
      BY <1>1, <1>4, <2>1 DEF Kept
    <3>3. asked'[id].eta = eta /\ asked'[id].at = now /\ settings' = settings
          /\ id < next_id' /\ ended'[id] = None
      BY <1>1, <1>2, <1>4, <1>6, <2>1, <3>1
    <3>4. calls'[id] = eta /\ asked'[id] # None /\ calls'[id] # None /\ Queued(id)'
      BY <1>3, <1>5, <1>6, <2>1
    <3>5. (calls'[id] # None) = Queued(id)'
      BY <3>4 DEF Queued
    <3>6. (calls'[id] # None) = (asked'[id] # None /\ ended'[id] = None)
      BY <3>3, <3>4
    <3> QED BY <1>1, <3>2, <3>3, <3>4, <3>5, <3>6
  <2>2. CASE id # new
    <3>1. /\ (calls[id] # None) = Queued(id)
          /\ (calls[id] # None) = (asked[id] # None /\ ended[id] = None)
          /\ Kept(id)
      BY WindowParts DEF TimelockInv
    <3>2. /\ calls'[id] = calls[id] /\ asked'[id] = asked[id] /\ Queued(id)' = Queued(id)
          /\ ended' = ended /\ settings' = settings
      BY <1>1, <1>5, <1>6, <2>2 DEF Queued
    <3>3. Kept(id)'
      BY <3>1, <3>2 DEF Kept
    <3>4. asked[id] # None => id < next_id'
      <4>1. asked[id] # None => id < new
        BY DEF TimelockInv, new
      <4>2. id \in Int
        BY DEF T!Ids
      <4> QED BY <1>1, <1>2, <4>1, <4>2
    <3> QED BY <3>1, <3>2, <3>3, <3>4 DEF TimelockInv
  <2> QED BY <2>1, <2>2
<1>8. T!CallsRunInTheirWindow'
  BY <1>7 DEF T!CallsRunInTheirWindow, Kept, Queued
<1>9. now' \in U64 /\ next_id' \in Nat /\ settings' \in T!Setting \cup {None}
      /\ ended' \in [T!Ids -> T!Outcome \cup {None}]
  BY <1>1, <1>2 DEF TimelockInv
<1> QED BY <1>5, <1>6, <1>7, <1>8, <1>9 DEF TimelockInv

\* Every step keeps the timelock's invariant.
LEMMA TimelockStep ==
  ASSUME TimelockInv, [Next]_vars
  PROVE  TimelockInv'
<1>1. CASE UNCHANGED timelock
  <2>1. now' \in U64
    BY OneContract, ClockStep DEF TimelockInv
  <2> QED BY <1>1, <2>1 DEF timelock, TimelockInv, T!CallsRunInTheirWindow
<1>2. ASSUME UNCHANGED now, NEW s \in TimelockSettings, T!constructor(s) PROVE TimelockInv'
  <2>1. /\ settings = None /\ settings' = s /\ UNCHANGED <<next_id, queue, calls, asked, ended>>
    BY <1>2 DEF T!constructor
  <2>2. \A id \in T!Ids : asked[id] = None /\ ended[id] = None
    BY <2>1 DEF TimelockInv
  <2>3. T!CallsRunInTheirWindow'
    BY <2>1, <2>2 DEF TimelockInv, T!CallsRunInTheirWindow
  <2> QED BY <1>2, <2>1, <2>2, <2>3, TimelockAssumption DEF TimelockInv
<1>3. ASSUME UNCHANGED now, NEW id \in T!Ids, T!cancel(id) PROVE TimelockInv'
  <2> DEFINE how == [i \in {id} |-> "cancelled"]
  <2>1. T!remove({id}, how) /\ UNCHANGED <<settings, next_id, asked>>
    BY <1>3 DEF T!cancel
  <2>2. calls[id] # None
    BY <1>3, WindowParts DEF T!cancel, TimelockInv, Queued
  <2>3. how[id] = "cancelled"
    OBVIOUS
  <2> HIDE DEF how
  <2>4. \A i \in {id} : /\ calls[i] # None
                        /\ how[i] \in {"executed", "expired", "cancelled"}
                        /\ how[i] = "executed" => T!Ready(i) /\ ~ T!Expired(i)
                        /\ how[i] = "expired" => T!Expired(i)
    BY <2>2, <2>3
  <2> QED BY <1>3, <2>1, <2>4, RemoveCalls
<1>4. ASSUME UNCHANGED now, NEW works \in SUBSET T!Ids, T!execute_ready(works)
      PROVE  TimelockInv'
  <2> DEFINE reached == {queue[n] : n \in {m \in 1..Len(queue) : T!Reached(works, m)}}
             expired == {i \in reached : T!Expired(i)}
             run == {i \in reached : T!Ready(i) /\ ~ T!Expired(i) /\ i \in works}
             gone == expired \cup run
             how == [i \in gone |-> IF i \in run THEN "executed" ELSE "expired"]
  <2>1. T!remove(gone, how) /\ UNCHANGED <<settings, next_id, asked>>
    BY <1>4 DEF T!execute_ready
  <2>2. reached \subseteq T!Ids
    BY DEF TimelockInv
  <2>3. gone \subseteq T!Ids
    BY <2>2
  <2>4. ASSUME NEW i \in gone
        PROVE  /\ calls[i] # None
               /\ how[i] \in {"executed", "expired", "cancelled"}
               /\ how[i] = "executed" => T!Ready(i) /\ ~ T!Expired(i)
               /\ how[i] = "expired" => T!Expired(i)
    <3>1. T!Ready(i)
      BY DEF T!Expired
    <3>2. calls[i] # None
      BY <3>1 DEF T!Ready
    <3> QED BY <3>1, <3>2
  <2> HIDE DEF how, gone
  <2> QED BY <1>4, <2>1, <2>3, <2>4, RemoveCalls
<1> QED BY <1>1, <1>2, <1>3, <1>4, QueueCall, OneContract DEF T!Next

\* Timelock: every call leaves the queue at most once, runs inside its window and
\* expires only after it, however many calls are queued, whichever targets fail
\* and whoever calls execute_ready, also where ETA plus grace exceeds u64.
THEOREM CallsSafe == Spec => []CallsRunInTheirWindow
<1>1. Init => TimelockInv
  <2> SUFFICES ASSUME Init PROVE TimelockInv
    OBVIOUS
  <2>1. /\ now = 0 /\ settings = None /\ next_id = 0 /\ queue = <<>>
        /\ calls = [i \in T!Ids |-> None] /\ asked = [i \in T!Ids |-> None]
        /\ ended = [i \in T!Ids |-> None]
    BY DEF Init, T!Init
  <2>2. Len(queue) = 0 /\ queue \in Seq(T!Ids) /\ now \in U64
    BY <2>1, TargetsAssumption DEF U64
  <2>3. ASSUME NEW id \in T!Ids
        PROVE  /\ (calls[id] # None) = Queued(id)
               /\ (calls[id] # None) = (asked[id] # None /\ ended[id] = None)
               /\ Kept(id)
    <3>1. calls[id] = None /\ asked[id] = None /\ ended[id] = None /\ ~ Queued(id)
      BY <2>1, <2>2 DEF Queued
    <3>2. (calls[id] # None) = Queued(id)
      BY <3>1 DEF Queued
    <3> QED BY <3>1, <3>2 DEF Kept
  <2>4. T!CallsRunInTheirWindow
    BY <2>3, WindowParts
  <2> QED BY <2>1, <2>2, <2>4 DEF TimelockInv
<1>2. TimelockInv /\ [Next]_vars => TimelockInv'
  BY TimelockStep
<1>3. TimelockInv => CallsRunInTheirWindow
  BY DEF TimelockInv, CallsRunInTheirWindow
<1> QED BY <1>1, <1>2, <1>3, PTL DEF Spec
=============================================================================
