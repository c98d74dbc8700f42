----------------------------- MODULE Resolvers -----------------------------
(***************************************************************************)
(* The resolver contracts of contracts/examples: price-resolver,           *)
(* nft-floor-trigger, oracle-trigger, rebalance-resolver, flag-resolver,   *)
(* and composite-resolver, which asks the others.  Each is deployed by its *)
(* admin with some setting, which the admin may replace.                   *)
(*                                                                         *)
(* External: the feeds that the price resolver and the floor trigger read, *)
(* and the pool that the rebalance resolver reads, are None when the call  *)
(* fails or has no answer.  A feed stamps a price with its own clock,      *)
(* which is at most Skew off the ledger's.                                 *)
(***************************************************************************)
EXTENDS HostLedger

CONSTANTS
    Conditions,     \* settings of the price resolver to try
    Triggers,       \* settings of the floor trigger
    Thresholds,     \* prices and thresholds of the oracle trigger
    Targets,        \* settings of the rebalance resolver
    Reserves,       \* reserves of its pool
    RATIO_SCALE, BPS, I128Max,
    Composites,     \* deployed composite resolvers
    Lists,          \* lists of sub-resolvers to try
    MAX_RESOLVERS,
    Prices, Skew,
    MaxChanges      \* bound: calls of admins and moves of the pool

VARIABLES
    condition, trigger, config, target, ready, composite,   \* the contracts
    feed,           \* what the feeds answer, or None
    heard,          \* history: when the feeds last changed
    reserves,       \* what the pool answers, or None
    changes         \* calls of admins and moves of the pool so far

resolversVars ==
    <<condition, trigger, config, target, ready, composite, feed, heard, reserves, changes>>

Names == {"price", "floor", "oracle", "rebalance", "flag", "broken"} \cup Composites

Condition == [threshold : Int, direction : {"Above", "Below"}, max_age : U64]
Trigger == [threshold : Int, max_age : U64]
Target == [ratio : Int, threshold_bps : Nat]

Init ==
    /\ condition = None /\ trigger = None /\ config = None /\ target = None /\ ready = None
    /\ composite = [c \in Composites |-> None]
    /\ feed = None /\ heard = 0 /\ reserves = None /\ changes = 0

-----------------------------------------------------------------------------
(* price-resolver and nft-floor-trigger: the constructor and the setter     *)
(* both store what they are given.                                          *)

set_condition(c) ==
    /\ condition' = c
    /\ UNCHANGED <<trigger, config, target, ready, composite, feed, heard, reserves>>

set_trigger(t) ==
    /\ trigger' = t
    /\ UNCHANGED <<condition, config, target, ready, composite, feed, heard, reserves>>

\* Mutated form: a price keeps its meaning whatever its age.
FreshAtAnyAge(max_age) == IF feed = None THEN None ELSE feed.price

\* The feed's price if it is no older than max_age by the ledger's clock.
fresh_price(max_age) ==
    IF feed = None \/ SatSub(now, feed.timestamp) > max_age THEN None ELSE feed.price

PriceAnswer ==
    /\ condition # None
    /\ LET price == fresh_price(condition.max_age)
       IN  /\ price # None
           /\ IF condition.direction = "Above" THEN price >= condition.threshold
              ELSE price <= condition.threshold

FloorAnswer ==
    /\ trigger # None
    /\ LET price == fresh_price(trigger.max_age)
       IN  price # None /\ price < trigger.threshold

-----------------------------------------------------------------------------
(* oracle-trigger. *)

\* The constructor starts at the threshold itself, which triggers either way.
oracle_constructor(threshold, below) ==
    /\ config = None
    /\ threshold > 0
    /\ config' = [current_price |-> threshold, threshold_price |-> threshold,
                  trigger_below |-> below, active |-> TRUE]
    /\ UNCHANGED <<condition, trigger, target, ready, composite, feed, heard, reserves>>

update_price(price) ==
    /\ config # None
    /\ price > 0
    /\ config' = [config EXCEPT !.current_price = price]
    /\ UNCHANGED <<condition, trigger, target, ready, composite, feed, heard, reserves>>

set_threshold(threshold, below) ==
    /\ config # None
    /\ threshold > 0
    /\ config' = [config EXCEPT !.threshold_price = threshold, !.trigger_below = below]
    /\ UNCHANGED <<condition, trigger, target, ready, composite, feed, heard, reserves>>

OracleAnswer ==
    /\ config # None
    /\ config.active
    /\ IF config.trigger_below THEN config.current_price <= config.threshold_price
       ELSE config.current_price >= config.threshold_price

-----------------------------------------------------------------------------
(* rebalance-resolver and flag-resolver. *)

set_target(t) ==
    /\ target' = t
    /\ UNCHANGED <<condition, trigger, config, ready, composite, feed, heard, reserves>>

\* Deviation from the target ratio in basis points, or None.
deviation_bps ==
    LET ratio == (reserves[1] * RATIO_SCALE) \div reserves[2]
        diff  == IF ratio >= target.ratio THEN ratio - target.ratio ELSE target.ratio - ratio
    IN  IF \/ reserves = None
           \/ reserves[1] <= 0 \/ reserves[2] <= 0 \/ target.ratio <= 0
           \/ reserves[1] * RATIO_SCALE > I128Max
           \/ diff * BPS > I128Max
        THEN None
        ELSE (diff * BPS) \div target.ratio

RebalanceAnswer ==
    target # None /\ deviation_bps # None /\ deviation_bps >= target.threshold_bps

set_ready(flag) ==
    /\ ready' = flag
    /\ UNCHANGED <<condition, trigger, config, target, composite, feed, heard, reserves>>

FlagAnswer == IF ready = None THEN FALSE ELSE ready

-----------------------------------------------------------------------------
(* composite-resolver. *)

store(c, mode, resolvers) ==
    /\ resolvers # <<>> /\ Len(resolvers) <= MAX_RESOLVERS
    /\ composite' = [composite EXCEPT ![c] = [mode |-> mode, resolvers |-> resolvers]]
    /\ UNCHANGED <<condition, trigger, config, target, ready, feed, heard, reserves>>

\* The constructor, and the admin replacing what it set.
set(c, mode, resolvers) == store(c, mode, resolvers)

Simple(r) ==
    CASE r = "price" -> PriceAnswer
      [] r = "floor" -> FloorAnswer
      [] r = "oracle" -> OracleAnswer
      [] r = "rebalance" -> RebalanceAnswer
      [] r = "flag" -> FlagAnswer
      [] OTHER -> FALSE

\* Every resolver's answer while the composites in `open` wait for theirs: the
\* host refuses to enter those again, and a refused, failing or missing
\* sub-resolver counts as false.
should_run ==
    LET Answer[open \in SUBSET Composites] ==
            [r \in Names |->
                IF r \notin Composites THEN Simple(r)
                ELSE /\ r \notin open /\ composite[r] # None
                     /\ LET Asked(n) == Answer[open \cup {r}][composite[r].resolvers[n]]
                            All == DOMAIN composite[r].resolvers
                        IN  IF composite[r].mode = "All" THEN \A n \in All : Asked(n)
                            ELSE \E n \in All : Asked(n)]
    IN  Answer[{}]

-----------------------------------------------------------------------------
(* External. *)

FeedAnswers(price, stamp) ==
    /\ feed' = [price |-> price, timestamp |-> stamp] /\ heard' = now
    /\ UNCHANGED <<condition, trigger, config, target, ready, composite, reserves>>

FeedFails ==
    /\ feed' = None /\ heard' = now
    /\ UNCHANGED <<condition, trigger, config, target, ready, composite, reserves>>

PoolMoves(r) ==
    /\ reserves' = r
    /\ UNCHANGED <<condition, trigger, config, target, ready, composite, feed, heard>>

Settings ==
    \/ \E c \in Conditions : set_condition(c)
    \/ \E t \in Triggers : set_trigger(t)
    \/ \E p \in Thresholds, below \in BOOLEAN : oracle_constructor(p, below)
    \/ \E p \in Thresholds, below \in BOOLEAN : set_threshold(p, below)
    \/ \E p \in Thresholds : update_price(p)
    \/ \E t \in Targets : set_target(t)
    \/ \E flag \in BOOLEAN : set_ready(flag)
    \/ \E c \in Composites, m \in {"All", "Any"}, l \in Lists : set(c, m, l)
    \/ \E r \in Reserves \cup {None} : PoolMoves(r)

Feeds ==
    \/ \E p \in Prices, stamp \in SatSub(now, Skew)..SatAdd(now, Skew) : FeedAnswers(p, stamp)
    \/ FeedFails

Next ==
    \/ Settings /\ changes < MaxChanges /\ changes' = changes + 1
    \/ Feeds /\ UNCHANGED changes

-----------------------------------------------------------------------------

\* A resolver that reads a feed itself, and takes prices of this age.
NeedsFeed(r, max_age) ==
    \/ r = "price" /\ condition # None /\ condition.max_age = max_age
    \/ r = "floor" /\ trigger # None /\ trigger.max_age = max_age

\* A stalled feed stops every job that depends on it: max_age after the feed
\* last answered, give or take its clock, neither a resolver that reads it nor a
\* composite of all with such a part, nor one of any with only such parts,
\* answers true (fresh_price, composite should_run).
StaleFeedsStaySilent ==
    \A max_age \in {c.max_age : c \in Conditions} \cup {t.max_age : t \in Triggers} :
        now > heard + max_age + Skew =>
            \A r \in Names :
                /\ NeedsFeed(r, max_age) => ~ should_run[r]
                /\ (r \in Composites /\ composite[r] # None) =>
                      LET parts == composite[r].resolvers
                          needy == {n \in DOMAIN parts : NeedsFeed(parts[n], max_age)}
                      IN  (IF composite[r].mode = "All" THEN needy # {}
                           ELSE needy = DOMAIN parts) => ~ should_run[r]
=============================================================================
