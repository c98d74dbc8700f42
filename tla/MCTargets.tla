----------------------------- MODULE MCTargets -----------------------------
(* Constructor and call arguments, valid and invalid, small enough that     *)
(* windows, periods and cliffs open and close within the modelled time.     *)
EXTENDS Targets

MCDcaPlans ==
    {[sell_token |-> "A", buy_token |-> b, amount_per_swap |-> a, interval |-> i,
      max_swaps |-> m, min_price |-> 5] :
        b \in {"A", "B"}, a \in {0, 1}, i \in {0, 2, 6}, m \in {0, 3}}

MCOrders ==
    {[sell_token |-> "A", buy_token |-> b, amount_in |-> a, min_amount_out |-> m,
      expires_at |-> e] : b \in {"A", "B"}, a \in {0, 2}, m \in {0, 2}, e \in {0, 3}}

MCSubscriptionPlans == [price : {0, 1}, period : {0, 2}]

MCSchedules ==
    {[total_amount |-> t, start_time |-> s, cliff_duration |-> c, total_duration |-> d] :
        t \in {0, 5}, s \in {1, 4}, c \in {0, 2}, d \in {0, 1, 3}}

MCTimelockSettings == [delay : {0, 1}, grace : {0, 2}]

MCConditions == {[threshold |-> 1, direction |-> d, max_age |-> 1] : d \in {"Above", "Below"}}
MCTriggers == {[threshold |-> 2, max_age |-> 2]}
MCRebalanceTargets == {[ratio |-> r, threshold_bps |-> 2] : r \in {0, 10}}
MCReserves == {<<0, 1>>, <<3, 2>>, <<40, 1>>}
MCLists == {<<>>, <<"price">>, <<"price", "floor">>, <<"c1", "flag">>,
            <<"price", "broken", "oracle">>, <<"c2", "price">>,
            <<"rebalance", "price", "flag", "flag">>}

MCGuards == {[threshold |-> 2, extend_to |-> 9], [threshold |-> 3, extend_to |-> 3]}
=============================================================================
