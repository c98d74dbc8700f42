----------------------------- MODULE LimitOrder -----------------------------
(***************************************************************************)
(* The limit order (contracts/examples/limit-order): amount_in of one      *)
(* token held until the market pays min_amount_out, the order expires or   *)
(* its owner cancels.                                                      *)
(*                                                                         *)
(* The router is external: it quotes `market` (None when the call fails)   *)
(* and a swap pays some amount of its own choosing, or fails when that is  *)
(* below the minimum it was passed.                                        *)
(***************************************************************************)
EXTENDS HostLedger

CONSTANTS
    Orders,         \* constructor arguments to try
    Quotes          \* what the router may quote or pay

VARIABLES
    order,          \* Order, or None before the constructor
    escrow,         \* the contract's sell tokens
    market          \* what the router quotes now

orderVars == <<order, escrow, market>>

Order ==
    [sell_token : {"A", "B"}, buy_token : {"A", "B"}, amount_in : Nat \ {0},
     min_amount_out : Nat \ {0}, expires_at : U64, funded : BOOLEAN, open : BOOLEAN,
     filled_out : Nat]

Init == order = None /\ escrow = 0 /\ market = None

constructor(o) ==
    /\ order = None
    /\ o.amount_in > 0 /\ o.min_amount_out > 0 /\ o.sell_token # o.buy_token
    /\ order' = [sell_token |-> o.sell_token, buy_token |-> o.buy_token,
                 amount_in |-> o.amount_in, min_amount_out |-> o.min_amount_out,
                 expires_at |-> o.expires_at, funded |-> FALSE, open |-> TRUE,
                 filled_out |-> 0]
    /\ UNCHANGED <<escrow, market>>

fund ==
    /\ order # None
    /\ order.open /\ ~ order.funded
    /\ escrow' = escrow + order.amount_in
    /\ order' = [order EXCEPT !.funded = TRUE]
    /\ UNCHANGED market

quote == IF market = None THEN 0 ELSE market

ensure_fillable(o) ==
    /\ o.open
    /\ o.funded
    /\ o.expires_at = 0 \/ now < o.expires_at

\* Closing before the swap and recording its proceeds after it are one step:
\* they are one transaction, and the host refuses a call back into the order.
fill(out) ==
    /\ order # None
    /\ ensure_fillable(order)
    /\ quote >= order.min_amount_out
    /\ out >= order.min_amount_out
    /\ order' = [order EXCEPT !.open = FALSE, !.filled_out = out]
    /\ escrow' = escrow - order.amount_in
    /\ UNCHANGED market

\* Mutated form: a refund that looks at the funding alone pays a filled order
\* back.
CancelAfterFill ==
    /\ order # None
    /\ order.open \/ order.funded
    /\ order' = [order EXCEPT !.open = FALSE]
    /\ escrow' = escrow - (IF order.funded THEN order.amount_in ELSE 0)
    /\ UNCHANGED market

cancel ==
    /\ order # None
    /\ order.open
    /\ order' = [order EXCEPT !.open = FALSE]
    /\ escrow' = escrow - (IF order.funded THEN order.amount_in ELSE 0)
    /\ UNCHANGED market

\* Mutated form: a quote of exactly the limit is not enough.
ShouldRunAbove ==
    order # None /\ ensure_fillable(order) /\ quote > order.min_amount_out

should_run ==
    order # None /\ ensure_fillable(order) /\ quote >= order.min_amount_out

\* External: the market moves, or its quotes stop.
MarketMoves(m) == market' = m /\ UNCHANGED <<order, escrow>>

Next ==
    \/ \E o \in Orders : constructor(o)
    \/ fund
    \/ \E out \in Quotes : fill(out)
    \/ cancel
    \/ \E m \in Quotes \cup {None} : MarketMoves(m)

-----------------------------------------------------------------------------

Filled == order # None /\ order.filled_out > 0

Target == INSTANCE DueTarget WITH
    Tasks <- {"fill"}, due <- [t \in {"fill"} |-> should_run],
    runs <- [t \in {"fill"} |-> IF Filled THEN 1 ELSE 0]

\* The owner's claim is a funded order that is still open.
Money == INSTANCE Escrow WITH
    Holders <- {"owner"}, pool <- escrow,
    account <- [h \in {"owner"} |->
        IF order # None /\ order.open /\ order.funded THEN order.amount_in ELSE 0]
=============================================================================
