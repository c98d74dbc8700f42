------------------------------ MODULE Failover ------------------------------
(***************************************************************************)
(* The keeper bot's main loop as far as it chooses between RPC endpoints   *)
(* (keeper-bot/src/keeper.ts, endpoints.ts): every round it probes all of  *)
(* them, takes the first healthy one in configured order, connects to it   *)
(* when that is another one, and runs a tick.                              *)
(*                                                                         *)
(* An endpoint's condition changes while the keeper waits for an answer.   *)
(* What a tick does is in KeeperTick and JobIndex; here it succeeds or     *)
(* fails with the endpoint it goes through.  A process that cannot connect *)
(* at startup exits and is started again, as deploy/systemd and the        *)
(* compose file ask for.                                                   *)
(***************************************************************************)
EXTENDS Integers, FiniteSetsExt

CONSTANTS
    N,              \* how many endpoints are configured
    MaxFailures, MaxLag, RecoverAfter,
    Ledgers,        \* the ledgers an endpoint may report
    Conditions,     \* what endpoints may be like
    MaxChanges,     \* bound: how often conditions change
    None

VARIABLES
    world,          \* per endpoint its condition
    changes,        \* how often one changed
    endpoints,      \* per endpoint its EndpointStatus
    activeIndex,
    connected,      \* the endpoint the clients talk to
    at,             \* what the loop awaits: "boot", "open", "probe", "switch", "load", "tick"
    last            \* how the last round went

keeperVars == <<endpoints, activeIndex, connected, at, last>>
vars == <<world, changes, keeperVars>>

Endpoints == 1..N

\* Whether an endpoint serves the calls of a tick, and what its probe answers.
Condition == [serves : BOOLEAN, ledger : Ledgers \cup {None}]

ASSUME FailoverAssumption ==
    /\ {N, MaxFailures, RecoverAfter} \subseteq Nat \ {0} /\ MaxLag \in Nat
    /\ Ledgers \subseteq Nat /\ Conditions \subseteq Condition

\* `failures` and `okProbes` count up to the limits they are compared with.
Fresh == [up |-> TRUE, failures |-> 0, okProbes |-> 0, ledger |-> None]

Init ==
    /\ world \in [Endpoints -> Conditions] /\ changes = 0
    /\ endpoints = [e \in Endpoints |-> Fresh]
    /\ activeIndex = 1 /\ connected = None
    /\ at = "boot" /\ last = "none"

-----------------------------------------------------------------------------
(* Endpoints. *)

\* Mutated form: an endpoint's failures are never forgiven.
RecordProbeUnforgiving(e) ==
    LET s == endpoints[e]
    IN  IF world[e].ledger = None THEN [s EXCEPT !.up = FALSE, !.okProbes = 0]
        ELSE [s EXCEPT !.up = TRUE, !.ledger = world[e].ledger,
                       !.okProbes = Min({@ + 1, RecoverAfter})]

recordProbe(e) ==
    LET s == endpoints[e]
        ok == Min({s.okProbes + 1, RecoverAfter})
    IN  IF world[e].ledger = None THEN [s EXCEPT !.up = FALSE, !.okProbes = 0]
        ELSE [up |-> TRUE, ledger |-> world[e].ledger, okProbes |-> ok,
              failures |-> IF e # activeIndex /\ ok = RecoverAfter THEN 0 ELSE s.failures]

recordFailure(e) ==
    endpoints' = [endpoints EXCEPT ![e].failures = Min({@ + 1, MaxFailures}), ![e].okProbes = 0]

recordSuccess(e) == endpoints' = [endpoints EXCEPT ![e].failures = 0]

healthy(status, e) ==
    LET known == {x \in Endpoints : status[x].up /\ status[x].ledger # None}
    IN  /\ status[e].up /\ status[e].failures < MaxFailures
        /\ (known # {} /\ status[e].ledger # None) =>
              Max({status[x].ledger : x \in known}) - status[e].ledger <= MaxLag

\* The first healthy endpoint, or the present one when none is.
choose(status) ==
    LET ok == {e \in Endpoints : healthy(status, e)}
    IN  IF ok = {} THEN activeIndex ELSE Min(ok)

-----------------------------------------------------------------------------
(* The main loop. *)

\* probeEndpoints and choose.
Probe ==
    LET probed == [e \in Endpoints |-> recordProbe(e)]
    IN  endpoints' = probed /\ activeIndex' = choose(probed)

boot_probe ==
    /\ at = "boot"
    /\ Probe
    /\ at' = "open"
    /\ UNCHANGED <<world, changes, connected, last>>

\* Connects, checks the keeper and loads the index, or exits to be started again.
boot_connect ==
    /\ at = "open"
    /\ IF world[activeIndex].serves
       THEN /\ connected' = activeIndex /\ at' = "probe"
            /\ UNCHANGED <<endpoints, activeIndex, last>>
       ELSE /\ endpoints' = [e \in Endpoints |-> Fresh]
            /\ activeIndex' = 1 /\ at' = "boot"
            /\ UNCHANGED <<connected, last>>
    /\ UNCHANGED <<world, changes>>

probe ==
    /\ at = "probe"
    /\ Probe
    /\ at' = IF activeIndex' # connected THEN "switch" ELSE "tick"
    /\ UNCHANGED <<world, changes, connected, last>>

\* The round failed: the failure goes to the endpoint the clients talk to.
Failed(e) ==
    /\ recordFailure(e)
    /\ at' = "probe" /\ last' = "failed"
    /\ UNCHANGED activeIndex

\* connectAll for the chosen endpoint; `connected` stays when it fails.
switch ==
    /\ at = "switch"
    /\ IF world[activeIndex].serves
       THEN /\ connected' = activeIndex /\ at' = "load"
            /\ UNCHANGED <<endpoints, activeIndex, last>>
       ELSE Failed(connected) /\ UNCHANGED connected
    /\ UNCHANGED <<world, changes>>

\* index.load through the new endpoint.
load ==
    /\ at = "load"
    /\ IF world[connected].serves
       THEN at' = "tick" /\ UNCHANGED <<endpoints, activeIndex, last>>
       ELSE Failed(connected)
    /\ UNCHANGED <<world, changes, connected>>

\* The checks of accounts, stake and upgrades, the fee bid and the tick.
tick ==
    /\ at = "tick"
    /\ IF world[connected].serves
       THEN recordSuccess(connected) /\ at' = "probe" /\ last' = "ok" /\ UNCHANGED activeIndex
       ELSE Failed(connected)
    /\ UNCHANGED <<world, changes, connected>>

\* An endpoint's condition changes.
WorldChanges(e, c) ==
    /\ changes < MaxChanges /\ c # world[e]
    /\ world' = [world EXCEPT ![e] = c]
    /\ changes' = changes + 1
    /\ UNCHANGED keeperVars

Keeper == boot_probe \/ boot_connect \/ probe \/ switch \/ load \/ tick

Next == Keeper \/ \E e \in Endpoints, c \in Conditions : WorldChanges(e, c)

\* Calls return or time out, and the loop goes on.
Spec == Init /\ [][Next]_vars /\ WF_vars(Keeper)

-----------------------------------------------------------------------------

\* The first endpoint that is not too far behind the one furthest ahead.
Best ==
    LET front == Max({world[e].ledger : e \in Endpoints})
    IN  Min({e \in Endpoints : front - world[e].ledger <= MaxLag})

AllServe == \A e \in Endpoints : world[e].serves /\ world[e].ledger # None

\* Whatever went on before, once all endpoints serve again the keeper settles on
\* the preferred one among those that keep up, and its ticks succeed: old
\* failures, lost connections and lag are all forgotten.
SettlesOnBest ==
    <>[]AllServe => <>[](AllServe => connected = Best /\ last = "ok")

\* The header of endpoints.ts: the keeper "moves off a failing or lagging endpoint
\* at once".  So a keeper that has connected goes on running ticks while one
\* endpoint works for good.
WorksWhileOneWorks ==
    ((\E e \in Endpoints : <>[](world[e].serves /\ world[e].ledger = Max(Ledgers)))
     /\ <>(connected # None))
        => []<>(last = "ok" /\ at = "probe")
=============================================================================
