-------------------------- MODULE TimelockResolver --------------------------
(***************************************************************************)
(* The timelock resolver (contracts/examples/timelock-resolver): a         *)
(* governor registers its passed proposals and binds jobs to them; a job   *)
(* is due while its proposal is inside its execution window.  queued_at is *)
(* left out: nothing reads it.                                             *)
(***************************************************************************)
EXTENDS HostLedger

CONSTANTS
    Proposals, Jobs,
    Etas, Windows   \* arguments of register to try

VARIABLES
    governed,       \* whether the contract is deployed
    proposals,      \* per proposal its record, or None
    bindings        \* per job id its proposal, or None

resolverVars == <<governed, proposals, bindings>>

Proposal == [eta : U64, window : U64, executed : BOOLEAN]

Init ==
    /\ governed = FALSE
    /\ proposals = [p \in Proposals |-> None]
    /\ bindings = [j \in Jobs |-> None]

constructor == ~ governed /\ governed' = TRUE /\ UNCHANGED <<proposals, bindings>>

\* Mutated form: a proposal registered again starts over.
RegisterAgain(p, eta, window) ==
    /\ governed
    /\ proposals' = [proposals EXCEPT ![p] =
          [eta |-> eta, window |-> window, executed |-> FALSE]]
    /\ UNCHANGED <<governed, bindings>>

register(p, eta, window) ==
    /\ governed
    /\ proposals[p] = None
    /\ proposals' = [proposals EXCEPT ![p] =
          [eta |-> eta, window |-> window, executed |-> FALSE]]
    /\ UNCHANGED <<governed, bindings>>

bind(j, p) ==
    /\ governed
    /\ proposals[p] # None
    /\ bindings' = [bindings EXCEPT ![j] = p]
    /\ UNCHANGED <<governed, proposals>>

mark_executed(p) ==
    /\ governed
    /\ proposals[p] # None
    /\ proposals' = [proposals EXCEPT ![p].executed = TRUE]
    /\ UNCHANGED <<governed, bindings>>

state(p) ==
    LET r == proposals[p]
    IN  IF r = None THEN "Unknown"
        ELSE IF r.executed THEN "Executed"
        ELSE IF now < r.eta THEN "Queued"
        ELSE IF now < SatAdd(r.eta, r.window) THEN "Ready"
        ELSE "Expired"

should_run(j) == bindings[j] # None /\ state(bindings[j]) = "Ready"

Next ==
    \/ constructor
    \/ \E p \in Proposals :
          \/ \E eta \in Etas, w \in Windows : register(p, eta, w)
          \/ \E j \in Jobs : bind(j, p)
          \/ mark_executed(p)

-----------------------------------------------------------------------------

\* A proposal's window opens once and closes for good: once executed or expired
\* it is never ready again, nor is a job bound to it due, and once ready it is
\* never queued again.
WindowClosesForGood ==
    \A p \in Proposals :
        /\ state(p) \in {"Executed", "Expired"} => state(p)' \in {"Executed", "Expired"}
        /\ state(p) = "Ready" => state(p)' # "Queued"
        /\ \A j \in Jobs :
              (bindings[j] = p /\ bindings'[j] = p /\ state(p) \in {"Executed", "Expired"})
                  => ~ should_run(j)'
=============================================================================
