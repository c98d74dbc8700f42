----------------------------- MODULE MCFailover -----------------------------
(* Endpoints that work, trail, are down, or answer probes and nothing else. *)
EXTENDS Failover

MCConditions ==
    {[serves |-> TRUE, ledger |-> 2], [serves |-> TRUE, ledger |-> 0],
     [serves |-> FALSE, ledger |-> None], [serves |-> FALSE, ledger |-> 2]}
=============================================================================
