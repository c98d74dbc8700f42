------------------------------- MODULE Escrow -------------------------------
(***************************************************************************)
(* What a contract that keeps other people's money promises them: its pool *)
(* is the sum of what it owes, and a step puts money in for one holder,    *)
(* pays out one holder's money, or moves it from one holder to another.    *)
(* No step touches anybody else's, and nobody is paid more than they have. *)
(***************************************************************************)
EXTENDS Integers

CONSTANT Holders

VARIABLES
    pool,       \* what the contract holds
    account     \* per holder what it owes

Init == pool = 0 /\ account = [h \in Holders |-> 0]

\* Money of h enters (pool rises) or leaves (pool falls).
Transfer(h) ==
    /\ account[h] + pool' - pool >= 0
    /\ account' = [account EXCEPT ![h] = @ + pool' - pool]

\* Money of h becomes money of g, without leaving the contract.
Assign(h, g) ==
    /\ pool' = pool
    /\ account'[h] \in 0..account[h]
    /\ account' = [account EXCEPT ![h] = account'[h], ![g] = @ + account[h] - account'[h]]

Next == \E h \in Holders : Transfer(h) \/ \E g \in Holders \ {h} : Assign(h, g)

Spec == Init /\ [][Next]_<<pool, account>>
=============================================================================
