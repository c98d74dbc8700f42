----------------------------- MODULE DueTarget -----------------------------
(***************************************************************************)
(* What a contract that is its own resolver promises the keepers of its    *)
(* job, whatever it does inside: work is done only while should_run        *)
(* answered true, each run uses up its answer, and running one task        *)
(* changes no other task's answer.  A keeper that asks overlooks no run    *)
(* that would do something, and nothing is done twice for one answer.      *)
(* That a run it was told of succeeds is not promised.                     *)
(***************************************************************************)
EXTENDS Integers

CONSTANT Tasks      \* what can be run, one per argument of the job's call

VARIABLES
    due,        \* per task what should_run answers
    runs        \* per task how often it has run

Init == due = [t \in Tasks |-> FALSE] /\ runs = [t \in Tasks |-> 0]

Run(t) ==
    /\ due[t]
    /\ runs' = [runs EXCEPT ![t] = @ + 1]
    /\ due' = [due EXCEPT ![t] = FALSE]

\* Time, the market and the contract's users change what is due.
Change == runs' = runs /\ due' \in [Tasks -> BOOLEAN]

Next == Change \/ \E t \in Tasks : Run(t)

Spec == Init /\ [][Next]_<<due, runs>>
=============================================================================
