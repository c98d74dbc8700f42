----------------------------- MODULE MCSchedule -----------------------------
(* A week of 3 days of 2 hours of 2 minutes of 2 seconds is 24 seconds; the *)
(* sweep covers almost four of them.  Each case varies one input of a base  *)
(* case, since the functions are independent of each other.                 *)
EXTENDS ScheduleSweep

Base ==
    [cal |-> Daily(0, 0),
     job |-> [next_run |-> 0, interval |-> 1, fee_per_run |-> 2, max_fee_per_run |-> 0,
              balance |-> 2],
     epoch |-> 0]

MCCases ==
    {[Base EXCEPT !.cal = Daily(h, m)] : h \in 0..1, m \in 0..1}
    \cup {[Base EXCEPT !.cal = Weekly(w, h, m)] : w \in 0..2, h \in 0..1, m \in 0..1}
    \cup {[Base EXCEPT !.job = [next_run |-> n, interval |-> i, fee_per_run |-> 2,
                                max_fee_per_run |-> f, balance |-> b]] :
             n \in {0, 7, 33}, i \in {1, 5, 40, 61, 120}, f \in {0, 9, 40}, b \in {2, 30, 50}}
    \cup {[Base EXCEPT !.epoch = e] : e \in {1, 2, 7}}
=============================================================================
