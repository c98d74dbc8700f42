---------------------------- MODULE IndexProofs ----------------------------
(***************************************************************************)
(* The keeper's job index, for any number of jobs, events, ledgers and     *)
(* failing calls, any page sizes and any interleaving of the keeper's      *)
(* calls with the registry's: an index that has caught up knows every live *)
(* job and never thinks one richer than it is, unless load passed an event *)
(* over.                                                                   *)
(*                                                                         *)
(* An index reads jobs later than the events it goes on with, so it is     *)
(* never the registry's state at some event.  What is kept instead is that *)
(* whatever it has wrong about a job, a later event will put right.        *)
(***************************************************************************)
EXTENDS JobIndex, FiniteSetTheorems, SequenceTheorems, ListProofs

Resets == {"job_created", "job_updated", "job_cancelled"}
Switches == {"job_active_set", "job_deactivated"}
Totals == {"job_funded", "job_withdrawn", "job_exhausted"}
Runs == {"job_executed"}

Data ==
    [type : Resets \cup {"job_deactivated"}]
    \cup [type : {"job_active_set"}, active : BOOLEAN]
    \cup [type : Totals, balance : Int]
    \cup [type : Runs, next_run : Nat, run : Nat, fee : Nat]

Event == [job : JobIds, ledger : Nat, data : Data]

\* An event of one of the types about job j behind position c of the log L.
Later(L, j, c, types) == \E i \in (c + 1)..Len(L) : L[i].job = j /\ L[i].data.type \in types

\* What an index behind the c-th event may hold as job j, when the registry has y:
\* every difference is put right by an event behind c.  bound[c][j] is the balance
\* it may count on.
Near(L, y, bound, x, j, c) ==
    \/ Later(L, j, c, Resets)
    \/ x = None /\ y = None
    \/ /\ x \in Job /\ y \in Job /\ x.fee = y.fee
       /\ (x.next_run = y.next_run /\ x.runs = y.runs) \/ Later(L, j, c, Runs)
       /\ x.active = y.active \/ Later(L, j, c, Switches)
       /\ x.balance <= bound[c][j] \/ Later(L, j, c, Totals)

\* The last event of each sort about a job tells what the registry has.
LastWord(L, y, j, i) ==
    LET d == L[i].data
    IN  Later(L, j, i, Resets)
        \/ /\ d.type = "job_cancelled" <=> y = None
           /\ d.type \in Runs => (y.next_run = d.next_run /\ y.runs = d.run) \/ Later(L, j, i, Runs)
           /\ d.type \in Switches =>
                 y.active = (d.type = "job_active_set" /\ d.active) \/ Later(L, j, i, Switches)

\* How the balance an index may count on moves with an event about job j.
BoundStep(d, before, after) ==
    /\ d.type \in Totals => d.balance <= after
    /\ d.type \in Runs => before - d.fee <= after
    /\ d.type \in Switches => before <= after

FeedOK(L, J, bound) ==
    /\ L \in Seq(Event) /\ J \in [JobIds -> Job \cup {None}]
    /\ bound \in [0..Len(L) -> [JobIds -> Int]]
    /\ \A j \in JobIds : J[j] # None => J[j].balance = bound[Len(L)][j]
    /\ \A j \in JobIds : \A c \in 0..Len(L) : Near(L, J[j], bound, J[j], j, c)
    /\ \A i \in 1..Len(L) : LastWord(L, J[L[i].job], L[i].job, i)
    /\ \A i \in 1..Len(L) : \A j \in JobIds :
          IF L[i].job = j THEN BoundStep(L[i].data, bound[i - 1][j], bound[i][j])
          ELSE bound[i - 1][j] <= bound[i][j]

Sorted(L) == \A i, k \in 1..Len(L) : i <= k => L[i].ledger <= L[k].ledger

-----------------------------------------------------------------------------
(* Events. *)

\* What an event carries.
LEMMA DataFacts ==
  ASSUME NEW d \in Data
  PROVE  /\ d.type \in Resets \cup Switches \cup Totals \cup Runs
         /\ d.type \in Totals => d.balance \in Int
         /\ d.type \in Runs => d.next_run \in Nat /\ d.run \in Nat /\ d.fee \in Nat
         /\ d.type = "job_active_set" => d.active \in BOOLEAN
<1>1. CASE d \in [type : Resets \cup {"job_deactivated"}]
  BY <1>1 DEF Resets, Switches, Totals, Runs
<1>2. CASE d \in [type : {"job_active_set"}, active : BOOLEAN]
  BY <1>2 DEF Switches, Totals, Runs
<1>3. CASE d \in [type : Totals, balance : Int]
  BY <1>3 DEF Switches, Totals, Runs
<1>4. CASE d \in [type : Runs, next_run : Nat, run : Nat, fee : Nat]
  BY <1>4 DEF Switches, Totals, Runs
<1> QED BY <1>1, <1>2, <1>3, <1>4 DEF Data

\* The events of a log.
LEMMA EventFacts ==
  ASSUME NEW L \in Seq(Event), NEW i \in 1..Len(L)
  PROVE  L[i] \in Event /\ L[i].job \in JobIds /\ L[i].ledger \in Nat /\ L[i].data \in Data
<1>1. L[i] \in Event
  OBVIOUS
<1> QED BY <1>1 DEF Event

\* The next event, or a later one.
LEMMA LaterNext ==
  ASSUME NEW L \in Seq(Event), NEW c \in Nat, c < Len(L), NEW j, NEW types
  PROVE  Later(L, j, c, types)
            <=> ((L[c + 1].job = j /\ L[c + 1].data.type \in types) \/ Later(L, j, c + 1, types))
<1>1. Len(L) \in Nat
  OBVIOUS
<1>2. \A i : i \in (c + 1)..Len(L) <=> (i = c + 1 \/ i \in ((c + 1) + 1)..Len(L))
  BY <1>1
<1> QED BY <1>2 DEF Later

\* What comes later than p comes later than what is before p.
LEMMA LaterBefore ==
  ASSUME NEW L \in Seq(Event), NEW p \in Nat, NEW c \in 0..p, NEW j, NEW types, Later(L, j, p, types)
  PROVE  Later(L, j, c, types)
<1>1. Len(L) \in Nat
  OBVIOUS
<1>2. \A i \in (p + 1)..Len(L) : i \in (c + 1)..Len(L)
  BY <1>1
<1> QED BY <1>2 DEF Later

-----------------------------------------------------------------------------
(* Applying an event. *)

\* What apply makes of the index's x for job j, when the registry has y.
After(x, y, e) ==
    CASE e.data.type \in {"job_created", "job_updated"} -> IF y # None THEN y ELSE x
      [] e.data.type = "job_cancelled" -> None
      [] OTHER -> IF x = None THEN None ELSE Applied(x, e.data)

\* Which fields of an indexed job an event changes.
LEMMA AppliedFacts ==
  ASSUME NEW x \in Job, NEW d \in Data, d.type \notin Resets
  PROVE  LET z == Applied(x, d)
         IN  /\ z \in Job /\ z.fee = x.fee
             /\ IF d.type \in Runs THEN z.next_run = d.next_run /\ z.runs = d.run
                ELSE z.next_run = x.next_run /\ z.runs = x.runs
             /\ z.active = IF d.type \in Switches THEN d.type = "job_active_set" /\ d.active
                           ELSE x.active
             /\ z.balance = IF d.type \in Totals THEN d.balance
                            ELSE IF d.type \in Runs THEN x.balance - d.fee ELSE x.balance
<1>1. /\ d.type \in Switches \cup Totals \cup Runs
      /\ d.type \in Totals => d.balance \in Int
      /\ d.type \in Runs => d.next_run \in Nat /\ d.run \in Nat /\ d.fee \in Nat
      /\ d.type = "job_active_set" => d.active \in BOOLEAN
  BY DataFacts
<1>2. CASE d.type = "job_executed"
  <2>1. Applied(x, d) = [x EXCEPT !.next_run = d.next_run, !.runs = d.run, !.balance = @ - d.fee]
    BY <1>2 DEF Applied
  <2>2. d.next_run \in Nat /\ d.run \in Nat /\ d.fee \in Nat
    BY <1>1, <1>2 DEF Runs
  <2>3. x.balance \in Int /\ x.balance - d.fee \in Int
    BY <2>2 DEF Job
  <2>4. d.type \in Runs /\ d.type \notin Switches /\ d.type \notin Totals
    BY <1>2 DEF Runs, Switches, Totals
  <2> QED BY <2>1, <2>2, <2>3, <2>4 DEF Job
<1>3. CASE d.type \in Totals
  <2>1. Applied(x, d) = [x EXCEPT !.balance = d.balance]
    BY <1>3 DEF Applied, Totals
  <2> QED BY <1>1, <1>3, <2>1 DEF Job, Runs, Switches, Totals
<1>4. CASE d.type = "job_active_set"
  <2>1. Applied(x, d) = [x EXCEPT !.active = d.active]
    BY <1>4 DEF Applied
  <2> QED BY <1>1, <1>4, <2>1 DEF Job, Runs, Switches, Totals
<1>5. CASE d.type = "job_deactivated"
  <2>1. Applied(x, d) = [x EXCEPT !.active = FALSE]
    BY <1>5 DEF Applied
  <2> QED BY <1>1, <1>5, <2>1 DEF Job, Runs, Switches, Totals
<1> QED BY <1>1, <1>2, <1>3, <1>4, <1>5 DEF Switches, Runs

\* An event that is no reset, on a job the index has.
LEMMA AfterOther ==
  ASSUME NEW x, NEW y, NEW e, e.data.type \notin Resets
  PROVE  After(x, y, e) = IF x = None THEN None ELSE Applied(x, e.data)
  BY DEF After, Resets

\* Applying the next event: the index is as near behind it.
LEMMA Advance ==
  ASSUME NEW L, NEW J, NEW bound, FeedOK(L, J, bound), NEW p \in Nat, p < Len(L),
         NEW j \in JobIds, NEW x \in Job \cup {None}, Near(L, J[j], bound, x, j, p)
  PROVE  LET z == IF L[p + 1].job = j THEN After(x, J[j], L[p + 1]) ELSE x
         IN  z \in Job \cup {None} /\ Near(L, J[j], bound, z, j, p + 1)
<1> DEFINE e == L[p + 1]
           d == e.data
           y == J[j]
           late(types) == Later(L, j, p, types)
           later(types) == Later(L, j, p + 1, types)
<1>1. /\ L \in Seq(Event) /\ y \in Job \cup {None} /\ Len(L) \in Nat
      /\ bound \in [0..Len(L) -> [JobIds -> Int]]
  BY DEF FeedOK
<1>2. p + 1 \in 1..Len(L) /\ (p + 1) - 1 = p /\ p \in 0..Len(L) /\ p + 1 \in 0..Len(L)
  BY <1>1
<1>3. e \in Event /\ d \in Data
  BY <1>1, <1>2, EventFacts
<1>4. bound[p][j] \in Int /\ bound[p + 1][j] \in Int
  BY <1>1, <1>2
<1>5. IF e.job = j THEN BoundStep(d, bound[p][j], bound[p + 1][j])
      ELSE bound[p][j] <= bound[p + 1][j]
  BY <1>2 DEF FeedOK
<1>6. e.job = j => LastWord(L, y, j, p + 1)
  BY <1>2 DEF FeedOK
<1>7. \A types : late(types) <=> ((e.job = j /\ d.type \in types) \/ later(types))
  BY <1>1, LaterNext
<1>8. None \notin Job
  BY FeedAssumption
<1>9. CASE e.job # j
  <2>1. \A types : late(types) <=> later(types)
    BY <1>7, <1>9
  <2>2. ASSUME x \in Job PROVE x.balance \in Int
    BY <2>2 DEF Job
  <2>3. x \in Job /\ x.balance <= bound[p][j] => x.balance <= bound[p + 1][j]
    BY <1>4, <1>5, <1>9, <2>2
  <2> HIDE DEF e, y
  <2>4. Near(L, y, bound, x, j, p + 1)
    BY <2>1, <2>3 DEF Near, y
  <2> QED BY <1>9, <2>4 DEF e, y
<1>10. CASE e.job = j /\ d.type \in {"job_created", "job_updated"}
  <2>1. After(x, y, e) = IF y # None THEN y ELSE x
    BY <1>10 DEF After
  <2>2. Near(L, y, bound, y, j, p + 1)
    BY <1>2 DEF FeedOK
  <2>3. y = None => later(Resets)
    BY <1>6, <1>10 DEF LastWord
  <2> HIDE DEF e, y, d
  <2>4. y = None => Near(L, y, bound, x, j, p + 1)
    BY <2>3 DEF Near
  <2> QED BY <1>1, <1>10, <2>1, <2>2, <2>4 DEF e, y
<1>11. CASE e.job = j /\ d.type = "job_cancelled"
  <2>1. After(x, y, e) = None
    BY <1>11 DEF After
  <2>2. y = None \/ later(Resets)
    BY <1>6, <1>11 DEF LastWord
  <2> HIDE DEF e, y, d
  <2>3. Near(L, y, bound, None, j, p + 1)
    BY <2>2 DEF Near
  <2> QED BY <1>11, <2>1, <2>3 DEF e, y
<1>12. CASE e.job = j /\ d.type \notin Resets
  <2>1. After(x, y, e) = IF x = None THEN None ELSE Applied(x, d)
    BY <1>12, AfterOther
  <2>2. late(Resets) <=> later(Resets)
    BY <1>7, <1>12
  <2> HIDE DEF e, y, d
  <2>3. CASE late(Resets)
    <3>1. \A z : Near(L, y, bound, z, j, p + 1)
      BY <2>2, <2>3 DEF Near
    <3>2. x \in Job => Applied(x, d) \in Job
      BY <1>3, <1>12, AppliedFacts
    <3> QED BY <1>12, <2>1, <3>1, <3>2 DEF e, y
  <2>4. CASE ~ late(Resets) /\ x = None
    <3>1. y = None
      BY <1>8, <2>4 DEF Near, y
    <3>2. Near(L, y, bound, None, j, p + 1)
      BY <3>1 DEF Near
    <3> QED BY <1>12, <2>1, <2>4, <3>2 DEF e, y
  <2>5. CASE ~ late(Resets) /\ x # None
    <3> DEFINE z == Applied(x, d)
    <3>1. /\ x \in Job /\ y \in Job /\ x.fee = y.fee
          /\ (x.next_run = y.next_run /\ x.runs = y.runs) \/ late(Runs)
          /\ x.active = y.active \/ late(Switches)
          /\ x.balance <= bound[p][j] \/ late(Totals)
      BY <2>5 DEF Near, y
    <3>2. /\ z \in Job /\ z.fee = x.fee
          /\ IF d.type \in Runs THEN z.next_run = d.next_run /\ z.runs = d.run
             ELSE z.next_run = x.next_run /\ z.runs = x.runs
          /\ z.active = IF d.type \in Switches THEN d.type = "job_active_set" /\ d.active
                        ELSE x.active
          /\ z.balance = IF d.type \in Totals THEN d.balance
                         ELSE IF d.type \in Runs THEN x.balance - d.fee ELSE x.balance
      BY <1>3, <1>12, <3>1, AppliedFacts
    <3>3. /\ d.type \in Runs => (y.next_run = d.next_run /\ y.runs = d.run) \/ later(Runs)
          /\ d.type \in Switches =>
                y.active = (d.type = "job_active_set" /\ d.active) \/ later(Switches)
      BY <1>6, <1>12, <2>2, <2>5 DEF LastWord, d, e
    <3>4. z.balance <= bound[p + 1][j] \/ later(Totals)
      <4>1. x.balance \in Int
        BY <3>1 DEF Job
      <4>2. /\ d.type \in Switches \cup Totals \cup Runs
            /\ d.type \in Totals => d.balance \in Int
            /\ d.type \in Runs => d.fee \in Nat
        BY <1>3, <1>12, DataFacts
      <4>3. /\ d.type \in Totals => d.balance <= bound[p + 1][j]
            /\ d.type \in Runs => bound[p][j] - d.fee <= bound[p + 1][j]
            /\ d.type \in Switches => bound[p][j] <= bound[p + 1][j]
        BY <1>5, <1>12 DEF BoundStep
      <4>4. CASE d.type \in Totals
        BY <3>2, <4>3, <4>4
      <4>5. CASE d.type \notin Totals /\ late(Totals)
        BY <1>7, <4>5
      <4>6. CASE d.type \in Runs /\ d.type \notin Totals /\ ~ late(Totals)
        <5>1. z.balance = x.balance - d.fee /\ x.balance <= bound[p][j]
              /\ bound[p][j] - d.fee <= bound[p + 1][j] /\ d.fee \in Nat
          BY <3>1, <3>2, <4>2, <4>3, <4>6
        <5> HIDE DEF z
        <5> QED BY <1>4, <4>1, <5>1
      <4>7. CASE d.type \in Switches /\ d.type \notin Totals /\ d.type \notin Runs /\ ~ late(Totals)
        <5>1. z.balance = x.balance /\ x.balance <= bound[p][j] /\ bound[p][j] <= bound[p + 1][j]
          BY <3>1, <3>2, <4>3, <4>7
        <5> HIDE DEF z
        <5> QED BY <1>4, <4>1, <5>1
      <4> QED BY <4>2, <4>4, <4>5, <4>6, <4>7
    <3>5. (z.next_run = y.next_run /\ z.runs = y.runs) \/ later(Runs)
      BY <1>7, <3>1, <3>2, <3>3
    <3>6. z.active = y.active \/ later(Switches)
      BY <1>7, <3>1, <3>2, <3>3
    <3> HIDE DEF z
    <3>7. Near(L, y, bound, z, j, p + 1)
      BY <3>1, <3>2, <3>4, <3>5, <3>6 DEF Near
    <3> QED BY <1>12, <2>1, <2>5, <3>2, <3>7 DEF e, y, z
  <2> QED BY <2>3, <2>4, <2>5
<1> QED BY <1>9, <1>10, <1>11, <1>12 DEF Resets

\* Applying an event leaves the index as near behind earlier ones: those between
\* them may be applied again.
LEMMA Again ==
  ASSUME NEW L, NEW J, NEW bound, FeedOK(L, J, bound), NEW p \in Nat, p < Len(L),
         NEW c \in 0..p,
         NEW j \in JobIds, NEW x \in Job \cup {None}, Near(L, J[j], bound, x, j, c)
  PROVE  LET z == IF L[p + 1].job = j THEN After(x, J[j], L[p + 1]) ELSE x
         IN  Near(L, J[j], bound, z, j, c)
<1> DEFINE e == L[p + 1]
           d == e.data
           y == J[j]
           late(types) == Later(L, j, c, types)
<1>1. /\ L \in Seq(Event) /\ y \in Job \cup {None} /\ Len(L) \in Nat
      /\ bound \in [0..Len(L) -> [JobIds -> Int]]
  BY DEF FeedOK
<1>2. e \in Event /\ d \in Data
  <2>1. p + 1 \in 1..Len(L)
    BY <1>1
  <2> QED BY <1>1, <2>1, EventFacts
<1>3. bound[c][j] \in Int
  BY <1>1
<1> SUFFICES ASSUME e.job = j PROVE Near(L, J[j], bound, After(x, J[j], e), j, c)
  OBVIOUS
<1>4. \A types : d.type \in types => late(types)
  <2>1. \A types : d.type \in types => Later(L, j, p, types)
    BY <1>1, LaterNext
  <2> QED BY <1>1, <2>1, LaterBefore
<1> HIDE DEF e, d, y
<1>5. CASE late(Resets)
  BY <1>5 DEF Near
<1>6. CASE ~ late(Resets)
  <2>1. d.type \notin Resets
    BY <1>4, <1>6
  <2>2. After(x, J[j], e) = IF x = None THEN None ELSE Applied(x, d)
    BY <2>1, AfterOther DEF d
  <2>3. CASE x = None
    BY <2>2, <2>3
  <2>4. CASE x # None
    <3> DEFINE z == Applied(x, d)
    <3>1. /\ x \in Job /\ y \in Job /\ x.fee = y.fee
          /\ (x.next_run = y.next_run /\ x.runs = y.runs) \/ late(Runs)
          /\ x.active = y.active \/ late(Switches)
          /\ x.balance <= bound[c][j] \/ late(Totals)
      BY <1>6, <2>4 DEF Near, y
    <3>2. /\ z \in Job /\ z.fee = x.fee
          /\ d.type \notin Runs => z.next_run = x.next_run /\ z.runs = x.runs
          /\ d.type \notin Switches => z.active = x.active
          /\ d.type \notin Totals /\ d.type \in Runs => z.balance = x.balance - d.fee
          /\ d.type \notin Totals /\ d.type \notin Runs => z.balance = x.balance
      BY <1>2, <2>1, <3>1, AppliedFacts
    <3>3. x.balance \in Int /\ (d.type \in Runs => d.fee \in Nat)
      BY <1>2, <3>1, DataFacts DEF Job
    <3> HIDE DEF z
    <3>4. z.balance <= bound[c][j] \/ late(Totals)
      <4>1. CASE d.type \in Totals
        BY <1>4, <4>1
      <4>2. CASE d.type \notin Totals
        BY <1>3, <3>1, <3>2, <3>3, <4>2
      <4> QED BY <4>1, <4>2
    <3>5. (z.next_run = y.next_run /\ z.runs = y.runs) \/ late(Runs)
      BY <1>4, <3>1, <3>2
    <3>6. z.active = y.active \/ late(Switches)
      BY <1>4, <3>1, <3>2
    <3>7. Near(L, y, bound, z, j, c)
      BY <3>1, <3>2, <3>4, <3>5, <3>6 DEF Near
    <3> QED BY <2>2, <2>4, <3>7 DEF y, z
  <2> QED BY <2>3, <2>4
<1> QED BY <1>5, <1>6

-----------------------------------------------------------------------------
(* A call of the registry. *)

\* The log L2 is L with the events `data` about job j, published in ledger `led`.
Grown(L, L2, j, led, data) ==
    /\ L \in Seq(Event) /\ L2 \in Seq(Event) /\ Len(data) \in Nat \ {0}
    /\ Len(L) \in Nat /\ Len(L2) = Len(L) + Len(data)
    /\ \A i \in 1..Len(L) : L2[i] = L[i]
    /\ \A n \in 1..Len(data) : /\ L2[Len(L) + n].job = j /\ L2[Len(L) + n].ledger = led
                               /\ L2[Len(L) + n].data = data[n]

\* Publishing grows the log.
LEMMA PublishGrows ==
  ASSUME NEW L \in Seq(Event), NEW j \in JobIds, NEW led \in Nat,
         NEW data \in Seq(Data), data # <<>>
  PROVE  Grown(L, L \o [n \in 1..Len(data) |-> [job |-> j, ledger |-> led, data |-> data[n]]],
               j, led, data)
<1> DEFINE t == [n \in 1..Len(data) |-> [job |-> j, ledger |-> led, data |-> data[n]]]
<1>1. Len(data) \in Nat \ {0} /\ \A n \in 1..Len(data) : data[n] \in Data
  OBVIOUS
<1>2. \A n \in 1..Len(data) : [job |-> j, ledger |-> led, data |-> data[n]] \in Event
  BY <1>1 DEF Event
<1>3. /\ t \in Seq(Event) /\ Len(t) = Len(data)
      /\ \A n \in 1..Len(data) : t[n] = [job |-> j, ledger |-> led, data |-> data[n]]
  BY <1>1, <1>2
<1> HIDE DEF t
<1>4. /\ L \o t \in Seq(Event) /\ Len(L \o t) = Len(L) + Len(t) /\ Len(L) \in Nat
      /\ \A i \in 1..(Len(L) + Len(t)) : (L \o t)[i] = IF i <= Len(L) THEN L[i] ELSE t[i - Len(L)]
  BY <1>3
<1>5. \A i \in 1..Len(L) : (L \o t)[i] = L[i]
  BY <1>1, <1>3, <1>4
<1>6. \A n \in 1..Len(data) : (L \o t)[Len(L) + n] = t[n]
  BY <1>1, <1>3, <1>4
<1>7. \A n \in 1..Len(data) : t[n].job = j /\ t[n].ledger = led /\ t[n].data = data[n]
  <2> SUFFICES ASSUME NEW n \in 1..Len(data)
               PROVE  t[n].job = j /\ t[n].ledger = led /\ t[n].data = data[n]
    OBVIOUS
  <2>1. t[n] = [job |-> j, ledger |-> led, data |-> data[n]]
    BY <1>3
  <2> QED BY <2>1
<1> QED BY <1>1, <1>3, <1>4, <1>5, <1>6, <1>7 DEF Grown, t

\* What a call that leaves the job as `new` may publish: one event after which the
\* index reads the job or drops it, or events that tell every change of it, under
\* balances g that an index may count on in between.
Tells(old, new, data, g) ==
    LET m == Len(data)
    IN  \/ /\ m = 1 /\ data[1].type \in Resets
           /\ data[1].type = "job_cancelled" <=> new = None
           /\ new # None => g[1] = new.balance
        \/ /\ old \in Job /\ new \in Job /\ new.fee = old.fee
           /\ \A n \in 1..m : /\ data[n].type \notin Resets
                              /\ data[n].type \in Runs =>
                                    new.next_run = data[n].next_run /\ new.runs = data[n].run
                              /\ data[n].type \in Switches =>
                                    new.active = (data[n].type = "job_active_set" /\ data[n].active)
                              /\ BoundStep(data[n], g[n - 1], g[n])
           /\ (new.next_run = old.next_run /\ new.runs = old.runs)
              \/ \E n \in 1..m : data[n].type \in Runs
           /\ new.active = old.active \/ \E n \in 1..m : data[n].type \in Switches
           /\ g[0] = old.balance /\ g[m] = new.balance
           /\ \A n \in 0..m : new.balance <= g[n] \/ \E k \in (n + 1)..m : data[k].type \in Totals

\* The events behind a position, after the call.
LEMMA GrownLater ==
  ASSUME NEW L, NEW L2, NEW j, NEW led, NEW data, Grown(L, L2, j, led, data)
  PROVE  /\ \A k, types : \A c \in Nat : Later(L, k, c, types) => Later(L2, k, c, types)
         /\ \A types : \A c \in Nat : \A n \in 1..Len(data) :
               c < Len(L) + n /\ data[n].type \in types => Later(L2, j, c, types)
<1>1. /\ Len(data) \in Nat \ {0} /\ Len(L) \in Nat /\ Len(L2) = Len(L) + Len(data)
      /\ \A i \in 1..Len(L) : L2[i] = L[i]
      /\ \A n \in 1..Len(data) : L2[Len(L) + n].job = j /\ L2[Len(L) + n].data = data[n]
  BY DEF Grown
<1>2. ASSUME NEW k, NEW types, NEW c \in Nat, Later(L, k, c, types) PROVE Later(L2, k, c, types)
  <2>1. PICK i \in (c + 1)..Len(L) : L[i].job = k /\ L[i].data.type \in types
    BY <1>2 DEF Later
  <2>2. i \in 1..Len(L) /\ i \in (c + 1)..Len(L2)
    BY <1>1
  <2>3. L2[i] = L[i]
    BY <1>1, <2>2
  <2> QED BY <2>1, <2>2, <2>3 DEF Later
<1>3. ASSUME NEW types, NEW c \in Nat, NEW n \in 1..Len(data), c < Len(L) + n, data[n].type \in types
      PROVE  Later(L2, j, c, types)
  <2>1. Len(L) + n \in (c + 1)..Len(L2)
    BY <1>1, <1>3
  <2>2. L2[Len(L) + n].job = j /\ L2[Len(L) + n].data = data[n]
    BY <1>1
  <2> QED BY <1>3, <2>1, <2>2 DEF Later
<1> QED BY <1>2, <1>3

\* A call that tells what it does keeps the feed in order, and every index as near
\* as it was.
LEMMA CallKeeps ==
  ASSUME NEW L, NEW J, NEW bound, FeedOK(L, J, bound), NEW j \in JobIds, NEW led, NEW data,
         NEW L2, Grown(L, L2, j, led, data), NEW new \in Job \cup {None},
         NEW g \in [0..Len(data) -> Int], Tells(J[j], new, data, g),
         NEW J2, J2 = [J EXCEPT ![j] = new]
  PROVE  \E b2 : /\ FeedOK(L2, J2, b2)
                 /\ \A k \in JobIds : \A c \in 0..Len(L) : \A x :
                       Near(L, J[k], bound, x, k, c) => Near(L2, J2[k], b2, x, k, c)
<1> DEFINE N == Len(L)
           m == Len(data)
           old == J[j]
           b2 == [c \in 0..(N + m) |-> IF c <= N THEN bound[c]
                                       ELSE [bound[N] EXCEPT ![j] = g[c - N]]]
           late(k, c, types) == Later(L, k, c, types)
           late2(k, c, types) == Later(L2, k, c, types)
           Reset == /\ m = 1 /\ data[1].type \in Resets
                    /\ data[1].type = "job_cancelled" <=> new = None
                    /\ new # None => g[1] = new.balance
           Facts == /\ \A n \in 1..m : /\ data[n].type \notin Resets
                                       /\ data[n].type \in Runs =>
                                            new.next_run = data[n].next_run /\ new.runs = data[n].run
                                       /\ data[n].type \in Switches =>
                                            new.active = (data[n].type = "job_active_set" /\ data[n].active)
                                       /\ BoundStep(data[n], g[n - 1], g[n])
                    /\ g[0] = old.balance /\ g[m] = new.balance
                    /\ \A n \in 0..m : new.balance <= g[n] \/ \E k \in (n + 1)..m : data[k].type \in Totals
           Moves == /\ old \in Job /\ new \in Job /\ new.fee = old.fee
                    /\ (new.next_run = old.next_run /\ new.runs = old.runs)
                       \/ \E n \in 1..m : data[n].type \in Runs
                    /\ new.active = old.active \/ \E n \in 1..m : data[n].type \in Switches
<1>1. /\ L \in Seq(Event) /\ J \in [JobIds -> Job \cup {None}]
      /\ bound \in [0..N -> [JobIds -> Int]]
      /\ \A k \in JobIds : J[k] # None => J[k].balance = bound[N][k]
  BY DEF FeedOK
<1>2. /\ \A k \in JobIds : \A c \in 0..N : Near(L, J[k], bound, J[k], k, c)
      /\ \A i \in 1..N : LastWord(L, J[L[i].job], L[i].job, i)
      /\ \A i \in 1..N : \A k \in JobIds :
            IF L[i].job = k THEN BoundStep(L[i].data, bound[i - 1][k], bound[i][k])
            ELSE bound[i - 1][k] <= bound[i][k]
  BY DEF FeedOK
<1>3. /\ L2 \in Seq(Event) /\ m \in Nat \ {0} /\ N \in Nat /\ Len(L2) = N + m
      /\ \A i \in 1..N : L2[i] = L[i]
      /\ \A n \in 1..m : L2[N + n].job = j /\ L2[N + n].data = data[n]
  BY DEF Grown
<1>4. /\ \A k, types : \A c \in Nat : late(k, c, types) => late2(k, c, types)
      /\ \A types : \A c \in Nat : \A n \in 1..m :
            c < N + n /\ data[n].type \in types => late2(j, c, types)
  BY GrownLater
<1>5. Reset \/ (Moves /\ Facts)
  BY DEF Tells
<1>6. None \notin Job
  BY FeedAssumption
<1>7. /\ J2 \in [JobIds -> Job \cup {None}] /\ J2[j] = new
      /\ \A k \in JobIds : k # j => J2[k] = J[k]
  BY <1>1
<1> HIDE DEF N, m, late, late2
<1>8. /\ \A c \in 0..N : c \in Nat /\ c \in 0..(N + m)
      /\ \A n \in 1..m : N + n \in 0..(N + m) /\ ~ (N + n <= N) /\ (N + n) - N = n /\ N + n \in Nat
                         /\ n \in 0..m
      /\ \A n \in 0..(m - 1) : n \in 0..m
      /\ N \in 0..N
  BY <1>3
<1>9. \A c \in 0..N : b2[c] = bound[c]
  BY <1>8
<1>10. \A n \in 1..m : b2[N + n] = [bound[N] EXCEPT ![j] = g[n]]
  BY <1>8
<1>11. \A n \in 1..m : /\ b2[N + n][j] = g[n]
                       /\ \A k \in JobIds : k # j => b2[N + n][k] = bound[N][k]
  BY <1>1, <1>8, <1>10
<1>12. b2 \in [0..(N + m) -> [JobIds -> Int]]
  <2>1. \A c \in 0..(N + m) : c <= N \/ c - N \in 0..m
    BY <1>3
  <2>2. \A c \in 0..(N + m) : c <= N => c \in 0..N
    BY <1>3
  <2>3. g \in [0..m -> Int]
    BY DEF m
  <2> QED BY <1>1, <1>8, <2>1, <2>2, <2>3
<1> HIDE DEF b2
<1>13. \A c : c \in 0..(N + m) => c \in 0..N \/ \E n \in 1..m : c = N + n
  <2> SUFFICES ASSUME NEW c \in 0..(N + m), c \notin 0..N PROVE \E n \in 1..m : c = N + n
    OBVIOUS
  <2>1. c - N \in 1..m /\ c = N + (c - N)
    BY <1>3
  <2> QED BY <2>1
<1>14. \A c \in 0..N : \A n \in 1..m : c < N + n
  BY <1>3
<1>15. Reset => \A c \in 0..N : late2(j, c, Resets)
  <2> SUFFICES ASSUME Reset, NEW c \in 0..N PROVE late2(j, c, Resets)
    OBVIOUS
  <2>1. 1 \in 1..m /\ data[1].type \in Resets /\ c < N + 1
    BY <1>3, <1>14
  <2> QED BY <1>4, <1>8, <2>1
<1>16. Moves => old.balance \in Int /\ new.balance \in Int
  BY DEF Job
<1>17. ASSUME NEW k \in JobIds, NEW c \in 0..N, NEW x, Near(L, J[k], bound, x, k, c)
       PROVE  Near(L2, J2[k], b2, x, k, c)
  <2>1. b2[c] = bound[c] /\ c \in Nat
    BY <1>8, <1>9
  <2>2. \A types : late(k, c, types) => late2(k, c, types)
    BY <1>4, <2>1
  <2>3. CASE k # j
    BY <1>7, <1>17, <2>1, <2>2, <2>3 DEF Near, late, late2
  <2>4. CASE k = j /\ Reset
    BY <1>15, <2>4 DEF Near, late2
  <2>5. CASE k = j /\ Moves /\ late(j, c, Resets)
    BY <2>2, <2>5 DEF Near, late2
  <2>6. CASE k = j /\ Moves /\ ~ late(j, c, Resets)
    <3>1. /\ x \in Job /\ x.fee = old.fee
          /\ (x.next_run = old.next_run /\ x.runs = old.runs) \/ late(j, c, Runs)
          /\ x.active = old.active \/ late(j, c, Switches)
          /\ x.balance <= bound[c][j] \/ late(j, c, Totals)
      <4>1. Near(L, old, bound, x, j, c) /\ old # None
        BY <1>6, <1>17, <2>6
      <4> HIDE DEF old
      <4> QED BY <2>6, <4>1 DEF Near, late
    <3>2. \A types : (\E n \in 1..m : data[n].type \in types) => late2(j, c, types)
      BY <1>4, <1>14, <2>1
    <3>3. new \in Job /\ x.fee = new.fee
      BY <2>6, <3>1
    <3>4. (x.next_run = new.next_run /\ x.runs = new.runs) \/ late2(j, c, Runs)
      BY <2>2, <2>6, <3>1, <3>2
    <3>5. x.active = new.active \/ late2(j, c, Switches)
      BY <2>2, <2>6, <3>1, <3>2
    <3>6. x.balance <= b2[c][j] \/ late2(j, c, Totals)
      BY <2>1, <2>2, <2>6, <3>1
    <3> QED BY <1>7, <2>6, <3>1, <3>3, <3>4, <3>5, <3>6 DEF Near, late2
  <2> QED BY <1>5, <2>3, <2>4, <2>5, <2>6
<1>18. ASSUME NEW k \in JobIds, NEW c \in 0..(N + m) PROVE Near(L2, J2[k], b2, J2[k], k, c)
  <2>1. CASE k # j /\ c \in 0..N
    BY <1>2, <1>7, <1>17, <2>1
  <2>2. CASE k # j /\ c \notin 0..N
    <3>1. b2[c][k] = bound[N][k] /\ J2[k] = J[k] /\ bound[N][k] \in Int
      <4>1. PICK n \in 1..m : c = N + n
        BY <1>13, <2>2
      <4> QED BY <1>1, <1>7, <1>8, <1>11, <2>2, <4>1
    <3>2. J[k] # None => J[k] \in Job /\ J[k].balance <= b2[c][k]
      BY <1>1, <3>1
    <3> QED BY <3>1, <3>2 DEF Near
  <2>3. CASE k = j /\ Reset /\ c \in 0..N
    BY <1>15, <2>3 DEF Near, late2
  <2>4. CASE k = j /\ Reset /\ c \notin 0..N
    <3>1. PICK n \in 1..m : c = N + n
      BY <1>13, <2>4
    <3>2. n = 1
      BY <2>4, <3>1
    <3>3. b2[c][j] = g[1]
      BY <1>11, <3>1, <3>2
    <3>4. new # None => new \in Job /\ new.balance \in Int /\ new.balance <= b2[c][j]
      <4>1. new # None => new \in Job /\ new.balance \in Int
        BY DEF Job
      <4> QED BY <2>4, <3>3, <4>1
    <3> QED BY <1>7, <2>4, <3>4 DEF Near
  <2>5. CASE k = j /\ Moves /\ Facts /\ c \in 0..N
    <3>1. Near(L, old, bound, old, j, c) /\ old # None /\ old \in Job
      BY <1>2, <1>6, <2>5
    <3>2. late(j, c, Resets) \/ old.balance <= bound[c][j] \/ late(j, c, Totals)
      <4> HIDE DEF old
      <4> QED BY <3>1 DEF Near, late
    <3>3. new.balance <= old.balance \/ late2(j, c, Totals)
      <4>1. 0 \in 0..m /\ 0 + 1 = 1
        BY <1>3
      <4>2. new.balance <= g[0] \/ \E i \in 1..m : data[i].type \in Totals
        BY <2>5, <4>1
      <4>3. (\E n \in 1..m : data[n].type \in Totals) => late2(j, c, Totals)
        BY <1>4, <1>8, <1>14, <2>5
      <4> QED BY <2>5, <4>2, <4>3
    <3>4. new.balance <= b2[c][j] \/ late2(j, c, Totals) \/ late2(j, c, Resets)
      <4>1. bound[c][j] \in Int /\ b2[c][j] = bound[c][j]
        BY <1>1, <1>9, <2>5
      <4>2. \A types : late(j, c, types) => late2(j, c, types)
        BY <1>4, <1>8, <2>5
      <4>3. old.balance \in Int /\ new.balance \in Int
        BY <1>16, <2>5
      <4> HIDE DEF old
      <4> QED BY <3>2, <3>3, <4>1, <4>2, <4>3
    <3> QED BY <1>7, <2>5, <3>4 DEF Near, late2
  <2>6. CASE k = j /\ Moves /\ Facts /\ c \notin 0..N
    <3>1. PICK n \in 1..m : c = N + n
      BY <1>13, <2>6
    <3>2. b2[c][j] = g[n] /\ n \in 0..m
      BY <1>8, <1>11, <3>1
    <3>3. new.balance <= g[n] \/ \E i \in (n + 1)..m : data[i].type \in Totals
      BY <2>6, <3>2
    <3>4. (\E i \in (n + 1)..m : data[i].type \in Totals) => late2(j, c, Totals)
      <4> SUFFICES ASSUME NEW i \in (n + 1)..m, data[i].type \in Totals PROVE late2(j, c, Totals)
        OBVIOUS
      <4>1. i \in 1..m /\ c \in Nat /\ c < N + i
        BY <1>3, <3>1
      <4> QED BY <1>4, <4>1
    <3> QED BY <1>7, <2>6, <3>2, <3>3, <3>4 DEF Near, late2
  <2> QED BY <1>5, <2>1, <2>2, <2>3, <2>4, <2>5, <2>6
<1>19. ASSUME NEW i \in 1..(N + m) PROVE LastWord(L2, J2[L2[i].job], L2[i].job, i)
  <2>1. CASE i \in 1..N
    <3> DEFINE k == L[i].job
    <3>1. L2[i] = L[i] /\ i \in Nat /\ i \in 0..N /\ k \in JobIds
      BY <1>1, <1>3, <2>1, EventFacts DEF N
    <3>2. LastWord(L, J[k], k, i)
      BY <1>2, <2>1
    <3>3. \A types : late(k, i, types) => late2(k, i, types)
      BY <1>4, <3>1
    <3>4. CASE k # j
      <4>1. J2[k] = J[k]
        BY <1>7, <3>1, <3>4
      <4> QED BY <3>1, <3>2, <3>3, <4>1 DEF LastWord, late, late2
    <3>5. CASE k = j /\ Reset
      <4>1. late2(k, i, Resets)
        BY <1>15, <3>1, <3>5
      <4> QED BY <3>1, <4>1 DEF LastWord, late2
    <3>6. CASE k = j /\ Moves
      <4>1. \A types : (\E n \in 1..m : data[n].type \in types) => late2(k, i, types)
        BY <1>4, <1>14, <3>1, <3>6
      <4> DEFINE d == L[i].data
      <4>2. \/ late(k, i, Resets)
            \/ /\ d.type = "job_cancelled" <=> old = None
               /\ d.type \in Runs => (old.next_run = d.next_run /\ old.runs = d.run) \/ late(k, i, Runs)
               /\ d.type \in Switches =>
                     old.active = (d.type = "job_active_set" /\ d.active) \/ late(k, i, Switches)
        BY <3>2, <3>6 DEF LastWord, late
      <4>3. old # None /\ new # None
        BY <1>6, <3>6
      <4> HIDE DEF d, old, k
      <4>4. \/ late2(k, i, Resets)
            \/ /\ d.type = "job_cancelled" <=> new = None
               /\ d.type \in Runs => (new.next_run = d.next_run /\ new.runs = d.run) \/ late2(k, i, Runs)
               /\ d.type \in Switches =>
                     new.active = (d.type = "job_active_set" /\ d.active) \/ late2(k, i, Switches)
        BY <3>3, <3>6, <4>1, <4>2, <4>3
      <4> QED BY <1>7, <3>1, <3>6, <4>4 DEF LastWord, late2, d, k
    <3> QED BY <1>5, <3>4, <3>5, <3>6
  <2>2. CASE i \notin 1..N
    <3>1. PICK n \in 1..m : i = N + n
      <4>1. i - N \in 1..m /\ i = N + (i - N)
        BY <1>3, <2>2
      <4> QED BY <4>1
    <3>2. L2[i].job = j /\ L2[i].data = data[n]
      BY <1>3, <3>1
    <3>3. CASE Reset
      <4>1. n = 1
        BY <3>1, <3>3
      <4>2. data[n].type \notin Runs /\ data[n].type \notin Switches
        BY <3>3, <4>1 DEF Resets, Runs, Switches
      <4> QED BY <1>7, <3>2, <3>3, <4>1, <4>2 DEF LastWord
    <3>4. CASE Moves /\ Facts
      <4>1. data[n].type # "job_cancelled" /\ new # None
        BY <1>6, <3>4 DEF Resets
      <4> QED BY <1>7, <3>2, <3>4, <4>1 DEF LastWord
    <3> QED BY <1>5, <3>3, <3>4
  <2> QED BY <2>1, <2>2
<1>20. ASSUME NEW i \in 1..(N + m), NEW k \in JobIds
       PROVE  IF L2[i].job = k THEN BoundStep(L2[i].data, b2[i - 1][k], b2[i][k])
              ELSE b2[i - 1][k] <= b2[i][k]
  <2>1. CASE i \in 1..N
    <3>1. L2[i] = L[i] /\ b2[i] = bound[i] /\ b2[i - 1] = bound[i - 1]
      <4>1. i \in 0..N /\ i - 1 \in 0..N
        BY <1>3, <2>1
      <4> QED BY <1>3, <1>9, <2>1, <4>1
    <3> QED BY <1>2, <2>1, <3>1
  <2>2. CASE i \notin 1..N
    <3>1. PICK n \in 1..m : i = N + n
      <4>1. i - N \in 1..m /\ i = N + (i - N)
        BY <1>3, <2>2
      <4> QED BY <4>1
    <3>2. L2[i].job = j /\ L2[i].data = data[n] /\ b2[i][j] = g[n]
          /\ (k # j => b2[i][k] = bound[N][k])
      BY <1>3, <1>11, <3>1
    <3>3. k # j => b2[i - 1][k] = bound[N][k] /\ bound[N][k] \in Int
      <4>1. CASE n = 1
        <5>1. i - 1 = N
          BY <1>3, <3>1, <4>1
        <5> QED BY <1>1, <1>8, <1>9, <5>1
      <4>2. CASE n # 1
        <5>1. n - 1 \in 1..m /\ i - 1 = N + (n - 1)
          BY <1>3, <3>1, <4>2
        <5> QED BY <1>1, <1>8, <1>11, <5>1
      <4> QED BY <4>1, <4>2
    <3>4. CASE k # j
      BY <3>2, <3>3, <3>4
    <3>5. CASE k = j /\ Reset
      <4>1. data[n].type \notin Totals /\ data[n].type \notin Runs /\ data[n].type \notin Switches
        <5>1. n = 1
          BY <3>1, <3>5
        <5> QED BY <3>5, <5>1 DEF Resets, Totals, Runs, Switches
      <4> QED BY <3>2, <3>5, <4>1 DEF BoundStep
    <3>6. CASE k = j /\ Moves /\ Facts
      <4>1. b2[i - 1][j] = g[n - 1]
        <5>1. CASE n = 1
          <6>1. i - 1 = N /\ n - 1 = 0
            BY <1>3, <3>1, <5>1
          <6>2. old # None
            BY <1>6, <3>6
          <6> QED BY <1>1, <1>8, <1>9, <3>6, <6>1, <6>2
        <5>2. CASE n # 1
          <6>1. n - 1 \in 1..m /\ i - 1 = N + (n - 1)
            BY <1>3, <3>1, <5>2
          <6> QED BY <1>11, <6>1
        <5> QED BY <5>1, <5>2
      <4> QED BY <3>2, <3>6, <4>1
    <3> QED BY <1>5, <3>4, <3>5, <3>6
  <2> QED BY <2>1, <2>2
<1>21. ASSUME NEW k \in JobIds, J2[k] # None PROVE J2[k].balance = b2[N + m][k]
  <2>1. m \in 1..m
    BY <1>3
  <2>2. CASE k # j
    BY <1>1, <1>7, <1>11, <1>21, <2>1, <2>2
  <2>3. CASE k = j
    BY <1>5, <1>7, <1>11, <1>21, <2>1, <2>3
  <2> QED BY <2>2, <2>3
<1>22. FeedOK(L2, J2, b2)
  BY <1>3, <1>7, <1>12, <1>18, <1>19, <1>20, <1>21 DEF FeedOK
<1> QED BY <1>17, <1>22 DEF N

-----------------------------------------------------------------------------
(* The registry's steps. *)

\* Events are in the order of their ledgers, and jobs are created in order.
LedgerInv ==
    /\ Sorted(log) /\ (\A i \in 1..Len(log) : log[i].ledger <= ledger)
    /\ ledger \in Nat /\ open \in BOOLEAN /\ next_id \in Nat
    /\ \A j \in JobIds : j >= next_id => jobs[j] = None

\* What a step of the registry does to the log and to every index.
FeedMove(bound, b2) ==
    /\ FeedOK(log', jobs', b2) /\ LedgerInv'
    /\ Len(log) <= Len(log') /\ \A i \in 1..Len(log) : log'[i] = log[i]
    /\ \A i \in (Len(log) + 1)..Len(log') : open /\ log'[i].ledger = ledger
    /\ ledger <= ledger' /\ (open' /\ ledger' = ledger => open)
    /\ \A k \in JobIds : \A c \in 0..Len(log) : \A x :
          Near(log, jobs[k], bound, x, k, c) => Near(log', jobs'[k], b2, x, k, c)

\* A call that publishes what it does.
LEMMA CallStep ==
  ASSUME NEW bound, FeedOK(log, jobs, bound), LedgerInv, NEW j \in JobIds,
         NEW new \in Job \cup {None}, NEW data \in Seq(Data), data # <<>>,
         NEW g \in [0..Len(data) -> Int], Tells(jobs[j], new, data, g),
         Publish(j, new, data), next_id' \in Nat,
         \A k \in JobIds : k >= next_id' => k # j /\ k >= next_id
  PROVE  \E b2 : FeedMove(bound, b2)
<1>1. /\ open /\ jobs' = [jobs EXCEPT ![j] = new] /\ ledger' = ledger /\ open' = open
      /\ log' = log \o [n \in 1..Len(data) |-> [job |-> j, ledger |-> ledger, data |-> data[n]]]
  BY DEF Publish
<1>2. log \in Seq(Event) /\ jobs \in [JobIds -> Job \cup {None}]
  BY DEF FeedOK
<1>3. Grown(log, log', j, ledger, data)
  BY <1>1, <1>2, PublishGrows DEF LedgerInv
<1>4. PICK b2 : /\ FeedOK(log', jobs', b2)
                /\ \A k \in JobIds : \A c \in 0..Len(log) : \A x :
                      Near(log, jobs[k], bound, x, k, c) => Near(log', jobs'[k], b2, x, k, c)
  <2> DEFINE J2 == jobs'
             L2 == log'
  <2>1. Grown(log, L2, j, ledger, data) /\ J2 = [jobs EXCEPT ![j] = new]
    BY <1>1, <1>3
  <2> HIDE DEF L2, J2
  <2>2. \E b2 : /\ FeedOK(L2, J2, b2)
                /\ \A k \in JobIds : \A c \in 0..Len(log) : \A x :
                      Near(log, jobs[k], bound, x, k, c) => Near(L2, J2[k], b2, x, k, c)
    BY <2>1, CallKeeps
  <2> QED BY <2>2 DEF L2, J2
<1>5. /\ Len(data) \in Nat \ {0} /\ Len(log) \in Nat /\ Len(log') = Len(log) + Len(data)
      /\ \A i \in 1..Len(log) : log'[i] = log[i]
      /\ \A n \in 1..Len(data) : log'[Len(log) + n].ledger = ledger
  BY <1>3 DEF Grown
<1>6. ASSUME NEW i \in (Len(log) + 1)..Len(log') PROVE log'[i].ledger = ledger
  <2>1. i - Len(log) \in 1..Len(data) /\ Len(log) + (i - Len(log)) = i
    BY <1>5
  <2> QED BY <1>5, <2>1
<1>7. \A i \in 1..Len(log') : i \in 1..Len(log) \/ i \in (Len(log) + 1)..Len(log')
  BY <1>5
<1>8. \A i \in 1..Len(log) : log[i].ledger \in Nat /\ log[i].ledger <= ledger
  BY <1>2, EventFacts DEF LedgerInv
<1>9. ledger \in Nat /\ Sorted(log)
  BY DEF LedgerInv
<1>10. \A i \in 1..Len(log') : log'[i].ledger <= ledger
  <2> SUFFICES ASSUME NEW i \in 1..Len(log') PROVE log'[i].ledger <= ledger
    OBVIOUS
  <2>1. CASE i \in 1..Len(log)
    BY <1>5, <1>8, <2>1
  <2>2. CASE i \in (Len(log) + 1)..Len(log')
    BY <1>6, <1>9, <2>2
  <2> QED BY <1>7, <2>1, <2>2
<1>11. Sorted(log')
  <2> SUFFICES ASSUME NEW i \in 1..Len(log'), NEW k \in 1..Len(log'), i <= k
               PROVE  log'[i].ledger <= log'[k].ledger
    BY DEF Sorted
  <2>1. CASE k \in 1..Len(log)
    <3>1. i \in 1..Len(log)
      BY <1>5, <2>1
    <3> QED BY <1>5, <1>9, <2>1, <3>1 DEF Sorted
  <2>2. CASE k \in (Len(log) + 1)..Len(log')
    BY <1>6, <1>10, <2>2
  <2> QED BY <1>7, <2>1, <2>2
<1>12. \A k \in JobIds : k >= next_id' => jobs'[k] = None
  BY <1>1, <1>2 DEF LedgerInv
<1>13. LedgerInv'
  BY <1>1, <1>9, <1>10, <1>11, <1>12 DEF LedgerInv
<1>14. Len(log) <= Len(log') /\ ledger <= ledger'
  BY <1>1, <1>5, <1>9
<1> QED BY <1>1, <1>4, <1>5, <1>6, <1>13, <1>14 DEF FeedMove

\* A call about a job that exists.
LEMMA OldJob ==
  ASSUME LedgerInv, NEW j \in JobIds, jobs[j] # None, next_id' = next_id
  PROVE  next_id' \in Nat /\ \A k \in JobIds : k >= next_id' => k # j /\ k >= next_id
  BY DEF LedgerInv

\* A single event.
LEMMA One ==
  ASSUME NEW d \in Data
  PROVE  /\ <<d>> \in Seq(Data) /\ <<d>> # <<>> /\ Len(<<d>>) = 1 /\ <<d>>[1] = d
         /\ 1..1 = {1} /\ 0..1 = {0, 1} /\ 1 - 1 = 0 /\ 0 + 1 = 1
  OBVIOUS

\* Calls after which the index reads the job again, or drops it.
LEMMA ResetTells ==
  ASSUME NEW old, NEW new \in Job \cup {None}, NEW d \in Data, d.type \in Resets,
         d.type = "job_cancelled" <=> new = None
  PROVE  \E g \in [0..Len(<<d>>) -> Int] : Tells(old, new, <<d>>, g)
<1> DEFINE v == IF new = None THEN 0 ELSE new.balance
           g == [n \in 0..1 |-> v]
<1>1. v \in Int
  BY DEF Job
<1> HIDE DEF v
<1>2. g \in [0..1 -> Int] /\ g[1] = v
  BY <1>1
<1> HIDE DEF g
<1>3. Tells(old, new, <<d>>, g)
  BY <1>2, One DEF Tells, v
<1> QED BY <1>2, <1>3, One

\* Calls that set the balance.
LEMMA TotalTells ==
  ASSUME NEW old \in Job, NEW v \in Int, NEW d \in Data, d.type \in Totals, d.balance = v
  PROVE  /\ [old EXCEPT !.balance = v] \in Job
         /\ \E g \in [0..Len(<<d>>) -> Int] : Tells(old, [old EXCEPT !.balance = v], <<d>>, g)
<1> DEFINE new == [old EXCEPT !.balance = v]
           g == [n \in 0..1 |-> IF n = 0 THEN old.balance ELSE v]
<1>1. /\ new \in Job /\ new.balance = v /\ new.fee = old.fee /\ new.active = old.active
      /\ new.next_run = old.next_run /\ new.runs = old.runs /\ old.balance \in Int
  BY DEF Job
<1> HIDE DEF new
<1>2. g \in [0..1 -> Int] /\ g[0] = old.balance /\ g[1] = v
  BY <1>1
<1> HIDE DEF g
<1>3. BoundStep(d, g[0], g[1])
  BY <1>2 DEF BoundStep, Totals, Runs, Switches
<1>4. d.type \notin Resets /\ d.type \notin Runs /\ d.type \notin Switches
  BY DEF Totals, Resets, Runs, Switches
<1>5. \A n \in 0..1 : v <= g[n] \/ \E k \in (n + 1)..1 : <<d>>[k].type \in Totals
  BY <1>2, One
<1>6. Tells(old, new, <<d>>, g)
  BY <1>1, <1>2, <1>3, <1>4, <1>5, One DEF Tells
<1> QED BY <1>1, <1>2, <1>6, One DEF new

\* A call that sets the switch.
LEMMA SwitchTells ==
  ASSUME NEW old \in Job, NEW v \in BOOLEAN, NEW d \in Data, d.type = "job_active_set", d.active = v
  PROVE  /\ [old EXCEPT !.active = v] \in Job
         /\ \E g \in [0..Len(<<d>>) -> Int] : Tells(old, [old EXCEPT !.active = v], <<d>>, g)
<1> DEFINE new == [old EXCEPT !.active = v]
           g == [n \in 0..1 |-> old.balance]
<1>1. /\ new \in Job /\ new.balance = old.balance /\ new.fee = old.fee /\ new.active = v
      /\ new.next_run = old.next_run /\ new.runs = old.runs /\ old.balance \in Int
  BY DEF Job
<1> HIDE DEF new
<1>2. g \in [0..1 -> Int] /\ g[0] = old.balance /\ g[1] = old.balance
  BY <1>1
<1> HIDE DEF g
<1>3. BoundStep(d, g[0], g[1])
  BY <1>1, <1>2 DEF BoundStep, Totals, Runs, Switches
<1>4. d.type \notin Resets /\ d.type \notin Runs /\ d.type \in Switches
  BY DEF Resets, Runs, Switches
<1>5. \A n \in 0..1 : new.balance <= g[n]
  BY <1>1, <1>2, One
<1>6. new.active = (d.type = "job_active_set" /\ d.active)
  BY <1>1
<1>7. Tells(old, new, <<d>>, g)
  BY <1>1, <1>2, <1>3, <1>4, <1>5, <1>6, One DEF Tells
<1> QED BY <1>1, <1>2, <1>7, One DEF new

\* What a run publishes: perhaps that the job is deactivated, perhaps that its
\* balance ran out, and the receipt.
RunData(d1, d2, receipt, first, second) ==
    (IF first THEN <<d1>> ELSE <<>>) \o (IF second THEN <<d2>> ELSE <<>>) \o <<receipt>>

LEMMA Concat ==
  ASSUME NEW X, NEW a \in X, NEW b \in X, NEW c \in X
  PROVE  <<a>> \o <<b>> = <<a, b>> /\ <<a, b>> \o <<c>> = <<a, b, c>>
         /\ <<>> \o <<a>> = <<a>> /\ <<a>> \o <<>> = <<a>>
<1>1. <<a>> \in Seq(X) /\ <<b>> \in Seq(X) /\ <<c>> \in Seq(X) /\ <<a, b>> \in Seq(X)
      /\ <<>> \in Seq(X)
  OBVIOUS
<1>2. <<a>> \o <<b>> = <<a, b>>
  <2> DEFINE s == <<a>> \o <<b>>
             t == <<a, b>>
  <2>1. s \in Seq(X) /\ t \in Seq(X) /\ Len(s) = 2 /\ Len(t) = 2 /\ 1..2 = {1, 2}
        /\ s[1] = a /\ s[2] = b /\ t[1] = a /\ t[2] = b
    BY <1>1
  <2> HIDE DEF s, t
  <2>2. \A i \in 1..Len(s) : s[i] = t[i]
    BY <2>1
  <2>3. s = t
    BY <2>1, <2>2, SeqEqual
  <2> QED BY <2>3 DEF s, t
<1>3. <<a, b>> \o <<c>> = <<a, b, c>>
  <2> DEFINE s == <<a, b>> \o <<c>>
             t == <<a, b, c>>
  <2>1. s \in Seq(X) /\ t \in Seq(X) /\ Len(s) = 3 /\ Len(t) = 3 /\ 1..3 = {1, 2, 3}
        /\ s[1] = a /\ s[2] = b /\ s[3] = c /\ t[1] = a /\ t[2] = b /\ t[3] = c
    BY <1>1
  <2> HIDE DEF s, t
  <2>2. \A i \in 1..Len(s) : s[i] = t[i]
    BY <2>1
  <2>3. s = t
    BY <2>1, <2>2, SeqEqual
  <2> QED BY <2>3 DEF s, t
<1>4. <<>> \o <<a>> = <<a>> /\ <<a>> \o <<>> = <<a>>
  BY <1>1
<1> QED BY <1>2, <1>3, <1>4

LEMMA RunDataFacts ==
  ASSUME NEW d1 \in Data, NEW d2 \in Data, NEW receipt \in Data,
         NEW first \in BOOLEAN, NEW second \in BOOLEAN
  PROVE  LET s == RunData(d1, d2, receipt, first, second)
         IN  /\ s \in Seq(Data) /\ Len(s) \in 1..3 /\ s[Len(s)] = receipt
             /\ \A n \in 1..Len(s) : n # Len(s) => (first /\ s[n] = d1) \/ (second /\ s[n] = d2)
             /\ first => s[1] = d1
<1> DEFINE s == RunData(d1, d2, receipt, first, second)
<1>1. CASE first /\ second
  <2>1. s = <<d1, d2, receipt>>
    BY <1>1, Concat DEF RunData
  <2>2. Len(s) = 3 /\ s[1] = d1 /\ s[2] = d2 /\ s[3] = receipt /\ s \in Seq(Data) /\ 1..3 = {1, 2, 3}
    BY <2>1
  <2> HIDE DEF s
  <2>3. \A n \in 1..Len(s) : n # Len(s) => s[n] = d1 \/ s[n] = d2
    BY <2>2
  <2> QED BY <1>1, <2>2, <2>3 DEF s
<1>2. CASE first /\ ~ second
  <2>1. s = <<d1, receipt>>
    BY <1>2, Concat DEF RunData
  <2>2. Len(s) = 2 /\ s[1] = d1 /\ s[2] = receipt /\ s \in Seq(Data) /\ 1..2 = {1, 2} /\ 2 \in 1..3
    BY <2>1
  <2> HIDE DEF s
  <2>3. \A n \in 1..Len(s) : n # Len(s) => s[n] = d1
    BY <2>2
  <2> QED BY <1>2, <2>2, <2>3 DEF s
<1>3. CASE ~ first /\ second
  <2>1. s = <<d2, receipt>>
    BY <1>3, Concat DEF RunData
  <2>2. Len(s) = 2 /\ s[1] = d2 /\ s[2] = receipt /\ s \in Seq(Data) /\ 1..2 = {1, 2} /\ 2 \in 1..3
    BY <2>1
  <2> HIDE DEF s
  <2>3. \A n \in 1..Len(s) : n # Len(s) => s[n] = d2
    BY <2>2
  <2> QED BY <1>3, <2>2, <2>3 DEF s
<1>4. CASE ~ first /\ ~ second
  <2>1. s = <<receipt>>
    BY <1>4 DEF RunData
  <2>2. Len(s) = 1 /\ s[1] = receipt /\ s \in Seq(Data) /\ 1..1 = {1} /\ 1 \in 1..3
    BY <2>1
  <2> HIDE DEF s
  <2>3. \A n \in 1..Len(s) : n = Len(s)
    BY <2>2
  <2> QED BY <1>4, <2>2, <2>3 DEF s
<1> QED BY <1>1, <1>2, <1>3, <1>4

\* A run tells what it does, although the receipt comes after the balance.
LEMMA RunTells ==
  ASSUME NEW old \in Job, old.active, NEW deactivates \in BOOLEAN, NEW second \in BOOLEAN,
         NEW new \in Job, new.fee = old.fee, new.balance = old.balance - old.fee,
         new.active = ~ deactivates,
         NEW d1 \in Data, d1.type = "job_deactivated",
         NEW d2 \in Data, d2.type = "job_exhausted", d2.balance = new.balance,
         NEW receipt \in Data, receipt.type = "job_executed", receipt.next_run = new.next_run,
         receipt.run = new.runs, receipt.fee = old.fee
  PROVE  LET s == RunData(d1, d2, receipt, deactivates, second)
         IN  s \in Seq(Data) /\ s # <<>> /\ \E g \in [0..Len(s) -> Int] : Tells(old, new, s, g)
<1> DEFINE s == RunData(d1, d2, receipt, deactivates, second)
           m == Len(s)
           g == [n \in 0..m |-> IF n = m THEN new.balance ELSE old.balance]
<1>1. /\ s \in Seq(Data) /\ m \in 1..3 /\ s[m] = receipt
      /\ \A n \in 1..m : n # m => (deactivates /\ s[n] = d1) \/ (second /\ s[n] = d2)
      /\ deactivates => s[1] = d1
  BY RunDataFacts
<1> HIDE DEF s
<1>2. s # <<>>
  <2>1. Len(<<>>) = 0 /\ 0 \notin 1..3
    OBVIOUS
  <2> QED BY <1>1, <2>1
<1> HIDE DEF m
<1>3. /\ old.balance \in Int /\ new.balance \in Int /\ old.fee \in Nat
      /\ new.balance <= old.balance /\ old.active \in BOOLEAN
  <2>1. old.balance \in Int /\ old.fee \in Fees /\ new.balance \in Int /\ old.active \in BOOLEAN
    BY DEF Job
  <2>2. old.fee \in Nat
    BY <2>1, FeedAssumption
  <2> QED BY <2>1, <2>2
<1>4. m \in 0..m /\ 0 \in 0..m /\ 0 # m /\ m \in 1..m /\ 1 \in 1..m
  BY <1>1
<1>5. g \in [0..m -> Int] /\ g[0] = old.balance /\ g[m] = new.balance
      /\ \A n \in 0..m : n # m => g[n] = old.balance
  BY <1>3, <1>4
<1> HIDE DEF g
<1>6. \A n \in 1..m : n - 1 \in 0..m /\ n - 1 # m /\ n \in 0..m
  BY <1>1
<1>7. ASSUME NEW n \in 1..m
      PROVE  /\ s[n].type \notin Resets
             /\ s[n].type \in Runs => new.next_run = s[n].next_run /\ new.runs = s[n].run
             /\ s[n].type \in Switches =>
                   new.active = (s[n].type = "job_active_set" /\ s[n].active)
             /\ BoundStep(s[n], g[n - 1], g[n])
  <2>1. g[n - 1] = old.balance
    BY <1>5, <1>6
  <2>2. CASE n = m
    BY <1>1, <1>3, <1>5, <2>1, <2>2 DEF BoundStep, Resets, Runs, Switches, Totals
  <2>3. CASE n # m /\ deactivates /\ s[n] = d1
    <3>1. g[n] = old.balance
      BY <1>5, <1>6, <2>3
    <3> QED BY <1>3, <2>1, <2>3, <3>1 DEF BoundStep, Resets, Runs, Switches, Totals
  <2>4. CASE n # m /\ s[n] = d2
    <3>1. g[n] = old.balance
      BY <1>5, <1>6, <2>4
    <3> QED BY <1>3, <2>1, <2>4, <3>1 DEF BoundStep, Resets, Runs, Switches, Totals
  <2> QED BY <1>1, <2>2, <2>3, <2>4
<1>8. \A n \in 0..m : new.balance <= g[n]
  BY <1>3, <1>5
<1>9. \E n \in 1..m : s[n].type \in Runs
  BY <1>1, <1>4 DEF Runs
<1>10. new.active = old.active \/ \E n \in 1..m : s[n].type \in Switches
  <2>1. CASE deactivates
    BY <1>1, <1>4, <2>1 DEF Switches
  <2>2. CASE ~ deactivates
    BY <1>3, <2>2
  <2> QED BY <2>1, <2>2
<1>11. Tells(old, new, s, g)
  BY <1>5, <1>7, <1>8, <1>9, <1>10 DEF Tells, m
<1> QED BY <1>1, <1>2, <1>5, <1>11 DEF s, m

\* Each kind of call, with what it leaves and publishes.
LEMMA ToldCall ==
  ASSUME NEW bound, FeedOK(log, jobs, bound), LedgerInv, NEW j \in JobIds,
         NEW new \in Job \cup {None}, NEW data \in Seq(Data), data # <<>>,
         \E g \in [0..Len(data) -> Int] : Tells(jobs[j], new, data, g),
         Publish(j, new, data), jobs[j] # None, next_id' = next_id
  PROVE  \E b2 : FeedMove(bound, b2)
<1>1. PICK g \in [0..Len(data) -> Int] : Tells(jobs[j], new, data, g)
  OBVIOUS
<1>2. next_id' \in Nat /\ \A k \in JobIds : k >= next_id' => k # j /\ k >= next_id
  BY OldJob
<1> QED BY <1>1, <1>2, CallStep

LEMMA FeedStep ==
  ASSUME NEW bound, FeedOK(log, jobs, bound), LedgerInv, FeedNext
  PROVE  \E b2 : FeedMove(bound, b2)
<1>1. jobs \in [JobIds -> Job \cup {None}] /\ None \notin Job
  BY FeedAssumption DEF FeedOK
<1>2. CASE BeginLedger \/ EndLedger
  <2>1. /\ UNCHANGED <<jobs, next_id, log>> /\ ledger \in Nat
        /\ (ledger' = ledger + 1 /\ open' = TRUE) \/ (ledger' = ledger /\ open' = FALSE)
    BY <1>2 DEF BeginLedger, EndLedger, LedgerInv
  <2>2. \A i \in 1..Len(log) : log[i].ledger \in Nat /\ log[i].ledger <= ledger
    <3>1. log \in Seq(Event)
      BY DEF FeedOK
    <3> QED BY <3>1, EventFacts DEF LedgerInv
  <2>3. /\ ledger' \in Nat /\ ledger <= ledger' /\ (open' /\ ledger' = ledger => open)
        /\ \A i \in 1..Len(log) : log[i].ledger <= ledger'
    BY <2>1, <2>2
  <2>4. LedgerInv'
    BY <2>1, <2>3 DEF LedgerInv, Sorted
  <2>5. Len(log) \in Nat
    BY DEF FeedOK
  <2>6. (Len(log) + 1)..Len(log) = {} /\ Len(log) <= Len(log)
    BY <2>5
  <2>7. FeedMove(bound, bound)
    BY <2>1, <2>3, <2>4, <2>6 DEF FeedMove
  <2> QED BY <2>7
<1>3. ASSUME NEW f \in Fees, create_job(f) PROVE \E b2 : FeedMove(bound, b2)
  <2> DEFINE new == [next_run |-> 0, active |-> TRUE, balance |-> Deposit, fee |-> f, runs |-> 0]
             d == [type |-> "job_created"]
  <2>1. Publish(next_id, new, <<d>>) /\ next_id < MaxJobs /\ next_id' = next_id + 1
    BY <1>3 DEF create_job
  <2>2. next_id \in Nat /\ MaxJobs \in Nat /\ Deposit \in Int
    BY FeedAssumption DEF LedgerInv
  <2>3. next_id \in JobIds /\ next_id' \in Nat
    BY <2>1, <2>2 DEF JobIds
  <2>4. \A k \in JobIds : k >= next_id' => k # next_id /\ k >= next_id
    BY <2>1, <2>2, FeedAssumption DEF JobIds
  <2>5. new \in Job
    BY <2>2 DEF Job
  <2>6. d \in Data /\ d.type \in Resets /\ d.type # "job_cancelled"
    BY DEF Data, Resets
  <2> HIDE DEF new, d
  <2>7. PICK g \in [0..Len(<<d>>) -> Int] : Tells(jobs[next_id], new, <<d>>, g)
    BY <1>1, <2>5, <2>6, ResetTells
  <2> QED BY <2>1, <2>3, <2>4, <2>5, <2>6, <2>7, One, CallStep
<1>4. ASSUME NEW j \in JobIds, jobs[j] # None,
             \/ \E f \in Fees : update_job(j, f)
             \/ cancel_job(j)
             \/ fund_job(j)
             \/ withdraw_job_balance(j)
             \/ \E a \in BOOLEAN : set_job_active(j, a)
             \/ \E d \in BOOLEAN : run_job(j, d)
      PROVE  \E b2 : FeedMove(bound, b2)
  <2> DEFINE old == jobs[j]
  <2>1. old \in Job
    BY <1>1, <1>4
  <2>2. old.balance \in Int /\ old.fee \in Nat /\ old.next_run \in Nat /\ old.runs \in Nat
    <3>1. old.balance \in Int /\ old.fee \in Fees /\ old.next_run \in Nat /\ old.runs \in Nat
      BY <2>1 DEF Job
    <3> QED BY <3>1, FeedAssumption
  <2>3. ASSUME NEW f \in Fees, update_job(j, f) PROVE \E b2 : FeedMove(bound, b2)
    <3> DEFINE new == [old EXCEPT !.fee = f]
               d == [type |-> "job_updated"]
    <3>1. Publish(j, new, <<d>>) /\ next_id' = next_id
      BY <2>3 DEF update_job
    <3>2. new \in Job
      BY <2>1 DEF Job
    <3>3. d \in Data /\ d.type \in Resets /\ d.type # "job_cancelled"
      BY DEF Data, Resets
    <3> HIDE DEF new, d
    <3>4. \E g \in [0..Len(<<d>>) -> Int] : Tells(jobs[j], new, <<d>>, g)
      BY <1>1, <3>2, <3>3, ResetTells
    <3> QED BY <1>4, <3>1, <3>2, <3>3, <3>4, One, ToldCall
  <2>4. CASE cancel_job(j)
    <3> DEFINE d == [type |-> "job_cancelled"]
    <3>1. Publish(j, None, <<d>>) /\ next_id' = next_id
      BY <2>4 DEF cancel_job
    <3>2. d \in Data /\ d.type \in Resets /\ d.type = "job_cancelled"
      BY DEF Data, Resets
    <3> HIDE DEF d
    <3>3. \E g \in [0..Len(<<d>>) -> Int] : Tells(jobs[j], None, <<d>>, g)
      BY <3>2, ResetTells
    <3> QED BY <1>4, <3>1, <3>2, <3>3, One, ToldCall
  <2>5. ASSUME NEW t \in Totals, NEW v \in Int, next_id' = next_id,
               Publish(j, [old EXCEPT !.balance = v], <<[type |-> t, balance |-> v]>>)
        PROVE  \E b2 : FeedMove(bound, b2)
    <3> DEFINE new == [old EXCEPT !.balance = v]
               d == [type |-> t, balance |-> v]
    <3>1. d \in Data /\ d.type \in Totals /\ d.balance = v
      BY DEF Data
    <3> HIDE DEF d
    <3>2. new \in Job /\ \E g \in [0..Len(<<d>>) -> Int] : Tells(jobs[j], new, <<d>>, g)
      BY <2>1, <3>1, TotalTells
    <3>3. Publish(j, new, <<d>>)
      BY <2>5 DEF d
    <3> HIDE DEF new
    <3> QED BY <1>4, <2>5, <3>1, <3>2, <3>3, One, ToldCall
  <2>6. CASE fund_job(j)
    <3> DEFINE v == old.balance + Deposit
    <3>1. Publish(j, [old EXCEPT !.balance = v], <<[type |-> "job_funded", balance |-> v]>>)
          /\ next_id' = next_id
      BY <2>6 DEF fund_job
    <3>2. v \in Int /\ "job_funded" \in Totals
      BY <2>2, FeedAssumption DEF Totals
    <3> HIDE DEF v
    <3> QED BY <2>5, <3>1, <3>2
  <2>7. CASE withdraw_job_balance(j)
    <3> DEFINE v == old.balance - 1
    <3>1. Publish(j, [old EXCEPT !.balance = v], <<[type |-> "job_withdrawn", balance |-> v]>>)
          /\ next_id' = next_id
      BY <2>7 DEF withdraw_job_balance
    <3>2. v \in Int /\ "job_withdrawn" \in Totals
      BY <2>2 DEF Totals
    <3> HIDE DEF v
    <3> QED BY <2>5, <3>1, <3>2
  <2>8. ASSUME NEW a \in BOOLEAN, set_job_active(j, a) PROVE \E b2 : FeedMove(bound, b2)
    <3> DEFINE new == [old EXCEPT !.active = a]
               d == [type |-> "job_active_set", active |-> a]
    <3>1. Publish(j, new, <<d>>) /\ next_id' = next_id
      BY <2>8 DEF set_job_active
    <3>2. d \in Data /\ d.type = "job_active_set" /\ d.active = a
      BY DEF Data
    <3> HIDE DEF d
    <3>3. new \in Job /\ \E g \in [0..Len(<<d>>) -> Int] : Tells(jobs[j], new, <<d>>, g)
      BY <2>1, <3>2, SwitchTells
    <3> HIDE DEF new
    <3> QED BY <1>4, <3>1, <3>2, <3>3, One, ToldCall
  <2>9. ASSUME NEW deactivates \in BOOLEAN, run_job(j, deactivates)
        PROVE  \E b2 : FeedMove(bound, b2)
    <3> DEFINE new == [old EXCEPT !.runs = @ + 1, !.next_run = @ + 1,
                                  !.balance = @ - old.fee, !.active = ~ deactivates]
               receipt == [type |-> "job_executed", next_run |-> new.next_run, run |-> new.runs,
                           fee |-> old.fee]
               d1 == [type |-> "job_deactivated"]
               d2 == [type |-> "job_exhausted", balance |-> new.balance]
               second == new.balance < new.fee
               s == RunData(d1, d2, receipt, deactivates, second)
    <3>1. Publish(j, new, s) /\ next_id' = next_id /\ old.active
      BY <2>9 DEF run_job, RunData
    <3>2. /\ new \in Job /\ new.fee = old.fee /\ new.balance = old.balance - old.fee
          /\ new.active = ~ deactivates
      <4>1. old.balance - old.fee \in Int /\ old.runs + 1 \in Nat /\ old.next_run + 1 \in Nat
        BY <2>2
      <4> QED BY <2>1, <4>1 DEF Job
    <3>3. new.next_run \in Nat /\ new.runs \in Nat /\ new.balance \in Int
      BY <3>2 DEF Job
    <3> HIDE DEF new
    <3>4. /\ receipt \in Data /\ receipt.type = "job_executed" /\ receipt.next_run = new.next_run
          /\ receipt.run = new.runs /\ receipt.fee = old.fee
      BY <2>2, <3>3 DEF Data, Runs
    <3>5. /\ d1 \in Data /\ d1.type = "job_deactivated"
          /\ d2 \in Data /\ d2.type = "job_exhausted" /\ d2.balance = new.balance
      BY <3>3 DEF Data, Totals
    <3>6. second \in BOOLEAN
      OBVIOUS
    <3> HIDE DEF receipt, d1, d2, second
    <3>7. s \in Seq(Data) /\ s # <<>> /\ \E g \in [0..Len(s) -> Int] : Tells(jobs[j], new, s, g)
      BY <2>1, <3>1, <3>2, <3>4, <3>5, <3>6, RunTells
    <3> HIDE DEF s
    <3> QED BY <1>4, <3>1, <3>2, <3>7, ToldCall
  <2> QED BY <1>4, <2>3, <2>4, <2>6, <2>7, <2>8, <2>9
<1> QED BY <1>2, <1>3, <1>4 DEF FeedNext

-----------------------------------------------------------------------------
(* Where the events of a ledger begin. *)

Before(L, f) == Cardinality({i \in 1..Len(L) : L[i].ledger < f})

\* The events of earlier ledgers are the first ones of the log.
LEMMA BeforeFacts ==
  ASSUME NEW L \in Seq(Event), Sorted(L), NEW f \in Nat
  PROVE  /\ Before(L, f) \in 0..Len(L)
         /\ \A i \in 1..Len(L) : i <= Before(L, f) <=> L[i].ledger < f
<1> DEFINE N == Len(L)
           T == {n \in Nat : n <= N => \E q \in 0..n : \A i \in 1..n : i <= q <=> L[i].ledger < f}
<1>1. N \in Nat /\ \A i \in 1..N : L[i].ledger \in Nat
  BY EventFacts
<1> HIDE DEF N
<1>2. 0 \in T
  BY <1>1
<1>3. ASSUME NEW n \in T PROVE n + 1 \in T
  <2>0. n \in Nat /\ n + 1 \in Nat
    OBVIOUS
  <2> SUFFICES ASSUME n + 1 <= N
               PROVE  \E q \in 0..(n + 1) : \A i \in 1..(n + 1) : i <= q <=> L[i].ledger < f
    BY <2>0, Zenon
  <2>1. n \in Nat /\ n + 1 \in 1..N
    BY <1>1
  <2>2. CASE L[n + 1].ledger < f
    <3>1. \A i \in 1..(n + 1) : L[i].ledger < f
      <4> SUFFICES ASSUME NEW i \in 1..(n + 1) PROVE L[i].ledger < f
        OBVIOUS
      <4>1. i \in 1..N /\ i <= n + 1
        BY <1>1, <2>1
      <4>2. L[i].ledger <= L[n + 1].ledger
        BY <2>1, <4>1 DEF Sorted, N
      <4> QED BY <1>1, <2>1, <2>2, <4>1, <4>2
    <3>2. n + 1 \in 0..(n + 1) /\ \A i \in 1..(n + 1) : i <= n + 1
      BY <2>1
    <3> QED BY <3>1, <3>2
  <2>3. CASE ~ (L[n + 1].ledger < f)
    <3>1. PICK q \in 0..n : \A i \in 1..n : i <= q <=> L[i].ledger < f
      BY <1>1, <2>1
    <3>2. q \in 0..(n + 1) /\ ~ (n + 1 <= q)
      BY <2>1
    <3>3. \A i \in 1..(n + 1) : i = n + 1 \/ i \in 1..n
      BY <2>1
    <3>4. \A i \in 1..(n + 1) : i <= q <=> L[i].ledger < f
      BY <2>3, <3>1, <3>2, <3>3
    <3> QED BY <3>2, <3>4
  <2> QED BY <2>2, <2>3
<1> HIDE DEF T
<1>4. T = Nat
  <2>1. T \subseteq Nat
    BY DEF T
  <2> QED BY <1>2, <1>3, <2>1, NatRule
<1>5. PICK q \in 0..N : \A i \in 1..N : i <= q <=> L[i].ledger < f
  <2>1. N \in T /\ N <= N
    BY <1>1, <1>4
  <2> QED BY <2>1 DEF T
<1>6. {i \in 1..N : L[i].ledger < f} = 1..q
  BY <1>1, <1>5
<1>7. Cardinality(1..q) = q
  <2>1. Cardinality(1..q) = IF 1 > q THEN 0 ELSE q - 1 + 1
    BY <1>1, FS_Interval
  <2> QED BY <1>1, <2>1
<1>8. Before(L, f) = q
  BY <1>6, <1>7 DEF Before, N
<1> QED BY <1>5, <1>8 DEF N

\* Events of that ledger or later do not move the place.
LEMMA BeforeKept ==
  ASSUME NEW L \in Seq(Event), NEW L2 \in Seq(Event), NEW f \in Nat, Len(L) <= Len(L2),
         \A i \in 1..Len(L) : L2[i] = L[i],
         \A i \in (Len(L) + 1)..Len(L2) : L2[i].ledger \in Nat /\ f <= L2[i].ledger
  PROVE  Before(L2, f) = Before(L, f)
<1>1. Len(L) \in Nat /\ Len(L2) \in Nat
  OBVIOUS
<1>2. \A i \in 1..Len(L2) : i \in 1..Len(L) \/ i \in (Len(L) + 1)..Len(L2)
  BY <1>1
<1>3. \A i \in 1..Len(L) : i \in 1..Len(L2)
  BY <1>1
<1>4. \A i \in (Len(L) + 1)..Len(L2) : ~ (L2[i].ledger < f)
  OBVIOUS
<1>5. {i \in 1..Len(L2) : L2[i].ledger < f} = {i \in 1..Len(L) : L[i].ledger < f}
  BY <1>2, <1>3, <1>4
<1> QED BY <1>5 DEF Before

-----------------------------------------------------------------------------
(* The index.  IndexSound is about a moment when every event is behind the     *)
(* cursor; the invariant says what holds at each place where the keeper waits. *)

Map == [JobIds -> Job \cup {None}]

\* A map of jobs that may go on from the c-th event.
Covers(bound, map, c) == \A j \in JobIds : Near(log, jobs[j], bound, map[j], j, c)

\* Where sync goes on, if it can.
Following == cursor # None \/ pending_start # None
Pos == IF cursor # None THEN cursor ELSE Behind(pending_start)

\* Up to where the events of a page are applied.
ApplyAt == page.cursor - Len(page.events)

\* The events up to the ledger that load read first.
Snapshot == Behind(latest + 1)

IndexType ==
    /\ pc \in {"idle", "events", "apply", "latest", "count", "page", "begin"}
    /\ index \in Map /\ fresh \in Map
    /\ cursor \in Nat \cup {None} /\ pending_start \in Nat \cup {None}
    /\ latest \in Nat /\ start \in Nat /\ count \in Nat
    /\ page \in [events : Seq(Event), cursor : Nat \cup {None}, full : BOOLEAN]

\* The places of the log the keeper remembers are still there, and no later than
\* what load read.
PlaceInv ==
    /\ cursor # None => cursor <= Len(log)
    /\ pending_start # None => pending_start <= ledger
    /\ pc \in {"idle", "events", "apply"} => Following
    /\ pc \in {"count", "page", "begin"} =>
          /\ latest <= ledger /\ (open => latest < ledger)
          /\ Following => Pos <= Snapshot
    /\ pc \notin {"page", "begin"} => start = 0
    /\ \A j \in JobIds : j >= start => fresh[j] = None

\* The events in hand are the ones behind the applied part.
PageInv ==
    pc = "apply" =>
        /\ page.events # <<>> /\ page.cursor # None /\ page.cursor <= Len(log)
        /\ ApplyAt \in Nat /\ Pos <= ApplyAt
        /\ \A n \in 1..Len(page.events) : page.events[n] = log[ApplyAt + n]

\* Each map may go on from wherever it may have to: a load that fails leaves a new
\* index with the old cursor, and a page that fails a half applied one.
NearInv(bound) ==
    /\ pc \in {"idle", "events", "latest", "count", "page"} /\ Following /\ ~ gap =>
          Covers(bound, index, Pos)
    /\ pc = "apply" /\ ~ gap => \A c \in Pos..ApplyAt : Covers(bound, index, c)
    /\ pc = "begin" => \A c \in 0..Snapshot : Covers(bound, index, c)
    /\ pc = "page" =>
          \A j \in JobIds : j < start \/ j >= count =>
              \A c \in 0..Snapshot : Near(log, jobs[j], bound, fresh[j], j, c)

IndexInv ==
    /\ LedgerInv /\ IndexType /\ PlaceInv /\ PageInv
    /\ \E bound : FeedOK(log, jobs, bound) /\ NearInv(bound)

\* The places of the log.
LEMMA Places ==
  ASSUME LedgerInv, log \in Seq(Event), NEW f \in Nat
  PROVE  /\ Behind(f) \in 0..Len(log) /\ Len(log) \in Nat
         /\ \A i \in 1..Len(log) : i <= Behind(f) <=> log[i].ledger < f
<1>1. Behind(f) = Before(log, f)
  BY DEF Behind, Before
<1>2. Sorted(log)
  BY DEF LedgerInv
<1>3. Len(log) \in Nat
  OBVIOUS
<1> QED BY <1>1, <1>2, <1>3, BeforeFacts

LEMMA PosPlace ==
  ASSUME LedgerInv, IndexType, PlaceInv, log \in Seq(Event), Following
  PROVE  Pos \in 0..Len(log) /\ Len(log) \in Nat
<1>1. Len(log) \in Nat
  OBVIOUS
<1>2. CASE cursor # None
  <2>1. cursor \in Nat /\ cursor <= Len(log) /\ Pos = cursor
    BY <1>2 DEF IndexType, PlaceInv, Pos
  <2> QED BY <1>1, <2>1
<1>3. CASE cursor = None
  <2>1. pending_start \in Nat /\ Pos = Behind(pending_start)
    BY <1>3 DEF IndexType, Following, Pos
  <2> QED BY <2>1, Places
<1> QED BY <1>2, <1>3

\* A step of the registry while the keeper waits.
LEMMA WaitStep ==
  ASSUME IndexInv, FeedNext, UNCHANGED <<indexVars, failures, gap>>
  PROVE  IndexInv'
<1>1. PICK bound : FeedOK(log, jobs, bound) /\ NearInv(bound)
  BY DEF IndexInv
<1>2. LedgerInv /\ IndexType /\ PlaceInv /\ PageInv
  BY DEF IndexInv
<1>3. PICK b2 : FeedMove(bound, b2)
  BY <1>1, <1>2, FeedStep
<1>4. /\ FeedOK(log', jobs', b2) /\ LedgerInv'
      /\ Len(log) <= Len(log') /\ \A i \in 1..Len(log) : log'[i] = log[i]
      /\ \A i \in (Len(log) + 1)..Len(log') : open /\ log'[i].ledger = ledger
      /\ ledger <= ledger' /\ (open' /\ ledger' = ledger => open)
      /\ \A k \in JobIds : \A c \in 0..Len(log) : \A x :
            Near(log, jobs[k], bound, x, k, c) => Near(log', jobs'[k], b2, x, k, c)
  BY <1>3 DEF FeedMove
<1>5. log \in Seq(Event) /\ log' \in Seq(Event) /\ Len(log) \in Nat /\ Len(log') \in Nat
  BY <1>1, <1>4 DEF FeedOK
<1>6. /\ pc' = pc /\ index' = index /\ cursor' = cursor /\ pending_start' = pending_start
      /\ latest' = latest /\ count' = count /\ start' = start /\ fresh' = fresh /\ page' = page
      /\ gap' = gap
  BY DEF indexVars
<1>7. ASSUME NEW f \in Nat, open => f <= ledger PROVE Behind(f)' = Behind(f)
  <2>1. ledger \in Nat
    BY <1>2 DEF LedgerInv
  <2>2. \A i \in (Len(log) + 1)..Len(log') : log'[i].ledger \in Nat /\ f <= log'[i].ledger
    BY <1>4, <1>7, <2>1
  <2>3. Before(log', f) = Before(log, f)
    BY <1>4, <1>5, <2>2, BeforeKept
  <2> QED BY <2>3 DEF Behind, Before
<1>8. Following => Pos' = Pos
  <2> SUFFICES ASSUME Following PROVE Pos' = Pos
    OBVIOUS
  <2>1. CASE cursor # None
    BY <1>6, <2>1 DEF Pos
  <2>2. CASE cursor = None
    <3>1. pending_start \in Nat /\ pending_start <= ledger
      BY <1>2, <2>2 DEF IndexType, Following, PlaceInv
    <3>2. Behind(pending_start)' = Behind(pending_start)
      <4> DEFINE f == pending_start
      <4>1. pending_start' = f
        BY <1>6
      <4>2. Cardinality({i \in 1..Len(log') : log'[i].ledger < f}) = Behind(f)
        BY <1>7, <3>1 DEF Behind
      <4> QED BY <4>1, <4>2 DEF Behind
    <3> QED BY <1>6, <2>2, <3>2 DEF Pos
  <2> QED BY <2>1, <2>2
<1>9. pc \in {"count", "page", "begin"} => Snapshot' = Snapshot
  <2> SUFFICES ASSUME pc \in {"count", "page", "begin"} PROVE Snapshot' = Snapshot
    OBVIOUS
  <2>1. latest \in Nat /\ ledger \in Nat /\ (open => latest < ledger)
    BY <1>2 DEF IndexType, PlaceInv, LedgerInv
  <2>2. latest + 1 \in Nat /\ (open => latest + 1 <= ledger)
    BY <2>1
  <2> DEFINE f == latest + 1
  <2>3. Cardinality({i \in 1..Len(log') : log'[i].ledger < f}) = Behind(f)
    BY <1>7, <2>2 DEF Behind
  <2>4. latest' + 1 = f
    BY <1>6
  <2> QED BY <2>3, <2>4 DEF Behind, Snapshot
<1>10. Following' <=> Following
  BY <1>6 DEF Following
<1>11. IndexType'
  BY <1>2, <1>6 DEF IndexType
<1>12. PlaceInv'
  <2>1. cursor' # None => cursor' <= Len(log')
    BY <1>2, <1>4, <1>5, <1>6 DEF PlaceInv, IndexType
  <2>2. ledger \in Nat /\ ledger' \in Nat /\ latest \in Nat
    BY <1>2, <1>4 DEF LedgerInv, IndexType
  <2>3. pending_start' # None => pending_start' <= ledger'
    BY <1>2, <1>4, <1>6, <2>2 DEF PlaceInv, IndexType
  <2>4. ASSUME pc \in {"count", "page", "begin"}
        PROVE  latest <= ledger' /\ (open' => latest < ledger')
    <3>1. latest <= ledger /\ (open => latest < ledger)
      BY <1>2, <2>4 DEF PlaceInv
    <3> QED BY <1>4, <2>2, <3>1
  <2> QED BY <1>2, <1>6, <1>8, <1>9, <1>10, <2>1, <2>3, <2>4 DEF PlaceInv
<1>13. ApplyAt' = ApplyAt
  BY <1>6 DEF ApplyAt
<1>14. PageInv'
  <2> SUFFICES ASSUME pc = "apply"
               PROVE  /\ page.cursor <= Len(log') /\ Pos' <= ApplyAt
                      /\ \A n \in 1..Len(page.events) : page.events[n] = log'[ApplyAt + n]
    BY <1>2, <1>6, <1>13 DEF PageInv
  <2>1. /\ page.cursor # None /\ page.cursor <= Len(log) /\ ApplyAt \in Nat /\ Pos <= ApplyAt
        /\ \A n \in 1..Len(page.events) : page.events[n] = log[ApplyAt + n]
        /\ Following
    BY <1>2 DEF PageInv, PlaceInv
  <2>2. page.cursor \in Nat /\ Len(page.events) \in Nat
    BY <1>2, <2>1 DEF IndexType
  <2>3. page.cursor = ApplyAt + Len(page.events)
    BY <2>2 DEF ApplyAt
  <2>4. \A n \in 1..Len(page.events) : ApplyAt + n \in 1..Len(log)
    BY <1>5, <2>1, <2>2, <2>3
  <2>5. page.cursor <= Len(log')
    BY <1>4, <1>5, <2>1, <2>2
  <2> QED BY <1>4, <1>8, <2>1, <2>4, <2>5
<1>15. ASSUME NEW map \in Map, NEW c \in 0..Len(log), Covers(bound, map, c)
       PROVE  \A j \in JobIds : Near(log', jobs'[j], b2, map[j], j, c)
  BY <1>4, <1>15 DEF Covers
<1>16. index \in Map /\ fresh \in Map
  BY <1>2 DEF IndexType
<1>17. NearInv(b2)'
  <2>1. ASSUME pc \in {"idle", "events", "latest", "count", "page"}, Following, ~ gap
        PROVE  \A j \in JobIds : Near(log', jobs'[j], b2, index[j], j, Pos)
    <3>1. Pos \in 0..Len(log) /\ Covers(bound, index, Pos)
      BY <1>1, <1>2, <1>5, <2>1, PosPlace DEF NearInv
    <3> QED BY <1>15, <1>16, <3>1
  <2>2. ASSUME pc = "apply", ~ gap, NEW c \in Pos..ApplyAt
        PROVE  \A j \in JobIds : Near(log', jobs'[j], b2, index[j], j, c)
    <3>1. Covers(bound, index, c)
      BY <1>1, <2>2 DEF NearInv
    <3>2. Following /\ ApplyAt \in Nat /\ page.cursor \in Nat /\ page.cursor <= Len(log)
          /\ Len(page.events) \in Nat
      BY <1>2, <2>2 DEF PageInv, PlaceInv, IndexType
    <3>3. Pos \in 0..Len(log)
      BY <1>2, <1>5, <3>2, PosPlace
    <3>4. ApplyAt <= page.cursor
      BY <3>2 DEF ApplyAt
    <3>5. c \in 0..Len(log)
      BY <1>5, <3>2, <3>3, <3>4
    <3> QED BY <1>15, <1>16, <3>1, <3>5
  <2>3. ASSUME pc \in {"page", "begin"} PROVE Snapshot \in 0..Len(log)
    <3>1. latest + 1 \in Nat
      BY <1>2 DEF IndexType
    <3> QED BY <1>2, <1>5, <3>1, Places DEF Snapshot
  <2>4. ASSUME pc = "begin", NEW c \in 0..Snapshot
        PROVE  \A j \in JobIds : Near(log', jobs'[j], b2, index[j], j, c)
    <3>1. Covers(bound, index, c) /\ Snapshot \in 0..Len(log)
      BY <1>1, <2>3, <2>4 DEF NearInv
    <3>2. c \in 0..Len(log)
      BY <1>5, <3>1
    <3> QED BY <1>15, <1>16, <3>1, <3>2
  <2>5. ASSUME pc = "page", NEW j \in JobIds, j < start \/ j >= count, NEW c \in 0..Snapshot
        PROVE  Near(log', jobs'[j], b2, fresh[j], j, c)
    <3>1. Near(log, jobs[j], bound, fresh[j], j, c) /\ Snapshot \in 0..Len(log)
      BY <1>1, <2>3, <2>5 DEF NearInv
    <3>2. c \in 0..Len(log)
      BY <1>5, <3>1
    <3> QED BY <1>4, <3>1, <3>2
  <2>6. pc = "apply" => Following
    BY <1>2 DEF PlaceInv
  <2> QED BY <1>6, <1>8, <1>9, <1>10, <1>13, <2>1, <2>2, <2>4, <2>5, <2>6 DEF NearInv, Covers
<1> QED BY <1>4, <1>11, <1>12, <1>14, <1>17 DEF IndexInv

-----------------------------------------------------------------------------
(* The keeper's steps: the registry stands still. *)

\* What a step of the keeper starts from.
Facts(bound) ==
    /\ LedgerInv /\ IndexType /\ PlaceInv /\ PageInv
    /\ FeedOK(log, jobs, bound) /\ NearInv(bound)

LEMMA BotKeeps ==
  ASSUME NEW bound, Facts(bound), UNCHANGED feedVars,
         IndexType', PlaceInv', PageInv', NearInv(bound)'
  PROVE  IndexInv'
<1>1. log' = log /\ jobs' = jobs /\ ledger' = ledger /\ open' = open /\ next_id' = next_id
  BY DEF feedVars
<1>2. LedgerInv'
  BY <1>1 DEF Facts, LedgerInv, Sorted
<1>3. FeedOK(log', jobs', bound)
  BY <1>1 DEF Facts
<1> QED BY <1>2, <1>3 DEF IndexInv

\* The places of the log stay where they are.
LEMMA Still ==
  ASSUME UNCHANGED feedVars
  PROVE  /\ log' = log /\ jobs' = jobs /\ ledger' = ledger /\ open' = open /\ next_id' = next_id
         /\ \A f : Cardinality({i \in 1..Len(log') : log'[i].ledger < f}) = Behind(f)
         /\ UNCHANGED <<cursor, pending_start>> => Pos' = Pos /\ (Following' <=> Following)
         /\ UNCHANGED latest => Snapshot' = Snapshot
         /\ UNCHANGED page => ApplyAt' = ApplyAt
<1>1. log' = log /\ jobs' = jobs /\ ledger' = ledger /\ open' = open /\ next_id' = next_id
  BY DEF feedVars
<1>2. \A f : Cardinality({i \in 1..Len(log') : log'[i].ledger < f}) = Behind(f)
  BY <1>1 DEF Behind
<1>3. UNCHANGED <<cursor, pending_start>> => Pos' = Pos /\ (Following' <=> Following)
  BY <1>1 DEF Pos, Following, Behind
<1>4. UNCHANGED latest => Snapshot' = Snapshot
  BY <1>1 DEF Snapshot, Behind
<1>5. UNCHANGED page => ApplyAt' = ApplyAt
  BY DEF ApplyAt
<1> QED BY <1>1, <1>2, <1>3, <1>4, <1>5

\* The registry's own state may go on from everywhere.
LEMMA Itself ==
  ASSUME NEW bound, Facts(bound), NEW j \in JobIds, NEW c \in 0..Len(log)
  PROVE  Near(log, jobs[j], bound, jobs[j], j, c)
  BY DEF Facts, FeedOK

LEMMA BasicFacts ==
  ASSUME NEW bound, Facts(bound)
  PROVE  /\ log \in Seq(Event) /\ Len(log) \in Nat /\ ledger \in Nat /\ latest \in Nat
         /\ start \in Nat /\ count \in Nat /\ next_id \in Nat
         /\ (Following => Pos \in 0..Len(log)) /\ Snapshot \in 0..Len(log)
         /\ jobs \in Map /\ index \in Map /\ fresh \in Map
         /\ None \notin Nat /\ None \notin Job
<1>1. log \in Seq(Event) /\ jobs \in Map
  BY DEF Facts, FeedOK, Map
<1>2. LedgerInv /\ IndexType /\ PlaceInv
  BY DEF Facts
<1>3. Len(log) \in Nat
  BY <1>1
<1>4. latest + 1 \in Nat /\ latest \in Nat
  BY <1>2 DEF IndexType
<1>5. Snapshot \in 0..Len(log)
  BY <1>1, <1>2, <1>4, Places DEF Snapshot
<1>6. Following => Pos \in 0..Len(log)
  BY <1>1, <1>2, PosPlace
<1> QED BY <1>1, <1>2, <1>3, <1>4, <1>5, <1>6, FeedAssumption DEF IndexType, LedgerInv

\* load reads the ledger: every event so far is of it or of an earlier one.
LEMMA LatestStep == ASSUME IndexInv, load_latest PROVE IndexInv'
<1>1. PICK bound : Facts(bound)
  BY DEF IndexInv, Facts
<1>2. /\ pc = "latest" /\ ~ open /\ latest' = ledger /\ pc' = "count"
      /\ UNCHANGED <<feedVars, index, cursor, pending_start, syncs, count, start, fresh,
                     page, failures, gap>>
  BY DEF load_latest
<1>3. /\ log' = log /\ jobs' = jobs /\ ledger' = ledger /\ open' = open
      /\ (\A f : Cardinality({i \in 1..Len(log') : log'[i].ledger < f}) = Behind(f))
      /\ Pos' = Pos /\ (Following' <=> Following) /\ ApplyAt' = ApplyAt
  BY <1>2, Still
<1>4. /\ log \in Seq(Event) /\ Len(log) \in Nat /\ ledger \in Nat /\ latest \in Nat
      /\ (Following => Pos \in 0..Len(log))
  BY <1>1, BasicFacts
<1>5. LedgerInv /\ IndexType /\ PlaceInv /\ PageInv /\ NearInv(bound)
  BY <1>1 DEF Facts
<1>6. Behind(ledger + 1) = Len(log)
  <2>1. ledger + 1 \in Nat
    BY <1>4
  <2>2. /\ Behind(ledger + 1) \in 0..Len(log)
        /\ \A i \in 1..Len(log) : i <= Behind(ledger + 1) <=> log[i].ledger < ledger + 1
    BY <1>4, <1>5, <2>1, Places
  <2>3. CASE Len(log) = 0
    BY <2>2, <2>3
  <2>4. CASE Len(log) # 0
    <3>1. Len(log) \in 1..Len(log)
      BY <1>4, <2>4
    <3>2. log[Len(log)].ledger \in Nat /\ log[Len(log)].ledger <= ledger
      BY <1>4, <1>5, <3>1, EventFacts DEF LedgerInv
    <3>3. log[Len(log)].ledger < ledger + 1
      BY <1>4, <3>2
    <3>4. Len(log) <= Behind(ledger + 1)
      BY <2>2, <3>1, <3>3
    <3> QED BY <1>4, <2>2, <3>4
  <2> QED BY <2>3, <2>4
<1>7. Snapshot' = Len(log)
  <2>1. latest' + 1 = ledger + 1
    BY <1>2
  <2>2. Snapshot' = Cardinality({i \in 1..Len(log') : log'[i].ledger < ledger + 1})
    BY <2>1 DEF Snapshot, Behind
  <2> QED BY <1>3, <1>6, <2>2
<1>8. IndexType'
  BY <1>2, <1>4, <1>5 DEF IndexType
<1>9. Following => Pos <= Len(log)
  BY <1>4
<1>10. PlaceInv'
  BY <1>2, <1>3, <1>4, <1>5, <1>7, <1>9 DEF PlaceInv
<1>11. PageInv'
  BY <1>2 DEF PageInv
<1>12. NearInv(bound)'
  BY <1>2, <1>3, <1>5 DEF NearInv, Covers
<1> QED BY <1>1, <1>2, <1>8, <1>10, <1>11, <1>12, BotKeeps

\* load reads how many jobs there are: the others do not exist, or will be created
\* by a later event.
LEMMA CountStep == ASSUME IndexInv, load_count PROVE IndexInv'
<1>1. PICK bound : Facts(bound)
  BY DEF IndexInv, Facts
<1>2. /\ pc = "count" /\ ~ open /\ count' = next_id
      /\ IF next_id = 0 THEN Install(NoJobs) ELSE pc' = "page" /\ UNCHANGED <<index, gap>>
      /\ UNCHANGED <<feedVars, cursor, pending_start, syncs, latest, start, fresh, page,
                     failures>>
  BY DEF load_count
<1>3. /\ log' = log /\ jobs' = jobs /\ ledger' = ledger /\ open' = open
      /\ Pos' = Pos /\ (Following' <=> Following) /\ ApplyAt' = ApplyAt /\ Snapshot' = Snapshot
  BY <1>2, Still
<1>4. /\ Len(log) \in Nat /\ Snapshot \in 0..Len(log) /\ next_id \in Nat /\ index \in Map
      /\ fresh \in Map
  BY <1>1, BasicFacts
<1>5. LedgerInv /\ IndexType /\ PlaceInv /\ PageInv /\ NearInv(bound)
  BY <1>1 DEF Facts
<1>6. ASSUME NEW j \in JobIds, j >= next_id, NEW c \in 0..Snapshot
      PROVE  Near(log, jobs[j], bound, None, j, c)
  <2>1. jobs[j] = None /\ c \in 0..Len(log)
    BY <1>4, <1>5, <1>6 DEF LedgerInv
  <2> QED BY <1>1, <2>1, Itself
<1>7. start = 0 /\ \A j \in JobIds : j >= 0 /\ ~ (j < 0)
  <2>1. start = 0
    BY <1>2, <1>5 DEF PlaceInv
  <2> QED BY <2>1, FeedAssumption DEF JobIds
<1>8. \A j \in JobIds : fresh[j] = None
  BY <1>5, <1>7 DEF PlaceInv
<1>9. NoJobs \in Map /\ \A j \in JobIds : NoJobs[j] = None
  BY DEF Map, NoJobs
<1>10. CASE next_id = 0
  <2>1. index' = NoJobs /\ pc' = "begin"
    BY <1>2, <1>10 DEF Install
  <2>2. IndexType'
    BY <1>2, <1>4, <1>5, <1>9, <2>1 DEF IndexType
  <2>3. PlaceInv' /\ PageInv'
    BY <1>2, <1>3, <1>5, <2>1 DEF PlaceInv, PageInv
  <2>4. NearInv(bound)'
    BY <1>3, <1>6, <1>7, <1>9, <1>10, <2>1 DEF NearInv, Covers
  <2> QED BY <1>1, <1>2, <2>2, <2>3, <2>4, BotKeeps
<1>11. CASE next_id # 0
  <2>1. index' = index /\ pc' = "page" /\ gap' = gap
    BY <1>2, <1>11
  <2>2. IndexType'
    BY <1>2, <1>4, <1>5, <2>1 DEF IndexType
  <2>3. PlaceInv' /\ PageInv'
    BY <1>2, <1>3, <1>5, <2>1 DEF PlaceInv, PageInv
  <2>4. NearInv(bound)'
    BY <1>2, <1>3, <1>5, <1>6, <1>7, <1>8, <2>1 DEF NearInv, Covers
  <2> QED BY <1>1, <1>2, <2>2, <2>3, <2>4, BotKeeps
<1> QED BY <1>10, <1>11

\* load reads a page: jobs as they are by now, behind the ledger read first.
LEMMA PageStep == ASSUME IndexInv, load_page PROVE IndexInv'
<1>1. PICK bound : Facts(bound)
  BY DEF IndexInv, Facts
<1>2. /\ pc = "page" /\ ~ open /\ start' = start + PAGE
      /\ fresh' = [j \in JobIds |-> IF j \in start..(start + PAGE - 1) THEN jobs[j] ELSE fresh[j]]
      /\ IF start + PAGE >= count THEN Install(fresh') ELSE UNCHANGED <<pc, index, gap>>
      /\ UNCHANGED <<feedVars, cursor, pending_start, syncs, latest, count, page, failures>>
  BY DEF load_page
<1>3. /\ log' = log /\ jobs' = jobs /\ ledger' = ledger /\ open' = open
      /\ Pos' = Pos /\ (Following' <=> Following) /\ ApplyAt' = ApplyAt /\ Snapshot' = Snapshot
  BY <1>2, Still
<1>4. /\ Len(log) \in Nat /\ Snapshot \in 0..Len(log) /\ index \in Map
      /\ fresh \in Map /\ jobs \in Map /\ start \in Nat /\ count \in Nat /\ PAGE \in Nat \ {0}
  BY <1>1, BasicFacts, IndexAssumption
<1>5. LedgerInv /\ IndexType /\ PlaceInv /\ PageInv /\ NearInv(bound)
  BY <1>1 DEF Facts
<1>6. fresh' \in Map /\ start' \in Nat
  BY <1>2, <1>4 DEF Map
<1>7. ASSUME NEW j \in JobIds, j < start' \/ j >= count, NEW c \in 0..Snapshot
      PROVE  Near(log, jobs[j], bound, fresh'[j], j, c)
  <2>1. CASE j \in start..(start + PAGE - 1)
    <3>1. fresh'[j] = jobs[j] /\ c \in 0..Len(log)
      BY <1>2, <1>4, <2>1
    <3> QED BY <1>1, <3>1, Itself
  <2>2. CASE j \notin start..(start + PAGE - 1)
    <3>1. fresh'[j] = fresh[j]
      BY <1>2, <2>2
    <3>2. j < start \/ j >= count
      <4>1. j \in Nat
        BY FeedAssumption DEF JobIds
      <4> QED BY <1>2, <1>4, <1>7, <2>2, <4>1
    <3> QED BY <1>2, <1>5, <3>1, <3>2 DEF NearInv
  <2> QED BY <2>1, <2>2
<1>8. ASSUME NEW j \in JobIds, j >= start' PROVE fresh'[j] = None
  <2>1. j \in Nat
    BY FeedAssumption DEF JobIds
  <2>2. j >= start /\ j \notin start..(start + PAGE - 1)
    BY <1>2, <1>4, <1>8, <2>1
  <2> QED BY <1>2, <1>5, <2>2 DEF PlaceInv
<1>9. CASE start + PAGE >= count
  <2>1. index' = fresh' /\ pc' = "begin"
    BY <1>2, <1>9 DEF Install
  <2>2. IndexType'
    BY <1>2, <1>5, <1>6, <2>1 DEF IndexType
  <2>3. PlaceInv' /\ PageInv'
    BY <1>2, <1>3, <1>5, <1>8, <2>1 DEF PlaceInv, PageInv
  <2>4. \A j \in JobIds : j < start' \/ j >= count
    <3>1. \A j \in JobIds : j \in Nat
      BY FeedAssumption DEF JobIds
    <3> QED BY <1>2, <1>4, <1>9, <3>1
  <2>5. NearInv(bound)'
    BY <1>3, <1>7, <2>1, <2>4 DEF NearInv, Covers
  <2> QED BY <1>1, <1>2, <2>2, <2>3, <2>5, BotKeeps
<1>10. CASE ~ (start + PAGE >= count)
  <2>1. index' = index /\ pc' = pc /\ gap' = gap
    BY <1>2, <1>10
  <2>2. IndexType'
    BY <1>2, <1>5, <1>6, <2>1 DEF IndexType
  <2>3. PlaceInv' /\ PageInv'
    BY <1>2, <1>3, <1>5, <1>8, <2>1 DEF PlaceInv, PageInv
  <2>4. NearInv(bound)'
    BY <1>2, <1>3, <1>5, <1>7, <2>1 DEF NearInv, Covers
  <2> QED BY <1>1, <1>2, <2>2, <2>3, <2>4, BotKeeps
<1> QED BY <1>9, <1>10

\* The events a server returns are the next ones of the log.
LEMMA EventsFromFacts ==
  ASSUME log \in Seq(Event), NEW from \in 0..Len(log), NEW limit \in Nat \ {0}
  PROVE  LET events == EventsFrom(from, limit)
         IN  /\ events \in Seq(Event) /\ Len(events) \in Nat /\ from + Len(events) <= Len(log)
             /\ Len(events) <= limit
             /\ \A n \in 1..Len(events) : events[n] = log[from + n]
             /\ events = <<>> <=> Len(events) = 0
<1> DEFINE to == IF from + limit < Len(log) THEN from + limit ELSE Len(log)
           events == EventsFrom(from, limit)
<1>1. Len(log) \in Nat
  OBVIOUS
<1>2. from \in Nat /\ to \in Nat /\ from <= to /\ to <= Len(log) /\ to <= from + limit
  BY <1>1
<1>3. events = SubSeq(log, from + 1, to)
  BY DEF EventsFrom
<1> HIDE DEF to, events
<1>4. from + 1 \in Nat /\ \A i \in (from + 1)..to : i \in 1..Len(log)
  BY <1>1, <1>2
<1>5. events \in Seq(Event)
  BY <1>1, <1>2, <1>3, <1>4, SubSeqProperties
<1>6. Len(events) = to - from /\ \A n \in 1..(to - from) : events[n] = log[from + n]
  <2>1. /\ Len(events) = IF from + 1 <= to THEN to - (from + 1) + 1 ELSE 0
        /\ \A n \in 1..(to - (from + 1) + 1) : events[n] = log[(from + 1) + n - 1]
    BY <1>1, <1>2, <1>3, <1>4, SubSeqProperties
  <2>2. to - (from + 1) + 1 = to - from /\ \A n \in Int : (from + 1) + n - 1 = from + n
    BY <1>2
  <2>3. Len(events) = to - from
    BY <1>2, <2>1
  <2>4. ASSUME NEW n \in 1..(to - from) PROVE events[n] = log[from + n]
    <3>1. n \in 1..(to - (from + 1) + 1) /\ (from + 1) + n - 1 = from + n
      BY <1>2
    <3> QED BY <2>1, <3>1
  <2> QED BY <2>3, <2>4
<1>7. events = <<>> <=> Len(events) = 0
  BY <1>5, EmptySeq
<1>8. Len(events) \in Nat /\ from + Len(events) <= Len(log) /\ Len(events) <= limit
  BY <1>1, <1>2, <1>6
<1> QED BY <1>5, <1>6, <1>7, <1>8 DEF events

\* The new index starts to follow events: no event of a later ledger is passed
\* over, or the gap is noted.
LEMMA BeginStep == ASSUME IndexInv, load_begin PROVE IndexInv'
<1>1. PICK bound : Facts(bound)
  BY DEF IndexInv, Facts
<1> DEFINE from == Behind(latest)
           events == EventsFrom(from, 1)
<1>2. /\ pc = "begin" /\ ~ open /\ cursor' \in Cursors(events, from)
      /\ pending_start' = (IF cursor' = None THEN latest ELSE None)
      /\ gap' = (events # <<>> /\ Head(events).ledger > latest)
      /\ pc' = "idle" /\ latest' = 0 /\ count' = 0 /\ start' = 0 /\ fresh' = NoJobs
      /\ UNCHANGED <<feedVars, index, syncs, page, failures>>
  BY DEF load_begin, start_ledger
<1>3. /\ log' = log /\ jobs' = jobs /\ ledger' = ledger /\ open' = open
      /\ (\A f : Cardinality({i \in 1..Len(log') : log'[i].ledger < f}) = Behind(f))
  BY <1>2, Still
<1>4. /\ log \in Seq(Event) /\ Len(log) \in Nat /\ ledger \in Nat /\ latest \in Nat
      /\ Snapshot \in 0..Len(log) /\ index \in Map /\ None \notin Nat
  BY <1>1, BasicFacts
<1>5. LedgerInv /\ IndexType /\ PlaceInv /\ PageInv /\ NearInv(bound)
  BY <1>1 DEF Facts
<1>6. /\ from \in 0..Len(log)
      /\ \A i \in 1..Len(log) : i <= from <=> log[i].ledger < latest
  BY <1>4, <1>5, Places
<1>7. \A i \in 1..Len(log) : i <= Snapshot <=> log[i].ledger < latest + 1
  <2>1. latest + 1 \in Nat
    BY <1>4
  <2> QED BY <1>4, <1>5, <2>1, Places DEF Snapshot
<1>8. from <= Snapshot
  <2>1. CASE from = 0
    BY <1>4, <2>1
  <2>2. CASE from # 0
    <3> HIDE DEF from
    <3>1. from \in 1..Len(log) /\ from <= from
      BY <1>4, <1>6, <2>2
    <3>2. log[from].ledger < latest /\ log[from].ledger \in Nat
      BY <1>4, <1>6, <3>1, EventFacts
    <3>3. log[from].ledger < latest + 1
      BY <1>4, <3>2
    <3> QED BY <1>7, <3>1, <3>3
  <2> QED BY <2>1, <2>2
<1>9. /\ events \in Seq(Event) /\ Len(events) \in Nat /\ from + Len(events) <= Len(log)
      /\ Len(events) <= 1
      /\ \A n \in 1..Len(events) : events[n] = log[from + n]
      /\ events = <<>> <=> Len(events) = 0
  <2>1. 1 \in Nat \ {0}
    OBVIOUS
  <2> QED BY <1>4, <1>6, <2>1, EventsFromFacts
<1>10. cursor' = from + Len(events) \/ (cursor' = None /\ events = <<>>)
  BY <1>2 DEF Cursors
<1> HIDE DEF from, events
<1>11. ~ gap' => from + Len(events) <= Snapshot
  <2> SUFFICES ASSUME ~ gap' PROVE from + Len(events) <= Snapshot
    OBVIOUS
  <2>1. CASE events = <<>>
    BY <1>4, <1>6, <1>8, <1>9, <2>1
  <2>2. CASE events # <<>>
    <3>1. Len(events) = 1
      <4>1. Len(events) # 0
        BY <1>9, <2>2, Zenon
      <4>2. Len(events) \in Nat /\ Len(events) <= 1
        BY <1>9
      <4>3. \A n \in Nat : n # 0 /\ n <= 1 => n = 1
        OBVIOUS
      <4> QED BY <4>1, <4>2, <4>3, Zenon
    <3>2. Head(events) = log[from + 1] /\ from + 1 \in 1..Len(log)
      <4>1. Head(events) = events[1]
        BY <1>9, <3>1
      <4>2. 1 \in 1..Len(events) /\ from + 1 \in 1..Len(log)
        BY <1>4, <1>6, <1>9, <3>1
      <4> QED BY <1>9, <4>1, <4>2
    <3>3. log[from + 1].ledger \in Nat /\ ~ (log[from + 1].ledger > latest)
      BY <1>2, <1>4, <2>2, <3>2, EventFacts
    <3>4. log[from + 1].ledger < latest + 1
      BY <1>4, <3>3
    <3> QED BY <1>7, <3>1, <3>2, <3>4
  <2> QED BY <2>1, <2>2
<1>12. /\ Following' /\ cursor' \in Nat \cup {None} /\ pending_start' \in Nat \cup {None}
       /\ cursor' # None => cursor' <= Len(log)
       /\ pending_start' # None => pending_start' <= ledger
       /\ Pos' = from + Len(events)
  <2>1. from + Len(events) \in Nat
    BY <1>6, <1>9
  <2>2. CASE cursor' = None
    <3>1. pending_start' = latest /\ latest <= ledger /\ latest # None
      BY <1>2, <1>4, <1>5, <2>2 DEF PlaceInv
    <3>2. Len(events) = 0
      BY <1>4, <1>9, <1>10, <2>1, <2>2
    <3>3. Pos' = from
      <4>1. Pos' = Cardinality({i \in 1..Len(log') : log'[i].ledger < latest})
        BY <2>2, <3>1 DEF Pos, Behind
      <4> QED BY <1>3, <4>1 DEF from
    <3>4. from + Len(events) = from
      BY <1>6, <3>2
    <3> QED BY <1>4, <2>2, <3>1, <3>3, <3>4 DEF Following
  <2>3. CASE cursor' # None
    <3>1. cursor' = from + Len(events) /\ pending_start' = None
      BY <1>2, <1>10, <2>3
    <3> QED BY <1>9, <2>1, <2>3, <3>1 DEF Following, Pos
  <2> QED BY <2>2, <2>3
<1>13. NoJobs \in Map /\ \A j \in JobIds : NoJobs[j] = None
  BY DEF Map, NoJobs
<1>14. IndexType'
  BY <1>2, <1>5, <1>12, <1>13 DEF IndexType
<1>15. PlaceInv' /\ PageInv'
  BY <1>2, <1>3, <1>12, <1>13 DEF PlaceInv, PageInv
<1>16. NearInv(bound)'
  <2>1. ASSUME ~ gap' PROVE Covers(bound, index, from + Len(events))
    <3>1. from + Len(events) \in 0..Snapshot
      BY <1>4, <1>6, <1>9, <1>11, <2>1
    <3> QED BY <1>2, <1>5, <3>1 DEF NearInv
  <2> QED BY <1>2, <1>3, <1>12, <2>1 DEF NearInv, Covers
<1> QED BY <1>1, <1>2, <1>14, <1>15, <1>16, BotKeeps

\* A failing load: what has been installed goes on with the old cursor.
LEMMA LoadFailsStep == ASSUME IndexInv, load_fails PROVE IndexInv'
<1>1. PICK bound : Facts(bound)
  BY DEF IndexInv, Facts
<1>2. /\ pc \in {"latest", "count", "page", "begin"}
      /\ pc' = (IF cursor = None /\ pending_start = None THEN "latest" ELSE "idle")
      /\ latest' = 0 /\ count' = 0 /\ start' = 0 /\ fresh' = NoJobs
      /\ UNCHANGED <<feedVars, index, cursor, pending_start, syncs, page, gap>>
  BY DEF load_fails
<1>3. /\ log' = log /\ jobs' = jobs /\ ledger' = ledger /\ open' = open
      /\ Pos' = Pos /\ (Following' <=> Following)
  BY <1>2, Still
<1>4. /\ Len(log) \in Nat /\ Snapshot \in 0..Len(log) /\ (Following => Pos \in 0..Len(log))
  BY <1>1, BasicFacts
<1>5. LedgerInv /\ IndexType /\ PlaceInv /\ PageInv /\ NearInv(bound)
  BY <1>1 DEF Facts
<1>6. NoJobs \in Map /\ \A j \in JobIds : NoJobs[j] = None
  BY DEF Map, NoJobs
<1>7. pc' = "latest" \/ (pc' = "idle" /\ Following)
  BY <1>2 DEF Following
<1>8. IndexType'
  BY <1>2, <1>5, <1>6 DEF IndexType
<1>9. PlaceInv' /\ PageInv'
  BY <1>2, <1>3, <1>5, <1>6, <1>7 DEF PlaceInv, PageInv
<1>10. ASSUME Following, ~ gap PROVE Covers(bound, index, Pos)
  <2>1. CASE pc = "begin"
    <3>1. Pos <= Snapshot
      BY <1>5, <1>10, <2>1 DEF PlaceInv
    <3>2. Pos \in 0..Snapshot
      BY <1>4, <1>10, <3>1
    <3> QED BY <1>5, <2>1, <3>2 DEF NearInv
  <2>2. CASE pc # "begin"
    BY <1>2, <1>5, <1>10, <2>2 DEF NearInv
  <2> QED BY <2>1, <2>2
<1>11. NearInv(bound)'
  BY <1>2, <1>3, <1>7, <1>10 DEF NearInv, Covers
<1> QED BY <1>1, <1>2, <1>8, <1>9, <1>11, BotKeeps

\* A tick begins.
LEMMA SyncStep == ASSUME IndexInv, sync PROVE IndexInv'
<1>1. PICK bound : Facts(bound)
  BY DEF IndexInv, Facts
<1>2. /\ pc = "idle" /\ pc' \in {"latest", "events"}
      /\ UNCHANGED <<feedVars, index, cursor, pending_start, latest, count, start, fresh,
                     page, failures, gap>>
  BY DEF sync
<1>3. /\ log' = log /\ jobs' = jobs /\ ledger' = ledger /\ open' = open
      /\ Pos' = Pos /\ (Following' <=> Following)
  BY <1>2, Still
<1>4. LedgerInv /\ IndexType /\ PlaceInv /\ PageInv /\ NearInv(bound)
  BY <1>1 DEF Facts
<1>5. IndexType'
  BY <1>2, <1>4 DEF IndexType
<1>6. PlaceInv' /\ PageInv'
  BY <1>2, <1>3, <1>4 DEF PlaceInv, PageInv
<1>7. NearInv(bound)'
  BY <1>2, <1>3, <1>4 DEF NearInv, Covers
<1> QED BY <1>1, <1>2, <1>5, <1>6, <1>7, BotKeeps

\* A page of events arrives.
LEMMA EventsStep == ASSUME IndexInv, sync_events PROVE IndexInv'
<1>1. PICK bound : Facts(bound)
  BY DEF IndexInv, Facts
<1> DEFINE events == EventsFrom(Pos, EventLimit)
           full == Len(events) = EventLimit
<1>2. PICK c \in Cursors(events, Pos) : Turn([events |-> events, cursor |-> c, full |-> full])
  BY DEF sync_events, Pos
<1>3. /\ pc = "events" /\ ~ open
      /\ UNCHANGED <<feedVars, index, syncs, latest, count, start, fresh, failures, gap>>
  BY DEF sync_events
<1>4. /\ log' = log /\ jobs' = jobs /\ ledger' = ledger /\ open' = open
      /\ UNCHANGED <<cursor, pending_start>> => Pos' = Pos /\ (Following' <=> Following)
  BY <1>3, Still
<1>5. LedgerInv /\ IndexType /\ PlaceInv /\ PageInv /\ NearInv(bound)
  BY <1>1 DEF Facts
<1>6. Following
  BY <1>3, <1>5 DEF PlaceInv
<1>7. /\ log \in Seq(Event) /\ Len(log) \in Nat /\ Pos \in 0..Len(log) /\ None \notin Nat
  BY <1>1, <1>6, BasicFacts
<1>8. /\ events \in Seq(Event) /\ Len(events) \in Nat /\ Pos + Len(events) <= Len(log)
      /\ \A n \in 1..Len(events) : events[n] = log[Pos + n]
      /\ events = <<>> <=> Len(events) = 0
  BY <1>7, EventsFromFacts, IndexAssumption
<1>9. c = Pos + Len(events) \/ (c = None /\ events = <<>>)
  BY DEF Cursors
<1>10. full \in BOOLEAN
  OBVIOUS
<1> DEFINE left == [events |-> events, cursor |-> c, full |-> full]
<1>11. left.events = events /\ left.cursor = c /\ left.full = full
  OBVIOUS
<1> HIDE DEF events, full
<1>12. Pos + Len(events) \in Nat /\ Pos \in Nat
  BY <1>7, <1>8
<1>13. left \in [events : Seq(Event), cursor : Nat \cup {None}, full : BOOLEAN]
  BY <1>8, <1>9, <1>10, <1>12
<1>14. Turn(left)
  BY <1>2
<1> HIDE DEF left
<1>15. ~ gap => Covers(bound, index, Pos)
  BY <1>3, <1>5, <1>6 DEF NearInv
<1>16. CASE events # <<>>
  <2>1. pc' = "apply" /\ page' = left /\ UNCHANGED <<cursor, pending_start>>
    BY <1>11, <1>14, <1>16 DEF Turn
  <2>2. c = Pos + Len(events) /\ c # None
    BY <1>7, <1>9, <1>12, <1>16
  <2>3. ApplyAt' = Pos
    <3>1. ApplyAt' = c - Len(events)
      BY <1>11, <2>1 DEF ApplyAt
    <3> QED BY <1>8, <1>12, <2>2, <3>1
  <2>4. Pos' = Pos /\ (Following' <=> Following)
    BY <1>4, <2>1
  <2>5. IndexType'
    BY <1>3, <1>5, <1>13, <2>1 DEF IndexType
  <2>6. PlaceInv'
    BY <1>3, <1>4, <1>5, <1>6, <2>1, <2>4 DEF PlaceInv
  <2>7. PageInv'
    <3>1. /\ page'.events # <<>> /\ page'.cursor # None /\ page'.cursor <= Len(log')
          /\ ApplyAt' \in Nat /\ Pos' <= ApplyAt'
      BY <1>4, <1>8, <1>11, <1>12, <1>16, <2>1, <2>2, <2>3, <2>4
    <3>2. \A n \in 1..Len(page'.events) : page'.events[n] = log'[ApplyAt' + n]
      BY <1>4, <1>8, <1>11, <2>1, <2>3
    <3> QED BY <3>1, <3>2 DEF PageInv
  <2>8. NearInv(bound)'
    <3>1. \A k \in Pos'..ApplyAt' : k = Pos
      BY <1>12, <2>3, <2>4
    <3> QED BY <1>3, <1>4, <1>15, <2>1, <3>1 DEF NearInv, Covers
  <2> QED BY <1>1, <1>3, <2>5, <2>6, <2>7, <2>8, BotKeeps
<1>17. CASE events = <<>>
  <2>1. /\ cursor' = (IF c # None THEN c ELSE cursor)
        /\ pending_start' = (IF c # None THEN None ELSE pending_start)
        /\ page' = NoPage /\ pc' \in {"events", "idle"}
    BY <1>11, <1>14, <1>17 DEF Turn
  <2>2. c = Pos \/ c = None
    <3>1. Len(events) = 0
      BY <1>8, <1>17
    <3> QED BY <1>9, <1>12, <3>1
  <2>3. /\ Pos' = Pos /\ Following' /\ cursor' \in Nat \cup {None}
        /\ pending_start' \in Nat \cup {None}
        /\ cursor' # None => cursor' <= Len(log)
        /\ pending_start' # None => pending_start' <= ledger
    <3>1. CASE c = None
      <4>1. UNCHANGED <<cursor, pending_start>>
        BY <2>1, <3>1
      <4> QED BY <1>4, <1>5, <1>6, <4>1 DEF IndexType, PlaceInv
    <3>2. CASE c # None
      <4>1. c = Pos /\ cursor' = Pos /\ pending_start' = None
        BY <2>1, <2>2, <3>2
      <4>2. Pos <= Len(log)
        BY <1>7
      <4> QED BY <1>12, <3>2, <4>1, <4>2 DEF Following, Pos
    <3> QED BY <3>1, <3>2
  <2>4. NoPage \in [events : Seq(Event), cursor : Nat \cup {None}, full : BOOLEAN]
    BY EmptySeq DEF NoPage
  <2>5. IndexType'
    BY <1>3, <1>5, <2>1, <2>3, <2>4 DEF IndexType
  <2>6. PlaceInv' /\ PageInv'
    BY <1>3, <1>4, <1>5, <2>1, <2>3 DEF PlaceInv, PageInv
  <2>7. NearInv(bound)'
    BY <1>3, <1>4, <1>15, <2>1, <2>3 DEF NearInv, Covers
  <2> QED BY <1>1, <1>3, <2>5, <2>6, <2>7, BotKeeps
<1> QED BY <1>16, <1>17

\* What apply makes of each job.
LEMMA ApplyFacts ==
  ASSUME index \in Map, NEW e \in Event, NEW j \in JobIds
  PROVE  apply(e)[j] = IF e.job = j THEN After(index[j], jobs[j], e) ELSE index[j]
<1>1. e.job \in JobIds
  BY DEF Event
<1>2. CASE e.job = j
  BY <1>1, <1>2 DEF apply, After, Map
<1>3. CASE e.job # j
  BY <1>1, <1>3 DEF apply, Map
<1> QED BY <1>2, <1>3

\* One event is applied: the index may go on behind it, and from everywhere it
\* might have gone on before.
LEMMA ApplyStep == ASSUME IndexInv, sync_apply PROVE IndexInv'
<1>1. PICK bound : Facts(bound)
  BY DEF IndexInv, Facts
<1> DEFINE e == Head(page.events)
           left == [page EXCEPT !.events = Tail(page.events)]
<1>2. /\ pc = "apply" /\ index' = apply(e) /\ Turn(left)
      /\ UNCHANGED <<feedVars, syncs, latest, count, start, fresh, failures, gap>>
  BY DEF sync_apply
<1>3. /\ log' = log /\ jobs' = jobs /\ ledger' = ledger /\ open' = open
      /\ UNCHANGED <<cursor, pending_start>> => Pos' = Pos /\ (Following' <=> Following)
  BY <1>2, Still
<1>4. LedgerInv /\ IndexType /\ PlaceInv /\ PageInv /\ NearInv(bound)
  BY <1>1 DEF Facts
<1>5. Following
  BY <1>2, <1>4 DEF PlaceInv
<1>6. /\ log \in Seq(Event) /\ Len(log) \in Nat /\ Pos \in 0..Len(log) /\ None \notin Nat
      /\ index \in Map
  BY <1>1, <1>5, BasicFacts
<1>7. /\ page.events # <<>> /\ page.cursor # None /\ page.cursor <= Len(log)
      /\ ApplyAt \in Nat /\ Pos <= ApplyAt
      /\ \A n \in 1..Len(page.events) : page.events[n] = log[ApplyAt + n]
  BY <1>2, <1>4 DEF PageInv
<1>8. /\ page \in [events : Seq(Event), cursor : Nat \cup {None}, full : BOOLEAN]
      /\ page.events \in Seq(Event) /\ page.cursor \in Nat
  BY <1>4, <1>7 DEF IndexType
<1> DEFINE s == page.events
           N == Len(page.events)
           p == ApplyAt
<1>9. N \in Nat \ {0}
  BY <1>7, <1>8, EmptySeq
<1>10. e = s[1] /\ Tail(s) \in Seq(Event) /\ Len(Tail(s)) = N - 1
       /\ \A n \in 1..(N - 1) : Tail(s)[n] = s[n + 1]
  <2>1. s \in Seq(Event) /\ s # <<>>
    BY <1>7, <1>8
  <2> QED BY <2>1, HeadTailProperties
<1>11. p = page.cursor - N
  BY DEF ApplyAt
<1>12. left.events = Tail(s) /\ left.cursor = page.cursor /\ left.full = page.full
       /\ left \in [events : Seq(Event), cursor : Nat \cup {None}, full : BOOLEAN]
  BY <1>8, <1>10
<1> HIDE DEF p, N, s, e, left
<1>13. p \in Nat /\ Pos <= p /\ p < Len(log) /\ e = log[p + 1] /\ p + 1 \in 1..Len(log)
       /\ page.cursor = p + N
  <2>1. p \in Nat /\ Pos <= p
    BY <1>7 DEF p
  <2>2. page.cursor = p + N
    BY <1>8, <1>9, <1>11
  <2>3. 1 \in 1..N
    BY <1>9
  <2>4. e = log[p + 1]
    BY <1>7, <1>10, <2>3 DEF p, N, s
  <2>5. page.cursor <= Len(log)
    BY <1>7
  <2>6. p < Len(log) /\ p + 1 \in 1..Len(log)
    BY <1>6, <1>8, <1>9, <2>1, <2>2, <2>5
  <2> QED BY <2>1, <2>2, <2>4, <2>6
<1>14. e \in Event
  BY <1>6, <1>13, EventFacts
<1>15. \A j \in JobIds : index'[j] = IF e.job = j THEN After(index[j], jobs[j], e) ELSE index[j]
  BY <1>2, <1>6, <1>14, ApplyFacts
<1>16. FeedOK(log, jobs, bound)
  BY <1>1 DEF Facts
<1>17. Pos \in Nat
  BY <1>6
<1>18. ~ gap => \A c \in Pos..(p + 1) : \A j \in JobIds : Near(log, jobs[j], bound, index'[j], j, c)
  <2> SUFFICES ASSUME ~ gap, NEW c \in Pos..(p + 1), NEW j \in JobIds
               PROVE  Near(log, jobs[j], bound, index'[j], j, c)
    OBVIOUS
  <2> DEFINE x == index[j]
  <2>1. x \in Job \cup {None}
    BY <1>6 DEF Map
  <2>2. ASSUME NEW k \in Pos..p PROVE Near(log, jobs[j], bound, x, j, k)
    BY <1>2, <1>4, <2>2 DEF NearInv, Covers, p
  <2>3. index'[j] = IF log[p + 1].job = j THEN After(x, jobs[j], log[p + 1]) ELSE x
    BY <1>13, <1>15
  <2> HIDE DEF x
  <2>4. CASE c = p + 1
    <3>1. p \in Pos..p
      BY <1>13, <1>17
    <3>2. Near(log, jobs[j], bound, x, j, p)
      BY <2>2, <3>1
    <3>3. Near(log, jobs[j], bound,
               IF log[p + 1].job = j THEN After(x, jobs[j], log[p + 1]) ELSE x, j, p + 1)
      BY <1>13, <1>16, <2>1, <3>2, Advance
    <3> QED BY <2>3, <2>4, <3>3
  <2>5. CASE c # p + 1
    <3>1. c \in Pos..p /\ c \in 0..p
      BY <1>13, <1>17, <2>5
    <3>2. Near(log, jobs[j], bound, x, j, c)
      BY <2>2, <3>1
    <3>3. Near(log, jobs[j], bound,
               IF log[p + 1].job = j THEN After(x, jobs[j], log[p + 1]) ELSE x, j, c)
      BY <1>13, <1>16, <2>1, <3>1, <3>2, Again
    <3> QED BY <2>3, <3>3
  <2> QED BY <2>4, <2>5
<1>19. index' \in Map
  <2>1. index' = [j \in JobIds |-> index'[j]]
    BY <1>2, <1>6 DEF apply, Map
  <2>2. ASSUME NEW j \in JobIds PROVE index'[j] \in Job \cup {None}
    <3>1. index[j] \in Job \cup {None} /\ jobs[j] \in Job \cup {None}
      BY <1>6, <1>16 DEF Map, FeedOK
    <3>2. After(index[j], jobs[j], e) \in Job \cup {None}
      <4>1. CASE e.data.type \in Resets
        BY <3>1, <4>1 DEF After, Resets
      <4>2. CASE e.data.type \notin Resets
        <5>1. e.data \in Data
          BY <1>14 DEF Event
        <5>2. index[j] # None => Applied(index[j], e.data) \in Job
          BY <3>1, <4>2, <5>1, AppliedFacts
        <5> QED BY <4>2, <5>2, AfterOther
      <4> QED BY <4>1, <4>2
    <3> QED BY <1>15, <3>1, <3>2
  <2>3. index' = [j \in JobIds |-> index'[j]] /\ \A j \in JobIds : index'[j] \in Job \cup {None}
    BY <2>1, <2>2
  <2> QED BY <2>3 DEF Map
<1>20. p + 1 \in Nat
  BY <1>13
<1>21. CASE left.events # <<>>
  <2>1. pc' = "apply" /\ page' = left /\ UNCHANGED <<cursor, pending_start>>
    BY <1>2, <1>21 DEF Turn
  <2>2. ApplyAt' = p + 1
    <3>1. ApplyAt' = page.cursor - (N - 1)
      BY <1>10, <1>12, <2>1 DEF ApplyAt
    <3> QED BY <1>9, <1>13, <3>1
  <2>3. Pos' = Pos /\ (Following' <=> Following)
    BY <1>3, <2>1
  <2>4. IndexType'
    BY <1>2, <1>4, <1>12, <1>19, <2>1 DEF IndexType
  <2>5. PlaceInv'
    BY <1>2, <1>3, <1>4, <1>5, <2>1, <2>3 DEF PlaceInv
  <2>6. PageInv'
    <3>1. /\ page'.events # <<>> /\ page'.cursor # None /\ page'.cursor <= Len(log')
          /\ ApplyAt' \in Nat
      BY <1>3, <1>7, <1>12, <1>20, <1>21, <2>1, <2>2
    <3>2. Pos' <= ApplyAt'
      BY <1>13, <1>17, <2>2, <2>3
    <3>3. ASSUME NEW n \in 1..Len(page'.events) PROVE page'.events[n] = log'[ApplyAt' + n]
      <4>1. page'.events = Tail(s) /\ n \in 1..(N - 1)
        BY <1>10, <1>12, <2>1, <3>3
      <4>2. n + 1 \in 1..N /\ p + (n + 1) = p + 1 + n
        BY <1>9, <1>13, <4>1
      <4>3. s[n + 1] = log[p + (n + 1)]
        BY <1>7, <4>2 DEF p, N, s
      <4> QED BY <1>3, <1>10, <2>2, <4>1, <4>2, <4>3
    <3> QED BY <3>1, <3>2, <3>3 DEF PageInv
  <2>7. NearInv(bound)'
    BY <1>2, <1>3, <1>18, <2>1, <2>2, <2>3 DEF NearInv, Covers
  <2> QED BY <1>1, <1>2, <2>4, <2>5, <2>6, <2>7, BotKeeps
<1>22. CASE left.events = <<>>
  <2>1. /\ cursor' = page.cursor /\ pending_start' = None
        /\ page' = NoPage /\ pc' \in {"events", "idle"}
    BY <1>2, <1>7, <1>12, <1>22 DEF Turn
  <2>2. page.cursor = p + 1
    <3>1. Len(Tail(s)) = 0
      BY <1>12, <1>22, EmptySeq
    <3>2. N - 1 = 0
      BY <1>10, <3>1, Zenon
    <3>3. N = 1
      BY <1>9, <3>2
    <3> QED BY <1>13, <3>3
  <2>3. Pos' = p + 1 /\ Following' /\ cursor' \in Nat /\ cursor' <= Len(log)
    BY <1>6, <1>7, <1>8, <2>1, <2>2 DEF Pos, Following
  <2>4. NoPage \in [events : Seq(Event), cursor : Nat \cup {None}, full : BOOLEAN]
    BY EmptySeq DEF NoPage
  <2>5. IndexType'
    BY <1>2, <1>4, <1>19, <2>1, <2>3, <2>4 DEF IndexType
  <2>6. PlaceInv' /\ PageInv'
    BY <1>2, <1>3, <1>4, <2>1, <2>3 DEF PlaceInv, PageInv
  <2>7. NearInv(bound)'
    <3>1. p + 1 \in Pos..(p + 1)
      BY <1>13, <1>17
    <3> QED BY <1>2, <1>3, <1>18, <2>1, <2>3, <3>1 DEF NearInv, Covers
  <2> QED BY <1>1, <1>2, <2>5, <2>6, <2>7, BotKeeps
<1> QED BY <1>21, <1>22

\* A failing sync leaves a half applied page, which may be applied again.
LEMMA SyncFailsStep == ASSUME IndexInv, sync_fails PROVE IndexInv'
<1>1. PICK bound : Facts(bound)
  BY DEF IndexInv, Facts
<1>2. /\ pc \in {"events", "apply"} /\ page' = NoPage /\ pc' = "latest"
      /\ UNCHANGED <<feedVars, index, cursor, pending_start, syncs, latest, count, start,
                     fresh, gap>>
  BY DEF sync_fails
<1>3. /\ log' = log /\ jobs' = jobs /\ ledger' = ledger /\ open' = open
      /\ Pos' = Pos /\ (Following' <=> Following)
  BY <1>2, Still
<1>4. LedgerInv /\ IndexType /\ PlaceInv /\ PageInv /\ NearInv(bound)
  BY <1>1 DEF Facts
<1>5. Following
  BY <1>2, <1>4 DEF PlaceInv
<1>6. Pos \in 0..Len(log) /\ Len(log) \in Nat
  BY <1>1, <1>5, BasicFacts
<1>7. ~ gap => Covers(bound, index, Pos)
  <2>1. CASE pc = "events"
    BY <1>4, <1>5, <2>1 DEF NearInv
  <2>2. CASE pc = "apply"
    <3>1. ApplyAt \in Nat /\ Pos <= ApplyAt
      BY <1>4, <2>2 DEF PageInv
    <3>2. Pos \in Pos..ApplyAt
      BY <1>6, <3>1
    <3> QED BY <1>4, <2>2, <3>2 DEF NearInv
  <2> QED BY <1>2, <2>1, <2>2
<1>8. NoPage \in [events : Seq(Event), cursor : Nat \cup {None}, full : BOOLEAN]
  BY EmptySeq DEF NoPage
<1>9. IndexType'
  BY <1>2, <1>4, <1>8 DEF IndexType
<1>10. PlaceInv' /\ PageInv'
  BY <1>2, <1>3, <1>4 DEF PlaceInv, PageInv
<1>11. NearInv(bound)'
  BY <1>2, <1>3, <1>7 DEF NearInv, Covers
<1> QED BY <1>1, <1>2, <1>9, <1>10, <1>11, BotKeeps

-----------------------------------------------------------------------------
(* The theorem. *)

LEMMA IndexStarts == ASSUME Init PROVE IndexInv
<1>1. /\ jobs = NoJobs /\ next_id = 0 /\ log = <<>> /\ ledger = 1 /\ open = FALSE
      /\ pc = "latest" /\ index = NoJobs /\ cursor = None /\ pending_start = None
      /\ latest = 0 /\ count = 0 /\ start = 0 /\ fresh = NoJobs /\ page = NoPage
  BY DEF Init, FeedInit, NoJobs
<1>2. log \in Seq(Event) /\ Len(log) = 0 /\ <<>> \in Seq(Event)
  BY <1>1, EmptySeq
<1>3. 1..0 = {} /\ 0..0 = {0}
  OBVIOUS
<1>4. \A i \in 1..Len(log) : FALSE
  BY <1>2, <1>3
<1>5. NoJobs \in Map /\ \A j \in JobIds : NoJobs[j] = None
  BY DEF Map, NoJobs
<1>6. LedgerInv
  <2>1. 1 \in Nat /\ 0 \in Nat /\ FALSE \in BOOLEAN
    OBVIOUS
  <2>2. Sorted(log)
    BY <1>4 DEF Sorted
  <2> QED BY <1>1, <1>4, <1>5, <2>1, <2>2 DEF LedgerInv
<1>7. NoPage \in [events : Seq(Event), cursor : Nat \cup {None}, full : BOOLEAN]
  BY <1>2 DEF NoPage
<1>8. IndexType
  BY <1>1, <1>5, <1>7 DEF IndexType
<1>9. ~ Following
  BY <1>1 DEF Following
<1>10. PlaceInv /\ PageInv
  BY <1>1, <1>5, <1>9 DEF PlaceInv, PageInv
<1> DEFINE bound == [c \in {0} |-> [j \in JobIds |-> 0]]
<1>11. bound \in [0..Len(log) -> [JobIds -> Int]]
  BY <1>2, <1>3
<1> HIDE DEF bound
<1>12. FeedOK(log, jobs, bound)
  <2>1. jobs \in [JobIds -> Job \cup {None}] /\ \A j \in JobIds : jobs[j] = None
    BY <1>1, <1>5 DEF Map
  <2>2. \A j \in JobIds : \A c \in 0..Len(log) : Near(log, jobs[j], bound, jobs[j], j, c)
    BY <2>1 DEF Near
  <2> QED BY <1>2, <1>4, <1>11, <2>1, <2>2 DEF FeedOK
<1>13. NearInv(bound)
  BY <1>1, <1>9 DEF NearInv
<1> QED BY <1>6, <1>8, <1>10, <1>12, <1>13 DEF IndexInv

LEMMA IndexStep == ASSUME IndexInv, [Next]_vars PROVE IndexInv'
<1>1. CASE Next
  BY <1>1, WaitStep, LatestStep, CountStep, PageStep, BeginStep, LoadFailsStep, SyncStep,
     EventsStep, ApplyStep, SyncFailsStep DEF Next, Bot, Answered
<1>2. CASE UNCHANGED vars
  <2>1. PICK bound : Facts(bound)
    BY DEF IndexInv, Facts
  <2>2. /\ UNCHANGED feedVars
        /\ UNCHANGED <<pc, index, cursor, pending_start, latest, count, start, fresh, page, gap>>
    BY <1>2 DEF vars, indexVars
  <2>3. /\ log' = log /\ jobs' = jobs /\ ledger' = ledger /\ open' = open
        /\ Pos' = Pos /\ (Following' <=> Following) /\ ApplyAt' = ApplyAt /\ Snapshot' = Snapshot
    BY <2>2, Still
  <2>4. LedgerInv /\ IndexType /\ PlaceInv /\ PageInv /\ NearInv(bound)
    BY <2>1 DEF Facts
  <2>5. IndexType'
    BY <2>2, <2>4 DEF IndexType
  <2>6. PlaceInv' /\ PageInv'
    BY <2>2, <2>3, <2>4 DEF PlaceInv, PageInv
  <2>7. NearInv(bound)'
    BY <2>2, <2>3, <2>4 DEF NearInv, Covers
  <2> QED BY <2>1, <2>2, <2>5, <2>6, <2>7, BotKeeps
<1> QED BY <1>1, <1>2

\* Behind the last event nothing is left to be put right.
LEMMA SoundAtTheEnd == ASSUME IndexInv PROVE IndexSound
<1>1. PICK bound : Facts(bound)
  BY DEF IndexInv, Facts
<1> SUFFICES ASSUME CaughtUp, ~ gap, NEW j \in JobIds
             PROVE  IF jobs[j] = None THEN index[j] = None
                    ELSE /\ index[j] # None
                         /\ [index[j] EXCEPT !.balance = jobs[j].balance] = jobs[j]
                         /\ index[j].balance <= jobs[j].balance
  BY DEF IndexSound
<1> DEFINE x == index[j]
           y == jobs[j]
           c == Len(log)
<1>2. c \in Nat /\ None \notin Nat /\ None \notin Job /\ jobs \in Map /\ index \in Map
  BY <1>1, BasicFacts
<1>3. pc = "idle" /\ cursor = c /\ cursor # None
  BY <1>2 DEF CaughtUp
<1>4. Following /\ Pos = c
  BY <1>3 DEF Following, Pos
<1>5. Near(log, y, bound, x, j, c)
  BY <1>1, <1>3, <1>4 DEF Facts, NearInv, Covers
<1>6. \A types : ~ Later(log, j, c, types)
  <2>1. (c + 1)..c = {}
    BY <1>2
  <2> QED BY <2>1 DEF Later
<1>7. x \in Job \cup {None} /\ y \in Job \cup {None}
  BY <1>2 DEF Map
<1>8. y # None => y.balance = bound[c][j]
  BY <1>1 DEF Facts, FeedOK
<1> HIDE DEF x, y, c
<1>9. CASE x = None /\ y = None
  BY <1>9 DEF x, y
<1>10. CASE ~ (x = None /\ y = None)
  <2>1. /\ x \in Job /\ y \in Job /\ x.fee = y.fee /\ x.next_run = y.next_run /\ x.runs = y.runs
        /\ x.active = y.active /\ x.balance <= bound[c][j]
    BY <1>5, <1>6, <1>10 DEF Near
  <2>2. x # None /\ y # None
    BY <1>2, <2>1
  <2>3. [x EXCEPT !.balance = y.balance] = y
    BY <2>1 DEF Job
  <2>4. x.balance <= y.balance
    BY <1>8, <2>1, <2>2
  <2> QED BY <2>2, <2>3, <2>4 DEF x, y
<1> QED BY <1>9, <1>10

\* An index that has caught up is sound (load, sync, apply), for any number of
\* jobs, events, failing calls and page sizes.
THEOREM IndexSafe == Spec => []IndexSound
<1>1. Init => IndexInv
  BY IndexStarts
<1>2. IndexInv /\ [Next]_vars => IndexInv'
  BY IndexStep
<1>3. IndexInv => IndexSound
  BY SoundAtTheEnd
<1> QED BY <1>1, <1>2, <1>3, PTL DEF Spec

=============================================================================
