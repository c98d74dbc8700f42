------------------------------ MODULE RsProofs ------------------------------
(***************************************************************************)
(* The Rust keeper's ticks, for any list of jobs of any kinds, any batch   *)
(* size and budget, and any interleaving with other keepers: nobody is set *)
(* aside for another's fault, a job that works and pays is run unless it   *)
(* is left alone beside a skipped one, and every due job lands in exactly  *)
(* one outcome.                                                            *)
(***************************************************************************)
EXTENDS KeeperRs, FiniteSetTheorems, ListProofs

\* A job that works and pays.
Good(j) == kind[j] \in {"plain", "heavy"}

Tallies == {<<o>> : o \in Outcomes} \cup {<<>>}

RsType ==
    /\ kind \in [Jobs -> Kinds] /\ batch_size \in Nat
    /\ ready \subseteq Jobs /\ phase \in {"idle", "scan", "run"}
    /\ scanned \in Nat /\ due \in Seq(Jobs)
    /\ queue \in Seq(Groups(Jobs)) /\ ran \in Seq(Jobs)
    /\ until \in [Jobs -> Nat]

\* A job that was found due and is not any more was run by somebody; no job is
\* found twice.
DueInv ==
    /\ phase # "idle" => \A j : In(j, due) => j \in ready \cup gone
    /\ phase = "scan" => /\ Different(due) /\ queue = <<>>
                         /\ \A j : In(j, due) => \E k \in 1..scanned : JobList[k] = j
    /\ phase = "idle" => queue = <<>>

\* Only a bad job sits out.
BlameInv == \A j \in Jobs : until[j] > 0 => kind[j] = "bad"

\* Behind the simulation: what ran is part of the batch, and what works and is
\* still due is part of what ran.
StageInv ==
    phase = "run" /\ at \in {"fees", "send"} =>
        /\ queue # <<>> /\ ran # <<>> /\ Different(ran)
        /\ \A j : In(j, ran) => In(j, Head(queue))
        /\ \A j : In(j, Head(queue)) /\ j \in ready /\ kind[j] # "blocked" => In(j, ran)
        /\ \A j : Good(j) /\ (\A i : In(i, Head(queue)) <=> i = j) => resource_fee = 1

\* A job that was left alone to bear what a batch with a skipped job costs.
Sunk(j) ==
    /\ landed[j] = <<"unprofitable">>
    /\ \E i \in ToSet(due) \ {j} : /\ landed[i] = <<"skipped">>
                                   /\ kind[i] = "blocked" \/ i \in gone

\* A due job that works and pays was run or sunk, or is still in the queue.
WorkInv ==
    phase = "run" /\ ~ trouble /\ ~ dry_run =>
        \A j : In(j, due) /\ Good(j) => j \in gone \/ InTodo(j, queue) \/ Sunk(j)

\* The queue holds exactly the due jobs that are not counted yet, each once.
LandInv ==
    phase = "run" =>
        /\ Apart(queue)
        /\ landed \in [Jobs -> Tallies]
        /\ \A j \in Jobs : InTodo(j, queue) <=> (In(j, due) /\ landed[j] = <<>>)
        /\ \A j \in Jobs : landed[j] # <<>> => In(j, due)

RsInv == RsType /\ DueInv /\ BlameInv /\ StageInv /\ WorkInv /\ LandInv

-----------------------------------------------------------------------------
(* Jobs and batches. *)

\* The list of jobs names each job once.
LEMMA JobListFacts == JobList \in Seq(Jobs) /\ Different(JobList)
<1>1. JobList \in Seq(Jobs)
  BY KeeperRsAssumption
<1>2. DOMAIN JobList = 1..Len(JobList)
  BY <1>1
<1> QED BY <1>1, <1>2, KeeperRsAssumption DEF IsInjective, Different

\* What the simulation of a batch runs.
LEMMA RunnableFacts ==
  ASSUME NEW ids \in Seq(Jobs)
  PROVE  /\ Runnable(ids) \in Seq(Jobs)
         /\ \A j : In(j, Runnable(ids)) <=> (j \in ready /\ kind[j] # "blocked" /\ In(j, ids))
         /\ Different(ids) => Different(Runnable(ids))
         /\ ToSet(Runnable(ids)) = {j \in Jobs : In(j, Runnable(ids))}
<1> DEFINE wanted == {j \in ready : kind[j] # "blocked"}
           u == Filter(ids, wanted)
<1>1. Runnable(ids) = u
  BY DEF Runnable
<1> HIDE DEF wanted
<1>2. /\ u \in Seq(Jobs) /\ (\A j : In(j, u) <=> (j \in wanted /\ In(j, ids)))
      /\ Different(ids) => Different(u)
  BY FilterParts
<1> HIDE DEF u
<1>3. \A j : j \in ToSet(u) <=> In(j, u)
  BY <1>2, ToSetIn
<1>4. \A j : In(j, u) => j \in Jobs
  BY <1>2 DEF In
<1> QED BY <1>1, <1>2, <1>3, <1>4 DEF wanted

\* A batch of one job that its jobs stop holds a bad job.
LEMMA Alone ==
  ASSUME RsType, NEW ids \in Seq(Jobs), Len(ids) = 1, JobProblem(ids)
  PROVE  ids[1] \in Jobs /\ kind[ids[1]] = "bad"
<1> DEFINE running == Filter(ids, ready)
           of(k) == {j \in ToSet(running) : kind[j] = k}
<1>1. running \in Seq(Jobs) /\ \A j : In(j, running) => In(j, ids)
  BY FilterParts
<1>2. Cardinality(of("bad")) > 0 \/ Cardinality(of("heavy")) > Budget
  BY DEF JobProblem, CountKind
<1> HIDE DEF running
<1>3. \A j : j \in ToSet(running) => j = ids[1]
  <2>1. \A j : j \in ToSet(running) => In(j, ids)
    BY <1>1, ToSetIn
  <2>2. 1..1 = {1}
    OBVIOUS
  <2> QED BY <2>1, <2>2 DEF In
<1>4. \A k : of(k) = {} \/ of(k) = {ids[1]}
  BY <1>3
<1>5. Cardinality({}) = 0 /\ Cardinality({ids[1]}) = 1
  BY FS_EmptySet, FS_Singleton
<1>6. Budget >= 1 /\ Budget \in Nat
  BY KeeperRsAssumption
<1>7. of("bad") # {}
  <2>1. Cardinality(of("heavy")) = 0 \/ Cardinality(of("heavy")) = 1
    BY <1>4, <1>5
  <2>2. Cardinality(of("bad")) > 0
    <3> DEFINE n == Cardinality(of("heavy"))
    <3>1. (n = 0 \/ n = 1) /\ (Cardinality(of("bad")) > 0 \/ n > Budget)
      BY <1>2, <2>1
    <3> HIDE DEF n
    <3> QED BY <1>6, <3>1
  <2> HIDE DEF of
  <2>3. of("bad") = {} => Cardinality(of("bad")) = 0
    BY <1>5
  <2> QED BY <2>2, <2>3
<1>8. ids[1] \in Jobs
  OBVIOUS
<1> QED BY <1>3, <1>7, <1>8

\* A job that works, alone in its batch, costs 1.
LEMMA GoodCosts ==
  ASSUME NEW ids \in Seq(Jobs), Different(ids), NEW j, Good(j), \A i : In(i, ids) <=> i = j
  PROVE  min_resource_fee(ids) = 1
<1> DEFINE asked == Filter(ids, ready)
           of(k) == {i \in ToSet(asked) : kind[i] = k}
<1>1. min_resource_fee(ids) = Len(ids) + 3 * (Cardinality(of("costly")) + Cardinality(of("blocked")))
  BY DEF min_resource_fee, CountKind
<1>2. asked \in Seq(Jobs) /\ \A i : In(i, asked) => In(i, ids)
  BY FilterParts
<1> HIDE DEF asked
<1>3. \A i \in ToSet(asked) : i = j
  BY <1>2, ToSetIn
<1>4. of("costly") = {} /\ of("blocked") = {}
  BY <1>3 DEF Good
<1> HIDE DEF of
<1>5. Cardinality(of("costly")) = 0 /\ Cardinality(of("blocked")) = 0
  BY <1>4, FS_EmptySet
<1>6. Len(ids) = 1
  BY OneLong
<1> QED BY <1>1, <1>5, <1>6

\* A job that works pays alone, once its fee is read.
LEMMA GoodPays ==
  ASSUME RsType, Len(ran) = 1, Different(ran), Good(ran[1]), resource_fee = 1,
         NEW unread, ran[1] \notin unread
  PROVE  ~ Unprofitable(unread)
<1> DEFINE ids == ran
<1>0. ids \in Seq(Jobs)
  BY DEF RsType
<1> DEFINE j == ids[1]
           read == Filter(ids, Jobs \ unread)
<1>1. j \in Jobs /\ \A x : In(x, ids) <=> x = j
  <2>1. 1..1 = {1}
    OBVIOUS
  <2> QED BY <1>0, <2>1 DEF In
<1>2. /\ read \in Seq(Jobs) /\ Different(read)
      /\ \A x : In(x, read) <=> (x \in Jobs \ unread /\ In(x, ids))
  BY <1>0, FilterParts
<1> HIDE DEF read
<1>3. \A x : In(x, read) <=> x = j
  BY <1>1, <1>2
<1>4. Len(read) = 1
  <2> HIDE DEF j, ids
  <2>1. read \in Seq(Jobs) /\ Different(read)
    BY <1>2
  <2> QED BY <1>3, <2>1, OneLong
<1>5. ASSUME NEW s \in Seq(Jobs), \A x : In(x, s) <=> x = j PROVE CountKind(s, "costly") = 0
  <2>1. \A x : x \in ToSet(s) <=> x = j
    BY <1>5, ToSetIn
  <2>2. {x \in ToSet(s) : kind[x] = "costly"} = {}
    BY <2>1 DEF Good
  <2> QED BY <2>2, FS_EmptySet DEF CountKind
<1>6. CountKind(read, "costly") = 0
  <2> HIDE DEF j
  <2> QED BY <1>1, <1>2, <1>3, <1>5
<1>7. fees(read) = 3 /\ cost = 2
  BY <1>4, <1>6 DEF fees, cost
<1>8. ~ (3 - 2 < MIN_PROFIT) /\ ~ (MAX_COST_PER_JOB > 0 /\ 2 > MAX_COST_PER_JOB * 1)
  BY KeeperRsPayAssumption
<1>9. MIN_PROFIT \in Int
  BY KeeperRsPayAssumption
<1> QED BY <1>7, <1>8, <1>9 DEF Unprofitable, profitable, read

-----------------------------------------------------------------------------
(* What a handler does with the head of the queue. *)

\* The jobs of D leave the queue; what stays is `rest`.
Moved(D, rest) ==
    /\ rest \in Seq(Groups(Jobs)) /\ Apart(rest)
    /\ \A j \in D : InTodo(j, queue)
    /\ \A j : InTodo(j, rest) <=> (InTodo(j, queue) /\ j \notin D)

\* The whole head leaves the queue.
LEMMA MovedHead ==
  ASSUME RsInv, phase = "run", queue # <<>>
  PROVE  /\ Moved(ToSet(Head(queue)), Tail(queue)) /\ Head(queue) \in Groups(Jobs)
         /\ Different(Head(queue))
         /\ \A j : j \in ToSet(Head(queue)) <=> In(j, Head(queue))
         /\ \A j : In(j, Head(queue)) => j \in Jobs /\ InTodo(j, queue)
<1>1. queue \in Seq(Groups(Jobs)) /\ Apart(queue)
  BY DEF RsInv, RsType, LandInv
<1>2. /\ Head(queue) \in Groups(Jobs) /\ Tail(queue) \in Seq(Groups(Jobs))
      /\ \A j : InTodo(j, queue) <=> (In(j, Head(queue)) \/ InTodo(j, Tail(queue)))
      /\ Different(Head(queue)) /\ Apart(Tail(queue))
      /\ \A j : ~ (In(j, Head(queue)) /\ InTodo(j, Tail(queue)))
  BY <1>1, TodoParts
<1>3. Head(queue) \in Seq(Jobs)
  BY <1>2 DEF Groups
<1>4. \A j : j \in ToSet(Head(queue)) <=> In(j, Head(queue))
  BY <1>3, ToSetIn
<1>5. \A j : In(j, Head(queue)) => j \in Jobs
  BY <1>3 DEF In
<1> QED BY <1>2, <1>4, <1>5 DEF Moved

\* Part of the head leaves the queue, and the others go on in the batches of
\* `parts`, before or behind the later ones.
LEMMA MovedParts ==
  ASSUME RsInv, phase = "run", queue # <<>>, NEW D, NEW parts \in Seq(Groups(Jobs)), Apart(parts),
         \A j \in D : In(j, Head(queue)),
         \A j : InTodo(j, parts) <=> (In(j, Head(queue)) /\ j \notin D)
  PROVE  Moved(D, parts \o Tail(queue)) /\ Moved(D, Tail(queue) \o parts)
<1>1. queue \in Seq(Groups(Jobs)) /\ Apart(queue)
  BY DEF RsInv, RsType, LandInv
<1>2. /\ Tail(queue) \in Seq(Groups(Jobs))
      /\ \A j : InTodo(j, queue) <=> (In(j, Head(queue)) \/ InTodo(j, Tail(queue)))
      /\ Apart(Tail(queue))
      /\ \A j : ~ (In(j, Head(queue)) /\ InTodo(j, Tail(queue)))
  BY <1>1, TodoParts
<1>3. /\ parts \o Tail(queue) \in Seq(Groups(Jobs)) /\ Apart(parts \o Tail(queue))
      /\ \A j : InTodo(j, parts \o Tail(queue)) <=> (InTodo(j, parts) \/ InTodo(j, Tail(queue)))
  BY <1>2, TodoConcat
<1>4. /\ Tail(queue) \o parts \in Seq(Groups(Jobs)) /\ Apart(Tail(queue) \o parts)
      /\ \A j : InTodo(j, Tail(queue) \o parts) <=> (InTodo(j, parts) \/ InTodo(j, Tail(queue)))
  BY <1>2, TodoConcat
<1> QED BY <1>2, <1>3, <1>4 DEF Moved

\* How a handler may leave the rest of the state: what is not due any more was run.
Surroundings ==
    /\ UNCHANGED <<fixed, phase, scanned, due>>
    /\ ready' \subseteq ready /\ (\A j \in ready : j \in ready' \/ j \in gone')
    /\ gone \subseteq gone'
    /\ until' \in [Jobs -> Nat] /\ BlameInv'
    /\ ~ trouble' => ~ trouble

\* Whatever waits in a queue is a job.
LEMMA TodoJobs ==
  ASSUME NEW todo \in Seq(Groups(Jobs)), NEW j, InTodo(j, todo)
  PROVE  j \in Jobs
<1>1. PICK k \in 1..Len(todo) : In(j, todo[k])
  BY DEF InTodo
<1>2. todo[k] \in Seq(Jobs)
  BY <1>1 DEF Groups
<1> QED BY <1>1, <1>2 DEF In

\* The jobs of D are counted under an outcome, and those that work were run, or
\* sunk beside one that is skipped.
LEMMA LandKeeps ==
  ASSUME RsInv, phase = "run", queue # <<>>, NEW skipped, NEW others, NEW outcome \in Outcomes,
         NEW rest, Land(skipped, others, outcome, rest), Moved(skipped \cup others, rest),
         Surroundings,
         \A j \in skipped \cup others : Good(j) =>
             \/ j \in gone' \/ trouble' \/ dry_run
             \/ /\ outcome = "unprofitable" /\ j \in others
                /\ \E i \in skipped \ others : kind[i] = "blocked" \/ i \in gone
  PROVE  RsInv' /\ Pass!Decide
<1> DEFINE D == skipped \cup others
<1>1. /\ queue' = rest /\ at' = "simulate" /\ ran' = <<>>
      /\ landed' = [j \in Jobs |-> IF j \in others THEN Append(landed[j], outcome)
                                   ELSE IF j \in skipped THEN Append(landed[j], "skipped")
                                   ELSE landed[j]]
  BY DEF Land
<1>2. /\ rest \in Seq(Groups(Jobs)) /\ Apart(rest)
      /\ \A j \in D : InTodo(j, queue)
      /\ \A j : InTodo(j, rest) <=> (InTodo(j, queue) /\ j \notin D)
  BY DEF Moved
<1>3. UNCHANGED <<kind, batch_size, fee_is_native, dry_run, phase, scanned, due>>
  BY DEF Surroundings, fixed
<1>4. RsType'
  BY <1>1, <1>2, <1>3 DEF RsInv, RsType, Surroundings
<1>5. DueInv' /\ StageInv'
  BY <1>1, <1>3 DEF RsInv, DueInv, StageInv, Surroundings
<1>7. /\ landed \in [Jobs -> Tallies]
      /\ \A j \in Jobs : InTodo(j, queue) <=> (In(j, due) /\ landed[j] = <<>>)
      /\ \A j \in Jobs : landed[j] # <<>> => In(j, due)
  BY DEF RsInv, LandInv
<1>8. \A o : Append(<<>>, o) = <<o>> /\ <<o>> # <<>>
  OBVIOUS
<1>9. \A j \in Jobs : IF j \in D THEN landed[j] = <<>> /\ In(j, due) /\ \E o \in Outcomes : landed'[j] = <<o>>
                      ELSE landed'[j] = landed[j]
  BY <1>1, <1>2, <1>7, <1>8 DEF Outcomes
<1>10. landed' \in [Jobs -> Tallies]
  BY <1>1, <1>7, <1>9 DEF Tallies
<1>11. LandInv'
  BY <1>1, <1>2, <1>3, <1>7, <1>8, <1>9, <1>10 DEF LandInv
<1>12. \A j \in Jobs : landed'[j] # landed[j] => j \in ToSet(due) /\ landed[j] = <<>>
  <2>1. due \in Seq(Jobs)
    BY DEF RsInv, RsType
  <2>2. \A j : j \in ToSet(due) <=> In(j, due)
    BY <2>1, ToSetIn
  <2> QED BY <1>9, <2>2
<1>13. Pass!Decide
  BY <1>3, <1>10, <1>12 DEF Pass!Decide, Tallies
<1>14. ToSet(due) \subseteq Jobs /\ \A i : i \in ToSet(due) <=> In(i, due)
  <2>1. due \in Seq(Jobs)
    BY DEF RsInv, RsType
  <2> QED BY <2>1, ToSetIn DEF In
<1>15. ASSUME NEW j, Sunk(j), In(j, due) PROVE Sunk(j)'
  <2>1. PICK i \in ToSet(due) \ {j} : landed[i] = <<"skipped">> /\ (kind[i] = "blocked" \/ i \in gone)
    BY <1>15 DEF Sunk
  <2>2. landed[j] = <<"unprofitable">> /\ i \in Jobs /\ j \in Jobs
    BY <1>14, <1>15 DEF Sunk
  <2>3. landed'[j] = landed[j] /\ landed'[i] = landed[i]
    BY <1>8, <1>9, <2>1, <2>2
  <2> QED BY <1>3, <2>1, <2>2, <2>3 DEF Sunk, Surroundings
<1>16. ASSUME NEW j \in D, Good(j), ~ trouble', ~ dry_run PROVE j \in gone' \/ Sunk(j)'
  <2>1. CASE j \in gone'
    BY <2>1
  <2>2. CASE /\ outcome = "unprofitable" /\ j \in others
             /\ \E i \in skipped \ others : kind[i] = "blocked" \/ i \in gone
    <3>1. PICK i \in skipped \ others : kind[i] = "blocked" \/ i \in gone
      BY <2>2
    <3>2. i # j /\ i \in D /\ InTodo(i, queue) /\ InTodo(j, queue)
      BY <1>2, <2>2
    <3>3. i \in Jobs /\ j \in Jobs
      BY <3>2, TodoJobs DEF RsInv, RsType
    <3>4. landed[i] = <<>> /\ landed[j] = <<>> /\ i \in ToSet(due)
      BY <1>9, <1>14, <3>2, <3>3
    <3>5. landed'[j] = <<"unprofitable">> /\ landed'[i] = <<"skipped">>
      BY <1>1, <1>8, <2>2, <3>1, <3>3, <3>4
    <3> QED BY <1>3, <3>1, <3>2, <3>4, <3>5 DEF Sunk, Surroundings
  <2> QED BY <1>16, <2>1, <2>2
<1>17. WorkInv'
  <2> SUFFICES ASSUME phase' = "run", ~ trouble', ~ dry_run', NEW j, In(j, due)', Good(j)'
               PROVE  j \in gone' \/ InTodo(j, queue)' \/ Sunk(j)'
    BY DEF WorkInv
  <2>1. In(j, due) /\ Good(j) /\ ~ trouble /\ ~ dry_run /\ gone \subseteq gone'
    BY <1>3 DEF Good, In, Surroundings
  <2>2. j \in gone \/ InTodo(j, queue) \/ Sunk(j)
    BY <2>1 DEF RsInv, WorkInv
  <2>3. InTodo(j, queue)' <=> InTodo(j, rest)
    BY <1>1 DEF InTodo, In
  <2>4. CASE j \in D
    BY <1>3, <1>16, <2>1, <2>4
  <2>5. CASE j \notin D
    BY <1>2, <1>15, <2>1, <2>2, <2>3, <2>5
  <2> QED BY <2>4, <2>5
<1> QED BY <1>4, <1>5, <1>11, <1>13, <1>17 DEF RsInv, Surroundings

-----------------------------------------------------------------------------
(* The steps of a tick. *)

\* What a step of the keeper is to a pass.
PassStep == Pass!Next \/ UNCHANGED Pass!passVars

\* A job that waits in the queue and is not due any more was run by somebody.
LEMMA WaitingRan ==
  ASSUME RsInv, phase = "run", NEW j \in Jobs, InTodo(j, queue), j \notin ready
  PROVE  j \in gone
  BY DEF RsInv, DueInv, LandInv

\* The scan, which ends in batches of the jobs that do not sit out.
LEMMA ScanStep ==
  ASSUME RsInv, tick_starts \/ is_due \/ scan_fails
  PROVE  RsInv' /\ PassStep
<1>1. CASE tick_starts
  <2>1. UNCHANGED fixed /\ phase = "idle" /\ phase' = "scan" /\ due' = <<>> /\ scanned' = 0
        /\ ready' = ready /\ queue' = queue /\ ran' = ran /\ queue = <<>>
    BY <1>1 DEF tick_starts, RsInv, DueInv
  <2>2. until' = next /\ until \in [Jobs -> Nat] /\ BlameInv
    BY <1>1 DEF tick_starts, RsInv, RsType
  <2>3. \A n \in Nat : n # 0 => n - 1 \in Nat /\ n > 0
    OBVIOUS
  <2>4. until' \in [Jobs -> Nat] /\ BlameInv'
    BY <2>1, <2>2, <2>3 DEF next, BlameInv, fixed
  <2>5. <<>> \in Seq(Jobs) /\ Len(<<>>) = 0 /\ 1..0 = {}
    OBVIOUS
  <2>6. RsType' /\ DueInv'
    BY <2>1, <2>4, <2>5 DEF RsInv, RsType, DueInv, fixed, Different, In
  <2> QED BY <2>1, <2>4, <2>6
          DEF RsInv, StageInv, WorkInv, LandInv, PassStep, Pass!passVars
<1>2. CASE is_due
  <2> DEFINE j == JobList[scanned + 1]
  <2>1. /\ UNCHANGED fixed /\ phase = "scan" /\ phase' = "scan" /\ ready' = ready
        /\ queue' = queue /\ ran' = ran /\ until' = until /\ gone' = gone
        /\ scanned' = scanned + 1 /\ scanned < Len(JobList)
        /\ due' = IF j \in ready THEN Append(due, j) ELSE due
    BY <1>2 DEF is_due
  <2>2. RsType /\ DueInv
    BY DEF RsInv
  <2>3. scanned \in Nat /\ Len(JobList) \in Nat /\ due \in Seq(Jobs)
    BY <2>2, JobListFacts DEF RsType
  <2>4. scanned + 1 \in 1..Len(JobList) /\ \A k \in 1..scanned : k \in 1..Len(JobList) /\ k # scanned + 1
    BY <2>1, <2>3
  <2>5. j \in Jobs
    BY <2>4, JobListFacts
  <2>6. ~ In(j, due)
    BY <2>1, <2>2, <2>4, JobListFacts DEF DueInv, Different
  <2>7. \A k \in 1..scanned : k \in 1..(scanned + 1)
    BY <2>3
  <2>8. scanned + 1 \in 1..(scanned + 1) /\ scanned + 1 \in Nat
    BY <2>3
  <2>9. /\ due' \in Seq(Jobs) /\ Different(due')
        /\ \A x : In(x, due') => In(x, due) \/ (x = j /\ j \in ready)
    <3> HIDE DEF j
    <3>1. CASE j \in ready
      BY <2>1, <2>2, <2>3, <2>5, <2>6, <3>1, AppendParts, AppendDifferent DEF DueInv
    <3>2. CASE j \notin ready
      BY <2>1, <2>2, <2>3, <3>2 DEF DueInv
    <3> QED BY <3>1, <3>2
  <2>10. \A x : In(x, due') => \E k \in 1..scanned' : JobList[k] = x
    BY <2>1, <2>2, <2>7, <2>8, <2>9 DEF DueInv
  <2> HIDE DEF j
  <2>11. RsType' /\ DueInv' /\ BlameInv'
    BY <2>1, <2>2, <2>8, <2>9, <2>10 DEF RsInv, RsType, DueInv, BlameInv, fixed
  <2> QED BY <2>1, <2>11
          DEF RsInv, StageInv, WorkInv, LandInv, PassStep, Pass!passVars
<1>3. CASE scan_fails
  <2>1. /\ UNCHANGED fixed /\ phase = "scan" /\ phase' = "idle" /\ ready' = ready
        /\ queue' = queue /\ ran' = ran /\ until' = until /\ gone' = gone
        /\ scanned' = scanned /\ due' = <<>> /\ queue = <<>>
    BY <1>3 DEF scan_fails, RsInv, DueInv
  <2>2. <<>> \in Seq(Jobs)
    OBVIOUS
  <2>3. RsType' /\ DueInv' /\ BlameInv'
    BY <2>1, <2>2 DEF RsInv, RsType, DueInv, BlameInv, fixed
  <2> QED BY <2>1, <2>3
          DEF RsInv, StageInv, WorkInv, LandInv, PassStep, Pass!passVars
<1> QED BY <1>1, <1>2, <1>3

\* The batches hold the due jobs that do not sit out; the others are skipped.
LEMMA BeginStep == ASSUME RsInv, begin_batches PROVE RsInv' /\ PassStep
<1> DEFINE out == {j \in Jobs : until[j] = 0}
           ids == Filter(due, out)
<1>1. /\ UNCHANGED fixed /\ phase = "scan" /\ phase' = "run" /\ ready' = ready
      /\ ran' = ran /\ until' = until /\ gone' = gone /\ scanned' = scanned
      /\ due' = due /\ at' = "simulate" /\ queue' = batches(ids)
      /\ landed' = [j \in Jobs |-> IF Contains(due, j) /\ until[j] > 0 THEN <<"skipped">> ELSE <<>>]
  BY DEF begin_batches
<1>2. RsType /\ DueInv /\ BlameInv /\ due \in Seq(Jobs) /\ Different(due) /\ batch_size \in Nat
  BY <1>1 DEF RsInv, RsType, DueInv
<1>3. chunk_size \in Nat \ {0}
  BY <1>2, KeeperRsAssumption DEF chunk_size
<1> HIDE DEF out
<1>4. /\ ids \in Seq(Jobs) /\ Different(ids)
      /\ \A j : In(j, ids) <=> (j \in out /\ In(j, due))
  BY <1>2, FilterParts
<1> HIDE DEF ids
<1>5. /\ queue' \in Seq(Groups(Jobs)) /\ Apart(queue')
      /\ \A j : InTodo(j, queue') <=> In(j, ids)
  BY <1>1, <1>3, <1>4, ChunksCover DEF batches
<1>6. \A j : Contains(due, j) <=> In(j, due)
  BY <1>2 DEF Contains, In
<1>7. \A j \in Jobs : until[j] \in Nat /\ (until[j] > 0 <=> j \notin out)
  <2>1. \A n \in Nat : n > 0 <=> n # 0
    OBVIOUS
  <2> QED BY <1>2, <2>1 DEF RsType, out
<1>8. <<"skipped">> \in Tallies /\ <<>> \in Tallies /\ <<"skipped">> # <<>>
  BY DEF Tallies, Outcomes
<1>9. \A j : In(j, due) => j \in Jobs
  BY <1>2 DEF In
<1>10. LandInv'
  <2>1. landed' \in [Jobs -> Tallies]
    BY <1>1, <1>8
  <2>2. \A j \in Jobs : landed'[j] = IF In(j, due) /\ j \notin out THEN <<"skipped">> ELSE <<>>
    BY <1>1, <1>6, <1>7
  <2> QED BY <1>1, <1>4, <1>5, <1>8, <2>1, <2>2 DEF LandInv
<1>11. WorkInv'
  <2>1. \A j \in Jobs : Good(j) => j \in out
    BY <1>2, <1>7 DEF BlameInv, Good
  <2> QED BY <1>1, <1>4, <1>5, <1>9, <2>1 DEF WorkInv, Good, fixed
<1>12. RsType' /\ DueInv' /\ BlameInv' /\ StageInv'
  BY <1>1, <1>2, <1>5 DEF RsInv, RsType, DueInv, BlameInv, StageInv, fixed
<1>13. Pass!Begin
  <2>1. \A j : j \in ToSet(due) <=> In(j, due)
    BY <1>2, ToSetIn
  <2>2. landed' \in [Jobs -> Tallies] /\ \A j \in Jobs : ~ In(j, due) => landed'[j] = <<>>
    BY <1>1, <1>10 DEF LandInv
  <2>3. ToSet(due) \in SUBSET Jobs
    BY <1>9, <2>1
  <2> QED BY <1>1, <2>1, <2>2, <2>3 DEF Pass!Begin, Tallies
<1> QED BY <1>10, <1>11, <1>12, <1>13 DEF RsInv, PassStep, Pass!Next

\* The tick ends once the queue is empty: then every due job is counted.
LEMMA EndStep == ASSUME RsInv, tick_ends PROVE RsInv' /\ PassStep
<1>1. /\ UNCHANGED fixed /\ phase = "run" /\ phase' = "idle" /\ ready' = ready
      /\ ran' = ran /\ until' = until /\ gone' = gone /\ scanned' = scanned
      /\ due' = due /\ queue' = queue /\ queue = <<>>
  BY DEF tick_ends
<1>2. RsInv'
  BY <1>1 DEF RsInv, RsType, DueInv, BlameInv, StageInv, WorkInv, LandInv, fixed
<1>3. \A j \in ToSet(due) : landed[j] # <<>>
  <2>1. due \in Seq(Jobs)
    BY DEF RsInv, RsType
  <2>2. \A j : j \in ToSet(due) <=> In(j, due)
    BY <2>1, ToSetIn
  <2>3. \A j : In(j, due) => j \in Jobs
    BY <2>1 DEF In
  <2>4. \A j : ~ InTodo(j, queue)
    <3>1. Len(<<>>) = 0 /\ 1..0 = {}
      OBVIOUS
    <3> QED BY <1>1, <3>1 DEF InTodo
  <2> QED BY <1>1, <2>2, <2>3, <2>4 DEF RsInv, LandInv
<1>4. Pass!End
  BY <1>1, <1>3 DEF Pass!End
<1> QED BY <1>2, <1>4 DEF PassStep, Pass!Next

-----------------------------------------------------------------------------
(* The steps of execute_batch. *)

\* A batch that its jobs stop: taken apart, or its only job, which is bad, set
\* aside.
LEMMA ProblemStep == ASSUME RsInv, job_problem PROVE RsInv' /\ PassStep
<1> DEFINE batch == Head(queue)
           singles == [i \in 1..Len(batch) |-> <<batch[i]>>]
<1>1. /\ phase = "run" /\ queue # <<>> /\ JobProblem(batch)
      /\ UNCHANGED <<fixed, ready, phase, scanned, due, gone, trouble>>
  BY DEF job_problem, Handling
<1>2. /\ Moved(ToSet(batch), Tail(queue)) /\ batch \in Groups(Jobs) /\ Different(batch)
      /\ \A j : j \in ToSet(batch) <=> In(j, batch)
  BY <1>1, MovedHead
<1>3. (Len(batch) = 1 \/ Len(batch) > 1) /\ Len(batch) \in Nat /\ batch \in Seq(Jobs)
  BY <1>2, GroupLen DEF Groups
<1>4. RsType /\ until \in [Jobs -> Nat] /\ BlameInv
  BY DEF RsInv, RsType
<1> HIDE DEF batch
<1>5. CASE Len(batch) > 1
  <2>1. Land({}, {}, "skipped", Tail(queue) \o singles) /\ until' = until
    BY <1>5 DEF job_problem, batch
  <2>2. /\ singles \in Seq(Groups(Jobs)) /\ Apart(singles)
        /\ \A j : In(j, batch) <=> InTodo(j, singles)
    BY <1>2, <1>3, Singles
  <2> HIDE DEF singles
  <2>3. Moved({} \cup {}, Tail(queue) \o singles)
    <3>1. Moved({}, Tail(queue) \o singles)
      BY <1>1, <2>2, MovedParts DEF batch
    <3> QED BY <3>1
  <2>4. Surroundings
    BY <1>1, <1>4, <2>1 DEF Surroundings, BlameInv, fixed
  <2>5. "skipped" \in Outcomes
    BY DEF Outcomes
  <2> QED BY <1>1, <2>1, <2>3, <2>4, <2>5, LandKeeps DEF PassStep, Pass!Next
<1>6. CASE Len(batch) = 1
  <2>1. Land({batch[1]}, {}, "skipped", Tail(queue)) /\ until' = [until EXCEPT ![batch[1]] = TICKS]
    BY <1>6 DEF job_problem, batch
  <2>2. batch[1] \in Jobs /\ kind[batch[1]] = "bad"
    BY <1>1, <1>3, <1>4, <1>6, Alone
  <2>3. {batch[1]} \cup {} = ToSet(batch)
    <3>1. 1..1 = {1}
      OBVIOUS
    <3> QED BY <1>2, <1>6, <3>1 DEF In
  <2>4. Surroundings
    <3>1. TICKS \in Nat
      BY KeeperRsAssumption
    <3>2. until' \in [Jobs -> Nat]
      BY <1>4, <2>1, <3>1
    <3>3. BlameInv'
      BY <1>1, <1>4, <2>1, <2>2 DEF BlameInv, fixed
    <3> QED BY <1>1, <3>2, <3>3 DEF Surroundings
  <2>5. "skipped" \in Outcomes
    BY DEF Outcomes
  <2>6. \A j \in {batch[1]} \cup {} : ~ Good(j)
    BY <2>2 DEF Good
  <2>7. Moved({batch[1]} \cup {}, Tail(queue))
    BY <1>2, <2>3
  <2> QED BY <1>1, <2>1, <2>4, <2>5, <2>6, <2>7, LandKeeps DEF PassStep, Pass!Next
<1> QED BY <1>3, <1>5, <1>6

\* The whole batch lands in one outcome for a reason that is nobody's.
LEMMA TroubleStep ==
  ASSUME RsInv, registry_error \/ \E applied \in BOOLEAN : execute_batch_fails(applied)
  PROVE  RsInv' /\ PassStep
<1> DEFINE batch == Head(queue)
<1>1. phase = "run" /\ queue # <<>>
  BY DEF registry_error, execute_batch_fails, Handling
<1>2. /\ Moved(ToSet(batch), Tail(queue)) /\ batch \in Groups(Jobs)
      /\ \A j : j \in ToSet(batch) <=> In(j, batch)
  BY <1>1, MovedHead
<1>3. RsType /\ until \in [Jobs -> Nat] /\ BlameInv
  BY DEF RsInv, RsType
<1>4. Moved(ToSet(batch) \cup {}, Tail(queue)) /\ Moved({} \cup ToSet(batch), Tail(queue))
  <2>1. ToSet(batch) \cup {} = ToSet(batch) /\ {} \cup ToSet(batch) = ToSet(batch)
    OBVIOUS
  <2> QED BY <1>2, <2>1
<1>5. "skipped" \in Outcomes /\ "failed" \in Outcomes
  BY DEF Outcomes
<1>6. CASE registry_error
  <2>1. /\ Land(ToSet(batch), {}, "skipped", Tail(queue)) /\ trouble'
        /\ UNCHANGED <<fixed, ready, phase, scanned, due, until, gone>>
    BY <1>6 DEF registry_error
  <2>2. Surroundings
    BY <1>3, <2>1 DEF Surroundings, BlameInv, fixed
  <2> HIDE DEF batch
  <2> QED BY <1>1, <1>4, <1>5, <2>1, <2>2, LandKeeps DEF PassStep, Pass!Next
<1>7. ASSUME NEW applied \in BOOLEAN, execute_batch_fails(applied) PROVE RsInv' /\ PassStep
  <2> DEFINE runs == IF applied THEN ToSet(Runnable(batch)) ELSE {}
  <2>1. /\ Land({}, ToSet(batch), "failed", Tail(queue)) /\ trouble'
        /\ gone' = gone \cup runs /\ ready' = ready \ runs
        /\ UNCHANGED <<fixed, phase, scanned, due, until>>
    BY <1>7 DEF execute_batch_fails
  <2> HIDE DEF runs, batch
  <2>2. Surroundings
    BY <1>3, <2>1 DEF Surroundings, BlameInv, fixed
  <2> QED BY <1>1, <1>4, <1>5, <2>1, <2>2, LandKeeps DEF PassStep, Pass!Next
<1> QED BY <1>6, <1>7

\* The simulation of a batch runs every job of it that works and is still due.
LEMMA SimulateStep == ASSUME RsInv, simulate PROVE RsInv' /\ PassStep
<1> DEFINE batch == Head(queue)
           would == Runnable(batch)
<1>1. /\ phase = "run" /\ queue # <<>>
      /\ UNCHANGED <<fixed, ready, phase, scanned, due, until, gone, trouble>>
      /\ IF would = <<>> THEN Land(ToSet(batch), {}, "skipped", Tail(queue))
         ELSE /\ ran' = would /\ resource_fee' = min_resource_fee(batch)
              /\ at' = "fees" /\ UNCHANGED <<queue, landed>>
  BY DEF simulate, Handling
<1>2. /\ Moved(ToSet(batch), Tail(queue)) /\ batch \in Groups(Jobs) /\ Different(batch)
      /\ \A j : j \in ToSet(batch) <=> In(j, batch)
      /\ \A j : In(j, batch) => j \in Jobs /\ InTodo(j, queue)
  BY <1>1, MovedHead
<1>3. RsType /\ until \in [Jobs -> Nat] /\ BlameInv
  BY DEF RsInv, RsType
<1> HIDE DEF batch
<1>4. /\ would \in Seq(Jobs) /\ Different(would)
      /\ \A j : In(j, would) <=> (j \in ready /\ kind[j] # "blocked" /\ In(j, batch))
  BY <1>2, RunnableFacts DEF Groups
<1> HIDE DEF would
<1>5. \A j : In(j, batch) /\ j \in ready /\ Good(j) => In(j, would)
  BY <1>4 DEF Good
<1>6. CASE would = <<>>
  <2>1. \A j : ~ In(j, would)
    <3>1. Len(<<>>) = 0 /\ 1..0 = {}
      OBVIOUS
    <3> QED BY <1>6, <3>1 DEF In
  <2>2. \A j \in ToSet(batch) \cup {} : Good(j) => j \in gone'
    <3>1. ASSUME NEW j \in ToSet(batch), Good(j) PROVE j \in gone
      <4>1. j \notin ready /\ j \in Jobs /\ InTodo(j, queue)
        BY <1>2, <1>5, <2>1, <3>1
      <4> QED BY <1>1, <4>1, WaitingRan
    <3> QED BY <1>1, <3>1
  <2>3. Surroundings
    BY <1>1, <1>3 DEF Surroundings, BlameInv, fixed
  <2>4. Moved(ToSet(batch) \cup {}, Tail(queue))
    <3>1. ToSet(batch) \cup {} = ToSet(batch)
      OBVIOUS
    <3> QED BY <1>2, <3>1
  <2>5. "skipped" \in Outcomes
    BY DEF Outcomes
  <2> QED BY <1>1, <1>6, <2>2, <2>3, <2>4, <2>5, LandKeeps DEF PassStep, Pass!Next
<1>7. CASE would # <<>>
  <2>1. /\ ran' = would /\ resource_fee' = min_resource_fee(batch)
        /\ at' = "fees" /\ UNCHANGED <<queue, landed>>
    BY <1>1, <1>7
  <2>2. RsType' /\ DueInv' /\ BlameInv' /\ WorkInv' /\ LandInv'
    BY <1>1, <1>4, <2>1
       DEF RsInv, RsType, DueInv, BlameInv, WorkInv, LandInv, Sunk, Good, fixed
  <2>3. StageInv'
    <3>1. batch \in Seq(Jobs)
      BY <1>2 DEF Groups
    <3>2. \A j : Good(j) /\ (\A i : In(i, batch) <=> i = j) => resource_fee' = 1
      BY <1>2, <2>1, <3>1, GoodCosts
    <3>3. Head(queue') = batch /\ kind' = kind /\ ready' = ready /\ queue' # <<>>
      BY <1>1, <2>1 DEF batch, fixed
    <3> QED BY <1>4, <1>7, <2>1, <3>2, <3>3 DEF StageInv, Good
  <2>4. UNCHANGED Pass!passVars
    BY <1>1, <2>1 DEF Pass!passVars
  <2> QED BY <2>2, <2>3, <2>4 DEF RsInv, PassStep
<1> QED BY <1>6, <1>7

\* The jobs of the head its simulation did not run.
Rest == ToSet(Head(queue)) \ ToSet(ran)

\* Behind the simulation: a job that was not run by it is blocked or not due any
\* more.
LEMMA Staged ==
  ASSUME RsInv, phase = "run", queue # <<>>, at \in {"fees", "send"}
  PROVE  /\ ran \in Groups(Jobs) /\ Different(ran)
         /\ \A j : j \in ToSet(ran) <=> In(j, ran)
         /\ \A j : In(j, ran) => In(j, Head(queue))
         /\ \A j : j \in Rest <=> In(j, Head(queue)) /\ ~ In(j, ran)
         /\ Rest \cup ToSet(ran) = ToSet(Head(queue))
         /\ \A j \in Rest : kind[j] = "blocked" \/ j \in gone
<1>1. /\ ran # <<>> /\ Different(ran)
      /\ \A j : In(j, ran) => In(j, Head(queue))
      /\ \A j : In(j, Head(queue)) /\ j \in ready /\ kind[j] # "blocked" => In(j, ran)
  BY DEF RsInv, StageInv
<1>2. ran \in Seq(Jobs)
  BY DEF RsInv, RsType
<1>3. \A j : j \in ToSet(ran) <=> In(j, ran)
  BY <1>2, ToSetIn
<1>4. /\ \A j : j \in ToSet(Head(queue)) <=> In(j, Head(queue))
      /\ \A j : In(j, Head(queue)) => j \in Jobs /\ InTodo(j, queue)
  BY MovedHead
<1>5. \A j : j \in Rest <=> In(j, Head(queue)) /\ ~ In(j, ran)
  BY <1>3, <1>4 DEF Rest
<1>6. ASSUME NEW j \in Rest, kind[j] # "blocked" PROVE j \in gone
  <2>1. j \notin ready /\ j \in Jobs /\ InTodo(j, queue)
    BY <1>1, <1>4, <1>5, <1>6
  <2> QED BY <2>1, WaitingRan
<1>7. Rest \cup ToSet(ran) = ToSet(Head(queue))
  BY <1>1, <1>3, <1>4 DEF Rest
<1> QED BY <1>1, <1>2, <1>3, <1>5, <1>6, <1>7 DEF Groups

\* The fees are read: a batch that does not pay is halved, down to single jobs.
LEMMA FeesStep ==
  ASSUME RsInv, NEW unread, current_fees(unread)
  PROVE  RsInv' /\ PassStep
<1>1. /\ phase = "run" /\ queue # <<>> /\ at = "fees" /\ unread \subseteq ToSet(ran) \ ready
      /\ UNCHANGED <<fixed, ready, phase, scanned, due, until, gone, trouble>>
      /\ IF Unprofitable(unread)
         THEN IF Len(ran) > 1
              THEN Land(Rest, {}, "skipped", halves(ran) \o Tail(queue))
              ELSE Land(Rest, ToSet(ran), "unprofitable", Tail(queue))
         ELSE IF dry_run THEN Land(Rest, ToSet(ran), "executed", Tail(queue))
         ELSE at' = "send" /\ UNCHANGED <<queue, ran, resource_fee, landed>>
  BY DEF current_fees, Handling, Rest
<1>2. /\ ran \in Groups(Jobs) /\ Different(ran)
      /\ \A j : j \in ToSet(ran) <=> In(j, ran)
      /\ \A j : In(j, ran) => In(j, Head(queue))
      /\ \A j : j \in Rest <=> In(j, Head(queue)) /\ ~ In(j, ran)
      /\ Rest \cup ToSet(ran) = ToSet(Head(queue))
      /\ \A j \in Rest : kind[j] = "blocked" \/ j \in gone
  BY <1>1, Staged
<1>3. /\ Moved(ToSet(Head(queue)), Tail(queue))
      /\ \A j : In(j, Head(queue)) => j \in Jobs /\ InTodo(j, queue)
  BY <1>1, MovedHead
<1>4. (Len(ran) = 1 \/ Len(ran) > 1) /\ Len(ran) \in Nat /\ ran \in Seq(Jobs)
  BY <1>2, GroupLen DEF Groups
<1>5. Surroundings
  BY <1>1 DEF RsInv, RsType, Surroundings, BlameInv, fixed
<1>6. {"skipped", "unprofitable", "executed"} \subseteq Outcomes
  BY DEF Outcomes
<1>7. CASE Unprofitable(unread) /\ Len(ran) > 1
  <2>1. /\ halves(ran) \in Seq(Groups(Jobs)) /\ Apart(halves(ran))
        /\ \A j : In(j, ran) <=> InTodo(j, halves(ran))
    BY <1>2, <1>4, <1>7, Halves
  <2>2. Moved(Rest, halves(ran) \o Tail(queue))
    BY <1>1, <1>2, <2>1, MovedParts
  <2>3. Moved(Rest \cup {}, halves(ran) \o Tail(queue))
    <3>1. Rest \cup {} = Rest
      OBVIOUS
    <3> QED BY <2>2, <3>1
  <2>4. Land(Rest, {}, "skipped", halves(ran) \o Tail(queue))
    BY <1>1, <1>7
  <2>5. \A j \in Rest \cup {} : Good(j) => j \in gone'
    BY <1>1, <1>2 DEF Good
  <2> QED BY <1>1, <1>5, <1>6, <2>3, <2>4, <2>5, LandKeeps DEF PassStep, Pass!Next
<1>8. CASE Unprofitable(unread) /\ ~ (Len(ran) > 1)
  <2>1. Land(Rest, ToSet(ran), "unprofitable", Tail(queue))
    BY <1>1, <1>8
  <2>2. Moved(Rest \cup ToSet(ran), Tail(queue))
    BY <1>2, <1>3
  <2>3. ASSUME NEW j \in ToSet(ran), Good(j), Rest = {} PROVE j \in gone
    <3>1. j = ran[1] /\ Len(ran) = 1
      <4>1. 1..1 = {1}
        OBVIOUS
      <4> QED BY <1>2, <1>4, <1>8, <4>1 DEF In
    <3>2. resource_fee = 1
      <4>1. \A i : In(i, ran) <=> i = j
        <5>1. 1..1 = {1}
          OBVIOUS
        <5> QED BY <3>1, <5>1 DEF In
      <4>2. \A i : In(i, Head(queue)) <=> i = j
        BY <1>2, <2>3, <4>1
      <4> QED BY <1>1, <2>3, <4>2 DEF RsInv, StageInv
    <3>3. j \in unread
      <4>1. RsType
        BY DEF RsInv
      <4> QED BY <1>2, <1>4, <1>8, <2>3, <3>1, <3>2, <4>1, GoodPays
    <3>4. j \notin ready /\ j \in Jobs /\ InTodo(j, queue)
      BY <1>1, <1>2, <1>3, <3>3
    <3> QED BY <1>1, <3>4, WaitingRan
  <2>4. Rest \cap ToSet(ran) = {}
    BY DEF Rest
  <2>5. \A j \in Rest \cup ToSet(ran) : Good(j) =>
           \/ j \in gone'
           \/ /\ j \in ToSet(ran)
              /\ \E i \in Rest \ ToSet(ran) : kind[i] = "blocked" \/ i \in gone
    BY <1>1, <1>2, <2>3, <2>4 DEF Good
  <2> QED BY <1>1, <1>5, <1>6, <2>1, <2>2, <2>5, LandKeeps DEF PassStep, Pass!Next
<1>9. CASE ~ Unprofitable(unread) /\ dry_run
  <2>1. Land(Rest, ToSet(ran), "executed", Tail(queue))
    BY <1>1, <1>9
  <2>2. Moved(Rest \cup ToSet(ran), Tail(queue))
    BY <1>2, <1>3
  <2> QED BY <1>1, <1>5, <1>6, <1>9, <2>1, <2>2, LandKeeps DEF PassStep, Pass!Next
<1>10. CASE ~ Unprofitable(unread) /\ ~ dry_run
  <2>1. at' = "send" /\ UNCHANGED <<queue, ran, resource_fee, landed>>
    BY <1>1, <1>10
  <2>2. RsType' /\ DueInv' /\ BlameInv' /\ WorkInv' /\ LandInv'
    BY <1>1, <2>1
       DEF RsInv, RsType, DueInv, BlameInv, WorkInv, LandInv, Sunk, Good, fixed
  <2>3. StageInv'
    BY <1>1, <2>1 DEF RsInv, StageInv, Good, fixed
  <2>4. UNCHANGED Pass!passVars
    BY <1>1, <2>1 DEF Pass!passVars
  <2> QED BY <2>2, <2>3, <2>4 DEF RsInv, PassStep
<1> QED BY <1>7, <1>8, <1>9, <1>10

\* The transaction runs every job of the batch that works and is still due.
LEMMA SendStep == ASSUME RsInv, send PROVE RsInv' /\ PassStep
<1> DEFINE runs == ToSet(Runnable(Head(queue)))
<1>1. /\ phase = "run" /\ queue # <<>> /\ at = "send"
      /\ UNCHANGED <<fixed, phase, scanned, due, until, trouble>>
      /\ gone' = gone \cup runs /\ ready' = ready \ runs
      /\ Land(Rest, ToSet(ran), "executed", Tail(queue))
  BY DEF send, Handling, Rest
<1>2. /\ Rest \cup ToSet(ran) = ToSet(Head(queue))
  BY <1>1, Staged
<1>3. /\ Moved(ToSet(Head(queue)), Tail(queue)) /\ Head(queue) \in Groups(Jobs)
      /\ \A j : j \in ToSet(Head(queue)) <=> In(j, Head(queue))
      /\ \A j : In(j, Head(queue)) => j \in Jobs /\ InTodo(j, queue)
  BY <1>1, MovedHead
<1>4. Moved(Rest \cup ToSet(ran), Tail(queue))
  BY <1>2, <1>3
<1>5. \A j : In(j, Head(queue)) /\ j \in ready /\ kind[j] # "blocked" => j \in runs
  <2>1. Head(queue) \in Seq(Jobs)
    BY <1>3 DEF Groups
  <2>2. /\ \A j : In(j, Runnable(Head(queue)))
                <=> (j \in ready /\ kind[j] # "blocked" /\ In(j, Head(queue)))
        /\ runs = {j \in Jobs : In(j, Runnable(Head(queue)))}
    BY <2>1, RunnableFacts
  <2> QED BY <1>3, <2>2
<1> HIDE DEF runs
<1>6. ASSUME NEW j \in Rest \cup ToSet(ran), Good(j) PROVE j \in gone'
  <2>1. j \in Jobs /\ In(j, Head(queue)) /\ InTodo(j, queue) /\ kind[j] # "blocked"
    BY <1>2, <1>3, <1>6 DEF Good
  <2>2. CASE j \in ready
    BY <1>1, <1>5, <2>1, <2>2
  <2>3. CASE j \notin ready
    BY <1>1, <2>1, <2>3, WaitingRan
  <2> QED BY <2>2, <2>3
<1>7. Surroundings
  BY <1>1 DEF RsInv, RsType, Surroundings, BlameInv, fixed
<1>8. "executed" \in Outcomes
  BY DEF Outcomes
<1> QED BY <1>1, <1>4, <1>6, <1>7, <1>8, LandKeeps DEF PassStep, Pass!Next

\* The rest of the world.
LEMMA WorldStep ==
  ASSUME RsInv, (\E j \in Jobs : Rival(j) \/ FallsDue(j)) \/ UNCHANGED vars
  PROVE  RsInv' /\ PassStep
<1>1. ASSUME NEW j \in Jobs, Rival(j) PROVE RsInv' /\ PassStep
  <2>1. /\ UNCHANGED <<fixed, phase, scanned, due, queue, at, ran, resource_fee, until, landed, trouble>>
        /\ phase # "idle" /\ ready' = ready \ {j} /\ gone' = gone \cup {j}
    BY <1>1 DEF Rival
  <2>2. RsType' /\ DueInv' /\ BlameInv' /\ LandInv'
    BY <2>1 DEF RsInv, RsType, DueInv, BlameInv, LandInv, fixed
  <2>3. StageInv'
    BY <2>1 DEF RsInv, StageInv, Good, fixed
  <2>4. WorkInv'
    BY <2>1 DEF RsInv, WorkInv, Sunk, Good, fixed
  <2>5. UNCHANGED Pass!passVars
    BY <2>1 DEF Pass!passVars
  <2> QED BY <2>2, <2>3, <2>4, <2>5 DEF RsInv, PassStep
<1>2. ASSUME NEW j \in Jobs, FallsDue(j) PROVE RsInv' /\ PassStep
  <2>1. /\ UNCHANGED <<fixed, phase, scanned, due, queue, at, ran, resource_fee, until, landed, gone, trouble>>
        /\ phase = "idle" /\ ready' = ready \cup {j}
    BY <1>2 DEF FallsDue
  <2>2. RsType' /\ DueInv' /\ BlameInv' /\ LandInv'
    BY <2>1 DEF RsInv, RsType, DueInv, BlameInv, LandInv, fixed
  <2>3. StageInv' /\ WorkInv'
    BY <2>1 DEF RsInv, StageInv, WorkInv
  <2>4. UNCHANGED Pass!passVars
    BY <2>1 DEF Pass!passVars
  <2> QED BY <2>2, <2>3, <2>4 DEF RsInv, PassStep
<1>3. CASE UNCHANGED vars
  <2>1. UNCHANGED <<fixed, ready, phase, scanned, due, queue, at, ran, resource_fee, until, landed, gone, trouble>>
    BY <1>3 DEF vars
  <2>2. RsType' /\ DueInv' /\ BlameInv' /\ LandInv'
    BY <2>1 DEF RsInv, RsType, DueInv, BlameInv, LandInv, fixed
  <2>3. StageInv'
    BY <2>1 DEF RsInv, StageInv, Good, fixed
  <2>4. WorkInv'
    BY <2>1 DEF RsInv, WorkInv, Sunk, Good, fixed
  <2>5. UNCHANGED Pass!passVars
    BY <2>1 DEF Pass!passVars
  <2> QED BY <2>2, <2>3, <2>4, <2>5 DEF RsInv, PassStep
<1> QED BY <1>1, <1>2, <1>3

-----------------------------------------------------------------------------

\* Every step of the keeper, of other keepers and of time.
LEMMA RsStep == ASSUME RsInv, [Next]_vars PROVE RsInv' /\ PassStep
<1>1. CASE tick_starts \/ is_due \/ scan_fails
  BY <1>1, ScanStep
<1>2. CASE begin_batches \/ tick_ends
  BY <1>2, BeginStep, EndStep
<1>3. CASE job_problem \/ simulate \/ send
  BY <1>3, ProblemStep, SimulateStep, SendStep
<1>4. CASE registry_error \/ \E applied \in BOOLEAN : execute_batch_fails(applied)
  BY <1>4, TroubleStep
<1>5. CASE \E unread \in SUBSET Jobs : current_fees(unread)
  BY <1>5, FeesStep
<1>6. CASE (\E j \in Jobs : Rival(j) \/ FallsDue(j)) \/ UNCHANGED vars
  BY <1>6, WorldStep
<1> QED BY <1>1, <1>2, <1>3, <1>4, <1>5, <1>6 DEF Next, Keeper

LEMMA RsInit == ASSUME Init PROVE RsInv /\ Pass!Init
<1>1. /\ ready = Jobs /\ phase = "idle" /\ scanned = 0 /\ due = <<>>
      /\ queue = <<>> /\ ran = <<>> /\ until = [j \in Jobs |-> 0]
  BY DEF Init
<1>2. kind \in [Jobs -> Kinds] /\ batch_size \in Nat
  <2>1. PICK s \in Setups : batch_size = s.batch_size /\ kind \in [Jobs -> s.kinds]
    BY DEF Init
  <2>2. s.batch_size \in Nat /\ s.kinds \subseteq Kinds
    BY KeeperRsAssumption
  <2> QED BY <2>1, <2>2
<1>3. <<>> \in Seq(Jobs) /\ <<>> \in Seq(Groups(Jobs))
  OBVIOUS
<1>4. RsType
  BY <1>1, <1>2, <1>3 DEF RsType
<1>5. Pass!Init
  BY <1>1 DEF Pass!Init
<1> QED BY <1>1, <1>4, <1>5 DEF RsInv, DueInv, BlameInv, StageInv, WorkInv, LandInv

\* No bad, heavy or costly job holds up one that works and pays; only being left
\* alone beside a skipped job does (GoodJobsRun).
THEOREM GoodJobsSafe == Spec => []GoodJobsRun
<1>1. RsInv => GoodJobsRun
  <2> SUFFICES ASSUME RsInv, phase = "run", queue = <<>>, ~ trouble, ~ dry_run,
                      NEW j \in ToSet(due), Good(j)
               PROVE  j \in gone \/ Sunk(j)
    BY DEF GoodJobsRun, RsInv, BlameInv, Good, Sunk
  <2>1. due \in Seq(Jobs)
    BY DEF RsInv, RsType
  <2>2. In(j, due)
    BY <2>1, ToSetIn
  <2>3. ~ InTodo(j, queue)
    <3>1. Len(<<>>) = 0 /\ 1..0 = {}
      OBVIOUS
    <3> QED BY <3>1 DEF InTodo
  <2> QED BY <2>2, <2>3 DEF RsInv, WorkInv
<1> QED BY <1>1, RsInit, RsStep, PTL DEF Spec

\* The keeper's steps are those of a pass: every job found due lands in exactly one
\* outcome, none is taken back, and the tick does not end before (the safety half of
\* ImplementsPass).
THEOREM RsPassSteps == Spec => Pass!Steps
<1>1. PassStep => [Pass!Next]_(Pass!passVars)
  BY DEF PassStep
<1>2. ASSUME RsInv, [Next]_vars PROVE [Pass!Next]_(Pass!passVars)
  BY <1>1, <1>2, RsStep
<1> QED BY <1>2, RsInit, RsStep, PTL DEF Spec, Pass!Steps
=============================================================================
