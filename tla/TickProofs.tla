----------------------------- MODULE TickProofs -----------------------------
(***************************************************************************)
(* The keeper bot's ticks, for any number of jobs, channels and batches,   *)
(* any batch size and any interleaving of tasks and other keepers: no      *)
(* channel is shared or lost, only the job that spoils its batch is set    *)
(* aside, every due job lands in exactly one bucket of the summary, and a  *)
(* job that pays for itself is run unless it is left alone beside a        *)
(* skipped one.                                                            *)
(***************************************************************************)
EXTENDS KeeperTick, FiniteSetTheorems, SequenceTheorems, ListProofs

-----------------------------------------------------------------------------
(* Tasks and channels.  ChannelsExclusive is not inductive: a task that ends   *)
(* must hold the channel it returns, and the task that gets it must wait.      *)

Idle == {"acquire", "done"}
Sending == {"send", "retry", "resend"}
Stages == Idle \cup Sending \cup {"prepare", "restore", "again"}

Task ==
    [todo : Seq(Groups(Jobs)), at : Stages, channel : (1..channels) \cup {None},
     bid : 0..(TopLevel + 1), ids : Seq(Jobs), runnable : Seq(Jobs)]

\* Which batches, channel and place in the queue a task has at each stage.
TaskSound(t) ==
    /\ tasks[t].todo = <<>> <=> tasks[t].at = "done"
    /\ tasks[t].channel = None <=> tasks[t].at \in Idle
    /\ tasks[t].at = "acquire" <=> In(t, waiting)
    /\ tasks[t].at \in Sending => /\ tasks[t].ids = Head(tasks[t].todo)
                                  /\ \A j : In(j, tasks[t].runnable) => In(j, tasks[t].ids)

TaskInv ==
    /\ channels \in Nat \ {0} /\ tasks \in Seq(Task)
    /\ free \in Seq(1..channels) /\ waiting \in Seq(1..Len(tasks))
    /\ Different(free) /\ Different(waiting)
    /\ waiting # <<>> => free = <<>>
    /\ \A t \in 1..Len(tasks) : TaskSound(t)
    /\ \A c \in 1..channels : In(c, free) <=> \A t \in 1..Len(tasks) : tasks[t].channel # c
    /\ \A t, u \in 1..Len(tasks) :
          tasks[t].channel = tasks[u].channel /\ tasks[t].channel # None => t = u

\* A bid at any level.
LEMMA BidType == ASSUME NEW l \in 0..TopLevel PROVE current(l) \in 0..(TopLevel + 1)
  BY TickAssumption DEF current

\* A task moves on with its channel.
LEMMA OneTask ==
  ASSUME TaskInv, NEW t \in 1..Len(tasks), tasks[t].at \notin Idle,
         NEW new \in Task, new.at \notin Idle, new.todo # <<>>,
         new.channel = tasks[t].channel,
         new.at \in Sending => /\ new.ids = Head(new.todo)
                               /\ \A j : In(j, new.runnable) => In(j, new.ids),
         tasks' = [tasks EXCEPT ![t] = new], UNCHANGED <<pool, channels>>
  PROVE  /\ TaskInv' /\ Len(tasks') = Len(tasks)
         /\ \A u \in 1..Len(tasks) : tasks'[u] = IF u = t THEN new ELSE tasks[u]
<1>1. /\ Len(tasks') = Len(tasks) /\ tasks' \in Seq(Task)
      /\ \A u \in 1..Len(tasks) : tasks'[u] = IF u = t THEN new ELSE tasks[u]
  BY DEF TaskInv
<1>2. free' = free /\ waiting' = waiting /\ channels' = channels
  BY DEF pool
<1>3. Task' = Task
  BY <1>2 DEF Task
<1>4. ASSUME NEW u \in 1..Len(tasks) PROVE TaskSound(u)'
  <2>1. TaskSound(u) /\ TaskSound(t)
    BY DEF TaskInv
  <2>2. CASE u # t
    BY <1>1, <1>2, <2>1, <2>2 DEF TaskSound, In
  <2>3. CASE u = t
    <3>1. tasks'[u] = new /\ waiting' = waiting
      BY <1>1, <1>2, <2>3
    <3>2. ~ In(u, waiting) /\ tasks[t].channel # None
      BY <2>1, <2>3 DEF TaskSound, Idle
    <3>3. ~ In(u, waiting')
      BY <1>2, <3>2 DEF In
    <3> QED BY <3>1, <3>2, <3>3 DEF TaskSound, Idle
  <2> QED BY <2>2, <2>3
<1>5. \A u \in 1..Len(tasks) : tasks'[u].channel = tasks[u].channel
  BY <1>1
<1>6. \A c \in 1..channels' : In(c, free') <=> \A u \in 1..Len(tasks') : tasks'[u].channel # c
  <2>1. \A c \in 1..channels : In(c, free') <=> In(c, free)
    BY <1>2 DEF In
  <2>2. \A c \in 1..channels : In(c, free) <=> \A u \in 1..Len(tasks) : tasks[u].channel # c
    BY DEF TaskInv
  <2>3. Len(tasks') = Len(tasks) /\ 1..channels' = 1..channels
    BY <1>1, <1>2
  <2> QED BY <1>5, <2>1, <2>2, <2>3
<1>7. \A v, u \in 1..Len(tasks') :
         tasks'[v].channel = tasks'[u].channel /\ tasks'[v].channel # None => v = u
  BY <1>1, <1>5 DEF TaskInv
<1> QED BY <1>1, <1>2, <1>3, <1>4, <1>6, <1>7 DEF TaskInv, Different

Finished ==
    [todo |-> <<>>, at |-> "done", channel |-> None, bid |-> 0, ids |-> <<>>, runnable |-> <<>>]

\* What a task leaves behind.
LEMMA FinishedType == TickAssumption => Finished \in Task
  BY DEF Finished, Task, Stages, Idle, TickAssumption

\* A task ends: its channel is free, or goes to the task that waits longest.
LEMMA ReleaseTask ==
  ASSUME TaskInv, NEW t \in 1..Len(tasks), tasks[t].at \notin Idle,
         level' \in 0..TopLevel, UNCHANGED channels,
         release(tasks[t].channel, [tasks EXCEPT ![t] = Finished])
  PROVE  /\ TaskInv' /\ Len(tasks') = Len(tasks)
         /\ \A u \in 1..Len(tasks) : tasks'[u].todo = IF u = t THEN <<>> ELSE tasks[u].todo
<1> DEFINE c == tasks[t].channel
           ts == [tasks EXCEPT ![t] = Finished]
<1>0. TaskSound(t) /\ c \in 1..channels /\ tasks[t] \in Task /\ c # None
  <2>1. TaskSound(t) /\ tasks[t] \in Task
    BY DEF TaskInv
  <2> QED BY <2>1 DEF TaskSound, Task, Idle
<1>1. /\ ts \in Seq(Task) /\ Len(ts) = Len(tasks)
      /\ \A u \in 1..Len(tasks) : ts[u] = IF u = t THEN Finished ELSE tasks[u]
  BY FinishedType, TickAssumption DEF TaskInv
<1>2. Finished.todo = <<>> /\ Finished.at = "done" /\ Finished.channel = None
  BY DEF Finished
<1>3. Task' = Task
  BY DEF Task
<1>4. Len(tasks) \in Nat
  BY DEF TaskInv
<1> HIDE DEF ts, c
<1>5. CASE waiting = <<>>
  <2>1. free' = Append(free, c) /\ tasks' = ts /\ waiting' = waiting
    BY <1>5 DEF release, c, ts
  <2>2. /\ free' \in Seq(1..channels) /\ Len(free') = Len(free) + 1 /\ Len(free) \in Nat
        /\ free'[Len(free) + 1] = c /\ \A i \in 1..Len(free) : free'[i] = free[i]
        /\ \A x : In(x, free') <=> (In(x, free) \/ x = c)
    <3>1. free \in Seq(1..channels)
      BY DEF TaskInv
    <3>2. c \in 1..channels
      BY <1>0
    <3> DEFINE more == Append(free, c)
    <3>3. /\ more \in Seq(1..channels) /\ Len(more) = Len(free) + 1 /\ Len(free) \in Nat
          /\ more[Len(free) + 1] = c /\ \A i \in 1..Len(free) : more[i] = free[i]
          /\ \A x : In(x, more) <=> (In(x, free) \/ x = c)
      <4> DEFINE X == 1..channels
      <4>1. free \in Seq(X) /\ c \in X
        BY <3>1, <3>2
      <4> HIDE DEF X
      <4>2. /\ more \in Seq(X) /\ Len(more) = Len(free) + 1 /\ Len(free) \in Nat
            /\ more[Len(free) + 1] = c /\ \A i \in 1..Len(free) : more[i] = free[i]
            /\ \A x : In(x, more) <=> (In(x, free) \/ x = c)
        BY <4>1, AppendParts
      <4> QED BY <4>2 DEF X
    <3> HIDE DEF more
    <3>4. free' = more
      BY <2>1 DEF more
    <3>5. \A x : In(x, free') <=> In(x, more)
      BY <3>4 DEF In
    <3> QED BY <3>3, <3>4, <3>5
  <2>3. ~ In(c, free)
    BY <1>0 DEF TaskInv, c
  <2>4. Different(free')
    <3> SUFFICES ASSUME NEW m \in 1..Len(free'), NEW n \in 1..Len(free'), free'[m] = free'[n]
                 PROVE  m = n
      BY DEF Different
    <3>1. \A i \in 1..Len(free) : free[i] # c
      BY <2>3 DEF In
    <3>2. \A i : i \in 1..Len(free') <=> (i = Len(free) + 1 \/ i \in 1..Len(free))
      BY <2>2
    <3>3. \A i, k \in 1..Len(free) : free[i] = free[k] => i = k
      BY DEF TaskInv, Different
    <3>4. CASE m = Len(free) + 1
      BY <2>2, <3>1, <3>2, <3>4
    <3>5. CASE n = Len(free) + 1
      BY <2>2, <3>1, <3>2, <3>5
    <3>6. CASE m \in 1..Len(free) /\ n \in 1..Len(free)
      BY <2>2, <3>3, <3>6
    <3> QED BY <3>2, <3>4, <3>5, <3>6
  <2>5. ASSUME NEW u \in 1..Len(tasks) PROVE TaskSound(u)'
    <3>1. TaskSound(u) /\ tasks'[u] = IF u = t THEN Finished ELSE tasks[u]
      BY <1>1, <2>1 DEF TaskInv
    <3>2. ~ In(u, waiting) /\ ~ In(u, waiting')
      <4>1. Len(waiting) = 0 /\ Len(waiting') = 0 /\ 1..0 = {}
        BY <1>5, <2>1
      <4> QED BY <4>1 DEF In
    <3> QED BY <1>2, <2>1, <3>1, <3>2 DEF TaskSound, Idle, Sending
  <2>6. \A u \in 1..Len(tasks) : tasks'[u].channel = IF u = t THEN None ELSE tasks[u].channel
    BY <1>1, <1>2, <2>1
  <2>7. ASSUME NEW x \in 1..channels
        PROVE  In(x, free') <=> \A u \in 1..Len(tasks) : tasks'[u].channel # x
    <3>1. x # None
      BY TickAssumption DEF TaskInv
    <3>2. In(x, free) <=> \A u \in 1..Len(tasks) : tasks[u].channel # x
      BY DEF TaskInv
    <3>3. CASE x = c
      <4>1. \A u \in 1..Len(tasks) : tasks[u].channel = c => u = t
        BY <1>0 DEF TaskInv, c
      <4> QED BY <2>2, <2>6, <3>1, <3>3, <4>1
    <3>4. CASE x # c
      BY <2>2, <2>6, <3>1, <3>2, <3>4 DEF c
    <3> QED BY <3>3, <3>4
  <2>8. \A v, u \in 1..Len(tasks) :
           tasks'[v].channel = tasks'[u].channel /\ tasks'[v].channel # None => v = u
    BY <2>6 DEF TaskInv
  <2>9. Len(tasks') = Len(tasks) /\ tasks' \in Seq(Task)
    BY <1>1, <2>1
  <2>10. waiting' \in Seq(1..Len(tasks')) /\ Different(waiting')
         /\ (waiting' # <<>> => free' = <<>>)
    BY <1>5, <2>1, <2>9 DEF TaskInv, Different
  <2>11. \A u \in 1..Len(tasks) : tasks'[u].todo = IF u = t THEN <<>> ELSE tasks[u].todo
    BY <1>1, <1>2, <2>1
  <2>12. TaskInv'
    BY <1>3, <2>2, <2>4, <2>5, <2>7, <2>8, <2>9, <2>10 DEF TaskInv
  <2> QED BY <2>9, <2>11, <2>12
<1>6. CASE waiting # <<>>
  <2> DEFINE w == Head(waiting)
             new == [tasks[w] EXCEPT !.channel = c, !.at = "prepare", !.bid = current(level')]
  <2>1. /\ w \in 1..Len(tasks) /\ waiting[1] = w /\ Tail(waiting) \in Seq(1..Len(tasks))
        /\ Len(waiting) \in Nat \ {0} /\ Len(Tail(waiting)) = Len(waiting) - 1
        /\ \A i \in 1..Len(Tail(waiting)) : Tail(waiting)[i] = waiting[i + 1]
        /\ \A x : In(x, waiting) <=> (x = w \/ In(x, Tail(waiting)))
    <3>1. waiting \in Seq(1..Len(tasks))
      BY DEF TaskInv
    <3> QED BY <1>6, <3>1, HeadTail
  <2>2. tasks[w].at = "acquire" /\ tasks[w] \in Task /\ w # t /\ tasks[w].todo # <<>>
    <3>1. TaskSound(w) /\ tasks[w] \in Task
      BY <2>1 DEF TaskInv
    <3>2. In(w, waiting)
      BY <2>1
    <3> QED BY <3>1, <3>2 DEF TaskSound, Idle
  <2>3. waiting' = Tail(waiting) /\ free' = free
        /\ tasks' = [ts EXCEPT ![w].channel = c, ![w].at = "prepare", ![w].bid = current(level')]
    BY <1>6 DEF release, c, ts
  <2>4. new \in Task /\ new.channel = c /\ new.at = "prepare" /\ new.todo = tasks[w].todo
    <3>1. current(level') \in 0..(TopLevel + 1)
      BY BidType
    <3> QED BY <1>0, <2>2, <3>1 DEF Task, Stages
  <2>5. tasks' = [ts EXCEPT ![w] = new]
    <3>1. ts[w] = tasks[w]
      BY <1>1, <2>1, <2>2
    <3> QED BY <2>3, <3>1
  <2> HIDE DEF w, new
  <2>6. /\ tasks' \in Seq(Task) /\ Len(tasks') = Len(tasks)
        /\ \A u \in 1..Len(tasks) :
              tasks'[u] = IF u = w THEN new ELSE IF u = t THEN Finished ELSE tasks[u]
    BY <1>1, <1>4, <2>1, <2>4, <2>5
  <2>7. ~ In(w, Tail(waiting))
    <3> SUFFICES ASSUME NEW i \in 1..Len(Tail(waiting)), Tail(waiting)[i] = w PROVE FALSE
      BY DEF In
    <3>1. i + 1 \in 1..Len(waiting) /\ 1 \in 1..Len(waiting) /\ waiting[i + 1] = waiting[1]
          /\ i + 1 # 1
      BY <2>1
    <3> QED BY <3>1 DEF TaskInv, Different
  <2>8. Different(waiting')
    <3> SUFFICES ASSUME NEW m \in 1..Len(Tail(waiting)), NEW n \in 1..Len(Tail(waiting)),
                        Tail(waiting)[m] = Tail(waiting)[n]
                 PROVE  m = n
      BY <2>3 DEF Different
    <3>1. m + 1 \in 1..Len(waiting) /\ n + 1 \in 1..Len(waiting) /\ waiting[m + 1] = waiting[n + 1]
      BY <2>1
    <3>2. m + 1 = n + 1
      BY <3>1 DEF TaskInv, Different
    <3> QED BY <2>1, <3>2
  <2>9. ASSUME NEW u \in 1..Len(tasks) PROVE TaskSound(u)'
    <3>1. TaskSound(u) /\ (In(u, waiting') <=> (In(u, waiting) /\ u # w))
      <4>1. In(u, waiting') <=> In(u, Tail(waiting))
        BY <2>3 DEF In
      <4> QED BY <2>1, <2>7, <4>1 DEF TaskInv
    <3>2. CASE u = w
      BY <1>0, <2>2, <2>4, <2>6, <3>1, <3>2 DEF TaskSound, Idle, Sending
    <3>3. CASE u = t /\ u # w
      BY <1>0, <1>2, <2>6, <3>1, <3>3 DEF TaskSound, Idle, Sending
    <3>4. CASE u # w /\ u # t
      BY <2>6, <3>1, <3>4 DEF TaskSound
    <3> QED BY <3>2, <3>3, <3>4
  <2>10. \A u \in 1..Len(tasks) :
            tasks'[u].channel = IF u = w THEN c ELSE IF u = t THEN None ELSE tasks[u].channel
    BY <1>2, <2>4, <2>6
  <2>11. tasks[w].channel = None
    BY <2>1, <2>2 DEF TaskInv, TaskSound, Idle
  <2>12. ASSUME NEW x \in 1..channels
         PROVE  In(x, free') <=> \A u \in 1..Len(tasks) : tasks'[u].channel # x
    <3>1. x # None
      BY TickAssumption DEF TaskInv
    <3>2. In(x, free) <=> \A u \in 1..Len(tasks) : tasks[u].channel # x
      BY DEF TaskInv
    <3>3. In(x, free') <=> In(x, free)
      BY <2>3 DEF In
    <3>4. CASE x = c
      BY <2>1, <2>10, <3>2, <3>3, <3>4 DEF c
    <3>5. CASE x # c
      <4>1. \A u \in 1..Len(tasks) : tasks'[u].channel = x <=> tasks[u].channel = x
        BY <2>10, <2>11, <3>1, <3>5 DEF c
      <4> QED BY <3>2, <3>3, <4>1
    <3> QED BY <3>4, <3>5
  <2>13. ASSUME NEW v \in 1..Len(tasks), NEW u \in 1..Len(tasks),
                tasks'[v].channel = tasks'[u].channel, tasks'[v].channel # None
         PROVE  v = u
    <3>1. \A y \in 1..Len(tasks) : tasks[y].channel = c => y = t
      BY <1>0 DEF TaskInv, c
    <3> QED BY <2>10, <2>13, <3>1 DEF TaskInv
  <2>14. waiting' \in Seq(1..Len(tasks')) /\ (waiting' # <<>> => free' = <<>>)
         /\ free' \in Seq(1..channels) /\ Different(free')
    BY <1>6, <2>1, <2>3, <2>6 DEF TaskInv, Different
  <2>15. \A u \in 1..Len(tasks) : tasks'[u].todo = IF u = t THEN <<>> ELSE tasks[u].todo
    BY <1>2, <2>2, <2>4, <2>6
  <2>16. TaskInv'
    BY <1>3, <2>6, <2>8, <2>9, <2>12, <2>13, <2>14 DEF TaskInv
  <2> QED BY <2>6, <2>15, <2>16
<1> QED BY <1>5, <1>6

\* A task goes on with `todo`, or ends.
LEMMA ContinueTask ==
  ASSUME TaskInv, NEW t \in 1..Len(tasks), tasks[t].at \notin Idle, NEW todo \in Seq(Groups(Jobs)),
         level' \in 0..TopLevel, UNCHANGED channels, Continue(t, todo)
  PROVE  /\ TaskInv' /\ Len(tasks') = Len(tasks)
         /\ \A u \in 1..Len(tasks) : tasks'[u].todo = IF u = t THEN todo ELSE tasks[u].todo
<1>1. CASE todo = <<>>
  <2>1. release(tasks[t].channel, [tasks EXCEPT ![t] = Finished])
    BY <1>1 DEF Continue, Finished
  <2> QED BY <1>1, <2>1, ReleaseTask
<1>2. CASE todo # <<>>
  <2> DEFINE bid == current(level')
             new == [tasks[t] EXCEPT !.todo = todo, !.at = "prepare",
                                     !.bid = bid, !.ids = <<>>, !.runnable = <<>>]
  <2>1. tasks[t] \in Task
    BY DEF TaskInv
  <2>2. bid \in 0..(TopLevel + 1)
    BY BidType
  <2>3. tasks' = [tasks EXCEPT ![t] = new] /\ UNCHANGED pool
    BY <1>2 DEF Continue
  <2> HIDE DEF bid
  <2>4. new \in Task /\ new.todo = todo /\ new.at = "prepare" /\ new.channel = tasks[t].channel
    <3> DEFINE none == <<>>
               first == [tasks[t] EXCEPT !.todo = todo, !.at = "prepare", !.bid = bid]
               next == [first EXCEPT !.ids = none, !.runnable = none]
    <3>1. none \in Seq(Jobs)
      OBVIOUS
    <3>2. new = next
      OBVIOUS
    <3> HIDE DEF none
    <3>3. first \in Task /\ first.todo = todo /\ first.at = "prepare"
          /\ first.channel = tasks[t].channel
      BY <2>1, <2>2 DEF Task, Stages
    <3> HIDE DEF first, new
    <3>4. next \in Task /\ next.todo = first.todo /\ next.at = first.at
          /\ next.channel = first.channel
      BY <3>1, <3>3 DEF Task
    <3> QED BY <3>2, <3>3, <3>4
  <2> HIDE DEF new
  <2>5. new.at \notin Idle /\ new.at \notin Sending
    BY <2>4 DEF Idle, Sending
  <2>6. /\ TaskInv' /\ Len(tasks') = Len(tasks)
        /\ \A u \in 1..Len(tasks) : tasks'[u] = IF u = t THEN new ELSE tasks[u]
    BY <1>2, <2>3, <2>4, <2>5, OneTask
  <2> QED BY <2>4, <2>6
<1> QED BY <1>1, <1>2

\* A task awaits something else, with the same batches.
LEMMA AwaitTask ==
  ASSUME TaskInv, NEW t \in 1..Len(tasks), tasks[t].at \notin Idle,
         NEW stage \in Stages \ Idle, stage \in Sending => tasks[t].at \in Sending,
         UNCHANGED channels, Await(t, stage)
  PROVE  /\ TaskInv' /\ Len(tasks') = Len(tasks)
         /\ \A u \in 1..Len(tasks) : tasks'[u].todo = tasks[u].todo
<1> DEFINE new == [tasks[t] EXCEPT !.at = stage]
<1>1. tasks[t] \in Task /\ TaskSound(t)
  BY DEF TaskInv
<1>2. new \in Task /\ new.todo = tasks[t].todo /\ new.at = stage /\ new.channel = tasks[t].channel
      /\ new.ids = tasks[t].ids /\ new.runnable = tasks[t].runnable
  BY <1>1 DEF Task
<1>3. tasks' = [tasks EXCEPT ![t] = new] /\ UNCHANGED pool
  BY DEF Await
<1> HIDE DEF new
<1>4. /\ new.todo # <<>> /\ new.at \notin Idle
      /\ new.at \in Sending => /\ new.ids = Head(new.todo)
                                /\ \A j : In(j, new.runnable) => In(j, new.ids)
  BY <1>1, <1>2 DEF TaskSound, Idle
<1>5. /\ TaskInv' /\ Len(tasks') = Len(tasks)
      /\ \A u \in 1..Len(tasks) : tasks'[u] = IF u = t THEN new ELSE tasks[u]
  BY <1>2, <1>3, <1>4, OneTask
<1> QED BY <1>2, <1>5

\* A task sends its batch.
LEMMA SendTask ==
  ASSUME TaskInv, NEW t \in 1..Len(tasks), tasks[t].at \notin Idle, NEW runs \in Seq(Jobs),
         \A j : In(j, runs) => In(j, Batch(t)),
         UNCHANGED <<channels, pool>>,
         tasks' = [tasks EXCEPT ![t].at = "send", ![t].ids = Batch(t), ![t].runnable = runs]
  PROVE  /\ TaskInv' /\ Len(tasks') = Len(tasks)
         /\ \A u \in 1..Len(tasks) : tasks'[u].todo = tasks[u].todo
<1> DEFINE new == [tasks[t] EXCEPT !.at = "send", !.ids = Batch(t), !.runnable = runs]
<1>1. tasks[t] \in Task /\ TaskSound(t)
  BY DEF TaskInv
<1>2. tasks[t].todo \in Seq(Groups(Jobs)) /\ tasks[t].todo # <<>>
  BY <1>1 DEF Task, TaskSound, Idle
<1>3. Batch(t) \in Seq(Jobs)
  <2>1. Head(tasks[t].todo) \in Groups(Jobs)
    BY <1>2, TodoParts
  <2> QED BY <2>1 DEF Batch, Groups
<1>4. new \in Task /\ new.todo = tasks[t].todo /\ new.at = "send" /\ new.channel = tasks[t].channel
      /\ new.ids = Batch(t) /\ new.runnable = runs
  BY <1>1, <1>3 DEF Task, Stages, Sending
<1>5. tasks' = [tasks EXCEPT ![t] = new]
  OBVIOUS
<1> HIDE DEF new
<1>6. /\ new.todo # <<>> /\ new.ids = Head(new.todo) /\ new.at \notin Idle
      /\ \A j : In(j, new.runnable) => In(j, new.ids)
  BY <1>2, <1>4 DEF Idle, Batch
<1>7. /\ TaskInv' /\ Len(tasks') = Len(tasks)
      /\ \A u \in 1..Len(tasks) : tasks'[u] = IF u = t THEN new ELSE tasks[u]
  BY <1>4, <1>5, <1>6, OneTask
<1> QED BY <1>4, <1>7

-----------------------------------------------------------------------------
(* Who is set aside. *)

\* A job that stops its batch on its own.
Culprit(j) == kind[j] = "bad" \/ (kind[j] = "archived" /\ MaxRestoreFee = 0)

TickInv ==
    /\ TaskInv
    /\ kind \in [Jobs -> Kinds] /\ batch_size \in Nat \ {0} /\ level \in 0..TopLevel
    /\ due \subseteq Jobs /\ aside \in [Jobs -> Nat] /\ running \in BOOLEAN
    /\ ~ running => tasks = <<>>
    /\ OnlyCulpritsSetAside

\* The batches of a task that is at work.
LEMMA TaskTodo ==
  ASSUME TaskInv, NEW t \in 1..Len(tasks), tasks[t].at \notin Idle
  PROVE  /\ Batch(t) \in Groups(Jobs) /\ Later(t) \in Seq(Groups(Jobs))
         /\ tasks[t].bid \in 0..(TopLevel + 1)
         /\ tasks[t].at \in Sending => tasks[t].ids = Batch(t)
<1>1. tasks[t] \in Task /\ TaskSound(t)
  BY DEF TaskInv
<1>2. tasks[t].todo \in Seq(Groups(Jobs)) /\ tasks[t].todo # <<>> /\ tasks[t].bid \in 0..(TopLevel + 1)
  BY <1>1 DEF Task, TaskSound, Idle
<1> QED BY <1>1, <1>2, TodoParts DEF Batch, Later, TaskSound

\* A task exists only while a tick runs.
LEMMA TasksRun == ASSUME TickInv, NEW t \in 1..Len(tasks) PROVE running
<1>1. Len(<<>>) = 0 /\ 1..0 = {}
  OBVIOUS
<1> QED BY <1>1 DEF TickInv

\* A failed simulation.
LEMMA FailsStep ==
  ASSUME TickInv, NEW t \in 1..Len(tasks), tasks[t].at \notin Idle, NEW specific \in BOOLEAN,
         simulation_fails(t, specific), UNCHANGED <<fixed, running, due, level>>,
         specific /\ Len(Batch(t)) = 1 => Culprit(Batch(t)[1])
  PROVE  TickInv'
<1> DEFINE ids == Batch(t)
<1>1. ids \in Seq(Jobs) /\ ids # <<>> /\ Later(t) \in Seq(Groups(Jobs))
  BY TaskTodo DEF TickInv, Groups
<1>2. /\ kind' = kind /\ dry_run' = dry_run /\ batch_size' = batch_size /\ channels' = channels
      /\ level' \in 0..TopLevel /\ TaskInv
  BY DEF fixed, TickInv
<1>3. CASE specific /\ Len(ids) > 1
  <2> DEFINE todo == halves(ids) \o Later(t)
  <2>1. Continue(t, todo) /\ aside' = aside
    BY <1>3 DEF simulation_fails
  <2>2. halves(ids) \in Seq(Groups(Jobs))
    BY <1>1, <1>3, Halves
  <2>3. todo \in Seq(Groups(Jobs))
    BY <1>1, <2>2, TodoConcat
  <2> HIDE DEF todo
  <2>4. /\ TaskInv' /\ Len(tasks') = Len(tasks)
        /\ \A u \in 1..Len(tasks) : tasks'[u].todo = IF u = t THEN todo ELSE tasks[u].todo
    BY <1>2, <2>1, <2>3, ContinueTask
  <2> QED BY <1>2, <2>1, <2>4 DEF TickInv, OnlyCulpritsSetAside
<1>4. CASE ~ (specific /\ Len(ids) > 1)
  <2>1. /\ Continue(t, Later(t))
        /\ aside' = IF specific THEN [aside EXCEPT ![ids[1]] = QuarantineLength] ELSE aside
    BY <1>4 DEF simulation_fails
  <2>2. /\ TaskInv' /\ Len(tasks') = Len(tasks)
        /\ \A u \in 1..Len(tasks) : tasks'[u].todo = IF u = t THEN Later(t) ELSE tasks[u].todo
    BY <1>1, <1>2, <2>1, ContinueTask
  <2>3. Len(ids) \in Nat /\ Len(ids) >= 1 /\ ids[1] \in Jobs
    BY <1>1
  <2>4. specific => Len(ids) = 1 /\ Culprit(ids[1])
    <3> HIDE DEF ids
    <3>1. Len(ids) = 1 \/ Len(ids) > 1
      <4>1. ids \in Groups(Jobs)
        BY <1>1 DEF Groups
      <4> QED BY <4>1, GroupLen, Zenon
    <3>2. specific => Len(ids) = 1
      BY <1>4, <3>1, Zenon
    <3> QED BY <3>2 DEF ids
  <2>5. aside' \in [Jobs -> Nat]
    BY <2>1, <2>3, TickAssumption DEF TickInv
  <2>6. OnlyCulpritsSetAside'
    <3> SUFFICES ASSUME NEW j \in Jobs, aside'[j] > 0 PROVE Culprit(j)
      BY <1>2 DEF OnlyCulpritsSetAside, Culprit
    <3>1. aside[j] > 0 => Culprit(j)
      BY DEF TickInv, OnlyCulpritsSetAside, Culprit
    <3>2. aside'[j] = aside[j] \/ (specific /\ j = ids[1])
      BY <2>1, <2>3 DEF TickInv
    <3> QED BY <2>4, <3>1, <3>2
  <2> QED BY <1>2, <2>2, <2>5, <2>6 DEF TickInv
<1> QED BY <1>3, <1>4

\* The jobs of a batch that would run.
LEMMA RunnableParts ==
  ASSUME NEW ids \in Seq(Jobs)
  PROVE  /\ Runnable(ids) \in Seq(Jobs)
         /\ \A j : In(j, Runnable(ids)) <=>
                (j \in Jobs /\ kind[j] # "blocked" /\ j \notin gone /\ In(j, ids))
         /\ Different(ids) => Different(Runnable(ids))
<1> DEFINE wanted == {j \in Jobs : kind[j] # "blocked" /\ j \notin gone}
<1>1. Runnable(ids) = Filter(ids, wanted)
  BY DEF Runnable
<1> HIDE DEF wanted
<1>2. /\ Filter(ids, wanted) \in Seq(Jobs)
      /\ \A x : In(x, Filter(ids, wanted)) <=> (x \in wanted /\ In(x, ids))
      /\ Different(ids) => Different(Filter(ids, wanted))
  BY FilterParts
<1>3. Different(ids) => Different(Runnable(ids))
  BY <1>1, <1>2
<1> QED BY <1>1, <1>2, <1>3 DEF wanted

\* A simulation that succeeds.
LEMMA SucceedsStep ==
  ASSUME TickInv, NEW t \in 1..Len(tasks), tasks[t].at \notin Idle, simulation_succeeds(t),
         UNCHANGED <<fixed, running, due, level, aside>>
  PROVE  TickInv'
<1> DEFINE ids == Batch(t)
           runs == Runnable(ids)
<1>1. ids \in Seq(Jobs) /\ Later(t) \in Seq(Groups(Jobs))
  BY TaskTodo DEF TickInv, Groups
<1>2. /\ kind' = kind /\ dry_run' = dry_run /\ batch_size' = batch_size /\ channels' = channels
      /\ level' \in 0..TopLevel /\ TaskInv
  BY DEF fixed, TickInv
<1>3. runs \in Seq(Jobs) /\ \A j : In(j, runs) => In(j, ids)
  <2> HIDE DEF ids
  <2> QED BY <1>1, RunnableParts
<1>4. \/ Continue(t, Later(t))
      \/ Len(runs) > 1 /\ Continue(t, halves(runs) \o Later(t))
      \/ /\ tasks' = [tasks EXCEPT ![t].at = "send", ![t].ids = Batch(t), ![t].runnable = runs]
         /\ UNCHANGED pool
  BY DEF simulation_succeeds
<1> HIDE DEF runs
<1>5. TaskInv'
  <2>1. CASE Continue(t, Later(t))
    BY <1>1, <1>2, <2>1, ContinueTask
  <2>2. CASE Len(runs) > 1 /\ Continue(t, halves(runs) \o Later(t))
    <3>1. halves(runs) \in Seq(Groups(Jobs))
      BY <1>3, <2>2, Halves
    <3>2. halves(runs) \o Later(t) \in Seq(Groups(Jobs))
      BY <1>1, <3>1, TodoConcat
    <3> QED BY <1>2, <2>2, <3>2, ContinueTask
  <2>3. CASE /\ tasks' = [tasks EXCEPT ![t].at = "send", ![t].ids = Batch(t), ![t].runnable = runs]
             /\ UNCHANGED pool
    BY <1>2, <1>3, <2>3, SendTask
  <2> QED BY <1>4, <2>1, <2>2, <2>3
<1>6. running
  BY TasksRun
<1> QED BY <1>2, <1>5, <1>6 DEF TickInv, OnlyCulpritsSetAside

\* Whoever is blamed alone is a culprit.
LEMMA Blamed ==
  ASSUME NEW ids \in Seq(Jobs), Len(ids) = 1,
         Spoils(ids) \/ Cardinality(Archived(ids)) > MaxRestoreFee
  PROVE  Culprit(ids[1])
<1>1. ToSet(ids) = {ids[1]}
  <2>1. DOMAIN ids = {1}
    OBVIOUS
  <2> QED BY <2>1 DEF ToSet
<1>2. CASE Spoils(ids)
  BY <1>1, <1>2 DEF Spoils, Culprit
<1>3. CASE Cardinality(Archived(ids)) > MaxRestoreFee
  <2>1. MaxRestoreFee \in Nat
    BY TickAssumption
  <2>2. CASE Archived(ids) = {}
    <3>1. Cardinality(Archived(ids)) = 0
      BY <2>2, FS_EmptySet
    <3> QED BY <1>3, <2>1, <3>1
  <2>3. CASE Archived(ids) # {}
    <3>1. Archived(ids) = {ids[1]} /\ kind[ids[1]] = "archived"
      BY <1>1, <2>3 DEF Archived
    <3>2. Cardinality(Archived(ids)) = 1
      BY <3>1, FS_Singleton
    <3> QED BY <1>3, <2>1, <3>1, <3>2 DEF Culprit
  <2> QED BY <2>2, <2>3
<1> QED BY <1>2, <1>3

\* A task awaits something else.
LEMMA AwaitStep ==
  ASSUME TickInv, NEW t \in 1..Len(tasks), tasks[t].at \notin Idle,
         NEW stage \in Stages \ Idle, stage \in Sending => tasks[t].at \in Sending,
         Await(t, stage), UNCHANGED <<fixed, running, due, level, aside>>
  PROVE  TickInv'
<1>1. /\ kind' = kind /\ dry_run' = dry_run /\ batch_size' = batch_size /\ channels' = channels
  BY DEF fixed
<1>2. /\ TaskInv' /\ Len(tasks') = Len(tasks)
      /\ \A u \in 1..Len(tasks) : tasks'[u].todo = tasks[u].todo
  BY <1>1, AwaitTask DEF TickInv
<1> QED BY <1>1, <1>2, TasksRun DEF TickInv, OnlyCulpritsSetAside

\* Simulating a batch, before and after restoring archived state.
LEMMA PrepareStep ==
  ASSUME TickInv, NEW t \in 1..Len(tasks), prepare(t)
  PROVE  TickInv'
<1> DEFINE ids == Batch(t)
<1>1. tasks[t].at \notin Idle
  BY DEF prepare, Idle
<1>2. ids \in Seq(Jobs)
  BY <1>1, TaskTodo DEF TickInv, Groups
<1>3. UNCHANGED <<fixed, running, due, gone, level, trouble>>
  BY DEF prepare
<1>4. \/ (Spoils(ids) \/ Cardinality(Archived(ids)) > MaxRestoreFee) /\ simulation_fails(t, TRUE)
      \/ simulation_succeeds(t) /\ UNCHANGED aside
      \/ dry_run /\ simulation_fails(t, FALSE)
      \/ Await(t, "restore") /\ UNCHANGED aside
  BY DEF prepare
<1> HIDE DEF ids
<1>5. CASE (Spoils(ids) \/ Cardinality(Archived(ids)) > MaxRestoreFee) /\ simulation_fails(t, TRUE)
  <2>1. Len(ids) = 1 => Culprit(ids[1])
    BY <1>2, <1>5, Blamed
  <2> QED BY <1>1, <1>3, <1>5, <2>1, FailsStep DEF ids
<1>6. CASE simulation_succeeds(t) /\ UNCHANGED aside
  BY <1>1, <1>3, <1>6, SucceedsStep
<1>7. CASE dry_run /\ simulation_fails(t, FALSE)
  BY <1>1, <1>3, <1>7, FailsStep
<1>8. CASE Await(t, "restore") /\ UNCHANGED aside
  <2>1. "restore" \in Stages \ Idle /\ "restore" \notin Sending
    BY DEF Stages, Idle, Sending
  <2> QED BY <1>1, <1>3, <1>8, <2>1, AwaitStep
<1> QED BY <1>4, <1>5, <1>6, <1>7, <1>8

\* A transaction that is sent, or fails for a reason of its own.
LEMMA SendStep ==
  ASSUME TickInv, NEW t \in 1..Len(tasks),
         send(t) \/ \E ran, fee_related \in BOOLEAN : send_fails(t, ran, fee_related)
  PROVE  TickInv'
<1>1. /\ tasks[t].at \in Sending /\ Continue(t, Later(t)) /\ UNCHANGED <<fixed, running, due, aside>>
  BY DEF send, send_fails, Sending
<1>2. level' \in 0..TopLevel
  <2>1. TopLevel \in Nat /\ level \in 0..TopLevel
    BY TickAssumption DEF TickInv
  <2>2. escalate \in 0..TopLevel
    BY <2>1 DEF escalate
  <2> QED BY <2>1, <2>2 DEF send, send_fails
<1>3. tasks[t].at \notin Idle
  BY <1>1 DEF Sending, Idle
<1>4. /\ Batch(t) \in Seq(Jobs) /\ Later(t) \in Seq(Groups(Jobs)) /\ tasks[t].ids = Batch(t)
  BY <1>1, <1>3, TaskTodo DEF TickInv, Groups
<1>5. /\ kind' = kind /\ dry_run' = dry_run /\ batch_size' = batch_size /\ channels' = channels
      /\ TaskInv
  BY <1>1 DEF fixed, TickInv
<1>6. /\ TaskInv' /\ Len(tasks') = Len(tasks)
      /\ \A u \in 1..Len(tasks) : tasks'[u].todo = IF u = t THEN Later(t) ELSE tasks[u].todo
  BY <1>1, <1>2, <1>3, <1>4, <1>5, ContinueTask
<1> QED BY <1>1, <1>2, <1>5, <1>6, TasksRun DEF TickInv, OnlyCulpritsSetAside

\* Between ticks every channel is free and nobody waits.
LEMMA AllFree ==
  ASSUME TaskInv, tasks = <<>>
  PROVE  waiting = <<>> /\ \A c \in 1..channels : In(c, free)
<1>1. Len(tasks) = 0 /\ 1..0 = {}
  OBVIOUS
<1>2. waiting \in Seq({})
  BY <1>1 DEF TaskInv
<1>3. waiting = <<>>
  BY <1>2
<1> QED BY <1>1, <1>3 DEF TaskInv

\* How many of B tasks get one of F channels.
Served(B, F) == IF B < F THEN B ELSE F

\* Tasks wait only when no channel is left.
LEMMA ServedNumbers ==
  ASSUME NEW B \in Nat, NEW F \in Nat, NEW served, served = Served(B, F)
  PROVE  /\ served \in Nat /\ served <= B /\ served <= F /\ F - served \in 0..F
         /\ B - served \in 0..B
         /\ B - served # 0 => F - served = 0
  BY DEF Served

\* The channels that stay free are the first ones.
LEMMA FirstOnes ==
  ASSUME NEW C, NEW s \in Seq(C), Different(s), NEW left \in 0..Len(s)
  PROVE  /\ SubSeq(s, 1, left) \in Seq(C) /\ Len(SubSeq(s, 1, left)) = left
         /\ Different(SubSeq(s, 1, left))
         /\ \A k \in 1..Len(s) : In(s[k], SubSeq(s, 1, left)) <=> k <= left
<1> DEFINE u == SubSeq(s, 1, left)
<1>1. Len(s) \in Nat
  OBVIOUS
<1>2. u \in Seq(C) /\ Len(u) = left /\ \A i \in 1..left : u[i] = s[i]
  BY <1>1
<1>3. 1..left \subseteq 1..Len(s) /\ \A k \in 1..Len(s) : k <= left <=> k \in 1..left
  BY <1>1
<1> HIDE DEF u
<1>4. \A i, k \in 1..Len(s) : s[i] = s[k] => i = k
  BY DEF Different
<1>5. Different(u)
  BY <1>2, <1>3, <1>4, Zenon DEF Different
<1>6. \A k \in 1..Len(s) : In(s[k], u) <=> k \in 1..left
  BY <1>2, <1>3, <1>4 DEF In
<1> QED BY <1>2, <1>3, <1>5, <1>6 DEF u

\* The tasks that wait are the last ones.
LEMMA LastOnes ==
  ASSUME NEW B \in Nat, NEW served \in Nat, served <= B
  PROVE  LET line == [n \in 1..(B - served) |-> served + n]
         IN  /\ line \in Seq(1..B) /\ Len(line) = B - served /\ Different(line)
             /\ \A b \in 1..B : In(b, line) <=> ~ (b <= served)
<1> DEFINE count == B - served
           line == [n \in 1..count |-> served + n]
<1>1. count \in Nat /\ \A n \in 1..count : served + n \in 1..B
  OBVIOUS
<1>2. line \in Seq(1..B) /\ Len(line) = count /\ \A n \in 1..count : line[n] = served + n
  <2> HIDE DEF count
  <2> QED BY <1>1
<1>3. \A m, n \in 1..count : served + m = served + n => m = n
  BY <1>1
<1>4. \A n \in 1..count : ~ (served + n <= served)
  BY <1>1
<1>5. \A b \in 1..B : ~ (b <= served) => b - served \in 1..count /\ served + (b - served) = b
  OBVIOUS
<1> HIDE DEF line, count
<1>6. Different(line)
  BY <1>2, <1>3 DEF Different
<1>7. \A b \in 1..B : In(b, line) <=> ~ (b <= served)
  BY <1>2, <1>4, <1>5 DEF In
<1> QED BY <1>2, <1>6, <1>7 DEF line, count

\* The free channels, all of C, are dealt to B tasks from the end of the list.
Dealt(C, none, old, B, served, held, rest) ==
    /\ none \notin C /\ old \in Seq(C) /\ Different(old) /\ \A c \in C : In(c, old)
    /\ B \in Nat /\ served = Served(B, Len(old))
    /\ \A b \in 1..B : held[b] = IF b <= served THEN old[Len(old) + 1 - b] ELSE none
    /\ rest = SubSeq(old, 1, Len(old) - served)

\* Each channel is kept or goes to one task.
LEMMA Dealing ==
  ASSUME NEW C, NEW none, NEW old, NEW B, NEW served, NEW held, NEW rest,
         Dealt(C, none, old, B, served, held, rest)
  PROVE  /\ \A b \in 1..B : b <= served => held[b] \in C
         /\ \A c \in C : In(c, rest) <=> \A b \in 1..B : held[b] # c
         /\ \A b, d \in 1..B : held[b] = held[d] /\ held[b] # none => b = d
<1> DEFINE F == Len(old)
           left == F - served
<1>1. /\ F \in Nat /\ B \in Nat /\ none \notin C /\ \A i \in 1..F : old[i] \in C
      /\ \A i, k \in 1..F : old[i] = old[k] => i = k
  BY DEF Dealt, Different
<1>2. /\ left \in 0..F
      /\ \A b \in 1..B : b <= served => F + 1 - b \in 1..F /\ ~ (F + 1 - b <= left)
      /\ \A k \in 1..F : ~ (k <= left) =>
            F + 1 - k \in 1..B /\ F + 1 - k <= served /\ F + 1 - (F + 1 - k) = k
      /\ \A b, d \in 1..B : F + 1 - b = F + 1 - d => b = d
  <2>1. F \in Nat /\ B \in Nat /\ served = Served(B, F)
    BY <1>1 DEF Dealt
  <2> HIDE DEF F
  <2>2. /\ F - served \in 0..F
        /\ \A b \in 1..B : b <= served => F + 1 - b \in 1..F /\ ~ (F + 1 - b <= F - served)
        /\ \A k \in 1..F : ~ (k <= F - served) =>
              F + 1 - k \in 1..B /\ F + 1 - k <= served /\ F + 1 - (F + 1 - k) = k
        /\ \A b, d \in 1..B : F + 1 - b = F + 1 - d => b = d
    BY <2>1 DEF Served
  <2> QED BY <2>2, Zenon DEF left
<1>3. \A k \in 1..F : In(old[k], rest) <=> k <= left
  <2>1. rest = SubSeq(old, 1, left) /\ old \in Seq(C) /\ Different(old)
    BY DEF Dealt
  <2>2. left \in 0..Len(old)
    BY <1>2
  <2> HIDE DEF left
  <2>3. \A k \in 1..Len(old) : In(old[k], SubSeq(old, 1, left)) <=> k <= left
    BY <2>1, <2>2, FirstOnes
  <2> QED BY <2>1, <2>3
<1>4. \A b \in 1..B : held[b] = IF b <= served THEN old[F + 1 - b] ELSE none
  BY DEF Dealt
<1>8. \A c \in C : \E k \in 1..F : old[k] = c
  BY DEF Dealt, In
<1> HIDE DEF F, left
<1>5. \A b \in 1..B : b <= served => held[b] \in C
  BY <1>1, <1>2, <1>4
<1>6. ASSUME NEW c \in C PROVE In(c, rest) <=> \A b \in 1..B : held[b] # c
  <2>1. PICK k \in 1..F : old[k] = c
    BY <1>8
  <2>2. ASSUME k <= left, NEW b \in 1..B, held[b] = c PROVE FALSE
    <3>1. b <= served
      BY <1>1, <1>4, <2>2
    <3>2. F + 1 - b \in 1..F /\ ~ (F + 1 - b <= left) /\ old[F + 1 - b] = c
      BY <1>2, <1>4, <2>2, <3>1
    <3>3. F + 1 - b = k
      BY <1>1, <2>1, <3>2
    <3> QED BY <2>2, <3>2, <3>3
  <2>3. ASSUME ~ (k <= left) PROVE \E b \in 1..B : held[b] = c
    <3>1. F + 1 - k \in 1..B /\ F + 1 - k <= served /\ F + 1 - (F + 1 - k) = k
      BY <1>2, <2>3
    <3>2. held[F + 1 - k] = c
      BY <1>4, <2>1, <3>1
    <3> QED BY <3>1, <3>2
  <2>4. In(c, rest) <=> k <= left
    BY <1>3, <2>1
  <2> QED BY <2>2, <2>3, <2>4
<1>7. ASSUME NEW b \in 1..B, NEW d \in 1..B, held[b] = held[d], held[b] # none PROVE b = d
  <2>1. b <= served /\ d <= served
    BY <1>4, <1>7
  <2>2. F + 1 - b \in 1..F /\ F + 1 - d \in 1..F /\ old[F + 1 - b] = old[F + 1 - d]
    BY <1>2, <1>4, <1>7, <2>1
  <2>3. F + 1 - b = F + 1 - d
    BY <1>1, <2>2
  <2> QED BY <1>2, <2>3
<1> QED BY <1>5, <1>6, <1>7

\* What a new task is.
LEMMA StartedType ==
  ASSUME NEW batch \in Groups(Jobs), NEW channel \in (1..channels) \cup {None}, NEW at \in Stages,
         NEW bid \in 0..(TopLevel + 1)
  PROVE  [todo |-> <<batch>>, at |-> at, channel |-> channel, bid |-> bid,
          ids |-> <<>>, runnable |-> <<>>] \in Task
<1> DEFINE todo == <<batch>>
           none == <<>>
<1>1. todo \in Seq(Groups(Jobs)) /\ none \in Seq(Jobs)
  OBVIOUS
<1> HIDE DEF todo, none
<1>2. [todo |-> todo, at |-> at, channel |-> channel, bid |-> bid,
       ids |-> none, runnable |-> none] \in Task
  BY <1>1 DEF Task
<1> QED BY <1>2 DEF todo, none

\* A list given by its elements.
LEMMA ListOf ==
  ASSUME NEW X, NEW n \in Nat, NEW s, s = [i \in 1..n |-> s[i]], \A i \in 1..n : s[i] \in X
  PROVE  s \in Seq(X) /\ Len(s) = n
  OBVIOUS

Started(batches, served) ==
    /\ tasks' = [b \in 1..Len(batches) |->
          [todo |-> <<batches[b]>>,
           at |-> IF b <= served THEN "prepare" ELSE "acquire",
           channel |-> IF b <= served THEN free[Len(free) + 1 - b] ELSE None,
           bid |-> IF b <= served THEN current(level) ELSE 0,
           ids |-> <<>>, runnable |-> <<>>]]
    /\ free' = SubSeq(free, 1, Len(free) - served)
    /\ waiting' = [n \in 1..(Len(batches) - served) |-> served + n]

\* A tick starts: the first tasks take the free channels from the end of the list,
\* the others wait.
LEMMA StartTasks ==
  ASSUME TaskInv, tasks = <<>>, level \in 0..TopLevel, UNCHANGED channels,
         NEW batches \in Seq(Groups(Jobs)), NEW served,
         served = Served(Len(batches), Len(free)), Started(batches, served)
  PROVE  TaskInv' /\ Len(tasks') = Len(batches)
         /\ \A b \in 1..Len(batches) : tasks'[b].todo = <<batches[b]>>
<1> DEFINE B == Len(batches)
           F == Len(free)
           left == F - served
           C == 1..channels
           held == [b \in 1..B |-> IF b <= served THEN free[F + 1 - b] ELSE None]
           at(b) == IF b <= served THEN "prepare" ELSE "acquire"
           bid(b) == IF b <= served THEN current(level) ELSE 0
           started(b) == [todo |-> <<batches[b]>>, at |-> at(b), channel |-> held[b],
                          bid |-> bid(b), ids |-> <<>>, runnable |-> <<>>]
<1>1. B \in Nat /\ \A b \in 1..B : batches[b] \in Groups(Jobs)
  OBVIOUS
<1>2. free \in Seq(C) /\ Different(free) /\ F \in Nat
  BY DEF TaskInv
<1>3. None \notin C /\ channels \in Nat \ {0}
  BY TickAssumption DEF TaskInv
<1>4. \A c \in C : In(c, free)
  BY AllFree
<1>5. /\ tasks' = [b \in 1..B |-> started(b)]
      /\ free' = SubSeq(free, 1, left)
      /\ waiting' = [n \in 1..(B - served) |-> served + n]
      /\ served = Served(B, F)
  BY DEF Started
<1>6. /\ \A b \in 1..B : at(b) \in Stages /\ (at(b) = "prepare" <=> b <= served)
                          /\ (at(b) = "acquire" <=> ~ (b <= served)) /\ at(b) # "done"
                          /\ at(b) \notin Sending
      /\ \A b \in 1..B : ~ (b <= served) => held[b] = None
  BY DEF Stages, Idle, Sending
<1>7. \A b \in 1..B : bid(b) \in 0..(TopLevel + 1)
  <2>1. current(level) \in 0..(TopLevel + 1) /\ 0 \in 0..(TopLevel + 1)
    BY BidType, TickAssumption
  <2> QED BY <2>1
<1>8. \A b \in 1..B : /\ started(b).todo = <<batches[b]>> /\ started(b).todo # <<>>
                      /\ started(b).at = at(b) /\ started(b).channel = held[b]
  OBVIOUS
<1>9. \A b \in 1..B : held[b] = IF b <= served THEN free[Len(free) + 1 - b] ELSE None
  OBVIOUS
<1>10. served \in Nat /\ served <= B /\ left \in 0..F /\ B - served \in 0..B
       /\ (B - served # 0 => left = 0)
  <2> HIDE DEF B, F
  <2> QED BY <1>1, <1>2, <1>5, ServedNumbers
<1> HIDE DEF at, bid, held, C
<1>11. /\ \A b \in 1..B : b <= served => held[b] \in C
       /\ \A c \in C : In(c, free') <=> \A b \in 1..B : held[b] # c
       /\ \A b, d \in 1..B : held[b] = held[d] /\ held[b] # None => b = d
  <2>1. served = Served(B, Len(free))
    BY <1>5
  <2> HIDE DEF B, F, left, started
  <2>2. free' = SubSeq(free, 1, Len(free) - served)
    BY <1>5 DEF left, F
  <2> DEFINE rest == free'
  <2> HIDE DEF rest
  <2>3. rest = SubSeq(free, 1, Len(free) - served)
    BY <2>2 DEF rest
  <2>4. /\ \A b \in 1..B : b <= served => held[b] \in C
        /\ \A c \in C : In(c, rest) <=> \A b \in 1..B : held[b] # c
        /\ \A b, d \in 1..B : held[b] = held[d] /\ held[b] # None => b = d
    <3>1. Dealt(C, None, free, B, served, held, rest)
      BY <1>1, <1>2, <1>3, <1>4, <1>9, <2>1, <2>3 DEF Dealt
    <3> QED BY <3>1, Dealing
  <2> QED BY <2>4 DEF rest
<1>13. ASSUME NEW b \in 1..B PROVE started(b) \in Task
  <2>1. held[b] \in (1..channels) \cup {None}
    BY <1>6, <1>11 DEF C
  <2> HIDE DEF B
  <2> QED BY <1>1, <1>6, <1>7, <2>1, StartedType
<1> HIDE DEF started, B, F
<1>14. /\ tasks' \in Seq(Task) /\ Len(tasks') = B /\ \A b \in 1..B : tasks'[b] = started(b)
  <2>1. \A b \in 1..B : tasks'[b] = started(b)
    BY <1>5
  <2>2. tasks' = [b \in 1..B |-> tasks'[b]]
    BY <1>5
  <2> DEFINE new == tasks'
  <2>3. \A b \in 1..B : new[b] \in Task
    BY <1>13, <2>1
  <2>4. new = [b \in 1..B |-> new[b]]
    BY <2>2
  <2> HIDE DEF new
  <2>5. new \in Seq(Task) /\ Len(new) = B
    BY <1>1, <2>3, <2>4, ListOf
  <2> QED BY <2>1, <2>5 DEF new
<1> HIDE DEF left
<1>15. /\ free' \in Seq(C) /\ Len(free') = left /\ Different(free')
  BY <1>2, <1>5, <1>10, FirstOnes DEF F
<1>16. /\ waiting' \in Seq(1..B) /\ Len(waiting') = B - served /\ Different(waiting')
       /\ \A b \in 1..B : In(b, waiting') <=> ~ (b <= served)
  <2>1. LET line == [n \in 1..(B - served) |-> served + n]
        IN  /\ line \in Seq(1..B) /\ Len(line) = B - served /\ Different(line)
            /\ \A b \in 1..B : In(b, line) <=> ~ (b <= served)
    BY <1>1, <1>10, LastOnes
  <2> QED BY <1>5, <2>1
<1>17. waiting' # <<>> => free' = <<>>
  <2> SUFFICES ASSUME waiting' # <<>> PROVE free' = <<>>
    OBVIOUS
  <2>1. Len(waiting') # 0
    BY <1>16
  <2>2. left = 0
    BY <1>10, <1>16, <2>1
  <2> QED BY <1>15, <2>2
<1>18. ASSUME NEW b \in 1..B PROVE TaskSound(b)'
  <2>1. tasks'[b] = started(b) /\ (In(b, waiting') <=> ~ (b <= served))
    BY <1>14, <1>16
  <2>2. b <= served => held[b] # None
    BY <1>3, <1>11
  <2>3. (tasks'[b].todo = <<>>) <=> (tasks'[b].at = "done")
    BY <1>6, <1>8, <2>1
  <2>4. (tasks'[b].channel = None) <=> (tasks'[b].at \in Idle)
    BY <1>6, <1>8, <2>1, <2>2 DEF Idle
  <2>5. (tasks'[b].at = "acquire") <=> In(b, waiting')
    BY <1>6, <1>8, <2>1
  <2>6. tasks'[b].at \notin Sending
    BY <1>6, <1>8, <2>1
  <2> QED BY <2>3, <2>4, <2>5, <2>6 DEF TaskSound
<1>19. \A b \in 1..B : tasks'[b].channel = held[b]
  BY <1>8, <1>14
<1>20. \A c \in 1..channels' : In(c, free') <=> \A b \in 1..Len(tasks') : tasks'[b].channel # c
  <2>1. \A c \in C : In(c, free') <=> \A b \in 1..B : tasks'[b].channel # c
    BY <1>11, <1>19
  <2>2. C = 1..channels' /\ Len(tasks') = B
    BY <1>14 DEF C
  <2> QED BY <2>1, <2>2, Zenon
<1>21. \A b, d \in 1..Len(tasks') :
          tasks'[b].channel = tasks'[d].channel /\ tasks'[b].channel # None => b = d
  <2>1. \A b, d \in 1..B :
           tasks'[b].channel = tasks'[d].channel /\ tasks'[b].channel # None => b = d
    BY <1>11, <1>19
  <2> QED BY <1>14, <2>1, Zenon
<1>22. Task' = Task /\ channels' \in Nat \ {0}
  BY <1>3 DEF Task
<1>23. TaskInv'
  BY <1>14, <1>15, <1>16, <1>17, <1>18, <1>20, <1>21, <1>22 DEF TaskInv, C
<1> QED BY <1>8, <1>14, <1>23 DEF B

\* A tick starts: whoever sits out any longer was set aside before.
LEMMA StartStep ==
  ASSUME TickInv, NEW all_due \in SUBSET Jobs, tick(all_due)
  PROVE  TickInv'
<1> DEFINE sits_out == {j \in all_due : quarantine_next[j] > 0}
           jobs == Filter(JobList, all_due \ sits_out)
           batches == Batches(jobs)
           served == IF Len(batches) < Len(free) THEN Len(batches) ELSE Len(free)
<1>1. tasks = <<>> /\ TaskInv /\ level \in 0..TopLevel
  BY DEF tick, TickInv
<1>2. UNCHANGED <<fixed, level>> /\ due' = all_due /\ aside' = quarantine_next /\ running' = TRUE
  BY DEF tick
<1>3. /\ kind' = kind /\ dry_run' = dry_run /\ batch_size' = batch_size /\ channels' = channels
  BY <1>2 DEF fixed
<1>4. /\ quarantine_next \in [Jobs -> Nat]
      /\ \A j \in Jobs : quarantine_next[j] > 0 => Culprit(j)
  <2>1. aside \in [Jobs -> Nat] /\ \A j \in Jobs : aside[j] > 0 => Culprit(j)
    BY DEF TickInv, OnlyCulpritsSetAside, Culprit
  <2> QED BY <2>1 DEF quarantine_next
<1>5. JobList \in Seq(Jobs) /\ \A j \in Jobs : In(j, JobList)
  <2>1. JobList \in Seq(Jobs)
    BY TickAssumption
  <2> QED BY <2>1, ToSetIn DEF Jobs
<1>6. jobs \in Seq(Jobs)
      /\ \A j : In(j, jobs) <=> (j \in all_due \ sits_out /\ In(j, JobList))
  <2> HIDE DEF sits_out
  <2> QED BY <1>5, FilterParts
<1> HIDE DEF jobs
<1>7. batches \in Seq(Groups(Jobs)) /\ \A j : In(j, jobs) => InTodo(j, batches)
  BY <1>6, ChunksCover DEF TickInv, Batches
<1> HIDE DEF batches
<1>8. served = Served(Len(batches), Len(free))
  BY DEF Served
<1>9. Started(batches, served)
  BY DEF tick, batches, jobs, Started
<1> HIDE DEF served
<1>10. TaskInv' /\ Len(tasks') = Len(batches)
       /\ \A b \in 1..Len(batches) : tasks'[b].todo = <<batches[b]>>
  BY <1>1, <1>3, <1>7, <1>8, <1>9, StartTasks
<1>11. OnlyCulpritsSetAside'
  BY <1>2, <1>3, <1>4 DEF OnlyCulpritsSetAside, Culprit
<1> QED BY <1>1, <1>2, <1>3, <1>4, <1>10, <1>11 DEF TickInv

\* Every task is done: nothing is left to do and every channel is free again.
LEMMA EndStep ==
  ASSUME TickInv, tick_ends
  PROVE  TickInv'
<1>1. /\ UNCHANGED <<fixed, due, pool, gone, level, aside, trouble>> /\ tasks' = <<>>
      /\ running' = FALSE /\ \A t \in 1..Len(tasks) : tasks[t].at = "done"
  BY DEF tick_ends
<1>2. /\ kind' = kind /\ dry_run' = dry_run /\ batch_size' = batch_size /\ channels' = channels
      /\ free' = free /\ waiting' = waiting
  BY <1>1 DEF fixed, pool
<1>3. TaskInv /\ \A t \in 1..Len(tasks) : TaskSound(t)
  BY DEF TickInv, TaskInv
<1>4. \A t \in 1..Len(tasks) :
         tasks[t].todo = <<>> /\ tasks[t].channel = None /\ ~ In(t, waiting)
  BY <1>1, <1>3 DEF TaskSound, Idle
<1>5. waiting = <<>>
  <2>1. waiting \in Seq(1..Len(tasks))
    BY <1>3 DEF TaskInv
  <2>2. waiting # <<>> => 1 \in 1..Len(waiting) /\ waiting[1] \in 1..Len(tasks)
    BY <2>1
  <2> QED BY <1>4, <2>2 DEF In
<1>6. \A c \in 1..channels : In(c, free)
  <2>1. \A c \in 1..channels : c # None
    BY <1>3, TickAssumption DEF TaskInv
  <2> QED BY <1>3, <1>4, <2>1 DEF TaskInv
<1>7. Len(tasks') = 0 /\ 1..0 = {}
  BY <1>1
<1>8. TaskInv'
  <2>1. channels' \in Nat \ {0} /\ free' \in Seq(1..channels') /\ Different(free')
    BY <1>2, <1>3 DEF TaskInv, Different
  <2>2. tasks' \in Seq(Task') /\ waiting' \in Seq(1..Len(tasks')) /\ waiting' = <<>>
    BY <1>1, <1>2, <1>5
  <2>3. Different(waiting')
    BY <2>2 DEF Different
  <2>4. \A c \in 1..channels' : In(c, free')
    BY <1>2, <1>6 DEF In
  <2> QED BY <1>7, <2>1, <2>2, <2>3, <2>4 DEF TaskInv
<1> QED BY <1>1, <1>2, <1>8 DEF TickInv, OnlyCulpritsSetAside

\* Before the first tick.
LEMMA TickStarts == Init => TickInv
<1> SUFFICES ASSUME Init PROVE TickInv
  OBVIOUS
<1>1. PICK s \in Setups : /\ batch_size = s.batch_size /\ channels = s.channels
                           /\ dry_run = s.dry_run /\ kind \in [Jobs -> s.kinds]
  BY DEF Init
<1>2. /\ batch_size \in Nat \ {0} /\ channels \in Nat \ {0} /\ kind \in [Jobs -> Kinds]
      /\ TopLevel \in Nat /\ None \notin Nat
  BY <1>1, TickAssumption
<1>3. /\ running = FALSE /\ due = {} /\ tasks = <<>> /\ waiting = <<>>
      /\ free = [c \in 1..channels |-> c] /\ aside = [j \in Jobs |-> 0] /\ level = 0
  BY DEF Init
<1>4. Len(tasks) = 0 /\ 1..0 = {} /\ Len(waiting) = 0
  BY <1>3
<1>5. free \in Seq(1..channels) /\ Len(free) = channels /\ \A c \in 1..channels : free[c] = c
  BY <1>2, <1>3
<1>6. Different(free) /\ Different(waiting) /\ \A c \in 1..channels : In(c, free)
  BY <1>4, <1>5 DEF Different, In
<1>7. tasks \in Seq(Task) /\ waiting \in Seq(1..Len(tasks))
  BY <1>3
<1>8. TaskInv
  BY <1>2, <1>3, <1>4, <1>5, <1>6, <1>7 DEF TaskInv
<1>9. OnlyCulpritsSetAside /\ aside \in [Jobs -> Nat]
  BY <1>3 DEF OnlyCulpritsSetAside
<1>10. (~ running => tasks = <<>>) /\ running \in BOOLEAN /\ due \subseteq Jobs
  BY <1>3
<1>11. level \in 0..TopLevel
  BY <1>2, <1>3
<1> QED BY <1>2, <1>8, <1>9, <1>10, <1>11 DEF TickInv

\* A step that leaves tasks and channels alone.
LEMMA TasksSame ==
  ASSUME TaskInv, UNCHANGED <<tasks, free, waiting, channels>>
  PROVE  TaskInv'
<1>1. tasks' = tasks /\ free' = free /\ waiting' = waiting /\ channels' = channels
  OBVIOUS
<1>2. Task' = Task
  BY <1>1 DEF Task
<1>3. \A t : TaskSound(t)' <=> TaskSound(t)
  BY <1>1 DEF TaskSound, In
<1> QED BY <1>1, <1>2, <1>3 DEF TaskInv, Different, In

\* Another keeper runs a job.
LEMMA RivalStep ==
  ASSUME TickInv, NEW j \in Jobs, Rival(j)
  PROVE  TickInv'
<1>1. UNCHANGED <<fixed, running, due, tasks, pool, aside, level>>
  BY DEF Rival
<1>2. /\ kind' = kind /\ dry_run' = dry_run /\ batch_size' = batch_size /\ channels' = channels
      /\ free' = free /\ waiting' = waiting /\ tasks' = tasks
  BY <1>1 DEF fixed, pool
<1>3. TaskInv'
  BY <1>2, TasksSame DEF TickInv
<1> QED BY <1>1, <1>2, <1>3 DEF TickInv, OnlyCulpritsSetAside

\* Every step of a task.
LEMMA TaskStep ==
  ASSUME TickInv, NEW t \in 1..Len(tasks), Step(t)
  PROVE  TickInv'
<1>1. CASE prepare(t)
  BY <1>1, PrepareStep
<1>2. CASE prepare_fails(t)
  <2>1. /\ tasks[t].at \notin Idle /\ simulation_fails(t, FALSE) /\ trouble'
        /\ UNCHANGED <<fixed, running, due, gone, level>>
    BY <1>2 DEF prepare_fails, Idle
  <2> QED BY <2>1, FailsStep
<1>3. CASE restore(t)
  <2>1. /\ tasks[t].at \notin Idle /\ Await(t, "again")
        /\ UNCHANGED <<fixed, running, due, gone, level, aside, trouble>>
    BY <1>3 DEF restore, Idle
  <2>2. "again" \in Stages \ Idle /\ "again" \notin Sending
    BY DEF Stages, Idle, Sending
  <2> QED BY <2>1, <2>2, AwaitStep
<1>4. CASE send(t) \/ \E ran, fee_related \in BOOLEAN : send_fails(t, ran, fee_related)
  BY <1>4, SendStep
<1>5. CASE sequence_error(t)
  <2>1. /\ tasks[t].at \notin Idle /\ tasks[t].at \in Sending /\ Await(t, "retry")
        /\ UNCHANGED <<fixed, running, due, gone, level, aside, trouble>>
    BY <1>5 DEF sequence_error, Idle, Sending
  <2>2. "retry" \in Stages \ Idle
    BY DEF Stages, Idle, Sending
  <2> QED BY <2>1, <2>2, AwaitStep
<1>6. CASE resimulate(t)
  <2>1. /\ tasks[t].at \notin Idle /\ tasks[t].at \in Sending /\ Await(t, "resend")
        /\ UNCHANGED <<fixed, running, due, gone, level, aside, trouble>>
    BY <1>6 DEF resimulate, Idle, Sending
  <2>2. "resend" \in Stages \ Idle
    BY DEF Stages, Idle, Sending
  <2> QED BY <2>1, <2>2, AwaitStep
<1> QED BY <1>1, <1>2, <1>3, <1>4, <1>5, <1>6 DEF Step

\* The inductive invariant of the tick.
LEMMA TickInvariant == Spec => []TickInv
<1>1. Init => TickInv
  BY TickStarts
<1>2. TickInv /\ [Next]_vars => TickInv'
  <2> SUFFICES ASSUME TickInv, [Next]_vars PROVE TickInv'
    OBVIOUS
  <2>1. ASSUME NEW all_due \in SUBSET Jobs, tick(all_due) PROVE TickInv'
    BY <2>1, StartStep
  <2>2. ASSUME NEW t \in 1..Len(tasks), Step(t) PROVE TickInv'
    BY <2>2, TaskStep
  <2>3. CASE tick_ends
    BY <2>3, EndStep
  <2>4. ASSUME NEW j \in Jobs, Rival(j) PROVE TickInv'
    BY <2>4, RivalStep
  <2>5. CASE UNCHANGED vars
    <3>1. /\ kind' = kind /\ dry_run' = dry_run /\ batch_size' = batch_size
          /\ channels' = channels /\ free' = free /\ waiting' = waiting /\ tasks' = tasks
          /\ running' = running /\ due' = due /\ aside' = aside /\ level' = level
      BY <2>5 DEF vars, fixed, pool
    <3>2. TaskInv'
      BY <3>1, TasksSame DEF TickInv
    <3> QED BY <3>1, <3>2 DEF TickInv, OnlyCulpritsSetAside
  <2> QED BY <2>1, <2>2, <2>3, <2>4, <2>5 DEF Next, Bot
<1> QED BY <1>1, <1>2, PTL DEF Spec

-----------------------------------------------------------------------------

\* No channel account ever has two transactions in flight and none is lost, for
\* any number of channels and tasks (ChannelPool.acquire and release).
THEOREM ChannelsSafe == Spec => []ChannelsExclusive
<1>1. TickInv => ChannelsExclusive
  <2> SUFFICES ASSUME TaskInv PROVE ChannelsExclusive
    BY DEF TickInv
  <2> DEFINE holders(c) == {t \in 1..Len(tasks) : tasks[t].channel = c}
  <2>1. free \in Seq(1..channels) /\ DOMAIN free = 1..Len(free)
    BY DEF TaskInv
  <2>2. IsInjective(free)
    BY <2>1 DEF TaskInv, Different, IsInjective
  <2>3. \A c : Contains(free, c) <=> In(c, free)
    BY <2>1 DEF Contains, In
  <2>4. ASSUME NEW c \in 1..channels, Contains(free, c) PROVE holders(c) = {}
    BY <2>3, <2>4 DEF TaskInv
  <2>5. ASSUME NEW c \in 1..channels, ~ Contains(free, c) PROVE Cardinality(holders(c)) = 1
    <3>1. PICK t \in 1..Len(tasks) : tasks[t].channel = c
      BY <2>3, <2>5 DEF TaskInv
    <3>2. c # None
      BY TickAssumption DEF TaskInv
    <3>3. holders(c) = {t}
      BY <3>1, <3>2 DEF TaskInv
    <3> QED BY <3>3, FS_Singleton
  <2> QED BY <2>2, <2>4, <2>5 DEF ChannelsExclusive, TaskInv
<1> QED BY <1>1, TickInvariant, PTL

\* A job that shares its batch with a bad one is never set aside, for any batch
\* size and any way batches are halved (halves, quarantine.add).
THEOREM BlameSafe == Spec => []OnlyCulpritsSetAside
<1>1. TickInv => OnlyCulpritsSetAside
  BY DEF TickInv
<1> QED BY <1>1, TickInvariant, PTL

-----------------------------------------------------------------------------
(* Every due job is counted once.  A task that sends has counted the jobs of   *)
(* its batch that will not run already: what it has left to count is smaller   *)
(* than what it has left to do.                                                *)

\* The batches whose jobs task t still has to count.
Left(t) ==
    IF tasks[t].at \in Sending THEN <<tasks[t].runnable>> \o Later(t) ELSE tasks[t].todo

Tallies == {<<b>> : b \in Buckets} \cup {<<>>}

\* Each due job is counted or in exactly one batch of one task, never both.
LandInv ==
    running =>
        /\ \A t \in 1..Len(tasks) : Left(t) \in Seq(Groups(Jobs)) /\ Apart(Left(t))
        /\ \A t, u \in 1..Len(tasks) :
              t # u => \A j : ~ (InTodo(j, Left(t)) /\ InTodo(j, Left(u)))
        /\ landed \in [Jobs -> Tallies]
        /\ \A j \in Jobs : (\E t \in 1..Len(tasks) : InTodo(j, Left(t)))
                              <=> (j \in due /\ landed[j] = <<>>)
        /\ \A j \in Jobs : landed[j] # <<>> => j \in due

\* What a step of the bot is to a pass.
PassStep == Pass!Next \/ UNCHANGED Pass!passVars

\* A task that stays where it is, or on its side of the sending, has the same left.
LEMMA SameLeft ==
  ASSUME NEW u, tasks'[u].at \in Sending <=> tasks[u].at \in Sending,
         tasks'[u].todo = tasks[u].todo, tasks'[u].runnable = tasks[u].runnable
  PROVE  Left(u)' = Left(u)
  BY DEF Left, Later

\* A task that ends has nothing left, and the one that gets its channel as much as
\* before.
LEMMA ReleaseLeft ==
  ASSUME TaskInv, NEW t \in 1..Len(tasks), tasks[t].at \notin Idle,
         release(tasks[t].channel, [tasks EXCEPT ![t] = Finished])
  PROVE  \A u \in 1..Len(tasks) : Left(u)' = IF u = t THEN <<>> ELSE Left(u)
<1> DEFINE ts == [tasks EXCEPT ![t] = Finished]
<1>1. tasks \in Seq(Task) /\ Len(tasks) \in Nat
  BY DEF TaskInv
<1>2. \A u \in 1..Len(tasks) : ts[u] = IF u = t THEN Finished ELSE tasks[u]
  BY <1>1
<1>3. Finished.todo = <<>> /\ Finished.at \notin Sending
  BY DEF Finished, Sending
<1>4. CASE waiting = <<>>
  <2>1. tasks' = ts
    BY <1>4 DEF release
  <2> HIDE DEF ts
  <2> QED BY <1>2, <1>3, <2>1 DEF Left, Later
<1>5. CASE waiting # <<>>
  <2>1. PICK w \in 1..Len(tasks) : w = Head(waiting) /\ In(w, waiting)
    <3>1. waiting \in Seq(1..Len(tasks))
      BY DEF TaskInv
    <3> QED BY <1>5, <3>1, HeadTail
  <2>2. tasks[w].at = "acquire" /\ tasks[w] \in Task /\ w # t
    <3>1. TaskSound(w) /\ tasks[w] \in Task
      BY <2>1 DEF TaskInv
    <3> QED BY <2>1, <3>1 DEF TaskSound, Idle
  <2> DEFINE c == tasks[t].channel
             bid == current(level')
             new == [tasks[w] EXCEPT !.channel = c, !.at = "prepare", !.bid = bid]
  <2>3. tasks' = [ts EXCEPT ![w].channel = c, ![w].at = "prepare", ![w].bid = bid]
    BY <1>5, <2>1 DEF release
  <2> HIDE DEF c, bid
  <2>4. new.todo = tasks[w].todo /\ new.at = "prepare" /\ new.runnable = tasks[w].runnable
    BY <2>2 DEF Task
  <2>5. tasks' = [ts EXCEPT ![w] = new]
    <3>1. ts[w] = tasks[w]
      BY <1>2, <2>1, <2>2
    <3> QED BY <2>3, <3>1
  <2>6. DOMAIN ts = 1..Len(tasks)
    BY <1>1
  <2> HIDE DEF ts, new
  <2>7. \A u \in 1..Len(tasks) :
           tasks'[u] = IF u = w THEN new ELSE IF u = t THEN Finished ELSE tasks[u]
    BY <1>2, <2>1, <2>5, <2>6
  <2>8. Left(w)' = Left(w)
    <3>1. tasks'[w].at \notin Sending /\ tasks[w].at \notin Sending
      BY <2>1, <2>2, <2>4, <2>7 DEF Sending
    <3> QED BY <2>1, <2>4, <2>7, <3>1, SameLeft
  <2>9. Left(t)' = <<>>
    BY <1>3, <2>2, <2>7 DEF Left
  <2>10. \A u \in 1..Len(tasks) : u # w /\ u # t => Left(u)' = Left(u)
    BY <2>7, SameLeft
  <2> QED BY <2>2, <2>8, <2>9, <2>10
<1> QED BY <1>4, <1>5

\* A task goes on with `todo`, which is what it has left to count then.
LEMMA ContinueLeft ==
  ASSUME TaskInv, NEW t \in 1..Len(tasks), tasks[t].at \notin Idle, NEW todo \in Seq(Groups(Jobs)),
         Continue(t, todo)
  PROVE  \A u \in 1..Len(tasks) : Left(u)' = IF u = t THEN todo ELSE Left(u)
<1>1. CASE todo = <<>>
  <2>1. release(tasks[t].channel, [tasks EXCEPT ![t] = Finished])
    BY <1>1 DEF Continue, Finished
  <2> QED BY <1>1, <2>1, ReleaseLeft
<1>2. CASE todo # <<>>
  <2> DEFINE bid == current(level')
             first == [tasks[t] EXCEPT !.todo = todo, !.at = "prepare", !.bid = bid]
             new == [first EXCEPT !.ids = <<>>, !.runnable = <<>>]
  <2>1. tasks[t] \in Task /\ tasks \in Seq(Task)
    BY DEF TaskInv
  <2>2. tasks' = [tasks EXCEPT ![t] = new]
    BY <1>2 DEF Continue
  <2> HIDE DEF bid
  <2>3. new.todo = todo /\ new.at = "prepare"
    <3>1. /\ first.todo = todo /\ first.at = "prepare"
          /\ DOMAIN first = {"todo", "at", "channel", "bid", "ids", "runnable"}
      BY <2>1 DEF Task
    <3> HIDE DEF first
    <3> QED BY <3>1
  <2> HIDE DEF new
  <2>4. \A u \in 1..Len(tasks) : tasks'[u] = IF u = t THEN new ELSE tasks[u]
    BY <2>1, <2>2
  <2>5. Left(t)' = todo
    <3>1. tasks'[t].at \notin Sending /\ tasks'[t].todo = todo
      BY <2>3, <2>4 DEF Sending
    <3> QED BY <3>1 DEF Left
  <2>6. \A u \in 1..Len(tasks) : u # t => Left(u)' = Left(u)
    BY <2>4, SameLeft
  <2> QED BY <2>5, <2>6
<1> QED BY <1>1, <1>2

\* Awaiting something else before the sending, or something else of it.
LEMMA AwaitLeft ==
  ASSUME TaskInv, NEW t \in 1..Len(tasks), NEW stage,
         stage \in Sending <=> tasks[t].at \in Sending, Await(t, stage)
  PROVE  \A u \in 1..Len(tasks) : Left(u)' = Left(u)
<1> DEFINE new == [tasks[t] EXCEPT !.at = stage]
<1>1. tasks[t] \in Task /\ tasks \in Seq(Task)
  BY DEF TaskInv
<1>2. new.todo = tasks[t].todo /\ new.at = stage /\ new.runnable = tasks[t].runnable
  BY <1>1 DEF Task
<1>3. tasks' = [tasks EXCEPT ![t] = new]
  BY DEF Await
<1> HIDE DEF new
<1>4. \A u \in 1..Len(tasks) : tasks'[u] = IF u = t THEN new ELSE tasks[u]
  BY <1>1, <1>3
<1> QED BY <1>2, <1>4, SameLeft

\* A task that sends its batch has to count the jobs that run.
LEMMA SendLeft ==
  ASSUME TaskInv, NEW t \in 1..Len(tasks), NEW runs,
         tasks' = [tasks EXCEPT ![t].at = "send", ![t].ids = Batch(t), ![t].runnable = runs]
  PROVE  \A u \in 1..Len(tasks) : Left(u)' = IF u = t THEN <<runs>> \o Later(t) ELSE Left(u)
<1> DEFINE ids == Batch(t)
           new == [tasks[t] EXCEPT !.at = "send", !.ids = ids, !.runnable = runs]
<1>1. tasks[t] \in Task /\ tasks \in Seq(Task)
  BY DEF TaskInv
<1>2. tasks' = [tasks EXCEPT ![t] = new]
  OBVIOUS
<1> HIDE DEF ids
<1>3. new.todo = tasks[t].todo /\ new.at = "send" /\ new.runnable = runs
  BY <1>1 DEF Task
<1> HIDE DEF new
<1>4. \A u \in 1..Len(tasks) : tasks'[u] = IF u = t THEN new ELSE tasks[u]
  BY <1>1, <1>2
<1>5. Left(t)' = <<runs>> \o Later(t)
  BY <1>3, <1>4 DEF Left, Later, Sending
<1>6. \A u \in 1..Len(tasks) : u # t => Left(u)' = Left(u)
  BY <1>4, SameLeft
<1> QED BY <1>5, <1>6

\* A list of one batch.
LEMMA OneGroup ==
  ASSUME NEW X, NEW g \in Groups(X), Different(g)
  PROVE  /\ <<g>> \in Seq(Groups(X)) /\ Apart(<<g>>)
         /\ Head(<<g>>) = g /\ \A j : InTodo(j, <<g>>) <=> In(j, g)
<1> DEFINE s == <<g>>
<1>1. s \in Seq(Groups(X)) /\ Len(s) = 1 /\ s[1] = g /\ Head(s) = g /\ 1..1 = {1}
  OBVIOUS
<1> HIDE DEF s
<1>2. (\A j : InTodo(j, s) <=> In(j, g)) /\ Apart(s)
  BY <1>1 DEF InTodo, Apart
<1> QED BY <1>1, <1>2 DEF s

\* The jobs of D leave what task t has to count; what stays is `rest`.
Moved(t, D, rest) ==
    /\ rest \in Seq(Groups(Jobs)) /\ Apart(rest)
    /\ \A j \in D : InTodo(j, Left(t))
    /\ \A j : InTodo(j, rest) <=> (InTodo(j, Left(t)) /\ j \notin D)

\* The batch a task is at: the one it simulates, or the jobs of it that it sends.
AtHand(t) == IF tasks[t].at \in Sending THEN tasks[t].runnable ELSE Batch(t)

\* The batch in front and the later ones share no job.
LEMMA HandParts ==
  ASSUME TickInv, LandInv, NEW t \in 1..Len(tasks), tasks[t].at \notin Idle
  PROVE  /\ AtHand(t) \in Groups(Jobs) /\ Different(AtHand(t))
         /\ Later(t) \in Seq(Groups(Jobs)) /\ Apart(Later(t))
         /\ \A j : InTodo(j, Left(t)) <=> (In(j, AtHand(t)) \/ InTodo(j, Later(t)))
         /\ \A j : ~ (In(j, AtHand(t)) /\ InTodo(j, Later(t)))
         /\ \A j : j \in ToSet(AtHand(t)) <=> In(j, AtHand(t))
         /\ \A j : In(j, AtHand(t)) => j \in Jobs
<1>1. TaskInv /\ tasks[t] \in Task /\ TaskSound(t)
  <2>1. TaskInv
    BY DEF TickInv
  <2> QED BY <2>1 DEF TaskInv
<1>2. Left(t) \in Seq(Groups(Jobs)) /\ Apart(Left(t))
  BY TasksRun DEF LandInv
<1>3. Later(t) \in Seq(Groups(Jobs))
  BY <1>1, TaskTodo
<1>4. Left(t) # <<>> /\ Head(Left(t)) = AtHand(t) /\ Tail(Left(t)) = Later(t)
  <2>1. CASE tasks[t].at \in Sending
    <3> DEFINE r == tasks[t].runnable
               l == Later(t)
    <3>1. Left(t) = <<r>> \o l /\ AtHand(t) = r /\ r \in Seq(Jobs) /\ l \in Seq(Groups(Jobs))
      BY <1>1, <1>3, <2>1 DEF Left, AtHand, Task
    <3> HIDE DEF r, l
    <3>2. l \in Seq(Seq(Jobs)) /\ <<r>> \in Seq(Seq(Jobs))
      BY <3>1 DEF Groups
    <3>3. <<r>> \o l # <<>> /\ Head(<<r>> \o l) = r /\ Tail(<<r>> \o l) = l
      BY <3>1, <3>2
    <3> QED BY <3>1, <3>3 DEF l
  <2>2. CASE tasks[t].at \notin Sending
    BY <1>1, <2>2 DEF Left, AtHand, Batch, Later, TaskSound, Idle
  <2> QED BY <2>1, <2>2
<1>5. /\ AtHand(t) \in Groups(Jobs) /\ Different(AtHand(t)) /\ Apart(Later(t))
      /\ \A j : InTodo(j, Left(t)) <=> (In(j, AtHand(t)) \/ InTodo(j, Later(t)))
      /\ \A j : ~ (In(j, AtHand(t)) /\ InTodo(j, Later(t)))
  <2> DEFINE l == Left(t)
  <2>1. l \in Seq(Groups(Jobs)) /\ Apart(l) /\ l # <<>> /\ Head(l) = AtHand(t) /\ Tail(l) = Later(t)
    BY <1>2, <1>4
  <2> HIDE DEF l
  <2>2. /\ Head(l) \in Groups(Jobs) /\ Different(Head(l)) /\ Apart(Tail(l))
        /\ \A j : InTodo(j, l) <=> (In(j, Head(l)) \/ InTodo(j, Tail(l)))
        /\ \A j : ~ (In(j, Head(l)) /\ InTodo(j, Tail(l)))
    BY <2>1, TodoParts
  <2> QED BY <2>1, <2>2 DEF l
<1>6. AtHand(t) \in Seq(Jobs)
  BY <1>5 DEF Groups
<1>7. \A j : j \in ToSet(AtHand(t)) <=> In(j, AtHand(t))
  BY <1>6, ToSetIn
<1>8. \A j : In(j, AtHand(t)) => j \in Jobs
  BY <1>6 DEF In
<1> QED BY <1>3, <1>5, <1>7, <1>8

\* Part of the batch in front is counted, and the others go on in the batches of
\* `parts`.
LEMMA MovedParts ==
  ASSUME TickInv, LandInv, NEW t \in 1..Len(tasks), tasks[t].at \notin Idle,
         NEW D, NEW parts \in Seq(Groups(Jobs)), Apart(parts),
         \A j \in D : In(j, AtHand(t)),
         \A j : InTodo(j, parts) <=> (In(j, AtHand(t)) /\ j \notin D)
  PROVE  Moved(t, D, parts \o Later(t))
<1>1. /\ Later(t) \in Seq(Groups(Jobs)) /\ Apart(Later(t))
      /\ \A j : InTodo(j, Left(t)) <=> (In(j, AtHand(t)) \/ InTodo(j, Later(t)))
      /\ \A j : ~ (In(j, AtHand(t)) /\ InTodo(j, Later(t)))
  BY HandParts
<1>2. /\ parts \o Later(t) \in Seq(Groups(Jobs)) /\ Apart(parts \o Later(t))
      /\ \A j : InTodo(j, parts \o Later(t)) <=> (InTodo(j, parts) \/ InTodo(j, Later(t)))
  BY <1>1, TodoConcat
<1> QED BY <1>1, <1>2 DEF Moved

\* The whole batch in front is counted.
LEMMA MovedHand ==
  ASSUME TickInv, LandInv, NEW t \in 1..Len(tasks), tasks[t].at \notin Idle
  PROVE  Moved(t, ToSet(AtHand(t)), Later(t))
  BY HandParts DEF Moved

\* What a task counts lands in a bucket for the first time.
LEMMA LandKeeps ==
  ASSUME TickInv, LandInv, NEW t \in 1..Len(tasks), NEW D, NEW rest, Moved(t, D, rest),
         Len(tasks') = Len(tasks), UNCHANGED <<running, due>>,
         \A u \in 1..Len(tasks) : Left(u)' = IF u = t THEN rest ELSE Left(u),
         landed' = [j \in Jobs |-> landed'[j]],
         \A j \in Jobs : IF j \in D THEN \E b \in Buckets : landed'[j] = Append(landed[j], b)
                         ELSE landed'[j] = landed[j]
  PROVE  LandInv' /\ PassStep
<1>1. running /\ running' /\ due' = due
  BY TasksRun
<1>2. /\ \A u \in 1..Len(tasks) : Left(u) \in Seq(Groups(Jobs)) /\ Apart(Left(u))
      /\ \A v, u \in 1..Len(tasks) :
            v # u => \A j : ~ (InTodo(j, Left(v)) /\ InTodo(j, Left(u)))
      /\ landed \in [Jobs -> Tallies]
      /\ \A j \in Jobs : (\E u \in 1..Len(tasks) : InTodo(j, Left(u)))
                            <=> (j \in due /\ landed[j] = <<>>)
      /\ \A j \in Jobs : landed[j] # <<>> => j \in due
  BY <1>1 DEF LandInv
<1>3. /\ rest \in Seq(Groups(Jobs)) /\ Apart(rest)
      /\ \A j \in D : InTodo(j, Left(t))
      /\ \A j : InTodo(j, rest) <=> (InTodo(j, Left(t)) /\ j \notin D)
  BY DEF Moved
<1>4. \A b : Append(<<>>, b) = <<b>> /\ <<b>> # <<>>
  OBVIOUS
<1>5. \A j \in Jobs : IF j \in D
                      THEN landed[j] = <<>> /\ j \in due /\ \E b \in Buckets : landed'[j] = <<b>>
                      ELSE landed'[j] = landed[j]
  BY <1>2, <1>3, <1>4
<1>6. landed' \in [Jobs -> Tallies]
  <2>1. \A j \in Jobs : landed'[j] \in Tallies
    BY <1>2, <1>5 DEF Tallies
  <2> QED BY <2>1
<1>7. \A j : \A u \in 1..Len(tasks) :
         InTodo(j, Left(u)') <=> (InTodo(j, Left(u)) /\ ~ (j \in D /\ u = t))
  BY <1>3
<1>8. ASSUME NEW v \in 1..Len(tasks), NEW u \in 1..Len(tasks), v # u, NEW j
      PROVE  ~ (InTodo(j, Left(v)') /\ InTodo(j, Left(u)'))
  BY <1>2, <1>7, <1>8
<1>9. ASSUME NEW j \in Jobs
      PROVE  (\E u \in 1..Len(tasks) : InTodo(j, Left(u)')) <=> (j \in due /\ landed'[j] = <<>>)
  <2>1. CASE j \in D
    <3>1. landed'[j] # <<>>
      BY <1>4, <1>5, <2>1
    <3>2. \A u \in 1..Len(tasks) : ~ InTodo(j, Left(u)')
      BY <1>2, <1>3, <1>7, <2>1
    <3> QED BY <3>1, <3>2
  <2>2. CASE j \notin D
    BY <1>2, <1>5, <1>7, <2>2
  <2> QED BY <2>1, <2>2
<1>10. \A j \in Jobs : landed'[j] # <<>> => j \in due
  BY <1>2, <1>5
<1>11. \A u \in 1..Len(tasks) : Left(u)' \in Seq(Groups(Jobs)) /\ Apart(Left(u)')
  BY <1>2, <1>3
<1>12. LandInv'
  BY <1>1, <1>6, <1>8, <1>9, <1>10, <1>11 DEF LandInv
<1>13. Pass!Decide
  BY <1>1, <1>5, <1>6 DEF Pass!Decide, Tallies
<1> QED BY <1>12, <1>13 DEF PassStep, Pass!Next

\* Nothing is counted.
LEMMA LandSame ==
  ASSUME LandInv, UNCHANGED <<running, due, landed>>, Len(tasks') = Len(tasks),
         \A u \in 1..Len(tasks) : Left(u)' = Left(u)
  PROVE  LandInv' /\ PassStep
<1>1. LandInv'
  BY DEF LandInv
<1>2. UNCHANGED Pass!passVars
  BY DEF Pass!passVars
<1> QED BY <1>1, <1>2 DEF PassStep

\* A failed simulation counts the whole batch, or nobody.
LEMMA FailsLand ==
  ASSUME TickInv, LandInv, NEW t \in 1..Len(tasks), tasks[t].at \notin Idle \cup Sending,
         NEW specific \in BOOLEAN, simulation_fails(t, specific),
         UNCHANGED <<fixed, running, due, level>>
  PROVE  LandInv' /\ PassStep
<1> DEFINE ids == Batch(t)
<1>1. TaskInv /\ tasks[t].at \notin Idle /\ AtHand(t) = ids /\ level' \in 0..TopLevel
      /\ channels' = channels
  BY DEF TickInv, AtHand, fixed
<1>2. /\ ids \in Groups(Jobs) /\ Different(ids) /\ Later(t) \in Seq(Groups(Jobs))
      /\ \A j : j \in ToSet(ids) <=> In(j, ids)
  BY <1>1, HandParts
<1>3. "skipped" \in Buckets
  BY DEF Buckets
<1>4. CASE specific /\ Len(ids) > 1
  <2> DEFINE parts == halves(ids)
             todo == parts \o Later(t)
  <2>1. Continue(t, todo) /\ landed' = landed
    BY <1>4 DEF simulation_fails
  <2>2. parts \in Seq(Groups(Jobs)) /\ Apart(parts) /\ \A j : In(j, ids) <=> InTodo(j, parts)
    BY <1>2, <1>4, Halves DEF Groups
  <2> HIDE DEF parts
  <2>3. Moved(t, {}, todo)
    BY <1>1, <2>2, MovedParts
  <2>4. todo \in Seq(Groups(Jobs))
    BY <2>3 DEF Moved
  <2> HIDE DEF todo
  <2>5. Len(tasks') = Len(tasks)
    BY <1>1, <2>1, <2>4, ContinueTask
  <2>6. \A u \in 1..Len(tasks) : Left(u)' = IF u = t THEN todo ELSE Left(u)
    BY <1>1, <2>1, <2>4, ContinueLeft
  <2>7. landed' = [j \in Jobs |-> landed'[j]]
    BY <2>1, TasksRun DEF LandInv
  <2> QED BY <2>1, <2>3, <2>5, <2>6, <2>7, LandKeeps
<1>5. CASE ~ (specific /\ Len(ids) > 1)
  <2>1. Continue(t, Later(t)) /\ landed' = Count(ids, "skipped")
    BY <1>5 DEF simulation_fails
  <2>2. Moved(t, ToSet(ids), Later(t))
    BY <1>1, MovedHand
  <2>3. Len(tasks') = Len(tasks)
    BY <1>1, <1>2, <2>1, ContinueTask
  <2>4. \A u \in 1..Len(tasks) : Left(u)' = IF u = t THEN Later(t) ELSE Left(u)
    BY <1>1, <1>2, <2>1, ContinueLeft
  <2> DEFINE D == ToSet(ids)
  <2>5. landed' = [j \in Jobs |-> IF j \in D THEN Append(landed[j], "skipped") ELSE landed[j]]
    BY <2>1 DEF Count
  <2> HIDE DEF D
  <2>6. /\ landed' = [j \in Jobs |-> landed'[j]]
        /\ \A j \in Jobs : IF j \in D THEN \E b \in Buckets : landed'[j] = Append(landed[j], b)
                           ELSE landed'[j] = landed[j]
    BY <1>3, <2>5
  <2> QED BY <2>2, <2>3, <2>4, <2>6, LandKeeps DEF D
<1> QED BY <1>4, <1>5

\* The jobs of a task's batch that would run, and those that would not.
Runs(t) == {j \in Jobs : In(j, Runnable(Batch(t)))}
Skips(t) == {j \in Jobs : In(j, Batch(t)) /\ ~ In(j, Runnable(Batch(t)))}

\* The summary after a simulation that succeeds, without and with those that would run.
Some(t) == [j \in Jobs |-> IF j \in Skips(t) THEN Append(landed[j], "skipped") ELSE landed[j]]
Both(t, bucket) == [j \in Jobs |-> IF j \in Runs(t) THEN Append(landed[j], bucket) ELSE Some(t)[j]]

\* What becomes of a batch whose simulation succeeds.
LEMMA Simulated ==
  ASSUME TickInv, LandInv, NEW t \in 1..Len(tasks), tasks[t].at \notin Idle \cup Sending,
         simulation_succeeds(t), NEW ids, ids = Batch(t), NEW runs, runs = Runnable(ids)
  PROVE  /\ ids \in Groups(Jobs) /\ ids \in Seq(Jobs) /\ Different(ids)
         /\ runs \in Seq(Jobs) /\ Different(runs)
         /\ Skips(t) \cup Runs(t) = ToSet(ids) /\ Skips(t) \cap Runs(t) = {}
         /\ \A j : j \in Runs(t) <=> In(j, runs)
         /\ \A j : j \in Skips(t) <=> In(j, ids) /\ ~ In(j, runs)
         /\ \A j : In(j, runs) => In(j, ids)
         /\ \A j \in Skips(t) : kind[j] = "blocked" \/ j \in gone
         /\ \/ runs = <<>> /\ landed' = Some(t) /\ Continue(t, Later(t))
            \/ Len(runs) > 1 /\ landed' = Some(t) /\ Continue(t, halves(runs) \o Later(t))
            \/ /\ Len(runs) = 1 /\ refusal(ids, runs, tasks[t].bid)
               /\ landed' = Both(t, "unprofitable") /\ Continue(t, Later(t))
            \/ dry_run /\ landed' = Both(t, "dry_run") /\ Continue(t, Later(t))
            \/ /\ runs # <<>> /\ landed' = Some(t)
               /\ tasks' = [tasks EXCEPT ![t].at = "send", ![t].ids = ids, ![t].runnable = runs]
               /\ UNCHANGED pool
<1> DEFINE wanted == Jobs \ ToSet(runs)
           skipped == Filter(ids, wanted)
<1>1. TaskInv /\ tasks[t].at \notin Idle /\ AtHand(t) = ids
  BY DEF TickInv, AtHand
<1>2. /\ ids \in Groups(Jobs) /\ ids \in Seq(Jobs) /\ Different(ids)
      /\ \A j : j \in ToSet(ids) <=> In(j, ids)
      /\ \A j : In(j, ids) => j \in Jobs
  BY <1>1, HandParts DEF Groups
<1>3. /\ runs \in Seq(Jobs) /\ Different(runs)
      /\ \A j : In(j, runs) <=> (j \in Jobs /\ kind[j] # "blocked" /\ j \notin gone /\ In(j, ids))
  BY <1>2, RunnableParts
<1>4. /\ \A j : j \in Runs(t) <=> In(j, runs)
      /\ \A j : j \in Skips(t) <=> In(j, ids) /\ ~ In(j, runs)
  BY <1>2, <1>3 DEF Runs, Skips
<1>5. /\ \A j : Contains(runs, j) <=> j \in Runs(t)
      /\ \A j : j \in ToSet(runs) <=> In(j, runs)
  <2>1. \A j : Contains(runs, j) <=> In(j, runs)
    BY <1>3 DEF Contains, In
  <2>2. \A j : j \in ToSet(runs) <=> In(j, runs)
    BY <1>3, ToSetIn
  <2> QED BY <1>4, <2>1, <2>2
<1>6. \A j : j \in ToSet(skipped) <=> j \in Skips(t)
  <2>1. skipped \in Seq(Jobs) /\ \A j : In(j, skipped) <=> (j \in wanted /\ In(j, ids))
    <3> HIDE DEF wanted
    <3> QED BY <1>2, FilterParts
  <2> HIDE DEF skipped
  <2>2. \A j : j \in ToSet(skipped) <=> In(j, skipped)
    BY <2>1, ToSetIn
  <2> QED BY <1>2, <1>4, <1>5, <2>1, <2>2
<1>7. Count(skipped, "skipped") = Some(t)
  <2> HIDE DEF skipped
  <2> QED BY <1>6 DEF Count, Some
<1> DEFINE count(bucket) == [j \in Jobs |-> IF Contains(runs, j) THEN Append(landed[j], bucket)
                                            ELSE Count(skipped, "skipped")[j]]
           bid == tasks[t].bid
<1>8. \A b : count(b) = Both(t, b)
  <2> HIDE DEF skipped
  <2> QED BY <1>5, <1>7 DEF Both
<1>9. \/ runs = <<>> /\ landed' = Count(skipped, "skipped") /\ Continue(t, Later(t))
      \/ /\ Len(runs) > 1 /\ landed' = Count(skipped, "skipped")
         /\ Continue(t, halves(runs) \o Later(t))
      \/ /\ Len(runs) = 1 /\ refusal(ids, runs, bid)
         /\ landed' = count("unprofitable") /\ Continue(t, Later(t))
      \/ dry_run /\ landed' = count("dry_run") /\ Continue(t, Later(t))
      \/ /\ runs # <<>> /\ landed' = Count(skipped, "skipped")
         /\ tasks' = [tasks EXCEPT ![t].at = "send", ![t].ids = ids, ![t].runnable = runs]
         /\ UNCHANGED pool
  <2>1. runs = <<>> \/ Len(runs) = 1 \/ Len(runs) > 1
    BY <1>3, GroupLen DEF Groups
  <2> QED BY <2>1 DEF simulation_succeeds
<1> HIDE DEF count, skipped, bid
<1>10. Skips(t) \cup Runs(t) = ToSet(ids) /\ Skips(t) \cap Runs(t) = {}
       /\ \A j \in Skips(t) : kind[j] = "blocked" \/ j \in gone
  BY <1>2, <1>3, <1>4
<1> QED BY <1>2, <1>3, <1>4, <1>7, <1>8, <1>9, <1>10 DEF bid

\* A simulation that succeeds counts what will not run, and the rest when it ends
\* there.
LEMMA SucceedsLand ==
  ASSUME TickInv, LandInv, NEW t \in 1..Len(tasks), tasks[t].at \notin Idle \cup Sending,
         simulation_succeeds(t), UNCHANGED <<fixed, running, due, level>>
  PROVE  LandInv' /\ PassStep
<1> DEFINE ids == Batch(t)
           runs == Runnable(ids)
           S == Skips(t)
           R == Runs(t)
           some == Some(t)
           both(bucket) == Both(t, bucket)
<1>1. TaskInv /\ tasks[t].at \notin Idle /\ AtHand(t) = ids /\ level' \in 0..TopLevel
      /\ channels' = channels
  BY DEF TickInv, AtHand, fixed
<1>2. Later(t) \in Seq(Groups(Jobs))
  BY <1>1, HandParts
<1>3. /\ ids \in Groups(Jobs) /\ ids \in Seq(Jobs) /\ Different(ids)
      /\ runs \in Seq(Jobs) /\ Different(runs) /\ S \cup R = ToSet(ids)
      /\ \A j : j \in R <=> In(j, runs)
      /\ \A j : j \in S <=> In(j, ids) /\ ~ In(j, runs)
      /\ \A j : In(j, runs) => In(j, ids)
  BY Simulated
<1>4. \/ runs = <<>> /\ landed' = some /\ Continue(t, Later(t))
      \/ Len(runs) > 1 /\ landed' = some /\ Continue(t, halves(runs) \o Later(t))
      \/ landed' = both("unprofitable") /\ Continue(t, Later(t))
      \/ landed' = both("dry_run") /\ Continue(t, Later(t))
      \/ /\ runs # <<>> /\ landed' = some
         /\ tasks' = [tasks EXCEPT ![t].at = "send", ![t].ids = Batch(t), ![t].runnable = runs]
         /\ UNCHANGED pool
  BY Simulated
<1>5. S \cup R = ToSet(ids)
  BY <1>3
<1> HIDE DEF runs, ids, S, R
<1>6. {"skipped", "unprofitable", "dry_run"} \subseteq Buckets
  BY DEF Buckets
<1>7. /\ some = [j \in Jobs |-> some[j]]
      /\ \A j \in Jobs : IF j \in S THEN \E b \in Buckets : some[j] = Append(landed[j], b)
                         ELSE some[j] = landed[j]
  BY <1>6 DEF Some, S
<1>8. ASSUME NEW bucket \in Buckets
      PROVE  /\ both(bucket) = [j \in Jobs |-> both(bucket)[j]]
             /\ \A j \in Jobs : IF j \in S \cup R
                                THEN \E b \in Buckets : both(bucket)[j] = Append(landed[j], b)
                                ELSE both(bucket)[j] = landed[j]
  BY <1>7, <1>8 DEF Both, R
<1>10. Moved(t, ToSet(ids), Later(t))
  BY <1>1, MovedHand
<1> HIDE DEF some, both
\* The rest of a batch that goes on.
<1>11. ASSUME NEW D, NEW todo, Moved(t, D, todo), Continue(t, todo)
       PROVE  /\ Len(tasks') = Len(tasks)
              /\ \A u \in 1..Len(tasks) : Left(u)' = IF u = t THEN todo ELSE Left(u)
  <2>1. todo \in Seq(Groups(Jobs))
    BY <1>11 DEF Moved
  <2>2. Len(tasks') = Len(tasks)
    BY <1>1, <1>11, <2>1, ContinueTask
  <2>3. \A u \in 1..Len(tasks) : Left(u)' = IF u = t THEN todo ELSE Left(u)
    BY <1>1, <1>11, <2>1, ContinueLeft
  <2> QED BY <2>2, <2>3
<1>12. CASE runs = <<>> /\ landed' = some /\ Continue(t, Later(t))
  <2>1. \A j : ~ In(j, runs)
    <3>1. Len(<<>>) = 0 /\ 1..0 = {}
      OBVIOUS
    <3> QED BY <1>12, <3>1 DEF In
  <2>2. Moved(t, S, Later(t))
    <3>1. S = ToSet(ids)
      BY <1>3, <1>5, <2>1
    <3> QED BY <1>10, <3>1
  <2> QED BY <1>7, <1>11, <1>12, <2>2, LandKeeps
<1>13. CASE /\ Len(runs) > 1 /\ landed' = some
            /\ Continue(t, halves(runs) \o Later(t))
  <2> DEFINE parts == halves(runs)
             todo == parts \o Later(t)
  <2>1. parts \in Seq(Groups(Jobs)) /\ Apart(parts) /\ \A j : In(j, runs) <=> InTodo(j, parts)
    BY <1>3, <1>13, Halves
  <2>2. Continue(t, todo)
    BY <1>13
  <2> HIDE DEF parts
  <2>3. Moved(t, S, todo)
    <3>1. \A j : InTodo(j, parts) <=> (In(j, AtHand(t)) /\ j \notin S)
      BY <1>1, <1>3, <2>1
    <3>2. \A j \in S : In(j, AtHand(t))
      BY <1>1, <1>3
    <3> QED BY <1>1, <2>1, <3>1, <3>2, MovedParts
  <2> HIDE DEF todo
  <2> QED BY <1>7, <1>11, <1>13, <2>2, <2>3, LandKeeps
<1>14. ASSUME NEW bucket \in Buckets, landed' = both(bucket), Continue(t, Later(t))
       PROVE  LandInv' /\ PassStep
  <2>1. Moved(t, S \cup R, Later(t))
    BY <1>5, <1>10
  <2> QED BY <1>8, <1>11, <1>14, <2>1, LandKeeps
<1>15. CASE /\ runs # <<>> /\ landed' = some
            /\ tasks' = [tasks EXCEPT ![t].at = "send", ![t].ids = Batch(t), ![t].runnable = runs]
            /\ UNCHANGED pool
  <2> DEFINE one == <<runs>>
             todo == one \o Later(t)
  <2>1. one \in Seq(Groups(Jobs)) /\ Apart(one) /\ \A j : In(j, runs) <=> InTodo(j, one)
    <3>1. runs \in Groups(Jobs)
      BY <1>3, <1>15 DEF Groups
    <3> QED BY <1>3, <3>1, OneGroup
  <2>2. Len(tasks') = Len(tasks)
    BY <1>1, <1>3, <1>15, SendTask DEF ids
  <2>3. \A u \in 1..Len(tasks) : Left(u)' = IF u = t THEN todo ELSE Left(u)
    BY <1>1, <1>15, SendLeft
  <2> HIDE DEF one
  <2>4. Moved(t, S, todo)
    <3>1. \A j : InTodo(j, one) <=> (In(j, AtHand(t)) /\ j \notin S)
      BY <1>1, <1>3, <2>1
    <3>2. \A j \in S : In(j, AtHand(t))
      BY <1>1, <1>3
    <3> QED BY <1>1, <2>1, <3>1, <3>2, MovedParts
  <2> HIDE DEF todo
  <2> QED BY <1>7, <1>15, <2>2, <2>3, <2>4, LandKeeps
<1> QED BY <1>4, <1>6, <1>12, <1>13, <1>14, <1>15

\* A transaction that is sent, or fails, counts what it was to run.
LEMMA SendLand ==
  ASSUME TickInv, LandInv, NEW t \in 1..Len(tasks),
         send(t) \/ \E ran, fee_related \in BOOLEAN : send_fails(t, ran, fee_related)
  PROVE  LandInv' /\ PassStep
<1> DEFINE runs == tasks[t].runnable
           D == ToSet(runs)
<1>1. /\ tasks[t].at \in Sending /\ Continue(t, Later(t)) /\ UNCHANGED <<fixed, running, due>>
      /\ \E b \in Buckets : landed' = Count(runs, b)
  BY DEF send, send_fails, Sending, Buckets
<1>2. level' \in 0..TopLevel
  <2>1. TopLevel \in Nat /\ level \in 0..TopLevel
    BY TickAssumption DEF TickInv
  <2>2. escalate \in 0..TopLevel
    BY <2>1 DEF escalate
  <2> QED BY <2>1, <2>2 DEF send, send_fails
<1>3. TaskInv /\ tasks[t].at \notin Idle /\ AtHand(t) = runs /\ channels' = channels
  BY <1>1 DEF TickInv, AtHand, Idle, Sending, fixed
<1>4. Later(t) \in Seq(Groups(Jobs)) /\ Moved(t, D, Later(t))
  BY <1>3, HandParts, MovedHand
<1>5. Len(tasks') = Len(tasks)
  BY <1>1, <1>2, <1>3, <1>4, ContinueTask
<1>6. \A u \in 1..Len(tasks) : Left(u)' = IF u = t THEN Later(t) ELSE Left(u)
  BY <1>1, <1>3, <1>4, ContinueLeft
<1>7. PICK b \in Buckets :
         landed' = [j \in Jobs |-> IF j \in D THEN Append(landed[j], b) ELSE landed[j]]
  BY <1>1 DEF Count
<1> HIDE DEF D
<1>8. /\ landed' = [j \in Jobs |-> landed'[j]]
      /\ \A j \in Jobs : IF j \in D THEN \E c \in Buckets : landed'[j] = Append(landed[j], c)
                         ELSE landed'[j] = landed[j]
  BY <1>7
<1> QED BY <1>1, <1>4, <1>5, <1>6, <1>8, LandKeeps

\* Simulating a batch.
LEMMA PrepareLand ==
  ASSUME TickInv, LandInv, NEW t \in 1..Len(tasks), prepare(t)
  PROVE  LandInv' /\ PassStep
<1>1. tasks[t].at \notin Idle \cup Sending /\ UNCHANGED <<fixed, running, due, level>>
  BY DEF prepare, Idle, Sending
<1>2. \/ \E specific \in BOOLEAN : simulation_fails(t, specific)
      \/ simulation_succeeds(t)
      \/ Await(t, "restore") /\ UNCHANGED landed
  BY DEF prepare
<1>3. ASSUME NEW specific \in BOOLEAN, simulation_fails(t, specific) PROVE LandInv' /\ PassStep
  BY <1>1, <1>3, FailsLand
<1>4. CASE simulation_succeeds(t)
  BY <1>1, <1>4, SucceedsLand
<1>5. CASE Await(t, "restore") /\ UNCHANGED landed
  <2>1. TaskInv /\ channels' = channels
    BY <1>1 DEF TickInv, fixed
  <2>2. "restore" \in Stages \ Idle /\ "restore" \notin Sending
    BY DEF Stages, Idle, Sending
  <2>3. Len(tasks') = Len(tasks)
    BY <1>1, <1>5, <2>1, <2>2, AwaitTask
  <2>4. \A u \in 1..Len(tasks) : Left(u)' = Left(u)
    BY <1>1, <1>5, <2>1, <2>2, AwaitLeft
  <2> QED BY <1>1, <1>5, <2>3, <2>4, LandSame
<1> QED BY <1>2, <1>3, <1>4, <1>5

\* Every step of a task.
LEMMA TaskLand ==
  ASSUME TickInv, LandInv, NEW t \in 1..Len(tasks), Step(t)
  PROVE  LandInv' /\ PassStep
<1>1. CASE prepare(t)
  BY <1>1, PrepareLand
<1>2. CASE prepare_fails(t)
  <2>1. /\ tasks[t].at \notin Idle \cup Sending /\ simulation_fails(t, FALSE)
        /\ UNCHANGED <<fixed, running, due, level>>
    BY <1>2 DEF prepare_fails, Idle, Sending
  <2> QED BY <2>1, FailsLand
<1>3. CASE send(t) \/ \E ran, fee_related \in BOOLEAN : send_fails(t, ran, fee_related)
  BY <1>3, SendLand
<1>4. CASE restore(t) \/ sequence_error(t) \/ resimulate(t)
  <2>1. TaskInv
    BY DEF TickInv
  <2>2. PICK stage \in {"again", "retry", "resend"} :
           /\ Await(t, stage) /\ UNCHANGED <<fixed, running, due, landed>>
           /\ tasks[t].at \notin Idle /\ (stage \in Sending <=> tasks[t].at \in Sending)
    BY <1>4 DEF restore, sequence_error, resimulate, Idle, Sending
  <2>3. stage \in Stages \ Idle /\ channels' = channels
    BY <2>2 DEF Stages, Idle, Sending, fixed
  <2>4. Len(tasks') = Len(tasks)
    BY <2>1, <2>2, <2>3, AwaitTask
  <2>5. \A u \in 1..Len(tasks) : Left(u)' = Left(u)
    BY <2>1, <2>2, AwaitLeft
  <2> QED BY <2>2, <2>4, <2>5, LandSame
<1> QED BY <1>1, <1>2, <1>3, <1>4 DEF Step

\* A tick starts with whoever sits out counted, and the others in a batch each.
LEMMA StartLand ==
  ASSUME TickInv, NEW all_due \in SUBSET Jobs, tick(all_due)
  PROVE  LandInv' /\ PassStep
<1> DEFINE sits_out == {j \in all_due : quarantine_next[j] > 0}
           jobs == Filter(JobList, all_due \ sits_out)
           batches == Batches(jobs)
           served == IF Len(batches) < Len(free) THEN Len(batches) ELSE Len(free)
<1>1. /\ UNCHANGED <<fixed, level>> /\ due' = all_due /\ ~ running /\ running'
      /\ landed' = [j \in Jobs |-> IF j \in sits_out THEN <<"skipped">> ELSE <<>>]
  BY DEF tick
<1>2. TaskInv /\ channels' = channels /\ batch_size \in Nat \ {0}
  BY <1>1 DEF TickInv, fixed
<1>3. tasks' = [b \in 1..Len(batches) |->
         [todo |-> <<batches[b]>>,
          at |-> IF b <= served THEN "prepare" ELSE "acquire",
          channel |-> IF b <= served THEN free[Len(free) + 1 - b] ELSE None,
          bid |-> IF b <= served THEN current(level) ELSE 0,
          ids |-> <<>>, runnable |-> <<>>]]
  BY DEF tick
<1>4. JobList \in Seq(Jobs) /\ Different(JobList) /\ \A j \in Jobs : In(j, JobList)
  <2>1. JobList \in Seq(Jobs) /\ IsInjective(JobList)
    BY TickAssumption
  <2>2. DOMAIN JobList = 1..Len(JobList)
    BY <2>1
  <2> QED BY <2>1, <2>2, ToSetIn DEF Jobs, IsInjective, Different
<1>5. sits_out \subseteq all_due
  OBVIOUS
<1> HIDE DEF sits_out
<1>6. /\ jobs \in Seq(Jobs) /\ Different(jobs)
      /\ \A j : In(j, jobs) <=> (j \in all_due \ sits_out /\ In(j, JobList))
  BY <1>4, FilterParts
<1> HIDE DEF jobs
<1>7. /\ batches \in Seq(Groups(Jobs)) /\ Apart(batches) /\ Len(batches) \in Nat
      /\ \A j : In(j, jobs) <=> InTodo(j, batches)
  BY <1>2, <1>6, ChunksCover DEF Batches
<1> HIDE DEF batches, served
<1>8. Len(tasks') = Len(batches)
  BY <1>3, <1>7
<1>9. \A b \in 1..Len(batches) : Left(b)' = <<batches[b]>>
  <2> SUFFICES ASSUME NEW b \in 1..Len(batches) PROVE Left(b)' = <<batches[b]>>
    OBVIOUS
  <2>1. tasks'[b].todo = <<batches[b]>> /\ tasks'[b].at \in {"prepare", "acquire"}
    BY <1>3
  <2> QED BY <2>1 DEF Left, Sending
<1>10. \A b \in 1..Len(batches) :
          /\ Left(b)' \in Seq(Groups(Jobs)) /\ Apart(Left(b)')
          /\ \A j : InTodo(j, Left(b)') <=> In(j, batches[b])
  <2> SUFFICES ASSUME NEW b \in 1..Len(batches)
               PROVE  /\ Left(b)' \in Seq(Groups(Jobs)) /\ Apart(Left(b)')
                      /\ \A j : InTodo(j, Left(b)') <=> In(j, batches[b])
    OBVIOUS
  <2>1. batches[b] \in Groups(Jobs) /\ Different(batches[b])
    BY <1>7 DEF Apart
  <2>2. /\ <<batches[b]>> \in Seq(Groups(Jobs)) /\ Apart(<<batches[b]>>)
        /\ \A j : InTodo(j, <<batches[b]>>) <=> In(j, batches[b])
    BY <2>1, OneGroup
  <2> QED BY <1>9, <2>2
<1>11. \A b, c \in 1..Len(batches) :
          b # c => \A j : ~ (InTodo(j, Left(b)') /\ InTodo(j, Left(c)'))
  BY <1>7, <1>10 DEF Apart
<1>12. <<"skipped">> \in Tallies /\ <<>> \in Tallies /\ <<"skipped">> # <<>>
  BY DEF Tallies, Buckets
<1>13. landed' \in [Jobs -> Tallies] /\ \A j \in Jobs : landed'[j] = <<>> <=> j \notin sits_out
  BY <1>1, <1>12
<1>14. \A j \in Jobs : (\E b \in 1..Len(batches) : InTodo(j, Left(b)'))
                          <=> (j \in all_due /\ landed'[j] = <<>>)
  <2>1. \A j : InTodo(j, batches) <=> \E b \in 1..Len(batches) : InTodo(j, Left(b)')
    BY <1>10 DEF InTodo
  <2> QED BY <1>4, <1>6, <1>7, <1>13, <2>1
<1>15. LandInv'
  BY <1>1, <1>5, <1>8, <1>10, <1>11, <1>13, <1>14 DEF LandInv
<1>16. Pass!Begin
  BY <1>1, <1>5, <1>13 DEF Pass!Begin, Tallies
<1> QED BY <1>15, <1>16 DEF PassStep, Pass!Next

\* When every task is done every due job is counted.
LEMMA AllCounted ==
  ASSUME TickInv, LandInv, tick_ends
  PROVE  \A j \in due : landed[j] # <<>>
<1>1. running /\ \A t \in 1..Len(tasks) : tasks[t].at = "done"
  BY DEF tick_ends
<1>2. \A t \in 1..Len(tasks) : TaskSound(t)
  BY DEF TickInv, TaskInv
<1>3. \A t \in 1..Len(tasks) : Left(t) = <<>>
  BY <1>1, <1>2 DEF TaskSound, Left, Sending
<1>4. \A j : ~ InTodo(j, <<>>)
  BY DEF InTodo
<1> QED BY <1>1, <1>3, <1>4 DEF LandInv, TickInv

\* A tick ends with nobody left to count.
LEMMA EndLand ==
  ASSUME TickInv, LandInv, tick_ends
  PROVE  LandInv' /\ PassStep
<1>1. running /\ ~ running'
  BY DEF tick_ends
<1>2. Pass!End
  BY <1>1, AllCounted DEF Pass!End, tick_ends
<1> QED BY <1>1, <1>2 DEF LandInv, PassStep, Pass!Next

\* Every step of the bot and of other keepers.
LEMMA LandStep == ASSUME TickInv, LandInv, [Next]_vars PROVE LandInv' /\ PassStep
<1>1. ASSUME NEW all_due \in SUBSET Jobs, tick(all_due) PROVE LandInv' /\ PassStep
  BY <1>1, StartLand
<1>2. ASSUME NEW t \in 1..Len(tasks), Step(t) PROVE LandInv' /\ PassStep
  BY <1>2, TaskLand
<1>3. CASE tick_ends
  BY <1>3, EndLand
<1>4. CASE (\E j \in Jobs : Rival(j)) \/ UNCHANGED vars
  <2>1. tasks' = tasks /\ UNCHANGED <<running, due, landed>>
    BY <1>4 DEF Rival, vars
  <2>2. \A u \in 1..Len(tasks) : Left(u)' = Left(u)
    BY <2>1, SameLeft
  <2> QED BY <2>1, <2>2, LandSame
<1> QED BY <1>1, <1>2, <1>3, <1>4 DEF Next, Bot

\* The bot's steps are those of a pass: every due job lands in exactly one bucket of
\* the summary, however its batch is halved, skipped, refused, restored and sent
\* again, no bucket is taken back, and the tick does not end before (the safety half
\* of ImplementsPass).
THEOREM TickPassSteps == Spec => Pass!Steps
<1>1. Init => LandInv /\ Pass!Init
  BY DEF Init, LandInv, Pass!Init
<1>2. PassStep => [Pass!Next]_(Pass!passVars)
  BY DEF PassStep
<1>3. ASSUME TickInv, LandInv, [Next]_vars PROVE LandInv' /\ [Pass!Next]_(Pass!passVars)
  BY <1>2, <1>3, LandStep
<1> QED BY <1>1, <1>3, TickInvariant, PTL DEF Spec, Pass!Steps
-----------------------------------------------------------------------------
(* Paying jobs.  What PayingJobsRun says at the end of a tick holds all along of *)
(* the jobs that are counted: a skipped job was blocked or gone when it was, and *)
(* stays so.                                                                     *)

\* A job left alone to bear what a batch with a skipped job costs.
Sunk(j) ==
    /\ landed[j] = <<"unprofitable">>
    /\ \E i \in due \ {j} : landed[i] = <<"skipped">> /\ (kind[i] = "blocked" \/ i \in gone)

WorkInv ==
    /\ ~ trouble /\ ~ dry_run =>
          \A j \in due : kind[j] = "plain" /\ landed[j] # <<>> => j \in gone \/ Sunk(j)
    /\ ~ running => \A j \in due : landed[j] # <<>>

\* A plain job that is a whole batch pays, however high the bid.
LEMMA PlainPays ==
  ASSUME NEW ids \in Seq(Jobs), Len(ids) = 1, NEW runs \in Seq(Jobs), Len(runs) = 1,
         kind[ids[1]] = "plain", kind[runs[1]] = "plain", NEW bid \in 0..(TopLevel + 1)
  PROVE  ~ refusal(ids, runs, bid)
<1>1. ToSet(ids) = {ids[1]} /\ ToSet(runs) = {runs[1]}
  <2>1. DOMAIN ids = {1} /\ DOMAIN runs = {1}
    OBVIOUS
  <2> QED BY <2>1 DEF ToSet
<1>2. Costly(runs) = 0
  <2>1. {j \in ToSet(runs) : kind[j] = "costly"} = {}
    BY <1>1
  <2> QED BY <2>1, FS_EmptySet DEF Costly
<1>3. Dear(ids) = 0
  <2>1. {j \in ToSet(ids) : kind[j] \in {"costly", "blocked"} /\ j \notin gone} = {}
    BY <1>1
  <2> QED BY <2>1, FS_EmptySet DEF Dear
<1>4. earned(runs) = 3 /\ cost(ids, bid) = bid + 1
  BY <1>2, <1>3 DEF earned, cost
<1> DEFINE top == TopLevel + 1
<1>5. top \in 1..(TopLevel + 1) /\ top \in Nat /\ bid \in Nat /\ bid <= top
  BY TickAssumption
<1> HIDE DEF top
<1>6. /\ MinProfit \in Int /\ MaxCostPerJob \in Nat
      /\ IF FeeIsNative THEN 3 - (top + 1) >= MinProfit
         ELSE MaxCostPerJob # 0 => top + 1 <= MaxCostPerJob
  BY <1>5, PayAssumption
<1>7. CASE FeeIsNative
  <2>1. ~ (3 - (bid + 1) < MinProfit)
    BY <1>5, <1>6, <1>7
  <2> QED BY <1>4, <1>7, <2>1 DEF refusal
<1>8. CASE ~ FeeIsNative
  <2>1. ~ (MaxCostPerJob # 0 /\ bid + 1 > MaxCostPerJob * 1)
    BY <1>5, <1>6, <1>8
  <2> QED BY <1>4, <1>8, <2>1 DEF refusal
<1> QED BY <1>7, <1>8

\* The batch a task is at is due and not counted yet.
LEMMA Fresh ==
  ASSUME TickInv, LandInv, NEW t \in 1..Len(tasks), tasks[t].at \notin Idle,
         NEW j, In(j, AtHand(t))
  PROVE  j \in Jobs /\ j \in due /\ landed[j] = <<>>
<1>1. j \in Jobs /\ InTodo(j, Left(t))
  BY HandParts
<1> QED BY <1>1, TasksRun DEF LandInv

\* The jobs of D are counted, for the first time.
LEMMA WorkKeeps ==
  ASSUME TickInv, WorkInv, UNCHANGED <<due, kind, dry_run>>, running', gone \subseteq gone',
         trouble => trouble', NEW D, \A j \in D : landed[j] = <<>>,
         \A j \in Jobs : j \notin D => landed'[j] = landed[j],
         ~ trouble' /\ ~ dry_run => \A j \in D : kind[j] = "plain" => j \in gone' \/ Sunk(j)'
  PROVE  WorkInv'
<1>1. due' = due /\ kind' = kind /\ dry_run' = dry_run /\ due \subseteq Jobs
  BY DEF TickInv
<1>2. ASSUME NEW j \in due, Sunk(j) PROVE Sunk(j)'
  <2>1. <<"unprofitable">> # <<>> /\ <<"skipped">> # <<>>
    OBVIOUS
  <2>2. PICK i \in due \ {j} : landed[i] = <<"skipped">> /\ (kind[i] = "blocked" \/ i \in gone)
    BY <1>2 DEF Sunk
  <2>3. landed'[j] = <<"unprofitable">> /\ landed'[i] = <<"skipped">>
    BY <1>1, <1>2, <2>1, <2>2 DEF Sunk
  <2> QED BY <1>1, <2>2, <2>3 DEF Sunk
<1>3. ASSUME ~ trouble', ~ dry_run, NEW j \in due, kind[j] = "plain", landed'[j] # <<>>
      PROVE  j \in gone' \/ Sunk(j)'
  <2>1. CASE j \in D
    BY <1>3, <2>1
  <2>2. CASE j \notin D
    <3>1. landed[j] # <<>>
      BY <1>1, <1>3, <2>2
    <3>2. j \in gone \/ Sunk(j)
      BY <1>3, <3>1 DEF WorkInv
    <3> QED BY <1>2, <3>2
  <2> QED BY <2>1, <2>2
<1> QED BY <1>1, <1>3 DEF WorkInv

\* A failed simulation counts a plain job only when the call failed by itself.
LEMMA FailsWork ==
  ASSUME TickInv, LandInv, WorkInv, NEW t \in 1..Len(tasks), tasks[t].at \notin Idle \cup Sending,
         NEW specific \in BOOLEAN, simulation_fails(t, specific),
         UNCHANGED <<fixed, running, due, gone>>, trouble => trouble',
         specific /\ Len(Batch(t)) = 1 => Culprit(Batch(t)[1]),
         ~ specific => trouble' \/ dry_run
  PROVE  WorkInv'
<1> DEFINE ids == Batch(t)
           D == ToSet(ids)
<1>1. running' /\ UNCHANGED <<due, kind, dry_run>> /\ gone' = gone
  BY TasksRun DEF fixed
<1>2. AtHand(t) = ids /\ tasks[t].at \notin Idle
  BY DEF AtHand
<1>3. ids \in Groups(Jobs) /\ \A j : j \in D <=> In(j, ids)
  BY <1>2, HandParts
<1>4. \A j \in D : landed[j] = <<>>
  BY <1>2, <1>3, Fresh
<1> HIDE DEF D
<1>5. CASE specific /\ Len(ids) > 1
  <2>1. landed' = landed
    BY <1>5 DEF simulation_fails
  <2> DEFINE N == {}
  <2>2. \A j \in N : FALSE
    OBVIOUS
  <2> HIDE DEF N
  <2> QED BY <1>1, <2>1, <2>2, WorkKeeps
<1>6. CASE ~ (specific /\ Len(ids) > 1)
  <2>1. landed' = [j \in Jobs |-> IF j \in D THEN Append(landed[j], "skipped") ELSE landed[j]]
    BY <1>6 DEF simulation_fails, Count, D
  <2>2. \A j \in Jobs : j \notin D => landed'[j] = landed[j]
    BY <2>1
  <2>3. ASSUME ~ trouble', ~ dry_run, NEW j \in D PROVE kind[j] # "plain"
    <3>1. specific
      BY <2>3
    <3>2. Len(ids) = 1
      <4> HIDE DEF ids
      <4>1. Len(ids) = 1 \/ Len(ids) > 1
        BY <1>3, GroupLen
      <4> QED BY <1>6, <3>1, <4>1
    <3>3. j = ids[1]
      <4>1. PICK i \in 1..Len(ids) : ids[i] = j
        BY <1>3 DEF In
      <4> QED BY <3>2, <4>1
    <3>4. Culprit(j)
      BY <3>1, <3>2, <3>3
    <3> QED BY <3>4 DEF Culprit
  <2> QED BY <1>1, <1>4, <2>2, <2>3, WorkKeeps
<1> QED BY <1>5, <1>6

\* A simulation that succeeds skips a plain job only when it is gone, and refuses it
\* only beside a skipped one.
LEMMA SucceedsWork ==
  ASSUME TickInv, LandInv, WorkInv, NEW t \in 1..Len(tasks), tasks[t].at \notin Idle \cup Sending,
         simulation_succeeds(t), UNCHANGED <<fixed, running, due, gone, trouble>>
  PROVE  WorkInv'
<1> DEFINE ids == Batch(t)
           runs == Runnable(ids)
           bid == tasks[t].bid
           S == Skips(t)
           R == Runs(t)
<1>1. /\ running' /\ UNCHANGED <<due, kind, dry_run>> /\ gone' = gone /\ trouble' = trouble
      /\ due \subseteq Jobs
  BY TasksRun DEF fixed, TickInv
<1>2. AtHand(t) = ids /\ tasks[t].at \notin Idle /\ TaskInv
  BY DEF AtHand, TickInv
<1>3. bid \in 0..(TopLevel + 1)
  BY <1>2, TaskTodo
<1>4. /\ ids \in Seq(Jobs) /\ Different(ids) /\ runs \in Seq(Jobs) /\ S \cap R = {}
      /\ \A j : j \in R <=> In(j, runs)
      /\ \A j : j \in S <=> In(j, ids) /\ ~ In(j, runs)
      /\ \A j : In(j, runs) => In(j, ids)
      /\ \A j \in S : kind[j] = "blocked" \/ j \in gone
  BY Simulated
<1>5. \/ landed' = Some(t)
      \/ Len(runs) = 1 /\ refusal(ids, runs, bid) /\ landed' = Both(t, "unprofitable")
      \/ dry_run /\ landed' = Both(t, "dry_run")
  BY Simulated
<1>6. \A j : In(j, ids) => j \in Jobs /\ j \in due /\ landed[j] = <<>>
  BY <1>2, Fresh
<1>7. /\ \A j \in Jobs : Some(t)[j] = IF j \in S THEN Append(landed[j], "skipped") ELSE landed[j]
      /\ \A b : \A j \in Jobs :
            Both(t, b)[j] = IF j \in R THEN Append(landed[j], b)
                            ELSE IF j \in S THEN Append(landed[j], "skipped") ELSE landed[j]
  BY DEF Some, Both
<1> HIDE DEF ids, runs, bid, S, R
<1>8. CASE landed' = Some(t)
  <2>1. \A j \in S : landed[j] = <<>>
    BY <1>4, <1>6
  <2>2. \A j \in Jobs : j \notin S => landed'[j] = landed[j]
    BY <1>7, <1>8
  <2>3. \A j \in S : kind[j] = "plain" => j \in gone' \/ Sunk(j)'
    BY <1>1, <1>4
  <2>4. gone \subseteq gone' /\ (trouble => trouble')
    BY <1>1
  <2> QED BY <1>1, <2>1, <2>2, <2>3, <2>4, WorkKeeps
<1>9. ASSUME NEW b, landed' = Both(t, b),
             ~ trouble' /\ ~ dry_run => \A j \in R : kind[j] = "plain" => Sunk(j)'
      PROVE  WorkInv'
  <2> DEFINE D == S \cup R
  <2>1. \A j \in D : landed[j] = <<>>
    BY <1>4, <1>6
  <2>2. \A j \in Jobs : j \notin D => landed'[j] = landed[j]
    BY <1>7, <1>9
  <2>3. ~ trouble' /\ ~ dry_run => \A j \in D : kind[j] = "plain" => j \in gone' \/ Sunk(j)'
    BY <1>1, <1>4, <1>9
  <2> HIDE DEF D
  <2> QED BY <1>1, <2>1, <2>2, <2>3, WorkKeeps
<1>10. CASE Len(runs) = 1 /\ refusal(ids, runs, bid) /\ landed' = Both(t, "unprofitable")
  <2>1. ASSUME NEW j \in R, kind[j] = "plain" PROVE Sunk(j)'
    <3>1. \A k : In(k, runs) <=> k = j
      <4>1. 1..Len(runs) = {1}
        BY <1>10
      <4> QED BY <1>4, <2>1, <4>1 DEF In
    <3>2. S # {}
      <4> SUFFICES ASSUME S = {} PROVE FALSE
        OBVIOUS
      <4>1. \A k : In(k, ids) <=> k = j
        BY <1>4, <3>1
      <4>2. Len(ids) = 1
        BY <1>4, <4>1, OneLong
      <4>3. ids[1] = j /\ runs[1] = j
        <5>1. 1 \in 1..Len(ids) /\ 1 \in 1..Len(runs)
          BY <1>10, <4>2
        <5> QED BY <3>1, <4>1, <5>1 DEF In
      <4> QED BY <1>3, <1>4, <1>10, <2>1, <4>2, <4>3, PlainPays
    <3>3. PICK i \in S : TRUE
      BY <3>2
    <3>4. i # j /\ i \in due /\ i \in Jobs /\ j \in Jobs /\ landed[i] = <<>> /\ landed[j] = <<>>
          /\ (kind[i] = "blocked" \/ i \in gone)
      BY <1>4, <1>6, <2>1
    <3>5. landed'[j] = <<"unprofitable">> /\ landed'[i] = <<"skipped">>
      <4>1. \A b : Append(<<>>, b) = <<b>>
        OBVIOUS
      <4> QED BY <1>4, <1>7, <1>10, <2>1, <3>3, <3>4, <4>1
    <3> QED BY <1>1, <3>4, <3>5 DEF Sunk
  <2> QED BY <1>9, <1>10, <2>1
<1>11. CASE dry_run /\ landed' = Both(t, "dry_run")
  BY <1>9, <1>11
<1> QED BY <1>5, <1>8, <1>10, <1>11

\* A transaction that is sent runs the plain jobs it was sent for, unless they are gone.
LEMMA SendWork ==
  ASSUME TickInv, LandInv, WorkInv, NEW t \in 1..Len(tasks),
         send(t) \/ \E ran, fee_related \in BOOLEAN : send_fails(t, ran, fee_related)
  PROVE  WorkInv'
<1> DEFINE runs == tasks[t].runnable
           ids == tasks[t].ids
           D == ToSet(runs)
<1>1. /\ tasks[t].at \in Sending /\ UNCHANGED <<fixed, running, due>> /\ gone \subseteq gone'
      /\ trouble => trouble'
      /\ trouble' \/ gone' = gone \cup ToSet(Runnable(ids))
      /\ \E b \in Buckets : landed' = Count(runs, b)
  BY DEF send, send_fails, Sending, Buckets
<1>2. running' /\ UNCHANGED <<due, kind, dry_run>>
  BY <1>1, TasksRun DEF fixed
<1>3. TaskInv /\ tasks[t].at \notin Idle /\ AtHand(t) = runs
  BY <1>1 DEF TickInv, AtHand, Idle, Sending
<1>4. \A j : j \in D <=> In(j, runs)
  BY <1>3, HandParts
<1>5. ids \in Seq(Jobs) /\ \A j : In(j, runs) => In(j, ids)
  <2>1. tasks[t] \in Task /\ TaskSound(t)
    BY <1>3 DEF TaskInv
  <2> QED BY <1>1, <2>1 DEF Task, TaskSound
<1>6. \A j \in D : j \in Jobs /\ landed[j] = <<>>
  BY <1>3, <1>4, Fresh
<1>7. PICK b \in Buckets :
         landed' = [j \in Jobs |-> IF j \in D THEN Append(landed[j], b) ELSE landed[j]]
  BY <1>1 DEF Count
<1> HIDE DEF D
<1>8. \A j \in Jobs : j \notin D => landed'[j] = landed[j]
  BY <1>7
<1> HIDE DEF ids, runs
<1>9. ASSUME ~ trouble', NEW j \in D, kind[j] = "plain" PROVE j \in gone'
  <2>1. gone' = gone \cup ToSet(Runnable(ids))
    BY <1>1, <1>9
  <2>2. /\ Runnable(ids) \in Seq(Jobs)
        /\ In(j, Runnable(ids)) <=>
              (j \in Jobs /\ kind[j] # "blocked" /\ j \notin gone /\ In(j, ids))
    BY <1>5, RunnableParts
  <2>3. j \in ToSet(Runnable(ids)) <=> In(j, Runnable(ids))
    BY <2>2, ToSetIn
  <2> QED BY <1>4, <1>5, <1>6, <1>9, <2>1, <2>2, <2>3
<1> QED BY <1>1, <1>2, <1>6, <1>8, <1>9, WorkKeeps

\* Nothing is counted.
LEMMA WorkSame ==
  ASSUME TickInv, WorkInv, running', UNCHANGED <<due, kind, dry_run, landed, trouble>>,
         gone \subseteq gone'
  PROVE  WorkInv'
<1> DEFINE N == {}
<1>1. \A j \in N : FALSE
  OBVIOUS
<1> HIDE DEF N
<1> QED BY <1>1, WorkKeeps

\* Every step of a task.
LEMMA TaskWork ==
  ASSUME TickInv, LandInv, WorkInv, NEW t \in 1..Len(tasks), Step(t)
  PROVE  WorkInv'
<1> DEFINE ids == Batch(t)
<1>1. CASE prepare(t)
  <2>1. tasks[t].at \notin Idle \cup Sending /\ UNCHANGED <<fixed, running, due, gone, trouble>>
    BY <1>1 DEF prepare, Idle, Sending
  <2>2. ids \in Seq(Jobs)
    BY <2>1, TaskTodo DEF TickInv, Groups
  <2>3. \/ (Spoils(ids) \/ Cardinality(Archived(ids)) > MaxRestoreFee) /\ simulation_fails(t, TRUE)
        \/ simulation_succeeds(t)
        \/ dry_run /\ simulation_fails(t, FALSE)
        \/ UNCHANGED landed
    BY <1>1 DEF prepare
  <2>4. CASE (Spoils(ids) \/ Cardinality(Archived(ids)) > MaxRestoreFee) /\ simulation_fails(t, TRUE)
    <3> HIDE DEF ids
    <3>1. Len(ids) = 1 => Culprit(ids[1])
      BY <2>2, <2>4, Blamed
    <3> QED BY <2>1, <2>4, <3>1, FailsWork DEF ids
  <2>5. CASE simulation_succeeds(t)
    BY <2>1, <2>5, SucceedsWork
  <2>6. CASE dry_run /\ simulation_fails(t, FALSE)
    BY <2>1, <2>6, FailsWork
  <2>7. CASE UNCHANGED landed
    BY <2>1, <2>7, TasksRun, WorkSame DEF fixed
  <2> QED BY <2>3, <2>4, <2>5, <2>6, <2>7
<1>2. CASE prepare_fails(t)
  <2>1. /\ tasks[t].at \notin Idle \cup Sending /\ simulation_fails(t, FALSE) /\ trouble'
        /\ UNCHANGED <<fixed, running, due, gone>>
    BY <1>2 DEF prepare_fails, Idle, Sending
  <2> QED BY <2>1, FailsWork
<1>3. CASE send(t) \/ \E ran, fee_related \in BOOLEAN : send_fails(t, ran, fee_related)
  BY <1>3, SendWork
<1>4. CASE restore(t) \/ sequence_error(t) \/ resimulate(t)
  <2>1. UNCHANGED <<fixed, running, due, gone, landed, trouble>>
    BY <1>4 DEF restore, sequence_error, resimulate
  <2> QED BY <2>1, TasksRun, WorkSame DEF fixed
<1> QED BY <1>1, <1>2, <1>3, <1>4 DEF Step

\* Whoever sits out a tick is a culprit.
LEMMA StartWork ==
  ASSUME TickInv, NEW all_due \in SUBSET Jobs, tick(all_due)
  PROVE  WorkInv'
<1> DEFINE sits_out == {j \in all_due : quarantine_next[j] > 0}
<1>1. /\ due' = all_due /\ running' /\ UNCHANGED fixed
      /\ landed' = [j \in Jobs |-> IF j \in sits_out THEN <<"skipped">> ELSE <<>>]
  BY DEF tick
<1>2. \A j \in Jobs : quarantine_next[j] > 0 => Culprit(j)
  <2>1. aside \in [Jobs -> Nat] /\ \A j \in Jobs : aside[j] > 0 => Culprit(j)
    BY DEF TickInv, OnlyCulpritsSetAside, Culprit
  <2> QED BY <2>1 DEF quarantine_next
<1>3. \A j \in all_due : kind'[j] = "plain" => landed'[j] = <<>>
  BY <1>1, <1>2 DEF Culprit, fixed
<1> QED BY <1>1, <1>3 DEF WorkInv

\* Every step of the bot and of other keepers.
LEMMA WorkStep == ASSUME TickInv, LandInv, WorkInv, [Next]_vars PROVE WorkInv'
<1>1. ASSUME NEW all_due \in SUBSET Jobs, tick(all_due) PROVE WorkInv'
  BY <1>1, StartWork
<1>2. ASSUME NEW t \in 1..Len(tasks), Step(t) PROVE WorkInv'
  BY <1>2, TaskWork
<1>3. CASE tick_ends
  <2>1. \A j \in due : landed[j] # <<>>
    BY <1>3, AllCounted
  <2>2. UNCHANGED <<fixed, due, gone, landed, trouble>>
    BY <1>3 DEF tick_ends
  <2> QED BY <2>1, <2>2 DEF WorkInv, Sunk, fixed
<1>4. ASSUME NEW j \in Jobs, Rival(j) PROVE WorkInv'
  <2>1. running' /\ gone \subseteq gone' /\ UNCHANGED <<fixed, due, landed, trouble>>
    BY <1>4 DEF Rival
  <2> QED BY <2>1, WorkSame DEF fixed
<1>5. CASE UNCHANGED vars
  BY <1>5 DEF WorkInv, Sunk, vars, fixed
<1> QED BY <1>1, <1>2, <1>3, <1>4, <1>5 DEF Next, Bot

\* Halving finds the culprit: at the end of a tick in which no call failed by itself,
\* every plain job that was due has run, whatever bad, costly or archived job shared
\* its batch, for any batch size, number of jobs and interleaving of tasks and other
\* keepers.  The exception is the code's: a plain job is counted as unprofitable when
\* it alone of its batch would run and another was skipped (runBatch).
THEOREM PayingSafe == Spec => []PayingJobsRun
<1>1. Init => LandInv /\ WorkInv
  BY DEF Init, LandInv, WorkInv
<1>2. ASSUME TickInv, LandInv, WorkInv, [Next]_vars PROVE LandInv' /\ WorkInv'
  BY <1>2, LandStep, WorkStep
<1>3. WorkInv => PayingJobsRun
  BY DEF WorkInv, Sunk, PayingJobsRun
<1> QED BY <1>1, <1>2, <1>3, TickInvariant, PTL DEF Spec
=============================================================================
