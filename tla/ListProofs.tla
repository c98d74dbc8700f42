----------------------------- MODULE ListProofs -----------------------------
(***************************************************************************)
(* What the other proof modules say of lists.  Induction and recursion     *)
(* over the naturals are stated with sets and functions instead of         *)
(* operators, so that the provers can use them: with these the proofs show *)
(* what recursive functions and folds compute.  Then what a list holds,    *)
(* filtered, cut into batches and halved: no job is lost or doubled.       *)
(***************************************************************************)
EXTENDS JobBatches, SequencesExt, WellFoundedInduction, NaturalsInduction, TLAPS

\* Induction for a set instead of a predicate: the least natural outside T would
\* have a predecessor in T.
LEMMA NatRule ==
  ASSUME NEW T, T \subseteq Nat, 0 \in T, \A n \in T : n + 1 \in T
  PROVE  T = Nat
<1> DEFINE R == OpToRel(<, Nat)
           B == Nat \ T
<1> SUFFICES ASSUME B # {} PROVE FALSE
  OBVIOUS
<1>1. IsWellFoundedOn(R, Nat)
  BY NatLessThanWellFounded
<1>2. \A x, y \in Nat : x < y => <<x, y>> \in R
  BY DEF OpToRel
<1>3. B \subseteq Nat
  OBVIOUS
<1> HIDE DEF R, B
<1>4. PICK x \in B : \A y \in B : ~ (<<y, x>> \in R)
  BY <1>1, <1>3, WFMin
<1>5. x \in Nat /\ x # 0
  BY <1>3, <1>4 DEF B
<1>6. x - 1 \in Nat /\ x - 1 < x
  BY <1>5
<1>7. x - 1 \in T
  BY <1>2, <1>4, <1>5, <1>6 DEF B
<1>8. x \in T
  BY <1>5, <1>7
<1> QED BY <1>4, <1>8 DEF B

\* What primitive recursion up to N starts from: a value for each step and value.
StepsOn(step, N, V) == step \in [1..N -> [V -> V]]

\* What it computes: f[0] is b, and f[n] is step[n] of f[n - 1].
RecursionOn(f, step, b, N, V) ==
    f \in [0..N -> V] /\ f[0] = b /\ \A n \in 1..N : f[n] = step[n][f[n - 1]]

\* Primitive recursion up to N has a result.
LEMMA NatRecursion ==
  ASSUME NEW N \in Nat, NEW V, NEW b \in V, NEW step, StepsOn(step, N, V)
  PROVE  \E f : RecursionOn(f, step, b, N, V)
<1> USE DEF StepsOn, RecursionOn
<1> DEFINE Good(f, m) == f[0] = b /\ \A n \in 1..m : f[n] = step[n][f[n - 1]]
           T == {m \in Nat : m <= N => \E f \in [0..m -> V] : Good(f, m)}
<1>1. 0 \in T
  <2>1. [i \in 0..0 |-> b] \in [0..0 -> V] /\ Good([i \in 0..0 |-> b], 0)
    OBVIOUS
  <2> QED BY <2>1
<1>2. ASSUME NEW m \in T PROVE m + 1 \in T
  <2> SUFFICES ASSUME m + 1 <= N PROVE \E f \in [0..(m + 1) -> V] : Good(f, m + 1)
    OBVIOUS
  <2>1. m \in Nat /\ m <= N
    OBVIOUS
  <2>2. PICK f \in [0..m -> V] : Good(f, m)
    BY <2>1
  <2> DEFINE g == [i \in 0..(m + 1) |-> IF i <= m THEN f[i] ELSE step[m + 1][f[m]]]
  <2>3. step[m + 1][f[m]] \in V
    BY <2>1
  <2>4. g \in [0..(m + 1) -> V]
    BY <2>1, <2>3
  <2>5. ASSUME NEW n \in 1..(m + 1) PROVE g[n] = step[n][g[n - 1]]
    <3>1. CASE n <= m
      BY <2>1, <2>2, <3>1
    <3>2. CASE n = m + 1
      BY <2>1, <3>2
    <3> QED BY <2>1, <3>1, <3>2
  <2>6. g[0] = b
    BY <2>1, <2>2
  <2> QED BY <2>4, <2>5, <2>6
<1> HIDE DEF T
<1>3. T = Nat
  <2>1. T \subseteq Nat
    BY DEF T
  <2> QED BY <1>1, <1>2, <2>1, NatRule
<1> QED BY <1>3 DEF T

-----------------------------------------------------------------------------
(* Sequences. *)

In(x, s) == \E i \in 1..Len(s) : s[i] = x

Different(s) == \A m, n \in 1..Len(s) : s[m] = s[n] => m = n

\* What Append does, element by element.
LEMMA AppendParts ==
  ASSUME NEW X, NEW s \in Seq(X), NEW e \in X
  PROVE  /\ Append(s, e) \in Seq(X) /\ Len(Append(s, e)) = Len(s) + 1 /\ Len(s) \in Nat
         /\ Append(s, e)[Len(s) + 1] = e
         /\ \A i \in 1..Len(s) : Append(s, e)[i] = s[i]
         /\ \A x : In(x, Append(s, e)) <=> (In(x, s) \/ x = e)
<1> DEFINE t == Append(s, e)
<1>1. /\ t \in Seq(X) /\ Len(t) = Len(s) + 1 /\ Len(s) \in Nat
      /\ t[Len(s) + 1] = e /\ \A i \in 1..Len(s) : t[i] = s[i]
  OBVIOUS
<1> HIDE DEF t
<1>2. \A i : i \in 1..Len(t) <=> (i = Len(s) + 1 \/ i \in 1..Len(s))
  BY <1>1
<1>3. \A x : In(x, t) <=> (In(x, s) \/ x = e)
  BY <1>1, <1>2 DEF In
<1> QED BY <1>1, <1>3 DEF t

\* Appending something new to a list without repetitions.
LEMMA AppendDifferent ==
  ASSUME NEW X, NEW s \in Seq(X), NEW e \in X, Different(s), ~ In(e, s)
  PROVE  Different(Append(s, e))
<1> DEFINE t == Append(s, e)
<1>1. /\ Len(t) = Len(s) + 1 /\ Len(s) \in Nat
      /\ t[Len(s) + 1] = e /\ \A i \in 1..Len(s) : t[i] = s[i]
  BY AppendParts
<1> HIDE DEF t
<1>2. \A i : i \in 1..Len(t) <=> (i = Len(s) + 1 \/ i \in 1..Len(s))
  BY <1>1
<1>3. /\ \A i \in 1..Len(s) : s[i] # e
      /\ \A i, k \in 1..Len(s) : s[i] = s[k] => i = k
  BY DEF In, Different
<1>4. Different(t)
  BY <1>1, <1>2, <1>3 DEF Different
<1> QED BY <1>4 DEF t

\* A filtered list holds exactly the wanted elements.
LEMMA FilterParts ==
  ASSUME NEW X, NEW s \in Seq(X), NEW wanted
  PROVE  /\ Filter(s, wanted) \in Seq(X)
         /\ \A x : In(x, Filter(s, wanted)) <=> (x \in wanted /\ In(x, s))
         /\ Different(s) => Different(Filter(s, wanted))
<1> DEFINE N == Len(s)
           All == Seq(X)
           Grown(n, f) == IF s[n] \in wanted THEN Append(f, s[n]) ELSE f
           step == [n \in 1..N |-> [f \in All |-> Grown(n, f)]]
           Rule(f) == f = [n \in 0..N |-> IF n = 0 THEN <<>>
                              ELSE IF s[n] \in wanted THEN Append(f[n - 1], s[n]) ELSE f[n - 1]]
           kept == CHOOSE f : Rule(f)
<1>1. N \in Nat /\ \A n \in 1..N : s[n] \in X
  OBVIOUS
<1>2. <<>> \in All /\ \A f \in All, e \in X : Append(f, e) \in All
  OBVIOUS
<1> HIDE DEF N, All
<1>3. step \in [1..N -> [All -> All]]
  BY <1>1, <1>2
<1>4. PICK f : RecursionOn(f, step, <<>>, N, All)
  <2> HIDE DEF step
  <2>1. StepsOn(step, N, All)
    BY <1>3 DEF StepsOn
  <2> QED BY <1>1, <1>2, <2>1, NatRecursion
<1>5. Rule(f)
  <2>0. /\ f \in [0..N -> All] /\ f[0] = <<>>
        /\ \A n \in 1..N : f[n] = step[n][f[n - 1]]
    BY <1>4 DEF RecursionOn
  <2>1. ASSUME NEW n \in 1..N PROVE f[n] = Grown(n, f[n - 1])
    <3>1. n - 1 \in 0..N
      BY <1>1
    <3>2. f[n - 1] \in All
      BY <2>0, <3>1
    <3>3. step[n][f[n - 1]] = Grown(n, f[n - 1])
      BY <3>2
    <3> QED BY <2>0, <3>3
  <2> HIDE DEF step
  <2>2. ASSUME NEW n \in 0..N
        PROVE  f[n] = IF n = 0 THEN <<>>
                      ELSE IF s[n] \in wanted THEN Append(f[n - 1], s[n]) ELSE f[n - 1]
    <3>1. CASE n = 0
      BY <2>0, <3>1
    <3>2. CASE n # 0
      <4>1. n \in 1..N
        BY <1>1, <3>2
      <4> QED BY <2>1, <3>2, <4>1
    <3> QED BY <3>1, <3>2
  <2> QED BY <2>0, <2>2
<1>6. Rule(kept)
  BY <1>5
<1>7. Filter(s, wanted) = kept[N]
  BY DEF Filter, N
<1> HIDE DEF kept
<1>8. /\ kept[0] = <<>>
      /\ \A n \in 1..N : kept[n] = Grown(n, kept[n - 1])
  <2>1. ASSUME NEW n \in 0..N
        PROVE  kept[n] = IF n = 0 THEN <<>>
                         ELSE IF s[n] \in wanted THEN Append(kept[n - 1], s[n]) ELSE kept[n - 1]
    BY <1>6
  <2>2. 0 \in 0..N /\ \A n \in 1..N : n \in 0..N /\ n # 0
    BY <1>1
  <2> QED BY <2>1, <2>2
<1> DEFINE Sound == {n \in Nat : n <= N =>
              /\ kept[n] \in All
              /\ \A x : In(x, kept[n]) <=> (x \in wanted /\ \E i \in 1..n : s[i] = x)
              /\ Different(s) => Different(kept[n])}
<1>9. 0 \in Sound
  <2>1. kept[0] = <<>> /\ Len(kept[0]) = 0 /\ 1..0 = {}
    BY <1>8
  <2> QED BY <1>2, <2>1 DEF In, Different
<1>10. ASSUME NEW m \in Sound PROVE m + 1 \in Sound
  <2> SUFFICES ASSUME m + 1 <= N
               PROVE  /\ kept[m + 1] \in All
                      /\ \A x : In(x, kept[m + 1])
                              <=> (x \in wanted /\ \E i \in 1..(m + 1) : s[i] = x)
                      /\ Different(s) => Different(kept[m + 1])
    OBVIOUS
  <2>1. /\ m \in Nat /\ kept[m] \in All
        /\ \A x : In(x, kept[m]) <=> (x \in wanted /\ \E i \in 1..m : s[i] = x)
        /\ Different(s) => Different(kept[m])
    BY <1>1
  <2>2. \A x : (\E i \in 1..(m + 1) : s[i] = x)
             <=> (s[m + 1] = x \/ \E i \in 1..m : s[i] = x)
    <3>1. \A i : i \in 1..(m + 1) <=> (i = m + 1 \/ i \in 1..m)
      BY <2>1
    <3> QED BY <3>1
  <2>3. kept[m + 1] = Grown(m + 1, kept[m]) /\ s[m + 1] \in X
    <3>1. m + 1 \in 1..N /\ (m + 1) - 1 = m
      BY <1>1, <2>1
    <3> QED BY <1>1, <1>8, <3>1
  <2>4. CASE s[m + 1] \notin wanted
    BY <2>1, <2>2, <2>3, <2>4
  <2>5. CASE s[m + 1] \in wanted
    <3> DEFINE e == s[m + 1]
               new == Append(kept[m], e)
    <3>1. new \in All /\ \A x : In(x, new) <=> (In(x, kept[m]) \/ x = e)
      BY <2>1, <2>3, AppendParts DEF All
    <3>2. kept[m + 1] = new
      BY <2>3, <2>5
    <3>3. Different(s) => Different(new)
      <4> SUFFICES ASSUME Different(s) PROVE Different(new)
        OBVIOUS
      <4>1. m + 1 \in 1..N /\ \A i \in 1..m : i \in 1..N /\ i # m + 1
        BY <1>1, <2>1
      <4>2. ~ \E i \in 1..m : s[i] = e
        BY <4>1 DEF Different, N
      <4>3. ~ In(e, kept[m])
        BY <2>1, <4>2
      <4> QED BY <2>1, <2>3, <4>3, AppendDifferent DEF All
    <3> HIDE DEF new
    <3> QED BY <2>1, <2>2, <2>5, <3>1, <3>2, <3>3
  <2> QED BY <2>4, <2>5
<1> HIDE DEF Sound
<1>11. Sound = Nat
  <2>1. Sound \subseteq Nat
    BY DEF Sound
  <2> QED BY <1>9, <1>10, <2>1, NatRule
<1>12. N \in Sound /\ N <= N
  BY <1>1, <1>11
<1>13. /\ kept[N] \in All
       /\ \A x : In(x, kept[N]) <=> (x \in wanted /\ \E i \in 1..N : s[i] = x)
       /\ Different(s) => Different(kept[N])
  BY <1>12 DEF Sound
<1> QED BY <1>7, <1>13 DEF In, N, All

\* A list is its head and its tail.
LEMMA HeadTail ==
  ASSUME NEW X, NEW s \in Seq(X), s # <<>>
  PROVE  /\ Head(s) \in X /\ Tail(s) \in Seq(X)
         /\ Len(Tail(s)) = Len(s) - 1 /\ Len(s) \in Nat \ {0}
         /\ \A i \in 1..Len(Tail(s)) : Tail(s)[i] = s[i + 1]
         /\ Head(s) = s[1]
         /\ \A x : In(x, s) <=> (x = Head(s) \/ In(x, Tail(s)))
<1>1. /\ Head(s) \in X /\ Tail(s) \in Seq(X)
      /\ Len(Tail(s)) = Len(s) - 1 /\ Len(s) \in Nat \ {0}
      /\ \A i \in 1..Len(Tail(s)) : Tail(s)[i] = s[i + 1]
      /\ Head(s) = s[1]
  OBVIOUS
<1>2. ASSUME NEW x, In(x, s) PROVE x = Head(s) \/ In(x, Tail(s))
  <2>1. PICK i \in 1..Len(s) : s[i] = x
    BY <1>2 DEF In
  <2>2. CASE i = 1
    BY <1>1, <2>1, <2>2
  <2>3. CASE i # 1
    <3>1. i - 1 \in 1..Len(Tail(s)) /\ (i - 1) + 1 = i
      BY <1>1, <2>3
    <3>2. Tail(s)[i - 1] = x
      BY <1>1, <2>1, <3>1
    <3> QED BY <3>1, <3>2 DEF In
  <2> QED BY <2>2, <2>3
<1>3. ASSUME NEW x, x = Head(s) \/ In(x, Tail(s)) PROVE In(x, s)
  <2>1. CASE x = Head(s)
    BY <1>1, <2>1 DEF In
  <2>2. CASE In(x, Tail(s))
    <3>1. PICK i \in 1..Len(Tail(s)) : Tail(s)[i] = x
      BY <2>2 DEF In
    <3>2. i + 1 \in 1..Len(s) /\ s[i + 1] = x
      BY <1>1, <3>1
    <3> QED BY <3>2 DEF In
  <2> QED BY <1>3, <2>1, <2>2
<1> QED BY <1>1, <1>2, <1>3

\* A concatenation holds what its parts hold.
LEMMA ConcatParts ==
  ASSUME NEW X, NEW s \in Seq(X), NEW t \in Seq(X)
  PROVE  /\ s \o t \in Seq(X) /\ Len(s \o t) = Len(s) + Len(t)
         /\ Len(s) \in Nat /\ Len(t) \in Nat
         /\ \A x : In(x, s \o t) <=> (In(x, s) \/ In(x, t))
<1> DEFINE u == s \o t
<1>1. /\ u \in Seq(X) /\ Len(u) = Len(s) + Len(t)
      /\ Len(s) \in Nat /\ Len(t) \in Nat
      /\ \A i \in 1..Len(u) : u[i] = IF i <= Len(s) THEN s[i] ELSE t[i - Len(s)]
  OBVIOUS
<1> HIDE DEF u
<1>2. ASSUME NEW x, In(x, u) PROVE In(x, s) \/ In(x, t)
  <2>1. PICK i \in 1..Len(u) : u[i] = x
    BY <1>2 DEF In
  <2>2. CASE i <= Len(s)
    <3>1. i \in 1..Len(s) /\ s[i] = x
      BY <1>1, <2>1, <2>2
    <3> QED BY <3>1 DEF In
  <2>3. CASE i > Len(s)
    <3>1. i - Len(s) \in 1..Len(t) /\ t[i - Len(s)] = x
      BY <1>1, <2>1, <2>3
    <3> QED BY <3>1 DEF In
  <2> QED BY <1>1, <2>2, <2>3
<1>3. ASSUME NEW x, In(x, s) PROVE In(x, u)
  <2>1. PICK i \in 1..Len(s) : s[i] = x
    BY <1>3 DEF In
  <2>2. i \in 1..Len(u) /\ u[i] = x
    BY <1>1, <2>1
  <2> QED BY <2>2 DEF In
<1>4. ASSUME NEW x, In(x, t) PROVE In(x, u)
  <2>1. PICK i \in 1..Len(t) : t[i] = x
    BY <1>4 DEF In
  <2>2. /\ Len(s) + i \in 1..Len(u) /\ ~ (Len(s) + i <= Len(s)) /\ (Len(s) + i) - Len(s) = i
    BY <1>1, <2>1
  <2>3. u[Len(s) + i] = x
    BY <1>1, <2>1, <2>2
  <2> QED BY <2>2, <2>3 DEF In
<1> QED BY <1>1, <1>2, <1>3, <1>4 DEF u

\* What a part of a list holds.
LEMMA PartOf ==
  ASSUME NEW X, NEW s \in Seq(X), NEW m \in 1..Len(s), NEW n \in m..Len(s)
  PROVE  /\ SubSeq(s, m, n) \in Seq(X) /\ SubSeq(s, m, n) # <<>>
         /\ Len(SubSeq(s, m, n)) = n - m + 1
         /\ \A i \in m..n : In(s[i], SubSeq(s, m, n))
         /\ \A x : In(x, SubSeq(s, m, n)) => In(x, s)
<1> DEFINE u == SubSeq(s, m, n)
<1>1. Len(s) \in Nat
  OBVIOUS
<1>2. /\ u \in Seq(X) /\ Len(u) = n - m + 1
      /\ \A i \in 1..(n - m + 1) : u[i] = s[m + i - 1]
  BY <1>1
<1> HIDE DEF u
<1>3. u # <<>>
  BY <1>1, <1>2
<1>4. ASSUME NEW i \in m..n PROVE In(s[i], u)
  <2>1. i - m + 1 \in 1..(n - m + 1) /\ m + (i - m + 1) - 1 = i
    BY <1>1
  <2>2. u[i - m + 1] = s[i]
    BY <1>2, <2>1
  <2> QED BY <1>2, <2>1, <2>2 DEF In
<1>5. ASSUME NEW x, In(x, u) PROVE In(x, s)
  <2>1. PICK i \in 1..(n - m + 1) : u[i] = x
    BY <1>2, <1>5 DEF In
  <2>2. m + i - 1 \in 1..Len(s) /\ s[m + i - 1] = x
    BY <1>1, <1>2, <2>1
  <2> QED BY <2>2 DEF In
<1> QED BY <1>2, <1>3, <1>4, <1>5 DEF u

\* Where a part of a list has its elements from.
LEMMA PartPlaces ==
  ASSUME NEW X, NEW s \in Seq(X), NEW m \in 1..Len(s), NEW n \in m..Len(s)
  PROVE  /\ \A x : In(x, SubSeq(s, m, n)) <=> \E i \in m..n : s[i] = x
         /\ Different(s) => Different(SubSeq(s, m, n))
<1> DEFINE u == SubSeq(s, m, n)
           len == n - m + 1
<1>1. Len(s) \in Nat
  OBVIOUS
<1>2. Len(u) = len /\ \A i \in 1..len : u[i] = s[m + i - 1]
  BY <1>1
<1>3. /\ \A i \in 1..len : m + i - 1 \in m..n /\ m + i - 1 \in 1..Len(s)
      /\ \A i, k \in 1..len : m + i - 1 = m + k - 1 => i = k
  BY <1>1
<1> HIDE DEF u, len
<1>4. ASSUME NEW x, In(x, u) PROVE \E i \in m..n : s[i] = x
  BY <1>2, <1>3, <1>4 DEF In
<1>5. ASSUME Different(s) PROVE Different(u)
  <2>1. \A i, k \in 1..Len(s) : s[i] = s[k] => i = k
    BY <1>5 DEF Different
  <2> SUFFICES ASSUME NEW i \in 1..len, NEW k \in 1..len, u[i] = u[k] PROVE i = k
    BY <1>2 DEF Different
  <2>2. s[m + i - 1] = s[m + k - 1]
    BY <1>2
  <2>3. m + i - 1 = m + k - 1
    BY <1>3, <2>1, <2>2
  <2> QED BY <1>3, <2>3
<1>6. ASSUME NEW x, NEW i \in m..n, s[i] = x PROVE In(x, u)
  BY <1>6, PartOf DEF u
<1> QED BY <1>4, <1>5, <1>6 DEF u

\* ToSet, as In.
LEMMA ToSetIn ==
  ASSUME NEW X, NEW s \in Seq(X)
  PROVE  \A x : x \in ToSet(s) <=> In(x, s)
<1>1. DOMAIN s = 1..Len(s)
  OBVIOUS
<1> QED BY <1>1 DEF ToSet, In

\* A list that holds one job once.
LEMMA OneLong ==
  ASSUME NEW X, NEW s \in Seq(X), NEW x, Different(s), \A y : In(y, s) <=> y = x
  PROVE  Len(s) = 1
<1>1. Len(s) \in Nat
  OBVIOUS
<1>2. PICK i \in 1..Len(s) : s[i] = x
  BY DEF In
<1>3. \A k \in 1..Len(s) : k = i
  <2> SUFFICES ASSUME NEW k \in 1..Len(s) PROVE k = i
    OBVIOUS
  <2>1. s[k] = x
    BY DEF In
  <2> QED BY <1>2, <2>1 DEF Different
<1>4. 1 \in 1..Len(s) /\ Len(s) \in 1..Len(s)
  BY <1>1, <1>2
<1> QED BY <1>3, <1>4

-----------------------------------------------------------------------------
(* Batches. *)

\* A batch holds at least one job.
Groups(X) == {b \in Seq(X) : b # <<>>}

\* A batch is one job or several.
LEMMA GroupLen ==
  ASSUME NEW X, NEW b \in Groups(X)
  PROVE  (Len(b) = 1 \/ Len(b) > 1) /\ Len(b) \in Nat
<1> DEFINE n == Len(b)
<1>1. n \in Nat /\ n # 0
  BY DEF Groups
<1> HIDE DEF n
<1>2. n = 1 \/ n > 1
  BY <1>1
<1> QED BY <1>1, <1>2 DEF n

\* Whether a job is in one of the batches to do.
InTodo(j, todo) == \E n \in 1..Len(todo) : In(j, todo[n])

\* No job is in two places of the batches to do.
Apart(todo) ==
    /\ \A n \in 1..Len(todo) : Different(todo[n])
    /\ \A m, n \in 1..Len(todo) : \A j : In(j, todo[m]) /\ In(j, todo[n]) => m = n

\* Halving a batch of several jobs gives two batches, and neither loses nor
\* doubles a job.
LEMMA Halves ==
  ASSUME NEW X, NEW ids \in Seq(X), Len(ids) > 1
  PROVE  /\ halves(ids) \in Seq(Groups(X))
         /\ \A j : In(j, ids) <=> InTodo(j, halves(ids))
         /\ Different(ids) => Apart(halves(ids))
<1> DEFINE half == (Len(ids) + 1) \div 2
           a == SubSeq(ids, 1, half)
           b == SubSeq(ids, half + 1, Len(ids))
<1>1. half \in 1..Len(ids) /\ half + 1 \in 1..Len(ids) /\ Len(ids) \in Nat
  OBVIOUS
<1>2. halves(ids) = <<a, b>>
  BY DEF halves
<1> HIDE DEF half
<1>3. a \in Groups(X) /\ (\A x : In(x, a) <=> \E i \in 1..half : ids[i] = x)
      /\ (Different(ids) => Different(a))
  <2>1. 1 \in 1..Len(ids) /\ half \in 1..Len(ids)
    BY <1>1
  <2> QED BY <2>1, PartOf, PartPlaces DEF Groups
<1>4. b \in Groups(X) /\ (\A x : In(x, b) <=> \E i \in (half + 1)..Len(ids) : ids[i] = x)
      /\ (Different(ids) => Different(b))
  <2> DEFINE m == half + 1
             n == Len(ids)
  <2>1. m \in 1..Len(ids) /\ n \in m..Len(ids)
    BY <1>1
  <2> HIDE DEF m, n
  <2>2. /\ SubSeq(ids, m, n) \in Seq(X) /\ SubSeq(ids, m, n) # <<>>
        /\ \A x : In(x, SubSeq(ids, m, n)) <=> \E i \in m..n : ids[i] = x
        /\ Different(ids) => Different(SubSeq(ids, m, n))
    BY <2>1, PartOf, PartPlaces
  <2> QED BY <2>2 DEF Groups, m, n
<1> HIDE DEF a, b
<1>5. <<a, b>> \in Seq(Groups(X))
  BY <1>3, <1>4
<1>6. Len(<<a, b>>) = 2 /\ <<a, b>>[1] = a /\ <<a, b>>[2] = b /\ 1..2 = {1, 2}
  OBVIOUS
<1>7. \A j : InTodo(j, <<a, b>>) <=> (In(j, a) \/ In(j, b))
  BY <1>6 DEF InTodo
<1>8. \A i : i \in 1..Len(ids) <=> (i \in 1..half \/ i \in (half + 1)..Len(ids))
  BY <1>1
<1>9. \A j : In(j, ids) <=> (In(j, a) \/ In(j, b))
  BY <1>3, <1>4, <1>8 DEF In
<1>10. ASSUME Different(ids) PROVE Apart(<<a, b>>)
  <2>1. ASSUME NEW j, In(j, a), In(j, b) PROVE FALSE
    <3>1. PICK i \in 1..half : ids[i] = j
      BY <1>3, <2>1
    <3>2. PICK k \in (half + 1)..Len(ids) : ids[k] = j
      BY <1>4, <2>1
    <3>3. i \in 1..Len(ids) /\ k \in 1..Len(ids) /\ i # k
      BY <1>1
    <3> QED BY <1>10, <3>1, <3>2, <3>3 DEF Different
  <2> QED BY <1>3, <1>4, <1>6, <1>10, <2>1 DEF Apart
<1> QED BY <1>2, <1>5, <1>7, <1>9, <1>10

\* Batches to do: the first and the later ones.
LEMMA TodoParts ==
  ASSUME NEW X, NEW todo \in Seq(Groups(X)), todo # <<>>
  PROVE  /\ Head(todo) \in Groups(X) /\ Tail(todo) \in Seq(Groups(X))
         /\ \A j : InTodo(j, todo) <=> (In(j, Head(todo)) \/ InTodo(j, Tail(todo)))
         /\ Apart(todo) => /\ Different(Head(todo)) /\ Apart(Tail(todo))
                           /\ \A j : ~ (In(j, Head(todo)) /\ InTodo(j, Tail(todo)))
<1>1. /\ Head(todo) \in Groups(X) /\ Tail(todo) \in Seq(Groups(X))
      /\ \A b : In(b, todo) <=> (b = Head(todo) \/ In(b, Tail(todo)))
      /\ Len(Tail(todo)) = Len(todo) - 1 /\ Len(todo) \in Nat \ {0}
      /\ \A i \in 1..Len(Tail(todo)) : Tail(todo)[i] = todo[i + 1]
      /\ Head(todo) = todo[1]
  BY HeadTail
<1>2. \A j : InTodo(j, todo) <=> \E b : In(b, todo) /\ In(j, b)
  BY DEF InTodo, In
<1>3. \A j : InTodo(j, Tail(todo)) <=> \E b : In(b, Tail(todo)) /\ In(j, b)
  BY DEF InTodo, In
<1>4. /\ 1 \in 1..Len(todo)
      /\ \A i \in 1..Len(Tail(todo)) : i + 1 \in 1..Len(todo) /\ i + 1 # 1
      /\ \A i, k \in 1..Len(Tail(todo)) : i + 1 = k + 1 => i = k
  BY <1>1
<1>5. ASSUME Apart(todo)
      PROVE  /\ Different(Head(todo)) /\ Apart(Tail(todo))
             /\ \A j : ~ (In(j, Head(todo)) /\ InTodo(j, Tail(todo)))
  <2> DEFINE len == Len(Tail(todo))
  <2>1. /\ \A n \in 1..Len(todo) : Different(todo[n])
        /\ \A m, n \in 1..Len(todo) : \A j : In(j, todo[m]) /\ In(j, todo[n]) => m = n
    BY <1>5 DEF Apart
  <2> HIDE DEF len
  <2>2. Different(Head(todo)) /\ \A n \in 1..len : Different(Tail(todo)[n])
    BY <1>1, <1>4, <2>1 DEF len
  <2>3. ASSUME NEW m \in 1..len, NEW n \in 1..len, NEW j,
               In(j, Tail(todo)[m]), In(j, Tail(todo)[n])
        PROVE  m = n
    <3>1. In(j, todo[m + 1]) /\ In(j, todo[n + 1])
      BY <1>1, <2>3 DEF len
    <3> QED BY <1>4, <2>1, <3>1 DEF len
  <2>4. ASSUME NEW j, In(j, Head(todo)), InTodo(j, Tail(todo)) PROVE FALSE
    <3>1. PICK n \in 1..len : In(j, Tail(todo)[n])
      BY <2>4 DEF InTodo, len
    <3>2. In(j, todo[n + 1]) /\ In(j, todo[1])
      BY <1>1, <2>4, <3>1 DEF len
    <3> QED BY <1>4, <2>1, <3>2 DEF len
  <2> QED BY <2>2, <2>3, <2>4 DEF Apart, len
<1> QED BY <1>1, <1>2, <1>3, <1>5

\* Batches put before others.
LEMMA TodoConcat ==
  ASSUME NEW X, NEW s \in Seq(Groups(X)), NEW t \in Seq(Groups(X))
  PROVE  /\ s \o t \in Seq(Groups(X))
         /\ \A j : InTodo(j, s \o t) <=> (InTodo(j, s) \/ InTodo(j, t))
         /\ Apart(s) /\ Apart(t) /\ (\A j : ~ (InTodo(j, s) /\ InTodo(j, t))) => Apart(s \o t)
<1> DEFINE u == s \o t
<1>1. u \in Seq(Groups(X)) /\ \A b : In(b, u) <=> (In(b, s) \/ In(b, t))
  BY ConcatParts
<1>2. \A j, v : InTodo(j, v) <=> \E b : In(b, v) /\ In(j, b)
  BY DEF InTodo, In
<1>3. /\ Len(u) = Len(s) + Len(t) /\ Len(s) \in Nat /\ Len(t) \in Nat
      /\ \A i \in 1..Len(u) : u[i] = IF i <= Len(s) THEN s[i] ELSE t[i - Len(s)]
  OBVIOUS
<1> HIDE DEF u
<1>4. ASSUME Apart(s), Apart(t), \A j : ~ (InTodo(j, s) /\ InTodo(j, t))
      PROVE  Apart(u)
  <2>1. \A n \in 1..Len(u) : \/ n \in 1..Len(s) /\ u[n] = s[n]
                             \/ n - Len(s) \in 1..Len(t) /\ u[n] = t[n - Len(s)] /\ n > Len(s)
    BY <1>3
  <2>2. \A n \in 1..Len(u) : Different(u[n])
    BY <1>4, <2>1 DEF Apart
  <2>3. ASSUME NEW m \in 1..Len(u), NEW n \in 1..Len(u), NEW j, In(j, u[m]), In(j, u[n])
        PROVE  m = n
    <3>1. CASE m \in 1..Len(s) /\ u[m] = s[m] /\ n \in 1..Len(s) /\ u[n] = s[n]
      BY <1>4, <2>3, <3>1 DEF Apart
    <3>2. CASE /\ m - Len(s) \in 1..Len(t) /\ u[m] = t[m - Len(s)]
               /\ n - Len(s) \in 1..Len(t) /\ u[n] = t[n - Len(s)]
      <4>1. m - Len(s) = n - Len(s)
        BY <1>4, <2>3, <3>2 DEF Apart
      <4> QED BY <1>3, <4>1
    <3>3. CASE /\ m \in 1..Len(s) /\ u[m] = s[m]
               /\ n - Len(s) \in 1..Len(t) /\ u[n] = t[n - Len(s)]
      BY <1>4, <2>3, <3>3 DEF InTodo
    <3>4. CASE /\ n \in 1..Len(s) /\ u[n] = s[n]
               /\ m - Len(s) \in 1..Len(t) /\ u[m] = t[m - Len(s)]
      BY <1>4, <2>3, <3>4 DEF InTodo
    <3> QED BY <2>1, <3>1, <3>2, <3>3, <3>4
  <2> QED BY <2>2, <2>3 DEF Apart
<1> QED BY <1>1, <1>2, <1>4 DEF u

\* A batch taken apart into single jobs neither loses nor doubles one.
LEMMA Singles ==
  ASSUME NEW X, NEW ids \in Seq(X)
  PROVE  LET s == [i \in 1..Len(ids) |-> <<ids[i]>>]
         IN  /\ s \in Seq(Groups(X))
             /\ \A j : In(j, ids) <=> InTodo(j, s)
             /\ Different(ids) => Apart(s)
<1> DEFINE s == [i \in 1..Len(ids) |-> <<ids[i]>>]
<1>1. Len(ids) \in Nat /\ \A i \in 1..Len(ids) : ids[i] \in X
  OBVIOUS
<1>2. \A x : /\ Len(<<x>>) = 1 /\ <<x>>[1] = x /\ <<x>> # <<>> /\ 1..1 = {1}
             /\ x \in X => <<x>> \in Seq(X)
  OBVIOUS
<1>3. \A x : (x \in X => <<x>> \in Groups(X)) /\ (\A y : In(y, <<x>>) <=> y = x)
             /\ Different(<<x>>)
  BY <1>2 DEF Groups, In, Different
<1>4. s \in Seq(Groups(X)) /\ Len(s) = Len(ids) /\ \A i \in 1..Len(ids) : s[i] = <<ids[i]>>
  BY <1>1, <1>3
<1> HIDE DEF s
<1>5. \A i \in 1..Len(ids) : Different(s[i]) /\ \A j : In(j, s[i]) <=> j = ids[i]
  BY <1>3, <1>4
<1>6. \A j : In(j, ids) <=> InTodo(j, s)
  BY <1>4, <1>5 DEF In, InTodo
<1>7. ASSUME Different(ids) PROVE Apart(s)
  <2>1. ASSUME NEW m \in 1..Len(ids), NEW n \in 1..Len(ids), NEW j, In(j, s[m]), In(j, s[n])
        PROVE  m = n
    <3>1. ids[m] = j /\ ids[n] = j
      BY <1>5, <2>1
    <3> QED BY <1>7, <3>1 DEF Different
  <2>2. \A n \in 1..Len(s) : Different(s[n])
    BY <1>4, <1>5
  <2> QED BY <1>4, <2>1, <2>2 DEF Apart
<1> QED BY <1>4, <1>6, <1>7 DEF s

\* Cutting a list into batches neither loses nor doubles a job, and every batch
\* holds at least one.
LEMMA ChunksCover ==
  ASSUME NEW X, NEW jobs \in Seq(X), NEW size \in Nat \ {0}
  PROVE  /\ chunks(jobs, size) \in Seq(Groups(X))
         /\ \A j : In(j, jobs) <=> InTodo(j, chunks(jobs, size))
         /\ Different(jobs) => Apart(chunks(jobs, size))
<1> DEFINE len == Len(jobs)
           count == (len + size - 1) \div size
           first(b) == (b - 1) * size + 1
           last(b) == IF b * size < len THEN b * size ELSE len
           group(b) == SubSeq(jobs, first(b), last(b))
           all == [b \in 1..count |-> group(b)]
<1>1. len \in Nat /\ size \in Nat \ {0}
  OBVIOUS
<1>2. count \in Nat /\ \E r \in 0..(size - 1) : len + size - 1 = size * count + r
  <2>1. len + size - 1 \in Nat
    BY <1>1
  <2> QED BY <1>1, <2>1
<1>3. chunks(jobs, size) = all
  BY DEF chunks
<1> HIDE DEF len, count
<1>4. ASSUME NEW b \in 1..count
      PROVE  /\ first(b) \in 1..len /\ last(b) \in first(b)..len
             /\ (b - 1) * size \in Nat /\ last(b) <= b * size /\ b * size \in Nat
  <2>1. (b - 1) * size \in Nat /\ b * size \in Nat /\ b * size = (b - 1) * size + size
    BY <1>1, <1>2
  <2>2. PICK r \in 0..(size - 1) : len + size - 1 = size * count + r
    BY <1>2
  <2>3. b * size <= count * size /\ count * size = size * count /\ size * count \in Nat
    BY <1>1, <1>2
  <2>4. (b - 1) * size < len
    BY <1>1, <1>2, <2>1, <2>2, <2>3
  <2> QED BY <1>1, <2>1, <2>4
<1>5. ASSUME NEW b \in 1..count
      PROVE  /\ group(b) \in Groups(X)
             /\ \A x : In(x, group(b)) <=> \E i \in first(b)..last(b) : jobs[i] = x
             /\ Different(jobs) => Different(group(b))
  <2>1. first(b) \in 1..Len(jobs) /\ last(b) \in first(b)..Len(jobs)
    BY <1>4 DEF len
  <2> HIDE DEF first, last
  <2> QED BY <2>1, PartOf, PartPlaces DEF Groups
<1>6. all \in Seq(Groups(X)) /\ Len(all) = count /\ \A b \in 1..count : all[b] = group(b)
  <2> HIDE DEF group
  <2> QED BY <1>2, <1>5
<1>7. ASSUME NEW j, In(j, jobs) PROVE InTodo(j, all)
  <2>1. PICK i \in 1..len : jobs[i] = j
    BY <1>7 DEF In, len
  <2> DEFINE q == (i - 1) \div size
             b == q + 1
  <2>2. i - 1 \in Nat
    BY <1>1
  <2>3. q \in Nat /\ (i - 1) % size \in 0..(size - 1) /\ i - 1 = size * q + ((i - 1) % size)
    BY <1>1, <2>2
  <2> DEFINE r == (i - 1) % size
  <2> HIDE DEF q, r
  <2>4. q \in Nat /\ r \in 0..(size - 1) /\ i - 1 = size * q + r
    BY <2>3 DEF q, r
  <2>5. (b - 1) * size = size * q /\ b * size = size * q + size /\ size * q \in Nat
    BY <1>1, <2>4
  <2>6. i \in first(b)..last(b)
    BY <1>1, <2>1, <2>4, <2>5
  <2>7. b \in 1..count
    <3>1. PICK x \in 0..(size - 1) : len + size - 1 = size * count + x
      BY <1>2
    <3>2. SUFFICES ASSUME q >= count PROVE FALSE
      BY <1>2, <2>4
    <3>3. size * count <= size * q /\ size * count \in Nat
      BY <1>1, <1>2, <2>4, <3>2
    <3> QED BY <1>1, <1>2, <2>1, <2>4, <2>5, <3>1, <3>3
  <2> HIDE DEF first, last, group, b
  <2>8. In(j, group(b))
    BY <1>5, <2>1, <2>6, <2>7
  <2> HIDE DEF all
  <2> QED BY <1>6, <2>7, <2>8 DEF InTodo
<1>8. \A b \in 1..count : \A i \in first(b)..last(b) : i \in 1..len
  <2>1. ASSUME NEW b \in 1..count, NEW i \in first(b)..last(b) PROVE i \in 1..len
    <3>1. first(b) \in 1..len /\ last(b) \in first(b)..len
      BY <1>4
    <3> HIDE DEF first, last
    <3> QED BY <1>1, <3>1
  <2> QED BY <2>1
<1>9. ASSUME NEW j, InTodo(j, all) PROVE In(j, jobs)
  <2>1. PICK b \in 1..count : In(j, group(b))
    <3> HIDE DEF all, group
    <3> QED BY <1>6, <1>9 DEF InTodo
  <2> HIDE DEF first, last, group
  <2> QED BY <1>5, <1>8, <2>1 DEF In, len
<1>10. ASSUME NEW a \in 1..count, NEW b \in 1..count, a < b,
              NEW i \in first(a)..last(a), NEW k \in first(b)..last(b)
       PROVE  i # k
  <2>1. a * size <= (b - 1) * size
    BY <1>1, <1>2, <1>10
  <2>2. i <= a * size /\ k > (b - 1) * size
    BY <1>1, <1>4
  <2>3. a * size \in Nat /\ (b - 1) * size \in Nat /\ i \in 1..len /\ k \in 1..len
    BY <1>4, <1>8
  <2> QED BY <1>1, <2>1, <2>2, <2>3
<1>11. ASSUME Different(jobs) PROVE Apart(all)
  <2>1. ASSUME NEW a \in 1..count, NEW b \in 1..count, NEW j, In(j, group(a)), In(j, group(b))
        PROVE  a = b
    <3>1. PICK i \in first(a)..last(a) : jobs[i] = j
      BY <1>5, <2>1
    <3>2. PICK k \in first(b)..last(b) : jobs[k] = j
      BY <1>5, <2>1
    <3>3. i \in 1..len /\ k \in 1..len
      BY <1>8
    <3>4. i = k
      BY <1>11, <3>1, <3>2, <3>3 DEF Different, len
    <3> HIDE DEF first, last
    <3>5. ~ (a < b) /\ ~ (b < a)
      BY <1>10, <3>4
    <3> QED BY <1>2, <3>5
  <2>2. \A b \in 1..count : Different(group(b))
    BY <1>5, <1>11
  <2> HIDE DEF group, all
  <2>3. \A b \in 1..count : Different(all[b])
    BY <1>6, <2>2
  <2>4. \A a, b \in 1..count : \A j : In(j, all[a]) /\ In(j, all[b]) => a = b
    BY <1>6, <2>1
  <2> QED BY <1>6, <2>3, <2>4 DEF Apart
<1> QED BY <1>3, <1>6, <1>7, <1>9, <1>11
=============================================================================
