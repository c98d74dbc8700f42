----------------------------- MODULE JobBatches -----------------------------
(***************************************************************************)
(* How both keepers cut their lists of jobs: into batches of a size, a     *)
(* batch into halves, and down to the jobs that a simulation would run.    *)
(***************************************************************************)
EXTENDS Integers, Sequences

\* The elements of s that are wanted, in their order (Array.filter, Iterator::filter).
Filter(s, wanted) ==
    LET kept[n \in 0..Len(s)] ==
            IF n = 0 THEN <<>>
            ELSE IF s[n] \in wanted THEN Append(kept[n - 1], s[n]) ELSE kept[n - 1]
    IN  kept[Len(s)]

\* Batches of `size` jobs; the last one may be smaller (slice::chunks).
chunks(ids, size) ==
    [b \in 1..((Len(ids) + size - 1) \div size) |->
        SubSeq(ids, (b - 1) * size + 1, IF b * size < Len(ids) THEN b * size ELSE Len(ids))]

halves(ids) ==
    LET half == (Len(ids) + 1) \div 2
    IN  <<SubSeq(ids, 1, half), SubSeq(ids, half + 1, Len(ids))>>
=============================================================================
