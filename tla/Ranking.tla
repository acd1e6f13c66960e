------------------------------- MODULE Ranking -------------------------------
(***************************************************************************)
(* Rows in an order, as Array.sort and ORDER BY leave them: what the       *)
(* comparison does not tell apart comes in an order nobody should rely on. *)
(* And rows of an order, as Array.filter and slice leave them.             *)
(***************************************************************************)
EXTENDS Integers, FiniteSets, Sequences, SequencesExt

\* Every element of S once.  before holds the pairs of which the first goes
\* first.
Ranked(S, before) ==
    CHOOSE f \in [1 .. Cardinality(S) -> S] :
        \A i, j \in DOMAIN f : i < j => f[i] # f[j] /\ <<f[j], f[i]>> \notin before

\* At most so many of them: slice(0, most), LIMIT.
Leading(order, most) == SubSeq(order, 1, IF Len(order) < most THEN Len(order) ELSE most)

\* Those that are not in S: filter.
Without(seq, S) == FoldLeft(LAMBDA rest, x : IF x \in S THEN rest ELSE Append(rest, x), <<>>, seq)

=============================================================================
