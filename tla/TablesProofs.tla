--------------------------- MODULE TablesProofs ---------------------------
(***************************************************************************)
(* What the pure parts of the system compute, for every input: sums and    *)
(* means, the scores of a sheet, the levels of a rollup, and which         *)
(* response is the original of its copies.                                 *)
(***************************************************************************)
EXTENDS MCTables, Ranking, FiniteSetTheorems, SequenceTheorems, WellFoundedInduction, TLAPS

-----------------------------------------------------------------------------
(***************************************************************************)
(* Folds.  What is left of a set is folded with one element that c takes   *)
(* out of it; e is what the element is worth.  An induction over data is   *)
(* one over the least number for which a fact fails.                       *)
(***************************************************************************)
\* A set of numbers has a least one.
LEMMA LeastOf ==
    ASSUME NEW B \in SUBSET Nat, B # {}
    PROVE  \E k \in B : \A j \in B : k <= j
<1>1. PICK k \in B : \A j \in B : ~(<<j, k>> \in OpToRel(<, Nat))
    BY NatLessThanWellFounded, WFMin
<1>2. \A j \in B : ~(j < k)
    BY <1>1 DEF OpToRel
<1>. QED BY <1>2

\* One step of a fold over s.
Step(e, c, g, s) == IF s = {} THEN 0 ELSE e[c[s]] + g[s \ {c[s]}]

IsFold(g, e, c, S) == g = [s \in SUBSET S |-> Step(e, c, g, s)]

Chooses(c, S) == \A s \in SUBSET S : s # {} => c[s] \in s

\* There is one fold for every finite set, whatever the order.
LEMMA FoldExists ==
    ASSUME NEW S, IsFiniteSet(S), NEW e, NEW c, Chooses(c, S)
    PROVE  \E g : IsFold(g, e, c, S)
<1>. DEFINE Small(m) == {s \in SUBSET S : Cardinality(s) <= m}
            Folds(m) == \E g : g = [s \in Small(m) |-> Step(e, c, g, s)]
            B == {m \in Nat : ~Folds(m)}
<1>0. \A s \in SUBSET S : IsFiniteSet(s) /\ Cardinality(s) \in Nat /\ Cardinality(s) <= Cardinality(S)
  BY FS_Subset, FS_CardinalityType
<1>1. Folds(0)
  <2>. DEFINE g == [s \in Small(0) |-> 0]
  <2>1. \A s \in Small(0) : s = {}
    BY <1>0, FS_EmptySet
  <2>2. g = [s \in Small(0) |-> Step(e, c, g, s)]
    BY <2>1 DEF Step
  <2>. QED BY <2>2
<1>2. ASSUME NEW m \in Nat, Folds(m) PROVE Folds(m + 1)
  <2>1. PICK h : h = [s \in Small(m) |-> Step(e, c, h, s)]
    BY <1>2
  <2>. DEFINE g == [s \in Small(m + 1) |-> Step(e, c, h, s)]
  <2>2. ASSUME NEW s \in Small(m) PROVE s \in Small(m + 1) /\ g[s] = h[s]
    BY <1>0, <2>1
  <2>3. ASSUME NEW s \in Small(m + 1), s # {}
        PROVE  s \ {c[s]} \in Small(m)
    <3>1. c[s] \in s
      BY <2>3 DEF Chooses
    <3>2. Cardinality(s \ {c[s]}) = Cardinality(s) - 1
      BY <1>0, <3>1, FS_RemoveElement
    <3>. QED BY <1>0, <3>2
  <2>4. ASSUME NEW s \in Small(m + 1) PROVE g[s] = Step(e, c, g, s)
    <3>1. CASE s = {}
      BY <3>1 DEF Step
    <3>2. CASE s # {}
      <4>1. g[s \ {c[s]}] = h[s \ {c[s]}]
        BY <2>2, <2>3, <3>2
      <4>. QED BY <3>2, <4>1 DEF Step
    <3>. QED BY <3>1, <3>2
  <2>5. g = [s \in Small(m + 1) |-> Step(e, c, g, s)]
    BY <2>4
  <2>. QED BY <2>5
<1>. HIDE DEF Folds
<1>3. ASSUME B # {} PROVE FALSE
  <2>1. PICK m \in B : \A j \in B : m <= j
    BY <1>3, LeastOf
  <2>2. m # 0
    BY <1>1, <2>1
  <2>3. m - 1 \in Nat /\ m - 1 \notin B
    BY <2>1, <2>2
  <2>4. Folds(m - 1)
    BY <2>3
  <2>5. Folds(m)
    BY <1>2, <2>3, <2>4
  <2>. QED BY <2>1, <2>5
<1>4. Cardinality(S) \in Nat /\ Small(Cardinality(S)) = SUBSET S
  BY <1>0, FS_CardinalityType
<1>5. Folds(Cardinality(S))
  BY <1>3, <1>4
<1>. QED BY <1>4, <1>5 DEF Folds, IsFold

\* What holds of nothing and is kept by every step holds of the fold.
LEMMA FoldStays ==
    ASSUME NEW S, IsFiniteSet(S), NEW c, Chooses(c, S), NEW g,
           \A s \in SUBSET S : (s = {} \/ g[s \ {c[s]}] \in Int) => g[s] \in Int
    PROVE  \A s \in SUBSET S : g[s] \in Int
<1>. DEFINE Bad(s) == g[s] \notin Int
            B == {m \in Nat : \E s \in SUBSET S : Cardinality(s) = m /\ Bad(s)}
<1>0. \A s \in SUBSET S : IsFiniteSet(s) /\ Cardinality(s) \in Nat
  BY FS_Subset, FS_CardinalityType
<1>1. ASSUME B # {} PROVE FALSE
  <2>1. PICK m \in B : \A j \in B : m <= j
    BY <1>1, LeastOf
  <2>2. PICK s \in SUBSET S : Cardinality(s) = m /\ Bad(s)
    BY <2>1
  <2>3. s # {}
    BY <2>2
  <2>4. c[s] \in s
    BY <2>3 DEF Chooses
  <2>5. Cardinality(s \ {c[s]}) = m - 1
    BY <1>0, <2>2, <2>4, FS_RemoveElement
  <2>6. s \ {c[s]} \in SUBSET S /\ m - 1 \in Nat /\ ~(m <= m - 1)
    BY <1>0, <2>2, <2>5
  <2>7. ~Bad(s \ {c[s]})
    BY <2>1, <2>5, <2>6
  <2>. QED BY <2>2, <2>7
<1>. QED BY <1>0, <1>1

\* A fold of numbers is a number.
LEMMA FoldIsANumber ==
    ASSUME NEW S, IsFiniteSet(S), NEW e, NEW c, Chooses(c, S),
           \A x \in S : e[x] \in Int, NEW g, IsFold(g, e, c, S)
    PROVE  \A s \in SUBSET S : g[s] \in Int
<1>1. ASSUME NEW s \in SUBSET S, s = {} \/ g[s \ {c[s]}] \in Int
      PROVE  g[s] \in Int
  <2>1. g[s] = Step(e, c, g, s)
    BY DEF IsFold
  <2>. QED BY <1>1, <2>1 DEF Step, Chooses
<1>. QED BY <1>1, FoldStays

\* Two folds in one order: where every element of e is between lo and hi times
\* that of w, so is the fold.
LEMMA FoldWithin ==
    ASSUME NEW S, IsFiniteSet(S), NEW e, NEW w, NEW c, Chooses(c, S),
           NEW lo \in Int, NEW hi \in Int,
           \A x \in S : /\ e[x] \in Int /\ w[x] \in Int
                        /\ lo * w[x] <= e[x] /\ e[x] <= hi * w[x],
           NEW g, IsFold(g, e, c, S), NEW h, IsFold(h, w, c, S)
    PROVE  \A s \in SUBSET S : /\ g[s] \in Int /\ h[s] \in Int
                               /\ lo * h[s] <= g[s] /\ g[s] <= hi * h[s]
<1>. DEFINE Bad(s) == ~(lo * h[s] <= g[s] /\ g[s] <= hi * h[s])
            B == {m \in Nat : \E s \in SUBSET S : Cardinality(s) = m /\ Bad(s)}
<1>0. \A s \in SUBSET S : IsFiniteSet(s) /\ Cardinality(s) \in Nat
  BY FS_Subset, FS_CardinalityType
<1>1. \A s \in SUBSET S : g[s] \in Int /\ h[s] \in Int
  BY FoldIsANumber
<1>2. ASSUME B # {} PROVE FALSE
  <2>1. PICK m \in B : \A j \in B : m <= j
    BY <1>2, LeastOf
  <2>2. PICK s \in SUBSET S : Cardinality(s) = m /\ Bad(s)
    BY <2>1
  <2>3. g[s] = Step(e, c, g, s) /\ h[s] = Step(w, c, h, s)
    BY DEF IsFold
  <2>4. s # {}
    BY <2>2, <2>3 DEF Step
  <2>5. c[s] \in s
    BY <2>4 DEF Chooses
  <2>6. Cardinality(s \ {c[s]}) = m - 1
    BY <1>0, <2>2, <2>5, FS_RemoveElement
  <2>7. s \ {c[s]} \in SUBSET S /\ m - 1 \in Nat /\ ~(m <= m - 1)
    BY <1>0, <2>2, <2>6
  <2>8. ~Bad(s \ {c[s]})
    BY <2>1, <2>6, <2>7
  <2>. DEFINE a == e[c[s]]
              b == w[c[s]]
              p == g[s \ {c[s]}]
              q == h[s \ {c[s]}]
  <2>9. /\ a \in Int /\ b \in Int /\ p \in Int /\ q \in Int
        /\ lo * b <= a /\ a <= hi * b /\ lo * q <= p /\ p <= hi * q
    BY <1>1, <2>5, <2>7, <2>8
  <2>10. g[s] = a + p /\ h[s] = b + q
    BY <2>3, <2>4 DEF Step
  <2>. HIDE DEF a, b, p, q
  <2>11. lo * (b + q) = lo * b + lo * q /\ hi * (b + q) = hi * b + hi * q
    BY <2>9
  <2>12. lo * (b + q) <= a + p /\ a + p <= hi * (b + q)
    <3>1. lo * b \in Int /\ lo * q \in Int /\ hi * b \in Int /\ hi * q \in Int
      BY <2>9
    <3>. QED BY <2>9, <2>11, <3>1
  <2>. QED BY <2>2, <2>10, <2>12
<1>. QED BY <1>0, <1>1, <1>2

\* A quotient stays between the bounds of what is divided.
LEMMA QuotientWithin ==
    ASSUME NEW n \in Nat, n # 0, NEW sum \in Int, NEW lo \in Int, NEW hi \in Int,
           lo * n <= sum, sum <= hi * n
    PROVE  sum \div n \in Int /\ lo <= sum \div n /\ sum \div n <= hi
<1>. DEFINE q == sum \div n
<1>1. q \in Int /\ n * q <= sum /\ sum < n * q + n
  OBVIOUS
<1>. HIDE DEF q
<1>2. ASSUME q < lo PROVE FALSE
  <2>1. (lo - 1 - q) * n >= 0
    BY <1>1, <1>2
  <2>2. (lo - 1 - q) * n = lo * n - n - n * q
    BY <1>1
  <2>. QED BY <1>1, <2>1, <2>2
<1>3. ASSUME q > hi PROVE FALSE
  <2>1. (q - 1 - hi) * n >= 0
    BY <1>1, <1>3
  <2>2. (q - 1 - hi) * n = n * q - n - hi * n
    BY <1>1
  <2>. QED BY <1>1, <2>1, <2>2
<1>. QED BY <1>1, <1>2, <1>3 DEF q

-----------------------------------------------------------------------------
(***************************************************************************)
(* Sums and means of the index                                             *)
(***************************************************************************)
\* The order of the library's folds.
Picked(S) == [s \in SUBSET S |-> CHOOSE x \in s : TRUE]

\* An element picked out of a set is one of it.
LEMMA PickedChooses == ASSUME NEW S PROVE Chooses(Picked(S), S)
BY DEF Picked, Chooses

\* The number of elements is a fold of ones.
LEMMA CountIsFold ==
    ASSUME NEW S, IsFiniteSet(S), NEW c, Chooses(c, S)
    PROVE  IsFold([s \in SUBSET S |-> Cardinality(s)], [x \in S |-> 1], c, S)
<1>. DEFINE h == [s \in SUBSET S |-> Cardinality(s)]
            w == [x \in S |-> 1]
<1>0. \A s \in SUBSET S : IsFiniteSet(s) /\ Cardinality(s) \in Nat
  BY FS_Subset, FS_CardinalityType
<1>1. ASSUME NEW s \in SUBSET S PROVE h[s] = Step(w, c, h, s)
  <2>1. CASE s = {}
    BY <2>1, FS_EmptySet DEF Step
  <2>2. CASE s # {}
    <3>1. c[s] \in s
      BY <2>2 DEF Chooses
    <3>2. Cardinality(s \ {c[s]}) = Cardinality(s) - 1
      BY <1>0, <3>1, FS_RemoveElement
    <3>. QED BY <1>0, <2>2, <3>1, <3>2 DEF Step
  <2>. QED BY <2>1, <2>2
<1>. QED BY <1>1 DEF IsFold

\* A mean lies between the least and the greatest of what it is taken of.
LEMMA MeanWithin ==
    ASSUME NEW S, IsFiniteSet(S), S # {}, NEW e, NEW lo \in Int, NEW hi \in Int,
           \A x \in S : e[x] \in lo..hi, NEW c, Chooses(c, S), NEW g, IsFold(g, e, c, S)
    PROVE  g[S] \div Cardinality(S) \in lo..hi
<1>. DEFINE w == [x \in S |-> 1]
            h == [s \in SUBSET S |-> Cardinality(s)]
<1>1. IsFold(h, w, c, S)
  BY CountIsFold
<1>2. \A x \in S : e[x] \in Int /\ w[x] \in Int /\ lo * w[x] <= e[x] /\ e[x] <= hi * w[x]
  OBVIOUS
<1>. HIDE DEF w
<1>3. g[S] \in Int /\ lo * h[S] <= g[S] /\ g[S] <= hi * h[S]
  BY <1>1, <1>2, FoldWithin
<1>4. h[S] = Cardinality(S) /\ Cardinality(S) \in Nat /\ Cardinality(S) # 0
  BY FS_CardinalityType, FS_EmptySet
<1>. HIDE DEF h
<1>. QED BY <1>3, <1>4, QuotientWithin

\* The severities of score rows.
LEMMA SumOfRows ==
    ASSUME NEW S, IsFiniteSet(S)
    PROVE  \E g : /\ IsFold(g, [x \in S |-> x.severity], Picked(S), S)
                  /\ Reports!SumOver(S, LAMBDA x : x.severity) = g[S]
<1>. DEFINE e == [x \in S |-> x.severity]
            Sums(g, s) == IF s = {} THEN 0
                          ELSE (CHOOSE x \in s : TRUE).severity
                                 + g[s \ {CHOOSE x \in s : TRUE}]
            sum == CHOOSE g : g = [s \in SUBSET S |-> Sums(g, s)]
<1>1. ASSUME NEW g PROVE IsFold(g, e, Picked(S), S) <=> g = [s \in SUBSET S |-> Sums(g, s)]
  <2>1. ASSUME NEW s \in SUBSET S PROVE Step(e, Picked(S), g, s) = Sums(g, s)
    <3>1. s # {} => (CHOOSE x \in s : TRUE) \in S /\ Picked(S)[s] = CHOOSE x \in s : TRUE
      BY DEF Picked
    <3>. QED BY <3>1 DEF Step
  <2>. HIDE DEF Sums, e
  <2>. QED BY <2>1 DEF IsFold
<1>2. \E g : IsFold(g, e, Picked(S), S)
  <2>. HIDE DEF e
  <2>. QED BY PickedChooses, FoldExists
<1>3. IsFold(sum, e, Picked(S), S)
  <2>. HIDE DEF e, Sums
  <2>. QED BY <1>1, <1>2
<1>4. Reports!SumOver(S, LAMBDA x : x.severity) = sum[S]
  BY DEF Reports!SumOver, Reports!MapThenSumSet, Reports!MapThenFoldSet
<1>. HIDE DEF sum
<1>. QED BY <1>3, <1>4

\* The weights of domains.
LEMMA SumOfWeights ==
    ASSUME NEW S, IsFiniteSet(S)
    PROVE  \E g : /\ IsFold(g, [x \in S |-> x.weight], Picked(S), S)
                  /\ Reports!SumOver(S, LAMBDA x : x.weight) = g[S]
<1>. DEFINE e == [x \in S |-> x.weight]
            Sums(g, s) == IF s = {} THEN 0
                          ELSE (CHOOSE x \in s : TRUE).weight
                                 + g[s \ {CHOOSE x \in s : TRUE}]
            sum == CHOOSE g : g = [s \in SUBSET S |-> Sums(g, s)]
<1>1. ASSUME NEW g PROVE IsFold(g, e, Picked(S), S) <=> g = [s \in SUBSET S |-> Sums(g, s)]
  <2>1. ASSUME NEW s \in SUBSET S PROVE Step(e, Picked(S), g, s) = Sums(g, s)
    <3>1. s # {} => (CHOOSE x \in s : TRUE) \in S /\ Picked(S)[s] = CHOOSE x \in s : TRUE
      BY DEF Picked
    <3>. QED BY <3>1 DEF Step
  <2>. HIDE DEF Sums, e
  <2>. QED BY <2>1 DEF IsFold
<1>2. \E g : IsFold(g, e, Picked(S), S)
  <2>. HIDE DEF e
  <2>. QED BY PickedChooses, FoldExists
<1>3. IsFold(sum, e, Picked(S), S)
  <2>. HIDE DEF e, Sums
  <2>. QED BY <1>1, <1>2
<1>4. Reports!SumOver(S, LAMBDA x : x.weight) = sum[S]
  BY DEF Reports!SumOver, Reports!MapThenSumSet, Reports!MapThenFoldSet
<1>. HIDE DEF sum
<1>. QED BY <1>3, <1>4

\* A level has a severity where something below has one, between theirs.
LEMMA LevelSeverity ==
    ASSUME NEW below, NEW name \in DOMAIN below, IsFiniteSet(DOMAIN below[name]),
           NEW lo \in Int, NEW hi \in Int,
           \A x \in DOMAIN below[name] :
              below[name][x].severity # Null => below[name][x].severity \in lo..hi
    PROVE  LET severity == Reports!LevelRollup(below)[name].severity IN
             IF \A x \in DOMAIN below[name] : below[name][x].severity = Null
             THEN severity = Null ELSE severity \in lo..hi
<1>. DEFINE S == {x \in DOMAIN below[name] : below[name][x].severity # Null}
            e == [x \in S |-> below[name][x].severity]
            Sums(g, s) == IF s = {} THEN 0
                          ELSE below[name][CHOOSE x \in s : TRUE].severity
                                 + g[s \ {CHOOSE x \in s : TRUE}]
            sum == CHOOSE g : g = [s \in SUBSET S |-> Sums(g, s)]
<1>0. IsFiniteSet(S)
  BY FS_Subset
<1>1. ASSUME NEW g PROVE IsFold(g, e, Picked(S), S) <=> g = [s \in SUBSET S |-> Sums(g, s)]
  <2>1. ASSUME NEW s \in SUBSET S PROVE Step(e, Picked(S), g, s) = Sums(g, s)
    <3>1. s # {} => (CHOOSE x \in s : TRUE) \in S /\ Picked(S)[s] = CHOOSE x \in s : TRUE
      BY DEF Picked
    <3>. QED BY <3>1 DEF Step
  <2>. HIDE DEF Sums, e, S
  <2>. QED BY <2>1 DEF IsFold
<1>2. \E g : IsFold(g, e, Picked(S), S)
  <2>. HIDE DEF e, S
  <2>. QED BY <1>0, PickedChooses, FoldExists
<1>3. IsFold(sum, e, Picked(S), S)
  <2>. HIDE DEF e, Sums, S
  <2>. QED BY <1>1, <1>2
<1>4. Reports!LevelRollup(below)[name].severity
        = IF S = {} THEN Null ELSE sum[S] \div Cardinality(S)
  BY DEF Reports!LevelRollup, Reports!Mean, Reports!SumOver, Reports!MapThenSumSet,
         Reports!MapThenFoldSet, Reports!Cardinality, Cardinality, Null
<1>5. \A x \in S : e[x] \in lo..hi
  OBVIOUS
<1>6. S # {} => sum[S] \div Cardinality(S) \in lo..hi
  <2>. HIDE DEF e, S, sum
  <2>. QED BY <1>0, <1>3, <1>5, PickedChooses, MeanWithin
<1>. HIDE DEF sum
<1>. QED BY <1>4, <1>6

\* The mean severity of score rows is between their bounds.
LEMMA RowsMean ==
    ASSUME NEW S, IsFiniteSet(S), S # {}, NEW lo \in Int, NEW hi \in Int,
           \A x \in S : x.severity \in lo..hi
    PROVE  Reports!Mean(S, LAMBDA x : x.severity) \in lo..hi
<1>. DEFINE e == [x \in S |-> x.severity]
            sum == Reports!SumOver(S, LAMBDA x : x.severity)
<1>1. PICK g : IsFold(g, e, Picked(S), S) /\ sum = g[S]
  BY SumOfRows
<1>2. \A x \in S : e[x] \in lo..hi
  OBVIOUS
<1>. HIDE DEF e
<1>3. g[S] \div Cardinality(S) \in lo..hi
  BY <1>1, <1>2, PickedChooses, MeanWithin
<1>4. Reports!Mean(S, LAMBDA x : x.severity) = sum \div Cardinality(S)
  BY DEF Reports!Mean, Reports!Cardinality, Cardinality
<1>. QED BY <1>1, <1>3, <1>4

-----------------------------------------------------------------------------
(***************************************************************************)
(* The levels of a rollup                                                  *)
(***************************************************************************)
\* The least and the greatest of a set of scores are scores of it.
LEMMA Extremes ==
    ASSUME NEW S \in SUBSET (0..100), S # {}
    PROVE  /\ Min(S) \in S /\ Max(S) \in S
           /\ \A x \in S : Min(S) <= x /\ x <= Max(S)
<1>1. PICK k \in S : \A j \in S : k <= j
  BY LeastOf
<1>. DEFINE B == {m \in Nat : \A j \in S : j <= m}
<1>2. 100 \in B
  OBVIOUS
<1>3. PICK m \in B : \A j \in B : m <= j
  BY <1>2, LeastOf
<1>4. m \in S
  <2>1. ASSUME m \notin S PROVE FALSE
    <3>1. m - 1 \in Nat /\ \A j \in S : j <= m - 1
      BY <1>1, <1>3, <2>1
    <3>. QED BY <1>3, <3>1
  <2>. QED BY <2>1
<1>5. Min(S) \in S /\ \A x \in S : Min(S) <= x
  BY <1>1 DEF Min
<1>6. Max(S) \in S /\ \A x \in S : x <= Max(S)
  <2>1. \A j \in S : m >= j
    BY <1>3, <1>4
  <2>. QED BY <1>4, <2>1 DEF Max
<1>. QED BY <1>5, <1>6

\* The scores of the answers to some questions.
ScoresOf(rows, Q) ==
    {r.severity : r \in {s \in rows : s.status = "SCORED" /\ \E q \in Q : q.id = s.question}}

Bounded(severity, S) == IF S = {} THEN severity = Null ELSE severity \in Min(S) .. Max(S)

\* A bank in which what is below a name is below no other name.
Nested(questions, child, parent) ==
    \A q, t \in questions : q[child] = t[child] => q[parent] = t[parent]

Rated(rows) == \A s \in rows : s.status = "SCORED" => s.severity \in 0..100

\* The rollups r of the level f say of every name what was answered below it.
Fits(r, f, questions, rows) ==
    /\ \A q \in questions : (\E s \in rows : s.question = q.id) => q[f] \in DOMAIN r
    /\ \A q \in questions : q[f] \in DOMAIN r =>
          Bounded(r[q[f]].severity, ScoresOf(rows, {t \in questions : t[f] = q[f]}))

\* What lies within some scores lies within more of them.
LEMMA BoundedNarrows ==
    ASSUME NEW S, NEW T \in SUBSET (0..100), S \subseteq T, NEW severity, Bounded(severity, S)
    PROVE  /\ severity # Null => S # {} /\ severity \in Min(T) .. Max(T) /\ Min(T) \in Int /\ Max(T) \in Int
           /\ S # {} => severity # Null
<1>1. CASE S = {}
  BY <1>1 DEF Bounded
<1>2. CASE S # {}
  <2>1. Min(S) \in T /\ Max(S) \in T /\ Min(S) \in 0..100 /\ Max(S) \in 0..100
    BY <1>2, Extremes
  <2>2. Min(T) \in 0..100 /\ Max(T) \in 0..100 /\ Min(T) <= Min(S) /\ Max(S) <= Max(T)
    BY <1>2, <2>1, Extremes
  <2>3. severity \in Min(S) .. Max(S)
    BY <1>2 DEF Bounded
  <2>. QED BY <1>2, <2>1, <2>2, <2>3 DEF Null, Reports!Null
<1>. QED BY <1>1, <1>2

\* The scores of any questions are from 0 to 100.
LEMMA ScoresInRange ==
    ASSUME NEW rows, Rated(rows), NEW Q
    PROVE  ScoresOf(rows, Q) \in SUBSET (0..100)
BY DEF ScoresOf, Rated

\* A level above one that fits does.
LEMMA UpFits ==
    ASSUME NEW questions, IsFiniteSet(questions), NEW rows, Rated(rows), NEW child, NEW parent,
           Nested(questions, child, parent), NEW r, Fits(r, child, questions, rows)
    PROVE  /\ Fits(Reports!Up(questions, parent, child, r), parent, questions, rows)
           /\ DOMAIN Reports!Up(questions, parent, child, r) \subseteq {q[parent] : q \in questions}
<1>. DEFINE Names(p) == {q[child] : q \in {t \in questions : t[parent] = p}}
            Found(p) == Names(p) \cap DOMAIN r
            G == Reports!Grouped(questions, parent, child, r)
            U == Reports!Up(questions, parent, child, r)
<1>1. G = [p \in {q[parent] : q \in {t \in questions : Found(t[parent]) # {}}} |->
                [c \in Found(p) |-> r[c]]]
  BY DEF Reports!Grouped
<1>2. U = [p \in DOMAIN G |-> U[p]] /\ DOMAIN U = DOMAIN G
  BY DEF Reports!Up, Reports!LevelRollup
<1>3. DOMAIN U \subseteq {q[parent] : q \in questions}
  BY <1>1, <1>2
<1>4. ASSUME NEW q \in questions, NEW s \in rows, s.question = q.id
      PROVE  q[parent] \in DOMAIN U
  <2>1. q[child] \in Found(q[parent])
    BY <1>4 DEF Fits
  <2>. QED BY <1>1, <1>2, <2>1
<1>5. ASSUME NEW q \in questions, q[parent] \in DOMAIN U
      PROVE  Bounded(U[q[parent]].severity, ScoresOf(rows, {t \in questions : t[parent] = q[parent]}))
  <2>. DEFINE p == q[parent]
              scored == {c \in DOMAIN G[p] : G[p][c].severity # Null}
              T == ScoresOf(rows, {t \in questions : t[parent] = p})
              At(c) == ScoresOf(rows, {t \in questions : t[child] = c})
  <2>1. p \in DOMAIN G /\ DOMAIN G[p] = Found(p) /\ \A c \in Found(p) : G[p][c] = r[c]
    BY <1>1, <1>2, <1>5
  <2>2. scored = {} => U[p].severity = Null
    BY <2>1 DEF Reports!Up, Reports!LevelRollup, Null
  <2>3. T \in SUBSET (0..100)
    BY ScoresInRange
  <2>4. ASSUME NEW c \in Found(p)
        PROVE  /\ At(c) \subseteq T /\ Bounded(r[c].severity, At(c))
    <3>1. PICK q0 \in questions : q0[parent] = p /\ q0[child] = c /\ c \in DOMAIN r
      OBVIOUS
    <3>2. \A t \in questions : t[child] = c => t[parent] = p
      BY <3>1 DEF Nested
    <3>3. At(c) \subseteq T
      BY <3>2 DEF ScoresOf
    <3>. QED BY <3>1, <3>3 DEF Fits
  <2>5. CASE scored = {}
    <3>1. ASSUME NEW x \in T PROVE FALSE
      <4>1. PICK s \in rows, q1 \in questions : /\ s.status = "SCORED" /\ s.severity = x
                                                /\ q1.id = s.question /\ q1[parent] = p
        BY DEF ScoresOf
      <4>2. q1[child] \in Found(p)
        BY <4>1 DEF Fits
      <4>3. x \in At(q1[child])
        BY <4>1 DEF ScoresOf
      <4>4. r[q1[child]].severity # Null
        <5>. DEFINE c1 == q1[child]
        <5>1. At(c1) \subseteq T /\ Bounded(r[c1].severity, At(c1)) /\ At(c1) # {}
          BY <2>4, <4>2, <4>3
        <5>. HIDE DEF At, T, c1
        <5>2. r[c1].severity # Null
          BY <2>3, <5>1, BoundedNarrows
        <5>. QED BY <5>2 DEF c1
      <4>. QED BY <2>1, <2>5, <4>2, <4>4
    <3>2. T = {}
      BY <3>1
    <3>. QED BY <2>2, <2>5, <3>2 DEF Bounded
  <2>6. CASE scored # {}
    <3>1. ASSUME NEW c \in scored
          PROVE  T # {} /\ G[p][c].severity \in Min(T) .. Max(T) /\ Min(T) \in Int /\ Max(T) \in Int
      <4>1. c \in Found(p) /\ G[p][c].severity = r[c].severity /\ r[c].severity # Null
        BY <2>1
      <4>2. At(c) \subseteq T /\ Bounded(r[c].severity, At(c))
        BY <2>4, <4>1
      <4>. HIDE DEF At, T
      <4>3. At(c) # {} /\ r[c].severity \in Min(T) .. Max(T) /\ Min(T) \in Int /\ Max(T) \in Int
        BY <2>3, <4>1, <4>2, BoundedNarrows
      <4>. QED BY <4>1, <4>2, <4>3
    <3>2. IsFiniteSet(DOMAIN G[p])
      <4>. DEFINE Q == {t \in questions : t[parent] = p}
                  f == [t \in Q |-> t[child]]
      <4>1. IsFiniteSet(Q)
        BY FS_Subset
      <4>2. f \in Surjection(Q, Names(p))
        BY DEF Surjection
      <4>3. IsFiniteSet(Names(p))
        BY <4>1, <4>2, FS_Surjection
      <4>. QED BY <2>1, <4>3, FS_Subset
    <3>3. PICK c \in scored : TRUE
      BY <2>6
    <3>4. Min(T) \in Int /\ Max(T) \in Int
      BY <3>1, <3>3
    <3>5. \A x \in DOMAIN G[p] : G[p][x].severity # Null => G[p][x].severity \in Min(T) .. Max(T)
      BY <3>1
    <3>6. ~ \A x \in DOMAIN G[p] : G[p][x].severity = Null
      BY <3>3
    <3>. HIDE DEF scored, T, G
    <3>7. Reports!LevelRollup(G)[p].severity \in Min(T) .. Max(T)
      BY <2>1, <3>2, <3>4, <3>5, <3>6, LevelSeverity
    <3>8. T # {}
      BY <3>1, <3>3
    <3>9. U = Reports!LevelRollup(G)
      BY DEF Reports!Up, G
    <3>10. U[p].severity \in Min(T) .. Max(T)
      BY <3>7, <3>9
    <3>. HIDE DEF U, p
    <3>11. Bounded(U[p].severity, T)
      BY <3>8, <3>10 DEF Bounded
    <3>. QED BY <3>11 DEF U, T, p
  <2>. QED BY <2>5, <2>6
<1>. QED BY <1>3, <1>4, <1>5 DEF Fits

\* The rollups of single questions fit.
LEMMA OwnFits ==
    ASSUME NEW questions, NEW rows, IsFiniteSet(rows), Rated(rows),
           NEW asked, {q.id : q \in {t \in questions : \E s \in rows : s.question = t.id}} \subseteq asked,
           NEW own, own = [id \in asked |-> Reports!QuestionRollup({s \in rows : s.question = id})]
    PROVE  Fits(own, "id", questions, rows)
<1>1. ASSUME NEW q \in questions, NEW s \in rows, s.question = q.id
      PROVE  q["id"] \in DOMAIN own
  BY <1>1
<1>2. ASSUME NEW q \in questions, q["id"] \in DOMAIN own
      PROVE  Bounded(own[q["id"]].severity, ScoresOf(rows, {t \in questions : t["id"] = q["id"]}))
  <2>. DEFINE mine  == {s \in rows : s.question = q.id}
              items == {s \in mine : s.status = "SCORED" /\ s.severity # Null}
              T     == ScoresOf(rows, {t \in questions : t["id"] = q["id"]})
  <2>1. own[q["id"]].severity = IF items = {} THEN Null ELSE Reports!Mean(items, LAMBDA s : s.severity)
    BY <1>2 DEF Reports!QuestionRollup, Null
  <2>2. T = {r.severity : r \in {s \in mine : s.status = "SCORED"}}
    BY DEF ScoresOf
  <2>3. items = {s \in mine : s.status = "SCORED"}
    BY DEF Rated, Null, Reports!Null
  <2>4. T \in SUBSET (0..100)
    BY ScoresInRange
  <2>5. IsFiniteSet(items)
    BY FS_Subset
  <2>6. CASE items = {}
    BY <2>1, <2>2, <2>3, <2>6 DEF Bounded
  <2>7. CASE items # {}
    <3>1. T # {} /\ \A s \in items : s.severity \in T
      BY <2>2, <2>3, <2>7
    <3>. HIDE DEF T, items
    <3>2. Min(T) \in Int /\ Max(T) \in Int /\ \A s \in items : s.severity \in Min(T) .. Max(T)
      <4>1. /\ Min(T) \in 0..100 /\ Max(T) \in 0..100
            /\ \A x \in T : x \in 0..100 /\ Min(T) <= x /\ x <= Max(T)
        BY <2>4, <3>1, Extremes
      <4>. QED BY <3>1, <4>1
    <3>3. Reports!Mean(items, LAMBDA s : s.severity) \in Min(T) .. Max(T)
      BY <2>5, <2>7, <3>2, RowsMean
    <3>. QED BY <2>1, <2>7, <3>1, <3>3 DEF Bounded, T
  <2>. QED BY <2>6, <2>7
<1>. QED BY <1>1, <1>2 DEF Fits

\* A bank that is a tree from the domains down to the questions.
Tree(questions) ==
    /\ Nested(questions, "id", "kpi") /\ Nested(questions, "kpi", "indicator")
    /\ Nested(questions, "indicator", "subDomain") /\ Nested(questions, "subDomain", "domain")

NamesOf(questions, f) == {q[f] : q \in questions}

\* In any bank that is a tree, every rollup of every level lies between the
\* scores below it: an unanswered question moves nothing.
LEMMA LevelsFit ==
    ASSUME NEW questions, IsFiniteSet(questions), Tree(questions),
           NEW rows, IsFiniteSet(rows), Rated(rows),
           NEW own, Fits(own, "id", questions, rows)
    PROVE  LET kpis == Reports!Kpis(questions, own)
               inds == Reports!Indicators(questions, kpis)
               subs == Reports!SubDomains(questions, inds)
               doms == Reports!Domains(questions, subs)
           IN  /\ Fits(kpis, "kpi", questions, rows) /\ DOMAIN kpis \subseteq NamesOf(questions, "kpi")
               /\ Fits(inds, "indicator", questions, rows) /\ DOMAIN inds \subseteq NamesOf(questions, "indicator")
               /\ Fits(subs, "subDomain", questions, rows) /\ DOMAIN subs \subseteq NamesOf(questions, "subDomain")
               /\ Fits(doms, "domain", questions, rows) /\ DOMAIN doms \subseteq NamesOf(questions, "domain")
<1>. DEFINE kpis == Reports!Kpis(questions, own)
            inds == Reports!Indicators(questions, kpis)
            subs == Reports!SubDomains(questions, inds)
            doms == Reports!Domains(questions, subs)
<1>1. Fits(kpis, "kpi", questions, rows) /\ DOMAIN kpis \subseteq NamesOf(questions, "kpi")
  BY UpFits DEF Tree, NamesOf, Reports!Kpis
<1>. HIDE DEF kpis
<1>2. Fits(inds, "indicator", questions, rows) /\ DOMAIN inds \subseteq NamesOf(questions, "indicator")
  BY <1>1, UpFits DEF Tree, NamesOf, Reports!Indicators
<1>. HIDE DEF inds
<1>3. Fits(subs, "subDomain", questions, rows) /\ DOMAIN subs \subseteq NamesOf(questions, "subDomain")
  BY <1>2, UpFits DEF Tree, NamesOf, Reports!SubDomains
<1>. HIDE DEF subs
<1>4. Fits(doms, "domain", questions, rows) /\ DOMAIN doms \subseteq NamesOf(questions, "domain")
  BY <1>3, UpFits DEF Tree, NamesOf, Reports!Domains
<1>. HIDE DEF doms
<1>5. /\ Fits(kpis, "kpi", questions, rows) /\ DOMAIN kpis \subseteq NamesOf(questions, "kpi")
      /\ Fits(inds, "indicator", questions, rows) /\ DOMAIN inds \subseteq NamesOf(questions, "indicator")
      /\ Fits(subs, "subDomain", questions, rows) /\ DOMAIN subs \subseteq NamesOf(questions, "subDomain")
      /\ Fits(doms, "domain", questions, rows) /\ DOMAIN doms \subseteq NamesOf(questions, "domain")
  BY <1>1, <1>2, <1>3, <1>4
<1>. QED BY <1>5 DEF kpis, inds, subs, doms

\* So does the rollup of all domains.
LEMMA OverallFits ==
    ASSUME NEW questions, IsFiniteSet(questions), NEW rows, Rated(rows),
           NEW domains, Fits(domains, "domain", questions, rows),
           DOMAIN domains \subseteq NamesOf(questions, "domain")
    PROVE  Bounded(Reports!Overall(domains).severity, ScoresOf(rows, questions))
<1>. DEFINE below == [all \in {"OVERALL"} |-> domains]
            T == ScoresOf(rows, questions)
            At(d) == ScoresOf(rows, {t \in questions : t["domain"] = d})
            severity == Reports!LevelRollup(below)["OVERALL"].severity
<1>1. "OVERALL" \in DOMAIN below /\ below["OVERALL"] = domains
  OBVIOUS
<1>2. T \in SUBSET (0..100)
  BY ScoresInRange
<1>3. ASSUME NEW d \in DOMAIN domains PROVE At(d) \subseteq T /\ Bounded(domains[d].severity, At(d))
  <2>1. PICK q \in questions : q["domain"] = d
    BY DEF NamesOf
  <2>2. At(d) \subseteq T
    BY DEF ScoresOf
  <2>. QED BY <2>1, <2>2 DEF Fits
<1>4. ASSUME NEW x \in T
      PROVE  \E d \in DOMAIN domains : x \in At(d)
  <2>1. PICK s \in rows, q \in questions : s.status = "SCORED" /\ s.severity = x /\ q.id = s.question
    BY DEF ScoresOf
  <2>2. q["domain"] \in DOMAIN domains /\ x \in At(q["domain"])
    BY <2>1 DEF Fits, ScoresOf
  <2>. QED BY <2>2
<1>5. IsFiniteSet(DOMAIN domains)
  <2>. DEFINE f == [q \in questions |-> q["domain"]]
  <2>1. f \in Surjection(questions, NamesOf(questions, "domain"))
    BY DEF Surjection, NamesOf
  <2>2. IsFiniteSet(NamesOf(questions, "domain"))
    BY <2>1, FS_Surjection
  <2>. QED BY <2>2, FS_Subset
<1>6. Reports!Overall(domains).severity = severity
  BY DEF Reports!Overall
<1>. HIDE DEF At, T, below
<1>7. ASSUME NEW d \in DOMAIN domains
      PROVE  /\ domains[d].severity # Null =>
                  T # {} /\ domains[d].severity \in Min(T) .. Max(T) /\ Min(T) \in Int /\ Max(T) \in Int
             /\ At(d) # {} => domains[d].severity # Null
  BY <1>2, <1>3, BoundedNarrows
<1>8. CASE \A d \in DOMAIN domains : domains[d].severity = Null
  <2>1. T = {}
    BY <1>4, <1>7, <1>8
  <2>. DEFINE lo == 0
  <2>2. lo \in Int /\ \A d \in DOMAIN domains : domains[d].severity # Null => domains[d].severity \in lo..lo
    BY <1>8
  <2>. HIDE DEF lo
  <2>3. severity = Null
    BY <1>1, <1>5, <1>8, <2>2, LevelSeverity
  <2>. HIDE DEF severity
  <2>. QED BY <1>6, <2>1, <2>3 DEF Bounded, T
<1>9. CASE ~ \A d \in DOMAIN domains : domains[d].severity = Null
  <2>1. T # {} /\ Min(T) \in Int /\ Max(T) \in Int
    BY <1>7, <1>9
  <2>2. \A d \in DOMAIN domains : domains[d].severity # Null => domains[d].severity \in Min(T) .. Max(T)
    BY <1>7
  <2>3. severity \in Min(T) .. Max(T)
    BY <1>1, <1>5, <1>9, <2>1, <2>2, LevelSeverity
  <2>. HIDE DEF severity
  <2>. QED BY <1>6, <2>1, <2>3 DEF Bounded, T
<1>. QED BY <1>8, <1>9

\* For any bank that is a tree and any answers with severities from 0 to 100:
\* the rollup of a KPI, an indicator, a sub-domain, a domain and the whole lies
\* between the least and the greatest score below it, and there is none where
\* nothing below it was scored.  (calculateRollups)
THEOREM RollupsWithin ==
    ASSUME NEW questions, IsFiniteSet(questions), Tree(questions),
           NEW rows, IsFiniteSet(rows), Rated(rows)
    PROVE  LET domains == Reports!DomainRollups(questions, rows)
               levels  == Reports!Levels(questions, rows)
           IN  /\ Fits(domains, "domain", questions, rows) /\ DOMAIN domains \subseteq NamesOf(questions, "domain")
               /\ Bounded(Reports!Overall(domains).severity, ScoresOf(rows, questions))
               /\ \A f \in {"kpi", "indicator", "subDomain"} :
                     Fits(levels[f], f, questions, rows) /\ DOMAIN levels[f] \subseteq NamesOf(questions, f)
<1>. DEFINE Up3(own) == Reports!SubDomains(questions, Reports!Indicators(questions, Reports!Kpis(questions, own)))
            own1 == [id \in {q.id : q \in {t \in questions : {s \in rows : s.question = t.id} # {}}} |->
                        Reports!QuestionRollup({s \in rows : s.question = id})]
            own2 == [id \in {s.question : s \in rows} |->
                        Reports!QuestionRollup({s \in rows : s.question = id})]
<1>1. Fits(own1, "id", questions, rows)
  <2>. DEFINE asked == {q.id : q \in {t \in questions : {s \in rows : s.question = t.id} # {}}}
  <2>1. {q.id : q \in {t \in questions : \E s \in rows : s.question = t.id}} \subseteq asked
    OBVIOUS
  <2>. HIDE DEF asked
  <2>2. own1 = [id \in asked |-> Reports!QuestionRollup({s \in rows : s.question = id})]
    BY DEF asked
  <2>. HIDE DEF own1
  <2>. QED BY <2>1, <2>2, OwnFits
<1>2. Fits(own2, "id", questions, rows)
  <2>. DEFINE asked == {s.question : s \in rows}
  <2>1. {q.id : q \in {t \in questions : \E s \in rows : s.question = t.id}} \subseteq asked
    OBVIOUS
  <2>. HIDE DEF asked
  <2>2. own2 = [id \in asked |-> Reports!QuestionRollup({s \in rows : s.question = id})]
    BY DEF asked
  <2>. HIDE DEF own2
  <2>. QED BY <2>1, <2>2, OwnFits
<1>3. Reports!DomainRollups(questions, rows) = Reports!Domains(questions, Up3(own1))
  BY DEF Reports!DomainRollups
<1>4. LET kpis == Reports!Kpis(questions, own2)
          inds == Reports!Indicators(questions, kpis)
          subs == Reports!SubDomains(questions, inds)
      IN  Reports!Levels(questions, rows)
            = [kpi |-> kpis, indicator |-> inds, subDomain |-> subs, domain |-> Reports!Domains(questions, subs)]
  BY DEF Reports!Levels
<1>. HIDE DEF own1, own2
<1>5. LET domains == Reports!DomainRollups(questions, rows) IN
        Fits(domains, "domain", questions, rows) /\ DOMAIN domains \subseteq NamesOf(questions, "domain")
  BY <1>1, <1>3, LevelsFit
<1>6. LET levels == Reports!Levels(questions, rows) IN
        \A f \in {"kpi", "indicator", "subDomain"} :
           Fits(levels[f], f, questions, rows) /\ DOMAIN levels[f] \subseteq NamesOf(questions, f)
  BY <1>2, <1>4, LevelsFit
<1>7. Bounded(Reports!Overall(Reports!DomainRollups(questions, rows)).severity, ScoresOf(rows, questions))
  BY <1>5, OverallFits
<1>. QED BY <1>5, <1>6, <1>7

-----------------------------------------------------------------------------
(***************************************************************************)
(* The priority of a village                                               *)
(***************************************************************************)
\* The weighted mean of performances lies between the least and the greatest
\* of them.  (computeVillagePriority)
THEOREM PriorityWithin ==
    ASSUME NEW configs, IsFiniteSet(configs), \A x \in configs : x.weight \in Nat \ {0},
           NEW domains, Reports!Components(configs, domains) # {},
           NEW lo \in Int, NEW hi \in Int,
           \A x \in Reports!Components(configs, domains) :
              Reports!Performance(domains, x.domain) \in lo..hi
    PROVE  Reports!PriorityScore(configs, domains) \in lo..hi
<1>. DEFINE S == Reports!Components(configs, domains)
            e == [x \in S |-> x.weight * Reports!Performance(domains, x.domain)]
            w == [x \in S |-> x.weight]
            ones  == [x \in S |-> 1]
            count == [s \in SUBSET S |-> Cardinality(s)]
            c == Picked(S)
            Sums(g, s) == IF s = {} THEN 0
                          ELSE (CHOOSE x \in s : TRUE).weight
                                  * Reports!Performance(domains, (CHOOSE x \in s : TRUE).domain)
                                 + g[s \ {CHOOSE x \in s : TRUE}]
            sum == CHOOSE g : g = [s \in SUBSET S |-> Sums(g, s)]
            weights == Reports!SumOver(S, LAMBDA x : x.weight)
<1>0. S \subseteq configs
  BY DEF Reports!Components
<1>1. IsFiniteSet(S) /\ Chooses(c, S)
  BY <1>0, FS_Subset, PickedChooses
<1>2. ASSUME NEW g PROVE IsFold(g, e, c, S) <=> g = [s \in SUBSET S |-> Sums(g, s)]
  <2>1. ASSUME NEW s \in SUBSET S PROVE Step(e, c, g, s) = Sums(g, s)
    <3>1. s # {} => (CHOOSE x \in s : TRUE) \in S /\ c[s] = CHOOSE x \in s : TRUE
      BY DEF Picked
    <3>. HIDE DEF S
    <3>. QED BY <3>1 DEF Step
  <2>. HIDE DEF Sums, e, S, c
  <2>. QED BY <2>1 DEF IsFold
<1>3. \E g : IsFold(g, e, c, S)
  <2>. HIDE DEF e, S, c
  <2>. QED BY <1>1, FoldExists
<1>4. IsFold(sum, e, c, S)
  <2>. HIDE DEF e, Sums, S, c
  <2>. QED BY <1>2, <1>3
<1>5. Reports!SumOver(S, LAMBDA x : x.weight * Reports!Performance(domains, x.domain)) = sum[S]
  BY DEF Reports!SumOver, Reports!MapThenSumSet, Reports!MapThenFoldSet
<1>6. Reports!PriorityScore(configs, domains)
        = IF weights = 0 THEN 0
          ELSE Reports!SumOver(S, LAMBDA x : x.weight * Reports!Performance(domains, x.domain)) \div weights
  BY DEF Reports!PriorityScore
<1>7. Reports!PriorityScore(configs, domains) = IF weights = 0 THEN 0 ELSE sum[S] \div weights
  <2>. HIDE DEF sum, S
  <2>. QED BY <1>5, <1>6
<1>8. PICK h : IsFold(h, w, c, S) /\ weights = h[S]
  <2>. HIDE DEF S
  <2>. QED BY <1>1, SumOfWeights
<1>9. IsFold(count, ones, c, S)
  <2>. HIDE DEF S, c
  <2>. QED BY <1>1, CountIsFold
<1>10. \A x \in S : /\ ones[x] \in Int /\ w[x] \in Int
                    /\ 0 * w[x] <= ones[x] /\ ones[x] <= 1 * w[x]
  <2>. HIDE DEF S
  <2>. QED BY <1>0
<1>11. \A x \in S : /\ e[x] \in Int /\ w[x] \in Int
                    /\ lo * w[x] <= e[x] /\ e[x] <= hi * w[x]
  <2>1. ASSUME NEW x \in S PROVE e[x] \in Int /\ w[x] \in Int /\ lo * w[x] <= e[x] /\ e[x] <= hi * w[x]
    <3>. DEFINE v == x.weight
                p == Reports!Performance(domains, x.domain)
    <3>1. v \in Nat /\ p \in Int /\ lo <= p /\ p <= hi
      BY <1>0
    <3>2. e[x] = v * p /\ w[x] = v
      OBVIOUS
    <3>. HIDE DEF v, p
    <3>3. v * p \in Int /\ lo * v \in Int /\ hi * v \in Int
      BY <3>1
    <3>4. v * (p - lo) >= 0 /\ v * (hi - p) >= 0
      BY <3>1
    <3>5. v * (p - lo) = v * p - lo * v /\ v * (hi - p) = hi * v - v * p
      BY <3>1
    <3>6. lo * v <= v * p /\ v * p <= hi * v
      BY <3>3, <3>4, <3>5
    <3>. QED BY <3>1, <3>2, <3>3, <3>6
  <2>. QED BY <2>1
<1>12. count[S] = Cardinality(S)
  OBVIOUS
<1>13. S # {}
  OBVIOUS
<1>. HIDE DEF S, e, w, c, ones, count, sum
<1>14. h[S] \in Int /\ count[S] <= 1 * h[S]
  <2>. DEFINE low  == 0
              high == 1
  <2>1. /\ low \in Int /\ high \in Int
        /\ \A x \in S : /\ ones[x] \in Int /\ w[x] \in Int
                        /\ low * w[x] <= ones[x] /\ ones[x] <= high * w[x]
    BY <1>10
  <2>. HIDE DEF low, high
  <2>2. \A s \in SUBSET S : /\ count[s] \in Int /\ h[s] \in Int
                            /\ low * h[s] <= count[s] /\ count[s] <= high * h[s]
    BY <1>1, <1>8, <1>9, <2>1, FoldWithin
  <2>. QED BY <2>2 DEF high
<1>15. h[S] \in Nat /\ h[S] # 0
  BY <1>1, <1>12, <1>13, <1>14, FS_CardinalityType, FS_EmptySet
<1>16. sum[S] \in Int /\ lo * h[S] <= sum[S] /\ sum[S] <= hi * h[S]
  <2>1. \A s \in SUBSET S : /\ sum[s] \in Int /\ h[s] \in Int
                            /\ lo * h[s] <= sum[s] /\ sum[s] <= hi * h[s]
    BY <1>1, <1>4, <1>8, <1>11, FoldWithin
  <2>. QED BY <2>1
<1>17. sum[S] \div h[S] \in lo..hi
  BY <1>15, <1>16, QuotientWithin
<1>. QED BY <1>7, <1>8, <1>15, <1>17

-----------------------------------------------------------------------------
(***************************************************************************)
(* The inputs that TLC enumerates are such banks, rows and configurations. *)
(***************************************************************************)
\* The bank is a tree, the rows are rated and every question was asked.
LEMMA IndexInputsFit ==
    ASSUME NEW x \in IndexInputs
    PROVE  /\ IsFiniteSet(IndexQuestions) /\ Tree(IndexQuestions)
           /\ IsFiniteSet(RowsOf(x)) /\ Rated(RowsOf(x))
           /\ \A q \in IndexQuestions : \E s \in RowsOf(x) : s.question = q.id
           /\ NamesOf(IndexQuestions, "domain") = {"d1", "d2"}
           /\ x.configs # {} /\ x.configs \in SUBSET IndexConfigs
<1>1. IsFiniteSet(IndexQuestions)
  <2>. DEFINE q1 == Question("q1", "k1", "d1")
              q2 == Question("q2", "k2", "d1")
              q3 == Question("q3", "k3", "d2")
  <2>1. IsFiniteSet({q1} \cup {q2} \cup {q3})
    BY FS_Singleton, FS_Union
  <2>2. IndexQuestions = {q1} \cup {q2} \cup {q3}
    BY DEF IndexQuestions
  <2>. QED BY <2>1, <2>2
<1>2. Tree(IndexQuestions)
  BY DEF IndexQuestions, Question, Tree, Nested
<1>3. x.configs # {} /\ x.configs \in SUBSET IndexConfigs
  BY DEF IndexInputs
<1>4. x.sheets \in [1..2 -> [{"q1", "q2", "q3"} -> {Null, 0, 50, 90}]]
  BY DEF IndexInputs
<1>5. IsFiniteSet(RowsOf(x))
  <2>. DEFINE At  == (1..2) \X {"q1", "q2", "q3"}
              row == [a \in At |-> Row(a[1], a[2], x.sheets[a[1]][a[2]])]
  <2>1. IsFiniteSet(1..2) /\ IsFiniteSet({"q1", "q2", "q3"})
    <3>1. IsFiniteSet({"q1"} \cup {"q2"} \cup {"q3"})
      BY FS_Singleton, FS_Union
    <3>2. {"q1"} \cup {"q2"} \cup {"q3"} = {"q1", "q2", "q3"}
      OBVIOUS
    <3>3. IsFiniteSet({1} \cup {2})
      BY FS_Singleton, FS_Union
    <3>4. {1} \cup {2} = 1..2
      OBVIOUS
    <3>5. IsFiniteSet(1..2)
      BY <3>3, <3>4
    <3>6. IsFiniteSet({"q1", "q2", "q3"})
      BY <3>1, <3>2
    <3>. QED BY <3>5, <3>6
  <2>2. IsFiniteSet(At)
    BY <2>1, FS_Product
  <2>3. row \in Surjection(At, RowsOf(x))
    <3>1. ASSUME NEW r \in RowsOf(x) PROVE \E a \in At : row[a] = r
      <4>1. PICK n \in 1..2, q \in {"q1", "q2", "q3"} : r = Row(n, q, x.sheets[n][q])
        BY DEF RowsOf
      <4>2. <<n, q>> \in At /\ row[<<n, q>>] = r
        BY <4>1
      <4>. QED BY <4>2
    <3>2. \A a \in At : row[a] \in RowsOf(x)
      BY DEF RowsOf
    <3>. QED BY <3>1, <3>2 DEF Surjection
  <2>. QED BY <2>2, <2>3, FS_Surjection
<1>6. Rated(RowsOf(x))
  <2>1. ASSUME NEW n \in 1..2, NEW q \in {"q1", "q2", "q3"}, NEW v, v = x.sheets[n][q],
               Row(n, q, v).status = "SCORED"
        PROVE  Row(n, q, v).severity \in 0..100
    BY <1>4, <2>1 DEF Row
  <2>. QED BY <2>1 DEF RowsOf, Rated
<1>7. \A q \in IndexQuestions : \E s \in RowsOf(x) : s.question = q.id
  <2>1. ASSUME NEW q \in {"q1", "q2", "q3"}
        PROVE  \E s \in RowsOf(x) : s.question = q
    <3>1. Row(1, q, x.sheets[1][q]) \in RowsOf(x)
      BY DEF RowsOf
    <3>2. Row(1, q, x.sheets[1][q]).question = q
      BY DEF Row
    <3>. QED BY <3>1, <3>2
  <2>. QED BY <2>1 DEF IndexQuestions, Question
<1>8. NamesOf(IndexQuestions, "domain") = {"d1", "d2"}
  BY DEF NamesOf, IndexQuestions, Question
<1>. QED BY <1>1, <1>2, <1>3, <1>5, <1>6, <1>7, <1>8

\* So the levels of an enumerated input lie within their scores.
LEMMA LevelsOfIndex ==
    ASSUME NEW x \in IndexInputs
    PROVE  LET domains == Reports!DomainRollups(IndexQuestions, RowsOf(x))
               levels  == Reports!Levels(IndexQuestions, RowsOf(x))
           IN  /\ DOMAIN domains = {"d1", "d2"}
               /\ \A d \in DOMAIN domains :
                     Bounded(domains[d].severity,
                             ScoresOf(RowsOf(x), {q \in IndexQuestions : q.domain = d}))
               /\ \A f \in {"kpi", "indicator", "subDomain"} : \A n \in DOMAIN levels[f] :
                     Bounded(levels[f][n].severity,
                             ScoresOf(RowsOf(x), {q \in IndexQuestions : q[f] = n}))
               /\ Bounded(Reports!Overall(domains).severity, ScoresOf(RowsOf(x), IndexQuestions))
<1>. DEFINE domains == Reports!DomainRollups(IndexQuestions, RowsOf(x))
            levels  == Reports!Levels(IndexQuestions, RowsOf(x))
<1>1. /\ Fits(domains, "domain", IndexQuestions, RowsOf(x))
      /\ DOMAIN domains \subseteq NamesOf(IndexQuestions, "domain")
      /\ Bounded(Reports!Overall(domains).severity, ScoresOf(RowsOf(x), IndexQuestions))
      /\ \A f \in {"kpi", "indicator", "subDomain"} :
            Fits(levels[f], f, IndexQuestions, RowsOf(x)) /\ DOMAIN levels[f] \subseteq NamesOf(IndexQuestions, f)
  BY IndexInputsFit, RollupsWithin
<1>. HIDE DEF domains, levels
<1>2. ASSUME NEW f, NEW r, Fits(r, f, IndexQuestions, RowsOf(x)), DOMAIN r \subseteq NamesOf(IndexQuestions, f),
             NEW n \in DOMAIN r
      PROVE  Bounded(r[n].severity, ScoresOf(RowsOf(x), {q \in IndexQuestions : q[f] = n}))
  <2>1. PICK q \in IndexQuestions : q[f] = n
    BY <1>2 DEF NamesOf
  <2>. QED BY <1>2, <2>1 DEF Fits
<1>3. DOMAIN domains = {"d1", "d2"}
  <2>1. \A q \in IndexQuestions : q["domain"] \in DOMAIN domains
    BY <1>1, IndexInputsFit DEF Fits
  <2>2. NamesOf(IndexQuestions, "domain") = {"d1", "d2"}
    BY IndexInputsFit
  <2>. QED BY <1>1, <2>1, <2>2 DEF NamesOf
<1>4. \A d \in DOMAIN domains :
         Bounded(domains[d].severity, ScoresOf(RowsOf(x), {q \in IndexQuestions : q["domain"] = d}))
  BY <1>1, <1>2
<1>5. \A f \in {"kpi", "indicator", "subDomain"} : \A n \in DOMAIN levels[f] :
         Bounded(levels[f][n].severity, ScoresOf(RowsOf(x), {q \in IndexQuestions : q[f] = n}))
  BY <1>1, <1>2
<1>. QED BY <1>1, <1>3, <1>4, <1>5 DEF domains, levels

\* No scope with a critical domain below its threshold is shown as less.
LEMMA ShownMatches ==
    ASSUME NEW x \in IndexInputs
    PROVE  LET domains == Reports!DomainRollups(IndexQuestions, RowsOf(x))
               worth == {Reports!Performance(domains, c.domain) :
                            c \in Reports!Components(x.configs, domains)}
               score == Reports!PriorityScore(x.configs, domains)
               shown == Reports!ShownLevel(x.configs, domains)
           IN  /\ worth # {} => score \in Min(worth) .. Max(worth)
               /\ \A c \in x.configs :
                     c.critical /\ domains[c.domain].severity > 100 - c.threshold => shown = "critical"
               /\ shown # "critical" =>
                     shown = [HIGH |-> "high", MEDIUM |-> "medium", LOW |-> "low"][Reports!priorityStatusOf(score)]
<1>. DEFINE domains == Reports!DomainRollups(IndexQuestions, RowsOf(x))
            S == Reports!Components(x.configs, domains)
            worth == {Reports!Performance(domains, c.domain) : c \in S}
            score == Reports!PriorityScore(x.configs, domains)
            shown == Reports!ShownLevel(x.configs, domains)
<1>1. DOMAIN domains = {"d1", "d2"}
  BY LevelsOfIndex
<1>2. ASSUME NEW d \in {"d1", "d2"} PROVE domains[d].severity \in {Null} \cup 0..100
  <2>. DEFINE T == ScoresOf(RowsOf(x), {q \in IndexQuestions : q.domain = d})
  <2>1. Bounded(domains[d].severity, T)
    BY <1>1, LevelsOfIndex
  <2>2. T \in SUBSET (0..100)
    BY IndexInputsFit, ScoresInRange
  <2>. HIDE DEF T, domains
  <2>3. CASE T = {}
    BY <2>1, <2>3 DEF Bounded
  <2>4. CASE T # {}
    <3>1. Min(T) \in 0..100 /\ Max(T) \in 0..100
      BY <2>2, <2>4, Extremes
    <3>. QED BY <2>1, <2>4, <3>1 DEF Bounded
  <2>. QED BY <2>3, <2>4
<1>3. /\ x.configs \in SUBSET IndexConfigs
      /\ \A c \in x.configs : c.weight \in Nat \ {0} /\ c.domain \in {"d1", "d2"} /\ c.threshold \in {0, 30}
  BY IndexInputsFit DEF IndexConfigs
<1>4. IsFiniteSet(x.configs)
  <2>. DEFINE c1 == [domain |-> "d1", weight |-> 3, critical |-> TRUE, threshold |-> 30]
              c2 == [domain |-> "d2", weight |-> 1, critical |-> FALSE, threshold |-> 0]
  <2>1. IsFiniteSet({c1} \cup {c2})
    BY FS_Singleton, FS_Union
  <2>2. IndexConfigs = {c1} \cup {c2}
    BY DEF IndexConfigs
  <2>. QED BY <1>3, <2>1, <2>2, FS_Subset
<1>. HIDE DEF domains
<1>5. ASSUME NEW c \in S
      PROVE  c \in x.configs /\ Reports!Performance(domains, c.domain) \in 0..100
  BY <1>2, <1>3 DEF Reports!Components, Reports!Performance, Null
<1>6. worth \in SUBSET (0..100)
  BY <1>5
<1>7. S # {} => score \in Min(worth) .. Max(worth) /\ score \in 0..100
  <2>. SUFFICES ASSUME S # {} PROVE score \in Min(worth) .. Max(worth) /\ score \in 0..100
    OBVIOUS
  <2>1. worth # {} /\ \A c \in S : Reports!Performance(domains, c.domain) \in worth
    OBVIOUS
  <2>. HIDE DEF worth
  <2>2. /\ Min(worth) \in 0..100 /\ Max(worth) \in 0..100
        /\ \A v \in worth : v \in 0..100 /\ Min(worth) <= v /\ v <= Max(worth)
    BY <1>6, <2>1, Extremes
  <2>3. \A c \in S : Reports!Performance(domains, c.domain) \in Min(worth) .. Max(worth)
    BY <2>1, <2>2
  <2>4. score \in Min(worth) .. Max(worth)
    <3>1. \A c \in x.configs : c.weight \in Nat \ {0}
      BY <1>3
    <3>2. Min(worth) \in Int /\ Max(worth) \in Int
      BY <2>2
    <3>. DEFINE lo == Min(worth)
                hi == Max(worth)
    <3>3. /\ lo \in Int /\ hi \in Int
          /\ \A c \in Reports!Components(x.configs, domains) :
                Reports!Performance(domains, c.domain) \in lo..hi
      BY <2>3, <3>2
    <3>4. Reports!Components(x.configs, domains) # {}
      OBVIOUS
    <3>. HIDE DEF lo, hi, S
    <3>5. score \in lo..hi
      BY <1>4, <3>1, <3>3, <3>4, PriorityWithin
    <3>. QED BY <3>5 DEF lo, hi
  <2>. HIDE DEF score
  <2>. QED BY <2>2, <2>4
<1>8. worth # {} => S # {}
  OBVIOUS
<1>9. ASSUME NEW c \in x.configs, c.critical, domains[c.domain].severity > 100 - c.threshold
      PROVE  shown = "critical"
  <2>1. domains[c.domain].severity # Null
    BY <1>2, <1>3, <1>9 DEF Null, Reports!Null
  <2>2. c \in S
    BY <1>1, <1>3, <2>1 DEF Reports!Components, Null
  <2>3. Reports!Performance(domains, c.domain) < c.threshold
    BY <1>2, <1>3, <1>9, <2>1 DEF Reports!Performance
  <2>4. Reports!Overridden(x.configs, domains)
    BY <1>9, <2>2, <2>3 DEF Reports!Overridden
  <2>. QED BY <2>4 DEF Reports!ShownLevel
<1>10. ASSUME shown # "critical"
       PROVE  shown = [HIGH |-> "high", MEDIUM |-> "medium", LOW |-> "low"][Reports!priorityStatusOf(score)]
  <2>1. ~Reports!Overridden(x.configs, domains)
    BY <1>10 DEF Reports!ShownLevel
  <2>2. score \in 0..100
    <3>1. CASE S # {} BY <1>7, <3>1
    <3>2. CASE S = {}
      <4>. DEFINE weights == Reports!SumOver(S, LAMBDA c : c.weight)
      <4>1. score = IF weights = 0 THEN 0
                    ELSE Reports!SumOver(S, LAMBDA c : c.weight * Reports!Performance(domains, c.domain)) \div weights
        BY DEF Reports!PriorityScore
      <4>5. weights = 0 => score = 0
        <5>. HIDE DEF S, score, weights
        <5>. QED BY <4>1, Zenon
      <4>. HIDE DEF S, score
      <4>2. IsFiniteSet(S)
        BY <3>2, FS_EmptySet
      <4>3. PICK h : IsFold(h, [c \in S |-> c.weight], Picked(S), S) /\ weights = h[S]
        BY <4>2, SumOfWeights
      <4>4. weights = 0
        BY <3>2, <4>3 DEF IsFold, Step
      <4>. HIDE DEF weights
      <4>. QED BY <4>4, <4>5
    <3>. QED BY <3>1, <3>2
  <2>3. Reports!priorityStatusOf(score) = Reports!computeVillagePriority(x.configs, domains)
    <3>1. score # Reports!Null
      BY <2>2 DEF Reports!Null
    <3>2. Reports!computeVillagePriority(x.configs, domains)
            = IF score <= 40 THEN "HIGH" ELSE IF score <= 70 THEN "MEDIUM" ELSE "LOW"
      BY <2>1 DEF Reports!computeVillagePriority
    <3>. HIDE DEF score
    <3>3. ASSUME NEW v \in Int, v # Reports!Null
          PROVE  Reports!priorityStatusOf(v)
                   = IF v <= 40 THEN "HIGH" ELSE IF v <= 70 THEN "MEDIUM" ELSE "LOW"
      BY <3>3 DEF Reports!priorityStatusOf
    <3>. QED BY <2>2, <3>1, <3>2, <3>3
  <2>. QED BY <2>1, <2>3 DEF Reports!ShownLevel
<1>. QED BY <1>7, <1>8, <1>9, <1>10 DEF domains

-----------------------------------------------------------------------------
(***************************************************************************)
(* The behaviours of MCTables: an input of some kind, then its answer.     *)
(***************************************************************************)
\* The kind of an input says what was asked.
LEMMA KindsTell ==
    ASSUME Init
    PROVE  /\ output = Pending
           /\ input.kind = "index" => input \in IndexInputs
           /\ input.kind = "sheet" => input \in SheetInputs
           /\ input.kind = "quality" => input \in QualityInputs
           /\ input.kind = "report" => input \in ReportInputs
           /\ input.kind = "ncnp" => input \in NcnpInputs
           /\ input.kind = "answers" => input \in AnswersInputs
           /\ input.kind = "paging" => input \in PagingInputs
           /\ input.kind = "board" => input \in BoardInputs
           /\ input.kind = "portfolio" => input \in PortfolioInputs
           /\ input.kind = "overview" => input \in OverviewInputs
           /\ input.kind = "queue" => input \in QueueInputs
           /\ input.kind = "call" => input \in CallInputs
           /\ input.kind = "segments" => input \in SegmentInputs
           /\ input.kind = "scale" => input \in ScaleInputs
           /\ input.kind = "notes" => input \in NoteInputs
           /\ input.kind = "release" => input \in AccessInputs
           /\ input.kind = "step" => input \in AccessInputs
           /\ input.kind = "file" => input \in FileInputs
           /\ input.kind = "row" => input \in RowInputs
           /\ input.kind = "table" => input \in TableInputs
           /\ input.kind = "chunks" => input \in ChunkInputs
           /\ input.kind = "document" => input \in DocumentInputs
<1>1. input \in IndexInputs => input.kind = "index"
  BY DEF IndexInputs
<1>2. input \in SheetInputs => input.kind = "sheet"
  BY DEF SheetInputs
<1>3. input \in ReportInputs => input.kind = "report"
  BY DEF ReportInputs
<1>4. input \in AccessInputs => input.kind \in {"release", "step"}
  BY DEF AccessInputs
<1>5. input \in NcnpInputs => input.kind = "ncnp"
  BY DEF NcnpInputs
<1>6. input \in FileInputs => input.kind = "file"
  BY DEF FileInputs
<1>7. input \in RowInputs => input.kind = "row"
  BY DEF RowInputs
<1>8. input \in AnswersInputs => input.kind = "answers"
  BY DEF AnswersInputs
<1>9. input \in PagingInputs => input.kind = "paging"
  BY DEF PagingInputs
<1>10. input \in QualityInputs => input.kind = "quality"
  BY DEF QualityInputs
<1>11. input \in BoardInputs => input.kind = "board"
  BY DEF BoardInputs
<1>12. input \in PortfolioInputs => input.kind = "portfolio"
  BY DEF PortfolioInputs
<1>13. input \in OverviewInputs => input.kind = "overview"
  BY DEF OverviewInputs
<1>14. input \in QueueInputs => input.kind = "queue"
  BY DEF QueueInputs
<1>15. input \in CallInputs => input.kind = "call"
  BY DEF CallInputs
<1>16. input \in SegmentInputs => input.kind = "segments"
  BY DEF SegmentInputs
<1>17. input \in ScaleInputs => input.kind = "scale"
  BY DEF ScaleInputs
<1>18. input \in NoteInputs => input.kind = "notes"
  BY DEF NoteInputs
<1>19. input \in TableInputs => input.kind = "table"
  BY DEF TableInputs
<1>20. input \in ChunkInputs => input.kind = "chunks"
  BY DEF ChunkInputs
<1>21. input \in DocumentInputs => input.kind = "document"
  BY DEF DocumentInputs
<1>. QED BY <1>1, <1>2, <1>3, <1>4, <1>5, <1>6, <1>7, <1>8, <1>9, <1>10, <1>11, <1>12, <1>13, <1>14, <1>15, <1>16, <1>17, <1>18, <1>19, <1>20, <1>21 DEF Init

\* What is asked is one of the inputs, and the answer is that of its kind.
Tells(kind, inputs, value) ==
    input.kind = kind => input \in inputs /\ output \in {Pending, <<value>>}

TablesInv ==
    /\ Tells("index", IndexInputs, Index(input))
    /\ Tells("sheet", SheetInputs, Sheet(input))
    /\ Tells("quality", QualityInputs, Quality(input))
    /\ Tells("report", ReportInputs, Report(input))
    /\ Tells("ncnp", NcnpInputs, Ncnp!getReport(Db(input), 400, 30, 60))
    /\ Tells("answers", AnswersInputs, Exports!exportRow(input.answers, Versions(input)))
    /\ Tells("paging", PagingInputs, Exports!iterateResponsesForExport(Stored(input), input.batch, 50).rows)
    /\ Tells("board", BoardInputs, Board(input))
    /\ Tells("portfolio", PortfolioInputs, Portfolio(input))
    /\ Tells("overview", OverviewInputs, Overview(input))
    /\ Tells("queue", QueueInputs, QueueOf(input))
    /\ Tells("call", CallInputs, Roles!Passes(input))
    /\ Tells("segments", SegmentInputs, Reports!deriveEquityFlag(Segments(input), 10, 60))
    /\ Tells("scale", ScaleInputs, Scale(input))
    /\ Tells("notes", NoteInputs, Notes(input))
    /\ Tells("release", AccessInputs, Roles!Staff(input.steps[1]) \cap Roles!Staff(input.steps[2]))
    /\ Tells("step", AccessInputs, Roles!Staff(input.handler))
    /\ Tells("file", FileInputs,
             [rows |-> Documents!parseCsvRows(Documents!Printed(input.rows), Documents!Comma),
              line |-> Documents!parseCsvRow(Documents!Printed(<<input.rows[1]>>))])
    /\ Tells("row", RowInputs, Documents!StoredRow(input.title, input.village, input.reference))
    /\ Tells("table", TableInputs, Table(input))
    /\ Tells("chunks", ChunkInputs, Documents!splitChunks(input.text, input.size))
    /\ Tells("document", DocumentInputs, Documents!parseSurveyDocumentNeeds(input.file, input.answer))

\* At first nothing is answered.
LEMMA TablesInvInit == Init => TablesInv
BY KindsTell DEF TablesInv, Tells

\* A step answers the question of its kind and keeps the input.
LEMMA TablesInvStep == TablesInv /\ [Next]_<<input, output>> => TablesInv'
BY DEF TablesInv, Tells, Next, Answer, Pending

\* Rollups stay within the scores below them, the priority within the
\* performances, and nothing critical is shown as less.  (calculateRollups,
\* computeVillagePriority, listForOrg)
THEOREM LevelsWithinHolds == Spec => []LevelsWithin
<1>1. ASSUME TablesInv PROVE LevelsWithin
  <2>. SUFFICES ASSUME Answered("index") PROVE LevelsWithin
    BY DEF LevelsWithin
  <2>. DEFINE x == input
              domains == Reports!DomainRollups(IndexQuestions, RowsOf(x))
              levels  == Reports!Levels(IndexQuestions, RowsOf(x))
              score   == Reports!PriorityScore(x.configs, domains)
              shown   == Reports!ShownLevel(x.configs, domains)
              worth   == {Reports!Performance(domains, c.domain) : c \in Reports!Components(x.configs, domains)}
  <2>1. x \in IndexInputs /\ Result = Index(x)
    BY <1>1 DEF TablesInv, Tells, Answered, Result
  <2>2. /\ Result.levels = levels /\ Result.domains = domains
        /\ Result.overall = Reports!Overall(domains) /\ Result.shown = shown
    BY <2>1 DEF Index
  <2>. HIDE DEF levels, domains
  <2>3. /\ \A d \in DOMAIN domains :
              Bounded(domains[d].severity, ScoresOf(RowsOf(x), {q \in IndexQuestions : q.domain = d}))
        /\ \A f \in {"kpi", "indicator", "subDomain"} : \A n \in DOMAIN levels[f] :
              Bounded(levels[f][n].severity, ScoresOf(RowsOf(x), {q \in IndexQuestions : q[f] = n}))
        /\ Bounded(Reports!Overall(domains).severity, ScoresOf(RowsOf(x), IndexQuestions))
    BY <2>1, LevelsOfIndex DEF domains, levels
  <2>4. /\ worth # {} => score \in Min(worth) .. Max(worth)
        /\ \A c \in x.configs :
              c.critical /\ domains[c.domain].severity > 100 - c.threshold => shown = "critical"
        /\ shown # "critical" =>
              shown = [HIGH |-> "high", MEDIUM |-> "medium", LOW |-> "low"][Reports!priorityStatusOf(score)]
    BY <2>1, ShownMatches DEF domains
  <2>. QED BY <2>2, <2>3, <2>4, ZenonT(60) DEF LevelsWithin, Bounded, ScoresOf
<1>. QED BY <1>1, TablesInvInit, TablesInvStep, PTL DEF Spec

-----------------------------------------------------------------------------
(***************************************************************************)
(* Copies of a response                                                    *)
(***************************************************************************)
\* Whatever is submitted, every copy names the one original, and of equal
\* responses exactly one is the original.  (assessResponseQuality)
THEOREM CopiesNameTheOriginal ==
    ASSUME NEW n \in Nat, NEW responses, DOMAIN responses = 1..n, NEW settings,
           \A i \in 1..n : responses[i].id # Boards!None,
           \A i, j \in 1..n : responses[i].id = responses[j].id => i = j
    PROVE  Boards!OriginalsOnce(responses, Boards!assessResponseQuality(responses, settings))
<1>. DEFINE Was(i) == Boards!Earlier(responses, i)
            First(i) == Boards!FirstOf(responses, i)
            A(i) == Boards!Assessed(responses, i, settings, First(i))
            R == Boards!assessResponseQuality(responses, settings)
            Same(i, j) == /\ responses[i].contact = responses[j].contact
                          /\ responses[i].answers = responses[j].answers
            Original(r) == CHOOSE x \in R : x.response = r.id
<1>1. R = {A(i) : i \in 1..n}
  BY DEF Boards!assessResponseQuality
<1>2. \A i \in 1..n : A(i).response = responses[i].id /\ A(i).duplicateOf = First(i)
  BY DEF Boards!Assessed
<1>3. \A i \in 1..n : Was(i) = {j \in 1..(i - 1) : Same(j, i)}
  BY DEF Boards!Earlier
<1>4. ASSUME NEW i \in 1..n, Was(i) # {}
      PROVE  /\ Boards!Min(Was(i)) \in Was(i)
             /\ \A j \in Was(i) : Boards!Min(Was(i)) <= j
  <2>1. Was(i) \in SUBSET Nat
    BY <1>3
  <2>. HIDE DEF Was
  <2>2. \E k \in Was(i) : \A j \in Was(i) : k <= j
    BY <1>4, <2>1, LeastOf
  <2>. QED BY <2>2 DEF Boards!Min
<1>. DEFINE least(i) == Boards!Min(Was(i))
<1>5. \A i \in 1..n : First(i) = IF Was(i) = {} THEN Boards!None ELSE responses[least(i)].id
  BY DEF Boards!FirstOf
<1>. HIDE DEF A, R, First, Was, least
<1>6. ASSUME NEW i \in 1..n, Was(i) # {}
      PROVE  /\ least(i) \in 1..n /\ least(i) < i /\ Same(least(i), i)
             /\ Was(least(i)) = {}
  <2>1. least(i) \in Was(i) /\ \A j \in Was(i) : least(i) <= j
    BY <1>4, <1>6 DEF least
  <2>2. least(i) \in 1..(i - 1) /\ Same(least(i), i)
    BY <1>3, <2>1
  <2>3. ASSUME NEW j \in Was(least(i)) PROVE FALSE
    <3>1. j \in 1..(least(i) - 1) /\ Same(j, least(i))
      BY <1>3, <2>2
    <3>2. j \in Was(i)
      BY <1>3, <2>2, <3>1
    <3>. QED BY <2>1, <2>2, <3>1, <3>2
  <2>. QED BY <2>2, <2>3
<1>7. ASSUME NEW i \in 1..n
      PROVE  Original(responses[i]) = A(i) /\ A(i) \in R
  <2>1. A(i) \in R /\ A(i).response = responses[i].id
    BY <1>1, <1>2
  <2>2. \A x \in R : x.response = responses[i].id => x = A(i)
    BY <1>1, <1>2
  <2>. QED BY <2>1, <2>2
<1>. HIDE DEF Original
<1>8. ASSUME NEW i \in 1..n, NEW j \in 1..n
      PROVE  LET r == responses[i]
                 s == responses[j]
             IN  /\ Original(r).duplicateOf # Boards!None =>
                       \E t \in R : t.response = Original(r).duplicateOf /\ t.duplicateOf = Boards!None
                 /\ Same(i, j) /\ r # s =>
                       ~(Original(r).duplicateOf = Boards!None /\ Original(s).duplicateOf = Boards!None)
                 /\ ~Same(i, j) => Original(r).duplicateOf # s.id
  <2>1. Original(responses[i]).duplicateOf = First(i) /\ Original(responses[j]).duplicateOf = First(j)
    BY <1>2, <1>7
  <2>2. ASSUME First(i) # Boards!None
        PROVE  \E t \in R : t.response = First(i) /\ t.duplicateOf = Boards!None
    <3>1. Was(i) # {} /\ First(i) = responses[least(i)].id
      BY <1>5, <2>2
    <3>2. least(i) \in 1..n /\ Was(least(i)) = {}
      BY <1>6, <3>1
    <3>3. A(least(i)).response = First(i) /\ A(least(i)).duplicateOf = Boards!None /\ A(least(i)) \in R
      BY <1>2, <1>5, <1>7, <3>1, <3>2
    <3>. QED BY <3>3
  <2>3. ASSUME Same(i, j), responses[i] # responses[j], First(i) = Boards!None, First(j) = Boards!None
        PROVE  FALSE
    <3>1. Was(i) = {} /\ Was(j) = {}
      BY <1>5, <1>6, <2>3
    <3>2. i # j
      BY <2>3
    <3>3. CASE i < j
      BY <1>3, <2>3, <3>1, <3>3
    <3>4. CASE j < i
      BY <1>3, <2>3, <3>1, <3>4
    <3>. QED BY <3>2, <3>3, <3>4
  <2>4. ASSUME ~Same(i, j), First(i) = responses[j].id PROVE FALSE
    <3>1. Was(i) # {} /\ responses[least(i)].id = responses[j].id
      BY <1>5, <2>4
    <3>2. least(i) = j
      BY <1>6, <3>1
    <3>. QED BY <1>6, <2>4, <3>1, <3>2
  <2>. QED BY <2>1, <2>2, <2>3, <2>4
<1>9. Boards!ToSet(responses) = {responses[i] : i \in 1..n}
  BY DEF Boards!ToSet
<1>10. ASSUME NEW r \in Boards!ToSet(responses), NEW s \in Boards!ToSet(responses)
       PROVE  LET same == r.contact = s.contact /\ r.answers = s.answers IN
                /\ Original(r).duplicateOf # Boards!None =>
                      \E t \in R : t.response = Original(r).duplicateOf /\ t.duplicateOf = Boards!None
                /\ same /\ r # s =>
                      ~(Original(r).duplicateOf = Boards!None /\ Original(s).duplicateOf = Boards!None)
                /\ ~same => Original(r).duplicateOf # s.id
  <2>1. PICK i \in 1..n, j \in 1..n : r = responses[i] /\ s = responses[j]
    BY <1>9
  <2>. HIDE DEF R
  <2>. QED BY <1>8, <2>1
<1>11. Boards!OriginalsOnce(responses, R)
  <2>. HIDE DEF R, Same
  <2>. QED BY <1>10 DEF Boards!OriginalsOnce, Original
<1>. QED BY <1>11 DEF R

\* The submitted responses that TLC enumerates have identifiers of their own.
LEMMA SubmittedDistinct ==
    ASSUME NEW x \in QualityInputs
    PROVE  \E n \in 1..4 :
              /\ DOMAIN Submitted(x) = 1..n
              /\ \A i \in 1..n : Submitted(x)[i].id # Boards!None
              /\ \A i, j \in 1..n : Submitted(x)[i].id = Submitted(x)[j].id => i = j
<1>. DEFINE ids == <<"a1", "a2", "a3", "a4">>
<1>1. PICK n \in 1..4 : DOMAIN x.sheets = 1..n
  BY DEF QualityInputs
<1>2. \A i \in 1..4 : ids[i] # Boards!None
  BY DEF Boards!None
<1>3. \A i, j \in 1..4 : ids[i] = ids[j] => i = j
  OBVIOUS
<1>4. DOMAIN Submitted(x) = 1..n /\ \A i \in 1..n : Submitted(x)[i].id = ids[i] /\ i \in 1..4
  BY <1>1 DEF Submitted
<1>. HIDE DEF ids
<1>. QED BY <1>2, <1>3, <1>4

\* Of equal responses exactly one is the original, and every copy names it.
\* (assessResponseQuality)
THEOREM OriginalsOnceHolds == Spec => []OriginalsOnce
<1>1. ASSUME TablesInv PROVE OriginalsOnce
  <2>. SUFFICES ASSUME Answered("quality") PROVE Boards!OriginalsOnce(Submitted(input), Result)
    BY DEF OriginalsOnce
  <2>. DEFINE settings == [minimum |-> 3, ratio |-> 40]
  <2>1. input \in QualityInputs /\ Result = Boards!assessResponseQuality(Submitted(input), settings)
    BY <1>1 DEF TablesInv, Tells, Answered, Result, Quality
  <2>. HIDE DEF settings
  <2>2. PICK n \in 1..4 :
              /\ DOMAIN Submitted(input) = 1..n
              /\ \A i \in 1..n : Submitted(input)[i].id # Boards!None
              /\ \A i, j \in 1..n : Submitted(input)[i].id = Submitted(input)[j].id => i = j
    BY <2>1, SubmittedDistinct
  <2>3. n \in Nat
    OBVIOUS
  <2>. QED BY <2>1, <2>2, <2>3, CopiesNameTheOriginal
<1>. QED BY <1>1, TablesInvInit, TablesInvStep, PTL DEF Spec

-----------------------------------------------------------------------------
(***************************************************************************)
(* One sheet of answers                                                    *)
(***************************************************************************)
\* The greatest of some places of a sequence is one of them.
LEMMA LargestOf ==
    ASSUME NEW n \in Nat, NEW s \in SUBSET (1..n), s # {}
    PROVE  Scoring!Max(s) \in s
<1>. DEFINE B == {k \in Nat : \A j \in s : j <= k}
<1>1. n \in B
  OBVIOUS
<1>2. PICK k \in B : \A j \in B : k <= j
  BY <1>1, LeastOf
<1>3. k \in s
  <2>1. ASSUME k \notin s PROVE FALSE
    <3>1. PICK i \in s : TRUE
      OBVIOUS
    <3>2. k - 1 \in Nat /\ \A j \in s : j <= k - 1
      BY <1>2, <2>1, <3>1
    <3>. QED BY <1>2, <3>2
  <2>. QED BY <2>1
<1>4. \A j \in s : k >= j
  BY <1>2, <1>3
<1>. QED BY <1>3, <1>4 DEF Scoring!Max

\* The rows of a question's lookup rate what they do not exclude.
WellRated(rows) ==
    \A l \in rows :
       /\ l.score \in {Null} \cup 0..100
       /\ l.type \in {"LIKERT", "OPTION"} /\ ~l.excluded => l.score # Null
       /\ l.type = "NUMERIC" => l.floor \in Int /\ l.ceiling \in Int /\ l.floor < l.ceiling

\* A severity is from 0 to 100 exactly where something is scored.
InRange(outcome) == (outcome.status = "SCORED") <=> (outcome.severity \in 0..100)

\* A row's score, or the Null in its place, is a number.
LEMMA ScoresAreNumbers ==
    ASSUME NEW rows, WellRated(rows), NEW l \in rows
    PROVE  l.score \in Int
<1>1. l.score \in {Null} \cup 0..100
  BY DEF WellRated
<1>2. Null \in Int
  BY DEF Null, Reports!Null
<1>. QED BY <1>1, <1>2

\* A clamped severity is from 0 to 100.
LEMMA ClampInRange ==
    ASSUME NEW v \in Int
    PROVE  InRange(Scoring!Scored(Scoring!Clamp(v)))
BY DEF InRange, Scoring!Scored, Scoring!Clamp

\* What is not scored has no severity.
LEMMA WithoutInRange ==
    ASSUME NEW status, status # "SCORED"
    PROVE  InRange(Scoring!Without(status)) /\ Scoring!Without(status).status # "SCORED"
BY DEF InRange, Scoring!Without, Scoring!Null

OwnType(mode) == IF mode = "CHECKLIST_MATRIX" THEN "CHECKLIST" ELSE "MULTI_SELECT"

\* A set of options: scored from 0 to 100, and not at all with an escape.
LEMMA SetInRange ==
    ASSUME NEW mode, NEW rows, WellRated(rows), NEW n \in Nat, NEW a, DOMAIN a.options = 1..n
    PROVE  LET outcome == Scoring!SetOf(a, mode, rows) IN
             /\ InRange(outcome)
             /\ (\E l \in rows : /\ l.type = OwnType(mode) /\ l.excluded
                                 /\ \E o \in Scoring!ToSet(a.options) : l.options = {o})
                   => outcome.status # "SCORED"
<1>. DEFINE own       == {l \in rows : l.type = OwnType(mode)}
            escapes   == {l \in own : l.excluded /\ \E o \in Scoring!ToSet(a.options) : l.options = {o}}
            composite == {l \in own : /\ l.options = Scoring!ToSet(a.options)
                                      /\ Scoring!Cardinality(l.options) = Len(a.options)
                                      /\ l.score # Scoring!Null}
            Worth(o)  == IF Scoring!RowOf(o, own) = {} THEN 0
                         ELSE LET l == CHOOSE x \in Scoring!RowOf(o, own) : TRUE
                              IN  IF l.score = Scoring!Null THEN 0 ELSE l.score
            S == 1..n
            c == [s \in SUBSET S |-> Scoring!Max(s)]
            e == [i \in S |-> Worth(a.options[i])]
            Sums(g, s) == IF s = {} THEN 0
                          ELSE g[s \ {Scoring!Max(s)}] + Worth(a.options[Scoring!Max(s)])
            sum == CHOOSE g : g = [s \in SUBSET S |-> Sums(g, s)]
            outcome == Scoring!SetOf(a, mode, rows)
<1>1. outcome = IF own = {} THEN Scoring!Without("ERROR")
                ELSE IF escapes # {} THEN Scoring!Without("EXCLUDED")
                ELSE IF composite # {} THEN Scoring!Scored((CHOOSE l \in composite : TRUE).score)
                ELSE IF \A o \in Scoring!ToSet(a.options) : Scoring!RowOf(o, own) = {} THEN Scoring!Without("ERROR")
                ELSE Scoring!Scored(Scoring!Clamp(sum[S]))
  BY DEF Scoring!SetOf, Scoring!FoldLeft, Scoring!MapThenFoldSet, OwnType
<1>2. IsFiniteSet(S)
  <2>1. \A i, j \in Int : IsFiniteSet(i..j)
    BY FS_Interval
  <2>2. 1 \in Int /\ n \in Int
    OBVIOUS
  <2>. QED BY <2>1, <2>2
<1>3. Chooses(c, S)
  BY LargestOf DEF Chooses
<1>4. \A o : Worth(o) \in Int
  <2>1. ASSUME NEW o, Scoring!RowOf(o, own) # {}
        PROVE  (CHOOSE x \in Scoring!RowOf(o, own) : TRUE) \in rows
    BY <2>1 DEF Scoring!RowOf
  <2>2. \A l \in rows : l.score \in Int
    BY ScoresAreNumbers
  <2>3. ASSUME NEW o PROVE Worth(o) \in Int
    <3>1. CASE Scoring!RowOf(o, own) = {}
      BY <3>1
    <3>2. CASE Scoring!RowOf(o, own) # {}
      <4>1. (CHOOSE x \in Scoring!RowOf(o, own) : TRUE) \in rows
        BY <2>1, <3>2
      <4>2. (CHOOSE x \in Scoring!RowOf(o, own) : TRUE).score \in Int
        BY <2>2, <4>1
      <4>. HIDE DEF own
      <4>. QED BY <3>2, <4>2
    <3>. QED BY <3>1, <3>2
  <2>. HIDE DEF Worth
  <2>. QED BY <2>3
<1>5. \A i \in S : e[i] \in Int
  BY <1>4
<1>6. \E g : g = [s \in SUBSET S |-> Sums(g, s)]
  <2>1. PICK g : IsFold(g, e, c, S)
    <3>. HIDE DEF e, c, S
    <3>. QED BY <1>2, <1>3, FoldExists
  <2>2. \A s \in SUBSET S : g[s] \in Int
    <3>. HIDE DEF e, c, S
    <3>. QED BY <1>2, <1>3, <1>5, <2>1, FoldIsANumber
  <2>3. ASSUME NEW s \in SUBSET S PROVE g[s] = Sums(g, s)
    <3>1. g[s] = Step(e, c, g, s)
      BY <2>1 DEF IsFold
    <3>2. CASE s = {}
      BY <3>1, <3>2 DEF Step
    <3>3. CASE s # {}
      <4>1. c[s] = Scoring!Max(s) /\ Scoring!Max(s) \in S
        BY <3>3, LargestOf
      <4>2. e[c[s]] = Worth(a.options[Scoring!Max(s)])
        BY <4>1
      <4>3. g[s] = e[c[s]] + g[s \ {c[s]}]
        BY <3>1, <3>3 DEF Step
      <4>4. e[c[s]] \in Int /\ g[s \ {c[s]}] \in Int
        BY <1>5, <2>2, <4>1
      <4>. HIDE DEF e, c, S, Worth
      <4>. QED BY <3>3, <4>1, <4>2, <4>3, <4>4
    <3>. QED BY <3>2, <3>3
  <2>4. g = [s \in SUBSET S |-> g[s]]
    BY <2>1 DEF IsFold
  <2>. HIDE DEF Sums, S
  <2>5. g = [s \in SUBSET S |-> Sums(g, s)]
    BY <2>3, <2>4
  <2>. QED BY <2>5
<1>7. sum = [s \in SUBSET S |-> Sums(sum, s)]
  <2>. HIDE DEF Sums, S
  <2>. QED BY <1>6
<1>. HIDE DEF sum
<1>8. sum[S] \in Int
  <2>1. ASSUME NEW s \in SUBSET S, s = {} \/ sum[s \ {c[s]}] \in Int
        PROVE  sum[s] \in Int
    <3>1. sum[s] = Sums(sum, s)
      BY <1>7
    <3>2. c[s] = Scoring!Max(s)
      OBVIOUS
    <3>. HIDE DEF Worth, c
    <3>. QED BY <1>4, <2>1, <3>1, <3>2
  <2>. HIDE DEF c, S
  <2>2. \A s \in SUBSET S : sum[s] \in Int
    BY <1>2, <1>3, <2>1, FoldStays
  <2>. QED BY <2>2
<1>9. composite # {} => InRange(Scoring!Scored((CHOOSE l \in composite : TRUE).score))
  <2>1. \A l \in composite : l.score \in 0..100
    BY DEF WellRated, Null, Reports!Null, Scoring!Null
  <2>. HIDE DEF composite
  <2>. QED BY <2>1 DEF InRange, Scoring!Scored
<1>10. InRange(outcome)
  <2>. HIDE DEF own, escapes, composite, outcome, S
  <2>. QED BY <1>1, <1>8, <1>9, ClampInRange, WithoutInRange
<1>11. escapes # {} => outcome.status # "SCORED"
  <2>. HIDE DEF own, escapes, composite, outcome, S
  <2>. QED BY <1>1, WithoutInRange
<1>12. (\E l \in rows : /\ l.type = OwnType(mode) /\ l.excluded
                        /\ \E o \in Scoring!ToSet(a.options) : l.options = {o}) => escapes # {}
  OBVIOUS
<1>. QED BY <1>10, <1>11, <1>12

\* A number: its place between a floor and a ceiling above it, never outside.
LEMMA NumericInRange ==
    ASSUME NEW rows, WellRated(rows), NEW a, a.number \in Int
    PROVE  InRange(Scoring!Numeric(a, rows))
<1>. DEFINE config == {l \in rows : l.type = "NUMERIC"}
            row    == CHOOSE l \in config : TRUE
            n      == IF a.number = Scoring!Null THEN row.floor ELSE a.number
            worse  == IF row.worsens = "HIGHER" THEN n - row.floor ELSE row.ceiling - n
            place  == (100 * worse) \div (row.ceiling - row.floor)
<1>1. CASE config = {}
  <2>1. Scoring!Numeric(a, rows) = Scoring!Without("ERROR")
    BY <1>1 DEF Scoring!Numeric
  <2>. QED BY <2>1, WithoutInRange
<1>2. CASE config # {}
  <2>1. Scoring!Numeric(a, rows) = Scoring!Scored(Scoring!Clamp(place))
    BY <1>2 DEF Scoring!Numeric
  <2>2. row \in rows /\ row.type = "NUMERIC"
    BY <1>2
  <2>3. row.floor \in Int /\ row.ceiling \in Int /\ row.floor < row.ceiling
    BY <2>2 DEF WellRated
  <2>. HIDE DEF row
  <2>4. n \in Int
    BY <2>3
  <2>. HIDE DEF n
  <2>5. worse \in Int
    BY <2>3, <2>4
  <2>. HIDE DEF worse
  <2>6. row.ceiling - row.floor \in Nat /\ row.ceiling - row.floor > 0
    BY <2>3
  <2>7. place \in Int
    BY <2>5, <2>6
  <2>. HIDE DEF place
  <2>. QED BY <2>1, <2>7, ClampInRange
<1>. QED BY <1>1, <1>2

\* A single choice: the score of its row, and none where the row excludes it.
LEMMA SingleInRange ==
    ASSUME NEW mode, NEW rows, WellRated(rows), NEW a
    PROVE  InRange(Scoring!Single(a, mode, rows))
<1>. DEFINE match == {l \in Scoring!RowOf(Head(a.options), rows) :
                         l.type = IF mode = "LIKERT_5" THEN "LIKERT" ELSE "OPTION"}
            row   == CHOOSE l \in match : TRUE
<1>1. CASE match = {}
  <2>1. Scoring!Single(a, mode, rows) = Scoring!Without("ERROR")
    BY <1>1 DEF Scoring!Single
  <2>. QED BY <2>1, WithoutInRange
<1>2. CASE match # {}
  <2>1. Scoring!Single(a, mode, rows) = IF row.excluded THEN Scoring!Without("EXCLUDED")
                                                        ELSE Scoring!Scored(row.score)
    BY <1>2 DEF Scoring!Single
  <2>2. row \in match
    BY <1>2
  <2>3. row \in rows /\ row.type \in {"LIKERT", "OPTION"}
    BY <2>2 DEF Scoring!RowOf
  <2>. HIDE DEF row
  <2>4. CASE row.excluded
    BY <2>1, <2>4, WithoutInRange
  <2>5. CASE ~row.excluded
    <3>1. row.score \in 0..100
      BY <2>3, <2>5 DEF WellRated
    <3>. QED BY <2>1, <2>5, <3>1 DEF InRange, Scoring!Scored
  <2>. QED BY <2>4, <2>5
<1>. QED BY <1>1, <1>2

\* The answers of a sheet as they are read, and an escape among them.
AnswersOf(questions, sheet) ==
    [q \in DOMAIN questions |-> Scoring!Parse(sheet[q], questions[q].mode)]

Escapes(mode, labels, rows) ==
    IF mode \in Scoring!SetModes
    THEN \E l \in rows : /\ l.type = OwnType(mode) /\ l.excluded
                         /\ \E o \in Scoring!ToSet(labels) : l.options = {o}
    ELSE /\ mode # "NUMERIC" /\ labels # <<>>
         /\ \E l \in rows : l.excluded /\ l.options = {Head(labels)}

\* Whatever the bank asks and whatever is answered: only what has a severity
\* from 0 to 100 is scored, an escape takes the answer out, and so does a rule
\* that does not hold.  The lookup must rate what it does not exclude and give
\* a number a floor below its ceiling.  (scoreResponse, calculateSeverity,
\* evaluateConditionalRule)
THEOREM SheetsStayInRange ==
    ASSUME NEW Labels, NEW questions, NEW sheet, NEW rows, NEW q \in DOMAIN questions,
           sheet[q].labels \in Seq(Labels), sheet[q].number \in Int, WellRated(rows[q])
    PROVE  LET outcome == Scoring!ScoreSheet(questions, sheet, rows)[q] IN
             /\ InRange(outcome)
             /\ Escapes(questions[q].mode, sheet[q].labels, rows[q]) => outcome.status # "SCORED"
             /\ ~Scoring!Applicable(questions[q].rule, AnswersOf(questions, sheet))
                   => outcome.status # "SCORED"
<1>. DEFINE answers == AnswersOf(questions, sheet)
            a       == answers[q]
            d       == questions[q]
            labels  == sheet[q].labels
            outcome == Scoring!ScoreSheet(questions, sheet, rows)[q]
            worked  == Scoring!calculateSeverity(d, a, rows[q])
            asked   == Scoring!Applicable(d.rule, answers)
            out     == a = Scoring!Missing \/ Scoring!OptionExcluded(d, a, rows[q])
<1>1. a = Scoring!Parse(sheet[q], d.mode)
  BY DEF AnswersOf
<1>2. outcome = IF ~asked THEN Scoring!Without("NOT_APPLICABLE")
                ELSE IF ~d.scoreable THEN Scoring!Without("NOT_SCOREABLE")
                ELSE IF out THEN Scoring!Without("EXCLUDED")
                ELSE worked
  BY DEF AnswersOf, Scoring!ScoreSheet, Scoring!Outcome
<1>3. a.number \in Int
  BY <1>1 DEF Scoring!Parse, Scoring!Missing, Scoring!Null, Scoring!SetModes
<1>4. d.mode \in Scoring!SetModes /\ labels # <<>> => a.options = labels
  BY <1>1 DEF Scoring!Parse, Scoring!Missing, Scoring!SetModes
<1>5. labels = <<>> => a = Scoring!Missing
  BY <1>1 DEF Scoring!Parse
<1>6. d.mode \notin Scoring!SetModes \cup {"NUMERIC"} /\ labels # <<>> => a.options = <<Head(labels)>>
  BY <1>1 DEF Scoring!Parse, Scoring!Missing, Scoring!SetModes
<1>7. worked = IF d.mode \in Scoring!NonScoringModes THEN Scoring!Without("NOT_SCOREABLE")
               ELSE IF d.mode = "NUMERIC" THEN Scoring!Numeric(a, rows[q])
               ELSE IF d.mode \in Scoring!SetModes THEN Scoring!SetOf(a, d.mode, rows[q])
               ELSE Scoring!Single(a, d.mode, rows[q])
  BY DEF Scoring!calculateSeverity, Scoring!NonScoringModes, Scoring!SetModes
<1>. HIDE DEF answers, outcome, worked, asked
<1>8. ASSUME labels # <<>>, d.mode \in Scoring!SetModes
      PROVE  /\ InRange(Scoring!SetOf(a, d.mode, rows[q]))
             /\ Escapes(d.mode, labels, rows[q]) => Scoring!SetOf(a, d.mode, rows[q]).status # "SCORED"
  <2>1. a.options = labels
    BY <1>4, <1>8
  <2>2. Len(labels) \in Nat /\ DOMAIN labels = 1..Len(labels)
    OBVIOUS
  <2>. HIDE DEF a, d, labels
  <2>3. Len(labels) \in Nat /\ DOMAIN a.options = 1..Len(labels)
    BY <2>1, <2>2
  <2>. QED BY <1>8, <2>1, <2>3, SetInRange DEF Escapes, d
<1>9. out \/ InRange(worked)
  <2>1. labels = <<>> => out
    BY <1>5
  <2>2. InRange(Scoring!Numeric(a, rows[q]))
    BY <1>3, NumericInRange
  <2>3. InRange(Scoring!Single(a, d.mode, rows[q]))
    BY SingleInRange
  <2>. HIDE DEF a, d, labels, out
  <2>. QED BY <1>7, <1>8, <2>1, <2>2, <2>3, WithoutInRange
<1>10. InRange(outcome)
  <2>. HIDE DEF a, d, labels, out
  <2>. QED BY <1>2, <1>9, WithoutInRange
<1>11. ASSUME Escapes(d.mode, labels, rows[q]), ~out PROVE worked.status # "SCORED"
  <2>1. labels # <<>>
    BY <1>5, <1>11
  <2>2. CASE d.mode \in Scoring!SetModes
    <3>1. d.mode \notin Scoring!NonScoringModes /\ d.mode # "NUMERIC"
      BY <2>2 DEF Scoring!NonScoringModes, Scoring!SetModes
    <3>. HIDE DEF a, d, labels, out
    <3>. QED BY <1>7, <1>8, <1>11, <2>1, <2>2, <3>1
  <2>3. CASE d.mode \notin Scoring!SetModes
    <3>1. d.mode # "NUMERIC" /\ \E l \in rows[q] : l.excluded /\ l.options = {Head(labels)}
      BY <1>11, <2>3 DEF Escapes
    <3>2. a.options = <<Head(labels)>>
      BY <1>6, <2>1, <2>3, <3>1
    <3>3. Scoring!OptionExcluded(d, a, rows[q])
      BY <2>3, <3>1, <3>2 DEF Scoring!OptionExcluded, Scoring!RowOf
    <3>. QED BY <1>11, <3>3
  <2>. QED BY <2>2, <2>3
<1>12. Escapes(d.mode, labels, rows[q]) => outcome.status # "SCORED"
  <2>. HIDE DEF a, d, labels, out
  <2>. QED BY <1>2, <1>11, WithoutInRange
<1>13. ~asked => outcome.status # "SCORED"
  <2>. HIDE DEF a, d, labels, out
  <2>. QED BY <1>2, WithoutInRange
<1>. QED BY <1>10, <1>12, <1>13 DEF outcome, asked, answers

\* The lists that TLC enumerates are sequences.
LEMMA ListsAreSequences ==
    ASSUME NEW T, NEW S \in SUBSET T, NEW n \in Nat
    PROVE  Lists(S, n) \subseteq Seq(T)
<1>1. ASSUME NEW k \in 0..n, NEW s \in [1..k -> S] PROVE s \in Seq(T)
  <2>1. k \in Nat /\ DOMAIN s = 1..k /\ \A i \in 1..k : s[i] \in T
    OBVIOUS
  <2>2. s = [i \in 1..k |-> s[i]]
    OBVIOUS
  <2>. QED BY <2>1, <2>2
<1>. QED BY <1>1 DEF Lists

\* An answer with an escape among its options counts nowhere, what counts has
\* a severity from 0 to 100, and what the answers before rule out counts
\* nowhere.  (calculateSeverity, evaluateConditionalRule)
THEOREM EscapesStayOutHolds == Spec => []EscapesStayOut
<1>1. ASSUME TablesInv PROVE EscapesStayOut
  <2>. SUFFICES ASSUME Answered("sheet") PROVE EscapesStayOut
    BY DEF EscapesStayOut
  <2>. DEFINE x == input
              questions == SheetQuestions(x.operator)
              sheet     == [p |-> [labels |-> x.parent, number |-> Null],
                            q |-> [labels |-> x.child, number |-> Null]]
              rows      == [p |-> SheetRows, q |-> SheetRows]
              answers   == AnswersOf(questions, sheet)
              asked     == IF x.operator = "IN" THEN "a" \in ToSet(x.parent) ELSE "a" \notin ToSet(x.parent)
              Labels    == {"a", "b", "c", "z", "other"}
  <2>1. x \in SheetInputs /\ Result = Sheet(x)
    BY <1>1 DEF TablesInv, Tells, Answered, Result
  <2>2. Result = Scoring!ScoreSheet(questions, sheet, rows)
    BY <2>1 DEF Sheet
  <2>3. /\ x.operator \in {"IN", "NOT_IN"}
        /\ x.parent \in Seq(Labels) /\ x.child \in Seq(Labels)
    <3>1. x.operator \in {"IN", "NOT_IN"} /\ x.parent \in Lists({"a", "b", "z"}, 2) /\ x.child \in Lists(Labels, 3)
      BY <2>1 DEF SheetInputs
    <3>2. {"a", "b", "z"} \subseteq Labels
      OBVIOUS
    <3>. HIDE DEF Labels, x
    <3>. QED BY <3>1, <3>2, ListsAreSequences
  <2>4. WellRated(SheetRows)
    BY DEF WellRated, SheetRows, Lookup, Null, Reports!Null
  <2>5. Null \in Int
    BY DEF Null, Reports!Null
  <2>6. /\ DOMAIN questions = {"p", "q"}
        /\ questions["p"].mode = "MULTI_SELECT" /\ questions["q"].mode = "MULTI_SELECT"
        /\ questions["q"].rule = [parent |-> "p", operator |-> x.operator, values |-> {"a"}]
    BY DEF SheetQuestions
  <2>7. /\ sheet["p"].labels = x.parent /\ sheet["q"].labels = x.child
        /\ sheet["p"].number = Null /\ sheet["q"].number = Null
        /\ rows["p"] = SheetRows /\ rows["q"] = SheetRows
    OBVIOUS
  <2>8. ASSUME NEW labels, "z" \in ToSet(labels) PROVE Escapes("MULTI_SELECT", labels, SheetRows)
    <3>1. Lookup({"z"}, Null, TRUE) \in SheetRows
      BY DEF SheetRows
    <3>2. /\ Lookup({"z"}, Null, TRUE).type = OwnType("MULTI_SELECT")
          /\ Lookup({"z"}, Null, TRUE).excluded /\ Lookup({"z"}, Null, TRUE).options = {"z"}
      BY DEF Lookup, OwnType
    <3>3. "z" \in Scoring!ToSet(labels)
      BY <2>8 DEF ToSet, Scoring!ToSet
    <3>. QED BY <3>1, <3>2, <3>3 DEF Escapes, Scoring!SetModes
  <2>9. ~asked => ~Scoring!Applicable(questions["q"].rule, answers)
    <3>1. answers["p"] = Scoring!Parse([labels |-> x.parent, number |-> Null], "MULTI_SELECT") /\ "p" \in DOMAIN answers
      BY <2>6, <2>7 DEF AnswersOf
    <3>2. answers["p"].options = x.parent
      BY <3>1 DEF Scoring!Parse, Scoring!Missing, Scoring!SetModes
    <3>. QED BY <2>3, <2>6, <3>1, <3>2 DEF Scoring!Applicable, ToSet, Scoring!ToSet
  <2>. HIDE DEF x, questions, sheet, rows, answers, asked, Labels
  <2>10. \A q \in {"p", "q"} :
           /\ InRange(Result[q])
           /\ Escapes(questions[q].mode, sheet[q].labels, rows[q]) => Result[q].status # "SCORED"
           /\ ~Scoring!Applicable(questions[q].rule, answers) => Result[q].status # "SCORED"
    <3>1. ASSUME NEW q \in {"p", "q"}
          PROVE  /\ q \in DOMAIN questions /\ sheet[q].labels \in Seq(Labels)
                 /\ sheet[q].number \in Int /\ WellRated(rows[q])
      BY <2>3, <2>4, <2>5, <2>6, <2>7
    <3>. QED BY <2>2, <3>1, SheetsStayInRange DEF answers
  <2>11. /\ "z" \in ToSet(x.parent) => Result["p"].status # "SCORED"
         /\ "z" \in ToSet(x.child)  => Result["q"].status # "SCORED"
    BY <2>6, <2>7, <2>8, <2>10
  <2>12. ~asked => Result["q"].status # "SCORED"
    BY <2>9, <2>10
  <2>13. \A q \in {"p", "q"} : (Result[q].status = "SCORED") = (Result[q].severity \in 0..100)
    BY <2>10 DEF InRange
  <2>. QED BY <2>11, <2>12, <2>13 DEF EscapesStayOut, x, asked
<1>. QED BY <1>1, TablesInvInit, TablesInvStep, PTL DEF Spec

-----------------------------------------------------------------------------
(***************************************************************************)
(* Levels, gaps and groups                                                 *)
(***************************************************************************)
\* How deep a gap of this kind is.
Depth(gap) == CHOOSE i \in 1..4 : <<"structural", "chronic", "acute", "inequality">>[i] = gap

\* Whatever thresholds an organisation has set, in whatever order: what is
\* worse is never shown as less, neither its level nor its kind of gap.
\* (mapPriorityLevel, deriveGapType)
THEOREM WorseNeverShownLess ==
    ASSUME NEW mild \in 0..100, NEW bad \in 0..100, mild <= bad, NEW equity \in BOOLEAN,
           NEW low \in Nat, NEW total \in Nat, NEW own, \A k \in DOMAIN own : own[k] \in Int,
           NEW prior \in Int, NEW t, t.acute \in Int, t.chronic \in Int
    PROVE  /\ Reports!LevelRank(Reports!NeedLevel(bad, low, total, own))
                <= Reports!LevelRank(Reports!NeedLevel(mild, low, total, own))
           /\ Depth(Reports!deriveGapType(mild, equity, prior, t))
                <= Depth(Reports!deriveGapType(bad, equity, prior, t))
<1>. DEFINE set == Reports!loadThresholds(own)
            thin == Reports!determineEquityFlag(low, total)
            Level(s) == Reports!mapPriorityLevel(s, thin, set)
            Gap(s) == Reports!deriveGapType(s, equity, prior, t)
<1>1. set.critical \in Int /\ set.high \in Int /\ set.equityHigh \in Int /\ set.medium \in Int
  BY DEF Reports!loadThresholds, Reports!DefaultThresholds
<1>2. ASSUME NEW s \in 0..100 PROVE Reports!NeedLevel(s, low, total, own) = Level(s)
  BY DEF Reports!NeedLevel, Reports!Null
<1>. HIDE DEF set, thin
<1>3. Reports!LevelRank(Level(bad)) <= Reports!LevelRank(Level(mild))
  <2>0. PICK critical \in Int, high \in Int, spread \in Int, medium \in Int :
           critical = set.critical /\ high = set.high /\ spread = set.equityHigh /\ medium = set.medium
    BY <1>1
  <2>1. \A s \in 0..100 :
          Reports!LevelRank(Level(s)) = IF s >= critical THEN 0
                                        ELSE IF s >= high \/ (s >= spread /\ thin) THEN 1
                                        ELSE IF s >= medium THEN 2 ELSE 3
    BY <2>0 DEF Reports!mapPriorityLevel, Reports!LevelRank
  <2>. DEFINE RankOf(s) == Reports!LevelRank(Level(s))
  <2>2. RankOf(bad) = 0 \/ RankOf(bad) = 1 \/ RankOf(bad) = 2 \/ RankOf(bad) = 3
    BY <2>1
  <2>3. RankOf(mild) = 0 \/ RankOf(mild) = 1 \/ RankOf(mild) = 2 \/ RankOf(mild) = 3
    BY <2>1
  <2>. HIDE DEF Level
  <2>4. RankOf(mild) = 0 => RankOf(bad) = 0
    BY <2>1
  <2>5. RankOf(mild) = 1 => RankOf(bad) = 0 \/ RankOf(bad) = 1
    BY <2>1
  <2>6. RankOf(mild) = 2 => RankOf(bad) = 0 \/ RankOf(bad) = 1 \/ RankOf(bad) = 2
    BY <2>1
  <2>. HIDE DEF RankOf
  <2>7. RankOf(bad) <= RankOf(mild)
    BY <2>2, <2>3, <2>4, <2>5, <2>6
  <2>. QED BY <2>7 DEF RankOf
<1>4. Depth(Gap(mild)) <= Depth(Gap(bad))
  <2>1. /\ Depth("structural") = 1 /\ Depth("chronic") = 2
        /\ Depth("acute") = 3 /\ Depth("inequality") = 4
    <3>1. \A i \in 1..4 : i \in {1, 2, 3, 4}
      OBVIOUS
    <3>. QED BY <3>1 DEF Depth
  <2>. DEFINE before == prior # Reports!Null /\ prior >= t.chronic
  <2>0. PICK acute \in Int, chronic \in Int : acute = t.acute /\ chronic = t.chronic
    OBVIOUS
  <2>2. \A s \in 0..100 :
          Gap(s) = IF equity THEN "inequality"
                   ELSE IF s >= acute THEN "acute"
                   ELSE IF s >= chronic /\ before THEN "chronic"
                   ELSE "structural"
    BY <2>0 DEF Reports!deriveGapType, Reports!Null
  <2>. HIDE DEF Gap, before
  <2>3. \/ Gap(mild) = Gap(bad)
        \/ Gap(mild) = "structural" /\ Gap(bad) \in {"chronic", "acute"}
        \/ Gap(mild) = "chronic" /\ Gap(bad) = "acute"
    BY <2>2
  <2>4. Gap(mild) \in {"structural", "chronic", "acute", "inequality"}
    BY <2>2
  <2>. HIDE DEF Depth
  <2>. QED BY <2>1, <2>3, <2>4
<1>. QED BY <1>2, <1>3, <1>4

-----------------------------------------------------------------------------
(***************************************************************************)
(* Orders.  A strict order on a finite set has a sequence of its elements  *)
(* in which nothing stands behind what it goes before.                     *)
(***************************************************************************)
Strict(before, S) ==
    /\ \A x \in S : <<x, x>> \notin before
    /\ \A x, y, z \in S : <<x, y>> \in before /\ <<y, z>> \in before => <<x, z>> \in before

InOrder(f, S, before) ==
    /\ f \in [1 .. Cardinality(S) -> S]
    /\ \A i, j \in 1 .. Cardinality(S) : i < j => f[i] # f[j] /\ <<f[j], f[i]>> \notin before

\* A set that is not empty has an element that goes before no other.
LEMMA LastElement ==
    ASSUME NEW S, IsFiniteSet(S), S # {}, NEW before, Strict(before, S)
    PROVE  \E m \in S : \A y \in S : <<m, y>> \notin before
<1>. DEFINE After(x) == {y \in S : <<x, y>> \in before}
            B == {Cardinality(After(x)) : x \in S}
<1>1. \A x \in S : IsFiniteSet(After(x)) /\ Cardinality(After(x)) \in Nat
  BY FS_Subset, FS_CardinalityType
<1>. HIDE DEF After
<1>5. B \in SUBSET Nat /\ B # {}
  BY <1>1
<1>2. PICK k \in B : \A j \in B : k <= j
  <2>. HIDE DEF B
  <2>. QED BY <1>5, LeastOf
<1>3. PICK m \in S : k = Cardinality(After(m))
  OBVIOUS
<1>4. ASSUME NEW y \in S, <<m, y>> \in before PROVE FALSE
  <2>1. After(y) \subseteq After(m) /\ y \in After(m) /\ y \notin After(y)
    BY <1>3, <1>4 DEF Strict, After
  <2>2. After(y) # After(m)
    BY <2>1
  <2>3. Cardinality(After(y)) < Cardinality(After(m))
    BY <1>1, <1>3, <1>4, <2>1, <2>2, FS_Subset
  <2>4. Cardinality(After(m)) <= Cardinality(After(y))
    BY <1>2, <1>3, <1>4
  <2>. QED BY <1>1, <1>3, <1>4, <2>3, <2>4
<1>. QED BY <1>3, <1>4

\* Every finite set can be put in order.
LEMMA OrderExists ==
    ASSUME NEW S, IsFiniteSet(S), NEW before, Strict(before, S)
    PROVE  \E f : InOrder(f, S, before)
<1>. DEFINE Ordered(n) == \A T \in SUBSET S : Cardinality(T) = n => \E f : InOrder(f, T, before)
            B == {n \in Nat : ~Ordered(n)}
<1>0. \A T \in SUBSET S : IsFiniteSet(T) /\ Cardinality(T) \in Nat /\ Strict(before, T)
  BY FS_Subset, FS_CardinalityType DEF Strict
<1>1. ASSUME NEW T \in SUBSET S, Cardinality(T) = 0 PROVE \E f : InOrder(f, T, before)
  <2>. DEFINE f == [i \in 1..0 |-> i]
  <2>1. f \in [1 .. Cardinality(T) -> T]
    BY <1>1
  <2>2. \A i, j \in 1 .. Cardinality(T) : i < j => f[i] # f[j] /\ <<f[j], f[i]>> \notin before
    BY <1>1
  <2>. QED BY <2>1, <2>2 DEF InOrder
<1>2. ASSUME NEW n \in Nat, Ordered(n), NEW T \in SUBSET S, Cardinality(T) = n + 1
      PROVE  \E f : InOrder(f, T, before)
  <2>1. T # {}
    BY <1>2, FS_EmptySet
  <2>2. PICK m \in T : \A y \in T : <<m, y>> \notin before
    BY <1>0, <2>1, LastElement
  <2>. DEFINE U == T \ {m}
  <2>3. U \in SUBSET S /\ Cardinality(U) = n
    BY <1>0, <1>2, FS_RemoveElement
  <2>4. PICK g : InOrder(g, U, before)
    BY <1>2, <2>3
  <2>. DEFINE f == [i \in 1 .. n + 1 |-> IF i = n + 1 THEN m ELSE g[i]]
  <2>8. /\ g \in [1..n -> U]
        /\ \A i, j \in 1..n : i < j => g[i] # g[j] /\ <<g[j], g[i]>> \notin before
    BY <2>3, <2>4 DEF InOrder
  <2>5. /\ \A i \in 1..n : f[i] = g[i] /\ g[i] \in T /\ g[i] # m
        /\ f[n + 1] = m
    BY <2>8
  <2>6. f \in [1 .. n + 1 -> T]
    BY <2>5
  <2>. HIDE DEF f, U
  <2>7. ASSUME NEW i \in 1 .. n + 1, NEW j \in 1 .. n + 1, i < j
        PROVE  f[i] # f[j] /\ <<f[j], f[i]>> \notin before
    <3>1. CASE j = n + 1
      <4>1. i \in 1..n
        BY <2>7, <3>1
      <4>. QED BY <2>2, <2>5, <3>1, <4>1
    <3>2. CASE j # n + 1
      <4>1. i \in 1..n /\ j \in 1..n
        BY <2>7, <3>2
      <4>. QED BY <2>5, <2>7, <2>8, <4>1
    <3>. QED BY <3>1, <3>2
  <2>. QED BY <1>2, <2>6, <2>7 DEF InOrder
<1>. HIDE DEF Ordered
<1>3. Ordered(0)
  BY <1>1 DEF Ordered
<1>4. ASSUME NEW n \in Nat, Ordered(n) PROVE Ordered(n + 1)
  BY <1>2, <1>4 DEF Ordered
<1>5. ASSUME B # {} PROVE FALSE
  <2>1. PICK n \in B : \A j \in B : n <= j
    BY <1>5, LeastOf
  <2>2. n # 0 /\ n - 1 \in Nat /\ n - 1 \notin B
    BY <1>3, <2>1
  <2>. QED BY <1>4, <2>1, <2>2
<1>6. Ordered(Cardinality(S))
  BY <1>0, <1>5
<1>. QED BY <1>6 DEF Ordered

\* What is ranked is in order, every element once.
LEMMA RankedInOrder ==
    ASSUME NEW S, IsFiniteSet(S), NEW before, Strict(before, S)
    PROVE  /\ InOrder(Ranked(S, before), S, before)
           /\ \A x \in S : \E i \in 1 .. Cardinality(S) : Ranked(S, before)[i] = x
<1>. DEFINE n == Cardinality(S)
            r == Ranked(S, before)
            Good(f) == \A i, j \in DOMAIN f : i < j => f[i] # f[j] /\ <<f[j], f[i]>> \notin before
<1>0. n \in Nat
  BY FS_CardinalityType
<1>1. PICK f : InOrder(f, S, before)
  BY OrderExists
<1>2. f \in [1..n -> S] /\ Good(f)
  BY <1>1 DEF InOrder
<1>3. r = CHOOSE g \in [1..n -> S] : Good(g)
  BY DEF Ranked
<1>4. r \in [1..n -> S] /\ Good(r)
  <2>. HIDE DEF n, Good, r
  <2>. QED BY <1>2, <1>3
<1>5. InOrder(r, S, before)
  BY <1>4 DEF InOrder
<1>6. \A x \in S : \E i \in 1..n : r[i] = x
  <2>1. r \in Injection(1..n, S)
    <3>1. ASSUME NEW i \in 1..n, NEW j \in 1..n, i # j PROVE r[i] # r[j]
      <4>1. i < j \/ j < i
        BY <1>0, <3>1
      <4>2. DOMAIN r = 1..n
        BY <1>4
      <4>. HIDE DEF r
      <4>. QED BY <1>4, <4>1, <4>2
    <3>. HIDE DEF r
    <3>. QED BY <1>4, <3>1 DEF Injection, IsInjective
  <2>2. IsFiniteSet(1..n) /\ Cardinality(1..n) = n
    BY <1>0, FS_Interval
  <2>3. r \in Surjection(1..n, S)
    <3>. HIDE DEF r
    <3>. QED BY <2>1, <2>2, FS_Injection
  <2>. QED BY <2>3 DEF Surjection
<1>. QED BY <1>5, <1>6

Lesser(m, n) == IF m < n THEN m ELSE n

Sized(f, n, S) == n \in Nat /\ f \in [1..n -> S]

\* The first of an order are as many of its elements, in the same order.
LEMMA LeadingOf ==
    ASSUME NEW T, NEW n, NEW f, Sized(f, n, T), NEW most \in Nat
    PROVE  /\ Sized(Leading(f, most), Lesser(n, most), T)
           /\ \A i \in 1 .. Lesser(n, most) : i \in 1..n /\ Leading(f, most)[i] = f[i]
<1>. DEFINE k == Lesser(n, most)
<1>0. n \in Nat /\ f \in [1..n -> T]
  BY DEF Sized
<1>1. f \in Seq(T) /\ Len(f) = n
  BY <1>0, SeqDef, LenProperties
<1>2. Leading(f, most) = SubSeq(f, 1, k)
  BY <1>1 DEF Leading, Lesser
<1>3. k \in Nat /\ k <= n /\ k <= most
  BY <1>0 DEF Lesser
<1>. HIDE DEF k
<1>4. /\ SubSeq(f, 1, k) \in Seq(T)
      /\ Len(SubSeq(f, 1, k)) = k
      /\ \A i \in 1..k : SubSeq(f, 1, k)[i] = f[i]
  BY <1>1, <1>3, SubSeqProperties
<1>5. SubSeq(f, 1, k) \in [1..k -> T]
  BY <1>4, LenProperties
<1>. QED BY <1>2, <1>3, <1>4, <1>5 DEF k, Sized

-----------------------------------------------------------------------------
(***************************************************************************)
(* Counts.                                                                 *)
(***************************************************************************)
\* Sets without an element in common add up.
LEMMA DisjointUnion ==
    ASSUME NEW P, NEW Q, IsFiniteSet(P), IsFiniteSet(Q), P \cap Q = {}
    PROVE  Cardinality(P \cup Q) = Cardinality(P) + Cardinality(Q)
<1>1. Cardinality(P) \in Nat /\ Cardinality(Q) \in Nat
  BY FS_CardinalityType
<1>2. Cardinality(P \cup Q) = Cardinality(P) + Cardinality(Q) - Cardinality(P \cap Q)
  BY FS_Union
<1>3. Cardinality(P \cap Q) = 0
  BY FS_EmptySet
<1>. QED BY <1>1, <1>2, <1>3

Summed(e, S) == MapThenSumSet(LAMBDA k : e[k], S)

\* The sum of a function over a set is a fold.
LEMMA SumIsFold ==
    ASSUME NEW S, IsFiniteSet(S), NEW e
    PROVE  \E g : /\ IsFold(g, e, Picked(S), S)
                  /\ Summed(e, S) = g[S]
<1>. DEFINE Sums(g, s) == IF s = {} THEN 0
                          ELSE e[CHOOSE x \in s : TRUE] + g[s \ {CHOOSE x \in s : TRUE}]
            sum == CHOOSE g : g = [s \in SUBSET S |-> Sums(g, s)]
<1>1. ASSUME NEW g PROVE IsFold(g, e, Picked(S), S) <=> g = [s \in SUBSET S |-> Sums(g, s)]
  <2>1. ASSUME NEW s \in SUBSET S PROVE Step(e, Picked(S), g, s) = Sums(g, s)
    BY DEF Picked, Step
  <2>. HIDE DEF Sums
  <2>. QED BY <2>1 DEF IsFold
<1>2. \E g : IsFold(g, e, Picked(S), S)
  BY PickedChooses, FoldExists
<1>3. IsFold(sum, e, Picked(S), S)
  <2>. HIDE DEF Sums
  <2>. QED BY <1>1, <1>2
<1>4. Summed(e, S) = sum[S]
  BY DEF Summed, MapThenSumSet, MapThenFoldSet
<1>. HIDE DEF sum
<1>. QED BY <1>3, <1>4

\* What is counted by a key adds up to what has one of the keys.
LEMMA CountsAddUp ==
    ASSUME NEW S, IsFiniteSet(S), NEW key, NEW counts, IsFiniteSet(DOMAIN counts),
           \A k \in DOMAIN counts : counts[k] = Cardinality({x \in S : key[x] = k})
    PROVE  Summed(counts, DOMAIN counts) = Cardinality({x \in S : key[x] \in DOMAIN counts})
<1>. DEFINE D == DOMAIN counts
            Of(s) == {x \in S : key[x] \in s}
<1>1. PICK g : /\ IsFold(g, counts, Picked(D), D)
               /\ Summed(counts, D) = g[D]
  BY SumIsFold
<1>. DEFINE Wrong(s) == ~(g[s] = Cardinality(Of(s)))
            W == {m \in Nat : \E s \in SUBSET D : Cardinality(s) = m /\ Wrong(s)}
            c == Picked(D)
<1>2. /\ \A s \in SUBSET D : IsFiniteSet(s) /\ Cardinality(s) \in Nat
      /\ \A s : IsFiniteSet(Of(s)) /\ Cardinality(Of(s)) \in Nat
  BY FS_Subset, FS_CardinalityType
<1>3. ASSUME NEW s \in SUBSET D, s # {}, ~Wrong(s \ {c[s]}) PROVE ~Wrong(s)
  <2>. DEFINE k == c[s]
              t == s \ {k}
  <2>1. k \in s
    BY <1>3, PickedChooses DEF Chooses
  <2>2. g[s] = counts[k] + g[t]
    BY <1>1, <1>3 DEF IsFold, Step
  <2>3. counts[k] = Cardinality(Of({k}))
    <3>1. Of({k}) = {x \in S : key[x] = k}
      OBVIOUS
    <3>. QED BY <2>1, <3>1
  <2>4. g[t] = Cardinality(Of(t))
    BY <1>3
  <2>. HIDE DEF k
  <2>5. Of(s) = Of({k}) \cup Of(t) /\ Of({k}) \cap Of(t) = {}
    BY <2>1
  <2>. HIDE DEF t, Of
  <2>6. Cardinality(Of(s)) = Cardinality(Of({k})) + Cardinality(Of(t))
    BY <1>2, <2>5, DisjointUnion
  <2>. QED BY <2>2, <2>3, <2>4, <2>6
<1>4. ~Wrong({})
  <2>1. g[{}] = 0
    BY <1>1 DEF IsFold, Step
  <2>2. Of({}) = {}
    OBVIOUS
  <2>. QED BY <2>1, <2>2, FS_EmptySet
<1>5. \A s \in SUBSET D : s # {} => c[s] \in s
  BY PickedChooses DEF Chooses
<1>. HIDE DEF Wrong, c, D
<1>6. ASSUME W # {} PROVE FALSE
  <2>1. PICK m \in W : \A j \in W : m <= j
    BY <1>6, LeastOf
  <2>2. PICK s \in SUBSET D : Cardinality(s) = m /\ Wrong(s)
    BY <2>1
  <2>3. s # {}
    BY <1>4, <2>2
  <2>4. Cardinality(s \ {c[s]}) = m - 1
    BY <1>2, <1>5, <2>2, <2>3, FS_RemoveElement
  <2>5. s \ {c[s]} \in SUBSET D /\ m - 1 \in Nat /\ ~(m <= m - 1)
    BY <1>2, <2>2, <2>4
  <2>6. ~Wrong(s \ {c[s]})
    BY <2>1, <2>4, <2>5
  <2>. QED BY <1>3, <2>2, <2>3, <2>6
<1>7. ~Wrong(D)
  BY <1>2, <1>6
<1>. QED BY <1>1, <1>7 DEF Wrong, D

-----------------------------------------------------------------------------
(***************************************************************************)
(* The kingdom-wide report                                                 *)
(***************************************************************************)
\* A set of naturals that is not empty has its minimum in it.
LEMMA MinIsLeast ==
    ASSUME NEW S \in SUBSET Nat, S # {}
    PROVE  Min(S) \in S /\ \A x \in S : Min(S) <= x
<1>1. PICK k \in S : \A j \in S : k <= j
  BY LeastOf
<1>. QED BY <1>1 DEF Min

\* The report uses the orders, sums and minima of this module.
LEMMA NcnpSame ==
    /\ \A S, before : Ncnp!Ranked(S, before) = Ranked(S, before)
    /\ \A order, most : Ncnp!Leading(order, most) = Leading(order, most)
    /\ \A counts : Ncnp!Total(counts) = Summed(counts, DOMAIN counts)
    /\ \A S : Ncnp!Min(S) = Min(S)
    /\ \A S : Ncnp!Cardinality(S) = Cardinality(S)
<1>1. ASSUME NEW S PROVE Ncnp!Cardinality(S) = Cardinality(S)
  BY DEF Ncnp!Cardinality, Cardinality
<1>2. ASSUME NEW S, NEW before PROVE Ncnp!Ranked(S, before) = Ranked(S, before)
  BY <1>1 DEF Ncnp!Ranked, Ranked
<1>3. ASSUME NEW order, NEW most PROVE Ncnp!Leading(order, most) = Leading(order, most)
  BY DEF Ncnp!Leading, Leading
<1>4. ASSUME NEW counts PROVE Ncnp!Total(counts) = Summed(counts, DOMAIN counts)
  BY DEF Ncnp!Total, Ncnp!MapThenSumSet, Ncnp!MapThenFoldSet, Summed, MapThenSumSet, MapThenFoldSet
<1>5. ASSUME NEW S PROVE Ncnp!Min(S) = Min(S)
  BY DEF Ncnp!Min, Min
<1>. QED BY <1>1, <1>2, <1>3, <1>4, <1>5

\* The order by a number, the least first, is strict.
LEMMA ByNumber ==
    ASSUME NEW S, NEW worth, \A x \in S : worth[x] \in Int
    PROVE  /\ Strict({p \in S \X S : worth[p[1]] < worth[p[2]]}, S)
           /\ Strict({p \in S \X S : worth[p[1]] > worth[p[2]]}, S)
<1>1. ASSUME NEW x \in S, NEW y \in S
      PROVE  /\ <<x, y>> \in {p \in S \X S : worth[p[1]] < worth[p[2]]} <=> worth[x] < worth[y]
             /\ <<x, y>> \in {p \in S \X S : worth[p[1]] > worth[p[2]]} <=> worth[x] > worth[y]
  OBVIOUS
<1>2. Strict({p \in S \X S : worth[p[1]] < worth[p[2]]}, S)
  BY <1>1 DEF Strict
<1>3. Strict({p \in S \X S : worth[p[1]] > worth[p[2]]}, S)
  BY <1>1 DEF Strict
<1>. QED BY <1>2, <1>3

\* Whatever the sample of assessments: the donut counts every village that has
\* one, once, and the table shows of every village its newest.
\* (buildPriorityOverview)
THEOREM VillagesCountedOnce ==
    ASSUME NEW n \in Nat, NEW sample, DOMAIN sample = 1..n,
           \A i \in 1..n : sample[i].score \in Int
    PROVE  Ncnp!VillagesOnce(sample, Ncnp!buildPriorityOverview(sample))
<1>. DEFINE V == Ncnp!Villages(sample)
            Rows(v) == {i \in DOMAIN sample : sample[i].village = v}
            latest == Ncnp!LatestByVillage(sample)
            status == [v \in V |-> latest[v].status]
            worth  == [v \in V |-> latest[v].score]
            before == {p \in V \X V : latest[p[1]].score < latest[p[2]].score}
            order  == Leading(Ranked(V, before), 10)
            overview == Ncnp!buildPriorityOverview(sample)
<1>1. V \subseteq {sample[i].village : i \in 1..n}
  BY DEF Ncnp!Villages, Ncnp!ToSet
<1>2. IsFiniteSet(V)
  <2>. DEFINE f == [i \in 1..n |-> sample[i].village]
              R == {sample[i].village : i \in 1..n}
  <2>1. f \in Surjection(1..n, R)
    BY DEF Surjection
  <2>2. IsFiniteSet(1..n)
    BY FS_Interval
  <2>. HIDE DEF f, R
  <2>3. IsFiniteSet(R)
    BY <2>1, <2>2, FS_Surjection
  <2>. QED BY <1>1, <2>3, FS_Subset DEF R
<1>3. ASSUME NEW v \in V
      PROVE  \E k \in 1..n : /\ latest[v] = sample[k] /\ sample[k].village = v
                             /\ \A j \in 1 .. k - 1 : sample[j].village # v
  <2>1. latest[v] = sample[Min(Rows(v))]
    BY NcnpSame DEF Ncnp!LatestByVillage
  <2>. DEFINE R == Rows(v)
  <2>2. R \in SUBSET Nat /\ R # {}
    BY <1>1
  <2>. HIDE DEF latest
  <2>3. Min(R) \in R /\ \A x \in R : Min(R) <= x
    <3>. HIDE DEF R
    <3>. QED BY <2>2, MinIsLeast
  <2>. DEFINE k == Min(R)
  <2>4. k \in 1..n /\ sample[k].village = v /\ latest[v] = sample[k] /\ \A x \in R : k <= x
    BY <2>1, <2>3
  <2>. HIDE DEF k
  <2>5. ASSUME NEW j \in 1 .. k - 1 PROVE sample[j].village # v
    <3>1. j \in 1..n /\ ~(k <= j)
      BY <2>4
    <3>. QED BY <2>4, <3>1
  <2>. QED BY <2>4, <2>5
<1>4. DOMAIN latest = V
  BY DEF Ncnp!LatestByVillage
<1>5. \A v \in V : worth[v] \in Int
  BY <1>3
<1>. HIDE DEF V, latest
<1>6. /\ overview.byStatus = [k \in {latest[v].status : v \in V} |-> Cardinality({v \in V : latest[v].status = k})]
      /\ overview.topPriorityVillages = [i \in DOMAIN order |-> latest[order[i]]]
  <2>1. Ncnp!TopVillages(latest) = [i \in DOMAIN order |-> latest[order[i]]]
    BY <1>4, NcnpSame DEF Ncnp!TopVillages
  <2>2. /\ overview.topPriorityVillages = Ncnp!TopVillages(latest)
        /\ overview.byStatus = [k \in {latest[v].status : v \in DOMAIN latest} |->
                                   Ncnp!Cardinality({v \in DOMAIN latest : latest[v].status = k})]
    BY DEF Ncnp!buildPriorityOverview, Ncnp!Tally, latest
  <2>3. \A S : Ncnp!Cardinality(S) = Cardinality(S)
    BY NcnpSame
  <2>. HIDE DEF order, overview
  <2>. QED BY <1>4, <2>1, <2>2, <2>3
<1>. HIDE DEF overview
<1>7. Ncnp!Total(overview.byStatus) = Cardinality(V)
  <2>. DEFINE counts == overview.byStatus
              K == {latest[v].status : v \in V}
  <2>1. DOMAIN counts = K /\ \A k \in K : counts[k] = Cardinality({v \in V : status[v] = k})
    <3>. HIDE DEF order
    <3>. QED BY <1>6, ZenonT(60)
  <2>2. IsFiniteSet(K)
    <3>1. status \in Surjection(V, K)
      BY DEF Surjection
    <3>. HIDE DEF status, K
    <3>. QED BY <1>2, <3>1, FS_Surjection
  <2>3. {v \in V : status[v] \in K} = V
    OBVIOUS
  <2>. HIDE DEF K, status
  <2>4. Summed(counts, DOMAIN counts) = Cardinality({v \in V : status[v] \in DOMAIN counts})
    BY <1>2, <2>1, <2>2, CountsAddUp, SMTT(60)
  <2>. QED BY <2>1, <2>3, <2>4, NcnpSame
<1>8. \A i \in DOMAIN order : order[i] \in V
  <2>1. before = {p \in V \X V : worth[p[1]] < worth[p[2]]}
    OBVIOUS
  <2>2. Strict(before, V)
    <3>. HIDE DEF worth, before
    <3>. QED BY <1>5, <2>1, ByNumber
  <2>. HIDE DEF before
  <2>3. Ranked(V, before) \in [1 .. Cardinality(V) -> V]
    BY <1>2, <2>2, RankedInOrder DEF InOrder
  <2>. DEFINE r == Ranked(V, before)
              m == Cardinality(V)
  <2>4. Sized(r, m, V)
    BY <1>2, <2>3, FS_CardinalityType DEF Sized
  <2>. HIDE DEF r, m
  <2>5. Sized(Leading(r, 10), Lesser(m, 10), V)
    BY <2>4, LeadingOf
  <2>. QED BY <2>5 DEF r, Sized
<1>9. ASSUME NEW i \in DOMAIN overview.topPriorityVillages
      PROVE  LET row == overview.topPriorityVillages[i] IN
               \E k \in DOMAIN sample : /\ sample[k] = row
                                        /\ \A j \in 1 .. k - 1 : sample[j].village # row.village
  <2>. HIDE DEF order
  <2>1. i \in DOMAIN order /\ overview.topPriorityVillages[i] = latest[order[i]]
    BY <1>6, <1>9
  <2>2. order[i] \in V
    BY <1>8, <2>1
  <2>3. PICK k \in 1..n : /\ latest[order[i]] = sample[k] /\ sample[k].village = order[i]
                          /\ \A j \in 1 .. k - 1 : sample[j].village # order[i]
    BY <1>3, <2>2
  <2>. QED BY <2>1, <2>3
<1>10. Ncnp!Total(overview.byStatus) = Ncnp!Cardinality(Ncnp!Villages(sample))
  BY <1>7, NcnpSame DEF V
<1>. QED BY <1>9, <1>10 DEF Ncnp!VillagesOnce, overview

\* The image of a finite set under a function is finite.
LEMMA ImageIsFinite ==
    ASSUME NEW S, IsFiniteSet(S), NEW f
    PROVE  IsFiniteSet({f[x] : x \in S})
<1>. DEFINE g == [x \in S |-> f[x]]
            R == {f[x] : x \in S}
<1>1. g \in Surjection(S, R)
  BY DEF Surjection
<1>. HIDE DEF g, R
<1>2. IsFiniteSet(R)
  BY <1>1, FS_Surjection
<1>. QED BY <1>2 DEF R

\* What leads a ranking by a number is of the ranked, none twice, and none
\* stands behind one with a greater number.
LEMMA LeadingByNumber ==
    ASSUME NEW S, IsFiniteSet(S), NEW worth, \A x \in S : worth[x] \in Int, NEW most \in Nat,
           NEW order, order = Leading(Ranked(S, {p \in S \X S : worth[p[1]] < worth[p[2]]}), most)
    PROVE  /\ \E k \in Nat : order \in [1..k -> S]
           /\ \A i, j \in DOMAIN order : i < j =>
                 order[i] # order[j] /\ worth[order[i]] <= worth[order[j]]
<1>. DEFINE before == {p \in S \X S : worth[p[1]] < worth[p[2]]}
            r == Ranked(S, before)
            n == Cardinality(S)
            k == Lesser(n, most)
            lead == Leading(r, most)
<1>1. Strict(before, S)
  BY ByNumber
<1>2. \A x, y \in S : <<x, y>> \notin before => worth[y] <= worth[x]
  OBVIOUS
<1>. HIDE DEF before
<1>3. InOrder(r, S, before)
  BY <1>1, RankedInOrder
<1>4. n \in Nat /\ r \in [1..n -> S]
  BY <1>3, FS_CardinalityType DEF InOrder
<1>5. \A i, j \in 1..n : i < j => r[i] # r[j] /\ <<r[j], r[i]>> \notin before
  BY <1>3 DEF InOrder
<1>11. Sized(r, n, S)
  BY <1>4 DEF Sized
<1>. HIDE DEF r, n
<1>12. Sized(lead, k, S) /\ \A i \in 1..k : i \in 1..n /\ lead[i] = r[i]
  BY <1>11, LeadingOf
<1>. HIDE DEF k
<1>6. k \in Nat /\ lead \in [1..k -> S] /\ \A i \in 1..k : i \in 1..n /\ lead[i] = r[i]
  BY <1>12 DEF Sized
<1>7. order = lead
  BY DEF before, r
<1>9. ASSUME NEW i \in 1..k, NEW j \in 1..k, i < j
      PROVE  order[i] # order[j] /\ worth[order[i]] <= worth[order[j]]
  <2>1. order[i] = r[i] /\ order[j] = r[j] /\ r[i] \in S /\ r[j] \in S
    BY <1>4, <1>6, <1>7
  <2>2. r[i] # r[j] /\ <<r[j], r[i]>> \notin before
    BY <1>5, <1>6, <1>9
  <2>. QED BY <1>2, <2>1, <2>2
<1>10. order \in [1..k -> S] /\ DOMAIN order = 1..k
  BY <1>6, <1>7
<1>. QED BY <1>6, <1>9, <1>10

\* Whatever the assessments: every need that has one is ranked once, the most
\* urgent first, and by a row of its whole survey where there is one.
\* (buildCriticalNeeds)
THEOREM NeedsAreRankedOnce ==
    ASSUME NEW n \in Nat, NEW sample, DOMAIN sample = 1..n,
           \A i \in 1..n : sample[i].score \in Int,
           NEW needs, IsFiniteSet(needs), \A a, b \in needs : a.id = b.id => a = b,
           NEW orgs, NEW surveys, NEW evidence, NEW indicators
    PROVE  Ncnp!NeedsRankedOnce(surveys, sample, needs,
              Ncnp!buildCriticalNeeds(orgs, needs, surveys, sample, evidence, indicators))
<1>. DEFINE Own(m) == Ncnp!OfNeed(sample, surveys, m.id)
            Best(m) == Ncnp!BestAssessment(sample, Own(m))
            rankable == {m \in needs : Own(m) # {}}
            row == [m \in needs |->
                      [need |-> m.id, score |-> Best(m).score, status |-> Best(m).status,
                       village |-> Best(m).village,
                       primaryGap |-> Ncnp!primaryGapFrom(Best(m).components),
                       equityFlag |-> Ncnp!equityFlagFrom(Best(m).components),
                       evidence |-> Ncnp!Cardinality({e \in evidence : e.need = m.id}),
                       indicator |-> Ncnp!indicatorFor(indicators, Best(m).survey, m),
                       region |-> Ncnp!RegionOf(orgs, m.org)]]
            rows == {row[m] : m \in rankable}
            worth == [r \in rows |-> r.score]
            order == Leading(Ranked(rows, {p \in rows \X rows : worth[p[1]] < worth[p[2]]}), 10)
            critical == Ncnp!buildCriticalNeeds(orgs, needs, surveys, sample, evidence, indicators)
<1>1. critical.priorityNeeds = order
  <2>1. rows = {[need |-> m.id, score |-> Best(m).score, status |-> Best(m).status,
                 village |-> Best(m).village,
                 primaryGap |-> Ncnp!primaryGapFrom(Best(m).components),
                 equityFlag |-> Ncnp!equityFlagFrom(Best(m).components),
                 evidence |-> Ncnp!Cardinality({e \in evidence : e.need = m.id}),
                 indicator |-> Ncnp!indicatorFor(indicators, Best(m).survey, m),
                 region |-> Ncnp!RegionOf(orgs, m.org)] : m \in rankable}
    OBVIOUS
  <2>. HIDE DEF row
  <2>2. critical.priorityNeeds
          = Ncnp!Leading(Ncnp!Ranked(rows, {p \in rows \X rows : p[1].score < p[2].score}), 10)
    BY <2>1 DEF Ncnp!buildCriticalNeeds
  <2>. HIDE DEF rows, critical
  <2>3. {p \in rows \X rows : p[1].score < p[2].score} = {p \in rows \X rows : worth[p[1]] < worth[p[2]]}
    OBVIOUS
  <2>. HIDE DEF worth
  <2>. QED BY <2>2, <2>3, NcnpSame
<1>2. ASSUME NEW m \in rankable
      PROVE  \E i \in Own(m) : /\ i \in 1..n /\ Best(m) = sample[i]
                               /\ sample[i].village # Ncnp!Consolidated =>
                                     \A k \in Own(m) : sample[k].village # Ncnp!Consolidated
  <2>. DEFINE S == Own(m)
              whole == {i \in S : sample[i].village = Ncnp!Consolidated}
              R == IF whole # {} THEN whole ELSE S
  <2>1. S \in SUBSET (1..n) /\ S # {}
    BY <1>2 DEF Ncnp!OfNeed
  <2>2. Best(m) = sample[Min(R)]
    BY NcnpSame DEF Ncnp!BestAssessment
  <2>. HIDE DEF S
  <2>3. R \in SUBSET Nat /\ R # {} /\ R \subseteq S
    <3>1. whole \subseteq S
      OBVIOUS
    <3>3. S \subseteq Nat /\ S # {}
      BY <2>1
    <3>2. (R = whole /\ whole # {}) \/ R = S
      OBVIOUS
    <3>. HIDE DEF R, whole
    <3>. QED BY <3>1, <3>2, <3>3
  <2>4. Min(R) \in R
    <3>. HIDE DEF R
    <3>. QED BY <2>3, MinIsLeast
  <2>5. Min(R) \in S
    <3>. HIDE DEF R
    <3>. QED BY <2>3, <2>4
  <2>6. sample[Min(R)].village # Ncnp!Consolidated => whole = {}
    BY <2>4
  <2>7. whole = {} => \A k \in S : sample[k].village # Ncnp!Consolidated
    OBVIOUS
  <2>. HIDE DEF R, whole
  <2>. QED BY <2>1, <2>2, <2>5, <2>6, <2>7 DEF S
<1>3. \A m \in needs : row[m].need = m.id /\ row[m].score = Best(m).score /\ row[m].village = Best(m).village
  OBVIOUS
<1>. HIDE DEF Best, Own, row, critical
<1>4. ASSUME NEW r \in rows
      PROVE  \E m \in rankable : r = row[m] /\ r.need = m.id /\ r.score \in Int /\ r.village = Best(m).village
  <2>1. PICK m \in rankable : r = row[m]
    OBVIOUS
  <2>2. r.need = m.id /\ r.score = Best(m).score /\ r.village = Best(m).village
    BY <1>3, <2>1
  <2>3. Best(m).score \in Int
    BY <1>2
  <2>. QED BY <2>1, <2>2, <2>3
<1>5. IsFiniteSet(rows)
  <2>1. IsFiniteSet(rankable)
    BY FS_Subset
  <2>. HIDE DEF rankable
  <2>. QED BY <2>1, ImageIsFinite
<1>6. \A r \in rows : worth[r] \in Int /\ worth[r] = r.score
  BY <1>4
<1>. HIDE DEF rows, worth
<1>7. /\ \E k \in Nat : order \in [1..k -> rows]
      /\ \A i, j \in DOMAIN order : i < j =>
            order[i] # order[j] /\ worth[order[i]] <= worth[order[j]]
  BY <1>5, <1>6, LeadingByNumber
<1>. HIDE DEF order
<1>8. \A i \in DOMAIN order : order[i] \in rows
  BY <1>7
<1>9. \A r, s \in rows : r.need = s.need => r = s
  <2>1. ASSUME NEW r \in rows, NEW s \in rows, r.need = s.need PROVE r = s
    <3>1. PICK m \in rankable : r = row[m] /\ r.need = m.id
      BY <1>4
    <3>2. PICK o \in rankable : s = row[o] /\ s.need = o.id
      BY <1>4
    <3>. QED BY <2>1, <3>1, <3>2
  <2>. QED BY <2>1
<1>10. {order[i].need : i \in DOMAIN order} \subseteq {m.id : m \in needs}
  BY <1>4, <1>8
<1>11. \A i, j \in DOMAIN order : i < j => order[i].need # order[j].need /\ order[i].score <= order[j].score
  BY <1>6, <1>7, <1>8, <1>9
<1>12. ASSUME NEW i \in DOMAIN order, order[i].village # Ncnp!Consolidated
       PROVE  \A k \in Ncnp!OfNeed(sample, surveys, order[i].need) : sample[k].village # Ncnp!Consolidated
  <2>1. PICK m \in rankable : order[i].need = m.id /\ order[i].village = Best(m).village
    BY <1>4, <1>8
  <2>. QED BY <1>2, <1>12, <2>1 DEF Own
<1>. QED BY <1>1, <1>10, <1>11, <1>12 DEF Ncnp!NeedsRankedOnce, critical

-----------------------------------------------------------------------------
(***************************************************************************)
(* A survey within its organisation                                        *)
(***************************************************************************)
\* What tells its elements apart maps a set to one of the same size.
LEMMA ImageCount ==
    ASSUME NEW S, IsFiniteSet(S), NEW f, \A x, y \in S : f[x] = f[y] => x = y
    PROVE  /\ IsFiniteSet({f[x] : x \in S})
           /\ Cardinality({f[x] : x \in S}) = Cardinality(S)
<1>. DEFINE g == [x \in S |-> f[x]]
            R == {f[x] : x \in S}
<1>1. g \in [S -> R] /\ \A y \in R : \E x \in S : g[x] = y
  OBVIOUS
<1>2. \A x, y \in S : g[x] = g[y] => x = y
  OBVIOUS
<1>. HIDE DEF g, R
<1>3. g \in Bijection(S, R)
  BY <1>1, <1>2 DEF Bijection, Injection, Surjection, IsInjective
<1>4. IsFiniteSet(R) /\ Cardinality(R) = Cardinality(S)
  BY <1>3, FS_Bijection DEF ExistsBijection
<1>. QED BY <1>4 DEF R

\* Whoever said of a column is counted under one value of it, once.
\* (aggregateDemographics)
THEOREM DemographicsCountOnce ==
    ASSUME NEW responses, IsFiniteSet(responses), NEW column
    PROVE  LET counts == Reports!aggregateDemographics(responses, column)
           IN  Summed(counts, DOMAIN counts) = Cardinality({r \in responses : r[column] # "none"})
<1>. DEFINE known  == {r \in responses : r[column] # "none"}
            counts == Reports!aggregateDemographics(responses, column)
            key    == [r \in known |-> r[column]]
            D      == {key[r] : r \in known}
<1>1. D = {r[column] : r \in known}
  OBVIOUS
<1>2. DOMAIN counts = D /\ \A v \in D : counts[v] = Cardinality({r \in known : key[r] = v})
  BY <1>1, ZenonT(60) DEF Reports!aggregateDemographics, Reports!Cardinality, Cardinality
<1>3. IsFiniteSet(known)
  BY FS_Subset
<1>. HIDE DEF counts, key, known
<1>4. IsFiniteSet(D)
  BY <1>3, ImageIsFinite
<1>5. {r \in known : key[r] \in D} = known
  OBVIOUS
<1>. HIDE DEF D
<1>6. Summed(counts, DOMAIN counts) = Cardinality({r \in known : key[r] \in DOMAIN counts})
  BY <1>2, <1>3, <1>4, CountsAddUp
<1>. QED BY <1>2, <1>5, <1>6 DEF counts, known

\* The statuses of an organisation's surveys add up to their number.
\* (buildPortfolioBlock)
LEMMA StatusesAddUp ==
    ASSUME NEW rows, IsFiniteSet(rows), NEW responses, NEW own
    PROVE  LET counts == Reports!buildPortfolioBlock(rows, responses, own).byStatus
           IN  Summed(counts, DOMAIN counts) = Cardinality(rows)
<1>. DEFINE counts == Reports!buildPortfolioBlock(rows, responses, own).byStatus
            key    == [r \in rows |-> r.status]
            D      == {key[r] : r \in rows}
<1>1. D = {r.status : r \in rows}
  OBVIOUS
<1>2. DOMAIN counts = D /\ \A v \in D : counts[v] = Cardinality({r \in rows : key[r] = v})
  BY <1>1 DEF Reports!buildPortfolioBlock, Reports!Cardinality, Cardinality
<1>. HIDE DEF counts, key
<1>4. IsFiniteSet(D)
  BY ImageIsFinite
<1>5. {r \in rows : key[r] \in D} = rows
  OBVIOUS
<1>. HIDE DEF D
<1>6. Summed(counts, DOMAIN counts) = Cardinality({r \in rows : key[r] \in DOMAIN counts})
  BY <1>2, <1>4, CountsAddUp
<1>. QED BY <1>2, <1>5, <1>6 DEF counts

\* A rounded quotient is within half of its divisor.
LEMMA RoundedQuotient ==
    ASSUME NEW own \in Nat, NEW n \in Nat, n > 0
    PROVE  LET share == (200 * own + n) \div (2 * n)
           IN  share \in Int /\ 2 * (n * share - 100 * own) \in -n..n
<1>. DEFINE m == 2 * n
            a == 200 * own + n
            share == a \div m
<1>1. m \in Nat /\ m > 0 /\ a \in Nat
  OBVIOUS
<1>2. share \in Int /\ m * share <= a /\ a < m * share + m
  <2>. HIDE DEF m, a
  <2>. QED BY <1>1
<1>3. m * share = 2 * (n * share)
  <2>. HIDE DEF share
  <2>1. share \in Int
    BY <1>2
  <2>. QED BY <2>1
<1>. DEFINE part == n * share
<1>4. part \in Int
  <2>. HIDE DEF share
  <2>1. share \in Int
    BY <1>2
  <2>. QED BY <2>1
<1>. HIDE DEF part, share
<1>5. 2 * part <= a /\ a < 2 * part + m
  BY <1>2, <1>3 DEF part
<1>6. 2 * (part - 100 * own) \in -n..n
  BY <1>4, <1>5
<1>. QED BY <1>2, <1>6 DEF part, share, a, m

\* The share of a survey is that of its responses, to half a point, however
\* many they are.  (buildPortfolioBlock)
LEMMA ShareIsRounded ==
    ASSUME NEW rows, NEW n \in Nat, NEW own \in Nat, own <= n
    PROVE  LET share == Reports!buildPortfolioBlock(rows, n, own).share
           IN  share \in Int /\ 2 * (n * share - 100 * own) \in -n..n
<1>. DEFINE share == Reports!buildPortfolioBlock(rows, n, own).share
<1>1. share = IF n = 0 THEN 0 ELSE (200 * own + n) \div (2 * n)
  BY DEF Reports!buildPortfolioBlock
<1>. HIDE DEF share
<1>2. n = 0 => share \in Int /\ 2 * (n * share - 100 * own) \in -n..n
  BY <1>1
<1>3. n > 0 => share \in Int /\ 2 * (n * share - 100 * own) \in -n..n
  <2>. DEFINE q == (200 * own + n) \div (2 * n)
  <2>1. ASSUME n > 0 PROVE q \in Int /\ 2 * (n * q - 100 * own) \in -n..n
    BY <2>1, RoundedQuotient
  <2>2. n > 0 => share = q
    BY <1>1
  <2>. HIDE DEF q
  <2>. QED BY <2>1, <2>2
<1>4. share \in Int /\ 2 * (n * share - 100 * own) \in -n..n
  BY <1>2, <1>3
<1>. QED BY <1>4 DEF share

\* Three shares, each to half a point, make up the whole to half a point each.
LEMMA ThreeSharesAddUp ==
    ASSUME NEW n \in Nat, n > 0, NEW a \in Int, NEW b \in Int, NEW c \in Int,
           NEW p \in Nat, NEW q \in Nat, NEW r \in Nat, p + q + r = n,
           2 * (n * a - 100 * p) \in -n..n, 2 * (n * b - 100 * q) \in -n..n, 2 * (n * c - 100 * r) \in -n..n
    PROVE  2 * (a + b + c - 100) \in -3..3
<1>. DEFINE A == n * a
            B == n * b
            C == n * c
            d == a + b + c - 100
<1>1. A \in Int /\ B \in Int /\ C \in Int /\ d \in Int
  OBVIOUS
<1>2. n * d = A + B + C - 100 * n
  OBVIOUS
<1>. HIDE DEF A, B, C
<1>3. 2 * (A - 100 * p) \in -n..n /\ 2 * (B - 100 * q) \in -n..n /\ 2 * (C - 100 * r) \in -n..n
  BY DEF A, B, C
<1>4. 2 * (A + B + C - 100 * n) <= 3 * n /\ 2 * (A + B + C - 100 * n) >= -(3 * n)
  BY <1>1, <1>3
<1>. HIDE DEF d
<1>5. 2 * (n * d) <= 3 * n /\ 2 * (n * d) >= -(3 * n)
  BY <1>2, <1>4
<1>6. d <= 1
  <2>1. ASSUME d >= 2 PROVE FALSE
    <3>1. n * d >= n * 2
      BY <1>1, <2>1
    <3>. QED BY <1>1, <1>5, <3>1
  <2>. QED BY <1>1, <2>1
<1>7. d >= -1
  <2>1. ASSUME d <= -2 PROVE FALSE
    <3>1. n * d <= n * (-2)
      BY <1>1, <2>1
    <3>. QED BY <1>1, <1>5, <3>1
  <2>. QED BY <1>1, <2>1
<1>. QED BY <1>1, <1>6, <1>7 DEF d

\* The figures of the enumerated surveys add up.
LEMMA PortfolioAddsUp ==
    ASSUME NEW x \in PortfolioInputs
    PROVE  SharesAddUp(x, Portfolio(x))
<1>. DEFINE r == Portfolio(x)
            rows == {[id |-> w, status |-> x.status[w]] : w \in 1..3}
            all == Responses(x)
            n == Cardinality(all)
            own(need) == Cardinality(People(x, need))
            of(need) == {i \in all : x.people[i].need = need}
            Counted(f) == MapThenSumSet(LAMBDA v : f[v], DOMAIN f)
<1>0. /\ x.of \in {<<"n1", "n1", "n2">>, <<"n1", "n2", "n3">>}
      /\ x.people \in Lists([need : {"n1", "n2", "n3"}, gender : {"none", "f", "m"}], 3)
  BY DEF PortfolioInputs
<1>1. PICK k \in Nat : x.people \in [1..k -> [need : {"n1", "n2", "n3"}, gender : {"none", "f", "m"}]]
  <2>. DEFINE S == [need : {"n1", "n2", "n3"}, gender : {"none", "f", "m"}]
  <2>1. x.people \in UNION {[1..k -> S] : k \in 0..3}
    BY <1>0 DEF Lists
  <2>. HIDE DEF S
  <2>2. PICK k \in 0..3 : x.people \in [1..k -> S]
    BY <2>1
  <2>. QED BY <2>2 DEF S
<1>2. /\ IsFiniteSet(all) /\ n \in Nat
      /\ \A i \in all : x.people[i].need \in {"n1", "n2", "n3"}
  <2>. DEFINE S == [need : {"n1", "n2", "n3"}, gender : {"none", "f", "m"}]
  <2>1. x.people \in [1..k -> S] /\ \A p \in S : p.need \in {"n1", "n2", "n3"}
    BY <1>1
  <2>. HIDE DEF S
  <2>2. all = 1..k /\ \A i \in all : x.people[i] \in S
    BY <2>1 DEF Responses
  <2>3. IsFiniteSet(all) /\ n \in Nat
    BY <2>2, FS_Interval, FS_CardinalityType
  <2>. QED BY <2>1, <2>2, <2>3
<1>3. IsFiniteSet(rows) /\ Cardinality(rows) = 3
  <2>. DEFINE f == [w \in 1..3 |-> [id |-> w, status |-> x.status[w]]]
              three == 3
  <2>1. \A i, j \in 1..3 : f[i] = f[j] => i = j
    <3>1. \A i \in 1..3 : f[i].id = i
      OBVIOUS
    <3>. HIDE DEF f
    <3>. QED BY <3>1
  <2>2. rows = {f[i] : i \in 1..three}
    OBVIOUS
  <2>3. three \in Nat
    OBVIOUS
  <2>4. \A i, j \in 1..three : f[i] = f[j] => i = j
    BY <2>1
  <2>. HIDE DEF f, rows, three
  <2>5. IsFiniteSet(1..three) /\ Cardinality(1..three) = three
    BY <2>3, FS_Interval
  <2>. DEFINE S == 1..three
  <2>6. IsFiniteSet(S) /\ Cardinality(S) = three /\ rows = {f[i] : i \in S} /\ \A i, j \in S : f[i] = f[j] => i = j
    BY <2>2, <2>4, <2>5
  <2>. HIDE DEF S
  <2>7. IsFiniteSet(rows) /\ Cardinality(rows) = three
    BY <2>6, ImageCount
  <2>. QED BY <2>7 DEF three
<1>4. ASSUME NEW need
      PROVE  /\ IsFiniteSet(People(x, need)) /\ own(need) = Cardinality(of(need))
             /\ own(need) \in Nat /\ own(need) <= n
             /\ Cardinality({p \in People(x, need) : p["gender"] # "none"}) = Cardinality(Said(x, of(need)))
  <2>. DEFINE f == [i \in all |-> [id |-> i, gender |-> x.people[i].gender]]
  <2>1. \A i \in all : f[i].id = i /\ f[i]["gender"] = x.people[i].gender
    OBVIOUS
  <2>2. People(x, need) = {f[i] : i \in of(need)}
    BY DEF People
  <2>. HIDE DEF f
  <2>3. \A i, j \in all : f[i] = f[j] => i = j
    BY <2>1
  <2>4. {p \in People(x, need) : p["gender"] # "none"} = {f[i] : i \in Said(x, of(need))}
    BY <2>1, <2>2 DEF Said
  <2>5. of(need) \subseteq all /\ Said(x, of(need)) \subseteq all
    BY DEF Said
  <2>6. IsFiniteSet(of(need)) /\ IsFiniteSet(Said(x, of(need))) /\ Cardinality(of(need)) <= n
    BY <1>2, <2>5, FS_Subset
  <2>. HIDE DEF of
  <2>7. IsFiniteSet(People(x, need)) /\ own(need) = Cardinality(of(need))
    BY <2>2, <2>3, <2>5, <2>6, ImageCount
  <2>8. Cardinality({p \in People(x, need) : p["gender"] # "none"}) = Cardinality(Said(x, of(need)))
    BY <2>3, <2>4, <2>5, <2>6, ImageCount
  <2>. QED BY <2>6, <2>7, <2>8, FS_CardinalityType
<1>6. ASSUME NEW v \in 1..3
      PROVE  /\ r[v].block = Reports!buildPortfolioBlock(rows, n, own(x.of[v]))
             /\ r[v].gender = Reports!aggregateDemographics(People(x, x.of[v]), "gender")
  BY DEF Portfolio
<1>. HIDE DEF rows, r, of, n
<1>7. ASSUME NEW f PROVE Counted(f) = Summed(f, DOMAIN f)
  BY DEF Summed
<1>. HIDE DEF Counted
<1>8. \A v \in 1..3 : Counted(r[v].block.byStatus) = 3
  BY <1>3, <1>6, <1>7, StatusesAddUp
<1>9. \A v \in 1..3 : Counted(r[v].gender) = Cardinality(Said(x, of(x.of[v])))
  <2>. SUFFICES ASSUME NEW v \in 1..3 PROVE Counted(r[v].gender) = Cardinality(Said(x, of(x.of[v])))
    OBVIOUS
  <2>. DEFINE people == People(x, x.of[v])
              gender == Reports!aggregateDemographics(people, "gender")
  <2>1. IsFiniteSet(people) /\ Cardinality({p \in people : p["gender"] # "none"}) = Cardinality(Said(x, of(x.of[v])))
    BY <1>4
  <2>2. r[v].gender = gender
    BY <1>6
  <2>. HIDE DEF people
  <2>3. Summed(gender, DOMAIN gender) = Cardinality({p \in people : p["gender"] # "none"})
    BY <2>1, DemographicsCountOnce
  <2>. HIDE DEF gender
  <2>. QED BY <1>7, <2>1, <2>2, <2>3
<1>10. ASSUME NEW v \in 1..3
       PROVE  /\ r[v].block.share \in Int
              /\ 2 * (n * r[v].block.share - 100 * own(x.of[v])) \in -n..n
  <2>. DEFINE w == own(x.of[v])
  <2>1. w \in Nat /\ w <= n
    BY <1>4
  <2>2. r[v].block = Reports!buildPortfolioBlock(rows, n, w)
    BY <1>6
  <2>. HIDE DEF w
  <2>3. r[v].block.share \in Int /\ 2 * (n * r[v].block.share - 100 * w) \in -n..n
    BY <1>2, <2>1, <2>2, ShareIsRounded
  <2>. QED BY <2>3 DEF w
<1>11. ASSUME \A v, w \in 1..3 : v # w => x.of[v] # x.of[w]
       PROVE  /\ n > 0 => 2 * (r[1].block.share + r[2].block.share + r[3].block.share - 100) \in -3..3
              /\ Counted(r[1].gender) + Counted(r[2].gender) + Counted(r[3].gender) = Cardinality(Said(x, all))
  <2>1. x.of[1] = "n1" /\ x.of[2] = "n2" /\ x.of[3] = "n3"
    BY <1>0, <1>11
  <2>2. ASSUME NEW A, NEW B, NEW C, NEW D, IsFiniteSet(D),
               A \cap B = {}, A \cap C = {}, B \cap C = {}, A \cup B \cup C = D
        PROVE  Cardinality(A) + Cardinality(B) + Cardinality(C) = Cardinality(D)
    <3>1. IsFiniteSet(A) /\ IsFiniteSet(B) /\ IsFiniteSet(C) /\ IsFiniteSet(A \cup B)
      <4>1. A \subseteq D /\ B \subseteq D /\ C \subseteq D /\ (A \cup B) \subseteq D
        BY <2>2
      <4>. QED BY <2>2, <4>1, FS_Subset
    <3>2. Cardinality(A \cup B) = Cardinality(A) + Cardinality(B)
      BY <2>2, <3>1, DisjointUnion
    <3>3. (A \cup B) \cap C = {}
      BY <2>2
    <3>4. Cardinality((A \cup B) \cup C) = Cardinality(A \cup B) + Cardinality(C)
      BY <3>1, <3>3, DisjointUnion
    <3>. QED BY <2>2, <3>2, <3>4
  <2>3. own("n1") + own("n2") + own("n3") = n
    <3>1. of("n1") \cap of("n2") = {} /\ of("n1") \cap of("n3") = {} /\ of("n2") \cap of("n3") = {}
      BY DEF of
    <3>2. of("n1") \cup of("n2") \cup of("n3") = all
      BY <1>2 DEF of
    <3>3. Cardinality(of("n1")) + Cardinality(of("n2")) + Cardinality(of("n3")) = Cardinality(all)
      BY <1>2, <2>2, <3>1, <3>2
    <3>. QED BY <1>4, <3>3 DEF n
  <2>4. Cardinality(Said(x, of("n1"))) + Cardinality(Said(x, of("n2"))) + Cardinality(Said(x, of("n3")))
           = Cardinality(Said(x, all))
    <3>. DEFINE P == Said(x, of("n1"))
                Q == Said(x, of("n2"))
                R == Said(x, of("n3"))
                S == Said(x, all)
    <3>1. P \cap Q = {} /\ P \cap R = {} /\ Q \cap R = {}
      BY DEF of, Said
    <3>2. P \cup Q \cup R = S
      BY <1>2 DEF of, Said
    <3>3. IsFiniteSet(S)
      BY <1>2, FS_Subset DEF Said
    <3>. HIDE DEF P, Q, R, S
    <3>4. Cardinality(P) + Cardinality(Q) + Cardinality(R) = Cardinality(S)
      BY <2>2, <3>1, <3>2, <3>3
    <3>. QED BY <3>4 DEF P, Q, R, S
  <2>5. Counted(r[1].gender) + Counted(r[2].gender) + Counted(r[3].gender) = Cardinality(Said(x, all))
    BY <1>9, <2>1, <2>4
  <2>6. ASSUME n > 0 PROVE 2 * (r[1].block.share + r[2].block.share + r[3].block.share - 100) \in -3..3
    <3>1. /\ r[1].block.share \in Int /\ 2 * (n * r[1].block.share - 100 * own("n1")) \in -n..n
          /\ r[2].block.share \in Int /\ 2 * (n * r[2].block.share - 100 * own("n2")) \in -n..n
          /\ r[3].block.share \in Int /\ 2 * (n * r[3].block.share - 100 * own("n3")) \in -n..n
      BY <1>10, <2>1
    <3>2. own("n1") \in Nat /\ own("n2") \in Nat /\ own("n3") \in Nat
      BY <1>4
    <3>. HIDE DEF own
    <3>. QED BY <1>2, <2>3, <2>6, <3>1, <3>2, ThreeSharesAddUp
  <2>. QED BY <2>5, <2>6
<1>. QED BY <1>8, <1>9, <1>10, <1>11 DEF SharesAddUp, r, Counted, of, n

-----------------------------------------------------------------------------
(***************************************************************************)
(* The supervisors' overview                                               *)
(***************************************************************************)
\* The latest of rows is one of them, where there are any.
LEMMA LatestIsOne ==
    ASSUME NEW rows, IsFiniteSet(rows), \A r \in rows : r.at \in Int
    PROVE  /\ rows = {} => Boards!LatestOf(rows) = Boards!None
           /\ rows # {} => \E r \in rows : Boards!LatestOf(rows) = r.id /\ \A s \in rows : s.at <= r.at
<1>1. CASE rows = {}
  BY <1>1 DEF Boards!LatestOf
<1>2. CASE rows # {}
  <2>. DEFINE before == {p \in rows \X rows : p[1].at > p[2].at}
              order  == Ranked(rows, before)
              n      == Cardinality(rows)
  <2>1. Strict(before, rows)
    BY DEF Strict
  <2>2. \A r, s \in rows : <<r, s>> \in before <=> r.at > s.at
    OBVIOUS
  <2>3. Boards!Newest(rows) = order
    BY DEF Boards!Newest, Boards!Ranked, Ranked, Boards!Cardinality, Cardinality
  <2>. HIDE DEF before
  <2>4. InOrder(order, rows, before) /\ \A r \in rows : \E i \in 1..n : order[i] = r
    BY <2>1, RankedInOrder
  <2>5. n \in Nat /\ n # 0
    BY <1>2, FS_CardinalityType, FS_EmptySet
  <2>6. /\ order \in [1..n -> rows]
        /\ \A i, j \in 1..n : i < j => order[i] # order[j] /\ <<order[j], order[i]>> \notin before
    BY <2>4 DEF InOrder
  <2>7. Boards!LatestOf(rows) = order[1].id
    BY <1>2, <2>3 DEF Boards!LatestOf
  <2>. HIDE DEF order, n
  <2>8. 1 \in 1..n /\ order[1] \in rows
    BY <2>5, <2>6
  <2>9. ASSUME NEW s \in rows PROVE s.at <= order[1].at
    <3>1. PICK i \in 1..n : order[i] = s
      BY <2>4
    <3>2. CASE i = 1
      BY <2>8, <3>1, <3>2
    <3>3. CASE i # 1
      <4>1. <<s, order[1]>> \notin before
        BY <2>5, <2>6, <2>8, <3>1, <3>3
      <4>. QED BY <2>2, <2>8, <4>1
    <3>. QED BY <3>2, <3>3
  <2>. QED BY <1>2, <2>7, <2>8, <2>9
<1>. QED BY <1>1, <1>2

\* What supervisors count as pending or shared waits in the queue of an owner
\* or was answered in that of a requester, each request once.  (getOverview,
\* SharingAlertsService.listAlerts)
THEOREM QueuesHoldRequests ==
    ASSUME NEW orgs, NEW requests, IsFiniteSet(requests),
           \A r, s \in requests : r.id = s.id => r = s,
           \A r \in requests : r.owner \in orgs /\ r.requester \in orgs
    PROVE  LET queue(o) == Boards!toAlerts(requests, o)
               Queued(kind) == Cardinality({w \in orgs \X UNION {queue(p) : p \in orgs} :
                                               w[2] \in queue(w[1]) /\ w[2].kind = kind})
           IN  /\ Queued("request_created") = Cardinality({r \in requests : r.status = "pending"})
               /\ Queued("request_approved") = Cardinality({r \in requests : r.status = "approved"})
<1>. DEFINE queue(o) == Boards!toAlerts(requests, o)
            InQueue(kind) == {w \in orgs \X UNION {queue(p) : p \in orgs} :
                                 w[2] \in queue(w[1]) /\ w[2].kind = kind}
            pending  == {r \in requests : r.status = "pending"}
            approved == {r \in requests : r.status = "approved"}
            asked    == [r \in requests |-> <<r.owner, Boards!Alert("request_created", r, "pending")>>]
            answered == [r \in requests |-> <<r.requester, Boards!Alert("request_approved", r, "decided")>>]
<1>1. \A r \in requests : /\ asked[r][1] = r.owner /\ asked[r][2] = Boards!Alert("request_created", r, "pending")
                          /\ answered[r][1] = r.requester
                          /\ answered[r][2] = Boards!Alert("request_approved", r, "decided")
  OBVIOUS
<1>2. \A kind, r, status : /\ Boards!Alert(kind, r, status).kind = kind
                           /\ Boards!Alert(kind, r, status).of = r.id
  BY DEF Boards!Alert
<1>3. ASSUME NEW o, NEW a
      PROVE  a \in queue(o) <=>
               \/ \E r \in pending : r.owner = o /\ a = Boards!Alert("request_created", r, "pending")
               \/ \E r \in approved : r.requester = o /\ a = Boards!Alert("request_approved", r, "decided")
               \/ \E r \in requests : /\ r.status = "rejected" /\ r.requester = o
                                      /\ a = Boards!Alert("request_rejected", r, "decided")
  BY DEF Boards!toAlerts
<1>. HIDE DEF queue
<1>4. ASSUME NEW o \in orgs, NEW a \in queue(o), NEW kind, a.kind = kind
      PROVE  <<o, a>> \in InQueue(kind)
  BY <1>4
<1>5. InQueue("request_created") = {asked[r] : r \in pending}
  <2>1. ASSUME NEW w \in InQueue("request_created") PROVE w \in {asked[r] : r \in pending}
    <3>1. w[1] \in orgs /\ w[2] \in queue(w[1]) /\ w[2].kind = "request_created" /\ w = <<w[1], w[2]>>
      BY <2>1
    <3>2. PICK r \in pending : r.owner = w[1] /\ w[2] = Boards!Alert("request_created", r, "pending")
      BY <1>2, <1>3, <3>1
    <3>3. w = asked[r]
      BY <3>1, <3>2
    <3>. QED BY <3>3
  <2>2. ASSUME NEW r \in pending PROVE asked[r] \in InQueue("request_created")
    <3>1. Boards!Alert("request_created", r, "pending") \in queue(r.owner)
      BY <1>3
    <3>2. <<r.owner, Boards!Alert("request_created", r, "pending")>> \in InQueue("request_created")
      BY <1>2, <1>4, <3>1
    <3>. QED BY <3>2
  <2>. HIDE DEF InQueue, asked
  <2>. QED BY <2>1, <2>2
<1>6. InQueue("request_approved") = {answered[r] : r \in approved}
  <2>1. ASSUME NEW w \in InQueue("request_approved") PROVE w \in {answered[r] : r \in approved}
    <3>1. w[1] \in orgs /\ w[2] \in queue(w[1]) /\ w[2].kind = "request_approved" /\ w = <<w[1], w[2]>>
      BY <2>1
    <3>2. PICK r \in approved : r.requester = w[1] /\ w[2] = Boards!Alert("request_approved", r, "decided")
      BY <1>2, <1>3, <3>1
    <3>3. w = answered[r]
      BY <3>1, <3>2
    <3>. QED BY <3>3
  <2>2. ASSUME NEW r \in approved PROVE answered[r] \in InQueue("request_approved")
    <3>1. Boards!Alert("request_approved", r, "decided") \in queue(r.requester)
      BY <1>3
    <3>2. <<r.requester, Boards!Alert("request_approved", r, "decided")>> \in InQueue("request_approved")
      BY <1>2, <1>4, <3>1
    <3>. QED BY <3>2
  <2>. HIDE DEF InQueue, answered
  <2>. QED BY <2>1, <2>2
<1>7. \A r, s \in requests : (asked[r] = asked[s] => r = s) /\ (answered[r] = answered[s] => r = s)
  <2>. HIDE DEF asked, answered
  <2>. QED BY <1>1, <1>2
<1>8. pending \subseteq requests /\ approved \subseteq requests /\ IsFiniteSet(pending) /\ IsFiniteSet(approved)
  BY FS_Subset
<1>. HIDE DEF asked, answered, pending, approved
<1>9. /\ Cardinality({asked[r] : r \in pending}) = Cardinality(pending)
      /\ Cardinality({answered[r] : r \in approved}) = Cardinality(approved)
  BY <1>7, <1>8, ImageCount
<1>. QED BY <1>5, <1>6, <1>9 DEF pending, approved, queue

\* Studies and reports as they are stored: of organisations, dated, with ids of
\* their own.
StoredRows(orgs, studies, reports) ==
    /\ IsFiniteSet(studies) /\ IsFiniteSet(reports)
    /\ \A s \in studies : s.at \in Int /\ s.org \in orgs /\ s.id # Boards!None
    /\ \A s, t \in studies : s.id = t.id => s = t
    /\ \A r \in reports : r.at \in Int /\ r.org \in orgs
    /\ \A s \in studies, r \in reports : s.id # r.id
    /\ Boards!None \notin {r.id : r \in reports} /\ Boards!None \notin orgs

\* Whatever the rows: the study an organisation is shown as working on is one
\* of its own with a need short of publication and in nobody's archive, its
\* latest report is in its archive, and the archive of the kingdom is that of
\* the organisations.  (getOverview, ArchiveService.list)
THEOREM ArchiveMeetsOverview ==
    ASSUME NEW orgs, NEW studies, NEW needs, NEW reports, NEW requests, StoredRows(orgs, studies, reports)
    PROVE  LET rows == Boards!getOverview(orgs, studies, needs, reports, requests).rows
               archive(o) == Boards!ArchiveList(studies, needs, reports, {"released", "archived"}, o)
           IN  /\ \A o \in orgs :
                     /\ rows[o].activeStudy \notin archive(Boards!None)
                     /\ rows[o].activeStudy # Boards!None =>
                           \E s \in studies : s.id = rows[o].activeStudy /\ s.org = o /\ Boards!Open(s, needs)
                     /\ rows[o].activeStudy = Boards!None =>
                           \A s \in studies : s.org = o => ~Boards!Open(s, needs)
                     /\ rows[o].latestReport \in archive(o) \cup {Boards!None}
               /\ \A s \in studies : Boards!Open(s, needs) => s.id \notin archive(Boards!None)
               /\ \A i : i \in archive(Boards!None) <=> \E o \in orgs : i \in archive(o)
<1>. DEFINE rows == Boards!getOverview(orgs, studies, needs, reports, requests).rows
            archive(o) == Boards!ArchiveList(studies, needs, reports, {"released", "archived"}, o)
            working(o) == {s \in studies : s.org = o /\ Boards!Open(s, needs)}
            out(o) == {r \in reports : r.org = o /\ r.status \in {"released", "archived"}}
<1>. USE DEF StoredRows
<1>1. ASSUME NEW o \in orgs
      PROVE  rows[o].activeStudy = Boards!LatestOf(working(o)) /\ rows[o].latestReport = Boards!LatestOf(out(o))
  BY DEF Boards!getOverview
<1>2. ASSUME NEW o, NEW i
      PROVE  i \in archive(o) <=>
               \/ \E s \in studies : s.id = i /\ o \in {Boards!None, s.org} /\ Boards!Completed(s, needs)
               \/ \E r \in reports : r.id = i /\ o \in {Boards!None, r.org} /\ r.status \in {"released", "archived"}
  BY DEF Boards!ArchiveList
<1>3. \A s \in studies : Boards!Completed(s, needs) => ~Boards!Open(s, needs)
  BY DEF Boards!Completed
<1>. HIDE DEF rows, archive
<1>4. \A s \in studies : Boards!Open(s, needs) => s.id \notin archive(Boards!None)
  BY <1>2, <1>3
<1>5. ASSUME NEW o \in orgs
      PROVE  /\ rows[o].activeStudy # Boards!None =>
                   \E s \in studies : s.id = rows[o].activeStudy /\ s.org = o /\ Boards!Open(s, needs)
             /\ rows[o].activeStudy = Boards!None =>
                   \A s \in studies : s.org = o => ~Boards!Open(s, needs)
  <2>. DEFINE W == working(o)
  <2>1. IsFiniteSet(W) /\ (\A s \in W : s.at \in Int) /\ rows[o].activeStudy = Boards!LatestOf(W)
    BY <1>1, FS_Subset
  <2>2. \A s : s \in W <=> s \in studies /\ s.org = o /\ Boards!Open(s, needs)
    OBVIOUS
  <2>. HIDE DEF W
  <2>3. /\ W = {} => rows[o].activeStudy = Boards!None
        /\ W # {} => \E s \in W : rows[o].activeStudy = s.id
    BY <2>1, LatestIsOne
  <2>4. CASE W = {}
    BY <1>2, <2>2, <2>3, <2>4
  <2>5. CASE W # {}
    BY <2>2, <2>3, <2>5
  <2>. QED BY <2>4, <2>5
<1>6. ASSUME NEW o \in orgs PROVE rows[o].activeStudy \notin archive(Boards!None)
  <2>1. CASE rows[o].activeStudy = Boards!None
    BY <1>2, <2>1
  <2>2. CASE rows[o].activeStudy # Boards!None
    BY <1>4, <1>5, <2>2
  <2>. QED BY <2>1, <2>2
<1>7. ASSUME NEW o \in orgs PROVE rows[o].latestReport \in archive(o) \cup {Boards!None}
  <2>. DEFINE R == out(o)
  <2>1. IsFiniteSet(R) /\ (\A r \in R : r.at \in Int) /\ rows[o].latestReport = Boards!LatestOf(R)
    BY <1>1, FS_Subset
  <2>2. \A r \in R : r \in reports /\ r.org = o /\ r.status \in {"released", "archived"}
    OBVIOUS
  <2>. HIDE DEF R
  <2>3. rows[o].latestReport = Boards!None \/ \E r \in R : rows[o].latestReport = r.id
    BY <2>1, LatestIsOne
  <2>. QED BY <1>2, <2>2, <2>3
<1>8. \A i : i \in archive(Boards!None) <=> \E o \in orgs : i \in archive(o)
  <2>1. ASSUME NEW i, i \in archive(Boards!None) PROVE \E o \in orgs : i \in archive(o)
    BY <1>2, <2>1
  <2>2. ASSUME NEW i, NEW o \in orgs, i \in archive(o) PROVE i \in archive(Boards!None)
    BY <1>2, <2>2
  <2>. QED BY <2>1, <2>2
<1>. QED BY <1>4, <1>5, <1>6, <1>7, <1>8 DEF rows, archive

\* The overview of every input reconciles.  (getOverview, ArchiveService.list,
\* listAlerts)
LEMMA OverviewAgrees ==
    ASSUME NEW x \in OverviewInputs
    PROVE  OverviewReconciles(x, Overview(x))
<1>. DEFINE orgs == {"o1", "o2"}
            studies == StudiesOf(x)
            needs == NeedsOf(x)
            reports == ReportsOf(x)
            requests == RequestsOf(x)
            rows == Boards!getOverview(orgs, studies, needs, reports, requests).rows
            archive(o) == Boards!ArchiveList(studies, needs, reports, {"released", "archived"}, o)
            queue(o) == Boards!toAlerts(requests, o)
            Queued(kind) == Cardinality({w \in orgs \X UNION {queue(p) : p \in orgs} :
                                            w[2] \in queue(w[1]) /\ w[2].kind = kind})
            open == {s \in studies : Boards!Open(s, needs)}
            t1 == [id |-> "t1", org |-> "o1", status |-> x.study["t1"], at |-> 1]
            t2 == [id |-> "t2", org |-> "o2", status |-> x.study["t2"], at |-> 2]
            a == [id |-> "a", owner |-> x.requests[1].owner, status |-> x.requests[1].status,
                  requester |-> IF x.requests[1].owner = "o1" THEN "o2" ELSE "o1", at |-> 1]
            b == [id |-> "b", owner |-> x.requests[2].owner, status |-> x.requests[2].status,
                  requester |-> IF x.requests[2].owner = "o1" THEN "o2" ELSE "o1", at |-> 2]
            r1 == [id |-> "r1", org |-> "o1", status |-> x.report, at |-> 1]
<1>1. /\ \A i \in 1..2 : x.requests[i] \in Requests
      /\ \A n \in DOMAIN x.needs : x.needs[n].study \in {"t1", "t2"}
  <2>1. /\ x.requests \in [1..2 -> Requests]
        /\ x.needs \in UNION {[K -> [study : {"t1", "t2"}, status : {"approved", "survey_published"}]] :
                                  K \in SUBSET {"n1", "n2"}}
    BY DEF OverviewInputs
  <2>2. PICK K : x.needs \in [K -> [study : {"t1", "t2"}, status : {"approved", "survey_published"}]]
    BY <2>1
  <2>. QED BY <2>1, <2>2
<1>2. studies = {t1, t2}
  BY DEF StudiesOf
<1>3. requests = {a, b}
  <2>1. 1..2 = {1, 2}
    OBVIOUS
  <2>. QED BY <2>1 DEF RequestsOf
<1>4. reports = {r1}
  BY DEF ReportsOf
<1>5. x.requests[1].owner \in orgs /\ x.requests[2].owner \in orgs
  BY <1>1 DEF Requests
<1>6. Boards!None = "none"
  BY DEF Boards!None
<1>7. IsFiniteSet(studies) /\ IsFiniteSet(requests) /\ IsFiniteSet(reports)
  <2>. HIDE DEF t1, t2, a, b, r1, studies, requests, reports
  <2>1. IsFiniteSet({t1}) /\ IsFiniteSet({a}) /\ IsFiniteSet({r1})
    BY FS_Singleton
  <2>2. IsFiniteSet({t1} \cup {t2}) /\ IsFiniteSet({a} \cup {b})
    BY <2>1, FS_AddElement
  <2>3. studies = {t1} \cup {t2} /\ requests = {a} \cup {b}
    BY <1>2, <1>3
  <2>. QED BY <1>4, <2>1, <2>2, <2>3
<1>8. /\ \A s \in studies : s.at \in Int /\ s.org \in orgs /\ s.id # Boards!None
      /\ \A s, t \in studies : s.id = t.id => s = t
      /\ \A s, t \in studies : s.org = t.org => s = t
      /\ \A s \in studies : s.id \in {"t1", "t2"}
      /\ \A i \in {"t1", "t2"} : \E s \in studies : s.id = i
  BY <1>2, <1>6
<1>9. /\ \A r \in reports : r.at \in Int /\ r.org \in orgs
      /\ \A s \in studies, r \in reports : s.id # r.id
      /\ Boards!None \notin {r.id : r \in reports} /\ Boards!None \notin orgs
  BY <1>2, <1>4, <1>6
<1>10. /\ \A r, s \in requests : r.id = s.id => r = s
       /\ \A r \in requests : r.owner \in orgs /\ r.requester \in orgs
  BY <1>3, <1>5
<1>11. \A r \in requests : \E i \in 1..2 : <<"a", "b">>[i] = r.id /\ x.requests[i].owner = r.owner
  <2>1. /\ <<"a", "b">>[1] = "a" /\ <<"a", "b">>[2] = "b" /\ 1 \in 1..2 /\ 2 \in 1..2
    OBVIOUS
  <2>. QED BY <1>3, <2>1
<1>12. \A n \in DOMAIN x.needs : /\ x.needs[n].study \in {"t1", "t2"}
                                 /\ \E m \in needs : m.study = x.needs[n].study /\ m.status = x.needs[n].status
  <2>1. ASSUME NEW n \in DOMAIN x.needs
        PROVE  [study |-> x.needs[n].study, status |-> x.needs[n].status] \in needs
    BY DEF NeedsOf
  <2>2. \A n : LET m == [study |-> x.needs[n].study, status |-> x.needs[n].status]
               IN  m.study = x.needs[n].study /\ m.status = x.needs[n].status
    OBVIOUS
  <2>. HIDE DEF needs
  <2>. QED BY <1>1, <2>1, <2>2
<1>. HIDE DEF orgs, studies, needs, reports, requests
<1>13. /\ Queued("request_created") = Cardinality({r \in requests : r.status = "pending"})
       /\ Queued("request_approved") = Cardinality({r \in requests : r.status = "approved"})
  BY <1>7, <1>10, QueuesHoldRequests
<1>14. /\ \A o \in orgs :
             /\ rows[o].activeStudy \notin archive(Boards!None)
             /\ rows[o].activeStudy # Boards!None =>
                   \E s \in studies : s.id = rows[o].activeStudy /\ s.org = o /\ Boards!Open(s, needs)
             /\ rows[o].activeStudy = Boards!None =>
                   \A s \in studies : s.org = o => ~Boards!Open(s, needs)
             /\ rows[o].latestReport \in archive(o) \cup {Boards!None}
       /\ \A s \in studies : Boards!Open(s, needs) => s.id \notin archive(Boards!None)
       /\ \A i : i \in archive(Boards!None) <=> \E o \in orgs : i \in archive(o)
  <2>1. StoredRows(orgs, studies, reports)
    BY <1>7, <1>8, <1>9 DEF StoredRows
  <2>. QED BY <2>1, ArchiveMeetsOverview
<1>15. /\ Boards!getOverview(orgs, studies, needs, reports, requests).studiesInProgress = Cardinality(open)
       /\ Boards!getOverview(orgs, studies, needs, reports, requests).pendingSharingRequests
             = Cardinality({r \in requests : r.status = "pending"})
       /\ Boards!getOverview(orgs, studies, needs, reports, requests).reportsShared
             = Cardinality({r \in requests : r.status = "approved"})
  BY DEF Boards!getOverview, Boards!Cardinality, Cardinality
<1>16. \A o, e : e \in queue(o) /\ e.kind = "request_created" =>
                    \E r \in requests : r.owner = o /\ e.of = r.id
  BY DEF Boards!toAlerts, Boards!Alert
<1>. HIDE DEF rows, archive, queue
<1>17. Cardinality(open) = Cardinality({o \in orgs : rows[o].activeStudy # Boards!None})
  <2>. DEFINE org == [s \in open |-> s.org]
  <2>1. open \subseteq studies /\ IsFiniteSet(open)
    BY <1>7, FS_Subset
  <2>2. \A s, t \in open : org[s] = org[t] => s = t
    BY <1>8
  <2>3. {org[s] : s \in open} = {o \in orgs : rows[o].activeStudy # Boards!None}
    <3>1. ASSUME NEW s \in open PROVE org[s] \in orgs /\ rows[org[s]].activeStudy # Boards!None
      BY <1>8, <1>14
    <3>2. ASSUME NEW o \in orgs, rows[o].activeStudy # Boards!None PROVE \E s \in open : org[s] = o
      BY <1>14, <3>2
    <3>. HIDE DEF org
    <3>. QED BY <3>1, <3>2
  <2>. HIDE DEF org, open
  <2>4. Cardinality({org[s] : s \in open}) = Cardinality(open)
    BY <2>1, <2>2, ImageCount
  <2>. QED BY <2>3, <2>4
<1>18. ASSUME NEW n \in DOMAIN x.needs, x.needs[n].status = "approved"
       PROVE  /\ x.needs[n].study \notin archive(Boards!None)
              /\ x.needs[n].study \in {rows[o].activeStudy : o \in orgs}
  <2>1. PICK s \in studies : s.id = x.needs[n].study
    BY <1>8, <1>12
  <2>2. Boards!Open(s, needs)
    BY <1>12, <1>18, <2>1 DEF Boards!Open
  <2>3. s.org \in orgs /\ rows[s.org].activeStudy # Boards!None
    BY <1>8, <1>14, <2>2
  <2>4. PICK t \in studies : t.id = rows[s.org].activeStudy /\ t.org = s.org
    BY <1>14, <2>3
  <2>5. t = s
    BY <1>8, <2>4
  <2>. QED BY <1>14, <2>1, <2>2, <2>3, <2>4, <2>5
<1>19. \A o \in orgs : \A e \in queue(o) :
          e.kind = "request_created" => \E i \in 1..2 : <<"a", "b">>[i] = e.of /\ x.requests[i].owner = o
  BY <1>11, <1>16
<1>. QED
  <2>. DEFINE r == Overview(x)
  <2>1. /\ r.overview = Boards!getOverview(orgs, studies, needs, reports, requests)
        /\ r.overview.rows = rows
        /\ r.archive[Boards!None] = archive(Boards!None)
        /\ \A o \in orgs : r.archive[o] = archive(o) /\ r.queue[o] = queue(o)
    BY DEF Overview, orgs, studies, needs, reports, requests, rows, archive, queue
  <2>. HIDE DEF r
  <2>2. UNION {r.queue[p] : p \in orgs} = UNION {queue(p) : p \in orgs}
    BY <2>1
  <2>3. \A kind : {w \in orgs \X UNION {r.queue[p] : p \in orgs} : w[2] \in r.queue[w[1]] /\ w[2].kind = kind}
                     = {w \in orgs \X UNION {queue(p) : p \in orgs} : w[2] \in queue(w[1]) /\ w[2].kind = kind}
    BY <2>1, <2>2
  <2>4. orgs = {"o1", "o2"}
    BY DEF orgs
  <2>. USE <2>1, <2>4
  <2>5. \A o \in orgs : rows[o].activeStudy \notin archive(Boards!None)
                        /\ rows[o].latestReport \in archive(o) \cup {Boards!None}
    BY <1>14
  <2>6. r.archive[Boards!None] = r.archive["o1"] \cup r.archive["o2"]
    BY <1>14
  <2>7. /\ r.overview.pendingSharingRequests
              = Cardinality({w \in orgs \X UNION {r.queue[p] : p \in orgs} :
                                w[2] \in r.queue[w[1]] /\ w[2].kind = "request_created"})
        /\ r.overview.reportsShared
              = Cardinality({w \in orgs \X UNION {r.queue[p] : p \in orgs} :
                                w[2] \in r.queue[w[1]] /\ w[2].kind = "request_approved"})
    BY <1>13, <1>15, <2>3
  <2>8. r.overview.studiesInProgress = Cardinality({o \in orgs : rows[o].activeStudy # Boards!None})
    BY <1>15, <1>17
  <2>. QED BY <1>18, <1>19, <2>5, <2>6, <2>7, <2>8 DEF OverviewReconciles, r

-----------------------------------------------------------------------------
(***************************************************************************)
(* The organisation's dashboard                                            *)
(***************************************************************************)
\* Severities add up to a number, the one that a survey is held against.
\* (buildComparisonBand)
LEMMA SeveritiesAddUp ==
    ASSUME NEW n \in Nat, NEW top, DOMAIN top = 1..n, \A i \in 1..n : top[i].severity \in Int
    PROVE  /\ Added(top) \in Int
           /\ \A index : Reports!IndexRow(index, top)
                 = IF index = Reports!Null \/ top = <<>> THEN {}
                   ELSE {Reports!Compared(index, Added(top) \div Len(top))}
<1>. DEFINE S == DOMAIN top
            c == [s \in SUBSET S |-> Max(s)]
            e == [i \in S |-> top[i].severity]
            Adds(g, s) == IF s = {} THEN 0 ELSE g[s \ {Max(s)}] + top[Max(s)].severity
            fold == CHOOSE g : g = [s \in SUBSET S |-> Adds(g, s)]
<1>1. IsFiniteSet(S) /\ S \in SUBSET Int
  BY FS_Interval
<1>2. ASSUME NEW s \in SUBSET S, s # {} PROVE Max(s) \in s
  <2>1. Scoring!Max(s) \in s
    BY <1>2, LargestOf
  <2>. QED BY <2>1 DEF Scoring!Max, Max
<1>3. Chooses(c, S) /\ \A i \in S : e[i] \in Int
  BY <1>2 DEF Chooses
<1>4. ASSUME NEW g, NEW s \in SUBSET S, s = {} \/ g[s \ {Max(s)}] \in Int
      PROVE  Adds(g, s) = Step(e, c, g, s) /\ Adds(g, s) \in Int
  BY <1>2, <1>4 DEF Step
<1>5. \E g : g = [s \in SUBSET S |-> Adds(g, s)]
  <2>. HIDE DEF c, e
  <2>1. PICK g : IsFold(g, e, c, S)
    BY <1>1, <1>3, FoldExists
  <2>2. \A s \in SUBSET S : g[s] \in Int
    BY <1>1, <1>3, <2>1, FoldIsANumber
  <2>3. \A s \in SUBSET S : Adds(g, s) = Step(e, c, g, s)
    BY <1>2, <1>4, <2>2
  <2>. HIDE DEF Adds, S
  <2>. QED BY <2>1, <2>3 DEF IsFold
<1>6. fold = [s \in SUBSET S |-> Adds(fold, s)]
  <2>. HIDE DEF Adds, S
  <2>. QED BY <1>5
<1>7. fold[S] \in Int
  <2>1. ASSUME NEW s \in SUBSET S, s = {} \/ fold[s \ {c[s]}] \in Int PROVE fold[s] \in Int
    <3>1. c[s] = Max(s)
      OBVIOUS
    <3>. HIDE DEF c, fold, S, e
    <3>2. fold[s] = Adds(fold, s)
      <4>. HIDE DEF Adds
      <4>. QED BY <1>6
    <3>3. Adds(fold, s) \in Int
      <4>. HIDE DEF Adds
      <4>. QED BY <1>4, <2>1, <3>1
    <3>. QED BY <3>2, <3>3
  <2>. HIDE DEF e, fold
  <2>. HIDE DEF c, S
  <2>. QED BY <1>1, <1>3, <2>1, FoldStays
<1>8. Added(top) = fold[S]
  BY DEF Added, FoldLeft, MapThenFoldSet
<1>9. \A index : Reports!IndexRow(index, top)
                 = IF index = Reports!Null \/ top = <<>> THEN {}
                   ELSE {Reports!Compared(index, fold[S] \div Len(top))}
  BY DEF Reports!IndexRow, Reports!FoldLeft, Reports!MapThenFoldSet, Reports!Max, Max
<1>. HIDE DEF fold, S
<1>. QED BY <1>7, <1>8, <1>9

\* e goes before f on the dashboard.
Sooner(e, f) ==
    \/ Reports!LevelRank(e.level) < Reports!LevelRank(f.level)
    \/ Reports!LevelRank(e.level) = Reports!LevelRank(f.level) /\ e.severity > f.severity

\* Whatever the needs of an organisation: the five that its dashboard puts on
\* top are different, each as urgent as those after it, and none that is left
\* out is more urgent than one of them.  (getCollectiveDashboard)
THEOREM MostUrgentFirst ==
    ASSUME NEW entries, IsFiniteSet(entries), \A e \in entries : e.severity \in Int
    PROVE  LET top == Reports!topPriorities(entries)
               k == Lesser(Cardinality(entries), 5)
           IN  /\ Sized(top, k, entries)
               /\ \A i, j \in 1..k : i < j => top[i] # top[j] /\ ~Sooner(top[j], top[i])
               /\ \A e \in entries : \/ \E i \in 1..k : top[i] = e
                                     \/ k = 5 /\ \A i \in 1..k : ~Sooner(e, top[i])
<1>. DEFINE before == {p \in entries \X entries : Sooner(p[1], p[2])}
            r == Ranked(entries, before)
            n == Cardinality(entries)
            k == Lesser(n, 5)
            top == Leading(r, 5)
<1>1. \A level : Reports!LevelRank(level) \in Int
  BY DEF Reports!LevelRank
<1>2. Strict(before, entries)
  <2>1. \A e, f, g \in entries : ~Sooner(e, e) /\ (Sooner(e, f) /\ Sooner(f, g) => Sooner(e, g))
    BY <1>1 DEF Sooner
  <2>. QED BY <2>1 DEF Strict
<1>3. \A e, f \in entries : <<e, f>> \in before <=> Sooner(e, f)
  OBVIOUS
<1>4. Reports!topPriorities(entries) = top
  <2>1. Reports!topPriorities(entries) = Reports!Leading(Reports!Ranked(entries, before), 5)
    BY DEF Reports!topPriorities, Sooner
  <2>. HIDE DEF before
  <2>2. Reports!Ranked(entries, before) = r
    BY DEF Reports!Ranked, Ranked, Reports!Cardinality, Cardinality
  <2>. HIDE DEF r
  <2>3. Reports!Leading(r, 5) = top
    BY DEF Reports!Leading, Leading
  <2>. QED BY <2>1, <2>2, <2>3
<1>. HIDE DEF before
<1>5. InOrder(r, entries, before) /\ \A e \in entries : \E i \in 1..n : r[i] = e
  BY <1>2, RankedInOrder
<1>6. n \in Nat
  BY FS_CardinalityType
<1>7. /\ r \in [1..n -> entries]
      /\ \A i, j \in 1..n : i < j => r[i] # r[j] /\ <<r[j], r[i]>> \notin before
  BY <1>5 DEF InOrder
<1>. HIDE DEF r, n
<1>8. Sized(r, n, entries)
  BY <1>6, <1>7 DEF Sized
<1>9. Sized(top, k, entries) /\ \A i \in 1..k : i \in 1..n /\ top[i] = r[i]
  BY <1>8, LeadingOf
<1>10. k \in Nat /\ (n <= k \/ k = 5)
  BY <1>6 DEF Lesser
<1>. HIDE DEF top, k
<1>11. ASSUME NEW i \in 1..k, NEW j \in 1..k, i < j
       PROVE  top[i] # top[j] /\ ~Sooner(top[j], top[i])
  <2>1. /\ top[i] = r[i] /\ top[j] = r[j] /\ i \in 1..n /\ j \in 1..n
    BY <1>9
  <2>. QED BY <1>3, <1>7, <1>11, <2>1
<1>12. ASSUME NEW e \in entries
       PROVE  \/ \E i \in 1..k : top[i] = e
              \/ k = 5 /\ \A i \in 1..k : ~Sooner(e, top[i])
  <2>1. PICK m \in 1..n : r[m] = e
    BY <1>5
  <2>2. CASE m \in 1..k
    BY <1>9, <2>1, <2>2
  <2>3. CASE m \notin 1..k
    <3>1. k = 5
      BY <1>6, <1>10, <2>1, <2>3
    <3>2. ASSUME NEW i \in 1..k PROVE ~Sooner(e, top[i])
      <4>1. i \in 1..n /\ top[i] = r[i] /\ i < m
        BY <1>6, <1>9, <1>10, <2>1, <2>3
      <4>. QED BY <1>3, <1>7, <2>1, <4>1
    <3>. QED BY <3>1, <3>2
  <2>. QED BY <2>2, <2>3
<1>. QED BY <1>4, <1>9, <1>11, <1>12 DEF k, n

\* What the dashboard shows of a need follows from its severities: critical
\* below the threshold of a critical domain, else by how severe it is.
\* (listForOrg, computeVillagePriority)
LEMMA EntryFits ==
    ASSUME NEW x \in BoardInputs, NEW n \in {"n1", "n2", "n3"}
    PROVE  LET e == Entry(x, n)
               failing == x.villages[n].d1 > 70
           IN  /\ e.need = n /\ e.severity \in 0..100
               /\ e.level \in {"critical", "high", "medium", "low"}
               /\ (e.level = "critical") = failing
               /\ ~failing => /\ (e.level = "high") = (e.severity >= 60)
                              /\ (e.level = "low") = (e.severity < 30)
<1>. DEFINE v == x.villages[n]
            domains == DomainsIn(v)
            c1 == [domain |-> "d1", weight |-> 1, critical |-> TRUE, threshold |-> 30]
            c2 == [domain |-> "d2", weight |-> 1, critical |-> FALSE, threshold |-> 0]
            S == Reports!Components(BoardConfigs, domains)
            score == Reports!PriorityScore(BoardConfigs, domains)
            level == Reports!ShownLevel(BoardConfigs, domains)
<1>1. v.d1 \in {0, 50, 80} /\ v.d2 \in {Null, 0, 90}
  <2>1. x.villages \in [{"n1", "n2", "n3"} -> Villages]
    BY DEF BoardInputs
  <2>2. v \in Villages
    BY <2>1
  <2>. HIDE DEF v
  <2>. QED BY <2>2 DEF Villages
<1>. HIDE DEF v
<1>2. /\ DOMAIN domains = {"d1", "d2"}
      /\ domains["d1"].severity = v.d1 /\ domains["d2"].severity = v.d2
  <2>1. v["d1"] = v.d1 /\ v["d2"] = v.d2
    OBVIOUS
  <2>. QED BY <2>1 DEF DomainsIn
<1>. HIDE DEF domains
<1>3. BoardConfigs = {c1, c2}
  BY DEF BoardConfigs
<1>4. Null \notin Int \/ Null < 0
  BY DEF Null, Reports!Null
<1>5. c1 \in S /\ \A c \in S : /\ c \in {c1, c2} /\ c.weight \in Nat \ {0}
                               /\ Reports!Performance(domains, c.domain) \in 0..100
  BY <1>1, <1>2, <1>3 DEF Reports!Components, Reports!Performance, Null, Reports!Null
<1>6. Reports!Overridden(BoardConfigs, domains) <=> v.d1 > 70
  <2>1. \A c \in S : c.critical => c = c1
    BY <1>5
  <2>2. Reports!Performance(domains, c1.domain) = 100 - v.d1
    BY <1>2 DEF Reports!Performance
  <2>3. c1.critical /\ c1.threshold = 30
    OBVIOUS
  <2>4. 100 - v.d1 < 30 <=> v.d1 > 70
    BY <1>1
  <2>. HIDE DEF S, c1
  <2>. QED BY <1>5, <2>1, <2>2, <2>3, <2>4 DEF Reports!Overridden, S
<1>7. score \in 0..100
  <2>1. IsFiniteSet({c1} \cup {c2})
    BY FS_Singleton, FS_Union
  <2>2. IsFiniteSet(BoardConfigs) /\ \A c \in BoardConfigs : c.weight \in Nat \ {0}
    BY <1>3, <2>1
  <2>. DEFINE lo == 0
              hi == 100
  <2>3. /\ lo \in Int /\ hi \in Int /\ S # {}
        /\ \A c \in Reports!Components(BoardConfigs, domains) : Reports!Performance(domains, c.domain) \in lo..hi
    BY <1>5
  <2>. HIDE DEF lo, hi
  <2>4. score \in lo..hi
    BY <2>2, <2>3, PriorityWithin
  <2>. QED BY <2>4 DEF lo, hi
<1>8. CASE v.d1 > 70
  <2>1. level = "critical"
    BY <1>6, <1>8 DEF Reports!ShownLevel
  <2>. HIDE DEF score, level
  <2>. QED BY <1>7, <1>8, <2>1 DEF Entry, v, domains, score, level
<1>9. CASE ~(v.d1 > 70)
  <2>1. level = [HIGH |-> "high", MEDIUM |-> "medium", LOW |-> "low"][
                    Reports!computeVillagePriority(BoardConfigs, domains)]
    BY <1>6, <1>9 DEF Reports!ShownLevel
  <2>2. Reports!computeVillagePriority(BoardConfigs, domains)
          = IF score <= 40 THEN "HIGH" ELSE IF score <= 70 THEN "MEDIUM" ELSE "LOW"
    BY <1>6, <1>9 DEF Reports!computeVillagePriority
  <2>. HIDE DEF score, level
  <2>3. level = IF score <= 40 THEN "high" ELSE IF score <= 70 THEN "medium" ELSE "low"
    BY <2>1, <2>2
  <2>4. /\ level \in {"high", "medium", "low"} /\ 100 - score \in 0..100
        /\ (level = "high") = (100 - score >= 60) /\ (level = "low") = (100 - score < 30)
    BY <1>7, <2>3
  <2>. QED BY <1>9, <2>4 DEF Entry, v, domains, score, level
<1>. QED BY <1>8, <1>9 DEF v

\* The dashboard of every input puts the most urgent first, its bands are
\* those of its needs, and the survey and the advice follow from it.
\* (getCollectiveDashboard, buildComparisonBand, buildCollectiveNarrative)
LEMMA BoardIsUrgentFirst ==
    ASSUME NEW x \in BoardInputs
    PROVE  UrgentFirst(x, Board(x))
<1>. DEFINE N == {"n1", "n2", "n3"}
            entry == [n \in N |-> Entry(x, n)]
            entries == {entry[n] : n \in N}
            quality == {[confidence |-> IF x.low THEN "low" ELSE "standard", duplicate |-> FALSE]}
            board == Reports!getCollectiveDashboard(DOMAIN x.villages, entries, quality)
            top == board.topPriorities
            share == board.scoringDistribution
            k == Lesser(Cardinality(entries), 5)
            Failing(e) == x.villages[e.need].d1 > 70
            In(b) == {e \in entries : Reports!BandOf(e.level) = b}
            pct == IF x.overdue THEN 50 ELSE 100
            r == Board(x)
<1>1. DOMAIN x.villages = N
  BY DEF BoardInputs
<1>2. \A n \in N : entry[n] = Entry(x, n)
  OBVIOUS
<1>3. \A n \in N :
         /\ entry[n].need = n
         /\ entry[n].severity \in 0..100
         /\ entry[n].level \in {"critical", "high", "medium", "low"}
         /\ (entry[n].level = "critical") = Failing(entry[n])
         /\ ~Failing(entry[n]) => /\ (entry[n].level = "high") = (entry[n].severity >= 60)
                                 /\ (entry[n].level = "low") = (entry[n].severity < 30)
  <2>. HIDE DEF entry
  <2>. QED BY <1>2, EntryFits
<1>4. IsFiniteSet(N) /\ Cardinality(N) = 3
  <2>1. IsFiniteSet({"n1"}) /\ Cardinality({"n1"}) = 1
    BY FS_Singleton
  <2>2. IsFiniteSet({"n1"} \cup {"n2"}) /\ Cardinality({"n1"} \cup {"n2"}) = 2
    BY <2>1, FS_AddElement
  <2>3. IsFiniteSet(({"n1"} \cup {"n2"}) \cup {"n3"}) /\ Cardinality(({"n1"} \cup {"n2"}) \cup {"n3"}) = 3
    BY <2>2, FS_AddElement
  <2>4. N = ({"n1"} \cup {"n2"}) \cup {"n3"}
    OBVIOUS
  <2>. QED BY <2>3, <2>4
<1>. HIDE DEF entry, N
<1>5. IsFiniteSet(entries) /\ Cardinality(entries) = 3
  <2>1. \A m, n \in N : entry[m] = entry[n] => m = n
    BY <1>3
  <2>. QED BY <1>4, <2>1, ImageCount
<1>6. \A e \in entries : /\ e.severity \in 0..100
                         /\ e.level \in {"critical", "high", "medium", "low"}
                         /\ (e.level = "critical") = Failing(e)
                         /\ ~Failing(e) => /\ (e.level = "high") = (e.severity >= 60)
                                           /\ (e.level = "low") = (e.severity < 30)
  BY <1>3
<1>. HIDE DEF entries
<1>7. /\ top = Reports!topPriorities(entries)
      /\ share = Reports!scoringDistribution([e \in entries |-> e.level])
  BY DEF Reports!getCollectiveDashboard
<1>8. k = 3
  BY <1>5 DEF Lesser
<1>9. /\ Sized(top, 3, entries)
      /\ \A i, j \in 1..3 : i < j => top[i] # top[j] /\ ~Sooner(top[j], top[i])
      /\ \A e \in entries : \E i \in 1..3 : top[i] = e
  <2>1. \A e \in entries : e.severity \in Int
    BY <1>6
  <2>. DEFINE t == Reports!topPriorities(entries)
  <2>2. /\ Sized(t, k, entries)
        /\ \A i, j \in 1..k : i < j => t[i] # t[j] /\ ~Sooner(t[j], t[i])
        /\ \A e \in entries : \/ \E i \in 1..k : t[i] = e
                              \/ k = 5 /\ \A i \in 1..k : ~Sooner(e, t[i])
    BY <1>5, <2>1, MostUrgentFirst
  <2>3. top = t
    BY <1>7
  <2>. HIDE DEF k, top, t
  <2>. QED BY <1>8, <2>2, <2>3
<1>10. \A b : IsFiniteSet(In(b)) /\ Cardinality(In(b)) \in Nat
  BY <1>5, FS_Subset, FS_CardinalityType
<1>11. \A b \in {"High", "Medium", "Low"} : share[b] = Cardinality(In(b))
  <2>. DEFINE levels == [e \in entries |-> e.level]
  <2>1. \A e \in entries : levels[e] = e.level
    OBVIOUS
  <2>2. DOMAIN levels = entries
    OBVIOUS
  <2>. HIDE DEF levels, top, share
  <2>3. share = Reports!scoringDistribution(levels)
    BY <1>7 DEF levels
  <2>4. ASSUME NEW b \in {"High", "Medium", "Low"}
        PROVE  share[b] = Cardinality({e \in DOMAIN levels : Reports!BandOf(levels[e]) = b})
    BY <2>3 DEF Reports!scoringDistribution, Reports!Cardinality, Cardinality
  <2>5. ASSUME NEW b
        PROVE  {e \in DOMAIN levels : Reports!BandOf(levels[e]) = b} = In(b)
    BY <2>1, <2>2
  <2>. HIDE DEF In
  <2>. QED BY <2>4, <2>5
<1>. HIDE DEF top, share, k, In, board
<1>12. share["High"] + share["Medium"] + share["Low"] = Cardinality(N)
  <2>1. In("High") \cap In("Medium") = {} /\ (In("High") \cup In("Medium")) \cap In("Low") = {}
    BY DEF In
  <2>2. (In("High") \cup In("Medium")) \cup In("Low") = entries
    BY <1>6 DEF In, Reports!BandOf
  <2>3. /\ IsFiniteSet(In("High")) /\ IsFiniteSet(In("Medium")) /\ IsFiniteSet(In("Low"))
    BY <1>10
  <2>4. /\ IsFiniteSet(In("High") \cup In("Medium"))
        /\ Cardinality(In("High") \cup In("Medium")) = Cardinality(In("High")) + Cardinality(In("Medium"))
    BY <2>1, <2>3, FS_Union, DisjointUnion
  <2>5. Cardinality(entries) = Cardinality(In("High") \cup In("Medium")) + Cardinality(In("Low"))
    BY <2>1, <2>2, <2>3, <2>4, DisjointUnion
  <2>. QED BY <1>4, <1>5, <1>11, <2>4, <2>5
<1>13. top \in [1..3 -> entries] /\ DOMAIN top = 1..3 /\ Len(top) = 3 /\ top # <<>>
  <2>1. top \in [1..3 -> entries]
    BY <1>9 DEF Sized
  <2>2. top \in Seq(entries)
    BY <2>1, SeqDef
  <2>. QED BY <2>1, <2>2
<1>14. \A e \in entries : Reports!BandOf(e.level) = "High" <=> Failing(e) \/ e.severity >= 60
  BY <1>6 DEF Reports!BandOf
<1>15. share["High"] = Cardinality({i \in DOMAIN top : Failing(top[i]) \/ top[i].severity >= 60})
  <2>. DEFINE I == {i \in DOMAIN top : Failing(top[i]) \/ top[i].severity >= 60}
  <2>1. IsFiniteSet(I)
    BY <1>13, FS_Interval, FS_Subset
  <2>2. \A i, j \in I : top[i] = top[j] => i = j
    BY <1>9, <1>13
  <2>3. {top[i] : i \in I} = In("High")
    BY <1>9, <1>13, <1>14 DEF In
  <2>. HIDE DEF I
  <2>4. Cardinality({top[i] : i \in I}) = Cardinality(I)
    BY <2>1, <2>2, ImageCount
  <2>. QED BY <1>11, <2>3, <2>4 DEF I
<1>16. \A i, j \in DOMAIN top : i < j =>
          \/ Failing(top[i]) /\ ~Failing(top[j])
          \/ Failing(top[i]) = Failing(top[j]) /\ top[i].severity >= top[j].severity
  <2>1. ASSUME NEW e \in entries, NEW f \in entries, ~Sooner(f, e)
        PROVE  \/ Failing(e) /\ ~Failing(f)
               \/ Failing(e) = Failing(f) /\ e.severity >= f.severity
    BY <1>6, <2>1, SMTT(60) DEF Sooner, Reports!LevelRank
  <2>. QED BY <1>9, <1>13, <2>1
<1>17. \A c \in Reports!buildComparisonBand(60, 35, 9, 10, board).index :
          (c.direction = "above") = (60 > (Added(top) \div Len(top)) + 3)
  <2>1. Added(top) \in Int /\ Reports!IndexRow(60, top) = {Reports!Compared(60, Added(top) \div Len(top))}
    <3>0. \A e \in entries : e.severity \in Int
      BY <1>6
    <3>1. DOMAIN top = 1..3 /\ \A i \in 1..3 : top[i].severity \in Int
      BY <1>13, <3>0
    <3>2. 60 # Reports!Null
      BY DEF Reports!Null
    <3>. QED BY <1>13, <3>1, <3>2, SeveritiesAddUp
  <2>2. Reports!buildComparisonBand(60, 35, 9, 10, board).index = Reports!IndexRow(60, top)
    BY DEF Reports!buildComparisonBand, top
  <2>3. Added(top) \div Len(top) \in Int
    BY <1>13, <2>1
  <2>4. ASSUME NEW m \in Int
        PROVE  (Reports!Compared(60, m).direction = "above") = (60 > m + 3)
    BY DEF Reports!Compared
  <2>. QED BY <2>1, <2>2, <2>3, <2>4
<1>18. "clear the queue" \in Reports!buildCollectiveNarrative(board, pct) <=> x.overdue
  <2>1. board.needCount = 3
    BY <1>1, <1>4 DEF board, Reports!getCollectiveDashboard, Reports!Cardinality, Cardinality
  <2>2. x.overdue \in BOOLEAN
    BY DEF BoardInputs
  <2>. QED BY <2>1, <2>2 DEF Reports!buildCollectiveNarrative, Reports!Null
<1>. QED
  <2>1. {Entry(x, n) : n \in DOMAIN x.villages} = entries
    BY <1>1, <1>2 DEF entries
  <2>. HIDE DEF pct
  <2>2. /\ r.board = board
        /\ r.advice = Reports!buildCollectiveNarrative(board, pct)
        /\ r.comparison = Reports!buildComparisonBand(60, 35, 9, 10, board)
    BY <2>1 DEF Board, board, pct
  <2>3. top = r.board.topPriorities /\ share = r.board.scoringDistribution
    BY <2>2 DEF top, share
  <2>. HIDE DEF r
  <2>4. /\ r.board.scoringDistribution["High"]
             = Cardinality({i \in DOMAIN r.board.topPriorities :
                              Failing(r.board.topPriorities[i]) \/ r.board.topPriorities[i].severity >= 60})
        /\ r.board.scoringDistribution["High"] + r.board.scoringDistribution["Medium"]
              + r.board.scoringDistribution["Low"] = Cardinality(DOMAIN x.villages)
    BY <1>1, <1>12, <1>15, <2>3
  <2>5. \A i, j \in DOMAIN r.board.topPriorities : i < j =>
           \/ Failing(r.board.topPriorities[i]) /\ ~Failing(r.board.topPriorities[j])
           \/ /\ Failing(r.board.topPriorities[i]) = Failing(r.board.topPriorities[j])
              /\ r.board.topPriorities[i].severity >= r.board.topPriorities[j].severity
    BY <1>16, <2>3
  <2>6. \A c \in r.comparison.index :
           (c.direction = "above") = (60 > (Added(r.board.topPriorities) \div Len(r.board.topPriorities)) + 3)
    BY <1>17, <2>2, <2>3
  <2>7. "clear the queue" \in r.advice <=> x.overdue
    BY <1>18, <2>2, Zenon
  <2>8. UrgentFirst(x, r)
    BY <2>4, <2>5, <2>6, <2>7, Zenon DEF UrgentFirst
  <2>. QED BY <2>8 DEF r

\* The figures of the kingdom-wide report answer for one another on every
\* input.  (buildPriorityOverview, buildCriticalNeeds)
LEMMA ReportAgrees ==
    ASSUME NEW x \in NcnpInputs
    PROVE  LET report == Ncnp!getReport(Db(x), 400, 30, 60)
           IN  /\ Ncnp!VillagesOnce(x.sample, report.overview.priorityOverview)
               /\ Ncnp!NeedsRankedOnce(Surveys, x.sample, Needs, report.criticalNeeds)
<1>. DEFINE report == Ncnp!getReport(Db(x), 400, 30, 60)
            sample == x.sample
            db == Db(x)
            some == {a \in Assessments : (a.score = 30) = (a.status = "HIGH")}
<1>1. sample \in Lists(some, 3)
  BY DEF NcnpInputs
<1>2. PICK n \in 0..3 : sample \in [1..n -> some]
  <2>. HIDE DEF some, sample
  <2>. QED BY <1>1 DEF Lists
<1>3. \A a \in some : a.score \in Int
  <2>. DEFINE parts == {{[domain |-> "d1", performance |-> 20, critical |-> TRUE, override |-> FALSE]}}
  <2>1. Assessments = [survey : {"s1", "s2"}, village : {"", "v1", "v2"}, score : {30, 60},
                       status : {"HIGH", "LOW"}, components : parts]
    BY DEF Assessments
  <2>. HIDE DEF parts
  <2>2. ASSUME NEW a \in Assessments PROVE a.score \in {30, 60}
    BY <2>1, Zenon
  <2>. HIDE DEF Assessments
  <2>3. \A a \in some : a.score \in {30, 60}
    BY <2>2
  <2>. QED BY <2>3
<1>4. n \in Nat /\ DOMAIN sample = 1..n /\ \A i \in 1..n : sample[i].score \in Int
  <2>. HIDE DEF some
  <2>. QED BY <1>2, <1>3
<1>5. IsFiniteSet(Needs) /\ \A a, b \in Needs : a.id = b.id => a = b
  <2>. DEFINE n1 == [id |-> "n1", org |-> "o1", domain |-> "d1", subDomain |-> "x"]
              n2 == [id |-> "n2", org |-> "o2", domain |-> "none", subDomain |-> "none"]
  <2>1. IsFiniteSet({n1} \cup {n2})
    BY FS_Singleton, FS_Union
  <2>2. Needs = {n1} \cup {n2}
    BY DEF Needs
  <2>3. \A a, b \in Needs : a.id = b.id => a = b
    BY DEF Needs
  <2>. QED BY <2>1, <2>2, <2>3
<1>6. db.sample = sample /\ db.needs = Needs /\ db.surveys = Surveys
  BY DEF Db
<1>. HIDE DEF sample, db
<1>7. /\ report.overview.priorityOverview = Ncnp!buildPriorityOverview(sample)
      /\ report.criticalNeeds = Ncnp!buildCriticalNeeds(db.orgs, Needs, Surveys, sample, db.evidence, db.indicators)
  BY <1>6 DEF Ncnp!getReport, Ncnp!Overview, db
<1>. HIDE DEF report
<1>8. Ncnp!VillagesOnce(sample, report.overview.priorityOverview)
  BY <1>4, <1>7, VillagesCountedOnce
<1>9. Ncnp!NeedsRankedOnce(Surveys, sample, Needs, report.criticalNeeds)
  BY <1>4, <1>5, <1>7, NeedsAreRankedOnce
<1>. QED BY <1>8, <1>9 DEF report, sample

\* The figures answer for one another, for every input of the runs: those of the
\* kingdom-wide report, of an organisation's dashboard, of a survey within it,
\* and of the supervisors' overview.  (buildPriorityOverview, buildCriticalNeeds,
\* getCollectiveDashboard, buildPortfolioBlock, getOverview)
THEOREM FiguresReconcileHolds == Spec => []FiguresReconcile
<1>1. ASSUME TablesInv PROVE FiguresReconcile
  <2>1. ASSUME Answered("ncnp")
        PROVE  /\ Ncnp!VillagesOnce(input.sample, Result.overview.priorityOverview)
               /\ Ncnp!NeedsRankedOnce(Surveys, input.sample, Needs, Result.criticalNeeds)
    <3>1. input \in NcnpInputs /\ Result = Ncnp!getReport(Db(input), 400, 30, 60)
      BY <1>1, <2>1 DEF TablesInv, Tells, Answered, Result
    <3>. QED BY <3>1, ReportAgrees
  <2>2. ASSUME Answered("board") PROVE UrgentFirst(input, Result)
    <3>1. input \in BoardInputs /\ Result = Board(input)
      BY <1>1, <2>2 DEF TablesInv, Tells, Answered, Result
    <3>. QED BY <3>1, BoardIsUrgentFirst
  <2>3. ASSUME Answered("portfolio") PROVE SharesAddUp(input, Result)
    <3>1. input \in PortfolioInputs /\ Result = Portfolio(input)
      BY <1>1, <2>3 DEF TablesInv, Tells, Answered, Result
    <3>. QED BY <3>1, PortfolioAddsUp
  <2>4. ASSUME Answered("overview") PROVE OverviewReconciles(input, Result)
    <3>1. input \in OverviewInputs /\ Result = Overview(input)
      BY <1>1, <2>4 DEF TablesInv, Tells, Answered, Result
    <3>. QED BY <3>1, OverviewAgrees
  <2>. QED BY <2>1, <2>2, <2>3, <2>4 DEF FiguresReconcile
<1>. QED BY <1>1, TablesInvInit, TablesInvStep, PTL DEF Spec

=============================================================================
