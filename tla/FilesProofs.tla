----------------------------- MODULE FilesProofs -----------------------------
(***************************************************************************)
(* What is printed can be read back: tables of needs, rows that are        *)
(* imported again, texts in chunks, documents, and the answers of a        *)
(* response.  The readers are left folds, so what they make of a text is   *)
(* led from state to state, character by character.                        *)
(***************************************************************************)
EXTENDS ViewsProofs

-----------------------------------------------------------------------------
(***************************************************************************)
(* Texts.  A reader moves from state to state by its step f, a character   *)
(* at a time.                                                              *)
(***************************************************************************)
\* What begins and is passed on holds all the way.
LEMMA Upwards ==
    ASSUME NEW n \in Nat, NEW G, 0 \in G, \A k \in 1..n : k - 1 \in G => k \in G
    PROVE  \A k \in 0..n : k \in G
<1>. DEFINE B == {k \in 0..n : k \notin G}
<1>1. ASSUME B # {} PROVE FALSE
  <2>1. PICK k \in B : \A j \in B : k <= j
    <3>1. B \in SUBSET Nat
      OBVIOUS
    <3>. QED BY <1>1, <3>1, LeastOf
  <2>2. k \in 1..n /\ k - 1 \in 0..n /\ k - 1 \notin B
    BY <2>1
  <2>. QED BY <2>1, <2>2
<1>. QED BY <1>1

\* The first k of a sequence.
Upto(seq, k) == [i \in 1..k |-> seq[i]]

\* The first k of a sequence: none, all, and of length k.
LEMMA FrontGrows ==
    ASSUME NEW C, NEW n \in Nat, NEW seq \in [1..n -> C]
    PROVE  /\ seq \in Seq(C) /\ Len(seq) = n /\ Upto(seq, 0) = <<>> /\ Upto(seq, n) = seq
           /\ \A k \in 0..n : Upto(seq, k) \in Seq(C) /\ Len(Upto(seq, k)) = k
<1>1. seq \in Seq(C) /\ Len(seq) = n
  BY SeqDef, LenProperties
<1>2. Upto(seq, 0) = <<>>
  BY DEF Upto
<1>3. Upto(seq, n) = seq
  BY DEF Upto
<1>4. ASSUME NEW k \in 0..n PROVE Upto(seq, k) \in Seq(C) /\ Len(Upto(seq, k)) = k
  <2>1. Upto(seq, k) \in [1..k -> C] /\ k \in Nat
    BY DEF Upto
  <2>. QED BY <2>1, SeqDef, LenProperties
<1>. QED BY <1>1, <1>2, <1>3, <1>4

\* One more of the first is appended.
LEMMA FrontAppends ==
    ASSUME NEW C, NEW n \in Nat, NEW seq \in [1..n -> C], NEW k \in 1..n
    PROVE  Upto(seq, k) = Append(Upto(seq, k - 1), seq[k])
<1>1. k - 1 \in 0..n /\ seq[k] \in C /\ k \in 0..n
  OBVIOUS
<1>2. Upto(seq, k - 1) \in Seq(C) /\ Len(Upto(seq, k - 1)) = k - 1
  <2>1. \A j \in 0..n : Upto(seq, j) \in Seq(C) /\ Len(Upto(seq, j)) = j
    BY FrontGrows
  <2>. QED BY <1>1, <2>1
<1>3. /\ Append(Upto(seq, k - 1), seq[k]) \in Seq(C)
      /\ Len(Append(Upto(seq, k - 1), seq[k])) = k
      /\ \A i \in 1..(k - 1) : Append(Upto(seq, k - 1), seq[k])[i] = Upto(seq, k - 1)[i]
      /\ Append(Upto(seq, k - 1), seq[k])[k] = seq[k]
  BY <1>1, <1>2, AppendProperties
<1>4. \A i \in 1..k : Upto(seq, k)[i] = Append(Upto(seq, k - 1), seq[k])[i]
  <2>1. \A i \in 1..(k - 1) : Upto(seq, k - 1)[i] = seq[i]
    BY DEF Upto
  <2>2. \A i \in 1..k : Upto(seq, k)[i] = seq[i]
    BY DEF Upto
  <2>. QED BY <1>3, <2>1, <2>2
<1>5. Upto(seq, k) \in Seq(C) /\ Len(Upto(seq, k)) = k
  <2>1. \A j \in 0..n : Upto(seq, j) \in Seq(C) /\ Len(Upto(seq, j)) = j
    BY FrontGrows
  <2>. QED BY <1>1, <2>1
<1>. QED BY <1>3, <1>4, <1>5, SeqEqual

Leads(f, a, seq, b) ==
    \E st : /\ st[0] = a /\ st[Len(seq)] = b
            /\ \A k \in 1..Len(seq) : st[k] = f[<<st[k - 1], seq[k]>>]

\* Nothing read, nothing changes.
LEMMA LeadsNowhere == ASSUME NEW f, NEW a PROVE Leads(f, a, <<>>, a)
<1>. DEFINE st == [k \in 0..0 |-> a]
<1>1. st[0] = a /\ Len(<<>>) = 0 /\ 1..0 = {}
  OBVIOUS
<1>. HIDE DEF st
<1>. QED BY <1>1 DEF Leads

\* One character is one step.
LEMMA LeadsOnce == ASSUME NEW f, NEW a, NEW c PROVE Leads(f, a, <<c>>, f[<<a, c>>])
<1>. DEFINE st == [k \in 0..1 |-> IF k = 0 THEN a ELSE f[<<a, c>>]]
<1>1. Len(<<c>>) = 1 /\ <<c>>[1] = c
  OBVIOUS
<1>2. st[0] = a /\ st[1] = f[<<a, c>>]
  OBVIOUS
<1>. HIDE DEF st
<1>3. \A k \in 1..1 : st[k] = f[<<st[k - 1], <<c>>[k]>>]
  <2>1. st[1] = f[<<st[1 - 1], <<c>>[1]>>]
    BY <1>1, <1>2
  <2>. QED BY <2>1
<1>. QED BY <1>1, <1>2, <1>3 DEF Leads

\* Where one text leads and another leads on, both together lead.
LEMMA LeadsOn ==
    ASSUME NEW C, NEW s \in Seq(C), NEW t \in Seq(C), NEW f, NEW a, NEW b, NEW c,
           Leads(f, a, s, b), Leads(f, b, t, c)
    PROVE  Leads(f, a, s \o t, c)
<1>1. PICK u : u[0] = a /\ u[Len(s)] = b /\ \A k \in 1..Len(s) : u[k] = f[<<u[k - 1], s[k]>>]
  BY DEF Leads
<1>2. PICK v : v[0] = b /\ v[Len(t)] = c /\ \A k \in 1..Len(t) : v[k] = f[<<v[k - 1], t[k]>>]
  BY DEF Leads
<1>. DEFINE m == Len(s)
            n == Len(t)
            w == [k \in 0..(m + n) |-> IF k <= m THEN u[k] ELSE v[k - m]]
<1>3. m \in Nat /\ n \in Nat
  BY LenProperties
<1>4. /\ Len(s \o t) = m + n
      /\ \A i \in 1..(m + n) : (s \o t)[i] = IF i <= m THEN s[i] ELSE t[i - m]
  BY ConcatProperties
<1>. HIDE DEF m, n
<1>5. w[0] = a
  BY <1>1, <1>3
<1>6. w[m + n] = c
  <2>1. CASE n = 0
    BY <1>1, <1>2, <1>3, <2>1 DEF m, n
  <2>2. CASE n # 0
    <3>1. ~(m + n <= m) /\ m + n \in 0..(m + n) /\ (m + n) - m = n
      BY <1>3, <2>2
    <3>. QED BY <1>2, <3>1 DEF n
  <2>. QED BY <2>1, <2>2
<1>7. ASSUME NEW k \in 1..(m + n) PROVE w[k] = f[<<w[k - 1], (s \o t)[k]>>]
  <2>1. CASE k <= m
    <3>1. k \in 1..m /\ k - 1 <= m /\ k - 1 \in 0..(m + n) /\ k \in 0..(m + n)
      BY <1>3, <2>1
    <3>2. w[k] = u[k] /\ w[k - 1] = u[k - 1]
      BY <2>1, <3>1
    <3>. QED BY <1>1, <1>4, <2>1, <3>1, <3>2 DEF m
  <2>2. CASE ~(k <= m)
    <3>1. k - m \in 1..n /\ k - 1 \in 0..(m + n) /\ k \in 0..(m + n) /\ (k - 1) - m = (k - m) - 1
      BY <1>3, <2>2
    <3>2. w[k] = v[k - m]
      BY <2>2, <3>1
    <3>3. w[k - 1] = v[(k - m) - 1]
      <4>1. CASE k - 1 <= m
        <5>1. k - 1 = m /\ (k - m) - 1 = 0
          BY <1>3, <2>2, <4>1
        <5>. QED BY <1>1, <1>2, <3>1, <4>1, <5>1 DEF m
      <4>2. CASE ~(k - 1 <= m)
        BY <3>1, <4>2
      <4>. QED BY <4>1, <4>2
    <3>. QED BY <1>2, <1>4, <2>2, <3>1, <3>2, <3>3 DEF n
  <2>. QED BY <2>1, <2>2
<1>. HIDE DEF w
<1>. QED BY <1>4, <1>5, <1>6, <1>7, SMTT(60) DEF Leads

\* A flattened sequence of texts is made up text by text.
FlatBy(F, parts, n) == F[0] = <<>> /\ F[n] = FlattenSeq(parts) /\ \A k \in 1..n : F[k] = F[k - 1] \o parts[k]

\* A concatenation of parts grows part by part, one part at least.
LEMMA FlatGrows ==
    ASSUME NEW C, NEW n \in Nat \ {0}, NEW parts \in [1..n -> Seq(C)]
    PROVE  \E F \in [0..n -> Seq(C)] : FlatBy(F, parts, n)
<1>. DEFINE R == Seq(C)
            f == [p \in R \X R |-> p[1] \o p[2]]
<1>1. <<>> \in R /\ f \in [R \X R -> R] /\ parts \in [1..n -> R] /\ n \in Nat
  <2>1. \A p \in R \X R : p[1] \o p[2] \in R
    BY ConcatProperties
  <2>. QED BY <2>1, EmptySeq
<1>2. \A s, t \in R : f[<<s, t>>] = s \o t
  OBVIOUS
<1>3. \A s \in R : <<>> \o s = s
  BY ConcatEmptySeq
<1>. HIDE DEF R, f
<1>4. PICK g \in [SUBSET (1..n) -> R] : Moves(g, f, <<>>, parts, n)
  BY <1>1, FoldRuns
<1>. DEFINE F == [k \in 0..n |-> g[1..k]]
<1>5. \A k \in 0..n : 1..k \in SUBSET (1..n) /\ F[k] = g[1..k] /\ F[k] \in R
  BY <1>1
<1>6. \A s \in SUBSET (1..n) : g[s] = Moved(f, <<>>, parts, g, s)
  BY <1>4 DEF Moves
<1>7. F[0] = <<>>
  <2>1. 1..0 = {} /\ 0 \in 0..n
    BY <1>1
  <2>. QED BY <1>5, <1>6, <2>1 DEF Moved
<1>8. ASSUME NEW k \in 1..n PROVE F[k] = F[k - 1] \o parts[k]
  <2>1. k \in 0..n /\ k - 1 \in 0..n
    BY <1>1
  <2>2. F[k] = f[<<F[k - 1], parts[k]>>]
    BY <1>1, <1>5, <1>6, <2>1, LastPlace DEF Moved
  <2>. QED BY <1>1, <1>2, <1>5, <2>1, <2>2
<1>. HIDE DEF F
<1>9. F[n] = FlattenSeq(parts)
  <2>. DEFINE Op(h, i) == IF i = 1 THEN parts[i] ELSE h[i - 1] \o parts[i]
              G == CHOOSE h : h = [i \in 1..n |-> Op(h, i)]
              H == [i \in 1..n |-> F[i]]
  <2>1. F[1] = parts[1]
    <3>1. 1 \in 1..n /\ 1 - 1 = 0
      BY <1>1
    <3>2. F[1] = F[1 - 1] \o parts[1] /\ parts[1] \in R
      BY <1>1, <1>8, <3>1
    <3>3. F[1] = <<>> \o parts[1]
      BY <1>7, <3>1, <3>2
    <3>. QED BY <1>3, <3>2, <3>3
  <2>2. \A i \in 1..n : i # 1 => i - 1 \in 1..n
    BY <1>1
  <2>3. \A i \in 1..n : H[i] = F[i]
    OBVIOUS
  <2>. HIDE DEF H
  <2>4. H = [i \in 1..n |-> Op(H, i)]
    <3>1. \A i \in 1..n : H[i] = Op(H, i)
      BY <1>8, <2>1, <2>2, <2>3
    <3>2. H = [i \in 1..n |-> H[i]]
      BY <2>3 DEF H
    <3>. HIDE DEF Op
    <3>. QED BY <3>1, <3>2
  <2>5. G = [i \in 1..n |-> Op(G, i)]
    <3>. HIDE DEF Op
    <3>. QED BY <2>4
  <2>6. \A i \in 1..n : G[i] = Op(G, i)
    <3>. HIDE DEF Op, G
    <3>. QED BY <2>5
  <2>7. Len(parts) = n /\ parts # <<>>
    <3>1. Len(parts) = n
      BY <1>1, SeqDef, LenProperties
    <3>. QED BY <1>1, <3>1
  <2>8. FlattenSeq(parts) = G[n]
    BY <1>1, <2>7 DEF FlattenSeq
  <2>. HIDE DEF G
  <2>. DEFINE A == {k \in 0..n : k = 0 \/ G[k] = F[k]}
  <2>9. 0 \in A /\ \A k \in 1..n : k - 1 \in A => k \in A
    <3>1. ASSUME NEW k \in 1..n, k - 1 \in A PROVE G[k] = F[k]
      <4>1. CASE k = 1
        BY <2>1, <2>6, <4>1
      <4>2. CASE k # 1
        <5>1. k - 1 \in 1..n /\ G[k - 1] = F[k - 1]
          BY <2>2, <3>1, <4>2
        <5>2. G[k] = G[k - 1] \o parts[k]
          BY <2>6, <4>2
        <5>. QED BY <1>8, <5>1, <5>2
      <4>. QED BY <4>1, <4>2
    <3>. QED BY <1>1, <3>1
  <2>10. n \in A /\ n # 0
    <3>. HIDE DEF A
    <3>1. \A k \in 0..n : k \in A
      BY <1>1, <2>9, Upwards
    <3>. QED BY <1>1, <3>1
  <2>. QED BY <2>8, <2>10
<1>10. F \in [0..n -> R]
  BY <1>5 DEF F
<1>. QED BY <1>7, <1>8, <1>9, <1>10 DEF R, FlatBy

\* A reader that gets through every part gets through the whole.
LEMMA LeadsFlat ==
    ASSUME NEW C, NEW n \in Nat, NEW parts \in [1..n -> Seq(C)], NEW f, NEW st,
           \A k \in 1..n : Leads(f, st[k - 1], parts[k], st[k])
    PROVE  FlattenSeq(parts) \in Seq(C) /\ Leads(f, st[0], FlattenSeq(parts), st[n])
<1>1. CASE n = 0
  <2>1. parts = <<>> /\ Len(parts) = 0
    BY <1>1
  <2>2. FlattenSeq(parts) = <<>>
    BY <2>1 DEF FlattenSeq
  <2>. QED BY <1>1, <2>2, EmptySeq, LeadsNowhere
<1>2. CASE n # 0
  <2>0. PICK F \in [0..n -> Seq(C)] : FlatBy(F, parts, n)
    BY <1>2, FlatGrows
  <2>1. F[0] = <<>> /\ F[n] = FlattenSeq(parts) /\ \A k \in 1..n : F[k] = F[k - 1] \o parts[k]
    BY <2>0 DEF FlatBy
  <2>. DEFINE A == {k \in 0..n : Leads(f, st[0], F[k], st[k])}
  <2>2. 0 \in A
    BY <2>1, LeadsNowhere
  <2>3. ASSUME NEW k \in 1..n, k - 1 \in A PROVE k \in A
    <3>1. k - 1 \in 0..n /\ k \in 0..n
      OBVIOUS
    <3>2. F[k - 1] \in Seq(C) /\ parts[k] \in Seq(C) /\ F[k] = F[k - 1] \o parts[k]
      BY <2>1, <3>1
    <3>3. Leads(f, st[0], F[k - 1], st[k - 1])
      BY <2>3
    <3>4. Leads(f, st[k - 1], parts[k], st[k])
      OBVIOUS
    <3>5. Leads(f, st[0], F[k - 1] \o parts[k], st[k])
      BY <3>2, <3>3, <3>4, LeadsOn
    <3>. QED BY <3>1, <3>2, <3>5
  <2>4. n \in A
    <3>. HIDE DEF A
    <3>1. \A k \in 1..n : k - 1 \in A => k \in A
      BY <2>3
    <3>2. \A k \in 0..n : k \in A
      BY <2>2, <3>1, Upwards
    <3>. QED BY <3>2
  <2>. QED BY <2>1, <2>4
<1>. QED BY <1>1, <1>2

-----------------------------------------------------------------------------
(***************************************************************************)
(* Trimming                                                                *)
(***************************************************************************)
\* From the first character that is not blank to the last one.
Solid(t) == {i \in 1..Len(t) : t[i] \notin Documents!Blank}

\* A set of places that is not empty has a last one.
LEMMA GreatestOf ==
    ASSUME NEW n \in Nat, NEW s \in SUBSET (1..n), s # {}
    PROVE  \E k \in s : \A j \in s : j <= k
<1>. DEFINE B == {k \in Nat : \A j \in s : j <= k}
<1>1. n \in B /\ B \in SUBSET Nat
  OBVIOUS
<1>2. PICK k \in B : \A j \in B : k <= j
  BY <1>1, LeastOf
<1>3. ASSUME k \notin s PROVE FALSE
  <2>1. PICK i \in s : TRUE
    OBVIOUS
  <2>2. k - 1 \in Nat /\ \A j \in s : j <= k - 1
    BY <1>2, <1>3, <2>1
  <2>. QED BY <1>2, <2>2
<1>. QED BY <1>2, <1>3

\* To trim is to cut from the first to the last that is not blank.
LEMMA TrimCuts ==
    ASSUME NEW C, NEW t \in Seq(C)
    PROVE  IF Solid(t) = {} THEN Documents!Trim(t) = <<>>
           ELSE \E a, b \in Solid(t) : /\ Documents!Trim(t) = SubSeq(t, a, b)
                                       /\ \A i \in Solid(t) : a <= i /\ i <= b
<1>. DEFINE solid == {i \in DOMAIN t : t[i] \notin Documents!Blank}
            lo == CHOOSE i \in solid : \A j \in solid : i <= j
            hi == CHOOSE i \in solid : \A j \in solid : j <= i
<1>1. solid = Solid(t) /\ Len(t) \in Nat
  BY LenProperties DEF Solid
<1>2. Documents!Trim(t) = IF solid = {} THEN <<>> ELSE SubSeq(t, lo, hi)
  BY DEF Documents!Trim
<1>3. ASSUME solid # {} PROVE lo \in solid /\ hi \in solid /\ \A i \in solid : lo <= i /\ i <= hi
  <2>1. solid \in SUBSET Nat /\ solid \in SUBSET Int /\ solid \in SUBSET (1..Len(t))
    BY <1>1 DEF Solid
  <2>2. \E i \in solid : \A j \in solid : i <= j
    <3>. HIDE DEF solid
    <3>. QED BY <1>3, <2>1, LeastOf
  <2>3. \E i \in solid : \A j \in solid : j <= i
    <3>. HIDE DEF solid
    <3>. QED BY <1>1, <1>3, <2>1, GreatestOf
  <2>. HIDE DEF solid
  <2>. QED BY <2>2, <2>3
<1>. HIDE DEF solid
<1>. QED BY <1>1, <1>2, <1>3

\* What is trimmed is a part of the text.
LEMMA TrimIsPart ==
    ASSUME NEW C, NEW t \in Seq(C)
    PROVE  /\ Documents!Trim(t) \in Seq(C)
           /\ Len(Documents!Trim(t)) <= Len(t)
           /\ \A i \in 1..Len(Documents!Trim(t)) : \E j \in 1..Len(t) : Documents!Trim(t)[i] = t[j]
<1>. DEFINE r == Documents!Trim(t)
<1>0. Len(t) \in Nat /\ \A i \in 1..Len(t) : t[i] \in C
  BY LenProperties, ElementOfSeq
<1>1. CASE Solid(t) = {}
  <2>1. r = <<>>
    BY <1>1, TrimCuts
  <2>. QED BY <1>0, <2>1, EmptySeq
<1>2. CASE Solid(t) # {}
  <2>1. PICK a, b \in Solid(t) : r = SubSeq(t, a, b) /\ \A i \in Solid(t) : a <= i /\ i <= b
    BY <1>2, TrimCuts
  <2>2. a \in 1..Len(t) /\ b \in 1..Len(t) /\ a <= b /\ a \in Int /\ b \in Int /\ \A i \in a..b : i \in 1..Len(t)
    BY <1>0, <2>1 DEF Solid
  <2>3. /\ r \in Seq(C) /\ Len(r) = b - a + 1
        /\ \A i \in 1..(b - a + 1) : r[i] = t[a + i - 1]
    BY <1>0, <2>1, <2>2, SubSeqProperties
  <2>4. b - a + 1 <= Len(t) /\ \A i \in 1..(b - a + 1) : a + i - 1 \in 1..Len(t)
    BY <1>0, <2>2
  <2>. HIDE DEF r
  <2>. QED BY <2>3, <2>4 DEF r
<1>. QED BY <1>1, <1>2

\* There is nothing to trim of nothing.
LEMMA TrimEmpty == Documents!Trim(<<>>) = <<>>
  BY DEF Documents!Trim

\* There is nothing left to trim.
LEMMA TrimOnce == ASSUME NEW C, NEW t \in Seq(C) PROVE Documents!Trim(Documents!Trim(t)) = Documents!Trim(t)
<1>. DEFINE r == Documents!Trim(t)
<1>0. Len(t) \in Nat /\ r \in Seq(C) /\ \A i \in 1..Len(t) : t[i] \in C
  BY LenProperties, ElementOfSeq, TrimIsPart
<1>1. CASE Solid(t) = {}
  BY <1>1, TrimCuts, TrimEmpty
<1>2. CASE Solid(t) # {}
  <2>1. PICK a, b \in Solid(t) : r = SubSeq(t, a, b) /\ \A i \in Solid(t) : a <= i /\ i <= b
    BY <1>2, TrimCuts
  <2>2. /\ a \in 1..Len(t) /\ b \in 1..Len(t) /\ a <= b /\ a \in Int /\ b \in Int /\ \A i \in a..b : i \in 1..Len(t)
        /\ t[a] \notin Documents!Blank /\ t[b] \notin Documents!Blank
    BY <1>0, <2>1 DEF Solid
  <2>3. /\ Len(r) = b - a + 1
        /\ \A i \in 1..(b - a + 1) : r[i] = t[a + i - 1]
    BY <1>0, <2>1, <2>2, SubSeqProperties
  <2>4. Len(r) \in 1..Len(t) /\ r[1] = t[a] /\ r[Len(r)] = t[b]
    <3>1. 1 \in 1..(b - a + 1) /\ a + 1 - 1 = a /\ Len(r) \in 1..(b - a + 1) /\ a + Len(r) - 1 = b
      BY <2>2, <2>3
    <3>. HIDE DEF r
    <3>2. r[1] = t[a]
      BY <2>3, <3>1
    <3>3. r[Len(r)] = t[b]
      BY <2>3, <3>1
    <3>. QED BY <1>0, <2>2, <2>3, <3>2, <3>3
  <2>. HIDE DEF r
  <2>5. 1 \in Solid(r) /\ Len(r) \in Solid(r) /\ Solid(r) \subseteq 1..Len(r)
    BY <1>0, <2>2, <2>4 DEF Solid
  <2>6. PICK c, d \in Solid(r) : Documents!Trim(r) = SubSeq(r, c, d) /\ \A i \in Solid(r) : c <= i /\ i <= d
    BY <1>0, <2>5, TrimCuts
  <2>7. c = 1 /\ d = Len(r)
    BY <2>4, <2>5, <2>6
  <2>8. SubSeq(r, 1, Len(r)) = r
    BY <1>0, SubSeqFull
  <2>. QED BY <2>6, <2>7, <2>8 DEF r
<1>. QED BY <1>1, <1>2

-----------------------------------------------------------------------------
(***************************************************************************)
(* Readers are folds                                                       *)
(***************************************************************************)
\* A fold that is a step of f wherever it has led to a state so far leads
\* from its base to its value.
Follows(fold, f, base, seq, n, R) ==
    /\ fold[{}] = base
    /\ \A s \in SUBSET (1..n) : s # {} /\ fold[s \ {Max(s)}] \in R =>
          fold[s] = f[<<fold[s \ {Max(s)}], seq[Max(s)]>>]

\* Such a fold leads from its base to its value.
LEMMA FoldLeads ==
    ASSUME NEW n \in Nat, NEW C, NEW seq \in [1..n -> C], NEW R, NEW base \in R, NEW f \in [R \X C -> R],
           NEW fold, Follows(fold, f, base, seq, n, R)
    PROVE  Leads(f, base, seq, fold[1..n]) /\ fold[1..n] \in R
<1>. DEFINE st == [k \in 0..n |-> fold[1..k]]
            A == {k \in 0..n : st[k] \in R}
<1>1. 0 \in 0..n /\ n \in 0..n /\ 1..0 = {} /\ Len(seq) = n /\ \A k \in 1..n : seq[k] \in C
  BY FrontGrows
<1>2. \A k \in 0..n : st[k] = fold[1..k]
  OBVIOUS
<1>. HIDE DEF st
<1>3. st[0] = base
  BY <1>1, <1>2 DEF Follows
<1>4. ASSUME NEW k \in 1..n, st[k - 1] \in R PROVE st[k] = f[<<st[k - 1], seq[k]>>] /\ st[k] \in R
  <2>1. k - 1 \in 0..n /\ k \in 0..n
    OBVIOUS
  <2>2. 1..k \in SUBSET (1..n) /\ 1..k # {} /\ Max(1..k) = k /\ (1..k) \ {Max(1..k)} = 1..(k - 1)
    BY LastPlace
  <2>3. st[k] = f[<<st[k - 1], seq[k]>>]
    BY <1>2, <1>4, <2>1, <2>2 DEF Follows
  <2>. QED BY <1>1, <1>4, <2>3
<1>5. \A k \in 0..n : k \in A
  <2>1. 0 \in A
    BY <1>1, <1>3
  <2>2. ASSUME NEW k \in 1..n, k - 1 \in A PROVE k \in A
    <3>1. st[k - 1] \in R /\ k \in 0..n
      BY <2>2
    <3>. QED BY <1>4, <3>1
  <2>. HIDE DEF A
  <2>3. \A k \in 1..n : k - 1 \in A => k \in A
    BY <2>2
  <2>. QED BY <2>1, <2>3, Upwards
<1>6. \A k \in 1..n : st[k] = f[<<st[k - 1], seq[k]>>]
  <2>1. \A k \in 1..n : k - 1 \in 0..n
    OBVIOUS
  <2>. QED BY <1>4, <1>5, <2>1
<1>7. st[n] = fold[1..n] /\ st[n] \in R
  BY <1>1, <1>2, <1>5
<1>. QED BY <1>1, <1>3, <1>6, <1>7 DEF Leads

-----------------------------------------------------------------------------
(***************************************************************************)
(* The reader of tables                                                    *)
(***************************************************************************)
Reading(C) == [rows : Seq(Seq(Seq(C))), row : Seq(Seq(C)), cell : Seq(C), mode : {"plain", "quoted", "held", "return"}]

At(rows, row, cell, mode) == [rows |-> rows, row |-> row, cell |-> cell, mode |-> mode]

\* To take a character is to append it to the cell.
LEMMA TakesOne ==
    ASSUME NEW C, NEW r \in Reading(C), NEW c \in C, NEW mode \in {"plain", "quoted", "held", "return"}
    PROVE  Documents!Take(r, c, mode) = At(r.rows, r.row, Append(r.cell, c), mode)
<1>. DEFINE cell == Append(r.cell, c)
<1>1. Documents!Take(r, c, mode) = [r EXCEPT !.cell = cell, !.mode = mode]
  BY DEF Documents!Take
<1>. HIDE DEF cell
<1>2. Documents!Take(r, c, mode) = At(r.rows, r.row, cell, mode)
  BY <1>1 DEF At, Reading
<1>. QED BY <1>2 DEF cell

\* What the moves of a reader make of its state, and that they keep its type.
LEMMA MovesOfReader ==
    ASSUME NEW C, NEW r \in Reading(C)
    PROVE  /\ Documents!EndCell(r) = At(r.rows, Append(r.row, Documents!Trim(r.cell)), <<>>, "plain")
           /\ Documents!EndRow(r) = At(Append(r.rows, Append(r.row, Documents!Trim(r.cell))), <<>>, <<>>, "plain")
           /\ Documents!EndCell(r) \in Reading(C) /\ Documents!EndRow(r) \in Reading(C)
           /\ \A c \in C, mode \in {"plain", "quoted", "held", "return"} :
                 Documents!Take(r, c, mode) \in Reading(C)
           /\ \A mode \in {"plain", "quoted", "held", "return"} :
                 /\ [r EXCEPT !.mode = mode] = At(r.rows, r.row, r.cell, mode)
                 /\ [r EXCEPT !.mode = mode] \in Reading(C)
<1>. DEFINE row == Append(r.row, Documents!Trim(r.cell))
<1>0. r.rows \in Seq(Seq(Seq(C))) /\ r.row \in Seq(Seq(C)) /\ r.cell \in Seq(C)
  BY DEF Reading
<1>1. /\ <<>> \in Seq(C) /\ <<>> \in Seq(Seq(C)) /\ row \in Seq(Seq(C))
      /\ Append(r.rows, row) \in Seq(Seq(Seq(C))) /\ \A c \in C : Append(r.cell, c) \in Seq(C)
  BY <1>0, EmptySeq, AppendProperties, TrimIsPart
<1>2. Documents!EndCell(r) = At(r.rows, row, <<>>, "plain")
  <2>1. Documents!EndCell(r) = [r EXCEPT !.row = row, !.cell = <<>>, !.mode = "plain"]
    BY DEF Documents!EndCell
  <2>. HIDE DEF row
  <2>. QED BY <2>1 DEF At, Reading
<1>3. Documents!EndRow(r) = At(Append(r.rows, row), <<>>, <<>>, "plain")
  <2>. DEFINE e == Documents!EndCell(r)
  <2>1. Documents!EndRow(r) = [[e EXCEPT !.rows = Append(e.rows, e.row)] EXCEPT !.row = <<>>]
    BY DEF Documents!EndRow
  <2>. HIDE DEF e
  <2>2. e = At(r.rows, row, <<>>, "plain")
    BY <1>2 DEF e
  <2>. HIDE DEF row
  <2>. QED BY <2>1, <2>2 DEF At
<1>. HIDE DEF row
<1>4. \A c \in C, mode \in {"plain", "quoted", "held", "return"} : Documents!Take(r, c, mode) = At(r.rows, r.row, Append(r.cell, c), mode)
  BY TakesOne
<1>5. \A mode \in {"plain", "quoted", "held", "return"} : [r EXCEPT !.mode = mode] = At(r.rows, r.row, r.cell, mode)
  BY DEF At, Reading
<1>6. \A rows \in Seq(Seq(Seq(C))), w \in Seq(Seq(C)), cell \in Seq(C), mode \in {"plain", "quoted", "held", "return"} :
         At(rows, w, cell, mode) \in Reading(C)
  BY DEF At, Reading
<1>7. "plain" \in {"plain", "quoted", "held", "return"}
  OBVIOUS
<1>8. Documents!EndCell(r) \in Reading(C) /\ Documents!EndRow(r) \in Reading(C)
  BY <1>0, <1>1, <1>2, <1>3, <1>6, <1>7
<1>9. \A c \in C, mode \in {"plain", "quoted", "held", "return"} : Documents!Take(r, c, mode) \in Reading(C)
  BY <1>0, <1>1, <1>4, <1>6
<1>10. \A mode \in {"plain", "quoted", "held", "return"} : [r EXCEPT !.mode = mode] \in Reading(C)
  <2>1. ASSUME NEW mode \in {"plain", "quoted", "held", "return"} PROVE [r EXCEPT !.mode = mode] \in Reading(C)
    <3>1. At(r.rows, r.row, r.cell, mode) \in Reading(C)
      BY <1>0, <1>6
    <3>. QED BY <1>5, <3>1
  <2>. QED BY <2>1
<1>. QED BY <1>2, <1>3, <1>4, <1>5, <1>8, <1>9, <1>10 DEF row

\* A reader goes on from every state with every character.
LEMMA ReadsOn ==
    ASSUME NEW C, NEW r \in Reading(C), NEW c \in C, NEW d
    PROVE  Documents!ReadCharacter(r, c, d) \in Reading(C)
<1>. DEFINE modes == {"plain", "quoted", "held", "return"}
<1>1. /\ Documents!EndCell(r) \in Reading(C) /\ Documents!EndRow(r) \in Reading(C)
      /\ \A mode \in modes : Documents!Take(r, c, mode) \in Reading(C) /\ [r EXCEPT !.mode = mode] \in Reading(C)
  BY MovesOfReader
<1>2. \A q \in Reading(C), mode \in modes : [q EXCEPT !.mode = mode] \in Reading(C)
  BY MovesOfReader
<1>3. "plain" \in modes /\ "quoted" \in modes /\ "held" \in modes /\ "return" \in modes
  OBVIOUS
<1>. HIDE DEF modes
<1>4. Documents!Quoted(r, c) \in Reading(C)
  BY <1>1, <1>3 DEF Documents!Quoted
<1>5. Documents!Outside(r, c, d) \in Reading(C)
  <2>. QED BY <1>1, <1>2, <1>3 DEF Documents!Outside
<1>6. Documents!Take(r, Documents!Quote, "quoted") \in Reading(C) \/ c # Documents!Quote
  BY <1>1, <1>3
<1>. QED BY <1>4, <1>5, <1>6 DEF Documents!ReadCharacter

\* A text leads to one state only.
LEMMA LeadsToOne ==
    ASSUME NEW C, NEW s \in Seq(C), NEW f, NEW a, NEW b, NEW c, Leads(f, a, s, b), Leads(f, a, s, c)
    PROVE  b = c
<1>1. PICK u : u[0] = a /\ u[Len(s)] = b /\ \A k \in 1..Len(s) : u[k] = f[<<u[k - 1], s[k]>>]
  BY DEF Leads
<1>2. PICK v : v[0] = a /\ v[Len(s)] = c /\ \A k \in 1..Len(s) : v[k] = f[<<v[k - 1], s[k]>>]
  BY DEF Leads
<1>. DEFINE A == {k \in 0..Len(s) : u[k] = v[k]}
<1>3. Len(s) \in Nat
  BY LenProperties
<1>4. 0 \in A
  BY <1>1, <1>2, <1>3
<1>5. ASSUME NEW k \in 1..Len(s), k - 1 \in A PROVE k \in A
  <2>1. k \in 0..Len(s) /\ u[k - 1] = v[k - 1]
    BY <1>3, <1>5
  <2>. QED BY <1>1, <1>2, <2>1
<1>6. Len(s) \in A
  <2>. HIDE DEF A
  <2>1. \A k \in 1..Len(s) : k - 1 \in A => k \in A
    BY <1>5
  <2>2. \A k \in 0..Len(s) : k \in A
    BY <1>3, <1>4, <2>1, Upwards
  <2>. QED BY <1>3, <2>2
<1>. QED BY <1>1, <1>2, <1>6

Reader(C) == [p \in Reading(C) \X C |-> Documents!ReadCharacter(p[1], p[2], Documents!Comma)]

\* The reader of one line takes a line break as it is.
LineCharacter(r, c) ==
    IF c \in {Documents!CR, Documents!LF} THEN Documents!Take(r, c, IF r.mode = "quoted" THEN "quoted" ELSE "plain")
    ELSE Documents!ReadCharacter(r, c, Documents!Comma)

LineReader(C) == [p \in Reading(C) \X C |-> LineCharacter(p[1], p[2])]

\* The reader starts in a state of its own.
LEMMA StartReads == ASSUME NEW C PROVE Documents!AtStart \in Reading(C)
<1>1. <<>> \in Seq(C) /\ <<>> \in Seq(Seq(C)) /\ <<>> \in Seq(Seq(Seq(C)))
  BY EmptySeq
<1>. QED BY <1>1 DEF Documents!AtStart, Reading

\* The last place of a set of places is one of them.
LEMMA MaxIsPlace == ASSUME NEW n \in Nat PROVE \A s \in SUBSET (1..n) : s # {} => Max(s) \in 1..n
<1>1. ASSUME NEW s \in SUBSET (1..n), s # {} PROVE Max(s) \in s
  <2>1. Scoring!Max(s) \in s
    BY <1>1, LargestOf
  <2>. QED BY <2>1 DEF Scoring!Max, Max
<1>. QED BY <1>1

\* The fold of the parser is the reader's way through the text.
LEMMA ReaderReads ==
    ASSUME NEW C, NEW n \in Nat, NEW text \in [1..n -> C]
    PROVE  LET end == Documents!FoldLeft(LAMBDA r, c : Documents!ReadCharacter(r, c, Documents!Comma), Documents!AtStart, text)
           IN  Leads(Reader(C), Documents!AtStart, text, end) /\ end \in Reading(C)
<1>. DEFINE R == Reading(C)
            f == Reader(C)
            base == Documents!AtStart
            Op(g, s) == IF s = {} THEN base ELSE Documents!ReadCharacter(g[s \ {Max(s)}], text[Max(s)], Documents!Comma)
            fold == CHOOSE g : g = [s \in SUBSET (1..n) |-> Op(g, s)]
<1>1. base \in R
  BY StartReads
<1>2. f \in [R \X C -> R] /\ \A r \in R, c \in C : f[<<r, c>>] = Documents!ReadCharacter(r, c, Documents!Comma)
  BY ReadsOn DEF Reader
<1>. HIDE DEF R, f, base
<1>3. PICK g \in [SUBSET (1..n) -> R] : Moves(g, f, base, text, n)
  BY <1>1, <1>2, FoldRuns
<1>4. \A s \in SUBSET (1..n) : s # {} => Max(s) \in 1..n
  BY MaxIsPlace
<1>5. ASSUME NEW s \in SUBSET (1..n) PROVE Moved(f, base, text, g, s) = Op(g, s)
  <2>1. CASE s = {}
    BY <2>1 DEF Moved
  <2>2. CASE s # {}
    <3>1. g[s \ {Max(s)}] \in R /\ text[Max(s)] \in C
      BY <1>4, <2>2
    <3>. QED BY <1>2, <2>2, <3>1 DEF Moved
  <2>. QED BY <2>1, <2>2
<1>6. \E h : h = [s \in SUBSET (1..n) |-> Op(h, s)]
  <2>. HIDE DEF Op
  <2>. QED BY <1>3, <1>5 DEF Moves
<1>7. fold = [s \in SUBSET (1..n) |-> Op(fold, s)]
  <2>. HIDE DEF Op
  <2>. QED BY <1>6
<1>8. Documents!FoldLeft(LAMBDA r, c : Documents!ReadCharacter(r, c, Documents!Comma), Documents!AtStart, text) = fold[1..n]
  BY DEF Documents!FoldLeft, Documents!MapThenFoldSet, Documents!Max, Max, base
<1>. HIDE DEF fold
<1>9. \A s \in SUBSET (1..n) : fold[s] = Op(fold, s)
  <2>. HIDE DEF Op
  <2>. QED BY <1>7
<1>10. fold[{}] = base
  BY <1>9
<1>11. \A s \in SUBSET (1..n) : s # {} /\ fold[s \ {Max(s)}] \in R =>
          fold[s] = f[<<fold[s \ {Max(s)}], text[Max(s)]>>]
  BY <1>2, <1>4, <1>9
<1>12. Follows(fold, f, base, text, n, R)
  <2>. HIDE DEF Op
  <2>. QED BY <1>10, <1>11 DEF Follows
<1>13. Leads(f, base, text, fold[1..n]) /\ fold[1..n] \in R
  <2>. HIDE DEF Op
  <2>. QED BY <1>1, <1>2, <1>12, FoldLeads
<1>. QED BY <1>8, <1>13 DEF R, f, base

\* The reader of one line goes on likewise.
LEMMA LineReadsOn ==
    ASSUME NEW C, NEW r \in Reading(C), NEW c \in C
    PROVE  LineCharacter(r, c) \in Reading(C)
<1>1. /\ Documents!Take(r, c, "quoted") \in Reading(C) /\ Documents!Take(r, c, "plain") \in Reading(C)
      /\ Documents!ReadCharacter(r, c, Documents!Comma) \in Reading(C)
  BY MovesOfReader, ReadsOn
<1>. QED BY <1>1 DEF LineCharacter

\* The fold of the parser of one line is its way through the text.
LEMMA LineReaderReads ==
    ASSUME NEW C, NEW n \in Nat, NEW text \in [1..n -> C]
    PROVE  LET end == Documents!FoldLeft(LAMBDA r, c : IF c \in {Documents!CR, Documents!LF}
                              THEN Documents!Take(r, c, IF r.mode = "quoted" THEN "quoted" ELSE "plain")
                              ELSE Documents!ReadCharacter(r, c, Documents!Comma), Documents!AtStart, text)
           IN  Leads(LineReader(C), Documents!AtStart, text, end) /\ end \in Reading(C)
<1>. DEFINE R == Reading(C)
            f == LineReader(C)
            base == Documents!AtStart
            Op(g, s) == IF s = {} THEN base ELSE LineCharacter(g[s \ {Max(s)}], text[Max(s)])
            fold == CHOOSE g : g = [s \in SUBSET (1..n) |-> Op(g, s)]
<1>1. base \in R
  BY StartReads
<1>2. f \in [R \X C -> R] /\ \A r \in R, c \in C : f[<<r, c>>] = LineCharacter(r, c)
  BY LineReadsOn DEF LineReader
<1>. HIDE DEF R, f, base
<1>3. PICK g \in [SUBSET (1..n) -> R] : Moves(g, f, base, text, n)
  BY <1>1, <1>2, FoldRuns
<1>4. \A s \in SUBSET (1..n) : s # {} => Max(s) \in 1..n
  BY MaxIsPlace
<1>5. ASSUME NEW s \in SUBSET (1..n) PROVE Moved(f, base, text, g, s) = Op(g, s)
  <2>1. CASE s = {}
    BY <2>1 DEF Moved
  <2>2. CASE s # {}
    <3>1. g[s \ {Max(s)}] \in R /\ text[Max(s)] \in C
      BY <1>4, <2>2
    <3>. QED BY <1>2, <2>2, <3>1 DEF Moved
  <2>. QED BY <2>1, <2>2
<1>6. \E h : h = [s \in SUBSET (1..n) |-> Op(h, s)]
  <2>. HIDE DEF Op
  <2>. QED BY <1>3, <1>5 DEF Moves
<1>7. fold = [s \in SUBSET (1..n) |-> Op(fold, s)]
  <2>. HIDE DEF Op
  <2>. QED BY <1>6
<1>8. Documents!FoldLeft(LAMBDA r, c : IF c \in {Documents!CR, Documents!LF}
               THEN Documents!Take(r, c, IF r.mode = "quoted" THEN "quoted" ELSE "plain")
               ELSE Documents!ReadCharacter(r, c, Documents!Comma), Documents!AtStart, text) = fold[1..n]
  BY DEF Documents!FoldLeft, Documents!MapThenFoldSet, Documents!Max, Max, LineCharacter, base
<1>. HIDE DEF fold
<1>9. \A s \in SUBSET (1..n) : fold[s] = Op(fold, s)
  <2>. HIDE DEF Op
  <2>. QED BY <1>7
<1>10. fold[{}] = base
  BY <1>9
<1>11. \A s \in SUBSET (1..n) : s # {} /\ fold[s \ {Max(s)}] \in R =>
          fold[s] = f[<<fold[s \ {Max(s)}], text[Max(s)]>>]
  BY <1>2, <1>4, <1>9
<1>12. Follows(fold, f, base, text, n, R)
  <2>. HIDE DEF Op
  <2>. QED BY <1>10, <1>11 DEF Follows
<1>13. Leads(f, base, text, fold[1..n]) /\ fold[1..n] \in R
  <2>. HIDE DEF Op
  <2>. QED BY <1>1, <1>2, <1>12, FoldLeads
<1>. QED BY <1>8, <1>13 DEF R, f, base

\* What splitting has cut off and what it is at.
Splitting(C) == [done : Seq(Seq(C)), now : Seq(C)]

SplitAt(r, c, separators) ==
    IF c \in separators THEN [done |-> Append(r.done, Documents!Trim(r.now)), now |-> <<>>]
    ELSE [r EXCEPT !.now = Append(@, c)]

Splitter(C, separators) == [p \in Splitting(C) \X C |-> SplitAt(p[1], p[2], separators)]

Uncut == [done |-> <<>>, now |-> <<>>]

\* A splitter goes on from every state, and keeps what does not separate.
LEMMA SplitsOn ==
    ASSUME NEW C, NEW r \in Splitting(C), NEW c \in C, NEW separators
    PROVE  /\ SplitAt(r, c, separators) \in Splitting(C)
           /\ c \notin separators => SplitAt(r, c, separators) = [done |-> r.done, now |-> Append(r.now, c)]
<1>. DEFINE now == Append(r.now, c)
<1>1. r.done \in Seq(Seq(C)) /\ r.now \in Seq(C)
  BY DEF Splitting
<1>2. Append(r.done, Documents!Trim(r.now)) \in Seq(Seq(C)) /\ now \in Seq(C) /\ <<>> \in Seq(C)
  BY <1>1, TrimIsPart, AppendProperties, EmptySeq
<1>3. c \notin separators => SplitAt(r, c, separators) = [r EXCEPT !.now = now]
  BY DEF SplitAt
<1>. HIDE DEF now
<1>4. [r EXCEPT !.now = now] = [done |-> r.done, now |-> now]
  BY DEF Splitting
<1>5. c \in separators => SplitAt(r, c, separators) \in Splitting(C)
  BY <1>2 DEF SplitAt, Splitting
<1>6. [done |-> r.done, now |-> now] \in Splitting(C)
  BY <1>1, <1>2 DEF Splitting
<1>. QED BY <1>3, <1>4, <1>5, <1>6 DEF now

\* The pieces of a text are what the splitter has cut at its end.
LEMMA SplitterSplits ==
    ASSUME NEW C, NEW n \in Nat, NEW text \in [1..n -> C], NEW separators
    PROVE  \E end \in Splitting(C) :
              /\ Leads(Splitter(C, separators), Uncut, text, end)
              /\ Documents!Pieces(text, separators) =
                    Documents!Without(Append(end.done, Documents!Trim(end.now)), {<<>>})
<1>. DEFINE R == Splitting(C)
            f == Splitter(C, separators)
            base == Uncut
            Op(g, s) == IF s = {} THEN base ELSE SplitAt(g[s \ {Max(s)}], text[Max(s)], separators)
            fold == CHOOSE g : g = [s \in SUBSET (1..n) |-> Op(g, s)]
<1>1. base \in R
  BY EmptySeq DEF Uncut, Splitting
<1>2. f \in [R \X C -> R] /\ \A r \in R, c \in C : f[<<r, c>>] = SplitAt(r, c, separators)
  BY SplitsOn DEF Splitter
<1>. HIDE DEF R, f, base
<1>3. PICK g \in [SUBSET (1..n) -> R] : Moves(g, f, base, text, n)
  BY <1>1, <1>2, FoldRuns
<1>4. \A s \in SUBSET (1..n) : s # {} => Max(s) \in 1..n
  BY MaxIsPlace
<1>5. ASSUME NEW s \in SUBSET (1..n) PROVE Moved(f, base, text, g, s) = Op(g, s)
  <2>1. CASE s = {}
    BY <2>1 DEF Moved
  <2>2. CASE s # {}
    <3>1. g[s \ {Max(s)}] \in R /\ text[Max(s)] \in C
      BY <1>4, <2>2
    <3>. QED BY <1>2, <2>2, <3>1 DEF Moved
  <2>. QED BY <2>1, <2>2
<1>6. \E h : h = [s \in SUBSET (1..n) |-> Op(h, s)]
  <2>. HIDE DEF Op
  <2>. QED BY <1>3, <1>5 DEF Moves
<1>7. fold = [s \in SUBSET (1..n) |-> Op(fold, s)]
  <2>. HIDE DEF Op
  <2>. QED BY <1>6
<1>8. Documents!Pieces(text, separators) =
         Documents!Without(Append(fold[1..n].done, Documents!Trim(fold[1..n].now)), {<<>>})
  BY DEF Documents!Pieces, Documents!FoldLeft, Documents!MapThenFoldSet, Documents!Max, Max, SplitAt, Uncut, base
<1>. HIDE DEF fold
<1>9. \A s \in SUBSET (1..n) : fold[s] = Op(fold, s)
  <2>. HIDE DEF Op
  <2>. QED BY <1>7
<1>10. fold[{}] = base
  BY <1>9
<1>11. \A s \in SUBSET (1..n) : s # {} /\ fold[s \ {Max(s)}] \in R =>
          fold[s] = f[<<fold[s \ {Max(s)}], text[Max(s)]>>]
  BY <1>2, <1>4, <1>9
<1>12. Follows(fold, f, base, text, n, R)
  <2>. HIDE DEF Op
  <2>. QED BY <1>10, <1>11 DEF Follows
<1>13. Leads(f, base, text, fold[1..n]) /\ fold[1..n] \in R
  <2>. HIDE DEF Op
  <2>. QED BY <1>1, <1>2, <1>12, FoldLeads
<1>. QED BY <1>8, <1>13 DEF R, f, base

-----------------------------------------------------------------------------
(***************************************************************************)
(* Filters                                                                 *)
(***************************************************************************)
Sieve(C, S) == [p \in Seq(C) \X C |-> IF p[2] \in S THEN p[1] ELSE Append(p[1], p[2])]

\* A filter is the way of a sieve through the text.
LEMMA SieveLeads ==
    ASSUME NEW C, NEW n \in Nat, NEW text \in [1..n -> C], NEW S
    PROVE  Leads(Sieve(C, S), <<>>, text, Without(text, S)) /\ Without(text, S) \in Seq(C)
<1>. DEFINE R == Seq(C)
            f == Sieve(C, S)
            base == <<>>
            Op(g, s) == IF s = {} THEN base ELSE IF text[Max(s)] \in S THEN g[s \ {Max(s)}] ELSE Append(g[s \ {Max(s)}], text[Max(s)])
            fold == CHOOSE g : g = [s \in SUBSET (1..n) |-> Op(g, s)]
<1>1. base \in R
  BY EmptySeq
<1>2. f \in [R \X C -> R] /\ \A r \in R, c \in C : f[<<r, c>>] = IF c \in S THEN r ELSE Append(r, c)
  BY AppendProperties DEF Sieve
<1>. HIDE DEF R, f, base
<1>3. PICK g \in [SUBSET (1..n) -> R] : Moves(g, f, base, text, n)
  BY <1>1, <1>2, FoldRuns
<1>4. \A s \in SUBSET (1..n) : s # {} => Max(s) \in 1..n
  BY MaxIsPlace
<1>5. ASSUME NEW s \in SUBSET (1..n) PROVE Moved(f, base, text, g, s) = Op(g, s)
  <2>1. CASE s = {}
    BY <2>1 DEF Moved
  <2>2. CASE s # {}
    <3>1. g[s \ {Max(s)}] \in R /\ text[Max(s)] \in C
      BY <1>4, <2>2
    <3>. QED BY <1>2, <2>2, <3>1 DEF Moved
  <2>. QED BY <2>1, <2>2
<1>6. \E h : h = [s \in SUBSET (1..n) |-> Op(h, s)]
  <2>. HIDE DEF Op
  <2>. QED BY <1>3, <1>5 DEF Moves
<1>7. fold = [s \in SUBSET (1..n) |-> Op(fold, s)]
  <2>. HIDE DEF Op
  <2>. QED BY <1>6
<1>8. Without(text, S) = fold[1..n]
  BY DEF Without, FoldLeft, MapThenFoldSet, base
<1>. HIDE DEF fold
<1>9. \A s \in SUBSET (1..n) : fold[s] = Op(fold, s)
  <2>. HIDE DEF Op
  <2>. QED BY <1>7
<1>10. fold[{}] = base
  BY <1>9
<1>11. \A s \in SUBSET (1..n) : s # {} /\ fold[s \ {Max(s)}] \in R =>
          fold[s] = f[<<fold[s \ {Max(s)}], text[Max(s)]>>]
  BY <1>2, <1>4, <1>9
<1>12. Follows(fold, f, base, text, n, R)
  <2>. HIDE DEF Op
  <2>. QED BY <1>10, <1>11 DEF Follows
<1>13. Leads(f, base, text, fold[1..n]) /\ fold[1..n] \in R
  <2>. HIDE DEF Op
  <2>. QED BY <1>1, <1>2, <1>12, FoldLeads
<1>. QED BY <1>8, <1>13 DEF R, f, base

\* A quote opens a cell, may close it, or stands for one if doubled; nothing
\* else closes it.
LEMMA ReadsQuotes ==
    ASSUME NEW C, NEW rows \in Seq(Seq(Seq(C))), NEW row \in Seq(Seq(C)), NEW cell \in Seq(C),
           Documents!Quote \in C
    PROVE  /\ Documents!ReadCharacter(At(rows, row, cell, "plain"), Documents!Quote, Documents!Comma)
                 = At(rows, row, cell, "quoted")
           /\ Documents!ReadCharacter(At(rows, row, cell, "quoted"), Documents!Quote, Documents!Comma)
                 = At(rows, row, cell, "held")
           /\ Documents!ReadCharacter(At(rows, row, cell, "held"), Documents!Quote, Documents!Comma)
                 = At(rows, row, Append(cell, Documents!Quote), "quoted")
           /\ \A c \in C : c # Documents!Quote =>
                 Documents!ReadCharacter(At(rows, row, cell, "quoted"), c, Documents!Comma)
                    = At(rows, row, Append(cell, c), "quoted")
<1>1. \A mode \in {"plain", "quoted", "held", "return"} :
         /\ At(rows, row, cell, mode) \in Reading(C)
         /\ At(rows, row, cell, mode).mode = mode /\ At(rows, row, cell, mode).rows = rows
         /\ At(rows, row, cell, mode).row = row /\ At(rows, row, cell, mode).cell = cell
  BY DEF At, Reading
<1>2. /\ [At(rows, row, cell, "plain") EXCEPT !.mode = "quoted"] = At(rows, row, cell, "quoted")
      /\ [At(rows, row, cell, "quoted") EXCEPT !.mode = "held"] = At(rows, row, cell, "held")
  BY SMTT(60) DEF At
<1>3. \A c \in C : /\ Documents!Take(At(rows, row, cell, "held"), c, "quoted") = At(rows, row, Append(cell, c), "quoted")
                   /\ Documents!Take(At(rows, row, cell, "quoted"), c, "quoted") = At(rows, row, Append(cell, c), "quoted")
  <2>1. ASSUME NEW c \in C, NEW mode \in {"plain", "quoted", "held", "return"}
        PROVE  Documents!Take(At(rows, row, cell, mode), c, "quoted") = At(rows, row, Append(cell, c), "quoted")
    <3>1. "quoted" \in {"plain", "quoted", "held", "return"}
      OBVIOUS
    <3>. DEFINE r == At(rows, row, cell, mode)
    <3>2. r \in Reading(C) /\ r.rows = rows /\ r.row = row /\ r.cell = cell
      BY <1>1
    <3>. HIDE DEF r
    <3>3. Documents!Take(r, c, "quoted") = At(r.rows, r.row, Append(r.cell, c), "quoted")
      BY <3>1, <3>2, TakesOne
    <3>. QED BY <3>2, <3>3 DEF r
  <2>. QED BY <2>1
<1>4. Documents!ReadCharacter(At(rows, row, cell, "plain"), Documents!Quote, Documents!Comma) = At(rows, row, cell, "quoted")
  BY <1>1, <1>2 DEF Documents!ReadCharacter, Documents!Outside, Documents!Quote, Documents!Comma, Documents!CR, Documents!LF
<1>5. Documents!ReadCharacter(At(rows, row, cell, "quoted"), Documents!Quote, Documents!Comma) = At(rows, row, cell, "held")
  BY <1>1, <1>2 DEF Documents!ReadCharacter, Documents!Quoted
<1>6. Documents!ReadCharacter(At(rows, row, cell, "held"), Documents!Quote, Documents!Comma)
         = At(rows, row, Append(cell, Documents!Quote), "quoted")
  BY <1>1, <1>3 DEF Documents!ReadCharacter
<1>7. \A c \in C : c # Documents!Quote =>
         Documents!ReadCharacter(At(rows, row, cell, "quoted"), c, Documents!Comma) = At(rows, row, Append(cell, c), "quoted")
  BY <1>1, <1>3 DEF Documents!ReadCharacter, Documents!Quoted
<1>. QED BY <1>4, <1>5, <1>6, <1>7

\* After the closing quote a comma ends the cell and a line break the row.
LEMMA ReadsEnds ==
    ASSUME NEW C, NEW rows \in Seq(Seq(Seq(C))), NEW row \in Seq(Seq(C)), NEW cell \in Seq(C)
    PROVE  /\ Documents!ReadCharacter(At(rows, row, cell, "held"), Documents!Comma, Documents!Comma)
                 = At(rows, Append(row, Documents!Trim(cell)), <<>>, "plain")
           /\ Documents!ReadCharacter(At(rows, row, cell, "held"), Documents!LF, Documents!Comma)
                 = At(Append(rows, Append(row, Documents!Trim(cell))), <<>>, <<>>, "plain")
<1>. DEFINE r == At(rows, row, cell, "held")
<1>1. r \in Reading(C) /\ r.mode = "held" /\ r.rows = rows /\ r.row = row /\ r.cell = cell
  BY DEF At, Reading
<1>. HIDE DEF r
<1>2. /\ Documents!EndCell(r) = At(rows, Append(row, Documents!Trim(cell)), <<>>, "plain")
      /\ Documents!EndRow(r) = At(Append(rows, Append(row, Documents!Trim(cell))), <<>>, <<>>, "plain")
  <2>1. /\ Documents!EndCell(r) = At(r.rows, Append(r.row, Documents!Trim(r.cell)), <<>>, "plain")
        /\ Documents!EndRow(r) = At(Append(r.rows, Append(r.row, Documents!Trim(r.cell))), <<>>, <<>>, "plain")
    BY <1>1, MovesOfReader
  <2>. QED BY <1>1, <2>1
<1>3. /\ Documents!ReadCharacter(r, Documents!Comma, Documents!Comma) = Documents!EndCell(r)
      /\ Documents!ReadCharacter(r, Documents!LF, Documents!Comma) = Documents!EndRow(r)
  BY <1>1 DEF Documents!ReadCharacter, Documents!Outside, Documents!Comma, Documents!LF, Documents!Quote, Documents!CR
<1>. QED BY <1>2, <1>3 DEF r

\* A reader that reads the characters of D as the reader of tables does.
Reads(f, C, D) == \A r \in Reading(C), c \in D : f[<<r, c>>] = Documents!ReadCharacter(r, c, Documents!Comma)

\* Both readers read quoted cells; that of one line knows no line breaks.
LEMMA ReadersRead ==
    ASSUME NEW C
    PROVE  Reads(Reader(C), C, C) /\ Reads(LineReader(C), C, C \ {Documents!CR, Documents!LF})
<1>1. Reads(Reader(C), C, C)
  BY DEF Reads, Reader
<1>2. Reads(LineReader(C), C, C \ {Documents!CR, Documents!LF})
  BY DEF Reads, LineReader, LineCharacter
<1>. QED BY <1>1, <1>2

\* A printed cell leads from the start of a cell to its end, with the text it
\* was printed from.
LEMMA CellLeads ==
    ASSUME NEW C, NEW D \in SUBSET C, NEW f, Reads(f, C, D), Documents!Quote \in D,
           NEW rows \in Seq(Seq(Seq(C))), NEW row \in Seq(Seq(C)), NEW t \in Seq(D)
    PROVE  /\ Documents!Escaped(t) \in Seq(D)
           /\ Leads(f, At(rows, row, <<>>, "plain"), Documents!Escaped(t), At(rows, row, t, "held"))
<1>. DEFINE Q == Documents!Quote
            n == Len(t)
            parts == [i \in 1..n |-> IF t[i] = Q THEN <<Q, Q>> ELSE <<t[i]>>]
            st == [k \in 0..n |-> At(rows, row, Upto(t, k), "quoted")]
            flat == FlattenSeq(parts)
<1>1. n \in Nat /\ t \in [1..n -> D] /\ DOMAIN t = 1..n /\ Q \in C /\ Q \in D /\ t \in [1..n -> C]
  BY LenProperties
<1>2. Documents!Escaped(t) = (<<Q>> \o flat) \o <<Q>>
  BY <1>1 DEF Documents!Escaped, Documents!FlattenSeq, FlattenSeq
<1>. HIDE DEF Q, n
<1>3. \A k \in 0..n : st[k] = At(rows, row, Upto(t, k), "quoted") /\ Upto(t, k) \in Seq(C)
  BY <1>1, FrontGrows
<1>4. \A cell \in Seq(C), mode \in {"plain", "quoted", "held", "return"} : At(rows, row, cell, mode) \in Reading(C)
  BY DEF At, Reading
<1>5. \A cell \in Seq(C), mode \in {"plain", "quoted", "held", "return"}, c \in D :
         f[<<At(rows, row, cell, mode), c>>] = Documents!ReadCharacter(At(rows, row, cell, mode), c, Documents!Comma)
  BY <1>4 DEF Reads
<1>6. \A cell \in Seq(C) : /\ f[<<At(rows, row, cell, "plain"), Q>>] = At(rows, row, cell, "quoted")
                           /\ f[<<At(rows, row, cell, "quoted"), Q>>] = At(rows, row, cell, "held")
                           /\ f[<<At(rows, row, cell, "held"), Q>>] = At(rows, row, Append(cell, Q), "quoted")
                           /\ \A c \in D : c # Q =>
                                 f[<<At(rows, row, cell, "quoted"), c>>] = At(rows, row, Append(cell, c), "quoted")
  <2>1. ASSUME NEW cell \in Seq(C)
        PROVE  /\ f[<<At(rows, row, cell, "plain"), Q>>] = At(rows, row, cell, "quoted")
               /\ f[<<At(rows, row, cell, "quoted"), Q>>] = At(rows, row, cell, "held")
               /\ f[<<At(rows, row, cell, "held"), Q>>] = At(rows, row, Append(cell, Q), "quoted")
               /\ \A c \in D : c # Q =>
                     f[<<At(rows, row, cell, "quoted"), c>>] = At(rows, row, Append(cell, c), "quoted")
    <3>1. "plain" \in {"plain", "quoted", "held", "return"} /\ "quoted" \in {"plain", "quoted", "held", "return"}
          /\ "held" \in {"plain", "quoted", "held", "return"}
      OBVIOUS
    <3>2. /\ Documents!ReadCharacter(At(rows, row, cell, "plain"), Documents!Quote, Documents!Comma)
                 = At(rows, row, cell, "quoted")
          /\ Documents!ReadCharacter(At(rows, row, cell, "quoted"), Documents!Quote, Documents!Comma)
                 = At(rows, row, cell, "held")
          /\ Documents!ReadCharacter(At(rows, row, cell, "held"), Documents!Quote, Documents!Comma)
                 = At(rows, row, Append(cell, Documents!Quote), "quoted")
          /\ \A c \in C : c # Documents!Quote =>
                 Documents!ReadCharacter(At(rows, row, cell, "quoted"), c, Documents!Comma)
                    = At(rows, row, Append(cell, c), "quoted")
      BY <1>1, ReadsQuotes DEF Q
    <3>. QED BY <1>1, <1>5, <3>1, <3>2 DEF Q
  <2>. QED BY <2>1
<1>7. parts \in [1..n -> Seq(D)]
  <2>1. ASSUME NEW i \in 1..n PROVE (IF t[i] = Q THEN <<Q, Q>> ELSE <<t[i]>>) \in Seq(D)
    BY <1>1
  <2>. QED BY <2>1
<1>8. ASSUME NEW k \in 1..n PROVE Leads(f, st[k - 1], parts[k], st[k])
  <2>. DEFINE cell == Upto(t, k - 1)
  <2>1. k - 1 \in 0..n /\ k \in 0..n /\ t[k] \in D
    BY <1>1
  <2>2. Upto(t, k) = Append(cell, t[k]) /\ cell \in Seq(C)
    <3>1. Upto(t, k) = Append(Upto(t, k - 1), t[k])
      BY <1>1, FrontAppends
    <3>. QED BY <1>3, <2>1, <3>1
  <2>3. st[k - 1] = At(rows, row, cell, "quoted") /\ st[k] = At(rows, row, Append(cell, t[k]), "quoted")
    BY <1>3, <2>1, <2>2
  <2>. HIDE DEF cell, st
  <2>4. CASE t[k] = Q
    <3>1. parts[k] = <<Q>> \o <<Q>> /\ <<Q>> \in Seq(D)
      BY <1>1, <2>4
    <3>2. Leads(f, st[k - 1], <<Q>>, f[<<st[k - 1], Q>>])
      BY LeadsOnce
    <3>3. f[<<st[k - 1], Q>>] = At(rows, row, cell, "held") /\ f[<<At(rows, row, cell, "held"), Q>>] = st[k]
      BY <1>6, <2>2, <2>3, <2>4
    <3>4. Leads(f, At(rows, row, cell, "held"), <<Q>>, st[k])
      <4>1. Leads(f, At(rows, row, cell, "held"), <<Q>>, f[<<At(rows, row, cell, "held"), Q>>])
        BY LeadsOnce
      <4>. QED BY <3>3, <4>1
    <3>5. Leads(f, st[k - 1], <<Q>> \o <<Q>>, st[k])
      BY <3>1, <3>2, <3>3, <3>4, LeadsOn
    <3>. QED BY <3>1, <3>5
  <2>5. CASE t[k] # Q
    <3>1. parts[k] = <<t[k]>>
      BY <2>5
    <3>2. Leads(f, st[k - 1], <<t[k]>>, f[<<st[k - 1], t[k]>>])
      BY LeadsOnce
    <3>3. f[<<st[k - 1], t[k]>>] = st[k]
      BY <1>6, <2>1, <2>2, <2>3, <2>5
    <3>. QED BY <3>1, <3>2, <3>3
  <2>. QED BY <2>4, <2>5
<1>9. flat \in Seq(D) /\ Leads(f, st[0], flat, st[n])
  <2>. HIDE DEF parts, st
  <2>. QED BY <1>1, <1>7, <1>8, LeadsFlat
<1>10. st[0] = At(rows, row, <<>>, "quoted") /\ st[n] = At(rows, row, t, "quoted") /\ <<>> \in Seq(C) /\ t \in Seq(C)
  <2>1. 0 \in 0..n /\ n \in 0..n /\ Upto(t, 0) = <<>> /\ Upto(t, n) = t
    BY <1>1, FrontGrows
  <2>. QED BY <1>3, <2>1
<1>. HIDE DEF flat, st, parts
<1>11. Leads(f, At(rows, row, <<>>, "plain"), <<Q>>, st[0])
  <2>1. Leads(f, At(rows, row, <<>>, "plain"), <<Q>>, f[<<At(rows, row, <<>>, "plain"), Q>>])
    BY LeadsOnce
  <2>. QED BY <1>6, <1>10, <2>1
<1>12. Leads(f, st[n], <<Q>>, At(rows, row, t, "held"))
  <2>1. Leads(f, st[n], <<Q>>, f[<<st[n], Q>>])
    BY LeadsOnce
  <2>. QED BY <1>6, <1>10, <2>1
<1>13. <<Q>> \in Seq(D) /\ <<Q>> \o flat \in Seq(D) /\ (<<Q>> \o flat) \o <<Q>> \in Seq(D)
  <2>1. <<Q>> \in Seq(D)
    BY <1>1
  <2>. QED BY <1>9, <2>1, ConcatProperties
<1>14. Leads(f, At(rows, row, <<>>, "plain"), <<Q>> \o flat, st[n])
  BY <1>9, <1>11, <1>13, LeadsOn
<1>15. Leads(f, At(rows, row, <<>>, "plain"), (<<Q>> \o flat) \o <<Q>>, At(rows, row, t, "held"))
  BY <1>12, <1>13, <1>14, LeadsOn
<1>. QED BY <1>2, <1>13, <1>15

TrimmedRow(w) == [i \in DOMAIN w |-> Documents!Trim(w[i])]

PrintedRow(w) == Documents!Joined([i \in DOMAIN w |-> Documents!Escaped(w[i])], Documents!Comma)

\* One concatenation, under either name.
LEMMA SameFlat == ASSUME NEW s PROVE Documents!FlattenSeq(s) = FlattenSeq(s)
  BY DEF Documents!FlattenSeq, FlattenSeq

\* Where the reader is after a printed row: within its last cell.
LEMMA RowLeads ==
    ASSUME NEW C, NEW D \in SUBSET C, NEW f, Reads(f, C, D), Documents!Quote \in D, Documents!Comma \in D,
           NEW rows \in Seq(Seq(Seq(C))), NEW n \in Nat \ {0}, NEW w \in [1..n -> Seq(D)]
    PROVE  /\ PrintedRow(w) \in Seq(D)
           /\ Leads(f, At(rows, <<>>, <<>>, "plain"), PrintedRow(w),
                       At(rows, Upto(TrimmedRow(w), n - 1), w[n], "held"))
<1>. DEFINE T == TrimmedRow(w)
            E(i) == Documents!Escaped(w[i])
            parts == [i \in 1..n |-> IF i = 1 THEN E(i) ELSE <<Documents!Comma>> \o E(i)]
            st == [k \in 0..n |-> IF k = 0 THEN At(rows, <<>>, <<>>, "plain")
                                  ELSE At(rows, Upto(T, k - 1), w[k], "held")]
            flat == FlattenSeq(parts)
<1>1. /\ n \in Nat /\ 1 \in 1..n /\ 0 \in 0..n /\ n \in 0..n /\ n # 0
      /\ \A i \in 1..n : w[i] \in Seq(D) /\ w[i] \in Seq(C) /\ i - 1 \in 0..n /\ i \in 0..n
  <2>1. \A i \in 1..n : w[i] \in Seq(D)
    OBVIOUS
  <2>. QED BY <2>1, SeqMonotonic
<1>2. PrintedRow(w) = flat
  <2>. DEFINE cells == [i \in DOMAIN w |-> E(i)]
              joined == [i \in DOMAIN cells |-> IF i = 1 THEN cells[i] ELSE <<Documents!Comma>> \o cells[i]]
  <2>1. PrintedRow(w) = Documents!FlattenSeq(joined)
    BY DEF PrintedRow, Documents!Joined
  <2>2. DOMAIN cells = 1..n /\ \A i \in 1..n : cells[i] = E(i)
    OBVIOUS
  <2>. HIDE DEF cells, E
  <2>3. joined = parts
    BY <2>2
  <2>. HIDE DEF joined, parts
  <2>. QED BY <2>1, <2>3, SameFlat
<1>3. T \in [1..n -> Seq(C)] /\ \A i \in 1..n : T[i] = Documents!Trim(w[i])
  <2>1. \A i \in 1..n : Documents!Trim(w[i]) \in Seq(C)
    BY <1>1, TrimIsPart
  <2>. QED BY <2>1 DEF TrimmedRow
<1>4. st[0] = At(rows, <<>>, <<>>, "plain") /\ \A k \in 1..n : st[k] = At(rows, Upto(T, k - 1), w[k], "held")
  BY <1>1
<1>. HIDE DEF T, st, flat
<1>5. Upto(T, 0) = <<>> /\ \A k \in 0..n : Upto(T, k) \in Seq(Seq(C))
  BY <1>1, <1>3, FrontGrows
<1>6. ASSUME NEW k \in 1..n
      PROVE  /\ E(k) \in Seq(D)
             /\ Leads(f, At(rows, Upto(T, k - 1), <<>>, "plain"), E(k), st[k])
  <2>. DEFINE row == Upto(T, k - 1)
  <2>1. row \in Seq(Seq(C)) /\ w[k] \in Seq(D) /\ st[k] = At(rows, row, w[k], "held")
    BY <1>1, <1>4, <1>5
  <2>. HIDE DEF row
  <2>2. /\ Documents!Escaped(w[k]) \in Seq(D)
        /\ Leads(f, At(rows, row, <<>>, "plain"), Documents!Escaped(w[k]), At(rows, row, w[k], "held"))
    BY <2>1, CellLeads
  <2>. QED BY <2>1, <2>2 DEF row
<1>. DEFINE sep == <<Documents!Comma>>
<1>7. sep \in Seq(D) /\ \A k \in 1..n : sep \o E(k) \in Seq(D)
  <2>1. sep \in Seq(D)
    OBVIOUS
  <2>. HIDE DEF sep, E
  <2>. QED BY <1>6, <2>1, ConcatProperties
<1>8. parts \in [1..n -> Seq(D)] /\ parts[1] = E(1) /\ \A k \in 1..n : k # 1 => parts[k] = sep \o E(k)
  <2>. HIDE DEF E
  <2>. QED BY <1>1, <1>6, <1>7
<1>. HIDE DEF parts, E, sep
<1>9. ASSUME NEW k \in 1..n PROVE Leads(f, st[k - 1], parts[k], st[k])
  <2>1. CASE k = 1
    <3>1. k - 1 = 0 /\ st[k - 1] = At(rows, Upto(T, k - 1), <<>>, "plain") /\ parts[k] = E(k)
      <4>1. k - 1 = 0
        BY <2>1
      <4>. QED BY <1>4, <1>5, <1>8, <2>1, <4>1
    <3>. QED BY <1>6, <3>1
  <2>2. CASE k # 1
    <3>. DEFINE j == k - 1
                row == Upto(T, j - 1)
                r == At(rows, row, w[j], "held")
    <3>1. j \in 1..n /\ j - 1 \in 0..n /\ w[j] \in Seq(C) /\ row \in Seq(Seq(C)) /\ st[j] = r
      <4>1. j \in 1..n
        BY <1>1, <2>2
      <4>. HIDE DEF j
      <4>2. j - 1 \in 0..n /\ w[j] \in Seq(C)
        BY <1>1, <4>1
      <4>. QED BY <1>4, <1>5, <4>1, <4>2
    <3>2. Append(row, Documents!Trim(w[j])) = Upto(T, j)
      <4>1. Upto(T, j) = Append(Upto(T, j - 1), T[j])
        BY <1>1, <1>3, <3>1, FrontAppends, ZenonT(60)
      <4>. QED BY <1>3, <3>1, <4>1
    <3>. HIDE DEF row, j
    <3>3. r \in Reading(C)
      BY <3>1 DEF At, Reading
    <3>. HIDE DEF r
    <3>4. f[<<r, Documents!Comma>>] = Documents!ReadCharacter(r, Documents!Comma, Documents!Comma)
      BY <3>3 DEF Reads
    <3>5. Documents!ReadCharacter(r, Documents!Comma, Documents!Comma)
             = At(rows, Append(row, Documents!Trim(w[j])), <<>>, "plain")
      BY <3>1, ReadsEnds DEF r
    <3>6. Leads(f, st[j], sep, At(rows, Upto(T, j), <<>>, "plain"))
      <4>1. Leads(f, st[j], <<Documents!Comma>>, f[<<st[j], Documents!Comma>>])
        BY LeadsOnce
      <4>. QED BY <3>1, <3>2, <3>4, <3>5, <4>1 DEF sep
    <3>7. Leads(f, At(rows, Upto(T, j), <<>>, "plain"), E(k), st[k])
      BY <1>6 DEF j
    <3>8. Leads(f, st[j], sep \o E(k), st[k])
      BY <1>6, <1>7, <3>6, <3>7, LeadsOn
    <3>. QED BY <1>8, <2>2, <3>8 DEF j
  <2>. QED BY <2>1, <2>2
<1>10. flat \in Seq(D) /\ Leads(f, st[0], flat, st[n])
  BY <1>1, <1>8, <1>9, LeadsFlat DEF flat
<1>11. n \in 1..n
  BY <1>1
<1>. QED BY <1>2, <1>4, <1>10, <1>11 DEF T

\* What is left of each beginning of a sequence.
Sifts(st, seq, S, n) ==
    /\ st[0] = <<>> /\ st[n] = Without(seq, S)
    /\ \A k \in 1..n : st[k] = IF seq[k] \in S THEN st[k - 1] ELSE Append(st[k - 1], seq[k])

\* A filter passes through what it has kept of each front.
LEMMA WithoutRuns ==
    ASSUME NEW C, NEW n \in Nat, NEW seq \in [1..n -> C], NEW S
    PROVE  \E st \in [0..n -> Seq(C)] : Sifts(st, seq, S, n)
<1>. DEFINE f == Sieve(C, S)
<1>1. PICK u : /\ u[0] = <<>> /\ u[Len(seq)] = Without(seq, S)
               /\ \A k \in 1..Len(seq) : u[k] = f[<<u[k - 1], seq[k]>>]
  <2>1. Leads(f, <<>>, seq, Without(seq, S))
    BY SieveLeads
  <2>. HIDE DEF f
  <2>. QED BY <2>1 DEF Leads
<1>2. Len(seq) = n
  BY FrontGrows
<1>3. \A r \in Seq(C), c \in C : /\ f[<<r, c>>] = IF c \in S THEN r ELSE Append(r, c)
                                 /\ f[<<r, c>>] \in Seq(C)
  BY AppendProperties DEF Sieve
<1>. HIDE DEF f
<1>. DEFINE st == [k \in 0..n |-> u[k]]
            A == {k \in 0..n : st[k] \in Seq(C)}
<1>4. \A k \in 0..n : st[k] = u[k]
  OBVIOUS
<1>5. ASSUME NEW k \in 1..n PROVE k - 1 \in 0..n /\ k \in 0..n /\ seq[k] \in C /\ st[k] = f[<<st[k - 1], seq[k]>>]
  BY <1>1, <1>2
<1>. HIDE DEF st
<1>6. 0 \in A
  <2>1. st[0] = <<>>
    BY <1>1, <1>4
  <2>2. 0 \in 0..n /\ <<>> \in Seq(C)
    BY EmptySeq
  <2>. QED BY <2>1, <2>2
<1>7. \A k \in 0..n : k \in A
  <2>1. ASSUME NEW k \in 1..n, k - 1 \in A PROVE k \in A
    <3>1. st[k - 1] \in Seq(C)
      BY <2>1
    <3>. QED BY <1>3, <1>5, <3>1
  <2>. HIDE DEF A
  <2>2. \A k \in 1..n : k - 1 \in A => k \in A
    BY <2>1
  <2>. QED BY <1>6, <2>2, Upwards
<1>8. ASSUME NEW k \in 1..n PROVE st[k] = IF seq[k] \in S THEN st[k - 1] ELSE Append(st[k - 1], seq[k])
  <2>1. st[k - 1] \in Seq(C) /\ seq[k] \in C /\ st[k] = f[<<st[k - 1], seq[k]>>]
    BY <1>5, <1>7
  <2>. QED BY <1>3, <2>1
<1>9. st \in [0..n -> Seq(C)]
  <2>1. \A k \in 0..n : st[k] \in Seq(C)
    BY <1>7
  <2>2. st = [k \in 0..n |-> st[k]]
    BY DEF st
  <2>. QED BY <2>1, <2>2
<1>10. st[0] = <<>> /\ st[n] = Without(seq, S)
  BY <1>1, <1>2, <1>4
<1>. QED BY <1>8, <1>9, <1>10 DEF Sifts

\* Two runs at one place.
Agree(u, v, m) == u[m] = v[m]

\* Sifted alike, so far.
Alike(s, S, t, T, m) == \A k \in 1..m : s[k] = t[k] /\ (s[k] \in S <=> t[k] \in T)

\* Filters of sequences that are alike have kept alike.
LEMMA SiftsOne ==
    ASSUME NEW n \in Nat, NEW m \in Nat, m <= n, NEW s, NEW t, NEW S, NEW T, NEW u, NEW v,
           Sifts(u, s, S, n), Sifts(v, t, T, m),
           Alike(s, S, t, T, m)
    PROVE  Agree(u, v, m)
<1>. DEFINE A == {k \in 0..m : u[k] = v[k]}
<1>1. 0 \in A
  BY DEF Sifts
<1>2. ASSUME NEW k \in 1..m, k - 1 \in A PROVE k \in A
  <2>1. k \in 0..m /\ u[k - 1] = v[k - 1] /\ k \in 1..n
    BY <1>2
  <2>. QED BY <2>1 DEF Sifts, Alike
<1>3. \A k \in 0..m : k \in A
  <2>. HIDE DEF A
  <2>1. \A k \in 1..m : k - 1 \in A => k \in A
    BY <1>2
  <2>. QED BY <1>1, <2>1, Upwards
<1>4. m \in 0..m
  OBVIOUS
<1>. QED BY <1>3, <1>4 DEF Agree

\* Filters that agree on every element leave the same.
LEMMA WithoutAgrees ==
    ASSUME NEW C, NEW s \in Seq(C), NEW S, NEW T, \A k \in 1..Len(s) : s[k] \in S <=> s[k] \in T
    PROVE  Without(s, S) = Without(s, T)
<1>. DEFINE n == Len(s)
<1>1. n \in Nat /\ s \in [1..n -> C]
  BY LenProperties
<1>2. \A k \in 1..n : s[k] \in S <=> s[k] \in T
  OBVIOUS
<1>. HIDE DEF n
<1>3. PICK u \in [0..n -> Seq(C)] : Sifts(u, s, S, n)
  BY <1>1, WithoutRuns
<1>4. PICK v \in [0..n -> Seq(C)] : Sifts(v, s, T, n)
  BY <1>1, WithoutRuns
<1>5. Alike(s, S, s, T, n)
  BY <1>2 DEF Alike
<1>6. u[n] = v[n]
  <2>1. n <= n /\ n \in Nat
    BY <1>1
  <2>2. Sifts(u, s, S, n) /\ Sifts(v, s, T, n)
    BY <1>3, <1>4
  <2>3. Agree(u, v, n)
    BY <1>5, <2>1, <2>2, SiftsOne
  <2>. QED BY <2>3 DEF Agree
<1>. QED BY <1>3, <1>4, <1>6 DEF Sifts

\* A filter takes one element after another.
Stays(seq, S, k, C) ==
    /\ Without(Upto(seq, k), S) \in Seq(C)
    /\ Without(Upto(seq, k), S) =
          IF seq[k] \in S THEN Without(Upto(seq, k - 1), S) ELSE Append(Without(Upto(seq, k - 1), S), seq[k])

\* What is kept of one more is one more or the same.
LEMMA WithoutGrows ==
    ASSUME NEW C, NEW n \in Nat, NEW seq \in [1..n -> C], NEW S
    PROVE  /\ Without(Upto(seq, 0), S) = <<>> /\ Without(Upto(seq, n), S) = Without(seq, S)
           /\ \A k \in 1..n : Stays(seq, S, k, C)
<1>1. PICK u \in [0..n -> Seq(C)] : Sifts(u, seq, S, n)
  BY WithoutRuns
<1>2. ASSUME NEW k \in 0..n PROVE Without(Upto(seq, k), S) = u[k]
  <2>. DEFINE t == Upto(seq, k)
  <2>1. k \in Nat /\ k <= n /\ t \in [1..k -> C] /\ Alike(seq, S, t, S, k)
    BY DEF Upto, Alike
  <2>. HIDE DEF t
  <2>2. PICK v \in [0..k -> Seq(C)] : Sifts(v, t, S, k)
    BY <2>1, WithoutRuns
  <2>3. u[k] = v[k]
    <3>1. k \in Nat /\ k <= n /\ Alike(seq, S, t, S, k) /\ n \in Nat
      BY <2>1
    <3>2. Sifts(u, seq, S, n) /\ Sifts(v, t, S, k)
      BY <1>1, <2>2
    <3>3. Agree(u, v, k)
      BY <3>1, <3>2, SiftsOne
    <3>. QED BY <3>3 DEF Agree
  <2>4. u[k] = v[k] /\ v[k] = Without(t, S)
    BY <2>2, <2>3 DEF Sifts
  <2>. QED BY <2>4 DEF t
<1>3. 0 \in 0..n /\ n \in 0..n /\ \A k \in 1..n : k \in 0..n /\ k - 1 \in 0..n
  OBVIOUS
<1>4. Without(Upto(seq, 0), S) = <<>> /\ Without(Upto(seq, n), S) = Without(seq, S)
  BY <1>1, <1>2, <1>3 DEF Sifts
<1>5. \A k \in 0..n : Without(Upto(seq, k), S) \in Seq(C)
  BY <1>1, <1>2
<1>6. ASSUME NEW k \in 1..n
      PROVE  Without(Upto(seq, k), S) =
                 IF seq[k] \in S THEN Without(Upto(seq, k - 1), S) ELSE Append(Without(Upto(seq, k - 1), S), seq[k])
  <2>1. u[k] = IF seq[k] \in S THEN u[k - 1] ELSE Append(u[k - 1], seq[k])
    BY <1>1 DEF Sifts
  <2>2. Without(Upto(seq, k), S) = u[k] /\ Without(Upto(seq, k - 1), S) = u[k - 1]
    BY <1>2, <1>3
  <2>. QED BY <2>1, <2>2
<1>7. \A k \in 1..n : Stays(seq, S, k, C)
  BY <1>3, <1>5, <1>6 DEF Stays
<1>. QED BY <1>4, <1>7

Trimmed(rows) == [k \in DOMAIN rows |-> TrimmedRow(rows[k])]

\* Where the reader is after the k-th row.
RowEnd(rows, k) ==
    At(Upto(Trimmed(rows), k - 1), Upto(TrimmedRow(rows[k]), Len(rows[k]) - 1), rows[k][Len(rows[k])], "held")

\* A line feed ends the row that the reader is within.
EndsWithBreak(C, rows, w, n) ==
    Reader(C)[<<At(rows, Upto(TrimmedRow(w), n - 1), w[n], "held"), Documents!LF>>]
        = At(Append(rows, TrimmedRow(w)), <<>>, <<>>, "plain")

\* A printed row, and the line break after it, lead to the next row.
LEMMA RowEnds ==
    ASSUME NEW C, NEW n \in Nat \ {0}, NEW w \in [1..n -> Seq(C)],
           NEW rows \in Seq(Seq(Seq(C))), Documents!LF \in C
    PROVE  /\ TrimmedRow(w) \in Seq(Seq(C)) /\ Len(TrimmedRow(w)) = n
           /\ TrimmedRow(w) = Append(Upto(TrimmedRow(w), n - 1), Documents!Trim(w[n]))
           /\ Upto(TrimmedRow(w), n - 1) \in Seq(Seq(C)) /\ w[n] \in Seq(C)
           /\ EndsWithBreak(C, rows, w, n)
<1>. DEFINE T == TrimmedRow(w)
            row == Upto(T, n - 1)
            r == At(rows, row, w[n], "held")
<1>1. n \in Nat /\ n \in 1..n /\ n \in 0..n /\ n - 1 \in 0..n /\ w[n] \in Seq(C)
  OBVIOUS
<1>2. T \in [1..n -> Seq(C)] /\ \A i \in 1..n : T[i] = Documents!Trim(w[i])
  <2>1. \A i \in 1..n : Documents!Trim(w[i]) \in Seq(C)
    BY TrimIsPart
  <2>. QED BY <2>1 DEF TrimmedRow
<1>. HIDE DEF T
<1>3. T \in Seq(Seq(C)) /\ Len(T) = n /\ Upto(T, n) = T /\ row \in Seq(Seq(C))
  BY <1>1, <1>2, FrontGrows
<1>4. Upto(T, n) = Append(Upto(T, n - 1), T[n])
  BY <1>1, <1>2, FrontAppends
<1>5. T = Append(row, Documents!Trim(w[n]))
  BY <1>1, <1>2, <1>3, <1>4
<1>. HIDE DEF row
<1>6. r \in Reading(C)
  BY <1>1, <1>3 DEF At, Reading
<1>7. Documents!ReadCharacter(r, Documents!LF, Documents!Comma)
         = At(Append(rows, Append(row, Documents!Trim(w[n]))), <<>>, <<>>, "plain")
  BY <1>1, <1>3, ReadsEnds
<1>. HIDE DEF r
<1>8. Reader(C)[<<r, Documents!LF>>] = Documents!ReadCharacter(r, Documents!LF, Documents!Comma)
  BY <1>6 DEF Reader
<1>9. Reader(C)[<<r, Documents!LF>>] = At(Append(rows, T), <<>>, <<>>, "plain")
  BY <1>5, <1>7, <1>8
<1>. QED BY <1>1, <1>3, <1>5, <1>9 DEF T, row, r, EndsWithBreak

\* A printed table leads the reader through all its rows.
LEMMA TableLeads ==
    ASSUME NEW C, Documents!Quote \in C, Documents!Comma \in C, Documents!LF \in C,
           NEW m \in Nat \ {0}, NEW rows \in [1..m -> Seq(Seq(C)) \ {<<>>}]
    PROVE  /\ Documents!Printed(rows) \in Seq(C)
           /\ Leads(Reader(C), Documents!AtStart, Documents!Printed(rows), RowEnd(rows, m))
           /\ Trimmed(rows) \in [1..m -> Seq(Seq(C))]
<1>. DEFINE f == Reader(C)
            T == Trimmed(rows)
            P(k) == PrintedRow(rows[k])
            sep == <<Documents!LF>>
            parts == [k \in 1..m |-> IF k = 1 THEN P(k) ELSE sep \o P(k)]
            start == At(<<>>, <<>>, <<>>, "plain")
            st == [k \in 0..m |-> IF k = 0 THEN start ELSE RowEnd(rows, k)]
            flat == FlattenSeq(parts)
            N(k) == Len(rows[k])
<1>1. m \in Nat /\ 1 \in 1..m /\ 0 \in 0..m /\ m \in 0..m /\ m \in 1..m /\ m # 0
  OBVIOUS
<1>2. Documents!Printed(rows) = flat
  <2>. DEFINE lines == [k \in DOMAIN rows |-> P(k)]
              joined == [i \in DOMAIN lines |-> IF i = 1 THEN lines[i] ELSE sep \o lines[i]]
  <2>1. Documents!Printed(rows) = Documents!FlattenSeq(joined)
    BY DEF Documents!Printed, Documents!Joined, PrintedRow
  <2>2. DOMAIN lines = 1..m /\ \A i \in 1..m : lines[i] = P(i)
    OBVIOUS
  <2>. HIDE DEF lines, P, sep
  <2>3. joined = parts
    BY <2>2
  <2>. HIDE DEF joined, parts
  <2>. QED BY <2>1, <2>3, SameFlat
<1>3. ASSUME NEW k \in 1..m PROVE N(k) \in Nat \ {0} /\ rows[k] \in [1..N(k) -> Seq(C)]
  <2>1. rows[k] \in Seq(Seq(C)) /\ rows[k] # <<>>
    OBVIOUS
  <2>. QED BY <2>1, LenProperties, EmptySeq
<1>. HIDE DEF N
<1>4. ASSUME NEW k \in 1..m PROVE TrimmedRow(rows[k]) \in Seq(Seq(C))
  <2>1. \A i \in 1..N(k) : rows[k][i] \in Seq(C) /\ Documents!Trim(rows[k][i]) \in Seq(C)
    BY <1>3, TrimIsPart
  <2>2. TrimmedRow(rows[k]) \in [1..N(k) -> Seq(C)]
    BY <1>3, <2>1 DEF TrimmedRow
  <2>. HIDE DEF N
  <2>3. N(k) \in Nat
    BY <1>3
  <2>. QED BY <2>2, <2>3, FrontGrows
<1>5. T \in [1..m -> Seq(Seq(C))] /\ \A k \in 1..m : T[k] = TrimmedRow(rows[k])
  BY <1>4 DEF Trimmed
<1>. HIDE DEF T, st, flat, start
<1>6. Upto(T, 0) = <<>> /\ \A k \in 0..m : Upto(T, k) \in Seq(Seq(Seq(C)))
  BY <1>1, <1>5, FrontGrows
<1>7. ASSUME NEW k \in 1..m
      PROVE  /\ P(k) \in Seq(C)
             /\ Leads(f, At(Upto(T, k - 1), <<>>, <<>>, "plain"), P(k), RowEnd(rows, k))
  <2>. DEFINE w == rows[k]
              n == N(k)
              before == Upto(T, k - 1)
  <2>1. k - 1 \in 0..m /\ n \in Nat \ {0} /\ w \in [1..n -> Seq(C)]
    BY <1>3
  <2>2. before \in Seq(Seq(Seq(C)))
    BY <1>6, <2>1
  <2>3. RowEnd(rows, k) = At(before, Upto(TrimmedRow(w), n - 1), w[n], "held")
    BY DEF RowEnd, T, N
  <2>. HIDE DEF w, n, before
  <2>4. Reads(Reader(C), C, C) /\ C \in SUBSET C
    BY ReadersRead
  <2>5. /\ PrintedRow(w) \in Seq(C)
        /\ Leads(f, At(before, <<>>, <<>>, "plain"), PrintedRow(w),
                    At(before, Upto(TrimmedRow(w), n - 1), w[n], "held"))
    <3>. HIDE DEF f
    <3>1. Reads(f, C, C)
      BY <2>4 DEF f
    <3>. QED BY <2>1, <2>2, <2>4, <3>1, RowLeads
  <2>. QED BY <2>3, <2>5 DEF w, before
<1>8. ASSUME NEW k \in 1..m PROVE f[<<RowEnd(rows, k), Documents!LF>>] = At(Upto(T, k), <<>>, <<>>, "plain")
  <2>. DEFINE w == rows[k]
              n == N(k)
              before == Upto(T, k - 1)
  <2>1. k - 1 \in 0..m /\ n \in Nat \ {0} /\ w \in [1..n -> Seq(C)]
    BY <1>3
  <2>2. before \in Seq(Seq(Seq(C)))
    BY <1>6, <2>1
  <2>3. RowEnd(rows, k) = At(before, Upto(TrimmedRow(w), n - 1), w[n], "held")
    BY DEF RowEnd, T, N
  <2>4. Upto(T, k) = Append(before, TrimmedRow(w))
    <3>1. Upto(T, k) = Append(Upto(T, k - 1), T[k])
      BY <1>1, <1>5, FrontAppends
    <3>. QED BY <1>5, <3>1
  <2>. HIDE DEF w, n, before
  <2>5. Reader(C)[<<At(before, Upto(TrimmedRow(w), n - 1), w[n], "held"), Documents!LF>>]
           = At(Append(before, TrimmedRow(w)), <<>>, <<>>, "plain")
    <3>1. EndsWithBreak(C, before, w, n)
      BY <2>1, <2>2, RowEnds
    <3>. QED BY <3>1 DEF EndsWithBreak
  <2>. QED BY <2>3, <2>4, <2>5
<1>9. sep \in Seq(C) /\ \A k \in 1..m : sep \o P(k) \in Seq(C)
  <2>1. sep \in Seq(C)
    OBVIOUS
  <2>. HIDE DEF sep, P
  <2>. QED BY <1>7, <2>1, ConcatProperties
<1>10. parts \in [1..m -> Seq(C)] /\ parts[1] = P(1) /\ \A k \in 1..m : k # 1 => parts[k] = sep \o P(k)
  <2>. HIDE DEF P
  <2>. QED BY <1>1, <1>7, <1>9
<1>11. st[0] = start /\ \A k \in 1..m : st[k] = RowEnd(rows, k)
  BY <1>1 DEF st
<1>. HIDE DEF parts, P, sep, f
<1>12. ASSUME NEW k \in 1..m PROVE Leads(f, st[k - 1], parts[k], st[k])
  <2>1. CASE k = 1
    <3>1. k - 1 = 0
      BY <2>1
    <3>2. st[k - 1] = At(Upto(T, k - 1), <<>>, <<>>, "plain") /\ parts[k] = P(k) /\ st[k] = RowEnd(rows, k)
      BY <1>6, <1>10, <1>11, <2>1, <3>1 DEF start
    <3>. QED BY <1>7, <3>2
  <2>2. CASE k # 1
    <3>. DEFINE j == k - 1
                mid == At(Upto(T, j), <<>>, <<>>, "plain")
    <3>1. j \in 1..m
      BY <1>1, <2>2
    <3>2. Leads(f, mid, P(k), st[k])
      BY <1>7, <1>11
    <3>. HIDE DEF j
    <3>3. f[<<st[j], Documents!LF>>] = mid
      BY <1>8, <1>11, <3>1
    <3>. HIDE DEF mid
    <3>4. Leads(f, st[j], sep, mid)
      <4>1. Leads(f, st[j], <<Documents!LF>>, f[<<st[j], Documents!LF>>])
        BY LeadsOnce
      <4>. QED BY <3>3, <4>1 DEF sep
    <3>5. P(k) \in Seq(C)
      BY <1>7
    <3>6. Leads(f, st[j], sep \o P(k), st[k])
      BY <1>9, <3>2, <3>4, <3>5, LeadsOn
    <3>. QED BY <1>10, <2>2, <3>6 DEF j
  <2>. QED BY <2>1, <2>2
<1>13. flat \in Seq(C) /\ Leads(f, st[0], flat, st[m])
  BY <1>1, <1>10, <1>12, LeadsFlat DEF flat
<1>14. st[0] = Documents!AtStart /\ st[m] = RowEnd(rows, m)
  BY <1>1, <1>11 DEF start, At, Documents!AtStart
<1>. QED BY <1>2, <1>5, <1>13, <1>14 DEF f, T

\* One filter, under any of its names.
LEMMA SameWithout == ASSUME NEW s, NEW S PROVE Documents!Without(s, S) = Without(s, S) /\ Exports!Without(s, S) = Without(s, S)
  BY DEF Documents!Without, Exports!Without, Without, Documents!FoldLeft, Exports!FoldLeft, FoldLeft,
         Documents!MapThenFoldSet, Exports!MapThenFoldSet, MapThenFoldSet, Documents!Max, Exports!Max, Max

\* A filter that meets nothing to leave out keeps all.
LEMMA WithoutNone ==
    ASSUME NEW C, NEW n \in Nat, NEW seq \in [1..n -> C], NEW S, \A k \in 1..n : seq[k] \notin S
    PROVE  Without(seq, S) = seq
<1>. DEFINE A == {k \in 0..n : Without(Upto(seq, k), S) = Upto(seq, k)}
<1>1. /\ Without(Upto(seq, 0), S) = <<>> /\ Without(Upto(seq, n), S) = Without(seq, S)
      /\ \A k \in 1..n : Stays(seq, S, k, C)
  BY WithoutGrows
<1>2. Upto(seq, 0) = <<>> /\ Upto(seq, n) = seq
  BY FrontGrows, ZenonT(60)
<1>3. 0 \in A
  BY <1>1, <1>2
<1>4. ASSUME NEW k \in 1..n, k - 1 \in A PROVE k \in A
  <2>1. Upto(seq, k) = Append(Upto(seq, k - 1), seq[k])
    BY FrontAppends
  <2>2. k \in 0..n /\ Without(Upto(seq, k - 1), S) = Upto(seq, k - 1)
    BY <1>4
  <2>3. Without(Upto(seq, k), S) = Append(Without(Upto(seq, k - 1), S), seq[k])
    BY <1>1 DEF Stays
  <2>. QED BY <2>1, <2>2, <2>3
<1>5. n \in A
  <2>. HIDE DEF A
  <2>1. \A k \in 1..n : k - 1 \in A => k \in A
    BY <1>4
  <2>2. \A k \in 0..n : k \in A
    BY <1>3, <2>1, Upwards
  <2>. QED BY <2>2
<1>. QED BY <1>1, <1>2, <1>5

Empty(row) == \A i \in DOMAIN row : row[i] = <<>>

EmptyRows(table) == {row \in Documents!ToSet(table) : Empty(row)}

\* The first k of a sequence are k of its elements.
LEMMA FrontKeeps ==
    ASSUME NEW C, NEW n \in Nat, NEW seq \in [1..n -> C], NEW k \in 0..n
    PROVE  Upto(seq, k) \in Seq(C) /\ Len(Upto(seq, k)) = k
BY FrontGrows

\* All but the last.
LEMMA UptoLast ==
    ASSUME NEW W, NEW m, m \in Nat, m # 0, NEW T, T \in [1..m -> W]
    PROVE  Upto(T, m - 1) \in Seq(W) /\ Len(Upto(T, m - 1)) = m - 1 /\ T \in Seq(W) /\ Upto(T, m) = T
<1>. DEFINE j == m - 1
<1>1. j \in 0..m
  OBVIOUS
<1>. HIDE DEF j
<1>2. Upto(T, j) \in Seq(W) /\ Len(Upto(T, j)) = j
  BY <1>1, FrontKeeps, SMTT(60)
<1>3. T \in Seq(W) /\ Upto(T, m) = T
  BY FrontGrows
<1>. QED BY <1>2, <1>3 DEF j

\* An empty row at the end is left out, as if it were not there.
LEMMA LastEmpty ==
    ASSUME NEW W, NEW m \in Nat, m \in 1..m, NEW T \in [1..m -> W], T[m] = <<<<>>>>
    PROVE  Without(T, EmptyRows(T)) = Without(Upto(T, m - 1), EmptyRows(Upto(T, m - 1)))
<1>. DEFINE before == Upto(T, m - 1)
            E1 == EmptyRows(before)
            E2 == EmptyRows(T)
<1>1. m - 1 \in 0..m /\ m - 1 \in Nat /\ before \in [1..(m - 1) -> W] /\ \A k \in 1..(m - 1) : before[k] = T[k] /\ k \in 1..m
  BY DEF Upto
<1>2. T[m] \in E2
  <2>1. T[m] \in Documents!ToSet(T)
    BY DEF Documents!ToSet
  <2>2. Empty(<<<<>>>>)
    BY DEF Empty
  <2>. QED BY <2>1, <2>2 DEF EmptyRows
<1>3. \A k \in 1..(m - 1) : before[k] \in E1 <=> before[k] \in E2
  <2>1. ASSUME NEW k \in 1..(m - 1) PROVE before[k] \in Documents!ToSet(before) /\ before[k] \in Documents!ToSet(T)
    BY <1>1 DEF Documents!ToSet
  <2>. QED BY <2>1 DEF EmptyRows
<1>. HIDE DEF E1, E2
<1>4. Without(before, E2) = Without(T, E2)
  <2>1. Without(Upto(T, m), E2) = Without(T, E2) /\ \A k \in 1..m : Stays(T, E2, k, W)
    BY WithoutGrows
  <2>. QED BY <1>2, <2>1 DEF Stays
<1>. HIDE DEF before
<1>5. before \in Seq(W) /\ Len(before) = m - 1
  BY <1>1, FrontGrows
<1>6. Without(before, E1) = Without(before, E2)
  BY <1>3, <1>5, WithoutAgrees
<1>. QED BY <1>4, <1>6 DEF before, E1, E2

\* What the reader makes of every printed table: the cells trimmed, the empty
\* rows left out.
LEMMA TableReads ==
    ASSUME NEW C, Documents!Quote \in C, Documents!Comma \in C, Documents!LF \in C,
           NEW m \in Nat \ {0}, NEW rows \in [1..m -> Seq(Seq(C)) \ {<<>>}]
    PROVE  /\ Documents!Printed(rows) \in Seq(C)
           /\ Trimmed(rows) \in [1..m -> Seq(Seq(C))]
           /\ Documents!parseCsvRows(Documents!Printed(rows), Documents!Comma)
                 = Without(Trimmed(rows), EmptyRows(Trimmed(rows)))
<1>. DEFINE T == Trimmed(rows)
            text == Documents!Printed(rows)
            end == Documents!FoldLeft(LAMBDA r, c : Documents!ReadCharacter(r, c, Documents!Comma), Documents!AtStart, text)
            last == IF end.cell # <<>> \/ end.row # <<>> THEN Documents!EndRow(end) ELSE end
            w == rows[m]
            n == Len(rows[m])
            before == Upto(T, m - 1)
            row == Upto(TrimmedRow(w), n - 1)
<1>1. /\ text \in Seq(C) /\ Leads(Reader(C), Documents!AtStart, text, RowEnd(rows, m))
      /\ T \in [1..m -> Seq(Seq(C))]
  BY TableLeads
<1>2. Documents!parseCsvRows(text, Documents!Comma) = Documents!Without(last.rows, {x \in Documents!ToSet(last.rows) : \A i \in DOMAIN x : x[i] = <<>>})
  BY DEF Documents!parseCsvRows
<1>3. Leads(Reader(C), Documents!AtStart, text, end) /\ end \in Reading(C)
  <2>. DEFINE l == Len(text)
  <2>1. l \in Nat /\ text \in [1..l -> C]
    BY <1>1, LenProperties
  <2>. HIDE DEF l, text
  <2>. QED BY <2>1, ReaderReads
<1>4. RowEnd(rows, m) = At(before, row, w[n], "held")
  BY DEF RowEnd
<1>. HIDE DEF end, text
<1>5. end = At(before, row, w[n], "held")
  BY <1>1, <1>3, <1>4, LeadsToOne
<1>6. m \in Nat /\ m \in 1..m /\ m - 1 \in 0..m /\ n \in Nat \ {0} /\ w \in [1..n -> Seq(C)]
  <2>1. rows[m] \in Seq(Seq(C)) /\ rows[m] # <<>>
    OBVIOUS
  <2>. QED BY <2>1, LenProperties, EmptySeq
<1>7. T[m] = TrimmedRow(w)
  BY <1>6 DEF Trimmed
<1>. HIDE DEF T
<1>8. before \in Seq(Seq(Seq(C))) /\ Len(before) = m - 1 /\ Upto(T, m) = T /\ T \in Seq(Seq(Seq(C))) /\ DOMAIN T = 1..m
  <2>. DEFINE W == Seq(Seq(C))
  <2>1. T \in [1..m -> W] /\ \A k \in 1..m : T[k] \in W
    BY <1>1
  <2>. HIDE DEF W, before
  <2>2. m \in Nat /\ m - 1 \in 0..m
    BY <1>6
  <2>3. m # 0
    OBVIOUS
  <2>4. Upto(T, m - 1) \in Seq(W) /\ Len(Upto(T, m - 1)) = m - 1 /\ T \in Seq(W) /\ Upto(T, m) = T
    BY ONLY <2>1, <2>2, <2>3, UptoLast, ZenonT(60)
  <2>. QED BY <2>1, <2>4 DEF W, before
<1>9. T = Append(before, TrimmedRow(w))
  <2>1. Upto(T, m) = Append(Upto(T, m - 1), T[m])
    BY <1>1, <1>6, FrontAppends, ZenonT(60)
  <2>. QED BY <1>7, <1>8, <2>1
<1>. HIDE DEF w, n
<1>10. /\ TrimmedRow(w) = Append(row, Documents!Trim(w[n])) /\ TrimmedRow(w) \in Seq(Seq(C))
       /\ row \in Seq(Seq(C)) /\ w[n] \in Seq(C)
  <2>1. <<>> \in Seq(Seq(Seq(C)))
    BY EmptySeq
  <2>. QED BY <1>6, <2>1, RowEnds
<1>11. Documents!EndRow(end) = At(T, <<>>, <<>>, "plain")
  <2>1. Documents!EndRow(end) = At(Append(end.rows, Append(end.row, Documents!Trim(end.cell))), <<>>, <<>>, "plain")
    BY <1>3, MovesOfReader
  <2>2. end.rows = before /\ end.row = row /\ end.cell = w[n]
    BY <1>5 DEF At
  <2>. QED BY <1>9, <1>10, <2>1, <2>2
<1>12. end.rows = before /\ end.row = row /\ end.cell = w[n]
  BY <1>5 DEF At
<1>13. Without(last.rows, EmptyRows(last.rows)) = Without(T, EmptyRows(T))
  <2>1. CASE w[n] # <<>> \/ row # <<>>
    BY <1>11, <1>12, <2>1 DEF At
  <2>2. CASE w[n] = <<>> /\ row = <<>>
    <3>1. last.rows = before
      BY <1>12, <2>2
    <3>2. T[m] = <<<<>>>>
      BY <1>7, <1>10, <2>2, TrimEmpty
    <3>3. Without(T, EmptyRows(T)) = Without(Upto(T, m - 1), EmptyRows(Upto(T, m - 1)))
      <4>. DEFINE W == Seq(Seq(C))
      <4>1. T \in [1..m -> W] /\ m \in Nat /\ m \in 1..m
        BY <1>1, <1>6
      <4>. HIDE DEF W
      <4>. QED BY <3>2, <4>1, LastEmpty
    <3>. QED BY <3>1, <3>3
  <2>. QED BY <2>1, <2>2
<1>. HIDE DEF last
<1>14. {x \in Documents!ToSet(last.rows) : \A i \in DOMAIN x : x[i] = <<>>} = EmptyRows(last.rows)
  BY DEF EmptyRows, Empty
<1>15. Documents!Without(last.rows, EmptyRows(last.rows)) = Without(last.rows, EmptyRows(last.rows))
  BY SameWithout
<1>. QED BY <1>1, <1>2, <1>13, <1>14, <1>15 DEF T, text

\* The table that the reader gives back: a cell is what is left of it when it
\* is trimmed.
Whole(table, C) ==
    /\ \E m \in Nat \ {0} : table \in [1..m -> Seq(Seq(C))]
    /\ \A k \in DOMAIN table : /\ \E i \in DOMAIN table[k] : table[k][i] # <<>>
                               /\ \A i \in DOMAIN table[k] : Documents!Trim(table[k][i]) = table[k][i]

\* What an export prints the reader reads back exactly, commas, quotes and line
\* breaks within the cells included, whatever else the alphabet holds; and what
\* it reads it reads again, for a cell that was trimmed is.
\* (exportCsv, parseCsvRows)
THEOREM TablesReadBack ==
    ASSUME NEW C, Documents!Quote \in C, Documents!Comma \in C, Documents!LF \in C,
           NEW table, Whole(table, C)
    PROVE  Documents!parseCsvRows(Documents!Printed(table), Documents!Comma) = table
<1>1. PICK m \in Nat \ {0} : table \in [1..m -> Seq(Seq(C))]
  BY DEF Whole
<1>2. ASSUME NEW k \in 1..m PROVE /\ TrimmedRow(table[k]) = table[k] /\ ~Empty(table[k]) /\ table[k] # <<>>
                                  /\ table[k] \in Seq(Seq(C))
  <2>. DEFINE w == table[k]
              n == Len(w)
  <2>1. w \in Seq(Seq(C)) /\ \E i \in DOMAIN w : w[i] # <<>>
    BY <1>1 DEF Whole
  <2>2. \A i \in DOMAIN w : Documents!Trim(w[i]) = w[i]
    BY <1>1 DEF Whole
  <2>3. n \in Nat /\ w \in [1..n -> Seq(C)] /\ DOMAIN w = 1..n
    BY <2>1, LenProperties
  <2>. HIDE DEF w, n
  <2>4. TrimmedRow(w) = w
    BY <2>2, <2>3 DEF TrimmedRow
  <2>5. w # <<>>
    BY <2>1
  <2>. QED BY <2>1, <2>4, <2>5 DEF w, Empty
<1>3. table \in [1..m -> Seq(Seq(C)) \ {<<>>}]
  BY <1>1, <1>2
<1>4. Trimmed(table) = table
  BY <1>1, <1>2 DEF Trimmed
<1>5. Without(table, EmptyRows(table)) = table
  <2>1. \A k \in 1..m : table[k] \notin EmptyRows(table)
    BY <1>2 DEF EmptyRows
  <2>2. m \in Nat
    OBVIOUS
  <2>. DEFINE E == EmptyRows(table)
  <2>3. \A k \in 1..m : table[k] \notin E
    BY <2>1
  <2>. HIDE DEF E
  <2>4. Without(table, E) = table
    BY <1>1, <2>2, <2>3, WithoutNone
  <2>. QED BY <2>4 DEF E
<1>6. Documents!parseCsvRows(Documents!Printed(table), Documents!Comma)
         = Without(Trimmed(table), EmptyRows(Trimmed(table)))
  BY <1>3, TableReads
<1>. QED BY <1>4, <1>5, <1>6

\* A table of one row is printed as the row.
LEMMA PrintedOnce ==
    ASSUME NEW C, NEW w, PrintedRow(w) \in Seq(C)
    PROVE  Documents!Printed(<<w>>) = PrintedRow(w)
<1>. DEFINE P == PrintedRow(w)
            parts == [k \in 1..1 |-> P]
            lines == [k \in DOMAIN <<w>> |-> PrintedRow(<<w>>[k])]
            joined == [i \in DOMAIN lines |-> IF i = 1 THEN lines[i] ELSE <<Documents!LF>> \o lines[i]]
<1>1. Documents!Printed(<<w>>) = Documents!FlattenSeq(joined)
  BY DEF Documents!Printed, Documents!Joined, PrintedRow
<1>2. DOMAIN <<w>> = 1..1 /\ <<w>>[1] = w
  OBVIOUS
<1>3. DOMAIN lines = 1..1 /\ lines[1] = P
  BY <1>2
<1>4. joined = parts
  <2>. HIDE DEF lines, P
  <2>1. \A i \in 1..1 : i = 1
    OBVIOUS
  <2>. QED BY <1>3, <2>1
<1>5. parts \in [1..1 -> Seq(C)] /\ parts[1] = P /\ 1 \in Nat \ {0}
  OBVIOUS
<1>. HIDE DEF joined, parts
<1>6. PICK F \in [0..1 -> Seq(C)] : FlatBy(F, parts, 1)
  BY <1>5, FlatGrows
<1>7. FlattenSeq(parts) = <<>> \o P
  <2>1. 1 \in 1..1 /\ 1 - 1 = 0
    OBVIOUS
  <2>. QED BY <1>5, <1>6, <2>1 DEF FlatBy
<1>8. <<>> \o P = P
  OBVIOUS
<1>. QED BY <1>1, <1>4, <1>7, <1>8, SameFlat

\* What the reader of one line makes of a printed row without a line break.
LEMMA LineReads ==
    ASSUME NEW C, Documents!Quote \in C, Documents!Comma \in C,
           NEW n \in Nat \ {0}, NEW w \in [1..n -> Seq(C \ {Documents!CR, Documents!LF})], Documents!LF \in C
    PROVE  Documents!parseCsvRow(Documents!Printed(<<w>>)) = TrimmedRow(w)
<1>. DEFINE D == C \ {Documents!CR, Documents!LF}
            f == LineReader(C)
            text == Documents!Printed(<<w>>)
            end == Documents!FoldLeft(LAMBDA r, c : IF c \in {Documents!CR, Documents!LF}
                              THEN Documents!Take(r, c, IF r.mode = "quoted" THEN "quoted" ELSE "plain")
                              ELSE Documents!ReadCharacter(r, c, Documents!Comma), Documents!AtStart, text)
            row == Upto(TrimmedRow(w), n - 1)
            start == At(<<>>, <<>>, <<>>, "plain")
<1>1. D \in SUBSET C /\ Documents!Quote \in D /\ Documents!Comma \in D /\ w \in [1..n -> Seq(D)]
  BY DEF Documents!Quote, Documents!Comma, Documents!CR, Documents!LF
<1>2. Reads(f, C, D)
  BY ReadersRead
<1>3. <<>> \in Seq(Seq(Seq(C)))
  BY EmptySeq
<1>4. w \in [1..n -> Seq(C)]
  BY <1>1, SeqMonotonic
<1>5. Documents!parseCsvRow(text) = Documents!EndCell(end).row
  BY DEF Documents!parseCsvRow
<1>. HIDE DEF D, f, end
<1>6. /\ PrintedRow(w) \in Seq(D)
      /\ Leads(f, At(<<>>, <<>>, <<>>, "plain"), PrintedRow(w), At(<<>>, row, w[n], "held"))
  BY <1>1, <1>2, <1>3, RowLeads
<1>7. text = PrintedRow(w) /\ text \in Seq(C)
  BY <1>1, <1>6, PrintedOnce, SeqMonotonic
<1>8. Leads(f, Documents!AtStart, text, end) /\ end \in Reading(C)
  <2>. DEFINE l == Len(text)
  <2>1. l \in Nat /\ text \in [1..l -> C]
    BY <1>7, LenProperties
  <2>. HIDE DEF l, text
  <2>. QED BY <2>1, LineReaderReads DEF end, f
<1>9. end = At(<<>>, row, w[n], "held")
  <2>1. Documents!AtStart = start
    BY DEF Documents!AtStart, At
  <2>. HIDE DEF text, start, row
  <2>2. Leads(f, start, text, At(<<>>, row, w[n], "held"))
    BY <1>6, <1>7 DEF start
  <2>. QED BY <1>7, <1>8, <2>1, <2>2, LeadsToOne
<1>10. TrimmedRow(w) = Append(row, Documents!Trim(w[n]))
  BY <1>3, <1>4, RowEnds
<1>11. Documents!EndCell(end) = At(end.rows, Append(end.row, Documents!Trim(end.cell)), <<>>, "plain")
  BY <1>8, MovesOfReader
<1>12. end.row = row /\ end.cell = w[n]
  BY <1>9 DEF At
<1>. HIDE DEF row, text
<1>13. Documents!EndCell(end).row = Append(end.row, Documents!Trim(end.cell))
  BY <1>11 DEF At
<1>. QED BY <1>5, <1>10, <1>12, <1>13 DEF text

\* A row of trimmed cells stays as it is.
LEMMA RowIsWhole ==
    ASSUME NEW C, NEW n \in Nat, NEW w \in [1..n -> Seq(C)], \A i \in 1..n : Documents!Trim(w[i]) = w[i]
    PROVE  TrimmedRow(w) = w
  BY DEF TrimmedRow

\* The cells of the runs are trimmed texts.
LEMMA CellIsText ==
    ASSUME NEW t \in Cells
    PROVE  t \in Seq(Alphabet) /\ Documents!Trim(t) = t
<1>1. PICK k \in 0..2 : t \in [1..k -> Alphabet]
  BY DEF Cells, Lists
<1>2. k \in Nat
  OBVIOUS
<1>3. t \in Seq(Alphabet)
  BY <1>1, <1>2, FrontGrows
<1>. QED BY <1>3 DEF Cells

\* The files that the runs read: tables of one or two cells.
LEMMA FilesAreTables ==
    ASSUME NEW x \in FileInputs
    PROVE  \E m, n \in 1..2 :
              /\ x.rows \in [1..m -> Seq(Seq(Alphabet))]
              /\ x.rows[1] \in [1..n -> Seq(Alphabet)]
              /\ \A k \in 1..m : \A i \in DOMAIN x.rows[k] : Documents!Trim(x.rows[k][i]) = x.rows[k][i]
<1>1. PICK a \in Cells, b \in Cells : x.rows = <<<<a, b>>>> \/ x.rows = <<<<a>>, <<b>>>>
  BY DEF FileInputs
<1>2. /\ a \in Seq(Alphabet) /\ Documents!Trim(a) = a
      /\ b \in Seq(Alphabet) /\ Documents!Trim(b) = b
  BY CellIsText
<1>3. CASE x.rows = <<<<a, b>>>>
  <2>1. <<a, b>> \in Seq(Seq(Alphabet)) /\ <<a, b>> \in [1..2 -> Seq(Alphabet)] /\ DOMAIN <<a, b>> = 1..2
    BY <1>2
  <2>2. \A i \in 1..2 : Documents!Trim(<<a, b>>[i]) = <<a, b>>[i]
    <3>1. ASSUME NEW i \in 1..2 PROVE Documents!Trim(<<a, b>>[i]) = <<a, b>>[i]
      <4>1. i = 1 \/ i = 2
        OBVIOUS
      <4>2. <<a, b>>[1] = a /\ <<a, b>>[2] = b
        OBVIOUS
      <4>. QED BY <1>2, <4>1, <4>2
    <3>. QED BY <3>1
  <2>. DEFINE w == <<a, b>>
  <2>. HIDE DEF w
  <2>3. x.rows = <<w>>
    BY <1>3 DEF w
  <2>4. w \in Seq(Seq(Alphabet)) /\ w \in [1..2 -> Seq(Alphabet)] /\ \A i \in DOMAIN w : Documents!Trim(w[i]) = w[i]
    BY <2>1, <2>2 DEF w
  <2>5. x.rows \in [1..1 -> Seq(Seq(Alphabet))] /\ x.rows[1] = w /\ \A k \in 1..1 : x.rows[k] = w
    BY <2>3, <2>4
  <2>6. 1 \in 1..2 /\ 2 \in 1..2
    OBVIOUS
  <2>. QED BY <2>4, <2>5, <2>6
<1>4. CASE x.rows = <<<<a>>, <<b>>>>
  <2>. DEFINE v == <<a>>
              w == <<b>>
  <2>1. v \in Seq(Seq(Alphabet)) /\ v \in [1..1 -> Seq(Alphabet)] /\ \A i \in DOMAIN v : Documents!Trim(v[i]) = v[i]
    BY <1>2
  <2>2. w \in Seq(Seq(Alphabet)) /\ w \in [1..1 -> Seq(Alphabet)] /\ \A i \in DOMAIN w : Documents!Trim(w[i]) = w[i]
    BY <1>2
  <2>3. x.rows = <<v, w>>
    BY <1>4
  <2>. HIDE DEF v, w
  <2>4. x.rows \in [1..2 -> Seq(Seq(Alphabet))] /\ x.rows[1] = v /\ \A k \in 1..2 : x.rows[k] = v \/ x.rows[k] = w
    BY <2>1, <2>2, <2>3
  <2>5. 1 \in 1..2 /\ 2 \in 1..2
    OBVIOUS
  <2>. QED BY <2>1, <2>2, <2>4, <2>5
<1>. QED BY <1>1, <1>3, <1>4

\* What is printed of the files of the runs is read back.
LEMMA FilesRead ==
    ASSUME NEW x \in FileInputs
    PROVE  /\ (\A k \in DOMAIN x.rows : \E i \in DOMAIN x.rows[k] : x.rows[k][i] # <<>>)
                 => Documents!parseCsvRows(Documents!Printed(x.rows), Documents!Comma) = x.rows
           /\ (\A i \in DOMAIN x.rows[1] : Documents!ToSet(x.rows[1][i]) \cap {"cr", "lf"} = {})
                 => Documents!parseCsvRow(Documents!Printed(<<x.rows[1]>>)) = x.rows[1]
<1>. DEFINE C == Alphabet
            table == x.rows
            w == x.rows[1]
<1>1. PICK m \in 1..2, n \in 1..2 :
              /\ table \in [1..m -> Seq(Seq(C))]
              /\ w \in [1..n -> Seq(C)]
              /\ \A k \in 1..m : \A i \in DOMAIN table[k] : Documents!Trim(table[k][i]) = table[k][i]
  BY FilesAreTables
<1>2. Documents!Quote \in C /\ Documents!Comma \in C /\ Documents!LF \in C
  BY DEF Alphabet, Documents!Quote, Documents!Comma, Documents!LF
<1>3. m \in Nat \ {0} /\ n \in Nat \ {0} /\ 1 \in 1..m /\ w = table[1] /\ DOMAIN table = 1..m /\ DOMAIN w = 1..n /\ n \in Nat
  BY <1>1
<1>4. \A i \in 1..n : Documents!Trim(w[i]) = w[i]
  BY <1>1, <1>3
<1>. HIDE DEF C, table, w
<1>5. ASSUME \A k \in DOMAIN table : \E i \in DOMAIN table[k] : table[k][i] # <<>>
      PROVE  Documents!parseCsvRows(Documents!Printed(table), Documents!Comma) = table
  <2>1. Whole(table, C)
    BY <1>1, <1>3, <1>5 DEF Whole
  <2>. QED BY <1>2, <2>1, TablesReadBack
<1>6. ASSUME \A i \in DOMAIN w : Documents!ToSet(w[i]) \cap {"cr", "lf"} = {}
      PROVE  Documents!parseCsvRow(Documents!Printed(<<w>>)) = w
  <2>. DEFINE D == C \ {Documents!CR, Documents!LF}
  <2>1. ASSUME NEW i \in 1..n PROVE w[i] \in Seq(D)
    <3>. DEFINE t == w[i]
                l == Len(t)
    <3>1. t \in Seq(C) /\ Documents!ToSet(t) \cap {"cr", "lf"} = {}
      BY <1>1, <1>3, <1>6
    <3>2. l \in Nat /\ t \in [1..l -> C] /\ DOMAIN t = 1..l
      BY <3>1, LenProperties
    <3>. HIDE DEF t, l
    <3>3. \A k \in 1..l : t[k] \in Documents!ToSet(t)
      BY <3>2 DEF Documents!ToSet
    <3>4. \A k \in 1..l : t[k] \in D
      BY <3>1, <3>2, <3>3 DEF Documents!CR, Documents!LF
    <3>. HIDE DEF D
    <3>5. t \in [1..l -> D]
      BY <3>2, <3>4
    <3>6. t \in Seq(D)
      BY <3>2, <3>5, FrontGrows
    <3>. QED BY <3>6 DEF t
  <2>2. w \in [1..n -> Seq(D)]
    BY <1>1, <2>1
  <2>3. TrimmedRow(w) = w
    BY <1>1, <1>3, <1>4, RowIsWhole
  <2>4. Documents!parseCsvRow(Documents!Printed(<<w>>)) = TrimmedRow(w)
    BY <1>2, <1>3, <2>2, LineReads
  <2>. QED BY <2>3, <2>4
<1>. QED BY <1>5, <1>6 DEF table, w

\* What every step keeps the end has.
Closed(f, R, C) == \A r \in R, c \in C : f[<<r, c>>] \in R

\* What every step keeps, a text keeps.
LEMMA LeadsWithin ==
    ASSUME NEW C, NEW s \in Seq(C), NEW f, NEW a, NEW b, NEW R, a \in R, Leads(f, a, s, b), Closed(f, R, C)
    PROVE  b \in R
<1>1. PICK u : u[0] = a /\ u[Len(s)] = b /\ \A k \in 1..Len(s) : u[k] = f[<<u[k - 1], s[k]>>]
  BY DEF Leads
<1>. DEFINE A == {k \in 0..Len(s) : u[k] \in R}
<1>2. Len(s) \in Nat /\ \A k \in 1..Len(s) : s[k] \in C
  BY LenProperties
<1>3. 0 \in A
  BY <1>1, <1>2
<1>4. ASSUME NEW k \in 1..Len(s), k - 1 \in A PROVE k \in A
  <2>1. k \in 0..Len(s) /\ u[k - 1] \in R /\ s[k] \in C
    BY <1>2, <1>4
  <2>. QED BY <1>1, <2>1 DEF Closed
<1>5. Len(s) \in A
  <2>. HIDE DEF A
  <2>1. \A k \in 1..Len(s) : k - 1 \in A => k \in A
    BY <1>4
  <2>2. \A k \in 0..Len(s) : k \in A
    BY <1>2, <1>3, <2>1, Upwards
  <2>. QED BY <1>2, <2>2
<1>. QED BY <1>1, <1>5

\* What is kept is not what was to be left out.
LEMMA WithoutIn ==
    ASSUME NEW C, NEW n \in Nat, NEW seq \in [1..n -> C], NEW S
    PROVE  Without(seq, S) \in Seq(C \ S)
<1>. DEFINE D == C \ S
            A == {k \in 0..n : Without(Upto(seq, k), S) \in Seq(D)}
<1>1. /\ Without(Upto(seq, 0), S) = <<>> /\ Without(Upto(seq, n), S) = Without(seq, S)
      /\ \A k \in 1..n : Stays(seq, S, k, C)
  BY WithoutGrows
<1>2. 0 \in A
  <2>1. <<>> \in Seq(D)
    BY EmptySeq
  <2>. HIDE DEF D
  <2>2. Without(Upto(seq, 0), S) = <<>>
    BY <1>1
  <2>. DEFINE e == <<>>
              none == Without(Upto(seq, 0), S)
  <2>3. e \in Seq(D) /\ none = e
    BY <2>1, <2>2
  <2>. HIDE DEF e, none
  <2>4. none \in Seq(D)
    BY <2>3
  <2>5. 0 \in 0..n
    OBVIOUS
  <2>. QED BY <2>4, <2>5 DEF none
<1>3. ASSUME NEW k \in 1..n, k - 1 \in A PROVE k \in A
  <2>1. k \in 0..n /\ seq[k] \in C /\ Without(Upto(seq, k - 1), S) \in Seq(D)
    BY <1>3
  <2>2. CASE seq[k] \in S
    <3>1. Without(Upto(seq, k), S) = Without(Upto(seq, k - 1), S)
      BY <1>1, <2>2 DEF Stays
    <3>. QED BY <2>1, <3>1
  <2>3. CASE seq[k] \notin S
    <3>1. Without(Upto(seq, k), S) = Append(Without(Upto(seq, k - 1), S), seq[k])
      BY <1>1, <2>3 DEF Stays
    <3>2. seq[k] \in D
      BY <2>1, <2>3
    <3>. HIDE DEF D
    <3>3. Append(Without(Upto(seq, k - 1), S), seq[k]) \in Seq(D)
      BY <2>1, <3>2, AppendProperties
    <3>. QED BY <2>1, <3>1, <3>3
  <2>. QED BY <2>2, <2>3
<1>4. n \in A
  <2>. HIDE DEF A
  <2>1. \A k \in 1..n : k - 1 \in A => k \in A
    BY <1>3
  <2>2. \A k \in 0..n : k \in A
    BY <1>2, <2>1, Upwards
  <2>. QED BY <2>2
<1>. QED BY <1>1, <1>4

\* The names that a text is split into.
Names(C, separators) == {t \in Seq(C \ separators) : Documents!Trim(t) = t} \ {<<>>}

Halves(C, separators) ==
    [done : Seq({t \in Seq(C \ separators) : Documents!Trim(t) = t}), now : Seq(C \ separators)]

\* A splitter cuts trimmed texts only, none with a separator in it.
LEMMA SplitsWithin ==
    ASSUME NEW C, NEW separators
    PROVE  Uncut \in Halves(C, separators) /\ Closed(Splitter(C, separators), Halves(C, separators), C)
<1>. DEFINE D == C \ separators
            W == {t \in Seq(D) : Documents!Trim(t) = t}
<1>1. D \in SUBSET C /\ W \in SUBSET Seq(C)
  <2>1. D \in SUBSET C
    OBVIOUS
  <2>. QED BY <2>1, SeqMonotonic
<1>2. Uncut \in Halves(C, separators)
  <2>1. <<>> \in Seq(W) /\ <<>> \in Seq(D)
    BY EmptySeq
  <2>. QED BY <2>1 DEF Uncut, Halves
<1>3. ASSUME NEW r \in Halves(C, separators), NEW c \in C
      PROVE  SplitAt(r, c, separators) \in Halves(C, separators) /\ r \in Splitting(C)
  <2>1. r \in [done : Seq(W), now : Seq(D)]
    BY DEF Halves
  <2>2. r.done \in Seq(W) /\ r.now \in Seq(D)
    BY <2>1
  <2>3. r \in Splitting(C)
    <3>1. Seq(W) \in SUBSET Seq(Seq(C)) /\ Seq(D) \in SUBSET Seq(C)
      <4>. HIDE DEF W, D
      <4>. QED BY <1>1, SeqMonotonic
    <3>. HIDE DEF W, D
    <3>. QED BY <2>1, <3>1 DEF Splitting
  <2>4. Documents!Trim(r.now) \in W
    BY <2>2, TrimIsPart, TrimOnce
  <2>5. Append(r.done, Documents!Trim(r.now)) \in Seq(W)
    <3>. HIDE DEF W
    <3>. QED BY <2>2, <2>4, AppendProperties
  <2>6. CASE c \in separators
    <3>1. SplitAt(r, c, separators) = [done |-> Append(r.done, Documents!Trim(r.now)), now |-> <<>>]
      BY <2>6 DEF SplitAt
    <3>2. <<>> \in Seq(D)
      BY EmptySeq
    <3>. QED BY <2>3, <2>5, <3>1, <3>2 DEF Halves
  <2>7. CASE c \notin separators
    <3>1. SplitAt(r, c, separators) = [done |-> r.done, now |-> Append(r.now, c)]
      BY <2>3, <2>7, SplitsOn
    <3>2. Append(r.now, c) \in Seq(D)
      <4>1. c \in D
        BY <2>7
      <4>. HIDE DEF D
      <4>. QED BY <2>2, <4>1, AppendProperties
    <3>. QED BY <2>2, <2>3, <3>1, <3>2 DEF Halves
  <2>. QED BY <2>3, <2>6, <2>7
<1>4. \A r \in Halves(C, separators), c \in C : Splitter(C, separators)[<<r, c>>] \in Halves(C, separators)
  BY <1>3 DEF Splitter
<1>. QED BY <1>2, <1>4 DEF Closed

\* So the pieces of a text are trimmed names without separators, none empty.
LEMMA PiecesAreNames ==
    ASSUME NEW C, NEW text \in Seq(C), NEW separators
    PROVE  Documents!Pieces(text, separators) \in Seq(Names(C, separators))
<1>. DEFINE n == Len(text)
            D == C \ separators
            W == {t \in Seq(D) : Documents!Trim(t) = t}
            f == Splitter(C, separators)
<1>1. n \in Nat /\ text \in [1..n -> C]
  BY LenProperties
<1>. HIDE DEF n
<1>2. PICK end \in Splitting(C) :
              /\ Leads(f, Uncut, text, end)
              /\ Documents!Pieces(text, separators) =
                    Documents!Without(Append(end.done, Documents!Trim(end.now)), {<<>>})
  BY <1>1, SplitterSplits
<1>3. end \in Halves(C, separators)
  <2>1. Uncut \in Halves(C, separators) /\ Closed(f, Halves(C, separators), C)
    BY SplitsWithin
  <2>. HIDE DEF f
  <2>. QED BY <1>2, <2>1, LeadsWithin
<1>4. end.done \in Seq(W) /\ end.now \in Seq(D)
  BY <1>3 DEF Halves
<1>5. Documents!Trim(end.now) \in W
  BY <1>4, TrimIsPart, TrimOnce
<1>. DEFINE s == Append(end.done, Documents!Trim(end.now))
<1>6. s \in Seq(W)
  <2>. HIDE DEF W
  <2>. QED BY <1>4, <1>5, AppendProperties
<1>7. Names(C, separators) = W \ {<<>>}
  BY DEF Names
<1>. HIDE DEF W, s
<1>. DEFINE m == Len(s)
<1>8. m \in Nat /\ s \in [1..m -> W]
  BY <1>6, LenProperties
<1>. HIDE DEF m
<1>9. Without(s, {<<>>}) \in Seq(W \ {<<>>})
  BY <1>8, WithoutIn
<1>. QED BY <1>2, <1>7, <1>9, SameWithout DEF s

Cut(done, now) == [done |-> done, now |-> now]

\* A text without a separator is read as it is.
LEMMA NameLeads ==
    ASSUME NEW C, NEW separators, NEW done \in Seq(Seq(C)), NEW t \in Seq(C \ separators)
    PROVE  Leads(Splitter(C, separators), Cut(done, <<>>), t, Cut(done, t))
<1>. DEFINE n == Len(t)
            f == Splitter(C, separators)
            D == C \ separators
            st == [k \in 0..n |-> Cut(done, Upto(t, k))]
<1>1. n \in Nat /\ t \in [1..n -> D] /\ t \in [1..n -> C] /\ \A k \in 1..n : t[k] \in D
  BY LenProperties
<1>. HIDE DEF n
<1>2. \A k \in 0..n : st[k] = Cut(done, Upto(t, k)) /\ Upto(t, k) \in Seq(C)
  BY <1>1, FrontGrows
<1>3. ASSUME NEW k \in 1..n PROVE st[k] = f[<<st[k - 1], t[k]>>]
  <2>. DEFINE now == Upto(t, k - 1)
  <2>1. k - 1 \in 0..n /\ k \in 0..n /\ t[k] \in C /\ t[k] \notin separators
    BY <1>1
  <2>2. now \in Seq(C) /\ st[k - 1] = Cut(done, now)
    BY <1>2, <2>1
  <2>3. Upto(t, k) = Append(now, t[k])
    BY <1>1, FrontAppends
  <2>. HIDE DEF now, st
  <2>4. Cut(done, now) \in Splitting(C) /\ Cut(done, now).done = done /\ Cut(done, now).now = now
    BY <2>2 DEF Cut, Splitting
  <2>. DEFINE r == Cut(done, now)
  <2>. HIDE DEF r
  <2>5. SplitAt(r, t[k], separators) = [done |-> r.done, now |-> Append(r.now, t[k])]
    BY <2>1, <2>4, SplitsOn, ZenonT(60) DEF r
  <2>6. f[<<r, t[k]>>] = SplitAt(r, t[k], separators)
    BY <2>1, <2>4 DEF Splitter, r
  <2>7. f[<<r, t[k]>>] = Cut(done, Append(now, t[k]))
    BY <2>4, <2>5, <2>6 DEF Cut, r
  <2>. QED BY <1>2, <2>1, <2>2, <2>3, <2>7 DEF r
<1>4. st[0] = Cut(done, <<>>) /\ st[n] = Cut(done, t)
  <2>1. 0 \in 0..n /\ n \in 0..n /\ Upto(t, 0) = <<>> /\ Upto(t, n) = t
    BY <1>1, FrontGrows
  <2>. QED BY <1>2, <2>1
<1>. HIDE DEF st, f
<1>. QED BY <1>3, <1>4 DEF Leads, f, n

\* A separator after a name cuts it off.
LEMMA NameCut ==
    ASSUME NEW C, NEW separators, NEW done \in Seq(Seq(C)), NEW t \in Seq(C), NEW c \in C, c \in separators,
           Documents!Trim(t) = t
    PROVE  Leads(Splitter(C, separators), Cut(done, t), <<c>>, Cut(Append(done, t), <<>>))
<1>. DEFINE f == Splitter(C, separators)
            r == Cut(done, t)
<1>1. r \in Splitting(C) /\ r.done = done /\ r.now = t
  BY DEF Cut, Splitting
<1>. HIDE DEF r
<1>2. SplitAt(r, c, separators) = Cut(Append(done, t), <<>>)
  BY <1>1 DEF SplitAt, Cut
<1>3. f[<<r, c>>] = SplitAt(r, c, separators)
  BY <1>1 DEF Splitter
<1>4. Leads(f, r, <<c>>, f[<<r, c>>])
  BY LeadsOnce
<1>. QED BY <1>2, <1>3, <1>4 DEF r

\* Names that are joined are split into themselves.
LEMMA PiecesOfJoined ==
    ASSUME NEW C, NEW separators, NEW comma \in C, comma \in separators,
           NEW m \in Nat, NEW names \in [1..m -> Names(C, separators)]
    PROVE  Documents!Pieces(Documents!Joined(names, comma), separators) = names
<1>. DEFINE f == Splitter(C, separators)
            D == C \ separators
            sep == <<comma>>
            parts == [i \in DOMAIN names |-> IF i = 1 THEN names[i] ELSE sep \o names[i]]
            st == [k \in 0..m |-> IF k = 0 THEN Uncut ELSE Cut(Upto(names, k - 1), names[k])]
            flat == FlattenSeq(parts)
            text == Documents!Joined(names, comma)
<1>1. text = flat
  <2>1. text = Documents!FlattenSeq(parts)
    BY DEF Documents!Joined
  <2>. HIDE DEF parts
  <2>. QED BY <2>1, SameFlat
<1>2. \A k \in 1..m : /\ names[k] \in Seq(D) /\ names[k] \in Seq(C) /\ names[k] # <<>>
                      /\ Documents!Trim(names[k]) = names[k] /\ k - 1 \in 0..m /\ k \in 0..m
  <2>1. \A k \in 1..m : names[k] \in Names(C, separators)
    OBVIOUS
  <2>2. \A k \in 1..m : names[k] \in Seq(D) /\ names[k] # <<>> /\ Documents!Trim(names[k]) = names[k]
    BY <2>1 DEF Names
  <2>3. D \in SUBSET C
    OBVIOUS
  <2>. HIDE DEF D
  <2>4. \A k \in 1..m : names[k] \in Seq(C)
    BY <2>2, <2>3, SeqMonotonic
  <2>5. \A k \in 1..m : k - 1 \in 0..m /\ k \in 0..m
    OBVIOUS
  <2>. QED BY <2>2, <2>4, <2>5
<1>3. names \in [1..m -> Seq(C)] /\ DOMAIN names = 1..m
  BY <1>2
<1>. HIDE DEF D, f
<1>4. Upto(names, 0) = <<>> /\ Upto(names, m) = names /\ \A k \in 0..m : Upto(names, k) \in Seq(Seq(C))
  BY <1>3, FrontGrows, ZenonT(60)
<1>5. sep \in Seq(C) /\ \A k \in 1..m : sep \o names[k] \in Seq(C)
  <2>1. sep \in Seq(C)
    OBVIOUS
  <2>. HIDE DEF sep
  <2>. QED BY <1>2, <2>1, ConcatProperties
<1>. HIDE DEF sep
<1>6. parts \in [1..m -> Seq(C)] /\ \A k \in 1..m : parts[k] = IF k = 1 THEN names[k] ELSE sep \o names[k]
  BY <1>2, <1>3, <1>5
<1>7. st[0] = Uncut /\ \A k \in 1..m : st[k] = Cut(Upto(names, k - 1), names[k])
  BY <1>2
<1>. HIDE DEF st, parts, flat, text
<1>8. ASSUME NEW k \in 1..m
      PROVE  Leads(f, Cut(Upto(names, k - 1), <<>>), names[k], st[k])
  <2>. DEFINE done == Upto(names, k - 1)
              t == names[k]
  <2>1. done \in Seq(Seq(C)) /\ t \in Seq(C \ separators) /\ st[k] = Cut(done, t)
    BY <1>2, <1>4, <1>7 DEF D
  <2>. HIDE DEF done, t
  <2>2. Leads(f, Cut(done, <<>>), t, Cut(done, t))
    BY <2>1, NameLeads DEF f
  <2>. QED BY <2>1, <2>2 DEF done, t
<1>9. ASSUME NEW k \in 1..m PROVE Leads(f, st[k], sep, Cut(Upto(names, k), <<>>))
  <2>. DEFINE done == Upto(names, k - 1)
              t == names[k]
  <2>1. done \in Seq(Seq(C)) /\ t \in Seq(C) /\ st[k] = Cut(done, t) /\ Documents!Trim(t) = t
    BY <1>2, <1>4, <1>7
  <2>2. Upto(names, k) = Append(done, t)
    BY <1>3, FrontAppends
  <2>. HIDE DEF done, t
  <2>3. Leads(f, Cut(done, t), <<comma>>, Cut(Append(done, t), <<>>))
    BY <2>1, NameCut DEF f
  <2>. QED BY <2>1, <2>2, <2>3 DEF sep
<1>10. ASSUME NEW k \in 1..m PROVE Leads(f, st[k - 1], parts[k], st[k])
  <2>1. CASE k = 1
    <3>1. k - 1 = 0
      BY <2>1
    <3>2. st[k - 1] = Cut(Upto(names, k - 1), <<>>) /\ parts[k] = names[k]
      BY <1>4, <1>6, <1>7, <2>1, <3>1 DEF Uncut, Cut
    <3>. QED BY <1>8, <3>2
  <2>2. CASE k # 1
    <3>. DEFINE j == k - 1
                mid == Cut(Upto(names, j), <<>>)
    <3>1. j \in 1..m
      BY <2>2
    <3>2. Leads(f, mid, names[k], st[k])
      BY <1>8
    <3>. HIDE DEF j
    <3>3. Leads(f, st[j], sep, mid)
      BY <1>9, <3>1
    <3>. HIDE DEF mid
    <3>4. names[k] \in Seq(C)
      BY <1>2
    <3>5. Leads(f, st[j], sep \o names[k], st[k])
      BY <1>5, <3>2, <3>3, <3>4, LeadsOn
    <3>. QED BY <1>6, <2>2, <3>5 DEF j
  <2>. QED BY <2>1, <2>2
<1>11. flat \in Seq(C) /\ Leads(f, st[0], flat, st[m])
  BY <1>6, <1>10, LeadsFlat DEF flat
<1>12. PICK end \in Splitting(C) :
              /\ Leads(f, Uncut, text, end)
              /\ Documents!Pieces(text, separators) =
                    Documents!Without(Append(end.done, Documents!Trim(end.now)), {<<>>})
  <2>. DEFINE l == Len(text)
  <2>1. l \in Nat /\ text \in [1..l -> C]
    BY <1>1, <1>11, LenProperties
  <2>. HIDE DEF l
  <2>. QED BY <2>1, SplitterSplits DEF f
<1>13. end = st[m]
  BY <1>1, <1>7, <1>11, <1>12, LeadsToOne
<1>14. CASE m = 0
  <2>1. names = <<>>
    BY <1>4, <1>14
  <2>2. end.done = <<>> /\ end.now = <<>>
    BY <1>7, <1>13, <1>14 DEF Uncut
  <2>3. Append(end.done, Documents!Trim(end.now)) = <<<<>>>>
    BY <2>2, TrimEmpty
  <2>4. Without(<<<<>>>>, {<<>>}) = <<>>
    <3>. DEFINE s == <<<<>>>>
                S == {<<>>}
    <3>1. s \in [1..1 -> S] /\ s[1] \in S /\ 1 \in 1..1 /\ 1 - 1 = 0 /\ 1 \in Nat
      OBVIOUS
    <3>. HIDE DEF s, S
    <3>2. Without(Upto(s, 0), S) = <<>> /\ Without(Upto(s, 1), S) = Without(s, S) /\ \A k \in 1..1 : Stays(s, S, k, S)
      BY <3>1, WithoutGrows
    <3>3. Without(s, S) = <<>>
      BY <3>1, <3>2 DEF Stays
    <3>. QED BY <3>3 DEF s, S
  <2>5. Documents!Without(Append(end.done, Documents!Trim(end.now)), {<<>>}) = names
    <3>. DEFINE s == <<<<>>>>
                e == Append(end.done, Documents!Trim(end.now))
    <3>1. e = s /\ Without(s, {<<>>}) = names
      BY <2>1, <2>3, <2>4
    <3>. HIDE DEF e, s
    <3>2. Documents!Without(s, {<<>>}) = Without(s, {<<>>})
      BY SameWithout
    <3>3. Documents!Without(e, {<<>>}) = names
      BY <3>1, <3>2
    <3>. QED BY <3>3 DEF e
  <2>. QED BY <1>12, <2>5 DEF text
<1>15. CASE m # 0
  <2>1. m \in 1..m
    BY <1>15
  <2>2. end.done = Upto(names, m - 1) /\ end.now = names[m]
    <3>. DEFINE done == Upto(names, m - 1)
                t == names[m]
    <3>1. end = Cut(done, t)
      BY <1>7, <1>13, <2>1
    <3>. HIDE DEF done, t
    <3>2. end.done = done /\ end.now = t
      BY <3>1 DEF Cut
    <3>. QED BY <3>2 DEF done, t
  <2>3. Append(end.done, Documents!Trim(end.now)) = names
    <3>1. Upto(names, m) = Append(Upto(names, m - 1), names[m])
      BY <1>3, <2>1, FrontAppends
    <3>. QED BY <1>2, <1>4, <2>1, <2>2, <3>1
  <2>4. \A k \in 1..m : names[k] \notin {<<>>}
    BY <1>2
  <2>5. Without(names, {<<>>}) = names
    <3>. DEFINE S == {<<>>}
    <3>1. \A k \in 1..m : names[k] \notin S
      BY <2>4
    <3>. HIDE DEF S
    <3>2. Without(names, S) = names
      BY <1>3, <3>1, WithoutNone
    <3>. QED BY <3>2 DEF S
  <2>6. Documents!Without(Append(end.done, Documents!Trim(end.now)), {<<>>}) = names
    <3>. DEFINE e == Append(end.done, Documents!Trim(end.now))
                s == names
    <3>1. e = s /\ Without(s, {<<>>}) = s
      BY <2>3, <2>5
    <3>. HIDE DEF e, s
    <3>2. Documents!Without(s, {<<>>}) = Without(s, {<<>>})
      BY SameWithout
    <3>3. Documents!Without(e, {<<>>}) = s
      BY <3>1, <3>2
    <3>. QED BY <3>3 DEF e, s
  <2>. QED BY <1>12, <2>6 DEF text
<1>. QED BY <1>14, <1>15 DEF text

\* The villages of a need are names, and joined they are split into themselves.
LEMMA VillagesStay ==
    ASSUME NEW C, Documents!Comma \in C, NEW village \in Seq(C)
    PROVE  LET names == Documents!splitVillages(village)
           IN  /\ names \in Seq(Names(C, {Documents!Comma, Documents!Semicolon}))
               /\ Documents!splitVillages(Documents!Joined(names, Documents!Comma)) = names
<1>. DEFINE separators == {Documents!Comma, Documents!Semicolon}
            names == Documents!splitVillages(village)
            comma == Documents!Comma
<1>1. comma \in C /\ comma \in separators
  OBVIOUS
<1>2. names = Documents!Pieces(village, separators)
  BY DEF Documents!splitVillages
<1>. HIDE DEF separators, names, comma
<1>3. names \in Seq(Names(C, separators))
  BY <1>2, PiecesAreNames
<1>. DEFINE m == Len(names)
<1>4. m \in Nat /\ names \in [1..m -> Names(C, separators)]
  BY <1>3, LenProperties
<1>. HIDE DEF m
<1>5. Documents!Pieces(Documents!Joined(names, comma), separators) = names
  BY <1>1, <1>4, PiecesOfJoined
<1>6. Documents!splitVillages(Documents!Joined(names, comma)) = Documents!Pieces(Documents!Joined(names, comma), separators)
  BY DEF Documents!splitVillages, separators
<1>. QED BY <1>3, <1>5, <1>6 DEF separators, names, comma

\* A row that is imported again has the key of the need that was stored of it,
\* whatever its texts are and however its villages are spaced; and a stored
\* need has no village without a name.
\* (dedupeKey, splitVillages, NeedsImportService)
THEOREM RowsKeepTheirKey ==
    ASSUME NEW C, Documents!Comma \in C, NEW title \in Seq(C), NEW village \in Seq(C), NEW reference \in Seq(C)
    PROVE  LET stored == Documents!StoredRow(title, village, reference)
           IN  /\ Documents!dedupeKey(title, village, reference) = Documents!StoredKey(stored)
               /\ <<>> \notin Documents!ToSet(stored.village)
<1>. DEFINE separators == {Documents!Comma, Documents!Semicolon}
            names == Documents!splitVillages(village)
            joined == Documents!Joined(names, Documents!Comma)
            stored == Documents!StoredRow(title, village, reference)
            key(t, s, r) == IF r # <<>> THEN <<"ref", r>>
                            ELSE <<"title-village", t, [n \in Documents!ToSet(s) |-> Documents!Cardinality({i \in DOMAIN s : s[i] = n})]>>
<1>1. names \in Seq(Names(C, separators)) /\ Documents!splitVillages(joined) = names
  BY VillagesStay
<1>2. stored.title = Documents!Trim(title) /\ stored.village = names /\ stored.reference = Documents!Trim(reference)
  BY DEF Documents!StoredRow
<1>3. Documents!dedupeKey(title, village, reference) = key(Documents!Trim(title), names, Documents!Trim(reference))
  BY DEF Documents!dedupeKey
<1>4. Documents!StoredKey(stored) = Documents!dedupeKey(Documents!Trim(title), joined, Documents!Trim(reference))
  BY <1>2 DEF Documents!StoredKey
<1>5. Documents!dedupeKey(Documents!Trim(title), joined, Documents!Trim(reference))
         = key(Documents!Trim(Documents!Trim(title)), Documents!splitVillages(joined), Documents!Trim(Documents!Trim(reference)))
  BY DEF Documents!dedupeKey
<1>6. Documents!Trim(Documents!Trim(title)) = Documents!Trim(title) /\ Documents!Trim(Documents!Trim(reference)) = Documents!Trim(reference)
  BY TrimOnce
<1>7. <<>> \notin Documents!ToSet(names)
  <2>1. \A i \in 1..Len(names) : names[i] \in Names(C, separators)
    BY <1>1, ElementOfSeq
  <2>2. DOMAIN names = 1..Len(names)
    BY <1>1, LenProperties
  <2>3. <<>> \notin Names(C, separators)
    BY DEF Names
  <2>. HIDE DEF names, separators
  <2>. QED BY <2>1, <2>2, <2>3 DEF Documents!ToSet
<1>. HIDE DEF names, joined, stored, key
<1>8. Documents!dedupeKey(title, village, reference) = Documents!StoredKey(stored)
  BY <1>1, <1>3, <1>4, <1>5, <1>6
<1>. QED BY <1>2, <1>7, <1>8 DEF stored

\* The rows of the runs are texts of some alphabet.
LEMMA RowTexts ==
    ASSUME NEW x \in RowInputs
    PROVE  \E C : Documents!Comma \in C /\ x.title \in Seq(C) /\ x.village \in Seq(C) /\ x.reference \in Seq(C)
<1>. DEFINE C == {"x", "y", "comma", "semicolon", "space"}
<1>1. Documents!Comma \in C
  BY DEF Documents!Comma
<1>2. x.title \in Seq(C) /\ x.reference \in Seq(C)
  <2>1. x.title \in {<<"x">>, <<"space", "x">>} /\ x.reference \in {<<>>, <<"space">>, <<"x">>}
    BY DEF RowInputs
  <2>2. <<"x">> \in Seq(C) /\ <<"space", "x">> \in Seq(C) /\ <<"space">> \in Seq(C) /\ <<>> \in Seq(C)
    OBVIOUS
  <2>. HIDE DEF C
  <2>. QED BY <2>1, <2>2
<1>3. x.village \in Lists(C, 3)
  BY DEF RowInputs, VillageTexts
<1>. HIDE DEF C
<1>4. PICK k \in 0..3 : x.village \in [1..k -> C]
  BY <1>3 DEF Lists
<1>. DEFINE village == x.village
<1>5. village \in [1..k -> C] /\ k \in Nat
  BY <1>4
<1>. HIDE DEF village
<1>6. village \in Seq(C)
  BY <1>5, FrontGrows
<1>. QED BY <1>1, <1>2, <1>6 DEF village

-----------------------------------------------------------------------------
(***************************************************************************)
(* A table beside a sheet                                                  *)
(***************************************************************************)

\* What does not occur is counted zero times.
LEMMA CountsNone ==
    ASSUME NEW t, NEW c, \A i \in DOMAIN t : t[i] # c
    PROVE  Documents!CountIn(t, c) = 0
<1>1. {i \in DOMAIN t : t[i] = c} = {}
  OBVIOUS
<1>2. Documents!Cardinality({}) = 0
  BY FS_EmptySet DEF Documents!Cardinality, Cardinality
<1>. QED BY <1>1, <1>2 DEF Documents!CountIn

\* The first line has no other characters than the text.
LEMMA FirstLineIsPart ==
    ASSUME NEW C, NEW t \in Seq(C)
    PROVE  \A i \in DOMAIN Documents!FirstLine(t) : Documents!FirstLine(t)[i] \in C
<1>. DEFINE ends == {i \in DOMAIN t : t[i] \in {Documents!CR, Documents!LF}}
            e == CHOOSE i \in ends : \A j \in ends : i <= j
<1>1. Len(t) \in Nat /\ DOMAIN t = 1..Len(t) /\ \A i \in 1..Len(t) : t[i] \in C
  BY LenProperties
<1>2. CASE ends = {}
  <2>1. Documents!FirstLine(t) = t
    BY <1>2 DEF Documents!FirstLine
  <2>. QED BY <1>1, <2>1
<1>3. CASE ends # {}
  <2>1. ends \in SUBSET Nat
    BY <1>1
  <2>2. \E i \in ends : \A j \in ends : i <= j
    <3>. HIDE DEF ends
    <3>. QED BY <1>3, <2>1, LeastOf
  <2>3. e \in ends
    BY <2>2
  <2>4. Documents!FirstLine(t) = SubSeq(t, 1, e - 1)
    BY <1>3 DEF Documents!FirstLine
  <2>. HIDE DEF e
  <2>5. e \in 1..Len(t)
    BY <1>1, <2>3
  <2>6. \A i \in DOMAIN SubSeq(t, 1, e - 1) : SubSeq(t, 1, e - 1)[i] \in C
    BY <1>1, <2>5
  <2>. QED BY <2>4, <2>6
<1>. QED BY <1>2, <1>3

\* Where neither semicolons nor tabs occur, the delimiter is the comma.
LEMMA DelimiterIsComma ==
    ASSUME NEW C, Documents!Semicolon \notin C, Documents!Tab \notin C, NEW t \in Seq(C)
    PROVE  Documents!detectDelimiter(Documents!FirstLine(t)) = Documents!Comma
<1>. DEFINE line == Documents!FirstLine(t)
<1>1. \A i \in DOMAIN line : line[i] \in C
  BY FirstLineIsPart
<1>. HIDE DEF line
<1>2. Documents!CountIn(line, Documents!Semicolon) = 0 /\ Documents!CountIn(line, Documents!Tab) = 0
  BY <1>1, CountsNone
<1>3. Documents!detectDelimiter(line) = Documents!Comma
  BY <1>2 DEF Documents!detectDelimiter
<1>. QED BY <1>3 DEF line

\* The rows of a text, after the first, beside the rows of a sheet.
Beside(P, X, first, W, Q) ==
    /\ P \in Seq(W) /\ X \in Seq(Q) /\ Len(P) = Len(X) + 1 /\ P[1] = first
    /\ \A j \in 1..Len(X) : P[j + 1] = TrimmedRow(X[j].cell)

\* A row and its twin in the sheet are appended or left out together.
LEMMA BesideGrows ==
    ASSUME NEW W, NEW Q, NEW P, NEW X, NEW first, Beside(P, X, first, W, Q),
           NEW q \in Q, TrimmedRow(q.cell) \in W
    PROVE  Beside(Append(P, TrimmedRow(q.cell)), Append(X, q), first, W, Q)
<1>. DEFINE t == TrimmedRow(q.cell)
            n == Len(X)
            P2 == Append(P, t)
            X2 == Append(X, q)
<1>1. /\ P \in Seq(W) /\ X \in Seq(Q) /\ Len(P) = n + 1 /\ P[1] = first /\ n \in Nat /\ t \in W
      /\ \A j \in 1..n : P[j + 1] = TrimmedRow(X[j].cell)
  BY LenProperties DEF Beside
<1>. HIDE DEF t, n
<1>2. P2 \in Seq(W) /\ Len(P2) = n + 2 /\ P2[n + 2] = t /\ \A j \in 1..(n + 1) : P2[j] = P[j]
  BY <1>1, AppendProperties
<1>3. X2 \in Seq(Q) /\ Len(X2) = n + 1 /\ X2[n + 1] = q /\ \A j \in 1..n : X2[j] = X[j]
  BY <1>1, AppendProperties DEF n
<1>. HIDE DEF P2, X2
<1>4. ASSUME NEW j \in 1..(n + 1) PROVE P2[j + 1] = TrimmedRow(X2[j].cell)
  <2>1. CASE j = n + 1
    <3>1. j + 1 = n + 2
      BY <1>1, <2>1
    <3>. QED BY <1>2, <1>3, <2>1, <3>1 DEF t
  <2>2. CASE j # n + 1
    <3>1. j \in 1..n /\ j + 1 \in 1..(n + 1)
      BY <1>1, <2>2
    <3>. QED BY <1>1, <1>2, <1>3, <3>1
  <2>. QED BY <2>1, <2>2
<1>5. P2[1] = first /\ Len(P2) = Len(X2) + 1
  <2>1. 1 \in 1..(n + 1)
    BY <1>1
  <2>. QED BY <1>1, <1>2, <1>3, <2>1
<1>6. Beside(P2, X2, first, W, Q)
  BY <1>2, <1>3, <1>4, <1>5 DEF Beside
<1>. QED BY <1>6 DEF P2, X2, t

\* A sheet of rows of K, numbered.
NumberedRows(sheet, n) == [r \in 1..n |-> [row |-> r + 1, cell |-> sheet[r + 1]]]
BlankOnes(rows) == {x \in Documents!ToSet(rows) : \A i \in DOMAIN x.cell : Documents!Trim(x.cell[i]) = <<>>}

\* The reader of CSV and that of sheets leave out the same rows.
LEMMA SameLeftOut ==
    ASSUME NEW C, NEW K \in SUBSET (Seq(Seq(C)) \ {<<>>}), NEW n \in Nat, NEW sheet \in [1..(n + 1) -> K]
    PROVE  /\ Trimmed(sheet) \in [1..(n + 1) -> Seq(Seq(C))]
           /\ NumberedRows(sheet, n) \in [1..n -> [row : Nat, cell : K]]
           /\ \A k \in 1..n : /\ Trimmed(sheet)[k + 1] = TrimmedRow(NumberedRows(sheet, n)[k].cell)
                              /\ Trimmed(sheet)[k + 1] \in EmptyRows(Trimmed(sheet))
                                    <=> NumberedRows(sheet, n)[k] \in BlankOnes(NumberedRows(sheet, n))
<1>. DEFINE T == Trimmed(sheet)
            R == NumberedRows(sheet, n)
<1>1. \A k \in 1..(n + 1) : sheet[k] \in K /\ sheet[k] \in Seq(Seq(C)) /\ sheet[k] # <<>>
  OBVIOUS
<1>2. ASSUME NEW w \in Seq(Seq(C))
      PROVE  /\ TrimmedRow(w) \in Seq(Seq(C))
             /\ Empty(TrimmedRow(w)) <=> \A i \in DOMAIN w : Documents!Trim(w[i]) = <<>>
  <2>. DEFINE l == Len(w)
  <2>1. l \in Nat /\ w \in [1..l -> Seq(C)] /\ DOMAIN w = 1..l
    BY LenProperties
  <2>. HIDE DEF l
  <2>2. \A i \in 1..l : Documents!Trim(w[i]) \in Seq(C)
    BY <2>1, TrimIsPart
  <2>3. TrimmedRow(w) \in [1..l -> Seq(C)] /\ \A i \in 1..l : TrimmedRow(w)[i] = Documents!Trim(w[i])
    BY <2>1, <2>2 DEF TrimmedRow
  <2>. DEFINE v == TrimmedRow(w)
  <2>. HIDE DEF v
  <2>4. v \in Seq(Seq(C)) /\ DOMAIN v = 1..l
    <3>1. v \in [1..l -> Seq(C)] /\ \A i \in 1..l : v[i] = Documents!Trim(w[i])
      BY <2>3 DEF v
    <3>. QED BY <2>1, <3>1, FrontGrows
  <2>. QED BY <2>1, <2>3, <2>4 DEF Empty, v
<1>3. T \in [1..(n + 1) -> Seq(Seq(C))] /\ \A k \in 1..(n + 1) : T[k] = TrimmedRow(sheet[k])
  BY <1>1, <1>2 DEF Trimmed
<1>4. R \in [1..n -> [row : Nat, cell : K]] /\ \A k \in 1..n : R[k].cell = sheet[k + 1]
  <2>1. \A k \in 1..n : k + 1 \in 1..(n + 1)
    OBVIOUS
  <2>. QED BY <1>1, <2>1 DEF NumberedRows
<1>. HIDE DEF T, R
<1>5. ASSUME NEW k \in 1..n
      PROVE  /\ T[k + 1] = TrimmedRow(R[k].cell)
             /\ T[k + 1] \in EmptyRows(T) <=> R[k] \in BlankOnes(R)
  <2>. DEFINE j == k + 1
              w == sheet[k + 1]
  <2>1. j \in 1..(n + 1)
    OBVIOUS
  <2>2. T[j] = TrimmedRow(w) /\ R[k].cell = w /\ w \in Seq(Seq(C))
    BY <1>1, <1>3, <1>4, <2>1
  <2>3. T[j] \in Documents!ToSet(T)
    BY <1>3, <2>1 DEF Documents!ToSet
  <2>4. R[k] \in Documents!ToSet(R)
    BY <1>4 DEF Documents!ToSet
  <2>. HIDE DEF j, w
  <2>5. T[j] \in EmptyRows(T) <=> Empty(TrimmedRow(w))
    BY <2>2, <2>3 DEF EmptyRows
  <2>6. R[k] \in BlankOnes(R) <=> \A i \in DOMAIN w : Documents!Trim(w[i]) = <<>>
    BY <2>2, <2>4 DEF BlankOnes
  <2>7. Empty(TrimmedRow(w)) <=> \A i \in DOMAIN w : Documents!Trim(w[i]) = <<>>
    BY <1>2, <2>2
  <2>8. T[j] = TrimmedRow(R[k].cell) /\ (T[j] \in EmptyRows(T) <=> R[k] \in BlankOnes(R))
    BY <2>2, <2>5, <2>6, <2>7
  <2>. QED BY <2>8 DEF j
<1>. QED BY <1>3, <1>4, <1>5 DEF T, R

\* The first of a sequence.
LEMMA AppendFirst == ASSUME NEW x PROVE Append(<<>>, x) = <<x>>
  OBVIOUS

\* With the header alone, table and sheet agree.
LEMMA Beginning ==
    ASSUME NEW W, NEW Q, NEW P, NEW first \in W, P = <<first>>
    PROVE  Beside(P, <<>>, first, W, Q)
<1>1. <<>> \in Seq(Q) /\ Len(<<>>) = 0
  BY EmptySeq
<1>2. P \in Seq(W) /\ Len(P) = 1 /\ P[1] = first /\ \A j \in 1..0 : FALSE
  OBVIOUS
<1>. QED BY <1>1, <1>2 DEF Beside

\* What is left of a table beside what is left of the sheet.
LEMMA SheetBeside ==
    ASSUME NEW W, NEW Q, NEW n \in Nat, NEW T \in [1..(n + 1) -> W], NEW R \in [1..n -> Q], NEW E, NEW B,
           T[1] \notin E,
           \A k \in 1..n : T[k + 1] = TrimmedRow(R[k].cell) /\ (T[k + 1] \in E <=> R[k] \in B)
    PROVE  Beside(Without(T, E), Without(R, B), T[1], W, Q)
<1>. DEFINE P(k) == Without(Upto(T, k), E)
            X(k) == Without(Upto(R, k), B)
            A == {k \in 0..n : Beside(P(k + 1), X(k), T[1], W, Q)}
            m == n + 1
<1>1. m \in Nat /\ 1 \in 1..m /\ T[1] \in W /\ n \in 0..n /\ 0 \in 0..n
  OBVIOUS
<1>2. P(0) = <<>> /\ P(m) = Without(T, E) /\ \A k \in 1..m : Stays(T, E, k, W)
  <2>1. T \in [1..m -> W]
    OBVIOUS
  <2>. HIDE DEF m
  <2>. QED BY <1>1, <2>1, WithoutGrows
<1>3. X(0) = <<>> /\ X(n) = Without(R, B) /\ \A k \in 1..n : Stays(R, B, k, Q)
  BY WithoutGrows
<1>4. \A k \in 1..m : P(k) = IF T[k] \in E THEN P(k - 1) ELSE Append(P(k - 1), T[k])
  BY <1>2 DEF Stays
<1>5. \A k \in 1..n : X(k) = IF R[k] \in B THEN X(k - 1) ELSE Append(X(k - 1), R[k])
  BY <1>3 DEF Stays
<1>. HIDE DEF P, X
<1>6. 0 \in A
  <2>1. 0 + 1 = 1 /\ 1 - 1 = 0
    OBVIOUS
  <2>2. P(1) = Append(P(0), T[1])
    BY <1>1, <1>4, <2>1
  <2>3. P(1) = <<T[1]>>
    <3>. DEFINE x == T[1]
                p == P(0)
    <3>1. p = <<>> /\ P(1) = Append(p, x)
      BY <1>2, <2>2
    <3>. HIDE DEF x, p
    <3>2. P(1) = <<x>>
      BY <3>1, AppendFirst
    <3>. QED BY <3>2 DEF x
  <2>4. Beside(P(1), X(0), T[1], W, Q)
    BY <1>1, <1>3, <2>3, Beginning
  <2>. QED BY <1>1, <2>1, <2>4
<1>7. ASSUME NEW k \in 1..n, k - 1 \in A PROVE k \in A
  <2>. DEFINE j == k + 1
              first == T[1]
  <2>1. j \in 1..m /\ k \in 0..n /\ j - 1 = k /\ (k - 1) + 1 = k
    OBVIOUS
  <2>2. Beside(P(k), X(k - 1), first, W, Q)
    BY <1>7, <2>1
  <2>3. T[j] = TrimmedRow(R[k].cell) /\ (T[j] \in E <=> R[k] \in B) /\ R[k] \in Q /\ T[j] \in W
    BY <2>1
  <2>4. P(j) = IF T[j] \in E THEN P(k) ELSE Append(P(k), T[j])
    BY <1>4, <2>1
  <2>5. X(k) = IF R[k] \in B THEN X(k - 1) ELSE Append(X(k - 1), R[k])
    BY <1>5
  <2>. DEFINE q == R[k]
              t == T[j]
              P0 == P(k)
              X0 == X(k - 1)
  <2>6. q \in Q /\ t = TrimmedRow(q.cell) /\ t \in W /\ Beside(P0, X0, first, W, Q)
    BY <2>2, <2>3
  <2>7. P(j) = (IF q \in B THEN P0 ELSE Append(P0, TrimmedRow(q.cell))) /\ X(k) = (IF q \in B THEN X0 ELSE Append(X0, q))
    BY <2>3, <2>4, <2>5
  <2>. HIDE DEF q, t, P0, X0, j, first
  <2>8. Beside(Append(P0, TrimmedRow(q.cell)), Append(X0, q), first, W, Q)
    BY <2>6, BesideGrows
  <2>9. Beside(P(j), X(k), first, W, Q)
    BY <2>6, <2>7, <2>8
  <2>. QED BY <2>1, <2>9 DEF j, first
<1>8. n \in A
  <2>. HIDE DEF A
  <2>1. \A k \in 1..n : k - 1 \in A => k \in A
    BY <1>7
  <2>2. \A k \in 0..n : k \in A
    BY <1>6, <2>1, Upwards
  <2>. QED BY <2>2
<1>. QED BY <1>2, <1>3, <1>8

\* What the two readers of needs make of one table.
LEMMA TableBesideSheet ==
    ASSUME NEW C, Documents!Quote \in C, Documents!Comma \in C, Documents!LF \in C,
           NEW K \in SUBSET (Seq(Seq(C)) \ {<<>>}), NEW n \in Nat, NEW sheet \in [1..(n + 1) -> K],
           ~Empty(TrimmedRow(sheet[1]))
    PROVE  /\ Documents!Printed(sheet) \in Seq(C)
           /\ Beside(Documents!parseCsvRows(Documents!Printed(sheet), Documents!Comma),
                     Documents!parseExcelNeeds(sheet),
                     TrimmedRow(sheet[1]), Seq(Seq(C)), [row : Nat, cell : K])
<1>. DEFINE m == n + 1
            T == Trimmed(sheet)
            R == NumberedRows(sheet, n)
            E == EmptyRows(T)
            B == BlankOnes(R)
            W == Seq(Seq(C))
            Q == [row : Nat, cell : K]
            parsed == Documents!parseCsvRows(Documents!Printed(sheet), Documents!Comma)
            read == Documents!parseExcelNeeds(sheet)
<1>1. m \in Nat \ {0} /\ sheet \in [1..m -> Seq(Seq(C)) \ {<<>>}] /\ 1 \in 1..m
  OBVIOUS
<1>2. Documents!Printed(sheet) \in Seq(C) /\ parsed = Without(T, E)
  <2>. HIDE DEF m
  <2>. QED BY <1>1, TableReads
<1>3. read = Without(R, B)
  <2>1. Len(sheet) = m
    <3>. HIDE DEF m
    <3>. QED BY <1>1, FrontGrows
  <2>2. Len(sheet) - 1 = n
    BY <2>1
  <2>. DEFINE rows == [r \in 1..Len(sheet) - 1 |-> [row |-> r + 1, cell |-> sheet[r + 1]]]
  <2>3. read = Documents!Without(rows, {x \in Documents!ToSet(rows) : \A i \in DOMAIN x.cell : Documents!Trim(x.cell[i]) = <<>>})
    BY DEF Documents!parseExcelNeeds
  <2>4. rows = R
    BY <2>2 DEF NumberedRows
  <2>. HIDE DEF rows, R
  <2>. QED BY <2>3, <2>4, SameWithout DEF BlankOnes
<1>4. /\ T \in [1..(n + 1) -> W] /\ R \in [1..n -> Q]
      /\ \A k \in 1..n : T[k + 1] = TrimmedRow(R[k].cell) /\ (T[k + 1] \in E <=> R[k] \in B)
  BY SameLeftOut
<1>5. T[1] = TrimmedRow(sheet[1])
  BY <1>1 DEF Trimmed
<1>6. T[1] \notin E
  BY <1>5 DEF EmptyRows
<1>. HIDE DEF T, R, E, B, parsed, read, W, Q
<1>7. Beside(Without(T, E), Without(R, B), T[1], W, Q)
  BY <1>4, <1>6, SheetBeside
<1>8. Beside(parsed, read, TrimmedRow(sheet[1]), W, Q)
  BY <1>2, <1>3, <1>5, <1>7
<1>. QED BY <1>2, <1>8 DEF parsed, read, W, Q

\* One letter has no blanks to trim.
LEMMA TrimLetter ==
    ASSUME NEW c, c \notin Documents!Blank
    PROVE  Documents!Trim(<<c>>) = <<c>>
<1>. DEFINE t == <<c>>
            C == {c}
<1>1. t \in Seq(C) /\ Len(t) = 1 /\ t[1] = c
  OBVIOUS
<1>. HIDE DEF t, C
<1>2. Solid(t) = {1}
  BY <1>1 DEF Solid
<1>3. \E a, b \in Solid(t) : Documents!Trim(t) = SubSeq(t, a, b)
  <2>1. IF Solid(t) = {} THEN Documents!Trim(t) = <<>>
        ELSE \E a, b \in Solid(t) : /\ Documents!Trim(t) = SubSeq(t, a, b)
                                    /\ \A i \in Solid(t) : a <= i /\ i <= b
    BY <1>1, TrimCuts
  <2>. QED BY <1>2, <2>1
<1>4. Documents!Trim(t) = SubSeq(t, 1, 1)
  BY <1>2, <1>3
<1>5. SubSeq(t, 1, 1) = <<c>>
  <2>1. SubSeq(t, 1, Len(t)) = t
    BY <1>1, SubSeqFull
  <2>. QED BY <1>1, <2>1 DEF t
<1>. QED BY <1>4, <1>5 DEF t

ColumnIn(parsed, names) ==
    LET at == {i \in DOMAIN parsed[1] : parsed[1][i] \in names}
    IN  IF at = {} THEN 0 ELSE CHOOSE i \in at : \A j \in at : i <= j

CellIn(parsed, k, i) == IF i \in DOMAIN parsed[k] THEN parsed[k][i] ELSE <<>>

NeedsIn(parsed, columnOf, Fields) ==
    IF Len(parsed) < 2 THEN <<>>
    ELSE [k \in 1..Len(parsed) - 1 |->
             [row |-> k + 1, cell |-> [f \in Fields |-> CellIn(parsed, k + 1, ColumnIn(parsed, columnOf[f]))]]]

\* The needs of a CSV are those of its rows.
LEMMA CsvNeedsAre ==
    ASSUME NEW text, NEW columnOf, NEW Fields,
           Documents!detectDelimiter(Documents!FirstLine(text)) = Documents!Comma
    PROVE  Documents!parseCsvNeeds(text, columnOf, Fields)
              = NeedsIn(Documents!parseCsvRows(text, Documents!Comma), columnOf, Fields)
  BY DEF Documents!parseCsvNeeds, NeedsIn, CellIn, ColumnIn

\* A name that stands in one column names that column.
LEMMA OnlyColumn ==
    ASSUME NEW parsed, NEW names, NEW i \in Nat, i \in DOMAIN parsed[1], parsed[1][i] \in names,
           \A j \in DOMAIN parsed[1] : parsed[1][j] \in names => j = i
    PROVE  ColumnIn(parsed, names) = i
<1>. DEFINE at == {j \in DOMAIN parsed[1] : parsed[1][j] \in names}
<1>1. at = {i}
  OBVIOUS
<1>2. (CHOOSE j \in {i} : \A l \in {i} : j <= l) = i
  OBVIOUS
<1>3. ColumnIn(parsed, names) = IF at = {} THEN 0 ELSE CHOOSE j \in at : \A l \in at : j <= l
  BY DEF ColumnIn
<1>. HIDE DEF at
<1>. QED BY <1>1, <1>2, <1>3

Header == <<<<"T">>, <<"V">>>>

ReadAlike(csv, X) ==
    /\ Len(csv) = Len(X)
    /\ \A k \in DOMAIN csv : /\ csv[k].cell["title"]   = Documents!Trim(X[k].cell[1])
                             /\ csv[k].cell["village"] = Documents!Trim(X[k].cell[2])

\* The needs of two columns beside the rows of the sheet.
LEMMA NeedsBeside ==
    ASSUME NEW C, NEW P, NEW X, Beside(P, X, Header, Seq(Seq(C)), [row : Nat, cell : Seq(C) \X Seq(C)])
    PROVE  ReadAlike(NeedsIn(P, [title |-> {<<"T">>}, village |-> {<<"V">>, <<"W">>}], {"title", "village"}), X)
<1>. DEFINE columnOf == [title |-> {<<"T">>}, village |-> {<<"V">>, <<"W">>}]
            Fields == {"title", "village"}
            csv == NeedsIn(P, columnOf, Fields)
            n == Len(X)
            K == Seq(C) \X Seq(C)
<1>1. /\ P \in Seq(Seq(Seq(C))) /\ X \in Seq([row : Nat, cell : K]) /\ Len(P) = n + 1 /\ P[1] = Header /\ n \in Nat
      /\ \A j \in 1..n : P[j + 1] = TrimmedRow(X[j].cell)
  BY LenProperties DEF Beside
<1>2. ColumnIn(P, columnOf["title"]) = 1 /\ ColumnIn(P, columnOf["village"]) = 2
  <2>1. DOMAIN Header = 1..2 /\ Header[1] = <<"T">> /\ Header[2] = <<"V">>
    BY DEF Header
  <2>2. <<"T">> # <<"V">> /\ <<"T">> # <<"W">> /\ \A i \in 1..2 : i = 1 \/ i = 2
    OBVIOUS
  <2>3. columnOf["title"] = {<<"T">>} /\ columnOf["village"] = {<<"V">>, <<"W">>}
    OBVIOUS
  <2>. HIDE DEF columnOf
  <2>. DEFINE h == P[1]
  <2>4. /\ DOMAIN P[1] = 1..2 /\ P[1][1] \in columnOf["title"] /\ P[1][2] \in columnOf["village"]
        /\ \A j \in 1..2 : P[1][j] \in columnOf["title"] => j = 1
        /\ \A j \in 1..2 : P[1][j] \in columnOf["village"] => j = 2
    BY <1>1, <2>1, <2>2, <2>3
  <2>5. 1 \in Nat /\ 2 \in Nat /\ 1 \in 1..2 /\ 2 \in 1..2
    OBVIOUS
  <2>6. ColumnIn(P, columnOf["title"]) = 1
    BY <2>4, <2>5, OnlyColumn
  <2>7. ColumnIn(P, columnOf["village"]) = 2
    BY <2>4, <2>5, OnlyColumn
  <2>. QED BY <2>6, <2>7
<1>. HIDE DEF columnOf
<1>3. CASE n = 0
  <2>1. Len(P) < 2
    BY <1>1, <1>3
  <2>2. csv = <<>>
    BY <2>1 DEF NeedsIn
  <2>. HIDE DEF csv
  <2>3. Len(csv) = n /\ DOMAIN csv = {}
    BY <1>3, <2>2
  <2>. QED BY <2>3 DEF csv, columnOf, ReadAlike
<1>4. CASE n # 0
  <2>1. ~(Len(P) < 2) /\ Len(P) - 1 = n
    BY <1>1, <1>4
  <2>2. csv = [k \in 1..n |-> [row |-> k + 1, cell |-> [f \in Fields |-> CellIn(P, k + 1, ColumnIn(P, columnOf[f]))]]]
    BY <2>1 DEF NeedsIn
  <2>. HIDE DEF csv
  <2>3. DOMAIN csv = 1..n /\ Len(csv) = n
    <3>. DEFINE V(k) == [row |-> k + 1, cell |-> [f \in Fields |-> CellIn(P, k + 1, ColumnIn(P, columnOf[f]))]]
                V2 == {V(k) : k \in 1..n}
    <3>. HIDE DEF V
    <3>1. csv = [k \in 1..n |-> V(k)]
      BY <2>2 DEF V
    <3>2. csv \in [1..n -> V2]
      BY <3>1
    <3>. HIDE DEF V2
    <3>3. csv \in Seq(V2) /\ Len(csv) = n
      BY <1>1, <3>2, FrontGrows
    <3>. QED BY <3>2, <3>3
  <2>4. ASSUME NEW k \in 1..n
        PROVE  /\ csv[k].cell["title"]   = Documents!Trim(X[k].cell[1])
               /\ csv[k].cell["village"] = Documents!Trim(X[k].cell[2])
    <3>1. /\ csv[k].cell["title"] = CellIn(P, k + 1, ColumnIn(P, columnOf["title"]))
          /\ csv[k].cell["village"] = CellIn(P, k + 1, ColumnIn(P, columnOf["village"]))
      BY <2>2
    <3>2. X[k] \in [row : Nat, cell : K]
      BY <1>1, ElementOfSeq
    <3>. DEFINE w == X[k].cell
                j == k + 1
                v == P[j]
    <3>3. w \in Seq(C) \X Seq(C) /\ v = TrimmedRow(w)
      BY <1>1, <3>2
    <3>. HIDE DEF w, j
    <3>4. DOMAIN w = 1..2
      BY <3>3
    <3>5. v = [i \in 1..2 |-> Documents!Trim(w[i])]
      BY <3>3, <3>4 DEF TrimmedRow
    <3>. HIDE DEF v
    <3>6. 1 \in 1..2 /\ 2 \in 1..2
      OBVIOUS
    <3>7. DOMAIN v = 1..2 /\ v[1] = Documents!Trim(w[1]) /\ v[2] = Documents!Trim(w[2])
      BY <3>5, <3>6
    <3>8. CellIn(P, j, 1) = v[1] /\ CellIn(P, j, 2) = v[2]
      BY <3>6, <3>7 DEF CellIn, v
    <3>. QED BY <1>2, <3>1, <3>7, <3>8 DEF w, j
  <2>. QED BY <2>3, <2>4 DEF csv, columnOf, ReadAlike
<1>. QED BY <1>3, <1>4

Letters == {"T", "V", "x", "y", "comma", "quote", "lf", "cr"}

\* The words of the runs are texts.
LEMMA WordsAreTexts == Words \in SUBSET Seq(Letters)
<1>. DEFINE C == Letters
<1>1. /\ <<>> \in Seq(C) /\ <<"x">> \in Seq(C) /\ <<"comma", "x">> \in Seq(C) /\ <<"quote">> \in Seq(C)
      /\ <<"lf">> \in Seq(C) /\ <<"x", "cr", "lf", "y">> \in Seq(C)
  BY DEF Letters
<1>. HIDE DEF C
<1>2. \A t \in Words : t \in Seq(C)
  BY <1>1 DEF Words
<1>. QED BY <1>2 DEF C

\* A row of two cells is a row.
LEMMA PairsAreRows ==
    ASSUME NEW C
    PROVE  Seq(C) \X Seq(C) \in SUBSET (Seq(Seq(C)) \ {<<>>})
<1>1. ASSUME NEW p \in Seq(C) \X Seq(C) PROVE p \in Seq(Seq(C)) /\ p # <<>>
  <2>1. PICK a \in Seq(C), b \in Seq(C) : p = <<a, b>>
    OBVIOUS
  <2>. DEFINE D == Seq(C)
  <2>2. a \in D /\ b \in D
    BY <2>1
  <2>. HIDE DEF D
  <2>3. <<a, b>> \in Seq(D)
    BY <2>2
  <2>4. <<a, b>> # <<>>
    OBVIOUS
  <2>. QED BY <2>1, <2>3, <2>4 DEF D
<1>. QED BY <1>1

\* The header of the runs is read as it is printed.
LEMMA HeaderStays == TrimmedRow(Header) = Header /\ ~Empty(Header) /\ Header \in Seq(Letters) \X Seq(Letters)
<1>1. Documents!Trim(<<"T">>) = <<"T">> /\ Documents!Trim(<<"V">>) = <<"V">>
  BY TrimLetter DEF Documents!Blank, Documents!Space, Documents!Tab, Documents!CR, Documents!LF
<1>2. DOMAIN Header = 1..2 /\ Header[1] = <<"T">> /\ Header[2] = <<"V">>
  BY DEF Header
<1>. DEFINE h == [i \in 1..2 |-> Documents!Trim(Header[i])]
<1>3. TrimmedRow(Header) = h
  BY <1>2 DEF TrimmedRow
<1>4. \A i \in 1..2 : i = 1 \/ i = 2
  OBVIOUS
<1>5. \A i \in 1..2 : Documents!Trim(Header[i]) = Header[i]
  BY <1>1, <1>2, <1>4
<1>6. h = Header
  <2>1. h = [i \in 1..2 |-> Header[i]]
    BY <1>5
  <2>2. [i \in 1..2 |-> Header[i]] = Header
    BY DEF Header
  <2>. QED BY <2>1, <2>2
<1>7. ~Empty(Header)
  <2>1. 1 \in 1..2 /\ <<"T">> # <<>>
    OBVIOUS
  <2>. QED BY <1>2, <2>1 DEF Empty
<1>8. Header \in Seq(Letters) \X Seq(Letters)
  <2>1. <<"T">> \in Seq(Letters) /\ <<"V">> \in Seq(Letters)
    BY DEF Letters
  <2>. QED BY <2>1 DEF Header
<1>. QED BY <1>3, <1>6, <1>7, <1>8

\* A header before the rows.
LEMMA HeaderFirst ==
    ASSUME NEW K, NEW h \in K, NEW n \in Nat, NEW rows \in [1..n -> K]
    PROVE  <<h>> \o rows \in [1..(n + 1) -> K] /\ (<<h>> \o rows)[1] = h
<1>. DEFINE s == <<h>>
            t == s \o rows
<1>1. s \in Seq(K) /\ Len(s) = 1 /\ s[1] = h
  OBVIOUS
<1>2. rows \in Seq(K) /\ Len(rows) = n
  BY FrontGrows
<1>. HIDE DEF s
<1>3. t \in Seq(K) /\ Len(t) = n + 1 /\ t[1] = h
  BY <1>1, <1>2, ConcatProperties
<1>. HIDE DEF t
<1>4. t \in [1..(n + 1) -> K]
  BY <1>3, LenProperties
<1>. QED BY <1>3, <1>4 DEF s, t

\* A table and a sheet of the same rows have the same needs.
LEMMA NeedsAreSame == ASSUME NEW x \in TableInputs PROVE SameNeeds(x, Table(x))
<1>. DEFINE C == Letters
            K == Seq(C) \X Seq(C)
            rows == x.rows
            sheet == <<Header>> \o rows
            text == Documents!Printed(sheet)
            columnOf == [title |-> {<<"T">>}, village |-> {<<"V">>, <<"W">>}]
            Fields == {"title", "village"}
            P == Documents!parseCsvRows(text, Documents!Comma)
            csv == Documents!parseCsvNeeds(text, columnOf, Fields)
            X == Documents!parseExcelNeeds(sheet)
<1>1. PICK n \in 0..2 : rows \in [1..n -> K]
  <2>1. PICK n \in 0..2 : rows \in [1..n -> Words \X Words]
    BY DEF TableInputs, Lists
  <2>2. Words \X Words \in SUBSET K
    BY WordsAreTexts
  <2>. HIDE DEF K, rows
  <2>3. rows \in [1..n -> K]
    BY <2>1, <2>2
  <2>. QED BY <2>3
<1>2. n \in Nat /\ K \in SUBSET (Seq(Seq(C)) \ {<<>>})
  BY PairsAreRows
<1>3. /\ Documents!Quote \in C /\ Documents!Comma \in C /\ Documents!LF \in C
      /\ Documents!Semicolon \notin C /\ Documents!Tab \notin C
  BY DEF Letters, Documents!Quote, Documents!Comma, Documents!LF, Documents!Semicolon, Documents!Tab
<1>4. Header \in K /\ TrimmedRow(Header) = Header /\ ~Empty(Header)
  BY HeaderStays
<1>5. Sheet2(x) = sheet
  BY DEF Sheet2, Header
<1>. HIDE DEF rows
<1>6. sheet \in [1..(n + 1) -> K] /\ sheet[1] = Header
  <2>. HIDE DEF K
  <2>. QED BY <1>1, <1>2, <1>4, HeaderFirst
<1>. HIDE DEF sheet, C
<1>7. ~Empty(TrimmedRow(sheet[1])) /\ TrimmedRow(sheet[1]) = Header
  BY <1>4, <1>6
<1>8. text \in Seq(C) /\ Beside(P, X, Header, Seq(Seq(C)), [row : Nat, cell : K])
  <2>. DEFINE K2 == K
  <2>1. K2 \in SUBSET (Seq(Seq(C)) \ {<<>>}) /\ sheet \in [1..(n + 1) -> K2]
    BY <1>2, <1>6
  <2>. HIDE DEF K2
  <2>2. /\ text \in Seq(C)
        /\ Beside(P, X, TrimmedRow(sheet[1]), Seq(Seq(C)), [row : Nat, cell : K2])
    BY <1>2, <1>3, <1>7, <2>1, TableBesideSheet
  <2>. QED BY <1>7, <2>2 DEF K2
<1>. HIDE DEF text
<1>9. Documents!detectDelimiter(Documents!FirstLine(text)) = Documents!Comma
  BY <1>3, <1>8, DelimiterIsComma
<1>10. csv = NeedsIn(P, columnOf, Fields)
  BY <1>9, CsvNeedsAre
<1>. HIDE DEF P, X
<1>11. ReadAlike(NeedsIn(P, columnOf, Fields), X)
  BY <1>8, NeedsBeside
<1>. HIDE DEF csv, columnOf, Fields
<1>12. Table(x).csv = csv /\ Table(x).excel = X
  BY <1>5 DEF Table, csv, columnOf, Fields, text, X
<1>. QED BY <1>10, <1>11, <1>12 DEF SameNeeds, ReadAlike

-----------------------------------------------------------------------------
(***************************************************************************)
(* A text in chunks                                                        *)
(***************************************************************************)

\* A concatenation passes through those of its fronts, with no part at all if
\* need be.
LEMMA FlatRuns ==
    ASSUME NEW C, NEW n \in Nat, NEW parts \in [1..n -> Seq(C)]
    PROVE  \E F \in [0..n -> Seq(C)] : FlatBy(F, parts, n)
<1>1. CASE n = 0
  <2>. DEFINE F == [k \in 0..0 |-> <<>>]
  <2>1. parts = <<>> /\ Len(parts) = 0
    BY <1>1
  <2>2. FlattenSeq(parts) = <<>>
    BY <2>1 DEF FlattenSeq
  <2>3. F \in [0..0 -> Seq(C)] /\ F[0] = <<>>
    BY EmptySeq
  <2>. HIDE DEF F
  <2>4. FlatBy(F, parts, 0)
    BY <2>2, <2>3 DEF FlatBy
  <2>. QED BY <1>1, <2>3, <2>4
<1>2. CASE n # 0
  BY <1>2, FlatGrows
<1>. QED BY <1>1, <1>2

AppendsOver(s, t, c) == Append(s \o t, c) = s \o Append(t, c)

\* To append after a concatenation is to append to its end.
LEMMA ConcatAppends ==
    ASSUME NEW C, NEW s \in Seq(C), NEW t \in Seq(C), NEW c \in C
    PROVE  AppendsOver(s, t, c)
<1>. DEFINE one == <<c>>
<1>1. one \in Seq(C) /\ s \o t \in Seq(C)
  BY ConcatProperties
<1>2. Append(s \o t, c) = (s \o t) \o one
  BY <1>1, AppendIsConcat
<1>3. Append(t, c) = t \o one
  BY AppendIsConcat
<1>. HIDE DEF one
<1>. QED BY <1>1, <1>2, <1>3, ConcatAssociative DEF AppendsOver

\* What a filter keeps of one more.
LEMMA WithoutMoves ==
    ASSUME NEW C, NEW n \in Nat, NEW seq \in [1..n -> C], NEW S, NEW k \in 1..n
    PROVE  Stays(seq, S, k, C)
  BY WithoutGrows

Divides(s, t, S, C) ==
    /\ Without(s \o t, S) = Without(s, S) \o Without(t, S)
    /\ Without(s, S) \in Seq(C) /\ Without(t, S) \in Seq(C)

\* A filter of two texts is the two filtered.
LEMMA WithoutConcat ==
    ASSUME NEW C, NEW s \in Seq(C), NEW t \in Seq(C), NEW S
    PROVE  Divides(s, t, S, C)
<1>. DEFINE m == Len(s)
            n == Len(t)
            st == s \o t
            l == m + n
            V(k) == Without(Upto(t, k), S)
            U(k) == Without(Upto(st, m + k), S)
            left == Without(s, S)
            A == {k \in 0..n : V(k) \in Seq(C) /\ U(k) = left \o V(k)}
<1>1. m \in Nat /\ n \in Nat /\ l \in Nat /\ s \in [1..m -> C] /\ t \in [1..n -> C]
  BY LenProperties
<1>2. st \in Seq(C) /\ Len(st) = l /\ \A i \in 1..l : st[i] = IF i <= m THEN s[i] ELSE t[i - m]
  BY ConcatProperties
<1>. HIDE DEF m, n, st
<1>3. st \in [1..l -> C]
  BY <1>2, LenProperties
<1>4. left \in Seq(C)
  BY <1>1, SieveLeads
<1>5. Upto(st, m) = s
  <2>1. \A i \in 1..m : i \in 1..l /\ st[i] = s[i]
    BY <1>1, <1>2
  <2>2. Upto(st, m) = [i \in 1..m |-> s[i]]
    BY <2>1 DEF Upto
  <2>. QED BY <1>1, <2>2
<1>. HIDE DEF left, V, U
<1>6. 0 \in A
  <2>1. V(0) = <<>>
    BY <1>1, WithoutGrows DEF V
  <2>2. m + 0 = m /\ 0 \in 0..n
    BY <1>1
  <2>3. U(0) = left
    BY <1>5, <2>2 DEF U, left
  <2>4. left \o <<>> = left /\ <<>> \in Seq(C)
    BY <1>4, ConcatEmptySeq, EmptySeq
  <2>. QED BY <2>1, <2>2, <2>3, <2>4
<1>7. ASSUME NEW k \in 1..n, k - 1 \in A PROVE k \in A
  <2>. DEFINE j == m + k
              c == t[k]
  <2>1. j \in 1..l /\ j - 1 = m + (k - 1) /\ st[j] = c /\ c \in C /\ k \in 0..n
    BY <1>1, <1>2
  <2>2. V(k - 1) \in Seq(C) /\ U(k - 1) = left \o V(k - 1)
    BY <1>7
  <2>3. /\ V(k) \in Seq(C)
        /\ V(k) = IF c \in S THEN V(k - 1) ELSE Append(V(k - 1), c)
    <3>1. Stays(t, S, k, C)
      BY <1>1, WithoutMoves
    <3>. QED BY <3>1 DEF Stays, V
  <2>4. U(k) = IF c \in S THEN U(k - 1) ELSE Append(U(k - 1), c)
    <3>. HIDE DEF j
    <3>1. Stays(st, S, j, C)
      BY <1>1, <1>3, <2>1, WithoutMoves
    <3>2. Without(Upto(st, j), S) =
             IF st[j] \in S THEN Without(Upto(st, j - 1), S) ELSE Append(Without(Upto(st, j - 1), S), st[j])
      BY <3>1 DEF Stays
    <3>3. U(k) = Without(Upto(st, j), S) /\ U(k - 1) = Without(Upto(st, j - 1), S)
      BY <2>1 DEF U, j
    <3>. QED BY <2>1, <3>2, <3>3
  <2>. HIDE DEF c, j
  <2>5. Append(left \o V(k - 1), c) = left \o Append(V(k - 1), c)
    <3>. DEFINE y == V(k - 1)
    <3>1. y \in Seq(C)
      BY <2>2
    <3>. HIDE DEF y
    <3>2. AppendsOver(left, y, c)
      BY <1>4, <2>1, <3>1, ConcatAppends
    <3>. QED BY <3>2 DEF y, AppendsOver
  <2>6. U(k) = left \o V(k)
    BY <2>2, <2>3, <2>4, <2>5
  <2>. QED BY <2>1, <2>3, <2>6
<1>8. n \in A
  <2>. HIDE DEF A
  <2>1. \A k \in 1..n : k - 1 \in A => k \in A
    BY <1>7
  <2>2. \A k \in 0..n : k \in A
    BY <1>1, <1>6, <2>1, Upwards
  <2>. QED BY <1>1, <2>2
<1>9. U(n) = Without(st, S) /\ V(n) = Without(t, S)
  <2>1. Upto(st, l) = st /\ Upto(t, n) = t
    BY <1>1, <1>3, FrontGrows
  <2>. QED BY <2>1 DEF U, V
<1>. QED BY <1>4, <1>8, <1>9 DEF left, st, Divides

\* A filter that leaves everything out keeps nothing.
LEMMA WithoutAll ==
    ASSUME NEW C, NEW n \in Nat, NEW seq \in [1..n -> C], NEW S, \A k \in 1..n : seq[k] \in S
    PROVE  Without(seq, S) = <<>>
<1>. DEFINE A == {k \in 0..n : Without(Upto(seq, k), S) = <<>>}
<1>1. /\ Without(Upto(seq, 0), S) = <<>> /\ Without(Upto(seq, n), S) = Without(seq, S)
      /\ \A k \in 1..n : Stays(seq, S, k, C)
  BY WithoutGrows
<1>2. 0 \in A
  BY <1>1
<1>3. ASSUME NEW k \in 1..n, k - 1 \in A PROVE k \in A
  <2>1. k \in 0..n /\ Without(Upto(seq, k - 1), S) = <<>>
    BY <1>3
  <2>2. Without(Upto(seq, k), S) = Without(Upto(seq, k - 1), S)
    BY <1>1 DEF Stays
  <2>. QED BY <2>1, <2>2
<1>4. n \in A
  <2>. HIDE DEF A
  <2>1. \A k \in 1..n : k - 1 \in A => k \in A
    BY <1>3
  <2>2. \A k \in 0..n : k \in A
    BY <1>2, <2>1, Upwards
  <2>. QED BY <2>2
<1>. QED BY <1>1, <1>4

PartOf(text, i, j) == SubSeq(text, i, j)

\* A part of a text, from i to j: its length and its characters.
LEMMA Parts ==
    ASSUME NEW C, NEW text \in Seq(C), NEW i \in Nat, NEW j \in Nat, j <= Len(text), 1 <= i
    PROVE  /\ PartOf(text, i, j) \in Seq(C)
           /\ Len(PartOf(text, i, j)) = IF i <= j THEN j - i + 1 ELSE 0
           /\ \A k \in 1..Len(PartOf(text, i, j)) : PartOf(text, i, j)[k] = text[i + k - 1]
<1>1. Len(text) \in Nat /\ \A k \in 1..Len(text) : text[k] \in C
  BY LenProperties
<1>2. \A k \in i..j : text[k] \in C
  BY <1>1
<1>3. /\ SubSeq(text, i, j) \in Seq(C)
      /\ Len(SubSeq(text, i, j)) = IF i <= j THEN j - i + 1 ELSE 0
      /\ \A k \in 1..(j - i + 1) : SubSeq(text, i, j)[k] = text[i + k - 1]
  BY <1>2, SubSeqProperties
<1>. QED BY <1>3 DEF PartOf

Meets(text, i, j, k) == PartOf(text, i, k) = PartOf(text, i, j) \o PartOf(text, j + 1, k)

\* Parts that meet make one part.
LEMMA PartsMeet ==
    ASSUME NEW C, NEW text \in Seq(C), NEW i \in Nat, 1 <= i, i <= Len(text) + 1,
           NEW j \in Nat, i - 1 <= j, NEW k \in Nat, j <= k, k <= Len(text)
    PROVE  Meets(text, i, j, k)
<1>1. Len(text) \in Nat
  BY LenProperties
<1>2. i \in 1..(Len(text) + 1) /\ j \in i - 1 .. Len(text) /\ k \in j..Len(text)
  BY <1>1
<1>. QED BY <1>2, ConcatAdjacentSubSeq DEF PartOf, Meets

\* Trimming takes only what is blank.
LEMMA TrimKeeps ==
    ASSUME NEW C, NEW t \in Seq(C)
    PROVE  Without(Documents!Trim(t), Documents!Blank) = Without(t, Documents!Blank)
<1>. DEFINE S == Documents!Blank
            n == Len(t)
            r == Documents!Trim(t)
<1>1. n \in Nat /\ t \in [1..n -> C]
  BY LenProperties
<1>2. Solid(t) = {i \in 1..n : t[i] \notin S}
  BY DEF Solid
<1>3. IF Solid(t) = {} THEN r = <<>>
      ELSE \E a, b \in Solid(t) : /\ r = SubSeq(t, a, b)
                                  /\ \A i \in Solid(t) : a <= i /\ i <= b
  BY TrimCuts
<1>. HIDE DEF S, n, r
<1>4. CASE Solid(t) = {}
  <2>1. \A i \in 1..n : t[i] \in S
    BY <1>2, <1>4
  <2>2. Without(t, S) = <<>>
    BY <1>1, <2>1, WithoutAll
  <2>3. Without(<<>>, S) = <<>>
    <3>. DEFINE e == <<>>
    <3>1. e \in [1..0 -> C] /\ 0 \in Nat /\ \A i \in 1..0 : e[i] \in S
      OBVIOUS
    <3>. HIDE DEF e
    <3>2. Without(e, S) = <<>>
      BY <3>1, WithoutAll
    <3>. QED BY <3>2 DEF e
  <2>. QED BY <1>3, <1>4, <2>2, <2>3 DEF S, r
<1>5. CASE Solid(t) # {}
  <2>1. PICK a \in Solid(t), b \in Solid(t) : r = PartOf(t, a, b) /\ \A i \in Solid(t) : a <= i /\ i <= b
    BY <1>3, <1>5 DEF PartOf
  <2>2. a \in 1..n /\ b \in 1..n /\ a <= b
    BY <1>2, <2>1
  <2>. DEFINE before == PartOf(t, 1, a - 1)
              after == PartOf(t, b + 1, n)
              start == PartOf(t, 1, b)
              mid == PartOf(t, a, b)
  <2>3. a - 1 \in Nat /\ b + 1 \in Nat /\ a \in Nat /\ b \in Nat /\ 1 \in Nat /\ n = Len(t)
    BY <1>1, <2>2 DEF n
  <2>4. start = before \o mid
    <3>. DEFINE j == a - 1
    <3>1. j \in Nat /\ 1 - 1 <= j /\ j <= b /\ b <= Len(t) /\ 1 <= Len(t) + 1 /\ j + 1 = a
      BY <1>1, <2>2, <2>3
    <3>. HIDE DEF j
    <3>2. Meets(t, 1, j, b)
      BY <2>3, <3>1, PartsMeet
    <3>. QED BY <3>1, <3>2 DEF j, Meets
  <2>5. t = start \o after
    <3>1. 1 - 1 <= b /\ b <= n /\ n <= Len(t) /\ 1 <= Len(t) + 1 /\ 1 <= 1
      BY <1>1, <2>2, <2>3
    <3>2. Meets(t, 1, b, n)
      BY <1>1, <2>3, <3>1, PartsMeet
    <3>3. PartOf(t, 1, n) = t
      BY <2>3, SubSeqFull DEF PartOf
    <3>. QED BY <3>2, <3>3 DEF Meets
  <2>6. before \in Seq(C) /\ mid \in Seq(C) /\ after \in Seq(C) /\ start \in Seq(C)
    <3>. DEFINE j == a - 1
                i == b + 1
    <3>1. j \in Nat /\ j <= Len(t) /\ b <= Len(t) /\ 1 <= a /\ 1 <= i /\ n <= Len(t) /\ 1 <= 1 /\ i \in Nat
      BY <1>1, <2>2, <2>3
    <3>. HIDE DEF j, i
    <3>2. PartOf(t, 1, j) \in Seq(C) /\ PartOf(t, a, b) \in Seq(C) /\ PartOf(t, i, n) \in Seq(C) /\ PartOf(t, 1, b) \in Seq(C)
      BY <1>1, <2>3, <3>1, Parts
    <3>. QED BY <3>2 DEF j, i
  <2>7. Without(before, S) = <<>>
    <3>. DEFINE j == a - 1
                p == PartOf(t, 1, j)
    <3>1. j \in Nat /\ j <= Len(t) /\ 1 <= 1
      BY <1>1, <2>2, <2>3
    <3>2. \A k \in 1..j : t[k] \in S
      BY <1>1, <1>2, <2>1, <2>2
    <3>. HIDE DEF j
    <3>3. p \in Seq(C) /\ Len(p) = j /\ \A k \in 1..Len(p) : p[k] = t[1 + k - 1]
      <4>1. j - 1 + 1 = j /\ (~(1 <= j) => j = 0)
        BY <3>1
      <4>. QED BY <2>3, <3>1, <4>1, Parts
    <3>4. \A k \in 1..j : p[k] \in S
      BY <3>1, <3>2, <3>3
    <3>. HIDE DEF p
    <3>5. p \in [1..j -> C]
      BY <3>3, LenProperties
    <3>6. Without(p, S) = <<>>
      BY <3>1, <3>4, <3>5, WithoutAll
    <3>. QED BY <3>6 DEF p, j
  <2>8. Without(after, S) = <<>>
    <3>. DEFINE i == b + 1
                p == PartOf(t, i, n)
                l == n - b
    <3>1. i \in Nat /\ 1 <= i /\ n <= Len(t) /\ l \in Nat /\ n - i + 1 = l /\ (~(i <= n) => l = 0)
      <4>1. n \in Nat /\ b \in Nat /\ 1 <= b /\ b <= n /\ n = Len(t)
        BY <1>1, <2>2, <2>3
      <4>2. i \in Nat /\ 1 <= i /\ n <= Len(t)
        BY <4>1
      <4>3. l \in Nat /\ n - i + 1 = l
        BY ONLY <4>1
      <4>4. ~(i <= n) => l = 0
        BY ONLY <4>1
      <4>. QED BY <4>2, <4>3, <4>4
    <3>2. \A k \in 1..l : t[i + k - 1] \in S
      <4>1. ASSUME NEW k \in 1..l PROVE t[i + k - 1] \in S
        <5>1. i + k - 1 \in 1..n /\ ~(i + k - 1 <= b)
          BY <1>1, <2>2
        <5>. QED BY <1>2, <2>1, <5>1
      <4>. QED BY <4>1
    <3>. HIDE DEF i, l
    <3>3. p \in Seq(C) /\ Len(p) = l /\ \A k \in 1..Len(p) : p[k] = t[i + k - 1]
      BY <1>1, <3>1, Parts
    <3>4. \A k \in 1..l : p[k] \in S
      BY <3>2, <3>3
    <3>. HIDE DEF p
    <3>5. p \in [1..l -> C]
      BY <3>3, LenProperties
    <3>6. Without(p, S) = <<>>
      BY <3>1, <3>4, <3>5, WithoutAll
    <3>. QED BY <3>6 DEF p, i
  <2>. HIDE DEF before, after, start, mid
  <2>9. Without(t, S) = Without(start, S) \o Without(after, S) /\ Without(start, S) = Without(before, S) \o Without(mid, S)
    <3>1. Divides(start, after, S, C)
      BY <2>6, WithoutConcat
    <3>2. Divides(before, mid, S, C)
      BY <2>6, WithoutConcat
    <3>. QED BY <2>4, <2>5, <3>1, <3>2 DEF Divides
  <2>10. Without(mid, S) \in Seq(C)
    <3>1. Divides(before, mid, S, C)
      BY <2>6, WithoutConcat
    <3>. QED BY <3>1 DEF Divides
  <2>. DEFINE solid == Without(mid, S)
  <2>11. solid \in Seq(C) /\ Without(t, S) = (<<>> \o solid) \o <<>>
    BY <2>7, <2>8, <2>9, <2>10
  <2>. HIDE DEF solid
  <2>12. Without(t, S) = solid
    BY <2>11, ConcatEmptySeq
  <2>. QED BY <2>1, <2>12 DEF solid, mid, S, r
<1>. QED BY <1>4, <1>5

Cuts(n, size, m, e) ==
    /\ m \in Nat /\ e \in [0..m -> 0..n] /\ e[0] = 0 /\ e[m] = n
    /\ \A k \in 1..m : /\ e[k - 1] = (k - 1) * size /\ e[k - 1] <= e[k] /\ e[k] - e[k - 1] <= size
                       /\ e[k] = IF k * size < n THEN k * size ELSE n

\* One more of the same size.
LEMMA TimesOneMore ==
    ASSUME NEW k \in Nat, NEW size \in Nat
    PROVE  (k + 1) * size = k * size + size /\ k * size \in Nat
OBVIOUS

\* Enough pieces of one size, and none to spare.
LEMMA RoundedUp ==
    ASSUME NEW n \in Nat, NEW size \in Nat \ {0}
    PROVE  LET m == (n + size - 1) \div size
           IN  m \in Nat /\ n <= m * size /\ (m > 0 => (m - 1) * size < n) /\ (n = 0 => m = 0)
<1>. DEFINE a == n + size - 1
            m == a \div size
<1>1. a \in Nat
  OBVIOUS
<1>. HIDE DEF a
<1>2. m \in Nat /\ m * size <= a /\ a < m * size + size
  BY <1>1
<1>3. m * size \in Nat
  BY <1>2, TimesOneMore
<1>. HIDE DEF m
<1>4. n <= m * size
  BY <1>2, <1>3 DEF a
<1>5. ASSUME m > 0 PROVE (m - 1) * size < n
  <2>. DEFINE k == m - 1
  <2>1. k \in Nat /\ m = k + 1
    BY <1>2, <1>5
  <2>. HIDE DEF k
  <2>2. m * size = k * size + size /\ k * size \in Nat
    BY <2>1, TimesOneMore
  <2>3. k * size < n
    BY <1>2, <2>2 DEF a
  <2>. QED BY <2>3 DEF k
<1>6. ASSUME n = 0 PROVE m = 0
  <2>1. ~((m - 1) * size < 0) \/ ~(m > 0)
    <3>. DEFINE k == m - 1
    <3>1. m > 0 => k \in Nat
      BY <1>2
    <3>. HIDE DEF k
    <3>2. m > 0 => k * size \in Nat
      BY <3>1, TimesOneMore
    <3>3. m > 0 => ~(k * size < 0)
      BY <3>2
    <3>. QED BY <3>3 DEF k
  <2>. QED BY <1>2, <1>5, <1>6, <2>1
<1>. QED BY <1>2, <1>4, <1>5, <1>6 DEF m, a

\* A text has cuts at the multiples of the size.
LEMMA CutsOf ==
    ASSUME NEW n \in Nat, NEW size \in Nat \ {0}
    PROVE  \E e : Cuts(n, size, (n + size - 1) \div size, e)
<1>. DEFINE m == (n + size - 1) \div size
            e == [k \in 0..m |-> IF k * size < n THEN k * size ELSE n]
<1>1. m \in Nat /\ n <= m * size /\ (m > 0 => (m - 1) * size < n) /\ (n = 0 => m = 0)
  BY RoundedUp
<1>. HIDE DEF m
<1>2. \A k \in 0..m : k * size \in Nat
  BY <1>1, TimesOneMore
<1>3. e \in [0..m -> 0..n]
  <2>1. ASSUME NEW k \in 0..m PROVE (IF k * size < n THEN k * size ELSE n) \in 0..n
    <3>. DEFINE a == k * size
    <3>1. a \in Nat
      BY <1>2
    <3>. HIDE DEF a
    <3>2. (IF a < n THEN a ELSE n) \in 0..n
      BY <3>1
    <3>. QED BY <3>2 DEF a
  <2>. QED BY <2>1
<1>4. e[0] = 0 /\ e[m] = n
  <2>1. 0 \in 0..m /\ m \in 0..m /\ 0 * size = 0 /\ m * size \in Nat
    BY <1>1, <1>2
  <2>2. e[0] = IF 0 * size < n THEN 0 * size ELSE n
    BY <2>1
  <2>3. e[m] = IF m * size < n THEN m * size ELSE n
    BY <2>1
  <2>. HIDE DEF e
  <2>4. ~(m * size < n)
    BY <1>1, <2>1
  <2>. QED BY <2>1, <2>2, <2>3, <2>4
<1>5. ASSUME NEW k \in 1..m
      PROVE  /\ e[k - 1] = (k - 1) * size /\ e[k - 1] <= e[k] /\ e[k] - e[k - 1] <= size
             /\ e[k] = IF k * size < n THEN k * size ELSE n
  <2>. DEFINE j == k - 1
              l == m - 1
              a == j * size
              b == k * size
              c == l * size
  <2>1. k \in 0..m /\ j \in 0..m /\ j \in Nat /\ k \in Nat /\ k = j + 1 /\ l \in Nat /\ l - j \in Nat /\ m > 0
    BY <1>1
  <2>2. e[k] = (IF b < n THEN b ELSE n) /\ e[j] = IF a < n THEN a ELSE n
    BY <2>1
  <2>. HIDE DEF e
  <2>3. b = a + size /\ a \in Nat
    <3>. HIDE DEF j
    <3>1. (j + 1) * size = j * size + size /\ j * size \in Nat
      BY <2>1, TimesOneMore
    <3>. QED BY <2>1, <3>1
  <2>4. a <= c /\ c < n
    <3>1. c < n
      BY <1>1, <2>1
    <3>. DEFINE d == l - j
    <3>2. d * size \in Nat /\ d \in Nat
      <4>1. d \in Nat
        BY <2>1
      <4>. HIDE DEF d
      <4>. QED BY <4>1, TimesOneMore
    <3>3. l = j + d
      BY <2>1
    <3>. HIDE DEF l, j, d
    <3>4. (j + d) * size = j * size + d * size
      BY <2>1, <3>2
    <3>5. c = a + d * size
      BY <3>3, <3>4
    <3>. DEFINE s == d * size
    <3>. HIDE DEF a, c, s
    <3>6. s \in Nat /\ c = a + s
      BY <3>2, <3>5 DEF s
    <3>7. a <= c
      BY <2>3, <3>6
    <3>. QED BY <3>1, <3>7
  <2>5. c \in Nat
    <3>. HIDE DEF l
    <3>. QED BY <2>1, TimesOneMore
  <2>. HIDE DEF a, b, c, j, l
  <2>6. a < n
    BY <2>3, <2>4, <2>5
  <2>7. e[j] = a /\ e[j] <= e[k] /\ e[k] - e[j] <= size
    BY <2>2, <2>3, <2>6
  <2>. QED BY <2>2, <2>7 DEF a, b, j
<1>6. Cuts(n, size, m, e)
  BY <1>1, <1>3, <1>4, <1>5 DEF Cuts
<1>. QED BY <1>6 DEF m

ChunkOf(text, e, k) == Documents!Trim(PartOf(text, e[k - 1] + 1, e[k]))

\* A text without its blanks, up to a cut, is what its chunks hold so far.
LEMMA ChunkIsPart ==
    ASSUME NEW C, NEW text \in Seq(C), NEW i \in Nat, NEW j \in Nat, i <= j, j <= Len(text), NEW size \in Nat, j - i <= size
    PROVE  LET part == PartOf(text, i + 1, j) IN
              /\ Documents!Trim(part) \in Seq(C) /\ Len(Documents!Trim(part)) <= size /\ part \in Seq(C)
              /\ Meets(text, 1, i, j)
<1>. DEFINE part == PartOf(text, i + 1, j)
<1>1. Len(text) \in Nat
  BY LenProperties
<1>2. part \in Seq(C) /\ Len(part) <= size
  <2>. DEFINE h == i + 1
  <2>1. h \in Nat /\ 1 <= h
    OBVIOUS
  <2>. HIDE DEF h
  <2>2. PartOf(text, h, j) \in Seq(C) /\ Len(PartOf(text, h, j)) = IF h <= j THEN j - h + 1 ELSE 0
    BY <2>1, Parts
  <2>3. (IF h <= j THEN j - h + 1 ELSE 0) <= size
    BY DEF h
  <2>. QED BY <2>2, <2>3 DEF h
<1>. HIDE DEF part
<1>3. Documents!Trim(part) \in Seq(C) /\ Len(Documents!Trim(part)) <= size
  <2>1. Documents!Trim(part) \in Seq(C) /\ Len(Documents!Trim(part)) <= Len(part)
    BY <1>2, TrimIsPart
  <2>. DEFINE r == Documents!Trim(part)
  <2>2. Len(r) \in Nat /\ Len(part) \in Nat
    BY <1>2, <2>1, LenProperties
  <2>. QED BY <1>2, <2>1, <2>2
<1>4. Meets(text, 1, i, j)
  BY <1>1, PartsMeet
<1>. QED BY <1>2, <1>3, <1>4 DEF part

\* A filter of a text and a trimmed one is the filter of both untrimmed.
LEMMA WithoutTrimmed ==
    ASSUME NEW C, NEW s \in Seq(C), NEW u \in Seq(C), NEW p \in Seq(C),
           Without(s, Documents!Blank) = Without(u, Documents!Blank)
    PROVE  Without(s \o Documents!Trim(p), Documents!Blank) = Without(u \o p, Documents!Blank)
<1>. DEFINE S == Documents!Blank
            q == Documents!Trim(p)
<1>1. Without(q, S) = Without(p, S)
  BY TrimKeeps
<1>2. q \in Seq(C)
  BY TrimIsPart
<1>. HIDE DEF S, q
<1>3. Divides(s, q, S, C) /\ Divides(u, p, S, C)
  BY <1>2, WithoutConcat
<1>. QED BY <1>1, <1>3 DEF Divides, S, q

Chunked(r, text, e, m) == r = [k \in 1..m |-> ChunkOf(text, e, k)]

KeepsText(r, text, size, m) ==
    /\ Without(FlattenSeq(r), Documents!Blank) = Without(text, Documents!Blank)
    /\ \A k \in 1..m : Len(r[k]) <= size

\* Chunks between such cuts hold the text but for blanks, none above the size.
LEMMA ChunksHold ==
    ASSUME NEW C, NEW text \in Seq(C), NEW size \in Nat, NEW m, NEW e, Cuts(Len(text), size, m, e),
           NEW r, Chunked(r, text, e, m)
    PROVE  KeepsText(r, text, size, m)
<1>. DEFINE S == Documents!Blank
            n == Len(text)
<1>1. n \in Nat
  BY LenProperties
<1>2. /\ m \in Nat /\ e \in [0..m -> 0..n] /\ e[0] = 0 /\ e[m] = n
      /\ \A k \in 1..m : e[k - 1] <= e[k] /\ e[k] - e[k - 1] <= size
  BY DEF Cuts
<1>. HIDE DEF n
<1>3. ASSUME NEW k \in 1..m
      PROVE  /\ k - 1 \in 0..m /\ r[k] = Documents!Trim(PartOf(text, e[k - 1] + 1, e[k]))
             /\ r[k] \in Seq(C) /\ Len(r[k]) <= size
             /\ PartOf(text, e[k - 1] + 1, e[k]) \in Seq(C)
             /\ Meets(text, 1, e[k - 1], e[k])
  <2>. DEFINE i == e[k - 1]
              j == e[k]
  <2>1. k - 1 \in 0..m /\ k \in 0..m
    BY <1>2
  <2>2. i \in 0..n /\ j \in 0..n /\ i <= j /\ j - i <= size
    BY <1>2, <2>1
  <2>3. r[k] = Documents!Trim(PartOf(text, i + 1, j))
    BY DEF ChunkOf, Chunked
  <2>. HIDE DEF i, j
  <2>4. i \in Nat /\ j \in Nat /\ j <= Len(text)
    BY <1>1, <2>2 DEF n
  <2>5. LET part == PartOf(text, i + 1, j) IN
              /\ Documents!Trim(part) \in Seq(C) /\ Len(Documents!Trim(part)) <= size /\ part \in Seq(C)
              /\ Meets(text, 1, i, j)
    BY <2>2, <2>4, ChunkIsPart
  <2>. QED BY <2>1, <2>3, <2>5 DEF i, j
<1>4. r \in [1..m -> Seq(C)]
  BY <1>3 DEF Chunked
<1>5. PICK F \in [0..m -> Seq(C)] : FlatBy(F, r, m)
  BY <1>2, <1>4, FlatRuns
<1>6. F[0] = <<>> /\ F[m] = FlattenSeq(r) /\ \A k \in 1..m : F[k] = F[k - 1] \o r[k]
  BY <1>5 DEF FlatBy
<1>. DEFINE A == {k \in 0..m : PartOf(text, 1, e[k]) \in Seq(C) /\ Without(F[k], S) = Without(PartOf(text, 1, e[k]), S)}
<1>7. 0 \in A
  <2>1. PartOf(text, 1, 0) \in Seq(C) /\ Len(PartOf(text, 1, 0)) = 0
    <3>. DEFINE z == 0
    <3>1. z \in Nat /\ z <= Len(text) /\ 1 \in Nat /\ 1 <= 1 /\ (IF 1 <= z THEN z - 1 + 1 ELSE 0) = 0
      BY <1>1 DEF n
    <3>. HIDE DEF z
    <3>2. PartOf(text, 1, z) \in Seq(C) /\ Len(PartOf(text, 1, z)) = IF 1 <= z THEN z - 1 + 1 ELSE 0
      BY <3>1, Parts
    <3>. QED BY <3>1, <3>2 DEF z
  <2>. DEFINE p == PartOf(text, 1, 0)
  <2>. HIDE DEF p
  <2>2. p = <<>>
    BY <2>1, EmptySeq DEF p
  <2>3. 0 \in 0..m
    BY <1>2
  <2>. QED BY <1>2, <1>6, <2>1, <2>2, <2>3 DEF p
<1>8. ASSUME NEW k \in 1..m, k - 1 \in A PROVE k \in A
  <2>. DEFINE i == e[k - 1]
              j == e[k]
              u == PartOf(text, 1, i)
              p == PartOf(text, i + 1, j)
              s == F[k - 1]
              t == PartOf(text, 1, j)
  <2>1. u \in Seq(C) /\ Without(s, S) = Without(u, S)
    BY <1>8
  <2>2. p \in Seq(C) /\ r[k] = Documents!Trim(p) /\ t = u \o p
    BY <1>3 DEF Meets
  <2>3. s \in Seq(C) /\ F[k] = s \o r[k]
    BY <1>3, <1>6
  <2>4. k \in 0..m
    BY <1>2
  <2>. HIDE DEF u, p, s, t
  <2>5. Without(s \o Documents!Trim(p), S) = Without(u \o p, S)
    BY <2>1, <2>2, <2>3, WithoutTrimmed
  <2>6. t \in Seq(C)
    BY <2>1, <2>2, ConcatProperties
  <2>7. t \in Seq(C) /\ Without(F[k], S) = Without(t, S)
    BY <2>2, <2>3, <2>5, <2>6
  <2>. QED BY <2>4, <2>7 DEF t
<1>9. m \in A
  <2>. HIDE DEF A
  <2>1. \A k \in 1..m : k - 1 \in A => k \in A
    BY <1>8
  <2>2. \A k \in 0..m : k \in A
    BY <1>2, <1>7, <2>1, Upwards
  <2>. QED BY <1>2, <2>2
<1>10. PartOf(text, 1, n) = text
  BY SubSeqFull DEF PartOf, n
<1>11. Without(FlattenSeq(r), S) = Without(text, S)
  BY <1>2, <1>6, <1>9, <1>10
<1>. QED BY <1>3, <1>11 DEF KeepsText

\* Whatever the text, its alphabet and the size: the chunks of a document are of
\* at most the size and together hold every character that is not blank, in its
\* place.  (splitChunks)
THEOREM ChunksLoseNothing ==
    ASSUME NEW C, NEW text \in Seq(C), NEW size \in Nat \ {0}
    PROVE  LET r == Documents!splitChunks(text, size)
           IN  /\ Without(FlattenSeq(r), Documents!Blank) = Without(text, Documents!Blank)
               /\ \A k \in DOMAIN r : Len(r[k]) <= size
<1>. DEFINE n == Len(text)
            m == (n + size - 1) \div size
            r == Documents!splitChunks(text, size)
<1>1. n \in Nat /\ size \in Nat
  BY LenProperties
<1>2. r = [k \in 1..m |-> Documents!Trim(SubSeq(text, (k - 1) * size + 1, IF k * size < n THEN k * size ELSE n))]
  BY DEF Documents!splitChunks
<1>. HIDE DEF n, m, r
<1>3. PICK e : Cuts(n, size, m, e)
  BY <1>1, CutsOf DEF m
<1>4. /\ m \in Nat
      /\ \A k \in 1..m : e[k - 1] = (k - 1) * size /\ e[k] = IF k * size < n THEN k * size ELSE n
  BY <1>3 DEF Cuts
<1>5. r = [k \in 1..m |-> ChunkOf(text, e, k)] /\ Chunked(r, text, e, m)
  BY <1>2, <1>4 DEF ChunkOf, PartOf, Chunked
<1>6. Cuts(Len(text), size, m, e)
  BY <1>3 DEF n
<1>7. KeepsText(r, text, size, m)
  BY <1>1, <1>5, <1>6, ChunksHold
<1>8. DOMAIN r = 1..m
  BY <1>5
<1>. QED BY <1>7, <1>8 DEF KeepsText, r

\* So do the chunks of the runs.
LEMMA ChunksAreKept ==
    ASSUME NEW x \in ChunkInputs
    PROVE  ChunksKeepText(x, Documents!splitChunks(x.text, x.size))
<1>. DEFINE C == {"x", "y", "space"}
            text == x.text
            size == x.size
            r == Documents!splitChunks(text, size)
<1>1. size \in Nat \ {0} /\ text \in Seq(C)
  <2>1. size \in 1..3 /\ text \in Lists(C, 5)
    BY DEF ChunkInputs
  <2>2. PICK k \in 0..5 : text \in [1..k -> C]
    BY <2>1 DEF Lists
  <2>. QED BY <2>1, <2>2
<1>. HIDE DEF C, text, size
<1>2. /\ Without(FlattenSeq(r), Documents!Blank) = Without(text, Documents!Blank)
      /\ \A k \in DOMAIN r : Len(r[k]) <= size
  BY <1>1, ChunksLoseNothing
<1>. HIDE DEF r
<1>3. /\ Documents!Without(FlattenSeq(r), Documents!Blank) = Documents!Without(text, Documents!Blank)
      /\ \A k \in DOMAIN r : Len(r[k]) <= size
  BY <1>2, SameWithout
<1>. QED BY <1>3 DEF ChunksKeepText, r, text, size

-----------------------------------------------------------------------------
(***************************************************************************)
(* The needs of a document                                                 *)
(***************************************************************************)
Titles(rows) == [k \in 1..Len(rows) |-> rows[k].title]

TitlesOver(s, t) == Titles(s \o t) = Titles(s) \o Titles(t)

TitleRows(T) == [title : T, statement : T]

\* The titles of two lists are those of the one and of the other.
LEMMA TitlesConcat ==
    ASSUME NEW T, NEW s \in Seq(TitleRows(T)), NEW t \in Seq(TitleRows(T))
    PROVE  TitlesOver(s, t) /\ Titles(s) \in Seq(T)
<1>. DEFINE D == TitleRows(T)
            m == Len(s)
            n == Len(t)
            st == s \o t
            a == Titles(s)
            b == Titles(t)
            ab == a \o b
<1>1. m \in Nat /\ n \in Nat /\ (\A k \in 1..m : s[k] \in D) /\ (\A k \in 1..n : t[k] \in D)
  BY LenProperties
<1>2. st \in Seq(D) /\ Len(st) = m + n /\ \A i \in 1..(m + n) : st[i] = IF i <= m THEN s[i] ELSE t[i - m]
  BY ConcatProperties
<1>3. a \in [1..m -> T] /\ b \in [1..n -> T]
  BY <1>1 DEF Titles, TitleRows
<1>4. a \in Seq(T) /\ b \in Seq(T) /\ Len(a) = m /\ Len(b) = n
  <2>. HIDE DEF a, b, m, n
  <2>. QED BY <1>1, <1>3
<1>5. \A k \in 1..m : a[k] = s[k].title
  BY DEF Titles
<1>6. \A k \in 1..n : b[k] = t[k].title
  BY DEF Titles
<1>. HIDE DEF m, n, st, a, b
<1>7. ab \in Seq(T) /\ Len(ab) = m + n /\ \A i \in 1..(m + n) : ab[i] = IF i <= m THEN a[i] ELSE b[i - m]
  BY <1>4, ConcatProperties
<1>. HIDE DEF ab
<1>8. ASSUME NEW i \in 1..(m + n) PROVE Titles(st)[i] = ab[i]
  <2>1. Titles(st)[i] = st[i].title
    BY <1>2 DEF Titles
  <2>2. CASE i <= m
    <3>1. i \in 1..m
      BY <1>1, <2>2
    <3>. QED BY <1>2, <1>5, <1>7, <2>1, <2>2, <3>1
  <2>3. CASE ~(i <= m)
    <3>1. i - m \in 1..n
      BY <1>1, <2>3
    <3>. QED BY <1>2, <1>6, <1>7, <2>1, <2>3, <3>1
  <2>. QED BY <2>2, <2>3
<1>9. Titles(st) = ab
  <2>1. Titles(st) = [k \in 1..(m + n) |-> Titles(st)[k]]
    BY <1>2 DEF Titles
  <2>2. ab = [k \in 1..(m + n) |-> ab[k]]
    BY <1>1, <1>7
  <2>. QED BY <1>8, <2>1, <2>2
<1>. QED BY <1>4, <1>9 DEF TitlesOver, ab, a, b, st

TitledBy(E, R, n) == FlattenSeq(E) = Titles(FlattenSeq(R)) /\ Len(FlattenSeq(R)) >= n

\* The titles of the rows of all items are those of each item in turn, and every item has a row.
LEMMA TitlesFlat ==
    ASSUME NEW T, NEW n \in Nat, NEW R \in [1..n -> Seq(TitleRows(T))], NEW E \in [1..n -> Seq(T)],
           \A k \in 1..n : E[k] = Titles(R[k]) /\ Len(R[k]) >= 1
    PROVE  TitledBy(E, R, n) /\ FlattenSeq(R) \in Seq(TitleRows(T))
<1>. DEFINE D == TitleRows(T)
<1>1. PICK F \in [0..n -> Seq(D)] : FlatBy(F, R, n)
  BY FlatRuns
<1>2. PICK G \in [0..n -> Seq(T)] : FlatBy(G, E, n)
  BY FlatRuns
<1>3. F[0] = <<>> /\ F[n] = FlattenSeq(R) /\ \A k \in 1..n : F[k] = F[k - 1] \o R[k]
  BY <1>1 DEF FlatBy
<1>4. G[0] = <<>> /\ G[n] = FlattenSeq(E) /\ \A k \in 1..n : G[k] = G[k - 1] \o E[k]
  BY <1>2 DEF FlatBy
<1>. DEFINE A == {k \in 0..n : G[k] = Titles(F[k]) /\ Len(F[k]) >= k}
<1>5. 0 \in A
  <2>1. Titles(<<>>) = <<>> /\ Len(<<>>) >= 0
    BY DEF Titles
  <2>. QED BY <1>3, <1>4, <2>1
<1>6. ASSUME NEW k \in 1..n, k - 1 \in A PROVE k \in A
  <2>. DEFINE s == F[k - 1]
              t == R[k]
  <2>1. k \in 0..n /\ k - 1 \in 0..n /\ k \in Nat
    OBVIOUS
  <2>2. s \in Seq(D) /\ t \in Seq(D) /\ Len(s) >= k - 1 /\ Len(t) >= 1 /\ G[k - 1] = Titles(s) /\ E[k] = Titles(t)
    BY <1>6, <2>1
  <2>3. F[k] = s \o t /\ G[k] = Titles(s) \o Titles(t)
    BY <1>3, <1>4, <2>2
  <2>. HIDE DEF s, t, D
  <2>4. TitlesOver(s, t)
    BY <2>2, TitlesConcat DEF D
  <2>. DEFINE st == s \o t
  <2>5. Len(st) = Len(s) + Len(t) /\ Len(s) \in Nat /\ Len(t) \in Nat
    BY <2>2, ConcatProperties, LenProperties
  <2>6. Len(F[k]) >= k
    BY <2>1, <2>2, <2>3, <2>5
  <2>. QED BY <2>1, <2>3, <2>4, <2>6 DEF TitlesOver
<1>7. n \in A
  <2>. HIDE DEF A
  <2>1. \A k \in 1..n : k - 1 \in A => k \in A
    BY <1>6
  <2>2. \A k \in 0..n : k \in A
    BY <1>5, <2>1, Upwards
  <2>. QED BY <2>2
<1>8. F[n] \in Seq(D)
  OBVIOUS
<1>. QED BY <1>3, <1>4, <1>7, <1>8 DEF TitledBy

ItemRows(item) == IF Len(item.parts) > 1
                  THEN [i \in DOMAIN item.parts |-> [title |-> item.parts[i], statement |-> item.parts[i]]]
                  ELSE <<[title |-> item.title, statement |-> item.statement]>>

ItemTitles(item) == IF Len(item.parts) = 2 THEN item.parts ELSE <<"whole">>

\* One item of an answer becomes rows with the titles it has.
LEMMA ItemsAreRows ==
    ASSUME NEW item \in Items
    PROVE  /\ ItemRows(item) \in Seq(TitleRows({"p", "q", "whole"})) /\ ItemTitles(item) \in Seq({"p", "q", "whole"})
           /\ ItemTitles(item) = Titles(ItemRows(item)) /\ Len(ItemRows(item)) >= 1
<1>. DEFINE T == {"p", "q", "whole"}
            whole == [title |-> "whole", statement |-> "whole"]
<1>1. whole \in TitleRows(T) /\ whole.title = "whole"
  BY DEF TitleRows
<1>2. ASSUME item = Item(<<>>) \/ item = Item(<<"p">>)
      PROVE  ItemRows(item) = <<whole>> /\ ItemTitles(item) = <<"whole">>
  <2>1. item.title = "whole" /\ item.statement = "whole" /\ ~(Len(item.parts) > 1) /\ Len(item.parts) # 2
    <3>1. CASE item = Item(<<>>)
      BY <3>1 DEF Item
    <3>2. CASE item = Item(<<"p">>)
      BY <3>2 DEF Item
    <3>. QED BY <1>2, <3>1, <3>2
  <2>2. ItemRows(item) = <<[title |-> item.title, statement |-> item.statement]>>
    BY <2>1, Zenon DEF ItemRows
  <2>3. ItemTitles(item) = <<"whole">>
    BY <2>1, Zenon DEF ItemTitles
  <2>. QED BY <2>1, <2>2, <2>3
<1>3. CASE item = Item(<<>>) \/ item = Item(<<"p">>)
  <2>. HIDE DEF whole
  <2>1. Titles(<<whole>>) = <<"whole">>
    BY <1>1 DEF Titles
  <2>2. <<whole>> \in Seq(TitleRows(T)) /\ <<"whole">> \in Seq(T) /\ Len(<<whole>>) = 1
    BY <1>1
  <2>3. ItemRows(item) = <<whole>> /\ ItemTitles(item) = <<"whole">>
    BY <1>2, <1>3
  <2>4. /\ ItemRows(item) \in Seq(TitleRows(T)) /\ Len(ItemRows(item)) >= 1
        /\ ItemTitles(item) = Titles(ItemRows(item))
    BY <2>1, <2>2, <2>3
  <2>5. ItemTitles(item) \in Seq(T)
    BY <2>2, <2>3
  <2>. QED BY <2>4, <2>5
<1>4. CASE item = Item(<<"p", "q">>)
  <2>. DEFINE a == [title |-> "p", statement |-> "p"]
              b == [title |-> "q", statement |-> "q"]
  <2>1. item.parts = <<"p", "q">>
    BY <1>4 DEF Item
  <2>2. ItemRows(item) = [i \in 1..2 |-> [title |-> item.parts[i], statement |-> item.parts[i]]]
    BY <2>1 DEF ItemRows
  <2>3. ItemRows(item) = <<a, b>>
    BY <2>1, <2>2
  <2>4. ItemTitles(item) = <<"p", "q">>
    BY <2>1 DEF ItemTitles
  <2>5. a \in TitleRows(T) /\ b \in TitleRows(T) /\ a.title = "p" /\ b.title = "q"
    BY DEF TitleRows
  <2>. HIDE DEF a, b
  <2>6. Titles(<<a, b>>) = <<"p", "q">>
    BY <2>5 DEF Titles
  <2>7. <<a, b>> \in Seq(TitleRows(T)) /\ <<"p", "q">> \in Seq(T) /\ Len(<<a, b>>) = 2
    BY <2>5
  <2>. QED BY <2>3, <2>4, <2>6, <2>7
<1>. QED BY <1>3, <1>4 DEF Items

Numbered(items, n) ==
    LET r == Documents!splitCombinedNeedItems(items) IN
    /\ [i \in DOMAIN r |-> r[i].title] = FlattenSeq([i \in DOMAIN items |-> ItemTitles(items[i])])
    /\ \A i \in DOMAIN r : r[i].row = i
    /\ n > 0 => r # <<>>

\* The rows of all items are numbered through and keep their titles in order.
LEMMA ItemsAreNumbered ==
    ASSUME NEW n \in Nat, NEW items \in [1..n -> Items]
    PROVE  Numbered(items, n)
<1>. DEFINE T == {"p", "q", "whole"}
            R == [i \in DOMAIN items |-> ItemRows(items[i])]
            E == [i \in DOMAIN items |-> ItemTitles(items[i])]
            rows == FlattenSeq(R)
            r == Documents!splitCombinedNeedItems(items)
<1>1. \A k \in 1..n : /\ ItemRows(items[k]) \in Seq(TitleRows(T)) /\ ItemTitles(items[k]) \in Seq(T)
                      /\ ItemTitles(items[k]) = Titles(ItemRows(items[k])) /\ Len(ItemRows(items[k])) >= 1
  BY ItemsAreRows
<1>2. r = [i \in DOMAIN rows |-> [row |-> i, title |-> rows[i].title, statement |-> rows[i].statement]]
  BY DEF Documents!splitCombinedNeedItems, ItemRows, Documents!FlattenSeq, FlattenSeq
<1>. HIDE DEF T, r
<1>3. R \in [1..n -> Seq(TitleRows(T))] /\ E \in [1..n -> Seq(T)]
  BY <1>1
<1>4. \A k \in 1..n : E[k] = Titles(R[k]) /\ Len(R[k]) >= 1
  BY <1>1
<1>. HIDE DEF R, E
<1>5. TitledBy(E, R, n) /\ rows \in Seq(TitleRows(T))
  BY <1>3, <1>4, TitlesFlat
<1>. HIDE DEF rows
<1>6. FlattenSeq(E) = Titles(rows) /\ Len(rows) >= n
  BY <1>5 DEF TitledBy, rows
<1>7. Len(rows) \in Nat /\ DOMAIN rows = 1..Len(rows)
  BY <1>5, LenProperties
<1>8. DOMAIN r = 1..Len(rows) /\ \A i \in 1..Len(rows) : r[i].row = i /\ r[i].title = rows[i].title
  BY <1>2, <1>7
<1>9. [i \in DOMAIN r |-> r[i].title] = Titles(rows)
  BY <1>8 DEF Titles
<1>10. n > 0 => r # <<>>
  <2>1. n > 0 => 1 \in DOMAIN r
    BY <1>6, <1>7, <1>8
  <2>. QED BY <2>1
<1>. QED BY <1>6, <1>8, <1>9, <1>10 DEF Numbered, r, E

\* So are the needs of the documents of the runs.
LEMMA DocumentsAreNumbered ==
    ASSUME NEW x \in DocumentInputs
    PROVE  DocumentsNumbered(x, Documents!parseSurveyDocumentNeeds(x.file, x.answer))
<1>. DEFINE used == IF x.answer # <<>> THEN x.answer ELSE x.file.paragraphs
            r == Documents!parseSurveyDocumentNeeds(x.file, x.answer)
            split == Documents!splitCombinedNeedItems(used)
            expected == FlattenSeq([i \in DOMAIN used |-> ItemTitles(used[i])])
            usable == x.file.readable /\ x.file.kind # "zip" /\ x.file.paragraphs # <<>> /\ x.answer # <<>>
<1>1. x.answer \in Lists(Items, 2) /\ x.file.paragraphs \in Lists(Items, 1) /\ x.file.kind \in {"pdf", "docx", "zip"}
  BY DEF DocumentInputs
<1>2. PICK n \in Nat : used \in [1..n -> Items] /\ (x.answer # <<>> => n > 0)
  <2>1. PICK k \in 0..2 : x.answer \in [1..k -> Items]
    BY <1>1 DEF Lists
  <2>2. PICK l \in 0..1 : x.file.paragraphs \in [1..l -> Items]
    BY <1>1 DEF Lists
  <2>3. CASE x.answer # <<>>
    <3>1. k > 0 /\ k \in Nat
      BY <2>1, <2>3
    <3>2. used = x.answer
      BY <2>3
    <3>. QED BY <2>1, <3>1, <3>2
  <2>4. CASE x.answer = <<>>
    <3>1. used = x.file.paragraphs /\ l \in Nat
      BY <2>4
    <3>. QED BY <2>2, <2>4, <3>1
  <2>. QED BY <2>3, <2>4
<1>3. Numbered(used, n)
  BY <1>2, ItemsAreNumbered
<1>4. (r = <<>> \/ r = split) /\ (usable => r = split)
  <2>1. CASE x.answer # <<>>
    <3>1. used = x.answer
      BY <2>1
    <3>2. r = IF \/ x.file.kind \notin {"pdf", "docx", "doc", "xlsx", "xls", "csv", "txt"}
                 \/ ~x.file.readable \/ x.file.paragraphs = <<>>
              THEN <<>> ELSE split
      BY <2>1, <3>1 DEF Documents!parseSurveyDocumentNeeds, Documents!Refusal
    <3>3. usable => x.file.kind \in {"pdf", "docx"}
      BY <1>1
    <3>. HIDE DEF r, split
    <3>. QED BY <3>2, <3>3
  <2>2. CASE x.answer = <<>>
    <3>1. used = x.file.paragraphs
      BY <2>2
    <3>2. r = <<>> \/ r = Documents!parsePdfNeeds(x.file, x.answer)
      BY <2>2 DEF Documents!parseSurveyDocumentNeeds, Documents!Refusal
    <3>3. Documents!parsePdfNeeds(x.file, x.answer) = <<>> \/ Documents!parsePdfNeeds(x.file, x.answer) = split
      BY <2>2, <3>1 DEF Documents!parsePdfNeeds, Documents!Refusal
    <3>. HIDE DEF r, split
    <3>. QED BY <2>2, <3>2, <3>3
  <2>. QED BY <2>1, <2>2
<1>5. /\ [i \in DOMAIN split |-> split[i].title] = expected
      /\ \A i \in DOMAIN split : split[i].row = i
      /\ n > 0 => split # <<>>
  BY <1>3 DEF Numbered
<1>. HIDE DEF split
<1>6. r # <<>> => [i \in DOMAIN r |-> r[i].title] = expected
  BY <1>4, <1>5
<1>7. \A i \in DOMAIN r : r[i].row = i
  <2>1. CASE r = <<>>
    BY <2>1
  <2>2. CASE r = split
    BY <1>5, <2>2
  <2>. QED BY <1>4, <2>1, <2>2
<1>8. usable => r # <<>>
  BY <1>2, <1>4, <1>5
<1>. HIDE DEF r
<1>9. DocumentsNumbered(x, r)
  BY <1>6, <1>7, <1>8 DEF DocumentsNumbered, ItemTitles
<1>. QED BY <1>9 DEF r

-----------------------------------------------------------------------------
(***************************************************************************)
(* A response as a row of an export                                        *)
(***************************************************************************)
Grows(s, c) == ToSet(Append(s, c)) = ToSet(s) \cup {c}

\* What is appended is in it, and all else stays.
LEMMA AppendHas == ASSUME NEW C, NEW s \in Seq(C), NEW c \in C PROVE Grows(s, c)
<1>. DEFINE t == Append(s, c)
            n == Len(s)
<1>1. n \in Nat /\ DOMAIN s = 1..n
  BY LenProperties
<1>2. DOMAIN t = 1..(n + 1) /\ t[n + 1] = c /\ \A i \in 1..n : t[i] = s[i]
  BY <1>1
<1>. HIDE DEF n, t
<1>3. ASSUME NEW e \in ToSet(t) PROVE e \in ToSet(s) \cup {c}
  <2>1. PICK i \in 1..(n + 1) : e = t[i]
    BY <1>2 DEF ToSet
  <2>2. i = n + 1 \/ i \in 1..n
    BY <1>1
  <2>. QED BY <1>1, <1>2, <2>1, <2>2 DEF ToSet
<1>4. ASSUME NEW e \in ToSet(s) PROVE e \in ToSet(t)
  <2>1. PICK i \in 1..n : e = s[i]
    BY <1>1 DEF ToSet
  <2>2. i \in 1..(n + 1)
    BY <1>1
  <2>. QED BY <1>2, <2>1, <2>2 DEF ToSet
<1>5. c \in ToSet(t)
  <2>1. n + 1 \in 1..(n + 1)
    BY <1>1
  <2>. QED BY <1>2, <2>1 DEF ToSet
<1>6. ToSet(t) = ToSet(s) \cup {c}
  BY <1>3, <1>4, <1>5
<1>. QED BY <1>6 DEF Grows, t

Remains(seq, S) == ToSet(Without(seq, S)) = ToSet(seq) \ S

\* A filter leaves what is not filtered out, and nothing else.
LEMMA WithoutHas ==
    ASSUME NEW C, NEW n \in Nat, NEW seq \in [1..n -> C], NEW S
    PROVE  Remains(seq, S)
<1>. DEFINE V(k) == Without(Upto(seq, k), S)
            To(k) == {seq[i] : i \in 1..k}
            A == {k \in 0..n : ToSet(V(k)) = To(k) \ S}
<1>1. /\ V(0) = <<>> /\ V(n) = Without(seq, S)
      /\ \A k \in 1..n : Stays(seq, S, k, C)
  BY WithoutGrows
<1>2. 0 \in A
  <2>1. ToSet(<<>>) = {} /\ To(0) = {}
    BY DEF ToSet
  <2>. QED BY <1>1, <2>1
<1>3. ASSUME NEW k \in 1..n, k - 1 \in A PROVE k \in A
  <2>. DEFINE c == seq[k]
              u == V(k - 1)
  <2>1. k \in 0..n /\ k - 1 \in 0..n /\ c \in C
    OBVIOUS
  <2>2. To(k) = To(k - 1) \cup {c}
    <3>1. 1..k = (1..(k - 1)) \cup {k}
      OBVIOUS
    <3>. QED BY <3>1
  <2>3. ToSet(u) = To(k - 1) \ S
    BY <1>3
  <2>4. V(k) = IF c \in S THEN u ELSE Append(u, c)
    BY <1>1 DEF Stays
  <2>5. u \in Seq(C)
    <3>1. CASE k = 1
      <4>. DEFINE e == <<>>
      <4>1. e \in Seq(C)
        BY EmptySeq
      <4>. HIDE DEF e
      <4>2. u = e
        BY <1>1, <3>1 DEF e
      <4>. QED BY <4>1, <4>2
    <3>2. CASE k # 1
      <4>. DEFINE j == k - 1
      <4>1. j \in 1..n
        BY <3>2
      <4>. HIDE DEF j
      <4>2. Without(Upto(seq, j), S) \in Seq(C)
        BY <1>1, <4>1 DEF Stays
      <4>. QED BY <4>2 DEF j
    <3>. QED BY <3>1, <3>2
  <2>. HIDE DEF V, To, c, u
  <2>6. Grows(u, c)
    BY <2>1, <2>5, AppendHas
  <2>7. ToSet(V(k)) = To(k) \ S
    BY <2>2, <2>3, <2>4, <2>6 DEF Grows
  <2>. QED BY <2>1, <2>7
<1>4. n \in A
  <2>. HIDE DEF A
  <2>1. \A k \in 1..n : k - 1 \in A => k \in A
    BY <1>3
  <2>2. \A k \in 0..n : k \in A
    BY <1>2, <2>1, Upwards
  <2>. QED BY <2>2
<1>5. To(n) = ToSet(seq)
  BY DEF ToSet
<1>. QED BY <1>1, <1>4, <1>5 DEF Remains

Questions(I, T) == [id : I, text : T]

Twins(questions, text) == {questions[i].id : i \in {j \in DOMAIN questions : questions[j].text = text}}

TwinsOf(questions, q) == Exports!Without(questions, {p \in Exports!ToSet(questions) : p.text # q.text})

\* The questions of one text, whatever the version they are of.
LEMMA TwinsAreFound ==
    ASSUME NEW I, NEW T, NEW n \in Nat, NEW questions \in [1..n -> Questions(I, T)], NEW q \in Questions(I, T),
           NEW ids, ids = [i \in DOMAIN TwinsOf(questions, q) |-> TwinsOf(questions, q)[i].id]
    PROVE  ids \in Seq(I) /\ ToSet(ids) = Twins(questions, q.text)
<1>. DEFINE C == Questions(I, T)
            other == {p \in ToSet(questions) : p.text # q.text}
            twins == TwinsOf(questions, q)
<1>1. twins = Without(questions, other)
  BY SameWithout DEF TwinsOf, Exports!ToSet, ToSet
<1>. HIDE DEF twins, other
<1>2. Remains(questions, other)
  BY WithoutHas
<1>3. twins \in Seq(C)
  <2>1. Without(questions, other) \in Seq(C \ other)
    BY WithoutIn
  <2>2. C \ other \subseteq C
    OBVIOUS
  <2>. HIDE DEF C
  <2>. QED BY <1>1, <2>1, <2>2, SeqMonotonic
<1>4. DOMAIN twins = 1..Len(twins) /\ Len(twins) \in Nat /\ \A i \in 1..Len(twins) : twins[i] \in C
  BY <1>3, LenProperties
<1>5. ids = [i \in 1..Len(twins) |-> twins[i].id]
  BY <1>4 DEF twins
<1>6. ids \in Seq(I)
  <2>1. ids \in [1..Len(twins) -> I]
    BY <1>4, <1>5 DEF Questions
  <2>. QED BY <1>4, <2>1
<1>7. ToSet(twins) = {p \in ToSet(questions) : p.text = q.text}
  <2>1. ToSet(twins) = ToSet(questions) \ other
    BY <1>1, <1>2 DEF Remains
  <2>. QED BY <2>1 DEF other
<1>8. ASSUME NEW e \in ToSet(ids) PROVE e \in Twins(questions, q.text)
  <2>1. PICK i \in 1..Len(twins) : e = twins[i].id
    BY <1>5, <1>8 DEF ToSet
  <2>2. twins[i] \in ToSet(twins)
    BY <1>4 DEF ToSet
  <2>3. twins[i] \in ToSet(questions) /\ twins[i].text = q.text
    BY <1>7, <2>2
  <2>4. PICK j \in DOMAIN questions : twins[i] = questions[j]
    BY <2>3 DEF ToSet
  <2>. QED BY <2>1, <2>3, <2>4 DEF Twins
<1>9. ASSUME NEW e \in Twins(questions, q.text) PROVE e \in ToSet(ids)
  <2>1. PICK j \in DOMAIN questions : questions[j].text = q.text /\ e = questions[j].id
    BY DEF Twins
  <2>2. questions[j] \in ToSet(questions)
    BY DEF ToSet
  <2>3. questions[j] \in ToSet(twins)
    BY <1>7, <2>1, <2>2
  <2>4. PICK i \in 1..Len(twins) : questions[j] = twins[i]
    BY <1>4, <2>3 DEF ToSet
  <2>. QED BY <1>5, <2>1, <2>4 DEF ToSet
<1>. QED BY <1>6, <1>8, <1>9

Grouped(columns, questions, I) ==
    /\ \A k \in DOMAIN columns :
          /\ columns[k].ids \in Seq(I) /\ ToSet(columns[k].ids) = Twins(questions, columns[k].text)
          /\ \E i \in DOMAIN questions : columns[k].text = questions[i].text
    /\ \A i \in DOMAIN questions : \E k \in DOMAIN columns : columns[k].text = questions[i].text
    /\ \A k, l \in DOMAIN columns : columns[k].text = columns[l].text => k = l

\* Every text of the versions is one column.
LEMMA ColumnsAreTexts ==
    ASSUME NEW I, NEW T, NEW n \in Nat, NEW questions \in [1..n -> Questions(I, T)]
    PROVE  Grouped(Exports!groupQuestionsByText(questions), questions, I)
<1>. DEFINE C == Questions(I, T)
            first == {i \in 1..n : \A j \in 1..i - 1 : questions[j].text # questions[i].text}
            before == {p \in first \X first : p[1] < p[2]}
            order == Ranked(first, before)
            l == Cardinality(first)
            columns == Exports!groupQuestionsByText(questions)
            Ids(k) == [i \in DOMAIN TwinsOf(questions, questions[order[k]]) |->
                          TwinsOf(questions, questions[order[k]])[i].id]
<1>1. columns = [k \in DOMAIN order |-> [text |-> questions[order[k]].text, ids |-> Ids(k)]]
  <2>1. Exports!Ranked(first, before) = order
    BY DEF Exports!Ranked, Ranked, Exports!Cardinality, Cardinality
  <2>2. DOMAIN questions = 1..n
    OBVIOUS
  <2>. QED BY <2>1, <2>2 DEF Exports!groupQuestionsByText, TwinsOf
<1>2. first \in SUBSET Nat /\ IsFiniteSet(first)
  <2>1. IsFiniteSet(1..n)
    BY FS_Interval
  <2>. QED BY <2>1, FS_Subset
<1>3. Strict(before, first)
  <2>. HIDE DEF first
  <2>. QED BY <1>2 DEF Strict
<1>. HIDE DEF order, before
<1>4. InOrder(order, first, before) /\ \A i \in first : \E k \in 1..l : order[k] = i
  <2>. HIDE DEF first
  <2>. QED BY <1>2, <1>3, RankedInOrder DEF order
<1>5. l \in Nat /\ order \in [1..l -> first] /\ \A i, j \in 1..l : i < j => order[i] # order[j]
  BY <1>2, <1>4, FS_CardinalityType DEF InOrder
<1>6. \A i, j \in first : questions[i].text = questions[j].text => i = j
  <2>1. ASSUME NEW i \in first, NEW j \in first, i < j, questions[i].text = questions[j].text PROVE FALSE
    <3>1. i \in 1..j - 1
      BY <2>1
    <3>. QED BY <2>1, <3>1
  <2>. QED BY <2>1
<1>7. ASSUME NEW i \in 1..n PROVE \E j \in first : questions[j].text = questions[i].text
  <2>. DEFINE B == {j \in 1..n : questions[j].text = questions[i].text}
  <2>1. B \in SUBSET Nat /\ i \in B
    OBVIOUS
  <2>2. PICK j \in B : \A k \in B : j <= k
    BY <2>1, LeastOf
  <2>3. ASSUME NEW k \in 1..j - 1 PROVE questions[k].text # questions[j].text
    <3>1. k \in 1..n /\ ~(j <= k)
      BY <2>2
    <3>. QED BY <2>2, <3>1
  <2>. QED BY <2>2, <2>3
<1>8. first \subseteq 1..n
  OBVIOUS
<1>. HIDE DEF first, l
<1>9. DOMAIN columns = 1..l /\ \A k \in 1..l : columns[k].text = questions[order[k]].text /\ columns[k].ids = Ids(k)
  BY <1>1, <1>5
<1>. HIDE DEF columns
<1>10. ASSUME NEW k \in 1..l
       PROVE  /\ columns[k].ids \in Seq(I) /\ ToSet(columns[k].ids) = Twins(questions, columns[k].text)
              /\ \E i \in DOMAIN questions : columns[k].text = questions[i].text
  <2>. DEFINE q == questions[order[k]]
              ids == columns[k].ids
  <2>1. order[k] \in 1..n /\ q \in C
    BY <1>5, <1>8
  <2>2. ids = [i \in DOMAIN TwinsOf(questions, q) |-> TwinsOf(questions, q)[i].id]
    BY <1>9
  <2>3. columns[k].text = q.text
    BY <1>9
  <2>4. DOMAIN questions = 1..n
    OBVIOUS
  <2>5. \E i \in DOMAIN questions : columns[k].text = questions[i].text
    BY <2>1, <2>3, <2>4
  <2>. HIDE DEF q, ids
  <2>6. ids \in Seq(I) /\ ToSet(ids) = Twins(questions, q.text)
    BY <2>1, <2>2, TwinsAreFound
  <2>. QED BY <2>3, <2>5, <2>6 DEF ids
<1>11. ASSUME NEW i \in 1..n PROVE \E k \in 1..l : columns[k].text = questions[i].text
  <2>1. PICK j \in first : questions[j].text = questions[i].text
    BY <1>7
  <2>2. PICK k \in 1..l : order[k] = j
    BY <1>4
  <2>. QED BY <1>9, <2>1, <2>2
<1>12. ASSUME NEW k \in 1..l, NEW m \in 1..l, columns[k].text = columns[m].text PROVE k = m
  <2>1. order[k] = order[m]
    <3>. DEFINE i == order[k]
                j == order[m]
    <3>1. i \in first /\ j \in first
      BY <1>5
    <3>2. questions[i].text = questions[j].text
      BY <1>9, <1>12
    <3>. HIDE DEF i, j
    <3>3. i = j
      BY <1>6, <3>1, <3>2
    <3>. QED BY <3>3 DEF i, j
  <2>2. ~(k < m) /\ ~(m < k)
    BY <1>5, <2>1
  <2>. QED BY <1>5, <2>2
<1>13. DOMAIN questions = 1..n
  OBVIOUS
<1>14. Grouped(columns, questions, I)
  BY <1>9, <1>10, <1>11, <1>12, <1>13 DEF Grouped
<1>. QED BY <1>14, SMTT(60) DEF columns

Hits(answers, S) == {q \in S : q \in DOMAIN answers /\ answers[q] # Exports!Blank}

\* The answer of a column is one that was given to one of its questions.
LEMMA AnswerIsGiven ==
    ASSUME NEW I, NEW ids \in Seq(I), NEW answers
    PROVE  LET a == Exports!resolveAnswerAcrossVersions(answers, ids)
               H == Hits(answers, ToSet(ids))
           IN  IF H = {} THEN a = Exports!None ELSE \E q \in H : a = answers[q]
<1>. DEFINE given == {i \in DOMAIN ids : ids[i] \in DOMAIN answers /\ answers[ids[i]] # Exports!Blank}
            a == Exports!resolveAnswerAcrossVersions(answers, ids)
            H == Hits(answers, ToSet(ids))
<1>1. Len(ids) \in Nat /\ DOMAIN ids = 1..Len(ids)
  BY LenProperties
<1>2. a = IF given = {} THEN Exports!None ELSE answers[ids[Exports!Min(given)]]
  BY DEF Exports!resolveAnswerAcrossVersions
<1>3. given = {} => H = {}
  BY DEF Hits, ToSet
<1>4. CASE given = {}
  BY <1>2, <1>3, <1>4
<1>5. CASE given # {}
  <2>1. given \in SUBSET Nat
    BY <1>1
  <2>2. PICK m \in given : \A i \in given : m <= i
    BY <1>5, <2>1, LeastOf
  <2>3. Exports!Min(given) \in given
    <3>1. Exports!Min(given) = CHOOSE x \in given : \A y \in given : x <= y
      BY DEF Exports!Min
    <3>. HIDE DEF given
    <3>. QED BY <2>2, <3>1
  <2>. DEFINE i == Exports!Min(given)
              q == ids[i]
  <2>4. q \in H /\ a = answers[q]
    <3>1. i \in DOMAIN ids /\ q \in DOMAIN answers /\ answers[q] # Exports!Blank
      BY <2>3
    <3>2. q \in ToSet(ids)
      BY <3>1 DEF ToSet
    <3>3. a = answers[q]
      BY <1>2, <1>5
    <3>. HIDE DEF i, q
    <3>. QED BY <3>1, <3>2, <3>3 DEF Hits
  <2>. QED BY <2>4
<1>. QED BY <1>4, <1>5

Given(answers, questions) ==
    {[text |-> questions[i].text, answer |-> answers[questions[i].id]] :
        i \in {j \in DOMAIN questions : questions[j].id \in DOMAIN answers}}

SolidOf(answers, questions) == {g \in Given(answers, questions) : g.answer # Exports!Blank}

CellsOf(answers, columns) ==
    [k \in DOMAIN columns |->
        [text   |-> columns[k].text,
         answer |-> Exports!resolveAnswerAcrossVersions(answers, columns[k].ids)]]

ShownAs(cells, solid) ==
    /\ {c \in ToSet(cells) : c.answer # Exports!None} = solid
    /\ \A c, d \in DOMAIN cells : cells[c].text = cells[d].text => c = d

\* The cells that hold an answer are what was given, if no text was answered in two versions.
LEMMA CellsAreGiven ==
    ASSUME NEW I, NEW columns, NEW questions, Grouped(columns, questions, I), NEW answers,
           \A q \in DOMAIN answers : answers[q] # Exports!Blank => answers[q] # Exports!None,
           \A i, j \in DOMAIN questions :
              /\ questions[i].id \in DOMAIN answers /\ questions[j].id \in DOMAIN answers
              /\ questions[i].text = questions[j].text
              => questions[i].id = questions[j].id
    PROVE  ShownAs(CellsOf(answers, columns), SolidOf(answers, questions))
<1>. DEFINE cells == CellsOf(answers, columns)
            solid == SolidOf(answers, questions)
            full == {c \in ToSet(cells) : c.answer # Exports!None}
<1>1. /\ DOMAIN cells = DOMAIN columns
      /\ \A k \in DOMAIN columns :
            /\ cells[k] = [text |-> columns[k].text, answer |-> cells[k].answer]
            /\ cells[k].text = columns[k].text
            /\ LET H == Hits(answers, Twins(questions, columns[k].text))
               IN  IF H = {} THEN cells[k].answer = Exports!None ELSE \E q \in H : cells[k].answer = answers[q]
  <2>1. ASSUME NEW k \in DOMAIN columns
        PROVE  LET H == Hits(answers, Twins(questions, columns[k].text))
                   a == Exports!resolveAnswerAcrossVersions(answers, columns[k].ids)
               IN  IF H = {} THEN a = Exports!None ELSE \E q \in H : a = answers[q]
    <3>. DEFINE ids == columns[k].ids
                a == Exports!resolveAnswerAcrossVersions(answers, ids)
    <3>1. ids \in Seq(I) /\ ToSet(ids) = Twins(questions, columns[k].text)
      BY DEF Grouped
    <3>. HIDE DEF ids
    <3>2. IF Hits(answers, ToSet(ids)) = {} THEN a = Exports!None ELSE \E q \in Hits(answers, ToSet(ids)) : a = answers[q]
      BY <3>1, AnswerIsGiven
    <3>. HIDE DEF a
    <3>3. IF Hits(answers, Twins(questions, columns[k].text)) = {} THEN a = Exports!None
          ELSE \E q \in Hits(answers, Twins(questions, columns[k].text)) : a = answers[q]
      BY <3>1, <3>2
    <3>. QED BY <3>3 DEF a, ids
  <2>. QED BY <2>1 DEF CellsOf
<1>. HIDE DEF cells
<1>2. ASSUME NEW c \in full PROVE c \in solid
  <2>1. PICK k \in DOMAIN columns : c = cells[k]
    BY <1>1, <1>2 DEF ToSet
  <2>2. PICK q \in Hits(answers, Twins(questions, columns[k].text)) : cells[k].answer = answers[q]
    BY <1>1, <1>2, <2>1
  <2>3. q \in Twins(questions, columns[k].text) /\ q \in DOMAIN answers /\ answers[q] # Exports!Blank
    BY <2>2 DEF Hits
  <2>4. PICK i \in DOMAIN questions : questions[i].text = columns[k].text /\ q = questions[i].id
    BY <2>3 DEF Twins
  <2>5. c = [text |-> questions[i].text, answer |-> answers[questions[i].id]]
    BY <1>1, <2>1, <2>2, <2>4
  <2>6. c \in Given(answers, questions)
    BY <2>3, <2>4, <2>5 DEF Given
  <2>7. c.answer # Exports!Blank
    BY <2>3, <2>4, <2>5
  <2>. QED BY <2>6, <2>7 DEF SolidOf
<1>3. ASSUME NEW g \in solid PROVE g \in full
  <2>1. g \in Given(answers, questions) /\ g.answer # Exports!Blank
    BY <1>3 DEF SolidOf
  <2>2. PICK i \in DOMAIN questions : /\ questions[i].id \in DOMAIN answers
                                      /\ g = [text |-> questions[i].text, answer |-> answers[questions[i].id]]
    BY <2>1 DEF Given
  <2>3. PICK k \in DOMAIN columns : columns[k].text = questions[i].text
    BY DEF Grouped
  <2>4. questions[i].id \in Hits(answers, Twins(questions, columns[k].text))
    <3>1. questions[i].id \in Twins(questions, columns[k].text)
      BY <2>3 DEF Twins
    <3>2. answers[questions[i].id] # Exports!Blank
      BY <2>1, <2>2
    <3>. QED BY <2>2, <3>1, <3>2 DEF Hits
  <2>5. PICK q \in Hits(answers, Twins(questions, columns[k].text)) : cells[k].answer = answers[q]
    BY <1>1, <2>4
  <2>6. q \in Twins(questions, columns[k].text) /\ q \in DOMAIN answers /\ answers[q] # Exports!Blank
    BY <2>5 DEF Hits
  <2>7. PICK j \in DOMAIN questions : questions[j].text = columns[k].text /\ q = questions[j].id
    BY <2>6 DEF Twins
  <2>8. questions[i].id = questions[j].id
    BY <2>2, <2>3, <2>6, <2>7
  <2>9. cells[k] = g
    BY <1>1, <2>2, <2>3, <2>5, <2>7, <2>8
  <2>10. cells[k] \in ToSet(cells)
    BY <1>1 DEF ToSet
  <2>11. cells[k].answer # Exports!None
    BY <2>5, <2>6
  <2>. QED BY <2>9, <2>10, <2>11
<1>4. full = solid
  BY <1>2, <1>3
<1>5. \A c, d \in DOMAIN cells : cells[c].text = cells[d].text => c = d
  BY <1>1 DEF Grouped
<1>6. ShownAs(cells, solid)
  BY <1>4, <1>5 DEF ShownAs
<1>. QED BY <1>6 DEF cells

\* One response on its own shows what was given.
LEMMA DetailIsGiven ==
    ASSUME NEW I, NEW T, NEW n \in Nat, NEW questions \in [1..n -> Questions(I, T)], NEW answers
    PROVE  ToSet(Exports!toResponseDetail(answers, questions)) = Given(answers, questions)
<1>. DEFINE C == Questions(I, T)
            hidden == {q \in ToSet(questions) : q.id \notin DOMAIN answers}
            shown == Without(questions, hidden)
            r == Exports!toResponseDetail(answers, questions)
<1>1. r = [i \in DOMAIN shown |-> [text |-> shown[i].text, answer |-> answers[shown[i].id]]]
  <2>1. Exports!Without(questions, {q \in Exports!ToSet(questions) : q.id \notin DOMAIN answers}) = shown
    BY SameWithout DEF Exports!ToSet, ToSet
  <2>. QED BY <2>1 DEF Exports!toResponseDetail
<1>. HIDE DEF shown, hidden, r
<1>2. Remains(questions, hidden)
  BY WithoutHas
<1>3. ToSet(shown) = ToSet(questions) \ hidden
  BY <1>2 DEF Remains, shown
<1>4. ASSUME NEW g \in ToSet(r) PROVE g \in Given(answers, questions)
  <2>1. PICK i \in DOMAIN shown : g = [text |-> shown[i].text, answer |-> answers[shown[i].id]]
    BY <1>1, <1>4 DEF ToSet
  <2>2. shown[i] \in ToSet(shown)
    BY DEF ToSet
  <2>3. shown[i] \in ToSet(questions) /\ shown[i].id \in DOMAIN answers
    BY <1>3, <2>2 DEF hidden
  <2>4. PICK j \in DOMAIN questions : shown[i] = questions[j]
    BY <2>3 DEF ToSet
  <2>. QED BY <2>1, <2>3, <2>4 DEF Given
<1>5. ASSUME NEW g \in Given(answers, questions) PROVE g \in ToSet(r)
  <2>1. PICK j \in DOMAIN questions : /\ questions[j].id \in DOMAIN answers
                                      /\ g = [text |-> questions[j].text, answer |-> answers[questions[j].id]]
    BY DEF Given
  <2>2. questions[j] \in ToSet(questions)
    BY DEF ToSet
  <2>3. questions[j] \in ToSet(shown)
    BY <1>3, <2>1, <2>2 DEF hidden
  <2>4. PICK i \in DOMAIN shown : questions[j] = shown[i]
    BY <2>3 DEF ToSet
  <2>5. r[i] = g /\ i \in DOMAIN r
    BY <1>1, <2>1, <2>4
  <2>. QED BY <2>5 DEF ToSet
<1>6. ToSet(r) = Given(answers, questions)
  BY <1>4, <1>5
<1>. QED BY <1>6 DEF r

Overlaps(answers, v) == Exports!Cardinality({q \in DOMAIN answers : \E p \in Exports!ToSet(v.questions) : p.id = q})

OfTwo(surveys, v, w, answers) ==
    /\ Exports!ToSet(surveys) = {v, w}
    /\ \A q \in DOMAIN answers : \E p \in Exports!ToSet(v.questions) : p.id = q
    /\ \A q \in DOMAIN answers : ~\E p \in Exports!ToSet(w.questions) : p.id = q

\* A response whose keys are all of one of two versions is of that version.
LEMMA VersionIsOwner ==
    ASSUME NEW answers, IsFiniteSet(DOMAIN answers), DOMAIN answers # {}, NEW surveys, NEW v, NEW w, v.version \in Nat,
           OfTwo(surveys, v, w, answers)
    PROVE  Exports!resolveResponseVersion(answers, surveys) = v.version
<1>. DEFINE best == {u \in {v, w} :
                       /\ Overlaps(answers, u) > 0
                       /\ \A t \in {v, w} :
                             Overlaps(answers, t) < Overlaps(answers, u)
                             \/ (Overlaps(answers, t) = Overlaps(answers, u) /\ u.version <= t.version)}
<1>1. Exports!resolveResponseVersion(answers, surveys)
          = IF best = {} THEN Exports!None ELSE (CHOOSE u \in best : TRUE).version
  BY DEF Exports!resolveResponseVersion, Overlaps, OfTwo
<1>2. Overlaps(answers, v) = Cardinality(DOMAIN answers)
  <2>1. {q \in DOMAIN answers : \E p \in Exports!ToSet(v.questions) : p.id = q} = DOMAIN answers
    BY DEF OfTwo
  <2>. QED BY <2>1 DEF Overlaps, Exports!Cardinality, Cardinality
<1>3. Overlaps(answers, w) = 0
  <2>1. {q \in DOMAIN answers : \E p \in Exports!ToSet(w.questions) : p.id = q} = {}
    BY DEF OfTwo
  <2>. QED BY <2>1, FS_EmptySet DEF Overlaps, Exports!Cardinality, Cardinality
<1>4. Cardinality(DOMAIN answers) \in Nat /\ Cardinality(DOMAIN answers) # 0
  BY FS_CardinalityType, FS_EmptySet
<1>5. best = {v}
  <2>. DEFINE l == Cardinality(DOMAIN answers)
  <2>1. v.version <= v.version
    OBVIOUS
  <2>2. Overlaps(answers, v) = l /\ l \in Nat /\ l > 0 /\ Overlaps(answers, w) = 0
    BY <1>2, <1>3, <1>4
  <2>. HIDE DEF l
  <2>3. v \in best
    BY <2>1, <2>2
  <2>4. w \in best => FALSE
    BY <2>2
  <2>. QED BY <2>3, <2>4
<1>. QED BY <1>1, <1>5

Pair(a, b) == <<a, b>>

\* Two parts concatenate.
LEMMA FlatPair ==
    ASSUME NEW C, NEW s \in Seq(C), NEW t \in Seq(C)
    PROVE  FlattenSeq(Pair(s, t)) = s \o t
<1>. DEFINE parts == Pair(s, t)
            e == <<>>
<1>1. parts \in [1..2 -> Seq(C)] /\ parts[1] = s /\ parts[2] = t
  BY DEF Pair
<1>. HIDE DEF parts
<1>2. PICK F \in [0..2 -> Seq(C)] : FlatBy(F, parts, 2)
  BY <1>1, FlatRuns
<1>3. F[0] = e /\ F[2] = FlattenSeq(parts) /\ \A k \in 1..2 : F[k] = F[k - 1] \o parts[k]
  BY <1>2 DEF FlatBy
<1>. HIDE DEF e
<1>4. F[1] = e \o s /\ F[2] = F[1] \o t
  <2>1. 1 \in 1..2 /\ 2 \in 1..2 /\ 1 - 1 = 0 /\ 2 - 1 = 1
    OBVIOUS
  <2>2. F[1] = F[1 - 1] \o parts[1] /\ F[2] = F[2 - 1] \o parts[2]
    BY <1>3, <2>1
  <2>3. F[1 - 1] = e /\ F[2 - 1] = F[1]
    BY <1>3, <2>1
  <2>. QED BY <1>1, <2>2, <2>3
<1>5. e \o s = s
  BY ConcatEmptySeq DEF e
<1>. QED BY <1>3, <1>4, <1>5 DEF parts

Ids == {"q1", "q2", "q3", "q4"}
Texts == {"t1", "t2", "t3"}

\* The four questions of two versions, in the order of the versions.
Fours(Q, a, b, c, d) ==
    /\ Q \in [1..4 -> Questions(Ids, Texts)]
    /\ Q[1] = a /\ Q[2] = b /\ Q[3] = c /\ Q[4] = d

\* Two versions of two questions have four.
LEMMA QuestionsOfTwo ==
    ASSUME NEW a \in Questions(Ids, Texts), NEW b \in Questions(Ids, Texts),
           NEW c \in Questions(Ids, Texts), NEW d \in Questions(Ids, Texts),
           NEW v, NEW w, v.questions = Pair(a, b), w.questions = Pair(c, d)
    PROVE  Fours(Exports!buildQuestionMap(Pair(v, w)), a, b, c, d)
<1>. DEFINE C == Questions(Ids, Texts)
            s == Pair(a, b)
            t == Pair(c, d)
            st == s \o t
            Q == Exports!buildQuestionMap(Pair(v, w))
<1>1. /\ s \in Seq(C) /\ t \in Seq(C) /\ Len(s) = 2 /\ Len(t) = 2
      /\ s[1] = a /\ s[2] = b /\ t[1] = c /\ t[2] = d
  BY DEF Pair
<1>2. [i \in DOMAIN Pair(v, w) |-> Pair(v, w)[i].questions] = Pair(s, t)
  <2>. DEFINE vw == Pair(v, w)
  <2>1. DOMAIN vw = 1..2 /\ vw[1] = v /\ vw[2] = w
    BY DEF Pair
  <2>. HIDE DEF vw
  <2>2. [i \in DOMAIN vw |-> vw[i].questions] = [i \in 1..2 |-> IF i = 1 THEN s ELSE t]
    BY <2>1
  <2>3. Pair(s, t) = [i \in 1..2 |-> IF i = 1 THEN s ELSE t]
    <3>. HIDE DEF s, t
    <3>. QED BY DEF Pair
  <2>. QED BY <2>2, <2>3 DEF vw
<1>3. Q = FlattenSeq(Pair(s, t))
  <2>1. Q = Exports!FlattenSeq([i \in DOMAIN Pair(v, w) |-> Pair(v, w)[i].questions])
    BY DEF Exports!buildQuestionMap
  <2>2. Exports!FlattenSeq(Pair(s, t)) = FlattenSeq(Pair(s, t))
    BY DEF Exports!FlattenSeq, FlattenSeq
  <2>. HIDE DEF Q, s, t
  <2>. QED BY <1>2, <2>1, <2>2
<1>. HIDE DEF s, t, Q
<1>4. Q = st
  BY <1>1, <1>3, FlatPair
<1>5. st \in Seq(C) /\ Len(st) = 4 /\ \A i \in 1..4 : st[i] = IF i <= 2 THEN s[i] ELSE t[i - 2]
  <2>. HIDE DEF C
  <2>1. st \in Seq(C) /\ Len(st) = Len(s) + Len(t) /\ \A i \in 1..(Len(s) + Len(t)) : st[i] = IF i <= Len(s) THEN s[i] ELSE t[i - Len(s)]
    BY <1>1, ConcatProperties
  <2>2. Len(s) + Len(t) = 4
    BY <1>1
  <2>. QED BY <1>1, <2>1, <2>2
<1>. HIDE DEF st
<1>6. st \in [1..4 -> C]
  BY <1>5, LenProperties
<1>7. st[1] = a /\ st[2] = b /\ st[3] = c /\ st[4] = d
  BY <1>1, <1>5
<1>. QED BY <1>4, <1>6, <1>7 DEF Fours, Q

\* The elements of a pair.
LEMMA SetOfPair == ASSUME NEW a, NEW b PROVE Exports!ToSet(Pair(a, b)) = {a, b}
<1>. DEFINE ab == Pair(a, b)
<1>1. DOMAIN ab = 1..2 /\ ab[1] = a /\ ab[2] = b
  BY DEF Pair
<1>. HIDE DEF ab
<1>2. {ab[i] : i \in 1..2} = {a, b}
  <2>1. 1..2 = {1, 2}
    OBVIOUS
  <2>. QED BY <1>1, <2>1
<1>. QED BY <1>1, <1>2 DEF Exports!ToSet, ab

Asked(id, text) == [id |-> id, text |-> text]
Version(n, questions) == [version |-> n, questions |-> questions]

Older == Version(1, Pair(Asked("q1", "t1"), Asked("q2", "t2")))
Newer(text) == Version(2, Pair(Asked("q3", text), Asked("q4", "t1")))

\* The versions and the answers of the runs.
LEMMA VersionsAre ==
    ASSUME NEW x \in AnswersInputs
    PROVE  /\ Versions(x) = IF x.newerFirst THEN Pair(Newer(x.text), Older) ELSE Pair(Older, Newer(x.text))
           /\ x.text \in {"t2", "t3"}
           /\ \E K : /\ K \subseteq {"q1", "q2"} \/ K \subseteq {"q3", "q4"}
                     /\ x.answers \in [K -> {Exports!Blank, "x", "y"}]
<1>1. Versions(x) = IF x.newerFirst THEN Pair(Newer(x.text), Older) ELSE Pair(Older, Newer(x.text))
  BY DEF Versions, Pair, Newer, Older, Version, Asked
<1>2. x.text \in {"t2", "t3"} /\ x.answers \in UNION {[K -> {Exports!Blank, "x", "y"}] : K \in (SUBSET {"q1", "q2"}) \cup (SUBSET {"q3", "q4"})}
  BY DEF AnswersInputs, Exports!Blank
<1>3. PICK K \in (SUBSET {"q1", "q2"}) \cup (SUBSET {"q3", "q4"}) : x.answers \in [K -> {Exports!Blank, "x", "y"}]
  BY <1>2
<1>. QED BY <1>1, <1>2, <1>3

\* No text is answered in two versions, and the version is that of the keys.
LEMMA OneIsAnswered ==
    ASSUME NEW x \in AnswersInputs
    PROVE  LET Q == Exports!buildQuestionMap(Versions(x)) IN
           /\ Q \in [1..4 -> Questions(Ids, Texts)]
           /\ \A i, j \in 1..4 : /\ Q[i].id \in DOMAIN x.answers /\ Q[j].id \in DOMAIN x.answers
                                 /\ Q[i].text = Q[j].text
                                 => Q[i].id = Q[j].id
           /\ \A q \in DOMAIN x.answers : x.answers[q] # Exports!Blank => x.answers[q] # Exports!None
           /\ \A q \in DOMAIN x.answers :
                 (Exports!resolveResponseVersion(x.answers, Versions(x)) = 1) <=> (q \in {"q1", "q2"})
<1>. DEFINE a == Asked("q1", "t1")
            b == Asked("q2", "t2")
            c == Asked("q3", x.text)
            d == Asked("q4", "t1")
            v == Older
            w == Newer(x.text)
            Q == Exports!buildQuestionMap(Versions(x))
            version == Exports!resolveResponseVersion(x.answers, Versions(x))
<1>1. /\ Versions(x) = IF x.newerFirst THEN Pair(w, v) ELSE Pair(v, w)
      /\ x.text \in {"t2", "t3"}
  BY VersionsAre
<1>2. PICK K : /\ K \subseteq {"q1", "q2"} \/ K \subseteq {"q3", "q4"}
               /\ x.answers \in [K -> {Exports!Blank, "x", "y"}]
  BY VersionsAre
<1>3. DOMAIN x.answers = K
  BY <1>2
<1>4. /\ a \in Questions(Ids, Texts) /\ b \in Questions(Ids, Texts) /\ c \in Questions(Ids, Texts) /\ d \in Questions(Ids, Texts)
      /\ a.id = "q1" /\ b.id = "q2" /\ c.id = "q3" /\ d.id = "q4" /\ a.text # b.text /\ c.text # d.text
  BY <1>1 DEF Asked, Questions, Ids, Texts
<1>5. v.questions = Pair(a, b) /\ w.questions = Pair(c, d) /\ v.version = 1 /\ w.version = 2
  BY DEF Older, Newer, Version
<1>. HIDE DEF a, b, c, d, v, w, Q, version
<1>6. Q \in [1..4 -> Questions(Ids, Texts)] /\ \A i \in 1..4 : Q[i] \in {a, b, c, d}
  <2>1. Fours(Exports!buildQuestionMap(Pair(v, w)), a, b, c, d)
    BY <1>4, <1>5, QuestionsOfTwo
  <2>2. Fours(Exports!buildQuestionMap(Pair(w, v)), c, d, a, b)
    BY <1>4, <1>5, QuestionsOfTwo
  <2>3. Fours(Q, a, b, c, d) \/ Fours(Q, c, d, a, b)
    BY <1>1, <2>1, <2>2 DEF Q
  <2>4. \A i \in 1..4 : i = 1 \/ i = 2 \/ i = 3 \/ i = 4
    OBVIOUS
  <2>. QED BY <2>3, <2>4 DEF Fours
<1>7. ASSUME NEW i \in 1..4, NEW j \in 1..4, Q[i].id \in K, Q[j].id \in K, Q[i].text = Q[j].text PROVE Q[i].id = Q[j].id
  <2>1. Q[i] \in {a, b, c, d} /\ Q[j] \in {a, b, c, d}
    BY <1>6
  <2>2. (Q[i] \in {a, b} /\ Q[j] \in {a, b}) \/ (Q[i] \in {c, d} /\ Q[j] \in {c, d})
    BY <1>2, <1>4, <1>7, <2>1
  <2>3. Q[i] = Q[j]
    BY <1>4, <1>7, <2>2
  <2>. QED BY <2>3
<1>8. ASSUME NEW q \in K, x.answers[q] # Exports!Blank PROVE x.answers[q] # Exports!None
  <2>1. x.answers[q] \in {"x", "y"}
    BY <1>2, <1>8
  <2>. QED BY <2>1 DEF Exports!None
<1>9. IsFiniteSet(K)
  <2>1. IsFiniteSet({"q1", "q2"}) /\ IsFiniteSet({"q3", "q4"})
    <3>1. ASSUME NEW e, NEW f PROVE IsFiniteSet({e, f})
      <4>1. IsFiniteSet({e}) /\ IsFiniteSet({f}) /\ {e, f} = {e} \cup {f}
        BY FS_Singleton
      <4>. QED BY <4>1, FS_Union
    <3>. QED BY <3>1
  <2>. QED BY <1>2, <2>1, FS_Subset
<1>10. /\ Exports!ToSet(Versions(x)) = {v, w} /\ Exports!ToSet(Versions(x)) = {w, v}
       /\ Exports!ToSet(v.questions) = {a, b} /\ Exports!ToSet(w.questions) = {c, d}
  <2>1. Exports!ToSet(Pair(v, w)) = {v, w} /\ Exports!ToSet(Pair(w, v)) = {w, v}
    BY SetOfPair
  <2>2. Exports!ToSet(Pair(a, b)) = {a, b} /\ Exports!ToSet(Pair(c, d)) = {c, d}
    BY SetOfPair
  <2>3. {v, w} = {w, v}
    OBVIOUS
  <2>. QED BY <1>1, <1>5, <2>1, <2>2, <2>3
<1>11. ASSUME NEW q \in K PROVE (version = 1) <=> (q \in {"q1", "q2"})
  <2>. DEFINE answers == x.answers
              surveys == Versions(x)
  <2>1. DOMAIN answers = K /\ K # {} /\ 1 \in Nat /\ 2 \in Nat
    BY <1>3
  <2>2. Exports!ToSet(surveys) = {v, w} /\ Exports!ToSet(surveys) = {w, v}
    BY <1>10
  <2>3. version = Exports!resolveResponseVersion(answers, surveys)
    BY DEF version
  <2>. HIDE DEF answers, surveys
  <2>4. CASE K \subseteq {"q1", "q2"}
    <3>1. \A k \in K : (\E p \in Exports!ToSet(v.questions) : p.id = k) /\ ~\E p \in Exports!ToSet(w.questions) : p.id = k
      BY <1>4, <1>10, <2>4
    <3>2. OfTwo(surveys, v, w, answers)
      BY <2>1, <2>2, <3>1 DEF OfTwo
    <3>3. IsFiniteSet(DOMAIN answers) /\ DOMAIN answers # {} /\ v.version \in Nat
      BY <1>5, <1>9, <2>1
    <3>4. version = v.version
      BY <2>3, <3>2, <3>3, VersionIsOwner
    <3>. QED BY <1>5, <2>4, <3>4
  <2>5. CASE K \subseteq {"q3", "q4"}
    <3>1. \A k \in K : (\E p \in Exports!ToSet(w.questions) : p.id = k) /\ ~\E p \in Exports!ToSet(v.questions) : p.id = k
      BY <1>4, <1>10, <2>5
    <3>2. OfTwo(surveys, w, v, answers)
      BY <2>1, <2>2, <3>1 DEF OfTwo
    <3>3. IsFiniteSet(DOMAIN answers) /\ DOMAIN answers # {} /\ w.version \in Nat
      BY <1>5, <1>9, <2>1
    <3>4. version = w.version
      BY <2>3, <3>2, <3>3, VersionIsOwner
    <3>. QED BY <1>5, <2>5, <3>4
  <2>. QED BY <1>2, <2>4, <2>5
<1>. QED BY <1>3, <1>6, <1>7, <1>8, <1>11 DEF Q, version

\* Whatever file is asked about is read back.
LEMMA FilesAreReadBack == ASSUME TablesInv PROVE FilesReadBack
<1>1. ASSUME Answered("file")
      PROVE  /\ (\A k \in DOMAIN input.rows : \E i \in DOMAIN input.rows[k] : input.rows[k][i] # <<>>)
                   => Result.rows = input.rows
             /\ (\A i \in DOMAIN input.rows[1] : ToSet(input.rows[1][i]) \cap {"cr", "lf"} = {})
                   => Result.line = input.rows[1]
  <2>1. /\ input \in FileInputs
        /\ Result = [rows |-> Documents!parseCsvRows(Documents!Printed(input.rows), Documents!Comma),
                     line |-> Documents!parseCsvRow(Documents!Printed(<<input.rows[1]>>))]
    BY <1>1 DEF TablesInv, Tells, Answered, Result
  <2>2. \A t : ToSet(t) = Documents!ToSet(t)
    BY DEF ToSet, Documents!ToSet
  <2>3. /\ (\A k \in DOMAIN input.rows : \E i \in DOMAIN input.rows[k] : input.rows[k][i] # <<>>)
              => Documents!parseCsvRows(Documents!Printed(input.rows), Documents!Comma) = input.rows
        /\ (\A i \in DOMAIN input.rows[1] : Documents!ToSet(input.rows[1][i]) \cap {"cr", "lf"} = {})
              => Documents!parseCsvRow(Documents!Printed(<<input.rows[1]>>)) = input.rows[1]
    BY <2>1, FilesRead
  <2>. DEFINE r == Documents!parseCsvRows(Documents!Printed(input.rows), Documents!Comma)
              l == Documents!parseCsvRow(Documents!Printed(<<input.rows[1]>>))
  <2>4. Result.rows = r /\ Result.line = l
    BY <2>1
  <2>5. (\A i \in DOMAIN input.rows[1] : ToSet(input.rows[1][i]) \cap {"cr", "lf"} = {})
        => (\A i \in DOMAIN input.rows[1] : Documents!ToSet(input.rows[1][i]) \cap {"cr", "lf"} = {})
    BY <2>2
  <2>. HIDE DEF r, l
  <2>. QED BY <2>3, <2>4, <2>5 DEF r, l
<1>2. ASSUME Answered("table") PROVE SameNeeds(input, Result)
  <2>1. input \in TableInputs /\ Result = Table(input)
    BY <1>2 DEF TablesInv, Tells, Answered, Result
  <2>. QED BY <2>1, NeedsAreSame
<1>3. ASSUME Answered("chunks") PROVE ChunksKeepText(input, Result)
  <2>1. input \in ChunkInputs /\ Result = Documents!splitChunks(input.text, input.size)
    BY <1>3 DEF TablesInv, Tells, Answered, Result
  <2>. QED BY <2>1, ChunksAreKept
<1>4. ASSUME Answered("document") PROVE DocumentsNumbered(input, Result)
  <2>1. input \in DocumentInputs /\ Result = Documents!parseSurveyDocumentNeeds(input.file, input.answer)
    BY <1>4 DEF TablesInv, Tells, Answered, Result
  <2>. QED BY <2>1, DocumentsAreNumbered
<1>5. ASSUME Answered("row")
      PROVE  /\ Documents!Importable([title |-> input.title, statement |-> input.title,
                                      village |-> input.village], 300)
                => Result.village # <<>> /\ <<>> \notin ToSet(Result.village)
             /\ Documents!dedupeKey(input.title, input.village, input.reference) = Documents!StoredKey(Result)
  <2>1. input \in RowInputs /\ Result = Documents!StoredRow(input.title, input.village, input.reference)
    BY <1>5 DEF TablesInv, Tells, Answered, Result
  <2>2. PICK C : Documents!Comma \in C /\ input.title \in Seq(C) /\ input.village \in Seq(C) /\ input.reference \in Seq(C)
    BY <2>1, RowTexts
  <2>3. /\ Documents!dedupeKey(input.title, input.village, input.reference) = Documents!StoredKey(Result)
        /\ <<>> \notin Documents!ToSet(Result.village)
    BY <2>1, <2>2, RowsKeepTheirKey
  <2>4. Result.village = Documents!splitVillages(input.village)
    BY <2>1 DEF Documents!StoredRow
  <2>5. Documents!Importable([title |-> input.title, statement |-> input.title, village |-> input.village], 300)
        => Documents!splitVillages(input.village) # <<>>
    BY DEF Documents!Importable
  <2>. QED BY <2>3, <2>4, <2>5 DEF ToSet, Documents!ToSet
<1>. QED BY <1>1, <1>2, <1>3, <1>4, <1>5 DEF FilesReadBack

\* Whatever the versions of a survey ask and whatever was answered: an export
\* shows every text in one column, with the answer that was given to it when no
\* text was answered in two versions, and a response on its own shows the same.
\* (exportRow, toResponseDetail)
THEOREM AnswersStandOnce ==
    ASSUME NEW I, NEW T, NEW n \in Nat, NEW surveys, NEW answers,
           Exports!buildQuestionMap(surveys) \in [1..n -> Questions(I, T)],
           \A q \in DOMAIN answers : answers[q] # Exports!Blank => answers[q] # Exports!None,
           LET Q == Exports!buildQuestionMap(surveys)
           IN  \A i, j \in DOMAIN Q : /\ Q[i].id \in DOMAIN answers /\ Q[j].id \in DOMAIN answers
                                      /\ Q[i].text = Q[j].text
                                      => Q[i].id = Q[j].id
    PROVE  LET Q     == Exports!buildQuestionMap(surveys)
               cells == Exports!exportRow(answers, surveys).cells
           IN  /\ {c \in ToSet(cells) : c.answer # Exports!None} = SolidOf(answers, Q)
               /\ \A c, d \in DOMAIN cells : cells[c].text = cells[d].text => c = d
               /\ ToSet(Exports!toResponseDetail(answers, Q)) = Given(answers, Q)
<1>. DEFINE Q == Exports!buildQuestionMap(surveys)
            columns == Exports!groupQuestionsByText(Q)
            cells == Exports!exportRow(answers, surveys).cells
<1>1. cells = CellsOf(answers, columns)
  BY DEF Exports!exportRow, CellsOf
<1>. HIDE DEF Q, columns, cells
<1>2. Q \in [1..n -> Questions(I, T)]
  BY DEF Q
<1>3. \A i, j \in DOMAIN Q : /\ Q[i].id \in DOMAIN answers /\ Q[j].id \in DOMAIN answers
                             /\ Q[i].text = Q[j].text
                             => Q[i].id = Q[j].id
  BY DEF Q
<1>4. Grouped(columns, Q, I)
  <2>1. Grouped(Exports!groupQuestionsByText(Q), Q, I)
    BY <1>2, ColumnsAreTexts
  <2>. QED BY <2>1 DEF columns
<1>5. ShownAs(cells, SolidOf(answers, Q))
  BY <1>1, <1>3, <1>4, CellsAreGiven
<1>6. ToSet(Exports!toResponseDetail(answers, Q)) = Given(answers, Q)
  BY <1>2, DetailIsGiven
<1>. QED BY <1>5, <1>6 DEF ShownAs, Q, cells

\* So is whatever a citizen answered.
LEMMA AnswersAreReadBack == ASSUME TablesInv PROVE AnswersReadBack
<1>. DEFINE surveys == Versions(input)
            answers == input.answers
            Q == Exports!buildQuestionMap(surveys)
            columns == Exports!groupQuestionsByText(Q)
<1>. SUFFICES ASSUME Answered("answers")
              PROVE  /\ {c \in ToSet(Result.cells) : c.answer # Exports!None} = SolidOf(answers, Q)
                     /\ \A c, d \in DOMAIN Result.cells : Result.cells[c].text = Result.cells[d].text => c = d
                     /\ \A q \in DOMAIN answers : (Result.version = 1) = (q \in {"q1", "q2"})
                     /\ ToSet(Exports!toResponseDetail(answers, Q)) = Given(answers, Q)
  BY Zenon DEF AnswersReadBack, SolidOf, Given, Exports!Blank
<1>1. input \in AnswersInputs /\ Result = Exports!exportRow(answers, surveys)
  BY DEF TablesInv, Tells, Answered, Result
<1>2. /\ Q \in [1..4 -> Questions(Ids, Texts)]
      /\ \A i, j \in 1..4 : /\ Q[i].id \in DOMAIN answers /\ Q[j].id \in DOMAIN answers
                            /\ Q[i].text = Q[j].text
                            => Q[i].id = Q[j].id
      /\ \A q \in DOMAIN answers : answers[q] # Exports!Blank => answers[q] # Exports!None
      /\ \A q \in DOMAIN answers : (Exports!resolveResponseVersion(answers, surveys) = 1) <=> (q \in {"q1", "q2"})
  BY <1>1, OneIsAnswered
<1>3. Result.version = Exports!resolveResponseVersion(answers, surveys) /\ Result.cells = CellsOf(answers, columns)
  BY <1>1 DEF Exports!exportRow, CellsOf
<1>. HIDE DEF surveys, answers, Q, columns
<1>4. Grouped(columns, Q, Ids)
  <2>. DEFINE n == 4
  <2>1. n \in Nat /\ Q \in [1..n -> Questions(Ids, Texts)]
    BY <1>2
  <2>. HIDE DEF n
  <2>2. Grouped(Exports!groupQuestionsByText(Q), Q, Ids)
    BY <2>1, ColumnsAreTexts
  <2>. QED BY <2>2 DEF columns
<1>5. DOMAIN Q = 1..4
  BY <1>2
<1>6. ShownAs(CellsOf(answers, columns), SolidOf(answers, Q))
  <2>1. \A i, j \in DOMAIN Q : /\ Q[i].id \in DOMAIN answers /\ Q[j].id \in DOMAIN answers
                               /\ Q[i].text = Q[j].text
                               => Q[i].id = Q[j].id
    BY <1>2, <1>5
  <2>. QED BY <1>2, <1>4, <2>1, CellsAreGiven
<1>7. ToSet(Exports!toResponseDetail(answers, Q)) = Given(answers, Q)
  <2>. DEFINE n == 4
  <2>1. n \in Nat /\ Q \in [1..n -> Questions(Ids, Texts)]
    BY <1>2
  <2>. HIDE DEF n
  <2>. QED BY <2>1, DetailIsGiven
<1>8. ASSUME NEW q \in DOMAIN answers PROVE (Result.version = 1) = (q \in {"q1", "q2"})
  <2>1. (Result.version = 1) <=> (q \in {"q1", "q2"})
    BY <1>2, <1>3
  <2>. QED BY <2>1
<1>. QED BY <1>3, <1>6, <1>7, <1>8 DEF ShownAs

\* What is printed can be read back: files, answers and whole exports.
\* (exportCsv, parseCsvRows, exportResponsesCsv)
THEOREM RowsReadBackHolds == Spec => []RowsReadBack
<1>1. ASSUME TablesInv PROVE RowsReadBack
  BY <1>1, FilesAreReadBack, AnswersAreReadBack, ExportsAreComplete DEF RowsReadBack
<1>. QED BY <1>1, TablesInvInit, TablesInvStep, PTL DEF Spec

=============================================================================
