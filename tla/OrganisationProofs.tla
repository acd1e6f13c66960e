------------------------- MODULE OrganisationProofs -------------------------
(***************************************************************************)
(* The parts of an organisation's workspace one by one, for any number of  *)
(* rows and of requests in flight: the invariant of each, and what one     *)
(* step keeps of it.                                                       *)
(***************************************************************************)
EXTENDS MCOrganisation, Sequences, FiniteSetTheorems, WellFoundedInduction, TLAPS

-----------------------------------------------------------------------------
(***************************************************************************)
(* Geography                                                               *)
(***************************************************************************)
Intents == [step : {"idle", "read", "write"}, row : Geography!Rows,
            names : SUBSET (Geography!Lists \cup {"region"}),
            gov : SUBSET Governorates, cen : SUBSET Centers, region : Geography!AtMostOne,
            beside : SUBSET (Geography!Lists \cup {"region"}), narrowed : BOOLEAN, copied : BOOLEAN]

\* What a request q has completed from its row is what the row still has,
\* unless another has written it since; and what it is about to write fits
\* together, and fits the row above unless that has been narrowed.
Carried(q) ==
    /\ q.step = "read" => q.row # Org
    /\ q.row # Org => "region" \notin q.names
    /\ "gov" \notin q.names \cup q.beside => q.gov = gov[q.row] \/ (q.row \in Needs /\ gov[q.row] = {})
    /\ "cen" \notin q.names \cup q.beside => q.cen = cen[q.row] \/ (q.row \in Needs /\ cen[q.row] = {})
    /\ q.row = Org /\ "region" \notin q.names \cup q.beside => q.region = region

Checked(q) ==
    /\ ~q.copied => \A y \in q.cen : GovernorateOf[y] \in q.gov
    /\ q.row = Org => (q.region # {} => \A x \in q.gov : RegionOf[x] \in q.region)
    /\ q.row # Org /\ ~q.narrowed =>
          /\ q.gov \subseteq gov[Geography!OwnerOf(q.row)]
          /\ q.cen \subseteq cen[Geography!OwnerOf(q.row)]

IntentsFit ==
    \A w \in Workers : /\ intent[w].step # "idle" => Carried(intent[w])
                       /\ intent[w].step = "write" => Checked(intent[w])

GeographyInv == Geography!TypeOK /\ Geography!HierarchyHolds /\ IntentsFit

LEMMA QuietTyped == Geography!Quiet \in Intents /\ Geography!Quiet.step = "idle"
BY DEF Intents, Geography!Quiet, Geography!Rows, Geography!AtMostOne

\* The three kinds of row are apart.
LEMMA RowsApart ==
    /\ Org \in Geography!Rows
    /\ \A s \in Studies \cap Selecting : s \in Geography!Rows /\ s # Org /\ s \notin Needs
    /\ \A n \in Needs \cap Selecting :
          /\ n \in Geography!Rows /\ n # Org
          /\ HomeOf[n] \in Studies \cap Selecting /\ Geography!OwnerOf(n) = HomeOf[n]
    /\ \A p \in Geography!Rows : Geography!OwnerOf(p) \in Geography!Rows
    /\ Org \notin Needs
BY RowsAssumption DEF Geography!Rows, Geography!OwnerOf

\* A request that goes on with what fits, or rests, leaves the rows as they are.
LEMMA IntentKeeps ==
    ASSUME GeographyInv, NEW w \in Workers, NEW q \in Intents,
           intent' = [intent EXCEPT ![w] = q], UNCHANGED Geography!rows,
           q.step # "idle" => Carried(q), q.step = "write" => Checked(q),
           patches' \in 0..MaxPatches
    PROVE  GeographyInv'
<1>1. /\ intent' = [intent EXCEPT ![w] = q]
      /\ placed' = placed /\ gov' = gov /\ cen' = cen /\ region' = region /\ torn' = torn
  BY DEF Geography!rows
<1>2. intent \in [Workers -> Intents]
  BY DEF GeographyInv, Geography!TypeOK, Intents
<1>3. intent' \in [Workers -> Intents]
  BY <1>1, <1>2
<1>4. Geography!TypeOK'
  BY <1>1, <1>3 DEF GeographyInv, Geography!TypeOK, Intents
<1>5. Geography!HierarchyHolds'
  BY <1>1 DEF GeographyInv, Geography!HierarchyHolds, Geography!CentersFit, Geography!RegionFits
<1>6. ASSUME NEW v \in Workers
      PROVE  /\ intent'[v].step # "idle" => (Carried(intent[v]))'
             /\ intent'[v].step = "write" => (Checked(intent[v]))'
  <2>1. CASE v = w
    <3>1. intent'[v] = q
      BY <1>1, <1>2, <2>1
    <3>. QED BY <1>1, <3>1 DEF Carried, Checked
  <2>2. CASE v # w
    <3>1. intent'[v] = intent[v]
      BY <1>1, <1>2, <2>2
    <3>2. /\ intent[v].step # "idle" => Carried(intent[v])
          /\ intent[v].step = "write" => Checked(intent[v])
      BY DEF GeographyInv, IntentsFit
    <3>. QED BY <1>1, <3>1, <3>2 DEF Carried, Checked
  <2>. QED BY <2>1, <2>2
<1>. QED BY <1>4, <1>5, <1>6 DEF GeographyInv, IntentsFit

\* What a payload becomes is one of the requests there are.
Demands(q, step, p, names, g, c, r, copied) ==
    /\ q \in Intents
    /\ q.step = step /\ q.row = p /\ q.names = names /\ q.gov = g /\ q.cen = c
    /\ q.region = r /\ q.beside = {} /\ q.copied = copied

LEMMA PayloadIs ==
    ASSUME NEW step \in {"read", "write"}, NEW p \in Geography!Rows,
           NEW names \in SUBSET (Geography!Lists \cup {"region"}),
           NEW g \in SUBSET Governorates, NEW c \in SUBSET Centers
    PROVE  LET q == Geography!Payload(step, p, names, g, c)
           IN  /\ Demands(q, step, p, names, g, c, {}, FALSE)
               /\ \A r \in Geography!AtMostOne :
                     Demands([q EXCEPT !.region = r], step, p, names, g, c, r, FALSE)
               /\ \A t \in BOOLEAN : Demands([q EXCEPT !.copied = t], step, p, names, g, c, {}, t)
BY DEF Geography!Payload, Geography!Quiet, Intents, Demands, Geography!AtMostOne

LEMMA PatchOfOrganisation ==
    ASSUME GeographyInv, NEW w \in Workers, Geography!BeginUpdateOrganisation(w)
    PROVE  GeographyInv'
<1>1. PICK names \in SUBSET (Geography!Lists \cup {"region"}), g \in SUBSET Governorates,
           c \in SUBSET Centers, r \in Geography!AtMostOne :
         /\ Geography!Completed(Org, names, g, c)
         /\ "region" \notin names => r = region
         /\ Geography!ValidHierarchy(r, g, c)
         /\ Geography!Begin(w, [Geography!Payload("write", Org, names, g, c) EXCEPT !.region = r])
  BY DEF Geography!BeginUpdateOrganisation
<1>. DEFINE q == [Geography!Payload("write", Org, names, g, c) EXCEPT !.region = r]
<1>2. Demands(q, "write", Org, names, g, c, r, FALSE)
  BY PayloadIs, RowsApart
<1>. HIDE DEF q
<1>3. /\ q \in Intents
      /\ q.step = "write" /\ q.row = Org /\ q.names = names /\ q.gov = g /\ q.cen = c
      /\ q.region = r /\ q.beside = {} /\ ~q.copied
  BY <1>2 DEF Demands
<1>4. ("gov" \notin names => g = gov[Org]) /\ ("cen" \notin names => c = cen[Org])
  BY <1>1, RowsApart DEF Geography!Completed, Geography!Shown
<1>5. Carried(q)
  BY <1>1, <1>3, <1>4 DEF Carried
<1>6. Checked(q)
  BY <1>1, <1>3 DEF Checked, Geography!ValidHierarchy
<1>7. patches' \in 0..MaxPatches
  BY ValuesAssumption DEF GeographyInv, Geography!TypeOK, Geography!BeginUpdateOrganisation
<1>8. Geography!Begin(w, q)
  BY <1>1 DEF q
<1>. QED BY <1>3, <1>5, <1>6, <1>7, <1>8, IntentKeeps DEF Geography!Begin

LEMMA PatchBelow ==
    ASSUME GeographyInv, NEW w \in Workers, NEW p \in Geography!Rows, Geography!BeginUpdate(w, p)
    PROVE  GeographyInv'
<1>1. PICK names \in SUBSET Geography!Lists, g \in SUBSET Governorates, c \in SUBSET Centers :
         /\ Geography!Completed(p, names, g, c)
         /\ Geography!Begin(w, Geography!Payload("read", p, names, g, c))
  BY DEF Geography!BeginUpdate
<1>. DEFINE q == Geography!Payload("read", p, names, g, c)
<1>. HIDE DEF q
<1>2. /\ q \in Intents
      /\ q.step = "read" /\ q.row = p /\ q.names = names /\ q.gov = g /\ q.cen = c /\ q.beside = {}
  <2>1. Demands(q, "read", p, names, g, c, {}, FALSE)
    BY PayloadIs DEF q
  <2>. QED BY <2>1 DEF Demands
<1>3. Geography!Begin(w, q)
  BY <1>1 DEF q
<1>4. p # Org /\ "region" \notin names
  BY DEF Geography!BeginUpdate, Geography!Lists
<1>5. /\ "gov" \notin names => g = gov[p] \/ (p \in Needs /\ gov[p] = {})
      /\ "cen" \notin names => c = cen[p] \/ (p \in Needs /\ cen[p] = {})
  BY <1>1 DEF Geography!Completed, Geography!Shown
<1>6. Carried(q)
  BY <1>2, <1>4, <1>5 DEF Carried
<1>7. patches' \in 0..MaxPatches
  BY ValuesAssumption DEF GeographyInv, Geography!TypeOK, Geography!BeginUpdate
<1>. QED BY <1>2, <1>3, <1>6, <1>7, IntentKeeps DEF Geography!Begin

\* A new row names all its lists.
LEMMA NewRow ==
    ASSUME GeographyInv, NEW w \in Workers, NEW p \in Geography!Rows \ {Org},
           NEW step \in {"read", "write"}, NEW g \in SUBSET Governorates, NEW c \in SUBSET Centers,
           NEW copied \in BOOLEAN,
           NEW q, Demands(q, step, p, Geography!Lists, g, c, {}, copied), Geography!Begin(w, q),
           UNCHANGED patches,
           step = "write" =>
              /\ ~copied => \A y \in c : GovernorateOf[y] \in g
              /\ g \subseteq gov[Geography!OwnerOf(p)] /\ c \subseteq cen[Geography!OwnerOf(p)]
    PROVE  GeographyInv'
<1>3. /\ q \in Intents
      /\ q.step = step /\ q.row = p /\ q.names = Geography!Lists /\ q.gov = g /\ q.cen = c
      /\ q.copied = copied
  BY DEF Demands
<1>4. Carried(q)
  BY <1>3 DEF Carried, Geography!Lists
<1>5. step = "write" => Checked(q)
  BY <1>3 DEF Checked
<1>6. patches' \in 0..MaxPatches
  BY DEF GeographyInv, Geography!TypeOK
<1>. QED BY <1>3, <1>4, <1>5, <1>6, IntentKeeps DEF Geography!Begin

LEMMA NewStudy ==
    ASSUME GeographyInv, NEW w \in Workers, NEW s \in Studies \cap Selecting, Geography!BeginStudy(w, s)
    PROVE  GeographyInv'
<1>1. PICK g \in SUBSET Governorates \ {{}}, c \in SUBSET Centers \ {{}} :
         /\ Geography!ValidHierarchy(region, g, c) /\ Geography!InScopeOf(s, g, c)
         /\ Geography!Begin(w, Geography!Payload("write", s, Geography!Lists, g, c))
  BY DEF Geography!BeginStudy
<1>2. Demands(Geography!Payload("write", s, Geography!Lists, g, c), "write", s, Geography!Lists, g, c, {}, FALSE)
  BY PayloadIs, RowsApart
<1>3. /\ \A y \in c : GovernorateOf[y] \in g
      /\ g \subseteq gov[Geography!OwnerOf(s)] /\ c \subseteq cen[Geography!OwnerOf(s)]
  BY <1>1 DEF Geography!ValidHierarchy, Geography!InScopeOf
<1>4. s \in Geography!Rows \ {Org} /\ UNCHANGED patches
  BY RowsApart DEF Geography!BeginStudy
<1>. QED BY <1>1, <1>2, <1>3, <1>4, NewRow

LEMMA NewNeed ==
    ASSUME GeographyInv, NEW w \in Workers, NEW n \in Needs \cap Selecting, Geography!BeginNeed(w, n)
    PROVE  GeographyInv'
<1>1. gov[HomeOf[n]] \in SUBSET Governorates /\ cen[HomeOf[n]] \in SUBSET Centers
  BY RowsApart DEF GeographyInv, Geography!TypeOK
<1>2. PICK g \in SUBSET Governorates, c \in SUBSET Centers :
         Geography!Begin(w, Geography!Payload("read", n, Geography!Lists, g, c))
  BY <1>1 DEF Geography!BeginNeed
<1>3. Demands(Geography!Payload("read", n, Geography!Lists, g, c), "read", n, Geography!Lists, g, c, {}, FALSE)
  BY PayloadIs, RowsApart
<1>4. n \in Geography!Rows \ {Org} /\ UNCHANGED patches
  BY RowsApart DEF Geography!BeginNeed
<1>. QED BY <1>2, <1>3, <1>4, NewRow

LEMMA NewImport ==
    ASSUME GeographyInv, NEW w \in Workers, NEW n \in Needs \cap Selecting, Geography!BeginImport(w, n)
    PROVE  GeographyInv'
<1>. DEFINE h == HomeOf[n]
            copied == h \in torn
<1>1. /\ h \in placed /\ UNCHANGED patches
      /\ Geography!Begin(w, [Geography!Payload("write", n, Geography!Lists, gov[h], cen[h]) EXCEPT !.copied = copied])
  BY DEF Geography!BeginImport
<1>2. /\ n \in Geography!Rows \ {Org} /\ h \in Geography!Rows /\ h \notin Needs
      /\ Geography!OwnerOf(n) = h
  BY RowsApart, RowsAssumption
<1>3. gov[h] \in SUBSET Governorates /\ cen[h] \in SUBSET Centers
  BY <1>2 DEF GeographyInv, Geography!TypeOK
<1>4. ~copied => \A y \in cen[h] : GovernorateOf[y] \in gov[h]
  BY <1>1, <1>2 DEF GeographyInv, Geography!HierarchyHolds, Geography!CentersFit
<1>5. copied \in BOOLEAN
  OBVIOUS
<1>. HIDE DEF h, copied
<1>. DEFINE q == [Geography!Payload("write", n, Geography!Lists, gov[h], cen[h]) EXCEPT !.copied = copied]
<1>6. Demands(q, "write", n, Geography!Lists, gov[h], cen[h], {}, copied)
  BY <1>2, <1>3, <1>5, PayloadIs
<1>7. Geography!Begin(w, q)
  BY <1>1
<1>. HIDE DEF q
<1>. QED BY <1>1, <1>2, <1>3, <1>4, <1>5, <1>6, <1>7, NewRow

\* What was checked fits what it was checked against.
LEMMA CheckKeeps ==
    ASSUME GeographyInv, NEW w \in Workers, Geography!Check(w)
    PROVE  GeographyInv'
<1>. DEFINE q == intent[w]
            t == [q EXCEPT !.step = "write"]
<1>1. q \in Intents /\ intent \in [Workers -> Intents]
  BY DEF GeographyInv, Geography!TypeOK, Intents
<1>2. /\ q.step = "read" /\ intent' = [intent EXCEPT ![w] = t]
      /\ placed' = placed /\ gov' = gov /\ cen' = cen /\ region' = region /\ torn' = torn
      /\ patches' = patches
      /\ \A y \in q.cen : GovernorateOf[y] \in q.gov
      /\ Geography!InScopeOf(q.row, q.gov, q.cen)
  BY DEF Geography!Check, Geography!rows, Geography!ValidHierarchy
<1>3. /\ t \in Intents /\ t.step = "write" /\ t.row = q.row /\ t.names = q.names /\ t.gov = q.gov
      /\ t.cen = q.cen /\ t.region = q.region /\ t.beside = q.beside
  BY <1>1 DEF Intents
<1>4. /\ Carried(q) /\ q.row # Org
  BY <1>2 DEF GeographyInv, IntentsFit, Carried
<1>. HIDE DEF q, t
<1>5. Carried(t)
  BY <1>3, <1>4 DEF Carried
<1>6. Checked(t)
  BY <1>2, <1>3, <1>4 DEF Checked, Geography!InScopeOf
<1>7. UNCHANGED Geography!rows /\ patches' \in 0..MaxPatches
  BY <1>2 DEF Geography!rows, GeographyInv, Geography!TypeOK
<1>. QED BY <1>2, <1>3, <1>5, <1>6, <1>7, IntentKeeps

LEMMA FailKeeps ==
    ASSUME GeographyInv, NEW w \in Workers, Geography!Fail(w)
    PROVE  GeographyInv'
<1>1. /\ intent' = [intent EXCEPT ![w] = Geography!Quiet] /\ UNCHANGED Geography!rows
      /\ patches' \in 0..MaxPatches
  BY DEF Geography!Fail, GeographyInv, Geography!TypeOK
<1>. QED BY <1>1, QuietTyped, IntentKeeps

\* What a write leaves of a list.
After(q, l, kept, missed) ==
    IF l \notin q.names THEN kept ELSE IF l \in missed THEN q[l] \cup kept ELSE q[l]

\* What a write does to the row p of its request q, and to the other requests.
Written(w, q, p, missed, loses) ==
    /\ gov' = [gov EXCEPT ![p] = After(q, "gov", gov[p], missed)]
    /\ cen' = [cen EXCEPT ![p] = After(q, "cen", cen[p], missed)]
    /\ torn' = IF Geography!Torn(q, missed) THEN torn \cup {p} ELSE torn \ {p}
    /\ loses <=> ~(gov[p] \subseteq gov'[p] /\ cen[p] \subseteq cen'[p])
    /\ intent' = [v \in Workers |->
          IF v = w \/ intent[v] = Geography!Quiet THEN Geography!Quiet
          ELSE [intent[v] EXCEPT
                  !.beside = IF intent[v].row = p THEN @ \cup q.names ELSE @,
                  !.narrowed = @ \/ (/\ loses /\ intent[v].step = "write"
                                     /\ intent[v].row # Org
                                     /\ Geography!OwnerOf(intent[v].row) = p)]]
    /\ region' = IF "region" \in q.names THEN q.region ELSE region
    /\ placed' = placed \cup {p}
    /\ patches' = patches

LEMMA WriteIs ==
    ASSUME GeographyInv, NEW w \in Workers, Geography!Write(w)
    PROVE  LET q == intent[w]
           IN  /\ q \in Intents /\ q.step = "write" /\ Carried(q) /\ Checked(q)
               /\ \E missed \in SUBSET Geography!Lists, loses \in BOOLEAN :
                     Written(w, q, q.row, missed, loses)
<1>. DEFINE q == intent[w]
            p == q.row
            kept == [gov |-> gov[p], cen |-> cen[p]]
            Left(l, missed) == IF l \notin q.names THEN kept[l]
                               ELSE IF l \in missed THEN q[l] \cup kept[l] ELSE q[l]
            Lost(missed) == ~(gov[p] \subseteq Left("gov", missed) /\ cen[p] \subseteq Left("cen", missed))
<1>1. /\ q \in Intents /\ q.step = "write" /\ p \in Geography!Rows
      /\ gov \in [Geography!Rows -> SUBSET Governorates] /\ cen \in [Geography!Rows -> SUBSET Centers]
  BY DEF GeographyInv, Geography!TypeOK, Intents, Geography!Write
<1>2. Carried(q) /\ Checked(q)
  BY <1>1 DEF GeographyInv, IntentsFit
<1>3. PICK missed \in SUBSET (q.names \cap q.beside \cap Geography!Lists) :
         /\ gov' = [gov EXCEPT ![p] = Left("gov", missed)]
         /\ cen' = [cen EXCEPT ![p] = Left("cen", missed)]
         /\ torn' = IF Geography!Torn(q, missed) THEN torn \cup {p} ELSE torn \ {p}
         /\ intent' = [v \in Workers |->
              IF v = w \/ intent[v] = Geography!Quiet THEN Geography!Quiet
              ELSE [intent[v] EXCEPT
                      !.beside = IF intent[v].row = p THEN @ \cup q.names ELSE @,
                      !.narrowed = @ \/ (/\ Lost(missed) /\ intent[v].step = "write"
                                         /\ intent[v].row # Org /\ Geography!OwnerOf(intent[v].row) = p)]]
  BY DEF Geography!Write
<1>4. /\ region' = IF "region" \in q.names THEN q.region ELSE region
      /\ placed' = placed \cup {p} /\ patches' = patches
  BY DEF Geography!Write
<1>5. /\ Left("gov", missed) = After(q, "gov", gov[p], missed)
      /\ Left("cen", missed) = After(q, "cen", cen[p], missed)
  BY DEF After
<1>. DEFINE loses == Lost(missed)
<1>6. gov'[p] = Left("gov", missed) /\ cen'[p] = Left("cen", missed)
  BY <1>1, <1>3
<1>7. loses \in BOOLEAN /\ (loses <=> ~(gov[p] \subseteq gov'[p] /\ cen[p] \subseteq cen'[p]))
  BY <1>6
<1>. HIDE DEF q, Left, kept
<1>8. missed \in SUBSET Geography!Lists
  BY <1>3
<1>9. /\ gov' = [gov EXCEPT ![p] = After(q, "gov", gov[p], missed)]
      /\ cen' = [cen EXCEPT ![p] = After(q, "cen", cen[p], missed)]
  BY <1>3, <1>5
<1>. HIDE DEF Lost
<1>10. Written(w, q, p, missed, loses)
  BY <1>3, <1>4, <1>7, <1>9 DEF Written
<1>. QED BY <1>1, <1>2, <1>7, <1>8, <1>10 DEF q

\* What the written row has then.
LEMMA WrittenRow ==
    ASSUME GeographyInv, NEW w \in Workers, NEW q \in Intents, NEW missed \in SUBSET Geography!Lists,
           NEW loses \in BOOLEAN, Written(w, q, q.row, missed, loses), Carried(q), Checked(q)
    PROVE  /\ gov'[q.row] = After(q, "gov", gov[q.row], missed) /\ gov'[q.row] \in SUBSET Governorates
           /\ cen'[q.row] = After(q, "cen", cen[q.row], missed) /\ cen'[q.row] \in SUBSET Centers
           /\ gov' \in [Geography!Rows -> SUBSET Governorates]
           /\ cen' \in [Geography!Rows -> SUBSET Centers]
           /\ \A r \in Geography!Rows \ {q.row} : gov'[r] = gov[r] /\ cen'[r] = cen[r]
           /\ "gov" \notin q.names => gov'[q.row] = gov[q.row]
           /\ "cen" \notin q.names => cen'[q.row] = cen[q.row]
           /\ ~Geography!Torn(q, missed) =>
                 /\ ~q.copied /\ q.beside \subseteq q.names
                 /\ gov'[q.row] = q.gov \/ (q.row \in Needs /\ gov'[q.row] = {})
                 /\ cen'[q.row] = q.cen \/ (q.row \in Needs /\ cen'[q.row] = {})
<1>. DEFINE p == q.row
            g == After(q, "gov", gov[p], missed)
            c == After(q, "cen", cen[p], missed)
<1>1. /\ p \in Geography!Rows /\ q.gov \in SUBSET Governorates /\ q.cen \in SUBSET Centers
      /\ q["gov"] = q.gov /\ q["cen"] = q.cen
      /\ gov \in [Geography!Rows -> SUBSET Governorates] /\ cen \in [Geography!Rows -> SUBSET Centers]
  BY DEF Intents, GeographyInv, Geography!TypeOK
<1>2. g \in SUBSET Governorates /\ c \in SUBSET Centers
  BY <1>1 DEF After
<1>3. gov' = [gov EXCEPT ![p] = g] /\ cen' = [cen EXCEPT ![p] = c]
  BY DEF Written
<1>4. /\ "gov" \notin q.names => g = gov[p]
      /\ "cen" \notin q.names => c = cen[p]
  BY DEF After
<1>5. ASSUME ~Geography!Torn(q, missed)
      PROVE  /\ ~q.copied /\ q.beside \subseteq q.names
             /\ g = q.gov \/ (p \in Needs /\ g = {})
             /\ c = q.cen \/ (p \in Needs /\ c = {})
  <2>1. missed = {} /\ q.beside \subseteq q.names /\ ~q.copied
    BY <1>5 DEF Geography!Torn
  <2>2. "gov" \in q.names => g = q.gov
    BY <1>1, <2>1 DEF After
  <2>3. "cen" \in q.names => c = q.cen
    BY <1>1, <2>1 DEF After
  <2>4. "gov" \notin q.names => q.gov = gov[p] \/ (p \in Needs /\ gov[p] = {})
    BY <2>1 DEF Carried
  <2>5. "cen" \notin q.names => q.cen = cen[p] \/ (p \in Needs /\ cen[p] = {})
    BY <2>1 DEF Carried
  <2>. HIDE DEF g, c
  <2>. QED BY <1>4, <2>1, <2>2, <2>3, <2>4, <2>5
<1>. HIDE DEF p, g, c
<1>6. /\ gov'[p] = g /\ cen'[p] = c
      /\ gov' \in [Geography!Rows -> SUBSET Governorates] /\ cen' \in [Geography!Rows -> SUBSET Centers]
      /\ \A r \in Geography!Rows \ {p} : gov'[r] = gov[r] /\ cen'[r] = cen[r]
  BY <1>1, <1>2, <1>3
<1>. QED BY <1>2, <1>4, <1>5, <1>6 DEF p, g, c

\* What the write makes of another request.
LEMMA OthersAfter ==
    ASSUME GeographyInv, NEW w \in Workers, NEW q \in Intents, NEW missed \in SUBSET Geography!Lists,
           NEW loses \in BOOLEAN, Written(w, q, q.row, missed, loses), NEW v \in Workers
    PROVE  \/ intent'[v] = Geography!Quiet
           \/ LET o == intent[v]
                  n == intent'[v]
              IN  /\ o \in Intents /\ n \in Intents
                  /\ n.step = o.step /\ n.row = o.row /\ n.names = o.names /\ n.gov = o.gov
                  /\ n.cen = o.cen /\ n.region = o.region /\ n.copied = o.copied
                  /\ n.beside = IF o.row = q.row THEN o.beside \cup q.names ELSE o.beside
                  /\ o.narrowed => n.narrowed
                  /\ loses /\ o.step = "write" /\ o.row # Org /\ Geography!OwnerOf(o.row) = q.row => n.narrowed
<1>1. intent[v] \in Intents /\ q.names \in SUBSET (Geography!Lists \cup {"region"})
  BY DEF GeographyInv, Geography!TypeOK, Intents
<1>. DEFINE o == intent[v]
            beside == IF o.row = q.row THEN o.beside \cup q.names ELSE o.beside
            narrowed == o.narrowed \/ (loses /\ o.step = "write" /\ o.row # Org /\ Geography!OwnerOf(o.row) = q.row)
<1>2. intent'[v] = IF v = w \/ o = Geography!Quiet THEN Geography!Quiet
                   ELSE [o EXCEPT !.beside = beside, !.narrowed = narrowed]
  BY DEF Written
<1>3. /\ beside \in SUBSET (Geography!Lists \cup {"region"}) /\ narrowed \in BOOLEAN
      /\ o.narrowed => narrowed
      /\ loses /\ o.step = "write" /\ o.row # Org /\ Geography!OwnerOf(o.row) = q.row => narrowed
  BY <1>1 DEF Intents
<1>. HIDE DEF o, beside, narrowed
<1>5. CASE ~(v = w \/ o = Geography!Quiet)
  <2>1. intent'[v] = [o EXCEPT !.beside = beside, !.narrowed = narrowed]
    BY <1>2, <1>5
  <2>. QED BY <1>1, <1>3, <2>1 DEF Intents, o, beside, narrowed
<1>. QED BY <1>2, <1>5

LEMMA WriteKeepsTypes ==
    ASSUME GeographyInv, NEW w \in Workers, NEW q \in Intents, NEW missed \in SUBSET Geography!Lists,
           NEW loses \in BOOLEAN, Written(w, q, q.row, missed, loses), Carried(q), Checked(q)
    PROVE  Geography!TypeOK'
<1>1. /\ gov' \in [Geography!Rows -> SUBSET Governorates]
      /\ cen' \in [Geography!Rows -> SUBSET Centers]
  BY WrittenRow
<1>2. /\ placed' \subseteq Geography!Rows /\ torn' \subseteq Geography!Rows
      /\ region' \in Geography!AtMostOne /\ patches' \in 0..MaxPatches
  BY DEF Written, GeographyInv, Geography!TypeOK, Intents
<1>3. \A v \in Workers : intent'[v] \in Intents
  BY OthersAfter, QuietTyped
<1>4. intent' = [v \in Workers |-> intent'[v]]
  BY DEF Written
<1>5. intent' \in [Workers -> Intents]
  BY <1>3, <1>4
<1>. QED BY <1>1, <1>2, <1>5 DEF Geography!TypeOK, Intents

LEMMA WriteKeepsHierarchy ==
    ASSUME GeographyInv, NEW w \in Workers, NEW q \in Intents, NEW missed \in SUBSET Geography!Lists,
           NEW loses \in BOOLEAN, Written(w, q, q.row, missed, loses), Carried(q), Checked(q)
    PROVE  Geography!HierarchyHolds'
<1>. DEFINE p == q.row
<1>1. /\ placed' = placed \cup {p}
      /\ torn' = IF Geography!Torn(q, missed) THEN torn \cup {p} ELSE torn \ {p}
      /\ region' = IF "region" \in q.names THEN q.region ELSE region
  BY DEF Written
<1>2. \A r \in Geography!Rows \ {p} : gov'[r] = gov[r] /\ cen'[r] = cen[r]
  BY WrittenRow
<1>3. ASSUME p \notin torn'
      PROVE  /\ ~q.copied /\ q.beside \subseteq q.names
             /\ gov'[p] = q.gov \/ (p \in Needs /\ gov'[p] = {})
             /\ cen'[p] = q.cen \/ (p \in Needs /\ cen'[p] = {})
  BY <1>1, <1>3, WrittenRow
<1>4. ASSUME NEW r \in placed' \ torn' PROVE Geography!CentersFit(r)'
  <2>1. CASE r = p
    <3>1. \A y \in q.cen : GovernorateOf[y] \in q.gov
      BY <1>3, <2>1 DEF Checked
    <3>2. p \in Needs => p \in Needs \cap Selecting
      BY RowsAssumption DEF Intents, Geography!Rows
    <3>. QED BY <1>3, <2>1, <3>1, <3>2 DEF Geography!CentersFit
  <2>2. CASE r # p
    <3>1. r \in placed \ torn /\ r \in Geography!Rows
      BY <1>1, <2>2 DEF GeographyInv, Geography!TypeOK
    <3>2. Geography!CentersFit(r)
      BY <3>1 DEF GeographyInv, Geography!HierarchyHolds
    <3>. QED BY <1>2, <2>2, <3>1, <3>2 DEF Geography!CentersFit
  <2>. QED BY <2>1, <2>2
<1>5. ASSUME Org \notin torn' PROVE Geography!RegionFits'
  <2>1. CASE p = Org
    <3>1. gov'[Org] = q.gov /\ q.beside \subseteq q.names
      BY <1>3, <1>5, <2>1, RowsApart
    <3>2. region' = q.region
      BY <1>1, <2>1, <3>1 DEF Carried
    <3>. QED BY <2>1, <3>1, <3>2 DEF Checked, Geography!RegionFits
  <2>2. CASE p # Org
    <3>1. region' = region /\ gov'[Org] = gov[Org] /\ Org \notin torn
      BY <1>1, <1>2, <1>5, <2>2, RowsApart DEF Carried
    <3>. QED BY <3>1 DEF GeographyInv, Geography!HierarchyHolds, Geography!RegionFits
  <2>. QED BY <2>1, <2>2
<1>. QED BY <1>4, <1>5 DEF Geography!HierarchyHolds

\* Another request of the same row has a list of it written beside it; one of a
\* row below is narrowed when its owner has lost something.
LEMMA WriteKeepsIntents ==
    ASSUME GeographyInv, NEW w \in Workers, NEW q \in Intents, NEW missed \in SUBSET Geography!Lists,
           NEW loses \in BOOLEAN, Written(w, q, q.row, missed, loses), Carried(q), Checked(q)
    PROVE  IntentsFit'
<1>. DEFINE p == q.row
<1>. SUFFICES ASSUME NEW v \in Workers
              PROVE  /\ intent'[v].step # "idle" => (Carried(intent[v]))'
                     /\ intent'[v].step = "write" => (Checked(intent[v]))'
  BY DEF IntentsFit
<1>. DEFINE o == intent[v]
            n == intent'[v]
<1>1. CASE n = Geography!Quiet
  BY <1>1, QuietTyped
<1>2. ASSUME n # Geography!Quiet
      PROVE  /\ o \in Intents /\ n \in Intents
             /\ n.step = o.step /\ n.row = o.row /\ n.names = o.names /\ n.gov = o.gov
             /\ n.cen = o.cen /\ n.region = o.region /\ n.copied = o.copied
             /\ n.beside = IF o.row = p THEN o.beside \cup q.names ELSE o.beside
             /\ o.narrowed => n.narrowed
             /\ loses /\ o.step = "write" /\ o.row # Org /\ Geography!OwnerOf(o.row) = p => n.narrowed
  BY <1>2, OthersAfter
<1>3. /\ \A r \in Geography!Rows \ {p} : gov'[r] = gov[r] /\ cen'[r] = cen[r]
      /\ "gov" \notin q.names => gov'[p] = gov[p]
      /\ "cen" \notin q.names => cen'[p] = cen[p]
  BY WrittenRow
<1>4. region' = IF "region" \in q.names THEN q.region ELSE region
  BY DEF Written
<1>5. loses <=> ~(gov[p] \subseteq gov'[p] /\ cen[p] \subseteq cen'[p])
  BY DEF Written
<1>6. /\ o.step # "idle" => Carried(o)
      /\ o.step = "write" => Checked(o)
  BY DEF GeographyInv, IntentsFit
<1>7. ASSUME n # Geography!Quiet, n.step # "idle" PROVE (Carried(intent[v]))'
  <2>1. Carried(o) /\ o.row \in Geography!Rows
    BY <1>2, <1>6, <1>7 DEF Intents
  <2>2. ASSUME "gov" \notin n.names \cup n.beside
        PROVE  n.gov = gov'[n.row] \/ (n.row \in Needs /\ gov'[n.row] = {})
    <3>1. gov'[o.row] = gov[o.row] /\ "gov" \notin o.names \cup o.beside
      BY <1>2, <1>3, <1>7, <2>1, <2>2
    <3>. QED BY <1>2, <1>7, <2>1, <3>1 DEF Carried
  <2>3. ASSUME "cen" \notin n.names \cup n.beside
        PROVE  n.cen = cen'[n.row] \/ (n.row \in Needs /\ cen'[n.row] = {})
    <3>1. cen'[o.row] = cen[o.row] /\ "cen" \notin o.names \cup o.beside
      BY <1>2, <1>3, <1>7, <2>1, <2>3
    <3>. QED BY <1>2, <1>7, <2>1, <3>1 DEF Carried
  <2>4. ASSUME n.row = Org, "region" \notin n.names \cup n.beside PROVE n.region = region'
    <3>1. "region" \notin q.names
      <4>1. p = Org => "region" \notin q.names
        BY <1>2, <1>7, <2>4
      <4>2. p # Org => "region" \notin q.names
        BY DEF Carried
      <4>. QED BY <4>1, <4>2
    <3>2. "region" \notin o.names \cup o.beside
      BY <1>2, <1>7, <2>4
    <3>. QED BY <1>2, <1>4, <1>7, <2>1, <2>4, <3>1, <3>2 DEF Carried
  <2>. HIDE DEF o, p
  <2>5. (n.step = "read" => n.row # Org) /\ (n.row # Org => "region" \notin n.names)
    BY <1>2, <1>7, <2>1 DEF Carried
  <2>. QED BY <2>2, <2>3, <2>4, <2>5 DEF Carried
<1>8. ASSUME n # Geography!Quiet, n.step = "write" PROVE (Checked(intent[v]))'
  <2>1. Checked(o) /\ o.row \in Geography!Rows
    BY <1>2, <1>6, <1>8 DEF Intents
  <2>2. ASSUME n.row # Org, ~n.narrowed
        PROVE  /\ n.gov \subseteq gov'[Geography!OwnerOf(n.row)]
               /\ n.cen \subseteq cen'[Geography!OwnerOf(n.row)]
    <3>. DEFINE u == Geography!OwnerOf(o.row)
    <3>1. u \in Geography!Rows
      BY <2>1, RowsApart
    <3>2. o.gov \subseteq gov[u] /\ o.cen \subseteq cen[u]
      BY <1>2, <1>8, <2>1, <2>2 DEF Checked
    <3>3. gov[u] \subseteq gov'[u] /\ cen[u] \subseteq cen'[u]
      <4>1. CASE u = p
        BY <1>2, <1>5, <1>8, <2>2, <4>1
      <4>2. CASE u # p
        BY <1>3, <3>1, <4>2
      <4>. QED BY <4>1, <4>2
    <3>. HIDE DEF u
    <3>4. n.gov \subseteq gov'[u] /\ n.cen \subseteq cen'[u]
      BY <1>2, <1>8, <3>2, <3>3
    <3>5. u = Geography!OwnerOf(n.row)
      BY <1>2, <1>8 DEF u
    <3>. QED BY <3>4, <3>5
  <2>3. /\ ~n.copied => \A y \in n.cen : GovernorateOf[y] \in n.gov
        /\ n.row = Org => (n.region # {} => \A x \in n.gov : RegionOf[x] \in n.region)
    <3>. HIDE DEF o, n, p
    <3>. QED BY <1>2, <1>8, <2>1 DEF Checked
  <2>. QED BY <2>2, <2>3 DEF Checked, Geography!OwnerOf
<1>. HIDE DEF o
<1>. QED BY <1>1, <1>7, <1>8, QuietTyped

LEMMA WriteKeeps ==
    ASSUME GeographyInv, NEW w \in Workers, Geography!Write(w)
    PROVE  GeographyInv'
<1>. DEFINE q == intent[w]
<1>1. q \in Intents /\ Carried(q) /\ Checked(q)
  BY WriteIs
<1>2. PICK missed \in SUBSET Geography!Lists, loses \in BOOLEAN : Written(w, q, q.row, missed, loses)
  BY WriteIs
<1>. HIDE DEF q
<1>. QED BY <1>1, <1>2, WriteKeepsTypes, WriteKeepsHierarchy, WriteKeepsIntents DEF GeographyInv

LEMMA GeographyStep == ASSUME GeographyInv, [Geography!Next]_geographyVars PROVE GeographyInv'
<1>1. CASE UNCHANGED geographyVars
  <2>1. /\ placed' = placed /\ gov' = gov /\ cen' = cen /\ region' = region /\ torn' = torn
        /\ intent' = intent /\ patches' = patches
    BY <1>1 DEF geographyVars
  <2>2. Geography!TypeOK'
    BY <2>1 DEF GeographyInv, Geography!TypeOK
  <2>3. Geography!HierarchyHolds'
    BY <2>1 DEF GeographyInv, Geography!HierarchyHolds, Geography!CentersFit, Geography!RegionFits
  <2>4. IntentsFit'
    BY <2>1 DEF GeographyInv, IntentsFit, Carried, Checked
  <2>. QED BY <2>2, <2>3, <2>4 DEF GeographyInv
<1>2. CASE Geography!Next
  <2>1. PICK w \in Workers :
           \/ Geography!BeginUpdateOrganisation(w)
           \/ \E p \in Geography!Rows : Geography!BeginUpdate(w, p)
           \/ \E s \in Studies \cap Selecting : Geography!BeginStudy(w, s)
           \/ \E n \in Needs \cap Selecting : Geography!BeginNeed(w, n) \/ Geography!BeginImport(w, n)
           \/ Geography!Check(w) \/ Geography!Write(w) \/ Geography!Fail(w)
    BY <1>2 DEF Geography!Next
  <2>. QED BY <2>1, PatchOfOrganisation, PatchBelow, NewStudy, NewNeed, NewImport, CheckKeeps,
              WriteKeeps, FailKeeps
<1>. QED BY <1>1, <1>2

\* A row's lists change only when a request of that row writes them; and what it
\* then has is what was compared with the row above, unless that was narrowed or
\* another wrote beside it.
LEMMA WithinOwnerStep ==
    ASSUME GeographyInv, [Geography!Next]_geographyVars,
           NEW p \in Geography!Rows \ {Org}, gov'[p] # gov[p] \/ cen'[p] # cen[p]
    PROVE  \/ p \in torn'
           \/ \E w \in Workers :
                 /\ intent[w].row = p /\ intent[w].step = "write" /\ intent'[w] = Geography!Quiet
                 /\ intent[w].narrowed \/ ( /\ gov'[p] \subseteq gov[Geography!OwnerOf(p)]
                                           /\ cen'[p] \subseteq cen[Geography!OwnerOf(p)] )
<1>1. Geography!Next
  BY DEF geographyVars
<1>2. ASSUME UNCHANGED Geography!rows PROVE FALSE
  BY <1>2 DEF Geography!rows
<1>3. PICK w \in Workers : Geography!Write(w)
  <2>1. PICK w \in Workers :
           \/ Geography!BeginUpdateOrganisation(w)
           \/ \E r \in Geography!Rows : Geography!BeginUpdate(w, r)
           \/ \E s \in Studies \cap Selecting : Geography!BeginStudy(w, s)
           \/ \E n \in Needs \cap Selecting : Geography!BeginNeed(w, n) \/ Geography!BeginImport(w, n)
           \/ Geography!Check(w) \/ Geography!Write(w) \/ Geography!Fail(w)
    BY <1>1 DEF Geography!Next
  <2>2. ~Geography!BeginUpdateOrganisation(w)
    BY <1>2 DEF Geography!BeginUpdateOrganisation, Geography!Begin
  <2>3. \A r : ~Geography!BeginUpdate(w, r)
    BY <1>2 DEF Geography!BeginUpdate, Geography!Begin
  <2>4. \A s : ~Geography!BeginStudy(w, s)
    BY <1>2 DEF Geography!BeginStudy, Geography!Begin
  <2>5. \A n : ~Geography!BeginNeed(w, n) /\ ~Geography!BeginImport(w, n)
    BY <1>2 DEF Geography!BeginNeed, Geography!BeginImport, Geography!Begin
  <2>6. ~Geography!Check(w)
    BY <1>2 DEF Geography!Check, Geography!rows
  <2>7. ~Geography!Fail(w)
    BY <1>2 DEF Geography!Fail
  <2>. QED BY <2>1, <2>2, <2>3, <2>4, <2>5, <2>6, <2>7
<1>. DEFINE q == intent[w]
<1>4. q \in Intents /\ q.step = "write" /\ Carried(q) /\ Checked(q)
  BY <1>3, WriteIs
<1>5. PICK missed \in SUBSET Geography!Lists, loses \in BOOLEAN : Written(w, q, q.row, missed, loses)
  BY <1>3, WriteIs
<1>6. intent'[w] = Geography!Quiet
  BY <1>5 DEF Written
<1>. HIDE DEF q
<1>7. p = q.row
  BY <1>4, <1>5, WrittenRow
<1>8. ASSUME p \notin torn', ~q.narrowed
      PROVE  /\ gov'[p] \subseteq gov[Geography!OwnerOf(p)]
             /\ cen'[p] \subseteq cen[Geography!OwnerOf(p)]
  <2>1. ~Geography!Torn(q, missed)
    BY <1>5, <1>7, <1>8 DEF Written
  <2>2. /\ gov'[p] = q.gov \/ gov'[p] = {}
        /\ cen'[p] = q.cen \/ cen'[p] = {}
    BY <1>4, <1>5, <1>7, <2>1, WrittenRow
  <2>3. q.gov \subseteq gov[Geography!OwnerOf(p)] /\ q.cen \subseteq cen[Geography!OwnerOf(p)]
    BY <1>4, <1>7, <1>8 DEF Checked
  <2>. QED BY <2>2, <2>3
<1>. QED BY <1>4, <1>6, <1>7, <1>8 DEF q

-----------------------------------------------------------------------------
(***************************************************************************)
(* Methodology settings                                                    *)
(***************************************************************************)
\* Every editor has validated what it is about to write, as a whole.
SettingsInv ==
    /\ Settings!TypeOK
    /\ edit = [e \in Workers |-> edit[e]]
    /\ \A e \in Workers : edit[e].row # {} =>
          /\ edit[e].read \in [Settings!Bands -> Scale] /\ edit[e].patch \in Settings!Patches
          /\ Settings!Ordered(Settings!Merged(edit[e].read, edit[e].patch))
    /\ \A r \in SettingRows : Settings!Ordered(thresholds[r])

LEMMA SettingsStep ==
    ASSUME SettingsInv, [Settings!Next]_settingVars
    PROVE  SettingsInv'
<1> USE DEF SettingsInv, Settings!TypeOK
<1>0. Settings!Away.row = {} BY DEF Settings!Away
<1>1. CASE UNCHANGED settingVars
    BY <1>1 DEF settingVars, Settings!Ordered, Settings!Merged
<1>2. ASSUME NEW e \in Workers, Settings!Heal(e) PROVE SettingsInv'
    <2>1. Settings!Defaults \in [Settings!Bands -> Scale] /\ Settings!Ordered(Settings!Defaults)
        BY ValuesAssumption DEF Settings!Defaults, Settings!Bands, Settings!Ordered
    <2>2. PICK r \in SettingRows :
             /\ settingOf' = [settingOf EXCEPT ![r] = "draft"]
             /\ thresholds' = [thresholds EXCEPT ![r] = Settings!Defaults]
        BY <1>2 DEF Settings!Heal
    <2>3. edit' = edit BY <1>2 DEF Settings!Heal
    <2>. QED BY <2>1, <2>2, <2>3 
<1>3. ASSUME NEW e \in Workers, Settings!BeginUpdate(e) PROVE SettingsInv'
    <2>1. PICK r \in SettingRows, p \in Settings!Patches :
             /\ Settings!Ordered(Settings!Merged(thresholds[r], p))
             /\ edit' = [edit EXCEPT ![e] = [row |-> {r}, patch |-> p, read |-> thresholds[r]]]
        BY <1>3 DEF Settings!BeginUpdate, Settings!Current
    <2>2. \A f \in Workers : f # e => edit'[f] = edit[f] BY <2>1
    <2>3. /\ edit'[e].row = {r} /\ edit'[e].patch = p /\ edit'[e].read = thresholds[r]
          /\ edit' = [f \in Workers |-> edit'[f]]
        BY <2>1
    <2>4. thresholds' = thresholds /\ settingOf' = settingOf BY <1>3 DEF Settings!BeginUpdate
    <2>. QED BY <2>1, <2>2, <2>3, <2>4
<1>4. ASSUME NEW e \in Workers, Settings!Update(e) PROVE SettingsInv'
    <2>1. edit' = [edit EXCEPT ![e] = Settings!Away] /\ settingOf' = settingOf
        BY <1>4 DEF Settings!Update
    <2>2. \A r \in SettingRows : r \in edit[e].row =>
            /\ Settings!Merged(edit[e].read, edit[e].patch) \in [Settings!Bands -> Scale]
            /\ Settings!Ordered(Settings!Merged(edit[e].read, edit[e].patch))
        BY DEF Settings!Merged, Settings!Patches
    <2>3. thresholds' = [r \in SettingRows |->
            IF r \in edit[e].row THEN Settings!Merged(edit[e].read, edit[e].patch) ELSE thresholds[r]]
        BY <1>4 DEF Settings!Update
    <2>. QED BY <1>0, <2>1, <2>2, <2>3
<1>5. CASE Settings!Publish BY <1>5 DEF Settings!Publish, Settings!Current
<1>. QED BY <1>1, <1>2, <1>3, <1>4, <1>5 DEF Settings!Next

-----------------------------------------------------------------------------
(***************************************************************************)
(* The rate limit                                                          *)
(***************************************************************************)
\* A window lets no more through than it counts, where Redis does the counting.
LimiterInv ==
    /\ production \in BOOLEAN /\ store \in {"absent", "up", "down"}
    /\ asked \in Nat /\ asked <= MaxRequests
    /\ shared \in Nat /\ shared <= asked
    /\ passed \in Nat /\ passed <= asked
    /\ local \in [Instances -> Nat] /\ \A i \in Instances : local[i] <= asked
    /\ production => store # "absent" /\ passed <= Limit /\ passed <= shared

LEMMA LimiterStep ==
    ASSUME LimiterInv, [Limiter!LimitNext]_limitVars
    PROVE  LimiterInv'
<1> USE ValuesAssumption DEF LimiterInv
<1>1. CASE UNCHANGED limitVars BY <1>1 DEF limitVars
<1>2. ASSUME NEW i \in Instances, Limiter!Request(i) PROVE LimiterInv'
    <2>1. asked < MaxRequests /\ asked' = asked + 1 /\ UNCHANGED <<production, store>>
        BY <1>2 DEF Limiter!Request
    <2>2. CASE Limiter!CountShared(i)
        BY <2>1, <2>2 DEF Limiter!CountShared, Limiter!Admit
    <2>3. CASE Limiter!FallBack(i)
        BY <2>1, <2>3 DEF Limiter!FallBack, Limiter!CountLocal, Limiter!Admit
    <2>4. CASE Limiter!Unavailable(i)
        BY <2>1, <2>4 DEF Limiter!Unavailable
    <2>. QED BY <1>2, <2>2, <2>3, <2>4 DEF Limiter!Request
<1>3. ASSUME NEW i \in Instances, Limiter!LocalWindowEnds(i) PROVE LimiterInv'
    BY <1>3 DEF Limiter!LocalWindowEnds
<1>4. CASE Limiter!Toggle BY <1>4 DEF Limiter!Toggle
<1>5. CASE Limiter!WindowEnds BY <1>5 DEF Limiter!WindowEnds
<1>. QED BY <1>1, <1>2, <1>3, <1>4, <1>5 DEF Limiter!LimitNext

-----------------------------------------------------------------------------
(***************************************************************************)
(* The import of needs                                                     *)
(***************************************************************************)
IntakeInv ==
    /\ key = [n \in Imported |-> key[n]] /\ origin = [n \in Imported |-> origin[n]]
    /\ file = [w \in Workers |-> file[w]] /\ seen = [w \in Workers |-> seen[w]]

\* While one import runs and nothing else happens, it has seen the key of every
\* need of the study.
IntakeCalm ==
    /\ \A w \in Workers : file[w] # <<>> =>
          \A n \in Intake!Present : key[n] \in seen[w]
    /\ Intake!ImportedOnce

LEMMA IntakeStep ==
    ASSUME IntakeInv, [Intake!Next]_importVars
    PROVE  IntakeInv'
<1> USE DEF IntakeInv, Intake!Insert, Intake!rows, Intake!RowDone
<1>1. CASE UNCHANGED importVars BY <1>1 DEF importVars
<1>2. ASSUME NEW w \in Workers, Intake!Import(w) PROVE IntakeInv'
    BY <1>2 DEF Intake!Import, Intake!SkipRow, Intake!ImportRow, Intake!RowFails, Intake!Crash
<1>3. ASSUME NEW w \in Workers, NEW f, Intake!BeginImport(w, f) PROVE IntakeInv'
    BY <1>3 DEF Intake!BeginImport
<1>4. CASE Intake!EnterByHand \/ Intake!Edit \/ Intake!Remove
    BY <1>4 DEF Intake!EnterByHand, Intake!Edit, Intake!Remove
<1>. QED BY <1>1, <1>2, <1>3, <1>4 DEF Intake!Next

\* An import inserts what it has not seen; a need that is entered, edited or
\* removed by hand is not one that was imported, and no import is under way.
LEMMA IntakeStaysCalm ==
    ASSUME IntakeInv, IntakeCalm, Intake!Next,
           \A w \in Workers : file[w] # <<>> => file'[w] # file[w]
    PROVE  IntakeCalm'
<1> USE DEF IntakeInv, IntakeCalm, Intake!Present, Intake!ImportedOnce
<1>1. ASSUME NEW w \in Workers, NEW f, Intake!BeginImport(w, f) PROVE IntakeCalm'
    <2>1. /\ UNCHANGED <<key, origin>> /\ seen'[w] = {key[n] : n \in Intake!Present}
          /\ \A v \in Workers : v # w => file'[v] = file[v]
        BY <1>1 DEF Intake!BeginImport, Intake!rows
    <2>. QED BY <2>1
<1>2. ASSUME NEW w \in Workers, Intake!SkipRow(w) \/ Intake!RowFails(w) \/ Intake!Crash(w)
      PROVE  IntakeCalm'
    <2>1. /\ UNCHANGED <<key, origin, seen>> /\ file[w] # <<>>
          /\ \A v \in Workers : v # w => file'[v] = file[v]
        BY <1>2 DEF Intake!SkipRow, Intake!RowFails, Intake!Crash, Intake!rows, Intake!RowDone
    <2>. QED BY <2>1
<1>3. ASSUME NEW w \in Workers, Intake!ImportRow(w) PROVE IntakeCalm'
    <2>1. /\ file[w] # <<>> /\ Head(file[w]) \notin seen[w]
          /\ seen'[w] = seen[w] \cup {Head(file[w])}
          /\ \A v \in Workers : v # w => file'[v] = file[v]
        BY <1>3 DEF Intake!ImportRow, Intake!RowDone
    <2>2. PICK n \in Imported : Intake!Insert(n, Head(file[w]), "file_upload")
        BY <1>3 DEF Intake!ImportRow
    <2>3. /\ origin[n] = "none" /\ origin'[n] = "file_upload" /\ key'[n] = Head(file[w])
          /\ \A m \in Imported : m # n => key'[m] = key[m] /\ origin'[m] = origin[m]
        BY <2>2 DEF Intake!Insert
    <2>4. \A v \in Workers : v # w => file'[v] = <<>> BY <2>1
    <2>. QED BY <2>1, <2>3, <2>4
<1>4. CASE Intake!EnterByHand \/ Intake!Edit \/ Intake!Remove
    <2>1. UNCHANGED <<file, seen>>
        BY <1>4 DEF Intake!EnterByHand, Intake!Edit, Intake!Remove
    <2>2. \E n \in Imported :
            /\ origin'[n] \in {"manual_entry", "edited", "none"}
            /\ \A m \in Imported : m # n => key'[m] = key[m] /\ origin'[m] = origin[m]
        BY <1>4 DEF Intake!EnterByHand, Intake!Edit, Intake!Remove, Intake!Insert
    <2>. QED BY <2>1, <2>2
<1>. QED BY <1>1, <1>2, <1>3, <1>4 DEF Intake!Next, Intake!Import

-----------------------------------------------------------------------------
(***************************************************************************)
(* The catalogue of domains                                                *)
(***************************************************************************)
DomainsInv ==
    /\ code = [x \in Domains!Entries |-> code[x]]
    /\ activating = [u \in Workers |-> activating[u]]
    /\ \A u \in Workers : activating[u] \subseteq SubDomains \cap Domains!Present
    /\ active \subseteq Domains!Present

\* Until requests overlap, the domain a request has found active still is.
DomainsCalm == \A u \in Workers : \A s \in activating[u] : DomainOf[s] \in active

LEMMA DomainsStep ==
    ASSUME DomainsInv, [Domains!Next]_domainVars
    PROVE  DomainsInv'
<1> USE DEF DomainsInv, Domains!Present, Domains!Entries
<1>1. CASE UNCHANGED domainVars BY <1>1 DEF domainVars
<1>2. ASSUME NEW x \in Domains!Entries, Domains!Create(x) \/ Domains!Recode(x)
      PROVE  DomainsInv'
    <2>1. PICK c \in Codes : code' = [code EXCEPT ![x] = {c}]
        BY <1>2 DEF Domains!Create, Domains!Recode
    <2>2. /\ active' \subseteq active \cup {x} /\ activating' = activating
        BY <1>2 DEF Domains!Create, Domains!Recode
    <2>. QED BY <2>1, <2>2
<1>3. ASSUME NEW d \in Themes, Domains!ActivateDomain(d) \/ Domains!DeactivateDomain(d)
      PROVE  DomainsInv'
    BY <1>3 DEF Domains!ActivateDomain, Domains!DeactivateDomain
<1>4. ASSUME NEW s \in SubDomains, Domains!DeactivateSubDomain(s) PROVE DomainsInv'
    BY <1>4 DEF Domains!DeactivateSubDomain
<1>5. ASSUME NEW u \in Workers, NEW s \in SubDomains, Domains!BeginActivate(u, s)
      PROVE  DomainsInv'
    BY <1>5 DEF Domains!BeginActivate
<1>6. ASSUME NEW u \in Workers, Domains!Activate(u) PROVE DomainsInv'
    BY <1>6 DEF Domains!Activate
<1>. QED BY <1>1, <1>2, <1>3, <1>4, <1>5, <1>6 DEF Domains!Next

LEMMA DomainsStayCalm ==
    ASSUME DomainsInv, DomainsCalm, Domains!Next,
           \A u \in Workers : activating[u] # {} => activating'[u] # activating[u]
    PROVE  DomainsCalm'
<1> USE DEF DomainsInv, DomainsCalm
<1>1. CASE activating' = activating BY <1>1
<1>2. ASSUME NEW u \in Workers, NEW s \in SubDomains, Domains!BeginActivate(u, s)
      PROVE  DomainsCalm'
    <2>1. activating' = [activating EXCEPT ![u] = {s}] /\ active' = active /\ DomainOf[s] \in active
        BY <1>2 DEF Domains!BeginActivate
    <2>. QED BY <2>1
<1>3. ASSUME NEW u \in Workers, Domains!Activate(u) PROVE DomainsCalm'
    BY <1>3 DEF Domains!Activate
<1>. QED BY <1>1, <1>2, <1>3
         DEF Domains!Next, Domains!Create, Domains!Recode, Domains!ActivateDomain,
             Domains!DeactivateDomain, Domains!DeactivateSubDomain

\* A domain that is deactivated takes every sub-domain along that has a row,
\* and whatever is active has one.
LEMMA StrandedStep ==
    ASSUME DomainsInv, DomainsCalm, [Domains!Next]_domainVars
    PROVE  Domains!NoneStranded
<1> USE RowsAssumption DEF DomainsInv, Domains!Present, Domains!NoneStranded, Domains!Stranded
<1>1. CASE UNCHANGED domainVars BY <1>1 DEF domainVars
<1>2. ASSUME NEW x \in Domains!Entries, Domains!Create(x) PROVE Domains!NoneStranded
    <2>1. CASE x \in SubDomains BY <1>2, <2>1
    <2>2. CASE x \in Themes BY <1>2, <2>2 DEF Domains!Create
    <2>. QED BY <2>1, <2>2 DEF Domains!Entries
<1>3. ASSUME NEW x \in Domains!Entries, Domains!Recode(x) PROVE Domains!NoneStranded
    BY <1>3 DEF Domains!Recode
<1>4. ASSUME NEW d \in Themes, Domains!ActivateDomain(d) PROVE Domains!NoneStranded
    BY <1>4 DEF Domains!ActivateDomain
<1>5. ASSUME NEW d \in Themes, Domains!DeactivateDomain(d) PROVE Domains!NoneStranded
    BY <1>5 DEF Domains!DeactivateDomain, Domains!Below
<1>6. ASSUME NEW s \in SubDomains, Domains!DeactivateSubDomain(s) PROVE Domains!NoneStranded
    BY <1>6 DEF Domains!DeactivateSubDomain
<1>7. ASSUME NEW u \in Workers, NEW s \in SubDomains, Domains!BeginActivate(u, s)
      PROVE  Domains!NoneStranded
    BY <1>7 DEF Domains!BeginActivate
<1>8. ASSUME NEW u \in Workers, Domains!Activate(u) PROVE Domains!NoneStranded
    BY <1>8 DEF Domains!Activate, DomainsCalm
<1>. QED BY <1>1, <1>2, <1>3, <1>4, <1>5, <1>6, <1>7, <1>8 DEF Domains!Next

-----------------------------------------------------------------------------
(***************************************************************************)
(* The members of the organisation                                         *)
(***************************************************************************)
Accounts == {Members!Absent} \cup [role : Members!Roles, status : {"invited", "active", "disabled"}]

\* What a request of a system administrator may be about to write.
Well(t) ==
    /\ t.at \in {"free", "approve", "assign", "role", "status"}
    /\ t.at = "role" => t.value \in Members!Roles
    /\ t.at = "status" => t.value \in {"active", "disabled"}

MembersInv ==
    /\ member \in [People -> Accounts]
    /\ admin = [a \in Workers |-> admin[a]]
    /\ \A a \in Workers : Well(admin[a])
    /\ org \in [exists : BOOLEAN, active : BOOLEAN, approved : BOOLEAN]

\* Until requests overlap, the account an appointment has read is still there
\* and in the role that was read.
MembersCalm ==
    \A a \in Workers : admin[a].at = "assign" =>
        /\ admin[a].whom \in People /\ Members!Here(admin[a].whom)
        /\ admin[a].role = member[admin[a].whom].role

LEMMA MembersInit == Members!MemberInit => MembersInv /\ MembersCalm
BY DEF Members!MemberInit, MembersInv, MembersCalm, Accounts, Well, Members!Free

LEMMA PutTyped ==
    ASSUME MembersInv, NEW p \in People, NEW role \in Members!Roles,
           NEW st \in {"invited", "active", "disabled"}, Members!Put(p, role, st)
    PROVE  member' \in [People -> Accounts]
BY DEF Members!Put, MembersInv, Accounts

\* The promotion of one account and the demotion of the others.
LEMMA AssignTyped ==
    ASSUME MembersInv, NEW a \in Workers, Members!Assign(a)
    PROVE  member' \in [People -> Accounts]
<1> DEFINE p == admin[a].whom
           promotes == admin[a].role # "admin"
<1>1. CASE promotes /\ ~Members!Here(p)
    BY <1>1 DEF Members!Assign, Members!AssignAs, MembersInv
<1>2. CASE ~(promotes /\ ~Members!Here(p))
    <2>1. member' = [q \in People |->
                     IF q = p /\ promotes THEN [member[q] EXCEPT !.role = "admin"]
                     ELSE IF q \in Members!NgoAdmin \ {p} THEN [member[q] EXCEPT !.role = "officer"]
                     ELSE member[q]]
        BY <1>2 DEF Members!Assign, Members!AssignAs
    <2>2. ASSUME NEW q \in People, NEW r \in {"admin", "officer"}, member[q] # Members!Absent
          PROVE  [member[q] EXCEPT !.role = r] \in Accounts
        BY <2>2 DEF MembersInv, Accounts, Members!Roles
    <2>3. \A q \in Members!NgoAdmin : member[q] # Members!Absent
        BY DEF Members!NgoAdmin, Members!Absent
    <2>. QED BY <1>2, <2>1, <2>2, <2>3 DEF MembersInv, Members!Here
<1>. QED BY <1>1, <1>2

\* A step of one request, and the others stay as they are.
LEMMA TaskTyped ==
    ASSUME MembersInv, NEW a \in Workers, NEW t, Well(t), admin' = [admin EXCEPT ![a] = t]
    PROVE  /\ admin' = [b \in Workers |-> admin'[b]] /\ \A b \in Workers : Well(admin'[b])
           /\ admin'[a] = t /\ \A b \in Workers : b # a => admin'[b] = admin[b]
<1>1. admin' = [b \in Workers |-> IF b = a THEN t ELSE admin[b]]
    BY DEF MembersInv
<1>. QED BY <1>1 DEF MembersInv

LEMMA TasksTyped ==
    ASSUME MembersInv, [Members!MemberNext]_memberVars
    PROVE  admin' = [b \in Workers |-> admin'[b]] /\ \A b \in Workers : Well(admin'[b])
<1>1. CASE admin' = admin BY <1>1 DEF MembersInv
<1>2. Well(Members!Free) BY DEF Well, Members!Free
<1>3. ASSUME NEW a \in Workers, Members!BeginApprove(a)
      PROVE  \E t : Well(t) /\ admin' = [admin EXCEPT ![a] = t]
    BY <1>3 DEF Members!BeginApprove, Well
<1>4. ASSUME NEW a \in Workers, Members!Approve(a) \/ Members!Assign(a) \/ Members!Change(a)
      PROVE  \E t : Well(t) /\ admin' = [admin EXCEPT ![a] = t]
    BY <1>2, <1>4 DEF Members!Approve, Members!Assign, Members!AssignAs, Members!Change
<1>5. ASSUME NEW a \in Workers, NEW p \in People, Members!BeginAssign(a, p)
      PROVE  \E t : Well(t) /\ admin' = [admin EXCEPT ![a] = t]
    <2> DEFINE t == [at |-> "assign", whom |-> p,
                     role |-> IF Members!Here(p) THEN member[p].role ELSE "admin"]
    <2>1. t.at = "assign" OBVIOUS
    <2>2. Well(t) BY <2>1 DEF Well
    <2>3. admin' = [admin EXCEPT ![a] = t] BY <1>5 DEF Members!BeginAssign
    <2>. QED BY <2>2, <2>3
<1>6. ASSUME NEW a \in Workers, NEW p \in People, NEW v \in {"officer", "cross"},
             Members!BeginChange(a, p, "role", v)
      PROVE  \E t : Well(t) /\ admin' = [admin EXCEPT ![a] = t]
    BY <1>6 DEF Members!BeginChange, Well, Members!Roles
<1>7. ASSUME NEW a \in Workers, NEW p \in People, NEW v \in {"active", "disabled"},
             Members!BeginChange(a, p, "status", v)
      PROVE  \E t : Well(t) /\ admin' = [admin EXCEPT ![a] = t]
    BY <1>7 DEF Members!BeginChange, Well
<1>8. \/ admin' = admin
      \/ \E a \in Workers : \E t : Well(t) /\ admin' = [admin EXCEPT ![a] = t]
    BY <1>3, <1>4, <1>5, <1>6, <1>7
       DEF memberVars, Members!MemberNext, Members!Signup, Members!CreateWithAdmin,
              Members!Join,
           Members!UpdateOrgStatus, Members!Invite, Members!Update, Members!Remove,
           Members!CreateForOrg
<1>. QED BY <1>1, <1>8, TaskTyped

\* The records of the accounts, one write at a time.
LEMMA AccountsTyped ==
    ASSUME MembersInv, [Members!MemberNext]_memberVars
    PROVE  member' \in [People -> Accounts]
<1>1. CASE UNCHANGED memberVars BY <1>1 DEF memberVars, MembersInv
<1>2. ASSUME NEW p \in People, Members!Signup(p) \/ Members!CreateWithAdmin(p)
      PROVE  member' \in [People -> Accounts]
    BY <1>2, PutTyped
       DEF Members!Signup, Members!CreateWithAdmin, MembersInv, Members!Roles
<1>3. ASSUME NEW p \in People, Members!Join(p) PROVE member' \in [People -> Accounts]
    <2>1. member[p].role \in Members!Roles
        BY <1>3 DEF Members!Join, MembersInv, Accounts, Members!Absent
    <2>. QED BY <1>3, <2>1, PutTyped DEF Members!Join
<1>4. CASE Members!UpdateOrgStatus BY <1>4 DEF Members!UpdateOrgStatus, MembersInv
<1>5. ASSUME NEW a \in Workers, Members!BeginApprove(a) \/ Members!Approve(a)
      PROVE  member' \in [People -> Accounts]
    BY <1>5 DEF Members!BeginApprove, Members!Approve, MembersInv
<1>6. ASSUME NEW a \in Workers, Members!Assign(a) PROVE member' \in [People -> Accounts]
    BY <1>6, AssignTyped
<1>7. ASSUME NEW a \in Workers, Members!Change(a) PROVE member' \in [People -> Accounts]
    <2>1. /\ admin[a].at = "role" => admin[a].value \in Members!Roles
          /\ admin[a].at = "status" => admin[a].value \in {"active", "disabled"}
          /\ admin[a].at \in {"role", "status"}
        BY <1>7 DEF Members!Change, MembersInv, Well
    <2>2. CASE ~Members!Here(admin[a].whom)
        BY <1>7, <2>2 DEF Members!Change, MembersInv
    <2>3. CASE Members!Here(admin[a].whom)
        <3> DEFINE p == admin[a].whom
        <3>1. member' = [member EXCEPT ![p] = [member[p] EXCEPT ![admin[a].at] = admin[a].value]]
            BY <1>7, <2>3 DEF Members!Change
        <3>2. p \in People => [member[p] EXCEPT ![admin[a].at] = admin[a].value] \in Accounts
            BY <2>1, <2>3 DEF Members!Here, MembersInv, Accounts
        <3>. QED BY <3>1, <3>2 DEF MembersInv
    <2>. QED BY <2>2, <2>3
<1>8. ASSUME NEW c \in People, NEW p \in People, NEW r \in Members!Roles,
             Members!Invite(c, p, r)
      PROVE  member' \in [People -> Accounts]
    BY <1>8, PutTyped DEF Members!Invite
<1>9. ASSUME NEW c \in People, NEW p \in People, NEW r \in Members!Roles,
             NEW st \in {"invited", "active", "disabled"}, Members!Update(c, p, r, st)
      PROVE  member' \in [People -> Accounts]
    BY <1>9, PutTyped DEF Members!Update
<1>10. ASSUME NEW c \in People, NEW p \in People, Members!Remove(c, p)
       PROVE  member' \in [People -> Accounts]
    BY <1>10 DEF Members!Remove, MembersInv, Accounts
<1>11. ASSUME NEW p \in People, NEW r \in Members!Roles, Members!CreateForOrg(p, r)
       PROVE  member' \in [People -> Accounts]
    BY <1>11, PutTyped DEF Members!CreateForOrg
<1>12. ASSUME NEW a \in Workers, NEW p \in People, Members!BeginAssign(a, p)
       PROVE  member' \in [People -> Accounts]
    BY <1>12, PutTyped DEF Members!BeginAssign, MembersInv, Members!Roles
<1>13. ASSUME NEW a \in Workers, NEW p \in People, NEW what, NEW v,
              Members!BeginChange(a, p, what, v)
       PROVE  member' \in [People -> Accounts]
    BY <1>13 DEF Members!BeginChange, MembersInv
<1>. QED BY <1>1, <1>2, <1>3, <1>4, <1>5, <1>6, <1>7, <1>8, <1>9, <1>10, <1>11, <1>12, <1>13
         DEF Members!MemberNext

LEMMA MembersStep ==
    ASSUME MembersInv, [Members!MemberNext]_memberVars
    PROVE  MembersInv'
<1>1. org' \in [exists : BOOLEAN, active : BOOLEAN, approved : BOOLEAN]
    <2>1. \A a \in Workers : Members!Approve(a) =>
             org' \in [exists : BOOLEAN, active : BOOLEAN, approved : BOOLEAN]
        BY ZenonT(60) DEF Members!Approve, MembersInv
    <2>2. Members!UpdateOrgStatus => org' \in [exists : BOOLEAN, active : BOOLEAN, approved : BOOLEAN]
        BY DEF Members!UpdateOrgStatus, MembersInv
    <2>3. ASSUME NEW p \in People, Members!Signup(p) \/ Members!CreateWithAdmin(p)
          PROVE  org' \in [exists : BOOLEAN, active : BOOLEAN, approved : BOOLEAN]
        <3>1. \/ org' = [exists |-> TRUE, active |-> FALSE, approved |-> FALSE]
              \/ org' = [exists |-> TRUE, active |-> TRUE, approved |-> TRUE]
            BY <2>3 DEF Members!Signup, Members!CreateWithAdmin
        <3>2. \A e, v, q \in BOOLEAN : [exists |-> e, active |-> v, approved |-> q]
                                       \in [exists : BOOLEAN, active : BOOLEAN, approved : BOOLEAN]
            OBVIOUS
        <3>3. TRUE \in BOOLEAN /\ FALSE \in BOOLEAN OBVIOUS
        <3>. QED BY ONLY <3>1, <3>2, <3>3, Zenon
    <2>4. \/ org' = org \/ Members!UpdateOrgStatus \/ \E a \in Workers : Members!Approve(a)
          \/ \E p \in People : Members!Signup(p) \/ Members!CreateWithAdmin(p)
        BY DEF memberVars, Members!MemberNext, Members!Join, Members!BeginApprove,
            Members!Assign,
               Members!AssignAs, Members!Change, Members!Invite, Members!Update, Members!Remove,
               Members!CreateForOrg, Members!BeginAssign, Members!BeginChange
    <2>. QED BY <2>1, <2>2, <2>3, <2>4 DEF MembersInv
<1>. QED BY <1>1, TasksTyped, AccountsTyped DEF MembersInv

LEMMA MembersStayCalm ==
    ASSUME MembersInv, MembersCalm, Members!MemberNext,
           \A a \in Workers : admin[a] # Members!Free => admin'[a] # admin[a]
    PROVE  MembersCalm'
<1>0. Members!Free.at = "free" BY DEF Members!Free
<1>1. CASE admin' = admin BY <1>0, <1>1 DEF MembersCalm
<1>2. ASSUME NEW a \in Workers, NEW t, t.at # "assign", admin' = [admin EXCEPT ![a] = t]
      PROVE  MembersCalm'
    BY <1>0, <1>2 DEF MembersCalm, MembersInv
<1>3. ASSUME NEW a \in Workers, NEW p \in People, Members!BeginAssign(a, p)
      PROVE  MembersCalm'
    <2> DEFINE r == IF Members!Here(p) THEN member[p].role ELSE "admin"
    <2>1. admin' = [b \in Workers |-> IF b = a THEN [at |-> "assign", whom |-> p, role |-> r]
                                                ELSE admin[b]]
        BY <1>3 DEF Members!BeginAssign, MembersInv
    <2>2. member'[p].role = r /\ member'[p] # Members!Absent
        <3>1. CASE Members!Here(p) BY <1>3, <3>1 DEF Members!BeginAssign, Members!Here
        <3>2. CASE ~Members!Here(p)
            BY <1>3, <3>2 DEF Members!BeginAssign, Members!Put, Members!Absent, MembersInv
        <3>. QED BY <3>1, <3>2
    <2>3. admin'[a].whom = p /\ admin'[a].role = r BY <2>1
    <2>4. \A b \in Workers : b # a => admin'[b] = Members!Free BY <2>1
    <2>. QED BY <1>0, <2>2, <2>3, <2>4 DEF MembersCalm, Members!Here
<1>4. ASSUME NEW a \in Workers,
             \/ Members!BeginApprove(a) \/ Members!Approve(a) \/ Members!Assign(a) \/ Members!Change(a)
             \/ \E p \in People :
                   \/ \E v \in {"officer", "cross"} : Members!BeginChange(a, p, "role", v)
                   \/ \E v \in {"active", "disabled"} : Members!BeginChange(a, p, "status", v)
      PROVE  \E t : t.at # "assign" /\ admin' = [admin EXCEPT ![a] = t]
    BY <1>0, <1>4 DEF Members!BeginApprove, Members!Approve, Members!Assign, Members!AssignAs,
                      Members!Change, Members!BeginChange
<1>5. \/ admin' = admin
      \/ \E a \in Workers : \E t : t.at # "assign" /\ admin' = [admin EXCEPT ![a] = t]
      \/ \E a \in Workers, p \in People : Members!BeginAssign(a, p)
    BY <1>4 DEF Members!MemberNext, Members!Signup, Members!CreateWithAdmin, Members!Join,
                Members!UpdateOrgStatus, Members!Invite, Members!Update, Members!Remove,
                Members!CreateForOrg
<1>. QED BY <1>1, <1>2, <1>3, <1>5

\* The transaction that appoints demotes every other administrator, and the
\* account it appoints is there and was in the role that was read.
LEMMA AppointmentStep ==
    ASSUME MembersInv, MembersCalm, [Members!MemberNext]_memberVars,
           NEW a \in Workers, Members!Appoints(a)
    PROVE  Members!OneAppointed(a)
<1> DEFINE p == admin[a].whom
           promotes == admin[a].role # "admin"
<1>0. Members!Free.at = "free" BY DEF Members!Free
<1>1. admin[a].at = "assign" /\ admin'[a] # admin[a] BY <1>0 DEF Members!Appoints
<1>2. Members!Assign(a)
    <2>1. ASSUME NEW b \in Workers, NEW t, admin' = [admin EXCEPT ![b] = t]
          PROVE  b = a /\ t = Members!Free
        BY <1>1, <2>1 DEF Members!Appoints, MembersInv
    <2>2. ASSUME NEW b \in Workers, Members!BeginApprove(b) \/ Members!Approve(b) \/ Members!Change(b)
          PROVE  FALSE
        BY <1>0, <1>1, <2>1, <2>2
           DEF Members!BeginApprove, Members!Approve, Members!Change
    <2>3. ASSUME NEW b \in Workers, Members!Assign(b) PROVE b = a
        BY <2>1, <2>3 DEF Members!Assign, Members!AssignAs
    <2>4. ASSUME NEW b \in Workers, NEW p0 \in People, Members!BeginAssign(b, p0) PROVE FALSE
        BY <1>0, <1>1, <2>1, <2>4 DEF Members!BeginAssign
    <2>5. ASSUME NEW b \in Workers, NEW p0 \in People, NEW what, NEW v,
                 Members!BeginChange(b, p0, what, v)
          PROVE  FALSE
        BY <1>0, <1>1, <2>1, <2>5 DEF Members!BeginChange
    <2>6. admin' # admin BY <1>1
    <2>. QED BY <2>2, <2>3, <2>4, <2>5, <2>6
             DEF memberVars, Members!MemberNext, Members!Signup, Members!CreateWithAdmin,
                 Members!Join, Members!UpdateOrgStatus, Members!Invite, Members!Update,
                 Members!Remove, Members!CreateForOrg
<1>3. p \in People /\ Members!Here(p) /\ admin[a].role = member[p].role
    BY <1>1 DEF MembersCalm
<1>4. member' = [q \in People |->
                 IF q = p /\ promotes THEN [member[q] EXCEPT !.role = "admin"]
                 ELSE IF q \in Members!NgoAdmin \ {p} THEN [member[q] EXCEPT !.role = "officer"]
                 ELSE member[q]]
    BY <1>2, <1>3 DEF Members!Assign, Members!AssignAs
<1>5. \A q \in People : member[q] # Members!Absent =>
          /\ [member[q] EXCEPT !.role = "admin"].role = "admin"
          /\ [member[q] EXCEPT !.role = "officer"].role = "officer"
    BY DEF MembersInv, Accounts
<1>6. member'[p].role = "admin" BY <1>3, <1>4, <1>5 DEF Members!Here
<1>7. ASSUME NEW q \in People, q # p PROVE member'[q].role # "admin"
    <2>1. CASE member[q].role = "admin"
        <3>1. member[q] # Members!Absent BY <2>1 DEF Members!Absent
        <3>. QED BY <1>4, <1>5, <1>7, <2>1, <3>1 DEF Members!NgoAdmin
    <2>2. CASE member[q].role # "admin"
        BY <1>4, <1>7, <2>2 DEF Members!NgoAdmin
    <2>. QED BY <2>1, <2>2
<1>. QED BY <1>3, <1>6, <1>7 DEF Members!OneAppointed

-----------------------------------------------------------------------------
(***************************************************************************)
(* The compiled report                                                     *)
(***************************************************************************)
\* The review of the row a request is about to write is still in the row: no
\* handler ever clears reviewedAt or publishedAt.
Examined(s) == verdict[s] \in Ncnp!Outcomes => reviewedBy[s]

NcnpInv ==
    /\ Ncnp!TypeOK
    /\ \A s \in Snapshots : Examined(s)
    /\ \A s \in Snapshots : verdict[s] = "released" => publishedBy[s]
    /\ \A d \in Workers : desk[d] # Ncnp!Clear /\ desk[d].to = "released"
                            => reviewedBy[desk[d].row]
    /\ Ncnp!ExportedIsReviewed

LEMMA DeskRow ==
    ASSUME Ncnp!TypeOK, NEW d \in Workers, desk[d] # Ncnp!Clear
    PROVE  desk[d].row \in Snapshots /\ desk[d].to \in Ncnp!Outcomes
BY DEF Ncnp!TypeOK

LEMMA NcnpWritesTyped ==
    ASSUME Ncnp!TypeOK, NEW d \in Workers, Ncnp!Write(d)
    PROVE  Ncnp!TypeOK'
<1> DEFINE s == desk[d].row
<1>1. s \in Snapshots /\ desk[d].to \in Ncnp!Outcomes BY DeskRow DEF Ncnp!Write
<1>2. verdict' \in [Snapshots -> {"none", "draft"} \cup Ncnp!Outcomes]
    BY <1>1 DEF Ncnp!Write, Ncnp!TypeOK
<1>3. reviewedBy' \in [Snapshots -> BOOLEAN]
    BY <1>1 DEF Ncnp!Write, Ncnp!TypeOK
<1>4. publishedBy' \in [Snapshots -> BOOLEAN]
    BY <1>1 DEF Ncnp!Write, Ncnp!TypeOK
<1>5. desk' \in [Workers -> {Ncnp!Clear} \cup [to : Ncnp!Outcomes, row : Snapshots]]
    BY DEF Ncnp!Write, Ncnp!TypeOK
<1>. QED BY <1>2, <1>3, <1>4, <1>5 DEF Ncnp!Write, Ncnp!TypeOK

LEMMA NcnpTyped ==
    ASSUME Ncnp!TypeOK, [Ncnp!Next]_ncnpVars
    PROVE  Ncnp!TypeOK'
<1>1. CASE UNCHANGED ncnpVars BY <1>1 DEF Ncnp!TypeOK, ncnpVars
<1>2. ASSUME NEW s \in Snapshots, Ncnp!Generate(s) PROVE Ncnp!TypeOK'
    BY <1>2 DEF Ncnp!Generate, Ncnp!TypeOK
<1>3. ASSUME Ncnp!ExportLive \/ \E s \in Snapshots : Ncnp!Export(s) PROVE Ncnp!TypeOK'
    BY <1>3 DEF Ncnp!Export, Ncnp!ExportLive, Ncnp!TypeOK
<1>4. ASSUME NEW d \in Workers, NEW s \in Snapshots, Ncnp!Begin(d, s) PROVE Ncnp!TypeOK'
    BY <1>4 DEF Ncnp!Begin, Ncnp!TypeOK
<1>5. ASSUME NEW d \in Workers, Ncnp!Write(d) PROVE Ncnp!TypeOK'
    BY <1>5, NcnpWritesTyped
<1>6. ASSUME NEW d \in Workers, Ncnp!Fail(d) PROVE Ncnp!TypeOK'
    BY <1>6 DEF Ncnp!Fail, Ncnp!TypeOK
<1>. QED BY <1>1, <1>2, <1>3, <1>4, <1>5, <1>6 DEF Ncnp!Next

\* A request that is about to release a snapshot has read it as approved, and
\* an approved snapshot has been reviewed.
LEMMA NcnpBeginKeeps ==
    ASSUME NcnpInv, NEW d \in Workers, NEW s \in Snapshots, Ncnp!Begin(d, s)
    PROVE  NcnpInv'
<1>1. Ncnp!TypeOK' BY NcnpTyped DEF NcnpInv, Ncnp!Next
<1>2. PICK to \in Ncnp!Outcomes : Ncnp!Ready(s, to) /\ desk' = [desk EXCEPT ![d] = [to |-> to, row |-> s]]
    BY DEF Ncnp!Begin
<1>3. to = "released" => reviewedBy[s]
    BY <1>2 DEF NcnpInv, Ncnp!Ready, Examined, Ncnp!Outcomes
<1>4. ASSUME NEW e \in Workers, desk'[e] # Ncnp!Clear, desk'[e].to = "released"
      PROVE  reviewedBy[desk'[e].row]
    BY <1>2, <1>3, <1>4 DEF NcnpInv, Ncnp!TypeOK
<1>. QED BY <1>1, <1>4 DEF Ncnp!Begin, NcnpInv, Examined, Ncnp!ExportedIsReviewed

LEMMA NcnpWriteKeeps ==
    ASSUME NcnpInv, NEW d \in Workers, Ncnp!Write(d)
    PROVE  NcnpInv'
<1> DEFINE s == desk[d].row
           published == desk[d].to = "released"
<1>1. Ncnp!TypeOK' BY NcnpTyped DEF NcnpInv, Ncnp!Next
<1>2. s \in Snapshots /\ desk[d].to \in Ncnp!Outcomes
    BY DeskRow DEF Ncnp!Write, NcnpInv
<1>3. /\ verdict' = [verdict EXCEPT ![s] = desk[d].to]
      /\ reviewedBy' = [reviewedBy EXCEPT ![s] = reviewedBy[s] \/ ~published]
      /\ publishedBy' = [publishedBy EXCEPT ![s] = publishedBy[s] \/ published]
      /\ desk' = [desk EXCEPT ![d] = Ncnp!Clear] /\ exported' = exported
    BY DEF Ncnp!Write
<1>4. reviewedBy'[s]
    <2>1. CASE published BY <1>2, <1>3, <2>1 DEF Ncnp!Write, NcnpInv, Ncnp!TypeOK
    <2>2. CASE ~published BY <1>2, <1>3, <2>2 DEF NcnpInv, Ncnp!TypeOK
    <2>. QED BY <2>1, <2>2
<1>5. publishedBy'[s] <=> publishedBy[s] \/ published
    BY <1>2, <1>3 DEF NcnpInv, Ncnp!TypeOK
<1>6. \A t \in Snapshots : t # s => /\ verdict'[t] = verdict[t]
                                    /\ reviewedBy'[t] = reviewedBy[t]
                                    /\ publishedBy'[t] = publishedBy[t]
    BY <1>2, <1>3 DEF NcnpInv, Ncnp!TypeOK
<1>7. verdict'[s] = desk[d].to BY <1>2, <1>3 DEF NcnpInv, Ncnp!TypeOK
<1>8. \A t \in Snapshots : reviewedBy[t] => reviewedBy'[t] BY <1>4, <1>6
<1>9. \A t \in Snapshots : publishedBy[t] => publishedBy'[t] BY <1>5, <1>6
<1>10. \A t \in Snapshots : Examined(t)' BY <1>4, <1>6 DEF NcnpInv, Examined
<1>11. \A t \in Snapshots : verdict'[t] = "released" => publishedBy'[t]
    BY <1>5, <1>6, <1>7 DEF NcnpInv
<1>12. ASSUME NEW e \in Workers, desk'[e] # Ncnp!Clear, desk'[e].to = "released"
       PROVE  reviewedBy'[desk'[e].row]
    <2>1. e # d /\ desk'[e] = desk[e] BY <1>3, <1>12 DEF NcnpInv, Ncnp!TypeOK
    <2>2. desk[e].row \in Snapshots BY <2>1, <1>12, DeskRow DEF NcnpInv
    <2>. QED BY <2>1, <2>2, <1>12, <1>8 DEF NcnpInv
<1>13. Ncnp!ExportedIsReviewed'
    BY <1>3, <1>4, <1>6, <1>8, <1>9 DEF NcnpInv, Ncnp!ExportedIsReviewed, Ncnp!TypeOK
<1>. QED BY <1>1, <1>10, <1>11, <1>12, <1>13 DEF NcnpInv

LEMMA NcnpStep ==
    ASSUME NcnpInv, [Ncnp!Next]_ncnpVars
    PROVE  NcnpInv'
<1>1. Ncnp!TypeOK' BY NcnpTyped DEF NcnpInv
<1>2. CASE UNCHANGED ncnpVars
    BY <1>1, <1>2 DEF NcnpInv, Examined, Ncnp!ExportedIsReviewed, ncnpVars
<1>3. ASSUME NEW s \in Snapshots, Ncnp!Generate(s) PROVE NcnpInv'
    <2>1. \A t \in Snapshots : verdict'[t] = IF t = s THEN "draft" ELSE verdict[t]
        BY <1>3 DEF Ncnp!Generate, NcnpInv, Ncnp!TypeOK
    <2>. QED BY <1>1, <1>3, <2>1
             DEF Ncnp!Generate, NcnpInv, Examined, Ncnp!Outcomes, Ncnp!ExportedIsReviewed
<1>4. ASSUME NEW s \in Snapshots, Ncnp!Export(s) PROVE NcnpInv'
    <2>1. reviewedBy[s] /\ publishedBy[s]
        BY <1>4 DEF Ncnp!Export, NcnpInv, Examined, Ncnp!Outcomes
    <2>. QED BY <1>1, <1>4, <2>1 DEF Ncnp!Export, NcnpInv, Examined, Ncnp!ExportedIsReviewed
<1>5. ASSUME NEW d \in Workers, NEW s \in Snapshots, Ncnp!Begin(d, s) PROVE NcnpInv'
    BY <1>5, NcnpBeginKeeps
<1>6. ASSUME NEW d \in Workers, Ncnp!Write(d) PROVE NcnpInv'
    BY <1>6, NcnpWriteKeeps
<1>7. ASSUME NEW d \in Workers, Ncnp!Fail(d) PROVE NcnpInv'
    BY <1>1, <1>7 DEF Ncnp!Fail, NcnpInv, Examined, Ncnp!ExportedIsReviewed, Ncnp!TypeOK
<1>8. CASE Ncnp!ExportLive
    BY <1>1, <1>8 DEF Ncnp!ExportLive, NcnpInv, Examined, Ncnp!ExportedIsReviewed
<1>. QED BY <1>2, <1>3, <1>4, <1>5, <1>6, <1>7, <1>8 DEF Ncnp!Next

LEMMA NcnpInit == Ncnp!Init => NcnpInv
BY DEF Ncnp!Init, NcnpInv, Ncnp!TypeOK, Examined, Ncnp!Outcomes, Ncnp!ExportedIsReviewed

\* Until requests overlap, the row a request writes is as it was read.
NcnpCalm == \A d \in Workers : desk[d] # Ncnp!Clear => Ncnp!Ready(desk[d].row, desk[d].to)

LEMMA NcnpStaysCalm ==
    ASSUME NcnpInv, NcnpCalm, Ncnp!Next,
           \A d \in Workers : desk[d] # Ncnp!Clear => desk'[d] # desk[d]
    PROVE  NcnpCalm'
<1> USE DEF NcnpInv, Ncnp!TypeOK, NcnpCalm
<1>1. CASE desk' = desk BY <1>1
<1>2. ASSUME NEW d \in Workers, desk' = [desk EXCEPT ![d] = Ncnp!Clear] PROVE NcnpCalm'
    BY <1>2
<1>3. ASSUME NEW d \in Workers, NEW s \in Snapshots, Ncnp!Begin(d, s) PROVE NcnpCalm'
    <2>1. PICK to \in Ncnp!Outcomes :
             Ncnp!Ready(s, to) /\ desk' = [desk EXCEPT ![d] = [to |-> to, row |-> s]]
        BY <1>3 DEF Ncnp!Begin
    <2>2. verdict' = verdict BY <1>3 DEF Ncnp!Begin
    <2>. QED BY <2>1, <2>2 DEF Ncnp!Ready
<1>. QED BY <1>1, <1>2, <1>3
   DEF Ncnp!Next, Ncnp!Generate, Ncnp!Export, Ncnp!ExportLive, Ncnp!Write, Ncnp!Fail

\* No handler starts from released.
LEMMA ReleasedStep ==
    ASSUME NcnpInv, NcnpCalm, [Ncnp!Next]_ncnpVars, NEW s \in Snapshots
    PROVE  Ncnp!ReleasedStays(s)
<1> USE DEF Ncnp!ReleasedStays
<1>1. ASSUME NEW d \in Workers, Ncnp!Write(d) PROVE Ncnp!ReleasedStays(s)
    <2>1. desk[d].row \in Snapshots /\ verdict[desk[d].row] # "released"
        BY <1>1, DeskRow DEF Ncnp!Write, NcnpInv, NcnpCalm, Ncnp!Ready
    <2>2. verdict' = [verdict EXCEPT ![desk[d].row] = desk[d].to] BY <1>1 DEF Ncnp!Write
    <2>. QED BY <2>1, <2>2 DEF NcnpInv, Ncnp!TypeOK
<1>2. ASSUME NEW t \in Snapshots, Ncnp!Generate(t) PROVE Ncnp!ReleasedStays(s)
    BY <1>2 DEF Ncnp!Generate, NcnpInv, Ncnp!TypeOK
<1>. QED BY <1>1, <1>2
   DEF Ncnp!Next, ncnpVars, Ncnp!Begin, Ncnp!Fail, Ncnp!Export, Ncnp!ExportLive

-----------------------------------------------------------------------------
(***************************************************************************)
(* One report                                                              *)
(***************************************************************************)
\* What a request has read stays true of the report, since no handler takes a
\* confirmation or a review back.
BegunInOrder ==
    \A w \in Workers :
        /\ pc[w] \in {"approving", "rejecting", "archiving", "asking", "deciding"} => confirmed
        /\ pc[w] \in {"archiving", "asking", "deciding"} => reviewed

\* The inductive invariant.
ReportInv == TypeOK /\ TwoSteps /\ BegunInOrder /\ SharedWasReviewed

\* The part of it that belongs to the workers.
WorkersOK == pc \in [Workers -> Steps] /\ about \in [Workers -> SUBSET Asks]

-----------------------------------------------------------------------------
\* A draft satisfies the invariant.
LEMMA ReportInit == Init => ReportInv
  BY DEF Init, ReportInv, TypeOK, TwoSteps, BegunInOrder, SharedWasReviewed,
         Statuses, Steps, Exportable

\* A worker that answers keeps its types, and nobody begins anything.
LEMMA AnswerOK ==
    ASSUME NEW w \in Workers, ReportInv, Answer(w)
    PROVE  /\ WorkersOK'
           /\ \A v \in Workers : pc'[v] # "idle" => pc'[v] = pc[v]
<1>1. WorkersOK'
  BY DEF ReportInv, TypeOK, Answer, WorkersOK, Steps
<1> QED
  BY <1>1 DEF ReportInv, TypeOK, Answer

\* A request that answers, and whatever it writes confirms and reviews no less
\* than before.
LEMMA AnswerStep ==
    ASSUME NEW w \in Workers, ReportInv, Answer(w),
           status' \in Statuses, archived' \in BOOLEAN,
           confirmed' \in BOOLEAN, confirmed => confirmed',
           reviewed' \in BOOLEAN, reviewed => reviewed',
           ask' \in [Asks -> {"unused", "pending", "approved", "rejected"}],
           TwoSteps', SharedWasReviewed'
    PROVE  ReportInv'
<1>1. WorkersOK' /\ \A v \in Workers : pc'[v] # "idle" => pc'[v] = pc[v]
  BY AnswerOK
<1>2. BegunInOrder'
  BY <1>1 DEF ReportInv, BegunInOrder
<1> QED
  BY <1>1, <1>2 DEF ReportInv, TypeOK, WorkersOK

\* A request that begins, where its step's precondition holds.
LEMMA BeginStep ==
    ASSUME NEW w \in Workers, NEW step \in Steps, ReportInv, Begin(w, step),
           about' \in [Workers -> SUBSET Asks],
           step \in {"approving", "rejecting", "archiving", "asking", "deciding"} => confirmed,
           step \in {"archiving", "asking", "deciding"} => reviewed
    PROVE  ReportInv'
<1>1. pc' = [pc EXCEPT ![w] = step] /\ UNCHANGED <<reportVars, ask>>
  BY DEF Begin
<1>2. TypeOK'
  BY <1>1 DEF ReportInv, TypeOK, reportVars
<1>3. BegunInOrder'
  BY <1>1 DEF ReportInv, TypeOK, BegunInOrder, reportVars
<1> QED
  BY <1>1, <1>2, <1>3 DEF ReportInv, TwoSteps, SharedWasReviewed, reportVars

-----------------------------------------------------------------------------
\* A step of the officer or of a reviewer.
LEMMA ReviewStep == ASSUME NEW w \in Workers, ReportInv, Review(w) PROVE ReportInv'
<1> USE DEF ReportInv, TypeOK, TwoSteps, SharedWasReviewed, Statuses, Exportable
<1>1. CASE BeginConfirm(w)
  BY <1>1, BeginStep DEF BeginConfirm, Steps
<1>2. CASE Confirm(w)
  BY <1>2, AnswerStep DEF Confirm
<1>3. CASE BeginApprove(w)
  BY <1>3, BeginStep DEF BeginApprove, Steps
<1>4. CASE Approve(w)
  BY <1>4, AnswerStep DEF Approve, BegunInOrder
<1>5. CASE BeginReject(w)
  BY <1>5, BeginStep DEF BeginReject, Steps
<1>6. CASE Reject(w)
  BY <1>6, AnswerStep DEF Reject, BegunInOrder
<1>7. CASE BeginArchive(w)
  BY <1>7, BeginStep DEF BeginArchive, Steps
<1>8. CASE Archive(w)
  BY <1>8, AnswerStep DEF Archive, BegunInOrder
<1> QED
  BY <1>1, <1>2, <1>3, <1>4, <1>5, <1>6, <1>7, <1>8 DEF Review

\* A step of another organisation, or of the owner it asks.
LEMMA ShareStep == ASSUME NEW w \in Workers, ReportInv, Share(w) PROVE ReportInv'
<1> USE DEF ReportInv, TypeOK
<1>1. CASE BeginAsk(w)
  BY <1>1, BeginStep DEF BeginAsk, Steps, TwoSteps, Exportable
<1>2. CASE Ask(w)
  <2>1. ask' \in [Asks -> {"unused", "pending", "approved", "rejected"}]
    BY <1>2 DEF Ask
  <2>2. confirmed /\ reviewed
    BY <1>2 DEF Ask, BegunInOrder
  <2>3. TwoSteps' /\ SharedWasReviewed'
    BY <1>2, <2>2 DEF Ask, reportVars, TwoSteps, SharedWasReviewed
  <2> QED
    BY <1>2, <2>1, <2>3, AnswerStep DEF Ask, reportVars
<1>3. CASE Decide(w)
  <2>1. PICK answer \in {"approved", "rejected"} :
           ask' = [q \in Asks |-> IF q \in about[w] THEN answer ELSE ask[q]]
    BY <1>3 DEF Decide
  <2>2. ask' \in [Asks -> {"unused", "pending", "approved", "rejected"}]
    BY <2>1
  <2>3. TwoSteps'
    BY <1>3 DEF Decide, reportVars, TwoSteps
  <2>4. SharedWasReviewed'
    BY <1>3 DEF Decide, reportVars, BegunInOrder, SharedWasReviewed
  <2> QED
    BY <1>3, <2>2, <2>3, <2>4, AnswerStep DEF Decide, reportVars
<1>4. ASSUME NEW q \in Asks, BeginDecide(w, q) PROVE ReportInv'
  <2>1. about' \in [Workers -> SUBSET Asks]
    BY <1>4 DEF BeginDecide
  <2>2. confirmed /\ reviewed
    BY <1>4 DEF BeginDecide, SharedWasReviewed
  <2> QED
    BY <1>4, <2>1, <2>2, BeginStep DEF BeginDecide, Steps
<1> QED
  BY <1>1, <1>2, <1>3, <1>4 DEF Share

\* Every step preserves the invariant.
LEMMA ReportStep == ReportInv /\ [Next]_vars => ReportInv'
<1> SUFFICES ASSUME ReportInv, [Next]_vars PROVE ReportInv'
  OBVIOUS
<1>1. ASSUME NEW w \in Workers, Fail(w) PROVE ReportInv'
  BY <1>1, AnswerStep DEF Fail, reportVars, ReportInv, TypeOK, TwoSteps, SharedWasReviewed
<1>2. CASE UNCHANGED vars
  BY <1>2 DEF vars, reportVars, ReportInv, TypeOK, TwoSteps, BegunInOrder, SharedWasReviewed
<1> QED
  BY <1>1, <1>2, ReviewStep, ShareStep DEF Next

\* Until requests overlap, a request writes the report it has read.
StepAllows(w) ==
    /\ pc[w] = "confirming" => status = "draft"
    /\ pc[w] \in {"approving", "rejecting"} => status = "submitted"
    /\ pc[w] = "archiving" => status = "released"
    /\ pc[w] = "asking" => status \in Exportable
    /\ pc[w] = "deciding" => \A q \in about[w] : ask[q] = "pending"

AskedIsExportable == (\E q \in Asks : ask[q] # "unused") => status \in Exportable

ReportCalm ==
    /\ \A w \in Workers : StepAllows(w)
    /\ AskedIsExportable
    /\ archived <=> status = "archived"

\* The request that answers was the only one.
LEMMA LastAnswer ==
    ASSUME ReportInv, NEW w \in Workers, Answer(w),
           \A v \in Workers : pc[v] # "idle" => <<pc[v], about[v]>>' # <<pc[v], about[v]>>
    PROVE  \A v \in Workers : pc'[v] = "idle"
BY DEF Answer, ReportInv, TypeOK

LEMMA ReportStaysCalm ==
    ASSUME ReportInv, ReportCalm, Next,
           \A v \in Workers : pc[v] # "idle" => <<pc[v], about[v]>>' # <<pc[v], about[v]>>
    PROVE  ReportCalm'
<1> USE DEF ReportCalm, AskedIsExportable, Exportable
<1>1. ASSUME NEW w \in Workers, Answer(w) PROVE \A v \in Workers : StepAllows(v)'
    BY <1>1, LastAnswer DEF StepAllows
<1>2. ASSUME NEW w \in Workers, NEW step \in Steps, Begin(w, step),
             \A v \in Workers : v # w => about'[v] = about[v]
      PROVE  /\ \A v \in Workers : v # w => pc'[v] = "idle"
             /\ pc'[w] = step /\ UNCHANGED <<reportVars, ask>>
    BY <1>2 DEF Begin, ReportInv, TypeOK
<1>3. ASSUME NEW w \in Workers,
             BeginConfirm(w) \/ BeginApprove(w) \/ BeginReject(w) \/ BeginArchive(w) \/ BeginAsk(w)
      PROVE  ReportCalm'
    BY <1>2, <1>3
       DEF BeginConfirm, BeginApprove, BeginReject, BeginArchive, BeginAsk, StepAllows, Steps,
           reportVars
<1>4. ASSUME NEW w \in Workers, NEW q \in Asks, BeginDecide(w, q) PROVE ReportCalm'
    <2>1. about'[w] = {q} /\ \A v \in Workers : v # w => about'[v] = about[v]
        BY <1>4 DEF BeginDecide, ReportInv, TypeOK
    <2>. QED BY <1>2, <1>4, <2>1 DEF BeginDecide, StepAllows, Steps, reportVars
<1>5. ASSUME NEW w \in Workers, Confirm(w) \/ Approve(w) \/ Reject(w) \/ Archive(w) \/ Fail(w)
      PROVE  ReportCalm'
    <2>1. Answer(w) /\ ask' = ask BY <1>5 DEF Confirm, Approve, Reject, Archive, Fail
    <2>2. AskedIsExportable' /\ (archived' <=> status' = "archived")
        BY <1>5, <2>1 DEF Confirm, Approve, Reject, Archive, Fail, StepAllows, reportVars
    <2>. QED BY <1>1, <2>1, <2>2
<1>6. ASSUME NEW w \in Workers, Ask(w) \/ Decide(w) PROVE ReportCalm'
    <2>1. Answer(w) /\ UNCHANGED reportVars BY <1>6 DEF Ask, Decide
    <2>2. AskedIsExportable'
        <3>1. CASE Ask(w) BY <3>1, <2>1 DEF Ask, StepAllows, reportVars
        <3>2. CASE Decide(w)
            <4>1. PICK verdict0 \in {"approved", "rejected"} :
                     ask' = [q \in Asks |-> IF q \in about[w] THEN verdict0 ELSE ask[q]]
                BY <3>2 DEF Decide
            <4>2. \A q \in Asks : ask'[q] # "unused" => ask[q] # "unused"
                BY <3>2, <4>1 DEF Decide, StepAllows
            <4>. QED BY <2>1, <4>2 DEF reportVars
        <3>. QED BY <1>6, <3>1, <3>2
    <2>. QED BY <1>1, <2>1, <2>2 DEF reportVars
<1>. QED BY <1>3, <1>4, <1>5, <1>6 DEF Next, Review, Share

\* What was decided on a sharing request stays, and so does an archived report.
LEMMA DecidedStep ==
    ASSUME ReportInv, ReportCalm, [Next]_vars
    PROVE  /\ \A q \in Asks : ask[q] \in {"approved", "rejected"} => ask'[q] = ask[q]
           /\ status = "archived" => status' = status
<1> USE DEF ReportCalm, StepAllows
<1>1. CASE UNCHANGED <<reportVars, ask>> BY <1>1 DEF reportVars
<1>2. ASSUME NEW w \in Workers, Confirm(w) \/ Approve(w) \/ Reject(w) \/ Archive(w)
      PROVE  ask' = ask /\ status # "archived"
    BY <1>2 DEF Confirm, Approve, Reject, Archive
<1>3. ASSUME NEW w \in Workers, Ask(w)
      PROVE  /\ \A q \in Asks : ask[q] \in {"approved", "rejected"} => ask'[q] = ask[q]
             /\ status' = status
    BY <1>3 DEF Ask, reportVars, ReportInv, TypeOK
<1>4. ASSUME NEW w \in Workers, Decide(w)
      PROVE  /\ \A q \in Asks : ask[q] \in {"approved", "rejected"} => ask'[q] = ask[q]
             /\ status' = status
    BY <1>4 DEF Decide, reportVars
<1>. QED BY <1>1, <1>2, <1>3, <1>4
         DEF Next, vars, Review, Share, Fail, BeginConfirm, BeginApprove, BeginReject,
                BeginArchive,
             BeginAsk, BeginDecide, Begin

-----------------------------------------------------------------------------
(***************************************************************************)
(* The operational log                                                     *)
(***************************************************************************)
\* An event is buffered or in one batch, and not yet stored or lost; a buffer
\* that is not empty has a flush scheduled, and never reaches a batch.
LogTyped ==
    /\ buffer \in Seq(Events) /\ timer \in BOOLEAN /\ serving \in BOOLEAN
    /\ flights \subseteq SUBSET Events
    /\ stored \subseteq Events /\ aged \subseteq stored /\ over \subseteq Events
    /\ purge \in [left : 0..MaxChunks, doomed : SUBSET Events]

InOnePlace ==
    /\ Log!ToSet(buffer) \cap (stored \cup over) = {}
    /\ \A b \in flights : b \cap (Log!ToSet(buffer) \cup stored \cup over) = {}
    /\ \A b, c \in flights : b # c => b \cap c = {}

LogInv ==
    /\ LogTyped /\ InOnePlace
    /\ buffer # <<>> => timer
    /\ Len(buffer) < Batch

LEMMA SetOfAppended ==
    ASSUME NEW s \in Seq(Events), NEW e
    PROVE  Log!ToSet(Append(s, e)) = Log!ToSet(s) \cup {e}
BY DEF Log!ToSet

LEMMA SetOfEmpty == Log!ToSet(<<>>) = {}
BY DEF Log!ToSet

LEMMA SetOfEvents == ASSUME NEW s \in Seq(Events) PROVE Log!ToSet(s) \subseteq Events
BY DEF Log!ToSet

LEMMA EmptyTyped == <<>> \in Seq(Events)
OBVIOUS

LEMMA NoPurgeTyped == Log!NoPurge \in [left : 0..MaxChunks, doomed : SUBSET Events]
BY ValuesAssumption DEF Log!NoPurge

LEMMA LogInit == Log!Init => LogInv
<1> SUFFICES ASSUME Log!Init PROVE LogInv
    OBVIOUS
<1>1. buffer = <<>> /\ timer = FALSE /\ flights = {} /\ stored = {} /\ aged = {} /\ over = {}
    BY DEF Log!Init
<1>2. serving \in BOOLEAN /\ purge \in [left : 0..MaxChunks, doomed : SUBSET Events]
    BY NoPurgeTyped DEF Log!Init
<1>3. buffer \in Seq(Events) BY <1>1, EmptyTyped
<1>4. timer \in BOOLEAN BY <1>1
<1>5. LogTyped BY <1>1, <1>2, <1>3, <1>4 DEF LogTyped
<1>. QED BY <1>1, <1>5, SetOfEmpty, ValuesAssumption DEF LogInv, InOnePlace

\* The whole buffer becomes a batch.
LEMMA FlushStep ==
    ASSUME LogInv, NEW b \in Seq(Events), Log!Flush(b),
           stored' \subseteq Events, aged' \subseteq stored', over' \subseteq Events,
           stored' \cup over' = stored \cup over,
           Log!ToSet(b) \cap (stored \cup over) = {},
           \A c \in flights : c \cap Log!ToSet(b) = {},
           purge' \in [left : 0..MaxChunks, doomed : SUBSET Events], serving' \in BOOLEAN
    PROVE  LogInv'
<1>1. Log!ToSet(b) \subseteq Events BY SetOfEvents
<1>2. buffer' = <<>> /\ timer' = FALSE /\ flights' = flights \cup ({Log!ToSet(b)} \ {{}})
    BY DEF Log!Flush
<1>3. LogTyped'
    <2>1. buffer' \in Seq(Events) BY <1>2, EmptyTyped
    <2>2. timer' \in BOOLEAN BY <1>2
    <2>3. flights' \subseteq SUBSET Events BY <1>1, <1>2 DEF LogTyped, LogInv
    <2>. QED BY <2>1, <2>2, <2>3 DEF LogTyped
<1>4. InOnePlace' BY <1>2, SetOfEmpty DEF InOnePlace, LogInv
<1>. QED BY <1>2, <1>3, <1>4, ValuesAssumption DEF LogInv

\* An event is buffered, or flushed with the rest when the buffer is full; none
\* goes beyond the ceiling.
LEMMA AppendStep ==
    ASSUME LogInv, NEW e \in Events, e \notin Log!Known, Log!AppendEvent(e),
           stored' \subseteq Events, aged' \subseteq stored', over' \subseteq Events,
           stored' \cup over' = stored \cup over,
           purge' \in [left : 0..MaxChunks, doomed : SUBSET Events], serving' \in BOOLEAN
    PROVE  LogInv'
<1> DEFINE all == Append(buffer, e)
<1>0. InOnePlace BY DEF LogInv
<1>1. all \in Seq(Events) /\ Len(all) = Len(buffer) + 1 /\ Len(buffer) \in Nat
    BY DEF LogInv, LogTyped
<1>2. Len(all) <= Ceiling BY <1>1, ValuesAssumption DEF LogInv
<1>3. Log!ToSet(all) = Log!ToSet(buffer) \cup {e} BY SetOfAppended DEF LogInv, LogTyped
<1>4. /\ Log!ToSet(all) \cap (stored \cup over) = {}
      /\ \A c \in flights : c \cap Log!ToSet(all) = {}
    <2>1. e \notin stored \cup over BY DEF Log!Known
    <2>2. \A c \in flights : e \notin c
        <3>1. e \notin UNION flights BY DEF Log!Known
        <3>. QED BY ONLY <3>1
    <2>. QED BY ONLY <1>0, <1>3, <2>1, <2>2 DEF InOnePlace
<1>5. CASE Len(all) >= Batch
    <2>1. Log!Flush(all) BY <1>1, <1>2, <1>5, ValuesAssumption DEF Log!AppendEvent
    <2>. QED BY <1>1, <1>4, <2>1, FlushStep
<1>6. CASE Len(all) < Batch
    <2>1. buffer' = all /\ timer' = TRUE /\ flights' = flights
        BY <1>1, <1>2, <1>6, ValuesAssumption DEF Log!AppendEvent
    <2>2. LogTyped' BY <1>1, <2>1 DEF LogInv, LogTyped
    <2>3. InOnePlace' BY <1>4, <2>1 DEF LogInv, InOnePlace
    <2>. QED BY <1>6, <2>1, <2>2, <2>3 DEF LogInv
<1>. QED BY <1>1, <1>5, <1>6, ValuesAssumption

LEMMA NothingBeyond == ASSUME LogInv, NEW e PROVE Log!Beyond(e) = {}
<1>1. Len(buffer) \in Nat BY DEF LogInv, LogTyped
<1>. QED BY <1>1, ValuesAssumption DEF Log!Beyond, LogInv

\* The answer of the database to one batch.
LEMMA AnsweredStep ==
    ASSUME LogInv, NEW b \in flights, Log!Written(b) \/ Log!WriteFails(b)
    PROVE  LogInv'
<1>1. /\ UNCHANGED <<buffer, timer, aged, purge, serving>> /\ flights' = flights \ {b}
      /\ stored \subseteq stored' /\ over \subseteq over'
      /\ stored' \cup over' = stored \cup over \cup b
      /\ stored' \subseteq stored \cup b /\ over' \subseteq over \cup b
    BY DEF Log!Written, Log!WriteFails
<1>2. b \subseteq Events BY DEF LogInv, LogTyped
<1>3. LogTyped' BY <1>1, <1>2 DEF LogInv, LogTyped
<1>4. InOnePlace' BY <1>1 DEF LogInv, InOnePlace
<1>. QED BY <1>1, <1>3, <1>4 DEF LogInv

LEMMA RestartStep == ASSUME LogInv, Log!Restart PROVE LogInv'
<1>1. PICK done \in SUBSET flights :
         /\ stored' = stored \cup UNION done
         /\ over' = over \cup Log!ToSet(buffer) \cup UNION (flights \ done)
    BY DEF Log!Restart
<1>2. /\ buffer' = <<>> /\ timer' = FALSE /\ flights' = {} /\ aged' = aged
      /\ purge' = Log!NoPurge /\ serving' = TRUE
    BY DEF Log!Restart
<1>3. Log!ToSet(buffer) \subseteq Events /\ UNION flights \subseteq Events
    BY SetOfEvents DEF LogInv, LogTyped
<1>4. stored' \subseteq Events /\ over' \subseteq Events /\ aged' \subseteq stored'
    BY <1>1, <1>2, <1>3 DEF LogInv, LogTyped
<1>5. purge' \in [left : 0..MaxChunks, doomed : SUBSET Events]
    BY <1>2, NoPurgeTyped
<1>6. LogTyped'
    <2>1. buffer' \in Seq(Events) BY <1>2, EmptyTyped
    <2>2. timer' \in BOOLEAN /\ serving' \in BOOLEAN BY <1>2
    <2>3. flights' \subseteq SUBSET Events BY <1>2
    <2>. QED BY <1>4, <1>5, <2>1, <2>2, <2>3 DEF LogTyped
<1>. QED BY <1>2, <1>6, SetOfEmpty, ValuesAssumption DEF LogInv, InOnePlace

\* One chunk: what it takes from the table is nowhere any more.
LEMMA PurgeStep ==
    ASSUME LogInv, NEW e \in Events, Log!PurgeChunk(e)
    PROVE  LogInv'
<1>1. PICK purged \in SUBSET (purge.doomed \cap stored) :
         /\ stored' = stored \ purged /\ aged' = aged \ purged
         /\ over' = over \cup purged \cup
                IF Log!LastChunk(Log!Cardinality(purged), purge.left) THEN Log!Beyond(e) ELSE {}
         /\ IF Log!LastChunk(Log!Cardinality(purged), purge.left)
            THEN purge' = Log!NoPurge /\ Log!Report(e)
            ELSE /\ purge' = [purge EXCEPT !.left = @ - 1]
                 /\ UNCHANGED <<buffer, timer, flights>>
    BY DEF Log!PurgeChunk
<1>2. over' = over \cup purged BY <1>1, NothingBeyond
<1>3. /\ stored' \subseteq Events /\ over' \subseteq Events /\ aged' \subseteq stored'
      /\ stored' \cup over' = stored \cup over /\ serving' = serving /\ purge.left > 0
    BY <1>1, <1>2 DEF LogInv, LogTyped, Log!PurgeChunk
<1>4. CASE Log!LastChunk(Log!Cardinality(purged), purge.left)
    <2>1. purge' \in [left : 0..MaxChunks, doomed : SUBSET Events]
        BY <1>1, <1>4, NoPurgeTyped
    <2>2. e \notin Log!Known /\ Log!AppendEvent(e) BY <1>1, <1>4 DEF Log!Report
    <2>. QED BY <1>3, <2>1, <2>2, AppendStep DEF LogInv, LogTyped
<1>5. CASE ~Log!LastChunk(Log!Cardinality(purged), purge.left)
    <2>1. purge' \in [left : 0..MaxChunks, doomed : SUBSET Events]
      <3>1. purge' = [purge EXCEPT !.left = @ - 1]
          BY <1>1, <1>5
      <3>2. MaxChunks \in Nat
          BY ValuesAssumption
      <3>3. purge \in [left : 0..MaxChunks, doomed : SUBSET Events]
          BY DEF LogInv, LogTyped
      <3>. QED BY ONLY <1>3, <3>1, <3>2, <3>3
    <2>2. UNCHANGED <<buffer, timer, flights>> BY <1>1, <1>5
    <2>3. LogTyped' BY <1>3, <2>1, <2>2 DEF LogInv, LogTyped
    <2>4. InOnePlace' BY <1>3, <2>2 DEF LogInv, InOnePlace
    <2>. QED BY <2>2, <2>3, <2>4 DEF LogInv
<1>. QED BY <1>4, <1>5

LEMMA LogStep ==
    ASSUME LogInv, [Log!Next]_logVars
    PROVE  LogInv'
<1>1. CASE UNCHANGED logVars
    BY <1>1 DEF logVars, LogInv, LogTyped, InOnePlace
<1>2. ASSUME NEW e \in Events, Log!Record(e) PROVE LogInv'
    <2>1. /\ over' = over /\ UNCHANGED <<stored, aged, purge, serving>>
          /\ e \notin Log!Known /\ Log!AppendEvent(e)
        BY <1>2, NothingBeyond DEF Log!Record
    <2>. QED BY <2>1, AppendStep DEF LogInv, LogTyped
<1>3. ASSUME NEW e \in Events, Log!Age(e) PROVE LogInv'
    BY <1>3 DEF Log!Age, LogInv, LogTyped, InOnePlace
<1>4. ASSUME NEW e \in Events, Log!PurgeChunk(e) PROVE LogInv'
    BY <1>4, PurgeStep
<1>5. ASSUME NEW e \in Events, Log!PurgeFails(e) PROVE LogInv'
    <2>1. /\ over' = over /\ UNCHANGED <<stored, aged, serving>>
          /\ e \notin Log!Known /\ Log!AppendEvent(e) /\ purge' = Log!NoPurge
        BY <1>5, NothingBeyond DEF Log!PurgeFails, Log!Report
    <2>2. purge' \in [left : 0..MaxChunks, doomed : SUBSET Events]
        BY <2>1, NoPurgeTyped
    <2>. QED BY <2>1, <2>2, AppendStep DEF LogInv, LogTyped
<1>6. CASE Log!TimerFires \/ Log!Destroy
    <2>1. Log!Flush(buffer) /\ UNCHANGED <<stored, aged, over, purge>> /\ serving' \in BOOLEAN
        BY <1>6 DEF Log!TimerFires, Log!Destroy, LogInv, LogTyped
    <2>. QED BY <2>1, FlushStep DEF LogInv, LogTyped, InOnePlace
<1>7. CASE Log!Restart BY <1>7, RestartStep
<1>8. CASE Log!BeginPurge
    <2>1. purge' \in [left : 0..MaxChunks, doomed : SUBSET Events]
        BY <1>8, ValuesAssumption DEF Log!BeginPurge, LogInv, LogTyped
    <2>. QED BY <1>8, <2>1 DEF Log!BeginPurge, LogInv, LogTyped, InOnePlace
<1>9. ASSUME NEW b \in flights, Log!Written(b) \/ Log!WriteFails(b) PROVE LogInv'
    BY <1>9, AnsweredStep
<1>. QED BY <1>1, <1>2, <1>3, <1>4, <1>5, <1>6, <1>7, <1>8, <1>9 DEF Log!Next

\* A chunk that was not full took all that was left of what was old.
LEMMA DrainsStep ==
    ASSUME LogInv, [Log!Next]_logVars,
           purge.left > 1, purge' = Log!NoPurge, ~(stored \subseteq stored')
    PROVE  purge.doomed \cap stored' = {}
<1>1. PICK e \in Events : Log!PurgeChunk(e)
    BY DEF Log!Next, logVars, Log!Record, Log!Age, Log!PurgeFails, Log!TimerFires, Log!Destroy,
           Log!Restart, Log!BeginPurge, Log!Written, Log!WriteFails
<1> DEFINE doomed == purge.doomed \cap stored
<1>2. PICK purged \in SUBSET doomed :
         /\ Log!Cardinality(purged) = IF Log!Cardinality(doomed) < Chunk
                                    THEN Log!Cardinality(doomed) ELSE Chunk
         /\ stored' = stored \ purged
         /\ IF Log!LastChunk(Log!Cardinality(purged), purge.left)
            THEN purge' = Log!NoPurge ELSE purge' = [purge EXCEPT !.left = @ - 1]
    BY <1>1 DEF Log!PurgeChunk
<1>3. Log!LastChunk(Log!Cardinality(purged), purge.left)
    <2>1. purge \in [left : 0..MaxChunks, doomed : SUBSET Events] BY DEF LogInv, LogTyped
    <2>2. [purge EXCEPT !.left = @ - 1].left = purge.left - 1 BY <2>1
    <2>3. Log!NoPurge.left = 0 BY DEF Log!NoPurge
    <2>. QED BY <1>2, <2>1, <2>2, <2>3, ValuesAssumption
<1>4. \A S : Log!Cardinality(S) = Cardinality(S) BY DEF Log!Cardinality, Cardinality
<1>5. IsFiniteSet(doomed)
    BY ValuesAssumption, FS_Subset DEF LogInv, LogTyped
<1>6. Cardinality(doomed) \in Nat BY <1>5, FS_CardinalityType
<1>7. Cardinality(purged) < Chunk
    BY <1>3, <1>4, ValuesAssumption DEF Log!LastChunk, LogInv, LogTyped
<1>8. Cardinality(purged) = Cardinality(doomed) BY <1>2, <1>4, <1>6, <1>7, ValuesAssumption
<1>9. purged = doomed BY <1>5, <1>8, FS_Subset
<1>. QED BY <1>2, <1>9

-----------------------------------------------------------------------------
(***************************************************************************)
(* Types that the invariants above say less of                             *)
(***************************************************************************)
FilesOf(k) == [1..k -> Keys \cup {Invalid}]

LEMMA ImportFiles ==
    ASSUME NEW f
    PROVE  f \in UNION {FilesOf(k) : k \in 0..MaxRows}
              <=> f \in Seq(Keys \cup {Invalid}) /\ Len(f) <= MaxRows
<1>1. ASSUME f \in UNION {FilesOf(k) : k \in 0..MaxRows}
      PROVE  f \in Seq(Keys \cup {Invalid}) /\ Len(f) <= MaxRows
  <2>1. PICK k \in 0..MaxRows : f \in [1..k -> Keys \cup {Invalid}]
      BY <1>1 DEF FilesOf
  <2>2. k \in Nat /\ k <= MaxRows
      BY <2>1, ValuesAssumption
  <2>. QED BY <2>1, <2>2
<1>2. ASSUME f \in Seq(Keys \cup {Invalid}), Len(f) <= MaxRows
      PROVE  f \in UNION {FilesOf(k) : k \in 0..MaxRows}
  <2>1. Len(f) \in Nat /\ f \in [1..Len(f) -> Keys \cup {Invalid}]
      BY <1>2
  <2>2. Len(f) \in 0..MaxRows
      BY <1>2, <2>1, ValuesAssumption
  <2>. QED BY <2>1, <2>2 DEF FilesOf
<1>. QED BY <1>1, <1>2

IntakeTypes ==
    /\ key \in [Imported -> Keys] /\ origin \in [Imported -> Intake!Origins]
    /\ file \in [Workers -> Seq(Keys \cup {Invalid})]
    /\ \A w \in Workers : Len(file[w]) <= MaxRows
    /\ seen \in [Workers -> SUBSET Keys]

LEMMA IntakeTypesInit == Intake!Init => IntakeTypes
<1>1. (CHOOSE k \in Keys : TRUE) \in Keys
    BY ValuesAssumption
<1>2. <<>> \in Seq(Keys \cup {Invalid}) /\ Len(<<>>) = 0
    OBVIOUS
<1>. QED BY <1>1, <1>2, ValuesAssumption DEF Intake!Init, IntakeTypes, Intake!Origins

LEMMA IntakeTyped == IntakeTypes => Intake!TypeOK
<1>. SUFFICES ASSUME IntakeTypes PROVE Intake!TypeOK
    OBVIOUS
<1>1. file = [w \in Workers |-> file[w]]
    BY DEF IntakeTypes
<1>2. \A w \in Workers : file[w] \in UNION {FilesOf(k) : k \in 0..MaxRows}
    BY ImportFiles DEF IntakeTypes
<1>3. file \in [Workers -> UNION {[1..k -> Keys \cup {Invalid}] : k \in 0..MaxRows}]
    BY <1>1, <1>2 DEF FilesOf
<1>. QED BY <1>3 DEF IntakeTypes, Intake!TypeOK

LEMMA IntakeTypesStep ==
    ASSUME IntakeTypes, [Intake!Next]_importVars
    PROVE  IntakeTypes'
<1>1. CASE UNCHANGED importVars
    BY <1>1 DEF importVars, IntakeTypes
\* One row less, or none.
<1>2. ASSUME NEW w \in Workers, file[w] # <<>>,
             NEW f \in {Tail(file[w]), <<>>}, file' = [file EXCEPT ![w] = f]
      PROVE  /\ file' \in [Workers -> Seq(Keys \cup {Invalid})]
             /\ \A v \in Workers : Len(file'[v]) <= MaxRows
  <2>1. file[w] \in Seq(Keys \cup {Invalid}) /\ Len(file[w]) <= MaxRows
      BY DEF IntakeTypes
  <2>2. f \in Seq(Keys \cup {Invalid}) /\ Len(f) <= MaxRows
    <3>1. CASE f = <<>>
        BY <3>1, ValuesAssumption
    <3>2. CASE f = Tail(file[w])
        BY <1>2, <2>1, <3>2, ValuesAssumption
    <3>. QED BY <3>1, <3>2
  <2>3. /\ file'[w] = f /\ file' \in [Workers -> Seq(Keys \cup {Invalid})]
        /\ \A v \in Workers : v # w => file'[v] = file[v]
      BY <1>2, <2>2 DEF IntakeTypes
  <2>. QED BY <2>2, <2>3 DEF IntakeTypes
<1>3. ASSUME NEW w \in Workers, Intake!SkipRow(w) \/ Intake!RowFails(w) \/ Intake!Crash(w)
      PROVE  IntakeTypes'
  <2>1. /\ file[w] # <<>> /\ UNCHANGED <<key, origin, seen>>
        /\ \E f \in {Tail(file[w]), <<>>} : file' = [file EXCEPT ![w] = f]
      BY <1>3 DEF Intake!SkipRow, Intake!RowFails, Intake!Crash, Intake!RowDone, Intake!rows
  <2>. QED BY <1>2, <2>1 DEF IntakeTypes
<1>4. ASSUME NEW w \in Workers, Intake!ImportRow(w) PROVE IntakeTypes'
  <2>1. file[w] # <<>> /\ \E f \in {Tail(file[w]), <<>>} : file' = [file EXCEPT ![w] = f]
      BY <1>4 DEF Intake!ImportRow, Intake!RowDone
  <2>2. Head(file[w]) \in Keys
    <3>1. file[w] \in Seq(Keys \cup {Invalid})
        BY DEF IntakeTypes
    <3>2. Head(file[w]) \in Keys \cup {Invalid}
        BY <2>1, <3>1
    <3>. QED BY <1>4, <3>2 DEF Intake!ImportRow
  <2>3. /\ key' \in [Imported -> Keys] /\ origin' \in [Imported -> Intake!Origins]
        /\ seen' \in [Workers -> SUBSET Keys]
      BY <1>4, <2>2 DEF Intake!ImportRow, Intake!Insert, IntakeTypes, Intake!Origins
  <2>. QED BY <1>2, <2>1, <2>3 DEF IntakeTypes
<1>5. ASSUME NEW w \in Workers, NEW k \in 1..MaxRows, NEW f \in [1..k -> Keys \cup {Invalid}],
             Intake!BeginImport(w, f)
      PROVE  IntakeTypes'
  <2>1. k \in Nat
      BY ValuesAssumption
  <2>2. f \in Seq(Keys \cup {Invalid}) /\ Len(f) <= MaxRows
      BY <2>1, ValuesAssumption
  <2>3. /\ file'[w] = f /\ file' \in [Workers -> Seq(Keys \cup {Invalid})]
        /\ \A v \in Workers : v # w => file'[v] = file[v]
      BY <1>5, <2>2 DEF IntakeTypes, Intake!BeginImport
  <2>4. UNCHANGED <<key, origin>> /\ seen' \in [Workers -> SUBSET Keys]
      BY <1>5 DEF IntakeTypes, Intake!BeginImport, Intake!rows, Intake!Present
  <2>. QED BY <2>2, <2>3, <2>4 DEF IntakeTypes
<1>6. CASE Intake!EnterByHand \/ Intake!Edit \/ Intake!Remove
  <2>1. (CHOOSE k \in Keys : TRUE) \in Keys
      BY ValuesAssumption
  <2>2. UNCHANGED <<file, seen>>
      BY <1>6 DEF Intake!EnterByHand, Intake!Edit, Intake!Remove
  <2>3. key' \in [Imported -> Keys] /\ origin' \in [Imported -> Intake!Origins]
      BY <1>6, <2>1 DEF Intake!EnterByHand, Intake!Edit, Intake!Remove, Intake!Insert,
             Intake!Present, IntakeTypes, Intake!Origins
  <2>. QED BY <2>2, <2>3 DEF IntakeTypes
<1>. QED BY <1>1, <1>3, <1>4, <1>5, <1>6 DEF Intake!Next, Intake!Import

LEMMA DomainsTypedInit == Domains!Init => Domains!TypeOK
BY DEF Domains!Init, Domains!TypeOK

LEMMA DomainsTyped ==
    ASSUME Domains!TypeOK, DomainsInv, [Domains!Next]_domainVars
    PROVE  Domains!TypeOK'
<1>0. active' \subseteq Domains!Present'
    BY DomainsStep DEF DomainsInv
<1>1. CASE UNCHANGED domainVars
    BY <1>0, <1>1 DEF domainVars, Domains!TypeOK
<1>2. ASSUME NEW x \in Domains!Entries, Domains!Create(x) \/ Domains!Recode(x)
      PROVE  Domains!TypeOK'
    BY <1>0, <1>2 DEF Domains!Create, Domains!Recode, Domains!TypeOK
<1>3. ASSUME NEW u \in Workers,
             Domains!Activate(u) \/ \E s \in SubDomains : Domains!BeginActivate(u, s)
      PROVE  Domains!TypeOK'
    BY <1>0, <1>3 DEF Domains!Activate, Domains!BeginActivate, Domains!TypeOK
<1>. QED BY <1>0, <1>1, <1>2, <1>3
         DEF Domains!Next, Domains!TypeOK, Domains!ActivateDomain, Domains!DeactivateDomain,
             Domains!DeactivateSubDomain

LEMMA MembersTyped == MembersInv => Members!MemberTypeOK
BY DEF MembersInv, Members!MemberTypeOK, Accounts, Well

LEMMA LogTypes == LogInv => Log!TypeOK
<1>. SUFFICES ASSUME LogInv PROVE Log!TypeOK
    OBVIOUS
<1>1. Len(buffer) \in 0..Batch /\ buffer \in [1..Len(buffer) -> Events]
    BY ValuesAssumption DEF LogInv, LogTyped
<1>2. buffer \in UNION {[1..k -> Events] : k \in 0..Batch}
    BY <1>1
<1>. QED BY <1>2 DEF LogInv, LogTyped, Log!TypeOK

LEMMA LimiterTyped == LimiterInv => Limiter!LimitTypeOK
<1>. SUFFICES ASSUME LimiterInv PROVE Limiter!LimitTypeOK
    OBVIOUS
<1>1. \A i \in Instances : local[i] \in 0..MaxRequests
    BY ValuesAssumption DEF LimiterInv
<1>2. local \in [Instances -> 0..MaxRequests]
    BY <1>1 DEF LimiterInv
<1>. QED BY <1>2, ValuesAssumption DEF LimiterInv, Limiter!LimitTypeOK

-----------------------------------------------------------------------------
(***************************************************************************)
(* Evidence files                                                          *)
(***************************************************************************)
\* A request only ever takes files off the disk that no row needs: those whose
\* storage keys it made up, or the one whose row it has just deleted.  Where
\* others have a row for them, it was committed without an answer.
Busy(u) == upload[u].step \in {"counting", "saving"}

Own(u) ==
    /\ upload[u].saved \subseteq upload[u].wanted
    /\ upload[u].wanted \cap evidence \subseteq unseen
    /\ Busy(u) => upload[u].wanted \cap unseen = {} /\ upload[u].saved \subseteq disk

OwnFiles ==
    /\ \A u \in Workers : Own(u)
    /\ \A u, v \in Workers : u # v => upload[u].wanted \cap upload[v].wanted \subseteq unseen

FilesInv == Files!TypeOK /\ OwnFiles /\ Files!RowsHaveFiles

UploadSteps == {"idle", "counting", "saving", "failing", "unlinking"}

LEMMA FilesInit == Files!Init => FilesInv
BY DEF Files!Init, FilesInv, Files!TypeOK, OwnFiles, Own, Busy, Files!RowsHaveFiles, Files!Quiet

-----------------------------------------------------------------------------
\* What one request writes down about itself leaves the others alone.
LEMMA StepOf ==
    ASSUME Files!TypeOK, NEW u \in Workers, NEW s \in UploadSteps,
           NEW wanted \in SUBSET Documents, NEW saved \in SUBSET Documents,
           Files!Step(u, s, wanted, saved)
    PROVE  /\ upload' \in [Workers -> [step : UploadSteps,
                                         wanted : SUBSET Documents, saved : SUBSET Documents]]
           /\ upload'[u].step = s /\ upload'[u].wanted = wanted /\ upload'[u].saved = saved
           /\ \A v \in Workers : v # u => upload'[v] = upload[v]
BY DEF Files!Step, Files!TypeOK, UploadSteps

\* The others keep what they need.
OthersKeep(u, wanted) ==
    \A v \in Workers : v # u =>
        /\ upload[v].wanted \cap wanted \subseteq unseen'
        /\ upload[v].wanted \cap evidence' \subseteq unseen'
        /\ Busy(v) => upload[v].wanted \cap unseen' = {} /\ upload[v].saved \subseteq disk'

\* The rows keep their files, and every row is of a file.
RowsKeep ==
    /\ disk' \subseteq Documents /\ evidence' \subseteq Documents /\ unseen' \subseteq Documents
    /\ evidence' \ unseen' \subseteq disk'

\* A request whose files stay its own, on a disk that keeps what the others
\* and the rows need.
LEMMA StepKeeps ==
    ASSUME FilesInv, NEW u \in Workers, NEW s \in UploadSteps,
           NEW wanted \in SUBSET Documents, NEW saved \in SUBSET Documents,
           Files!Step(u, s, wanted, saved), evidenceStage' = evidenceStage, RowsKeep,
           saved \subseteq wanted, wanted \cap evidence' \subseteq unseen', unseen \subseteq unseen',
           s \in {"counting", "saving"} => wanted \cap unseen' = {} /\ saved \subseteq disk',
           OthersKeep(u, wanted)
    PROVE  FilesInv'
<1>1. /\ upload' \in [Workers -> [step : UploadSteps,
                                    wanted : SUBSET Documents, saved : SUBSET Documents]]
      /\ upload'[u].step = s /\ upload'[u].wanted = wanted /\ upload'[u].saved = saved
      /\ \A v \in Workers : v # u => upload'[v] = upload[v]
    BY StepOf DEF FilesInv
<1>2. Files!TypeOK' BY <1>1 DEF FilesInv, Files!TypeOK, UploadSteps, RowsKeep
<1>3. ASSUME NEW v \in Workers PROVE Own(v)'
    <2>1. CASE v = u
        <3>1. upload'[v].step = s /\ upload'[v].wanted = wanted /\ upload'[v].saved = saved
            BY <1>1, <2>1
        <3>2. saved \subseteq wanted /\ wanted \cap evidence' \subseteq unseen' OBVIOUS
        <3>3. s \in {"counting", "saving"} => wanted \cap unseen' = {} /\ saved \subseteq disk'
            OBVIOUS
        <3>. QED BY <3>1, <3>2, <3>3 DEF Own, Busy
    <2>2. CASE v # u
        <3>1. upload'[v] = upload[v] BY <1>1, <2>2
        <3>2. Own(v) BY DEF FilesInv, OwnFiles
        <3>. QED BY <2>2, <3>1, <3>2 DEF Own, OthersKeep, Busy
    <2>. QED BY <2>1, <2>2
<1>4. ASSUME NEW v \in Workers, NEW x \in Workers, v # x
      PROVE  upload'[v].wanted \cap upload'[x].wanted \subseteq unseen'
    <2>1. CASE v = u BY <1>1, <1>4, <2>1 DEF OthersKeep
    <2>2. CASE x = u BY <1>1, <1>4, <2>2 DEF OthersKeep
    <2>3. CASE v # u /\ x # u BY <1>1, <1>4, <2>3 DEF FilesInv, OwnFiles
    <2>. QED BY <2>1, <2>2, <2>3
<1>. QED BY <1>2, <1>3, <1>4 DEF FilesInv, OwnFiles, Files!RowsHaveFiles, RowsKeep

\* What the requests have written down: files, and apart from each other.
LEMMA FilesApart ==
    ASSUME FilesInv, NEW u \in Workers
    PROVE  /\ upload[u].wanted \in SUBSET Documents /\ upload[u].saved \in SUBSET Documents
           /\ disk \subseteq Documents /\ evidence \subseteq Documents /\ unseen \subseteq Documents
           /\ evidence \ unseen \subseteq disk
           /\ Own(u)
           /\ \A v \in Workers : v # u =>
                  Own(v) /\ upload[v].wanted \cap upload[u].wanted \subseteq unseen
<1>1. Own(u) /\ \A v \in Workers : Own(v)
    BY DEF FilesInv, OwnFiles
<1>2. /\ upload[u].wanted \in SUBSET Documents /\ upload[u].saved \in SUBSET Documents
      /\ disk \subseteq Documents /\ evidence \subseteq Documents /\ unseen \subseteq Documents
    BY DEF FilesInv, Files!TypeOK
<1>3. evidence \ unseen \subseteq disk
    BY DEF FilesInv, Files!RowsHaveFiles
<1>4. ASSUME NEW v \in Workers, v # u
      PROVE  upload[v].wanted \cap upload[u].wanted \subseteq unseen
    BY <1>4 DEF FilesInv, OwnFiles
<1>. QED BY <1>1, <1>2, <1>3, <1>4

-----------------------------------------------------------------------------
\* The steps of an upload.
LEMMA UploadingKeeps ==
    ASSUME FilesInv, NEW u \in Workers, Files!Uploading(u)
    PROVE  FilesInv'
<1>0. UploadSteps = {"idle", "counting", "saving", "failing", "unlinking"} BY DEF UploadSteps
<1>1. ASSUME NEW fs \in SUBSET Documents, Files!BeginUpload(u, fs) PROVE FilesInv'
    <2>1. Files!Step(u, "counting", fs, {}) /\ UNCHANGED <<evidenceStage, disk, evidence, unseen>>
        BY <1>1 DEF Files!BeginUpload
    <2>2. fs \cap (disk \cup evidence \cup unseen) = {} /\ \A v \in Workers : fs \cap upload[v].wanted = {}
        BY <1>1 DEF Files!BeginUpload, Files!InUse
    <2>3. OthersKeep(u, fs) BY <2>1, <2>2, FilesApart DEF Own, OthersKeep
    <2>4. RowsKeep BY <2>1, FilesApart DEF Own, RowsKeep
    <2>. QED BY <1>0, <2>1, <2>2, <2>3, <2>4, StepKeeps
<1>2. CASE Files!Count(u)
    <2>1. /\ Files!Step(u, "saving", upload[u].wanted, {}) /\ Busy(u)
          /\ UNCHANGED <<evidenceStage, disk, evidence, unseen>>
        BY <1>2 DEF Files!Count, Busy
    <2>2. OthersKeep(u, upload[u].wanted) BY <2>1, FilesApart DEF Own, OthersKeep
    <2>3. RowsKeep BY <2>1, FilesApart DEF Own, RowsKeep
    <2>4. /\ upload[u].wanted \cap evidence' \subseteq unseen' /\ upload[u].wanted \cap unseen' = {}
          /\ upload[u].wanted \in SUBSET Documents
        BY <2>1, FilesApart DEF Own
    <2>. QED BY <1>0, <2>1, <2>2, <2>3, <2>4, StepKeeps
<1>3. CASE Files!Save(u)
    <2>1. PICK f \in upload[u].wanted \ upload[u].saved :
             /\ disk' = disk \cup {f}
             /\ Files!Step(u, "saving", upload[u].wanted, upload[u].saved \cup {f})
        BY <1>3 DEF Files!Save
    <2>2. evidenceStage' = evidenceStage /\ evidence' = evidence /\ unseen' = unseen /\ Busy(u)
        BY <1>3 DEF Files!Save, Busy
    <2>3. f \in Documents BY <2>1, FilesApart DEF Own
    <2>4. OthersKeep(u, upload[u].wanted) BY <2>1, <2>2, FilesApart DEF Own, OthersKeep
    <2>5. RowsKeep BY <2>1, <2>2, <2>3, FilesApart DEF Own, RowsKeep
    <2>6. /\ upload[u].wanted \cap evidence' \subseteq unseen' /\ upload[u].wanted \in SUBSET Documents
          /\ upload[u].wanted \cap unseen' = {}
          /\ upload[u].saved \cup {f} \in SUBSET Documents
          /\ upload[u].saved \cup {f} \subseteq upload[u].wanted
          /\ upload[u].saved \cup {f} \subseteq disk'
        BY <2>1, <2>2, <2>3, FilesApart DEF Own
    <2>. QED BY <1>0, <2>1, <2>2, <2>4, <2>5, <2>6, StepKeeps
<1>4. CASE Files!Commit(u)
    <2>1. /\ evidence' = evidence \cup upload[u].wanted /\ upload[u].saved = upload[u].wanted
          /\ Files!Step(u, "idle", {}, {}) /\ UNCHANGED <<evidenceStage, disk, unseen>> /\ Busy(u)
        BY <1>4 DEF Files!Commit, Busy
    <2>2. OthersKeep(u, {}) BY <2>1, FilesApart DEF Own, OthersKeep
    <2>3. RowsKeep BY <2>1, FilesApart DEF Own, RowsKeep
    <2>. QED BY <1>0, <2>1, <2>2, <2>3, StepKeeps
<1>5. CASE Files!CommitUnseen(u)
    <2>1. /\ evidence' = evidence \cup upload[u].wanted /\ upload[u].saved = upload[u].wanted
          /\ unseen' = unseen \cup upload[u].wanted
          /\ Files!Step(u, "failing", upload[u].wanted, upload[u].saved)
          /\ UNCHANGED <<evidenceStage, disk>> /\ Busy(u)
        BY <1>5 DEF Files!CommitUnseen, Busy
    <2>2. OthersKeep(u, upload[u].wanted)
        <3>1. ASSUME NEW v \in Workers, v # u, Busy(v)
              PROVE  upload[v].wanted \cap unseen' = {} /\ upload[v].saved \subseteq disk'
            BY <2>1, <3>1, FilesApart DEF Own
        <3>2. ASSUME NEW v \in Workers, v # u
              PROVE  /\ upload[v].wanted \cap upload[u].wanted \subseteq unseen'
                     /\ upload[v].wanted \cap evidence' \subseteq unseen'
            BY <2>1, <3>2, FilesApart DEF Own
        <3>. QED BY <3>1, <3>2 DEF OthersKeep
    <2>3. RowsKeep BY <2>1, FilesApart DEF Own, RowsKeep
    <2>4. /\ upload[u].wanted \in SUBSET Documents /\ upload[u].saved \in SUBSET Documents
          /\ upload[u].saved \subseteq upload[u].wanted
          /\ upload[u].wanted \cap evidence' \subseteq unseen' /\ unseen \subseteq unseen'
        BY <2>1, FilesApart DEF Own
    <2>. QED BY <1>0, <2>1, <2>2, <2>3, <2>4, StepKeeps
<1>6. CASE Files!UploadFails(u)
    <2>1. /\ disk' = disk \ upload[u].saved
          /\ Files!Step(u, "idle", {}, {}) /\ UNCHANGED <<evidenceStage, evidence, unseen>>
        BY <1>6 DEF Files!UploadFails
    <2>2. OthersKeep(u, {}) BY <2>1, FilesApart DEF Own, OthersKeep
    <2>3. RowsKeep BY <2>1, FilesApart DEF Own, RowsKeep
    <2>. QED BY <1>0, <2>1, <2>2, <2>3, StepKeeps
<1>. QED BY <1>1, <1>2, <1>3, <1>4, <1>5, <1>6 DEF Files!Uploading

\* The steps of a removal: the row first, then its file.
LEMMA RemovingKeeps ==
    ASSUME FilesInv, NEW u \in Workers, Files!Removing(u)
    PROVE  FilesInv'
<1>0. {"idle", "unlinking"} \subseteq UploadSteps BY DEF UploadSteps
<1>1. ASSUME NEW f \in Documents, Files!DeleteRow(u, f) PROVE FilesInv'
    <2>1. /\ f \in evidence /\ evidence' = evidence \ {f}
          /\ Files!Step(u, "unlinking", {f}, {}) /\ UNCHANGED <<evidenceStage, disk, unseen>>
        BY <1>1 DEF Files!DeleteRow
    <2>2. OthersKeep(u, {f}) BY <2>1, FilesApart DEF Own, OthersKeep
    <2>3. RowsKeep BY <2>1, FilesApart DEF Own, RowsKeep
    <2>4. {f} \cap evidence' \subseteq unseen' /\ {f} \in SUBSET Documents
        BY <2>1
    <2>. QED BY <1>0, <2>1, <2>2, <2>3, <2>4, StepKeeps
<1>2. CASE Files!Unlink(u)
    <2>1. /\ disk' = disk \ upload[u].wanted
          /\ Files!Step(u, "idle", {}, {}) /\ UNCHANGED <<evidenceStage, evidence, unseen>>
        BY <1>2 DEF Files!Unlink
    <2>2. OthersKeep(u, {}) BY <2>1, FilesApart DEF Own, OthersKeep
    <2>3. RowsKeep BY <2>1, FilesApart DEF Own, RowsKeep
    <2>. QED BY <1>0, <2>1, <2>2, <2>3, StepKeeps
<1>. QED BY <1>1, <1>2 DEF Files!Removing

LEMMA FilesStep ==
    ASSUME FilesInv, [Files!Next]_fileVars
    PROVE  FilesInv'
<1>1. CASE UNCHANGED fileVars
    BY <1>1 DEF FilesInv, Files!TypeOK, OwnFiles, Own, Busy, Files!RowsHaveFiles, fileVars
<1>2. ASSUME NEW u \in Workers, Files!Uploading(u) PROVE FilesInv'
    BY <1>2, UploadingKeeps
<1>3. ASSUME NEW u \in Workers, Files!Removing(u) PROVE FilesInv'
    BY <1>3, RemovingKeeps
<1>4. CASE Files!Submit
    BY <1>4 DEF Files!Submit, FilesInv, Files!TypeOK, OwnFiles, Own, Busy, Files!RowsHaveFiles
<1>5. CASE Files!Approve
    BY <1>5 DEF Files!Approve, FilesInv, Files!TypeOK, OwnFiles, Own, Busy, Files!RowsHaveFiles
<1>6. CASE Files!Crash
    BY <1>6 DEF Files!Crash, Files!Quiet, FilesInv, Files!TypeOK, OwnFiles, Own, Busy, Files!RowsHaveFiles
<1>. QED BY <1>1, <1>2, <1>3, <1>4, <1>5, <1>6 DEF Files!Next

-----------------------------------------------------------------------------
\* While requests do not overlap, an upload that was counted still fits when
\* its rows are written.
FilesCalm ==
    /\ Cardinality(evidence) <= MaxEvidence
    /\ \A u \in Workers : upload[u].step = "saving" =>
           Cardinality(evidence) + Cardinality(upload[u].wanted) <= MaxEvidence

LEMMA FilesCalmInit == Files!Init => FilesCalm
BY FS_EmptySet, ValuesAssumption DEF Files!Init, FilesCalm, Files!Quiet

LEMMA CardinalityFiles == \A S : Files!Cardinality(S) = Cardinality(S)
BY DEF Files!Cardinality, Cardinality

LEMMA FilesWithin == FilesCalm => Files!WithinLimit
BY CardinalityFiles DEF FilesCalm, Files!WithinLimit

LEMMA SizeOfFiles ==
    ASSUME NEW S \in SUBSET Documents
    PROVE  IsFiniteSet(S) /\ Cardinality(S) \in Nat
BY FS_Subset, FS_CardinalityType, ValuesAssumption

\* What leaves no more rows, and no more files to come, leaves them within it.
LEMMA FewerStillFit ==
    ASSUME FilesInv, FilesCalm, evidence' \subseteq evidence,
           \A u \in Workers : upload'[u].step = "saving" =>
              upload[u].step = "saving" /\ upload'[u].wanted = upload[u].wanted
    PROVE  FilesCalm'
<1>1. evidence \in SUBSET Documents /\ evidence' \in SUBSET evidence
    BY DEF FilesInv, Files!TypeOK
<1>2. Cardinality(evidence') <= Cardinality(evidence)
    BY <1>1, SizeOfFiles, FS_Subset
<1>3. Cardinality(evidence') \in Nat /\ Cardinality(evidence) \in Nat
    BY <1>1, SizeOfFiles
<1>4. MaxEvidence \in Nat
    BY ValuesAssumption
<1>5. ASSUME NEW u \in Workers, upload'[u].step = "saving"
      PROVE  Cardinality(evidence') + Cardinality(upload'[u].wanted) <= MaxEvidence
  <2>1. /\ upload'[u].wanted = upload[u].wanted
        /\ Cardinality(evidence) + Cardinality(upload[u].wanted) <= MaxEvidence
      BY <1>5 DEF FilesCalm
  <2>2. upload[u].wanted \in SUBSET Documents
      BY FilesApart
  <2>3. Cardinality(upload[u].wanted) \in Nat
      BY <2>2, SizeOfFiles
  <2>. QED BY <2>1, <2>3, <1>2, <1>3, <1>4
<1>6. Cardinality(evidence') <= MaxEvidence
    BY <1>2, <1>3, <1>4 DEF FilesCalm
<1>. QED BY <1>5, <1>6 DEF FilesCalm

LEMMA FilesStayCalm ==
    ASSUME FilesInv, FilesCalm, Files!Next,
           \A u \in Workers : upload[u] # Files!Quiet => upload'[u] # upload[u]
    PROVE  FilesCalm'
<1>1. ASSUME NEW u \in Workers, NEW fs \in SUBSET Documents, Files!BeginUpload(u, fs)
      PROVE  FilesCalm'
  <2>1. \A v \in Workers : upload'[v].step = "saving" =>
            upload[v].step = "saving" /\ upload'[v] = upload[v]
      BY <1>1 DEF Files!BeginUpload, Files!Step, FilesInv, Files!TypeOK
  <2>. QED BY <2>1, <1>1, FewerStillFit DEF Files!BeginUpload
<1>2. ASSUME NEW u \in Workers, Files!Count(u) PROVE FilesCalm'
  <2>1. /\ evidence' = evidence
        /\ Cardinality(evidence) + Cardinality(upload[u].wanted) <= MaxEvidence
        /\ upload'[u].wanted = upload[u].wanted
        /\ \A v \in Workers : v # u => upload'[v] = upload[v]
      BY <1>2, CardinalityFiles DEF Files!Count, Files!Step, FilesInv, Files!TypeOK
  <2>2. \A v \in Workers : v # u => upload[v] = Files!Quiet
      BY <2>1
  <2>3. \A v \in Workers : upload'[v].step = "saving" => v = u
      BY <2>1, <2>2 DEF Files!Quiet
  <2>. QED BY <2>1, <2>3 DEF FilesCalm
<1>3. ASSUME NEW u \in Workers, Files!Save(u) PROVE FilesCalm'
  <2>1. \A v \in Workers : upload'[v].step = "saving" =>
            upload[v].step = "saving" /\ upload'[v].wanted = upload[v].wanted
      BY <1>3 DEF Files!Save, Files!Step, FilesInv, Files!TypeOK
  <2>. QED BY <2>1, <1>3, FewerStillFit DEF Files!Save
<1>4. ASSUME NEW u \in Workers, Files!Commit(u) \/ Files!CommitUnseen(u) PROVE FilesCalm'
  <2>1. /\ evidence' = evidence \cup upload[u].wanted
        /\ Cardinality(evidence) + Cardinality(upload[u].wanted) <= MaxEvidence
        /\ upload'[u].step # "saving"
        /\ \A v \in Workers : v # u => upload'[v] = upload[v]
      BY <1>4 DEF Files!Commit, Files!CommitUnseen, Files!Step, FilesInv, Files!TypeOK, FilesCalm
  <2>2. \A v \in Workers : v # u => upload[v] = Files!Quiet
      BY <2>1
  <2>3. \A v \in Workers : upload'[v].step # "saving"
      BY <2>1, <2>2 DEF Files!Quiet
  <2>4. evidence \in SUBSET Documents /\ upload[u].wanted \in SUBSET Documents
      BY FilesApart DEF FilesInv, Files!TypeOK
  <2>5. Cardinality(evidence \cup upload[u].wanted)
            = Cardinality(evidence) + Cardinality(upload[u].wanted)
                - Cardinality(evidence \cap upload[u].wanted)
      BY <2>4, SizeOfFiles, FS_Union
  <2>6. /\ Cardinality(evidence) \in Nat /\ Cardinality(upload[u].wanted) \in Nat
        /\ Cardinality(evidence \cap upload[u].wanted) \in Nat
      BY <2>4, SizeOfFiles
  <2>7. Cardinality(evidence') <= MaxEvidence
      BY <2>1, <2>5, <2>6, ValuesAssumption
  <2>. QED BY <2>3, <2>7 DEF FilesCalm
<1>5. ASSUME NEW u \in Workers,
             Files!UploadFails(u) \/ Files!Unlink(u) \/ \E f \in Documents : Files!DeleteRow(u, f)
      PROVE  FilesCalm'
  <2>1. \A v \in Workers : upload'[v].step = "saving" =>
            upload[v].step = "saving" /\ upload'[v] = upload[v]
      BY <1>5
         DEF Files!UploadFails, Files!Unlink, Files!DeleteRow, Files!Step, FilesInv,
             Files!TypeOK
  <2>2. evidence' \subseteq evidence
      BY <1>5 DEF Files!UploadFails, Files!Unlink, Files!DeleteRow
  <2>. QED BY <2>1, <2>2, FewerStillFit
<1>6. CASE Files!Submit \/ Files!Approve \/ Files!Crash
  <2>1. /\ evidence' = evidence
        /\ \A v \in Workers : upload'[v].step = "saving" =>
            upload[v].step = "saving" /\ upload'[v] = upload[v]
      BY <1>6 DEF Files!Submit, Files!Approve, Files!Crash, Files!Quiet
  <2>. QED BY <2>1, FewerStillFit
<1>. QED BY <1>1, <1>2, <1>3, <1>4, <1>5, <1>6 DEF Files!Next, Files!Uploading, Files!Removing

-----------------------------------------------------------------------------
(***************************************************************************)
(* Studies                                                                 *)
(***************************************************************************)
\* What the identifiers and references of the schema guarantee.
References == Studies \cap Needs = {} /\ AskOf \in [StudyAsks -> Studies]

OnStudy == {"create", "removeStudy", "archive", "restore"}

\* As much of the types as the argument needs: the cycle numbers themselves
\* may be anything.
Shape ==
    /\ cycle = [s \in Studies |-> cycle[s]]
    /\ standing = [s \in Studies |-> standing[s]]
    /\ studyAsk = [q \in StudyAsks |-> studyAsk[q]]
    /\ request = [w \in Workers |-> request[w]]
    /\ \A w \in Workers :
         /\ request[w].op \in OnStudy => request[w].study \in Studies
         /\ request[w].op \in {"ask", "decide"} => request[w].ask \in StudyAsks
         /\ request[w].op = "removeNeed" => request[w].need \in Needs

\* An identifier is used once: no row comes back after its deletion, and only
\* the one request that creates it brings a row about.
UsedOnce ==
    /\ \A s \in Studies : Catalogue!Exists(s) => s \notin gone
    /\ \A w \in Workers : request[w].op = "create" =>
         /\ ~Catalogue!Exists(request[w].study) /\ request[w].study \notin gone
         /\ \A v \in Workers : v # w /\ request[v].op = "create"
                                  => request[v].study # request[w].study

\* The studies whose report is out, or was until a late decision took it back.
Reported == released \cup withdrawn

\* A request to archive keeps its grounds: its study is among them, or
\* has been deleted meanwhile.
GroundsHold ==
    \A w \in Workers : request[w].op = "archive" =>
        /\ Catalogue!Exists(request[w].study) => request[w].study \in Reported
        /\ Catalogue!Exists(request[w].study) \/ request[w].study \in gone

\* A sharing request goes with its study.
AsksRefer == \A q \in StudyAsks : studyAsk[q] # "none" => Catalogue!Exists(AskOf[q])

ArchiveInv ==
    /\ Shape /\ UsedOnce /\ GroundsHold /\ AsksRefer
    /\ \A s \in Studies : standing[s] = "archived" => s \in Reported

LEMMA ArchiveInit == References /\ Catalogue!Init => ArchiveInv /\ Catalogue!CyclesDistinct
BY DEF Catalogue!Init, Catalogue!Idle, References, ArchiveInv, Shape, OnStudy, UsedOnce,
       GroundsHold, Reported, AsksRefer, Catalogue!Exists, Catalogue!CyclesDistinct

-----------------------------------------------------------------------------
\* A request that begins on a study, with the grounds it needs.
LEMMA BeginKeeps ==
    ASSUME ArchiveInv, NEW w \in Workers, NEW r, Catalogue!Begin(w, r),
           r.op \in OnStudy => r.study \in Studies,
           r.op \in {"ask", "decide"} => r.ask \in StudyAsks,
           r.op = "removeNeed" => r.need \in Needs,
           r.op = "create" =>
               /\ ~Catalogue!Exists(r.study) /\ r.study \notin gone
               /\ \A v \in Workers : request[v].op = "create" => request[v].study # r.study,
           r.op = "archive" => Catalogue!Exists(r.study) /\ r.study \in Reported
    PROVE  ArchiveInv'
<1>1. /\ UNCHANGED <<cycle, standing, stage, released, withdrawn, studyAsk, gone>>
      /\ request' = [v \in Workers |-> IF v = w THEN r ELSE request[v]]
    BY DEF Catalogue!Begin, Catalogue!rows, ArchiveInv, Shape
<1>2. request'[w] = r /\ \A v \in Workers : v # w => request'[v] = request[v]
    BY <1>1
<1>3. \A s : Catalogue!Exists(s)' <=> Catalogue!Exists(s) BY <1>1 DEF Catalogue!Exists
<1>4. Shape' BY <1>1, <1>2 DEF ArchiveInv, Shape
<1>5. UsedOnce' BY <1>1, <1>2, <1>3 DEF ArchiveInv, UsedOnce
<1>6. GroundsHold' BY <1>1, <1>2, <1>3 DEF ArchiveInv, GroundsHold, Reported
<1>7. AsksRefer' BY <1>1, <1>3 DEF ArchiveInv, AsksRefer
<1>. QED BY <1>1, <1>4, <1>5, <1>6, <1>7 DEF ArchiveInv, Reported

\* A request that answers takes nothing away from the others.
LEMMA AnswerOf ==
    ASSUME Shape, NEW w \in Workers, Catalogue!Answer(w)
    PROVE  /\ request' = [v \in Workers |-> request'[v]]
           /\ request'[w] = Catalogue!Idle
           /\ \A v \in Workers : v # w => request'[v] = request[v]
           /\ \A v \in Workers : request'[v].op # "idle" => v # w
BY DEF Catalogue!Answer, Shape, Catalogue!Idle

\* A step of the rows that neither makes nor deletes a study and takes no
\* report back, whoever of the requests answers with it.
LEMMA RowsKept ==
    ASSUME ArchiveInv, cycle' = cycle, Reported \subseteq Reported',
           gone \subseteq gone', gone' \cap Studies = gone \cap Studies,
           standing' = [s \in Studies |-> standing'[s]],
           studyAsk' = [q \in StudyAsks |-> studyAsk'[q]], AsksRefer',
           \A s \in Studies : standing'[s] = "archived" => s \in Reported',
           request' = [v \in Workers |-> request'[v]],
           \A v \in Workers : request'[v] = request[v] \/ request'[v] = Catalogue!Idle
    PROVE  ArchiveInv'
<1>1. \A s : Catalogue!Exists(s)' <=> Catalogue!Exists(s) BY DEF Catalogue!Exists
<1>2. Catalogue!Idle.op = "idle" BY DEF Catalogue!Idle
<1>3. Shape' BY <1>2 DEF ArchiveInv, Shape, OnStudy
<1>4. \A v \in Workers : request'[v].op \in {"create", "archive"} =>
          request'[v] = request[v] /\ request[v].study \in Studies
    BY <1>2 DEF ArchiveInv, Shape, OnStudy
<1>5. UsedOnce' BY <1>1, <1>4 DEF ArchiveInv, UsedOnce
<1>6. GroundsHold' BY <1>1, <1>4 DEF ArchiveInv, GroundsHold
<1>. QED BY <1>3, <1>5, <1>6 DEF ArchiveInv

LEMMA CreateKeeps ==
    ASSUME References, ArchiveInv, NEW w \in Workers, Catalogue!Create(w)
    PROVE  ArchiveInv'
<1> DEFINE s == request[w].study
<1>1. s \in Studies /\ ~Catalogue!Exists(s) /\ s \notin gone
    BY DEF Catalogue!Create, ArchiveInv, Shape, OnStudy, UsedOnce
<1>2. /\ cycle' = [t \in Studies |-> IF t = s THEN request[w].number ELSE cycle[t]]
      /\ standing' = [t \in Studies |-> IF t = s THEN "active" ELSE standing[t]]
      /\ Reported' = Reported /\ studyAsk' = studyAsk /\ gone' = gone
    BY DEF Catalogue!Create, ArchiveInv, Shape, Reported
<1>3. \A t \in Studies : t # s => (Catalogue!Exists(t)' <=> Catalogue!Exists(t)) BY <1>2
                                                                                    DEF Catalogue!Exists
<1>4. /\ request' = [v \in Workers |-> request'[v]]
      /\ \A v \in Workers : request'[v].op # "idle" => v # w /\ request'[v] = request[v]
    BY AnswerOf DEF Catalogue!Create, ArchiveInv
<1>5. Shape'
    <2>1. cycle' = [t \in Studies |-> cycle'[t]] BY <1>2
    <2>2. standing' = [t \in Studies |-> standing'[t]] BY <1>2
    <2>3. studyAsk' = [q \in StudyAsks |-> studyAsk'[q]] BY <1>2 DEF ArchiveInv, Shape
    <2>. QED BY <1>4, <2>1, <2>2, <2>3 DEF ArchiveInv, Shape, OnStudy
<1>6. \A v \in Workers : request'[v].op \in OnStudy => request'[v].study \in Studies
    BY <1>5 DEF Shape
<1>7. UsedOnce'
    <2>1. \A v \in Workers : request'[v].op = "create" => request[v].study # s
        BY <1>4 DEF ArchiveInv, UsedOnce, Catalogue!Create
    <2>. QED BY <1>1, <1>2, <1>3, <1>4, <1>6, <2>1 DEF ArchiveInv, UsedOnce, OnStudy
<1>8. GroundsHold'
    <2>1. \A v \in Workers : request'[v].op = "archive" => request[v].study # s
        BY <1>1, <1>4 DEF ArchiveInv, GroundsHold
    <2>. QED BY <1>2, <1>3, <1>4, <1>6, <2>1 DEF ArchiveInv, GroundsHold, OnStudy
<1>9. AsksRefer'
    BY <1>1, <1>2 DEF References, ArchiveInv, AsksRefer, Catalogue!Exists
<1>10. \A t \in Studies : standing'[t] = "archived" => t \in Reported'
    BY <1>2 DEF ArchiveInv
<1>. QED BY <1>5, <1>7, <1>8, <1>9, <1>10 DEF ArchiveInv

\* The cascade of a deletion: the report, the sharing requests and the needs
\* of the study go with it, and its identifier is used up.
LEMMA RemoveStudyKeeps ==
    ASSUME References, ArchiveInv, NEW w \in Workers, Catalogue!RemoveStudy(w)
    PROVE  ArchiveInv'
<1> DEFINE s == request[w].study
<1>1. s \in Studies /\ Catalogue!Exists(s)
    BY DEF Catalogue!RemoveStudy, ArchiveInv, Shape, OnStudy
<1>2. /\ cycle' = [t \in Studies |-> IF t = s THEN 0 ELSE cycle[t]]
      /\ standing' = [t \in Studies |-> IF t = s THEN "none" ELSE standing[t]]
      /\ studyAsk' = [q \in StudyAsks |-> IF AskOf[q] = s THEN "none" ELSE studyAsk[q]]
      /\ Reported' = Reported \ {s} /\ gone' = gone \cup Catalogue!NeedsOf(s) \cup {s}
    BY DEF Catalogue!RemoveStudy, ArchiveInv, Shape, Reported
<1>3. Catalogue!NeedsOf(s) \cap Studies = {} BY DEF Catalogue!NeedsOf, References
<1>4. cycle'[s] = 0 /\ \A t \in Studies : t # s => (Catalogue!Exists(t)' <=> Catalogue!Exists(t))
    BY <1>1, <1>2 DEF Catalogue!Exists
<1>5. /\ request' = [v \in Workers |-> request'[v]]
      /\ \A v \in Workers : request'[v].op # "idle" => request'[v] = request[v]
    BY AnswerOf DEF Catalogue!RemoveStudy, ArchiveInv
<1>6. Shape'
    <2>1. cycle' = [t \in Studies |-> cycle'[t]] BY <1>2
    <2>2. standing' = [t \in Studies |-> standing'[t]] BY <1>2
    <2>3. studyAsk' = [q \in StudyAsks |-> studyAsk'[q]] BY <1>2
    <2>. QED BY <1>5, <2>1, <2>2, <2>3 DEF ArchiveInv, Shape, OnStudy
<1>7. \A v \in Workers : request'[v].op \in OnStudy => request'[v].study \in Studies
    BY <1>6 DEF Shape
<1>8. UsedOnce'
    <2>1. \A v \in Workers : request'[v].op = "create" => request[v].study # s
        BY <1>1, <1>5 DEF ArchiveInv, UsedOnce
    <2>2. \A t \in Studies : t # s => (t \in gone' <=> t \in gone) BY <1>2, <1>3
    <2>3. \A t \in Studies : Catalogue!Exists(t)' => t # s /\ Catalogue!Exists(t) BY <1>4
                                                                                     DEF Catalogue!Exists
    <2>. QED BY <1>4, <1>5, <1>7, <2>1, <2>2, <2>3 DEF ArchiveInv, UsedOnce, OnStudy
<1>9. GroundsHold'
    <2>1. \A t \in Studies : Catalogue!Exists(t)' => t # s /\ Catalogue!Exists(t) BY <1>4
                                                                                     DEF Catalogue!Exists
    <2>2. \A t \in Studies : Catalogue!Exists(t) => t = s \/ Catalogue!Exists(t)' BY <1>4
    <2>. QED BY <1>2, <1>5, <1>7, <2>1, <2>2 DEF ArchiveInv, GroundsHold, OnStudy
<1>10. AsksRefer'
    BY <1>2, <1>4 DEF References, ArchiveInv, AsksRefer
<1>11. \A t \in Studies : standing'[t] = "archived" => t \in Reported'
    BY <1>2 DEF ArchiveInv
<1>. QED BY <1>6, <1>8, <1>9, <1>10, <1>11 DEF ArchiveInv

\* The writes that leave the studies where they are.
LEMMA AnswerKeeps ==
    ASSUME References, ArchiveInv, NEW w \in Workers,
           \/ Catalogue!WriteStanding(w) \/ Catalogue!RemoveNeed(w) \/ Catalogue!Ask(w)
           \/ Catalogue!Decide(w) \/ Catalogue!Fail(w)
    PROVE  ArchiveInv'
<1>1. Catalogue!Answer(w) BY DEF Catalogue!WriteStanding, Catalogue!RemoveNeed, Catalogue!Ask,
                                 Catalogue!Decide, Catalogue!Fail
<1>2. /\ request' = [v \in Workers |-> request'[v]]
      /\ \A v \in Workers : request'[v] = request[v] \/ request'[v] = Catalogue!Idle
    BY <1>1, AnswerOf DEF ArchiveInv
<1>3. cycle' = cycle /\ \A s : Catalogue!Exists(s)' <=> Catalogue!Exists(s)
    BY DEF Catalogue!WriteStanding, Catalogue!RemoveNeed, Catalogue!Ask, Catalogue!Decide,
           Catalogue!Fail, Catalogue!rows, Catalogue!Exists
<1>4. CASE Catalogue!WriteStanding(w)
    <2>1. /\ request[w].study \in Studies /\ Catalogue!Exists(request[w].study)
          /\ request[w].op = "archive" => request[w].study \in Reported
        BY <1>4 DEF Catalogue!WriteStanding, ArchiveInv, Shape, OnStudy, GroundsHold
    <2>2. standing' = [s \in Studies |->
             IF s = request[w].study
               THEN IF request[w].op = "archive" THEN "archived" ELSE "completed"
               ELSE standing[s]]
        BY <1>4 DEF Catalogue!WriteStanding, ArchiveInv, Shape
    <2>3. UNCHANGED <<Reported, studyAsk, gone>> BY <1>4 DEF Catalogue!WriteStanding, Reported
    <2>4. studyAsk' = [q \in StudyAsks |-> studyAsk'[q]] /\ AsksRefer'
        BY <1>3, <2>3 DEF ArchiveInv, Shape, AsksRefer
    <2>5. \A s \in Studies : standing'[s] = "archived" => s \in Reported'
        BY <2>1, <2>2, <2>3 DEF ArchiveInv
    <2>. QED BY <1>2, <1>3, <2>2, <2>3, <2>4, <2>5, RowsKept
<1>5. CASE Catalogue!RemoveNeed(w)
    <2>1. UNCHANGED <<standing, Reported, studyAsk>> BY <1>5 DEF Catalogue!RemoveNeed, Reported
    <2>2. \E n \in Needs : gone' = gone \cup {n}
        BY <1>5 DEF Catalogue!RemoveNeed, ArchiveInv, Shape
    <2>. QED BY <1>2, <1>3, <2>1, <2>2, RowsKept DEF References, ArchiveInv, Shape, AsksRefer
<1>6. CASE Catalogue!Ask(w) \/ Catalogue!Decide(w)
    <2>1. UNCHANGED <<standing, Reported, gone>>
        BY <1>6 DEF Catalogue!Ask, Catalogue!Decide, Reported
    <2>2. request[w].ask \in StudyAsks BY <1>6
                                          DEF Catalogue!Ask, Catalogue!Decide, ArchiveInv,
                                              Shape
    <2>3. Catalogue!Exists(AskOf[request[w].ask])
        BY <1>6, <2>2 DEF Catalogue!Ask, Catalogue!Decide, ArchiveInv, AsksRefer
    <2>4. \E v : studyAsk' = [q \in StudyAsks |-> IF q = request[w].ask THEN v ELSE studyAsk[q]]
        BY <1>6 DEF Catalogue!Ask, Catalogue!Decide, ArchiveInv, Shape
    <2>5. studyAsk' = [q \in StudyAsks |-> studyAsk'[q]] /\ AsksRefer'
        BY <1>3, <2>3, <2>4 DEF ArchiveInv, AsksRefer
    <2>. QED BY <1>2, <1>3, <2>1, <2>5, RowsKept DEF ArchiveInv, Shape
<1>7. CASE Catalogue!Fail(w)
    <2>1. UNCHANGED <<standing, Reported, studyAsk, gone>>
        BY <1>7 DEF Catalogue!Fail, Catalogue!rows, Reported
    <2>. QED BY <1>2, <1>3, <2>1, RowsKept DEF ArchiveInv, Shape, AsksRefer
<1>. QED BY <1>4, <1>5, <1>6, <1>7

\* What other modules do to needs and reports.
LEMMA ElsewhereKeeps ==
    ASSUME ArchiveInv, Catalogue!Elsewhere
    PROVE  ArchiveInv'
<1>1. UNCHANGED <<cycle, standing, studyAsk, gone, request>> /\ Reported \subseteq Reported'
    BY DEF Catalogue!Elsewhere, Catalogue!CreateNeed, Catalogue!ClassifyNeed,
           Catalogue!PublishNeed, Catalogue!ReleaseReport, Catalogue!TakeReportBack, Reported
<1>2. \A s : Catalogue!Exists(s)' <=> Catalogue!Exists(s) BY <1>1 DEF Catalogue!Exists
<1>3. AsksRefer' BY <1>1, <1>2 DEF ArchiveInv, AsksRefer
<1>. QED BY <1>1, <1>3, RowsKept DEF ArchiveInv, Shape

\* The checks a request passes before it writes.
LEMMA BeginningKeeps ==
    ASSUME ArchiveInv, NEW w \in Workers,
           \/ \E s \in Studies : \/ Catalogue!BeginCreate(w, s) \/ Catalogue!BeginRemoveStudy(w, s)
                                 \/ Catalogue!BeginArchive(w, s) \/ Catalogue!BeginRestore(w, s)
           \/ \E n \in Needs : Catalogue!BeginRemoveNeed(w, n)
           \/ \E q \in StudyAsks : Catalogue!BeginAsk(w, q) \/ Catalogue!BeginDecide(w, q)
    PROVE  ArchiveInv'
<1>1. ASSUME NEW s \in Studies, Catalogue!BeginCreate(w, s) PROVE ArchiveInv'
    BY <1>1, BeginKeeps DEF Catalogue!BeginCreate, OnStudy
<1>2. ASSUME NEW s \in Studies, Catalogue!BeginRemoveStudy(w, s) PROVE ArchiveInv'
    BY <1>2, BeginKeeps DEF Catalogue!BeginRemoveStudy, OnStudy
<1>3. ASSUME NEW s \in Studies, Catalogue!BeginArchive(w, s) PROVE ArchiveInv'
    BY <1>3, BeginKeeps DEF Catalogue!BeginArchive, OnStudy, Reported
<1>4. ASSUME NEW s \in Studies, Catalogue!BeginRestore(w, s) PROVE ArchiveInv'
    BY <1>4, BeginKeeps DEF Catalogue!BeginRestore, OnStudy
<1>5. ASSUME NEW n \in Needs, Catalogue!BeginRemoveNeed(w, n) PROVE ArchiveInv'
    BY <1>5, BeginKeeps DEF Catalogue!BeginRemoveNeed, OnStudy
<1>6. ASSUME NEW q \in StudyAsks, Catalogue!BeginAsk(w, q) PROVE ArchiveInv'
    BY <1>6, BeginKeeps DEF Catalogue!BeginAsk, OnStudy
<1>7. ASSUME NEW q \in StudyAsks, Catalogue!BeginDecide(w, q) PROVE ArchiveInv'
    BY <1>7, BeginKeeps DEF Catalogue!BeginDecide, OnStudy
<1>. QED BY <1>1, <1>2, <1>3, <1>4, <1>5, <1>6, <1>7

LEMMA ArchiveStep ==
    ASSUME References, ArchiveInv, [Catalogue!Next]_catalogueVars
    PROVE  ArchiveInv'
<1>1. CASE UNCHANGED catalogueVars
    BY <1>1
       DEF catalogueVars, Catalogue!rows, ArchiveInv, Shape, UsedOnce, GroundsHold, AsksRefer,
           Reported, Catalogue!Exists
<1>2. CASE Catalogue!Elsewhere BY <1>2, ElsewhereKeeps
<1>3. ASSUME NEW w \in Workers, Catalogue!Handle(w) PROVE ArchiveInv'
    BY <1>3, BeginningKeeps, CreateKeeps, RemoveStudyKeeps, AnswerKeeps DEF Catalogue!Handle
<1>. QED BY <1>1, <1>2, <1>3 DEF Catalogue!Next

\* Only a creation gives a study its number, and the unique index refuses one
\* that is taken.
LEMMA CyclesStep ==
    ASSUME ArchiveInv, Catalogue!CyclesDistinct, [Catalogue!Next]_catalogueVars
    PROVE  Catalogue!CyclesDistinct'
<1>1. CASE cycle' = cycle BY <1>1 DEF Catalogue!CyclesDistinct, Catalogue!Exists
<1>2. ASSUME NEW w \in Workers, Catalogue!Create(w) PROVE Catalogue!CyclesDistinct'
    <2>1. /\ cycle' = [t \in Studies |-> IF t = request[w].study THEN request[w].number
                                          ELSE cycle[t]]
          /\ \A s \in Studies : cycle[s] # request[w].number
        BY <1>2 DEF Catalogue!Create, ArchiveInv, Shape
    <2>. QED BY <2>1 DEF Catalogue!CyclesDistinct, Catalogue!Exists
<1>3. ASSUME NEW w \in Workers, Catalogue!RemoveStudy(w) PROVE Catalogue!CyclesDistinct'
    <2>1. cycle' = [t \in Studies |-> IF t = request[w].study THEN 0 ELSE cycle[t]]
        BY <1>3 DEF Catalogue!RemoveStudy, ArchiveInv, Shape
    <2>. QED BY <2>1 DEF Catalogue!CyclesDistinct, Catalogue!Exists
<1>4. CASE \E w \in Workers : Catalogue!Handle(w)
    BY <1>1, <1>2, <1>3, <1>4
       DEF Catalogue!Handle, Catalogue!Begin, Catalogue!rows, Catalogue!BeginCreate,
           Catalogue!BeginRemoveStudy, Catalogue!BeginArchive, Catalogue!BeginRestore,
           Catalogue!BeginRemoveNeed, Catalogue!BeginAsk, Catalogue!BeginDecide,
           Catalogue!WriteStanding, Catalogue!RemoveNeed, Catalogue!Ask, Catalogue!Decide,
           Catalogue!Fail
<1>5. CASE Catalogue!Elsewhere
    BY <1>1, <1>5
       DEF Catalogue!Elsewhere, Catalogue!CreateNeed, Catalogue!ClassifyNeed,
           Catalogue!PublishNeed, Catalogue!ReleaseReport, Catalogue!TakeReportBack
<1>. QED BY <1>1, <1>4, <1>5 DEF Catalogue!Next, catalogueVars, Catalogue!rows

\* What ArchiveInv says of the archive and of other organisations.
LEMMA ArchivedReported ==
    ASSUME References, ArchiveInv
    PROVE  Catalogue!ArchivedIsReported
BY DEF References, ArchiveInv, AsksRefer, Reported, Catalogue!ArchivedIsReported,
       Catalogue!SharedStudies

-----------------------------------------------------------------------------
\* While requests do not overlap, what was read of a sharing request is still
\* so when the answer is written.
CatalogueCalm ==
    \A w \in Workers :
        /\ request[w].op = "decide" => studyAsk[request[w].ask] = "pending"
        /\ request[w].op = "ask" => studyAsk[request[w].ask] = "none"

LEMMA CatalogueCalmInit == Catalogue!Init => CatalogueCalm
<1>. SUFFICES ASSUME Catalogue!Init PROVE CatalogueCalm
    OBVIOUS
<1>1. \A w \in Workers : request[w].op = "idle"
    BY DEF Catalogue!Init, Catalogue!Idle
<1>. QED BY <1>1 DEF CatalogueCalm

LEMMA CatalogueStaysCalm ==
    ASSUME ArchiveInv, Catalogue!Next,
           \A v \in Workers : request[v] # Catalogue!Idle => request'[v] # request[v]
    PROVE  CatalogueCalm'
<1>0. request = [v \in Workers |-> request[v]]
    BY DEF ArchiveInv, Shape
<1>1. ASSUME NEW w \in Workers, NEW r, Catalogue!Begin(w, r),
             r.op = "decide" => studyAsk[r.ask] = "pending",
             r.op = "ask" => studyAsk[r.ask] = "none"
      PROVE  CatalogueCalm'
  <2>1. /\ studyAsk' = studyAsk
        /\ request'[w] = r /\ \A v \in Workers : v # w => request'[v] = request[v]
      BY <1>0, <1>1 DEF Catalogue!Begin, Catalogue!rows
  <2>2. \A v \in Workers : v # w => request'[v].op = "idle"
      BY <2>1 DEF Catalogue!Idle
  <2>. QED BY <1>1, <2>1, <2>2 DEF CatalogueCalm
<1>2. ASSUME NEW w \in Workers, Catalogue!Answer(w) PROVE CatalogueCalm'
  <2>1. \A v \in Workers : request'[v] = Catalogue!Idle
      BY <1>2, AnswerOf DEF ArchiveInv
  <2>. QED BY <2>1 DEF CatalogueCalm, Catalogue!Idle
<1>3. CASE Catalogue!Elsewhere
  <2>1. request' = request
      BY <1>3
         DEF Catalogue!Elsewhere, Catalogue!CreateNeed, Catalogue!ClassifyNeed,
             Catalogue!PublishNeed, Catalogue!ReleaseReport, Catalogue!TakeReportBack
  <2>2. \A v \in Workers : request'[v] = Catalogue!Idle
      BY <2>1
  <2>. QED BY <2>2 DEF CatalogueCalm, Catalogue!Idle
<1>4. ASSUME NEW w \in Workers, Catalogue!Handle(w) PROVE CatalogueCalm'
  <2>1. CASE \E s \in Studies : \/ Catalogue!BeginCreate(w, s) \/ Catalogue!BeginRemoveStudy(w, s)
                                \/ Catalogue!BeginArchive(w, s) \/ Catalogue!BeginRestore(w, s)
      BY <1>1, <2>1
         DEF Catalogue!BeginCreate, Catalogue!BeginRemoveStudy, Catalogue!BeginArchive,
             Catalogue!BeginRestore
  <2>2. CASE \E n \in Needs : Catalogue!BeginRemoveNeed(w, n)
      BY <1>1, <2>2 DEF Catalogue!BeginRemoveNeed
  <2>3. CASE \E q \in StudyAsks : Catalogue!BeginAsk(w, q) \/ Catalogue!BeginDecide(w, q)
      BY <1>1, <2>3 DEF Catalogue!BeginAsk, Catalogue!BeginDecide
  <2>4. CASE \/ Catalogue!Create(w) \/ Catalogue!RemoveStudy(w) \/ Catalogue!WriteStanding(w)
             \/ Catalogue!RemoveNeed(w) \/ Catalogue!Ask(w) \/ Catalogue!Decide(w) \/ Catalogue!Fail(w)
      BY <1>2, <2>4
         DEF Catalogue!Create, Catalogue!RemoveStudy, Catalogue!WriteStanding,
             Catalogue!RemoveNeed, Catalogue!Ask, Catalogue!Decide, Catalogue!Fail
  <2>. QED BY <1>4, <2>1, <2>2, <2>3, <2>4 DEF Catalogue!Handle
<1>. QED BY <1>3, <1>4 DEF Catalogue!Next

LEMMA AskDecidedStep ==
    ASSUME ArchiveInv, CatalogueCalm, [Catalogue!Next]_catalogueVars,
           NEW q \in StudyAsks, studyAsk[q] \in Catalogue!Decided
    PROVE  studyAsk'[q] \in {studyAsk[q], "none"}
<1>0. studyAsk = [p \in StudyAsks |-> studyAsk[p]]
    BY DEF ArchiveInv, Shape
<1>1. CASE studyAsk' = studyAsk
    BY <1>1
<1>2. ASSUME NEW w \in Workers, Catalogue!Ask(w) \/ Catalogue!Decide(w)
      PROVE  studyAsk'[q] = studyAsk[q]
  <2>1. request[w].ask # q
      BY <1>2 DEF Catalogue!Ask, Catalogue!Decide, CatalogueCalm, Catalogue!Decided
  <2>. QED BY <1>0, <1>2, <2>1 DEF Catalogue!Ask, Catalogue!Decide
<1>3. ASSUME NEW w \in Workers, Catalogue!RemoveStudy(w)
      PROVE  studyAsk'[q] \in {studyAsk[q], "none"}
    BY <1>0, <1>3 DEF Catalogue!RemoveStudy
<1>4. \/ studyAsk' = studyAsk
      \/ \E w \in Workers : Catalogue!Ask(w) \/ Catalogue!Decide(w) \/ Catalogue!RemoveStudy(w)
    BY DEF Catalogue!Next, Catalogue!Handle, Catalogue!Elsewhere, catalogueVars,
           Catalogue!Begin, Catalogue!rows, Catalogue!BeginCreate, Catalogue!BeginRemoveStudy,
           Catalogue!BeginArchive, Catalogue!BeginRestore, Catalogue!BeginRemoveNeed,
           Catalogue!BeginAsk, Catalogue!BeginDecide, Catalogue!Create, Catalogue!WriteStanding,
           Catalogue!RemoveNeed, Catalogue!Fail, Catalogue!CreateNeed, Catalogue!ClassifyNeed,
           Catalogue!PublishNeed, Catalogue!ReleaseReport, Catalogue!TakeReportBack
<1>. QED BY <1>1, <1>2, <1>3, <1>4

-----------------------------------------------------------------------------
(***************************************************************************)
(* The types of the catalogue.  The next cycle number is within them       *)
(* because there is a highest one: the least number that none exceeds.     *)
(***************************************************************************)
LEMMA LeastOf ==
    ASSUME NEW B \in SUBSET Nat, B # {}
    PROVE  \E k \in B : \A j \in B : k <= j
<1>1. PICK k \in B : \A j \in B : ~(<<j, k>> \in OpToRel(<, Nat))
    BY NatLessThanWellFounded, WFMin
<1>2. \A j \in B : ~(j < k)
    BY <1>1 DEF OpToRel
<1>. QED BY <1>2

LEMMA HighestExists ==
    ASSUME Catalogue!TypeOK
    PROVE  Catalogue!HighestCycle \in 0..Cardinality(Studies)
<1>. DEFINE top == Cardinality(Studies)
            B   == {k \in 0..top : \A s \in Studies : cycle[s] <= k}
<1>1. top \in Nat
    BY ValuesAssumption, FS_CardinalityType
<1>2. \A s \in Studies : cycle[s] \in 0..top
    BY DEF Catalogue!TypeOK, Catalogue!Cardinality, Cardinality
<1>. HIDE DEF top
<1>3. B \in SUBSET Nat /\ top \in B
    BY <1>1, <1>2
<1>4. PICK k \in B : \A j \in B : k <= j
    BY <1>3, LeastOf
<1>5. k = 0 \/ \E s \in Studies : cycle[s] = k
  <2>1. ASSUME k # 0, \A s \in Studies : cycle[s] # k PROVE FALSE
    <3>1. k - 1 \in 0..top /\ k \in 0..top
        BY <1>1, <2>1
    <3>2. \A s \in Studies : cycle[s] <= k - 1
        BY <1>1, <1>2, <2>1, <3>1
    <3>. QED BY <1>1, <1>4, <3>1, <3>2
  <2>. QED BY <2>1
<1>6. \E h \in 0..top : /\ \A s \in Studies : cycle[s] <= h
                        /\ h = 0 \/ \E s \in Studies : cycle[s] = h
    BY <1>4, <1>5
<1>7. Catalogue!HighestCycle = CHOOSE h \in 0..top :
          /\ \A s \in Studies : cycle[s] <= h
          /\ h = 0 \/ \E s \in Studies : cycle[s] = h
    BY DEF Catalogue!HighestCycle, top, Catalogue!Cardinality, Cardinality
<1>8. Catalogue!HighestCycle \in 0..top
    BY <1>6, <1>7
<1>. QED BY <1>8 DEF top

LEMMA CatalogueTyped ==
    ASSUME References, Catalogue!TypeOK, [Catalogue!Next]_catalogueVars
    PROVE  Catalogue!TypeOK'
<1>. DEFINE rows == /\ cycle' \in [Studies -> 0..Catalogue!Cardinality(Studies)]
                    /\ standing' \in [Studies -> {"none", "active", "archived", "completed"}]
                    /\ stage' \in [Needs -> {"none"} \cup Catalogue!Editable \cup Catalogue!Advanced]
                    /\ released' \subseteq Studies /\ withdrawn' \subseteq Studies
                    /\ studyAsk' \in [StudyAsks -> {"none", "pending"} \cup Catalogue!Decided]
                    /\ gone' \subseteq Studies \cup Needs
<1>1. UNCHANGED Catalogue!rows => rows
    BY DEF Catalogue!rows, Catalogue!TypeOK
<1>2. ASSUME rows, request' \in [Workers -> Catalogue!Requests] PROVE Catalogue!TypeOK'
  <2>1. Catalogue!Requests' = Catalogue!Requests
      BY DEF Catalogue!Requests, Catalogue!Idle, Catalogue!Decided, Catalogue!Cardinality,
             Cardinality
  <2>. QED BY <1>2, <2>1 DEF Catalogue!TypeOK, Catalogue!Editable, Catalogue!Advanced,
                             Catalogue!Decided, Catalogue!Cardinality
<1>3. ASSUME NEW w \in Workers, NEW r \in Catalogue!Requests, Catalogue!Begin(w, r)
      PROVE  Catalogue!TypeOK'
  <2>1. request' \in [Workers -> Catalogue!Requests]
      BY <1>3 DEF Catalogue!Begin, Catalogue!TypeOK
  <2>. QED BY <1>1, <1>2, <1>3, <2>1 DEF Catalogue!Begin
<1>4. ASSUME NEW w \in Workers, Catalogue!Answer(w), rows PROVE Catalogue!TypeOK'
  <2>1. Catalogue!Idle \in Catalogue!Requests
      BY DEF Catalogue!Requests
  <2>2. request' \in [Workers -> Catalogue!Requests]
      BY <1>4, <2>1 DEF Catalogue!Answer, Catalogue!TypeOK
  <2>. QED BY <1>2, <1>4, <2>2
<1>5. \A w \in Workers :
        /\ request[w].op \in {"create", "removeStudy", "archive", "restore"}
             => request[w].study \in Studies
        /\ request[w].op = "create" => request[w].number \in 1..Catalogue!Cardinality(Studies)
        /\ request[w].op = "removeNeed" => request[w].need \in Needs
        /\ request[w].op \in {"ask", "decide"} => request[w].ask \in StudyAsks
        /\ request[w].op = "decide" => request[w].verdict \in Catalogue!Decided
  <2>. SUFFICES ASSUME NEW w \in Workers
                PROVE  /\ request[w].op \in {"create", "removeStudy", "archive", "restore"}
                            => request[w].study \in Studies
                       /\ request[w].op = "create"
                            => request[w].number \in 1..Catalogue!Cardinality(Studies)
                       /\ request[w].op = "removeNeed" => request[w].need \in Needs
                       /\ request[w].op \in {"ask", "decide"} => request[w].ask \in StudyAsks
                       /\ request[w].op = "decide" => request[w].verdict \in Catalogue!Decided
      OBVIOUS
  <2>1. request[w] \in Catalogue!Requests
      BY DEF Catalogue!TypeOK
  <2>. QED BY <2>1 DEF Catalogue!Requests, Catalogue!Idle
<1>6. CASE UNCHANGED catalogueVars
  <2>1. rows
      BY <1>1, <1>6 DEF catalogueVars, Catalogue!rows
  <2>. QED BY <1>2, <1>6, <2>1 DEF catalogueVars, Catalogue!TypeOK
<1>7. CASE Catalogue!Elsewhere
  <2>1. rows /\ request' = request
      BY <1>7 DEF Catalogue!Elsewhere, Catalogue!CreateNeed, Catalogue!ClassifyNeed,
                  Catalogue!PublishNeed, Catalogue!ReleaseReport, Catalogue!TakeReportBack,
                  Catalogue!TypeOK,
                  Catalogue!Editable, Catalogue!Advanced
  <2>. QED BY <1>2, <2>1 DEF Catalogue!TypeOK
<1>8. ASSUME NEW w \in Workers, NEW s \in Studies,
             \/ Catalogue!BeginCreate(w, s) \/ Catalogue!BeginRemoveStudy(w, s)
             \/ Catalogue!BeginArchive(w, s) \/ Catalogue!BeginRestore(w, s)
      PROVE  Catalogue!TypeOK'
  <2>1. CASE Catalogue!BeginCreate(w, s)
    <3>1. Catalogue!HighestCycle + 1 \in 1..Catalogue!Cardinality(Studies)
      <4>1. Cardinality(Studies) \in Nat
          BY ValuesAssumption, FS_CardinalityType
      <4>2. Catalogue!HighestCycle < Catalogue!Cardinality(Studies)
          BY <2>1 DEF Catalogue!BeginCreate
      <4>. QED BY <4>1, <4>2, HighestExists DEF Catalogue!Cardinality, Cardinality
    <3>2. [op |-> "create", study |-> s, number |-> Catalogue!HighestCycle + 1]
            \in Catalogue!Requests
        BY <3>1 DEF Catalogue!Requests
    <3>. QED BY <1>3, <2>1, <3>2 DEF Catalogue!BeginCreate
  <2>2. \A op \in {"removeStudy", "archive", "restore"} :
            [op |-> op, study |-> s] \in Catalogue!Requests
      BY DEF Catalogue!Requests
  <2>. QED BY <1>3, <1>8, <2>1, <2>2
           DEF Catalogue!BeginRemoveStudy, Catalogue!BeginArchive, Catalogue!BeginRestore
<1>9. ASSUME NEW w \in Workers, NEW n \in Needs, Catalogue!BeginRemoveNeed(w, n)
      PROVE  Catalogue!TypeOK'
  <2>1. [op |-> "removeNeed", need |-> n] \in Catalogue!Requests
      BY DEF Catalogue!Requests
  <2>. QED BY <1>3, <1>9, <2>1 DEF Catalogue!BeginRemoveNeed
<1>10. ASSUME NEW w \in Workers, NEW q \in StudyAsks,
              Catalogue!BeginAsk(w, q) \/ Catalogue!BeginDecide(w, q)
       PROVE  Catalogue!TypeOK'
  <2>1. /\ [op |-> "ask", ask |-> q] \in Catalogue!Requests
        /\ \A v \in Catalogue!Decided :
              [op |-> "decide", ask |-> q, verdict |-> v] \in Catalogue!Requests
      BY DEF Catalogue!Requests
  <2>. QED BY <1>3, <1>10, <2>1 DEF Catalogue!BeginAsk, Catalogue!BeginDecide
<1>11. ASSUME NEW w \in Workers, Catalogue!Create(w) PROVE Catalogue!TypeOK'
  <2>0. request[w].study \in Studies /\ request[w].number \in 0..Catalogue!Cardinality(Studies)
    <3>1. request[w].op = "create" BY <1>11 DEF Catalogue!Create
    <3>2. \A n : n \in 1..Catalogue!Cardinality(Studies) => n \in 0..Catalogue!Cardinality(Studies)
        BY ValuesAssumption, FS_CardinalityType DEF Catalogue!Cardinality, Cardinality
    <3>. QED BY <1>5, <3>1, <3>2
  <2>1. rows
      BY <1>11, <2>0 DEF Catalogue!Create, Catalogue!TypeOK
  <2>. QED BY <1>4, <1>11, <2>1 DEF Catalogue!Create
<1>12. ASSUME NEW w \in Workers, Catalogue!RemoveStudy(w) PROVE Catalogue!TypeOK'
  <2>1. rows
    <3>1. request[w].study \in Studies
        BY <1>5, <1>12 DEF Catalogue!RemoveStudy
    <3>2. Cardinality(Studies) \in Nat
        BY ValuesAssumption, FS_CardinalityType
    <3>3. 0 \in 0..Catalogue!Cardinality(Studies)
        BY <3>2 DEF Catalogue!Cardinality, Cardinality
    <3>. QED BY <1>12, <3>1, <3>3 DEF Catalogue!RemoveStudy, Catalogue!TypeOK, Catalogue!NeedsOf
  <2>. QED BY <1>4, <1>12, <2>1 DEF Catalogue!RemoveStudy
<1>13. ASSUME NEW w \in Workers, Catalogue!WriteStanding(w) PROVE Catalogue!TypeOK'
  <2>1. rows
      BY <1>13 DEF Catalogue!WriteStanding, Catalogue!TypeOK
  <2>. QED BY <1>4, <1>13, <2>1 DEF Catalogue!WriteStanding
<1>14. ASSUME NEW w \in Workers, Catalogue!RemoveNeed(w) PROVE Catalogue!TypeOK'
  <2>1. rows
      BY <1>5, <1>14 DEF Catalogue!RemoveNeed, Catalogue!TypeOK
  <2>. QED BY <1>4, <1>14, <2>1 DEF Catalogue!RemoveNeed
<1>15. ASSUME NEW w \in Workers, Catalogue!Ask(w) \/ Catalogue!Decide(w) PROVE Catalogue!TypeOK'
  <2>1. rows
      BY <1>5, <1>15 DEF Catalogue!Ask, Catalogue!Decide, Catalogue!TypeOK
  <2>. QED BY <1>4, <1>15, <2>1 DEF Catalogue!Ask, Catalogue!Decide
<1>16. ASSUME NEW w \in Workers, Catalogue!Fail(w) PROVE Catalogue!TypeOK'
    BY <1>1, <1>4, <1>16 DEF Catalogue!Fail
<1>. QED
    BY <1>6, <1>7, <1>8, <1>9, <1>10, <1>11, <1>12, <1>13, <1>14, <1>15, <1>16
    DEF Catalogue!Next, Catalogue!Handle

-----------------------------------------------------------------------------
(***************************************************************************)
(* Narratives                                                              *)
(***************************************************************************)
\* As much of the types as the argument needs.
NarrativesTyped ==
    /\ kind = [i \in Summaries!Ids |-> kind[i]]
    /\ narrative = [i \in Summaries!Ids |-> narrative[i]]
    /\ subject = [i \in Summaries!Ids |-> subject[i]]
    /\ sources = [i \in Summaries!Ids |-> sources[i]]
    /\ officer = [o \in Workers |-> officer[o]]
    /\ \A o \in Workers :
          officer[o].step \in {"edit", "supersede", "confirm"} => officer[o].id \in Summaries!Ids

\* A combined narrative draws on narratives of documents that have a row: a
\* row that goes is taken out of all sources.
DrawsOnPapers == \A i \in Summaries!Ids : sources[i] \subseteq Summaries!Rows("paper")

SummariesInv == NarrativesTyped /\ DrawsOnPapers

\* Confirmed, and not of the scores: what the promise of one is about.
Single(i) == narrative[i] = "OFFICER_CONFIRMED" /\ kind[i] # "score"

\* While requests do not overlap, a narrative about to be confirmed has no
\* confirmed peer left, and a document about to be deleted is not drawn on by
\* a confirmed combined narrative.
SummariesCalm ==
    /\ Summaries!OneConfirmed
    /\ \A o \in Workers :
          /\ officer[o].step = "confirm" => Summaries!Peers(officer[o].id) = {}
          /\ officer[o].step = "delete" =>
                \A i \in Summaries!Confirmed("combined") :
                    sources[i] \cap Summaries!About(officer[o].paper) = {}

LEMMA SummariesInit == Summaries!Init => SummariesInv /\ SummariesCalm
<1>. SUFFICES ASSUME Summaries!Init PROVE SummariesInv /\ SummariesCalm
    OBVIOUS
<1>1. \A o \in Workers : officer[o].step = "idle"
    BY DEF Summaries!Init, Summaries!Free
<1>2. NarrativesTyped
    BY <1>1 DEF Summaries!Init, NarrativesTyped
<1>3. DrawsOnPapers
    BY DEF Summaries!Init, DrawsOnPapers
<1>4. Summaries!OneConfirmed
    BY DEF Summaries!Init, Summaries!OneConfirmed
<1>. QED BY <1>1, <1>2, <1>3, <1>4 DEF SummariesInv, SummariesCalm

-----------------------------------------------------------------------------
(***************************************************************************)
(* What one write does to the rows                                         *)
(***************************************************************************)
LEMMA MarkOf ==
    ASSUME NEW ids, NEW st, Summaries!Mark(ids, st)
    PROVE  /\ narrative' = [i \in Summaries!Ids |-> narrative'[i]]
           /\ \A i \in Summaries!Ids : narrative'[i] = IF i \in ids THEN st ELSE narrative[i]
BY DEF Summaries!Mark

\* A narrative is filed under an identifier that has no row.
LEMMA InsertOf ==
    ASSUME NarrativesTyped, NEW i \in Summaries!Ids, NEW k, NEW whose, NEW on, NEW drawn, NEW of,
           Summaries!Insert(i, k, whose, on, drawn, of)
    PROVE  /\ narrative[i] = "none"
           /\ kind' = [j \in Summaries!Ids |-> IF j = i THEN k ELSE kind[j]]
           /\ subject' = [j \in Summaries!Ids |-> IF j = i THEN whose ELSE subject[j]]
           /\ sources' = [j \in Summaries!Ids |-> IF j = i THEN drawn ELSE sources[j]]
BY DEF Summaries!Insert, Summaries!Fresh, Summaries!Unused, NarrativesTyped

\* The tasks of the others stay as they are.
LEMMA TaskOf ==
    ASSUME NarrativesTyped, NEW o \in Workers, NEW t, officer' = [officer EXCEPT ![o] = t],
           t.step \in {"edit", "supersede", "confirm"} => t.id \in Summaries!Ids
    PROVE  /\ officer' = [p \in Workers |-> officer'[p]]
           /\ officer'[o] = t
           /\ \A p \in Workers : p # o => officer'[p] = officer[p]
           /\ \A p \in Workers : officer'[p].step \in {"edit", "supersede", "confirm"}
                                    => officer'[p].id \in Summaries!Ids
<1>1. officer' = [p \in Workers |-> IF p = o THEN t ELSE officer[p]]
    BY DEF NarrativesTyped
<1>. QED BY <1>1 DEF NarrativesTyped

\* A step that only changes statuses, of rows that are there, keeps the types
\* and the sources.
LEMMA StatusKeeps ==
    ASSUME SummariesInv, UNCHANGED <<kind, subject, sources>>,
           narrative' = [i \in Summaries!Ids |-> narrative'[i]],
           \A i \in Summaries!Ids : narrative[i] # "none" => narrative'[i] # "none",
           officer' = [p \in Workers |-> officer'[p]],
           \A p \in Workers : officer'[p].step \in {"edit", "supersede", "confirm"}
                                 => officer'[p].id \in Summaries!Ids
    PROVE  SummariesInv'
<1>1. NarrativesTyped'
    BY DEF SummariesInv, NarrativesTyped, Summaries!Ids
<1>2. DrawsOnPapers'
    BY DEF SummariesInv, DrawsOnPapers, Summaries!Rows, Summaries!Ids
<1>. QED BY <1>1, <1>2 DEF SummariesInv

\* A step that files one narrative.
LEMMA FilingKeeps ==
    ASSUME SummariesInv, NEW i \in Summaries!Ids, NEW k, NEW whose, NEW on, NEW drawn, NEW of,
           Summaries!Insert(i, k, whose, on, drawn, of),
           drawn \subseteq Summaries!Rows("paper"),
           narrative' = [j \in Summaries!Ids |-> narrative'[j]],
           \A j \in Summaries!Ids : narrative[j] # "none" => narrative'[j] # "none",
           NEW o \in Workers, Summaries!Answer(o)
    PROVE  SummariesInv'
<1>1. /\ narrative[i] = "none"
      /\ kind' = [j \in Summaries!Ids |-> IF j = i THEN k ELSE kind[j]]
      /\ subject' = [j \in Summaries!Ids |-> IF j = i THEN whose ELSE subject[j]]
      /\ sources' = [j \in Summaries!Ids |-> IF j = i THEN drawn ELSE sources[j]]
    BY InsertOf DEF SummariesInv
<1>2. /\ officer' = [p \in Workers |-> officer'[p]]
      /\ \A p \in Workers : officer'[p].step \in {"edit", "supersede", "confirm"}
                               => officer'[p].id \in Summaries!Ids
    BY TaskOf DEF SummariesInv, Summaries!Answer, Summaries!Free
<1>3. NarrativesTyped'
    BY <1>1, <1>2 DEF NarrativesTyped, Summaries!Ids
<1>4. Summaries!Rows("paper") \subseteq Summaries!Rows("paper")'
    BY <1>1 DEF Summaries!Rows, Summaries!Ids
<1>5. DrawsOnPapers'
    BY <1>1, <1>4 DEF SummariesInv, DrawsOnPapers, Summaries!Ids
<1>. QED BY <1>3, <1>5 DEF SummariesInv

\* A deletion takes its rows out of the sources of all others.
LEMMA ErasureKeeps ==
    ASSUME SummariesInv, NEW ids, Summaries!Erase(ids), UNCHANGED <<kind, subject>>,
           officer' = [p \in Workers |-> officer'[p]],
           \A p \in Workers : officer'[p].step \in {"edit", "supersede", "confirm"}
                                 => officer'[p].id \in Summaries!Ids
    PROVE  SummariesInv'
<1>. DEFINE erased == ids \cup {i \in Summaries!Rows("combined") : basis[i] \cap ids # {}}
<1>1. /\ Summaries!Mark(erased, "none")
      /\ sources' = [i \in Summaries!Ids |-> IF i \in erased THEN {} ELSE sources[i] \ erased]
    BY DEF Summaries!Erase
<1>2. /\ narrative' = [i \in Summaries!Ids |-> narrative'[i]]
      /\ \A i \in Summaries!Ids : narrative'[i] = IF i \in erased THEN "none" ELSE narrative[i]
    BY <1>1, MarkOf
<1>. HIDE DEF erased
<1>3. NarrativesTyped'
    BY <1>1, <1>2 DEF SummariesInv, NarrativesTyped, Summaries!Ids
<1>4. Summaries!Rows("paper") \ erased \subseteq Summaries!Rows("paper")'
    BY <1>2 DEF Summaries!Rows, Summaries!Ids
<1>5. DrawsOnPapers'
    BY <1>1, <1>4 DEF SummariesInv, DrawsOnPapers, Summaries!Ids
<1>. QED BY <1>3, <1>5 DEF SummariesInv

-----------------------------------------------------------------------------
(***************************************************************************)
(* The steps                                                               *)
(***************************************************************************)
\* A request begins.
LEMMA RequestKeeps ==
    ASSUME SummariesInv, NEW o \in Workers, NEW t, Summaries!Begin(o, t),
           t.step \in {"edit", "supersede", "confirm"} => t.id \in Summaries!Ids
    PROVE  SummariesInv'
<1>1. UNCHANGED <<kind, narrative, subject, sources>> /\ officer' = [officer EXCEPT ![o] = t]
    BY DEF Summaries!Begin, Summaries!shelf, Summaries!narratives
<1>2. NarrativesTyped
    BY DEF SummariesInv
<1>3. narrative' = [i \in Summaries!Ids |-> narrative'[i]]
    BY <1>1, <1>2 DEF NarrativesTyped
<1>4. \A i \in Summaries!Ids : narrative[i] # "none" => narrative'[i] # "none"
    BY <1>1
<1>. QED BY <1>1, <1>2, <1>3, <1>4, TaskOf, StatusKeeps

\* Every request that begins does so on a row that is there.
LEMMA RequestTask ==
    ASSUME NEW o \in Workers, Summaries!Request(o)
    PROVE  \E t : /\ Summaries!Begin(o, t)
                  /\ t.step \notin {"confirm", "unconfirm"}
                  /\ t.step \in {"edit", "supersede"} =>
                        t.id \in Summaries!Rows("paper") \cup Summaries!Rows("combined")
                  /\ t.step = "delete" =>
                        \A i \in Summaries!Confirmed("combined") :
                            sources[i] \cap Summaries!About(t.paper) = {}
<1>1. CASE \E d \in Papers : Summaries!BeginToggle(o, d)
    BY <1>1 DEF Summaries!BeginToggle
<1>2. CASE \E d \in Papers : Summaries!BeginDelete(o, d)
    BY <1>2 DEF Summaries!BeginDelete
<1>3. CASE \E d \in Papers : Summaries!BeginSummarise(o, d)
    BY <1>3 DEF Summaries!BeginSummarise
<1>4. CASE Summaries!BeginCombine(o)
    BY <1>4 DEF Summaries!BeginCombine
<1>5. CASE Summaries!BeginEdit(o)
    BY <1>5 DEF Summaries!BeginEdit
<1>6. CASE Summaries!BeginNarrate(o)
    BY <1>6 DEF Summaries!BeginNarrate
<1>7. CASE Summaries!BeginFile(o)
    BY <1>7 DEF Summaries!BeginFile
<1>. QED BY <1>1, <1>2, <1>3, <1>4, <1>5, <1>6, <1>7 DEF Summaries!Request

\* What a request that changes statuses does next, if anything.
MovesTo(o, t) ==
    /\ officer' = [officer EXCEPT ![o] = t]
    /\ t.step \in {"idle", "unconfirm", "confirm"}
    /\ t.step = "confirm" =>
          /\ t.id \in Summaries!Ids
          /\ officer[o].step = "supersede" /\ t.id = officer[o].id
          /\ \A i \in Summaries!Ids : narrative'[i] =
                IF i \in Summaries!Peers(t.id) THEN "SUPERSEDED" ELSE narrative[i]

LEMMA AnswerMoves ==
    ASSUME NEW o \in Workers, Summaries!Answer(o)
    PROVE  \E t : MovesTo(o, t)
<1>1. MovesTo(o, Summaries!Free)
    BY DEF MovesTo, Summaries!Answer, Summaries!Free
<1>. QED BY <1>1

\* Which statuses it gives, and to which rows.
StatusesOf(o) ==
    /\ UNCHANGED <<kind, subject, sources>>
    /\ narrative' = [i \in Summaries!Ids |-> narrative'[i]]
    /\ \A i \in Summaries!Ids : narrative[i] # "none" => narrative'[i] # "none"
    /\ \A i \in Summaries!Ids :
          narrative'[i] = "OFFICER_CONFIRMED" =>
             \/ narrative[i] = "OFFICER_CONFIRMED"
             \/ officer[o].step = "confirm" /\ i = officer[o].id /\ narrative[i] # "none"

\* The writes that only change statuses.
LEMMA StatusWrites ==
    ASSUME SummariesInv, NEW o \in Workers,
           \/ Summaries!Unconfirm(o) \/ Summaries!Edit(o) \/ Summaries!Supersede(o)
           \/ Summaries!Confirm(o) \/ Summaries!Toggle(o) \/ Summaries!File(o) \/ Summaries!Fail(o)
    PROVE  StatusesOf(o) /\ \E t : MovesTo(o, t)
<1>0. NarrativesTyped
    BY DEF SummariesInv
<1>1. CASE Summaries!Unconfirm(o)
  <2>1. Summaries!Mark(Summaries!Confirmed("combined"), "STALE")
      BY <1>1 DEF Summaries!Unconfirm
  <2>2. /\ narrative' = [i \in Summaries!Ids |-> narrative'[i]]
        /\ \A i \in Summaries!Ids : narrative'[i] =
              IF i \in Summaries!Confirmed("combined") THEN "STALE" ELSE narrative[i]
      BY <2>1, MarkOf
  <2>3. UNCHANGED <<kind, subject, sources>> /\ Summaries!Answer(o)
      BY <1>1 DEF Summaries!Unconfirm, Summaries!OnlyStanding
  <2>. QED BY <2>2, <2>3, AnswerMoves DEF StatusesOf
<1>2. CASE Summaries!Edit(o)
  <2>1. Summaries!Mark({officer[o].id}, "DRAFT")
      BY <1>2 DEF Summaries!Edit
  <2>2. /\ narrative' = [i \in Summaries!Ids |-> narrative'[i]]
        /\ \A i \in Summaries!Ids : narrative'[i] =
              IF i \in {officer[o].id} THEN "DRAFT" ELSE narrative[i]
      BY <2>1, MarkOf
  <2>3. UNCHANGED <<kind, subject, sources>> /\ Summaries!Answer(o)
      BY <1>2 DEF Summaries!Edit, Summaries!OnlyStanding
  <2>. QED BY <2>2, <2>3, AnswerMoves DEF StatusesOf
<1>3. CASE Summaries!Supersede(o)
  <2>1. Summaries!Mark(Summaries!Peers(officer[o].id), "SUPERSEDED")
      BY <1>3 DEF Summaries!Supersede
  <2>2. officer[o].id \in Summaries!Ids
      BY <1>0, <1>3 DEF NarrativesTyped, Summaries!Supersede
  <2>3. /\ narrative' = [i \in Summaries!Ids |-> narrative'[i]]
        /\ \A i \in Summaries!Ids : narrative'[i] =
              IF i \in Summaries!Peers(officer[o].id) THEN "SUPERSEDED" ELSE narrative[i]
      BY <2>1, MarkOf
  <2>4. UNCHANGED <<kind, subject, sources>>
      BY <1>3 DEF Summaries!Supersede, Summaries!OnlyStanding
  <2>5. /\ officer' = [officer EXCEPT ![o] = [step |-> "confirm", id |-> officer[o].id]]
        /\ officer[o].step = "supersede"
      BY <1>3 DEF Summaries!Supersede, Summaries!Goto
  <2>6. MovesTo(o, [step |-> "confirm", id |-> officer[o].id])
      BY <2>2, <2>3, <2>5 DEF MovesTo
  <2>7. StatusesOf(o)
      BY <2>3, <2>4 DEF StatusesOf
  <2>. QED BY <2>6, <2>7
<1>4. CASE Summaries!Confirm(o)
  <2>1. /\ Summaries!Mark({officer[o].id}, "OFFICER_CONFIRMED")
        /\ narrative[officer[o].id] # "none" /\ officer[o].step = "confirm"
      BY <1>4 DEF Summaries!Confirm
  <2>2. /\ narrative' = [i \in Summaries!Ids |-> narrative'[i]]
        /\ \A i \in Summaries!Ids : narrative'[i] =
              IF i \in {officer[o].id} THEN "OFFICER_CONFIRMED" ELSE narrative[i]
      BY <2>1, MarkOf
  <2>3. UNCHANGED <<kind, subject, sources>> /\ Summaries!Answer(o)
      BY <1>4 DEF Summaries!Confirm, Summaries!OnlyStanding
  <2>. QED BY <2>1, <2>2, <2>3, AnswerMoves DEF StatusesOf
<1>5. CASE Summaries!Toggle(o)
  <2>1. /\ UNCHANGED <<kind, narrative, subject, sources>>
        /\ officer' = [officer EXCEPT ![o] = [step |-> "unconfirm", paper |-> officer[o].paper]]
      BY <1>5 DEF Summaries!Toggle, Summaries!narratives, Summaries!Goto
  <2>2. MovesTo(o, [step |-> "unconfirm", paper |-> officer[o].paper])
      BY <2>1 DEF MovesTo
  <2>3. StatusesOf(o)
      BY <1>0, <2>1 DEF NarrativesTyped, StatusesOf
  <2>. QED BY <2>2, <2>3
<1>6. CASE Summaries!File(o) \/ Summaries!Fail(o)
  <2>1. UNCHANGED <<kind, narrative, subject, sources>> /\ Summaries!Answer(o)
      BY <1>6 DEF Summaries!File, Summaries!Fail, Summaries!shelf, Summaries!narratives
  <2>2. StatusesOf(o)
      BY <1>0, <2>1 DEF NarrativesTyped, StatusesOf
  <2>. QED BY <2>1, <2>2, AnswerMoves
<1>. QED BY <1>1, <1>2, <1>3, <1>4, <1>5, <1>6

\* A narrative filed as a draft, and the answer.
FiledBy(o) ==
    /\ \E i, k, whose, on, drawn, of :
          /\ i \in Summaries!Ids /\ Summaries!Insert(i, k, whose, on, drawn, of)
          /\ drawn \subseteq Summaries!Rows("paper")
    /\ narrative' = [j \in Summaries!Ids |-> narrative'[j]]
    /\ \A j \in Summaries!Ids :
          /\ narrative[j] # "none" => narrative'[j] # "none"
          /\ narrative'[j] = "OFFICER_CONFIRMED" => narrative[j] = "OFFICER_CONFIRMED"
    /\ Summaries!Answer(o)

LEMMA FilingWrites ==
    ASSUME SummariesInv, NEW o \in Workers,
           Summaries!Summarise(o) \/ Summaries!Combine(o) \/ Summaries!Narrate(o)
    PROVE  FiledBy(o)
<1>0. \A i \in Summaries!Fresh : i \in Summaries!Ids
    BY DEF Summaries!Fresh
<1>1. CASE Summaries!Summarise(o)
  <2>1. PICK i \in Summaries!Fresh :
            /\ Summaries!Insert(i, "paper", {officer[o].paper}, {}, {}, 0)
            /\ Summaries!Mark({i}, "DRAFT")
      BY <1>1 DEF Summaries!Summarise
  <2>2. /\ narrative' = [j \in Summaries!Ids |-> narrative'[j]]
        /\ \A j \in Summaries!Ids : narrative'[j] = IF j \in {i} THEN "DRAFT" ELSE narrative[j]
      BY <2>1, MarkOf
  <2>3. {} \subseteq Summaries!Rows("paper")
      OBVIOUS
  <2>4. Summaries!Answer(o)
      BY <1>1 DEF Summaries!Summarise
  <2>5. \E j, k, whose, on, drawn, of :
           /\ j \in Summaries!Ids /\ Summaries!Insert(j, k, whose, on, drawn, of)
           /\ drawn \subseteq Summaries!Rows("paper")
      BY <1>0, <2>1, <2>3
  <2>. QED BY <2>2, <2>4, <2>5 DEF FiledBy
<1>2. CASE Summaries!Combine(o)
  <2>1. PICK i \in Summaries!Fresh :
            /\ Summaries!Insert(i, "combined", {}, {officer[o].score}, officer[o].of, 0)
            /\ Summaries!Mark({i}, "DRAFT")
      BY <1>2 DEF Summaries!Combine
  <2>2. /\ narrative' = [j \in Summaries!Ids |-> narrative'[j]]
        /\ \A j \in Summaries!Ids : narrative'[j] = IF j \in {i} THEN "DRAFT" ELSE narrative[j]
      BY <2>1, MarkOf
  <2>3. officer[o].of \subseteq Summaries!Rows("paper") /\ Summaries!Answer(o)
      BY <1>2 DEF Summaries!Combine
  <2>5. \E j, k, whose, on, drawn, of :
           /\ j \in Summaries!Ids /\ Summaries!Insert(j, k, whose, on, drawn, of)
           /\ drawn \subseteq Summaries!Rows("paper")
      BY <1>0, <2>1, <2>3
  <2>. QED BY <2>2, <2>3, <2>5 DEF FiledBy
<1>3. CASE Summaries!Narrate(o)
  <2>1. PICK i \in Summaries!Fresh :
            /\ Summaries!Insert(i, "score", {}, {}, {}, officer[o].figures)
            /\ narrative' = [j \in Summaries!Ids |->
                  IF j = i THEN "DRAFT"
                  ELSE IF j \in Summaries!Rows("score") /\ narrative[j] \in {"DRAFT", "STALE"}
                       THEN "SUPERSEDED" ELSE narrative[j]]
      BY <1>3 DEF Summaries!Narrate
  <2>2. /\ narrative' = [j \in Summaries!Ids |-> narrative'[j]]
        /\ \A j \in Summaries!Ids :
              /\ narrative[j] # "none" => narrative'[j] # "none"
              /\ narrative'[j] = "OFFICER_CONFIRMED" => narrative[j] = "OFFICER_CONFIRMED"
      BY <2>1
  <2>3. {} \subseteq Summaries!Rows("paper")
      OBVIOUS
  <2>4. Summaries!Answer(o)
      BY <1>3 DEF Summaries!Narrate
  <2>5. \E j, k, whose, on, drawn, of :
           /\ j \in Summaries!Ids /\ Summaries!Insert(j, k, whose, on, drawn, of)
           /\ drawn \subseteq Summaries!Rows("paper")
      BY <1>0, <2>1, <2>3
  <2>. QED BY <2>2, <2>4, <2>5 DEF FiledBy
<1>. QED BY <1>1, <1>2, <1>3

\* The handlers of the scores' narratives that are one transaction.
LEMMA ScoreWrites ==
    ASSUME SummariesInv,
           \/ \E i \in Summaries!Ids : Summaries!Settle(i)
           \/ Summaries!EvidenceToggled \/ Summaries!FiguresChange
           \/ \E d \in Papers : Summaries!UploadDocument(d)
    PROVE  /\ UNCHANGED <<kind, subject, sources, officer>>
           /\ narrative' = [i \in Summaries!Ids |-> narrative'[i]]
           /\ \A i \in Summaries!Ids :
                 /\ narrative[i] # "none" => narrative'[i] # "none"
                 /\ narrative'[i] = "OFFICER_CONFIRMED" /\ kind[i] # "score"
                       => narrative[i] = "OFFICER_CONFIRMED"
<1>1. ASSUME NEW ids \in SUBSET Summaries!Rows("score"),
             NEW st \in {"OFFICER_CONFIRMED", "SAVED", "STALE"}, Summaries!Mark(ids, st)
      PROVE  /\ narrative' = [i \in Summaries!Ids |-> narrative'[i]]
             /\ \A i \in Summaries!Ids :
                   /\ narrative[i] # "none" => narrative'[i] # "none"
                   /\ narrative'[i] = "OFFICER_CONFIRMED" /\ kind[i] # "score"
                         => narrative[i] = "OFFICER_CONFIRMED"
    BY <1>1, MarkOf DEF Summaries!Rows
<1>2. CASE \E i \in Summaries!Ids : Summaries!Settle(i)
  <2>1. PICK i \in Summaries!Ids : Summaries!Settle(i)
      BY <1>2
  <2>2. PICK st \in {"OFFICER_CONFIRMED", "SAVED"} : Summaries!Mark({i}, st)
      BY <2>1 DEF Summaries!Settle
  <2>3. {i} \in SUBSET Summaries!Rows("score") /\ UNCHANGED <<kind, subject, sources, officer>>
      BY <2>1 DEF Summaries!Settle, Summaries!OnlyStanding
  <2>. QED BY <1>1, <2>2, <2>3
<1>3. CASE Summaries!EvidenceToggled
  <2>1. UNCHANGED <<kind, subject, sources, officer>>
      BY <1>3 DEF Summaries!EvidenceToggled, Summaries!OnlyStanding
  <2>. QED BY <1>1, <1>3, <2>1 DEF Summaries!EvidenceToggled
<1>4. CASE Summaries!FiguresChange \/ \E d \in Papers : Summaries!UploadDocument(d)
    BY <1>4 DEF Summaries!FiguresChange, Summaries!UploadDocument, Summaries!narratives,
                SummariesInv, NarrativesTyped
<1>. QED BY <1>2, <1>3, <1>4

\* Every step is of one of six kinds.
LEMMA KindsOfStep ==
    ASSUME Summaries!Next
    PROVE  \/ \E o \in Workers : Summaries!Request(o)
           \/ \E o \in Workers :
                 \/ Summaries!Unconfirm(o) \/ Summaries!Edit(o) \/ Summaries!Supersede(o)
                 \/ Summaries!Confirm(o) \/ Summaries!Toggle(o) \/ Summaries!File(o)
                 \/ Summaries!Fail(o)
           \/ \E o \in Workers :
                 Summaries!Summarise(o) \/ Summaries!Combine(o) \/ Summaries!Narrate(o)
           \/ \/ \E i \in Summaries!Ids : Summaries!Settle(i)
              \/ Summaries!EvidenceToggled \/ Summaries!FiguresChange
              \/ \E d \in Papers : Summaries!UploadDocument(d)
           \/ \E o \in Workers : Summaries!Delete(o)
           \/ \E i \in Summaries!Ids : Summaries!DeleteSavedSummary(i)
BY DEF Summaries!Next, Summaries!Write

LEMMA SummariesStep ==
    ASSUME SummariesInv, [Summaries!Next]_summaryVars
    PROVE  SummariesInv'
<1>0. NarrativesTyped
    BY DEF SummariesInv
<1>1. CASE UNCHANGED summaryVars
    BY <1>1 DEF summaryVars, SummariesInv, NarrativesTyped, DrawsOnPapers, Summaries!Rows,
        Summaries!Ids
<1>2. ASSUME NEW o \in Workers, Summaries!Request(o) PROVE SummariesInv'
  <2>1. PICK t : /\ Summaries!Begin(o, t)
                 /\ t.step \notin {"confirm", "unconfirm"}
                 /\ t.step \in {"edit", "supersede"} =>
                       t.id \in Summaries!Rows("paper") \cup Summaries!Rows("combined")
      BY <1>2, RequestTask
  <2>2. t.step \in {"edit", "supersede", "confirm"} => t.id \in Summaries!Ids
      BY <2>1 DEF Summaries!Rows
  <2>. QED BY <2>1, <2>2, RequestKeeps
<1>3. ASSUME NEW o \in Workers,
             \/ Summaries!Unconfirm(o) \/ Summaries!Edit(o) \/ Summaries!Supersede(o)
             \/ Summaries!Confirm(o) \/ Summaries!Toggle(o) \/ Summaries!File(o) \/ Summaries!Fail(o)
      PROVE  SummariesInv'
  <2>1. StatusesOf(o) /\ \E t : MovesTo(o, t)
      BY <1>3, StatusWrites
  <2>2. PICK t : MovesTo(o, t)
      BY <2>1
  <2>3. /\ officer' = [officer EXCEPT ![o] = t]
        /\ t.step \in {"edit", "supersede", "confirm"} => t.id \in Summaries!Ids
      BY <2>2 DEF MovesTo
  <2>4. /\ officer' = [p \in Workers |-> officer'[p]]
        /\ \A p \in Workers : officer'[p].step \in {"edit", "supersede", "confirm"}
                                 => officer'[p].id \in Summaries!Ids
      BY <1>0, <2>3, TaskOf
  <2>. QED BY <2>1, <2>4, StatusKeeps DEF StatusesOf
<1>4. ASSUME NEW o \in Workers,
             Summaries!Summarise(o) \/ Summaries!Combine(o) \/ Summaries!Narrate(o)
      PROVE  SummariesInv'
    BY <1>4, FilingWrites, FilingKeeps DEF FiledBy
<1>5. CASE \/ \E i \in Summaries!Ids : Summaries!Settle(i)
           \/ Summaries!EvidenceToggled \/ Summaries!FiguresChange
           \/ \E d \in Papers : Summaries!UploadDocument(d)
  <2>1. /\ UNCHANGED <<kind, subject, sources, officer>>
        /\ narrative' = [i \in Summaries!Ids |-> narrative'[i]]
        /\ \A i \in Summaries!Ids : narrative[i] # "none" => narrative'[i] # "none"
      BY <1>5, ScoreWrites
  <2>2. /\ officer' = [p \in Workers |-> officer'[p]]
        /\ \A p \in Workers : officer'[p].step \in {"edit", "supersede", "confirm"}
                                 => officer'[p].id \in Summaries!Ids
      BY <1>0, <2>1 DEF NarrativesTyped
  <2>. QED BY <2>1, <2>2, StatusKeeps
<1>6. ASSUME NEW o \in Workers, Summaries!Delete(o) PROVE SummariesInv'
  <2>1. /\ Summaries!Erase(Summaries!About(officer[o].paper))
        /\ UNCHANGED <<kind, subject>> /\ Summaries!Answer(o)
      BY <1>6 DEF Summaries!Delete
  <2>2. /\ officer' = [p \in Workers |-> officer'[p]]
        /\ \A p \in Workers : officer'[p].step \in {"edit", "supersede", "confirm"}
                                 => officer'[p].id \in Summaries!Ids
      BY <1>0, <2>1, TaskOf DEF Summaries!Answer, Summaries!Free
  <2>. QED BY <2>1, <2>2, ErasureKeeps
<1>7. ASSUME NEW i \in Summaries!Ids, Summaries!DeleteSavedSummary(i) PROVE SummariesInv'
  <2>1. Summaries!Erase({i}) /\ UNCHANGED <<kind, subject, officer>>
      BY <1>7 DEF Summaries!DeleteSavedSummary
  <2>2. /\ officer' = [p \in Workers |-> officer'[p]]
        /\ \A p \in Workers : officer'[p].step \in {"edit", "supersede", "confirm"}
                                 => officer'[p].id \in Summaries!Ids
      BY <1>0, <2>1 DEF NarrativesTyped
  <2>. QED BY <2>1, <2>2, ErasureKeeps
<1>. QED BY <1>1, <1>2, <1>3, <1>4, <1>5, <1>6, <1>7, KindsOfStep

-----------------------------------------------------------------------------
(***************************************************************************)
(* One request at a time                                                   *)
(***************************************************************************)
\* Where no narrative becomes confirmed, none gets a confirmed peer.
LEMMA NoneMore ==
    ASSUME Summaries!OneConfirmed,
           \A i \in Summaries!Ids : Single(i)' =>
               Single(i) /\ kind'[i] = kind[i] /\ subject'[i] = subject[i]
    PROVE  Summaries!OneConfirmed'
<1>. SUFFICES ASSUME NEW i \in Summaries!Ids, Single(i)',
                     NEW j \in Summaries!Peers(i)'
              PROVE  FALSE
    BY DEF Summaries!OneConfirmed, Single, Summaries!Ids
<1>1. /\ j \in Summaries!Ids /\ j # i /\ kind'[j] = kind'[i]
      /\ narrative'[j] = "OFFICER_CONFIRMED"
      /\ kind'[i] = "paper" => subject'[j] = subject'[i]
    BY DEF Summaries!Peers, Summaries!Confirmed, Summaries!Rows, Summaries!Ids
<1>2. Single(j)'
    BY <1>1 DEF Single
<1>3. Single(i) /\ Single(j) /\ kind[j] = kind[i] /\ (kind[i] = "paper" => subject[j] = subject[i])
    BY <1>1, <1>2
<1>4. j \in Summaries!Peers(i)
    BY <1>1, <1>3 DEF Single, Summaries!Peers, Summaries!Confirmed, Summaries!Rows
<1>5. Summaries!Peers(i) = {}
    BY <1>3 DEF Single, Summaries!OneConfirmed
<1>. QED BY <1>4, <1>5

\* Only the one that is being confirmed can become so, after its peers.
LEMMA OneMore ==
    ASSUME Summaries!OneConfirmed, UNCHANGED <<kind, subject>>,
           NEW c \in Summaries!Ids, Summaries!Peers(c) = {},
           \A i \in Summaries!Ids : narrative'[i] = "OFFICER_CONFIRMED" /\ kind[i] # "score" =>
               narrative[i] = "OFFICER_CONFIRMED" \/ i = c
    PROVE  Summaries!OneConfirmed'
<1>. SUFFICES ASSUME NEW i \in Summaries!Ids, narrative'[i] = "OFFICER_CONFIRMED",
                     kind[i] # "score", NEW j \in Summaries!Peers(i)'
              PROVE  FALSE
    BY DEF Summaries!OneConfirmed, Summaries!Ids
<1>1. /\ j \in Summaries!Ids /\ j # i /\ kind[j] = kind[i]
      /\ narrative'[j] = "OFFICER_CONFIRMED"
      /\ kind[i] = "paper" => subject[j] = subject[i]
    BY DEF Summaries!Peers, Summaries!Confirmed, Summaries!Rows, Summaries!Ids
<1>2. CASE i = c
  <2>1. j \in Summaries!Peers(c)
      BY <1>1, <1>2 DEF Summaries!Peers, Summaries!Confirmed, Summaries!Rows
  <2>. QED BY <2>1
<1>3. CASE j = c
  <2>1. i \in Summaries!Peers(c)
      BY <1>1, <1>3 DEF Summaries!Peers, Summaries!Confirmed, Summaries!Rows
  <2>. QED BY <2>1
<1>4. CASE i # c /\ j # c
  <2>1. narrative[i] = "OFFICER_CONFIRMED" /\ narrative[j] = "OFFICER_CONFIRMED"
      BY <1>1, <1>4
  <2>2. j \in Summaries!Peers(i) /\ Summaries!Peers(i) = {}
      BY <1>1, <2>1 DEF Summaries!Peers, Summaries!Confirmed, Summaries!Rows,
          Summaries!OneConfirmed
  <2>. QED BY <2>2
<1>. QED BY <1>2, <1>3, <1>4

\* Superseding the peers of a narrative leaves it none.
LEMMA NonePeers ==
    ASSUME UNCHANGED <<kind, subject>>, NEW c \in Summaries!Ids,
           \A i \in Summaries!Ids : narrative'[i] =
               IF i \in Summaries!Peers(c) THEN "SUPERSEDED" ELSE narrative[i]
    PROVE  Summaries!Peers(c)' = {}
<1>. SUFFICES ASSUME NEW j \in Summaries!Peers(c)' PROVE FALSE
    OBVIOUS
<1>1. /\ j \in Summaries!Ids /\ j # c /\ kind[j] = kind[c]
      /\ narrative'[j] = "OFFICER_CONFIRMED"
      /\ kind[c] = "paper" => subject[j] = subject[c]
    BY DEF Summaries!Peers, Summaries!Confirmed, Summaries!Rows, Summaries!Ids
<1>2. narrative[j] = "OFFICER_CONFIRMED" /\ j \notin Summaries!Peers(c)
    BY <1>1
<1>. QED BY <1>1, <1>2 DEF Summaries!Peers, Summaries!Confirmed, Summaries!Rows

\* Erasing a narrative of the scores, or those of a document that no confirmed
\* combined narrative draws on, leaves the confirmed ones their sources.
LEMMA ErasureSpares ==
    ASSUME SummariesInv, NEW ids, Summaries!Erase(ids),
           \A i \in Summaries!Confirmed("combined") : sources[i] \cap ids = {}
    PROVE  /\ \A i \in Summaries!Ids : Summaries!ConfirmedKeepsSources(i)
           /\ \A i \in Summaries!Ids : narrative'[i] = "OFFICER_CONFIRMED"
                                         => narrative[i] = "OFFICER_CONFIRMED"
<1>. DEFINE erased == ids \cup {i \in Summaries!Rows("combined") : basis[i] \cap ids # {}}
<1>1. /\ Summaries!Mark(erased, "none")
      /\ sources' = [i \in Summaries!Ids |-> IF i \in erased THEN {} ELSE sources[i] \ erased]
    BY DEF Summaries!Erase
<1>2. \A i \in Summaries!Ids : narrative'[i] = IF i \in erased THEN "none" ELSE narrative[i]
    BY <1>1, MarkOf
<1>3. \A i \in Summaries!Confirmed("combined") : i \in Summaries!Ids /\ sources[i] \cap erased = {}
    BY DEF SummariesInv, DrawsOnPapers, Summaries!Rows, Summaries!Confirmed
<1>. HIDE DEF erased
<1>4. ASSUME NEW i \in Summaries!Confirmed("combined"), narrative'[i] = "OFFICER_CONFIRMED"
      PROVE  sources'[i] = sources[i]
    BY <1>1, <1>2, <1>3, <1>4
<1>. QED BY <1>2, <1>4 DEF Summaries!ConfirmedKeepsSources

\* The documents' narratives are none of the scores'.
LEMMA ScoreRowsApart ==
    ASSUME SummariesInv, NEW s \in Summaries!Rows("score"), NEW i \in Summaries!Ids
    PROVE  sources[i] \cap {s} = {}
BY DEF SummariesInv, DrawsOnPapers, Summaries!Rows

LEMMA SourcesStep ==
    ASSUME SummariesInv, SummariesCalm, [Summaries!Next]_summaryVars, NEW i \in Summaries!Ids
    PROVE  Summaries!ConfirmedKeepsSources(i)
<1>1. CASE sources' = sources
    BY <1>1 DEF Summaries!ConfirmedKeepsSources
<1>2. ASSUME NEW o \in Workers,
             Summaries!Summarise(o) \/ Summaries!Combine(o) \/ Summaries!Narrate(o)
      PROVE  Summaries!ConfirmedKeepsSources(i)
  <2>1. PICK j, k, whose, on, drawn, of :
            j \in Summaries!Ids /\ Summaries!Insert(j, k, whose, on, drawn, of)
      BY <1>2, FilingWrites DEF FiledBy
  <2>2. /\ narrative[j] = "none"
        /\ sources' = [p \in Summaries!Ids |-> IF p = j THEN drawn ELSE sources[p]]
      BY <2>1, InsertOf DEF SummariesInv
  <2>. QED BY <2>2 DEF Summaries!ConfirmedKeepsSources, Summaries!Confirmed
<1>3. ASSUME NEW o \in Workers, Summaries!Delete(o) PROVE Summaries!ConfirmedKeepsSources(i)
  <2>1. /\ Summaries!Erase(Summaries!About(officer[o].paper))
        /\ officer[o].step = "delete"
      BY <1>3 DEF Summaries!Delete
  <2>. QED BY <2>1, ErasureSpares DEF SummariesCalm
<1>4. ASSUME NEW s \in Summaries!Ids, Summaries!DeleteSavedSummary(s)
      PROVE  Summaries!ConfirmedKeepsSources(i)
  <2>1. Summaries!Erase({s}) /\ s \in Summaries!Rows("score")
      BY <1>4 DEF Summaries!DeleteSavedSummary
  <2>2. \A p \in Summaries!Confirmed("combined") : sources[p] \cap {s} = {}
      BY <2>1, ScoreRowsApart DEF Summaries!Confirmed, Summaries!Rows
  <2>. QED BY <2>1, <2>2, ErasureSpares
<1>5. ASSUME NEW o \in Workers, Summaries!Request(o) PROVE sources' = sources
    BY <1>5, RequestTask DEF Summaries!Begin, Summaries!shelf, Summaries!narratives
<1>. QED BY <1>1, <1>2, <1>3, <1>4, <1>5, KindsOfStep, StatusWrites, ScoreWrites
         DEF StatusesOf, summaryVars

\* While requests do not overlap, the others are free when one moves.
LEMMA AloneMoves ==
    ASSUME NarrativesTyped, NEW o \in Workers, NEW t, officer' = [officer EXCEPT ![o] = t],
           \A p \in Workers : officer[p] # Summaries!Free => officer'[p] # officer[p]
    PROVE  /\ officer'[o] = t
           /\ \A p \in Workers : p # o => officer'[p].step = "idle"
<1>1. officer' = [p \in Workers |-> IF p = o THEN t ELSE officer[p]]
    BY DEF NarrativesTyped
<1>2. \A p \in Workers : p # o => officer'[p] = Summaries!Free
    BY <1>1
<1>. QED BY <1>1, <1>2 DEF Summaries!Free

LEMMA SummariesStayCalm ==
    ASSUME SummariesInv, SummariesCalm, Summaries!Next,
           \A p \in Workers : officer[p] # Summaries!Free => officer'[p] # officer[p]
    PROVE  SummariesCalm'
<1>0. NarrativesTyped /\ Summaries!OneConfirmed
    BY DEF SummariesInv, SummariesCalm
<1>1. ASSUME Summaries!OneConfirmed',
             \A p \in Workers : officer'[p].step \notin {"confirm", "delete"}
      PROVE  SummariesCalm'
    BY <1>1 DEF SummariesCalm
<1>2. ASSUME NEW o \in Workers, Summaries!Request(o) PROVE SummariesCalm'
  <2>1. PICK t : /\ Summaries!Begin(o, t)
                 /\ t.step \notin {"confirm", "unconfirm"}
                 /\ t.step = "delete" =>
                       \A i \in Summaries!Confirmed("combined") :
                           sources[i] \cap Summaries!About(t.paper) = {}
      BY <1>2, RequestTask
  <2>2. /\ officer'[o] = t
        /\ \A p \in Workers : p # o => officer'[p].step = "idle"
      BY <1>0, <2>1, AloneMoves DEF Summaries!Begin
  <2>3. UNCHANGED <<kind, narrative, subject, sources>>
      BY <2>1 DEF Summaries!Begin, Summaries!shelf, Summaries!narratives
  <2>4. Summaries!OneConfirmed'
      BY <1>0, <2>3, NoneMore DEF Single
  <2>5. t.step = "delete" =>
            \A i \in Summaries!Confirmed("combined")' :
                sources'[i] \cap Summaries!About(t.paper)' = {}
      BY <2>1, <2>3 DEF Summaries!Confirmed, Summaries!About, Summaries!Rows, Summaries!Ids
  <2>. QED BY <2>1, <2>2, <2>4, <2>5 DEF SummariesCalm, Summaries!About, Summaries!Rows,
      Summaries!Ids
<1>3. ASSUME NEW o \in Workers,
             \/ Summaries!Unconfirm(o) \/ Summaries!Edit(o) \/ Summaries!Supersede(o)
             \/ Summaries!Confirm(o) \/ Summaries!Toggle(o) \/ Summaries!File(o) \/ Summaries!Fail(o)
      PROVE  SummariesCalm'
  <2>1. StatusesOf(o) /\ \E t : MovesTo(o, t)
      BY <1>3, StatusWrites
  <2>2. PICK t : MovesTo(o, t)
      BY <2>1
  <2>3. /\ officer'[o] = t
        /\ \A p \in Workers : p # o => officer'[p].step = "idle"
      BY <1>0, <2>2, AloneMoves DEF MovesTo
  <2>4. CASE officer[o].step = "confirm"
    <3>1. officer[o].id \in Summaries!Ids /\ Summaries!Peers(officer[o].id) = {}
        BY <2>4 DEF SummariesInv, NarrativesTyped, SummariesCalm
    <3>2. Summaries!OneConfirmed'
        BY <1>0, <2>1, <3>1, OneMore DEF StatusesOf
    <3>3. t.step \in {"idle", "unconfirm"}
        BY <2>2, <2>4 DEF MovesTo
    <3>. QED BY <1>1, <2>3, <3>2, <3>3
  <2>5. CASE officer[o].step # "confirm"
    <3>1. Summaries!OneConfirmed'
        BY <1>0, <2>1, <2>5, NoneMore DEF StatusesOf, Single
    <3>2. CASE t.step # "confirm"
        BY <1>1, <2>2, <2>3, <3>1, <3>2 DEF MovesTo
    <3>3. CASE t.step = "confirm"
      <4>1. /\ t.id \in Summaries!Ids
            /\ \A i \in Summaries!Ids : narrative'[i] =
                  IF i \in Summaries!Peers(t.id) THEN "SUPERSEDED" ELSE narrative[i]
          BY <2>2, <3>3 DEF MovesTo
      <4>2. Summaries!Peers(t.id)' = {}
          BY <2>1, <4>1, NonePeers DEF StatusesOf
      <4>3. Summaries!Peers(officer[o].id)' = {}
          BY <2>3, <4>2 DEF Summaries!Peers, Summaries!Confirmed, Summaries!Rows, Summaries!Ids
      <4>. QED BY <2>3, <3>1, <3>3, <4>3 DEF SummariesCalm
    <3>. QED BY <3>2, <3>3
  <2>. QED BY <2>4, <2>5
<1>4. ASSUME NEW o \in Workers,
             Summaries!Summarise(o) \/ Summaries!Combine(o) \/ Summaries!Narrate(o)
      PROVE  SummariesCalm'
  <2>1. FiledBy(o)
      BY <1>4, FilingWrites
  <2>2. PICK j, k, whose, on, drawn, of :
            j \in Summaries!Ids /\ Summaries!Insert(j, k, whose, on, drawn, of)
      BY <2>1 DEF FiledBy
  <2>3. /\ narrative[j] = "none"
        /\ kind' = [p \in Summaries!Ids |-> IF p = j THEN k ELSE kind[p]]
        /\ subject' = [p \in Summaries!Ids |-> IF p = j THEN whose ELSE subject[p]]
      BY <1>0, <2>2, InsertOf
  <2>4. \A i \in Summaries!Ids : Single(i)' =>
            Single(i) /\ kind'[i] = kind[i] /\ subject'[i] = subject[i]
      BY <2>1, <2>3 DEF Single, FiledBy
  <2>5. Summaries!OneConfirmed'
      BY <1>0, <2>4, NoneMore
  <2>6. /\ officer'[o] = Summaries!Free
        /\ \A p \in Workers : p # o => officer'[p].step = "idle"
      BY <1>0, <2>1, AloneMoves DEF FiledBy, Summaries!Answer
  <2>. QED BY <1>1, <2>5, <2>6 DEF Summaries!Free
<1>5. CASE \/ \E i \in Summaries!Ids : Summaries!Settle(i)
           \/ Summaries!EvidenceToggled \/ Summaries!FiguresChange
           \/ \E d \in Papers : Summaries!UploadDocument(d)
  <2>1. /\ UNCHANGED <<kind, subject, officer>>
        /\ \A i \in Summaries!Ids : narrative'[i] = "OFFICER_CONFIRMED" /\ kind[i] # "score"
                                      => narrative[i] = "OFFICER_CONFIRMED"
      BY <1>5, ScoreWrites
  <2>2. Summaries!OneConfirmed'
      BY <1>0, <2>1, NoneMore DEF Single
  <2>3. \A p \in Workers : officer'[p].step = "idle"
      BY <2>1 DEF Summaries!Free
  <2>. QED BY <1>1, <2>2, <2>3
<1>6. ASSUME NEW o \in Workers, Summaries!Delete(o) PROVE SummariesCalm'
  <2>1. /\ Summaries!Erase(Summaries!About(officer[o].paper)) /\ officer[o].step = "delete"
        /\ UNCHANGED <<kind, subject>> /\ Summaries!Answer(o)
      BY <1>6 DEF Summaries!Delete
  <2>2. \A i \in Summaries!Ids : narrative'[i] = "OFFICER_CONFIRMED"
                                    => narrative[i] = "OFFICER_CONFIRMED"
      BY <2>1, ErasureSpares DEF SummariesCalm
  <2>3. Summaries!OneConfirmed'
      BY <1>0, <2>1, <2>2, NoneMore DEF Single
  <2>4. /\ officer'[o] = Summaries!Free
        /\ \A p \in Workers : p # o => officer'[p].step = "idle"
      BY <1>0, <2>1, AloneMoves DEF Summaries!Answer
  <2>. QED BY <1>1, <2>3, <2>4 DEF Summaries!Free
<1>7. ASSUME NEW s \in Summaries!Ids, Summaries!DeleteSavedSummary(s) PROVE SummariesCalm'
  <2>1. /\ Summaries!Erase({s}) /\ s \in Summaries!Rows("score")
        /\ UNCHANGED <<kind, subject, officer>>
      BY <1>7 DEF Summaries!DeleteSavedSummary
  <2>2. \A p \in Summaries!Confirmed("combined") : sources[p] \cap {s} = {}
      BY <2>1, ScoreRowsApart DEF Summaries!Confirmed, Summaries!Rows
  <2>3. \A i \in Summaries!Ids : narrative'[i] = "OFFICER_CONFIRMED"
                                    => narrative[i] = "OFFICER_CONFIRMED"
      BY <2>1, <2>2, ErasureSpares
  <2>4. Summaries!OneConfirmed'
      BY <1>0, <2>1, <2>3, NoneMore DEF Single
  <2>5. \A p \in Workers : officer'[p].step = "idle"
      BY <2>1 DEF Summaries!Free
  <2>. QED BY <1>1, <2>4, <2>5
<1>. QED BY <1>2, <1>3, <1>4, <1>5, <1>6, <1>7, KindsOfStep

-----------------------------------------------------------------------------
(***************************************************************************)
(* Recalculations                                                          *)
(***************************************************************************)
Assessing(v, scopes) == [at |-> "assess", version |-> v, left |-> scopes]

ScoringInv ==
    /\ assessed = [v \in Scoring!Versions |-> [s \in Scoring!Scopes |-> assessed[v][s]]]
    /\ recount = [m \in Workers |-> recount[m]]
    /\ \A m \in Workers :
          /\ recount[m].at \in {"write", "assess"} => recount[m].version \in Scoring!Versions
          /\ recount[m].at = "assess" =>
                recount[m] = Assessing(recount[m].version, recount[m].left)

\* While nothing else happens, a recalculation has left to assess exactly the
\* scopes with rollups that do not have the assessment of these rollups.
ScoringCalm ==
    \A m \in Workers : recount[m].at = "assess" =>
        \A s \in Scoring!Scopes :
            IF s \in recount[m].left
              THEN rolled[recount[m].version][s] # Scoring!NoRows
              ELSE rolled[recount[m].version][s] # Scoring!NoRows =>
                      assessed[recount[m].version][s] = rolled[recount[m].version][s]

LEMMA ScoringInit == Scoring!Init => ScoringInv /\ ScoringCalm
<1>. SUFFICES ASSUME Scoring!Init PROVE ScoringInv /\ ScoringCalm
    OBVIOUS
<1>1. \A m \in Workers : recount[m].at = "rest"
    BY DEF Scoring!Init, Scoring!Rest
<1>. QED BY <1>1 DEF Scoring!Init, ScoringInv, ScoringCalm

LEMMA RecountOf ==
    ASSUME ScoringInv, NEW m \in Workers, NEW t, recount' = [recount EXCEPT ![m] = t]
    PROVE  /\ recount' = [n \in Workers |-> recount'[n]]
           /\ recount'[m] = t /\ \A n \in Workers : n # m => recount'[n] = recount[n]
BY DEF ScoringInv

LEMMA AssessmentOf ==
    ASSUME ScoringInv, NEW m \in Workers, NEW s \in Scoring!Scopes, Scoring!Assess(m, s)
    PROVE  /\ assessed' = [v \in Scoring!Versions |-> [p \in Scoring!Scopes |-> assessed'[v][p]]]
           /\ rolled[recount[m].version][s] # Scoring!NoRows =>
                 assessed'[recount[m].version][s] = rolled[recount[m].version][s]
           /\ \A p \in Scoring!Scopes : p # s =>
                 assessed'[recount[m].version][p] = assessed[recount[m].version][p]
<1>1. recount[m].version \in Scoring!Versions
    BY DEF ScoringInv, Scoring!Assess
<1>2. CASE rolled[recount[m].version][s] = Scoring!NoRows
  <2>1. assessed' = assessed
      BY <1>2 DEF Scoring!Assess, Scoring!Upserted
  <2>. QED BY <1>2, <2>1 DEF ScoringInv, Scoring!Scopes
<1>3. CASE rolled[recount[m].version][s] # Scoring!NoRows
  <2>1. assessed' = [assessed EXCEPT ![recount[m].version][s] = rolled[recount[m].version][s]]
      BY <1>3 DEF Scoring!Assess, Scoring!Upserted
  <2>2. assessed' = [v \in Scoring!Versions |-> [p \in Scoring!Scopes |->
            IF v = recount[m].version /\ p = s THEN rolled[recount[m].version][s]
                                               ELSE assessed[v][p]]]
      BY <1>1, <2>1 DEF ScoringInv
  <2>. QED BY <1>1, <2>2
<1>. QED BY <1>2, <1>3

\* What each step does to the recalculations and to what they write.
RecountMoves(m, t) == recount' = [recount EXCEPT ![m] = t]

LEMMA RecountSteps ==
    ASSUME ScoringInv, Scoring!Next
    PROVE  \/ UNCHANGED <<recount, assessed>>
           \/ \E m \in Workers : \E t :
                 /\ RecountMoves(m, t) /\ assessed' = assessed
                 /\ t.at = "write" /\ t.version \in Scoring!Versions
           \/ \E m \in Workers : Scoring!Recount(m)
           \/ \E m \in Workers : Scoring!Abort(m)
           \/ \E m \in Workers, s \in Scoring!Scopes : Scoring!Assess(m, s)
<1>1. ASSUME NEW m \in Workers, NEW v \in Scoring!Versions, Scoring!BeginRecount(m, v)
      PROVE  \E t : /\ RecountMoves(m, t) /\ assessed' = assessed
                    /\ t.at = "write" /\ t.version \in Scoring!Versions
  <2>1. recount' = [recount EXCEPT ![m] = [at |-> "write", version |-> v, found |-> Scoring!Stored]]
        /\ assessed' = assessed
      BY <1>1 DEF Scoring!BeginRecount
  <2>2. RecountMoves(m, [at |-> "write", version |-> v, found |-> Scoring!Stored])
      BY <2>1 DEF RecountMoves
  <2>. QED BY <2>1, <2>2
<1>2. CASE Scoring!Publish \/ \E p \in Villages : Scoring!Move(p)
    BY <1>2 DEF Scoring!Publish, Scoring!Move
<1>3. ASSUME NEW r \in Responses,
             \/ Scoring!Submit(r) \/ Scoring!ScoreResponse(r) \/ Scoring!Resolve(r)
             \/ Scoring!ReadScores(r) \/ Scoring!WriteRollups(r) \/ Scoring!Lose(r)
      PROVE  UNCHANGED <<recount, assessed>>
    BY <1>3 DEF Scoring!Submit, Scoring!ScoreResponse, Scoring!Resolve, Scoring!ReadScores,
                Scoring!WriteRollups, Scoring!WriteWhere, Scoring!Lose
<1>. QED BY <1>1, <1>2, <1>3 DEF Scoring!Next

\* A recalculation that has written what it found has every scope with rollups
\* still to assess.
LEMMA RecountWrites ==
    ASSUME NEW m \in Workers, Scoring!Recount(m)
    PROVE  \E left : /\ RecountMoves(m, Assessing(recount[m].version, left))
                     /\ assessed' = assessed /\ recount[m].at = "write"
                     /\ left = {s \in Scoring!Scopes :
                                   rolled'[recount[m].version][s] # Scoring!NoRows}
<1>. DEFINE left == {s \in Scoring!Scopes : rolled'[recount[m].version][s] # Scoring!NoRows}
<1>1. recount[m].at = "write" /\ assessed' = assessed
    BY DEF Scoring!Recount, Scoring!RecountAs
<1>2. RecountMoves(m, Assessing(recount[m].version, left))
    BY DEF Scoring!Recount, Scoring!RecountAs, RecountMoves, Assessing
<1>. QED BY <1>1, <1>2

\* An assessment takes its scope off those left, and the last one ends it.
LEMMA AssessmentMoves ==
    ASSUME ScoringInv, NEW m \in Workers, NEW s \in Scoring!Scopes, Scoring!Assess(m, s)
    PROVE  /\ s \in recount[m].left /\ recount[m].at = "assess" /\ rolled' = rolled
           /\ \/ recount[m].left = {s} /\ RecountMoves(m, Scoring!Rest)
              \/ RecountMoves(m, Assessing(recount[m].version, recount[m].left \ {s}))
<1>1. s \in recount[m].left /\ recount[m].at = "assess" /\ rolled' = rolled
    BY DEF Scoring!Assess
<1>2. recount[m] = Assessing(recount[m].version, recount[m].left)
    BY <1>1 DEF ScoringInv
<1>3. recount' = [recount EXCEPT ![m] = IF recount[m].left = {s} THEN Scoring!Rest
                                        ELSE [recount[m] EXCEPT !.left = recount[m].left \ {s}]]
    BY DEF Scoring!Assess
<1>4. [recount[m] EXCEPT !.left = recount[m].left \ {s}]
          = Assessing(recount[m].version, recount[m].left \ {s})
    BY <1>2 DEF Assessing
<1>5. CASE recount[m].left = {s}
    BY <1>1, <1>3, <1>5 DEF RecountMoves
<1>6. CASE recount[m].left # {s}
    BY <1>1, <1>3, <1>4, <1>6 DEF RecountMoves
<1>. QED BY <1>5, <1>6

\* A task a member of staff may have.
WellRecount(t) ==
    /\ t.at \in {"write", "assess"} => t.version \in Scoring!Versions
    /\ t.at = "assess" => t = Assessing(t.version, t.left)

LEMMA ScoringStep ==
    ASSUME ScoringInv, [Scoring!Next]_scoringVars
    PROVE  ScoringInv'
<1>1. CASE UNCHANGED <<recount, assessed>>
    BY <1>1 DEF ScoringInv, Assessing, Scoring!Versions, Scoring!Scopes, Scoring!All
<1>2. ASSUME NEW m \in Workers, NEW t, RecountMoves(m, t), WellRecount(t),
             assessed' = [v \in Scoring!Versions |-> [s \in Scoring!Scopes |-> assessed'[v][s]]]
      PROVE  ScoringInv'
  <2>1. /\ recount' = [n \in Workers |-> recount'[n]]
        /\ recount'[m] = t /\ \A n \in Workers : n # m => recount'[n] = recount[n]
      BY <1>2, RecountOf DEF RecountMoves
  <2>2. \A n \in Workers : WellRecount(recount'[n])
      BY <1>2, <2>1 DEF ScoringInv, WellRecount
  <2>. QED BY <1>2, <2>1, <2>2
           DEF WellRecount, ScoringInv, Assessing, Scoring!Versions, Scoring!Scopes, Scoring!All
<1>3. ASSUME NEW m \in Workers, NEW t, RecountMoves(m, t), assessed' = assessed, WellRecount(t)
      PROVE  ScoringInv'
  <2>1. assessed' = [v \in Scoring!Versions |-> [s \in Scoring!Scopes |-> assessed'[v][s]]]
      BY <1>3 DEF ScoringInv
  <2>. QED BY <1>2, <1>3, <2>1
<1>4. ASSUME NEW m \in Workers, Scoring!Recount(m) PROVE ScoringInv'
  <2>1. PICK left : /\ RecountMoves(m, Assessing(recount[m].version, left))
                    /\ assessed' = assessed /\ recount[m].at = "write"
      BY <1>4, RecountWrites
  <2>2. recount[m].version \in Scoring!Versions
      BY <2>1 DEF ScoringInv
  <2>3. WellRecount(Assessing(recount[m].version, left))
      BY <2>2 DEF WellRecount, Assessing
  <2>. QED BY <1>3, <2>1, <2>3
<1>5. ASSUME NEW m \in Workers, Scoring!Abort(m) PROVE ScoringInv'
  <2>1. WellRecount(Scoring!Rest)
      BY DEF WellRecount, Scoring!Rest
  <2>. QED BY <1>3, <1>5, <2>1 DEF Scoring!Abort, RecountMoves
<1>6. ASSUME NEW m \in Workers, NEW s \in Scoring!Scopes, Scoring!Assess(m, s) PROVE ScoringInv'
  <2>1. recount[m].version \in Scoring!Versions
      BY <1>6 DEF Scoring!Assess, ScoringInv
  <2>2. /\ WellRecount(Scoring!Rest)
        /\ WellRecount(Assessing(recount[m].version, recount[m].left \ {s}))
      BY <2>1 DEF WellRecount, Scoring!Rest, Assessing
  <2>3. assessed' = [v \in Scoring!Versions |-> [p \in Scoring!Scopes |-> assessed'[v][p]]]
      BY <1>6, AssessmentOf
  <2>. QED BY <1>2, <1>6, <2>2, <2>3, AssessmentMoves
<1>7. ASSUME NEW m \in Workers, NEW t, RecountMoves(m, t), assessed' = assessed,
             t.at = "write", t.version \in Scoring!Versions
      PROVE  ScoringInv'
    BY <1>3, <1>7 DEF WellRecount
<1>. QED BY <1>1, <1>4, <1>5, <1>6, <1>7, RecountSteps DEF scoringVars

LEMMA ScoringStaysCalm ==
    ASSUME ScoringInv, ScoringCalm, Scoring!Next,
           \A n \in Workers : recount[n] # Scoring!Rest => recount'[n] # recount[n]
    PROVE  ScoringCalm'
<1>0. Scoring!Rest.at = "rest"
    BY DEF Scoring!Rest
<1>1. CASE UNCHANGED <<recount, assessed>>
  <2>1. \A n \in Workers : recount'[n].at = "rest"
      BY <1>0, <1>1
  <2>. QED BY <2>1 DEF ScoringCalm
<1>2. ASSUME NEW m \in Workers, NEW t, RecountMoves(m, t)
      PROVE  recount'[m] = t /\ \A n \in Workers : n # m => recount'[n].at = "rest"
  <2>1. recount'[m] = t /\ \A n \in Workers : n # m => recount'[n] = recount[n]
      BY <1>2, RecountOf DEF RecountMoves
  <2>2. \A n \in Workers : n # m => recount'[n] = Scoring!Rest
      BY <2>1
  <2>. QED BY <1>0, <2>1, <2>2
<1>3. ASSUME NEW m \in Workers, NEW t, RecountMoves(m, t), t.at # "assess" PROVE ScoringCalm'
    BY <1>2, <1>3 DEF ScoringCalm
<1>4. ASSUME NEW m \in Workers, Scoring!Recount(m) PROVE ScoringCalm'
  <2>1. PICK left : /\ RecountMoves(m, Assessing(recount[m].version, left))
                    /\ left = {s \in Scoring!Scopes :
                                  rolled'[recount[m].version][s] # Scoring!NoRows}
      BY <1>4, RecountWrites
  <2>2. /\ recount'[m].version = recount[m].version /\ recount'[m].left = left
        /\ \A n \in Workers : n # m => recount'[n].at = "rest"
      BY <1>2, <2>1 DEF Assessing
  <2>. QED BY <2>1, <2>2 DEF ScoringCalm, Scoring!Scopes, Scoring!All, Scoring!NoRows
<1>5. ASSUME NEW m \in Workers, Scoring!Abort(m) PROVE ScoringCalm'
    BY <1>0, <1>3, <1>5 DEF Scoring!Abort, RecountMoves
<1>6. ASSUME NEW m \in Workers, NEW s \in Scoring!Scopes, Scoring!Assess(m, s) PROVE ScoringCalm'
  <2>1. /\ s \in recount[m].left /\ recount[m].at = "assess" /\ rolled' = rolled
        /\ \/ recount[m].left = {s} /\ RecountMoves(m, Scoring!Rest)
           \/ RecountMoves(m, Assessing(recount[m].version, recount[m].left \ {s}))
      BY <1>6, AssessmentMoves
  <2>2. CASE RecountMoves(m, Scoring!Rest)
      BY <1>0, <1>3, <2>2
  <2>3. CASE RecountMoves(m, Assessing(recount[m].version, recount[m].left \ {s}))
    <3>1. /\ recount'[m].version = recount[m].version /\ recount'[m].left = recount[m].left \ {s}
          /\ \A n \in Workers : n # m => recount'[n].at = "rest"
        BY <1>2, <2>3 DEF Assessing
    <3>2. /\ rolled[recount[m].version][s] # Scoring!NoRows =>
                assessed'[recount[m].version][s] = rolled[recount[m].version][s]
          /\ \A p \in Scoring!Scopes : p # s =>
                assessed'[recount[m].version][p] = assessed[recount[m].version][p]
        BY <1>6, AssessmentOf
    <3>. QED BY <2>1, <3>1, <3>2 DEF ScoringCalm, Scoring!Scopes, Scoring!All, Scoring!NoRows
  <2>. QED BY <2>1, <2>2, <2>3
<1>7. ASSUME NEW m \in Workers, NEW t, RecountMoves(m, t), t.at = "write" PROVE ScoringCalm'
    BY <1>3, <1>7
<1>. QED BY <1>1, <1>4, <1>5, <1>6, <1>7, RecountSteps

\* A recalculation that does not stop half-way ends with its last assessment.
LEMMA FinishStep ==
    ASSUME ScoringInv, ScoringCalm, [Scoring!Next]_scoringVars,
           NEW m \in Workers, Scoring!Finishes(m),
           Scoring!Abort(m) => \E s \in Scoring!Scopes : Scoring!Assess(m, s)
    PROVE  \A s \in Scoring!Scopes :
               rolled[recount[m].version][s] # Scoring!NoRows =>
                   assessed'[recount[m].version][s] = rolled[recount[m].version][s]
<1>0. /\ recount[m].at = "assess" /\ recount'[m] = Scoring!Rest
      /\ Scoring!Rest.at = "rest" /\ recount' # recount
    BY DEF Scoring!Finishes, Scoring!Rest
<1>1. ASSUME NEW n \in Workers, NEW t, RecountMoves(n, t)
      PROVE  n = m /\ t = Scoring!Rest
    BY <1>0, <1>1, RecountOf DEF RecountMoves
<1>2. \A n \in Workers : \A left : ~RecountMoves(n, Assessing(recount[n].version, left))
    BY <1>0, <1>1 DEF Assessing
<1>3. \E n \in Workers : Scoring!Abort(n) \/ \E s \in Scoring!Scopes : Scoring!Assess(n, s)
  <2>1. ~\E n \in Workers : Scoring!Recount(n)
      BY <1>2, RecountWrites
  <2>2. ~\E n \in Workers : \E t : RecountMoves(n, t) /\ t.at = "write"
      BY <1>0, <1>1
  <2>. QED BY <1>0, <2>1, <2>2, RecountSteps DEF scoringVars
<1>4. \A n \in Workers : Scoring!Abort(n) => n = m
    BY <1>1 DEF Scoring!Abort, RecountMoves
<1>5. PICK n \in Workers, s \in Scoring!Scopes : Scoring!Assess(n, s)
    BY <1>3, <1>4
<1>6. n = m /\ recount[m].left = {s} /\ s \in recount[m].left
    BY <1>1, <1>2, <1>5, AssessmentMoves
<1>7. /\ rolled[recount[m].version][s] # Scoring!NoRows =>
            assessed'[recount[m].version][s] = rolled[recount[m].version][s]
      /\ \A p \in Scoring!Scopes : p # s =>
            assessed'[recount[m].version][p] = assessed[recount[m].version][p]
    BY <1>5, <1>6, AssessmentOf
<1>. QED BY <1>0, <1>6, <1>7 DEF ScoringCalm

-----------------------------------------------------------------------------
(***************************************************************************)
(* Rollups                                                                 *)
(***************************************************************************)
\* The score rows of a scope are at most those that fit into its villages.
LEMMA RowsCounted ==
    ASSUME NEW cs, NEW v, NEW s \in Scoring!Scopes
    PROVE  Scoring!RowsOf(cs, v, s) \in Scoring!Counts
<1>. DEFINE cells == Villages \X (1..Scoring!Most)
            counted(r) == {row \in Scoring!VillagesOf(s) \X (1..Scoring!Most) :
                              row[2] <= cs[r][v][row[1]]}
<1>1. IsFiniteSet(cells) /\ Cardinality(cells) = Scoring!Most * Cardinality(Villages)
  <2>1. IsFiniteSet(1..Scoring!Most) /\ Cardinality(1..Scoring!Most) = Scoring!Most
    <3>1. IsFiniteSet({1}) /\ Cardinality({1}) = 1
        BY FS_Singleton
    <3>2. IsFiniteSet({1} \cup {2}) /\ Cardinality({1} \cup {2}) = 2
        BY <3>1, FS_AddElement
    <3>3. 1..Scoring!Most = {1} \cup {2}
        BY DEF Scoring!Most
    <3>. QED BY <3>2, <3>3 DEF Scoring!Most
  <2>2. IsFiniteSet(Villages) /\ Cardinality(Villages) \in Nat
      BY ValuesAssumption, FS_CardinalityType
  <2>3. IsFiniteSet(cells) /\ Cardinality(cells) = Cardinality(Villages) * Cardinality(1..Scoring!Most)
      BY <2>1, <2>2, FS_Product
  <2>. QED BY <2>1, <2>2, <2>3 DEF Scoring!Most
<1>2. ASSUME NEW r \in Responses
      PROVE  Cardinality(counted(r)) \in 0..Scoring!Most * Cardinality(Villages)
  <2>1. counted(r) \subseteq cells
      BY DEF Scoring!VillagesOf, Scoring!Scopes, Scoring!All
  <2>2. IsFiniteSet(counted(r)) /\ Cardinality(counted(r)) <= Cardinality(cells)
      BY <1>1, <2>1, FS_Subset
  <2>3. Cardinality(counted(r)) \in Nat /\ Cardinality(cells) \in Nat
      BY <1>1, <2>2, FS_CardinalityType
  <2>. HIDE DEF counted, cells
  <2>. QED BY <1>1, <2>2, <2>3 DEF Scoring!Most
<1>3. Scoring!RowsOf(cs, v, s) = [r \in Responses |-> Cardinality(counted(r))]
    BY DEF Scoring!RowsOf, Scoring!Cardinality, Cardinality
<1>4. Scoring!Counts = [Responses -> 0..Scoring!Most * Cardinality(Villages)]
    BY DEF Scoring!Counts, Scoring!Cardinality, Cardinality
<1>. HIDE DEF counted
<1>. QED BY <1>2, <1>3, <1>4

\* They depend on the rows of these villages only, and none are none.
LEMMA RowsAgree ==
    ASSUME NEW cs, NEW ds, NEW v, NEW s,
           \A r \in Responses, p \in Scoring!VillagesOf(s) : cs[r][v][p] = ds[r][v][p]
    PROVE  Scoring!RowsOf(cs, v, s) = Scoring!RowsOf(ds, v, s)
<1>1. ASSUME NEW r \in Responses
      PROVE  {row \in Scoring!VillagesOf(s) \X (1..Scoring!Most) : row[2] <= cs[r][v][row[1]]}
               = {row \in Scoring!VillagesOf(s) \X (1..Scoring!Most) : row[2] <= ds[r][v][row[1]]}
    OBVIOUS
<1>. QED BY <1>1 DEF Scoring!RowsOf

LEMMA RowsOfNone ==
    ASSUME NEW cs, NEW v, NEW s,
           \A r \in Responses, p \in Scoring!VillagesOf(s) : cs[r][v][p] = 0
    PROVE  Scoring!RowsOf(cs, v, s) = Scoring!NoRows
<1>1. ASSUME NEW r \in Responses
      PROVE  {row \in Scoring!VillagesOf(s) \X (1..Scoring!Most) : row[2] <= cs[r][v][row[1]]} = {}
    BY DEF Scoring!Most
<1>. QED BY <1>1, FS_EmptySet, ZenonT(60)
         DEF Scoring!RowsOf, Scoring!NoRows, Scoring!Cardinality, Cardinality

LEMMA RowsOfOne ==
    ASSUME NEW cs, NEW v, NEW s \in Scoring!Scopes, NEW r \in Responses, NEW q,
           \A p \in Villages : cs[r][v][p] = 0 \/ (p = q /\ cs[r][v][p] = 1)
    PROVE  Scoring!RowsOf(cs, v, s)[r] <= 1
<1>. DEFINE counted == {row \in Scoring!VillagesOf(s) \X (1..Scoring!Most) :
                           row[2] <= cs[r][v][row[1]]}
<1>1. counted \subseteq {<<q, 1>>}
    BY DEF Scoring!VillagesOf, Scoring!Scopes, Scoring!All, Scoring!Most
<1>2. Cardinality(counted) <= 1
  <2>1. IsFiniteSet({<<q, 1>>}) /\ Cardinality({<<q, 1>>}) = 1
      BY FS_Singleton
  <2>. HIDE DEF counted
  <2>. QED BY <1>1, <2>1, FS_Subset
<1>3. Scoring!RowsOf(cs, v, s)[r] = Cardinality(counted)
    BY DEF Scoring!RowsOf, Scoring!Cardinality, Cardinality
<1>. QED BY <1>2, <1>3

\* What is written in a table stays within its types, and where it was written.
LEMMA UpsertOf ==
    ASSUME NEW table \in [Scoring!Versions -> [Scoring!Scopes -> Scoring!Counts]],
           NEW v \in Scoring!Versions, NEW s \in Scoring!Scopes, NEW rs \in Scoring!Counts
    PROVE  /\ Scoring!Upserted(table, v, s, rs)
                \in [Scoring!Versions -> [Scoring!Scopes -> Scoring!Counts]]
           /\ \A u \in Scoring!Versions, t \in Scoring!Scopes :
                 Scoring!Upserted(table, v, s, rs)[u][t] =
                    IF u = v /\ t = s /\ rs # Scoring!NoRows THEN rs ELSE table[u][t]
<1>1. CASE rs = Scoring!NoRows
    BY <1>1 DEF Scoring!Upserted
<1>2. CASE rs # Scoring!NoRows
  <2>1. Scoring!Upserted(table, v, s, rs) = [table EXCEPT ![v][s] = rs]
      BY <1>2 DEF Scoring!Upserted
  <2>2. Scoring!Upserted(table, v, s, rs) =
            [u \in Scoring!Versions |-> [t \in Scoring!Scopes |->
                IF u = v /\ t = s THEN rs ELSE table[u][t]]]
      BY <2>1
  <2>. QED BY <1>2, <2>2
<1>. QED BY <1>1, <1>2

\* What a recalculation does to the score rows and to the rollups.
Recounted(m, r, u, p) ==
    IF r \in recount[m].found THEN IF u = recount[m].version /\ p = home THEN 1 ELSE 0
                              ELSE copies[r][u][p]

LEMMA RecountRewrites ==
    ASSUME Scoring!TypeOK, ScoringInv, NEW m \in Workers, Scoring!Recount(m)
    PROVE  LET v     == recount[m].version
               fresh == Scoring!Upserted(rolled, v, home, Scoring!RowsOf(copies', v, home))
           IN  /\ v \in Scoring!Versions
               /\ copies' \in [Responses -> [Scoring!Versions -> [Villages -> 0..Scoring!Most]]]
               /\ \A r \in Responses, u \in Scoring!Versions, p \in Villages :
                     copies'[r][u][p] = Recounted(m, r, u, p)
               /\ rolled' = Scoring!Upserted(fresh, v, Scoring!All,
                                             Scoring!RowsOf(copies', v, Scoring!All))
               /\ UNCHANGED <<answered, live, home, assessed, job>>
<1>1. recount[m].version \in Scoring!Versions
    BY DEF ScoringInv, Scoring!Recount, Scoring!RecountAs
<1>2. copies' = [r \in Responses |->
          IF r \in recount[m].found
            THEN [u \in Scoring!Versions |-> [p \in Villages |->
                    (IF r \in Responses THEN 0 ELSE copies[r][u][p])
                      + (IF u = recount[m].version /\ p = home THEN 1 ELSE 0)]]
            ELSE copies[r]]
    BY DEF Scoring!Recount, Scoring!RecountAs
<1>3. \A r \in Responses, u \in Scoring!Versions, p \in Villages :
          copies'[r][u][p] = Recounted(m, r, u, p)
    BY <1>2 DEF Recounted
<1>4. copies' = [r \in Responses |-> [u \in Scoring!Versions |-> [p \in Villages |->
                    Recounted(m, r, u, p)]]]
  <2>. SUFFICES ASSUME NEW r \in Responses
                PROVE  copies'[r] = [u \in Scoring!Versions |-> [p \in Villages |->
                                        Recounted(m, r, u, p)]]
      BY <1>2
  <2>1. copies[r] = [u \in Scoring!Versions |-> [p \in Villages |-> copies[r][u][p]]]
      BY DEF Scoring!TypeOK
  <2>2. CASE r \in recount[m].found
      BY <1>2, <2>2 DEF Recounted
  <2>3. CASE r \notin recount[m].found
      BY <1>2, <2>1, <2>3 DEF Recounted
  <2>. QED BY <2>2, <2>3
<1>5. copies' \in [Responses -> [Scoring!Versions -> [Villages -> 0..Scoring!Most]]]
  <2>1. \A r \in Responses, u \in Scoring!Versions, p \in Villages :
            Recounted(m, r, u, p) \in 0..Scoring!Most
      BY DEF Recounted, Scoring!TypeOK, Scoring!Most
  <2>. QED BY <1>4, <2>1
<1>6. /\ rolled' = Scoring!Upserted(
              Scoring!Upserted(rolled, recount[m].version, home,
                               Scoring!RowsOf(copies', recount[m].version, home)),
              recount[m].version, Scoring!All,
              Scoring!RowsOf(copies', recount[m].version, Scoring!All))
      /\ UNCHANGED <<answered, live, home, assessed, job>>
    BY DEF Scoring!Recount, Scoring!RecountAs
<1>. QED BY <1>1, <1>3, <1>5, <1>6

\* The types of what one response's scoring writes.
LEMMA JobTyped ==
    ASSUME Scoring!TypeOK, NEW r \in Responses, NEW t \in Scoring!Jobs,
           job' = [job EXCEPT ![r] = t]
    PROVE  job' \in [Responses -> Scoring!Jobs]
BY DEF Scoring!TypeOK

LEMMA WriteTyped ==
    ASSUME Scoring!TypeOK, NEW r \in Responses, Scoring!WriteRollups(r)
    PROVE  /\ job[r].version \in Scoring!Versions /\ job[r].scope \in Scoring!Scopes
           /\ job[r].rows \in Scoring!Counts
           /\ rolled' = Scoring!Upserted(rolled, job[r].version, job[r].scope, job[r].rows)
<1>1. /\ job[r].version \in Scoring!Versions /\ job[r].scope \in Scoring!Scopes
      /\ job[r].rows \in Scoring!Counts
  <2>1. job[r] \in Scoring!Jobs /\ job[r].at \in {"writeVillage", "writeAll"}
      BY DEF Scoring!WriteRollups, Scoring!WriteWhere, Scoring!TypeOK
  <2>. QED BY <2>1 DEF Scoring!Jobs, Scoring!Done
<1>. QED BY <1>1 DEF Scoring!WriteRollups, Scoring!WriteWhere

LEMMA HomeInScope == Scoring!TypeOK => home \in Scoring!Scopes /\ Scoring!All \in Scoring!Scopes
BY DEF Scoring!TypeOK, Scoring!Scopes

LEMMA ScoringTyped ==
    ASSUME Scoring!TypeOK, ScoringInv, [Scoring!Next]_scoringVars
    PROVE  Scoring!TypeOK'
<1>0. DOMAIN recount' = Workers
    BY ScoringStep DEF ScoringInv
<1>1. CASE UNCHANGED scoringVars
    BY <1>1 DEF scoringVars, Scoring!TypeOK
<1>2. CASE Scoring!Publish \/ \E p \in Villages : Scoring!Move(p)
    BY <1>0, <1>2 DEF Scoring!Publish, Scoring!Move, Scoring!TypeOK, Scoring!Versions
<1>3. ASSUME NEW r \in Responses, Scoring!Submit(r) PROVE Scoring!TypeOK'
  <2>1. [at |-> "score"] \in Scoring!Jobs
      BY DEF Scoring!Jobs
  <2>. QED BY <1>0, <1>3, <2>1, JobTyped DEF Scoring!Submit, Scoring!TypeOK
<1>4. ASSUME NEW r \in Responses, Scoring!ScoreResponse(r) PROVE Scoring!TypeOK'
  <2>1. [at |-> "resolve"] \in Scoring!Jobs
      BY DEF Scoring!Jobs
  <2>2. copies' = [copies EXCEPT ![r][live][home] = Scoring!Capped(copies[r][live][home] + 1)]
      BY <1>4 DEF Scoring!ScoreResponse
  <2>3. Scoring!Capped(copies[r][live][home] + 1) \in 0..Scoring!Most
    <3>1. copies[r][live][home] \in 0..Scoring!Most
        BY DEF Scoring!TypeOK
    <3>. QED BY <3>1 DEF Scoring!Capped, Scoring!Most
  <2>4. copies' \in [Responses -> [Scoring!Versions -> [Villages -> 0..Scoring!Most]]]
      BY <2>2, <2>3 DEF Scoring!TypeOK
  <2>. QED BY <1>0, <1>4, <2>1, <2>4, JobTyped DEF Scoring!ScoreResponse, Scoring!TypeOK
<1>5. ASSUME NEW r \in Responses, Scoring!Resolve(r) PROVE Scoring!TypeOK'
  <2>1. [at |-> "village", version |-> live] \in Scoring!Jobs
      BY DEF Scoring!Jobs, Scoring!TypeOK
  <2>. QED BY <1>0, <1>5, <2>1, JobTyped DEF Scoring!Resolve, Scoring!TypeOK
<1>6. ASSUME NEW r \in Responses, Scoring!ReadScores(r) PROVE Scoring!TypeOK'
  <2>. DEFINE s  == IF job[r].at = "all" THEN Scoring!All ELSE home
              at == IF s = Scoring!All THEN "writeAll" ELSE "writeVillage"
              t  == [at |-> at, version |-> job[r].version,
                     rows |-> Scoring!RowsOf(copies, job[r].version, s), scope |-> s]
  <2>1. job[r].version \in Scoring!Versions
    <3>1. job[r] \in Scoring!Jobs /\ job[r].at \in {"village", "all"}
        BY <1>6 DEF Scoring!ReadScores, Scoring!TypeOK
    <3>. QED BY <3>1 DEF Scoring!Jobs, Scoring!Done
  <2>2. s \in Scoring!Scopes
      BY HomeInScope
  <2>3. Scoring!RowsOf(copies, job[r].version, s) \in Scoring!Counts
      BY <2>2, RowsCounted
  <2>4. t \in Scoring!Jobs
      BY <2>1, <2>2, <2>3 DEF Scoring!Jobs
  <2>5. job' = [job EXCEPT ![r] = t]
      BY <1>6 DEF Scoring!ReadScores
  <2>. HIDE DEF t
  <2>. QED BY <1>0, <1>6, <2>4, <2>5, JobTyped DEF Scoring!ReadScores, Scoring!TypeOK
<1>7. ASSUME NEW r \in Responses, Scoring!WriteRollups(r) PROVE Scoring!TypeOK'
  <2>1. /\ job[r].version \in Scoring!Versions /\ job[r].scope \in Scoring!Scopes
        /\ job[r].rows \in Scoring!Counts
        /\ rolled' = Scoring!Upserted(rolled, job[r].version, job[r].scope, job[r].rows)
      BY <1>7, WriteTyped
  <2>3. rolled' \in [Scoring!Versions -> [Scoring!Scopes -> Scoring!Counts]]
      BY <2>1, UpsertOf DEF Scoring!TypeOK
  <2>4. Scoring!Done \in Scoring!Jobs /\ [at |-> "all", version |-> job[r].version] \in Scoring!Jobs
      BY <2>1 DEF Scoring!Jobs
  <2>5. job' \in [Responses -> Scoring!Jobs]
      BY <1>7, <2>4 DEF Scoring!WriteRollups, Scoring!WriteWhere, Scoring!TypeOK
  <2>. QED BY <1>0, <1>7, <2>3, <2>5 DEF Scoring!WriteRollups, Scoring!WriteWhere, Scoring!TypeOK
<1>8. ASSUME NEW r \in Responses, Scoring!Lose(r) PROVE Scoring!TypeOK'
  <2>1. Scoring!Done \in Scoring!Jobs
      BY DEF Scoring!Jobs
  <2>. QED BY <1>0, <1>8, <2>1, JobTyped DEF Scoring!Lose, Scoring!TypeOK
<1>9. ASSUME NEW m \in Workers, NEW v \in Scoring!Versions, Scoring!BeginRecount(m, v)
      PROVE  Scoring!TypeOK'
    BY <1>0, <1>9 DEF Scoring!BeginRecount, Scoring!TypeOK
<1>10. ASSUME NEW m \in Workers, Scoring!Recount(m) PROVE Scoring!TypeOK'
  <2>. DEFINE v     == recount[m].version
              fresh == Scoring!Upserted(rolled, v, home, Scoring!RowsOf(copies', v, home))
  <2>1. /\ v \in Scoring!Versions
        /\ copies' \in [Responses -> [Scoring!Versions -> [Villages -> 0..Scoring!Most]]]
        /\ rolled' = Scoring!Upserted(fresh, v, Scoring!All,
                                      Scoring!RowsOf(copies', v, Scoring!All))
        /\ UNCHANGED <<answered, live, home, assessed, job>>
      BY <1>10, RecountRewrites
  <2>2. /\ Scoring!RowsOf(copies', v, home) \in Scoring!Counts
        /\ Scoring!RowsOf(copies', v, Scoring!All) \in Scoring!Counts
      BY HomeInScope, RowsCounted
  <2>3. fresh \in [Scoring!Versions -> [Scoring!Scopes -> Scoring!Counts]]
      BY <2>1, <2>2, HomeInScope, UpsertOf DEF Scoring!TypeOK
  <2>. HIDE DEF fresh, v
  <2>4. rolled' \in [Scoring!Versions -> [Scoring!Scopes -> Scoring!Counts]]
      BY <2>1, <2>2, <2>3, HomeInScope, UpsertOf
  <2>. QED BY <1>0, <2>1, <2>4 DEF Scoring!TypeOK
<1>11. ASSUME NEW m \in Workers, NEW s \in Scoring!Scopes, Scoring!Assess(m, s)
       PROVE  Scoring!TypeOK'
  <2>1. recount[m].version \in Scoring!Versions
      BY <1>11 DEF Scoring!Assess, ScoringInv
  <2>2. rolled[recount[m].version][s] \in Scoring!Counts
      BY <2>1 DEF Scoring!TypeOK
  <2>3. assessed' \in [Scoring!Versions -> [Scoring!Scopes -> Scoring!Counts]]
      BY <1>11, <2>1, <2>2, UpsertOf DEF Scoring!Assess, Scoring!TypeOK
  <2>. QED BY <1>0, <1>11, <2>3 DEF Scoring!Assess, Scoring!TypeOK
<1>12. ASSUME NEW m \in Workers, Scoring!Abort(m) PROVE Scoring!TypeOK'
    BY <1>0, <1>12 DEF Scoring!Abort, Scoring!TypeOK
<1>. QED BY <1>1, <1>2, <1>3, <1>4, <1>5, <1>6, <1>7, <1>8, <1>9, <1>10, <1>11, <1>12
         DEF Scoring!Next

-----------------------------------------------------------------------------
(***************************************************************************)
(* While one thing happens at a time: a response has one score row or      *)
(* none, the rollups say what the score rows say except for the two scopes *)
(* that the response being scored is still about to write, and what that   *)
(* scoring, or a recalculation, has read still holds.                      *)
(***************************************************************************)
Unscored(r) == \A v \in Scoring!Versions, p \in Villages : copies[r][v][p] = 0

ScoredOnce(r) ==
    \E v \in Scoring!Versions, p \in Villages :
        \A u \in Scoring!Versions, q \in Villages :
            copies[r][u][q] = 0 \/ (u = v /\ q = p /\ copies[r][u][q] = 1)

HalfWay(r) ==
    /\ job[r].at \in {"village", "all", "writeVillage", "writeAll"} => job[r].version = live
    /\ job[r].at = "writeVillage" =>
          job[r].scope = home /\ job[r].rows = Scoring!RowsOf(copies, live, home)
    /\ job[r].at = "writeAll" =>
          job[r].scope = Scoring!All /\ job[r].rows = Scoring!RowsOf(copies, live, Scoring!All)

Settled(v, s) ==
    Scoring!RowsOf(copies, v, s) # Scoring!NoRows => rolled[v][s] = Scoring!RowsOf(copies, v, s)

Settling(r, v, s) ==
    /\ v = live
    /\ \/ job[r].at \in {"resolve", "village", "writeVillage"} /\ s \in {home, Scoring!All}
       \/ job[r].at \in {"all", "writeAll"} /\ s = Scoring!All

RollupsCalm ==
    /\ \A r \in Responses :
          /\ ScoredOnce(r) /\ HalfWay(r)
          /\ answered[r] = 0 => Unscored(r) /\ job[r] = Scoring!Done
          /\ job[r].at = "score" => Unscored(r)
    /\ \A m \in Workers : recount[m].at = "write" => recount[m].found = Scoring!Stored
    /\ \A v \in Scoring!Versions, s \in Scoring!Scopes :
          Settled(v, s) \/ \E r \in Responses : Settling(r, v, s)

LEMMA RollupsInit == Scoring!Init => RollupsCalm
<1>. SUFFICES ASSUME Scoring!Init PROVE RollupsCalm
    OBVIOUS
<1>1. \A r \in Responses : job[r] = Scoring!Done /\ job[r].at = "done"
    BY DEF Scoring!Init, Scoring!Done
<1>2. \A m \in Workers : recount[m].at = "rest"
    BY DEF Scoring!Init, Scoring!Rest
<1>3. \A r \in Responses, v \in Scoring!Versions, p \in Villages : copies[r][v][p] = 0
    BY DEF Scoring!Init
<1>4. 1 \in Scoring!Versions /\ home \in Villages
    BY DEF Scoring!Init, Scoring!Versions
<1>5. \A r \in Responses : ScoredOnce(r) /\ Unscored(r) /\ HalfWay(r)
    BY <1>1, <1>3, <1>4 DEF ScoredOnce, Unscored, HalfWay
<1>6. \A v \in Scoring!Versions, s \in Scoring!Scopes : Settled(v, s)
  <2>1. ASSUME NEW v \in Scoring!Versions, NEW s \in Scoring!Scopes
        PROVE  Scoring!RowsOf(copies, v, s) = Scoring!NoRows
    <3>1. \A r \in Responses, p \in Scoring!VillagesOf(s) : copies[r][v][p] = 0
        BY <1>3 DEF Scoring!VillagesOf, Scoring!Scopes
    <3>. QED BY <3>1, RowsOfNone
  <2>. QED BY <2>1 DEF Settled
<1>. QED BY <1>1, <1>2, <1>5, <1>6 DEF RollupsCalm

\* Nothing is in flight but the scoring of r, or nothing but the recalculation
\* of m, when only that moves.
LEMMA OneScoring ==
    ASSUME Scoring!TypeOK, NEW r \in Responses, NEW t,
           job' = [job EXCEPT ![r] = t], recount' = recount,
           \A n \in Workers : recount[n] # Scoring!Rest => recount'[n] # recount[n],
           \A q \in Responses : job[q] # Scoring!Done => job'[q] # job[q]
    PROVE  /\ job'[r] = t
           /\ \A q \in Responses : q # r => job[q] = Scoring!Done /\ job'[q] = Scoring!Done
           /\ \A n \in Workers : recount'[n].at = "rest"
BY DEF Scoring!TypeOK, Scoring!Rest

\* Rollups that were settled stay so when neither they nor the rows change.
LEMMA SettledKeeps ==
    ASSUME RollupsCalm, UNCHANGED <<copies, rolled>>,
           \A r \in Responses : job[r] = Scoring!Done
    PROVE  /\ \A v \in Scoring!Versions, s \in Scoring!Scopes : Settled(v, s)'
           /\ \A r \in Responses : ScoredOnce(r)' /\ (Unscored(r) => Unscored(r)')
<1>1. \A r \in Responses : job[r].at = "done"
    BY DEF Scoring!Done
<1>2. \A v \in Scoring!Versions, s \in Scoring!Scopes : Settled(v, s)
    BY <1>1 DEF RollupsCalm, Settling
<1>3. \A v, s : Scoring!RowsOf(copies', v, s) = Scoring!RowsOf(copies, v, s)
    OBVIOUS
<1>4. \A v \in Scoring!Versions, s \in Scoring!Scopes : Settled(v, s)'
    BY <1>2, <1>3 DEF Settled, Scoring!NoRows
<1>5. \A r \in Responses : ScoredOnce(r)' /\ (Unscored(r) => Unscored(r)')
    BY DEF RollupsCalm, ScoredOnce, Unscored, Scoring!Versions
<1>. QED BY <1>4, <1>5

LEMMA ScoredStep ==
    ASSUME Scoring!TypeOK, RollupsCalm, NEW r \in Responses, Scoring!ScoreResponse(r),
           \A q \in Responses : q # r => job[q] = Scoring!Done
    PROVE  /\ \A q \in Responses : ScoredOnce(q)' /\ (q # r /\ Unscored(q) => Unscored(q)')
           /\ \A v \in Scoring!Versions, s \in Scoring!Scopes :
                 Settled(v, s)' \/ (v = live /\ s \in {home, Scoring!All})
<1>1. job[r].at = "score" /\ Unscored(r) /\ UNCHANGED <<live, home, rolled>>
    BY DEF Scoring!ScoreResponse, RollupsCalm
<1>2. copies' = [copies EXCEPT ![r][live][home] = Scoring!Capped(copies[r][live][home] + 1)]
      /\ live \in Scoring!Versions /\ home \in Villages
    BY DEF Scoring!ScoreResponse, Scoring!TypeOK
<1>3. copies[r][live][home] = 0 /\ Scoring!Capped(copies[r][live][home] + 1) = 1
    BY <1>1, <1>2 DEF Unscored, Scoring!Capped, Scoring!Most
<1>4. \A q \in Responses, v \in Scoring!Versions, p \in Villages :
          copies'[q][v][p] = IF q = r /\ v = live /\ p = home THEN 1 ELSE copies[q][v][p]
    BY <1>2, <1>3 DEF Scoring!TypeOK
<1>5. ScoredOnce(r)'
    BY <1>1, <1>2, <1>4 DEF ScoredOnce, Unscored, Scoring!Versions
<1>6. ASSUME NEW q \in Responses, q # r PROVE ScoredOnce(q)' /\ (Unscored(q) => Unscored(q)')
  <2>1. \A v \in Scoring!Versions, p \in Villages : copies'[q][v][p] = copies[q][v][p]
      BY <1>4, <1>6
  <2>2. ScoredOnce(q)
      BY DEF RollupsCalm
  <2>3. ScoredOnce(q)'
      BY <2>1, <2>2 DEF ScoredOnce, Scoring!Versions
  <2>. QED BY <2>1, <2>3 DEF Unscored, Scoring!Versions
<1>7. ASSUME NEW v \in Scoring!Versions, NEW s \in Scoring!Scopes,
             ~(v = live /\ s \in {home, Scoring!All})
      PROVE  Settled(v, s)'
  <2>1. Settled(v, s)
    <3>1. \A q \in Responses : job[q].at \in {"done", "score"}
        BY <1>1 DEF Scoring!Done
    <3>. QED BY <3>1 DEF RollupsCalm, Settling
  <2>2. \A q \in Responses, p \in Scoring!VillagesOf(s) : copies'[q][v][p] = copies[q][v][p]
      BY <1>4, <1>7 DEF Scoring!VillagesOf, Scoring!Scopes
  <2>3. Scoring!RowsOf(copies', v, s) = Scoring!RowsOf(copies, v, s)
      BY <2>2, RowsAgree
  <2>. QED BY <1>1, <2>1, <2>3 DEF Settled, Scoring!NoRows
<1>. QED BY <1>5, <1>6, <1>7

LEMMA WrittenStep ==
    ASSUME Scoring!TypeOK, RollupsCalm, NEW r \in Responses, Scoring!WriteRollups(r),
           \A q \in Responses : q # r => job[q] = Scoring!Done
    PROVE  \A v \in Scoring!Versions, s \in Scoring!Scopes :
              Settled(v, s)' \/ (job[r].at = "writeVillage" /\ v = live /\ s = Scoring!All)
<1>1. /\ job[r].version \in Scoring!Versions /\ job[r].scope \in Scoring!Scopes
      /\ job[r].rows \in Scoring!Counts
      /\ rolled' = Scoring!Upserted(rolled, job[r].version, job[r].scope, job[r].rows)
    BY WriteTyped
<1>2. \A v \in Scoring!Versions, s \in Scoring!Scopes :
          rolled'[v][s] = IF v = job[r].version /\ s = job[r].scope
                                /\ job[r].rows # Scoring!NoRows
                            THEN job[r].rows ELSE rolled[v][s]
  <2>1. rolled \in [Scoring!Versions -> [Scoring!Scopes -> Scoring!Counts]]
      BY DEF Scoring!TypeOK
  <2>. DEFINE at    == job[r].version
              scope == job[r].scope
              rs    == job[r].rows
  <2>2. /\ at \in Scoring!Versions /\ scope \in Scoring!Scopes /\ rs \in Scoring!Counts
        /\ rolled' = Scoring!Upserted(rolled, at, scope, rs)
      BY <1>1
  <2>. HIDE DEF at, scope, rs
  <2>3. \A v \in Scoring!Versions, s \in Scoring!Scopes :
            rolled'[v][s] = IF v = at /\ s = scope /\ rs # Scoring!NoRows THEN rs ELSE rolled[v][s]
    <3>1. \A v \in Scoring!Versions, s \in Scoring!Scopes :
              Scoring!Upserted(rolled, at, scope, rs)[v][s]
                = IF v = at /\ s = scope /\ rs # Scoring!NoRows THEN rs ELSE rolled[v][s]
        BY <2>1, <2>2, UpsertOf, ZenonT(60)
    <3>. QED BY <2>2, <3>1, Zenon
  <2>. QED BY <2>3 DEF at, scope, rs
<1>3. job[r].at \in {"writeVillage", "writeAll"} /\ copies' = copies
    BY DEF Scoring!WriteRollups, Scoring!WriteWhere
<1>4. /\ job[r].version = live
      /\ job[r].scope = IF job[r].at = "writeVillage" THEN home ELSE Scoring!All
      /\ job[r].rows = Scoring!RowsOf(copies, live, job[r].scope)
    BY <1>3 DEF RollupsCalm, HalfWay
<1>5. ASSUME NEW v \in Scoring!Versions, NEW s \in Scoring!Scopes,
             ~(job[r].at = "writeVillage" /\ v = live /\ s = Scoring!All)
      PROVE  Settled(v, s)'
  <2>1. Scoring!RowsOf(copies', v, s) = Scoring!RowsOf(copies, v, s)
      BY <1>3
  <2>2. CASE v = live /\ s = job[r].scope
      BY <1>2, <1>4, <2>1, <2>2 DEF Settled, Scoring!NoRows
  <2>3. CASE ~(v = live /\ s = job[r].scope)
    <3>1. Settled(v, s)
      <4>1. \A q \in Responses : q # r => job[q].at = "done"
          BY DEF Scoring!Done
      <4>2. ~\E q \in Responses : Settling(q, v, s)
          BY <1>3, <1>4, <1>5, <2>3, <4>1 DEF Settling
      <4>. QED BY <4>2 DEF RollupsCalm
    <3>. QED BY <1>2, <1>4, <2>1, <2>3, <3>1 DEF Settled, Scoring!NoRows
  <2>. QED BY <2>2, <2>3
<1>. QED BY <1>5

LEMMA RecountedStep ==
    ASSUME Scoring!TypeOK, ScoringInv, RollupsCalm, NEW m \in Workers, Scoring!Recount(m),
           \A q \in Responses : job[q] = Scoring!Done
    PROVE  /\ \A q \in Responses : ScoredOnce(q)' /\ (answered[q] = 0 => Unscored(q)')
           /\ \A v \in Scoring!Versions, s \in Scoring!Scopes : Settled(v, s)'
<1>. DEFINE v     == recount[m].version
            fresh == Scoring!Upserted(rolled, v, home, Scoring!RowsOf(copies', v, home))
<1>1. /\ v \in Scoring!Versions
      /\ \A r \in Responses, u \in Scoring!Versions, p \in Villages :
            copies'[r][u][p] = Recounted(m, r, u, p)
      /\ rolled' = Scoring!Upserted(fresh, v, Scoring!All, Scoring!RowsOf(copies', v, Scoring!All))
    BY RecountRewrites
<1>2. recount[m].found = Scoring!Stored
    BY DEF RollupsCalm, Scoring!Recount, Scoring!RecountAs
<1>3. \A r \in Responses, u \in Scoring!Versions, p \in Villages :
          copies'[r][u][p] = IF answered[r] # 0 /\ u = v /\ p = home THEN 1 ELSE 0
    BY <1>1, <1>2 DEF Recounted, Scoring!Stored, RollupsCalm, Unscored
<1>4. home \in Villages
    BY DEF Scoring!TypeOK
<1>5. \A q \in Responses : ScoredOnce(q)' /\ (answered[q] = 0 => Unscored(q)')
    BY <1>1, <1>3, <1>4 DEF ScoredOnce, Unscored, Scoring!Versions
<1>6. /\ Scoring!RowsOf(copies', v, home) \in Scoring!Counts
      /\ Scoring!RowsOf(copies', v, Scoring!All) \in Scoring!Counts
    BY HomeInScope, RowsCounted
<1>7. /\ fresh \in [Scoring!Versions -> [Scoring!Scopes -> Scoring!Counts]]
      /\ fresh[v][home] = IF Scoring!RowsOf(copies', v, home) # Scoring!NoRows
                            THEN Scoring!RowsOf(copies', v, home) ELSE rolled[v][home]
  <2>1. rolled \in [Scoring!Versions -> [Scoring!Scopes -> Scoring!Counts]]
      BY DEF Scoring!TypeOK
  <2>. HIDE DEF v
  <2>. QED BY <1>1, <1>6, <2>1, HomeInScope, UpsertOf
<1>. HIDE DEF fresh, v
<1>8. \A s \in {home, Scoring!All} :
          Scoring!RowsOf(copies', v, s) # Scoring!NoRows
            => rolled'[v][s] = Scoring!RowsOf(copies', v, s)
  <2>1. home # Scoring!All
      BY <1>4, RowsAssumption DEF Scoring!All
  <2>. QED BY <1>1, <1>6, <1>7, <2>1, HomeInScope, UpsertOf
<1>9. ASSUME NEW u \in Scoring!Versions, NEW s \in Scoring!Scopes,
             ~(u = v /\ s \in {home, Scoring!All})
      PROVE  Scoring!RowsOf(copies', u, s) = Scoring!NoRows
  <2>1. \A r \in Responses, p \in Scoring!VillagesOf(s) : copies'[r][u][p] = 0
      BY <1>3, <1>9 DEF Scoring!VillagesOf, Scoring!Scopes
  <2>. QED BY <2>1, RowsOfNone
<1>10. \A u \in Scoring!Versions, s \in Scoring!Scopes : Settled(u, s)'
    BY <1>8, <1>9 DEF Settled, Scoring!NoRows
<1>. QED BY <1>5, <1>10

LEMMA RollupsStayCalm ==
    ASSUME Scoring!TypeOK, ScoringInv, RollupsCalm, Scoring!Next,
           \A n \in Workers : recount[n] # Scoring!Rest => recount'[n] # recount[n],
           \A q \in Responses : job[q] # Scoring!Done => job'[q] # job[q],
           \A q \in Responses : Scoring!Lose(q) => Scoring!WriteRollups(q)
    PROVE  RollupsCalm'
<1>0. Scoring!Rest.at = "rest" /\ Scoring!Done.at = "done"
    BY DEF Scoring!Rest, Scoring!Done
\* Nothing is being scored.
<1>1. ASSUME UNCHANGED <<answered, copies, rolled, job>>,
             \A n \in Workers : recount'[n].at = "write" => recount'[n].found = Scoring!Stored
      PROVE  RollupsCalm'
  <2>1. \A q \in Responses : job[q] = Scoring!Done /\ job'[q].at = "done"
      BY <1>0, <1>1
  <2>2. /\ \A v \in Scoring!Versions, s \in Scoring!Scopes : Settled(v, s)'
        /\ \A q \in Responses : ScoredOnce(q)' /\ (Unscored(q) => Unscored(q)')
      BY <1>1, <2>1, SettledKeeps
  <2>3. \A q \in Responses : HalfWay(q)'
      BY <2>1 DEF HalfWay
  <2>4. Scoring!Stored' = Scoring!Stored /\ Scoring!Done' = Scoring!Done
      BY <1>1 DEF Scoring!Stored, Scoring!Done
  <2>. QED BY <1>1, <2>1, <2>2, <2>3, <2>4 DEF RollupsCalm, Scoring!Versions
<1>2. ASSUME Scoring!Publish \/ \E p \in Villages : Scoring!Move(p) PROVE RollupsCalm'
  <2>1. UNCHANGED <<answered, copies, rolled, job, recount>>
      BY <1>2 DEF Scoring!Publish, Scoring!Move
  <2>2. \A n \in Workers : recount'[n].at = "rest"
      BY <1>0, <2>1
  <2>. QED BY <1>1, <2>1, <2>2
<1>3. ASSUME NEW m \in Workers, NEW v \in Scoring!Versions, Scoring!BeginRecount(m, v)
      PROVE  RollupsCalm'
  <2>1. /\ UNCHANGED <<answered, copies, rolled, job>>
        /\ recount' = [recount EXCEPT ![m] = [at |-> "write", version |-> v,
                                              found |-> Scoring!Stored]]
      BY <1>3 DEF Scoring!BeginRecount
  <2>2. \A n \in Workers : n # m => recount'[n] = recount[n]
      BY <2>1 DEF ScoringInv
  <2>3. recount'[m].found = Scoring!Stored
      BY <2>1 DEF ScoringInv
  <2>4. \A n \in Workers : n # m => recount'[n].at = "rest"
      BY <1>0, <2>2
  <2>. QED BY <1>1, <2>1, <2>3, <2>4
<1>4. ASSUME NEW m \in Workers, NEW s \in Scoring!Scopes,
             Scoring!Assess(m, s) \/ Scoring!Abort(m)
      PROVE  RollupsCalm'
  <2>1. UNCHANGED <<answered, copies, rolled, job>>
      BY <1>4 DEF Scoring!Assess, Scoring!Abort
  <2>2. \E t : RecountMoves(m, t) /\ t.at \in {"rest", "assess"}
      BY <1>0, <1>4, AssessmentMoves DEF Scoring!Abort, RecountMoves, Assessing
  <2>3. \A n \in Workers : recount'[n].at # "write"
      BY <1>0, <2>2, RecountOf DEF RecountMoves
  <2>. QED BY <1>1, <2>1, <2>3
\* One response is.
<1>5. ASSUME NEW r \in Responses, NEW t, job' = [job EXCEPT ![r] = t], recount' = recount
      PROVE  /\ job'[r] = t
             /\ \A q \in Responses : q # r => job[q] = Scoring!Done /\ job'[q] = Scoring!Done
             /\ \A n \in Workers : recount'[n].at = "rest"
    BY <1>5, OneScoring
<1>6. ASSUME NEW r \in Responses, Scoring!Submit(r) PROVE RollupsCalm'
  <2>1. /\ UNCHANGED <<live, home, copies, rolled, recount>> /\ answered[r] = 0
        /\ \A q \in Responses : q # r => answered'[q] = answered[q]
        /\ answered'[r] # 0
      BY <1>6 DEF Scoring!Submit, Scoring!TypeOK, Scoring!Versions
  <2>2. job[r] = Scoring!Done /\ Unscored(r)
      BY <2>1 DEF RollupsCalm
  <2>3. /\ job'[r] = [at |-> "score"]
        /\ \A q \in Responses : q # r => job[q] = Scoring!Done /\ job'[q] = Scoring!Done
        /\ \A n \in Workers : recount'[n].at = "rest"
      BY <1>5, <1>6 DEF Scoring!Submit
  <2>4. /\ \A v \in Scoring!Versions, s \in Scoring!Scopes : Settled(v, s)'
        /\ \A q \in Responses : ScoredOnce(q)' /\ (Unscored(q) => Unscored(q)')
      BY <2>1, <2>2, <2>3, SettledKeeps
  <2>5. \A q \in Responses : HalfWay(q)'
      BY <1>0, <2>3 DEF HalfWay
  <2>. QED BY <1>0, <2>1, <2>2, <2>3, <2>4, <2>5 DEF RollupsCalm, Scoring!Versions, Scoring!Done
<1>7. ASSUME NEW r \in Responses, Scoring!ScoreResponse(r) PROVE RollupsCalm'
  <2>1. /\ job'[r] = [at |-> "resolve"]
        /\ \A q \in Responses : q # r => job[q] = Scoring!Done /\ job'[q] = Scoring!Done
        /\ \A n \in Workers : recount'[n].at = "rest"
      BY <1>5, <1>7 DEF Scoring!ScoreResponse
  <2>2. /\ \A q \in Responses : ScoredOnce(q)' /\ (q # r /\ Unscored(q) => Unscored(q)')
        /\ \A v \in Scoring!Versions, s \in Scoring!Scopes :
              Settled(v, s)' \/ (v = live /\ s \in {home, Scoring!All})
      BY <1>7, <2>1, ScoredStep
  <2>3. UNCHANGED <<live, home, answered>> /\ job[r].at = "score" /\ answered[r] # 0
      BY <1>0, <1>7 DEF Scoring!ScoreResponse, RollupsCalm
  <2>4. \A v \in Scoring!Versions, s \in Scoring!Scopes : Settled(v, s)' \/ Settling(r, v, s)'
      BY <2>1, <2>2, <2>3 DEF Settling, Scoring!All
  <2>5. \A q \in Responses : HalfWay(q)'
      BY <1>0, <2>1 DEF HalfWay
  <2>. QED BY <1>0, <2>1, <2>2, <2>3, <2>4, <2>5 DEF RollupsCalm, Scoring!Versions, Scoring!Done
<1>8. ASSUME NEW r \in Responses, Scoring!Resolve(r) \/ Scoring!ReadScores(r) PROVE RollupsCalm'
  <2>1. UNCHANGED <<answered, live, home, copies, rolled, recount>>
      BY <1>8 DEF Scoring!Resolve, Scoring!ReadScores
  <2>2. job[r].at \in {"resolve", "village", "all"}
      BY <1>8 DEF Scoring!Resolve, Scoring!ReadScores
  <2>3. PICK t : job' = [job EXCEPT ![r] = t]
      BY <1>8 DEF Scoring!Resolve, Scoring!ReadScores
  <2>4. /\ \A q \in Responses : q # r => job[q] = Scoring!Done /\ job'[q] = Scoring!Done
        /\ \A n \in Workers : recount'[n].at = "rest"
      BY <1>5, <2>1, <2>3
  <2>5. /\ HalfWay(r)' /\ job'[r].at # "score"
        /\ \A v, s : Settling(r, v, s) => Settling(r, v, s)'
    <3>1. CASE Scoring!Resolve(r)
      <4>1. job[r].at = "resolve" /\ job'[r] = [at |-> "village", version |-> live]
          BY <3>1 DEF Scoring!Resolve, Scoring!TypeOK
      <4>. QED BY <2>1, <4>1 DEF HalfWay, Settling, Scoring!All
    <3>2. CASE Scoring!ReadScores(r)
      <4>. DEFINE s == IF job[r].at = "all" THEN Scoring!All ELSE home
      <4>1. job[r].at \in {"village", "all"} /\ job[r].version = live
          BY <3>2 DEF Scoring!ReadScores, RollupsCalm, HalfWay
      <4>2. job'[r] = [at |-> IF s = Scoring!All THEN "writeAll" ELSE "writeVillage",
                       version |-> live, rows |-> Scoring!RowsOf(copies, live, s), scope |-> s]
          BY <3>2, <4>1 DEF Scoring!ReadScores, Scoring!TypeOK
      <4>3. home # Scoring!All
          BY RowsAssumption DEF Scoring!TypeOK, Scoring!All
      <4>5. CASE job[r].at = "all"
        <5>1. job'[r] = [at |-> "writeAll", version |-> live,
                         rows |-> Scoring!RowsOf(copies, live, Scoring!All), scope |-> Scoring!All]
            BY <4>2, <4>5
        <5>. QED BY <2>1, <4>5, <5>1 DEF HalfWay, Settling, Scoring!All
      <4>6. CASE job[r].at = "village"
        <5>1. job'[r] = [at |-> "writeVillage", version |-> live,
                         rows |-> Scoring!RowsOf(copies, live, home), scope |-> home]
            BY <4>2, <4>3, <4>6
        <5>. QED BY <2>1, <4>6, <5>1 DEF HalfWay, Settling, Scoring!All
      <4>. QED BY <4>1, <4>5, <4>6
    <3>. QED BY <1>8, <3>1, <3>2
  <2>6. \A q \in Responses : HalfWay(q)'
      BY <1>0, <2>4, <2>5 DEF HalfWay
  <2>7. \A q \in Responses : ScoredOnce(q)' /\ (Unscored(q) => Unscored(q)')
      BY <2>1 DEF RollupsCalm, ScoredOnce, Unscored, Scoring!Versions
  <2>8. \A v \in Scoring!Versions, s \in Scoring!Scopes :
            Settled(v, s)' \/ \E q \in Responses : Settling(q, v, s)'
    <3>1. \A v, s : Settled(v, s) => Settled(v, s)'
        BY <2>1 DEF Settled, Scoring!NoRows
    <3>2. \A q \in Responses : \A v, s : Settling(q, v, s) => q = r
        BY <1>0, <2>4 DEF Settling
    <3>. QED BY <2>5, <3>1, <3>2 DEF RollupsCalm
  <2>9. answered[r] # 0
      BY <1>0, <2>2 DEF RollupsCalm
  <2>. QED BY <1>0, <2>1, <2>4, <2>5, <2>6, <2>7, <2>8, <2>9
           DEF RollupsCalm, Scoring!Versions, Scoring!Scopes, Scoring!All, Scoring!Done
<1>9. ASSUME NEW r \in Responses, Scoring!WriteRollups(r) PROVE RollupsCalm'
  <2>1. /\ UNCHANGED <<answered, live, home, copies, recount>>
        /\ job[r].at \in {"writeVillage", "writeAll"}
        /\ job' = [job EXCEPT ![r] = IF job[r].at = "writeAll" THEN Scoring!Done
                                     ELSE [at |-> "all", version |-> job[r].version]]
      BY <1>9 DEF Scoring!WriteRollups, Scoring!WriteWhere
  <2>2. /\ job'[r] = IF job[r].at = "writeAll" THEN Scoring!Done
                     ELSE [at |-> "all", version |-> job[r].version]
        /\ \A q \in Responses : q # r => job[q] = Scoring!Done /\ job'[q] = Scoring!Done
        /\ \A n \in Workers : recount'[n].at = "rest"
    <3>. DEFINE t == IF job[r].at = "writeAll" THEN Scoring!Done
                     ELSE [at |-> "all", version |-> job[r].version]
    <3>1. job' = [job EXCEPT ![r] = t] /\ recount' = recount
        BY <2>1
    <3>. HIDE DEF t
    <3>2. /\ job'[r] = t
          /\ \A q \in Responses : q # r => job[q] = Scoring!Done /\ job'[q] = Scoring!Done
          /\ \A n \in Workers : recount'[n].at = "rest"
        BY <1>5, <3>1
    <3>. QED BY <3>2 DEF t
  <2>3. job[r].version = live /\ answered[r] # 0
      BY <1>0, <2>1 DEF RollupsCalm, HalfWay
  <2>4. \A v \in Scoring!Versions, s \in Scoring!Scopes :
            Settled(v, s)' \/ (job[r].at = "writeVillage" /\ v = live /\ s = Scoring!All)
      BY <1>9, <2>2, WrittenStep
  <2>5. \A v \in Scoring!Versions, s \in Scoring!Scopes : Settled(v, s)' \/ Settling(r, v, s)'
      BY <2>1, <2>2, <2>4 DEF Settling, Scoring!All
  <2>6. \A q \in Responses : HalfWay(q)' /\ job'[q].at # "score"
      BY <1>0, <2>1, <2>2, <2>3 DEF HalfWay
  <2>7. \A q \in Responses : ScoredOnce(q)' /\ (Unscored(q) => Unscored(q)')
      BY <2>1 DEF RollupsCalm, ScoredOnce, Unscored, Scoring!Versions
  <2>. QED BY <2>1, <2>2, <2>3, <2>5, <2>6, <2>7
           DEF RollupsCalm, Scoring!Versions, Scoring!Scopes, Scoring!All, Scoring!Done
<1>10. ASSUME NEW m \in Workers, Scoring!Recount(m) PROVE RollupsCalm'
  <2>1. UNCHANGED <<answered, live, home, job>>
      BY <1>10, RecountRewrites
  <2>2. \A q \in Responses : job[q] = Scoring!Done /\ job'[q] = Scoring!Done /\ job'[q].at = "done"
      BY <1>0, <2>1
  <2>3. /\ \A q \in Responses : ScoredOnce(q)' /\ (answered[q] = 0 => Unscored(q)')
        /\ \A v \in Scoring!Versions, s \in Scoring!Scopes : Settled(v, s)'
      BY <1>10, <2>2, RecountedStep
  <2>4. PICK left : RecountMoves(m, Assessing(recount[m].version, left))
      BY <1>10, RecountWrites
  <2>5. recount'[m].at = "assess" /\ \A n \in Workers : n # m => recount'[n] = recount[n]
      BY <2>4, RecountOf DEF RecountMoves, Assessing
  <2>6. \A n \in Workers : recount'[n].at # "write"
      BY <1>0, <2>5
  <2>7. \A q \in Responses : HalfWay(q)'
      BY <2>2 DEF HalfWay
  <2>. QED BY <2>1, <2>2, <2>3, <2>6, <2>7
           DEF RollupsCalm, Scoring!Versions, Scoring!Scopes, Scoring!All, Scoring!Done
<1>11. Scoring!All \in Scoring!Scopes
    BY DEF Scoring!Scopes
<1>. QED BY <1>2, <1>3, <1>4, <1>6, <1>7, <1>8, <1>9, <1>10, <1>11 DEF Scoring!Next

\* Between two things every response is counted once, in every scope it is in.
LEMMA CalmCounts ==
    ASSUME Scoring!TypeOK, RollupsCalm
    PROVE  Scoring!CountedOnce
<1>1. ASSUME Scoring!Quiet, NEW v \in Scoring!Versions, NEW s \in Scoring!Scopes
      PROVE  /\ \A r \in Responses : Scoring!RowsOf(copies, v, s)[r] <= 1
             /\ Settled(v, s)
  <2>1. \A r \in Responses : job[r].at = "done"
      BY <1>1 DEF Scoring!Quiet, Scoring!Done
  <2>2. Settled(v, s)
      BY <2>1 DEF RollupsCalm, Settling
  <2>3. ASSUME NEW r \in Responses PROVE Scoring!RowsOf(copies, v, s)[r] <= 1
    <3>1. PICK u \in Scoring!Versions, q \in Villages :
              \A w \in Scoring!Versions, p \in Villages :
                  copies[r][w][p] = 0 \/ (w = u /\ p = q /\ copies[r][w][p] = 1)
        BY DEF RollupsCalm, ScoredOnce
    <3>2. \A p \in Villages : copies[r][v][p] = 0 \/ (p = q /\ copies[r][v][p] = 1)
        BY <3>1
    <3>. QED BY <3>2, RowsOfOne
  <2>. QED BY <2>2, <2>3
<1>. QED BY <1>1 DEF Scoring!CountedOnce, Settled

-----------------------------------------------------------------------------
(***************************************************************************)
(* The types of the narratives                                             *)
(***************************************************************************)
LEMMA SummariesTypedInit == Summaries!Init => Summaries!TypeOK
<1>1. 0 \in 0..MaxFigures
    BY ValuesAssumption
<1>. QED BY <1>1 DEF Summaries!Init, Summaries!TypeOK, Summaries!Standings, Summaries!Tasks

\* The variables other than the tasks.
ShelfTypes ==
    /\ parsing \in [Papers -> {"none", "PARSED", "FAILED", "deleted"}]
    /\ included \in [Papers -> BOOLEAN]
    /\ kind \in [Summaries!Ids -> {"score", "paper", "combined"}]
    /\ narrative \in [Summaries!Ids -> Summaries!Standings]
    /\ subject \in [Summaries!Ids -> SUBSET Papers]
    /\ basis \in [Summaries!Ids -> SUBSET Summaries!Ids]
    /\ sources \in [Summaries!Ids -> SUBSET Summaries!Ids]
    /\ told \in [Summaries!Ids -> 0..MaxFigures]
    /\ figures \in 0..MaxFigures
    /\ filed \subseteq BOOLEAN

\* Whatever a request is about to do, it is one of the tasks.
LEMMA GotoTyped ==
    ASSUME Summaries!TypeOK, NEW o \in Workers, NEW t \in Summaries!Tasks,
           officer' = [officer EXCEPT ![o] = t]
    PROVE  officer' \in [Workers -> Summaries!Tasks]
BY DEF Summaries!TypeOK

LEMMA TasksAre ==
    /\ Summaries!Free \in Summaries!Tasks
    /\ \A d \in Papers : [step |-> "summarise", paper |-> d] \in Summaries!Tasks
    /\ \A d \in Papers, st \in {"toggle", "unconfirm", "delete"} :
          [step |-> st, paper |-> d] \in Summaries!Tasks
    /\ \A n \in 0..MaxFigures : /\ [step |-> "narrate", figures |-> n] \in Summaries!Tasks
                                /\ [step |-> "file", told |-> n] \in Summaries!Tasks
    /\ \A s \in Summaries!Ids, of \in SUBSET Summaries!Ids :
          [step |-> "combine", score |-> s, of |-> of] \in Summaries!Tasks
    /\ \A i \in Summaries!Ids, st \in {"edit", "supersede", "confirm"} :
          [step |-> st, id |-> i] \in Summaries!Tasks
BY DEF Summaries!Tasks

LEMMA TaskFields ==
    ASSUME NEW t \in Summaries!Tasks
    PROVE  /\ t.step \in {"toggle", "unconfirm", "delete", "summarise"} => t.paper \in Papers
           /\ t.step = "narrate" => t.figures \in 0..MaxFigures
           /\ t.step = "combine" => t.score \in Summaries!Ids /\ t.of \subseteq Summaries!Ids
           /\ t.step \in {"edit", "supersede", "confirm"} => t.id \in Summaries!Ids
BY DEF Summaries!Tasks, Summaries!Free

LEMMA RequestTyped ==
    ASSUME Summaries!TypeOK, NEW o \in Workers, Summaries!Request(o)
    PROVE  /\ \E t \in Summaries!Tasks : officer' = [officer EXCEPT ![o] = t]
           /\ UNCHANGED Summaries!shelf
<1>. SUFFICES \E t \in Summaries!Tasks : Summaries!Begin(o, t)
    BY DEF Summaries!Begin
<1>1. ASSUME NEW d \in Papers,
             Summaries!BeginToggle(o, d) \/ Summaries!BeginDelete(o, d)
                \/ Summaries!BeginSummarise(o, d)
      PROVE  \E t \in Summaries!Tasks : Summaries!Begin(o, t)
    BY <1>1, TasksAre
       DEF Summaries!BeginToggle, Summaries!BeginDelete, Summaries!BeginSummarise
<1>2. CASE Summaries!BeginCombine(o)
  <2>1. PICK s \in Summaries!Rows("score"), chosen \in SUBSET Summaries!Rows("paper") :
           Summaries!Begin(o, [step |-> "combine", score |-> s,
              of |-> chosen \cap UNION {Summaries!LatestOf(d) : d \in Papers}])
      BY <1>2 DEF Summaries!BeginCombine
  <2>2. s \in Summaries!Ids /\ chosen \subseteq Summaries!Ids
      BY DEF Summaries!Rows
  <2>3. chosen \cap UNION {Summaries!LatestOf(d) : d \in Papers} \in SUBSET Summaries!Ids
      BY <2>2
  <2>4. [step |-> "combine", score |-> s,
         of |-> chosen \cap UNION {Summaries!LatestOf(d) : d \in Papers}] \in Summaries!Tasks
      BY <2>2, <2>3, TasksAre
  <2>. QED BY <2>1, <2>4
<1>3. CASE Summaries!BeginEdit(o)
  <2>1. PICK i \in Summaries!Rows("paper") \cup Summaries!Rows("combined"),
             st \in {"edit", "supersede"} : Summaries!Begin(o, [step |-> st, id |-> i])
      BY <1>3 DEF Summaries!BeginEdit
  <2>2. i \in Summaries!Ids
      BY <2>1 DEF Summaries!Rows
  <2>3. [step |-> st, id |-> i] \in Summaries!Tasks
      BY <2>2, TasksAre
  <2>. QED BY <2>1, <2>3
<1>4. CASE Summaries!BeginNarrate(o)
  <2>1. [step |-> "narrate", figures |-> figures] \in Summaries!Tasks
      BY TasksAre DEF Summaries!TypeOK
  <2>. QED BY <1>4, <2>1 DEF Summaries!BeginNarrate
<1>5. CASE Summaries!BeginFile(o)
  <2>1. PICK i \in Summaries!Confirmed("score") :
            Summaries!Begin(o, [step |-> "file", told |-> told[i]])
      BY <1>5 DEF Summaries!BeginFile
  <2>2. told[i] \in 0..MaxFigures
      BY <2>1 DEF Summaries!Confirmed, Summaries!Rows, Summaries!TypeOK
  <2>3. [step |-> "file", told |-> told[i]] \in Summaries!Tasks
      BY <2>2, TasksAre
  <2>. QED BY <2>1, <2>3
<1>6. \/ \E d \in Papers : Summaries!BeginToggle(o, d) \/ Summaries!BeginDelete(o, d)
                              \/ Summaries!BeginSummarise(o, d)
      \/ Summaries!BeginCombine(o) \/ Summaries!BeginEdit(o)
      \/ Summaries!BeginNarrate(o) \/ Summaries!BeginFile(o)
    BY DEF Summaries!Request
<1>. QED BY <1>1, <1>2, <1>3, <1>4, <1>5, <1>6

LEMMA MarkTyped ==
    ASSUME ShelfTypes, NEW ids, NEW st \in Summaries!Standings, Summaries!Mark(ids, st)
    PROVE  narrative' \in [Summaries!Ids -> Summaries!Standings]
BY DEF ShelfTypes, Summaries!Mark

LEMMA InsertTyped ==
    ASSUME ShelfTypes, NEW i, NEW k \in {"score", "paper", "combined"},
           NEW whose \in SUBSET Papers, NEW on \in SUBSET Summaries!Ids,
           NEW drawn \in SUBSET Summaries!Ids, NEW of \in 0..MaxFigures,
           Summaries!Insert(i, k, whose, on, drawn, of)
    PROVE  /\ kind' \in [Summaries!Ids -> {"score", "paper", "combined"}]
           /\ subject' \in [Summaries!Ids -> SUBSET Papers]
           /\ basis' \in [Summaries!Ids -> SUBSET Summaries!Ids]
           /\ sources' \in [Summaries!Ids -> SUBSET Summaries!Ids]
           /\ told' \in [Summaries!Ids -> 0..MaxFigures]
BY DEF ShelfTypes, Summaries!Insert

LEMMA EraseTyped ==
    ASSUME ShelfTypes, NEW ids, Summaries!Erase(ids)
    PROVE  /\ narrative' \in [Summaries!Ids -> Summaries!Standings]
           /\ sources' \in [Summaries!Ids -> SUBSET Summaries!Ids]
<1>1. PICK erased :
          /\ Summaries!Mark(erased, "none")
          /\ sources' = [i \in Summaries!Ids |-> IF i \in erased THEN {} ELSE sources[i] \ erased]
    BY DEF Summaries!Erase
<1>2. "none" \in Summaries!Standings
    BY DEF Summaries!Standings
<1>3. \A i \in Summaries!Ids : sources[i] \subseteq Summaries!Ids
    BY DEF ShelfTypes
<1>. QED BY <1>1, <1>2, <1>3, MarkTyped

LEMMA ShelfTyped ==
    ASSUME Summaries!TypeOK, Summaries!Next
    PROVE  ShelfTypes'
<1>0. ShelfTypes
    BY DEF ShelfTypes, Summaries!TypeOK
<1>s. /\ {"DRAFT", "STALE", "SUPERSEDED", "OFFICER_CONFIRMED", "SAVED"} \subseteq Summaries!Standings
      /\ 0 \in 0..MaxFigures
    BY ValuesAssumption DEF Summaries!Standings
<1>t. \A o \in Workers : officer[o] \in Summaries!Tasks
    BY DEF Summaries!TypeOK
<1>1. ASSUME UNCHANGED Summaries!shelf PROVE ShelfTypes'
    BY <1>0, <1>1 DEF ShelfTypes, Summaries!shelf, Summaries!narratives
\* A status.
<1>2. ASSUME Summaries!OnlyStanding, NEW ids,
             NEW st \in {"DRAFT", "STALE", "SUPERSEDED", "OFFICER_CONFIRMED", "SAVED"},
             Summaries!Mark(ids, st)
      PROVE  ShelfTypes'
    BY <1>0, <1>2, <1>s, MarkTyped DEF ShelfTypes, Summaries!OnlyStanding
<1>3. ASSUME NEW o \in Workers,
             \/ Summaries!Unconfirm(o) \/ Summaries!Edit(o) \/ Summaries!Supersede(o)
             \/ Summaries!Confirm(o)
      PROVE  ShelfTypes'
    BY <1>2, <1>3 DEF Summaries!Unconfirm, Summaries!Edit, Summaries!Supersede, Summaries!Confirm
<1>4. CASE Summaries!EvidenceToggled \/ \E i \in Summaries!Ids : Summaries!Settle(i)
    BY <1>2, <1>4 DEF Summaries!EvidenceToggled, Summaries!Settle
\* A document.
<1>5. ASSUME NEW d \in Papers, Summaries!UploadDocument(d) PROVE ShelfTypes'
    BY <1>0, <1>5 DEF Summaries!UploadDocument, ShelfTypes, Summaries!narratives
<1>6. ASSUME NEW o \in Workers, Summaries!Toggle(o) PROVE ShelfTypes'
  <2>1. officer[o].paper \in Papers
      BY <1>6, <1>t, TaskFields DEF Summaries!Toggle
  <2>. QED BY <1>0, <1>6, <2>1 DEF Summaries!Toggle, ShelfTypes, Summaries!narratives
<1>7. ASSUME NEW o \in Workers, Summaries!Delete(o) PROVE ShelfTypes'
  <2>1. officer[o].paper \in Papers
      BY <1>7, <1>t, TaskFields DEF Summaries!Delete
  <2>2. /\ narrative' \in [Summaries!Ids -> Summaries!Standings]
        /\ sources' \in [Summaries!Ids -> SUBSET Summaries!Ids]
      BY <1>0, <1>7, EraseTyped DEF Summaries!Delete
  <2>. QED BY <1>0, <1>7, <2>1, <2>2 DEF Summaries!Delete, ShelfTypes
<1>8. ASSUME NEW i \in Summaries!Ids, Summaries!DeleteSavedSummary(i) PROVE ShelfTypes'
  <2>1. /\ narrative' \in [Summaries!Ids -> Summaries!Standings]
        /\ sources' \in [Summaries!Ids -> SUBSET Summaries!Ids]
      BY <1>0, <1>8, EraseTyped DEF Summaries!DeleteSavedSummary
  <2>. QED BY <1>0, <1>8, <2>1 DEF Summaries!DeleteSavedSummary, ShelfTypes
\* A narrative.
<1>9. ASSUME NEW o \in Workers, Summaries!Summarise(o) PROVE ShelfTypes'
  <2>1. officer[o].paper \in Papers
      BY <1>9, <1>t, TaskFields DEF Summaries!Summarise
  <2>2. PICK i \in Summaries!Fresh :
            /\ Summaries!Insert(i, "paper", {officer[o].paper}, {}, {}, 0)
            /\ Summaries!Mark({i}, "DRAFT")
      BY <1>9 DEF Summaries!Summarise
  <2>3. narrative' \in [Summaries!Ids -> Summaries!Standings]
      BY <1>0, <1>s, <2>2, MarkTyped
  <2>. QED BY <1>0, <1>9, <1>s, <2>1, <2>2, <2>3, InsertTyped DEF Summaries!Summarise, ShelfTypes
<1>10. ASSUME NEW o \in Workers, Summaries!Combine(o) PROVE ShelfTypes'
  <2>1. officer[o].score \in Summaries!Ids /\ officer[o].of \subseteq Summaries!Ids
      BY <1>10, <1>t, TaskFields DEF Summaries!Combine
  <2>2. PICK i \in Summaries!Fresh :
            /\ Summaries!Insert(i, "combined", {}, {officer[o].score}, officer[o].of, 0)
            /\ Summaries!Mark({i}, "DRAFT")
      BY <1>10 DEF Summaries!Combine
  <2>3. narrative' \in [Summaries!Ids -> Summaries!Standings]
      BY <1>0, <1>s, <2>2, MarkTyped
  <2>. QED BY <1>0, <1>10, <1>s, <2>1, <2>2, <2>3, InsertTyped DEF Summaries!Combine, ShelfTypes
<1>11. ASSUME NEW o \in Workers, Summaries!Narrate(o) PROVE ShelfTypes'
  <2>1. officer[o].figures \in 0..MaxFigures
      BY <1>11, <1>t, TaskFields DEF Summaries!Narrate
  <2>2. PICK i \in Summaries!Fresh :
            /\ Summaries!Insert(i, "score", {}, {}, {}, officer[o].figures)
            /\ narrative' = [j \in Summaries!Ids |->
                  IF j = i THEN "DRAFT"
                  ELSE IF j \in Summaries!Rows("score") /\ narrative[j] \in {"DRAFT", "STALE"}
                       THEN "SUPERSEDED" ELSE narrative[j]]
      BY <1>11 DEF Summaries!Narrate
  <2>3. narrative' \in [Summaries!Ids -> Summaries!Standings]
      BY <1>0, <1>s, <2>2 DEF ShelfTypes
  <2>. QED BY <1>0, <1>11, <2>1, <2>2, <2>3, InsertTyped DEF Summaries!Narrate, ShelfTypes
\* The figures.
<1>12. ASSUME NEW o \in Workers, Summaries!File(o) PROVE ShelfTypes'
    BY <1>0, <1>12 DEF Summaries!File, ShelfTypes, Summaries!narratives
<1>13. CASE Summaries!FiguresChange
  <2>1. figures' \in 0..MaxFigures
      BY <1>0, <1>13, ValuesAssumption DEF Summaries!FiguresChange, ShelfTypes
  <2>. QED BY <1>0, <1>13, <2>1 DEF Summaries!FiguresChange, ShelfTypes, Summaries!narratives
<1>14. ASSUME NEW o \in Workers, Summaries!Request(o) \/ Summaries!Fail(o) PROVE ShelfTypes'
    BY <1>1, <1>14, RequestTyped DEF Summaries!Fail
<1>. QED BY <1>3, <1>4, <1>5, <1>6, <1>7, <1>8, <1>9, <1>10, <1>11, <1>12, <1>13, <1>14
         DEF Summaries!Next, Summaries!Write

LEMMA SummariesTyped ==
    ASSUME Summaries!TypeOK, [Summaries!Next]_summaryVars
    PROVE  Summaries!TypeOK'
<1>1. CASE UNCHANGED summaryVars
    BY <1>1 DEF summaryVars, Summaries!TypeOK
<1>2. ASSUME NEW o \in Workers, Summaries!Request(o)
      PROVE  officer' \in [Workers -> Summaries!Tasks]
    BY <1>2, RequestTyped, GotoTyped
<1>3. ASSUME NEW o \in Workers, Summaries!Answer(o)
      PROVE  officer' \in [Workers -> Summaries!Tasks]
    BY <1>3, TasksAre, GotoTyped DEF Summaries!Answer
<1>4. ASSUME NEW o \in Workers, Summaries!Toggle(o) \/ Summaries!Supersede(o)
      PROVE  officer' \in [Workers -> Summaries!Tasks]
  <2>1. officer[o] \in Summaries!Tasks
      BY DEF Summaries!TypeOK
  <2>2. PICK t : t \in Summaries!Tasks /\ officer' = [officer EXCEPT ![o] = t]
      BY <1>4, <2>1, TaskFields, TasksAre
         DEF Summaries!Toggle, Summaries!Supersede, Summaries!Goto
  <2>. QED BY <2>2, GotoTyped
<1>5. ASSUME Summaries!Next PROVE officer' \in [Workers -> Summaries!Tasks]
  <2>1. \/ \E o \in Workers :
              \/ Summaries!Request(o) \/ Summaries!Answer(o)
              \/ Summaries!Toggle(o) \/ Summaries!Supersede(o)
        \/ officer' = officer
      BY <1>5 DEF Summaries!Next, Summaries!Write, Summaries!Unconfirm, Summaries!Delete,
             Summaries!Summarise, Summaries!Combine, Summaries!Edit, Summaries!Confirm,
             Summaries!Narrate, Summaries!File, Summaries!Fail, Summaries!UploadDocument,
             Summaries!Settle, Summaries!DeleteSavedSummary, Summaries!EvidenceToggled,
             Summaries!FiguresChange
  <2>. QED BY <1>2, <1>3, <1>4, <2>1 DEF Summaries!TypeOK
<1>6. CASE Summaries!Next
    BY <1>5, <1>6, ShelfTyped DEF ShelfTypes, Summaries!TypeOK
<1>. QED BY <1>1, <1>6

-----------------------------------------------------------------------------
(***************************************************************************)
(* What the workspace as a whole promises.  Each part has an invariant     *)
(* that holds however requests overlap, and some of them a second one that *)
(* holds until they do; MCNext moves one part and leaves the others as     *)
(* they are.                                                               *)
(***************************************************************************)
\* However requests overlap.
Always ==
    /\ ReportInv
    /\ ArchiveInv /\ Catalogue!CyclesDistinct
    /\ GeographyInv
    /\ IntakeInv
    /\ ScoringInv
    /\ FilesInv
    /\ SummariesInv
    /\ NcnpInv
    /\ SettingsInv
    /\ DomainsInv
    /\ LogInv
    /\ LimiterInv
    /\ MembersInv
    /\ Catalogue!TypeOK /\ IntakeTypes /\ Scoring!TypeOK /\ Summaries!TypeOK /\ Domains!TypeOK

\* Until they do.
Calm ==
    /\ ReportCalm /\ CatalogueCalm /\ IntakeCalm /\ ScoringCalm /\ RollupsCalm /\ FilesCalm
    /\ SummariesCalm /\ NcnpCalm /\ DomainsCalm /\ MembersCalm

WorkspaceInv == Always /\ (~overlapped => Calm)

LEMMA RowsRefer == References
BY RowsAssumption DEF References

-----------------------------------------------------------------------------
(***************************************************************************)
(* The initial state                                                       *)
(***************************************************************************)
LEMMA ReportCalmInit == Init => ReportCalm
<1>. SUFFICES ASSUME Init PROVE ReportCalm
    OBVIOUS
<1>1. \A w \in Workers : pc[w] = "idle"
    BY DEF Init
<1>2. status = "draft" /\ ~archived /\ \A q \in Asks : ask[q] = "unused"
    BY DEF Init
<1>3. \A w \in Workers : StepAllows(w)
    BY <1>1 DEF StepAllows
<1>. QED BY <1>2, <1>3 DEF ReportCalm, AskedIsExportable

LEMMA GeographyInit == Geography!Init => GeographyInv
<1>. SUFFICES ASSUME Geography!Init PROVE GeographyInv
    OBVIOUS
<1>1. PICK g \in SUBSET Governorates, c \in SUBSET Centers :
         /\ Geography!ValidHierarchy(region, g, c)
         /\ gov = [p \in Geography!Rows |-> IF p = Org THEN g ELSE {}]
         /\ cen = [p \in Geography!Rows |-> IF p = Org THEN c ELSE {}]
    BY DEF Geography!Init
<1>2. /\ placed = {Org} /\ torn = {} /\ region \in Geography!AtMostOne
      /\ intent = [w \in Workers |-> Geography!Quiet] /\ patches = 0
    BY DEF Geography!Init
<1>3. gov[Org] = g /\ cen[Org] = c
    BY <1>1, RowsApart
<1>4. intent \in [Workers -> Intents] /\ IntentsFit
    BY <1>2, QuietTyped DEF IntentsFit
<1>5. 0 \in 0..MaxPatches
    BY ValuesAssumption
<1>6. Geography!TypeOK
    BY <1>1, <1>2, <1>4, <1>5, RowsApart DEF Geography!TypeOK, Intents
<1>7. Geography!HierarchyHolds
    BY <1>1, <1>2, <1>3
       DEF Geography!HierarchyHolds, Geography!CentersFit, Geography!RegionFits,
           Geography!ValidHierarchy
<1>. QED BY <1>4, <1>6, <1>7 DEF GeographyInv

LEMMA IntakeInit == Intake!Init => IntakeInv /\ IntakeCalm
BY DEF Intake!Init, IntakeInv, IntakeCalm, Intake!Present, Intake!ImportedOnce

LEMMA NcnpCalmInit == Ncnp!Init => NcnpCalm
BY DEF Ncnp!Init, NcnpCalm

LEMMA SettingsInit == Settings!Init => SettingsInv
<1>. SUFFICES ASSUME Settings!Init PROVE SettingsInv
    OBVIOUS
<1>1. Settings!Defaults \in [Settings!Bands -> Scale] /\ Settings!Ordered(Settings!Defaults)
    BY ValuesAssumption DEF Settings!Defaults, Settings!Bands, Settings!Ordered
<1>2. \A e \in Workers : edit[e].row = {}
    BY DEF Settings!Init, Settings!Away
<1>3. \A r \in SettingRows : thresholds[r] = Settings!Defaults
    BY DEF Settings!Init
<1>4. settingOf \in [SettingRows -> {"none", "draft", "published"}]
  <2>. DEFINE first == CHOOSE x \in SettingRows : TRUE
  <2>1. \/ settingOf = [r \in SettingRows |-> "none"]
        \/ settingOf = [r \in SettingRows |-> IF r = first THEN "draft" ELSE "none"]
      BY DEF Settings!Init
  <2>. HIDE DEF first
  <2>. QED BY <2>1
<1>5. /\ thresholds \in [SettingRows -> [Settings!Bands -> Scale]]
      /\ edit = [e \in Workers |-> edit[e]]
    BY <1>1 DEF Settings!Init
<1>6. Settings!TypeOK
    BY <1>2, <1>4, <1>5 DEF Settings!TypeOK
<1>. QED BY <1>1, <1>2, <1>3, <1>5, <1>6 DEF SettingsInv

LEMMA DomainsInit == Domains!Init => DomainsInv /\ DomainsCalm
BY DEF Domains!Init, DomainsInv, DomainsCalm

LEMMA LimiterInit == Limiter!LimitInit => LimiterInv
<1>. SUFFICES ASSUME Limiter!LimitInit PROVE LimiterInv
    OBVIOUS
<1>1. /\ shared = 0 /\ passed = 0 /\ asked = 0
      /\ local = [i \in Instances |-> 0] /\ production \in BOOLEAN
      /\ store \in {"absent", "up", "down"} /\ (production => store # "absent")
    BY DEF Limiter!LimitInit
<1>. QED BY <1>1, ValuesAssumption DEF LimiterInv

LEMMA CatalogueTypedInit == Catalogue!Init => Catalogue!TypeOK
<1>. SUFFICES ASSUME Catalogue!Init PROVE Catalogue!TypeOK
    OBVIOUS
<1>1. Cardinality(Studies) \in Nat
    BY ValuesAssumption, FS_CardinalityType
<1>2. 0 \in 0..Catalogue!Cardinality(Studies)
    BY <1>1 DEF Catalogue!Cardinality, Cardinality
<1>3. Catalogue!Idle \in Catalogue!Requests
    BY DEF Catalogue!Idle, Catalogue!Requests
<1>. QED BY <1>2, <1>3 DEF Catalogue!Init, Catalogue!TypeOK

LEMMA ScoringTypedInit == Scoring!Init => Scoring!TypeOK
<1>. SUFFICES ASSUME Scoring!Init PROVE Scoring!TypeOK
    OBVIOUS
<1>1. 1 \in Scoring!Versions /\ 0 \in 0..Scoring!Most /\ Scoring!Done \in Scoring!Jobs
    BY DEF Scoring!Versions, Scoring!Most, Scoring!Jobs
<1>2. Scoring!NoRows \in Scoring!Counts
  <2>1. Scoring!RowsOf(copies, 1, Scoring!All) = Scoring!NoRows
      BY <1>1, RowsOfNone DEF Scoring!Init, Scoring!VillagesOf
  <2>2. Scoring!All \in Scoring!Scopes
      BY DEF Scoring!Scopes
  <2>. QED BY <2>1, <2>2, RowsCounted
<1>. QED BY <1>1, <1>2 DEF Scoring!Init, Scoring!TypeOK

LEMMA InitHolds == MCInit => WorkspaceInv
<1>. SUFFICES ASSUME MCInit PROVE WorkspaceInv
    OBVIOUS
<1>1. /\ Init /\ Catalogue!Init /\ Geography!Init /\ Intake!Init /\ Scoring!Init
      /\ Files!Init /\ Summaries!Init /\ Ncnp!Init /\ Settings!Init /\ Domains!Init
      /\ Log!Init /\ Limiter!LimitInit /\ Members!MemberInit
    BY DEF MCInit
<1>2. Always
    BY <1>1, ReportInit, ArchiveInit, RowsRefer, GeographyInit, IntakeInit, ScoringInit,
        FilesInit,
       SummariesInit, NcnpInit, SettingsInit, DomainsInit, LogInit, LimiterInit, MembersInit,
       CatalogueTypedInit, IntakeTypesInit, ScoringTypedInit, SummariesTypedInit, DomainsTypedInit
       DEF Always
<1>3. Calm
    BY <1>1, ReportCalmInit, CatalogueCalmInit, IntakeInit, ScoringInit, RollupsInit,
       FilesCalmInit,
       SummariesInit, NcnpCalmInit, DomainsInit, MembersInit
       DEF Calm
<1>. QED BY <1>2, <1>3 DEF WorkspaceInv

-----------------------------------------------------------------------------
(***************************************************************************)
(* A step                                                                  *)
(***************************************************************************)
\* It is a step of every part, or leaves the part as it is.
LEMMA PartsMove ==
    ASSUME [MCNext]_<<orgVars, focus, overlapped>>
    PROVE  /\ [Next]_vars /\ [Catalogue!Next]_catalogueVars /\ [Geography!Next]_geographyVars
           /\ [Intake!Next]_importVars /\ [Scoring!Next]_scoringVars /\ [Files!Next]_fileVars
           /\ [Summaries!Next]_summaryVars /\ [Ncnp!Next]_ncnpVars
           /\ [Settings!Next]_settingVars /\ [Domains!Next]_domainVars /\ [Log!Next]_logVars
           /\ [Limiter!LimitNext]_limitVars /\ [Members!MemberNext]_memberVars
<1>1. CASE UNCHANGED <<orgVars, focus, overlapped>>
    BY ONLY <1>1 DEF orgVars
<1>2. CASE MCNext
    BY ONLY <1>2 DEF MCNext
<1>. QED BY <1>1, <1>2

LEMMA AlwaysStep ==
    ASSUME Always, [MCNext]_<<orgVars, focus, overlapped>>
    PROVE  Always'
<1>1. ReportInv'
    BY PartsMove, ReportStep DEF Always
<1>2. ArchiveInv' /\ Catalogue!CyclesDistinct'
    BY PartsMove, RowsRefer, ArchiveStep, CyclesStep DEF Always
<1>3. GeographyInv'
    BY PartsMove, GeographyStep DEF Always
<1>4. IntakeInv'
    BY PartsMove, IntakeStep DEF Always
<1>5. ScoringInv'
    BY PartsMove, ScoringStep DEF Always
<1>6. FilesInv'
    BY PartsMove, FilesStep DEF Always
<1>7. SummariesInv'
    BY PartsMove, SummariesStep DEF Always
<1>8. NcnpInv'
    BY PartsMove, NcnpStep DEF Always
<1>9. SettingsInv'
    BY PartsMove, SettingsStep DEF Always
<1>10. DomainsInv'
    BY PartsMove, DomainsStep DEF Always
<1>11. LogInv'
    BY PartsMove, LogStep DEF Always
<1>12. LimiterInv'
    BY PartsMove, LimiterStep DEF Always
<1>13. MembersInv'
    BY PartsMove, MembersStep DEF Always
<1>14. Catalogue!TypeOK' /\ IntakeTypes'
    BY PartsMove, RowsRefer, CatalogueTyped, IntakeTypesStep DEF Always
<1>15. Scoring!TypeOK' /\ Summaries!TypeOK' /\ Domains!TypeOK'
    BY PartsMove, ScoringTyped, SummariesTyped, DomainsTyped DEF Always
<1>. QED BY <1>1, <1>2, <1>3, <1>4, <1>5, <1>6, <1>7, <1>8, <1>9, <1>10, <1>11, <1>12, <1>13,
            <1>14, <1>15
         DEF Always

\* Only the part in focus moves.
LEMMA OnlyFocusMoves ==
    ASSUME MCNext
    PROVE  /\ IF focus = "reports"   THEN Next ELSE UNCHANGED <<pc, about>>
           /\ IF focus = "catalogue" THEN Catalogue!Next ELSE request' = request
           /\ IF focus = "import"    THEN Intake!Next ELSE file' = file
           /\ IF focus = "scoring"   THEN Scoring!Next ELSE recount' = recount
           /\ IF focus = "files"     THEN Files!Next ELSE upload' = upload
           /\ IF focus = "summaries" THEN Summaries!Next ELSE officer' = officer
           /\ IF focus = "ncnp"      THEN Ncnp!Next ELSE desk' = desk
           /\ IF focus = "settings"  THEN Settings!Next ELSE edit' = edit
           /\ IF focus = "domains"   THEN Domains!Next ELSE activating' = activating
           /\ IF focus = "members"   THEN Members!MemberNext ELSE admin' = admin
BY ONLY MCNext DEF MCNext, vars, reportVars, catalogueVars, importVars, scoringVars, fileVars,
   summaryVars, ncnpVars, settingVars, domainVars, memberVars

\* A step that nothing disturbs moves every request in flight.
LEMMA AllMoved ==
    ASSUME MCNext, ~overlapped', NEW w \in Workers
    PROVE  ~overlapped /\ (Waiting(w) # NotWaiting => Waiting(w)' # Waiting(w))
BY ONLY MCNext, ~overlapped', w \in Workers DEF MCNext, Disturbs

\* Nor does it stop the scoring of a response half-way.
LEMMA ScoringMoved ==
    ASSUME MCNext, ~overlapped', NEW r \in Responses
    PROVE  /\ job[r] # Scoring!Done => job'[r] # job[r]
           /\ Scoring!Lose(r) => Scoring!WriteRollups(r)
<1>1. ~Disturbs
    BY ONLY MCNext, ~overlapped' DEF MCNext
<1>2. job[r] # Scoring!Done =>
        ~(job'[r] = job[r] \/ (Scoring!Lose(r) /\ ~Scoring!WriteRollups(r)))
    BY ONLY <1>1, r \in Responses DEF Disturbs
<1>3. Scoring!Lose(r) => job[r] # Scoring!Done
    BY DEF Scoring!Lose
<1>. QED BY ONLY <1>2, <1>3

LEMMA RollupsKept ==
    ASSUME RollupsCalm, UNCHANGED scoringVars
    PROVE  RollupsCalm'
<1>1. UNCHANGED <<answered, live, home, copies, rolled, job, recount>>
    BY DEF scoringVars
<1>2. \A v, s : Scoring!RowsOf(copies', v, s) = Scoring!RowsOf(copies, v, s)
    BY <1>1
<1>. QED BY <1>1, <1>2, SMTT(60)
         DEF RollupsCalm, ScoredOnce, Unscored, HalfWay, Settled, Settling, Scoring!Stored,
             Scoring!Versions, Scoring!Scopes, Scoring!All, Scoring!NoRows, Scoring!Done,
             Scoring!RowsOf, Scoring!VillagesOf, Scoring!Most

\* What is calm stays so where nothing moves.
LEMMA CalmKept ==
    ASSUME Calm
    PROVE  /\ UNCHANGED vars => ReportCalm'
           /\ UNCHANGED catalogueVars => CatalogueCalm'
           /\ UNCHANGED importVars => IntakeCalm'
           /\ UNCHANGED scoringVars => ScoringCalm' /\ RollupsCalm'
           /\ UNCHANGED fileVars => FilesCalm'
           /\ UNCHANGED summaryVars => SummariesCalm'
           /\ UNCHANGED ncnpVars => NcnpCalm'
           /\ UNCHANGED domainVars => DomainsCalm'
           /\ UNCHANGED memberVars => MembersCalm'
<1>1. UNCHANGED vars => ReportCalm'
    BY DEF Calm, ReportCalm, StepAllows, AskedIsExportable, vars, reportVars
<1>2. UNCHANGED catalogueVars => CatalogueCalm'
    BY DEF Calm, CatalogueCalm, catalogueVars
<1>3. UNCHANGED importVars => IntakeCalm'
    BY DEF Calm, IntakeCalm, Intake!Present, Intake!ImportedOnce, importVars
<1>4. UNCHANGED scoringVars => ScoringCalm' /\ RollupsCalm'
    BY RollupsKept DEF Calm, ScoringCalm, Scoring!Scopes, Scoring!All, Scoring!NoRows, scoringVars
<1>5. UNCHANGED fileVars => FilesCalm'
    BY DEF Calm, FilesCalm, fileVars
<1>6. UNCHANGED summaryVars => SummariesCalm'
    BY DEF Calm, SummariesCalm, Summaries!OneConfirmed, Summaries!Peers, Summaries!Confirmed,
           Summaries!About, Summaries!Rows, Summaries!Ids, summaryVars
<1>7. UNCHANGED ncnpVars => NcnpCalm'
    BY DEF Calm, NcnpCalm, Ncnp!Ready, ncnpVars
<1>8. UNCHANGED domainVars => DomainsCalm'
    BY DEF Calm, DomainsCalm, domainVars
<1>9. UNCHANGED memberVars => MembersCalm'
    BY DEF Calm, MembersCalm, Members!Here, Members!Absent, memberVars
<1>. QED BY <1>1, <1>2, <1>3, <1>4, <1>5, <1>6, <1>7, <1>8, <1>9

LEMMA CalmStep ==
    ASSUME Always, Calm, MCNext, ~overlapped'
    PROVE  Calm'
<1>0. \A w \in Workers : Waiting(w) # NotWaiting => Waiting(w)' # Waiting(w)
    BY AllMoved
<1>1. ReportCalm'
  <2>1. CASE focus = "reports"
    <3>1. Next
        BY <2>1, OnlyFocusMoves
    <3>2. \A v \in Workers : pc[v] # "idle" => <<pc[v], about[v]>>' # <<pc[v], about[v]>>
        BY <1>0, <2>1, OnlyFocusMoves DEF Waiting, NotWaiting
    <3>. QED BY <3>1, <3>2, ReportStaysCalm DEF Always, Calm
  <2>2. CASE focus # "reports"
    <3>1. UNCHANGED vars
        BY ONLY <2>2, MCNext DEF MCNext
    <3>. QED BY <3>1, CalmKept
  <2>. QED BY <2>1, <2>2
<1>2. CatalogueCalm'
  <2>1. CASE focus = "catalogue"
    <3>1. Catalogue!Next
        BY <2>1, OnlyFocusMoves
    <3>2. \A v \in Workers : request[v] # Catalogue!Idle => request'[v] # request[v]
        BY <1>0, <2>1, OnlyFocusMoves DEF Waiting, NotWaiting
    <3>. QED BY <3>1, <3>2, CatalogueStaysCalm DEF Always, Calm
  <2>2. CASE focus # "catalogue"
    <3>1. UNCHANGED catalogueVars
        BY ONLY <2>2, MCNext DEF MCNext
    <3>. QED BY <3>1, CalmKept
  <2>. QED BY <2>1, <2>2
<1>3. IntakeCalm'
  <2>1. CASE focus = "import"
    <3>1. Intake!Next
        BY <2>1, OnlyFocusMoves
    <3>2. \A v \in Workers : file[v] # <<>> => file'[v] # file[v]
        BY <1>0, <2>1, OnlyFocusMoves DEF Waiting, NotWaiting
    <3>. QED BY <3>1, <3>2, IntakeStaysCalm DEF Always, Calm
  <2>2. CASE focus # "import"
    <3>1. UNCHANGED importVars
        BY ONLY <2>2, MCNext DEF MCNext
    <3>. QED BY <3>1, CalmKept
  <2>. QED BY <2>1, <2>2
<1>4. ScoringCalm' /\ RollupsCalm'
  <2>1. CASE focus = "scoring"
    <3>1. Scoring!Next
        BY <2>1, OnlyFocusMoves
    <3>2. \A v \in Workers : recount[v] # Scoring!Rest => recount'[v] # recount[v]
        BY <1>0, <2>1, OnlyFocusMoves DEF Waiting, NotWaiting
    <3>3. \A r \in Responses : /\ job[r] # Scoring!Done => job'[r] # job[r]
                               /\ Scoring!Lose(r) => Scoring!WriteRollups(r)
        BY ScoringMoved
    <3>. QED BY <3>1, <3>2, <3>3, ScoringStaysCalm, RollupsStayCalm DEF Always, Calm
  <2>2. CASE focus # "scoring"
    <3>1. UNCHANGED scoringVars
        BY ONLY <2>2, MCNext DEF MCNext
    <3>. QED BY <3>1, CalmKept
  <2>. QED BY <2>1, <2>2
<1>5. FilesCalm'
  <2>1. CASE focus = "files"
    <3>1. Files!Next
        BY <2>1, OnlyFocusMoves
    <3>2. \A v \in Workers : upload[v] # Files!Quiet => upload'[v] # upload[v]
        BY <1>0, <2>1, OnlyFocusMoves DEF Waiting, NotWaiting
    <3>. QED BY <3>1, <3>2, FilesStayCalm DEF Always, Calm
  <2>2. CASE focus # "files"
    <3>1. UNCHANGED fileVars
        BY ONLY <2>2, MCNext DEF MCNext
    <3>. QED BY <3>1, CalmKept
  <2>. QED BY <2>1, <2>2
<1>6. SummariesCalm'
  <2>1. CASE focus = "summaries"
    <3>1. Summaries!Next
        BY <2>1, OnlyFocusMoves
    <3>2. \A v \in Workers : officer[v] # Summaries!Free => officer'[v] # officer[v]
        BY <1>0, <2>1, OnlyFocusMoves DEF Waiting, NotWaiting
    <3>. QED BY <3>1, <3>2, SummariesStayCalm DEF Always, Calm
  <2>2. CASE focus # "summaries"
    <3>1. UNCHANGED summaryVars
        BY ONLY <2>2, MCNext DEF MCNext
    <3>. QED BY <3>1, CalmKept
  <2>. QED BY <2>1, <2>2
<1>7. NcnpCalm'
  <2>1. CASE focus = "ncnp"
    <3>1. Ncnp!Next
        BY <2>1, OnlyFocusMoves
    <3>2. \A v \in Workers : desk[v] # Ncnp!Clear => desk'[v] # desk[v]
        BY <1>0, <2>1, OnlyFocusMoves DEF Waiting, NotWaiting
    <3>. QED BY <3>1, <3>2, NcnpStaysCalm DEF Always, Calm
  <2>2. CASE focus # "ncnp"
    <3>1. UNCHANGED ncnpVars
        BY ONLY <2>2, MCNext DEF MCNext
    <3>. QED BY <3>1, CalmKept
  <2>. QED BY <2>1, <2>2
<1>8. DomainsCalm'
  <2>1. CASE focus = "domains"
    <3>1. Domains!Next
        BY <2>1, OnlyFocusMoves
    <3>2. \A v \in Workers : activating[v] # {} => activating'[v] # activating[v]
        BY <1>0, <2>1, OnlyFocusMoves DEF Waiting, NotWaiting
    <3>. QED BY <3>1, <3>2, DomainsStayCalm DEF Always, Calm
  <2>2. CASE focus # "domains"
    <3>1. UNCHANGED domainVars
        BY ONLY <2>2, MCNext DEF MCNext
    <3>. QED BY <3>1, CalmKept
  <2>. QED BY <2>1, <2>2
<1>9. MembersCalm'
  <2>1. CASE focus = "members"
    <3>1. Members!MemberNext
        BY <2>1, OnlyFocusMoves
    <3>2. \A v \in Workers : admin[v] # Members!Free => admin'[v] # admin[v]
        BY <1>0, <2>1, OnlyFocusMoves DEF Waiting, NotWaiting
    <3>. QED BY <3>1, <3>2, MembersStayCalm DEF Always, Calm
  <2>2. CASE focus # "members"
    <3>1. UNCHANGED memberVars
        BY ONLY <2>2, MCNext DEF MCNext
    <3>. QED BY <3>1, CalmKept
  <2>. QED BY <2>1, <2>2
<1>. QED BY <1>1, <1>2, <1>3, <1>4, <1>5, <1>6, <1>7, <1>8, <1>9 DEF Calm

LEMMA StepHolds ==
    ASSUME WorkspaceInv, [MCNext]_<<orgVars, focus, overlapped>>
    PROVE  WorkspaceInv'
<1>1. Always'
    BY AlwaysStep DEF WorkspaceInv
<1>2. ASSUME UNCHANGED <<orgVars, focus, overlapped>>, ~overlapped' PROVE Calm'
  <2>1. Calm
      BY <1>2 DEF WorkspaceInv
  <2>2. /\ UNCHANGED vars /\ UNCHANGED catalogueVars /\ UNCHANGED importVars
        /\ UNCHANGED scoringVars /\ UNCHANGED fileVars /\ UNCHANGED summaryVars
        /\ UNCHANGED ncnpVars /\ UNCHANGED domainVars /\ UNCHANGED memberVars
      BY ONLY <1>2 DEF orgVars
  <2>. QED BY <2>1, <2>2, CalmKept DEF Calm
<1>3. ASSUME MCNext, ~overlapped' PROVE Calm'
  <2>1. ~overlapped
      BY <1>3 DEF MCNext
  <2>. QED BY <1>3, <2>1, CalmStep DEF WorkspaceInv
<1>. QED BY <1>1, <1>2, <1>3 DEF WorkspaceInv

LEMMA WorkspaceHolds == MCSpec => []WorkspaceInv
<1>1. WorkspaceInv /\ [MCNext]_<<orgVars, focus, overlapped>> => WorkspaceInv'
    BY StepHolds
<1>. QED BY <1>1, InitHolds, PTL DEF MCSpec

-----------------------------------------------------------------------------
(***************************************************************************)
(* What holds in every state                                               *)
(***************************************************************************)
\* A report that other organisations may see has been confirmed and reviewed,
\* whatever requests overlap.  (ReportsService, ReportSharingService)
THEOREM ReportsAreReviewed == MCSpec => []SharedWasReviewed
<1>1. WorkspaceInv => SharedWasReviewed
    BY DEF WorkspaceInv, Always, ReportInv
<1>. QED BY <1>1, WorkspaceHolds, PTL

\* A snapshot of the compiled report that was handed out has been reviewed and
\* published, a study in the archive has a released report or had one until a
\* late decision took it back, and a shared one exists; until requests overlap,
\* what was asked for can be exported.
\* (NcnpReportReviewService, StudiesService, SharingService)
THEOREM ReleaseComesFirstHolds == MCSpec => []ReleaseComesFirst
<1>1. WorkspaceInv => ReleaseComesFirst
  <2>. SUFFICES ASSUME WorkspaceInv PROVE ReleaseComesFirst
      OBVIOUS
  <2>1. Ncnp!ExportedIsReviewed
      BY DEF WorkspaceInv, Always, NcnpInv
  <2>2. Catalogue!ArchivedIsReported
      BY RowsRefer, ArchivedReported DEF WorkspaceInv, Always
  <2>3. ~overlapped => AskedIsExportable /\ (archived <=> status = "archived")
      BY DEF WorkspaceInv, Calm, ReportCalm
  <2>. QED BY <2>1, <2>2, <2>3 DEF ReleaseComesFirst, AskedIsExportable
<1>. QED BY <1>1, WorkspaceHolds, PTL

\* Cycle numbers are distinct however studies are created; until requests
\* overlap, a need is imported once and a document has one confirmed narrative.
\* (createWithCycleNumber, importBulk, confirmSummary)
THEOREM NoTwinsHolds == MCSpec => []NoTwins
<1>1. WorkspaceInv => NoTwins
    BY DEF WorkspaceInv, Always, Calm, IntakeCalm, SummariesCalm, NoTwins
<1>. QED BY <1>1, WorkspaceHolds, PTL

\* What is patched field by field is consistent as a whole: thresholds also
\* when two editors patch at once, a selection of geography unless two patches
\* of the same row overlap.  (validateHierarchy, validateThresholds)
THEOREM ValidatedHolds == MCSpec => []ValidatedAsAWhole
<1>1. WorkspaceInv => ValidatedAsAWhole
    BY DEF WorkspaceInv, Always, GeographyInv, SettingsInv, ValidatedAsAWhole,
           Settings!ThresholdsOrdered, Settings!Current
<1>. QED BY <1>1, WorkspaceHolds, PTL

\* Every evidence row has its file, whatever stops or overlaps, unless an
\* upload lost the answer to its commit; and there are no more of them than
\* the limit until uploads overlap.  (EvidenceService)
THEOREM FilesHoldAlways == MCSpec => []FilesHold
<1>1. WorkspaceInv => FilesHold
    BY FilesWithin DEF WorkspaceInv, Always, Calm, FilesInv, FilesHold
<1>. QED BY <1>1, WorkspaceHolds, PTL

\* Until requests overlap or one stops half-way, every stored response is
\* counted once and the rollups of a scope follow from its score rows,
\* whenever nothing is in flight.
\* (scoreResponse, calculateRollups, recalculateStudyScores)
THEOREM CountedWhileCalmHolds == MCSpec => []CountedWhileCalm
<1>1. WorkspaceInv => CountedWhileCalm
    BY CalmCounts DEF WorkspaceInv, Always, Calm, CountedWhileCalm
<1>. QED BY <1>1, WorkspaceHolds, PTL

\* Every part keeps its types: what a request carries from what it has read to
\* what it writes is one of the requests, jobs and tasks there are, and names
\* rows that may exist.
THEOREM TypesHold == MCSpec => []TypesOK
<1>1. WorkspaceInv => TypesOK
    BY IntakeTyped, MembersTyped, LogTypes, LimiterTyped
       DEF WorkspaceInv, Always, TypesOK, ReportInv, GeographyInv, FilesInv, NcnpInv,
           SettingsInv
<1>. QED BY <1>1, WorkspaceHolds, PTL

-----------------------------------------------------------------------------
(***************************************************************************)
(* What no step does                                                       *)
(***************************************************************************)
\* A step that nothing disturbs starts where nothing was disturbed.
LEMMA BeforeStep ==
    ASSUME WorkspaceInv, [MCNext]_<<orgVars, focus, overlapped>>, ~overlapped'
    PROVE  Always /\ Calm
<1>1. ~overlapped
    BY ONLY [MCNext]_<<orgVars, focus, overlapped>>, ~overlapped' DEF MCNext
<1>. QED BY <1>1 DEF WorkspaceInv

\* Until requests overlap, what was decided or archived is not decided again,
\* and what was released to everybody stays released.
\* (ReportSharingService, SharingService, ReportsService.archive, publish)
THEOREM DecisionsStandHolds == MCSpec => DecisionsStand
<1>1. ASSUME WorkspaceInv, [MCNext]_<<orgVars, focus, overlapped>>, ~overlapped'
      PROVE  /\ \A q \in Asks : ask[q] \in {"approved", "rejected"} => ask'[q] = ask[q]
             /\ \A q \in StudyAsks : studyAsk[q] \in Catalogue!Decided
                                        => studyAsk'[q] \in {studyAsk[q], "none"}
             /\ status = "archived" => status' = status
             /\ \A s \in Snapshots : Ncnp!ReleasedStays(s)
  <2>1. Always /\ Calm
      BY <1>1, BeforeStep
  <2>2. /\ \A q \in Asks : ask[q] \in {"approved", "rejected"} => ask'[q] = ask[q]
        /\ status = "archived" => status' = status
      BY <1>1, <2>1, PartsMove, DecidedStep DEF Always, Calm
  <2>3. \A q \in StudyAsks : studyAsk[q] \in Catalogue!Decided
                                => studyAsk'[q] \in {studyAsk[q], "none"}
      BY <1>1, <2>1, PartsMove, AskDecidedStep DEF Always, Calm
  <2>4. \A s \in Snapshots : Ncnp!ReleasedStays(s)
      BY <1>1, <2>1, PartsMove, ReleasedStep DEF Always, Calm
  <2>. QED BY <2>2, <2>3, <2>4
<1>. QED BY <1>1, WorkspaceHolds, PTL DEF MCSpec, DecisionsStand

\* A selection of geography that changes is within that of the row above, as it
\* is when it is written, unless that row has lost something since it was read
\* or another patch of the same row came between.
\* (assertGeographyInOrgScope, assertGeographyInStudyScope, importBulk)
THEOREM ChangedWithinOwnerHolds == MCSpec => ChangedWithinOwner
<1>1. ASSUME WorkspaceInv, [MCNext]_<<orgVars, focus, overlapped>>
      PROVE  [\A p \in Geography!Rows \ {Org} :
                gov'[p] # gov[p] \/ cen'[p] # cen[p] =>
                   \/ p \in torn'
                   \/ \E w \in Workers :
                         /\ intent[w].row = p /\ intent[w].step = "write" /\ intent'[w] = Geography!Quiet
                         /\ intent[w].narrowed \/ ( /\ gov'[p] \subseteq gov[Geography!OwnerOf(p)]
                                                   /\ cen'[p] \subseteq cen[Geography!OwnerOf(p)] )]_Geography!vars
    <2>1. GeographyInv /\ [Geography!Next]_geographyVars
        BY <1>1, PartsMove DEF WorkspaceInv, Always
    <2>2. ASSUME NEW p \in Geography!Rows \ {Org}, gov'[p] # gov[p] \/ cen'[p] # cen[p]
          PROVE  \/ p \in torn'
                 \/ \E w \in Workers :
                       /\ intent[w].row = p /\ intent[w].step = "write"
                       /\ intent'[w] = Geography!Quiet
                       /\ intent[w].narrowed
                            \/ ( /\ gov'[p] \subseteq gov[Geography!OwnerOf(p)]
                                 /\ cen'[p] \subseteq cen[Geography!OwnerOf(p)] )
        BY <2>1, <2>2, WithinOwnerStep
    <2>. QED BY <2>2
<1>. QED BY <1>1, WorkspaceHolds, PTL
         DEF MCSpec, ChangedWithinOwner, Geography!ChangedWithinOwner

\* Until requests overlap, an appointment demotes every other administrator,
\* a domain that is deactivated takes its sub-domains along, and a confirmed
\* combined narrative keeps the documents it draws on.
\* (assignNgoAdmin, setDomainActive, deleteDocument)
THEOREM CascadesCompleteHolds == MCSpec => CascadesComplete
<1>1. ASSUME WorkspaceInv, [MCNext]_<<orgVars, focus, overlapped>>, ~overlapped'
      PROVE  /\ \A w \in Workers : Members!Appoints(w) => Members!OneAppointed(w)
             /\ Domains!NoneStranded
             /\ \A i \in Summaries!Ids : Summaries!ConfirmedKeepsSources(i)
  <2>1. Always /\ Calm
      BY <1>1, BeforeStep
  <2>2. \A w \in Workers : Members!Appoints(w) => Members!OneAppointed(w)
      BY <1>1, <2>1, PartsMove, AppointmentStep DEF Always, Calm
  <2>3. Domains!NoneStranded
      BY <1>1, <2>1, PartsMove, StrandedStep DEF Always, Calm
  <2>4. \A i \in Summaries!Ids : Summaries!ConfirmedKeepsSources(i)
      BY <1>1, <2>1, PartsMove, SourcesStep DEF Always, Calm
  <2>. QED BY <2>2, <2>3, <2>4
<1>. QED BY <1>1, WorkspaceHolds, PTL DEF MCSpec, CascadesComplete

\* A recalculation that ends undisturbed has assessed every scope from the
\* rollups it has written.  (recalculateAll)
THEOREM AssessedThroughoutHolds == MCSpec => AssessedThroughout
<1>1. ASSUME WorkspaceInv, [MCNext]_<<orgVars, focus, overlapped>>,
             NEW m \in Workers, Scoring!Finishes(m), ~overlapped'
      PROVE  \A s \in Scoring!Scopes :
                 rolled[recount[m].version][s] # Scoring!NoRows =>
                     assessed'[recount[m].version][s] = rolled[recount[m].version][s]
  <2>1. Always /\ Calm
      BY <1>1, BeforeStep
  <2>2. recount'[m] # recount[m]
      BY <1>1 DEF Scoring!Finishes, Scoring!Rest
  <2>3. MCNext
      BY ONLY <1>1, <2>2 DEF orgVars, scoringVars
  <2>4. ~Disturbs
      BY ONLY <1>1, <2>3 DEF MCNext
  <2>5. Scoring!Abort(m) => \E s \in Scoring!Scopes : Scoring!Assess(m, s)
      BY ONLY <2>2, <2>4, m \in Workers DEF Disturbs
  <2>. QED BY <1>1, <2>1, <2>5, PartsMove, FinishStep DEF Always, Calm
<1>2. ASSUME WorkspaceInv, [MCNext]_<<orgVars, focus, overlapped>>
      PROVE  \A m \in Workers : Scoring!Finishes(m) /\ ~overlapped' =>
                LET v == recount[m].version IN
                  \A s \in Scoring!Scopes :
                      rolled[v][s] # Scoring!NoRows => assessed'[v][s] = rolled[v][s]
    BY <1>1, <1>2
<1>. QED BY <1>2, WorkspaceHolds, PTL DEF MCSpec, AssessedThroughout

\* Production lets no more than the limit through, a buffered event has a
\* flush coming, and a purge whose last chunk was not full has left nothing
\* old, whatever fails or restarts.  (RateLimitGuard, SystemLogsService)
THEOREM ServerKeepsItsLimitsHolds == MCSpec => ServerKeepsItsLimits
<1>1. WorkspaceInv => Limiter!WindowKept /\ Log!BufferedIsScheduled
    BY DEF WorkspaceInv, Always, LimiterInv, LogInv, InOnePlace, Limiter!WindowKept,
           Log!BufferedIsScheduled, Log!ToSet
<1>2. ASSUME WorkspaceInv, [MCNext]_<<orgVars, focus, overlapped>>
      PROVE  [ purge.left > 1 /\ purge' = Log!NoPurge /\ ~(stored \subseteq stored')
                 => purge.doomed \cap stored' = {} ]_logVars
    BY <1>2, PartsMove, DrainsStep DEF WorkspaceInv, Always
<1>. QED BY <1>1, <1>2, WorkspaceHolds, PTL
         DEF MCSpec, ServerKeepsItsLimits, Log!PurgeDrains, logVars, Log!vars

=============================================================================
