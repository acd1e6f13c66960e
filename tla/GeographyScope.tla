--------------------------- MODULE GeographyScope ---------------------------
(***************************************************************************)
(* Which governorates and centers an organisation, its studies and their   *)
(* needs have selected.  GeographyService.validateHierarchy checks a       *)
(* selection against the reference data; StudiesService and NeedsService   *)
(* also check it against the selection of the row above.                   *)
(*                                                                         *)
(* A request reads the lists of its row, then those of the row above, then *)
(* writes: one READ COMMITTED transaction whose statements see what others *)
(* have committed in between.  A patch rewrites the lists it names and     *)
(* leaves the others as they are by then.                                  *)
(***************************************************************************)
EXTENDS Naturals, FiniteSets

CONSTANTS
    Org, Studies, Needs,      \* one organisation's row, its studies, their needs
    StudyOf,                  \* Need.studyId
    Governorates, Centers, Regions,
    RegionOf, GovernorateOf,  \* the reference data
    Workers,                  \* requests in flight
    MaxPatches                \* bound on the patches of a behaviour

VARIABLES
    placed,   \* the rows that exist
    gov,      \* the governorates a row has selected
    cen,      \* the centers
    region,   \* Organisation.regionId, a set of at most one region
    intent,   \* what each request has read and is about to write
    patches,  \* how many patches there were
    torn      \* history: rows last written beside another patch, see Write

rows == <<placed, gov, cen, region, torn>>
vars == <<rows, intent, patches>>

Rows == {Org} \cup Studies \cup Needs

OwnerOf(p) == IF p \in Needs THEN StudyOf[p] ELSE Org

Lists == {"gov", "cen"}

\* The row, the lists the payload names and what the row is to have in the end.
\* History: the lists others have written since the row was read (beside), and
\* whether the row above has lost something since it was (narrowed) or is one
\* whose lists need not fit (copied).
Quiet == [step |-> "idle", row |-> Org, names |-> {}, gov |-> {}, cen |-> {},
          region |-> {}, beside |-> {}, narrowed |-> FALSE, copied |-> FALSE]

AtMostOne == {{}} \cup {{r} : r \in Regions}

TypeOK ==
    /\ placed \subseteq Rows
    /\ gov \in [Rows -> SUBSET Governorates]
    /\ cen \in [Rows -> SUBSET Centers]
    /\ region \in AtMostOne
    /\ intent \in [Workers -> [step : {"idle", "read", "write"}, row : Rows,
                              names : SUBSET (Lists \cup {"region"}),
                              gov : SUBSET Governorates, cen : SUBSET Centers,
                              region : AtMostOne,
                              beside : SUBSET (Lists \cup {"region"}),
                              narrowed : BOOLEAN, copied : BOOLEAN]]
    /\ patches \in 0..MaxPatches
    /\ torn \subseteq Rows

-----------------------------------------------------------------------------
\* Faulty: a center's governorate is not looked at.
HierarchyWithoutCenters(r, g, c) ==
    (r # {} => \A x \in g : RegionOf[x] \in r) /\ c \subseteq Centers

\* validateHierarchy: the region is only compared when there is one.
ValidHierarchy(r, g, c) ==
    /\ r # {} => \A x \in g : RegionOf[x] \in r
    /\ \A y \in c : GovernorateOf[y] \in g

\* createWithAdmin makes an organisation without any selection, signup one with
\* a region, governorates and centers that it has validated.
Init ==
    /\ placed = {Org}
    /\ region \in AtMostOne
    /\ \E g \in SUBSET Governorates, c \in SUBSET Centers :
          /\ ValidHierarchy(region, g, c)
          /\ g = {} <=> region = {}
          /\ c = {} <=> region = {}
          /\ gov = [p \in Rows |-> IF p = Org THEN g ELSE {}]
          /\ cen = [p \in Rows |-> IF p = Org THEN c ELSE {}]
    /\ intent = [w \in Workers |-> Quiet]
    /\ patches = 0
    /\ torn = {}

-----------------------------------------------------------------------------
(***************************************************************************)
(* What a request reads and checks                                         *)
(***************************************************************************)
\* Faulty: only the governorates are compared.
InScopeOfGovernorates(p, g, c) == g \subseteq gov[OwnerOf(p)] /\ c \subseteq Centers

\* assertGeographyInOrgScope, assertGeographyInStudyScope
InScopeOf(p, g, c) == g \subseteq gov[OwnerOf(p)] /\ c \subseteq cen[OwnerOf(p)]

Begin(w, q) ==
    /\ intent[w] = Quiet
    /\ intent' = [intent EXCEPT ![w] = q]
    /\ UNCHANGED rows

Payload(step, p, names, g, c) ==
    [Quiet EXCEPT !.step = step, !.row = p, !.names = names, !.gov = g, !.cen = c]

\* toNeedRow: a need with an empty list is read with that of its study.
Shown(list, p) == IF p \in Needs /\ list[p] = {} THEN list[StudyOf[p]] ELSE list[p]

\* What the payload does not name is what the row has now.
Completed(p, names, g, c) ==
    /\ names # {}
    /\ "gov" \notin names => g = Shown(gov, p)
    /\ "cen" \notin names => c = Shown(cen, p)

\* OrganizationsService.updateCurrent
BeginUpdateOrganisation(w) ==
    /\ patches < MaxPatches
    /\ \E names \in SUBSET (Lists \cup {"region"}), g \in SUBSET Governorates,
          c \in SUBSET Centers, r \in AtMostOne :
          /\ Completed(Org, names, g, c)
          /\ "region" \notin names => r = region
          /\ ValidHierarchy(r, g, c)
          /\ Begin(w, [Payload("write", Org, names, g, c) EXCEPT !.region = r])
    /\ patches' = patches + 1

\* The update of a study, and of a need as long as it is editable (see
\* StudyCatalogue).  A study's lists are never empty.
BeginUpdate(w, p) ==
    /\ p \in placed \ {Org} /\ patches < MaxPatches
    /\ \E names \in SUBSET Lists, g \in SUBSET Governorates, c \in SUBSET Centers :
          /\ Completed(p, names, g, c)
          /\ p \in Studies => g # {} /\ c # {}
          /\ Begin(w, Payload("read", p, names, g, c))
    /\ patches' = patches + 1

\* An identifier is that of one row.
New(p) == p \notin placed /\ \A w \in Workers : intent[w].row # p

BeginStudy(w, s) ==
    /\ New(s)
    /\ \E g \in SUBSET Governorates \ {{}}, c \in SUBSET Centers \ {{}} :
          /\ ValidHierarchy(region, g, c) /\ InScopeOf(s, g, c)
          /\ Begin(w, Payload("write", s, Lists, g, c))
    /\ UNCHANGED patches

\* What the payload leaves empty is what the study has.
BeginNeed(w, n) ==
    /\ New(n) /\ StudyOf[n] \in placed
    /\ \E g \in (SUBSET Governorates \ {{}}) \cup {gov[StudyOf[n]]},
          c \in (SUBSET Centers \ {{}}) \cup {cen[StudyOf[n]]} :
          Begin(w, Payload("read", n, Lists, g, c))
    /\ UNCHANGED patches

\* An import copies the selection of the study and checks nothing.
BeginImport(w, n) ==
    /\ New(n) /\ StudyOf[n] \in placed
    /\ Begin(w, [Payload("write", n, Lists, gov[StudyOf[n]], cen[StudyOf[n]])
                   EXCEPT !.copied = StudyOf[n] \in torn])
    /\ UNCHANGED patches

\* The row above is read after the row itself.  The region is not passed on to
\* the check of a need.
Check(w) ==
    /\ intent[w].step = "read"
    /\ LET q == intent[w] IN
         /\ ValidHierarchy(IF q.row \in Studies THEN region ELSE {}, q.gov, q.cen)
         /\ InScopeOf(q.row, q.gov, q.cen)
    /\ intent' = [intent EXCEPT ![w].step = "write"]
    /\ UNCHANGED <<rows, patches>>

-----------------------------------------------------------------------------
(***************************************************************************)
(* What it writes                                                          *)
(***************************************************************************)
\* Another patch wrote what this one had read, or left rows beside its own.
Torn(q, missed) == missed # {} \/ ~(q.beside \subseteq q.names) \/ q.copied

(***************************************************************************)
(* The old rows of the named lists are deleted and the new ones inserted.  *)
(* Nothing keeps two patches of one row apart (an update without other     *)
(* columns locks no row): the delete of one that waits for the other       *)
(* misses what that inserts, unless the unique index then refuses the      *)
(* insert.                                                                 *)
(***************************************************************************)
Write(w) ==
    LET q    == intent[w]
        p    == q.row
        kept == [gov |-> gov[p], cen |-> cen[p]]
    IN
    /\ q.step = "write"
    /\ \E missed \in SUBSET (q.names \cap q.beside \cap Lists) :
        LET After(l) == IF l \notin q.names THEN kept[l]
                        ELSE IF l \in missed THEN q[l] \cup kept[l] ELSE q[l]
            loses    == ~(gov[p] \subseteq After("gov") /\ cen[p] \subseteq After("cen"))
        IN
        /\ \A l \in missed : q[l] \cap kept[l] = {}
        /\ gov' = [gov EXCEPT ![p] = After("gov")]
        /\ cen' = [cen EXCEPT ![p] = After("cen")]
        /\ torn' = IF Torn(q, missed) THEN torn \cup {p} ELSE torn \ {p}
        /\ intent' = [v \in Workers |->
              IF v = w \/ intent[v] = Quiet THEN Quiet
              ELSE [intent[v] EXCEPT
                      !.beside = IF intent[v].row = p THEN @ \cup q.names ELSE @,
                      !.narrowed = @ \/ (/\ loses /\ intent[v].step = "write"
                                         /\ intent[v].row # Org /\ OwnerOf(intent[v].row) = p)]]
    /\ region' = IF "region" \in q.names THEN q.region ELSE region
    /\ placed' = placed \cup {p}
    /\ UNCHANGED patches

\* The check refuses, or a statement fails.
Fail(w) ==
    /\ intent[w] # Quiet
    /\ intent' = [intent EXCEPT ![w] = Quiet]
    /\ UNCHANGED <<rows, patches>>

Next ==
    \E w \in Workers :
        \/ BeginUpdateOrganisation(w)
        \/ \E p \in Rows : BeginUpdate(w, p)
        \/ \E s \in Studies : BeginStudy(w, s)
        \/ \E n \in Needs : BeginNeed(w, n) \/ BeginImport(w, n)
        \/ Check(w) \/ Write(w) \/ Fail(w)

Spec == Init /\ [][Next]_vars

-----------------------------------------------------------------------------
\* A row names no center without its governorate.  A need without governorates
\* is shown with those of its study, which change without it.
CentersFit(p) ==
    (p \in Needs /\ gov[p] = {}) \/ \A c \in cen[p] : GovernorateOf[c] \in gov[p]

RegionFits == region # {} => \A g \in gov[Org] : RegionOf[g] \in region

\* Whatever else is patched, created or imported, at whatever level: the lists
\* of a row fit together, and the organisation's governorates are of its
\* region, unless another patch of the same row came between what the last
\* one read and what it wrote, or the row is a copy of such a one.
HierarchyHolds ==
    /\ \A p \in placed \ torn : CentersFit(p)
    /\ Org \notin torn => RegionFits

\* "validate against whatever the *final* state will be"
\* (organizations.service.ts:68): no patch leaves lists that do not fit.
FinalStateFits == (\A p \in placed : CentersFit(p)) /\ RegionFits

\* A selection that changes is within that of the row above when it is
\* written, a study's within the organisation's and a need's within the
\* study's, imported or not: unless the row above has lost something since it
\* was read, or another patch of the same row came between.
ChangedWithinOwner ==
    [][\A p \in Rows \ {Org} :
          gov'[p] # gov[p] \/ cen'[p] # cen[p] =>
             \/ p \in torn'
             \/ \E w \in Workers :
                   /\ intent[w].row = p /\ intent[w].step = "write" /\ intent'[w] = Quiet
                   /\ intent[w].narrowed \/ ( /\ gov'[p] \subseteq gov[OwnerOf(p)]
                                             /\ cen'[p] \subseteq cen[OwnerOf(p)] )]_vars

=============================================================================
