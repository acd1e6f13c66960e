--------------------------- MODULE MCOrganisation ---------------------------
(***************************************************************************)
(* The parts of an organisation's workspace, and of the platform around    *)
(* it, that share no state with one another.  A behaviour moves one of     *)
(* them (focus) from its initial state: interleaving it with another would *)
(* add states and no behaviour.  The same two workers carry the requests   *)
(* of whichever part it is.                                                *)
(*                                                                         *)
(* overlapped says whether a request ever found that something else had    *)
(* happened while it was in flight, or stopped half-way: the properties    *)
(* that the code keeps only for one request at a time are stated until     *)
(* then, the others for every behaviour.  (Geography says itself which of  *)
(* its claims an overlap takes away.)                                      *)
(***************************************************************************)
EXTENDS ReportRelease, TLC, FiniteSets

CONSTANTS
    Studies, Needs, HomeOf, StudyAsks, AskOf,                      \* StudyCatalogue
    Org, Governorates, Centers, Regions, RegionOf, GovernorateOf,  \* GeographyScope
    MaxPatches, Selecting,
    Imported, Keys, Invalid, MaxRows,                              \* NeedImport
    Responses, Villages,                                           \* ScoreRollup
    Documents, MaxEvidence,                                        \* EvidenceFiles
    Papers, MaxNarratives, MaxFigures,                             \* SummaryWorkflow
    Snapshots,                                                     \* NcnpReview
    SettingRows, Scale,                                            \* MethodologySettings
    Themes, SubDomains, DomainOf, Codes,                           \* DomainCatalogue
    Events, Batch, Ceiling, Chunk, MaxChunks,                      \* LogBuffer
    Instances, Limit, MaxRequests,                                 \* RateLimiter
    People                                                         \* Memberships

\* A need belongs to a study, a sharing request is for one, a sub-domain is
\* below a domain (the foreign keys), and an identifier is that of one row.
ASSUME RowsAssumption ==
    /\ HomeOf \in [Needs -> Studies] /\ AskOf \in [StudyAsks -> Studies]
    /\ DomainOf \in [SubDomains -> Themes]
    /\ Studies \cap Needs = {} /\ Org \notin Studies \cup Needs
    /\ \A n \in Needs \cap Selecting : HomeOf[n] \in Selecting
    /\ Themes \cap SubDomains = {}
    /\ "all" \notin Villages /\ "live" \notin Snapshots

\* The thresholds' defaults are severities; a buffer holds a batch and more.
ASSUME ValuesAssumption ==
    /\ {4, 5, 7, 8} \subseteq Scale /\ Scale \subseteq Nat
    /\ Invalid \notin Keys /\ Keys # {} /\ MaxRows \in Nat /\ MaxFigures \in Nat
    /\ MaxPatches \in Nat
    /\ MaxEvidence \in Nat /\ Limit \in Nat /\ MaxRequests \in Nat
    /\ Batch \in Nat \ {0} /\ Ceiling \in Nat /\ Batch <= Ceiling
    /\ Chunk \in Nat \ {0} /\ MaxChunks \in Nat \ {0}
    /\ IsFiniteSet(Events) /\ IsFiniteSet(Documents)
    /\ IsFiniteSet(Villages) /\ IsFiniteSet(Studies)

VARIABLES
    cycle, standing, stage, released, withdrawn, studyAsk, gone,   \* StudyCatalogue
    request,
    placed, gov, cen, region, intent, patches, torn,               \* GeographyScope
    key, origin, file, seen,                                       \* NeedImport
    answered, live, home, copies, rolled, assessed, job, recount,  \* ScoreRollup
    evidenceStage, disk, evidence, unseen, upload,                 \* EvidenceFiles
    parsing, included, kind, narrative, subject, basis, sources,   \* SummaryWorkflow
    told, figures, filed, officer,
    verdict, reviewedBy, publishedBy, exported, desk,              \* NcnpReview
    thresholds, settingOf, edit,                                   \* MethodologySettings
    code, active, activating,                                      \* DomainCatalogue
    buffer, timer, flights, stored, aged, over, purge, serving,    \* LogBuffer
    production, store, shared, local, passed, asked,               \* RateLimiter
    org, member, admin,                                            \* Memberships
    focus, overlapped

Catalogue == INSTANCE StudyCatalogue WITH ask <- studyAsk, Asks <- StudyAsks

Geography == INSTANCE GeographyScope WITH
    StudyOf <- HomeOf, Studies <- Studies \cap Selecting, Needs <- Needs \cap Selecting

Intake == INSTANCE NeedImport WITH Needs <- Imported

Scoring == INSTANCE ScoreRollup WITH Staff <- Workers

Files == INSTANCE EvidenceFiles WITH
    stage <- evidenceStage, Files <- Documents, Uploaders <- Workers

Summaries == INSTANCE SummaryWorkflow WITH
    standing <- narrative, task <- officer, Officers <- Workers

Ncnp == INSTANCE NcnpReview WITH Desks <- Workers

Settings == INSTANCE MethodologySettings WITH Editors <- Workers

Domains == INSTANCE DomainCatalogue WITH Domains <- Themes, Curators <- Workers

Log == INSTANCE LogBuffer

Limiter == INSTANCE RateLimiter

Members == INSTANCE Memberships WITH task <- admin, Admins <- Workers

catalogueVars == <<cycle, standing, stage, released, withdrawn, studyAsk, gone, request>>
geographyVars == <<placed, gov, cen, region, torn, intent, patches>>
importVars    == <<key, origin, file, seen>>
scoringVars   == <<answered, live, home, copies, rolled, assessed, job, recount>>
fileVars      == <<evidenceStage, disk, evidence, unseen, upload>>
summaryVars   == <<parsing, included, kind, narrative, subject, basis, sources, told,
                   figures, filed, officer>>
ncnpVars      == <<verdict, reviewedBy, publishedBy, exported, desk>>
settingVars   == <<thresholds, settingOf, edit>>
domainVars    == <<code, active, activating>>
logVars       == <<buffer, timer, flights, stored, aged, over, purge, serving>>
limitVars     == <<production, store, shared, local, passed, asked>>
memberVars    == <<org, member, admin>>

orgVars == <<vars, catalogueVars, geographyVars, importVars, scoringVars, fileVars, summaryVars,
             ncnpVars, settingVars, domainVars, logVars, limitVars, memberVars>>

-----------------------------------------------------------------------------
\* The parts that promise nothing more once requests have overlapped.
Fragile == {"scoring", "import", "summaries", "domains", "members"}

MCInit ==
    /\ Init /\ Catalogue!Init /\ Geography!Init /\ Intake!Init /\ Scoring!Init
    /\ Files!Init /\ Summaries!Init /\ Ncnp!Init /\ Settings!Init /\ Domains!Init
    /\ Log!Init /\ Limiter!LimitInit /\ Members!MemberInit
    /\ focus \in {"reports", "catalogue", "geography", "import", "scoring", "files",
                  "summaries", "ncnp", "settings", "domains", "log", "limiter", "members"}
    \* one initial state for a part that does not move
    /\ focus # "geography" => region = {}
    /\ focus # "scoring" => home = CHOOSE p \in Villages : TRUE
    /\ focus # "settings" => settingOf = [r \in SettingRows |-> "none"]
    /\ focus # "limiter" => production /\ store = "up"
    /\ overlapped = FALSE

Waiting(w) == <<pc[w], about[w], request[w], file[w], recount[w], upload[w], officer[w], desk[w],
                edit[w], activating[w], admin[w]>>

NotWaiting == <<"idle", {}, Catalogue!Idle, <<>>, Scoring!Rest, Files!Quiet, Summaries!Free,
                Ncnp!Clear, Settings!Away, {}, Members!Free>>

\* Something else happened while a request, or the scoring of a response, was
\* in flight; or one stopped between two of its writes.
Disturbs ==
    \/ \E w \in Workers : Waiting(w) # NotWaiting /\ Waiting(w)' = Waiting(w)
    \/ \E r \in Responses :
          /\ job[r] # Scoring!Done
          /\ job'[r] = job[r] \/ (Scoring!Lose(r) /\ ~Scoring!WriteRollups(r))
    \/ \E w \in Workers :
          \/ /\ recount[w] # recount'[w] /\ Scoring!Abort(w)
             /\ ~\E s \in Scoring!Scopes : Scoring!Assess(w, s)
          \/ officer[w].step \in {"unconfirm", "confirm"} /\ Summaries!Fail(w)

MCNext ==
    /\ ~(overlapped /\ focus \in Fragile)
    /\ IF focus = "reports"   THEN Next           ELSE UNCHANGED vars
    /\ IF focus = "catalogue" THEN Catalogue!Next ELSE UNCHANGED catalogueVars
    /\ IF focus = "geography" THEN Geography!Next ELSE UNCHANGED geographyVars
    /\ IF focus = "import"    THEN Intake!Next    ELSE UNCHANGED importVars
    /\ IF focus = "scoring"   THEN Scoring!Next   ELSE UNCHANGED scoringVars
    /\ IF focus = "files"     THEN Files!Next     ELSE UNCHANGED fileVars
    /\ IF focus = "summaries" THEN Summaries!Next ELSE UNCHANGED summaryVars
    /\ IF focus = "ncnp"      THEN Ncnp!Next      ELSE UNCHANGED ncnpVars
    /\ IF focus = "settings"  THEN Settings!Next  ELSE UNCHANGED settingVars
    /\ IF focus = "domains"   THEN Domains!Next   ELSE UNCHANGED domainVars
    /\ IF focus = "log"       THEN Log!Next       ELSE UNCHANGED logVars
    /\ IF focus = "limiter"   THEN Limiter!LimitNext  ELSE UNCHANGED limitVars
    /\ IF focus = "members"   THEN Members!MemberNext ELSE UNCHANGED memberVars
    /\ overlapped' = (overlapped \/ Disturbs)
    /\ UNCHANGED focus

MCSpec == MCInit /\ [][MCNext]_<<orgVars, focus, overlapped>>

WorkerSymmetry == Permutations(Workers)

\* The instance that is checked: one study and one region have everything.
FirstStudy   == CHOOSE s \in Studies : TRUE
NeedsOfOne   == [n \in Needs |-> FirstStudy]
AsksOfOne    == [q \in StudyAsks |-> FirstStudy]
RegionOfAll  == [g \in Governorates |-> "r1"]
CentersByName == [c \in Centers |-> IF c = "c1" THEN "g1" ELSE "g2"]
ThemeOfAll   == [s \in SubDomains |-> CHOOSE d \in Themes : TRUE]

-----------------------------------------------------------------------------
TypesOK ==
    /\ TypeOK /\ Catalogue!TypeOK /\ Geography!TypeOK /\ Intake!TypeOK /\ Scoring!TypeOK
    /\ Files!TypeOK /\ Summaries!TypeOK /\ Ncnp!TypeOK /\ Settings!TypeOK /\ Domains!TypeOK
    /\ Log!TypeOK /\ Limiter!LimitTypeOK /\ Members!MemberTypeOK

\* What has been decided is not decided again, what is archived is read-only,
\* and what was released to everybody stays released, until requests overlap.
\* (ReportSharingService.decide, SharingService.decide, ReportsService.archive,
\* NcnpReportReviewService.publish)
DecisionsStand ==
    [][~overlapped' =>
          /\ \A q \in Asks : ask[q] \in {"approved", "rejected"} => ask'[q] = ask[q]
          /\ \A q \in StudyAsks : studyAsk[q] \in Catalogue!Decided
                                     => studyAsk'[q] \in {studyAsk[q], "none"}
          /\ status = "archived" => status' = status
          /\ \A s \in Snapshots : Ncnp!ReleasedStays(s)]_orgVars

\* Whatever overlaps, a snapshot of the compiled report that was handed out has
\* been reviewed and published, and a study in the archive has, or until it
\* was taken back had, a released report; until requests overlap, a report
\* that was asked for can still be exported and the archived one is the one
\* with a date of archival.
\* (exportReport, StudiesService.archive, ReportSharingService.create)
ReleaseComesFirst ==
    /\ Ncnp!ExportedIsReviewed
    /\ Catalogue!ArchivedIsReported
    /\ ~overlapped => /\ (\E q \in Asks : ask[q] # "unused") => status \in Exportable
                      /\ archived <=> status = "archived"

\* No two studies have the same cycle number, also when they are created at
\* once; a need is imported once and a document has one confirmed narrative,
\* until requests overlap.  (createWithCycleNumber, importBulk, confirmSummary)
NoTwins ==
    /\ Catalogue!CyclesDistinct
    /\ ~overlapped => Intake!ImportedOnce /\ Summaries!OneConfirmed

\* What is patched field by field is consistent as a whole: the thresholds also
\* when two editors overlap, a selection of geography unless two patches of the
\* same row do.  (validateThresholds, validateHierarchy)
ValidatedAsAWhole == Geography!HierarchyHolds /\ Settings!ThresholdsOrdered

\* Every evidence row has its file, whatever stops or overlaps, unless an
\* upload lost the answer to its commit; and there are no more of them than
\* the limit until uploads overlap.  (EvidenceService)
FilesHold == Files!RowsHaveFiles /\ (~overlapped => Files!WithinLimit)

\* What the rollups say follows from the score rows.  (calculateRollups)
CountedWhileCalm == ~overlapped => Scoring!CountedOnce

\* A recalculation that ends has reassessed every scope.  (recalculateAll)
AssessedThroughout ==
    [][\A m \in Workers : Scoring!Finishes(m) /\ ~overlapped' =>
          LET v == recount[m].version IN
            \A s \in Scoring!Scopes :
                rolled[v][s] # Scoring!NoRows => assessed'[v][s] = rolled[v][s]]_orgVars

\* A selection that changes is within that of the row above, unless that has
\* been narrowed since it was read.
\* (assertGeographyInOrgScope, assertGeographyInStudyScope, importBulk)
ChangedWithinOwner == Geography!ChangedWithinOwner

\* What the comment at organizations.service.ts:67-69 has updateCurrent check:
\* whatever the final state of a patched row is, its lists fit together.
FinalStateFits == Geography!FinalStateFits

\* What one write takes along it takes along completely, until requests
\* overlap: the appointment of an administrator demotes the others, a domain
\* that is deactivated takes its sub-domains, and a confirmed combined
\* narrative keeps the documents it draws on.
\* (assignNgoAdmin, setDomainActive, deleteDocument)
CascadesComplete ==
    [][~overlapped' =>
          /\ \A w \in Workers : Members!Appoints(w) => Members!OneAppointed(w)
          /\ Domains!NoneStranded
          /\ \A i \in Summaries!Ids : Summaries!ConfirmedKeepsSources(i)]_orgVars

\* Whatever fails or restarts: production lets no more than the limit through,
\* a buffered event has a flush coming, and a purge that ends because its last
\* chunk was not full has left nothing old.
\* (RateLimitGuard, SystemLogsService)
ServerKeepsItsLimits ==
    [](Limiter!WindowKept /\ Log!BufferedIsScheduled) /\ Log!PurgeDrains

=============================================================================
