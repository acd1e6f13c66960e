# RIO backend: TLA+ models, checks and proofs

This directory holds TLA+ specifications of the parts of the RIO backend (a
NestJS service over PostgreSQL) whose correctness depends on the order in which
requests, detached tasks and administrators act, and of the computations that turn stored answers into scores,
reports, dashboards and files, with TLC configurations that check small
instances and TLAPS proofs for all instances.

Paths below are relative to `src/`; `modules/` means `src/src/modules/`.

## 1. The system

Non-governmental organisations enter *needs* of villages under *studies*. An AI
task classifies each need, a human reviews the classification, a *survey* is
drafted, reviewed and published, citizens answer it through links after a one-time
code, the answers are scored and rolled up into priorities, and *reports* about them
are confirmed, released and shared with other organisations. Administrators
manage organisations, accounts, methodology and policies.

Every handler reaches the database through
`tenancy/tenant-prisma.service.ts`: `runInOrgContext`, `runAsOrg` and
`runAsSupervisor` each open one PostgreSQL transaction at the default isolation
level, READ COMMITTED. Nearly every handler opens *several*: one to read a row
and check its status, one to write the row by its id. Between them it awaits a password
hash, an AI call or nothing but the event loop, and any other request may run.
Where two requests can disturb each other is decided by which of those writes
recheck something (a conditional `updateMany`, a unique index) and which do
not. The models have this granularity: **one transaction's reads and
checks are one action, one transaction's writes are one action, and everything
between them is an interleaving point.** Where a transaction reads, checks and writes
by itself and nothing it reads is locked, its reads, its checks and its writes are
actions of their own too (`GeographyScope`, the recalculation of `ScoreRollup`); where a
unique index decides instead, they are one action with the index in it.

### Inventory

| Component | State it keeps | Operations | Talks to | What is hard | What makes it correct |
|---|---|---|---|---|---|
| Survey lifecycle, `modules/surveys` | Survey rows (status, version, predecessor, questions, review columns) | create, generate questions, save questions, set methodology and sample, submit, approve, reject, publish, new version | needs, AI gateway, citizens and scoring (look up *the* PUBLISHED survey) | checks and writes in different transactions; AI call in the middle of regeneration | one live survey per need, unbranched versions, nothing live unapproved |
| Citizen submission, `modules/citizen` | one-time-code challenges, responses | request code, verify, submit, check duplicates | links, surveys, scoring (detached) | double submits, two sessions of one person, failure inside the transaction, guesses in parallel | one response per person and need, one per session, bounded guesses |
| Need classification, `modules/ai-decisions` | AiDecision rows, Need.status and its flags | attempt, retry, classify by hand, review, propose an override | needs, AI gateway | attempts fired and forgotten, results written to a need that has moved on | no approval without a human, reviewable when shown for review |
| Needs, `modules/needs` | Need rows | create, import, update, delete, list | classification | edits while an attempt runs | edits only while editable |
| Accounts and sessions, `modules/auth`, `auth/` | User row (status, password, counters, lock, sessionVersion), reset tokens, session tokens | login, me, logout, consent, change/forgot/reset password; guard | users, organisations, mailer | guard, read and write in three transactions; hashes in between | ended sessions stay ended, disabled means out, guesses lock |
| Users and organisations, `modules/users`, `modules/organizations` | users, roles, organisation status and approval | invite, role, status, resend, assign NGO admin, approve, suspend | accounts | admin seat moved on a stale row; passwords provisioned over chosen ones | one NGO admin, approved before active |
| Reports, `modules/reports` | Report row (status, officer and reviewer fields) | create, confirm, approve, reject, archive, export | report sharing, composition | status read and row written in different transactions | released only after two steps, archived is final |
| Report sharing, `modules/report-sharing` | ReportSharingRequest rows | create, approve, reject, view | reports | eligibility read before the insert; the view rechecks only the request | only released reports are shared, one decision |
| Study sharing, `modules/sharing` | SharingRequest rows | create, approve, reject, view | studies | as report sharing | one decision per request |
| NCNP report review, `modules/ncnp-report-review` | review rows | generate, approve, reject, publish | NCNP report | as reports | published only after approval |
| Studies, `modules/studies` | Study rows, cycle numbers | create, update, remove, archive, restore | needs, surveys | cycle number computed from what was read | cycle numbers of a village distinct |
| Public links and export, `modules/public-surveys` | link rows | create, list, deactivate, export responses | citizens | cursor pagination while responses arrive; version attribution | each response exported once |
| Scoring and rollups, `modules/priority` | scores, rollups, assessments, overrides | score a response, recalculate, override, clear | surveys, methodology | recalculations overlap; weights, rounding, missing answers | rollups agree with the scores they sum up |
| Evidence, `modules/evidence` | files, document rows, summaries | upload, submit, remove, generate, edit, confirm, mark stale | AI gateway, storage | summary written for a document that changed meanwhile | a confirmed summary is of the current document |
| Methodology, `modules/methodology-config` | versions, one draft | edit draft, publish | scoring | two publishes | one active version |
| System logs and audit, `modules/system-logs`, `modules/audit` | in-memory buffer, log rows | add, flush, purge, record | everything | flush by size, timer and shutdown; audit row after the commit | no entry lost or written twice |
| Needs import, `modules/needs/needs-import*` | – | read CSV, Excel, PDF, survey documents; import row by row | needs | keys read once at the start; a failure half-way | a need is imported once, what is exported reads back |
| Geography, `modules/geography` | selections of governorates and centers of organisation, study, need | patch one list at a time | organisations, studies, needs | lists are validated against what was read | a selection is a hierarchy and stays within its owner's |
| Domain catalogue, `modules/domains` | domains and sub-domains, active or not | create, recode, activate, deactivate with cascade | classification, scoring | a deactivation racing a creation | no active sub-domain under an inactive domain |
| Narratives, `modules/reports/*-summary*`, `modules/evidence/document-summary*` | narratives with their status and sources | generate, edit, confirm, delete, file | AI gateway, composition | AI call in the middle; a source deleted or replaced meanwhile | one confirmed narrative of a document, a combined one keeps its sources |
| Report composition, `modules/reports/providers` | nothing | derive the sections of a report from one survey's rollups | priority, surveys | sections derived on separate paths | sections agree, only what was measured is ranked |
| NCNP report, `modules/ncnp-report` | nothing | some fifty queries over all organisations | all tables | counts by assessment, village and need side by side | the figures reconcile |
| Dashboards and alerts, `modules/{reviewer-sla,sharing-alerts,supervisor-overview,archive,response-quality,priority}` | nothing | queues, compliance, overviews, response quality | all tables | the same rows shown to several roles | whoever is shown work can do it |
| Authorisation, `rbac`, `common/guards` | the role matrix, request counters | guard decisions, rate limit | all handlers | routes and roles declared far apart; Redis away for part of a window | the work is divided and can be done, the limit is kept |

`PROJECT.json` repeats this list as components, with what is modelled of each,
and lists the hazards by line.

## 2. The modules

| Module | Stands for | Kind |
|---|---|---|
| `SurveyLifecycle` | `SurveysService`: the surveys of one need | state machine |
| `LiveSurvey` | what links, scoring and reports rely on: at most one live survey, retired ones never come back | abstract specification, implemented by `SurveyLifecycle` |
| `CitizenSubmission` | `CitizenService`, with links closing, surveys going live and detached scoring around it | state machine |
| `ResponseLedger` | what the citizen flow promises: responses are added one at a time, each paid for with a fresh verified session | abstract specification, implemented by `CitizenSubmission` |
| `NeedClassification` | `AiDecisionsService` with the edits of `NeedsService` | state machine |
| `AccountSessions` | `AuthService`, `JwtAuthGuard` and what administrators do to an account | state machine |
| `Memberships` | `UsersService`, `OrganizationsService`: registration, approval, roles, the administrator's seat | state machine |
| `ReportRelease` | `ReportsService` and `ReportSharingService` for one report | state machine |
| `StudyCatalogue` | `StudiesService` and `SharingService`: cycle numbers, archive, deletion, sharing of studies | state machine |
| `GeographyScope` | `GeographyService` and the geography of organisation, study and need | state machine |
| `NeedImport` | `NeedsImportService.importBulk` beside entry by hand | state machine |
| `ScoreRollup` | detached scoring, rollups, recalculation and assessment of one need | state machine |
| `EvidenceFiles` | `EvidenceService`, `EvidenceStorageService`: rows and files | state machine |
| `SummaryWorkflow` | the three narrative services and `EvidenceDocumentsService` | state machine |
| `NcnpReview` | `NcnpReportReviewService` | state machine |
| `MethodologySettings` | `MethodologyConfigService` | state machine |
| `DomainCatalogue` | `DomainsService` | state machine |
| `LogBuffer` | `SystemLogsService`, `SystemLogsRetentionService` | state machine |
| `RateLimiter` | `RateLimitGuard` with Redis, with its fallback | state machine |
| `SeverityScoring` | `DeterministicScoringService`: one sheet of answers | functions |
| `NeedsIndex` | the five rollup levels, confidence, village priority and what is shown of it | functions |
| `ReportContent`, `ReportPatterns` | `ReportSummaryDataProvider` and the derivations: records, hierarchy, ranking, coverage, notes; groups, patterns, trends, portfolio | functions |
| `NcnpReport` | `NcnpReportService.getReport` | functions |
| `Dashboards` | reviewer queues, sharing alerts, overview, archive, collective dashboard, response quality | functions |
| `Access` | role matrix, routes, guards | functions |
| `DocumentRows`, `ResponseExport` | CSV, sheets and documents read and written; the answers of all versions as one table | functions |
| `MC…` | instances, symmetry, history variables and the properties stated with them; `MCViews` holds the inputs and properties of dashboards, notes and files that `MCTables` checks with the rest | for TLC |
| `Ranking` | rows in an order and rows of an order: `sort`, `ORDER BY`, `slice`, `filter` | functions |
| `…Proofs` | the theorems about the module they extend; `OrganisationProofs` those about `MCOrganisation`; `TablesProofs` (figures), `ViewsProofs` (reports, roles, exports) and `FilesProofs` (what is printed and read), each extending the one before, those about `MCTables` | for TLAPS |

`CitizenSubmission` composes with `SurveyLifecycle` through `LiveSurvey`: it
takes the live version of a need as a number that only grows (`GoLive`), which
is what `LiveSurvey` says of the surveys while publishing requests do not
overlap. `NeedClassification` ends where a need is approved,
and `SurveyLifecycle` starts from there (its variable `need`). A response that
`CitizenSubmission` stores is what `ScoreRollup` scores; `ScoreRollup` keeps of a
rollup the score rows it was computed from, and `NeedsIndex` says what is
computed from them. `StudyCatalogue` takes a released report as given, which is
where `ReportRelease` ends. `MCOrganisation` puts `ReportRelease` and twelve more state machines
side by side.

How to read a state machine:

* a **worker** (desk, uploader, editor…) is one HTTP request in flight, or a
  task that nobody waits for. Its variable (`pc[w]`, `request[w]`, `desk[d]`…)
  is the transaction it performs next and what it has read;
* `Begin…` is the read transaction of the handler of that name with all its
  checks and early returns; the action without the prefix is its write
  transaction, with every column it writes. A handler that does all its work in
  one transaction is one action;
* `Fail`, `Abort`, `Crash` end a request anywhere: a refusal, an exception, a lost
  connection, a restart. What has been committed stays, what has not is undone. A
  connection lost after the commit and before its acknowledgement is a write followed by `Fail`;
  where the handler acts on the error it is an action (`EvidenceFiles!CommitUnseen`).
  Handlers that do something between the last write and the answer (sign a
  token, write an audit row) may fail there too;
* a definition whose comment starts with *Faulty* is a plausible defect of the
  definition beside it. It is part of no specification: put in the other's
  place, it breaks the property that is there to notice it. `PROJECT.json` pairs
  one with every property (`mutants`); the remaining ones break another conjunct
  of the same property, which the pair alone would leave untried
  (`DeleteFileFirst`, `CountStored`, `BeginArchiveUnreported`, `UpdateNamed`,
  `FlushKeepingBuffer`, `ImportRowForgetful`, `DeactivateAlone`, …).

How to read a module of functions: each operator is a function of the service, its
arguments are the rows that the function's queries answer, and its result is what it returns
with wording, language and layout taken away. Percentages and scores are
integers; a `null` is the value `Null`, and rounding is the code's
`Math.round`. An order (`Ranked`) is any sequence of the rows that the comparison does not
contradict: the library's sort by a comparison says nothing of rows that tie, and the code's
comparisons do leave ties. A filter (`Without`) and the readers of text are left folds,
a row or a character at a time, as the loops of the code are. Where the code reads in several snapshots,
the model reads in one: these modules say what the arithmetic does, not what it does while
rows change.

**SurveyLifecycle.** One need and a few survey identifiers. Question rows are
reduced to whether a survey has bank rows and additional rows, the text columns
to whether they are set. `SubmitCount` is the extra read of
`submitForApproval`; regeneration has three steps, the check, the look-up after
the AI call and the write. `published` and `approved` are the columns
`publishedAt` and `approvedAt`, which no handler resets, so that properties can
speak of what once happened to a row.

**CitizenSubmission.** `submitResponse` is one transaction, but its
conditional update locks the challenge row until it ends: claim, checks
and insert are steps of their own, `locked` is the row lock, `Rollback` undoes
the claim. The unique indexes on (need, email) and (need, mobile) are part of
`Insert`. `verifyOtp` and `requestOtp` check in one transaction and write in
another one; the guess is written with a conditional `updateMany` that checks
again. `Environment` is what happens without a request: codes expire, links
are closed, versions go live, and a detached task scores a stored response –
or dies with the process and does not.

**NeedClassification.** The text of a need is its `edition`, a decision
remembers which edition it classified. `fired` counts the attempts that have been
fired with `void` and have not begun; `Restart` loses them. Which domains
are chosen is reduced to where they come from (suggestion, override, by hand).

**AccountSessions.** A session token is its `sessionVersion` claim and, for the
properties only, the version at which its holder last gave a password. The
guard is `Valid`, a transaction of its own before every handler that needs a
session. `hash = "temporary"` stands for `mustChangePassword` as well. Time is
`LockExpires` and `LinkExpires`; a token's own expiry is left out, which only
keeps tokens longer.

**ReportRelease.** One report and its sharing requests. All seven handlers
have the same shape, one read and one write by id, which is what the model
is about.

**StudyCatalogue.** An identifier of a row is used once (`gone`), as a generated one is.
A creation reads the highest cycle number and inserts; the unique index refuses
a number taken in between. A deletion is refused while the study has a need,
and its cascade takes what refers to the study when it runs. `TakeReportBack` is the late confirm or
reject of a released report; `withdrawn` remembers it.

**ScoreRollup.** `copies` counts the score rows of a response, by version and by
the village the need was in; what a rollup says is the rows it was computed from,
so a stale or double count is visible as such. A recalculation is one
transaction whose statements see different snapshots: it reads in one step and
writes in another; the assessments after it are a transaction each.

**EvidenceFiles.** Disk and database share no transaction: `Save` writes a file,
`Commit` all rows, `DeleteRow` the row before `Unlink` the file; `Crash` forgets the
requests and keeps the disk. `CommitUnseen` is a commit whose acknowledgement is lost: the
handler takes the upload for failed and removes the files of committed rows.

**SummaryWorkflow.** The score, document and combined narratives of one survey with
their status, what they are about and what they draw on; `told` and `figures`
compare the scores a narrative was written from with those there are now.

**LogBuffer, RateLimiter.** One process: its buffer, its timer and the batches in flight; and
several instances that share a counter as long as Redis answers.

**GeographyScope.** A request reads the lists of its row (`Begin…`), then those of the row above and
checks (`Check`), then writes the lists it names (`Write`): three steps of one transaction whose
statements see what others have committed. The delete of a patch may miss the rows another one has
just inserted (`missed`). `torn` remembers the rows whose last writer raced another patch, `narrowed`
that the row above lost something in between; the properties say what holds without them. A creation
of a study checks in the step in which it reads, since it has no lists to read first.

**NcnpReview.** The review of snapshots, and beside it `ExportLive`, the export of the live report,
which asks for no review.

**NeedImport, MethodologySettings, DomainCatalogue, Memberships.**
A few rows each, with the handlers that read, check and write them; their headers say
what of the rows is kept.

## 3. What TLC checks

`tlc -config <run>.cfg <module>` in this directory; `PROJECT.json` lists the
module of each run.

### Runs that pass

* **SurveyOverlap** (3 surveys, 2 requests). However two requests of any kind
  overlap: versions form an unbranched chain, nothing is published that no
  approver approved, a superseded survey has a published successor, what is
  under review has its methodology version. Until two overlap at most one version is in
  work and the notes of a review agree with the status (`OneAtATime`), and the
  surveys implement `LiveSurvey` (`OneLiveSurvey`). Two requests are enough for every
  pair of check and write to race; three rows give two generations of
  succession. Once requests have overlapped, two rows are used (a version and its
  successor, or the two competing inserts of one need) and the
  sample description, which is only written and copied, stays empty.
* **CitizenOneNeed** (2 links of one need, 2 sessions, 2 addresses, 2 numbers,
  2 requests, 2 survey versions, 2 guesses). One response per person, a session is consumed
  exactly when its one response is stored, responses are filed where
  the session was opened, guesses are bounded, dead sessions stay unchanged, and
  the flow implements `ResponseLedger`. Two of each is the least at which two
  people, two sessions of one person and two submits of one session differ.
* **CitizenAnswered** (1 session, 3 requests, `FairSpec`). Nobody waits for ever for a
  claimed row. Three requests make a queue: one holds the row, two wait.
* **NeedReview** (2 requests or attempts, 3 editions, 4 decisions; 2 and 2 once
  they overlap). Overlapping or not: no approval without a human, and what is
  shown for review can be reviewed. Until two overlap (`ReviewIsCurrent`): the
  classification is of the current text, the error flag is shown exactly after a
  failure, one decision waits at a time.
* **AccountOverlap** (2 requests, 2 reset links, token versions 0..2 and only
  0..1 once two overlap, lock after 2 failures, counter up to 3, at most 2 tokens). Overlapping or not: a disabled
  account has no accepted token although the guard never looks at the status, and the lock
  agrees with the counter. Until two overlap: ended sessions stay ended, one reset link is
  open, wrong guesses lock the account (`LockHolds`, `CredentialsEnd`), only administrators
  enable a disabled one. Two failures and one more tell a counter that is lost,
  exact or late.
* **Organisation** (`MCOrganisation`). Thirteen state machines that share no variable; a
  behaviour moves one of them (`focus`), since interleaving two adds states and
  no behaviour of either. The instances are two requests or members of staff for each, 2 studies with 2 needs,
  2 villages with 2 responses, 3 files and a limit of 2, 3 narratives of a
  document, 2 snapshots, one settings row over four severities, 2 domains with 2
  sub-domains, 4 log events with batches of 3, 2 server instances with a limit of
  2 and 6 requests, 2 people. Geography is of one study and one need (`Selecting`), with at most
  2 patches (`MaxPatches`): two that overlap is what tears a row. Overlapping or not: reports of studies and
  snapshots of the compiled report leave after their review, archived studies have had a report and
  shared ones exist, cycle numbers differ, thresholds are in order, production keeps its rate
  limit, every buffered event
  has a flush coming, a finished purge has left nothing old. Every evidence row has its file unless its
  upload lost the answer to its commit; the lists of a row fit together unless two patches of that row
  overlapped, and they change within those of the row above unless these lost something meanwhile. Until requests
  overlap: decisions stand, an import leaves no twin, one narrative of a document is
  confirmed, rollups count every response once and a
  recalculation reassesses every scope, appointments and deactivations cascade.
* **Tables** (`MCTables` with `MCViews`). Each behaviour picks one input and computes its
  answer: 252 230 states, over the kinds of input below. They are the smallest that have two of
  whatever is compared.
  - Scores: two responses to three questions of two domains, each unanswered, 0, 50
    or 90, under every choice of weights and of a critical threshold (`index`); every
    sheet of a question and a conditional one over a lookup with an escape and a
    composite (`sheet`). `LevelsWithin`: a level lies between the scores below it
    at every level; `EscapesStayOut`: an escape counts nowhere, what counts is in 0..100.
  - Reports: three KPIs of one or two domains, a question that the bank of today
    may have lost, with and without a required sample (`report`); groups, bands, notes
    and trends (`segments`, `scale`, `notes`). `ReportTellsOneStory`: coverage, tree, ranking
    and notes agree, and nothing is claimed that was not measured.
  - Kingdom-wide figures over up to three assessments of two surveys of two
    organisations (`ncnp`); an organisation's dashboard, its portfolio of three surveys of
    one or several needs and the
    supervisors' overview (`board`, `portfolio`, `overview`). `FiguresReconcile`; each share of a
    portfolio is rounded by itself, so shares may add up to a little more or less than a hundred.
  - Files of quotes, commas and line breaks, rows with oddly spaced villages, tables,
    chunks and documents (`file`, `row`, `table`, `chunks`, `document`); answers under two
    versions that share questions, and exports of four responses while some
    arrive (`answers`, `paging`). `RowsReadBack`.
  - Up to four responses of two contacts (`quality`). `OriginalsOnce`: every copy names
    the one original.
  - Every step of the workflow with every role, the queues of every role, every route
    with and without its token (`release`, `step`, `queue`, `call`). `RolesDivideTheWork`:
    nobody both prepares and releases, every step can be taken, and whoever is shown
    work can do it.

The properties "until two overlap" use a history variable `overlapped` of the
MC module: something else happened while a request was in flight, or one stopped
between two of its writes. It says from when on a promise that needs serial requests is not made. The
surveys, needs and accounts go on after it within smaller bounds. In
`MCOrganisation` the five parts that promise nothing more after it (`Fragile`:
scoring, import, summaries, domains, members) stop there, the other eight go on;
a behaviour may therefore end, so that run does not check for deadlock, and
neither do Tables and the runs of single computations, which stop after their answer.

Bounds are named constants: identifiers (`Surveys`, `Links`, `Challenges`,
`Asks`), `MaxVersion`, `MaxEditions`, `MaxDecisions`, `MaxFailed`,
`MaxAttempts`, `MaxRows`, `MaxEvidence`, `MaxNarratives`, `MaxFigures`, `MaxChunks`,
`MaxRequests`, `Overlap…`, and `Bounded` in the MC modules. The counters
among them are bounded in the guard of the action that would exceed them.
Workers and identifiers are interchangeable, so symmetry is used wherever no
liveness is checked.

### Runs that show a disagreement

Each checks one property that a comment states and the code does not keep; TLC
finds the shortest behaviour.

* **SurveyPublishedTerminal**: a submit, approve or reject that checked a survey before it was
  published lands afterwards and takes it out of PUBLISHED
  (`modules/surveys/surveys.service.ts:1055`).
* **CitizenScoredElsewhere**: scoring resolves a response against the survey
  published when it runs (`modules/priority/scoring.service.ts:99`).
* **AccountSessionRevived**: a `me` request that passed the guard before
  the sessions were ended is handed a token of the new version
  (`modules/auth/auth.service.ts:160`).
* **AnswersKeepTheirScore**: a recalculation deletes the scores of all responses
  of the need and scores them again with the questions of one survey, so an
  answer given under another version loses its score (`modules/priority/rollup.service.ts:60`).
* **GeographyFinalState**: two patches of one organisation that overlap, each valid beside
  what it has read, leave a center without its governorate
  (`modules/organizations/organizations.service.ts:83`, against `:67-69`).

### Fairness

One run checks liveness. `CitizenSubmission!FairSpec` assumes weak fairness of
each request's own steps (the event loop resumes a handler whose database call
has answered, and the database answers) and strong fairness of `Claim` (the wait
for a row lock is interrupted while another request holds it;
PostgreSQL serves the queue of a row in order). Elsewhere nothing has to happen by
itself that the code promises: attempts, scorings and log events live in memory
and are lost with the process, which the hazards note.

### Departures

What modelling showed besides the runs above. There is no run for these;
each is a behaviour of a specification in this directory, or of the code beside it,
that a comment, a name or an error message speaks against or that its author may not
expect.

Surveys (`modules/surveys/surveys.service.ts`):

* two overlapping requests insert two first versions (`:623`, "never a second
  Survey row for the same Need" at `:621`; no unique index on the need);
* two unrelated versions can then both be PUBLISHED, since publishing supersedes
  the predecessor only (`:1157`; `:846` relies on exactly one);
* regenerating checks for PUBLISHED before the AI call and replaces the rows
  after it (`:648`, against `:472-475`), and does not refuse APPROVED at all
  (`:489`, against `:1086-1087`);
* approving a DRAFT directly skips the count of questions, so a survey without
  any can go live (`:1143`); submitting does not ask for the sample
  description (`:1055`, against `:965-966`);
* publishing writes `survey_published` on a need without reading its status
  (`:1162`, against `:33-35`);
* a version that a published successor replaces is set to SUPERSEDED (`:1157`), where `:141-144`
  says that it "keeps its own PUBLISHED status forever";
* SUPERSEDED surveys can still be edited: `assertEditable` does not refuse them, so the
  questions of an old version are replaced under its responses (`:819`);
* a status is committed before its audit record is written; a failure in between
  answers an error for what was done (`:1072`).

Citizens: a response to a page of the old version is still accepted when a new
version goes live between its checks and its insert (`modules/citizen/citizen.service.ts:264`);
a restart forgets the scoring of a stored response and nothing scores it again but a
recalculation (`:361`).

Needs (`modules/ai-decisions/ai-decisions.service.ts`): two reviewers decide the
same decision and the later overwrites the first (`:361`); an attempt that
read the need before its approval takes the approval back (`:246`) and one that read
the text before an edit classifies the old text (`:246`); an
approved need may keep a classification error (`:400`); classifying by hand
leaves the suggested NeedDomain rows and `allDomainsSelected` (`:121`); a rejected
need, and one whose attempt was lost with the process
(`modules/needs/needs.service.ts:141`), is pending without an attempt, and Retry refuses
pending needs (`modules/ai-decisions/ai-decisions.service.ts:72`).

Accounts: a token ends with the session version it names, which disabling an account raises
(`auth/jwt-auth.guard.ts`), where `modules/auth/auth.service.ts:55-60` and `:149-151` say that it stays
valid until it expires whatever becomes of the account; concurrent wrong guesses are counted once, and a late one writes a
fresh lock away (`modules/auth/auth.service.ts:103`); a reset link used twice
at once sets two passwords (`:581`); two requests for a link leave two
open (`:541`); a `consent` or `changePassword` in flight sets a
disabled account back to active (`:240`, `:503`); resending an invitation or
approving an organisation writes the temporary password over one chosen in between
(`modules/users/users.service.ts:89`, `modules/organizations/organizations.service.ts:289`);
`updateStatus` activates an organisation that was never approved (`:241`);
two `assignNgoAdmin` at once leave no administrator, each demoting the other's
(`modules/users/users.service.ts:251`, `:273`); changing a user does not refuse
cross-entity targets although removing one does (`:96`, `:126`); a user can be created for an
organisation whatever its state.

Reports: a late `confirm` or `reject` takes a released report back to submitted
or rejected while it is shared, and a late `approve` an archived one to released
(`modules/reports/reports.service.ts:288`, `:326`, `:352`), also while its study is being
archived on account of it (`modules/studies/studies.service.ts:571`); two owners overwrite each
other's decision on a sharing request (`modules/report-sharing/report-sharing.service.ts:244`).

Studies, needs and geography: an archived study that gets a new need leaves both
lists (`modules/studies/studies.service.ts:571`); the second attempt to insert a
cycle number is made in the transaction the first has aborted (`:75`); archive and restore ask for
`archiveSharingAudit:write`, which no role holds (`modules/studies/studies.controller.ts:67`, `:73`);
two imports at once import a need twice (`modules/needs/needs-import.service.ts:120`); import accepts
rows without a village that the preview refuses, and the row numbers of a CSV skip
blank rows where those of a sheet keep them; a selection of geography that shrinks
does not reach the selections below it (`modules/geography/geography.service.ts:84`), and two patches
of one study or need that overlap leave lists nobody has validated together
(`modules/studies/studies.service.ts:407`, `modules/needs/needs.service.ts:232`), as those of an organisation do.

Scoring (`modules/priority`): two scorings that overlap leave the rollups of the one
that read first (`rollup.service.ts:316`, `:645`); a recalculation racing a
scoring stores its rows twice; a recalculation without a methodology
version returns after deleting the rows (`:72-80`); a need that moves to
another village leaves its rollups behind; village priorities are not
refreshed when citizens respond; `uploadLookups` writes in a transaction that may
only read (`priority.service.ts:231`).

Narratives and evidence: two uploads at once exceed the limit of files
(`modules/evidence/evidence.service.ts:57`); an upload whose commit is not acknowledged
removes the files of the rows it has committed (`:115`); `.txt` evidence is always refused;
`isIncludedInCombinedReport` is stored and never read; a combined narrative draws on
narratives nobody has confirmed; deleting a score narrative takes a confirmed
combined one along; `invalidateIfStale` and `markStaleForDocument` have no
caller; reports print narratives that are still drafts.

Reports and figures: shares are rounded one by one, so 1 and 7 of 8 show as 13 and 88
(`modules/reports/providers/coverage-counts.ts:75`); coverage and demographics are counted per need, so two
surveys of one need both show its people (`modules/reports/providers/aggregate-demographics.ts:17-21`); the
comparison of a survey with the needs of its organisation holds its priority score, of which a low one is
urgent, against band midpoints that give High urgency 80 and Low 20, "on the same scale"
(`modules/reports/providers/survey-report-derivations.ts:137-149`); RPT16 multiplies a percentage by 100
(`modules/reports/reports.service.ts:808`); the confidence reason leaves a
missing sample size out; the kingdom-wide report is read in some fifty snapshots, its
coverage counts rollups of every methodology version; the compliance of a reviewer
depends on who asks, and is shown as 100 % with one breach in more than two hundred;
supervisors count an archived study with an open need as in progress; assessing the
quality of responses again appends its results again.

Exports: two questions of one version with the same text share a column, so that the second
answer is not exported (`modules/public-surveys/public-surveys.service.ts:532-560`); the
paged list orders by time only, so pages may repeat or skip responses of the
same instant.

Platform: the compiled report as it is now can be exported without any review
(`modules/ncnp-report/ncnp-report.service.ts:459`), beside the reviewed snapshots; a reject that lands after a release of the compiled report overwrites it
(`modules/ncnp-report-review/ncnp-report-review.service.ts:198`); a sub-domain can be created under
an inactive domain (`modules/domains/domains.service.ts:96`, against `:55-57`); reading
the methodology settings twice at once creates two rows; `BUFFER_CEILING` is
never reached and the flush at shutdown does not wait for a flight
(`modules/system-logs/system-logs.service.ts:144`); audit rows without an
organisation are lost (`modules/audit/audit.service.ts:83`); `openapi.ts` documents
routes otherwise than they are; approving an AI classification is said to be the
reviewer's alone and `ngo_admin` holds it as well (`rbac/role-matrix.ts`).

## 4. What TLAPS proves

For every value of the constants – any number of requests, rows, people and
versions. `tlapm <Module>Proofs.tla` checks a module's proofs.

| Module | Theorem | Says |
|---|---|---|
| `SurveyLifecycleProofs` | `TypeCorrect` | the type invariant |
| | `VersionsNeverBranch` | `VersionChain` |
| | `PublicationIsReviewed` | `PublishedWasApproved` |
| | `RetirementHasSuccessor` | `RetiredHasSuccessor` |
| | `ReviewIsConsistent` | `ReviewedHasMethodology` |
| | `OneAtATimeHolds` | `OneAtATime`, until two requests overlap |
| | `ImplementsLiveSurvey` | `OneLiveSurvey`: until they overlap, the surveys implement `LiveSurvey` step by step |
| `CitizenSubmissionProofs` | `TypeCorrect` | the type invariant |
| | `SubmissionIsSafe` | `OneResponsePerPerson` |
| | `SessionsAreAccounted` | `SessionsAccountForResponses` |
| | `DeadSessionsStay` | `DeadSessionIsInert` |
| | `FlowImplementsLedger` | `RecordsResponses`: the flow implements `ResponseLedger` |
| `NeedClassificationProofs` | `TypeCorrect` | the type invariant |
| | `ReviewIsHuman` | `ApprovedByAHuman` |
| | `ReviewIsCurrentHolds` | `ReviewIsCurrent` |
| `AccountSessionsProofs` | `TypeCorrect` | the type invariant |
| | `DisabledIsOut` | `DisabledHasNoSession` |
| | `GuessesLock` | `LockHolds` |
| | `CredentialsEndHolds`, `OnlyAdminsEnableHolds` | the two action properties, until requests overlap |
| `OrganisationProofs` | `TypesHold` | `TypesOK`, of all parts |
| | `ReportsAreReviewed`, `ReleaseComesFirstHolds` | `SharedWasReviewed`, `ReleaseComesFirst` |
| | `NoTwinsHolds`, `ValidatedHolds`, `FilesHoldAlways`, `CountedWhileCalmHolds` | `NoTwins`, `ValidatedAsAWhole`, `FilesHold`, `CountedWhileCalm` |
| | `DecisionsStandHolds`, `ChangedWithinOwnerHolds`, `CascadesCompleteHolds`, `AssessedThroughoutHolds`, `ServerKeepsItsLimitsHolds` | the action properties of the same names |
| `TablesProofs` | `LevelsWithinHolds`, `EscapesStayOutHolds`, `OriginalsOnceHolds`, `FiguresReconcileHolds` | `LevelsWithin`, `EscapesStayOut`, `OriginalsOnce`, `FiguresReconcile` |
| | `RollupsWithin`, `PriorityWithin` | the bounds of `LevelsWithin` for any bank, scores, weights and domains |
| | `SheetsStayInRange` | those of `EscapesStayOut` for any bank, look-up and answers, in every scoring mode |
| | `CopiesNameTheOriginal` | `OriginalsOnce` for any responses and settings |
| | `WorseNeverShownLess` | for any thresholds, a worse severity has no lower level and no shallower gap |
| | `VillagesCountedOnce`, `NeedsAreRankedOnce` | kingdom-wide report, any sample: donut and table are of the same villages, each with its newest assessment; every need with an assessment is ranked once |
| | `MostUrgentFirst` | any scored needs: the five on top are different and as urgent as all that are left out |
| | `DemographicsCountOnce` | any responses: the groups of a column add up to those who said something |
| | `QueuesHoldRequests`, `ArchiveMeetsOverview` | any requests, studies and reports: the supervisors' counts are the owners' and requesters' queues; a current study is in nobody's archive |
| `ViewsProofs` | `ReportTellsOneStoryHolds`, `RolesDivideTheWorkHolds` | `ReportTellsOneStory`, `RolesDivideTheWork` |
| | `HeaviestRankFirst` | any need records and weights: those measured are ranked, each once, none above a heavier one |
| | `BothWaysToADomain` | any bank, whatever it has lost since: tree and rollups give a domain the same severity unless a question of it was lost |
| | `ObservationsHaveGrounds` | any needs: an observation that is more than weak is of two domains and never provisional, and needs of one band are observed together |
| | `InequalityWasMeasured`, `InequalityIsClaimed` | any groups: a claim names the worst of groups large enough that differ by the threshold, and where they do it is made |
| | `ExportsHoldAll` | any responses, whatever is submitted meanwhile, batches of any size: an export holds all that were stored, newest first, none twice |
| `FilesProofs` | `RowsReadBackHolds` | `RowsReadBack` |
| | `TablesReadBack` | any table of trimmed cells with something in every row is read back from its file exactly, commas, quotes and line breaks in the cells included |
| | `RowsKeepTheirKey` | any row: imported again it has the key of the need that was stored of it |
| | `ChunksLoseNothing` | any text, any size: the chunks hold every character that is not blank, in its place |
| | `AnswersStandOnce` | any versions of a survey, any answers: each text has one column, with the answer it was given if it was answered in one version |

Every invariant and every action property of the runs that pass is thereby proved, and both
refinements.

Assumptions: only those the modules name. `NoSurvey` and `None` are not
identifiers, `MaxAttempts` and `MaxFailed` are positive, bounds are numbers,
every link belongs to a need. In `MCOrganisation`, `RowsAssumption` says that
foreign keys name rows, that identifiers of different tables differ and that
"all" is no village, "live" no snapshot and the studies and needs that select geography are closed under
the foreign key; `ValuesAssumption` that limits are numbers, batches and chunks
are not empty and what is counted is finite. TLC evaluates them in the runs. The
general theorems of `TablesProofs`, `ViewsProofs` and `FilesProofs` state their hypotheses: a bank is a tree (what
is below one name is below no other: so is the methodology's bank, whose four name
columns do not force it), severities are from 0 to 100, weights are positive, a look-up
rates what it does not exclude and gives a number a floor below its ceiling,
responses have identifiers of their own, the limit of an export is no smaller than the number of
responses there will be, a printed cell has no blank at its ends (the reader trims it) and a
printed row is not empty (the reader skips it). The inputs of the runs are
proved to satisfy them, so that the theorem about every input a run enumerates is an
instance of the general one wherever there is one.

### State machines

The safety properties are not inductive: at the moment of a write they need
what the request has read. So each invariant adds, per step of a worker, what its
checks have established *and no other request can take away*:

* surveys: `RequestInv` – a request about to publish has read a row whose
  `approvedAt` is set, one about to submit a row with a methodology version, one
  about to insert a version a published predecessor. Status itself cannot be in
  it: that is what another request may change;
* citizens: `ClaimsOwned` – a row claimed in an open transaction belongs to the
  one request that is checking or inserting for it, is not consumed and has no
  response; `RequestsFiled` – a request works on a session of its own link;
* needs: `FutureUndecided`, `PicksExist` – decisions are only decided once made;
* accounts: `LoginsAreOlder`, `TokensFromThePast` – a login about to be answered
  has read a version in which the account was not disabled, and tokens are never ahead;
* reports: `BegunInOrder` – who has read a submitted report may rely on its
  confirmation, who has read a released one on its review;
* compiled report: `NcnpInv` – a desk about to release has read a snapshot
  that was reviewed, and `reviewedAt` is never cleared;
* evidence: `OwnFiles` – the files a request may take off the disk are its own: of
  no other request, and of no row but those it has committed without knowing;
* geography: `IntentsFit` – what a request is about to write fits together, the lists it does not
  name are those the row still has unless another patch has written them, and a selection about to be
  written is within that of the row above unless that one has lost something;
* studies: `ArchiveInv` – no identifier comes back, so a request to archive keeps
  the report it counted (`Reported`: released, or taken back since) or its study is gone for good. The next cycle number is above
  every one in use, because a finite set of numbers has a greatest;
* narratives: `DrawsOnPapers` – a combined narrative only names documents as sources;
* the buffer of the logs: `LogInv` – an event that waits has a timer or a flight; the purge,
  the limiter, the settings, the members and the domains have an invariant each.

Some properties hold only until two requests overlap; `overlapped` remembers
that they did. For them a second, *calm* invariant holds while `~overlapped`: at
most one request is in flight, what it has read still holds (`StillAsRead`,
`StepAllows`, `IntakeCalm` and the like), and so its write finds what it checked. For
rollups it also says how far a recalculation has come (`ScoringCalm`,
`RollupsCalm`): what it has counted is what there was when it started. The
refinement of `LiveSurvey` follows from `LiveOnce` and `InLine` – one live row per chain, and
everything behind it retired.

`MCNext` moves one part of the workspace and leaves the others. `WorkspaceInv` is
`Always /\ (~overlapped => Calm)`, the conjunction of the parts' invariants; each
part has its lemma for its own step and one that a step elsewhere keeps it.

There is one lemma per group of handlers, `NextPreserves` (or its like) puts them
together, and the theorems follow by temporal logic.

### Functions

The sums behind a rollup, a priority and a set of options are folds that take one
element after another out of a set. No induction over data is available as a rule of the
provers, so `TablesProofs` argues with the least number for which a fact fails
(`LeastOf`): a fold exists for every finite set (`FoldExists`), what every
step keeps holds of the whole (`FoldStays`), and a fold whose every element is between
`lo` and `hi` times its weight is itself (`FoldWithin`). A quotient of two such
folds is within the bounds (`QuotientWithin`), hence the means of a level; `UpFits`
carries "within the scores below, and absent where there are none" (`Fits`) from one level to
the next. That every copy names *the* original (`CopiesNameTheOriginal`) is the least
position of equal responses.

An order exists wherever the comparison is strict (`Strict`: irreflexive and transitive): among
rows not yet placed there is one that nothing goes before, and the least number of rows that
could not be ordered would be one fewer than itself. What `CHOOSE` picks is then known to
hold every row once and to contradict no comparison, which is all that
`HeaviestRankFirst`, `MostUrgentFirst`, `VillagesCountedOnce` and the exports need: none of
them depends on how ties come out.

A left fold over a sequence passes through a state for every prefix (`Leads`), so what holds
at the beginning and is handed on from character to character holds at the end (`Upwards`).
`TablesReadBack` follows the reader of CSV through a printed file in this way: through a
plain cell, through a quoted one, where a doubled quote stands for one, over the comma or the
line break after it, cell by cell and row by row. Splitting villages, filtering,
writing chunks and numbering columns are led through the same way. `ChunksLoseNothing` cuts
the text at multiples of the size, and what a filter keeps of a
concatenation is what it keeps of the parts. `ExportsHoldAll` has an invariant of the batches: what has
been read is what goes before the last row read, in order, of a
table that only grows.

In these modules the arms of a CASE are disjoint: TLC takes the first that holds, the
logic any of them.

Only model-checked:

* liveness and fairness (`EveryRequestAnswered`);
* the behaviours that violate a property.

Proved for the inputs of the runs and for no others: the parts of `RowsReadBack` on
survey documents and on the sheets of an import, those of `ReportTellsOneStory` on coverage and
executive summary, and `RolesDivideTheWork`, whose matrix is one closed table. The proofs
of these go through each kind of input; they do not rest on TLC.

## 5. Not modelled, and why

* *Wording and layout*: texts, both languages, the PDF, Excel and DOCX builders,
  the order of columns. What they print is in `ReportContent`, `ReportPatterns`,
  `NcnpReport` and `ResponseExport`.
* *The AI gateway*, mailers and SMS: an await that answers, declines or fails. The second call that
  `parseSurveyDocumentNeeds` makes when its first answer is of no use is not told from the first, and
  `splitCombinedNeedItems` copies a reference id to every part that `DocumentRows` does not keep.
* *A Redis command that answers an error by itself* (`?? 1` at
  `common/guards/rate-limit.guard.ts:61` takes it for a first request): in `RateLimiter` Redis answers or it does not.
* *Tenancy*: row-level security is a policy of the database and would only remove
  behaviours. In the state machines every caller of a handler is taken to be allowed
  to call it; `Access` says who is.
* *The audit trail*: rows written after the change has been committed. The one
  reader is a count in the kingdom-wide report.
* *Consent, contact forms, questions, the registry look-up*: single-row creates and
  look-ups without a workflow.
* *Infrastructure, schema, migrations, seeds and import scripts*: the unique indexes and
  foreign keys that the modules rely on are part of the actions they guard.
* Partly modelled: surveys without `submitSurvey`, whose answers only its own
  statistics read; reports without their creation and listing; public links
  without their creation and e-mail; composition without language and layout.

## 6. What is left

1. Proofs: coverage, executive summary and survey documents for any input, as the other parts of
   the tables are.
2. One abstract specification of a two-step release that `ReportRelease`,
   `NcnpReview` and the sharing of studies implement.
3. `submitSurvey` and the creation of reports, as actions of `SurveyLifecycle` and
   `ReportRelease`.
4. The kingdom-wide report read in two snapshots between which a village is
   assessed.
