------------------------------- MODULE Access -------------------------------
(***************************************************************************)
(* Who may call what: the role matrix (rbac/role-matrix.ts), the guards a  *)
(* request passes (RateLimitGuard, JwtAuthGuard, CsrfGuard,                *)
(* PermissionGuard, in this order), and the permission every route of the  *)
(* controllers asks for.  A role is the set of <<module, action>> it was   *)
(* granted; a route is named by its handler.                               *)
(***************************************************************************)
EXTENDS FiniteSets

Grant(module, actions)   == {<<module, a>> : a \in actions}
Grants(modules, actions) == UNION {Grant(m, actions) : m \in modules}
View(modules)            == {<<m, "read">> : m \in modules}

RW  == {"read", "write"}
RWC == {"read", "write", "create"}
All == {"read", "write", "create", "approve", "export", "share"}

ngo_admin ==
    View({"methodologyQuestionBank"})
      \cup Grant("entityTeam", RWC)
      \cup Grants({"onboardingConsent", "dataImport", "citizenChannel", "aiReview"}, All)
      \cup Grant("studySurvey", RWC \cup {"export", "share"})
      \cup Grant("dataCollection", RWC \cup {"export"})
      \cup Grant("priorityScoring", {"read", "export"})
      \cup Grant("reportsDashboards", {"read", "export", "share"})
      \cup Grant("archiveSharingAudit", {"read", "create", "approve"})
      \cup Grant("surveyBuilder", RWC \cup {"export"})

ngo_research_officer ==
    View({"entityTeam", "methodologyQuestionBank", "priorityScoring"})
      \cup Grants({"studySurvey", "dataCollection", "dataImport", "reportsDashboards", "surveyBuilder"}, RWC)
      \cup Grant("aiReview", RW)

field_researcher ==
    View({"entityTeam", "methodologyQuestionBank", "reportsDashboards"})
      \cup Grants({"studySurvey", "dataCollection", "surveyBuilder"}, RWC)

human_reviewer ==
    View({"entityTeam", "methodologyQuestionBank", "dataImport", "citizenChannel", "priorityScoring"})
      \cup Grants({"studySurvey", "dataCollection", "aiReview"}, {"read", "approve"})
      \cup Grant("reportsDashboards", {"read", "approve", "export"})
      \cup Grant("surveyBuilder", {"read", "write", "approve"})

\* Faulty: the analyst, who confirms reports, may also release the reports.
data_analyst_before ==
    View({"entityTeam", "methodologyQuestionBank", "studySurvey", "dataCollection", "surveyBuilder"})
      \cup Grant("dataImport", RWC) \cup Grant("aiReview", RW)
      \cup Grant("priorityScoring", RWC \cup {"approve", "export"})
      \cup Grant("reportsDashboards", All)

data_analyst ==
    View({"entityTeam", "methodologyQuestionBank", "studySurvey", "dataCollection", "surveyBuilder"})
      \cup Grant("dataImport", RWC) \cup Grant("aiReview", RW)
      \cup Grant("priorityScoring", RWC \cup {"approve", "export"})
      \cup Grant("reportsDashboards", RWC \cup {"export", "share"})

system_admin ==
    View({"onboardingConsent", "dataImport", "citizenChannel", "aiReview"})
      \cup Grant("entityTeam", RWC \cup {"export"})
      \cup Grants({"rolesPermissions", "methodologyQuestionBank"}, RWC)
      \cup Grants({"studySurvey", "dataCollection", "reportsDashboards", "surveyBuilder"}, All)
      \cup Grants({"priorityScoring", "archiveSharingAudit", "systemLogs"}, {"read", "export"})
      \cup Grant("ncnpReport", RW)

read_only_viewer ==
    View({"entityTeam", "methodologyQuestionBank", "studySurvey", "dataCollection", "dataImport",
          "aiReview", "priorityScoring", "reportsDashboards", "surveyBuilder"})

center_supervisor ==
    View({"entityTeam", "methodologyQuestionBank", "studySurvey", "dataCollection", "dataImport",
          "aiReview", "surveyBuilder"})
      \cup Grants({"priorityScoring", "reportsDashboards",
                                                        "archiveSharingAudit"}, {"read", "export"})

citizen_guest == Grant("citizenChannel", {"create"})

system_reviewer ==
    View({"entityTeam", "methodologyQuestionBank", "studySurvey", "dataCollection", "dataImport",
          "aiReview", "priorityScoring", "surveyBuilder"})
      \cup Grant("reportsDashboards", {"read", "export"})
      \cup Grant("ncnpReport", {"read", "approve"})

ROLE_MATRIX ==
    [ngo_admin |-> ngo_admin, ngo_research_officer |-> ngo_research_officer,
     field_researcher |-> field_researcher, human_reviewer |-> human_reviewer,
     data_analyst |-> data_analyst, system_admin |-> system_admin,
     read_only_viewer |-> read_only_viewer, center_supervisor |-> center_supervisor,
     citizen_guest |-> citizen_guest, system_reviewer |-> system_reviewer]

CrossEntity == {"system_admin", "center_supervisor", "system_reviewer"}
LoginRoles  == DOMAIN ROLE_MATRIX \ {"citizen_guest"}

\* can: no role, or a role that is not in the matrix, may do nothing.
can(role, permission) == role \in DOMAIN ROLE_MATRIX /\ permission \in ROLE_MATRIX[role]

-----------------------------------------------------------------------------
(***************************************************************************)
(* The routes.                                                             *)
(***************************************************************************)
Nobody == <<"none", "session">>     \* a session is enough
Public == <<"none", "public">>

Ask(permission, handlers) == {<<h, permission>> : h \in handlers}

Surveys ==
    Ask(<<"surveyBuilder", "read">>, {"listSurveys", "getSurveyById", "getSurveyByNeedId",
            "listReusableCustomQuestions", "getSurveyResponses"})
      \cup Ask(<<"studySurvey", "read">>, {"getPublishedSurveyByNeedId", "listSurveyVersions"})
      \cup Ask(<<"surveyBuilder", "write">>, {"createEmptySurvey", "recommendQuestions",
            "updateQuestions", "setMethodologyVersion", "setSampleDescription", "submitForApproval"})
      \cup Ask(<<"surveyBuilder", "create">>, {"createNewVersion", "publishSurvey"})
      \cup Ask(<<"surveyBuilder", "approve">>, {"approveSurvey", "rejectSurvey"})
      \cup Ask(Nobody, {"getPublicSurvey", "submitSurvey"})

Authentication ==
    Ask(Public, {"login", "signup", "verifyRegistrationNumber", "forgotPassword", "resetPassword"})
      \cup Ask(Nobody, {"me", "logout", "acceptConsent", "changePassword"})

EvidenceDocuments ==
    Ask(<<"dataCollection", "create">>, {"uploadDocument"})
      \cup Ask(<<"dataCollection", "read">>, {"listDocuments", "getDetails", "getFile"})
      \cup Ask(<<"dataCollection", "write">>, {"toggleInclusion", "deleteDocument"})
      \cup Ask(<<"priorityScoring", "create">>, {"generateDocumentSummary"})
      \cup Ask(<<"priorityScoring", "write">>, {"updateDocumentSummary", "confirmDocumentSummary"})

EvidenceRoutes ==
    Ask(<<"dataCollection", "create">>, {"uploadEvidence"})
      \cup Ask(<<"dataCollection", "read">>, {"listEvidence"})
      \cup Ask(<<"dataCollection", "write">>, {"submitEvidence", "removeEvidence"})

SystemLogs ==
    Ask(<<"systemLogs", "read">>, {"listLogs", "getLogSummary", "getByRequest", "getLog"})
      \cup Ask(<<"systemLogs", "export">>, {"exportLogs"})

PublicSurveys ==
    Ask(<<"studySurvey", "read">>, {"listLinks", "shareLinkByEmail", "listResponses",
            "listResponsesWithAnswers", "listQuestionResponses", "getResponse"})
      \cup Ask(<<"studySurvey", "create">>, {"createLink"})
      \cup Ask(<<"studySurvey", "write">>, {"deactivateLink"})
      \cup Ask(<<"studySurvey", "export">>, {"exportResponses"})

Organizations ==
    Ask(Nobody, {"getCurrent"})
      \cup Ask(<<"entityTeam", "read">>, {"listAllOrganizations", "getOrganization",
            "listUsersForOrg", "getNgoAdminsForOrg"})
      \cup Ask(<<"entityTeam", "create">>, {"createWithAdmin"})
      \cup Ask(<<"entityTeam", "write">>, {"updateCurrent", "updateStatus", "approveOrganization",
            "createUserForOrg", "assignNgoAdmin", "updateUserRole", "updateUserStatus", "resendInvite"})

Priority ==
    Ask(<<"priorityScoring", "read">>, {"getLatest", "getSeverityDashboard", "getSeverityKpis",
            "getQuestionDetail", "getVillagePriority", "listPriorityScores"})
      \cup Ask(<<"priorityScoring", "create">>, {"scorePriority", "recalculate"})
      \cup Ask(<<"priorityScoring", "approve">>, {"approvePriority"})
      \cup Ask(<<"methodologyQuestionBank", "read">>, {"getMethodologyVersions"})
      \cup Ask(<<"methodologyQuestionBank", "create">>, {"createMethodologyVersion", "uploadLookups"})

PrioritySummaries ==
    Ask(<<"priorityScoring", "read">>, {"previewSnapshot", "getSummary", "getSavedSummariesList",
            "getSummaryHistory"})
      \cup Ask(<<"priorityScoring", "create">>, {"generateSummary"})
      \cup Ask(<<"priorityScoring", "write">>, {"saveDraftEdits", "saveSummary", "deleteSavedSummary"})
      \cup Ask(<<"priorityScoring", "approve">>, {"confirmSummary"})
      \cup Ask(<<"studySurvey", "write">>, {"toggleEvidenceInclusion"})
      \cup Ask(<<"reportsDashboards", "create">>, {"saveReportFromSummary"})

AiDecisions ==
    Ask(<<"aiReview", "write">>, {"classify", "retryClassification", "manualClassify"})
      \cup Ask(<<"aiReview", "read">>, {"listDecisions"})
      \cup Ask(<<"priorityScoring", "create">>, {"scoreDecision"})
      \cup Ask(<<"aiReview", "approve">>, {"approveDecision", "rejectDecision", "overrideDomain",
            "reviewDecision"})

Domains ==
    Ask(Public, {"listPublicDomains"})
      \cup Ask(<<"methodologyQuestionBank", "read">>, {"listDomains", "listDomainsWithSubDomains",
            "listSubDomains"})
      \cup Ask(<<"methodologyQuestionBank", "write">>, {"createDomain", "updateDomain",
            "activateDomain", "deactivateDomain", "createSubDomain", "updateSubDomain",
            "activateSubDomain", "deactivateSubDomain"})

NeedRoutes ==
    Ask(<<"dataCollection", "create">>, {"createNeed", "importNeeds", "previewPdf",
            "previewSurveyResults", "importBulk"})
      \cup Ask(<<"dataCollection", "read">>, {"listByStudyId", "getNeed"})
      \cup Ask(<<"dataCollection", "write">>, {"updateNeed", "removeNeed"})

NcnpReview ==
    Ask(<<"ncnpReport", "write">>, {"generateReview", "publishReview"})
      \cup Ask(<<"ncnpReport", "read">>, {"listReviews", "listReviewAlerts", "getReview", "exportReview"})
      \cup Ask(<<"ncnpReport", "approve">>, {"approveReview", "rejectReview"})

Reports ==
    Ask(<<"reportsDashboards", "create">>, {"createReport"})
      \cup Ask(<<"reportsDashboards", "read">>, {"listReports", "getReport"})
      \cup Ask(<<"reportsDashboards", "write">>, {"confirmReport"})
      \cup Ask(<<"reportsDashboards", "approve">>, {"approveReport", "rejectReport", "archiveReport"})
      \cup Ask(<<"reportsDashboards", "export">>, {"exportReport"})

CombinedReport ==
    Ask(<<"reportsDashboards", "read">>, {"getContext"})
      \cup Ask(<<"priorityScoring", "create">>, {"generateCombined"})
      \cup Ask(<<"priorityScoring", "write">>, {"updateCombined", "confirmCombined"})

StudyRoutes ==
    Ask(<<"studySurvey", "create">>, {"createStudy"})
      \cup Ask(<<"studySurvey", "read">>, {"listStudies", "getStudy"})
      \cup Ask(<<"studySurvey", "write">>, {"updateStudy", "removeStudy"})
      \cup Ask(<<"archiveSharingAudit", "write">>, {"archiveStudy", "restoreStudy"})

StudySharing ==
    Ask(<<"archiveSharingAudit", "create">>, {"requestStudy", "lookupOrganizations",
            "lookupStudiesForOrg"})
      \cup Ask(<<"archiveSharingAudit", "read">>, {"listShares", "getShare", "getSharedStudy"})
      \cup Ask(<<"archiveSharingAudit", "approve">>, {"approveShare", "rejectShare"})

ReportSharing ==
    Ask(<<"archiveSharingAudit", "create">>, {"requestReport", "lookupReportOwners",
            "lookupReportsForOrg"})
      \cup Ask(<<"archiveSharingAudit", "read">>, {"listReportShares", "getReportShare",
            "getSharedSnapshot"})
      \cup Ask(<<"archiveSharingAudit", "approve">>, {"approveReportShare", "rejectReportShare"})

AuditRoutes ==
    Ask(<<"archiveSharingAudit", "read">>, {"listAudit", "getAuditSummary", "getAuditEvent"})
      \cup Ask(<<"archiveSharingAudit", "export">>, {"exportAudit"})

NcnpReportRoutes      == Ask(<<"archiveSharingAudit", "read">>, {"getNcnpReport", "exportNcnpReport"})

Archive               == Ask(<<"archiveSharingAudit", "read">>, {"listArchive", "getArchiveDetail"})

SharingAlerts         == Ask(<<"archiveSharingAudit", "read">>, {"listSharingAlerts"})

SupervisorOverview    == Ask(<<"archiveSharingAudit", "read">>, {"getSupervisorOverview"})

ReviewerSla           == Ask(<<"surveyBuilder", "read">>, {"getSlaConfig", "listSlaAlerts"})

QuestionBank          == Ask(<<"surveyBuilder", "read">>, {"getDomainOptions", "getKpiOptions", "getQuestions"})

CollectiveDashboard   == Ask(<<"reportsDashboards", "read">>, {"getCollectiveDashboard"})

Quality ==
    Ask(<<"priorityScoring", "create">>, {"assess", "generateQualitySummary"})
      \cup Ask(<<"aiReview", "read">>, {"listQuality", "getQualitySummary"})

MethodologyConfig ==
    Ask(<<"methodologyQuestionBank", "read">>, {"getMethodology", "listVersionOptions"})
      \cup Ask(<<"methodologyQuestionBank", "write">>, {"updateMethodology", "publishMethodology"})

Roles     == Ask(<<"entityTeam", "read">>, {"listRoles"})

Users ==
    Ask(<<"entityTeam", "read">>, {"listUsers"})
      \cup Ask(<<"entityTeam", "create">>, {"inviteUser"})
      \cup Ask(<<"entityTeam", "write">>, {"updateUser", "removeUser"})

Consent   == Ask(Public, {"getActiveConsent"}) \cup Ask(<<"entityTeam", "read">>, {"getOrganizationConsent"})

Geography == Ask(Public, {"listRegions", "listGovernorates", "listCenters"})

Contact   == Ask(Public, {"listContactOrganizations", "submitContact"})

Citizens ==
    Ask(Public, {"resolveSurvey", "checkDuplicate", "requestOtp", "verifyOtp", "submitResponse"})

Routes ==
    UNION {Surveys, Authentication, EvidenceDocuments, EvidenceRoutes, SystemLogs, PublicSurveys,
           Organizations, Priority, PrioritySummaries, AiDecisions, Domains, NeedRoutes, NcnpReview,
           Reports, CombinedReport, StudyRoutes, StudySharing, ReportSharing, AuditRoutes,
           NcnpReportRoutes, Archive, SharingAlerts, SupervisorOverview, ReviewerSla, QuestionBank,
           CollectiveDashboard, Quality, MethodologyConfig, Roles, Users, Consent, Geography,
           Contact, Citizens}

Permission(handler) == (CHOOSE r \in Routes : r[1] = handler)[2]

-----------------------------------------------------------------------------
(***************************************************************************)
(* The guards, in the order of app.module.ts.  A call has the session of a *)
(* role or none, by cookie or by header, and may carry the CSRF token.     *)
(***************************************************************************)
Authenticated(call) == Permission(call.handler) = Public \/ call.role # "none"

csrfPasses(call) ==
    \/ ~call.enforced \/ call.safe \/ call.by # "cookie"
    \/ call.handler \in {"login", "signup", "verifyRegistrationNumber", "forgotPassword",
                         "resetPassword", "listPublicDomains", "submitContact",
                         "listContactOrganizations"}
    \/ call.token

permissionPasses(call) ==
    Permission(call.handler) \in {Nobody, Public} \/ can(call.role, Permission(call.handler))

Passes(call) == Authenticated(call) /\ csrfPasses(call) /\ permissionPasses(call)

\* The roles that get through to a handler.
Staff(handler) == {r \in LoginRoles : can(r, Permission(handler))}

-----------------------------------------------------------------------------
=============================================================================
