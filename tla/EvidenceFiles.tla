---------------------------- MODULE EvidenceFiles ----------------------------
(***************************************************************************)
(* The evidence attached to one need (EvidenceService) and its files on    *)
(* disk (EvidenceStorageService).  The database and the disk share no      *)
(* transaction: a file is written before its row and removed after it, and *)
(* the process may stop, or the connection to the database break, anywhere *)
(* between.                                                                *)
(***************************************************************************)
EXTENDS Naturals, FiniteSets

CONSTANTS
    Files,        \* storage keys
    MaxEvidence,  \* MAX_EVIDENCE_FILES_PER_STUDY
    Uploaders     \* requests in flight

VARIABLES
    stage,     \* Need.status, as far as evidence goes
    disk,      \* the files on disk
    evidence,  \* the files that have a row
    unseen,    \* history: files whose rows were committed without an answer
    upload     \* what each request has checked and saved so far

Quiet == [step |-> "idle", wanted |-> {}, saved |-> {}]

evidenceVars == <<stage, disk, evidence, unseen, upload>>

TypeOK ==
    /\ stage \in {"draft", "evidence_submitted", "approved"}
    /\ disk \subseteq Files
    /\ evidence \subseteq Files /\ unseen \subseteq Files
    /\ upload \in [Uploaders -> [step : {"idle", "counting", "saving", "failing", "unlinking"},
                                 wanted : SUBSET Files, saved : SUBSET Files]]

Init ==
    /\ stage = "draft"
    /\ disk = {} /\ evidence = {} /\ unseen = {}
    /\ upload = [u \in Uploaders |-> Quiet]

-----------------------------------------------------------------------------
\* EVIDENCE_EDITABLE_STATUSES
EvidenceEditable == stage # "approved"

\* A storage key is used once.
InUse == disk \cup evidence \cup unseen \cup UNION {upload[u].wanted : u \in Uploaders}

Step(u, s, wanted, saved) ==
    upload' = [upload EXCEPT ![u] = [step |-> s, wanted |-> wanted, saved |-> saved]]

\* The files pass the checks of name, size and signature, the need those of
\* its status.
BeginUpload(u, fs) ==
    /\ upload[u] = Quiet
    /\ fs # {} /\ fs \cap InUse = {}
    /\ EvidenceEditable
    /\ Step(u, "counting", fs, {})
    /\ UNCHANGED <<stage, disk, evidence, unseen>>

\* Faulty: the files of this upload are not counted.
CountStored(u) ==
    /\ upload[u].step = "counting"
    /\ Cardinality(evidence) <= MaxEvidence
    /\ Step(u, "saving", upload[u].wanted, {})
    /\ UNCHANGED <<stage, disk, evidence, unseen>>

Count(u) ==
    /\ upload[u].step = "counting"
    /\ Cardinality(evidence) + Cardinality(upload[u].wanted) <= MaxEvidence
    /\ Step(u, "saving", upload[u].wanted, {})
    /\ UNCHANGED <<stage, disk, evidence, unseen>>

Save(u) ==
    /\ upload[u].step = "saving"
    /\ \E f \in upload[u].wanted \ upload[u].saved :
          /\ disk' = disk \cup {f}
          /\ Step(u, "saving", upload[u].wanted, upload[u].saved \cup {f})
    /\ UNCHANGED <<stage, evidence, unseen>>

\* Faulty: the rows are committed while files are still being written.
CommitEarly(u) ==
    /\ upload[u].step = "saving" /\ upload[u].saved # {}
    /\ evidence' = evidence \cup upload[u].wanted
    /\ Step(u, "idle", {}, {})
    /\ UNCHANGED <<stage, disk, unseen>>

\* All rows in one transaction, which looks at neither status nor count again.
Commit(u) ==
    /\ upload[u].step = "saving" /\ upload[u].saved = upload[u].wanted
    /\ evidence' = evidence \cup upload[u].wanted
    /\ Step(u, "idle", {}, {})
    /\ UNCHANGED <<stage, disk, unseen>>

\* The rows are committed, but the connection breaks before the answer comes:
\* the transaction has failed for all that upload can tell.
CommitUnseen(u) ==
    /\ upload[u].step = "saving" /\ upload[u].saved = upload[u].wanted
    /\ evidence' = evidence \cup upload[u].wanted
    /\ unseen' = unseen \cup upload[u].wanted
    /\ Step(u, "failing", upload[u].wanted, upload[u].saved)
    /\ UNCHANGED <<stage, disk>>

\* An error takes back the files written so far.
UploadFails(u) ==
    /\ upload[u].step \in {"counting", "saving", "failing"}
    /\ disk' = disk \ upload[u].saved
    /\ Step(u, "idle", {}, {})
    /\ UNCHANGED <<stage, evidence, unseen>>

-----------------------------------------------------------------------------
\* Faulty: the file goes first.
DeleteFileFirst(u, f) ==
    /\ upload[u] = Quiet
    /\ f \in evidence /\ EvidenceEditable
    /\ disk' = disk \ {f}
    /\ Step(u, "unlinking", {f}, {})
    /\ UNCHANGED <<stage, evidence, unseen>>

\* The status check and the deletion of the row are one transaction.
DeleteRow(u, f) ==
    /\ upload[u] = Quiet
    /\ f \in evidence /\ EvidenceEditable
    /\ evidence' = evidence \ {f}
    /\ Step(u, "unlinking", {f}, {})
    /\ UNCHANGED <<stage, disk, unseen>>

Unlink(u) ==
    /\ upload[u].step = "unlinking"
    /\ disk' = disk \ upload[u].wanted
    /\ Step(u, "idle", {}, {})
    /\ UNCHANGED <<stage, evidence, unseen>>

\* Submitting again changes nothing, whatever the status.
Submit ==
    /\ stage = "draft"
    /\ stage' = "evidence_submitted"
    /\ UNCHANGED <<disk, evidence, unseen, upload>>

\* The review of the need, see NeedClassification.
Approve ==
    /\ stage # "approved"
    /\ stage' = "approved"
    /\ UNCHANGED <<disk, evidence, unseen, upload>>

\* The process stops: every request is forgotten, the disk is as it is.
Crash ==
    /\ \E u \in Uploaders : upload[u] # Quiet
    /\ upload' = [u \in Uploaders |-> Quiet]
    /\ UNCHANGED <<stage, disk, evidence, unseen>>

Uploading(u) ==
    \/ \E fs \in SUBSET Files : BeginUpload(u, fs)
    \/ Count(u) \/ Save(u) \/ Commit(u) \/ CommitUnseen(u) \/ UploadFails(u)

Removing(u) == (\E f \in Files : DeleteRow(u, f)) \/ Unlink(u)

Next == (\E u \in Uploaders : Uploading(u) \/ Removing(u)) \/ Submit \/ Approve \/ Crash

Spec == Init /\ [][Next]_evidenceVars

-----------------------------------------------------------------------------
\* Whatever overlaps, fails or stops, every row can be downloaded, its file is
\* on disk: except for those an upload committed without getting the answer,
\* whose files it took back.  (upload, remove)
RowsHaveFiles == evidence \ unseen \subseteq disk

\* Until uploads overlap, a need has no more files than the limit.
WithinLimit == Cardinality(evidence) <= MaxEvidence

=============================================================================
