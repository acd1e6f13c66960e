------------------------ MODULE MethodologySettings ------------------------
(***************************************************************************)
(* The one row of methodology settings (MethodologyConfigService): read,   *)
(* patched with what the payload names, validated as a whole and written   *)
(* by id.  The row is made when it is missing.                             *)
(***************************************************************************)
EXTENDS Naturals, FiniteSets

CONSTANTS
    SettingRows,  \* MethodologyConfig identifiers
    Scale,        \* the severities a threshold may be
    Editors

VARIABLES
    thresholds,   \* MethodologyConfig.priorityThresholds
    settingOf,    \* "none", "draft" or "published"
    edit          \* what each editor has read

settingVars == <<thresholds, settingOf, edit>>

Bands == {"critical", "high", "medium", "equityHigh"}

\* The defaults: 80, 70, 40 and 50.
Defaults == [critical |-> 8, high |-> 7, medium |-> 4, equityHigh |-> 5]

Patches == [critical : Scale, high : Scale] \cup [medium : Scale, equityHigh : Scale]

Away == [row |-> {}, patch |-> {}, read |-> Defaults]

TypeOK ==
    /\ thresholds \in [SettingRows -> [Bands -> Scale]]
    /\ settingOf \in [SettingRows -> {"none", "draft", "published"}]
    /\ \A e \in Editors : edit[e].row \subseteq SettingRows

Init ==
    /\ thresholds = [r \in SettingRows |-> Defaults]
    /\ settingOf \in {[r \in SettingRows |-> "none"],
                      [r \in SettingRows |-> IF r = CHOOSE x \in SettingRows : TRUE
                                               THEN "draft" ELSE "none"]}
    /\ edit = [e \in Editors |-> Away]

-----------------------------------------------------------------------------
\* validateThresholds
Ordered(t) == t.critical > t.high /\ t.high > t.medium /\ t.equityHigh <= t.high

Merged(t, p) == [b \in Bands |-> IF b \in DOMAIN p THEN p[b] ELSE t[b]]

Current == {r \in SettingRows : settingOf[r] # "none"}

\* findRowOrThrow: any row there is, or else a new one.
Heal(e) ==
    /\ edit[e] = Away /\ Current = {}
    /\ \E r \in SettingRows :
          /\ settingOf' = [settingOf EXCEPT ![r] = "draft"]
          /\ thresholds' = [thresholds EXCEPT ![r] = Defaults]
    /\ UNCHANGED edit

BeginUpdate(e) ==
    /\ edit[e] = Away
    /\ \E r \in Current, p \in Patches :
          /\ Ordered(Merged(thresholds[r], p))
          /\ edit' = [edit EXCEPT ![e] = [row |-> {r}, patch |-> p, read |-> thresholds[r]]]
    /\ UNCHANGED <<thresholds, settingOf>>

\* Faulty: only what the patch names is written.
UpdateNamed(e) ==
    /\ edit[e] # Away
    /\ thresholds' = [r \in SettingRows |->
          IF r \in edit[e].row THEN Merged(thresholds[r], edit[e].patch) ELSE thresholds[r]]
    /\ edit' = [edit EXCEPT ![e] = Away]
    /\ UNCHANGED settingOf

\* All thresholds are written as they were read and patched; the status stays.
Update(e) ==
    /\ edit[e] # Away
    /\ thresholds' = [r \in SettingRows |->
          IF r \in edit[e].row THEN Merged(edit[e].read, edit[e].patch) ELSE thresholds[r]]
    /\ edit' = [edit EXCEPT ![e] = Away]
    /\ UNCHANGED settingOf

Publish ==
    /\ \E r \in Current : settingOf' = [settingOf EXCEPT ![r] = "published"]
    /\ UNCHANGED <<thresholds, edit>>

Next == (\E e \in Editors : Heal(e) \/ BeginUpdate(e) \/ Update(e)) \/ Publish

Spec == Init /\ [][Next]_settingVars

-----------------------------------------------------------------------------
\* However two editors overlap, the stored thresholds keep the order that
\* mapPriorityLevel relies on: one of the two patches may be lost, but half of
\* each is never stored.  (update, validateThresholds)
ThresholdsOrdered == \A r \in Current : Ordered(thresholds[r])

=============================================================================
