----------------------------- MODULE MCComponents -----------------------------
(* The components that have no run of their own, each by itself: a        *)
(* behaviour is one of the component in focus, and the others rest.       *)
EXTENDS ContextWindow, SessionStore, RunStore, Decisions, Places, ThinkTags, ModelCall,
        Memory, Settings, RamDisks, Backup, Questions, Quota, PlanSteps, Notifications, TLC

CONSTANTS key, volatile

VARIABLE focus

-----------------------------------------------------------------------------
Components == {"context", "store", "runs", "decisions", "places", "tags", "model", "memory",
               "settings", "disks", "backup", "questions", "quota", "plans", "notices"}

(* Words of channels: thinking in two parts, and the answer.               *)
HiddenWords == {<<"ana", "lysis">>}
AnswerWords == {<<"final">>}

(* What the provider means to say.                                         *)
Answer == [f \in Fields |-> 2]

(* A session that names the scope of the isolated project, and a session   *)
(* of that project which names the scope of everybody.  The operator       *)
(* writes to either project.                                               *)
Speaking == {[project |-> "home", isolated |-> FALSE, override |-> ProjectScope("secret")],
             [project |-> "secret", isolated |-> TRUE, override |-> AgentScope]}
OperatorWrites == {ProjectScope("home"), ProjectScope("secret")}
SameInOtherWords == {<<"n1", "n2">>}

(* Two things to tell of a session that must not reach the disk, one of a  *)
(* session that may, and an update.                                        *)
SubjectsOf == "v1" :> "hidden" @@ "v2" :> "hidden" @@ "s1" :> "talk" @@ "update" :> ""

componentsVars == <<focus, contextVars, storeVars, runStoreVars, decisionVars, placeVars,
                    tagVars, modelVars, memoryVars, settingsVars, diskVars, backupVars,
                    questionVars, quotaVars, planStepVars, noticeVars>>

ComponentsInit ==
    /\ focus \in Components
    /\ ContextInit /\ StoreInit /\ RunStoreInit /\ DecisionsInit /\ PlacesInit
    /\ TagsInit /\ ModelInit /\ MemoryInit /\ (focus # "memory" => spaceOn)
    /\ SettingsInit /\ RamDisksInit /\ BackupInit /\ QuestionInit /\ QuotaInit
    /\ PlanStepsInit /\ (focus # "plans" => ~lockPlans)
    /\ NoticesInit /\ (focus # "notices" => noticesEnabled)
    /\ focus # "places" => \A p \in Ephemeral : project[p] = New

ComponentsNext ==
    /\ UNCHANGED focus
    /\ IF focus = "context" THEN ContextNext ELSE UNCHANGED contextVars
    /\ IF focus = "store" THEN StoreNext ELSE UNCHANGED storeVars
    /\ IF focus = "runs" THEN RunStoreNext ELSE UNCHANGED runStoreVars
    /\ IF focus = "decisions" THEN DecisionsNext ELSE UNCHANGED decisionVars
    /\ IF focus = "places" THEN PlacesNext ELSE UNCHANGED placeVars
    /\ IF focus = "tags" THEN TagsNext ELSE UNCHANGED tagVars
    /\ IF focus = "model" THEN ModelNext ELSE UNCHANGED modelVars
    /\ IF focus = "memory" THEN MemoryNext ELSE UNCHANGED memoryVars
    /\ IF focus = "settings" THEN SettingsNext ELSE UNCHANGED settingsVars
    /\ IF focus = "disks" THEN RamDisksNext ELSE UNCHANGED diskVars
    /\ IF focus = "backup" THEN BackupNext ELSE UNCHANGED backupVars
    /\ IF focus = "questions" THEN QuestionNext ELSE UNCHANGED questionVars
    /\ IF focus = "quota" THEN QuotaNext ELSE UNCHANGED quotaVars
    /\ IF focus = "plans" THEN PlanStepsNext ELSE UNCHANGED planStepVars
    /\ IF focus = "notices" THEN NoticesNext ELSE UNCHANGED noticeVars

ComponentsSpec == ComponentsInit /\ [][ComponentsNext]_componentsVars

ComponentsTypeOK ==
    /\ focus = "context" => ContextTypeOK
    /\ focus = "store" => StoreTypeOK
    /\ focus = "runs" => RunStoreTypeOK
    /\ focus = "decisions" => DecisionsTypeOK
    /\ focus = "places" => PlacesTypeOK
    /\ focus = "tags" => TagsTypeOK
    /\ focus = "model" => ModelTypeOK
    /\ focus = "memory" => MemoryTypeOK
    /\ focus = "settings" => SettingsTypeOK
    /\ focus = "disks" => RamDisksTypeOK
    /\ focus = "backup" => BackupTypeOK
    /\ focus = "questions" => QuestionTypeOK
    /\ focus = "quota" => QuotaTypeOK
    /\ focus = "plans" => PlanStepsTypeOK
    /\ focus = "notices" => NoticesTypeOK

(* What a session's files say of its past holds: the entries of its log    *)
(* are in the order they came in, and the steps of its plans were done, in *)
(* order, and looked at.                                                   *)
PastHolds == NumbersAscend /\ StepsAreEarned

(* What was recorded is kept as long as it is said to be: the records of   *)
(* runs and their requests, and the notices of what happened.              *)
RecordsHold == KeptOrDropped /\ NoticesHold

(* What people decide is what takes effect: the approvals of tool calls,   *)
(* and the answers to questions.                                           *)
PeopleDecide == AcceptedTakesEffect /\ QuestionsHold

(* What the provider did is what the program says of it: the answers of    *)
(* the model, and the quota of the account and the credits spent on it.    *)
ProviderIsTrue == AnswerIsTrue /\ QuotaHolds
=============================================================================
