---------------------------- MODULE CommandProofs ----------------------------
(***************************************************************************)
(* Proofs about the commands that share no state: for each of them an      *)
(* inductive invariant, that it holds at the start, that every step keeps  *)
(* it, and that it says what the properties of the command say; then that  *)
(* all of it holds of the commands together (MCCommands!Spec), for any     *)
(* portal, files and options that the assumptions allow, and any number of *)
(* faults and of runs.                                                     *)
(***************************************************************************)
EXTENDS MCCommands, ImportProofs, TLAPS, WellFoundedInduction, FiniteSetTheorems

-----------------------------------------------------------------------------
(* site-init: where the command is tells what the portal has.               *)
SiteInv ==
  /\ decl \in SiteCases
  /\ sitePc \in {"start", "error", "checked", "blocked", "delete", "create", "verify", "failed",
                 "unclean", "recreated", "created", "off"}
  /\ made \in {NoSite, OldSite, Created}
  /\ ~decl.recreate /\ decl.exists => made = OldSite
  /\ LintErrors => made # Created
  /\ sitePc \in {"delete", "create"} => ~LintErrors
  /\ sitePc = "delete" => decl.recreate
  /\ sitePc = "create" => made = NoSite
  /\ sitePc \in {"verify", "created", "recreated"} => made = Created
  /\ sitePc \in {"created", "recreated"} => AppliedCleanly

\* A site that was there, one the command made, and none are told apart.
LEMMA SiteMade ==
  ASSUME decl \in SiteCases
  PROVE  /\ NoSite.by = "none" /\ OldSite.by = "user" /\ Created.by = "command"
         /\ NoSite # OldSite /\ Created # NoSite /\ Created # OldSite
BY SiteAssumption DEF NoSite, OldSite, Created

\* Before the first run of site creation the portal has what it had.
LEMMA SiteStarts ==
  ASSUME NEW pc \in {"start", "off"}, SiteStart(pc)
  PROVE  SiteInv
BY SiteMade DEF SiteStart, SiteInv

\* Each step keeps it.
LEMMA SiteKeeps ==
  ASSUME SiteInv, [SiteNext]_siteVars
  PROVE  SiteInv'
<1>1. /\ NoSite.by = "none" /\ OldSite.by = "user" /\ Created.by = "command"
      /\ NoSite # OldSite /\ Created # NoSite /\ Created # OldSite
  BY SiteMade DEF SiteInv
<1>2. decl' = decl
  BY DEF siteVars, SiteNext, SiteStep, PlanSite, DeleteSite, CreateSite, SiteFails, VerifySite, SiteAgain
<1>3. Created' = Created /\ (LintErrors' <=> LintErrors)
  BY <1>2 DEF Created, LintErrors
<1>4. CASE PlanSite
  BY <1>1, <1>2, <1>3, <1>4 DEF SiteInv, PlanSite, MayApply
<1>5. CASE DeleteSite
  BY <1>1, <1>2, <1>3, <1>5 DEF SiteInv, DeleteSite
<1>6. CASE CreateSite
  BY <1>1, <1>2, <1>3, <1>6 DEF SiteInv, CreateSite
<1>7. CASE VerifySite
  <2>1. made' = made /\ (AppliedCleanly' <=> AppliedCleanly)
    BY <1>2, <1>7 DEF VerifySite, AppliedCleanly, Pages, Menus, TemplatesThere
  <2> QED BY <1>1, <1>2, <1>3, <1>7, <2>1 DEF SiteInv, VerifySite
<1>8. CASE SiteFails
  BY <1>1, <1>2, <1>3, <1>8 DEF SiteInv, SiteFails, SiteFault
<1>9. CASE SiteAgain
  BY <1>1, <1>2, <1>3, <1>9 DEF SiteInv, SiteAgain
<1>10. CASE UNCHANGED siteVars
  <2>1. AppliedCleanly' <=> AppliedCleanly
    BY <1>10 DEF siteVars, AppliedCleanly, Pages, Menus, TemplatesThere
  <2> QED BY <1>3, <1>10, <2>1 DEF siteVars, SiteInv
<1> QED BY <1>4, <1>5, <1>6, <1>7, <1>8, <1>9, <1>10 DEF SiteNext, SiteStep

\* And it says what a created site is.
LEMMA SiteHolds == SiteInv => SiteIsFaithful
  BY SiteMade DEF SiteInv, SiteIsFaithful

-----------------------------------------------------------------------------
(* oauth install: what a run holds to at each of its places.                *)
\* What a run of each mode may hold to at its places.
OauthTypes ==
  /\ oauth \in OauthCases
  /\ oauthPc \in {"start", "disable", "copy", "gogo", "enable", "verify", "sanitize", "write", "done", "failed", "killed", "off"}
  /\ verdict \in {"none", "skipped", "unreachable", "verified", "rejected"}
  /\ oauthRuns \in Nat /\ app.id \in Nat /\ conf.id \in Nat
  /\ DOMAIN app = {"id", "secret", "scopes"}
  /\ oauthPc \notin {"start", "killed", "off"} => oauthRuns # 0
\* With a config file: what is given to the command is the pair of this run.
ConfigPlaces ==
  /\ oauthPc \in {"enable", "verify", "sanitize"} => oauth.mode = "config"
  /\ oauthPc \in {"verify", "sanitize"} => conf = Enabled /\ given = [id |-> oauthRuns, secret |-> oauthRuns, scopes |-> Scopes]
  /\ oauthPc \in {"disable", "copy", "gogo", "enable"} => verdict = "none"
\* A verified pair is a pair of this run that the portal accepts, and it ends disabled.
TokenHeld ==
  verdict = "verified" /\ oauthPc \in {"sanitize", "write", "done"} =>
    /\ oauth.mode = "config" /\ Accepted
    /\ given = [id |-> oauthRuns, secret |-> oauthRuns, scopes |-> Scopes]
    /\ conf \in {Enabled, Disabled}
    /\ oauthPc # "sanitize" => conf = Disabled
    /\ oauthPc = "done" /\ oauth.write => profile = given
\* Without a config file no flag is raised, and the app keeps what it had.
GogoPlaces ==
  /\ oauth.mode # "config" => /\ ~conf.enabled /\ ~taken.enabled /\ ~taken.rotate /\ taken.id = 0 /\ taken.secret = 0
                              /\ ~conf.rotate /\ conf.id = 0 /\ conf.secret = 0 /\ verdict = "none"
  /\ oauth.mode = "gogo" /\ oauthPc \in {"write", "done"} => given = app /\ app.id # 0
  /\ oauth.mode = "gogo" /\ oauthPc = "done" /\ oauth.write => profile = app
  /\ oauth.mode = "gogo" /\ oauth.app.id # 0 => app.id = oauth.app.id /\ app.secret = oauth.app.secret
  /\ oauth.mode = "unblock" /\ oauthPc \in {"write", "done"} => ~blocked
\* After a verification the activation flags are down again.
OauthInv ==
  /\ OauthTypes /\ ConfigPlaces /\ TokenHeld /\ GogoPlaces
  /\ verdict \in {"verified", "rejected"} /\ oauthPc \in {"write", "done"} => ~conf.enabled

\* Before an installation no pair is given out.
LEMMA OauthStarts ==
  ASSUME NEW pc \in {"start", "off"}, OauthStart(pc)
  PROVE  OauthInv
<1>1. /\ oauth.app.id \in Nat /\ DOMAIN oauth.app = {"id", "secret", "scopes"}
  BY OauthAssumption DEF OauthStart
<1> QED BY <1>1 DEF OauthStart, OauthInv, OauthTypes, ConfigPlaces, TokenHeld, GogoPlaces, Disabled

\* What the actions of a run keep, and what the portal does on its own.
LEMMA OauthPortalKeeps ==
  ASSUME OauthInv, Activate \/ StartOrStop
  PROVE  OauthInv'
<1> USE DEF OauthInv, OauthTypes, ConfigPlaces, TokenHeld, GogoPlaces
<1>1. UNCHANGED <<oauth, conf, profile, oauthPc, verdict, given, oauthRuns, blocked>>
  BY DEF Activate, StartOrStop, OauthFault
<1>2. Enabled' = Enabled /\ Disabled' = Disabled /\ Scopes' = Scopes
  BY <1>1 DEF Enabled, Disabled, Scopes
<1>3. CASE Activate
  <2>1. CASE ~conf.enabled
    <3>1. app' = app /\ taken' = conf
      BY <1>3, <2>1 DEF Activate
    <3>2. Accepted' <=> Accepted
      BY <1>1, <3>1 DEF Accepted
    <3>3. OauthTypes'
      BY <1>1, <3>1
    <3>4. ConfigPlaces'
      BY <1>1, <1>2
    <3>5. TokenHeld'
      BY <1>1, <1>2, <3>2
    <3>6. GogoPlaces'
      BY <1>1, <1>2, <3>1
    <3> QED BY <1>1, <3>3, <3>4, <3>5, <3>6
  <2>2. CASE conf.enabled
    <3>1. oauth.mode = "config" /\ app' = Installed0(conf, conf.scopes)
      BY <1>3, <2>2 DEF Activate
    <3>2. app'.id \in Nat /\ DOMAIN app' = {"id", "secret", "scopes"}
      BY <3>1 DEF Installed0, Or
    <3>3. OauthTypes'
      BY <1>1, <3>2
    <3>4. ConfigPlaces'
      BY <1>1, <1>2
    <3>5. TokenHeld'
      <4> SUFFICES ASSUME verdict = "verified", oauthPc \in {"sanitize", "write", "done"}
                   PROVE  TokenHeld'
        BY <1>1
      <4>1. oauthPc = "sanitize" /\ conf = Enabled /\ oauthRuns # 0
        BY <2>2 DEF Disabled
      <4>2. app'.id = app.id /\ app'.secret = oauthRuns
        BY <3>1, <4>1 DEF Installed0, Or, Enabled, Accepted
      <4>3. Accepted'
        BY <1>1, <4>2 DEF Accepted
      <4> QED BY <1>1, <1>2, <4>1, <4>3
    <3>6. GogoPlaces'
      BY <1>1, <3>1
    <3> QED BY <1>1, <3>3, <3>4, <3>5, <3>6
  <2> QED BY <2>1, <2>2
<1>4. CASE StartOrStop
  BY <1>1, <1>2, <1>4 DEF StartOrStop, OauthFault, Accepted
<1> QED BY <1>3, <1>4

\* Each step keeps it, those of the portal too.
LEMMA OauthKeeps ==
  ASSUME OauthInv, [OauthNext]_oauthVars
  PROVE  OauthInv'
<1> USE DEF OauthInv, OauthTypes, ConfigPlaces, TokenHeld, GogoPlaces
<1>1. CASE Begin
  BY <1>1 DEF Begin, portalVars
<1>2. CASE DisableFirst
  BY <1>2 DEF DisableFirst, portalVars, Disabled
<1>3. CASE CopyBundle
  BY <1>3, OauthAssumption DEF CopyBundle
<1>4. CASE GogoFails
  BY <1>4 DEF GogoFails, portalVars
<1>5. CASE RunGogo
  BY <1>5 DEF RunGogo, CarryOut, Unblocked, ParsedOutput, Installed0, Or, OauthFault
<1>6. CASE EnableConfig
  BY <1>6 DEF EnableConfig, portalVars, Enabled, Scopes
<1>7. CASE TryToken
  BY <1>7 DEF TryToken, portalVars, Accepted, OauthFault, Enabled, Scopes
<1>8. CASE Sanitize
  BY <1>8 DEF Sanitize, portalVars, Sanitized, Disabled, Scopes, Accepted
<1>9. CASE WriteProfile
  BY <1>9 DEF WriteProfile, portalVars, Persists, Disabled, Scopes, Accepted
<1>10. CASE OauthKilled \/ OauthAgain
  BY <1>10 DEF OauthKilled, OauthAgain, OauthFault, OauthEnded, portalVars
<1>11. CASE Activate \/ StartOrStop
  BY <1>11, OauthPortalKeeps
<1>12. CASE UNCHANGED oauthVars
  BY <1>12 DEF oauthVars, portalVars, Enabled, Disabled, Scopes, Accepted
<1> QED BY <1>1, <1>2, <1>3, <1>4, <1>5, <1>6, <1>7, <1>8, <1>9, <1>10, <1>11, <1>12 DEF OauthNext, OauthStep

\* And it says what a verified pair is.
LEMMA OauthHolds == OauthInv => OAuthIsHonest
  BY DEF OauthInv, OauthTypes, ConfigPlaces, TokenHeld, GogoPlaces, OAuthIsHonest, Works, Accepted, Disabled

-----------------------------------------------------------------------------
(* Batch imports: what the tasks of the portal have written.                *)
\* The tasks of the portal: items before "at" were tried, and written if none failed.
TaskRecords == [at : 0 .. Len(batch.items), failed : SUBSET Nat,
                status : {"none", "INITIAL", "STARTED", "COMPLETED", "FAILED"}]
\* One task for each run, in the order of the runs.
TaskTypes ==
  /\ batch \in BatchCases
  /\ batchPc \in {"start", "checked", "failed", "poll", "readBack", "timeout", "completed", "off"}
  /\ batchRuns \in Nat /\ DOMAIN tasks = 1 .. batchRuns /\ Len(tasks) = batchRuns
  /\ tasks \in Seq(TaskRecords)
\* A task without failures has written every item it has passed.
WrittenBy(r) ==
  LET t == tasks[r] IN
  t.failed = {} /\ t.status \in {"INITIAL", "STARTED", "COMPLETED"} =>
    /\ \A i \in 1 .. t.at : /\ batch.items[i].good /\ batch.items[i].erc \in DOMAIN written
                            /\ batch.insert => written[batch.items[i].erc] = r
    /\ t.status = "COMPLETED" => t.at = Len(batch.items)
\* A run that completed has read back a task that ended without failures.
BatchInv ==
  /\ TaskTypes
  /\ \A r \in 1 .. batchRuns : WrittenBy(r)
  /\ batchPc = "poll" => batchRuns # 0
  /\ batchPc \in {"readBack", "completed"} => batchRuns # 0 /\ answer = Task /\ Ended(answer)
  /\ batchPc = "completed" => answer.status # "FAILED" /\ answer.failed = {}
  /\ batch.check => tasks = <<>> /\ DOMAIN written = batch.existing
  /\ batchPc = "checked" => batch.check /\ ~(batch.insert /\ batch.lookup /\ Present_ # {})

\* The items of a task are those of its run.
LEMMA BatchItems ==
  ASSUME batch \in BatchCases
  PROVE  Len(batch.items) \in Nat /\ DOMAIN batch.items = 1 .. Len(batch.items)
BY BatchAssumption

\* What is known of each task.
LEMMA TaskTyped ==
  ASSUME TaskTypes
  PROVE  /\ Len(batch.items) \in Nat /\ batchRuns \in Nat
         /\ \A r \in DOMAIN tasks : r \in 1 .. batchRuns /\ tasks[r] \in TaskRecords
BY BatchItems DEF TaskTypes

\* Before the first run there is no task.
LEMMA BatchStarts ==
  ASSUME NEW pc \in {"start", "off"}, BatchStart(pc)
  PROVE  BatchInv
BY BatchItems DEF BatchStart, BatchInv, TaskTypes

\* A run appends a task, which has written nothing.
LEMMA TaskAppended ==
  ASSUME BatchInv, UNCHANGED <<batch, written>>, batchRuns' = batchRuns + 1, ~batch.check,
         NEW s \in {"none", "INITIAL"}, tasks' = Append(tasks, [at |-> 0, failed |-> {}, status |-> s]),
         batchPc' \in {"poll", "failed"}
  PROVE  BatchInv'
<1> DEFINE t == [at |-> 0, failed |-> {}, status |-> s]
<1>1. t \in TaskRecords /\ tasks \in Seq(TaskRecords) /\ Len(tasks) = batchRuns /\ batchRuns \in Nat
  BY BatchItems DEF BatchInv, TaskTypes, TaskRecords
<1>2. /\ tasks' \in Seq(TaskRecords) /\ Len(tasks') = batchRuns + 1
      /\ tasks'[batchRuns + 1] = t /\ \A r \in 1 .. batchRuns : tasks'[r] = tasks[r]
      /\ DOMAIN tasks' = 1 .. batchRuns + 1
  <2>1. tasks' = Append(tasks, t)
    OBVIOUS
  <2> HIDE DEF t
  <2> QED BY <1>1, <2>1
<1>3. TaskTypes'
  BY <1>1, <1>2 DEF BatchInv, TaskTypes, TaskRecords
<1>4. \A r \in 1 .. batchRuns : WrittenBy(r)'
  BY <1>2 DEF BatchInv, WrittenBy
<1>5. ASSUME NEW r, r = batchRuns + 1 PROVE WrittenBy(r)'
  BY <1>2, <1>5 DEF WrittenBy
<1>6. \A r \in 1 .. batchRuns' : WrittenBy(r)'
  BY <1>1, <1>4, <1>5
<1>7. batchRuns' # 0
  BY <1>1
<1> QED BY <1>3, <1>6, <1>7 DEF BatchInv

\* The portal takes one step of a task: what other tasks have written stays, and with INSERT who wrote it.
LEMMA TaskStepKeeps ==
  ASSUME BatchInv, NEW r \in DOMAIN tasks, TaskStep(r)
  PROVE  BatchInv'
<1> DEFINE i == tasks[r].at + 1
           t == tasks[r]
<1>1. /\ Len(batch.items) \in Nat /\ batchRuns \in Nat /\ r \in 1 .. batchRuns
      /\ t \in TaskRecords /\ t.status \in {"INITIAL", "STARTED"}
  BY TaskTyped DEF BatchInv, TaskStep
<1>2. /\ UNCHANGED <<batch, batchPc, answer, batchPolls, batchRuns, batchFaults>>
      /\ ~batch.check /\ ~Ended(t)
  <2>1. tasks # <<>>
    BY <1>1 DEF BatchInv, TaskTypes
  <2> QED BY <1>1, <2>1 DEF TaskStep, BatchInv, Ended
<1>3. PICK n : /\ tasks' = [tasks EXCEPT ![r] = n] /\ n \in TaskRecords
               /\ \/ i > Len(batch.items) /\ n = [t EXCEPT !.status = "COMPLETED"] /\ UNCHANGED written
                  \/ ~(i > Len(batch.items)) /\ ItemFails(i) /\ (n.failed # {} \/ n.status = "FAILED") /\ UNCHANGED written
                  \/ /\ ~(i > Len(batch.items)) /\ ~ItemFails(i) /\ n = [t EXCEPT !.at = i, !.status = "STARTED"]
                     /\ written' = [e \in DOMAIN written \cup {batch.items[i].erc} |->
                                      IF e = batch.items[i].erc THEN r ELSE written[e]]
  <2>1. CASE i > Len(batch.items)
    <3>1. tasks' = [tasks EXCEPT ![r] = [t EXCEPT !.status = "COMPLETED"]] /\ UNCHANGED written
      BY <2>1 DEF TaskStep
    <3> QED BY <1>1, <2>1, <3>1 DEF TaskRecords
  <2>2. CASE ~(i > Len(batch.items)) /\ ItemFails(i)
    <3> DEFINE n == [t EXCEPT !.at = i, !.failed = IF batch.continue THEN @ \cup {i} ELSE @,
                              !.status = IF batch.continue THEN "STARTED" ELSE "FAILED"]
    <3>1. tasks' = [tasks EXCEPT ![r] = n] /\ UNCHANGED written
      BY <2>2 DEF TaskStep
    <3>2. i \in 0 .. Len(batch.items) /\ i \in Nat
      BY <1>1, <2>2 DEF TaskRecords
    <3>3. n \in TaskRecords
      BY <1>1, <3>2 DEF TaskRecords
    <3>4. n.failed # {} \/ n.status = "FAILED"
      BY <1>1 DEF TaskRecords
    <3> QED BY <2>2, <3>1, <3>3, <3>4
  <2>3. CASE ~(i > Len(batch.items)) /\ ~ItemFails(i)
    <3>1. /\ tasks' = [tasks EXCEPT ![r] = [t EXCEPT !.at = i, !.status = "STARTED"]]
          /\ written' = [e \in DOMAIN written \cup {batch.items[i].erc} |->
                                      IF e = batch.items[i].erc THEN r ELSE written[e]]
      BY <2>3 DEF TaskStep
    <3>2. i \in 0 .. Len(batch.items)
      BY <1>1, <2>3 DEF TaskRecords
    <3> QED BY <1>1, <2>3, <3>1, <3>2 DEF TaskRecords
  <2> QED BY <2>1, <2>2, <2>3
<1>4. TaskTypes'
  BY <1>1, <1>2, <1>3 DEF BatchInv, TaskTypes, TaskRecords
<1>5. /\ tasks'[r] = n /\ \A q \in 1 .. batchRuns : q # r => tasks'[q] = tasks[q]
  BY <1>1, <1>3 DEF BatchInv, TaskTypes
<1>6. \A e : e \in DOMAIN written => /\ e \in DOMAIN written'
                                     /\ batch.insert => written'[e] = written[e]
  BY <1>3 DEF ItemFails
<1>7. ASSUME NEW q \in 1 .. batchRuns PROVE WrittenBy(q)'
  <2>1. CASE q # r
    BY <1>2, <1>5, <1>6, <2>1 DEF BatchInv, WrittenBy
  <2>2. CASE q = r /\ i > Len(batch.items)
    <3>1. t.at = Len(batch.items) /\ tasks'[r].at = t.at /\ tasks'[r].failed = t.failed
      BY <1>1, <1>3, <1>5, <2>2 DEF TaskRecords
    <3>2. WrittenBy(r)
      BY <1>1 DEF BatchInv
    <3> QED BY <1>1, <1>2, <1>6, <2>2, <3>1, <3>2 DEF WrittenBy
  <2>3. CASE q = r /\ ~(i > Len(batch.items)) /\ ItemFails(i)
    BY <1>1, <1>3, <1>5, <2>3 DEF WrittenBy
  <2>4. CASE q = r /\ ~(i > Len(batch.items)) /\ ~ItemFails(i)
    <3>1. /\ batch.items[i].good /\ batch.items[i].erc \in DOMAIN written'
          /\ batch.insert => written'[batch.items[i].erc] = r
      BY <1>3, <2>4 DEF ItemFails
    <3>2. n.at = i /\ n.failed = t.failed /\ n.status = "STARTED"
      BY <1>1, <1>3, <2>4 DEF TaskRecords
    <3>3. \A j \in 1 .. i : j \in 1 .. t.at \/ j = i
      BY <1>1 DEF TaskRecords
    <3> QED BY <1>1, <1>2, <1>5, <1>6, <2>4, <3>1, <3>2, <3>3 DEF BatchInv, WrittenBy
  <2> QED BY <2>1, <2>2, <2>3, <2>4
<1>8. batchPc \in {"readBack", "completed"} => Task' = Task
  BY <1>1, <1>2, <1>5 DEF BatchInv, Task
<1> QED BY <1>2, <1>4, <1>7, <1>8 DEF BatchInv, Ended

\* What a step of the command that leaves the tasks alone keeps.
LEMMA TasksStay ==
  ASSUME BatchInv, UNCHANGED <<batch, written, tasks, batchRuns>>,
         batchPc' \in {"start", "checked", "failed", "poll", "readBack", "timeout", "completed", "off"}
  PROVE  /\ TaskTypes' /\ \A r \in 1 .. batchRuns' : WrittenBy(r)'
         /\ batch.check => tasks' = <<>> /\ DOMAIN written' = batch'.existing
         /\ Task' = Task /\ Present_' = Present_
<1>1. TaskRecords' = TaskRecords
  BY DEF TaskRecords
<1>2. TaskTypes'
  BY <1>1 DEF BatchInv, TaskTypes
<1>3. \A r \in 1 .. batchRuns' : WrittenBy(r)'
  BY DEF BatchInv, WrittenBy
<1>4. Task' = Task /\ Present_' = Present_
  BY DEF Task, Present_, Ercs
<1> QED BY <1>2, <1>3, <1>4 DEF BatchInv

\* Each step keeps it, of the command and of the task.
LEMMA BatchKeeps ==
  ASSUME BatchInv, [BatchNext]_batchVars
  PROVE  BatchInv'
<1>1. CASE CheckBatch
  BY <1>1, TasksStay DEF CheckBatch, BatchInv
<1>2. CASE SubmitBatch
  BY <1>2, TaskAppended DEF SubmitBatch, Submitted, NoTask
<1>3. CASE SubmitFails
  BY <1>3, TaskAppended DEF SubmitFails, Submitted, NoTask
<1>4. CASE PollBatch
  BY <1>4, TasksStay DEF PollBatch, BatchInv, Ended
<1>5. CASE ReadBackBatch
  BY <1>5, TasksStay DEF ReadBackBatch, BatchInv, Ended, Applied
<1>6. CASE BatchRequestFails \/ BatchAgain
  BY <1>6, TasksStay DEF BatchRequestFails, BatchAgain, BatchFault, BatchInv
<1>7. CASE \E r \in DOMAIN tasks : TaskStep(r)
  BY <1>7, TaskStepKeeps
<1>8. CASE UNCHANGED batchVars
  <2>1. batchPc' = batchPc /\ answer' = answer /\ UNCHANGED <<batch, written, tasks, batchRuns>>
    BY <1>8 DEF batchVars
  <2> QED BY <2>1, TasksStay DEF BatchInv, TaskTypes, Ended
<1> QED BY <1>1, <1>2, <1>3, <1>4, <1>5, <1>6, <1>7, <1>8 DEF BatchNext, BatchStep

\* And it says what a completed batch is.
LEMMA BatchHolds == BatchInv => BatchIsFaithful
<1> SUFFICES ASSUME BatchInv PROVE BatchIsFaithful
  OBVIOUS
<1>1. Len(batch.items) \in Nat /\ DOMAIN batch.items = 1 .. Len(batch.items)
  BY BatchItems DEF BatchInv, TaskTypes
<1>2. CASE batchPc = "completed"
  <2>1. /\ Task.status = "COMPLETED" /\ Task.failed = {} /\ batchRuns \in 1 .. batchRuns
    BY <1>2 DEF BatchInv, TaskTypes, Ended
  <2>2. /\ \A i \in 1 .. Len(batch.items) : /\ batch.items[i].good /\ batch.items[i].erc \in DOMAIN written
                                            /\ batch.insert => written[batch.items[i].erc] = batchRuns
    BY <2>1 DEF BatchInv, WrittenBy, Task
  <2> QED BY <1>1, <1>2, <2>1, <2>2 DEF BatchIsFaithful, Ercs, Task
<1>3. CASE batchPc = "checked"
  BY <1>3 DEF BatchInv, BatchIsFaithful, Present_, Ercs
<1> QED BY <1>2, <1>3 DEF BatchIsFaithful

-----------------------------------------------------------------------------
(* Redirects: what is stored of a map that is valid.                        *)
\* A map that is written is valid; rows that are not to be written any more are stored.
OthersStay == \A s \in DOMAIN redir.remote : s \notin {Map[i].source : i \in DOMAIN Map} =>
                s \in DOMAIN stored /\ stored[s] = redir.remote[s]
\* What is no longer to do is stored, and a row to create has a source that is not.
RedirectInv ==
  /\ redir \in RedirectCases
  /\ redirPc \in {"start", "error", "checked", "write", "applied", "unserved", "failed", "off"}
  /\ OthersStay
  /\ redirPc = "write" =>
       /\ ~InvalidMap /\ todoRedirects \subseteq DOMAIN Map
       /\ \A i \in DOMAIN Map \ todoRedirects : Matches_(Map[i], stored)
       /\ \A i \in todoRedirects : Creates(i) => Map[i].source \notin DOMAIN stored
  /\ redirPc = "applied" => AllServed /\ \A i \in DOMAIN Map : Matches_(Map[i], stored)

\* A redirect map has a row for each row of its file but the header.
LEMMA MapRows ==
  ASSUME redir \in RedirectCases
  PROVE  DOMAIN Map \subseteq Nat \ {0} /\ DOMAIN Map = DOMAIN Rows
<1>1. PICK S : redir.rows \in Seq(S)
  BY RedirectAssumption
<1>2. ASSUME NEW r \in Seq(S), r # <<>>
      PROVE  DOMAIN Tail(r) \subseteq Nat \ {0}
  <2>1. Tail(r) \in Seq(S)
    BY <1>2
  <2> QED BY <2>1
<1>3. DOMAIN Rows \subseteq Nat \ {0}
  <2>1. DOMAIN redir.rows \subseteq Nat \ {0}
    BY <1>1
  <2> QED BY <1>1, <1>2, <2>1 DEF Rows, HasHeader
<1>4. DOMAIN Map = DOMAIN Rows
  BY DEF Map
<1> QED BY <1>3, <1>4

\* The sources of a valid map are different.
LEMMA SourcesDiffer ==
  ASSUME redir \in RedirectCases, ~InvalidMap, NEW i \in DOMAIN Map, NEW j \in DOMAIN Map, i # j
  PROVE  Map[i].source # Map[j].source
<1>1. i \in Nat \ {0} /\ j \in Nat \ {0}
  BY MapRows
<1>2. i \in 1 .. j - 1 \/ j \in 1 .. i - 1
  BY <1>1
<1> QED BY <1>2 DEF InvalidMap

\* Before the first run nothing is done.
LEMMA RedirectStarts ==
  ASSUME NEW pc \in {"start", "off"}, RedirectStart(pc)
  PROVE  RedirectInv
BY DEF RedirectStart, RedirectInv, OthersStay

\* One redirect is written.
LEMMA RedirectWritten ==
  ASSUME RedirectInv, redirPc = "write", NEW i \in todoRedirects, stored' = WithRedirect(i), redir' = redir
  PROVE  /\ OthersStay' /\ Map' = Map
         /\ \A j \in DOMAIN Map : j = i \/ (j \notin todoRedirects) => Matches_(Map[j], stored')
         /\ \A j \in todoRedirects \ {i} : Map[j].source \in DOMAIN stored' <=> Map[j].source \in DOMAIN stored
<1>1. Map' = Map /\ i \in DOMAIN Map
  BY DEF Map, Rows, HasHeader, RowOf, RedirectInv
<1>2. DOMAIN stored' = DOMAIN stored \cup {Map[i].source} /\ stored'[Map[i].source] = Target(Map[i])
  BY DEF WithRedirect
<1>3. \A s \in DOMAIN stored : s # Map[i].source => stored'[s] = stored[s]
  BY DEF WithRedirect
<1>4. \A j \in DOMAIN Map : j # i => Map[j].source # Map[i].source
  BY <1>1, SourcesDiffer DEF RedirectInv
<1>5. OthersStay'
  BY <1>1, <1>2, <1>3 DEF RedirectInv, OthersStay
<1>6. \A j \in DOMAIN Map : j = i \/ (j \notin todoRedirects) => Matches_(Map[j], stored')
  BY <1>1, <1>2, <1>3, <1>4 DEF RedirectInv, Matches_
<1> QED BY <1>1, <1>2, <1>4, <1>5, <1>6 DEF RedirectInv

\* Each step keeps it, those of others too.
LEMMA RedirectKeeps ==
  ASSUME RedirectInv, [RedirectNext]_redirVars
  PROVE  RedirectInv'
<1>1. redir' = redir
  BY DEF redirVars, RedirectNext, RedirectStep, PlanRedirects, WriteRedirect, ReadRedirects, RedirectFails, RedirectAgain
<1>2. Map' = Map /\ (InvalidMap' <=> InvalidMap)
  BY <1>1 DEF Map, Rows, HasHeader, RowOf, InvalidMap
<1>3. CASE PlanRedirects
  <2>1. stored' = stored /\ OthersStay'
    BY <1>1, <1>2, <1>3 DEF PlanRedirects, RedirectInv, OthersStay
  <2>2. todoRedirects' \subseteq DOMAIN Map /\ \A i \in DOMAIN Map \ todoRedirects' : Matches_(Map[i], stored)
    BY <1>3 DEF PlanRedirects
  <2>3. \A s \in planned'.create : s \notin DOMAIN stored
    BY <1>3 DEF PlanRedirects, Sources
  <2> QED BY <1>1, <1>2, <1>3, <2>1, <2>2, <2>3 DEF PlanRedirects, RedirectInv, Creates
<1>4. CASE WriteRedirect
  <2>1. PICK i \in todoRedirects : stored' = WithRedirect(i) /\ todoRedirects' = todoRedirects \ {i}
    BY <1>4 DEF WriteRedirect, NextRedirects
  <2>2. redirPc = "write" /\ redirPc' = "write" /\ planned' = planned
    BY <1>4 DEF WriteRedirect
  <2> QED BY <1>1, <1>2, <2>1, <2>2, RedirectWritten DEF RedirectInv, Creates
<1>5. CASE ReadRedirects
  <2>1. stored' = stored /\ OthersStay'
    BY <1>1, <1>2, <1>5 DEF ReadRedirects, RedirectInv, OthersStay
  <2>2. AllServed' <=> AllServed
    BY <1>1, <1>2, <2>1 DEF AllServed, ServesRow, Served
  <2> QED BY <1>1, <1>2, <1>5, <2>1, <2>2 DEF ReadRedirects, RedirectInv
<1>6. CASE RedirectFails
  <2>1. OthersStay'
    <3>1. CASE stored' = stored
      BY <1>1, <1>2, <3>1 DEF RedirectInv, OthersStay
    <3>2. CASE \E i \in NextRedirects : stored' = WithRedirect(i)
      BY <1>1, <1>6, <3>2, RedirectWritten DEF NextRedirects, RedirectFails
    <3> QED BY <1>6, <3>1, <3>2 DEF RedirectFails
  <2> QED BY <1>1, <1>6, <2>1 DEF RedirectFails, RedirectInv
<1>7. CASE RedirectAgain
  BY <1>1, <1>2, <1>7 DEF RedirectAgain, RedirectInv, OthersStay
<1>8. CASE UNCHANGED redirVars
  <2>1. UNCHANGED <<redir, stored, redirPc, todoRedirects, planned>>
    BY <1>8 DEF redirVars
  <2>2. (OthersStay' <=> OthersStay) /\ (AllServed' <=> AllServed)
    BY <1>2, <2>1 DEF OthersStay, AllServed, ServesRow, Served
  <2> QED BY <1>2, <2>1, <2>2 DEF RedirectInv, Creates
<1> QED BY <1>3, <1>4, <1>5, <1>6, <1>7, <1>8 DEF RedirectNext, RedirectStep

\* And it says what a reported import is.
LEMMA RedirectHolds == RedirectInv => RedirectsAreFaithful
  BY DEF RedirectInv, OthersStay, RedirectsAreFaithful, AllServed, ServesRow

-----------------------------------------------------------------------------
(* Style books.                                                             *)
LEMMA BookFound ==
  ASSUME Len(books) \in Nat, NEW id
  PROVE  LET I == {i \in 1 .. Len(books) : Answers(books[i], id)}
         IN  IF I = {} THEN FindBook(id) = 0 ELSE FindBook(id) \in I
<1> DEFINE I == {i \in 1 .. Len(books) : Answers(books[i], id)}
<1>1. FindBook(id) = IF I # {} THEN Min(I) ELSE 0
  BY DEF FindBook, SelectInSeq
<1>2. I # {} => Min(I) \in I
  <2>1. I \subseteq Nat
    OBVIOUS
  <2> HIDE DEF I
  <2> QED BY <2>1, LeastOf
<1> QED BY <1>1, <1>2


\* The style book of the file, by its place in the list; a book that was added is the last.
FileErc(i) == books[i].erc = bookFile.erc
\* What is stored is a list of style books.
StyleTypes ==
  /\ style \in StyleCases /\ bookFile \in StyleBooks /\ books \in Seq(StyleBooks)
  /\ stylePc \in {"start", "ready", "error", "checked", "add", "tokens", "name", "verify", "ok", "mismatch", "failed", "off"}
  /\ stylePc \in {"tokens", "name"} => found \in 1 .. Len(books)
\* A style book of another ERC is as it was, and ERCs stay different.
Untouched ==
  /\ Len(style.entries) <= Len(books)
  /\ \A i \in 1 .. Len(style.entries) : /\ books[i].erc = style.entries[i].erc
                                        /\ books[i].key = style.entries[i].key
                                        /\ ~FileErc(i) => books[i] = style.entries[i]
  /\ \A i \in 1 .. Len(books) : i > Len(style.entries) => books[i] = bookFile
  /\ \A i, j \in 1 .. Len(books) : books[i].erc = books[j].erc => i = j
\* Where the command is tells how much of the file the style book has.
StylePlaces ==
  /\ stylePc = "add" => \A i \in 1 .. Len(books) : ~FileErc(i)
  /\ stylePc \in {"tokens", "name"} =>
       /\ FileErc(found)
       /\ "tokens" \notin changes \/ stylePc = "name" => books[found].tokens = bookFile.tokens
       /\ "name" \notin changes => books[found].name = bookFile.name
  /\ stylePc \in {"verify", "ok", "mismatch"} =>
       \E i \in 1 .. Len(books) : FileErc(i) /\ books[i].tokens = bookFile.tokens /\ books[i].name = bookFile.name
  /\ stylePc = "ok" => \E i \in 1 .. Len(books) : FileErc(i) /\ Differences(books[i]) \subseteq {"theme"}
  /\ stylePc = "mismatch" => \E i \in 1 .. Len(style.entries) : FileErc(i) /\ books[i].key # bookFile.key
\* An alias, a book whose key or name is the ERC of the file, is out of its reach.
StyleInv ==
  /\ StyleTypes
  /\ stylePc \in {"start", "off"} => books = style.entries
  /\ ~AliasedBook => Untouched /\ StylePlaces

\* What is stored and what the file has.
LEMMA StyleTyped ==
  ASSUME StyleTypes
  PROVE  /\ Len(books) \in Nat /\ DOMAIN books = 1 .. Len(books) /\ \A i \in 1 .. Len(books) : books[i] \in StyleBooks
         /\ Len(style.entries) \in Nat /\ DOMAIN style.entries = 1 .. Len(style.entries)
         /\ \A i \in 1 .. Len(style.entries) : style.entries[i] \in StyleBooks
         /\ \A i, j \in 1 .. Len(style.entries) : style.entries[i].erc = style.entries[j].erc => i = j
         /\ style.file \in StyleBooks
<1>1. style.entries \in Seq(StyleBooks) /\ books \in Seq(StyleBooks) /\ style.file \in StyleBooks
  BY StyleAssumption DEF StyleTypes
<1>2. \A i, j \in DOMAIN style.entries : style.entries[i].erc = style.entries[j].erc => i = j
  BY StyleAssumption DEF StyleTypes
<1> QED BY <1>1, <1>2

\* Nothing has been touched before the first run.
LEMMA UntouchedAtFirst ==
  ASSUME StyleTypes, books = style.entries
  PROVE  Untouched
BY StyleTyped DEF Untouched, FileErc

\* Without an alias the file finds the style book of its ERC.
LEMMA FoundByErc ==
  ASSUME StyleTypes, Untouched, ~AliasedBook
  PROVE  \/ FindBook(bookFile.erc) = 0 /\ \A i \in 1 .. Len(books) : ~FileErc(i)
         \/ FindBook(bookFile.erc) \in 1 .. Len(books) /\ FileErc(FindBook(bookFile.erc))
<1> DEFINE I == {i \in 1 .. Len(books) : Answers(books[i], bookFile.erc)}
<1>1. IF I = {} THEN FindBook(bookFile.erc) = 0 ELSE FindBook(bookFile.erc) \in I
  BY BookFound, StyleTyped
<1>2. ASSUME NEW i \in 1 .. Len(books) PROVE Answers(books[i], bookFile.erc) <=> FileErc(i)
  <2>1. CASE i \in 1 .. Len(style.entries)
    BY <2>1, StyleTyped DEF Untouched, AliasedBook, Answers, FileErc
  <2>2. CASE i > Len(style.entries)
    BY <2>2, StyleTyped DEF Untouched, Answers, FileErc
  <2> QED BY <2>1, <2>2, StyleTyped
<1> QED BY <1>1, <1>2

\* Nor is the command anywhere.
LEMMA StyleStarts ==
  ASSUME NEW pc \in {"start", "off"}, StyleStart(pc)
  PROVE  StyleInv
<1>1. StyleTypes
  BY StyleAssumption DEF StyleStart, StyleTypes
<1> QED BY <1>1, UntouchedAtFirst DEF StyleStart, StyleInv, StylePlaces

\* A style book of the list.
LEMMA BookTyped ==
  ASSUME StyleTypes, NEW f \in 1 .. Len(books), NEW p \in {"tokens", "name"},
         books' = [books EXCEPT ![f][p] = bookFile[p]]
  PROVE  books' \in Seq(StyleBooks) /\ Len(books') = Len(books)
<1> DEFINE b == [books[f] EXCEPT ![p] = bookFile[p]]
<1>1. b \in StyleBooks
  BY StyleTyped DEF StyleTypes, StyleBooks
<1>2. books' = [books EXCEPT ![f] = b]
  OBVIOUS
<1> HIDE DEF b
<1> QED BY <1>1, <1>2, StyleTyped DEF StyleTypes

\* A style book is changed where it differs, or added at the end.
LEMMA BookChanged ==
  ASSUME StyleTypes, Untouched, UNCHANGED <<style, bookFile>>, NEW f \in 1 .. Len(books), FileErc(f),
         NEW p \in {"tokens", "name"}, books' = [books EXCEPT ![f][p] = bookFile[p]]
  PROVE  /\ books' \in Seq(StyleBooks) /\ Untouched' /\ Len(books') = Len(books) /\ FileErc(f)'
         /\ books'[f][p] = bookFile[p]
         /\ \A q \in {"tokens", "name", "key"} : q # p => books'[f][q] = books[f][q]
<1> DEFINE b == [books[f] EXCEPT ![p] = bookFile[p]]
<1>1. /\ b \in StyleBooks /\ b.erc = books[f].erc /\ b.key = books[f].key /\ b[p] = bookFile[p]
      /\ \A q \in {"tokens", "name", "key"} : q # p => b[q] = books[f][q]
  BY StyleTyped DEF StyleTypes, StyleBooks
<1>2. books' = [books EXCEPT ![f] = b]
  OBVIOUS
<1>3. /\ books' \in Seq(StyleBooks) /\ Len(books') = Len(books) /\ books'[f] = b
      /\ \A i \in 1 .. Len(books) : i # f => books'[i] = books[i]
  <2> HIDE DEF b
  <2> QED BY <1>1, <1>2, StyleTyped DEF StyleTypes
<1>4. f > Len(style.entries) => b = books[f]
  BY StyleTyped DEF Untouched, StyleTypes, StyleBooks
<1>5. Untouched'
  <2> HIDE DEF b
  <2>1. \A i \in 1 .. Len(books) : books'[i].erc = books[i].erc /\ books'[i].key = books[i].key
    BY <1>1, <1>3
  <2>2. \A i \in 1 .. Len(books) : FileErc(i)' <=> FileErc(i)
    BY <2>1 DEF FileErc
  <2>3. \A i \in 1 .. Len(style.entries) : /\ i \in 1 .. Len(books)
                                            /\ ~FileErc(i) => books'[i] = style.entries[i]
    BY <1>3, StyleTyped DEF Untouched
  <2>4. \A i \in 1 .. Len(books) : i > Len(style.entries) => books'[i] = bookFile
    BY <1>3, <1>4 DEF Untouched
  <2> QED BY <1>3, <2>1, <2>2, <2>3, <2>4 DEF Untouched
<1> QED BY <1>1, <1>3, <1>5 DEF FileErc

\* A style book added to the list.
LEMMA BookAdded ==
  ASSUME StyleTypes, Untouched, UNCHANGED <<style, bookFile>>, \A i \in 1 .. Len(books) : ~FileErc(i),
         books' = Append(books, bookFile)
  PROVE  /\ books' \in Seq(StyleBooks) /\ Untouched' /\ Len(books') = Len(books) + 1
         /\ books'[Len(books) + 1] = bookFile
<1>1. /\ books' \in Seq(StyleBooks) /\ Len(books') = Len(books) + 1 /\ books'[Len(books) + 1] = bookFile
      /\ \A i \in 1 .. Len(books) : books'[i] = books[i]
  BY StyleTyped DEF StyleTypes
<1>2. \A i \in 1 .. Len(books') : i \in 1 .. Len(books) \/ i = Len(books) + 1
  BY <1>1, StyleTyped
<1>3. \A i, j \in 1 .. Len(books') : books'[i].erc = books'[j].erc => i = j
  BY <1>1, <1>2 DEF Untouched, FileErc
<1>4. \A i \in 1 .. Len(style.entries) : i \in 1 .. Len(books)
  BY StyleTyped DEF Untouched
<1>5. \A i \in 1 .. Len(books') : i > Len(style.entries) => books'[i] = bookFile
  BY <1>1, <1>2 DEF Untouched
<1>6. Len(style.entries) <= Len(books')
  BY <1>1, StyleTyped DEF Untouched
<1> QED BY <1>1, <1>3, <1>4, <1>5, <1>6 DEF Untouched, FileErc

\* Steps that leave the list and the file alone.
LEMMA ListStays ==
  ASSUME StyleInv, UNCHANGED <<style, books, bookFile>>
  PROVE  /\ AliasedBook' <=> AliasedBook
         /\ ~AliasedBook => Untouched'
         /\ \A i \in 1 .. Len(books) : (FileErc(i)' <=> FileErc(i)) /\ Differences(books[i])' = Differences(books[i])
         /\ style' \in StyleCases /\ bookFile' \in StyleBooks /\ books' \in Seq(StyleBooks)
BY DEF StyleInv, StyleTypes, AliasedBook, Untouched, FileErc, Answers, Differences

\* Each step keeps it.
LEMMA StyleKeeps ==
  ASSUME StyleInv, [StyleNext]_styleVars
  PROVE  StyleInv'
<1>1. CASE ExportStyleBook
  <2>1. books = style.entries /\ UNCHANGED <<style, books>> /\ stylePc' \in {"error", "ready"}
    BY <1>1 DEF ExportStyleBook, StyleInv
  <2>2. bookFile' \in StyleBooks
    <3>1. CASE FindBook(style.key) = 0
      BY <1>1, <3>1 DEF ExportStyleBook, StyleInv, StyleTypes
    <3>2. CASE FindBook(style.key) # 0
      <4>1. FindBook(style.key) \in 1 .. Len(books)
        BY <3>2, BookFound, StyleTyped DEF StyleInv
      <4> QED BY <1>1, <3>2, <4>1, StyleTyped DEF ExportStyleBook, StyleInv
    <3> QED BY <3>1, <3>2
  <2>3. StyleTypes'
    BY <2>1, <2>2 DEF StyleInv, StyleTypes
  <2>4. Untouched'
    BY <2>1, <2>3, StyleTyped DEF Untouched, FileErc, StyleInv
  <2> QED BY <2>1, <2>3, <2>4 DEF StyleInv, StylePlaces
<1>2. CASE CompareBook
  <2>1. UNCHANGED <<style, books, bookFile>> /\ stylePc' \in {"error", "checked", "add", "tokens"}
    BY <1>2 DEF CompareBook
  <2>2. /\ found' = FindBook(bookFile.erc) /\ (found' # 0 => changes' = Differences(books[found']))
        /\ stylePc' = "add" => found' = 0
        /\ stylePc' = "tokens" => found' # 0
    BY <1>2 DEF CompareBook
  <2>3. found' # 0 => found' \in 1 .. Len(books)
    BY <2>2, BookFound, StyleTyped DEF StyleInv
  <2>4. StyleTypes'
    BY <2>1, <2>2, <2>3, ListStays DEF StyleTypes
  <2>5. ASSUME ~AliasedBook PROVE Untouched' /\ StylePlaces'
    <3>1. \/ FindBook(bookFile.erc) = 0 /\ \A i \in 1 .. Len(books) : ~FileErc(i)
          \/ FindBook(bookFile.erc) \in 1 .. Len(books) /\ FileErc(FindBook(bookFile.erc))
      BY <2>5, FoundByErc DEF StyleInv
    <3>2. stylePc' = "add" => (\A i \in 1 .. Len(books) : ~FileErc(i))'
      BY <2>1, <2>2, <2>3, <3>1, StyleTyped DEF FileErc, StyleInv
    <3>3. ASSUME stylePc' = "tokens"
          PROVE  /\ books[found'].erc = bookFile.erc
                 /\ "tokens" \notin changes' => books[found'].tokens = bookFile.tokens
                 /\ "name" \notin changes' => books[found'].name = bookFile.name
      BY <2>2, <3>1, <3>3, StyleTyped DEF Differences, FileErc, StyleInv
    <3>4. StylePlaces'
      BY <2>1, <3>2, <3>3 DEF StylePlaces, FileErc
    <3> QED BY <2>1, <2>5, <3>4, ListStays
  <2>6. stylePc' \notin {"start", "off"} /\ (AliasedBook' <=> AliasedBook)
    BY <2>1, ListStays
  <2> QED BY <2>4, <2>5, <2>6 DEF StyleInv
<1>3. ASSUME /\ stylePc = "add" /\ stylePc' \in {"verify", "failed"} /\ UNCHANGED <<style, bookFile>>
             /\ books' = Append(books, bookFile)
      PROVE  StyleInv'
  <2>1. books' \in Seq(StyleBooks)
    BY <1>3 DEF StyleInv, StyleTypes
  <2>2. AliasedBook' <=> AliasedBook
    BY <1>3 DEF AliasedBook, Answers
  <2>3. ASSUME ~AliasedBook PROVE Untouched' /\ StylePlaces'
    <3>1. /\ Untouched' /\ Len(books') = Len(books) + 1 /\ books'[Len(books) + 1] = bookFile /\ Len(books) \in Nat
      BY <1>3, <2>3, BookAdded, StyleTyped DEF StyleInv, StylePlaces
    <3> QED BY <1>3, <3>1 DEF StylePlaces, FileErc
  <2> QED BY <1>3, <2>1, <2>2, <2>3 DEF StyleInv, StyleTypes
<1>4. ASSUME NEW p \in {"tokens", "name"}, stylePc = p, UNCHANGED <<style, bookFile, found, changes>>,
             books' = books \/ (p \in changes /\ books' = [books EXCEPT ![found][p] = bookFile[p]]),
             \/ stylePc' = "failed"
             \/ /\ stylePc' = IF p = "tokens" THEN "name" ELSE "verify"
                /\ p \in changes => books' = [books EXCEPT ![found][p] = bookFile[p]]
      PROVE  StyleInv'
  <2>1. found \in 1 .. Len(books) /\ StyleTypes
    BY <1>4 DEF StyleInv, StyleTypes
  <2>2. books' \in Seq(StyleBooks) /\ Len(books') = Len(books)
    BY <1>4, <2>1, BookTyped DEF StyleTypes
  <2>3. StyleTypes'
    BY <1>4, <2>1, <2>2 DEF StyleTypes
  <2>4. AliasedBook' <=> AliasedBook
    BY <1>4 DEF AliasedBook, Answers
  <2>5. ASSUME ~AliasedBook PROVE Untouched' /\ StylePlaces'
    <3>1. /\ Untouched /\ FileErc(found)
          /\ "tokens" \notin changes \/ p = "name" => books[found].tokens = bookFile.tokens
          /\ "name" \notin changes => books[found].name = bookFile.name
      BY <1>4, <2>5 DEF StyleInv, StylePlaces
    <3>2. /\ Untouched' /\ books'[found].erc = bookFile.erc
          /\ \/ books' = books /\ (stylePc' = "failed" \/ p \notin changes)
             \/ /\ books'[found][p] = bookFile[p]
                /\ \A q \in {"tokens", "name", "key"} : q # p => books'[found][q] = books[found][q]
      <4>1. CASE books' = [books EXCEPT ![found][p] = bookFile[p]]
        BY <1>4, <2>1, <3>1, <4>1, BookChanged DEF FileErc
      <4>2. CASE books' = books /\ (stylePc' = "failed" \/ p \notin changes)
        BY <1>4, <3>1, <4>2 DEF Untouched, FileErc
      <4> QED BY <1>4, <4>1, <4>2
    <3>3. StylePlaces'
      <4>1. CASE stylePc' = "failed"
        BY <4>1 DEF StylePlaces
      <4>2. CASE stylePc' = "name" /\ p = "tokens"
        BY <1>4, <2>2, <3>1, <3>2, <4>2 DEF StylePlaces, FileErc
      <4>3. CASE stylePc' = "verify" /\ p = "name"
        BY <1>4, <2>1, <2>2, <3>1, <3>2, <4>3 DEF StylePlaces, FileErc
      <4> QED BY <1>4, <4>1, <4>2, <4>3
    <3> QED BY <3>2, <3>3
  <2> QED BY <1>4, <2>3, <2>4, <2>5 DEF StyleInv
<1>5. CASE AddBook
  BY <1>3, <1>5 DEF AddBook
<1>6. CASE UpdateTokens
  BY <1>4, <1>6 DEF UpdateTokens
<1>7. CASE UpdateName
  BY <1>4, <1>7 DEF UpdateName
<1>8. CASE VerifyBook
  <2>1. /\ UNCHANGED <<style, books, bookFile, found, changes>> /\ stylePc = "verify"
        /\ stylePc' \in {"ok", "mismatch"}
        /\ stylePc' = "ok" <=> StillPending = {}
    BY <1>8 DEF VerifyBook
  <2>2. StyleTypes' /\ (AliasedBook' <=> AliasedBook)
    BY <2>1, ListStays DEF StyleInv, StyleTypes
  <2>3. ASSUME ~AliasedBook PROVE Untouched' /\ StylePlaces'
    <3>1. PICK i \in 1 .. Len(books) : FileErc(i) /\ books[i].tokens = bookFile.tokens /\ books[i].name = bookFile.name
      BY <2>1, <2>3 DEF StyleInv, StylePlaces
    <3>2. Untouched /\ i = FindBook(bookFile.erc) /\ i # 0
      BY <2>3, <3>1, FoundByErc, StyleTyped DEF StyleInv, Untouched, FileErc
    <3>3. StillPending = Differences(books[i]) \ {"theme"}
      BY <3>2 DEF StillPending
    <3>4. Differences(books[i]) \subseteq {"theme"} \/ books[i].key # bookFile.key
      BY <3>1 DEF Differences
    <3>5. stylePc' = "ok" => Differences(books[i]) \subseteq {"theme"}
      BY <2>1, <3>3
    <3>6. stylePc' = "mismatch" => books[i].key # bookFile.key
      BY <2>1, <3>3, <3>4
    <3>7. books[i].key # bookFile.key => i \in 1 .. Len(style.entries)
      BY <3>2, StyleTyped DEF StyleInv, Untouched
    <3>8. StylePlaces'
      <4>1. FileErc(i)' /\ Differences(books[i])' = Differences(books[i])
        BY <2>1, <3>1 DEF FileErc, Differences
      <4> QED BY <2>1, <3>1, <3>5, <3>6, <3>7, <4>1 DEF StylePlaces
    <3> QED BY <2>1, <2>3, <3>8, ListStays
  <2> QED BY <2>1, <2>2, <2>3 DEF StyleInv
<1>9. ASSUME UNCHANGED <<style, books, bookFile>>, stylePc' \in {"failed", "ready"} PROVE StyleInv'
  <2>1. StyleTypes'
    BY <1>9 DEF StyleInv, StyleTypes
  <2> QED BY <1>9, <2>1, ListStays DEF StyleInv, StylePlaces
<1>10. CASE StyleFails
  <2>1. CASE stylePc = "add"
    BY <1>3, <1>9, <1>10, <2>1 DEF StyleFails
  <2>2. CASE stylePc = "verify"
    BY <1>9, <1>10, <2>2 DEF StyleFails
  <2>3. CASE stylePc \in {"tokens", "name"}
    BY <1>4, <1>10, <2>3 DEF StyleFails
  <2> QED BY <1>10, <2>1, <2>2, <2>3 DEF StyleFails
<1>11. CASE StyleAgain
  BY <1>9, <1>11 DEF StyleAgain
<1>12. CASE UNCHANGED styleVars
  <2>1. UNCHANGED <<style, books, bookFile, found, changes, stylePc>>
    BY <1>12 DEF styleVars
  <2>2. StyleTypes'
    BY <2>1 DEF StyleInv, StyleTypes
  <2>3. StylePlaces => StylePlaces'
    BY <2>1 DEF StylePlaces, FileErc, Differences
  <2> QED BY <2>1, <2>2, <2>3, ListStays DEF StyleInv
<1> QED BY <1>1, <1>2, <1>5, <1>6, <1>7, <1>8, <1>10, <1>11, <1>12 DEF StyleNext, StyleStep

\* And it says what an imported style book is.
LEMMA StyleHolds ==
  ASSUME StyleInv
  PROVE  StyleBooksAreFaithful
<1> SUFFICES ASSUME ~AliasedBook PROVE StyleBooksAreFaithful
  BY DEF StyleBooksAreFaithful
<1>1. /\ \A i \in DOMAIN style.entries : books[i].erc # bookFile.erc => books[i] = style.entries[i]
      /\ \A i, j \in DOMAIN books : books[i].erc = books[j].erc => i = j
  BY StyleTyped DEF StyleInv, Untouched, FileErc
<1>2. ASSUME stylePc = "ok"
      PROVE  \E i \in DOMAIN books : [books[i] EXCEPT !.theme = bookFile.theme] = bookFile
  <2>1. PICK i \in 1 .. Len(books) : FileErc(i) /\ Differences(books[i]) \subseteq {"theme"}
    BY <1>2 DEF StyleInv, StylePlaces
  <2>2. books[i] \in StyleBooks /\ bookFile \in StyleBooks /\ i \in DOMAIN books
    BY <2>1, StyleTyped DEF StyleInv, StyleTypes
  <2>3. books[i].erc = bookFile.erc /\ books[i].name = bookFile.name /\ books[i].key = bookFile.key
        /\ books[i].tokens = bookFile.tokens
    BY <2>1 DEF FileErc, Differences
  <2>4. [books[i] EXCEPT !.theme = bookFile.theme] = bookFile
    BY <2>2, <2>3 DEF StyleBooks
  <2> QED BY <2>2, <2>4
<1>3. stylePc = "mismatch" => \E i \in DOMAIN style.entries :
          style.entries[i].erc = bookFile.erc /\ style.entries[i].key # bookFile.key
  BY StyleTyped DEF StyleInv, StylePlaces, Untouched, FileErc
<1> QED BY <1>1, <1>2, <1>3 DEF StyleBooksAreFaithful

-----------------------------------------------------------------------------
(* Objects and picklists.                                                   *)
\* Nothing is removed unless the user asked for it.
Announced == ObjOpt.breaking \/ ~first.exists \/ Removals(first) = {}
\* A definition that does not exist has no fields and no parts.
NothingHidden(a) == ~a.exists => DOMAIN a.fields = {} /\ DOMAIN a.parts = {}
\* What is known of the definition at each place of the command.
ObjectPlaces ==
  /\ obj \in ObjectCases /\ objectRuns \in Nat /\ objectFaults \in Nat
  /\ DOMAIN remote = {"exists", "approved", "props", "fields", "parts"}
  /\ DOMAIN file = {"erc", "valid", "props", "fields", "parts"}
  /\ NothingHidden(first) /\ NothingHidden(remote)
  /\ objPc \in {"start", "ready", "find", "validate", "save", "publish", "list", "parts",
                "ok", "checked", "missing", "mismatch", "failed", "error", "off"}
  /\ objPc \in {"start", "off"} => objectRuns = 0 /\ remote = obj.portal /\ file = obj.file /\ first = obj.portal
  /\ objPc \in {"validate", "save"} => (first.exists <=> remote.exists)
  /\ objPc \in {"save", "publish", "list", "parts"} => Announced
  /\ objPc \in {"publish", "list", "parts", "ok"} => remote.exists
  /\ objPc \in {"list", "parts", "ok"} /\ IsObject => remote.approved
  /\ objectRuns = 0 => objPc \in {"start", "ready", "error", "off"} /\ added = {}
  /\ objPc = "publish" => IsObject
  /\ objPc = "parts" => todo \subseteq DOMAIN file.parts
\* Every part of the portal has an ERC, and every part of the file an ERC or a name to make one of.
HasErcs(a) == \A n \in DOMAIN a.parts : a.parts[n].erc # NoErc
FileNamed == \A n \in DOMAIN file.parts : n # NoErc \/ file.parts[n].erc # NoErc
\* Without --allow-breaking no field and no entry is gone, and no relationship that the file does not replace ever is.
NoneLost ==
  /\ ~ObjOpt.breaking => DOMAIN first.fields \subseteq DOMAIN remote.fields
  /\ ~ObjOpt.breaking /\ ~IsObject => DOMAIN first.parts \subseteq DOMAIN remote.parts
  /\ IsObject => \A n \in DOMAIN first.parts \ Replaced : StillThere(n)
\* The relationships are seen as they were found.
SeenKept ==
  /\ \A n \in DOMAIN seen : seen[n].erc # NoErc
  /\ IsObject => \A n \in DOMAIN first.parts \ Replaced : n \in DOMAIN seen /\ seen[n].erc = first.parts[n].erc
\* The parts to delete are none of the file, and none at all for an object.  What is neither found nor of the
\* file was added by another user.
LosesNothing ==
  /\ NoneLost /\ HasErcs(first) /\ HasErcs(remote) /\ FileNamed
  /\ objPc = "parts" => /\ surplus \cap DOMAIN file.parts = {} /\ (IsObject => surplus = {}) /\ SeenKept
                        /\ ~ObjOpt.breaking => surplus \subseteq added
  /\ ~IsObject /\ objPc \in {"validate", "save", "list"} =>
       DOMAIN remote.parts \subseteq DOMAIN first.parts \cup DOMAIN file.parts \cup added
\* The definition declares what the file declares of it and of its fields.
InLine ==
  /\ Declares(file.props, remote.props)
  /\ DOMAIN remote.fields = DOMAIN file.fields
  /\ \A n \in DOMAIN file.fields : Agrees(file.fields[n], remote.fields, n)
\* The parts that are no longer to do declare what the file declares of them.
PartsInLine ==
  /\ \A n \in DOMAIN file.parts \ todo : Agrees(file.parts[n], remote.parts, n)
  /\ \A n \in todo : n \in DOMAIN seen => n \in DOMAIN remote.parts /\ remote.parts[n] = seen[n]
  /\ ~IsObject => DOMAIN remote.parts \subseteq DOMAIN file.parts \cup surplus
\* A run without faults never ends in a mismatch when the portal can store the file.
GetsThere ==
  ~spent /\ AllStorable =>
    /\ objPc \in {"publish", "list", "parts"} => InLine
    /\ objPc = "parts" => PartsInLine
    /\ objPc # "mismatch"
\* A run that says ok has nothing left to change.
Ends == objPc = "ok" => ~Pending(remote)
\* The definition that the export was taken of.
AsPortal(a) == /\ a.exists = obj.portal.exists /\ a.props = obj.portal.props
               /\ a.fields = obj.portal.fields /\ a.parts = obj.portal.parts
\* An export that is imported where it came from leaves everything as it was.
AsExported ==
  ObjOpt.export /\ objectFaults = 0 /\ added = {} =>
    /\ objectRuns = 0 => remote = obj.portal /\ first = obj.portal
    /\ (objectRuns = 0 /\ objPc = "ready") \/ objectRuns = 1 =>
         /\ remote.exists /\ file.props = obj.portal.props
         /\ file.fields = obj.portal.fields /\ file.parts = obj.portal.parts
    /\ objectRuns = 1 /\ AllStorable =>
         /\ AsPortal(remote)
         /\ objPc # "find" => first.exists /\ first.fields = obj.portal.fields /\ first.parts = obj.portal.parts
         /\ objPc = "parts" => seen = obj.portal.parts /\ surplus = {}
\* The inductive invariant of the import.
ObjectInv == ObjectPlaces /\ LosesNothing /\ GetsThere /\ Ends /\ AsExported

\* What the portal makes of the bodies that are sent.
LEMMA PutIs ==
  ASSUME ObjectPlaces
  PROVE  /\ DOMAIN Put = DOMAIN remote /\ Put.exists = remote.exists /\ Put.approved = remote.approved
         /\ Put.props = Over(Stored(file.props), remote.props)
         /\ Put.fields = ByErc(CompleteFields, remote.fields) /\ DOMAIN Put.fields = DOMAIN file.fields
         /\ Put.parts = PutParts
BY DEF ObjectPlaces, Put, ByErc, CompleteFields

\* What adding or changing a part makes of a definition.
LEMMA WithPartIs ==
  ASSUME ObjectPlaces, NEW n
  PROVE  /\ DOMAIN WithPart(n) = DOMAIN remote /\ WithPart(n).exists = remote.exists
         /\ WithPart(n).approved = remote.approved
         /\ WithPart(n).props = remote.props /\ WithPart(n).fields = remote.fields
         /\ DOMAIN WithPart(n).parts = DOMAIN remote.parts \cup {n}
         /\ \A m \in DOMAIN remote.parts \ {n} : WithPart(n).parts[m] = remote.parts[m]
         /\ WithPart(n).parts[n] = OfKey(n, file.parts[n], seen)
BY DEF ObjectPlaces, WithPart, Over

\* Publishing changes nothing else.
LEMMA ApprovedIs ==
  ASSUME ObjectPlaces, NEW r, r = [remote EXCEPT !.approved = TRUE]
  PROVE  /\ DOMAIN r = DOMAIN remote /\ r.exists = remote.exists /\ r.approved /\ r.props = remote.props
         /\ r.fields = remote.fields /\ r.parts = remote.parts
BY DEF ObjectPlaces

\* What a refused or lost request leaves.
LEMMA RequestLeaves ==
  ASSUME RequestFails
  PROVE  /\ objPc' = "failed" /\ spent' = TRUE /\ objectFaults' = objectFaults + 1
         /\ UNCHANGED <<obj, file, first, seen, todo, surplus, added, objectRuns>>
         /\ \/ remote' = remote
            \/ objPc = "save" /\ first.exists /\ remote' = Put
            \/ objPc = "save" /\ ~first.exists /\ remote' = Posted
            \/ objPc = "publish" /\ remote' = [remote EXCEPT !.approved = TRUE]
            \/ objPc = "parts" /\ \E n \in todo : remote' = WithPart(n)
BY DEF RequestFails, Fails

\* What is saved has an ERC, the one of the body if that has one.
LEMMA SavedErc ==
  ASSUME NEW n, NEW item, NEW olds, n # NoErc \/ item.erc # NoErc, \A o \in olds : o.erc # NoErc
  PROVE  /\ SavedItem(n, item, olds).erc # NoErc
         /\ item.erc # NoErc => SavedItem(n, item, olds).erc = item.erc
BY DEF SavedItem

\* The ERC that is sent.
LEMMA WithErcIs ==
  ASSUME NEW n, NEW fileItem, NEW olds
  PROVE  WithErc(n, fileItem, olds).erc
           = IF fileItem.erc = NoErc /\ n \in DOMAIN olds THEN olds[n].erc ELSE fileItem.erc
BY DEF WithErc

\* The body of a PUT has the fields and relationships of the file, and the relationships found.
LEMMA BodyIs ==
  ASSUME ObjectInv, first.exists, IsObject
  PROVE  /\ DOMAIN CompleteParts = DOMAIN file.parts \cup DOMAIN first.parts
         /\ \A n \in DOMAIN first.parts \ Replaced : CompleteParts[n].erc = first.parts[n].erc
         /\ \A n \in DOMAIN CompleteParts : n # NoErc \/ CompleteParts[n].erc # NoErc
<1> DEFINE L == [n \in DOMAIN file.parts |-> WithErc(n, file.parts[n], first.parts)]
<1>1. CompleteParts = Over(L, first.parts)
  BY DEF CompleteParts
<1>2. /\ DOMAIN CompleteParts = DOMAIN file.parts \cup DOMAIN first.parts
      /\ \A n \in DOMAIN file.parts : CompleteParts[n] = WithErc(n, file.parts[n], first.parts)
      /\ \A n \in DOMAIN first.parts \ DOMAIN file.parts : CompleteParts[n] = first.parts[n]
  BY <1>1 DEF Over
<1>3. ASSUME NEW n \in DOMAIN first.parts \ Replaced PROVE CompleteParts[n].erc = first.parts[n].erc
  <2>1. CASE n \notin DOMAIN file.parts
    BY <1>2, <1>3, <2>1
  <2>2. CASE n \in DOMAIN file.parts
    <3>1. file.parts[n].erc \in {NoErc, first.parts[n].erc} /\ n \in DOMAIN first.parts
      BY <1>3, <2>2 DEF Replaced
    <3>2. CompleteParts[n].erc = IF file.parts[n].erc = NoErc THEN first.parts[n].erc ELSE file.parts[n].erc
      BY <1>2, <2>2, <3>1, WithErcIs
    <3> QED BY <3>1, <3>2
  <2> QED BY <2>1, <2>2
<1>4. ASSUME NEW n \in DOMAIN CompleteParts PROVE n # NoErc \/ CompleteParts[n].erc # NoErc
  <2>1. CASE n \in DOMAIN file.parts
    <3>1. /\ n # NoErc \/ file.parts[n].erc # NoErc
          /\ n \in DOMAIN first.parts => first.parts[n].erc # NoErc
      BY <2>1 DEF ObjectInv, LosesNothing, FileNamed, HasErcs
    <3>2. CompleteParts[n].erc = IF file.parts[n].erc = NoErc /\ n \in DOMAIN first.parts
                                   THEN first.parts[n].erc ELSE file.parts[n].erc
      BY <1>2, <2>1, WithErcIs
    <3> QED BY <3>1, <3>2
  <2>2. CASE n \notin DOMAIN file.parts
    BY <1>2, <2>2 DEF ObjectInv, LosesNothing, HasErcs
  <2> QED BY <2>1, <2>2
<1> QED BY <1>2, <1>3, <1>4

\* What the portal makes of parts that are given by key.
LEMMA KeyErc ==
  ASSUME NEW n, NEW item, NEW its, n # NoErc \/ item.erc # NoErc, \A m \in DOMAIN its : its[m].erc # NoErc
  PROVE  OfKey(n, item, its).erc # NoErc
<1> DEFINE olds == {its[m] : m \in {n} \cap DOMAIN its}
<1>1. \A o \in olds : o.erc # NoErc
  OBVIOUS
<1> HIDE DEF olds
<1>2. SavedItem(n, item, olds).erc # NoErc
  BY <1>1, SavedErc
<1> QED BY <1>2 DEF OfKey, olds

\* The parts of an object that are left by a PUT.
LEMMA PutObject ==
  ASSUME ObjectInv, first.exists, IsObject
  PROVE  /\ \A n \in DOMAIN PutParts : PutParts[n].erc # NoErc
         /\ \A n \in DOMAIN first.parts \ Replaced :
               StillThere(n) => n \in DOMAIN PutParts /\ PutParts[n].erc = first.parts[n].erc
<1> USE DEF ObjectInv
<1>1. HasErcs(first) /\ HasErcs(remote)
  BY DEF LosesNothing
<1>2. CASE obj.manages
  <2> DEFINE olds(n) == {remote.parts[m] : m \in SameErc(CompleteParts[n], remote.parts)}
  <2>1. PutParts = [n \in DOMAIN CompleteParts |-> SavedItem(n, CompleteParts[n], olds(n))]
    BY <1>2 DEF PutParts, ByErc
  <2>2. ASSUME NEW n \in DOMAIN CompleteParts PROVE \A o \in olds(n) : o.erc # NoErc
    BY <1>1 DEF HasErcs, SameErc
  <2> HIDE DEF olds
  <2>3. ASSUME NEW n \in DOMAIN CompleteParts
        PROVE  /\ PutParts[n].erc # NoErc
               /\ CompleteParts[n].erc # NoErc => PutParts[n].erc = CompleteParts[n].erc
    BY <2>1, <2>2, SavedErc, BodyIs
  <2>4. DOMAIN PutParts = DOMAIN CompleteParts
    BY <2>1
  <2> QED BY <1>1, <2>3, <2>4, BodyIs DEF HasErcs
<1>3. CASE ~obj.manages
  <2>1. PutParts = [n \in KeptParts |-> remote.parts[n]]
    BY <1>3 DEF PutParts
  <2>2. KeptParts \subseteq DOMAIN remote.parts
    BY DEF KeptParts
  <2>3. ASSUME NEW n \in DOMAIN first.parts \ Replaced, StillThere(n) PROVE n \in KeptParts
    BY <2>3, BodyIs DEF KeptParts, StillThere
  <2> QED BY <1>1, <2>1, <2>2, <2>3 DEF HasErcs, StillThere
<1> QED BY <1>2, <1>3

\* The entries of a picklist that are left by a PUT or made by a POST.
LEMMA PutPicklist ==
  ASSUME ObjectInv, ~IsObject, NEW p, p \in {PutParts, Posted.parts}
  PROVE  /\ \A n \in DOMAIN p : p[n].erc # NoErc
         /\ DOMAIN p \subseteq DOMAIN file.parts \cup DOMAIN remote.parts
         /\ p = PutParts => DOMAIN file.parts \cap DOMAIN remote.parts \subseteq DOMAIN p
<1>1. HasErcs(remote) /\ FileNamed
  BY DEF ObjectInv, LosesNothing
<1>2. p \in {[n \in DOMAIN file.parts |-> OfKey(n, file.parts[n], remote.parts)], remote.parts, <<>>}
      /\ (p = PutParts => p \in {[n \in DOMAIN file.parts |-> OfKey(n, file.parts[n], remote.parts)], remote.parts})
  BY DEF PutParts, Posted
<1>3. ASSUME NEW n \in DOMAIN file.parts PROVE OfKey(n, file.parts[n], remote.parts).erc # NoErc
  BY <1>1, KeyErc DEF HasErcs, FileNamed
<1> QED BY <1>1, <1>2, <1>3 DEF HasErcs

\* Saving loses nothing that the run was not allowed to remove.
LEMMA SavedKeeps ==
  ASSUME ObjectInv, objPc = "save", UNCHANGED <<obj, file, first, added>>,
         (first.exists /\ remote' = Put) \/ (~first.exists /\ remote' = Posted)
  PROVE  /\ NoneLost' /\ HasErcs(remote)'
         /\ ~IsObject => DOMAIN remote'.parts \subseteq DOMAIN first.parts \cup DOMAIN file.parts \cup added
<1> USE DEF ObjectInv
<1>1. NoneLost /\ NothingHidden(first) /\ NothingHidden(remote) /\ Announced /\ (first.exists <=> remote.exists)
      /\ (~IsObject => DOMAIN remote.parts \subseteq DOMAIN first.parts \cup DOMAIN file.parts \cup added)
  BY DEF LosesNothing, ObjectPlaces
<1>2. CASE ~first.exists
  <2>1. remote' = Posted /\ DOMAIN first.fields = {} /\ DOMAIN first.parts = {}
    BY <1>1, <1>2 DEF NothingHidden
  <2>2. IsObject => Posted.parts = <<>>
    BY DEF Posted
  <2>3. ~IsObject => /\ \A n \in DOMAIN Posted.parts : Posted.parts[n].erc # NoErc
                     /\ DOMAIN Posted.parts \subseteq DOMAIN file.parts \cup DOMAIN remote.parts
    BY PutPicklist
  <2> QED BY <1>1, <2>1, <2>2, <2>3 DEF NoneLost, HasErcs, ObjOpt, IsObject, StillThere, Replaced
<1>3. CASE first.exists /\ remote' = Put
  <2>1. /\ DOMAIN remote'.fields = DOMAIN file.fields /\ remote'.parts = PutParts
    BY <1>3, PutIs
  <2>2. ~ObjOpt.breaking => /\ DOMAIN first.fields \subseteq DOMAIN file.fields
                            /\ ~IsObject => DOMAIN first.parts \subseteq DOMAIN file.parts
    BY <1>1, <1>3 DEF Announced, Removals, NamedOnly
  <2>3. CASE IsObject
    <3>1. \A n \in DOMAIN first.parts \ Replaced : n \in DOMAIN PutParts /\ PutParts[n].erc = first.parts[n].erc
      BY <1>1, <1>3, <2>3, PutObject DEF NoneLost
    <3>2. \A n \in DOMAIN PutParts : PutParts[n].erc # NoErc
      BY <1>3, <2>3, PutObject
    <3> QED BY <2>1, <2>2, <2>3, <3>1, <3>2 DEF NoneLost, HasErcs, ObjOpt, IsObject, StillThere, Replaced
  <2>4. CASE ~IsObject
    <3>1. /\ \A n \in DOMAIN PutParts : PutParts[n].erc # NoErc
          /\ DOMAIN PutParts \subseteq DOMAIN file.parts \cup DOMAIN remote.parts
          /\ DOMAIN file.parts \cap DOMAIN remote.parts \subseteq DOMAIN PutParts
      BY <2>4, PutPicklist
    <3> QED BY <1>1, <2>1, <2>2, <2>4, <3>1 DEF NoneLost, HasErcs, ObjOpt, IsObject
  <2> QED BY <2>3, <2>4
<1> QED BY <1>2, <1>3

\* Before the first run the definition is as it was.
LEMMA ObjectStarts ==
  ASSUME NEW pc \in {"start", "off"}, ObjectStart(pc)
  PROVE  ObjectInv
<1>1. /\ obj \in ObjectCases /\ DOMAIN obj.file = {"erc", "valid", "props", "fields", "parts"} /\ ArtifactOK(obj.portal)
  BY ObjectAssumption DEF ObjectStart, ObjectCaseOK
<1>2. ObjectPlaces
  BY <1>1 DEF ObjectStart, ObjectPlaces, ArtifactOK, NothingHidden
<1>3. HasErcs(obj.portal) /\ FileNamed
  BY <1>1, ObjectAssumption DEF ObjectStart, ObjectCaseOK, ArtifactOK, ItemsOK, HasErcs, FileNamed
<1>4. LosesNothing
  BY <1>1, <1>3 DEF ObjectStart, LosesNothing, NoneLost, HasErcs, StillThere, Replaced
<1> QED BY <1>2, <1>4 DEF ObjectStart, ObjectInv, GetsThere, Ends, AsExported

\* Each step keeps what is known of the definition.
LEMMA PlacesKeep ==
  ASSUME ObjectInv, ObjectNext \/ UNCHANGED objectVars
  PROVE  ObjectPlaces'
<1> USE DEF ObjectInv
<1>1. CASE ExportObject
  BY <1>1 DEF ExportObject, ObjectPlaces, NothingHidden, ObjOpt, IsObject, Announced, Removals, NamedOnly
<1>2. CASE ResolveFile
  <2>1. /\ UNCHANGED <<obj, remote, file, first, objectFaults>> /\ objectRuns' = objectRuns + 1
        /\ objPc' \in {"find", "error"}
    BY <1>2 DEF ResolveFile
  <2> QED BY <2>1 DEF ObjectPlaces, NothingHidden, ObjOpt, IsObject
<1>3. CASE FindArtifact
  BY <1>3 DEF FindArtifact, ObjectPlaces, NothingHidden, ObjOpt, IsObject, Announced, Removals, NamedOnly
<1>4. CASE ValidateArtifact
  <2>1. /\ UNCHANGED <<obj, remote, file, first, objectRuns, objectFaults>> /\ objPc = "validate"
        /\ objPc' \in {"error", "save", "checked", "missing"}
        /\ objPc' = "save" => MayRemove
    BY <1>4 DEF ValidateArtifact, Valid
  <2>2. MayRemove => Announced'
    BY <2>1 DEF MayRemove, Announced, ObjOpt, Removals, IsObject, NamedOnly
  <2> QED BY <2>1, <2>2 DEF ObjectPlaces, NothingHidden, ObjOpt, IsObject
<1>5. CASE SaveArtifact
  <2>1. /\ UNCHANGED <<obj, file, first, objectRuns, objectFaults>> /\ objPc = "save"
        /\ \/ objPc' = "error" /\ UNCHANGED remote
           \/ /\ first.exists /\ remote' = Put
              /\ (objPc' = "publish" /\ IsObject) \/ (objPc' = "list" /\ (~IsObject \/ remote.approved))
           \/ /\ ~first.exists /\ remote' = Posted
              /\ (objPc' = "publish" /\ IsObject) \/ (objPc' = "list" /\ ~IsObject)
    BY <1>5 DEF SaveArtifact
  <2>2. Announced <=> Announced'
    BY <2>1 DEF Announced, ObjOpt, Removals, IsObject, NamedOnly
  <2>3. /\ DOMAIN remote' = DOMAIN remote /\ objPc' \in {"error", "publish", "list"}
        /\ objPc' = "error" => remote' = remote
        /\ objPc' \in {"publish", "list"} => remote'.exists
        /\ objPc' = "list" /\ IsObject => remote'.approved
        /\ objPc' = "publish" => IsObject
    <3>1. CASE remote' = remote /\ objPc' = "error"
      BY <3>1
    <3>2. CASE first.exists /\ remote' = Put /\ objPc' # "error"
      BY <2>1, <3>2, PutIs DEF ObjectPlaces
    <3>3. CASE ~first.exists /\ remote' = Posted /\ objPc' # "error"
      BY <2>1, <3>3 DEF Posted, ObjectPlaces
    <3> QED BY <2>1, <3>1, <3>2, <3>3
  <2> QED BY <2>1, <2>2, <2>3 DEF ObjectPlaces, NothingHidden, ObjOpt, IsObject
<1>6. CASE PublishObject
  BY <1>6 DEF PublishObject, ObjectPlaces, NothingHidden, ObjOpt, IsObject, Announced, Removals, NamedOnly
<1>7. CASE ListParts
  BY <1>7 DEF ListParts, ObjectPlaces, NothingHidden, ObjOpt, IsObject, Announced, Removals, NamedOnly
<1>8. CASE ReadBack
  BY <1>8 DEF ReadBack, ObjectPlaces, NothingHidden, ObjOpt, IsObject, Announced, Removals, NamedOnly
<1>9. CASE RequestFails
  <2>1. /\ objPc' = "failed" /\ UNCHANGED <<obj, file, first, objectRuns>> /\ objectFaults' \in Nat
    BY <1>9, RequestLeaves DEF ObjectPlaces
  <2>3. objectRuns # 0
    BY <1>9 DEF ObjectPlaces, RequestFails
  <2>2. DOMAIN remote' = DOMAIN remote /\ NothingHidden(remote)'
    <3>1. CASE remote' = remote
      BY <3>1 DEF ObjectPlaces, NothingHidden
    <3>2. CASE objPc = "save" /\ first.exists /\ remote' = Put
      BY <3>2, PutIs DEF ObjectPlaces, NothingHidden
    <3>3. CASE remote' = Posted
      BY <3>3 DEF ObjectPlaces, NothingHidden, Posted
    <3>4. CASE objPc = "publish" /\ remote' = [remote EXCEPT !.approved = TRUE]
      BY <3>4, ApprovedIs DEF ObjectPlaces, NothingHidden
    <3>5. ASSUME objPc = "parts", NEW n \in todo, remote' = WithPart(n)
          PROVE  DOMAIN remote' = DOMAIN remote /\ NothingHidden(remote)'
      BY <3>5, WithPartIs DEF ObjectPlaces, NothingHidden
    <3> QED BY <1>9, <3>1, <3>2, <3>3, <3>4, <3>5, RequestLeaves
  <2> QED BY <2>1, <2>2, <2>3 DEF ObjectPlaces, NothingHidden, ObjOpt, IsObject
<1>10. CASE ImportObjectAgain
  BY <1>10 DEF ImportObjectAgain, ObjectPlaces, NothingHidden, ObjOpt, IsObject, Announced, Removals, NamedOnly
<1>11. CASE UserAdds("mine")
  <2>1. /\ UNCHANGED <<obj, file, objPc, first, todo, objectRuns, objectFaults>> /\ remote.exists
        /\ DOMAIN remote' = DOMAIN remote /\ remote'.exists = remote.exists /\ remote'.approved = remote.approved
        /\ objPc \notin {"start", "off", "ready", "error"}
    BY <1>11 DEF UserAdds, ObjectPlaces, ObjectOver
  <2>2. Announced <=> Announced'
    BY <2>1 DEF Announced, ObjOpt, Removals, IsObject, NamedOnly
  <2> QED BY <2>1, <2>2 DEF ObjectPlaces, NothingHidden, ObjOpt, IsObject
<1>12. CASE UNCHANGED objectVars
  BY <1>12 DEF objectVars, ObjectPlaces, NothingHidden, ObjOpt, IsObject, Announced, Removals, NamedOnly
<1>13. ASSUME NEW n \in todo, ReconcilePart(n) PROVE ObjectPlaces'
  <2>1. /\ UNCHANGED <<obj, file, objPc, first, objectRuns, objectFaults>> /\ objPc = "parts" /\ todo' \subseteq todo
        /\ remote' = remote \/ remote' = WithPart(n)
    BY <1>13 DEF ReconcilePart
  <2>2. DOMAIN remote' = DOMAIN remote /\ remote'.exists = remote.exists /\ remote'.approved = remote.approved
    BY <2>1, WithPartIs
  <2>3. Announced <=> Announced'
    BY <2>1 DEF Announced, ObjOpt, Removals, IsObject, NamedOnly
  <2> QED BY <2>1, <2>2, <2>3 DEF ObjectPlaces, NothingHidden, ObjOpt, IsObject
<1>14. ASSUME NEW n \in surplus, DeleteEntry(n) PROVE ObjectPlaces'
  BY <1>14 DEF DeleteEntry, ObjectPlaces, NothingHidden, ObjOpt, IsObject, Announced, Removals, NamedOnly
<1> QED BY <1>1, <1>2, <1>3, <1>4, <1>5, <1>6, <1>7, <1>8, <1>9, <1>10, <1>11, <1>12, <1>13, <1>14 DEF ObjectNext, ObjectStep

\* Adding or changing a part loses nothing.
LEMMA PartKeeps ==
  ASSUME ObjectInv, objPc = "parts", UNCHANGED <<obj, file, first>>, NEW n \in todo, remote' = WithPart(n)
  PROVE  NoneLost' /\ HasErcs(remote)'
<1> USE DEF ObjectInv
<1>1. /\ remote'.fields = remote.fields /\ DOMAIN remote'.parts = DOMAIN remote.parts \cup {n}
      /\ \A m \in DOMAIN remote.parts \ {n} : remote'.parts[m] = remote.parts[m]
      /\ remote'.parts[n] = OfKey(n, file.parts[n], seen)
  BY WithPartIs
<1>2. /\ n \in DOMAIN file.parts /\ NoneLost /\ SeenKept /\ HasErcs(remote) /\ HasErcs(first)
      /\ n # NoErc \/ file.parts[n].erc # NoErc
  BY DEF LosesNothing, ObjectPlaces, FileNamed
<1>3. OfKey(n, file.parts[n], seen).erc # NoErc
  BY <1>2, KeyErc DEF SeenKept
<1>4. ASSUME IsObject, n \in DOMAIN first.parts \ Replaced
      PROVE  OfKey(n, file.parts[n], seen).erc = first.parts[n].erc
  <2>1. n \in DOMAIN seen /\ seen[n].erc = first.parts[n].erc /\ file.parts[n].erc \in {NoErc, first.parts[n].erc}
    BY <1>2, <1>4 DEF SeenKept, Replaced
  <2>2. {seen[m] : m \in {n} \cap DOMAIN seen} = {seen[n]}
    BY <2>1
  <2>3. OfKey(n, file.parts[n], seen) = SavedItem(n, file.parts[n], {seen[n]})
    BY <2>2 DEF OfKey
  <2>4. (CHOOSE o \in {seen[n]} : TRUE) = seen[n]
    OBVIOUS
  <2> QED BY <2>1, <2>3, <2>4 DEF SavedItem
<1>5. HasErcs(remote)'
  BY <1>1, <1>2, <1>3 DEF HasErcs
<1>6. NoneLost'
  <2>1. ASSUME IsObject, NEW m \in DOMAIN first.parts \ Replaced
        PROVE  m \in DOMAIN remote'.parts /\ remote'.parts[m].erc = first.parts[m].erc
    BY <1>1, <1>2, <1>4, <2>1 DEF NoneLost, StillThere
  <2> QED BY <1>1, <1>2, <2>1 DEF NoneLost, ObjOpt, IsObject, StillThere, Replaced
<1> QED BY <1>5, <1>6

\* Each step loses nothing.
LEMMA LosesKeeps ==
  ASSUME ObjectInv, ObjectNext \/ UNCHANGED objectVars
  PROVE  LosesNothing'
<1> USE DEF ObjectInv
<1>1. CASE ExportObject
  <2>1. /\ UNCHANGED <<obj, remote, first, seen, surplus, added>> /\ objPc = "start" /\ objPc' \in {"ready", "error"}
        /\ first = remote /\ file'.parts \in {file.parts, remote.parts}
    BY <1>1 DEF ExportObject, ObjectPlaces
  <2>2. HasErcs(remote)' /\ HasErcs(first)' /\ FileNamed'
    BY <2>1 DEF LosesNothing, HasErcs, FileNamed
  <2>3. NoneLost'
    BY <2>1 DEF NoneLost, StillThere, ObjOpt, IsObject
  <2> QED BY <2>1, <2>2, <2>3 DEF LosesNothing
<1>2. CASE ResolveFile
  BY <1>2 DEF ResolveFile, ObjectPlaces, LosesNothing, NoneLost, HasErcs, FileNamed, SeenKept, StillThere, Replaced, ObjOpt, IsObject
<1>3. CASE FindArtifact
  BY <1>3 DEF FindArtifact, ObjectPlaces, LosesNothing, NoneLost, HasErcs, FileNamed, SeenKept, StillThere, Replaced, ObjOpt, IsObject
<1>4. CASE ValidateArtifact
  BY <1>4 DEF ValidateArtifact, ObjectPlaces, LosesNothing, NoneLost, HasErcs, FileNamed, SeenKept, StillThere, Replaced, ObjOpt, IsObject
<1>5. CASE SaveArtifact
  <2>1. /\ UNCHANGED <<obj, file, first, added>> /\ objPc = "save" /\ objPc' \in {"error", "publish", "list"}
        /\ \/ remote' = remote
           \/ (first.exists /\ remote' = Put) \/ (~first.exists /\ remote' = Posted)
    BY <1>5 DEF SaveArtifact
  <2>2. CASE remote' = remote
    BY <2>1, <2>2 DEF LosesNothing, NoneLost, HasErcs, FileNamed, StillThere, Replaced, ObjOpt, IsObject
  <2>3. CASE remote' # remote
    <3>1. /\ NoneLost' /\ HasErcs(remote)'
          /\ ~IsObject => DOMAIN remote'.parts \subseteq DOMAIN first.parts \cup DOMAIN file.parts \cup added
      BY <2>1, <2>3, SavedKeeps
    <3>2. HasErcs(first)' /\ FileNamed'
      BY <2>1 DEF LosesNothing, HasErcs, FileNamed
    <3> QED BY <2>1, <3>1, <3>2 DEF LosesNothing, ObjOpt, IsObject
  <2> QED BY <2>2, <2>3
<1>6. CASE PublishObject
  BY <1>6 DEF PublishObject, ObjectPlaces, LosesNothing, NoneLost, HasErcs, FileNamed, SeenKept, StillThere, Replaced, ObjOpt, IsObject
<1>7. CASE ListParts
  <2>1. /\ UNCHANGED <<obj, file, first, remote>>
        /\ surplus' = IF IsObject THEN {} ELSE NamedOnly(remote.parts, file.parts)
    BY <1>7 DEF ListParts
  <2>2. seen' = remote.parts /\ objPc = "list" /\ objPc' = "parts" /\ UNCHANGED added
    BY <1>7 DEF ListParts
  <2>3. NoneLost' /\ HasErcs(first)' /\ HasErcs(remote)' /\ FileNamed'
    BY <2>1 DEF LosesNothing, NoneLost, HasErcs, FileNamed, StillThere, Replaced, ObjOpt, IsObject
  <2>4. SeenKept'
    BY <2>1, <2>2 DEF LosesNothing, SeenKept, NoneLost, HasErcs, StillThere, Replaced, ObjOpt, IsObject
  <2>5. /\ surplus' \cap DOMAIN file'.parts = {} /\ (IsObject' => surplus' = {})
    BY <2>1 DEF NamedOnly, ObjOpt, IsObject
  <2>6. ~ObjOpt'.breaking => surplus' \subseteq added'
    <3>1. CASE ObjOpt.breaking \/ IsObject
      BY <2>1, <3>1 DEF ObjOpt, IsObject
    <3>2. CASE ~ObjOpt.breaking /\ ~IsObject
      <4>1. DOMAIN first.parts \subseteq DOMAIN file.parts
        BY <2>2, <3>2 DEF ObjectPlaces, Announced, Removals, NamedOnly, NothingHidden
      <4>2. DOMAIN remote.parts \subseteq DOMAIN first.parts \cup DOMAIN file.parts \cup added
        BY <2>2, <3>2 DEF LosesNothing
      <4> QED BY <2>1, <2>2, <3>2, <4>1, <4>2 DEF NamedOnly, ObjOpt
    <3> QED BY <3>1, <3>2
  <2> QED BY <2>2, <2>3, <2>4, <2>5, <2>6 DEF LosesNothing
<1>8. CASE ReadBack
  BY <1>8 DEF ReadBack, ObjectPlaces, LosesNothing, NoneLost, HasErcs, FileNamed, SeenKept, StillThere, Replaced, ObjOpt, IsObject
<1>9. CASE RequestFails
  <2>1. objPc' = "failed" /\ UNCHANGED <<obj, file, first, added>>
    BY <1>9, RequestLeaves
  <2>2. HasErcs(first)' /\ FileNamed'
    BY <2>1 DEF LosesNothing, HasErcs, FileNamed
  <2>3. CASE objPc = "save" /\ remote' # remote
    <3>1. NoneLost' /\ HasErcs(remote)'
      BY <1>9, <2>1, <2>3, SavedKeeps, RequestLeaves
    <3> QED BY <2>1, <2>2, <3>1 DEF LosesNothing
  <2>4. CASE remote' = remote \/ objPc = "publish"
    <3>1. remote'.fields = remote.fields /\ remote'.parts = remote.parts
      BY <1>9, <2>4, RequestLeaves, ApprovedIs
    <3> QED BY <2>1, <2>2, <3>1 DEF LosesNothing, NoneLost, HasErcs, StillThere, Replaced, ObjOpt, IsObject
  <2>5. CASE remote' # remote /\ objPc = "parts"
    <3>1. NoneLost' /\ HasErcs(remote)'
      BY <1>9, <2>1, <2>5, RequestLeaves, PartKeeps
    <3> QED BY <2>1, <2>2, <3>1 DEF LosesNothing
  <2> QED BY <1>9, <2>3, <2>4, <2>5, RequestLeaves
<1>10. CASE ImportObjectAgain
  BY <1>10 DEF ImportObjectAgain, ObjectPlaces, LosesNothing, NoneLost, HasErcs, FileNamed, SeenKept, StillThere, Replaced, ObjOpt, IsObject
<1>11. CASE UserAdds("mine")
  <2>1. /\ UNCHANGED <<obj, file, objPc, first, seen, surplus>> /\ remote'.fields = remote.fields
        /\ DOMAIN remote'.parts = DOMAIN remote.parts \cup {"mine"} /\ added' = added \cup {"mine"}
        /\ remote'.parts["mine"].erc = "mine" /\ "mine" \notin DOMAIN remote.parts
        /\ \A m \in DOMAIN remote.parts : remote'.parts[m] = remote.parts[m]
    BY <1>11 DEF UserAdds, ObjectPlaces, Over
  <2>2. NoneLost' /\ HasErcs(first)' /\ FileNamed'
    BY <2>1 DEF LosesNothing, NoneLost, HasErcs, FileNamed, StillThere, Replaced, ObjOpt, IsObject
  <2>3. HasErcs(remote)'
    <3>1. "mine" # NoErc
      BY DEF NoErc
    <3> QED BY <2>1, <3>1 DEF LosesNothing, HasErcs
  <2>4. objPc = "parts" => SeenKept'
    BY <2>1 DEF LosesNothing, SeenKept, Replaced, ObjOpt, IsObject
  <2> QED BY <2>1, <2>2, <2>3, <2>4 DEF LosesNothing, ObjOpt, IsObject
<1>12. CASE UNCHANGED objectVars
  BY <1>12 DEF objectVars, ObjectPlaces, LosesNothing, NoneLost, HasErcs, FileNamed, SeenKept, StillThere, Replaced, ObjOpt, IsObject
<1>13. ASSUME NEW n \in todo, ReconcilePart(n) PROVE LosesNothing'
  <2>1. /\ UNCHANGED <<obj, file, objPc, first, seen, surplus, added>> /\ objPc = "parts"
        /\ remote' = remote \/ remote' = WithPart(n)
    BY <1>13 DEF ReconcilePart
  <2>2. NoneLost' /\ HasErcs(remote)'
    <3>1. CASE remote' = remote
      BY <2>1, <3>1 DEF LosesNothing, NoneLost, HasErcs, StillThere, Replaced, ObjOpt, IsObject
    <3>2. CASE remote' = WithPart(n)
      BY <2>1, <3>2, PartKeeps
    <3> QED BY <2>1, <3>1, <3>2
  <2> QED BY <2>1, <2>2 DEF LosesNothing, HasErcs, FileNamed, SeenKept, Replaced, ObjOpt, IsObject
<1>14. ASSUME NEW n \in surplus, DeleteEntry(n) PROVE LosesNothing'
  <2>1. /\ UNCHANGED <<obj, file, objPc, first, seen, added>> /\ objPc = "parts" /\ surplus' = surplus \ {n}
        /\ remote'.fields = remote.fields /\ DOMAIN remote'.parts = DOMAIN remote.parts \ {n}
        /\ \A m \in DOMAIN remote'.parts : remote'.parts[m] = remote.parts[m]
    BY <1>14 DEF DeleteEntry, ObjectPlaces
  <2>2. ~IsObject
    BY <2>1 DEF LosesNothing
  <2>3. ~ObjOpt.breaking => n \notin DOMAIN first.parts
    BY <2>1, <2>2 DEF ObjectPlaces, LosesNothing, ObjOpt, IsObject, Announced, Removals, NamedOnly, NothingHidden
  <2> QED BY <2>1, <2>2, <2>3 DEF LosesNothing, NoneLost, HasErcs, FileNamed, SeenKept, StillThere, Replaced, ObjOpt, IsObject
<1> QED BY <1>1, <1>2, <1>3, <1>4, <1>5, <1>6, <1>7, <1>8, <1>9, <1>10, <1>11, <1>12, <1>13, <1>14 DEF ObjectNext, ObjectStep

\* The last comparison is of what is stored.
LEMMA EndsKeep ==
  ASSUME ObjectInv, ObjectNext \/ UNCHANGED objectVars
  PROVE  Ends'
<1> USE DEF ObjectInv
<1>1. CASE ExportObject
  BY <1>1 DEF ExportObject, Ends, Pending, Removals, NamedOnly, IsObject, ObjOpt, ObjectOver
<1>2. CASE ResolveFile
  BY <1>2 DEF ResolveFile, Ends, Pending, Removals, NamedOnly, IsObject, ObjOpt, ObjectOver
<1>3. CASE FindArtifact
  BY <1>3 DEF FindArtifact, Ends, Pending, Removals, NamedOnly, IsObject, ObjOpt, ObjectOver
<1>4. CASE ValidateArtifact
  BY <1>4 DEF ValidateArtifact, Ends, Pending, Removals, NamedOnly, IsObject, ObjOpt, ObjectOver
<1>5. CASE SaveArtifact
  BY <1>5 DEF SaveArtifact, Ends, Pending, Removals, NamedOnly, IsObject, ObjOpt, ObjectOver
<1>6. CASE PublishObject
  BY <1>6 DEF PublishObject, Ends, Pending, Removals, NamedOnly, IsObject, ObjOpt, ObjectOver
<1>7. CASE ListParts
  BY <1>7 DEF ListParts, Ends, Pending, Removals, NamedOnly, IsObject, ObjOpt, ObjectOver
<1>8. CASE ReadBack
  BY <1>8 DEF ReadBack, Ends, Pending, Removals, NamedOnly, IsObject, ObjOpt, ObjectOver
<1>9. CASE RequestFails
  BY <1>9, RequestLeaves DEF Ends
<1>10. CASE ImportObjectAgain
  BY <1>10 DEF ImportObjectAgain, Ends, Pending, Removals, NamedOnly, IsObject, ObjOpt, ObjectOver
<1>11. CASE UserAdds("mine")
  BY <1>11 DEF UserAdds, Ends, Pending, Removals, NamedOnly, IsObject, ObjOpt, ObjectOver
<1>12. CASE UNCHANGED objectVars
  BY <1>12 DEF objectVars, Ends, Pending, Removals, NamedOnly, IsObject, ObjOpt, ObjectOver
<1>13. ASSUME NEW n \in todo, ReconcilePart(n) PROVE Ends'
  BY <1>13 DEF ReconcilePart, Ends, Pending, Removals, NamedOnly, IsObject, ObjOpt, ObjectOver
<1>14. ASSUME NEW n \in surplus, DeleteEntry(n) PROVE Ends'
  BY <1>14 DEF DeleteEntry, Ends, Pending, Removals, NamedOnly, IsObject, ObjOpt, ObjectOver
<1> QED BY <1>1, <1>2, <1>3, <1>4, <1>5, <1>6, <1>7, <1>8, <1>9, <1>10, <1>11, <1>12, <1>13, <1>14 DEF ObjectNext, ObjectStep

\* A run that meets no fault brings one after the other in line.
LEMMA StoredDeclares ==
  ASSUME NEW p, Storable(p), NEW w
  PROVE  Declares(p, Over(Stored(p), w))
BY DEF Storable, Declares, Over, Stored

\* What is saved agrees with the item of the file that it was made of.
LEMMA SavedAgrees ==
  ASSUME NEW n, NEW item, NEW olds, NEW its, n \in DOMAIN its, its[n] = SavedItem(n, item, olds),
         NEW fileItem, fileItem.props = item.props, fileItem.erc \in {NoErc, item.erc}, Storable(fileItem.props)
  PROVE  Agrees(fileItem, its, n)
<1>1. its[n].props = Over(Stored(fileItem.props), IF olds = {} THEN <<>> ELSE (CHOOSE o \in olds : TRUE).props)
  BY DEF SavedItem
<1>2. Declares(fileItem.props, its[n].props)
  BY <1>1, StoredDeclares
<1>3. fileItem.erc \in {NoErc, its[n].erc}
  BY DEF SavedItem
<1> QED BY <1>2, <1>3 DEF Agrees

\* A saved definition declares what the file declares.
LEMMA SavedInLine ==
  ASSUME ObjectInv, AllStorable, UNCHANGED <<obj, file>>,
         (first.exists /\ remote' = Put) \/ (~first.exists /\ remote' = Posted)
  PROVE  InLine'
<1> USE DEF ObjectInv
<1>1. Storable(file.props) /\ \A n \in DOMAIN file.fields : Storable(file.fields[n].props)
  BY DEF AllStorable
<1>2. remote'.fields = ByErc(CompleteFields, remote.fields)
  BY PutIs DEF Posted
<1>3. ASSUME NEW n \in DOMAIN file.fields PROVE Agrees(file.fields[n], remote'.fields, n)
  <2>1. PICK old : remote'.fields[n] = SavedItem(n, CompleteFields[n], old) /\ n \in DOMAIN remote'.fields
    BY <1>2 DEF ByErc, CompleteFields
  <2>2. CompleteFields[n].props = file.fields[n].props /\ file.fields[n].erc \in {NoErc, CompleteFields[n].erc}
    BY DEF CompleteFields, WithErc
  <2> QED BY <1>1, <2>1, <2>2, SavedAgrees
<1>4. Declares(file.props, remote'.props)
  <2>1. CASE remote' = Put
    BY <1>1, <2>1, PutIs, StoredDeclares
  <2>2. CASE remote' = Posted
    BY <1>1, <2>2 DEF Posted, Declares, Stored, Storable
  <2> QED BY <2>1, <2>2
<1>5. DOMAIN remote'.fields = DOMAIN file.fields
  BY <1>2 DEF ByErc, CompleteFields
<1> QED BY <1>3, <1>4, <1>5 DEF InLine, Declares, Agrees

\* Without a fault each step brings the definition nearer to the file.
LEMMA GetsThereKeeps ==
  ASSUME ObjectInv, ObjectNext \/ UNCHANGED objectVars
  PROVE  GetsThere'
<1> USE DEF ObjectInv
<1>1. CASE ExportObject
  BY <1>1 DEF ExportObject, GetsThere
<1>2. CASE ResolveFile
  BY <1>2 DEF ResolveFile, GetsThere
<1>3. CASE FindArtifact
  BY <1>3 DEF FindArtifact, GetsThere
<1>4. CASE ValidateArtifact
  BY <1>4 DEF ValidateArtifact, GetsThere
<1>5. CASE SaveArtifact
  <2>1. /\ UNCHANGED <<obj, file>> /\ objPc' \notin {"parts", "mismatch"}
        /\ \/ objPc' = "error"
           \/ (first.exists /\ remote' = Put) \/ (~first.exists /\ remote' = Posted)
    BY <1>5 DEF SaveArtifact
  <2>2. AllStorable' <=> AllStorable
    BY <2>1 DEF AllStorable, Storable
  <2> QED BY <2>1, <2>2, SavedInLine DEF GetsThere
<1>6. CASE PublishObject
  <2>1. /\ UNCHANGED <<obj, file, spent>> /\ objPc = "publish" /\ objPc' = "list"
        /\ remote' = [remote EXCEPT !.approved = TRUE]
    BY <1>6 DEF PublishObject
  <2>2. remote'.props = remote.props /\ remote'.fields = remote.fields
    BY <2>1, ApprovedIs
  <2>3. (AllStorable' <=> AllStorable) /\ (InLine => InLine')
    BY <2>1, <2>2 DEF AllStorable, Storable, InLine, Declares, Agrees
  <2> QED BY <2>1, <2>3 DEF GetsThere
<1>7. CASE ListParts
  <2>1. /\ UNCHANGED <<obj, file, spent, remote>> /\ objPc = "list" /\ objPc' = "parts"
        /\ seen' = remote.parts /\ todo' = DOMAIN file.parts
        /\ surplus' = IF IsObject THEN {} ELSE NamedOnly(remote.parts, file.parts)
    BY <1>7 DEF ListParts
  <2>2. (AllStorable' <=> AllStorable) /\ (InLine => InLine')
    BY <2>1 DEF AllStorable, Storable, InLine, Declares, Agrees
  <2>3. PartsInLine'
    BY <2>1 DEF PartsInLine, NamedOnly, IsObject, ObjOpt
  <2> QED BY <2>1, <2>2, <2>3 DEF GetsThere
<1>8. CASE ReadBack
  <2>1. /\ UNCHANGED <<obj, file, spent, remote>> /\ objPc = "parts" /\ todo = {} /\ surplus = {}
        /\ objPc' = IF Pending(remote) THEN "mismatch" ELSE "ok"
    BY <1>8 DEF ReadBack
  <2>2. AllStorable' <=> AllStorable
    BY <2>1 DEF AllStorable, Storable
  <2>3. ASSUME ~spent, AllStorable PROVE ~Pending(remote)
    BY <2>1, <2>3 DEF GetsThere, InLine, PartsInLine, Agrees, Pending, Removals, NamedOnly
  <2> QED BY <2>1, <2>2, <2>3 DEF GetsThere
<1>9. CASE RequestFails
  BY <1>9, RequestLeaves DEF GetsThere
<1>10. CASE ImportObjectAgain
  BY <1>10 DEF ImportObjectAgain, GetsThere
<1>11. CASE UserAdds("mine")
  BY <1>11 DEF UserAdds, GetsThere
<1>12. CASE UNCHANGED objectVars
  <2>1. UNCHANGED <<obj, file, spent, remote, objPc, seen, todo, surplus>>
    BY <1>12 DEF objectVars
  <2> QED BY <2>1 DEF GetsThere, AllStorable, Storable, InLine, PartsInLine, Declares, Agrees, Agrees, IsObject, ObjOpt
<1>13. ASSUME NEW n \in todo, ReconcilePart(n) PROVE GetsThere'
  <2>1. /\ UNCHANGED <<obj, file, objPc, spent, seen, surplus>> /\ objPc = "parts" /\ todo' = todo \ {n}
        /\ remote' = IF UpToDate(n) THEN remote ELSE WithPart(n)
    BY <1>13 DEF ReconcilePart
  <2>2. AllStorable' <=> AllStorable
    BY <2>1 DEF AllStorable, Storable
  <2>3. ASSUME ~spent, AllStorable PROVE InLine' /\ PartsInLine'
    <3>1. InLine /\ PartsInLine /\ n \in DOMAIN file.parts
      BY <2>1, <2>3 DEF GetsThere, ObjectPlaces
    <3>2. /\ remote'.props = remote.props /\ remote'.fields = remote.fields
          /\ \A m \in DOMAIN remote.parts \ {n} : m \in DOMAIN remote'.parts /\ remote'.parts[m] = remote.parts[m]
          /\ DOMAIN remote'.parts \subseteq DOMAIN remote.parts \cup {n}
      BY <2>1, WithPartIs
    <3>3. Agrees(file.parts[n], remote'.parts, n)
      <4>1. CASE UpToDate(n)
        BY <2>1, <3>1, <4>1 DEF UpToDate, PartsInLine, Agrees
      <4>2. CASE ~UpToDate(n)
        <5>1. n \in DOMAIN remote'.parts /\ remote'.parts[n] = OfKey(n, file.parts[n], seen)
          BY <2>1, <4>2, WithPartIs
        <5>2. PICK old : remote'.parts[n] = SavedItem(n, file.parts[n], old)
          BY <5>1 DEF OfKey
        <5> QED BY <2>3, <3>1, <5>1, <5>2, SavedAgrees DEF AllStorable
      <4> QED BY <4>1, <4>2
    <3>4. InLine'
      BY <2>1, <3>1, <3>2 DEF InLine, Declares, Agrees
    <3>5. PartsInLine'
      <4>1. ASSUME NEW m \in DOMAIN file.parts \ todo'
            PROVE  Agrees(file.parts[m], remote'.parts, m)
        BY <2>1, <3>1, <3>2, <3>3 DEF PartsInLine, Agrees
      <4>2. ASSUME NEW m \in todo', m \in DOMAIN seen PROVE m \in DOMAIN remote'.parts /\ remote'.parts[m] = seen[m]
        BY <2>1, <3>1, <3>2, <4>2 DEF PartsInLine
      <4>3. ~IsObject => DOMAIN remote'.parts \subseteq DOMAIN file.parts \cup surplus
        BY <3>1, <3>2 DEF PartsInLine
      <4> QED BY <2>1, <4>1, <4>2, <4>3 DEF PartsInLine, Declares, Agrees, Agrees, IsObject, ObjOpt
    <3> QED BY <3>4, <3>5
  <2> QED BY <2>1, <2>2, <2>3 DEF GetsThere
<1>14. ASSUME NEW n \in surplus, DeleteEntry(n) PROVE GetsThere'
  <2>1. /\ UNCHANGED <<obj, file, objPc, spent, seen, todo>> /\ objPc = "parts" /\ todo = {}
        /\ surplus' = surplus \ {n} /\ remote'.props = remote.props /\ remote'.fields = remote.fields
        /\ DOMAIN remote'.parts = DOMAIN remote.parts \ {n}
        /\ \A m \in DOMAIN remote'.parts : remote'.parts[m] = remote.parts[m]
    BY <1>14 DEF DeleteEntry, ObjectPlaces
  <2>2. (AllStorable' <=> AllStorable) /\ (InLine => InLine')
    BY <2>1 DEF AllStorable, Storable, InLine, Declares, Agrees
  <2>3. PartsInLine => PartsInLine'
    BY <2>1 DEF PartsInLine, Declares, Agrees, Agrees, IsObject, ObjOpt, LosesNothing
  <2> QED BY <2>1, <2>2, <2>3 DEF GetsThere
<1> QED BY <1>1, <1>2, <1>3, <1>4, <1>5, <1>6, <1>7, <1>8, <1>9, <1>10, <1>11, <1>12, <1>13, <1>14 DEF ObjectNext, ObjectStep

\* What was exported is what is sent back.
LEMMA OverSame ==
  ASSUME NEW p, Bundle(p), Storable(p)
  PROVE  Over(Stored(p), p) = p
<1>1. p = [k \in DOMAIN p |-> p[k]]
  BY DEF Bundle
<1>2. DOMAIN Stored(p) = DOMAIN p /\ \A k \in DOMAIN p : Stored(p)[k] = p[k]
  BY DEF Stored, Storable
<1>3. Over(Stored(p), p) = [k \in DOMAIN p |-> p[k]]
  BY <1>2 DEF Over
<1> QED BY <1>1, <1>3

\* An item that is saved over itself stays as it is.
LEMMA SavedSame ==
  ASSUME NEW n, NEW its, ItemsOK(its), n \in DOMAIN its, Storable(its[n].props)
  PROVE  SavedItem(n, its[n], {its[n]}) = its[n]
<1>1. ItemOK(its[n]) /\ its[n].erc # NoErc
  BY DEF ItemsOK
<1>2. Over(Stored(its[n].props), its[n].props) = its[n].props
  BY <1>1, OverSame DEF ItemOK
<1>3. (CHOOSE o \in {its[n]} : TRUE) = its[n]
  OBVIOUS
<1>4. SavedItem(n, its[n], {its[n]}) = [erc |-> its[n].erc, props |-> its[n].props]
  BY <1>1, <1>2, <1>3 DEF SavedItem
<1> QED BY <1>1, <1>4 DEF ItemOK

\* Items that have ERCs get no others.
LEMMA KnownErcs ==
  ASSUME NEW its, ItemsOK(its)
  PROVE  [n \in DOMAIN its |-> WithErc(n, its[n], its)] = its
<1>1. ASSUME NEW n \in DOMAIN its PROVE WithErc(n, its[n], its) = its[n]
  BY <1>1 DEF WithErc, ItemsOK, ItemOK
<1>2. its = [n \in DOMAIN its |-> its[n]]
  BY DEF ItemsOK
<1> QED BY <1>1, <1>2

\* A body that is what the portal holds changes nothing, by ERC or by key.
LEMMA ByErcSame ==
  ASSUME NEW its, ItemsOK(its), \A n \in DOMAIN its : Storable(its[n].props)
  PROVE  ByErc(its, its) = its
<1>1. ASSUME NEW n \in DOMAIN its PROVE SavedItem(n, its[n], {its[m] : m \in SameErc(its[n], its)}) = its[n]
  <2>1. SameErc(its[n], its) = {n}
    BY <1>1 DEF SameErc, ItemsOK
  <2>2. {its[m] : m \in SameErc(its[n], its)} = {its[n]}
    BY <2>1
  <2> QED BY <2>2, SavedSame
<1>2. its = [n \in DOMAIN its |-> its[n]]
  BY DEF ItemsOK
<1> QED BY <1>1, <1>2 DEF ByErc

LEMMA OfKeySame ==
  ASSUME NEW its, ItemsOK(its), \A n \in DOMAIN its : Storable(its[n].props)
  PROVE  [n \in DOMAIN its |-> OfKey(n, its[n], its)] = its
<1>1. ASSUME NEW n \in DOMAIN its PROVE OfKey(n, its[n], its) = its[n]
  <2>1. {its[m] : m \in {n} \cap DOMAIN its} = {its[n]}
    OBVIOUS
  <2> QED BY <2>1, SavedSame DEF OfKey
<1>2. its = [n \in DOMAIN its |-> its[n]]
  BY DEF ItemsOK
<1> QED BY <1>1, <1>2

\* Saving what was exported changes nothing.
LEMMA PutAsExported ==
  ASSUME ObjectPlaces, first.exists, AsPortal(remote), AllStorable,
         file.props = obj.portal.props, file.fields = obj.portal.fields, file.parts = obj.portal.parts,
         first.fields = obj.portal.fields, first.parts = obj.portal.parts
  PROVE  AsPortal(Put)
<1> DEFINE F == obj.portal.fields
           Q == obj.portal.parts
<1>1. ArtifactOK(obj.portal)
  BY ObjectAssumption DEF ObjectPlaces, ObjectCaseOK
<1>2. Put.props = obj.portal.props
  <2>1. Bundle(obj.portal.props) /\ Storable(obj.portal.props)
    BY <1>1 DEF ArtifactOK, AllStorable
  <2>2. Over(Stored(obj.portal.props), obj.portal.props) = obj.portal.props
    BY <2>1, OverSame
  <2> QED BY <2>2, PutIs DEF AsPortal
<1>3. \A its \in {F, Q} : ItemsOK(its) /\ \A n \in DOMAIN its : Storable(its[n].props)
  BY <1>1 DEF ArtifactOK, AllStorable
<1> HIDE DEF F, Q
<1>4. Put.fields = F
  <2>1. [n \in DOMAIN F |-> WithErc(n, F[n], F)] = F
    BY <1>3, KnownErcs
  <2>2. CompleteFields = F
    BY <2>1 DEF CompleteFields, F
  <2> QED BY <1>3, <2>2, PutIs, ByErcSame DEF AsPortal, F
<1>5. Put.parts = Q
  <2>1. CompleteParts = Q
    <3>1. [n \in DOMAIN Q |-> WithErc(n, Q[n], Q)] = Q
      BY <1>3, KnownErcs
    <3>2. Q = [n \in DOMAIN Q |-> Q[n]]
      BY <1>3 DEF ItemsOK
    <3>3. Over(Q, Q) = Q
      BY <3>2 DEF Over
    <3> QED BY <3>1, <3>3 DEF CompleteParts, Q
  <2>2. remote.parts = Q /\ file.parts = Q
    BY DEF AsPortal, Q
  <2>3. ByErc(Q, Q) = Q
    BY <1>3, ByErcSame
  <2>4. [n \in DOMAIN Q |-> OfKey(n, Q[n], Q)] = Q
    BY <1>3, OfKeySame
  <2>5. [n \in KeptParts |-> Q[n]] = Q
    <3>1. KeptParts = DOMAIN Q
      BY <2>1, <2>2 DEF KeptParts
    <3>2. Q = [n \in DOMAIN Q |-> Q[n]]
      BY <1>3 DEF ItemsOK
    <3> QED BY <3>1, <3>2
  <2>6. PutParts = Q
    BY <2>1, <2>2, <2>3, <2>4, <2>5 DEF PutParts
  <2> QED BY <2>6, PutIs
<1> QED BY <1>2, <1>4, <1>5, PutIs DEF AsPortal, F, Q

\* Nor does any other step.
LEMMA ExportKeeps ==
  ASSUME ObjectInv, ObjectNext \/ UNCHANGED objectVars
  PROVE  AsExported'
<1> USE DEF ObjectInv
<1>1. CASE ExportObject
  <2>1. /\ UNCHANGED <<obj, remote, first, added, objectRuns, objectFaults>> /\ objPc = "start"
        /\ objectRuns = 0 /\ remote = obj.portal
        /\ \/ objPc' = "error"
           \/ /\ objPc' = "ready" /\ remote.exists
              /\ file' = [file EXCEPT !.props = remote.props, !.fields = remote.fields, !.parts = remote.parts, !.valid = TRUE]
    BY <1>1 DEF ExportObject, ObjectPlaces
  <2>2. objPc' = "ready" => file'.props = remote.props /\ file'.fields = remote.fields /\ file'.parts = remote.parts
    BY <2>1 DEF ObjectPlaces
  <2> QED BY <2>1, <2>2 DEF AsExported, ObjOpt
<1>2. CASE ResolveFile
  <2>1. /\ UNCHANGED <<obj, remote, file, first, objectFaults>> /\ objectRuns' = objectRuns + 1
        /\ objPc' \in {"find", "error"} /\ (objPc = "ready" \/ ~ObjOpt.export)
    BY <1>2 DEF ResolveFile
  <2>2. CASE objectRuns # 0 \/ ~ObjOpt.export
    BY <2>1, <2>2 DEF AsExported, ObjOpt, ObjectPlaces
  <2>3. CASE objectRuns = 0 /\ objPc = "ready" /\ ObjOpt.export /\ added = {}
    BY <2>1, <2>3 DEF AsExported, AsPortal, ObjOpt
  <2> QED BY <2>1, <2>2, <2>3 DEF AsExported, ObjectPlaces
<1>3. CASE FindArtifact
  BY <1>3 DEF FindArtifact, AsExported, AsPortal, AllStorable, Storable, ObjOpt, ObjectPlaces
<1>4. CASE ValidateArtifact
  BY <1>4 DEF ValidateArtifact, AsExported, AsPortal, AllStorable, Storable, ObjOpt, ObjectPlaces
<1>5. CASE SaveArtifact
  <2>1. /\ UNCHANGED <<obj, file, first, added, objectRuns, objectFaults>> /\ objPc = "save"
        /\ objPc' \in {"error", "publish", "list"}
        /\ \/ remote' = remote \/ (first.exists /\ remote' = Put) \/ (~first.exists /\ remote' = Posted)
    BY <1>5 DEF SaveArtifact
  <2>2. AllStorable' <=> AllStorable
    BY <2>1 DEF AllStorable, Storable
  <2>3. SUFFICES ASSUME ObjOpt.export, objectFaults = 0, added = {}, objectRuns = 1 PROVE AsExported'
    BY <2>1 DEF AsExported, ObjOpt, ObjectPlaces
  <2>4. AllStorable => AsPortal(remote)' /\ first.exists
    BY <2>1, <2>3, PutAsExported, PutIs DEF AsExported, AsPortal
  <2>5. remote'.exists
    BY <2>1, <2>3, PutIs DEF AsExported, ObjectPlaces
  <2> QED BY <2>1, <2>2, <2>3, <2>4, <2>5 DEF AsExported, AsPortal, ObjOpt, ObjectPlaces
<1>6. CASE PublishObject
  BY <1>6 DEF PublishObject, AsExported, AsPortal, AllStorable, Storable, ObjOpt, ObjectPlaces
<1>7. CASE ListParts
  <2>1. /\ UNCHANGED <<obj, remote, file, first, added, objectRuns, objectFaults>> /\ objPc = "list"
        /\ seen' = remote.parts /\ surplus' = IF IsObject THEN {} ELSE NamedOnly(remote.parts, file.parts)
    BY <1>7 DEF ListParts
  <2>2. AllStorable' <=> AllStorable
    BY <2>1 DEF AllStorable, Storable
  <2> QED BY <2>1, <2>2 DEF AsExported, AsPortal, ObjOpt, NamedOnly, ObjectPlaces
<1>8. CASE ReadBack
  BY <1>8 DEF ReadBack, AsExported, AsPortal, AllStorable, Storable, ObjOpt, ObjectPlaces
<1>9. CASE RequestFails
  BY <1>9, RequestLeaves DEF AsExported, ObjectPlaces
<1>10. CASE ImportObjectAgain
  BY <1>10 DEF ImportObjectAgain, AsExported, AsPortal, AllStorable, Storable, ObjOpt, ObjectPlaces
<1>11. CASE UserAdds("mine")
  BY <1>11 DEF UserAdds, AsExported, AsPortal, AllStorable, Storable, ObjOpt, ObjectPlaces
<1>12. CASE UNCHANGED objectVars
  BY <1>12 DEF objectVars, AsExported, AsPortal, AllStorable, Storable, ObjOpt, ObjectPlaces
<1>13. ASSUME NEW n \in todo, ReconcilePart(n) PROVE AsExported'
  <2>1. /\ UNCHANGED <<obj, file, objPc, first, seen, surplus, added, objectRuns, objectFaults>> /\ objPc = "parts"
        /\ remote' = IF UpToDate(n) THEN remote ELSE WithPart(n)
    BY <1>13 DEF ReconcilePart
  <2>2. AllStorable' <=> AllStorable
    BY <2>1 DEF AllStorable, Storable
  <2>3. seen = file.parts => remote' = remote
    BY <2>1 DEF UpToDate, Agrees, Declares, ObjectPlaces
  <2>4. remote'.exists = remote.exists
    BY <2>1, WithPartIs
  <2> QED BY <2>1, <2>2, <2>3, <2>4 DEF AsExported, AsPortal, ObjOpt, ObjectPlaces
<1>14. ASSUME NEW n \in surplus, DeleteEntry(n) PROVE AsExported'
  BY <1>14 DEF DeleteEntry, AsExported, AsPortal, AllStorable, Storable, ObjOpt, ObjectPlaces
<1> QED BY <1>1, <1>2, <1>3, <1>4, <1>5, <1>6, <1>7, <1>8, <1>9, <1>10, <1>11, <1>12, <1>13, <1>14 DEF ObjectNext, ObjectStep

\* Each step keeps every part of it.
LEMMA ObjectKeeps ==
  ASSUME ObjectInv, [ObjectNext]_objectVars
  PROVE  ObjectInv'
<1>1. ObjectNext \/ UNCHANGED objectVars
  OBVIOUS
<1> QED BY <1>1, PlacesKeep, LosesKeeps, EndsKeep, GetsThereKeeps, ExportKeeps DEF ObjectInv

\* And it says what an imported definition is.
LEMMA ObjectHolds ==
  ASSUME ObjectInv
  PROVE  ObjectsAreFaithful
<1> USE DEF ObjectInv
<1>1. NothingLost
  BY DEF NothingLost, LosesNothing, NoneLost, HasErcs, FileNamed, SeenKept, StillThere, Replaced
<1>2. Converges
  BY DEF Converges, ObjectPlaces, GetsThere, Ends
<1>3. ExportChangesNothing
  <2>1. SUFFICES ASSUME AsPortal(remote) PROVE [remote EXCEPT !.approved = TRUE] = [obj.portal EXCEPT !.approved = TRUE]
    BY DEF ExportChangesNothing, AsExported
  <2>2. /\ DOMAIN remote = {"exists", "approved", "props", "fields", "parts"}
        /\ DOMAIN obj.portal = {"exists", "approved", "props", "fields", "parts"}
    BY ObjectAssumption DEF ObjectPlaces, ObjectCaseOK, ArtifactOK
  <2> QED BY <2>1, <2>2 DEF AsPortal
<1> QED BY <1>1, <1>2, <1>3 DEF ObjectsAreFaithful

-----------------------------------------------------------------------------
(* Client extensions: what a deployment reads of the log of the portal.     *)
\* Bounded sets of numbers have a greatest element.
LEMMA GreatestOf ==
  ASSUME NEW n \in Nat, NEW S, S \subseteq 0 .. n, S # {}
  PROVE  Max(S) \in S /\ \A x \in S : x <= Max(S)
<1> DEFINE T == {n - x : x \in S}
<1>1. T \subseteq Nat /\ T # {}
  <2>1. ASSUME NEW x \in S PROVE n - x \in Nat
    OBVIOUS
  <2> QED BY <2>1
<1>2. Min(T) \in T /\ \A y \in T : Min(T) <= y
  <2> HIDE DEF T
  <2> QED BY <1>1, LeastOf
<1>3. PICK m \in S : Min(T) = n - m
  BY <1>2
<1>7. \A x \in S : Min(T) <= n - x
  BY <1>2
<1> HIDE DEF T
<1>4. \A x \in S : x <= m
  <2> SUFFICES ASSUME NEW x \in S PROVE x <= m
    OBVIOUS
  <2>1. Min(T) <= n - x /\ x \in Nat /\ m \in Nat /\ Min(T) = n - m
    BY <1>3, <1>7
  <2> QED BY <2>1
<1>5. \E x \in S : \A y \in S : x >= y
  <2>1. \A x \in S : m >= x
    BY <1>4
  <2> QED BY <2>1
<1>6. Max(S) \in S /\ \A y \in S : Max(S) >= y
  BY <1>5 DEF Max
<1> QED BY <1>6

\* The log, what is read of it, and what the portal has done when it has written a line.
LinesSince == {i \in DOMAIN portalLog : i >= logFrom}
\* A step of the installation: its run, and the file it loads (0: the bundle).
InstallSteps == [run : Nat, file : 0 .. Len(extension.files)]
\* What was read of the log is a stretch of it, line by line.
ExtensionTypes ==
  /\ extension \in Extensions
  /\ portalLog \in Seq(LogLines) /\ deployRun \in Nat /\ portalErrors \in Nat
  /\ logFrom \in Nat \ {0} /\ logFrom <= Len(portalLog) + 1
  /\ installing \in Seq(InstallSteps)
  /\ \A i \in DOMAIN installing : installing[i].run <= deployRun
  /\ itemsStored \in [BatchFiles -> BOOLEAN]
  /\ deployPc \in {"start", "poll", "look", "bundleState", "files", "inactive", "ok", "error", "timeout", "offline", "off"}
  /\ \A i \in DOMAIN portalLog : portalLog[i].run <= deployRun
  /\ Len(events) \in Nat /\ DOMAIN events = 1 .. Len(events)
  /\ \A i \in DOMAIN events : logFrom + i - 1 \in LinesSince /\ events[i] = portalLog[logFrom + i - 1]
\* Something failed, or an earlier line was there to be read.
Excused == portalErrors > 0 \/ Overlap
\* A line says what was done, unless so.
LineHolds(l) ==
  ~Excused => /\ l.kind = "started" => bundleState = "Active"
              /\ l.kind = "batch-ok" => l.file \in BatchFiles /\ itemsStored[l.file]
              /\ l.kind # "batch-failed"
\* What the command has waited for and read back.
DeployPlaces ==
  /\ deployPc \in {"bundleState", "files", "inactive", "ok", "error"} =>
       (Happened("started") /\ Settled) \/ Happened("batch-failed")
  /\ deployPc \in {"files", "inactive", "ok", "error"} =>
       \A f \in DOMAIN outcome : /\ f \in BatchFiles /\ outcome[f] = BatchStatus(f)
                                 /\ (f \in missing \cup extension.unreadable \/ itemsStored[f])
  /\ deployPc \in {"inactive", "error"} \/ missing # {} => Excused
  /\ deployPc = "ok" => missing = {} /\ DOMAIN outcome = BatchFiles /\ \A f \in BatchFiles : outcome[f] # "failed"
  /\ deployPc = "offline" => \A f \in BatchFiles : outcome[f] = "pending"
\* The inductive invariant of a deployment.
ExtensionInv ==
  /\ ExtensionTypes /\ DeployPlaces
  /\ deployPc \notin {"start", "off"} => \A i \in LinesSince : LineHolds(portalLog[i])

\* The last line of a file is one of its lines.
LEMMA EventFound ==
  ASSUME ExtensionTypes, NEW f
  PROVE  \/ BatchEvent(f) = 0
         \/ /\ BatchEvent(f) \in DOMAIN events /\ events[BatchEvent(f)].file = f
            /\ events[BatchEvent(f)].kind \in {"batch-ok", "batch-failed"}
<1> DEFINE I == {i \in 1 .. Len(events) : events[i].kind \in {"batch-ok", "batch-failed"} /\ events[i].file = f}
<1>1. BatchEvent(f) = IF I # {} THEN Max(I) ELSE 0
  BY DEF BatchEvent, SelectLastInSeq
<1>2. I # {} => Max(I) \in I
  <2>1. I \subseteq 0 .. Len(events) /\ Len(events) \in Nat
    BY DEF ExtensionTypes
  <2> HIDE DEF I
  <2> QED BY <2>1, GreatestOf
<1> QED BY <1>1, <1>2 DEF ExtensionTypes

\* What is said of the lines read.
LEMMA ReadLines ==
  ASSUME ExtensionInv, deployPc \notin {"start", "off"}, NEW i \in DOMAIN events
  PROVE  LineHolds(events[i])
BY DEF ExtensionInv, ExtensionTypes

\* Before a deployment nothing of it has been read.
LEMMA ExtensionStarts ==
  ASSUME NEW pc \in {"start", "off"}, NEW run \in Nat, ExtensionStart(pc, run)
  PROVE  ExtensionInv
<1>1. extension.before \in Seq({l \in LogLines : l.run = 0}) /\ extension \in Extensions
  BY ExtensionAssumption DEF ExtensionStart
<1>2. /\ portalLog \in Seq(LogLines) /\ Len(portalLog) \in Nat
      /\ \A i \in DOMAIN portalLog : portalLog[i].run = 0
  BY <1>1 DEF ExtensionStart
<1>3. ExtensionTypes
  BY <1>2, ExtensionAssumption DEF ExtensionStart, ExtensionTypes, LinesSince, BatchFiles
<1> QED BY <1>3 DEF ExtensionInv, ExtensionStart, DeployPlaces

\* The portal writes a line.
LEMMA LineWritten ==
  ASSUME ExtensionInv, installing # <<>>, UNCHANGED <<extension, logFrom, events>>, deployRun' = deployRun,
         NEW k \in {"started", "batch-ok", "batch-failed"}, k = "started" <=> Work.file = 0, Writes(k),
         itemsStored' \in [BatchFiles -> BOOLEAN],
         \A f \in BatchFiles : itemsStored[f] => itemsStored'[f],
         bundleState = "Active" => bundleState' = "Active",
         portalErrors' \in Nat, portalErrors' >= portalErrors,
         installing' \in {installing, Tail(installing)}, UNCHANGED deployPc,
         portalErrors' = 0 => /\ k = "started" => bundleState' = "Active"
                              /\ k = "batch-ok" => Work.file \in BatchFiles /\ itemsStored'[Work.file]
                              /\ k # "batch-failed"
  PROVE  /\ ExtensionTypes' /\ (Excused => Excused')
         /\ deployPc' \notin {"start", "off"} => \A i \in LinesSince' : LineHolds(portalLog[i])'
<1> DEFINE l == [kind |-> k, file |-> Work.file, run |-> Work.run]
<1>1. /\ portalLog \in Seq(LogLines) /\ Len(portalLog) \in Nat /\ deployRun \in Nat
      /\ installing \in Seq(InstallSteps)
      /\ Len(extension.files) \in Nat /\ BatchFiles = 1 .. Len(extension.files)
  BY ExtensionAssumption DEF ExtensionInv, ExtensionTypes, BatchFiles
<1>2. Work = installing[1] /\ Work \in InstallSteps /\ Work.run <= deployRun
  <2>1. 1 \in DOMAIN installing
    BY <1>1
  <2> QED BY <1>1, <2>1 DEF Work, ExtensionInv, ExtensionTypes
<1>3. l \in LogLines
  <2>1. Work.run \in Nat /\ Work.file \in Nat
    BY <1>1, <1>2 DEF InstallSteps
  <2>2. CASE k = "started"
    BY <2>1, <2>2 DEF LogLines
  <2>3. CASE k \in {"batch-ok", "batch-failed"}
    BY <2>1, <2>3 DEF LogLines
  <2> QED BY <2>2, <2>3
<1>4. portalLog' = Append(portalLog, l)
  BY DEF Writes
<1> HIDE DEF l
<1>5. /\ portalLog' \in Seq(LogLines) /\ Len(portalLog') = Len(portalLog) + 1
      /\ portalLog'[Len(portalLog) + 1] = l
      /\ \A i \in 1 .. Len(portalLog) : portalLog'[i] = portalLog[i]
  BY <1>1, <1>3, <1>4
<1>6. LinesSince' = LinesSince \cup {Len(portalLog) + 1}
  BY <1>1, <1>5 DEF LinesSince, ExtensionInv, ExtensionTypes
<1>7. /\ installing' \in Seq(InstallSteps)
      /\ \A i \in DOMAIN installing' : installing'[i].run <= deployRun
  <2>1. CASE installing' = installing
    BY <2>1 DEF ExtensionInv, ExtensionTypes
  <2>2. CASE installing' = Tail(installing)
    <3>1. /\ Tail(installing) \in Seq(InstallSteps)
          /\ \A i \in DOMAIN Tail(installing) : i + 1 \in DOMAIN installing /\ Tail(installing)[i] = installing[i + 1]
      BY <1>1
    <3> QED BY <2>2, <3>1 DEF ExtensionInv, ExtensionTypes
  <2> QED BY <2>1, <2>2
<1>8. \A i \in LinesSince : i \in 1 .. Len(portalLog)
  BY <1>1 DEF LinesSince
<1>9. l.run <= deployRun /\ l.kind = k /\ l.file = Work.file
  BY <1>2 DEF l
<1>10. ExtensionTypes'
  <2>1. \A i \in DOMAIN portalLog' : portalLog'[i].run <= deployRun
    <3>1. DOMAIN portalLog' = 1 .. Len(portalLog) + 1 /\ DOMAIN portalLog = 1 .. Len(portalLog)
      BY <1>1, <1>5
    <3>2. \A i \in 1 .. Len(portalLog) : portalLog[i].run <= deployRun
      BY <3>1 DEF ExtensionInv, ExtensionTypes
    <3>3. \A i \in 1 .. Len(portalLog) + 1 : i \in 1 .. Len(portalLog) \/ i = Len(portalLog) + 1
      BY <1>1
    <3> QED BY <1>5, <1>9, <3>1, <3>2, <3>3
  <2>2. \A i \in DOMAIN events : logFrom + i - 1 \in LinesSince' /\ events[i] = portalLog'[logFrom + i - 1]
    BY <1>5, <1>6, <1>8 DEF ExtensionInv, ExtensionTypes
  <2>3. logFrom <= Len(portalLog') + 1
    BY <1>1, <1>5 DEF ExtensionInv, ExtensionTypes
  <2>4. InstallSteps' = InstallSteps /\ BatchFiles' = BatchFiles
    BY DEF InstallSteps, BatchFiles
  <2> QED BY <1>5, <1>7, <2>1, <2>2, <2>3, <2>4 DEF ExtensionInv, ExtensionTypes
<1>12. Excused => Excused'
  <2>1. Overlap => Overlap'
    <3>1. \A i \in DOMAIN portalLog : i \in DOMAIN portalLog' /\ portalLog'[i] = portalLog[i]
      BY <1>1, <1>5
    <3> QED BY <3>1 DEF Overlap
  <2>2. portalErrors > 0 => portalErrors' > 0
    BY DEF ExtensionInv, ExtensionTypes
  <2> QED BY <2>1, <2>2 DEF Excused
<1>13. ~Excused' => portalErrors' = 0
  BY DEF Excused
<1>11. ASSUME NEW i \in LinesSince', deployPc \notin {"start", "off"} PROVE LineHolds(portalLog[i])'
  <2>1. CASE i \in LinesSince
    <3>1. portalLog'[i] = portalLog[i] /\ LineHolds(portalLog[i])
      BY <2>1, <1>5, <1>8, <1>11 DEF ExtensionInv
    <3> QED BY <3>1, <1>12 DEF LineHolds, BatchFiles
  <2>2. CASE i = Len(portalLog) + 1
    <3>1. portalLog'[i] = l
      BY <2>2, <1>5
    <3> QED BY <3>1, <1>9, <1>13 DEF LineHolds, BatchFiles
  <2> QED BY <1>6, <2>1, <2>2
<1> QED BY <1>10, <1>11, <1>12

\* What was read is not read again.
LEMMA EventsStay ==
  ASSUME UNCHANGED <<extension, events>>
  PROVE  /\ \A f : BatchStatus(f)' = BatchStatus(f)
         /\ Settled' = Settled /\ \A k : Happened(k)' = Happened(k) /\ BatchFiles' = BatchFiles
<1>1. \A f : BatchEvent(f)' = BatchEvent(f)
  BY DEF BatchEvent, SelectLastInSeq
<1>2. BatchFiles' = BatchFiles
  BY DEF BatchFiles
<1>3. \A f : BatchStatus(f)' = BatchStatus(f)
  BY <1>1 DEF BatchStatus
<1>4. Settled' = Settled
  BY <1>1, <1>2 DEF Settled
<1>5. \A k : Happened(k)' = Happened(k)
  BY DEF Happened
<1> QED BY <1>2, <1>3, <1>4, <1>5

\* Nothing the command has read or said is undone by the portal.
LEMMA PlacesStay ==
  ASSUME ExtensionTypes, DeployPlaces, UNCHANGED <<extension, events, deployPc, outcome, missing>>,
         \A f \in BatchFiles : itemsStored[f] => itemsStored'[f], Excused => Excused'
  PROVE  DeployPlaces'
<1>1. /\ \A f : BatchStatus(f)' = BatchStatus(f)
      /\ Settled' = Settled /\ \A k : Happened(k)' = Happened(k) /\ BatchFiles' = BatchFiles
  BY EventsStay
<1> QED BY <1>1 DEF DeployPlaces

\* A failure is not forgotten while a command runs.
LEMMA ExcuseStays ==
  ASSUME ExtensionTypes, UNCHANGED <<portalLog, deployRun, logFrom>>, portalErrors' \in Nat, portalErrors' >= portalErrors
  PROVE  Excused => Excused'
BY DEF ExtensionTypes, Excused, Overlap

\* Each step keeps it.
LEMMA ExtensionKeeps ==
  ASSUME ExtensionInv, [ExtensionNext]_extensionVars
  PROVE  ExtensionInv'
<1> USE DEF ExtensionInv
<1>0. /\ Len(extension.files) \in Nat /\ deployRun \in Nat /\ BatchFiles = 1 .. Len(extension.files)
      /\ extension.unreadable \subseteq BatchFiles
      /\ PortalErrors \in Nat /\ portalLog \in Seq(LogLines) /\ Len(portalLog) \in Nat
      /\ installing \in Seq(InstallSteps)
      /\ \A i \in DOMAIN installing : installing[i].run \in Nat /\ installing[i].run <= deployRun
  <2>1. /\ Len(extension.files) \in Nat /\ BatchFiles = 1 .. Len(extension.files)
        /\ extension.unreadable \subseteq BatchFiles
    BY ExtensionAssumption DEF ExtensionTypes, BatchFiles
  <2>2. installing \in Seq(InstallSteps) /\ \A i \in DOMAIN installing : installing[i].run <= deployRun
    BY DEF ExtensionTypes
  <2>3. \A i \in DOMAIN installing : installing[i] \in InstallSteps
    BY <2>2
  <2>4. \A r \in InstallSteps : r.run \in Nat
    BY DEF InstallSteps
  <2>5. PortalErrors \in Nat
    BY ExtensionAssumption
  <2> QED BY <2>1, <2>2, <2>3, <2>4, <2>5 DEF ExtensionTypes
<1>1. CASE UNCHANGED extensionVars
  <2>1. Excused => Excused'
    BY <1>1 DEF extensionVars, Excused, Overlap
  <2>2. DeployPlaces'
    BY <1>1, <2>1, PlacesStay DEF extensionVars, ExtensionTypes
  <2> QED BY <1>1, <2>1, <2>2 DEF extensionVars, ExtensionTypes, InstallSteps, LinesSince, LineHolds, BatchFiles
<1>2. CASE Deploy
  <2>1. /\ logFrom' \in 1 .. Len(portalLog) + 1 /\ portalLog' = portalLog /\ extension' = extension /\ events' = <<>>
        /\ deployRun' = deployRun + 1 /\ missing' = {} /\ itemsStored' = itemsStored /\ portalErrors' = portalErrors
        /\ \/ deployPc' = "poll"
           \/ deployPc' = "offline" /\ outcome' = [f \in BatchFiles |-> "pending"]
    BY <1>2 DEF Deploy
  <2>2. ASSUME NEW i \in LinesSince' PROVE Excused'
    <3>1. i \in DOMAIN portalLog' /\ i >= logFrom'
      BY <2>2 DEF LinesSince
    <3>2. portalLog[i] \in LogLines
      BY <2>1, <3>1, <1>0
    <3>3. portalLog'[i].run < deployRun'
      BY <2>1, <3>1, <3>2, <1>0 DEF ExtensionTypes, LogLines
    <3> QED BY <3>1, <3>3 DEF Excused, Overlap
  <2>3. /\ installing' \in Seq(InstallSteps)
        /\ \A i \in DOMAIN installing' : installing'[i].run <= deployRun + 1
    <3>1. CASE UNCHANGED installing
      <4>1. \A i \in DOMAIN installing : installing[i].run \in Nat /\ installing[i].run <= deployRun
        BY <1>0
      <4> QED BY <3>1, <1>0, <4>1 DEF ExtensionTypes
    <3>2. CASE extension.running
      <4> DEFINE more == [i \in 1 .. Len(extension.files) + 1 |-> [run |-> deployRun + 1, file |-> i - 1]]
      <4>1. installing' = installing \o more
        BY <1>2, <2>1, <3>2 DEF Deploy
      <4>2. more \in Seq(InstallSteps)
        <5>1. \A i \in 1 .. Len(extension.files) + 1 : [run |-> deployRun + 1, file |-> i - 1] \in InstallSteps
          BY <1>0 DEF InstallSteps
        <5> QED BY <1>0, <5>1
      <4>3. /\ \A i \in DOMAIN more : more[i].run <= deployRun + 1
            /\ \A i \in DOMAIN installing : installing[i].run <= deployRun + 1
        <5>1. \A i \in DOMAIN installing : installing[i].run \in Nat /\ installing[i].run <= deployRun
          BY <1>0
        <5> QED BY <5>1 DEF ExtensionTypes
      <4> HIDE DEF more
      <4>4. /\ installing' \in Seq(InstallSteps)
            /\ \A i \in DOMAIN installing' :
              \/ i \in DOMAIN installing /\ installing'[i] = installing[i]
              \/ i - Len(installing) \in DOMAIN more /\ installing'[i] = more[i - Len(installing)]
        BY <1>0, <4>1, <4>2
      <4> QED BY <4>3, <4>4
    <3> QED BY <1>2, <3>1, <3>2 DEF Deploy
  <2>4. ExtensionTypes'
    <3>1. \A i \in DOMAIN portalLog' : portalLog'[i].run <= deployRun'
      <4>1. \A i \in DOMAIN portalLog : portalLog[i] \in LogLines
        BY <1>0
      <4>2. \A l \in LogLines : l.run \in Nat
        BY DEF LogLines
      <4> QED BY <2>1, <1>0, <4>1, <4>2 DEF ExtensionTypes
    <3>2. logFrom' \in Nat \ {0} /\ logFrom' <= Len(portalLog') + 1
      BY <2>1, <1>0
    <3> QED BY <2>1, <2>3, <3>1, <3>2, <1>0 DEF ExtensionTypes, InstallSteps, BatchFiles
  <2>5. DeployPlaces'
    BY <2>1 DEF DeployPlaces, BatchFiles
  <2> QED BY <2>2, <2>4, <2>5 DEF LineHolds
<1>3. CASE ReadLogs
  <2>1. /\ events' \in {SubSeq(portalLog, logFrom, Len(portalLog)), <<>>} /\ deployPc = "poll" /\ deployPc' = "look"
        /\ UNCHANGED <<extension, PortalSide, deployRun, logFrom, missing>>
    BY <1>3 DEF ReadLogs
  <2>2. /\ Len(events') \in Nat /\ DOMAIN events' = 1 .. Len(events')
        /\ \A i \in DOMAIN events' : logFrom + i - 1 \in LinesSince /\ events'[i] = portalLog[logFrom + i - 1]
    <3>1. CASE events' = <<>>
      BY <3>1
    <3>2. CASE events' = SubSeq(portalLog, logFrom, Len(portalLog))
      BY <3>2, <1>0 DEF ExtensionTypes, LinesSince
    <3> QED BY <2>1, <3>1, <3>2
  <2>3. ExtensionTypes'
    BY <2>1, <2>2 DEF ExtensionTypes, InstallSteps, LinesSince, PortalSide, BatchFiles
  <2>4. Excused' = Excused
    BY <2>1 DEF PortalSide, Excused, Overlap
  <2>5. DeployPlaces'
    BY <2>1, <2>4 DEF DeployPlaces, PortalSide
  <2> QED BY <2>1, <2>3, <2>4, <2>5 DEF LinesSince, LineHolds, PortalSide, BatchFiles
<1>4. CASE Settles \/ PollAgain \/ ReadBundle \/ ReadBackItems \/ ReadBackFails \/ DeployEnds
  <2>1. /\ UNCHANGED <<extension, portalLog, installing, bundleState, itemsStored, deployRun, logFrom, events>>
        /\ \/ UNCHANGED portalErrors
           \/ PortalFails /\ deployPc' \in {"inactive", "error"}
    BY <1>4 DEF Settles, PollAgain, ReadBundle, ReadBackItems, ReadBackFails, DeployEnds, PortalSide
  <2>2. /\ deployPc \notin {"start", "off"}
        /\ deployPc' \in {"poll", "bundleState", "files", "inactive", "ok", "error", "timeout"}
    BY <1>4 DEF Settles, PollAgain, ReadBundle, ReadBackItems, ReadBackFails, DeployEnds
  <2>3. /\ portalErrors' \in Nat /\ portalErrors' >= portalErrors
        /\ PortalFails => portalErrors' > 0
    BY <2>1 DEF PortalFails, ExtensionTypes
  <2>4. Excused => Excused'
    BY <2>1, <2>3, ExcuseStays
  <2>5. ExtensionTypes' /\ \A i \in LinesSince' : LineHolds(portalLog[i])'
    BY <2>1, <2>2, <2>3, <2>4 DEF ExtensionTypes, InstallSteps, LinesSince, LineHolds, BatchFiles
  <2>6. /\ \A f : BatchStatus(f)' = BatchStatus(f)
        /\ Settled' = Settled /\ \A k : Happened(k)' = Happened(k) /\ BatchFiles' = BatchFiles
    BY <2>1, EventsStay
  <2>7. ASSUME ~Excused
        PROVE  /\ ~Happened("batch-failed")
               /\ Happened("started") => bundleState = "Active"
               /\ \A f \in BatchFiles : BatchEvent(f) # 0 => itemsStored[f] /\ BatchStatus(f) = "imported"
    <3>1. \A i \in DOMAIN events : LineHolds(events[i])
      BY <2>2, ReadLines
    <3> QED BY <2>7, <3>1, EventFound DEF LineHolds, Happened, BatchStatus
  <2>8. DeployPlaces'
    <3>1. CASE Settles \/ PollAgain
      BY <3>1, <2>1, <2>4, <2>6 DEF Settles, PollAgain, DeployPlaces
    <3>2. CASE ReadBundle
      <4>1. /\ deployPc = "bundleState" /\ outcome' = <<>> /\ UNCHANGED missing
            /\ \/ deployPc' = "files"
               \/ deployPc' = "inactive" /\ (bundleState # "Active" \/ PortalFails)
        BY <3>2 DEF ReadBundle
      <4>2. deployPc' = "inactive" => Excused'
        BY <4>1, <2>3, <2>4, <2>7 DEF DeployPlaces, Excused
      <4> QED BY <4>1, <4>2, <2>1, <2>4, <2>6 DEF DeployPlaces
    <3>3. CASE ReadBackItems
      <4>1. PICK f \in BatchFiles \ DOMAIN outcome :
              /\ outcome' = [g \in DOMAIN outcome \cup {f} |-> IF g = f THEN BatchStatus(f) ELSE outcome[g]]
              /\ missing' = IF f \in extension.unreadable \/ itemsStored[f] THEN missing ELSE missing \cup {f}
        BY <3>3 DEF ReadBackItems
      <4>2. deployPc' = deployPc /\ deployPc \in {"files", "inactive"}
        BY <3>3 DEF ReadBackItems
      <4>3. missing' # missing => Excused
        BY <4>1, <4>2, <2>7 DEF DeployPlaces, Settled
      <4>4. \A g \in DOMAIN outcome' : /\ g \in BatchFiles /\ outcome'[g] = BatchStatus(g)
                                       /\ (g \in missing' \cup extension.unreadable \/ itemsStored[g])
        BY <4>1, <4>2 DEF DeployPlaces
      <4> QED BY <4>2, <4>3, <4>4, <2>1, <2>4, <2>6 DEF DeployPlaces
    <3>4. CASE ReadBackFails
      <4>1. /\ deployPc \in {"files", "inactive"} /\ deployPc' = "error" /\ UNCHANGED <<outcome, missing>> /\ Excused'
        BY <3>4, <2>3 DEF ReadBackFails, Excused
      <4> QED BY <4>1, <2>1, <2>6 DEF DeployPlaces
    <3>5. CASE DeployEnds
      <4>1. deployPc' = "error" => Excused
        <5>1. DOMAIN outcome = BatchFiles /\ \A f \in BatchFiles : outcome[f] = BatchStatus(f)
          BY <3>5 DEF DeployEnds, DeployPlaces
        <5>2. ~Excused => Settled /\ \A f \in BatchFiles : outcome[f] # "failed"
          BY <3>5, <2>7, <5>1 DEF DeployEnds, DeployPlaces, Settled
        <5> QED BY <3>5, <5>2 DEF DeployEnds, DeployPlaces
      <4> QED BY <3>5, <4>1, <2>1, <2>4, <2>6 DEF DeployEnds, DeployPlaces
    <3> QED BY <1>4, <3>1, <3>2, <3>3, <3>4, <3>5
  <2> QED BY <2>5, <2>8
<1>5. CASE StartBundle
  <2>1. /\ installing # <<>> /\ Work.file = 0 /\ Writes("started") /\ bundleState' = "Active"
        /\ installing' = Tail(installing) /\ UNCHANGED <<itemsStored, portalErrors>> /\ CommandKept
    BY <1>5 DEF StartBundle
  <2>2. /\ ExtensionTypes' /\ (Excused => Excused')
        /\ deployPc' \notin {"start", "off"} => \A i \in LinesSince' : LineHolds(portalLog[i])'
    BY <2>1, LineWritten DEF CommandKept, ExtensionTypes
  <2>3. DeployPlaces'
    BY <2>1, <2>2, PlacesStay DEF CommandKept
  <2> QED BY <2>2, <2>3
<1>6. CASE ImportFile
  <2>1. /\ installing # <<>> /\ Work.file # 0 /\ installing' \in {installing, Tail(installing)}
        /\ UNCHANGED bundleState /\ CommandKept
        /\ \/ /\ Writes("batch-ok") /\ itemsStored' = [itemsStored EXCEPT ![Work.file] = TRUE] /\ UNCHANGED portalErrors
           \/ /\ PortalFails /\ (Writes("batch-ok") \/ Writes("batch-failed")) /\ UNCHANGED itemsStored
    BY <1>6 DEF ImportFile
  <2>2. Work.file \in BatchFiles
    <3>1. 1 \in DOMAIN installing /\ Work = installing[1]
      BY <2>1, <1>0 DEF Work
    <3>2. Work \in InstallSteps
      BY <3>1, <1>0
    <3> QED BY <3>2, <2>1, <1>0 DEF InstallSteps
  <2>3. /\ itemsStored' \in [BatchFiles -> BOOLEAN] /\ \A f \in BatchFiles : itemsStored[f] => itemsStored'[f]
        /\ portalErrors' \in Nat /\ portalErrors' >= portalErrors
    <3>1. itemsStored \in [BatchFiles -> BOOLEAN] /\ portalErrors \in Nat
      BY DEF ExtensionTypes
    <3>2. itemsStored' \in {itemsStored, [itemsStored EXCEPT ![Work.file] = TRUE]}
      BY <2>1
    <3>3. portalErrors' \in {portalErrors, portalErrors + 1}
      BY <2>1 DEF PortalFails
    <3>4. itemsStored' \in [BatchFiles -> BOOLEAN] /\ \A f \in BatchFiles : itemsStored[f] => itemsStored'[f]
      BY <3>1, <3>2, <2>2
    <3> QED BY <3>1, <3>3, <3>4
  <2>4. PICK k \in {"batch-ok", "batch-failed"} :
          Writes(k) /\ (portalErrors' = 0 => k = "batch-ok" /\ itemsStored'[Work.file])
    BY <2>1, <2>2 DEF PortalFails, ExtensionTypes
  <2>5. /\ ExtensionTypes' /\ (Excused => Excused')
        /\ deployPc' \notin {"start", "off"} => \A i \in LinesSince' : LineHolds(portalLog[i])'
    BY <2>1, <2>2, <2>3, <2>4, LineWritten DEF CommandKept
  <2>6. DeployPlaces'
    BY <2>1, <2>3, <2>5, PlacesStay DEF CommandKept
  <2> QED BY <2>5, <2>6
<1>7. CASE StopPortal
  <2>1. /\ PortalFails /\ installing' = <<>> /\ CommandKept /\ UNCHANGED <<portalLog, itemsStored>>
    BY <1>7 DEF StopPortal
  <2>2. portalErrors' \in Nat /\ portalErrors' > 0 /\ portalErrors' >= portalErrors
    BY <2>1 DEF PortalFails, ExtensionTypes
  <2>3. ExtensionTypes'
    BY <2>1, <2>2 DEF ExtensionTypes, InstallSteps, CommandKept, LinesSince, BatchFiles
  <2>4. Excused'
    BY <2>2 DEF Excused
  <2>5. DeployPlaces'
    BY <2>1, <2>4, PlacesStay DEF CommandKept
  <2> QED BY <2>3, <2>4, <2>5 DEF LineHolds
<1> QED BY <1>1, <1>2, <1>3, <1>4, <1>5, <1>6, <1>7 DEF ExtensionNext

\* And it says that what is reported was done.
LEMMA ExtensionHolds ==
  ASSUME ExtensionInv
  PROVE  DeploymentIsTrue
<1>1. ASSUME deployPc = "ok", ~Overlap, ~Happened("batch-failed")
      PROVE  LineOf("started", 0) /\ \A f \in BatchFiles : outcome[f] = "imported" /\ LineOf("batch-ok", f)
  <2>1. Happened("started") /\ Settled
    BY <1>1 DEF ExtensionInv, DeployPlaces
  <2>2. ASSUME NEW i \in DOMAIN events
        PROVE  events[i].kind = "started" => events[i].file = 0
    <3> DEFINE j == logFrom + i - 1
    <3>1. j \in DOMAIN portalLog /\ events[i] = portalLog[j] /\ portalLog \in Seq(LogLines)
      BY DEF ExtensionInv, ExtensionTypes, LinesSince
    <3> HIDE DEF j
    <3>2. portalLog[j] \in LogLines
      BY <3>1
    <3> QED BY <3>1, <3>2 DEF LogLines
  <2>3. ASSUME NEW i \in DOMAIN events
        PROVE  LineOf(events[i].kind, events[i].file)
    <3> DEFINE j == logFrom + i - 1
    <3>1. j \in LinesSince /\ events[i] = portalLog[j] /\ portalLog[j] \in LogLines
      BY DEF ExtensionInv, ExtensionTypes, LinesSince
    <3>2. portalLog[j].run = deployRun
      BY <1>1, <3>1 DEF Overlap, ExtensionInv, ExtensionTypes, LinesSince, LogLines
    <3>3. portalLog[j] = [kind |-> portalLog[j].kind, file |-> portalLog[j].file, run |-> portalLog[j].run]
      BY <3>1 DEF LogLines
    <3> HIDE DEF j
    <3> QED BY <3>1, <3>2, <3>3 DEF LineOf, LinesSince
  <2>4. ASSUME NEW f \in BatchFiles
        PROVE  /\ BatchEvent(f) \in DOMAIN events /\ events[BatchEvent(f)].kind = "batch-ok"
               /\ events[BatchEvent(f)].file = f /\ outcome[f] = "imported"
    <3>1. /\ BatchEvent(f) \in DOMAIN events /\ events[BatchEvent(f)].kind = "batch-ok"
          /\ events[BatchEvent(f)].file = f
      BY <1>1, <2>1, EventFound DEF Settled, Happened, ExtensionInv
    <3>2. BatchEvent(f) # 0 /\ outcome[f] = BatchStatus(f)
      BY <1>1, <2>1 DEF ExtensionInv, DeployPlaces, Settled
    <3> QED BY <3>1, <3>2 DEF BatchStatus
  <2> QED BY <2>1, <2>2, <2>3, <2>4 DEF Happened
<1> QED BY <1>1 DEF DeploymentIsTrue, ExtensionInv, DeployPlaces, Excused

-----------------------------------------------------------------------------
(* The document library: downloads that go on by themselves, and mounts.    *)
\* The commands of the document library, at each of their places.
DownloadPlaces == {"download", "checkPid", "spawn", "writePid", "wait", "poll"}
\* And of a mount.
MountPlaces == {"mount", "remove", "create", "savePath"}
\* A download may name no backup.
Backups == STRING \cup {""}
\* Where a client of the document library can be.
LibraryPlaces == {"idle", "off"} \cup DownloadPlaces \cup MountPlaces
\* The processes that download, with what they were given and what they saw.
Loaders == [alive : BOOLEAN, ok : BOOLEAN, detached : BOOLEAN, started : BOOLEAN, had : BOOLEAN,
            dest : STRING, backup : Backups]
\* What is kept of the clients, the processes and the directories.
LibraryTypes ==
  /\ library \in Libraries /\ libKills \in Nat /\ pidFile \in Nat
  /\ libPc \in [Clients -> LibraryPlaces]
  /\ libTask \in [Clients -> Nat] /\ libBackup \in [Clients -> Backups]
  /\ DOMAIN libOwn = Clients /\ DOMAIN replies = Clients /\ DOMAIN volumeWas = Clients
  /\ libOwn = [c \in Clients |-> libOwn[c]] /\ replies = [c \in Clients |-> replies[c]]
  /\ volumeWas = [c \in Clients |-> volumeWas[c]]
  /\ loaders \in Seq(Loaders)
  /\ DOMAIN folders = DOMAIN library.found /\ folders = [d \in DOMAIN folders |-> folders[d]]
  /\ \A d \in DOMAIN folders : DOMAIN folders[d] = {"of", "whole"}
\* A download that ended well is all there.
Loaded == \A p \in DOMAIN loaders : /\ loaders[p].dest \in DOMAIN folders
                                    /\ loaders[p].ok => loaders[p].backup \in folders[loaders[p].dest].whole
\* What a client is at, and what it was told.
ClientAt(c) ==
  /\ libPc[c] \in DownloadPlaces => libTask[c] \in DOMAIN library.clients[c] /\ Command(c).op = "download"
  /\ libPc[c] \in MountPlaces => libTask[c] \in DOMAIN library.clients[c] /\ Command(c).op = "mount"
  /\ libPc[c] \in {"checkPid", "writePid", "poll"} => Command(c).background
  /\ libPc[c] \in {"writePid", "wait", "poll"} =>
       /\ libOwn[c] \in DOMAIN loaders /\ loaders[libOwn[c]].dest = Command(c).dest
       /\ loaders[libOwn[c]].backup = libBackup[c]
  /\ libPc[c] \in {"remove", "create", "savePath"} =>
       /\ libOwn[c].device = Nas \/ libOwn[c].device = Bind(libOwn[c].device.device)
       /\ libOwn[c].mode = "local" => PathIsSound(libOwn[c].device.device)
  /\ libPc[c] = "savePath" => libOwn[c].mode = "local"
  /\ replies[c].what = "downloaded" =>
       replies[c].path \in DOMAIN folders /\ replies[c].backup \in folders[replies[c].path].whole
\* The same of every client, and of the path that is saved.
ClientsInv ==
  /\ LibraryTypes /\ Loaded /\ \A c \in Clients : ClientAt(c)
  /\ PathIsSound(docPath)

\* Commands, and what is kept of the loaders and the directories.
LEMMA CommandTyped ==
  ASSUME LibraryTypes, NEW c \in Clients, NEW i \in DOMAIN library.clients[c]
  PROVE  LET m == library.clients[c][i]
         IN  /\ m.op \in {"download", "mount"} /\ m.background \in BOOLEAN
             /\ m.backup \in STRING /\ m.dest \in STRING /\ m.path \in STRING
             /\ m.op = "download" => m.dest \in DOMAIN folders
             /\ library.latest \in STRING /\ library.dirs \subseteq STRING /\ library.nas \in {"none", "incomplete", "full"}
BY LibraryAssumption DEF LibraryTypes, CommandOK, Clients

\* Nothing takes files out of a directory.
FoldersGrow == /\ DOMAIN folders' = DOMAIN folders
               /\ \A d \in DOMAIN folders : folders[d].of \subseteq folders'[d].of /\ folders[d].whole \subseteq folders'[d].whole
\* A process keeps what it was given.
LoadersGrow == /\ DOMAIN loaders \subseteq DOMAIN loaders'
               /\ \A p \in DOMAIN loaders : loaders'[p].dest = loaders[p].dest /\ loaders'[p].backup = loaders[p].backup
\* Nothing that was asked for is taken back, nor a library.
TasksGrow == \A c \in Clients : /\ libTask[c] \in Nat /\ libTask'[c] \in Nat
                                 /\ libTask'[c] >= libTask[c]
\* So a path that is sound stays so.
LEMMA SoundStays ==
  ASSUME NEW d, PathIsSound(d), FoldersGrow, TasksGrow, UNCHANGED library
  PROVE  PathIsSound(d)'
<1>1. HasDoclib(d) => HasDoclib(d)'
  BY DEF HasDoclib, FoldersGrow
<1>2. AskedFor(d) => AskedFor(d)'
  <2> SUFFICES ASSUME AskedFor(d) PROVE AskedFor(d)'
    OBVIOUS
  <2>3. PICK c \in Clients : \E i \in 1 .. libTask[c] : library.clients[c][i].op = "mount" /\ library.clients[c][i].path = d
    BY DEF AskedFor
  <2>1. PICK i \in 1 .. libTask[c] : library.clients[c][i].op = "mount" /\ library.clients[c][i].path = d
    BY <2>3
  <2>2. i \in 1 .. libTask'[c]
    BY DEF TasksGrow
  <2> QED BY <2>1, <2>2 DEF AskedFor, Clients
<1> QED BY <1>1, <1>2 DEF PathIsSound

\* So a client that does nothing stays as it was.
LEMMA ClientStays ==
  ASSUME NEW c \in Clients, ClientAt(c), FoldersGrow, LoadersGrow, TasksGrow, UNCHANGED library,
         libPc'[c] = libPc[c], libTask'[c] = libTask[c], libOwn'[c] = libOwn[c],
         libBackup'[c] = libBackup[c], replies'[c] = replies[c]
  PROVE  ClientAt(c)'
<1>1. Command(c)' = Command(c)
  BY DEF Command
<1>2. \A d : PathIsSound(d) => PathIsSound(d)'
  BY SoundStays
<1> QED BY <1>1, <1>2 DEF ClientAt, FoldersGrow, LoadersGrow, Clients

\* At the start no client has done anything.
LEMMA LibraryStarts ==
  ASSUME NEW pc \in {"idle", "off"}, NEW f \in Nat, NEW k \in Nat, LibraryStart(pc, f, k)
  PROVE  ClientsInv
<1>1. LibraryTypes
  <2>1. /\ DOMAIN folders = DOMAIN library.found /\ folders = [d \in DOMAIN folders |-> folders[d]]
        /\ \A d \in DOMAIN folders : DOMAIN folders[d] = {"of", "whole"}
    BY DEF LibraryStart
  <2>2. pc \in LibraryPlaces
    BY DEF LibraryPlaces
  <2>3. libPc \in [Clients -> LibraryPlaces] /\ libTask \in [Clients -> Nat] /\ libBackup \in [Clients -> Backups]
    <3>1. libPc = [c \in Clients |-> pc] 
      BY DEF LibraryStart
    <3>2. libTask = [c \in Clients |-> 0] /\ libBackup = [c \in Clients |-> ""] /\ "" \in Backups
      BY DEF LibraryStart, Backups
    <3> QED BY <2>2, <3>1, <3>2
  <2>4. /\ DOMAIN libOwn = Clients /\ DOMAIN replies = Clients /\ DOMAIN volumeWas = Clients
        /\ libOwn = [c \in Clients |-> libOwn[c]] /\ replies = [c \in Clients |-> replies[c]]
        /\ volumeWas = [c \in Clients |-> volumeWas[c]]
    BY DEF LibraryStart
  <2>5. loaders \in Seq(Loaders) 
    <3>1. loaders = <<>>
      BY DEF LibraryStart
    <3> QED BY <3>1
  <2>6. library \in Libraries /\ libKills \in Nat /\ pidFile \in Nat
    BY DEF LibraryStart
  <2> QED BY <2>1, <2>3, <2>4, <2>5, <2>6 DEF LibraryTypes
<1>2. \A c \in Clients : ClientAt(c)
  BY DEF LibraryStart, ClientAt, DownloadPlaces, MountPlaces, NoReply
<1>3. Loaded
  <2>1. loaders = <<>>
    BY DEF LibraryStart
  <2> QED BY <2>1 DEF Loaded
<1>4. docPath = library.path
  BY DEF LibraryStart
<1> QED BY <1>1, <1>2, <1>3, <1>4 DEF ClientsInv, PathIsSound

\* What the actions of a client change.
ClientChanges(c) ==
  /\ UNCHANGED <<library, folders>>
  /\ \A d \in Clients \ {c} : /\ libPc'[d] = libPc[d] /\ libTask'[d] = libTask[d] /\ libOwn'[d] = libOwn[d]
                              /\ libBackup'[d] = libBackup[d] /\ replies'[d] = replies[d]
  /\ libKills' \in Nat
  /\ \/ libPc' = libPc
     \/ \E pc \in LibraryPlaces : libPc' = [libPc EXCEPT ![c] = pc]
  /\ \/ replies' = replies
     \/ \E r : replies' = [replies EXCEPT ![c] = r]
  /\ \/ libOwn' = libOwn
     \/ \E r : libOwn' = [libOwn EXCEPT ![c] = r]
  /\ \/ libTask' = libTask
     \/ libTask' = [libTask EXCEPT ![c] = @ + 1]
  /\ \/ volumeWas' = volumeWas
     \/ volumeWas' = [volumeWas EXCEPT ![c] = volume]
\* Such changes keep the types.
LEMMA TypesKept ==
  ASSUME LibraryTypes, NEW c \in Clients, ClientChanges(c), loaders' \in Seq(Loaders), pidFile' \in Nat,
         libBackup' \in [Clients -> Backups]
  PROVE  LibraryTypes' /\ TasksGrow
<1>1. Clients' = Clients /\ DOMAIN folders' = DOMAIN folders
  BY DEF ClientChanges, Clients
<1>2. libPc' \in [Clients -> LibraryPlaces] /\ libTask' \in [Clients -> Nat]
  <2>1. libPc' \in [Clients -> LibraryPlaces]
    <3>1. libPc \in [Clients -> LibraryPlaces]
      BY DEF LibraryTypes
    <3>2. libPc' = libPc \/ \E pc \in LibraryPlaces : libPc' = [libPc EXCEPT ![c] = pc]
      BY DEF ClientChanges
    <3> QED BY <3>1, <3>2
  <2>2. libTask' \in [Clients -> Nat]
    <3>1. libTask \in [Clients -> Nat]
      BY DEF LibraryTypes
    <3>2. libTask' = libTask \/ libTask' = [libTask EXCEPT ![c] = @ + 1]
      BY DEF ClientChanges
    <3> QED BY <3>1, <3>2
  <2> QED BY <2>1, <2>2
<1>3. DOMAIN replies' = Clients /\ replies' = [d \in Clients |-> replies'[d]]
  BY DEF LibraryTypes, ClientChanges
<1>4. DOMAIN libOwn' = Clients /\ libOwn' = [d \in Clients |-> libOwn'[d]]
  BY DEF LibraryTypes, ClientChanges
<1>5. DOMAIN volumeWas' = Clients /\ volumeWas' = [d \in Clients |-> volumeWas'[d]]
  BY DEF LibraryTypes, ClientChanges
<1>6. /\ library' \in Libraries /\ libKills' \in Nat /\ DOMAIN folders' = DOMAIN library'.found
      /\ folders' = [d \in DOMAIN folders' |-> folders'[d]]
      /\ \A d \in DOMAIN folders' : DOMAIN folders'[d] = {"of", "whole"}
  BY DEF LibraryTypes, ClientChanges
<1>7. TasksGrow
  <2>1. libTask \in [Clients -> Nat] /\ (libTask' = libTask \/ libTask' = [libTask EXCEPT ![c] = @ + 1])
    BY DEF LibraryTypes, ClientChanges
  <2> QED BY <2>1 DEF TasksGrow
<1> QED BY <1>1, <1>2, <1>3, <1>4, <1>5, <1>6, <1>7 DEF LibraryTypes

\* A step of a client that starts and stops no loader.
LEMMA ClientsKept ==
  ASSUME ClientsInv, NEW c \in Clients, ClientChanges(c), loaders' = loaders, pidFile' \in Nat,
         libBackup' \in [Clients -> Backups],
         \/ docPath' = docPath
         \/ HasDoclib(docPath') \/ PathIsSound(docPath'), ClientAt(c)'
  PROVE  ClientsInv'
<1>1. LibraryTypes' /\ TasksGrow
  BY TypesKept DEF ClientsInv, LibraryTypes
<1>2. FoldersGrow /\ LoadersGrow
  BY DEF ClientChanges, FoldersGrow, LoadersGrow
<1>3. \A d \in Clients : ClientAt(d)'
  BY <1>1, <1>2, ClientStays DEF ClientsInv, ClientChanges
<1>4. Loaded'
  BY DEF ClientsInv, ClientChanges, Loaded
<1>5. PathIsSound(docPath)'
  <2>1. PICK d : d = docPath'
    OBVIOUS
  <2>2. PathIsSound(d)
    <3>1. CASE docPath' = docPath
      BY <2>1, <3>1 DEF ClientsInv
    <3>2. CASE HasDoclib(docPath') \/ PathIsSound(docPath')
      BY <2>1, <3>2 DEF PathIsSound
    <3> QED BY <3>1, <3>2
  <2>3. PathIsSound(d)'
    BY <1>1, <1>2, <2>2, SoundStays DEF ClientChanges
  <2> QED BY <2>1, <2>3 DEF PathIsSound, HasDoclib, AskedFor
<1> QED BY <1>1, <1>3, <1>4, <1>5 DEF ClientsInv, ClientChanges, Clients

\* Each action but three is such a step.
LEMMA QuietSteps ==
  ASSUME LibraryTypes, NEW c \in Clients,
         \/ RunCommand(c) \/ ResolveBackup(c) \/ CheckPid(c) \/ WritePid(c) \/ DownloadEnds(c) \/ DownloadBegins(c)
         \/ ChooseVolume(c) \/ RemoveVolume(c) \/ CreateVolume(c) \/ SavePath(c) \/ KillCommand(c)
  PROVE  ClientChanges(c) /\ loaders' = loaders
<1> USE DEF ClientChanges, NoFault, Step, Reply, Refuse, At
<1>1. /\ DOMAIN libPc = Clients /\ DOMAIN libTask = Clients /\ DOMAIN libBackup = Clients /\ libKills \in Nat
      /\ DOMAIN libOwn = Clients /\ DOMAIN replies = Clients /\ DOMAIN volumeWas = Clients
  BY DEF LibraryTypes
<1>2. CASE RunCommand(c)
  <2>1. library.clients[c][libTask[c] + 1].op \in LibraryPlaces
    <3>1. libTask[c] + 1 \in DOMAIN library.clients[c]
      BY <1>2, LibraryAssumption DEF RunCommand, LibraryTypes, Clients
    <3> QED BY <3>1, CommandTyped DEF LibraryPlaces, DownloadPlaces, MountPlaces
  <2>2. libPc' = [libPc EXCEPT ![c] = library.clients[c][libTask[c] + 1].op]
    BY <1>2 DEF RunCommand
  <2> QED BY <1>1, <1>2, <2>1, <2>2 DEF RunCommand
<1> USE DEF LibraryPlaces, DownloadPlaces, MountPlaces
<1>3. CASE ResolveBackup(c)
  <2>1. libBackup' = libBackup \/ \E b : libBackup' = [libBackup EXCEPT ![c] = b]
    BY <1>3 DEF ResolveBackup
  <2> QED BY <1>1, <1>3, <2>1 DEF ResolveBackup
<1>4. CASE CheckPid(c)
  BY <1>1, <1>4 DEF CheckPid
<1>5. CASE WritePid(c)
  BY <1>1, <1>5 DEF WritePid
<1>6. CASE DownloadEnds(c)
  BY <1>1, <1>6 DEF DownloadEnds
<1>7. CASE DownloadBegins(c)
  BY <1>1, <1>7 DEF DownloadBegins
<1>8. CASE ChooseVolume(c)
  BY <1>1, <1>8 DEF ChooseVolume
<1>9. CASE RemoveVolume(c)
  BY <1>1, <1>9 DEF RemoveVolume
<1>10. CASE CreateVolume(c)
  BY <1>1, <1>10 DEF CreateVolume
<1>11. CASE SavePath(c)
  BY <1>1, <1>11 DEF SavePath
<1>12. CASE KillCommand(c)
  <2>1. /\ libPc' = [libPc EXCEPT ![c] = "idle"] /\ replies' = [replies EXCEPT ![c] = [what |-> "killed"]]
        /\ libKills' = libKills + 1
        /\ UNCHANGED <<library, folders, loaders, libTask, libOwn, libBackup, volumeWas>>
    BY <1>12 DEF KillCommand, LibraryKept
  <2>2. /\ \E pc \in LibraryPlaces : libPc' = [libPc EXCEPT ![c] = pc]
        /\ \E r : replies' = [replies EXCEPT ![c] = r]
    BY <2>1
  <2>3. \A d \in Clients \ {c} : libPc'[d] = libPc[d] /\ replies'[d] = replies[d]
    BY <1>1, <2>1
  <2>4. libKills' \in Nat
    BY <1>1, <2>1
  <2> QED BY <2>1, <2>2, <2>3, <2>4
<1> QED BY <1>2, <1>3, <1>4, <1>5, <1>6, <1>7, <1>8, <1>9, <1>10, <1>11, <1>12

\* And so does each quiet step.
LEMMA QuietKeeps ==
  ASSUME ClientsInv, NEW c \in Clients,
         \/ RunCommand(c) \/ ResolveBackup(c) \/ CheckPid(c) \/ WritePid(c) \/ DownloadEnds(c) \/ DownloadBegins(c)
         \/ ChooseVolume(c) \/ RemoveVolume(c) \/ CreateVolume(c) \/ SavePath(c) \/ KillCommand(c)
  PROVE  ClientsInv'
<1> DEFINE Told == libBackup' \in [Clients -> Backups] /\ pidFile' \in Nat
<1> USE DEF ClientsInv
<1>1. /\ DOMAIN libPc = Clients /\ DOMAIN libTask = Clients /\ libBackup \in [Clients -> Backups] /\ pidFile \in Nat
      /\ DOMAIN libOwn = Clients /\ DOMAIN replies = Clients /\ DOMAIN volumeWas = Clients /\ ClientAt(c)
      /\ libTask \in [Clients -> Nat]
  BY DEF LibraryTypes
<1>2. ClientChanges(c) /\ loaders' = loaders
  BY QuietSteps
<1>3. /\ library' = library /\ folders' = folders /\ \A d : HasDoclib(d)' = HasDoclib(d)
      /\ \A d : PathIsSound(d) => PathIsSound(d)'
  <2>1. TasksGrow
    <3>1. libTask' = libTask \/ libTask' = [libTask EXCEPT ![c] = @ + 1]
      BY <1>2 DEF ClientChanges
    <3> QED BY <1>1, <3>1 DEF TasksGrow
  <2>2. FoldersGrow
    BY <1>2 DEF ClientChanges, FoldersGrow
  <2> QED BY <1>2, <2>1, <2>2, SoundStays DEF ClientChanges, HasDoclib
<1>4. ASSUME libTask'[c] = libTask[c] PROVE Command(c)' = Command(c)
  BY <1>3, <1>4 DEF Command
<1> USE DEF NoFault, Step, Reply, Refuse, At
<1>5. CASE RunCommand(c)
  <2>1. /\ libTask'[c] = libTask[c] + 1 /\ libTask[c] + 1 \in DOMAIN library.clients[c]
        /\ libPc'[c] = library.clients[c][libTask[c] + 1].op
    BY <1>1, <1>5, LibraryAssumption DEF RunCommand, LibraryTypes, Clients
  <2>2. Command(c)'.op = library.clients[c][libTask[c] + 1].op
    BY <2>1, <1>3 DEF Command
  <2>3. libPc'[c] \in {"download", "mount"}
    BY <2>1, CommandTyped
  <2>4. replies' = replies /\ docPath' = docPath
    BY <1>5 DEF RunCommand
  <2>5. ClientAt(c)'
    BY <1>1, <1>2, <1>3, <2>1, <2>2, <2>3, <2>4 DEF ClientAt, DownloadPlaces, MountPlaces
  <2> QED BY <1>1, <1>2, <1>3, <1>5, <2>4, <2>5, ClientsKept DEF RunCommand
<1> USE DEF LibraryPlaces, DownloadPlaces, MountPlaces
<1>6. CASE ResolveBackup(c) \/ CheckPid(c) \/ WritePid(c)
  <2>1. /\ libTask' = libTask /\ libOwn' = libOwn /\ docPath' = docPath
        /\ replies'[c] = replies[c] \/ replies'[c].what \in {"error", "pending"}
    <3>1. CASE ResolveBackup(c)
      <4>1. /\ libTask' = libTask /\ libOwn' = libOwn /\ docPath' = docPath
            /\ replies' = replies \/ replies' = [replies EXCEPT ![c] = [what |-> "error"]]
        BY <3>1 DEF ResolveBackup
      <4> QED BY <1>1, <4>1
    <3>2. CASE CheckPid(c) \/ WritePid(c)
      BY <1>1, <3>2 DEF CheckPid, WritePid
    <3> QED BY <1>6, <3>1, <3>2
  <2>2. Told
    <3>1. CASE ResolveBackup(c)
      <4> DEFINE b == IF Command(c).backup # "" THEN Command(c).backup ELSE library.latest
      <4>1. libBackup' = libBackup \/ libBackup' = [libBackup EXCEPT ![c] = b]
        BY <3>1 DEF ResolveBackup
      <4>2. b \in Backups
        <5>1. libTask[c] \in DOMAIN library.clients[c]
          BY <1>1, <3>1 DEF ResolveBackup, ClientAt
        <5> QED BY <5>1, CommandTyped DEF Command, Backups
      <4>3. libBackup' \in [Clients -> Backups]
        <5> HIDE DEF b
        <5> QED BY <1>1, <4>1, <4>2
      <4> QED BY <1>1, <3>1, <4>3 DEF ResolveBackup
    <3>2. CASE CheckPid(c)
      BY <1>1, <3>2 DEF CheckPid
    <3>3. CASE WritePid(c)
      <4>1. libOwn[c] \in Nat
        BY <1>1, <3>3 DEF WritePid, ClientAt, LibraryTypes
      <4> QED BY <1>1, <3>3, <4>1 DEF WritePid
    <3> QED BY <1>6, <3>1, <3>2, <3>3
  <2>3. /\ libPc[c] \in DownloadPlaces /\ libPc'[c] \in {"idle", "checkPid", "spawn", "poll"}
        /\ libPc'[c] = "checkPid" => Command(c).background
        /\ libPc'[c] = "poll" => libPc[c] = "writePid" /\ libBackup' = libBackup
    BY <1>1, <1>6 DEF ResolveBackup, CheckPid, WritePid
  <2>4. ClientAt(c)'
    BY <1>1, <1>2, <1>3, <1>4, <2>1, <2>3 DEF ClientAt
  <2> QED BY <1>2, <1>3, <2>1, <2>2, <2>4, ClientsKept
<1>7. CASE DownloadEnds(c) \/ DownloadBegins(c)
  <2>1. /\ libTask' = libTask /\ libBackup' = libBackup /\ libOwn' = libOwn /\ libPc'[c] = "idle"
        /\ libPc[c] \in {"wait", "poll"} /\ pidFile' \in Nat
        /\ docPath' = docPath \/ HasDoclib(docPath')
        /\ \/ replies'[c].what \in {"error", "background"}
           \/ /\ loaders[libOwn[c]].ok /\ replies'[c].path = Command(c).dest /\ replies'[c].backup = libBackup[c]
    BY <1>1, <1>7 DEF DownloadEnds, DownloadBegins
  <2>2. ClientAt(c)'
    BY <1>1, <1>2, <1>3, <2>1 DEF ClientAt, Loaded
  <2> QED BY <1>1, <1>2, <1>3, <2>1, <2>2, ClientsKept
<1>8. CASE ChooseVolume(c)
  <2>1. /\ libTask' = libTask /\ libBackup' = libBackup /\ pidFile' = pidFile /\ docPath' = docPath
        /\ \/ libPc'[c] = "idle" /\ replies'[c].what \in {"error", "mounted"}
           \/ libPc'[c] = "remove" /\ libOwn'[c] = Device(c) /\ replies' = replies
        /\ libPc[c] = "mount"
    BY <1>1, <1>8 DEF ChooseVolume, MountReply
  <2>2. /\ Device(c).device = Nas \/ Device(c).device = Bind(Device(c).device.device)
        /\ Device(c).mode = "local" => PathIsSound(Device(c).device.device)
    <3>1. PathExists(c) => PathIsSound(MountPath(c))
      <4>1. libTask[c] \in DOMAIN library.clients[c] /\ Command(c).op = "mount" /\ libTask[c] \in 1 .. libTask[c]
        <5>1. libTask[c] \in DOMAIN library.clients[c] /\ Command(c).op = "mount"
          BY <1>1, <2>1 DEF ClientAt
        <5>2. DOMAIN library.clients[c] = 1 .. Len(library.clients[c]) /\ Len(library.clients[c]) \in Nat
          BY LibraryAssumption DEF LibraryTypes, Clients
        <5> QED BY <5>1, <5>2
      <4>2. MountPath(c) \in {Command(c).path, docPath} 
        BY DEF MountPath
      <4>3. CASE MountPath(c) = docPath
        BY <4>3
      <4>4. CASE MountPath(c) = Command(c).path /\ PathExists(c)
        <5> DEFINE d == MountPath(c)
        <5>1. HasDoclib(d) \/ d \in library.dirs
          BY <4>4 DEF PathExists
        <5>2. library.clients[c][libTask[c]].op = "mount" /\ library.clients[c][libTask[c]].path = d
          BY <4>1, <4>4 DEF Command
        <5>3. d \in library.dirs => AskedFor(d)
          <6> HIDE DEF d
          <6> QED BY <4>1, <5>2 DEF AskedFor
        <5> QED BY <5>1, <5>3 DEF PathIsSound
      <4> QED BY <4>2, <4>3, <4>4
    <3>2. \/ PathExists(c) /\ Device(c) = Mount("local", Bind(MountPath(c)))
          \/ Device(c) = Mount("nas", Nas)
          \/ Device(c) = Mount("default", Bind("default"))
      BY DEF Device
    <3>3. \A m, v : Mount(m, v).mode = m /\ Mount(m, v).device = v
      BY DEF Mount
    <3>4. \A d : Bind(d).device = d
      BY DEF Bind
    <3> QED BY <3>1, <3>2, <3>3, <3>4
  <2>3. ClientAt(c)'
    BY <1>1, <1>2, <1>3, <1>4, <2>1, <2>2 DEF ClientAt
  <2> QED BY <1>1, <1>2, <2>1, <2>3, <1>3, ClientsKept
<1>9. CASE RemoveVolume(c) \/ CreateVolume(c) \/ SavePath(c)
  <2>1. /\ libTask' = libTask /\ libBackup' = libBackup /\ pidFile' = pidFile /\ libOwn' = libOwn
        /\ docPath' = docPath \/ (libPc[c] = "savePath" /\ docPath' = libOwn[c].device.device)
        /\ \/ libPc'[c] = "idle" /\ replies'[c].what \in {"error", "mounted"}
           \/ libPc'[c] \in {"create", "savePath"} /\ replies' = replies
        /\ libPc[c] \in {"remove", "create", "savePath"}
        /\ libPc'[c] = "savePath" => libOwn[c].mode = "local"
    BY <1>1, <1>9 DEF RemoveVolume, CreateVolume, SavePath, MountReply
  <2>2. docPath' = docPath \/ PathIsSound(docPath')
    BY <1>1, <2>1 DEF ClientAt
  <2>3. ClientAt(c)'
    BY <1>1, <1>2, <1>3, <1>4, <2>1 DEF ClientAt
  <2> QED BY <1>1, <1>2, <1>3, <2>1, <2>2, <2>3, ClientsKept
<1>10. CASE KillCommand(c)
  <2>1. /\ libTask' = libTask /\ libBackup' = libBackup /\ pidFile' = pidFile /\ docPath' = docPath
        /\ libPc'[c] = "idle" /\ replies'[c].what = "killed"
    BY <1>1, <1>10 DEF KillCommand, LibraryKept
  <2>2. ClientAt(c)'
    BY <2>1 DEF ClientAt
  <2> QED BY <1>1, <1>2, <1>3, <2>1, <2>2, ClientsKept
<1> QED BY <1>5, <1>6, <1>7, <1>8, <1>9, <1>10

\* Every step keeps what is known of every client.
LEMMA ClientsKeep ==
  ASSUME ClientsInv, [LibraryNext]_libraryVars
  PROVE  ClientsInv'
<1> USE DEF ClientsInv
<1>1. /\ LibraryTypes /\ Loaded /\ loaders \in Seq(Loaders) /\ Len(loaders) \in Nat /\ DOMAIN loaders = 1 .. Len(loaders)
      /\ libPc \in [Clients -> LibraryPlaces] /\ DOMAIN libOwn = Clients /\ DOMAIN replies = Clients
  BY DEF LibraryTypes
<1>2. CASE UNCHANGED libraryVars
  <2>1. UNCHANGED <<library, folders, loaders, pidFile, docPath, libPc, libTask, libOwn, libBackup, replies, volumeWas, libKills>>
    BY <1>2 DEF libraryVars
  <2>2. LibraryTypes'
    BY <2>1 DEF LibraryTypes, Clients
  <2>3. \A c \in Clients : ClientAt(c)'
    <3>1. TasksGrow
      BY <2>1, <1>1 DEF TasksGrow, LibraryTypes
    <3> QED BY <2>1, <3>1, ClientStays DEF FoldersGrow, LoadersGrow
  <2> QED BY <2>1, <2>2, <2>3 DEF Loaded, HasDoclib, Clients, PathIsSound, AskedFor
<1>3. CASE \E c \in Clients : Spawn(c)
  <2>1. PICK c \in Clients : Spawn(c)
    BY <1>3
  <2> DEFINE l == [alive |-> TRUE, ok |-> FALSE, dest |-> Command(c).dest, backup |-> libBackup[c],
                   detached |-> Command(c).background, started |-> FALSE, had |-> HasDoclib(Command(c).dest)]
  <2>2. /\ loaders' = Append(loaders, l) /\ libOwn' = [libOwn EXCEPT ![c] = Len(loaders) + 1]
        /\ libPc' = [libPc EXCEPT ![c] = IF Command(c).background THEN "writePid" ELSE "wait"]
        /\ UNCHANGED <<library, folders, pidFile, docPath, libTask, libBackup, replies, volumeWas, libKills>>
        /\ libPc[c] = "spawn"
    BY <2>1 DEF Spawn, NoFault, Step, At
  <2>3. libTask[c] \in DOMAIN library.clients[c] /\ Command(c).op = "download"
    BY <2>2 DEF ClientAt, DownloadPlaces
  <2>4. /\ Command(c).background \in BOOLEAN /\ Command(c).dest \in STRING /\ Command(c).dest \in DOMAIN folders
        /\ libBackup[c] \in Backups
    BY <1>1, <2>3, CommandTyped DEF Command, LibraryTypes
  <2>5. /\ l \in Loaders /\ l.dest = Command(c).dest /\ l.backup = libBackup[c] /\ l.ok = FALSE
    BY <2>4 DEF Loaders, HasDoclib
  <2> HIDE DEF l
  <2>6. /\ loaders' \in Seq(Loaders) /\ Len(loaders') = Len(loaders) + 1 /\ loaders'[Len(loaders) + 1] = l
        /\ DOMAIN loaders' = DOMAIN loaders \cup {Len(loaders) + 1}
        /\ \A p \in DOMAIN loaders : loaders'[p] = loaders[p]
    BY <1>1, <2>2, <2>5
  <2>7. ClientChanges(c)
    <3>1. (IF Command(c).background THEN "writePid" ELSE "wait") \in LibraryPlaces
      BY DEF LibraryPlaces, DownloadPlaces
    <3>2. libKills' \in Nat
      BY <2>2 DEF LibraryTypes
    <3> QED BY <1>1, <2>2, <3>1, <3>2 DEF ClientChanges
  <2>8. LibraryTypes' /\ TasksGrow
    <3>1. pidFile' \in Nat /\ libBackup' \in [Clients -> Backups]
      BY <2>2 DEF LibraryTypes
    <3> QED BY <1>1, <2>6, <2>7, <3>1, TypesKept
  <2>9. Loaded'
    BY <2>2, <2>4, <2>5, <2>6 DEF Loaded
  <2>10. ClientAt(c)'
    <3>1. /\ libPc'[c] \in {"writePid", "wait"} /\ libPc'[c] = "writePid" => Command(c).background
          /\ libOwn'[c] = Len(loaders) + 1
      BY <1>1, <2>2
    <3>2. Command(c)' = Command(c) /\ replies' = replies /\ libBackup' = libBackup /\ folders' = folders
      BY <2>2 DEF Command
    <3>3. ClientAt(c)
      OBVIOUS
    <3> QED BY <2>2, <2>3, <2>5, <2>6, <3>1, <3>2, <3>3 DEF ClientAt, DownloadPlaces, MountPlaces
  <2>11. \A d \in Clients \ {c} : ClientAt(d)'
    <3>1. FoldersGrow /\ LoadersGrow
      BY <2>2, <2>6 DEF FoldersGrow, LoadersGrow
    <3> QED BY <2>2, <2>7, <2>8, <3>1, ClientStays DEF ClientChanges
  <2> QED BY <2>2, <2>8, <2>9, <2>10, <2>11 DEF Clients, HasDoclib, PathIsSound, AskedFor
<1>4. CASE \E c \in Clients : DownloadTimesOut(c)
  <2>1. PICK c \in Clients : DownloadTimesOut(c)
    BY <1>4
  <2>2. /\ loaders' = [loaders EXCEPT ![libOwn[c]].alive = FALSE] /\ pidFile' = 0
        /\ libPc' = [libPc EXCEPT ![c] = "idle"] /\ replies' = [replies EXCEPT ![c] = [what |-> "error"]]
        /\ UNCHANGED <<library, folders, docPath, libTask, libOwn, libBackup, volumeWas, libKills>>
        /\ libPc[c] = "poll" /\ libOwn[c] \in DOMAIN loaders
    BY <2>1 DEF DownloadTimesOut, NoFault, Refuse, Reply, At, Alive
  <2>3. /\ loaders' \in Seq(Loaders) /\ DOMAIN loaders' = DOMAIN loaders
        /\ \A p \in DOMAIN loaders : /\ loaders'[p].dest = loaders[p].dest /\ loaders'[p].backup = loaders[p].backup
                                     /\ loaders'[p].ok = loaders[p].ok
    <3> DEFINE l == [loaders[libOwn[c]] EXCEPT !.alive = FALSE]
    <3>1. loaders[libOwn[c]] \in Loaders
      BY <1>1, <2>2
    <3>2. /\ l \in Loaders /\ l.dest = loaders[libOwn[c]].dest /\ l.backup = loaders[libOwn[c]].backup
          /\ l.ok = loaders[libOwn[c]].ok
      BY <3>1 DEF Loaders
    <3>3. loaders' = [loaders EXCEPT ![libOwn[c]] = l]
      BY <2>2
    <3> HIDE DEF l
    <3>4. loaders' \in Seq(Loaders) /\ DOMAIN loaders' = DOMAIN loaders
      <4>1. loaders \in Seq(Loaders) /\ libOwn[c] \in DOMAIN loaders /\ l \in Loaders
        BY <1>1, <2>2, <3>2
      <4>2. DOMAIN loaders' = DOMAIN loaders /\ Len(loaders') = Len(loaders)
        BY <3>3, <4>1
      <4>3. \A i \in DOMAIN loaders : loaders'[i] \in Loaders
        BY <3>3, <4>1
      <4> QED BY <3>3, <4>1, <4>2, <4>3
    <3>5. \A p \in DOMAIN loaders : loaders'[p] = IF p = libOwn[c] THEN l ELSE loaders[p]
      BY <1>1, <2>2, <3>3
    <3> QED BY <3>2, <3>4, <3>5
  <2>4. ClientChanges(c)
    <3>1. "idle" \in LibraryPlaces
      BY DEF LibraryPlaces
    <3>2. libKills' \in Nat
      BY <2>2 DEF LibraryTypes
    <3> QED BY <1>1, <2>2, <3>1, <3>2 DEF ClientChanges
  <2>5. LibraryTypes' /\ TasksGrow
    <3>1. pidFile' \in Nat /\ libBackup' \in [Clients -> Backups]
      BY <2>2 DEF LibraryTypes
    <3> QED BY <1>1, <2>3, <2>4, <3>1, TypesKept
  <2>6. Loaded'
    BY <2>2, <2>3 DEF Loaded
  <2>7. ClientAt(c)'
    <3>1. libPc'[c] = "idle" /\ replies'[c].what = "error"
      BY <1>1, <2>2
    <3> QED BY <3>1 DEF ClientAt, DownloadPlaces, MountPlaces
  <2>8. \A d \in Clients \ {c} : ClientAt(d)'
    <3>1. FoldersGrow /\ LoadersGrow
      BY <2>2, <2>3 DEF FoldersGrow, LoadersGrow
    <3> QED BY <2>2, <2>4, <2>5, <3>1, ClientStays DEF ClientChanges
  <2> QED BY <2>2, <2>5, <2>6, <2>7, <2>8 DEF Clients, HasDoclib, PathIsSound, AskedFor
<1>5. CASE \E p \in DOMAIN loaders : LoaderRuns(p)
  <2>1. PICK p \in DOMAIN loaders : LoaderRuns(p)
    BY <1>5
  <2> DEFINE l == loaders[p]
  <2>2. /\ UNCHANGED <<library, pidFile, docPath, libPc, libTask, libOwn, libBackup, replies, volumeWas, libKills>>
        /\ \/ /\ folders' = [folders EXCEPT ![l.dest].of = @ \cup {l.backup}]
              /\ loaders' = [loaders EXCEPT ![p].started = TRUE]
           \/ /\ folders' = [folders EXCEPT ![l.dest].whole = @ \cup {l.backup}]
              /\ loaders' = [loaders EXCEPT ![p].alive = FALSE, ![p].ok = TRUE]
           \/ loaders' = [loaders EXCEPT ![p].alive = FALSE] /\ folders' = folders
    BY <2>1 DEF LoaderRuns
  <2>3. l \in Loaders /\ l.dest \in DOMAIN folders
    BY <1>1 DEF Loaded
  <2>4. PICK m \in Loaders : /\ loaders' = [loaders EXCEPT ![p] = m] /\ m.dest = l.dest /\ m.backup = l.backup
                             /\ m.ok => l.ok \/ l.backup \in folders'[l.dest].whole
    <3>1. CASE loaders' = [loaders EXCEPT ![p].started = TRUE]
      <4> DEFINE m == [l EXCEPT !.started = TRUE]
      <4>1. m \in Loaders /\ m.dest = l.dest /\ m.backup = l.backup /\ m.ok = l.ok
        BY <2>3 DEF Loaders
      <4>2. loaders' = [loaders EXCEPT ![p] = m]
        BY <3>1
      <4> HIDE DEF m
      <4> QED BY <4>1, <4>2
    <3>2. CASE loaders' = [loaders EXCEPT ![p].alive = FALSE]
      <4> DEFINE m == [l EXCEPT !.alive = FALSE]
      <4>1. m \in Loaders /\ m.dest = l.dest /\ m.backup = l.backup /\ m.ok = l.ok
        BY <2>3 DEF Loaders
      <4>2. loaders' = [loaders EXCEPT ![p] = m]
        BY <3>2
      <4> HIDE DEF m
      <4> QED BY <4>1, <4>2
    <3>3. CASE /\ folders' = [folders EXCEPT ![l.dest].whole = @ \cup {l.backup}]
               /\ loaders' = [loaders EXCEPT ![p].alive = FALSE, ![p].ok = TRUE]
      <4> DEFINE m == [l EXCEPT !.alive = FALSE, !.ok = TRUE]
      <4>1. m \in Loaders /\ m.dest = l.dest /\ m.backup = l.backup
        BY <2>3 DEF Loaders
      <4>2. loaders' = [loaders EXCEPT ![p] = m]
        BY <1>1, <3>3
      <4>3. l.backup \in folders'[l.dest].whole
        BY <2>3, <3>3 DEF LibraryTypes
      <4> HIDE DEF m
      <4> QED BY <4>1, <4>2, <4>3
    <3> QED BY <2>2, <3>1, <3>2, <3>3
  <2>5. /\ loaders' \in Seq(Loaders) /\ DOMAIN loaders' = DOMAIN loaders
        /\ \A q \in DOMAIN loaders : /\ loaders'[q].dest = loaders[q].dest /\ loaders'[q].backup = loaders[q].backup
                                     /\ loaders'[q].ok => loaders[q].ok \/ loaders[q].backup \in folders'[loaders[q].dest].whole
    BY <1>1, <2>4
  <2>6. /\ FoldersGrow /\ folders' = [d \in DOMAIN folders' |-> folders'[d]]
        /\ \A d \in DOMAIN folders' : DOMAIN folders'[d] = {"of", "whole"}
    <3>1. /\ DOMAIN folders' = DOMAIN folders /\ folders' = [d \in DOMAIN folders' |-> folders'[d]]
      BY <2>2 DEF LibraryTypes
    <3>2. \A d \in DOMAIN folders :
             \/ folders'[d] = folders[d]
             \/ folders'[d] = [folders[d] EXCEPT !.of = @ \cup {l.backup}]
             \/ folders'[d] = [folders[d] EXCEPT !.whole = @ \cup {l.backup}]
      BY <2>2, <2>3
    <3>3. \A d \in DOMAIN folders : DOMAIN folders[d] = {"of", "whole"}
      BY DEF LibraryTypes
    <3> HIDE DEF l
    <3> QED BY <3>1, <3>2, <3>3 DEF FoldersGrow
  <2>7. LibraryTypes'
    BY <2>2, <2>5, <2>6 DEF LibraryTypes, FoldersGrow, Clients
  <2>8. Loaded'
    BY <2>3, <2>5, <2>6 DEF Loaded, FoldersGrow
  <2>9. \A c \in Clients : ClientAt(c)'
    <3>1. LoadersGrow /\ TasksGrow
      BY <2>2, <2>5 DEF LoadersGrow, TasksGrow, LibraryTypes
    <3> QED BY <2>2, <2>6, <3>1, ClientStays
  <2>10. PathIsSound(docPath)'
    BY <2>2, <2>6 DEF HasDoclib, FoldersGrow, PathIsSound, AskedFor, Clients
  <2> QED BY <2>2, <2>7, <2>8, <2>9, <2>10 DEF Clients
<1> QED BY <1>2, <1>3, <1>4, <1>5, QuietKeeps DEF LibraryNext

\* What a mount has done to the volume, at each of its places.
Chosen(m) == volumeWas[1].kind = "cifs" /\ library.nas = "none" => HasDoclib(m.device.device) \/ m.device.device \in library.dirs
\* What the client that mounts has done so far.
Mounting ==
  /\ libPc[1] = "mount" => volume = volumeWas[1]
  /\ libPc[1] = "remove" => volume = volumeWas[1] /\ Chosen(libOwn[1])
  /\ libPc[1] = "create" => volume = Nothing /\ Chosen(libOwn[1]) /\ (library.inUse => volumeWas[1] = Nothing)
  /\ libPc[1] = "savePath" => volume = libOwn[1].device /\ Chosen(libOwn[1])
\* A volume that is not there is nothing, and a refused mount left it alone.
MountInv == /\ volume.kind = "none" => volume = Nothing
            /\ Clients = {1} => Mounting
            /\ MountIsWhole

\* Whose download runs, and what the pid file says of it.
Loading ==
  /\ \A p \in DOMAIN loaders : loaders[p].alive =>
       IF loaders[p].detached THEN p = pidFile \/ (libPc[1] = "writePid" /\ p = libOwn[1])
       ELSE libPc[1] = "wait" /\ p = libOwn[1]
  /\ (libPc[1] = "spawn" /\ Command(1).background) \/ libPc[1] = "writePid" => pidFile = 0
  /\ libPc[1] = "poll" => pidFile = libOwn[1]
  /\ libPc[1] \in {"writePid", "poll"} /\ ~loaders[libOwn[1]].had /\ ~loaders[libOwn[1]].started =>
       ~HasDoclib(Command(1).dest)
  /\ replies[1].what = "background" =>
       replies[1].own \in DOMAIN loaders /\ (loaders[replies[1].own].started \/ loaders[replies[1].own].had)
\* For one client, as long as no process is killed.
LoadInv == Clients = {1} /\ libKills = 0 => Loading

\* What a download does to the directories and to itself.
LEMMA LoaderWorks ==
  ASSUME LibraryTypes, Loaded, NEW p \in DOMAIN loaders, LoaderRuns(p)
  PROVE  /\ FoldersGrow /\ loaders[p].alive /\ DOMAIN loaders' = DOMAIN loaders
         /\ \A q \in DOMAIN loaders : /\ loaders'[q].detached = loaders[q].detached /\ loaders'[q].had = loaders[q].had
                                      /\ loaders'[q].alive => loaders[q].alive
                                      /\ loaders[q].started => loaders'[q].started
         /\ \A d : HasDoclib(d)' => HasDoclib(d) \/ loaders'[p].started
<1> DEFINE l == loaders[p]
<1>1. l \in Loaders /\ l.dest \in DOMAIN folders /\ loaders \in Seq(Loaders)
  BY DEF Loaded, LibraryTypes
<1>2. l.alive
  BY DEF LoaderRuns, Alive
<1>3. \/ folders' = [folders EXCEPT ![l.dest].of = @ \cup {l.backup}] /\ loaders' = [loaders EXCEPT ![p].started = TRUE]
      \/ /\ folders' = [folders EXCEPT ![l.dest].whole = @ \cup {l.backup}]
         /\ loaders' = [loaders EXCEPT ![p].alive = FALSE, ![p].ok = TRUE]
      \/ loaders' = [loaders EXCEPT ![p].alive = FALSE] /\ folders' = folders
  BY DEF LoaderRuns
<1>4. /\ DOMAIN loaders' = DOMAIN loaders
      /\ \A q \in DOMAIN loaders : \/ loaders'[q] = loaders[q]
                                   \/ loaders'[q] = [loaders[q] EXCEPT !.started = TRUE]
                                   \/ loaders'[q] = [loaders[q] EXCEPT !.alive = FALSE, !.ok = TRUE]
                                   \/ loaders'[q] = [loaders[q] EXCEPT !.alive = FALSE]
  BY <1>1, <1>3
<1>5. \A q \in DOMAIN loaders : /\ loaders'[q].detached = loaders[q].detached /\ loaders'[q].had = loaders[q].had
                                /\ loaders'[q].alive => loaders[q].alive
                                /\ loaders[q].started => loaders'[q].started
  <2> TAKE q \in DOMAIN loaders
  <2>1. PICK k : k = loaders[q]
    OBVIOUS
  <2>2. k \in Loaders
    BY <1>1, <2>1
  <2>3. /\ [k EXCEPT !.started = TRUE].detached = k.detached /\ [k EXCEPT !.started = TRUE].had = k.had
        /\ [k EXCEPT !.started = TRUE].started /\ [k EXCEPT !.started = TRUE].alive = k.alive
    BY <2>2 DEF Loaders
  <2>4. /\ [k EXCEPT !.alive = FALSE].detached = k.detached /\ [k EXCEPT !.alive = FALSE].had = k.had
        /\ [k EXCEPT !.alive = FALSE].started = k.started /\ [k EXCEPT !.alive = FALSE].alive = FALSE
    BY <2>2 DEF Loaders
  <2>5. /\ [k EXCEPT !.alive = FALSE, !.ok = TRUE].detached = k.detached /\ [k EXCEPT !.alive = FALSE, !.ok = TRUE].had = k.had
        /\ [k EXCEPT !.alive = FALSE, !.ok = TRUE].started = k.started /\ [k EXCEPT !.alive = FALSE, !.ok = TRUE].alive = FALSE
    BY <2>2 DEF Loaders
  <2> QED BY <1>4, <2>1, <2>3, <2>4, <2>5
<1>6. /\ DOMAIN folders' = DOMAIN folders
      /\ \A d \in DOMAIN folders : \/ folders'[d] = folders[d]
                                   \/ folders'[d] = [folders[d] EXCEPT !.of = @ \cup {l.backup}] /\ loaders'[p].started
                                   \/ folders'[d] = [folders[d] EXCEPT !.whole = @ \cup {l.backup}]
  <2>1. CASE folders' = [folders EXCEPT ![l.dest].of = @ \cup {l.backup}] /\ loaders' = [loaders EXCEPT ![p].started = TRUE]
    <3>1. loaders'[p].started
      BY <1>1, <2>1 DEF Loaders
    <3>2. /\ DOMAIN folders' = DOMAIN folders
          /\ \A d \in DOMAIN folders : \/ folders'[d] = folders[d]
                                       \/ folders'[d] = [folders[d] EXCEPT !.of = @ \cup {l.backup}]
      BY <2>1
    <3> QED BY <3>1, <3>2
  <2>2. CASE folders' = [folders EXCEPT ![l.dest].whole = @ \cup {l.backup}]
    BY <2>2
  <2> QED BY <1>3, <2>1, <2>2
<1>7. FoldersGrow /\ \A d : HasDoclib(d)' => HasDoclib(d) \/ loaders'[p].started
  <2>1. \A d \in DOMAIN folders : DOMAIN folders[d] = {"of", "whole"}
    BY DEF LibraryTypes
  <2> HIDE DEF l
  <2> QED BY <1>6, <2>1 DEF FoldersGrow, HasDoclib
<1> QED BY <1>2, <1>4, <1>5, <1>7

\* A volume is of a kind.
LEMMA VolumeKeeps ==
  ASSUME ClientsInv, volume.kind = "none" => volume = Nothing, [LibraryNext]_libraryVars
  PROVE  volume'.kind = "none" => volume' = Nothing
<1>1. CASE UNCHANGED volume
  BY <1>1
<1>2. CASE \E c \in Clients : RemoveVolume(c)
  BY <1>2 DEF RemoveVolume
<1>3. CASE \E c \in Clients : CreateVolume(c)
  <2>1. PICK c \in Clients : CreateVolume(c)
    BY <1>3
  <2>2. libPc[c] = "create" /\ (volume' = volume \/ volume' = libOwn[c].device)
    BY <2>1 DEF CreateVolume, At
  <2>3. ClientAt(c)
    BY DEF ClientsInv
  <2>4. libOwn[c].device = Nas \/ libOwn[c].device = Bind(libOwn[c].device.device)
    BY <2>2, <2>3 DEF ClientAt
  <2>5. libOwn[c].device.kind # "none"
    BY <2>4 DEF Nas, Bind
  <2> QED BY <2>2, <2>5
<1>4. UNCHANGED volume \/ \E c \in Clients : RemoveVolume(c) \/ CreateVolume(c)
  <2>1. ASSUME NEW c \in Clients, \/ RunCommand(c) \/ ResolveBackup(c) \/ CheckPid(c) \/ Spawn(c) \/ WritePid(c)
                                  \/ DownloadEnds(c) \/ DownloadBegins(c) \/ DownloadTimesOut(c) \/ ChooseVolume(c) \/ SavePath(c)
        PROVE  UNCHANGED volume
    BY <2>1 DEF RunCommand, ResolveBackup, CheckPid, Spawn, WritePid, DownloadEnds, DownloadBegins, DownloadTimesOut,
                ChooseVolume, SavePath
  <2>2. ASSUME NEW c \in Clients, KillCommand(c) PROVE UNCHANGED volume
    BY <2>2 DEF KillCommand, LibraryKept
  <2>3. ASSUME NEW p \in DOMAIN loaders, LoaderRuns(p) PROVE UNCHANGED volume
    BY <2>3 DEF LoaderRuns
  <2>4. CASE UNCHANGED libraryVars
    BY <2>4 DEF libraryVars
  <2> QED BY <2>1, <2>2, <2>3, <2>4 DEF LibraryNext
<1> QED BY <1>1, <1>2, <1>3, <1>4

\* A step of the one client that is not about the volume.
LEMMA OtherMounts ==
  ASSUME ClientsInv, Clients = {1}, MountIsWhole,
         UNCHANGED <<library, volume, volumeWas, libTask>>, libPc[1] \in DownloadPlaces,
         libPc'[1] \in DownloadPlaces \cup {"idle"}
  PROVE  Mounting' /\ MountIsWhole'
<1>1. Clients' = Clients /\ Command(1)' = Command(1) /\ Command(1).op = "download"
  BY DEF Clients, Command, ClientsInv, ClientAt
<1>2. Mounting'
  BY DEF Mounting, DownloadPlaces
<1>3. \A c \in Clients' : Command(c)'.op # "mount"
  BY <1>1
<1> QED BY <1>2, <1>3 DEF MountIsWhole

\* One client: each step of a mount.
LEMMA MountSteps ==
  ASSUME ClientsInv, MountInv, Clients = {1},
         \/ RunCommand(1) \/ ResolveBackup(1) \/ CheckPid(1) \/ Spawn(1) \/ WritePid(1) \/ DownloadEnds(1) \/ DownloadBegins(1)
         \/ DownloadTimesOut(1) \/ ChooseVolume(1) \/ RemoveVolume(1) \/ CreateVolume(1) \/ SavePath(1) \/ KillCommand(1)
  PROVE  Mounting' /\ MountIsWhole'
<1>1. /\ DOMAIN libPc = {1} /\ DOMAIN replies = {1} /\ DOMAIN libOwn = {1} /\ DOMAIN volumeWas = {1} /\ DOMAIN libTask = {1}
      /\ ClientAt(1) /\ Mounting /\ MountIsWhole
  BY DEF ClientsInv, LibraryTypes, MountInv
<1> USE DEF Step, Reply, Refuse, NoFault, At
<1>2. CASE RunCommand(1)
  <2>1. /\ UNCHANGED <<library, folders, volume>> /\ libPc'[1] = library.clients[1][libTask[1] + 1].op
        /\ volumeWas'[1] = volume
    BY <1>1, <1>2 DEF RunCommand
  <2>2. libPc'[1] \in {"download", "mount"}
    <3>1. libTask[1] + 1 \in DOMAIN library.clients[1]
      BY <1>1, <1>2, LibraryAssumption DEF RunCommand, ClientsInv, LibraryTypes, Clients
    <3> QED BY <2>1, <3>1, CommandTyped DEF ClientsInv
  <2>3. Clients' = {1}
    BY <2>1 DEF Clients
  <2> QED BY <2>1, <2>2, <2>3 DEF Mounting, MountIsWhole
<1>3. CASE \/ ResolveBackup(1) \/ CheckPid(1) \/ Spawn(1) \/ WritePid(1) \/ DownloadEnds(1) \/ DownloadBegins(1)
           \/ DownloadTimesOut(1)
  <2>1. /\ UNCHANGED <<library, volume, volumeWas, libTask>> /\ libPc[1] \in DownloadPlaces
        /\ libPc'[1] \in DownloadPlaces \cup {"idle"}
    BY <1>1, <1>3 DEF ResolveBackup, CheckPid, Spawn, WritePid, DownloadEnds, DownloadBegins, DownloadTimesOut, DownloadPlaces
  <2> QED BY <1>1, <2>1, OtherMounts
<1>4. CASE ChooseVolume(1)
  <2>1. /\ UNCHANGED <<library, folders, volume, volumeWas, libTask, docPath>> /\ libPc[1] = "mount"
        /\ \/ libPc'[1] = "idle" /\ replies'[1].what = "error"
           \/ /\ Device(1).mode = "default" /\ (volume.kind = "cifs" \/ volume = Device(1).device)
              /\ libPc'[1] = "idle" /\ replies'[1].what = "mounted"
              /\ replies'[1].mode = "default" /\ replies'[1].device = Device(1).device
           \/ /\ Device(1).mode = "default" => volume.kind # "cifs"
              /\ libPc'[1] = "remove" /\ libOwn'[1] = Device(1)
    BY <1>1, <1>4 DEF ChooseVolume, MountReply
  <2>2. volume = volumeWas[1] /\ Clients' = {1} /\ \A d : HasDoclib(d)' = HasDoclib(d)
    BY <1>1, <2>1 DEF Mounting, Clients, HasDoclib
  <2>3. \/ Device(1).mode = "default"
        \/ library.nas # "none"
        \/ HasDoclib(Device(1).device.device) \/ Device(1).device.device \in library.dirs
    BY DEF Device, Bind, Mount, PathExists
  <2>4. libPc'[1] = "remove" => Chosen(libOwn[1])'
    BY <2>1, <2>2, <2>3 DEF Chosen
  <2>5. Mounting'
    BY <2>1, <2>2, <2>4 DEF Mounting
  <2> QED BY <2>1, <2>2, <2>5 DEF MountIsWhole
<1>5. CASE RemoveVolume(1)
  <2>1. /\ UNCHANGED <<library, folders, volumeWas, libTask, docPath, libOwn>> /\ libPc[1] = "remove"
        /\ \/ libPc'[1] = "idle" /\ replies'[1].what = "error" /\ volume' = volume
           \/ /\ volume.kind = "none" \/ ~library.inUse
              /\ libPc'[1] = "create" /\ volume' = Nothing
    BY <1>1, <1>5 DEF RemoveVolume, ClientsInv, LibraryTypes
  <2>2. volume = volumeWas[1] /\ Clients' = {1} /\ Chosen(libOwn[1]) /\ \A d : HasDoclib(d)' = HasDoclib(d)
    BY <1>1, <2>1 DEF Mounting, Clients, HasDoclib
  <2>3. Chosen(libOwn[1])'
    BY <2>1, <2>2 DEF Chosen
  <2>4. volume.kind = "none" => volumeWas[1] = Nothing
    BY <2>2 DEF MountInv
  <2> QED BY <2>1, <2>2, <2>3, <2>4 DEF Mounting, MountIsWhole
<1>6. CASE CreateVolume(1)
  <2>1. volume = Nothing /\ Chosen(libOwn[1]) /\ (library.inUse => volumeWas[1] = Nothing) /\ libPc[1] = "create"
    BY <1>1, <1>6 DEF CreateVolume, Mounting
  <2>2. /\ UNCHANGED <<library, folders, volumeWas, libTask, docPath, libOwn>>
        /\ \/ libPc'[1] = "idle" /\ replies'[1].what = "error" /\ volume' = volume
           \/ libPc'[1] = "savePath" /\ volume' = libOwn[1].device
           \/ /\ libOwn[1].mode # "local" /\ replies'[1].mode = libOwn[1].mode /\ libPc'[1] = "idle"
              /\ replies'[1].what = "mounted" /\ replies'[1].device = libOwn[1].device /\ volume' = libOwn[1].device
    <3>1. volume.kind = "none"
      BY <2>1 DEF Nothing
    <3>2. UNCHANGED <<library, folders, volumeWas, libTask, docPath, libOwn>>
      BY <1>6 DEF CreateVolume
    <3>3. CASE Refuse(1) /\ UNCHANGED volume
      BY <1>1, <3>2, <3>3
    <3>4. CASE /\ volume' = (IF volume.kind = "none" THEN libOwn[1].device ELSE volume)
               /\ IF libOwn[1].mode = "local" THEN Step(1, "savePath") ELSE Reply(1, MountReply(libOwn[1]))
      <4>1. volume' = libOwn[1].device
        BY <3>1, <3>4
      <4> QED BY <1>1, <3>2, <3>4, <4>1 DEF MountReply
    <3> QED BY <1>6, <3>3, <3>4 DEF CreateVolume
  <2>3. Chosen(libOwn[1])' /\ Clients' = {1}
    BY <2>1, <2>2 DEF Chosen, HasDoclib, Clients
  <2>4. Mounting'
    BY <2>2, <2>3 DEF Mounting
  <2> QED BY <2>1, <2>2, <2>3, <2>4 DEF MountIsWhole, Chosen
<1>7. CASE SavePath(1)
  <2>1. /\ UNCHANGED <<library, folders, volume, volumeWas, libTask, libOwn>> /\ docPath' = libOwn[1].device.device
        /\ libPc'[1] = "idle" /\ replies'[1].what = "mounted" /\ replies'[1].device = libOwn[1].device
        /\ volume = libOwn[1].device /\ Chosen(libOwn[1])
    BY <1>1, <1>7 DEF SavePath, Mounting, MountReply
  <2>2. Chosen(libOwn[1])' /\ Clients' = {1}
    BY <2>1 DEF Chosen, HasDoclib, Clients
  <2>3. Mounting'
    BY <2>1 DEF Mounting
  <2> QED BY <2>1, <2>2, <2>3 DEF MountIsWhole, Chosen
<1>8. CASE KillCommand(1)
  <2>1. libPc'[1] = "idle" /\ replies'[1].what = "killed" /\ library' = library
    BY <1>1, <1>8 DEF KillCommand
  <2>2. Clients' = {1}
    BY <2>1 DEF Clients
  <2> QED BY <2>1, <2>2 DEF Mounting, MountIsWhole
<1> QED BY <1>2, <1>3, <1>4, <1>5, <1>6, <1>7, <1>8

\* Each step keeps the volume of a refused mount.
LEMMA MountKeeps ==
  ASSUME ClientsInv, MountInv, [LibraryNext]_libraryVars
  PROVE  MountInv'
<1>1. volume'.kind = "none" => volume' = Nothing
  BY VolumeKeeps DEF MountInv
<1>2. library' = library
  BY DEF LibraryNext, RunCommand, ResolveBackup, CheckPid, Spawn, WritePid, DownloadEnds, DownloadBegins, DownloadTimesOut,
         ChooseVolume, RemoveVolume, CreateVolume, SavePath, KillCommand, LoaderRuns, NoFault, libraryVars
<1>3. SUFFICES ASSUME Clients = {1} PROVE Mounting' /\ MountIsWhole'
  BY <1>1, <1>2 DEF MountInv, MountIsWhole, Clients
<1>4. ASSUME UNCHANGED <<library, docPath, volume, libPc, libTask, libOwn, replies, volumeWas>>, FoldersGrow
      PROVE  Mounting' /\ MountIsWhole'
  <2>1. \A d : HasDoclib(d) => HasDoclib(d)'
    BY <1>4 DEF HasDoclib, FoldersGrow
  <2>2. Clients' = Clients /\ Command(1)' = Command(1) /\ Mounting /\ MountIsWhole
    BY <1>3, <1>4 DEF Clients, Command, MountInv
  <2>3. Mounting'
    BY <1>4, <2>1, <2>2 DEF Mounting, Chosen
  <2> QED BY <1>3, <1>4, <2>1, <2>2, <2>3 DEF MountIsWhole
<1>5. CASE UNCHANGED libraryVars
  <2>1. UNCHANGED <<library, folders, docPath, volume, libPc, libTask, libOwn, replies, volumeWas>>
    BY <1>5 DEF libraryVars
  <2> QED BY <1>4, <2>1 DEF FoldersGrow
<1>6. CASE \E p \in DOMAIN loaders : LoaderRuns(p)
  BY <1>4, <1>6, LoaderWorks DEF LoaderRuns, ClientsInv
<1>7. CASE \E c \in Clients :
             \/ RunCommand(c) \/ ResolveBackup(c) \/ CheckPid(c) \/ Spawn(c) \/ WritePid(c) \/ DownloadEnds(c) \/ DownloadBegins(c)
             \/ DownloadTimesOut(c) \/ ChooseVolume(c) \/ RemoveVolume(c) \/ CreateVolume(c) \/ SavePath(c) \/ KillCommand(c)
  BY <1>3, <1>7, MountSteps
<1> QED BY <1>5, <1>6, <1>7 DEF LibraryNext

\* One client: each step of a download.
LEMMA LoadSteps ==
  ASSUME ClientsInv, Clients = {1}, Loading,
         \/ RunCommand(1) \/ ResolveBackup(1) \/ CheckPid(1) \/ Spawn(1) \/ WritePid(1) \/ DownloadEnds(1) \/ DownloadBegins(1)
         \/ DownloadTimesOut(1) \/ ChooseVolume(1) \/ RemoveVolume(1) \/ CreateVolume(1) \/ SavePath(1)
  PROVE  Loading'
<1>1. /\ DOMAIN libPc = {1} /\ DOMAIN replies = {1} /\ DOMAIN libOwn = {1} /\ DOMAIN libTask = {1}
      /\ ClientAt(1) /\ loaders \in Seq(Loaders) /\ Len(loaders) \in Nat /\ DOMAIN loaders = 1 .. Len(loaders) /\ pidFile \in Nat
  BY DEF ClientsInv, LibraryTypes
<1> USE DEF Step, Reply, Refuse, NoFault, At
<1>2. CASE RunCommand(1)
  <2>1. /\ UNCHANGED <<library, folders, loaders, pidFile, replies>> /\ libPc'[1] = library.clients[1][libTask[1] + 1].op
        /\ libPc[1] = "idle"
    BY <1>1, <1>2 DEF RunCommand
  <2>2. libPc'[1] \in {"download", "mount"}
    <3>1. libTask[1] + 1 \in DOMAIN library.clients[1]
      BY <1>1, <1>2, LibraryAssumption DEF RunCommand, ClientsInv, LibraryTypes, Clients
    <3> QED BY <2>1, <3>1, CommandTyped DEF ClientsInv
  <2> QED BY <2>1, <2>2 DEF Loading
<1>3. CASE ResolveBackup(1) \/ CheckPid(1) \/ WritePid(1)
  <2>1. /\ UNCHANGED <<library, folders, loaders, libOwn, libTask>> /\ Command(1)' = Command(1)
        /\ replies'[1] = replies[1] \/ replies'[1].what \in {"error", "pending"}
        /\ \/ libPc[1] = "download" /\ libPc'[1] \in {"idle", "checkPid"} /\ pidFile' = pidFile
           \/ libPc[1] = "download" /\ libPc'[1] = "spawn" /\ ~Command(1).background /\ pidFile' = pidFile
           \/ libPc[1] = "checkPid" /\ libPc'[1] = "idle" /\ pidFile' = pidFile
           \/ libPc[1] = "checkPid" /\ libPc'[1] = "spawn" /\ ~Alive(pidFile) /\ pidFile' = 0
           \/ libPc[1] = "writePid" /\ libPc'[1] = "poll" /\ pidFile' = libOwn[1]
    <3>1. CASE ResolveBackup(1)
      <4>1. /\ UNCHANGED <<library, folders, loaders, libOwn, libTask, pidFile>> /\ libPc[1] = "download"
            /\ \/ libPc' = [libPc EXCEPT ![1] = "idle"] /\ replies' = [replies EXCEPT ![1] = [what |-> "error"]]
               \/ /\ libPc' = [libPc EXCEPT ![1] = IF Command(1).background THEN "checkPid" ELSE "spawn"]
                  /\ replies' = replies
        BY <3>1 DEF ResolveBackup
      <4> QED BY <1>1, <4>1 DEF Command
    <3>2. CASE CheckPid(1) \/ WritePid(1)
      BY <1>1, <3>2 DEF CheckPid, WritePid, Command
    <3> QED BY <1>3, <3>1, <3>2
  <2>2. HasDoclib(Command(1).dest)' = HasDoclib(Command(1).dest)
    BY <2>1 DEF HasDoclib
  <2> QED BY <1>1, <2>1, <2>2 DEF Loading, Alive
<1>4. CASE Spawn(1)
  <2> DEFINE l == [alive |-> TRUE, ok |-> FALSE, dest |-> Command(1).dest, backup |-> libBackup[1],
                   detached |-> Command(1).background, started |-> FALSE, had |-> HasDoclib(Command(1).dest)]
  <2>1. /\ UNCHANGED <<library, folders, pidFile, libTask, replies>> /\ loaders' = Append(loaders, l)
        /\ libOwn'[1] = Len(loaders) + 1 /\ libPc[1] = "spawn"
        /\ libPc'[1] = IF Command(1).background THEN "writePid" ELSE "wait"
    BY <1>1, <1>4 DEF Spawn
  <2>2. /\ l.detached = Command(1).background /\ l.alive /\ ~l.started /\ l.had = HasDoclib(Command(1).dest)
    OBVIOUS
  <2> HIDE DEF l
  <2>3. /\ loaders'[Len(loaders) + 1] = l /\ DOMAIN loaders' = DOMAIN loaders \cup {Len(loaders) + 1}
        /\ \A p \in DOMAIN loaders : loaders'[p] = loaders[p]
    BY <1>1, <2>1
  <2>4. Command(1)' = Command(1) /\ HasDoclib(Command(1).dest)' = HasDoclib(Command(1).dest)
    BY <2>1 DEF Command, HasDoclib
  <2>5. Command(1).background => pidFile = 0
    BY <2>1 DEF Loading
  <2> QED BY <1>1, <2>1, <2>2, <2>3, <2>4, <2>5 DEF Loading
<1>5. CASE DownloadEnds(1)
  <2>1. /\ UNCHANGED <<library, folders, loaders, pidFile, libOwn, libTask>> /\ libPc[1] = "wait" /\ libPc'[1] = "idle"
        /\ ~Alive(libOwn[1]) /\ replies'[1].what \in {"error", "downloaded"}
    BY <1>1, <1>5 DEF DownloadEnds
  <2> QED BY <1>1, <2>1 DEF Loading, Alive
<1>6. CASE DownloadBegins(1)
  <2>1. /\ UNCHANGED <<library, folders, loaders, libOwn, libTask>> /\ libPc[1] = "poll" /\ libPc'[1] = "idle"
        /\ \/ /\ HasDoclib(Command(1).dest) /\ pidFile' = pidFile
              /\ replies'[1].what = "background" /\ replies'[1].own = libOwn[1]
           \/ ~Alive(libOwn[1]) /\ pidFile' = 0 /\ replies'[1].what = "error"
    BY <1>1, <1>6 DEF DownloadBegins
  <2>2. libOwn[1] \in DOMAIN loaders
    BY <1>1, <2>1 DEF ClientAt
  <2> QED BY <1>1, <2>1, <2>2 DEF Loading, Alive
<1>7. CASE DownloadTimesOut(1)
  <2>1. /\ UNCHANGED <<library, folders, libOwn, libTask>> /\ libPc[1] = "poll" /\ libPc'[1] = "idle" /\ pidFile' = 0
        /\ loaders' = [loaders EXCEPT ![libOwn[1]].alive = FALSE] /\ replies'[1].what = "error"
    BY <1>1, <1>7 DEF DownloadTimesOut
  <2>2. libOwn[1] \in DOMAIN loaders /\ loaders[libOwn[1]] \in Loaders
    BY <1>1, <2>1 DEF ClientAt
  <2>3. /\ DOMAIN loaders' = DOMAIN loaders /\ ~loaders'[libOwn[1]].alive
        /\ \A p \in DOMAIN loaders : p # libOwn[1] => loaders'[p] = loaders[p]
    BY <1>1, <2>1, <2>2 DEF Loaders
  <2> QED BY <1>1, <2>1, <2>3 DEF Loading
<1>8. CASE ChooseVolume(1) \/ RemoveVolume(1) \/ CreateVolume(1) \/ SavePath(1)
  <2>1. /\ UNCHANGED <<library, folders, loaders, pidFile, libTask>> /\ libPc[1] \in MountPlaces
        /\ libPc'[1] \in {"idle", "remove", "create", "savePath"}
        /\ replies'[1] = replies[1] \/ replies'[1].what \in {"error", "mounted"}
    BY <1>1, <1>8 DEF ChooseVolume, RemoveVolume, CreateVolume, SavePath, MountPlaces, MountReply
  <2> QED BY <1>1, <2>1 DEF Loading, MountPlaces
<1> QED BY <1>2, <1>3, <1>4, <1>5, <1>6, <1>7, <1>8

\* Each step leaves at most one download.
LEMMA LoadKeeps ==
  ASSUME ClientsInv, LoadInv, [LibraryNext]_libraryVars
  PROVE  LoadInv'
<1>1. library' = library
  BY DEF LibraryNext, RunCommand, ResolveBackup, CheckPid, Spawn, WritePid, DownloadEnds, DownloadBegins, DownloadTimesOut,
         ChooseVolume, RemoveVolume, CreateVolume, SavePath, KillCommand, LoaderRuns, NoFault, libraryVars
<1>2. SUFFICES ASSUME Clients = {1}, libKills' = 0 PROVE Loading'
  BY <1>1 DEF LoadInv, Clients
<1>3. CASE UNCHANGED libraryVars
  <2>1. UNCHANGED <<library, folders, loaders, pidFile, libPc, libTask, libOwn, replies, libKills>>
    BY <1>3 DEF libraryVars
  <2>2. Loading
    BY <1>2, <2>1 DEF LoadInv
  <2> QED BY <2>1, <2>2 DEF Loading, Command, HasDoclib
<1>4. CASE \E p \in DOMAIN loaders : LoaderRuns(p)
  <2>1. PICK p \in DOMAIN loaders : LoaderRuns(p)
    BY <1>4
  <2>2. UNCHANGED <<library, pidFile, libPc, libTask, libOwn, replies, libKills>>
    BY <2>1 DEF LoaderRuns
  <2>3. /\ loaders[p].alive /\ DOMAIN loaders' = DOMAIN loaders
        /\ \A q \in DOMAIN loaders : /\ loaders'[q].detached = loaders[q].detached /\ loaders'[q].had = loaders[q].had
                                     /\ loaders'[q].alive => loaders[q].alive
                                     /\ loaders[q].started => loaders'[q].started
        /\ \A d : HasDoclib(d)' => HasDoclib(d) \/ loaders'[p].started
    BY <2>1, LoaderWorks DEF ClientsInv
  <2>4. Loading /\ Command(1)' = Command(1) /\ ClientAt(1)
    BY <1>2, <2>2 DEF LoadInv, Command, ClientsInv
  <2>5. libPc[1] \in {"writePid", "poll"} => p = libOwn[1]
    BY <2>3, <2>4, <1>2 DEF Loading, ClientsInv, LibraryTypes
  <2>6. libPc'[1] \in {"writePid", "poll"} /\ ~loaders'[libOwn'[1]].had /\ ~loaders'[libOwn'[1]].started
          => ~HasDoclib(Command(1).dest)'
    BY <2>2, <2>3, <2>4, <2>5 DEF Loading, ClientAt
  <2> QED BY <2>2, <2>3, <2>4, <2>6 DEF Loading
<1>5. CASE \E c \in Clients :
             \/ RunCommand(c) \/ ResolveBackup(c) \/ CheckPid(c) \/ Spawn(c) \/ WritePid(c) \/ DownloadEnds(c) \/ DownloadBegins(c)
             \/ DownloadTimesOut(c) \/ ChooseVolume(c) \/ RemoveVolume(c) \/ CreateVolume(c) \/ SavePath(c)
  <2>1. libKills' = libKills
    BY <1>5 DEF RunCommand, ResolveBackup, CheckPid, Spawn, WritePid, DownloadEnds, DownloadBegins, DownloadTimesOut,
                ChooseVolume, RemoveVolume, CreateVolume, SavePath, NoFault
  <2> QED BY <1>2, <1>5, <2>1, LoadSteps DEF LoadInv
<1>6. CASE \E c \in Clients : KillCommand(c)
  BY <1>2, <1>6 DEF KillCommand, ClientsInv, LibraryTypes
<1> QED BY <1>3, <1>4, <1>5, <1>6 DEF LibraryNext

\* One download runs, for the pid file has one number.
LEMMA LoadsAreOne ==
  ASSUME ClientsInv, LoadInv
  PROVE  OneDownload
<1> SUFFICES ASSUME Clients = {1}, libKills = 0
             PROVE  /\ Cardinality({p \in DOMAIN loaders : loaders[p].alive /\ loaders[p].detached}) <= 1
                    /\ \A p \in DOMAIN loaders : loaders[p].alive /\ loaders[p].detached => p = pidFile \/ libPc[1] = "writePid"
                    /\ \A c \in Clients : replies[c].what = "background" =>
                         loaders[replies[c].own].started \/ loaders[replies[c].own].had
  BY DEF OneDownload
<1> DEFINE Running == {p \in DOMAIN loaders : loaders[p].alive /\ loaders[p].detached}
<1>1. Loading /\ ClientAt(1) /\ DOMAIN loaders = 1 .. Len(loaders)
  BY DEF LoadInv, ClientsInv, LibraryTypes
<1>2. PICK q : Running \subseteq {q}
  <2>1. CASE libPc[1] = "writePid"
    <3>1. pidFile = 0 /\ 0 \notin DOMAIN loaders
      BY <1>1, <2>1 DEF Loading
    <3>2. \A p \in Running : p = libOwn[1]
      BY <1>1, <3>1 DEF Loading
    <3> QED BY <3>2
  <2>2. CASE libPc[1] # "writePid"
    BY <1>1, <2>2 DEF Loading
  <2> QED BY <2>1, <2>2
<1>3. Cardinality(Running) <= 1
  <2>1. IsFiniteSet({q}) /\ Cardinality({q}) = 1
    BY FS_Singleton
  <2> QED BY <1>2, <2>1, FS_Subset
<1> QED BY <1>1, <1>3 DEF Loading

\* The inductive invariant of the document library.
LibraryInv == ClientsInv /\ MountInv /\ LoadInv
\* It holds at the start, is kept, and says what the clients are promised.
LEMMA LibraryHolds ==
  /\ \A pc \in {"idle", "off"}, f \in Nat, k \in Nat : LibraryStart(pc, f, k) => LibraryInv
  /\ LibraryInv /\ [LibraryNext]_libraryVars => LibraryInv'
  /\ LibraryInv => LibraryIsFaithful
<1>1. ASSUME NEW pc \in {"idle", "off"}, NEW f \in Nat, NEW k \in Nat, LibraryStart(pc, f, k) PROVE LibraryInv
  <2>1. ClientsInv
    BY <1>1, LibraryStarts
  <2>2. /\ libPc = [c \in Clients |-> pc] /\ libTask = [c \in Clients |-> 0] /\ replies = [c \in Clients |-> NoReply]
        /\ volume = library.volume /\ loaders = <<>>
    BY <1>1 DEF LibraryStart
  <2>3. MountInv
    <3>1. volume.kind = "none" => volume = Nothing
      <4>1. library \in Libraries
        BY <2>1 DEF ClientsInv, LibraryTypes
      <4>2. library.volume \in {Nothing, Nas} \/ library.volume = Bind(library.volume.device)
        BY <4>1, LibraryAssumption
      <4> QED BY <2>2, <4>2 DEF Nas, Bind
    <3>2. Clients = {1} => Mounting /\ MountIsWhole
      BY <2>2 DEF Mounting, MountIsWhole
    <3> QED BY <3>1, <3>2 DEF MountInv, MountIsWhole
  <2>4. LoadInv
    BY <2>2 DEF LoadInv, Loading, NoReply
  <2> QED BY <2>1, <2>3, <2>4 DEF LibraryInv
<1>2. ASSUME LibraryInv, [LibraryNext]_libraryVars PROVE LibraryInv'
  BY <1>2, ClientsKeep, MountKeeps, LoadKeeps DEF LibraryInv
<1>3. ASSUME LibraryInv PROVE LibraryIsFaithful
  BY <1>3, LoadsAreOne DEF LibraryInv, MountInv, ClientsInv, ClientAt, LibraryIsFaithful, PathHasLibrary
<1> QED BY <1>1, <1>2, <1>3

-----------------------------------------------------------------------------
(* project init: what is there, what is coming, and whose it is.            *)
\* The places of project init, those behind docker/ and those behind liferay/ too.
BehindLiferay == {"files", "search", "connectors", "commit", "ready"}
\* The places behind docker/.
BehindDocker == {"liferay"} \cup BehindLiferay
\* The files that the search engine chooses.
Connectors == {"connector7", "connector8", "full7", "full8"}
\* What each directory needs to be of use.
DockerPart == {"compose", "sql", "scripts", ".env"}
WorkspacePart == {"workspace", "gradle.properties", "common"}
DockerenvPart == {"portal-ext", "store", "gitkeep", "modules"}
GitFiles == {".liferay-cli.yml", ".gitignore", ".gitattributes"}
\* A step puts a file or adds to one, in a directory.
StepKinds == [how : {"put", "add"}, file : DockerFiles \cup LiferayFiles \cup GitFiles, dir : {"docker", "liferay", "dockerenv", ""}]
\* What the steps to come bring.
Coming == {s.file : s \in ToSet(scaffoldTodo)}
\* And what is there.
OnDisk == DOMAIN there

\* Steps are to do only in the places that have them.
ScaffoldTypes ==
  /\ project \in Projects /\ DOMAIN dotenv = {"compose", "image", "es"} /\ scaffoldRun \in Nat
  /\ scaffoldPc \in {"off", "start", "git", "docker", "failed"} \cup BehindDocker
  /\ scaffoldTodo \in Seq(StepKinds)
  /\ scaffoldTodo # <<>> => scaffoldPc \in {"docker", "liferay", "files"}
  /\ scaffoldPc \notin {"off", "start"} => scaffoldRun \in DOMAIN project.runs
\* What is the user's, and what is put, created and staged.
MineInv ==
  /\ MineIsKept
  /\ \A s \in ToSet(scaffoldTodo) : s.how = "put" => s.file \notin project.mine
  /\ createdNow \cap project.mine \subseteq Connectors
  /\ (staged \cup committed) \cap project.mine \subseteq project.staged
\* What is there of each directory, and what is coming.
TodoInv ==
  /\ \A s \in ToSet(scaffoldTodo) : /\ scaffoldPc = "docker" => s.dir = "docker"
                                    /\ scaffoldPc = "liferay" => s.dir \in {"liferay", "dockerenv"}
                                    /\ scaffoldPc = "files" => s.dir = ""
                                    /\ s.file \notin {"docker", "liferay", "dockerenv"}
                                    /\ s.file = ".env" => s.how = "put"
  /\ \A i \in DOMAIN scaffoldTodo : scaffoldTodo[i].file \in WorkspacePart => \A j \in 1 .. i : scaffoldTodo[j].dir = "liferay"
  /\ "dockerenv" \in OnDisk => "liferay" \in OnDisk
\* A service that was asked for has its files, or they are coming.
ServicesInv ==
  /\ scaffoldPc = "docker" => \A s \in ToSet(Options.services) : ServicesOf(s) \subseteq OnDisk \cup Coming
  /\ scaffoldPc \in BehindDocker => \A s \in ToSet(Options.services) : ServicesOf(s) \subseteq OnDisk
  /\ ".env" \in OnDisk /\ "docker" \notin project.mine => \A s \in dotenv.compose : ServicesOf(s) \subseteq OnDisk
\* A directory that no run was stopped in has its part, or it is coming.
PlaceInv(pcs, filling, part, dirs, top) ==
  dirs \cap (project.mine \cup halted) = {} =>
    /\ scaffoldPc \in pcs /\ top \in OnDisk => part \subseteq OnDisk
    /\ scaffoldPc = filling => part \subseteq OnDisk \cup Coming
    /\ scaffoldPc \notin pcs \cup {filling} => part \subseteq OnDisk
\* Of each of the directories.
WholeInv ==
  /\ PlaceInv({"off", "start", "git", "failed"}, "docker", DockerPart, {"docker"}, "docker")
  /\ PlaceInv({"off", "start", "git", "docker", "failed"}, "liferay", WorkspacePart, {"liferay"}, "liferay")
  /\ PlaceInv({"off", "start", "git", "docker", "failed"}, "liferay", DockerenvPart, {"liferay", "dockerenv"}, "liferay")
\* The search engine, and what was committed.
RightOnes(old, current) == OnDisk \cap {old, current} = {IF dotenv.image = "8" THEN current ELSE old}
\* The engine fits the image.
SearchInv ==
  /\ scaffoldPc \in {"connectors", "commit", "ready"} /\ ".env" \in OnDisk => dotenv.es = dotenv.image
  /\ scaffoldPc \in {"commit", "ready"} /\ Asked("elasticsearch") /\ ".env" \in OnDisk =>
       RightOnes("connector7", "connector8") /\ RightOnes("full7", "full8")
\* A commit has what was created, and leaves nothing staged.
CommitInv ==
  scaffoldPc = "ready" /\ Options.commit =>
       /\ staged = {}
       /\ \A d \in createdNow \cap {"docker", "liferay"} :
            UnderDir(d) \cap DOMAIN there \subseteq committed \cup {d, "dockerenv", ".env"}
\* The inductive invariant of project init.
ScaffoldInv == ScaffoldTypes /\ MineInv /\ TodoInv /\ ServicesInv /\ WholeInv /\ SearchInv /\ CommitInv

\* The steps of the phases, as sets.
Bring(steps) == {s.file : s \in ToSet(steps)}
\* Lists of steps one after the other bring what each brings.
LEMMA StepsJoin ==
  ASSUME NEW S, NEW s \in Seq(S), NEW t \in Seq(S)
  PROVE  s \o t \in Seq(S) /\ ToSet(s \o t) = ToSet(s) \cup ToSet(t)
<1>1. s \o t \in Seq(S)
  OBVIOUS
<1>2. ToSet(s) \cup ToSet(t) \subseteq ToSet(s \o t)
  <2>1. \A i \in DOMAIN s : (s \o t)[i] = s[i] /\ i \in DOMAIN (s \o t)
    OBVIOUS
  <2>2. \A i \in DOMAIN t : (s \o t)[Len(s) + i] = t[i] /\ Len(s) + i \in DOMAIN (s \o t)
    OBVIOUS
  <2> QED BY <2>1, <2>2 DEF ToSet
<1>3. ToSet(s \o t) \subseteq ToSet(s) \cup ToSet(t)
  <2>1. \A i \in DOMAIN (s \o t) : i \in DOMAIN s \/ (i - Len(s) \in DOMAIN t /\ i \notin DOMAIN s)
    OBVIOUS
  <2>2. \A i \in DOMAIN (s \o t) : (s \o t)[i] = IF i \in DOMAIN s THEN s[i] ELSE t[i - Len(s)]
    OBVIOUS
  <2> QED BY <2>1, <2>2 DEF ToSet
<1> QED BY <1>1, <1>2, <1>3

\* As many steps as the lists have.
LEMMA StepsLength ==
  ASSUME NEW S, NEW s \in Seq(S), NEW t \in Seq(S)
  PROVE  Len(s \o t) = Len(s) + Len(t)
OBVIOUS
\* A step of both lists is of one of them.
LEMMA StepsSplit ==
  ASSUME NEW S, NEW s \in Seq(S), NEW t \in Seq(S), NEW i \in DOMAIN (s \o t)
  PROVE  \/ i \in 1 .. Len(s) /\ i \in DOMAIN s /\ (s \o t)[i] = s[i]
         \/ i \notin 1 .. Len(s) /\ (s \o t)[i] \in ToSet(t)
<1>1. CASE i \in 1 .. Len(s)
  BY <1>1
<1>2. CASE i \notin 1 .. Len(s)
  <2>1. i - Len(s) \in DOMAIN t /\ (s \o t)[i] = t[i - Len(s)]
    BY <1>2
  <2> QED BY <1>2, <2>1 DEF ToSet
<1> QED BY <1>1, <1>2

\* Steps that depend on a condition.
LEMMA StepsGiven ==
  ASSUME NEW S, NEW s \in Seq(S), NEW b \in BOOLEAN
  PROVE  Given(b, s) \in Seq(S) /\ ToSet(Given(b, s)) = IF b THEN ToSet(s) ELSE {}
BY DEF Given, ToSet

\* Two steps.
LEMMA PairOfSteps ==
  ASSUME NEW S, NEW a \in S, NEW b \in S
  PROVE  <<a, b>> \in Seq(S) /\ ToSet(<<a, b>>) = {a, b}
BY DEF ToSet
\* Three steps.
LEMMA TripleOfSteps ==
  ASSUME NEW S, NEW a \in S, NEW b \in S, NEW c \in S
  PROVE  <<a, b, c>> \in Seq(S) /\ ToSet(<<a, b, c>>) = {a, b, c}
BY DEF ToSet

\* What the steps of docker/ bring.
LEMMA DockerStepsAre ==
  /\ DockerSteps \in Seq(StepKinds)
  /\ \A s \in ToSet(DockerSteps) : /\ s.dir = "docker" /\ s.file \in DockerFiles \ ({"docker"} \cup WorkspacePart)
                                   /\ s.how = "put" => ~Exists("docker")
                                   /\ s.file = ".env" => s.how = "put"
  /\ Asked("postgres") => ServicesOf("postgres") \subseteq Bring(DockerSteps)
  /\ Asked("elasticsearch") => ServicesOf("elasticsearch") \subseteq Bring(DockerSteps)
  /\ ~Exists("docker") => DockerPart \subseteq Bring(DockerSteps)
<1> DEFINE new == ~Exists("docker")
           a == <<PutFile("compose", "docker"), AddFile("sql", "docker")>>
           b == <<AddFile("postgres", "docker"), AddFile("postgres.volume", "docker")>>
           c == <<AddFile("es", "docker"), AddFile("es.volume", "docker"), AddFile("Dockerfile", "docker")>>
           d == <<PutFile("full7", "docker"), PutFile("scripts", "docker"), PutFile(".env", "docker")>>
<1>2. /\ a \in Seq(StepKinds) /\ ToSet(a) = {PutFile("compose", "docker"), AddFile("sql", "docker")}
      /\ b \in Seq(StepKinds) /\ ToSet(b) = {AddFile("postgres", "docker"), AddFile("postgres.volume", "docker")}
      /\ c \in Seq(StepKinds)
      /\ ToSet(c) = {AddFile("es", "docker"), AddFile("es.volume", "docker"), AddFile("Dockerfile", "docker")}
      /\ d \in Seq(StepKinds)
      /\ ToSet(d) = {PutFile("full7", "docker"), PutFile("scripts", "docker"), PutFile(".env", "docker")}
  <2>1. \A s, t \in StepKinds : <<s, t>> \in Seq(StepKinds) /\ ToSet(<<s, t>>) = {s, t}
    BY PairOfSteps
  <2>6. \A s, t, u \in StepKinds : <<s, t, u>> \in Seq(StepKinds) /\ ToSet(<<s, t, u>>) = {s, t, u}
    BY TripleOfSteps
  <2>2. /\ PutFile("compose", "docker") \in StepKinds /\ AddFile("sql", "docker") \in StepKinds
        /\ AddFile("postgres", "docker") \in StepKinds /\ AddFile("postgres.volume", "docker") \in StepKinds
        /\ AddFile("es", "docker") \in StepKinds /\ AddFile("es.volume", "docker") \in StepKinds
        /\ AddFile("Dockerfile", "docker") \in StepKinds /\ PutFile("full7", "docker") \in StepKinds
        /\ PutFile("scripts", "docker") \in StepKinds /\ PutFile(".env", "docker") \in StepKinds
    BY DEF PutFile, AddFile, StepKinds, DockerFiles
  <2>3. /\ a \in Seq(StepKinds) /\ ToSet(a) = {PutFile("compose", "docker"), AddFile("sql", "docker")}
        /\ b \in Seq(StepKinds) /\ ToSet(b) = {AddFile("postgres", "docker"), AddFile("postgres.volume", "docker")}
    BY <2>1, <2>2
  <2>4. /\ c \in Seq(StepKinds)
        /\ ToSet(c) = {AddFile("es", "docker"), AddFile("es.volume", "docker"), AddFile("Dockerfile", "docker")}
    BY <2>6, <2>2
  <2>5. /\ d \in Seq(StepKinds)
        /\ ToSet(d) = {PutFile("full7", "docker"), PutFile("scripts", "docker"), PutFile(".env", "docker")}
    BY <2>6, <2>2
  <2> HIDE DEF a, b, c, d
  <2> QED BY <2>3, <2>4, <2>5
<1>3. /\ new \in BOOLEAN /\ Asked("postgres") \in BOOLEAN /\ Asked("elasticsearch") \in BOOLEAN
      /\ DockerSteps = Given(new, a) \o Given(Asked("postgres"), b) \o Given(Asked("elasticsearch"), c) \o Given(new, d)
  BY DEF DockerSteps, Asked, Exists
<1> HIDE DEF new, a, b, c, d
<1>4. /\ DockerSteps \in Seq(StepKinds)
      /\ ToSet(DockerSteps) = (IF new THEN ToSet(a) \cup ToSet(d) ELSE {}) \cup (IF Asked("postgres") THEN ToSet(b) ELSE {})
                              \cup (IF Asked("elasticsearch") THEN ToSet(c) ELSE {})
  <2>1. /\ Given(new, a) \in Seq(StepKinds) /\ Given(Asked("postgres"), b) \in Seq(StepKinds)
        /\ Given(Asked("elasticsearch"), c) \in Seq(StepKinds) /\ Given(new, d) \in Seq(StepKinds)
        /\ ToSet(Given(new, a)) = (IF new THEN ToSet(a) ELSE {}) /\ ToSet(Given(new, d)) = (IF new THEN ToSet(d) ELSE {})
        /\ ToSet(Given(Asked("postgres"), b)) = (IF Asked("postgres") THEN ToSet(b) ELSE {})
        /\ ToSet(Given(Asked("elasticsearch"), c)) = (IF Asked("elasticsearch") THEN ToSet(c) ELSE {})
    BY <1>2, <1>3, StepsGiven
  <2> DEFINE p == Given(new, a)
             q == Given(Asked("postgres"), b)
             r == Given(Asked("elasticsearch"), c)
             t == Given(new, d)
  <2>5. /\ p \in Seq(StepKinds) /\ q \in Seq(StepKinds) /\ r \in Seq(StepKinds) /\ t \in Seq(StepKinds)
        /\ DockerSteps = p \o q \o r \o t
    BY <1>3, <2>1
  <2> HIDE DEF p, q, r, t
  <2>2. p \o q \in Seq(StepKinds) /\ ToSet(p \o q) = ToSet(p) \cup ToSet(q)
    BY <2>5, StepsJoin
  <2> DEFINE pq == p \o q
             pqr == pq \o r
  <2>6. pq \in Seq(StepKinds) /\ ToSet(pq) = ToSet(p) \cup ToSet(q)
    BY <2>2
  <2> HIDE DEF pq
  <2>3. pqr \in Seq(StepKinds) /\ ToSet(pqr) = ToSet(p) \cup ToSet(q) \cup ToSet(r)
    BY <2>5, <2>6, StepsJoin
  <2> HIDE DEF pqr
  <2>4. /\ pqr \o t \in Seq(StepKinds)
        /\ ToSet(pqr \o t) = ToSet(p) \cup ToSet(q) \cup ToSet(r) \cup ToSet(t)
    BY <2>5, <2>3, StepsJoin
  <2> QED BY <2>1, <2>4, <2>5 DEF p, q, r, t, pq, pqr
<1>5. /\ \A s \in ToSet(a) \cup ToSet(d) : /\ s.dir = "docker" /\ s.file \in DockerFiles \ ({"docker"} \cup WorkspacePart)
                                           /\ s.file = ".env" => s.how = "put"
      /\ \A s \in ToSet(b) \cup ToSet(c) : /\ s.dir = "docker" /\ s.file \in DockerFiles \ ({"docker", ".env"} \cup WorkspacePart)
                                           /\ s.how = "add"
  BY <1>2 DEF PutFile, AddFile, DockerFiles, WorkspacePart
<1>6. /\ {"compose", "sql", "full7", "scripts", ".env"} = {s.file : s \in ToSet(a) \cup ToSet(d)}
      /\ {"postgres", "postgres.volume"} = {s.file : s \in ToSet(b)}
      /\ {"es", "es.volume", "Dockerfile"} = {s.file : s \in ToSet(c)}
  BY <1>2 DEF PutFile, AddFile
<1>7. \A s \in ToSet(DockerSteps) : /\ s.dir = "docker" /\ s.file \in DockerFiles \ ({"docker"} \cup WorkspacePart)
                                    /\ s.how = "put" => ~Exists("docker")
                                    /\ s.file = ".env" => s.how = "put"
  BY <1>4, <1>5 DEF new
<1>8. /\ Asked("postgres") => ServicesOf("postgres") \subseteq Bring(DockerSteps)
      /\ Asked("elasticsearch") => ServicesOf("elasticsearch") \subseteq Bring(DockerSteps)
      /\ ~Exists("docker") => DockerPart \subseteq Bring(DockerSteps)
  BY <1>4, <1>6, SMTT(30) DEF Bring, ServicesOf, DockerPart, new
<1> QED BY <1>4, <1>7, <1>8

\* Those of the Docker files under liferay/.
LEMMA DockerenvStepsAre ==
  /\ DockerenvSteps \in Seq(StepKinds)
  /\ \A s \in ToSet(DockerenvSteps) : /\ s.dir = "dockerenv" /\ s.file \in EnvFiles \ {"dockerenv"}
                                      /\ s.how = "put" => ~Exists("dockerenv")
  /\ ~Exists("dockerenv") => {"portal-ext", "store", "gitkeep"} \subseteq Bring(DockerenvSteps)
<1> DEFINE new == ~Exists("dockerenv")
           a == <<PutFile("portal-ext", "dockerenv"), PutFile("store", "dockerenv")>>
           b == <<AddFile("connector7", "dockerenv")>>
           c == <<AddFile("gitkeep", "dockerenv")>>
           p == Given(new, a)
           q == Given(Asked("elasticsearch"), b)
           r == Given(new, c)
<1>1. /\ PutFile("portal-ext", "dockerenv") \in StepKinds /\ PutFile("store", "dockerenv") \in StepKinds
      /\ AddFile("connector7", "dockerenv") \in StepKinds /\ AddFile("gitkeep", "dockerenv") \in StepKinds
  BY DEF PutFile, AddFile, StepKinds, LiferayFiles, EnvFiles
<1>2. /\ a \in Seq(StepKinds) /\ ToSet(a) = {PutFile("portal-ext", "dockerenv"), PutFile("store", "dockerenv")}
      /\ b \in Seq(StepKinds) /\ ToSet(b) = {AddFile("connector7", "dockerenv")}
      /\ c \in Seq(StepKinds) /\ ToSet(c) = {AddFile("gitkeep", "dockerenv")}
  <2>1. a \in Seq(StepKinds) /\ ToSet(a) = {PutFile("portal-ext", "dockerenv"), PutFile("store", "dockerenv")}
    BY <1>1, PairOfSteps
  <2>2. b \in Seq(StepKinds) /\ ToSet(b) = {AddFile("connector7", "dockerenv")}
    BY <1>1 DEF ToSet
  <2>3. c \in Seq(StepKinds) /\ ToSet(c) = {AddFile("gitkeep", "dockerenv")}
    BY <1>1 DEF ToSet
  <2> QED BY <2>1, <2>2, <2>3
<1>3. new \in BOOLEAN /\ Asked("elasticsearch") \in BOOLEAN /\ DockerenvSteps = p \o q \o r
  BY DEF DockerenvSteps, Asked, Exists
<1> HIDE DEF new, a, b, c
<1>4. /\ p \in Seq(StepKinds) /\ q \in Seq(StepKinds) /\ r \in Seq(StepKinds)
      /\ ToSet(p) = (IF new THEN ToSet(a) ELSE {}) /\ ToSet(q) \subseteq ToSet(b)
      /\ ToSet(r) = (IF new THEN ToSet(c) ELSE {})
  BY <1>2, <1>3, StepsGiven
<1> HIDE DEF p, q, r
<1>5. /\ DockerenvSteps \in Seq(StepKinds)
      /\ ToSet(DockerenvSteps) = ToSet(p) \cup ToSet(q) \cup ToSet(r)
  <2> DEFINE pq == p \o q
  <2>1. pq \in Seq(StepKinds) /\ ToSet(pq) = ToSet(p) \cup ToSet(q)
    BY <1>4, StepsJoin
  <2>2. DockerenvSteps = pq \o r
    BY <1>3
  <2> HIDE DEF pq
  <2> QED BY <1>4, <2>1, <2>2, StepsJoin
<1>6. /\ \A s \in ToSet(a) \cup ToSet(c) : s.dir = "dockerenv" /\ s.file \in EnvFiles \ {"dockerenv"}
      /\ \A s \in ToSet(b) : s.dir = "dockerenv" /\ s.file \in EnvFiles \ {"dockerenv"} /\ s.how = "add"
  BY <1>2 DEF PutFile, AddFile, EnvFiles
<1>7. {"portal-ext", "store", "gitkeep"} = {s.file : s \in ToSet(a) \cup ToSet(c)}
  BY <1>2 DEF PutFile, AddFile
<1>8. \A s \in ToSet(DockerenvSteps) : /\ s.dir = "dockerenv" /\ s.file \in EnvFiles \ {"dockerenv"}
                                       /\ s.how = "put" => ~Exists("dockerenv")
  BY <1>4, <1>5, <1>6 DEF new
<1>9. ~Exists("dockerenv") => {"portal-ext", "store", "gitkeep"} \subseteq Bring(DockerenvSteps)
  BY <1>4, <1>5, <1>7 DEF Bring, new
<1> QED BY <1>5, <1>8, <1>9

\* Those of liferay/.
LEMMA LiferayStepsAre ==
  /\ LiferaySteps \in Seq(StepKinds)
  /\ \A s \in ToSet(LiferaySteps) : /\ s.dir \in {"liferay", "dockerenv"} /\ s.file \in LiferayFiles \ {"liferay", "dockerenv"}
                                    /\ s.how = "put" => \/ ~Exists("liferay")
                                                        \/ s.file \in EnvFiles /\ ~Exists("dockerenv")
  /\ ~Exists("liferay") => WorkspacePart \subseteq Bring(LiferaySteps)
  /\ ~Exists("liferay") /\ ~Exists("dockerenv") => DockerenvPart \subseteq Bring(LiferaySteps)
  /\ \A i \in DOMAIN LiferaySteps : LiferaySteps[i].file \in WorkspacePart => \A j \in 1 .. i : LiferaySteps[j].dir = "liferay"
<1> DEFINE e == DockerenvSteps
           a == <<PutFile("workspace", "liferay"), PutFile("gradle.properties", "liferay"), PutFile("common", "liferay")>>
           c == <<AddFile("modules", "liferay")>>
           l == LiferaySteps
<1>1. /\ PutFile("workspace", "liferay") \in StepKinds /\ PutFile("gradle.properties", "liferay") \in StepKinds
      /\ PutFile("common", "liferay") \in StepKinds /\ AddFile("modules", "liferay") \in StepKinds
  BY DEF PutFile, AddFile, StepKinds, LiferayFiles
<1>2. /\ a \in Seq(StepKinds)
      /\ ToSet(a) = {PutFile("workspace", "liferay"), PutFile("gradle.properties", "liferay"), PutFile("common", "liferay")}
      /\ c \in Seq(StepKinds) /\ ToSet(c) = {AddFile("modules", "liferay")}
      /\ Len(a) = 3 /\ \A i \in 1 .. 3 : a[i].dir = "liferay"
  <2>1. /\ a \in Seq(StepKinds)
        /\ ToSet(a) = {PutFile("workspace", "liferay"), PutFile("gradle.properties", "liferay"), PutFile("common", "liferay")}
    BY <1>1, TripleOfSteps
  <2>2. c \in Seq(StepKinds) /\ ToSet(c) = {AddFile("modules", "liferay")}
    BY <1>1 DEF ToSet
  <2>3. Len(a) = 3 /\ \A i \in 1 .. 3 : a[i].dir = "liferay"
    BY DEF PutFile
  <2> QED BY <2>1, <2>2, <2>3
<1>3. /\ e \in Seq(StepKinds)
      /\ \A s \in ToSet(e) : /\ s.dir = "dockerenv" /\ s.file \in EnvFiles \ {"dockerenv"}
                             /\ s.how = "put" => ~Exists("dockerenv")
      /\ ~Exists("dockerenv") => {"portal-ext", "store", "gitkeep"} \subseteq Bring(e)
  BY DockerenvStepsAre
<1>4. l = IF Exists("liferay") THEN e ELSE a \o e \o c
  BY DEF LiferaySteps
<1>5. /\ \A s \in ToSet(a) : s.dir = "liferay" /\ s.file \in LiferayFiles \ {"liferay", "dockerenv"}
      /\ \A s \in ToSet(c) : s.dir = "liferay" /\ s.file \in LiferayFiles \ ({"liferay", "dockerenv"} \cup WorkspacePart)
      /\ \A s \in ToSet(e) : s.dir = "dockerenv" /\ s.file \in LiferayFiles \ ({"liferay", "dockerenv"} \cup WorkspacePart)
      /\ WorkspacePart = {s.file : s \in ToSet(a)} /\ {"modules"} = {s.file : s \in ToSet(c)}
  <2>1. \A s \in ToSet(a) : s.dir = "liferay" /\ s.file \in LiferayFiles \ {"liferay", "dockerenv"}
    BY <1>2 DEF PutFile, LiferayFiles, EnvFiles
  <2>2. \A s \in ToSet(c) : s.dir = "liferay" /\ s.file \in LiferayFiles \ ({"liferay", "dockerenv"} \cup WorkspacePart)
    BY <1>2 DEF AddFile, LiferayFiles, EnvFiles, WorkspacePart
  <2>3. \A s \in ToSet(e) : s.dir = "dockerenv" /\ s.file \in LiferayFiles \ ({"liferay", "dockerenv"} \cup WorkspacePart)
    BY <1>3 DEF LiferayFiles, EnvFiles, WorkspacePart
  <2>4. WorkspacePart = {s.file : s \in ToSet(a)} /\ {"modules"} = {s.file : s \in ToSet(c)}
    BY <1>2 DEF PutFile, AddFile, WorkspacePart
  <2> QED BY <2>1, <2>2, <2>3, <2>4
<1> HIDE DEF e, a, c, l
<1>6. /\ a \o e \in Seq(StepKinds) /\ ToSet(a \o e) = ToSet(a) \cup ToSet(e)
      /\ (a \o e) \o c \in Seq(StepKinds) /\ ToSet((a \o e) \o c) = ToSet(a) \cup ToSet(e) \cup ToSet(c)
  <2>1. a \o e \in Seq(StepKinds) /\ ToSet(a \o e) = ToSet(a) \cup ToSet(e)
    BY <1>2, <1>3, StepsJoin
  <2> DEFINE ae == a \o e
  <2>2. ae \in Seq(StepKinds) /\ ToSet(ae) = ToSet(a) \cup ToSet(e)
    BY <2>1
  <2> HIDE DEF ae
  <2>3. ae \o c \in Seq(StepKinds) /\ ToSet(ae \o c) = ToSet(a) \cup ToSet(e) \cup ToSet(c)
    BY <1>2, <2>2, StepsJoin
  <2> QED BY <2>1, <2>3 DEF ae
<1>7. l \in Seq(StepKinds) /\ ToSet(l) = (IF Exists("liferay") THEN ToSet(e) ELSE ToSet(a) \cup ToSet(e) \cup ToSet(c))
  BY <1>3, <1>4, <1>6
<1>8. \A i \in DOMAIN l : l[i].file \in WorkspacePart => \A j \in 1 .. i : l[j].dir = "liferay"
  <2> SUFFICES ASSUME NEW i \in DOMAIN l, l[i].file \in WorkspacePart, NEW j \in 1 .. i PROVE l[j].dir = "liferay"
    OBVIOUS
  <2>1. ~Exists("liferay")
    BY <1>3, <1>4, <1>5 DEF ToSet
  <2> DEFINE ae == a \o e
  <2>2. ae \in Seq(StepKinds) /\ l = ae \o c /\ Len(ae) = 3 + Len(e) /\ Len(e) \in Nat
    <3>1. ae \in Seq(StepKinds) /\ l = ae \o c
      BY <1>4, <1>6, <2>1
    <3>2. Len(ae) = 3 + Len(e) /\ Len(e) \in Nat
      <4>1. a \in Seq(StepKinds) /\ e \in Seq(StepKinds) /\ Len(a) = 3 /\ Len(e) \in Nat
        BY <1>2, <1>3
      <4>2. Len(a \o e) = Len(a) + Len(e)
        BY <4>1, StepsLength
      <4> QED BY <4>1, <4>2
    <3> QED BY <3>1, <3>2
  <2>3. \A k \in DOMAIN l : \/ k \in 1 .. Len(ae) /\ k \in DOMAIN ae /\ l[k] = ae[k]
                            \/ k \notin 1 .. Len(ae) /\ l[k] \in ToSet(c)
    <3> HIDE DEF ae
    <3> QED BY <1>2, <2>2, StepsSplit
  <2>4. \A k \in DOMAIN ae : \/ k \in 1 .. 3 /\ ae[k] = a[k]
                             \/ k \notin 1 .. 3 /\ ae[k] \in ToSet(e)
    BY <1>2, <1>3, StepsSplit
  <2> HIDE DEF ae
  <2>5. i \in 1 .. 3
    BY <1>5, <2>3, <2>4
  <2>6. j \in 1 .. 3 /\ j \in DOMAIN l
    BY <1>7, <2>5
  <2>7. j \in 1 .. Len(ae)
    BY <2>2, <2>6
  <2> QED BY <1>2, <2>3, <2>4, <2>6, <2>7
<1>9. \A s \in ToSet(l) : /\ s.dir \in {"liferay", "dockerenv"} /\ s.file \in LiferayFiles \ {"liferay", "dockerenv"}
                          /\ s.how = "put" => ~Exists("liferay") \/ (s.file \in EnvFiles /\ ~Exists("dockerenv"))
  BY <1>3, <1>5, <1>7
<1>10. /\ ~Exists("liferay") => WorkspacePart \subseteq Bring(l)
       /\ ~Exists("liferay") /\ ~Exists("dockerenv") => DockerenvPart \subseteq Bring(l)
  BY <1>3, <1>5, <1>7 DEF Bring, DockerenvPart
<1> QED BY <1>7, <1>8, <1>9, <1>10 DEF l

\* What is left after the first step.
LEMMA StepsTail ==
  ASSUME NEW S, NEW s \in Seq(S), s # <<>>
  PROVE  /\ Tail(s) \in Seq(S) /\ Head(s) \in S /\ ToSet(s) = {Head(s)} \cup ToSet(Tail(s))
         /\ \A i \in DOMAIN Tail(s) : Tail(s)[i] = s[i + 1] /\ i + 1 \in DOMAIN s
         /\ Head(s) = s[1] /\ DOMAIN s = 1 .. Len(s) /\ DOMAIN Tail(s) = 1 .. Len(Tail(s)) /\ Len(Tail(s)) \in Nat
<1>1. /\ Tail(s) \in Seq(S) /\ Head(s) \in S /\ Head(s) = s[1] /\ DOMAIN s = 1 .. Len(s) /\ DOMAIN Tail(s) = 1 .. Len(Tail(s))
      /\ Len(Tail(s)) \in Nat /\ 1 \in DOMAIN s
  OBVIOUS
<1>2. \A i \in DOMAIN Tail(s) : Tail(s)[i] = s[i + 1] /\ i + 1 \in DOMAIN s
  OBVIOUS
<1>3. \A i \in DOMAIN s : i = 1 \/ (i - 1 \in DOMAIN Tail(s) /\ Tail(s)[i - 1] = s[i])
  OBVIOUS
<1>4. ToSet(s) = {Head(s)} \cup ToSet(Tail(s))
  <2>1. ToSet(s) \subseteq {Head(s)} \cup ToSet(Tail(s))
    BY <1>1, <1>3 DEF ToSet
  <2>2. {Head(s)} \cup ToSet(Tail(s)) \subseteq ToSet(s)
    BY <1>1, <1>2 DEF ToSet
  <2> QED BY <2>1, <2>2
<1> QED BY <1>1, <1>2, <1>4

\* Before the first run there is what the user has.
LEMMA ScaffoldStarts ==
  ASSUME NEW pc \in {"start", "off"}, NEW f \in Nat, ScaffoldStart(pc, f)
  PROVE  ScaffoldInv
<1>1. /\ project \in Projects /\ scaffoldPc = pc /\ scaffoldRun = 0 /\ scaffoldTodo = <<>> /\ createdNow = {}
      /\ staged = project.staged /\ committed = {} /\ halted = {} /\ dotenv = project.dotenv
      /\ OnDisk = project.mine /\ \A x \in project.mine : there[x] = "mine"
  BY DEF ScaffoldStart, OnDisk
<1>2. MineOK(project.mine) /\ DOMAIN project.dotenv = {"compose", "image", "es"}
  BY <1>1, ScaffoldAssumption
<1>3. scaffoldTodo \in Seq(StepKinds) /\ ToSet(scaffoldTodo) = {} /\ DOMAIN scaffoldTodo = {} /\ Coming = {}
  <2>1. scaffoldTodo \in Seq(StepKinds) /\ DOMAIN scaffoldTodo = {}
    BY <1>1
  <2> QED BY <2>1 DEF ToSet, Coming
<1>4. ScaffoldTypes
  BY <1>1, <1>2, <1>3 DEF ScaffoldTypes, BehindDocker, BehindLiferay
<1>5. MineInv
  BY <1>1, <1>3 DEF MineInv, MineIsKept, Exists, OnDisk
<1>6. /\ \A d \in {"docker", "liferay", "dockerenv"} : UnderDir(d) \cap OnDisk # {} => d \in OnDisk
      /\ "dockerenv" \in UnderDir("liferay") /\ ".env" \in UnderDir("docker")
  BY <1>1, <1>2 DEF MineOK, UnderDir, LiferayFiles, EnvFiles, DockerFiles
<1>7. TodoInv
  BY <1>3, <1>6 DEF TodoInv
<1>8. ServicesInv
  BY <1>1, <1>6 DEF ServicesInv, BehindDocker, BehindLiferay
<1>9. WholeInv
  BY <1>1 DEF WholeInv, PlaceInv
<1> QED BY <1>1, <1>4, <1>5, <1>7, <1>8, <1>9 DEF ScaffoldInv, SearchInv, CommitInv

\* Each action keeps it: the start of a run,
LEMMA StartKeeps ==
  ASSUME ScaffoldInv, StartScaffold
  PROVE  ScaffoldInv'
<1>1. /\ scaffoldPc \in {"start", "ready", "failed"} /\ scaffoldRun < Len(project.runs) /\ scaffoldRun' = scaffoldRun + 1
      /\ createdNow' = {} /\ scaffoldPc' = "git" /\ scaffoldTodo' = <<>>
      /\ UNCHANGED <<project, there, dotenv, staged, committed, halted>>
  BY DEF StartScaffold
<1>2. /\ ScaffoldTypes /\ MineInv /\ TodoInv /\ ServicesInv /\ WholeInv
  BY DEF ScaffoldInv
<1>3. scaffoldTodo' \in Seq(StepKinds) /\ ToSet(scaffoldTodo') = {} /\ DOMAIN scaffoldTodo' = {} /\ Coming' = {} /\ OnDisk' = OnDisk
  <2>1. scaffoldTodo' \in Seq(StepKinds) /\ DOMAIN scaffoldTodo' = {}
    BY <1>1
  <2> QED BY <1>1, <2>1 DEF ToSet, Coming, OnDisk
<1>4. ScaffoldTypes'
  BY <1>1, <1>2, <1>3, ScaffoldAssumption DEF ScaffoldTypes, BehindDocker, BehindLiferay
<1>5. MineInv'
  BY <1>1, <1>2, <1>3 DEF MineInv, MineIsKept, Exists
<1>6. TodoInv'
  BY <1>2, <1>3 DEF TodoInv
<1>7. ServicesInv'
  BY <1>1, <1>2, <1>3 DEF ServicesInv, BehindDocker, BehindLiferay
<1>8. WholeInv'
  BY <1>1, <1>2, <1>3 DEF WholeInv, PlaceInv
<1> QED BY <1>1, <1>4, <1>5, <1>6, <1>7, <1>8 DEF ScaffoldInv, SearchInv, CommitInv

\* the creation of a directory,
LEMMA EnterKeeps ==
  ASSUME ScaffoldInv, EnterPhase
  PROVE  ScaffoldInv'
<1>1. /\ scaffoldTodo = <<>> /\ UNCHANGED <<project, there, dotenv, scaffoldRun, createdNow, staged, committed, halted>>
      /\ \/ scaffoldPc = "git" /\ scaffoldPc' = "docker" /\ scaffoldTodo' = DockerSteps
         \/ scaffoldPc = "docker" /\ scaffoldPc' = "liferay" /\ scaffoldTodo' = LiferaySteps
         \/ scaffoldPc = "liferay" /\ scaffoldPc' = "files" /\ scaffoldTodo' = FileSteps
  BY DEF EnterPhase, Enter, StepsOf
<1>2. /\ ScaffoldTypes /\ MineInv /\ TodoInv /\ ServicesInv /\ WholeInv
  BY DEF ScaffoldInv
<1>3. OnDisk' = OnDisk /\ Coming = {} /\ Coming' = Bring(scaffoldTodo') /\ Options' = Options
  BY <1>1 DEF OnDisk, Coming, Bring, ToSet, Options
<1>4. \A d \in {"docker", "liferay", "dockerenv"} : ~Exists(d) => UnderDir(d) \cap project.mine = {}
  <2>1. \A d \in {"docker", "liferay", "dockerenv"} : ~Exists(d) => d \notin project.mine
    BY <1>2 DEF MineInv, MineIsKept
  <2>2. MineOK(project.mine)
    BY <1>2, ScaffoldAssumption DEF ScaffoldTypes
  <2> QED BY <2>1, <2>2 DEF MineOK
<1>5. MineIsKept' /\ (createdNow \cap project.mine \subseteq Connectors)' /\ ((staged \cup committed) \cap project.mine \subseteq project.staged)'
  BY <1>1, <1>2 DEF MineInv, MineIsKept, Exists
<1>6. scaffoldRun \in DOMAIN project.runs
  BY <1>1, <1>2 DEF ScaffoldTypes
<1>7. ToSet(Options.services) \subseteq {"postgres", "elasticsearch"}
  <2>1. Options \in ToSet(project.runs)
    BY <1>6 DEF Options, ToSet
  <2> QED BY <1>2, <2>1, ScaffoldAssumption DEF ScaffoldTypes
<1>8. (".env" \in OnDisk /\ "docker" \notin project.mine => \A s \in dotenv.compose : ServicesOf(s) \subseteq OnDisk)'
  BY <1>1, <1>2, <1>3 DEF ServicesInv
<1>9. CASE scaffoldPc = "git" /\ scaffoldPc' = "docker" /\ scaffoldTodo' = DockerSteps
  <2>1. ScaffoldTypes'
    BY <1>1, <1>2, <1>6, <1>9, DockerStepsAre DEF ScaffoldTypes
  <2>2. MineInv'
    <3>1. \A s \in ToSet(DockerSteps) : s.how = "put" => s.file \notin project.mine
      BY <1>4, DockerStepsAre DEF UnderDir
    <3> QED BY <1>1, <1>5, <1>9, <3>1 DEF MineInv
  <2>3. TodoInv'
    <3>1. \A s \in ToSet(DockerSteps) : /\ s.dir = "docker" /\ s.file \notin WorkspacePart
                                        /\ s.file \notin {"docker", "liferay", "dockerenv"}
                                        /\ s.file = ".env" => s.how = "put"
      BY DockerStepsAre DEF DockerFiles
    <3>2. \A i \in DOMAIN DockerSteps : DockerSteps[i].file \notin WorkspacePart
      BY <3>1 DEF ToSet
    <3> QED BY <1>2, <1>3, <1>9, <3>1, <3>2 DEF TodoInv
  <2>4. ServicesInv'
    <3>1. \A s \in ToSet(Options.services) : ServicesOf(s) \subseteq Coming'
      BY <1>3, <1>7, <1>9, DockerStepsAre DEF Asked
    <3> QED BY <1>3, <1>8, <1>9, <3>1 DEF ServicesInv, BehindDocker, BehindLiferay
  <2>5. WholeInv'
    <3>1. "docker" \notin OnDisk => DockerPart \subseteq Coming'
      BY <1>3, <1>9, DockerStepsAre DEF Exists, OnDisk
    <3> QED BY <1>1, <1>2, <1>3, <1>9, <3>1 DEF WholeInv, PlaceInv
  <2> QED BY <1>9, <2>1, <2>2, <2>3, <2>4, <2>5 DEF ScaffoldInv, SearchInv, CommitInv
<1>10. CASE scaffoldPc = "docker" /\ scaffoldPc' = "liferay" /\ scaffoldTodo' = LiferaySteps
  <2>1. ScaffoldTypes'
    BY <1>1, <1>2, <1>6, <1>10, LiferayStepsAre DEF ScaffoldTypes, BehindDocker
  <2>2. MineInv'
    <3>1. \A s \in ToSet(LiferaySteps) : s.how = "put" => s.file \notin project.mine
      BY <1>4, LiferayStepsAre DEF UnderDir
    <3> QED BY <1>1, <1>5, <1>10, <3>1 DEF MineInv
  <2>3. TodoInv'
    <3>1. \A s \in ToSet(LiferaySteps) : /\ s.dir \in {"liferay", "dockerenv"}
                                         /\ s.file \notin {"docker", "liferay", "dockerenv", ".env"}
      BY LiferayStepsAre DEF LiferayFiles, EnvFiles
    <3> QED BY <1>2, <1>3, <1>10, <3>1, LiferayStepsAre DEF TodoInv
  <2>4. ServicesInv'
    BY <1>2, <1>3, <1>8, <1>10 DEF ServicesInv, BehindDocker, BehindLiferay
  <2>5. WholeInv'
    <3>1. "liferay" \notin OnDisk => WorkspacePart \subseteq Coming' /\ DockerenvPart \subseteq Coming'
      BY <1>2, <1>3, <1>10, LiferayStepsAre DEF Exists, OnDisk, TodoInv
    <3> QED BY <1>1, <1>2, <1>3, <1>10, <3>1 DEF WholeInv, PlaceInv
  <2> QED BY <1>10, <2>1, <2>2, <2>3, <2>4, <2>5 DEF ScaffoldInv, SearchInv, CommitInv
<1>11. CASE scaffoldPc = "liferay" /\ scaffoldPc' = "files" /\ scaffoldTodo' = FileSteps
  <2>1. /\ FileSteps \in Seq(StepKinds)
        /\ \A s \in ToSet(FileSteps) : s.dir = "" /\ s.how = "add" /\ s.file \in GitFiles
    <3>1. /\ AddFile(".liferay-cli.yml", "") \in StepKinds /\ AddFile(".gitignore", "") \in StepKinds
          /\ AddFile(".gitattributes", "") \in StepKinds
      BY DEF AddFile, StepKinds, GitFiles
    <3>2. FileSteps \in Seq(StepKinds) /\ ToSet(FileSteps) = {AddFile(".liferay-cli.yml", ""), AddFile(".gitignore", ""), AddFile(".gitattributes", "")}
      BY <3>1, TripleOfSteps DEF FileSteps
    <3>3. \A s \in ToSet(FileSteps) : \E f \in GitFiles : s = [how |-> "add", file |-> f, dir |-> ""]
      BY <3>2 DEF AddFile, GitFiles
    <3>4. ASSUME NEW s \in ToSet(FileSteps) PROVE s.dir = "" /\ s.how = "add" /\ s.file \in GitFiles
      <4>1. PICK f \in GitFiles : s = [how |-> "add", file |-> f, dir |-> ""]
        BY <3>3
      <4>2. s.how = "add" /\ s.file \in GitFiles
        BY <4>1
      <4>3. s.dir = ""
        BY <4>1
      <4> QED BY <4>2, <4>3
    <3> QED BY <3>2, <3>4
  <2>2. ScaffoldTypes'
    BY <1>1, <1>2, <1>6, <1>11, <2>1 DEF ScaffoldTypes, BehindDocker, BehindLiferay
  <2>3. MineInv'
    BY <1>1, <1>5, <1>11, <2>1 DEF MineInv
  <2>4. TodoInv'
    <3>1. \A s \in ToSet(FileSteps) : s.dir = "" /\ s.file \notin {"docker", "liferay", "dockerenv", ".env"} \cup WorkspacePart
      BY <2>1 DEF GitFiles, WorkspacePart
    <3>2. \A i \in DOMAIN FileSteps : FileSteps[i].file \notin WorkspacePart
      BY <3>1 DEF ToSet
    <3> QED BY <1>2, <1>3, <1>11, <3>1, <3>2 DEF TodoInv
  <2>5. ServicesInv'
    BY <1>2, <1>3, <1>8, <1>11 DEF ServicesInv, BehindDocker, BehindLiferay
  <2>6. WholeInv'
    BY <1>1, <1>2, <1>3, <1>11 DEF WholeInv, PlaceInv
  <2> QED BY <1>11, <2>2, <2>3, <2>4, <2>5, <2>6 DEF ScaffoldInv, SearchInv, CommitInv
<1> QED BY <1>1, <1>9, <1>10, <1>11

\* each file,
LEMMA CopyKeeps ==
  ASSUME ScaffoldInv, CopyFile
  PROVE  ScaffoldInv'
<1> DEFINE s == Head(scaffoldTodo)
           dirs == ({s.dir} \cup IF s.dir = "dockerenv" THEN {"liferay"} ELSE {}) \ {""}
           new == ({s.file} \cup dirs) \ DOMAIN there
           filled == new \cup IF s.how = "put" THEN {s.file} ELSE {}
<1>1. /\ scaffoldTodo # <<>> /\ scaffoldTodo' = Tail(scaffoldTodo)
      /\ there' = [f \in DOMAIN there \cup filled |-> IF f \in filled THEN "asset" ELSE there[f]]
      /\ createdNow' = createdNow \cup new
      /\ dotenv' = IF s.file = ".env" /\ s.how = "put" THEN ExampleEnv ELSE dotenv
      /\ UNCHANGED <<project, scaffoldPc, scaffoldRun, staged, committed, halted>>
  BY DEF CopyFile
<1>2. /\ ScaffoldTypes /\ MineInv /\ TodoInv /\ ServicesInv /\ WholeInv /\ scaffoldTodo \in Seq(StepKinds)
  BY DEF ScaffoldInv, ScaffoldTypes
<1>3. /\ scaffoldTodo' \in Seq(StepKinds) /\ s \in StepKinds /\ ToSet(scaffoldTodo) = {s} \cup ToSet(scaffoldTodo')
      /\ \A i \in DOMAIN scaffoldTodo' : scaffoldTodo'[i] = scaffoldTodo[i + 1] /\ i + 1 \in DOMAIN scaffoldTodo
      /\ DOMAIN scaffoldTodo' = 1 .. Len(scaffoldTodo') /\ Len(scaffoldTodo') \in Nat
  BY <1>1, <1>2, StepsTail
<1>4. /\ scaffoldPc \in {"docker", "liferay", "files"}
      /\ scaffoldPc = "docker" => s.dir = "docker"
      /\ scaffoldPc = "liferay" => s.dir \in {"liferay", "dockerenv"}
      /\ scaffoldPc = "files" => s.dir = ""
      /\ s.file \notin {"docker", "liferay", "dockerenv"}
      /\ s.file = ".env" => s.how = "put"
      /\ s.how = "put" => s.file \notin project.mine
  BY <1>1, <1>2, <1>3 DEF ScaffoldTypes, TodoInv, MineInv
<1>5. /\ OnDisk' = OnDisk \cup {s.file} \cup dirs /\ s.file \notin dirs /\ dirs \subseteq {"docker", "liferay", "dockerenv"}
      /\ Coming = {s.file} \cup Coming' /\ Options' = Options
  <2>1. OnDisk' = OnDisk \cup {s.file} \cup dirs
    BY <1>1 DEF OnDisk
  <2>2. dirs \subseteq {"docker", "liferay", "dockerenv"}
    BY <1>3 DEF StepKinds
  <2>3. Coming = {s.file} \cup Coming'
    <3> HIDE DEF s
    <3> QED BY <1>3 DEF Coming
  <2> QED BY <1>1, <1>4, <2>1, <2>2, <2>3 DEF Options
<1>6. \A f \in OnDisk : there'[f] = there[f] \/ (f = s.file /\ s.how = "put")
  BY <1>1 DEF OnDisk
<1>7. createdNow' \ createdNow \subseteq OnDisk' \ OnDisk
  BY <1>1, <1>5 DEF OnDisk
<1> HIDE DEF s, new, filled
<1>8. ScaffoldTypes'
  <2>1. DOMAIN ExampleEnv = {"compose", "image", "es"}
    BY DEF ExampleEnv
  <2> QED BY <1>1, <1>2, <1>3, <1>4, <2>1 DEF ScaffoldTypes
<1>9. MineInv'
  <2>1. MineIsKept'
    BY <1>1, <1>2, <1>4, <1>5, <1>6 DEF MineInv, MineIsKept, Exists, OnDisk
  <2>2. createdNow' \cap project.mine \subseteq Connectors
    BY <1>2, <1>7 DEF MineInv, MineIsKept, Exists, OnDisk, Connectors
  <2> QED BY <1>1, <1>2, <1>3, <2>1, <2>2 DEF MineInv
<1>10. TodoInv'
  <2>1. \A i \in DOMAIN scaffoldTodo' : scaffoldTodo'[i].file \in WorkspacePart => \A j \in 1 .. i : scaffoldTodo'[j].dir = "liferay"
    <3> SUFFICES ASSUME NEW i \in DOMAIN scaffoldTodo', scaffoldTodo'[i].file \in WorkspacePart, NEW j \in 1 .. i
                 PROVE  scaffoldTodo'[j].dir = "liferay"
      OBVIOUS
    <3>1. /\ scaffoldTodo'[j] = scaffoldTodo[j + 1] /\ scaffoldTodo'[i] = scaffoldTodo[i + 1] /\ i + 1 \in DOMAIN scaffoldTodo
          /\ j + 1 \in 1 .. (i + 1)
      BY <1>3
    <3> QED BY <1>2, <3>1 DEF TodoInv
  <2>2. "dockerenv" \in OnDisk' => "liferay" \in OnDisk'
    BY <1>2, <1>4, <1>5 DEF TodoInv
  <2> QED BY <1>1, <1>2, <1>3, <2>1, <2>2 DEF TodoInv
<1>11. ServicesInv'
  <2>1. OnDisk \subseteq OnDisk' /\ OnDisk \cup Coming \subseteq OnDisk' \cup Coming'
    BY <1>5
  <2>2. ".env" \in OnDisk' /\ "docker" \notin project'.mine => \A x \in dotenv'.compose : ServicesOf(x) \subseteq OnDisk'
    <3>1. CASE s.file = ".env"
      BY <1>1, <1>4, <3>1 DEF ExampleEnv
    <3>2. CASE s.file # ".env"
      BY <1>1, <1>2, <1>5, <2>1, <3>2 DEF ServicesInv
    <3> QED BY <3>1, <3>2
  <2> QED BY <1>1, <1>2, <1>5, <2>1, <2>2 DEF ServicesInv
<1>12. WholeInv'
  <2>1. OnDisk \subseteq OnDisk' /\ OnDisk \cup Coming \subseteq OnDisk' \cup Coming'
    BY <1>5
  <2>2. scaffoldPc = "docker" => ("liferay" \in OnDisk' => "liferay" \in OnDisk)
    BY <1>4, <1>5
  <2>3. /\ PlaceInv({"off", "start", "git", "failed"}, "docker", DockerPart, {"docker"}, "docker")
        /\ PlaceInv({"off", "start", "git", "docker", "failed"}, "liferay", WorkspacePart, {"liferay"}, "liferay")
        /\ PlaceInv({"off", "start", "git", "docker", "failed"}, "liferay", DockerenvPart, {"liferay", "dockerenv"}, "liferay")
    BY <1>2 DEF WholeInv
  <2>7. scaffoldPc' = scaffoldPc /\ project' = project /\ halted' = halted /\ scaffoldPc \in {"docker", "liferay", "files"}
    BY <1>1, <1>4
  <2>4. PlaceInv({"off", "start", "git", "failed"}, "docker", DockerPart, {"docker"}, "docker")'
    BY <2>1, <2>3, <2>7 DEF PlaceInv
  <2>5. PlaceInv({"off", "start", "git", "docker", "failed"}, "liferay", WorkspacePart, {"liferay"}, "liferay")'
    BY <2>1, <2>2, <2>3, <2>7 DEF PlaceInv
  <2>6. PlaceInv({"off", "start", "git", "docker", "failed"}, "liferay", DockerenvPart, {"liferay", "dockerenv"}, "liferay")'
    BY <2>1, <2>2, <2>3, <2>7 DEF PlaceInv
  <2> QED BY <2>4, <2>5, <2>6 DEF WholeInv
<1> QED BY <1>1, <1>4, <1>8, <1>9, <1>10, <1>11, <1>12 DEF ScaffoldInv, SearchInv, CommitInv

\* The steps that follow the copying.
LEMMA ConfigureKeeps ==
  ASSUME ScaffoldInv, ConfigureEnv \/ ConfigureSearch
  PROVE  ScaffoldInv'
<1>1. /\ UNCHANGED <<project, there, scaffoldRun, scaffoldTodo, createdNow, staged, committed, halted>>
      /\ \/ /\ scaffoldPc = "files" /\ scaffoldTodo = <<>> /\ scaffoldPc' = "search"
            /\ \/ dotenv' = dotenv
               \/ \E i \in {dotenv.image, Options.image}, c \in {dotenv.compose, ToSet(Options.services)} :
                    dotenv' = [dotenv EXCEPT !.image = i, !.compose = c]
         \/ /\ scaffoldPc = "search"
            /\ IF Exists(".env") THEN dotenv' = [dotenv EXCEPT !.es = dotenv.image] ELSE dotenv' = dotenv
            /\ scaffoldPc' = IF Exists(".env") /\ Asked("elasticsearch") THEN "connectors" ELSE "commit"
  BY DEF ConfigureEnv, ConfigureSearch
<1>2. /\ ScaffoldTypes /\ MineInv /\ TodoInv /\ ServicesInv /\ WholeInv
  BY DEF ScaffoldInv
<1>3. scaffoldTodo = <<>> /\ scaffoldTodo' = <<>> /\ ToSet(scaffoldTodo) = {} /\ Coming = {} /\ Coming' = {} /\ OnDisk' = OnDisk
  <2>1. scaffoldTodo = <<>> /\ scaffoldTodo' = <<>>
    BY <1>1, <1>2 DEF ScaffoldTypes
  <2> QED BY <1>1, <2>1 DEF ToSet, Coming, OnDisk
<1>4. /\ Options' = Options /\ ToSet(Options.services) \subseteq {"postgres", "elasticsearch"}
      /\ DOMAIN dotenv = {"compose", "image", "es"}
  <2>1. scaffoldRun \in DOMAIN project.runs
    BY <1>1, <1>2 DEF ScaffoldTypes
  <2>2. Options \in ToSet(project.runs)
    BY <2>1 DEF Options, ToSet
  <2> QED BY <1>1, <1>2, <2>2, ScaffoldAssumption DEF ScaffoldTypes, Options
<1>5. DOMAIN dotenv' = {"compose", "image", "es"} /\ dotenv'.compose \in {dotenv.compose, ToSet(Options.services)}
  <2>1. CASE dotenv' = dotenv
    BY <1>4, <2>1
  <2>2. CASE \E i \in {dotenv.image, Options.image}, c \in {dotenv.compose, ToSet(Options.services)} :
               dotenv' = [dotenv EXCEPT !.image = i, !.compose = c]
    BY <1>4, <2>2
  <2>3. CASE dotenv' = [dotenv EXCEPT !.es = dotenv.image]
    BY <1>4, <2>3
  <2> QED BY <1>1, <2>1, <2>2, <2>3
<1>6. ScaffoldTypes'
  BY <1>1, <1>2, <1>3, <1>5 DEF ScaffoldTypes, BehindDocker, BehindLiferay
<1>7. MineInv'
  BY <1>1, <1>2 DEF MineInv, MineIsKept, Exists
<1>8. TodoInv'
  BY <1>1, <1>2, <1>3 DEF TodoInv, ToSet
<1>9. ServicesInv'
  BY <1>1, <1>2, <1>3, <1>4, <1>5 DEF ServicesInv, BehindDocker, BehindLiferay
<1>10. WholeInv'
  BY <1>1, <1>2, <1>3 DEF WholeInv, PlaceInv
<1>11. SearchInv'
  <2>1. CASE scaffoldPc = "files"
    BY <1>1, <2>1 DEF SearchInv
  <2>2. CASE scaffoldPc = "search"
    <3>1. Exists(".env") => dotenv'.es = dotenv'.image
      BY <1>1, <1>4, <2>2
    <3>2. (".env" \in OnDisk' <=> Exists(".env")) /\ (Asked("elasticsearch")' <=> Asked("elasticsearch"))
      BY <1>3, <1>4 DEF OnDisk, Exists, Asked
    <3> QED BY <1>1, <2>2, <3>1, <3>2 DEF SearchInv
  <2> QED BY <1>1, <2>1, <2>2
<1>12. CommitInv'
  BY <1>1 DEF CommitInv
<1> QED BY <1>6, <1>7, <1>8, <1>9, <1>10, <1>11, <1>12 DEF ScaffoldInv

\* the connectors,
LEMMA ConnectorsKeep ==
  ASSUME ScaffoldInv, WriteConnectors
  PROVE  ScaffoldInv'
<1> DEFINE right == IF dotenv.image = "8" THEN {"connector8", "full8"} ELSE {"connector7", "full7"}
           wrong == {"connector7", "connector8", "full7", "full8"} \ right
<1>1. /\ scaffoldPc = "connectors" /\ scaffoldPc' = "commit"
      /\ there' = [f \in right \cup (DOMAIN there \ wrong) |-> IF f \in right THEN "asset" ELSE there[f]]
      /\ createdNow' = createdNow \cup (right \ DOMAIN there)
      /\ UNCHANGED <<project, dotenv, scaffoldRun, scaffoldTodo, staged, committed, halted>>
  BY DEF WriteConnectors
<1>2. /\ ScaffoldTypes /\ MineInv /\ TodoInv /\ ServicesInv /\ WholeInv /\ SearchInv
  BY DEF ScaffoldInv
<1>3. scaffoldTodo = <<>> /\ scaffoldTodo' = <<>> /\ ToSet(scaffoldTodo) = {} /\ Coming = {} /\ Coming' = {}
  <2>1. scaffoldTodo = <<>> /\ scaffoldTodo' = <<>>
    BY <1>1, <1>2 DEF ScaffoldTypes
  <2> QED BY <2>1 DEF ToSet, Coming
<1>4. /\ OnDisk' = right \cup (OnDisk \ wrong) /\ right \subseteq Connectors /\ wrong \subseteq Connectors
      /\ \A f : f \notin Connectors => (f \in OnDisk' <=> f \in OnDisk)
      /\ \A f \in OnDisk \ Connectors : there'[f] = there[f]
  BY <1>1 DEF OnDisk, Connectors
<1>5. ScaffoldTypes'
  BY <1>1, <1>2, <1>3 DEF ScaffoldTypes, BehindDocker, BehindLiferay
<1>6. MineInv'
  <2>1. MineIsKept'
    BY <1>1, <1>2, <1>4 DEF MineInv, MineIsKept, Exists, OnDisk, Connectors
  <2>2. createdNow' \cap project.mine \subseteq Connectors
    BY <1>1, <1>2, <1>4 DEF MineInv
  <2> QED BY <1>1, <1>2, <2>1, <2>2 DEF MineInv
<1>7. TodoInv'
  BY <1>1, <1>2, <1>3, <1>4 DEF TodoInv, ToSet, Connectors
<1>8. /\ \A x : ServicesOf(x) \cap Connectors = {}
      /\ (DockerPart \cup WorkspacePart \cup DockerenvPart \cup {".env"}) \cap Connectors = {}
  BY DEF ServicesOf, DockerPart, WorkspacePart, DockerenvPart, Connectors
<1>9. ServicesInv'
  <2>1. Options' = Options
    BY <1>1 DEF Options
  <2> QED BY <1>1, <1>2, <1>4, <1>8, <2>1 DEF ServicesInv, BehindDocker, BehindLiferay
<1>10. WholeInv'
  BY <1>1, <1>2, <1>4, <1>8 DEF WholeInv, PlaceInv
<1>11. SearchInv'
  <2>1. ".env" \in OnDisk' => ".env" \in OnDisk
    BY <1>4, <1>8
  <2>2. RightOnes("connector7", "connector8")' /\ RightOnes("full7", "full8")'
    BY <1>1, <1>4 DEF RightOnes, Connectors
  <2> QED BY <1>1, <1>2, <2>1, <2>2 DEF SearchInv
<1>12. CommitInv'
  BY <1>1 DEF CommitInv
<1> QED BY <1>5, <1>6, <1>7, <1>9, <1>10, <1>11, <1>12 DEF ScaffoldInv

\* What is staged is what the run created.
LEMMA StageableIsNew ==
  ASSUME ScaffoldTypes, MineInv
  PROVE  Stageable \cap project.mine = {}
<1>1. MineOK(project.mine)
  BY ScaffoldAssumption DEF ScaffoldTypes
<1>2. \A d \in Touched : d \in createdNow \cap (GitFiles \cup {"docker", "liferay", "dockerenv"})
  BY DEF Touched, GitFiles
<1>3. \A d \in Touched : d \notin project.mine
  BY <1>2 DEF MineInv, Connectors, GitFiles
<1>4. \A d \in Touched : UnderDir(d) \cap project.mine = {}
  <2> TAKE d \in Touched
  <2>1. CASE d \in {"docker", "liferay", "dockerenv"}
    BY <1>1, <1>3, <2>1 DEF MineOK
  <2>2. CASE d \in GitFiles
    <3>1. UnderDir(d) = {d}
      BY <2>2 DEF UnderDir, GitFiles
    <3> QED BY <1>3, <3>1
  <2> QED BY <1>2, <2>1, <2>2
<1> QED BY <1>4 DEF Stageable

\* the commit,
LEMMA CommitKeeps ==
  ASSUME ScaffoldInv, CommitScaffold
  PROVE  ScaffoldInv'
<1>1. /\ scaffoldPc = "commit"
      /\ \/ ~Options.commit /\ scaffoldPc' = "ready" /\ staged' = staged /\ committed' = committed
         \/ scaffoldPc' = "failed" /\ staged' = staged \cup Stageable /\ committed' = committed
         \/ /\ Touched \cap project.ignored = {} /\ scaffoldPc' = "ready"
            /\ staged' = {} /\ committed' = committed \cup staged \cup Stageable
      /\ UNCHANGED <<project, there, dotenv, scaffoldRun, scaffoldTodo, createdNow, halted>>
  BY DEF CommitScaffold
<1>2. /\ ScaffoldTypes /\ MineInv /\ TodoInv /\ ServicesInv /\ WholeInv /\ SearchInv
  BY DEF ScaffoldInv
<1>3. scaffoldTodo = <<>> /\ scaffoldTodo' = <<>> /\ ToSet(scaffoldTodo) = {} /\ Coming = {} /\ Coming' = {} /\ OnDisk' = OnDisk
  <2>1. scaffoldTodo = <<>> /\ scaffoldTodo' = <<>>
    BY <1>1, <1>2 DEF ScaffoldTypes
  <2> QED BY <1>1, <2>1 DEF ToSet, Coming, OnDisk
<1>4. Options' = Options
  BY <1>1 DEF Options
<1>5. ScaffoldTypes'
  BY <1>1, <1>2, <1>3 DEF ScaffoldTypes, BehindDocker, BehindLiferay
<1>6. MineInv'
  <2>1. MineIsKept'
    BY <1>1, <1>2 DEF MineInv, MineIsKept, Exists
  <2>2. (staged' \cup committed') \cap project.mine \subseteq project.staged
    BY <1>1, <1>2, StageableIsNew DEF MineInv
  <2> QED BY <1>1, <1>2, <2>1, <2>2 DEF MineInv
<1>7. TodoInv'
  BY <1>1, <1>2, <1>3 DEF TodoInv, ToSet
<1>8. ServicesInv'
  BY <1>1, <1>2, <1>3, <1>4 DEF ServicesInv, BehindDocker, BehindLiferay
<1>9. WholeInv'
  BY <1>1, <1>2, <1>3 DEF WholeInv, PlaceInv
<1>10. SearchInv'
  BY <1>1, <1>2, <1>3, <1>4 DEF SearchInv, RightOnes, Asked
<1>11. CommitInv'
  <2>1. SUFFICES ASSUME scaffoldPc' = "ready", Options.commit
                 PROVE  /\ staged' = {}
                        /\ \A d \in createdNow \cap {"docker", "liferay"} :
                             UnderDir(d) \cap DOMAIN there \subseteq committed' \cup {d, "dockerenv", ".env"}
    BY <1>1, <1>4 DEF CommitInv
  <2>2. Touched \cap project.ignored = {} /\ staged' = {} /\ Stageable \subseteq committed'
    BY <1>1, <2>1
  <2>3. \A d \in createdNow \cap {"docker", "liferay"} : d \in Touched \ project.ignored
    BY <2>2 DEF Touched
  <2>4. "docker" \notin UnderDir("liferay") /\ "liferay" \notin UnderDir("docker")
    BY DEF UnderDir, DockerFiles, LiferayFiles, EnvFiles
  <2> SUFFICES ASSUME NEW d \in createdNow \cap {"docker", "liferay"}, NEW f \in UnderDir(d) \cap DOMAIN there,
                      f \notin {d, "dockerenv", ".env"}
               PROVE  f \in Stageable
    BY <2>2
  <2>5. f \notin {"docker", "liferay", "dockerenv", ".env"}
    BY <2>4
  <2>6. UnderDir(d) \cap DOMAIN there \in {UnderDir(x) \cap DOMAIN there : x \in Touched \ project.ignored}
    BY <2>3
  <2> QED BY <2>5, <2>6 DEF Stageable
<1> QED BY <1>5, <1>6, <1>7, <1>8, <1>9, <1>10, <1>11 DEF ScaffoldInv

\* and a stop, wherever it comes.
LEMMA StopKeeps ==
  ASSUME ScaffoldInv, StopScaffold
  PROVE  ScaffoldInv'
<1>1. /\ scaffoldPc \in {"git", "docker", "liferay", "files", "search", "connectors"} /\ scaffoldPc' = "failed" /\ scaffoldTodo' = <<>>
      /\ halted' = halted \cup IF scaffoldTodo # <<>> THEN {Head(scaffoldTodo).dir} ELSE {}
      /\ UNCHANGED <<project, there, dotenv, scaffoldRun, createdNow, staged, committed>>
  BY DEF StopScaffold
<1>2. /\ ScaffoldTypes /\ MineInv /\ TodoInv /\ ServicesInv /\ WholeInv
  BY DEF ScaffoldInv
<1>3. scaffoldTodo' \in Seq(StepKinds) /\ ToSet(scaffoldTodo') = {} /\ DOMAIN scaffoldTodo' = {} /\ Coming' = {} /\ OnDisk' = OnDisk
  <2>1. scaffoldTodo' \in Seq(StepKinds) /\ DOMAIN scaffoldTodo' = {}
    BY <1>1
  <2> QED BY <1>1, <2>1 DEF ToSet, Coming, OnDisk
<1>4. ScaffoldTypes'
  BY <1>1, <1>2, <1>3 DEF ScaffoldTypes, BehindDocker, BehindLiferay
<1>5. MineInv'
  BY <1>1, <1>2, <1>3 DEF MineInv, MineIsKept, Exists
<1>6. TodoInv'
  BY <1>2, <1>3 DEF TodoInv
<1>7. ServicesInv'
  BY <1>1, <1>2, <1>3 DEF ServicesInv, BehindDocker, BehindLiferay
<1>8. CASE scaffoldTodo = <<>>
  <2>1. Coming = {} /\ halted' = halted
    BY <1>1, <1>8 DEF Coming, ToSet
  <2>2. WholeInv'
    BY <1>1, <1>2, <1>3, <2>1 DEF WholeInv, PlaceInv, BehindDocker
  <2> QED BY <1>1, <1>4, <1>5, <1>6, <1>7, <2>2 DEF ScaffoldInv, SearchInv, CommitInv
<1>9. CASE scaffoldTodo # <<>>
  <2> DEFINE s == Head(scaffoldTodo)
  <2>1. /\ s \in ToSet(scaffoldTodo) /\ s = scaffoldTodo[1] /\ DOMAIN scaffoldTodo = 1 .. Len(scaffoldTodo)
        /\ halted' = halted \cup {s.dir}
    BY <1>1, <1>2, <1>9, StepsTail DEF ScaffoldTypes
  <2> HIDE DEF s
  <2>2. /\ scaffoldPc \in {"docker", "liferay", "files"}
        /\ scaffoldPc = "docker" => s.dir = "docker"
        /\ scaffoldPc = "liferay" => s.dir \in {"liferay", "dockerenv"}
    BY <1>2, <1>9, <2>1 DEF ScaffoldTypes, TodoInv
  <2>3. scaffoldPc = "liferay" /\ s.dir # "liferay" => WorkspacePart \cap Coming = {}
    <3> SUFFICES ASSUME NEW x \in ToSet(scaffoldTodo), x.file \in WorkspacePart PROVE s.dir = "liferay"
      BY DEF Coming
    <3>1. PICK i \in DOMAIN scaffoldTodo : x = scaffoldTodo[i]
      BY DEF ToSet
    <3>2. 1 \in 1 .. i
      BY <2>1, <3>1
    <3> QED BY <1>2, <2>1, <3>1, <3>2 DEF TodoInv
  <2>4. PlaceInv({"off", "start", "git", "failed"}, "docker", DockerPart, {"docker"}, "docker")'
    BY <1>1, <1>2, <1>3, <2>1, <2>2 DEF WholeInv, PlaceInv
  <2>5. PlaceInv({"off", "start", "git", "docker", "failed"}, "liferay", WorkspacePart, {"liferay"}, "liferay")'
    BY <1>1, <1>2, <1>3, <2>1, <2>2, <2>3 DEF WholeInv, PlaceInv
  <2>6. PlaceInv({"off", "start", "git", "docker", "failed"}, "liferay", DockerenvPart, {"liferay", "dockerenv"}, "liferay")'
    BY <1>1, <1>2, <1>3, <2>1, <2>2 DEF WholeInv, PlaceInv
  <2> QED BY <1>1, <1>4, <1>5, <1>6, <1>7, <2>4, <2>5, <2>6 DEF ScaffoldInv, WholeInv, SearchInv, CommitInv
<1> QED BY <1>8, <1>9

\* It holds at the start, is kept, and says that the project is whole.
LEMMA ScaffoldHolds ==
  /\ \A pc \in {"start", "off"}, f \in Nat : ScaffoldStart(pc, f) => ScaffoldInv
  /\ ScaffoldInv /\ [ScaffoldNext]_scaffoldVars => ScaffoldInv'
  /\ ScaffoldInv => ScaffoldIsWhole
<1>1. ASSUME ScaffoldInv, [ScaffoldNext]_scaffoldVars PROVE ScaffoldInv'
  <2>1. CASE UNCHANGED scaffoldVars
    <3>1. UNCHANGED <<project, there, dotenv, scaffoldPc, scaffoldRun, scaffoldTodo, createdNow, staged, committed, halted>>
      BY <2>1 DEF scaffoldVars
    <3>2. OnDisk' = OnDisk /\ Coming' = Coming /\ Options' = Options
      BY <3>1 DEF OnDisk, Coming, Options
    <3>3. ScaffoldTypes' /\ MineInv' /\ TodoInv' /\ ServicesInv'
      BY <1>1, <3>1, <3>2 DEF ScaffoldInv, ScaffoldTypes, MineInv, MineIsKept, Exists, TodoInv, ServicesInv
    <3>4. WholeInv' /\ SearchInv' /\ CommitInv'
      BY <1>1, <3>1, <3>2 DEF ScaffoldInv, WholeInv, PlaceInv, SearchInv, RightOnes, Asked, CommitInv
    <3> QED BY <3>3, <3>4 DEF ScaffoldInv
  <2> QED BY <1>1, <2>1, StartKeeps, EnterKeeps, CopyKeeps, ConfigureKeeps, ConnectorsKeep, CommitKeeps, StopKeeps DEF ScaffoldNext
<1>2. ASSUME ScaffoldInv PROVE ScaffoldIsWhole
  <2>1. MineIsKept /\ (committed \cap project.mine \subseteq project.staged)
    BY <1>2 DEF ScaffoldInv, MineInv
  <2>2. CommitIsWhole
    BY <1>2, <2>1 DEF ScaffoldInv, CommitInv, CommitIsWhole
  <2>3. SearchMatches
    BY <1>2 DEF ScaffoldInv, SearchInv, RightOnes, SearchMatches, OnDisk, Exists
  <2>4. ReadyIsWhole
    <3> SUFFICES ASSUME scaffoldPc = "ready"
                 PROVE  /\ \A s \in ToSet(Options.services) : ServicesOf(s) \subseteq DOMAIN there
                        /\ "docker" \notin project.mine \cup halted =>
                             /\ {"compose", "sql", "scripts", ".env"} \subseteq DOMAIN there
                             /\ \A s \in dotenv.compose : ServicesOf(s) \subseteq DOMAIN there
                        /\ "liferay" \notin project.mine \cup halted =>
                             {"workspace", "gradle.properties", "common"} \subseteq DOMAIN there
                        /\ {"dockerenv", "liferay"} \cap (project.mine \cup halted) = {} =>
                             {"portal-ext", "store", "gitkeep", "modules"} \subseteq DOMAIN there
      BY DEF ReadyIsWhole
    <3>1. ServicesInv /\ WholeInv
      BY <1>2 DEF ScaffoldInv
    <3>2. \A s \in ToSet(Options.services) : ServicesOf(s) \subseteq OnDisk
      BY <3>1 DEF ServicesInv, BehindDocker, BehindLiferay
    <3>3. "docker" \notin project.mine \cup halted => DockerPart \subseteq OnDisk /\ \A s \in dotenv.compose : ServicesOf(s) \subseteq OnDisk
      BY <3>1 DEF ServicesInv, WholeInv, PlaceInv, DockerPart
    <3>4. "liferay" \notin project.mine \cup halted => WorkspacePart \subseteq OnDisk
      BY <3>1 DEF WholeInv, PlaceInv
    <3>5. {"dockerenv", "liferay"} \cap (project.mine \cup halted) = {} => DockerenvPart \subseteq OnDisk
      BY <3>1 DEF WholeInv, PlaceInv
    <3> QED BY <3>2, <3>3, <3>4, <3>5 DEF OnDisk, DockerPart, WorkspacePart, DockerenvPart
  <2> QED BY <2>1, <2>2, <2>3, <2>4 DEF ScaffoldIsWhole
<1> QED BY <1>1, <1>2, ScaffoldStarts

-----------------------------------------------------------------------------
(* The main checkout and its worktrees: names made of words, and the files  *)
(* they are in.                                                             *)
\* Files of the checkouts, as they are kept.
CheckoutTypes ==
  /\ co \in CheckoutCases
  /\ envFile = [c \in Checkout |-> envFile[c]] /\ \A c \in Checkout : IsFile(envFile[c])
  /\ services = [c \in Checkout |-> services[c]]
  /\ told = [w \in co.names |-> told[w]]
  /\ volumes = [n \in DOMAIN volumes |-> volumes[n]]
\* What main's file says is of what it may be given.
NameKeys == {"COMPOSE_PROJECT_NAME", "DOCLIB_VOLUME_NAME", "POSTGRES_DATA_VOLUME_NAME", "LIFERAY_DATA_VOLUME_NAME", "ENV_DATA_ROOT"}
MainFile(f) == IsFile(f) /\ \A k \in NameKeys : k \in DOMAIN ReadEnv(f) => ReadEnv(f)[k] \in GivenIn(co, k)
\* The file of a worktree that was prepared: what is its own in it.
OwnKeys == NameKeys \cup {"BIND_IP", "LIFERAY_CLI_URL"} \cup DOMAIN PortBase
StoreName(p, w, s) == (p \o <<w>>) \o <<s>>
OwnFile(f, w) ==
  /\ OwnKeys \subseteq DOMAIN f
  /\ \E p \in ProjectsOf(co) : /\ f["COMPOSE_PROJECT_NAME"] = p \o <<w>>
                               /\ \A s \in Storages : f[VolumeKey[s]] = StoreName(p, w, s)
  /\ f["ENV_DATA_ROOT"] = WorktreeRoot(w)
  /\ f["DOCLIB_VOLUME_NAME"] \in DoclibsOf(co)
  /\ \A k \in DOMAIN PortBase : f[k] = PortSet(w)[k]
  /\ f["BIND_IP"] # <<>> /\ f["LIFERAY_CLI_URL"] = Url(f["BIND_IP"], PortSet(w)["LIFERAY_HTTP_PORT"])
PreparedFile(w, f, said) == OwnFile(f, w) /\ "liferay" \in co.branch /\ said = EnvContext(f, w)
\* Whose a volume is tells its name.
NameTells(n, c) ==
  \/ n \in DoclibsOf(co)
  \/ c = "main" /\ n \in StoresOf(co)
  \/ c \in co.names /\ \E p \in ProjectsOf(co), s \in Storages : n = StoreName(p, c, s)
\* A profile that was saved stays in the file.
Saved(f, with) ==
  with # {} => /\ "COMPOSE_FILE" \in DOMAIN ReadEnv(f)
               /\ with \subseteq ToSet(ReadEnv(f)["COMPOSE_FILE"])
CheckoutInv ==
  /\ CheckoutTypes /\ VolumesKept
  /\ MainFile(envFile["main"])
  /\ \A w \in co.names : told[w] # NoReport => PreparedFile(w, envFile[w], told[w])
  /\ \A n \in DOMAIN volumes : NameTells(n, volumes[n])
  /\ \A c \in Checkout : Saved(envFile[c], services[c])

\* Sequences of words.
LEMMA WordsAreSeq ==
  ASSUME NEW v, IsWords(v)
  PROVE  v \in Seq(ToSet(v)) /\ DOMAIN v = 1 .. Len(v) /\ Len(v) \in Nat
<1>1. DOMAIN v = 1 .. Len(v) /\ Len(v) \in Nat
  BY DEF IsWords
<1>2. v \in [1 .. Len(v) -> ToSet(v)]
  BY <1>1 DEF IsWords, ToSet
<1> QED BY <1>1, <1>2

LEMMA SeqIsWords ==
  ASSUME NEW S, NEW v \in Seq(S)
  PROVE  IsWords(v)
  BY DEF IsWords

LEMMA WordsJoin ==
  ASSUME NEW u, NEW v, IsWords(u), IsWords(v)
  PROVE  /\ IsWords(u \o v) /\ Len(u \o v) = Len(u) + Len(v)
         /\ ToSet(u \o v) = ToSet(u) \cup ToSet(v)
         /\ \A i \in 1 .. Len(u) : (u \o v)[i] = u[i]
         /\ \A i \in 1 .. Len(v) : (u \o v)[Len(u) + i] = v[i]
<1> DEFINE S == ToSet(u) \cup ToSet(v)
<1>1. u \in Seq(S) /\ v \in Seq(S) /\ DOMAIN u = 1 .. Len(u) /\ DOMAIN v = 1 .. Len(v)
      /\ Len(u) \in Nat /\ Len(v) \in Nat
  BY WordsAreSeq
<1> HIDE DEF S
<1>2. u \o v \in Seq(S) /\ Len(u \o v) = Len(u) + Len(v) /\ DOMAIN (u \o v) = 1 .. (Len(u) + Len(v))
  BY <1>1
<1>3. /\ \A i \in 1 .. Len(u) : (u \o v)[i] = u[i]
      /\ \A i \in 1 .. Len(v) : (u \o v)[Len(u) + i] = v[i]
  BY <1>1
<1>4. ToSet(u \o v) = ToSet(u) \cup ToSet(v)
  <2>1. ASSUME NEW x \in ToSet(u \o v) PROVE x \in ToSet(u) \cup ToSet(v)
    <3>1. PICK i \in 1 .. (Len(u) + Len(v)) : x = (u \o v)[i]
      BY <1>2, <2>1 DEF ToSet
    <3>2. CASE i <= Len(u)
      BY <1>1, <1>3, <3>1, <3>2 DEF ToSet
    <3>3. CASE i > Len(u)
      <4>1. i - Len(u) \in 1 .. Len(v) /\ i = Len(u) + (i - Len(u))
        BY <1>1, <3>3
      <4>2. x = v[i - Len(u)]
        BY <1>3, <3>1, <4>1
      <4> QED BY <1>1, <4>1, <4>2 DEF ToSet
    <3> QED BY <1>1, <3>2, <3>3
  <2>2. ASSUME NEW x \in ToSet(u) PROVE x \in ToSet(u \o v)
    <3>1. PICK i \in 1 .. Len(u) : x = u[i]
      BY <1>1, <2>2 DEF ToSet
    <3>2. i \in 1 .. (Len(u) + Len(v)) /\ x = (u \o v)[i]
      BY <1>1, <1>3, <3>1
    <3> QED BY <1>2, <3>2 DEF ToSet
  <2>3. ASSUME NEW x \in ToSet(v) PROVE x \in ToSet(u \o v)
    <3>1. PICK i \in 1 .. Len(v) : x = v[i]
      BY <1>1, <2>3 DEF ToSet
    <3>2. Len(u) + i \in 1 .. (Len(u) + Len(v)) /\ x = (u \o v)[Len(u) + i]
      BY <1>1, <1>3, <3>1
    <3> QED BY <1>2, <3>2 DEF ToSet
  <2> QED BY <2>1, <2>2, <2>3
<1>5. IsWords(u \o v)
  BY <1>2, SeqIsWords
<1> QED BY <1>2, <1>3, <1>4, <1>5

LEMMA OneWord ==
  ASSUME NEW a
  PROVE  IsWords(<<a>>) /\ ToSet(<<a>>) = {a} /\ Len(<<a>>) = 1 /\ <<a>> # <<>>
<1>1. <<a>> \in Seq({a}) /\ DOMAIN <<a>> = {1} /\ Len(<<a>>) = 1 /\ <<a>>[1] = a /\ <<a>> # <<>>
  OBVIOUS
<1> QED BY <1>1, SeqIsWords DEF ToSet

LEMMA WordAdded ==
  ASSUME NEW u, IsWords(u), NEW a
  PROVE  /\ IsWords(u \o <<a>>) /\ ToSet(u \o <<a>>) = ToSet(u) \cup {a}
         /\ Len(u \o <<a>>) = Len(u) + 1 /\ u \o <<a>> # <<>>
         /\ (u \o <<a>>)[Len(u) + 1] = a
<1>1. /\ IsWords(u \o <<a>>) /\ ToSet(u \o <<a>>) = ToSet(u) \cup {a} /\ Len(u \o <<a>>) = Len(u) + 1
      /\ \A i \in 1 .. 1 : (u \o <<a>>)[Len(u) + i] = <<a>>[i]
  BY OneWord, WordsJoin
<1>2. Len(u) \in Nat
  BY DEF IsWords
<1>3. (u \o <<a>>)[Len(u) + 1] = a
  BY <1>1
<1>4. u \o <<a>> # <<>>
  BY <1>1, <1>2
<1> QED BY <1>1, <1>3, <1>4

LEMMA WordsEmpty == IsWords(<<>>) /\ ToSet(<<>>) = {}
<1>1. <<>> \in Seq({}) /\ DOMAIN <<>> = {}
  OBVIOUS
<1> QED BY <1>1, SeqIsWords DEF ToSet

LEMMA StoreNameWords ==
  ASSUME NEW p, IsWords(p), NEW w, NEW s
  PROVE  /\ IsWords(StoreName(p, w, s)) /\ ToSet(StoreName(p, w, s)) = ToSet(p) \cup {w, s}
         /\ StoreName(p, w, s) # <<>>
<1>1. IsWords(p \o <<w>>) /\ ToSet(p \o <<w>>) = ToSet(p) \cup {w}
  BY WordAdded
<1>2. /\ IsWords((p \o <<w>>) \o <<s>>) /\ ToSet((p \o <<w>>) \o <<s>>) = ToSet(p \o <<w>>) \cup {s}
      /\ (p \o <<w>>) \o <<s>> # <<>>
  BY <1>1, WordAdded
<1> QED BY <1>1, <1>2 DEF StoreName

\* Files as values of keys.
IsValues(f) == "absent" \notin DOMAIN f /\ f = [k \in DOMAIN f |-> f[k]] /\ \A k \in DOMAIN f : IsWords(f[k])

LEMMA ValuesAreFile ==
  ASSUME NEW f, IsValues(f)
  PROVE  IsFile(f) /\ f # NoFile /\ ReadEnv(f) = f
<1>1. DOMAIN NoFile = {"absent"}
  BY DEF NoFile
<1>2. f # NoFile
  BY <1>1 DEF IsValues
<1> QED BY <1>2 DEF IsValues, IsFile, ReadEnv

LEMMA FileIsValues ==
  ASSUME NEW f, IsFile(f)
  PROVE  IsValues(ReadEnv(f))
<1>1. CASE f = NoFile
  <2>1. ReadEnv(f) = [k \in {} |-> <<>>]
    BY <1>1 DEF ReadEnv
  <2> QED BY <2>1 DEF IsValues
<1>2. CASE f # NoFile
  BY <1>2 DEF IsFile, ReadEnv, IsValues
<1> QED BY <1>1, <1>2

LEMMA ElseValues ==
  ASSUME NEW f, NEW g
  PROVE  /\ DOMAIN OrElse(f, g) = DOMAIN f \cup DOMAIN g
         /\ \A k \in DOMAIN f : OrElse(f, g)[k] = f[k]
         /\ \A k \in DOMAIN g \ DOMAIN f : OrElse(f, g)[k] = g[k]
  BY DEF OrElse

LEMMA ElseIsValues ==
  ASSUME NEW f, NEW g, IsValues(f), IsValues(g)
  PROVE  IsValues(OrElse(f, g))
<1>1. /\ DOMAIN OrElse(f, g) = DOMAIN f \cup DOMAIN g
      /\ \A k \in DOMAIN f : OrElse(f, g)[k] = f[k]
      /\ \A k \in DOMAIN g \ DOMAIN f : OrElse(f, g)[k] = g[k]
      /\ OrElse(f, g) = [k \in DOMAIN OrElse(f, g) |-> OrElse(f, g)[k]]
  BY DEF OrElse
<1>2. \A k \in DOMAIN OrElse(f, g) : IsWords(OrElse(f, g)[k])
  BY <1>1 DEF IsValues
<1>3. "absent" \notin DOMAIN OrElse(f, g)
  BY <1>1 DEF IsValues
<1> QED BY <1>1, <1>2, <1>3 DEF IsValues

LEMMA GetIsWords ==
  ASSUME NEW f, IsValues(f), NEW k, NEW d, IsWords(d)
  PROVE  IsWords(Get(f, k)) /\ IsWords(FirstGiven(Get(f, k), d))
  BY WordsEmpty DEF IsValues, Get, FirstGiven

LEMMA UrlIsWords ==
  ASSUME NEW ip, IsWords(ip), NEW port, IsWords(port)
  PROVE  IsWords(Url(ip, port))
<1>1. IsWords(<<"http">>)
  BY OneWord
<1>2. IsWords(<<"http">> \o ip)
  BY <1>1, WordsJoin
<1> QED BY <1>2, WordsJoin DEF Url

LEMMA TheCase ==
  ASSUME co \in CheckoutCases
  PROVE  CheckoutOK(co) /\ NamesApart(co)
  BY CheckoutAssumption

\* What main may give is made of words.
LEMMA GivenWords ==
  ASSUME co \in CheckoutCases, NEW k, NEW v \in GivenIn(co, k)
  PROVE  IsWords(v)
<1>1. CheckoutOK(co)
  BY TheCase
<1>2. CASE \E f \in {co.env, co.example} : k \in DOMAIN f /\ v = f[k]
  <2>1. PICK f \in {co.env, co.example} : k \in DOMAIN f /\ v = f[k]
    BY <1>2
  <2>2. IsFile(f)
    BY <1>1, <2>1 DEF CheckoutOK
  <2>3. CASE f = NoFile
    <3>1. DOMAIN NoFile = {"absent"} /\ NoFile["absent"] = <<>>
      BY DEF NoFile
    <3>2. v = <<>>
      BY <2>1, <2>3, <3>1
    <3> QED BY <3>2, WordsEmpty
  <2>4. CASE f # NoFile
    BY <2>1, <2>2, <2>4 DEF IsFile
  <2> QED BY <2>3, <2>4
<1>3. CASE \E e \in co.edits : v = e.v
  BY <1>1, <1>3 DEF CheckoutOK
<1>4. \/ \E f \in {co.env, co.example} : k \in DOMAIN f /\ v = f[k]
      \/ \E e \in co.edits : v = e.v
  BY DEF GivenIn
<1> QED BY <1>2, <1>3, <1>4

LEMMA ChoiceWords ==
  ASSUME co \in CheckoutCases
  PROVE  /\ \A p \in ProjectsOf(co) : IsWords(p) /\ p # <<>> /\ ToSet(p) \cap co.names = {}
         /\ \A v \in DoclibsOf(co) : IsWords(v) /\ v # <<>> /\ ToSet(v) \cap co.names = {}
         /\ \A v \in StoresOf(co) : ToSet(v) \cap co.names = {}
         /\ \A v \in RootsOf(co) : IsWords(v) /\ ToSet(v) \cap co.names = {}
         /\ DoclibsOf(co) \cap StoresOf(co) = {}
         /\ co.names \cap (Storages \cup {"main", "none", "/", "data", "envs", "default"}) = {}
<1>1. NamesApart(co)
  BY TheCase
<1>2. \A p \in ProjectsOf(co) : IsWords(p) /\ p # <<>>
  BY GivenWords, OneWord DEF ProjectsOf
<1>3. \A v \in DoclibsOf(co) : IsWords(v) /\ v # <<>>
  <2>1. \A p \in ProjectsOf(co) : IsWords(p \o <<"doclib">>)
    BY <1>2, WordAdded
  <2> QED BY <2>1, GivenWords DEF DoclibsOf
<1>4. \A v \in RootsOf(co) : IsWords(v)
  BY GivenWords DEF RootsOf
<1>5. \A v \in ProjectsOf(co) \cup DoclibsOf(co) \cup StoresOf(co) \cup RootsOf(co) : ToSet(v) \cap co.names = {}
  BY <1>1 DEF NamesApart
<1> QED BY <1>1, <1>2, <1>3, <1>4, <1>5 DEF NamesApart

\* The names that follow from what main gives.
LEMMA MainNames ==
  ASSUME NEW f, MainFile(f), co \in CheckoutCases
  PROVE  /\ ProjectName(ReadEnv(f)) \in ProjectsOf(co)
         /\ Doclib(ReadEnv(f)) \in DoclibsOf(co)
         /\ \A s \in Storages : VolumeName(ReadEnv(f), s) \in StoresOf(co)
         /\ Get(ReadEnv(f), "ENV_DATA_ROOT") = <<>> \/ Get(ReadEnv(f), "ENV_DATA_ROOT") \in RootsOf(co)
<1> DEFINE m == ReadEnv(f)
<1>1. \A k \in NameKeys : Get(m, k) = <<>> \/ Get(m, k) \in GivenIn(co, k)
  BY DEF MainFile, Get
<1> HIDE DEF m
<1>2. ProjectName(m) \in ProjectsOf(co)
  <2>1. "COMPOSE_PROJECT_NAME" \in NameKeys
    BY DEF NameKeys
  <2>2. <<"liferay">> # <<>>
    BY OneWord
  <2> QED BY <1>1, <2>1, <2>2 DEF ProjectName, FirstGiven, ProjectsOf
<1>3. ProjectName(m) \in ProjectsOf(co) /\ IsWords(ProjectName(m))
  BY <1>2, ChoiceWords
<1>4. Doclib(m) \in DoclibsOf(co)
  <2>1. "DOCLIB_VOLUME_NAME" \in NameKeys
    BY DEF NameKeys
  <2>2. ProjectName(m) \o <<"doclib">> # <<>>
    BY <1>3, WordAdded
  <2> QED BY <1>1, <1>2, <2>1, <2>2 DEF Doclib, FirstGiven, DoclibsOf
<1>5. ASSUME NEW s \in Storages PROVE VolumeName(m, s) \in StoresOf(co)
  <2>1. VolumeKey[s] \in NameKeys
    BY DEF NameKeys, VolumeKey
  <2>2. ProjectName(m) \o <<s>> # <<>>
    BY <1>3, WordAdded
  <2>3. VolumeName(m, s) \in (GivenIn(co, VolumeKey[s]) \cup {p \o <<s>> : p \in ProjectsOf(co)}) \ {<<>>}
    BY <1>1, <1>2, <2>1, <2>2 DEF VolumeName, FirstGiven
  <2> QED BY <2>3 DEF StoresOf
<1>6. Get(m, "ENV_DATA_ROOT") = <<>> \/ Get(m, "ENV_DATA_ROOT") \in RootsOf(co)
  <2>1. "ENV_DATA_ROOT" \in NameKeys
    BY DEF NameKeys
  <2> QED BY <1>1, <2>1 DEF RootsOf
<1> QED BY <1>2, <1>4, <1>5, <1>6 DEF m

\* What is a worktree's own in the file of one that was prepared.
LEMMA InheritedIsOwn ==
  ASSUME co \in CheckoutCases, NEW w \in co.names, NEW f, IsValues(f), NEW m, MainFile(m)
  PROVE  /\ IsValues(Inherited(f, ReadEnv(m), w)) /\ OwnFile(Inherited(f, ReadEnv(m), w), w)
         /\ "COMPOSE_FILE" \in DOMAIN f => /\ "COMPOSE_FILE" \in DOMAIN Inherited(f, ReadEnv(m), w)
                                           /\ Inherited(f, ReadEnv(m), w)["COMPOSE_FILE"] = f["COMPOSE_FILE"]
<1> DEFINE mv == ReadEnv(m)
           ip == WorktreeIp(f, mv)
           prj == WorktreeProject(mv, w)
           own == [BIND_IP |-> ip, LIFERAY_CLI_URL |-> Url(ip, PortSet(w)["LIFERAY_HTTP_PORT"]), COMPOSE_PROJECT_NAME |-> prj,
                   DOCLIB_VOLUME_NAME |-> Doclib(mv), ENV_DATA_ROOT |-> WorktreeRoot(w),
                   POSTGRES_DATA_VOLUME_NAME |-> prj \o <<"postgres-data">>, LIFERAY_DATA_VOLUME_NAME |-> prj \o <<"liferay-data">>]
           rest == OrElse(f, mv)
           below == OrElse(PortSet(w), rest)
           all == OrElse(own, below)
<1>1. Inherited(f, mv, w) = all
  BY DEF Inherited
<1>2. IsValues(mv)
  BY FileIsValues DEF MainFile
<1>3. ProjectName(mv) \in ProjectsOf(co) /\ IsWords(ProjectName(mv)) /\ Doclib(mv) \in DoclibsOf(co) /\ IsWords(Doclib(mv))
  BY MainNames, ChoiceWords
<1>4. IsWords(ip) /\ ip # <<>>
  <2>1. IsWords(<<"127.0.0.1">>) /\ <<"127.0.0.1">> # <<>>
    BY OneWord
  <2>2. IsWords(FirstGiven(Get(mv, "BIND_IP"), <<"127.0.0.1">>)) /\ FirstGiven(Get(mv, "BIND_IP"), <<"127.0.0.1">>) # <<>>
    BY <1>2, <2>1, GetIsWords DEF FirstGiven
  <2> QED BY <2>2, GetIsWords DEF WorktreeIp, FirstGiven
<1>5. IsValues(PortSet(w)) /\ DOMAIN PortSet(w) = DOMAIN PortBase
  <2>1. DOMAIN PortSet(w) = DOMAIN PortBase /\ PortSet(w) = [k \in DOMAIN PortSet(w) |-> PortSet(w)[k]]
    BY DEF PortSet
  <2>2. \A k \in DOMAIN PortBase : IsWords(PortSet(w)[k])
    BY OneWord DEF PortSet
  <2>3. "absent" \notin DOMAIN PortBase
    BY DEF PortBase
  <2> QED BY <2>1, <2>2, <2>3 DEF IsValues
<1>6. prj = ProjectName(mv) \o <<w>> /\ IsWords(prj)
  BY <1>3, WordAdded DEF WorktreeProject
<1>7. IsValues(own)
  <2>1. IsWords(WorktreeRoot(w))
    <3>1. <<"/", w, "data", "envs", w>> \in Seq({"/", w, "data", "envs"})
      OBVIOUS
    <3> QED BY <3>1, SeqIsWords DEF WorktreeRoot
  <2>2. IsWords(Url(ip, PortSet(w)["LIFERAY_HTTP_PORT"]))
    <3>1. "LIFERAY_HTTP_PORT" \in DOMAIN PortBase
      BY DEF PortBase
    <3> QED BY <1>4, <1>5, <3>1, UrlIsWords DEF IsValues
  <2>3. IsWords(prj \o <<"postgres-data">>) /\ IsWords(prj \o <<"liferay-data">>)
    BY <1>6, WordAdded
  <2> DEFINE url == Url(ip, PortSet(w)["LIFERAY_HTTP_PORT"])
             lib == Doclib(mv)
             root == WorktreeRoot(w)
             pg == prj \o <<"postgres-data">>
             ld == prj \o <<"liferay-data">>
  <2>4. IsWords(ip) /\ IsWords(url) /\ IsWords(prj) /\ IsWords(lib) /\ IsWords(root) /\ IsWords(pg) /\ IsWords(ld)
    BY <1>3, <1>4, <1>6, <2>1, <2>2, <2>3
  <2> HIDE DEF ip, prj, mv, url, lib, root, pg, ld
  <2>5. own = [BIND_IP |-> ip, LIFERAY_CLI_URL |-> url, COMPOSE_PROJECT_NAME |-> prj, DOCLIB_VOLUME_NAME |-> lib,
               ENV_DATA_ROOT |-> root, POSTGRES_DATA_VOLUME_NAME |-> pg, LIFERAY_DATA_VOLUME_NAME |-> ld]
    BY DEF url, lib, root, pg, ld
  <2> HIDE DEF own
  <2>6. \A k \in DOMAIN own : IsWords(own[k])
    BY <2>4, <2>5
  <2>7. own = [k \in DOMAIN own |-> own[k]] /\ "absent" \notin DOMAIN own
    BY <2>5
  <2> QED BY <2>6, <2>7 DEF IsValues
<1>8. IsValues(rest) /\ IsValues(below)
  BY <1>2, <1>5, ElseIsValues
<1> DEFINE OwnNames == {"BIND_IP", "LIFERAY_CLI_URL", "COMPOSE_PROJECT_NAME", "DOCLIB_VOLUME_NAME", "ENV_DATA_ROOT",
                        "POSTGRES_DATA_VOLUME_NAME", "LIFERAY_DATA_VOLUME_NAME"}
<1>9. /\ DOMAIN own = OwnNames
      /\ own["BIND_IP"] = ip /\ own["LIFERAY_CLI_URL"] = Url(ip, PortSet(w)["LIFERAY_HTTP_PORT"])
      /\ own["COMPOSE_PROJECT_NAME"] = prj /\ own["DOCLIB_VOLUME_NAME"] = Doclib(mv)
      /\ own["ENV_DATA_ROOT"] = WorktreeRoot(w) /\ own["POSTGRES_DATA_VOLUME_NAME"] = prj \o <<"postgres-data">>
      /\ own["LIFERAY_DATA_VOLUME_NAME"] = prj \o <<"liferay-data">>
  <2> HIDE DEF ip, prj, mv
  <2> QED OBVIOUS
<1> HIDE DEF own, ip, prj, mv
<1>10. /\ DOMAIN all = OwnNames \cup DOMAIN PortBase \cup DOMAIN f \cup DOMAIN mv
       /\ \A k \in OwnNames : all[k] = own[k]
       /\ \A k \in DOMAIN PortBase \ OwnNames : all[k] = PortSet(w)[k]
       /\ \A k \in DOMAIN f \ (OwnNames \cup DOMAIN PortBase) : all[k] = f[k]
       /\ IsValues(all)
  <2>1. /\ DOMAIN rest = DOMAIN f \cup DOMAIN mv /\ \A k \in DOMAIN f : rest[k] = f[k]
    BY DEF OrElse
  <2>2. /\ DOMAIN below = DOMAIN PortBase \cup DOMAIN rest /\ \A k \in DOMAIN PortBase : below[k] = PortSet(w)[k]
        /\ \A k \in DOMAIN rest \ DOMAIN PortBase : below[k] = rest[k]
    <3> HIDE DEF rest
    <3> QED BY <1>5 DEF OrElse
  <2>3. /\ DOMAIN all = OwnNames \cup DOMAIN below /\ \A k \in OwnNames : all[k] = own[k]
        /\ \A k \in DOMAIN below \ OwnNames : all[k] = below[k]
    <3> HIDE DEF below, OwnNames
    <3> QED BY <1>9 DEF OrElse
  <2>4. IsValues(all)
    BY <1>7, <1>8, ElseIsValues
  <2> HIDE DEF all, below, rest, OwnNames
  <2> QED BY <2>1, <2>2, <2>3, <2>4
<1> HIDE DEF all
<1>11. OwnFile(all, w)
  <2>1. OwnKeys \subseteq DOMAIN all
    BY <1>10 DEF OwnKeys, NameKeys
  <2>2. /\ all["BIND_IP"] = ip /\ all["LIFERAY_CLI_URL"] = Url(ip, PortSet(w)["LIFERAY_HTTP_PORT"])
        /\ all["COMPOSE_PROJECT_NAME"] = prj /\ all["DOCLIB_VOLUME_NAME"] = Doclib(mv)
        /\ all["ENV_DATA_ROOT"] = WorktreeRoot(w) /\ all["POSTGRES_DATA_VOLUME_NAME"] = prj \o <<"postgres-data">>
        /\ all["LIFERAY_DATA_VOLUME_NAME"] = prj \o <<"liferay-data">>
    BY <1>9, <1>10
  <2>3. \A s \in Storages : all[VolumeKey[s]] = StoreName(ProjectName(mv), w, s)
    BY <1>6, <2>2 DEF Storages, VolumeKey, StoreName
  <2>4. \A k \in DOMAIN PortBase : all[k] = PortSet(w)[k]
    <3>1. DOMAIN PortBase \cap OwnNames = {}
      BY DEF PortBase
    <3> QED BY <1>10, <3>1
  <2> QED BY <1>3, <1>4, <1>6, <2>1, <2>2, <2>3, <2>4 DEF OwnFile
<1>12. "COMPOSE_FILE" \in DOMAIN f => "COMPOSE_FILE" \in DOMAIN all /\ all["COMPOSE_FILE"] = f["COMPOSE_FILE"]
  <2>1. "COMPOSE_FILE" \notin OwnNames \cup DOMAIN PortBase
    BY DEF PortBase
  <2> QED BY <1>10, <2>1
<1> QED BY <1>1, <1>10, <1>11, <1>12 DEF mv

LEMMA OwnKept ==
  ASSUME NEW f, NEW g, NEW w, OwnFile(f, w), OwnKeys \subseteq DOMAIN g, \A k \in OwnKeys : g[k] = f[k]
  PROVE  OwnFile(g, w) /\ EnvContext(g, w) = EnvContext(f, w)
<1>1. "absent" \notin OwnKeys /\ "BIND_IP" \in OwnKeys
  BY DEF OwnKeys, NameKeys, PortBase
<1>2. DOMAIN NoFile = {"absent"}
  BY DEF NoFile
<1>3. f # NoFile /\ g # NoFile /\ ReadEnv(f) = f /\ ReadEnv(g) = g /\ OwnKeys \subseteq DOMAIN f
  BY <1>1, <1>2 DEF ReadEnv, OwnFile
<1>4. /\ {"COMPOSE_PROJECT_NAME", "ENV_DATA_ROOT", "DOCLIB_VOLUME_NAME", "BIND_IP", "LIFERAY_CLI_URL"} \subseteq OwnKeys
      /\ DOMAIN PortBase \subseteq OwnKeys /\ "LIFERAY_HTTP_PORT" \in OwnKeys
      /\ \A s \in Storages : VolumeKey[s] \in OwnKeys
  BY DEF OwnKeys, NameKeys, PortBase, VolumeKey
<1>5. OwnFile(g, w)
  BY <1>3, <1>4 DEF OwnFile
<1>6. \A k \in OwnKeys : Get(g, k) = Get(f, k)
  BY <1>3 DEF Get
<1>7. EnvContext(g, w) = EnvContext(f, w)
  BY <1>3, <1>4, <1>6 DEF EnvContext, ProjectName
<1> QED BY <1>5, <1>7

\* ensureEnvFile and an edit of one key keep what a file says.
LEMMA CompletedKeeps ==
  ASSUME co \in CheckoutCases, NEW f, IsFile(f)
  PROVE  /\ IsValues(Completed(f)) /\ DOMAIN ReadEnv(f) \subseteq DOMAIN Completed(f)
         /\ \A k \in DOMAIN ReadEnv(f) : Completed(f)[k] = ReadEnv(f)[k]
         /\ MainFile(f) => MainFile(Completed(f))
<1> DEFINE x == co.example
<1>1. IsValues(ReadEnv(f)) /\ IsValues(ReadEnv(x))
  BY TheCase, FileIsValues DEF CheckoutOK
<1>2. /\ IsValues(Completed(f)) /\ DOMAIN Completed(f) = DOMAIN ReadEnv(f) \cup DOMAIN ReadEnv(x)
      /\ \A k \in DOMAIN ReadEnv(f) : Completed(f)[k] = ReadEnv(f)[k]
      /\ \A k \in DOMAIN ReadEnv(x) \ DOMAIN ReadEnv(f) : Completed(f)[k] = ReadEnv(x)[k]
  <2>1. IsValues(Completed(f))
    BY <1>1, ElseIsValues DEF Completed
  <2>2. Completed(f) = OrElse(ReadEnv(f), ReadEnv(x))
    BY DEF Completed
  <2> HIDE DEF x
  <2> QED BY <2>1, <2>2 DEF OrElse
<1>3. \A k \in DOMAIN ReadEnv(x) : ReadEnv(x)[k] \in GivenIn(co, k)
  BY DEF ReadEnv, GivenIn
<1>4. ASSUME MainFile(f) PROVE MainFile(Completed(f))
  <2>1. IsFile(Completed(f)) /\ ReadEnv(Completed(f)) = Completed(f)
    BY <1>2, ValuesAreFile
  <2>2. ASSUME NEW k \in NameKeys, k \in DOMAIN Completed(f) PROVE Completed(f)[k] \in GivenIn(co, k)
    BY <1>2, <1>3, <1>4, <2>2 DEF MainFile
  <2> QED BY <2>1, <2>2 DEF MainFile
<1> QED BY <1>2, <1>4

LEMMA SavedKept ==
  ASSUME NEW f, NEW g, NEW with, Saved(f, with), IsValues(g),
         "COMPOSE_FILE" \in DOMAIN ReadEnv(f) => "COMPOSE_FILE" \in DOMAIN g /\ g["COMPOSE_FILE"] = ReadEnv(f)["COMPOSE_FILE"]
  PROVE  Saved(g, with)
<1>1. ReadEnv(g) = g
  BY ValuesAreFile
<1> QED BY <1>1 DEF Saved

LEMMA MainApart == co \in CheckoutCases => "main" \notin co.names /\ "main" \in Checkout /\ co.names \subseteq Checkout
                                            /\ \A c \in Checkout : c # "main" => c \in co.names
  BY ChoiceWords DEF Checkout

LEMMA PreparedIsOwn ==
  ASSUME CheckoutInv, NEW w \in co.names
  PROVE  /\ IsValues(Prepared(w)) /\ OwnFile(Prepared(w), w) /\ Saved(Prepared(w), services[w])
<1> DEFINE origin == IF envFile["main"] # NoFile THEN envFile["main"] ELSE co.example
           envf == IF envFile[w] = NoFile THEN origin ELSE envFile[w]
           values == ReadEnv(envf)
           inh == Inherited(values, ReadEnv(envFile["main"]), w)
<1>1. co \in CheckoutCases /\ IsFile(envFile["main"]) /\ IsFile(envFile[w]) /\ MainFile(envFile["main"]) /\ w \in Checkout
      /\ Saved(envFile[w], services[w])
  BY MainApart DEF CheckoutInv, CheckoutTypes
<1>2. IsFile(envf)
  BY <1>1, TheCase DEF CheckoutOK
<1> HIDE DEF envf
<1>3. IsValues(values)
  BY <1>2, FileIsValues
<1> HIDE DEF values
<1>4. /\ IsValues(inh) /\ OwnFile(inh, w)
      /\ "COMPOSE_FILE" \in DOMAIN values => "COMPOSE_FILE" \in DOMAIN inh /\ inh["COMPOSE_FILE"] = values["COMPOSE_FILE"]
  BY <1>1, <1>3, InheritedIsOwn
<1> HIDE DEF inh
<1>5. Prepared(w) = OrElse(inh, values)
  BY DEF Prepared, Upserted, inh, values, envf
<1>6. /\ IsValues(Prepared(w)) /\ DOMAIN inh \subseteq DOMAIN Prepared(w)
      /\ \A k \in DOMAIN inh : Prepared(w)[k] = inh[k]
  <2>1. IsValues(Prepared(w))
    BY <1>3, <1>4, <1>5, ElseIsValues
  <2> QED BY <1>5, <2>1 DEF OrElse
<1>7. OwnFile(Prepared(w), w)
  <2>1. OwnKeys \subseteq DOMAIN inh
    BY <1>4 DEF OwnFile
  <2> QED BY <1>4, <1>6, <2>1, OwnKept
<1>8. Saved(Prepared(w), services[w])
  <2>1. CASE envFile[w] = NoFile
    <3>1. "COMPOSE_FILE" \notin DOMAIN ReadEnv(envFile[w])
      BY <2>1 DEF ReadEnv
    <3> QED BY <1>1, <3>1 DEF Saved
  <2>2. CASE envFile[w] # NoFile
    <3>1. values = ReadEnv(envFile[w])
      BY <2>2 DEF values, envf
    <3> QED BY <1>1, <1>4, <1>6, <3>1, SavedKept
  <2> QED BY <2>1, <2>2
<1> QED BY <1>6, <1>7, <1>8

\* A command works in a worktree only when its branch has liferay/.
LEMMA WorksInWorktree ==
  ASSUME co \in CheckoutCases, NEW w \in co.names, WorksOn(w)
  PROVE  "liferay" \in co.branch
<1> DEFINE d == Dir(w, TRUE)
<1>1. w # "none" /\ w # "main" /\ d.in = w /\ d.root = TRUE
  BY ChoiceWords DEF Dir
<1>2. SUFFICES ASSUME "liferay" \notin co.branch PROVE FALSE
  OBVIOUS
<1>3. ~IsOverlay(w)
  BY <1>1, <1>2 DEF IsOverlay, HasLiferay
<1>4. WorktreeOf(d) = w
  BY <1>1 DEF WorktreeOf, LinkedAt
<1>5. DetectRepo(d) = w
  BY <1>3, <1>4 DEF WorksOn, RepoOf
<1> QED BY <1>1, <1>2, <1>5 DEF DetectRepo, HasLiferay

\* The names that follow from the file of a worktree.
LEMMA OwnNames ==
  ASSUME co \in CheckoutCases, NEW w, NEW f, OwnFile(f, w)
  PROVE  /\ ReadEnv(f) = f /\ Doclib(f) \in DoclibsOf(co)
         /\ \E p \in ProjectsOf(co) : ProjectName(f) = p \o <<w>> /\ \A s \in Storages : VolumeName(f, s) = StoreName(p, w, s)
<1>1. /\ "absent" \notin OwnKeys /\ "COMPOSE_PROJECT_NAME" \in OwnKeys /\ "DOCLIB_VOLUME_NAME" \in OwnKeys
      /\ \A s \in Storages : VolumeKey[s] \in OwnKeys
  BY DEF OwnKeys, NameKeys, PortBase, VolumeKey
<1>2. ReadEnv(f) = f
  <2>1. DOMAIN NoFile = {"absent"}
    BY DEF NoFile
  <2>2. OwnKeys \subseteq DOMAIN f
    BY DEF OwnFile
  <2>3. {"COMPOSE_PROJECT_NAME"} \subseteq DOMAIN f /\ "COMPOSE_PROJECT_NAME" # "absent"
    BY <1>1, <2>2
  <2> QED BY <2>1, <2>3 DEF ReadEnv
<1>3. PICK p \in ProjectsOf(co) : f["COMPOSE_PROJECT_NAME"] = p \o <<w>> /\ \A s \in Storages : f[VolumeKey[s]] = StoreName(p, w, s)
  BY DEF OwnFile
<1>4. IsWords(p)
  BY ChoiceWords
<1>5. ProjectName(f) = p \o <<w>>
  <2>1. p \o <<w>> # <<>>
    BY <1>4, WordAdded
  <2>2. Get(f, "COMPOSE_PROJECT_NAME") = p \o <<w>>
    BY <1>1, <1>3 DEF Get, OwnFile
  <2> QED BY <2>1, <2>2 DEF ProjectName, FirstGiven
<1>6. ASSUME NEW s \in Storages PROVE VolumeName(f, s) = StoreName(p, w, s)
  <2>1. StoreName(p, w, s) # <<>>
    BY <1>4, StoreNameWords
  <2>2. Get(f, VolumeKey[s]) = StoreName(p, w, s)
    BY <1>1, <1>3 DEF Get, OwnFile
  <2> QED BY <2>1, <2>2 DEF VolumeName, FirstGiven
<1>7. Doclib(f) \in DoclibsOf(co)
  <2>1. Get(f, "DOCLIB_VOLUME_NAME") \in DoclibsOf(co)
    BY <1>1 DEF Get, OwnFile
  <2>2. Get(f, "DOCLIB_VOLUME_NAME") # <<>>
    BY <2>1, ChoiceWords
  <2> QED BY <2>1, <2>2 DEF Doclib, FirstGiven
<1> QED BY <1>2, <1>5, <1>6, <1>7

LEMMA MountedTells ==
  ASSUME co \in CheckoutCases, NEW c \in Checkout, NEW f, IF c = "main" THEN MainFile(f) ELSE OwnFile(f, c)
  PROVE  /\ Doclib(ReadEnv(f)) \in DoclibsOf(co)
         /\ \A s \in Storages : NameTells(VolumeName(ReadEnv(f), s), c)
         /\ \A n \in Mounted(ReadEnv(f)) : NameTells(n, c)
<1>1. /\ Doclib(ReadEnv(f)) \in DoclibsOf(co)
      /\ \A s \in Storages : NameTells(VolumeName(ReadEnv(f), s), c)
  <2>1. CASE c = "main"
    BY <2>1, MainNames DEF NameTells
  <2>2. CASE c # "main"
    <3>1. c \in co.names
      BY <2>2, MainApart
    <3>2. OwnFile(f, c)
      BY <2>2
    <3> QED BY <3>1, <3>2, OwnNames DEF NameTells
  <2> QED BY <2>1, <2>2
<1>2. ASSUME NEW n \in Mounted(ReadEnv(f)) PROVE NameTells(n, c)
  <2>1. n = Doclib(ReadEnv(f)) \/ \E s \in Storages : n = VolumeName(ReadEnv(f), s)
    BY DEF Mounted, InVolumes
  <2>2. n \in DoclibsOf(co) => NameTells(n, c)
    BY DEF NameTells
  <2> QED BY <1>1, <2>1, <2>2
<1> QED BY <1>1, <1>2

\* A volume that a prepared checkout removes by the name of one of its storages is its own.
LEMMA NamesAreOwn ==
  ASSUME co \in CheckoutCases, NEW c \in Checkout, NEW f, IF c = "main" THEN MainFile(f) ELSE OwnFile(f, c),
         NEW s \in Storages, NEW x \in Checkout, NameTells(VolumeName(ReadEnv(f), s), x)
  PROVE  x = c
<1> DEFINE n == VolumeName(ReadEnv(f), s)
<1>1. CASE c = "main"
  <2>1. n \in StoresOf(co)
    BY <1>1, MainNames
  <2>2. n \notin DoclibsOf(co) /\ ToSet(n) \cap co.names = {}
    BY <2>1, ChoiceWords
  <2>3. ASSUME NEW p \in ProjectsOf(co), NEW t \in Storages, x \in co.names, n = StoreName(p, x, t) PROVE FALSE
    <3>1. IsWords(p)
      BY ChoiceWords
    <3>2. x \in ToSet(n)
      BY <2>3, <3>1, StoreNameWords
    <3> QED BY <2>2, <2>3, <3>2
  <2> HIDE DEF n
  <2>4. NameTells(n, x)
    BY DEF n
  <2> QED BY <1>1, <2>2, <2>3, <2>4 DEF NameTells
<1>2. CASE c # "main"
  <2>1. c \in co.names /\ OwnFile(f, c)
    BY <1>2, MainApart
  <2>2. PICK p \in ProjectsOf(co) : n = StoreName(p, c, s)
    BY <2>1, OwnNames
  <2>3. IsWords(p) /\ ToSet(p) \cap co.names = {}
    BY ChoiceWords
  <2>4. ToSet(n) = ToSet(p) \cup {c, s}
    BY <2>2, <2>3, StoreNameWords
  <2>5. n \notin DoclibsOf(co) /\ n \notin StoresOf(co)
    <3>1. c \in ToSet(n)
      BY <2>4
    <3> QED BY <2>1, <3>1, ChoiceWords
  <2> HIDE DEF n
  <2>6. PICK q \in ProjectsOf(co), t \in Storages : x \in co.names /\ n = StoreName(q, x, t)
    <3>1. NameTells(n, x)
      BY DEF n
    <3> QED BY <2>5, <3>1 DEF NameTells
  <2>7. x \in ToSet(n)
    <3>1. IsWords(q)
      BY ChoiceWords
    <3> QED BY <2>6, <3>1, StoreNameWords
  <2>8. x # s
    BY <2>6, ChoiceWords
  <2> QED BY <2>3, <2>4, <2>6, <2>7, <2>8
<1> QED BY <1>1, <1>2

LEMMA CheckoutStep ==
  ASSUME CheckoutInv, co' = co,
         envFile' = [c \in Checkout |-> envFile'[c]], services' = [c \in Checkout |-> services'[c]],
         told' = [w \in co.names |-> told'[w]], volumes' = [n \in DOMAIN volumes' |-> volumes'[n]],
         \A c \in Checkout : IsFile(envFile'[c]) /\ Saved(envFile'[c], services'[c]),
         MainFile(envFile'["main"]),
         \A w \in co.names : told'[w] # NoReport => PreparedFile(w, envFile'[w], told'[w]),
         \A n \in DOMAIN volumes' : NameTells(n, volumes'[n]),
         \A l \in lost' : l.prepared => l.documents
  PROVE  CheckoutInv'
<1>1. CheckoutTypes'
  BY DEF CheckoutInv, CheckoutTypes, Checkout
<1>2. VolumesKept'
  BY DEF VolumesKept
<1>3. MainFile(envFile["main"])'
  BY DEF MainFile
<1>4. (\A w \in co.names : told[w] # NoReport => PreparedFile(w, envFile[w], told[w]))'
  <2>1. ASSUME NEW w \in co.names PROVE PortSet(w)' = PortSet(w)
    BY DEF PortSet, Offset
  <2>2. ASSUME NEW w \in co.names, told'[w] # NoReport PROVE PreparedFile(w, envFile[w], told[w])'
    <3>1. PreparedFile(w, envFile'[w], told'[w])
      BY <2>2
    <3>2. OwnFile(envFile[w], w)'
      BY <2>1, <3>1 DEF PreparedFile, OwnFile
    <3> QED BY <3>1, <3>2 DEF PreparedFile
  <2> QED BY <2>2
<1>5. (\A n \in DOMAIN volumes : NameTells(n, volumes[n]))'
  BY DEF NameTells
<1>6. (\A c \in Checkout : Saved(envFile[c], services[c]))'
  BY DEF Checkout
<1> QED BY <1>1, <1>2, <1>3, <1>4, <1>5, <1>6 DEF CheckoutInv

LEMMA CheckoutStarts ==
  ASSUME NEW begun, CheckoutStart(begun)
  PROVE  CheckoutInv
<1>1. co \in CheckoutCases /\ CheckoutOK(co)
  BY TheCase DEF CheckoutStart
<1>2. /\ "main" \notin co.names /\ "main" \in Checkout /\ co.names \subseteq Checkout
      /\ \A c \in Checkout : envFile[c] = IF c = "main" THEN co.env ELSE NoFile
  BY <1>1, MainApart DEF CheckoutStart
<1>3. CheckoutTypes
  <2>1. \A c \in Checkout : IsFile(envFile[c])
    BY <1>1, <1>2 DEF CheckoutOK, IsFile
  <2> QED BY <1>1, <2>1 DEF CheckoutStart, CheckoutTypes
<1>4. MainFile(envFile["main"])
  <2>1. envFile["main"] = co.env
    BY <1>2
  <2>2. \A k \in DOMAIN ReadEnv(co.env) : ReadEnv(co.env)[k] \in GivenIn(co, k)
    BY DEF ReadEnv, GivenIn
  <2> QED BY <1>1, <2>1, <2>2 DEF MainFile, CheckoutOK
<1>5. \A w \in co.names : told[w] = NoReport
  BY DEF CheckoutStart
<1>6. VolumesKept /\ DOMAIN volumes = {} /\ \A c \in Checkout : services[c] = {}
  BY DEF CheckoutStart, VolumesKept
<1> QED BY <1>3, <1>4, <1>5, <1>6 DEF CheckoutInv, Saved

\* A command writes the file of one checkout.
LEMMA FileStep ==
  ASSUME CheckoutInv, co' = co, NEW c \in Checkout, NEW f, NEW said, NEW with,
         envFile' = [envFile EXCEPT ![c] = f], IsFile(f), c = "main" => MainFile(f),
         told' = [w \in co.names |-> IF w = c THEN said ELSE told[w]],
         c # "main" /\ said # NoReport => PreparedFile(c, f, said),
         services' = [services EXCEPT ![c] = with], Saved(f, with),
         volumes' = [n \in DOMAIN volumes' |-> volumes'[n]],
         \A n \in DOMAIN volumes' : NameTells(n, volumes'[n]),
         lost' = lost
  PROVE  CheckoutInv'
<1>1. /\ co \in CheckoutCases /\ "main" \notin co.names /\ "main" \in Checkout /\ co.names \subseteq Checkout
      /\ envFile = [x \in Checkout |-> envFile[x]] /\ services = [x \in Checkout |-> services[x]]
  BY MainApart DEF CheckoutInv, CheckoutTypes
<1>2. /\ envFile' = [x \in Checkout |-> envFile'[x]] /\ services' = [x \in Checkout |-> services'[x]]
      /\ \A x \in Checkout : /\ envFile'[x] = IF x = c THEN f ELSE envFile[x]
                             /\ services'[x] = IF x = c THEN with ELSE services[x]
  BY <1>1
<1>3. told' = [w \in co.names |-> told'[w]] /\ \A w \in co.names : told'[w] = IF w = c THEN said ELSE told[w]
  OBVIOUS
<1>4. \A x \in Checkout : IsFile(envFile'[x]) /\ Saved(envFile'[x], services'[x])
  BY <1>2 DEF CheckoutInv, CheckoutTypes
<1>5. MainFile(envFile'["main"])
  BY <1>1, <1>2 DEF CheckoutInv
<1>6. \A w \in co.names : told'[w] # NoReport => PreparedFile(w, envFile'[w], told'[w])
  <2>1. ASSUME NEW w \in co.names, told'[w] # NoReport PROVE PreparedFile(w, envFile'[w], told'[w])
    <3>1. w \in Checkout /\ w # "main"
      BY <1>1
    <3>2. CASE w = c
      <4>1. envFile'[w] = f /\ told'[w] = said
        BY <1>2, <1>3, <3>2
      <4> QED BY <2>1, <3>1, <3>2, <4>1
    <3>3. CASE w # c
      <4>1. envFile'[w] = envFile[w] /\ told'[w] = told[w]
        BY <1>2, <1>3, <3>1, <3>3
      <4> QED BY <2>1, <4>1 DEF CheckoutInv
    <3> QED BY <3>2, <3>3
  <2> QED BY <2>1
<1>7. \A l \in lost' : l.prepared => l.documents
  BY DEF CheckoutInv, VolumesKept
<1> QED BY <1>2, <1>3, <1>4, <1>5, <1>6, <1>7, CheckoutStep

\* `worktree env` in a worktree: its file, and what is said of it.
LEMMA PrepareStep ==
  ASSUME CheckoutInv, co' = co, NEW w \in co.names, WorksOn(w), PrepareWorktree(w), UNCHANGED <<services, lost>>,
         volumes' = [n \in DOMAIN volumes' |-> volumes'[n]],
         \A n \in DOMAIN volumes' : NameTells(n, volumes'[n])
  PROVE  CheckoutInv'
<1> DEFINE f == Prepared(w)
           said == EnvReport(f, w)
<1>1. /\ co \in CheckoutCases /\ w \in Checkout /\ w # "main" /\ services = [x \in Checkout |-> services[x]]
      /\ told = [x \in co.names |-> told[x]]
  BY MainApart DEF CheckoutInv, CheckoutTypes
<1>2. IsValues(f) /\ OwnFile(f, w) /\ Saved(f, services[w])
  BY PreparedIsOwn
<1>3. IsFile(f) /\ PreparedFile(w, f, said)
  BY <1>1, <1>2, ValuesAreFile, WorksInWorktree DEF PreparedFile, EnvReport
<1>4. envFile' = [envFile EXCEPT ![w] = f] /\ told' = [told EXCEPT ![w] = said]
  BY DEF PrepareWorktree
<1> HIDE DEF f, said
<1>5. told' = [x \in co.names |-> IF x = w THEN said ELSE told[x]]
  BY <1>1, <1>4
<1>6. services' = [services EXCEPT ![w] = services[w]]
  BY <1>1
<1> QED BY <1>1, <1>2, <1>3, <1>4, <1>5, <1>6, FileStep

LEMMA SameVolumes ==
  ASSUME CheckoutInv, UNCHANGED volumes
  PROVE  volumes' = [n \in DOMAIN volumes' |-> volumes'[n]] /\ \A n \in DOMAIN volumes' : NameTells(n, volumes'[n])
  BY DEF CheckoutInv, CheckoutTypes

LEMMA InitEnvKeeps ==
  ASSUME CheckoutInv, NEW c \in Checkout, InitEnv(c)
  PROVE  CheckoutInv'
<1>1. co' = co /\ UNCHANGED <<volumes, services, lost>> /\ WorksOn(c) /\ co \in CheckoutCases
  BY DEF InitEnv, Counted, CheckoutInv, CheckoutTypes
<1>2. CASE c = "main"
  <2> DEFINE f == Completed(envFile[c])
  <2>1. envFile' = [envFile EXCEPT ![c] = f] /\ UNCHANGED told
    BY <1>2 DEF InitEnv
  <2>2. IsFile(envFile[c]) /\ MainFile(envFile[c]) /\ Saved(envFile[c], services[c])
    BY <1>2 DEF CheckoutInv, CheckoutTypes
  <2>3. IsValues(f) /\ MainFile(f) /\ Saved(f, services[c])
    BY <1>1, <2>2, CompletedKeeps, SavedKept
  <2>4. IsFile(f)
    BY <2>3, ValuesAreFile
  <2> HIDE DEF f
  <2>5. told' = [w \in co.names |-> IF w = c THEN NoReport ELSE told[w]]
    BY <1>1, <1>2, <2>1, MainApart DEF CheckoutInv, CheckoutTypes
  <2>6. services' = [services EXCEPT ![c] = services[c]]
    BY <1>1 DEF CheckoutInv, CheckoutTypes
  <2>7. volumes' = [n \in DOMAIN volumes' |-> volumes'[n]] /\ \A n \in DOMAIN volumes' : NameTells(n, volumes'[n])
    BY <1>1, SameVolumes
  <2>8. co' = co /\ lost' = lost
    BY <1>1
  <2> QED BY <1>2, <2>1, <2>3, <2>4, <2>5, <2>6, <2>7, <2>8, FileStep
<1>3. CASE c # "main"
  <2>1. c \in co.names
    BY <1>1, <1>3, MainApart
  <2>2. PrepareWorktree(c)
    BY <1>3 DEF InitEnv
  <2> QED BY <1>1, <2>1, <2>2, SameVolumes, PrepareStep
<1> QED BY <1>2, <1>3

LEMMA StartEnvKeeps ==
  ASSUME CheckoutInv, NEW c \in Checkout, StartEnv(c)
  PROVE  CheckoutInv'
<1>1. co' = co /\ UNCHANGED <<services, lost>> /\ WorksOn(c) /\ co \in CheckoutCases /\ Prepare(c)
  BY DEF StartEnv, Counted, CheckoutInv, CheckoutTypes
<1>2. IF c = "main" THEN MainFile(envFile'[c]) ELSE OwnFile(envFile'[c], c)
  <2>1. CASE c = "main"
    BY <1>1, <2>1 DEF Prepare, CheckoutInv
  <2>2. CASE c # "main"
    <3>1. c \in co.names
      BY <1>1, <2>2, MainApart
    <3>2. envFile' = [envFile EXCEPT ![c] = Prepared(c)]
      BY <1>1, <2>2 DEF Prepare, PrepareWorktree
    <3>3. envFile'[c] = Prepared(c)
      BY <3>2 DEF CheckoutInv, CheckoutTypes
    <3> QED BY <2>2, <3>1, <3>3, PreparedIsOwn
  <2> QED BY <2>1, <2>2
<1>3. volumes' = [n \in DOMAIN volumes' |-> volumes'[n]] /\ \A n \in DOMAIN volumes' : NameTells(n, volumes'[n])
  <2>1. CASE Refused(c)
    BY <2>1, SameVolumes DEF StartEnv
  <2>2. CASE ~Refused(c)
    <3> DEFINE g == [n \in Mounted(ReadEnv(envFile'[c])) |-> c]
    <3>1. volumes' = OrElse(volumes, g)
      BY <2>2 DEF StartEnv
    <3>2. \A n \in DOMAIN g : NameTells(n, g[n])
      BY <1>1, <1>2, MountedTells
    <3> HIDE DEF g
    <3>3. volumes' = [n \in DOMAIN volumes' |-> volumes'[n]]
      BY <3>1 DEF OrElse
    <3>4. ASSUME NEW n \in DOMAIN volumes' PROVE NameTells(n, volumes'[n])
      <4>1. \/ n \in DOMAIN volumes /\ volumes'[n] = volumes[n]
            \/ n \in DOMAIN g /\ volumes'[n] = g[n]
        BY <3>1 DEF OrElse
      <4> QED BY <3>2, <4>1 DEF CheckoutInv
    <3> QED BY <3>3, <3>4
  <2> QED BY <2>1, <2>2
<1>4. CASE c = "main"
  <2>1. UNCHANGED <<envFile, told>>
    BY <1>1, <1>4 DEF Prepare
  <2> DEFINE f == envFile[c]
  <2>2. IsFile(f) /\ MainFile(f) /\ Saved(f, services[c])
    BY <1>4 DEF CheckoutInv, CheckoutTypes
  <2>3. told' = [w \in co.names |-> IF w = c THEN NoReport ELSE told[w]]
    BY <1>1, <1>4, <2>1, MainApart DEF CheckoutInv, CheckoutTypes
  <2>4. envFile' = [envFile EXCEPT ![c] = f] /\ services' = [services EXCEPT ![c] = services[c]]
    BY <1>1, <2>1 DEF CheckoutInv, CheckoutTypes
  <2> QED BY <1>1, <1>3, <1>4, <2>2, <2>3, <2>4, FileStep
<1>5. CASE c # "main"
  <2>1. c \in co.names
    BY <1>1, <1>5, MainApart
  <2>2. PrepareWorktree(c)
    BY <1>1, <1>5 DEF Prepare
  <2> QED BY <1>1, <1>3, <2>1, <2>2, PrepareStep
<1> QED BY <1>4, <1>5

LEMMA ServicesAsWords ==
  ASSUME NEW with, IsFiniteSet(with)
  PROVE  IsWords(SetToSeq(with)) /\ ToSet(SetToSeq(with)) = with
<1> DEFINE n == Cardinality(with)
           v == SetToSeq(with)
<1>1. n \in Nat /\ ExistsBijection(1 .. n, with)
  BY FS_CardinalityType
<1>2. \E f \in [1 .. n -> with] : IsInjective(f)
  BY <1>1 DEF ExistsBijection, Bijection, Injection
<1>3. v \in [1 .. n -> with] /\ IsInjective(v)
  BY <1>2 DEF SetToSeq
<1> HIDE DEF v
<1>4. v \in Injection(1 .. n, with)
  BY <1>3 DEF Injection
<1>5. IsFiniteSet(1 .. n) /\ Cardinality(1 .. n) = n
  BY <1>1, FS_Interval
<1>6. v \in Surjection(1 .. n, with)
  BY <1>4, <1>5, FS_Injection DEF n
<1>7. \A x \in with : \E i \in 1 .. n : v[i] = x
  BY <1>6 DEF Surjection
<1>8. DOMAIN v = 1 .. n /\ v \in Seq(with)
  BY <1>1, <1>3
<1>9. ToSet(v) = with
  BY <1>3, <1>7, <1>8 DEF ToSet
<1> QED BY <1>8, <1>9, SeqIsWords DEF v

LEMMA SetupEnvKeeps ==
  ASSUME CheckoutInv, NEW c \in Checkout, NEW with \in co.with, SetupEnv(c, with)
  PROVE  CheckoutInv'
<1>1. co' = co /\ UNCHANGED <<volumes, lost>> /\ WorksOn(c) /\ co \in CheckoutCases
  BY DEF SetupEnv, Counted, CheckoutInv, CheckoutTypes
<1>2. CASE Refused(c)
  <2>1. c \in co.names
    BY <1>1, <1>2, MainApart DEF Refused
  <2>2. PrepareWorktree(c) /\ UNCHANGED services
    BY <1>2 DEF SetupEnv
  <2> QED BY <1>1, <2>1, <2>2, SameVolumes, PrepareStep
<1>3. CASE ~Refused(c)
  <2> DEFINE earlier == IF c = "main" THEN envFile[c] ELSE Prepared(c)
             full == Completed(earlier)
             saved == <<"liferay">> \o SetToSeq(with)
             line == [COMPOSE_FILE |-> saved]
             f == IF with = {} THEN full ELSE Upserted(full, line)
             asked == IF with = {} THEN services[c] ELSE with
             said == IF c = "main" THEN NoReport ELSE EnvReport(Prepared(c), c)
  <2>1. /\ envFile' = [envFile EXCEPT ![c] = f] /\ services' = [services EXCEPT ![c] = asked]
        /\ IF c = "main" THEN UNCHANGED told ELSE told' = [told EXCEPT ![c] = said]
    BY <1>3 DEF SetupEnv
  <2>2. /\ "main" \notin co.names /\ (c # "main" => c \in co.names)
        /\ told = [w \in co.names |-> told[w]]
    BY <1>1, MainApart DEF CheckoutInv, CheckoutTypes
  <2>3. IsFile(earlier) /\ Saved(earlier, services[c]) /\ (c = "main" => MainFile(earlier)) /\ (c # "main" => OwnFile(earlier, c))
    <3>1. CASE c = "main"
      BY <3>1 DEF CheckoutInv, CheckoutTypes
    <3>2. CASE c # "main"
      BY <2>2, <3>2, PreparedIsOwn, ValuesAreFile
    <3> QED BY <3>1, <3>2
  <2>4. c # "main" => said = EnvContext(earlier, c)
    BY DEF EnvReport
  <2> HIDE DEF earlier
  <2>5. /\ IsValues(full) /\ DOMAIN ReadEnv(earlier) \subseteq DOMAIN full
        /\ \A k \in DOMAIN ReadEnv(earlier) : full[k] = ReadEnv(earlier)[k]
        /\ c = "main" => MainFile(full)
    BY <1>1, <2>3, CompletedKeeps
  <2> HIDE DEF full
  <2>6. IsWords(saved) /\ with \subseteq ToSet(saved)
    <3>1. IsFiniteSet(with)
      BY <1>1, TheCase DEF CheckoutOK
    <3>2. IsWords(<<"liferay">>) /\ IsWords(SetToSeq(with)) /\ ToSet(SetToSeq(with)) = with
      BY <3>1, OneWord, ServicesAsWords
    <3> QED BY <3>2, WordsJoin
  <2> HIDE DEF saved
  <2>7. IsValues(line) /\ DOMAIN line = {"COMPOSE_FILE"} /\ line["COMPOSE_FILE"] = saved
    BY <2>6 DEF IsValues
  <2> HIDE DEF line
  <2>8. /\ IsValues(f) /\ DOMAIN full \subseteq DOMAIN f /\ (\A k \in DOMAIN full : k # "COMPOSE_FILE" => f[k] = full[k])
        /\ DOMAIN f \subseteq DOMAIN full \cup {"COMPOSE_FILE"}
        /\ with # {} => "COMPOSE_FILE" \in DOMAIN f /\ f["COMPOSE_FILE"] = saved
    <3>1. CASE with = {}
      BY <2>5, <3>1
    <3>2. CASE with # {}
      <4>1. f = OrElse(line, full)
        BY <2>5, <3>2, ValuesAreFile DEF Upserted
      <4> HIDE DEF f
      <4>2. IsValues(f)
        BY <2>5, <2>7, <4>1, ElseIsValues
      <4> QED BY <2>7, <4>1, <4>2 DEF OrElse
    <3> QED BY <3>1, <3>2
  <2>9. Saved(f, asked)
    <3>1. CASE with = {}
      BY <2>3, <2>5, <3>1, SavedKept
    <3>2. CASE with # {}
      <4>1. ReadEnv(f) = f
        BY <2>8, ValuesAreFile
      <4> HIDE DEF f
      <4> QED BY <2>6, <2>8, <3>2, <4>1 DEF Saved
    <3> QED BY <3>1, <3>2
  <2> HIDE DEF f
  <2>10. IsFile(f) /\ ReadEnv(f) = f
    BY <2>8, ValuesAreFile
  <2>11. c = "main" => MainFile(f)
    <3>1. ReadEnv(full) = full /\ "COMPOSE_FILE" \notin NameKeys
      BY <2>5, ValuesAreFile DEF NameKeys
    <3> QED BY <2>5, <2>8, <2>10, <3>1 DEF MainFile
  <2>12. c # "main" => PreparedFile(c, f, said)
    <3>1. SUFFICES ASSUME c # "main" PROVE PreparedFile(c, f, said)
      OBVIOUS
    <3>2. ReadEnv(earlier) = earlier
      BY <1>1, <2>3, <3>1, OwnNames
    <3>3. OwnKeys \subseteq DOMAIN earlier /\ "COMPOSE_FILE" \notin OwnKeys
      BY <2>3, <3>1 DEF OwnFile, OwnKeys, NameKeys, PortBase
    <3>4. OwnKeys \subseteq DOMAIN f /\ \A k \in OwnKeys : f[k] = earlier[k]
      BY <2>5, <2>8, <3>2, <3>3
    <3>5. OwnFile(f, c) /\ EnvContext(f, c) = EnvContext(earlier, c)
      BY <2>3, <3>1, <3>4, OwnKept
    <3> QED BY <1>1, <2>2, <2>4, <3>1, <3>5, WorksInWorktree DEF PreparedFile
  <2>13. told' = [w \in co.names |-> IF w = c THEN said ELSE told[w]]
    <3> HIDE DEF said
    <3> QED BY <2>1, <2>2
  <2> HIDE DEF asked, said
  <2> QED BY <1>1, <2>1, <2>9, <2>10, <2>11, <2>12, <2>13, SameVolumes, FileStep
<1> QED BY <1>2, <1>3

\* No step but those of the files disturbs them.
LEMMA SameFiles ==
  ASSUME CheckoutInv, UNCHANGED <<co, envFile, told, services>>,
         volumes' = [n \in DOMAIN volumes' |-> volumes'[n]],
         \A n \in DOMAIN volumes' : NameTells(n, volumes'[n]),
         \A l \in lost' : l.prepared => l.documents
  PROVE  CheckoutInv'
  BY CheckoutStep DEF CheckoutInv, CheckoutTypes

LEMMA CleanEnvKeeps ==
  ASSUME CheckoutInv, NEW c \in Checkout, CleanEnv(c)
  PROVE  CheckoutInv'
<1> DEFINE f == envFile[c]
<1>1. UNCHANGED <<co, envFile, told, services>> /\ co \in CheckoutCases
  BY DEF CleanEnv, Counted, CheckoutInv, CheckoutTypes
<1>2. volumes' = [n \in DOMAIN volumes' |-> volumes'[n]] /\ \A n \in DOMAIN volumes' : NameTells(n, volumes'[n])
  BY DEF CleanEnv, CheckoutInv
<1>3. ASSUME NEW l \in lost', l.prepared PROVE l.documents
  <2>1. CASE l \in lost
    BY <1>3, <2>1 DEF CheckoutInv, VolumesKept
  <2>2. CASE l \notin lost
    <3>1. PICK n \in DOMAIN volumes \cap CleanedVolumes(c) :
            /\ volumes[n] # c
            /\ l = [name |-> n, prepared |-> c = "main" \/ told[c] # NoReport, documents |-> n = Doclib(ReadEnv(envFile[c]))]
      BY <2>2 DEF CleanEnv
    <3>2. CASE n = Doclib(ReadEnv(f))
      BY <3>1, <3>2
    <3>3. CASE n # Doclib(ReadEnv(f))
      <4>1. PICK s \in Storages : n = VolumeName(ReadEnv(f), s)
        BY <3>1, <3>3 DEF CleanedVolumes, InVolumes
      <4>2. IF c = "main" THEN MainFile(f) ELSE OwnFile(f, c)
        <5>1. CASE c = "main"
          BY <5>1 DEF CheckoutInv
        <5>2. CASE c # "main"
          <6>1. c \in co.names
            BY <1>1, <5>2, MainApart
          <6>2. told[c] # NoReport
            BY <1>3, <3>1, <5>2
          <6> QED BY <5>2, <6>1, <6>2 DEF CheckoutInv, PreparedFile
        <5> QED BY <5>1, <5>2
      <4>3. NameTells(VolumeName(ReadEnv(f), s), volumes[n])
        BY <3>1, <4>1 DEF CheckoutInv
      <4>4. \/ n \in DoclibsOf(co)
            \/ volumes[n] \in Checkout
        BY <1>1, <4>1, <4>3, MainApart DEF NameTells
      <4>5. CASE volumes[n] \in Checkout
        BY <1>1, <3>1, <4>2, <4>3, <4>5, NamesAreOwn
      <4>6. CASE n \in DoclibsOf(co)
        <5>1. \A x \in Checkout : NameTells(VolumeName(ReadEnv(f), s), x)
          BY <4>1, <4>6 DEF NameTells
        <5>2. "main" \in Checkout
          BY DEF Checkout
        <5>3. c = "main"
          BY <1>1, <4>2, <5>1, <5>2, NamesAreOwn
        <5>4. n \in StoresOf(co)
          BY <1>1, <4>1, <4>2, <5>3, MainNames
        <5> QED BY <1>1, <4>6, <5>4, ChoiceWords
      <4> QED BY <4>4, <4>5, <4>6
    <3> QED BY <3>2, <3>3
  <2> QED BY <2>1, <2>2
<1> QED BY <1>1, <1>2, <1>3, SameFiles

LEMMA EditEnvKeeps ==
  ASSUME CheckoutInv, NEW e \in co.edits, EditEnv(e)
  PROVE  CheckoutInv'
<1> DEFINE c == e.in
           line == [k \in {e.k} |-> e.v]
           values == ReadEnv(envFile[c])
           f == OrElse(line, values)
           kept == IF e.k = "COMPOSE_FILE" THEN {} ELSE services[c]
<1>1. co' = co /\ UNCHANGED <<volumes, lost>> /\ co \in CheckoutCases
  BY DEF EditEnv, Counted, CheckoutInv, CheckoutTypes
<1>2. c \in Checkout /\ e.k # "absent" /\ IsWords(e.v)
  BY <1>1, TheCase DEF CheckoutOK, Checkout
<1>3. IsValues(values) /\ Saved(envFile[c], services[c])
  BY <1>2, FileIsValues DEF CheckoutInv, CheckoutTypes
<1>4. IsValues(line) /\ DOMAIN line = {e.k} /\ line[e.k] = e.v
  BY <1>2 DEF IsValues
<1>5. envFile' = [envFile EXCEPT ![c] = f] /\ services' = [services EXCEPT ![c] = kept]
      /\ told' = [w \in co.names |-> IF w = c THEN NoReport ELSE told[w]]
  BY <1>2 DEF EditEnv, CheckoutInv, CheckoutTypes
<1> HIDE DEF line
<1>6. /\ IsValues(f) /\ DOMAIN f = {e.k} \cup DOMAIN values
      /\ f[e.k] = e.v /\ \A k \in DOMAIN values : k # e.k => f[k] = values[k]
  <2>1. IsValues(f)
    BY <1>3, <1>4, ElseIsValues
  <2> HIDE DEF values
  <2> QED BY <1>4, <2>1 DEF OrElse
<1> HIDE DEF f
<1>7. IsFile(f) /\ ReadEnv(f) = f
  BY <1>6, ValuesAreFile
<1>8. ASSUME c = "main" PROVE MainFile(f)
  <2>1. MainFile(envFile[c])
    BY <1>8 DEF CheckoutInv
  <2>2. ASSUME NEW k \in NameKeys, k \in DOMAIN f PROVE f[k] \in GivenIn(co, k)
    <3>1. CASE k = e.k
      BY <1>6, <1>8, <3>1 DEF GivenIn
    <3>2. CASE k # e.k
      BY <1>6, <2>1, <2>2, <3>2 DEF MainFile
    <3> QED BY <3>1, <3>2
  <2> QED BY <1>7, <2>2 DEF MainFile
<1>9. Saved(f, kept)
  <2>1. CASE e.k = "COMPOSE_FILE"
    BY <2>1 DEF Saved
  <2>2. CASE e.k # "COMPOSE_FILE"
    <3>1. "COMPOSE_FILE" \in DOMAIN values => "COMPOSE_FILE" \in DOMAIN f /\ f["COMPOSE_FILE"] = values["COMPOSE_FILE"]
      BY <1>6, <2>2
    <3> QED BY <1>3, <1>6, <2>2, <3>1, SavedKept
  <2> QED BY <2>1, <2>2
<1> HIDE DEF kept, values, c
<1> QED BY <1>1, <1>2, <1>5, <1>7, <1>8, <1>9, SameVolumes, FileStep

LEMMA CheckoutKeeps == CheckoutInv /\ [CheckoutNext]_checkoutVars => CheckoutInv'
<1> SUFFICES ASSUME CheckoutInv, [CheckoutNext]_checkoutVars PROVE CheckoutInv'
  OBVIOUS
<1>1. \A l \in lost : l.prepared => l.documents
  BY DEF CheckoutInv, VolumesKept
<1>2. CASE \E c \in Checkout : InitEnv(c)
  BY <1>2, InitEnvKeeps
<1>3. CASE \E c \in Checkout : StartEnv(c)
  BY <1>3, StartEnvKeeps
<1>4. CASE \E c \in Checkout : StopEnv(c)
  <2>1. UNCHANGED <<co, envFile, told, services, volumes, lost>>
    BY <1>4 DEF StopEnv, Counted
  <2> QED BY <1>1, <2>1, SameVolumes, SameFiles
<1>5. CASE \E c \in Checkout : CleanEnv(c)
  BY <1>5, CleanEnvKeeps
<1>6. CASE \E c \in Checkout, with \in co.with : SetupEnv(c, with)
  BY <1>6, SetupEnvKeeps
<1>7. CASE \E e \in co.edits : EditEnv(e)
  BY <1>7, EditEnvKeeps
<1>8. CASE EditProfile("main")
  <2>1. UNCHANGED <<co, envFile, told, services, volumes, lost>>
    BY <1>8 DEF EditProfile, Counted
  <2> QED BY <1>1, <2>1, SameVolumes, SameFiles
<1>9. CASE UNCHANGED checkoutVars
  <2>1. UNCHANGED <<co, envFile, told, services, volumes, lost>>
    BY <1>9 DEF checkoutVars
  <2> QED BY <1>1, <2>1, SameVolumes, SameFiles
<1> QED BY <1>2, <1>3, <1>4, <1>5, <1>6, <1>7, <1>8, <1>9 DEF CheckoutNext

\* The checkout that a command works on is the one it is given in.
LEMMA RepoIsOwn ==
  ASSUME co \in CheckoutCases, NEW c \in Checkout, NEW root \in BOOLEAN,
         c = "main" \/ ("liferay" \in co.branch /\ (root \/ co.inside \/ "docker" \in co.branch))
  PROVE  RepoOf(Dir(c, root)) = c /\ c # "none" /\ (c # "main" => IsOverlay(c)) /\ (c # "main" /\ root => WorktreeOf(Dir(c, root)) = c)
<1> DEFINE d == Dir(c, root)
<1>1. /\ d.in = c /\ d.root = root /\ Dir(c, TRUE).in = c /\ Dir(c, TRUE).root = TRUE
      /\ "main" \notin co.names /\ "none" \notin co.names /\ (c # "main" => c \in co.names) /\ c # "none"
  BY MainApart, ChoiceWords DEF Dir
<1>2. c = "main" \/ "docker" \in co.branch => DetectRepo(d) = c
  BY <1>1 DEF DetectRepo, HasCompose, HasLiferay
<1>3. CASE c = "main"
  <2>1. DetectRepo(d) = "main" /\ LinkedAt(d) = "none" /\ LinkedAt(Dir("main", TRUE)) = "none"
    BY <1>1, <1>2, <1>3 DEF LinkedAt
  <2>2. WorktreeOf(d) = "none"
    BY <2>1 DEF WorktreeOf
  <2> HIDE DEF d
  <2>3. RepoOf(d) = "main"
    BY <2>1, <2>2 DEF RepoOf, IsOverlay
  <2> QED BY <1>1, <1>3, <2>3 DEF d
<1>4. CASE c # "main"
  <2>1. IsOverlay(c)
    BY <1>1, <1>4 DEF IsOverlay, HasLiferay
  <2>2. WorktreeOf(d) = c
    <3>1. CASE root \/ co.inside
      <4>1. LinkedAt(d) = c
        BY <1>1, <1>4, <3>1 DEF LinkedAt
      <4> QED BY <1>1, <4>1 DEF WorktreeOf
    <3>2. CASE ~(root \/ co.inside)
      <4>1. LinkedAt(d) = "none" /\ LinkedAt(Dir(c, TRUE)) = c
        BY <1>1, <1>4, <3>2 DEF LinkedAt
      <4>2. DetectRepo(d) = c
        BY <1>2, <1>4, <3>2
      <4> QED BY <1>1, <4>1, <4>2 DEF WorktreeOf
    <3> QED BY <3>1, <3>2
  <2> HIDE DEF d
  <2>3. RepoOf(d) = c
    BY <2>1, <2>2 DEF RepoOf
  <2> QED BY <1>1, <2>1, <2>2, <2>3 DEF d
<1> QED BY <1>3, <1>4

LEMMA ContextHolds ==
  ASSUME CheckoutInv
  PROVE  ContextIsOwn
<1> SUFFICES ASSUME NEW c \in Checkout, NEW root \in BOOLEAN,
                    c = "main" \/ ("liferay" \in co.branch /\ (root \/ co.inside \/ "docker" \in co.branch))
             PROVE  LET x == Context(Dir(c, root), <<>>) IN x.root = c /\ x.env \in {c, "none"} /\ x.local \in {c, "none"}
  BY DEF ContextIsOwn
<1>1. RepoOf(Dir(c, root)) = c
  BY RepoIsOwn DEF CheckoutInv, CheckoutTypes
<1> QED BY <1>1 DEF Context

\* The values of a file of a worktree that was prepared, as the portal's commands find them.
LEMMA OwnUrl ==
  ASSUME NEW f, IsValues(f), NEW w, OwnFile(f, w)
  PROVE  /\ ReadEnv(f) = f /\ "LIFERAY_CLI_URL" \in DOMAIN f /\ "COMPOSE_PROJECT_NAME" \in DOMAIN f
         /\ f["LIFERAY_CLI_URL"] = EnvContext(f, w).url /\ f["LIFERAY_CLI_URL"] # <<>>
<1> DEFINE port == PortSet(w)["LIFERAY_HTTP_PORT"]
<1>1. {"LIFERAY_CLI_URL", "COMPOSE_PROJECT_NAME", "BIND_IP", "LIFERAY_HTTP_PORT"} \subseteq OwnKeys
      /\ "LIFERAY_HTTP_PORT" \in DOMAIN PortBase
  BY DEF OwnKeys, NameKeys, PortBase
<1>2. /\ {"LIFERAY_CLI_URL", "COMPOSE_PROJECT_NAME", "BIND_IP", "LIFERAY_HTTP_PORT"} \subseteq DOMAIN f
      /\ f["BIND_IP"] # <<>> /\ f["LIFERAY_HTTP_PORT"] = port /\ f["LIFERAY_CLI_URL"] = Url(f["BIND_IP"], port)
  BY <1>1 DEF OwnFile
<1>3. ReadEnv(f) = f
  BY ValuesAreFile
<1>4. IsWords(port) /\ port # <<>>
  BY <1>1, OneWord DEF PortSet
<1> HIDE DEF port
<1>5. EnvContext(f, w).url = Url(f["BIND_IP"], port)
  BY <1>2, <1>3, <1>4 DEF EnvContext, Get, FirstGiven
<1>6. Url(f["BIND_IP"], port) # <<>>
  <2>1. IsWords(f["BIND_IP"])
    BY <1>2 DEF IsValues
  <2>2. IsWords(<<"http">>) /\ Len(<<"http">>) = 1
    BY OneWord
  <2>3. IsWords(<<"http">> \o f["BIND_IP"]) /\ Len(<<"http">> \o f["BIND_IP"]) = Len(<<"http">>) + Len(f["BIND_IP"])
    BY <2>1, <2>2, WordsJoin
  <2>4. Len((<<"http">> \o f["BIND_IP"]) \o port) = Len(<<"http">> \o f["BIND_IP"]) + Len(port)
    BY <1>4, <2>3, WordsJoin
  <2>5. Len(f["BIND_IP"]) \in Nat /\ Len(port) \in Nat
    BY <1>4, <2>1 DEF IsWords
  <2>6. Len(Url(f["BIND_IP"], port)) > 0
    BY <2>2, <2>3, <2>4, <2>5 DEF Url
  <2> QED BY <2>6
<1> QED BY <1>2, <1>3, <1>5, <1>6

LEMMA ResolvedHolds ==
  ASSUME CheckoutInv
  PROVE  PreparedIsResolved
<1> SUFFICES ASSUME NEW w \in co.names, told[w] # NoReport
             PROVE  LET x == Context(Dir(w, TRUE), <<>>)
                    IN /\ EnvContext(envFile[w], w) = told[w]
                       /\ x.project = told[w].project /\ Listed(w).project = told[w].project
                       /\ localUrl[w] \in {NoProfile, <<>>} => x.url = told[w].url
  BY DEF PreparedIsResolved
<1> DEFINE f == envFile[w]
           d == Dir(w, TRUE)
<1>1. /\ co \in CheckoutCases /\ w \in Checkout /\ w # "main" /\ OwnFile(f, w) /\ "liferay" \in co.branch
      /\ told[w] = EnvContext(f, w) /\ IsFile(f)
  BY MainApart DEF CheckoutInv, CheckoutTypes, PreparedFile
<1>2. IsValues(f) /\ ReadEnv(f) = f
  BY <1>1, FileIsValues, OwnNames
<1>3. RepoOf(d) = w /\ w # "none" /\ IsOverlay(w) /\ WorktreeOf(d) = w
  BY <1>1, RepoIsOwn, TRUE \in BOOLEAN
<1>4. PICK p \in ProjectsOf(co) : ProjectName(f) = p \o <<w>>
  BY <1>1, OwnNames
<1>5. ProjectName(f) # <<>> /\ "COMPOSE_PROJECT_NAME" \in DOMAIN f /\ "LIFERAY_CLI_URL" \in DOMAIN f
      /\ f["LIFERAY_CLI_URL"] = told[w].url /\ f["LIFERAY_CLI_URL"] # <<>> /\ told[w].project = ProjectName(f)
  <2>1. IsWords(p)
    BY <1>1, ChoiceWords
  <2>2. told[w].project = ProjectName(f)
    BY <1>1, <1>2 DEF EnvContext
  <2> QED BY <1>1, <1>2, <1>4, <2>1, <2>2, WordAdded, OwnUrl
<1>6. f["COMPOSE_PROJECT_NAME"] = ProjectName(f)
  <2>1. \E q \in ProjectsOf(co) : f["COMPOSE_PROJECT_NAME"] = q \o <<w>>
    BY <1>1 DEF OwnFile
  <2>2. f["COMPOSE_PROJECT_NAME"] # <<>>
    BY <1>1, <2>1, WordAdded, ChoiceWords
  <2> QED BY <1>5, <2>2 DEF ProjectName, Get, FirstGiven
<1> HIDE DEF f, d
<1>7. /\ {"COMPOSE_PROJECT_NAME", "LIFERAY_CLI_URL"} \subseteq DOMAIN DockerEnv(d)
      /\ DockerEnv(d)["COMPOSE_PROJECT_NAME"] = ProjectName(f) /\ DockerEnv(d)["LIFERAY_CLI_URL"] = told[w].url
  <2>1. \E g : DockerEnv(d) = OrElse(f, g)
    <3>1. ReadEnv(IF RepoOf(d) = "none" THEN NoFile ELSE envFile[RepoOf(d)]) = f
      BY <1>2, <1>3 DEF f
    <3> QED BY <1>3, <3>1 DEF DockerEnv
  <2>2. PICK g : DockerEnv(d) = OrElse(f, g)
    BY <2>1
  <2> QED BY <1>5, <1>6, <2>2 DEF OrElse
<1>8. Context(d, <<>>).project = ProjectName(f)
  <2>1. Context(d, <<>>).project = ProjectName(DockerEnv(d))
    BY DEF Context
  <2>2. ProjectName(DockerEnv(d)) = ProjectName(f)
    BY <1>5, <1>7 DEF ProjectName, Get, FirstGiven
  <2> QED BY <2>1, <2>2
<1>9. Listed(w).project = ProjectName(f)
  BY <1>2, <1>5, <1>6 DEF Listed, f
<1>10. ASSUME localUrl[w] \in {NoProfile, <<>>} PROVE Context(d, <<>>).url = told[w].url
  <2>1. Context(d, <<>>).url = ResolvedUrl(DockerEnv(d), localUrl[w], <<>>)
    BY <1>3 DEF Context
  <2>2. ResolvedUrl(DockerEnv(d), localUrl[w], <<>>) = told[w].url
    BY <1>5, <1>7, <1>10 DEF ResolvedUrl, FirstGiven, Get
  <2> QED BY <2>1, <2>2
<1> QED BY <1>1, <1>5, <1>8, <1>9, <1>10 DEF f, d

LEMMA ServicesHold ==
  ASSUME CheckoutInv
  PROVE  ServicesKept
<1> SUFFICES ASSUME NEW c \in Checkout, services[c] # {}
             PROVE  services[c] \subseteq ComposeFiles(ReadEnv(envFile[c]), {})
  BY DEF ServicesKept
<1> DEFINE v == ReadEnv(envFile[c])
<1>1. "COMPOSE_FILE" \in DOMAIN v /\ services[c] \subseteq ToSet(v["COMPOSE_FILE"])
  BY DEF CheckoutInv, Saved
<1>2. v["COMPOSE_FILE"] # <<>>
  BY <1>1, WordsEmpty
<1>3. FirstGiven(Get(v, "COMPOSE_FILE"), <<"liferay">>) = v["COMPOSE_FILE"]
  BY <1>1, <1>2 DEF FirstGiven, Get
<1> HIDE DEF v
<1>4. ToSet(v["COMPOSE_FILE"]) \subseteq ComposeFiles(v, {})
  BY <1>3 DEF ComposeFiles
<1> QED BY <1>1, <1>4 DEF v

\* Every name of a prepared worktree has its own in it, and no other worktree's.
LEMMA WorktreeWords ==
  ASSUME co \in CheckoutCases, NEW c \in co.names, NEW f, OwnFile(f, c)
  PROVE  \A v \in {ProjectName(f), DataRoot(c, Get(f, "ENV_DATA_ROOT"))} \cup {VolumeName(f, s) : s \in Storages} :
           ToSet(v) \cap co.names = {c}
<1>1. PICK p \in ProjectsOf(co) : ProjectName(f) = p \o <<c>> /\ \A s \in Storages : VolumeName(f, s) = StoreName(p, c, s)
  BY OwnNames
<1>2. IsWords(p) /\ ToSet(p) \cap co.names = {} /\ co.names \cap (Storages \cup {"main", "none", "/", "data", "envs", "default"}) = {}
  BY ChoiceWords
<1>3. ToSet(ProjectName(f)) \cap co.names = {c}
  <2>1. ToSet(p \o <<c>>) = ToSet(p) \cup {c}
    BY <1>2, WordAdded
  <2> QED BY <1>1, <1>2, <2>1
<1>4. ASSUME NEW s \in Storages PROVE ToSet(VolumeName(f, s)) \cap co.names = {c}
  <2>1. ToSet(StoreName(p, c, s)) = ToSet(p) \cup {c, s}
    BY <1>2, StoreNameWords
  <2> QED BY <1>1, <1>2, <2>1
<1>5. ToSet(DataRoot(c, Get(f, "ENV_DATA_ROOT"))) \cap co.names = {c}
  <2>1. Get(f, "ENV_DATA_ROOT") = WorktreeRoot(c)
    <3>1. "ENV_DATA_ROOT" \in OwnKeys
      BY DEF OwnKeys, NameKeys
    <3> QED BY <3>1 DEF OwnFile, Get
  <2>2. DataRoot(c, WorktreeRoot(c)) = <<"/", c, "data", "envs", c>>
    <3>1. WorktreeRoot(c) # <<>> /\ Head(WorktreeRoot(c)) = "/"
      BY DEF WorktreeRoot
    <3> QED BY <3>1 DEF DataRoot, WorktreeRoot
  <2>3. ToSet(<<"/", c, "data", "envs", c>>) = {"/", c, "data", "envs"}
    <3>1. DOMAIN <<"/", c, "data", "envs", c>> = 1 .. 5
      OBVIOUS
    <3> QED BY <3>1 DEF ToSet
  <2> QED BY <1>2, <2>1, <2>2, <2>3
<1> QED BY <1>3, <1>4, <1>5

\* No name of main has that of a worktree in it.
LEMMA MainWords ==
  ASSUME co \in CheckoutCases, NEW f, MainFile(f)
  PROVE  \A v \in {ProjectName(ReadEnv(f)), DataRoot("main", Get(ReadEnv(f), "ENV_DATA_ROOT"))}
                  \cup {VolumeName(ReadEnv(f), s) : s \in Storages} : ToSet(v) \cap co.names = {}
<1> DEFINE root == Get(ReadEnv(f), "ENV_DATA_ROOT")
<1>1. ToSet(ProjectName(ReadEnv(f))) \cap co.names = {} /\ \A s \in Storages : ToSet(VolumeName(ReadEnv(f), s)) \cap co.names = {}
  BY MainNames, ChoiceWords
<1>2. ToSet(DataRoot("main", root)) \cap co.names = {}
  <2>1. root = <<>> \/ root \in RootsOf(co)
    BY MainNames
  <2>2. co.names \cap {"main", "/", "data", "default"} = {}
    BY ChoiceWords
  <2> HIDE DEF root
  <2>3. CASE root = <<>>
    <3>1. DataRoot("main", root) = <<"/", "main", "data", "default">>
      BY <2>3 DEF DataRoot
    <3>2. DOMAIN <<"/", "main", "data", "default">> = 1 .. 4
      OBVIOUS
    <3>3. ToSet(<<"/", "main", "data", "default">>) = {"/", "main", "data", "default"}
      BY <3>2 DEF ToSet
    <3> QED BY <2>2, <3>1, <3>3
  <2>4. CASE root # <<>>
    <3>1. IsWords(root) /\ ToSet(root) \cap co.names = {}
      BY <2>1, <2>4, ChoiceWords
    <3>2. CASE Head(root) # "."
      BY <2>4, <3>1, <3>2 DEF DataRoot
    <3>3. CASE Head(root) = "."
      <4>1. root \in Seq(ToSet(root))
        BY <3>1, WordsAreSeq
      <4>2. Tail(root) \in Seq(ToSet(root))
        BY <2>4, <4>1
      <4>3. IsWords(Tail(root)) /\ ToSet(Tail(root)) \subseteq ToSet(root)
        <5> DEFINE t == Tail(root)
        <5>1. DOMAIN t = 1 .. Len(t) /\ \A i \in 1 .. Len(t) : t[i] \in ToSet(root)
          BY <4>2
        <5> HIDE DEF t
        <5>2. ToSet(t) \subseteq ToSet(root)
          BY <5>1 DEF ToSet
        <5> QED BY <4>2, <5>2, SeqIsWords DEF t
      <4>4. IsWords(<<"/", "main">>) /\ ToSet(<<"/", "main">>) = {"/", "main"}
        <5>1. <<"/", "main">> \in Seq({"/", "main"}) /\ DOMAIN <<"/", "main">> = 1 .. 2
          OBVIOUS
        <5>2. ToSet(<<"/", "main">>) = {"/", "main"}
          BY <5>1 DEF ToSet
        <5> QED BY <5>1, <5>2, SeqIsWords
      <4>5. ToSet(<<"/", "main">> \o Tail(root)) = {"/", "main"} \cup ToSet(Tail(root))
        BY <4>3, <4>4, WordsJoin
      <4>6. DataRoot("main", root) = <<"/", "main">> \o Tail(root)
        BY <2>4, <3>3 DEF DataRoot
      <4> QED BY <2>2, <3>1, <4>3, <4>5, <4>6
    <3> QED BY <3>2, <3>3
  <2> QED BY <2>3, <2>4
<1> QED BY <1>1, <1>2

LEMMA PortsApart ==
  ASSUME co \in CheckoutCases, NEW c \in co.names, NEW w \in co.names, Offset(c) # Offset(w), NEW k \in DOMAIN PortBase
  PROVE  PortSet(c)[k] # PortSet(w)[k]
<1>1. Offset(c) \in Nat /\ Offset(w) \in Nat
  BY TheCase DEF Offset, CheckoutOK
<1>2. PortBase[k] \in Nat
  BY DEF PortBase
<1>3. PortBase[k] + Offset(c) # PortBase[k] + Offset(w)
  BY <1>1, <1>2
<1>4. PortSet(c)[k] = <<PortBase[k] + Offset(c)>> /\ PortSet(w)[k] = <<PortBase[k] + Offset(w)>>
  BY DEF PortSet
<1> HIDE DEF PortBase
<1> QED BY <1>3, <1>4

LEMMA WorktreesHold ==
  ASSUME CheckoutInv
  PROVE  WorktreesApart
<1> SUFFICES ASSUME NEW c \in Checkout, NEW w \in co.names, told[w] # NoReport, c # w, c \in co.names => told[c] # NoReport
             PROVE  /\ OwnResources(c) \cap OwnResources(w) = {}
                    /\ c \in co.names /\ Offset(c) # Offset(w) =>
                         \A k \in DOMAIN PortBase : ReadEnv(envFile[c])[k] # ReadEnv(envFile[w])[k]
  BY DEF WorktreesApart
<1>1. co \in CheckoutCases /\ (c # "main" => c \in co.names) /\ "main" \notin co.names
  BY MainApart DEF CheckoutInv, CheckoutTypes
<1>2. ASSUME NEW x \in co.names, told[x] # NoReport PROVE OwnFile(envFile[x], x) /\ ReadEnv(envFile[x]) = envFile[x]
  BY <1>1, <1>2, OwnNames DEF CheckoutInv, PreparedFile
<1>3. ASSUME NEW x \in co.names, told[x] # NoReport, NEW v \in OwnResources(x) PROVE ToSet(v) \cap co.names = {x}
  <2>1. OwnFile(envFile[x], x) /\ ReadEnv(envFile[x]) = envFile[x]
    BY <1>2, <1>3
  <2> QED BY <1>1, <1>3, <2>1, WorktreeWords DEF OwnResources
<1>4. ASSUME NEW v \in OwnResources("main") PROVE ToSet(v) \cap co.names = {}
  BY <1>1, <1>4, MainWords DEF OwnResources, CheckoutInv
<1>5. OwnResources(c) \cap OwnResources(w) = {}
  <2>1. SUFFICES ASSUME NEW v \in OwnResources(c), v \in OwnResources(w) PROVE FALSE
    OBVIOUS
  <2>2. ToSet(v) \cap co.names = {w}
    BY <1>3, <2>1
  <2>3. CASE c = "main"
    BY <1>4, <2>2, <2>3
  <2>4. CASE c # "main"
    <3>1. ToSet(v) \cap co.names = {c}
      BY <1>1, <1>3, <2>4
    <3> QED BY <2>2, <3>1
  <2> QED BY <2>3, <2>4
<1>6. ASSUME c \in co.names, Offset(c) # Offset(w), NEW k \in DOMAIN PortBase
      PROVE  ReadEnv(envFile[c])[k] # ReadEnv(envFile[w])[k]
  <2>1. ReadEnv(envFile[c])[k] = PortSet(c)[k] /\ ReadEnv(envFile[w])[k] = PortSet(w)[k]
    <3>1. OwnFile(envFile[c], c) /\ OwnFile(envFile[w], w)
      BY <1>2, <1>6
    <3>2. envFile[c][k] = PortSet(c)[k] /\ envFile[w][k] = PortSet(w)[k]
      BY <1>6, <3>1 DEF OwnFile
    <3> QED BY <1>2, <1>6, <3>2
  <2> QED BY <1>1, <1>6, <2>1, PortsApart
<1> QED BY <1>5, <1>6

\* Whatever main gives its own, a prepared worktree keeps to what is its own.
LEMMA CheckoutsHold ==
  ASSUME CheckoutInv
  PROVE  CheckoutsAreApart
  BY ContextHolds, ResolvedHolds, WorktreesHold, ServicesHold DEF CheckoutsAreApart, CheckoutInv

-----------------------------------------------------------------------------
(* Proved for any number of clients: a stream is open exactly as long as    *)
(* its follower runs, and nothing comes after its end.                      *)
Ending == {"end", "refused"}
\* The end is the last thing a reader hears.
SaysTheEnd(r) == r # <<>> /\ Last(r) = "end"
\* What the server keeps of each request.
StreamTypes ==
  /\ streamPc \in [Requests -> {"off", "asked", "open", "refused", "closed"}]
  /\ client \in [Requests -> BOOLEAN] /\ heard \in [Requests -> BOOLEAN]
  /\ follower \in [Requests -> {"none", "running", "killed", "failed", "exited"}]
  /\ response \in [Requests -> Seq({"meta", "chunk", "keepalive", "error"} \cup Ending)]
\* A request that has ended has said so, and nothing after it.
StreamAt(s) ==
  /\ Is(s, "open") <=> follower[s] = "running"
  /\ Is(s, "open") /\ heard[s] => client[s]
  /\ Is(s, "asked") => response[s] = <<>>
  /\ Is(s, "open") => \A i \in DOMAIN response[s] : response[s][i] \notin Ending
  /\ \A i \in DOMAIN response[s] : response[s][i] \in Ending => i = Len(response[s])
  /\ follower[s] = "failed" \/ (follower[s] = "exited" /\ client[s]) => SaysTheEnd(response[s])
  /\ follower[s] = "killed" => ~client[s]
\* Of every request.
StreamInv == StreamTypes /\ \A s \in Requests : StreamAt(s)

\* Each step keeps it, of the request that takes it.
LEMMA StreamKeeps ==
  ASSUME StreamInv, NEW s \in Requests,
         RefuseStream(s) \/ NoContainer(s) \/ OpenStream(s) \/ WriteChunk(s)
           \/ FollowerError(s) \/ FollowerCloses(s) \/ ClientLeaves(s)
  PROVE  StreamInv'
<1> DEFINE r == response[s]
<1> USE DEF Is
<1>1. /\ StreamTypes /\ StreamAt(s) /\ r \in Seq({"meta", "chunk", "keepalive", "error"} \cup Ending)
      /\ DOMAIN r = 1 .. Len(r) /\ Len(r) \in Nat
  BY DEF StreamInv, StreamTypes
<1>2. StreamTypes' /\ StreamAt(s)'
  <2> USE DEF StreamTypes, StreamAt, StreamGoes, WriteEvents, Ending, SaysTheEnd, Requests, Last
  <2>1. CASE RefuseStream(s)
    BY <1>1, <2>1 DEF RefuseStream
  <2>2. CASE NoContainer(s)
    BY <1>1, <2>2 DEF NoContainer
  <2>3. CASE OpenStream(s)
    BY <1>1, <2>3 DEF OpenStream
  <2>4. ASSUME WriteChunk(s), NEW e \in {"chunk", "keepalive"}, WriteEvents(s, <<e>>)
        PROVE  StreamTypes' /\ StreamAt(s)'
    BY <1>1, <2>4 DEF WriteChunk
  <2>5. CASE FollowerError(s)
    BY <1>1, <2>5 DEF FollowerError
  <2>6. CASE FollowerCloses(s) /\ Is(s, "open")
    <3>1. /\ streamPc' = [streamPc EXCEPT ![s] = "closed"] /\ follower' = [follower EXCEPT ![s] = "exited"]
          /\ response' = [response EXCEPT ![s] = r \o <<"end">>] /\ UNCHANGED <<stream, client, heard>>
      BY <2>6 DEF FollowerCloses
    <3>2. r \o <<"end">> \in Seq({"meta", "chunk", "keepalive", "error"} \cup Ending)
      BY <1>1
    <3>3. StreamTypes'
      BY <1>1, <3>1, <3>2
    <3>4. /\ response'[s] = r \o <<"end">> /\ streamPc'[s] = "closed" /\ follower'[s] = "exited"
          /\ client'[s] = client[s]
      BY <1>1, <3>1
    <3>5. \A i \in DOMAIN response'[s] : response'[s][i] \in Ending => i = Len(response'[s])
      BY <1>1, <2>6, <3>4
    <3>6. SaysTheEnd(response'[s])
      BY <1>1, <3>4
    <3> QED BY <3>3, <3>4, <3>5, <3>6
  <2>7. CASE FollowerCloses(s) /\ ~Is(s, "open")
    BY <1>1, <2>7 DEF FollowerCloses
  <2>8. CASE ClientLeaves(s) /\ heard[s] /\ Is(s, "open")
    BY <1>1, <2>8 DEF ClientLeaves
  <2>9. CASE ClientLeaves(s) /\ ~(heard[s] /\ Is(s, "open"))
    BY <1>1, <2>9 DEF ClientLeaves
  <2> QED BY <2>1, <2>2, <2>3, <2>4, <2>5, <2>6, <2>7, <2>8, <2>9 DEF WriteChunk
<1>3. \A t \in Requests \ {s} :
        /\ streamPc'[t] = streamPc[t] /\ client'[t] = client[t] /\ heard'[t] = heard[t]
        /\ follower'[t] = follower[t] /\ response'[t] = response[t]
  BY <1>1 DEF StreamTypes, StreamGoes, WriteEvents, RefuseStream, NoContainer, OpenStream, WriteChunk,
              FollowerError, FollowerCloses, ClientLeaves
<1>4. Requests' = Requests
  BY DEF Requests, RefuseStream, NoContainer, OpenStream, WriteChunk, FollowerError, FollowerCloses, ClientLeaves
<1> QED BY <1>2, <1>3, <1>4 DEF StreamInv, StreamAt, Ending, SaysTheEnd, Last

\* At the start nothing is open.
LEMMA StreamStarts ==
  ASSUME NEW pc \in {"asked", "off"}, StreamStart(pc)
  PROVE  StreamInv
BY DEF StreamStart, StreamInv, StreamTypes, StreamAt, Is, Ending, SaysTheEnd

\* A step of one request leaves the others alone.
LEMMA StreamsKeep ==
  ASSUME StreamInv, [StreamNext]_streamVars
  PROVE  StreamInv'
<1>1. CASE UNCHANGED streamVars
  BY <1>1 DEF streamVars, StreamInv, StreamTypes, StreamAt, Is, Ending, SaysTheEnd, Requests
<1> QED BY <1>1, StreamKeeps DEF StreamNext

\* And it says how streams end.
LEMMA StreamsHold == StreamInv => StreamsEnd
BY DEF StreamInv, StreamTypes, StreamAt, StreamsEnd, Is, Ending, SaysTheEnd

(* Every log stream ends as StreamsEnd says, for any number of clients that come and leave, *)
(* containers that stop and followers that fail (handleWorktreeLogStream).                  *)
THEOREM StreamsAreEnded == StreamSpec => []StreamsEnd
<1>1. StreamInit => StreamInv
  BY StreamStarts DEF StreamInit
<1> QED BY <1>1, StreamsKeep, StreamsHold, PTL DEF StreamSpec

-----------------------------------------------------------------------------
(* The commands together: each behaviour runs one of them, and the others   *)
(* stay at their end.                                                       *)
SiteCommandInv == RedirectInv /\ BatchInv /\ SiteInv /\ OauthInv
\* Of what is imported to the resources of a site.
DefinitionInv == ImportInv /\ FragmentInv /\ ObjectInv /\ StyleInv
\* Of the workspace.
ProjectInv == CheckoutInv /\ ExtensionInv /\ LibraryInv /\ ScaffoldInv /\ StreamInv
\* Of all of them.
CommandInv == SiteCommandInv /\ DefinitionInv /\ ProjectInv

\* The invariants together.
LEMMA CommandsStart == Init => CommandInv
<1> SUFFICES ASSUME Init PROVE CommandInv
  OBVIOUS
<1>1. /\ \E pc \in {"start", "off"} : RedirectStart(pc)
      /\ \E pc \in {"start", "off"} : BatchStart(pc)
      /\ \E pc \in {"start", "off"} : SiteStart(pc)
      /\ \E pc \in {"start", "off"} : OauthStart(pc)
  <2>1. SiteCommandInit \/ NoSiteCommand
    BY DEF Init
  <2> QED BY <2>1 DEF SiteCommandInit, NoSiteCommand, NoRedirect, NoBatch, NoSiteInit, NoOauth,
                      RedirectInit, BatchInit, SiteInit, OauthInit
<1>2. /\ \E pc \in {"start", "off"} : ImportStart(pc)
      /\ \E pc \in {"start", "off"} : FragmentStart(pc)
      /\ \E pc \in {"start", "off"} : ObjectStart(pc)
      /\ \E pc \in {"start", "off"} : StyleStart(pc)
  <2>1. ResourceInit \/ NoResource
    BY DEF Init
  <2> QED BY <2>1 DEF ResourceInit, NoResource, NoImport, NoFragments, NoObject, NoStyle,
                      ImportInit, FragmentInit, ObjectInit, StyleInit
<1>3. ProjectInv
  <2>1. WorkspaceInit \/ NoWorkspace
    BY DEF Init
  <2> USE DEF WorkspaceInit, NoWorkspace, NoFiles, NoFollow
  <2>2. \E pc \in {"start", "off"}, r \in Nat : ExtensionStart(pc, r)
    <3>1. ExtensionRuns \in Nat /\ 0 \in Nat
      BY ExtensionAssumption
    <3> QED BY <2>1, <3>1 DEF ExtensionInit, NoExtension
  <2>3. \E pc \in {"idle", "off"}, f \in Nat, k \in Nat : LibraryStart(pc, f, k)
    <3>1. LibraryFaults \in Nat /\ LibraryKills \in Nat /\ 0 \in Nat
      BY LibraryAssumption
    <3> QED BY <2>1, <3>1 DEF LibraryInit, NoLibrary
  <2>4. \E pc \in {"start", "off"}, f \in Nat : ScaffoldStart(pc, f)
    <3>1. ScaffoldFaults \in Nat /\ 0 \in Nat
      BY ScaffoldAssumption
    <3> QED BY <2>1, <3>1 DEF ScaffoldInit, NoProject
  <2>5. \E pc \in {"asked", "off"} : StreamStart(pc)
    BY <2>1 DEF StreamInit, NoStream
  <2>6. \E r \in Nat : CheckoutStart(r)
    <3>1. CheckoutRuns \in Nat /\ 0 \in Nat
      BY CheckoutAssumption
    <3> QED BY <2>1, <3>1 DEF CheckoutInit, NoCheckout
  <2> QED BY <2>2, <2>3, <2>4, <2>5, <2>6, CheckoutStarts, ExtensionStarts, LibraryHolds, ScaffoldHolds, StreamStarts DEF ProjectInv
<1> QED BY <1>1, <1>2, <1>3, RedirectStarts, BatchStarts, SiteStarts, OauthStarts,
           ImportStarts, FragmentsStart, ObjectStarts, StyleStarts
        DEF CommandInv, SiteCommandInv, DefinitionInv

\* A step of one command leaves the others alone.
LEMMA CommandsKeep == CommandInv /\ [Next]_Vars => CommandInv'
<1> SUFFICES ASSUME CommandInv, [Next]_Vars PROVE CommandInv'
  OBVIOUS
<1>1. SiteCommandInv'
  <2>1. \/ SiteCommandNext
        \/ UNCHANGED siteCommandVars
    BY DEF Next, Vars
  <2>2. /\ [RedirectNext]_redirVars /\ [BatchNext]_batchVars
        /\ [SiteNext]_siteVars /\ [OauthNext]_oauthVars
    BY <2>1 DEF SiteCommandNext, siteCommandVars
  <2> QED BY <2>2, RedirectKeeps, BatchKeeps, SiteKeeps, OauthKeeps DEF CommandInv, SiteCommandInv
<1>2. DefinitionInv'
  <2>1. \/ ResourceNext
        \/ UNCHANGED resourceVars
    BY DEF Next, Vars
  <2>2. /\ [ImportNext]_importVars /\ [FragmentNext]_fragmentVars
        /\ [ObjectNext]_objectVars /\ [StyleNext]_styleVars
    BY <2>1 DEF ResourceNext, resourceVars
  <2> QED BY <2>2, ImportKeeps, FragmentsKeep, ObjectKeeps, StyleKeeps DEF CommandInv, DefinitionInv
<1>3. ProjectInv'
  <2>1. \/ WorkspaceNext
        \/ UNCHANGED workspaceVars
    BY DEF Next, Vars
  <2>2. /\ [CheckoutNext]_checkoutVars /\ [ExtensionNext]_extensionVars /\ [LibraryNext]_libraryVars
        /\ [ScaffoldNext]_scaffoldVars /\ [StreamNext]_streamVars
    BY <2>1 DEF WorkspaceNext, workspaceVars, fileVars, followVars
  <2> QED BY <2>2, CheckoutKeeps, ExtensionKeeps, LibraryHolds, ScaffoldHolds, StreamsKeep DEF CommandInv, ProjectInv
<1> QED BY <1>1, <1>2, <1>3 DEF CommandInv

\* So all of them always hold.
LEMMA CommandInvariant == Spec => []CommandInv
  BY CommandsStart, CommandsKeep, PTL DEF Spec

(* Whatever file is brought to whatever site, with any number of faults and *)
(* of runs: redirects, batches, sites and installations are left as         *)
(* SiteCommandsAreFaithful says.                                            *)
THEOREM SiteCommandsHold == Spec => []SiteCommandsAreFaithful
<1>1. CommandInv => SiteCommandsAreFaithful
  BY RedirectHolds, BatchHolds, SiteHolds, OauthHolds DEF CommandInv, SiteCommandInv, SiteCommandsAreFaithful
<1> QED BY <1>1, CommandInvariant, PTL

(* The same of templates and ADTs that are imported,                        *)
THEOREM ImportsHold == Spec => []ImportIsFaithful
<1>1. CommandInv => ImportIsFaithful
  BY ImportHolds DEF CommandInv, DefinitionInv
<1> QED BY <1>1, CommandInvariant, PTL

(* of fragments that are imported or exported, through JSONWS or as a zip,  *)
THEOREM FragmentsHold == Spec => []FragmentsAreFaithful
<1>1. CommandInv => FragmentsAreFaithful
  BY FragmentsDoLand, FragmentsComeBack DEF CommandInv, DefinitionInv, FragmentInv, FragmentsAreFaithful
<1> QED BY <1>1, CommandInvariant, PTL

(* and of objects, picklists and style books.                               *)
THEOREM DefinitionsHold == Spec => []DefinitionsAreFaithful
<1>1. CommandInv => DefinitionsAreFaithful
  BY ObjectHolds, StyleHolds DEF CommandInv, DefinitionInv, DefinitionsAreFaithful
<1> QED BY <1>1, CommandInvariant, PTL

(* The main checkout and its worktrees, whatever of them the branch has,    *)
(* whatever main's file and its user give, and however often the commands   *)
(* are given: no name, port, file or volume of one is another's.            *)
THEOREM CheckoutsStayApart == Spec => []CheckoutsAreApart
<1>1. CommandInv => CheckoutsAreApart
  BY CheckoutsHold DEF CommandInv, ProjectInv
<1> QED BY <1>1, CommandInvariant, PTL

(* The document library, project init, the deployment of a client extension *)
(* and the log streams of the dashboard, whatever stops them, overlaps with *)
(* them or was left by an earlier run.                                      *)
THEOREM WorkspaceHolds == Spec => []WorkspaceIsFaithful
<1>1. CommandInv => WorkspaceIsFaithful
  BY LibraryHolds, ScaffoldHolds, ExtensionHolds, StreamsHold DEF CommandInv, ProjectInv, WorkspaceIsFaithful
<1> QED BY <1>1, CommandInvariant, PTL
=============================================================================
