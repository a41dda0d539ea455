---------------------------- MODULE OAuthInstall ----------------------------
(***************************************************************************)
(* `ldev oauth install` and `oauth admin-unblock`: a bundle is copied to   *)
(* the portal, which on its own time starts it and reads its configuration *)
(* file.  Outside a Blade workspace the command asks the bundle over the   *)
(* Gogo shell for credentials; inside one it makes credentials up, writes  *)
(* them to the configuration, tries them, and takes them out again.        *)
(*                                                                         *)
(* Client ids and secrets are numbers, fresh ones the number of the run.   *)
(***************************************************************************)
EXTENDS Integers, FiniteSets, TLC

CONSTANTS OauthCases, Managed,   \* the scopes that are always asked for
          OauthFaults,           \* bound: kills, errors, starts and stops of the portal
          OauthRuns,             \* bound: times the command is given
          OauthTries             \* requests of a token, or Gogo commands: 12 in the code

(* mode is "config", "gogo" or "unblock"; url, whether the portal has one;  *)
(* write, --write-env; file, whether there is a place for the profile.      *)
ASSUME OauthAssumption ==
  /\ \A c \in OauthCases :
       /\ DOMAIN c = {"mode", "url", "write", "file", "scopes", "up", "app", "profile"}
       /\ c.mode \in {"config", "gogo", "unblock"}
       /\ c.app.id \in Nat /\ DOMAIN c.app = {"id", "secret", "scopes"}
  /\ {OauthFaults, OauthRuns, OauthTries} \subseteq Nat

VARIABLES oauth,      \* the case
          up, bundle, \* portal: running; the jar, "none", "copied" or "active"
          app,        \* the application: [id, secret, scopes], id 0 for none
          blocked,    \* the administrator must change the password
          conf, taken,\* configuration file, and as the bundle has last read it
          profile,    \* [id, secret, scopes] of .liferay-cli.local.yml
          oauthPc, verdict, given, tries, oauthRuns, oauthFaults,
          worked      \* whether the profile worked when the run began

portalVars == <<up, bundle, app, blocked, taken>>
oauthVars == <<oauth, portalVars, conf, profile, oauthPc, verdict, given, tries, oauthRuns,
               oauthFaults, worked>>

NoCredentials == [id |-> 0, secret |-> 0, scopes |-> {}]
Scopes == Managed \cup oauth.scopes
Disabled == [enabled |-> FALSE, rotate |-> FALSE, id |-> 0, secret |-> 0, scopes |-> Scopes]
Enabled == [enabled |-> TRUE, rotate |-> TRUE, id |-> oauthRuns, secret |-> oauthRuns, scopes |-> Scopes]
Works == app.id # 0 /\ profile.id = app.id /\ profile.secret = app.secret

OauthStart(pc) ==
  /\ oauth \in OauthCases
  /\ up = oauth.up /\ bundle = "none" /\ app = oauth.app /\ blocked = TRUE
  /\ conf = [Disabled EXCEPT !.scopes = {}] /\ taken = conf /\ profile = oauth.profile
  /\ oauthPc = pc /\ verdict = "none" /\ given = NoCredentials /\ tries = 0
  /\ oauthRuns = 0 /\ oauthFaults = 0 /\ worked = FALSE
OauthInit == OauthStart("start")
OauthFault == oauthFaults < OauthFaults /\ oauthFaults' = oauthFaults + 1

-----------------------------------------------------------------------------
(* The bundle.  The id of an application that exists stays; its secret      *)
(* stays unless it is to be rotated; what the configuration does not give   *)
(* is made up.                                                              *)
Or(n) == IF n = 0 THEN oauthRuns ELSE n
BugInstalled(c, scopes) ==
  [id |-> IF app.id # 0 THEN app.id ELSE Or(c.id), secret |-> Or(c.secret), scopes |-> scopes]
Installed0(c, scopes) ==
  [id |-> IF app.id # 0 THEN app.id ELSE Or(c.id),
   secret |-> IF app.id # 0 /\ ~c.rotate THEN app.secret ELSE Or(c.secret),
   scopes |-> scopes]

Activate ==
  /\ up /\ (bundle = "copied" \/ (bundle = "active" /\ taken # conf))
  /\ bundle' = "active" /\ taken' = conf
  /\ app' = IF conf.enabled THEN Installed0(conf, conf.scopes) ELSE app
  /\ UNCHANGED <<oauth, up, blocked, conf, profile, oauthPc, verdict, given, tries, oauthRuns,
                 oauthFaults, worked>>
StartOrStop ==
  /\ OauthFault /\ up' = ~up /\ bundle' = IF bundle = "active" THEN "copied" ELSE bundle
  /\ UNCHANGED <<oauth, app, blocked, taken, conf, profile, oauthPc, verdict, given, tries,
                 oauthRuns, worked>>

-----------------------------------------------------------------------------
Begin ==
  /\ oauthPc = "start"
  /\ oauthRuns' = oauthRuns + 1 /\ worked' = Works
  /\ verdict' = "none" /\ given' = NoCredentials /\ tries' = 0
  /\ oauthPc' = IF oauth.mode = "gogo" THEN "disable" ELSE "copy"
  /\ UNCHANGED <<oauth, portalVars, conf, profile, oauthFaults>>

(* Outside a Blade workspace the file is written and then copied into the   *)
(* container, which must run.                                               *)
DisableFirst ==
  /\ oauthPc = "disable" /\ conf' = Disabled
  /\ oauthPc' = IF up THEN "copy" ELSE "failed"
  /\ UNCHANGED <<oauth, portalVars, profile, verdict, given, tries, oauthRuns, oauthFaults, worked>>
CopyBundle ==
  /\ oauthPc = "copy" /\ bundle' = "copied"
  /\ oauthPc' = IF oauth.mode = "config" THEN "enable" ELSE "gogo"
  /\ UNCHANGED <<oauth, up, app, blocked, taken, conf, profile, verdict, given, tries, oauthRuns,
                 oauthFaults, worked>>

(* One Gogo command.  Output without the marker is asked for again: the     *)
(* bundle may not run yet, or may have answered after the shell was closed. *)
GogoFails ==
  /\ oauthPc = "gogo" /\ ~up /\ oauthPc' = "failed"
  /\ UNCHANGED <<oauth, portalVars, conf, profile, verdict, given, tries, oauthRuns, oauthFaults,
                 worked>>
Unblocked(carried) == blocked /\ ~(carried /\ oauth.mode = "unblock")
CarryOut(carried) ==
  /\ app' = IF carried /\ oauth.mode = "gogo" THEN Installed0(taken, Scopes) ELSE app
  /\ blocked' = Unblocked(carried)
ParsedOutput == app'
RunGogo ==
  /\ oauthPc = "gogo" /\ up /\ tries' = tries + 1
  /\ LET carried == bundle = "active" IN
     /\ CarryOut(carried)
     /\ \/ carried /\ given' = ParsedOutput /\ oauthPc' = "write" /\ UNCHANGED oauthFaults
        \/ /\ IF carried THEN OauthFault ELSE UNCHANGED oauthFaults
           /\ given' = NoCredentials /\ oauthPc' = IF tries + 1 = OauthTries THEN "failed" ELSE "gogo"
  /\ UNCHANGED <<oauth, up, bundle, taken, conf, profile, verdict, oauthRuns, worked>>

EnableConfig ==
  /\ oauthPc = "enable" /\ conf' = Enabled
  /\ given' = [id |-> oauthRuns, secret |-> oauthRuns, scopes |-> Scopes] /\ oauthPc' = "verify"
  /\ UNCHANGED <<oauth, portalVars, profile, verdict, tries, oauthRuns, oauthFaults, worked>>

(* A token is asked for with the new credentials, again as long as the      *)
(* portal does not know them, and not after another error.                  *)
Accepted == app.id = given.id /\ app.secret = given.secret
TryToken ==
  /\ oauthPc = "verify" /\ tries' = tries + 1
  /\ \/ ~oauth.url /\ verdict' = "skipped" /\ UNCHANGED oauthFaults
     \/ oauth.url /\ ~up /\ verdict' = "unreachable" /\ UNCHANGED oauthFaults
     \/ oauth.url /\ up /\ Accepted /\ verdict' = "verified" /\ UNCHANGED oauthFaults
     \/ /\ oauth.url /\ up /\ ~Accepted /\ UNCHANGED oauthFaults
        /\ verdict' = IF tries + 1 = OauthTries THEN "rejected" ELSE "none"
     \/ oauth.url /\ up /\ OauthFault /\ verdict' = "rejected"
  /\ oauthPc' = IF verdict' = "none" THEN "verify" ELSE "sanitize"
  /\ UNCHANGED <<oauth, portalVars, conf, profile, given, oauthRuns, worked>>

BugSanitized == verdict = "verified"
Sanitized == verdict \in {"verified", "rejected"}
Sanitize ==
  /\ oauthPc = "sanitize" /\ oauthPc' = "write"
  /\ conf' = IF Sanitized THEN Disabled ELSE conf
  /\ UNCHANGED <<oauth, portalVars, profile, verdict, given, tries, oauthRuns, oauthFaults, worked>>

Persists == oauth.write /\ oauth.mode # "unblock" /\ verdict # "rejected"
WriteProfile ==
  /\ oauthPc = "write"
  /\ oauthPc' = IF Persists /\ ~oauth.file THEN "failed" ELSE "done"
  /\ profile' = IF Persists /\ oauth.file THEN given ELSE profile
  /\ UNCHANGED <<oauth, portalVars, conf, verdict, given, tries, oauthRuns, oauthFaults, worked>>

OauthEnded == oauthPc \in {"done", "failed", "killed", "off"}
OauthKilled ==
  /\ ~OauthEnded /\ OauthFault /\ oauthPc' = "killed"
  /\ UNCHANGED <<oauth, portalVars, conf, profile, verdict, given, tries, oauthRuns, worked>>
OauthAgain ==
  /\ oauthPc \in {"done", "failed", "killed"} /\ oauthRuns < OauthRuns /\ oauthPc' = "start"
  /\ UNCHANGED <<oauth, portalVars, conf, profile, verdict, given, tries, oauthRuns, oauthFaults,
                 worked>>

OauthStep == \/ Begin \/ DisableFirst \/ CopyBundle \/ GogoFails \/ RunGogo \/ EnableConfig
             \/ TryToken \/ Sanitize \/ WriteProfile
OauthNext == OauthStep \/ OauthKilled \/ OauthAgain \/ (oauthPc # "off" /\ (Activate \/ StartOrStop))

-----------------------------------------------------------------------------
(* Credentials that the portal answered, over Gogo or with a token, are     *)
(* those of the profile, and work; and over Gogo a profile that worked goes *)
(* on working, however often the command is given and cut off.  No secret   *)
(* is left in the configuration by a run that saw the portal answer, and an *)
(* administrator that was unblocked stays so.                               *)
OAuthIsHonest ==
  /\ oauth.mode = "gogo" /\ oauthPc = "done" /\ oauth.write => Works /\ profile.scopes = app.scopes
  /\ oauth.mode = "gogo" /\ oauth.app.id # 0 /\ profile = oauth.app => app.id = profile.id /\ Works
  /\ oauthPc = "done" /\ verdict = "verified" /\ oauth.write => profile = given /\ Works
  /\ oauthPc = "done" /\ verdict \in {"verified", "rejected"} => ~conf.enabled
  /\ oauthPc = "done" /\ oauth.mode = "unblock" => ~blocked

(* A profile that worked when `oauth install --write-env` was given works   *)
(* when it has ended.                                                       *)
CredentialsStay == oauthPc = "done" /\ oauth.write /\ worked => Works
=============================================================================
