-------------------------- MODULE SiteInitializer --------------------------
(***************************************************************************)
(* `ldev resource apply-site-initializer`: a site is created from a        *)
(* directory by site ERC, after the site of that ERC, if any, was deleted  *)
(* with --recreate, and what was declared is read back.                    *)
(***************************************************************************)
EXTENDS Integers, FiniteSets, TLC

CONSTANTS SiteCases, SiteFaults,   \* bound: requests refused or answers lost
          SiteRuns                 \* bound: times the command is given

(* source is the directory: pages, a set of URLs, "" for one without;       *)
(* definitions, the types of the root elements; broken, whether some JSON   *)
(* does not parse; menus, [items, legacy] by name, legacy if the items are  *)
(* under a name the portal does not read; templates, a set of [key, name].  *)
(* creates is what the portal makes of the zip.                             *)
ASSUME SiteAssumption ==
  /\ \A c \in SiteCases :
       /\ DOMAIN c = {"erc", "source", "recreate", "check", "exists", "creates", "canReadTemplates"}
       /\ DOMAIN c.source = {"pages", "definitions", "broken", "menus", "templates"}
       /\ DOMAIN c.creates = {"pages", "menus", "templates", "by"}
  /\ {SiteFaults, SiteRuns} \subseteq Nat

VARIABLES decl,       \* the case
          made,       \* the site of the ERC: [pages, menus, templates, by], or NoSite
          sitePc, existing, siteRuns, siteFaults

siteVars == <<decl, made, sitePc, existing, siteRuns, siteFaults>>
NoSite == [pages |-> {}, menus |-> <<>>, templates |-> {}, by |-> "none"]
OldSite == [NoSite EXCEPT !.by = "user"]
Created == [decl.creates EXCEPT !.by = "command"]

(* The plan and its errors: what the portal would not report.               *)
Pages == decl.source.pages \ {""}
Menus == [m \in DOMAIN decl.source.menus |->
            IF decl.source.menus[m].legacy THEN 0 ELSE decl.source.menus[m].items]
LintErrors == decl.source.broken \/ "" \in decl.source.pages \/ decl.source.definitions \ {"Root"} # {}

SiteStart(pc) ==
  /\ decl \in SiteCases
  /\ made = IF decl.exists THEN OldSite ELSE NoSite
  /\ sitePc = pc /\ existing = FALSE /\ siteRuns = 0 /\ siteFaults = 0
SiteInit == SiteStart("start")
SiteFault == siteFaults < SiteFaults /\ siteFaults' = siteFaults + 1

(* Nothing is sent before the source was linted and the site looked for.    *)
BugMayApply == ~LintErrors
MayApply == ~LintErrors /\ (made.by = "none" \/ decl.recreate)
PlanSite ==
  /\ sitePc = "start" /\ siteRuns' = siteRuns + 1
  /\ existing' = (made.by # "none")
  /\ sitePc' = IF ~decl.erc \/ LintErrors THEN "error"
               ELSE IF decl.check THEN "checked"
               ELSE IF ~MayApply THEN "blocked"
               ELSE IF made.by # "none" THEN "delete" ELSE "create"
  /\ UNCHANGED <<decl, made, siteFaults>>

DeleteSite ==
  /\ sitePc = "delete" /\ made' = NoSite /\ sitePc' = "create"
  /\ UNCHANGED <<decl, existing, siteRuns, siteFaults>>
CreateSite ==
  /\ sitePc = "create" /\ made' = Created /\ sitePc' = "verify"
  /\ UNCHANGED <<decl, existing, siteRuns, siteFaults>>
SiteFails ==       \* refused, or done with its answer lost
  /\ sitePc \in {"delete", "create", "verify"} /\ SiteFault /\ sitePc' = "failed"
  /\ made' \in {made} \cup CASE sitePc = "delete" -> {NoSite}
                             [] sitePc = "create" -> {Created}
                             [] OTHER -> {}
  /\ UNCHANGED <<decl, existing, siteRuns>>

(* The pages, the menus with their numbers of items, and the display page   *)
(* templates, by key or name, where the portal has the endpoint.            *)
TemplatesThere == \A t \in decl.source.templates : {t.key, t.name} \cap made.templates # {}
AppliedCleanly ==
  /\ Pages \subseteq made.pages
  /\ \A m \in DOMAIN Menus : m \in DOMAIN made.menus /\ made.menus[m] = Menus[m]
  /\ decl.canReadTemplates => TemplatesThere
VerifySite ==
  /\ sitePc = "verify" /\ sitePc' = IF ~AppliedCleanly THEN "unclean" ELSE IF existing THEN "recreated" ELSE "created"
  /\ UNCHANGED <<decl, made, existing, siteRuns, siteFaults>>

SiteAgain ==
  /\ sitePc \in {"failed", "unclean", "created"} /\ siteRuns < SiteRuns
  /\ sitePc' = "start"
  /\ UNCHANGED <<decl, made, existing, siteRuns, siteFaults>>
SiteStep == PlanSite \/ DeleteSite \/ CreateSite \/ VerifySite
SiteNext == SiteStep \/ SiteFails \/ SiteAgain

-----------------------------------------------------------------------------
(* Without --recreate no site is deleted, not even one that an earlier run  *)
(* made; a site that is there at the end is the old one, untouched, or one  *)
(* that the command made; and "created" means that all that is declared     *)
(* and can be read is there, in a site where there was none.                *)
SiteIsFaithful ==
  /\ ~decl.recreate /\ decl.exists => made = OldSite
  /\ sitePc \in {"created", "recreated"} => made.by = "command" /\ AppliedCleanly
  /\ LintErrors => made.by # "command"
=============================================================================
