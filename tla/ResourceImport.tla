--------------------------- MODULE ResourceImport ---------------------------
(***************************************************************************)
(* `ldev resource export-templates | export-adts` and the bulk imports     *)
(* `import-templates | import-adts`: a loop over the sites and the local   *)
(* files of each, and for every file the import engine with the strategy   *)
(* of templates or of ADTs: find the remote one, create or update it, find *)
(* it again and compare.                                                   *)
(*                                                                         *)
(* A case is one command line over one state of disk and portal.  Scripts  *)
(* are opaque; an export that sanitizes a name is the function clean.      *)
(* Files and sites are taken in the order of their names, here in any.     *)
(***************************************************************************)
EXTENDS Integers, FiniteSets, Sequences, SequencesExt

CONSTANTS ImportCases,       \* see ImportCaseOK
          ImportFaults,      \* bound: requests refused or answers lost
          ImportRuns         \* bound: times the command is given

(* A file: top is the directory under the base directory (a site, or "none" *)
(* for a file directly in it), dir its own directory.  A portal template:   *)
(* its group, class (structure or widget type), key, ERC, name and script.  *)
(* "auto" is a key that the portal makes, which nobody gives a file or a    *)
(* template; "company" holds what is of no site.                            *)
ResourceFile == [top : STRING, dir : STRING, key : STRING, script : STRING]
Template == [group : STRING, class : STRING, key : STRING, erc : STRING, name : STRING, script : STRING]
Identifiers(t) == {t.key, t.erc, t.name}
ImportCaseOK(c) ==
  /\ IsFiniteSet(c.files) /\ c.files \subseteq ResourceFile /\ \A f \in c.files : f.key # "auto"
  /\ c.portal \in Seq(Template) /\ "company" \notin c.sites
  /\ \A i \in DOMAIN c.portal : \A n \in Identifiers(c.portal[i]) : n # "auto" /\ c.clean[n] \in STRING \ {"auto"}
  /\ c.opt.type \in {"template", "adt"} /\ {c.opt.site, c.opt.structure, c.opt.widget, c.opt.single} \subseteq STRING
  /\ {c.opt.all, c.opt.check, c.opt.create, c.opt.go, c.opt.export} \subseteq BOOLEAN

Global == "global"
ASSUME ImportAssumption ==
  /\ ImportFaults \in Nat /\ ImportRuns \in Nat /\ \A c \in ImportCases : ImportCaseOK(c)
  /\ {"auto", "none", Global} \subseteq STRING      \* the prover does not know it

VARIABLES imp,          \* the case
          store,        \* the portal's templates, in the order it lists them
          disk,         \* local files
          impPc,        \* where the command is
          pending,      \* [site, file] entries not taken yet
          entry,        \* the entry being imported
          target,       \* index in store of what findRemote found, or 0
          home,         \* the site it is searched and made in
          blind,        \* it was found though the lists were refused
          misled,       \* searches for ADTs that met a refused list, by run and name
          processed, failures,     \* entries imported, and entries that failed
          runs, impFaults

searchVars == <<target, home, blind, misled>>
importVars == <<imp, store, disk, impPc, pending, entry, searchVars, processed,
                failures, runs, impFaults>>
ImportOpt == imp.opt
None == [site |-> "none", file |-> [top |-> "none", dir |-> "none", key |-> "none", script |-> "none"]]

-----------------------------------------------------------------------------
(* What an identifier matches, field by field, and the first match of a     *)
(* list.  An ADT is known by its key and its name, a template by its ERC    *)
(* too.                                                                     *)
Matches(t, k) == k \in IF ImportOpt.type = "adt" THEN {t.key, t.name} ELSE {t.key, t.erc, t.name}
FirstOf(hits) == IF hits = {} THEN 0 ELSE CHOOSE i \in hits : \A j \in hits : i <= j

OfStructure(t) == ImportOpt.structure = "" \/ t.class = ImportOpt.structure
Templates(s, g) == {i \in DOMAIN s : s[i].group = g /\ OfStructure(s[i])}
ByKey(s, g, k) == FirstOf({i \in Templates(s, g) : s[i].key = k})
InGroup(s, g, k) == FirstOf({i \in Templates(s, g) : Matches(s[i], k)})

(* findRemote of a template: the template with this very key, then the      *)
(* site's list, then the company's.                                         *)
FindTemplate(s, g, k) ==
  IF ByKey(s, g, k) # 0 THEN ByKey(s, g, k)
  ELSE IF InGroup(s, g, k) # 0 THEN InGroup(s, g, k)
  ELSE InGroup(s, "company", k)

(* findRemote of an ADT, in the site that the import has chosen before: the *)
(* global one when only that one has it.                                    *)
Widget(f) == IF ImportOpt.widget # "" THEN ImportOpt.widget ELSE f.dir
FindAdtIn(s, g, f) ==
  FirstOf({i \in DOMAIN s : s[i].group = g /\ s[i].class = Widget(f) /\ Matches(s[i], f.key)})
AdtSite(s, e) == IF FindAdtIn(s, e.site, e.file) = 0 /\ FindAdtIn(s, Global, e.file) # 0
                 THEN Global ELSE e.site

FindIn(s, g, e) == IF ImportOpt.type = "adt" THEN FindAdtIn(s, g, e.file)
                   ELSE FindTemplate(s, g, e.file.key)
SiteFor(s, e) == IF ImportOpt.type = "adt" THEN AdtSite(s, e) ELSE e.site
Find(s, e) == FindIn(s, SiteFor(s, e), e)

-----------------------------------------------------------------------------
(* The entries of a run.  ADTs of a site without a directory of its own are *)
(* taken from the base directory and all below it.                          *)
Tops == {f.top : f \in disk} \ {"none"}
FilesOf(g) ==
  LET own == {f \in disk : f.top = g}
      all == IF ImportOpt.type = "adt" /\ ~ImportOpt.all /\ own = {} THEN disk ELSE own
  IN  {f \in all : ImportOpt.keys = {} \/ f.key \in ImportOpt.keys}

(* A single import without --file looks its file up: a template in the      *)
(* site's directory, in the global one, at the base, or anywhere if only    *)
(* one has the name; an ADT by its directory and name, if only one has.     *)
LookupTemplate(k) ==
  LET at(g) == {f \in disk : f.top = g /\ f.key = k}
      order == <<at(ImportOpt.site), at(Global), at("none"), {f \in disk : f.key = k}>>
      i == SelectInSeq(order, LAMBDA fs : fs # {})
  IN  IF i = 0 THEN {} ELSE order[i]
LookupAdt(k) == {f \in disk : f.dir = ImportOpt.widget /\ f.key = k}
Lookup(k) == IF ImportOpt.type = "adt" THEN LookupAdt(k) ELSE LookupTemplate(k)

Entries ==
  IF ImportOpt.single # "" THEN {[site |-> ImportOpt.site, file |-> f] : f \in Lookup(ImportOpt.single)}
  ELSE UNION {{[site |-> g, file |-> f] : f \in FilesOf(g)} :
              g \in IF ImportOpt.all THEN Tops ELSE {ImportOpt.site}}

ImportStart(pc) ==
  /\ imp \in ImportCases
  /\ store = imp.portal /\ disk = imp.files
  /\ impPc = pc /\ pending = {} /\ entry = None /\ target = 0 /\ home = "none"
  /\ blind = FALSE /\ misled = {}
  /\ processed = {} /\ failures = {} /\ runs = 0 /\ impFaults = 0
ImportInit == ImportStart("start")

ImportFault == impFaults < ImportFaults /\ impFaults' = impFaults + 1

(* Export of a site: what the portal lists for it, templates of the company *)
(* where it lists none; the name of the file is the ERC, or for an ADT the  *)
(* key.  The directory of a site without any is removed.                    *)
OwnRows == {i \in DOMAIN store : store[i].group = ImportOpt.site}
ExportedTemplates ==
  LET rows == IF OwnRows # {} THEN OwnRows ELSE {i \in DOMAIN store : store[i].group = "company"}
  IN  {[top |-> ImportOpt.site, dir |-> ImportOpt.site,
        key |-> imp.clean[store[i].erc], script |-> store[i].script] : i \in rows}
ExportedAdts ==
  {[top |-> ImportOpt.site, dir |-> store[i].class,
    key |-> imp.clean[store[i].key], script |-> store[i].script] : i \in OwnRows}
Exported == IF ImportOpt.type = "adt" THEN ExportedAdts ELSE ExportedTemplates
SameFile(f, g) == <<f.top, f.dir, f.key>> = <<g.top, g.dir, g.key>>
Export ==
  /\ impPc = "start" /\ ImportOpt.export /\ runs = 0
  /\ \E new \in SUBSET Exported :      \* of two files with one name the last is left
       /\ \A f \in Exported : \E g \in new : SameFile(f, g)
       /\ \A f, g \in new : SameFile(f, g) => f = g
       /\ disk' = IF new = {} THEN {f \in disk : f.top # ImportOpt.site}
                  ELSE new \cup {f \in disk : \A g \in new : ~SameFile(f, g)}
  /\ impPc' = "ready"
  /\ UNCHANGED <<imp, store, pending, entry, searchVars, processed, failures, runs, impFaults>>

(* The command line is refused unless it names what to import; the file of  *)
(* a single import must be found, and be the only one.                      *)
NamedInBulk == \/ ImportOpt.all \/ ImportOpt.go \/ ImportOpt.keys # {}
               \/ ImportOpt.type = "adt" /\ ImportOpt.widget # ""
Named == IF ImportOpt.single = "" THEN NamedInBulk ELSE Cardinality(Lookup(ImportOpt.single)) = 1
StartImport ==
  /\ impPc = "ready" \/ (impPc = "start" /\ ~ImportOpt.export)
  /\ runs' = runs + 1 /\ processed' = {} /\ failures' = {}
  /\ IF Named THEN impPc' = "next" /\ pending' = Entries
              ELSE impPc' = "error" /\ pending' = {}
  /\ UNCHANGED <<imp, store, disk, entry, searchVars, impFaults>>

TakeEntry ==
  /\ impPc = "next" /\ pending # {}
  /\ \E e \in pending : entry' = e /\ pending' = pending \ {e}
  /\ impPc' = "find"
  /\ UNCHANGED <<imp, store, disk, searchVars, processed, failures, runs, impFaults>>

(* An entry fails: recorded, and the end of the run unless it is to go on.  *)
BugEntryFailsQuietly ==
  /\ UNCHANGED failures
  /\ impPc' = IF ImportOpt.continue THEN "next" ELSE "error"
EntryFails ==
  /\ failures' = failures \cup {entry}
  /\ impPc' = IF ImportOpt.continue THEN "next" ELSE "error"

(* A site that does not exist, a widget type that is not supported, nothing *)
(* remote and no --create-missing, or a template to create without its      *)
(* structure.                                                               *)
CannotImport(i) ==
  \/ entry.site \notin imp.sites
  \/ ImportOpt.type = "adt" /\ Widget(entry.file) \notin imp.classes
  \/ i = 0 /\ ~ImportOpt.create
  \/ i = 0 /\ ~ImportOpt.check /\ ImportOpt.type = "template" /\ ImportOpt.structure = ""

(* A refused list of templates counts as empty: what the headless inventory *)
(* still finds is updated as if bound to no structure.                      *)
FindBlind ==
  /\ ImportOpt.type = "template"
  /\ \A i \in DOMAIN store : store[i].group = entry.site => store[i].key # entry.file.key
  /\ target' = InGroup(store, entry.site, entry.file.key)
  /\ blind' = (target' # 0) /\ home' = entry.site
  /\ UNCHANGED misled

(* So does a refused list of ADTs, the site's or the global one's, when the *)
(* site is chosen or the ADT searched in it: the import may turn to the     *)
(* global ADT though the site has its own, or make a second one.            *)
FindAdtBlind ==
  /\ ImportOpt.type = "adt" /\ blind' = FALSE
  /\ home' \in {entry.site} \cup {g \in {Global} : FindAdtIn(store, g, entry.file) # 0}
  /\ target' \in {0, FindAdtIn(store, home', entry.file)}
  /\ misled' = misled \cup {[run |-> runs, key |-> entry.file.key]}

FindRemote ==
  /\ impPc = "find"
  /\ \/ /\ home' = SiteFor(store, entry) /\ target' = Find(store, entry) /\ blind' = FALSE
        /\ UNCHANGED <<misled, impFaults>>
     \/ ImportFault /\ (FindBlind \/ FindAdtBlind)
  /\ IF CannotImport(target')
       THEN EntryFails /\ UNCHANGED processed
       ELSE IF ImportOpt.check
       THEN impPc' = "next" /\ processed' = processed \cup {entry} /\ UNCHANGED failures
       ELSE impPc' = "write" /\ UNCHANGED <<processed, failures>>
  /\ UNCHANGED <<imp, store, disk, pending, entry, runs>>

(* The request of upsert.  An update also renames to the key.               *)
CreatedRow ==
  [group |-> home, class |-> IF ImportOpt.type = "adt" THEN Widget(entry.file) ELSE ImportOpt.structure,
   key |-> "auto", erc |-> entry.file.key, name |-> entry.file.key, script |-> entry.file.script]
Written ==
  IF target = 0 THEN Append(store, CreatedRow)
  ELSE [store EXCEPT ![target].script = entry.file.script, ![target].name = entry.file.key,
                     ![target].class = IF blind THEN "none" ELSE @]
Upsert ==
  /\ impPc = "write"
  /\ store' = Written /\ impPc' = "verify"
  /\ UNCHANGED <<imp, disk, pending, entry, searchVars, processed, failures, runs, impFaults>>

(* The portal refuses, or its answer is lost and a repeated create refused. *)
UpsertFails ==
  /\ impPc \in {"find", "write"} /\ ImportFault
  /\ store' \in IF impPc = "write" THEN {store, Written} ELSE {store}
  /\ EntryFails
  /\ UNCHANGED <<imp, disk, pending, entry, searchVars, processed, runs>>

(* The remote one is found again and its script read, a template's through  *)
(* the site and the global site by the key the first search gave.  One that *)
(* is not found again counts as verified; when a request is refused there,  *)
(* a list is read as empty or the entry fails.                              *)
Verified ==
  LET again == FindIn(store, home, entry)
      id    == IF store[again].key = "auto" THEN store[again].erc ELSE store[again].key
      hits  == <<InGroup(store, entry.site, id), InGroup(store, Global, id), InGroup(store, "company", id)>>
      i     == SelectInSeq(hits, LAMBDA h : h # 0)
  IN  again = 0 \/ IF ImportOpt.type = "adt" THEN store[again].script = entry.file.script
                   ELSE i # 0 /\ store[hits[i]].script = entry.file.script
Verify ==
  /\ impPc = "verify"
  /\ \E verified \in BOOLEAN :
       /\ ImportFault \/ (verified = Verified /\ UNCHANGED impFaults)
       /\ IF verified THEN impPc' = "next" /\ processed' = processed \cup {entry} /\ UNCHANGED failures
                      ELSE EntryFails /\ UNCHANGED processed
  /\ UNCHANGED <<imp, store, disk, pending, entry, searchVars, runs>>

ReportImport ==
  /\ impPc = "next" /\ pending = {}
  /\ impPc' = IF failures = {} THEN "ok" ELSE "failed"
  /\ UNCHANGED <<imp, store, disk, pending, entry, searchVars, processed, failures, runs, impFaults>>

(* The user gives the command again.                                        *)
RunAgain ==
  /\ impPc \in {"ok", "failed", "error"} /\ runs < ImportRuns
  /\ impPc' = "ready" /\ pending' = {}
  /\ UNCHANGED <<imp, store, disk, entry, searchVars, processed, failures, runs, impFaults>>

ImportStep == Export \/ StartImport \/ TakeEntry \/ FindRemote \/ Upsert \/ Verify \/ ReportImport
ImportNext == ImportStep \/ UpsertFails \/ RunAgain
ImportSpec == ImportInit /\ [][ImportNext]_importVars /\ WF_importVars(ImportStep)

-----------------------------------------------------------------------------
(* An import that ends well imported every entry: the script its file holds *)
(* is the one the portal has for it, unless another entry came down on the  *)
(* same template, as two sites do that both fall back to the company's and  *)
(* two files of one name once a refused list hid the company's from one, or *)
(* a refused list made an update unbind a template from its structure, or   *)
(* misled the search for an ADT of that name in this run.                   *)
(* It takes that no template of the portal goes by the names of two files.  *)
Unbound(t) == t.class = "none"
Misled(e) == [run |-> runs, key |-> e.file.key] \in misled
MisledNames == {m.key : m \in misled}
OneNameEach ==
  \A t \in Range(imp.portal), e, f \in Entries :
    Matches(t, e.file.key) /\ Matches(t, f.file.key) => e.file.key = f.file.key
ImportLands ==
  impPc = "ok" /\ Named =>
    /\ processed = Entries /\ failures = {}
    /\ ImportOpt.check => store = imp.portal
    /\ OneNameEach => \A e \in processed :
         \/ ImportOpt.check \/ Misled(e)
         \/ \E t \in Range(store) : Unbound(t)
         \/ \E other \in processed \ {e} : \/ Find(store, other) = Find(store, e)
                                           \/ impFaults > 0 /\ other.file.key = e.file.key
         \/ Find(store, e) # 0 /\ store[Find(store, e)].script = e.file.script

(* However often the import is repeated, and whatever answers were lost, no *)
(* entry makes a second template but for one that came unbound or whose     *)
(* search was misled, and none but a template that goes by the entry's name *)
(* is changed; its binding is kept.                                         *)
EntryNames == {[site |-> e.site, dir |-> e.file.dir, key |-> e.file.key] : e \in Entries}
NothingImportedTwice ==
  /\ Cardinality({i \in Len(imp.portal) + 1 .. Len(store) : store[i].erc \notin MisledNames})
       <= Cardinality(EntryNames) + Cardinality({i \in DOMAIN store : Unbound(store[i])})
  /\ \A i \in DOMAIN imp.portal :
       \/ store[i] = imp.portal[i]
       \/ /\ \E e \in Entries : /\ store[i].script = e.file.script /\ Matches(imp.portal[i], e.file.key)
                               /\ store[i].group \in {e.site, Global, "company"}
          /\ store[i].class # imp.portal[i].class => impFaults > 0

(* An export that is imported again changes no script and makes no template *)
(* when no two templates of the site share a name, a key or an ERC, these   *)
(* are usable as names of files, and neither a structure nor a widget type  *)
(* is forced upon them.                                                     *)
RoundTrips ==
  LET own == {i \in DOMAIN imp.portal : imp.portal[i].group = ImportOpt.site}
  IN  /\ impPc \in {"ok", "failed"} /\ ImportOpt.export /\ imp.files = {} /\ own # {} /\ impFaults = 0
      /\ ImportOpt.structure = "" /\ ImportOpt.widget = "" /\ ImportOpt.site \in imp.sites
      /\ \A i \in own :
           /\ \A n \in Identifiers(imp.portal[i]) : imp.clean[n] = n
           /\ ImportOpt.type = "adt" => imp.portal[i].class \in imp.classes
           /\ \A j \in own \ {i} : Identifiers(imp.portal[i]) \cap Identifiers(imp.portal[j]) = {}
      => /\ failures = {} /\ Len(store) = Len(imp.portal)
         /\ \A i \in DOMAIN store : store[i].script = imp.portal[i].script

(* All of it: what an import leaves in the portal.                          *)
ImportIsFaithful == ImportLands /\ NothingImportedTwice /\ RoundTrips
=============================================================================
