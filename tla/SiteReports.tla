---------------------------- MODULE SiteReports ----------------------------
(***************************************************************************)
(* Reports over many sites or folders, put together by requests that run   *)
(* at the same time: how many contents each site has, which structures     *)
(* the contents of some folders have, and which structures and templates   *)
(* every site has.  The portal may change while a report is made; a site   *)
(* that fails is left out of the first, a site without the endpoint of the *)
(* last, and a structure that cannot be read has no name in the second.    *)
(***************************************************************************)
EXTENDS Integers, Sequences, SequencesExt, FiniteSets, FiniteSetsExt, TLC

CONSTANTS Reports, ReportPool, ReportPage,
          ReportFaults, ReportEdits     \* bounds: requests that fail, changes of the portal

\* Folders lie in folders of their site, none of them in itself.
WellPlaced(folders) ==
  /\ \A f \in DOMAIN folders :
       /\ DOMAIN folders[f] = {"site", "says", "parent", "contents"}
       /\ folders[f].parent # 0 => folders[f].parent \in DOMAIN folders /\ folders[folders[f].parent].site = folders[f].site
  /\ \A m \in SUBSET DOMAIN folders : m # {} => \E f \in m : folders[f].parent \notin m
ASSUME ReportAssumption ==
  /\ {ReportFaults, ReportEdits} \subseteq Nat /\ {ReportPool, ReportPage} \subseteq Nat \ {0}
  /\ \A r \in Reports :
       /\ r.op \in {"sites", "folders", "structures"} /\ r.withTemplates \in BOOLEAN
       /\ DOMAIN r.articles = DOMAIN r.tree /\ \A f \in DOMAIN r.articles : r.articles[f] \in Seq(STRING)
       /\ IsFiniteSet(DOMAIN r.tree) /\ DOMAIN r.tree \subseteq Nat \ {0} /\ WellPlaced(r.tree)
       /\ r.readable \subseteq STRING
       /\ \A s \in ToSet(r.sites) : \A t \in r.templates[s] : t.headless \in BOOLEAN

VARIABLES report,       \* the case: what is asked for, and what the portal refuses
          branches,     \* folder -> [site, says, parent, contents]
          filed,        \* folder -> sequence of structures, one for each content
          repPc,
          unit,         \* site, or <<selected folder, folder below it>> -> what is done for it
          places,       \* tasks that wait in the limiter, in order
          stacks,       \* site -> root -> folders still to be asked for
          counted,      \* site -> [root, folder, contents] as listed
          pageRows,     \* task -> [start, rows, todo]
          structureMap, \* structures that are known by their key
          tally,        \* task -> rows counted, as a sequence of keys
          skippedSites,
          inventories,  \* site -> structure -> templates
          shifted,      \* folders that were moved, or whose contents changed
          repFaults, repEdits

reportVars == <<report, branches, filed, repPc, unit, places, stacks, counted, pageRows, structureMap, tally, skippedSites,
                inventories, shifted, repFaults, repEdits>>
CountVars == <<stacks, counted, skippedSites>>
StructVars == <<places, pageRows, structureMap, tally>>
Still == UNCHANGED <<report, branches, filed, shifted, repEdits>>

Ascending(s) == [k \in 1 .. Cardinality(s) |-> CHOOSE x \in s : Cardinality({y \in s : y <= x}) = k]
UnitsIn(phases) == {u \in DOMAIN unit : unit[u] \in phases}
Becomes(u, phase) == unit' = [unit EXCEPT ![u] = phase]
Noted(f, x, y) == [z \in {x} \cup DOMAIN f |-> IF z = x THEN y ELSE f[z]]
OneFails == repFaults < ReportFaults /\ repFaults' = repFaults + 1

-----------------------------------------------------------------------------
(* The contents of the sites.  A pool of workers takes the sites in order;  *)
(* the roots of a site are walked at the same time, each of them depth      *)
(* first.                                                                   *)
KeptSites == ToSet(report.sites) \ report.excluded
WalkedSites == UnitsIn({"roots", "walk"})
NextSite(s) == /\ repPc = "count" /\ unit[s] = "waiting" /\ Cardinality(WalkedSites) < ReportPool
               /\ \A i, j \in DOMAIN report.sites : i < j /\ report.sites[j] = s /\ report.sites[i] \in KeptSites
                                                    => unit[report.sites[i]] # "waiting"
TakeSite(s) == NextSite(s) /\ Becomes(s, "roots") /\ Still /\ UNCHANGED <<repPc, CountVars, StructVars, inventories, repFaults>>

(* The folders that say they are of this site, or all when none of them     *)
(* says so.                                                                 *)
RootFolders(s) ==
  LET rows == {f \in DOMAIN branches : branches[f].site = s /\ branches[f].parent = 0}
      same == {f \in rows : branches[f].says = s}
  IN  IF same # {} THEN same ELSE rows
FolderRow(root, f) == [root |-> root, folder |-> f, contents |-> branches[f].contents]
ListRoots(s) ==
  /\ repPc = "count" /\ unit[s] = "roots" /\ s \notin report.refused /\ Becomes(s, "walk")
  /\ stacks' = [stacks EXCEPT ![s] = [r \in RootFolders(s) |-> <<r>>]]
  /\ LET roots == Ascending(RootFolders(s))
     IN  counted' = [counted EXCEPT ![s] = [i \in DOMAIN roots |-> FolderRow(roots[i], roots[i])]]
  /\ Still /\ UNCHANGED <<repPc, skippedSites, StructVars, inventories, repFaults>>
ChildFolders(f) == {g \in DOMAIN branches : branches[g].parent = f}
BuildFolderStats(s, r) ==
  /\ repPc = "count" /\ unit[s] = "walk" /\ stacks[s][r] # <<>>
  /\ LET below == Ascending(ChildFolders(Head(stacks[s][r])))
     IN  /\ stacks' = [stacks EXCEPT ![s][r] = below \o Tail(@)]
         /\ counted' = [counted EXCEPT ![s] = @ \o [i \in DOMAIN below |-> FolderRow(r, below[i])]]
  /\ Still /\ UNCHANGED <<repPc, unit, skippedSites, StructVars, inventories, repFaults>>
SiteCounted(s) ==
  /\ repPc = "count" /\ unit[s] = "walk" /\ (\A r \in DOMAIN stacks[s] : stacks[s][r] = <<>>)
  /\ Becomes(s, "done")
  /\ Still /\ UNCHANGED <<repPc, CountVars, StructVars, inventories, repFaults>>
(* One request of a site that fails leaves the site out.                    *)
SkipSite(s) ==
  /\ repPc = "count" /\ unit[s] \in {"roots", "walk"} /\ Becomes(s, "skipped")
  /\ IF s \in report.refused THEN UNCHANGED repFaults ELSE OneFails
  /\ skippedSites' = Append(skippedSites, s)
  /\ Still /\ UNCHANGED <<repPc, stacks, counted, StructVars, inventories>>

Volume(s) == MapThenSumSet(LAMBDA i : counted[s][i].contents, DOMAIN counted[s])
VolumeOf(s, r) == MapThenSumSet(LAMBDA i : counted[s][i].contents, {i \in DOMAIN counted[s] : counted[s][i].root = r})
Larger(v, w, x, y) == v > w \/ (v = w /\ x < y)
AtMost(seq, n) == SubSeq(seq, 1, IF n < Len(seq) THEN n ELSE Len(seq))
TopFolders(s) == AtMost(SetToSortSeq(DOMAIN stacks[s], LAMBDA q, r : Larger(VolumeOf(s, q), VolumeOf(s, r), q, r)), 3)
SiteRanking ==
  AtMost(SetToSortSeq(UnitsIn({"done"}),
            LAMBDA s, t : IF report.order = "content" THEN Larger(Volume(s), Volume(t), s, t)
                          ELSE report.rank[s] < report.rank[t] \/ (report.rank[s] = report.rank[t] /\ s < t)),
          report.limit)

-----------------------------------------------------------------------------
(* The structures of some folders.  Pools within a pool ask, through one    *)
(* limiter, for the contents of every folder; the structures they have that *)
(* no one knows yet are then read one by one.                               *)
TasksOf(g) == {t \in DOMAIN unit : t[1] = g}
OpenFolders == {g \in DOMAIN report.selected : \E t \in TasksOf(g) : unit[t] # "waiting"}
Unfinished(g) == \E t \in TasksOf(g) : unit[t] # "done"
InFlight(g) == {t \in TasksOf(g) : unit[t] \notin {"waiting", "done"}}
StartTask(t) ==
  /\ repPc = "rows" /\ unit[t] = "waiting"
  /\ \A u \in DOMAIN unit : u[1] = t[1] /\ u[2] < t[2] => unit[u] # "waiting"
  /\ IF t[1] \in OpenFolders THEN Cardinality(InFlight(t[1])) < ReportPool
     ELSE /\ Cardinality({g \in OpenFolders : Unfinished(g)}) < ReportPool
          /\ \A g \in 1 .. t[1] - 1 : g \in OpenFolders
  /\ Becomes(t, "queued") /\ places' = Append(places, t)
  /\ Still /\ UNCHANGED <<repPc, CountVars, pageRows, structureMap, tally, inventories, repFaults>>
TakePlace ==
  /\ repPc = "rows" /\ places # <<>> /\ Cardinality(UnitsIn({"reading"})) < ReportPool
  /\ places' = Tail(places) /\ Becomes(Head(places), "reading")
  /\ Still /\ UNCHANGED <<repPc, CountVars, pageRows, structureMap, tally, inventories, repFaults>>
(* The place is given back before the structures are read.                  *)
ReadRows(t) ==
  /\ repPc = "rows" /\ unit[t] = "reading"
  /\ LET from == pageRows[t].start
         all == filed[t[2]]
         rows == SubSeq(all, from + 1, IF from + ReportPage < Len(all) THEN from + ReportPage ELSE Len(all))
         read == pageRows[t].rows \o rows
     IN  IF Len(rows) < ReportPage
         THEN /\ Becomes(t, "hydrating")
              /\ pageRows' = [pageRows EXCEPT ![t] = [start |-> from, rows |-> read,
                                todo |-> ToSet(read) \ DOMAIN structureMap]]
         ELSE UNCHANGED unit /\ pageRows' = [pageRows EXCEPT ![t].start = from + ReportPage, ![t].rows = read]
  /\ Still /\ UNCHANGED <<repPc, CountVars, places, structureMap, tally, inventories, repFaults>>
Hydrate(t) ==
  /\ repPc = "rows" /\ unit[t] = "hydrating"
  /\ \E s \in pageRows[t].todo :
       /\ structureMap' = IF s \in report.readable THEN Noted(structureMap, s, s) ELSE structureMap
       /\ pageRows' = [pageRows EXCEPT ![t].todo = @ \ {s}]
  /\ Still /\ UNCHANGED <<repPc, unit, CountVars, places, tally, inventories, repFaults>>
Unknown(s) == <<"unknown", s>>
KeyIn(s) == IF s \in DOMAIN structureMap THEN <<"key", structureMap[s]>> ELSE Unknown(s)
CountRows(t) ==
  /\ repPc = "rows" /\ unit[t] = "hydrating" /\ pageRows[t].todo = {} /\ Becomes(t, "done")
  /\ tally' = [tally EXCEPT ![t] = [i \in DOMAIN pageRows[t].rows |-> KeyIn(pageRows[t].rows[i])]]
  /\ Still /\ UNCHANGED <<repPc, CountVars, places, pageRows, structureMap, inventories, repFaults>>

-----------------------------------------------------------------------------
(* The structures of all sites, at once: a site that answers 400 is left    *)
(* out.  The templates come from the headless list, or from the other one   *)
(* when that list answers 400 or is empty.                                  *)
Refuses(s, list) == <<s, list>> \in report.refused
ListDefinitions(s) ==
  /\ repPc = "inventory" /\ unit[s] = "waiting"
  /\ IF Refuses(s, "definitions") THEN Becomes(s, "skipped") /\ UNCHANGED inventories
     ELSE /\ inventories' = Noted(inventories, s, [d \in report.structures[s] |-> {}])
          /\ Becomes(s, IF report.withTemplates THEN "templates" ELSE "done")
  /\ Still /\ UNCHANGED <<repPc, CountVars, StructVars, repFaults>>
GroupByStructure(s, rows) ==
  Noted(inventories, s, [d \in report.structures[s] |-> {t.id : t \in {t \in rows : t.structure = d}}])
ListContentTemplates(s) ==
  /\ repPc = "inventory" /\ unit[s] = "templates"
  /\ LET rows == {t \in report.templates[s] : t.headless}
     IN  IF Refuses(s, "templates") \/ rows = {} THEN Becomes(s, "ddm") /\ UNCHANGED inventories
         ELSE Becomes(s, "done") /\ inventories' = GroupByStructure(s, rows)
  /\ Still /\ UNCHANGED <<repPc, CountVars, StructVars, repFaults>>
ListDdmTemplates(s) ==
  /\ repPc = "inventory" /\ unit[s] = "ddm" /\ Becomes(s, "done")
  /\ inventories' = GroupByStructure(s, report.templates[s])
  /\ Still /\ UNCHANGED <<repPc, CountVars, StructVars, repFaults>>

-----------------------------------------------------------------------------
\* A folder and those below it: the least set with it and with the children of its members.
Below(f) == {g \in DOMAIN branches : \A m \in SUBSET DOMAIN branches :
               f \in m /\ (\A h \in DOMAIN branches : branches[h].parent \in m => h \in m) => g \in m}
NoRows == [start |-> 0, rows |-> <<>>, todo |-> {}]
StartReport ==
  /\ repPc = "start"
  /\ CASE report.op = "sites" ->
              /\ repPc' = "count" /\ unit' = [s \in KeptSites |-> "waiting"]
              /\ UNCHANGED <<pageRows, structureMap, tally>>
       [] report.op = "structures" ->
              /\ repPc' = "inventory" /\ unit' = [s \in ToSet(report.sites) |-> "waiting"]
              /\ UNCHANGED <<pageRows, structureMap, tally>>
       [] OTHER -> /\ repPc' = "rows"
                   /\ unit' = [t \in UNION {{g} \X Below(report.selected[g]) : g \in DOMAIN report.selected} |-> "waiting"]
                   /\ pageRows' = [t \in DOMAIN unit' |-> NoRows]
                   /\ tally' = [t \in DOMAIN unit' |-> <<>>]
                   /\ structureMap' = [s \in report.defined |-> s]
  /\ Still /\ UNCHANGED <<CountVars, places, inventories, repFaults>>
ReportEnds ==
  /\ repPc \in {"count", "rows", "inventory"} /\ UnitsIn({"done", "skipped"}) = DOMAIN unit
  /\ repPc' = "done"
  /\ Still /\ UNCHANGED <<unit, CountVars, StructVars, inventories, repFaults>>
(* Elsewhere a request that fails fails the report; what is under way has   *)
(* no one left to tell.                                                     *)
ReportFails ==
  /\ repPc \in {"rows", "inventory"} /\ OneFails /\ repPc' = "error"
  /\ Still /\ UNCHANGED <<unit, CountVars, StructVars, inventories>>

(* Someone moves a folder to another one of its site, or adds a content to  *)
(* a folder.                                                                *)
EditTree ==
  /\ repEdits < ReportEdits /\ repPc \notin {"done", "error"} /\ repEdits' = repEdits + 1
  /\ \/ \E f, g \in DOMAIN branches :
          /\ report.op = "sites" /\ branches[f].site = branches[g].site /\ g \notin Below(f)
          /\ branches[f].parent # g
          /\ branches' = [branches EXCEPT ![f].parent = g] /\ shifted' = shifted \cup Below(f)
          /\ UNCHANGED filed
     \/ \E f \in DOMAIN filed, s \in report.readable :
          /\ report.op = "folders" /\ filed' = [filed EXCEPT ![f] = <<s>> \o @]
          /\ shifted' = shifted \cup {f} /\ UNCHANGED branches
  /\ UNCHANGED <<report, repPc, unit, CountVars, StructVars, inventories, repFaults>>

ReportStart(pc, faults, edits) ==
  /\ repPc = pc /\ branches = report.tree /\ filed = report.articles /\ unit = <<>> /\ places = <<>>
  /\ stacks = [s \in ToSet(report.sites) |-> <<>>] /\ counted = [s \in ToSet(report.sites) |-> <<>>]
  /\ pageRows = <<>> /\ structureMap = <<>> /\ tally = <<>> /\ skippedSites = <<>>
  /\ inventories = <<>> /\ shifted = {}
  /\ repFaults = faults /\ repEdits = edits
ReportInit == report \in Reports /\ ReportStart("start", 0, 0)
ReportNext ==
  \/ StartReport \/ TakePlace \/ ReportEnds \/ ReportFails \/ EditTree
  \/ \E u \in DOMAIN unit :
       \/ TakeSite(u) \/ ListRoots(u) \/ SiteCounted(u) \/ SkipSite(u)
       \/ \E r \in IF repPc = "count" THEN DOMAIN stacks[u] ELSE {} : BuildFolderStats(u, r)
       \/ StartTask(u) \/ ReadRows(u) \/ Hydrate(u) \/ CountRows(u)
       \/ ListDefinitions(u) \/ ListContentTemplates(u) \/ ListDdmTemplates(u)
ReportSpec == ReportInit /\ [][ReportNext]_reportVars

-----------------------------------------------------------------------------
(* Every site asked for is in the report or among the skipped ones, once,   *)
(* in whatever order the workers ended.                                     *)
SitesAreSettled ==
  repPc = "done" /\ report.op = "sites" =>
    /\ KeptSites = UnitsIn({"done"}) \cup ToSet(skippedSites)
    /\ UnitsIn({"done"}) \cap ToSet(skippedSites) = {}
    /\ IsInjective(skippedSites)

(* A folder that stays where it is is counted exactly once, with its site,  *)
(* whoever moves the others meanwhile.                                      *)
OfSite(s) == {f \in DOMAIN branches : branches[f].site = s}
Tagged(s) == \A f \in OfSite(s) : branches[f].parent = 0 => branches[f].says = s
TimesCounted(s, f) == Cardinality({i \in DOMAIN counted[s] : counted[s][i].folder = f})
FoldersAreCounted ==
  repPc = "done" /\ report.op = "sites" =>
    \A s \in UnitsIn({"done"}) : Tagged(s) => \A f \in OfSite(s) \ shifted : TimesCounted(s, f) = 1

(* Where nothing moved, no site that is left out by the limit has more      *)
(* contents than one that is shown, nor has a folder of one.                *)
LargestAreShown ==
  repPc = "done" /\ report.op = "sites" =>
    /\ shifted = {} /\ (\A s \in KeptSites : Tagged(s)) /\ report.order = "content" =>
         \A s \in ToSet(SiteRanking), t \in UnitsIn({"done"}) \ ToSet(SiteRanking) :
           MapThenSumSet(LAMBDA f : branches[f].contents, OfSite(s)) >= MapThenSumSet(LAMBDA f : branches[f].contents, OfSite(t))
    /\ \A s \in UnitsIn({"done"}) : \A i, j \in DOMAIN TopFolders(s) :
         i < j => VolumeOf(s, TopFolders(s)[i]) >= VolumeOf(s, TopFolders(s)[j])

(* Every content of a folder is counted, under its structure if anyone can  *)
(* read it, whichever task reads it first; at most a few lists of contents  *)
(* are asked for at once.                                                   *)
RowsAreCounted ==
  /\ repPc = "rows" => Cardinality(UnitsIn({"reading"})) <= ReportPool
  /\ repPc = "done" /\ report.op = "folders" =>
       \A t \in DOMAIN unit : t[2] \notin shifted =>
         /\ Len(tally[t]) = Len(filed[t[2]])
         /\ \A i \in DOMAIN tally[t] :
              tally[t][i] = IF filed[t[2]][i] \in report.defined \cup report.readable
                            THEN <<"key", filed[t[2]][i]>> ELSE Unknown(filed[t[2]][i])

(* Only a site without the endpoint is left out, and the templates listed   *)
(* under a structure are those bound to it: all of them where the headless  *)
(* list shows all or none.                                                  *)
InventoryIsWhole ==
  repPc = "done" /\ report.op = "structures" =>
    /\ DOMAIN inventories = {s \in ToSet(report.sites) : ~Refuses(s, "definitions")}
    /\ \A s \in DOMAIN inventories : \A d \in report.structures[s] :
         LET bound == {t \in report.templates[s] : t.structure = d}
         IN  /\ inventories[s][d] \subseteq {t.id : t \in bound}
             /\ report.withTemplates /\ (Refuses(s, "templates") \/ Cardinality({t.headless : t \in report.templates[s]}) < 2)
                => inventories[s][d] = {t.id : t \in bound}

(* The three reports over many sites say what the portal has.               *)
ReportsAreFaithful == SitesAreSettled /\ FoldersAreCounted /\ LargestAreShown /\ RowsAreCounted /\ InventoryIsWhole
=============================================================================
