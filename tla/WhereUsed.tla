----------------------------- MODULE WhereUsed -----------------------------
(***************************************************************************)
(* Where a structure, template, fragment, widget or ADT is used: the keys  *)
(* asked for are resolved against the catalogs of the sites, the sites are *)
(* chosen, and site by site every page and every web content with a display*)
(* page is listed, and inspected by a pool of workers.  The portal may     *)
(* change between a list and an inspection, and a page that cannot be      *)
(* inspected is reported as failed.                                        *)
(***************************************************************************)
EXTENDS PageInventory

CONSTANTS Hunts, HuntWorkers,
          HuntFaults, HuntEdits, HuntRuns    \* bounds: requests that fail, changes of the portal, scans of one process

ASSUME HuntAssumption ==
  /\ {HuntFaults, HuntEdits, HuntRuns} \subseteq Nat /\ HuntWorkers \in Nat \ {0}
  /\ \A h \in Hunts : h.query.sites \in Seq([text : STRING]) /\ h.query.limit \in Nat
  \* The list of sites has one of each URL.
  /\ \A h \in Hunts : \A w \in {h.web} \cup h.edits :
       /\ IsFiniteSet(DOMAIN w.sites) /\ \A f, g \in DOMAIN w.sites : w.sites[f].url = w.sites[g].url => f = g
       /\ IsFiniteSet(DOMAIN w.layouts) /\ DOMAIN w.layouts \subseteq Nat /\ IsFiniteSet(DOMAIN w.articles)
  /\ \A h \in Hunts : DOMAIN h = {"web", "refused", "query", "fold", "edits"}
  /\ \A h \in Hunts : h.query.type \in {"structure", "template", "fragment", "widget", "portlet", "adt"}

VARIABLES hunt,         \* the case
          before,       \* the portal before the last change
          huntPc,
          huntKeys,     \* keys the evidence is compared with
          chosen,       \* sites to scan, in order
          siteAt,       \* index of the site being scanned
          scopes,       \* layout scopes of this site still to list
          candidates,   \* pages of this site: [url, origin]
          nextPage,     \* index the next worker takes
          busy,         \* worker -> index of its candidate, 0 when it has ended
          outcomes,     \* index -> what became of the candidate
          reports,      \* one per site scanned
          unsupported,  \* unsupportedDisplayPageSourceCache: sites without the headless list
          unseen,       \* a source of pages, or a request of a page, was left out without a word
          huntFaults, huntEdits, huntRuns

huntVars == <<web, hunt, before, huntPc, huntKeys, chosen, siteAt, scopes, candidates, nextPage, busy, outcomes,
              reports, unsupported, unseen, huntFaults, huntEdits, huntRuns>>
Query == hunt.query

-----------------------------------------------------------------------------
(* The keys: an ADT must be in a catalog, a fragment or template that is    *)
(* not is taken as it stands.                                               *)
Ancestors(g) == LET up[h \in DOMAIN web.sites] ==
                      {h} \cup IF web.sites[h].parent = 0 THEN {} ELSE up[web.sites[h].parent]
                IN  up[g] \cup SiteOf("global")
ExplicitSite(s) == {g \in DOMAIN web.sites : s.text \in {web.sites[g].url, web.sites[g].id}}
SearchSites == IF Query.sites = <<>> THEN DOMAIN web.sites
               ELSE UNION {UNION {Ancestors(g) : g \in ExplicitSite(Query.sites[i])} : i \in DOMAIN Query.sites}
Fold(k) == IF Query.type = "fragment" /\ k \in DOMAIN hunt.fold THEN hunt.fold[k] ELSE k
CatalogRows(type) == {r \in web.catalog : r.type = type /\ r.site \in SearchSites}
AdtKeys(k) == UNION {{r.style, r.keyStyle} : r \in {r \in CatalogRows("adt") : k \in {r.id, r.style, r.key, r.name}}}
FragmentKeys(k) == {r.key : r \in {r \in CatalogRows("fragment") : Fold(k) \in {Fold(r.key), Fold(r.name)}}}
TemplateKeys(k) == {r.key : r \in {r \in CatalogRows("template") : k \in {r.id, r.key, r.name}}}
OrItself(keys, k) == IF keys = {} THEN {k} ELSE keys
KeysFor(k) == CASE Query.type = "adt" -> AdtKeys(k)
                [] Query.type = "fragment" -> OrItself(FragmentKeys(k), k)
                [] Query.type = "template" -> OrItself(TemplateKeys(k), k)
                [] OTHER -> {k}

(* The sites: those asked for, in this order, one of each URL; or all but   *)
(* the excluded ones, in the order asked for, up to a limit.                *)
UnlistedSite(s) == [url |-> s.text, id |-> "-1"]
Named1(s) == IF ExplicitSite(s) = {} THEN UnlistedSite(s)
             ELSE LET g == OneOf(ExplicitSite(s)) IN [url |-> web.sites[g].url, id |-> web.sites[g].id]
Count(g) == IF g \in DOMAIN web.counts THEN web.counts[g] ELSE -1
Precedes(g, h) ==
  LET a == web.sites[g]
      b == web.sites[h]
  IN  CASE Query.order = "name" -> a.byName < b.byName \/ (a.byName = b.byName /\ a.byUrl < b.byUrl)
        [] Query.order = "content" -> Count(g) > Count(h) \/ (Count(g) = Count(h) /\ a.byUrl < b.byUrl)
        [] OTHER -> a.byUrl < b.byUrl
\* Some numbers in order, and the rows that are the first of their URL.
ByPlace(ls) == [k \in 1 .. Cardinality(ls) |-> CHOOSE x \in ls : Cardinality({y \in ls : y <= x}) = k]
FirstOnes(rows) == {i \in DOMAIN rows : \A j \in DOMAIN rows : j < i => rows[j].url # rows[i].url}
Dedupe(rows) == LET kept == ByPlace(FirstOnes(rows)) IN [k \in DOMAIN kept |-> rows[kept[k]]]
OfferedSites == {g \in DOMAIN web.sites : web.sites[g].url \notin Query.excluded}
SiteOrders == {q \in [1 .. Cardinality(OfferedSites) -> OfferedSites] :
                 \A i, j \in DOMAIN q : i < j => q[i] # q[j] /\ ~Precedes(q[j], q[i])}
SelectSites(order) ==
  IF Query.sites # <<>> THEN Dedupe([i \in DOMAIN Query.sites |-> Named1(Query.sites[i])])
  ELSE [i \in {i \in DOMAIN order : Query.limit = 0 \/ i <= Query.limit} |->
          [url |-> web.sites[order[i]].url, id |-> web.sites[order[i]].id]]

-----------------------------------------------------------------------------
\* What the portal lists of one site.

Here == chosen[siteAt].url
HereIds == SiteOf(Here)
DepthOf(l) == LET up[n \in DOMAIN web.layouts] ==
                    IF web.layouts[n].parent \notin DOMAIN web.layouts THEN 0 ELSE 1 + up[web.layouts[n].parent]
              IN  up[l]
LayoutTree(private) == ByPlace({l \in UNION {LayoutsOf(g, private) : g \in HereIds} : DepthOf(l) <= Query.maxDepth})
LayoutCandidates(private) ==
  LET ls == LayoutTree(private)
  IN  [i \in DOMAIN ls |-> [url |-> PageUrl(Here, private, FALSE, web.layouts[ls[i]].url), origin |-> "layout"]]
DisplayCandidates(titles, origin) ==
  LET ts == SetToSeq(NonEmpty(titles))
  IN  [i \in DOMAIN ts |-> [url |-> PageUrl(Here, FALSE, TRUE, ts[i]), origin |-> origin]]
HeadlessTitles == {web.articles[a].url : a \in {a \in DOMAIN web.articles : web.articles[a].site \in HereIds /\ web.articles[a].headless}}
(* The folders below the root, asked for one by one; a folder seen before   *)
(* is not entered again.                                                    *)
Subfolders(fs) == {f \in DOMAIN web.folders : web.folders[f] \in fs}
JournalFolders == LET below[n \in 0 .. Cardinality(DOMAIN web.folders)] ==
                        IF n = 0 THEN {0} ELSE below[n - 1] \cup Subfolders(below[n - 1])
                  IN  below[Cardinality(DOMAIN web.folders)]
JournalTitles == {web.articles[a].url : a \in {a \in DOMAIN web.articles :
                    web.articles[a].site \in HereIds /\ web.articles[a].approved /\ web.articles[a].folder \in JournalFolders}}

HuntGoes(pc) == huntPc' = pc
SamePortal == UNCHANGED <<web, before, hunt, huntRuns, huntEdits>>
PoolIdle == UNCHANGED <<nextPage, busy, outcomes>>
Waiting == [what |-> "waiting", matches |-> {}]
Admitted(r) == r \notin hunt.refused

ResolveQuery ==
  /\ huntPc = "start" /\ SamePortal /\ PoolIdle
  /\ huntKeys' = UNION {KeysFor(k) : k \in Query.keys}
  /\ \E order \in SiteOrders : chosen' = SelectSites(order)
  /\ siteAt' = 1 /\ candidates' = <<>>
  /\ scopes' = IF Query.private THEN <<FALSE, TRUE>> ELSE <<FALSE>>
  /\ HuntGoes(CASE Query.keys = {} \/ (\E k \in Query.keys : KeysFor(k) = {}) -> "error"
                [] Query.keys # {} /\ (\A k \in Query.keys : KeysFor(k) # {}) /\ (Query.plan \/ chosen' = <<>>) -> "done"
                [] OTHER -> "layouts")
  /\ UNCHANGED <<reports, unsupported, unseen, huntFaults>>

(* A scope that is refused, with 403 or 404, has no pages.                  *)
ListLayouts ==
  /\ huntPc = "layouts" /\ scopes # <<>> /\ SamePortal /\ PoolIdle
  /\ scopes' = Tail(scopes)
  /\ IF HereIds = {} THEN HuntGoes("error") /\ UNCHANGED <<candidates, unseen>>
     ELSE /\ candidates' = IF Admitted("layouts") THEN candidates \o LayoutCandidates(Head(scopes)) ELSE candidates
          /\ unseen' = (unseen \/ ~Admitted("layouts"))
          /\ UNCHANGED huntPc
  /\ UNCHANGED <<huntKeys, chosen, siteAt, reports, unsupported, huntFaults>>
(* The workers of the pool take the first pages at once.                    *)
StartPool(cs) ==
  /\ HuntGoes("pages") /\ candidates' = Dedupe(cs) /\ outcomes' = [i \in DOMAIN candidates' |-> Waiting]
  /\ busy' = [w \in 1 .. HuntWorkers |-> IF w \in DOMAIN candidates' THEN w ELSE 0]
  /\ nextPage' = (IF HuntWorkers < Len(candidates') THEN HuntWorkers ELSE Len(candidates')) + 1
LayoutsListed ==
  /\ huntPc = "layouts" /\ scopes = <<>> /\ SamePortal
  /\ IF Query.type \in {"structure", "template"} THEN HuntGoes("headless") /\ PoolIdle /\ UNCHANGED candidates
     ELSE StartPool(candidates)
  /\ UNCHANGED <<huntKeys, chosen, siteAt, scopes, reports, unsupported, unseen, huntFaults>>

(* The headless list may be missing on this portal, which is remembered, or *)
(* refused, which ends the command.                                         *)
ListHeadless ==
  /\ huntPc = "headless" /\ SamePortal /\ PoolIdle
  /\ CASE Here \in unsupported -> HuntGoes("journal") /\ UNCHANGED <<candidates, unsupported>>
       [] Here \notin unsupported /\ ~Admitted("headless-list") -> HuntGoes("error") /\ UNCHANGED <<candidates, unsupported>>
       [] Here \notin unsupported /\ Admitted("headless-list") /\ ~Admitted("headless-api") ->
            HuntGoes("journal") /\ unsupported' = unsupported \cup {Here} /\ UNCHANGED candidates
       [] OTHER -> /\ HuntGoes("journal") /\ UNCHANGED unsupported
                   /\ candidates' = candidates \o DisplayCandidates(HeadlessTitles, "headless")
  /\ UNCHANGED <<huntKeys, chosen, siteAt, scopes, reports, unseen, huntFaults>>
ListJournal ==
  /\ huntPc = "journal" /\ SamePortal
  /\ IF Admitted("journal")
     THEN StartPool(candidates \o DisplayCandidates(JournalTitles, "journal"))
     ELSE HuntGoes("error") /\ PoolIdle /\ UNCHANGED candidates
  /\ UNCHANGED <<huntKeys, chosen, siteAt, scopes, reports, unsupported, unseen, huntFaults>>

-----------------------------------------------------------------------------
(* The evidence that counts: of the type asked for, with a key asked for;   *)
(* a content structure that an article of the page already stands for is    *)
(* left out.                                                                *)
OfType(e) == IF Query.type \in {"widget", "portlet"} THEN e.type \in {"widget", "portlet"} ELSE e.type = Query.type
Redundant(e, es) ==
  /\ Query.type = "structure" /\ e.kind = "contentStructure"
  /\ \E c \in es : c.kind = "journalArticleStructure" /\ (c.key = e.key \/ c.id = e.id)
UsesFound(evidence) ==
  LET es == {e \in evidence : OfType(e) /\ e.kind # "journalArticle" /\ Fold(e.key) \in {Fold(k) : k \in huntKeys}}
  IN  {e \in es : ~Redundant(e, es)}

(* What becomes of a page: an article that is only in the journal and has   *)
(* no content to show is passed over, any other trouble is a failed page.   *)
PageOutcome(c, bad) ==
  LET page == Inspect(c.url, bad)
      found == UsesFound(page.evidence)
      what == CASE page.status = "noContent" /\ c.origin = "journal" -> "skipped"
                [] page.status = "failed" \/ (page.status = "noContent" /\ c.origin # "journal") -> "failed"
                [] page.status \in {"ok", "root"} /\ found # {} -> "matched"
                [] OTHER -> "unmatched"
  IN  [what |-> what, matches |-> IF what = "matched" THEN found ELSE {}]
PageRequests == {"element", "links", "article", "headless", "structure-by-id", "structures", "group", "chain", "display-templates",
                 "html", "class-name", "layouts", "site-pages", "url-title", "site"}
InspectPage(w) ==
  /\ huntPc = "pages" /\ busy[w] # 0 /\ SamePortal
  /\ \E failing \in {{}} \cup (IF huntFaults < HuntFaults THEN {{r} : r \in PageRequests} ELSE {}) :
       LET bad == failing \cup hunt.refused
           o == PageOutcome(candidates[busy[w]], bad)
       IN  /\ outcomes' = [outcomes EXCEPT ![busy[w]] = o]
           /\ huntFaults' = huntFaults + Cardinality(failing)
           /\ unseen' = (unseen \/ (bad # {} /\ o.what # "failed"))
  /\ busy' = [busy EXCEPT ![w] = IF nextPage <= Len(candidates) THEN nextPage ELSE 0]
  /\ nextPage' = nextPage + 1
  /\ UNCHANGED <<huntPc, huntKeys, chosen, siteAt, scopes, candidates, reports, unsupported>>

(* The reports of a site, in the order of its pages; then the next site.    *)
SiteScanned ==
  /\ huntPc = "pages" /\ (\A w \in DOMAIN busy : busy[w] = 0) /\ SamePortal
  /\ reports' = Append(reports, [site |-> Here, scanned |-> Len(candidates),
        failed |-> Cardinality({i \in DOMAIN outcomes : outcomes[i].what = "failed"}),
        pages |-> [i \in DOMAIN candidates |-> [url |-> candidates[i].url, what |-> outcomes[i].what, matches |-> outcomes[i].matches]]])
  /\ HuntGoes(IF siteAt < Len(chosen) THEN "layouts" ELSE "done") /\ siteAt' = siteAt + 1
  /\ scopes' = IF Query.private THEN <<FALSE, TRUE>> ELSE <<FALSE>>
  /\ candidates' = <<>> /\ outcomes' = <<>>
  /\ UNCHANGED <<huntKeys, chosen, nextPage, busy, unsupported, unseen, huntFaults>>

(* Another request fails, and the command with it.                          *)
HuntFails ==
  /\ huntPc \in {"layouts", "headless", "journal"} /\ huntFaults < HuntFaults
  /\ huntFaults' = huntFaults + 1
  /\ HuntGoes("error") /\ SamePortal /\ PoolIdle
  /\ UNCHANGED <<huntKeys, chosen, siteAt, scopes, candidates, reports, unsupported, unseen>>

(* Editors change the portal; the process is asked again, and what the      *)
(* portal refuses may have changed meanwhile.                               *)
EditPortal ==
  /\ huntEdits < HuntEdits /\ huntPc \notin {"done", "error"} /\ huntEdits' = huntEdits + 1
  /\ before' = web /\ web' \in hunt.edits
  /\ UNCHANGED <<hunt, huntPc, huntKeys, chosen, siteAt, scopes, candidates, nextPage, busy, outcomes, reports, unsupported,
                 unseen, huntFaults, huntRuns>>
HuntAgain ==
  /\ huntPc \in {"done", "error"} /\ huntRuns < HuntRuns /\ huntRuns' = huntRuns + 1
  /\ HuntGoes("start") /\ reports' = <<>> /\ unseen' = FALSE /\ before' = web
  /\ hunt' \in {hunt, [hunt EXCEPT !.refused = {}]}
  /\ UNCHANGED <<web, huntKeys, chosen, siteAt, scopes, candidates, nextPage, busy, outcomes,
                 unsupported, huntFaults, huntEdits>>

HuntStart(pc, faults, edits, runs) ==
  /\ web = hunt.web /\ before = hunt.web /\ huntPc = pc /\ huntKeys = {} /\ chosen = <<>> /\ siteAt = 1
  /\ scopes = <<>> /\ candidates = <<>> /\ nextPage = 1 /\ busy = [w \in 1 .. HuntWorkers |-> 0]
  /\ outcomes = <<>>
  /\ reports = <<>> /\ unsupported = {} /\ unseen = FALSE /\ huntFaults = faults
  /\ huntEdits = edits /\ huntRuns = runs
HuntInit == hunt \in Hunts /\ HuntStart("start", 0, 0, 1)
HuntStep == \/ ResolveQuery \/ ListLayouts \/ LayoutsListed \/ ListHeadless \/ ListJournal \/ SiteScanned
            \/ \E w \in 1 .. HuntWorkers : InspectPage(w)
HuntNext == HuntStep \/ HuntFails \/ EditPortal \/ HuntAgain
HuntSpec == HuntInit /\ [][HuntNext]_huntVars

-----------------------------------------------------------------------------
(* What uses a resource, said of the portal's data alone.                   *)
InScope(w, l) == {l} \cup ({w.layouts[l].master} \cap {n \in DOMAIN w.layouts :
                            w.layouts[n].site = w.layouts[l].site /\ w.layouts[n].private = w.layouts[l].private})
Parts(w, l) == IF w.layouts[l].type # "content" THEN {}
               ELSE UNION {ToSet(w.layouts[n].els) : n \in InScope(w, l)}
LinkRefs(w, l) == IF w.layouts[l].type # "content" THEN {}
                  ELSE UNION {UNION {ToSet(k.refs) : k \in ToSet(w.layouts[n].links) \cup ToSet(w.layouts[n].els)} : n \in InScope(w, l)}
There(w, r) == /\ r.article \in DOMAIN w.articles /\ w.articles[r.article].site = r.group
               /\ (r.byKey /\ w.articles[r.article].approved) \/ (r.byId /\ w.articles[r.article].headless)
ShownOn(w, l) == {r.article : r \in {r \in LinkRefs(w, l) : There(w, r)}}
               \cup IF w.layouts[l].type \in {"content", "portlet"}
                    THEN {a \in w.layouts[l].html \cap DOMAIN w.articles : w.articles[a].approved /\ w.articles[a].site = w.layouts[l].site} ELSE {}
(* A structure goes by its key, or by the id the headless API knows it by.  *)
StructuresOf(w, as) == {w.structures[w.articles[a].structure].key : a \in as}
                       \cup {w.articles[a].structure : a \in {a \in as : w.articles[a].headless}}
Uses(w, l) ==
  CASE Query.type = "structure" ->
         UNION {e.structures : e \in {e \in Parts(w, l) : e.kind = "fragment"}} \cup StructuresOf(w, ShownOn(w, l))
    [] Query.type = "template" ->
         UNION {e.templates : e \in {e \in Parts(w, l) : e.kind = "fragment"}}
         \cup {w.articles[r.article].template : r \in {r \in LinkRefs(w, l) :
                  There(w, r) /\ w.articles[r.article].approved
                  /\ \A q \in LinkRefs(w, l) : q.article = r.article => q.template = ""}}
    [] Query.type = "fragment" -> {Fold(e.key) : e \in {e \in Parts(w, l) : e.kind = "fragment"}}
    [] Query.type = "adt" -> {e.adt : e \in {e \in Parts(w, l) : e.kind = "widget"}}
    [] OTHER -> {e.key : e \in {e \in Parts(w, l) : e.kind = "widget"}} \cup {p.name : p \in w.layouts[l].columns}
Wants(used) == {Fold(k) : k \in huntKeys} \cap used # {}
SiteIn(w, url) == {g \in DOMAIN w.sites : w.sites[g].url = url}
LayoutAt(w, u) == {l \in DOMAIN w.layouts : w.layouts[l].site \in SiteIn(w, u.site) /\ w.layouts[l].private = u.private /\ w.layouts[l].url = u.name}
ArticleAt(w, u) == {a \in DOMAIN w.articles : w.articles[a].site \in SiteIn(w, u.site) /\ w.articles[a].url = u.name}

(* Nothing was refused, failed or changed: every page of the sites scanned  *)
(* that uses what was asked for is reported, those behind a master page and *)
(* the display pages of contents included, and none of them failed.         *)
Undisturbed == ~unseen /\ huntFaults = 0 /\ huntEdits = 0 /\ hunt.refused = {}
Reported(u) == \E i \in DOMAIN reports : \E j \in DOMAIN reports[i].pages :
                 reports[i].pages[j].url = u /\ reports[i].pages[j].what = "matched"
EveryUseIsReported ==
  huntPc = "done" /\ Undisturbed /\ ~Query.plan =>
    /\ \A l \in DOMAIN web.layouts :
         LET u == PageUrl(web.sites[web.layouts[l].site].url, web.layouts[l].private, FALSE, web.layouts[l].url)
         IN  /\ u.site \in {reports[i].site : i \in DOMAIN reports}
             /\ (u.private => Query.private) /\ DepthOf(l) <= Query.maxDepth /\ Wants(Uses(web, l))
             => Reported(u)
    /\ \A a \in DOMAIN web.articles :
         LET u == PageUrl(web.sites[web.articles[a].site].url, FALSE, TRUE, web.articles[a].url)
         IN  /\ u.site \in {reports[i].site : i \in DOMAIN reports}
             /\ web.articles[a].approved /\ web.articles[a].folder \in JournalFolders
             /\ Query.type = "structure"
             /\ Wants(StructuresOf(web, {a}))
             => Reported(u)
    /\ \A i \in DOMAIN reports : reports[i].failed = 0

(* Whatever fails, a page that is reported is one the portal had, now or    *)
(* before the last change, and that then used what was asked for.           *)
UsedAt(w, u) ==
  IF u.w THEN \E a \in ArticleAt(w, u) : Wants(StructuresOf(w, {a}))
  ELSE \E l \in LayoutAt(w, u) : Wants(Uses(w, l))
OnlyUsesAreReported ==
  Query.type # "template" =>
    \A i \in DOMAIN reports : \A j \in DOMAIN reports[i].pages :
      reports[i].pages[j].what = "matched" => \E w \in {web, before} : UsedAt(w, reports[i].pages[j].url)

(* Every page of a site is inspected once, by one worker, and is counted as *)
(* what became of it; the sites are scanned once each.                      *)
EveryPageIsCounted ==
  /\ \A v, w \in DOMAIN busy : v # w /\ busy[v] # 0 => busy[v] # busy[w]
  /\ \A i \in DOMAIN reports :
       /\ \A h \in DOMAIN reports : reports[h].site = reports[i].site => h = i
       /\ \A j, k \in DOMAIN reports[i].pages : reports[i].pages[j].url = reports[i].pages[k].url => j = k
       /\ reports[i].scanned = Len(reports[i].pages)
       /\ \A j \in DOMAIN reports[i].pages : reports[i].pages[j].what # "waiting"
  /\ huntPc = "done" /\ ~Query.plan => Len(reports) = Len(chosen)

(* A report of uses is complete, true and counts every page once.           *)
UsesAreFound == EveryUseIsReported /\ OnlyUsesAreReported /\ EveryPageIsCounted
=============================================================================
