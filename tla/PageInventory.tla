--------------------------- MODULE PageInventory ---------------------------
(***************************************************************************)
(* What the inventory of one page says the page is made of: fragments,     *)
(* widgets, portlets, the web contents placed on it with their structures  *)
(* and templates, and what its master page has.  The answer is put         *)
(* together from some fifteen requests; most of those that fail leave out  *)
(* what they would have told, without a word, and a few reject the page.   *)
(*                                                                         *)
(* The portal does not change while one page is inspected.                 *)
(***************************************************************************)
EXTENDS Integers, Sequences, SequencesExt, FiniteSets, FiniteSetsExt, TLC

VARIABLE web    \* [sites, layouts, articles, structures, displays, locales, home] as the portal has them

Say(type, key, kind, id) == [type |-> type, key |-> key, kind |-> kind, id |-> id]
NonEmpty(keys) == keys \ {""}
OneOf(s) == CHOOSE x \in s : TRUE

-----------------------------------------------------------------------------
(* Where a page is: by its URL in the tree of its site, or, when it is      *)
(* public, by the URL it has in another language; the language of the       *)
(* request is tried first.                                                  *)
LayoutsOf(g, private) == {l \in DOMAIN web.layouts : web.layouts[l].site = g /\ web.layouts[l].private = private}
Locales(hint) == (IF hint = "" THEN <<>> ELSE <<hint>>) \o SelectSeq(web.locales, LAMBDA c : c # hint)
InLocale(g, url, c) == {l \in LayoutsOf(g, FALSE) : c \in DOMAIN web.layouts[l].local /\ web.layouts[l].local[c] = url}
FindLayout(g, url, private, hint, bad) ==
  LET exact == {l \in LayoutsOf(g, private) : web.layouts[l].url = url}
      i == SelectInSeq(Locales(hint), LAMBDA c : InLocale(g, url, c) # {})
  IN  IF exact # {} THEN exact
      ELSE IF private \/ "site-pages" \in bad \/ i = 0 THEN {}
      ELSE InLocale(g, url, Locales(hint)[i])
FindByPlid(g, private, l) == {l} \cap LayoutsOf(g, private)

(* The request an URL stands for; /w/ is a display page.                    *)
PageUrl(site, private, w, name) == [site |-> site, private |-> private, w |-> w, name |-> name, locale |-> ""]
RequestKind(u) == CASE u.name = "" /\ u.site = "" -> "home"
                    [] u.name = "" /\ u.site # "" -> "root"
                    [] u.w /\ u.site # "" -> "display"
                    [] u.w /\ u.site = "" -> "refused"
                    [] OTHER -> "regular"
(* The page a home redirects to, when it is a page of this site.            *)
HomeOf(u) == IF u.site \in DOMAIN web.home THEN web.home[u.site] ELSE u
Redirected(u) == LET h == HomeOf(u)
                 IN  IF RequestKind(h) = "regular" /\ (u.site = "" \/ h.site = u.site) THEN h ELSE u

-----------------------------------------------------------------------------
(* The elements of a page and its portlets.                                 *)
FirstLink(links, name) == SelectInSeq(links, LAMBDA k : name \in k.has)
ElementSays(e, links) ==
  IF e.kind = "fragment"
  THEN {Say("fragment", e.key, "fragmentEntry", "")}
       \cup {Say("template", k, "fragmentMappedTemplate", "") : k \in e.templates}
       \cup {Say("structure", k, "fragmentMappedStructure", "") : k \in e.structures}
  ELSE LET i == FirstLink(links, e.key)
       IN  {Say("widget", k, "widgetEntry", "") : k \in {e.key} \cup (IF i = 0 THEN {} ELSE {links[i].id})}
           \cup {Say("adt", k, "widgetAdt", "") : k \in NonEmpty({e.adt})}
FragmentEvidence(els, links) == UNION {ElementSays(els[i], links) : i \in DOMAIN els}
PortletEvidence(columns) == {Say("portlet", k, "portlet", "") : k \in UNION {{p.id, p.name} : p \in columns}}

(* References to web contents: in the links, then in the elements; one of   *)
(* each article is left, with the first template any of them names.         *)
Ref(a, g, t, key, id) == [article |-> a, group |-> g, template |-> t, byKey |-> key, byId |-> id]
RefsOf(links, els) == FlattenSeq([i \in DOMAIN links |-> links[i].refs]) \o FlattenSeq([i \in DOMAIN els |-> els[i].refs])
NamedBy(refs, r) == {i \in DOMAIN refs : <<refs[i].group, refs[i].article, refs[i].byKey>> = <<r.group, r.article, r.byKey>>}
UpsertRefs(refs) ==
  {LET same == NamedBy(refs, r)
       with == {i \in same : refs[i].template # ""}
   IN  [r EXCEPT !.template = IF with = {} THEN "" ELSE refs[Min(with)].template,
                 !.byId = \E i \in same : refs[i].byId] : r \in ToSet(refs)}

-----------------------------------------------------------------------------
(* One web content: asked for by its key, over JSONWS, and by its id or     *)
(* uuid, over the headless API, in whichever order the reference allows.    *)
KeyOf(a) == web.structures[web.articles[a].structure].key
Visible(a, bad) == a \in DOMAIN web.articles /\ web.articles[a].headless /\ "headless" \notin bad
Approved(a, g, bad) == a \in DOMAIN web.articles /\ web.articles[a].approved /\ web.articles[a].site = g /\ "article" \notin bad
ResolveReference(r, bad) ==
  LET json == Approved(r.article, r.group, bad) /\ (r.byKey \/ Visible(r.article, bad))
  IN  [json |-> json, content |-> Visible(r.article, bad) /\ (r.byId \/ json)]

TemplateCandidates(a, bad) ==
  LET d == web.articles[a].display
  IN  IF d = "" \/ "display-templates" \in bad THEN {} ELSE web.displays[d]
RenderedTemplates(a, template, bad) ==
  {IF template = "" THEN web.articles[a].rendered ELSE template, web.articles[a].rendered} \cup TemplateCandidates(a, bad)
(* The summary; the sites of its structure and template are looked up along *)
(* the chain of its site, and no chain rejects the page.                    *)
Summary(r, has, full, sited, bad) ==
  LET key == IF has.json \/ (has.content /\ "structure-by-id" \notin bad) THEN KeyOf(r.article) ELSE ""
      template == IF r.template # "" THEN r.template ELSE IF has.json THEN web.articles[r.article].template ELSE ""
  IN  [article |-> r.article, group |-> r.group, structure |-> key,
       id |-> IF has.content THEN web.articles[r.article].structure ELSE "",
       templates |-> NonEmpty({template} \cup IF full /\ has.content THEN RenderedTemplates(r.article, template, bad) ELSE {}),
       rejected |-> "chain" \in bad /\ (sited \/ "group" \notin bad) /\ NonEmpty({key, template}) # {}]
Summaries(refs, full, bad) == {Summary(r, ResolveReference(r, bad), full, FALSE, bad) : r \in refs}

ContentStructures(sums, bad) == IF "structures" \in bad THEN {} ELSE NonEmpty({s.id : s \in sums})
ArticleEvidence(sums) ==
  UNION {{Say("journalArticle", s.article, "journalArticle", s.id)}
         \cup {Say("structure", k, "journalArticleStructure", s.id) : k \in NonEmpty({s.structure})}
         \cup {Say("template", k, "journalArticleTemplate", s.id) : k \in s.templates} : s \in sums}
StructureEvidence(ids) == UNION {{Say("structure", web.structures[i].key, "contentStructure", i),
                                  Say("structure", i, "contentStructure", i)} : i \in ids}

-----------------------------------------------------------------------------
Page(sums, evidence) == [status |-> IF \E s \in sums : s.rejected THEN "failed" ELSE "ok", evidence |-> evidence]
NoPage(why) == [status |-> why, evidence |-> {}]

(* What a content page itself shows, and its master.                        *)
Elements(l, bad) == IF "element" \in bad THEN <<>> ELSE web.layouts[l].els
Links(l, bad) == IF "links" \in bad THEN <<>> ELSE web.layouts[l].links
PlacedOn(l, bad) == Summaries(UpsertRefs(RefsOf(Links(l, bad), Elements(l, bad))), FALSE, bad)
BugMasterEvidence(l, bad) == Page({}, {})
MasterEvidence(l, bad) ==
  LET masters == IF web.layouts[l].master = 0 THEN {}
                 ELSE FindByPlid(web.layouts[l].site, web.layouts[l].private, web.layouts[l].master)
      sums == UNION {PlacedOn(n, bad) : n \in masters}
  IN  Page(sums, UNION {FragmentEvidence(Elements(n, bad), Links(n, bad)) : n \in masters}
                 \cup ArticleEvidence(sums) \cup StructureEvidence(ContentStructures(sums, bad)))

(* The contents a rendered page shows besides; those found before win.      *)
Rendered(l, bad) ==
  IF "html" \in bad THEN {}
  ELSE Summaries({Ref(a, web.layouts[l].site, "", TRUE, FALSE) : a \in web.layouts[l].html}, TRUE, bad)
MergeArticles(existing, discovered) ==
  existing \cup {s \in discovered : \A e \in existing : <<e.group, e.article>> # <<s.group, s.article>>}

RegularPage(l, bad) ==
  LET content == web.layouts[l].type = "content"
      master == IF content THEN MasterEvidence(l, bad) ELSE Page({}, {})
      placed == IF content THEN PlacedOn(l, bad) ELSE {}
      rendered == IF web.layouts[l].type \in {"content", "portlet"} THEN Rendered(l, bad) ELSE {}
      sums == MergeArticles(placed, rendered)
      elements == IF content THEN FragmentEvidence(Elements(l, bad), Links(l, bad)) ELSE {}
  IN  IF "class-name" \in bad \/ master.status # "ok" THEN NoPage("failed")
      ELSE Page(placed \cup rendered,
                elements \cup PortletEvidence(web.layouts[l].columns) \cup ArticleEvidence(sums)
                \cup StructureEvidence(ContentStructures(sums, bad)) \cup master.evidence)

(* The article of a display page: by the headless list, else over JSONWS.   *)
ArticlesAt(g, title, bad) ==
  {a \in DOMAIN web.articles :
     /\ web.articles[a].site = g /\ web.articles[a].url = title
     /\ Visible(a, bad) \/ "url-title" \notin bad}
DisplayPage(g, title, bad) ==
  LET as == ArticlesAt(g, title, bad)
      a == OneOf(as)
      has == [json |-> "url-title" \notin bad \/ Approved(a, g, bad), content |-> Visible(a, bad)]
      r == Ref(a, g, IF "url-title" \notin bad THEN web.articles[a].template ELSE "", TRUE, FALSE)
      sums == {Summary(r, has, TRUE, TRUE, bad)}
  IN  IF as = {} THEN NoPage("noContent")
      ELSE IF "class-name" \in bad THEN NoPage("failed")
      ELSE Page(sums, ArticleEvidence(sums) \cup StructureEvidence(ContentStructures(sums, bad))
                      \cup {Say("structure", i, "displayPageArticle", i) :
                              i \in IF has.content THEN {web.articles[a].structure} ELSE {"-1"}})

SiteOf(url) == {g \in DOMAIN web.sites : web.sites[g].url = url}
SiteRoot(bad) == NoPage(IF "layouts" \in bad THEN "failed" ELSE "root")
InspectRegular(u, bad) ==
  LET ls == UNION {FindLayout(g, u.name, u.private, u.locale, bad) : g \in SiteOf(u.site)}
  IN  IF ls = {} \/ "layouts" \in bad THEN NoPage("failed") ELSE RegularPage(OneOf(ls), bad)
Inspect(u, bad) ==
  LET kind == RequestKind(u)
      home == Redirected(u)
  IN  CASE "site" \in bad \/ kind = "refused" \/ (u.site # "" /\ SiteOf(u.site) = {}) -> NoPage("failed")
        [] "site" \notin bad /\ kind \in {"home", "root"} /\ home # u -> InspectRegular(home, bad)
        [] "site" \notin bad /\ kind \in {"home", "root"} /\ home = u -> SiteRoot(bad)
        [] "site" \notin bad /\ kind = "display" /\ SiteOf(u.site) # {} -> DisplayPage(OneOf(SiteOf(u.site)), u.name, bad)
        [] OTHER -> InspectRegular(u, bad)
=============================================================================
