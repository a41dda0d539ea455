---------------------------- MODULE ContentPrune ----------------------------
(***************************************************************************)
(* `ldev portal content prune`: the scope of folders is read, the articles *)
(* in it are listed, a plan says which are kept, two workers delete the    *)
(* others, and folders that the plan empties are removed.  Without a keep  *)
(* and without a filter the root folders are deleted at once.              *)
(*                                                                         *)
(* A request is answered, refused (a gateway error), or its connection     *)
(* breaks, after which nobody knows whether the portal carried it out.     *)
(* The prefix `prune` of some variables keeps them apart from those of the *)
(* other commands this module is composed with.                            *)
(***************************************************************************)
EXTENDS Integers, FiniteSets, Sequences

CONSTANTS Folders,          \* ids of folders, positive
          Articles,         \* ids of articles; the smaller is the older entry
          PruneCases,       \* [site, opt] records, see CaseOK
          PruneFaults,      \* bound: requests the portal refuses or loses
          PruneEdits        \* bound: articles an editor adds or deletes meanwhile

PruneCaseOK(c) ==
  /\ c.site.parent \in [Folders -> Folders \cup {0}]
  /\ c.site.folder \in [Articles -> Folders]
  /\ DOMAIN c.site.structure = Articles /\ c.site.date \in [Articles -> Nat]
  /\ c.site.exists \subseteq Folders /\ c.site.foreign \subseteq Folders
  /\ \A f \in c.site.exists : c.site.parent[f] \in c.site.exists \cup {0}
  /\ c.site.late \subseteq Articles   \* not written yet when the command starts
  /\ c.opt.roots \in Seq(Folders) /\ c.opt.keep \in Nat
  /\ c.opt.scope \in {"folder", "structure"} /\ c.opt.dry \in BOOLEAN

ASSUME PruneAssumption ==
  /\ Folders \subseteq Nat \ {0}
  /\ Articles \subseteq Nat /\ IsFiniteSet(Articles)
  /\ PruneFaults \in Nat /\ PruneEdits \in Nat
  /\ \A c \in PruneCases : PruneCaseOK(c)

VARIABLES case,       \* the site and the options of this run
          folders,    \* folders that exist in the portal
          articles,   \* articles that exist in the portal
          prunePc,    \* where the command is
          tree,       \* scope: folders with their number of articles
          listed,     \* folders whose articles were listed
          seen,       \* articles listed
          plan,       \* articles the plan deletes
          todo,       \* articles no worker has taken yet
          hand,       \* the article each of the two workers is deleting
          done,       \* articles that count as deleted
          failed,     \* articles and folders whose deletion was refused
          removing,   \* folders still to be removed
          removed,    \* folders reported as removed
          pruneFaults,
          gone, added \* articles an editor deleted and added

pruneVars == <<case, folders, articles, prunePc, tree, listed, seen, plan, todo,
               hand, done, failed, removing, removed, pruneFaults, gone, added>>

Workers == {1, 2}
site == case.site
opt  == case.opt
Idle == 0
NoArticle == -1

-----------------------------------------------------------------------------
(* Folders.  Up(s)[f] is f and the folders above it: what every set with f  *)
(* and with the parent of each of its members contains.                     *)
Up(s) == [f \in Folders |->
  {g \in Folders : \A up \in SUBSET Folders :
     f \in up /\ (\A h \in up : s.parent[h] \in up \cup {0}) => g \in up}]
Subtree(r) == {f \in folders : r \in Up(site)[f]}

(* What collectFolderTree makes of the roots, taken in their order: a       *)
(* folder belongs to the first root above it, and a child that an earlier   *)
(* root has collected is not entered among the children of its parent.      *)
RootIds == {opt.roots[i] : i \in DOMAIN opt.roots}
Owner(f) == LET above == {i \in DOMAIN opt.roots :
                             opt.roots[i] \in Up(site)[f] \cap DOMAIN tree}
            IN  CHOOSE i \in above : \A j \in above : i <= j
Children(f) == {c \in DOMAIN tree : site.parent[c] = f /\ Owner(c) = Owner(f)}
Collected(f) == {g \in DOMAIN tree : f \in Up(site)[g] /\ Owner(g) = Owner(f)}
Depth(f) == Cardinality({g \in DOMAIN tree : g \in Up(site)[f] /\ Owner(g) = Owner(f)}) - 1

DirectCount(f) == Cardinality({a \in articles : site.folder[a] = f})
Contents(fs) == {a \in Articles : site.folder[a] \in fs}

(* canDeleteWholeFolders: no filter and nothing to keep, and not a dry run. *)
WholeFolders == ~opt.dry /\ opt.structures = {} /\ opt.keep = 0

-----------------------------------------------------------------------------
(* The plan.  An article is a candidate when no filter is given or its      *)
(* structure, if it could be resolved, is named by the filter.              *)
Candidates(hidden) == {a \in seen : \/ opt.structures = {}
                                    \/ site.structure[a] \in opt.structures \ hidden}
Bucket(a) == IF opt.scope = "folder" THEN site.folder[a] ELSE site.structure[a]
Newer(a, b) == \/ site.date[a] > site.date[b]
               \/ site.date[a] = site.date[b] /\ a < b
PlanOf(cand) == {a \in cand :
   Cardinality({b \in cand : Bucket(b) = Bucket(a) /\ Newer(b, a)}) >= opt.keep}

(* computeRemovableFolderIds: a folder may go when as many articles were    *)
(* deleted from it as it had when the tree was read, and so for all below   *)
(* it; the search does not go below a root that may not go.                 *)
DeletedIn(f, as) == Cardinality({a \in as : site.folder[a] = f})
BugRemovable(f, as) == DeletedIn(f, as) = tree[f]
Removable(f, as) == \A g \in Collected(f) : DeletedIn(g, as) = tree[g]
RemovableFolders(as) ==
  UNION {Collected(r) : r \in {q \in RootIds \cap DOMAIN tree : Removable(q, as)}}

-----------------------------------------------------------------------------
InitialArticles == {a \in Articles \ case.site.late : case.site.folder[a] \in case.site.exists}
PruneStart(pc) ==
  /\ case \in PruneCases
  /\ folders = case.site.exists /\ articles = InitialArticles
  /\ prunePc = pc /\ tree = <<>>
  /\ listed = {} /\ seen = {} /\ plan = {} /\ todo = {} /\ done = {}
  /\ hand = [w \in Workers |-> NoArticle]
  /\ failed = [articles |-> {}, folders |-> {}]
  /\ removing = {} /\ removed = {} /\ pruneFaults = 0 /\ gone = {} /\ added = {}
PruneInit == PruneStart("tree")

Fault == pruneFaults < PruneFaults /\ pruneFaults' = pruneFaults + 1
Portal == <<folders, articles>>
Editor == <<gone, added>>
Command == <<tree, listed, seen, plan, todo, hand, done, failed, removing, removed>>

(* A read fails, a root does not exist or is in another group, or a filter  *)
(* names no structure: the command ends with an error.                      *)
Rejected == \/ RootIds \cap site.foreign \cap folders # {}
            \/ ~WholeFolders /\ ~(/\ RootIds \subseteq folders
                                  /\ opt.structures \subseteq site.known)
PruneRejected ==
  /\ prunePc = "tree" /\ Rejected
  /\ prunePc' = "error"
  /\ UNCHANGED <<case, Portal, Command, pruneFaults, Editor>>
PruneFails ==
  /\ prunePc \in {"tree", "list"} /\ Fault
  /\ prunePc' = "error"
  /\ UNCHANGED <<case, Portal, Command, Editor>>

ResolveScope ==
  /\ prunePc = "tree" /\ ~Rejected
  /\ tree' = [f \in UNION {Subtree(r) : r \in RootIds \cap folders} |-> DirectCount(f)]
  /\ IF WholeFolders
       THEN prunePc' = "roots" /\ removing' = RootIds \cap folders
       ELSE prunePc' = "list" /\ UNCHANGED removing
  /\ UNCHANGED <<case, Portal, listed, seen, plan, todo, hand, done, failed, removed,
                 pruneFaults, Editor>>

BugListArticles(f) ==
  /\ prunePc = "list" /\ f \in DOMAIN tree \ listed
  /\ listed' = IF \E a \in articles : site.folder[a] = f THEN listed \cup {f} ELSE listed
  /\ seen' = seen \cup {a \in articles : site.folder[a] = f}
  /\ UNCHANGED <<case, Portal, prunePc, tree, plan, todo, hand, done, failed, removing,
                 removed, pruneFaults, Editor>>
ListArticles(f) ==
  /\ prunePc = "list" /\ f \in DOMAIN tree \ listed
  /\ listed' = listed \cup {f}
  /\ seen' = seen \cup {a \in articles : site.folder[a] = f}
  /\ UNCHANGED <<case, Portal, prunePc, tree, plan, todo, hand, done, failed, removing,
                 removed, pruneFaults, Editor>>

(* A structure whose definition the portal does not give stays unknown.     *)
BuildPlan ==
  /\ prunePc = "list" /\ listed = DOMAIN tree
  /\ \E hidden \in SUBSET ({site.structure[a] : a \in seen} \ site.known) :
        /\ IF hidden = {} THEN UNCHANGED pruneFaults ELSE Fault
        /\ plan' = PlanOf(Candidates(hidden))
  /\ IF opt.dry
       THEN prunePc' = "ok" /\ UNCHANGED todo
       ELSE prunePc' = "delete" /\ todo' = plan'
  /\ UNCHANGED <<case, Portal, tree, listed, seen, hand, done, failed, removing, removed, Editor>>

TakeArticle(w, a) ==
  /\ prunePc = "delete" /\ hand[w] = NoArticle /\ a \in todo
  /\ todo' = todo \ {a} /\ hand' = [hand EXCEPT ![w] = a]
  /\ UNCHANGED <<case, Portal, prunePc, tree, listed, seen, plan, done, failed, removing,
                 removed, pruneFaults, Editor>>

(* The portal deletes it, or answers 404 because it is gone already.        *)
DeleteArticle(w) ==
  /\ prunePc = "delete" /\ hand[w] # NoArticle
  /\ articles' = articles \ {hand[w]}
  /\ done' = done \cup {hand[w]} /\ hand' = [hand EXCEPT ![w] = NoArticle]
  /\ UNCHANGED <<case, folders, prunePc, tree, listed, seen, plan, todo, failed, removing,
                 removed, pruneFaults, Editor>>

ArticleRefused(w) ==
  /\ prunePc = "delete" /\ hand[w] # NoArticle /\ Fault
  /\ failed' = [failed EXCEPT !.articles = @ \cup {hand[w]}]
  /\ hand' = [hand EXCEPT ![w] = NoArticle]
  /\ UNCHANGED <<case, Portal, prunePc, tree, listed, seen, plan, todo, done, removing,
                 removed, Editor>>

(* The connection breaks: the pool rejects and the process exits, while     *)
(* the requests on their way may or may not reach the portal.               *)
ConnectionLost ==
  /\ Fault
  /\ prunePc' = "error"
  /\ \/ /\ prunePc = "delete"
        /\ \E late \in SUBSET {hand[w] : w \in Workers} : articles' = articles \ late
        /\ \E w \in Workers : hand[w] # NoArticle
        /\ UNCHANGED folders
     \/ /\ prunePc \in {"remove", "roots"} /\ removing # {}
        /\ \E f \in removing :
              /\ folders' = folders \ Subtree(f)
              /\ articles' = articles \ Contents(Subtree(f))
  /\ UNCHANGED <<case, Command, Editor>>

PlanFolders ==
  /\ prunePc = "delete" /\ todo = {} /\ \A w \in Workers : hand[w] = NoArticle
  /\ prunePc' = "remove" /\ removing' = RemovableFolders(done)
  /\ UNCHANGED <<case, Portal, tree, listed, seen, plan, todo, hand, done, failed, removed,
                 pruneFaults, Editor>>

(* Deepest folders first; whole roots in the order they were given.  The    *)
(* portal deletes a folder with all it holds, and 404 counts as removed.    *)
NextFolder(f) ==
  /\ f \in removing
  /\ IF prunePc = "roots"
       THEN \E i \in DOMAIN opt.roots : /\ opt.roots[i] = f
                                        /\ \A j \in 1 .. i - 1 : opt.roots[j] \notin removing
       ELSE prunePc = "remove" /\ \A g \in removing : Depth(g) <= Depth(f)
DeleteFolder(f) ==
  /\ NextFolder(f)
  /\ folders' = folders \ Subtree(f) /\ articles' = articles \ Contents(Subtree(f))
  /\ removing' = removing \ {f} /\ removed' = removed \cup {f}
  /\ UNCHANGED <<case, prunePc, tree, listed, seen, plan, todo, hand, done, failed,
                 pruneFaults, Editor>>
FolderRefused(f) ==
  /\ NextFolder(f) /\ Fault
  /\ removing' = removing \ {f} /\ failed' = [failed EXCEPT !.folders = @ \cup {f}]
  /\ UNCHANGED <<case, Portal, prunePc, tree, listed, seen, plan, todo, hand, done, removed, Editor>>

PruneReports ==
  /\ prunePc \in {"remove", "roots"} /\ removing = {}
  /\ prunePc' = "ok"
  /\ UNCHANGED <<case, Portal, Command, pruneFaults, Editor>>

(* The counts and the folders of the result.  A folder deleted whole counts *)
(* for the articles it had: the sum is the number of pairs <<f, n>> in which *)
(* n numbers an article of f.                                               *)
Numbered(fs) == UNION {{f} \X (1 .. tree[f]) : f \in fs}
DeletedCount ==
  CASE WholeFolders -> Cardinality(Numbered(UNION {Collected(r) : r \in removed \cap DOMAIN tree}))
    [] opt.dry      -> Cardinality(plan)
    [] OTHER        -> Cardinality(plan) - Cardinality(failed.articles)
ReportedFolders == IF opt.dry THEN RemovableFolders(plan) ELSE removed

(* Somebody else deletes an article, or adds one.                           *)
PruneOver == prunePc \in {"ok", "error", "off"}
EditorDeletes(a) ==
  /\ ~PruneOver /\ Cardinality(gone \cup added) < PruneEdits /\ a \in articles
  /\ articles' = articles \ {a} /\ gone' = gone \cup {a}
  /\ UNCHANGED <<case, folders, prunePc, Command, pruneFaults, added>>
EditorAdds(a) ==
  /\ ~PruneOver /\ Cardinality(gone \cup added) < PruneEdits
  /\ a \in site.late \ (added \cup gone) /\ site.folder[a] \in folders
  /\ articles' = articles \cup {a} /\ added' = added \cup {a}
  /\ UNCHANGED <<case, folders, prunePc, Command, pruneFaults, gone>>

PruneStep ==
  \/ PruneRejected \/ ResolveScope \/ BuildPlan \/ PlanFolders \/ PruneReports
  \/ \E f \in Folders : ListArticles(f) \/ DeleteFolder(f)
  \/ \E w \in Workers : DeleteArticle(w) \/ \E a \in Articles : TakeArticle(w, a)

PruneNext ==
  \/ PruneStep \/ PruneFails \/ ConnectionLost
  \/ \E w \in Workers : ArticleRefused(w)
  \/ \E f \in Folders : FolderRefused(f)
  \/ \E a \in Articles : EditorDeletes(a) \/ EditorAdds(a)

PruneSpec == PruneInit /\ [][PruneNext]_pruneVars /\ WF_pruneVars(PruneStep)

-----------------------------------------------------------------------------
(* What the run is for: articles in the scope that the newest-first rule    *)
(* does not keep, or all of it when folders are deleted whole.              *)
Scope == UNION {{f \in site.exists : r \in Up(site)[f]} : r \in RootIds}
ToPrune == {a \in InitialArticles :
   /\ site.folder[a] \in Scope
   /\ opt.structures = {} \/ site.structure[a] \in opt.structures
   /\ Cardinality({b \in InitialArticles :
        /\ site.folder[b] \in Scope /\ Bucket(b) = Bucket(a) /\ Newer(b, a)
        /\ opt.structures = {} \/ site.structure[b] \in opt.structures}) >= opt.keep}

(* An article that was to be kept is still there when the command ends,     *)
(* unless an editor deleted it, or added an article that takes its place in *)
(* its bucket, or one to a folder with which its own shares a folder above, *)
(* which upsets the counts the removal of folders relies on.                *)
Upset(a) == \E b \in added :
  \/ Bucket(b) = Bucket(a)
  \/ Up(site)[site.folder[b]] \cap Up(site)[site.folder[a]] # {}
KeptSurvive ==
  PruneOver => \A a \in InitialArticles \ ToPrune : a \in articles \cup gone \/ Upset(a)

(* What the result of a run that ends well says is so: a dry run changed    *)
(* nothing; of the others, no folder reported removed and no article        *)
(* neither failed nor kept exists, what failed is still there, and the      *)
(* number of deleted articles is the true one.                              *)
ReportIsTrue ==
  prunePc = "ok" =>
    IF opt.dry THEN articles = (InitialArticles \cup added) \ gone /\ folders = site.exists
    ELSE /\ removed \cap folders = {} /\ (plan \ failed.articles) \cap articles = {}
         /\ gone \cup added = {} =>
              /\ DeletedCount = Cardinality(InitialArticles \ articles)
              /\ pruneFaults = 0 => articles = InitialArticles \ ToPrune

(* A dry run says what the run itself would do: the articles and the        *)
(* folders it reports are those that go when nothing fails and nobody       *)
(* edits.                                                                   *)
DryRunPredicts ==
  prunePc = "ok" /\ gone \cup added = {} /\ pruneFaults = 0 =>
    /\ opt.dry => plan = ToPrune
    /\ Contents(ReportedFolders) \cap InitialArticles \subseteq ToPrune

(* All of it: what a prune spares, what it reports and what it announces.   *)
PruneIsHonest == KeptSurvive /\ ReportIsTrue /\ DryRunPredicts

(* Every prune ends.                                                        *)
PruneEnds == <>PruneOver
=============================================================================
