---------------------------- MODULE PortalProofs ----------------------------
(***************************************************************************)
(* Theorems about what commands read of a portal and what they remove.     *)
(*                                                                         *)
(* Proofs about ContentPrune, for every site, choice of options, number of *)
(* lost requests and of edits, as long as no root folder is listed before  *)
(* a root folder above it (RootsInOrder).  Listed the other way around, a  *)
(* folder is removed with the kept articles of the root below it.  Then    *)
(* proofs about FolderWalk, the statistics of the same folders, for every  *)
(* tree of folders and every limit, and about PortalClient.                *)
(*                                                                         *)
(* At the end, about what commands find: reports over many sites           *)
(* (SiteReports), pages that use a resource (WhereUsed) and sites          *)
(* (SiteLookup), for any portal that the assumptions allow and any number  *)
(* of faults, changes and runs.                                            *)
(***************************************************************************)
EXTENDS PortalClient, ContentPrune, FolderWalk, SiteReports, WhereUsed, SiteLookup, Functions, TLAPS,
        FiniteSetTheorems, FunctionTheorems, WellFoundedInduction

(* A root below another one is not listed before it.                        *)
RootsInOrder ==
  \A c \in PruneCases : \A i, j \in DOMAIN c.opt.roots :
     c.opt.roots[j] \in Up(c.site)[c.opt.roots[i]] => \E k \in 1 .. i : c.opt.roots[k] = c.opt.roots[j]

-----------------------------------------------------------------------------
(* The inductive invariant.  First what kind of thing each variable is, and *)
(* where the command is.                                                    *)
AllArticles == InitialArticles \cup added
Quiet == gone \cup added = {}
PruneTypes ==
  /\ case \in PruneCases
  /\ prunePc \in {"tree", "list", "delete", "remove", "roots", "ok", "error"}
  /\ folders \subseteq site.exists
  /\ gone \subseteq Articles /\ added \subseteq site.late
  /\ articles \subseteq AllArticles \ gone
  /\ seen \subseteq AllArticles /\ plan \subseteq seen
  /\ todo \subseteq plan /\ done \subseteq plan
  /\ hand \in [Workers -> plan \cup {NoArticle}]
  /\ failed \in [articles : SUBSET plan, folders : SUBSET Folders]
  /\ removing \subseteq Folders /\ removed \subseteq Folders
  /\ tree \in [DOMAIN tree -> Nat] /\ listed \subseteq DOMAIN tree
  /\ pruneFaults \in Nat
Phases ==
  /\ WholeFolders => prunePc \in {"tree", "roots", "ok", "error"}
  /\ ~WholeFolders => prunePc # "roots"
  /\ opt.dry => prunePc \in {"tree", "list", "ok", "error"}

(* Nothing is removed before the plan is made, nor in a dry run.            *)
Empty == [articles |-> {}, folders |-> {}]
Untouched ==
  /\ prunePc = "tree" => tree = <<>>
  /\ prunePc \in {"tree", "list"} \/ (prunePc = "ok" /\ opt.dry) =>
       /\ folders = site.exists /\ articles = AllArticles \ gone
       /\ todo = {} /\ done = {} /\ failed = Empty /\ hand = [w \in Workers |-> NoArticle]
       /\ removing = {} /\ removed = {}
  /\ prunePc \in {"tree", "list"} \/ WholeFolders => plan = {}
  /\ prunePc = "tree" \/ WholeFolders => seen = {} /\ listed = {}

(* What the command has read, and how it relates to the site: a folder had  *)
(* at least the articles that were there from the start or have been listed *)
(* in it, but for what an editor deleted or added.                          *)
In(f, as) == {a \in as : site.folder[a] = f}
Expected(f) == In(f, (InitialArticles \ gone) \cup (seen \ added))
Reading ==
  /\ prunePc \notin {"tree", "error"} => DOMAIN tree = Scope
  /\ \A a \in seen : site.folder[a] \in DOMAIN tree
  /\ \A f \in DOMAIN tree : /\ Cardinality(Expected(f)) <= tree[f]
                            /\ Quiet => tree[f] = Cardinality(In(f, InitialArticles))
  /\ Quiet => seen = {a \in InitialArticles : site.folder[a] \in listed}

(* What the plan spares, and what becomes of what it does not.              *)
Planned ==
  /\ \A a \in (plan \cap InitialArticles) \ ToPrune : Upset(a)
  /\ prunePc \in {"delete", "remove", "ok"} /\ ~WholeFolders =>
       /\ Quiet /\ pruneFaults = 0 => plan = ToPrune
       /\ ~opt.dry => plan = todo \cup ({hand[w] : w \in Workers} \ {NoArticle})
                                  \cup done \cup failed.articles
  /\ prunePc \in {"remove", "ok"} => todo = {} /\ hand = [w \in Workers |-> NoArticle]
  /\ done \cap failed.articles = {} /\ todo \cap (done \cup failed.articles) = {}
  /\ \A w \in Workers : hand[w] \notin todo \cup done \cup failed.articles
  /\ hand[1] = hand[2] => hand[1] = NoArticle
  /\ pruneFaults = 0 => failed = Empty
  /\ done \cap articles = {}

(* The folders that go.                                                     *)
Going ==
  /\ removed \cap folders = {}
  /\ prunePc = "ok" => removing = {}
  /\ prunePc \in {"delete", "remove", "ok"} /\ ~WholeFolders /\ ~opt.dry /\ Quiet =>
       /\ articles = InitialArticles \ done
       /\ \A f \in removing \cup removed : \A a \in InitialArticles :
             f \in Up(site)[site.folder[a]] => a \in done
  /\ prunePc \in {"roots", "ok"} /\ WholeFolders =>
       /\ removed \cup removing \cup failed.folders = RootIds \cap site.exists
       /\ folders = {f \in site.exists : Up(site)[f] \cap removed = {}}
       /\ Quiet => articles = {a \in InitialArticles : Up(site)[site.folder[a]] \cap removed = {}}

(* What is to be kept is there, and does not go with a folder.              *)
Excused(a) == a \in gone \/ Upset(a)
Kept ==
  /\ \A a \in InitialArticles \ ToPrune : a \in articles \/ Excused(a)
  /\ \A f \in removing : \A a \in InitialArticles \ ToPrune :
        f \in Up(site)[site.folder[a]] => Excused(a)

PruneInv == PruneTypes /\ Phases /\ Untouched /\ Reading /\ Planned /\ Going /\ Kept

-----------------------------------------------------------------------------
LEMMA SomeIsFirst ==
  ASSUME NEW S \in SUBSET Nat, S # {}
  PROVE  \E i \in S : \A j \in S : i <= j
<1>1. PICK n \in S : TRUE
  OBVIOUS
<1> DEFINE Initials == {0 .. i : i \in {j \in S : j <= n}}
<1>2. Initials \subseteq FiniteSubsetsOf(0 .. n) /\ Initials # {}
  <2>1. \A i \in S : i <= n => 0 .. i \in SUBSET (0 .. n) /\ IsFiniteSet(0 .. i)
    BY FS_Interval
  <2> QED BY <1>1, <2>1 DEF FiniteSubsetsOf
<1>3. PICK b \in Initials : \A c \in Initials : ~(<<c, b>> \in StrictSubsetOrdering(0 .. n))
  <2> HIDE DEF Initials
  <2> QED BY <1>2, FS_StrictSubsetOrderingWellFounded, WFMin
<1>4. PICK i \in S : i <= n /\ b = 0 .. i
  BY <1>3
<1>5. ASSUME NEW j \in S, j < i PROVE FALSE
  <2>1. 0 .. j \in Initials /\ 0 .. j # b /\ 0 .. j \subseteq b
    BY <1>4, <1>5
  <2> QED BY <1>2, <1>3, <2>1 DEF StrictSubsetOrdering, FiniteSubsetsOf
<1> QED BY <1>5

(* Folders.                                                                 *)
LEMMA CaseFacts ==
  ASSUME case \in PruneCases
  PROVE  /\ site.parent \in [Folders -> Folders \cup {0}] /\ site.folder \in [Articles -> Folders]
         /\ site.exists \subseteq Folders /\ InitialArticles \subseteq Articles
         /\ site.late \subseteq Articles /\ site.late \cap InitialArticles = {}
         /\ \A f \in site.exists : site.parent[f] \in site.exists \cup {0}
         /\ \A a \in InitialArticles : site.folder[a] \in site.exists
         /\ opt.roots \in Seq(Folders) /\ opt.keep \in Nat /\ opt.dry \in BOOLEAN
         /\ RootIds \subseteq Folders
BY PruneAssumption DEF PruneCaseOK, site, opt, InitialArticles, RootIds

LEMMA UpFacts ==
  ASSUME NEW s, s.parent \in [Folders -> Folders \cup {0}], NEW f \in Folders
  PROVE  /\ f \in Up(s)[f] /\ Up(s)[f] \subseteq Folders
         /\ \A g \in Up(s)[f] : Up(s)[g] \subseteq Up(s)[f]
         /\ \A g \in Up(s)[f] : s.parent[g] \in Up(s)[f] \cup {0}
         /\ \A up \in SUBSET Folders :
              f \in up /\ (\A h \in up : s.parent[h] \in up \cup {0}) => Up(s)[f] \subseteq up
<1>1. /\ f \in Up(s)[f] /\ Up(s)[f] \subseteq Folders
      /\ \A up \in SUBSET Folders :
           f \in up /\ (\A h \in up : s.parent[h] \in up \cup {0}) => Up(s)[f] \subseteq up
  BY DEF Up
<1>2. \A g \in Up(s)[f] : s.parent[g] \in Up(s)[f] \cup {0}
  <2>1. SUFFICES ASSUME NEW g \in Up(s)[f], s.parent[g] # 0 PROVE s.parent[g] \in Up(s)[f]
    OBVIOUS
  <2>2. s.parent[g] \in Folders
    BY <1>1, <2>1
  <2>3. ASSUME NEW up \in SUBSET Folders, f \in up, \A h \in up : s.parent[h] \in up \cup {0}
        PROVE  s.parent[g] \in up
    BY <1>1, <2>1, <2>3
  <2> QED BY <2>2, <2>3 DEF Up
<1>3. \A g \in Up(s)[f] : Up(s)[g] \subseteq Up(s)[f]
  <2>1. SUFFICES ASSUME NEW g \in Up(s)[f] PROVE Up(s)[g] \subseteq Up(s)[f]
    OBVIOUS
  <2>2. g \in Folders /\ Up(s)[f] \in SUBSET Folders
    BY <1>1
  <2> QED BY <1>2, <2>2 DEF Up
<1> QED BY <1>1, <1>2, <1>3

(* Of two folders above a third one, one is above the other.                *)
LEMMA UpIsAChain ==
  ASSUME NEW s, s.parent \in [Folders -> Folders \cup {0}], NEW f \in Folders,
         NEW g \in Up(s)[f], NEW h \in Up(s)[f]
  PROVE  g \in Up(s)[h] \/ h \in Up(s)[g]
<1> DEFINE Line == {x \in Folders : x \in Up(s)[g] \/ g \in Up(s)[x]}
<1>1. g \in Folders /\ h \in Folders /\ f \in Line
  BY UpFacts
<1>2. ASSUME NEW x \in Line PROVE s.parent[x] \in Line \cup {0}
  <2>1. SUFFICES ASSUME s.parent[x] # 0 PROVE s.parent[x] \in Line
    OBVIOUS
  <2>2. s.parent[x] \in Folders
    BY <2>1
  <2>3. CASE x \in Up(s)[g]
    BY <1>1, <2>1, <2>2, <2>3, UpFacts
  <2>4. CASE g \in Up(s)[x]
    <3> DEFINE Over == {x} \cup Up(s)[s.parent[x]]
    <3>1. Over \in SUBSET Folders /\ x \in Over /\ \A y \in Over : s.parent[y] \in Over \cup {0}
      BY <2>2, UpFacts
    <3> HIDE DEF Over
    <3>2. g \in Over
      BY <2>4, <3>1, UpFacts
    <3>3. CASE g = x
      BY <1>1, <2>1, <2>2, <3>3, UpFacts
    <3>4. CASE g \in Up(s)[s.parent[x]]
      BY <2>2, <3>4
    <3> QED BY <3>2, <3>3, <3>4 DEF Over
  <2> QED BY <2>3, <2>4
<1>3. Up(s)[f] \subseteq Line
  <2>1. Line \in SUBSET Folders
    OBVIOUS
  <2> HIDE DEF Line
  <2> QED BY <1>1, <1>2, <2>1, UpFacts
<1> QED BY <1>3

LEMMA AboveExist ==
  ASSUME case \in PruneCases, NEW f \in site.exists
  PROVE  Up(site)[f] \subseteq site.exists
<1>1. f \in Folders /\ site.exists \in SUBSET Folders
  BY CaseFacts
<1> QED BY <1>1, CaseFacts, UpFacts

(* With roots in order, a folder of the tree is collected with every root   *)
(* above it.                                                                *)
Above(f) == {i \in DOMAIN opt.roots : opt.roots[i] \in Up(site)[f] \cap DOMAIN tree}
LEMMA OwnerIsFirst ==
  ASSUME case \in PruneCases, NEW f, Above(f) # {}
  PROVE  Owner(f) \in Above(f) /\ \A j \in Above(f) : Owner(f) <= j
<1>1. Above(f) \in SUBSET Nat /\ Above(f) # {}
  BY CaseFacts DEF Above
<1>2. \E i \in Above(f) : \A j \in Above(f) : i <= j
  BY <1>1, SomeIsFirst
<1>3. Owner(f) = CHOOSE i \in Above(f) : \A j \in Above(f) : i <= j
  BY DEF Owner, Above
<1> QED BY <1>2, <1>3

LEMMA WithItsRoot ==
  ASSUME RootsInOrder, case \in PruneCases, DOMAIN tree \subseteq site.exists,
         NEW r \in RootIds \cap DOMAIN tree, NEW f \in DOMAIN tree, r \in Up(site)[f]
  PROVE  f \in Collected(r)
<1>1. /\ site.parent \in [Folders -> Folders \cup {0}] /\ f \in Folders /\ r \in Folders
      /\ r \in Up(site)[r] /\ Up(site)[r] \subseteq Up(site)[f]
  BY CaseFacts, UpFacts
<1>2. PICK k \in DOMAIN opt.roots : opt.roots[k] = r
  BY DEF RootIds
<1>3. k \in Above(r) /\ Above(r) \subseteq Above(f) /\ Above(f) \subseteq Nat /\ DOMAIN opt.roots \subseteq Nat
  BY <1>1, <1>2, CaseFacts DEF Above
<1> DEFINE i == Owner(f)
           o == Owner(r)
<1>4. i \in Above(f) /\ o \in Above(r) /\ i <= o /\ i <= k
  BY <1>3, OwnerIsFirst
<1>5. o <= i
  <2>1. opt.roots[i] \in Up(site)[f] /\ opt.roots[i] \in DOMAIN tree /\ i \in DOMAIN opt.roots
    BY <1>4 DEF Above
  <2>2. CASE opt.roots[i] \in Up(site)[r]
    <3>1. i \in Above(r)
      BY <2>1, <2>2 DEF Above
    <3> QED BY <1>3, <3>1, OwnerIsFirst
  <2>3. CASE opt.roots[k] \in Up(site)[opt.roots[i]]
    <3>1. PICK m \in 1 .. i : opt.roots[m] = r
      BY <1>2, <2>1, <2>3 DEF RootsInOrder, site, opt
    <3>2. m \in DOMAIN opt.roots
      BY <2>1, <3>1, CaseFacts
    <3>3. m \in Above(r)
      BY <1>1, <3>1, <3>2 DEF Above
    <3>4. o <= m /\ i <= m /\ m <= i
      <4> HIDE DEF i, o
      <4>1. i \in Nat /\ m \in Nat
        BY <1>3, <1>4, <3>1
      <4>2. o <= m /\ i <= m
        BY <1>3, <3>3, OwnerIsFirst DEF i, o
      <4> QED BY <3>1, <4>1, <4>2
    <3> HIDE DEF i, o
    <3>5. i \in Nat /\ m \in Nat
      BY <1>3, <1>4, <3>1
    <3> QED BY <3>4, <3>5
  <2> QED BY <1>1, <1>2, <2>1, <2>2, <2>3, UpIsAChain
<1>6. i = o
  <2> HIDE DEF i, o
  <2> QED BY <1>3, <1>4, <1>5
<1> QED BY <1>6 DEF Collected

-----------------------------------------------------------------------------
(* Counting.                                                                *)
LEMMA SomeArticles ==
  ASSUME NEW S, S \subseteq Articles, NEW T, T \subseteq S
  PROVE  /\ IsFiniteSet(S) /\ Cardinality(S) \in Nat /\ IsFiniteSet(T) /\ Cardinality(T) \in Nat
         /\ Cardinality(T) <= Cardinality(S)
         /\ Cardinality(S) <= Cardinality(T) => S = T
<1>1. IsFiniteSet(S)
  BY PruneAssumption, FS_Subset
<1>2. /\ IsFiniteSet(T) /\ Cardinality(T) <= Cardinality(S)
      /\ Cardinality(S) = Cardinality(T) => S = T
  BY <1>1, FS_Subset
<1>3. Cardinality(S) \in Nat /\ Cardinality(T) \in Nat
  BY <1>1, <1>2, FS_CardinalityType
<1> QED BY <1>1, <1>2, <1>3

(* When a command has deleted as many articles of a folder as it had, they  *)
(* are those that were there, unless an editor added some.                  *)
LEMMA AllAreGone ==
  ASSUME PruneTypes, Reading, NEW as \in SUBSET seen, NEW f \in DOMAIN tree,
         DeletedIn(f, as) = tree[f], NEW a \in InitialArticles \ gone, site.folder[a] = f,
         \A b \in added : site.folder[b] # f
  PROVE  a \in as
<1>1. Expected(f) \subseteq Articles /\ In(f, as) \subseteq Expected(f)
  BY CaseFacts DEF PruneTypes, AllArticles, Expected, In
<1>2. Cardinality(In(f, as)) = tree[f] /\ Cardinality(Expected(f)) <= tree[f] /\ tree[f] \in Nat
  BY DEF DeletedIn, In, Reading, PruneTypes
<1>3. In(f, as) = Expected(f)
  <2> DEFINE T == In(f, as)
             S == Expected(f)
  <2> HIDE DEF T, S
  <2>1. S \subseteq Articles /\ T \subseteq S /\ Cardinality(S) <= Cardinality(T)
    BY <1>1, <1>2 DEF T, S
  <2>2. S = T
    BY <2>1, SomeArticles
  <2> QED BY <2>2 DEF T, S
<1> QED BY <1>3 DEF Expected, In

(* So what is kept does not lie under a folder that may be removed.         *)
LEMMA RemovableIsEmpty ==
  ASSUME RootsInOrder, PruneTypes, Reading, DOMAIN tree = Scope, NEW as \in SUBSET seen,
         NEW g \in RemovableFolders(as), NEW a \in InitialArticles \ gone, g \in Up(site)[site.folder[a]],
         \A b \in added : Up(site)[site.folder[b]] \cap Up(site)[site.folder[a]] = {}
  PROVE  a \in as
<1> DEFINE f == site.folder[a]
<1>1. f \in site.exists /\ f \in Folders /\ f \in Up(site)[f] /\ case \in PruneCases
  <2>1. case \in PruneCases
    BY DEF PruneTypes
  <2>2. f \in site.exists /\ f \in Folders /\ site.parent \in [Folders -> Folders \cup {0}]
    BY <2>1, CaseFacts
  <2> HIDE DEF f
  <2> QED BY <2>1, <2>2, UpFacts
<1>2. PICK r \in RootIds \cap DOMAIN tree : Removable(r, as) /\ g \in Collected(r)
  BY DEF RemovableFolders
<1>3. r \in Up(site)[f]
  <2>1. r \in Up(site)[g] /\ Up(site)[g] \subseteq Up(site)[f]
    BY <1>1, <1>2, CaseFacts, UpFacts DEF Collected
  <2> QED BY <2>1
<1>4. DOMAIN tree \subseteq site.exists /\ f \in DOMAIN tree
  BY <1>1, <1>3 DEF Scope
<1>5. f \in Collected(r)
  BY <1>1, <1>2, <1>3, <1>4, WithItsRoot
<1>6. \A b \in added : site.folder[b] # f
  BY <1>1
<1>7. DeletedIn(f, as) = tree[f]
  BY <1>2, <1>5 DEF Removable
<1> QED BY <1>4, <1>6, <1>7, AllAreGone

(* n tells how many of the articles as are in each of the folders fs.       *)
Tells(n, as, in, fs) ==
  in \in [as -> fs] /\ \A f \in fs : n[f] = Cardinality({a \in as : in[a] = f})
Numbers(fs, n) == UNION {{f} \X (1 .. n[f]) : f \in fs}

(* The sum of the articles of some folders, taken as the pairs of a folder  *)
(* and the number of one of its articles: each article is counted once      *)
(* (deletedCount of a prune of whole folders).                       *)
LEMMA CountedOnce ==
  ASSUME NEW as, as \subseteq Articles, NEW fs, NEW in, NEW n, Tells(n, as, in, fs)
  PROVE  Cardinality(Numbers(fs, n)) = Cardinality(as)
<1> USE DEF Tells, Numbers
<1> DEFINE In1(f) == {a \in as : in[a] = f}
           Pairs == UNION {{f} \X (1 .. n[f]) : f \in fs}
<1>1. \A f \in fs : ExistsBijection(In1(f), 1 .. n[f])
  <2>1. SUFFICES ASSUME NEW f \in fs PROVE ExistsBijection(In1(f), 1 .. n[f])
    OBVIOUS
  <2>2. In1(f) \subseteq as /\ n[f] = Cardinality(In1(f))
    OBVIOUS
  <2>3. ExistsBijection(1 .. n[f], In1(f))
    <3> HIDE DEF In1
    <3>1. IsFiniteSet(In1(f))
      BY <2>2, SomeArticles
    <3> QED BY <2>2, <3>1, FS_CardinalityType
  <2> HIDE DEF In1
  <2> QED BY <2>3, Fun_ExistsBijSymmetric
<1> DEFINE nr == [f \in fs |-> CHOOSE b : b \in Bijection(In1(f), 1 .. n[f])]
<1>2. \A f \in fs : nr[f] \in Bijection(In1(f), 1 .. n[f])
  <2>1. SUFFICES ASSUME NEW f \in fs PROVE nr[f] \in Bijection(In1(f), 1 .. n[f])
    OBVIOUS
  <2>2. nr[f] = CHOOSE b : b \in Bijection(In1(f), 1 .. n[f])
    OBVIOUS
  <2>3. PICK b : b \in Bijection(In1(f), 1 .. n[f])
    BY <1>1 DEF ExistsBijection
  <2> HIDE DEF nr, In1
  <2> QED BY <2>2, <2>3
<1> HIDE DEF nr
<1>3. \A f \in fs : /\ nr[f] \in [In1(f) -> 1 .. n[f]]
                    /\ \A a, b \in In1(f) : nr[f][a] = nr[f][b] => a = b
                    /\ \A k \in 1 .. n[f] : \E a \in In1(f) : nr[f][a] = k
  <2>1. SUFFICES ASSUME NEW f \in fs
                 PROVE  /\ nr[f] \in [In1(f) -> 1 .. n[f]]
                        /\ \A a, b \in In1(f) : nr[f][a] = nr[f][b] => a = b
                        /\ \A k \in 1 .. n[f] : \E a \in In1(f) : nr[f][a] = k
    OBVIOUS
  <2> DEFINE F == nr[f]
             S == In1(f)
             T == 1 .. n[f]
  <2>2. F \in Bijection(S, T)
    BY <1>2
  <2> HIDE DEF F, S, T
  <2>3. /\ F \in [S -> T] /\ \A a, b \in S : F[a] = F[b] => a = b
        /\ \A k \in T : \E a \in S : F[a] = k
    BY <2>2, Fun_BijectionProperties DEF Injection, Surjection
  <2> QED BY <2>3 DEF F, S, T
<1> DEFINE h == [a \in as |-> <<in[a], nr[in[a]][a]>>]
<1>4. \A a \in as : in[a] \in fs /\ a \in In1(in[a]) /\ nr[in[a]][a] \in 1 .. n[in[a]]
  <2>1. SUFFICES ASSUME NEW a \in as
                 PROVE  in[a] \in fs /\ a \in In1(in[a]) /\ nr[in[a]][a] \in 1 .. n[in[a]]
    OBVIOUS
  <2>2. in[a] \in fs /\ a \in In1(in[a])
    OBVIOUS
  <2> HIDE DEF In1
  <2>3. nr[in[a]] \in [In1(in[a]) -> 1 .. n[in[a]]]
    BY <1>3, <2>2
  <2> QED BY <2>2, <2>3
<1>5. h \in [as -> Pairs]
  <2>1. \A a \in as : <<in[a], nr[in[a]][a]>> \in {in[a]} \X (1 .. n[in[a]])
    BY <1>4
  <2>2. \A a \in as : <<in[a], nr[in[a]][a]>> \in Pairs
    BY <1>4, <2>1, ZenonT(40)
  <2> HIDE DEF Pairs
  <2> QED BY <2>2
<1>6. \A a, b \in as : h[a] = h[b] => a = b
  <2>1. SUFFICES ASSUME NEW a \in as, NEW b \in as, h[a] = h[b] PROVE a = b
    OBVIOUS
  <2>2. in[a] = in[b] /\ nr[in[a]][a] = nr[in[a]][b]
    BY <2>1
  <2>3. a \in In1(in[a]) /\ b \in In1(in[a]) /\ in[a] \in fs
    BY <1>4, <2>2
  <2> QED BY <1>3, <2>2, <2>3
<1>7. \A q \in Pairs : \E a \in as : h[a] = q
  <2>1. \A q \in Pairs : \E f \in fs : \E k \in 1 .. n[f] : q = <<f, k>>
    OBVIOUS
  <2>2. ASSUME NEW f \in fs, NEW k \in 1 .. n[f] PROVE \E a \in as : h[a] = <<f, k>>
    <3>1. \E a \in In1(f) : nr[f][a] = k
      BY <1>3
    <3>2. \A a \in In1(f) : a \in as /\ in[a] = f /\ h[a] = <<f, nr[f][a]>>
      OBVIOUS
    <3> HIDE DEF h, In1
    <3> QED BY <3>1, <3>2
  <2>3. ASSUME NEW q \in Pairs PROVE \E a \in as : h[a] = q
    <3>1. PICK f \in fs : \E k \in 1 .. n[f] : q = <<f, k>>
      BY <2>1
    <3> HIDE DEF h
    <3> QED BY <2>2, <3>1
  <2> QED BY <2>3
<1>8. ExistsBijection(as, Pairs)
  <2> HIDE DEF h, Pairs
  <2> QED BY <1>5, <1>6, <1>7, Fun_IsBij DEF ExistsBijection
<1>9. IsFiniteSet(as)
  BY SomeArticles
<1> HIDE DEF Pairs
<1>10. Cardinality(Pairs) = Cardinality(as)
  BY <1>8, <1>9, FS_Bijection
<1> QED BY <1>10 DEF Pairs

-----------------------------------------------------------------------------
(* What depends on the case alone stays, and what an editor did adds up.    *)
LEMMA CaseStays ==
  ASSUME case' = case
  PROVE  /\ site' = site /\ opt' = opt /\ InitialArticles' = InitialArticles /\ RootIds' = RootIds
         /\ Scope' = Scope /\ ToPrune' = ToPrune /\ (WholeFolders' <=> WholeFolders)
         /\ \A a : Bucket(a)' = Bucket(a)
<1>1. site' = site /\ opt' = opt
  BY DEF site, opt
<1>4. InitialArticles' = InitialArticles /\ RootIds' = RootIds
  BY <1>1 DEF InitialArticles, RootIds
<1>2. Scope' = Scope /\ \A a : Bucket(a)' = Bucket(a)
  BY <1>1, <1>4 DEF Scope, Bucket
<1>3. ToPrune' = ToPrune
  BY <1>1, <1>2, <1>4 DEF ToPrune, Newer, Bucket
<1> QED BY <1>1, <1>2, <1>3, <1>4 DEF WholeFolders

LEMMA Steps ==
  ASSUME PruneNext
  PROVE  case' = case /\ gone \subseteq gone' /\ added \subseteq added'
BY DEF PruneNext, PruneStep, PruneRejected, ResolveScope, BuildPlan, PlanFolders, PruneReports, ListArticles,
       DeleteFolder, DeleteArticle, TakeArticle, PruneFails, ConnectionLost, ArticleRefused, FolderRefused,
       EditorDeletes, EditorAdds, Editor

LEMMA ExcuseStays ==
  ASSUME case' = case, gone \subseteq gone', added \subseteq added', NEW a
  PROVE  (Upset(a) => Upset(a)') /\ (Excused(a) => Excused(a)') /\ (Quiet' => Quiet)
BY CaseStays DEF Upset, Excused, Quiet

LEMMA InitHolds ==
  ASSUME PruneInit
  PROVE  PruneInv
<1> USE DEF PruneInit, PruneStart
<1>1. case \in PruneCases /\ tree = <<>> /\ DOMAIN tree = {} /\ removed = {} /\ seen = {} /\ plan = {}
  <2>1. DOMAIN <<>> = {}
    OBVIOUS
  <2> QED BY <2>1
<1>2. InitialArticles \subseteq Articles /\ (WholeFolders <=> WholeFolders) /\ AllArticles = InitialArticles
  BY CaseFacts DEF AllArticles
<1>3. PruneTypes
  <2>1. folders \subseteq site.exists /\ InitialArticles \subseteq Articles
    BY CaseFacts DEF site
  <2>2. tree \in [DOMAIN tree -> Nat]
    BY <1>1
  <2> QED BY <1>1, <1>2, <2>1, <2>2 DEF PruneTypes, AllArticles, Workers
<1>4. Phases /\ Untouched /\ Planned /\ Kept
  BY <1>1 DEF Phases, Untouched, Planned, Kept, Empty, Workers, AllArticles, site, Excused
<1>5. Reading /\ Going
  BY <1>1 DEF Reading, Going, Quiet
<1> QED BY <1>3, <1>4, <1>5 DEF PruneInv

(* Types.                                                                   *)
LEMMA TypesStep ==
  ASSUME PruneInv, PruneNext
  PROVE  PruneTypes'
<1> USE DEF PruneTypes, AllArticles, Portal, Editor, Command
<1>1. /\ case' = case /\ site' = site /\ InitialArticles' = InitialArticles
      /\ InitialArticles \subseteq Articles /\ site.exists \subseteq Folders /\ site.late \subseteq Articles
      /\ site.late \cap InitialArticles = {} /\ PruneTypes
  BY Steps, CaseStays, CaseFacts DEF PruneInv
<1>2. CASE PruneRejected \/ PruneFails \/ PruneReports
  BY <1>1, <1>2, PruneAssumption DEF PruneRejected, PruneFails, PruneReports, Fault
<1>3. CASE ResolveScope
  <2>1. RootIds \subseteq Folders /\ folders \subseteq Folders
    BY <1>1, CaseFacts
  <2>2. \A f \in Folders : DirectCount(f) \in Nat
    <3>1. articles \subseteq Articles
      BY <1>1
    <3> QED BY <3>1, SomeArticles DEF DirectCount
  <2>3. UNION {Subtree(r) : r \in RootIds \cap folders} \subseteq Folders
    BY <1>1 DEF Subtree
  <2>4. tree' \in [DOMAIN tree' -> Nat] /\ listed' = {}
    <3>1. listed = {}
      BY <1>3 DEF PruneInv, Untouched, ResolveScope
    <3> QED BY <1>3, <2>2, <2>3, <3>1 DEF ResolveScope
  <2> QED BY <1>1, <1>3, <2>1, <2>4 DEF ResolveScope
<1>4. CASE BuildPlan
  <2>1. plan = {} /\ done = {} /\ hand = [w \in Workers |-> NoArticle] /\ failed = Empty
    BY <1>4 DEF PruneInv, Untouched, BuildPlan
  <2>2. plan' \subseteq seen
    BY <1>4 DEF BuildPlan, PlanOf, Candidates
  <2>3. pruneFaults' \in Nat
    BY <1>1, <1>4 DEF BuildPlan, Fault
  <2> QED BY <1>1, <1>4, <2>1, <2>2, <2>3 DEF BuildPlan, Empty
<1>5. CASE PlanFolders
  <2>1. RemovableFolders(done) \subseteq Folders
    <3>1. DOMAIN tree \subseteq Folders
      BY <1>1, <1>5 DEF PruneInv, Reading, Scope, PlanFolders
    <3> QED BY <3>1 DEF RemovableFolders, Collected
  <2> QED BY <1>1, <1>5, <2>1 DEF PlanFolders
<1>6. CASE \E f \in Folders : ListArticles(f)
  BY <1>1, <1>6 DEF ListArticles
<1>7. CASE \E f \in Folders : DeleteFolder(f)
  BY <1>1, <1>7 DEF DeleteFolder
<1>8. CASE \E w \in Workers : DeleteArticle(w)
  BY <1>1, <1>8 DEF DeleteArticle
<1>9. CASE \E w \in Workers : \E a \in Articles : TakeArticle(w, a)
  BY <1>1, <1>9 DEF TakeArticle
<1>10. CASE ConnectionLost
  BY <1>1, <1>10 DEF ConnectionLost, Fault
<1>11. CASE \E w \in Workers : ArticleRefused(w)
  BY <1>1, <1>11 DEF ArticleRefused, Fault
<1>12. CASE \E f \in Folders : FolderRefused(f)
  BY <1>1, <1>12 DEF FolderRefused, Fault
<1>13. CASE \E a \in Articles : EditorDeletes(a) \/ EditorAdds(a)
  BY <1>1, <1>13 DEF EditorDeletes, EditorAdds
<1> QED BY <1>2, <1>3, <1>4, <1>5, <1>6, <1>7, <1>8, <1>9, <1>10, <1>11, <1>12, <1>13 DEF PruneNext, PruneStep

(* Where the command is, and that nothing goes before it deletes.           *)
LEMMA PhasesStep ==
  ASSUME PruneInv, PruneNext
  PROVE  Phases'
<1>1. Phases /\ site' = site /\ opt' = opt /\ (WholeFolders' <=> WholeFolders)
      /\ (WholeFolders => ~opt.dry)
  BY Steps, CaseStays DEF PruneInv, WholeFolders
<1> USE DEF Phases
<1>2. CASE PruneRejected \/ PruneFails \/ ConnectionLost
  BY <1>1, <1>2 DEF PruneRejected, PruneFails, ConnectionLost
<1>3. CASE ResolveScope
  BY <1>1, <1>3 DEF ResolveScope
<1>4. CASE BuildPlan
  BY <1>1, <1>4 DEF BuildPlan
<1>5. CASE PlanFolders
  BY <1>1, <1>5 DEF PlanFolders
<1>6. CASE PruneReports
  BY <1>1, <1>6 DEF PruneReports
<1>7. CASE UNCHANGED prunePc
  BY <1>1, <1>7
<1> QED BY <1>2, <1>3, <1>4, <1>5, <1>6, <1>7
        DEF PruneNext, PruneStep, ListArticles, DeleteFolder, DeleteArticle, TakeArticle, ArticleRefused,
            FolderRefused, EditorDeletes, EditorAdds, Command

LEMMA UntouchedStep ==
  ASSUME PruneInv, PruneNext
  PROVE  Untouched'
<1>1. /\ Untouched /\ Phases /\ PruneTypes /\ (WholeFolders' <=> WholeFolders)
      /\ site' = site /\ opt' = opt /\ InitialArticles' = InitialArticles
      /\ (WholeFolders => ~opt.dry) /\ site.late \cap InitialArticles = {}
  BY Steps, CaseStays, CaseFacts DEF PruneInv, WholeFolders, PruneTypes
<1> USE DEF Untouched, Empty, AllArticles, Portal, Editor, Command
<1>2. CASE PruneRejected \/ PruneFails \/ ConnectionLost
  BY <1>1, <1>2 DEF PruneRejected, PruneFails, ConnectionLost
<1>3. CASE ResolveScope
  BY <1>1, <1>3 DEF ResolveScope
<1>4. CASE BuildPlan
  BY <1>1, <1>4 DEF BuildPlan, Phases
<1>5. CASE PlanFolders
  BY <1>1, <1>5 DEF PlanFolders, Phases
<1>6. CASE PruneReports
  BY <1>1, <1>6 DEF PruneReports, Phases
<1>7. CASE \E f \in Folders : ListArticles(f)
  BY <1>1, <1>7 DEF ListArticles, Phases
<1>8. CASE \E f \in Folders : DeleteFolder(f) \/ FolderRefused(f)
  <2>1. prunePc \in {"roots", "remove"} \/ removing # {}
    BY <1>8 DEF DeleteFolder, FolderRefused, NextFolder
  <2>2. ~(prunePc \in {"tree", "list"} \/ (prunePc = "ok" /\ opt.dry))
    BY <1>1, <1>8 DEF DeleteFolder, FolderRefused, NextFolder
  <2> QED BY <1>1, <1>8, <2>2 DEF DeleteFolder, FolderRefused
<1>9. CASE \E w \in Workers : DeleteArticle(w) \/ ArticleRefused(w) \/ \E a \in Articles : TakeArticle(w, a)
  BY <1>1, <1>9 DEF DeleteArticle, ArticleRefused, TakeArticle
<1>10. CASE \E a \in Articles : EditorDeletes(a)
  BY <1>1, <1>10 DEF EditorDeletes, PruneOver
<1>11. CASE \E a \in Articles : EditorAdds(a)
  BY <1>1, <1>11 DEF EditorAdds, PruneOver, PruneTypes
<1> QED BY <1>2, <1>3, <1>4, <1>5, <1>6, <1>7, <1>8, <1>9, <1>10, <1>11 DEF PruneNext, PruneStep

(* What has been read still relates to the site in the same way after a     *)
(* step that reads nothing.                                                 *)
LEMMA ReadingStays ==
  ASSUME PruneInv, case' = case, gone \subseteq gone', added \subseteq added',
         UNCHANGED <<tree, listed, seen>>, prunePc \in {"tree", "error"} => prunePc' \in {"tree", "error"}
  PROVE  Reading'
<1>1. /\ Reading /\ PruneTypes /\ site' = site /\ Scope' = Scope
      /\ InitialArticles' = InitialArticles /\ (Quiet' => Quiet)
      /\ \A a \in seen : a \in Articles
  BY CaseStays, ExcuseStays, CaseFacts DEF PruneInv, PruneTypes, AllArticles
<1>2. \A f \in DOMAIN tree : Cardinality(Expected(f))' <= tree[f]
  <2>1. SUFFICES ASSUME NEW f \in DOMAIN tree PROVE Cardinality(Expected(f)') <= tree[f]
    OBVIOUS
  <2>2. Expected(f)' \subseteq Expected(f) /\ Expected(f) \subseteq Articles
    BY <1>1, CaseFacts DEF Expected, In, PruneTypes
  <2>3. /\ Cardinality(Expected(f)') <= Cardinality(Expected(f)) /\ Cardinality(Expected(f)') \in Nat
        /\ Cardinality(Expected(f)) \in Nat
    BY <2>2, SomeArticles
  <2>4. Cardinality(Expected(f)) <= tree[f] /\ tree[f] \in Nat
    BY <1>1 DEF Reading, PruneTypes
  <2> QED BY <2>3, <2>4
<1>3. \A f : In(f, InitialArticles)' = In(f, InitialArticles)
  BY <1>1 DEF In
<1> QED BY <1>1, <1>2, <1>3 DEF Reading

LEMMA ReadingStep ==
  ASSUME PruneInv, PruneNext
  PROVE  Reading'
<1>1. /\ case' = case /\ gone \subseteq gone' /\ added \subseteq added'
      /\ Reading /\ PruneTypes /\ site' = site /\ opt' = opt /\ Scope' = Scope
      /\ InitialArticles' = InitialArticles /\ RootIds' = RootIds
      /\ InitialArticles \subseteq Articles /\ site.late \subseteq Articles
  BY Steps, CaseStays, CaseFacts DEF PruneInv, PruneTypes
<1>2. CASE ResolveScope
  <2>1. /\ folders = site.exists /\ articles = AllArticles \ gone /\ seen = {} /\ listed = {}
        /\ seen' = {} /\ listed' = {} /\ gone' = gone /\ added' = added
    BY <1>2 DEF ResolveScope, PruneInv, Untouched, Editor
  <2>2. tree' = [f \in UNION {Subtree(r) : r \in RootIds \cap folders} |-> DirectCount(f)]
    BY <1>2 DEF ResolveScope
  <2>3. UNION {Subtree(r) : r \in RootIds \cap folders} = Scope
    <3>1. \A f \in site.exists : Up(site)[f] \subseteq site.exists
      BY <1>1, AboveExist DEF PruneTypes
    <3> QED BY <2>1, <3>1 DEF Subtree, Scope
  <2>4. DOMAIN tree' = Scope
    BY <2>2, <2>3
  <2>5. \A f : In(f, InitialArticles)' = In(f, InitialArticles) /\ Expected(f)' = In(f, InitialArticles \ gone)
    BY <1>1, <2>1 DEF In, Expected
  <2>6. ASSUME NEW f \in Scope
        PROVE  /\ Cardinality(In(f, InitialArticles \ gone)) <= tree'[f]
               /\ Quiet => tree'[f] = Cardinality(In(f, InitialArticles))
    <3>1. tree'[f] = Cardinality(In(f, articles))
      BY <2>2, <2>3 DEF DirectCount, In
    <3>2. In(f, articles) \subseteq Articles /\ In(f, InitialArticles \ gone) \subseteq In(f, articles)
      BY <1>1, <2>1 DEF In, AllArticles, PruneTypes
    <3>3. Cardinality(In(f, InitialArticles \ gone)) <= Cardinality(In(f, articles))
      BY <3>2, SomeArticles
    <3>4. Quiet => In(f, articles) = In(f, InitialArticles)
      BY <2>1 DEF Quiet, AllArticles
    <3> QED BY <3>1, <3>3, <3>4
  <2>7. Quiet' => Quiet
    BY <2>1 DEF Quiet
  <2>8. \A f \in DOMAIN tree' : /\ Cardinality(Expected(f)') <= tree'[f]
                                /\ Quiet' => tree'[f] = Cardinality(In(f, InitialArticles)')
    BY <2>4, <2>5, <2>6, <2>7
  <2>9. \A a \in seen' : site'.folder[a] \in DOMAIN tree'
    BY <2>1
  <2>10. seen' = {a \in InitialArticles' : site'.folder[a] \in listed'}
    BY <2>1
  <2> QED BY <1>1, <2>4, <2>8, <2>9, <2>10 DEF Reading
<1>3. ASSUME NEW f \in Folders, ListArticles(f) PROVE Reading'
  <2>1. /\ articles = AllArticles \ gone /\ f \in DOMAIN tree /\ tree' = tree /\ prunePc' = prunePc
        /\ gone' = gone /\ added' = added /\ listed' = listed \cup {f}
        /\ seen' = seen \cup {a \in articles : site.folder[a] = f}
    BY <1>3 DEF ListArticles, PruneInv, Untouched, Editor
  <2>2. \A g : Expected(g)' = Expected(g) /\ In(g, InitialArticles)' = In(g, InitialArticles)
    BY <1>1, <2>1 DEF Expected, In, AllArticles
  <2>3. Quiet' = Quiet
    BY <2>1 DEF Quiet
  <2>4. Quiet => seen' = {a \in InitialArticles : site.folder[a] \in listed'}
    BY <1>1, <2>1 DEF Quiet, Reading, AllArticles
  <2> QED BY <1>1, <2>1, <2>2, <2>3, <2>4 DEF Reading
<1>4. CASE /\ UNCHANGED <<tree, listed, seen>>
           /\ prunePc \in {"tree", "error"} => prunePc' \in {"tree", "error"}
  BY <1>1, <1>4, ReadingStays
<1>5. CASE PruneRejected \/ PruneFails \/ ConnectionLost \/ BuildPlan \/ PlanFolders \/ PruneReports
  BY <1>4, <1>5 DEF PruneRejected, PruneFails, ConnectionLost, BuildPlan, PlanFolders, PruneReports, Command
<1>6. CASE \E f \in Folders : DeleteFolder(f) \/ FolderRefused(f)
  BY <1>4, <1>6 DEF DeleteFolder, FolderRefused
<1>7. CASE \E w \in Workers : DeleteArticle(w) \/ ArticleRefused(w) \/ \E a \in Articles : TakeArticle(w, a)
  BY <1>4, <1>7 DEF DeleteArticle, ArticleRefused, TakeArticle
<1>8. CASE \E a \in Articles : EditorDeletes(a) \/ EditorAdds(a)
  BY <1>4, <1>8 DEF EditorDeletes, EditorAdds, Command
<1> QED BY <1>2, <1>3, <1>5, <1>6, <1>7, <1>8 DEF PruneNext, PruneStep

(* The plan spares what is to be kept, unless an editor added an article    *)
(* to its bucket, and is exact when nothing interferes.                     *)
Ahead(a, as) == {b \in as : Bucket(b) = Bucket(a) /\ Newer(b, a)}
Matching(as) == {a \in as : site.folder[a] \in Scope
                            /\ (opt.structures = {} \/ site.structure[a] \in opt.structures)}
LEMMA PlanIsRight ==
  ASSUME PruneInv, DOMAIN tree = Scope, NEW hidden
  PROVE  /\ \A a \in (PlanOf(Candidates(hidden)) \cap InitialArticles) \ ToPrune : Upset(a)
         /\ Quiet /\ listed = DOMAIN tree /\ hidden = {} => PlanOf(Candidates(hidden)) = ToPrune
<1>1. /\ seen \subseteq InitialArticles \cup added /\ InitialArticles \subseteq Articles
      /\ seen \subseteq Articles /\ opt.keep \in Nat
      /\ \A a \in seen : site.folder[a] \in Scope
      /\ Quiet => seen = {a \in InitialArticles : site.folder[a] \in listed}
  BY CaseFacts DEF PruneInv, PruneTypes, AllArticles, Reading
<1>2. ToPrune = {a \in Matching(InitialArticles) :
                   Cardinality(Ahead(a, Matching(InitialArticles))) >= opt.keep}
  <2>1. \A a : Ahead(a, Matching(InitialArticles))
               = {b \in InitialArticles :
                    /\ site.folder[b] \in Scope /\ Bucket(b) = Bucket(a) /\ Newer(b, a)
                    /\ opt.structures = {} \/ site.structure[b] \in opt.structures}
    BY DEF Ahead, Matching
  <2> QED BY <2>1 DEF ToPrune, Matching
<1>3. PlanOf(Candidates(hidden)) = {a \in Candidates(hidden) :
                                      Cardinality(Ahead(a, Candidates(hidden))) >= opt.keep}
  BY DEF PlanOf, Ahead
<1>4. /\ Candidates(hidden) \subseteq Matching(seen)
      /\ hidden = {} => Candidates(hidden) = Matching(seen)
  BY <1>1 DEF Candidates, Matching
<1>5. ASSUME NEW a \in PlanOf(Candidates(hidden)) \cap InitialArticles, ~Upset(a)
      PROVE  a \in ToPrune
  <2> DEFINE T == Ahead(a, Candidates(hidden))
             S == Ahead(a, Matching(InitialArticles))
  <2>1. T \subseteq S /\ S \subseteq Articles
    <3>1. \A b \in T : b \in seen /\ Bucket(b) = Bucket(a) /\ Newer(b, a) /\ b \in Matching(seen)
      BY <1>4 DEF Ahead, Candidates
    <3>2. \A b \in T : b \in InitialArticles
      BY <1>1, <1>5, <3>1 DEF Upset
    <3> QED BY <1>1, <3>1, <3>2 DEF Ahead, Matching
  <2>2. Cardinality(T) >= opt.keep /\ a \in Matching(InitialArticles)
    BY <1>3, <1>4, <1>5 DEF Matching
  <2>3. Cardinality(S) >= opt.keep
    <3> HIDE DEF S, T
    <3>1. Cardinality(T) <= Cardinality(S) /\ Cardinality(T) \in Nat /\ Cardinality(S) \in Nat
      BY <2>1, SomeArticles
    <3> QED BY <1>1, <2>2, <3>1
  <2> QED BY <1>2, <2>2, <2>3
<1>6. Quiet /\ listed = DOMAIN tree /\ hidden = {} => PlanOf(Candidates(hidden)) = ToPrune
  <2>1. Quiet /\ listed = DOMAIN tree => Matching(seen) = Matching(InitialArticles)
    BY <1>1 DEF Matching
  <2> QED BY <1>2, <1>3, <1>4, <2>1
<1> QED BY <1>5, <1>6

LEMMA PlannedStep ==
  ASSUME PruneInv, PruneNext
  PROVE  Planned'
<1>1. /\ Planned /\ Untouched /\ PruneTypes /\ PruneTypes' /\ Phases /\ opt' = opt
      /\ (WholeFolders' <=> WholeFolders) /\ InitialArticles' = InitialArticles /\ ToPrune' = ToPrune
      /\ (Quiet' => Quiet) /\ \A a : Upset(a) => Upset(a)'
      /\ (WholeFolders => ~opt.dry)
  BY Steps, CaseStays, ExcuseStays, TypesStep DEF PruneInv, WholeFolders
<1> USE DEF Workers, Empty, Command, Portal, Editor
<1>2. CASE ResolveScope \/ \E f \in Folders : ListArticles(f)
  <2>1. prunePc \in {"tree", "list"} /\ plan = {} /\ prunePc' \in {"list", "roots"}
        /\ (prunePc' = "roots" => WholeFolders)
        /\ UNCHANGED <<plan, todo, hand, done, failed, articles, pruneFaults>>
    BY <1>1, <1>2 DEF ResolveScope, ListArticles, Untouched
  <2> QED BY <1>1, <2>1 DEF Planned, Untouched
<1>3. CASE PruneRejected \/ PruneFails
  <2>1. plan' = {} /\ prunePc' = "error" /\ pruneFaults' \in Nat
        /\ todo' = {} /\ done' = {} /\ failed' = Empty /\ hand' = [w \in Workers |-> NoArticle]
    BY <1>1, <1>3 DEF PruneRejected, PruneFails, Untouched, PruneTypes
  <2> QED BY <2>1 DEF Planned
<1>4. CASE BuildPlan
  <2>1. PICK hidden \in SUBSET ({site.structure[a] : a \in seen} \ site.known) :
           /\ IF hidden = {} THEN UNCHANGED pruneFaults ELSE Fault
           /\ plan' = PlanOf(Candidates(hidden))
    BY <1>4 DEF BuildPlan
  <2>2. DOMAIN tree = Scope /\ listed = DOMAIN tree /\ UNCHANGED <<hand, done, failed, articles>>
        /\ \/ prunePc' = "ok" /\ opt.dry /\ todo' = todo
           \/ prunePc' = "delete" /\ ~opt.dry /\ todo' = plan'
    BY <1>4 DEF BuildPlan, PruneInv, Reading
  <2>3. todo = {} /\ done = {} /\ failed = Empty /\ hand = [w \in Workers |-> NoArticle]
    BY <1>1, <1>4 DEF BuildPlan, Untouched
  <2>4. \A a \in (plan' \cap InitialArticles) \ ToPrune : Upset(a)
    BY <2>1, <2>2, PlanIsRight
  <2>5. Quiet' /\ pruneFaults' = 0 => plan' = ToPrune
    <3>1. pruneFaults' = 0 => hidden = {}
      BY <1>1, <2>1 DEF Fault, PruneTypes
    <3> QED BY <1>1, <2>1, <2>2, <3>1, PlanIsRight
  <2>6. NoArticle \notin plan'
    <3>1. plan' \subseteq seen /\ seen \subseteq Articles
      BY <1>1, <1>4, CaseFacts DEF PruneTypes, AllArticles, BuildPlan
    <3> QED BY <3>1, PruneAssumption DEF NoArticle
  <2>7. hand' = [w \in Workers |-> NoArticle] /\ {hand'[w] : w \in Workers} \ {NoArticle} = {}
    BY <2>2, <2>3
  <2> QED BY <1>1, <2>2, <2>3, <2>4, <2>5, <2>6, <2>7 DEF Planned
<1>5. CASE PlanFolders
  <2>1. todo = {} /\ \A w \in Workers : hand[w] = NoArticle
    BY <1>5 DEF PlanFolders
  <2>2. hand = [w \in Workers |-> NoArticle]
    BY <1>1, <2>1 DEF PruneTypes
  <2> QED BY <1>1, <1>5, <2>1, <2>2 DEF PlanFolders, Planned
<1>6. CASE PruneReports
  <2>1. WholeFolders => plan = {} /\ todo = {} /\ hand = [w \in Workers |-> NoArticle]
    BY <1>1 DEF Untouched, PruneTypes
  <2>2. (prunePc = "remove" /\ ~WholeFolders) \/ (prunePc = "roots" /\ WholeFolders)
    BY <1>1, <1>6 DEF PruneReports, Phases
  <2>3. CASE WholeFolders
    BY <1>1, <1>6, <2>1, <2>3 DEF PruneReports, Planned
  <2>4. CASE ~WholeFolders
    BY <1>1, <1>6, <2>2, <2>4 DEF PruneReports, Planned
  <2> QED BY <2>3, <2>4
<1>7. CASE \E f \in Folders : DeleteFolder(f)
  BY <1>1, <1>7 DEF DeleteFolder, Planned
<1>8. CASE \E f \in Folders : FolderRefused(f)
  BY <1>1, <1>8 DEF FolderRefused, Planned, Fault, PruneTypes
<1>9. CASE ConnectionLost
  BY <1>1, <1>9 DEF ConnectionLost, Planned, Fault, PruneTypes
<1>10. CASE \E a \in Articles : EditorDeletes(a)
  BY <1>1, <1>10 DEF EditorDeletes, Planned
<1>11. CASE \E a \in Articles : EditorAdds(a)
  <2>1. PICK a \in Articles : EditorAdds(a)
    BY <1>11
  <2>2. a \notin done
    <3>1. case \in PruneCases /\ done \subseteq InitialArticles \cup added
      BY <1>1 DEF PruneTypes, AllArticles
    <3> QED BY <2>1, <3>1, CaseFacts DEF EditorAdds
  <2> QED BY <1>1, <2>1, <2>2 DEF EditorAdds, Planned
<1>12. CASE \E w \in Workers : \E a \in Articles : TakeArticle(w, a)
  <2>1. PICK w \in Workers, a \in Articles : TakeArticle(w, a)
    BY <1>12
  <2> QED BY <1>1, <2>1 DEF TakeArticle, Planned, PruneTypes
<1>13. CASE \E w \in Workers : DeleteArticle(w)
  <2>1. PICK w \in Workers : DeleteArticle(w)
    BY <1>13
  <2>2. hand \in [Workers -> plan \cup {NoArticle}] /\ hand[w] # NoArticle /\ hand[w] \in plan
        /\ hand' = [hand EXCEPT ![w] = NoArticle] /\ prunePc = "delete"
        /\ done' = done \cup {hand[w]} /\ failed' = failed
    BY <1>1, <2>1 DEF DeleteArticle, PruneTypes
  <2>3. {hand[v] : v \in Workers} \ {NoArticle}
        = {hand[w]} \cup ({hand'[v] : v \in Workers} \ {NoArticle})
    BY <2>2
  <2>4. \A v \in Workers : hand'[v] = NoArticle \/ (hand'[v] = hand[v] /\ hand[v] # hand[w])
    BY <1>1, <2>2 DEF Planned
  <2>5. NoArticle \notin Articles /\ plan \subseteq Articles
    BY <1>1, CaseFacts, PruneAssumption DEF PruneTypes, AllArticles, NoArticle
  <2> QED BY <1>1, <2>1, <2>2, <2>3, <2>4, <2>5 DEF DeleteArticle, Planned, PruneTypes
<1>14. CASE \E w \in Workers : ArticleRefused(w)
  <2>1. PICK w \in Workers : ArticleRefused(w)
    BY <1>14
  <2>2. hand \in [Workers -> plan \cup {NoArticle}] /\ hand[w] # NoArticle /\ hand[w] \in plan
        /\ hand' = [hand EXCEPT ![w] = NoArticle] /\ prunePc = "delete"
        /\ done' = done /\ failed'.articles = failed.articles \cup {hand[w]}
    BY <1>1, <2>1 DEF ArticleRefused, PruneTypes
  <2>3. {hand[v] : v \in Workers} \ {NoArticle}
        = {hand[w]} \cup ({hand'[v] : v \in Workers} \ {NoArticle})
    BY <2>2
  <2>4. \A v \in Workers : hand'[v] = NoArticle \/ (hand'[v] = hand[v] /\ hand[v] # hand[w])
    BY <1>1, <2>2 DEF Planned
  <2>5. NoArticle \notin Articles /\ plan \subseteq Articles
    BY <1>1, CaseFacts, PruneAssumption DEF PruneTypes, AllArticles, NoArticle
  <2> QED BY <1>1, <2>1, <2>2, <2>3, <2>4, <2>5 DEF ArticleRefused, Planned, PruneTypes, Fault
<1> QED BY <1>2, <1>3, <1>4, <1>5, <1>6, <1>7, <1>8, <1>9, <1>10, <1>11, <1>12, <1>13, <1>14
        DEF PruneNext, PruneStep

(* What is to be kept stays.                                                *)
LEMMA WholeScopeGoes ==
  ASSUME case \in PruneCases, WholeFolders, NEW r \in RootIds, NEW a \in InitialArticles,
         r \in Up(site)[site.folder[a]]
  PROVE  a \in ToPrune
<1>1. site.folder[a] \in Scope /\ opt.structures = {} /\ opt.keep = 0 /\ InitialArticles \subseteq Articles
  BY CaseFacts DEF Scope, WholeFolders
<1> DEFINE S == {b \in InitialArticles :
        /\ site.folder[b] \in Scope /\ Bucket(b) = Bucket(a) /\ Newer(b, a)
        /\ opt.structures = {} \/ site.structure[b] \in opt.structures}
<1>2. Cardinality(S) \in Nat
  <2>1. S \subseteq Articles
    BY <1>1
  <2> HIDE DEF S
  <2> QED BY <2>1, SomeArticles
<1>3. Cardinality(S) >= opt.keep
  <2> HIDE DEF S
  <2> QED BY <1>1, <1>2
<1> QED BY <1>1, <1>3 DEF ToPrune

LEMMA KeptStep ==
  ASSUME RootsInOrder, PruneInv, PruneNext
  PROVE  Kept'
<1> DEFINE Safe == InitialArticles \ ToPrune
<1>1. /\ Kept /\ Planned /\ PruneTypes /\ site' = site /\ InitialArticles' = InitialArticles
      /\ ToPrune' = ToPrune /\ gone \subseteq gone' /\ added \subseteq added'
      /\ \A a : Excused(a) => Excused(a)'
  BY Steps, CaseStays, ExcuseStays DEF PruneInv
<1>2. Safe \subseteq InitialArticles /\ Safe' = Safe /\ InitialArticles \subseteq Articles /\ NoArticle \notin Safe
  BY <1>1, CaseFacts, PruneAssumption DEF PruneTypes, NoArticle
<1>3. \A a \in plan : a \in Safe => Excused(a)
  BY <1>1 DEF Planned, Excused
<1>4. \A f \in removing : \A a \in Contents(Subtree(f)) : a \in Safe => Excused(a)
  BY <1>1 DEF Kept, Contents, Subtree
<1> DEFINE StillKept ==
      /\ \A a \in Safe : a \in articles' \/ Excused(a)'
      /\ \A f \in removing' : \A a \in Safe : f \in Up(site)[site.folder[a]] => Excused(a)'
<1>5. SUFFICES StillKept
  BY <1>1, <1>2 DEF Kept
<1>6. /\ \A a \in Safe : a \in articles \/ Excused(a)
      /\ \A f \in removing : \A a \in Safe : f \in Up(site)[site.folder[a]] => Excused(a)
  BY <1>1 DEF Kept
<1> HIDE DEF Safe
<1> USE DEF Portal, Command, Editor
<1>7. CASE articles \subseteq articles' /\ removing' \subseteq removing
  BY <1>1, <1>6, <1>7
<1>8. CASE ResolveScope
  <2>1. articles' = articles
    BY <1>8 DEF ResolveScope
  <2>2. CASE WholeFolders
    <3>1. removing' \subseteq RootIds
      BY <1>8, <2>2 DEF ResolveScope
    <3>2. \A a \in Safe : a \in InitialArticles \ ToPrune
      BY DEF Safe
    <3>3. \A f \in removing' : \A a \in Safe : ~(f \in Up(site)[site.folder[a]])
      BY <1>1, <2>2, <3>1, <3>2, WholeScopeGoes DEF PruneTypes
    <3> QED BY <1>1, <1>6, <2>1, <3>3
  <2>3. CASE ~WholeFolders
    <3>1. removing' = removing
      BY <1>8, <2>3 DEF ResolveScope
    <3> QED BY <1>7, <2>1, <3>1
  <2> QED BY <2>2, <2>3
<1>9. CASE PlanFolders
  <2>1. articles' = articles /\ removing' = RemovableFolders(done) /\ DOMAIN tree = Scope /\ Reading
        /\ done \subseteq seen /\ done \subseteq plan
    BY <1>1, <1>9 DEF PlanFolders, PruneInv, Reading, PruneTypes
  <2>2. ASSUME NEW f \in removing', NEW a \in Safe, f \in Up(site)[site.folder[a]], ~Excused(a)
        PROVE  FALSE
    <3>1. a \in InitialArticles \ gone
          /\ \A b \in added : Up(site)[site.folder[b]] \cap Up(site)[site.folder[a]] = {}
      BY <1>2, <2>2 DEF Excused, Upset
    <3>2. a \in done
      BY <1>1, <2>1, <2>2, <3>1, RemovableIsEmpty
    <3> QED BY <1>3, <2>1, <2>2, <3>2
  <2> QED BY <1>1, <1>6, <2>1, <2>2
<1>10. ASSUME NEW f \in Folders, DeleteFolder(f) PROVE StillKept
  <2>1. articles' = articles \ Contents(Subtree(f)) /\ f \in removing /\ removing' \subseteq removing
    BY <1>10 DEF DeleteFolder, NextFolder
  <2> QED BY <1>1, <1>4, <1>6, <2>1
<1>11. ASSUME NEW w \in Workers, DeleteArticle(w) PROVE StillKept
  <2>1. articles' = articles \ {hand[w]} /\ hand[w] \in plan \cup {NoArticle} /\ removing' = removing
    BY <1>1, <1>11 DEF DeleteArticle, PruneTypes
  <2> QED BY <1>1, <1>2, <1>3, <1>6, <2>1
<1>12. CASE ConnectionLost
  <2>1. CASE \E late \in SUBSET {hand[w] : w \in Workers} : articles' = articles \ late
    <3>1. removing' = removing /\ \A w \in Workers : hand[w] \in plan \cup {NoArticle}
      BY <1>1, <1>12 DEF ConnectionLost, PruneTypes
    <3> QED BY <1>1, <1>2, <1>3, <1>6, <2>1, <3>1
  <2>2. CASE \E f \in removing : articles' = articles \ Contents(Subtree(f))
    <3>1. removing' = removing
      BY <1>12 DEF ConnectionLost
    <3> QED BY <1>1, <1>4, <1>6, <2>2, <3>1
  <2> QED BY <1>12, <2>1, <2>2 DEF ConnectionLost
<1>13. ASSUME NEW a \in Articles, EditorDeletes(a) PROVE StillKept
  <2>1. articles' = articles \ {a} /\ a \in gone' /\ removing' = removing
    BY <1>13 DEF EditorDeletes
  <2> QED BY <1>1, <1>6, <2>1 DEF Excused
<1>14. CASE PruneRejected \/ PruneFails \/ BuildPlan \/ PruneReports
  BY <1>7, <1>14 DEF PruneRejected, PruneFails, BuildPlan, PruneReports
<1>15. CASE \E f \in Folders : ListArticles(f) \/ FolderRefused(f)
  BY <1>7, <1>15 DEF ListArticles, FolderRefused
<1>16. CASE \E w \in Workers : ArticleRefused(w) \/ \E a \in Articles : TakeArticle(w, a)
  BY <1>7, <1>16 DEF ArticleRefused, TakeArticle
<1>17. CASE \E a \in Articles : EditorAdds(a)
  BY <1>7, <1>17 DEF EditorAdds
<1> QED BY <1>8, <1>9, <1>10, <1>11, <1>12, <1>13, <1>14, <1>15, <1>16, <1>17 DEF PruneNext, PruneStep

(* The folders that go take nothing with them that was not deleted before,  *)
(* or are whole roots.                                                      *)
LEMMA GoingStep ==
  ASSUME RootsInOrder, PruneInv, PruneNext
  PROVE  Going'
<1>1. /\ Going /\ Planned /\ Untouched /\ PruneTypes /\ Phases /\ Reading
      /\ site' = site /\ opt' = opt /\ InitialArticles' = InitialArticles /\ RootIds' = RootIds
      /\ (WholeFolders' <=> WholeFolders) /\ (WholeFolders => ~opt.dry) /\ (Quiet' => Quiet)
      /\ InitialArticles \subseteq Articles /\ site.exists \subseteq Folders
      /\ \A a \in InitialArticles : site.folder[a] \in site.exists
  BY Steps, CaseStays, ExcuseStays, CaseFacts DEF PruneInv, WholeFolders, PruneTypes
<1>2. \A f \in Folders : f \in Up(site)[f]
  BY CaseFacts, UpFacts DEF PruneInv, PruneTypes
<1> USE DEF Portal, Command, Editor
<1>3. CASE PruneRejected \/ PruneFails \/ ConnectionLost
  <2>1. prunePc' = "error" /\ removed' = removed /\ folders' \subseteq folders
    BY <1>3 DEF PruneRejected, PruneFails, ConnectionLost
  <2> QED BY <1>1, <2>1 DEF Going
<1>4. CASE ResolveScope
  <2>1. folders = site.exists /\ articles = AllArticles \ gone /\ removed = {} /\ failed = Empty
        /\ UNCHANGED <<folders, articles, removed, failed, gone, added>>
    BY <1>1, <1>4 DEF ResolveScope, Untouched
  <2>2. CASE WholeFolders
    <3>1. prunePc' = "roots" /\ removing' = RootIds \cap folders
      BY <1>4, <2>2 DEF ResolveScope
    <3> QED BY <1>1, <2>1, <2>2, <3>1 DEF Going, Empty, Quiet, AllArticles
  <2>3. CASE ~WholeFolders
    <3>1. prunePc' = "list"
      BY <1>4, <2>3 DEF ResolveScope
    <3> QED BY <1>1, <2>1, <2>3, <3>1 DEF Going
  <2> QED BY <2>2, <2>3
<1>5. CASE \E f \in Folders : ListArticles(f)
  BY <1>1, <1>5 DEF ListArticles, Going
<1>6. CASE BuildPlan
  <2>1. articles = AllArticles \ gone /\ removed = {} /\ removing = {} /\ done = {} /\ ~WholeFolders
        /\ UNCHANGED <<folders, articles, removed, removing, done, gone, added>>
    BY <1>1, <1>6 DEF BuildPlan, Untouched, Phases
  <2> QED BY <1>1, <2>1 DEF Going, Quiet, AllArticles
<1>7. CASE PlanFolders
  <2>1. /\ removing' = RemovableFolders(done) /\ DOMAIN tree = Scope /\ done \subseteq seen /\ prunePc = "delete"
        /\ ~WholeFolders /\ ~opt.dry /\ prunePc' = "remove" /\ UNCHANGED <<folders, articles, removed, done>>
    BY <1>1, <1>7 DEF PlanFolders, Reading, PruneTypes, Phases
  <2>2. ASSUME Quiet, NEW f \in removing', NEW a \in InitialArticles, f \in Up(site)[site.folder[a]]
        PROVE  a \in done
    <3>1. a \in InitialArticles \ gone /\ added = {}
      BY <2>2 DEF Quiet
    <3> QED BY <1>1, <2>1, <2>2, <3>1, RemovableIsEmpty
  <2> QED BY <1>1, <2>1, <2>2 DEF Going
<1>8. CASE PruneReports
  BY <1>1, <1>8 DEF PruneReports, Going, Phases
<1>9. ASSUME NEW f \in Folders, DeleteFolder(f) PROVE Going'
  <2>1. /\ folders' = folders \ Subtree(f) /\ articles' = articles \ Contents(Subtree(f)) /\ f \in removing
        /\ removing' = removing \ {f} /\ removed' = removed \cup {f}
        /\ UNCHANGED <<prunePc, done, failed, gone, added>>
    BY <1>9 DEF DeleteFolder, NextFolder
  <2>2. removed' \cap folders' = {}
    BY <1>1, <1>2, <2>1 DEF Going, Subtree
  <2>3. prunePc' # "ok"
    BY <1>1, <2>1 DEF Going
  <2>4. ASSUME prunePc' \in {"delete", "remove"}, ~WholeFolders, ~opt.dry, Quiet
        PROVE  /\ articles' = InitialArticles \ done
               /\ \A g \in removing' \cup removed' : \A a \in InitialArticles :
                     g \in Up(site)[site.folder[a]] => a \in done
    <3>1. /\ articles = InitialArticles \ done
          /\ \A g \in removing \cup removed : \A a \in InitialArticles :
                g \in Up(site)[site.folder[a]] => a \in done
      BY <1>1, <2>1, <2>4 DEF Going
    <3>2. Contents(Subtree(f)) \cap InitialArticles \subseteq done
      BY <2>1, <3>1 DEF Contents, Subtree
    <3> QED BY <2>1, <3>1, <3>2
  <2>5. ASSUME prunePc' = "roots", WholeFolders
        PROVE  /\ removed' \cup removing' \cup failed'.folders = RootIds \cap site.exists
               /\ folders' = {g \in site.exists : Up(site)[g] \cap removed' = {}}
               /\ Quiet => articles' = {a \in InitialArticles : Up(site)[site.folder[a]] \cap removed' = {}}
    <3>1. /\ removed \cup removing \cup failed.folders = RootIds \cap site.exists
          /\ folders = {g \in site.exists : Up(site)[g] \cap removed = {}}
          /\ Quiet => articles = {a \in InitialArticles : Up(site)[site.folder[a]] \cap removed = {}}
      BY <1>1, <2>1, <2>5 DEF Going
    <3>2. folders' = {g \in site.exists : Up(site)[g] \cap removed' = {}}
      BY <2>1, <3>1 DEF Subtree
    <3>3. ASSUME Quiet
          PROVE  articles' = {a \in InitialArticles : Up(site)[site.folder[a]] \cap removed' = {}}
      <4>1. \A a \in articles : a \in Contents(Subtree(f)) <=> f \in Up(site)[site.folder[a]]
        BY <1>1, <3>1, <3>3 DEF Contents, Subtree
      <4> QED BY <2>1, <3>1, <3>3, <4>1
    <3> QED BY <2>1, <3>1, <3>2, <3>3
  <2> QED BY <1>1, <2>1, <2>2, <2>3, <2>4, <2>5 DEF Going
<1>10. CASE \E f \in Folders : FolderRefused(f)
  BY <1>1, <1>10 DEF FolderRefused, NextFolder, Going, PruneTypes
<1>11. CASE \E w \in Workers : DeleteArticle(w)
  <2>1. PICK w \in Workers : DeleteArticle(w)
    BY <1>11
  <2>2. articles' = articles \ {hand[w]} /\ done' = done \cup {hand[w]} /\ ~WholeFolders
        /\ UNCHANGED <<folders, prunePc, removing, removed>>
    BY <1>1, <2>1 DEF DeleteArticle, Phases
  <2> QED BY <1>1, <2>2 DEF Going
<1>12. CASE \E w \in Workers : ArticleRefused(w) \/ \E a \in Articles : TakeArticle(w, a)
  <2>1. ~WholeFolders /\ UNCHANGED <<folders, articles, prunePc, removing, removed, done>>
    BY <1>1, <1>12 DEF ArticleRefused, TakeArticle, Phases
  <2> QED BY <1>1, <2>1 DEF Going
<1>13. CASE \E a \in Articles : EditorDeletes(a) \/ EditorAdds(a)
  <2>1. ~Quiet' /\ UNCHANGED <<folders, prunePc, removing, removed, failed>>
    BY <1>13 DEF EditorDeletes, EditorAdds, Quiet
  <2> QED BY <1>1, <2>1 DEF Going
<1> QED BY <1>3, <1>4, <1>5, <1>6, <1>7, <1>8, <1>9, <1>10, <1>11, <1>12, <1>13 DEF PruneNext, PruneStep

-----------------------------------------------------------------------------
(* The invariant says all that a prune promises.                            *)
LEMMA CountIsTrue ==
  ASSUME RootsInOrder, PruneInv, prunePc = "ok", ~opt.dry, Quiet
  PROVE  DeletedCount = Cardinality(InitialArticles \ articles)
<1>1. /\ InitialArticles \subseteq Articles /\ plan \subseteq InitialArticles
      /\ \A a \in InitialArticles : site.folder[a] \in site.exists
      /\ site.exists \subseteq Folders /\ case \in PruneCases /\ DOMAIN tree = Scope
      /\ \A f \in DOMAIN tree : tree[f] = Cardinality(In(f, InitialArticles))
  BY CaseFacts DEF PruneInv, PruneTypes, AllArticles, Quiet, Reading
<1>2. CASE WholeFolders
  <2> DEFINE fs == UNION {Collected(r) : r \in removed \cap DOMAIN tree}
             as == InitialArticles \ articles
             in == [a \in as |-> site.folder[a]]
  <2>1. /\ removed \subseteq RootIds \cap site.exists
        /\ articles = {a \in InitialArticles : Up(site)[site.folder[a]] \cap removed = {}}
    BY <1>2 DEF PruneInv, Going
  <2>2. removed \subseteq DOMAIN tree /\ DOMAIN tree \subseteq site.exists
    BY <1>1, <2>1, CaseFacts, UpFacts DEF Scope
  <2>3. \A f \in fs : f \in DOMAIN tree /\ \E r \in removed : r \in Up(site)[f]
    BY DEF Collected
  <2>4. ASSUME NEW a \in as PROVE site.folder[a] \in fs
    <3>1. PICK r \in removed : r \in Up(site)[site.folder[a]]
      BY <2>1, <2>4
    <3>2. site.folder[a] \in DOMAIN tree
      BY <1>1, <2>1, <3>1 DEF Scope
    <3> QED BY <1>1, <2>1, <2>2, <3>1, <3>2, WithItsRoot
  <2>5. \A f \in fs : {a \in as : in[a] = f} = In(f, InitialArticles)
    BY <2>1, <2>3 DEF In
  <2>6. as \subseteq Articles /\ Tells(tree, as, in, fs)
    <3>1. in \in [as -> fs]
      BY <2>4
    <3>2. \A f \in fs : tree[f] = Cardinality({a \in as : in[a] = f})
      BY <1>1, <2>3, <2>5
    <3> QED BY <1>1, <3>1, <3>2 DEF Tells
  <2>7. DeletedCount = Cardinality(Numbers(fs, tree))
    BY <1>2 DEF DeletedCount, Numbered, Numbers
  <2> HIDE DEF fs, as, in
  <2>8. Cardinality(Numbers(fs, tree)) = Cardinality(as)
    BY <2>6, CountedOnce
  <2> QED BY <2>7, <2>8 DEF as
<1>3. CASE ~WholeFolders
  <2>1. /\ plan = done \cup failed.articles /\ done \cap failed.articles = {}
        /\ articles = InitialArticles \ done
    <3>1. \A w \in Workers : hand[w] = NoArticle
      BY DEF PruneInv, Planned
    <3> QED BY <1>3, <3>1 DEF PruneInv, Planned, Going
  <2>2. InitialArticles \ articles = done /\ done \subseteq Articles /\ failed.articles \subseteq Articles
    BY <1>1, <2>1
  <2>3. Cardinality(plan) = Cardinality(done) + Cardinality(failed.articles)
    <3> DEFINE D == done
               F == failed.articles
    <3>1. IsFiniteSet(D) /\ IsFiniteSet(F) /\ Cardinality(D) \in Nat /\ Cardinality(F) \in Nat
      BY <2>2, SomeArticles
    <3>2. D \cap F = {} /\ plan = D \cup F
      BY <2>1
    <3> HIDE DEF D, F
    <3>3. Cardinality(D \cup F) = Cardinality(D) + Cardinality(F) - Cardinality(D \cap F)
      BY <3>1, FS_Union
    <3>4. Cardinality(D \cap F) = 0
      BY <3>2, FS_EmptySet
    <3>5. Cardinality(D \cup F) = Cardinality(D) + Cardinality(F)
      BY <3>1, <3>3, <3>4
    <3> QED BY <3>2, <3>5 DEF D, F
  <2>4. DeletedCount = Cardinality(plan) - Cardinality(failed.articles)
    BY <1>3 DEF DeletedCount
  <2>5. Cardinality(done) \in Nat /\ Cardinality(failed.articles) \in Nat
    BY <2>2, SomeArticles
  <2> QED BY <2>2, <2>3, <2>4, <2>5
<1> QED BY <1>2, <1>3

LEMMA WholeScopeOnly ==
  ASSUME PruneInv, WholeFolders, NEW a \in InitialArticles
  PROVE  a \in ToPrune <=> Up(site)[site.folder[a]] \cap RootIds \cap site.exists # {}
<1>1. case \in PruneCases /\ site.folder[a] \in site.exists
  BY CaseFacts DEF PruneInv, PruneTypes
<1>2. Up(site)[site.folder[a]] \subseteq site.exists
  BY <1>1, AboveExist
<1>3. ASSUME a \in ToPrune PROVE Up(site)[site.folder[a]] \cap RootIds # {}
  BY <1>3 DEF ToPrune, Scope
<1>4. ASSUME NEW r \in Up(site)[site.folder[a]] \cap RootIds PROVE a \in ToPrune
  BY <1>1, WholeScopeGoes
<1> QED BY <1>2, <1>3, <1>4

LEMMA Honest ==
  ASSUME RootsInOrder, PruneInv
  PROVE  PruneIsHonest
<1>1. KeptSurvive
  BY DEF PruneInv, Kept, Excused, KeptSurvive
<1>2. /\ Planned /\ Untouched /\ Going /\ PruneTypes /\ Reading /\ Phases /\ case \in PruneCases
      /\ (WholeFolders => ~opt.dry)
      /\ InitialArticles \subseteq Articles /\ \A a \in InitialArticles : site.folder[a] \in Folders
  BY CaseFacts DEF PruneInv, PruneTypes, WholeFolders
<1>3. ASSUME prunePc = "ok", Quiet, pruneFaults = 0, ~WholeFolders
      PROVE  plan = ToPrune /\ (~opt.dry => done = plan /\ articles = InitialArticles \ ToPrune)
  <2>1. plan = ToPrune /\ failed = Empty /\ \A w \in Workers : hand[w] = NoArticle
    BY <1>2, <1>3 DEF Planned
  <2>2. ~opt.dry => done = plan
    BY <1>2, <1>3, <2>1 DEF Planned, Empty
  <2> QED BY <1>2, <1>3, <2>1, <2>2 DEF Going
<1>4. ASSUME prunePc = "ok", Quiet, pruneFaults = 0, WholeFolders
      PROVE  articles = InitialArticles \ ToPrune
  <2>1. /\ removed = RootIds \cap site.exists
        /\ articles = {a \in InitialArticles : Up(site)[site.folder[a]] \cap removed = {}}
    BY <1>2, <1>4 DEF Going, Planned, Empty
  <2> QED BY <1>4, <2>1, WholeScopeOnly
<1>5. ASSUME prunePc = "ok", ~opt.dry
      PROVE  removed \cap folders = {} /\ (plan \ failed.articles) \cap articles = {}
  <2>1. CASE WholeFolders
    BY <1>2, <2>1 DEF Untouched, Going
  <2>2. CASE ~WholeFolders
    <3>1. \A w \in Workers : hand[w] = NoArticle
      BY <1>2, <1>5 DEF Planned
    <3>2. plan = done \cup failed.articles
      BY <1>2, <1>5, <2>2, <3>1 DEF Planned
    <3> QED BY <1>2, <3>2 DEF Planned, Going
  <2> QED BY <2>1, <2>2
<1>6. ReportIsTrue
  <2>1. prunePc = "ok" /\ opt.dry => articles = (InitialArticles \cup added) \ gone /\ folders = site.exists
    BY <1>2 DEF Untouched, AllArticles
  <2>2. prunePc = "ok" /\ ~opt.dry /\ Quiet => DeletedCount = Cardinality(InitialArticles \ articles)
    BY CountIsTrue
  <2>3. prunePc = "ok" /\ ~opt.dry /\ Quiet /\ pruneFaults = 0 => articles = InitialArticles \ ToPrune
    BY <1>3, <1>4
  <2> QED BY <1>5, <2>1, <2>2, <2>3 DEF ReportIsTrue, Quiet
<1>7. ASSUME prunePc = "ok", Quiet, pruneFaults = 0, NEW a \in Contents(ReportedFolders) \cap InitialArticles
      PROVE  a \in ToPrune
  <2>1. site.folder[a] \in ReportedFolders /\ site.folder[a] \in Up(site)[site.folder[a]]
        /\ gone = {} /\ added = {} /\ DOMAIN tree = Scope /\ plan \subseteq seen
    BY <1>2, <1>7, CaseFacts, UpFacts DEF Contents, Quiet, Reading, PruneTypes
  <2>2. CASE WholeFolders
    <3>1. site.folder[a] \in removed /\ removed \subseteq RootIds
      BY <1>2, <1>7, <2>1, <2>2 DEF ReportedFolders, Going
    <3> QED BY <1>2, <2>1, <2>2, <3>1, WholeScopeGoes
  <2>3. CASE ~WholeFolders /\ opt.dry
    <3>1. site.folder[a] \in RemovableFolders(plan)
      BY <2>1, <2>3 DEF ReportedFolders
    <3>2. a \in plan
      BY <1>2, <2>1, <3>1, RemovableIsEmpty
    <3> QED BY <1>3, <1>7, <2>3, <3>2
  <2>4. CASE ~WholeFolders /\ ~opt.dry
    <3>1. a \in done
      BY <1>2, <1>7, <2>1, <2>4 DEF ReportedFolders, Going
    <3> QED BY <1>3, <1>7, <2>4, <3>1
  <2> QED BY <2>2, <2>3, <2>4
<1>8. DryRunPredicts
  <2>1. prunePc = "ok" /\ Quiet /\ pruneFaults = 0 /\ opt.dry => plan = ToPrune
    BY <1>2, <1>3
  <2>2. prunePc = "ok" /\ Quiet /\ pruneFaults = 0 => Contents(ReportedFolders) \cap InitialArticles \subseteq ToPrune
    BY <1>7
  <2> QED BY <2>1, <2>2 DEF DryRunPredicts, Quiet
<1> QED BY <1>1, <1>6, <1>8 DEF PruneIsHonest

(* The invariant is inductive.                                              *)
LEMMA Inductive ==
  ASSUME RootsInOrder
  PROVE  PruneSpec => []PruneInv
<1>1. PruneInit => PruneInv
  BY InitHolds
<1>2. PruneInv /\ [PruneNext]_pruneVars => PruneInv'
  <2>1. ASSUME PruneInv, PruneNext PROVE PruneInv'
    BY <2>1, TypesStep, PhasesStep, UntouchedStep, ReadingStep, PlannedStep, GoingStep, KeptStep DEF PruneInv
  <2>2. ASSUME PruneInv, UNCHANGED pruneVars PROVE PruneInv'
    <3>1. /\ UNCHANGED pruneVars /\ PruneTypes /\ Phases /\ Untouched /\ Reading /\ Planned /\ Going /\ Kept
          /\ site' = site /\ opt' = opt /\ InitialArticles' = InitialArticles /\ RootIds' = RootIds
          /\ Scope' = Scope /\ ToPrune' = ToPrune /\ (WholeFolders' <=> WholeFolders)
      BY <2>2, CaseStays DEF PruneInv, pruneVars
    <3>2. AllArticles' = AllArticles /\ (Quiet' <=> Quiet)
      BY <3>1 DEF AllArticles, Quiet, pruneVars
    <3>3. \A a : (Upset(a) => Upset(a)') /\ (Excused(a) => Excused(a)')
      BY <3>1, ExcuseStays DEF pruneVars
    <3>4. PruneTypes' /\ Phases' /\ Untouched'
      BY <3>1, <3>2 DEF PruneTypes, Phases, Untouched, pruneVars
    <3>5. Reading'
      BY <2>2, <3>1, ReadingStays DEF pruneVars
    <3>6. Planned' /\ Going' /\ Kept'
      BY <3>1, <3>2, <3>3 DEF Planned, Going, Kept, pruneVars
    <3> QED BY <3>4, <3>5, <3>6 DEF PruneInv
  <2> QED BY <2>1, <2>2
<1> QED BY <1>1, <1>2, PTL DEF PruneSpec

(* A prune spares what it is to keep, whoever edits meanwhile and whichever *)
(* request fails (runContentPrune): a kept article is there at the end      *)
(* unless an editor deleted it or added one that upset the plan; a run that *)
(* ends well reports what it did, to the number of articles; and a dry run  *)
(* announces what the run would do.  For every site, however deep its       *)
(* folders, and every choice of options whose roots are in order.           *)
THEOREM PruneKeepsItsWord ==
  ASSUME RootsInOrder
  PROVE  PruneSpec => []PruneIsHonest
BY Inductive, Honest, PTL

-----------------------------------------------------------------------------
(***************************************************************************)
(* The walk over the folders.  The inductive invariant: the limiter holds  *)
(* each folder at most once, what a pool has not reached yet waits, and    *)
(* the folders below a folder that is done are all in its result.          *)
(***************************************************************************)
WalkStates == {"waiting", "queued", "active", "children", "done", "failed"}
NoTwice(q) == \A i, j \in DOMAIN q : q[i] = q[j] => i = j
Active(s) == {n \in Nodes : s[n] = "active"}
WalkTypes ==
  /\ walk \in Walks
  /\ state \in [Nodes -> WalkStates] /\ next \in [Nodes -> Nat \ {0}]
  /\ DOMAIN stats = Nodes /\ queue \in Seq(Nodes)
Queued == NoTwice(queue) /\ \A i \in DOMAIN queue : state[queue[i]] = "queued"
NotReached ==
  \A n \in Nodes :
    /\ state[n] \in {"waiting", "queued", "active"} => next[n] = 1
    /\ \A i \in DOMAIN Kids(n) : i >= next[n] => state[Kids(n)[i]] = "waiting"
SeenBelow ==
  \A n \in Nodes : state[n] = "done" =>
    /\ n \in stats[n].ids /\ stats[n].ids \subseteq Nodes
    /\ \A m \in stats[n].ids : \A i \in DOMAIN Kids(m) : Kids(m)[i] \in stats[n].ids
WalkInv == WalkTypes /\ LimitIsKept /\ Queued /\ NotReached /\ SeenBelow

LEMMA TreeFacts ==
  ASSUME walk \in Walks
  PROVE  /\ IsFiniteSet(Nodes) /\ WalkRoot \in Nodes
         /\ \A n \in Nodes : Kids(n) \in Seq(Nodes) /\ \A i \in DOMAIN Kids(n) : Kids(n)[i] \in Nodes \ {WalkRoot}
         /\ \A m, n \in Nodes : \A i \in DOMAIN Kids(m), j \in DOMAIN Kids(n) :
              Kids(m)[i] = Kids(n)[j] => m = n /\ i = j
         /\ \A S \in SUBSET Nodes :
              WalkRoot \in S /\ (\A n \in S : \A i \in DOMAIN Kids(n) : Kids(n)[i] \in S) => S = Nodes
<1>1. IsFiniteSet(Nodes) /\ IsTree(walk.children, Nodes)
  BY WalkAssumption DEF Nodes
<1>2. \A n \in Nodes : walk.children[n] \in Seq(Nodes \ {WalkRoot})
  BY <1>1 DEF IsTree
<1>3. \A n \in Nodes : Kids(n) \in Seq(Nodes) /\ \A i \in DOMAIN Kids(n) : Kids(n)[i] \in Nodes \ {WalkRoot}
  <2> SUFFICES ASSUME NEW n \in Nodes, NEW q, q = walk.children[n]
               PROVE  q \in Seq(Nodes) /\ \A i \in DOMAIN q : q[i] \in Nodes \ {WalkRoot}
    BY DEF Kids
  <2>1. q \in Seq(Nodes \ {WalkRoot})
    BY <1>2
  <2> QED BY <2>1
<1>4. \A m, n \in Nodes : \A i \in DOMAIN Kids(m), j \in DOMAIN Kids(n) :
              Kids(m)[i] = Kids(n)[j] => m = n /\ i = j
  BY <1>1 DEF IsTree, Kids
<1>5. \A S \in SUBSET Nodes :
              WalkRoot \in S /\ (\A n \in S : \A i \in DOMAIN Kids(n) : Kids(n)[i] \in S) => S = Nodes
  BY <1>1 DEF IsTree, Kids
<1> QED BY <1>1, <1>3, <1>4, <1>5 DEF IsTree

LEMMA LimitIsNat == Limit \in Nat \ {0}
  BY WalkAssumption

(* As many folders as a list without repetition is long. *)
LEMMA ListedOnce ==
  ASSUME NEW S, NEW q \in Seq(S), NoTwice(q)
  PROVE  IsFiniteSet(Range(q)) /\ Cardinality(Range(q)) = Len(q)
<1>1. q \in Bijection(1 .. Len(q), Range(q))
  <2>1. DOMAIN q = 1 .. Len(q) /\ q \in [1 .. Len(q) -> Range(q)]
    BY DEF Range
  <2> QED BY <2>1 DEF Bijection, Injection, IsInjective, Surjection, NoTwice, Range
<1>2. ExistsBijection(1 .. Len(q), Range(q))
  BY <1>1 DEF ExistsBijection
<1>3. IsFiniteSet(1 .. Len(q)) /\ Cardinality(1 .. Len(q)) = Len(q)
  <2>1. 1 \in Int /\ Len(q) \in Nat
    OBVIOUS
  <2>2. IsFiniteSet(1 .. Len(q)) /\ Cardinality(1 .. Len(q)) = IF 1 > Len(q) THEN 0 ELSE Len(q) - 1 + 1
    BY <2>1, FS_Interval
  <2> QED BY <2>1, <2>2
<1> QED BY <1>2, <1>3, FS_Bijection

(* What a change of the limiter keeps: s is the state with the new tasks queued. *)
Ready(s, all) ==
  /\ s \in [Nodes -> WalkStates] /\ all \in Seq(Nodes) /\ NoTwice(all)
  /\ \A i \in DOMAIN all : s[all[i]] = "queued"
  /\ Cardinality(Active(s)) <= Limit
Settled(s, all) ==
  /\ state' \in [Nodes -> WalkStates] /\ queue' \in Seq(Nodes) /\ NoTwice(queue')
  /\ \A i \in DOMAIN queue' : state'[queue'[i]] = "queued"
  /\ \A n \in Nodes : state'[n] = s[n] \/ (s[n] = "queued" /\ state'[n] = "active" /\ n \in Range(all))
  /\ Cardinality(Active(state')) <= Limit
  /\ queue' # <<>> => Cardinality(Active(state')) = Limit

LEMMA RunNextSettles ==
  ASSUME walk \in Walks, NEW s, NEW q \in Seq(Nodes), NEW more \in Seq(Nodes), Ready(s, q \o more),
         RunNext(s, q, more)
  PROVE  Settled(s, q \o more)
<1> DEFINE all == q \o more
           held == Cardinality(Active(s))
           free == Limit - held
           k == IF Len(all) < free THEN Len(all) ELSE free
           start == SubSeq(all, 1, k)
<1>1. IsFiniteSet(Active(s)) /\ held \in Nat /\ held <= Limit
  BY TreeFacts, FS_Subset, FS_CardinalityType DEF Active, Ready
<1>2. k \in Nat /\ k <= Len(all) /\ free \in Nat
  BY <1>1, LimitIsNat
<1>3. /\ state' = [n \in DOMAIN s |-> IF n \in Range(start) THEN "active" ELSE s[n]]
      /\ queue' = SubSeq(all, Len(start) + 1, Len(all))
  BY DEF RunNext, Ready, Active
<1> HIDE DEF held
<1>4. all \in Seq(Nodes) /\ NoTwice(all) /\ \A i \in DOMAIN all : s[all[i]] = "queued"
  BY DEF Ready
<1> HIDE DEF all
<1>5. /\ start \in Seq(Nodes) /\ Len(start) = k /\ DOMAIN start = 1 .. k
      /\ \A i \in 1 .. k : start[i] = all[i]
  BY <1>2, <1>4
<1>6. Range(start) = {all[i] : i \in 1 .. k}
  BY <1>5 DEF Range
<1>7. /\ queue' \in Seq(Nodes) /\ Len(queue') = Len(all) - k /\ DOMAIN queue' = 1 .. Len(all) - k
      /\ \A i \in DOMAIN queue' : queue'[i] = all[k + i]
  BY <1>2, <1>3, <1>4, <1>5
<1> HIDE DEF start, k, free
<1>8. DOMAIN s = Nodes /\ DOMAIN all = 1 .. Len(all) /\ Len(all) \in Nat
  BY <1>4 DEF Ready
<1>9. NoTwice(start) /\ Range(start) \subseteq Nodes /\ Range(start) \subseteq Range(all)
  BY <1>2, <1>4, <1>5, <1>6, <1>8 DEF NoTwice, Range
<1>10. \A n \in Range(start) : s[n] = "queued"
  BY <1>2, <1>4, <1>6, <1>8
<1>11. NoTwice(queue') /\ \A i \in DOMAIN queue' : queue'[i] \notin Range(start) /\ s[queue'[i]] = "queued"
  <2>1. \A i, j \in 1 .. Len(all) : all[i] = all[j] => i = j
    BY <1>4, <1>8 DEF NoTwice
  <2>2. \A i \in DOMAIN queue' : k + i \in 1 .. Len(all) /\ i \in Nat /\ i > 0
    BY <1>2, <1>7, <1>8
  <2>3. NoTwice(queue')
    BY <1>2, <1>7, <2>1, <2>2 DEF NoTwice
  <2>4. \A i \in DOMAIN queue' : queue'[i] \notin Range(start)
    BY <1>2, <1>6, <1>7, <1>8, <2>1, <2>2
  <2> QED BY <1>4, <1>7, <1>8, <2>2, <2>3, <2>4
<1>12. Active(state') = Active(s) \cup Range(start)
  BY <1>3, <1>8, <1>9, <1>10 DEF Active
<1>13. IsFiniteSet(Range(start)) /\ Cardinality(Range(start)) = k
  BY <1>5, <1>9, ListedOnce
<1>14. Active(s) \cap Range(start) = {}
  BY <1>10 DEF Active
<1>15. Cardinality(Active(state')) = held + k
  <2>1. Cardinality(Active(s) \cup Range(start))
           = Cardinality(Active(s)) + Cardinality(Range(start)) - Cardinality(Active(s) \cap Range(start))
    BY <1>1, <1>13, FS_Union
  <2>2. Cardinality(Active(s) \cap Range(start)) = 0
    BY <1>14, FS_EmptySet
  <2>3. Cardinality(Active(s)) = held
    BY DEF held
  <2> QED BY <1>1, <1>2, <1>12, <1>13, <2>1, <2>2, <2>3
<1>16. held + k <= Limit /\ (queue' # <<>> => held + k = Limit)
  BY <1>1, <1>2, <1>4, <1>7, LimitIsNat DEF k, free
<1>17. state' \in [Nodes -> WalkStates]
  BY <1>3, <1>8 DEF Ready, WalkStates
<1>18. \A n \in Nodes : state'[n] = s[n] \/ (s[n] = "queued" /\ state'[n] = "active" /\ n \in Range(all))
  BY <1>3, <1>8, <1>9, <1>10
<1>19. \A i \in DOMAIN queue' : state'[queue'[i]] = "queued"
  BY <1>3, <1>7, <1>8, <1>11
<1> QED BY <1>7, <1>11, <1>15, <1>16, <1>17, <1>18, <1>19 DEF Settled, all

LEMMA WalkBegins == WalkInit => WalkInv
<1> SUFFICES ASSUME WalkInit PROVE WalkInv
  OBVIOUS
<1>1. WalkTypes /\ Queued /\ NotReached /\ SeenBelow
  BY TreeFacts DEF WalkInit, WalkStart, WalkTypes, WalkStates, Queued, NoTwice, NotReached, SeenBelow
<1>2. ActiveNodes = {WalkRoot}
  BY TreeFacts DEF WalkInit, WalkStart, ActiveNodes
<1>3. LimitIsKept
  <2>1. Cardinality(ActiveNodes) = 1
    BY <1>2, FS_Singleton
  <2> QED BY <2>1, LimitIsNat DEF LimitIsKept, WalkInit, WalkStart
<1> QED BY <1>1, <1>3 DEF WalkInv

(* The next children of n's pool, from its index to l - 1. *)
Taken(n, first, l) ==
  /\ first \in Seq(Nodes) /\ l \in Nat /\ l <= Len(Kids(n)) + 1 /\ Len(first) = l - next[n]
  /\ \A i \in 1 .. Len(first) : first[i] = Kids(n)[next[n] + i - 1]

(* A folder n whose request is over gives its place back, and first joins the queue. *)
LEMMA JoiningKeeps ==
  ASSUME WalkInv, NEW n \in Nodes, state[n] \in {"active", "children", "failed"},
         NEW s1 \in [Nodes -> WalkStates], s1[n] \in {"children", "failed"},
         \A m \in Nodes \ {n} : s1[m] = state[m],
         NEW first, NEW l, Taken(n, first, l), next' = [next EXCEPT ![n] = l],
         RunNext(Enqueue(s1, Range(first)), queue, first), UNCHANGED <<walk, stats>>
  PROVE  WalkInv'
<1> DEFINE s == Enqueue(s1, Range(first))
           all == queue \o first
<1>1. /\ walk \in Walks /\ state \in [Nodes -> WalkStates] /\ next \in [Nodes -> Nat \ {0}]
      /\ queue \in Seq(Nodes) /\ Kids(n) \in Seq(Nodes)
  BY TreeFacts DEF WalkInv, WalkTypes
<1>2. /\ first \in Seq(Nodes) /\ l \in Nat /\ l <= Len(Kids(n)) + 1 /\ Len(first) = l - next[n]
      /\ DOMAIN first = 1 .. Len(first) /\ Len(first) \in Nat
      /\ \A i \in 1 .. Len(first) : first[i] = Kids(n)[next[n] + i - 1]
  <2>1. Taken(n, first, l)
    OBVIOUS
  <2>2. \A q \in Seq(Nodes) : DOMAIN q = 1 .. Len(q) /\ Len(q) \in Nat
    OBVIOUS
  <2> QED BY <2>1, <2>2 DEF Taken
<1>3. Range(first) = {first[i] : i \in 1 .. Len(first)}
  BY <1>2 DEF Range
<1>4. \A i \in 1 .. Len(first) : next[n] + i - 1 \in DOMAIN Kids(n) /\ next[n] + i - 1 >= next[n]
  BY <1>1, <1>2
<1>5. \A m \in Range(first) : m \in Nodes /\ state[m] = "waiting" /\ m # n
  BY <1>1, <1>2, <1>3, <1>4 DEF WalkInv, NotReached
<1>6. /\ s \in [Nodes -> WalkStates]
      /\ \A m \in Nodes : s[m] = IF m \in Range(first) THEN "queued" ELSE s1[m]
  BY DEF Enqueue, WalkStates
<1>7. RunNext(s, queue, first)
  OBVIOUS
<1> HIDE DEF s
<1>8. Cardinality(Active(s)) <= Limit
  <2>1. \A m \in Nodes : s[m] = "active" => state[m] = "active"
    BY <1>6
  <2>2. Active(s) \subseteq ActiveNodes
    BY <2>1 DEF Active, ActiveNodes
  <2>3. IsFiniteSet(ActiveNodes)
    BY <1>1, TreeFacts, FS_Subset DEF ActiveNodes
  <2>4. Cardinality(Active(s)) <= Cardinality(ActiveNodes)
    BY <2>2, <2>3, FS_Subset
  <2>5. Cardinality(Active(s)) \in Nat /\ Cardinality(ActiveNodes) \in Nat
    BY <2>2, <2>3, FS_Subset, FS_CardinalityType
  <2>6. Cardinality(ActiveNodes) <= Limit
    BY DEF WalkInv, LimitIsKept
  <2> QED BY <2>4, <2>5, <2>6, LimitIsNat
<1>9. NoTwice(first)
  <2>1. \A i, j \in DOMAIN Kids(n) : Kids(n)[i] = Kids(n)[j] => i = j
    BY <1>1, TreeFacts
  <2> QED BY <1>1, <1>2, <1>4, <2>1 DEF NoTwice
<1>10. /\ all \in Seq(Nodes) /\ DOMAIN all = 1 .. Len(queue) + Len(first)
       /\ \A i \in DOMAIN all : all[i] = IF i <= Len(queue) THEN queue[i] ELSE first[i - Len(queue)]
  BY <1>1, <1>2
<1>11. NoTwice(queue) /\ \A i \in 1 .. Len(queue) : state[queue[i]] = "queued"
  BY <1>1 DEF WalkInv, Queued
<1>12. \A i \in DOMAIN all : s[all[i]] = "queued"
  <2>1. \A i \in 1 .. Len(first) : s[first[i]] = "queued"
    BY <1>2, <1>3, <1>5, <1>6
  <2>2. \A i \in 1 .. Len(queue) : s[queue[i]] = "queued"
    BY <1>1, <1>6, <1>11
  <2>3. Len(queue) \in Nat
    BY <1>1
  <2>4. \A i \in DOMAIN all : i \in 1 .. Len(queue) \/ i - Len(queue) \in 1 .. Len(first)
    BY <1>2, <1>10, <2>3
  <2>5. \A i \in DOMAIN all : i \in 1 .. Len(queue) => s[all[i]] = "queued"
    BY <1>10, <2>2, <2>3
  <2>6. \A i \in DOMAIN all : i \notin 1 .. Len(queue) => s[all[i]] = "queued"
    BY <1>10, <2>1, <2>3, <2>4
  <2> QED BY <2>5, <2>6
<1>13. \A i \in 1 .. Len(queue), j \in 1 .. Len(first) : queue[i] # first[j]
  BY <1>2, <1>3, <1>5, <1>11
<1> HIDE DEF all
<1>14. NoTwice(all)
  <2> SUFFICES ASSUME NEW i \in DOMAIN all, NEW j \in DOMAIN all, all[i] = all[j] PROVE i = j
    BY DEF NoTwice
  <2>1. Len(queue) \in Nat /\ i \in Int /\ j \in Int /\ DOMAIN queue = 1 .. Len(queue)
    BY <1>1, <1>10, <1>11
  <2>2. CASE i <= Len(queue) /\ j <= Len(queue)
    BY <1>10, <1>11, <2>1, <2>2 DEF NoTwice
  <2>3. CASE i > Len(queue) /\ j > Len(queue)
    <3>1. i - Len(queue) \in 1 .. Len(first) /\ j - Len(queue) \in 1 .. Len(first)
      BY <1>1, <1>10, <2>1, <2>3
    <3>2. first[i - Len(queue)] = first[j - Len(queue)]
      BY <1>10, <2>1, <2>3
    <3>3. i - Len(queue) = j - Len(queue)
      BY <1>2, <1>9, <3>1, <3>2 DEF NoTwice
    <3> QED BY <2>1, <3>3
  <2>4. CASE i > Len(queue) /\ j <= Len(queue)
    <3>1. i - Len(queue) \in 1 .. Len(first) /\ j \in 1 .. Len(queue)
      BY <1>2, <1>10, <2>1, <2>4
    <3> QED BY <1>10, <1>13, <2>1, <2>4, <3>1
  <2>5. CASE i <= Len(queue) /\ j > Len(queue)
    <3>1. j - Len(queue) \in 1 .. Len(first) /\ i \in 1 .. Len(queue)
      BY <1>2, <1>10, <2>1, <2>5
    <3> QED BY <1>10, <1>13, <2>1, <2>5, <3>1
  <2> QED BY <2>1, <2>2, <2>3, <2>4, <2>5
<1>15. Settled(s, all)
  BY <1>1, <1>2, <1>6, <1>7, <1>8, <1>10, <1>12, <1>14, RunNextSettles DEF all, Ready
<1>16. walk' = walk /\ stats' = stats /\ Nodes' = Nodes /\ ActiveNodes' = Active(state')
       /\ \A m : Kids(m)' = Kids(m)
  BY DEF Nodes, ActiveNodes, Active, Kids
<1>17. next' \in [Nodes -> Nat \ {0}] /\ next'[n] = l /\ \A m \in Nodes \ {n} : next'[m] = next[m]
  BY <1>1, <1>2
<1>18. \A m \in Nodes \ {n} : \/ state'[m] = state[m]
                              \/ state[m] = "queued" /\ state'[m] = "active"
                              \/ m \in Range(first) /\ state'[m] \in {"queued", "active"}
  BY <1>6, <1>15 DEF Settled
<1>19. state'[n] \in {"children", "failed"}
  BY <1>5, <1>6, <1>15 DEF Settled
<1>20. WalkTypes'
  BY <1>15, <1>16, <1>17 DEF WalkInv, WalkTypes, Settled
<1>21. LimitIsKept' /\ Queued'
  BY <1>15, <1>16 DEF Settled, LimitIsKept, Queued
<1>22. NotReached'
  <2> SUFFICES ASSUME NEW m \in Nodes
               PROVE  /\ state'[m] \in {"waiting", "queued", "active"} => next'[m] = 1
                      /\ \A i \in DOMAIN Kids(m) : i >= next'[m] => state'[Kids(m)[i]] = "waiting"
    BY <1>16 DEF NotReached
  <2>1. m # n => (state'[m] \in {"waiting", "queued", "active"} => state[m] \in {"waiting", "queued", "active"})
    BY <1>5, <1>18
  <2>2. ASSUME NEW i \in DOMAIN Kids(m), i >= next'[m] PROVE state'[Kids(m)[i]] = "waiting"
    <3>1. Kids(m)[i] \in Nodes /\ i \in Nat /\ Kids(m) \in Seq(Nodes)
      BY <1>1, TreeFacts
    <3>2. i >= next[m]
      BY <1>1, <1>2, <1>17, <2>2, <3>1
    <3>3. state[Kids(m)[i]] = "waiting"
      BY <3>2 DEF WalkInv, NotReached
    <3>4. Kids(m)[i] \notin Range(first)
      <4>1. \A j \in DOMAIN Kids(n) : Kids(m)[i] = Kids(n)[j] => m = n /\ i = j
        BY <1>1, TreeFacts
      <4>2. \A j \in 1 .. Len(first) : next[n] + j - 1 < l
        BY <1>1, <1>2
      <4>3. \A j \in 1 .. Len(first) : Kids(m)[i] # first[j]
        BY <1>2, <1>4, <1>17, <2>2, <4>1, <4>2
      <4> QED BY <1>3, <4>3
    <3> QED BY <1>18, <3>1, <3>3, <3>4
  <2> QED BY <1>17, <1>19, <2>1, <2>2 DEF WalkInv, NotReached
<1>23. SeenBelow'
  BY <1>5, <1>16, <1>18, <1>19 DEF WalkInv, SeenBelow
<1> QED BY <1>20, <1>21, <1>22, <1>23 DEF WalkInv

LEMMA AnsweredKeeps ==
  ASSUME WalkInv, NEW n \in Nodes, FolderAnswered(n)
  PROVE  WalkInv'
<1> DEFINE first == SubSeq(Kids(n), 1, Pool(n))
<1>1. /\ walk \in Walks /\ state \in [Nodes -> WalkStates] /\ Kids(n) \in Seq(Nodes)
      /\ state[n] = "active" /\ next[n] = 1
  BY TreeFacts DEF WalkInv, WalkTypes, NotReached, FolderAnswered
<1>2. Pool(n) \in Nat /\ Pool(n) <= Len(Kids(n))
  BY <1>1, LimitIsNat DEF Pool
<1>3. /\ first \in Seq(Nodes) /\ Len(first) = Pool(n)
      /\ \A i \in 1 .. Len(first) : first[i] = Kids(n)[i]
  BY <1>1, <1>2
<1>4. Taken(n, first, Pool(n) + 1)
  BY <1>1, <1>2, <1>3 DEF Taken
<1>5. [state EXCEPT ![n] = "children"] \in [Nodes -> WalkStates]
  BY <1>1 DEF WalkStates
<1> HIDE DEF first
<1>6. /\ RunNext(Enqueue([state EXCEPT ![n] = "children"], Range(first)), queue, first)
      /\ next' = [next EXCEPT ![n] = Pool(n) + 1] /\ UNCHANGED <<walk, stats>>
  BY DEF FolderAnswered, first
<1> QED BY <1>1, <1>4, <1>5, <1>6, JoiningKeeps

LEMMA FailsKeeps ==
  ASSUME WalkInv, NEW n \in Nodes, FolderFails(n)
  PROVE  WalkInv'
<1> DEFINE s == [state EXCEPT ![n] = "failed"]
<1>1. /\ walk \in Walks /\ state \in [Nodes -> WalkStates] /\ Kids(n) \in Seq(Nodes)
      /\ state[n] = "active" /\ next[n] = 1 /\ next \in [Nodes -> Nat \ {0}]
  BY TreeFacts DEF WalkInv, WalkTypes, NotReached, FolderFails
<1>2. Taken(n, <<>>, next[n]) /\ next' = [next EXCEPT ![n] = next[n]]
  BY <1>1 DEF Taken, FolderFails
<1>3. s \in [Nodes -> WalkStates]
  BY <1>1 DEF WalkStates
<1>4. Enqueue(s, Range(<<>>)) = s
  <2>1. Range(<<>>) = {}
    BY DEF Range
  <2> QED BY <1>3, <2>1 DEF Enqueue
<1>5. RunNext(Enqueue(s, Range(<<>>)), queue, <<>>) /\ UNCHANGED <<walk, stats>>
  BY <1>4 DEF FolderFails
<1> QED BY <1>1, <1>2, <1>3, <1>5, JoiningKeeps

LEMMA TakesNextKeeps ==
  ASSUME WalkInv, NEW n \in Nodes, WorkerTakesNext(n)
  PROVE  WalkInv'
<1> DEFINE first == <<Kids(n)[next[n]]>>
<1>1. /\ walk \in Walks /\ state \in [Nodes -> WalkStates] /\ Kids(n) \in Seq(Nodes)
      /\ next \in [Nodes -> Nat \ {0}] /\ state[n] \in {"children", "failed"}
      /\ next[n] \in DOMAIN Kids(n) /\ next[n] <= Len(Kids(n))
  BY TreeFacts DEF WalkInv, WalkTypes, WorkerTakesNext
<1>2. Kids(n)[next[n]] \in Nodes
  BY <1>1, TreeFacts
<1>3. Taken(n, first, next[n] + 1) /\ next' = [next EXCEPT ![n] = next[n] + 1]
  BY <1>1, <1>2 DEF Taken, WorkerTakesNext
<1>4. Range(first) = {Kids(n)[next[n]]}
  BY DEF Range
<1>5. RunNext(Enqueue(state, Range(first)), queue, first) /\ UNCHANGED <<walk, stats>>
  BY <1>4 DEF WorkerTakesNext
<1> HIDE DEF first
<1> QED BY <1>1, <1>3, <1>5, JoiningKeeps

(* The folders below one that is done are those below its children. *)
LEMMA DoneKeeps ==
  ASSUME WalkInv, NEW n \in Nodes, FolderDone(n)
  PROVE  WalkInv'
<1>1. /\ walk \in Walks /\ state \in [Nodes -> WalkStates] /\ DOMAIN stats = Nodes
      /\ queue \in Seq(Nodes) /\ next \in [Nodes -> Nat \ {0}] /\ Kids(n) \in Seq(Nodes)
      /\ state[n] = "children" /\ \A i \in DOMAIN Kids(n) : state[Kids(n)[i]] = "done"
  BY TreeFacts DEF WalkInv, WalkTypes, FolderDone, Range
<1>2. /\ state' = [state EXCEPT ![n] = "done"] /\ stats' = [stats EXCEPT ![n] = StatsOf(n)]
      /\ walk' = walk /\ queue' = queue /\ next' = next
  BY DEF FolderDone
<1>3. /\ Nodes' = Nodes /\ ActiveNodes' = ActiveNodes /\ \A m : Kids(m)' = Kids(m)
  BY <1>1, <1>2 DEF Nodes, ActiveNodes, Kids
<1>4. WalkTypes' /\ LimitIsKept' /\ Queued' /\ NotReached'
  <2>1. WalkTypes'
    BY <1>1, <1>2, <1>3 DEF WalkTypes, WalkStates
  <2>2. LimitIsKept'
    BY <1>2, <1>3 DEF WalkInv, LimitIsKept
  <2>3. Queued'
    BY <1>1, <1>2 DEF WalkInv, Queued
  <2>4. NotReached'
    BY <1>1, <1>2, <1>3, TreeFacts DEF WalkInv, NotReached
  <2> QED BY <2>1, <2>2, <2>3, <2>4
<1>5. stats'[n].ids = {n} \cup UNION {stats[c].ids : c \in Range(Kids(n))}
  BY <1>1, <1>2 DEF StatsOf
<1>6. \A m \in Nodes \ {n} : stats'[m] = stats[m] /\ state'[m] = state[m]
  BY <1>1, <1>2
<1>7. \A c \in Range(Kids(n)) :
        /\ c \in Nodes /\ c \in stats[c].ids /\ stats[c].ids \subseteq Nodes
        /\ \A m \in stats[c].ids : \A i \in DOMAIN Kids(m) : Kids(m)[i] \in stats[c].ids
  BY <1>1, TreeFacts DEF WalkInv, SeenBelow, Range
<1>8. /\ n \in stats'[n].ids /\ stats'[n].ids \subseteq Nodes
      /\ \A m \in stats'[n].ids : \A i \in DOMAIN Kids(m) : Kids(m)[i] \in stats'[n].ids
  <2>1. \A i \in DOMAIN Kids(n) : Kids(n)[i] \in Range(Kids(n))
    BY DEF Range
  <2> QED BY <1>5, <1>7, <2>1
<1>9. SeenBelow'
  BY <1>3, <1>6, <1>8 DEF WalkInv, SeenBelow
<1> QED BY <1>4, <1>9 DEF WalkInv

LEMMA RejectsKeeps ==
  ASSUME WalkInv, NEW n \in Nodes, PoolRejects(n)
  PROVE  WalkInv'
<1>1. /\ walk \in Walks /\ state \in [Nodes -> WalkStates] /\ DOMAIN stats = Nodes
      /\ queue \in Seq(Nodes) /\ next \in [Nodes -> Nat \ {0}] /\ state[n] = "children"
  BY DEF WalkInv, WalkTypes, PoolRejects
<1>2. state' = [state EXCEPT ![n] = "failed"] /\ UNCHANGED <<walk, queue, next, stats>>
  BY DEF PoolRejects
<1>3. /\ Nodes' = Nodes /\ ActiveNodes' = ActiveNodes /\ \A m : Kids(m)' = Kids(m)
  BY <1>1, <1>2 DEF Nodes, ActiveNodes, Kids
<1>4. WalkTypes'
  BY <1>1, <1>2, <1>3 DEF WalkTypes, WalkStates
<1>5. LimitIsKept' /\ Queued'
  BY <1>1, <1>2, <1>3 DEF WalkInv, LimitIsKept, Queued
<1>6. NotReached'
  BY <1>1, <1>2, <1>3, TreeFacts DEF WalkInv, NotReached
<1>7. SeenBelow'
  BY <1>1, <1>2, <1>3 DEF WalkInv, SeenBelow
<1> QED BY <1>4, <1>5, <1>6, <1>7 DEF WalkInv

LEMMA WalkKeeps == WalkInv /\ [WalkNext]_walkVars => WalkInv'
<1>1. ASSUME WalkInv, NEW n \in Nodes, WalkStep(n) \/ FolderFails(n) PROVE WalkInv'
  BY <1>1, AnsweredKeeps, FailsKeeps, TakesNextKeeps, DoneKeeps, RejectsKeeps DEF WalkStep
<1>2. ASSUME WalkInv, UNCHANGED walkVars PROVE WalkInv'
  BY <1>2 DEF walkVars, WalkInv, WalkTypes, LimitIsKept, Queued, NotReached, SeenBelow, Nodes, ActiveNodes, Kids
<1> QED BY <1>1, <1>2 DEF WalkNext

(* However wide and deep the folders of a site are, the statistics never have more than   *)
(* JOURNAL_FOLDER_CONCURRENCY requests on their way, and a folder only waits while that   *)
(* many are: a folder gives its place back before it waits for its children.              *)
THEOREM RequestsAreLimited == WalkSpec => []LimitIsKept
  BY WalkBegins, WalkKeeps, PTL DEF WalkSpec, WalkInv

(* A walk that ends well has the result of every folder of the site, whichever of them     *)
(* were asked for first (collectJournalFolderStats).                                       *)
THEOREM WalkSeesAll == WalkSpec => []EveryFolderSeen
<1>1. WalkInv => EveryFolderSeen
  <2> SUFFICES ASSUME WalkInv, state[WalkRoot] = "done" PROVE stats[WalkRoot].ids = Nodes
    BY DEF EveryFolderSeen
  <2>1. walk \in Walks /\ WalkRoot \in Nodes
    BY TreeFacts DEF WalkInv, WalkTypes
  <2> DEFINE S == stats[WalkRoot].ids
  <2>2. S \in SUBSET Nodes /\ WalkRoot \in S /\ \A m \in S : \A i \in DOMAIN Kids(m) : Kids(m)[i] \in S
    BY <2>1 DEF WalkInv, SeenBelow
  <2> QED BY <2>1, <2>2, TreeFacts
<1> QED BY <1>1, WalkBegins, WalkKeeps, PTL DEF WalkSpec
-----------------------------------------------------------------------------
(* The portal client, for any number of processes and requests and any      *)
(* lifetimes.  What makes a refused request blameless is that the token of  *)
(* a second round was asked for in that round: its time of issue and the    *)
(* revocations it missed follow from that.                                  *)
CachedToken == [token : Nat, until : Int]
ClientTypeOK ==
  /\ now \in Nat /\ born \in Seq(Nat) /\ revoked \in 0 .. Len(born) /\ revocations \in Nat
  /\ disk \in CachedToken /\ memory \in [Processes -> CachedToken]
  /\ request \in [Requests -> RequestRecord] /\ applied \in [Requests -> Nat] /\ breaks \in Nat

(* A token that was asked for in this round and is not sent yet, or sent    *)
(* after a 401, was issued since and revoked, if at all, since.             *)
AskedFor(r) ==
  /\ request[r].asked <= now /\ request[r].revs <= revocations
  /\ request[r].pc = "issued" \/ (request[r].pc = "send" /\ Forced(r)) =>
       /\ request[r].token \in DOMAIN born /\ born[request[r].token] >= request[r].asked
       /\ request[r].token <= revoked => revocations > request[r].revs
IndInv == ClientTypeOK /\ \A r \in Requests : AskedFor(r)

LEMMA RecordFields ==
  ASSUME NEW q \in RequestRecord
  PROVE  /\ \A x \in {"send", "ask"}, t, a, v \in Nat :
              [q EXCEPT !.pc = x, !.token = t, !.asked = a, !.revs = v] \in RequestRecord
         /\ \A t \in Nat : [q EXCEPT !.pc = "issued", !.token = t] \in RequestRecord
         /\ [q EXCEPT !.pc = "send"] \in RequestRecord
         /\ [q EXCEPT !.pc = "start", !.round = 2, !.token = 0, !.attempts = 0] \in RequestRecord
         /\ [q EXCEPT !.attempts = @ + 1, !.broken = TRUE] \in RequestRecord
<1>1. \A x \in {"send", "ask"}, t, a, v \in Nat :
         [q EXCEPT !.pc = x, !.token = t, !.asked = a, !.revs = v] \in RequestRecord
  BY DEF RequestRecord
<1>2. \A t \in Nat : [q EXCEPT !.pc = "issued", !.token = t] \in RequestRecord
  BY DEF RequestRecord
<1>3. [q EXCEPT !.pc = "send"] \in RequestRecord
  BY DEF RequestRecord
<1>4. [q EXCEPT !.pc = "start", !.round = 2, !.token = 0, !.attempts = 0] \in RequestRecord
  BY DEF RequestRecord
<1>5. [q EXCEPT !.attempts = @ + 1, !.broken = TRUE] \in RequestRecord
  <2>1. q.attempts \in Nat
    BY DEF RequestRecord
  <2>2. q.attempts + 1 \in Nat
    BY <2>1
  <2>3. \A n \in Nat, b \in BOOLEAN : [q EXCEPT !.attempts = n, !.broken = b] \in RequestRecord
    BY DEF RequestRecord
  <2> QED BY <2>2, <2>3
<1> QED BY <1>1, <1>2, <1>3, <1>4, <1>5

LEMMA FreshRecord ==
  ASSUME NEW b \in BOOLEAN, NEW x \in {"none", "start", "ok", "unauthorized", "error"}
  PROVE  /\ Fresh(x) \in RequestRecord
         /\ [Fresh(x) EXCEPT !.broken = b] \in RequestRecord
<1>1. Fresh(x) \in RequestRecord
  BY DEF Fresh, RequestRecord
<1>2. ASSUME NEW q \in RequestRecord PROVE [q EXCEPT !.broken = b] \in RequestRecord
  BY DEF RequestRecord
<1> QED BY <1>1, <1>2

-----------------------------------------------------------------------------
(* The invariant holds initially and under every step: one case per action. *)
LEMMA InitInv == ClientInit => IndInv
<1> SUFFICES ASSUME ClientInit PROVE IndInv
  OBVIOUS
<1>1. request \in [Requests -> RequestRecord]
  BY FreshRecord DEF ClientInit, ClientStart
<1>2. ClientTypeOK
  BY <1>1 DEF ClientInit, ClientStart, ClientTypeOK, NoToken, CachedToken
<1>3. \A r \in Requests : AskedFor(r)
  BY DEF ClientInit, ClientStart, AskedFor, Fresh
<1> QED BY <1>2, <1>3 DEF IndInv

LEMMA KeepsInv == IndInv /\ [ClientNext]_clientVars => IndInv'
<1> SUFFICES ASSUME IndInv, [ClientNext]_clientVars PROVE IndInv'
  OBVIOUS
<1> USE ClientAssumption DEF IndInv
<1>1. ASSUME NEW r \in Requests, ChooseToken(r) PROVE IndInv'
  <2>1. request[r] \in RequestRecord /\ ProcessOf[r] \in Processes
    BY DEF ClientAssumption, ClientTypeOK
  <2>2. \E x \in {"send", "ask"}, t \in Nat : Chooses(r, x, t) /\ (x = "send" => ~Forced(r))
    <3>1. memory[ProcessOf[r]].token \in Nat /\ disk.token \in Nat
      BY <2>1 DEF ClientTypeOK, CachedToken
    <3>2. CASE FromMemory(r) /\ Chooses(r, "send", memory[ProcessOf[r]].token)
      BY <3>1, <3>2 DEF FromMemory
    <3>3. CASE FromDisk(r) /\ Chooses(r, "send", disk.token)
      BY <3>1, <3>3 DEF FromDisk
    <3>4. CASE Chooses(r, "ask", 0)
      BY <3>4
    <3> QED BY <1>1, <3>2, <3>3, <3>4 DEF ChooseToken
  <2>3. PICK x \in {"send", "ask"}, t \in Nat : Chooses(r, x, t) /\ (x = "send" => ~Forced(r))
    BY <2>2
  <2>4. request' = [request EXCEPT ![r] = [request[r] EXCEPT !.pc = x, !.token = t, !.asked = now, !.revs = revocations]]
    BY <2>3 DEF Chooses
  <2>5. request' \in [Requests -> RequestRecord]
    BY <2>1, <2>4, RecordFields DEF ClientTypeOK
  <2>6. memory' \in [Processes -> CachedToken]
    <3>1. CASE UNCHANGED memory
      BY <3>1 DEF ClientTypeOK
    <3>2. CASE Remember(r, disk.token, now)
      <4>1. disk.token \in Nat /\ now \in Nat /\ Lifetime \in Nat /\ Skew \in Nat
        BY DEF ClientTypeOK, CachedToken, ClientAssumption
      <4>2. [token |-> disk.token, until |-> now + Lifetime - Skew] \in CachedToken
        BY <4>1 DEF CachedToken
      <4> QED BY <2>1, <3>2, <4>2 DEF Remember, ClientTypeOK
    <3> QED BY <1>1, <3>1, <3>2 DEF ChooseToken
  <2>7. ClientTypeOK'
    BY <1>1, <2>5, <2>6 DEF ChooseToken, ClientTypeOK
  <2>8. ASSUME NEW s \in Requests PROVE AskedFor(s)'
    <3>1. CASE s = r
      <4>1. /\ request'[r].pc = x /\ request'[r].asked = now /\ request'[r].revs = revocations
            /\ request'[r].round = request[r].round
        BY <2>1, <2>4 DEF ClientTypeOK, RequestRecord
      <4>2. now' = now /\ revocations' = revocations /\ now \in Nat /\ revocations \in Nat
        BY <1>1 DEF ChooseToken, ClientTypeOK
      <4>3. ~(request'[r].pc = "issued" \/ (request'[r].pc = "send" /\ request'[r].round = 2))
        BY <2>3, <4>1 DEF Forced
      <4> QED BY <3>1, <4>1, <4>2, <4>3 DEF AskedFor, Forced
    <3>2. CASE s # r
      BY <1>1, <2>4, <3>2 DEF ChooseToken, AskedFor, Forced, ClientTypeOK
    <3> QED BY <3>1, <3>2
  <2> QED BY <2>7, <2>8
<1>2. ASSUME NEW r \in Requests, IssueToken(r) PROVE IndInv'
  <2>1. request' = [request EXCEPT ![r] = [request[r] EXCEPT !.pc = "issued", !.token = Len(born) + 1]]
    BY <1>2 DEF IssueToken
  <2>2. born' \in Seq(Nat) /\ Len(born') = Len(born) + 1 /\ born'[Len(born) + 1] = now
        /\ DOMAIN born' = 1 .. Len(born) + 1 /\ \A i \in DOMAIN born : born'[i] = born[i]
    BY <1>2 DEF IssueToken, ClientTypeOK
  <2>3. request' \in [Requests -> RequestRecord]
    <3>1. Len(born) + 1 \in Nat /\ request[r] \in RequestRecord
      BY DEF ClientTypeOK
    <3> QED BY <2>1, <3>1, RecordFields DEF ClientTypeOK
  <2>4. ClientTypeOK'
    BY <1>2, <2>2, <2>3 DEF IssueToken, ClientTypeOK
  <2>5. ASSUME NEW s \in Requests PROVE AskedFor(s)'
    <3>1. CASE s = r
      <4>1. request'[r].token = Len(born) + 1 /\ request'[r].asked = request[r].asked /\ request'[r].revs = request[r].revs
        BY <2>1 DEF ClientTypeOK, RequestRecord
      <4>2. request[r].asked <= now /\ request[r].revs <= revocations
        BY DEF AskedFor
      <4>3. Len(born) \in Nat /\ revoked <= Len(born) /\ ~(Len(born) + 1 <= revoked)
        BY DEF ClientTypeOK
      <4> QED BY <1>2, <2>2, <3>1, <4>1, <4>2, <4>3 DEF IssueToken, AskedFor
    <3>2. CASE s # r
      <4>1. request'[s] = request[s]
        BY <2>1, <3>2 DEF ClientTypeOK
      <4>2. request[s].token \in DOMAIN born => request[s].token \in DOMAIN born'
                                                 /\ born'[request[s].token] = born[request[s].token]
        <5>1. DOMAIN born = 1 .. Len(born) /\ Len(born) \in Nat
          BY DEF ClientTypeOK
        <5> QED BY <2>2, <5>1
      <4>3. now' = now /\ revoked' = revoked /\ revocations' = revocations
        BY <1>2 DEF IssueToken
      <4> QED BY <4>1, <4>2, <4>3 DEF AskedFor, Forced
    <3> QED BY <3>1, <3>2
  <2> QED BY <2>4, <2>5
<1>3. ASSUME NEW r \in Requests, TokenRefused(r) PROVE IndInv'
  <2>1. request' = [request EXCEPT ![r] = [Fresh("error") EXCEPT !.broken = request[r].broken]]
    BY <1>3 DEF TokenRefused, Finish
  <2>2. request' \in [Requests -> RequestRecord]
    <3>1. request[r].broken \in BOOLEAN
      BY DEF ClientTypeOK, RequestRecord
    <3> QED BY <2>1, <3>1, FreshRecord DEF ClientTypeOK
  <2>3. ClientTypeOK'
    BY <1>3, <2>2 DEF TokenRefused, ClientTypeOK
  <2>4. ASSUME NEW s \in Requests PROVE AskedFor(s)'
    BY <1>3, <2>1 DEF TokenRefused, AskedFor, Forced, Fresh, ClientTypeOK
  <2> QED BY <2>3, <2>4
<1>4. ASSUME NEW r \in Requests, StoreToken(r) PROVE IndInv'
  <2>1. request' = [request EXCEPT ![r] = [request[r] EXCEPT !.pc = "send"]]
    BY <1>4 DEF StoreToken
  <2>2. request' \in [Requests -> RequestRecord]
    <3>1. request[r] \in RequestRecord
      BY DEF ClientTypeOK
    <3> QED BY <2>1, <3>1, RecordFields DEF ClientTypeOK
  <2>3. /\ disk' \in CachedToken /\ memory' \in [Processes -> CachedToken]
    <3>1. /\ request[r].token \in Nat /\ request[r].asked \in Nat /\ ProcessOf[r] \in Processes
          /\ now \in Nat /\ Lifetime \in Nat /\ Skew \in Nat
      BY DEF ClientTypeOK, RequestRecord, ClientAssumption
    <3>2. disk' \in CachedToken
      BY <1>4, <3>1 DEF StoreToken, CachedToken
    <3>3. [token |-> request[r].token, until |-> request[r].asked + Lifetime - Skew] \in CachedToken
      BY <3>1 DEF CachedToken
    <3> QED BY <1>4, <3>1, <3>2, <3>3 DEF StoreToken, Remember, ClientTypeOK
  <2>4. ClientTypeOK'
    BY <1>4, <2>2, <2>3 DEF StoreToken, ClientTypeOK
  <2>5. ASSUME NEW s \in Requests PROVE AskedFor(s)'
    <3>1. UNCHANGED <<now, born, revoked, revocations>> /\ request[r].pc = "issued"
      BY <1>4 DEF StoreToken
    <3>2. CASE s = r
      <4>1. /\ request'[r].token = request[r].token /\ request'[r].asked = request[r].asked
            /\ request'[r].revs = request[r].revs
        BY <2>1 DEF ClientTypeOK, RequestRecord
      <4>2. /\ request[r].asked <= now /\ request[r].revs <= revocations
            /\ request[r].token \in DOMAIN born /\ born[request[r].token] >= request[r].asked
            /\ request[r].token <= revoked => revocations > request[r].revs
        BY <3>1 DEF AskedFor
      <4> QED BY <3>1, <3>2, <4>1, <4>2 DEF AskedFor
    <3>3. CASE s # r
      <4>1. request'[s] = request[s]
        BY <2>1, <3>3 DEF ClientTypeOK
      <4> QED BY <3>1, <4>1 DEF AskedFor, Forced
    <3> QED BY <3>2, <3>3
  <2> QED BY <2>4, <2>5
<1>5. ASSUME NEW r \in Requests, Answered(r) PROVE IndInv'
  <2>1. applied' \in [Requests -> Nat]
    BY <1>5 DEF Answered, ClientTypeOK
  <2>2. CASE Valid(request[r].token) \/ Forced(r)
    <3>1. \E x \in {"ok", "unauthorized"} :
            request' = [request EXCEPT ![r] = [Fresh(x) EXCEPT !.broken = request[r].broken]]
      BY <1>5, <2>2 DEF Answered, Finish
    <3>2. request' \in [Requests -> RequestRecord]
      <4>1. request[r].broken \in BOOLEAN
        BY DEF ClientTypeOK, RequestRecord
      <4> QED BY <3>1, <4>1, FreshRecord DEF ClientTypeOK
    <3>3. ASSUME NEW s \in Requests PROVE AskedFor(s)'
      BY <1>5, <3>1 DEF Answered, AskedFor, Forced, Fresh, ClientTypeOK
    <3> QED BY <1>5, <2>1, <3>2, <3>3 DEF Answered, ClientTypeOK
  <2>3. CASE ~Valid(request[r].token) /\ ~Forced(r)
    <3>1. request' = [request EXCEPT ![r] = [request[r] EXCEPT !.pc = "start", !.round = 2, !.token = 0, !.attempts = 0]]
      BY <1>5, <2>3 DEF Answered, Again
    <3>2. request' \in [Requests -> RequestRecord]
      <4>1. request[r] \in RequestRecord
        BY DEF ClientTypeOK
      <4> QED BY <3>1, <4>1, RecordFields DEF ClientTypeOK
    <3>3. ASSUME NEW s \in Requests PROVE AskedFor(s)'
      BY <1>5, <3>1 DEF Answered, AskedFor, Forced, ClientTypeOK, RequestRecord
    <3> QED BY <1>5, <2>1, <3>2, <3>3 DEF Answered, ClientTypeOK
  <2> QED BY <2>2, <2>3
<1>6. ASSUME NEW r \in Requests, ConnectionBreaks(r) \/ RequestTimesOut(r) PROVE IndInv'
  <2>1. applied' \in [Requests -> Nat] /\ breaks' \in Nat
    <3>1. breaks' = breaks + 1
      BY <1>6 DEF ConnectionBreaks, RequestTimesOut
    <3>2. UNCHANGED applied \/ applied' = [applied EXCEPT ![r] = @ + 1]
      BY <1>6 DEF ConnectionBreaks, RequestTimesOut
    <3> QED BY <3>1, <3>2 DEF ClientTypeOK
  <2>2. CASE request' = [request EXCEPT ![r] = [request[r] EXCEPT !.attempts = @ + 1, !.broken = TRUE]]
    <3>1. request' \in [Requests -> RequestRecord]
      <4>1. request[r] \in RequestRecord
        BY DEF ClientTypeOK
      <4> QED BY <2>2, <4>1, RecordFields DEF ClientTypeOK
    <3>2. ASSUME NEW s \in Requests PROVE AskedFor(s)'
      <4>1. /\ request'[s].pc = request[s].pc /\ request'[s].round = request[s].round
            /\ request'[s].token = request[s].token /\ request'[s].asked = request[s].asked
            /\ request'[s].revs = request[s].revs
        <5>1. request[s] \in RequestRecord
          BY DEF ClientTypeOK
        <5>2. CASE s = r
          <6>1. request'[r] = [request[r] EXCEPT !.attempts = @ + 1, !.broken = TRUE]
            BY <2>2 DEF ClientTypeOK
          <6> QED BY <5>1, <5>2, <6>1 DEF RequestRecord
        <5>3. CASE s # r
          BY <2>2, <5>3 DEF ClientTypeOK
        <5> QED BY <5>2, <5>3
      <4>2. UNCHANGED <<now, born, revoked, revocations>>
        BY <1>6 DEF ConnectionBreaks, RequestTimesOut
      <4> QED BY <4>1, <4>2 DEF AskedFor, Forced
    <3> QED BY <1>6, <2>1, <3>1, <3>2 DEF ConnectionBreaks, RequestTimesOut, ClientTypeOK
  <2>3. CASE FinishBroken(r)
    <3>1. request' \in [Requests -> RequestRecord]
      BY <2>3, FreshRecord DEF FinishBroken, ClientTypeOK
    <3>2. ASSUME NEW s \in Requests PROVE AskedFor(s)'
      <4>1. UNCHANGED <<now, born, revoked, revocations>> /\ now \in Nat /\ revocations \in Nat
        BY <1>6 DEF ConnectionBreaks, RequestTimesOut, ClientTypeOK
      <4>2. CASE s = r
        <5>1. request'[r] = [Fresh("error") EXCEPT !.broken = TRUE]
          BY <2>3 DEF FinishBroken, ClientTypeOK
        <5>2. request'[r].pc = "error" /\ request'[r].asked = 0 /\ request'[r].revs = 0
          BY <5>1 DEF Fresh
        <5> QED BY <4>1, <4>2, <5>2 DEF AskedFor
      <4>3. CASE s # r
        <5>1. request'[s] = request[s]
          BY <2>3, <4>3 DEF FinishBroken, ClientTypeOK
        <5> QED BY <4>1, <5>1 DEF AskedFor, Forced
      <4> QED BY <4>2, <4>3
    <3> QED BY <1>6, <2>1, <3>1, <3>2 DEF ConnectionBreaks, RequestTimesOut, ClientTypeOK
  <2> QED BY <1>6, <2>2, <2>3 DEF ConnectionBreaks, RequestTimesOut
<1>7. CASE Tick
  <2>1. ClientTypeOK'
    BY <1>7 DEF Tick, ClientTypeOK
  <2>2. ASSUME NEW s \in Requests PROVE AskedFor(s)'
    BY <1>7 DEF Tick, AskedFor, Forced, ClientTypeOK, RequestRecord
  <2> QED BY <2>1, <2>2
<1>8. CASE Revoke
  <2>1. ClientTypeOK'
    BY <1>8 DEF Revoke, ClientTypeOK
  <2>2. ASSUME NEW s \in Requests PROVE AskedFor(s)'
    <3>1. request[s].revs \in Nat
      BY DEF ClientTypeOK, RequestRecord
    <3> QED BY <1>8, <3>1, SMTT(30) DEF Revoke, AskedFor, Forced, ClientTypeOK
  <2> QED BY <2>1, <2>2
<1>9. CASE UNCHANGED clientVars
  BY <1>9 DEF clientVars, ClientTypeOK, AskedFor, Forced
<1> QED BY <1>1, <1>2, <1>3, <1>4, <1>5, <1>6, <1>7, <1>8, <1>9 DEF ClientNext, ClientStep

(* The types, and what is known of the token of a second round, always hold.*)
THEOREM TokensAreAskedFor == ClientSpec => []IndInv
<1>1. ClientInit => IndInv
  BY InitInv
<1>2. IndInv /\ [ClientNext]_clientVars => IndInv'
  BY KeepsInv
<1> QED BY <1>1, <1>2, PTL DEF ClientSpec

-----------------------------------------------------------------------------
(* A request comes back unauthorized only if the portal revoked its tokens  *)
(* or a whole lifetime passed since the second one was asked for: the only  *)
(* step that makes it unauthorized is an answer in the second round.        *)
THEOREM NoStaleRefusal == ClientSpec => UnauthorizedMeansRevoked
<1> DEFINE Blameless == \A r \in Requests :
             request[r].pc # "unauthorized" /\ request'[r].pc = "unauthorized" =>
               revocations > request[r].revs \/ now >= request[r].asked + Lifetime
<1>1. IndInv /\ [ClientNext]_clientVars => Blameless
  <2> SUFFICES ASSUME IndInv, [ClientNext]_clientVars, NEW s \in Requests,
                      request[s].pc # "unauthorized", request'[s].pc = "unauthorized"
               PROVE  revocations > request[s].revs \/ now >= request[s].asked + Lifetime
    OBVIOUS
  <2> USE DEF IndInv
  <2>1. request \in [Requests -> RequestRecord] /\ request[s] \in RequestRecord
    BY DEF ClientTypeOK
  <2>2. ASSUME NEW r \in Requests, ChooseToken(r) PROVE FALSE
    <3>1. PICK x \in {"send", "ask"}, t \in {memory[ProcessOf[r]].token, disk.token, 0} : Chooses(r, x, t)
      BY <2>2 DEF ChooseToken
    <3>2. CASE s = r
      BY <2>1, <3>1, <3>2 DEF Chooses, RequestRecord
    <3>3. CASE s # r
      BY <2>1, <3>1, <3>3 DEF Chooses
    <3> QED BY <3>2, <3>3
  <2>3. ASSUME NEW r \in Requests, IssueToken(r) \/ StoreToken(r) PROVE FALSE
    BY <2>1, <2>3 DEF IssueToken, StoreToken, RequestRecord
  <2>4. ASSUME NEW r \in Requests, TokenRefused(r) PROVE FALSE
    BY <2>1, <2>4 DEF TokenRefused, Finish, Fresh
  <2>5. ASSUME NEW r \in Requests, FinishBroken(r) PROVE FALSE
    BY <2>1, <2>5 DEF FinishBroken, Fresh
  <2>6. ASSUME NEW r \in Requests, ConnectionBreaks(r) \/ RequestTimesOut(r) PROVE FALSE
    BY <2>1, <2>5, <2>6 DEF ConnectionBreaks, RequestTimesOut, RequestRecord
  <2>7. ASSUME NEW r \in Requests, Answered(r)
        PROVE  revocations > request[s].revs \/ now >= request[s].asked + Lifetime
    <3>1. s = r /\ request[r].pc = "send" /\ Forced(r) /\ ~Valid(request[r].token)
      BY <2>1, <2>7 DEF Answered, Finish, Again, Fresh, RequestRecord
    <3>2. /\ request[r].token \in DOMAIN born /\ born[request[r].token] >= request[r].asked
          /\ request[r].token <= revoked => revocations > request[r].revs
      BY <3>1 DEF AskedFor
    <3>3. CASE request[r].token <= revoked
      BY <3>1, <3>2, <3>3
    <3>4. CASE ~(request[r].token <= revoked)
      <4>1. /\ now \in Nat /\ revoked \in Nat /\ request[r].token \in Nat /\ request[r].asked \in Nat
            /\ born[request[r].token] \in Nat /\ Lifetime \in Nat
        BY <2>1, <3>1, <3>2, ClientAssumption DEF ClientTypeOK, RequestRecord, ClientAssumption
      <4>2. ~(now < born[request[r].token] + Lifetime)
        BY <3>1, <3>2, <3>4, <4>1 DEF Valid, Tokens
      <4> QED BY <3>1, <3>2, <4>1, <4>2
    <3> QED BY <3>3, <3>4
  <2>8. CASE Tick \/ Revoke \/ UNCHANGED clientVars
    BY <2>8 DEF Tick, Revoke, clientVars
  <2> QED BY <2>2, <2>3, <2>4, <2>6, <2>7, <2>8 DEF ClientNext, ClientStep
<1> QED BY <1>1, TokensAreAskedFor, PTL DEF ClientSpec, UnauthorizedMeansRevoked

-----------------------------------------------------------------------------
(* The client implements what commands rely on: every step is one of        *)
(* RequestOutcome's or leaves what it shows alone.                          *)
LEMMA InitOutcome == ClientInit => Outcome!Init
<1> SUFFICES ASSUME ClientInit PROVE Outcome!Init
  OBVIOUS
<1>1. \A r \in Requests : request[r].pc = "start" /\ request[r].broken = FALSE
  BY DEF ClientInit, ClientStart, Fresh
<1> QED BY <1>1 DEF Outcome!Init, ClientInit, ClientStart, Busy

(* What a command sees of a request, and that a step on one request changes *)
(* what is seen of that request only.                                       *)
Shown(q) == IF q.pc \in Busy THEN "pending" ELSE q.pc

LEMMA MapOne ==
  ASSUME NEW f \in [Requests -> RequestRecord], NEW r \in Requests, NEW q, NEW g,
         g = [f EXCEPT ![r] = q]
  PROVE  /\ [s \in Requests |-> Shown(g[s])] = [[s \in Requests |-> Shown(f[s])] EXCEPT ![r] = Shown(q)]
         /\ [s \in Requests |-> g[s].broken] = [[s \in Requests |-> f[s].broken] EXCEPT ![r] = q.broken]
<1>1. g[r] = q /\ \A s \in Requests : s # r => g[s] = f[s]
  OBVIOUS
<1> QED BY <1>1

LEMMA StepOutcome == ClientTypeOK /\ [ClientNext]_clientVars => [Outcome!Next]_(Outcome!outcomeVars)
<1> DEFINE out == [s \in Requests |-> IF request[s].pc \in Busy THEN "pending" ELSE request[s].pc]
           brk == [s \in Requests |-> request[s].broken]
           Same == out' = out /\ brk' = brk /\ applied' = applied
<1> SUFFICES ASSUME ClientTypeOK, [ClientNext]_clientVars
             PROVE  Outcome!Next \/ Same
  BY DEF Outcome!outcomeVars
<1>1. request \in [Requests -> RequestRecord]
  BY DEF ClientTypeOK
<1>2. out = [s \in Requests |-> Shown(request[s])] /\ out' = [s \in Requests |-> Shown(request'[s])]
  BY DEF Shown
<1>3. ASSUME NEW r \in Requests, NEW q, request' = [request EXCEPT ![r] = q]
      PROVE  out' = [out EXCEPT ![r] = Shown(q)] /\ brk' = [brk EXCEPT ![r] = q.broken]
  BY <1>1, <1>2, <1>3, MapOne
<1>4. ASSUME NEW r \in Requests, NEW q, request' = [request EXCEPT ![r] = q], applied' = applied,
             request[r].pc \in Busy, q.pc \in Busy, q.broken = request[r].broken
      PROVE  Same
  <2>1. out[r] = "pending" /\ Shown(q) = "pending" /\ brk[r] = q.broken
    BY <1>4 DEF Shown
  <2>2. out' = [out EXCEPT ![r] = Shown(q)] /\ brk' = [brk EXCEPT ![r] = q.broken]
    BY <1>3, <1>4
  <2> QED BY <1>4, <2>1, <2>2
<1>5. ASSUME NEW r \in Requests, NEW x \in {"ok", "unauthorized", "error"}, request[r].pc \in Busy,
             request' = [request EXCEPT ![r] = [Fresh(x) EXCEPT !.broken = request[r].broken]]
      PROVE  out[r] = "pending" /\ out' = [out EXCEPT ![r] = x] /\ brk' = brk
  <2> DEFINE q == [Fresh(x) EXCEPT !.broken = request[r].broken]
  <2>1. q.pc = x /\ q.broken = brk[r] /\ Shown(q) = x
    BY DEF Fresh, Shown, Busy
  <2>2. out' = [out EXCEPT ![r] = Shown(q)] /\ brk' = [brk EXCEPT ![r] = q.broken]
    BY <1>3, <1>5
  <2> QED BY <1>5, <2>1, <2>2, ZenonT(40)
<1>6. ASSUME NEW r \in Requests, ConnectionBreaks(r) \/ RequestTimesOut(r) PROVE Outcome!Breaks(r)
  <2>1. request[r].pc = "send" /\ out[r] = "pending"
    BY <1>6 DEF ConnectionBreaks, RequestTimesOut, Busy
  <2>2. UNCHANGED applied \/ applied' = [applied EXCEPT ![r] = @ + 1]
    BY <1>6 DEF ConnectionBreaks, RequestTimesOut
  <2>3. CASE request' = [request EXCEPT ![r] = [request[r] EXCEPT !.attempts = @ + 1, !.broken = TRUE]]
    <3> DEFINE q == [request[r] EXCEPT !.attempts = @ + 1, !.broken = TRUE]
    <3>1. q.broken = TRUE /\ q.pc = "send"
      BY <1>1, <2>1 DEF RequestRecord
    <3>2. Shown(q) = "pending"
      BY <3>1 DEF Shown, Busy
    <3>3. out' = [out EXCEPT ![r] = Shown(q)] /\ brk' = [brk EXCEPT ![r] = q.broken]
      BY <1>3, <2>3
    <3>4. out' = out /\ brk' = [brk EXCEPT ![r] = TRUE]
      BY <2>1, <3>1, <3>2, <3>3
    <3> QED BY <2>1, <2>2, <3>4 DEF Outcome!Breaks
  <2>4. CASE FinishBroken(r)
    <3> DEFINE q == [Fresh("error") EXCEPT !.broken = TRUE]
    <3>1. q.broken = TRUE /\ Shown(q) = "error"
      BY DEF Fresh, Shown, Busy
    <3>2. out' = [out EXCEPT ![r] = Shown(q)] /\ brk' = [brk EXCEPT ![r] = q.broken]
      BY <1>3, <2>4 DEF FinishBroken
    <3> QED BY <2>1, <2>2, <3>1, <3>2 DEF Outcome!Breaks, Outcome!Ends
  <2> QED BY <1>6, <2>3, <2>4 DEF ConnectionBreaks, RequestTimesOut
<1>7. ASSUME NEW r \in Requests, Answered(r) PROVE Outcome!Next \/ Same
  <2>1. request[r].pc = "send" /\ request[r].pc \in Busy
    BY <1>7 DEF Answered, Busy
  <2>2. CASE Valid(request[r].token)
    <3>1. out[r] = "pending" /\ out' = [out EXCEPT ![r] = "ok"] /\ brk' = brk
      BY <1>5, <1>7, <2>1, <2>2 DEF Answered, Finish
    <3> QED BY <1>7, <2>2, <3>1 DEF Answered, Outcome!Next, Outcome!CarriedOut, Outcome!Ends
  <2>3. CASE ~Valid(request[r].token) /\ Forced(r)
    <3>1. out[r] = "pending" /\ out' = [out EXCEPT ![r] = "unauthorized"] /\ brk' = brk
      BY <1>5, <1>7, <2>1, <2>3 DEF Answered, Finish
    <3> QED BY <1>7, <2>3, <3>1 DEF Answered, Outcome!Next, Outcome!Refused, Outcome!Ends
  <2>4. CASE ~Valid(request[r].token) /\ ~Forced(r)
    <3> DEFINE q == [request[r] EXCEPT !.pc = "start", !.round = 2, !.token = 0, !.attempts = 0]
    <3>1. q.pc \in Busy /\ q.broken = request[r].broken
      BY <1>1 DEF RequestRecord, Busy
    <3>2. request' = [request EXCEPT ![r] = q] /\ applied' = applied
      BY <1>7, <2>4 DEF Answered, Again
    <3> QED BY <1>4, <2>1, <3>1, <3>2
  <2> QED BY <2>2, <2>3, <2>4
<1>8. ASSUME NEW r \in Requests, TokenRefused(r) PROVE Outcome!Next
  <2>1. out[r] = "pending" /\ out' = [out EXCEPT ![r] = "error"] /\ brk' = brk
    BY <1>5, <1>8 DEF TokenRefused, Finish, Busy
  <2> QED BY <1>8, <2>1 DEF TokenRefused, Outcome!Next, Outcome!Refused, Outcome!Ends
<1>9. ASSUME NEW r \in Requests, ChooseToken(r) PROVE Same
  <2>1. PICK x \in {"send", "ask"}, t \in {memory[ProcessOf[r]].token, disk.token, 0} : Chooses(r, x, t)
    BY <1>9 DEF ChooseToken
  <2> DEFINE q == [request[r] EXCEPT !.pc = x, !.token = t, !.asked = now, !.revs = revocations]
  <2>2. q.pc \in Busy /\ q.broken = request[r].broken
    BY <1>1 DEF RequestRecord, Busy
  <2>3. request' = [request EXCEPT ![r] = q] /\ applied' = applied /\ request[r].pc \in Busy
    BY <1>9, <2>1 DEF ChooseToken, Chooses, Busy
  <2> QED BY <1>4, <2>2, <2>3
<1>10. ASSUME NEW r \in Requests, IssueToken(r) PROVE Same
  <2> DEFINE q == [request[r] EXCEPT !.pc = "issued", !.token = Len(born) + 1]
  <2>1. q.pc \in Busy /\ q.broken = request[r].broken
    BY <1>1 DEF RequestRecord, Busy
  <2>2. request' = [request EXCEPT ![r] = q] /\ applied' = applied /\ request[r].pc \in Busy
    BY <1>10 DEF IssueToken, Busy
  <2> QED BY <1>4, <2>1, <2>2
<1>11. ASSUME NEW r \in Requests, StoreToken(r) PROVE Same
  <2> DEFINE q == [request[r] EXCEPT !.pc = "send"]
  <2>1. q.pc \in Busy /\ q.broken = request[r].broken
    BY <1>1 DEF RequestRecord, Busy
  <2>2. request' = [request EXCEPT ![r] = q] /\ applied' = applied /\ request[r].pc \in Busy
    BY <1>11 DEF StoreToken, Busy
  <2> QED BY <1>4, <2>1, <2>2
<1>12. CASE Tick \/ Revoke \/ UNCHANGED clientVars
  BY <1>12 DEF Tick, Revoke, clientVars
<1> QED BY <1>6, <1>7, <1>8, <1>9, <1>10, <1>11, <1>12 DEF ClientNext, ClientStep, Outcome!Next

(* Whatever tokens, caches and retries do, a command sees what it may rely  *)
(* on: an answer that is true of the portal, a request carried out once     *)
(* unless a connection broke, and an outcome that stays.                    *)
THEOREM ClientImplementsOutcome == ClientSpec => Outcome!Spec
<1>1. IndInv => ClientTypeOK
  BY DEF IndInv
<1> QED BY InitOutcome, StepOutcome, TokensAreAskedFor, <1>1, PTL DEF ClientSpec, Outcome!Spec

-----------------------------------------------------------------------------
(* Lists that put numbers in order (sites by id, layouts by place).         *)
\* A function on the first numbers is a list.
LEMMA ListOf == ASSUME NEW S, NEW n \in Nat, NEW q \in [1 .. n -> S] PROVE q \in Seq(S) /\ Len(q) = n /\ DOMAIN q = 1 .. n
OBVIOUS

Ranked(S) == [k \in 1 .. Cardinality(S) |-> CHOOSE x \in S : Cardinality({y \in S : y <= x}) = k]
\* Some numbers in order, each at the place that says how many are not above it: each of them, once.
LEMMA InOrderIs ==
  ASSUME NEW S \in SUBSET Nat, IsFiniteSet(S), NEW q, q = Ranked(S)
  PROVE  /\ q \in Seq(S) /\ DOMAIN q = 1 .. Len(q) /\ Len(q) \in Nat /\ Len(q) = Cardinality(S)
         /\ \A i, j \in 1 .. Len(q) : q[i] = q[j] => i = j
         /\ \A x \in S : \E i \in 1 .. Len(q) : q[i] = x
<1> DEFINE n == Cardinality(S)
           upTo(x) == {y \in S : y <= x}
           rank == [x \in S |-> Cardinality(upTo(x))]
<1>1. n \in Nat /\ \A x \in S : IsFiniteSet(upTo(x)) /\ Cardinality(upTo(x)) \in Nat /\ Cardinality(upTo(x)) <= n
  <2>1. \A x \in S : upTo(x) \in SUBSET S
    OBVIOUS
  <2>2. \A x \in S : IsFiniteSet(upTo(x)) /\ Cardinality(upTo(x)) <= n
    BY <2>1, FS_Subset
  <2> QED
    BY <2>2, FS_CardinalityType
<1>2. \A x \in S : rank[x] \in 1 .. n
  <2> TAKE x \in S
  <2>1. x \in upTo(x)
    OBVIOUS
  <2>2. Cardinality(upTo(x)) # 0
    BY <2>1, <1>1, FS_EmptySet
  <2> HIDE DEF upTo
  <2> QED
    BY <2>2, <1>1
<1>3. ASSUME NEW x \in S, NEW y \in S, x < y PROVE rank[x] # rank[y]
  <2>1. upTo(x) \in SUBSET upTo(y) /\ y \in upTo(y) /\ y \notin upTo(x)
    <3>1. x \in Nat /\ y \in Nat /\ ~(y <= x) /\ y <= y
      BY <1>3
    <3>2. \A z \in S : z \in Nat /\ (z <= x => z <= y)
      BY <1>3
    <3> QED
      BY <3>1, <3>2
  <2>2. IsFiniteSet(upTo(y))
    BY <1>1
  <2>3. Cardinality(upTo(y)) = Cardinality(upTo(x)) => upTo(y) = upTo(x)
    <3> HIDE DEF upTo
    <3> QED
      BY <2>1, <2>2, FS_Subset
  <2> HIDE DEF upTo
  <2> QED
    BY <2>1, <2>3
<1> HIDE DEF upTo
<1>4. \A x, y \in S : rank[x] = rank[y] => x = y
  <2> SUFFICES ASSUME NEW x \in S, NEW y \in S, rank[x] = rank[y], x # y PROVE FALSE
    OBVIOUS
  <2>1. x < y \/ y < x
    OBVIOUS
  <2> HIDE DEF rank
  <2> QED
    BY <2>1, <1>3
<1>5. rank \in [S -> 1 .. n]
  BY <1>2
<1> HIDE DEF rank, n
<1>6. rank \in Injection(S, 1 .. n)
  BY <1>4, <1>5 DEF Injection, IsInjective
<1>7. IsFiniteSet(1 .. n) /\ Cardinality(1 .. n) = n
  <2>1. 1 \in Int /\ n \in Int /\ (1 > n => n = 0) /\ n - 1 + 1 = n
    BY <1>1
  <2> QED
    BY <2>1, FS_Interval
<1>8. rank \in Surjection(S, 1 .. n)
  BY <1>6, <1>7, FS_Injection DEF n
<1>9. \A k \in 1 .. n : \E x \in S : Cardinality(upTo(x)) = k
  BY <1>8 DEF Surjection, rank
<1>10. q = [k \in 1 .. n |-> CHOOSE x \in S : Cardinality(upTo(x)) = k]
  BY DEF n, upTo, Ranked
<1>11. \A k \in 1 .. n : q[k] \in S /\ Cardinality(upTo(q[k])) = k
  BY <1>9, <1>10
<1>12. q \in Seq(S) /\ Len(q) = n /\ DOMAIN q = 1 .. n
  <2>1. \A k \in 1 .. n : q[k] \in S
    BY <1>11
  <2>2. q \in [1 .. n -> S]
    BY <2>1, <1>10
  <2>3. n \in Nat
    BY <1>1
  <2> QED
    BY <2>2, <2>3, ListOf
<1>13. \A i, j \in 1 .. n : q[i] = q[j] => i = j
  BY <1>11
<1>14. ASSUME NEW x \in S PROVE \E i \in 1 .. n : q[i] = x
  <2>1. rank[x] \in 1 .. n /\ rank[x] = Cardinality(upTo(x))
    BY <1>5 DEF rank
  <2>2. q[rank[x]] \in S /\ Cardinality(upTo(q[rank[x]])) = rank[x]
    BY <2>1, <1>11
  <2>3. rank[q[rank[x]]] = rank[x]
    BY <2>2 DEF rank
  <2> QED
    BY <2>1, <2>2, <2>3, <1>4
<1> QED
  BY <1>1, <1>12, <1>13, <1>14 DEF n

\* A list of something.
IsRows(q) == \E S : q \in Seq(S)

\* What a list is.
LEMMA RowsAre == ASSUME NEW q, IsRows(q) PROVE Len(q) \in Nat /\ DOMAIN q = 1 .. Len(q) /\ (Len(q) = 0 => q = <<>>)
BY DEF IsRows

\* A list by its places.
LEMMA RowsList ==
  ASSUME NEW n \in Nat, NEW q, q = [i \in 1 .. n |-> q[i]]
  PROVE  IsRows(q) /\ Len(q) = n /\ DOMAIN q = 1 .. n
<1> DEFINE S == {q[i] : i \in 1 .. n}
<1>1. q \in [1 .. n -> S]
  OBVIOUS
<1> HIDE DEF S
<1> QED
  BY <1>1, ListOf DEF IsRows

\* Two lists, one after the other.
LEMMA RowsJoin == ASSUME NEW p, NEW q, IsRows(p), IsRows(q) PROVE IsRows(p \o q)
<1>1. PICK A, B : p \in Seq(A) /\ q \in Seq(B)
  BY DEF IsRows
<1>2. p \in Seq(A \cup B) /\ q \in Seq(A \cup B)
  BY <1>1
<1>3. p \o q \in Seq(A \cup B)
  BY <1>2
<1> QED
  BY <1>3 DEF IsRows

\* A list with one more at its end.
LEMMA RowsAdd ==
  ASSUME NEW p, NEW x, IsRows(p)
  PROVE  /\ IsRows(Append(p, x)) /\ Len(Append(p, x)) = Len(p) + 1
         /\ \A i \in DOMAIN p : Append(p, x)[i] = p[i]
         /\ Append(p, x)[Len(p) + 1] = x
<1>1. PICK A : p \in Seq(A)
  BY DEF IsRows
<1>2. p \in Seq(A \cup {x}) /\ x \in A \cup {x}
  BY <1>1
<1>3. Append(p, x) \in Seq(A \cup {x})
  BY <1>2
<1> QED
  BY <1>2, <1>3 DEF IsRows

-----------------------------------------------------------------------------
(* Reports over many sites (SiteReports): what is known of the units of     *)
(* each report in every phase, of the rows read of a folder and of the pool.*)
\* What the portal and the case are, and which phase belongs to which report.
ReportTypes ==
  /\ report \in Reports /\ repPc \in {"start", "count", "rows", "inventory", "done", "error"}
  /\ DOMAIN branches = DOMAIN report.tree /\ DOMAIN filed = DOMAIN report.articles
  /\ \A f \in DOMAIN filed : filed[f] \in Seq(STRING)
  /\ repPc = "count" => report.op = "sites"
  /\ repPc = "rows" => report.op = "folders"
  /\ repPc = "inventory" => report.op = "structures"
  /\ repPc = "start" => unit = <<>> /\ places = <<>> /\ skippedSites = <<>> /\ inventories = <<>>
  /\ repPc = "done" => UnitsIn({"done", "skipped"}) = DOMAIN unit
\* Of the sites whose contents are counted: those skipped are in the list, once.
SitesPart ==
  repPc \in {"count", "done"} /\ report.op = "sites" =>
    /\ DOMAIN unit = KeptSites /\ unit \in [KeptSites -> {"waiting", "roots", "walk", "done", "skipped"}]
    /\ UnitsIn({"skipped"}) = ToSet(skippedSites)
    /\ skippedSites \in Seq(KeptSites) /\ IsInjective(skippedSites)
\* Of the folders whose contents are listed: who has a place, and how far each is.
Stays(t) == t[2] \notin shifted
RowsRight(t) ==
  /\ Len(tally[t]) = Len(filed[t[2]]) /\ DOMAIN tally[t] = DOMAIN filed[t[2]]
  /\ \A i \in DOMAIN tally[t] :
       tally[t][i] = IF filed[t[2]][i] \in report.defined \cup report.readable
                     THEN <<"key", filed[t[2]][i]>> ELSE Unknown(filed[t[2]][i])
TaskPart(t) ==
  /\ unit[t] \in {"waiting", "queued", "reading", "hydrating", "done"} /\ t[2] \in DOMAIN filed
  /\ pageRows[t].start \in Nat /\ pageRows[t].rows \in Seq(STRING)
  /\ DOMAIN pageRows[t] = {"start", "rows", "todo"}
  /\ Stays(t) /\ unit[t] \in {"waiting", "queued", "reading"} =>
       /\ pageRows[t].start <= Len(filed[t[2]])
       /\ pageRows[t].rows = SubSeq(filed[t[2]], 1, pageRows[t].start)
  /\ Stays(t) /\ unit[t] = "hydrating" =>
       /\ pageRows[t].rows = filed[t[2]]
       /\ \A i \in DOMAIN filed[t[2]] :
            filed[t[2]][i] \in DOMAIN structureMap \cup pageRows[t].todo \/ filed[t[2]][i] \notin report.readable
  /\ Stays(t) /\ unit[t] = "done" => RowsRight(t)
MapPart ==
  /\ report.defined \subseteq DOMAIN structureMap
  /\ DOMAIN structureMap \subseteq report.defined \cup report.readable
  /\ \A s \in DOMAIN structureMap : structureMap[s] = s
PoolPart ==
  /\ IsFiniteSet(UnitsIn({"reading"})) /\ Cardinality(UnitsIn({"reading"})) <= ReportPool
  /\ places \in Seq(DOMAIN unit) /\ \A i \in 1 .. Len(places) : unit[places[i]] = "queued"
  /\ \A i, j \in 1 .. Len(places) : places[i] = places[j] => i = j
RowsPart ==
  repPc \in {"rows", "done"} /\ report.op = "folders" =>
    /\ DOMAIN pageRows = DOMAIN unit /\ DOMAIN tally = DOMAIN unit
    /\ \A t \in DOMAIN unit : TaskPart(t)
    /\ MapPart /\ PoolPart
\* Of the structures of the sites: what is known of a site in each phase.
WholeOf(s) ==
  \A d \in report.structures[s] :
    LET bound == {t \in report.templates[s] : t.structure = d}
    IN  /\ inventories[s][d] \subseteq {t.id : t \in bound}
        /\ report.withTemplates /\ (Refuses(s, "templates") \/ Cardinality({t.headless : t \in report.templates[s]}) < 2)
           => inventories[s][d] = {t.id : t \in bound}
SitePart(s) ==
  /\ unit[s] \in {"waiting", "templates", "ddm", "done", "skipped"}
  /\ s \in DOMAIN inventories => ~Refuses(s, "definitions")
  /\ unit[s] = "skipped" => Refuses(s, "definitions")
  /\ unit[s] \in {"templates", "ddm", "done"} => s \in DOMAIN inventories
  /\ unit[s] = "ddm" => Refuses(s, "templates") \/ \A t \in report.templates[s] : ~t.headless
  /\ unit[s] = "done" => WholeOf(s)
InventoryPart ==
  repPc \in {"inventory", "done"} /\ report.op = "structures" =>
    /\ DOMAIN unit = ToSet(report.sites) /\ DOMAIN inventories \subseteq DOMAIN unit
    /\ \A s \in DOMAIN unit : SitePart(s)
ReportInv == ReportTypes /\ SitesPart /\ RowsPart /\ InventoryPart

\* What the assumption says of the report at hand.
LEMMA TheReport ==
  ASSUME report \in Reports
  PROVE  /\ report.op \in {"sites", "folders", "structures"} /\ report.withTemplates \in BOOLEAN
         /\ DOMAIN report.articles = DOMAIN report.tree /\ \A f \in DOMAIN report.articles : report.articles[f] \in Seq(STRING)
         /\ report.readable \subseteq STRING
         /\ \A s \in ToSet(report.sites) : \A t \in report.templates[s] : t.headless \in BOOLEAN
         /\ ReportPool \in Nat \ {0} /\ ReportPage \in Nat \ {0} /\ ReportFaults \in Nat /\ ReportEdits \in Nat
BY ReportAssumption

\* What the invariant says of each report when it is done.
LEMMA ReportsHold == ReportInv => SitesAreSettled /\ RowsAreCounted /\ InventoryIsWhole
<1> SUFFICES ASSUME ReportInv PROVE SitesAreSettled /\ RowsAreCounted /\ InventoryIsWhole
  OBVIOUS
<1>1. SitesAreSettled
  <2> SUFFICES ASSUME repPc = "done", report.op = "sites"
               PROVE  /\ KeptSites = UnitsIn({"done"}) \cup ToSet(skippedSites)
                      /\ UnitsIn({"done"}) \cap ToSet(skippedSites) = {}
                      /\ IsInjective(skippedSites)
    BY DEF SitesAreSettled
  <2>1. UnitsIn({"done", "skipped"}) = DOMAIN unit
    BY DEF ReportInv, ReportTypes
  <2>2. DOMAIN unit = KeptSites /\ UnitsIn({"skipped"}) = ToSet(skippedSites) /\ IsInjective(skippedSites)
    BY DEF ReportInv, SitesPart
  <2> QED
    BY <2>1, <2>2 DEF UnitsIn
<1>2. RowsAreCounted
  <2>1. repPc = "rows" => Cardinality(UnitsIn({"reading"})) <= ReportPool
    BY DEF ReportInv, ReportTypes, RowsPart, PoolPart
  <2>2. ASSUME repPc = "done", report.op = "folders", NEW t \in DOMAIN unit, t[2] \notin shifted PROVE RowsRight(t)
    <3>1. TaskPart(t) /\ UnitsIn({"done", "skipped"}) = DOMAIN unit
      BY <2>2 DEF ReportInv, RowsPart, ReportTypes
    <3> QED
      BY <3>1, <2>2 DEF TaskPart, Stays, UnitsIn
  <2> QED
    BY <2>1, <2>2 DEF RowsAreCounted, RowsRight
<1>3. InventoryIsWhole
  <2> SUFFICES ASSUME repPc = "done", report.op = "structures"
               PROVE  /\ DOMAIN inventories = {s \in ToSet(report.sites) : ~Refuses(s, "definitions")}
                      /\ \A s \in DOMAIN inventories : WholeOf(s)
    BY DEF InventoryIsWhole, WholeOf
  <2>1. /\ DOMAIN unit = ToSet(report.sites) /\ DOMAIN inventories \subseteq DOMAIN unit
        /\ \A s \in DOMAIN unit : SitePart(s)
        /\ UnitsIn({"done", "skipped"}) = DOMAIN unit
    BY DEF ReportInv, InventoryPart, ReportTypes
  <2> QED
    BY <2>1 DEF SitePart, UnitsIn
<1> QED
  BY <1>1, <1>2, <1>3

\* At the start no report has begun.
LEMMA ReportStarts == ReportInit => ReportInv
<1> SUFFICES ASSUME ReportInit PROVE ReportInv
  OBVIOUS
<1> QED
  BY TheReport DEF ReportInit, ReportStart, ReportInv, ReportTypes, SitesPart, RowsPart, InventoryPart

\* A step of one report leaves the others' parts alone.
LEMMA ReportStays ==
  ASSUME ReportInv, Still, repPc' = repPc, repPc \in {"count", "rows", "inventory"}
  PROVE  ReportTypes'
BY DEF ReportInv, ReportTypes, Still

\* A site that is skipped is put in the list it was not in.
LEMMA SkippedOnce ==
  ASSUME NEW S, NEW q \in Seq(S), IsInjective(q), NEW s \in S, s \notin ToSet(q)
  PROVE  /\ Append(q, s) \in Seq(S) /\ IsInjective(Append(q, s))
         /\ ToSet(Append(q, s)) = ToSet(q) \cup {s}
<1>1. /\ Append(q, s) \in Seq(S) /\ Len(Append(q, s)) = Len(q) + 1 /\ Len(q) \in Nat
      /\ DOMAIN q = 1 .. Len(q) /\ DOMAIN Append(q, s) = 1 .. Len(q) + 1
      /\ \A i \in 1 .. Len(q) : Append(q, s)[i] = q[i]
      /\ Append(q, s)[Len(q) + 1] = s
  OBVIOUS
<1>2. \A i \in 1 .. Len(q) : q[i] # s
  BY <1>1 DEF ToSet
<1>3. IsInjective(Append(q, s))
  BY <1>1, <1>2 DEF IsInjective
<1>4. ToSet(Append(q, s)) = ToSet(q) \cup {s}
  <2>1. ASSUME NEW x \in ToSet(Append(q, s)) PROVE x \in ToSet(q) \cup {s}
    <3>1. PICK i \in DOMAIN Append(q, s) : x = Append(q, s)[i]
      BY <2>1 DEF ToSet
    <3>2. i = Len(q) + 1 \/ i \in 1 .. Len(q)
      BY <1>1, <3>1
    <3> QED
      BY <1>1, <3>1, <3>2 DEF ToSet
  <2>2. ASSUME NEW x \in ToSet(q) PROVE x \in ToSet(Append(q, s))
    <3>1. PICK i \in DOMAIN q : x = q[i]
      BY <2>2 DEF ToSet
    <3>2. i \in DOMAIN Append(q, s) /\ x = Append(q, s)[i]
      BY <1>1, <3>1
    <3> QED
      BY <3>2 DEF ToSet
  <2>3. s \in ToSet(Append(q, s))
    <3>1. Len(q) + 1 \in DOMAIN Append(q, s)
      BY <1>1
    <3> QED
      BY <1>1, <3>1 DEF ToSet
  <2> QED
    BY <2>1, <2>2, <2>3
<1> QED
  BY <1>1, <1>3, <1>4

\* The count of contents: a site is taken, walked, counted or skipped.
LEMMA CountKeeps ==
  ASSUME ReportInv, NEW u \in DOMAIN unit,
         TakeSite(u) \/ ListRoots(u) \/ SiteCounted(u) \/ SkipSite(u) \/ \E r : BuildFolderStats(u, r)
  PROVE  ReportInv'
<1>1. repPc = "count" /\ repPc' = "count" /\ Still /\ report.op = "sites"
  BY DEF TakeSite, NextSite, ListRoots, SiteCounted, SkipSite, BuildFolderStats, ReportInv, ReportTypes
<1>2. ReportTypes' /\ RowsPart' /\ InventoryPart'
  BY <1>1, ReportStays DEF Still, RowsPart, InventoryPart
<1>3. SitesPart'
  <2>1. /\ DOMAIN unit = KeptSites /\ unit \in [KeptSites -> {"waiting", "roots", "walk", "done", "skipped"}]
        /\ UnitsIn({"skipped"}) = ToSet(skippedSites)
        /\ skippedSites \in Seq(KeptSites) /\ IsInjective(skippedSites) /\ KeptSites' = KeptSites
    BY <1>1 DEF ReportInv, SitesPart, Still, KeptSites
  <2>2. CASE SkipSite(u)
    <3>1. /\ unit[u] \notin {"skipped"} /\ unit' = [unit EXCEPT ![u] = "skipped"]
          /\ skippedSites' = Append(skippedSites, u)
      BY <2>2 DEF SkipSite, Becomes
    <3>2. u \notin ToSet(skippedSites) /\ u \in KeptSites
      BY <3>1, <2>1 DEF UnitsIn
    <3>3. UnitsIn({"skipped"})' = UnitsIn({"skipped"}) \cup {u}
      BY <3>1, <2>1 DEF UnitsIn
    <3>4. /\ Append(skippedSites, u) \in Seq(KeptSites) /\ IsInjective(Append(skippedSites, u))
          /\ ToSet(Append(skippedSites, u)) = ToSet(skippedSites) \cup {u}
      BY <2>1, <3>2, SkippedOnce
    <3> QED
      BY <3>1, <3>3, <3>4, <2>1 DEF SitesPart
  <2>3. CASE ~SkipSite(u)
    <3>1. /\ skippedSites' = skippedSites
          /\ \/ unit' = unit
             \/ unit[u] # "skipped" /\ \E p \in {"roots", "walk", "done"} : unit' = [unit EXCEPT ![u] = p]
      BY <2>3 DEF TakeSite, NextSite, ListRoots, SiteCounted, BuildFolderStats, Becomes, CountVars
    <3>2. DOMAIN unit' = KeptSites /\ unit' \in [KeptSites -> {"waiting", "roots", "walk", "done", "skipped"}]
      BY <2>1, <3>1
    <3>3. UnitsIn({"skipped"})' = UnitsIn({"skipped"})
      BY <3>1, <2>1 DEF UnitsIn
    <3> QED
      BY <3>1, <3>2, <3>3, <2>1 DEF SitesPart
  <2> QED
    BY <2>2, <2>3
<1> QED
  BY <1>2, <1>3 DEF ReportInv

\* Templates that are all of one kind are all shown by the headless list, or none is.
LEMMA OneHeadless ==
  ASSUME NEW T, \A t \in T : t.headless \in BOOLEAN, Cardinality({t.headless : t \in T}) < 2,
         NEW a \in T, a.headless
  PROVE  \A t \in T : t.headless
<1> SUFFICES ASSUME NEW b \in T, ~b.headless PROVE FALSE
  OBVIOUS
<1>1. {t.headless : t \in T} = {TRUE, FALSE}
  <2>1. a.headless = TRUE /\ b.headless = FALSE
    OBVIOUS
  <2>2. TRUE \in {t.headless : t \in T} /\ FALSE \in {t.headless : t \in T}
    BY <2>1
  <2>3. {t.headless : t \in T} \subseteq {TRUE, FALSE}
    OBVIOUS
  <2> QED
    BY <2>2, <2>3
<1>2. IsFiniteSet({TRUE}) /\ Cardinality({TRUE}) = 1
  BY FS_Singleton
<1>3. {TRUE, FALSE} = {TRUE} \cup {FALSE} /\ FALSE \notin {TRUE}
  OBVIOUS
<1>4. Cardinality({TRUE} \cup {FALSE}) = Cardinality({TRUE}) + 1
  BY <1>2, <1>3, FS_AddElement
<1>5. Cardinality({t.headless : t \in T}) = Cardinality({TRUE} \cup {FALSE})
  BY <1>1, <1>3
<1> DEFINE c == Cardinality({t.headless : t \in T})
<1>6. c < 2 /\ c = 1 + 1
  BY <1>2, <1>4, <1>5
<1> HIDE DEF c
<1> QED
  BY <1>6

\* The inventory: the lists that are asked for a site, one after the other.
LEMMA InventoryKeeps ==
  ASSUME ReportInv, NEW u \in DOMAIN unit, ListDefinitions(u) \/ ListContentTemplates(u) \/ ListDdmTemplates(u)
  PROVE  ReportInv'
<1>1. repPc = "inventory" /\ repPc' = "inventory" /\ Still /\ report.op = "structures"
  BY DEF ListDefinitions, ListContentTemplates, ListDdmTemplates, ReportInv, ReportTypes
<1>2. ReportTypes' /\ RowsPart' /\ SitesPart'
  BY <1>1, ReportStays DEF Still, RowsPart, SitesPart
<1>3. /\ DOMAIN unit = ToSet(report.sites) /\ DOMAIN inventories \subseteq DOMAIN unit
      /\ \A s \in DOMAIN unit : SitePart(s) /\ report' = report
  BY <1>1 DEF ReportInv, InventoryPart, Still
<1>4. /\ report.withTemplates \in BOOLEAN
      /\ \A t \in report.templates[u] : t.headless \in BOOLEAN
  BY <1>3, TheReport DEF ReportInv, ReportTypes
<1>5. /\ DOMAIN unit' = DOMAIN unit /\ \A s \in DOMAIN unit \ {u} : unit'[s] = unit[s]
      /\ DOMAIN inventories' \subseteq DOMAIN inventories \cup {u}
      /\ DOMAIN inventories \subseteq DOMAIN inventories'
      /\ \A s \in DOMAIN inventories \ {u} : inventories'[s] = inventories[s]
  BY DEF ListDefinitions, ListContentTemplates, ListDdmTemplates, GroupByStructure, Noted, Becomes
<1>6. ASSUME NEW s \in DOMAIN unit \ {u} PROVE SitePart(s)'
  BY <1>3, <1>5 DEF SitePart, WholeOf, Refuses
<1>7. SitePart(u)'
  <2>1. CASE ListDefinitions(u)
    <3>1. CASE Refuses(u, "definitions")
      BY <1>3, <2>1, <3>1 DEF ListDefinitions, Becomes, SitePart, Refuses
    <3>2. CASE ~Refuses(u, "definitions")
      <4>1. /\ inventories' = Noted(inventories, u, [d \in report.structures[u] |-> {}])
            /\ unit' = [unit EXCEPT ![u] = IF report.withTemplates THEN "templates" ELSE "done"]
        BY <2>1, <3>2 DEF ListDefinitions, Becomes
      <4>2. u \in DOMAIN inventories' /\ inventories'[u] = [d \in report.structures[u] |-> {}]
        BY <4>1 DEF Noted
      <4>3. ~report.withTemplates => WholeOf(u)'
        BY <4>2, <1>3 DEF WholeOf
      <4> QED
        BY <4>1, <4>2, <4>3, <1>3, <3>2 DEF SitePart, Refuses
    <3> QED
      BY <3>1, <3>2
  <2>2. ASSUME NEW rows, inventories' = GroupByStructure(u, rows), rows \subseteq report.templates[u], unit'[u] = "done",
               u \in DOMAIN inventories,
               Refuses(u, "templates") \/ Cardinality({t.headless : t \in report.templates[u]}) < 2 => rows = report.templates[u]
        PROVE  SitePart(u)'
    <3>1. u \in DOMAIN inventories'
          /\ inventories'[u] = [d \in report.structures[u] |-> {t.id : t \in {t \in rows : t.structure = d}}]
      BY <2>2 DEF GroupByStructure, Noted
    <3>2. WholeOf(u)'
      <4> SUFFICES ASSUME NEW d \in report.structures[u]
                   PROVE  /\ inventories'[u][d] \subseteq {t.id : t \in {t \in report.templates[u] : t.structure = d}}
                          /\ Refuses(u, "templates") \/ Cardinality({t.headless : t \in report.templates[u]}) < 2
                             => inventories'[u][d] = {t.id : t \in {t \in report.templates[u] : t.structure = d}}
        BY <1>3 DEF WholeOf, Refuses
      <4>1. inventories'[u][d] = {t.id : t \in {t \in rows : t.structure = d}}
        BY <3>1
      <4> QED
        BY <4>1, <2>2
    <3> QED
      BY <3>1, <3>2, <2>2, <1>3 DEF SitePart, Refuses
  <2>3. CASE ListContentTemplates(u)
    <3> DEFINE rows == {t \in report.templates[u] : t.headless}
    <3>1. unit[u] = "templates"
      BY <2>3 DEF ListContentTemplates
    <3>2. u \in DOMAIN inventories /\ ~Refuses(u, "definitions")
      BY <3>1, <1>3 DEF SitePart
    <3>3. CASE Refuses(u, "templates") \/ rows = {}
      <4>1. unit' = [unit EXCEPT ![u] = "ddm"] /\ inventories' = inventories
        BY <2>3, <3>3 DEF ListContentTemplates, Becomes
      <4>2. Refuses(u, "templates") \/ \A t \in report.templates[u] : ~t.headless
        BY <3>3
      <4> QED
        BY <4>1, <4>2, <3>2, <1>3 DEF SitePart, Refuses
    <3>4. CASE ~(Refuses(u, "templates") \/ rows = {})
      <4>1. unit' = [unit EXCEPT ![u] = "done"] /\ inventories' = GroupByStructure(u, rows)
        BY <2>3, <3>4 DEF ListContentTemplates, Becomes
      <4>2. PICK a \in report.templates[u] : a.headless
        BY <3>4
      <4>3. ASSUME Cardinality({t.headless : t \in report.templates[u]}) < 2 PROVE rows = report.templates[u]
        <5>1. \A t \in report.templates[u] : t.headless
          BY <4>2, <4>3, <1>4, OneHeadless
        <5> QED
          BY <5>1
      <4>4. rows \subseteq report.templates[u] /\ unit'[u] = "done"
        BY <4>1
      <4> HIDE DEF rows
      <4> QED
        BY <4>1, <4>3, <4>4, <2>2, <3>2, <3>4
    <3> QED
      BY <3>3, <3>4
  <2>4. CASE ListDdmTemplates(u)
    <3>1. unit[u] = "ddm" /\ unit' = [unit EXCEPT ![u] = "done"] /\ inventories' = GroupByStructure(u, report.templates[u])
      BY <2>4 DEF ListDdmTemplates, Becomes
    <3>2. u \in DOMAIN inventories
      BY <3>1, <1>3 DEF SitePart
    <3> QED
      BY <3>1, <3>2, <2>2
  <2> QED
    BY <2>1, <2>3, <2>4
<1>8. InventoryPart'
  BY <1>1, <1>3, <1>5, <1>6, <1>7 DEF InventoryPart
<1> QED
  BY <1>2, <1>8 DEF ReportInv

\* Each place of two lists, one after the other.
LEMMA Joined ==
  ASSUME NEW S, NEW p \in Seq(S), NEW q \in Seq(S)
  PROVE  /\ p \o q \in Seq(S) /\ Len(p \o q) = Len(p) + Len(q)
         /\ \A i \in 1 .. Len(p) : (p \o q)[i] = p[i]
         /\ \A i \in 1 .. Len(q) : (p \o q)[Len(p) + i] = q[i]
OBVIOUS

\* A page put after what was read of a list is a longer beginning of it, and all of it when the page is not full.
LEMMA PageAfter ==
  ASSUME NEW all \in Seq(STRING), NEW k \in Nat, NEW n \in Nat \ {0}
  PROVE  LET rows == SubSeq(all, k + 1, IF k + n < Len(all) THEN k + n ELSE Len(all))
         IN  /\ rows \in Seq(STRING)
             /\ k <= Len(all) =>
                  IF Len(rows) < n THEN SubSeq(all, 1, k) \o rows = all
                  ELSE k + n <= Len(all) /\ SubSeq(all, 1, k) \o rows = SubSeq(all, 1, k + n)
<1> DEFINE m == IF k + n < Len(all) THEN k + n ELSE Len(all)
           rows == SubSeq(all, k + 1, m)
           first == SubSeq(all, 1, k)
<1>1. m \in Nat /\ m <= Len(all) /\ Len(all) \in Nat /\ (m = k + n \/ m = Len(all)) /\ m <= k + n
  OBVIOUS
<1> HIDE DEF m
<1>2. rows \in Seq(STRING)
  BY <1>1
<1>3. ASSUME k <= Len(all)
      PROVE  IF Len(rows) < n THEN first \o rows = all
             ELSE k + n <= Len(all) /\ first \o rows = SubSeq(all, 1, k + n)
  <2>1. k <= m
    BY <1>1, <1>3 DEF m
  <2>2. first \in Seq(STRING) /\ Len(first) = k /\ \A i \in 1 .. k : first[i] = all[i]
    BY <1>1, <1>3
  <2>3. Len(rows) = m - k /\ \A i \in 1 .. m - k : rows[i] = all[k + i]
    BY <1>1, <1>3, <2>1
  <2>4. /\ first \o rows \in Seq(STRING) /\ Len(first \o rows) = m
        /\ \A i \in 1 .. m : (first \o rows)[i] = all[i]
    <3> HIDE DEF rows, first
    <3>1. /\ first \o rows \in Seq(STRING) /\ Len(first \o rows) = Len(first) + Len(rows)
          /\ \A i \in 1 .. Len(first) : (first \o rows)[i] = first[i]
          /\ \A i \in 1 .. Len(rows) : (first \o rows)[Len(first) + i] = rows[i]
      <4>1. PICK p : p = first
        OBVIOUS
      <4>2. PICK q : q = rows
        OBVIOUS
      <4>3. p \in Seq(STRING) /\ q \in Seq(STRING)
        BY <4>1, <4>2, <2>2, <1>2
      <4>4. /\ p \o q \in Seq(STRING) /\ Len(p \o q) = Len(p) + Len(q)
            /\ \A i \in 1 .. Len(p) : (p \o q)[i] = p[i]
            /\ \A i \in 1 .. Len(q) : (p \o q)[Len(p) + i] = q[i]
        BY <4>3, Joined
      <4> QED
        BY <4>1, <4>2, <4>4
    <3>2. Len(first \o rows) = m
      BY <3>1, <2>1, <2>2, <2>3, <1>1
    <3>3. ASSUME NEW i \in 1 .. m, i <= k PROVE (first \o rows)[i] = all[i]
      <4>1. i \in 1 .. Len(first)
        BY <3>3, <2>2, <1>1
      <4> QED
        BY <4>1, <3>1, <2>2
    <3>4. ASSUME NEW i \in 1 .. m, ~(i <= k) PROVE (first \o rows)[i] = all[i]
      <4>1. i - k \in 1 .. m - k /\ k + (i - k) = i
        BY <3>4, <1>1, <2>1
      <4>2. (first \o rows)[Len(first) + (i - k)] = rows[i - k]
        BY <4>1, <3>1, <2>3
      <4>3. rows[i - k] = all[k + (i - k)]
        BY <4>1, <2>3
      <4> QED
        BY <4>1, <4>2, <4>3, <2>2
    <3> QED
      BY <3>1, <3>2, <3>3, <3>4
  <2>5. SubSeq(all, 1, m) \in Seq(STRING) /\ Len(SubSeq(all, 1, m)) = m /\ \A i \in 1 .. m : SubSeq(all, 1, m)[i] = all[i]
    BY <1>1
  <2>6. first \o rows = SubSeq(all, 1, m)
    <3> HIDE DEF rows, first
    <3> QED
      BY <2>4, <2>5, <1>1
  <2>7. CASE Len(rows) < n
    <3>1. m = Len(all)
      BY <2>7, <2>3, <1>1, <2>1
    <3>2. SubSeq(all, 1, Len(all)) = all
      OBVIOUS
    <3> HIDE DEF rows, first
    <3> QED
      BY <3>1, <3>2, <2>6, <2>7
  <2>8. CASE ~(Len(rows) < n)
    <3>1. m = k + n
      BY <2>8, <2>3, <1>1, <2>1
    <3> HIDE DEF rows, first
    <3> QED
      BY <3>1, <2>6, <2>8, <1>1
  <2> QED
    BY <2>7, <2>8
<1> QED
  BY <1>2, <1>3 DEF m

\* What the invariant says while contents of folders are listed.
LEMMA RowsNow1 ==
  ASSUME ReportInv, repPc = "rows"
  PROVE  /\ report.op = "folders" /\ DOMAIN pageRows = DOMAIN unit /\ DOMAIN tally = DOMAIN unit
         /\ (\A t \in DOMAIN unit : TaskPart(t)) /\ MapPart /\ PoolPart
         /\ report \in Reports /\ \A f \in DOMAIN filed : filed[f] \in Seq(STRING)
BY DEF ReportInv, ReportTypes, RowsPart

\* What a step of the list of rows has to keep.
LEMMA RowsKeep ==
  ASSUME ReportInv, Still, repPc = "rows", repPc' = "rows", DOMAIN pageRows' = DOMAIN unit', DOMAIN tally' = DOMAIN unit',
         \A t \in DOMAIN unit' : TaskPart(t)', MapPart', PoolPart'
  PROVE  ReportInv'
<1>1. ReportTypes' /\ report' = report
  BY ReportStays DEF Still
<1>2. report.op = "folders"
  BY RowsNow1
<1>3. SitesPart' /\ InventoryPart'
  BY <1>1, <1>2 DEF SitesPart, InventoryPart
<1>4. RowsPart'
  BY DEF RowsPart
<1> QED
  BY <1>1, <1>3, <1>4 DEF ReportInv

\* A task that comes to no place leaves the places as they are.
LEMMA PoolStays ==
  ASSUME PoolPart, NEW t \in DOMAIN unit, NEW p, Becomes(t, p), unit[t] # "queued", p # "reading", places' = places
  PROVE  PoolPart'
<1>1. UnitsIn({"reading"})' \subseteq UnitsIn({"reading"}) /\ DOMAIN unit' = DOMAIN unit
  BY DEF Becomes, UnitsIn
<1>2. /\ IsFiniteSet(UnitsIn({"reading"})) /\ Cardinality(UnitsIn({"reading"})) <= ReportPool /\ ReportPool \in Nat
  BY ReportAssumption DEF PoolPart
<1>3. IsFiniteSet(UnitsIn({"reading"})') /\ Cardinality(UnitsIn({"reading"})') <= Cardinality(UnitsIn({"reading"}))
  BY <1>1, <1>2, FS_Subset
<1>4. Cardinality(UnitsIn({"reading"})') \in Nat /\ Cardinality(UnitsIn({"reading"})) \in Nat
  BY <1>2, <1>3, FS_CardinalityType
<1>5. \A i \in 1 .. Len(places) : places[i] \in DOMAIN unit /\ unit'[places[i]] = "queued"
  BY DEF PoolPart, Becomes
<1>6. IsFiniteSet(UnitsIn({"reading"}))' /\ (Cardinality(UnitsIn({"reading"})) <= ReportPool)'
  BY <1>2, <1>3, <1>4
<1> QED
  BY <1>1, <1>5, <1>6 DEF PoolPart

\* A task of the pool starts, or waits for a place.
LEMMA StartTaskKeeps ==
  ASSUME ReportInv, NEW t \in DOMAIN unit, StartTask(t)
  PROVE  ReportInv'
<1>1. /\ repPc = "rows" /\ repPc' = "rows" /\ unit[t] = "waiting" /\ unit' = [unit EXCEPT ![t] = "queued"]
      /\ places' = Append(places, t) /\ Still /\ UNCHANGED <<pageRows, structureMap, tally>>
  BY DEF StartTask, Becomes
<1>2. /\ DOMAIN pageRows = DOMAIN unit /\ DOMAIN tally = DOMAIN unit
      /\ (\A u \in DOMAIN unit : TaskPart(u)) /\ MapPart /\ PoolPart
  BY <1>1, RowsNow1
<1>3. ASSUME NEW u \in DOMAIN unit PROVE TaskPart(u)'
  BY <1>1, <1>2 DEF TaskPart, Stays, RowsRight, Still, Unknown
<1>4. MapPart'
  BY <1>1, <1>2 DEF MapPart, Still
<1>5. PoolPart'
  <2>1. UnitsIn({"reading"})' = UnitsIn({"reading"})
    BY <1>1 DEF UnitsIn
  <2>2. /\ places \in Seq(DOMAIN unit) /\ (\A i \in 1 .. Len(places) : unit[places[i]] = "queued")
        /\ \A i, j \in 1 .. Len(places) : places[i] = places[j] => i = j
    BY <1>2 DEF PoolPart
  <2>3. /\ places' \in Seq(DOMAIN unit) /\ Len(places') = Len(places) + 1 /\ Len(places) \in Nat
        /\ places'[Len(places) + 1] = t /\ \A i \in 1 .. Len(places) : places'[i] = places[i]
    BY <1>1, <2>2
  <2>4. \A i \in 1 .. Len(places) : places[i] # t /\ places[i] \in DOMAIN unit
    BY <1>1, <2>2
  <2>5. \A i \in 1 .. Len(places') : i = Len(places) + 1 \/ i \in 1 .. Len(places)
    BY <2>3
  <2>6. \A i \in 1 .. Len(places') : unit'[places'[i]] = "queued"
    BY <2>2, <2>3, <2>4, <2>5, <1>1
  <2>7. \A i, j \in 1 .. Len(places') : places'[i] = places'[j] => i = j
    BY <2>2, <2>3, <2>4, <2>5
  <2>8. DOMAIN unit' = DOMAIN unit
    BY <1>1
  <2> QED
    BY <2>1, <2>3, <2>6, <2>7, <2>8, <1>2 DEF PoolPart
<1> QED
  BY <1>1, <1>2, <1>3, <1>4, <1>5, RowsKeep

\* The first that waits takes the place that is free.
LEMMA TakePlaceKeeps == ReportInv /\ TakePlace => ReportInv'
<1> SUFFICES ASSUME ReportInv, TakePlace PROVE ReportInv'
  OBVIOUS
<1> DEFINE t == Head(places)
<1>1. /\ repPc = "rows" /\ repPc' = "rows" /\ unit' = [unit EXCEPT ![t] = "reading"] /\ places # <<>>
      /\ places' = Tail(places) /\ Still /\ UNCHANGED <<pageRows, structureMap, tally>>
      /\ Cardinality(UnitsIn({"reading"})) < ReportPool
  BY DEF TakePlace, Becomes
<1>2. /\ DOMAIN pageRows = DOMAIN unit /\ DOMAIN tally = DOMAIN unit
      /\ (\A u \in DOMAIN unit : TaskPart(u)) /\ MapPart /\ PoolPart
  BY <1>1, RowsNow1
<1>3. /\ places \in Seq(DOMAIN unit) /\ (\A i \in 1 .. Len(places) : unit[places[i]] = "queued")
      /\ \A i, j \in 1 .. Len(places) : places[i] = places[j] => i = j
  BY <1>2 DEF PoolPart
<1>4. /\ Len(places) \in Nat /\ 1 \in 1 .. Len(places) /\ t = places[1] /\ t \in DOMAIN unit /\ unit[t] = "queued"
      /\ places' \in Seq(DOMAIN unit) /\ Len(places') = Len(places) - 1
      /\ \A i \in 1 .. Len(places') : places'[i] = places[i + 1] /\ i + 1 \in 1 .. Len(places)
  BY <1>1, <1>3
<1> HIDE DEF t
<1>5. ASSUME NEW u \in DOMAIN unit PROVE TaskPart(u)'
  BY <1>1, <1>2, <1>4 DEF TaskPart, Stays, RowsRight, Still, Unknown
<1>6. MapPart'
  BY <1>1, <1>2 DEF MapPart, Still
<1>7. PoolPart'
  <2>1. UnitsIn({"reading"})' = UnitsIn({"reading"}) \cup {t}
    BY <1>1, <1>4 DEF UnitsIn
  <2>2. IsFiniteSet(UnitsIn({"reading"})) /\ ReportPool \in Nat /\ Cardinality(UnitsIn({"reading"})) \in Nat
    BY <1>2, ReportAssumption, FS_CardinalityType DEF PoolPart
  <2>3. IsFiniteSet(UnitsIn({"reading"}) \cup {t}) /\ Cardinality(UnitsIn({"reading"}) \cup {t}) <= Cardinality(UnitsIn({"reading"})) + 1
    BY <2>2, FS_AddElement
  <2>4. Cardinality(UnitsIn({"reading"}) \cup {t}) <= ReportPool
    BY <2>2, <2>3, <1>1, FS_CardinalityType
  <2>5. ASSUME NEW i \in 1 .. Len(places')
        PROVE  places'[i] # t /\ places'[i] \in DOMAIN unit /\ unit[places'[i]] = "queued"
    <3>1. i \in Nat /\ i # 0 /\ i + 1 \in 1 .. Len(places) /\ i + 1 # 1 /\ places'[i] = places[i + 1]
      BY <1>4
    <3>2. places[i + 1] # places[1]
      BY <1>3, <1>4, <3>1
    <3>3. places[i + 1] \in DOMAIN unit
      BY <1>3, <3>1
    <3> QED
      BY <1>3, <1>4, <3>1, <3>2, <3>3
  <2>6. \A i, j \in 1 .. Len(places') : places'[i] = places'[j] => i = j
    BY <1>3, <1>4
  <2>7. DOMAIN unit' = DOMAIN unit /\ \A i \in 1 .. Len(places') : unit'[places'[i]] = "queued"
    BY <1>1, <2>5
  <2>8. (IsFiniteSet(UnitsIn({"reading"})) /\ Cardinality(UnitsIn({"reading"})) <= ReportPool)'
    BY <2>1, <2>3, <2>4
  <2> QED
    BY <2>6, <2>7, <2>8, <1>4 DEF PoolPart
<1>8. DOMAIN unit' = DOMAIN unit
  BY <1>1
<1> QED
  BY <1>1, <1>2, <1>5, <1>6, <1>7, <1>8, RowsKeep

\* A page of the contents of a folder is read.
LEMMA ReadRowsKeeps ==
  ASSUME ReportInv, NEW t \in DOMAIN unit, ReadRows(t)
  PROVE  ReportInv'
<1> DEFINE from == pageRows[t].start
           all == filed[t[2]]
           rows == SubSeq(all, from + 1, IF from + ReportPage < Len(all) THEN from + ReportPage ELSE Len(all))
           read == pageRows[t].rows \o rows
<1>1. /\ repPc = "rows" /\ repPc' = "rows" /\ unit[t] = "reading" /\ Still /\ UNCHANGED <<places, structureMap, tally>>
      /\ IF Len(rows) < ReportPage
         THEN /\ Becomes(t, "hydrating")
              /\ pageRows' = [pageRows EXCEPT ![t] = [start |-> from, rows |-> read, todo |-> ToSet(read) \ DOMAIN structureMap]]
         ELSE unit' = unit /\ pageRows' = [pageRows EXCEPT ![t].start = from + ReportPage, ![t].rows = read]
  BY DEF ReadRows
<1>2. /\ DOMAIN pageRows = DOMAIN unit /\ DOMAIN tally = DOMAIN unit
      /\ (\A u \in DOMAIN unit : TaskPart(u)) /\ MapPart /\ PoolPart
      /\ \A f \in DOMAIN filed : filed[f] \in Seq(STRING)
  BY <1>1, RowsNow1
<1>3. /\ t[2] \in DOMAIN filed /\ from \in Nat /\ pageRows[t].rows \in Seq(STRING) /\ all \in Seq(STRING)
      /\ ReportPage \in Nat \ {0} /\ DOMAIN pageRows[t] = {"start", "rows", "todo"}
      /\ Stays(t) => from <= Len(all) /\ pageRows[t].rows = SubSeq(all, 1, from)
  BY <1>1, <1>2, ReportAssumption DEF TaskPart
<1>4. /\ rows \in Seq(STRING)
      /\ Stays(t) => IF Len(rows) < ReportPage THEN read = all
                     ELSE from + ReportPage <= Len(all) /\ read = SubSeq(all, 1, from + ReportPage)
  <2> HIDE DEF from, all
  <2>1. from \in Nat /\ all \in Seq(STRING) /\ ReportPage \in Nat \ {0}
    BY <1>3
  <2>2. /\ rows \in Seq(STRING)
        /\ from <= Len(all) => IF Len(rows) < ReportPage THEN SubSeq(all, 1, from) \o rows = all
                               ELSE from + ReportPage <= Len(all) /\ SubSeq(all, 1, from) \o rows = SubSeq(all, 1, from + ReportPage)
    BY <2>1, PageAfter
  <2> QED
    BY <2>2, <1>3
<1>5. read \in Seq(STRING)
  BY <1>3, <1>4
<1> HIDE DEF rows, read
<1>6. ASSUME NEW u \in DOMAIN unit, u # t PROVE TaskPart(u)'
  <2>1. unit'[u] = unit[u] /\ pageRows'[u] = pageRows[u]
    BY <1>1, <1>2, <1>6 DEF Becomes
  <2> QED
    BY <2>1, <1>1, <1>2 DEF TaskPart, Stays, RowsRight, Still, Unknown
<1>7. MapPart'
  BY <1>1, <1>2 DEF MapPart, Still
<1>8. CASE Len(rows) < ReportPage
  <2>1. /\ unit' = [unit EXCEPT ![t] = "hydrating"]
        /\ pageRows' = [pageRows EXCEPT ![t] = [start |-> from, rows |-> read, todo |-> ToSet(read) \ DOMAIN structureMap]]
    BY <1>1, <1>8 DEF Becomes
  <2>2. TaskPart(t)'
    <3>1. /\ unit'[t] = "hydrating" /\ pageRows'[t].start = from /\ pageRows'[t].rows = read
          /\ pageRows'[t].todo = ToSet(read) \ DOMAIN structureMap /\ DOMAIN pageRows'[t] = {"start", "rows", "todo"}
      BY <2>1, <1>2
    <3>2. ASSUME Stays(t) PROVE read = all /\ \A i \in DOMAIN all : all[i] \in DOMAIN structureMap \cup (ToSet(read) \ DOMAIN structureMap)
      <4>1. read = all
        BY <3>2, <1>4, <1>8
      <4> QED
        BY <4>1 DEF ToSet
    <3> QED
      BY <3>1, <3>2, <1>3, <1>5, <1>1 DEF TaskPart, Stays, Still
  <2>3. PoolPart'
    BY <1>1, <1>2, <2>1, PoolStays DEF Becomes
  <2>4. DOMAIN unit' = DOMAIN unit /\ DOMAIN pageRows' = DOMAIN pageRows
    BY <2>1
  <2> QED
    BY <1>1, <1>2, <1>6, <1>7, <2>2, <2>3, <2>4, RowsKeep
<1>9. CASE ~(Len(rows) < ReportPage)
  <2>1. unit' = unit /\ pageRows' = [pageRows EXCEPT ![t].start = from + ReportPage, ![t].rows = read]
    BY <1>1, <1>9
  <2>2. TaskPart(t)'
    <3>1. /\ unit'[t] = "reading" /\ pageRows'[t].start = from + ReportPage /\ pageRows'[t].rows = read
          /\ DOMAIN pageRows'[t] = {"start", "rows", "todo"}
      BY <2>1, <1>1, <1>2, <1>3
    <3>2. from + ReportPage \in Nat
      BY <1>3
    <3> QED
      BY <3>1, <3>2, <1>3, <1>4, <1>5, <1>9, <1>1 DEF TaskPart, Stays, Still
  <2>3. PoolPart'
    BY <1>1, <1>2, <2>1 DEF PoolPart, UnitsIn
  <2>4. DOMAIN pageRows' = DOMAIN pageRows
    BY <2>1
  <2> QED
    BY <1>1, <1>2, <1>6, <1>7, <2>1, <2>2, <2>3, <2>4, RowsKeep
<1> QED
  BY <1>8, <1>9

\* A structure that was not known yet is asked for by its key.
LEMMA HydrateKeeps ==
  ASSUME ReportInv, NEW t \in DOMAIN unit, Hydrate(t)
  PROVE  ReportInv'
<1>1. /\ repPc = "rows" /\ repPc' = "rows" /\ unit[t] = "hydrating" /\ Still /\ UNCHANGED <<places, tally, unit>>
  BY DEF Hydrate
<1>2. PICK s \in pageRows[t].todo :
        /\ structureMap' = IF s \in report.readable THEN Noted(structureMap, s, s) ELSE structureMap
        /\ pageRows' = [pageRows EXCEPT ![t].todo = @ \ {s}]
  BY DEF Hydrate
<1>3. /\ DOMAIN pageRows = DOMAIN unit /\ DOMAIN tally = DOMAIN unit
      /\ (\A u \in DOMAIN unit : TaskPart(u)) /\ MapPart /\ PoolPart
  BY <1>1, RowsNow1
<1>4. /\ DOMAIN structureMap' = IF s \in report.readable THEN {s} \cup DOMAIN structureMap ELSE DOMAIN structureMap
      /\ \A x \in DOMAIN structureMap' : structureMap'[x] = x
  BY <1>2, <1>3 DEF Noted, MapPart
<1>5. MapPart'
  BY <1>1, <1>3, <1>4 DEF MapPart, Still
<1>6. PoolPart'
  BY <1>1, <1>3 DEF PoolPart, UnitsIn
<1>7. ASSUME NEW u \in DOMAIN unit PROVE TaskPart(u)'
  <2>1. /\ pageRows'[u].start = pageRows[u].start /\ pageRows'[u].rows = pageRows[u].rows
        /\ pageRows'[u].todo = IF u = t THEN pageRows[u].todo \ {s} ELSE pageRows[u].todo
        /\ DOMAIN pageRows'[u] = {"start", "rows", "todo"}
    BY <1>2, <1>3 DEF TaskPart
  <2>2. DOMAIN structureMap \subseteq DOMAIN structureMap' /\ (s \in DOMAIN structureMap' \/ s \notin report.readable)
    BY <1>4
  <2> QED
    BY <2>1, <2>2, <1>1, <1>3 DEF TaskPart, Stays, RowsRight, Still, Unknown
<1>8. DOMAIN pageRows' = DOMAIN pageRows
  BY <1>2
<1> QED
  BY <1>1, <1>3, <1>5, <1>6, <1>7, <1>8, RowsKeep

\* The rows of a folder are counted under their structures.
LEMMA CountRowsKeeps ==
  ASSUME ReportInv, NEW t \in DOMAIN unit, CountRows(t)
  PROVE  ReportInv'
<1>1. /\ repPc = "rows" /\ repPc' = "rows" /\ unit[t] = "hydrating" /\ Still /\ UNCHANGED <<places, pageRows, structureMap>>
      /\ pageRows[t].todo = {} /\ unit' = [unit EXCEPT ![t] = "done"]
      /\ tally' = [tally EXCEPT ![t] = [i \in DOMAIN pageRows[t].rows |-> KeyIn(pageRows[t].rows[i])]]
  BY DEF CountRows, Becomes
<1>2. /\ DOMAIN pageRows = DOMAIN unit /\ DOMAIN tally = DOMAIN unit
      /\ (\A u \in DOMAIN unit : TaskPart(u)) /\ MapPart /\ PoolPart
      /\ \A f \in DOMAIN filed : filed[f] \in Seq(STRING)
  BY <1>1, RowsNow1
<1>3. MapPart'
  BY <1>1, <1>2 DEF MapPart, Still
<1>4. PoolPart'
  BY <1>1, <1>2, PoolStays DEF Becomes
<1>5. ASSUME NEW u \in DOMAIN unit, u # t PROVE TaskPart(u)'
  <2>1. unit'[u] = unit[u] /\ tally'[u] = tally[u]
    BY <1>1, <1>2, <1>5
  <2> QED
    BY <2>1, <1>1, <1>2 DEF TaskPart, Stays, RowsRight, Still, Unknown
<1>6. TaskPart(t)'
  <2>1. ASSUME Stays(t) PROVE RowsRight(t)'
    <3> DEFINE all == filed[t[2]]
    <3>1. /\ pageRows[t].rows = all /\ all \in Seq(STRING) /\ t[2] \in DOMAIN filed
          /\ \A i \in DOMAIN all : all[i] \in DOMAIN structureMap \/ all[i] \notin report.readable
      BY <2>1, <1>1, <1>2 DEF TaskPart
    <3>2. tally'[t] = [i \in DOMAIN all |-> KeyIn(all[i])]
      BY <3>1, <1>1, <1>2
    <3>3. ASSUME NEW i \in DOMAIN all
          PROVE  KeyIn(all[i]) = IF all[i] \in report.defined \cup report.readable THEN <<"key", all[i]>> ELSE Unknown(all[i])
      <4>1. all[i] \in DOMAIN structureMap <=> all[i] \in report.defined \cup report.readable
        BY <3>1, <1>2 DEF MapPart
      <4>2. all[i] \in DOMAIN structureMap => structureMap[all[i]] = all[i]
        BY <1>2 DEF MapPart
      <4> QED
        BY <4>1, <4>2 DEF KeyIn
    <3>4. DOMAIN all = 1 .. Len(all) /\ Len(all) \in Nat
      BY <3>1
    <3>5. DOMAIN tally'[t] = DOMAIN all
      BY <3>2
    <3>6. tally'[t] \in Seq({<<"key", x>> : x \in STRING} \cup {Unknown(x) : x \in STRING})
      <4>1. ASSUME NEW i \in 1 .. Len(all) PROVE KeyIn(all[i]) \in {<<"key", x>> : x \in STRING} \cup {Unknown(x) : x \in STRING}
        <5>1. all[i] \in STRING
          BY <3>1, <4>1
        <5> QED
          BY <5>1, <3>3, <3>4
      <4> QED
        BY <3>2, <3>4, <4>1
    <3>7. Len(tally'[t]) = Len(all)
      BY <3>4, <3>5, <3>6
    <3>8. filed' = filed /\ report' = report
      BY <1>1 DEF Still
    <3> QED
      BY <3>2, <3>3, <3>5, <3>7, <3>8 DEF RowsRight, Unknown
  <2> QED
    BY <2>1, <1>1, <1>2 DEF TaskPart, Stays, Still
<1>7. DOMAIN unit' = DOMAIN unit /\ DOMAIN tally' = DOMAIN tally
  BY <1>1
<1> QED
  BY <1>1, <1>2, <1>3, <1>4, <1>5, <1>6, <1>7, RowsKeep

\* A report starts: its units are what is asked for, and none is under way.
LEMMA StartReportKeeps == ReportInv /\ StartReport => ReportInv'
<1> SUFFICES ASSUME ReportInv, StartReport PROVE ReportInv'
  OBVIOUS
<1>1. /\ repPc = "start" /\ Still /\ UNCHANGED <<CountVars, places, inventories>> /\ report' = report
      /\ places = <<>> /\ skippedSites = <<>> /\ inventories = <<>> /\ report \in Reports
      /\ DOMAIN branches = DOMAIN report.tree /\ DOMAIN filed = DOMAIN report.articles
      /\ \A f \in DOMAIN filed : filed[f] \in Seq(STRING)
  BY DEF StartReport, ReportInv, ReportTypes, Still
<1>2. report.op \in {"sites", "folders", "structures"} /\ DOMAIN filed = DOMAIN branches
  BY <1>1, TheReport
<1>3. CASE report.op = "sites"
  <2>1. repPc' = "count" /\ unit' = [s \in KeptSites |-> "waiting"]
    BY <1>3 DEF StartReport
  <2>2. ReportTypes'
    BY <1>1, <1>3, <2>1 DEF ReportTypes, Still
  <2>3. SitesPart'
    <3>1. KeptSites' = KeptSites
      BY <1>1 DEF KeptSites
    <3>2. UnitsIn({"skipped"})' = {} /\ ToSet(skippedSites') = {}
      BY <2>1, <1>1 DEF UnitsIn, ToSet, CountVars
    <3>3. skippedSites' = <<>> /\ skippedSites' \in Seq(KeptSites) /\ IsInjective(skippedSites')
      BY <1>1 DEF CountVars, IsInjective
    <3> QED
      BY <2>1, <3>1, <3>2, <3>3 DEF SitesPart
  <2> QED
    BY <1>1, <1>3, <2>1, <2>2, <2>3 DEF ReportInv, RowsPart, InventoryPart
<1>4. CASE report.op = "structures"
  <2>1. repPc' = "inventory" /\ unit' = [s \in ToSet(report.sites) |-> "waiting"]
    BY <1>4 DEF StartReport
  <2>2. ReportTypes'
    BY <1>1, <1>4, <2>1 DEF ReportTypes, Still
  <2>3. DOMAIN inventories' = {}
    BY <1>1
  <2>4. InventoryPart'
    BY <1>1, <2>1, <2>3 DEF InventoryPart, SitePart
  <2> QED
    BY <1>1, <1>4, <2>1, <2>2, <2>4 DEF ReportInv, RowsPart, SitesPart
<1>5. CASE report.op = "folders"
  <2>1. /\ repPc' = "rows"
        /\ unit' = [t \in UNION {{g} \X Below(report.selected[g]) : g \in DOMAIN report.selected} |-> "waiting"]
        /\ pageRows' = [t \in DOMAIN unit' |-> NoRows] /\ tally' = [t \in DOMAIN unit' |-> <<>>]
        /\ structureMap' = [s \in report.defined |-> s]
    BY <1>5 DEF StartReport
  <2>2. ReportTypes'
    BY <1>1, <1>5, <2>1 DEF ReportTypes, Still
  <2>3. ASSUME NEW t \in DOMAIN unit' PROVE TaskPart(t)'
    <3>1. t[2] \in DOMAIN branches
      <4>1. PICK g \in DOMAIN report.selected : t \in {g} \X Below(report.selected[g])
        BY <2>1, <2>3
      <4>2. t[2] \in Below(report.selected[g])
        BY <4>1
      <4> QED
        BY <4>2 DEF Below
    <3>2. filed[t[2]] \in Seq(STRING) /\ t[2] \in DOMAIN filed
      BY <3>1, <1>1, <1>2
    <3>3. SubSeq(filed[t[2]], 1, 0) = <<>> /\ 0 <= Len(filed[t[2]])
      BY <3>2
    <3>4. unit'[t] = "waiting" /\ pageRows'[t] = NoRows /\ filed' = filed
      BY <2>1, <2>3, <1>1 DEF Still
    <3> QED
      BY <3>2, <3>3, <3>4 DEF TaskPart, Stays, NoRows
  <2>4. MapPart'
    BY <2>1, <1>1 DEF MapPart
  <2>5. PoolPart'
    <3>1. UnitsIn({"reading"})' = {}
      BY <2>1 DEF UnitsIn
    <3>2. places' = <<>> /\ places' \in Seq(DOMAIN unit') /\ Len(places') = 0
      BY <1>1
    <3>3. IsFiniteSet({}) /\ Cardinality({}) = 0 /\ ReportPool \in Nat
      BY FS_EmptySet, ReportAssumption
    <3>4. (IsFiniteSet(UnitsIn({"reading"})) /\ Cardinality(UnitsIn({"reading"})) <= ReportPool)'
      BY <3>1, <3>3
    <3> QED
      BY <3>2, <3>4 DEF PoolPart
  <2>6. RowsPart'
    BY <2>1, <2>3, <2>4, <2>5 DEF RowsPart
  <2> QED
    BY <1>1, <1>5, <2>1, <2>2, <2>6 DEF ReportInv, InventoryPart, SitesPart
<1> QED
  BY <1>2, <1>3, <1>4, <1>5

\* A report ends, or fails.
LEMMA ReportEndsKeeps == ReportInv /\ (ReportEnds \/ ReportFails) => ReportInv'
<1> SUFFICES ASSUME ReportInv, ReportEnds \/ ReportFails PROVE ReportInv'
  OBVIOUS
<1>1. /\ Still /\ UNCHANGED <<unit, CountVars, StructVars, inventories>> /\ report' = report
      /\ repPc \in {"count", "rows", "inventory"}
      /\ \/ repPc' = "done" /\ UnitsIn({"done", "skipped"}) = DOMAIN unit
         \/ repPc' = "error"
  BY DEF ReportEnds, ReportFails, Still
<1>2. ReportTypes'
  BY <1>1 DEF ReportInv, ReportTypes, UnitsIn, Still
<1>3. \/ repPc = "count" /\ report.op = "sites"
      \/ repPc = "rows" /\ report.op = "folders"
      \/ repPc = "inventory" /\ report.op = "structures"
  BY <1>1 DEF ReportInv, ReportTypes
<1>4. SitesPart'
  BY <1>1, <1>3 DEF ReportInv, SitesPart, KeptSites, CountVars, UnitsIn
<1>5. InventoryPart'
  BY <1>1, <1>3 DEF ReportInv, InventoryPart, SitePart, WholeOf, Refuses
<1>6. RowsPart'
  <2>1. CASE repPc = "rows" /\ repPc' = "done"
    <3>1. /\ DOMAIN pageRows = DOMAIN unit /\ DOMAIN tally = DOMAIN unit
          /\ (\A u \in DOMAIN unit : TaskPart(u)) /\ MapPart /\ PoolPart
      BY <2>1, RowsNow1
    <3>2. \A u \in DOMAIN unit : TaskPart(u)'
      BY <3>1, <1>1 DEF TaskPart, Stays, RowsRight, Unknown, Still, StructVars
    <3>3. MapPart' /\ PoolPart'
      BY <3>1, <1>1 DEF MapPart, PoolPart, StructVars, UnitsIn
    <3> QED
      BY <3>1, <3>2, <3>3, <1>1 DEF RowsPart, StructVars
  <2> QED
    BY <2>1, <1>1, <1>3 DEF RowsPart
<1> QED
  BY <1>2, <1>4, <1>5, <1>6 DEF ReportInv

\* Someone moves a folder: what is in it is shifted, and nothing is said of it any more.
LEMMA EditTreeKeeps == ReportInv /\ EditTree => ReportInv'
<1> SUFFICES ASSUME ReportInv, EditTree PROVE ReportInv'
  OBVIOUS
<1>1. /\ report' = report /\ repPc' = repPc /\ repPc \notin {"done", "error"} /\ unit' = unit
      /\ UNCHANGED <<stacks, counted, skippedSites, places, pageRows, structureMap, tally, inventories>>
  BY DEF EditTree, CountVars, StructVars
<1>2. /\ DOMAIN branches' = DOMAIN branches /\ DOMAIN filed' = DOMAIN filed /\ shifted \subseteq shifted'
      /\ \A f \in DOMAIN filed : f \notin shifted' => filed'[f] = filed[f]
      /\ \A f \in DOMAIN filed : filed'[f] \in Seq(STRING)
  <2>0. \A f \in DOMAIN filed : filed[f] \in Seq(STRING)
    BY DEF ReportInv, ReportTypes
  <2>1. CASE \E f, g \in DOMAIN branches : /\ branches' = [branches EXCEPT ![f].parent = g] /\ shifted' = shifted \cup Below(f)
                                       /\ UNCHANGED filed
    BY <2>0, <2>1
  <2>2. CASE \E f \in DOMAIN filed, s \in report.readable :
               /\ filed' = [filed EXCEPT ![f] = <<s>> \o @] /\ shifted' = shifted \cup {f} /\ UNCHANGED branches
    <3>1. PICK f \in DOMAIN filed, s \in report.readable :
            filed' = [filed EXCEPT ![f] = <<s>> \o @] /\ shifted' = shifted \cup {f} /\ UNCHANGED branches
      BY <2>2
    <3>2. s \in STRING
      BY TheReport DEF ReportInv, ReportTypes
    <3>3. <<s>> \o filed[f] \in Seq(STRING)
      BY <2>0, <3>2
    <3> QED
      BY <2>0, <3>1, <3>3
  <2> QED
    BY <2>1, <2>2 DEF EditTree
<1>3. ReportTypes'
  BY <1>1, <1>2 DEF ReportInv, ReportTypes
<1>4. SitesPart' /\ InventoryPart'
  BY <1>1 DEF ReportInv, SitesPart, InventoryPart, SitePart, WholeOf, Refuses, KeptSites, UnitsIn
<1>5. RowsPart'
  <2>1. CASE repPc = "rows"
    <3>1. /\ DOMAIN pageRows = DOMAIN unit /\ DOMAIN tally = DOMAIN unit
          /\ (\A u \in DOMAIN unit : TaskPart(u)) /\ MapPart /\ PoolPart
      BY <2>1, RowsNow1
    <3>2. ASSUME NEW u \in DOMAIN unit PROVE TaskPart(u)'
      <4>1. TaskPart(u) /\ u[2] \in DOMAIN filed
        BY <3>1 DEF TaskPart
      <4>2. (Stays(u))' => Stays(u) /\ filed'[u[2]] = filed[u[2]]
        BY <4>1, <1>2 DEF Stays
      <4> QED
        BY <4>1, <4>2, <1>1, <1>2 DEF TaskPart, RowsRight, Unknown
    <3>3. MapPart' /\ PoolPart'
      BY <3>1, <1>1 DEF MapPart, PoolPart, UnitsIn
    <3> QED
      BY <3>1, <3>2, <3>3, <1>1 DEF RowsPart
  <2> QED
    BY <2>1, <1>1 DEF RowsPart
<1> QED
  BY <1>3, <1>4, <1>5 DEF ReportInv

\* Every step of a report keeps the invariant.
LEMMA ReportKeeps == ReportInv /\ [ReportNext]_reportVars => ReportInv'
<1> SUFFICES ASSUME ReportInv, [ReportNext]_reportVars PROVE ReportInv'
  OBVIOUS
<1>1. ASSUME NEW u \in DOMAIN unit,
             \/ TakeSite(u) \/ ListRoots(u) \/ SiteCounted(u) \/ SkipSite(u)
             \/ \E r \in IF repPc = "count" THEN DOMAIN stacks[u] ELSE {} : BuildFolderStats(u, r)
      PROVE  ReportInv'
  BY <1>1, CountKeeps
<1>2. ASSUME NEW u \in DOMAIN unit, StartTask(u) \/ ReadRows(u) \/ Hydrate(u) \/ CountRows(u) PROVE ReportInv'
  BY <1>2, StartTaskKeeps, ReadRowsKeeps, HydrateKeeps, CountRowsKeeps
<1>3. ASSUME NEW u \in DOMAIN unit, ListDefinitions(u) \/ ListContentTemplates(u) \/ ListDdmTemplates(u) PROVE ReportInv'
  BY <1>3, InventoryKeeps
<1>4. CASE UNCHANGED reportVars
  <2> USE <1>4 DEF reportVars
  <2>1. ReportTypes'
    BY DEF ReportInv, ReportTypes, UnitsIn
  <2>2. SitesPart' /\ InventoryPart'
    BY DEF ReportInv, SitesPart, InventoryPart, SitePart, WholeOf, Refuses, KeptSites, UnitsIn
  <2>3. MapPart => MapPart'
    BY DEF MapPart
  <2>4. PoolPart => PoolPart'
    BY DEF PoolPart, UnitsIn
  <2>5. ASSUME NEW t, TaskPart(t) PROVE TaskPart(t)'
    BY <2>5 DEF TaskPart, Stays, RowsRight, Unknown
  <2>6. RowsPart'
    BY <2>3, <2>4, <2>5 DEF ReportInv, RowsPart
  <2> QED
    BY <2>1, <2>2, <2>6 DEF ReportInv
<1> QED
  BY <1>1, <1>2, <1>3, <1>4, StartReportKeeps, TakePlaceKeeps, ReportEndsKeeps, EditTreeKeeps DEF ReportNext

(* Whatever sites are asked for, refuse or fail, and whoever moves folders  *)
(* meanwhile: a count of contents settles every site once, as counted or as *)
(* skipped (runContentStats); a list over folders has every content of each *)
(* folder that stayed, under its structure if anyone can read it, with no   *)
(* more requests at once than the pool allows (enrichFoldersWithStructures);*)
(* and an inventory of structures leaves out only sites that refuse it and  *)
(* lists the templates bound to each (runLiferayInventoryStructuresAllSites).*)
THEOREM ReportsAreWhole == ReportSpec => [](SitesAreSettled /\ RowsAreCounted /\ InventoryIsWhole)
<1>1. ReportInit => ReportInv
  BY ReportStarts
<1>2. ReportInv /\ [ReportNext]_reportVars => ReportInv'
  BY ReportKeeps
<1>3. ReportInv => SitesAreSettled /\ RowsAreCounted /\ InventoryIsWhole
  BY ReportsHold
<1> QED
  BY <1>1, <1>2, <1>3, PTL DEF ReportSpec

-----------------------------------------------------------------------------
(* The walk of the folders of a site: each that stays is listed once it was *)
(* asked for, waits on one stack only, and those below it are listed when   *)
(* it has left the stack.                                                   *)
\* The folders as they are now: well placed, and what is in a shifted folder is shifted.
TreePart ==
  report.op = "sites" =>
    /\ WellPlaced(branches) /\ shifted \subseteq DOMAIN branches
    /\ \A g \in DOMAIN branches : branches[g].parent \in shifted => g \in shifted
\* What the walk of a site has listed, and what it has yet to ask for.
ListedIn(s, f) == \E i \in DOMAIN counted[s] : counted[s][i].folder = f
OnStack(s, f) == \E r \in DOMAIN stacks[s] : \E i \in DOMAIN stacks[s][r] : stacks[s][r][i] = f
Calm(s, f) == branches[f].site = s /\ f \notin shifted
\* A folder that stays is listed once and waits once, and what is in it is listed when it was asked for.
ToldOnce(s, f) ==
  /\ \A i, j \in DOMAIN counted[s] : counted[s][i].folder = f /\ counted[s][j].folder = f => i = j
  /\ \A q, r \in DOMAIN stacks[s] : \A i \in DOMAIN stacks[s][q], j \in DOMAIN stacks[s][r] :
       stacks[s][q][i] = f /\ stacks[s][r][j] = f => q = r /\ i = j
  /\ OnStack(s, f) => ListedIn(s, f)
  /\ branches[f].parent = 0 /\ branches[f].says = s => ListedIn(s, f)
  /\ branches[f].parent # 0 => (ListedIn(s, f) <=> ListedIn(s, branches[f].parent) /\ ~OnStack(s, branches[f].parent))
Walked(s) ==
  /\ \E R : counted[s] \in Seq(R)
  /\ \A r \in DOMAIN stacks[s] : stacks[s][r] \in Seq(OfSite(s))
  /\ \A f \in DOMAIN branches : Calm(s, f) => ToldOnce(s, f)
WalkPart ==
  repPc \in {"count", "done"} /\ report.op = "sites" =>
    \A s \in DOMAIN unit :
      /\ unit[s] \in {"walk", "done"} => Walked(s)
      /\ unit[s] = "done" => \A r \in DOMAIN stacks[s] : stacks[s][r] = <<>>
FoldersInv == ReportInv /\ TreePart /\ WalkPart /\ DOMAIN stacks = ToSet(report.sites) /\ DOMAIN counted = ToSet(report.sites)

\* A folder of a whole walk is listed: else there would be one missed whose parent is not.
LEMMA WalkHolds == FoldersInv => FoldersAreCounted
<1> SUFFICES ASSUME FoldersInv, repPc = "done", report.op = "sites",
                    NEW s \in UnitsIn({"done"}), Tagged(s), NEW f \in OfSite(s) \ shifted
             PROVE  TimesCounted(s, f) = 1
  BY DEF FoldersAreCounted
<1>1. /\ WellPlaced(branches) /\ \A g \in DOMAIN branches : branches[g].parent \in shifted => g \in shifted
      /\ Walked(s) /\ \A r \in DOMAIN stacks[s] : stacks[s][r] = <<>>
  BY DEF FoldersInv, TreePart, WalkPart, UnitsIn
<1>2. \A g : ~OnStack(s, g)
  BY <1>1 DEF OnStack
<1> DEFINE missed == {g \in OfSite(s) \ shifted : ~ListedIn(s, g)}
<1>3. missed = {}
  <2> SUFFICES ASSUME missed # {} PROVE FALSE
    OBVIOUS
  <2>1. missed \in SUBSET DOMAIN branches
    BY DEF OfSite
  <2>2. PICK g \in missed : branches[g].parent \notin missed
    BY <1>1, <2>1 DEF WellPlaced
  <2>3. g \in DOMAIN branches /\ g \in OfSite(s) /\ Calm(s, g) /\ ~ListedIn(s, g)
    BY <2>2 DEF OfSite, Calm
  <2>4. CASE branches[g].parent = 0
    BY <2>3, <2>4, <1>1 DEF Walked, ToldOnce, Tagged
  <2>5. CASE branches[g].parent # 0
    <3> DEFINE p == branches[g].parent
    <3>1. p \in DOMAIN branches /\ branches[p].site = s
      BY <2>3, <2>5, <1>1 DEF WellPlaced, Calm
    <3>2. p \notin shifted
      BY <2>3, <1>1 DEF Calm
    <3>3. ListedIn(s, p)
      BY <3>1, <3>2, <2>2 DEF OfSite
    <3> QED
      BY <3>3, <2>3, <2>5, <1>1, <1>2 DEF Walked, ToldOnce
  <2> QED
    BY <2>4, <2>5
<1>4. f \in DOMAIN branches /\ Calm(s, f) /\ ListedIn(s, f)
  BY <1>3 DEF OfSite, Calm
<1>5. PICK i \in DOMAIN counted[s] : counted[s][i].folder = f
  BY <1>4 DEF ListedIn
<1>6. \A j \in DOMAIN counted[s] : counted[s][j].folder = f => j = i
  BY <1>1, <1>4, <1>5 DEF Walked, ToldOnce
<1>7. {j \in DOMAIN counted[s] : counted[s][j].folder = f} = {i}
  BY <1>5, <1>6
<1>8. Cardinality({i}) = 1
  BY FS_Singleton
<1> QED
  BY <1>7, <1>8 DEF TimesCounted

\* At the start no walk has begun.
LEMMA WalkStarts == ReportInit => FoldersInv
<1> SUFFICES ASSUME ReportInit PROVE FoldersInv
  OBVIOUS
<1>1. ReportInv
  BY ReportStarts
<1>2. WellPlaced(report.tree)
  BY ReportAssumption DEF ReportInit
<1> QED
  BY <1>1, <1>2 DEF ReportInit, ReportStart, FoldersInv, TreePart, WalkPart

\* What is known of a site lasts while its walk does nothing, whatever is moved.
LEMMA WalkedStays ==
  ASSUME NEW s, Walked(s), stacks'[s] = stacks[s], counted'[s] = counted[s], DOMAIN branches' = DOMAIN branches,
         shifted \subseteq shifted', \A f \in DOMAIN branches : branches'[f].site = branches[f].site,
         \A f \in DOMAIN branches : f \notin shifted' => branches'[f].parent = branches[f].parent /\ branches'[f].says = branches[f].says
  PROVE  Walked(s)'
<1>1. \A f : (ListedIn(s, f))' <=> ListedIn(s, f)
  BY DEF ListedIn
<1>2. \A f : (OnStack(s, f))' <=> OnStack(s, f)
  BY DEF OnStack
<1>3. \A f \in DOMAIN branches : (Calm(s, f))' => Calm(s, f) /\ branches'[f].parent = branches[f].parent /\ branches'[f].says = branches[f].says
  BY DEF Calm
<1>4. OfSite(s)' = OfSite(s)
  BY DEF OfSite
<1>5. ASSUME NEW f \in DOMAIN branches, Calm(s, f)' PROVE ToldOnce(s, f)'
  <2>1. Calm(s, f) /\ branches'[f].parent = branches[f].parent /\ branches'[f].says = branches[f].says
    BY <1>3, <1>5
  <2>2. ToldOnce(s, f)
    BY <2>1 DEF Walked
  <2> QED
    BY <2>1, <2>2, <1>1, <1>2 DEF ToldOnce, ListedIn, OnStack
<1>6. (\E R : counted[s] \in Seq(R))' /\ \A r \in DOMAIN stacks'[s] : stacks'[s][r] \in Seq(OfSite(s)')
  BY <1>4 DEF Walked
<1> QED
  BY <1>4, <1>5, <1>6 DEF Walked

\* A folder is moved while its site, or another, is walked.
LEMMA EditTreeWalks == FoldersInv /\ EditTree => FoldersInv'
<1> SUFFICES ASSUME FoldersInv, EditTree PROVE FoldersInv'
  OBVIOUS
<1>1. ReportInv'
  BY EditTreeKeeps DEF FoldersInv
<1>2. /\ report' = report /\ repPc' = repPc /\ unit' = unit /\ stacks' = stacks /\ counted' = counted
  BY DEF EditTree, CountVars
<1>3. CASE report.op # "sites"
  BY <1>1, <1>2, <1>3 DEF FoldersInv, TreePart, WalkPart
<1>4. CASE report.op = "sites"
  <2>1. PICK f \in DOMAIN branches, g \in DOMAIN branches :
          /\ branches[f].site = branches[g].site /\ g \notin Below(f)
          /\ branches' = [branches EXCEPT ![f].parent = g] /\ shifted' = shifted \cup Below(f)
    BY <1>4 DEF EditTree
  <2>2. /\ WellPlaced(branches) /\ shifted \subseteq DOMAIN branches
        /\ \A h \in DOMAIN branches : branches[h].parent \in shifted => h \in shifted
    BY <1>4 DEF FoldersInv, TreePart
  <2>3. f \in Below(f) /\ Below(f) \subseteq DOMAIN branches /\ \A h \in DOMAIN branches : branches[h].parent \in Below(f) => h \in Below(f)
    BY DEF Below
  <2>4. /\ DOMAIN branches' = DOMAIN branches
        /\ \A h \in DOMAIN branches : /\ DOMAIN branches[h] = {"site", "says", "parent", "contents"}
                                  /\ DOMAIN branches'[h] = {"site", "says", "parent", "contents"}
                                  /\ branches'[h].site = branches[h].site /\ branches'[h].says = branches[h].says
                                  /\ branches'[h].parent = IF h = f THEN g ELSE branches[h].parent
    BY <2>1, <2>2 DEF WellPlaced
  <2>5. ASSUME NEW m \in SUBSET DOMAIN branches, m # {} PROVE \E h \in m : branches'[h].parent \notin m
    <3> SUFFICES ASSUME \A h \in m : branches'[h].parent \in m PROVE FALSE
      OBVIOUS
    <3>1. CASE f \notin m
      <4>1. \A h \in m : branches[h].parent \in m
        BY <3>1, <2>4
      <4> QED
        BY <4>1, <2>2, <2>5 DEF WellPlaced
    <3>2. CASE f \in m
      <4> DEFINE k == m \ Below(f)
      <4>1. g \in k
        BY <3>2, <2>1, <2>4
      <4>2. ASSUME NEW h \in k PROVE branches[h].parent \in k
        <5>1. h # f /\ h \in DOMAIN branches
          BY <2>3
        <5>2. branches[h].parent \in m
          BY <5>1, <2>4
        <5> QED
          BY <5>1, <5>2, <2>3
      <4>3. k \in SUBSET DOMAIN branches
        OBVIOUS
      <4> HIDE DEF k
      <4> QED
        BY <4>1, <4>2, <4>3, <2>2 DEF WellPlaced
    <3> QED
      BY <3>1, <3>2
  <2>6. WellPlaced(branches)'
    <3>1. ASSUME NEW h \in DOMAIN branches, branches'[h].parent # 0
          PROVE  branches'[h].parent \in DOMAIN branches /\ branches'[branches'[h].parent].site = branches'[h].site
      BY <3>1, <2>1, <2>2, <2>4 DEF WellPlaced
    <3> QED
      BY <3>1, <2>4, <2>5 DEF WellPlaced
  <2>7. \A h \in DOMAIN branches' : branches'[h].parent \in shifted' => h \in shifted'
    <3> SUFFICES ASSUME NEW h \in DOMAIN branches, branches'[h].parent \in shifted' PROVE h \in shifted'
      BY <2>4
    <3>1. CASE h = f
      BY <3>1, <2>1, <2>3
    <3>2. CASE h # f
      BY <3>2, <2>1, <2>2, <2>3, <2>4
    <3> QED
      BY <3>1, <3>2
  <2>8. TreePart'
    BY <2>1, <2>2, <2>3, <2>4, <2>6, <2>7, <1>2 DEF TreePart
  <2>9. ASSUME NEW s, Walked(s) PROVE Walked(s)'
    <3>1. /\ shifted \subseteq shifted' /\ \A h \in DOMAIN branches : branches'[h].site = branches[h].site
          /\ \A h \in DOMAIN branches : h \notin shifted' => branches'[h].parent = branches[h].parent /\ branches'[h].says = branches[h].says
      BY <2>1, <2>3, <2>4
    <3> QED
      BY <3>1, <2>4, <2>9, <1>2, WalkedStays
  <2>10. WalkPart'
    BY <2>9, <1>2 DEF FoldersInv, WalkPart
  <2> QED
    BY <1>1, <1>2, <2>8, <2>10 DEF FoldersInv
<1> QED
  BY <1>3, <1>4

\* A step that leaves the folders alone, and what the walks of all sites but one have.
LEMMA FoldersKeep ==
  ASSUME FoldersInv, ReportInv', Still, repPc = "count", repPc' = "count", NEW u \in DOMAIN unit, DOMAIN unit' = DOMAIN unit,
         DOMAIN stacks' = DOMAIN stacks, DOMAIN counted' = DOMAIN counted,
         \A s \in DOMAIN unit \ {u} : unit'[s] = unit[s] /\ stacks'[s] = stacks[s] /\ counted'[s] = counted[s],
         unit'[u] \in {"walk", "done"} => Walked(u)',
         unit'[u] = "done" => \A r \in DOMAIN stacks'[u] : stacks'[u][r] = <<>>
  PROVE  FoldersInv'
<1>1. branches' = branches /\ shifted' = shifted /\ report' = report
  BY DEF Still
<1>2. TreePart'
  BY <1>1 DEF FoldersInv, TreePart
<1>3. ASSUME NEW s \in DOMAIN unit \ {u}, Walked(s) PROVE Walked(s)'
  BY <1>1, <1>3, WalkedStays
<1>4. WalkPart'
  BY <1>1, <1>3 DEF FoldersInv, WalkPart
<1> QED
  BY <1>1, <1>2, <1>4 DEF FoldersInv

\* The folders of the portal are finitely many, each below one of its site.
LEMMA TheFolders ==
  ASSUME FoldersInv, report.op = "sites"
  PROVE  /\ IsFiniteSet(DOMAIN branches) /\ DOMAIN branches \subseteq Nat \ {0} /\ WellPlaced(branches)
         /\ \A g \in DOMAIN branches : branches[g].parent \in shifted => g \in shifted
BY ReportAssumption DEF FoldersInv, TreePart, ReportInv, ReportTypes

\* The folders at the top of a site are listed, and put on the stack.
LEMMA ListRootsWalks ==
  ASSUME FoldersInv, NEW s \in DOMAIN unit, ListRoots(s)
  PROVE  FoldersInv'
<1>1. ReportInv'
  BY CountKeeps DEF FoldersInv
<1> DEFINE fs == RootFolders(s)
           q == Ascending(fs)
<1>2. /\ repPc = "count" /\ repPc' = "count" /\ Still /\ unit' = [unit EXCEPT ![s] = "walk"] /\ report.op = "sites"
      /\ stacks' = [stacks EXCEPT ![s] = [r \in fs |-> <<r>>]]
      /\ counted' = [counted EXCEPT ![s] = [i \in DOMAIN q |-> FolderRow(q[i], q[i])]]
  BY DEF ListRoots, Becomes, FoldersInv, ReportInv, ReportTypes
<1>3. s \in DOMAIN stacks /\ s \in DOMAIN counted
  BY <1>2 DEF FoldersInv, ReportInv, SitesPart, KeptSites
<1>4. /\ fs \in SUBSET DOMAIN branches /\ \A f \in fs : f \in OfSite(s) /\ branches[f].parent = 0
      /\ \A f \in DOMAIN branches : branches[f].site = s /\ branches[f].parent = 0 /\ branches[f].says = s => f \in fs
  BY DEF RootFolders, OfSite
<1>5. /\ q \in Seq(fs) /\ DOMAIN q = 1 .. Len(q) /\ Len(q) \in Nat
      /\ \A i, j \in 1 .. Len(q) : q[i] = q[j] => i = j
      /\ \A x \in fs : \E i \in 1 .. Len(q) : q[i] = x
  <2>1. fs \in SUBSET Nat /\ IsFiniteSet(fs)
    BY <1>2, <1>4, TheFolders, FS_Subset
  <2>2. q = Ranked(fs)
    BY DEF Ascending, Ranked
  <2> HIDE DEF fs, q
  <2>3. PICK z, o : z = fs /\ o = q
    OBVIOUS
  <2>4. z \in SUBSET Nat /\ IsFiniteSet(z) /\ o = Ranked(z)
    BY <2>1, <2>2, <2>3
  <2>5. /\ o \in Seq(z) /\ DOMAIN o = 1 .. Len(o) /\ Len(o) \in Nat
        /\ \A i, j \in 1 .. Len(o) : o[i] = o[j] => i = j
        /\ \A y \in z : \E i \in 1 .. Len(o) : o[i] = y
    BY <2>4, InOrderIs
  <2> QED
    BY <2>3, <2>5
<1> HIDE DEF fs, q
<1>6. /\ DOMAIN stacks'[s] = fs /\ \A r \in fs : stacks'[s][r] = <<r>>
      /\ DOMAIN counted'[s] = 1 .. Len(q) /\ \A i \in 1 .. Len(q) : counted'[s][i] = FolderRow(q[i], q[i])
  BY <1>2, <1>3, <1>5
<1>7. \A i \in 1 .. Len(q) : counted'[s][i].folder = q[i]
  <2>1. \A a, b : FolderRow(a, b).folder = b
    BY DEF FolderRow
  <2> QED
    BY <2>1, <1>6
<1>8. \A f : (ListedIn(s, f))' <=> f \in fs
  <2>1. \A i \in 1 .. Len(q) : q[i] \in fs
    BY <1>5
  <2> QED
    BY <2>1, <1>5, <1>6, <1>7 DEF ListedIn
<1>9. \A f : (OnStack(s, f))' <=> f \in fs
  <2>1. ASSUME NEW f, OnStack(s, f)' PROVE f \in fs
    BY <2>1, <1>6 DEF OnStack
  <2>2. ASSUME NEW f \in fs PROVE OnStack(s, f)'
    <3>1. f \in DOMAIN stacks'[s] /\ 1 \in DOMAIN stacks'[s][f] /\ stacks'[s][f][1] = f
      BY <1>6
    <3> QED
      BY <3>1 DEF OnStack
  <2> QED
    BY <2>1, <2>2
<1>10. branches' = branches /\ shifted' = shifted
  BY <1>2 DEF Still
<1>11. ASSUME NEW f \in DOMAIN branches, Calm(s, f)' PROVE ToldOnce(s, f)'
  <2>1. branches[f].site = s
    BY <1>10, <1>11 DEF Calm
  <2>2. \A i, j \in DOMAIN counted'[s] : counted'[s][i].folder = f /\ counted'[s][j].folder = f => i = j
    BY <1>5, <1>6, <1>7
  <2>3. \A p, r \in DOMAIN stacks'[s] : \A i \in DOMAIN stacks'[s][p], j \in DOMAIN stacks'[s][r] :
          stacks'[s][p][i] = f /\ stacks'[s][r][j] = f => p = r /\ i = j
    <3>1. \A p \in fs : \A i \in DOMAIN stacks'[s][p] : i = 1 /\ stacks'[s][p][i] = p
      BY <1>6
    <3> QED
      BY <3>1, <1>6
  <2>4. branches[f].parent # 0 => f \notin fs
    BY <1>4
  <2> QED
    BY <2>1, <2>2, <2>3, <2>4, <1>4, <1>8, <1>9, <1>10 DEF ToldOnce
<1>12. \A r \in DOMAIN stacks'[s] : stacks'[s][r] \in Seq(OfSite(s)')
  <2>1. OfSite(s)' = OfSite(s)
    BY <1>10 DEF OfSite
  <2>2. \A r \in fs : <<r>> \in Seq(OfSite(s))
    BY <1>4
  <2> QED
    BY <2>1, <2>2, <1>6
<1>13. counted'[s] \in Seq({counted'[s][i] : i \in 1 .. Len(q)})
  BY <1>5, <1>6, <1>2, <1>3
<1>14. Walked(s)'
  BY <1>10, <1>11, <1>12, <1>13 DEF Walked
<1> QED
  BY <1>1, <1>2, <1>3, <1>14, FoldersKeep

\* The folders below one are listed: one is taken off the stack, those below it are put there.
LEMMA BuildWalks ==
  ASSUME FoldersInv, NEW s \in DOMAIN unit, NEW r \in DOMAIN stacks[s], BuildFolderStats(s, r)
  PROVE  FoldersInv'
<1>1. ReportInv'
  BY CountKeeps DEF FoldersInv
<1>0. PICK x : x = Head(stacks[s][r])
  OBVIOUS
<1> DEFINE rest == Tail(stacks[s][r])
           fs == ChildFolders(x)
           q == Ascending(fs)
           add == [i \in DOMAIN q |-> FolderRow(r, q[i])]
<1>2. /\ repPc = "count" /\ repPc' = "count" /\ Still /\ unit' = unit /\ unit[s] = "walk" /\ report.op = "sites"
      /\ stacks[s][r] # <<>>
      /\ stacks' = [stacks EXCEPT ![s][r] = q \o rest]
      /\ counted' = [counted EXCEPT ![s] = counted[s] \o add]
  BY <1>0 DEF BuildFolderStats, FoldersInv, ReportInv, ReportTypes
<1>3. s \in DOMAIN stacks /\ s \in DOMAIN counted
  BY <1>2 DEF FoldersInv, ReportInv, SitesPart, KeptSites
<1>4. Walked(s)
  BY <1>2 DEF FoldersInv, WalkPart
<1>5. fs \in SUBSET DOMAIN branches /\ \A f \in fs : branches[f].parent = x
  BY DEF ChildFolders
<1>6. /\ q \in Seq(fs) /\ DOMAIN q = 1 .. Len(q) /\ Len(q) \in Nat
      /\ \A i, j \in 1 .. Len(q) : q[i] = q[j] => i = j
      /\ \A y \in fs : \E i \in 1 .. Len(q) : q[i] = y
  <2>1. fs \in SUBSET Nat /\ IsFiniteSet(fs)
    BY <1>2, <1>5, TheFolders, FS_Subset
  <2>2. q = Ranked(fs)
    BY DEF Ascending, Ranked
  <2> HIDE DEF fs, q
  <2>3. PICK z, o : z = fs /\ o = q
    OBVIOUS
  <2>4. z \in SUBSET Nat /\ IsFiniteSet(z) /\ o = Ranked(z)
    BY <2>1, <2>2, <2>3
  <2>5. /\ o \in Seq(z) /\ DOMAIN o = 1 .. Len(o) /\ Len(o) \in Nat
        /\ \A i, j \in 1 .. Len(o) : o[i] = o[j] => i = j
        /\ \A y \in z : \E i \in 1 .. Len(o) : o[i] = y
    BY <2>4, InOrderIs
  <2> QED
    BY <2>3, <2>5
<1> DEFINE old == stacks[s][r]
           n == Len(q)
           c == Len(counted[s])
<1>7. /\ old \in Seq(OfSite(s)) /\ Len(old) \in Nat /\ Len(old) >= 1 /\ x = old[1] /\ 1 \in DOMAIN old /\ DOMAIN old = 1 .. Len(old)
      /\ rest \in Seq(OfSite(s)) /\ Len(rest) = Len(old) - 1
      /\ \A i \in 1 .. Len(rest) : rest[i] = old[i + 1] /\ i + 1 \in DOMAIN old
  BY <1>0, <1>2, <1>4 DEF Walked
<1>8. x \in OfSite(s) /\ OnStack(s, x) /\ x \in DOMAIN branches /\ branches[x].site = s
  BY <1>7 DEF OnStack, OfSite
<1>9. \A f \in fs : f \in OfSite(s)
  <2>1. ASSUME NEW f \in fs PROVE branches[f].site = s
    <3>1. x # 0
      BY <1>2, <1>8, TheFolders
    <3>2. branches[f].parent = x /\ f \in DOMAIN branches
      BY <1>5
    <3> QED
      BY <3>1, <3>2, <1>2, <1>8, TheFolders DEF WellPlaced
  <2> QED
    BY <2>1, <1>5 DEF OfSite
<1>10. PICK R : counted[s] \in Seq(R)
  BY <1>4 DEF Walked
<1>11. c \in Nat /\ DOMAIN counted[s] = 1 .. c
  BY <1>10
<1>12. /\ add \in Seq({FolderRow(r, f) : f \in fs}) /\ Len(add) = n /\ \A i \in 1 .. n : add[i] = FolderRow(r, q[i]) /\ add[i].folder = q[i]
  <2>1. \A i \in 1 .. n : q[i] \in fs
    BY <1>6
  <2>2. DOMAIN add = 1 .. n
    BY <1>6
  <2>3. \A i \in 1 .. n : add[i] = FolderRow(r, q[i])
    BY <1>6
  <2>4. add \in Seq({FolderRow(r, f) : f \in fs}) /\ Len(add) = n
    <3>1. \A i \in 1 .. n : FolderRow(r, q[i]) \in {FolderRow(r, f) : f \in fs}
      BY <2>1
    <3> HIDE DEF q
    <3> QED
      BY <3>1, <1>6
  <2>5. \A a, b : FolderRow(a, b).folder = b
    BY DEF FolderRow
  <2> HIDE DEF add
  <2> QED
    BY <2>3, <2>4, <2>5
<1> HIDE DEF fs, q, add, rest
<1>13. /\ counted'[s] = counted[s] \o add /\ DOMAIN stacks'[s] = DOMAIN stacks[s] /\ stacks'[s][r] = q \o rest
       /\ \A p \in DOMAIN stacks[s] \ {r} : stacks'[s][p] = stacks[s][p]
  BY <1>2, <1>3
<1>14. /\ counted'[s] \in Seq(R \cup {FolderRow(r, f) : f \in fs}) /\ DOMAIN counted'[s] = 1 .. c + n
       /\ \A i \in 1 .. c : counted'[s][i] = counted[s][i]
       /\ \A i \in 1 .. n : counted'[s][c + i].folder = q[i]
  <2>1. PICK R2 : R2 = R \cup {FolderRow(r, f) : f \in fs}
    OBVIOUS
  <2>2. counted[s] \in Seq(R2) /\ add \in Seq(R2)
    BY <2>1, <1>10, <1>12
  <2>3. PICK a : a = counted[s]
    OBVIOUS
  <2>4. /\ a \o add \in Seq(R2) /\ Len(a \o add) = Len(a) + Len(add)
        /\ \A i \in 1 .. Len(a) : (a \o add)[i] = a[i]
        /\ \A i \in 1 .. Len(add) : (a \o add)[Len(a) + i] = add[i]
    <3>1. a \in Seq(R2) /\ add \in Seq(R2)
      BY <2>2, <2>3
    <3> QED
      BY <3>1, Joined
  <2>5. DOMAIN (a \o add) = 1 .. Len(a \o add)
    BY <2>4
  <2> QED
    BY <2>1, <2>3, <2>4, <2>5, <1>12, <1>13
<1>15. /\ stacks'[s][r] \in Seq(OfSite(s)) /\ DOMAIN stacks'[s][r] = 1 .. n + Len(rest)
       /\ \A i \in 1 .. n : stacks'[s][r][i] = q[i]
       /\ \A i \in 1 .. Len(rest) : stacks'[s][r][n + i] = rest[i]
  <2>1. q \in Seq(OfSite(s))
    BY <1>6, <1>9
  <2>2. /\ q \o rest \in Seq(OfSite(s)) /\ Len(q \o rest) = Len(q) + Len(rest)
        /\ \A i \in 1 .. Len(q) : (q \o rest)[i] = q[i]
        /\ \A i \in 1 .. Len(rest) : (q \o rest)[Len(q) + i] = rest[i]
    <3>1. PICK z : z = OfSite(s)
      OBVIOUS
    <3>2. q \in Seq(z) /\ rest \in Seq(z)
      BY <2>1, <3>1, <1>7
    <3>3. /\ q \o rest \in Seq(z) /\ Len(q \o rest) = Len(q) + Len(rest)
          /\ \A i \in 1 .. Len(q) : (q \o rest)[i] = q[i]
          /\ \A i \in 1 .. Len(rest) : (q \o rest)[Len(q) + i] = rest[i]
      BY <3>2, Joined
    <3> QED
      BY <3>1, <3>3
  <2>3. DOMAIN (q \o rest) = 1 .. Len(q \o rest)
    BY <2>2
  <2> QED
    BY <2>2, <2>3, <1>13
<1>16. \A f : (ListedIn(s, f))' <=> ListedIn(s, f) \/ f \in fs
  <2>1. ASSUME NEW f, ListedIn(s, f)' PROVE ListedIn(s, f) \/ f \in fs
    <3>1. PICK i \in 1 .. c + n : counted'[s][i].folder = f
      BY <2>1, <1>14 DEF ListedIn
    <3>2. i \in 1 .. c \/ (i - c \in 1 .. n /\ i = c + (i - c))
      BY <1>6, <1>11
    <3>3. CASE i \in 1 .. c
      BY <3>1, <3>3, <1>11, <1>14 DEF ListedIn
    <3>4. CASE i - c \in 1 .. n /\ i = c + (i - c)
      <4>1. f = q[i - c]
        BY <3>1, <3>4, <1>14
      <4> QED
        BY <4>1, <3>4, <1>6
    <3> QED
      BY <3>2, <3>3, <3>4
  <2>2. ASSUME NEW f, ListedIn(s, f) PROVE ListedIn(s, f)'
    <3>1. PICK i \in 1 .. c : counted[s][i].folder = f
      BY <2>2, <1>11 DEF ListedIn
    <3>2. i \in 1 .. c + n /\ counted'[s][i].folder = f
      BY <3>1, <1>6, <1>11, <1>14
    <3> QED
      BY <3>2, <1>14 DEF ListedIn
  <2>3. ASSUME NEW f \in fs PROVE ListedIn(s, f)'
    <3>1. PICK i \in 1 .. n : q[i] = f
      BY <1>6
    <3>2. c + i \in 1 .. c + n /\ counted'[s][c + i].folder = f
      BY <3>1, <1>6, <1>11, <1>14
    <3> QED
      BY <3>2, <1>14 DEF ListedIn
  <2> QED
    BY <2>1, <2>2, <2>3
\* Where a folder of the stacks comes from.
<1>17. ASSUME NEW p \in DOMAIN stacks[s], NEW i \in DOMAIN stacks'[s][p]
       PROVE  \/ p = r /\ i \in 1 .. n /\ stacks'[s][p][i] = q[i]
              \/ p = r /\ i > n /\ (i - n) + 1 \in DOMAIN stacks[s][p] /\ i - n \in 1 .. Len(rest)
                  /\ stacks'[s][p][i] = stacks[s][p][(i - n) + 1]
              \/ p # r /\ i \in DOMAIN stacks[s][p] /\ stacks'[s][p][i] = stacks[s][p][i]
  <2>1. CASE p # r
    BY <2>1, <1>13, <1>17
  <2>2. CASE p = r
    <3>1. i \in 1 .. n + Len(rest) /\ Len(rest) \in Nat
      BY <2>2, <1>15, <1>17, <1>7
    <3>2. i \in 1 .. n \/ (i > n /\ i - n \in 1 .. Len(rest) /\ i = n + (i - n))
      BY <3>1, <1>6
    <3>3. CASE i \in 1 .. n
      BY <2>2, <3>3, <1>15
    <3>4. CASE i > n /\ i - n \in 1 .. Len(rest) /\ i = n + (i - n)
      <4>1. stacks'[s][p][i] = rest[i - n]
        BY <2>2, <3>4, <1>15
      <4>2. rest[i - n] = old[(i - n) + 1] /\ (i - n) + 1 \in DOMAIN old
        BY <3>4, <1>7
      <4> QED
        BY <2>2, <3>4, <4>1, <4>2
    <3> QED
      BY <3>2, <3>3, <3>4
  <2> QED
    BY <2>1, <2>2
<1>18. \A f : (OnStack(s, f))' => f \in fs \/ OnStack(s, f)
  <2> SUFFICES ASSUME NEW f, OnStack(s, f)', f \notin fs PROVE OnStack(s, f)
    OBVIOUS
  <2>0. PICK p \in DOMAIN stacks[s] : \E i \in DOMAIN stacks'[s][p] : stacks'[s][p][i] = f
    BY <1>13 DEF OnStack
  <2>1. PICK i \in DOMAIN stacks'[s][p] : stacks'[s][p][i] = f
    BY <2>0
  <2>2. \A j \in 1 .. n : q[j] # f
    BY <1>6
  <2> QED
    BY <2>1, <2>2, <1>17 DEF OnStack
<1>19. \A f : f \in fs \/ (OnStack(s, f) /\ f # x) => (OnStack(s, f))'
  <2>1. ASSUME NEW f \in fs PROVE OnStack(s, f)'
    <3>1. PICK i \in 1 .. n : q[i] = f
      BY <1>6
    <3>2. i \in DOMAIN stacks'[s][r] /\ stacks'[s][r][i] = f
      BY <3>1, <1>6, <1>7, <1>15
    <3> QED
      BY <3>2, <1>13 DEF OnStack
  <2>2. ASSUME NEW f, f # x, OnStack(s, f) PROVE OnStack(s, f)'
    <3>0. PICK p \in DOMAIN stacks[s] : \E i \in DOMAIN stacks[s][p] : stacks[s][p][i] = f
      BY <2>2 DEF OnStack
    <3>1. PICK i \in DOMAIN stacks[s][p] : stacks[s][p][i] = f
      BY <3>0
    <3>2. CASE p # r
      BY <3>1, <3>2, <1>13 DEF OnStack
    <3>3. CASE p = r
      <4>1. i # 1 /\ i \in 1 .. Len(old)
        BY <3>1, <3>3, <2>2, <1>7
      <4>2. i - 1 \in 1 .. Len(rest) /\ (i - 1) + 1 = i
        BY <4>1, <1>7
      <4>3. rest[i - 1] = f
        BY <4>2, <3>1, <3>3, <1>7
      <4>4. n + (i - 1) \in DOMAIN stacks'[s][r] /\ stacks'[s][r][n + (i - 1)] = f
        <5>1. n + (i - 1) \in 1 .. n + Len(rest)
          BY <4>2, <1>6, <1>7
        <5> QED
          BY <5>1, <4>2, <4>3, <1>15
      <4> QED
        BY <4>4, <1>13 DEF OnStack
    <3> QED
      BY <3>2, <3>3
  <2> QED
    BY <2>1, <2>2
<1>20. branches' = branches /\ shifted' = shifted
  BY <1>2 DEF Still
<1>21. ASSUME NEW f \in DOMAIN branches, Calm(s, f)' PROVE ToldOnce(s, f)'
  <2>1. Calm(s, f) /\ ToldOnce(s, f)
    BY <1>4, <1>20, <1>21 DEF Calm, Walked
  <2>2. f \in fs => Calm(s, x) /\ ToldOnce(s, x) /\ ~ListedIn(s, f) /\ ~OnStack(s, f) /\ x # 0
    <3> SUFFICES ASSUME f \in fs PROVE Calm(s, x) /\ ToldOnce(s, x) /\ ~ListedIn(s, f) /\ ~OnStack(s, f) /\ x # 0
      OBVIOUS
    <3>1. branches[f].parent = x /\ x # 0
      BY <1>2, <1>5, <1>8, TheFolders
    <3>2. Calm(s, x)
      BY <3>1, <2>1, <1>2, <1>8, TheFolders DEF Calm
    <3>3. ToldOnce(s, x)
      BY <3>2, <1>4, <1>8 DEF Walked
    <3> QED
      BY <3>1, <3>2, <3>3, <2>1, <1>8 DEF ToldOnce
  <2>3. \A i, j \in DOMAIN counted'[s] : counted'[s][i].folder = f /\ counted'[s][j].folder = f => i = j
    <3> SUFFICES ASSUME NEW i \in 1 .. c + n, NEW j \in 1 .. c + n, counted'[s][i].folder = f, counted'[s][j].folder = f
                 PROVE  i = j
      BY <1>14
    <3>1. CASE f \in fs
      <4>1. ASSUME NEW k \in 1 .. c + n, counted'[s][k].folder = f PROVE k - c \in 1 .. n /\ q[k - c] = f
        <5>1. k \notin 1 .. c
          BY <3>1, <4>1, <2>2, <1>11, <1>14 DEF ListedIn
        <5>2. k - c \in 1 .. n /\ k = c + (k - c)
          BY <5>1, <1>6, <1>11
        <5> QED
          BY <5>2, <4>1, <1>14
      <4>2. i - c \in 1 .. n /\ q[i - c] = f /\ j - c \in 1 .. n /\ q[j - c] = f
        BY <4>1
      <4>3. i - c = j - c
        BY <4>2, <1>6
      <4> QED
        BY <4>3, <1>6, <1>11
    <3>2. CASE f \notin fs
      <4>1. ASSUME NEW k \in 1 .. c + n, counted'[s][k].folder = f PROVE k \in 1 .. c /\ counted[s][k].folder = f
        <5>1. ASSUME k \notin 1 .. c PROVE FALSE
          <6>1. k - c \in 1 .. n /\ k = c + (k - c)
            BY <5>1, <1>6, <1>11
          <6>2. q[k - c] = f
            BY <6>1, <4>1, <1>14
          <6> QED
            BY <6>1, <6>2, <3>2, <1>6
        <5> QED
          BY <5>1, <4>1, <1>14
      <4> QED
        BY <4>1, <2>1, <1>11 DEF ToldOnce
    <3> QED
      BY <3>1, <3>2
  <2>4. \A p1, p2 \in DOMAIN stacks'[s] : \A i \in DOMAIN stacks'[s][p1], j \in DOMAIN stacks'[s][p2] :
          stacks'[s][p1][i] = f /\ stacks'[s][p2][j] = f => p1 = p2 /\ i = j
    <3> SUFFICES ASSUME NEW p1 \in DOMAIN stacks[s], NEW p2 \in DOMAIN stacks[s],
                        NEW i \in DOMAIN stacks'[s][p1], NEW j \in DOMAIN stacks'[s][p2],
                        stacks'[s][p1][i] = f, stacks'[s][p2][j] = f
                 PROVE  p1 = p2 /\ i = j
      BY <1>13
    <3>1. CASE f \in fs
      <4>1. ASSUME NEW p \in DOMAIN stacks[s], NEW k \in DOMAIN stacks'[s][p], stacks'[s][p][k] = f
            PROVE  p = r /\ k \in 1 .. n /\ q[k] = f
        BY <4>1, <3>1, <2>2, <1>17 DEF OnStack
      <4>2. p1 = r /\ i \in 1 .. n /\ q[i] = f /\ p2 = r /\ j \in 1 .. n /\ q[j] = f
        BY <4>1
      <4> QED
        BY <4>2, <1>6
    <3>2. CASE f \notin fs
      <4>1. \A k \in 1 .. n : q[k] # f
        BY <3>2, <1>6
      <4>2. ASSUME NEW p \in DOMAIN stacks[s], NEW k \in DOMAIN stacks'[s][p], stacks'[s][p][k] = f
            PROVE  \/ p = r /\ (k - n) + 1 \in DOMAIN stacks[s][p] /\ k - n \in 1 .. Len(rest) /\ stacks[s][p][(k - n) + 1] = f
                   \/ p # r /\ k \in DOMAIN stacks[s][p] /\ stacks[s][p][k] = f
        BY <4>1, <4>2, <1>17
      <4>3. \A p, p3 \in DOMAIN stacks[s] : \A k \in DOMAIN stacks[s][p], m \in DOMAIN stacks[s][p3] :
              stacks[s][p][k] = f /\ stacks[s][p3][m] = f => p = p3 /\ k = m
        BY <2>1 DEF ToldOnce
      <4>4. CASE p1 = r
        <5>1. (i - n) + 1 \in DOMAIN stacks[s][p1] /\ stacks[s][p1][(i - n) + 1] = f
          BY <4>2, <4>4
        <5>2. p2 = r
          BY <5>1, <4>2, <4>3, <4>4
        <5>3. (j - n) + 1 \in DOMAIN stacks[s][p2] /\ stacks[s][p2][(j - n) + 1] = f
          BY <4>2, <5>2
        <5>4. (i - n) + 1 = (j - n) + 1
          BY <5>1, <5>3, <4>3
        <5>5. i \in Nat /\ j \in Nat
          BY <4>4, <5>2, <1>15
        <5> QED
          BY <5>2, <5>4, <5>5, <4>4, <1>6
      <4>5. CASE p1 # r
        <5>1. i \in DOMAIN stacks[s][p1] /\ stacks[s][p1][i] = f
          BY <4>2, <4>5
        <5>2. p2 # r
          BY <5>1, <4>2, <4>3, <4>5
        <5>3. j \in DOMAIN stacks[s][p2] /\ stacks[s][p2][j] = f
          BY <4>2, <5>2
        <5> QED
          BY <5>1, <5>3, <4>3
      <4> QED
        BY <4>4, <4>5
    <3> QED
      BY <3>1, <3>2
  <2>5. OnStack(s, f)' => ListedIn(s, f)'
    BY <2>1, <1>16, <1>18 DEF ToldOnce
  <2>6. branches[f].parent = 0 /\ branches[f].says = s => ListedIn(s, f)'
    BY <2>1, <1>16 DEF ToldOnce
  <2>7. ASSUME branches[f].parent # 0 PROVE (ListedIn(s, f))' <=> (ListedIn(s, branches[f].parent) /\ ~OnStack(s, branches[f].parent))'
    <3>00. PICK p : p = branches[f].parent
      OBVIOUS
    <3>0. (ListedIn(s, branches[f].parent) /\ ~OnStack(s, branches[f].parent))' <=> (ListedIn(s, p))' /\ ~(OnStack(s, p))'
      BY <3>00, <1>20
    <3>1. ListedIn(s, f) <=> ListedIn(s, p) /\ ~OnStack(s, p)
      BY <3>00, <2>1, <2>7 DEF ToldOnce
    <3>2. f \in fs <=> p = x
      BY <3>00, <1>5 DEF fs, ChildFolders
    <3>3. p \in DOMAIN branches /\ Calm(s, p)
      BY <3>00, <2>1, <2>7, <1>2, TheFolders DEF Calm, WellPlaced
    <3>4. ToldOnce(s, p)
      BY <3>3, <1>4 DEF Walked
    <3>5. CASE p = x
      \* Its parent has just left the stacks.
      <4>1. (ListedIn(s, f))'
        BY <3>2, <3>5, <1>16
      <4>2. ListedIn(s, x) /\ x \notin fs
        <5>1. ListedIn(s, x)
          BY <3>4, <3>5, <1>8 DEF ToldOnce
        <5>2. ASSUME x \in fs PROVE FALSE
          <6>1. branches[x].parent = x /\ {x} \in SUBSET DOMAIN branches /\ {x} # {}
            BY <5>2, <1>5, <1>8
          <6> QED
            BY <6>1, <1>2, TheFolders DEF WellPlaced
        <5> QED
          BY <5>1, <5>2
      <4>3. ~(OnStack(s, x))'
        <5> SUFFICES ASSUME (OnStack(s, x))' PROVE FALSE
          OBVIOUS
        <5>0. PICK p1 \in DOMAIN stacks[s] : \E i \in DOMAIN stacks'[s][p1] : stacks'[s][p1][i] = x
          BY <1>13 DEF OnStack
        <5>1. PICK i \in DOMAIN stacks'[s][p1] : stacks'[s][p1][i] = x
          BY <5>0
        <5>2. \A k \in 1 .. n : q[k] # x
          BY <4>2, <1>6
        <5>3. \A p3 \in DOMAIN stacks[s] : \A k \in DOMAIN stacks[s][p3] : stacks[s][p3][k] = x => p3 = r /\ k = 1
          BY <3>4, <3>5, <1>7 DEF ToldOnce
        <5>4. CASE p1 = r /\ (i - n) + 1 \in DOMAIN stacks[s][p1] /\ i - n \in 1 .. Len(rest) /\ stacks[s][p1][(i - n) + 1] = x
          <6>1. (i - n) + 1 = 1
            BY <5>3, <5>4
          <6>2. i - n >= 1 /\ i - n \in Int
            BY <5>4
          <6> QED
            BY <6>1, <6>2
        <5>5. CASE p1 # r /\ i \in DOMAIN stacks[s][p1] /\ stacks[s][p1][i] = x
          BY <5>3, <5>5
        <5> QED
          BY <5>1, <5>2, <5>4, <5>5, <1>17
      <4> QED
        BY <3>0, <3>5, <4>1, <4>2, <4>3, <1>16
    <3>6. CASE p # x
      <4>1. (ListedIn(s, f))' <=> ListedIn(s, f)
        BY <3>2, <3>6, <1>16
      <4>2. (ListedIn(s, p))' <=> ListedIn(s, p) \/ p \in fs
        BY <1>16
      <4>3. p \in fs => (OnStack(s, p))' /\ ~ListedIn(s, p)
        <5>1. ASSUME p \in fs PROVE ~ListedIn(s, p)
          <6>1. branches[p].parent = x /\ x # 0
            BY <5>1, <1>2, <1>5, <1>8, TheFolders
          <6> QED
            BY <6>1, <3>4, <1>8 DEF ToldOnce
        <5> QED
          BY <5>1, <1>19
      <4>4. p \notin fs => ((OnStack(s, p))' <=> OnStack(s, p))
        BY <3>6, <1>18, <1>19
      <4> QED
        BY <3>0, <3>1, <4>1, <4>2, <4>3, <4>4
    <3> QED
      BY <3>5, <3>6
  <2> QED
    BY <2>3, <2>4, <2>5, <2>6, <2>7, <1>20 DEF ToldOnce
<1>22. \A p \in DOMAIN stacks'[s] : stacks'[s][p] \in Seq(OfSite(s)')
  <2>1. OfSite(s)' = OfSite(s)
    BY <1>20 DEF OfSite
  <2> QED
    BY <2>1, <1>4, <1>13, <1>15 DEF Walked
<1>23. Walked(s)'
  BY <1>14, <1>20, <1>21, <1>22 DEF Walked
<1>24. DOMAIN stacks' = DOMAIN stacks /\ DOMAIN counted' = DOMAIN counted
  BY <1>2
<1>25. \A z \in DOMAIN unit \ {s} : unit'[z] = unit[z] /\ stacks'[z] = stacks[z] /\ counted'[z] = counted[z]
  BY <1>2
<1> QED
  BY <1>1, <1>2, <1>23, <1>24, <1>25, FoldersKeep

\* A walk starts or ends.
LEMMA OtherWalks ==
  ASSUME FoldersInv, NEW s \in DOMAIN unit, TakeSite(s) \/ SiteCounted(s) \/ SkipSite(s)
  PROVE  FoldersInv'
<1>1. ReportInv'
  BY CountKeeps DEF FoldersInv
<1>2. /\ repPc = "count" /\ repPc' = "count" /\ Still /\ stacks' = stacks /\ counted' = counted /\ report.op = "sites"
  BY DEF TakeSite, NextSite, SiteCounted, SkipSite, CountVars, FoldersInv, ReportInv, ReportTypes
<1>3. /\ DOMAIN unit' = DOMAIN unit /\ \A z \in DOMAIN unit \ {s} : unit'[z] = unit[z]
      /\ \/ unit'[s] \in {"roots", "skipped"}
         \/ unit'[s] = "done" /\ unit[s] = "walk" /\ \A r \in DOMAIN stacks[s] : stacks[s][r] = <<>>
  BY DEF TakeSite, NextSite, SiteCounted, SkipSite, Becomes
<1>4. Walked(s) => Walked(s)'
  BY <1>2, WalkedStays DEF Still
<1>5. unit[s] = "walk" => Walked(s)
  BY <1>2 DEF FoldersInv, WalkPart
<1> QED
  BY <1>1, <1>2, <1>3, <1>4, <1>5, FoldersKeep

\* The other reports, and the beginning and the end of this one.
LEMMA ElseWalks ==
  ASSUME FoldersInv, ReportInv', Still, UNCHANGED <<stacks, counted>>,
         \/ repPc' \notin {"count", "done"} \/ report.op # "sites"
         \/ repPc' = "count" /\ \A s \in DOMAIN unit' : unit'[s] = "waiting"
         \/ repPc = "count" /\ unit' = unit
  PROVE  FoldersInv'
<1>1. branches' = branches /\ shifted' = shifted /\ report' = report
  BY DEF Still
<1>2. TreePart'
  BY <1>1 DEF FoldersInv, TreePart
<1>3. ASSUME NEW s, Walked(s) PROVE Walked(s)'
  BY <1>1, <1>3, WalkedStays
<1>4. WalkPart'
  BY <1>1, <1>3 DEF FoldersInv, WalkPart
<1> QED
  BY <1>1, <1>2, <1>4 DEF FoldersInv

\* Every step of a report keeps what is known of its walks.
LEMMA WalkSteps == FoldersInv /\ [ReportNext]_reportVars => FoldersInv'
<1> SUFFICES ASSUME FoldersInv, [ReportNext]_reportVars PROVE FoldersInv'
  OBVIOUS
<1>1. ReportInv /\ ReportInv'
  BY ReportKeeps DEF FoldersInv
<1>2. CASE UNCHANGED reportVars
  <2>1. branches' = branches /\ shifted' = shifted /\ report' = report /\ stacks' = stacks /\ counted' = counted /\ unit' = unit /\ repPc' = repPc
    BY <1>2 DEF reportVars
  <2>2. ASSUME NEW s, Walked(s) PROVE Walked(s)'
    BY <2>1, <2>2, WalkedStays
  <2>3. TreePart' /\ WalkPart'
    BY <2>1, <2>2 DEF FoldersInv, TreePart, WalkPart
  <2> QED
    BY <2>1, <2>3, <1>1 DEF FoldersInv
<1>3. CASE StartReport
  <2>1. Still /\ UNCHANGED <<stacks, counted>>
    BY <1>3 DEF StartReport, CountVars
  <2>2. \/ repPc' \notin {"count", "done"}
        \/ repPc' = "count" /\ \A s \in DOMAIN unit' : unit'[s] = "waiting"
    BY <1>3, TheReport DEF StartReport, ReportInv, ReportTypes
  <2> QED
    BY <2>1, <2>2, <1>1, ElseWalks
<1>4. CASE ReportEnds \/ ReportFails
  <2>1. Still /\ UNCHANGED <<stacks, counted>> /\ unit' = unit
    BY <1>4 DEF ReportEnds, ReportFails, CountVars
  <2>2. repPc' \notin {"count", "done"} \/ report.op # "sites" \/ repPc = "count"
    BY <1>1, <1>4 DEF ReportEnds, ReportFails, ReportInv, ReportTypes
  <2> QED
    BY <2>1, <2>2, <1>1, ElseWalks
<1>5. CASE TakePlace
  BY <1>1, <1>5, ElseWalks DEF TakePlace, CountVars
<1>6. ASSUME NEW u \in DOMAIN unit,
             StartTask(u) \/ ReadRows(u) \/ Hydrate(u) \/ CountRows(u)
             \/ ListDefinitions(u) \/ ListContentTemplates(u) \/ ListDdmTemplates(u)
      PROVE  FoldersInv'
  <2>1. Still /\ UNCHANGED <<stacks, counted>> /\ repPc' \notin {"count", "done"}
    BY <1>6 DEF StartTask, ReadRows, Hydrate, CountRows, ListDefinitions, ListContentTemplates, ListDdmTemplates, CountVars
  <2> QED
    BY <2>1, <1>1, ElseWalks
<1>7. ASSUME NEW u \in DOMAIN unit, \E r \in IF repPc = "count" THEN DOMAIN stacks[u] ELSE {} : BuildFolderStats(u, r)
      PROVE  FoldersInv'
  <2>1. repPc = "count"
    BY <1>7
  <2> QED
    BY <2>1, <1>7, BuildWalks
<1> QED
  BY <1>2, <1>3, <1>4, <1>5, <1>6, <1>7, EditTreeWalks, ListRootsWalks, OtherWalks DEF ReportNext

(* However deep the folders are and however they are moved while they are   *)
(* walked, a folder that stays where it is is counted exactly once, with    *)
(* its site (fetchRootFolders, buildFolderStats).                           *)
THEOREM FoldersCounted == ReportSpec => []FoldersAreCounted
<1>1. ReportInit => FoldersInv
  BY WalkStarts
<1>2. FoldersInv /\ [ReportNext]_reportVars => FoldersInv'
  BY WalkSteps
<1>3. FoldersInv => FoldersAreCounted
  BY WalkHolds
<1> QED
  BY <1>1, <1>2, <1>3, PTL DEF ReportSpec

-----------------------------------------------------------------------------
(* Where a resource is used (WhereUsed): the pages of a site, the workers   *)
(* that inspect them, and the reports of the sites scanned.                 *)
\* A list that has no URL twice.
ApartRows(q) == \A i, j \in DOMAIN q : q[i].url = q[j].url => i = j
\* What the assumption says of a portal and of a case.
WebIs(w) ==
  /\ IsFiniteSet(DOMAIN w.sites) /\ \A f, g \in DOMAIN w.sites : w.sites[f].url = w.sites[g].url => f = g
  /\ IsFiniteSet(DOMAIN w.layouts) /\ DOMAIN w.layouts \subseteq Nat /\ IsFiniteSet(DOMAIN w.articles)
HuntIs(h) ==
  /\ DOMAIN h = {"web", "refused", "query", "fold", "edits"}
  /\ h.query.sites \in Seq([text : STRING]) /\ h.query.limit \in Nat
  /\ \A w \in {h.web} \cup h.edits : WebIs(w)
Hunting == huntPc \in {"layouts", "headless", "journal", "pages"}
HuntTypes ==
  /\ HuntIs(hunt) /\ WebIs(web) /\ (Hunting \/ huntPc \in {"start", "done", "error"}) /\ siteAt \in Nat
  /\ IsRows(candidates) /\ IsRows(chosen) /\ ApartRows(chosen) /\ IsRows(reports)
\* A report of a site: no page twice, and none without an answer.
ReportIs(r) ==
  /\ \A j, k \in DOMAIN r.pages : r.pages[j].url = r.pages[k].url => j = k
  /\ r.scanned = Len(r.pages) /\ \A j \in DOMAIN r.pages : r.pages[j].what # "waiting"
\* The sites that are reported are the first of those chosen.
HuntPlace ==
  /\ huntPc = "start" => reports = <<>>
  /\ Hunting => siteAt >= 1 /\ siteAt <= Len(chosen) /\ Len(reports) = siteAt - 1
  /\ Len(reports) # 0 => Len(reports) <= Len(chosen)
  /\ \A i \in DOMAIN reports : reports[i].site = chosen[i].url /\ ReportIs(reports[i])
  /\ huntPc = "done" /\ ~Query.plan => Len(reports) = Len(chosen)
\* The workers have pages of their own, and a page that was taken has an answer or a worker.
HuntPool ==
  /\ DOMAIN busy = 1 .. HuntWorkers /\ nextPage \in Nat
  /\ \A w \in DOMAIN busy : busy[w] \in Nat /\ busy[w] < nextPage
  /\ \A v, w \in DOMAIN busy : v # w /\ busy[v] # 0 => busy[v] # busy[w]
HuntPages ==
  huntPc = "pages" =>
    /\ ApartRows(candidates) /\ DOMAIN outcomes = DOMAIN candidates
    /\ \A w \in DOMAIN busy : busy[w] <= Len(candidates) /\ (busy[w] = 0 => nextPage > Len(candidates))
    /\ \A i \in DOMAIN candidates : i < nextPage /\ outcomes[i].what = "waiting" => \E w \in DOMAIN busy : busy[w] = i
HuntInv == HuntTypes /\ HuntPlace /\ HuntPool /\ HuntPages

\* What is left of a list without its repetitions has no URL twice.
LEMMA DedupeIs == ASSUME NEW rows, IsRows(rows) PROVE IsRows(Dedupe(rows)) /\ ApartRows(Dedupe(rows))
<1> DEFINE ones == FirstOnes(rows)
           kept == ByPlace(ones)
<1>1. Len(rows) \in Nat /\ DOMAIN rows = 1 .. Len(rows)
  BY RowsAre
<1>2. ones \in SUBSET (1 .. Len(rows)) /\ ones \in SUBSET Nat
  BY <1>1 DEF FirstOnes
<1>3. IsFiniteSet(ones)
  <2>1. IsFiniteSet(1 .. Len(rows))
    BY <1>1, FS_Interval
  <2> QED
    BY <1>2, <2>1, FS_Subset
<1>4. kept = Ranked(ones)
  BY DEF ByPlace, Ranked
<1>5. \A i, j \in ones : rows[i].url = rows[j].url => i = j
  <2> SUFFICES ASSUME NEW i \in ones, NEW j \in ones, rows[i].url = rows[j].url, i # j PROVE FALSE
    OBVIOUS
  <2>1. i \in Nat /\ j \in Nat /\ (i < j \/ j < i)
    BY <1>2
  <2> QED
    BY <2>1 DEF FirstOnes
<1>6. Dedupe(rows) = [k \in DOMAIN kept |-> rows[kept[k]]]
  BY DEF Dedupe
<1> HIDE DEF ones, kept
<1>7. PICK S, q : S = ones /\ q = kept
  OBVIOUS
<1>8. /\ q \in Seq(S) /\ DOMAIN q = 1 .. Len(q) /\ Len(q) \in Nat
      /\ \A i, j \in 1 .. Len(q) : q[i] = q[j] => i = j
  BY <1>2, <1>3, <1>4, <1>7, InOrderIs
<1>9. PICK d : d = Dedupe(rows)
  OBVIOUS
<1>10. d = [k \in 1 .. Len(q) |-> rows[q[k]]]
  BY <1>6, <1>7, <1>8, <1>9
<1>11. d = [k \in 1 .. Len(q) |-> d[k]]
  BY <1>10
<1>12. IsRows(d) /\ DOMAIN d = 1 .. Len(q)
  BY <1>8, <1>11, RowsList
<1>13. \A i \in 1 .. Len(q) : q[i] \in S
  BY <1>8
<1>14. ApartRows(d)
  BY <1>5, <1>7, <1>8, <1>10, <1>12, <1>13 DEF ApartRows
<1> QED
  BY <1>9, <1>12, <1>14

\* The sites that are chosen are a list without a URL twice, in whatever order they are offered.
LEMMA SelectedIs ==
  ASSUME HuntIs(hunt), WebIs(web), NEW order \in SiteOrders
  PROVE  IsRows(SelectSites(order)) /\ ApartRows(SelectSites(order))
<1>1. CASE Query.sites # <<>>
  <2>1. Query.sites \in Seq([text : STRING])
    BY DEF HuntIs, Query
  <2>2. PICK n \in Nat : DOMAIN Query.sites = 1 .. n
    BY <2>1
  <2>3. PICK rows : rows = [i \in DOMAIN Query.sites |-> Named1(Query.sites[i])]
    OBVIOUS
  <2>4. rows = [i \in 1 .. n |-> rows[i]]
    BY <2>2, <2>3
  <2>5. IsRows(rows)
    BY <2>4, RowsList
  <2>6. SelectSites(order) = Dedupe(rows)
    BY <1>1, <2>3 DEF SelectSites
  <2> QED
    BY <2>5, <2>6, DedupeIs
<1>2. CASE Query.sites = <<>>
  <2> DEFINE n == Cardinality(OfferedSites)
             m == IF Query.limit = 0 \/ n <= Query.limit THEN n ELSE Query.limit
  <2>1. n \in Nat
    <3>1. OfferedSites \in SUBSET DOMAIN web.sites /\ IsFiniteSet(DOMAIN web.sites)
      BY DEF OfferedSites, WebIs
    <3> QED
      BY <3>1, FS_Subset, FS_CardinalityType
  <2>2. order \in [1 .. n -> OfferedSites] /\ \A i, j \in 1 .. n : i < j => order[i] # order[j]
    BY DEF SiteOrders
  <2> HIDE DEF n
  <2>3. m \in Nat /\ {i \in 1 .. n : Query.limit = 0 \/ i <= Query.limit} = 1 .. m
    <3>1. Query.limit \in Nat
      BY DEF HuntIs, Query
    <3> QED
      BY <2>1, <3>1
  <2> HIDE DEF m
  <2>4. PICK s : s = SelectSites(order)
    OBVIOUS
  <2>5. s = [i \in 1 .. m |-> [url |-> web.sites[order[i]].url, id |-> web.sites[order[i]].id]]
    <3>1. DOMAIN order = 1 .. n
      BY <2>2
    <3> QED
      BY <1>2, <2>3, <2>4, <3>1 DEF SelectSites
  <2>6. \A i \in 1 .. m : i \in 1 .. n /\ order[i] \in DOMAIN web.sites
    BY <2>2, <2>3 DEF OfferedSites
  <2>7. \A i, j \in 1 .. m : order[i] = order[j] => i = j
    <3> SUFFICES ASSUME NEW i \in 1 .. m, NEW j \in 1 .. m, order[i] = order[j], i # j PROVE FALSE
      OBVIOUS
    <3>1. i < j \/ j < i
      BY <2>3
    <3> QED
      BY <3>1, <2>2, <2>6
  <2>8. s = [i \in 1 .. m |-> s[i]]
    BY <2>5
  <2>9. IsRows(s) /\ DOMAIN s = 1 .. m
    BY <2>3, <2>8, RowsList
  <2>10. \A i \in 1 .. m : s[i].url = web.sites[order[i]].url
    BY <2>5
  <2>11. ApartRows(s)
    BY <2>6, <2>7, <2>9, <2>10 DEF ApartRows, WebIs
  <2> QED
    BY <2>4, <2>9, <2>11
<1> QED
  BY <1>1, <1>2

\* What the portal lists of a site is a list.
LEMMA LayoutsAre == ASSUME WebIs(web), NEW private PROVE IsRows(LayoutCandidates(private))
<1> DEFINE ls == {l \in UNION {LayoutsOf(g, private) : g \in HereIds} : DepthOf(l) <= Query.maxDepth}
           tr == LayoutTree(private)
<1>1. ls \in SUBSET DOMAIN web.layouts
  BY DEF LayoutsOf
<1>2. ls \in SUBSET Nat /\ IsFiniteSet(ls)
  BY <1>1, FS_Subset DEF WebIs
<1>3. tr = Ranked(ls)
  BY DEF LayoutTree, ByPlace, Ranked
<1> HIDE DEF ls, tr
<1>4. PICK S, q : S = ls /\ q = tr
  OBVIOUS
<1>5. DOMAIN q = 1 .. Len(q) /\ Len(q) \in Nat
  BY <1>2, <1>3, <1>4, InOrderIs
<1>6. PICK c : c = LayoutCandidates(private)
  OBVIOUS
<1>7. c = [i \in 1 .. Len(q) |-> [url |-> PageUrl(Here, private, FALSE, web.layouts[q[i]].url), origin |-> "layout"]]
  BY <1>4, <1>5, <1>6 DEF LayoutCandidates, tr
<1>8. c = [i \in 1 .. Len(q) |-> c[i]]
  BY <1>7
<1> QED
  BY <1>5, <1>6, <1>8, RowsList

\* The candidates of some titles are a list.
LEMMA DisplaysAre == ASSUME NEW titles, IsFiniteSet(titles), NEW origin PROVE IsRows(DisplayCandidates(titles, origin))
<1> DEFINE ne == NonEmpty(titles)
           n == Cardinality(ne)
           ts == SetToSeq(ne)
<1>1. n \in Nat /\ ExistsBijection(1 .. n, ne)
  <2>1. ne \in SUBSET titles
    BY DEF NonEmpty
  <2>2. IsFiniteSet(ne)
    BY <2>1, FS_Subset
  <2> QED
    BY <2>2, FS_CardinalityType
<1>2. \E f \in [1 .. n -> ne] : IsInjective(f)
  BY <1>1 DEF ExistsBijection, Bijection, Injection
<1>3. ts \in [1 .. n -> ne]
  BY <1>2 DEF SetToSeq
<1>4. PICK c : c = DisplayCandidates(titles, origin)
  OBVIOUS
<1>5. c = [i \in DOMAIN ts |-> [url |-> PageUrl(Here, FALSE, TRUE, ts[i]), origin |-> origin]]
  BY <1>4 DEF DisplayCandidates
<1> HIDE DEF ts, n
<1>6. c = [i \in 1 .. n |-> c[i]]
  BY <1>3, <1>5
<1> QED
  BY <1>1, <1>4, <1>6, RowsList

\* The titles of contents are finitely many.
LEMMA TitlesAre == ASSUME WebIs(web) PROVE IsFiniteSet(HeadlessTitles) /\ IsFiniteSet(JournalTitles)
<1>1. ASSUME NEW A \in SUBSET DOMAIN web.articles PROVE IsFiniteSet({web.articles[a].url : a \in A})
  <2> DEFINE T == {web.articles[a].url : a \in A}
             f == [a \in A |-> web.articles[a].url]
  <2>1. IsFiniteSet(A)
    BY FS_Subset DEF WebIs
  <2>2. f \in Surjection(A, T)
    BY DEF Surjection
  <2> HIDE DEF f, T
  <2>3. IsFiniteSet(T)
    BY <2>1, <2>2, FS_Surjection
  <2> QED
    BY <2>3 DEF T
<1>2. {a \in DOMAIN web.articles : web.articles[a].site \in HereIds /\ web.articles[a].headless} \in SUBSET DOMAIN web.articles
  OBVIOUS
<1>3. {a \in DOMAIN web.articles : web.articles[a].site \in HereIds /\ web.articles[a].approved /\ web.articles[a].folder \in JournalFolders}
      \in SUBSET DOMAIN web.articles
  OBVIOUS
<1>4. IsFiniteSet(HeadlessTitles)
  BY <1>1, <1>2 DEF HeadlessTitles
<1> QED
  BY <1>1, <1>3, <1>4 DEF JournalTitles

\* At the start no site is scanned.
LEMMA HuntStarts == HuntInit => HuntInv
<1> SUFFICES ASSUME HuntInit PROVE HuntInv
  OBVIOUS
<1>1. HuntIs(hunt) /\ WebIs(web)
  BY HuntAssumption DEF HuntInit, HuntStart, HuntIs, WebIs
<1>2. IsRows(<<>>) /\ ApartRows(<<>>)
  BY DEF IsRows, ApartRows
<1>3. HuntTypes
  BY <1>1, <1>2 DEF HuntInit, HuntStart, HuntTypes, Hunting
<1>4. HuntPlace /\ HuntPages
  BY DEF HuntInit, HuntStart, HuntPlace, HuntPages, Hunting
<1>5. HuntPool
  BY HuntAssumption DEF HuntInit, HuntStart, HuntPool
<1> QED
  BY <1>3, <1>4, <1>5 DEF HuntInv

\* The query is resolved once, before any site is scanned.
LEMMA ResolveHunts == ASSUME HuntInv, ResolveQuery PROVE HuntInv'
<1> USE DEF HuntInv
<1>1. PICK order \in SiteOrders : chosen' = SelectSites(order)
  BY DEF ResolveQuery
<1>2. /\ huntPc = "start" /\ huntPc' \in {"error", "done", "layouts"} /\ UNCHANGED <<hunt, web, reports, nextPage, busy, outcomes>>
      /\ siteAt' = 1 /\ candidates' = <<>> /\ reports = <<>>
  BY DEF ResolveQuery, SamePortal, PoolIdle, HuntGoes, HuntPlace
<1>3. IsRows(chosen') /\ ApartRows(chosen')
  BY <1>1, SelectedIs DEF HuntTypes
<1>4. HuntTypes'
  <2>1. IsRows(<<>>)
    BY DEF IsRows
  <2>2. IsRows(chosen)' /\ ApartRows(chosen)'
    BY <1>3 DEF IsRows, ApartRows
  <2>3. IsRows(candidates)' /\ IsRows(reports)'
    BY <1>2, <2>1 DEF IsRows
  <2>4. HuntIs(hunt)' /\ WebIs(web)'
    BY <1>2 DEF HuntTypes, HuntIs, WebIs
  <2> QED
    BY <1>2, <2>2, <2>3, <2>4 DEF HuntTypes, Hunting
<1>5. Len(chosen') \in Nat /\ (Len(chosen') = 0 => chosen' = <<>>)
  BY <1>3, RowsAre
<1>6. huntPc' = "layouts" => chosen' # <<>>
  BY DEF ResolveQuery, HuntGoes
<1>7. huntPc' = "done" /\ ~Query.plan => chosen' = <<>>
  BY DEF ResolveQuery, HuntGoes
<1>8. HuntPlace'
  <2>1. Len(reports') = 0 /\ DOMAIN reports' = {}
    BY <1>2
  <2> QED
    BY <1>2, <1>5, <1>6, <1>7, <2>1 DEF HuntPlace, Hunting, Query
<1> QED
  BY <1>2, <1>4, <1>8 DEF HuntPool, HuntPages

\* What a step that leaves the sites and the reports alone has to keep.
LEMMA RestHunts ==
  ASSUME HuntInv, UNCHANGED <<hunt, chosen, siteAt, reports>>, WebIs(web'), IsRows(candidates'),
         huntPc' = huntPc \/ (Hunting /\ huntPc' \in {"layouts", "headless", "journal", "pages", "error"})
  PROVE  HuntTypes' /\ HuntPlace'
<1>1. HuntTypes'
  <2>1. WebIs(web)' /\ IsRows(candidates)'
    BY DEF WebIs, IsRows
  <2>2. HuntIs(hunt)' /\ IsRows(chosen)' /\ ApartRows(chosen)' /\ IsRows(reports)'
    BY DEF HuntInv, HuntTypes, HuntIs, WebIs, IsRows, ApartRows
  <2> QED
    BY <2>1, <2>2 DEF HuntInv, HuntTypes, Hunting
<1>2. HuntPlace'
  BY DEF HuntInv, HuntPlace, ReportIs, Hunting, Query
<1> QED
  BY <1>1, <1>2

\* Listing pages does not touch the workers.
LEMMA ListingHunts ==
  ASSUME HuntInv, UNCHANGED <<hunt, web, chosen, siteAt, reports, nextPage, busy, outcomes>>, IsRows(candidates'),
         Hunting, huntPc' \in {"layouts", "headless", "journal", "error"}
  PROVE  HuntInv'
<1>1. WebIs(web')
  BY DEF HuntInv, HuntTypes
<1>2. HuntTypes' /\ HuntPlace'
  BY <1>1, RestHunts
<1>3. HuntPool' /\ HuntPages'
  BY DEF HuntInv, HuntPool, HuntPages
<1> QED
  BY <1>2, <1>3 DEF HuntInv

\* The pool begins with as many pages as it has workers, or with all of them.
LEMMA PoolHunts ==
  ASSUME HuntInv, UNCHANGED <<hunt, web, chosen, siteAt, reports>>, Hunting, NEW cs, IsRows(cs), StartPool(cs)
  PROVE  HuntInv'
<1>1. IsRows(candidates') /\ ApartRows(candidates')
  BY DedupeIs DEF StartPool
<1>2. Len(candidates') \in Nat /\ DOMAIN candidates' = 1 .. Len(candidates')
  BY <1>1, RowsAre
<1>3. HuntWorkers \in Nat \ {0}
  BY HuntAssumption
<1>4. WebIs(web') /\ huntPc' = "pages"
  BY DEF HuntInv, HuntTypes, StartPool, HuntGoes
<1>5. HuntTypes' /\ HuntPlace'
  BY <1>1, <1>4, RestHunts
<1> DEFINE n == Len(candidates')
<1>6. /\ busy' = [w \in 1 .. HuntWorkers |-> IF w \in 1 .. n THEN w ELSE 0]
      /\ nextPage' = (IF HuntWorkers < n THEN HuntWorkers ELSE n) + 1
      /\ DOMAIN outcomes' = 1 .. n
  BY <1>2 DEF StartPool
<1>7. HuntPool'
  <2>1. DOMAIN busy' = 1 .. HuntWorkers /\ nextPage' \in Nat
    BY <1>2, <1>3, <1>6
  <2>2. \A w \in 1 .. HuntWorkers : busy'[w] \in Nat /\ busy'[w] < nextPage'
    BY <1>2, <1>3, <1>6
  <2>3. \A v, w \in 1 .. HuntWorkers : v # w /\ busy'[v] # 0 => busy'[v] # busy'[w]
    BY <1>2, <1>3, <1>6
  <2> QED
    BY <2>1, <2>2, <2>3 DEF HuntPool
<1>8. HuntPages'
  <2>1. \A w \in 1 .. HuntWorkers : busy'[w] <= n /\ (busy'[w] = 0 => nextPage' > n)
    BY <1>2, <1>3, <1>6
  <2>2. \A i \in 1 .. n : i < nextPage' => i \in 1 .. HuntWorkers /\ busy'[i] = i
    BY <1>2, <1>3, <1>6
  <2>3. DOMAIN busy' = 1 .. HuntWorkers
    BY <1>6
  <2>4. ApartRows(candidates)'
    BY <1>1 DEF ApartRows
  <2> QED
    BY <1>2, <1>6, <2>1, <2>2, <2>3, <2>4 DEF HuntPages
<1> QED
  BY <1>5, <1>7, <1>8 DEF HuntInv

\* The pages of a site are listed, from layouts, the headless list and the journal; the pool starts with none twice.
LEMMA ListHunts ==
  ASSUME HuntInv, ListLayouts \/ LayoutsListed \/ ListHeadless \/ ListJournal
  PROVE  HuntInv'
<1>1. WebIs(web) /\ IsRows(candidates)
  BY DEF HuntInv, HuntTypes
<1>2. CASE ListLayouts
  <2>1. /\ Hunting /\ huntPc' \in {"layouts", "error"} /\ UNCHANGED <<hunt, web, chosen, siteAt, reports, nextPage, busy, outcomes>>
        /\ (candidates' = candidates \/ candidates' = candidates \o LayoutCandidates(Head(scopes)))
    BY <1>2 DEF ListLayouts, SamePortal, PoolIdle, HuntGoes, Hunting
  <2>2. IsRows(LayoutCandidates(Head(scopes)))
    BY <1>1, LayoutsAre
  <2>3. IsRows(candidates')
    BY <1>1, <2>1, <2>2, RowsJoin
  <2> QED
    BY <2>1, <2>3, ListingHunts
<1>3. CASE LayoutsListed
  <2>1. Hunting /\ UNCHANGED <<hunt, web, chosen, siteAt, reports>>
    BY <1>3 DEF LayoutsListed, SamePortal, Hunting
  <2>2. CASE Query.type \in {"structure", "template"}
    <3>1. huntPc' = "headless" /\ UNCHANGED <<nextPage, busy, outcomes, candidates>>
      BY <1>3, <2>2 DEF LayoutsListed, PoolIdle, HuntGoes
    <3> QED
      BY <1>1, <2>1, <3>1, ListingHunts
  <2>3. CASE Query.type \notin {"structure", "template"}
    <3>1. StartPool(candidates)
      BY <1>3, <2>3 DEF LayoutsListed
    <3> QED
      BY <1>1, <2>1, <3>1, PoolHunts
  <2> QED
    BY <2>2, <2>3
<1>4. CASE ListHeadless
  <2>1. /\ Hunting /\ huntPc' \in {"journal", "error"} /\ UNCHANGED <<hunt, web, chosen, siteAt, reports, nextPage, busy, outcomes>>
        /\ (candidates' = candidates \/ candidates' = candidates \o DisplayCandidates(HeadlessTitles, "headless"))
    BY <1>4 DEF ListHeadless, SamePortal, PoolIdle, HuntGoes, Hunting
  <2>2. IsRows(DisplayCandidates(HeadlessTitles, "headless"))
    BY <1>1, TitlesAre, DisplaysAre
  <2>3. IsRows(candidates')
    BY <1>1, <2>1, <2>2, RowsJoin
  <2> QED
    BY <2>1, <2>3, ListingHunts
<1>5. CASE ListJournal
  <2>1. Hunting /\ UNCHANGED <<hunt, web, chosen, siteAt, reports>>
    BY <1>5 DEF ListJournal, SamePortal, Hunting
  <2>2. IsRows(candidates \o DisplayCandidates(JournalTitles, "journal"))
    BY <1>1, TitlesAre, DisplaysAre, RowsJoin
  <2>3. CASE Admitted("journal")
    <3>1. PICK cs : cs = candidates \o DisplayCandidates(JournalTitles, "journal")
      OBVIOUS
    <3>2. StartPool(cs) /\ IsRows(cs)
      BY <1>5, <2>2, <2>3, <3>1 DEF ListJournal
    <3> QED
      BY <2>1, <3>2, PoolHunts
  <2>4. CASE ~Admitted("journal")
    <3>1. huntPc' = "error" /\ UNCHANGED <<nextPage, busy, outcomes, candidates>>
      BY <1>5, <2>4 DEF ListJournal, PoolIdle, HuntGoes
    <3> QED
      BY <1>1, <2>1, <3>1, ListingHunts
  <2> QED
    BY <2>3, <2>4
<1> QED
  BY <1>2, <1>3, <1>4, <1>5

\* A worker that has an answer takes the next page, or ends when there is none.
LEMMA InspectHunts == ASSUME HuntInv, NEW w \in 1 .. HuntWorkers, InspectPage(w) PROVE HuntInv'
<1> DEFINE n == Len(candidates)
<1>1. /\ huntPc = "pages" /\ busy[w] # 0 /\ UNCHANGED <<hunt, web, huntPc, chosen, siteAt, candidates, reports>>
      /\ busy' = [busy EXCEPT ![w] = IF nextPage <= n THEN nextPage ELSE 0] /\ nextPage' = nextPage + 1
  BY DEF InspectPage, SamePortal
<1>2. PICK o : outcomes' = [outcomes EXCEPT ![busy[w]] = o] /\ o.what # "waiting"
  <2>1. PICK bad : outcomes' = [outcomes EXCEPT ![busy[w]] = PageOutcome(candidates[busy[w]], bad)]
    BY DEF InspectPage
  <2>2. PageOutcome(candidates[busy[w]], bad).what # "waiting"
    BY DEF PageOutcome
  <2> QED
    BY <2>1, <2>2
<1>3. IsRows(candidates) /\ WebIs(web)
  BY DEF HuntInv, HuntTypes
<1>4. n \in Nat /\ DOMAIN candidates = 1 .. n
  BY <1>3, RowsAre
<1>5. HuntTypes' /\ HuntPlace'
  BY <1>1, <1>3, RestHunts
<1>6. /\ DOMAIN busy = 1 .. HuntWorkers /\ nextPage \in Nat
      /\ \A v \in 1 .. HuntWorkers : busy[v] \in Nat /\ busy[v] < nextPage /\ busy[v] <= n /\ (busy[v] = 0 => nextPage > n)
      /\ \A u, v \in 1 .. HuntWorkers : u # v /\ busy[u] # 0 => busy[u] # busy[v]
      /\ ApartRows(candidates) /\ DOMAIN outcomes = 1 .. n
      /\ \A i \in 1 .. n : i < nextPage /\ outcomes[i].what = "waiting" => \E v \in 1 .. HuntWorkers : busy[v] = i
  BY <1>1, <1>4 DEF HuntInv, HuntPool, HuntPages
<1> HIDE DEF n
<1>7. /\ DOMAIN busy' = 1 .. HuntWorkers /\ \A v \in 1 .. HuntWorkers \ {w} : busy'[v] = busy[v]
      /\ busy'[w] = IF nextPage <= n THEN nextPage ELSE 0
  BY <1>1, <1>6
<1>8. HuntPool'
  <2>1. \A v \in 1 .. HuntWorkers : busy'[v] \in Nat /\ busy'[v] < nextPage'
    BY <1>1, <1>6, <1>7
  <2>2. \A u, v \in 1 .. HuntWorkers : u # v /\ busy'[u] # 0 => busy'[u] # busy'[v]
    BY <1>6, <1>7
  <2>3. nextPage' \in Nat
    BY <1>1, <1>6
  <2> QED
    BY <1>7, <2>1, <2>2, <2>3 DEF HuntPool
<1>9. HuntPages'
  <2>1. \A v \in 1 .. HuntWorkers : busy'[v] <= n /\ (busy'[v] = 0 => nextPage' > n)
    BY <1>1, <1>4, <1>6, <1>7
  <2>2. ASSUME NEW i \in 1 .. n, i < nextPage', outcomes'[i].what = "waiting"
        PROVE  \E v \in 1 .. HuntWorkers : busy'[v] = i
    <3>1. i # busy[w] /\ outcomes'[i] = outcomes[i]
      BY <1>2, <1>6, <2>2
    <3>2. CASE i = nextPage
      BY <1>4, <1>6, <1>7, <3>2
    <3>3. CASE i # nextPage
      <4>1. i < nextPage
        BY <1>1, <1>4, <1>6, <2>2, <3>3
      <4>2. PICK v \in 1 .. HuntWorkers : busy[v] = i
        BY <1>6, <2>2, <3>1, <4>1
      <4>3. v # w
        BY <3>1, <4>2
      <4> QED
        BY <1>7, <4>2, <4>3
    <3> QED
      BY <3>2, <3>3
  <2>3. DOMAIN outcomes' = 1 .. n /\ candidates' = candidates /\ Len(candidates') = n /\ ApartRows(candidates')
    BY <1>1, <1>2, <1>6 DEF n
  <2>4. ApartRows(candidates)'
    BY <2>3 DEF ApartRows
  <2> QED
    BY <1>4, <1>7, <2>1, <2>2, <2>3, <2>4 DEF HuntPages
<1> QED
  BY <1>5, <1>8, <1>9 DEF HuntInv

\* When no worker has a page left every page has an answer.
LEMMA ScannedHunts == ASSUME HuntInv, SiteScanned PROVE HuntInv'
<1> DEFINE n == Len(candidates)
           k == Len(reports)
<1>1. /\ huntPc = "pages" /\ (\A w \in DOMAIN busy : busy[w] = 0) /\ UNCHANGED <<hunt, web, chosen, nextPage, busy>>
      /\ huntPc' = (IF siteAt < Len(chosen) THEN "layouts" ELSE "done") /\ siteAt' = siteAt + 1 /\ candidates' = <<>>
  BY DEF SiteScanned, SamePortal, HuntGoes
<1>2. PICK r : reports' = Append(reports, r) /\ r.site = chosen[siteAt].url /\ r.scanned = n
                /\ r.pages = [i \in DOMAIN candidates |-> [url |-> candidates[i].url, what |-> outcomes[i].what, matches |-> outcomes[i].matches]]
  <2>1. \E x : x = [site |-> Here, scanned |-> Len(candidates),
                    failed |-> Cardinality({i \in DOMAIN outcomes : outcomes[i].what = "failed"}),
                    pages |-> [i \in DOMAIN candidates |-> [url |-> candidates[i].url, what |-> outcomes[i].what, matches |-> outcomes[i].matches]]]
                /\ reports' = Append(reports, x)
    BY DEF SiteScanned
  <2>2. PICK x : x = [site |-> Here, scanned |-> Len(candidates),
                    failed |-> Cardinality({i \in DOMAIN outcomes : outcomes[i].what = "failed"}),
                    pages |-> [i \in DOMAIN candidates |-> [url |-> candidates[i].url, what |-> outcomes[i].what, matches |-> outcomes[i].matches]]]
                 /\ reports' = Append(reports, x)
    BY <2>1
  <2>3. /\ x.site = chosen[siteAt].url /\ x.scanned = n
        /\ x.pages = [i \in DOMAIN candidates |-> [url |-> candidates[i].url, what |-> outcomes[i].what, matches |-> outcomes[i].matches]]
    BY <2>2 DEF Here
  <2> QED
    BY <2>2, <2>3
<1>3. /\ IsRows(candidates) /\ IsRows(reports) /\ IsRows(chosen) /\ siteAt \in Nat
      /\ siteAt >= 1 /\ siteAt <= Len(chosen) /\ k = siteAt - 1
  BY <1>1 DEF HuntInv, HuntTypes, HuntPlace, Hunting
<1>4. n \in Nat /\ DOMAIN candidates = 1 .. n /\ k \in Nat /\ DOMAIN reports = 1 .. k /\ Len(chosen) \in Nat
  BY <1>3, RowsAre
<1>5. /\ IsRows(reports') /\ Len(reports') = k + 1 /\ (\A i \in 1 .. k : reports'[i] = reports[i]) /\ reports'[k + 1] = r
  BY <1>2, <1>3, <1>4, RowsAdd
<1>6. DOMAIN reports' = 1 .. k + 1
  BY <1>5, RowsAre
<1>7. ReportIs(r)
  <2>1. \A i \in 1 .. n : i < nextPage /\ outcomes[i].what # "waiting"
    <3>1. HuntWorkers \in Nat \ {0} /\ DOMAIN busy = 1 .. HuntWorkers /\ nextPage \in Nat
      BY HuntAssumption DEF HuntInv, HuntPool
    <3>2. 1 \in DOMAIN busy /\ busy[1] = 0
      BY <1>1, <3>1
    <3>3. nextPage > n
      BY <1>1, <3>2 DEF HuntInv, HuntPages
    <3>4. ASSUME NEW i \in 1 .. n, outcomes[i].what = "waiting" PROVE FALSE
      <4>1. i < nextPage
        BY <1>4, <3>1, <3>3
      <4>2. PICK w \in DOMAIN busy : busy[w] = i
        BY <1>1, <1>4, <3>4, <4>1 DEF HuntInv, HuntPages
      <4> QED
        BY <1>1, <4>2
    <3> QED
      BY <1>4, <3>1, <3>3, <3>4
  <2>2. r.pages = [i \in 1 .. n |-> r.pages[i]] /\ \A i \in 1 .. n : r.pages[i].url = candidates[i].url /\ r.pages[i].what = outcomes[i].what
    BY <1>2, <1>4
  <2>3. Len(r.pages) = n /\ DOMAIN r.pages = 1 .. n
    BY <1>4, <2>2, RowsList
  <2>4. ApartRows(candidates)
    BY <1>1 DEF HuntInv, HuntPages
  <2> QED
    BY <1>2, <1>4, <2>1, <2>2, <2>3, <2>4 DEF ReportIs, ApartRows
<1> HIDE DEF n, k
<1>8. HuntTypes'
  <2>1. IsRows(<<>>)
    BY DEF IsRows
  <2>2. IsRows(candidates)' /\ IsRows(reports)'
    BY <1>1, <1>5, <2>1 DEF IsRows
  <2>3. HuntIs(hunt)' /\ IsRows(chosen)' /\ ApartRows(chosen)' /\ WebIs(web)'
    BY <1>1 DEF HuntInv, HuntTypes, HuntIs, WebIs, IsRows, ApartRows
  <2>4. siteAt' \in Nat
    BY <1>1, <1>3
  <2> QED
    BY <1>1, <2>2, <2>3, <2>4 DEF HuntTypes, Hunting
<1>9. HuntPlace'
  <2>1. \A i \in 1 .. k : reports[i].site = chosen[i].url /\ ReportIs(reports[i])
    BY <1>4 DEF HuntInv, HuntPlace
  <2>2. \A i \in 1 .. k + 1 : reports'[i].site = chosen[i].url /\ ReportIs(reports'[i])
    <3> TAKE i \in 1 .. k + 1
    <3>1. CASE i \in 1 .. k
      BY <1>5, <2>1, <3>1
    <3>2. CASE i = k + 1
      BY <1>2, <1>3, <1>4, <1>5, <1>7, <3>2
    <3> QED
      BY <1>4, <3>1, <3>2
  <2>3. \A i \in DOMAIN reports' : reports'[i].site = chosen'[i].url /\ ReportIs(reports'[i])
    BY <1>1, <1>6, <2>2
  <2>4. huntPc' = "layouts" => siteAt' <= Len(chosen')
    BY <1>1, <1>3, <1>4
  <2>5. huntPc' = "done" => Len(reports') = Len(chosen')
    BY <1>1, <1>3, <1>4, <1>5
  <2>6. siteAt' >= 1 /\ Len(reports') = siteAt' - 1 /\ Len(reports') <= Len(chosen')
    BY <1>1, <1>3, <1>4, <1>5
  <2>7. huntPc' \in {"layouts", "done"}
    BY <1>1
  <2>8. (\A i \in DOMAIN reports : reports[i].site = chosen[i].url /\ ReportIs(reports[i]))'
    BY <2>3 DEF ReportIs
  <2> QED
    BY <2>4, <2>5, <2>6, <2>7, <2>8 DEF HuntPlace, Hunting
<1>10. HuntPool' /\ HuntPages'
  BY <1>1 DEF HuntInv, HuntPool, HuntPages
<1> QED
  BY <1>8, <1>9, <1>10 DEF HuntInv

\* A request fails, the portal changes, or the process is asked again.
LEMMA OtherHunts == ASSUME HuntInv, HuntFails \/ EditPortal \/ HuntAgain \/ UNCHANGED huntVars PROVE HuntInv'
<1>1. WebIs(web) /\ IsRows(candidates) /\ HuntIs(hunt)
  BY DEF HuntInv, HuntTypes
<1>2. CASE HuntFails
  <2>1. Hunting /\ huntPc' = "error" /\ UNCHANGED <<hunt, web, chosen, siteAt, reports, nextPage, busy, outcomes, candidates>>
    BY <1>2 DEF HuntFails, SamePortal, PoolIdle, HuntGoes, Hunting
  <2> QED
    BY <1>1, <2>1, ListingHunts
<1>3. CASE EditPortal \/ UNCHANGED huntVars
  <2>1. UNCHANGED <<hunt, huntPc, chosen, siteAt, reports, nextPage, busy, outcomes, candidates>> /\ WebIs(web')
    BY <1>1, <1>3 DEF EditPortal, huntVars, HuntIs
  <2>2. HuntTypes' /\ HuntPlace'
    BY <1>1, <2>1, RestHunts
  <2>3. HuntPool' /\ HuntPages'
    BY <2>1 DEF HuntInv, HuntPool, HuntPages, ApartRows
  <2> QED
    BY <2>2, <2>3 DEF HuntInv
<1>4. CASE HuntAgain
  <2>1. /\ UNCHANGED <<web, chosen, siteAt, nextPage, busy, outcomes, candidates>> /\ huntPc' = "start" /\ reports' = <<>>
        /\ hunt' \in {hunt, [hunt EXCEPT !.refused = {}]}
    BY <1>4 DEF HuntAgain, HuntGoes
  <2>2. DOMAIN hunt' = DOMAIN hunt /\ hunt'.query = hunt.query /\ hunt'.web = hunt.web /\ hunt'.edits = hunt.edits
    BY <1>1, <2>1 DEF HuntIs
  <2>3. HuntIs(hunt)'
    BY <1>1, <2>2 DEF HuntIs, WebIs
  <2>4. IsRows(<<>>)
    BY DEF IsRows
  <2>5. HuntTypes'
    BY <1>1, <2>1, <2>3, <2>4 DEF HuntInv, HuntTypes, WebIs, IsRows, ApartRows, Hunting
  <2>6. HuntPlace'
    BY <2>1 DEF HuntPlace, Hunting
  <2>7. HuntPool' /\ HuntPages'
    BY <2>1 DEF HuntInv, HuntPool, HuntPages
  <2> QED
    BY <2>5, <2>6, <2>7 DEF HuntInv
<1> QED
  BY <1>2, <1>3, <1>4

\* The invariant says how pages are counted.
LEMMA HuntsHold == HuntInv => EveryPageIsCounted
<1> SUFFICES ASSUME HuntInv PROVE EveryPageIsCounted
  OBVIOUS
<1>1. \A v, w \in DOMAIN busy : v # w /\ busy[v] # 0 => busy[v] # busy[w]
  BY DEF HuntInv, HuntPool
<1>2. /\ Len(reports) \in Nat /\ DOMAIN reports = 1 .. Len(reports) /\ Len(chosen) \in Nat /\ DOMAIN chosen = 1 .. Len(chosen)
      /\ ApartRows(chosen) /\ (Len(reports) # 0 => Len(reports) <= Len(chosen))
  BY RowsAre DEF HuntInv, HuntTypes, HuntPlace
<1>3. \A i \in DOMAIN reports : i \in DOMAIN chosen /\ reports[i].site = chosen[i].url /\ ReportIs(reports[i])
  <2>1. \A i \in DOMAIN reports : reports[i].site = chosen[i].url /\ ReportIs(reports[i])
    BY DEF HuntInv, HuntPlace
  <2>2. \A i \in DOMAIN reports : i \in DOMAIN chosen
    BY <1>2
  <2> QED
    BY <2>1, <2>2
<1>4. \A i, h \in DOMAIN reports : reports[h].site = reports[i].site => h = i
  BY <1>2, <1>3 DEF ApartRows
<1>5. huntPc = "done" /\ ~Query.plan => Len(reports) = Len(chosen)
  BY DEF HuntInv, HuntPlace
<1> QED
  BY <1>1, <1>3, <1>4, <1>5 DEF EveryPageIsCounted, ReportIs

(* Whatever the portal has, refuses or changes, with any number of workers: *)
(* no two inspect one page, every page of a site is counted once as what    *)
(* became of it, and the sites chosen are scanned once each (scanSite).     *)
THEOREM PagesAreCounted == HuntSpec => []EveryPageIsCounted
<1>1. HuntInit => HuntInv
  BY HuntStarts
<1>2. HuntInv /\ [HuntNext]_huntVars => HuntInv'
  BY ResolveHunts, ListHunts, InspectHunts, ScannedHunts, OtherHunts DEF HuntNext, HuntStep
<1>3. HuntInv => EveryPageIsCounted
  BY HuntsHold
<1> QED
  BY <1>1, <1>2, <1>3, PTL DEF HuntSpec

-----------------------------------------------------------------------------
(* How sites are found (SiteLookup): what is remembered and since when it   *)
(* was so, what the endpoints asked so far have not shown, and how far a    *)
(* chain goes.                                                              *)
\* Phases: of a lookup that asks for one site, and of a walk over the groups.
Asking == {"cache", "id", "adminUrl", "userUrl", "search"}
Grouping == {"companies", "count", "groups", "nextCompany", "noMore"}
LookTypes ==
  /\ look \in LookupCases
  /\ lookPc \in Asking \cup Grouping \cup {"start", "list", "parents", "company", "done", "notFound", "error"}
  /\ task \in Nat /\ task <= Len(look.tasks) /\ (lookPc # "start" => task >= 1)
  /\ clock \in Nat /\ spot \in [company : Nat \ {0}, total : Nat, start : Nat]
  /\ lookPc \in {"count", "groups", "nextCompany"} => spot.company <= Len(look.companies)
  /\ lookPc = "start" => chain = <<>>
\* The portal's sites are those it had at first, some renamed and some gone, the global one as it was.
LookSites ==
  /\ DOMAIN sites \subseteq DOMAIN look.sites
  /\ \A g \in DOMAIN sites :
       /\ DOMAIN sites[g] = DOMAIN look.sites[g]
       /\ sites[g].company = look.sites[g].company /\ sites[g].parent = look.sites[g].parent
       /\ sites[g].url = "global" => look.sites[g].url = "global"
       /\ \A h \in DOMAIN sites : sites[g].company = sites[h].company /\ sites[g].url = sites[h].url => g = h
  /\ \E g \in DOMAIN sites : sites[g].url = "global" /\ sites[g].company = look.own
LookWas ==
  /\ \A p \in DOMAIN was : was[p] \in Nat /\ was[p] <= clock
  /\ \A g \in DOMAIN sites : <<g, sites[g].url>> \in DOMAIN was /\ was[<<g, sites[g].url>>] = clock
\* What is remembered was so when it was found, and what is asked for by its URL had it then.
TheGlobal == ByUrl("global", DOMAIN sites)
LookKnown ==
  \A k \in DOMAIN known :
    /\ known[k].at \in Nat /\ known[k].at <= clock
    /\ k.slash => <<known[k].id, k.text>> \in DOMAIN was /\ known[k].at <= was[<<known[k].id, k.text>>]
    /\ k = GlobalSite /\ look.refused = {} => known[k].id \in TheGlobal
    /\ quiet => known[k].id \in DOMAIN sites
\* Which phase belongs to which command.
LookOp ==
  /\ lookPc \in Asking => Op # "list"
  /\ lookPc = "list" => Listing
  /\ lookPc = "parents" => Op = "chain" /\ chain # <<>>
  /\ lookPc = "company" => Op = "company" /\ Len(chain) = 1 /\ (quiet => chain[1] \in DOMAIN sites)
  /\ Op \in {"resolve", "list", "sites"} => chain = <<>>
  /\ lookPc = "done" /\ Op = "resolve" => asOf \in Nat
\* Who asks for the global site by its URL, and is refused nothing, has it before any list is asked for.
LookGlobal ==
  look.refused = {} /\ Wanted = GlobalSite => lookPc # "search" /\ (lookPc \in Grouping => Listing)
\* What was asked so far has not shown the site: what did not refuse cannot show it.
Sought == ByUrl(Wanted.text, DOMAIN sites)
GroupsHide(i) == \A g \in Sought : sites[g].site /\ sites[g].company = look.companies[i] => {"count", "groups"} \cap look.refused # {}
SearchMissed == \A i \in DOMAIN AdminSites : i <= spot.start => AdminSites[i] \notin Sought
GroupsMissed ==
  LET gs == CompanyGroups(look.companies[spot.company])
  IN  /\ spot.total = Len(gs)
      /\ \A i \in DOMAIN gs : i <= spot.start /\ "groups" \notin look.refused => ~(gs[i] \in Sought /\ sites[gs[i]].site)
LookMissed ==
  quiet /\ Op = "resolve" =>
    /\ lookPc \in {"userUrl", "search"} \cup Grouping => \A g \in Sought : sites[g].admin => "admin-url" \in look.refused
    /\ lookPc \in {"search"} \cup Grouping => \A g \in Sought : "user-url" \in look.refused
    /\ lookPc = "search" => SearchMissed
    /\ lookPc \in Grouping => \A g \in Sought : sites[g].admin => "admin-list" \in look.refused
    /\ lookPc \in {"count", "groups"} => \A i \in 1 .. spot.company - 1 : GroupsHide(i)
    /\ lookPc = "groups" => GroupsMissed
    /\ lookPc = "nextCompany" => \A i \in 1 .. spot.company : GroupsHide(i)
    /\ lookPc = "noMore" => "companies" \in look.refused \/ \A i \in DOMAIN look.companies : GroupsHide(i)
\* A chain that nobody disturbs goes from each site to its parent.
ChainSoFar ==
  /\ \A i \in DOMAIN chain : chain[i] \in DOMAIN sites
  /\ \A i \in DOMAIN chain : i > 1 => chain[i] = sites[chain[i - 1]].parent
ChainClosed == \A i \in DOMAIN chain : sites[chain[i]].parent \in DOMAIN sites => sites[chain[i]].parent \in ToSet(chain)
LookChain ==
  /\ IsRows(chain) /\ IsInjective(chain)
  /\ Op = "chain" /\ quiet /\ look.refused = {} /\ chain # <<>> =>
       /\ lookPc \in {"parents", "cache", "id", "adminUrl", "userUrl"} => ChainSoFar
       /\ lookPc \in {"cache", "id", "adminUrl", "userUrl"} => ChainClosed
LookInv ==
  /\ LookTypes /\ LookSites /\ LookWas /\ LookKnown /\ LookOp /\ LookGlobal /\ LookMissed /\ LookChain
  /\ ExactIsOwn /\ NotFoundMeansRefused /\ ChainIsPath /\ CompanyIsOwn

\* What the assumption says of the case at hand.
LEMMA LookAssumed ==
  ASSUME LookTypes
  PROVE  /\ DOMAIN look = {"sites", "own", "companies", "refused", "tasks", "numeric", "within", "urls"}
         /\ look.tasks \in Seq([op : {"resolve", "company", "chain", "list", "sites"}, site : [slash : BOOLEAN, text : STRING]])
         /\ IsFiniteSet(DOMAIN look.sites) /\ DOMAIN look.sites \subseteq Nat \ {0}
         /\ look.companies \in Seq(Nat \ {0}) /\ look.own \in ToSet(look.companies)
         /\ \A g \in DOMAIN look.sites :
              /\ DOMAIN look.sites[g] = {"url", "name", "parent", "company", "site", "admin"}
              /\ look.sites[g].company \in ToSet(look.companies)
              /\ \A h \in DOMAIN look.sites : look.sites[g].company = look.sites[h].company /\ look.sites[g].url = look.sites[h].url => g = h
              /\ look.sites[g].url = "global" => look.sites[g].parent = 0
         /\ "global" \notin look.urls /\ SiteTtl \in Nat /\ LookupPage \in Nat \ {0}
BY LookupAssumption DEF LookTypes

\* A place of a list holds one of its set.
LEMMA MemberOf == ASSUME NEW S, NEW q \in Seq(S), NEW i \in 1 .. Len(q) PROVE q[i] \in S
OBVIOUS

\* Which commands there are.
LEMMA OpIs ==
  ASSUME LookTypes, lookPc # "start"
  PROVE  /\ Op \in {"resolve", "company", "chain", "list", "sites"}
         /\ Wanted.slash \in BOOLEAN /\ DOMAIN Wanted = {"slash", "text"}
<1>1. /\ look.tasks \in Seq([op : {"resolve", "company", "chain", "list", "sites"}, site : [slash : BOOLEAN, text : STRING]])
      /\ task \in 1 .. Len(look.tasks)
  BY LookAssumed DEF LookTypes
<1>2. look.tasks[task] \in [op : {"resolve", "company", "chain", "list", "sites"}, site : [slash : BOOLEAN, text : STRING]]
  BY <1>1, MemberOf
<1> QED
  BY <1>2 DEF Op, Wanted, GlobalSite

\* At the start nothing was asked for.
LEMMA LookStarts == LookupInit => LookInv
<1> SUFFICES ASSUME LookupInit PROVE LookInv
  OBVIOUS
<1> USE DEF LookupInit, LookupStart
<1>1. LookTypes
  <2>1. look.tasks \in Seq([op : {"resolve", "company", "chain", "list", "sites"}, site : [slash : BOOLEAN, text : STRING]])
    BY LookupAssumption
  <2>2. Len(look.tasks) \in Nat /\ task = 0
    BY <2>1
  <2> QED
    BY <2>2 DEF LookTypes
<1>2. LookSites
  <2>1. \E g \in DOMAIN look.sites : look.sites[g].url = "global" /\ look.sites[g].company = look.own
    BY LookupAssumption
  <2> QED
    BY <1>1, <2>1, LookAssumed DEF LookSites
<1>3. LookWas
  BY DEF LookWas
<1>4. LookKnown /\ LookOp /\ LookGlobal /\ LookMissed /\ ExactIsOwn /\ NotFoundMeansRefused /\ CompanyIsOwn
  BY DEF LookKnown, LookOp, LookGlobal, LookMissed, ExactIsOwn, NotFoundMeansRefused, CompanyIsOwn, Asking, Grouping
<1>5. IsRows(<<>>) /\ IsInjective(<<>>)
  BY DEF IsRows, IsInjective
<1>6. LookChain /\ ChainIsPath
  BY <1>5 DEF LookChain, ChainIsPath
<1> QED
  BY <1>1, <1>2, <1>3, <1>4, <1>6 DEF LookInv

\* What is unchanged where only the phase, the place in a list and the result change.
Placed == UNCHANGED <<look, lookupPortal, clock, task, quiet>>
\* Where the portal, the time and what is remembered stay, so does what is known of them.
LEMMA PlacedKeeps ==
  ASSUME LookInv, Placed, UNCHANGED known
  PROVE  LookSites' /\ LookWas' /\ LookKnown' /\ Op' = Op
<1> USE DEF Placed, lookupPortal, LookInv
<1>1. Op' = Op
  BY DEF Op
<1>2. LookSites'
  BY DEF LookSites
<1>3. LookWas'
  BY DEF LookWas
<1>4. TheGlobal' = TheGlobal
  BY DEF TheGlobal, ByUrl
<1>5. LookKnown'
  <2> SUFFICES ASSUME NEW k \in DOMAIN known
               PROVE  /\ known[k].at \in Nat /\ known[k].at <= clock
                      /\ k.slash => <<known[k].id, k.text>> \in DOMAIN was /\ known[k].at <= was[<<known[k].id, k.text>>]
                      /\ k = GlobalSite /\ look.refused = {} => known[k].id \in TheGlobal
                      /\ quiet => known[k].id \in DOMAIN sites
    BY <1>4 DEF LookKnown, GlobalSite
  <2> QED
    BY DEF LookKnown
<1> QED
  BY <1>1, <1>2, <1>3, <1>5

\* A site that is answered with: it had the URL asked for lately, and is there if nothing changed.
Fits(g) ==
  /\ Wanted.slash => <<g, Wanted.text>> \in DOMAIN was /\ clock - was[<<g, Wanted.text>>] <= SiteTtl
  /\ look.refused = {} /\ Wanted = GlobalSite => g \in TheGlobal
  /\ quiet => g \in DOMAIN sites

\* A chain that has begun asks for the global site.
LEMMA WantsGlobal ==
  ASSUME LookTypes, Op = "chain", chain # <<>>
  PROVE  Wanted = GlobalSite
BY DEF Wanted

\* A chain whose last site is the global one is whole.
LEMMA ChainEnds ==
  ASSUME LookInv, NEW c, NEW g, c = (IF g \in ToSet(chain) THEN chain ELSE Append(chain, g)),
         ChainSoFar, ChainClosed, g \in TheGlobal
  PROVE  /\ TheGlobal \subseteq ToSet(c)
         /\ \A i \in DOMAIN c : i > 1 /\ c[i] \notin TheGlobal => c[i] = sites[c[i - 1]].parent
         /\ {sites[h].parent : h \in ToSet(c)} \cap DOMAIN sites \subseteq ToSet(c)
<1>1. TheGlobal = {g} /\ g \in DOMAIN sites /\ sites[g].parent = 0
  <2>1. g \in DOMAIN sites /\ sites[g].url = "global" /\ sites[g].company = look.own
    BY DEF TheGlobal, ByUrl
  <2>2. \A h \in TheGlobal : h \in DOMAIN sites /\ sites[h].url = "global" /\ sites[h].company = look.own
    BY DEF TheGlobal, ByUrl
  <2>3. TheGlobal = {g}
    BY <2>1, <2>2 DEF LookInv, LookSites
  <2>4. LookTypes /\ g \in DOMAIN look.sites /\ look.sites[g].url = "global" /\ sites[g].parent = look.sites[g].parent
    BY <2>1 DEF LookInv, LookSites
  <2>5. look.sites[g].parent = 0
    BY <2>4, LookAssumed
  <2> QED
    BY <2>1, <2>3, <2>4, <2>5
<1>2. 0 \notin DOMAIN sites
  <2>1. LookTypes /\ DOMAIN sites \subseteq DOMAIN look.sites
    BY DEF LookInv, LookSites
  <2> QED
    BY <2>1, LookAssumed
<1>3. IsRows(chain) /\ Len(chain) \in Nat /\ DOMAIN chain = 1 .. Len(chain)
  BY RowsAre DEF LookInv, LookChain
<1> DEFINE n == Len(chain)
<1>4. PICK m \in Nat : DOMAIN c = 1 .. m /\ n <= m /\ (\A i \in 1 .. n : c[i] = chain[i]) /\ (\A i \in 1 .. m : i \notin 1 .. n => c[i] = g)
                      /\ \E i \in 1 .. m : c[i] = g
  <2>1. CASE g \in ToSet(chain)
    <3>1. c = chain /\ \E i \in 1 .. n : chain[i] = g
      BY <1>3, <2>1 DEF ToSet
    <3>2. n \in Nat /\ n <= n
      BY <1>3
    <3>3. DOMAIN c = DOMAIN chain
      BY <3>1, Zenon
    <3>4. DOMAIN c = 1 .. n
      BY <1>3, <3>3
    <3> HIDE DEF n
    <3> QED
      BY <3>1, <3>2, <3>4
  <2>2. CASE g \notin ToSet(chain)
    <3>1. /\ IsRows(c) /\ Len(c) = n + 1 /\ (\A i \in DOMAIN chain : c[i] = chain[i]) /\ c[n + 1] = g
      BY <1>3, <2>2, RowsAdd
    <3>2. DOMAIN c = 1 .. n + 1
      BY <3>1, RowsAre
    <3>3. n + 1 \in Nat /\ n \in Nat /\ n <= n + 1 /\ \A i \in 1 .. n + 1 : i \notin 1 .. n => i = n + 1
      BY <1>3
    <3>4. n + 1 \in 1 .. n + 1
      BY <1>3
    <3> HIDE DEF n
    <3> QED
      BY <1>3, <3>1, <3>2, <3>3, <3>4
  <2> QED
    BY <2>1, <2>2
<1>5. ToSet(chain) \subseteq ToSet(c) /\ g \in ToSet(c)
  BY <1>3, <1>4 DEF ToSet
<1>6. ASSUME NEW i \in 1 .. m, i > 1, c[i] # g PROVE c[i] = sites[c[i - 1]].parent
  <2>1. i \in 1 .. n /\ i - 1 \in 1 .. n
    BY <1>3, <1>4, <1>6
  <2> HIDE DEF n
  <2> QED
    BY <1>3, <1>4, <1>6, <2>1 DEF ChainSoFar, n
<1>7. ASSUME NEW h \in ToSet(c), sites[h].parent \in DOMAIN sites PROVE sites[h].parent \in ToSet(c)
  <2>1. PICK i \in 1 .. m : c[i] = h
    BY <1>4 DEF ToSet
  <2>2. i \in 1 .. n /\ chain[i] = h
    BY <1>1, <1>2, <1>4, <1>7, <2>1
  <2>3. sites[h].parent \in ToSet(chain)
    BY <1>3, <1>7, <2>2 DEF ChainClosed
  <2> QED
    BY <1>5, <2>3
<1> QED
  BY <1>1, <1>4, <1>5, <1>6, <1>7

\* A lookup is answered with a site that fits.
LEMMA AnswerKeeps ==
  ASSUME LookInv, Elsewhere, NEW g, NEW url, Fits(g), AnswerWith(g, url),
         lookPc \in Asking \cup {"groups"}, lookPc = "groups" => ~Listing
  PROVE  /\ LookTypes' /\ LookOp' /\ LookGlobal' /\ LookMissed' /\ LookChain'
         /\ ExactIsOwn' /\ NotFoundMeansRefused' /\ ChainIsPath' /\ CompanyIsOwn'
<1>1. /\ Placed /\ result' = g /\ asOf' = clock /\ spot' = [company |-> 1, total |-> 0, start |-> 0]
  BY DEF Elsewhere, Placed, AnswerWith, Goes
<1>2. LookTypes /\ lookPc # "start" /\ LookChain
  BY DEF LookInv, Asking
<1>3. Op \in {"resolve", "company", "chain", "sites"} /\ Op' = Op
  <2>1. Op \in {"resolve", "company", "chain", "list", "sites"}
    BY <1>2, OpIs
  <2>2. Op # "list"
    BY DEF LookInv, LookOp, Listing
  <2> QED
    BY <1>1, <2>1, <2>2 DEF Op, Placed
<1>4. spot' \in [company : Nat \ {0}, total : Nat, start : Nat]
  BY <1>1
<1>5. ASSUME lookPc' \in {"done", "parents", "company"}
      PROVE  LookTypes' /\ LookMissed' /\ LookGlobal' /\ NotFoundMeansRefused'
  <2>1. LookTypes'
    BY <1>1, <1>2, <1>4, <1>5 DEF LookTypes, Placed
  <2> QED
    BY <1>5, <2>1 DEF LookMissed, LookGlobal, NotFoundMeansRefused, Grouping
<1>6. CASE Op \in {"resolve", "sites"}
  <2>1. lookPc' = "done" /\ chain' = chain
    BY <1>6 DEF AnswerWith, Goes
  <2>2. Wanted' = Wanted
    BY <1>1, <1>3, <2>1 DEF Wanted, Placed, GlobalSite
  <2>3. ExactIsOwn'
    BY <1>1, <2>2 DEF ExactIsOwn, Fits, Placed, lookupPortal
  <2>4. LookOp' /\ CompanyIsOwn'
    BY <1>1, <1>2, <1>3, <1>6, <2>1 DEF LookOp, CompanyIsOwn, Asking, LookInv, LookTypes
  <2>5. LookChain' /\ ChainIsPath'
    BY <1>2, <1>3, <1>6, <2>1 DEF LookChain, ChainIsPath, IsRows, IsInjective
  <2> QED
    BY <1>5, <2>1, <2>3, <2>4, <2>5
<1>7. CASE Op = "company" \/ (Op = "chain" /\ chain = <<>>)
  <2>1. lookPc' = (IF Op = "chain" THEN "parents" ELSE "company") /\ chain' = <<g>>
    BY <1>7 DEF AnswerWith, Goes
  <2>2. IsRows(<<g>>) /\ IsInjective(<<g>>) /\ Len(<<g>>) = 1 /\ <<g>>[1] = g /\ DOMAIN <<g>> = {1} /\ <<g>> # <<>>
    <3>1. <<g>> \in Seq({g})
      OBVIOUS
    <3>2. IsRows(<<g>>)
      BY <3>1 DEF IsRows
    <3>3. Len(<<g>>) = 1 /\ <<g>>[1] = g /\ DOMAIN <<g>> = {1}
      OBVIOUS
    <3>4. IsInjective(<<g>>) /\ <<g>> # <<>>
      BY <3>3 DEF IsInjective
    <3> QED
      BY <3>2, <3>3, <3>4
  <2>3. quiet' => g \in DOMAIN sites'
    BY <1>1 DEF Fits, Placed, lookupPortal
  <2>4. ExactIsOwn' /\ CompanyIsOwn'
    BY <2>1 DEF ExactIsOwn, CompanyIsOwn
  <2>5. LookOp'
    BY <1>3, <1>7, <2>1, <2>2, <2>3 DEF LookOp, Asking
  <2>6. LookChain'
    <3>1. IsRows(chain)' /\ IsInjective(chain)' /\ DOMAIN chain' = {1} /\ chain'[1] = g
      BY <2>1, <2>2 DEF IsRows, IsInjective
    <3>2. quiet' => ChainSoFar'
      BY <2>3, <3>1 DEF ChainSoFar
    <3> QED
      BY <2>1, <3>1, <3>2 DEF LookChain
  <2>7. ChainIsPath'
    BY <2>1, <2>6 DEF ChainIsPath, LookChain
  <2> QED
    BY <1>5, <2>1, <2>4, <2>5, <2>6, <2>7
<1>8. CASE Op = "chain" /\ chain # <<>>
  <2>1. lookPc' = "done" /\ chain' = (IF g \in ToSet(chain) THEN chain ELSE Append(chain, g))
    BY <1>8 DEF AnswerWith, Goes
  <2>2. ExactIsOwn' /\ CompanyIsOwn' /\ LookOp'
    BY <1>3, <1>8, <2>1 DEF ExactIsOwn, CompanyIsOwn, LookOp, Asking
  <2>3. IsRows(chain') /\ IsInjective(chain')
    <3>1. CASE g \in ToSet(chain)
      BY <1>2, <2>1, <3>1 DEF LookChain
    <3>2. CASE g \notin ToSet(chain)
      <4>1. Len(chain) \in Nat /\ DOMAIN chain = 1 .. Len(chain)
        BY <1>2, RowsAre DEF LookChain
      <4>2. /\ IsRows(chain') /\ Len(chain') = Len(chain) + 1 /\ (\A i \in DOMAIN chain : chain'[i] = chain[i]) /\ chain'[Len(chain) + 1] = g
        BY <1>2, <2>1, <3>2, RowsAdd DEF LookChain
      <4>3. DOMAIN chain' = 1 .. Len(chain) + 1
        BY <4>2, RowsAre
      <4>4. \A i \in DOMAIN chain : chain[i] # g
        BY <3>2 DEF ToSet
      <4>5. \A i \in 1 .. Len(chain) + 1 : i \in 1 .. Len(chain) \/ i = Len(chain) + 1
        BY <4>1
      <4>6. \A a, b \in DOMAIN chain : chain[a] = chain[b] => a = b
        BY <1>2 DEF LookChain, IsInjective
      <4> QED
        BY <4>1, <4>2, <4>3, <4>4, <4>5, <4>6 DEF IsInjective
    <3> QED
      BY <3>1, <3>2
  <2>4. LookChain'
    BY <2>1, <2>3 DEF LookChain, IsRows, IsInjective
  <2>5. ChainIsPath'
    <3>1. CASE quiet /\ look.refused = {}
      <4>1. Wanted = GlobalSite
        BY <1>2, <1>8, WantsGlobal
      <4>2. g \in TheGlobal
        BY <3>1, <4>1 DEF Fits
      <4>3. lookPc \in {"cache", "id", "adminUrl", "userUrl"}
        BY <1>8, <3>1, <4>1 DEF LookInv, LookGlobal, Asking, Grouping, Listing
      <4>4. ChainSoFar /\ ChainClosed
        BY <1>2, <1>8, <3>1, <4>3 DEF LookChain
      <4>5. PICK c : c = chain'
        OBVIOUS
      <4>6. /\ TheGlobal \subseteq ToSet(c)
            /\ \A i \in DOMAIN c : i > 1 /\ c[i] \notin TheGlobal => c[i] = sites[c[i - 1]].parent
            /\ {sites[h].parent : h \in ToSet(c)} \cap DOMAIN sites \subseteq ToSet(c)
        BY <2>1, <4>2, <4>4, <4>5, ChainEnds
      <4>7. sites' = sites /\ TheGlobal = ByUrl("global", DOMAIN sites)' /\ ToSet(chain)' = ToSet(c)
        BY <1>1, <4>5 DEF TheGlobal, ByUrl, Placed, lookupPortal, ToSet
      <4> QED
        BY <2>3, <4>5, <4>6, <4>7 DEF ChainIsPath, IsInjective
    <3>2. CASE ~(quiet /\ look.refused = {})
      BY <1>1, <2>3, <3>2 DEF ChainIsPath, IsInjective, Placed
    <3> QED
      BY <3>1, <3>2
  <2> QED
    BY <1>5, <2>1, <2>2, <2>4, <2>5
<1> QED
  BY <1>3, <1>6, <1>7, <1>8

\* An endpoint shows the site, which is remembered.
LEMMA FoundKeeps ==
  ASSUME LookInv, Elsewhere, NEW g \in DOMAIN sites, FoundSite(g), lookPc \in Asking \cup {"groups"}, lookPc = "groups" => ~Listing,
         Wanted.slash => sites[g].url = Wanted.text, look.refused = {} /\ Wanted = GlobalSite => g \in TheGlobal
  PROVE  LookInv'
<1>1. AnswerWith(g, sites[g].url) /\ known' = Noting(known, {Wanted}, [id |-> g, url |-> sites[g].url, at |-> clock])
  BY DEF FoundSite
<1>2. <<g, sites[g].url>> \in DOMAIN was /\ was[<<g, sites[g].url>>] = clock
  BY DEF LookInv, LookWas
<1>3. clock \in Nat /\ SiteTtl \in Nat /\ clock - clock <= SiteTtl
  <2>1. clock \in Nat /\ SiteTtl \in Nat
    BY LookupAssumption DEF LookInv, LookTypes
  <2> QED
    BY <2>1
<1>4. Fits(g)
  BY <1>2, <1>3 DEF Fits
<1>5. /\ LookTypes' /\ LookOp' /\ LookGlobal' /\ LookMissed' /\ LookChain'
      /\ ExactIsOwn' /\ NotFoundMeansRefused' /\ ChainIsPath' /\ CompanyIsOwn'
  BY <1>1, <1>4, AnswerKeeps
<1>6. LookSites' /\ LookWas' /\ UNCHANGED <<look, sites, was, clock, quiet>> /\ TheGlobal' = TheGlobal
  BY DEF LookInv, LookSites, LookWas, Elsewhere, lookupPortal, TheGlobal, ByUrl
<1>7. LookKnown'
  <2> SUFFICES ASSUME NEW k \in DOMAIN known'
               PROVE  /\ known'[k].at \in Nat /\ known'[k].at <= clock
                      /\ k.slash => <<known'[k].id, k.text>> \in DOMAIN was /\ known'[k].at <= was[<<known'[k].id, k.text>>]
                      /\ k = GlobalSite /\ look.refused = {} => known'[k].id \in TheGlobal
                      /\ quiet => known'[k].id \in DOMAIN sites
    BY <1>6 DEF LookKnown, GlobalSite
  <2>1. CASE k = Wanted
    <3>1. known'[k].id = g /\ known'[k].at = clock
      BY <1>1, <2>1 DEF Noting
    <3> QED
      BY <1>2, <1>3, <2>1, <3>1
  <2>2. CASE k # Wanted
    <3>1. k \in DOMAIN known /\ known'[k] = known[k]
      BY <1>1, <2>2 DEF Noting
    <3> QED
      BY <3>1 DEF LookInv, LookKnown
  <2> QED
    BY <2>1, <2>2
<1> QED
  BY <1>5, <1>6, <1>7 DEF LookInv

\* A step that answers nothing yet: what it has to see to.
LEMMA PassKeeps ==
  ASSUME LookInv, Placed, UNCHANGED <<known, chain>>, lookPc # "start",
         spot' \in [company : Nat \ {0}, total : Nat, start : Nat],
         lookPc' \in Asking \cup Grouping \cup {"list", "done", "notFound", "error"},
         lookPc' \in {"count", "groups", "nextCompany"} => spot'.company <= Len(look.companies),
         lookPc' \in Asking => Op # "list",
         lookPc' = "list" => Listing,
         lookPc' = "done" => Op \in {"list", "sites"} \/ (Op = "chain" /\ look.refused # {}),
         lookPc' \in {"cache", "id", "adminUrl", "userUrl"} => lookPc \in {"cache", "id", "adminUrl", "userUrl"} \/ chain = <<>>,
         look.refused = {} /\ Wanted = GlobalSite => lookPc' # "search" /\ (lookPc' \in Grouping => Listing)
  PROVE  /\ LookMissed' /\ NotFoundMeansRefused' => LookInv'
         /\ Op' = Op /\ Wanted' = Wanted /\ Sought' = Sought
<1> USE DEF LookInv
<1>1. LookSites' /\ LookWas' /\ LookKnown' /\ Op' = Op
  BY PlacedKeeps
<1>2. Wanted' = Wanted /\ UNCHANGED <<look, sites, was, quiet>>
  BY <1>1 DEF Wanted, Placed, lookupPortal, GlobalSite
<1>3. Sought' = Sought
  BY <1>2 DEF Sought, ByUrl
<1>4. LookTypes'
  BY DEF LookTypes, Placed, Asking, Grouping
<1>5. LookOp'
  BY <1>1 DEF LookOp, Listing, Asking, Grouping
<1>6. LookGlobal'
  BY <1>1, <1>2 DEF LookGlobal, Listing, GlobalSite
<1>7. LookChain'
  <2>1. IsRows(chain)' /\ IsInjective(chain)'
    BY DEF LookChain, IsRows, IsInjective
  <2>2. ChainSoFar' = ChainSoFar /\ ChainClosed' = ChainClosed
    BY <1>2 DEF ChainSoFar, ChainClosed, ToSet
  <2>3. lookPc' # "parents"
    BY DEF Asking, Grouping
  <2> QED
    BY <1>1, <1>2, <2>1, <2>2, <2>3 DEF LookChain
<1>8. ExactIsOwn' /\ CompanyIsOwn'
  BY <1>1 DEF ExactIsOwn, CompanyIsOwn
<1>9. ChainIsPath'
  BY <1>1, <1>2, <1>7 DEF ChainIsPath, LookChain
<1> QED
  BY <1>1, <1>2, <1>3, <1>4, <1>5, <1>6, <1>7, <1>8, <1>9

\* The sites in the order of their ids.
LEMMA OrderIs ==
  ASSUME LookInv, NEW ids \in SUBSET DOMAIN sites, NEW q, q = InOrder(ids)
  PROVE  /\ q \in Seq(DOMAIN sites) /\ Len(q) \in Nat /\ DOMAIN q = 1 .. Len(q) /\ \A i \in 1 .. Len(q) : q[i] \in ids
         /\ \A g \in ids : \E i \in 1 .. Len(q) : q[i] = g
<1>1. LookTypes /\ DOMAIN sites \subseteq DOMAIN look.sites
  BY DEF LookInv, LookSites
<1>2. IsFiniteSet(DOMAIN look.sites) /\ DOMAIN look.sites \subseteq Nat \ {0}
  BY <1>1, LookAssumed
<1>3. ids \in SUBSET DOMAIN look.sites /\ ids \in SUBSET Nat
  BY <1>1, <1>2
<1>4. IsFiniteSet(ids)
  BY <1>2, <1>3, FS_Subset
<1>5. q = Ranked(ids)
  BY DEF InOrder, Ranked
<1>6. /\ q \in Seq(ids) /\ DOMAIN q = 1 .. Len(q) /\ Len(q) \in Nat
      /\ \A x \in ids : \E i \in 1 .. Len(q) : q[i] = x
  BY <1>3, <1>4, <1>5, InOrderIs
<1>7. \A i \in 1 .. Len(q) : q[i] \in ids
  BY <1>6, MemberOf
<1> QED
  BY <1>6, <1>7

\* A page of a list.
LEMMA PageIs ==
  ASSUME NEW S, NEW q \in Seq(S), NEW from \in Nat, NEW rows, rows = SiteRows(q, from)
  PROVE  /\ \A i \in DOMAIN rows : rows[i] \in S
         /\ \A j \in 1 .. Len(q) : j > from /\ j <= from + LookupPage => j - from \in DOMAIN rows /\ rows[j - from] = q[j]
<1>1. LookupPage \in Nat \ {0} /\ Len(q) \in Nat /\ \A j \in 1 .. Len(q) : q[j] \in S
  BY LookupAssumption
<1> DEFINE to == IF from + LookupPage < Len(q) THEN from + LookupPage ELSE Len(q)
<1>2. to \in Nat /\ to <= Len(q) /\ rows = SubSeq(q, from + 1, to)
  BY <1>1 DEF SiteRows
<1>3. \A j \in 1 .. Len(q) : j > from /\ j <= from + LookupPage => j <= to
  BY <1>1
<1> HIDE DEF to
<1>4. rows = [i \in 1 .. to - from |-> q[from + i]] \/ (to < from /\ DOMAIN rows = {})
  BY <1>1, <1>2
<1>5. CASE to < from /\ DOMAIN rows = {}
  BY <1>1, <1>2, <1>3, <1>5
<1>6. CASE rows = [i \in 1 .. to - from |-> q[from + i]]
  <2>1. \A i \in 1 .. to - from : from + i \in 1 .. Len(q)
    BY <1>1, <1>2
  <2>2. \A j \in 1 .. Len(q) : j > from /\ j <= from + LookupPage => j - from \in 1 .. to - from /\ from + (j - from) = j
    BY <1>1, <1>2, <1>3
  <2> QED
    BY <1>1, <1>6, <2>1, <2>2
<1> QED
  BY <1>4, <1>5, <1>6

\* What is remembered answers while it is fresh, and fits.
LEMMA FromCacheKeeps == ASSUME LookInv, FromCache PROVE LookInv'
<1>1. lookPc = "cache" /\ Elsewhere /\ Placed
  BY DEF FromCache, Elsewhere, Placed
<1>2. CASE Wanted \in DOMAIN known /\ Remembered(Wanted)
  <2> DEFINE g == known[Wanted].id
  <2>1. AnswerWith(g, known[Wanted].url) /\ UNCHANGED known
    BY <1>2 DEF FromCache
  <2>2. /\ clock \in Nat /\ SiteTtl \in Nat /\ known[Wanted].at \in Nat /\ clock - known[Wanted].at <= SiteTtl
        /\ (Wanted.slash => /\ <<g, Wanted.text>> \in DOMAIN was /\ was[<<g, Wanted.text>>] \in Nat
                            /\ known[Wanted].at <= was[<<g, Wanted.text>>])
        /\ (Wanted = GlobalSite /\ look.refused = {} => g \in TheGlobal) /\ (quiet => g \in DOMAIN sites)
    BY <1>2, LookupAssumption DEF LookInv, LookTypes, LookKnown, LookWas, Remembered
  <2>3. Fits(g)
    BY <2>2 DEF Fits
  <2> HIDE DEF g
  <2>4. /\ LookTypes' /\ LookOp' /\ LookGlobal' /\ LookMissed' /\ LookChain'
        /\ ExactIsOwn' /\ NotFoundMeansRefused' /\ ChainIsPath' /\ CompanyIsOwn'
    BY <1>1, <2>1, <2>3, AnswerKeeps DEF Asking
  <2>5. LookSites' /\ LookWas' /\ LookKnown'
    BY <1>1, <2>1, PlacedKeeps
  <2> QED
    BY <2>4, <2>5 DEF LookInv
<1>3. CASE ~(Wanted \in DOMAIN known /\ Remembered(Wanted))
  <2>1. lookPc' = "id" /\ spot' = [company |-> 1, total |-> 0, start |-> 0] /\ UNCHANGED <<known, chain>>
    BY <1>3 DEF FromCache, NextStep, Goes, NothingNew
  <2>2. Op # "list"
    BY <1>1 DEF LookInv, LookOp, Asking
  <2>3. LookMissed' /\ NotFoundMeansRefused'
    BY <2>1 DEF LookMissed, NotFoundMeansRefused, Grouping
  <2> QED
    BY <1>1, <2>1, <2>2, <2>3, PassKeeps DEF Asking, Grouping
<1> QED
  BY <1>2, <1>3

\* The endpoint that takes an id.
LEMMA ByIdKeeps == ASSUME LookInv, ById PROVE LookInv'
<1> DEFINE g == IF ~Wanted.slash /\ Wanted.text \in DOMAIN look.numeric THEN look.numeric[Wanted.text] ELSE 0
<1>1. lookPc = "id" /\ Elsewhere /\ Placed
  BY DEF ById, Elsewhere, Placed
<1>2. CASE g \in DOMAIN sites /\ sites[g].admin /\ Admits("by-id")
  <2>1. FoundSite(g)
    BY <1>2 DEF ById
  <2>2. 0 \notin DOMAIN sites
    <3>1. LookTypes /\ DOMAIN sites \subseteq DOMAIN look.sites
      BY DEF LookInv, LookSites
    <3> QED
      BY <3>1, LookAssumed
  <2>3. ~Wanted.slash
    BY <1>2, <2>2
  <2>4. Wanted # GlobalSite
    BY <2>3 DEF GlobalSite
  <2> HIDE DEF g
  <2> QED
    BY <1>1, <1>2, <2>1, <2>3, <2>4, FoundKeeps DEF Asking
<1>3. CASE ~(g \in DOMAIN sites /\ sites[g].admin /\ Admits("by-id"))
  <2>1. lookPc' = "adminUrl" /\ spot' = [company |-> 1, total |-> 0, start |-> 0] /\ UNCHANGED <<known, chain>>
    BY <1>3 DEF ById, NextStep, Goes, NothingNew
  <2>2. Op # "list"
    BY <1>1 DEF LookInv, LookOp, Asking
  <2>3. LookMissed' /\ NotFoundMeansRefused'
    BY <2>1 DEF LookMissed, NotFoundMeansRefused, Grouping
  <2> HIDE DEF g
  <2> QED
    BY <1>1, <2>1, <2>2, <2>3, PassKeeps DEF Asking, Grouping
<1> QED
  BY <1>2, <1>3

\* What is asked for by its URL is found, or the endpoint refuses.
LEMMA ByFriendlyUrlKeeps ==
  ASSUME LookInv, ByAdminUrl \/ ByUserUrl
  PROVE  LookInv'
<1>1. ASSUME NEW g \in DOMAIN sites, FoundSite(g), Elsewhere, lookPc \in {"adminUrl", "userUrl"}, g \in ByUrl(Wanted.text, DOMAIN sites)
      PROVE  LookInv'
  <2>1. sites[g].url = Wanted.text
    BY <1>1 DEF ByUrl
  <2>2. Wanted = GlobalSite => g \in TheGlobal
    BY <1>1 DEF TheGlobal, GlobalSite
  <2> QED
    BY <1>1, <2>1, <2>2, FoundKeeps DEF Asking
<1>2. CASE ByAdminUrl
  <2> DEFINE gs == ByUrl(Wanted.text, {g \in DOMAIN sites : sites[g].admin})
  <2>1. lookPc = "adminUrl" /\ Elsewhere /\ Placed /\ gs = {g \in Sought : sites[g].admin}
    BY <1>2 DEF ByAdminUrl, ByFriendlyUrl, Elsewhere, Placed, Sought, ByUrl
  <2>2. CASE gs # {} /\ Admits("admin-url")
    <3>1. PICK g \in gs : FoundSite(g)
      BY <1>2, <2>2 DEF ByAdminUrl, ByFriendlyUrl
    <3>2. g \in Sought /\ g \in DOMAIN sites
      BY <2>1 DEF Sought, ByUrl
    <3> QED
      BY <1>1, <2>1, <3>1, <3>2 DEF Sought
  <2>3. CASE ~(gs # {} /\ Admits("admin-url"))
    <3>1. lookPc' = "userUrl" /\ spot' = [company |-> 1, total |-> 0, start |-> 0] /\ UNCHANGED <<known, chain>>
      BY <1>2, <2>3 DEF ByAdminUrl, ByFriendlyUrl, NextStep, Goes, NothingNew
    <3>2. Op # "list"
      BY <2>1 DEF LookInv, LookOp, Asking
    <3>3. \A g \in Sought : sites[g].admin => "admin-url" \in look.refused
      BY <2>1, <2>3 DEF Admits
    <3> HIDE DEF gs
    <3>4. (LookMissed' /\ NotFoundMeansRefused' => LookInv') /\ Sought' = Sought
      BY <2>1, <3>1, <3>2, PassKeeps DEF Asking, Grouping
    <3>5. LookMissed' /\ NotFoundMeansRefused'
      BY <2>1, <3>1, <3>3, <3>4 DEF LookMissed, NotFoundMeansRefused, Grouping, Placed, lookupPortal
    <3> QED
      BY <3>4, <3>5
  <2> QED
    BY <2>2, <2>3
<1>3. CASE ByUserUrl
  <2>1. lookPc = "userUrl" /\ Elsewhere /\ Placed
    BY <1>3 DEF ByUserUrl, ByFriendlyUrl, Elsewhere, Placed
  <2>2. CASE Sought # {} /\ Admits("user-url")
    <3>1. PICK g \in Sought : FoundSite(g)
      BY <1>3, <2>2 DEF ByUserUrl, ByFriendlyUrl, Sought
    <3>2. g \in DOMAIN sites
      BY DEF Sought, ByUrl
    <3> QED
      BY <1>1, <2>1, <3>1, <3>2 DEF Sought
  <2>3. CASE ~(Sought # {} /\ Admits("user-url"))
    <3>1. lookPc' = "search" /\ spot' = [company |-> 1, total |-> 0, start |-> 0] /\ UNCHANGED <<known, chain>>
      BY <1>3, <2>3 DEF ByUserUrl, ByFriendlyUrl, NextStep, Goes, NothingNew, Sought
    <3>2. Op # "list"
      BY <2>1 DEF LookInv, LookOp, Asking
    <3>3. \A g \in Sought : "user-url" \in look.refused
      BY <2>3 DEF Admits
    <3>4. ~(look.refused = {} /\ Wanted = GlobalSite)
      <4>1. \E g \in DOMAIN sites : sites[g].url = "global" /\ sites[g].company = look.own
        BY DEF LookInv, LookSites
      <4> QED
        BY <2>3, <4>1 DEF Sought, ByUrl, GlobalSite, Admits
    <3>5. (LookMissed' /\ NotFoundMeansRefused' => LookInv') /\ Sought' = Sought
      BY <2>1, <3>1, <3>2, <3>4, PassKeeps DEF Asking, Grouping
    <3>6. SearchMissed'
      <4>1. spot'.start = 0
        BY <3>1
      <4> QED
        <5>1. AdminSites' = AdminSites
          BY <2>1 DEF AdminSites, Placed, lookupPortal
        <5>2. \A i \in DOMAIN AdminSites : i \in Nat /\ i >= 1
          <6>1. {g \in DOMAIN sites : sites[g].admin /\ sites[g].company = look.own} \in SUBSET DOMAIN sites
            OBVIOUS
          <6>2. PICK r : r = AdminSites
            OBVIOUS
          <6>3. DOMAIN r = 1 .. Len(r)
            BY <6>1, <6>2, OrderIs DEF AdminSites
          <6> QED
            BY <6>2, <6>3
        <5>3. \A i \in DOMAIN AdminSites : ~(i <= 0)
          BY <5>2
        <5> QED
          BY <4>1, <5>1, <5>3 DEF SearchMissed
    <3>7. LookMissed' /\ NotFoundMeansRefused'
      BY <2>1, <3>1, <3>3, <3>5, <3>6 DEF LookInv, LookMissed, NotFoundMeansRefused, Grouping, Placed, lookupPortal, Op
    <3> QED
      BY <3>5, <3>7
  <2> QED
    BY <2>2, <2>3
<1> QED
  BY <1>2, <1>3

\* A page of the list of sites: what it shows is found, what it does not show is missed up to here.
LEMMA SearchKeeps == ASSUME LookInv, SearchPage PROVE LookInv'
<1>1. lookPc = "search" /\ Elsewhere /\ Placed
  BY DEF SearchPage, Elsewhere, Placed
<1>2. spot.start \in Nat /\ spot \in [company : Nat \ {0}, total : Nat, start : Nat] /\ LookupPage \in Nat \ {0} /\ Op # "list" /\ LookTypes
  BY <1>1, LookupAssumption DEF LookInv, LookTypes, LookOp, Asking
<1>3. ~(look.refused = {} /\ Wanted = GlobalSite)
  BY <1>1 DEF LookInv, LookGlobal
<1>4. PICK q : q = AdminSites
  OBVIOUS
<1>5. /\ q \in Seq(DOMAIN sites) /\ Len(q) \in Nat /\ DOMAIN q = 1 .. Len(q)
      /\ \A g \in DOMAIN sites : sites[g].admin /\ sites[g].company = look.own => \E i \in 1 .. Len(q) : q[i] = g
  <2>1. PICK ids : ids = {g \in DOMAIN sites : sites[g].admin /\ sites[g].company = look.own}
    OBVIOUS
  <2>2. ids \in SUBSET DOMAIN sites /\ q = InOrder(ids)
    BY <1>4, <2>1 DEF AdminSites
  <2>3. /\ q \in Seq(DOMAIN sites) /\ Len(q) \in Nat /\ DOMAIN q = 1 .. Len(q)
        /\ \A g \in ids : \E i \in 1 .. Len(q) : q[i] = g
    BY <2>2, OrderIs
  <2>4. \A g \in DOMAIN sites : sites[g].admin /\ sites[g].company = look.own => g \in ids
    BY <2>1
  <2> QED
    BY <2>3, <2>4
<1>6. PICK rows : rows = SiteRows(q, spot.start)
  OBVIOUS
<1>7. /\ \A i \in DOMAIN rows : rows[i] \in DOMAIN sites
      /\ \A j \in 1 .. Len(q) : j > spot.start /\ j <= spot.start + LookupPage => j - spot.start \in DOMAIN rows /\ rows[j - spot.start] = q[j]
  BY <1>2, <1>5, <1>6, PageIs
<1> DEFINE hits == {i \in DOMAIN rows : Hits(rows[i])}
<1>8. CASE Admits("admin-list") /\ hits # {}
  <2>1. FoundFirst(rows, hits)
    BY <1>4, <1>6, <1>8 DEF SearchPage
  <2>2. PICK i \in hits : FoundSite(rows[i])
    BY <2>1 DEF FoundFirst
  <2>3. rows[i] \in DOMAIN sites /\ (Wanted.slash => sites[rows[i]].url = Wanted.text)
    BY <1>7 DEF Hits
  <2> HIDE DEF hits
  <2> QED
    BY <1>1, <1>3, <2>2, <2>3, FoundKeeps DEF Asking
<1>9. CASE ~(Admits("admin-list") /\ hits # {})
  <2>1. /\ UNCHANGED <<known, chain>>
        /\ \/ lookPc' = "companies" /\ spot' = [company |-> 1, total |-> 0, start |-> 0]
              /\ (Admits("admin-list") => LastPage(AdminSites))
           \/ lookPc' = "search" /\ spot' = [spot EXCEPT !.start = @ + LookupPage]
    BY <1>1, <1>4, <1>6, <1>9 DEF SearchPage, NextStep, Continue, Goes, NothingNew
  <2>2. spot' \in [company : Nat \ {0}, total : Nat, start : Nat] /\ (lookPc' = "search" => spot'.start = spot.start + LookupPage)
    BY <1>2, <2>1
  <2>3. (LookMissed' /\ NotFoundMeansRefused' => LookInv') /\ Sought' = Sought /\ Op' = Op
    <3>1. lookPc' \in {"companies", "search"}
      BY <2>1
    <3> HIDE DEF hits
    <3> QED
      BY <1>1, <1>2, <1>3, <2>1, <2>2, <3>1, PassKeeps DEF Asking, Grouping
  <2>4. SUFFICES ASSUME quiet, Op = "resolve" PROVE LookMissed'
    BY <1>1, <2>1, <2>3 DEF LookMissed, NotFoundMeansRefused, Placed
  <2>5. UNCHANGED <<look, sites>> /\ AdminSites' = q
    BY <1>1, <1>4 DEF AdminSites, Placed, lookupPortal
  <2>6. /\ \A g \in Sought : sites[g].admin => "admin-url" \in look.refused
        /\ \A g \in Sought : "user-url" \in look.refused
        /\ \A i \in 1 .. Len(q) : i <= spot.start => q[i] \notin Sought
    BY <1>1, <1>4, <1>5, <2>4 DEF LookInv, LookMissed, SearchMissed, Grouping
  <2>7. \A i \in 1 .. Len(q) : Admits("admin-list") /\ i <= spot.start + LookupPage => q[i] \notin Sought
    <3> SUFFICES ASSUME NEW i \in 1 .. Len(q), Admits("admin-list"), i <= spot.start + LookupPage, q[i] \in Sought PROVE FALSE
      OBVIOUS
    <3>1. i > spot.start
      BY <1>2, <2>6
    <3>2. i - spot.start \in DOMAIN rows /\ rows[i - spot.start] = q[i]
      BY <1>7, <3>1
    <3>3. sites[q[i]].url = Wanted.text
      BY DEF Sought, ByUrl
    <3>4. i - spot.start \in hits
      BY <3>2, <3>3 DEF Hits
    <3> QED
      BY <1>9, <3>4
  <2> HIDE DEF hits
  <2>8. CASE lookPc' = "search"
    <3>1. Admits("admin-list")
      BY <1>4, <1>6, <1>9, <2>8 DEF SearchPage, NextStep, Goes
    <3>2. SearchMissed'
      BY <1>5, <2>2, <2>3, <2>5, <2>7, <2>8, <3>1 DEF SearchMissed
    <3> QED
      BY <2>3, <2>5, <2>6, <2>8, <3>2 DEF LookMissed, Grouping
  <2>9. CASE lookPc' = "companies"
    <3>1. \A g \in Sought : sites[g].admin => "admin-list" \in look.refused
      <4> SUFFICES ASSUME NEW g \in Sought, sites[g].admin, Admits("admin-list") PROVE FALSE
        BY DEF Admits
      <4>1. g \in DOMAIN sites /\ sites[g].company = look.own
        BY DEF Sought, ByUrl
      <4>2. PICK i \in 1 .. Len(q) : q[i] = g
        BY <1>5, <4>1
      <4>3. i <= spot.start + LookupPage
        <5>1. spot.start + LookupPage >= Len(q)
          BY <1>4, <2>1, <2>9 DEF LastPage
        <5> QED
          BY <1>2, <1>5, <5>1
      <4> QED
        BY <2>7, <4>2, <4>3
    <3> QED
      BY <2>3, <2>5, <2>6, <2>9, <3>1 DEF LookMissed, Grouping
  <2> QED
    BY <2>1, <2>8, <2>9
<1> QED
  BY <1>8, <1>9

\* The companies are asked for, when no endpoint had the site.
LEMMA CompaniesKeeps == ASSUME LookInv, Companies PROVE LookInv'
<1>1. /\ lookPc = "companies" /\ Placed /\ UNCHANGED <<known, chain>> /\ lookPc' = (IF Admits("companies") THEN "count" ELSE "noMore")
      /\ spot' = [company |-> 1, total |-> 0, start |-> 0]
  BY DEF Companies, Elsewhere, Placed, NextStep, Goes, NothingNew
<1>2. 1 <= Len(look.companies)
  <2>1. LookTypes
    BY DEF LookInv
  <2>2. look.companies \in Seq(Nat \ {0}) /\ look.own \in ToSet(look.companies)
    BY <2>1, LookAssumed
  <2> QED
    BY <2>2 DEF ToSet
<1>3. look.refused = {} /\ Wanted = GlobalSite => Listing
  BY <1>1 DEF LookInv, LookGlobal, Grouping
<1>4. lookPc' \in {"count", "noMore"} /\ spot'.company = 1 /\ spot' \in [company : Nat \ {0}, total : Nat, start : Nat]
  BY <1>1
<1>5. (LookMissed' /\ NotFoundMeansRefused' => LookInv') /\ Sought' = Sought /\ Op' = Op
  BY <1>1, <1>2, <1>3, <1>4, PassKeeps DEF Asking, Grouping
<1>6. \A i \in 1 .. 1 - 1 : FALSE
  OBVIOUS
<1>7. UNCHANGED <<look, sites, quiet>>
  BY <1>1 DEF Placed, lookupPortal
<1>8. LookMissed'
  BY <1>1, <1>4, <1>5, <1>6, <1>7 DEF LookInv, LookMissed, Grouping, Admits
<1>9. NotFoundMeansRefused'
  BY <1>4 DEF NotFoundMeansRefused
<1> QED
  BY <1>5, <1>8, <1>9

\* The groups of the company that is walked.
LEMMA GroupsAre ==
  ASSUME LookInv, NEW c, NEW gs, gs = CompanyGroups(c)
  PROVE  /\ gs \in Seq(DOMAIN sites) /\ Len(gs) \in Nat /\ DOMAIN gs = 1 .. Len(gs)
         /\ \A g \in DOMAIN sites : sites[g].company = c => \E i \in 1 .. Len(gs) : gs[i] = g
<1>1. PICK ids : ids = {g \in DOMAIN sites : sites[g].company = c}
  OBVIOUS
<1>2. ids \in SUBSET DOMAIN sites /\ gs = InOrder(ids)
  BY <1>1 DEF CompanyGroups
<1>3. /\ gs \in Seq(DOMAIN sites) /\ Len(gs) \in Nat /\ DOMAIN gs = 1 .. Len(gs)
      /\ \A g \in ids : \E i \in 1 .. Len(gs) : gs[i] = g
  BY <1>2, OrderIs
<1> QED
  BY <1>1, <1>3

\* What was hidden by the companies before this one stays hidden.
LEMMA SameGroups ==
  ASSUME Placed, Sought' = Sought
  PROVE  \A i : GroupsHide(i)' <=> GroupsHide(i)
BY DEF GroupsHide, Placed, lookupPortal

\* The groups of a company are counted; with none, none of its sites is shown.
LEMMA CountGroupsKeeps == ASSUME LookInv, CountGroups PROVE LookInv'
<1>1. PICK gs : gs = CompanyGroups(look.companies[spot.company])
  OBVIOUS
<1>2. /\ gs \in Seq(DOMAIN sites) /\ Len(gs) \in Nat /\ DOMAIN gs = 1 .. Len(gs)
      /\ \A g \in DOMAIN sites : sites[g].company = look.companies[spot.company] => \E i \in 1 .. Len(gs) : gs[i] = g
  BY <1>1, GroupsAre
<1>3. /\ lookPc = "count" /\ Placed /\ UNCHANGED <<known, chain>> /\ spot' = [spot EXCEPT !.total = Len(gs), !.start = 0]
      /\ lookPc' = (IF Admits("count") /\ Len(gs) > 0 THEN "groups" ELSE "nextCompany")
  BY <1>1 DEF CountGroups, Elsewhere, Placed, NothingNew
<1>4. spot \in [company : Nat \ {0}, total : Nat, start : Nat] /\ spot.company <= Len(look.companies)
  BY <1>3 DEF LookInv, LookTypes
<1>5. spot' \in [company : Nat \ {0}, total : Nat, start : Nat] /\ spot'.company = spot.company /\ spot'.total = Len(gs) /\ spot'.start = 0
  BY <1>2, <1>3, <1>4
<1>6. look.refused = {} /\ Wanted = GlobalSite => Listing
  BY <1>3 DEF LookInv, LookGlobal, Grouping
<1>7. lookPc' \in {"groups", "nextCompany"}
  BY <1>3
<1>8. (LookMissed' /\ NotFoundMeansRefused' => LookInv') /\ Sought' = Sought /\ Op' = Op
  BY <1>3, <1>4, <1>5, <1>6, <1>7, PassKeeps DEF Asking, Grouping
<1>9. SUFFICES ASSUME quiet, Op = "resolve" PROVE LookMissed'
  BY <1>3, <1>7, <1>8 DEF LookMissed, NotFoundMeansRefused, Placed
<1>10. /\ \A g \in Sought : sites[g].admin => "admin-url" \in look.refused
       /\ \A g \in Sought : "user-url" \in look.refused
       /\ \A g \in Sought : sites[g].admin => "admin-list" \in look.refused
       /\ \A i \in 1 .. spot.company - 1 : GroupsHide(i)
  BY <1>3, <1>9 DEF LookInv, LookMissed, Grouping
<1>11. \A i : GroupsHide(i)' <=> GroupsHide(i)
  BY <1>3, <1>8, SameGroups
<1>12. UNCHANGED <<look, sites>>
  BY <1>3 DEF Placed, lookupPortal
<1>13. CASE lookPc' = "groups"
  <2>1. GroupsMissed'
    <3>1. PICK hs : hs = CompanyGroups(look.companies[spot.company])'
      OBVIOUS
    <3>2. hs = gs
      BY <1>1, <1>5, <1>12, <3>1 DEF CompanyGroups
    <3>3. \A i \in DOMAIN hs : ~(i <= 0)
      BY <1>2, <3>2
    <3> QED
      BY <1>5, <3>1, <3>2, <3>3 DEF GroupsMissed
  <2> QED
    BY <1>5, <1>8, <1>10, <1>11, <1>12, <1>13, <2>1 DEF LookMissed, Grouping
<1>14. CASE lookPc' = "nextCompany"
  <2>1. GroupsHide(spot.company)
    <3>1. CASE "count" \in look.refused
      BY <3>1 DEF GroupsHide
    <3>2. CASE "count" \notin look.refused
      <4>1. Len(gs) = 0
        BY <1>2, <1>3, <1>14, <3>2 DEF Admits
      <4>2. \A i \in 1 .. Len(gs) : FALSE
        BY <4>1
      <4> QED
        BY <1>2, <4>2 DEF GroupsHide, Sought, ByUrl
    <3> QED
      BY <3>1, <3>2
  <2>2. \A i \in 1 .. spot.company : i \in 1 .. spot.company - 1 \/ i = spot.company
    BY <1>4
  <2>3. \A i \in 1 .. spot'.company : GroupsHide(i)
    BY <1>5, <1>10, <2>1, <2>2
  <2> QED
    BY <1>8, <1>10, <1>11, <1>12, <1>14, <2>3 DEF LookMissed, Grouping
<1> QED
  BY <1>7, <1>13, <1>14

\* A page of the groups of a company.
LEMMA GroupsKeeps == ASSUME LookInv, GroupsPage PROVE LookInv'
<1>1. PICK gs, rows : gs = CompanyGroups(look.companies[spot.company]) /\ rows = SiteRows(gs, spot.start)
  OBVIOUS
<1>2. /\ gs \in Seq(DOMAIN sites) /\ Len(gs) \in Nat /\ DOMAIN gs = 1 .. Len(gs)
      /\ \A g \in DOMAIN sites : sites[g].company = look.companies[spot.company] => \E i \in 1 .. Len(gs) : gs[i] = g
  BY <1>1, GroupsAre
<1>3. lookPc = "groups" /\ Elsewhere /\ Placed
  BY DEF GroupsPage, Elsewhere, Placed
<1>4. /\ spot \in [company : Nat \ {0}, total : Nat, start : Nat] /\ spot.company <= Len(look.companies) /\ LookupPage \in Nat \ {0}
      /\ spot.start \in Nat /\ LookTypes
  BY <1>3, LookupAssumption DEF LookInv, LookTypes
<1>5. /\ \A i \in DOMAIN rows : rows[i] \in DOMAIN sites
      /\ \A j \in 1 .. Len(gs) : j > spot.start /\ j <= spot.start + LookupPage => j - spot.start \in DOMAIN rows /\ rows[j - spot.start] = gs[j]
  BY <1>1, <1>2, <1>4, PageIs
<1>6. look.refused = {} /\ Wanted = GlobalSite => Listing
  BY <1>3 DEF LookInv, LookGlobal, Grouping
<1> DEFINE shown == {i \in DOMAIN rows : sites[rows[i]].site /\ Admits("groups")}
           hits == {i \in shown : Hits(rows[i])}
<1>7. CASE ~Listing /\ hits # {}
  <2>1. FoundFirst(rows, hits)
    BY <1>1, <1>7 DEF GroupsPage
  <2>2. PICK i \in hits : FoundSite(rows[i])
    BY <2>1 DEF FoundFirst
  <2>3. rows[i] \in DOMAIN sites /\ (Wanted.slash => sites[rows[i]].url = Wanted.text)
    BY <1>5 DEF Hits
  <2> HIDE DEF hits, shown
  <2> QED
    BY <1>3, <1>6, <1>7, <2>2, <2>3, FoundKeeps DEF Asking
<1>8. CASE ~(~Listing /\ hits # {})
  <2>1. /\ UNCHANGED <<known, chain>> /\ spot' = [spot EXCEPT !.start = @ + LookupPage]
        /\ lookPc' = (IF spot.start + LookupPage < spot.total THEN "groups" ELSE "nextCompany")
    BY <1>1, <1>8 DEF GroupsPage
  <2>2. /\ spot' \in [company : Nat \ {0}, total : Nat, start : Nat] /\ spot'.start = spot.start + LookupPage
        /\ spot'.company = spot.company /\ spot'.total = spot.total
    BY <1>4, <2>1
  <2>3. lookPc' \in {"groups", "nextCompany"}
    BY <2>1
  <2>4. (LookMissed' /\ NotFoundMeansRefused' => LookInv') /\ Sought' = Sought /\ Op' = Op
    <3> HIDE DEF hits, shown
    <3> QED
      BY <1>3, <1>4, <1>6, <2>1, <2>2, <2>3, PassKeeps DEF Asking, Grouping
  <2>5. SUFFICES ASSUME quiet, Op = "resolve" PROVE LookMissed'
    BY <1>3, <2>3, <2>4 DEF LookMissed, NotFoundMeansRefused, Placed
  <2>6. /\ \A g \in Sought : sites[g].admin => "admin-url" \in look.refused
        /\ \A g \in Sought : "user-url" \in look.refused
        /\ \A g \in Sought : sites[g].admin => "admin-list" \in look.refused
        /\ \A i \in 1 .. spot.company - 1 : GroupsHide(i)
        /\ GroupsMissed
    BY <1>3, <2>5 DEF LookInv, LookMissed, Grouping
  <2>7. /\ spot.total = Len(gs)
        /\ \A i \in 1 .. Len(gs) : i <= spot.start /\ "groups" \notin look.refused => ~(gs[i] \in Sought /\ sites[gs[i]].site)
    BY <1>1, <1>2, <2>6 DEF GroupsMissed
  <2>8. \A i \in 1 .. Len(gs) : i <= spot.start + LookupPage /\ "groups" \notin look.refused => ~(gs[i] \in Sought /\ sites[gs[i]].site)
    <3> SUFFICES ASSUME NEW i \in 1 .. Len(gs), "groups" \notin look.refused, i <= spot.start + LookupPage, gs[i] \in Sought, sites[gs[i]].site
                 PROVE FALSE
      OBVIOUS
    <3>1. i > spot.start
      BY <1>2, <1>4, <2>7
    <3>2. i - spot.start \in DOMAIN rows /\ rows[i - spot.start] = gs[i]
      BY <1>5, <3>1
    <3>3. sites[gs[i]].url = Wanted.text
      BY DEF Sought, ByUrl
    <3>4. i - spot.start \in hits
      BY <3>2, <3>3 DEF Hits, Admits
    <3>5. ~Listing
      BY <2>5 DEF Listing
    <3> QED
      BY <1>8, <3>4, <3>5
  <2> HIDE DEF hits, shown
  <2>9. \A i : GroupsHide(i)' <=> GroupsHide(i)
    BY <1>3, <2>4, SameGroups
  <2>10. UNCHANGED <<look, sites>>
    BY <1>3 DEF Placed, lookupPortal
  <2>11. CASE lookPc' = "groups"
    <3>1. GroupsMissed'
      <4>1. PICK hs : hs = CompanyGroups(look.companies[spot.company])'
        OBVIOUS
      <4>2. hs = gs
        BY <1>1, <2>2, <2>10, <4>1 DEF CompanyGroups
      <4> QED
        BY <1>2, <2>2, <2>4, <2>7, <2>8, <2>10, <4>1, <4>2 DEF GroupsMissed
    <3> QED
      BY <2>2, <2>4, <2>6, <2>9, <2>10, <2>11, <3>1 DEF LookMissed, Grouping
  <2>12. CASE lookPc' = "nextCompany"
    <3>1. spot.start + LookupPage >= Len(gs)
      BY <1>2, <1>4, <2>1, <2>7, <2>12
    <3>2. \A i \in 1 .. Len(gs) : i <= spot.start + LookupPage
      BY <1>2, <1>4, <3>1
    <3>3. GroupsHide(spot.company)
      <4> SUFFICES ASSUME NEW g \in Sought, sites[g].site, sites[g].company = look.companies[spot.company] PROVE "groups" \in look.refused
        BY DEF GroupsHide
      <4>1. g \in DOMAIN sites
        BY DEF Sought, ByUrl
      <4>2. PICK i \in 1 .. Len(gs) : gs[i] = g
        BY <1>2, <4>1
      <4> QED
        BY <2>8, <3>2, <4>2
    <3>4. \A i \in 1 .. spot.company : i \in 1 .. spot.company - 1 \/ i = spot.company
      BY <1>4
    <3>5. \A i \in 1 .. spot'.company : GroupsHide(i)
      BY <2>2, <2>6, <3>3, <3>4
    <3> QED
      BY <2>4, <2>6, <2>9, <2>10, <2>12, <3>5 DEF LookMissed, Grouping
  <2> QED
    BY <2>3, <2>11, <2>12
<1> QED
  BY <1>7, <1>8

\* The next company; after the last, all of them were missed or hidden.
LEMMA NextCompanyKeeps == ASSUME LookInv, NextCompany PROVE LookInv'
<1>1. /\ lookPc = "nextCompany" /\ Placed /\ UNCHANGED <<known, chain>>
      /\ IF spot.company < Len(look.companies) THEN lookPc' = "count" /\ spot' = [spot EXCEPT !.company = @ + 1]
         ELSE lookPc' = "noMore" /\ spot' = [company |-> 1, total |-> 0, start |-> 0]
  BY DEF NextCompany, Elsewhere, Placed, NothingNew, Goes
<1>2. /\ spot \in [company : Nat \ {0}, total : Nat, start : Nat] /\ spot.company <= Len(look.companies) /\ LookTypes
  BY <1>1 DEF LookInv, LookTypes
<1>3. Len(look.companies) \in Nat /\ DOMAIN look.companies = 1 .. Len(look.companies)
  <2>1. look.companies \in Seq(Nat \ {0})
    BY <1>2, LookAssumed
  <2> QED
    BY <2>1
<1>4. /\ spot' \in [company : Nat \ {0}, total : Nat, start : Nat] /\ lookPc' \in {"count", "noMore"}
      /\ (lookPc' = "count" => spot'.company = spot.company + 1 /\ spot'.company <= Len(look.companies))
      /\ (lookPc' = "noMore" => spot.company = Len(look.companies))
  BY <1>1, <1>2, <1>3
<1>5. look.refused = {} /\ Wanted = GlobalSite => Listing
  BY <1>1 DEF LookInv, LookGlobal, Grouping
<1>6. (LookMissed' /\ NotFoundMeansRefused' => LookInv') /\ Sought' = Sought /\ Op' = Op
  BY <1>1, <1>4, <1>5, PassKeeps DEF Asking, Grouping
<1>7. SUFFICES ASSUME quiet, Op = "resolve" PROVE LookMissed'
  BY <1>1, <1>4, <1>6 DEF LookMissed, NotFoundMeansRefused, Placed
<1>8. /\ \A g \in Sought : sites[g].admin => "admin-url" \in look.refused
      /\ \A g \in Sought : "user-url" \in look.refused
      /\ \A g \in Sought : sites[g].admin => "admin-list" \in look.refused
      /\ \A i \in 1 .. spot.company : GroupsHide(i)
  BY <1>1, <1>7 DEF LookInv, LookMissed, Grouping
<1>9. \A i : GroupsHide(i)' <=> GroupsHide(i)
  BY <1>1, <1>6, SameGroups
<1>10. UNCHANGED <<look, sites>>
  BY <1>1 DEF Placed, lookupPortal
<1>11. CASE lookPc' = "count"
  <2>1. \A i \in 1 .. spot'.company - 1 : GroupsHide(i)
    BY <1>2, <1>4, <1>8, <1>11
  <2> QED
    BY <1>6, <1>8, <1>9, <1>10, <1>11, <2>1 DEF LookMissed, Grouping
<1>12. CASE lookPc' = "noMore"
  <2>1. \A i \in DOMAIN look.companies : GroupsHide(i)
    BY <1>3, <1>4, <1>8, <1>12
  <2> QED
    BY <1>6, <1>8, <1>9, <1>10, <1>12, <2>1 DEF LookMissed, Grouping
<1> QED
  BY <1>4, <1>11, <1>12

\* No company is left: the site is not found, or the list is complete.
LEMMA NoMoreKeeps == ASSUME LookInv, NoMoreGroups PROVE LookInv'
<1>1. lookPc = "noMore" /\ Placed /\ UNCHANGED <<known, chain>> /\ LookTypes
  BY DEF NoMoreGroups, Elsewhere, Placed, NotFound, NextStep, NothingNew, LookInv
<1>2. CASE ~Listing
  <2>1. /\ lookPc' = (IF Op = "chain" /\ chain # <<>> THEN "done" ELSE "notFound")
        /\ spot' = [company |-> 1, total |-> 0, start |-> 0]
    BY <1>2 DEF NoMoreGroups, NotFound, Goes
  <2>2. spot' \in [company : Nat \ {0}, total : Nat, start : Nat] /\ lookPc' \in {"done", "notFound"}
    BY <2>1
  <2>3. lookPc' = "done" => Op = "chain" /\ look.refused # {}
    <3> SUFFICES ASSUME lookPc' = "done", look.refused = {} PROVE FALSE
      BY <2>1
    <3>1. Wanted = GlobalSite
      BY <1>1, <2>1, WantsGlobal
    <3> QED
      BY <1>1, <1>2, <3>1 DEF LookInv, LookGlobal, Grouping
  <2>4. (LookMissed' /\ NotFoundMeansRefused' => LookInv') /\ Sought' = Sought /\ Op' = Op
    BY <1>1, <2>2, <2>3, PassKeeps DEF Asking, Grouping
  <2>5. LookMissed'
    BY <2>2 DEF LookMissed, Grouping
  <2>6. UNCHANGED <<look, sites, quiet>>
    BY <1>1 DEF Placed, lookupPortal
  <2>7. NotFoundMeansRefused'
    <3> SUFFICES ASSUME quiet, Op = "resolve", NEW g \in Sought
                 PROVE  /\ "user-url" \in look.refused
                        /\ sites[g].site => {"companies", "count", "groups"} \cap look.refused # {}
                        /\ sites[g].admin => {"admin-url", "admin-list"} \subseteq look.refused
      BY <2>4, <2>6 DEF NotFoundMeansRefused, Sought
    <3>1. /\ sites[g].admin => "admin-url" \in look.refused /\ "admin-list" \in look.refused
          /\ "user-url" \in look.refused
          /\ "companies" \in look.refused \/ \A i \in DOMAIN look.companies : GroupsHide(i)
      BY <1>1 DEF LookInv, LookMissed, Grouping
    <3>2. \E i \in DOMAIN look.companies : sites[g].company = look.companies[i]
      <4>1. sites[g].company = look.own
        BY DEF Sought, ByUrl
      <4>2. look.own \in ToSet(look.companies)
        BY <1>1, LookAssumed
      <4> QED
        BY <4>1, <4>2 DEF ToSet
    <3> QED
      BY <3>1, <3>2 DEF GroupsHide
  <2> QED
    BY <2>4, <2>5, <2>7
<1>3. CASE Listing
  <2>1. /\ lookPc' \in {"error", "cache", "done"} /\ (lookPc' = "cache" => Op = "sites")
        /\ spot' = [company |-> 1, total |-> 0, start |-> 0]
    BY <1>3 DEF NoMoreGroups, NextStep, ListEnds, Goes, Listing
  <2>2. spot' \in [company : Nat \ {0}, total : Nat, start : Nat] /\ Op \in {"list", "sites"} /\ chain = <<>>
    BY <1>3, <2>1 DEF Listing, LookInv, LookOp
  <2>3. LookMissed' /\ NotFoundMeansRefused'
    BY <2>1 DEF LookMissed, NotFoundMeansRefused, Grouping
  <2> QED
    BY <1>1, <1>3, <2>1, <2>2, <2>3, PassKeeps DEF Asking, Grouping
<1> QED
  BY <1>2, <1>3

\* A page of the list of sites, of a command that lists them.
LEMMA ListPageKeeps == ASSUME LookInv, ListPage PROVE LookInv'
<1>1. lookPc = "list" /\ Placed /\ UNCHANGED <<known, chain>> /\ LookTypes /\ Listing
  BY DEF ListPage, Placed, LookInv, LookOp
<1>2. PICK first : first = [company |-> 1, total |-> 0, start |-> 0]
  OBVIOUS
<1>3. \/ lookPc' = "companies" /\ spot' = first
      \/ lookPc' \in {"cache", "done"} /\ (lookPc' = "cache" => Op = "sites") /\ spot' = first
      \/ lookPc' = "list" /\ spot' = [spot EXCEPT !.start = @ + LookupPage]
  BY <1>1, <1>2 DEF ListPage, ListEnds, Goes
<1>4. spot' \in [company : Nat \ {0}, total : Nat, start : Nat] /\ lookPc' \in {"companies", "cache", "done", "list"}
      /\ (lookPc' = "cache" => Op = "sites")
  <2>1. spot \in [company : Nat \ {0}, total : Nat, start : Nat] /\ LookupPage \in Nat
    BY LookupAssumption DEF LookInv, LookTypes
  <2> QED
    BY <1>2, <1>3, <2>1
<1>5. Op \in {"list", "sites"} /\ chain = <<>>
  BY <1>1 DEF Listing, LookInv, LookOp
<1>6. (LookMissed' /\ NotFoundMeansRefused' => LookInv') /\ Op' = Op
  BY <1>1, <1>4, <1>5, PassKeeps DEF Asking, Grouping
<1>7. LookMissed' /\ NotFoundMeansRefused'
  BY <1>5, <1>6 DEF LookMissed, NotFoundMeansRefused
<1> QED
  BY <1>6, <1>7

\* A chain climbs to a parent that it does not have yet, or closes.
LEMMA ClimbKeeps == ASSUME LookInv, ClimbChain PROVE LookInv'
<1>1. /\ lookPc = "parents" /\ Placed /\ UNCHANGED known /\ Op = "chain" /\ chain # <<>>
      /\ IsRows(chain) /\ IsInjective(chain) /\ LookTypes
  BY DEF ClimbChain, Elsewhere, Placed, NextStep, NothingNew, LookInv, LookOp, LookChain
<1>2. LookSites' /\ LookWas' /\ LookKnown' /\ Op' = Op /\ UNCHANGED <<look, sites, quiet>>
  BY <1>1, PlacedKeeps DEF Placed, lookupPortal
<1>3. PICK n, p : n = Len(chain) /\ p = Parent(Last(chain))
  OBVIOUS
<1>4. n \in Nat /\ DOMAIN chain = 1 .. n /\ n \in 1 .. n /\ Last(chain) = chain[n]
  <2>1. n \in Nat /\ DOMAIN chain = 1 .. n /\ n # 0
    BY <1>1, <1>3, RowsAre
  <2> QED
    BY <1>3, <2>1 DEF Last
<1>5. 0 \notin DOMAIN sites
  <2>1. DOMAIN sites \subseteq DOMAIN look.sites
    BY DEF LookInv, LookSites
  <2> QED
    BY <1>1, <2>1, LookAssumed
<1>6. quiet /\ look.refused = {} => ChainSoFar /\ p = sites[chain[n]].parent
  BY <1>1, <1>3, <1>4 DEF LookInv, LookChain, ChainSoFar, Parent, Admits
<1>7. CASE p \in ToSet(chain) \cup {0} \/ p \notin DOMAIN sites
  <2>1. lookPc' = "cache" /\ chain' = chain /\ spot' = [company |-> 1, total |-> 0, start |-> 0]
    BY <1>3, <1>7 DEF ClimbChain, NextStep, Goes, NothingNew
  <2>2. spot' \in [company : Nat \ {0}, total : Nat, start : Nat]
    BY <2>1
  <2>3. LookTypes'
    BY <1>1, <1>2, <2>1, <2>2 DEF LookTypes, Placed, Asking
  <2>4. quiet /\ look.refused = {} => ChainClosed
    <3> SUFFICES ASSUME quiet, look.refused = {}, NEW i \in 1 .. n, sites[chain[i]].parent \in DOMAIN sites
                 PROVE  sites[chain[i]].parent \in ToSet(chain)
      BY <1>4 DEF ChainClosed
    <3>1. CASE i = n
      BY <1>5, <1>6, <1>7, <3>1
    <3>2. CASE i # n
      <4>1. i + 1 \in 1 .. n /\ i + 1 > 1 /\ (i + 1) - 1 = i
        BY <1>4, <3>2
      <4>2. chain[i + 1] = sites[chain[i]].parent
        BY <1>4, <1>6, <4>1 DEF ChainSoFar
      <4> QED
        BY <1>4, <4>1, <4>2 DEF ToSet
    <3> QED
      BY <3>1, <3>2
  <2>5. ChainSoFar' = ChainSoFar /\ ChainClosed' = ChainClosed
    BY <1>2, <2>1 DEF ChainSoFar, ChainClosed, ToSet
  <2>6. IsRows(chain)' /\ IsInjective(chain)'
    BY <1>1, <2>1 DEF IsRows, IsInjective
  <2>7. LookChain'
    BY <1>2, <1>6, <2>1, <2>4, <2>5, <2>6 DEF LookChain
  <2>8. LookOp' /\ LookGlobal' /\ LookMissed'
    BY <1>1, <1>2, <2>1 DEF LookOp, LookGlobal, LookMissed, Asking, Grouping
  <2>9. ExactIsOwn' /\ NotFoundMeansRefused' /\ ChainIsPath' /\ CompanyIsOwn'
    BY <2>1, <2>6 DEF ExactIsOwn, NotFoundMeansRefused, ChainIsPath, CompanyIsOwn
  <2> QED
    BY <1>2, <2>3, <2>7, <2>8, <2>9 DEF LookInv
<1>8. CASE p \notin ToSet(chain) \cup {0} /\ p \in DOMAIN sites
  <2>1. lookPc' = "parents" /\ chain' = Append(chain, p) /\ spot' = spot
    BY <1>1, <1>3, <1>8 DEF ClimbChain
  <2>2. LookTypes'
    BY <1>1, <1>2, <2>1 DEF LookTypes, Placed
  <2>3. /\ IsRows(chain') /\ Len(chain') = n + 1 /\ (\A i \in 1 .. n : chain'[i] = chain[i]) /\ chain'[n + 1] = p
    BY <1>1, <1>3, <1>4, <2>1, RowsAdd
  <2>4. DOMAIN chain' = 1 .. n + 1 /\ \A i \in 1 .. n + 1 : i \in 1 .. n \/ i = n + 1
    <3>1. DOMAIN chain' = 1 .. n + 1
      BY <2>3, RowsAre
    <3> QED
      BY <1>4, <3>1
  <2>5. IsInjective(chain')
    <3>1. \A i \in 1 .. n : chain[i] # p
      BY <1>4, <1>8 DEF ToSet
    <3>2. \A a, b \in 1 .. n : chain[a] = chain[b] => a = b
      BY <1>1, <1>4 DEF IsInjective
    <3> QED
      BY <2>3, <2>4, <3>1, <3>2 DEF IsInjective
  <2>6. chain' # <<>>
    BY <1>4, <2>4
  <2>7. quiet /\ look.refused = {} => ChainSoFar'
    <3> SUFFICES ASSUME quiet, look.refused = {}, NEW i \in 1 .. n + 1
                 PROVE  chain'[i] \in DOMAIN sites /\ (i > 1 => chain'[i] = sites[chain'[i - 1]].parent)
      BY <1>2, <2>4 DEF ChainSoFar
    <3>1. CASE i = n + 1
      <4>1. (n + 1) - 1 = n
        BY <1>4
      <4> QED
        BY <1>4, <1>6, <1>8, <2>3, <3>1, <4>1
    <3>2. CASE i # n + 1
      <4>1. i \in 1 .. n /\ (i > 1 => i - 1 \in 1 .. n)
        BY <1>4, <3>2
      <4> QED
        BY <1>4, <1>6, <2>3, <4>1 DEF ChainSoFar
    <3> QED
      BY <3>1, <3>2
  <2>8. LookChain'
    BY <1>2, <2>1, <2>3, <2>5, <2>7 DEF LookChain, IsRows, IsInjective
  <2>9. LookOp' /\ LookGlobal' /\ LookMissed'
    BY <1>1, <1>2, <2>1, <2>6 DEF LookOp, LookGlobal, LookMissed, Asking, Grouping
  <2>10. ExactIsOwn' /\ NotFoundMeansRefused' /\ ChainIsPath' /\ CompanyIsOwn'
    BY <2>1, <2>5 DEF ExactIsOwn, NotFoundMeansRefused, ChainIsPath, CompanyIsOwn, IsInjective
  <2> QED
    BY <1>2, <2>2, <2>8, <2>9, <2>10 DEF LookInv
<1> QED
  BY <1>7, <1>8

\* The company of the site that was found.
LEMMA CompanyKeeps == ASSUME LookInv, CompanyOfSite PROVE LookInv'
<1>1. /\ lookPc = "company" /\ Placed /\ UNCHANGED <<known, chain>> /\ Op = "company" /\ Len(chain) = 1
      /\ (quiet => chain[1] \in DOMAIN sites) /\ IsRows(chain) /\ IsInjective(chain) /\ LookTypes
  BY DEF CompanyOfSite, Elsewhere, Placed, LookInv, LookOp, LookChain
<1>2. LookSites' /\ LookWas' /\ LookKnown' /\ Op' = Op /\ UNCHANGED <<look, sites, quiet>>
  BY <1>1, PlacedKeeps DEF Placed, lookupPortal
<1>3. lookPc' \in {"error", "done"} /\ spot' = [company |-> 1, total |-> 0, start |-> 0]
  BY DEF CompanyOfSite, Goes
<1>4. LookTypes'
  <2>1. spot' \in [company : Nat \ {0}, total : Nat, start : Nat]
    BY <1>3
  <2> QED
    BY <1>1, <1>2, <1>3, <2>1 DEF LookTypes, Placed
<1>5. LookChain'
  BY <1>1, <1>2 DEF LookChain, IsRows, IsInjective
<1>6. LookOp' /\ LookGlobal' /\ LookMissed'
  BY <1>1, <1>2, <1>3 DEF LookOp, LookGlobal, LookMissed, Asking, Grouping
<1>7. ExactIsOwn' /\ NotFoundMeansRefused' /\ ChainIsPath'
  BY <1>1, <1>2, <1>3, <1>5 DEF ExactIsOwn, NotFoundMeansRefused, ChainIsPath, LookChain
<1>8. CompanyIsOwn'
  <2> SUFFICES ASSUME lookPc' = "done", quiet, "group" \notin look.refused \/ Len(look.companies) = 1
               PROVE  result' = sites[chain[1]].company
    BY <1>1, <1>2 DEF CompanyIsOwn
  <2>1. PICK g : g = chain[1]
    OBVIOUS
  <2>2. Last(chain) = g /\ g \in DOMAIN sites
    BY <1>1, <2>1 DEF Last
  <2>3. CASE "group" \notin look.refused
    BY <2>1, <2>2, <2>3 DEF CompanyOfSite, Admits
  <2>4. CASE "group" \in look.refused
    <3>1. result' = Head(look.companies)
      BY <1>3, <2>2, <2>4 DEF CompanyOfSite, Admits, Goes
    <3>2. sites[g].company \in ToSet(look.companies) /\ look.companies \in Seq(Nat \ {0})
      BY <1>1, <2>2, LookAssumed DEF LookInv, LookSites
    <3>3. \A i \in DOMAIN look.companies : i = 1
      BY <2>4, <3>2
    <3>4. Head(look.companies) = look.companies[1]
      BY <2>4, <3>2
    <3> QED
      BY <2>1, <3>1, <3>2, <3>3, <3>4 DEF ToSet
  <2> QED
    BY <2>3, <2>4
<1> QED
  BY <1>2, <1>4, <1>5, <1>6, <1>7, <1>8 DEF LookInv
\* A request fails: what was said of an undisturbed lookup is said no more.
LEMMA LookFailsKeeps == ASSUME LookInv, LookupFails PROVE LookInv'
<1>1. /\ UNCHANGED <<look, sites, was, clock, task, known, chain>> /\ quiet' = FALSE /\ LookTypes /\ lookPc # "start"
  BY DEF LookupFails, lookupPortal, LookInv
<1>2. PICK first : first = [company |-> 1, total |-> 0, start |-> 0]
  OBVIOUS
<1>3. \/ lookPc' = "error" /\ spot' = first
      \/ lookPc' = "companies" /\ Listing /\ spot' = first
      \/ lookPc' = "noMore" /\ Listing /\ spot' = first
      \/ lookPc = "count" /\ lookPc' = "nextCompany" /\ Listing /\ spot' = spot
      \/ lookPc = "groups" /\ lookPc' \in {"groups", "nextCompany"} /\ Listing /\ spot' = [spot EXCEPT !.start = @ + LookupPage]
      \/ lookPc = "parents" /\ lookPc' = "cache" /\ spot' = first
      \/ lookPc = "company" /\ lookPc' = "done" /\ Op = "company" /\ spot' = first
  BY <1>2 DEF LookupFails, Goes, LookInv, LookOp
<1>4. spot' \in [company : Nat \ {0}, total : Nat, start : Nat] /\ (lookPc \in {"count", "groups"} /\ lookPc' # "error" => spot'.company = spot.company \/ lookPc' \notin {"count", "groups", "nextCompany"})
  <2>1. spot \in [company : Nat \ {0}, total : Nat, start : Nat] /\ LookupPage \in Nat
    BY LookupAssumption DEF LookInv, LookTypes
  <2> QED
    BY <1>2, <1>3, <2>1
<1>5. Op' = Op /\ Wanted' = Wanted /\ TheGlobal' = TheGlobal
  BY <1>1 DEF Op, Wanted, GlobalSite, TheGlobal, ByUrl
<1>6. LookTypes'
  BY <1>1, <1>3, <1>4 DEF LookTypes, Grouping, Asking
<1>7. LookSites' /\ LookWas'
  BY <1>1 DEF LookInv, LookSites, LookWas
<1>8. LookKnown'
  BY <1>1, <1>5 DEF LookInv, LookKnown, GlobalSite
<1>9. LookOp'
  BY <1>1, <1>3, <1>5 DEF LookInv, LookOp, Listing, Asking, Grouping
<1>10. LookGlobal'
  BY <1>1, <1>3, <1>5 DEF LookGlobal, Listing, Grouping
<1>11. LookMissed' /\ ExactIsOwn' /\ NotFoundMeansRefused' /\ CompanyIsOwn'
  BY <1>1, <1>3, <1>5 DEF LookMissed, ExactIsOwn, NotFoundMeansRefused, CompanyIsOwn
<1>12. LookChain' /\ ChainIsPath'
  BY <1>1 DEF LookInv, LookChain, ChainIsPath, IsRows, IsInjective
<1> QED
  BY <1>6, <1>7, <1>8, <1>9, <1>10, <1>11, <1>12 DEF LookInv

\* The next command of the process, which remembers what the last ones found.
LEMMA RunTaskKeeps == ASSUME LookInv, RunTask PROVE LookInv'
<1>1. /\ UNCHANGED <<look, sites, was, clock, known>> /\ task' = task + 1 /\ chain' = <<>> /\ LookTypes
      /\ lookPc' = (IF Op' \in {"list", "sites"} THEN "list" ELSE "cache")
      /\ spot' = [company |-> 1, total |-> 0, start |-> 0]
  BY DEF RunTask, lookupPortal, LookInv, Goes, Op
<1>2. TheGlobal' = TheGlobal
  BY <1>1 DEF TheGlobal, ByUrl
<1>3. LookTypes'
  <2>1. task + 1 \in Nat /\ task + 1 <= Len(look.tasks) /\ task + 1 >= 1
    <3>1. look.tasks \in Seq([op : {"resolve", "company", "chain", "list", "sites"}, site : [slash : BOOLEAN, text : STRING]])
      BY <1>1, LookAssumed
    <3>2. Len(look.tasks) \in Nat /\ task \in Nat /\ task < Len(look.tasks)
      BY <1>1, <3>1 DEF RunTask, LookTypes
    <3> QED
      BY <3>2
  <2>2. spot' \in [company : Nat \ {0}, total : Nat, start : Nat]
    BY <1>1
  <2> QED
    BY <1>1, <2>1, <2>2 DEF LookTypes, Asking
<1>4. LookSites' /\ LookWas'
  BY <1>1 DEF LookInv, LookSites, LookWas
<1>5. LookKnown'
  <2> SUFFICES ASSUME NEW k \in DOMAIN known
               PROVE  /\ known[k].at \in Nat /\ known[k].at <= clock
                      /\ k.slash => <<known[k].id, k.text>> \in DOMAIN was /\ known[k].at <= was[<<known[k].id, k.text>>]
                      /\ k = GlobalSite /\ look.refused = {} => known[k].id \in TheGlobal
                      /\ quiet' => known[k].id \in DOMAIN sites
    BY <1>1, <1>2 DEF LookKnown, GlobalSite
  <2>1. quiet' => known[k].id \in DOMAIN sites
    BY DEF RunTask
  <2> QED
    BY <2>1 DEF LookInv, LookKnown
<1>6. LookOp' /\ LookGlobal' /\ LookMissed'
  BY <1>1 DEF LookOp, LookGlobal, LookMissed, Listing, Asking, Grouping
<1>7. IsRows(<<>>) /\ IsInjective(<<>>)
  BY DEF IsRows, IsInjective
<1>8. LookChain' /\ ChainIsPath'
  BY <1>1, <1>7 DEF LookChain, ChainIsPath
<1>9. ExactIsOwn' /\ NotFoundMeansRefused' /\ CompanyIsOwn'
  BY <1>1 DEF ExactIsOwn, NotFoundMeansRefused, CompanyIsOwn
<1> QED
  BY <1>3, <1>4, <1>5, <1>6, <1>8, <1>9 DEF LookInv

\* The portal's sites change, or time passes: what a lookup answers with had its URL as late as before.
WasGrows == \A p \in DOMAIN was : p \in DOMAIN was' /\ (was'[p] = was[p] \/ was'[p] = clock')
\* What was answered stays as fresh as it was when it was answered.
LEMMA AnswersStay ==
  ASSUME LookInv, WasGrows, clock' \in Nat, clock <= clock', UNCHANGED <<look, known, lookPc, task, chain, result, asOf>>
  PROVE  /\ ExactIsOwn' /\ Op' = Op /\ Wanted' = Wanted
         /\ \A p \in DOMAIN was : p \in DOMAIN was' /\ was'[p] \in Nat /\ was[p] <= was'[p] /\ was'[p] <= clock'
<1>1. Op' = Op /\ Wanted' = Wanted
  BY DEF Op, Wanted, GlobalSite
<1>2. clock \in Nat /\ SiteTtl \in Nat /\ \A p \in DOMAIN was : was[p] \in Nat /\ was[p] <= clock
  BY LookupAssumption DEF LookInv, LookTypes, LookWas
<1>3. \A p \in DOMAIN was : p \in DOMAIN was' /\ was'[p] \in Nat /\ was[p] <= was'[p] /\ was'[p] <= clock'
  BY <1>2 DEF WasGrows
<1>4. ExactIsOwn'
  <2> SUFFICES ASSUME lookPc = "done", Op = "resolve", Wanted.slash
               PROVE  <<result, Wanted.text>> \in DOMAIN was' /\ asOf - was'[<<result, Wanted.text>>] <= SiteTtl
    BY <1>1 DEF ExactIsOwn
  <2>1. <<result, Wanted.text>> \in DOMAIN was /\ asOf - was[<<result, Wanted.text>>] <= SiteTtl /\ asOf \in Nat
    BY DEF LookInv, LookOp, ExactIsOwn
  <2> QED
    BY <1>2, <1>3, <2>1
<1> QED
  BY <1>1, <1>3, <1>4

\* A site is renamed or deleted: it had its old URL when it was last known to.
LEMMA EditKeeps == ASSUME LookInv, EditSites PROVE LookInv'
<1>1. /\ UNCHANGED <<look, known, clock, lookPc, task, spot, chain, result, asOf>> /\ quiet' = FALSE /\ LookTypes /\ clock \in Nat
  BY DEF EditSites, LookInv, LookTypes
<1>2. PICK g \in DOMAIN sites :
        /\ sites[g].url # "global"
        /\ \/ \E u \in look.urls :
                /\ \A h \in DOMAIN sites : sites[h].company = sites[g].company => sites[h].url # u
                /\ sites' = [sites EXCEPT ![g].url = u] /\ was' = Noting(was, {<<g, u>>}, clock)
           \/ sites' = [h \in DOMAIN sites \ {g} |-> sites[h]] /\ UNCHANGED was
  BY DEF EditSites
<1>3. "global" \notin look.urls
  BY <1>1, LookAssumed
<1>4. PICK keeper \in DOMAIN sites : sites[keeper].url = "global" /\ sites[keeper].company = look.own
  BY DEF LookInv, LookSites
<1>5. DOMAIN sites \subseteq DOMAIN look.sites /\ \A h \in DOMAIN sites :
        /\ DOMAIN sites[h] = DOMAIN look.sites[h] /\ DOMAIN sites[h] = {"url", "name", "parent", "company", "site", "admin"}
        /\ sites[h].company = look.sites[h].company /\ sites[h].parent = look.sites[h].parent
        /\ sites[h].url = "global" => look.sites[h].url = "global"
        /\ \A f \in DOMAIN sites : sites[h].company = sites[f].company /\ sites[h].url = sites[f].url => h = f
  BY <1>1, LookAssumed DEF LookInv, LookSites
<1>6. LookWas
  BY DEF LookInv
<1>7. WasGrows /\ LookSites' /\ LookWas' /\ TheGlobal' = TheGlobal
  <2>1. ASSUME NEW u \in look.urls, \A h \in DOMAIN sites : sites[h].company = sites[g].company => sites[h].url # u,
               sites' = [sites EXCEPT ![g].url = u], was' = Noting(was, {<<g, u>>}, clock)
        PROVE  WasGrows /\ LookSites' /\ LookWas' /\ TheGlobal' = TheGlobal
    <3>1. /\ DOMAIN sites' = DOMAIN sites /\ sites'[g].url = u
          /\ \A h \in DOMAIN sites : /\ DOMAIN sites'[h] = DOMAIN sites[h] /\ sites'[h].company = sites[h].company
                                     /\ sites'[h].parent = sites[h].parent /\ (h # g => sites'[h].url = sites[h].url)
      BY <1>5, <2>1
    <3>2. u # "global"
      BY <1>3
    <3>3. /\ DOMAIN was' = {<<g, u>>} \cup DOMAIN was /\ was'[<<g, u>>] = clock
          /\ \A p \in DOMAIN was : p # <<g, u>> => was'[p] = was[p]
      BY <2>1 DEF Noting
    <3>4. WasGrows
      BY <1>1, <3>3 DEF WasGrows
    <3>5. LookSites'
      <4>1. DOMAIN sites' \subseteq DOMAIN look.sites
        BY <1>5, <3>1
      <4>2. ASSUME NEW h \in DOMAIN sites
            PROVE  /\ DOMAIN sites'[h] = DOMAIN look.sites[h]
                   /\ sites'[h].company = look.sites[h].company /\ sites'[h].parent = look.sites[h].parent
                   /\ sites'[h].url = "global" => look.sites[h].url = "global"
                   /\ \A f \in DOMAIN sites : sites'[h].company = sites'[f].company /\ sites'[h].url = sites'[f].url => h = f
        BY <1>5, <2>1, <3>1, <3>2
      <4>3. sites'[keeper].url = "global" /\ sites'[keeper].company = look.own
        BY <1>2, <1>4, <3>1
      <4> QED
        BY <1>1, <1>4, <3>1, <4>1, <4>2, <4>3 DEF LookSites
    <3>6. LookWas'
      BY <1>1, <1>6, <3>1, <3>3 DEF LookWas
    <3>7. \A h \in DOMAIN sites : sites'[h].company = look.own /\ sites'[h].url = "global" <=> sites[h].company = look.own /\ sites[h].url = "global"
      BY <1>2, <3>1, <3>2
    <3>8. TheGlobal' = TheGlobal
      BY <1>1, <3>1, <3>7 DEF TheGlobal, ByUrl
    <3> QED
      BY <3>4, <3>5, <3>6, <3>8
  <2>2. ASSUME sites' = [h \in DOMAIN sites \ {g} |-> sites[h]], UNCHANGED was
        PROVE  WasGrows /\ LookSites' /\ LookWas' /\ TheGlobal' = TheGlobal
    <3>1. DOMAIN sites' = DOMAIN sites \ {g} /\ \A h \in DOMAIN sites \ {g} : sites'[h] = sites[h]
      BY <2>2
    <3>2. WasGrows
      BY <2>2 DEF WasGrows
    <3>3. LookSites'
      BY <1>1, <1>2, <1>4, <1>5, <3>1 DEF LookSites
    <3>4. LookWas'
      BY <1>1, <1>6, <2>2, <3>1 DEF LookWas
    <3>5. TheGlobal' = TheGlobal
      BY <1>1, <1>2, <3>1 DEF TheGlobal, ByUrl
    <3> QED
      BY <3>2, <3>3, <3>4, <3>5
  <2> QED
    BY <1>2, <2>1, <2>2
<1>8. /\ ExactIsOwn' /\ Op' = Op /\ Wanted' = Wanted
      /\ \A p \in DOMAIN was : p \in DOMAIN was' /\ was'[p] \in Nat /\ was[p] <= was'[p] /\ was'[p] <= clock'
  <2>1. clock' \in Nat /\ clock <= clock'
    BY <1>1
  <2> QED
    BY <1>1, <1>7, <2>1, AnswersStay
<1>9. LookTypes'
  BY <1>1 DEF LookTypes
<1>10. LookKnown'
  <2> SUFFICES ASSUME NEW k \in DOMAIN known
               PROVE  /\ known[k].at \in Nat /\ known[k].at <= clock
                      /\ k.slash => <<known[k].id, k.text>> \in DOMAIN was' /\ known[k].at <= was'[<<known[k].id, k.text>>]
                      /\ k = GlobalSite /\ look.refused = {} => known[k].id \in TheGlobal
    BY <1>1, <1>7 DEF LookKnown, GlobalSite
  <2>1. /\ known[k].at \in Nat /\ known[k].at <= clock
        /\ k.slash => /\ <<known[k].id, k.text>> \in DOMAIN was /\ known[k].at <= was[<<known[k].id, k.text>>]
                      /\ was[<<known[k].id, k.text>>] \in Nat
        /\ k = GlobalSite /\ look.refused = {} => known[k].id \in TheGlobal
    BY DEF LookInv, LookKnown, LookWas
  <2> QED
    BY <1>8, <2>1
<1>11. LookOp' /\ LookGlobal'
  BY <1>1, <1>8 DEF LookInv, LookOp, LookGlobal, Listing, GlobalSite
<1>12. LookMissed' /\ NotFoundMeansRefused' /\ CompanyIsOwn'
  BY <1>1 DEF LookMissed, NotFoundMeansRefused, CompanyIsOwn
<1>13. LookChain' /\ ChainIsPath'
  BY <1>1 DEF LookInv, LookChain, ChainIsPath, IsRows, IsInjective
<1> QED
  BY <1>7, <1>8, <1>9, <1>10, <1>11, <1>12, <1>13 DEF LookInv

\* What was missed stays missed where nothing of the lookup changes.
LEMMA MissedStays ==
  ASSUME LookInv, UNCHANGED <<look, sites, lookPc, task, spot, chain, quiet>>
  PROVE  LookMissed'
<1>1. Op' = Op /\ Wanted' = Wanted
  BY DEF Op, Wanted, GlobalSite
<1>2. Sought' = Sought
  BY <1>1 DEF Sought, ByUrl
<1>3. \A i : GroupsHide(i)' <=> GroupsHide(i)
  BY <1>2 DEF GroupsHide
<1>4. AdminSites' = AdminSites
  BY DEF AdminSites, InOrder
<1>5. SearchMissed' <=> SearchMissed
  BY <1>2, <1>4 DEF SearchMissed
<1>6. CompanyGroups(look.companies[spot.company])' = CompanyGroups(look.companies[spot.company])
  BY DEF CompanyGroups, InOrder
<1>7. GroupsMissed' <=> GroupsMissed
  BY <1>2, <1>6 DEF GroupsMissed
<1> QED
  BY <1>1, <1>2, <1>3, <1>5, <1>7 DEF LookInv, LookMissed

\* Time passes: each site has its URL still.
LEMMA TimeKeeps == ASSUME LookInv, PassTime PROVE LookInv'
<1>1. /\ UNCHANGED <<look, sites, known, lookPc, task, spot, chain, result, asOf, quiet>> /\ clock' = clock + 1
      /\ was' = Noting(was, {<<g, sites[g].url>> : g \in DOMAIN sites}, clock + 1)
  BY DEF PassTime
<1>2. clock \in Nat /\ clock' \in Nat /\ clock <= clock' /\ LookTypes /\ LookWas
  BY <1>1 DEF LookInv, LookTypes
<1>3. PICK present : present = {<<g, sites[g].url>> : g \in DOMAIN sites}
  OBVIOUS
<1>4. DOMAIN was' = present \cup DOMAIN was /\ \A p \in DOMAIN was' : was'[p] = IF p \in present THEN clock' ELSE was[p]
  BY <1>1, <1>3 DEF Noting
<1>5. WasGrows
  BY <1>4 DEF WasGrows
<1>6. /\ ExactIsOwn' /\ Op' = Op /\ Wanted' = Wanted
      /\ \A p \in DOMAIN was : p \in DOMAIN was' /\ was'[p] \in Nat /\ was[p] <= was'[p] /\ was'[p] <= clock'
  BY <1>1, <1>2, <1>5, AnswersStay
<1>7. LookTypes'
  BY <1>1, <1>2 DEF LookTypes
<1>8. LookSites'
  BY <1>1 DEF LookInv, LookSites
<1>9. LookWas'
  <2>1. \A p \in DOMAIN was' : was'[p] \in Nat /\ was'[p] <= clock'
    BY <1>2, <1>4, <1>6
  <2>2. \A g \in DOMAIN sites : <<g, sites[g].url>> \in present
    BY <1>3
  <2> QED
    BY <1>1, <1>4, <2>1, <2>2 DEF LookWas
<1>10. TheGlobal' = TheGlobal /\ Sought' = Sought /\ ChainSoFar' = ChainSoFar /\ ChainClosed' = ChainClosed
  BY <1>1, <1>6 DEF TheGlobal, Sought, ByUrl, ChainSoFar, ChainClosed, ToSet
<1>11. LookKnown'
  <2> SUFFICES ASSUME NEW k \in DOMAIN known
               PROVE  /\ known[k].at \in Nat /\ known[k].at <= clock'
                      /\ k.slash => <<known[k].id, k.text>> \in DOMAIN was' /\ known[k].at <= was'[<<known[k].id, k.text>>]
                      /\ k = GlobalSite /\ look.refused = {} => known[k].id \in TheGlobal
                      /\ quiet => known[k].id \in DOMAIN sites
    BY <1>1, <1>10 DEF LookKnown, GlobalSite
  <2>1. /\ known[k].at \in Nat /\ known[k].at <= clock
        /\ k.slash => /\ <<known[k].id, k.text>> \in DOMAIN was /\ known[k].at <= was[<<known[k].id, k.text>>]
                      /\ was[<<known[k].id, k.text>>] \in Nat
        /\ k = GlobalSite /\ look.refused = {} => known[k].id \in TheGlobal
        /\ quiet => known[k].id \in DOMAIN sites
    BY DEF LookInv, LookKnown, LookWas
  <2> QED
    BY <1>2, <1>6, <2>1
<1>12. LookOp' /\ LookGlobal'
  BY <1>1, <1>6 DEF LookInv, LookOp, LookGlobal, Listing, GlobalSite
<1>13. LookMissed'
  BY <1>1, MissedStays
<1>14. LookChain' /\ ChainIsPath' /\ NotFoundMeansRefused' /\ CompanyIsOwn'
  BY <1>1, <1>6, <1>10 DEF LookInv, LookChain, ChainIsPath, NotFoundMeansRefused, CompanyIsOwn, IsRows, IsInjective, ByUrl, ToSet
<1> QED
  BY <1>6, <1>7, <1>8, <1>9, <1>11, <1>12, <1>13, <1>14 DEF LookInv

\* Every step keeps the invariant.
LEMMA LookNextKeeps == LookInv /\ [LookupNext]_lookupVars => LookInv'
<1> SUFFICES ASSUME LookInv, [LookupNext]_lookupVars PROVE LookInv'
  OBVIOUS
<1>1. CASE LookupStep
  BY <1>1, RunTaskKeeps, FromCacheKeeps, ByIdKeeps, ByFriendlyUrlKeeps, SearchKeeps, CompaniesKeeps, CountGroupsKeeps, GroupsKeeps,
     NextCompanyKeeps, NoMoreKeeps, ListPageKeeps, ClimbKeeps, CompanyKeeps DEF LookupStep
<1>2. CASE LookupFails \/ EditSites \/ PassTime
  BY <1>2, LookFailsKeeps, EditKeeps, TimeKeeps
<1>3. CASE UNCHANGED lookupVars
  <2>1. UNCHANGED <<look, sites, known, clock, lookPc, task, spot, chain, result, asOf, was, quiet>>
    BY <1>3 DEF lookupVars
  <2>2. Op' = Op /\ Wanted' = Wanted /\ TheGlobal' = TheGlobal
    BY <2>1 DEF Op, Wanted, GlobalSite, TheGlobal, ByUrl
  <2>3. LookTypes' /\ LookSites' /\ LookWas' /\ LookKnown'
    BY <2>1, <2>2 DEF LookInv, LookTypes, LookSites, LookWas, LookKnown, GlobalSite
  <2>4. LookOp' /\ LookGlobal' /\ ExactIsOwn'
    BY <2>1, <2>2 DEF LookInv, LookOp, LookGlobal, Listing, GlobalSite, ExactIsOwn
  <2>5. Sought' = Sought /\ ChainSoFar' = ChainSoFar /\ ChainClosed' = ChainClosed
    BY <2>1, <2>2 DEF Sought, ByUrl, ChainSoFar, ChainClosed, ToSet
  <2>6. LookMissed'
    BY <2>1, MissedStays
  <2>7. LookChain' /\ ChainIsPath' /\ NotFoundMeansRefused' /\ CompanyIsOwn'
    BY <2>1, <2>2, <2>5 DEF LookInv, LookChain, ChainIsPath, NotFoundMeansRefused, CompanyIsOwn, IsRows, IsInjective, ByUrl, ToSet
  <2> QED
    BY <2>3, <2>4, <2>6, <2>7 DEF LookInv
<1> QED
  BY <1>1, <1>2, <1>3 DEF LookupNext

(* For any sites, companies, endpoints that refuse, commands of a process,  *)
(* renames, deletions, failures and time: a site asked for by its URL had   *)
(* this URL within the life of the cache (resolveSite); one that is there   *)
(* and is not found was refused by every endpoint that shows it; a chain    *)
(* has no site twice, follows the parents and ends at the global site       *)
(* (buildSiteChain); and the company told of a site is its own              *)
(* (enrichWithCompanyId).                                                   *)
THEOREM LookupsHold == LookupSpec => [](ExactIsOwn /\ NotFoundMeansRefused /\ ChainIsPath /\ CompanyIsOwn)
<1>1. LookInv => ExactIsOwn /\ NotFoundMeansRefused /\ ChainIsPath /\ CompanyIsOwn
  BY DEF LookInv
<1> QED
  BY <1>1, LookStarts, LookNextKeeps, PTL DEF LookupSpec
=============================================================================
