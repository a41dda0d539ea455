---------------------- MODULE StructureMigrationProofs ----------------------
(***************************************************************************)
(* Theorems about the import of structures and the migration of their      *)
(* contents, for any contents, mappings, commands and number of launches:  *)
(*   - every variable keeps its type (TypeInv);                            *)
(*   - nothing out of scope is written (InScope: what is being written was *)
(*     selected, and cleanup takes over only what introduce has migrated); *)
(*   - a target keeps what it holds (PortalInv: what the portal shows, has *)
(*     or will have of the targets never leaves the local file's shapes);  *)
(*   - no mapped value is lost (Survival: a definition that was read or    *)
(*     sent is harmless, as it removes or reshapes a source only when all  *)
(*     its values are in their targets);                                   *)
(*   - what a command reports is so (ReportInv, and Survival again).       *)
(* The invariants come in this order, each of them with the ones before.   *)
(***************************************************************************)
EXTENDS StructureMigration, FiniteSetTheorems, TLAPS

RunRecord(w) ==
  [pc : PCs, cmd : Commands[w] \cup {NoCommand}, stage : {"introduce", "cleanup"}, part : Parts,
   remote : Definition, todo : SUBSET Article, item : Article \cup {None}, before : Content \cup {None},
   locales : SUBSET Locale, snap : [Article -> Content \cup {None}], touched : BOOLEAN,
   migrated : SUBSET Article, failed : BOOLEAN, polls : 0..(Polls - 1), outcome : Outcomes]

PortalOK ==
  /\ def \in Definition /\ late \subseteq Definition /\ articles \subseteq Article
  /\ content \in [Article -> Content]
RigidOK ==
  /\ world \in Worlds /\ langs \in [Article -> SUBSET Locale] /\ local \in Definition
  /\ orig \in [Article -> Content]

(* A content is at hand with what was read of it, or nothing is; between    *)
(* commands nothing is left of the last one but how it ended.               *)
AtHand ==
  /\ run.item = None => run.before = None /\ run.locales = {}
  /\ run.item # None => run.before # None
  /\ run.item # None => At("items")
  /\ At("idle") => run = Idle(run.outcome)
TypeInv == TypeOK /\ AtHand

LEMMA TypeParts == TypeOK <=> RigidOK /\ PortalOK /\ run \in RunRecord(world) /\ launches \in 0..MaxLaunches[world]
  BY DEF TypeOK, RigidOK, PortalOK, RunRecord

LEMMA RuleFacts ==
  /\ DOMAIN Mappings \subseteq Nat
  /\ \A i \in DOMAIN Mappings : Mappings[i].source \in Field /\ Mappings[i].target \in Field
  /\ \A i \in DOMAIN Mappings : Mappings[i].source \in Sources /\ Mappings[i].target \in Targets
  /\ Sources \subseteq Field /\ Targets \subseteq Field
<1>1. Mappings \in Seq(Rule)
  BY ConstantsAssumption
<1>2. DOMAIN Mappings \subseteq Nat /\ \A i \in DOMAIN Mappings : Mappings[i] \in Rule
  BY <1>1
<1> QED BY <1>2 DEF Rule, Sources, Targets

(* Some rules have a first one: the sets 0..i are well founded.              *)
LEMMA FirstOfSome ==
  ASSUME NEW S \in SUBSET Nat, S # {}
  PROVE  First(S) \in S /\ \A j \in S : First(S) <= j
<1>1. PICK n \in S : TRUE
  OBVIOUS
<1> DEFINE Below == {0 .. i : i \in {j \in S : j <= n}}
<1>2. Below \subseteq FiniteSubsetsOf(0 .. n) /\ Below # {}
  <2>1. \A i \in S : i <= n => 0 .. i \in SUBSET (0 .. n) /\ IsFiniteSet(0 .. i)
    BY FS_Interval
  <2> QED BY <2>1 DEF FiniteSubsetsOf
<1>3. PICK b \in Below : \A c \in Below : ~(<<c, b>> \in StrictSubsetOrdering(0 .. n))
  <2> HIDE DEF Below
  <2> QED BY <1>2, FS_StrictSubsetOrderingWellFounded, WFMin
<1>4. PICK i \in S : i <= n /\ b = 0 .. i
  BY <1>3
<1>5. \A j \in S : i <= j
  <2>1. SUFFICES ASSUME NEW j \in S, j < i PROVE FALSE
    OBVIOUS
  <2>2. 0 .. j \in Below /\ 0 .. j # b /\ 0 .. j \subseteq b
    BY <1>4, <2>1
  <2> QED BY <1>2, <1>3, <2>2 DEF StrictSubsetOrdering, FiniteSubsetsOf
<1> QED BY <1>5 DEF First

LEMMA IdleOK ==
  ASSUME NEW w, NEW why \in Outcomes
  PROVE  Idle(why) \in RunRecord(w)
<1>1. [shape |-> [f \in Field |-> Gone], label |-> "was"] \in Definition
  BY DEF Definition, Shape, Gone
<1>2. 0 \in 0 .. (Polls - 1)
  BY ConstantsAssumption
<1> QED BY <1>1, <1>2 DEF Idle, RunRecord, PCs, Parts

LEMMA GoOK ==
  ASSUME NEW w, NEW r \in RunRecord(w)
  PROVE  /\ \A x \in PCs : [r EXCEPT !.pc = x] \in RunRecord(w)
         /\ \A x \in PCs, p \in Parts : [r EXCEPT !.pc = x, !.part = p] \in RunRecord(w)
         /\ \A x \in PCs, p \in Parts : [r EXCEPT !.part = p, !.pc = x] \in RunRecord(w)
         /\ \A d \in Definition : [r EXCEPT !.remote = d] \in RunRecord(w)
<1>1. \A x \in PCs : [r EXCEPT !.pc = x] \in RunRecord(w)
  BY DEF RunRecord
<1>2. \A x \in PCs, p \in Parts : [r EXCEPT !.pc = x, !.part = p] \in RunRecord(w)
  BY DEF RunRecord
<1>3. \A x \in PCs, p \in Parts : [r EXCEPT !.part = p, !.pc = x] \in RunRecord(w)
  BY DEF RunRecord
<1>4. \A d \in Definition : [r EXCEPT !.remote = d] \in RunRecord(w)
  BY DEF RunRecord
<1> QED BY <1>1, <1>2, <1>3, <1>4

LEMMA PayloadOK ==
  ASSUME TypeOK
  PROVE  Payload \in Definition /\ Transition(run.remote, Payload) \in Definition
<1>1. local \in Definition /\ run.remote \in Definition
  BY TypeParts DEF RigidOK, RunRecord
<1>2. Payload \in Definition
  BY <1>1 DEF Payload, Definition, Shape, Gone
<1>3. Transition(run.remote, Payload) \in Definition
  BY <1>1, <1>2 DEF Transition, Definition
<1> QED BY <1>2, <1>3

LEMMA AppliedOK ==
  ASSUME PortalOK, NEW d \in Definition, Applied(d)
  PROVE  def' \in Definition /\ content' \in [Article -> Content]
  BY DEF PortalOK, Applied, Content, Value

LEMMA LostAnswerOK ==
  ASSUME PortalOK, NEW d \in Definition, LostAnswer(d)
  PROVE  def' \in Definition /\ content' \in [Article -> Content] /\ late' \subseteq Definition
  BY AppliedOK DEF PortalOK, LostAnswer

LEMMA EndOK ==
  ASSUME TypeOK, NEW why \in Outcomes, End(why), world' = world
  PROVE  run' \in RunRecord(world)' /\ AtHand'
<1>1. run' \in RunRecord(world)'
  BY IdleOK DEF End, RunRecord
<1>2. AtHand'
  BY DEF End, AtHand, Idle, At
<1> QED BY <1>1, <1>2

(* The decisions at the end of an import and of a part of it.               *)
LEMMA ReturnOK ==
  ASSUME TypeOK, NEW r \in RunRecord(world), NEW why \in Outcomes, world' = world,
         r.item = None, r.before = None, r.locales = {}, Return(r, why)
  PROVE  run' \in RunRecord(world)' /\ AtHand'
<1>1. CASE r.cmd.pipeline /\ r.stage = "introduce"
  <2>1. run' = [r EXCEPT !.pc = "templates", !.part = "pre"]
    BY <1>1 DEF Return
  <2>2. run' \in RunRecord(world)
    BY <2>1, GoOK DEF PCs, Parts
  <2>3. AtHand'
    BY <2>1 DEF AtHand, At, RunRecord
  <2> QED BY <2>2, <2>3 DEF RunRecord
<1>2. CASE ~(r.cmd.pipeline /\ r.stage = "introduce")
  BY <1>2, EndOK DEF Return
<1> QED BY <1>1, <1>2

LEMMA MigrateOK ==
  ASSUME NEW r \in RunRecord(world), NEW part \in Parts, world' = world,
         r.item = None, r.before = None, r.locales = {}, Migrate(r, part)
  PROVE  run' \in RunRecord(world)' /\ AtHand'
<1>1. run' = [r EXCEPT !.pc = "select", !.part = part]
  BY DEF Migrate
<1>2. run' \in RunRecord(world)
  BY <1>1, GoOK DEF PCs
<1>3. AtHand'
  BY <1>1 DEF AtHand, At, RunRecord
<1> QED BY <1>2, <1>3 DEF RunRecord

LEMMA GotoOK ==
  ASSUME TypeInv, NEW pc \in PCs \ {"idle"}, world' = world, run.item = None, Goto(pc)
  PROVE  run' \in RunRecord(world)' /\ AtHand'
<1>1. run' = [run EXCEPT !.pc = pc] /\ run \in RunRecord(world)
  BY TypeParts DEF Goto, TypeInv
<1>2. run' \in RunRecord(world)
  BY <1>1, GoOK
<1>3. AtHand'
  BY <1>1 DEF AtHand, At, RunRecord, TypeInv
<1> QED BY <1>2, <1>3 DEF RunRecord

LEMMA AfterPreOK ==
  ASSUME NEW r \in RunRecord(world), world' = world,
         r.item = None, r.before = None, r.locales = {}, AfterPre(r)
  PROVE  run' \in RunRecord(world)' /\ AtHand'
<1>1. PICK pc \in {"create", "list", "put"} : run' = [r EXCEPT !.part = "pre", !.pc = pc]
  BY DEF AfterPre
<1>2. run' \in RunRecord(world)
  BY <1>1, GoOK DEF PCs, Parts
<1>3. AtHand'
  BY <1>1 DEF AtHand, At, RunRecord
<1> QED BY <1>2, <1>3 DEF RunRecord

LEMMA UpdatedOK ==
  ASSUME TypeInv, world' = world, run.item = None, Updated
  PROVE  run' \in RunRecord(world)' /\ AtHand'
<1>1. run \in RunRecord(world) /\ run.before = None /\ run.locales = {}
  BY TypeParts DEF TypeInv, AtHand
<1> QED BY <1>1, MigrateOK, ReturnOK DEF Updated, TypeInv, Parts, Outcomes

LEMMA FindRemoteOK ==
  ASSUME TypeInv, FindRemote
  PROVE  run' \in RunRecord(world)' /\ AtHand'
<1> DEFINE r == [run EXCEPT !.remote = def]
<1>1. /\ run \in RunRecord(world) /\ run.item = None /\ run.before = None /\ run.locales = {}
      /\ def \in Definition /\ world' = world
  BY TypeParts DEF TypeInv, AtHand, FindRemote, At, PortalOK, rigid
<1>2. r \in RunRecord(world) /\ r.item = None /\ r.before = None /\ r.locales = {}
  BY <1>1, GoOK DEF RunRecord
<1>3. \/ \E why \in Outcomes : End(why) \/ Return(r, why)
      \/ \E part \in Parts : Migrate(r, part)
      \/ AfterPre(r)
  BY DEF FindRemote, NothingPut, Outcomes, Parts
<1> HIDE DEF r
<1> QED BY <1>1, <1>2, <1>3, EndOK, ReturnOK, MigrateOK, AfterPreOK DEF TypeInv

LEMMA SelectedOK == ASSUME TypeInv PROVE Selected \in SUBSET Article
  BY TypeParts DEF TypeInv, Selected, PortalOK

LEMMA MappedOK ==
  ASSUME TypeInv, run.item # None, NEW l \in Locale
  PROVE  /\ run.item \in Article /\ Source(l) \in [Field -> Value] /\ run.before[l] \in [Field -> Value]
         /\ Mapped(run.before[l], Source(l)) \in [Field -> Value]
<1>1. /\ run.item \in Article /\ run.before \in Content
      /\ run.snap[run.item] # None => run.snap[run.item] \in Content
  BY TypeParts DEF TypeInv, AtHand, RunRecord
<1>2. run.before[l] \in [Field -> Value] /\ Source(l) \in [Field -> Value]
  BY <1>1 DEF Source, Content
<1>3. \A S : S \subseteq Rules /\ S # {} => Source(l)[Mappings[First(S)].source] \in Value
  <2>1. SUFFICES ASSUME NEW S, S \subseteq Rules, S # {}
                 PROVE  Source(l)[Mappings[First(S)].source] \in Value
    OBVIOUS
  <2>2. First(S) \in S
    BY <2>1, FirstOfSome, RuleFacts DEF Rules
  <2>3. Mappings[First(S)].source \in Field
    BY <2>1, <2>2, RuleFacts DEF Rules
  <2> QED BY <1>2, <2>3
<1>4. \A f \in Field : Mapped(run.before[l], Source(l))[f] \in Value
  <2>1. SUFFICES ASSUME NEW f \in Field
                 PROVE  Mapped(run.before[l], Source(l))[f] \in Value
    OBVIOUS
  <2> DEFINE later == {i \in Writers(Source(l), f) : \A j \in Cleaners(Source(l), f) : j < i}
  <2>2. Mapped(run.before[l], Source(l))[f] \in {Source(l)[Mappings[First(later)].source], Empty, run.before[l][f]}
        /\ (later = {} => Mapped(run.before[l], Source(l))[f] \in {Empty, run.before[l][f]})
    BY DEF Mapped
  <2>3. later \subseteq Rules
    BY DEF Writers
  <2> HIDE DEF later
  <2>4. Empty \in Value
    BY DEF Value
  <2> QED BY <1>2, <1>3, <2>2, <2>3, <2>4
<1>5. Mapped(run.before[l], Source(l)) \in [Field -> Value]
  <2>1. Mapped(run.before[l], Source(l)) = [f \in Field |-> Mapped(run.before[l], Source(l))[f]]
    BY DEF Mapped
  <2> HIDE DEF Mapped
  <2> QED BY <1>4, <2>1
<1> QED BY <1>1, <1>2, <1>5

LEMMA ItemFailsOK ==
  ASSUME TypeInv, At("items"), ItemFails, world' = world
  PROVE  run' \in RunRecord(world)' /\ AtHand'
<1>1. run' = [run EXCEPT !.failed = TRUE, !.item = None, !.before = None, !.locales = {}, !.touched = FALSE]
  BY DEF ItemFails
<1>2. run \in RunRecord(world)
  BY TypeParts DEF TypeInv
<1>3. run' \in RunRecord(world)
  BY <1>1, <1>2 DEF RunRecord
<1>4. AtHand'
  BY <1>1, <1>2 DEF AtHand, At, RunRecord
<1> QED BY <1>3, <1>4 DEF RunRecord

LEMMA NextLocaleOK ==
  ASSUME TypeInv, At("items"), run.item # None, world' = world, NEW l \in Locale,
         NextLocale(l) \/ run' = [run EXCEPT !.locales = @ \ {l}]
  PROVE  run' \in RunRecord(world)' /\ AtHand'
<1>1. run \in RunRecord(world)
  BY TypeParts DEF TypeInv
<1>2. run' \in RunRecord(world)
  BY <1>1, ZenonT(40) DEF RunRecord, NextLocale
<1>3. AtHand'
  BY <1>1 DEF AtHand, At, RunRecord, NextLocale, TypeInv
<1> QED BY <1>2, <1>3 DEF RunRecord

LEMMA WriteLocaleOK ==
  ASSUME TypeInv, WriteLocale
  PROVE  run' \in RunRecord(world)' /\ AtHand' /\ content' \in [Article -> Content]
<1>1. run \in RunRecord(world) /\ content \in [Article -> Content] /\ At("items") /\ world' = world
  BY TypeParts DEF TypeInv, PortalOK, WriteLocale, rigid
<1>2. PICK l \in run.locales :
        LET after == Mapped(run.before[l], Source(l))
            written == [content EXCEPT ![run.item][l] = after]
        IN \/ UNCHANGED content /\ (NextLocale(l) \/ ItemFails \/ run' = [run EXCEPT !.locales = @ \ {l}])
           \/ content' = written /\ (NextLocale(l) \/ ItemFails)
  BY DEF WriteLocale
<1>3. run.item # None /\ l \in Locale
  BY <1>1, <1>2 DEF TypeInv, AtHand, RunRecord
<1>4. run' \in RunRecord(world)' /\ AtHand'
  BY <1>1, <1>2, <1>3, ItemFailsOK, NextLocaleOK
<1>5. content' \in [Article -> Content]
  <2>1. run.item \in Article /\ Mapped(run.before[l], Source(l)) \in [Field -> Value]
    BY <1>3, MappedOK
  <2>2. UNCHANGED content \/ content' = [content EXCEPT ![run.item][l] = Mapped(run.before[l], Source(l))]
    BY <1>2
  <2> HIDE DEF Mapped, Source
  <2> QED BY <1>1, <1>3, <2>1, <2>2, ZenonT(40) DEF Content
<1> QED BY <1>4, <1>5

LEMMA ReadingOK ==
  ASSUME TypeInv, ListSources \/ SnapshotSource \/ SelectContents \/ ReadContent \/ ContentDone
  PROVE  run' \in RunRecord(world)' /\ AtHand'
<1>1. /\ run \in RunRecord(world) /\ content \in [Article -> Content] /\ world' = world
      /\ Selected \in SUBSET Article /\ langs \in [Article -> SUBSET Locale]
  BY TypeParts, SelectedOK
  DEF TypeInv, PortalOK, RigidOK, rigid, ListSources, SnapshotSource, SelectContents, ReadContent, ContentDone
<1>2. /\ \A x \in PCs, t \in SUBSET Article : [run EXCEPT !.pc = x, !.todo = t] \in RunRecord(world)
      /\ \A a \in Article, c \in Content, t \in SUBSET Article :
           [run EXCEPT !.snap[a] = c, !.todo = t] \in RunRecord(world)
  BY <1>1 DEF RunRecord
<1>3. CASE ListSources
  <2>1. run' = [run EXCEPT !.pc = "snapshot", !.todo = Selected] /\ run.item = None
    BY <1>3 DEF ListSources, TypeInv, AtHand, At
  <2>2. run' \in RunRecord(world)
    BY <1>1, <1>2, <2>1 DEF PCs
  <2>3. AtHand'
    BY <1>1, <2>1 DEF AtHand, At, RunRecord, TypeInv
  <2> QED BY <1>1, <2>2, <2>3 DEF RunRecord
<1>4. CASE SnapshotSource
  <2>1. run.item = None /\ At("snapshot")
    BY <1>4 DEF SnapshotSource, TypeInv, AtHand, At
  <2>2. CASE Goto("transition")
    BY <1>1, <2>1, <2>2, GotoOK DEF PCs
  <2>3. CASE \E a \in run.todo : run' = [run EXCEPT !.snap[a] = content[a], !.todo = @ \ {a}]
    <3>1. PICK a \in run.todo : run' = [run EXCEPT !.snap[a] = content[a], !.todo = @ \ {a}]
      BY <2>3
    <3>2. run' \in RunRecord(world)
      BY <1>1, <1>2, <3>1 DEF RunRecord
    <3>3. AtHand'
      BY <1>1, <2>1, <3>1 DEF AtHand, At, RunRecord, TypeInv
    <3> QED BY <1>1, <3>2, <3>3 DEF RunRecord
  <2> QED BY <1>4, <2>2, <2>3 DEF SnapshotSource
<1>5. CASE SelectContents
  <2>1. run.item = None
    BY <1>5 DEF SelectContents, TypeInv, AtHand, At
  <2>2. CASE End("error")
    BY <1>1, <2>2, EndOK DEF TypeInv, Outcomes
  <2>3. CASE run' = [run EXCEPT !.pc = "items", !.todo = Selected, !.failed = FALSE,
                                !.migrated = IF Cleanup THEN @ ELSE {}]
    <3>1. run' \in RunRecord(world)
      BY <1>1, <2>3 DEF RunRecord, PCs
    <3>2. AtHand'
      BY <1>1, <2>1, <2>3 DEF AtHand, At, RunRecord, TypeInv
    <3> QED BY <1>1, <3>1, <3>2 DEF RunRecord
  <2> QED BY <1>5, <2>2, <2>3 DEF SelectContents
<1>6. CASE ReadContent
  <2>1. PICK a \in run.todo :
          \/ run' = [run EXCEPT !.item = a, !.before = content[a], !.locales = langs[a], !.touched = FALSE,
                                !.todo = @ \ {a}]
          \/ run' = [run EXCEPT !.failed = TRUE, !.todo = @ \ {a}]
    BY <1>6 DEF ReadContent
  <2>2. a \in Article /\ content[a] \in Content /\ At("items")
    BY <1>1, <1>6, <2>1 DEF RunRecord, ReadContent
  <2>3. CASE run' = [run EXCEPT !.item = a, !.before = content[a], !.locales = langs[a], !.touched = FALSE,
                                !.todo = @ \ {a}]
    <3>1. langs[a] \in SUBSET Locale /\ a # None /\ content[a] # None
      BY <1>1, <2>2, ConstantsAssumption
    <3>2. run' \in RunRecord(world)
      BY <1>1, <2>2, <2>3, <3>1 DEF RunRecord
    <3>3. AtHand'
      BY <1>1, <2>2, <2>3, <3>1 DEF AtHand, At, RunRecord
    <3> QED BY <1>1, <3>2, <3>3 DEF RunRecord
  <2>4. CASE run' = [run EXCEPT !.failed = TRUE, !.todo = @ \ {a}]
    <3>1. run' \in RunRecord(world)
      BY <1>1, <2>4 DEF RunRecord
    <3>2. AtHand'
      BY <1>1, <2>2, <2>4 DEF AtHand, At, RunRecord, TypeInv
    <3> QED BY <1>1, <3>1, <3>2 DEF RunRecord
  <2> QED BY <2>1, <2>3, <2>4
<1>7. CASE ContentDone
  <2>1. run' = [run EXCEPT !.item = None, !.before = None, !.touched = FALSE,
                           !.migrated = IF run.touched /\ ~Cleanup THEN @ \cup {run.item} ELSE @]
        /\ run.item \in Article /\ run.locales = {} /\ At("items")
    BY <1>1, <1>7 DEF ContentDone, RunRecord
  <2>2. run' \in RunRecord(world)
    BY <1>1, <2>1 DEF RunRecord
  <2>3. AtHand'
    BY <1>1, <2>1 DEF AtHand, At, RunRecord, TypeInv
  <2> QED BY <1>1, <2>2, <2>3 DEF RunRecord
<1> QED BY <1>3, <1>4, <1>5, <1>6, <1>7

LEMMA WritingOK ==
  ASSUME TypeInv, PutTransition \/ PostStructure \/ PutStructure \/ PollRecovery
  PROVE  run' \in RunRecord(world)' /\ AtHand' /\ PortalOK'
<1>1. /\ run \in RunRecord(world) /\ run.item = None /\ run.before = None /\ run.locales = {}
      /\ PortalOK /\ world' = world /\ ~At("idle")
  BY TypeParts DEF TypeInv, AtHand, PutTransition, PostStructure, PutStructure, PollRecovery, At, rigid
<1>2. Payload \in Definition /\ Transition(run.remote, Payload) \in Definition
  BY PayloadOK DEF TypeInv
<1>3. \A d \in Definition : (Applied(d) /\ UNCHANGED late) \/ LostAnswer(d) =>
         def' \in Definition /\ content' \in [Article -> Content] /\ late' \subseteq Definition
  BY <1>1, AppliedOK, LostAnswerOK DEF PortalOK
<1>4. PortalOK'
  <2>1. CASE PollRecovery
    BY <1>1, <2>1 DEF PortalOK, PollRecovery, portal
  <2>2. CASE PutTransition
    <3>1. articles' = articles
      BY <2>2 DEF PutTransition
    <3>2. (Applied(Transition(run.remote, Payload)) /\ UNCHANGED late) \/ LostAnswer(Transition(run.remote, Payload))
      BY <2>2 DEF PutTransition
    <3> QED BY <1>1, <1>2, <1>3, <3>1, <3>2 DEF PortalOK
  <2>3. CASE PostStructure \/ PutStructure
    <3>1. articles' = articles
      BY <2>3 DEF PostStructure, PutStructure
    <3>2. (Applied(Payload) /\ UNCHANGED late) \/ LostAnswer(Payload) \/ UNCHANGED <<def, content, late>>
      BY <2>3 DEF PostStructure, PutStructure
    <3> QED BY <1>1, <1>2, <1>3, <3>1, <3>2 DEF PortalOK
  <2> QED BY <2>1, <2>2, <2>3
<1>5. \/ \E why \in Outcomes : End(why) \/ Return(run, why)
      \/ \E part \in Parts : Migrate(run, part)
      \/ Updated \/ Goto("poll")
      \/ run.polls # Polls - 1 /\ run' = [run EXCEPT !.polls = @ + 1]
  BY DEF PutTransition, PostStructure, PutStructure, PollRecovery, LastPoll, Outcomes, Parts
<1>6. CASE run.polls # Polls - 1 /\ run' = [run EXCEPT !.polls = @ + 1]
  <2>1. run.polls + 1 \in 0 .. (Polls - 1)
    BY <1>1, <1>6, ConstantsAssumption DEF RunRecord
  <2>2. run' \in RunRecord(world)
    BY <1>1, <1>6, <2>1 DEF RunRecord
  <2>3. AtHand'
    BY <1>1, <1>6 DEF AtHand, At, RunRecord
  <2> QED BY <1>1, <1>4, <2>2, <2>3 DEF RunRecord
<1> QED BY <1>1, <1>4, <1>5, <1>6, EndOK, ReturnOK, MigrateOK, UpdatedOK, GotoOK DEF TypeInv, PCs

LEMMA EndingOK ==
  ASSUME TypeInv, MigrationDone \/ Templates \/ CleanupPlan \/ PipelineEnds \/ Abort
  PROVE  run' \in RunRecord(world)' /\ AtHand'
<1>1. run \in RunRecord(world) /\ world' = world /\ ~At("idle")
  BY TypeParts DEF TypeInv, MigrationDone, Templates, CleanupPlan, PipelineEnds, Abort, At, rigid
<1>2. \A why \in Outcomes : End(why) => run' \in RunRecord(world)' /\ AtHand'
  BY <1>1, EndOK DEF TypeInv
<1>3. CASE Abort
  BY <1>2, <1>3 DEF Abort, Outcomes
<1>4. CASE MigrationDone \/ Templates \/ CleanupPlan \/ PipelineEnds
  <2>1. run.item = None /\ run.before = None /\ run.locales = {}
    BY <1>4 DEF TypeInv, AtHand, At, MigrationDone, Templates, CleanupPlan, PipelineEnds
  <2>2. \/ \E why \in Outcomes : End(why) \/ Return(run, why)
        \/ AfterPre(run)
        \/ \E pc \in PCs \ {"idle"} : Goto(pc)
        \/ run' = [run EXCEPT !.stage = "cleanup", !.pc = "find", !.polls = 0]
    <3>1. MigrationDone => \/ \E why \in Outcomes : End(why) \/ Return(run, why)
                           \/ AfterPre(run) \/ Goto("put")
      <4>1. run.part \in Parts
        BY <1>1 DEF RunRecord
      <4> QED BY <4>1 DEF MigrationDone, NothingPut, Outcomes, Parts
    <3>2. Templates => Goto("plan") \/ Goto("end")
      BY DEF Templates
    <3>3. CleanupPlan \/ PipelineEnds =>
            \/ \E why \in Outcomes : End(why)
            \/ run' = [run EXCEPT !.stage = "cleanup", !.pc = "find", !.polls = 0]
      BY DEF CleanupPlan, PipelineEnds, Outcomes
    <3> QED BY <1>4, <3>1, <3>2, <3>3 DEF PCs
  <2>3. CASE run' = [run EXCEPT !.stage = "cleanup", !.pc = "find", !.polls = 0]
    <3>1. 0 \in 0 .. (Polls - 1)
      BY ConstantsAssumption
    <3>2. run' \in RunRecord(world)
      BY <1>1, <2>3, <3>1 DEF RunRecord, PCs
    <3>3. AtHand'
      BY <1>1, <2>1, <2>3 DEF AtHand, At, RunRecord
    <3> QED BY <1>1, <3>2, <3>3 DEF RunRecord
  <2> QED BY <1>1, <1>2, <2>1, <2>2, <2>3, ReturnOK, AfterPreOK, GotoOK DEF TypeInv
<1> QED BY <1>3, <1>4

LEMMA LaunchOK ==
  ASSUME TypeInv, Launch
  PROVE  run' \in RunRecord(world)' /\ AtHand' /\ launches' \in 0..MaxLaunches[world]
<1>1. run \in RunRecord(world) /\ world' = world /\ run.item = None /\ launches \in 0..MaxLaunches[world]
  BY TypeParts DEF TypeInv, AtHand, Launch, At, rigid
<1>2. PICK c \in Commands[world] : run' = [run EXCEPT !.pc = "find", !.cmd = c, !.outcome = "none"]
  BY DEF Launch
<1>3. run' \in RunRecord(world)
  BY <1>1, <1>2 DEF RunRecord, PCs, Outcomes
<1>4. AtHand'
  BY <1>1, <1>2 DEF AtHand, At, RunRecord, TypeInv
<1>5. launches' \in 0..MaxLaunches[world]
  <2>1. MaxLaunches[world] \in Nat
    BY TypeParts, ConstantsAssumption DEF TypeInv, RigidOK
  <2> QED BY <1>1, <2>1 DEF Launch
<1> QED BY <1>1, <1>3, <1>4, <1>5 DEF RunRecord

LEMMA TypeInit == Init => TypeInv
<1> SUFFICES ASSUME Init PROVE TypeInv
  OBVIOUS
<1>1. RigidOK
  <2>1. world \in Worlds
    BY DEF Init
  <2>2. local \in Definition
    BY ConstantsAssumption DEF Init, Definition
  <2>3. langs \in [Article -> SUBSET Locale]
    BY <2>1, ConstantsAssumption DEF Init, StartType
  <2>4. orig \in [Article -> Content]
    <3>1. Blank \in [Field -> Value] /\ \A e \in Entered : Shown(e) \in [Field -> Value]
      BY DEF Blank, Shown, Value
    <3>2. orig \in [Article -> [Locale -> {Shown(e) : e \in Entered} \cup {Blank}]]
      BY DEF Init
    <3> HIDE DEF Blank, Shown
    <3>3. {Shown(e) : e \in Entered} \cup {Blank} \subseteq [Field -> Value]
      BY <3>1
    <3>4. \A a \in Article, l \in Locale : orig[a][l] \in [Field -> Value]
      BY <3>2, <3>3
    <3> QED BY <3>2, <3>4 DEF Content
  <2> QED BY <2>1, <2>2, <2>3, <2>4 DEF RigidOK
<1>2. PortalOK
  <2>1. def \in Definition
    BY ConstantsAssumption DEF Init, Definition
  <2>2. articles \subseteq Article
    BY <1>1, ConstantsAssumption DEF Init, StartType, RigidOK
  <2> QED BY <1>1, <2>1, <2>2 DEF Init, PortalOK, RigidOK
<1>3. run = Idle("none") /\ launches = 0 /\ run \in RunRecord(world)
  BY IdleOK DEF Init, Outcomes
<1>4. AtHand
  BY <1>3 DEF AtHand, Idle, At
<1>5. launches \in 0..MaxLaunches[world]
  BY <1>1, <1>3, ConstantsAssumption DEF RigidOK
<1> QED BY <1>1, <1>2, <1>3, <1>4, <1>5, TypeParts DEF TypeInv

LEMMA RigidStep == [Next]_vars => UNCHANGED rigid
  BY DEF Next, vars, rigid, Launch, LateUpdate, Edit, Create, Step, FindRemote, ListSources, SnapshotSource,
         PutTransition, PostStructure, PutStructure, PollRecovery, SelectContents, ReadContent, WriteLocale,
         ContentDone, MigrationDone, Templates, CleanupPlan, PipelineEnds, Abort

(* Every step keeps the types.                                              *)
LEMMA TypeStep == TypeInv /\ [Next]_vars => TypeInv'
<1> SUFFICES ASSUME TypeInv, [Next]_vars PROVE TypeInv'
  OBVIOUS
<1>1. RigidOK /\ PortalOK /\ run \in RunRecord(world) /\ launches \in 0..MaxLaunches[world]
  BY TypeParts DEF TypeInv
<1>2. RigidOK' /\ world' = world
  BY <1>1, RigidStep DEF RigidOK, rigid
<1>3. SUFFICES PortalOK' /\ run' \in RunRecord(world)' /\ AtHand' /\ launches' \in 0..MaxLaunches[world]
  BY <1>2, TypeParts DEF TypeInv, TypeOK, RigidOK, PortalOK, RunRecord
<1>4. CASE UNCHANGED vars
  BY <1>1, <1>4 DEF vars, PortalOK, RunRecord, AtHand, At, TypeInv
<1>5. CASE Launch
  BY <1>1, <1>5, LaunchOK DEF Launch, portal, PortalOK
<1>6. CASE LateUpdate \/ Edit \/ Create
  <2>1. run' = run /\ launches' = launches
    BY <1>6 DEF LateUpdate, Edit, Create
  <2>2. PortalOK'
    <3>1. CASE LateUpdate
      BY <1>1, <3>1, AppliedOK DEF LateUpdate, PortalOK
    <3>2. CASE Edit
      <4>1. PICK a \in articles, f \in Field : \E l \in langs[a] : content' = [content EXCEPT ![a][l][f] = Edited]
        BY <3>2 DEF Edit
      <4>2. PICK l \in langs[a] : content' = [content EXCEPT ![a][l][f] = Edited]
        BY <4>1
      <4>3. content' \in [Article -> Content]
        BY <1>1, <4>2 DEF PortalOK, RigidOK, Content, Value
      <4> QED BY <1>1, <3>2, <4>3 DEF Edit, PortalOK
    <3>3. CASE Create
      BY <1>1, <3>3 DEF Create, PortalOK
    <3> QED BY <1>6, <3>1, <3>2, <3>3
  <2> QED BY <1>1, <1>2, <2>1, <2>2 DEF AtHand, At, TypeInv
<1>7. CASE FindRemote
  BY <1>1, <1>7, FindRemoteOK DEF FindRemote, portal, PortalOK
<1>8. CASE ListSources \/ SnapshotSource \/ SelectContents \/ ReadContent \/ ContentDone
  <2>1. UNCHANGED portal /\ launches' = launches
    BY <1>8 DEF ListSources, SnapshotSource, SelectContents, ReadContent, ContentDone
  <2> QED BY <1>1, <1>8, <2>1, ReadingOK DEF portal, PortalOK
<1>9. CASE PutTransition \/ PostStructure \/ PutStructure \/ PollRecovery
  <2>1. launches' = launches
    BY <1>9 DEF PutTransition, PostStructure, PutStructure, PollRecovery
  <2> QED BY <1>1, <1>9, <2>1, WritingOK
<1>10. CASE WriteLocale
  BY <1>1, <1>10, WriteLocaleOK DEF WriteLocale, PortalOK
<1>11. CASE MigrationDone \/ Templates \/ CleanupPlan \/ PipelineEnds \/ Abort
  <2>1. UNCHANGED portal /\ launches' = launches
    BY <1>11 DEF MigrationDone, Templates, CleanupPlan, PipelineEnds, Abort
  <2> QED BY <1>1, <1>11, <2>1, EndingOK DEF portal, PortalOK
<1> QED BY <1>4, <1>5, <1>6, <1>7, <1>8, <1>9, <1>10, <1>11 DEF Next, Step

(* Every variable keeps its type: the polls stay below their number and the *)
(* record of the command stays one, for any plan and any number of contents. *)
THEOREM StructureTypeCorrect == Spec => []TypeOK
<1>1. Spec => []TypeInv
  BY TypeInit, TypeStep, PTL DEF Spec
<1>2. TypeInv => TypeOK
  BY DEF TypeInv
<1> QED BY <1>1, <1>2, PTL

-----------------------------------------------------------------------------
(* What the steps that neither select, read nor write contents leave alone. *)
WorkKept ==
  /\ run'.cmd = run.cmd /\ run'.todo = run.todo /\ run'.item = run.item /\ run'.before = run.before
  /\ run'.locales = run.locales /\ run'.snap = run.snap /\ run'.migrated = run.migrated
Ended(why) == run' = Idle(why)
Quiet ==
  \/ FindRemote \/ PutTransition \/ PostStructure \/ PutStructure \/ PollRecovery
  \/ MigrationDone \/ Templates \/ CleanupPlan \/ PipelineEnds \/ Abort

LEMMA FoundOK == ASSUME TypeInv PROVE [run EXCEPT !.remote = def] \in RunRecord(world)
<1>1. def \in Definition /\ run \in RunRecord(world)
  BY TypeParts DEF TypeInv, PortalOK
<1> QED BY <1>1, GoOK

LEMMA QuietKeeps ==
  ASSUME TypeInv, Quiet
  PROVE  WorkKept \/ \E why \in Outcomes : Ended(why)
<1>1. run \in RunRecord(world)
  BY TypeParts DEF TypeInv
<1>2. ASSUME NEW r, r = run \/ r = [run EXCEPT !.remote = def],
             \/ \E why \in Outcomes : End(why) \/ Return(r, why)
             \/ \E part \in Parts : Migrate(r, part)
             \/ AfterPre(r)
      PROVE  WorkKept \/ \E why \in Outcomes : Ended(why)
  <2>1. r \in RunRecord(world)
    BY <1>1, <1>2, FoundOK
  <2>2. /\ r.cmd = run.cmd /\ r.todo = run.todo /\ r.item = run.item /\ r.before = run.before
        /\ r.locales = run.locales /\ r.snap = run.snap /\ r.migrated = run.migrated
    BY <1>1, <1>2 DEF RunRecord
  <2>3. ASSUME NEW x, NEW y, run' = [r EXCEPT !.pc = x, !.part = y] \/ run' = [r EXCEPT !.part = y, !.pc = x]
        PROVE  WorkKept
    BY <2>1, <2>2, <2>3 DEF WorkKept, RunRecord
  <2>4. CASE \E why \in Outcomes : End(why)
    BY <2>4 DEF End, Ended
  <2>5. CASE \E why \in Outcomes : Return(r, why)
    BY <2>3, <2>5 DEF Return, End, Ended
  <2>6. CASE (\E part \in Parts : Migrate(r, part)) \/ AfterPre(r)
    BY <2>3, <2>6 DEF Migrate, AfterPre
  <2> QED BY <1>2, <2>4, <2>5, <2>6
<1>3. CASE FindRemote
  <2>1. LET r == [run EXCEPT !.remote = def] IN
        \/ \E why \in Outcomes : End(why) \/ Return(r, why)
        \/ \E part \in Parts : Migrate(r, part)
        \/ AfterPre(r)
    BY <1>3 DEF FindRemote, NothingPut, Outcomes, Parts
  <2> QED BY <1>2, <2>1
<1>4. CASE PutTransition \/ PostStructure \/ PutStructure \/ PollRecovery
  <2>1. \/ \E why \in Outcomes : End(why) \/ Return(run, why)
        \/ \E part \in Parts : Migrate(run, part)
        \/ Goto("poll") \/ run' = [run EXCEPT !.polls = @ + 1]
    BY <1>4 DEF PutTransition, PostStructure, PutStructure, PollRecovery, Updated, LastPoll, Outcomes, Parts
  <2> QED BY <1>1, <1>2, <2>1 DEF Goto, WorkKept, RunRecord
<1>5. CASE MigrationDone
  <2>1. run.part \in Parts
    BY <1>1 DEF RunRecord
  <2>2. (\E why \in Outcomes : End(why) \/ Return(run, why)) \/ AfterPre(run) \/ Goto("put")
    BY <1>5, <2>1 DEF MigrationDone, NothingPut, Outcomes, Parts
  <2> QED BY <1>1, <1>2, <2>2 DEF Goto, WorkKept, RunRecord
<1>6. CASE Templates
  BY <1>1, <1>6 DEF Templates, Goto, WorkKept, RunRecord
<1>7. CASE CleanupPlan \/ PipelineEnds \/ Abort
  <2>1. (\E why \in Outcomes : End(why)) \/ run' = [run EXCEPT !.stage = "cleanup", !.pc = "find", !.polls = 0]
    BY <1>7 DEF CleanupPlan, PipelineEnds, Abort, Outcomes
  <2> QED BY <1>1, <1>2, <2>1 DEF WorkKept, RunRecord
<1> QED BY <1>3, <1>4, <1>5, <1>6, <1>7 DEF Quiet

(* What is still to be done, is at hand or is done lies in the scope.       *)
InScope ==
  /\ run.todo \subseteq run.cmd.scope /\ run.migrated \subseteq run.cmd.scope
  /\ run.item # None => run.item \in run.cmd.scope

LEMMA IdleInScope ==
  ASSUME TypeInv, \E why \in Outcomes : Ended(why)
  PROVE  InScope'
  BY DEF Ended, Idle, InScope

LEMMA InScopeStep ==
  ASSUME TypeInv, InScope, [Next]_vars
  PROVE  InScope'
<1>1. run \in RunRecord(world)
  BY TypeParts DEF TypeInv
<1>2. Selected \subseteq run.cmd.scope
  BY DEF Selected, Scope, InScope
<1>3. CASE run' = run
  BY <1>3 DEF InScope
<1>4. CASE Launch
  BY <1>1, <1>4 DEF Launch, InScope, TypeInv, AtHand, At, Idle, RunRecord
<1>5. CASE Quiet
  BY <1>5, QuietKeeps, IdleInScope DEF WorkKept, InScope
<1>6. CASE ListSources
  BY <1>1, <1>2, <1>6 DEF ListSources, InScope, RunRecord
<1>7. CASE SnapshotSource
  <2>1. Goto("transition") \/ \E a \in run.todo : run' = [run EXCEPT !.snap[a] = content[a], !.todo = @ \ {a}]
    BY <1>7 DEF SnapshotSource
  <2>2. CASE Goto("transition")
    BY <1>1, <2>2 DEF Goto, InScope, RunRecord
  <2>3. CASE \E a \in run.todo : run' = [run EXCEPT !.snap[a] = content[a], !.todo = @ \ {a}]
    BY <1>1, <2>3 DEF InScope, RunRecord
  <2> QED BY <2>1, <2>2, <2>3
<1>8. CASE SelectContents
  <2>1. (\E why \in Outcomes : Ended(why))
        \/ run' = [run EXCEPT !.pc = "items", !.todo = Selected, !.failed = FALSE,
                              !.migrated = IF Cleanup THEN @ ELSE {}]
    BY <1>8 DEF SelectContents, End, Ended, Outcomes
  <2> QED BY <1>1, <1>2, <2>1, IdleInScope DEF InScope, RunRecord
<1>9. CASE ReadContent
  <2>1. PICK a \in run.todo :
          \/ run' = [run EXCEPT !.item = a, !.before = content[a], !.locales = langs[a], !.touched = FALSE,
                                !.todo = @ \ {a}]
          \/ run' = [run EXCEPT !.failed = TRUE, !.todo = @ \ {a}]
    BY <1>9 DEF ReadContent
  <2> QED BY <1>1, <2>1 DEF InScope, RunRecord
<1>10. CASE WriteLocale
  <2>1. PICK l \in run.locales : NextLocale(l) \/ ItemFails \/ run' = [run EXCEPT !.locales = @ \ {l}]
    BY <1>10 DEF WriteLocale
  <2> QED BY <1>1, <2>1 DEF NextLocale, ItemFails, InScope, RunRecord
<1>11. CASE ContentDone
  BY <1>1, <1>11 DEF ContentDone, InScope, RunRecord
<1> QED BY <1>3, <1>4, <1>5, <1>6, <1>7, <1>8, <1>9, <1>10, <1>11
        DEF Next, Step, Quiet, vars, LateUpdate, Edit, Create

(* No content outside the scope of the descriptor is written, in the cleanup *)
(* stage either, whose scope is what introduce has migrated.                 *)
THEOREM StructureScope == Spec => ScopeRespected
<1>1. Init => TypeInv /\ InScope
  BY TypeInit DEF Init, Idle, InScope
<1>2. TypeInv /\ InScope /\ [Next]_vars => (TypeInv /\ InScope)'
  BY TypeStep, InScopeStep
<1>3. TypeInv /\ InScope /\ [Next]_vars =>
        [Command /\ def' = def => \A a \in Article : content'[a] # content[a] => a \in run.cmd.scope]_vars
  <2>1. SUFFICES ASSUME TypeInv, InScope, Next, Command, def' = def, NEW a \in Article, content'[a] # content[a]
                 PROVE  a \in run.cmd.scope
    OBVIOUS
  <2>2. content \in [Article -> Content] /\ run \in RunRecord(world)
    BY <2>1, TypeParts DEF TypeInv, PortalOK
  <2>3. ~\E d : Applied(d)
    BY <2>1, <2>2 DEF Applied, Content
  <2>4. WriteLocale
    <3>1. content' # content /\ run' # run /\ ~At("idle")
      BY <2>1 DEF Command
    <3> QED BY <2>1, <2>3, <3>1 DEF Next, Step, Launch, LateUpdate, Edit, Create, FindRemote, ListSources,
               SnapshotSource, PutTransition, PostStructure, PutStructure, PollRecovery, SelectContents,
               ReadContent, ContentDone, MigrationDone, Templates, CleanupPlan, PipelineEnds, Abort, portal,
               LostAnswer
  <2>5. PICK l \in run.locales : \E after : content' = content \/ content' = [content EXCEPT ![run.item][l] = after]
    BY <2>4 DEF WriteLocale
  <2>6. run.item = a
    BY <2>1, <2>2, <2>5
  <2> QED BY <2>1, <2>6, ConstantsAssumption DEF InScope
<1> QED BY <1>1, <1>2, <1>3, PTL DEF Spec, ScopeRespected

-----------------------------------------------------------------------------
(* A definition that ldev sends has the label and the targets of the local  *)
(* file; what the portal has, or had when it was read, has each target in   *)
(* the shape of the local file or not at all, when the plan fits; and the   *)
(* portal shows no field that it does not have.                             *)
Brings(d) == d.label = local.label /\ (PlanFits => \A t \in Targets : d.shape[t] = local.shape[t])
Partial(d) == PlanFits => \A t \in Targets : d.shape[t] \in {Gone, local.shape[t]}
TargetShapes ==
  /\ local.label = "is" /\ (PlanFits => \A t \in Targets : local.shape[t] # Gone)
  /\ Partial(def) /\ Partial(run.remote) /\ \A d \in late : Brings(d)
Showing == \A a \in Article, l \in Locale, f \in Field : content[a][l][f] # Empty => def.shape[f] # Gone

LEMMA UpdateBrings ==
  ASSUME TypeInv, TargetShapes
  PROVE  Brings(Payload) /\ Brings(Transition(run.remote, Payload))
<1>1. local \in Definition /\ run.remote \in Definition /\ Payload \in Definition
  BY TypeParts, PayloadOK DEF TypeInv, RigidOK, RunRecord
<1>2. (PlanFits => CleanupSources \cap Targets = {}) /\ Targets \subseteq Field
  BY RuleFacts DEF CleanupSources, PlanFits
<1>3. Brings(Payload)
  BY <1>1, <1>2 DEF Payload, Brings, Definition
<1>4. Brings(Transition(run.remote, Payload))
  BY <1>1, <1>2, <1>3 DEF Transition, Brings, TargetShapes, Partial, Definition
<1> QED BY <1>3, <1>4

(* What a step does to the portal.                                          *)
TakesEffect(d) == Applied(d) /\ late' \subseteq late /\ articles' = articles
WillTakeEffect(d) == UNCHANGED <<def, content, articles>> /\ late' = late \cup {d}

LEMMA PortalSteps ==
  ASSUME TypeInv, TargetShapes, [Next]_vars
  PROVE  \/ \E d \in Definition : Brings(d) /\ (TakesEffect(d) \/ WillTakeEffect(d))
         \/ Edit \/ Create \/ WriteLocale \/ UNCHANGED portal
<1>1. \A d : ((Applied(d) /\ UNCHANGED late) \/ LostAnswer(d)) /\ articles' = articles =>
        TakesEffect(d) \/ WillTakeEffect(d) \/ UNCHANGED portal
  BY DEF LostAnswer, TakesEffect, WillTakeEffect, portal
<1>2. CASE PutTransition
  <2> DEFINE d == Transition(run.remote, Payload)
  <2>1. ((Applied(d) /\ UNCHANGED late) \/ LostAnswer(d)) /\ articles' = articles
    BY <1>2 DEF PutTransition
  <2>2. d \in Definition /\ Brings(d)
    BY PayloadOK, UpdateBrings DEF TypeInv
  <2> HIDE DEF d
  <2> QED BY <1>1, <2>1, <2>2
<1>3. CASE PostStructure \/ PutStructure
  <2>1. (Applied(Payload) /\ UNCHANGED late) \/ LostAnswer(Payload) \/ UNCHANGED <<def, content, late>>
    BY <1>3 DEF PostStructure, PutStructure
  <2>2. articles' = articles
    BY <1>3 DEF PostStructure, PutStructure
  <2>3. Payload \in Definition /\ Brings(Payload)
    BY PayloadOK, UpdateBrings DEF TypeInv
  <2> QED BY <1>1, <2>1, <2>2, <2>3 DEF portal
<1>4. CASE LateUpdate
  <2>1. PICK d \in late : Applied(d) /\ late' = late \ {d} /\ articles' = articles
    BY <1>4 DEF LateUpdate
  <2>2. d \in Definition /\ Brings(d)
    BY TypeParts DEF TypeInv, PortalOK, TargetShapes
  <2> QED BY <2>1, <2>2 DEF TakesEffect
<1>5. CASE Launch \/ UNCHANGED vars \/ FindRemote \/ ListSources \/ SnapshotSource \/ PollRecovery
           \/ SelectContents \/ ReadContent \/ ContentDone \/ MigrationDone \/ Templates \/ CleanupPlan
           \/ PipelineEnds \/ Abort
  BY <1>5 DEF vars, portal, Launch, FindRemote, ListSources, SnapshotSource, PollRecovery, SelectContents,
     ReadContent, ContentDone, MigrationDone, Templates, CleanupPlan, PipelineEnds, Abort
<1> QED BY <1>2, <1>3, <1>4, <1>5 DEF Next, Step

LEMMA RemoteSteps ==
  ASSUME TypeInv, [Next]_vars
  PROVE  run'.remote \in {run.remote, def} \/ \A f \in Field : run'.remote.shape[f] = Gone
<1>1. run \in RunRecord(world)
  BY TypeParts DEF TypeInv
<1>2. ASSUME NEW r, r = run \/ r = [run EXCEPT !.remote = def], NEW why,
             End(why) \/ Return(r, why) \/ (\E part : Migrate(r, part)) \/ AfterPre(r)
      PROVE  run'.remote \in {run.remote, def} \/ \A f \in Field : run'.remote.shape[f] = Gone
  <2>1. r.remote \in {run.remote, def}
    BY <1>1, <1>2 DEF RunRecord
  <2>2. r \in RunRecord(world)
    BY <1>1, <1>2, FoundOK
  <2>3. ASSUME NEW x, NEW y, run' = [r EXCEPT !.pc = x, !.part = y] \/ run' = [r EXCEPT !.part = y, !.pc = x]
        PROVE  run'.remote = r.remote
    BY <2>2, <2>3 DEF RunRecord
  <2>4. CASE run' = Idle(why)
    BY <2>4 DEF Idle
  <2> QED BY <1>2, <2>1, <2>3, <2>4 DEF End, Return, Migrate, AfterPre
<1>3. CASE FindRemote
  <2>1. LET r == [run EXCEPT !.remote = def] IN
        \E why : End(why) \/ Return(r, why) \/ (\E part : Migrate(r, part)) \/ AfterPre(r)
    BY <1>3 DEF FindRemote
  <2> QED BY <1>2, <2>1
<1>4. CASE run'.remote = run.remote
  BY <1>4
<1>5. CASE PutTransition \/ PostStructure \/ PutStructure \/ PollRecovery \/ MigrationDone
  <2>1. run.part \in Parts
    BY <1>1 DEF RunRecord
  <2>2. (\E why : End(why) \/ Return(run, why) \/ (\E part : Migrate(run, part)) \/ AfterPre(run))
        \/ (\E pc : Goto(pc)) \/ run' = [run EXCEPT !.polls = @ + 1]
    BY <1>5, <2>1
    DEF PutTransition, PostStructure, PutStructure, PollRecovery, Updated, LastPoll, MigrationDone, Parts
  <2>3. CASE (\E pc : Goto(pc)) \/ run' = [run EXCEPT !.polls = @ + 1]
    BY <1>1, <2>3 DEF Goto, RunRecord
  <2> QED BY <1>2, <2>2, <2>3
<1>6. CASE Templates \/ CleanupPlan \/ PipelineEnds \/ Abort \/ SelectContents
  <2>1. (\E why : End(why)) \/ (\E pc : Goto(pc))
        \/ run' = [run EXCEPT !.stage = "cleanup", !.pc = "find", !.polls = 0]
        \/ run' = [run EXCEPT !.pc = "items", !.todo = Selected, !.failed = FALSE,
                              !.migrated = IF Cleanup THEN @ ELSE {}]
    BY <1>6 DEF Templates, CleanupPlan, PipelineEnds, Abort, SelectContents
  <2>2. CASE \E why : End(why)
    BY <1>2, <2>2
  <2>3. CASE ~\E why : End(why)
    BY <1>1, <2>1, <2>3 DEF Goto, RunRecord
  <2> QED BY <2>2, <2>3
<1>7. CASE Launch \/ ListSources \/ SnapshotSource \/ ReadContent \/ WriteLocale \/ ContentDone
  <2>1. CASE Launch \/ ListSources \/ ContentDone
    BY <1>1, <2>1 DEF Launch, ListSources, ContentDone, RunRecord
  <2>2. CASE SnapshotSource
    <3>1. Goto("transition") \/ \E a \in run.todo : run' = [run EXCEPT !.snap[a] = content[a], !.todo = @ \ {a}]
      BY <2>2 DEF SnapshotSource
    <3> QED BY <1>1, <3>1 DEF Goto, RunRecord
  <2>3. CASE ReadContent
    BY <1>1, <2>3 DEF ReadContent, RunRecord
  <2>4. CASE WriteLocale
    <3>1. \E l \in run.locales : NextLocale(l) \/ ItemFails \/ run' = [run EXCEPT !.locales = @ \ {l}]
      BY <2>4 DEF WriteLocale
    <3> QED BY <1>1, <3>1 DEF NextLocale, ItemFails, RunRecord
  <2> QED BY <1>7, <2>1, <2>2, <2>3, <2>4
<1>8. CASE run' = run
  BY <1>8
<1> QED BY <1>3, <1>4, <1>5, <1>6, <1>7, <1>8 DEF Next, Step, vars, LateUpdate, Edit, Create

LEMMA ShapesInit == Init => TargetShapes /\ Showing
<1> SUFFICES ASSUME Init PROVE TargetShapes /\ Showing
  OBVIOUS
<1>1. PICK s \in Locals : local = [shape |-> s, label |-> "is"]
  BY DEF Init
<1>2. PICK q \in Runtimes : def = [shape |-> q, label |-> "was"]
  BY DEF Init
<1>3. Targets \subseteq Field
  BY RuleFacts
<1>4. local.label = "is" /\ (PlanFits => \A t \in Targets : local.shape[t] # Gone) /\ Partial(def)
  BY <1>1, <1>2, <1>3 DEF Partial, PlanFits
<1>5. Partial(run.remote)
  BY <1>3 DEF Init, Idle, Partial
<1>6. TargetShapes
  BY <1>4, <1>5 DEF TargetShapes, Init
<1>7. Showing
  <2>1. \A e \in Entered, f \in Field : Shown(e)[f] # Empty => def.shape[f] # Gone
    BY DEF Shown
  <2>2. \A f \in Field : Blank[f] = Empty
    BY DEF Blank
  <2>3. content \in [Article -> [Locale -> {Shown(e) : e \in Entered} \cup {Blank}]]
    BY DEF Init
  <2> HIDE DEF Shown, Blank
  <2>4. \A a \in Article, l \in Locale : content[a][l] = Blank \/ \E e \in Entered : content[a][l] = Shown(e)
    BY <2>3
  <2> QED BY <2>1, <2>2, <2>4 DEF Showing
<1> QED BY <1>6, <1>7

LEMMA AppliedShows ==
  ASSUME TypeInv, TargetShapes, Showing, NEW d \in Definition, Brings(d), Applied(d), local' = local
  PROVE  /\ Showing' /\ Partial(def)'
         /\ \A a \in Article, l \in Locale, f \in Field : content'[a][l][f] \in {content[a][l][f], Empty}
         /\ PlanFits => \A a \in Article, l \in Locale, t \in Targets : content'[a][l][t] = content[a][l][t]
<1>1. \A a \in Article, l \in Locale, f \in Field :
        content'[a][l][f] = IF d.shape[f] = def.shape[f] THEN content[a][l][f] ELSE Empty
  BY DEF Applied
<1>2. Showing'
  BY <1>1 DEF Applied, Showing
<1>3. Partial(def)'
  BY DEF Applied, Partial, Brings
<1>4. PlanFits => \A a \in Article, l \in Locale, t \in Targets : content'[a][l][t] = content[a][l][t]
  BY <1>1, RuleFacts DEF TargetShapes, Showing, Brings, Partial
<1> QED BY <1>1, <1>2, <1>3, <1>4

(* A write, of which the content at hand is the only one that changes.      *)
After(l) == Mapped(run.before[l], Source(l))
Writes(l) ==
  /\ ~DryRun /\ Accepts(After(l)) /\ After(l) # run.before[l]
  /\ content' = [content EXCEPT ![run.item][l] = After(l)]
LocaleDone(l) == NextLocale(l) \/ run' = [run EXCEPT !.locales = @ \ {l}]

LEMMA WriteForm ==
  ASSUME TypeInv, WriteLocale
  PROVE  /\ run.item \in Article /\ At("items") /\ def' = def /\ late' = late /\ articles' = articles
         /\ \E l \in run.locales :
              /\ l \in Locale /\ After(l) \in [Field -> Value] /\ run.before[l] \in [Field -> Value]
              /\ \/ content' = content /\ ((LocaleDone(l) /\ (After(l) = run.before[l] \/ DryRun)) \/ ItemFails)
                 \/ Writes(l) /\ (LocaleDone(l) \/ ItemFails)
<1>1. PICK l \in run.locales :
        \/ content' = content /\ ((LocaleDone(l) /\ (After(l) = run.before[l] \/ DryRun)) \/ ItemFails)
        \/ Writes(l) /\ (LocaleDone(l) \/ ItemFails)
  BY DEF WriteLocale, After, Writes, LocaleDone
<1>2. l \in Locale /\ run.item # None
  BY <1>1, TypeParts DEF TypeInv, AtHand, RunRecord
<1>3. After(l) \in [Field -> Value] /\ run.before[l] \in [Field -> Value] /\ run.item \in Article
  BY <1>2, MappedOK DEF After
<1>4. At("items") /\ def' = def /\ late' = late /\ articles' = articles
  BY DEF WriteLocale
<1> QED BY <1>1, <1>2, <1>3, <1>4

LEMMA WritesAt ==
  ASSUME TypeInv, NEW l \in Locale, run.item \in Article, Writes(l)
  PROVE  /\ content'[run.item][l] = After(l)
         /\ \A a \in Article, k \in Locale : a # run.item \/ k # l => content'[a][k] = content[a][k]
  BY TypeParts DEF TypeInv, PortalOK, Content, Writes

LEMMA ShapesStep ==
  ASSUME TypeInv, TargetShapes, Showing, [Next]_vars
  PROVE  TargetShapes' /\ Showing'
<1>1. local' = local /\ rigid' = rigid
  BY RigidStep DEF rigid
<1>2. \A d : Brings(d)' = Brings(d)
  BY <1>1 DEF Brings
<1>3. \A d : Partial(d) => Partial(d)'
  BY <1>1 DEF Partial
<1>4. Partial(run.remote)'
  BY <1>1, RemoteSteps, RuleFacts DEF Partial, TargetShapes
<1>5. CASE \E d \in Definition : Brings(d) /\ TakesEffect(d)
  <2>1. PICK d \in Definition : Brings(d) /\ TakesEffect(d)
    BY <1>5
  <2>2. Showing' /\ Partial(def)'
    BY <1>1, <2>1, AppliedShows DEF TakesEffect
  <2> QED BY <1>1, <1>2, <1>4, <2>1, <2>2 DEF TargetShapes, TakesEffect
<1>6. CASE \E d \in Definition : Brings(d) /\ WillTakeEffect(d)
  BY <1>1, <1>2, <1>3, <1>4, <1>6 DEF TargetShapes, WillTakeEffect, Showing
<1>7. CASE Edit
  <2>1. def' = def /\ late' = late
    BY <1>7 DEF Edit
  <2>2. PICK a \in articles, f \in Field :
          \E l \in langs[a] : def.shape[f] # Gone /\ content' = [content EXCEPT ![a][l][f] = Edited]
    BY <1>7 DEF Edit
  <2>3. PICK l \in langs[a] : def.shape[f] # Gone /\ content' = [content EXCEPT ![a][l][f] = Edited]
    BY <2>2
  <2>4. Showing'
    BY <2>1, <2>3, TypeParts DEF Showing, TypeInv, PortalOK, Content
  <2> QED BY <1>1, <1>2, <1>4, <2>1, <2>4 DEF TargetShapes, Partial
<1>8. CASE Create \/ UNCHANGED portal
  BY <1>1, <1>2, <1>3, <1>4, <1>8 DEF Create, portal, TargetShapes, Showing
<1>9. CASE WriteLocale
  <2>1. def' = def /\ late' = late /\ run.item \in Article
    BY <1>9, WriteForm
  <2>2. PICK l \in Locale : content' = content \/ Writes(l)
    BY <1>9, WriteForm
  <2>3. Showing'
    <3>1. CASE content' = content
      BY <2>1, <3>1 DEF Showing
    <3>2. CASE Writes(l)
      BY <2>1, <3>2, WritesAt DEF Showing, Writes, Accepts
    <3> QED BY <2>2, <3>1, <3>2
  <2> QED BY <1>1, <1>2, <1>4, <2>1, <2>3 DEF TargetShapes, Partial
<1> QED BY <1>5, <1>6, <1>7, <1>8, <1>9, PortalSteps

(* Without editors, what was read of the content at hand is still what it   *)
(* holds, but for fields that have left the definition, in each locale that *)
(* is not written yet; the targets are as they were.                        *)
Current ==
  "edit" \in world \/ run.item = None
  \/ \A l \in run.locales, f \in Field :
       /\ content[run.item][l][f] # Empty => run.before[l][f] = content[run.item][l][f]
       /\ PlanFits /\ f \in Targets => run.before[l][f] = content[run.item][l][f]

LEMMA ItemSteps ==
  ASSUME TypeInv, [Next]_vars
  PROVE  \/ run'.item = None
         \/ /\ UNCHANGED portal /\ run'.item \in Article /\ run'.before = content[run'.item]
            /\ run'.locales = langs[run'.item]
         \/ WriteLocale /\ run.item \in Article
         \/ run'.item = run.item /\ run'.before = run.before /\ run'.locales = run.locales /\ ~WriteLocale
<1>1. run \in RunRecord(world)
  BY TypeParts DEF TypeInv
<1>2. CASE WriteLocale
  BY <1>2, WriteForm
<1>3. CASE Quiet
  <2>1. ~At("items") \/ run.item = None \/ Abort
    BY <1>3 DEF Quiet, MigrationDone, FindRemote, PutTransition, PostStructure, PutStructure, PollRecovery,
       Templates, CleanupPlan, PipelineEnds, At
  <2>2. CASE Abort
    BY <2>2 DEF Abort, End, Idle
  <2>3. CASE ~Abort
    <3>1. run.item = None
      BY <2>1, <2>3 DEF TypeInv, AtHand
    <3> QED BY <1>3, <3>1, QuietKeeps DEF WorkKept, Ended, Idle
  <2> QED BY <2>2, <2>3
<1>4. CASE ReadContent
  <2>1. PICK a \in run.todo :
          \/ run' = [run EXCEPT !.item = a, !.before = content[a], !.locales = langs[a], !.touched = FALSE,
                                !.todo = @ \ {a}]
          \/ run' = [run EXCEPT !.failed = TRUE, !.todo = @ \ {a}]
    BY <1>4 DEF ReadContent
  <2>2. a \in Article /\ run.item = None /\ UNCHANGED portal
    BY <1>1, <1>4, <2>1 DEF RunRecord, ReadContent
  <2>3. CASE run' = [run EXCEPT !.item = a, !.before = content[a], !.locales = langs[a], !.touched = FALSE,
                                !.todo = @ \ {a}]
    BY <1>1, <2>2, <2>3 DEF RunRecord
  <2>4. CASE run' = [run EXCEPT !.failed = TRUE, !.todo = @ \ {a}]
    BY <1>1, <2>2, <2>4 DEF RunRecord
  <2> QED BY <2>1, <2>3, <2>4
<1>5. CASE ContentDone
  BY <1>1, <1>5 DEF ContentDone, RunRecord
<1>6. CASE Launch \/ ListSources \/ SnapshotSource \/ SelectContents
  <2>1. run.item = None
    BY <1>6 DEF TypeInv, AtHand, At, Launch, ListSources, SnapshotSource, SelectContents
  <2>2. CASE Launch \/ ListSources
    BY <1>1, <2>1, <2>2 DEF Launch, ListSources, RunRecord
  <2>3. CASE SnapshotSource
    <3>1. Goto("transition") \/ \E a \in run.todo : run' = [run EXCEPT !.snap[a] = content[a], !.todo = @ \ {a}]
      BY <2>3 DEF SnapshotSource
    <3> QED BY <1>1, <2>1, <3>1 DEF Goto, RunRecord
  <2>4. CASE SelectContents
    <3>1. End("error") \/ run' = [run EXCEPT !.pc = "items", !.todo = Selected, !.failed = FALSE,
                                             !.migrated = IF Cleanup THEN @ ELSE {}]
      BY <2>4 DEF SelectContents
    <3>2. CASE End("error")
      BY <3>2 DEF End, Idle
    <3>3. CASE ~End("error")
      BY <1>1, <2>1, <3>1, <3>3 DEF RunRecord
    <3> QED BY <3>2, <3>3
  <2> QED BY <1>6, <2>2, <2>3, <2>4
<1>7. CASE run' = run
  BY <1>2, <1>7
<1> QED BY <1>2, <1>3, <1>4, <1>5, <1>6, <1>7 DEF Next, Step, Quiet, vars, LateUpdate, Edit, Create

LEMMA LocaleSteps ==
  ASSUME TypeInv, NEW l \in Locale, run.item \in Article, LocaleDone(l) \/ ItemFails
  PROVE  \/ run'.item = None
         \/ run'.item = run.item /\ run'.before = run.before /\ run'.locales = run.locales \ {l}
<1>1. run \in RunRecord(world)
  BY TypeParts DEF TypeInv
<1>2. CASE LocaleDone(l)
  BY <1>1, <1>2 DEF LocaleDone, NextLocale, RunRecord
<1>3. CASE ItemFails
  <2>1. run' = [run EXCEPT !.failed = TRUE, !.item = None, !.before = None, !.locales = {}, !.touched = FALSE]
    BY <1>3 DEF ItemFails
  <2>2. run'.item = None
    BY <1>1, <2>1 DEF RunRecord
  <2> QED BY <2>2
<1> QED BY <1>2, <1>3

LEMMA CurrentStep ==
  ASSUME TypeInv, TargetShapes, Showing, Current, [Next]_vars
  PROVE  Current'
<1>1. rigid' = rigid /\ world' = world /\ local' = local
  BY RigidStep DEF rigid
<1>2. CASE "edit" \in world \/ run'.item = None
  BY <1>1, <1>2 DEF Current
<1>3. CASE UNCHANGED portal /\ run'.item \in Article /\ run'.before = content[run'.item]
  BY <1>3 DEF Current, portal
<1>4. CASE "edit" \notin world /\ WriteLocale /\ run.item \in Article
  <2>1. PICK l \in run.locales : l \in Locale /\ (content' = content \/ Writes(l)) /\ (LocaleDone(l) \/ ItemFails)
    BY <1>4, WriteForm
  <2>2. \/ run'.item = None
        \/ run'.item = run.item /\ run'.before = run.before /\ run'.locales = run.locales \ {l}
    BY <1>4, <2>1, LocaleSteps
  <2>3. \A k \in Locale : k # l => content'[run.item][k] = content[run.item][k]
    BY <1>4, <2>1, WritesAt
  <2>4. run.locales \subseteq Locale
    BY TypeParts DEF TypeInv, RunRecord
  <2>5. run.item # None
    BY <1>4, ConstantsAssumption
  <2> QED BY <1>1, <1>4, <2>2, <2>3, <2>4, <2>5 DEF Current
<1>5. CASE "edit" \notin world /\ ~WriteLocale /\ run.item # None
           /\ run'.item = run.item /\ run'.before = run.before /\ run'.locales = run.locales
  <2>1. run.locales \subseteq Locale /\ run.item \in Article
    BY <1>5, TypeParts DEF TypeInv, RunRecord
  <2>2. CASE \E d \in Definition : Brings(d) /\ TakesEffect(d)
    <3>1. /\ \A a \in Article, l \in Locale, f \in Field : content'[a][l][f] \in {content[a][l][f], Empty}
          /\ PlanFits => \A a \in Article, l \in Locale, t \in Targets : content'[a][l][t] = content[a][l][t]
      BY <1>1, <2>2, AppliedShows DEF TakesEffect
    <3> QED BY <1>1, <1>5, <2>1, <3>1, RuleFacts DEF Current
  <2>3. CASE content' = content
    BY <1>1, <1>5, <2>3 DEF Current
  <2> QED BY <1>5, <2>2, <2>3, PortalSteps DEF WillTakeEffect, Create, Edit, portal
<1> QED BY <1>2, <1>3, <1>4, <1>5, ItemSteps

(* When the plan fits no mapping blanks a target, and one that holds        *)
(* something is left alone.                                                 *)
LEMMA NotBlanked ==
  ASSUME PlanFits, NEW item, NEW source, NEW t \in Targets
  PROVE  /\ t \in Field
         /\ Mapped(item, source)[t] =
              IF Writers(source, t) # {} /\ ~Kept(item[t])
              THEN source[Mappings[First(Writers(source, t))].source] ELSE item[t]
<1>1. t \in Field /\ ~\E i \in Rules : Mappings[i].source = t
  BY RuleFacts DEF Rules, PlanFits
<1>2. Cleaners(source, t) = {}
  BY <1>1 DEF Cleaners
<1>3. {i \in Writers(source, t) : \A j \in Cleaners(source, t) : j < i} = Writers(source, t)
  BY <1>2
<1>4. Mapped(item, source)[t] =
        LET later == {i \in Writers(source, t) : \A j \in Cleaners(source, t) : j < i}
        IN IF later # {} /\ (Cleaners(source, t) # {} \/ ~Kept(item[t]))
           THEN source[Mappings[First(later)].source]
           ELSE IF Cleaners(source, t) # {} THEN Empty ELSE item[t]
  BY <1>1 DEF Mapped
<1> HIDE DEF Mapped, Writers, Cleaners, Kept, First
<1> QED BY <1>1, <1>2, <1>3, <1>4

LEMMA MappedKeeps ==
  ASSUME PlanFits, NEW item, NEW source, NEW t \in Targets, item[t] # Empty
  PROVE  Mapped(item, source)[t] = item[t]
  BY NotBlanked DEF Kept

LEMMA TargetsStay ==
  ASSUME PlanFits, TypeInv, TargetShapes, Showing, Current, [Next]_vars, "edit" \notin world,
         NEW a \in Article, NEW l \in Locale, NEW t \in Targets, content[a][l][t] # Empty
  PROVE  content'[a][l][t] = content[a][l][t]
<1>1. CASE \E d \in Definition : Brings(d) /\ TakesEffect(d)
  BY <1>1, AppliedShows, RigidStep DEF TakesEffect, rigid
<1>2. CASE WriteLocale
  <2>1. PICK k \in run.locales : k \in Locale /\ (content' = content \/ Writes(k))
    BY <1>2, WriteForm
  <2>2. run.item \in Article /\ t \in Field /\ run.item # None
    BY <1>2, WriteForm, RuleFacts, ConstantsAssumption
  <2>3. CASE Writes(k) /\ a = run.item /\ l = k
    <3>1. run.before[l][t] = content[a][l][t]
      BY <2>1, <2>2, <2>3 DEF Current
    <3>2. After(l)[t] = run.before[l][t]
      BY <3>1, MappedKeeps DEF After
    <3> QED BY <2>1, <2>2, <2>3, <3>1, <3>2, WritesAt
  <2>4. CASE Writes(k) /\ ~(a = run.item /\ l = k)
    BY <2>1, <2>2, <2>4, WritesAt
  <2> QED BY <2>1, <2>3, <2>4
<1>3. CASE content' = content
  BY <1>3
<1> QED BY <1>1, <1>2, <1>3, PortalSteps DEF WillTakeEffect, Edit, Create, portal

PortalInv == TypeInv /\ TargetShapes /\ Showing /\ Current

LEMMA PortalInit == Init => PortalInv
  BY TypeInit, ShapesInit DEF PortalInv, Init, Idle, Current

LEMMA PortalStep == PortalInv /\ [Next]_vars => PortalInv'
  BY TypeStep, ShapesStep, CurrentStep DEF PortalInv

(* A target that holds something keeps it, whatever command runs, in which   *)
(* order, and whatever update takes effect late, as long as the plan fits    *)
(* the structures and nobody edits.                                          *)
THEOREM StructureTargetsKept == Spec => TargetsKept
<1>1. PortalInv /\ [Next]_vars =>
        [PlanFits /\ ~("edit" \in world) => \A a \in Article, l \in Locale, t \in Targets :
           content[a][l][t] # Empty => content'[a][l][t] = content[a][l][t]]_vars
  BY TargetsStay DEF PortalInv
<1> QED BY <1>1, PortalInit, PortalStep, PTL DEF Spec, TargetsKept

-----------------------------------------------------------------------------
(* Where a command goes on after each of its quiet steps.                   *)
Turn(pc, part, remote) ==
  /\ run'.pc = pc /\ run'.part = part /\ run'.remote = remote
  /\ run'.outcome = run.outcome /\ run'.stage = run.stage /\ run'.failed = run.failed /\ WorkKept
InPipeline == run.cmd.pipeline /\ ~Cleanup
Returned(remote, why) == IF InPipeline THEN Turn("templates", "pre", remote) ELSE Ended(why)
UpdateTurn(remote) ==
  Turn(IF Missing(remote) THEN "create" ELSE IF RunsPost /\ Breaking(remote, Payload) THEN "list" ELSE "put",
       "pre", remote)

LEMMA TurnOf ==
  ASSUME TypeInv, NEW r, r = run \/ r = [run EXCEPT !.remote = def]
  PROVE  /\ \A x, y : run' = [r EXCEPT !.pc = x, !.part = y] \/ run' = [r EXCEPT !.part = y, !.pc = x]
               => Turn(x, y, r.remote)
         /\ \A why : Return(r, why) => Returned(r.remote, why)
         /\ \A part : Migrate(r, part) => Turn("select", part, r.remote)
         /\ AfterPre(r) => UpdateTurn(r.remote)
<1>1. run \in RunRecord(world)
  BY TypeParts DEF TypeInv
<1>2. r \in RunRecord(world)
  BY <1>1, FoundOK
<1>3. /\ r.cmd = run.cmd /\ r.todo = run.todo /\ r.item = run.item /\ r.before = run.before
      /\ r.locales = run.locales /\ r.snap = run.snap /\ r.migrated = run.migrated
      /\ r.outcome = run.outcome /\ r.stage = run.stage /\ r.failed = run.failed
  BY <1>1 DEF RunRecord
<1>4. ASSUME NEW x, NEW y, run' = [r EXCEPT !.pc = x, !.part = y] \/ run' = [r EXCEPT !.part = y, !.pc = x]
      PROVE  Turn(x, y, r.remote)
  BY <1>2, <1>3, <1>4 DEF Turn, WorkKept, RunRecord
<1>5. r.stage = "introduce" <=> ~Cleanup
  BY <1>1, <1>3 DEF Cleanup, RunRecord
<1>6. \A why : Return(r, why) => Returned(r.remote, why)
  BY <1>3, <1>4, <1>5 DEF Return, Returned, InPipeline, End, Ended
<1>7. \A part : Migrate(r, part) => Turn("select", part, r.remote)
  BY <1>4 DEF Migrate
<1>8. AfterPre(r) => UpdateTurn(r.remote)
  BY <1>4 DEF AfterPre, UpdateTurn, AutoTransition
<1> QED BY <1>4, <1>6, <1>7, <1>8

LEMMA GotoTurns == ASSUME TypeInv, NEW pc, Goto(pc) PROVE Turn(pc, run.part, run.remote)
<1>1. run \in RunRecord(world)
  BY TypeParts DEF TypeInv
<1> QED BY <1>1 DEF Goto, Turn, WorkKept, RunRecord

LEMMA FindTurns ==
  ASSUME TypeInv, FindRemote
  PROVE  \/ \E why \in {"missing", "blocked", "error", "checked", "checkedMissing"} : Ended(why)
         \/ run.cmd.skipUpdate /\ Ended("updated")
         \/ InPipeline /\ Turn("templates", "pre", def)
            /\ (run.cmd.checkOnly \/ run.cmd.skipUpdate \/ run.cmd.createMissing)
         \/ Turn("select", "preview", def) /\ (run.cmd.checkOnly \/ run.cmd.skipUpdate)
         \/ Turn("select", "pre", def) /\ ~run.cmd.checkOnly
         \/ /\ UpdateTurn(def) /\ ~run.cmd.checkOnly /\ ~RunsPre
            /\ Missing(def) \/ run.cmd.plan \/ ~Breaking(def, Payload)
<1> DEFINE r == [run EXCEPT !.remote = def]
<1>1. r.remote = def
  BY TypeParts DEF TypeInv, RunRecord
<1>2. \/ \E why \in {"missing", "blocked", "error"} : End(why)
      \/ \E why \in {"checked", "checkedMissing", "updated"} :
           Return(r, why) /\ (why = "updated" => run.cmd.skipUpdate) /\ (run.cmd.checkOnly \/ run.cmd.skipUpdate \/ run.cmd.createMissing)
      \/ Migrate(r, "preview") /\ (run.cmd.checkOnly \/ run.cmd.skipUpdate)
      \/ Migrate(r, "pre") /\ ~run.cmd.checkOnly
      \/ /\ AfterPre(r) /\ ~run.cmd.checkOnly /\ ~RunsPre
         /\ Missing(def) \/ run.cmd.plan \/ ~Breaking(def, Payload)
  BY DEF FindRemote, NothingPut
<1>3. /\ \A why : Return(r, why) => Returned(def, why)
      /\ \A part : Migrate(r, part) => Turn("select", part, def)
      /\ AfterPre(r) => UpdateTurn(def)
  BY <1>1, TurnOf
<1> HIDE DEF r
<1> QED BY <1>2, <1>3 DEF Returned, End, Ended

UpdatedTurn ==
  IF RunsPost /\ ~Breaking(run.remote, Payload) THEN Turn("select", "post", run.remote)
  ELSE Returned(run.remote, "updated")

LEMMA UpdatedTurns ==
  ASSUME TypeInv, Updated
  PROVE  UpdatedTurn
<1>1. /\ Migrate(run, "post") => Turn("select", "post", run.remote)
      /\ Return(run, "updated") => Returned(run.remote, "updated")
  BY TurnOf
<1> QED BY <1>1 DEF Updated, UpdatedTurn, AutoTransition

LEMMA MigrationTurns ==
  ASSUME TypeInv, MigrationDone
  PROVE  \/ run.failed /\ Ended("failed")
         \/ ~run.failed /\ run.part = "preview" /\ Returned(run.remote, NothingPut)
         \/ ~run.failed /\ run.part = "pre" /\ UpdateTurn(run.remote)
         \/ ~run.failed /\ run.part = "auto" /\ Turn("put", "auto", run.remote)
         \/ ~run.failed /\ run.part = "post" /\ Returned(run.remote, "updated")
<1>1. run.part \in Parts
  BY TypeParts DEF TypeInv, RunRecord
<1>2. /\ \A why : Return(run, why) => Returned(run.remote, why)
      /\ AfterPre(run) => UpdateTurn(run.remote)
  BY TurnOf
<1>3. \A pc : Goto(pc) => Turn(pc, run.part, run.remote)
  BY GotoTurns
<1> QED BY <1>1, <1>2, <1>3 DEF MigrationDone, AllMigrated, End, Ended, Parts

LEMMA PipelineTurns ==
  ASSUME TypeInv, Templates \/ CleanupPlan \/ PipelineEnds \/ Abort
  PROVE  \/ \E why \in {"error", "unsafe", "checked"} : Ended(why)
         \/ At("templates") /\ (Turn("plan", run.part, run.remote) \/ Turn("end", run.part, run.remote))
         \/ At("plan") /\ WorkKept /\ run'.pc = "find" /\ run'.stage = "cleanup" /\ run'.outcome = run.outcome
         \/ At("end") /\ ~run.cmd.checkOnly /\ Ended("updated")
<1>1. run \in RunRecord(world)
  BY TypeParts DEF TypeInv
<1>2. \A pc : Goto(pc) => Turn(pc, run.part, run.remote)
  BY GotoTurns
<1>3. run' = [run EXCEPT !.stage = "cleanup", !.pc = "find", !.polls = 0] =>
        WorkKept /\ run'.pc = "find" /\ run'.stage = "cleanup" /\ run'.outcome = run.outcome
  BY <1>1 DEF WorkKept, RunRecord
<1> QED BY <1>2, <1>3 DEF Templates, CleanupPlan, PipelineEnds, Abort, End, Ended

(* The steps that select, read and write contents.                          *)
Onward(pc) ==
  /\ run'.pc = pc /\ run'.part = run.part /\ run'.remote = run.remote
  /\ run'.outcome = run.outcome /\ run'.stage = run.stage /\ run'.cmd = run.cmd

LEMMA WorkTurns ==
  ASSUME TypeInv, ListSources \/ SnapshotSource \/ SelectContents \/ ReadContent \/ WriteLocale \/ ContentDone
  PROVE  \/ At("list") /\ Onward("snapshot")
         \/ At("snapshot") /\ (Onward("snapshot") \/ Onward("transition"))
         \/ At("select") /\ (Onward("items") \/ Ended("error"))
         \/ At("items") /\ Onward("items")
<1>1. run \in RunRecord(world)
  BY TypeParts DEF TypeInv
<1>2. CASE ListSources
  BY <1>1, <1>2 DEF ListSources, At, Onward, RunRecord
<1>3. CASE SnapshotSource
  <2>1. CASE Goto("transition")
    BY <1>1, <1>3, <2>1 DEF SnapshotSource, Goto, At, Onward, RunRecord
  <2>2. CASE \E a \in run.todo : run' = [run EXCEPT !.snap[a] = content[a], !.todo = @ \ {a}]
    <3>1. At("snapshot") /\ run.pc = "snapshot"
      BY <1>3 DEF SnapshotSource, At
    <3>2. Onward("snapshot")
      BY <1>1, <2>2, <3>1 DEF Onward, RunRecord
    <3> QED BY <3>1, <3>2
  <2> QED BY <1>3, <2>1, <2>2 DEF SnapshotSource
<1>4. CASE SelectContents
  <2>1. CASE End("error")
    BY <1>4, <2>1 DEF SelectContents, End, Ended
  <2>2. CASE run' = [run EXCEPT !.pc = "items", !.todo = Selected, !.failed = FALSE,
                                !.migrated = IF Cleanup THEN @ ELSE {}]
    BY <1>1, <1>4, <2>2 DEF SelectContents, At, Onward, RunRecord
  <2> QED BY <1>4, <2>1, <2>2 DEF SelectContents
<1>5. CASE ReadContent
  <2>1. PICK a \in run.todo :
          \/ run' = [run EXCEPT !.item = a, !.before = content[a], !.locales = langs[a], !.touched = FALSE,
                                !.todo = @ \ {a}]
          \/ run' = [run EXCEPT !.failed = TRUE, !.todo = @ \ {a}]
    BY <1>5 DEF ReadContent
  <2>2. At("items")
    BY <1>5 DEF ReadContent
  <2>3. Onward("items")
    BY <1>1, <2>1, <2>2 DEF At, Onward, RunRecord
  <2> QED BY <2>2, <2>3
<1>6. CASE WriteLocale
  <2>1. At("items") /\ \E l \in run.locales : LocaleDone(l) \/ ItemFails
    BY <1>6, WriteForm
  <2>2. CASE \E l \in run.locales : LocaleDone(l)
    BY <1>1, <2>1, <2>2 DEF LocaleDone, NextLocale, At, Onward, RunRecord
  <2>3. CASE ItemFails
    BY <1>1, <2>1, <2>3 DEF ItemFails, At, Onward, RunRecord
  <2> QED BY <2>1, <2>2, <2>3
<1>7. CASE ContentDone
  BY <1>1, <1>7 DEF ContentDone, At, Onward, RunRecord
<1> QED BY <1>2, <1>3, <1>4, <1>5, <1>6, <1>7

(* An outcome is only there between commands, and only the pipeline goes    *)
(* through the templates to a cleanup.                                      *)
Flow ==
  /\ ~At("idle") => run.outcome = "none"
  /\ run.pc \in {"templates", "plan", "end"} => run.cmd.pipeline
  /\ Cleanup => run.cmd.pipeline

LEMMA FlowStep ==
  ASSUME TypeInv, Flow, [Next]_vars
  PROVE  Flow'
<1>1. run \in RunRecord(world)
  BY TypeParts DEF TypeInv
<1>2. \A why : Ended(why) => Flow'
  BY DEF Ended, Flow, Idle, At, Cleanup
<1>3. ASSUME NEW pc, NEW part, NEW remote, Turn(pc, part, remote), ~At("idle"),
             pc \in {"templates", "plan", "end"} => run.cmd.pipeline
      PROVE  Flow'
  BY <1>3 DEF Turn, WorkKept, Flow, At, Cleanup
<1>4. ASSUME NEW remote, NEW why, Returned(remote, why), ~At("idle")
      PROVE  Flow'
  BY <1>2, <1>3, <1>4 DEF Returned, InPipeline
<1>5. ASSUME NEW remote, UpdateTurn(remote), ~At("idle")
      PROVE  Flow'
  BY <1>3, <1>5 DEF UpdateTurn
<1>6. CASE run' = run
  BY <1>6 DEF Flow, At, Cleanup
<1>7. CASE Launch
  BY <1>1, <1>7 DEF Launch, Flow, At, Cleanup, TypeInv, AtHand, Idle, RunRecord
<1>8. CASE FindRemote
  <2>1. ~At("idle")
    BY <1>8 DEF FindRemote, At
  <2> QED BY <1>2, <1>3, <1>5, <1>8, <2>1, FindTurns DEF InPipeline
<1>9. CASE PutTransition \/ PostStructure \/ PutStructure \/ PollRecovery
  <2>1. ~At("idle")
    BY <1>9 DEF PutTransition, PostStructure, PutStructure, PollRecovery, At
  <2>2. \/ \E why : End(why) \/ Return(run, why)
        \/ \E part : Migrate(run, part)
        \/ Goto("poll")
        \/ run' = [run EXCEPT !.polls = @ + 1] /\ At("poll")
    BY <1>9 DEF PutTransition, PostStructure, PutStructure, PollRecovery, Updated, LastPoll
  <2>3. CASE run' = [run EXCEPT !.polls = @ + 1] /\ At("poll")
    BY <1>1, <2>3 DEF Flow, At, Cleanup, RunRecord
  <2>4. /\ \A why : Return(run, why) => Returned(run.remote, why)
        /\ \A part : Migrate(run, part) => Turn("select", part, run.remote)
        /\ Goto("poll") => Turn("poll", run.part, run.remote)
    BY TurnOf, GotoTurns
  <2> QED BY <1>2, <1>3, <1>4, <2>1, <2>2, <2>3, <2>4 DEF End, Ended
<1>10. CASE MigrationDone
  <2>1. ~At("idle")
    BY <1>10 DEF MigrationDone, At
  <2> QED BY <1>2, <1>3, <1>4, <1>5, <1>10, <2>1, MigrationTurns
<1>11. CASE Templates \/ CleanupPlan \/ PipelineEnds \/ Abort
  <2>1. ASSUME At("plan"), WorkKept, run'.pc = "find", run'.stage = "cleanup", run'.outcome = run.outcome
        PROVE  Flow'
    BY <2>1 DEF Flow, At, Cleanup, WorkKept
  <2>2. \A part, remote : At("templates") /\ (Turn("plan", part, remote) \/ Turn("end", part, remote)) => Flow'
    BY <1>3 DEF Flow, At
  <2> QED BY <1>2, <1>11, <2>1, <2>2, PipelineTurns
<1>12. CASE ListSources \/ SnapshotSource \/ SelectContents \/ ReadContent \/ WriteLocale \/ ContentDone
  BY <1>2, <1>12, WorkTurns DEF Onward, Flow, At, Cleanup
<1> QED BY <1>6, <1>7, <1>8, <1>9, <1>10, <1>11, <1>12 DEF Next, Step, vars, LateUpdate, Edit, Create

LEMMA PutTurns ==
  ASSUME TypeInv, PutTransition \/ PostStructure \/ PutStructure \/ PollRecovery
  PROVE  \/ \E why \in {"error", "timeout"} : Ended(why)
         \/ PutTransition /\ Turn("select", "auto", run.remote)
         \/ PutStructure /\ Pollable /\ Turn("poll", run.part, run.remote)
         \/ PollRecovery /\ Turn("poll", run.part, run.remote)
         \/ PostStructure /\ Applied(Payload)
            /\ IF RunsPost THEN Turn("select", "post", run.remote) ELSE Returned(run.remote, "created")
         \/ /\ UpdatedTurn
            /\ \/ PutStructure /\ Applied(Payload)
               \/ PollRecovery /\ def.shape = Payload.shape
<1>1. run \in RunRecord(world)
  BY TypeParts DEF TypeInv
<1>2. /\ \A why : Return(run, why) => Returned(run.remote, why)
      /\ \A part : Migrate(run, part) => Turn("select", part, run.remote)
      /\ Goto("poll") => Turn("poll", run.part, run.remote)
  BY TurnOf, GotoTurns
<1>3. Updated => UpdatedTurn
  BY UpdatedTurns
<1>4. CASE PutTransition
  BY <1>2, <1>4 DEF PutTransition, End, Ended
<1>5. CASE PostStructure
  BY <1>2, <1>5 DEF PostStructure, End, Ended
<1>6. CASE PutStructure
  BY <1>2, <1>3, <1>6 DEF PutStructure, End, Ended
<1>7. CASE PollRecovery
  <2>1. run' = [run EXCEPT !.polls = @ + 1] => Turn(run.pc, run.part, run.remote)
    BY <1>1 DEF Turn, WorkKept, RunRecord
  <2> QED BY <1>3, <1>7, <2>1 DEF PollRecovery, At, End, Ended
<1> QED BY <1>4, <1>5, <1>6, <1>7

(* A definition of before the import is the one that was found, no report   *)
(* or last migration comes before the definition of the import, and only    *)
(* what updates nothing migrates for a preview.                             *)
Labelled ==
  /\ run.pc \notin {"idle", "find"} /\ def.label # "is" => run.remote.shape = def.shape
  /\ run.pc \in {"select", "items"} /\ run.part = "post" => def.label = "is"
  /\ At("poll") => Pollable
  /\ run.pc \in {"select", "items"} /\ run.part = "preview" => run.cmd.checkOnly \/ run.cmd.skipUpdate

LEMMA LabelKept ==
  ASSUME PortalInv, [Next]_vars
  PROVE  def'.label = "is" \/ def' = def
<1>1. \A d : Brings(d) => d.label = "is"
  BY DEF Brings, PortalInv, TargetShapes
<1>2. WriteLocale => def' = def
  BY WriteForm DEF PortalInv
<1> QED BY <1>1, <1>2, PortalSteps DEF PortalInv, TakesEffect, Applied, WillTakeEffect, Edit, Create, portal

LEMMA PutLabels ==
  ASSUME PortalInv, Labelled, PutTransition \/ PostStructure \/ PutStructure \/ PollRecovery, [Next]_vars
  PROVE  \/ \E why \in {"error", "timeout"} : Ended(why)
         \/ PutTransition /\ Turn("select", "auto", run.remote)
         \/ Pollable /\ Turn("poll", run.part, run.remote)
         \/ /\ def'.label = "is"
            /\ \/ Turn("select", "post", run.remote)
               \/ \E why \in {"created", "updated"} : Returned(run.remote, why)
<1>1. Payload.label = "is"
  BY UpdateBrings DEF PortalInv, Brings, TargetShapes
<1>2. Applied(Payload) => def'.label = "is"
  BY <1>1 DEF Applied
<1>3. PollRecovery /\ def.shape = Payload.shape => def'.label = "is"
  BY LabelKept DEF PollRecovery, Labelled, Pollable, At
<1>4. PollRecovery => Pollable
  BY DEF PollRecovery, Labelled
<1> QED BY <1>2, <1>3, <1>4, PutTurns DEF PortalInv, UpdatedTurn

LEMMA LabelledStep ==
  ASSUME PortalInv, Labelled, [Next]_vars
  PROVE  Labelled'
<1>1. TypeInv /\ local' = local /\ (def'.label = "is" \/ def' = def)
  BY LabelKept, RigidStep DEF PortalInv, rigid
<1>2. \A why : Ended(why) => Labelled'
  BY DEF Ended, Labelled, Idle, At
<1>3. ASSUME NEW pc, NEW part, NEW remote, Turn(pc, part, remote),
             (remote = run.remote /\ run.pc \notin {"idle", "find"}) \/ remote = def,
             pc \in {"select", "items"} /\ part = "post" => def'.label = "is",
             pc \in {"select", "items"} /\ part = "preview" => run.cmd.checkOnly \/ run.cmd.skipUpdate,
             pc # "poll"
      PROVE  Labelled'
  BY <1>1, <1>3 DEF Turn, WorkKept, Labelled, At
<1>4. ASSUME NEW remote, NEW why, Returned(remote, why),
             (remote = run.remote /\ run.pc \notin {"idle", "find"}) \/ remote = def
      PROVE  Labelled'
  BY <1>2, <1>3, <1>4 DEF Returned
<1>5. ASSUME NEW remote, UpdateTurn(remote), (remote = run.remote /\ run.pc \notin {"idle", "find"}) \/ remote = def
      PROVE  Labelled'
  BY <1>3, <1>5 DEF UpdateTurn
<1>6. CASE run' = run
  BY <1>1, <1>6 DEF Labelled, At, Pollable, Payload, Cleanup
<1>7. CASE Launch
  <2>1. run'.pc = "find"
    BY <1>1, <1>7, TypeParts DEF Launch, RunRecord
  <2> QED BY <2>1 DEF Labelled, At
<1>8. CASE FindRemote
  BY <1>1, <1>2, <1>3, <1>5, <1>8, FindTurns
<1>9. CASE PutTransition \/ PostStructure \/ PutStructure \/ PollRecovery
  <2>1. run.pc \notin {"idle", "find"}
    BY <1>9 DEF PutTransition, PostStructure, PutStructure, PollRecovery, At
  <2>2. ASSUME Pollable, Turn("poll", run.part, run.remote)
        PROVE  Labelled'
    BY <1>1, <2>1, <2>2 DEF Turn, Labelled, At, Pollable, Payload, Cleanup
  <2> QED BY <1>2, <1>3, <1>4, <1>9, <2>1, <2>2, PutLabels
<1>10. CASE MigrationDone
  <2>1. run.pc \notin {"idle", "find"}
    BY <1>10 DEF MigrationDone, At
  <2> QED BY <1>1, <1>2, <1>3, <1>4, <1>5, <1>10, <2>1, MigrationTurns
<1>11. CASE Templates \/ CleanupPlan \/ PipelineEnds \/ Abort
  <2>1. run'.pc = "find" => Labelled'
    BY DEF Labelled, At
  <2>2. \A part : At("templates") /\ (Turn("plan", part, run.remote) \/ Turn("end", part, run.remote)) => Labelled'
    BY <1>3 DEF At
  <2> QED BY <1>1, <1>2, <1>11, <2>1, <2>2, PipelineTurns
<1>12. CASE ListSources \/ SnapshotSource \/ SelectContents \/ ReadContent \/ WriteLocale \/ ContentDone
  BY <1>1, <1>2, <1>12, WorkTurns DEF Onward, Labelled, At
<1> QED BY <1>6, <1>7, <1>8, <1>9, <1>10, <1>11, <1>12 DEF Next, Step, vars, LateUpdate, Edit, Create

ReportInv == PortalInv /\ Flow /\ Labelled

LEMMA ReportInit == Init => ReportInv
  BY PortalInit DEF ReportInv, Flow, Labelled, Init, Idle, At, Cleanup

LEMMA ReportStep == ReportInv /\ [Next]_vars => ReportInv'
  BY PortalStep, FlowStep, LabelledStep DEF ReportInv, PortalInv

LEMMA ReportedUpdate ==
  ASSUME ReportInv, Next, Command, ~run.cmd.pipeline, ~run.cmd.skipUpdate, run'.outcome \in {"created", "updated"}
  PROVE  def'.label = local.label
<1>1. TypeInv /\ run.outcome = "none" /\ local.label = "is"
  BY DEF ReportInv, PortalInv, Flow, Command, TargetShapes
<1>2. \A why : Ended(why) => run'.outcome = why
  BY DEF Ended, Idle
<1>3. \A pc, part, remote : ~Turn(pc, part, remote)
  BY <1>1 DEF Turn
<1>4. \A remote, why : Returned(remote, why) => run'.outcome = why
  BY <1>2, <1>3 DEF Returned
<1>5. ~\E remote : UpdateTurn(remote)
  BY <1>3 DEF UpdateTurn
<1>6. CASE FindRemote
  BY <1>1, <1>2, <1>3, <1>5, <1>6, FindTurns
<1>7. CASE PutTransition \/ PostStructure \/ PutStructure \/ PollRecovery
  BY <1>1, <1>2, <1>3, <1>7, PutLabels DEF ReportInv
<1>8. CASE MigrationDone
  <2>1. run.part # "preview" \/ NothingPut = "checked"
    BY <1>8 DEF MigrationDone, At, ReportInv, Labelled, NothingPut
  <2>2. run.part = "post" /\ At("items")
    BY <1>1, <1>2, <1>3, <1>4, <1>5, <1>8, <2>1, MigrationTurns DEF MigrationDone
  <2> QED BY <1>1, <2>2, LabelKept DEF ReportInv, Labelled, At
<1>9. CASE Templates \/ CleanupPlan \/ PipelineEnds \/ Abort
  BY <1>1, <1>2, <1>3, <1>9, PipelineTurns DEF ReportInv, Flow, At
<1>10. CASE ListSources \/ SnapshotSource \/ SelectContents \/ ReadContent \/ WriteLocale \/ ContentDone
  BY <1>1, <1>2, <1>10, WorkTurns DEF Onward
<1> QED BY <1>6, <1>7, <1>8, <1>9, <1>10 DEF Next, Step, Command, Launch, LateUpdate, Edit, Create

-----------------------------------------------------------------------------
(* Values that are moved, or still in their source.  A definition is        *)
(* harmless if it leaves the sources alone that are not moved everywhere.   *)
Held(a, l, i) == orig[a][l][Mappings[i].source] # Empty
Moved(a, l, i) == Held(a, l, i) => content[a][l][Mappings[i].target] # Empty
Safe(a, l, i) == Held(a, l, i) => content[a][l][Mappings[i].source] # Empty \/ content[a][l][Mappings[i].target] # Empty
AllMoved == \A a \in articles, l \in Locale, i \in DOMAIN Mappings : Moved(a, l, i)
SourceMoved(f) ==
  \A a \in articles, l \in Locale, i \in DOMAIN Mappings : Mappings[i].source = f => Moved(a, l, i)
Harmless(d) == \A f \in Sources : SourceMoved(f) \/ d.shape[f] = def.shape[f]

PortalSafe ==
  /\ \A a \in articles, l \in Locale, i \in DOMAIN Mappings : Safe(a, l, i)
  /\ \A d \in late : Harmless(d)
  /\ \A a \in Article, l \in Locale, i \in DOMAIN Mappings : Held(a, l, i) => l \in langs[a]

(* A command that writes is no check; what it puts when the mappings have   *)
(* not moved everything breaks nothing.                                     *)
Putting == run.pc \in {"put", "poll"} => AllMoved \/ (~RunsPre /\ ~Breaking(run.remote, Payload))
Writing == run.pc \in {"list", "snapshot", "transition", "create", "put", "poll"}
           \/ (run.pc \in {"select", "items"} /\ run.part # "preview")
Introduced == run.pc \in {"templates", "plan", "end"} \/ Cleanup => run.cmd.checkOnly \/ AllMoved
Courses ==
  /\ run.pc \notin {"idle", "find"} => Harmless(run.remote)
  /\ At("create") => Missing(run.remote)
  /\ Putting /\ Introduced
  /\ Writing => ~run.cmd.checkOnly
  /\ run.pc \in {"select", "items"} /\ run.part = "preview" => run.cmd.checkOnly \/ run.cmd.skipUpdate

(* What a migration has read still has what it is to move, and what it has  *)
(* done is moved unless it has failed.                                      *)
InArticles == run.todo \subseteq articles /\ (run.item # None => run.item \in articles)
ReadSafe ==
  run.item # None => \A l \in run.locales, i \in DOMAIN Mappings : Held(run.item, l, i) =>
    run.before[l][Mappings[i].source] # Empty \/ run.before[l][Mappings[i].target] # Empty
SnapSafe ==
  \A a \in articles, l \in Locale, i \in DOMAIN Mappings : run.snap[a] # None /\ Held(a, l, i) =>
    run.snap[a][l][Mappings[i].source] # Empty \/ content[a][l][Mappings[i].target] # Empty
Progressing == At("items") /\ run.part # "preview" /\ ~run.failed /\ ~Cleanup
Progress ==
  Progressing => \A a \in articles \ run.todo, l \in Locale, i \in DOMAIN Mappings :
                   Moved(a, l, i) \/ (a = run.item /\ l \in run.locales)
Migrating == InArticles /\ ReadSafe /\ SnapSafe /\ Progress
Survival == PortalSafe /\ Courses /\ Migrating

LEMMA CommandFacts ==
  ASSUME TypeInv
  PROVE  /\ run.cmd.phase \in Phases
         /\ run.cmd.pipeline => run.cmd.plan /\ run.cmd.phase = "post" /\ ~run.cmd.createMissing /\ ~run.cmd.skipUpdate
         /\ world = {} => run.cmd.scope = Article /\ (run.cmd.dryRun => run.cmd.checkOnly)
<1>1. world \in Worlds /\ run.cmd \in Commands[world] \cup {NoCommand}
  BY TypeParts DEF TypeInv, RigidOK, RunRecord
<1>2. CASE run.cmd \in Commands[world]
  <2>1. run.cmd \in CommandType
    BY <1>1, <1>2, ConstantsAssumption
  <2>2. run.cmd.phase \in Phases
    BY <2>1 DEF CommandType
  <2> QED BY <1>1, <1>2, <2>2, ConstantsAssumption
<1>3. CASE run.cmd = NoCommand
  <2>1. NoCommand.phase = "" /\ ~NoCommand.pipeline /\ NoCommand.scope = Article /\ ~NoCommand.dryRun
    BY DEF NoCommand
  <2> QED BY <1>3, <2>1 DEF Phases
<1> QED BY <1>1, <1>2, <1>3

LEMMA ArticlesStay == ASSUME PortalInv, PlanFits, world = {}, [Next]_vars PROVE articles' = articles
<1>1. ~Edit /\ ~Create
  BY DEF Edit, Create
<1> QED BY <1>1, PortalSteps, WriteForm DEF PortalInv, TakesEffect, WillTakeEffect, portal

LEMMA MovedStays ==
  ASSUME PortalInv, PlanFits, world = {}, [Next]_vars
  PROVE  /\ \A a \in Article, l \in Locale, i \in DOMAIN Mappings : Moved(a, l, i) => Moved(a, l, i)'
         /\ \A a \in Article, l \in Locale, i \in DOMAIN Mappings : Held(a, l, i)' = Held(a, l, i)
         /\ AllMoved => AllMoved'
         /\ \A f \in Sources : SourceMoved(f) => SourceMoved(f)'
<1>1. orig' = orig /\ articles' = articles /\ articles \subseteq Article
  BY RigidStep, ArticlesStay, TypeParts DEF rigid, PortalInv, TypeInv, PortalOK
<1>2. \A a \in Article, l \in Locale, i \in DOMAIN Mappings : Moved(a, l, i) => Moved(a, l, i)'
  BY <1>1, TargetsStay, RuleFacts DEF Moved, Held, PortalInv
<1>3. AllMoved => AllMoved'
  BY <1>1, <1>2 DEF AllMoved
<1>4. \A f \in Sources : SourceMoved(f) => SourceMoved(f)'
  BY <1>1, <1>2 DEF SourceMoved
<1> QED BY <1>1, <1>2, <1>3, <1>4 DEF Held

LEMMA LiveSource ==
  ASSUME PortalInv, PortalSafe, NEW f \in Sources, ~SourceMoved(f)
  PROVE  def.shape[f] # Gone
<1>1. PICK a \in articles, l \in Locale, i \in DOMAIN Mappings : Mappings[i].source = f /\ ~Moved(a, l, i)
  BY DEF SourceMoved
<1>2. content[a][l][f] # Empty
  BY <1>1 DEF PortalSafe, Safe, Moved
<1> QED BY <1>2, RuleFacts, TypeParts DEF PortalInv, Showing, TypeInv, PortalOK

LEMMA HarmlessStays ==
  ASSUME PortalInv, PlanFits, world = {}, [Next]_vars, NEW d, Harmless(d),
         def' = def \/ \E e : Applied(e) /\ Harmless(e)
  PROVE  Harmless(d)'
  BY MovedStays DEF Harmless, Applied

LEMMA SentHarmless ==
  ASSUME PortalInv, PortalSafe, Courses
  PROVE  /\ At("transition") => Harmless(Transition(run.remote, Payload))
         /\ At("create") \/ At("put") => Harmless(Payload)
<1>1. /\ local \in Definition /\ run.remote \in Definition /\ Payload \in Definition /\ def \in Definition
      /\ Sources \subseteq Field
  BY TypeParts, PayloadOK, RuleFacts DEF PortalInv, TypeInv, RigidOK, RunRecord, PortalOK
<1>2. \A f \in Sources : SourceMoved(f) \/ def.shape[f] # Gone
  BY LiveSource
<1>3. ASSUME At("transition") PROVE Harmless(Transition(run.remote, Payload))
  <2>1. Harmless(run.remote)
    BY <1>3 DEF Courses, At
  <2> QED BY <1>1, <1>2, <2>1 DEF Harmless, Transition, Definition
<1>4. ASSUME At("create") PROVE Harmless(Payload)
  BY <1>1, <1>2, <1>4 DEF Courses, At, Harmless, Missing
<1>5. ASSUME At("put") PROVE Harmless(Payload)
  <2>1. Harmless(run.remote)
    BY <1>5 DEF Courses, At
  <2>2. CASE AllMoved
    BY <2>2 DEF AllMoved, SourceMoved, Harmless
  <2>3. CASE ~Breaking(run.remote, Payload)
    BY <1>1, <1>2, <2>1, <2>3 DEF Harmless, Breaking, Removed, Reshaped
  <2> QED BY <1>5, <2>2, <2>3 DEF Courses, Putting, At
<1> QED BY <1>3, <1>4, <1>5

LEMMA HarmlessSteps ==
  ASSUME PortalInv, PortalSafe, Courses, PlanFits, world = {}, [Next]_vars
  PROVE  \/ \E d : Harmless(d) /\ (TakesEffect(d) \/ WillTakeEffect(d))
         \/ WriteLocale
         \/ UNCHANGED portal
<1>1. ~Edit /\ ~Create
  BY DEF Edit, Create
<1>2. \A d : ((Applied(d) /\ UNCHANGED late) \/ LostAnswer(d)) /\ articles' = articles =>
        TakesEffect(d) \/ WillTakeEffect(d) \/ UNCHANGED portal
  BY DEF LostAnswer, TakesEffect, WillTakeEffect, portal
<1>3. CASE PutTransition
  <2> DEFINE d == Transition(run.remote, Payload)
  <2>1. ((Applied(d) /\ UNCHANGED late) \/ LostAnswer(d)) /\ articles' = articles
    BY <1>3 DEF PutTransition
  <2>2. Harmless(d)
    BY <1>3, SentHarmless DEF PutTransition
  <2> HIDE DEF d
  <2> QED BY <1>2, <2>1, <2>2
<1>4. CASE PostStructure \/ PutStructure
  <2>1. /\ (Applied(Payload) /\ UNCHANGED late) \/ LostAnswer(Payload) \/ UNCHANGED <<def, content, late>>
        /\ articles' = articles
    BY <1>4 DEF PostStructure, PutStructure
  <2>2. Harmless(Payload)
    BY <1>4, SentHarmless DEF PostStructure, PutStructure
  <2> QED BY <1>2, <2>1, <2>2 DEF portal
<1>5. CASE LateUpdate
  BY <1>5 DEF LateUpdate, PortalSafe, TakesEffect
<1>6. CASE ~(PutTransition \/ PostStructure \/ PutStructure \/ LateUpdate)
  BY <1>1, <1>6 DEF Next, Step, vars, portal, Launch, FindRemote, ListSources, SnapshotSource, PollRecovery,
     SelectContents, ReadContent, ContentDone, MigrationDone, Templates, CleanupPlan, PipelineEnds, Abort
<1> QED BY <1>3, <1>4, <1>5, <1>6

LEMMA HarmlessKept ==
  ASSUME PortalInv, PortalSafe, Courses, PlanFits, world = {}, [Next]_vars, NEW d, Harmless(d)
  PROVE  Harmless(d)'
<1>1. def' = def \/ \E e : Applied(e) /\ Harmless(e)
  BY HarmlessSteps, WriteForm DEF PortalInv, TakesEffect, WillTakeEffect, portal
<1> QED BY <1>1, HarmlessStays

(* A mapping whose source holds something fills its target.                 *)
LEMMA MappedFills ==
  ASSUME PlanFits, NEW item, NEW source, NEW i \in Rules, source[Mappings[i].source] # Empty
  PROVE  Mapped(item, source)[Mappings[i].target] # Empty
<1> DEFINE t == Mappings[i].target
           W == Writers(source, t)
<1>1. i \in W /\ W \in SUBSET Nat /\ t \in Targets
  BY RuleFacts DEF Writers, Rules
<1>2. First(W) \in W
  <2> HIDE DEF W
  <2> QED BY <1>1, FirstOfSome
<1>3. source[Mappings[First(W)].source] # Empty
  BY <1>2 DEF Writers
<1>4. Mapped(item, source)[t] = IF W # {} /\ ~Kept(item[t]) THEN source[Mappings[First(W)].source] ELSE item[t]
  BY <1>1, NotBlanked
<1> QED BY <1>1, <1>3, <1>4 DEF Kept

(* What the migration of a locale comes to, written or not.                 *)
LEMMA WriteFills ==
  ASSUME PlanFits, PortalInv, Survival, world = {}, At("items"), run.part # "preview", run.item # None,
         NEW l \in run.locales, NEW i \in DOMAIN Mappings, Held(run.item, l, i)
  PROVE  /\ After(l)[Mappings[i].target] # Empty
         /\ After(l) = run.before[l] => content[run.item][l][Mappings[i].target] # Empty
<1> DEFINE s == Mappings[i].source
           t == Mappings[i].target
<1>1. s \in Field /\ t \in Field /\ t \in Targets
  BY RuleFacts
<1>2. run.before[l][t] = content[run.item][l][t]
  BY <1>1 DEF PortalInv, Current
<1>3. run.item \in articles /\ l \in Locale
  BY TypeParts DEF PortalInv, TypeInv, RunRecord, Survival, Migrating, InArticles
<1>4. CASE run.before[l][t] # Empty
  BY <1>1, <1>2, <1>4, MappedKeeps DEF After
<1>5. CASE run.before[l][t] = Empty
  <2>1. ~Moved(run.item, l, i)
    BY <1>2, <1>5 DEF Moved
  <2>2. ~Cleanup
    BY <1>3, <2>1 DEF Survival, Courses, Introduced, Writing, AllMoved, At
  <2>3. i \in Rules
    BY <2>2 DEF Rules
  <2>4. run.before[l][s] # Empty
    BY <1>5 DEF Survival, Migrating, ReadSafe
  <2>5. run.snap[run.item] # None => run.snap[run.item][l][s] # Empty
    BY <1>2, <1>3, <1>5 DEF Survival, Migrating, SnapSafe
  <2>6. Source(l)[s] # Empty
    BY <2>4, <2>5 DEF Source
  <2>7. After(l)[t] # Empty
    BY <2>3, <2>6, MappedFills DEF After
  <2> QED BY <1>2, <1>5, <2>7
<1> QED BY <1>4, <1>5

LEMMA PortalSafeStep ==
  ASSUME PortalInv, Survival, PlanFits, world = {}, [Next]_vars
  PROVE  PortalSafe'
<1>1. /\ orig' = orig /\ langs' = langs /\ articles' = articles /\ articles \subseteq Article
  BY RigidStep, ArticlesStay, TypeParts DEF rigid, PortalInv, TypeInv, PortalOK
<1>2. PortalSafe /\ Courses
  BY DEF Survival
<1>3. \A a \in Article, l \in Locale, i \in DOMAIN Mappings : Moved(a, l, i) => Safe(a, l, i)'
  BY MovedStays DEF Moved, Safe
<1>4. \A a \in Article, l \in Locale, i \in DOMAIN Mappings : (Held(a, l, i) => l \in langs[a])'
  BY <1>1, <1>2 DEF PortalSafe, Held
<1>5. CASE \E d : Harmless(d) /\ TakesEffect(d)
  <2>1. PICK d : Harmless(d) /\ TakesEffect(d)
    BY <1>5
  <2>2. \A e \in late' : Harmless(e)'
    BY <1>2, <2>1, HarmlessKept DEF PortalSafe, TakesEffect
  <2>3. ASSUME NEW a \in articles, NEW l \in Locale, NEW i \in DOMAIN Mappings
        PROVE  Safe(a, l, i)'
    <3>1. CASE Moved(a, l, i)
      BY <1>1, <1>3, <3>1
    <3>2. CASE ~Moved(a, l, i)
      <4>1. ~SourceMoved(Mappings[i].source)
        BY <3>2 DEF SourceMoved
      <4>2. d.shape[Mappings[i].source] = def.shape[Mappings[i].source]
        BY <2>1, <4>1, RuleFacts DEF Harmless
      <4>3. content'[a][l][Mappings[i].source] = content[a][l][Mappings[i].source]
        BY <1>1, <2>1, <4>2, RuleFacts DEF TakesEffect, Applied
      <4> QED BY <1>1, <1>2, <3>2, <4>3 DEF PortalSafe, Safe, Moved, Held
    <3> QED BY <3>1, <3>2
  <2> QED BY <1>1, <1>4, <2>2, <2>3 DEF PortalSafe
<1>6. CASE \E d : Harmless(d) /\ WillTakeEffect(d)
  <2>1. PICK d : Harmless(d) /\ WillTakeEffect(d)
    BY <1>6
  <2>2. \A e \in late' : Harmless(e)'
    BY <1>2, <2>1, HarmlessKept DEF PortalSafe, WillTakeEffect
  <2>3. \A a \in articles', l \in Locale, i \in DOMAIN Mappings : Safe(a, l, i)'
    BY <1>1, <1>2, <2>1 DEF PortalSafe, Safe, Held, WillTakeEffect
  <2> QED BY <1>4, <2>2, <2>3 DEF PortalSafe
<1>7. CASE UNCHANGED portal
  <2>1. \A e \in late' : Harmless(e)'
    BY <1>2, <1>7, HarmlessKept DEF PortalSafe, portal
  <2>2. \A a \in articles', l \in Locale, i \in DOMAIN Mappings : Safe(a, l, i)'
    BY <1>1, <1>2, <1>7 DEF PortalSafe, Safe, Held, portal
  <2> QED BY <1>4, <2>1, <2>2 DEF PortalSafe
<1>8. CASE WriteLocale
  <2>1. run.item \in Article /\ At("items") /\ late' = late /\ run.item # None
    BY <1>8, WriteForm, ConstantsAssumption DEF PortalInv
  <2>2. PICK l \in run.locales : l \in Locale /\ (content' = content \/ Writes(l))
    BY <1>8, WriteForm DEF PortalInv
  <2>3. \A e \in late' : Harmless(e)'
    BY <1>2, <2>1, HarmlessKept DEF PortalSafe
  <2>4. ASSUME NEW a \in articles, NEW k \in Locale, NEW i \in DOMAIN Mappings
        PROVE  Safe(a, k, i)'
    <3>1. CASE content'[a][k] = content[a][k]
      BY <1>1, <1>2, <3>1 DEF PortalSafe, Safe, Held
    <3>2. CASE content'[a][k] # content[a][k]
      <4>1. Writes(l) /\ a = run.item /\ k = l /\ content'[a][k] = After(l)
        BY <1>1, <2>1, <2>2, <3>2, WritesAt DEF PortalInv
      <4>2. run.part # "preview"
        BY <4>1 DEF Writes, DryRun
      <4> QED BY <1>1, <2>1, <4>1, <4>2, WriteFills DEF Safe, Held
    <3> QED BY <3>1, <3>2
  <2> QED BY <1>1, <1>4, <2>3, <2>4 DEF PortalSafe
<1> QED BY <1>2, <1>5, <1>6, <1>7, <1>8, HarmlessSteps

LEMMA CreateMoved == ASSUME PortalInv, Survival, At("create") PROVE AllMoved
<1>1. \A f \in Sources : SourceMoved(f)
  <2>1. Harmless(run.remote) /\ Missing(run.remote)
    BY DEF Survival, Courses, At
  <2>2. \A f \in Sources : SourceMoved(f) \/ def.shape[f] # Gone
    BY LiveSource DEF Survival
  <2> QED BY <2>1, <2>2, RuleFacts DEF Harmless, Missing
<1> QED BY <1>1, RuleFacts DEF SourceMoved, AllMoved

LEMMA MigrationMoved ==
  ASSUME PortalInv, Survival, MigrationDone, ~run.failed, run.part # "preview"
  PROVE  AllMoved /\ ~run.cmd.checkOnly
<1>1. At("items") /\ run.todo = {} /\ run.item = None
  BY DEF MigrationDone
<1>2. ~run.cmd.checkOnly
  BY <1>1 DEF Survival, Courses, Writing, At
<1>3. CASE Cleanup
  BY <1>2, <1>3 DEF Survival, Courses, Introduced
<1>4. CASE ~Cleanup
  <2>1. \A a \in articles : a # None
    BY TypeParts, ConstantsAssumption DEF PortalInv, TypeInv, PortalOK
  <2>2. \A a \in articles \ run.todo, l \in Locale, i \in DOMAIN Mappings :
          Moved(a, l, i) \/ (a = run.item /\ l \in run.locales)
    BY <1>1, <1>4 DEF Survival, Migrating, Progress, Progressing
  <2>3. \A a \in articles : a \in articles \ run.todo
    BY <1>1
  <2> QED BY <1>1, <1>2, <2>1, <2>2, <2>3 DEF AllMoved
<1> QED BY <1>2, <1>3, <1>4

LEMMA CoursesStep ==
  ASSUME PortalInv, Survival, PlanFits, world = {}, [Next]_vars
  PROVE  Courses'
<1>1. /\ TypeInv /\ PortalSafe /\ Courses
      /\ run.cmd.phase \in Phases
      /\ run.cmd.pipeline => run.cmd.plan /\ run.cmd.phase = "post" /\ ~run.cmd.createMissing /\ ~run.cmd.skipUpdate
  BY CommandFacts DEF PortalInv, Survival
<1>2. /\ local' = local
      /\ AllMoved => AllMoved'
      /\ \A d : Harmless(d) => Harmless(d)'
  BY <1>1, RigidStep, MovedStays, HarmlessKept DEF rigid
<1>3. \A why : Ended(why) => Courses'
  BY DEF Ended, Idle, Courses, Putting, Introduced, Writing, Cleanup, At
<1>4. ASSUME NEW pc, NEW part, NEW remote,
             Turn(pc, part, remote) \/ (Onward(pc) /\ remote = run.remote /\ part = run.part),
             Harmless(remote),
             pc = "create" => Missing(remote),
             pc \in {"put", "poll"} => AllMoved \/ (~RunsPre /\ ~Breaking(remote, Payload)),
             pc \in {"templates", "plan", "end"} => run.cmd.checkOnly \/ AllMoved,
             pc \in {"list", "snapshot", "transition", "create", "put", "poll"} => ~run.cmd.checkOnly,
             pc \in {"select", "items"} /\ part # "preview" => ~run.cmd.checkOnly,
             pc \in {"select", "items"} /\ part = "preview" => run.cmd.checkOnly \/ run.cmd.skipUpdate
      PROVE  Courses'
  <2>1. /\ run'.pc = pc /\ run'.part = part /\ run'.remote = remote /\ run'.stage = run.stage /\ run'.cmd = run.cmd
    BY <1>4 DEF Turn, WorkKept, Onward
  <2>2. Cleanup' = Cleanup /\ RunsPre' = RunsPre /\ Payload' = Payload
    BY <1>2, <2>1 DEF Cleanup, RunsPre, Phase, Payload
  <2>3. Putting'
    <3>1. pc \in {"put", "poll"} => AllMoved' \/ (~RunsPre' /\ ~Breaking(remote, Payload'))
      BY <1>2, <1>4, <2>2
    <3> QED BY <2>1, <3>1 DEF Putting, Breaking, Removed, Reshaped
  <2>4. Introduced'
    BY <1>1, <1>2, <1>4, <2>1, <2>2 DEF Introduced, Courses
  <2>5. Harmless(run.remote)'
    <3>1. Harmless(remote)'
      BY <1>2, <1>4
    <3> QED BY <2>1, <3>1 DEF Harmless
  <2>6. At("create")' => Missing(run.remote)'
    BY <1>4, <2>1 DEF At, Missing
  <2>7. Writing' => ~run'.cmd.checkOnly
    BY <1>4, <2>1 DEF Writing
  <2> QED BY <1>4, <2>1, <2>3, <2>4, <2>5, <2>6, <2>7 DEF Courses
<1>5. ASSUME NEW remote, NEW why, Returned(remote, why), Harmless(remote), InPipeline => run.cmd.checkOnly \/ AllMoved
      PROVE  Courses'
  BY <1>3, <1>4, <1>5 DEF Returned
<1>6. ASSUME NEW remote, UpdateTurn(remote), Harmless(remote), ~run.cmd.checkOnly,
             AllMoved \/ Missing(remote) \/ (RunsPost /\ Breaking(remote, Payload))
             \/ (~RunsPre /\ ~Breaking(remote, Payload))
      PROVE  Courses'
  BY <1>4, <1>6 DEF UpdateTurn
<1>7. Harmless(def)
  BY DEF Harmless
<1>8. CASE run' = run
  <2>1. Cleanup' = Cleanup /\ RunsPre' = RunsPre /\ Payload' = Payload
    BY <1>2, <1>8 DEF Cleanup, RunsPre, Phase, Payload
  <2>2. Putting' /\ Introduced'
    BY <1>1, <1>2, <1>8, <2>1 DEF Courses, Putting, Introduced, Breaking, Removed, Reshaped
  <2>3. run.pc \notin {"idle", "find"} => Harmless(run.remote)'
    <3>1. run.pc \notin {"idle", "find"} => Harmless(run.remote)
      BY <1>1 DEF Courses
    <3> QED BY <1>2, <1>8, <3>1 DEF Harmless
  <2> QED BY <1>1, <1>8, <2>2, <2>3 DEF Courses, At, Missing, Writing
<1>9. CASE Launch
  <2>1. run'.pc = "find" /\ run'.stage = "introduce"
    BY <1>1, <1>9, TypeParts DEF Launch, TypeInv, AtHand, At, Idle, RunRecord
  <2> QED BY <2>1 DEF Courses, Putting, Introduced, Writing, Cleanup, At
<1>10. CASE FindRemote
  <2>1. CASE Turn("select", "preview", def) /\ (run.cmd.checkOnly \/ run.cmd.skipUpdate)
    BY <1>4, <1>7, <2>1
  <2>2. CASE Turn("select", "pre", def) /\ ~run.cmd.checkOnly
    BY <1>4, <1>7, <2>2
  <2>3. CASE InPipeline /\ Turn("templates", "pre", def)
             /\ (run.cmd.checkOnly \/ run.cmd.skipUpdate \/ run.cmd.createMissing)
    BY <1>1, <1>4, <1>7, <2>3 DEF InPipeline
  <2>4. CASE /\ UpdateTurn(def) /\ ~run.cmd.checkOnly /\ ~RunsPre
             /\ Missing(def) \/ run.cmd.plan \/ ~Breaking(def, Payload)
    <3>1. run.cmd.plan => RunsPost
      BY <1>1, <2>4 DEF RunsPre, RunsPost, Phase, Phases
    <3> QED BY <1>6, <1>7, <2>4, <3>1
  <2> QED BY <1>1, <1>3, <1>10, <2>1, <2>2, <2>3, <2>4, FindTurns
<1>11. CASE PutTransition \/ PostStructure \/ PutStructure \/ PollRecovery
  <2>1. Harmless(run.remote) /\ ~run.cmd.checkOnly
    BY <1>1, <1>11 DEF Courses, Writing, At, PutTransition, PostStructure, PutStructure, PollRecovery
  <2>2. CASE Turn("select", "auto", run.remote)
    BY <1>4, <2>1, <2>2
  <2>3. ASSUME PutStructure \/ PollRecovery, Turn("poll", run.part, run.remote)
        PROVE  Courses'
    <3>1. AllMoved \/ (~RunsPre /\ ~Breaking(run.remote, Payload))
      BY <1>1, <2>3 DEF Courses, Putting, PutStructure, PollRecovery, At
    <3> QED BY <1>4, <2>1, <2>3, <3>1
  <2>4. ASSUME PostStructure,
               IF RunsPost THEN Turn("select", "post", run.remote) ELSE Returned(run.remote, "created")
        PROVE  Courses'
    <3>1. AllMoved
      BY <2>4, CreateMoved DEF PostStructure
    <3> QED BY <1>4, <1>5, <2>1, <2>4, <3>1
  <2>5. ASSUME PutStructure \/ PollRecovery, UpdatedTurn
        PROVE  Courses'
    <3>1. AllMoved \/ (~RunsPre /\ ~Breaking(run.remote, Payload))
      BY <1>1, <2>5 DEF Courses, Putting, PutStructure, PollRecovery, At
    <3>2. CASE RunsPost /\ ~Breaking(run.remote, Payload)
      BY <1>4, <2>1, <2>5, <3>2 DEF UpdatedTurn
    <3>3. CASE ~(RunsPost /\ ~Breaking(run.remote, Payload))
      <4>1. InPipeline => RunsPost
        BY <1>1 DEF InPipeline, RunsPost, Phase
      <4> QED BY <1>5, <2>1, <2>5, <3>1, <3>3, <4>1 DEF UpdatedTurn
    <3> QED BY <3>2, <3>3
  <2> QED BY <1>1, <1>3, <1>11, <2>2, <2>3, <2>4, <2>5, PutTurns
<1>12. CASE MigrationDone
  <2>1. Harmless(run.remote)
    BY <1>1, <1>12 DEF Courses, MigrationDone, At
  <2>2. CASE run.failed /\ Ended("failed")
    BY <1>3, <2>2
  <2>3. CASE run.part = "preview" /\ Returned(run.remote, NothingPut)
    <3>1. run.cmd.checkOnly \/ run.cmd.skipUpdate
      BY <1>1, <1>12, <2>3 DEF Courses, MigrationDone, At
    <3> QED BY <1>1, <1>5, <2>1, <2>3, <3>1 DEF InPipeline
  <2>4. CASE ~run.failed /\ run.part = "pre" /\ UpdateTurn(run.remote)
    BY <1>6, <1>12, <2>1, <2>4, MigrationMoved
  <2>5. CASE ~run.failed /\ run.part = "auto" /\ Turn("put", "auto", run.remote)
    <3>1. AllMoved /\ ~run.cmd.checkOnly
      BY <1>12, <2>5, MigrationMoved
    <3> QED BY <1>4, <2>1, <2>5, <3>1
  <2>6. CASE ~run.failed /\ run.part = "post" /\ Returned(run.remote, "updated")
    BY <1>5, <1>12, <2>1, <2>6, MigrationMoved
  <2> QED BY <1>1, <1>12, <2>2, <2>3, <2>4, <2>5, <2>6, MigrationTurns
<1>13. CASE Templates \/ CleanupPlan \/ PipelineEnds \/ Abort
  <2>1. \A why : Ended(why) => Courses'
    BY <1>3
  <2>2. ASSUME At("templates"), Turn("plan", run.part, run.remote) \/ Turn("end", run.part, run.remote)
        PROVE  Courses'
    <3>1. Harmless(run.remote) /\ (run.cmd.checkOnly \/ AllMoved)
      BY <1>1, <2>2 DEF Courses, Introduced, At
    <3> QED BY <1>4, <2>2, <3>1
  <2>3. ASSUME At("plan"), WorkKept, run'.pc = "find", run'.stage = "cleanup"
        PROVE  Courses'
    <3>1. run.cmd.checkOnly \/ AllMoved'
      BY <1>1, <1>2, <2>3 DEF Courses, Introduced, At
    <3> QED BY <2>3, <3>1 DEF Courses, Introduced, Putting, Writing, WorkKept, At
  <2> QED BY <1>1, <1>13, <2>1, <2>2, <2>3, PipelineTurns
<1>14. CASE ListSources \/ SnapshotSource \/ SelectContents \/ ReadContent \/ WriteLocale \/ ContentDone
  <2>1. run.pc \notin {"idle", "find"}
    BY <1>14 DEF At, ListSources, SnapshotSource, SelectContents, ReadContent, WriteLocale, ContentDone
  <2>2. Harmless(run.remote)
    BY <1>1, <2>1 DEF Courses
  <2>3. ASSUME At("list") \/ At("snapshot"), NEW pc \in {"snapshot", "transition"}, Onward(pc)
        PROVE  Courses'
    <3>1. ~run.cmd.checkOnly
      BY <1>1, <2>3 DEF Courses, Writing, At
    <3> QED BY <1>4, <2>2, <2>3, <3>1
  <2>4. ASSUME At("select") \/ At("items"), Onward("items")
        PROVE  Courses'
    <3>1. /\ run.part # "preview" => ~run.cmd.checkOnly
          /\ run.part = "preview" => run.cmd.checkOnly \/ run.cmd.skipUpdate
      BY <1>1, <2>4 DEF Courses, Writing, At
    <3> QED BY <1>4, <2>2, <2>4, <3>1
  <2> QED BY <1>1, <1>3, <1>14, <2>3, <2>4, WorkTurns
<1> QED BY <1>8, <1>9, <1>10, <1>11, <1>12, <1>13, <1>14 DEF Next, Step, vars, LateUpdate, Edit, Create

LEMMA MigratingStep ==
  ASSUME PortalInv, Survival, PlanFits, world = {}, [Next]_vars
  PROVE  Migrating'
<1>1. /\ TypeInv /\ PortalSafe /\ Courses /\ Migrating /\ run \in RunRecord(world)
      /\ run.cmd.scope = Article /\ (run.cmd.dryRun => run.cmd.checkOnly)
  BY CommandFacts, TypeParts DEF PortalInv, TypeInv, Survival
<1>2. /\ articles' = articles /\ articles \subseteq Article /\ orig' = orig
      /\ langs \in [Article -> SUBSET Locale] /\ content \in [Article -> Content]
  BY <1>1, ArticlesStay, RigidStep, TypeParts DEF rigid, TypeInv, PortalOK, RigidOK
<1>3. /\ \A a \in Article, l \in Locale, i \in DOMAIN Mappings : Moved(a, l, i) => Moved(a, l, i)'
      /\ \A a \in Article, l \in Locale, i \in DOMAIN Mappings : Held(a, l, i)' = Held(a, l, i)
  BY MovedStays
<1>4. \A a \in articles, l \in Locale, i \in DOMAIN Mappings :
        content[a][l][Mappings[i].target] # Empty => content'[a][l][Mappings[i].target] # Empty
  BY <1>2, TargetsStay, RuleFacts DEF PortalInv
<1>5. \A why : Ended(why) => Migrating'
  <2>1. SUFFICES ASSUME NEW why, Ended(why) PROVE Migrating'
    OBVIOUS
  <2>2. run'.todo = {} /\ run'.item = None /\ run'.pc = "idle" /\ run'.snap = [a \in Article |-> None]
    BY <2>1 DEF Ended, Idle
  <2> QED BY <1>2, <2>2 DEF Migrating, InArticles, ReadSafe, SnapSafe, Progress, Progressing, At
<1>6. run'.snap = run.snap => SnapSafe'
  <2>1. SUFFICES ASSUME run'.snap = run.snap, NEW a \in articles, NEW l \in Locale, NEW i \in DOMAIN Mappings,
                        run.snap[a] # None, Held(a, l, i)
                 PROVE  run.snap[a][l][Mappings[i].source] # Empty \/ content'[a][l][Mappings[i].target] # Empty
    BY <1>2, <1>3 DEF SnapSafe
  <2>2. run.snap[a][l][Mappings[i].source] # Empty \/ content[a][l][Mappings[i].target] # Empty
    BY <1>1, <2>1 DEF Migrating, SnapSafe
  <2> QED BY <1>4, <2>2
<1>7. run'.item = run.item /\ run'.before = run.before /\ run'.locales \subseteq run.locales => ReadSafe'
  <2>1. run.locales \subseteq Locale /\ run.item \in Article \cup {None}
    BY <1>1 DEF RunRecord
  <2>2. ReadSafe
    BY <1>1 DEF Migrating
  <2>3. SUFFICES ASSUME run'.item = run.item, run'.before = run.before, run'.locales \subseteq run.locales,
                        run.item # None, NEW l \in run'.locales, NEW i \in DOMAIN Mappings, Held(run.item, l, i)'
                 PROVE  run.before[l][Mappings[i].source] # Empty \/ run.before[l][Mappings[i].target] # Empty
    BY DEF ReadSafe, Held
  <2>4. Held(run.item, l, i)
    BY <1>2, <2>3 DEF Held
  <2> QED BY <2>2, <2>3, <2>4 DEF ReadSafe
<1>8. ASSUME run'.todo \subseteq run.todo, run'.item = run.item, run'.before = run.before,
             run'.locales \subseteq run.locales, run'.snap = run.snap, ~Progressing'
      PROVE  Migrating'
  <2>1. InArticles'
    BY <1>1, <1>2, <1>8 DEF Migrating, InArticles
  <2> QED BY <1>6, <1>7, <1>8, <2>1 DEF Migrating, Progress
<1>9. CASE run' = run
  <2>1. Progress'
    <3>1. Cleanup' = Cleanup /\ At("items")' = At("items")
      BY <1>9 DEF Cleanup, At
    <3>2. SUFFICES ASSUME Progressing, NEW a \in articles \ run.todo, NEW l \in Locale, NEW i \in DOMAIN Mappings
                   PROVE  Moved(a, l, i)' \/ (a = run.item /\ l \in run.locales)
      BY <1>2, <1>9, <3>1 DEF Progress, Progressing
    <3>3. Moved(a, l, i) \/ (a = run.item /\ l \in run.locales)
      BY <1>1, <3>2 DEF Migrating, Progress
    <3> QED BY <1>2, <1>3, <3>3
  <2>2. InArticles'
    BY <1>1, <1>2, <1>9 DEF Migrating, InArticles
  <2> QED BY <1>6, <1>7, <1>9, <2>1, <2>2 DEF Migrating
<1>10. CASE Launch
  <2>1. /\ run'.pc = "find" /\ run'.todo = run.todo /\ run'.item = run.item /\ run'.before = run.before
        /\ run'.locales = run.locales /\ run'.snap = run.snap
    BY <1>1, <1>10 DEF Launch, RunRecord
  <2> QED BY <1>8, <2>1 DEF Progressing, At
<1>11. CASE Quiet
  <2>1. (\E why : Ended(why)) \/ (WorkKept /\ run'.pc # "items")
    <3>1. \A remote, why : Returned(remote, why) => Ended(why) \/ (WorkKept /\ run'.pc # "items")
      BY DEF Returned, Turn
    <3>2. \A remote : UpdateTurn(remote) => WorkKept /\ run'.pc # "items"
      BY DEF UpdateTurn, Turn
    <3>3. \A pc, part, remote : pc # "items" /\ Turn(pc, part, remote) => WorkKept /\ run'.pc # "items"
      BY DEF Turn
    <3>4. CASE FindRemote
      BY <1>1, <3>2, <3>3, <3>4, FindTurns
    <3>5. CASE PutTransition \/ PostStructure \/ PutStructure \/ PollRecovery
      BY <1>1, <3>1, <3>3, <3>5, PutTurns DEF UpdatedTurn
    <3>6. CASE MigrationDone
      BY <1>1, <3>1, <3>2, <3>3, <3>6, MigrationTurns
    <3>7. CASE Templates \/ CleanupPlan \/ PipelineEnds \/ Abort
      BY <1>1, <3>3, <3>7, PipelineTurns
    <3> QED BY <1>11, <3>4, <3>5, <3>6, <3>7 DEF Quiet
  <2> QED BY <1>5, <1>8, <2>1 DEF WorkKept, Progressing, At
<1>12. CASE ListSources
  <2>1. /\ run'.pc = "snapshot" /\ run'.todo = Selected /\ run'.item = run.item /\ run'.before = run.before
        /\ run'.locales = run.locales /\ run'.snap = run.snap
    BY <1>1, <1>12 DEF ListSources, RunRecord
  <2>2. InArticles'
    BY <1>1, <1>2, <2>1 DEF Migrating, InArticles, Selected
  <2> QED BY <1>6, <1>7, <2>1, <2>2 DEF Migrating, Progress, Progressing, At
<1>13. CASE SnapshotSource
  <2>1. At("snapshot") /\ content' = content
    BY <1>13 DEF SnapshotSource, portal
  <2>2. CASE Goto("transition")
    <3>1. WorkKept /\ run'.pc = "transition"
      BY <1>1, <2>2, GotoTurns DEF Turn
    <3> QED BY <1>8, <3>1 DEF WorkKept, Progressing, At
  <2>3. CASE \E a \in run.todo : run' = [run EXCEPT !.snap[a] = content[a], !.todo = @ \ {a}]
    <3>1. PICK a \in run.todo : run' = [run EXCEPT !.snap[a] = content[a], !.todo = @ \ {a}]
      BY <2>3
    <3>2. /\ run'.pc = "snapshot" /\ run'.todo = run.todo \ {a} /\ run'.item = run.item
          /\ run'.before = run.before /\ run'.locales = run.locales
          /\ run'.snap = [run.snap EXCEPT ![a] = content[a]]
          /\ run.snap \in [Article -> Content \cup {None}]
      BY <1>1, <2>1, <3>1 DEF At, RunRecord
    <3>3. a \in articles
      BY <1>1, <3>1 DEF Migrating, InArticles
    <3>4. SnapSafe'
      <4>1. SUFFICES ASSUME NEW b \in articles, NEW l \in Locale, NEW i \in DOMAIN Mappings,
                            run'.snap[b] # None, Held(b, l, i)
                     PROVE  run'.snap[b][l][Mappings[i].source] # Empty
                            \/ content[b][l][Mappings[i].target] # Empty
        BY <1>2, <1>3, <2>1 DEF SnapSafe
      <4>2. CASE b = a
        <5>1. run'.snap[b] = content[b]
          BY <1>2, <3>2, <4>1, <4>2
        <5> QED BY <1>1, <4>1, <5>1 DEF PortalSafe, Safe
      <4>3. CASE b # a
        <5>1. run'.snap[b] = run.snap[b]
          BY <1>2, <3>2, <4>1, <4>3
        <5> QED BY <1>1, <4>1, <5>1 DEF Migrating, SnapSafe
      <4> QED BY <4>2, <4>3
    <3>5. InArticles'
      BY <1>1, <1>2, <3>2 DEF Migrating, InArticles
    <3> QED BY <1>7, <3>2, <3>4, <3>5 DEF Migrating, Progress, Progressing, At
  <2> QED BY <1>13, <2>2, <2>3 DEF SnapshotSource
<1>14. CASE SelectContents
  <2>1. CASE End("error")
    BY <1>5, <2>1 DEF End, Ended
  <2>2. CASE run' = [run EXCEPT !.pc = "items", !.todo = Selected, !.failed = FALSE,
                                !.migrated = IF Cleanup THEN @ ELSE {}]
    <3>1. /\ run'.todo = Selected /\ run'.item = run.item /\ run'.before = run.before
          /\ run'.stage = run.stage /\ run'.locales = run.locales /\ run'.snap = run.snap
      BY <1>1, <2>2 DEF RunRecord
    <3>2. ~Cleanup' => articles' \ run'.todo = {}
      BY <1>1, <1>2, <3>1 DEF Selected, Scope, Cleanup
    <3>3. InArticles'
      BY <1>1, <1>2, <3>1 DEF Migrating, InArticles, Selected
    <3> QED BY <1>6, <1>7, <3>1, <3>2, <3>3 DEF Migrating, Progress, Progressing
  <2> QED BY <1>14, <2>1, <2>2 DEF SelectContents
<1>15. CASE ReadContent
  <2>1. PICK a \in run.todo :
          \/ run' = [run EXCEPT !.item = a, !.before = content[a], !.locales = langs[a], !.touched = FALSE,
                                !.todo = @ \ {a}]
          \/ run' = [run EXCEPT !.failed = TRUE, !.todo = @ \ {a}]
    BY <1>15 DEF ReadContent
  <2>2. a \in articles /\ run.item = None /\ At("items") /\ content' = content
    BY <1>1, <1>15, <2>1 DEF Migrating, InArticles, ReadContent, portal
  <2>3. CASE run' = [run EXCEPT !.failed = TRUE, !.todo = @ \ {a}]
    <3>1. /\ run'.todo = run.todo \ {a} /\ run'.item = run.item /\ run'.before = run.before
          /\ run'.failed = TRUE /\ run'.locales = run.locales /\ run'.snap = run.snap
      BY <1>1, <2>3 DEF RunRecord
    <3> QED BY <1>8, <3>1 DEF Progressing
  <2>4. CASE run' = [run EXCEPT !.item = a, !.before = content[a], !.locales = langs[a], !.touched = FALSE,
                                !.todo = @ \ {a}]
    <3>1. /\ run'.todo = run.todo \ {a} /\ run'.item = a /\ run'.before = content[a]
          /\ run'.failed = run.failed /\ run'.locales = langs[a] /\ run'.snap = run.snap
          /\ run'.stage = run.stage /\ run'.part = run.part
      BY <1>1, <2>4 DEF RunRecord
    <3>2. ReadSafe'
      <4>1. SUFFICES ASSUME NEW l \in langs[a], NEW i \in DOMAIN Mappings, Held(a, l, i)'
                     PROVE  content[a][l][Mappings[i].source] # Empty
                            \/ content[a][l][Mappings[i].target] # Empty
        BY <1>2, <2>2, <3>1 DEF ReadSafe, Held
      <4>2. l \in Locale /\ Held(a, l, i)
        BY <1>2, <2>2, <4>1 DEF Held
      <4> QED BY <1>1, <2>2, <4>2 DEF PortalSafe, Safe
    <3>3. Progress'
      <4>1. SUFFICES ASSUME Progressing, NEW b \in articles, b \notin run.todo \/ b = a,
                            NEW l \in Locale, NEW i \in DOMAIN Mappings
                     PROVE  Moved(b, l, i)' \/ (b = a /\ l \in langs[a])
        <5>1. Progressing' => Progressing
          BY <2>2, <3>1 DEF Progressing, Cleanup
        <5> QED BY <1>2, <3>1, <5>1 DEF Progress
      <4>2. CASE b = a /\ l \notin langs[a]
        <5>1. ~Held(b, l, i)
          BY <1>1, <1>2, <4>2 DEF PortalSafe
        <5>2. Moved(b, l, i)
          BY <5>1 DEF Moved
        <5> QED BY <1>2, <1>3, <5>2
      <4>3. CASE b # a
        <5>1. b # None
          BY <1>2, ConstantsAssumption
        <5>2. Moved(b, l, i)
          BY <1>1, <2>2, <4>1, <4>3, <5>1 DEF Migrating, Progress
        <5> QED BY <1>2, <1>3, <5>2
      <4> QED BY <4>1, <4>2, <4>3
    <3>4. InArticles'
      BY <1>1, <1>2, <2>2, <3>1 DEF Migrating, InArticles
    <3> QED BY <1>6, <3>1, <3>2, <3>3, <3>4 DEF Migrating
  <2> QED BY <2>1, <2>3, <2>4
<1>16. CASE WriteLocale
  <2>1. run.item \in Article /\ At("items") /\ run.item # None
    BY <1>1, <1>16, WriteForm, ConstantsAssumption
  <2>2. PICK l \in run.locales :
          /\ l \in Locale
          /\ \/ content' = content /\ ((LocaleDone(l) /\ (After(l) = run.before[l] \/ DryRun)) \/ ItemFails)
             \/ Writes(l) /\ (LocaleDone(l) \/ ItemFails)
    BY <1>1, <1>16, WriteForm
  <2>3. CASE ItemFails
    <3>1. run' = [run EXCEPT !.failed = TRUE, !.item = None, !.before = None, !.locales = {}, !.touched = FALSE]
      BY <2>3 DEF ItemFails
    <3>2. run'.todo = run.todo /\ run'.item = None /\ run'.failed = TRUE /\ run'.snap = run.snap
      BY <1>1, <3>1 DEF RunRecord
    <3>3. InArticles'
      BY <1>1, <1>2, <3>2 DEF Migrating, InArticles
    <3> QED BY <1>6, <3>2, <3>3 DEF Migrating, ReadSafe, Progress, Progressing
  <2>4. CASE LocaleDone(l) /\ ~ItemFails
    <3>1. /\ run'.todo = run.todo /\ run'.item = run.item /\ run'.before = run.before
          /\ run'.failed = run.failed /\ run'.locales = run.locales \ {l} /\ run'.snap = run.snap
          /\ run'.stage = run.stage /\ run'.part = run.part
      BY <1>1, <2>4 DEF LocaleDone, NextLocale, RunRecord
    <3>2. Progress'
      <4>1. SUFFICES ASSUME Progressing, NEW b \in articles, b \notin run.todo, NEW k \in Locale,
                            NEW i \in DOMAIN Mappings
                     PROVE  Moved(b, k, i)' \/ (b = run.item /\ k \in run.locales \ {l})
        <5>1. Progressing' => Progressing
          BY <2>1, <3>1 DEF Progressing, Cleanup
        <5> QED BY <1>2, <3>1, <5>1 DEF Progress
      <4>2. Moved(b, k, i) \/ (b = run.item /\ k \in run.locales)
        BY <1>1, <4>1 DEF Migrating, Progress
      <4>3. CASE Moved(b, k, i) \/ k # l
        BY <1>2, <1>3, <4>2, <4>3
      <4>4. CASE ~Moved(b, k, i) /\ k = l
        <5>1. b = run.item /\ Held(run.item, l, i) /\ run.part # "preview"
          BY <4>1, <4>2, <4>4 DEF Moved, Progressing
        <5>2. /\ After(l)[Mappings[i].target] # Empty
              /\ After(l) = run.before[l] => content[run.item][l][Mappings[i].target] # Empty
          BY <2>1, <2>2, <5>1, WriteFills
        <5>3. ~DryRun
          BY <1>1, <2>1, <5>1 DEF DryRun, Courses, Writing, At
        <5>4. content'[run.item][l][Mappings[i].target] # Empty
          <6>1. CASE Writes(l)
            BY <1>1, <2>1, <2>2, <5>2, <6>1, WritesAt
          <6>2. CASE content' = content /\ After(l) = run.before[l]
            BY <5>2, <6>2
          <6> QED BY <2>2, <2>4, <5>3, <6>1, <6>2
        <5>5. Moved(b, k, i)'
          BY <4>4, <5>1, <5>4 DEF Moved
        <5> QED BY <5>5
      <4> QED BY <4>3, <4>4
    <3>3. InArticles'
      BY <1>1, <1>2, <3>1 DEF Migrating, InArticles
    <3> QED BY <1>6, <1>7, <3>1, <3>2, <3>3 DEF Migrating
  <2> QED BY <2>2, <2>3, <2>4
<1>17. CASE ContentDone
  <2>1. /\ run'.todo = run.todo /\ run'.item = None /\ run'.failed = run.failed /\ run'.snap = run.snap
        /\ run'.stage = run.stage /\ run'.part = run.part /\ run.locales = {} /\ At("items")
    BY <1>1, <1>17 DEF ContentDone, RunRecord
  <2>2. Progress'
    <3>1. SUFFICES ASSUME Progressing, NEW b \in articles, b \notin run.todo, NEW k \in Locale,
                          NEW i \in DOMAIN Mappings
                   PROVE  Moved(b, k, i)'
      <4>1. Progressing' => Progressing
        BY <2>1 DEF Progressing, Cleanup
      <4> QED BY <1>2, <2>1, <4>1 DEF Progress
    <3>2. Moved(b, k, i)
      BY <1>1, <2>1, <3>1 DEF Migrating, Progress
    <3> QED BY <1>2, <1>3, <3>2
  <2>3. InArticles'
    BY <1>1, <1>2, <2>1 DEF Migrating, InArticles
  <2> QED BY <1>6, <2>1, <2>2, <2>3 DEF Migrating, ReadSafe
<1> QED BY <1>9, <1>10, <1>11, <1>12, <1>13, <1>14, <1>15, <1>16, <1>17
        DEF Next, Step, Quiet, vars, LateUpdate, Edit, Create

LEMMA SurvivalInit == Init /\ world = {} => Survival
<1> SUFFICES ASSUME Init PROVE Survival
  OBVIOUS
<1>1. /\ content = orig /\ late = {} /\ run = Idle("none")
      /\ \A a \in Article, l \in Locale : l \notin langs[a] => orig[a][l] = Blank
  BY DEF Init
<1>2. \A i \in DOMAIN Mappings : Blank[Mappings[i].source] = Empty
  BY RuleFacts DEF Blank
<1>3. \A a \in Article, l \in Locale, i \in DOMAIN Mappings : Held(a, l, i) => l \in langs[a]
  <2> HIDE DEF Blank
  <2> QED BY <1>1, <1>2 DEF Held
<1>4. PortalSafe
  BY <1>1, <1>3 DEF PortalSafe, Safe, Held
<1>5. /\ run.pc = "idle" /\ run.stage = "introduce" /\ run.todo = {} /\ run.item = None
      /\ run.snap = [a \in Article |-> None]
  BY <1>1 DEF Idle
<1>6. Courses
  BY <1>5 DEF Courses, Putting, Introduced, Writing, Cleanup, At
<1>7. articles \subseteq Article
  BY TypeInit, TypeParts DEF TypeInv, PortalOK
<1>8. Migrating
  BY <1>5, <1>7 DEF Migrating, InArticles, ReadSafe, SnapSafe, Progress, Progressing, At
<1> QED BY <1>4, <1>6, <1>8 DEF Survival

SurvivalInv == ReportInv /\ (PlanFits /\ world = {} => Survival)

LEMMA SurvivalStep == SurvivalInv /\ [Next]_vars => SurvivalInv'
<1> SUFFICES ASSUME SurvivalInv, [Next]_vars PROVE SurvivalInv'
  OBVIOUS
<1>1. ReportInv' /\ world' = world /\ PortalInv
  BY ReportStep, RigidStep DEF SurvivalInv, ReportInv, rigid
<1>2. PlanFits /\ world = {} => Survival'
  BY <1>1, PortalSafeStep, CoursesStep, MigratingStep DEF SurvivalInv, Survival
<1> QED BY <1>1, <1>2 DEF SurvivalInv

(* A mapped value is in its source or its target is filled, at any time, as *)
(* long as the plan fits the structures, nobody edits or creates contents and no plan is scoped or dry:   *)
(* whatever fails, times out, takes effect late, is killed and run again.   *)
THEOREM StructureValuesSurvive == Spec => []ValuesSurvive
<1>1. Init => SurvivalInv
  BY ReportInit, SurvivalInit DEF SurvivalInv
<1>2. SurvivalInv => ValuesSurvive
  BY DEF SurvivalInv, Survival, PortalSafe, Safe, Held, ValuesSurvive
<1> QED BY <1>1, <1>2, SurvivalStep, PTL DEF Spec

LEMMA ReportedMigration ==
  ASSUME PlanFits, SurvivalInv, Next, Command, world = {}, run.cmd.plan, ~run.cmd.skipUpdate, run'.outcome = "updated"
  PROVE  AllMoved
<1>1. ReportInv /\ PortalInv /\ TypeInv /\ Survival /\ run.outcome = "none"
  BY DEF SurvivalInv, ReportInv, PortalInv, Flow, Command
<1>2. \A why : Ended(why) => run'.outcome = why
  BY DEF Ended, Idle
<1>3. \A pc, part, remote : ~Turn(pc, part, remote)
  BY <1>1 DEF Turn
<1>4. \A remote, why : Returned(remote, why) => run'.outcome = why
  BY <1>2, <1>3 DEF Returned
<1>5. ~\E remote : UpdateTurn(remote)
  BY <1>3 DEF UpdateTurn
<1>6. CASE FindRemote
  BY <1>1, <1>2, <1>3, <1>5, <1>6, FindTurns
<1>7. CASE PutTransition \/ PostStructure \/ PutStructure \/ PollRecovery
  <2>1. UpdatedTurn /\ (PutStructure \/ PollRecovery)
    <3>1. \A why \in {"error", "timeout"} : ~Ended(why)
      BY <1>2
    <3>2. ~Returned(run.remote, "created")
      BY <1>4
    <3> QED BY <1>1, <1>3, <1>7, <3>1, <3>2, PutTurns
  <2>2. run.pc \in {"put", "poll"}
    BY <2>1 DEF PutStructure, PollRecovery, At
  <2>3. ~RunsPost \/ Breaking(run.remote, Payload)
    BY <1>3, <2>1 DEF UpdatedTurn
  <2>4. RunsPre \/ RunsPost
    BY <1>1, CommandFacts DEF RunsPre, RunsPost, Phase, Phases
  <2>5. Putting
    BY <1>1 DEF Survival, Courses
  <2> QED BY <2>2, <2>3, <2>4, <2>5 DEF Putting
<1>8. CASE MigrationDone
  <2>1. run.part # "preview" \/ NothingPut = "checked"
    BY <1>1, <1>8 DEF MigrationDone, At, Survival, Courses, NothingPut
  <2>2. ~run.failed /\ run.part = "post"
    BY <1>1, <1>2, <1>3, <1>4, <1>5, <1>8, <2>1, MigrationTurns
  <2> QED BY <1>1, <1>8, <2>2, MigrationMoved
<1>9. CASE Templates \/ CleanupPlan \/ PipelineEnds \/ Abort
  <2>1. At("end") /\ ~run.cmd.checkOnly
    BY <1>1, <1>2, <1>3, <1>9, PipelineTurns
  <2>2. Introduced
    BY <1>1 DEF Survival, Courses
  <2> QED BY <2>1, <2>2 DEF Introduced, At
<1>10. CASE ListSources \/ SnapshotSource \/ SelectContents \/ ReadContent \/ WriteLocale \/ ContentDone
  BY <1>1, <1>2, <1>10, WorkTurns DEF Onward
<1> QED BY <1>6, <1>7, <1>8, <1>9, <1>10 DEF Next, Step, Command, Launch, LateUpdate, Edit, Create

(* The reports are true: an import that says created or updated has brought *)
(* its own version of the definition to the portal, and a migration that    *)
(* says updated has filled the target of every content, lost answers and    *)
(* updates that take effect late included.                                  *)
THEOREM StructureReports == Spec => ReportsAreTrue
<1>1. Init => SurvivalInv
  BY ReportInit, SurvivalInit DEF SurvivalInv
<1>2. SurvivalInv /\ [Next]_vars =>
        [Command /\ ~(run.cmd.pipeline \/ run.cmd.skipUpdate) /\ run'.outcome \in {"created", "updated"} => def'.label = local.label]_vars
  BY ReportedUpdate DEF SurvivalInv
<1>3. SurvivalInv /\ [Next]_vars =>
        [PlanFits /\ world = {} /\ Command /\ run'.outcome = "updated" /\ run.cmd.plan /\ ~run.cmd.skipUpdate =>
           \A a \in articles, l \in Locale, i \in DOMAIN Mappings :
             LET m == Mappings[i] IN orig[a][l][m.source] # Empty => content'[a][l][m.target] # Empty]_vars
  <2> SUFFICES ASSUME PlanFits, SurvivalInv, Next, world = {}, Command, run'.outcome = "updated", run.cmd.plan,
                      ~run.cmd.skipUpdate,
                      NEW a \in articles, NEW l \in Locale, NEW i \in DOMAIN Mappings, Held(a, l, i)
               PROVE  content'[a][l][Mappings[i].target] # Empty
    BY DEF Held
  <2>1. a \in Article /\ PortalInv
    BY TypeParts DEF SurvivalInv, ReportInv, PortalInv, TypeInv, PortalOK
  <2>2. Moved(a, l, i)
    BY ReportedMigration DEF AllMoved
  <2>3. Moved(a, l, i)' /\ Held(a, l, i)'
    BY <2>1, <2>2, MovedStays
  <2> QED BY <2>3 DEF Moved
<1> QED BY <1>1, <1>2, <1>3, SurvivalStep, PTL DEF Spec, ReportsAreTrue, UpdatedMeansApplied, SuccessMeansMigrated
=============================================================================
