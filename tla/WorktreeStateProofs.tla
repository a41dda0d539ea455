------------------------- MODULE WorktreeStateProofs -------------------------
(***************************************************************************)
(* Theorems about the runtime state of worktrees, for any number of         *)
(* commands, worktrees, storages and machines.                              *)
(*                                                                         *)
(* The argument climbs in layers, each an inductive invariant that leans on *)
(* the ones before it:                                                      *)
(*   TypeInv    types, which commands come to which step, and versions;     *)
(*   HandoffInv a setup ends well only from its finally block;              *)
(*   FreshInv   without Btrfs the bind directories do not outlive their     *)
(*              worktree and hold its present incarnation;                  *)
(*   Exclusive, CleanInv   one command works on a worktree, so what a clean *)
(*              has read and removed stays as it left it;                   *)
(*   VolumesInv the same of Docker volumes, where docker does not fail;     *)
(*   SnapInv    how far each clone has come, and that main stands still.    *)
(* The first three hold whatever fails, is killed or runs beside; the others *)
(* name the condition they need.                                            *)
(***************************************************************************)
EXTENDS WorktreeState, FiniteSetTheorems, TLAPS

Run == [pc : PCs, op : OpNames \cup {"none"}, w : Worktree, stop : BOOLEAN, restart : BOOLEAN,
        next : 1..Len(Subdirs), seen : Content, known : BOOLEAN, stopped : BOOLEAN,
        tried : BOOLEAN, todo : SUBSET Worktree, outcome : Outcomes]

LEMMA SubdirFacts ==
  /\ Len(Subdirs) \in Nat \ {0}
  /\ \A i \in 1..Len(Subdirs) : Subdirs[i] \in Storage
  /\ \A s \in Storage : \E i \in 1..Len(Subdirs) : s = Subdirs[i]
<1>1. Subdirs \in Seq(Storage) /\ Subdirs # <<>>
  BY ConstantsAssumption
<1>2. DOMAIN Subdirs = 1..Len(Subdirs)
  BY <1>1
<1> QED BY <1>1, <1>2 DEF Storage

LEMMA ContentFacts ==
  /\ Absent \in Content /\ Empty \in Content /\ Torn \in Content
  /\ \A v \in 0..MaxVersion : FromMain(v) \in Content
  /\ \A g \in 0..MaxLaunches : Own(g) \in Content
  BY ConstantsAssumption DEF Content, Absent, Empty, Torn, FromMain, Own

LEMMA IdleOK == Idle \in Run /\ Idle.pc = "idle"
<1>1. (CHOOSE w \in Worktree : TRUE) \in Worktree
  BY ConstantsAssumption
<1>2. 1 \in 1..Len(Subdirs)
  BY SubdirFacts
<1>3. "idle" \in PCs /\ "none" \in Outcomes
  BY DEF PCs, Outcomes
<1> QED BY <1>1, <1>2, <1>3, ContentFacts DEF Idle, Run

-----------------------------------------------------------------------------
(* What a step makes of the record of its command; the others stay.         *)
Becomes(p, r) == proc' = [proc EXCEPT ![p] = r]
Others(p) == \A q \in Proc \ {p} : proc'[q] = proc[q]
SameRun(r, s) == s.op = r.op /\ s.stop = r.stop /\ s.restart = r.restart

LEMMA BecomesFacts ==
  ASSUME proc \in [Proc -> Run], NEW p \in Proc, NEW r \in Run, Becomes(p, r)
  PROVE  proc' \in [Proc -> Run] /\ proc'[p] = r /\ Others(p)
  BY DEF Becomes, Others

LEMMA GotoFacts ==
  ASSUME proc \in [Proc -> Run], NEW p \in Proc, NEW pc \in PCs, Goto(p, pc)
  PROVE  /\ proc' \in [Proc -> Run] /\ Others(p)
         /\ proc'[p] = [proc[p] EXCEPT !.pc = pc]
<1>1. [proc[p] EXCEPT !.pc = pc] \in Run
  BY DEF Run
<1> QED BY <1>1 DEF Goto, Others

LEMMA EndFacts ==
  ASSUME proc \in [Proc -> Run], NEW p \in Proc, NEW why \in Outcomes, End(p, why)
  PROVE  /\ proc' \in [Proc -> Run] /\ Others(p)
         /\ proc'[p] = Ended(proc[p], why)
<1>1. 1 \in 1..Len(Subdirs) /\ Absent \in Content /\ "idle" \in PCs
  BY SubdirFacts, ContentFacts DEF PCs
<1>2. Ended(proc[p], why) \in Run
  BY <1>1 DEF Ended, Run
<1> QED BY <1>2 DEF End, Others

-----------------------------------------------------------------------------
(* Which commands come to which step, and the types of the commands.        *)
OpsAt(pc) ==
  CASE pc \in {"preflight", "stopMain", "add", "restart"} -> {"setup"}
    [] pc \in {"list", "target"} -> {"setup", "clean", "gc"}
    [] pc \in {"env", "guard", "copy", "copying", "layout"} -> {"setup", "start"}
    [] pc \in {"enter", "up"} -> {"start"}
    [] pc \in {"docker", "volumes", "files", "roots", "check"} -> {"clean", "gc"}
    [] pc \in {"scan", "gcNext"} -> {"gc"}
    [] pc \in {"empty", "fill"} -> {"refresh"}
    [] OTHER -> OpNames \cup {"none"}
Placed == \A p \in Proc : proc[p].op \in OpsAt(proc[p].pc)
ProcOK == proc \in [Proc -> Run] /\ Placed

SourcesOK == mainVersion \in 0..MaxVersion /\ base \in [Storage -> Content] /\ site \in Sites

(* A step of p, seen from the commands: it keeps p's operation and flags.   *)
StepOf(p) ==
  /\ ProcOK' /\ Others(p) /\ SameRun(proc[p], proc'[p])

LEMMA EndStep ==
  ASSUME ProcOK, NEW p \in Proc, NEW why \in Outcomes, End(p, why)
  PROVE  StepOf(p)
<1>1. proc' \in [Proc -> Run] /\ Others(p) /\ proc'[p] = Ended(proc[p], why) /\ proc[p] \in Run
  BY EndFacts DEF ProcOK
<1>2. proc'[p].pc = "idle" /\ SameRun(proc[p], proc'[p])
  BY <1>1 DEF Ended, SameRun, Run
<1>3. Placed'
  BY <1>1, <1>2 DEF ProcOK, Placed, Others, OpsAt, SameRun, Run
<1> QED BY <1>1, <1>2, <1>3 DEF StepOf, ProcOK

LEMMA GotoStep ==
  ASSUME ProcOK, NEW p \in Proc, NEW pc \in PCs, Goto(p, pc), proc[p].op \in OpsAt(pc)
  PROVE  StepOf(p)
<1>1. proc' \in [Proc -> Run] /\ Others(p) /\ proc'[p] = [proc[p] EXCEPT !.pc = pc] /\ proc[p] \in Run
  BY GotoFacts DEF ProcOK
<1>2. proc'[p].pc = pc /\ SameRun(proc[p], proc'[p])
  BY <1>1 DEF SameRun, Run
<1>3. Placed'
  BY <1>1, <1>2 DEF ProcOK, Placed, Others, SameRun
<1> QED BY <1>1, <1>2, <1>3 DEF StepOf, ProcOK

LEMMA BecomesStep ==
  ASSUME ProcOK, NEW p \in Proc, NEW r, Becomes(p, r), r \in Run, SameRun(proc[p], r), proc[p].op \in OpsAt(r.pc)
  PROVE  StepOf(p)
<1>1. proc' \in [Proc -> Run] /\ Others(p) /\ proc'[p] = r
  BY BecomesFacts DEF ProcOK
<1>2. Placed'
  BY <1>1 DEF ProcOK, Placed, Others, SameRun
<1> QED BY <1>1, <1>2 DEF StepOf, ProcOK

LEMMA SetupSteps ==
  ASSUME ProcOK, NEW p \in Proc, SetupStep(p)
  PROVE  StepOf(p)
<1>1. proc[p] \in Run /\ proc[p].op \in OpsAt(proc[p].pc)
      /\ {"mainRunning", "error", "pathConflict", "git"} \subseteq Outcomes
      /\ {"list", "stopMain", "add", "env", "target"} \subseteq PCs
  BY DEF ProcOK, Placed, Outcomes, PCs
<1>2. CASE Preflight(p)
  BY <1>1, <1>2, GotoStep, EndStep DEF Preflight, At, OpsAt
<1>3. CASE StopMain(p)
  <2>1. CASE proc' = [proc EXCEPT ![p].pc = "list", ![p].stopped = TRUE]
    <3> DEFINE r == [proc[p] EXCEPT !.pc = "list", !.stopped = TRUE]
    <3>1. Becomes(p, r) /\ r \in Run /\ SameRun(proc[p], r) /\ r.pc = "list"
      BY <1>1, <2>1 DEF Becomes, Run, SameRun
    <3>2. proc[p].op \in OpsAt("list")
      BY <1>1, <1>3 DEF StopMain, At, OpsAt
    <3> QED BY <3>1, <3>2, BecomesStep
  <2> QED BY <1>1, <1>3, <2>1, EndStep DEF StopMain
<1>4. CASE ListWorktrees(p)
  <2> DEFINE r == [proc[p] EXCEPT !.known = (W(p) \in registered), !.pc = "target"]
  <2>1. (W(p) \in registered) \in BOOLEAN
    OBVIOUS
  <2>2. Becomes(p, r) /\ r \in Run /\ SameRun(proc[p], r) /\ r.pc = "target"
    BY <1>1, <1>4, <2>1 DEF ListWorktrees, Becomes, Run, SameRun
  <2>3. proc[p].op \in OpsAt("target")
    BY <1>1, <1>4 DEF ListWorktrees, At, OpsAt
  <2> QED BY <2>2, <2>3, BecomesStep
<1>5. CASE ResolveTarget(p)
  BY <1>1, <1>5, GotoStep, EndStep DEF ResolveTarget, At, OpsAt, InOp
<1>6. CASE AddGitWorktree(p)
  BY <1>1, <1>6, GotoStep, EndStep DEF AddGitWorktree, At, OpsAt
<1>7. CASE RestartMain(p)
  <2>1. CASE proc' = [proc EXCEPT ![p] = [Ended(@, @.outcome) EXCEPT !.tried = TRUE]]
    <3> DEFINE r == [Ended(proc[p], proc[p].outcome) EXCEPT !.tried = TRUE]
    <3>1. 1 \in 1..Len(Subdirs) /\ Absent \in Content /\ "idle" \in PCs
      BY SubdirFacts, ContentFacts DEF PCs
    <3>2. Becomes(p, r) /\ r \in Run /\ SameRun(proc[p], r) /\ r.pc = "idle"
      BY <1>1, <2>1, <3>1 DEF Becomes, Run, SameRun, Ended
    <3>3. proc[p].op \in OpsAt("idle")
      BY <1>1 DEF OpsAt, Run
    <3> QED BY <3>2, <3>3, BecomesStep
  <2>2. proc[p].outcome \in Outcomes
    BY <1>1 DEF Run
  <2> QED BY <1>7, <2>1, <2>2, EndStep DEF RestartMain
<1> QED BY <1>2, <1>3, <1>4, <1>5, <1>6, <1>7 DEF SetupStep

LEMMA EnvFailsStep ==
  ASSUME ProcOK, NEW p \in Proc, EnvFails(p), proc[p].op \in {"setup", "start"}
  PROVE  StepOf(p)
<1>1. proc[p] \in Run /\ "envError" \in Outcomes /\ "restart" \in PCs /\ Absent \in Content
  BY ContentFacts DEF ProcOK, Outcomes, PCs
<1>2. CASE InOp(p, {"setup"})
  <2> DEFINE r == [proc[p] EXCEPT !.pc = "restart", !.outcome = "envError", !.seen = Absent]
  <2>1. Becomes(p, r) /\ r \in Run /\ SameRun(proc[p], r) /\ r.pc = "restart"
    BY <1>1, <1>2 DEF EnvFails, Becomes, Run, SameRun
  <2>2. proc[p].op \in OpsAt("restart")
    BY <1>2 DEF InOp, OpsAt
  <2> QED BY <2>1, <2>2, BecomesStep
<1> QED BY <1>1, <1>2, EndStep DEF EnvFails

LEMMA SourceOK == ASSUME SourcesOK, NEW s \in Storage PROVE Source(s) \in Content
  BY ContentFacts DEF Source, SourcesOK

LEMMA IndexOK ==
  ASSUME ProcOK, NEW p \in Proc
  PROVE  Current(p) \in Storage /\ NextIndex(p) \in 1..Len(Subdirs) /\ AfterCopy(p) \in {"layout", "copy"}
<1>1. proc[p].next \in 1..Len(Subdirs)
  BY DEF ProcOK, Run
<1> QED BY <1>1, SubdirFacts DEF Current, NextIndex, AfterCopy

LEMMA EnvSteps ==
  ASSUME ProcOK, SourcesOK, NEW p \in Proc, EnvStep(p)
  PROVE  StepOf(p)
<1>1. proc[p] \in Run /\ proc[p].op \in OpsAt(proc[p].pc) /\ {"error", "ok"} \subseteq Outcomes /\ Absent \in Content
      /\ {"env", "copy", "layout", "guard", "copying", "up", "restart"} \subseteq PCs /\ 1 \in 1..Len(Subdirs)
  BY SubdirFacts, ContentFacts DEF ProcOK, Placed, Outcomes, PCs
<1>2. CASE EnterWorktree(p)
  BY <1>1, <1>2, GotoStep, EndStep DEF EnterWorktree, At, OpsAt
<1>3. CASE WorktreeEnvHasState(p)
  <2> DEFINE r == [proc[p] EXCEPT !.next = 1, !.pc = IF HasState(W(p)) THEN "layout" ELSE "guard"]
  <2>1. Becomes(p, r) /\ r \in Run /\ SameRun(proc[p], r) /\ r.pc \in {"layout", "guard"}
    BY <1>1, <1>3 DEF WorktreeEnvHasState, Becomes, Run, SameRun
  <2>2. \A pc \in {"layout", "guard"} : proc[p].op \in OpsAt(pc)
    BY <1>1, <1>3 DEF WorktreeEnvHasState, At, OpsAt
  <2> QED BY <2>1, <2>2, BecomesStep
<1>4. CASE AssertSafeMainEnvClone(p)
  BY <1>1, <1>4, GotoStep, EnvFailsStep DEF AssertSafeMainEnvClone, At, OpsAt
<1>5. CASE BeginCopy(p)
  <2> DEFINE r == [proc[p] EXCEPT !.pc = AfterCopy(p), !.next = NextIndex(p)]
             t == [proc[p] EXCEPT !.pc = "copying", !.seen = Source(Current(p))]
  <2>1. r \in Run /\ SameRun(proc[p], r) /\ r.pc \in {"layout", "copy"}
    BY <1>1, IndexOK DEF Run, SameRun
  <2>2. t \in Run /\ SameRun(proc[p], t) /\ t.pc = "copying"
    BY <1>1, IndexOK, SourceOK DEF Run, SameRun
  <2>3. Becomes(p, r) \/ Becomes(p, t)
    BY <1>5 DEF BeginCopy, Becomes
  <2>4. \A pc \in {"layout", "copy", "copying"} : proc[p].op \in OpsAt(pc)
    BY <1>1, <1>5 DEF BeginCopy, At, OpsAt
  <2> QED BY <2>1, <2>2, <2>3, <2>4, BecomesStep
<1>6. CASE EndCopy(p)
  <2> DEFINE r == [proc[p] EXCEPT !.pc = AfterCopy(p), !.seen = Absent, !.next = NextIndex(p)]
  <2>1. r \in Run /\ SameRun(proc[p], r) /\ r.pc \in {"layout", "copy"}
    BY <1>1, IndexOK DEF Run, SameRun
  <2>2. \A pc \in {"layout", "copy", "restart"} : proc[p].op \in OpsAt(pc) \/ pc = "restart"
    BY <1>1, <1>6 DEF EndCopy, At, OpsAt
  <2>3. proc[p].op \in {"setup", "start"}
    BY <1>1, <1>6 DEF EndCopy, At, OpsAt
  <2>4. Becomes(p, r) \/ EnvFails(p)
    BY <1>6 DEF EndCopy, Becomes
  <2> QED BY <2>1, <2>2, <2>3, <2>4, BecomesStep, EnvFailsStep
<1>7. CASE EnsureLayout(p)
  <2>1. CASE InOp(p, {"setup"})
    <3> DEFINE r == [proc[p] EXCEPT !.pc = "restart", !.outcome = "ok"]
    <3>1. Becomes(p, r) /\ r \in Run /\ SameRun(proc[p], r) /\ r.pc = "restart"
      BY <1>1, <1>7, <2>1 DEF EnsureLayout, Becomes, Run, SameRun
    <3>2. proc[p].op \in OpsAt("restart")
      BY <2>1 DEF InOp, OpsAt
    <3> QED BY <3>1, <3>2, BecomesStep
  <2>2. CASE ~InOp(p, {"setup"})
    <3>1. proc[p].op \in OpsAt("up")
      BY <1>1, <1>7, <2>2 DEF EnsureLayout, At, OpsAt, InOp
    <3> QED BY <1>1, <1>7, <2>2, <3>1, GotoStep DEF EnsureLayout
  <2> QED BY <2>1, <2>2
<1>8. CASE ComposeUp(p)
  BY <1>1, <1>8, EndStep DEF ComposeUp
<1> QED BY <1>2, <1>3, <1>4, <1>5, <1>6, <1>7, <1>8 DEF EnvStep

LEMMA CleanSteps ==
  ASSUME ProcOK, registered \subseteq Worktree, NEW p \in Proc, CleanStep(p)
  PROVE  StepOf(p)
<1>1. /\ proc[p] \in Run /\ proc[p].op \in OpsAt(proc[p].pc)
      /\ {"notRegistered", "filesRemain", "gitStale", "rootsRemain", "volumesRemain", "ok"} \subseteq Outcomes
      /\ {"docker", "volumes", "files", "roots", "check", "gcNext", "list"} \subseteq PCs
  BY DEF ProcOK, Placed, Outcomes, PCs
<1>2. CASE CleanTarget(p)
  BY <1>1, <1>2, GotoStep, EndStep DEF CleanTarget, Cleaning, InOp, OpsAt
<1>3. CASE CleanContainers(p) \/ CleanVolumes(p)
  BY <1>1, <1>3, GotoStep DEF CleanContainers, CleanVolumes, At, OpsAt
<1>4. CASE CleanFiles(p)
  BY <1>1, <1>4, GotoStep, EndStep DEF CleanFiles, At, OpsAt
<1>5. CASE CleanDataRoots(p)
  BY <1>1, <1>5, GotoStep, EndStep DEF CleanDataRoots, At, OpsAt
<1>6. CASE CleanCheck(p)
  BY <1>1, <1>6, GotoStep, EndStep DEF CleanCheck, At, OpsAt, InOp
<1>7. CASE GcScan(p)
  <2>1. PICK old \in SUBSET Worktree :
          proc' = [proc EXCEPT ![p].pc = "gcNext", ![p].todo = ((old \cap registered \cap dirs) \ envRunning) \ dirty]
    BY <1>7 DEF GcScan
  <2> DEFINE r == [proc[p] EXCEPT !.pc = "gcNext", !.todo = ((old \cap registered \cap dirs) \ envRunning) \ dirty]
  <2>2. Becomes(p, r) /\ r \in Run /\ SameRun(proc[p], r) /\ r.pc = "gcNext"
    BY <1>1, <2>1 DEF Becomes, Run, SameRun
  <2>3. proc[p].op \in OpsAt("gcNext")
    BY <1>1, <1>7 DEF GcScan, At, OpsAt
  <2> QED BY <2>2, <2>3, BecomesStep
<1>8. CASE GcNext(p)
  <2>1. CASE proc[p].todo = {}
    BY <1>1, <1>8, <2>1, EndStep DEF GcNext
  <2>2. CASE proc[p].todo # {}
    <3>1. PICK w \in proc[p].todo : proc' = [proc EXCEPT ![p].w = w, ![p].todo = @ \ {w}, ![p].pc = "list"]
      BY <1>8, <2>2 DEF GcNext
    <3> DEFINE r == [proc[p] EXCEPT !.w = w, !.todo = @ \ {w}, !.pc = "list"]
    <3>2. Becomes(p, r) /\ r \in Run /\ SameRun(proc[p], r) /\ r.pc = "list"
      BY <1>1, <3>1 DEF Becomes, Run, SameRun
    <3>3. proc[p].op \in OpsAt("list")
      BY <1>1, <1>8 DEF GcNext, At, OpsAt
    <3> QED BY <3>2, <3>3, BecomesStep
  <2> QED BY <2>1, <2>2
<1> QED BY <1>2, <1>3, <1>4, <1>5, <1>6, <1>7, <1>8 DEF CleanStep

LEMMA BaseSteps ==
  ASSUME ProcOK, SourcesOK, NEW p \in Proc, BaseStep(p)
  PROVE  StepOf(p)
<1>1. /\ proc[p] \in Run /\ proc[p].op \in OpsAt(proc[p].pc) /\ {"error", "ok"} \subseteq Outcomes
      /\ {"empty", "fill"} \subseteq PCs /\ Absent \in Content /\ FromMain(mainVersion) \in Content
  BY ContentFacts DEF ProcOK, Placed, Outcomes, PCs, SourcesOK
<1>2. CASE EmptyBase(p)
  <2>1. CASE Btrfs
    <3> DEFINE r == [proc[p] EXCEPT !.pc = "fill", !.seen = FromMain(mainVersion)]
    <3>1. Becomes(p, r) /\ r \in Run /\ SameRun(proc[p], r) /\ r.pc = "fill"
      BY <1>1, <1>2, <2>1 DEF EmptyBase, Becomes, Run, SameRun
    <3>2. proc[p].op \in OpsAt("fill")
      BY <1>1, <1>2 DEF EmptyBase, At, OpsAt
    <3> QED BY <3>1, <3>2, BecomesStep
  <2> QED BY <1>1, <1>2, <2>1, EndStep DEF EmptyBase
<1>3. CASE FillBase(p)
  <2>1. CASE proc[p].next = Len(Subdirs)
    BY <1>1, <1>3, <2>1, EndStep DEF FillBase
  <2>2. CASE proc[p].next # Len(Subdirs)
    <3> DEFINE r == [proc[p] EXCEPT !.pc = "empty", !.next = @ + 1, !.seen = Absent]
    <3>1. proc[p].next + 1 \in 1..Len(Subdirs)
      BY <1>1, <2>2, SubdirFacts DEF Run
    <3>2. Becomes(p, r) /\ r \in Run /\ SameRun(proc[p], r) /\ r.pc = "empty"
      BY <1>1, <1>3, <2>2, <3>1 DEF FillBase, Becomes, Run, SameRun
    <3>3. proc[p].op \in OpsAt("empty")
      BY <1>1, <1>3 DEF FillBase, At, OpsAt
    <3> QED BY <3>2, <3>3, BecomesStep
  <2> QED BY <2>1, <2>2
<1> QED BY <1>2, <1>3 DEF BaseStep

(* A command that starts: its record is fresh.                              *)
FirstStep(op) ==
  CASE op = "setup" -> "preflight" [] op = "start" -> "enter" [] op = "clean" -> "list"
    [] op = "gc" -> "scan" [] op = "refresh" -> "empty"
Fresh(op, w, stop, restart) ==
  [Idle EXCEPT !.op = op, !.w = w, !.stop = stop, !.restart = restart, !.pc = FirstStep(op)]

Begun(r, op, w) ==
  /\ r \in Run /\ r.pc = FirstStep(op) /\ r.op = op /\ r.w = w
  /\ r.seen = Absent /\ r.outcome = "none" /\ r.stopped = FALSE /\ r.next = 1
  /\ op \in OpsAt(FirstStep(op)) /\ FirstStep(op) # "idle"

LEMMA FreshOK ==
  \A op \in Ops, w \in Worktree : \A stop, restart \in BOOLEAN :
    LET r == Fresh(op, w, stop, restart) IN Begun(r, op, w) /\ r.stop = stop /\ r.restart = restart
<1> SUFFICES ASSUME NEW op \in Ops, NEW w \in Worktree, NEW stop \in BOOLEAN, NEW restart \in BOOLEAN
             PROVE  LET r == Fresh(op, w, stop, restart) IN Begun(r, op, w) /\ r.stop = stop /\ r.restart = restart
  OBVIOUS
<1>1. op \in OpNames
  BY ConstantsAssumption
<1>2. FirstStep(op) \in PCs /\ op \in OpsAt(FirstStep(op)) /\ FirstStep(op) # "idle"
  BY <1>1 DEF FirstStep, PCs, OpNames, OpsAt
<1>3. Idle.seen = Absent /\ Idle.outcome = "none" /\ Idle.stopped = FALSE /\ Idle.next = 1
  BY DEF Idle
<1> QED BY <1>1, <1>2, <1>3, IdleOK DEF Fresh, Run, Begun

LEMMA Launches ==
  ASSUME NEW p \in Proc, LaunchAny(p)
  PROVE  \E op \in Ops, w \in Worktree, h \in {<<FALSE, FALSE>>} \cup Handoffs :
           /\ Launch(p, op, w, h) /\ Becomes(p, Fresh(op, w, h[1], h[2]))
           /\ LET r == Fresh(op, w, h[1], h[2]) IN Begun(r, op, w) /\ r.stop = h[1] /\ r.restart = h[2]
<1>1. \E op \in Ops, w \in Worktree, h \in {<<FALSE, FALSE>>} \cup Handoffs : Launch(p, op, w, h)
  <2>1. Idle.w \in Worktree
    BY IdleOK DEF Run
  <2> QED BY <2>1 DEF LaunchAny
<1>2. \A op, w, h : Launch(p, op, w, h) => Becomes(p, Fresh(op, w, h[1], h[2]))
  BY DEF Launch, Becomes, Fresh, FirstStep
<1>3. \A h \in {<<FALSE, FALSE>>} \cup Handoffs : h[1] \in BOOLEAN /\ h[2] \in BOOLEAN
  <2>1. \A h \in BOOLEAN \X BOOLEAN : h[1] \in BOOLEAN /\ h[2] \in BOOLEAN
    OBVIOUS
  <2>2. \A h \in Handoffs : h \in BOOLEAN \X BOOLEAN
    BY ConstantsAssumption
  <2>3. <<FALSE, FALSE>> \in BOOLEAN \X BOOLEAN
    OBVIOUS
  <2> QED BY <2>1, <2>2, <2>3
<1>4. PICK op \in Ops, w \in Worktree, h \in {<<FALSE, FALSE>>} \cup Handoffs : Launch(p, op, w, h)
  BY <1>1
<1>5. h[1] \in BOOLEAN /\ h[2] \in BOOLEAN
  BY <1>3, <1>4
<1>6. LET r == Fresh(op, w, h[1], h[2]) IN Begun(r, op, w) /\ r.stop = h[1] /\ r.restart = h[2]
  BY <1>4, <1>5, FreshOK
<1>7. Becomes(p, Fresh(op, w, h[1], h[2]))
  BY <1>2, <1>4
<1> QED BY <1>4, <1>6, <1>7

LEMMA LaunchStep ==
  ASSUME ProcOK, NEW p \in Proc, LaunchAny(p)
  PROVE  /\ ProcOK' /\ Others(p)
         /\ \E op \in Ops, w \in Worktree, h \in {<<FALSE, FALSE>>} \cup Handoffs :
              Launch(p, op, w, h) /\ Begun(proc'[p], op, w) /\ proc'[p].stop = h[1] /\ proc'[p].restart = h[2]
<1>1. PICK op \in Ops, w \in Worktree, h \in {<<FALSE, FALSE>>} \cup Handoffs :
        /\ Launch(p, op, w, h) /\ Becomes(p, Fresh(op, w, h[1], h[2]))
        /\ LET r == Fresh(op, w, h[1], h[2]) IN Begun(r, op, w) /\ r.stop = h[1] /\ r.restart = h[2]
  BY Launches
<1> DEFINE r == Fresh(op, w, h[1], h[2])
<1>2. Launch(p, op, w, h) /\ Becomes(p, r) /\ Begun(r, op, w) /\ r.stop = h[1] /\ r.restart = h[2]
  BY <1>1
<1> HIDE DEF r
<1>3. r \in Run /\ r.op \in OpsAt(r.pc)
  BY <1>2 DEF Begun
<1>4. proc' \in [Proc -> Run] /\ proc'[p] = r /\ Others(p)
  BY <1>2, <1>3, BecomesFacts DEF ProcOK
<1>5. Placed'
  BY <1>3, <1>4 DEF ProcOK, Placed, Others
<1> QED BY <1>1, <1>2, <1>4, <1>5 DEF ProcOK

-----------------------------------------------------------------------------
(* Every step is of one command, or of nobody.                              *)
Steps(p) == SetupStep(p) \/ EnvStep(p) \/ CleanStep(p) \/ BaseStep(p) \/ Kill(p)

(* Each step of a command is the action of the step it is at, or a kill.      *)
LEMMA StepCases ==
  ASSUME NEW p \in Proc, Steps(p)
  PROVE  \/ Kill(p) /\ "crash" \in Faults
         \/ proc[p].pc = "preflight" /\ Preflight(p)
         \/ proc[p].pc = "stopMain" /\ StopMain(p)
         \/ proc[p].pc = "list" /\ ListWorktrees(p)
         \/ proc[p].pc = "target" /\ (ResolveTarget(p) \/ CleanTarget(p))
         \/ proc[p].pc = "add" /\ AddGitWorktree(p)
         \/ proc[p].pc = "restart" /\ RestartMain(p)
         \/ proc[p].pc = "enter" /\ EnterWorktree(p)
         \/ proc[p].pc = "env" /\ WorktreeEnvHasState(p)
         \/ proc[p].pc = "guard" /\ AssertSafeMainEnvClone(p)
         \/ proc[p].pc = "copy" /\ BeginCopy(p)
         \/ proc[p].pc = "copying" /\ EndCopy(p)
         \/ proc[p].pc = "layout" /\ EnsureLayout(p)
         \/ proc[p].pc = "up" /\ ComposeUp(p)
         \/ proc[p].pc = "docker" /\ CleanContainers(p)
         \/ proc[p].pc = "volumes" /\ CleanVolumes(p)
         \/ proc[p].pc = "files" /\ CleanFiles(p)
         \/ proc[p].pc = "roots" /\ CleanDataRoots(p)
         \/ proc[p].pc = "check" /\ CleanCheck(p)
         \/ proc[p].pc = "scan" /\ GcScan(p)
         \/ proc[p].pc = "gcNext" /\ GcNext(p)
         \/ proc[p].pc = "empty" /\ EmptyBase(p)
         \/ proc[p].pc = "fill" /\ FillBase(p)
<1>1. CASE SetupStep(p)
  BY <1>1 DEF SetupStep, Preflight, StopMain, ListWorktrees, ResolveTarget, AddGitWorktree, RestartMain, At
<1>2. CASE EnvStep(p)
  BY <1>2 DEF EnvStep, EnterWorktree, WorktreeEnvHasState, AssertSafeMainEnvClone, BeginCopy, EndCopy, EnsureLayout,
              ComposeUp, At
<1>3. CASE CleanStep(p)
  <2>1. /\ CleanTarget(p) => proc[p].pc = "target"
        /\ CleanContainers(p) => proc[p].pc = "docker"
        /\ CleanVolumes(p) => proc[p].pc = "volumes"
        /\ CleanFiles(p) => proc[p].pc = "files"
        /\ CleanDataRoots(p) => proc[p].pc = "roots"
        /\ CleanCheck(p) => proc[p].pc = "check"
        /\ GcScan(p) => proc[p].pc = "scan"
        /\ GcNext(p) => proc[p].pc = "gcNext"
    BY DEF CleanTarget, CleanContainers, CleanVolumes, CleanFiles, CleanDataRoots, CleanCheck, GcScan, GcNext, At
  <2> QED BY <1>3, <2>1 DEF CleanStep
<1>4. CASE BaseStep(p)
  BY <1>4 DEF BaseStep, EmptyBase, FillBase, At
<1> QED BY <1>1, <1>2, <1>3, <1>4 DEF Steps, Kill

LEMMA CommandSteps ==
  ASSUME ProcOK, SourcesOK, registered \subseteq Worktree, NEW p \in Proc, Steps(p)
  PROVE  StepOf(p)
<1>1. Kill(p) => StepOf(p)
  BY EndStep DEF Kill, Outcomes
<1> QED BY <1>1, SetupSteps, EnvSteps, CleanSteps, BaseSteps DEF Steps

LEMMA ProcStep ==
  ASSUME ProcOK, SourcesOK, registered \subseteq Worktree, [Next]_vars
  PROVE  /\ ProcOK'
         /\ \/ \E p \in Proc : LaunchAny(p) /\ Others(p)
            \/ \E p \in Proc : Steps(p) /\ StepOf(p)
            \/ (UserStep \/ UNCHANGED vars) /\ proc' = proc
<1>1. CASE \E p \in Proc : LaunchAny(p)
  BY <1>1, LaunchStep
<1>2. CASE \E p \in Proc : Steps(p)
  BY <1>2, CommandSteps DEF StepOf
<1>3. CASE UserStep \/ UNCHANGED vars
  <2>1. proc' = proc
    BY <1>3 DEF UserStep, MainWrites, UserStartsMain, UserStopsMain, UserStopsEnv, UserEdits, vars
  <2> QED BY <1>3, <2>1 DEF ProcOK, Placed
<1> QED BY <1>1, <1>2, <1>3 DEF Next, Steps

-----------------------------------------------------------------------------
(* The types of the variables other than the commands, and what they lean on. *)
Basics ==
  /\ SourcesOK /\ mainRunning \in BOOLEAN
  /\ registered \subseteq Worktree /\ dirs \subseteq Worktree /\ dirty \subseteq Worktree
  /\ envRunning \subseteq Worktree /\ launches \in 0..MaxLaunches

LEMMA WOK == ASSUME ProcOK, NEW p \in Proc PROVE W(p) \in Worktree /\ proc[p].seen \in Content
  BY DEF ProcOK, Run, W

LEMMA BasicsStep ==
  ASSUME ProcOK, Basics, [Next]_vars
  PROVE  Basics'
<1> USE DEF Basics, SourcesOK, main, tree, rest, runtime
<1>1. ASSUME NEW p \in Proc, LaunchAny(p) PROVE Basics'
  <2>1. PICK op \in Ops, w \in Worktree, h \in {<<FALSE, FALSE>>} \cup Handoffs : Launch(p, op, w, h)
    BY <1>1, Launches
  <2>2. launches' \in 0..MaxLaunches
    BY <2>1, ConstantsAssumption DEF Launch
  <2> QED BY <2>1, <2>2 DEF Launch
<1>2. ASSUME NEW p \in Proc, SetupStep(p) PROVE Basics'
  <2>1. W(p) \in Worktree
    BY WOK
  <2> QED BY <1>2, <2>1 DEF SetupStep, Preflight, StopMain, ListWorktrees, ResolveTarget, AddGitWorktree, RestartMain,
                            Fallible
<1>3. ASSUME NEW p \in Proc, EnvStep(p) PROVE Basics'
  <2>1. W(p) \in Worktree /\ Within(W(p), Current(p)) \subseteq Worktree
    BY WOK DEF Within
  <2> QED BY <1>3, <2>1 DEF EnvStep, EnterWorktree, WorktreeEnvHasState, AssertSafeMainEnvClone, BeginCopy, EndCopy,
                            EnsureLayout, ComposeUp
<1>4. ASSUME NEW p \in Proc, CleanStep(p) PROVE Basics'
  <2>1. CASE CleanFiles(p)
    BY <2>1 DEF CleanFiles, RemoveDir, Prune
  <2> QED BY <1>4, <2>1 DEF CleanStep, CleanTarget, CleanContainers, CleanVolumes, CleanDataRoots, CleanCheck,
                            GcScan, GcNext
<1>5. ASSUME NEW p \in Proc, BaseStep(p) PROVE Basics'
  <2>1. proc[p].seen \in Content /\ Torn \in Content
    BY WOK, ContentFacts
  <2> QED BY <1>5, <2>1 DEF BaseStep, EmptyBase, FillBase
<1>6. ASSUME NEW p \in Proc, Kill(p) PROVE Basics'
  BY <1>6 DEF Kill
<1>7. CASE UserStep
  <2>1. CASE MainWrites
    <3>1. mainVersion' \in 0..MaxVersion
      BY <2>1, ConstantsAssumption DEF MainWrites
    <3> QED BY <2>1, <3>1 DEF MainWrites
  <2> QED BY <1>7, <2>1 DEF UserStep, UserStartsMain, UserStopsMain, UserStopsEnv, UserEdits
<1>8. CASE UNCHANGED vars
  BY <1>8 DEF vars
<1> QED BY <1>1, <1>2, <1>3, <1>4, <1>5, <1>6, <1>7, <1>8 DEF Next

-----------------------------------------------------------------------------
(* The setups that may still add a worktree: each launch adds at most once,   *)
(* which is why a worktree's incarnation number stays within the launches.    *)
AddingPCs == {"preflight", "stopMain", "list", "target", "add"}
Adding == {p \in Proc : proc[p].op = "setup" /\ proc[p].pc \in AddingPCs}
Counted ==
  /\ gen \in [Worktree -> Nat] /\ IsFiniteSet(Adding)
  /\ \A w \in Worktree : gen[w] + Cardinality(Adding) \leq launches

LEMMA ListFacts ==
  ASSUME ProcOK, NEW p \in Proc, ListWorktrees(p)
  PROVE  /\ proc'[p].pc = "target" /\ proc'[p].known = (W(p) \in registered)
         /\ proc'[p].w = W(p) /\ proc'[p].seen = proc[p].seen /\ proc'[p].outcome = proc[p].outcome
         /\ proc'[p].stopped = proc[p].stopped /\ proc'[p].tried = proc[p].tried
<1>1. (W(p) \in registered) \in BOOLEAN
  OBVIOUS
<1>2. proc'[p] = [proc[p] EXCEPT !.known = (W(p) \in registered), !.pc = "target"] /\ proc[p] \in Run
  BY DEF ListWorktrees, ProcOK
<1> QED BY <1>1, <1>2 DEF Run, W

LEMMA GcNextFacts ==
  ASSUME ProcOK, NEW p \in Proc, GcNext(p)
  PROVE  \/ proc[p].todo = {} /\ End(p, "ok")
         \/ \E w \in proc[p].todo :
              /\ proc'[p].w = w /\ proc'[p].todo = proc[p].todo \ {w} /\ proc'[p].pc = "list"
              /\ proc'[p].seen = proc[p].seen /\ proc'[p].outcome = proc[p].outcome
              /\ proc'[p].stopped = proc[p].stopped /\ proc'[p].tried = proc[p].tried
<1>1. CASE proc[p].todo # {}
  <2>1. PICK w \in proc[p].todo : proc' = [proc EXCEPT ![p].w = w, ![p].todo = @ \ {w}, ![p].pc = "list"]
    BY <1>1 DEF GcNext
  <2>2. proc'[p] = [proc[p] EXCEPT !.w = w, !.todo = @ \ {w}, !.pc = "list"] /\ proc[p] \in Run
    BY <2>1 DEF ProcOK
  <2>3. /\ proc'[p].w = w /\ proc'[p].todo = proc[p].todo \ {w} /\ proc'[p].pc = "list"
        /\ proc'[p].seen = proc[p].seen /\ proc'[p].outcome = proc[p].outcome
        /\ proc'[p].stopped = proc[p].stopped /\ proc'[p].tried = proc[p].tried
    BY <2>2 DEF Run
  <2> QED BY <2>1, <2>3
<1> QED BY <1>1 DEF GcNext

(* The control flow of a command: the steps that may follow each step.        *)
After(pc) ==
  CASE pc = "preflight" -> {"list", "stopMain"} [] pc = "stopMain" -> {"list"} [] pc = "list" -> {"target"}
    [] pc = "target" -> {"add", "env", "docker"} [] pc \in {"add", "enter"} -> {"env"}
    [] pc = "env" -> {"layout", "guard"}
    [] pc = "guard" -> {"copy", "restart"} [] pc = "copy" -> {"layout", "copy", "copying"}
    [] pc = "copying" -> {"layout", "copy", "restart"} [] pc = "layout" -> {"restart", "up"}
    [] pc = "docker" -> {"volumes"} [] pc = "volumes" -> {"files"} [] pc = "files" -> {"roots"}
    [] pc = "roots" -> {"check"}
    [] pc \in {"check", "scan"} -> {"gcNext"} [] pc = "gcNext" -> {"list"}
    [] pc = "empty" -> {"fill"} [] pc = "fill" -> {"empty"} [] OTHER -> {}

LEMMA FlowStep ==
  ASSUME ProcOK, NEW p \in Proc, Steps(p)
  PROVE  proc'[p].pc \in After(proc[p].pc) \cup {"idle"}
<1>1. proc[p] \in Run /\ proc \in [Proc -> Run] /\ AfterCopy(p) \in {"layout", "copy"}
  BY DEF ProcOK, AfterCopy
<1>2. (\A pc : Goto(p, pc) => proc'[p].pc = pc) /\ (\A why : End(p, why) => proc'[p].pc = "idle")
  BY <1>1 DEF Goto, End, Ended, Run
<1>3. EnvFails(p) => proc'[p].pc \in {"restart", "idle"}
  BY <1>1, <1>2 DEF EnvFails, Run
<1>4. CASE SetupStep(p)
  <2>1. CASE StopMain(p)
    <3>1. [proc[p] EXCEPT !.pc = "list", !.stopped = TRUE].pc = "list"
      BY <1>1 DEF Run
    <3> QED BY <1>1, <1>2, <2>1, <3>1 DEF StopMain, At, After
  <2>3. CASE ListWorktrees(p)
    <3>1. proc'[p].pc = "target"
      BY <2>3, ListFacts
    <3> QED BY <2>3, <3>1 DEF ListWorktrees, At, After
  <2>2. CASE RestartMain(p)
    <3>1. [Ended(proc[p], proc[p].outcome) EXCEPT !.tried = TRUE].pc = "idle"
      BY <1>1 DEF Ended, Run
    <3> QED BY <1>1, <1>2, <2>2, <3>1 DEF RestartMain
  <2> QED BY <1>2, <1>4, <2>1, <2>2, <2>3 DEF SetupStep, Preflight, ResolveTarget, AddGitWorktree, At, After
<1>5. CASE EnvStep(p)
  <2>1. CASE WorktreeEnvHasState(p) \/ EnsureLayout(p)
    BY <1>1, <1>2, <2>1 DEF WorktreeEnvHasState, EnsureLayout, Goto, At, After, Run
  <2>2. CASE BeginCopy(p)
    BY <1>1, <2>2 DEF BeginCopy, At, After, Run
  <2>3. CASE EndCopy(p)
    BY <1>1, <1>3, <2>3 DEF EndCopy, At, After, Run
  <2> QED BY <1>2, <1>3, <1>5, <2>1, <2>2, <2>3 DEF EnvStep, EnterWorktree, AssertSafeMainEnvClone, ComposeUp, At, After
<1>6. CASE CleanStep(p)
  <2>1. CASE GcScan(p)
    BY <1>1, <2>1 DEF GcScan, At, After, Run
  <2>2. CASE GcNext(p)
    BY <1>2, <2>2, GcNextFacts DEF GcNext, At, After
  <2> QED BY <1>2, <1>6, <2>1, <2>2 DEF CleanStep, CleanTarget, CleanContainers, CleanVolumes, CleanFiles,
         CleanDataRoots,
                            CleanCheck, At, After
<1>7. CASE BaseStep(p)
  BY <1>1, <1>2, <1>7 DEF BaseStep, EmptyBase, FillBase, At, After, Run
<1> QED BY <1>2, <1>4, <1>5, <1>6, <1>7 DEF Steps, Kill

(* No step but a launch brings a setup back to where it may add a worktree.   *)
LEMMA AddingStep ==
  ASSUME ProcOK, SourcesOK, registered \subseteq Worktree, NEW p \in Proc, Steps(p)
  PROVE  Adding' \subseteq Adding /\ (At(p, "add") => Adding' \subseteq Adding \ {p})
<1>1. ProcOK' /\ Others(p) /\ SameRun(proc[p], proc'[p])
  BY CommandSteps DEF StepOf
<1>2. proc[p] \in Run /\ proc[p].op \in OpsAt(proc[p].pc) /\ proc \in [Proc -> Run]
  BY DEF ProcOK, Placed
<1>3. proc'[p].pc \in After(proc[p].pc) \cup {"idle"}
  BY FlowStep
<1>4. proc'[p].pc \in AddingPCs /\ proc[p].op = "setup" => proc[p].pc \in AddingPCs \ {"add"}
  BY <1>2, <1>3 DEF After, AddingPCs, PCs, OpsAt, Run
<1> QED BY <1>1, <1>4 DEF Others, SameRun, Adding, At

LEMMA CountedStep ==
  ASSUME ProcOK, Basics, Counted, [Next]_vars
  PROVE  Counted'
<1>0. SourcesOK /\ registered \subseteq Worktree /\ launches \in Nat /\ Basics' /\ Cardinality(Adding) \in Nat
  BY BasicsStep, FS_CardinalityType DEF Basics, Counted
<1>1. ASSUME NEW p \in Proc, LaunchAny(p) PROVE Counted'
  <2>1. Others(p) /\ launches' = launches + 1 /\ gen' = gen
    <3>1. \E op \in Ops, w \in Worktree, h \in {<<FALSE, FALSE>>} \cup Handoffs : Launch(p, op, w, h)
      BY <1>1, Launches
    <3> QED BY <1>1, <3>1, LaunchStep DEF Launch, tree
  <2>2. IsFiniteSet(Adding \cup {p}) /\ Cardinality(Adding \cup {p}) \in {Cardinality(Adding), Cardinality(Adding) + 1}
    BY FS_AddElement DEF Counted
  <2>3. Adding' \subseteq Adding \cup {p}
    BY <2>1 DEF Adding, Others
  <2>4. IsFiniteSet(Adding') /\ Cardinality(Adding') \leq Cardinality(Adding \cup {p})
    BY <2>2, <2>3, FS_Subset
  <2>5. Cardinality(Adding') \in Nat /\ Cardinality(Adding \cup {p}) \in Nat
    BY <2>2, <2>4, FS_CardinalityType
  <2> QED BY <1>0, <2>1, <2>2, <2>4, <2>5 DEF Counted
<1>2. ASSUME NEW p \in Proc, Steps(p) PROVE Counted'
  <2>1. Adding' \subseteq Adding /\ (At(p, "add") => Adding' \subseteq Adding \ {p})
    BY <1>0, <1>2, AddingStep
  <2>2. IsFiniteSet(Adding') /\ Cardinality(Adding') \leq Cardinality(Adding) /\ Cardinality(Adding') \in Nat
    BY <2>1, FS_Subset, FS_CardinalityType DEF Counted
  <2>3. CASE AddGitWorktree(p)
    <3>1. p \in Adding
      BY <2>3 DEF AddGitWorktree, At, Adding, AddingPCs, ProcOK, Placed, OpsAt
    <3>2. IsFiniteSet(Adding \ {p}) /\ Cardinality(Adding \ {p}) = Cardinality(Adding) - 1
      BY <3>1, FS_RemoveElement DEF Counted
    <3>3. Cardinality(Adding') \leq Cardinality(Adding \ {p})
      BY <2>1, <2>3, <3>2, FS_Subset DEF AddGitWorktree
    <3>4. launches' = launches /\ (gen' = gen \/ gen' = [gen EXCEPT ![W(p)] = @ + 1]) /\ W(p) \in Worktree
      BY <2>3, WOK DEF AddGitWorktree, tree, rest
    <3> QED BY <1>0, <2>2, <3>2, <3>3, <3>4 DEF Counted
  <2>4. CASE ~AddGitWorktree(p)
    <3>1. launches' = launches /\ gen' = gen
      BY <1>2, <2>4 DEF Steps, SetupStep, Preflight, StopMain, ListWorktrees, ResolveTarget, RestartMain,
           EnvStep, EnterWorktree, WorktreeEnvHasState, AssertSafeMainEnvClone, BeginCopy, EndCopy, EnsureLayout,
           ComposeUp,
           CleanStep, CleanTarget, CleanContainers, CleanVolumes, CleanFiles, CleanDataRoots, CleanCheck, GcScan,
           GcNext,
           BaseStep, EmptyBase, FillBase, Kill, tree, rest
    <3> QED BY <1>0, <2>2, <3>1 DEF Counted
  <2> QED BY <2>3, <2>4
<1>3. CASE (UserStep \/ UNCHANGED vars) /\ proc' = proc
  <2>1. Adding' = Adding
    BY <1>3 DEF Adding
  <2>2. launches' = launches /\ gen' = gen
    BY <1>3 DEF UserStep, MainWrites, UserStartsMain, UserStopsMain, UserStopsEnv, UserEdits, vars, tree, rest
  <2> QED BY <2>1, <2>2 DEF Counted
<1> QED BY <1>0, <1>1, <1>2, <1>3, ProcStep

-----------------------------------------------------------------------------
(* What a step may do to the data: only to the worktree of its command.       *)
DataOK == data \in [Worktree -> [Storage -> Content]] /\ gen \in [Worktree -> 0..MaxLaunches]

LEMMA WithoutFacts ==
  ASSUME DataOK, NEW w \in Worktree, NEW lost, data' = WithoutBinds(w, lost)
  PROVE  /\ data' \in [Worktree -> [Storage -> Content]]
         /\ \A u \in Worktree \ {w} : data'[u] = data[u]
         /\ \A s \in Storage : data'[w][s] = IF s \in lost \ Volumes THEN Absent ELSE data[w][s]
  BY ContentFacts DEF DataOK, WithoutBinds

OnlyOwnData(p) ==
  /\ data' \in [Worktree -> [Storage -> Content]]
  /\ \A u \in Worktree \ {W(p)} : data'[u] = data[u]
  /\ \A s \in Storage :
       data'[W(p)][s] \in {data[W(p)][s], Absent, Empty, Torn, proc[p].seen, Own(gen[W(p)])}

LEMMA DataStep ==
  ASSUME ProcOK, SourcesOK, DataOK, NEW p \in Proc, Steps(p)
  PROVE  OnlyOwnData(p)
<1>1. W(p) \in Worktree /\ proc[p].seen \in Content /\ Current(p) \in Storage /\ Own(gen[W(p)]) \in Content
      /\ Absent \in Content /\ Empty \in Content /\ Torn \in Content
  BY WOK, IndexOK, ContentFacts DEF DataOK
<1>2. CASE data' = data
  BY <1>1, <1>2 DEF DataOK, OnlyOwnData
<1>3. CASE BeginCopy(p)
  <2>1. CASE data' = [data EXCEPT ![W(p)][Current(p)] = Torn]
    BY <1>1, <2>1 DEF DataOK, OnlyOwnData
  <2> QED BY <1>2, <1>3, <2>1 DEF BeginCopy
<1>4. CASE EndCopy(p)
  <2>1. \A c \in {proc[p].seen, Torn} : data' = [data EXCEPT ![W(p)][Current(p)] = c] => OnlyOwnData(p)
    BY <1>1 DEF DataOK, OnlyOwnData
  <2> QED BY <1>2, <1>4, <2>1 DEF EndCopy
<1>5. CASE EnsureLayout(p)
  BY <1>1, <1>5 DEF EnsureLayout, LaidOut, DataOK, OnlyOwnData
<1>6. CASE ComposeUp(p)
  <2>1. CASE data' = [data EXCEPT ![W(p)] = [s \in Storage |-> Own(gen[W(p)])]]
    BY <1>1, <2>1 DEF DataOK, OnlyOwnData
  <2> QED BY <1>2, <1>6, <2>1 DEF ComposeUp, runtime
<1>7. CASE CleanVolumes(p)
  <2>1. PICK removed : data' = [data EXCEPT ![W(p)] = [s \in Storage |-> IF s \in removed THEN Absent ELSE @[s]]]
    BY <1>7 DEF CleanVolumes
  <2> QED BY <1>1, <2>1 DEF DataOK, OnlyOwnData
<1>8. CASE CleanFiles(p) \/ CleanDataRoots(p)
  <2>1. ASSUME NEW lost, data' = WithoutBinds(W(p), lost) PROVE OnlyOwnData(p)
    BY <1>1, <2>1, WithoutFacts DEF OnlyOwnData
  <2> QED BY <1>2, <1>8, <2>1 DEF CleanFiles, RemoveDir, CleanDataRoots
<1> QED BY <1>2, <1>3, <1>4, <1>5, <1>6, <1>7, <1>8 DEF Steps, SetupStep, Preflight, StopMain, ListWorktrees,
        ResolveTarget, AddGitWorktree, RestartMain, EnvStep, EnterWorktree, WorktreeEnvHasState, AssertSafeMainEnvClone,
        CleanStep, CleanTarget, CleanContainers, CleanCheck, GcScan, GcNext, BaseStep, EmptyBase, FillBase, Kill,
        runtime

(* What a command has seen of its source is what the source held when it looked. *)
LEMMA SeenStep ==
  ASSUME ProcOK, NEW p \in Proc, Steps(p)
  PROVE  proc'[p].seen \in {proc[p].seen, Absent, Source(Current(p)), FromMain(mainVersion)}
<1>1. proc[p] \in Run /\ proc \in [Proc -> Run]
  BY DEF ProcOK
<1>2. /\ \A pc : Goto(p, pc) => proc'[p].seen = proc[p].seen
      /\ \A why : End(p, why) => proc'[p].seen = Absent
      /\ EnvFails(p) => proc'[p].seen = Absent
  BY <1>1 DEF Goto, End, Ended, EnvFails, Run
<1>3. CASE StopMain(p) \/ ListWorktrees(p)
  <2>1. CASE StopMain(p)
    BY <1>1, <1>2, <2>1 DEF StopMain, Run
  <2> QED BY <1>3, <2>1, ListFacts
<1>4. CASE RestartMain(p)
  BY <1>1, <1>2, <1>4 DEF RestartMain, Ended, Run
<1>5. CASE WorktreeEnvHasState(p) \/ EnsureLayout(p)
  BY <1>1, <1>2, <1>5 DEF WorktreeEnvHasState, EnsureLayout, Run
<1>6. CASE BeginCopy(p)
  BY <1>1, <1>6 DEF BeginCopy, Run
<1>7. CASE EndCopy(p)
  BY <1>1, <1>2, <1>7 DEF EndCopy, Run
<1>8. CASE GcScan(p)
  BY <1>1, <1>8 DEF GcScan, Run
<1>9. CASE GcNext(p)
  BY <1>2, <1>9, GcNextFacts
<1>10. CASE BaseStep(p)
  BY <1>1, <1>2, <1>10 DEF BaseStep, EmptyBase, FillBase, Run
<1> QED BY <1>2, <1>3, <1>4, <1>5, <1>6, <1>7, <1>8, <1>9, <1>10 DEF Steps, SetupStep, Preflight,
        ResolveTarget, AddGitWorktree, EnvStep, EnterWorktree, AssertSafeMainEnvClone, ComposeUp,
        CleanStep, CleanTarget, CleanContainers, CleanVolumes, CleanFiles, CleanDataRoots, CleanCheck, Kill

-----------------------------------------------------------------------------
(* The contents: every storage and every boot has one, and none is newer than main. *)
Old(c) == c.kind = "main" => c.v \leq mainVersion
Versions ==
  /\ \A s \in Storage : Old(base[s])
  /\ \A p \in Proc : Old(proc[p].seen)
  /\ \A w \in Worktree, s \in Storage : Old(data[w][s])
Boots ==
  /\ booted \in [Worktree -> SUBSET [Storage -> Content]]
  /\ \A w \in Worktree : booted[w] = {} \/ \E b \in [Storage -> Content] : booted[w] = {b}

TypeInv == ProcOK /\ Basics /\ Counted /\ DataOK /\ Versions /\ Boots

LEMMA OldFacts ==
  ASSUME SourcesOK
  PROVE  /\ Old(Absent) /\ Old(Empty) /\ Old(Torn) /\ Old(FromMain(mainVersion))
         /\ \A g : Old(Own(g))
  BY DEF SourcesOK, Old, Absent, Empty, Torn, FromMain, Own

(* The version of main only grows, and only while no command steps.           *)
LEMMA MainStep ==
  ASSUME ProcOK, Basics, [Next]_vars
  PROVE  /\ mainVersion' \geq mainVersion
         /\ \A p \in Proc : LaunchAny(p) \/ Steps(p) => mainVersion' = mainVersion
         /\ \A p \in Proc : LaunchAny(p) => UNCHANGED <<site, mainRunning, mainVersion, base, registered, dirs, gen,
                                                        dirty, data, envRunning, booted>>
<1>1. ASSUME NEW p \in Proc, LaunchAny(p)
      PROVE  UNCHANGED <<site, mainRunning, mainVersion, base, registered, dirs, gen, dirty, data, envRunning, booted>>
  <2>1. \E op \in Ops, w \in Worktree, h \in {<<FALSE, FALSE>>} \cup Handoffs : Launch(p, op, w, h)
    BY <1>1, Launches
  <2> QED BY <2>1 DEF Launch, main, tree, runtime
<1>2. ASSUME NEW p \in Proc, Steps(p) PROVE mainVersion' = mainVersion
  BY <1>2 DEF Steps, SetupStep, Preflight, StopMain, ListWorktrees, ResolveTarget, AddGitWorktree, RestartMain,
       EnvStep, EnterWorktree, WorktreeEnvHasState, AssertSafeMainEnvClone, BeginCopy, EndCopy, EnsureLayout, ComposeUp,
       CleanStep, CleanTarget, CleanContainers, CleanVolumes, CleanFiles, CleanDataRoots, CleanCheck, GcScan, GcNext,
       BaseStep, EmptyBase, FillBase, Kill, main
<1>3. mainVersion \in Nat
  BY DEF Basics, SourcesOK
<1>4. (UserStep \/ UNCHANGED vars) => mainVersion' \in {mainVersion, mainVersion + 1}
  BY DEF UserStep, MainWrites, UserStartsMain, UserStopsMain, UserStopsEnv, UserEdits, vars, main
<1>5. mainVersion' \in {mainVersion, mainVersion + 1}
  BY <1>1, <1>2, <1>4 DEF Next, Steps
<1> QED BY <1>1, <1>2, <1>3, <1>5

LEMMA DataOKStep ==
  ASSUME ProcOK, Basics, Counted, DataOK, [Next]_vars
  PROVE  DataOK'
<1>1. gen' \in [Worktree -> 0..MaxLaunches]
  <2>1. Counted' /\ Basics'
    BY CountedStep, BasicsStep
  <2>2. Cardinality(Adding') \in Nat /\ launches' \in 0..MaxLaunches
    BY <2>1, FS_CardinalityType DEF Counted, Basics
  <2> QED BY <2>1, <2>2, ConstantsAssumption DEF Counted
<1>2. CASE \E p \in Proc : Steps(p)
  BY <1>1, <1>2, DataStep DEF OnlyOwnData, DataOK, Basics
<1>3. CASE \E p \in Proc : LaunchAny(p)
  BY <1>1, <1>3, MainStep DEF DataOK
<1>4. CASE UserStep \/ UNCHANGED vars
  BY <1>1, <1>4 DEF DataOK, UserStep, MainWrites, UserStartsMain, UserStopsMain, UserStopsEnv, UserEdits, vars, runtime
<1> QED BY <1>2, <1>3, <1>4, ProcStep DEF Basics

LEMMA VersionsStep ==
  ASSUME ProcOK, Basics, DataOK, Versions, [Next]_vars
  PROVE  Versions'
<1>0. /\ SourcesOK /\ SourcesOK' /\ mainVersion \in Nat /\ mainVersion' \in Nat /\ mainVersion \leq mainVersion'
      /\ \A c \in Content : Old(c) => Old(c)'
  <2>1. Basics'
    BY BasicsStep
  <2>2. mainVersion \in Nat /\ mainVersion' \in Nat /\ mainVersion \leq mainVersion'
    BY <2>1, MainStep DEF Basics, SourcesOK
  <2> QED BY <2>1, <2>2 DEF Basics, Old, Content
<1>1. ASSUME NEW p \in Proc, LaunchAny(p) PROVE Versions'
  <2>1. Others(p) /\ proc'[p].seen = Absent
    BY <1>1, LaunchStep DEF Begun
  <2>2. mainVersion' = mainVersion /\ base' = base /\ data' = data
    BY <1>1, MainStep
  <2> QED BY <1>0, <2>1, <2>2, OldFacts DEF Versions, Others, Old
<1>2. ASSUME NEW p \in Proc, Steps(p) PROVE Versions'
  <2>1. Others(p) /\ OnlyOwnData(p) /\ mainVersion' = mainVersion /\ Current(p) \in Storage /\ W(p) \in Worktree
    BY <1>0, <1>2, CommandSteps, DataStep, MainStep, IndexOK, WOK DEF StepOf, Basics
  <2>2. Old(Absent) /\ Old(Empty) /\ Old(Torn) /\ Old(FromMain(mainVersion)) /\ \A g : Old(Own(g))
    BY <1>0, OldFacts
  <2>3. Old(Source(Current(p)))
    BY <2>1, <2>2 DEF Source, Versions
  <2>4. Old(proc'[p].seen)
    BY <1>2, <2>2, <2>3, SeenStep DEF Versions
  <2>5. \A s \in Storage : Old(base'[s])
    <3>1. CASE base' = base
      BY <3>1 DEF Versions
    <3>2. CASE \E c \in {Torn, proc[p].seen} : base' = [base EXCEPT ![Current(p)] = c]
      BY <1>0, <2>1, <2>2, <3>2 DEF Versions, SourcesOK
    <3>3. CASE BaseStep(p)
      BY <3>1, <3>2, <3>3 DEF BaseStep, EmptyBase, FillBase
    <3> QED BY <1>2, <3>1, <3>3 DEF Steps, SetupStep, Preflight, StopMain, ListWorktrees, ResolveTarget, AddGitWorktree,
       RestartMain, EnvStep, EnterWorktree, WorktreeEnvHasState, AssertSafeMainEnvClone, BeginCopy, EndCopy,
       EnsureLayout, ComposeUp, CleanStep, CleanTarget, CleanContainers, CleanVolumes, CleanFiles, CleanDataRoots,
       CleanCheck, GcScan, GcNext, Kill, main
  <2>6. \A w \in Worktree, s \in Storage : Old(data'[w][s])
    <3>1. \A s \in Storage : Old(data'[W(p)][s])
      BY <2>1, <2>2 DEF OnlyOwnData, Versions
    <3>2. \A w \in Worktree \ {W(p)}, s \in Storage : Old(data'[w][s])
      BY <2>1 DEF OnlyOwnData, Versions
    <3> QED BY <3>1, <3>2
  <2>7. \A q \in Proc : Old(proc'[q].seen)
    BY <2>1, <2>4 DEF Others, Versions
  <2> QED BY <2>1, <2>5, <2>6, <2>7 DEF Versions, Old
<1>3. CASE (UserStep \/ UNCHANGED vars) /\ proc' = proc
  <2>1. base' = base /\ data' = data /\ proc' = proc
    BY <1>3 DEF UserStep, MainWrites, UserStartsMain, UserStopsMain, UserStopsEnv, UserEdits, vars, main, runtime
  <2>2. /\ \A s \in Storage : base[s] \in Content
        /\ \A p \in Proc : proc[p].seen \in Content
        /\ \A w \in Worktree, s \in Storage : data[w][s] \in Content
    BY <1>0, WOK DEF SourcesOK, DataOK
  <2> QED BY <1>0, <2>1, <2>2 DEF Versions
<1> QED BY <1>0, <1>1, <1>2, <1>3, ProcStep DEF Basics

LEMMA BootsStep ==
  ASSUME ProcOK, Basics, DataOK, Boots, [Next]_vars
  PROVE  Boots'
<1>1. CASE booted' = booted
  BY <1>1 DEF Boots
<1>2. ASSUME NEW p \in Proc, AddGitWorktree(p) PROVE Boots'
  <2>1. CASE booted' = [booted EXCEPT ![W(p)] = {}]
    BY <2>1 DEF Boots
  <2> QED BY <1>1, <1>2, <2>1 DEF AddGitWorktree
<1>3. ASSUME NEW p \in Proc, ComposeUp(p) PROVE Boots'
  <2>1. data[W(p)] \in [Storage -> Content] /\ W(p) \in Worktree
    BY WOK DEF DataOK
  <2>2. CASE booted' = [booted EXCEPT ![W(p)] = IF @ = {} THEN {data[W(p)]} ELSE @]
    BY <2>1, <2>2 DEF Boots
  <2> QED BY <1>1, <1>3, <2>2 DEF ComposeUp, runtime
<1>4. ASSUME NEW p \in Proc, LaunchAny(p) PROVE Boots'
  BY <1>1, <1>4, MainStep
<1> QED BY <1>1, <1>2, <1>3, <1>4 DEF Next, UserStep, SetupStep, Preflight, StopMain, ListWorktrees, ResolveTarget,
       RestartMain, EnvStep, EnterWorktree, WorktreeEnvHasState, AssertSafeMainEnvClone, BeginCopy, EndCopy,
       EnsureLayout, CleanStep, CleanTarget, CleanContainers, CleanVolumes, CleanFiles, CleanDataRoots,
       CleanCheck, GcScan, GcNext, BaseStep, EmptyBase, FillBase, Kill, MainWrites, UserStartsMain, UserStopsMain,
       UserStopsEnv, UserEdits, vars, runtime

LEMMA TypeInvInit == Init => TypeInv
<1> SUFFICES ASSUME Init PROVE TypeInv
  OBVIOUS
<1>1. ProcOK
  <2>1. OpsAt("idle") = OpNames \cup {"none"}
    BY DEF OpsAt
  <2> QED BY <2>1, IdleOK DEF Init, ProcOK, Placed, Run
<1>2. /\ Absent \in Content /\ FromMain(0) \in Content /\ Old(Absent) /\ Old(FromMain(0))
      /\ 0 \in 0..MaxLaunches /\ 0 \in 0..MaxVersion
  BY ContentFacts, ConstantsAssumption DEF Init, Old, FromMain, Absent
<1>3. Basics
  BY <1>2 DEF Init, Basics, SourcesOK
<1>4. Counted
  <2>1. Adding = {}
    BY IdleOK DEF Init, Adding, AddingPCs
  <2> QED BY <2>1, FS_EmptySet DEF Init, Counted
<1>5. DataOK /\ Boots
  BY <1>2 DEF Init, DataOK, Boots
<1>6. Versions
  <2>1. Idle.seen = Absent
    BY DEF Idle
  <2> QED BY <1>2, <2>1 DEF Init, Versions
<1> QED BY <1>1, <1>3, <1>4, <1>5, <1>6 DEF TypeInv

LEMMA TypeInvStep == TypeInv /\ [Next]_vars => TypeInv'
  BY ProcStep, BasicsStep, CountedStep, DataOKStep, VersionsStep, BootsStep DEF TypeInv, Basics

LEMMA TypeInvTypeOK == TypeInv => TypeOK
<1> SUFFICES ASSUME TypeInv PROVE TypeOK
  OBVIOUS
<1>1. \A w \in Worktree : booted[w] \subseteq [Storage -> Content] /\ Cardinality(booted[w]) \leq 1
  <2>1. Cardinality({}) = 0 /\ \A b \in [Storage -> Content] : Cardinality({b}) = 1
    BY FS_EmptySet, FS_Singleton
  <2> QED BY <2>1 DEF TypeInv, Boots
<1>2. \A w \in Worktree, s \in Storage : data[w][s].kind = "main" => data[w][s].v \leq mainVersion
  BY DEF TypeInv, Versions, Old
<1> QED BY <1>1, <1>2 DEF TypeOK, TypeInv, ProcOK, Basics, SourcesOK, DataOK, Run

LEMMA TypeInvariant == Spec => []TypeInv
<1> QED BY TypeInvInit, TypeInvStep, PTL DEF Spec

(* Every variable keeps its type, and a storage never holds a version that main has   *)
(* not written, for any number of commands, worktrees, storages and machines, with    *)
(* every failure and every kill; incarnations stay within the number of launches.     *)
THEOREM TypeCorrect == Spec => []TypeOK
  BY TypeInvariant, TypeInvTypeOK, PTL

-----------------------------------------------------------------------------
(* A command has no outcome before its last steps.                            *)
Pending == \A p \in Proc : proc[p].pc \notin {"idle", "restart"} => proc[p].outcome = "none"

(* How a command ends: by End, except a setup that tried to restart main, and  *)
(* a setup reports success, or a failed preparation, only from its finally block. *)
EndsWell(p) ==
  /\ proc'[p].pc \in {"idle", "restart"} \/ proc'[p].outcome = proc[p].outcome
  /\ proc'[p].pc = "idle" /\ proc[p].op = "setup" /\ proc'[p].outcome \in {"ok", "envError"} =>
       /\ At(p, "restart") /\ proc'[p].stopped = proc[p].stopped
       /\ proc[p].stopped /\ proc[p].restart => proc'[p].tried
  /\ At(p, "restart") => proc'[p].pc = "idle"

LEMMA EndsStep ==
  ASSUME ProcOK, NEW p \in Proc, Steps(p)
  PROVE  EndsWell(p)
<1>1. /\ proc[p] \in Run /\ proc \in [Proc -> Run] /\ proc[p].op \in OpsAt(proc[p].pc)
      /\ AfterCopy(p) \in {"layout", "copy"}
  BY DEF ProcOK, Placed, AfterCopy
<1>2. /\ \A pc : Goto(p, pc) => proc'[p].pc = pc /\ proc'[p].outcome = proc[p].outcome
      /\ \A why : End(p, why) => proc'[p].pc = "idle" /\ proc'[p].outcome = why /\ proc'[p].stopped = proc[p].stopped
  <2>1. \A pc : Goto(p, pc) => proc'[p].pc = pc /\ proc'[p].outcome = proc[p].outcome
    BY <1>1 DEF Goto, Run
  <2>2. \A why : End(p, why) => proc'[p] = Ended(proc[p], why)
    BY <1>1 DEF End
  <2>3. \A why : LET r == Ended(proc[p], why) IN r.pc = "idle" /\ r.outcome = why /\ r.stopped = proc[p].stopped
    BY <1>1 DEF Ended, Run
  <2> QED BY <2>1, <2>2, <2>3
<1>3. EnvFails(p) => \/ proc[p].op = "setup" /\ proc'[p].pc = "restart"
                     \/ proc[p].op # "setup" /\ proc'[p].pc = "idle"
  BY <1>1, <1>2 DEF EnvFails, InOp, Run
<1>4. CASE SetupStep(p)
  <2>1. CASE StopMain(p)
    <3>1. CASE proc' = [proc EXCEPT ![p].pc = "list", ![p].stopped = TRUE]
      <4>1. proc'[p].pc = "list" /\ proc'[p].outcome = proc[p].outcome
        BY <1>1, <3>1 DEF Run
      <4> QED BY <2>1, <4>1 DEF StopMain, At, EndsWell
    <3>2. CASE End(p, "error")
      BY <1>2, <2>1, <3>2 DEF StopMain, At, EndsWell
    <3> QED BY <2>1, <3>1, <3>2 DEF StopMain
  <2>2. CASE ListWorktrees(p)
    <3>1. proc'[p].pc = "target" /\ proc'[p].outcome = proc[p].outcome
      BY <2>2, ListFacts
    <3> QED BY <2>2, <3>1 DEF ListWorktrees, At, EndsWell
  <2>3. CASE RestartMain(p)
    <3>1. CASE proc[p].stopped /\ proc[p].restart
      <4>1. proc'[p] = [Ended(proc[p], proc[p].outcome) EXCEPT !.tried = TRUE]
        BY <1>1, <2>3, <3>1 DEF RestartMain
      <4>2. proc'[p].pc = "idle" /\ proc'[p].tried = TRUE /\ proc'[p].stopped = proc[p].stopped
        BY <1>1, <4>1 DEF Ended, Run
      <4> QED BY <2>3, <4>2 DEF RestartMain, At, EndsWell
    <3>2. CASE ~(proc[p].stopped /\ proc[p].restart)
      BY <1>2, <2>3, <3>2 DEF RestartMain, At, EndsWell
    <3> QED BY <3>1, <3>2
  <2> QED BY <1>2, <1>4, <2>1, <2>2, <2>3 DEF SetupStep, Preflight, ResolveTarget, AddGitWorktree, At, EndsWell
<1>5. CASE EnvStep(p)
  <2>1. CASE WorktreeEnvHasState(p)
    <3>1. proc'[p].pc \in {"layout", "guard"} /\ proc'[p].outcome = proc[p].outcome
      BY <1>1, <2>1 DEF WorktreeEnvHasState, Run
    <3> QED BY <2>1, <3>1 DEF WorktreeEnvHasState, At, EndsWell
  <2>2. CASE EnsureLayout(p)
    <3>1. proc'[p].pc = "restart" \/ (proc'[p].pc = "up" /\ proc'[p].outcome = proc[p].outcome)
      BY <1>1, <1>2, <2>2 DEF EnsureLayout, Run
    <3> QED BY <2>2, <3>1 DEF EnsureLayout, At, EndsWell
  <2>3. CASE BeginCopy(p)
    <3>1. proc'[p].pc \in {"layout", "copy", "copying"} /\ proc'[p].outcome = proc[p].outcome
      BY <1>1, <2>3 DEF BeginCopy, Run
    <3> QED BY <2>3, <3>1 DEF BeginCopy, At, EndsWell
  <2>4. CASE EndCopy(p)
    <3>1. EnvFails(p) \/ (proc'[p].pc \in {"layout", "copy"} /\ proc'[p].outcome = proc[p].outcome)
      BY <1>1, <2>4 DEF EndCopy, Run
    <3> QED BY <1>3, <2>4, <3>1 DEF EndCopy, At, EndsWell
  <2>5. CASE ComposeUp(p)
    BY <1>1, <1>2, <2>5 DEF ComposeUp, At, OpsAt, EndsWell
  <2> QED BY <1>2, <1>3, <1>5, <2>1, <2>2, <2>3, <2>4, <2>5
          DEF EnvStep, EnterWorktree, AssertSafeMainEnvClone, At, EndsWell
<1>6. CASE CleanStep(p)
  <2>1. CASE GcScan(p)
    <3>1. proc'[p].pc = "gcNext" /\ proc'[p].outcome = proc[p].outcome
      BY <1>1, <2>1 DEF GcScan, Run
    <3> QED BY <2>1, <3>1 DEF GcScan, At, EndsWell
  <2>2. CASE GcNext(p)
    <3>1. proc[p].op # "setup"
      BY <1>1, <2>2 DEF GcNext, At, OpsAt
    <3> QED BY <1>2, <2>2, <3>1, GcNextFacts DEF GcNext, At, EndsWell
  <2>3. CASE CleanCheck(p)
    BY <1>1, <1>2, <2>3 DEF CleanCheck, At, OpsAt, EndsWell
  <2> QED BY <1>2, <1>6, <2>1, <2>2, <2>3 DEF CleanStep, CleanTarget, CleanContainers, CleanVolumes, CleanFiles,
                            CleanDataRoots, At, EndsWell
<1>7. CASE BaseStep(p)
  <2>1. proc[p].op # "setup"
    BY <1>1, <1>7 DEF BaseStep, EmptyBase, FillBase, At, OpsAt
  <2>2. (\E why : End(p, why)) \/ proc'[p].outcome = proc[p].outcome
    BY <1>1, <1>7 DEF BaseStep, EmptyBase, FillBase, Run
  <2> QED BY <1>2, <1>7, <2>1, <2>2 DEF BaseStep, EmptyBase, FillBase, At, EndsWell
<1>8. CASE Kill(p)
  BY <1>2, <1>8 DEF Kill, EndsWell
<1> QED BY <1>4, <1>5, <1>6, <1>7, <1>8 DEF Steps

(* The inductive invariant of the handoff.                                   *)
HandoffInv == HandoffRestored /\ Pending

LEMMA HandoffStep ==
  ASSUME TypeInv, HandoffInv, [Next]_vars
  PROVE  HandoffInv'
<1>1. ASSUME NEW p \in Proc, LaunchAny(p) PROVE HandoffInv'
  <2>1. Others(p) /\ proc'[p].pc # "idle" /\ proc'[p].outcome = "none"
    BY <1>1, LaunchStep DEF Begun, TypeInv
  <2> QED BY <2>1 DEF HandoffInv, HandoffRestored, Pending, Others, At, InOp
<1>2. ASSUME NEW p \in Proc, Steps(p) PROVE HandoffInv'
  <2>1. Others(p) /\ SameRun(proc[p], proc'[p])
    BY <1>2, CommandSteps DEF TypeInv, Basics, StepOf
  <2>2. EndsWell(p)
    BY <1>2, EndsStep DEF TypeInv
  <2>3. proc[p].pc # "idle"
    BY <1>2, StepCases DEF Kill, At
  <2>4. HandoffRestored'
    BY <2>1, <2>2 DEF HandoffInv, HandoffRestored, Others, At, InOp, SameRun, EndsWell
  <2>5. Pending'
    BY <2>1, <2>2, <2>3 DEF HandoffInv, Pending, Others, At, EndsWell
  <2> QED BY <2>4, <2>5 DEF HandoffInv
<1>3. CASE proc' = proc
  BY <1>3 DEF HandoffInv, HandoffRestored, Pending, At, InOp
<1> QED BY <1>1, <1>2, <1>3, ProcStep DEF TypeInv, Basics

LEMMA HandoffInvariant == Spec => [](TypeInv /\ HandoffInv)
<1>1. Init => HandoffInv
  <2>1. Idle.pc = "idle" /\ Idle.stopped = FALSE
    BY DEF Idle
  <2> QED BY <2>1 DEF Init, HandoffInv, HandoffRestored, Pending, At
<1> QED BY <1>1, TypeInvInit, TypeInvStep, HandoffStep, PTL DEF Spec

(* A setup that stopped main for the clone and was asked to restart it has tried to    *)
(* when it ends, whether the preparation succeeded or failed, whatever ran meanwhile:   *)
(* the finally block at worktree-setup.ts:146 is the only way such a setup ends.        *)
THEOREM MainIsRestarted == Spec => []HandoffRestored
  BY HandoffInvariant, PTL DEF HandoffInv

-----------------------------------------------------------------------------
(* A step changes nothing of the worktrees of others, and no step of a command *)
(* registers a worktree, or numbers an incarnation, but AddGitWorktree.         *)
TreeStep(p) ==
  /\ \A u \in Worktree \ {W(p)} : (u \in dirs' <=> u \in dirs) /\ gen'[u] = gen[u] /\ booted'[u] = booted[u]
  /\ \A u \in Worktree : u \in registered' \ registered => u = W(p) /\ AddGitWorktree(p)
  /\ ~AddGitWorktree(p) => gen' = gen
  /\ ~CleanFiles(p) => dirs \subseteq dirs'
  /\ site' = site

LEMMA TreeSteps ==
  ASSUME ProcOK, Basics, DataOK, Boots, NEW p \in Proc, Steps(p)
  PROVE  TreeStep(p)
<1> USE DEF main, tree, rest, runtime
<1>1. W(p) \in Worktree
  BY WOK
<1>2. CASE UNCHANGED <<site, dirs, gen, booted, registered>>
  BY <1>2 DEF TreeStep
<1>3. CASE AddGitWorktree(p)
  BY <1>1, <1>3 DEF AddGitWorktree, TreeStep, DataOK, Boots, Basics
<1>4. CASE EnvStep(p)
  <2>1. CASE UNCHANGED <<site, gen, booted, registered>> /\ dirs' \in {dirs, dirs \cup {W(p)}}
    BY <2>1 DEF TreeStep
  <2>2. CASE ComposeUp(p)
    BY <1>1, <2>2 DEF ComposeUp, TreeStep, Boots
  <2>3. Within(W(p), Current(p)) \in {dirs, dirs \cup {W(p)}}
    BY DEF Within
  <2> QED BY <1>4, <2>1, <2>2, <2>3 DEF EnvStep, EnterWorktree, WorktreeEnvHasState, AssertSafeMainEnvClone,
                                        BeginCopy, EndCopy, EnsureLayout
<1>5. CASE CleanFiles(p)
  <2>1. dirs' \in {dirs, dirs \ {W(p)}} /\ registered' \subseteq registered /\ UNCHANGED <<site, gen, booted>>
    BY <1>5 DEF CleanFiles, RemoveDir, Prune
  <2> QED BY <1>5, <2>1 DEF TreeStep
<1> QED BY <1>2, <1>3, <1>4, <1>5 DEF Steps, SetupStep, Preflight, StopMain, ListWorktrees, ResolveTarget,
        RestartMain, CleanStep, CleanTarget, CleanContainers, CleanVolumes, CleanDataRoots, CleanCheck, GcScan,
        GcNext, BaseStep, EmptyBase, FillBase, Kill

LEMMA UserSteps ==
  ASSUME UserStep \/ UNCHANGED vars
  PROVE  /\ UNCHANGED <<site, base, registered, dirs, gen, data, booted>>
         /\ mainVersion' # mainVersion => mainRunning
         /\ mainRunning' /\ ~mainRunning => "startMain" \in UserActions
  BY DEF UserStep, MainWrites, UserStartsMain, UserStopsMain, UserStopsEnv, UserEdits, vars, main, tree, runtime, rest

-----------------------------------------------------------------------------
(* Without Btrfs the bind directories live inside the worktree: what they hold *)
(* cannot outlive it, and belongs to its present incarnation.                   *)
BindsWithin ==
  ~Btrfs => \A w \in Worktree, s \in Storage \ Volumes : data[w][s] # Absent => w \in dirs
OwnCurrent ==
  ~Btrfs => \A w \in Worktree, s \in Storage \ Volumes : data[w][s].kind = "own" => data[w][s].v = gen[w]
MainOnly ==
  (\A s \in Storage : base[s].kind # "own") /\ (\A p \in Proc : proc[p].seen.kind # "own")
FreshInv == BindsWithin /\ OwnCurrent /\ MainOnly

LEMMA BindsStep ==
  ASSUME TypeInv, BindsWithin, [Next]_vars
  PROVE  BindsWithin'
<1>1. CASE UNCHANGED <<data, dirs, site>>
  BY <1>1 DEF BindsWithin, Btrfs, Volumes
<1>2. ASSUME NEW p \in Proc, Steps(p) PROVE BindsWithin'
  <2>1. OnlyOwnData(p) /\ TreeStep(p) /\ W(p) \in Worktree /\ Current(p) \in Storage /\ DataOK
    BY <1>2, DataStep, TreeSteps, WOK, IndexOK DEF TypeInv, Basics
  <2>2. site' = site
    BY <2>1 DEF TreeStep
  <2>3. SUFFICES ASSUME ~Btrfs, NEW s \in Storage \ Volumes, data'[W(p)][s] # Absent PROVE W(p) \in dirs'
    BY <2>1, <2>2 DEF BindsWithin, Btrfs, Volumes, OnlyOwnData, TreeStep
  <2>4. CASE W(p) \in dirs'
    BY <2>4
  <2>5. CASE data'[W(p)][s] = data[W(p)][s] /\ ~CleanFiles(p)
    BY <2>1, <2>3, <2>5 DEF BindsWithin, TreeStep
  <2>6. CASE BeginCopy(p) \/ EndCopy(p)
    <3>1. CASE s = Current(p)
      <4>1. UNCHANGED <<data, dirs>> \/ dirs' = Within(W(p), s)
        BY <2>6, <3>1 DEF BeginCopy, EndCopy
      <4> QED BY <2>1, <2>3, <2>5, <2>6, <3>1, <4>1 DEF Within, BindsWithin
    <3>2. CASE s # Current(p)
      <4>1. \A c : data' = [data EXCEPT ![W(p)][Current(p)] = c] => data'[W(p)][s] = data[W(p)][s]
        BY <2>1, <3>2 DEF DataOK
      <4>2. dirs \subseteq dirs'
        BY <2>6 DEF BeginCopy, EndCopy, Within
      <4>3. data'[W(p)][s] = data[W(p)][s]
        BY <2>6, <4>1 DEF BeginCopy, EndCopy
      <4> QED BY <2>1, <2>3, <4>2, <4>3 DEF BindsWithin
    <3> QED BY <3>1, <3>2
  <2>7. CASE EnsureLayout(p)
    BY <2>7 DEF EnsureLayout
  <2>8. CASE ComposeUp(p)
    <3>1. UNCHANGED <<data, dirs>> \/ W(p) \in dirs'
      BY <2>8 DEF ComposeUp, runtime, tree
    <3> QED BY <2>1, <2>3, <3>1 DEF BindsWithin
  <2>9. CASE CleanVolumes(p)
    <3>1. PICK removed \in SUBSET Volumes :
            data' = [data EXCEPT ![W(p)] = [t \in Storage |-> IF t \in removed THEN Absent ELSE @[t]]]
      BY <2>9 DEF CleanVolumes
    <3>2. data'[W(p)][s] = data[W(p)][s]
      BY <2>1, <3>1 DEF DataOK
    <3> QED BY <2>1, <2>3, <3>2, <2>9 DEF BindsWithin, CleanVolumes, tree
  <2>10. CASE CleanFiles(p)
    <3>1. PICK removed \in BOOLEAN : RemoveDir(p, removed \/ W(p) \notin dirs)
      BY <2>10 DEF CleanFiles, Fallible
    <3>2. PICK lost : data' = WithoutBinds(W(p), lost) /\ (removed \/ W(p) \notin dirs => lost = Storage)
      BY <2>3, <3>1 DEF RemoveDir
    <3>3. data'[W(p)][s] = data[W(p)][s] /\ ~(removed \/ W(p) \notin dirs)
      BY <2>1, <2>3, <3>2, WithoutFacts
    <3>4. dirs' = dirs
      BY <3>1, <3>3 DEF RemoveDir
    <3> QED BY <2>3, <3>3, <3>4
  <2>11. CASE CleanDataRoots(p)
    BY <2>1, <2>3, <2>11 DEF CleanDataRoots, tree, BindsWithin
  <2>12. CASE UNCHANGED data /\ ~CleanFiles(p)
    BY <2>5, <2>12
  <2> QED BY <1>2, <2>6, <2>7, <2>8, <2>9, <2>10, <2>11, <2>12 DEF Steps, SetupStep, Preflight, StopMain, ListWorktrees,
          ResolveTarget, AddGitWorktree, RestartMain, EnvStep, EnterWorktree, WorktreeEnvHasState,
          AssertSafeMainEnvClone,
          CleanStep, CleanTarget, CleanContainers, CleanCheck, GcScan, GcNext, BaseStep, EmptyBase, FillBase, Kill,
          runtime
<1>3. ASSUME NEW p \in Proc, LaunchAny(p) PROVE BindsWithin'
  BY <1>1, <1>3, MainStep DEF TypeInv
<1>4. CASE UserStep \/ UNCHANGED vars
  BY <1>1, <1>4, UserSteps
<1> QED BY <1>2, <1>3, <1>4, ProcStep DEF TypeInv, Basics

LEMMA MainOnlyStep ==
  ASSUME TypeInv, MainOnly, [Next]_vars
  PROVE  MainOnly'
<1>0. Absent.kind # "own" /\ Torn.kind # "own" /\ \A v : FromMain(v).kind # "own"
  BY DEF Absent, Torn, FromMain
<1>1. ASSUME NEW p \in Proc, LaunchAny(p) PROVE MainOnly'
  <2>1. Others(p) /\ proc'[p].seen = Absent /\ base' = base
    BY <1>1, LaunchStep, MainStep DEF Begun, TypeInv
  <2> QED BY <1>0, <2>1 DEF MainOnly, Others
<1>2. ASSUME NEW p \in Proc, Steps(p) PROVE MainOnly'
  <2>1. Others(p) /\ Current(p) \in Storage /\ base \in [Storage -> Content]
    BY <1>2, CommandSteps, IndexOK DEF StepOf, TypeInv, Basics, SourcesOK
  <2>2. proc'[p].seen.kind # "own"
    <3>1. Source(Current(p)).kind # "own"
      BY <1>0, <2>1 DEF Source, MainOnly
    <3> QED BY <1>0, <1>2, <3>1, SeenStep DEF MainOnly, TypeInv
  <2>3. \A s \in Storage : base'[s].kind # "own"
    <3>1. base' = base \/ \E c \in {Torn, proc[p].seen} : base' = [base EXCEPT ![Current(p)] = c]
      BY <1>2 DEF Steps, SetupStep, Preflight, StopMain, ListWorktrees, ResolveTarget, AddGitWorktree,
         RestartMain, EnvStep, EnterWorktree, WorktreeEnvHasState, AssertSafeMainEnvClone, BeginCopy, EndCopy,
         EnsureLayout, ComposeUp, CleanStep, CleanTarget, CleanContainers, CleanVolumes, CleanFiles, CleanDataRoots,
         CleanCheck, GcScan, GcNext, BaseStep, EmptyBase, FillBase, Kill, main
    <3> QED BY <1>0, <2>1, <3>1 DEF MainOnly
  <2> QED BY <2>1, <2>2, <2>3 DEF MainOnly, Others
<1>3. CASE (UserStep \/ UNCHANGED vars) /\ proc' = proc
  BY <1>3, UserSteps DEF MainOnly
<1> QED BY <1>1, <1>2, <1>3, ProcStep DEF TypeInv, Basics

LEMMA OwnStep ==
  ASSUME TypeInv, FreshInv, [Next]_vars
  PROVE  OwnCurrent'
<1>0. Absent.kind # "own" /\ Empty.kind # "own" /\ Torn.kind # "own" /\ \A g : Own(g).v = g
  BY DEF Absent, Empty, Torn, Own
<1>1. CASE UNCHANGED <<data, gen, site>>
  BY <1>1 DEF FreshInv, OwnCurrent, Btrfs, Volumes
<1>2. ASSUME NEW p \in Proc, Steps(p) PROVE OwnCurrent'
  <2>1. OnlyOwnData(p) /\ TreeStep(p) /\ W(p) \in Worktree
    BY <1>2, DataStep, TreeSteps, WOK DEF TypeInv, Basics
  <2>2. site' = site
    BY <2>1 DEF TreeStep
  <2>3. SUFFICES ASSUME ~Btrfs, NEW s \in Storage \ Volumes, data'[W(p)][s].kind = "own"
                 PROVE  data'[W(p)][s].v = gen'[W(p)]
    BY <2>1, <2>2 DEF FreshInv, OwnCurrent, Btrfs, Volumes, OnlyOwnData, TreeStep
  <2>4. CASE AddGitWorktree(p)
    <3>1. data' = data /\ (W(p) \notin dirs \/ gen' = gen)
      BY <2>4 DEF AddGitWorktree, tree
    <3>2. W(p) \notin dirs => data[W(p)][s] = Absent
      BY <2>1, <2>3 DEF FreshInv, BindsWithin
    <3> QED BY <1>0, <2>1, <2>3, <3>1, <3>2 DEF FreshInv, OwnCurrent
  <2>5. CASE ~AddGitWorktree(p)
    <3>1. gen' = gen /\ data'[W(p)][s] \in {data[W(p)][s], Absent, Empty, Torn, proc[p].seen, Own(gen[W(p)])}
      BY <2>1, <2>5 DEF TreeStep, OnlyOwnData
    <3>2. proc[p].seen.kind # "own"
      BY DEF FreshInv, MainOnly
    <3> QED BY <1>0, <2>1, <2>3, <3>1, <3>2 DEF FreshInv, OwnCurrent
  <2> QED BY <2>4, <2>5
<1>3. ASSUME NEW p \in Proc, LaunchAny(p) PROVE OwnCurrent'
  BY <1>1, <1>3, MainStep DEF TypeInv
<1>4. CASE UserStep \/ UNCHANGED vars
  BY <1>1, <1>4, UserSteps
<1> QED BY <1>2, <1>3, <1>4, ProcStep DEF TypeInv, Basics

LEMMA FreshInvariant == Spec => [](TypeInv /\ FreshInv)
<1>1. Init => FreshInv
  <2>1. FromMain(0).kind # "own" /\ Idle.seen.kind # "own" /\ Absent.kind # "own"
    BY DEF FromMain, Idle, Absent
  <2> QED BY <2>1 DEF Init, FreshInv, BindsWithin, OwnCurrent, MainOnly
<1>2. TypeInv /\ FreshInv /\ [Next]_vars => FreshInv'
  BY BindsStep, OwnStep, MainOnlyStep DEF FreshInv
<1> QED BY <1>1, <1>2, TypeInvInit, TypeInvStep, PTL DEF Spec

-----------------------------------------------------------------------------
(* The dashboard's admission rule: at most one command works on a worktree.   *)
OneRun == OneRunPerWorktree /\ "gc" \notin Ops
Active(p) == proc[p].pc # "idle" /\ proc[p].op \notin {"gc", "refresh"}
Exclusive ==
  /\ \A p \in Proc : proc[p].op \in Ops \cup {"none"}
  /\ \A p, q \in Proc : p # q /\ Active(p) /\ Active(q) => W(p) # W(q)

LEMMA StepsActive ==
  ASSUME ProcOK, NEW p \in Proc, Steps(p)
  PROVE  proc[p].pc # "idle"
  BY StepCases DEF Kill, At

(* Only gc moves on to another worktree, and what git's list said is kept.    *)
LEMMA WhereStep ==
  ASSUME ProcOK, NEW p \in Proc, Steps(p)
  PROVE  /\ proc[p].op # "gc" => proc'[p].w = W(p)
         /\ proc'[p].pc = "idle" \/ ListWorktrees(p) \/ proc[p].op = "gc" \/ proc'[p].known = proc[p].known
<1>1. proc[p] \in Run /\ proc \in [Proc -> Run] /\ proc[p].op \in OpsAt(proc[p].pc)
  BY DEF ProcOK, Placed
<1> DEFINE Stays == proc'[p].w = proc[p].w /\ (proc'[p].pc = "idle" \/ proc'[p].known = proc[p].known)
<1>2. \A pc : Goto(p, pc) => Stays
  BY <1>1 DEF Goto, Run
<1>3. \A why : End(p, why) => Stays
  <2>1. \A why : End(p, why) => proc'[p] = Ended(proc[p], why)
    BY <1>1 DEF End
  <2>2. \A why : LET r == Ended(proc[p], why) IN r.w = proc[p].w /\ r.pc = "idle"
    BY <1>1 DEF Ended, Run
  <2> QED BY <2>1, <2>2
<1>4. EnvFails(p) => Stays
  <2>1. proc' = [proc EXCEPT ![p].pc = "restart", ![p].outcome = "envError", ![p].seen = Absent] => Stays
    BY <1>1 DEF Run
  <2> QED BY <1>3, <2>1 DEF EnvFails
<1>5. CASE StopMain(p)
  <2>1. proc' = [proc EXCEPT ![p].pc = "list", ![p].stopped = TRUE] => Stays
    BY <1>1 DEF Run
  <2> QED BY <1>3, <1>5, <2>1 DEF StopMain, W
<1>6. CASE ListWorktrees(p)
  BY <1>6, ListFacts DEF W
<1>7. CASE RestartMain(p)
  <2>1. proc' = [proc EXCEPT ![p] = [Ended(@, @.outcome) EXCEPT !.tried = TRUE]] => Stays
    BY <1>1 DEF Ended, Run
  <2> QED BY <1>3, <1>7, <2>1 DEF RestartMain, W
<1>8. CASE WorktreeEnvHasState(p)
  BY <1>1, <1>8 DEF WorktreeEnvHasState, W, Run
<1>9. CASE BeginCopy(p)
  BY <1>1, <1>9 DEF BeginCopy, W, Run
<1>10. CASE EndCopy(p)
  <2>1. proc' = [proc EXCEPT ![p].pc = AfterCopy(p), ![p].seen = Absent, ![p].next = NextIndex(p)] => Stays
    BY <1>1 DEF Run
  <2> QED BY <1>4, <1>10, <2>1 DEF EndCopy, W
<1>11. CASE EnsureLayout(p)
  <2>1. proc' = [proc EXCEPT ![p].pc = "restart", ![p].outcome = "ok"] => Stays
    BY <1>1 DEF Run
  <2> QED BY <1>2, <1>11, <2>1 DEF EnsureLayout, W
<1>12. CASE GcScan(p) \/ GcNext(p)
  <2>1. proc[p].op = "gc"
    BY <1>1, <1>12 DEF GcScan, GcNext, At, OpsAt
  <2> QED BY <2>1
<1>13. CASE BaseStep(p)
  <2>1. CASE EmptyBase(p)
    <3>1. proc' = [proc EXCEPT ![p].pc = "fill", ![p].seen = FromMain(mainVersion)] => Stays
      BY <1>1 DEF Run
    <3> QED BY <1>3, <2>1, <3>1 DEF EmptyBase, W
  <2>2. CASE FillBase(p)
    <3>1. proc' = [proc EXCEPT ![p].pc = "empty", ![p].next = @ + 1, ![p].seen = Absent] => Stays
      BY <1>1 DEF Run
    <3> QED BY <1>3, <2>2, <3>1 DEF FillBase, W
  <2> QED BY <1>13, <2>1, <2>2 DEF BaseStep
<1>14. (\E pc : Goto(p, pc)) \/ (\E why : End(p, why)) \/ EnvFails(p) => Stays
  BY <1>2, <1>3, <1>4
<1> HIDE DEF Stays
<1>15. CASE Preflight(p) \/ ResolveTarget(p) \/ AddGitWorktree(p) \/ EnterWorktree(p) \/ AssertSafeMainEnvClone(p)
            \/ ComposeUp(p) \/ CleanTarget(p) \/ CleanContainers(p) \/ CleanVolumes(p) \/ CleanFiles(p)
            \/ CleanDataRoots(p) \/ CleanCheck(p) \/ Kill(p)
  <2>1. Stays
    BY <1>14, <1>15 DEF Preflight, ResolveTarget, AddGitWorktree, EnterWorktree, AssertSafeMainEnvClone, ComposeUp,
          CleanTarget, CleanContainers, CleanVolumes, CleanFiles, CleanDataRoots, CleanCheck, Kill
  <2> QED BY <2>1 DEF Stays, W
<1> QED BY <1>5, <1>6, <1>7, <1>8, <1>9, <1>10, <1>11, <1>12, <1>13, <1>15 DEF Steps, SetupStep, EnvStep, CleanStep

LEMMA ExclusiveStep ==
  ASSUME OneRun, TypeInv, Exclusive, [Next]_vars
  PROVE  Exclusive'
<1>1. ASSUME NEW p \in Proc, LaunchAny(p) PROVE Exclusive'
  <2>1. PICK op \in Ops, w \in Worktree, h \in {<<FALSE, FALSE>>} \cup Handoffs :
          Launch(p, op, w, h) /\ Begun(proc'[p], op, w)
    BY <1>1, LaunchStep DEF TypeInv
  <2>2. Others(p)
    BY <1>1, LaunchStep DEF TypeInv
  <2>3. op \notin {"gc", "refresh"} => \A q \in Proc : ~(Active(q) /\ W(q) = w)
    BY <2>1 DEF Launch, OneRun, Active, At, InOp
  <2>4. proc'[p].op = op /\ proc'[p].w = w
    BY <2>1 DEF Begun
  <2> QED BY <2>1, <2>2, <2>3, <2>4 DEF Exclusive, Active, Others, W
<1>2. ASSUME NEW p \in Proc, Steps(p) PROVE Exclusive'
  <2>1. Others(p) /\ SameRun(proc[p], proc'[p])
    BY <1>2, CommandSteps DEF TypeInv, Basics, StepOf
  <2>2. proc[p].pc # "idle" /\ proc'[p].w = proc[p].w
    BY <1>2, StepsActive, WhereStep DEF TypeInv, W, Exclusive, OneRun
  <2> QED BY <2>1, <2>2 DEF Exclusive, Active, Others, SameRun, W
<1>3. CASE proc' = proc
  BY <1>3 DEF Exclusive, Active, W
<1> QED BY <1>1, <1>2, <1>3, ProcStep DEF TypeInv, Basics

(* While a command works on a worktree no other touches it.                   *)
Untouched(w) ==
  /\ w \in dirs' <=> w \in dirs
  /\ w \in registered' => w \in registered
  /\ w \in envRunning' => w \in envRunning
  /\ data'[w] = data[w] /\ gen'[w] = gen[w] /\ booted'[w] = booted[w]

LEMMA Apart ==
  ASSUME OneRun, TypeInv, Exclusive, NEW p \in Proc, Active(p), NEW q \in Proc \ {p}, Steps(q)
  PROVE  Untouched(W(p)) /\ proc'[p] = proc[p]
<1>1. TreeStep(q) /\ OnlyOwnData(q) /\ Others(q) /\ W(p) \in Worktree /\ W(q) \in Worktree /\ proc[q].pc # "idle"
  BY TreeSteps, DataStep, CommandSteps, WOK, StepsActive DEF TypeInv, Basics, StepOf
<1>2. CASE W(q) # W(p)
  <2>1. envRunning' \subseteq envRunning \cup {W(q)}
    BY DEF Steps, SetupStep, Preflight, StopMain, ListWorktrees, ResolveTarget, AddGitWorktree, RestartMain,
       EnvStep, EnterWorktree, WorktreeEnvHasState, AssertSafeMainEnvClone, BeginCopy, EndCopy, EnsureLayout, ComposeUp,
       CleanStep, CleanTarget, CleanContainers, CleanVolumes, CleanFiles, CleanDataRoots, CleanCheck, GcScan, GcNext,
       BaseStep, EmptyBase, FillBase, Kill, runtime
  <2> QED BY <1>1, <1>2, <2>1 DEF TreeStep, OnlyOwnData, Others, Untouched
<1>3. CASE W(q) = W(p)
  <2>1. proc[q].op = "refresh"
    BY <1>1, <1>3 DEF Exclusive, Active, OneRun
  <2>2. BaseStep(q) \/ Kill(q)
    BY <2>1, StepCases DEF TypeInv, ProcOK, Placed, OpsAt, BaseStep
  <2>3. UNCHANGED <<tree, runtime>>
    BY <2>2 DEF BaseStep, EmptyBase, FillBase, Kill
  <2> QED BY <1>1, <2>3 DEF Others, Untouched, tree, runtime
<1> QED BY <1>2, <1>3

-----------------------------------------------------------------------------
(* What a clean knows of its worktree at each step.                          *)
CleanAt(p) ==
  /\ proc[p].pc \in {"target", "docker", "volumes", "files"} /\ ~proc[p].known => W(p) \notin registered
  /\ proc[p].pc \in {"roots", "check"} => W(p) \notin dirs \cup registered
  /\ proc[p].pc = "check" /\ Btrfs => \A s \in Storage \ Volumes : data[W(p)][s] = Absent
CleanInv == \A p \in Proc : proc[p].op = "clean" => CleanAt(p)

LEMMA RunFacts ==
  ASSUME ProcOK, NEW p \in Proc
  PROVE  /\ \A pc : Goto(p, pc) => proc'[p] = [proc[p] EXCEPT !.pc = pc] /\ proc'[p].pc = pc
         /\ \A why : End(p, why) => proc'[p].pc = "idle" /\ proc'[p].outcome = why
<1>1. proc[p] \in Run /\ proc \in [Proc -> Run]
  BY DEF ProcOK
<1>2. \A pc : Goto(p, pc) => proc'[p] = [proc[p] EXCEPT !.pc = pc] /\ proc'[p].pc = pc
  BY <1>1 DEF Goto, Run
<1>3. \A why : End(p, why) => proc'[p] = Ended(proc[p], why)
  BY <1>1 DEF End
<1>4. \A why : LET r == Ended(proc[p], why) IN r.pc = "idle" /\ r.outcome = why
  BY <1>1 DEF Ended, Run
<1> QED BY <1>2, <1>3, <1>4

(* The steps of a clean.                                                     *)
LEMMA CleanActions ==
  ASSUME ProcOK, NEW p \in Proc, proc[p].op = "clean", Steps(p)
  PROVE  ListWorktrees(p) \/ CleanTarget(p) \/ CleanContainers(p) \/ CleanVolumes(p) \/ CleanFiles(p)
         \/ CleanDataRoots(p) \/ CleanCheck(p) \/ Kill(p)
<1>1. "clean" \in OpsAt(proc[p].pc)
  BY DEF ProcOK, Placed
<1> QED BY <1>1, StepCases DEF OpsAt, ResolveTarget, InOp

LEMMA CleanOwnStep ==
  ASSUME TypeInv, NEW p \in Proc, proc[p].op = "clean", CleanAt(p), Steps(p)
  PROVE  CleanAt(p)'
<1>1. /\ proc'[p].w = W(p) /\ (proc'[p].pc = "idle" \/ ListWorktrees(p) \/ proc'[p].known = proc[p].known)
      /\ TreeStep(p) /\ OnlyOwnData(p) /\ W(p) \in Worktree /\ DataOK
  BY WhereStep, TreeSteps, DataStep, WOK DEF TypeInv, Basics
<1>2. W(p)' = W(p) /\ Btrfs' = Btrfs /\ Volumes' = Volumes
      /\ (W(p) \in registered' => W(p) \in registered \/ AddGitWorktree(p))
  BY <1>1 DEF W, Btrfs, Volumes, TreeStep
<1>3. /\ \A pc : Goto(p, pc) => proc'[p].pc = pc
      /\ \A why : End(p, why) => proc'[p].pc = "idle"
  BY RunFacts DEF TypeInv
<1>4. CASE ListWorktrees(p)
  <2>1. proc'[p].pc = "target" /\ proc'[p].known = (W(p) \in registered) /\ registered' = registered
    BY <1>4, ListFacts DEF ListWorktrees, TypeInv, tree
  <2> QED BY <1>2, <2>1 DEF CleanAt
<1>5. CASE CleanTarget(p) \/ CleanContainers(p) \/ CleanVolumes(p)
  <2>1. registered' = registered /\ proc[p].pc \in {"target", "docker", "volumes"} /\ ~ListWorktrees(p)
    BY <1>5 DEF CleanTarget, CleanContainers, CleanVolumes, tree, At, ListWorktrees
  <2>2. proc'[p].pc \in {"idle", "docker", "volumes", "files"}
    BY <1>3, <1>5 DEF CleanTarget, CleanContainers, CleanVolumes
  <2> QED BY <1>1, <1>2, <2>1, <2>2 DEF CleanAt
<1>6. CASE CleanFiles(p)
  <2>1. \/ proc'[p].pc = "idle"
        \/ proc'[p].pc = "roots" /\ W(p) \notin dirs' /\ ~(proc[p].known /\ W(p) \in registered')
    BY <1>3, <1>6 DEF CleanFiles
  <2>2. proc[p].pc = "files" /\ registered' \subseteq registered
    BY <1>6 DEF CleanFiles, At, Prune
  <2> QED BY <1>2, <2>1, <2>2 DEF CleanAt
<1>7. CASE CleanDataRoots(p)
  <2>1. UNCHANGED <<registered, dirs>> /\ proc[p].pc = "roots" /\ proc'[p].pc \in {"idle", "check"}
    BY <1>3, <1>7 DEF CleanDataRoots, tree, At
  <2>2. proc'[p].pc = "check" /\ Btrfs => data' = WithoutBinds(W(p), Storage)
    BY <1>3, <1>7 DEF CleanDataRoots
  <2>3. proc'[p].pc = "check" /\ Btrfs => \A s \in Storage \ Volumes : data'[W(p)][s] = Absent
    BY <1>1, <2>2, WithoutFacts
  <2> QED BY <1>2, <2>1, <2>3 DEF CleanAt
<1>8. CASE CleanCheck(p)
  <2>1. proc'[p].pc \in {"idle", "gcNext"}
    BY <1>3, <1>8 DEF CleanCheck
  <2> QED BY <2>1 DEF CleanAt
<1>9. CASE Kill(p)
  BY <1>3, <1>9 DEF Kill, CleanAt
<1> QED BY <1>4, <1>5, <1>6, <1>7, <1>8, <1>9, CleanActions DEF TypeInv

LEMMA CleanInvStep ==
  ASSUME OneRun, TypeInv, Exclusive, CleanInv, [Next]_vars
  PROVE  CleanInv'
<1>1. ASSUME NEW p \in Proc, LaunchAny(p) PROVE CleanInv'
  <2>1. PICK op \in Ops, w \in Worktree : Begun(proc'[p], op, w)
    BY <1>1, LaunchStep DEF TypeInv
  <2>2. proc'[p].op = "clean" => proc'[p].pc = "list"
    BY <2>1 DEF Begun, FirstStep
  <2>3. Others(p) /\ UNCHANGED <<site, registered, dirs, data>>
    BY <1>1, LaunchStep, MainStep DEF TypeInv
  <2> QED BY <2>2, <2>3 DEF CleanInv, CleanAt, Others, W, Btrfs, Volumes
<1>2. ASSUME NEW p \in Proc, Steps(p), NEW q \in Proc, proc'[q].op = "clean" PROVE CleanAt(q)'
  <2>1. Others(p) /\ SameRun(proc[p], proc'[p]) /\ site' = site
    BY <1>2, CommandSteps, TreeSteps DEF TypeInv, Basics, StepOf, TreeStep
  <2>2. CASE q = p
    BY <1>2, <2>1, <2>2, CleanOwnStep DEF CleanInv, SameRun
  <2>3. CASE q # p
    <3>1. proc'[q] = proc[q] /\ CleanAt(q)
      BY <1>2, <2>1, <2>3 DEF Others, CleanInv
    <3>2. Active(q) => Untouched(W(q))
      BY <1>2, <2>3, Apart
    <3> QED BY <1>2, <2>1, <3>1, <3>2 DEF CleanAt, Active, Untouched, W, Btrfs, Volumes
  <2> QED BY <2>2, <2>3
<1>3. CASE (UserStep \/ UNCHANGED vars) /\ proc' = proc
  BY <1>3, UserSteps DEF CleanInv, CleanAt, W, Btrfs, Volumes
<1>4. (\E p \in Proc : Steps(p)) => CleanInv'
  BY <1>2 DEF CleanInv
<1> QED BY <1>1, <1>3, <1>4, ProcStep DEF TypeInv, Basics

(* The last step of a clean, where the volumes are counted.                  *)
LEMMA CleanEnds ==
  ASSUME OneRun, TypeInv, Exclusive, CleanInv, BindsWithin, [Next]_vars, NEW p \in Proc, At(p, "check"),
         proc'[p].pc \in {"idle", "gcNext"}, proc'[p].outcome \in {"ok", "none"}
  PROVE  W(p) \notin dirs \cup registered /\ ~HasState(W(p))
<1>1. proc[p].op = "clean" /\ proc'[p] # proc[p]
  BY DEF TypeInv, ProcOK, Placed, OpsAt, At, Exclusive, OneRun
<1>2. Steps(p)
  <2>1. \A q \in Proc : Others(q) => q = p
    BY <1>1 DEF Others
  <2>2. ~LaunchAny(p)
    BY Launches DEF Launch, At
  <2> QED BY <1>1, <2>1, <2>2, ProcStep DEF TypeInv, Basics, StepOf
<1>3. CleanCheck(p) /\ ~VolumesRemain(W(p))
  <2>1. ~Kill(p)
    BY RunFacts DEF Kill, TypeInv
  <2>2. CleanCheck(p)
    BY <1>1, <1>2, <2>1, CleanActions DEF TypeInv, At, ListWorktrees, CleanTarget, CleanContainers, CleanVolumes,
          CleanFiles, CleanDataRoots
  <2> QED BY <2>2, RunFacts DEF CleanCheck, TypeInv
<1>4. W(p) \notin dirs \cup registered
      /\ (Btrfs => \A s \in Storage \ Volumes : data[W(p)][s] = Absent) /\ W(p) \in Worktree
  BY <1>1, WOK DEF CleanInv, CleanAt, At, TypeInv
<1> QED BY <1>3, <1>4 DEF VolumesRemain, HasState, BindsWithin

LEMMA ExclusiveInvariant ==
  ASSUME OneRun PROVE Spec => [](TypeInv /\ FreshInv /\ Exclusive /\ CleanInv)
<1>1. Init => Exclusive /\ CleanInv
  <2>1. Idle.pc = "idle" /\ Idle.op = "none"
    BY DEF Idle
  <2> QED BY <2>1 DEF Init, Exclusive, Active, CleanInv
<1>2. TypeInv /\ Exclusive /\ CleanInv /\ [Next]_vars => Exclusive' /\ CleanInv'
  BY ExclusiveStep, CleanInvStep
<1> QED BY <1>1, <1>2, FreshInvariant, PTL DEF Spec

(* Under the dashboard's admission rule, and without a gc beside it, a clean that reports *)
(* success has removed the directory, the registration and every storage, whatever failed *)
(* and whatever was killed before it (worktree-clean.ts).                                 *)
THEOREM CleanIsComplete ==
  ASSUME OneRun PROVE Spec => CleanLeavesNothing
<1>1. TypeInv /\ FreshInv /\ Exclusive /\ CleanInv /\ [Next]_vars =>
        \A p \in Proc : At(p, "check") /\ proc'[p].pc \in {"idle", "gcNext"} /\ proc'[p].outcome \in {"ok", "none"}
          => W(p) \notin dirs \cup registered /\ ~HasState(W(p))
  BY CleanEnds DEF FreshInv
<1> QED BY <1>1, ExclusiveInvariant, PTL DEF Spec, CleanLeavesNothing

-----------------------------------------------------------------------------
(* Where docker does not fail, volumes, too, do not outlive their worktree: a  *)
(* clean has stopped the environment that would hold them.                     *)
Healthy == OneRun /\ "docker" \notin Faults
VolumesAt(p) ==
  /\ proc[p].pc = "volumes" => W(p) \notin envRunning
  /\ proc[p].pc = "files" => \A s \in Volumes : data[W(p)][s] = Absent
  /\ proc[p].pc \in {"guard", "copy", "copying"} => W(p) \in dirs
VolumesWithin == \A w \in Worktree, s \in Volumes : data[w][s] # Absent => w \in dirs
VolumesCurrent == \A w \in Worktree, s \in Volumes : data[w][s].kind = "own" => data[w][s].v = gen[w]
VolumesInv == (\A p \in Proc : VolumesAt(p)) /\ VolumesWithin /\ VolumesCurrent

LEMMA VolumesOK == ASSUME TypeInv PROVE Volumes \subseteq Storage
  BY ConstantsAssumption DEF TypeInv, Basics, SourcesOK, Volumes

LEMMA VolumesOwnStep ==
  ASSUME Healthy, TypeInv, Exclusive, NEW p \in Proc, VolumesAt(p), Steps(p)
  PROVE  VolumesAt(p)'
<1>1. /\ proc'[p].w = W(p) /\ TreeStep(p) /\ W(p) \in Worktree /\ DataOK /\ Volumes \subseteq Storage
      /\ proc'[p].pc \in After(proc[p].pc) \cup {"idle"} /\ proc[p].pc \in PCs
  BY WhereStep, TreeSteps, WOK, FlowStep, VolumesOK DEF TypeInv, Basics, Exclusive, Healthy, OneRun, ProcOK, Run
<1>2. W(p)' = W(p) /\ Volumes' = Volumes /\ (CleanFiles(p) \/ dirs \subseteq dirs')
  BY <1>1 DEF W, Volumes, TreeStep
<1>3. CASE proc'[p].pc = "volumes"
  <2>1. proc[p].pc = "docker"
    BY <1>1, <1>3 DEF After, PCs
  <2>2. CleanContainers(p)
    <3>1. ~Kill(p)
      BY <1>3, RunFacts DEF Kill, TypeInv
    <3> QED BY <2>1, <3>1, StepCases
  <2>3. envRunning' = envRunning \ {W(p)}
    BY <2>2 DEF CleanContainers, Fallible, Healthy
  <2> QED BY <1>2, <1>3, <2>3 DEF VolumesAt
<1>4. CASE proc'[p].pc = "files"
  <2>1. proc[p].pc = "volumes"
    BY <1>1, <1>4 DEF After, PCs
  <2>2. CleanVolumes(p)
    <3>1. ~Kill(p)
      BY <1>4, RunFacts DEF Kill, TypeInv
    <3> QED BY <2>1, <3>1, StepCases
  <2>3. data' = [data EXCEPT ![W(p)] = [s \in Storage |-> IF s \in Volumes THEN Absent ELSE @[s]]]
    BY <2>1, <2>2 DEF CleanVolumes, Healthy, VolumesAt
  <2>4. \A s \in Volumes : data'[W(p)][s] = Absent
    BY <1>1, <2>3 DEF DataOK
  <2> QED BY <1>2, <1>4, <2>4 DEF VolumesAt
<1>5. CASE proc'[p].pc \in {"guard", "copy", "copying"}
  <2>1. proc[p].pc \in {"env", "guard", "copy", "copying"}
    BY <1>1, <1>5 DEF After, PCs
  <2>2. ~CleanFiles(p)
    BY <2>1 DEF CleanFiles, At
  <2>3. W(p) \in dirs'
    <3>1. CASE proc[p].pc = "env"
      <4>1. ~Kill(p)
        BY <1>5, RunFacts DEF Kill, TypeInv
      <4>2. WorktreeEnvHasState(p)
        BY <3>1, <4>1, StepCases
      <4> QED BY <4>2 DEF WorktreeEnvHasState
    <3> QED BY <1>2, <2>1, <2>2, <3>1 DEF VolumesAt
  <2> QED BY <1>2, <1>5, <2>3 DEF VolumesAt
<1> QED BY <1>3, <1>4, <1>5 DEF VolumesAt

(* What fills a storage.                                                     *)
LEMMA FillStep ==
  ASSUME TypeInv, NEW p \in Proc, Steps(p), NEW s \in Storage, data[W(p)][s] = Absent, data'[W(p)][s] # Absent
  PROVE  proc[p].pc \in {"copy", "copying"} \/ W(p) \in dirs'
<1>1. W(p) \in Worktree /\ DataOK
  BY WOK DEF TypeInv
<1>2. CASE EnsureLayout(p)
  BY <1>2 DEF EnsureLayout
<1>3. CASE ComposeUp(p)
  BY <1>3 DEF ComposeUp, runtime, tree
<1>4. CASE CleanVolumes(p)
  BY <1>1, <1>4 DEF CleanVolumes, DataOK
<1>5. CASE CleanFiles(p) \/ CleanDataRoots(p)
  <2>1. \A lost : data' # WithoutBinds(W(p), lost)
    BY <1>1, WithoutFacts
  <2> QED BY <1>5, <2>1 DEF CleanFiles, RemoveDir, CleanDataRoots
<1> QED BY <1>2, <1>3, <1>4, <1>5 DEF Steps, SetupStep, Preflight, StopMain, ListWorktrees, ResolveTarget,
       AddGitWorktree,
     RestartMain, EnvStep, EnterWorktree, WorktreeEnvHasState, AssertSafeMainEnvClone, BeginCopy, EndCopy, CleanStep,
     CleanTarget, CleanContainers, CleanCheck, GcScan, GcNext, BaseStep, EmptyBase, FillBase, Kill, At, runtime

LEMMA VolumesStep ==
  ASSUME Healthy, TypeInv, MainOnly, Exclusive, VolumesInv, [Next]_vars
  PROVE  VolumesInv'
<1>0. Volumes \subseteq Storage /\ Absent.kind # "own" /\ Empty.kind # "own" /\ Torn.kind # "own" /\ \A g : Own(g).v = g
  BY VolumesOK DEF Absent, Empty, Torn, Own
<1>1. ASSUME NEW p \in Proc, LaunchAny(p) PROVE VolumesInv'
  <2>1. PICK op \in Ops, w \in Worktree : Begun(proc'[p], op, w)
    BY <1>1, LaunchStep DEF TypeInv
  <2>2. proc'[p].pc \notin {"volumes", "files", "guard", "copy", "copying"}
    BY <2>1, ConstantsAssumption DEF Begun, FirstStep, OpNames
  <2>3. Others(p) /\ UNCHANGED <<site, dirs, data, gen, envRunning>>
    BY <1>1, LaunchStep, MainStep DEF TypeInv
  <2> QED BY <2>2, <2>3 DEF VolumesInv, VolumesAt, VolumesWithin, VolumesCurrent, Others, W, Volumes
<1>2. ASSUME NEW p \in Proc, Steps(p) PROVE VolumesInv'
  <2>1. /\ OnlyOwnData(p) /\ TreeStep(p) /\ Others(p) /\ W(p) \in Worktree
    BY <1>2, DataStep, TreeSteps, CommandSteps, WOK DEF TypeInv, Basics, StepOf
  <2>2. Volumes' = Volumes
    BY <2>1 DEF TreeStep, Volumes
  <2>3. \A q \in Proc : VolumesAt(q)'
    <3>1. VolumesAt(p)'
      BY <1>2, VolumesOwnStep DEF VolumesInv
    <3>2. ASSUME NEW q \in Proc \ {p} PROVE VolumesAt(q)'
      <4>1. proc'[q] = proc[q] /\ VolumesAt(q)
        BY <2>1 DEF Others, VolumesInv
      <4>2. proc[q].pc \in {"volumes", "files", "guard", "copy", "copying"} => Active(q)
        BY DEF Active, Exclusive, Healthy, OneRun, TypeInv, ProcOK, Placed, OpsAt
      <4>3. Active(q) => Untouched(W(q))
        BY <1>2, Apart DEF Healthy
      <4> QED BY <2>2, <4>1, <4>2, <4>3 DEF VolumesAt, Untouched, W
    <3> QED BY <3>1, <3>2
  <2>4. VolumesWithin'
    <3>1. ASSUME NEW s \in Volumes, data'[W(p)][s] # Absent PROVE W(p) \in dirs'
      <4>1. CASE data[W(p)][s] = Absent
        <5>1. proc[p].pc \in {"copy", "copying"} \/ W(p) \in dirs'
          BY <1>0, <1>2, <3>1, <4>1, FillStep
        <5>2. proc[p].pc \in {"copy", "copying"} => W(p) \in dirs /\ ~CleanFiles(p)
          BY DEF VolumesInv, VolumesAt, CleanFiles, At
        <5> QED BY <2>1, <5>1, <5>2 DEF TreeStep
      <4>2. CASE data[W(p)][s] # Absent
        <5>1. W(p) \in dirs
          BY <2>1, <4>2 DEF VolumesInv, VolumesWithin
        <5>2. ~CleanFiles(p)
          BY <4>2 DEF CleanFiles, At, VolumesInv, VolumesAt
        <5> QED BY <2>1, <5>1, <5>2 DEF TreeStep
      <4> QED BY <4>1, <4>2
    <3>2. \A w \in Worktree \ {W(p)}, s \in Volumes : data'[w][s] # Absent => w \in dirs'
      BY <2>1 DEF OnlyOwnData, TreeStep, VolumesInv, VolumesWithin
    <3> QED BY <2>2, <3>1, <3>2 DEF VolumesWithin
  <2>5. VolumesCurrent'
    <3>1. ASSUME NEW s \in Volumes, data'[W(p)][s].kind = "own" PROVE data'[W(p)][s].v = gen'[W(p)]
      <4>1. CASE AddGitWorktree(p)
        <5>1. data' = data /\ (W(p) \notin dirs \/ gen' = gen)
          BY <4>1 DEF AddGitWorktree, tree
        <5>2. W(p) \notin dirs => data[W(p)][s] = Absent
          BY <2>1 DEF VolumesInv, VolumesWithin
        <5> QED BY <1>0, <2>1, <3>1, <5>1, <5>2 DEF VolumesInv, VolumesCurrent
      <4>2. CASE ~AddGitWorktree(p)
        <5>1. gen' = gen /\ data'[W(p)][s] \in {data[W(p)][s], Absent, Empty, Torn, proc[p].seen, Own(gen[W(p)])}
          BY <1>0, <2>1, <4>2 DEF TreeStep, OnlyOwnData
        <5>2. proc[p].seen.kind # "own"
          BY DEF MainOnly
        <5> QED BY <1>0, <2>1, <3>1, <5>1, <5>2 DEF VolumesInv, VolumesCurrent
      <4> QED BY <4>1, <4>2
    <3>2. \A w \in Worktree \ {W(p)}, s \in Volumes : data'[w][s].kind = "own" => data'[w][s].v = gen'[w]
      BY <2>1 DEF OnlyOwnData, TreeStep, VolumesInv, VolumesCurrent
    <3> QED BY <2>2, <3>1, <3>2 DEF VolumesCurrent
  <2> QED BY <2>3, <2>4, <2>5 DEF VolumesInv
<1>3. CASE (UserStep \/ UNCHANGED vars) /\ proc' = proc
  <2>1. UNCHANGED <<site, dirs, data, gen>> /\ envRunning' \subseteq envRunning
    BY <1>3, UserSteps DEF UserStep, MainWrites, UserStartsMain, UserStopsMain, UserStopsEnv, UserEdits, runtime, vars
  <2> QED BY <1>3, <2>1 DEF VolumesInv, VolumesAt, VolumesWithin, VolumesCurrent, W, Volumes
<1> QED BY <1>1, <1>2, <1>3, ProcStep DEF TypeInv, Basics

LEMMA VolumesInvariant ==
  ASSUME Healthy PROVE Spec => [](TypeInv /\ FreshInv /\ Exclusive /\ CleanInv /\ VolumesInv)
<1>1. Init /\ TypeInv => VolumesInv
  <2>1. Idle.pc = "idle"
    BY DEF Idle
  <2> QED BY <2>1, VolumesOK DEF Init, VolumesInv, VolumesAt, VolumesWithin, VolumesCurrent, Absent
<1>2. TypeInv /\ FreshInv /\ Exclusive /\ VolumesInv /\ [Next]_vars => VolumesInv'
  BY VolumesStep DEF FreshInv
<1>3. Spec => [](TypeInv /\ FreshInv /\ Exclusive /\ CleanInv)
  BY ExclusiveInvariant DEF Healthy
<1> QED BY <1>1, <1>2, <1>3, PTL DEF Spec

(* What keeps a volume from being left behind: there is none outside Btrfs, or docker *)
(* does what it is asked and only one command works on a worktree at a time.          *)
NoStaleVolumes == (\A m \in Sites : ~m.btrfs => m.volumes = {}) \/ Healthy

LEMMA WithinInvariant ==
  ASSUME NoStaleVolumes
  PROVE  Spec => [](~Btrfs => \A w \in Worktree, s \in Storage :
                      /\ data[w][s] # Absent => w \in dirs
                      /\ data[w][s].kind = "own" => data[w][s].v = gen[w])
<1> DEFINE Within1 == ~Btrfs => \A w \in Worktree, s \in Storage :
                        /\ data[w][s] # Absent => w \in dirs
                        /\ data[w][s].kind = "own" => data[w][s].v = gen[w]
<1>1. CASE Healthy
  <2>1. TypeInv /\ FreshInv /\ Exclusive /\ CleanInv /\ VolumesInv => Within1
    BY DEF FreshInv, BindsWithin, OwnCurrent, VolumesInv, VolumesWithin, VolumesCurrent
  <2>2. Spec => [](TypeInv /\ FreshInv /\ Exclusive /\ CleanInv /\ VolumesInv)
    BY <1>1, VolumesInvariant
  <2> QED BY <2>1, <2>2, PTL
<1>2. CASE \A m \in Sites : ~m.btrfs => m.volumes = {}
  <2>1. TypeInv /\ FreshInv => Within1
    BY <1>2 DEF FreshInv, BindsWithin, OwnCurrent, TypeInv, Basics, SourcesOK, Btrfs, Volumes
  <2> QED BY <2>1, FreshInvariant, PTL
<1> QED BY <1>1, <1>2 DEF NoStaleVolumes

(* Without Btrfs a worktree never holds what an environment of an earlier incarnation of *)
(* it wrote, whatever is killed or fails between a clean and the next setup, as long as  *)
(* no Docker volume can be left behind.                                                  *)
THEOREM NoEarlierData == ASSUME NoStaleVolumes PROVE Spec => []FreshIncarnation
<1>1. TypeInv /\ (~Btrfs => \A w \in Worktree, s \in Storage :
                    /\ data[w][s] # Absent => w \in dirs
                    /\ data[w][s].kind = "own" => data[w][s].v = gen[w])
      => FreshIncarnation
  BY DEF FreshIncarnation, TypeInv, Basics
<1> QED BY <1>1, TypeInvariant, WithinInvariant, PTL

(* clean refuses a name only when no storage of it is left (worktree-clean.ts): what a *)
(* clean that stopped half way, or a kill, has left can always be cleaned again.       *)
THEOREM RefusalIsHonest == ASSUME NoStaleVolumes PROVE Spec => RefusalMeansGone
<1> DEFINE Within1 == ~Btrfs => \A w \in Worktree, s \in Storage :
                        /\ data[w][s] # Absent => w \in dirs
                        /\ data[w][s].kind = "own" => data[w][s].v = gen[w]
<1>1. ASSUME TypeInv, HandoffInv, Within1, [Next]_vars, NEW p \in Proc, At(p, "target"), Cleaning(p),
             proc'[p].outcome = "notRegistered", NEW s \in Storage
      PROVE  data[W(p)][s] = Absent
  <2>1. proc'[p] # proc[p]
    BY <1>1 DEF HandoffInv, Pending, At
  <2>2. Steps(p)
    <3>1. \A q \in Proc : Others(q) => q = p
      BY <2>1 DEF Others
    <3>2. ~LaunchAny(p)
      BY <1>1, Launches DEF Launch, At
    <3> QED BY <1>1, <2>1, <3>1, <3>2, ProcStep DEF TypeInv, Basics, StepOf
  <2>3. CleanTarget(p)
    <3>1. ~Kill(p)
      BY <1>1, RunFacts DEF Kill, TypeInv
    <3> QED BY <1>1, <2>2, <3>1, StepCases DEF At, Cleaning, InOp, ResolveTarget
  <2>4. ~Cleanable(p)
    <3>1. Goto(p, "docker") => proc'[p].outcome = proc[p].outcome
      BY <1>1 DEF Goto, TypeInv, ProcOK, Run
    <3> QED BY <1>1, <2>3, <3>1 DEF CleanTarget, HandoffInv, Pending, At
  <2> QED BY <1>1, <2>4, WOK DEF Cleanable, TypeInv
<1>2. TypeInv /\ HandoffInv /\ Within1 /\ [Next]_vars =>
        \A p \in Proc : At(p, "target") /\ Cleaning(p) /\ proc'[p].outcome = "notRegistered"
          => \A s \in Storage : data[W(p)][s] = Absent
  BY <1>1
<1>3. Spec => []Within1
  BY WithinInvariant
<1> QED BY <1>2, <1>3, HandoffInvariant, PTL DEF Spec, RefusalMeansGone

-----------------------------------------------------------------------------
(* The conditions under which a clone is one snapshot.  Each is needed: a kill, a failed  *)
(* copy or a removal that stops half way leaves part of a state that the next run takes   *)
(* for a whole one; main may be started under a copy by the user, or by another setup's   *)
(* handoff; a base may be refreshed under a copy; and volumes beside a Btrfs base are     *)
(* cloned from main, which is newer than the base.                                        *)
Calm ==
  /\ Healthy /\ Ops \subseteq {"setup", "start", "clean"}
  /\ Faults \cap {"crash", "copy", "remove", "docker"} = {}
  /\ "startMain" \notin UserActions /\ \A h \in Handoffs : h[2] = FALSE
  /\ \A m \in Sites : m.btrfs => m.volumes = {}

(* How far a clone has come: what lies before `next` is whole, the rest is not there. *)
Src == IF Btrfs THEN FromMain(0) ELSE FromMain(mainVersion)
Uniform(d) == \A s, t \in Storage : d[s] = d[t] /\ d[s].kind \notin {"torn", "empty"}
CopiedTo(d, n, c) ==
  \A i \in 1..Len(Subdirs) : d[Subdirs[i]] = IF i < n THEN Src ELSE IF i = n THEN c ELSE Absent
SnapAt(p) ==
  /\ proc[p].restart = FALSE
  /\ proc[p].pc \in {"copy", "copying"} => Btrfs \/ ~mainRunning
  /\ proc[p].pc = "guard" => proc[p].next = 1 /\ \A s \in Storage : data[W(p)][s] = Absent
  /\ proc[p].pc = "copy" => CopiedTo(data[W(p)], proc[p].next, Absent)
  /\ proc[p].pc = "copying" => CopiedTo(data[W(p)], proc[p].next, Torn) /\ proc[p].seen = Src
  /\ proc[p].pc \in {"layout", "up"} => \A s \in Storage : data[W(p)][s] # Absent
  /\ proc[p].pc = "files" /\ Btrfs => Uniform(data[W(p)])
BusyPCs == {"copy", "copying", "files"}
Busy(w) == \E p \in Proc : W(p) = w /\ proc[p].pc \in BusyPCs
BaseKept == base = [s \in Storage |-> FromMain(0)]
Whole == \A w \in Worktree : Busy(w) \/ Uniform(data[w])
SnapInv ==
  /\ BaseKept /\ Whole /\ \A p \in Proc : SnapAt(p)
  /\ \A w \in Worktree : \A b \in booted[w] : Uniform(b)

LEMMA ContentsDiffer ==
  /\ Absent.kind \notin {"torn", "empty"} /\ \A v : FromMain(v).kind \notin {"torn", "empty"} /\ FromMain(v) # Absent
  /\ \A g : Own(g).kind \notin {"torn", "empty"} /\ Own(g) # Absent
  BY DEF Absent, FromMain, Own

LEMMA SourceIsSrc ==
  ASSUME Calm, TypeInv, BaseKept, NEW s \in Storage
  PROVE  Source(s) = Src
  BY DEF Calm, TypeInv, Basics, SourcesOK, BaseKept, Source, Src, Btrfs, Volumes

(* Nobody refreshes the base, and nobody starts main: what is copied stays the same. *)
LEMMA CalmStep ==
  ASSUME Calm, TypeInv, Exclusive, BaseKept, \A p \in Proc : SnapAt(p), [Next]_vars
  PROVE  /\ BaseKept' /\ Btrfs' = Btrfs /\ (mainRunning' => mainRunning)
         /\ Btrfs \/ ~mainRunning => Src' = Src
<1>1. ASSUME NEW p \in Proc, Steps(p)
      PROVE  base' = base /\ (mainRunning' => mainRunning) /\ mainVersion' = mainVersion /\ site' = site
  <2>1. ~BaseStep(p)
    BY DEF BaseStep, EmptyBase, FillBase, At, TypeInv, ProcOK, Placed, OpsAt, Exclusive, Calm
  <2>2. CASE RestartMain(p)
    BY <2>2 DEF RestartMain, SnapAt, main, rest
  <2>3. CASE StopMain(p)
    BY <2>3 DEF StopMain, rest
  <2>4. CASE SetupStep(p) /\ ~RestartMain(p) /\ ~StopMain(p)
    BY <2>4 DEF SetupStep, Preflight, ListWorktrees, ResolveTarget, AddGitWorktree, main, rest
  <2>5. CASE EnvStep(p)
    BY <2>5 DEF EnvStep, EnterWorktree, WorktreeEnvHasState, AssertSafeMainEnvClone, BeginCopy, EndCopy, EnsureLayout,
                ComposeUp, main, rest
  <2>6. CASE CleanStep(p)
    <3>1. UNCHANGED <<main, rest>>
      BY <2>6 DEF CleanStep, CleanTarget, CleanContainers, CleanVolumes, CleanFiles, CleanDataRoots, CleanCheck, GcScan,
                  GcNext
    <3> QED BY <3>1 DEF main, rest
  <2> QED BY <1>1, <2>1, <2>2, <2>3, <2>4, <2>5, <2>6 DEF Steps, Kill, main, rest
<1>2. CASE \E p \in Proc : LaunchAny(p)
  BY <1>2, MainStep DEF TypeInv, BaseKept, Btrfs, Src
<1>3. CASE UserStep \/ UNCHANGED vars
  BY <1>3, UserSteps DEF Calm, BaseKept, Btrfs, Src
<1>4. CASE \E p \in Proc : Steps(p)
  BY <1>1, <1>4 DEF BaseKept, Btrfs, Src
<1> QED BY <1>2, <1>3, <1>4, ProcStep DEF TypeInv, Basics

(* A storage is copied at most once, since no two subdirectories are the same.       *)
LEMMA CopyOne ==
  ASSUME TypeInv, NEW p \in Proc, NEW c, data' = [data EXCEPT ![W(p)][Current(p)] = c]
  PROVE  \A i \in 1..Len(Subdirs) :
           data'[W(p)][Subdirs[i]] = IF i = proc[p].next THEN c ELSE data[W(p)][Subdirs[i]]
<1>1. W(p) \in Worktree /\ DataOK /\ Current(p) \in Storage /\ proc[p].next \in 1..Len(Subdirs)
  BY WOK, IndexOK DEF TypeInv, ProcOK, Run
<1>2. DOMAIN Subdirs = 1..Len(Subdirs) /\ \A i \in 1..Len(Subdirs) : Subdirs[i] \in Storage
  BY SubdirFacts, ConstantsAssumption
<1>3. \A i \in 1..Len(Subdirs) : Subdirs[i] = Current(p) => i = proc[p].next
  BY <1>1, <1>2, ConstantsAssumption DEF Current
<1> QED BY <1>1, <1>2, <1>3 DEF DataOK, Current

LEMMA AllStorages ==
  ASSUME NEW d, NEW P, \A i \in 1..Len(Subdirs) : d[Subdirs[i]] = P
  PROVE  \A s \in Storage : d[s] = P
  BY SubdirFacts

(* The steps of the one command that works on a worktree.                     *)
SnapOwn(p) == SnapAt(p)' /\ (proc'[p].pc \in BusyPCs \/ Uniform(data'[W(p)]))

LEMMA SnapOwnStep ==
  ASSUME Calm, TypeInv, Exclusive, VolumesInv, SnapInv, [Next]_vars, NEW p \in Proc, Steps(p)
  PROVE  SnapOwn(p)
<1>1. /\ proc[p] \in Run /\ proc \in [Proc -> Run] /\ proc[p].op \in OpsAt(proc[p].pc)
      /\ proc[p].op \in {"setup", "start", "clean"} /\ proc[p].pc \in PCs /\ proc[p].pc # "idle"
  <2>1. /\ proc[p] \in Run /\ proc \in [Proc -> Run] /\ proc[p].op \in OpsAt(proc[p].pc)
        /\ proc[p].pc \in PCs /\ proc[p].pc # "idle"
    BY StepsActive DEF TypeInv, ProcOK, Placed, Run
  <2>2. "none" \notin OpsAt(proc[p].pc)
    BY <2>1 DEF OpsAt, PCs
  <2> QED BY <2>1, <2>2 DEF Exclusive, Calm
<1>2. /\ proc'[p].w = W(p) /\ W(p) \in Worktree /\ Current(p) \in Storage /\ DataOK
      /\ proc'[p].pc \in After(proc[p].pc) \cup {"idle"} /\ SameRun(proc[p], proc'[p])
      /\ NextIndex(p) \in 1..Len(Subdirs)
  BY <1>1, WhereStep, WOK, IndexOK, FlowStep, CommandSteps DEF TypeInv, Basics, StepOf
<1>3. W(p)' = W(p) /\ proc'[p].restart = FALSE /\ Btrfs' = Btrfs /\ (mainRunning' => mainRunning)
      /\ (Btrfs \/ ~mainRunning => Src' = Src) /\ BaseKept
  BY <1>2, CalmStep DEF W, SameRun, SnapInv, SnapAt
<1>4. /\ \A pc : Goto(p, pc) => proc'[p] = [proc[p] EXCEPT !.pc = pc] /\ proc'[p].pc = pc
      /\ \A why : End(p, why) => proc'[p].pc = "idle"
  BY RunFacts DEF TypeInv
<1>5. Volumes \subseteq Storage /\ (Btrfs => Volumes = {})
  BY VolumesOK DEF TypeInv, Basics, SourcesOK, Calm, Btrfs, Volumes
<1>6. proc[p].pc \notin BusyPCs => Uniform(data[W(p)])
  <2>1. ASSUME NEW q \in Proc, W(q) = W(p), proc[q].pc \in BusyPCs PROVE proc[p].pc \in BusyPCs
    <3>1. Active(p)
      BY <1>1 DEF Active
    <3>2. Active(q)
      BY <2>1 DEF Active, BusyPCs, TypeInv, ProcOK, Placed, OpsAt, Exclusive, Calm
    <3> QED BY <2>1, <3>1, <3>2 DEF Exclusive
  <2> QED BY <1>2, <2>1 DEF SnapInv, Whole, Busy
<1>7. CASE /\ proc'[p].pc \notin {"guard", "copy", "copying", "layout", "up", "files"}
           /\ Uniform(data'[W(p)])
  BY <1>3, <1>7 DEF SnapOwn, SnapAt
<1>8. CASE /\ proc[p].pc \in {"preflight", "stopMain", "list", "target", "add", "restart", "enter", "docker", "check"}
  <2>1. data' = data
    BY <1>8, StepCases DEF Kill, Calm, Preflight, StopMain, ListWorktrees, ResolveTarget, CleanTarget, AddGitWorktree,
          RestartMain, EnterWorktree, CleanContainers, CleanCheck, runtime
  <2>2. proc'[p].pc \notin {"guard", "copy", "copying", "layout", "up", "files"}
    BY <1>2, <1>8 DEF After
  <2> QED BY <1>6, <1>7, <1>8, <2>1, <2>2 DEF BusyPCs
<1>9. CASE proc[p].pc = "env"
  <2>1. WorktreeEnvHasState(p) /\ Uniform(data[W(p)])
    BY <1>6, <1>9, StepCases DEF Calm, BusyPCs
  <2>2. data' = data /\ proc'[p].next = 1 /\ proc'[p].pc = IF HasState(W(p)) THEN "layout" ELSE "guard"
    BY <1>1, <2>1 DEF WorktreeEnvHasState, runtime, Run
  <2>3. HasState(W(p)) => \A s \in Storage : data[W(p)][s] # Absent
    BY <2>1 DEF HasState, Uniform
  <2>4. ~HasState(W(p)) => \A s \in Storage : data[W(p)][s] = Absent
    BY DEF HasState
  <2> QED BY <1>3, <2>1, <2>2, <2>3, <2>4 DEF SnapOwn, SnapAt
<1>10. CASE proc[p].pc = "guard"
  <2>1. AssertSafeMainEnvClone(p) /\ Uniform(data[W(p)])
    BY <1>6, <1>10, StepCases DEF Calm, BusyPCs
  <2>2. data' = data /\ ((SafeMainEnvClone /\ Goto(p, "copy")) \/ EnvFails(p))
    BY <2>1 DEF AssertSafeMainEnvClone, runtime
  <2>3. CASE EnvFails(p)
    <3>1. proc'[p].pc \in {"restart", "idle"}
      BY <1>1, <1>4, <2>3 DEF EnvFails, Run
    <3> QED BY <1>7, <2>1, <2>2, <3>1
  <2>4. CASE SafeMainEnvClone /\ Goto(p, "copy")
    <3>1. proc'[p].pc = "copy" /\ proc'[p].next = 1
      BY <1>1, <1>4, <1>10, <2>4 DEF SnapInv, SnapAt, Run
    <3>2. CopiedTo(data[W(p)], 1, Absent)'
      BY <1>3, <1>10, <2>2, SubdirFacts DEF SnapInv, SnapAt, CopiedTo
    <3>3. Btrfs' \/ ~mainRunning'
      BY <1>3, <2>4 DEF SafeMainEnvClone
    <3> QED BY <1>3, <2>2, <3>1, <3>2, <3>3 DEF SnapOwn, SnapAt, BusyPCs, CopiedTo
  <2> QED BY <2>2, <2>3, <2>4
<1>11. CASE proc[p].pc = "copy"
  <2>1. BeginCopy(p) /\ Source(Current(p)) = Src /\ Src # Absent
    BY <1>2, <1>3, <1>11, StepCases, SourceIsSrc, ContentsDiffer DEF Calm, Src
  <2>2. data' = [data EXCEPT ![W(p)][Current(p)] = Torn]
    BY <2>1 DEF BeginCopy
  <2>3. proc'[p].pc = "copying" /\ proc'[p].seen = Src /\ proc'[p].next = proc[p].next
    BY <1>1, <2>1 DEF BeginCopy, Run
  <2>4. Src' = Src /\ CopiedTo(data[W(p)], proc[p].next, Absent) /\ (Btrfs' \/ ~mainRunning')
    BY <1>3, <1>11 DEF SnapInv, SnapAt
  <2>5. CopiedTo(data[W(p)], proc[p].next, Torn)'
    <3>1. \A i \in 1..Len(Subdirs) :
            data'[W(p)][Subdirs[i]] = IF i = proc[p].next THEN Torn ELSE data[W(p)][Subdirs[i]]
      BY <2>2, CopyOne
    <3> QED BY <1>3, <2>3, <2>4, <3>1 DEF CopiedTo
  <2> QED BY <1>3, <2>3, <2>4, <2>5 DEF SnapOwn, SnapAt, BusyPCs
<1>12. CASE proc[p].pc = "copying"
  <2>1. EndCopy(p) /\ Source(Current(p)) = Src /\ proc[p].seen = Src
    BY <1>2, <1>3, <1>12, StepCases, SourceIsSrc DEF Calm, SnapInv, SnapAt
  <2>2. /\ data' = [data EXCEPT ![W(p)][Current(p)] = Src]
        /\ proc' = [proc EXCEPT ![p].pc = AfterCopy(p), ![p].seen = Absent, ![p].next = NextIndex(p)]
    BY <2>1 DEF EndCopy, Fallible, Calm
  <2>3. proc'[p].pc = AfterCopy(p) /\ proc'[p].next = NextIndex(p)
    BY <1>1, <2>2 DEF Run
  <2>4. Src' = Src /\ CopiedTo(data[W(p)], proc[p].next, Torn) /\ (Btrfs' \/ ~mainRunning')
    BY <1>3, <1>12 DEF SnapInv, SnapAt
  <2>5. \A i \in 1..Len(Subdirs) :
          data'[W(p)][Subdirs[i]] = IF i < proc[p].next + 1 THEN Src ELSE Absent
    <3>1. \A i \in 1..Len(Subdirs) :
            data'[W(p)][Subdirs[i]] = IF i = proc[p].next THEN Src ELSE data[W(p)][Subdirs[i]]
      BY <2>2, CopyOne
    <3>2. proc[p].next \in 1..Len(Subdirs)
      BY <1>1 DEF Run
    <3> QED BY <2>4, <3>1, <3>2, SubdirFacts DEF CopiedTo
  <2>6. CASE proc[p].next = Len(Subdirs)
    <3>1. proc'[p].pc = "layout"
      BY <2>3, <2>6 DEF AfterCopy
    <3>2. \A i \in 1..Len(Subdirs) : data'[W(p)][Subdirs[i]] = Src
      BY <2>5, <2>6, SubdirFacts
    <3>3. \A s \in Storage : data'[W(p)][s] = Src
      BY <3>2, AllStorages
    <3>4. Src # Absent /\ Src.kind \notin {"torn", "empty"}
      BY ContentsDiffer DEF Src
    <3> QED BY <1>3, <3>1, <3>3, <3>4 DEF SnapOwn, SnapAt, Uniform
  <2>7. CASE proc[p].next # Len(Subdirs)
    <3>1. proc'[p].pc = "copy" /\ proc'[p].next = proc[p].next + 1
      BY <2>3, <2>7 DEF AfterCopy, NextIndex
    <3>2. CopiedTo(data[W(p)], proc[p].next, Absent)'
      <4>1. proc[p].next + 1 \in Nat
        BY <1>1 DEF Run
      <4> QED BY <1>3, <2>4, <2>5, <3>1, <4>1 DEF CopiedTo
    <3> QED BY <1>3, <2>4, <3>1, <3>2 DEF SnapOwn, SnapAt, BusyPCs
  <2> QED BY <2>6, <2>7
<1>13. CASE proc[p].pc = "layout"
  <2>1. EnsureLayout(p) /\ Uniform(data[W(p)]) /\ \A s \in Storage : data[W(p)][s] # Absent
    BY <1>6, <1>13, StepCases DEF Calm, BusyPCs, SnapInv, SnapAt
  <2>2. LaidOut(W(p)) = data[W(p)]
    BY <1>2, <2>1 DEF LaidOut, DataOK
  <2>3. data'[W(p)] = data[W(p)]
    BY <1>2, <2>1, <2>2 DEF EnsureLayout, DataOK
  <2>4. proc'[p].pc \in {"restart", "up", "idle"}
    BY <1>2, <1>13 DEF After
  <2> QED BY <1>3, <2>1, <2>3, <2>4 DEF SnapOwn, SnapAt
<1>14. CASE proc[p].pc = "up"
  <2>1. ComposeUp(p) /\ Uniform(data[W(p)])
    BY <1>6, <1>14, StepCases DEF Calm, BusyPCs
  <2>2. data'[W(p)] = data[W(p)] \/ data'[W(p)] = [s \in Storage |-> Own(gen[W(p)])]
    BY <1>2, <2>1 DEF ComposeUp, DataOK, runtime
  <2>3. Uniform(data'[W(p)])
    BY <2>1, <2>2, ContentsDiffer DEF Uniform
  <2>4. proc'[p].pc = "idle"
    BY <1>2, <1>14 DEF After
  <2> QED BY <1>7, <2>3, <2>4
<1>15. CASE proc[p].pc = "volumes"
  <2>1. CleanVolumes(p) /\ Uniform(data[W(p)])
    BY <1>6, <1>15, StepCases DEF Calm, BusyPCs
  <2>2. Btrfs => data'[W(p)] = data[W(p)]
    <3>1. PICK removed \in SUBSET Volumes :
            data' = [data EXCEPT ![W(p)] = [s \in Storage |-> IF s \in removed THEN Absent ELSE @[s]]]
      BY <2>1 DEF CleanVolumes
    <3>2. data[W(p)] = [s \in Storage |-> data[W(p)][s]]
      BY <1>2 DEF DataOK
    <3> QED BY <1>2, <1>5, <3>1, <3>2 DEF DataOK
  <2>3. proc'[p].pc = "files"
    BY <1>4, <2>1 DEF CleanVolumes
  <2> QED BY <1>3, <2>1, <2>2, <2>3 DEF SnapOwn, SnapAt, BusyPCs
<1>16. CASE proc[p].pc = "files"
  <2>1. CleanFiles(p)
    BY <1>16, StepCases DEF Calm
  <2>2. PICK removed \in {TRUE} : RemoveDir(p, removed \/ W(p) \notin dirs)
    BY <2>1 DEF CleanFiles, Fallible, Calm
  <2>3. data' = WithoutBinds(W(p), IF Btrfs THEN {} ELSE Storage)
    BY <2>2 DEF RemoveDir
  <2>4. \A s \in Storage : data'[W(p)][s] = IF ~Btrfs /\ s \notin Volumes THEN Absent ELSE data[W(p)][s]
    BY <1>2, <2>3, WithoutFacts
  <2>5. \A s \in Volumes : data[W(p)][s] = Absent
    BY <1>16 DEF VolumesInv, VolumesAt
  <2>6. Uniform(data'[W(p)])
    <3>1. CASE Btrfs
      BY <1>16, <2>4, <3>1 DEF SnapInv, SnapAt, Uniform
    <3>2. CASE ~Btrfs
      BY <2>4, <2>5, <3>2, ContentsDiffer DEF Uniform
    <3> QED BY <3>1, <3>2
  <2>7. proc'[p].pc \in {"roots", "idle"}
    BY <1>2, <1>16 DEF After
  <2> QED BY <1>7, <2>6, <2>7
<1>17. CASE proc[p].pc = "roots"
  <2>1. CleanDataRoots(p) /\ Uniform(data[W(p)])
    BY <1>6, <1>17, StepCases DEF Calm, BusyPCs
  <2>2. IF Btrfs THEN data' = WithoutBinds(W(p), Storage) ELSE data' = data
    BY <2>1 DEF CleanDataRoots, Calm
  <2>3. Btrfs => \A s \in Storage : data'[W(p)][s] = Absent
    BY <1>2, <1>5, <2>2, WithoutFacts
  <2>4. Uniform(data'[W(p)])
    BY <2>1, <2>2, <2>3, ContentsDiffer DEF Uniform
  <2>5. proc'[p].pc \in {"check", "idle"}
    BY <1>2, <1>17 DEF After
  <2> QED BY <1>7, <2>4, <2>5
<1>18. proc[p].pc \notin {"scan", "gcNext", "empty", "fill"}
  BY <1>1 DEF OpsAt
<1> QED BY <1>1, <1>8, <1>9, <1>10, <1>11, <1>12, <1>13, <1>14, <1>15, <1>16, <1>17, <1>18 DEF PCs

LEMMA SnapStep ==
  ASSUME Calm, TypeInv, Exclusive, VolumesInv, SnapInv, [Next]_vars
  PROVE  SnapInv'
<1>0. /\ BaseKept' /\ Btrfs' = Btrfs /\ (mainRunning' => mainRunning) /\ (Btrfs \/ ~mainRunning => Src' = Src)
      /\ \A p \in Proc : W(p) \in Worktree
  BY CalmStep, WOK DEF SnapInv, TypeInv
<1>1. ASSUME NEW p \in Proc, LaunchAny(p) PROVE SnapInv'
  <2>1. PICK op \in Ops, w \in Worktree, h \in {<<FALSE, FALSE>>} \cup Handoffs :
          Launch(p, op, w, h) /\ Begun(proc'[p], op, w) /\ proc'[p].restart = h[2]
    BY <1>1, LaunchStep DEF TypeInv
  <2>2. proc'[p].pc \notin {"guard", "copy", "copying", "layout", "up", "files"} /\ proc[p].pc = "idle"
    BY <2>1, ConstantsAssumption DEF Begun, FirstStep, OpNames, Launch, At
  <2>3. proc'[p].restart = FALSE
    <3>1. <<FALSE, FALSE>>[2] = FALSE
      OBVIOUS
    <3> QED BY <2>1, <3>1 DEF Calm
  <2>4. Others(p) /\ UNCHANGED <<site, mainRunning, mainVersion, dirs, data, booted>>
    BY <1>1, LaunchStep, MainStep DEF TypeInv
  <2>5. \A q \in Proc : SnapAt(q)'
    <3>1. SnapAt(p)'
      BY <2>2, <2>3 DEF SnapAt
    <3>2. \A q \in Proc \ {p} : SnapAt(q)'
      BY <2>4 DEF SnapInv, SnapAt, Others, CopiedTo, W, Src, Btrfs
    <3> QED BY <3>1, <3>2
  <2>6. Whole'
    BY <2>2, <2>4 DEF SnapInv, Whole, Busy, BusyPCs, Others, W
  <2> QED BY <1>0, <2>4, <2>5, <2>6 DEF SnapInv
<1>2. ASSUME NEW p \in Proc, Steps(p) PROVE SnapInv'
  <2>1. SnapOwn(p) /\ OnlyOwnData(p) /\ TreeStep(p) /\ Others(p) /\ proc'[p].w = W(p) /\ W(p) \in Worktree
    BY <1>2, SnapOwnStep, DataStep, TreeSteps, CommandSteps, WhereStep, WOK
       DEF TypeInv, Basics, StepOf, Exclusive, Healthy, OneRun, Calm
  <2>2. \A q \in Proc : SnapAt(q)'
    <3>1. ASSUME NEW q \in Proc \ {p} PROVE SnapAt(q)'
      <4>1. proc'[q] = proc[q] /\ SnapAt(q) /\ W(q)' = W(q)
        BY <2>1 DEF Others, SnapInv, W
      <4>2. proc[q].pc \in {"guard", "copy", "copying", "layout", "up", "files"} => Active(q)
        BY DEF Active, Exclusive, Healthy, OneRun, Calm, TypeInv, ProcOK, Placed, OpsAt
      <4>3. Active(q) => data'[W(q)] = data[W(q)]
        BY <1>2, Apart DEF Healthy, Calm, Untouched
      <4>4. Active(q) => W(q)' = W(q) /\ data'[W(q)'] = data[W(q)]
        BY <4>1, <4>3
      <4> QED BY <1>0, <4>1, <4>2, <4>4 DEF SnapAt, CopiedTo, Uniform
    <3> QED BY <2>1, <3>1 DEF SnapOwn
  <2>3. Whole'
    <3>1. Busy(W(p))' \/ Uniform(data'[W(p)])
      <4>1. proc'[p].pc \in BusyPCs => \E q \in Proc : proc'[q].w = W(p) /\ proc'[q].pc \in BusyPCs
        BY <2>1
      <4> QED BY <2>1, <4>1 DEF SnapOwn, Busy, W
    <3>2. ASSUME NEW w \in Worktree \ {W(p)}, ~Uniform(data'[w]) PROVE Busy(w)'
      <4>1. data'[w] = data[w]
        BY <2>1 DEF OnlyOwnData
      <4>2. PICK q \in Proc : W(q) = w /\ proc[q].pc \in BusyPCs
        BY <3>2, <4>1 DEF SnapInv, Whole, Busy
      <4>3. proc'[q] = proc[q]
        BY <2>1, <4>2 DEF Others
      <4> QED BY <4>2, <4>3 DEF Busy, W
    <3>3. \A w \in Worktree : (\E q \in Proc : proc'[q].w = w /\ proc'[q].pc \in BusyPCs) \/ Uniform(data'[w])
      BY <2>1, <3>1, <3>2 DEF SnapOwn, Busy, W
    <3> QED BY <3>3 DEF Whole, Busy, W
  <2>4. \A w \in Worktree : \A b \in booted'[w] : Uniform(b)
    <3>1. \A w \in Worktree \ {W(p)} : booted'[w] = booted[w]
      BY <2>1 DEF TreeStep
    <3>2. booted'[W(p)] \subseteq booted[W(p)] \/ (ComposeUp(p) /\ booted'[W(p)] = {data[W(p)]})
      <4>1. CASE AddGitWorktree(p)
        BY <2>1, <4>1 DEF AddGitWorktree, TypeInv, Boots
      <4>2. CASE ComposeUp(p)
        BY <2>1, <4>2 DEF ComposeUp, TypeInv, Boots, runtime
      <4>3. CASE ~AddGitWorktree(p) /\ ~ComposeUp(p)
        <5>1. booted' = booted
          BY <1>2, <4>3, StepCases DEF Kill, Calm, Preflight, StopMain, ListWorktrees, ResolveTarget, RestartMain,
                 CleanTarget,
             EnterWorktree, WorktreeEnvHasState, AssertSafeMainEnvClone, BeginCopy, EndCopy, EnsureLayout,
             CleanContainers,
             CleanVolumes, CleanFiles, CleanDataRoots, CleanCheck, GcScan, GcNext, EmptyBase, FillBase, runtime
        <5> QED BY <5>1
      <4> QED BY <4>1, <4>2, <4>3
    <3>3. ComposeUp(p) => Uniform(data[W(p)])
      <4>1. ASSUME ComposeUp(p), NEW q \in Proc, W(q) = W(p), proc[q].pc \in BusyPCs PROVE FALSE
        <5>1. proc[p].pc = "up"
          BY <4>1 DEF ComposeUp, At
        <5>2. Active(p) /\ Active(q)
          BY <4>1, <5>1 DEF Active, BusyPCs, TypeInv, ProcOK, Placed, OpsAt, Exclusive, Healthy, OneRun, Calm
        <5> QED BY <4>1, <5>1, <5>2 DEF Exclusive, BusyPCs
      <4> QED BY <2>1, <4>1 DEF SnapInv, Whole, Busy
    <3> QED BY <3>1, <3>2, <3>3 DEF SnapInv
  <2> QED BY <1>0, <2>2, <2>3, <2>4 DEF SnapInv, Uniform
<1>3. CASE (UserStep \/ UNCHANGED vars) /\ proc' = proc
  <2>1. UNCHANGED <<data, booted>>
    BY <1>3, UserSteps
  <2>2. \A p \in Proc : SnapAt(p)'
    BY <1>0, <1>3, <2>1 DEF SnapInv, SnapAt, CopiedTo, Uniform, W
  <2> QED BY <1>0, <1>3, <2>1, <2>2 DEF SnapInv, Whole, Busy, Uniform, W
<1> QED BY <1>1, <1>2, <1>3, ProcStep DEF TypeInv, Basics

(* Under these conditions the first boot of every worktree finds one whole snapshot of    *)
(* main: every storage comes from the same version, none is half copied, none is missing  *)
(* (worktree-state.ts, worktree-env.ts).  The inductive invariant follows each clone      *)
(* storage by storage: what lies before the copy is main's present version, and main does *)
(* not write under it.                                                                    *)
THEOREM FirstBootIsOneSnapshot == ASSUME Calm PROVE Spec => []OneSnapshot
<1>1. Init => SnapInv
  <2>1. Idle.pc = "idle" /\ Idle.restart = FALSE
    BY DEF Idle
  <2> QED BY <2>1, ContentsDiffer DEF Init, SnapInv, BaseKept, Whole, SnapAt, Uniform
<1>2. TypeInv /\ FreshInv /\ Exclusive /\ CleanInv /\ VolumesInv /\ SnapInv /\ [Next]_vars => SnapInv'
  BY SnapStep
<1>3. Spec => [](TypeInv /\ FreshInv /\ Exclusive /\ CleanInv /\ VolumesInv)
  BY VolumesInvariant DEF Calm
<1>4. SnapInv => OneSnapshot
  BY DEF SnapInv, OneSnapshot, Uniform
<1> QED BY <1>1, <1>2, <1>3, <1>4, PTL DEF Spec
=============================================================================
